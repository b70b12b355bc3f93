------------------------------ MODULE TaskPool ------------------------------
(***************************************************************************)
(* What ThreadPool promises (thread_pool.h): a task that is added is run,  *)
(* once, by some thread, and the pool is not closed before all the tasks   *)
(* it was given have been run to their end.                                *)
(***************************************************************************)
CONSTANT Tasks

VARIABLES
    progress,   \* [Tasks -> {"new", "added", "running", "done"}]
    open        \* the pool exists

Init ==
    /\ progress = [t \in Tasks |-> "new"]
    /\ open = TRUE

Move(t, from, to) ==
    /\ progress[t] = from
    /\ progress' = [progress EXCEPT ![t] = to]
    /\ UNCHANGED open

Add(t)   == open /\ Move(t, "new", "added")
Begin(t) == Move(t, "added", "running")
End(t)   == Move(t, "running", "done")

Close ==
    /\ open
    /\ \A t \in Tasks : progress[t] \in {"new", "done"}
    /\ open' = FALSE
    /\ UNCHANGED progress

Next == Close \/ \E t \in Tasks : Add(t) \/ Begin(t) \/ End(t)
Spec == Init /\ [][Next]_<<progress, open>>
=============================================================================
