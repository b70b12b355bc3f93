---------------------------- MODULE MCLifecycle -----------------------------
(* Instances of Lifecycle for TLC. *)
EXTENDS Lifecycle

CONSTANTS r1, r2, l1, l2

TwoRequests == {r1, r2}
TwoLoops == {l1, l2}
AllTasks == TwoRequests \cup TwoLoops
=============================================================================
