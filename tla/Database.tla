------------------------------ MODULE Database ------------------------------
(* What every part of a TxnProcessor is about. *)
CONSTANTS
    Txns,       \* the Txn objects that its client will submit, each once
    Keys        \* the records of the database
=============================================================================
