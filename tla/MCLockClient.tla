---------------------------- MODULE MCLockClient ----------------------------
(* Instances of LockClient for TLC. *)
EXTENDS LockClient, TLC

SymmetricTxns == Permutations(Txns)
=============================================================================
