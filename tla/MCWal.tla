------------------------------- MODULE MCWal -------------------------------
(***************************************************************************)
(* Wal on a handful of transactions.                                       *)
(***************************************************************************)
EXTENDS Wal, TLC

Symmetry == Permutations(Txn)
=============================================================================
