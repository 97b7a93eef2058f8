------------------------------- MODULE TxnLog -------------------------------
(***************************************************************************)
(* What the write-ahead log promises to everything built on it, with no    *)
(* files, lines or temporary copies: a transaction is begun once, becomes  *)
(* committed or is rolled back, and nothing that was committed is ever     *)
(* undone.  Wal (the C file) and Workflows (the Python services, which use *)
(* the log) are both checked to implement this module.                     *)
(***************************************************************************)

CONSTANT Txn

VARIABLE status          \* what the log says of each transaction

Status == {"absent", "pending", "committed", "rolledback"}

TypeOK == status \in [Txn -> Status]

Init == status = [t \in Txn |-> "absent"]

Begin(t) ==
  /\ status[t] = "absent"
  /\ status' = [status EXCEPT ![t] = "pending"]

Commit(t) ==
  /\ status[t] = "pending"
  /\ status' = [status EXCEPT ![t] = "committed"]

(* Recovery drops every pending transaction at once, never only some.      *)
RollbackPending ==
  /\ \E t \in Txn : status[t] = "pending"
  /\ status' = [t \in Txn |-> IF status[t] = "pending" THEN "rolledback"
                                                       ELSE status[t]]

Next == RollbackPending \/ \E t \in Txn : Begin(t) \/ Commit(t)

Spec == Init /\ [][Next]_status
=============================================================================
