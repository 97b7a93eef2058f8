------------------------------ MODULE MCBackup ------------------------------
(***************************************************************************)
(* The log, counted first and archived last; the events, archived first;   *)
(* and the roles between them.  A role change appends nothing.             *)
(***************************************************************************)
EXTENDS Backup, TLC

CONSTANTS wal, events, roles, n1, t1

Counting == <<wal, events>>
Archiving == <<events, roles, wal>>
Records == wal :> 1 @@ events :> 2 @@ roles :> 0
=============================================================================
