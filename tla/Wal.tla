-------------------------------- MODULE Wal --------------------------------
(***************************************************************************)
(* The write-ahead log file of core/src/wal/bms_wal.c with the append path *)
(* of core/src/storage/bms_jsonl_store.c under it: one JSON line per       *)
(* record, appended by a single process, inspected when the application    *)
(* starts and compacted by the recovery command through a temporary file.  *)
(*                                                                         *)
(* A line is what a reader makes of it: fgets delivers the bytes up to a   *)
(* newline and every field is taken from its first occurrence, so of two   *)
(* records on one line only the first is seen.  An interrupted append      *)
(* leaves a "cut" line, or a complete one that lacks only its newline      *)
(* ("open"); the next append, made with fopen(.., "a"), joins that line.   *)
(***************************************************************************)
EXTENDS Integers, FiniteSets

CONSTANTS
  Txn,                \* transaction ids (each run of a workflow draws a new uuid)
  MaxTransactions,    \* BMS_WAL_MAX_TRANSACTIONS, the scan's table size
  Torn,               \* how an interrupted append may end: subset of {"cut", "open"}
  SnapshotMissing,    \* a required snapshot was named and does not exist
  NoFile, NoRec

Record == [seq : Nat, txn : Txn, state : {"pending", "committed"}]

ASSUME WalAssumption ==
  /\ MaxTransactions \in Nat
  /\ Torn \subseteq {"cut", "open"}
  /\ SnapshotMissing \in BOOLEAN
  /\ NoRec \notin Record

VARIABLES
  lines,     \* the file: a set of lines, ordered by their position
  grown,     \* lines ever started; the position of the newest one
  temp,      \* the ".recovering" copy, or NoFile
  session,   \* the process using the file
  fate       \* what the program has done with each transaction so far

vars == <<lines, grown, temp, session, fate>>

Line == [at     : Nat,
         head   : Record \cup {NoRec},     \* what every reader extracts
         hidden : SUBSET (Record \cup {NoRec}),   \* records, or parts, joined behind it
         form   : {"whole", "open", "cut", "garbled"}]

Fate == {"fresh", "open", "abandoned", "done"}

TypeOK ==
  /\ lines \in SUBSET Line
  /\ IsFiniteSet(lines)
  /\ grown \in Nat
  /\ temp \in {NoFile} \cup SUBSET Line
  /\ session \in {"down", "up", "recovering"}
  /\ fate \in [Txn -> Fate]

Init ==
  /\ lines = {}
  /\ grown = 0
  /\ temp = NoFile
  /\ session = "down"
  /\ fate = [t \in Txn |-> "fresh"]

-----------------------------------------------------------------------------
(* Reading the file.                                                       *)

Readable(line) == line.form \in {"whole", "open"}

Says(file, t, s) ==
  \E line \in file : Readable(line) /\ line.head.txn = t /\ line.head.state = s

(* bms_jsonl_verify_file stops at the first line that does not verify.     *)
Verified(file) == \A line \in file : Readable(line)

(* Variant: the table filled by lines instead of transactions.             *)
ScannedLines(file) == {line.at : line \in file}

Scanned(file) == {line.head.txn : line \in file}

(* Variant: one committed record settles the whole file.                   *)
UncommittedUnlessAny(file) ==
  {t \in Txn : Says(file, t, "pending") /\ \A u \in Txn : ~Says(file, u, "committed")}

Uncommitted(file) ==
  {t \in Txn : Says(file, t, "pending") /\ ~Says(file, t, "committed")}

Decision(file) ==
  IF ~Verified(file) THEN "PROTECTED_READ_ONLY"
  ELSE IF Cardinality(Scanned(file)) > MaxTransactions THEN "PROTECTED_READ_ONLY"
  ELSE IF Uncommitted(file) # {} THEN "PENDING_ROLLBACK"
  ELSE IF SnapshotMissing /\ \E t \in Txn : Says(file, t, "committed")
       THEN "COMMITTED_MISSING_SNAPSHOT"
  ELSE "CLEAN"

(* compact_uncommitted_pending copies every other line as it stands.       *)
Compacted(file) ==
  {line \in file : ~(line.head.state = "pending" /\ line.head.txn \in Uncommitted(file))}

-----------------------------------------------------------------------------
(* Writing: next sequence, then one line at the end of the file.           *)

(* Variants: the number of the last line, and its index from zero.         *)
NextSequenceOfLast(file) == IF file = {} THEN 1 ELSE Cardinality(file)

NextSequenceFromIndex(file) == Cardinality(file) - 1

NextSequence(file) == Cardinality(file) + 1

Unended(file) == {line \in file : line.at = grown /\ line.form \in {"open", "cut"}}

(* A line that verifies does so whatever follows on it: each field is      *)
(* taken from its first occurrence.                                        *)
Joined(line, rec, form) ==
  [line EXCEPT
     !.hidden = @ \cup {IF form = "cut" THEN NoRec ELSE rec},
     !.form   = IF @ = "open" THEN (IF form = "whole" THEN "whole" ELSE "open")
                ELSE IF form = "whole" THEN "garbled" ELSE "cut"]

AppendRecord(t, s, form) ==
  LET rec == [seq |-> NextSequence(lines), txn |-> t, state |-> s] IN
  /\ ~Says(lines, t, s)                       \* duplicate key refused
  /\ IF Unended(lines) # {}
     THEN /\ lines' = (lines \ Unended(lines))
                        \cup {Joined(line, rec, form) : line \in Unended(lines)}
          /\ UNCHANGED grown
     ELSE /\ lines' = lines \cup
               {[at |-> grown + 1, head |-> IF form = "cut" THEN NoRec ELSE rec,
                 hidden |-> {}, form |-> form]}
          /\ grown' = grown + 1

-----------------------------------------------------------------------------
(* A running application.                                                  *)

StartApplication ==
  /\ session = "down"
  /\ Decision(lines) = "CLEAN"
  /\ session' = "up"
  /\ UNCHANGED <<lines, grown, temp, fate>>

AppendPending(t) ==
  /\ session = "up" /\ fate[t] = "fresh"
  /\ AppendRecord(t, "pending", "whole")
  /\ fate' = [fate EXCEPT ![t] = "open"]
  /\ UNCHANGED <<temp, session>>

AppendCommitted(t) ==
  /\ session = "up" /\ fate[t] = "open"
  /\ AppendRecord(t, "committed", "whole")
  /\ fate' = [fate EXCEPT ![t] = "done"]
  /\ UNCHANGED <<temp, session>>

(* An exception between the two appends; the session goes on.              *)
Abandon(t) ==
  /\ session = "up" /\ fate[t] = "open"
  /\ fate' = [fate EXCEPT ![t] = "abandoned"]
  /\ UNCHANGED <<lines, grown, temp, session>>

Interrupted == [t \in Txn |-> IF fate[t] = "open" THEN "abandoned" ELSE fate[t]]

(* An append that failed half-way, as an exception or as a crash.          *)
TornAppend(t, form) ==
  /\ session = "up" /\ session' \in {"up", "down"}
  /\ \/ /\ fate[t] = "fresh"
        /\ AppendRecord(t, "pending", form)
        /\ fate' = [IF session' = "up" THEN fate ELSE Interrupted EXCEPT
                      ![t] = IF form = "cut" THEN "fresh" ELSE "abandoned"]
     \/ /\ fate[t] = "open"
        /\ AppendRecord(t, "committed", form)
        /\ fate' = [IF session' = "up" THEN fate ELSE Interrupted EXCEPT
                      ![t] = IF form = "cut" THEN "abandoned" ELSE "done"]
  /\ UNCHANGED temp

Crash ==
  /\ session = "up"
  /\ session' = "down"
  /\ fate' = Interrupted
  /\ UNCHANGED <<lines, grown, temp>>

-----------------------------------------------------------------------------
(* The recovery command.                                                   *)

(* reconcile_recovery_transaction ends by committing a pending transaction;*)
(* it reads the log as JSON first, which fails on two records in one line. *)
CommitReconciled(t) ==
  /\ session = "down"
  /\ Verified(lines) /\ \A line \in lines : line.hidden = {}
  /\ t \in Uncommitted(lines)
  /\ AppendRecord(t, "committed", "whole")
  /\ fate' = [fate EXCEPT ![t] = "done"]
  /\ UNCHANGED <<temp, session>>

(* Variant: the copy opened exclusively.                                   *)
WriteTempExclusive ==
  /\ temp = NoFile
  /\ session = "down"
  /\ Decision(lines) = "PENDING_ROLLBACK"
  /\ temp' = Compacted(lines)
  /\ session' = "recovering"
  /\ UNCHANGED <<lines, grown, fate>>

WriteTemp ==
  /\ session = "down"
  /\ Decision(lines) = "PENDING_ROLLBACK"
  /\ temp' = Compacted(lines)
  /\ session' = "recovering"
  /\ UNCHANGED <<lines, grown, fate>>

RenameTemp ==
  /\ session = "recovering"
  /\ lines' = temp
  /\ temp' = NoFile
  /\ session' = "down"
  /\ UNCHANGED <<grown, fate>>

(* Variant: the log rewritten in place.                                    *)
RecoveryStopsInPlace ==
  /\ session = "recovering"
  /\ session' = "down"
  /\ lines' \in SUBSET temp
  /\ temp' = NoFile
  /\ UNCHANGED <<grown, fate>>

(* A failed copy is removed; a crash leaves it behind, to be overwritten.  *)
RecoveryStops ==
  /\ session = "recovering"
  /\ session' = "down"
  /\ temp' \in {NoFile, temp}
  /\ UNCHANGED <<lines, grown, fate>>

Next ==
  \/ StartApplication \/ Crash
  \/ WriteTemp \/ RenameTemp \/ RecoveryStops
  \/ \E t \in Txn :
       \/ AppendPending(t) \/ AppendCommitted(t) \/ Abandon(t)
       \/ CommitReconciled(t)
       \/ \E form \in Torn : TornAppend(t, form)

Spec == Init /\ [][Next]_vars

(* The operator repeats the recovery command until the copy goes through.  *)
Fairness == WF_vars(WriteTemp) /\ SF_vars(RenameTemp)

FairSpec == Spec /\ Fairness

-----------------------------------------------------------------------------
(* Properties.                                                             *)

Durable(t, s) ==
  \E line \in lines : \E rec \in {line.head} \cup line.hidden :
    rec # NoRec /\ rec.txn = t /\ rec.state = s

LogStatus ==
  [t \in Txn |-> IF Durable(t, "committed") THEN "committed"
                 ELSE IF Durable(t, "pending") THEN "pending"
                 ELSE IF fate[t] = "fresh" THEN "absent" ELSE "rolledback"]

Log == INSTANCE TxnLog WITH status <- LogStatus

(* The file behaves as the log it stands for: every append, torn append,   *)
(* crash, interrupted compaction and rename is a step of TxnLog or none.   *)
(* In particular a compaction removes all pending transactions or, when it *)
(* is interrupted, none, and it never loses a committed one.               *)
LogRefinement == Log!Spec

(* bms_wal_inspect_startup lets the application start only on a file in    *)
(* which no transaction is left between its pending and committed records. *)
NoFalseClean ==
  Decision(lines) = "CLEAN" => \A t \in Txn : LogStatus[t] # "pending"

(* Conversely, an undamaged file without pending transactions is one the   *)
(* application starts on: nothing else makes the inspection refuse it.     *)
SettledStartsClean ==
  (Verified(lines) /\ \A t \in Txn : LogStatus[t] # "pending")
    => Decision(lines) = "CLEAN"

(* Until a compaction removes a line the numbers of the records rise along *)
(* the file: torn lines, lines continued by the next record, refusals and  *)
(* restarts make no number appear twice.                                   *)
NumbersRise ==
  grown = Cardinality(lines) =>
    \A first, second \in {line \in lines : Readable(line)} :
      first.at < second.at => first.head.seq < second.head.seq

(* A crash in the recovery command is no obstacle to recovery: a log that  *)
(* needs a rollback gets one and is then clean.                            *)
RecoveryReachesClean ==
  (session = "down" /\ Decision(lines) = "PENDING_ROLLBACK")
    ~> (Decision(lines) = "CLEAN")
=============================================================================
