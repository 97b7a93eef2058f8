----------------------------- MODULE WalProofs -----------------------------
(***************************************************************************)
(* Theorems about Wal, for every set of transactions and every capacity.   *)
(*                                                                         *)
(* TypeOK and NumbersRise hold however appends are torn.  The others assume*)
(* that no append loses just its newline (with such an append TLC finds    *)
(* that NoFalseClean fails): NoFalseClean, SettledStartsClean, and that    *)
(* the file implements TxnLog.                                             *)
(***************************************************************************)
EXTENDS Wal, FiniteSetTheorems, TLAPS

LEMMA NoRecIsNoRecord == NoRec \notin Record
  BY WalAssumption

LEMMA TornForms == Torn \subseteq {"cut", "open"}
  BY WalAssumption

-----------------------------------------------------------------------------
(* Type correctness.  The copy the recovery command will rename into place *)
(* holds lines of the log only.                                            *)

TypeInv == TypeOK /\ (session = "recovering" => temp \in SUBSET lines)

(* The record an append writes is a record, whatever the file.             *)
LEMMA NextSequenceType ==
  ASSUME NEW file, IsFiniteSet(file)
  PROVE  NextSequence(file) \in Nat
  BY FS_CardinalityType DEF NextSequence

(* An append keeps the file a finite set of lines.                         *)
LEMMA AppendType ==
  ASSUME TypeOK, NEW t \in Txn, NEW s \in {"pending", "committed"},
         NEW form \in {"whole", "cut", "open"},
         AppendRecord(t, s, form)
  PROVE  /\ lines' \in SUBSET Line
         /\ IsFiniteSet(lines')
         /\ grown' \in Nat
<1> DEFINE rec == [seq |-> NextSequence(lines), txn |-> t, state |-> s]
           joined == {Joined(line, rec, form) : line \in Unended(lines)}
           added == [at |-> grown + 1, head |-> IF form = "cut" THEN NoRec ELSE rec,
                     hidden |-> {}, form |-> form]
<1>1. rec \in Record
  BY NextSequenceType DEF TypeOK, Record
<1>2. CASE Unended(lines) # {}
  <2>1. lines' = (lines \ Unended(lines)) \cup joined /\ grown' = grown
    BY <1>2 DEF AppendRecord
  <2>2. Unended(lines) \in SUBSET lines /\ IsFiniteSet(Unended(lines))
    BY FS_Subset DEF Unended, TypeOK
  <2>3. joined \in SUBSET Line
    <3> SUFFICES ASSUME NEW line \in Unended(lines) PROVE Joined(line, rec, form) \in Line
      OBVIOUS
    <3>1. line \in Line
      BY <2>2 DEF TypeOK
    <3>. QED  BY <1>1, <3>1 DEF Joined, Line
  <2>4. IsFiniteSet(joined)
    <3> DEFINE f == [line \in Unended(lines) |-> Joined(line, rec, form)]
    <3>1. f \in Surjection(Unended(lines), joined)
      BY DEF Surjection
    <3>. QED  BY <2>2, <3>1, FS_Surjection
  <2>5. IsFiniteSet(lines \ Unended(lines))
    BY FS_Subset DEF TypeOK
  <2>. QED  BY <2>1, <2>3, <2>4, <2>5, FS_Union DEF TypeOK
<1>3. CASE Unended(lines) = {}
  <2>1. lines' = lines \cup {added} /\ grown' = grown + 1
    BY <1>3 DEF AppendRecord
  <2>2. added \in Line
    BY <1>1 DEF Line, TypeOK
  <2> HIDE DEF added
  <2>3. IsFiniteSet(lines \cup {added})
    BY FS_AddElement DEF TypeOK
  <2>. QED  BY <2>1, <2>2, <2>3 DEF TypeOK
<1>. QED  BY <1>2, <1>3

LEMMA InterruptedType ==
  ASSUME TypeOK
  PROVE  Interrupted \in [Txn -> Fate]
  BY DEF Interrupted, TypeOK, Fate

(* Every variable keeps its type, and the file stays finite, in every      *)
(* behaviour of the log, however its appends and its recovery end.         *)
LEMMA TypeInvariance == Spec => []TypeInv
<1>1. Init => TypeInv
  BY FS_EmptySet DEF Init, TypeInv, TypeOK, Fate
<1>2. TypeInv /\ [Next]_vars => TypeInv'
  <2> SUFFICES ASSUME TypeInv, [Next]_vars PROVE TypeInv'
    OBVIOUS
  <2> USE DEF TypeInv
  <2>1. CASE StartApplication
    BY <2>1 DEF StartApplication, TypeOK
  <2>2. CASE Crash
    BY <2>2, InterruptedType DEF Crash, TypeOK
  <2>3. CASE WriteTemp
    <3>1. Compacted(lines) \in SUBSET lines
      BY DEF Compacted
    <3>. QED  BY <2>3, <3>1 DEF WriteTemp, TypeOK
  <2>4. CASE RenameTemp
    <3>1. IsFiniteSet(temp) /\ temp \in SUBSET Line
      BY <2>4, FS_Subset DEF RenameTemp, TypeOK
    <3>. QED  BY <2>4, <3>1 DEF RenameTemp, TypeOK
  <2>5. CASE RecoveryStops
    BY <2>5 DEF RecoveryStops, TypeOK
  <2>6. ASSUME NEW t \in Txn, AppendPending(t) PROVE TypeInv'
    BY <2>6, AppendType DEF AppendPending, TypeOK, Fate
  <2>7. ASSUME NEW t \in Txn, AppendCommitted(t) PROVE TypeInv'
    BY <2>7, AppendType DEF AppendCommitted, TypeOK, Fate
  <2>8. ASSUME NEW t \in Txn, Abandon(t) PROVE TypeInv'
    BY <2>8 DEF Abandon, TypeOK, Fate
  <2>9. ASSUME NEW t \in Txn, CommitReconciled(t) PROVE TypeInv'
    BY <2>9, AppendType DEF CommitReconciled, TypeOK, Fate
  <2>10. ASSUME NEW t \in Txn, NEW form \in Torn, TornAppend(t, form) PROVE TypeInv'
    <3>1. form \in {"cut", "open"}
      BY TornForms
    <3>2. \E s \in {"pending", "committed"} : AppendRecord(t, s, form)
      BY <2>10 DEF TornAppend
    <3>3. lines' \in SUBSET Line /\ IsFiniteSet(lines') /\ grown' \in Nat
      BY <3>1, <3>2, AppendType
    <3>4. fate' \in [Txn -> Fate]
      BY <2>10, InterruptedType DEF TornAppend, TypeOK, Fate
    <3>5. session' \in {"up", "down"} /\ UNCHANGED temp
      BY <2>10 DEF TornAppend
    <3>. QED  BY <3>3, <3>4, <3>5 DEF TypeOK
  <2>11. CASE UNCHANGED vars
    BY <2>11 DEF vars, TypeOK
  <2>. QED  BY <2>1, <2>2, <2>3, <2>4, <2>5, <2>6, <2>7, <2>8, <2>9, <2>10, <2>11 DEF Next
<1>. QED  BY <1>1, <1>2, PTL DEF Spec

(* The file is always a finite set of lines.                               *)
THEOREM TypeCorrect == Spec => []TypeOK
<1>1. TypeInv => TypeOK
  BY DEF TypeInv
<1>. QED  BY <1>1, TypeInvariance, PTL

-----------------------------------------------------------------------------
(* The inductive invariant behind the other two theorems.  A line that     *)
(* verifies holds exactly one record; what the program believes of a       *)
(* transaction agrees with the file; and while a copy waits to be renamed  *)
(* the log it was made from is undamaged and has not moved.                *)

WholeInv ==
  \A line \in lines :
    /\ line.form # "open"
    /\ line.form = "whole" => line.head \in Record /\ line.hidden = {}

FateInv ==
  \A t \in Txn :
    /\ fate[t] = "fresh" => ~Durable(t, "pending") /\ ~Durable(t, "committed")
    /\ fate[t] = "open" =>
         session = "up" /\ Durable(t, "pending") /\ ~Durable(t, "committed")
    /\ fate[t] = "abandoned" => ~Durable(t, "committed")
    /\ fate[t] = "done" => Durable(t, "committed")

RecoveringInv ==
  session = "recovering" =>
    temp = Compacted(lines) /\ Decision(lines) = "PENDING_ROLLBACK"

IInv == TypeOK /\ WholeInv /\ FateInv /\ RecoveringInv

(* The records of one line.                                                *)
Carries(line, t, s) ==
  \E rec \in {line.head} \cup line.hidden :
    rec # NoRec /\ rec.txn = t /\ rec.state = s

(* An append adds its record to what the file says, or nothing when cut.   *)
LEMMA AppendEffect ==
  ASSUME TypeOK, WholeInv, NEW t \in Txn, NEW s \in {"pending", "committed"},
         NEW form \in {"whole", "cut"}, AppendRecord(t, s, form)
  PROVE  /\ WholeInv'
         /\ \A u \in Txn, w \in {"pending", "committed"} :
              Durable(u, w)' <=> Durable(u, w) \/ (form = "whole" /\ u = t /\ w = s)
<1> DEFINE rec == [seq |-> NextSequence(lines), txn |-> t, state |-> s]
           New(u, w) == form = "whole" /\ u = t /\ w = s
<1>1. rec \in Record /\ rec # NoRec
  BY NextSequenceType, NoRecIsNoRecord DEF TypeOK, Record
<1>2. rec.txn = t /\ rec.state = s
  OBVIOUS
<1> HIDE DEF rec
<1>3. CASE Unended(lines) # {}
  <2>1. lines' = (lines \ Unended(lines))
                   \cup {Joined(line, rec, form) : line \in Unended(lines)}
    BY <1>3 DEF AppendRecord, rec
  <2>2. ASSUME NEW line \in Unended(lines)
        PROVE  /\ Joined(line, rec, form).form \in {"garbled", "cut"}
               /\ Joined(line, rec, form).head = line.head
               /\ Joined(line, rec, form).hidden =
                    line.hidden \cup {IF form = "cut" THEN NoRec ELSE rec}
    <3>1. line \in Line /\ line.form = "cut"
      BY DEF Unended, WholeInv, TypeOK
    <3>. QED  BY <3>1 DEF Joined, Line
  <2>3. WholeInv'
    BY <2>1, <2>2 DEF WholeInv
  <2>4. ASSUME NEW line \in Unended(lines), NEW u \in Txn, NEW w \in {"pending", "committed"}
        PROVE  Carries(Joined(line, rec, form), u, w) <=> Carries(line, u, w) \/ New(u, w)
    BY <2>2, <1>1, <1>2 DEF Carries
  <2>5. ASSUME NEW u \in Txn, NEW w \in {"pending", "committed"}
        PROVE  Durable(u, w)' <=> Durable(u, w) \/ New(u, w)
    <3>1. Durable(u, w) <=> \E line \in lines : Carries(line, u, w)
      BY DEF Durable, Carries
    <3>2. Durable(u, w)' <=> \E line \in lines' : Carries(line, u, w)
      BY DEF Durable, Carries
    <3>3. Unended(lines) \in SUBSET lines
      BY DEF Unended
    <3>. QED  BY <3>1, <3>2, <3>3, <2>1, <2>4, <1>3
  <2>. QED  BY <2>3, <2>5
<1>4. CASE Unended(lines) = {}
  <2> DEFINE added == [at |-> grown + 1, head |-> IF form = "cut" THEN NoRec ELSE rec,
                       hidden |-> {}, form |-> form]
  <2>1. lines' = lines \cup {added}
    BY <1>4 DEF AppendRecord, rec
  <2>2. WholeInv'
    BY <2>1, <1>1 DEF WholeInv
  <2>3. ASSUME NEW u \in Txn, NEW w \in {"pending", "committed"}
        PROVE  Carries(added, u, w) <=> New(u, w)
    BY <1>1, <1>2 DEF Carries
  <2> HIDE DEF added
  <2>4. ASSUME NEW u \in Txn, NEW w \in {"pending", "committed"}
        PROVE  Durable(u, w)' <=> Durable(u, w) \/ New(u, w)
    <3>1. Durable(u, w) <=> \E line \in lines : Carries(line, u, w)
      BY DEF Durable, Carries
    <3>2. Durable(u, w)' <=> \E line \in lines' : Carries(line, u, w)
      BY DEF Durable, Carries
    <3>. QED  BY <3>1, <3>2, <2>1, <2>3
  <2>. QED  BY <2>2, <2>4
<1>. QED  BY <1>3, <1>4

(* On an undamaged file the scan sees exactly what the file says.          *)
LEMMA ScanIsExact ==
  ASSUME TypeOK, WholeInv, Verified(lines), NEW t \in Txn,
         NEW s \in {"pending", "committed"}
  PROVE  Says(lines, t, s) <=> Durable(t, s)
<1>1. ASSUME NEW line \in lines
      PROVE  /\ Readable(line) /\ line.head \in Record
             /\ line.hidden = {} /\ line.head # NoRec
  BY NoRecIsNoRecord DEF Verified, Readable, WholeInv
<1>. QED  BY <1>1 DEF Says, Durable

LEMMA DecisionReads ==
  /\ Decision(lines) = "CLEAN" => Verified(lines) /\ Uncommitted(lines) = {}
  /\ Decision(lines) = "PENDING_ROLLBACK" =>
       Verified(lines) /\ Uncommitted(lines) # {}
  BY DEF Decision

(* What the rename does: every uncommitted transaction disappears, and     *)
(* nothing is lost of any other.                                           *)
LEMMA CompactionEffect ==
  ASSUME TypeOK, WholeInv, Verified(lines), NEW t \in Txn,
         lines' = Compacted(lines)
  PROVE  /\ Durable(t, "committed")' <=> Durable(t, "committed")
         /\ Durable(t, "pending")' <=>
              Durable(t, "pending") /\ t \notin Uncommitted(lines)
<1>1. ASSUME NEW line \in lines
      PROVE  /\ Readable(line) /\ line.head \in Record
             /\ line.hidden = {} /\ line.head # NoRec
  BY NoRecIsNoRecord DEF Verified, Readable, WholeInv
<1>2. lines' \in SUBSET lines
  BY DEF Compacted
<1>3. ASSUME NEW w \in {"pending", "committed"}
      PROVE  /\ Durable(t, w) <=> \E line \in lines : line.head.txn = t /\ line.head.state = w
             /\ Durable(t, w)' <=> \E line \in lines' : line.head.txn = t /\ line.head.state = w
  BY <1>1, <1>2 DEF Durable
<1>4. Durable(t, "committed")' <=> Durable(t, "committed")
  BY <1>2, <1>3 DEF Compacted
<1>5. Durable(t, "pending")' <=> Durable(t, "pending") /\ t \notin Uncommitted(lines)
  BY <1>2, <1>3 DEF Compacted
<1>. QED  BY <1>4, <1>5

-----------------------------------------------------------------------------
(* Steps that leave the file alone.                                        *)
LEMMA SameFile ==
  ASSUME UNCHANGED lines
  PROVE  /\ WholeInv => WholeInv'
         /\ \A u \in Txn, w \in {"pending", "committed"} : Durable(u, w)' <=> Durable(u, w)
  BY DEF WholeInv, Durable

LEMMA InitIInv == Init => IInv
<1> SUFFICES ASSUME Init PROVE IInv
  OBVIOUS
<1>1. TypeOK
  BY FS_EmptySet DEF Init, TypeOK, Fate
<1>2. WholeInv /\ RecoveringInv
  BY DEF Init, WholeInv, RecoveringInv
<1>3. FateInv
  BY DEF Init, FateInv, Durable
<1>. QED  BY <1>1, <1>2, <1>3 DEF IInv

LEMMA StepIInv ==
  ASSUME "open" \notin Torn, IInv, TypeOK', [Next]_vars
  PROVE  IInv'
<1> USE DEF IInv
<1>1. CASE StartApplication
  BY <1>1, SameFile DEF StartApplication, FateInv, RecoveringInv
<1>2. CASE Crash
  <2>1. FateInv'
    BY <1>2, SameFile DEF Crash, Interrupted, FateInv, TypeOK, Fate
  <2>. QED  BY <1>2, <2>1, SameFile DEF Crash, RecoveringInv
<1>3. CASE WriteTemp
  <2>1. FateInv'
    BY <1>3, SameFile DEF WriteTemp, FateInv
  <2>2. RecoveringInv'
    BY <1>3 DEF WriteTemp, RecoveringInv
  <2>. QED  BY <1>3, <2>1, <2>2, SameFile DEF WriteTemp
<1>4. CASE RenameTemp
  <2>1. lines' = Compacted(lines) /\ Verified(lines)
    BY <1>4, DecisionReads DEF RenameTemp, RecoveringInv
  <2>2. WholeInv'
    BY <2>1 DEF Compacted, WholeInv
  <2>3. FateInv'
    BY <1>4, <2>1, CompactionEffect DEF RenameTemp, FateInv
  <2>. QED  BY <1>4, <2>2, <2>3 DEF RenameTemp, RecoveringInv
<1>5. CASE RecoveryStops
  <2>1. FateInv'
    BY <1>5, SameFile DEF RecoveryStops, FateInv
  <2>. QED  BY <1>5, <2>1, SameFile DEF RecoveryStops, RecoveringInv
<1>6. ASSUME NEW t \in Txn, AppendPending(t) PROVE IInv'
  <2>1. /\ WholeInv'
        /\ \A u \in Txn, w \in {"pending", "committed"} :
             Durable(u, w)' <=> Durable(u, w) \/ (u = t /\ w = "pending")
    BY <1>6, AppendEffect DEF AppendPending
  <2>2. FateInv'
    BY <1>6, <2>1 DEF AppendPending, FateInv, TypeOK, Fate
  <2>. QED  BY <1>6, <2>1, <2>2 DEF AppendPending, RecoveringInv
<1>7. ASSUME NEW t \in Txn, AppendCommitted(t) PROVE IInv'
  <2>1. /\ WholeInv'
        /\ \A u \in Txn, w \in {"pending", "committed"} :
             Durable(u, w)' <=> Durable(u, w) \/ (u = t /\ w = "committed")
    BY <1>7, AppendEffect DEF AppendCommitted
  <2>2. FateInv'
    BY <1>7, <2>1 DEF AppendCommitted, FateInv, TypeOK, Fate
  <2>. QED  BY <1>7, <2>1, <2>2 DEF AppendCommitted, RecoveringInv
<1>8. ASSUME NEW t \in Txn, Abandon(t) PROVE IInv'
  <2>1. FateInv'
    BY <1>8, SameFile DEF Abandon, FateInv, TypeOK, Fate
  <2>. QED  BY <1>8, <2>1, SameFile DEF Abandon, RecoveringInv
<1>9. ASSUME NEW t \in Txn, CommitReconciled(t) PROVE IInv'
  <2>1. /\ WholeInv'
        /\ \A u \in Txn, w \in {"pending", "committed"} :
             Durable(u, w)' <=> Durable(u, w) \/ (u = t /\ w = "committed")
    BY <1>9, AppendEffect DEF CommitReconciled
  <2>2. t \in Uncommitted(lines) /\ Verified(lines) /\ session = "down"
    BY <1>9 DEF CommitReconciled
  <2>3. FateInv'
    BY <1>9, <2>1, <2>2 DEF CommitReconciled, FateInv, TypeOK, Fate
  <2>. QED  BY <1>9, <2>1, <2>3 DEF CommitReconciled, RecoveringInv
<1>10. ASSUME NEW t \in Txn, NEW form \in Torn, TornAppend(t, form) PROVE IInv'
  <2>1. form = "cut"
    BY TornForms
  <2>2. PICK s \in {"pending", "committed"} : AppendRecord(t, s, "cut")
    BY <1>10, <2>1 DEF TornAppend
  <2>3. /\ WholeInv'
        /\ \A u \in Txn, w \in {"pending", "committed"} : Durable(u, w)' <=> Durable(u, w)
    BY <2>2, AppendEffect
  <2>4. \A u \in Txn :
          /\ fate'[u] = fate[u] \/ (fate[u] = "open" /\ fate'[u] = "abandoned")
          /\ fate'[u] = "open" => session' = "up"
    BY <1>10, <2>1 DEF TornAppend, Interrupted, TypeOK, Fate
  <2>5. FateInv'
    BY <1>10, <2>3, <2>4 DEF FateInv
  <2>. QED  BY <1>10, <2>3, <2>5 DEF TornAppend, RecoveringInv
<1>11. CASE UNCHANGED vars
  <2>1. FateInv'
    BY <1>11, SameFile DEF vars, FateInv
  <2>2. RecoveringInv'
    BY <1>11 DEF vars, RecoveringInv, Compacted, Decision, Uncommitted, Verified,
                 Says, Readable, Scanned
  <2>. QED  BY <1>11, <2>1, <2>2, SameFile DEF vars
<1>. QED  BY <1>1, <1>2, <1>3, <1>4, <1>5, <1>6, <1>7, <1>8, <1>9, <1>10, <1>11 DEF Next

LEMMA Inductive == ASSUME "open" \notin Torn PROVE Spec => []IInv
<1>1. Init => IInv
  BY InitIInv
<1>2. IInv /\ TypeOK' /\ [Next]_vars => IInv'
  BY StepIInv
<1>3. Spec => []TypeOK
  BY TypeCorrect
<1>. QED  BY <1>1, <1>2, <1>3, PTL DEF Spec

(* The application starts only on a log in which every transaction is      *)
(* settled: the scan misses no pending record, provided that no append     *)
(* loses just its newline.                                                 *)
THEOREM StartupSound == ASSUME "open" \notin Torn PROVE Spec => []NoFalseClean
<1>1. IInv => NoFalseClean
  <2> SUFFICES ASSUME IInv, Decision(lines) = "CLEAN", NEW t \in Txn,
                      LogStatus[t] = "pending"
               PROVE  FALSE
    BY DEF NoFalseClean
  <2>1. Verified(lines) /\ Uncommitted(lines) = {}
    BY DecisionReads
  <2>2. Durable(t, "pending") /\ ~Durable(t, "committed")
    BY DEF LogStatus
  <2>3. Says(lines, t, "pending") /\ ~Says(lines, t, "committed")
    BY <2>1, <2>2, ScanIsExact DEF IInv
  <2>. QED  BY <2>1, <2>3 DEF Uncommitted
<1>. QED  BY <1>1, Inductive, PTL

-----------------------------------------------------------------------------
(* The refinement.  LogStatus depends on the file and on which             *)
(* transactions are fresh, so a step is judged by what it does to those.   *)

LEMMA StatusUnchanged ==
  ASSUME \A u \in Txn, w \in {"pending", "committed"} : Durable(u, w)' <=> Durable(u, w),
         \A u \in Txn : fate'[u] = "fresh" <=> fate[u] = "fresh"
  PROVE  LogStatus' = LogStatus
  BY DEF LogStatus

(* A step that adds one record of one transaction to the file.             *)
LEMMA StatusUpdated ==
  ASSUME NEW t \in Txn, NEW s \in {"pending", "committed"},
         \A u \in Txn, w \in {"pending", "committed"} :
           Durable(u, w)' <=> Durable(u, w) \/ (u = t /\ w = s),
         s = "pending" => ~Durable(t, "committed"),
         \A u \in Txn \ {t} : fate'[u] = "fresh" <=> fate[u] = "fresh"
  PROVE  LogStatus' = [LogStatus EXCEPT ![t] = s]
<1>1. LogStatus \in [Txn -> {"absent", "pending", "committed", "rolledback"}]
  BY DEF LogStatus
<1>2. LogStatus'[t] = s
  BY DEF LogStatus
<1>3. \A u \in Txn \ {t} : LogStatus'[u] = LogStatus[u]
  BY DEF LogStatus
<1>4. LogStatus' = [u \in Txn |-> LogStatus'[u]]
  BY DEF LogStatus
<1>. QED  BY <1>1, <1>2, <1>3, <1>4

LEMMA StepRefines ==
  ASSUME "open" \notin Torn, IInv, [Next]_vars
  PROVE  [Log!Next]_LogStatus
<1> USE DEF IInv
<1>1. CASE StartApplication
  BY <1>1, SameFile, StatusUnchanged DEF StartApplication
<1>2. CASE Crash
  <2>1. \A u \in Txn : fate'[u] = "fresh" <=> fate[u] = "fresh"
    BY <1>2 DEF Crash, Interrupted
  <2>. QED  BY <1>2, <2>1, SameFile, StatusUnchanged DEF Crash
<1>3. CASE WriteTemp
  BY <1>3, SameFile, StatusUnchanged DEF WriteTemp
<1>4. CASE RenameTemp
  <2>1. /\ lines' = Compacted(lines) /\ Verified(lines)
        /\ Uncommitted(lines) # {} /\ fate' = fate
    BY <1>4, DecisionReads DEF RenameTemp, RecoveringInv
  <2>2. \A t \in Txn : t \in Uncommitted(lines) <=> LogStatus[t] = "pending"
    BY <2>1, ScanIsExact DEF Uncommitted, LogStatus
  <2>3. \E t \in Txn : LogStatus[t] = "pending"
    BY <2>1, <2>2 DEF Uncommitted
  <2>4. ASSUME NEW t \in Txn
        PROVE  LogStatus'[t] = IF LogStatus[t] = "pending" THEN "rolledback" ELSE LogStatus[t]
    <3>1. /\ Durable(t, "committed")' <=> Durable(t, "committed")
          /\ Durable(t, "pending")' <=> Durable(t, "pending") /\ LogStatus[t] # "pending"
      BY <2>1, <2>2, CompactionEffect
    <3>2. LogStatus[t] = "pending" => fate[t] # "fresh"
      BY DEF LogStatus, FateInv
    <3>. QED  BY <2>1, <3>1, <3>2 DEF LogStatus
  <2>5. LogStatus' = [t \in Txn |-> LogStatus'[t]]
    BY DEF LogStatus
  <2>6. LogStatus' = [t \in Txn |-> IF LogStatus[t] = "pending" THEN "rolledback"
                                                              ELSE LogStatus[t]]
    BY <2>4, <2>5
  <2>. QED  BY <2>3, <2>6 DEF Log!Next, Log!RollbackPending
<1>5. CASE RecoveryStops
  BY <1>5, SameFile, StatusUnchanged DEF RecoveryStops
<1>6. ASSUME NEW t \in Txn, AppendPending(t) PROVE Log!Next
  <2>1. \A u \in Txn, w \in {"pending", "committed"} :
          Durable(u, w)' <=> Durable(u, w) \/ (u = t /\ w = "pending")
    BY <1>6, AppendEffect DEF AppendPending
  <2>2. LogStatus[t] = "absent" /\ ~Durable(t, "committed")
    BY <1>6 DEF AppendPending, FateInv, LogStatus
  <2>3. \A u \in Txn \ {t} : fate'[u] = "fresh" <=> fate[u] = "fresh"
    BY <1>6 DEF AppendPending, TypeOK
  <2>4. LogStatus' = [LogStatus EXCEPT ![t] = "pending"]
    BY <2>1, <2>2, <2>3, StatusUpdated
  <2>. QED  BY <2>2, <2>4 DEF Log!Next, Log!Begin
<1>7. ASSUME NEW t \in Txn, AppendCommitted(t) PROVE Log!Next
  <2>1. \A u \in Txn, w \in {"pending", "committed"} :
          Durable(u, w)' <=> Durable(u, w) \/ (u = t /\ w = "committed")
    BY <1>7, AppendEffect DEF AppendCommitted
  <2>2. LogStatus[t] = "pending"
    BY <1>7 DEF AppendCommitted, FateInv, LogStatus
  <2>3. \A u \in Txn \ {t} : fate'[u] = "fresh" <=> fate[u] = "fresh"
    BY <1>7 DEF AppendCommitted, TypeOK
  <2>4. LogStatus' = [LogStatus EXCEPT ![t] = "committed"]
    BY <2>1, <2>3, StatusUpdated
  <2>. QED  BY <2>2, <2>4 DEF Log!Next, Log!Commit
<1>8. ASSUME NEW t \in Txn, Abandon(t) PROVE LogStatus' = LogStatus
  <2>1. \A u \in Txn : fate'[u] = "fresh" <=> fate[u] = "fresh"
    BY <1>8 DEF Abandon, TypeOK
  <2>. QED  BY <1>8, <2>1, SameFile, StatusUnchanged DEF Abandon
<1>9. ASSUME NEW t \in Txn, CommitReconciled(t) PROVE Log!Next
  <2>1. \A u \in Txn, w \in {"pending", "committed"} :
          Durable(u, w)' <=> Durable(u, w) \/ (u = t /\ w = "committed")
    BY <1>9, AppendEffect DEF CommitReconciled
  <2>2. LogStatus[t] = "pending"
    BY <1>9, ScanIsExact DEF CommitReconciled, Uncommitted, LogStatus
  <2>3. \A u \in Txn \ {t} : fate'[u] = "fresh" <=> fate[u] = "fresh"
    BY <1>9 DEF CommitReconciled, TypeOK
  <2>4. LogStatus' = [LogStatus EXCEPT ![t] = "committed"]
    BY <2>1, <2>3, StatusUpdated
  <2>. QED  BY <2>2, <2>4 DEF Log!Next, Log!Commit
<1>10. ASSUME NEW t \in Txn, NEW form \in Torn, TornAppend(t, form)
       PROVE  LogStatus' = LogStatus
  <2>1. form = "cut"
    BY TornForms
  <2>2. PICK s \in {"pending", "committed"} : AppendRecord(t, s, "cut")
    BY <1>10, <2>1 DEF TornAppend
  <2>3. \A u \in Txn, w \in {"pending", "committed"} : Durable(u, w)' <=> Durable(u, w)
    BY <2>2, AppendEffect
  <2>4. \A u \in Txn : fate'[u] = "fresh" <=> fate[u] = "fresh"
    BY <1>10, <2>1 DEF TornAppend, Interrupted, TypeOK, Fate
  <2>. QED  BY <2>3, <2>4, StatusUnchanged
<1>11. CASE UNCHANGED vars
  BY <1>11, SameFile, StatusUnchanged DEF vars
<1>. QED  BY <1>1, <1>2, <1>3, <1>4, <1>5, <1>6, <1>7, <1>8, <1>9, <1>10, <1>11 DEF Next

(* The file implements the abstract log: a transaction is begun once, a    *)
(* commit is final, and a rollback takes every pending transaction or,     *)
(* when recovery is interrupted, none.                                     *)
THEOREM Refinement == ASSUME "open" \notin Torn PROVE Spec => LogRefinement
<1>1. Init => Log!Init
  BY DEF Init, Log!Init, LogStatus, Durable
<1>2. IInv /\ [Next]_vars => [Log!Next]_LogStatus
  BY StepRefines
<1>. QED  BY <1>1, <1>2, Inductive, PTL DEF Spec, LogRefinement, Log!Spec
-----------------------------------------------------------------------------
(* A settled log is one the application starts on, as long as the scan's   *)
(* table holds every transaction.                                          *)
THEOREM SettledSound ==
  ASSUME "open" \notin Torn, IsFiniteSet(Txn), Cardinality(Txn) <= MaxTransactions,
         ~SnapshotMissing
  PROVE  Spec => []SettledStartsClean
<1>1. IInv => SettledStartsClean
  <2> SUFFICES ASSUME IInv, Verified(lines), \A t \in Txn : LogStatus[t] # "pending"
               PROVE  Decision(lines) = "CLEAN"
    BY DEF SettledStartsClean
  <2>1. Uncommitted(lines) = {}
    <3> SUFFICES ASSUME NEW t \in Txn, t \in Uncommitted(lines) PROVE FALSE
      BY DEF Uncommitted
    <3>1. Durable(t, "pending") /\ ~Durable(t, "committed")
      BY ScanIsExact DEF Uncommitted, IInv
    <3>. QED  BY <3>1 DEF LogStatus
  <2>2. Scanned(lines) \in SUBSET Txn
    BY DEF Scanned, Verified, Readable, IInv, WholeInv, Record
  <2>3. ~(Cardinality(Scanned(lines)) > MaxTransactions)
    <3>1. Cardinality(Scanned(lines)) <= Cardinality(Txn)
      BY <2>2, FS_Subset
    <3>2. Cardinality(Scanned(lines)) \in Nat /\ Cardinality(Txn) \in Nat /\ MaxTransactions \in Nat
      BY <2>2, FS_Subset, FS_CardinalityType, WalAssumption
    <3>. QED  BY <3>1, <3>2
  <2>. QED  BY <2>1, <2>3 DEF Decision
<1>. QED  BY <1>1, Inductive, PTL

-----------------------------------------------------------------------------
(* Places and numbers.  They hold however appends are torn.                *)

PlaceInv ==
  /\ \A line \in lines : line.at \in 1..grown
  /\ \A first, second \in lines : first.at = second.at => first = second
  /\ Cardinality(lines) <= grown
  /\ grown = Cardinality(lines) =>
       \A line \in lines : Readable(line) => line.head.seq = line.at

LEMMA AppendPlaces ==
  ASSUME TypeOK, PlaceInv, NEW t \in Txn, NEW s \in {"pending", "committed"},
         NEW form \in {"whole", "cut", "open"},
         AppendRecord(t, s, form)
  PROVE  PlaceInv'
<1> DEFINE rec == [seq |-> NextSequence(lines), txn |-> t, state |-> s]
           new == [at |-> grown + 1, head |-> IF form = "cut" THEN NoRec ELSE rec,
                   hidden |-> {}, form |-> form]
<1>1. /\ IsFiniteSet(lines) /\ Cardinality(lines) \in Nat /\ grown \in Nat
      /\ \A line \in lines : line \in Line /\ line.at \in Nat
  BY FS_CardinalityType DEF TypeOK, Line
<1>2. CASE Unended(lines) # {}
  <2>1. PICK last \in lines : last.at = grown /\ last.form \in {"open", "cut"}
    BY <1>2 DEF Unended
  <2>2. Unended(lines) = {last}
    BY <2>1 DEF Unended, PlaceInv
  <2>. DEFINE cont == Joined(last, rec, form)
  <2>3. lines' = (lines \ {last}) \cup {cont} /\ grown' = grown
    BY <1>2, <2>2 DEF AppendRecord
  <2>4. /\ cont.at = last.at /\ cont.head = last.head
        /\ Readable(cont) => Readable(last)
    BY <1>1 DEF Joined, Line, Readable
  <2>. HIDE DEF cont
  <2>5. cont \notin lines \ {last}
    BY <2>4 DEF PlaceInv
  <2>6. Cardinality(lines') = Cardinality(lines)
    <3>1. IsFiniteSet(lines \ {last}) /\ Cardinality(lines \ {last}) = Cardinality(lines) - 1
      BY <1>1, FS_RemoveElement
    <3>2. Cardinality((lines \ {last}) \cup {cont}) = Cardinality(lines \ {last}) + 1
      BY <2>5, <3>1, FS_AddElement
    <3>. QED  BY <1>1, <2>3, <3>1, <3>2
  <2>7. \A line \in lines' : line.at \in 1..grown
    BY <2>3, <2>4 DEF PlaceInv
  <2>8. \A first, second \in lines' : first.at = second.at => first = second
    BY <2>3, <2>4 DEF PlaceInv
  <2>9. ASSUME grown = Cardinality(lines), NEW line \in lines', Readable(line)
        PROVE  line.head.seq = line.at
    <3>1. CASE line = cont
      BY <2>4, <2>9, <3>1 DEF PlaceInv
    <3>2. CASE line \in lines
      BY <2>9, <3>2 DEF PlaceInv
    <3>. QED  BY <2>3, <3>1, <3>2
  <2>. QED  BY <2>3, <2>6, <2>7, <2>8, <2>9 DEF PlaceInv, Readable
<1>3. CASE Unended(lines) = {}
  <2>1. lines' = lines \cup {new} /\ grown' = grown + 1
    BY <1>3 DEF AppendRecord
  <2>2. /\ new.at = grown + 1
        /\ Readable(new) => new.head.seq = Cardinality(lines) + 1
    <3>1. Readable(new) => new.head = rec
      BY DEF Readable
    <3>2. rec.seq = Cardinality(lines) + 1
      BY DEF NextSequence
    <3>. QED  BY <3>1, <3>2
  <2>. HIDE DEF new
  <2>3. \A line \in lines : line.at # grown + 1
    BY <1>1 DEF PlaceInv
  <2>4. Cardinality(lines') = Cardinality(lines) + 1
    BY <1>1, <2>1, <2>2, <2>3, FS_AddElement
  <2>5. \A line \in lines' : line.at \in 1..(grown + 1)
    BY <1>1, <2>1, <2>2 DEF PlaceInv
  <2>6. \A first, second \in lines' : first.at = second.at => first = second
    BY <2>1, <2>2, <2>3 DEF PlaceInv
  <2>7. ASSUME grown + 1 = Cardinality(lines) + 1, NEW line \in lines', Readable(line)
        PROVE  line.head.seq = line.at
    <3>1. grown = Cardinality(lines)
      BY <1>1, <2>7
    <3>2. CASE line = new
      BY <2>2, <2>7, <3>1, <3>2
    <3>3. CASE line \in lines
      BY <2>7, <3>1, <3>3 DEF PlaceInv
    <3>. QED  BY <2>1, <3>2, <3>3
  <2>8. Cardinality(lines') <= grown + 1
    BY <1>1, <2>4 DEF PlaceInv
  <2>. QED  BY <2>1, <2>4, <2>5, <2>6, <2>7, <2>8 DEF PlaceInv, Readable
<1>. QED  BY <1>2, <1>3

(* A subset of the lines keeps its places; all of them are still there     *)
(* when it has as many.                                                    *)
LEMMA SubsetPlaces ==
  ASSUME TypeOK, PlaceInv, lines' \in SUBSET lines, grown' = grown
  PROVE  PlaceInv'
<1>1. /\ IsFiniteSet(lines) /\ Cardinality(lines) \in Nat /\ grown \in Nat
      /\ Cardinality(lines') <= Cardinality(lines)
      /\ Cardinality(lines') \in Nat
  BY FS_CardinalityType, FS_Subset DEF TypeOK
<1>2. Cardinality(lines') <= grown
  BY <1>1 DEF PlaceInv
<1>3. ASSUME grown = Cardinality(lines') PROVE grown = Cardinality(lines)
  BY <1>1, <1>3 DEF PlaceInv
<1>. QED  BY <1>2, <1>3 DEF PlaceInv, Readable

(* The numbers of the records rise until a compaction removes a line.      *)
THEOREM NumbersRising == Spec => []NumbersRise
<1>1. Init => PlaceInv
  BY FS_EmptySet DEF Init, PlaceInv
<1>2. TypeInv /\ PlaceInv /\ [Next]_vars => PlaceInv'
  <2> SUFFICES ASSUME TypeInv, PlaceInv, [Next]_vars PROVE PlaceInv'
    OBVIOUS
  <2>. USE DEF TypeInv
  <2>1. CASE UNCHANGED <<lines, grown>>
    BY <2>1, SubsetPlaces
  <2>2. ASSUME NEW t \in Txn, NEW s \in {"pending", "committed"},
               NEW form \in {"whole", "cut", "open"}, AppendRecord(t, s, form)
        PROVE  PlaceInv'
    BY <2>2, AppendPlaces
  <2>3. CASE RenameTemp
    BY <2>3, SubsetPlaces DEF RenameTemp
  <2>4. CASE StartApplication \/ Crash \/ WriteTemp \/ RecoveryStops \/ UNCHANGED vars
    BY <2>1, <2>4 DEF StartApplication, Crash, WriteTemp, RecoveryStops, vars
  <2>5. ASSUME NEW t \in Txn,
               AppendPending(t) \/ AppendCommitted(t) \/ CommitReconciled(t)
        PROVE  PlaceInv'
    BY <2>2, <2>5 DEF AppendPending, AppendCommitted, CommitReconciled
  <2>6. ASSUME NEW t \in Txn, Abandon(t) PROVE PlaceInv'
    BY <2>1, <2>6 DEF Abandon
  <2>7. ASSUME NEW t \in Txn, NEW form \in Torn, TornAppend(t, form) PROVE PlaceInv'
    BY <2>2, <2>7, TornForms DEF TornAppend
  <2>. QED  BY <2>3, <2>4, <2>5, <2>6, <2>7 DEF Next
<1>3. TypeInv /\ PlaceInv => NumbersRise
  BY DEF PlaceInv, NumbersRise
<1>. QED  BY <1>1, <1>2, <1>3, TypeInvariance, PTL DEF Spec
=============================================================================
