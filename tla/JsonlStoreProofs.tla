-------------------------- MODULE JsonlStoreProofs --------------------------
(***************************************************************************)
(* Theorems about JsonlStore, for every set of processes, keys and record  *)
(* sizes, and a file of any length.  Two of them assume that no write      *)
(* loses just its newline, as in WalProofs and for the same reason.        *)
(***************************************************************************)
EXTENDS JsonlStore, SequenceTheorems, TLAPS

Working == {"scanned", "counted"}

-----------------------------------------------------------------------------
(* One line more.                                                          *)

(* What landing a line does to the file: it grows by the line or its last  *)
(* line, which had no end, goes on; a record that verifies stays, and one  *)
(* that verifies afterwards was there before or is the new one.            *)
LEMMA WithType ==
  ASSUME TypeOK, NEW new \in Line
  PROVE  With(new) \in Seq(Line)
<1>1. file \in Seq(Line)
  BY DEF TypeOK
<1>2. CASE Unended
  <2>1. Len(file) \in DOMAIN file /\ file[Len(file)] \in Line
    BY <1>1, <1>2 DEF Unended
  <2>2. Continued(file[Len(file)], new) \in Line
    BY <2>1 DEF Continued, Line
  <2>. QED  BY <1>1, <1>2, <2>1, <2>2 DEF With
<1>3. CASE ~Unended
  BY <1>1, <1>3 DEF With
<1>. QED  BY <1>2, <1>3

LEMMA WithLength ==
  ASSUME TypeOK, NEW new \in Line
  PROVE  /\ Len(With(new)) \in {Len(file), Len(file) + 1}
         /\ Len(With(new)) # 0
         /\ \A i \in DOMAIN With(new) :
              i \notin DOMAIN file => i = Len(file) + 1 /\ With(new)[i] = new
<1>1. file \in Seq(Line)
  BY DEF TypeOK
<1>2. CASE Unended
  BY <1>1, <1>2 DEF With, Unended
<1>3. CASE ~Unended
  BY <1>1, <1>3 DEF With
<1>. QED  BY <1>2, <1>3

(* The lines that were there keep their place and their number.            *)
LEMMA WithKeeps ==
  ASSUME TypeOK, NEW new \in Line, NEW i \in DOMAIN file
  PROVE  /\ i \in DOMAIN With(new)
         /\ With(new)[i].sequence = file[i].sequence
         /\ Verifies(With(new)[i]) <=> Verifies(file[i])
         /\ Verifies(file[i]) /\ file[i].key \in Keys => With(new)[i].key = file[i].key
         /\ file[i].form \notin {"cut", "open"} => With(new)[i] = file[i]
<1>1. file \in Seq(Line) /\ file[i] \in Line
  BY DEF TypeOK
<1>2. CASE Unended /\ i = Len(file)
  <2>1. With(new)[i] = Continued(file[i], new) /\ i \in DOMAIN With(new)
    BY <1>1, <1>2 DEF With, Unended
  <2>2. file[i].form \in {"cut", "open"}
    BY <1>2 DEF Unended
  <2>3. Continued(file[i], new).sequence = file[i].sequence
    BY <1>1 DEF Continued, Line
  <2>4. Continued(file[i], new).form \in {"whole", "open"} <=> file[i].form = "open"
    BY <1>1, <2>2 DEF Continued, Line
  <2>5. file[i].key \in Keys => Continued(file[i], new).key = file[i].key
    BY <1>1, StoreAssumption DEF Continued, Line
  <2>. QED  BY <2>1, <2>2, <2>3, <2>4, <2>5 DEF Verifies
<1>3. CASE Unended /\ i # Len(file)
  <2>1. With(new)[i] = file[i] /\ i \in DOMAIN With(new)
    BY <1>1, <1>3 DEF With, Unended
  <2>. QED  BY <2>1
<1>4. CASE ~Unended
  <2>1. With(new)[i] = file[i] /\ i \in DOMAIN With(new)
    BY <1>1, <1>4 DEF With
  <2>. QED  BY <2>1
<1>. QED  BY <1>2, <1>3, <1>4

-----------------------------------------------------------------------------
(* Every step leaves the file alone or lands one line of the process that  *)
(* was about to write.                                                     *)

Outcomes(p) == {Complete(p)} \cup Fragments(p)

Quiet == UNCHANGED <<file, reported, torn>>

Lands(p, new) ==
  /\ stage[p] = "counted" /\ new \in Outcomes(p)
  /\ file' = With(new)
  /\ \E where \in {"idle", "down"} : Return(p, where)
  /\ UNCHANGED overlap
  /\ \/ reported' = reported
     \/ reported' = reported \cup {key[p]} /\ new = Complete(p)
  /\ torn' = (torn \/ new.form \notin {"whole", "unsound"})

LEMMA OutcomeTypes ==
  ASSUME TypeOK, NEW p \in Procs, stage[p] = "counted", NEW new \in Outcomes(p)
  PROVE  /\ new \in Line
         /\ key[p] \in Offers[p] /\ key[p] \in Keys
         /\ new.sequence = sequence[p]
         /\ Verifies(new) => new.key = key[p]
         /\ new = Complete(p) => new.key = key[p]
         /\ new.form = "open" => "open" \in Torn
         /\ new.form = "unsound" => new.key \in Unverifiable
         /\ new.form \in {"whole", "unsound", "cut", "open"}
<1>1. key[p] \in Offers[p] /\ key[p] \in Keys /\ sequence[p] \in Nat
  BY StoreAssumption DEF TypeOK
<1>2. CASE new = Complete(p)
  BY <1>1, <1>2 DEF Complete, LineOf, Line, Verifies
<1>3. CASE new \in Fragments(p)
  <2>1. new \in {LineOf(p, "cut"), [LineOf(p, "cut") EXCEPT !.key = NoKey], LineOf(p, "open")}
        /\ (new.form = "open" => "open" \in Torn)
    BY <1>3 DEF Fragments, LineOf
  <2>2. new = Complete(p) => new.key = key[p]
    BY DEF Complete, LineOf
  <2>. QED  BY <1>1, <2>1, <2>2 DEF LineOf, Line, Verifies
<1>. QED  BY <1>2, <1>3 DEF Outcomes

LEMMA InterruptedShape ==
  ASSUME TypeOK, NEW p \in Procs, Interrupted(p), UNCHANGED <<reported, overlap>>,
         NEW where \in {"idle", "down"}, Return(p, where)
  PROVE  Quiet \/ \E new \in Outcomes(p) : Lands(p, new)
<1>1. CASE UNCHANGED <<file, torn>>
  BY <1>1 DEF Quiet
<1>2. CASE stage[p] = "counted" /\ file' = With(Complete(p)) /\ UNCHANGED torn
  <2>1. Complete(p).form \in {"whole", "unsound"} /\ Complete(p) \in Outcomes(p)
    BY DEF Complete, LineOf, Outcomes
  <2>. QED  BY <1>2, <2>1 DEF Lands, TypeOK
<1>3. ASSUME stage[p] = "counted", NEW new \in Fragments(p),
             file' = With(new), torn' = TRUE
      PROVE  Lands(p, new) /\ new \in Outcomes(p)
  <2>1. new.form \notin {"whole", "unsound"} /\ new \in Outcomes(p)
    BY DEF Fragments, LineOf, Outcomes
  <2>. QED  BY <1>3, <2>1 DEF Lands, TypeOK
<1>. QED  BY <1>1, <1>2, <1>3 DEF Interrupted

LEMMA Shape ==
  ASSUME TypeOK, Next
  PROVE  Quiet \/ \E p \in Procs : \E new \in Outcomes(p) : Lands(p, new)
<1> PICK p \in Procs :
      \/ Start(p) \/ Stop(p)
      \/ \E k \in Offers[p] : Scan(p, k)
      \/ Count(p) \/ Reject(p) \/ Write(p) \/ WriteFails(p) \/ Crash(p)
  BY DEF Next
<1>1. CASE Start(p) \/ Stop(p) \/ Count(p) \/ Reject(p) \/ \E k \in Offers[p] : Scan(p, k)
  BY <1>1 DEF Start, Stop, Count, Reject, Scan, Quiet
<1>2. CASE Write(p)
  <2>1. Complete(p).form \in {"whole", "unsound"} /\ Complete(p) \in Outcomes(p)
    BY DEF Complete, LineOf, Outcomes
  <2>. QED  BY <1>2, <2>1 DEF Write, Lands, TypeOK
<1>3. CASE WriteFails(p)
  BY <1>3, InterruptedShape DEF WriteFails
<1>4. CASE Crash(p)
  BY <1>4, InterruptedShape DEF Crash
<1>. QED  BY <1>1, <1>2, <1>3, <1>4

-----------------------------------------------------------------------------
(* Type correctness.                                                       *)

LEMMA ReturnType ==
  ASSUME TypeOK, NEW p \in Procs, NEW where \in {"idle", "down"}, Return(p, where)
  PROVE  /\ stage' \in [Procs -> {"down", "idle", "scanned", "counted"}]
         /\ key' \in [Procs -> Keys \cup {NoKey}]
         /\ sequence' \in [Procs -> Nat]
         /\ \A q \in Procs : stage'[q] \in Working => key'[q] \in Offers[q]
  BY DEF TypeOK, Return, Working

LEMMA InitType ==
  ASSUME Init PROVE TypeOK
<1>1. file \in Seq(Line)
  BY DEF Init
<1>2. /\ stage \in [Procs -> {"down", "idle", "scanned", "counted"}]
      /\ key \in [Procs -> Keys \cup {NoKey}]
      /\ sequence \in [Procs -> Nat]
      /\ \A p \in Procs : stage[p] = "down"
  BY DEF Init
<1>. QED  BY <1>1, <1>2 DEF Init, TypeOK

(* Every variable keeps its type, and a process appends only its own keys. *)
THEOREM TypeCorrect == Spec => []TypeOK
<1>1. Init => TypeOK
  BY InitType
<1>2. TypeOK /\ [Next]_vars => TypeOK'
  <2> SUFFICES ASSUME TypeOK, [Next]_vars PROVE TypeOK'
    OBVIOUS
  <2>1. CASE UNCHANGED vars
    BY <2>1 DEF vars, TypeOK
  <2>2. CASE Next
    <3>1. ASSUME NEW p \in Procs, NEW new \in Outcomes(p), Lands(p, new) PROVE TypeOK'
      <4>1. new \in Line /\ key[p] \in Keys
        BY <3>1, OutcomeTypes DEF Lands
      <4>2. file' \in Seq(Line)
        BY <3>1, <4>1, WithType DEF Lands
      <4>3. /\ stage' \in [Procs -> {"down", "idle", "scanned", "counted"}]
            /\ key' \in [Procs -> Keys \cup {NoKey}]
            /\ sequence' \in [Procs -> Nat]
            /\ \A q \in Procs : stage'[q] \in Working => key'[q] \in Offers[q]
        BY <3>1, ReturnType DEF Lands
      <4>4. reported' \subseteq Keys /\ overlap' \in BOOLEAN /\ torn' \in BOOLEAN
        BY <3>1, <4>1 DEF Lands, TypeOK
      <4>. QED  BY <4>2, <4>3, <4>4 DEF TypeOK, Working
    <3>2. CASE Quiet
      <4> PICK p \in Procs :
            \/ Start(p) \/ Stop(p)
            \/ \E k \in Offers[p] : Scan(p, k)
            \/ Count(p) \/ Reject(p) \/ Write(p) \/ WriteFails(p) \/ Crash(p)
        BY <2>2 DEF Next
      <4>0. file' \in Seq(Line) /\ reported' \subseteq Keys /\ torn' \in BOOLEAN
        BY <3>2 DEF Quiet, TypeOK
      <4>1. CASE Start(p)
        BY <4>0, <4>1 DEF Start, TypeOK
      <4>2. CASE Stop(p)
        BY <4>0, <4>2 DEF Stop, TypeOK
      <4>3. ASSUME NEW k \in Offers[p], Scan(p, k) PROVE TypeOK'
        <5>1. k \in Keys
          BY StoreAssumption
        <5>. QED  BY <4>0, <4>3, <5>1 DEF Scan, TypeOK
      <4>4. CASE Count(p)
        <5>1. NextSequence \in Nat
          BY DEF NextSequence, TypeOK
        <5>. QED  BY <4>0, <4>4, <5>1 DEF Count, TypeOK
      <4>5. ASSUME NEW where \in {"idle", "down"}, Return(p, where), UNCHANGED overlap
            PROVE  TypeOK'
        BY <4>0, <4>5, ReturnType DEF TypeOK, Working
      <4>6. CASE Reject(p)
        BY <4>5, <4>6 DEF Reject
      <4>7. CASE Write(p)
        BY <4>5, <4>7 DEF Write
      <4>8. CASE WriteFails(p)
        BY <4>5, <4>8 DEF WriteFails
      <4>9. CASE Crash(p)
        BY <4>5, <4>9 DEF Crash
      <4>. QED  BY <4>1, <4>2, <4>3, <4>4, <4>6, <4>7, <4>8, <4>9
    <3>. QED  BY <2>2, <3>1, <3>2, Shape
  <2>. QED  BY <2>1, <2>2
<1>. QED  BY <1>1, <1>2, PTL DEF Spec
-----------------------------------------------------------------------------
(* The inductive invariant.                                                *)

(* Until two processes are up at once, at most one is.                     *)
Alone ==
  ~overlap => \A p, q \in Procs : stage[p] # "down" /\ stage[q] # "down" => p = q

(* What a process found absent is still absent, unless another, up at the  *)
(* same time, has the same key to append.                                  *)
Absent ==
  \A p \in Procs :
    stage[p] \in Working /\ (~overlap \/ OfferedOnceOnly(key[p]))
      => \A i \in DOMAIN file : Verifies(file[i]) => file[i].key # key[p]

SoleOf(k, p) == \A q \in Procs : k \in Offers[q] => q = p

(* The number a process has drawn is above its own lines', and above the   *)
(* whole file's while it is alone.                                         *)
Drawn ==
  \A p \in Procs : stage[p] = "counted" =>
    /\ sequence[p] <= Len(file) + 1
    /\ ~overlap => sequence[p] = Len(file) + 1
    /\ \A i \in DOMAIN file :
         Verifies(file[i]) /\ SoleOf(file[i].key, p) => file[i].sequence < sequence[p]

(* A line that verifies has a key, and a number that is at most its place. *)
Sound ==
  \A i \in DOMAIN file : Verifies(file[i]) => file[i].key \in Keys /\ file[i].sequence <= i

(* Before the first torn write every line is a whole record.               *)
Untorn ==
  ~torn => \A i \in DOMAIN file :
             \/ file[i].form = "whole"
             \/ file[i].form = "unsound" /\ file[i].key \in Unverifiable

IInv == TypeOK /\ Alone /\ Absent /\ Drawn /\ Sound /\ Untorn /\ UniqueKeys /\ SequencesRise

-----------------------------------------------------------------------------
(* A line lands.                                                           *)

(* A line that verifies afterwards did before, with its key and number, or *)
(* it is the new one at the end.                                           *)
LEMMA Landed ==
  ASSUME TypeOK, Sound, NEW p \in Procs, NEW new \in Outcomes(p), Lands(p, new),
         NEW i \in DOMAIN file', Verifies(file'[i])
  PROVE  \/ /\ i \in DOMAIN file /\ Verifies(file[i])
            /\ file'[i].key = file[i].key /\ file'[i].sequence = file[i].sequence
         \/ /\ i = Len(file) + 1 /\ i \notin DOMAIN file /\ file'[i] = new
            /\ new.key = key[p] /\ new.sequence = sequence[p]
<1>1. new \in Line /\ (Verifies(new) => new.key = key[p]) /\ new.sequence = sequence[p]
  BY OutcomeTypes DEF Lands
<1>2. file' = With(new)
  BY DEF Lands
<1>3. CASE i \in DOMAIN file
  <2>1. Verifies(file[i])
    BY <1>1, <1>2, <1>3, WithKeeps
  <2>2. file[i].key \in Keys
    BY <2>1, <1>3 DEF Sound
  <2>. QED  BY <1>1, <1>2, <1>3, <2>1, <2>2, WithKeeps
<1>4. CASE i \notin DOMAIN file
  BY <1>1, <1>2, <1>4, WithLength
<1>. QED  BY <1>3, <1>4

(* What becomes of the processes.                                          *)
LEMMA LandedStages ==
  ASSUME TypeOK, NEW p \in Procs, NEW new \in Outcomes(p), Lands(p, new)
  PROVE  /\ stage'[p] \in {"idle", "down"} /\ stage[p] = "counted"
         /\ \A q \in Procs : q # p => /\ stage'[q] = stage[q] /\ key'[q] = key[q]
                                      /\ sequence'[q] = sequence[q]
  BY DEF Lands, Return, TypeOK

LEMMA LandsKeeps ==
  ASSUME IInv, TypeOK', NEW p \in Procs, NEW new \in Outcomes(p), Lands(p, new)
  PROVE  IInv'
<1>. USE DEF IInv
<1>a. overlap' = overlap /\ key[p] \in Offers[p] /\ key[p] \in Keys /\ new \in Line
  BY OutcomeTypes DEF Lands
<1>b. file \in Seq(Line) /\ file' \in Seq(Line) /\ sequence[p] \in Nat
  BY DEF TypeOK
<1>c. Len(file') \in {Len(file), Len(file) + 1} /\ Len(file) \in Nat
  BY <1>a, <1>b, WithLength DEF Lands
<1>1. Alone'
  BY <1>a, LandedStages DEF Alone
<1>2. Absent'
  <2> SUFFICES ASSUME NEW q \in Procs, stage'[q] \in Working,
                      ~overlap \/ OfferedOnceOnly(key'[q]),
                      NEW i \in DOMAIN file', Verifies(file'[i])
               PROVE  file'[i].key # key'[q]
    BY <1>a DEF Absent, Verifies, OfferedOnceOnly
  <2>1. q # p /\ stage[q] = stage'[q] /\ key'[q] = key[q] /\ stage[q] \in Working
    BY LandedStages DEF Working
  <2>2. key[q] # key[p]
    <3>1. CASE ~overlap
      BY <3>1, <2>1, LandedStages DEF Alone, Working
    <3>2. CASE OfferedOnceOnly(key[q])
      BY <3>2, <2>1, <1>a DEF OfferedOnceOnly, TypeOK, Working
    <3>. QED  BY <2>1, <3>1, <3>2
  <2>. QED  BY <2>1, <2>2, Landed DEF Absent
<1>3. Drawn'
  <2> SUFFICES ASSUME NEW q \in Procs, stage'[q] = "counted"
               PROVE  /\ sequence'[q] <= Len(file') + 1
                      /\ ~overlap' => sequence'[q] = Len(file') + 1
                      /\ \A i \in DOMAIN file' :
                           Verifies(file'[i]) /\ SoleOf(file'[i].key, q)
                             => file'[i].sequence < sequence'[q]
    BY DEF Drawn, Verifies, SoleOf
  <2>1. q # p /\ stage[q] = "counted" /\ sequence'[q] = sequence[q] /\ stage[p] = "counted"
    BY LandedStages
  <2>2. overlap
    BY <2>1 DEF Alone
  <2>3. sequence'[q] <= Len(file') + 1
    <3>1. sequence[q] <= Len(file) + 1 /\ sequence[q] \in Nat
      BY <2>1 DEF Drawn, TypeOK
    <3>. QED  BY <3>1, <2>1, <1>c
  <2>4. ASSUME NEW i \in DOMAIN file', Verifies(file'[i]), SoleOf(file'[i].key, q)
        PROVE  file'[i].sequence < sequence'[q]
    <3>1. ~(file'[i].key = key[p])
      BY <2>1, <2>4, <1>a DEF SoleOf
    <3>2. /\ i \in DOMAIN file /\ Verifies(file[i])
          /\ file'[i].key = file[i].key /\ file'[i].sequence = file[i].sequence
      BY <2>4, <3>1, Landed
    <3>. QED  BY <2>1, <2>4, <3>2 DEF Drawn
  <2>. QED  BY <1>a, <2>2, <2>3, <2>4
<1>4. Sound'
  <2> SUFFICES ASSUME NEW i \in DOMAIN file', Verifies(file'[i])
               PROVE  file'[i].key \in Keys /\ file'[i].sequence <= i
    BY DEF Sound, Verifies
  <2>1. sequence[p] <= Len(file) + 1
    BY LandedStages DEF Drawn
  <2>. QED  BY <2>1, <1>a, Landed DEF Sound
<1>5. Untorn'
  <2> SUFFICES ASSUME ~torn', NEW i \in DOMAIN file'
               PROVE  \/ file'[i].form = "whole"
                      \/ file'[i].form = "unsound" /\ file'[i].key \in Unverifiable
    BY DEF Untorn
  <2>1. ~torn /\ new.form \in {"whole", "unsound"}
    BY DEF Lands, TypeOK
  <2>2. CASE i \in DOMAIN file
    <3>1. \/ file[i].form = "whole"
          \/ file[i].form = "unsound" /\ file[i].key \in Unverifiable
      BY <2>1, <2>2 DEF Untorn
    <3>2. file'[i] = file[i]
      BY <1>a, <2>2, <3>1, WithKeeps DEF Lands
    <3>. QED  BY <3>1, <3>2
  <2>3. CASE i \notin DOMAIN file
    <3>1. file'[i] = new
      BY <1>a, <2>3, WithLength DEF Lands
    <3>. QED  BY <3>1, <2>1, OutcomeTypes DEF Lands
  <2>. QED  BY <2>2, <2>3
<1>6. UniqueKeys'
  <2> SUFFICES ASSUME NEW i \in DOMAIN file', NEW j \in DOMAIN file',
                      Verifies(file'[i]), Verifies(file'[j]), file'[i].key = file'[j].key,
                      ~overlap \/ OfferedOnceOnly(file'[i].key)
               PROVE  i = j
    BY <1>a DEF UniqueKeys, Verifies, OfferedOnceOnly
  <2>1. stage[p] \in Working
    BY LandedStages DEF Working
  <2>2. CASE i \in DOMAIN file /\ j \in DOMAIN file
    BY <2>2, Landed DEF UniqueKeys
  <2>3. CASE i \in DOMAIN file /\ j \notin DOMAIN file
    <3>1. file[i].key = key[p] /\ file'[i].key = key[p] /\ Verifies(file[i])
      BY <2>3, Landed
    <3>. QED  BY <2>1, <2>3, <3>1 DEF Absent
  <2>4. CASE i \notin DOMAIN file /\ j \in DOMAIN file
    <3>1. file[j].key = key[p] /\ file'[i].key = key[p] /\ Verifies(file[j])
      BY <2>4, Landed
    <3>. QED  BY <2>1, <2>4, <3>1 DEF Absent
  <2>5. CASE i \notin DOMAIN file /\ j \notin DOMAIN file
    BY <2>5, Landed
  <2>. QED  BY <2>2, <2>3, <2>4, <2>5
<1>7. SequencesRise'
  <2>1. ASSUME ~overlap, NEW i \in DOMAIN file', Verifies(file'[i])
        PROVE  file'[i].sequence = i
    <3>1. sequence[p] = Len(file) + 1
      BY <2>1, LandedStages DEF Drawn
    <3>. QED  BY <2>1, <3>1, Landed DEF SequencesRise
  <2>2. ASSUME NEW q \in Procs, NEW i \in DOMAIN file', NEW j \in DOMAIN file', i < j,
               Verifies(file'[i]), Verifies(file'[j]),
               \A r \in Procs : file'[i].key \in Offers[r] \/ file'[j].key \in Offers[r] => r = q
        PROVE  file'[i].sequence < file'[j].sequence
    <3>1. j \in 1..Len(file') /\ i \in 1..Len(file')
      BY <1>b
    <3>2. i \in DOMAIN file
      BY <2>2, <3>1, <1>b, <1>c
    <3>3. /\ Verifies(file[i])
          /\ file'[i].key = file[i].key /\ file'[i].sequence = file[i].sequence
      BY <2>2, <3>2, Landed
    <3>4. CASE j \in DOMAIN file
      <4>1. /\ Verifies(file[j])
            /\ file'[j].key = file[j].key /\ file'[j].sequence = file[j].sequence
        BY <2>2, <3>4, Landed
      <4>. QED  BY <2>2, <3>2, <3>3, <3>4, <4>1 DEF SequencesRise
    <3>5. CASE j \notin DOMAIN file
      <4>1. file'[j].key = key[p] /\ file'[j].sequence = sequence[p]
        BY <2>2, <3>5, Landed
      <4>2. q = p /\ SoleOf(file[i].key, p)
        BY <2>2, <3>3, <4>1, <1>a DEF SoleOf
      <4>. QED  BY <3>2, <3>3, <4>1, <4>2, LandedStages DEF Drawn
    <3>. QED  BY <3>4, <3>5
  <2>. QED  BY <1>a, <2>1, <2>2 DEF SequencesRise, Verifies
<1>. QED  BY <1>1, <1>2, <1>3, <1>4, <1>5, <1>6, <1>7

-----------------------------------------------------------------------------
(* The file is left alone.                                                 *)

LEMMA QuietKeeps ==
  ASSUME IInv, TypeOK', Next, Quiet
  PROVE  IInv'
<1>. USE DEF IInv
<1>1. Sound' /\ Untorn' /\ (Verified' <=> Verified)
  BY DEF Quiet, Sound, Untorn, Verified, Verifies
<1>2. overlap => overlap'
  BY DEF Next, Start, Stop, Scan, Count, Reject, Write, WriteFails, Crash
<1>3. UniqueKeys' /\ SequencesRise'
  BY <1>2 DEF Quiet, UniqueKeys, SequencesRise, Verifies, OfferedOnceOnly
<1>4. PICK p \in Procs :
        \/ Start(p) \/ Stop(p)
        \/ \E k \in Offers[p] : Scan(p, k)
        \/ Count(p) \/ Reject(p) \/ Write(p) \/ WriteFails(p) \/ Crash(p)
  BY DEF Next
<1>5. ASSUME \A q \in Procs : q # p => stage'[q] = stage[q] /\ key'[q] = key[q]
                                       /\ sequence'[q] = sequence[q],
             stage'[p] \notin Working, stage[p] # "down" \/ stage'[p] = "down" \/ overlap'
                                        \/ \A q \in Procs : stage[q] = "down"
      PROVE  Alone' /\ Absent' /\ Drawn'
  <2>1. Alone'
    BY <1>2, <1>5 DEF Alone
  <2>2. Absent'
    BY <1>2, <1>5 DEF Quiet, Absent, Verifies, OfferedOnceOnly
  <2>3. Drawn'
    BY <1>2, <1>5 DEF Quiet, Drawn, Verifies, SoleOf, Working
  <2>. QED  BY <2>1, <2>2, <2>3
<1>6. CASE Start(p)
  <2>1. \A q \in Procs : q # p => stage'[q] = stage[q] /\ key'[q] = key[q]
                                  /\ sequence'[q] = sequence[q]
    BY <1>6 DEF Start, TypeOK
  <2>2. stage'[p] = "idle" /\ (overlap' \/ \A q \in Procs : stage[q] = "down")
    BY <1>6 DEF Start, TypeOK, Up
  <2>. QED  BY <1>1, <1>3, <1>5, <2>1, <2>2 DEF Working
<1>7. CASE Stop(p)
  <2>1. /\ \A q \in Procs : q # p => stage'[q] = stage[q] /\ key'[q] = key[q]
                                     /\ sequence'[q] = sequence[q]
        /\ stage'[p] = "down"
    BY <1>7 DEF Stop, TypeOK
  <2>. QED  BY <1>1, <1>3, <1>5, <2>1 DEF Working
<1>8. ASSUME NEW where \in {"idle", "down"}, Return(p, where), stage[p] # "down"
      PROVE  IInv'
  <2>1. /\ \A q \in Procs : q # p => stage'[q] = stage[q] /\ key'[q] = key[q]
                                     /\ sequence'[q] = sequence[q]
        /\ stage'[p] \in {"idle", "down"}
    BY <1>8 DEF Return, TypeOK
  <2>. QED  BY <1>1, <1>3, <1>5, <1>8, <2>1 DEF Working
<1>9. CASE Reject(p) \/ Write(p) \/ WriteFails(p) \/ Crash(p)
  BY <1>8, <1>9 DEF Reject, Write, WriteFails, Crash
<1>10. ASSUME NEW k \in Offers[p], Scan(p, k) PROVE IInv'
  <2>1. /\ \A q \in Procs : q # p => stage'[q] = stage[q] /\ key'[q] = key[q]
        /\ stage'[p] = "scanned" /\ key'[p] = k /\ stage[p] = "idle"
        /\ sequence' = sequence /\ overlap' = overlap
        /\ \A i \in DOMAIN file : file[i].key # k
    BY <1>10 DEF Scan, TypeOK, ContainsKey
  <2>2. Alone'
    BY <2>1 DEF Alone
  <2>3. Absent'
    BY <2>1 DEF Quiet, Absent, Verifies, OfferedOnceOnly, Working
  <2>4. Drawn'
    BY <2>1 DEF Quiet, Drawn, Verifies, SoleOf
  <2>. QED  BY <1>1, <1>3, <2>2, <2>3, <2>4
<1>11. CASE Count(p)
  <2>1. /\ \A q \in Procs : q # p => stage'[q] = stage[q] /\ sequence'[q] = sequence[q]
        /\ stage'[p] = "counted" /\ sequence'[p] = Len(file) + 1 /\ stage[p] = "scanned"
        /\ key' = key /\ overlap' = overlap
    BY <1>11 DEF Count, TypeOK, NextSequence
  <2>2. Alone'
    BY <2>1 DEF Alone
  <2>3. Absent'
    BY <2>1 DEF Quiet, Absent, Verifies, OfferedOnceOnly, Working
  <2>4. \A i \in DOMAIN file : Verifies(file[i]) => file[i].sequence < Len(file) + 1
    <3> SUFFICES ASSUME NEW i \in DOMAIN file, Verifies(file[i])
                 PROVE  file[i].sequence < Len(file) + 1
      OBVIOUS
    <3>1. i \in 1..Len(file) /\ Len(file) \in Nat /\ file[i] \in Line
      BY DEF TypeOK
    <3>2. file[i].sequence \in Nat /\ file[i].sequence <= i
      BY <3>1 DEF Line, Sound
    <3>. QED  BY <3>1, <3>2
  <2>5. Drawn'
    <3> SUFFICES ASSUME NEW q \in Procs, stage'[q] = "counted"
                 PROVE  /\ sequence'[q] <= Len(file) + 1
                        /\ ~overlap => sequence'[q] = Len(file) + 1
                        /\ \A i \in DOMAIN file :
                             Verifies(file[i]) /\ SoleOf(file[i].key, q)
                               => file[i].sequence < sequence'[q]
      BY <2>1 DEF Quiet, Drawn, Verifies, SoleOf
    <3>1. CASE q = p
      BY <2>1, <2>4, <3>1 DEF TypeOK
    <3>2. CASE q # p
      BY <2>1, <3>2 DEF Drawn
    <3>. QED  BY <3>1, <3>2
  <2>. QED  BY <1>1, <1>3, <2>2, <2>3, <2>5
<1>. QED  BY <1>4, <1>6, <1>7, <1>9, <1>10, <1>11

-----------------------------------------------------------------------------
(* The invariants.                                                         *)

THEOREM Invariance == Spec => []IInv
<1>1. Init => IInv
  <2> SUFFICES ASSUME Init PROVE IInv
    OBVIOUS
  <2>1. TypeOK
    BY InitType
  <2>2. DOMAIN file = {} /\ \A p \in Procs : stage[p] = "down"
    BY DEF Init
  <2>. QED  BY <2>1, <2>2 DEF IInv, Alone, Absent, Drawn, Sound, Untorn, UniqueKeys,
                              SequencesRise, Working
<1>2. IInv /\ TypeOK' /\ [Next]_vars => IInv'
  <2> SUFFICES ASSUME IInv, TypeOK', [Next]_vars PROVE IInv'
    OBVIOUS
  <2>1. CASE UNCHANGED vars
    BY <2>1 DEF vars, IInv, Alone, Absent, Drawn, Sound, Untorn, UniqueKeys, SequencesRise,
                Verifies, OfferedOnceOnly, SoleOf
  <2>2. CASE Next
    BY <2>2, Shape, LandsKeeps, QuietKeeps DEF IInv
  <2>. QED  BY <2>1, <2>2
<1>. QED  BY <1>1, <1>2, TypeCorrect, PTL DEF Spec

(* No two records with one key, unless two processes that are up at once   *)
(* both offer it.                                                          *)
THEOREM KeysAreUnique == Spec => []UniqueKeys
<1>1. IInv => UniqueKeys
  BY DEF IInv
<1>. QED  BY <1>1, Invariance, PTL

(* Records are numbered by their place, and each process's rise.           *)
THEOREM NumbersRise == Spec => []SequencesRise
<1>1. IInv => SequencesRise
  BY DEF IInv
<1>. QED  BY <1>1, Invariance, PTL

(* A file fails verification only through a torn write or a long record.   *)
THEOREM DamageIsExplained == Spec => []DamageHasACause
<1>1. IInv => DamageHasACause
  BY DEF IInv, Untorn, DamageHasACause, Verified, Verifies
<1>. QED  BY <1>1, Invariance, PTL

-----------------------------------------------------------------------------
(* When no write loses just its newline.                                   *)

NoOpen == \A i \in DOMAIN file : file[i].form # "open"

LEMMA NoOpenKept ==
  ASSUME TypeOK, NoOpen, "open" \notin Torn,
         NEW p \in Procs, NEW new \in Outcomes(p), Lands(p, new)
  PROVE  NoOpen' /\ \A i \in DOMAIN file :
                      Verifies(file[i]) => i \in DOMAIN file' /\ file'[i] = file[i]
<1>1. new \in Line /\ new.form # "open" /\ file' = With(new)
  BY OutcomeTypes DEF Lands
<1>2. ASSUME NEW i \in DOMAIN file', file'[i].form = "open" PROVE FALSE
  <2>1. CASE i \in DOMAIN file
    <3>1. Verifies(file[i])
      BY <1>1, <1>2, <2>1, WithKeeps DEF Verifies
    <3>2. file[i].form = "whole"
      BY <2>1, <3>1 DEF Verifies, NoOpen
    <3>. QED  BY <1>1, <1>2, <2>1, <3>2, WithKeeps
  <2>2. CASE i \notin DOMAIN file
    BY <1>1, <1>2, <2>2, WithLength
  <2>. QED  BY <2>1, <2>2
<1>3. ASSUME NEW i \in DOMAIN file, Verifies(file[i])
      PROVE  i \in DOMAIN file' /\ file'[i] = file[i]
  <2>1. file[i].form = "whole"
    BY <1>3 DEF Verifies, NoOpen
  <2>. QED  BY <1>1, <1>3, <2>1, WithKeeps
<1>. QED  BY <1>2, <1>3 DEF NoOpen

(* A verified file with a line more was verified before it, and holds it.  *)
LEMMA VerifiedBefore ==
  ASSUME TypeOK, NoOpen, NEW p \in Procs, NEW new \in Outcomes(p), Lands(p, new), Verified'
  PROVE  Verified /\ \E i \in DOMAIN file' : file'[i] = new
<1>1. new \in Line /\ file' = With(new) /\ file \in Seq(Line)
  BY OutcomeTypes DEF Lands, TypeOK
<1>2. ASSUME NEW i \in DOMAIN file PROVE Verifies(file[i])
  BY <1>1, WithKeeps DEF Verified, Verifies
<1>3. ~Unended
  <2> SUFFICES ASSUME Unended PROVE FALSE
    OBVIOUS
  <2>1. Len(file) \in DOMAIN file
    BY <1>1 DEF Unended
  <2>. QED  BY <1>2, <2>1 DEF Unended, Verifies, NoOpen
<1>4. file' = Append(file, new)
  BY <1>1, <1>3 DEF With
<1>5. Len(file) + 1 \in DOMAIN file' /\ file'[Len(file) + 1] = new
  BY <1>1, <1>4
<1>. QED  BY <1>2, <1>5 DEF Verified

(* While no write loses only its newline, a line that verifies stays, and  *)
(* a key that was reported stays in the file until it fails verification.  *)
Kept == \A i \in DOMAIN file : Verifies(file[i]) => i \in DOMAIN file' /\ file'[i] = file[i]

LEMMA StepKeeps ==
  ASSUME "open" \notin Torn, TypeOK, NoOpen, NoSilentLoss, [Next]_vars
  PROVE  NoOpen' /\ NoSilentLoss' /\ Kept
<1>1. CASE UNCHANGED vars \/ Quiet
  BY <1>1 DEF vars, Quiet, NoOpen, NoSilentLoss, Verified, Verifies, Kept
<1>2. ASSUME NEW p \in Procs, NEW new \in Outcomes(p), Lands(p, new)
      PROVE NoOpen' /\ NoSilentLoss' /\ Kept
  <2>1. NoOpen' /\ Kept
    BY <1>2, NoOpenKept DEF Kept
  <2>2. ASSUME NEW k \in reported', Verified' PROVE \E i \in DOMAIN file' : file'[i].key = k
    <3>1. Verified /\ \E i \in DOMAIN file' : file'[i] = new
      BY <1>2, <2>2, VerifiedBefore
    <3>2. CASE k \in reported
      <4>1. PICK i \in DOMAIN file : file[i].key = k
        BY <3>1, <3>2 DEF NoSilentLoss
      <4>2. i \in DOMAIN file' /\ file'[i] = file[i]
        BY <2>1, <3>1 DEF Verified, Kept
      <4>. QED  BY <4>1, <4>2
    <3>3. CASE k \notin reported
      <4>1. k = key[p] /\ new = Complete(p)
        BY <1>2, <2>2, <3>3 DEF Lands
      <4>2. new.key = k
        BY <1>2, <4>1, OutcomeTypes DEF Lands
      <4>. QED  BY <3>1, <4>2
    <3>. QED  BY <3>2, <3>3
  <2>. QED  BY <2>1, <2>2 DEF NoSilentLoss
<1>. QED  BY <1>1, <1>2, Shape

LEMMA NeverOpen ==
  "open" \notin Torn => (Spec => [](NoOpen /\ NoSilentLoss))
<1> SUFFICES ASSUME "open" \notin Torn PROVE Spec => [](NoOpen /\ NoSilentLoss)
  OBVIOUS
<1>1. Init => NoOpen /\ NoSilentLoss
  BY DEF Init, NoOpen, NoSilentLoss
<1>2. TypeOK /\ (NoOpen /\ NoSilentLoss) /\ [Next]_vars => (NoOpen /\ NoSilentLoss)'
  BY StepKeeps
<1>. QED  BY <1>1, <1>2, TypeCorrect, PTL DEF Spec

(* A record whose append returned BMS_OK is in the file, or the file fails *)
(* verification.                                                           *)
THEOREM NothingIsLostSilently ==
  "open" \notin Torn => (Spec => []NoSilentLoss)
BY NeverOpen, PTL

(* No append changes or removes a line that verifies, whatever tears it or *)
(* runs beside it.                                                         *)
THEOREM FilesOnlyGrow ==
  "open" \notin Torn => (Spec => AppendOnly)
<1> SUFFICES ASSUME "open" \notin Torn PROVE Spec => AppendOnly
  OBVIOUS
<1>1. TypeOK /\ (NoOpen /\ NoSilentLoss) /\ [Next]_vars => Kept
  BY StepKeeps
<1>2. Spec => [](NoOpen /\ NoSilentLoss)
  BY NeverOpen
<1>. QED  BY <1>1, <1>2, TypeCorrect, PTL DEF Spec, AppendOnly, Kept
=============================================================================
