----------------------------- MODULE JsonlStore -----------------------------
(***************************************************************************)
(* One record file of core/src/storage/bms_jsonl_store.c and the processes *)
(* that append to it.  An append scans the file for the idempotency key,   *)
(* counts its lines for the next sequence number, and writes a line at the *)
(* end; nothing locks the file between the three.  A write may fail or be  *)
(* cut short by the death of its process.  The application starts only on  *)
(* files that verify; the recovery command appends without that check.     *)
(*                                                                         *)
(* A line is what readers make of it: fields are taken from their first    *)
(* occurrence; a line and what continues it fit the readers' buffer.       *)
(* Forms: "whole" verifies; "unsound" was written whole, but does not: its *)
(* payload exceeds the verifier's buffer, or a brace within a string misled*)
(* the search for the payload's end; "cut" lost its end, "open" only its   *)
(* newline; "garbled" is a cut line continued by another record.           *)
(***************************************************************************)
EXTENDS Naturals, Sequences

CONSTANTS
  Procs,        \* processes on one data directory
  Keys,         \* idempotency keys
  Tools,        \* the processes that are recovery commands
  Offers,       \* the keys each process appends
  Unverifiable, \* keys of records that bms_record_verify_json_line refuses
  Oversized,    \* keys of records too long for the line buffer
  Torn,         \* how an interrupted write may end: subset of {"cut", "open"}
  MaxLines,     \* bound: no new append once the file has this many lines
  NoKey

ASSUME StoreAssumption ==
  /\ Tools \subseteq Procs
  /\ Offers \in [Procs -> SUBSET Keys]
  /\ Unverifiable \subseteq Keys /\ Oversized \subseteq Keys
  /\ Torn \subseteq {"cut", "open"}
  /\ MaxLines \in Nat
  /\ NoKey \notin Keys

VARIABLES
  file,         \* the sequence of lines
  stage,        \* how far each process is
  key,          \* the key each process is appending
  sequence,     \* the sequence number each process has drawn
  reported,     \* keys whose append returned BMS_OK
  overlap,      \* have two processes ever been up at once?
  torn          \* has a write ever been cut short?

vars == <<file, stage, key, sequence, reported, overlap, torn>>

Line == [key : Keys \cup {NoKey}, sequence : Nat,
         form : {"whole", "unsound", "cut", "open", "garbled"}]

TypeOK ==
  /\ file \in Seq(Line)
  /\ stage \in [Procs -> {"down", "idle", "scanned", "counted"}]
  /\ key \in [Procs -> Keys \cup {NoKey}]
  /\ sequence \in [Procs -> Nat]
  /\ reported \subseteq Keys
  /\ overlap \in BOOLEAN /\ torn \in BOOLEAN
  /\ \A p \in Procs : stage[p] \in {"scanned", "counted"} => key[p] \in Offers[p]

Init ==
  /\ file = << >>
  /\ stage = [p \in Procs |-> "down"]
  /\ key = [p \in Procs |-> NoKey]
  /\ sequence = [p \in Procs |-> 0]
  /\ reported = {}
  /\ overlap = FALSE /\ torn = FALSE

-----------------------------------------------------------------------------
(* Reading.                                                                *)

Verifies(line) == line.form \in {"whole", "open"}

(* bms_jsonl_verify_file stops at the first line that does not verify.     *)
Verified == \A i \in DOMAIN file : Verifies(file[i])

(* Variant: the scan stops at a line that does not verify.                 *)
ContainsKeyInSoundPart(k) ==
  \E i \in DOMAIN file : file[i].key = k /\ \A j \in 1..i : Verifies(file[j])

ContainsKey(k) == \E i \in DOMAIN file : file[i].key = k

(* Variants: the number of the last line, and its index from zero.         *)
NextSequenceOfLast == IF file = << >> THEN 1 ELSE Len(file)

NextSequenceFromIndex == Len(file) - 1

NextSequence == Len(file) + 1

-----------------------------------------------------------------------------
(* Writing: fopen(path, "a"), so a line that lacks its newline goes on.    *)

Unended == file # << >> /\ file[Len(file)].form \in {"cut", "open"}

Continued(line, new) ==
  [line EXCEPT
     !.key  = IF @ = NoKey THEN new.key ELSE @,
     !.form = IF @ = "open" THEN (IF new.form \in {"whole", "unsound"} THEN "whole" ELSE "open")
              ELSE IF new.form \in {"whole", "unsound"} THEN "garbled" ELSE "cut"]

(* Variant: the file opened with "w".                                      *)
WithTruncation(new) == << new >>

With(new) ==
  IF Unended THEN [file EXCEPT ![Len(file)] = Continued(@, new)]
             ELSE Append(file, new)

LineOf(p, form) == [key |-> key[p], sequence |-> sequence[p], form |-> form]

Complete(p) == IF key[p] \in Unverifiable THEN LineOf(p, "unsound") ELSE LineOf(p, "whole")

(* What a write that was cut short may leave; its key may be missing too.  *)
Fragments(p) ==
  (IF "cut" \in Torn THEN {LineOf(p, "cut"), [LineOf(p, "cut") EXCEPT !.key = NoKey]} ELSE {})
  \cup (IF "open" \in Torn /\ key[p] \notin Unverifiable THEN {LineOf(p, "open")} ELSE {})

-----------------------------------------------------------------------------
(* A process.                                                              *)

(* The append returns, or its process ends.                                *)
Return(p, where) ==
  /\ stage' = [stage EXCEPT ![p] = where]
  /\ key' = [key EXCEPT ![p] = NoKey]
  /\ sequence' = [sequence EXCEPT ![p] = 0]

Up == {p \in Procs : stage[p] # "down"}

Start(p) ==
  /\ stage[p] = "down"
  /\ p \in Tools \/ Verified
  /\ stage' = [stage EXCEPT ![p] = "idle"]
  /\ overlap' = (overlap \/ Up # {})
  /\ UNCHANGED <<file, key, sequence, reported, torn>>

Stop(p) ==
  /\ stage[p] = "idle"
  /\ stage' = [stage EXCEPT ![p] = "down"]
  /\ UNCHANGED <<file, key, sequence, reported, overlap, torn>>

(* A key that is found is refused, and nothing changes.                    *)
Scan(p, k) ==
  /\ stage[p] = "idle" /\ Len(file) < MaxLines
  /\ ~ContainsKey(k)
  /\ stage' = [stage EXCEPT ![p] = "scanned"]
  /\ key' = [key EXCEPT ![p] = k]
  /\ UNCHANGED <<file, sequence, reported, overlap, torn>>

Count(p) ==
  /\ stage[p] = "scanned"
  /\ sequence' = [sequence EXCEPT ![p] = NextSequence]
  /\ stage' = [stage EXCEPT ![p] = "counted"]
  /\ UNCHANGED <<file, key, reported, overlap, torn>>

(* Variant: as much of the record written as fits.                         *)
RejectTooLate(p) ==
  /\ stage[p] = "counted" /\ key[p] \in Oversized
  /\ file' = With(LineOf(p, "cut"))
  /\ Return(p, "idle")
  /\ UNCHANGED <<reported, overlap, torn>>

(* bms_record_to_json_line refuses a line that does not fit its buffer.    *)
Reject(p) ==
  /\ stage[p] = "counted" /\ key[p] \in Oversized
  /\ Return(p, "idle")
  /\ UNCHANGED <<file, reported, overlap, torn>>

Write(p) ==
  /\ stage[p] = "counted" /\ key[p] \notin Oversized
  /\ file' = With(Complete(p))
  /\ reported' = reported \cup {key[p]}
  /\ Return(p, "idle")
  /\ UNCHANGED <<overlap, torn>>

(* A write that did not return BMS_OK left nothing, all of it, or a part.  *)
Interrupted(p) ==
  \/ UNCHANGED <<file, torn>>
  \/ /\ stage[p] = "counted" /\ key[p] \notin Oversized
     /\ \/ file' = With(Complete(p)) /\ UNCHANGED torn
        \/ \E fragment \in Fragments(p) : file' = With(fragment) /\ torn' = TRUE

(* An error of fopen, fputs or fsync.                                      *)
WriteFails(p) ==
  /\ stage[p] = "counted" /\ key[p] \notin Oversized
  /\ Interrupted(p)
  /\ Return(p, "idle")
  /\ UNCHANGED <<reported, overlap>>

Crash(p) ==
  /\ stage[p] # "down"
  /\ Interrupted(p)
  /\ Return(p, "down")
  /\ UNCHANGED <<reported, overlap>>

Next ==
  \E p \in Procs :
    \/ Start(p) \/ Stop(p)
    \/ \E k \in Offers[p] : Scan(p, k)
    \/ Count(p) \/ Reject(p) \/ Write(p) \/ WriteFails(p) \/ Crash(p)

Spec == Init /\ [][Next]_vars

-----------------------------------------------------------------------------
(* Properties.                                                             *)

(* A key that only one process ever offers.                                *)
OfferedOnceOnly(k) ==
  \A p, q \in Procs : k \in Offers[p] /\ k \in Offers[q] => p = q

(* No two records with one key, whatever fails or is retried: always while *)
(* only one process was up at a time, and even beside another process for  *)
(* a key the other does not use.                                           *)
UniqueKeys ==
  \A i, j \in DOMAIN file :
    /\ Verifies(file[i]) /\ Verifies(file[j]) /\ file[i].key = file[j].key
    /\ ~overlap \/ OfferedOnceOnly(file[i].key)
    => i = j

(* While only one process was up at a time a record's sequence number is   *)
(* its place in the file, and the records of one process rise even beside  *)
(* another: a torn line is counted once, however often it is continued.    *)
SequencesRise ==
  /\ ~overlap => \A i \in DOMAIN file : Verifies(file[i]) => file[i].sequence = i
  /\ \A p \in Procs : \A i, j \in DOMAIN file :
       /\ i < j /\ Verifies(file[i]) /\ Verifies(file[j])
       /\ \A q \in Procs : file[i].key \in Offers[q] \/ file[j].key \in Offers[q] => q = p
       => file[i].sequence < file[j].sequence

(* No silent loss: a record whose append returned BMS_OK is in the file,   *)
(* or the file fails verification.                                         *)
NoSilentLoss ==
  \A k \in reported : Verified => \E i \in DOMAIN file : file[i].key = k

(* Only a torn write or a record the verifier cannot read makes a file     *)
(* fail: not a race, a refusal, a retry or an error that left a whole line.*)
DamageHasACause ==
  Verified \/ torn \/ \E i \in DOMAIN file : file[i].key \in Unverifiable

(* Records that verify stay where they are as they are.                    *)
AppendOnly ==
  [][\A i \in DOMAIN file :
       Verifies(file[i]) => i \in DOMAIN file' /\ file'[i] = file[i]]_vars
=============================================================================
