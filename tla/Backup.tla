------------------------------- MODULE Backup -------------------------------
(***************************************************************************)
(* src/bms/services/backup.py: a backup counts the records of every durable*)
(* file, writes the counts as a manifest and then copies the files one by  *)
(* one into an archive; a restore extracts an archive into an empty target *)
(* and compares the counts with the manifest.  Another process may write   *)
(* to the data root meanwhile, or roll back with the recovery command, and *)
(* both commands may fail or die anywhere.                                 *)
(*                                                                         *)
(* A file is its version, the number of times it was put in place, and the *)
(* number of records appended to that version; Damaged instead of a number *)
(* if it cannot be verified or parsed.  An append continues a version; a   *)
(* role change and the recovery command put another one in its place.      *)
(***************************************************************************)
EXTENDS Naturals, Sequences

CONSTANTS
  Durable,       \* the files of _DURABLE_FILE_ATTRIBUTES
  Logs,          \* those of them the recovery command compacts: the log
  Documents,     \* users.json and roles.json
  CountOrder,    \* the durable files as they are counted
  ArchiveOrder,  \* all files as they are archived: by path
  Names,         \* archive names, one for each second
  Targets,       \* directories to restore into
  MaxRecords,    \* bound: records in each file
  MaxVersions,   \* bound: versions of a file
  Damaged, NoName

Files == Durable \cup Documents

ASSUME BackupAssumption ==
  /\ Durable \cap Documents = {} /\ Logs \subseteq Durable
  /\ CountOrder \in Seq(Durable) /\ ArchiveOrder \in Seq(Files)
  /\ \A f \in Durable : \E i \in DOMAIN CountOrder : CountOrder[i] = f
  /\ \A f \in Files : \E i \in DOMAIN ArchiveOrder : ArchiveOrder[i] = f
  /\ MaxRecords \in [Files -> Nat] /\ MaxVersions \in Nat
  /\ Damaged \notin Nat
  /\ NoName \notin Names

VARIABLES
  live,      \* the data root
  job,       \* the backup command under way
  archives,  \* what is in the backup directory
  targets    \* what is in the restore targets, and the commands filling them

vars == <<live, job, archives, targets>>

Absent == [version |-> 0, records |-> 0]

(* A document as the first start writes it.                                *)
Created == [version |-> 1, records |-> 0]

Content == [version : Nat \ {0}, records : Nat \cup {Damaged}] \cup {Absent}

Root == [Files -> Content]

(* Of what was verified the manifest holds the numbers of records.         *)
Verified == [Durable -> {c \in Content : c.records # Damaged}]

Archive == [form : {"none", "cut", "short", "done"}, verified : Verified,
            members : Root, moment : Root, quiet : BOOLEAN]

Nothing == [f \in Files |-> Absent]

Unverified == [f \in Durable |-> Absent]

(* seen: the file being copied, as it was when its size was taken.         *)
Idle == [stage |-> "idle", name |-> NoName, at |-> 1,
         verified |-> Unverified, seen |-> Absent, quiet |-> TRUE]

NoArchive == [form |-> "none", verified |-> Unverified, members |-> Nothing,
              moment |-> Nothing, quiet |-> TRUE]

Unfilled == [stage |-> "empty", from |-> NoName, at |-> 0, root |-> Nothing]

TypeOK ==
  /\ live \in Root /\ \A d \in Documents : live[d] \in [version : Nat \ {0}, records : {0}]
  /\ job \in [stage : {"idle", "counting", "archiving"}, name : Names \cup {NoName},
              at : Nat \ {0}, verified : Verified, seen : Content, quiet : BOOLEAN]
  /\ archives \in [Names -> Archive]
  /\ targets \in [Targets -> [stage : {"empty", "extracting", "left", "refused", "accepted"},
                             from : Names \cup {NoName}, at : Nat, root : Root]]
  /\ job.stage # "idle" => job.name \in Names
  /\ job.stage = "archiving" => archives[job.name].form = "cut"
  /\ \A t \in Targets : targets[t].stage # "empty" =>
       targets[t].from \in Names /\ archives[targets[t].from].form \in {"short", "done"}

Init ==
  /\ live = [f \in Files |-> IF f \in Durable THEN Absent ELSE Created]
  /\ job = Idle
  /\ archives = [n \in Names |-> NoArchive]
  /\ targets = [t \in Targets |-> Unfilled]

-----------------------------------------------------------------------------
(* The other processes.                                                    *)

Disturb == job' = [job EXCEPT !.quiet = (job.stage = "idle")]

(* An append makes the file if need be; one that is cut short leaves a line*)
(* that fails verification.                                                *)
Write(f, records) ==
  /\ live' = [live EXCEPT ![f] = [version |-> IF @ = Absent THEN 1 ELSE @.version,
                                 records |-> records]]
  /\ Disturb
  /\ UNCHANGED <<archives, targets>>

AppendRecord(f) ==
  /\ f \in Durable /\ live[f].records # Damaged /\ live[f].records < MaxRecords[f]
  /\ Write(f, live[f].records + 1)

Tear(f) ==
  /\ f \in Durable /\ live[f].records # Damaged
  /\ Write(f, Damaged)

Replace(f, records) ==
  /\ live[f].version < MaxVersions
  /\ live' = [live EXCEPT ![f] = [version |-> @.version + 1, records |-> records]]
  /\ Disturb
  /\ UNCHANGED <<archives, targets>>

UpdateUserRoles(d) == d \in Documents /\ Replace(d, 0)

(* The recovery command: the log without the pending records of operations *)
(* that never committed, of which there is at least one.                   *)
RecoverStartup(f) ==
  /\ f \in Logs /\ live[f].records # Damaged /\ live[f].records > 0
  /\ \E kept \in 0..(live[f].records - 1) : Replace(f, kept)

-----------------------------------------------------------------------------
(* create_backup.                                                          *)

CreateBackup(n) ==
  /\ job.stage = "idle"
  /\ job' = [Idle EXCEPT !.stage = "counting", !.name = n]
  /\ UNCHANGED <<live, archives, targets>>

(* validate_data_root: one more file verified; one that fails ends it.     *)
CountFile ==
  /\ job.stage = "counting" /\ job.at <= Len(CountOrder)
  /\ LET f == CountOrder[job.at] IN
       job' = IF live[f].records = Damaged THEN Idle
              ELSE [job EXCEPT !.verified[f] = live[f], !.at = @ + 1]
  /\ UNCHANGED <<live, archives, targets>>

(* The archive is opened under its final name, the manifest written and    *)
(* the files listed: those that are there at this moment.                  *)
NewArchive == [form |-> "cut", verified |-> job.verified, members |-> Nothing,
               moment |-> live, quiet |-> TRUE]

(* Variant: an archive of that name replaced.                              *)
OpenArchiveOverwriting ==
  /\ job.stage = "counting" /\ job.at > Len(CountOrder)
  /\ archives' = [archives EXCEPT ![job.name] = NewArchive]
  /\ job' = [job EXCEPT !.stage = "archiving", !.at = 1]
  /\ UNCHANGED <<live, targets>>

OpenArchive ==
  /\ job.stage = "counting" /\ job.at > Len(CountOrder)
  /\ archives[job.name].form = "none"
  /\ archives' = [archives EXCEPT ![job.name] = NewArchive]
  /\ job' = [job EXCEPT !.stage = "archiving", !.at = 1]
  /\ UNCHANGED <<live, targets>>

RefuseExisting ==
  /\ job.stage = "counting" /\ job.at > Len(CountOrder)
  /\ archives[job.name].form # "none"
  /\ job' = Idle
  /\ UNCHANGED <<live, archives, targets>>

(* Variant: only the append-only files archived.                           *)
StatMemberIfDurable ==
  /\ job.stage = "archiving" /\ job.at <= Len(ArchiveOrder) /\ job.seen = Absent
  /\ LET f == ArchiveOrder[job.at] IN
       job' = IF f \in Documents \/ archives[job.name].moment[f] = Absent
              THEN [job EXCEPT !.at = @ + 1] ELSE [job EXCEPT !.seen = live[f]]
  /\ UNCHANGED <<live, archives, targets>>

(* archive.add of the next file that was listed: first its size is taken.  *)
StatMember ==
  /\ job.stage = "archiving" /\ job.at <= Len(ArchiveOrder) /\ job.seen = Absent
  /\ LET f == ArchiveOrder[job.at] IN
       job' = IF archives[job.name].moment[f] = Absent
              THEN [job EXCEPT !.at = @ + 1] ELSE [job EXCEPT !.seen = live[f]]
  /\ UNCHANGED <<live, archives, targets>>

(* The beginning of a file: whole records of it, or a line cut short.      *)
Beginnings(f, c) ==
  {[c EXCEPT !.records = n] :
     n \in {m \in 0..MaxRecords[f] : c.records = Damaged \/ m <= c.records} \cup {Damaged}}

(* Then it is opened and read up to that size: as it was seen, unless      *)
(* another version has taken its place.                                    *)
CopyMember ==
  /\ job.stage = "archiving" /\ job.at <= Len(ArchiveOrder) /\ job.seen # Absent
  /\ LET f == ArchiveOrder[job.at] IN
       /\ live[f] # Absent
       /\ \E c \in IF live[f].version = job.seen.version THEN {job.seen} ELSE Beginnings(f, live[f]) :
            archives' = [archives EXCEPT ![job.name].members[f] = c]
  /\ job' = [job EXCEPT !.at = @ + 1, !.seen = Absent]
  /\ UNCHANGED <<live, targets>>

Close(form) ==
  /\ archives' = [archives EXCEPT ![job.name].form = form, ![job.name].quiet = job.quiet]
  /\ job' = Idle

(* The command reports the backup.                                         *)
FinishBackup ==
  /\ job.stage = "archiving" /\ job.at > Len(ArchiveOrder)
  /\ Close("done")
  /\ UNCHANGED <<live, targets>>

(* Death, or an error within a file, leaves an archive that cannot be read;*)
(* after an error between two, closing makes it a readable, short one.     *)
BackupStops ==
  /\ \/ job.stage = "counting" /\ job' = Idle /\ UNCHANGED archives
     \/ job.stage = "archiving" /\ \E form \in {"cut", "short"} : Close(form)
  /\ UNCHANGED <<live, targets>>

-----------------------------------------------------------------------------
(* restore_backup.                                                         *)

(* Variant: an archive extracted as far as it goes.                        *)
ReadableInPart(n) == archives[n].form # "none"

Readable(n) == archives[n].form \in {"short", "done"}

(* A target that is not empty and an archive that cannot be read are       *)
(* refused, and nothing changes.                                           *)
RestoreBackup(n, t) ==
  /\ targets[t].stage = "empty" /\ Readable(n)
  /\ targets' = [targets EXCEPT ![t].stage = "extracting", ![t].from = n]
  /\ UNCHANGED <<live, job, archives>>

(* extractall: the manifest comes first.                                   *)
Extract(t) ==
  /\ targets[t].stage = "extracting" /\ targets[t].at <= Len(ArchiveOrder)
  /\ LET at == targets[t].at IN
       targets' = [targets EXCEPT
         ![t].at = at + 1,
         ![t].root = IF at = 0 THEN @
                     ELSE [@ EXCEPT ![ArchiveOrder[at]] =
                                      archives[targets[t].from].members[ArchiveOrder[at]]]]
  /\ UNCHANGED <<live, job, archives>>

(* Variant: only the directories made.                                     *)
InitializedDirectories(root) == root

(* initialize_data_root.                                                   *)
Initialized(root) ==
  [f \in Files |-> IF f \in Documents /\ root[f] = Absent THEN Created ELSE root[f]]

(* Numbers of records are compared, and which files there are.             *)
SameCount(c, d) == c.records = d.records /\ (c = Absent <=> d = Absent)

(* Variant: only what was extracted compared.                              *)
MatchesPresent(root, verified) ==
  \A f \in Durable : root[f] # Absent => SameCount(root[f], verified[f])

Matches(root, verified) == \A f \in Durable : SameCount(root[f], verified[f])

ValidateRestore(t) ==
  /\ targets[t].stage = "extracting" /\ targets[t].at > Len(ArchiveOrder)
  /\ LET root == Initialized(targets[t].root) IN
       targets' = [targets EXCEPT
         ![t].root = root,
         ![t].stage = IF Matches(root, archives[targets[t].from].verified)
                      THEN "accepted" ELSE "refused"]
  /\ UNCHANGED <<live, job, archives>>

(* An error or a crash; what was extracted stays.                          *)
RestoreStops(t) ==
  /\ targets[t].stage = "extracting"
  /\ targets' = IF targets[t].at = 0 THEN [targets EXCEPT ![t] = Unfilled]
                ELSE [targets EXCEPT ![t].stage = "left"]
  /\ UNCHANGED <<live, job, archives>>

Next ==
  \/ \E f \in Durable : AppendRecord(f) \/ Tear(f) \/ RecoverStartup(f)
  \/ \E d \in Documents : UpdateUserRoles(d)
  \/ \E n \in Names : CreateBackup(n)
  \/ CountFile \/ OpenArchive \/ RefuseExisting
  \/ StatMember \/ CopyMember \/ FinishBackup \/ BackupStops
  \/ \E t \in Targets :
       \/ \E n \in Names : RestoreBackup(n, t)
       \/ Extract(t) \/ ValidateRestore(t) \/ RestoreStops(t)

Spec == Init /\ [][Next]_vars

-----------------------------------------------------------------------------
(* Properties.                                                             *)

Source(t) == archives[targets[t].from]

(* The file restored is of the version that was verified.                  *)
SameVersion(t, f) == targets[t].root[f].version = Source(t).verified[f].version

(* Counting first and copying afterwards makes one moment of the whole: a  *)
(* restore that is accepted has every append-only file as it was at the    *)
(* same moment, although other processes were writing all the time.  Of the*)
(* log this holds unless the recovery command compacted it in between.     *)
RestoredMoment ==
  \A t \in Targets :
    /\ targets[t].stage = "accepted"
    /\ Source(t).form = "done" \/ Source(t).quiet
    => \A f \in Durable : (f \in Logs => SameVersion(t, f)) =>
         targets[t].root[f] = Source(t).moment[f]

(* A backup that was reported, with nobody writing, is restored completely,*)
(* identity documents included; it is never refused.                       *)
ReportedRestores ==
  \A t \in Targets :
    targets[t].stage \in {"accepted", "refused"} /\ Source(t).form = "done" /\ Source(t).quiet
    => targets[t].stage = "accepted" /\ targets[t].root = Source(t).moment

(* A restore that is accepted is a data root the application starts on: no *)
(* append-only file of it is damaged, and its identity documents are there,*)
(* whole if nobody wrote during the backup.                                *)
AcceptedIsSound ==
  \A t \in Targets : targets[t].stage = "accepted" =>
    /\ \A f \in Durable : targets[t].root[f].records # Damaged
    /\ \A d \in Documents : targets[t].root[d] # Absent
    /\ Source(t).quiet => \A d \in Documents : targets[t].root[d].records # Damaged

(* An archive that was reported and a target that was accepted stay as     *)
(* they are, whatever is backed up, restored or retried later.             *)
NothingOverwritten ==
  [][/\ \A n \in Names : Readable(n) => archives'[n] = archives[n]
     /\ \A t \in Targets :
          targets[t].stage \in {"accepted", "refused", "left"} => targets'[t] = targets[t]]_vars
=============================================================================
