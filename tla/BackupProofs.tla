---------------------------- MODULE BackupProofs ----------------------------
(***************************************************************************)
(* Theorems about Backup, for every set of files, any order of counting    *)
(* and archiving, and any number of archives, targets and records.         *)
(***************************************************************************)
EXTENDS Backup, TLAPS

ArchiveStep ==
  OpenArchive \/ StatMember \/ CopyMember \/ FinishBackup
    \/ (BackupStops /\ job.stage = "archiving")

JobStep ==
  \/ \E n \in Names : CreateBackup(n)
  \/ CountFile \/ RefuseExisting \/ (BackupStops /\ job.stage = "counting")

WriterStep ==
  \/ \E f \in Durable : AppendRecord(f) \/ Tear(f) \/ RecoverStartup(f)
  \/ \E d \in Documents : UpdateUserRoles(d)

RestoreStep ==
  \E t \in Targets :
    \/ \E n \in Names : RestoreBackup(n, t)
    \/ Extract(t) \/ ValidateRestore(t) \/ RestoreStops(t)

(* Only one of the variables' owners acts in a step.                       *)
LEMMA Steps ==
  ASSUME Next PROVE ArchiveStep \/ JobStep \/ WriterStep \/ RestoreStep
BY DEF Next, ArchiveStep, JobStep, WriterStep, RestoreStep, BackupStops

LEMMA Kinds ==
  /\ \A f \in Durable : f \notin Documents /\ f \in Files
  /\ \A d \in Documents : d \notin Durable /\ d \in Files
  /\ \A f \in Files : f \in Durable \/ f \in Documents
BY BackupAssumption DEF Files

(* The orders are walks over indices from one, and reach every file.       *)
LEMMA Orders ==
  /\ DOMAIN CountOrder = 1..Len(CountOrder) /\ Len(CountOrder) \in Nat
  /\ DOMAIN ArchiveOrder = 1..Len(ArchiveOrder) /\ Len(ArchiveOrder) \in Nat
  /\ \A i \in DOMAIN CountOrder : CountOrder[i] \in Durable
  /\ \A i \in DOMAIN ArchiveOrder : ArchiveOrder[i] \in Files
  /\ \A f \in Durable : \E i \in DOMAIN CountOrder : CountOrder[i] = f
  /\ \A f \in Files : \E i \in DOMAIN ArchiveOrder : ArchiveOrder[i] = f
<1>1. /\ CountOrder \in Seq(Durable) /\ ArchiveOrder \in Seq(Files)
      /\ \A f \in Durable : \E i \in DOMAIN CountOrder : CountOrder[i] = f
      /\ \A f \in Files : \E i \in DOMAIN ArchiveOrder : ArchiveOrder[i] = f
  BY BackupAssumption
<1>. QED  BY <1>1

-----------------------------------------------------------------------------
(* The order of a file's contents.  Within a version records are added     *)
(* until one is damaged; versions follow one another.                      *)

Before(c, d) ==
  \/ c.version < d.version
  \/ /\ c.version = d.version
     /\ d.records = Damaged \/ (c.records \in Nat /\ d.records \in Nat /\ c.records <= d.records)

LEMMA ContentFacts ==
  /\ Absent \in Content /\ Absent.version = 0 /\ Absent.records = 0
  /\ Created \in Content /\ Created.version = 1 /\ Created.records = 0 /\ Created # Absent
  /\ \A v \in Nat \ {0}, r \in Nat \cup {Damaged} : [version |-> v, records |-> r] \in Content
  /\ \A c \in Content :
       /\ c.version \in Nat /\ c.records \in Nat \cup {Damaged}
       /\ c.version = 0 <=> c = Absent
       /\ c = [version |-> c.version, records |-> c.records]
BY DEF Content, Absent, Created

LEMMA BeforeFacts ==
  /\ \A c \in Content : Before(c, c)
  /\ \A c, d, e \in Content : Before(c, d) /\ Before(d, e) => Before(c, e)
  /\ \A c, d \in Content : Before(c, d) /\ c # Absent => d # Absent
  /\ \A c \in Content : Before(Absent, c)
<1>1. \A c \in Content : Before(c, c)
  BY ContentFacts DEF Before
<1>2. ASSUME NEW c \in Content, NEW d \in Content, NEW e \in Content, Before(c, d), Before(d, e)
      PROVE  Before(c, e)
  <2>1. /\ c.version \in Nat /\ d.version \in Nat /\ e.version \in Nat
        /\ c.records \in Nat \cup {Damaged} /\ d.records \in Nat \cup {Damaged}
        /\ e.records \in Nat \cup {Damaged} /\ Damaged \notin Nat
    BY ContentFacts, BackupAssumption
  <2>. QED  BY <1>2, <2>1 DEF Before
<1>3. \A c, d \in Content : Before(c, d) /\ c # Absent => d # Absent
  BY ContentFacts DEF Before
<1>4. \A c \in Content : Before(Absent, c)
  BY ContentFacts DEF Before
<1>. QED  BY <1>1, <1>2, <1>3, <1>4

(* Between two contents of one version and number there is no other.       *)
LEMMA Squeezed ==
  ASSUME NEW c \in Content, NEW d \in Content, NEW e \in Content, c.records # Damaged,
         Before(c, d), Before(d, e), c.version = e.version, c.records = e.records
  PROVE  d = e
<1>1. /\ c.version \in Nat /\ d.version \in Nat /\ e.version \in Nat
      /\ c.records \in Nat /\ d.records \in Nat \cup {Damaged} /\ Damaged \notin Nat
  BY ContentFacts, BackupAssumption
<1>2. d.version = e.version /\ d.records = e.records
  BY <1>1 DEF Before
<1>. QED  BY <1>2, ContentFacts

-----------------------------------------------------------------------------
(* What a step of each owner does.                                         *)

Targetlike == [stage : {"empty", "extracting", "left", "refused", "accepted"},
               from : Names \cup {NoName}, at : Nat, root : Root]

Joblike == [stage : {"idle", "counting", "archiving"}, name : Names \cup {NoName},
            at : Nat \ {0}, verified : Verified, seen : Content, quiet : BOOLEAN]

LEMMA JobType ==
  ASSUME TypeOK PROVE job \in Joblike
BY DEF TypeOK, Joblike

Documentlike == [version : Nat \ {0}, records : {0}]

LEMMA WriterEffect ==
  ASSUME TypeOK, WriterStep
  PROVE  /\ live' \in Root /\ \A d \in Documents : live'[d] \in Documentlike
         /\ \A f \in Files : Before(live[f], live'[f])
         /\ \A f \in Durable \ Logs : live[f].version <= 1 => live'[f].version <= 1
         /\ archives' = archives /\ targets' = targets
         /\ job' = [job EXCEPT !.quiet = (job.stage = "idle")]
<1>. DEFINE Effect(f) ==
       \E c \in Content :
         /\ live' = [live EXCEPT ![f] = c] /\ Before(live[f], c)
         /\ f \in Documents => c \in Documentlike
         /\ (f \in Durable \ Logs /\ live[f].version <= 1) => c.version <= 1
<1>0. live \in [Files -> Content] /\ \A d \in Documents : live[d] \in Documentlike
  BY DEF TypeOK, Root, Documentlike
<1>1. ASSUME NEW f \in Files, NEW r \in Nat \cup {Damaged}, Write(f, r), f \in Durable,
             live[f].records # Damaged, r = Damaged \/ r = live[f].records + 1
      PROVE  Effect(f)
  <2>. DEFINE c == [version |-> IF live[f] = Absent THEN 1 ELSE live[f].version, records |-> r]
  <2>1. live[f] \in Content /\ live[f].version \in Nat /\ live[f].records \in Nat
        /\ (live[f].version = 0 <=> live[f] = Absent) /\ live' = [live EXCEPT ![f] = c]
    BY <1>0, <1>1, ContentFacts DEF Write
  <2>2. c \in Content /\ c.records = r
        /\ c.version = IF live[f] = Absent THEN 1 ELSE live[f].version
    BY <2>1, ContentFacts
  <2>. HIDE DEF c
  <2>3. Before(live[f], c)
    BY <1>1, <2>1, <2>2 DEF Before
  <2>4. f \notin Documents /\ (live[f].version <= 1 => c.version <= 1)
    BY <1>1, <2>1, <2>2, Kinds
  <2>5. live' = [live EXCEPT ![f] = c]
    BY <2>1
  <2>. QED  BY <2>2, <2>3, <2>4, <2>5
<1>2. ASSUME NEW f \in Files, NEW r \in Nat, Replace(f, r), f \in Documents => r = 0,
             f \in Logs \cup Documents
      PROVE  Effect(f)
  <2>. DEFINE c == [version |-> live[f].version + 1, records |-> r]
  <2>1. live[f] \in Content /\ live[f].version \in Nat /\ live' = [live EXCEPT ![f] = c]
    BY <1>0, <1>2, ContentFacts DEF Replace
  <2>2. c \in Content /\ c.version = live[f].version + 1
        /\ (f \in Documents => c \in Documentlike)
    BY <1>2, <2>1, ContentFacts DEF Documentlike
  <2>. HIDE DEF c
  <2>3. Before(live[f], c)
    BY <2>1, <2>2 DEF Before
  <2>. QED  BY <1>2, <2>1, <2>2, <2>3, Kinds
<1>3. PICK f \in Files : Effect(f)
  <2>1. ASSUME NEW f \in Durable, AppendRecord(f) PROVE Effect(f) /\ f \in Files
    <3>1. f \in Files /\ live[f] \in Content /\ live[f].records \in Nat
          /\ live[f].records # Damaged /\ Write(f, live[f].records + 1)
      BY <1>0, <2>1, Kinds, ContentFacts DEF AppendRecord
    <3>. QED  BY <1>1, <3>1
  <2>2. ASSUME NEW f \in Durable, Tear(f) PROVE Effect(f) /\ f \in Files
    BY <1>1, <2>2, Kinds DEF Tear
  <2>3. ASSUME NEW d \in Documents, UpdateUserRoles(d) PROVE Effect(d) /\ d \in Files
    BY <1>2, <2>3, Kinds DEF UpdateUserRoles
  <2>4. ASSUME NEW f \in Durable, RecoverStartup(f) PROVE Effect(f) /\ f \in Files
    <3>1. f \in Logs /\ f \notin Documents /\ live[f].records \in Nat
      BY <1>0, <2>4, Kinds, ContentFacts DEF RecoverStartup
    <3>2. PICK kept \in 0..(live[f].records - 1) : Replace(f, kept)
      BY <2>4 DEF RecoverStartup
    <3>. QED  BY <1>2, <3>1, <3>2, Kinds
  <2>. QED  BY <2>1, <2>2, <2>3, <2>4 DEF WriterStep
<1>4. PICK c \in Content :
         /\ live' = [live EXCEPT ![f] = c] /\ Before(live[f], c)
         /\ f \in Documents => c \in Documentlike
         /\ (f \in Durable \ Logs /\ live[f].version <= 1) => c.version <= 1
  BY <1>3
<1>5. live' \in Root /\ (\A d \in Documents : live'[d] \in Documentlike)
      /\ \A g \in Files : g # f => live'[g] = live[g]
  BY <1>0, <1>4, Kinds DEF Root
<1>6. (\A g \in Files : Before(live[g], live'[g]))
      /\ \A g \in Durable \ Logs : live[g].version <= 1 => live'[g].version <= 1
  <2>1. live'[f] = c
    BY <1>0, <1>4
  <2>. QED  BY <1>0, <1>4, <1>5, <2>1, Kinds, BeforeFacts
<1>7. archives' = archives /\ targets' = targets
      /\ job' = [job EXCEPT !.quiet = (job.stage = "idle")]
  BY DEF WriterStep, AppendRecord, Tear, UpdateUserRoles, RecoverStartup, Write, Replace, Disturb
<1>. QED  BY <1>5, <1>6, <1>7

LEMMA JobEffect ==
  ASSUME TypeOK, JobStep
  PROVE  /\ live' = live /\ archives' = archives /\ targets' = targets
         /\ job' \in Joblike /\ job'.stage # "archiving"
         /\ job'.stage # "idle" => job'.name \in Names
<1>1. live' = live /\ archives' = archives /\ targets' = targets
  BY DEF JobStep, CreateBackup, CountFile, RefuseExisting, BackupStops
<1>2. Idle \in Joblike /\ Idle.stage = "idle"
  BY ContentFacts, BackupAssumption DEF Idle, Joblike, Verified, Unverified, Absent
<1>3. CASE \E n \in Names : CreateBackup(n)
  BY <1>1, <1>2, <1>3 DEF CreateBackup, Idle, Joblike
<1>4. CASE RefuseExisting \/ (BackupStops /\ job.stage = "counting")
  <2>1. job' = Idle
    BY <1>4 DEF RefuseExisting, BackupStops
  <2>. QED  BY <1>1, <1>2, <2>1
<1>5. CASE CountFile
  <2>1. CASE job' = Idle
    BY <1>1, <1>2, <2>1
  <2>2. CASE job' # Idle
    <3>1. CountOrder[job.at] \in Durable
      BY <1>5, Orders DEF CountFile, TypeOK
    <3>. DEFINE f == CountOrder[job.at]
    <3>2. live[f] \in {c \in Content : c.records # Damaged}
      BY <1>5, <2>2, <3>1, Kinds DEF CountFile, TypeOK, Root
    <3>3. job' = [job EXCEPT !.verified[f] = live[f], !.at = @ + 1] /\ job.stage = "counting"
      BY <1>5, <2>2 DEF CountFile
    <3>. DEFINE c == [job.verified EXCEPT ![f] = live[f]]
    <3>4. c \in Verified
      BY <3>1, <3>2 DEF TypeOK, Verified
    <3>5. job' = [job EXCEPT !.verified = c, !.at = job.at + 1]
      BY <3>3 DEF TypeOK
    <3>. HIDE DEF c, f
    <3>6. /\ job'.stage = job.stage /\ job'.name = job.name /\ job'.quiet = job.quiet
          /\ job'.verified = c /\ job'.at = job.at + 1 /\ job'.seen = job.seen
          /\ job' = [stage |-> job'.stage, name |-> job'.name, at |-> job'.at,
                     verified |-> job'.verified, seen |-> job'.seen, quiet |-> job'.quiet]
      BY <3>5, JobType DEF Joblike
    <3>7. job' \in Joblike
      BY <3>4, <3>6, JobType DEF Joblike
    <3>. QED  BY <1>1, <3>3, <3>6, <3>7 DEF TypeOK
  <2>. QED  BY <2>1, <2>2
<1>. QED  BY <1>3, <1>4, <1>5 DEF JobStep

LEMMA BeginningsType ==
  ASSUME NEW f \in Files, NEW c \in Content, c # Absent
  PROVE  /\ Beginnings(f, c) \subseteq Content
         /\ \A b \in Beginnings(f, c) : b.version = c.version
<1>1. c.version \in Nat \ {0} /\ c = [version |-> c.version, records |-> c.records]
  BY ContentFacts
<1>2. \A n \in Nat \cup {Damaged} :
        [c EXCEPT !.records = n] = [version |-> c.version, records |-> n]
  BY <1>1
<1>. QED  BY <1>1, <1>2, ContentFacts, BackupAssumption DEF Beginnings

(* An archive step changes the archive of the job only, which is not yet   *)
(* readable.                                                               *)
LEMMA ArchiveEffect ==
  ASSUME TypeOK, ArchiveStep
  PROVE  /\ live' = live /\ targets' = targets /\ job.name \in Names
         /\ archives[job.name].form \in {"none", "cut"}
         /\ archives' \in [Names -> Archive] /\ job' \in Joblike
         /\ \A n \in Names : n # job.name => archives'[n] = archives[n]
         /\ job'.stage # "idle" => job'.name \in Names
         /\ job'.stage = "archiving" => archives'[job'.name].form = "cut"
<1>1. CASE OpenArchive
  <2>1. NewArchive \in Archive /\ NewArchive.form = "cut"
    BY ContentFacts DEF NewArchive, Archive, Nothing, Root, TypeOK
  <2>2. job.stage = "counting" /\ job.name \in Names /\ archives[job.name].form = "none"
        /\ live' = live /\ targets' = targets
    BY <1>1 DEF OpenArchive, TypeOK
  <2>3. job' = [job EXCEPT !.stage = "archiving", !.at = 1]
    BY <1>1 DEF OpenArchive
  <2>4. job' \in Joblike /\ job'.name = job.name
    <3>1. /\ job'.stage = "archiving" /\ job'.name = job.name /\ job'.quiet = job.quiet
          /\ job'.verified = job.verified /\ job'.at = 1 /\ job'.seen = job.seen
          /\ job' = [stage |-> job'.stage, name |-> job'.name, at |-> job'.at,
                     verified |-> job'.verified, seen |-> job'.seen, quiet |-> job'.quiet]
      BY <2>3, JobType DEF Joblike
    <3>. QED  BY <3>1, JobType DEF Joblike
  <2>5. archives' = [archives EXCEPT ![job.name] = NewArchive] /\ archives \in [Names -> Archive]
    BY <1>1 DEF OpenArchive, TypeOK
  <2>. QED  BY <2>1, <2>2, <2>4, <2>5
<1>2. CASE CopyMember
  <2>. DEFINE f == ArchiveOrder[job.at]
  <2>1. f \in Files
    BY <1>2, Orders DEF CopyMember, TypeOK
  <2>2. job.stage = "archiving" /\ archives[job.name].form = "cut" /\ job.name \in Names
    BY <1>2 DEF CopyMember, TypeOK
  <2>3. PICK c \in Content : archives' = [archives EXCEPT ![job.name].members[f] = c]
    <3>1. live[f] \in Content /\ job.seen \in Content
      BY <2>1 DEF TypeOK, Root
    <3>2. live[f].version # job.seen.version => Beginnings(f, live[f]) \subseteq Content
      BY <1>2, <2>1, <3>1, BeginningsType DEF CopyMember
    <3>. QED  BY <1>2, <3>1, <3>2 DEF CopyMember
  <2>4. /\ archives' \in [Names -> Archive] /\ archives'[job.name].form = "cut"
        /\ \A n \in Names : n # job.name => archives'[n] = archives[n]
    <3>. DEFINE a == archives[job.name]
                m == [a.members EXCEPT ![f] = c]
    <3>1. a \in Archive /\ archives \in [Names -> Archive]
      BY <2>2 DEF TypeOK
    <3>2. m \in Root
      BY <2>1, <3>1 DEF Archive, Root
    <3>3. archives' = [archives EXCEPT ![job.name] = [a EXCEPT !.members = m]]
      BY <2>3
    <3>. HIDE DEF f, m
    <3>4. [a EXCEPT !.members = m] \in Archive /\ [a EXCEPT !.members = m].form = a.form
      BY <3>1, <3>2 DEF Archive
    <3>. HIDE DEF a
    <3>. QED  BY <2>2, <3>1, <3>3, <3>4 DEF a
  <2>5. live' = live /\ targets' = targets /\ job' = [job EXCEPT !.at = job.at + 1, !.seen = Absent]
    BY <1>2 DEF CopyMember
  <2>6. job' \in Joblike /\ job'.name = job.name
    <3>1. /\ job'.stage = job.stage /\ job'.name = job.name /\ job'.quiet = job.quiet
          /\ job'.verified = job.verified /\ job'.at = job.at + 1 /\ job'.seen = Absent
          /\ job' = [stage |-> job'.stage, name |-> job'.name, at |-> job'.at,
                     verified |-> job'.verified, seen |-> job'.seen, quiet |-> job'.quiet]
      BY <2>5, JobType DEF Joblike
    <3>. QED  BY <3>1, JobType, ContentFacts DEF Joblike
  <2>. QED  BY <2>2, <2>4, <2>5, <2>6
<1>6. CASE StatMember
  <2>. DEFINE f == ArchiveOrder[job.at]
  <2>1. f \in Files
    BY <1>6, Orders DEF StatMember, TypeOK
  <2>2. /\ job.stage = "archiving" /\ archives[job.name].form = "cut" /\ job.name \in Names
        /\ live' = live /\ targets' = targets /\ archives' = archives
        /\ live[f] \in Content
    BY <1>6, <2>1 DEF StatMember, TypeOK, Root
  <2>3. job' = [job EXCEPT !.at = job.at + 1] \/ job' = [job EXCEPT !.seen = live[f]]
    BY <1>6 DEF StatMember
  <2>4. job' \in Joblike /\ job'.name = job.name
    <3>. HIDE DEF f
    <3>. QED  BY <2>2, <2>3, JobType DEF Joblike
  <2>. QED  BY <2>2, <2>4 DEF TypeOK
<1>3. ASSUME NEW form \in {"done", "cut", "short"}, Close(form), job.stage = "archiving"
      PROVE  /\ archives' \in [Names -> Archive] /\ job' = Idle
             /\ \A n \in Names : n # job.name => archives'[n] = archives[n]
  BY <1>3 DEF Close, TypeOK, Archive
<1>4. Idle \in Joblike /\ Idle.stage = "idle"
  BY ContentFacts, BackupAssumption DEF Idle, Joblike, Verified, Unverified, Absent
<1>5. CASE FinishBackup \/ (BackupStops /\ job.stage = "archiving")
  <2>1. PICK form \in {"done", "cut", "short"} : Close(form)
    BY <1>5 DEF FinishBackup, BackupStops
  <2>2. live' = live /\ targets' = targets /\ job.stage = "archiving"
    BY <1>5 DEF FinishBackup, BackupStops
  <2>. QED  BY <1>3, <1>4, <2>1, <2>2 DEF TypeOK
<1>. QED  BY <1>1, <1>2, <1>5, <1>6 DEF ArchiveStep

Restores(t) ==
  \/ \E n \in Names : RestoreBackup(n, t)
  \/ Extract(t) \/ ValidateRestore(t) \/ RestoreStops(t)

LEMMA RestoreEffect ==
  ASSUME TypeOK, NEW t \in Targets, Restores(t)
  PROVE  /\ live' = live /\ archives' = archives /\ job' = job
         /\ targets' \in [Targets -> Targetlike]
         /\ targets[t].stage \in {"empty", "extracting"}
         /\ \A u \in Targets : u # t => targets'[u] = targets[u]
         /\ targets'[t].stage # "empty" =>
              /\ targets'[t].from \in Names
              /\ archives[targets'[t].from].form \in {"short", "done"}
<1>. DEFINE a == targets[t]
<1>1. targets \in [Targets -> Targetlike] /\ a \in Targetlike
  BY DEF TypeOK, Targetlike
<1>2. a.stage # "empty" => a.from \in Names /\ archives[a.from].form \in {"short", "done"}
  BY DEF TypeOK
<1>3. live' = live /\ archives' = archives /\ job' = job /\ a.stage \in {"empty", "extracting"}
  BY DEF Restores, RestoreBackup, Extract, ValidateRestore, RestoreStops
<1>. DEFINE Becomes(b) ==
              /\ targets' = [targets EXCEPT ![t] = b]
              /\ b.stage # "empty" => /\ b.from \in Names
                                      /\ archives[b.from].form \in {"short", "done"}
<1>4. \E b \in Targetlike : Becomes(b)
  <2>1. ASSUME NEW n \in Names, RestoreBackup(n, t)
        PROVE  \E b \in Targetlike : Becomes(b)
    <3>. DEFINE b == [a EXCEPT !.stage = "extracting", !.from = n]
    <3>1. b \in Targetlike /\ b.from = n
      BY <1>1 DEF Targetlike
    <3>2. targets' = [targets EXCEPT ![t] = b] /\ archives[n].form \in {"short", "done"}
      BY <2>1, <1>1 DEF RestoreBackup, Readable, Targetlike
    <3>. HIDE DEF b
    <3>. QED  BY <3>1, <3>2
  <2>2. CASE Extract(t)
    <3>. DEFINE m == archives[a.from].members
                f == ArchiveOrder[a.at]
                r == IF a.at = 0 THEN a.root ELSE [a.root EXCEPT ![f] = m[f]]
                b == [a EXCEPT !.at = a.at + 1, !.root = r]
    <3>1. a.stage = "extracting" /\ a.at <= Len(ArchiveOrder)
          /\ targets' = [targets EXCEPT ![t] = b]
      BY <2>2 DEF Extract
    <3>2. m \in Root /\ a.root \in Root /\ a.at \in Nat
      BY <1>1, <1>2, <3>1 DEF TypeOK, Archive, Targetlike
    <3>3. a.at # 0 => f \in Files
      BY <3>1, <3>2, Orders
    <3>4. r \in Root
      <4>1. CASE a.at = 0
        BY <3>2, <4>1
      <4>2. CASE a.at # 0
        <5>1. m[f] \in Content /\ f \in Files
          BY <3>2, <3>3, <4>2 DEF Root
        <5>. HIDE DEF f, m
        <5>. QED  BY <3>2, <4>2, <5>1 DEF Root
      <4>. QED  BY <4>1, <4>2
    <3>. HIDE DEF r, m, f
    <3>5. b = [stage |-> a.stage, from |-> a.from, at |-> a.at + 1, root |-> r]
      <4>1. b = [[a EXCEPT !.at = a.at + 1] EXCEPT !.root = r]
        BY Zenon
      <4>2. [a EXCEPT !.at = a.at + 1]
              = [stage |-> a.stage, from |-> a.from, at |-> a.at + 1, root |-> a.root]
        BY <1>1 DEF Targetlike
      <4>3. [[stage |-> a.stage, from |-> a.from, at |-> a.at + 1, root |-> a.root]
               EXCEPT !.root = r]
              = [stage |-> a.stage, from |-> a.from, at |-> a.at + 1, root |-> r]
        OBVIOUS
      <4>. HIDE DEF a, b
      <4>. QED  BY <4>1, <4>2, <4>3
    <3>6. b \in Targetlike /\ b.from = a.from
      <4>. HIDE DEF b
      <4>. QED  BY <1>1, <3>2, <3>4, <3>5 DEF Targetlike
    <3>. HIDE DEF b
    <3>. QED  BY <1>2, <3>1, <3>6
  <2>3. CASE ValidateRestore(t)
    <3>. DEFINE r == Initialized(a.root)
    <3>1. r \in Root
      BY <1>1, ContentFacts DEF Targetlike, Root, Initialized
    <3>2. PICK stage \in {"accepted", "refused"} :
            targets' = [targets EXCEPT ![t] = [a EXCEPT !.root = r, !.stage = stage]]
      BY <2>3 DEF ValidateRestore
    <3>. HIDE DEF r
    <3>. DEFINE b == [a EXCEPT !.root = r, !.stage = stage]
    <3>3. b \in Targetlike /\ b.from = a.from
      BY <1>1, <3>1 DEF Targetlike
    <3>4. a.stage = "extracting"
      BY <2>3 DEF ValidateRestore
    <3>. HIDE DEF b
    <3>. QED  BY <1>2, <3>2, <3>3, <3>4 DEF b
  <2>4. CASE RestoreStops(t)
    <3>1. Unfilled \in Targetlike /\ Unfilled.stage = "empty"
      BY ContentFacts DEF Unfilled, Targetlike, Nothing, Root
    <3>. DEFINE b == [a EXCEPT !.stage = "left"]
    <3>2. b \in Targetlike /\ b.from = a.from
      BY <1>1 DEF Targetlike
    <3>3. (targets' = [targets EXCEPT ![t] = Unfilled] \/ targets' = [targets EXCEPT ![t] = b])
          /\ a.stage = "extracting"
      BY <2>4, <1>1 DEF RestoreStops, Targetlike
    <3>. HIDE DEF b
    <3>. QED  BY <1>2, <3>1, <3>2, <3>3
  <2>. QED  BY <2>1, <2>2, <2>3, <2>4 DEF Restores
<1>. QED  BY <1>1, <1>3, <1>4

-----------------------------------------------------------------------------
(* Types.                                                                  *)

LEMMA TypeStep ==
  ASSUME TypeOK, [Next]_vars PROVE TypeOK'
<1>1. CASE UNCHANGED vars
  BY <1>1 DEF vars, TypeOK
<1>2. CASE WriterStep
  <2>1. job' \in Joblike /\ job'.stage = job.stage /\ job'.name = job.name
    BY <1>2, WriterEffect DEF TypeOK, Joblike, Documentlike
  <2>. QED  BY <1>2, <2>1, WriterEffect DEF TypeOK, Joblike, Documentlike
<1>3. CASE JobStep
  BY <1>3, JobEffect DEF TypeOK, Joblike
<1>4. CASE ArchiveStep
  <2>1. \A t \in Targets : targets[t].stage # "empty" =>
          archives'[targets[t].from] = archives[targets[t].from]
    BY <1>4, ArchiveEffect DEF TypeOK
  <2>. QED  BY <1>4, <2>1, ArchiveEffect DEF TypeOK, Joblike
<1>5. CASE RestoreStep
  <2>1. PICK t \in Targets : Restores(t)
    BY <1>5 DEF RestoreStep, Restores
  <2>. QED  BY <2>1, RestoreEffect DEF TypeOK, Targetlike
<1>. QED  BY <1>1, <1>2, <1>3, <1>4, <1>5, Steps

LEMMA InitType == Init => TypeOK
<1>0. Nothing \in Root /\ Unverified \in Verified
  BY ContentFacts, BackupAssumption DEF Nothing, Root, Unverified, Verified
<1>1. NoArchive \in Archive /\ Idle \in Joblike /\ Unfilled \in Targetlike
  BY <1>0, ContentFacts DEF NoArchive, Archive, Idle, Joblike, Unfilled, Targetlike
<1>2. ASSUME Init PROVE live \in Root /\ \A d \in Documents : live[d] \in Documentlike
  <2>1. live = [f \in Files |-> IF f \in Durable THEN Absent ELSE Created]
    BY <1>2 DEF Init
  <2>2. live \in Root
    BY <2>1, ContentFacts DEF Root
  <2>3. \A d \in Documents : live[d] = Created
    BY <2>1, Kinds
  <2>. QED  BY <2>2, <2>3 DEF Documentlike, Created
<1>3. Idle.stage = "idle" /\ Unfilled.stage = "empty"
  BY DEF Idle, Unfilled
<1>. SUFFICES ASSUME Init PROVE TypeOK
  OBVIOUS
<1>4. /\ job = Idle /\ archives = [n \in Names |-> NoArchive]
      /\ targets = [t \in Targets |-> Unfilled]
  BY DEF Init
<1>. HIDE DEF Init
<1>. QED  BY <1>1, <1>2, <1>3, <1>4 DEF TypeOK, Joblike, Targetlike, Documentlike

(* Every variable keeps its type, the archive being written cannot be read,*)
(* and what is restored from can.                                          *)
THEOREM TypeCorrect == Spec => []TypeOK
<1>1. Init => TypeOK
  BY InitType
<1>. QED  BY <1>1, TypeStep, PTL DEF Spec
-----------------------------------------------------------------------------
(* Of a file's verified, listed, archived and present contents each is     *)
(* before the next; only the log ever has a second version.                *)

Single(r) == \A f \in Durable \ Logs : r[f].version <= 1

Counted ==
  job.stage = "counting" =>
    /\ job.seen = Absent
    /\ \A i \in DOMAIN CountOrder : i < job.at =>
         /\ Before(job.verified[CountOrder[i]], live[CountOrder[i]])
         /\ job.quiet => job.verified[CountOrder[i]] = live[CountOrder[i]]

Copied(a, f) ==
  /\ Before(a.moment[f], a.members[f])
  /\ job.quiet => a.members[f] = a.moment[f]

Seen(f) ==
  /\ archives[job.name].moment[f] # Absent
  /\ Before(archives[job.name].moment[f], job.seen) /\ Before(job.seen, live[f])
  /\ job.quiet => job.seen = live[f]

Copying ==
  job.stage = "archiving" =>
    /\ \A f \in Files : Before(archives[job.name].moment[f], live[f])
    /\ job.quiet => archives[job.name].moment = live
    /\ job.quiet => \A f \in Durable :
                      archives[job.name].verified[f] = archives[job.name].moment[f]
    /\ job.quiet => \A f \in Files : archives[job.name].members[f] # Absent =>
                      archives[job.name].members[f] = archives[job.name].moment[f]
    /\ \A f \in Files :
         archives[job.name].moment[f] = Absent => archives[job.name].members[f] = Absent
    /\ \A i \in DOMAIN ArchiveOrder :
         i < job.at => Copied(archives[job.name], ArchiveOrder[i])
    /\ job.seen # Absent => job.at \in DOMAIN ArchiveOrder /\ Seen(ArchiveOrder[job.at])

Sound(a) ==
  a.form # "none" =>
    /\ \A f \in Durable : Before(a.verified[f], a.moment[f])
    /\ \A d \in Documents : a.moment[d] # Absent /\ a.moment[d].records # Damaged
    /\ Single(a.members)
    /\ a.form # "cut" /\ a.quiet =>
         /\ \A f \in Durable : a.verified[f] = a.moment[f]
         /\ \A f \in Files : a.members[f] # Absent => a.members[f] = a.moment[f]
    /\ a.form = "done" =>
         /\ \A f \in Durable : Before(a.moment[f], a.members[f])
         /\ a.quiet => a.members = a.moment

Filled(t) ==
  /\ targets[t].stage = "empty" => targets[t].at = 0
  /\ targets[t].stage = "extracting" =>
       \A i \in DOMAIN ArchiveOrder : i < targets[t].at =>
         targets[t].root[ArchiveOrder[i]] = Source(t).members[ArchiveOrder[i]]
  /\ targets[t].stage \in {"accepted", "refused"} =>
       /\ targets[t].root = Initialized(Source(t).members)
       /\ targets[t].stage = "accepted" <=> Matches(targets[t].root, Source(t).verified)

(* The inductive invariant.                                                *)
IInv ==
  /\ TypeOK /\ Single(live) /\ Counted /\ Copying
  /\ \A n \in Names : Sound(archives[n])
  /\ \A t \in Targets : Filled(t)

-----------------------------------------------------------------------------
(* Every step keeps it.                                                    *)

LEMMA SoundNext ==
  ASSUME NEW n \in Names, Sound(archives'[n]) PROVE Sound(archives[n])'
BY DEF Sound, Single, Before

LEMMA CountedNext ==
  ASSUME job' = job, live' = live, Counted PROVE Counted'
BY DEF Counted, Before

LEMMA CopyingNext ==
  ASSUME job' = job, live' = live, archives' = archives, Copying PROVE Copying'
BY DEF Copying, Copied, Seen, Before

LEMMA StatNext ==
  ASSUME live' = live, archives' = archives, Copying, job.stage = "archiving",
         job'.name = job.name, job'.quiet = job.quiet,
         \A i \in DOMAIN ArchiveOrder :
           i < job'.at => Copied(archives[job.name], ArchiveOrder[i]),
         job'.seen # Absent =>
           /\ job'.at \in DOMAIN ArchiveOrder
           /\ archives[job.name].moment[ArchiveOrder[job'.at]] # Absent
           /\ Before(archives[job.name].moment[ArchiveOrder[job'.at]], job'.seen)
           /\ Before(job'.seen, live[ArchiveOrder[job'.at]])
           /\ job.quiet => job'.seen = live[ArchiveOrder[job'.at]]
  PROVE  Copying'
<1>1. (\A i \in DOMAIN ArchiveOrder : i < job.at => Copied(archives[job.name], ArchiveOrder[i]))'
  BY DEF Copied, Before
<1>2. (job.seen # Absent => job.at \in DOMAIN ArchiveOrder /\ Seen(ArchiveOrder[job.at]))'
  BY DEF Seen, Before
<1>3. (/\ \A f \in Files : Before(archives[job.name].moment[f], live[f])
       /\ job.quiet => archives[job.name].moment = live
       /\ job.quiet => \A f \in Durable :
                         archives[job.name].verified[f] = archives[job.name].moment[f]
       /\ job.quiet => \A f \in Files : archives[job.name].members[f] # Absent =>
                         archives[job.name].members[f] = archives[job.name].moment[f]
       /\ \A f \in Files :
            archives[job.name].moment[f] = Absent => archives[job.name].members[f] = Absent)'
  BY DEF Copying, Before
<1>. QED  BY <1>1, <1>2, <1>3 DEF Copying

LEMMA WriterKeeps ==
  ASSUME IInv, TypeOK', WriterStep PROVE IInv'
<1>1. /\ archives' = archives /\ targets' = targets
      /\ job' = [job EXCEPT !.quiet = (job.stage = "idle")]
      /\ \A f \in Files : Before(live[f], live'[f])
  BY WriterEffect DEF IInv
<1>2. /\ job'.stage = job.stage /\ job'.name = job.name /\ job'.at = job.at
      /\ job'.verified = job.verified /\ job'.seen = job.seen
      /\ job.stage # "idle" => ~job'.quiet
  BY <1>1, JobType DEF IInv, Joblike
<1>3. \A f \in Files : live[f] \in Content /\ live'[f] \in Content
  BY DEF IInv, TypeOK, Root
<1>4. \A f \in Files, c \in Content : Before(c, live[f]) => Before(c, live'[f])
  BY <1>1, <1>3, BeforeFacts
<1>5. Counted'
  <2> SUFFICES ASSUME job.stage = "counting", NEW i \in DOMAIN CountOrder, i < job.at
               PROVE  Before(job.verified[CountOrder[i]], live'[CountOrder[i]])
    BY <1>2 DEF IInv, Counted, Before
  <2>1. CountOrder[i] \in Durable
    BY Orders
  <2>2. Before(job.verified[CountOrder[i]], live[CountOrder[i]])
    BY DEF IInv, Counted
  <2>3. job.verified[CountOrder[i]] \in Content
    BY <2>1 DEF IInv, TypeOK, Verified
  <2>. QED  BY <1>4, <2>1, <2>2, <2>3, Kinds
<1>6. Copying'
  <2> SUFFICES ASSUME job.stage = "archiving" PROVE Copying'
    BY <1>2 DEF Copying
  <2>. DEFINE a == archives[job.name]
  <2>1. Copying /\ a.moment \in Root /\ job.seen \in Content
    BY DEF IInv, TypeOK, Archive
  <2>2. \A f \in Files : Before(a.moment[f], live'[f])
    BY <1>4, <2>1 DEF Copying, Root
  <2>3. job.seen # Absent => job.at \in DOMAIN ArchiveOrder /\ Seen(ArchiveOrder[job.at])'
    <3> SUFFICES ASSUME job.seen # Absent
                 PROVE  job.at \in DOMAIN ArchiveOrder /\ Seen(ArchiveOrder[job.at])'
      OBVIOUS
    <3>1. job.at \in DOMAIN ArchiveOrder /\ Seen(ArchiveOrder[job.at])
      BY <2>1 DEF Copying
    <3>2. ArchiveOrder[job.at] \in Files
      BY <3>1, Orders
    <3>. QED  BY <1>1, <1>2, <1>4, <2>1, <3>1, <3>2 DEF Seen, Before
  <2>4. \A i \in DOMAIN ArchiveOrder : i < job.at => Before(a.moment[ArchiveOrder[i]], a.members[ArchiveOrder[i]])
    BY <2>1 DEF Copying, Copied
  <2>5. \A f \in Files : a.moment[f] = Absent => a.members[f] = Absent
    BY <2>1 DEF Copying
  <2>. QED  BY <1>1, <1>2, <2>2, <2>3, <2>4, <2>5 DEF Copying, Copied, Before
<1>7. (\A n \in Names : Sound(archives[n])') /\ (\A t \in Targets : Filled(t)')
  BY <1>1 DEF IInv, Sound, Single, Filled, Source, Before, Initialized, Matches, SameCount
<1>8. Single(live)'
  BY WriterEffect DEF IInv, Single
<1>. QED  BY <1>5, <1>6, <1>7, <1>8 DEF IInv

LEMMA JobKeeps ==
  ASSUME IInv, TypeOK', JobStep PROVE IInv'
<1>1. live' = live /\ archives' = archives /\ targets' = targets /\ job'.stage # "archiving"
  BY JobEffect DEF IInv
<1>2. Counted'
  <2>1. ASSUME NEW n \in Names, CreateBackup(n) PROVE Counted'
    <3>1. job'.at = 1 /\ job'.seen = Absent
      BY <2>1 DEF CreateBackup, Idle
    <3>. QED  BY <3>1, Orders DEF Counted
  <2>2. ASSUME job' = Idle PROVE Counted'
    BY <2>2 DEF Idle, Counted
  <2>3. CASE CountFile /\ job' # Idle
    <3>. DEFINE f == CountOrder[job.at]
    <3>1. job.at \in DOMAIN CountOrder /\ f \in Durable /\ job.stage = "counting"
      BY <2>3, Orders DEF CountFile, IInv, TypeOK
    <3>2. job' = [job EXCEPT !.verified[f] = live[f], !.at = @ + 1]
      BY <2>3 DEF CountFile
    <3>3. job'.verified = [job.verified EXCEPT ![f] = live[f]] /\ job'.at = job.at + 1
          /\ job'.quiet = job.quiet /\ job'.seen = job.seen
      BY <3>2, JobType DEF IInv, Joblike
    <3>4. job.verified \in [Durable -> {c \in Content : c.records # Damaged}] /\ live[f] \in Content
      BY <3>1, Kinds DEF IInv, TypeOK, Verified, Root
    <3>8. job'.seen = Absent
      BY <3>1, <3>3 DEF IInv, Counted
    <3> SUFFICES ASSUME NEW i \in DOMAIN CountOrder, i < job'.at
                 PROVE  /\ Before(job'.verified[CountOrder[i]], live[CountOrder[i]])
                        /\ job'.quiet => job'.verified[CountOrder[i]] = live[CountOrder[i]]
      BY <1>1, <3>8 DEF Counted, Before
    <3>5. CountOrder[i] \in Durable /\ i \in Nat /\ job.at \in Nat
      BY Orders DEF IInv, TypeOK
    <3>6. CASE CountOrder[i] = f
      <4>1. job'.verified[CountOrder[i]] = live[CountOrder[i]]
        BY <3>1, <3>3, <3>4, <3>6
      <4>. QED  BY <3>4, <3>6, <4>1, BeforeFacts
    <3>7. CASE CountOrder[i] # f
      <4>1. i < job.at
        BY <3>3, <3>5, <3>7
      <4>2. job'.verified[CountOrder[i]] = job.verified[CountOrder[i]]
        BY <3>3, <3>4, <3>5, <3>7
      <4>. QED  BY <3>1, <3>3, <4>1, <4>2 DEF IInv, Counted
    <3>. QED  BY <3>6, <3>7
  <2>. QED  BY <2>1, <2>2, <2>3 DEF JobStep, RefuseExisting, BackupStops
<1>3. (\A n \in Names : Sound(archives[n])') /\ (\A t \in Targets : Filled(t)')
  BY <1>1 DEF IInv, Sound, Single, Filled, Source, Before, Initialized, Matches, SameCount
<1>. QED  BY <1>1, <1>2, <1>3 DEF IInv, Copying, Single

LEMMA ArchiveKeeps ==
  ASSUME IInv, TypeOK', ArchiveStep PROVE IInv'
<1>1. /\ live' = live /\ targets' = targets /\ job.name \in Names
      /\ archives[job.name].form \in {"none", "cut"}
      /\ \A n \in Names : n # job.name => archives'[n] = archives[n]
  BY ArchiveEffect DEF IInv
<1>2. \A t \in Targets : Filled(t)'
  <2> SUFFICES ASSUME NEW t \in Targets PROVE Filled(t)'
    OBVIOUS
  <2>1. targets[t].stage # "empty" => Source(t)' = Source(t)
    BY <1>1 DEF Source, IInv, TypeOK
  <2>2. Filled(t)
    BY DEF IInv
  <2>. QED  BY <1>1, <2>1, <2>2 DEF Filled, Initialized, Matches, SameCount
<1>3. ASSUME Sound(archives'[job.name]) PROVE \A n \in Names : Sound(archives[n])'
  <2>1. \A n \in Names : Sound(archives'[n])
    BY <1>1, <1>3 DEF IInv
  <2>. QED  BY <2>1, SoundNext
<1>0. Single(live)'
  BY <1>1 DEF IInv, Single
<1>4. CASE OpenArchive
  <2>1. archives'[job.name] = NewArchive /\ job.stage = "counting" /\ job.at > Len(CountOrder)
    BY <1>1, <1>4 DEF OpenArchive, IInv, TypeOK
  <2>2. job'.stage = "archiving" /\ job'.at = 1 /\ job'.name = job.name /\ job'.quiet = job.quiet
        /\ job'.seen = Absent
    BY <1>4, <2>1, JobType DEF OpenArchive, IInv, Joblike, Counted
  <2>3. /\ NewArchive.form = "cut" /\ NewArchive.verified = job.verified
        /\ NewArchive.members = Nothing /\ NewArchive.moment = live
    BY DEF NewArchive
  <2>4. \A f \in Durable : /\ Before(job.verified[f], live[f])
                           /\ job.quiet => job.verified[f] = live[f]
    <3> SUFFICES ASSUME NEW f \in Durable
                 PROVE  /\ Before(job.verified[f], live[f])
                        /\ job.quiet => job.verified[f] = live[f]
      OBVIOUS
    <3>1. PICK i \in DOMAIN CountOrder : CountOrder[i] = f
      BY Orders
    <3>2. i < job.at
      BY <2>1, Orders DEF IInv, TypeOK
    <3>. QED  BY <2>1, <3>1, <3>2 DEF IInv, Counted
  <2>5. \A f \in Files : Before(live[f], live[f])
    BY BeforeFacts DEF IInv, TypeOK, Root
  <2>6. \A d \in Documents : live[d] # Absent /\ live[d].records # Damaged
    BY BackupAssumption, ContentFacts DEF IInv, TypeOK
  <2>7. \A f \in Files : Nothing[f] = Absent
    BY DEF Nothing
  <2>8. Single(Nothing)
    BY <2>7, Kinds, ContentFacts DEF Single
  <2>9. Sound(archives'[job.name])
    BY <2>1, <2>3, <2>4, <2>6, <2>8 DEF Sound
  <2>10. Copying'
    <3>1. \A i \in DOMAIN ArchiveOrder : ~(i < 1)
      BY Orders
    <3>. QED  BY <1>1, <2>1, <2>2, <2>3, <2>4, <2>5, <2>7, <3>1 DEF Copying, Before
  <2>11. Counted'
    BY <2>2 DEF Counted
  <2>. QED  BY <1>0, <1>2, <1>3, <2>2, <2>9, <2>10, <2>11 DEF IInv
<1>5. CASE CopyMember
  <2>. DEFINE f == ArchiveOrder[job.at]
              a == archives[job.name]
              b == archives'[job.name]
  <2>1. /\ job.stage = "archiving" /\ job.at \in DOMAIN ArchiveOrder /\ f \in Files
        /\ job'.stage = "archiving" /\ job'.name = job.name /\ job'.quiet = job.quiet
        /\ job'.at = job.at + 1 /\ job.at \in Nat /\ job'.seen = Absent /\ job.seen # Absent
    BY <1>5, JobType, Orders DEF CopyMember, IInv, TypeOK, Joblike
  <2>2. a \in Archive /\ live \in Root /\ a.form = "cut" /\ job.seen \in Content /\ live[f] \in Content
    BY <1>1, <2>1 DEF IInv, TypeOK, Root
  <2>3. Sound(a) /\ Copying /\ Single(live) /\ Seen(f)
    BY <1>1, <2>1 DEF IInv, Copying
  <2>4. PICK c \in Content :
          /\ archives' = [archives EXCEPT ![job.name].members[f] = c]
          /\ Before(job.seen, c) /\ c.version <= live[f].version
          /\ job.quiet => c = job.seen
    <3>1. CASE live[f].version = job.seen.version
      <4>1. archives' = [archives EXCEPT ![job.name].members[f] = job.seen]
        BY <1>5, <3>1 DEF CopyMember
      <4>2. Before(job.seen, job.seen) /\ job.seen.version <= live[f].version
        BY <2>2, <3>1, BeforeFacts, ContentFacts
      <4>. HIDE DEF f
      <4>. QED  BY <2>2, <4>1, <4>2
    <3>2. CASE live[f].version # job.seen.version
      <4>1. PICK c \in Beginnings(f, live[f]) : archives' = [archives EXCEPT ![job.name].members[f] = c]
        BY <1>5, <3>2 DEF CopyMember
      <4>2. live[f] # Absent
        BY <1>5 DEF CopyMember
      <4>3. c \in Content /\ c.version = live[f].version /\ c.version \in Nat
        BY <2>1, <2>2, <4>2, BeginningsType, ContentFacts
      <4>4. Before(job.seen, live[f]) /\ job.seen.version \in Nat /\ ~job.quiet
        BY <2>2, <2>3, <3>2, ContentFacts DEF Seen
      <4>5. Before(job.seen, c)
        BY <3>2, <4>3, <4>4 DEF Before
      <4>6. c.version <= live[f].version
        BY <4>3
      <4>. HIDE DEF f
      <4>. QED  BY <4>1, <4>3, <4>4, <4>5, <4>6
    <3>. QED  BY <3>1, <3>2
  <2>5. a.moment \in Root /\ a.members \in Root
    BY <2>2 DEF Archive
  <2>6. /\ b.form = "cut" /\ b.verified = a.verified /\ b.moment = a.moment
        /\ b.members = [a.members EXCEPT ![f] = c]
    <3>1. archives \in [Names -> Archive]
      BY DEF IInv, TypeOK
    <3>. HIDE DEF f
    <3>2. archives' = [archives EXCEPT ![job.name] = [a EXCEPT !.members = [@ EXCEPT ![f] = c]]]
      BY <2>4
    <3>3. b = [a EXCEPT !.members = [@ EXCEPT ![f] = c]]
      BY <1>1, <3>1, <3>2
    <3>. HIDE DEF a, b
    <3>. QED  BY <2>2, <3>3 DEF Archive
  <2>7. b.members[f] = c /\ \A g \in Files : g # f => b.members[g] = a.members[g]
    BY <2>1, <2>5, <2>6 DEF Root
  <2>8. Before(a.moment[f], c) /\ (job.quiet => c = a.moment[f]) /\ a.moment[f] # Absent
    <3>1. a.moment[f] \in Content /\ Before(a.moment[f], job.seen)
      BY <2>1, <2>3, <2>5 DEF Seen, Root
    <3>2. Before(a.moment[f], c)
      <4>1. Before(job.seen, c)
        BY <2>4
      <4>. HIDE DEF f, a
      <4>. QED  BY <2>2, <3>1, <4>1, BeforeFacts
    <3>3. job.quiet => c = a.moment[f]
      <4>1. job.quiet => c = job.seen /\ job.seen = live[f] /\ a.moment = live
        BY <2>1, <2>3, <2>4 DEF Seen, Copying
      <4>. QED  BY <4>1
    <3>4. a.moment[f] # Absent
      BY <2>3 DEF Seen
    <3>. QED  BY <3>2, <3>3, <3>4
  <2>9. Single(b.members)
    <3> SUFFICES ASSUME NEW g \in Durable \ Logs PROVE b.members[g].version <= 1
      BY DEF Single
    <3>1. CASE g = f
      <4>1. live[f].version <= 1 /\ live[f].version \in Nat /\ c.version \in Nat
        BY <2>2, <2>3, <2>4, <3>1, ContentFacts DEF Single
      <4>2. c.version <= live[f].version /\ b.members[g] = c
        BY <2>4, <2>7, <3>1
      <4>. HIDE DEF f, b
      <4>. QED  BY <4>1, <4>2
    <3>2. CASE g # f
      <4>1. b.members[g] = a.members[g]
        BY <2>7, <3>2, Kinds
      <4>. QED  BY <2>2, <2>3, <4>1 DEF Sound, Single
    <3>. QED  BY <3>1, <3>2
  <2>10. Sound(b)
    BY <2>2, <2>3, <2>6, <2>9 DEF Sound
  <2>11. \A g \in Files : b.moment[g] = Absent => b.members[g] = Absent
    BY <2>1, <2>3, <2>6, <2>7, <2>8 DEF Copying
  <2>12. ASSUME NEW i \in DOMAIN ArchiveOrder, i < job.at + 1 PROVE Copied(b, ArchiveOrder[i])
    <3>1. ArchiveOrder[i] \in Files /\ i \in Nat
      BY Orders
    <3>2. CASE ArchiveOrder[i] = f
      BY <2>6, <2>7, <2>8, <3>2 DEF Copied
    <3>3. CASE ArchiveOrder[i] # f
      <4>1. i < job.at
        BY <2>1, <2>12, <3>1, <3>3
      <4>2. Copied(a, ArchiveOrder[i])
        BY <2>1, <2>3, <4>1 DEF Copying
      <4>. QED  BY <2>6, <2>7, <3>1, <3>3, <4>2 DEF Copied
    <3>. QED  BY <3>2, <3>3
  <2>13. job.quiet => \A g \in Files : b.members[g] # Absent => b.members[g] = b.moment[g]
    BY <2>1, <2>3, <2>6, <2>7, <2>8 DEF Copying
  <2>14. Copying'
    <3>1. \A i \in DOMAIN ArchiveOrder : i < job'.at => Copied(archives[job.name], ArchiveOrder[i])'
      BY <2>1, <2>12 DEF Copied, Before
    <3>2. archives'[job'.name] = b
      BY <2>1
    <3>. HIDE DEF b, f
    <3>3. /\ \A g \in Files : Before(b.moment[g], live'[g])
          /\ job'.quiet => b.moment = live'
          /\ job'.quiet => \A g \in Durable : b.verified[g] = b.moment[g]
      BY <1>1, <2>1, <2>3, <2>6 DEF Copying
    <3>. QED  BY <2>1, <2>11, <2>13, <3>1, <3>2, <3>3 DEF Copying, Copied, Before
  <2>. QED  BY <1>0, <1>2, <1>3, <2>1, <2>10, <2>14 DEF IInv, Counted
<1>7. CASE StatMember
  <2>. DEFINE f == ArchiveOrder[job.at]
              a == archives[job.name]
  <2>1. /\ job.stage = "archiving" /\ job.at \in DOMAIN ArchiveOrder /\ f \in Files
        /\ job.at \in Nat /\ job.seen = Absent /\ archives' = archives
    BY <1>7, Orders DEF StatMember, IInv, TypeOK
  <2>2. /\ a.moment \in Root /\ a.members \in Root /\ live[f] \in Content
        /\ Copying /\ Sound(a) /\ a.form = "cut"
    BY <2>1 DEF IInv, TypeOK, Archive, Root
  <2>3. job'.stage = "archiving" /\ job'.name = job.name /\ job'.quiet = job.quiet
    BY <1>7, <2>1, JobType DEF StatMember, IInv, Joblike
  <2>4. ASSUME a.moment[f] = Absent PROVE Copying'
    <3>1. job'.at = job.at + 1 /\ job'.seen = Absent
      BY <1>7, <2>1, <2>4, JobType DEF StatMember, IInv, Joblike
    <3>2. Copied(a, f)
      <4>1. a.members[f] = Absent
        BY <2>1, <2>2, <2>4 DEF Copying
      <4>. QED  BY <2>4, <4>1, ContentFacts, BeforeFacts DEF Copied
    <3>3. ASSUME NEW i \in DOMAIN ArchiveOrder, i < job.at + 1 PROVE Copied(a, ArchiveOrder[i])
      <4>1. i \in Nat /\ (i < job.at \/ i = job.at)
        BY <2>1, <3>3, Orders
      <4>. QED  BY <2>1, <2>2, <3>2, <4>1 DEF Copying
    <3>4. \A i \in DOMAIN ArchiveOrder : i < job'.at => Copied(archives[job.name], ArchiveOrder[i])
      BY <3>1, <3>3
    <3>5. /\ live' = live /\ archives' = archives /\ Copying /\ job.stage = "archiving"
          /\ job'.name = job.name /\ job'.quiet = job.quiet /\ job'.seen = Absent
      BY <1>1, <2>1, <2>2, <2>3, <3>1
    <3>. HIDE DEF f, a
    <3>. QED  BY <3>4, <3>5, StatNext
  <2>5. ASSUME a.moment[f] # Absent PROVE Copying'
    <3>1. job'.at = job.at /\ job'.seen = live[f]
      BY <1>7, <2>1, <2>5, JobType DEF StatMember, IInv, Joblike
    <3>2. \A i \in DOMAIN ArchiveOrder : i < job'.at => Copied(archives[job.name], ArchiveOrder[i])
      BY <2>1, <2>2, <3>1 DEF Copying
    <3>3. Before(a.moment[f], live[f]) /\ Before(live[f], live[f])
      BY <2>1, <2>2, BeforeFacts DEF Copying
    <3>4. /\ job'.at \in DOMAIN ArchiveOrder
          /\ archives[job.name].moment[ArchiveOrder[job'.at]] # Absent
          /\ Before(archives[job.name].moment[ArchiveOrder[job'.at]], job'.seen)
          /\ Before(job'.seen, live[ArchiveOrder[job'.at]])
          /\ job.quiet => job'.seen = live[ArchiveOrder[job'.at]]
      BY <2>1, <2>5, <3>1, <3>3
    <3>5. /\ live' = live /\ archives' = archives /\ Copying /\ job.stage = "archiving"
          /\ job'.name = job.name /\ job'.quiet = job.quiet
      BY <1>1, <2>1, <2>2, <2>3
    <3>. HIDE DEF f, a
    <3>. QED  BY <3>2, <3>4, <3>5, StatNext
  <2>6. Sound(archives'[job.name])
    BY <2>1, <2>2
  <2>. QED  BY <1>0, <1>2, <1>3, <2>3, <2>4, <2>5, <2>6 DEF IInv, Counted
<1>6. ASSUME NEW form \in {"done", "cut", "short"}, Close(form), job.stage = "archiving",
             form = "done" => job.at > Len(ArchiveOrder)
      PROVE  IInv'
  <2>. DEFINE a == archives[job.name]
              b == archives'[job.name]
  <2>1. job'.stage = "idle"
    BY <1>6 DEF Close, Idle
  <2>2. /\ b.form = form /\ b.quiet = job.quiet /\ b.verified = a.verified
        /\ b.members = a.members /\ b.moment = a.moment
    BY <1>1, <1>6 DEF Close, IInv, TypeOK, Archive
  <2>3. Sound(a) /\ Copying /\ a.form = "cut"
    BY <1>1, <1>6 DEF IInv, TypeOK
  <2>4. form = "done" => \A f \in Files : Copied(a, f)
    <3> SUFFICES ASSUME form = "done", NEW f \in Files PROVE Copied(a, f)
      OBVIOUS
    <3>1. PICK i \in DOMAIN ArchiveOrder : ArchiveOrder[i] = f
      BY Orders
    <3>2. i < job.at
      BY <1>6, Orders DEF IInv, TypeOK
    <3>. QED  BY <1>6, <2>3, <3>1, <3>2 DEF Copying
  <2>5. form = "done" /\ job.quiet => a.members = a.moment
    <3>1. a.members \in Root /\ a.moment \in Root
      BY <1>1 DEF IInv, TypeOK, Archive
    <3>. QED  BY <2>4, <3>1 DEF Copied, Root
  <2>6. Sound(b)
    <3>1. a.form # "none" /\ job.quiet =>
            /\ \A f \in Durable : a.verified[f] = a.moment[f]
            /\ \A f \in Files : a.members[f] # Absent => a.members[f] = a.moment[f]
      BY <1>6, <2>3 DEF Copying
    <3>2. form = "done" => \A f \in Durable : Before(a.moment[f], a.members[f])
      BY <2>4, Kinds DEF Copied
    <3>. QED  BY <2>2, <2>3, <2>5, <3>1, <3>2 DEF Sound, Single
  <2>7. \A n \in Names : Sound(archives[n])'
    BY <1>3, <2>6
  <2>. QED  BY <1>0, <1>2, <2>1, <2>7 DEF IInv, Counted, Copying
<1>. QED  BY <1>4, <1>5, <1>6, <1>7 DEF ArchiveStep, FinishBackup, BackupStops
LEMMA RestoreKeeps ==
  ASSUME IInv, TypeOK', RestoreStep PROVE IInv'
<1>1. PICK t \in Targets : Restores(t)
  BY DEF RestoreStep, Restores
<1>. DEFINE a == targets[t]
            b == targets'[t]
<1>2. /\ live' = live /\ archives' = archives /\ job' = job
      /\ targets' \in [Targets -> Targetlike]
      /\ \A u \in Targets : u # t => targets'[u] = targets[u]
  BY <1>1, RestoreEffect DEF IInv
<1>3. a \in Targetlike /\ Filled(t) /\ targets \in [Targets -> Targetlike]
  BY DEF IInv, TypeOK, Targetlike
<1>4. Filled(t)'
  <2>1. ASSUME NEW n \in Names, RestoreBackup(n, t) PROVE Filled(t)'
    <3>1. b.stage = "extracting" /\ b.at = a.at /\ a.stage = "empty"
      BY <2>1, <1>3 DEF RestoreBackup, Targetlike
    <3>2. a.at = 0
      BY <3>1 DEF IInv, Filled
    <3>. QED  BY <3>1, <3>2, Orders DEF Filled
  <2>2. CASE Extract(t)
    <3>. DEFINE m == archives[a.from].members
                r == IF a.at = 0 THEN a.root
                     ELSE [a.root EXCEPT ![ArchiveOrder[a.at]] = m[ArchiveOrder[a.at]]]
    <3>1. a.stage = "extracting" /\ a.at \in Nat /\ a.root \in Root
      BY <2>2, <1>3 DEF Extract, Targetlike
    <3>2. /\ b.stage = "extracting" /\ b.from = a.from /\ b.at = a.at + 1 /\ b.root = r
      BY <2>2, <1>3 DEF Extract, Targetlike
    <3>3. ASSUME NEW i \in DOMAIN ArchiveOrder, i < a.at + 1
          PROVE  r[ArchiveOrder[i]] = m[ArchiveOrder[i]]
      <4>1. ArchiveOrder[i] \in Files /\ i \in Nat /\ i # 0
        BY Orders
      <4>2. i < a.at => a.root[ArchiveOrder[i]] = m[ArchiveOrder[i]]
        BY <1>3, <3>1 DEF Filled, Source
      <4>3. i < a.at \/ i = a.at
        BY <3>1, <3>3, <4>1
      <4>. QED  BY <3>1, <4>1, <4>2, <4>3 DEF Root
    <3>. QED  BY <1>2, <3>2, <3>3 DEF Filled, Source
  <2>3. CASE ValidateRestore(t)
    <3>. DEFINE m == archives[a.from].members
    <3>1. /\ a.stage = "extracting" /\ a.at > Len(ArchiveOrder) /\ a.at \in Nat
          /\ a.from \in Names /\ m \in Root /\ a.root \in Root
      BY <2>3, <1>3 DEF ValidateRestore, IInv, TypeOK, Archive, Targetlike
    <3>2. /\ b.from = a.from /\ b.root = Initialized(a.root)
          /\ b.stage = IF Matches(Initialized(a.root), archives[a.from].verified)
                       THEN "accepted" ELSE "refused"
      BY <2>3, <1>3 DEF ValidateRestore, Targetlike
    <3>3. a.root = m
      <4>1. ASSUME NEW f \in Files PROVE a.root[f] = m[f]
        <5>1. PICK i \in DOMAIN ArchiveOrder : ArchiveOrder[i] = f
          BY Orders
        <5>2. i < a.at
          BY <3>1, Orders
        <5>. QED  BY <1>3, <3>1, <5>1, <5>2 DEF Filled, Source
      <4>. QED  BY <3>1, <4>1 DEF Root
    <3>4. /\ Source(t)' = archives[a.from]
          /\ Initialized(Source(t).members)' = b.root
      BY <1>2, <3>2, <3>3 DEF Source, Initialized
    <3>5. (b.stage = "accepted") <=> Matches(targets[t].root, Source(t).verified)'
      BY <3>2, <3>4 DEF Matches, SameCount
    <3>. QED  BY <3>2, <3>4, <3>5 DEF Filled
  <2>4. CASE RestoreStops(t)
    <3>1. b.stage \in {"empty", "left"} /\ (b.stage = "empty" => b.at = 0)
      BY <2>4, <1>3 DEF RestoreStops, Unfilled, Targetlike
    <3>. QED  BY <3>1 DEF Filled
  <2>. QED  BY <1>1, <2>1, <2>2, <2>3, <2>4 DEF Restores
<1>5. ASSUME NEW u \in Targets PROVE Filled(u)'
  <2>1. CASE u = t
    BY <1>4, <2>1
  <2>2. CASE u # t
    BY <1>2, <2>2 DEF IInv, Filled, Source, Initialized, Matches, SameCount
  <2>. QED  BY <2>1, <2>2
<1>6. Single(live)' /\ Counted' /\ Copying' /\ \A n \in Names : Sound(archives[n])'
  BY <1>2, SoundNext, CountedNext, CopyingNext DEF IInv, Single
<1>. QED  BY <1>5, <1>6 DEF IInv

-----------------------------------------------------------------------------
(* The invariants.                                                         *)

THEOREM Invariance == Spec => []IInv
<1>1. Init => IInv
  <2> SUFFICES ASSUME Init PROVE IInv
    OBVIOUS
  <2>1. TypeOK
    BY InitType
  <2>2. job.stage = "idle" /\ \A n \in Names : archives[n].form = "none"
    BY DEF Init, Idle, NoArchive
  <2>3. \A t \in Targets : targets[t].stage = "empty" /\ targets[t].at = 0
    BY DEF Init, Unfilled
  <2>4. Single(live)
    <3>1. live = [f \in Files |-> IF f \in Durable THEN Absent ELSE Created]
      BY DEF Init
    <3>2. \A f \in Durable : live[f] = Absent
      BY <3>1, Kinds
    <3>3. Absent.version <= 1
      BY DEF Absent
    <3>. QED  BY <3>2, <3>3 DEF Single
  <2>. QED  BY <2>1, <2>2, <2>3, <2>4 DEF IInv, Counted, Copying, Sound, Filled
<1>2. IInv /\ TypeOK' /\ [Next]_vars => IInv'
  <2> SUFFICES ASSUME IInv, TypeOK', [Next]_vars PROVE IInv'
    OBVIOUS
  <2>1. CASE UNCHANGED vars
    <3>1. live' = live /\ job' = job /\ archives' = archives /\ targets' = targets
      BY <2>1 DEF vars
    <3>2. ASSUME NEW t \in Targets PROVE Filled(t)'
      BY <3>1 DEF IInv, Filled, Source, Initialized, Matches, SameCount
    <3>. QED  BY <3>1, <3>2, SoundNext, CountedNext, CopyingNext DEF IInv, Single
  <2>2. CASE Next
    BY <2>2, Steps, WriterKeeps, JobKeeps, ArchiveKeeps, RestoreKeeps
  <2>. QED  BY <2>1, <2>2
<1>. QED  BY <1>1, <1>2, TypeCorrect, PTL DEF Spec

(* What an accepted restore holds was in the archive, as the manifest says.*)
LEMMA Accepted ==
  ASSUME IInv, NEW t \in Targets, targets[t].stage \in {"accepted", "refused"}
  PROVE  /\ Source(t) \in Archive /\ Sound(Source(t))
         /\ Source(t).form \in {"short", "done"}
         /\ targets[t].root = Initialized(Source(t).members)
         /\ targets[t].stage = "accepted" <=>
              \A f \in Durable : SameCount(targets[t].root[f], Source(t).verified[f])
         /\ \A f \in Durable : targets[t].root[f] = Source(t).members[f]
<1>1. targets[t].from \in Names /\ archives[targets[t].from].form \in {"short", "done"}
  BY DEF IInv, TypeOK
<1>2. Source(t) \in Archive /\ Sound(Source(t)) /\ Filled(t)
  BY <1>1 DEF IInv, TypeOK, Source
<1>3. targets[t].root = Initialized(Source(t).members)
  BY <1>2 DEF Filled
<1>4. \A f \in Durable : targets[t].root[f] = Source(t).members[f]
  BY <1>3, Kinds DEF Initialized
<1>. QED  BY <1>1, <1>2, <1>3, <1>4 DEF Filled, Matches, Source

(* An accepted restore holds every append-only file as of one moment; the  *)
(* log too unless it is another version than the one verified.             *)
THEOREM OneMoment == Spec => []RestoredMoment
<1>1. IInv => RestoredMoment
  <2> SUFFICES ASSUME IInv, NEW t \in Targets, targets[t].stage = "accepted",
                      Source(t).form = "done" \/ Source(t).quiet,
                      NEW f \in Durable, f \in Logs => SameVersion(t, f)
               PROVE  targets[t].root[f] = Source(t).moment[f]
    BY DEF RestoredMoment
  <2>. DEFINE v == Source(t).verified[f]
              l == Source(t).moment[f]
              m == Source(t).members[f]
  <2>1. /\ targets[t].root[f] = m /\ SameCount(m, v)
        /\ Sound(Source(t)) /\ Source(t).form \in {"short", "done"}
    <3>1. targets[t].root[f] = m /\ SameCount(targets[t].root[f], v)
      BY Accepted
    <3>. QED  BY <3>1, Accepted
  <2>2. /\ v \in Content /\ v.records # Damaged /\ l \in Content /\ m \in Content
    BY Accepted, Kinds DEF Archive, Verified, Root
  <2>3. m.records = v.records /\ (m = Absent <=> v = Absent)
    BY <2>1 DEF SameCount
  <2>4. CASE Source(t).form = "done"
    <3>1. Before(v, l) /\ Before(l, m)
      BY <2>1, <2>4 DEF Sound
    <3>2. v.version = m.version
      <4>1. CASE f \in Logs
        BY <2>1, <4>1 DEF SameVersion
      <4>2. CASE f \notin Logs
        <5>1. m.version <= 1
          BY <2>1, <4>2 DEF Sound, Single
        <5>2. v.version <= m.version
          BY <2>2, <3>1, ContentFacts DEF Before
        <5>3. v.version = 0 <=> m.version = 0
          BY <2>2, <2>3, ContentFacts
        <5>4. v.version \in Nat /\ m.version \in Nat
          BY <2>2, ContentFacts
        <5>. HIDE DEF v, m
        <5>. QED  BY <5>1, <5>2, <5>3, <5>4
      <4>. QED  BY <4>1, <4>2
    <3>3. l = m
      <4>. HIDE DEF v, l, m
      <4>. QED  BY <2>2, <2>3, <3>1, <3>2, Squeezed
    <3>. QED  BY <2>1, <3>3
  <2>5. CASE Source(t).quiet
    <3>1. v = l /\ (m # Absent => m = l)
      BY <2>1, <2>5, Kinds DEF Sound
    <3>. QED  BY <2>1, <2>3, <3>1
  <2>. QED  BY <2>4, <2>5
<1>. QED  BY <1>1, Invariance, PTL

(* A reported backup that nobody disturbed is restored as it was.          *)
THEOREM ReportedIsRestorable == Spec => []ReportedRestores
<1>1. IInv => ReportedRestores
  <2> SUFFICES ASSUME IInv, NEW t \in Targets, targets[t].stage \in {"accepted", "refused"},
                      Source(t).form = "done", Source(t).quiet
               PROVE  targets[t].stage = "accepted" /\ targets[t].root = Source(t).moment
    BY DEF ReportedRestores
  <2>1. Source(t).members = Source(t).moment /\ Source(t).moment \in Root
        /\ \A d \in Documents : Source(t).moment[d] # Absent
    BY Accepted DEF Sound, Archive
  <2>2. targets[t].root = Source(t).moment
    BY <2>1, Accepted DEF Initialized, Root
  <2>3. \A f \in Durable : SameCount(targets[t].root[f], Source(t).verified[f])
    BY <2>2, Accepted DEF Sound, SameCount
  <2>. QED  BY <2>2, <2>3, Accepted
<1>. QED  BY <1>1, Invariance, PTL

(* An accepted restore is a data root the application starts on.           *)
THEOREM AcceptedStarts == Spec => []AcceptedIsSound
<1>1. IInv => AcceptedIsSound
  <2> SUFFICES ASSUME IInv, NEW t \in Targets, targets[t].stage = "accepted"
               PROVE  /\ \A f \in Durable : targets[t].root[f].records # Damaged
                      /\ \A d \in Documents : targets[t].root[d] # Absent
                      /\ Source(t).quiet =>
                           \A d \in Documents : targets[t].root[d].records # Damaged
    BY DEF AcceptedIsSound
  <2>1. ASSUME NEW f \in Durable PROVE targets[t].root[f].records # Damaged
    <3>1. SameCount(targets[t].root[f], Source(t).verified[f])
      BY Accepted
    <3>2. Source(t).verified[f].records # Damaged
      BY Accepted DEF Archive, Verified
    <3>. QED  BY <3>1, <3>2 DEF SameCount
  <2>2. ASSUME NEW d \in Documents
        PROVE  /\ targets[t].root[d] # Absent
               /\ Source(t).quiet => targets[t].root[d].records # Damaged
    <3>. DEFINE m == Source(t).members[d]
    <3>1. targets[t].root[d] = IF m = Absent THEN Created ELSE m
      <4>1. targets[t].root = Initialized(Source(t).members)
        BY Accepted
      <4>. QED  BY <4>1, Kinds DEF Initialized
    <3>2. Source(t).quiet /\ m # Absent => m.records # Damaged
      BY Accepted, Kinds DEF Sound
    <3>. QED  BY <3>1, <3>2, ContentFacts, BackupAssumption
  <2>. QED  BY <2>1, <2>2
<1>. QED  BY <1>1, Invariance, PTL

(* Readable archives and finished restores never change.                   *)
THEOREM NothingIsOverwritten == Spec => NothingOverwritten
<1>. DEFINE Unchanged ==
       /\ \A n \in Names : Readable(n) => archives'[n] = archives[n]
       /\ \A t \in Targets :
            targets[t].stage \in {"accepted", "refused", "left"} => targets'[t] = targets[t]
<1>1. TypeOK /\ [Next]_vars => Unchanged
  <2> SUFFICES ASSUME TypeOK, [Next]_vars PROVE Unchanged
    OBVIOUS
  <2>1. CASE UNCHANGED vars
    BY <2>1 DEF vars
  <2>2. CASE WriterStep
    BY <2>2, WriterEffect
  <2>3. CASE JobStep
    BY <2>3, JobEffect
  <2>4. CASE ArchiveStep
    BY <2>4, ArchiveEffect DEF Readable
  <2>5. CASE RestoreStep
    <3>1. PICK t \in Targets : Restores(t)
      BY <2>5 DEF RestoreStep, Restores
    <3>. QED  BY <3>1, RestoreEffect
  <2>. QED  BY <2>1, <2>2, <2>3, <2>4, <2>5, Steps
<1>. QED  BY <1>1, TypeCorrect, PTL DEF Spec, NothingOverwritten
=============================================================================
