--------------------------- MODULE IdentityProofs ---------------------------
(***************************************************************************)
(* Theorems about Identity, for every set of actors, of roles and of       *)
(* default roles.                                                          *)
(*                                                                         *)
(* TypeOK and StaysReadable hold for any number of processes.  The others  *)
(* assume that the data directory has one process at a time, which nothing *)
(* in the code ensures: TLC finds AdminRemains violated by two.            *)
(***************************************************************************)
EXTENDS Identity, TLAPS

LEMMA Documents ==
  /\ FirstUsers \in Users
  /\ Absent \notin Users /\ Cut \notin Users
  /\ Absent \notin Assignments /\ Cut \notin Assignments
  BY IdentityAssumption DEF FirstUsers, Users

(* Rewriting a document for one actor gives a document.                    *)
LEMMA UpdateType ==
  ASSUME NEW u \in Users, NEW r \in Assignments, NEW j \in Job
  PROVE  UpdatedUsers(u, j) \in Users /\ UpdatedRoles(r, j) \in Assignments
  BY DEF UpdatedUsers, UpdatedRoles, Users, Assignments, Job

-----------------------------------------------------------------------------
(* Type correctness.  What a process is about to write are documents.      *)

WorkInv == \A p \in Procs :
  /\ at[p] \in {"off", "starting", "ready"} \/ job[p] \in Job
  /\ at[p] \in {"checking", "writing users", "writing roles"} => seen[p].users \in Users
  /\ at[p] \in {"writing users", "writing roles"} => seen[p].roles \in Assignments

TypeInv == TypeOK /\ WorkInv

LEMMA TypeInit == Init => TypeInv
  BY DEF Init, TypeInv, TypeOK, WorkInv

(* Ending a job, by success or by a fault, forgets what the process read.  *)
LEMMA EndJobType ==
  ASSUME TypeInv, NEW p \in Procs, NEW next \in {"ready", "off"}, EndJob(p, next),
         users' \in Users \cup {Absent, Cut}, roles' \in Assignments \cup {Absent, Cut},
         audit' \in Job \cup {NoJob}
  PROVE  TypeInv'
<1>1. TypeOK'
  BY DEF TypeInv, TypeOK, EndJob
<1>2. WorkInv'
  BY DEF TypeInv, TypeOK, WorkInv, EndJob
<1>. QED  BY <1>1, <1>2 DEF TypeInv

LEMMA TypeNext == TypeInv /\ [Next]_vars => TypeInv'
<1> SUFFICES ASSUME TypeInv, [Next]_vars PROVE TypeInv'
  OBVIOUS
<1>0. CASE UNCHANGED vars
  BY <1>0 DEF vars, TypeInv, TypeOK, WorkInv
<1> SUFFICES ASSUME NEW p \in Procs,
                    \/ StartUsers(p) \/ StartRoles(p) \/ StartCut(p)
                    \/ Ask(p) \/ Authorize(p) \/ Load(p) \/ Check(p)
                    \/ WriteUsers(p) \/ WriteRoles(p) \/ AppendAudit(p)
                    \/ Fault(p)
             PROVE  TypeInv'
  BY <1>0 DEF Next
<1>1. CASE StartUsers(p)
  BY <1>1, Documents DEF TypeInv, TypeOK, WorkInv, StartUsers
<1>2. CASE StartRoles(p)
  BY <1>2, IdentityAssumption DEF TypeInv, TypeOK, WorkInv, StartRoles
<1>3. CASE StartCut(p)
  BY <1>3 DEF TypeInv, TypeOK, WorkInv, StartCut
<1>4. CASE Ask(p)
  BY <1>4 DEF TypeInv, TypeOK, WorkInv, Ask
<1>5. CASE Authorize(p)
  <2>1. CASE EndJob(p, "ready")
    BY <1>5, <2>1, EndJobType DEF Authorize, TypeInv, TypeOK
  <2>2. CASE at' = [at EXCEPT ![p] = "loading"] /\ UNCHANGED <<job, seen>>
    BY <1>5, <2>2 DEF TypeInv, TypeOK, WorkInv, Authorize
  <2>. QED  BY <1>5, <2>1, <2>2 DEF Authorize
<1>6. CASE Load(p)
  <2>1. CASE EndJob(p, "ready")
    BY <1>6, <2>1, EndJobType DEF Load, TypeInv, TypeOK
  <2>2. CASE /\ users \in Users
             /\ seen' = [seen EXCEPT ![p].users = users]
             /\ at' = [at EXCEPT ![p] = "checking"]
             /\ UNCHANGED job
    <3>1. seen[p] \in [users : Users \cup {Absent}, roles : Assignments \cup {Absent}]
      BY DEF TypeInv, TypeOK
    <3>2. TypeOK'
      BY <1>6, <2>2, <3>1 DEF TypeInv, TypeOK, Load
    <3>3. WorkInv'
      BY <1>6, <2>2, <3>1 DEF TypeInv, TypeOK, WorkInv, Load
    <3>. QED  BY <3>2, <3>3 DEF TypeInv
  <2>. QED  BY <1>6, <2>1, <2>2 DEF Load
<1>7. CASE Check(p)
  <2>1. CASE EndJob(p, "ready")
    BY <1>7, <2>1, EndJobType DEF Check, TypeInv, TypeOK
  <2> DEFINE u == UpdatedUsers(seen[p].users, job[p])
             r == UpdatedRoles(roles, job[p])
  <2>2. CASE /\ roles \in Assignments
             /\ seen' = [seen EXCEPT ![p] = [users |-> u, roles |-> r]]
             /\ at' = [at EXCEPT ![p] = "writing users"]
             /\ UNCHANGED job
    <3>1. u \in Users /\ r \in Assignments
      BY <1>7, <2>2, UpdateType DEF TypeInv, WorkInv, Check
    <3> HIDE DEF u, r
    <3>. QED  BY <1>7, <2>2, <3>1 DEF TypeInv, TypeOK, WorkInv, Check
  <2>. QED  BY <1>7, <2>1, <2>2 DEF Check
<1>8. CASE WriteUsers(p)
  BY <1>8 DEF TypeInv, TypeOK, WorkInv, WriteUsers
<1>9. CASE WriteRoles(p)
  BY <1>9 DEF TypeInv, TypeOK, WorkInv, WriteRoles
<1>10. CASE AppendAudit(p)
  BY <1>10, EndJobType DEF AppendAudit, TypeInv, TypeOK
<1>11. CASE Fault(p)
  BY <1>11, EndJobType DEF Fault, TypeInv, TypeOK
<1>. QED  BY <1>1, <1>2, <1>3, <1>4, <1>5, <1>6, <1>7, <1>8, <1>9, <1>10, <1>11

(* The files are documents, absent or unreadable, and each process is at a *)
(* line of the code with the data that line needs.                         *)
THEOREM TypeCorrect == Spec => []TypeOK
<1>1. TypeInv => TypeOK
  BY DEF TypeInv
<1>. QED  BY <1>1, TypeInit, TypeNext, PTL DEF Spec

(* Whatever is interrupted, and however many processes run, two files that *)
(* could be read can still be read.                                        *)
THEOREM ReadableForever == Spec => StaysReadable
<1>1. TypeInv /\ [Next]_vars => [Readable => Readable']_vars
  BY Documents DEF TypeInv, WorkInv, Readable, Next, vars, StartUsers, StartRoles,
     StartCut, Ask, Authorize, Load, Check, WriteUsers, WriteRoles, AppendAudit, Fault
<1>. QED  BY <1>1, TypeInit, TypeNext, PTL DEF Spec, StaysReadable

-----------------------------------------------------------------------------
(* One process at a time.                                                  *)

OneProcess == \A p, q \in Procs : p = q

(* Between the two renames the users are the new ones and the roles the    *)
(* old: if there was an administrator before, and will be one after, there *)
(* is one now.                                                             *)
LEMMA AdminBetween ==
  ASSUME NEW u \in Users, NEW r \in Assignments, NEW j \in Job,
         ActiveAdmins(u, r) # {},
         ActiveAdmins(UpdatedUsers(u, j), UpdatedRoles(r, j)) # {}
  PROVE  ActiveAdmins(UpdatedUsers(u, j), r) # {}
<1>1. PICK a \in Actors : /\ UpdatedUsers(u, j)[a]
                          /\ Admin \in UpdatedRoles(r, j)[a]
  BY DEF ActiveAdmins
<1>2. CASE a # j.target
  <2>1. Admin \in r[a]
    BY <1>1, <1>2 DEF UpdatedRoles, Assignments
  <2>. QED  BY <1>1, <2>1 DEF ActiveAdmins
<1>3. CASE a = j.target
  <2>1. PICK b \in Actors : u[b] /\ Admin \in r[b]
    BY DEF ActiveAdmins
  <2>2. UpdatedUsers(u, j)[b]
    BY <1>1, <1>3, <2>1 DEF UpdatedUsers, Users
  <2>. QED  BY <2>1, <2>2 DEF ActiveAdmins
<1>. QED  BY <1>2, <1>3

LEMMA FirstAdmin == ActiveAdmins(FirstUsers, FirstRoles) # {}
<1>1. PICK a \in Actors : Admin \in FirstRoles[a]
  BY IdentityAssumption
<1>. QED  BY <1>1 DEF ActiveAdmins, FirstUsers

(* Until both files can be read, one that can is the default document.     *)
FirstDocsInv ==
  /\ users \in Users /\ roles \notin Assignments => users = FirstUsers
  /\ roles \in Assignments /\ users \notin Users => roles = FirstRoles

(* What a command relies on at each step after its second reading.         *)
JobInv == \A p \in Procs :
  /\ at[p] = "checking" => users \in Users /\ seen[p].users = users
  /\ at[p] = "writing users" =>
       /\ Readable
       /\ seen[p].users = UpdatedUsers(users, job[p])
       /\ seen[p].roles = UpdatedRoles(roles, job[p])
       /\ ActiveAdmins(seen[p].users, seen[p].roles) # {}
  /\ at[p] = "writing roles" =>
       /\ Readable
       /\ users = seen[p].users
       /\ users[job[p].target] = job[p].active
       /\ seen[p].roles = UpdatedRoles(roles, job[p])
       /\ ActiveAdmins(seen[p].users, seen[p].roles) # {}
  /\ at[p] = "auditing" =>
       /\ Readable
       /\ users[job[p].target] = job[p].active
       /\ roles[job[p].target] = job[p].roles

IInv == TypeInv /\ FirstDocsInv /\ JobInv /\ AdminRemains

LEMMA IInvInit == Init => IInv
<1>1. Init => FirstDocsInv /\ AdminRemains
  BY Documents DEF Init, FirstDocsInv, AdminRemains, Readable
<1>2. Init => JobInv
  BY DEF Init, JobInv
<1>. QED  BY <1>1, <1>2, TypeInit DEF IInv

(* A step that leaves the files alone can only disturb what the one        *)
(* process remembers.                                                      *)
LEMMA FilesUnchanged ==
  ASSUME IInv, TypeInv', JobInv', UNCHANGED <<users, roles>>
  PROVE  IInv'
  BY DEF IInv, FirstDocsInv, AdminRemains, Readable, ActiveAdmins

LEMMA EndJobInv ==
  ASSUME IInv, OneProcess, NEW p \in Procs, NEW next \in {"ready", "off"}, EndJob(p, next)
  PROVE  JobInv'
<1> SUFFICES ASSUME NEW q \in Procs
             PROVE  at'[q] \in {"ready", "off"}
  BY DEF JobInv
<1>1. q = p
  BY DEF OneProcess
<1>. QED  BY <1>1 DEF EndJob, IInv, TypeInv, TypeOK

LEMMA IInvNext ==
  ASSUME OneProcess, IInv, [Next]_vars
  PROVE  IInv'
<1>0. TypeInv'
  BY TypeNext DEF IInv
<1>1. CASE UNCHANGED vars
  BY <1>0, <1>1, FilesUnchanged DEF vars, IInv, JobInv, Readable, ActiveAdmins
<1> SUFFICES ASSUME NEW p \in Procs,
                    \/ StartUsers(p) \/ StartRoles(p) \/ StartCut(p)
                    \/ Ask(p) \/ Authorize(p) \/ Load(p) \/ Check(p)
                    \/ WriteUsers(p) \/ WriteRoles(p) \/ AppendAudit(p)
                    \/ Fault(p)
             PROVE  IInv'
  BY <1>1 DEF Next
<1>2. \A q \in Procs : q = p
  BY DEF OneProcess
<1>3. CASE StartUsers(p)
  <2>1. JobInv'
    BY <1>2, <1>3 DEF IInv, TypeInv, TypeOK, JobInv, StartUsers
  <2>2. CASE users = Absent
    BY <1>0, <1>3, <2>1, <2>2, Documents, FirstAdmin
    DEF IInv, FirstDocsInv, AdminRemains, Readable, StartUsers
  <2>3. CASE users # Absent
    BY <1>0, <1>3, <2>1, <2>3, FilesUnchanged DEF StartUsers
  <2>. QED  BY <2>2, <2>3
<1>4. CASE StartRoles(p)
  <2>1. JobInv'
    BY <1>2, <1>4 DEF IInv, TypeInv, TypeOK, JobInv, StartRoles
  <2>2. CASE roles = Absent
    BY <1>0, <1>4, <2>1, <2>2, Documents, FirstAdmin
    DEF IInv, FirstDocsInv, AdminRemains, Readable, StartRoles
  <2>3. CASE roles # Absent
    BY <1>0, <1>4, <2>1, <2>3, FilesUnchanged DEF StartRoles
  <2>. QED  BY <2>2, <2>3
<1>5. CASE StartCut(p)
  <2>1. JobInv'
    BY <1>2, <1>5 DEF IInv, TypeInv, TypeOK, JobInv, StartCut
  <2>2. FirstDocsInv' /\ ~Readable'
    BY <1>5, Documents DEF IInv, FirstDocsInv, Readable, StartCut
  <2>. QED  BY <1>0, <2>1, <2>2 DEF IInv, AdminRemains
<1>6. CASE Ask(p)
  <2>1. JobInv'
    BY <1>2, <1>6 DEF IInv, TypeInv, TypeOK, JobInv, Ask
  <2>. QED  BY <1>0, <1>6, <2>1, FilesUnchanged DEF Ask
<1>7. CASE Authorize(p)
  <2>1. CASE EndJob(p, "ready")
    BY <1>0, <1>7, <2>1, EndJobInv, FilesUnchanged DEF Authorize
  <2>2. CASE at' = [at EXCEPT ![p] = "loading"]
    <3>1. JobInv'
      BY <1>2, <2>2 DEF IInv, TypeInv, TypeOK, JobInv
    <3>. QED  BY <1>0, <1>7, <3>1, FilesUnchanged DEF Authorize
  <2>. QED  BY <1>7, <2>1, <2>2 DEF Authorize
<1>8. CASE Load(p)
  <2>1. CASE EndJob(p, "ready")
    BY <1>0, <1>8, <2>1, EndJobInv, FilesUnchanged DEF Load
  <2>2. CASE /\ users \in Users
             /\ seen' = [seen EXCEPT ![p].users = users]
             /\ at' = [at EXCEPT ![p] = "checking"]
    <3>1. seen'[p].users = users /\ at'[p] = "checking" /\ users' = users
      BY <1>8, <2>2 DEF IInv, TypeInv, TypeOK, Load
    <3>2. JobInv'
      BY <1>2, <2>2, <3>1 DEF JobInv
    <3>. QED  BY <1>0, <1>8, <3>2, FilesUnchanged DEF Load
  <2>. QED  BY <1>8, <2>1, <2>2 DEF Load
<1>9. CASE Check(p)
  <2>1. CASE EndJob(p, "ready")
    BY <1>0, <1>9, <2>1, EndJobInv, FilesUnchanged DEF Check
  <2> DEFINE u == UpdatedUsers(seen[p].users, job[p])
             r == UpdatedRoles(roles, job[p])
  <2>2. CASE /\ roles \in Assignments /\ EnsureActiveAdminRemains(u, r)
             /\ seen' = [seen EXCEPT ![p] = [users |-> u, roles |-> r]]
             /\ at' = [at EXCEPT ![p] = "writing users"]
             /\ UNCHANGED job
    <3>1. users \in Users /\ u = UpdatedUsers(users, job[p])
      BY <1>9 DEF IInv, JobInv, Check
    <3>2. at'[p] = "writing users" /\ seen'[p].users = u /\ seen'[p].roles = r
      BY <2>2 DEF IInv, TypeInv, TypeOK
    <3>3. UNCHANGED <<users, roles, job>>
      BY <1>9, <2>2 DEF Check
    <3>4. Readable'
      BY <2>2, <3>1, <3>3 DEF Readable
    <3>5. /\ seen'[p].users = UpdatedUsers(users', job'[p])
          /\ seen'[p].roles = UpdatedRoles(roles', job'[p])
      BY <3>1, <3>2, <3>3
    <3>6. ActiveAdmins(seen'[p].users, seen'[p].roles) # {}
      BY <2>2, <3>2 DEF EnsureActiveAdminRemains
    <3>7. JobInv'
      BY <1>2, <3>2, <3>4, <3>5, <3>6 DEF JobInv
    <3>. QED  BY <1>0, <3>3, <3>7, FilesUnchanged
  <2>. QED  BY <1>9, <2>1, <2>2 DEF Check
<1>10. CASE WriteUsers(p)
  <2>1. /\ Readable
        /\ seen[p].users = UpdatedUsers(users, job[p])
        /\ seen[p].roles = UpdatedRoles(roles, job[p])
        /\ ActiveAdmins(seen[p].users, seen[p].roles) # {}
    BY <1>10 DEF IInv, JobInv, WriteUsers
  <2>2. job[p] \in Job /\ users \in Users /\ roles \in Assignments
    BY <1>10, <2>1 DEF IInv, TypeInv, WorkInv, Readable, WriteUsers
  <2>3. /\ users' = UpdatedUsers(users, job[p])
        /\ UNCHANGED <<roles, job, seen>>
        /\ at'[p] = "writing roles"
    BY <1>10, <2>1 DEF IInv, TypeInv, TypeOK, WriteUsers
  <2>4. Readable'
    BY <2>2, <2>3, UpdateType DEF Readable
  <2>5. users'[job'[p].target] = job'[p].active
    BY <2>2, <2>3 DEF UpdatedUsers, Users, Job
  <2>6. ActiveAdmins(seen'[p].users, seen'[p].roles) # {}
    BY <2>1, <2>3
  <2>7. JobInv'
    BY <1>2, <2>1, <2>3, <2>4, <2>5, <2>6 DEF JobInv
  <2>8. ActiveAdmins(users', roles') # {}
    BY <2>1, <2>2, <2>3, AdminBetween DEF IInv, AdminRemains
  <2>. QED  BY <1>0, <2>4, <2>7, <2>8 DEF IInv, FirstDocsInv, AdminRemains, Readable
<1>11. CASE WriteRoles(p)
  <2>1. /\ Readable
        /\ users = seen[p].users
        /\ users[job[p].target] = job[p].active
        /\ seen[p].roles = UpdatedRoles(roles, job[p])
        /\ ActiveAdmins(seen[p].users, seen[p].roles) # {}
    BY <1>11 DEF IInv, JobInv, WriteRoles
  <2>2. job[p] \in Job /\ users \in Users /\ roles \in Assignments
    BY <1>11, <2>1 DEF IInv, TypeInv, WorkInv, Readable, WriteRoles
  <2>3. /\ roles' = UpdatedRoles(roles, job[p])
        /\ UNCHANGED <<users, job, seen>>
        /\ at'[p] = "auditing"
    BY <1>11, <2>1 DEF IInv, TypeInv, TypeOK, WriteRoles
  <2>4. Readable'
    BY <2>2, <2>3, UpdateType DEF Readable
  <2>5. roles'[job'[p].target] = job'[p].roles
    BY <2>2, <2>3 DEF UpdatedRoles, Assignments, Job
  <2>6. JobInv'
    BY <1>2, <2>1, <2>3, <2>4, <2>5 DEF JobInv
  <2>7. ActiveAdmins(users', roles') # {}
    BY <2>1, <2>3
  <2>. QED  BY <1>0, <2>4, <2>6, <2>7 DEF IInv, FirstDocsInv, AdminRemains, Readable
<1>12. CASE AppendAudit(p)
  BY <1>0, <1>12, EndJobInv, FilesUnchanged DEF AppendAudit
<1>13. CASE Fault(p)
  BY <1>0, <1>13, EndJobInv, FilesUnchanged DEF Fault
<1>. QED  BY <1>3, <1>4, <1>5, <1>6, <1>7, <1>8, <1>9, <1>10, <1>11, <1>12, <1>13

-----------------------------------------------------------------------------
(* With one process at a time there is an active administrator whenever    *)
(* the files can be read, between the two renames and after any fault too. *)
THEOREM AlwaysAnAdmin ==
  ASSUME OneProcess
  PROVE  Spec => []AdminRemains
<1>1. IInv /\ [Next]_vars => IInv'
  BY IInvNext
<1>2. IInv => AdminRemains
  BY DEF IInv
<1>. QED  BY <1>1, <1>2, IInvInit, PTL DEF Spec

(* With one process at a time an audit record of a role change says what   *)
(* both files hold when it is appended.                                    *)
THEOREM AuditSpeaksTrue ==
  ASSUME OneProcess
  PROVE  Spec => AuditTruthful
<1>1. IInv /\ [Next]_vars => IInv'
  BY IInvNext
<1> DEFINE Truthful == /\ Readable
                       /\ users[audit'.target] = audit'.active
                       /\ roles[audit'.target] = audit'.roles
<1>2. IInv /\ [Next]_vars => [audit' # audit => Truthful]_vars
  <2> SUFFICES ASSUME IInv, Next, audit' # audit PROVE Truthful
    BY DEF vars
  <2>1. PICK p \in Procs : AppendAudit(p)
    BY DEF Next, StartUsers, StartRoles, StartCut, Ask, Authorize, Load, Check,
       WriteUsers, WriteRoles, Fault
  <2>. QED  BY <2>1 DEF AppendAudit, IInv, JobInv
<1>. QED  BY <1>1, <1>2, IInvInit, PTL DEF Spec, AuditTruthful

(* With one process at a time a step that changes what an actor may do is  *)
(* the first start or a command about that actor.                          *)
THEOREM OthersUntouched ==
  ASSUME OneProcess
  PROVE  Spec => OthersKeepTheirRoles
<1>1. IInv /\ [Next]_vars => IInv'
  BY IInvNext
<1> DEFINE Kept == Readable => \A a \in Actors :
       Effective(a)' # Effective(a) => \E p \in Procs : job[p] # NoJob /\ job[p].target = a
<1>2. IInv /\ [Next]_vars => [Kept]_vars
  <2> SUFFICES ASSUME IInv, Next, Readable, NEW a \in Actors, Effective(a)' # Effective(a)
               PROVE  \E p \in Procs : job[p] # NoJob /\ job[p].target = a
    BY DEF vars
  <2>1. UNCHANGED <<users, roles>> => FALSE
    BY DEF Effective, Readable
  <2>2. PICK p \in Procs : WriteUsers(p) \/ WriteRoles(p)
    BY <2>1, Documents DEF Next, StartUsers, StartRoles, StartCut, Ask, Authorize, Load,
       Check, AppendAudit, Fault, Readable
  <2>3. job[p] \in Job /\ job[p] # NoJob
    BY <2>2, NoJobAssumption DEF WriteUsers, WriteRoles, IInv, TypeInv, WorkInv
  <2>4. SUFFICES ASSUME job[p].target # a PROVE FALSE
    BY <2>3
  <2>5. CASE WriteUsers(p)
    <3>1. users' = UpdatedUsers(users, job[p]) /\ roles' = roles
      BY <2>5 DEF WriteUsers, IInv, JobInv
    <3>2. users'[a] = users[a] /\ users' \in Users
      BY <2>3, <2>4, <3>1, UpdateType DEF UpdatedUsers, Users, Readable
    <3>. QED  BY <3>1, <3>2 DEF Effective, Readable
  <2>6. CASE WriteRoles(p)
    <3>1. roles' = UpdatedRoles(roles, job[p]) /\ users' = users
      BY <2>6 DEF WriteRoles, IInv, JobInv
    <3>2. roles'[a] = roles[a] /\ roles' \in Assignments
      BY <2>3, <2>4, <3>1, UpdateType DEF UpdatedRoles, Assignments, Readable
    <3>. QED  BY <3>1, <3>2 DEF Effective, Readable
  <2>. QED  BY <2>2, <2>5, <2>6
<1>. QED  BY <1>1, <1>2, IInvInit, PTL DEF Spec, OthersKeepTheirRoles
=============================================================================
