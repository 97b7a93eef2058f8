------------------------------ MODULE Identity ------------------------------
(***************************************************************************)
(* Who may do what: the users and roles files, the first start that        *)
(* creates them, and the administrators' command that changes them.        *)
(*                                                                         *)
(* The two files are read and rewritten one after the other and nothing    *)
(* locks them, so each reading and each rename is a step of its own.  A    *)
(* rewrite goes through a temporary file of a fresh name that no one       *)
(* reads, and is the rename; the files of the first start are written in   *)
(* place, and may be cut short.                                            *)
(*                                                                         *)
(* Users are never added or removed, so a users file is a function from    *)
(* all actors to their "active" mark.  Every actor has a role assignment   *)
(* in the default documents and none is removed.                           *)
(***************************************************************************)
CONSTANTS
  Actors,      \* the users in the default documents
  Roles,       \* ApplicationRole
  Admin,       \* the role that may do everything
  FirstRoles,  \* the roles of each actor in the default documents
  Procs,       \* application processes on the data directory
  Absent,      \* a file that is not there
  Cut,         \* a file that is there and cannot be parsed
  NoJob        \* no command in progress

Users == [Actors -> BOOLEAN]
Assignments == [Actors -> SUBSET Roles \ {{}}]

ASSUME IdentityAssumption ==
  /\ Admin \in Roles
  /\ FirstRoles \in Assignments
  /\ \E a \in Actors : Admin \in FirstRoles[a]
  /\ {Absent, Cut} \cap (Users \cup Assignments) = {}
  /\ Absent # Cut

(* Variant: an empty set of roles is accepted.                             *)
JobWithNoRole == [by : Actors, target : Actors, active : BOOLEAN, roles : SUBSET Roles]

(* What update_user_roles is asked for, and by whom.                       *)
Job == [by : Actors, target : Actors, active : BOOLEAN, roles : SUBSET Roles \ {{}}]

ASSUME NoJobAssumption == NoJob \notin Job

VARIABLES
  users,   \* users.json
  roles,   \* roles.json
  audit,   \* the last record of a role change in the audit file
  at,      \* where each process is
  job,     \* the command each process executes
  seen     \* the users and roles it last read, or is about to write

vars == <<users, roles, audit, at, job, seen>>

FirstUsers == [a \in Actors |-> TRUE]

Init ==
  /\ users = Absent
  /\ roles = Absent
  /\ audit = NoJob
  /\ at = [p \in Procs |-> "off"]
  /\ job = [p \in Procs |-> NoJob]
  /\ seen = [p \in Procs |-> [users |-> Absent, roles |-> Absent]]

-----------------------------------------------------------------------------
(* The first start: a file that exists, whatever is in it, is left alone.  *)

StartUsers(p) ==
  /\ at[p] = "off"
  /\ users' = IF users = Absent THEN FirstUsers ELSE users
  /\ at' = [at EXCEPT ![p] = "starting"]
  /\ UNCHANGED <<roles, audit, job, seen>>

StartRoles(p) ==
  /\ at[p] = "starting"
  /\ roles' = IF roles = Absent THEN FirstRoles ELSE roles
  /\ at' = [at EXCEPT ![p] = "ready"]
  /\ UNCHANGED <<users, audit, job, seen>>

(* Writing a file in place fails or the process dies in the middle.        *)
StartCut(p) ==
  /\ \/ at[p] = "off" /\ users = Absent /\ users' = Cut /\ UNCHANGED roles
     \/ at[p] = "starting" /\ roles = Absent /\ roles' = Cut /\ UNCHANGED users
  /\ at' = [at EXCEPT ![p] = "off"]
  /\ UNCHANGED <<audit, job, seen>>

-----------------------------------------------------------------------------
(* Changing the roles of a user.                                           *)

EndJob(p, next) ==
  /\ at' = [at EXCEPT ![p] = next]
  /\ job' = [job EXCEPT ![p] = NoJob]
  /\ seen' = [seen EXCEPT ![p] = [users |-> Absent, roles |-> Absent]]

(* get_session reads the users first; a file that does not parse ends the  *)
(* command.                                                                *)
Ask(p) ==
  /\ at[p] = "ready"
  /\ users \in Users
  /\ \E j \in Job : job' = [job EXCEPT ![p] = j]
  /\ seen' = [seen EXCEPT ![p].users = users]
  /\ at' = [at EXCEPT ![p] = "authorizing"]
  /\ UNCHANGED <<users, roles, audit>>

MayUpdate(by, u, r) == u[by] /\ Admin \in r[by]

Authorize(p) ==
  /\ at[p] = "authorizing"
  /\ IF roles \in Assignments /\ MayUpdate(job[p].by, seen[p].users, roles)
     THEN at' = [at EXCEPT ![p] = "loading"] /\ UNCHANGED <<job, seen>>
     ELSE EndJob(p, "ready")
  /\ UNCHANGED <<users, roles, audit>>

(* update_user_roles reads both files again.                               *)
Load(p) ==
  /\ at[p] = "loading"
  /\ IF users \in Users
     THEN /\ seen' = [seen EXCEPT ![p].users = users]
          /\ at' = [at EXCEPT ![p] = "checking"]
          /\ UNCHANGED job
     ELSE EndJob(p, "ready")
  /\ UNCHANGED <<users, roles, audit>>

ActiveAdmins(u, r) == {a \in Actors : u[a] /\ Admin \in r[a]}

(* Variant: every other user gets the schema's default mark.               *)
UpdatedUsersDefaulted(u, j) == [a \in Actors |-> a = j.target => j.active]

UpdatedUsers(u, j) == [u EXCEPT ![j.target] = j.active]

(* Variant: the roles are added where they should replace the old ones.    *)
UpdatedRolesAdded(r, j) == [r EXCEPT ![j.target] = @ \cup j.roles]

UpdatedRoles(r, j) == [r EXCEPT ![j.target] = j.roles]

(* Variant: administrators who are not active count.                       *)
AdminRemainsAmongAll(u, r) == \E a \in Actors : Admin \in r[a]

EnsureActiveAdminRemains(u, r) == ActiveAdmins(u, r) # {}

(* The new documents are refused if they leave no active administrator.    *)
Check(p) ==
  /\ at[p] = "checking"
  /\ LET u == UpdatedUsers(seen[p].users, job[p])
         r == UpdatedRoles(roles, job[p])
     IN IF roles \in Assignments /\ EnsureActiveAdminRemains(u, r)
        THEN /\ seen' = [seen EXCEPT ![p] = [users |-> u, roles |-> r]]
             /\ at' = [at EXCEPT ![p] = "writing users"]
             /\ UNCHANGED job
        ELSE EndJob(p, "ready")
  /\ UNCHANGED <<users, roles, audit>>

WriteUsers(p) ==
  /\ at[p] = "writing users"
  /\ users' = seen[p].users
  /\ at' = [at EXCEPT ![p] = "writing roles"]
  /\ UNCHANGED <<roles, audit, job, seen>>

WriteRoles(p) ==
  /\ at[p] = "writing roles"
  /\ roles' = seen[p].roles
  /\ at' = [at EXCEPT ![p] = "auditing"]
  /\ UNCHANGED <<users, audit, job, seen>>

AppendAudit(p) ==
  /\ at[p] = "auditing"
  /\ audit' = job[p]
  /\ EndJob(p, "ready")
  /\ UNCHANGED <<users, roles>>

(* Variant: the roles are rewritten in place.                              *)
FaultInPlace(p) ==
  /\ at[p] # "off" /\ EndJob(p, "off")
  /\ roles' = IF at[p] = "writing roles" THEN Cut ELSE roles
  /\ UNCHANGED <<users, audit>>

(* An input or output error ends the command, a crash or a normal exit the *)
(* process; neither touches the files.                                     *)
Fault(p) ==
  /\ \/ at[p] \notin {"off", "starting", "ready"} /\ EndJob(p, "ready")
     \/ at[p] # "off" /\ EndJob(p, "off")
  /\ UNCHANGED <<users, roles, audit>>

-----------------------------------------------------------------------------
Next == \E p \in Procs :
  \/ StartUsers(p) \/ StartRoles(p) \/ StartCut(p)
  \/ Ask(p) \/ Authorize(p) \/ Load(p) \/ Check(p)
  \/ WriteUsers(p) \/ WriteRoles(p) \/ AppendAudit(p)
  \/ Fault(p)

Spec == Init /\ [][Next]_vars

-----------------------------------------------------------------------------
Readable == users \in Users /\ roles \in Assignments

(* The roles an actor has for the facade: none when inactive.              *)
Effective(a) == IF Readable /\ users[a] THEN roles[a] ELSE {}

(* The files hold documents that the schemas of auth.py accept, or nothing *)
(* or garbage; each process is at a line of the code.                      *)
TypeOK ==
  /\ users \in Users \cup {Absent, Cut}
  /\ roles \in Assignments \cup {Absent, Cut}
  /\ audit \in Job \cup {NoJob}
  /\ at \in [Procs -> {"off", "starting", "ready", "authorizing", "loading",
                       "checking", "writing users", "writing roles", "auditing"}]
  /\ job \in [Procs -> Job \cup {NoJob}]
  /\ seen \in [Procs -> [users : Users \cup {Absent}, roles : Assignments \cup {Absent}]]

(* Someone can always administer the system (auth.py:294, "at least one    *)
(* active admin must remain"), also with one file rewritten and the other  *)
(* not, and after a command that was interrupted there.                    *)
AdminRemains == Readable => ActiveAdmins(users, roles) # {}

(* Once the two files can be read they always can, however commands are    *)
(* interrupted: _write_json_model never exposes half a document.           *)
StaysReadable == [][Readable => Readable']_vars

(* A change of one user's roles, which rewrites both files in full,        *)
(* changes what no one else may do.                                        *)
OthersKeepTheirRoles ==
  [][Readable => \A a \in Actors :
       Effective(a)' # Effective(a) => \E p \in Procs : job[p] # NoJob /\ job[p].target = a]_vars

(* A change is recorded (auth.py:192-204) only when both files show        *)
(* exactly what the record says, never half of it.                         *)
AuditTruthful ==
  [][audit' # audit => /\ Readable
                       /\ users[audit'.target] = audit'.active
                       /\ roles[audit'.target] = audit'.roles]_vars

=============================================================================
