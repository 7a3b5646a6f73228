---------------------------- MODULE DatabaseSetup ----------------------------
(***************************************************************************)
(* What a reconcile sets up inside the database server: the database and   *)
(* its extensions, the claim's role and users with their rights, and the   *)
(* system functions of the controller's configuration.                     *)
(*                                                                         *)
(* Most steps are repeated by every reconcile.  Three are taken only by    *)
(* the reconcile that created the thing they complete: the default         *)
(* extensions of a new database, the special extensions of a new role and  *)
(* the role a new user acts as.  Passwords are module Credentials'.        *)
(***************************************************************************)
EXTENDS Naturals, FiniteSets, TLC

CONSTANTS
    Default,    \* defaultExtensions
    Special,    \* the extensions of specialExtensionsMap
    Configs,    \* the values of systemFunctions, maps from names to values
    MaxFaults,  \* bound on failing calls and restarts of the controller
    MaxEdits    \* bound on edits of the claim and of the configuration

ASSUME SetupAssumption ==
    /\ IsFiniteSet(Default) /\ IsFiniteSet(Special)
    /\ Configs # {}
    /\ MaxFaults \in Nat /\ MaxEdits \in Nat

VARIABLES
    mode,       \* "new": M_UseNewDB; "existing": M_UseExistingDB
    asked,      \* the right the claim asks for: "super", "repl" or "none"
    config,     \* systemFunctions, as the configuration file has them
    status,     \* the claim's ActiveDB and NewDB
    ready,      \* the Ready condition
    queued,     \* the claim is in the work queue
    pc,         \* the running reconcile's next step
    mem,        \* its copy of the status ...
    request,    \* ... the right it was asked for ...
    currentUser,    \* ... the user before it ...
    roleCreated,    \* ... whether it made the role ...
    functions, todo, currVal,   \* ... and the loop of ManageSystemFunctions
    outdated,   \* the claim was edited since it was read
    database,   \* the database exists
    extensions, \* the extensions it has
    role,       \* the claim's role exists
    rights,     \* of the role: "super", "createrole"
    users,      \* the users that exist
    acting,     \* those that act as the role
    repl,       \* those with the right to replicate
    schema,     \* the schema ib exists
    values,     \* the system functions that exist, with their values
    cut,        \* the steps of a creation that a failure has prevented
    refused,    \* the rights whose last withdrawal was refused
    faults, edits

claimVars == <<mode, asked, status, ready, outdated>>
loopVars == <<functions, todo, currVal>>
runVars == <<mem, request, currentUser, roleCreated, loopVars>>
roleVars == <<role, rights>>
userVars == <<users, acting, repl>>
functionVars == <<schema, values>>
dbVars == <<database, extensions, roleVars, userVars, functionVars>>
pastVars == <<cut, refused>>
boundVars == <<faults, edits>>
vars == <<claimVars, config, queued, pc, runVars, dbVars, pastVars, boundVars>>

Users == {"a", "b"}
NoUser == "none"
Names == UNION {DOMAIN c : c \in Configs}
Values == UNION {{c[f] : f \in DOMAIN c} : c \in Configs}
NoFunctions == <<>>

(* Of v1.Status: ConnectionInfo.Username and UserUpdatedAt.                *)
DbStatus == [user : Users \cup {NoUser}, at : {"never", "recent", "old"}]
NoDb == [user |-> NoUser, at |-> "never"]
NoStatus == [active |-> NoDb, new |-> NoDb]

Init ==
    /\ mode \in {"new", "existing"}
    /\ asked \in {"none", "repl", "super"} /\ config \in Configs
    /\ status = NoStatus /\ ready = FALSE
    /\ queued = TRUE /\ outdated = FALSE
    /\ pc = "idle" /\ mem = NoStatus /\ request = "none"
    /\ currentUser = NoUser /\ roleCreated = FALSE
    /\ functions = NoFunctions /\ todo = {} /\ currVal = ""
    /\ database = (mode = "existing")
    /\ extensions = {}
    /\ role = FALSE /\ rights = {}
    /\ users = {} /\ acting = {} /\ repl = {}
    /\ schema = FALSE /\ values = NoFunctions
    /\ cut = {} /\ refused = {}
    /\ faults = 0 /\ edits = 0

-----------------------------------------------------------------------------
(***************************************************************************)
(* The start of a reconcile.                                               *)
(***************************************************************************)
(* reconcileUseExistingDB has nothing to do while the user is recent.      *)
UpdatedRecently == mode = "existing" /\ status.active.at = "recent"

(* An existing database that is in use already is also the new one.        *)
StartingStatus ==
    IF mode = "existing" /\ status.active.user # NoUser
    THEN [status EXCEPT !.new = status.active]
    ELSE status

CurrentUser(st) ==
    IF st.new.user = NoUser /\ mode = "new" THEN st.active.user ELSE st.new.user

Reconcile ==
    /\ pc = "idle" /\ queued
    /\ queued' = FALSE
    /\ IF UpdatedRecently
       THEN UNCHANGED <<pc, runVars>>
       ELSE /\ pc' = IF mode = "new" THEN "database" ELSE "role"
            /\ mem' = StartingStatus
            /\ request' = asked
            /\ currentUser' = CurrentUser(StartingStatus)
            /\ roleCreated' = FALSE
            /\ UNCHANGED loopVars
    /\ UNCHANGED <<claimVars, config, dbVars, pastVars, boundVars>>

(* The memory of a reconcile that is over.                                 *)
Over ==
    /\ pc' = "idle" /\ mem' = NoStatus /\ request' = "none" /\ outdated' = FALSE
    /\ currentUser' = NoUser /\ roleCreated' = FALSE
    /\ functions' = NoFunctions /\ todo' = {} /\ currVal' = ""

Continue(here, there) ==
    /\ pc = here
    /\ pc' = there
    /\ UNCHANGED <<mode, asked, outdated, config, queued, request,
                   currentUser, cut, boundVars>>

-----------------------------------------------------------------------------
(***************************************************************************)
(* createDatabaseAndExtensions.                                            *)
(***************************************************************************)
CreateDatabase ==
    /\ Continue("database", IF database THEN "role" ELSE "defaults")
    /\ database' = TRUE
    /\ UNCHANGED <<status, ready, mem, roleCreated, loopVars, extensions, roleVars,
                   userVars, functionVars, refused>>

(* One by one; a new database's before its role, an existing one's after   *)
(* its users.                                                              *)
CreateDefaultExtensions ==
    LET left == Default \ extensions IN
    /\ Continue("defaults", IF left # {} THEN "defaults"
                            ELSE IF mode = "new" THEN "role" ELSE "schema")
    /\ IF left = {} THEN extensions' = extensions
       ELSE \E e \in left : extensions' = extensions \cup {e}
    /\ UNCHANGED <<status, ready, mem, roleCreated, loopVars, database, roleVars,
                   userVars, functionVars, refused>>

-----------------------------------------------------------------------------
(***************************************************************************)
(* manageUserAndExtensions.                                                *)
(***************************************************************************)
CreateRoleUnreported ==
    /\ Continue("role", "special")
    /\ role' = TRUE
    /\ roleCreated' = FALSE
    /\ UNCHANGED <<status, ready, mem, loopVars, database, extensions, rights, userVars,
                   functionVars, refused>>

(* The role's privileges are granted anew by each reconcile.               *)
CreateRole ==
    /\ Continue("role", "special")
    /\ role' = TRUE
    /\ roleCreated' = ~role
    /\ UNCHANGED <<status, ready, mem, loopVars, database, extensions, rights, userVars,
                   functionVars, refused>>

(* In the order in which the map is walked, which is any.                  *)
CreateSpecialExtensions ==
    LET left == IF roleCreated /\ mode = "new" THEN Special \ extensions ELSE {} IN
    /\ Continue("special", IF left # {} THEN "special" ELSE "user")
    /\ IF left = {} THEN extensions' = extensions
       ELSE \E e \in left : extensions' = extensions \cup {e}
    /\ UNCHANGED <<status, ready, mem, roleCreated, loopVars, database, roleVars,
                   userVars, functionVars, refused>>

NextUser(user) == IF user = "a" THEN "b" ELSE "a"

RotationDue == mem.new.at = "never" \/ mem.active.at = "old"

CreateUser ==
    LET user == NextUser(currentUser) IN
    /\ RotationDue
    /\ Continue("user", IF user \in users THEN "password" ELSE "setrole")
    /\ users' = users \cup {user}
    /\ UNCHANGED <<status, ready, mem, roleCreated, loopVars, database, extensions,
                   roleVars, acting, repl, functionVars, refused>>

KeepUser ==
    /\ ~RotationDue
    /\ Continue("user", "super")
    /\ UNCHANGED <<status, ready, mem, roleCreated, loopVars, dbVars, refused>>

(* ALTER ROLE ... SET ROLE: what the user creates belongs to the role.     *)
AssignRoleToUser ==
    /\ Continue("setrole", "password")
    /\ acting' = acting \cup {NextUser(currentUser)}
    /\ UNCHANGED <<status, ready, mem, roleCreated, loopVars, database, extensions,
                   roleVars, users, repl, functionVars, refused>>

(* UpdatePassword and UpdateUserStatus.                                    *)
UpdatePassword ==
    /\ Continue("password", "super")
    /\ mem' = [mem EXCEPT !.new = [user |-> NextUser(currentUser), at |-> "recent"]]
    /\ UNCHANGED <<status, ready, roleCreated, loopVars, dbVars, refused>>

(***************************************************************************)
(* The rights.  That one cannot be withdrawn is no error.                  *)
(***************************************************************************)
ManageSuperUserRole ==
    /\ Continue("super", "createrole")
    /\ rights' = IF request = "super" THEN rights \cup {"super"} ELSE rights \ {"super"}
    /\ refused' = refused \ {"super"}
    /\ UNCHANGED <<status, ready, mem, roleCreated, loopVars, database, extensions, role,
                   userVars, functionVars>>

ManageCreateRole ==
    /\ Continue("createrole", "replCurrent")
    /\ rights' = IF request = "super" THEN rights \cup {"createrole"}
                 ELSE rights \ {"createrole"}
    /\ UNCHANGED <<status, ready, mem, roleCreated, loopVars, database, extensions, role,
                   userVars, functionVars, refused>>

(* Nothing is done for a user that does not exist.                         *)
ManageReplicationRole(user) ==
    /\ repl' = IF request = "repl" THEN repl \cup ({user} \cap users) ELSE repl \ {user}
    /\ refused' = refused \ {user}

ReplicationOfCurrentUser ==
    /\ Continue("replCurrent", "replNext")
    /\ ManageReplicationRole(currentUser)
    /\ UNCHANGED <<status, ready, mem, roleCreated, loopVars, database, extensions,
                   roleVars, users, acting, functionVars>>

AfterUsers == IF mode = "new" THEN "schema" ELSE "status"

ReplicationOfNoOther ==
    /\ Continue("replNext", AfterUsers)
    /\ UNCHANGED <<status, ready, mem, roleCreated, loopVars, dbVars, refused>>

ReplicationOfNextUser ==
    /\ Continue("replNext", AfterUsers)
    /\ ManageReplicationRole(NextUser(currentUser))
    /\ UNCHANGED <<status, ready, mem, roleCreated, loopVars, database, extensions,
                   roleVars, users, acting, functionVars>>

Withdrawn ==
    CASE pc = "super" -> "super"
      [] pc = "replCurrent" -> currentUser
      [] OTHER -> NextUser(currentUser)

WithdrawalRefused ==
    /\ faults < MaxFaults
    /\ faults' = faults + 1
    /\ \/ pc = "super" /\ request # "super" /\ pc' = "createrole"
       \/ pc = "replCurrent" /\ request # "repl" /\ pc' = "replNext"
       \/ pc = "replNext" /\ request # "repl" /\ pc' = AfterUsers
    /\ refused' = refused \cup {Withdrawn}
    /\ UNCHANGED <<claimVars, config, queued, runVars, dbVars, cut, edits>>

(* An existing database's status is written before the secret.             *)
UpdateStatus ==
    /\ ~outdated
    /\ Continue("status", "defaults")
    /\ status' = mem
    /\ UNCHANGED <<ready, mem, roleCreated, loopVars, dbVars, refused>>

-----------------------------------------------------------------------------
(***************************************************************************)
(* ManageSystemFunctions.                                                  *)
(***************************************************************************)
CreateSchemaWithFunctions ==
    /\ Continue("schema", "functions")
    /\ schema' = TRUE
    /\ functions' = config /\ todo' = (IF schema THEN {} ELSE DOMAIN config)
    /\ currVal' = ""
    /\ UNCHANGED <<status, ready, mem, roleCreated, database, extensions, roleVars,
                   userVars, values, refused>>

CreateSchema ==
    /\ Continue("schema", "functions")
    /\ schema' = TRUE
    /\ functions' = config /\ todo' = DOMAIN config /\ currVal' = ""
    /\ UNCHANGED <<status, ready, mem, roleCreated, database, extensions, roleVars,
                   userVars, values, refused>>

(* The value of a function that does not exist is not read, and currVal    *)
(* keeps that of the function before it.                                   *)
CreateOrReplace(f) ==
    /\ currVal' = IF f \in DOMAIN values THEN values[f] ELSE currVal
    /\ values' = IF currVal' = functions[f] THEN values ELSE f :> functions[f] @@ values

ManageFunction(f) ==
    /\ f \in todo
    /\ Continue("functions", "functions")
    /\ CreateOrReplace(f)
    /\ todo' = todo \ {f}
    /\ UNCHANGED <<status, ready, mem, roleCreated, functions, database, extensions,
                   roleVars, userVars, schema, refused>>

FunctionsManaged ==
    /\ todo = {}
    /\ Continue("functions", "finish")
    /\ UNCHANGED <<status, ready, mem, roleCreated, loopVars, dbVars, refused>>

(* The new database becomes the active one, and the claim Ready.           *)
SuccessAndUpdateCondition ==
    /\ pc = "finish" /\ ~outdated
    /\ status' = [active |-> mem.new, new |-> NoDb]
    /\ ready' = TRUE
    /\ Over
    /\ UNCHANGED <<mode, asked, config, queued, dbVars, pastVars, boundVars>>

-----------------------------------------------------------------------------
(***************************************************************************)
(* Failures.  SetError writes the status in memory if it can; the last     *)
(* status write is not followed by it.                                     *)
(***************************************************************************)
(* What the next reconcile will not make up for.                           *)
CutOff ==
    CASE pc = "defaults" /\ mode = "new" -> {"defaults"}
      [] pc = "special" /\ roleCreated -> {"special"}
      [] pc = "setrole" -> {"setrole"}
      [] OTHER -> {}

SetError ==
    /\ \/ /\ ~outdated /\ pc # "finish"
          /\ status' = mem /\ ready' = FALSE
       \/ UNCHANGED <<status, ready>>
    /\ Over /\ queued' = TRUE
    /\ cut' = cut \cup CutOff
    /\ UNCHANGED <<mode, asked, config, dbVars, refused, edits>>

StatusConflict ==
    /\ outdated /\ pc \in {"status", "finish"}
    /\ SetError
    /\ UNCHANGED faults

CallFails ==
    /\ pc # "idle" /\ faults < MaxFaults
    /\ faults' = faults + 1
    /\ SetError

Restart ==
    /\ pc # "idle" /\ faults < MaxFaults
    /\ faults' = faults + 1
    /\ Over /\ queued' = TRUE
    /\ cut' = cut \cup CutOff
    /\ UNCHANGED <<mode, asked, status, ready, config, dbVars, refused, edits>>

-----------------------------------------------------------------------------
(***************************************************************************)
(* The claim's owner, the configuration file, time and the work queue.     *)
(***************************************************************************)
EditClaim(right) ==
    /\ right # asked /\ edits < MaxEdits
    /\ edits' = edits + 1
    /\ asked' = right
    /\ outdated' = (pc # "idle") /\ queued' = TRUE
    /\ UNCHANGED <<mode, status, ready, config, pc, runVars, dbVars, pastVars,
                   faults>>

(* The file is watched; a change of it reconciles nothing.                 *)
ConfigChanges(c) ==
    /\ c # config /\ edits < MaxEdits
    /\ edits' = edits + 1
    /\ config' = c
    /\ UNCHANGED <<claimVars, queued, pc, runVars, dbVars, pastVars, faults>>

Older(db) == [db EXCEPT !.at = IF @ = "recent" THEN "old" ELSE @]

(* A rotation period passes between two reconciles, and brings the next.   *)
PeriodPasses ==
    /\ pc = "idle"
    /\ queued' = TRUE
    /\ status' = [active |-> Older(status.active), new |-> Older(status.new)]
    /\ UNCHANGED <<mode, asked, ready, outdated, config, pc, runVars, dbVars, pastVars,
                   boundVars>>

Controller ==
    \/ Reconcile
    \/ CreateDatabase \/ CreateDefaultExtensions
    \/ CreateRole \/ CreateSpecialExtensions
    \/ CreateUser \/ KeepUser \/ AssignRoleToUser \/ UpdatePassword
    \/ ManageSuperUserRole \/ ManageCreateRole
    \/ ReplicationOfCurrentUser \/ ReplicationOfNextUser \/ UpdateStatus
    \/ CreateSchema \/ (\E f \in todo : ManageFunction(f)) \/ FunctionsManaged
    \/ SuccessAndUpdateCondition \/ StatusConflict

Next ==
    \/ Controller
    \/ WithdrawalRefused \/ CallFails \/ Restart
    \/ \E right \in {"none", "repl", "super"} : EditClaim(right)
    \/ \E c \in Configs : ConfigChanges(c)
    \/ PeriodPasses

Spec == Init /\ [][Next]_vars

(* The work queue is served, and a claim that was reconciled comes again.  *)
FairSpec == Spec /\ WF_vars(Controller) /\ WF_vars(PeriodPasses)

-----------------------------------------------------------------------------
(* The types of the variables; only users that exist have rights.          *)
TypeOK ==
    /\ mode \in {"new", "existing"} /\ {asked, request} \subseteq {"none", "repl", "super"}
    /\ {config, functions} \subseteq Configs \cup {NoFunctions}
    /\ {status, mem} \subseteq [active : DbStatus, new : DbStatus]
    /\ {ready, queued, outdated, roleCreated, database, role, schema} \subseteq BOOLEAN
    /\ pc \in {"idle", "database", "defaults", "role", "special", "user", "setrole",
               "password", "super", "createrole", "replCurrent", "replNext", "status",
               "schema", "functions", "finish"}
    /\ currentUser \in Users \cup {NoUser}
    /\ todo \subseteq Names /\ currVal \in Values \cup {""}
    /\ extensions \subseteq Default \cup Special
    /\ rights \subseteq {"super", "createrole"}
    /\ users \subseteq Users /\ acting \subseteq users /\ repl \subseteq users
    /\ DOMAIN values \subseteq Names
    /\ \A f \in DOMAIN values : values[f] \in Values
    /\ cut \subseteq {"defaults", "special", "setrole"}
    /\ refused \subseteq Users \cup {NoUser, "super"}
    /\ faults \in Nat /\ edits \in Nat

Settled == pc = "idle" /\ ~queued

(* A claim is not called Ready before its database has its extensions and  *)
(* its users act as its role; what is missing then was cut off from its    *)
(* creation by a failure, and an existing database misses no default       *)
(* extension even so.                                                      *)
ReadyIsComplete ==
    ready /\ pc = "idle" =>
        /\ Default \subseteq extensions \/ (mode = "new" /\ "defaults" \in cut)
        /\ Special \subseteq extensions \/ mode = "existing" \/ "special" \in cut
        /\ users = acting \/ "setrole" \in cut

(* At rest, both users of a Ready claim have the right it asks for, also   *)
(* after a rotation or a change of mind, and no other unless the database  *)
(* refused to take it back.                                                *)
RightsAsAsked ==
    Settled /\ ready /\ mode = "new" =>
        /\ asked = "super" => rights = {"super", "createrole"}
        /\ asked # "super" => rights \subseteq {"super"} \cap refused
        /\ asked = "repl" => repl = users
        /\ asked # "repl" => repl \subseteq refused

(* Another function has, or had, the value f is to have.                   *)
Shared(f, v) == \E c \in Configs : \E g \in DOMAIN c \ {f} : c[g] = v

AgreesWith(c) ==
    \A f \in DOMAIN c :
        IF f \in DOMAIN values THEN values[f] = c[f] ELSE Shared(f, c[f])

(* A new database's claim becomes Ready whatever fails on the way, and in  *)
(* whichever order its system functions are visited they follow the        *)
(* configuration file; one that is missing is to have a value of another.  *)
SetupCompletes == mode = "new" => <>[](ready /\ AgreesWith(config))
==============================================================================
