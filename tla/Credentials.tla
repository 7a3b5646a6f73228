----------------------------- MODULE Credentials -----------------------------
(***************************************************************************)
(* The users an application connects with: manageUserAndExtensions as the  *)
(* modes UseNewDB and UseExistingDB run it, the secret it ends in, and     *)
(* what brings the next reconcile about.                                   *)
(*                                                                         *)
(* A claim has two users per user name, _a and _b, and changes to the      *)
(* other one, with a new password, at each rotation.  The new password     *)
(* lives in the reconcile's memory until the secret is written.            *)
(*                                                                         *)
(* Of a time only its age matters: "recent" until a rotation period has    *)
(* passed, "old" from then on, "never" when it is not set.                 *)
(***************************************************************************)
EXTENDS Naturals, FiniteSets

CONSTANTS
    Starts,     \* the claims considered
    Names,      \* the values of Spec.Username
    MaxErrors,  \* bound on calls that fail
    MaxCrashes, \* bound on restarts of the controller
    MaxEdits    \* bound on edits of the claim

Users == [base : Names, suffix : {"a", "b"}]
NoUser == [base |-> "none", suffix |-> "none"]
Ages == {"never", "recent", "old"}

(* A claim is in mode UseNewDB or UseExistingDB, starts without users and  *)
(* secret or with them, and is given some of the names by its owner.       *)
Claims == [mode : {"new", "existing"}, fresh : BOOLEAN, names : SUBSET Names \ {{}}]

ASSUME StartsAssumption == Starts \subseteq Claims /\ Starts # {}
ASSUME NamesAssumption == Names # {} /\ IsFiniteSet(Names) /\ "none" \notin Names
ASSUME BoundsAssumption ==
    /\ MaxErrors \in Nat /\ MaxCrashes \in Nat
    /\ MaxEdits \in Nat

VARIABLES
    start,      \* which of the claims this is
    username,   \* Spec.Username
    status,     \* the claim's ActiveDB and NewDB as the API server holds them
    ready,      \* the Ready condition
    message,    \* Status.Error is set
    pc,         \* where the running reconcile is
    mem,        \* the reconcile's copy of the status ...
    baseUsername, \* ... and of the user name
    outdated,   \* the claim was edited since the reconcile read it
    tempSecret, \* the password the reconcile made (reqInfo.TempSecret), or 0
    roles,      \* group roles of the database
    password,   \* password of each user in the database, 0 when it has none
    secret,     \* the user and password the application's secret names
    queued,     \* the claim is in the controller's work queue
    timer,      \* RequeueAfter: "none", "pending", or "soon" to fire
    errors, crashes, edits

claimVars == <<start, username, status, ready, message>>
runVars   == <<mem, baseUsername, tempSecret>>
dbVars    == <<roles, password>>
queueVars == <<queued, timer>>
boundVars == <<errors, crashes, edits>>
vars == <<claimVars, pc, runVars, outdated, dbVars, secret, queueVars,
          boundVars>>

(***************************************************************************)
(* Of v1.Status: ConnectionInfo.Username and UserUpdatedAt.                *)
(***************************************************************************)
DbStatus == [user : Users \cup {NoUser}, at : Ages]
NoDb == [user |-> NoUser, at |-> "never"]
NoStatus == [active |-> NoDb, new |-> NoDb]

NoSecret == [user |-> NoUser, pw |-> 0]

GetUserA(name) == [base |-> name, suffix |-> "a"]
GetUserB(name) == [base |-> name, suffix |-> "b"]

InitFresh ==
    /\ status = NoStatus /\ ready = FALSE
    /\ roles = {} /\ password = [u \in Users |-> 0]
    /\ secret = NoSecret
    /\ queued = TRUE /\ timer = "none"

(* A claim whose first reconcile has succeeded.                            *)
InitEstablished ==
    /\ status = [active |-> [user |-> GetUserA(username), at |-> "recent"], new |-> NoDb]
    /\ ready = TRUE
    /\ roles = {username}
    /\ password = [u \in Users |-> IF u = GetUserA(username) THEN 1 ELSE 0]
    /\ secret = [user |-> GetUserA(username), pw |-> 1]
    /\ queued = FALSE /\ timer = "pending"

Init ==
    /\ start \in Starts /\ username \in start.names
    /\ IF start.fresh THEN InitFresh ELSE InitEstablished
    /\ message = FALSE
    /\ pc = "idle"
    /\ mem = NoStatus /\ baseUsername = username /\ tempSecret = 0
    /\ outdated = FALSE
    /\ errors = 0 /\ crashes = 0 /\ edits = 0

-----------------------------------------------------------------------------
(***************************************************************************)
(* One reconcile.                                                          *)
(***************************************************************************)

(* reconcileUseExistingDB has nothing to do while the user is recent.      *)
UpdatedRecently ==
    start.mode = "existing" /\ status.active.at = "recent"

(* An existing database that is in use already is also the new one.        *)
StartingStatus ==
    IF start.mode = "existing" /\ status.active.user # NoUser
    THEN [status EXCEPT !.new = status.active]
    ELSE status

(* A new database's error text is cleared before its users are managed.    *)
Reconcile ==
    /\ pc = "idle" /\ queued
    /\ ~UpdatedRecently
    /\ message' = (message /\ start.mode = "existing")
    /\ mem' = StartingStatus
    /\ baseUsername' = username
    /\ outdated' = FALSE
    /\ tempSecret' = 0
    /\ queued' = FALSE
    /\ pc' = "role"
    /\ UNCHANGED <<start, username, status, ready, dbVars, secret, timer, boundVars>>

(* ErrDoNotUpdateStatus: neither an error nor a RequeueAfter.              *)
ReconcileSkipped ==
    /\ pc = "idle" /\ queued
    /\ UpdatedRecently
    /\ queued' = FALSE
    /\ UNCHANGED <<claimVars, pc, runVars, outdated, dbVars, secret, timer,
                   boundVars>>

Continue(here, there) ==
    /\ pc = here
    /\ pc' = there
    /\ UNCHANGED <<start, username, baseUsername, outdated, queued, boundVars>>

CreateRoleLater ==
    /\ Continue("role", "rename")
    /\ UNCHANGED <<status, ready, message, mem, tempSecret, dbVars, secret, timer>>

CreateRole ==
    /\ Continue("role", "rename")
    /\ roles' = roles \cup {baseUsername}
    /\ UNCHANGED <<status, ready, message, mem, tempSecret, password, secret, timer>>

currentUser ==
    IF mem.new.user = NoUser /\ start.mode = "new" THEN mem.active.user
    ELSE mem.new.user

IsUserChanged(user) == user # NoUser /\ user.base # baseUsername

(* ALTER USER ... RENAME is refused when the new name exists.              *)
CanRename == currentUser.base \notin roles \/ baseUsername \notin roles

KeepUsers ==
    /\ ~IsUserChanged(currentUser)
    /\ Continue("rename", "rotate")
    /\ UNCHANGED <<status, ready, message, mem, tempSecret, dbVars, secret, timer>>

NextUserAlwaysA(user) == GetUserA(baseUsername)

NextUser(user) ==
    IF user.suffix = "a" THEN GetUserB(baseUsername) ELSE GetUserA(baseUsername)

RotationDue == mem.new.at = "never" \/ mem.active.at = "old"

(* generatePassword: a password that nothing holds yet.                    *)
NewPassword ==
    CHOOSE pw \in 1..(2 * Cardinality(Names) + 2) :
        pw # secret.pw /\ \A u \in Users : password[u] # pw

(* A user that exists keeps its password; UpdatePassword changes it.       *)
CreateUser ==
    /\ RotationDue
    /\ Continue("rotate", "password")
    /\ tempSecret' = NewPassword
    /\ password' = [password EXCEPT
          ![NextUser(currentUser)] = IF @ = 0 THEN NewPassword ELSE @]
    /\ UNCHANGED <<status, ready, message, mem, roles, secret, timer>>

(* UpdatePassword and UpdateUserStatus.                                    *)
UpdatePassword ==
    /\ Continue("password", "grants")
    /\ LET user == NextUser(currentUser) IN
       /\ password' = [password EXCEPT ![user] = tempSecret]
       /\ mem' = [mem EXCEPT !.new = [user |-> user, at |-> "recent"]]
    /\ UNCHANGED <<status, ready, message, tempSecret, roles, secret, timer>>

KeepPassword ==
    /\ ~RotationDue
    /\ Continue("rotate", "grants")
    /\ UNCHANGED <<status, ready, message, mem, tempSecret, dbVars, secret, timer>>

(* Superuser, createrole and replication grants; for an existing database  *)
(* the status is written before the secret.                                *)
ManageRoles ==
    /\ start.mode = "existing" => ~outdated
    /\ Continue("grants", "secret")
    /\ status' = IF start.mode = "existing" THEN mem ELSE status
    /\ UNCHANGED <<ready, message, mem, tempSecret, dbVars, secret, timer>>

createSecretOnce ==
    /\ Continue("secret", "functions")
    /\ secret' = IF tempSecret = 0 \/ secret # NoSecret THEN secret
                 ELSE [user |-> mem.new.user, pw |-> tempSecret]
    /\ UNCHANGED <<status, ready, message, mem, tempSecret, dbVars, timer>>

(* The secret is written only by a reconcile that made a password.         *)
createOrUpdateSecret ==
    /\ Continue("secret", "functions")
    /\ secret' = IF tempSecret = 0 THEN secret
                 ELSE [user |-> mem.new.user, pw |-> tempSecret]
    /\ UNCHANGED <<status, ready, message, mem, tempSecret, dbVars, timer>>

ActivateNothing ==
    /\ Continue("functions", "clear")
    /\ mem' = [mem EXCEPT !.new = NoDb]
    /\ UNCHANGED <<status, ready, message, tempSecret, dbVars, secret, timer>>

(* The new database becomes the active one in memory; with an existing     *)
(* database its extensions and system functions come before that.          *)
ActivateNewDB ==
    /\ Continue("functions", "clear")
    /\ mem' = [active |-> mem.new, new |-> NoDb]
    /\ UNCHANGED <<status, ready, message, tempSecret, dbVars, secret, timer>>

(* A status write, but only when there is an error text to clear.          *)
ClearError ==
    /\ message => ~outdated
    /\ Continue("clear", "ready")
    /\ status' = IF message THEN mem ELSE status
    /\ message' = FALSE
    /\ UNCHANGED <<ready, mem, tempSecret, dbVars, secret, timer>>

NoRequeue == timer

(* The delaying queue keeps the earlier of two times.                      *)
RequeueAfter == IF timer = "none" THEN "pending" ELSE timer

SuccessAndUpdateCondition ==
    /\ ~outdated
    /\ Continue("ready", IF start.mode = "new" THEN "version" ELSE "idle")
    /\ status' = mem
    /\ ready' = TRUE
    /\ timer' = IF start.mode = "new" THEN timer ELSE RequeueAfter
    /\ UNCHANGED <<message, mem, tempSecret, dbVars, secret>>

(* A new database's claim without a database version gets a condition by   *)
(* one more status write, which leaves what is modelled here alone.        *)
ActiveDBSuccessReconcile ==
    /\ Continue("version", "idle")
    /\ timer' = RequeueAfter
    /\ UNCHANGED <<status, ready, message, mem, tempSecret, dbVars, secret>>

Succeeding == pc \in {"clear", "ready", "version"}

(* The reconcile returns an error, and the claim is requeued.  SetError    *)
(* writes the status it has in memory if the API server lets it; a failure *)
(* of the last status writes is returned without SetError.                 *)
SetError ==
    /\ \/ /\ ~Succeeding /\ ~outdated
          /\ status' = mem /\ ready' = FALSE
          /\ message' \in {message, TRUE}
       \/ UNCHANGED <<status, ready, message>>
    /\ pc' = "idle"
    /\ queued' = TRUE
    /\ UNCHANGED <<start, username, runVars, outdated, dbVars, secret, timer,
                   crashes, edits>>

(* manageUserAndExtensions has created the new role before it renames the  *)
(* old one to it.                                                          *)
RenameUserFails ==
    /\ pc = "rename"
    /\ IsUserChanged(currentUser) /\ ~CanRename
    /\ SetError
    /\ UNCHANGED errors

StatusConflict ==
    /\ outdated
    /\ \/ Succeeding
       \/ pc = "grants" /\ start.mode = "existing"
    /\ SetError
    /\ UNCHANGED errors

Controller ==
    \/ Reconcile \/ ReconcileSkipped \/ CreateRole \/ KeepUsers
    \/ RenameUserFails \/ CreateUser \/ UpdatePassword \/ KeepPassword
    \/ ManageRoles
    \/ createOrUpdateSecret \/ ActivateNewDB \/ ClearError
    \/ SuccessAndUpdateCondition \/ ActiveDBSuccessReconcile \/ StatusConflict

(* A call of the reconcile fails.                                          *)
CallFails ==
    /\ pc # "idle" /\ errors < MaxErrors
    /\ errors' = errors + 1
    /\ SetError

(* Timers are lost with the process; the new one lists every claim.        *)
Restart ==
    /\ crashes < MaxCrashes
    /\ crashes' = crashes + 1
    /\ pc' = "idle"
    /\ timer' = "none"
    /\ queued' = TRUE
    /\ UNCHANGED <<claimVars, runVars, outdated, dbVars, secret, errors,
                   edits>>

-----------------------------------------------------------------------------
TimerFires ==
    /\ timer = "soon"
    /\ timer' = "none"
    /\ queued' = TRUE
    /\ UNCHANGED <<claimVars, pc, runVars, outdated, dbVars, secret, boundVars>>

Older(db) == [db EXCEPT !.at = IF @ = "recent" THEN "old" ELSE @]
OlderStatus(st) == [active |-> Older(st.active), new |-> Older(st.new)]

(* A rotation period passes.  A timer is started after the time stamps of  *)
(* its reconcile were taken, and fires after they have become old.         *)
PeriodPasses ==
    /\ status' = OlderStatus(status)
    /\ mem' = OlderStatus(mem)
    /\ timer' = IF timer = "pending" THEN "soon" ELSE timer
    /\ UNCHANGED <<start, username, ready, message, pc, baseUsername, tempSecret,
                   outdated, dbVars, secret, queued, boundVars>>

(* An edit of the specification or of a label passes the event filter.     *)
EditClaim ==
    /\ edits < MaxEdits
    /\ edits' = edits + 1
    /\ username' \in start.names
    /\ outdated' = TRUE
    /\ queued' = TRUE
    /\ UNCHANGED <<start, status, ready, message, pc, runVars, dbVars, secret, timer,
                   errors, crashes>>

Next ==
    \/ Controller \/ CallFails \/ Restart
    \/ TimerFires \/ PeriodPasses \/ EditClaim

Spec == Init /\ [][Next]_vars

(* The work queue is served, time passes and timers fire.                  *)
FairSpec ==
    Spec /\ WF_vars(Controller) /\ WF_vars(TimerFires) /\ WF_vars(PeriodPasses)

-----------------------------------------------------------------------------
(* Every variable has its type.                                            *)
TypeOK ==
    /\ start \in Starts /\ username \in Names /\ baseUsername \in Names
    /\ status \in [active : DbStatus, new : DbStatus]
    /\ ready \in BOOLEAN /\ message \in BOOLEAN
    /\ pc \in {"idle", "role", "rename", "rotate", "password", "grants",
             "secret", "functions", "clear", "ready", "version"}
    /\ mem \in [active : DbStatus, new : DbStatus]
    /\ outdated \in BOOLEAN
    /\ tempSecret \in Nat
    /\ roles \subseteq Names /\ password \in [Users -> Nat]
    /\ secret \in [user : Users \cup {NoUser}, pw : Nat]
    /\ queued \in BOOLEAN /\ timer \in {"none", "pending", "soon"}
    /\ errors \in Nat /\ crashes \in Nat /\ edits \in Nat

Usable == secret # NoSecret /\ password[secret.user] = secret.pw

Settled == pc = "idle" /\ ~queued

(* When the controller has nothing left to do for a claim that it calls    *)
(* Ready, the application can connect with its secret, and will until the  *)
(* next reconcile.                                                         *)
UsableWhenSettled == Settled /\ ready => Usable

(* ... and the user the status names is the secret's.                      *)
StatusNamesSecretUser == Settled => status.active.user = secret.user

(* A reconcile may have made a password and lost it.  Where the status is  *)
(* written before the secret that takes a first reconcile; a new database  *)
(* also counts a user as rotated when SetError has recorded it.            *)
Interrupted ==
    IF start.mode = "new" THEN errors > 0 ELSE start.fresh /\ errors + crashes > 0

(* Otherwise both hold: neither a restart nor an edit can come between a   *)
(* user's new password and the secret for good, and once a claim on an     *)
(* existing database has been established no failing call can.             *)
SoundUntilFailure == ~Interrupted => UsableWhenSettled /\ StatusNamesSecretUser

(* The status and the secret disagree on the user: a rotation has reached  *)
(* one of them only.                                                       *)
HalfRotated ==
    status.active.user # secret.user \/ status.new.user \notin {NoUser, secret.user}

(* The application's credentials are invalidated under it only by the      *)
(* reconcile after such a rotation, never by one that follows a whole one. *)
PasswordInUseKept == [][Usable /\ ~Usable' => HalfRotated]_vars

(* A user name that is changed is never taken over: the new role exists    *)
(* when the old one is to be renamed to it.                                *)
RenameBlocked == pc = "rename" /\ IsUserChanged(currentUser) => ~CanRename

(* A claim on an existing database was reconciled while its user is still  *)
(* recent, and no timer is left: nothing but an edit wakes it up again.    *)
(* That takes a restart, an edit just before the timer fires, or a failure *)
(* followed by one of the last status write.                               *)
Lapsed ==
    /\ start.mode = "existing" /\ crashes + edits + errors > 0
    /\ Settled /\ timer = "none"

(* The claim asks for another user name than its secret has.               *)
Renamed == secret # NoSecret /\ username # secret.user.base

(* From some time on the application can connect for good, unless its user *)
(* is renamed or nothing wakes the claim up.                               *)
EventuallyUsable == <>[](Usable \/ Lapsed \/ Renamed)

(* Rotation goes on: with the same exceptions, the user the secret names   *)
(* is not its user forever.                                                *)
RotationContinues ==
    \A u \in Users : secret.user = u ~> secret.user # u \/ Lapsed \/ Renamed
==============================================================================
