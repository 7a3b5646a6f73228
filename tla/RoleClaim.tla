------------------------------ MODULE RoleClaim ------------------------------
(***************************************************************************)
(* A role claim: either a copy of its source claim's secret, or a pair of  *)
(* users of its own, rotated in turn, with the roles its schema map asks   *)
(* for.  Its reconciles read the claim and the source's secret from caches *)
(* that lag behind the API server, and ignore conflicts of their status    *)
(* writes.                                                                 *)
(*                                                                         *)
(* The users are made on the host the source's request names, and their    *)
(* secret is the source's with another user: while the source migrates     *)
(* from the old host to the new one, these are two hosts.                  *)
(***************************************************************************)
EXTENDS Naturals, FiniteSets

CONSTANTS
    Roles,      \* the roles of the database
    Maps,       \* the sets of roles schema maps ask for; {}: no schema map
    FirstMaps,  \* those a claim may be created with
    MaxFaults,  \* bound on calls that fail and restarts of the controller
    MaxEdits,   \* bound on edits of the claim and migrations of its source
    MaxEvents,  \* bound on both together
    MaxSource   \* bound on changes of the source's secret

ASSUME RoleBoundsAssumption ==
    /\ IsFiniteSet(Roles) /\ Maps \subseteq SUBSET Roles
    /\ FirstMaps \subseteq Maps /\ FirstMaps # {}
    /\ MaxFaults \in Nat /\ MaxEdits \in Nat /\ MaxEvents \in Nat /\ MaxSource \in Nat

VARIABLES
    obj,          \* the claim at the API server ...
    cache,        \* ... and in the informer's cache
    source,       \* the version of the source's secret
    seen,         \* ... in the cache
    sourceExists, \* the source claim exists
    home,         \* the host the source's request names
    rerouted,     \* the first version of its secret to name the new one; 0: none
    roleSecret,   \* the secret the role claim hands out: a user, or a copy
    secretOk,     \* its password is its user's
    users,        \* the claim's users in the database
    grants,       \* the roles of each user
    rolesMade,    \* the roles in the database
    pc,           \* the running reconcile's next step
    read,         \* the claim it has read
    mem,          \* its status in memory, and the source's version it has read
    queued,       \* the claim is in the work queue
    broken,       \* a reconcile of an outdated claim was cut short
    left,         \* a user could not be dropped
    faults, edits

sourceVars == <<source, seen, sourceExists, home, rerouted>>
storeVars == <<obj, cache, sourceVars>>
secretVars == <<roleSecret, secretOk>>
dbVars == <<users, grants, rolesMade>>
runVars == <<pc, read, mem>>
boundVars == <<faults, edits>>
vars == <<storeVars, secretVars, dbVars, runVars, queued, broken, left, boundVars>>

Hosts == {"old", "new"}
Users == {"a", "b"}
Accounts == Hosts \X Users
Ages == {"never", "recent", "old"}

NoUser == "none"
NoSecret == [src |-> 0, user |-> "missing", host |-> "old", made |-> "old"]

(* Schema map, generation, deletion, and status: Username,                 *)
(* SchemasRolesUpdatedAt and SourceSecretResourceVersion (0: unset).       *)
Claims == [wanted : Maps \cup {{}}, gen : Nat, state : {"live", "deleting", "gone"},
           user : Users \cup {NoUser}, at : Ages, ver : Nat]

NewClaim(w) ==
    [wanted |-> w, gen |-> 0, state |-> "live",
     user |-> NoUser, at |-> "never", ver |-> 0]
NothingRead == NewClaim({})
NoStatus == [user |-> NoUser, at |-> "never", ver |-> 0, src |-> 1, host |-> "old"]

Init ==
    /\ \E w \in FirstMaps : obj = NewClaim(w)
    /\ cache = obj
    /\ source = 1 /\ seen = 1 /\ sourceExists = TRUE
    /\ home = "old" /\ rerouted = 0
    /\ roleSecret = NoSecret /\ secretOk = FALSE
    /\ users = {} /\ grants = [u \in Accounts |-> {}] /\ rolesMade = {}
    /\ pc = "idle" /\ read = NothingRead /\ mem = NoStatus
    /\ queued = TRUE
    /\ broken = FALSE /\ left = FALSE
    /\ faults = 0 /\ edits = 0

MayFail == faults < MaxFaults /\ faults + edits < MaxEvents
MayEdit == edits < MaxEdits /\ faults + edits < MaxEvents

-----------------------------------------------------------------------------
(***************************************************************************)
(* Reconcile.                                                              *)
(***************************************************************************)
(* The host a version of the source's secret names.                        *)
HostOf(v) == IF rerouted # 0 /\ v >= rerouted THEN "new" ELSE "old"

RotationDue(c) == c.at # "recent"

(* Rotate the users of a schema map, or copy a secret that has changed.    *)
StepForMap ==
    IF cache.wanted # {} THEN IF RotationDue(cache) THEN "roles" ELSE "status"
    ELSE IF seen = cache.ver THEN "status" ELSE "copy"

FirstStepUsersOnly ==
    IF cache.state = "deleting" /\ cache.wanted # {} THEN "dropA" ELSE StepForMap

(* What the reconcile will do, from the claim and the secret it reads.     *)
FirstStep == IF cache.state = "deleting" THEN "dropA" ELSE StepForMap

ReconcileRecordsFirst ==
    /\ pc = "idle" /\ queued
    /\ sourceExists \/ cache.state = "gone"
    /\ queued' = FALSE
    /\ IF cache.state = "gone"
       THEN UNCHANGED runVars
       ELSE /\ pc' = FirstStep
            /\ read' = cache
            /\ mem' = [user |-> cache.user, at |-> cache.at, ver |-> seen,
                       src |-> seen, host |-> home]
    /\ UNCHANGED <<storeVars, secretVars, dbVars, broken, left, boundVars>>

(* Without the source claim every reconcile of a claim fails.              *)
Reconcile ==
    /\ pc = "idle" /\ queued
    /\ sourceExists \/ cache.state = "gone"
    /\ queued' = FALSE
    /\ IF cache.state = "gone"
       THEN UNCHANGED runVars
       ELSE /\ pc' = FirstStep
            /\ read' = cache
            /\ mem' = [user |-> cache.user, at |-> cache.at, ver |-> cache.ver,
                       src |-> seen, host |-> home]
    /\ UNCHANGED <<storeVars, secretVars, dbVars, broken, left, boundVars>>

Done == pc' = "idle" /\ read' = NothingRead /\ mem' = NoStatus

Doing(step) ==
    /\ pc = step
    /\ UNCHANGED <<cache, sourceVars, left, boundVars>>

At(step) == Doing(step) /\ UNCHANGED read

CreateSchemasAndRoles ==
    /\ At("roles")
    /\ rolesMade' = rolesMade \cup ({mem.host} \X read.wanted)
    /\ pc' = "user"
    /\ UNCHANGED <<obj, secretVars, users, grants, mem, queued, broken>>

NextUser(u) == IF u = "a" THEN "b" ELSE "a"

(* The user the reconcile makes or changes.                                *)
Account == <<mem.host, mem.user>>

(* The password of a user that exists is replaced in a call of its own.    *)
CreateUser ==
    /\ At("user")
    /\ LET u == NextUser(mem.user) IN
          /\ mem' = [mem EXCEPT !.user = u]
          /\ users' = users \cup {<<mem.host, u>>}
          /\ pc' = IF <<mem.host, u>> \in users THEN "password" ELSE "revoke"
    /\ UNCHANGED <<obj, secretVars, grants, rolesMade, queued, broken>>

UpdatePassword ==
    /\ At("password")
    /\ secretOk' = (secretOk /\ <<roleSecret.made, roleSecret.user>> # Account)
    /\ pc' = "revoke"
    /\ UNCHANGED <<obj, roleSecret, dbVars, mem, queued, broken>>

RevokeNothing ==
    /\ At("revoke")
    /\ pc' = "assign"
    /\ UNCHANGED <<obj, secretVars, dbVars, mem, queued, broken>>

(* The roles the user had are revoked, one by one ...                      *)
RevokeAccessToRole ==
    /\ At("revoke")
    /\ \/ \E r \in grants[Account] :
             /\ grants' = [grants EXCEPT ![Account] = @ \ {r}]
             /\ pc' = pc
       \/ /\ grants[Account] = {}
          /\ grants' = grants
          /\ pc' = "assign"
    /\ UNCHANGED <<obj, secretVars, users, rolesMade, mem, queued, broken>>

(* ... and those of the schema map granted.                                *)
AssignRoleToUser ==
    /\ At("assign")
    /\ \/ \E r \in read.wanted \ grants[Account] :
             /\ grants' = [grants EXCEPT ![Account] = @ \cup {r}]
             /\ pc' = pc
       \/ /\ read.wanted \subseteq grants[Account]
          /\ grants' = grants
          /\ pc' = "secret"
    /\ UNCHANGED <<obj, secretVars, users, rolesMade, mem, queued, broken>>

WriteUserSecret ==
    /\ At("secret")
    /\ roleSecret' = [src |-> 0, user |-> mem.user, host |-> HostOf(mem.src),
                      made |-> mem.host]
    /\ secretOk' = TRUE
    /\ mem' = [mem EXCEPT !.at = "recent"]
    /\ pc' = "status"
    /\ UNCHANGED <<obj, dbVars, queued, broken>>

CopyOf(v) == [src |-> v, user |-> NoUser, host |-> HostOf(v), made |-> HostOf(v)]

CopySourceSecret ==
    /\ At("copy")
    /\ roleSecret' = CopyOf(mem.src)
    /\ secretOk' = FALSE
    /\ mem' = [mem EXCEPT !.ver = mem.src]
    /\ pc' = "status"
    /\ UNCHANGED <<obj, dbVars, queued, broken>>

Conflict == read # obj

Stored == [obj EXCEPT !.user = mem.user, !.at = mem.at, !.ver = mem.ver]

(* A conflict is ignored: what the reconcile has done is not recorded.     *)
UpdateStatus ==
    /\ Doing("status")
    /\ obj' = IF Conflict THEN obj ELSE Stored
    /\ Done
    /\ UNCHANGED <<secretVars, dbVars, queued, broken>>

-----------------------------------------------------------------------------
(***************************************************************************)
(* deleteExternalResources.                                                *)
(***************************************************************************)
DropUser(u, step, next) ==
    /\ At(step)
    /\ users' = users \ {<<mem.host, u>>}
    /\ grants' = [grants EXCEPT ![<<mem.host, u>>] = {}]
    /\ pc' = next
    /\ UNCHANGED <<obj, secretVars, rolesMade, mem, queued, broken>>

DropUserA == DropUser("a", "dropA", "dropB")
DropUserAOnly == DropUser("a", "dropB", "finalize")
DropUserB == DropUser("b", "dropB", "finalize")

(* The failure to drop a user is only logged, and a database that cannot   *)
(* be reached is taken for deleted.                                        *)
DropFails ==
    /\ pc \in {"dropA", "dropB"} /\ MayFail
    /\ faults' = faults + 1
    /\ left' = TRUE
    /\ pc' \in IF pc = "dropA" THEN {"dropB", "finalize"} ELSE {"finalize"}
    /\ UNCHANGED <<storeVars, secretVars, dbVars, read, mem, queued, broken,
                   edits>>

RemoveFinalizer ==
    /\ Doing("finalize")
    /\ obj' = IF Conflict THEN obj ELSE [obj EXCEPT !.state = "gone"]
    /\ queued' = (queued \/ Conflict)
    /\ Done
    /\ UNCHANGED <<secretVars, dbVars, broken>>

-----------------------------------------------------------------------------
(* A reconcile that is cut short after it changed a password will only be  *)
(* made up for if the claim it acted on is still the current one.          *)
CutShort == broken \/ (Conflict /\ pc \in {"revoke", "assign", "secret"})

CallFailsForgotten ==
    /\ pc # "idle" /\ MayFail
    /\ faults' = faults + 1
    /\ broken' = CutShort
    /\ Done
    /\ UNCHANGED <<storeVars, secretVars, dbVars, queued, left, edits>>

CallFails ==
    /\ pc # "idle" /\ MayFail
    /\ faults' = faults + 1
    /\ broken' = CutShort
    /\ Done /\ queued' = TRUE
    /\ UNCHANGED <<storeVars, secretVars, dbVars, left, edits>>

(* When the secret cannot be written the status is stored with the error,  *)
(* the next user's name included; if that conflicts, nothing is retried.   *)
CopyFails ==
    /\ pc \in {"secret", "copy"} /\ MayFail
    /\ faults' = faults + 1
    /\ broken' = CutShort
    /\ obj' = IF Conflict THEN obj ELSE Stored
    /\ queued' = (queued \/ ~Conflict)
    /\ Done
    /\ UNCHANGED <<cache, sourceVars, secretVars, dbVars,
                   left, edits>>

Restart ==
    /\ pc # "idle" /\ MayFail
    /\ faults' = faults + 1
    /\ broken' = CutShort
    /\ Done /\ queued' = TRUE
    /\ cache' = obj /\ seen' = source
    /\ UNCHANGED <<obj, source, sourceExists, home, rerouted, secretVars, dbVars,
                   left, edits>>

-----------------------------------------------------------------------------
(***************************************************************************)
(* The caches, the clock, the owner and the source claim.                  *)
(***************************************************************************)
InformerSync ==
    /\ cache # obj
    /\ cache' = obj /\ queued' = TRUE
    /\ UNCHANGED <<obj, sourceVars, secretVars, dbVars, runVars,
                   broken, left, boundVars>>

SecretSync ==
    /\ seen # source
    /\ seen' = source
    /\ UNCHANGED <<obj, cache, source, sourceExists, home, rerouted, secretVars,
                   dbVars, runVars, queued, broken, left, boundVars>>

(* A write to the source claim, or the informer's resync.                  *)
Enqueue ==
    /\ pc = "idle" /\ ~queued /\ cache.state # "gone"
    /\ queued' = TRUE
    /\ UNCHANGED <<storeVars, secretVars, dbVars, runVars, broken, left, boundVars>>

Aged(c) == [c EXCEPT !.at = IF @ = "recent" THEN "old" ELSE @]

PeriodPasses ==
    /\ obj.at = "recent"
    /\ obj' = Aged(obj) /\ cache' = Aged(cache) /\ read' = Aged(read)
    /\ mem' = Aged(mem)
    /\ UNCHANGED <<sourceVars, secretVars, dbVars, pc, queued,
                   broken, left, boundVars>>

EditClaim(w) ==
    /\ obj.state = "live" /\ w # obj.wanted /\ MayEdit
    /\ edits' = edits + 1
    /\ obj' = [obj EXCEPT !.wanted = w, !.gen = @ + 1]
    /\ UNCHANGED <<cache, sourceVars, secretVars, dbVars, runVars,
                   queued, broken, left, faults>>

(* A deletion is refused until the role claim is labelled for it.          *)
DeleteClaim ==
    /\ obj.state = "live"
    /\ obj' = [obj EXCEPT !.state = "deleting"]
    /\ UNCHANGED <<cache, sourceVars, secretVars, dbVars, runVars,
                   queued, broken, left, boundVars>>

(* A rotation of the source, or the reroute of its migration.              *)
SourceSecretChanges ==
    /\ sourceExists /\ source <= MaxSource
    /\ source' = source + 1
    /\ rerouted' \in IF home = HostOf(source) THEN {rerouted} ELSE {rerouted, source + 1}
    /\ UNCHANGED <<obj, cache, seen, sourceExists, home, secretVars, dbVars, runVars,
                   queued, broken, left, boundVars>>

(* A reconcile reads the source claim once, when it starts: what happens   *)
(* to that claim during a reconcile might as well happen after it.  The    *)
(* source is to be migrated ...                                            *)
SourceMigrates ==
    /\ pc = "idle" /\ sourceExists /\ home = "old" /\ MayEdit
    /\ edits' = edits + 1
    /\ home' = "new"
    /\ UNCHANGED <<obj, cache, source, seen, sourceExists, rerouted, secretVars,
                   dbVars, runVars, queued, broken, left, faults>>

(* ... or is deleted.                                                      *)
SourceDeleted ==
    /\ pc = "idle" /\ sourceExists
    /\ sourceExists' = FALSE
    /\ UNCHANGED <<obj, cache, source, seen, home, rerouted, secretVars, dbVars,
                   runVars, queued, broken, left, boundVars>>

-----------------------------------------------------------------------------
ReconcileSteps ==
    \/ Reconcile
    \/ CreateSchemasAndRoles \/ CreateUser \/ UpdatePassword
    \/ RevokeAccessToRole \/ AssignRoleToUser
    \/ WriteUserSecret \/ CopySourceSecret \/ UpdateStatus
    \/ DropUserA \/ DropUserB \/ RemoveFinalizer

Next ==
    \/ ReconcileSteps
    \/ CallFails \/ CopyFails \/ DropFails \/ Restart
    \/ InformerSync \/ SecretSync \/ Enqueue \/ PeriodPasses
    \/ \E w \in Maps : EditClaim(w)
    \/ DeleteClaim \/ SourceSecretChanges \/ SourceMigrates \/ SourceDeleted

Spec == Init /\ [][Next]_vars

(* The queue's worker, the informers with their resync, and the clock.     *)
FairSpec ==
    /\ Spec
    /\ WF_vars(ReconcileSteps)
    /\ WF_vars(InformerSync) /\ WF_vars(SecretSync) /\ WF_vars(Enqueue)
    /\ WF_vars(PeriodPasses)

-----------------------------------------------------------------------------
(* The types of the variables; a user has only roles of its host.          *)
TypeOK ==
    /\ {obj, cache, read} \subseteq Claims
    /\ mem \in [user : Users \cup {NoUser}, at : Ages, ver : Nat, src : Nat, host : Hosts]
    /\ source \in Nat /\ seen \in 0..source
    /\ home \in Hosts /\ rerouted \in 0..source
    /\ roleSecret \in [src : Nat, user : Users \cup {NoUser, "missing"},
                       host : Hosts, made : Hosts]
    /\ {sourceExists, secretOk, queued, broken, left} \subseteq BOOLEAN
    /\ users \subseteq Accounts /\ rolesMade \subseteq Hosts \X Roles
    /\ grants \in [Accounts -> SUBSET Roles]
    /\ \A u \in Accounts : {u[1]} \X grants[u] \subseteq rolesMade
    /\ pc \in {"idle", "roles", "user", "password", "revoke", "assign", "secret",
               "copy", "status", "dropA", "dropB", "finalize"}
    /\ faults \in Nat /\ edits \in Nat

Settled == pc = "idle" /\ ~queued /\ cache = obj

HasUser == roleSecret.user \in Users

(* The secret was written while the source migrated: its user was made on  *)
(* a host other than the one it names.                                     *)
Crossed == roleSecret.host # roleSecret.made

(* When the controller is at rest, the user of the secret it handed out    *)
(* for a schema map can log in, whatever failed, conflicted or was edited  *)
(* on the way; the exceptions are a reconcile of an outdated copy of the   *)
(* claim that was cut short, and a rotation during the source's migration. *)
UserCanLogIn ==
    Settled /\ obj.state = "live" /\ obj.wanted # {} /\ HasUser /\ ~broken /\ ~Crossed =>
        secretOk /\ <<roleSecret.host, roleSecret.user>> \in users

(* A role claim that is gone leaves no user behind on the host its source  *)
(* asks for, unless the database refused to drop it or was not reached.    *)
GoneLeavesNoUser ==
    obj.state = "gone" => left \/ users \cap ({home} \X Users) = {}

(* A schema map was given and withdrawn again since the source's secret    *)
(* last changed: the copy made before the map was given counts as current. *)
Withdrawn == HasUser /\ obj.ver = source

(* A copied secret follows its source for good, through a migration too,   *)
(* however late the caches and whichever write of the copy or of the       *)
(* status fails.                                                           *)
CopyFollows ==
    <>[](obj.state = "live" /\ obj.wanted = {} /\ sourceExists =>
            roleSecret = CopyOf(source) \/ Withdrawn)

(* The schema map is obeyed: time and again the secret names the source's  *)
(* host and a user that has, there, the roles the map asks for and no      *)
(* other, also after the map has changed or the source has migrated; only  *)
(* while the source is migrating this cannot be said.                      *)
RolesFollow ==
    []<>(obj.state = "live" /\ obj.wanted # {} /\ sourceExists /\ home = HostOf(source) =>
            /\ HasUser /\ roleSecret.host = home
            /\ grants[<<home, roleSecret.user>>] = obj.wanted)

(* A role claim that is deleted goes, unless its source goes first.        *)
DeletionCompletes == obj.state = "deleting" ~> obj.state = "gone" \/ ~sourceExists
==============================================================================
