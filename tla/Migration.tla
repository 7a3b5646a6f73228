------------------------------ MODULE Migration ------------------------------
(***************************************************************************)
(* The migration of a claim from one PostgreSQL database ("source") to     *)
(* another ("target"), from the moment the claim's status says             *)
(* migration_in_progress until its active database is the target:          *)
(* reconcileMigrationInProgress with the state objects of pkg/pgctl, the   *)
(* two secrets it rewrites, the claim it records its progress in, and the  *)
(* databases and application pods it works beside.                         *)
(*                                                                         *)
(* One reconcile is a sequence of actions threaded by pc; whatever it has  *)
(* not written to the claim, to a secret or to a database is lost when it  *)
(* is interrupted.  A DSN is abstracted to the database it reaches.        *)
(***************************************************************************)
EXTENDS PgctlState, FiniteSets

CONSTANTS
    Mode,       \* "migration" (existing database) or "upgrade"
    Pods,       \* application pods
    RoleClaims, \* DbRoleClaims of the namespace, copies not counted
    Attached,   \* those of them whose source is this claim
    MaxRows,    \* bound on the rows ever inserted in the source
    MaxOwn,     \* bound on the rows the application inserts in the target
    SeqStep,    \* the 10000 of reset_target_sequence
    MaxFaults,  \* bound on interruptions of a reconcile
    MaxEdits,   \* bound on writes to the claim by anybody else
    DisturbReroute \* whether these may also hit the reroute of the secret

DBs == {"source", "target"}
None == "none"

PCs == {"idle", "fence", "configure", "execute", "next", "rewrite",
        "persist", "cleanup"}

ASSUME ModeAssumption == Mode \in {"migration", "upgrade"}
ASSUME BoundsAssumption ==
    /\ MaxRows \in Nat \ {0}
    /\ MaxOwn \in Nat
    /\ SeqStep \in Nat \ {0}
    /\ MaxFaults \in Nat
    /\ MaxEdits \in Nat
    /\ DisturbReroute \in BOOLEAN
ASSUME RoleClaimsAssumption == Attached \subseteq RoleClaims

VARIABLES
    claim,      \* the DatabaseClaim's status as the API server holds it
    cache,      \* the controller's informer copy of it
    pc,         \* where the running reconcile is
    mem,        \* the copy of the claim the running reconcile works on
    s,          \* the state object about to Execute
    nxt,        \* the state object the last Execute returned
    srcUser,    \* database reached by config.SourceDBUserDsn
    appSecret,  \* database named by the application's secret
    temp,       \* database named by source_dsn of the temporary secret
    copies,     \* role claims copied for the migrated claim
    skipped,    \* role claims this reconcile passed over, their lookup failed
    pub,        \* the publication exists in the source
    sub,        \* the subscription in the target
    relReady,   \* every table of the subscription has finished its copy
    schema,     \* the target holds the application's tables
    superuser,  \* the target role was granted superuser
    srcOpen,    \* the application's role may write to the source
    srcLast,    \* last value of the source's sequence: its rows are 1..srcLast
    applied,    \* rows 1..applied have been replicated
    tgtLast,    \* last value of the target's sequence
    own,        \* ids of the rows the application inserted in the target
    resetAt,    \* the sequence value the last reset started from
    podDb,      \* the database each pod is connected to
    faults, edits

claimVars == <<claim, cache>>
runVars   == <<pc, mem, s, nxt, srcUser>>
k8sVars   == <<appSecret, temp, copies, skipped>>
replVars  == <<pub, sub, relReady, schema, superuser, srcOpen>>
rowVars   == <<srcLast, applied, tgtLast, own, resetAt>>
envVars   == <<podDb, faults, edits>>
vars == <<claimVars, runVars, k8sVars, replVars, rowVars, envVars>>

(***************************************************************************)
(* The status fields a migration touches: MigrationState, which database   *)
(* ActiveDB is, which OldDB is if any, and resourceVersion.                *)
(***************************************************************************)
Claim ==
    [state : StateEnum, active : DBs, old : DBs \cup {None}, rv : Nat]

InitialClaim ==
    [state |-> S_MigrationInProgress, active |-> "source", old |-> None,
     rv |-> 0]

(***************************************************************************)
(* reconcileMigrateToNewDB has just recorded migration_in_progress: the    *)
(* new database is provisioned, the application uses the source, and the   *)
(* source DSN has been put away in the temporary secret.                   *)
(***************************************************************************)
Init ==
    /\ claim = InitialClaim /\ cache = InitialClaim
    /\ pc = "idle" /\ mem = InitialClaim
    /\ s = S_Initial /\ nxt = S_Initial /\ srcUser = "source"
    /\ appSecret = "source" /\ temp = "source" /\ copies = {} /\ skipped = {}
    /\ pub = FALSE /\ sub = None /\ relReady = FALSE
    /\ schema = FALSE /\ superuser = FALSE /\ srcOpen = TRUE
    /\ srcLast \in 1..MaxRows
    /\ applied = 0 /\ tgtLast = 1 /\ own = {} /\ resetAt = 0
    /\ podDb = [p \in Pods |-> "source"]
    /\ faults = 0 /\ edits = 0

-----------------------------------------------------------------------------
(***************************************************************************)
(* Entering a reconcile.                                                   *)
(***************************************************************************)

(* The claim is read from the informer's cache, which may be behind; a     *)
(* state that is neither initial nor completed selects the in-progress     *)
(* modes.                                                                  *)
Reconcile ==
    /\ pc = "idle"
    /\ cache.state # S_Completed
    /\ mem' = cache
    /\ pc' = "fence"
    /\ UNCHANGED <<claimVars, s, nxt, srcUser, k8sVars, replVars, rowVars, envVars>>

(* Status().Update succeeds only on the current resourceVersion.           *)
Current == mem.rv = claim.rv

FenceUnchecked ==
    /\ pc = "fence"
    /\ pc' = "configure"
    /\ UNCHANGED <<claimVars, mem, s, nxt, srcUser, k8sVars, replVars, rowVars, envVars>>

(* executeDbClaimRequest writes the status back before it does anything    *)
(* else: a reconcile that read a stale claim ends here.                    *)
Fence ==
    /\ pc = "fence"
    /\ Current
    /\ pc' = "configure"
    /\ UNCHANGED <<claimVars, mem, s, nxt, srcUser, k8sVars, replVars, rowVars, envVars>>

getSrcAppDsnAlwaysFromApp(state) == appSecret

(* Which secret the source DSN is read from depends on the recorded state. *)
getSrcAppDsnFromSecret(state) ==
    IF state > S_RerouteTargetSecret THEN temp ELSE appSecret

AdminReachesAny(dsn) == dsn \in DBs

(* An upgrade reaches the source's admin account at the host of the source *)
(* DSN with the master password of the active database; a migration uses   *)
(* the DSN of the specification.                                           *)
AdminReaches(dsn) ==
    \/ Mode = "migration" /\ dsn \in DBs
    \/ Mode = "upgrade" /\ dsn = "source"

Configure ==
    /\ pc = "configure"
    /\ AdminReaches(getSrcAppDsnFromSecret(mem.state))
    /\ srcUser' = getSrcAppDsnFromSecret(mem.state)
    /\ s' = GetReplicatorState(mem.state)
    /\ skipped' = {}
    /\ pc' = "execute"
    /\ UNCHANGED <<claimVars, mem, nxt, appSecret, temp, copies, replVars, rowVars,
                   envVars>>

ConfigureFails ==
    /\ pc = "configure"
    /\ ~AdminReaches(getSrcAppDsnFromSecret(mem.state))
    /\ pc' = "idle"
    /\ UNCHANGED <<claimVars, mem, s, nxt, srcUser, k8sVars, replVars, rowVars, envVars>>

-----------------------------------------------------------------------------
(***************************************************************************)
(* The state objects: one Execute each.  Executes(here, there) is the      *)
(* control part of an Execute that succeeds, Retries that of one that asks *)
(* to be tried again by a later reconcile.                                 *)
(***************************************************************************)
Executes(here, there) ==
    /\ pc = "execute"
    /\ s = here
    /\ nxt' = there
    /\ pc' = "next"
    /\ UNCHANGED <<claimVars, mem, s, srcUser, k8sVars, envVars>>

Retries(here) ==
    /\ pc = "execute"
    /\ s = here
    /\ pc' = "idle"
    /\ UNCHANGED <<claimVars, mem, s, nxt, srcUser, k8sVars, replVars, rowVars, envVars>>

InitialState ==
    /\ Executes(S_Initial, S_ValidateConnection)
    /\ UNCHANGED <<replVars, rowVars>>

ValidateConnectionState ==
    /\ Executes(S_ValidateConnection, S_CreatePublication)
    /\ UNCHANGED <<replVars, rowVars>>

CreatePublicationState ==
    /\ Executes(S_CreatePublication, S_CopySchema)
    /\ pub' = TRUE
    /\ UNCHANGED <<sub, relReady, schema, superuser, srcOpen, rowVars>>

CopySchemaNoRevoke ==
    /\ Executes(S_CopySchema, S_CreateSubscription)
    /\ ~schema
    /\ schema' = TRUE
    /\ superuser' = TRUE
    /\ UNCHANGED <<pub, sub, relReady, srcOpen, rowVars>>

(* copy_schema grants superuser to the target role, restores the source's  *)
(* schema and revokes the grant.  psql stops at the first object that      *)
(* already exists, so the restore succeeds only on an empty target.        *)
CopySchemaState ==
    /\ Executes(S_CopySchema, S_CreateSubscription)
    /\ ~schema
    /\ schema' = TRUE
    /\ superuser' = FALSE
    /\ UNCHANGED <<pub, sub, relReady, srcOpen, rowVars>>

(* A failed restore drops every schema of the target and returns with the  *)
(* grant still in place.                                                   *)
CopySchemaRestoreFails ==
    /\ pc = "execute" /\ s = S_CopySchema
    /\ schema
    /\ schema' = FALSE
    /\ superuser' = TRUE
    /\ pc' = "idle"
    /\ UNCHANGED <<claimVars, mem, s, nxt, srcUser, k8sVars, pub, sub, relReady,
                   srcOpen, rowVars, envVars>>

(* An interruption between the grant and the revoke: the restore, or the   *)
(* drop after it, may or may not have happened.                            *)
CopySchemaInterrupted ==
    /\ pc = "execute" /\ s = S_CopySchema
    /\ faults < MaxFaults
    /\ schema' \in BOOLEAN
    /\ superuser' = TRUE
    /\ pc' = "idle"
    /\ faults' = faults + 1
    /\ UNCHANGED <<claimVars, mem, s, nxt, srcUser, k8sVars, pub, sub, relReady,
                   srcOpen, rowVars, podDb, edits>>

CreateSubscriptionState ==
    /\ Executes(S_CreateSubscription, S_EnableSubscription)
    /\ sub' = IF sub = None THEN "disabled" ELSE sub
    /\ UNCHANGED <<pub, relReady, schema, superuser, srcOpen, rowVars>>

EnableSubscriptionState ==
    /\ Executes(S_EnableSubscription, S_CutOverReadinessCheck)
    /\ sub # None
    /\ sub' = "enabled"
    /\ UNCHANGED <<pub, relReady, schema, superuser, srcOpen, rowVars>>

AlwaysReady == TRUE

(* The subscription has no table that is still being copied.               *)
CutOverReady == sub = None \/ relReady

CutOverReadinessCheckState ==
    /\ Executes(S_CutOverReadinessCheck, S_ResetTargetSequence)
    /\ CutOverReady
    /\ UNCHANGED <<replVars, rowVars>>

CutOverReadinessCheckRetry ==
    /\ ~CutOverReady
    /\ Retries(S_CutOverReadinessCheck)

StepBehind(v) == v - SeqStep

NearestStep(v) == ((v + SeqStep \div 2) \div SeqStep) * SeqStep

(* ROUND(last_value + 10000, -4), with 10000 = SeqStep.                    *)
ResetValue(v) == ((v + SeqStep + SeqStep \div 2) \div SeqStep) * SeqStep

LastValue(db) == IF db = "source" THEN srcLast ELSE tgtLast

ResetTargetSequenceState ==
    /\ Executes(S_ResetTargetSequence, S_RerouteTargetSecret)
    /\ tgtLast' = ResetValue(LastValue(srcUser))
    /\ resetAt' = LastValue(srcUser)
    /\ UNCHANGED <<replVars, srcLast, applied, own>>

RerouteTargetSecretState ==
    /\ Executes(S_RerouteTargetSecret, S_WaitToDisableSource)
    /\ UNCHANGED <<replVars, rowVars>>

WaitToDisableSourceState ==
    /\ Executes(S_WaitToDisableSource, S_DisableSourceAccess)
    /\ UNCHANGED <<replVars, rowVars>>

DisableSourceAccessState ==
    /\ Executes(S_DisableSourceAccess, S_ValidateMigrationStatus)
    /\ srcOpen' = FALSE
    /\ UNCHANGED <<pub, sub, relReady, schema, superuser, rowVars>>

RowCount(db) == IF db = "source" THEN srcLast ELSE applied + Cardinality(own)

NoCountCheck == TRUE

(* count(star) of the target's table is not below that of the source's.    *)
CountsAgree == RowCount("target") >= RowCount(srcUser)

ValidateMigrationStatusState ==
    /\ Executes(S_ValidateMigrationStatus, S_DisableSubscription)
    /\ CountsAgree
    /\ UNCHANGED <<replVars, rowVars>>

ValidateMigrationStatusRetry ==
    /\ ~CountsAgree
    /\ Retries(S_ValidateMigrationStatus)

DisableSubscriptionState ==
    /\ Executes(S_DisableSubscription, S_DeleteSubscription)
    /\ sub' = IF sub = None THEN None ELSE "disabled"
    /\ UNCHANGED <<pub, relReady, schema, superuser, srcOpen, rowVars>>

DeleteSubscriptionState ==
    /\ Executes(S_DeleteSubscription, S_DeletePublication)
    /\ sub' = None
    /\ relReady' = FALSE
    /\ UNCHANGED <<pub, schema, superuser, srcOpen, rowVars>>

DeletePublicationState ==
    /\ Executes(S_DeletePublication, S_Completed)
    /\ pub' = FALSE
    /\ UNCHANGED <<sub, relReady, schema, superuser, srcOpen, rowVars>>

Execute ==
    \/ InitialState \/ ValidateConnectionState \/ CreatePublicationState
    \/ CopySchemaState \/ CopySchemaRestoreFails
    \/ CreateSubscriptionState \/ EnableSubscriptionState
    \/ CutOverReadinessCheckState \/ CutOverReadinessCheckRetry
    \/ ResetTargetSequenceState \/ RerouteTargetSecretState
    \/ WaitToDisableSourceState \/ DisableSourceAccessState
    \/ ValidateMigrationStatusState \/ ValidateMigrationStatusRetry
    \/ DisableSubscriptionState \/ DeleteSubscriptionState
    \/ DeletePublicationState

-----------------------------------------------------------------------------
(***************************************************************************)
(* The switch on the state Execute returned.                               *)
(***************************************************************************)

(* Status().Update: the claim takes the reconcile's copy, and the copy the *)
(* new resourceVersion.                                                    *)
UpdateStatus(c) ==
    /\ Current
    /\ claim' = [c EXCEPT !.rv = claim.rv + 1]
    /\ mem' = claim'
    /\ UNCHANGED cache

(* Any other next state is recorded and executed in the same reconcile,    *)
(* except that the one before the source is disabled waits for a later     *)
(* reconcile.                                                              *)
PersistState ==
    /\ \/ pc = "next" /\ nxt \notin {S_Completed, S_RerouteTargetSecret}
       \/ pc = "persist"
    /\ UpdateStatus([mem EXCEPT !.state = nxt])
    /\ s' = nxt
    /\ pc' = IF nxt = S_WaitToDisableSource THEN "idle" ELSE "execute"
    /\ UNCHANGED <<nxt, srcUser, k8sVars, replVars, rowVars, envVars>>

StoreTargetDsn ==
    /\ pc = "next" /\ nxt = S_RerouteTargetSecret
    /\ temp' = "target"
    /\ pc' = "rewrite"
    /\ UNCHANGED <<claimVars, mem, s, nxt, srcUser, appSecret, copies, skipped,
                   replVars, rowVars, envVars>>

(* rerouteTargetSecret: first the source DSN goes to the temporary secret, *)
(* then the application's secret is overwritten with the target's.         *)
StoreSourceDsn ==
    /\ pc = "next" /\ nxt = S_RerouteTargetSecret
    /\ temp' = srcUser
    /\ pc' = "rewrite"
    /\ UNCHANGED <<claimVars, mem, s, nxt, srcUser, appSecret, copies, skipped,
                   replVars, rowVars, envVars>>

RewriteAppSecret ==
    /\ pc = "rewrite"
    /\ appSecret' = "target"
    /\ pc' = "persist"
    /\ UNCHANGED <<claimVars, mem, s, nxt, srcUser, temp, copies, skipped,
                   replVars, rowVars, envVars>>

(* Before completing, every role claim of the namespace that has no copy   *)
(* yet is created again for the migrated claim, one after another.         *)
CopyRoleClaim(rc) ==
    /\ pc = "next" /\ nxt = S_Completed
    /\ rc \notin copies \cup skipped
    /\ copies' = copies \cup {rc}
    /\ UNCHANGED <<claimVars, runVars, appSecret, temp, skipped, replVars, rowVars,
                   envVars>>

(* A lookup that fails for any reason but "not found" is taken for an      *)
(* existing copy.                                                          *)
SkipRoleClaim(rc) ==
    /\ pc = "next" /\ nxt = S_Completed
    /\ rc \notin copies \cup skipped
    /\ faults < MaxFaults
    /\ skipped' = skipped \cup {rc}
    /\ faults' = faults + 1
    /\ UNCHANGED <<claimVars, runVars, appSecret, temp, copies, replVars, rowVars,
                   podDb, edits>>

(* The last write: completed, the target active, and a source that the     *)
(* controller provisioned handed to post-migration.                        *)
CompletedClaim ==
    [state  |-> S_Completed,
     active |-> "target",
     old    |-> IF Mode = "upgrade" THEN mem.active ELSE mem.old,
     rv     |-> mem.rv]

CompleteMigrationAfterOne ==
    /\ pc = "next" /\ nxt = S_Completed
    /\ copies \cup skipped # {}
    /\ UpdateStatus(CompletedClaim)
    /\ pc' = "cleanup"
    /\ UNCHANGED <<s, nxt, srcUser, k8sVars, replVars, rowVars, envVars>>

CompleteMigration ==
    /\ pc = "next" /\ nxt = S_Completed
    /\ RoleClaims \subseteq copies \cup skipped
    /\ UpdateStatus(CompletedClaim)
    /\ pc' = "cleanup"
    /\ UNCHANGED <<s, nxt, srcUser, k8sVars, replVars, rowVars, envVars>>

DeleteTempSecret ==
    /\ pc = "cleanup"
    /\ temp' = None
    /\ pc' = "idle"
    /\ UNCHANGED <<claimVars, mem, s, nxt, srcUser, appSecret, copies, skipped,
                   replVars, rowVars, envVars>>

(* A write on an old resourceVersion is refused, and so is SetError's.     *)
StatusConflict ==
    /\ \/ pc \in {"fence", "persist"}
       \/ pc = "next" /\ nxt \notin {S_RerouteTargetSecret, S_Completed}
       \/ pc = "next" /\ nxt = S_Completed /\ RoleClaims \subseteq copies \cup skipped
    /\ ~Current
    /\ pc' = "idle"
    /\ UNCHANGED <<claimVars, mem, s, nxt, srcUser, k8sVars, replVars, rowVars, envVars>>

(* The application's secret names the target, and the claim does not yet   *)
(* record a state past the reroute.                                        *)
Unrecorded ==
    /\ appSecret = "target"
    /\ GetReplicatorState(claim.state) <= S_RerouteTargetSecret

(* The reconcile is past the fence and in, or about to resume, the         *)
(* iteration that rewrites the secret.                                     *)
Rerouting ==
    /\ pc \in {"configure", "execute", "next", "rewrite", "persist"}
    /\ mem.state = S_ResetTargetSequence

(* A crash of the controller, or a failed call that makes the reconcile    *)
(* return through SetError: the rest of the reconcile does not happen.     *)
Interrupt ==
    /\ pc # "idle" /\ faults < MaxFaults
    /\ Unrecorded => DisturbReroute
    /\ pc' = "idle"
    /\ faults' = faults + 1
    /\ UNCHANGED <<claimVars, mem, s, nxt, srcUser, k8sVars, replVars, rowVars,
                   podDb, edits>>

Controller ==
    \/ Reconcile \/ Fence \/ Configure \/ ConfigureFails \/ Execute
    \/ PersistState \/ StoreSourceDsn \/ RewriteAppSecret
    \/ \E rc \in RoleClaims : CopyRoleClaim(rc)
    \/ CompleteMigration \/ DeleteTempSecret \/ StatusConflict

-----------------------------------------------------------------------------
(***************************************************************************)
(* What goes on beside the controller.                                     *)
(***************************************************************************)

(* The informer catches up with the API server.                            *)
InformerSync ==
    /\ cache # claim
    /\ cache' = claim
    /\ UNCHANGED <<claim, runVars, k8sVars, replVars, rowVars, envVars>>

(* Somebody else writes the claim (a label, an annotation): only the       *)
(* resourceVersion changes.                                                *)
ForeignEdit ==
    /\ edits < MaxEdits
    /\ Unrecorded \/ Rerouting => DisturbReroute
    /\ claim' = [claim EXCEPT !.rv = @ + 1]
    /\ edits' = edits + 1
    /\ UNCHANGED <<cache, runVars, k8sVars, replVars, rowVars, podDb, faults>>

(* PostgreSQL copies the tables of an enabled subscription once ...        *)
SyncTables ==
    /\ sub = "enabled" /\ pub /\ ~relReady
    /\ relReady' = TRUE
    /\ applied' = srcLast
    /\ UNCHANGED <<claimVars, runVars, k8sVars, pub, sub, schema, superuser,
                   srcOpen, srcLast, tgtLast, own, resetAt, envVars>>

(* ... and from then on applies the source's rows one by one; a row whose  *)
(* id the target already holds stops it.                                   *)
ApplyRow ==
    /\ sub = "enabled" /\ pub /\ relReady
    /\ applied < srcLast /\ applied + 1 \notin own
    /\ applied' = applied + 1
    /\ UNCHANGED <<claimVars, runVars, k8sVars, replVars, srcLast, tgtLast, own,
                   resetAt, envVars>>

(* A pod reconnects with the DSN its secret holds now.                     *)
PodReload(p) ==
    /\ podDb' = [podDb EXCEPT ![p] = appSecret]
    /\ UNCHANGED <<claimVars, runVars, k8sVars, replVars, rowVars, faults, edits>>

InsertSource(p) ==
    /\ podDb[p] = "source" /\ srcOpen /\ srcLast < MaxRows
    /\ srcLast' = srcLast + 1
    /\ UNCHANGED <<claimVars, runVars, k8sVars, replVars, applied, tgtLast, own,
                   resetAt, envVars>>

(* The id comes from the target's sequence; an id already replicated makes *)
(* the insert fail and the sequence advance.                               *)
InsertTarget(p) ==
    /\ podDb[p] = "target" /\ schema /\ Cardinality(own) < MaxOwn
    /\ tgtLast' = tgtLast + 1
    /\ own' = IF tgtLast + 1 <= applied THEN own ELSE own \cup {tgtLast + 1}
    /\ UNCHANGED <<claimVars, runVars, k8sVars, replVars, srcLast, applied,
                   resetAt, envVars>>

Environment ==
    \/ InformerSync \/ ForeignEdit \/ SyncTables \/ ApplyRow
    \/ \E p \in Pods : PodReload(p) \/ InsertSource(p) \/ InsertTarget(p)

Next ==
    \/ Controller \/ CopySchemaInterrupted \/ Interrupt \/ Environment
    \/ \E rc \in RoleClaims : SkipRoleClaim(rc)

Spec == Init /\ [][Next]_vars

(***************************************************************************)
(* A requeued reconcile is eventually run to its end, the informer's watch *)
(* delivers, and PostgreSQL's workers make progress.  Nothing forces a pod *)
(* to insert, nor anybody to edit the claim.                               *)
(***************************************************************************)
Fairness ==
    /\ WF_vars(Controller)
    /\ WF_vars(InformerSync)
    /\ WF_vars(SyncTables)
    /\ WF_vars(ApplyRow)

FairSpec == Spec /\ Fairness

-----------------------------------------------------------------------------
(* Every variable has its type.                                            *)
TypeOK ==
    /\ claim \in Claim /\ cache \in Claim /\ mem \in Claim
    /\ pc \in PCs
    /\ s \in StateEnum /\ nxt \in StateEnum
    /\ srcUser \in DBs
    /\ appSecret \in DBs /\ temp \in DBs \cup {None}
    /\ copies \in SUBSET RoleClaims /\ skipped \in SUBSET RoleClaims
    /\ pub \in BOOLEAN /\ sub \in {None, "disabled", "enabled"}
    /\ relReady \in BOOLEAN /\ schema \in BOOLEAN /\ superuser \in BOOLEAN
    /\ srcOpen \in BOOLEAN
    /\ srcLast \in Nat /\ applied \in Nat /\ tgtLast \in Nat /\ resetAt \in Nat
    /\ own \in SUBSET Nat
    /\ podDb \in [Pods -> DBs]
    /\ faults \in Nat /\ edits \in Nat

(* The step a reconcile is executing is the step the API server's copy of  *)
(* the claim records, however far behind the informer's cache was when the *)
(* reconcile began: the status write at the top of executeDbClaimRequest   *)
(* fences stale reads.                                                     *)
ActsOnRecordedState ==
    /\ pc \in {"configure", "execute", "next", "rewrite", "persist"}
         => mem.state = claim.state
    /\ pc \in {"execute", "next", "rewrite", "persist"}
         => s = GetReplicatorState(claim.state)

(* The temporary superuser grant of copy_schema does not outlive it: once  *)
(* a later state is recorded the target role is no superuser, whatever     *)
(* crashes and failed restores came before.                                *)
SuperuserIsTemporary ==
    GetReplicatorState(claim.state) > S_CopySchema => ~superuser

(* A restore failure drops every schema of the target; that never happens  *)
(* once the target holds a row, replicated or inserted by the application. *)
PopulatedTargetNeverDropped ==
    [][schema /\ ~schema' => applied = 0 /\ own = {}]_vars

(* While a migration that has rewritten the application's secret is still  *)
(* running, the source DSN survives in the temporary secret: the later     *)
(* steps have nowhere else to read it from.                                *)
SourceDsnPreserved ==
    appSecret = "target" /\ claim.state # S_Completed => temp = "source"

(* Once the row counts have been accepted, the source's rows missing from  *)
(* the target are no more than the rows the application has inserted in    *)
(* the target by itself: the counts cannot tell one from the other.        *)
LossBoundedByTargetWrites ==
    GetReplicatorState(claim.state) >= S_DisableSubscription
        => srcLast <= applied + Cardinality(own)

(* The ids the target hands out never meet the source's, as long as the    *)
(* source has advanced by at most half of the rounding step of             *)
(* reset_target_sequence since the reset.                                  *)
NoIdCollision ==
    srcLast <= resetAt + SeqStep \div 2 => \A id \in own : id > srcLast

(* The claim is declared migrated only with a copy of every role claim     *)
(* attached to it, however often the copying was interrupted; the only     *)
(* ones missing are those whose lookup failed in the reconcile that        *)
(* declared it.                                                            *)
RoleClaimsFollow ==
    claim.active = "target" => Attached \subseteq copies \cup skipped

(* Replication as Cutover sees it.                                         *)
Link ==
    IF sub = "enabled" /\ relReady THEN "streaming"
    ELSE IF srcOpen THEN "off" ELSE "cut"

Promise == INSTANCE Cutover
    WITH serving <- appSecret, srcOpen <- srcOpen, link <- Link,
         done <- (claim.active = "target")

(* The migration keeps the promises of Cutover: the application is sent to *)
(* the target only while it is a live replica, the source is closed only   *)
(* afterwards, replication is cut only once the source is closed, and the  *)
(* claim says so only at the end -- through crashes, conflicts and stale   *)
(* caches.                                                                 *)
KeepsCutoverPromise == Promise!Spec

(* The migration completes.                                                *)
MigrationCompletes == <>(claim.state = S_Completed)
=============================================================================
