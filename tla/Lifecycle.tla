------------------------------ MODULE Lifecycle ------------------------------
(***************************************************************************)
(* A claim from its creation to its deletion: the reconciles that create   *)
(* its hosts and databases, move it from one to the next and take them     *)
(* down again, while the claim is edited and deleted by its owner.         *)
(*                                                                         *)
(* Every path of Reconcile but one returns an error or a time to requeue,  *)
(* so a reconcile may start whenever none is running.  The copying of the  *)
(* data is module Migration's subject, the users are Credentials'.         *)
(***************************************************************************)
EXTENDS ClaimMode, FiniteSets

CONSTANTS
    Requests,   \* the specs the claim is given
    MaxFaults,  \* bound on calls that fail and restarts of the controller
    MaxEdits    \* bound on edits of the spec

ASSUME RequestsAssumption == Requests \subseteq Specs /\ Requests # {}
ASSUME BoundsAssumption == MaxFaults \in Nat /\ MaxEdits \in Nat

VARIABLES
    spec,       \* the claim's spec
    status,     \* the claim's status
    claim,      \* "new" until the finalizer is added; "live", "deleting", "gone"
    pc,         \* where the running reconcile is
    mem,        \* the reconcile's copy of the status ...
    mode,       \* ... its mode ...
    req,        \* ... the host its parameters name ...
    tempSecret, \* ... and whether it made a password
    outdated,   \* the claim was edited since the reconcile read it
    cr,         \* the host's cloud resources
    database,   \* the claim's database on each host
    targetPassword, \* the temporary secret holds the target's password
    secretHost, \* the database the application's secret names
    source,     \* the database the temporary secret calls the source
    wrote,      \* the application has written a row
    holders,    \* the databases that hold it
    subscribed, \* the hosts that subscribe to the source's publication
    strayed,    \* a migration was left for the database it had come from, or
                \* taken on for a host that is not its target
    faults, edits

claimVars == <<spec, status, claim>>
runVars   == <<mem, mode, req, tempSecret>>
dataVars  == <<wrote, holders, subscribed>>
worldVars == <<cr, database, targetPassword, secretHost, source, dataVars>>
boundVars == <<faults, edits>>
vars == <<claimVars, pc, runVars, outdated, worldVars, strayed, boundVars>>

(* Of DatabaseClaimStatus; "user" is whether NewDB.UserUpdatedAt is set.   *)
Status == [active : DbStatus, new : DbStatus, old : DbStatus, user : BOOLEAN,
           migration : MigrationStates]
NoStatus == [active |-> NoDb, new |-> NoDb, old |-> NoDb, user |-> FALSE,
             migration |-> ""]

Init ==
    /\ spec \in Requests
    /\ status = NoStatus /\ claim = "new"
    /\ pc = "idle"
    /\ mem = NoStatus /\ mode = "M_NotSupported" /\ req = NoHost
    /\ tempSecret = FALSE /\ outdated = FALSE
    /\ cr = [h \in Hosts |-> "absent"]
    /\ database = [h \in Hosts |-> "none"]
    /\ targetPassword = FALSE
    /\ secretHost = NoHost /\ source = NoHost
    /\ wrote = FALSE /\ holders = {} /\ subscribed = {} /\ strayed = FALSE
    /\ faults = 0 /\ edits = 0

-----------------------------------------------------------------------------
(***************************************************************************)
(* The start of a reconcile.                                               *)
(***************************************************************************)
Start(next) ==
    /\ pc = "idle"
    /\ pc' = next
    /\ req' = HostParams(spec, status.active)
    /\ tempSecret' = FALSE
    /\ outdated' = FALSE
    /\ UNCHANGED <<spec, worldVars, boundVars>>

MigrationPending == status.migration \notin {"", "completed"}

FirstStep(m) ==
    CASE m \in {"M_UseNewDB", "M_MigrateExistingToNewDB", "M_InitiateDBUpgrade"} -> "host"
      [] m \in {"M_MigrationInProgress", "M_UpgradeDBInProgress"} -> "migrate"
      [] m = "M_UseExistingDB" -> "existing"
      [] m = "M_PostMigrationInProgress" -> "post"
      [] OTHER -> "idle"

(* reconcileMigrateToNewDB begins by recording S_Initial.                  *)
Initiate(m, st) ==
    IF m \in {"M_MigrateExistingToNewDB", "M_InitiateDBUpgrade"} /\ st.migration = ""
    THEN [st EXCEPT !.migration = "initial"]
    ELSE st

(* A claim that is being deleted is only executed while a migration of it  *)
(* is pending.  The status is written before the mode is acted on.         *)
executeDbClaimRequest ==
    /\ claim \in {"new", "live"} \/ (claim = "deleting" /\ MigrationPending)
    /\ LET marked == MarkUpgrade(spec, status)
           m == getMode(spec, marked) IN
       /\ Start(FirstStep(m))
       /\ mode' = m
       /\ mem' = Initiate(m, marked)
       /\ strayed' = (strayed \/ (m = "M_UseNewDB" /\ status.migration \in Migrating))
    /\ status' = mem'
    /\ claim' = IF claim = "new" THEN "live" ELSE claim

StartDeletion ==
    /\ claim = "deleting" /\ ~MigrationPending
    /\ Start("delete")
    /\ mem' = status
    /\ UNCHANGED <<status, claim, mode, strayed>>

Continue(here, there) ==
    /\ pc = here
    /\ pc' = there
    /\ UNCHANGED <<spec, claim, mode, req, outdated, strayed, boundVars>>

-----------------------------------------------------------------------------
(***************************************************************************)
(* reconcileNewDB and what follows it.                                     *)
(***************************************************************************)
manageCloudHost ==
    /\ pc = "host" /\ cr[req] # "deleting"
    /\ ~outdated
    /\ Continue("host", IF cr[req] = "ready" THEN "database" ELSE "idle")
    /\ cr' = [cr EXCEPT ![req] = IF @ = "absent" THEN "creating" ELSE @]
    /\ UNCHANGED <<status, mem, tempSecret, database, targetPassword, secretHost, source,
                   dataVars>>

(* A database that was managed before is no target of a migration.         *)
PreviouslyManaged == mem.migration = "initial" /\ database[req] = "managed"

createDatabaseAndExtensions ==
    /\ Continue("database", "users")
    /\ ~PreviouslyManaged
    /\ database' = [database EXCEPT ![req] = IF @ = "none" THEN "created" ELSE @]
    /\ mem' = [mem EXCEPT !.new.host = req]
    /\ UNCHANGED <<status, tempSecret, cr, targetPassword, secretHost, source,
                   dataVars>>

(* A password is made for the first user, and when the active one is due.  *)
manageUserAndExtensions ==
    /\ Continue("users", "functions")
    /\ tempSecret' \in {TRUE, ~mem.user}
    /\ mem' = [mem EXCEPT !.user = TRUE]
    /\ UNCHANGED <<status, worldVars>>

(* The system functions live in the schema that marks a managed database.  *)
ManageSystemFunctions ==
    /\ Continue("functions", "secret")
    /\ database' = [database EXCEPT ![req] = "managed"]
    /\ UNCHANGED <<status, mem, tempSecret, cr, targetPassword, secretHost, source,
                   dataVars>>

createOrUpdateSecret ==
    /\ mode = "M_UseNewDB"
    /\ Continue("secret", "finish")
    /\ secretHost' = IF tempSecret THEN req ELSE secretHost
    /\ UNCHANGED <<status, mem, tempSecret, cr, database, targetPassword, source, dataVars>>

(* There is nothing to migrate from without the application's secret.      *)
setTargetPasswordInTempSecret ==
    /\ mode # "M_UseNewDB" /\ secretHost # NoHost
    /\ Continue("secret", "finish")
    /\ targetPassword' = (targetPassword \/ tempSecret)
    /\ UNCHANGED <<status, mem, tempSecret, cr, database, secretHost, source,
                   dataVars>>

ActiveDBSuccessReconcile ==
    /\ mode = "M_UseNewDB"
    /\ ~outdated
    /\ Continue("finish", "idle")
    /\ status' = [mem EXCEPT !.active = [state |-> "ready", host |-> mem.new.host],
                             !.new = NoDb, !.user = FALSE]
    /\ UNCHANGED <<mem, tempSecret, worldVars>>

MigrationInProgressStatus ==
    /\ mode # "M_UseNewDB"
    /\ ~outdated
    /\ Continue("finish", "idle")
    /\ status' = [mem EXCEPT !.migration = "copying"]
    /\ UNCHANGED <<mem, tempSecret, worldVars>>

(***************************************************************************)
(* reconcileUseExistingDB, and the activation after it.                    *)
(***************************************************************************)
(* The user was updated recently: nothing is done, not even a requeue.     *)
SkipExistingDB ==
    /\ mem.active.host = External
    /\ Continue("existing", "idle")
    /\ UNCHANGED <<status, mem, tempSecret, worldVars>>

(* NewDB is the active database if that is the existing one.  A password   *)
(* is made for a user NewDB does not record yet, and when it is due.       *)
ManageExistingUser ==
    /\ ~outdated
    /\ Continue("existing", "adopt")
    /\ tempSecret' = (mem.active.host = External \/ ~mem.user)
    /\ mem' = [mem EXCEPT !.new = [state |-> "using-existing-db", host |-> External],
                          !.user = TRUE]
    /\ status' = mem'
    /\ UNCHANGED worldVars

WriteExistingSecret ==
    /\ Continue("adopt", "adopted")
    /\ secretHost' = IF tempSecret THEN External ELSE secretHost
    /\ UNCHANGED <<status, mem, tempSecret, cr, database, targetPassword, source, dataVars>>

ActivateExistingDB ==
    /\ ~outdated
    /\ Continue("adopted", "idle")
    /\ status' = [mem EXCEPT !.active = mem.new, !.new = NoDb, !.user = FALSE]
    /\ UNCHANGED <<mem, tempSecret, worldVars>>

-----------------------------------------------------------------------------
(***************************************************************************)
(* A migration in progress, and what is left of the old host after it.     *)
(*                                                                         *)
(* The target's users are those of NewDB, but its administrator is that of *)
(* the host the present request names, and the two hosts are not compared. *)
(***************************************************************************)
ReadyHost(h) == h \in Hosts /\ cr[h] = "ready"

MigrationCanRun ==
    /\ ReadyHost(mem.new.host) /\ mem.new.host # mem.active.host
    /\ ReadyHost(req) /\ database[req] # "none"
    /\ targetPassword

MigrationStep(there) ==
    /\ pc = "migrate" /\ MigrationCanRun
    /\ ~outdated
    /\ pc' = there
    /\ strayed' = (strayed \/ req # mem.new.host)
    /\ UNCHANGED <<spec, claim, mode, req, tempSecret, outdated, cr, database,
                   targetPassword, wrote, holders, boundVars>>

(* The states up to enable_subscription.                                   *)
Subscribe ==
    /\ mem.migration = "copying"
    /\ MigrationStep("migrate")
    /\ subscribed' = subscribed \cup {req}
    /\ mem' = [mem EXCEPT !.migration = "syncing"]
    /\ status' = mem'
    /\ UNCHANGED <<secretHost, source>>

(* getSrcAppDsnFromSecret                                                  *)
SourceDsn(st) == IF st.migration = "rerouted" THEN source ELSE secretHost

Replicated(from, to) == from \in holders => to \in holders

(* cut_over_readiness_check finds nothing to wait for on a host without a  *)
(* subscription.                                                           *)
CutOverReady == req \in subscribed => Replicated(SourceDsn(mem), req)

(* The states up to and including reroute_target_secret.                   *)
Reroute ==
    /\ mem.migration = "syncing" /\ CutOverReady
    /\ MigrationStep("idle")
    /\ source' = secretHost
    /\ secretHost' = mem.new.host
    /\ status' = [mem EXCEPT !.migration = "rerouted"]
    /\ UNCHANGED <<mem, subscribed>>

CountsAgree == Replicated(SourceDsn(mem), mem.new.host)

(* The remaining states.  A database that was not the claim's is left to   *)
(* its owner, a host that was is put in OldDB.  A subscription that is     *)
(* left elsewhere has lost its publication.                                *)
CompleteMigration ==
    /\ Continue("migrate", "idle")
    /\ mem.migration = "rerouted" /\ MigrationCanRun /\ CountsAgree
    /\ ~outdated
    /\ status' = [mem EXCEPT
          !.migration = "completed",
          !.old = IF mem.active.state = "using-existing-db" THEN @
                  ELSE [state |-> "post-migration-in-progress", host |-> mem.active.host],
          !.active = [state |-> "ready", host |-> mem.new.host],
          !.new = NoDb, !.user = FALSE]
    /\ targetPassword' = FALSE /\ source' = NoHost /\ subscribed' = {}
    /\ UNCHANGED <<mem, tempSecret, cr, database, secretHost, wrote, holders>>

(* The check or the validation of the row counts is tried again later.     *)
MigrationRetry ==
    /\ MigrationCanRun
    /\ \/ mem.migration = "syncing" /\ ~CutOverReady
       \/ mem.migration = "rerouted" /\ ~CountsAgree
    /\ Continue("migrate", "idle")
    /\ UNCHANGED <<status, mem, tempSecret, worldVars>>

Deleted(h) == [cr EXCEPT ![h] = IF @ \in {"creating", "ready"} THEN "deleting" ELSE @]

PostMigrationOfRequestedHost ==
    /\ Continue("post", "cleared")
    /\ cr' = Deleted(req)
    /\ mem' = [mem EXCEPT !.old = NoDb]
    /\ UNCHANGED <<status, tempSecret, database, targetPassword, secretHost, source,
                   dataVars>>


(* The host is deleted once its tags are verified or ten minutes are over; *)
(* until then a reconcile changes nothing here.                            *)
postMigrationInProgress ==
    /\ Continue("post", "cleared")
    /\ cr' = Deleted(mem.old.host)
    /\ mem' = [mem EXCEPT !.old = NoDb]
    /\ UNCHANGED <<status, tempSecret, database, targetPassword, secretHost, source,
                   dataVars>>

(* A deletion that fails is logged, and OldDB cleared all the same.        *)
OldHostLeft ==
    /\ faults < MaxFaults
    /\ faults' = faults + 1
    /\ pc = "post"
    /\ pc' = "cleared"
    /\ mem' = [mem EXCEPT !.old = NoDb]
    /\ UNCHANGED <<claimVars, mode, req, tempSecret, outdated, worldVars, strayed, edits>>

ClearOldDB ==
    /\ ~outdated
    /\ Continue("cleared", "idle")
    /\ status' = mem
    /\ UNCHANGED <<mem, tempSecret, worldVars>>

-----------------------------------------------------------------------------
(***************************************************************************)
(* Deletion of the claim, with the reclaim policy "delete".                *)
(***************************************************************************)
DeleteNewHost ==
    /\ ~outdated
    /\ Continue("delete", "finalize")
    /\ cr' = Deleted(mem.new.host)
    /\ UNCHANGED <<status, mem, tempSecret, database, targetPassword, secretHost, source,
                   dataVars>>

deleteExternalResources ==
    /\ ~outdated
    /\ Continue("delete", "finalize")
    /\ cr' = Deleted(req)
    /\ UNCHANGED <<status, mem, tempSecret, database, targetPassword, secretHost, source,
                   dataVars>>

RemoveFinalizer ==
    /\ pc = "finalize"
    /\ ~outdated
    /\ pc' = "idle"
    /\ claim' = "gone"
    /\ UNCHANGED <<spec, status, runVars, outdated, worldVars, strayed, boundVars>>

-----------------------------------------------------------------------------
(***************************************************************************)
(* Reconciles that end in an error.  SetError writes the status in memory, *)
(* unless the claim has changed since it was read; the last status writes  *)
(* are not followed by it.                                                 *)
(***************************************************************************)
Fail(st) ==
    /\ pc # "idle"
    /\ pc' = "idle"
    /\ status' = IF outdated \/ pc \in {"finish", "delete", "finalize"}
                 THEN status ELSE st
    /\ UNCHANGED <<spec, claim, runVars, outdated, strayed, edits>>

HostBeingDeleted ==
    /\ pc = "host" /\ cr[req] = "deleting"
    /\ Fail(mem)
    /\ UNCHANGED <<worldVars, faults>>

MigrationAborted ==
    /\ pc = "database" /\ PreviouslyManaged
    /\ Fail([mem EXCEPT !.new.host = req, !.migration = ""])
    /\ UNCHANGED <<worldVars, faults>>

SourceUnknown ==
    /\ pc = "secret" /\ mode # "M_UseNewDB" /\ secretHost = NoHost
    /\ Fail(mem)
    /\ targetPassword' = (targetPassword \/ tempSecret)
    /\ UNCHANGED <<cr, database, secretHost, source, dataVars, faults>>

(* A host that is not the migration's target may lack the tables.          *)
SubscriptionRefused ==
    /\ pc = "migrate" /\ mem.migration = "copying" /\ MigrationCanRun
    /\ req # mem.new.host
    /\ Fail(mem)
    /\ UNCHANGED <<worldVars, faults>>

MigrationCannotRun ==
    /\ pc = "migrate" /\ ~MigrationCanRun
    /\ Fail(mem)
    /\ UNCHANGED <<worldVars, faults>>

StatusConflict ==
    /\ outdated
    /\ pc \in {"host", "finish", "existing", "adopted", "migrate", "cleared", "delete",
              "finalize"}
    /\ Fail(mem)
    /\ UNCHANGED <<worldVars, faults>>

Controller ==
    \/ executeDbClaimRequest \/ StartDeletion
    \/ manageCloudHost \/ createDatabaseAndExtensions \/ manageUserAndExtensions
    \/ ManageSystemFunctions \/ createOrUpdateSecret
    \/ setTargetPasswordInTempSecret \/ ActiveDBSuccessReconcile
    \/ MigrationInProgressStatus
    \/ SkipExistingDB \/ ManageExistingUser \/ WriteExistingSecret \/ ActivateExistingDB
    \/ Subscribe \/ Reroute \/ CompleteMigration \/ MigrationRetry
    \/ postMigrationInProgress \/ ClearOldDB
    \/ deleteExternalResources \/ RemoveFinalizer
    \/ HostBeingDeleted \/ MigrationAborted \/ SourceUnknown \/ SubscriptionRefused
    \/ MigrationCannotRun \/ StatusConflict

CallFails ==
    /\ faults < MaxFaults
    /\ faults' = faults + 1
    /\ Fail(mem)
    /\ UNCHANGED worldVars

Restart ==
    /\ faults < MaxFaults
    /\ faults' = faults + 1
    /\ pc # "idle"
    /\ pc' = "idle"
    /\ UNCHANGED <<claimVars, runVars, outdated, worldVars, strayed, edits>>

-----------------------------------------------------------------------------
(***************************************************************************)
(* The owner of the claim, the cloud and the application.                  *)
(***************************************************************************)
(* The webhook accepts every update.  That a claim is not turned from its  *)
(* own database to one of its owner is assumed of the owner: asking for    *)
(* the data of that database, it gives up the claim's.                     *)
EditClaim ==
    /\ claim \in {"new", "live"} /\ edits < MaxEdits
    /\ edits' = edits + 1
    /\ spec' \in {s \in Requests : s # spec /\ (s.existing => spec.existing)}
    /\ outdated' = TRUE
    /\ UNCHANGED <<status, claim, pc, runVars, worldVars, strayed, faults>>

(* A deletion is refused until the claim is labelled for it; one without   *)
(* finalizer is gone at once.                                              *)
DeleteClaim ==
    /\ claim \in {"new", "live"}
    /\ claim' = IF claim = "new" THEN "gone" ELSE "deleting"
    /\ outdated' = TRUE
    /\ UNCHANGED <<spec, status, pc, runVars, worldVars, strayed, boundVars>>

HostCreated(h) ==
    /\ cr[h] = "creating"
    /\ cr' = [cr EXCEPT ![h] = "ready"]
    /\ UNCHANGED <<claimVars, pc, runVars, outdated, database, targetPassword,
                   secretHost, source, dataVars, strayed, boundVars>>

HostDeleted(h) ==
    /\ cr[h] = "deleting"
    /\ cr' = [cr EXCEPT ![h] = "absent"]
    /\ database' = [database EXCEPT ![h] = "none"]
    /\ holders' = holders \ {h} /\ subscribed' = subscribed \ {h}
    /\ UNCHANGED <<claimVars, pc, runVars, outdated, targetPassword, secretHost, source,
                   wrote, strayed, boundVars>>

Replicates(h) ==
    /\ h \in subscribed \ holders /\ SourceDsn(status) \in holders
    /\ holders' = holders \cup {h}
    /\ UNCHANGED <<claimVars, pc, runVars, outdated, cr, database, targetPassword,
                   secretHost, source, wrote, subscribed, strayed, boundVars>>

Cloud == \E h \in Hosts : HostCreated(h) \/ HostDeleted(h) \/ Replicates(h)

(* Not before the claim's status has the database its secret names, as the *)
(* active one or as the target of a migration: a host that the status      *)
(* never had is forgotten when the claim is edited.                        *)
ApplicationWrites ==
    /\ claim = "live" /\ ~wrote
    /\ \/ secretHost # NoHost /\ secretHost = status.active.host
       \/ status.migration = "rerouted" /\ secretHost = status.new.host
    /\ wrote' = TRUE
    /\ holders' = {secretHost}
    /\ UNCHANGED <<claimVars, pc, runVars, outdated, cr, database, targetPassword,
                   secretHost, source, subscribed, strayed, boundVars>>

Done ==
    /\ claim = "gone" /\ pc = "idle"
    /\ \A h \in Hosts : cr[h] \in {"absent", "ready"}
    /\ UNCHANGED vars

Next ==
    \/ Controller \/ CallFails \/ OldHostLeft \/ Restart
    \/ EditClaim \/ DeleteClaim \/ Cloud \/ ApplicationWrites \/ Done

Spec == Init /\ [][Next]_vars
FairSpec == Spec /\ WF_vars(Controller) /\ WF_vars(Cloud)

-----------------------------------------------------------------------------
(* Every variable has its type.                                            *)
TypeOK ==
    /\ spec \in Requests
    /\ status \in Status /\ mem \in Status
    /\ claim \in {"new", "live", "deleting", "gone"}
    /\ pc \in {"idle", "host", "database", "users", "functions", "secret", "finish",
               "existing", "adopt", "adopted", "migrate", "post", "cleared", "delete",
               "finalize"}
    /\ mode \in {"M_NotSupported", "M_UseExistingDB", "M_MigrateExistingToNewDB",
                 "M_MigrationInProgress", "M_UseNewDB", "M_InitiateDBUpgrade",
                 "M_UpgradeDBInProgress", "M_PostMigrationInProgress"}
    /\ req \in Hosts \cup {NoHost}
    /\ tempSecret \in BOOLEAN /\ outdated \in BOOLEAN /\ targetPassword \in BOOLEAN
    /\ cr \in [Hosts -> {"absent", "creating", "ready", "deleting"}]
    /\ database \in [Hosts -> {"none", "created", "managed"}]
    /\ {secretHost, source} \subseteq Hosts \cup {External, NoHost}
    /\ subscribed \subseteq Hosts
    /\ wrote \in BOOLEAN /\ strayed \in BOOLEAN /\ holders \subseteq Hosts \cup {External}
    /\ faults \in Nat /\ edits \in Nat

Owned == claim \in {"new", "live"}

(* What the application wrote is in the database its secret names, through *)
(* every change of host and also while a migration is under way, unless    *)
(* the claim has asked back for the host that migration was leaving, or a  *)
(* step of it up to the rerouting was taken for a request of another host  *)
(* than its target.                                                        *)
DataFollows == Owned /\ wrote => secretHost \in holders \/ strayed

(* The hosts the claim's requests can name, whatever is active, and that a *)
(* request which is no upgrade of such a host asks for this very host: it  *)
(* leaves out the instance class only if all do, and two of the versions   *)
(* differ in the major one.                                                *)
RequestedHosts ==
    {HostParams(r, db) : r \in {q \in Requests : ~q.existing}, db \in DbStatus}

RequestsFit ==
    \A r \in Requests, h \in RequestedHosts :
        LET db == [state |-> "ready", host |-> h] IN
        ~r.existing /\ ~IsUpgradeRequested(r, db) => HostParams(r, db) = h

(* The host the status calls active is there, and not being deleted, as    *)
(* long as nobody deletes the claim.                                       *)
ActiveHostKept ==
    Owned /\ status.active.state = "ready" => cr[status.active.host] = "ready"

(* The migration is recorded as begun, and the password of the target's    *)
(* user was made by a reconcile that failed before it stored it.           *)
TargetPasswordLost == status.migration \in Migrating /\ ~targetPassword

(* The request was changed while a migration was under way, and names      *)
(* another host than its target.                                           *)
Stranded ==
    /\ status.migration \in Migrating
    /\ status.new.host \in Hosts \ {HostParams(spec, status.active)}

(* The subscription was made on such a host: the target never gets the     *)
(* rows, and the validation of their counts is retried for ever.           *)
SubscribedElsewhere ==
    status.migration \in {"syncing", "rerouted"} /\ status.new.host \in Hosts \ subscribed

(* The request was changed back to the active host during a migration,     *)
(* whose state stays in the status when its target is forgotten.           *)
MigrationLeft == status.migration \in Migrating /\ status.new.host = NoHost

(* A claim whose deletion was asked for is gone in the end, whatever it    *)
(* was in the middle of, unless that is a migration that cannot go on.     *)
DeletionCompletes ==
    claim = "deleting" ~>
        \/ claim = "gone"
        \/ TargetPasswordLost \/ Stranded \/ SubscribedElsewhere \/ MigrationLeft

(* A claim that is gone has let go of its database, unless it was asking   *)
(* for another one when it was deleted.                                    *)
GoneReleasesHost ==
    claim = "gone" /\ status.active.state = "ready" =>
        \/ cr[status.active.host] \in {"deleting", "absent"}
        \/ HostParams(spec, status.active) # status.active.host

Converged ==
    /\ status.active.state = IF spec.existing THEN "using-existing-db" ELSE "ready"
    /\ status.active.host = IF spec.existing THEN External
                            ELSE HostParams(spec, status.active)
    /\ secretHost = status.active.host

(* The target was made a managed database and the migration to it not      *)
(* recorded as begun: it is never begun again.                             *)
Abandoned ==
    /\ status.migration \in {"", "initial"}
    /\ LET h == HostParams(spec, status.active) IN
       h # status.active.host /\ database[h] = "managed"

(* The existing database was adopted, and a fault kept its secret from     *)
(* being written: its user is recorded, so no password is made again until *)
(* the next rotation, and no reconcile is scheduled for that.              *)
SecretLost ==
    /\ spec.existing /\ status.active.host = External /\ secretHost = NoHost
    /\ faults > 0

==============================================================================
