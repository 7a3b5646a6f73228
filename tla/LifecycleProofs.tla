--------------------------- MODULE LifecycleProofs ---------------------------
(***************************************************************************)
(* The host a claim uses is kept, the host of a deleted claim released and *)
(* the data where the secret says, for all classes, versions, requests,    *)
(* faults and edits.                                                       *)
(***************************************************************************)
EXTENDS Lifecycle, TLAPS

LifeType ==
    /\ spec \in Requests /\ status \in Status /\ mem \in Status
    /\ req \in Hosts \cup {NoHost}
    /\ cr \in [Hosts -> {"absent", "creating", "ready", "deleting"}]

Serving == {"database", "users", "functions", "secret", "finish"}
Leaving == {"post", "cleared"}

Adoption == {"existing", "adopt", "adopted"}

PostMigration(st) == st.old.state = "post-migration-in-progress"
ExistingDb == [state |-> "using-existing-db", host |-> External]

(* What the running reconcile relies on.  The status of its claim is the   *)
(* one it read, but for the old host it has dealt with.                    *)
RunInv ==
    /\ pc # "idle" => /\ mem.active = status.active /\ req \in Hosts
                      /\ claim \in {"live", "deleting"}
    /\ pc \in Serving => cr[req] = "ready"
    /\ pc \in Serving \ {"database"} => mem.new.host = req
    /\ pc \in Adoption \ {"existing"} => mem.new = ExistingDb
    /\ pc \notin Leaving \cup {"idle", "delete", "finalize"} => ~PostMigration(mem)
    /\ pc = "post" => PostMigration(mem)
    /\ pc \in {"delete", "finalize"} =>
          claim = "deleting" /\ req = HostParams(spec, status.active)
    /\ pc = "finalize" => cr[req] \in {"absent", "deleting"}

(* The host that is to be deleted is not the active one.                   *)
OldInv ==
    /\ PostMigration(status) => status.old.host # status.active.host
    /\ pc # "idle" /\ PostMigration(mem) => mem.old.host # mem.active.host

(* A claim without finalizer has no status; one that is gone no reconcile. *)
StatusInv ==
    /\ claim = "new" => pc = "idle" /\ status = NoStatus
    /\ claim = "gone" => pc = "idle"
    /\ status.active.state = "ready" => status.active.host \in Hosts

-----------------------------------------------------------------------------
(* Every request names a host.                                             *)
LEMMA HostNamed ==
    ASSUME NEW s \in Requests, NEW db \in DbStatus
    PROVE  HostParams(s, db) \in Hosts
BY RequestsAssumption, DefaultsAssumption DEF Specs, HostParams, Hosts, DbStatus

(* The parts of a status.                                                  *)
LEMMA StatusMade ==
    /\ NoDb \in DbStatus /\ NoStatus \in Status /\ ~PostMigration(NoStatus)
    /\ NoStatus.active.state # "ready" /\ NoDb.state # "post-migration-in-progress"
    /\ \A st \in Status : st.active \in DbStatus /\ st.new \in DbStatus /\ st.old \in DbStatus
    /\ \A h \in Hosts : [state |-> "ready", host |-> h] \in DbStatus
    /\ ExistingDb \in DbStatus /\ ExistingDb.state = "using-existing-db"
    /\ ExistingDb.host = External
BY DEF Status, DbStatus, NoDb, NoStatus, DbStates, MigrationStates, PostMigration, ExistingDb

(* Recording the state of a migration leaves the hosts alone.              *)
LEMMA MigrationRecorded ==
    ASSUME NEW st \in Status, NEW m \in MigrationStates, NEW n, n = [st EXCEPT !.migration = m]
    PROVE  n \in Status /\ n.active = st.active /\ n.old = st.old
BY DEF Status

(* A migration's end: the target becomes the active host, the source the   *)
(* old one.                                                                *)
Completed(st) ==
    [st EXCEPT !.migration = "completed",
               !.old = IF st.active.state = "using-existing-db" THEN @
                       ELSE [state |-> "post-migration-in-progress", host |-> st.active.host],
               !.active = [state |-> "ready", host |-> st.new.host],
               !.new = NoDb, !.user = FALSE]

(* Its old host is not its active one if its target was not.               *)
LEMMA CompletedMade ==
    ASSUME NEW st \in Status, st.new.host \in Hosts
    PROVE  /\ Completed(st) \in Status
           /\ Completed(st).active = [state |-> "ready", host |-> st.new.host]
           /\ PostMigration(Completed(st)) =>
                 Completed(st).old.host = st.active.host \/ PostMigration(st)
<1> DEFINE src == [state |-> "post-migration-in-progress", host |-> st.active.host]
           old == IF st.active.state = "using-existing-db" THEN st.old ELSE src
           act == [state |-> "ready", host |-> st.new.host]
<1>1. st.active.host \in Hosts \cup {External, NoHost} /\ st.old \in DbStatus
    BY DEF Status, DbStatus
<1>2. src \in DbStatus /\ src.host = st.active.host /\ act \in DbStatus /\ NoDb \in DbStatus
    BY <1>1, StatusMade DEF DbStatus, DbStates
<1>3. old \in DbStatus /\ (old = src \/ old = st.old) /\ "completed" \in MigrationStates
    BY <1>1, <1>2, Zenon DEF MigrationStates
<1>4. Completed(st) = [st EXCEPT !.migration = "completed", !.old = old, !.active = act,
                                 !.new = NoDb, !.user = FALSE]
    BY Zenon DEF Completed, Status
<1> HIDE DEF src, old, act
<1>5. Completed(st) \in Status /\ Completed(st).active = act /\ Completed(st).old = old
    BY <1>2, <1>3, <1>4, Zenon DEF Status
<1> QED
    BY <1>2, <1>3, <1>5, Zenon DEF PostMigration, act

(* How a reconcile starts: marking an upgrade changes neither the active   *)
(* nor the old host, and the old one is dealt with before anything else.   *)
LEMMA StartMade ==
    ASSUME NEW s, NEW st \in Status
    PROVE  LET marked == MarkUpgrade(s, st)
               m == getMode(s, marked)
               n == Initiate(m, marked) IN
           /\ n \in Status /\ n.active = st.active /\ n.old = st.old
           /\ FirstStep(m) \in {"host", "migrate", "existing", "post", "idle"}
           /\ FirstStep(m) = "post" => PostMigration(n)
           /\ FirstStep(m) \notin {"post", "idle"} => ~PostMigration(n)
<1> DEFINE marked == MarkUpgrade(s, st)
           m == getMode(s, marked)
           n == Initiate(m, marked)
<1>1. marked \in Status /\ marked.active = st.active /\ marked.old = st.old
  <2> DEFINE up == [st EXCEPT !.new.state = "in-progress", !.migration = ""]
  <2>1. up \in Status /\ up.active = st.active /\ up.old = st.old
      BY DEF Status, DbStatus, DbStates, MigrationStates
  <2>2. marked \in {up, st}
      BY DEF MarkUpgrade
  <2> QED
      BY <2>1, <2>2, Zenon
<1>2. n \in Status /\ n.active = st.active /\ n.old = st.old
  <2> DEFINE first == [marked EXCEPT !.migration = "initial"]
  <2> HIDE DEF marked, m
  <2>1. first \in Status /\ first.active = marked.active /\ first.old = marked.old
      BY <1>1, MigrationRecorded DEF MigrationStates
  <2>2. n \in {first, marked}
      BY DEF Initiate
  <2> HIDE DEF first, n
  <2> QED
      BY <1>1, <2>1, <2>2
<1>3. FirstStep(m) \in {"host", "migrate", "existing", "post", "idle"}
    BY DEF FirstStep
<1>4. PostMigration(marked) => m \in {"M_PostMigrationInProgress", "M_NotSupported"}
    BY DEF getMode, PostMigration
<1>5. m = "M_PostMigrationInProgress" => PostMigration(marked)
    BY DEF getMode, PostMigration
<1>6. /\ FirstStep(m) = "post" => m = "M_PostMigrationInProgress"
      /\ FirstStep(m) \notin {"post", "idle"} =>
            m \notin {"M_PostMigrationInProgress", "M_NotSupported"}
    BY DEF FirstStep
<1> QED
    BY <1>1, <1>2, <1>3, <1>4, <1>5, <1>6 DEF PostMigration

-----------------------------------------------------------------------------
IInv ==
    /\ LifeType /\ RunInv /\ OldInv /\ StatusInv
    /\ ActiveHostKept /\ GoneReleasesHost

(* A claim starts without hosts.                                           *)
LEMMA InitIInv == Init => IInv
BY StatusMade DEF Init, IInv, LifeType, RunInv, OldInv, StatusInv, ActiveHostKept,
   GoneReleasesHost, Serving, Adoption

(* A reconcile that ends with the status it holds in memory, or one that   *)
(* differs from it in neither the active nor the old host, or not at all.  *)
LEMMA StatusWritten ==
    ASSUME IInv, pc # "idle", pc' = "idle", status' \in Status,
           status' = status \/ (status'.active = mem.active /\ status'.old = mem.old),
           UNCHANGED <<spec, claim, mem, req, cr>>
    PROVE  IInv'
BY DEF IInv, LifeType, RunInv, OldInv, StatusInv, ActiveHostKept, GoneReleasesHost, Owned,
   PostMigration, Serving, Adoption

(* One step per action; those that only write the status are StatusWritten.*)
LEMMA StepKeepsIInv == ASSUME IInv, [Next]_vars PROVE IInv'
<1> USE DEF IInv, LifeType, RunInv, OldInv, StatusInv, ActiveHostKept, GoneReleasesHost, Owned,
            Serving, Leaving, Adoption, claimVars, runVars, dataVars, worldVars, boundVars
<1>1. CASE executeDbClaimRequest
  <2>1. /\ mem' \in Status /\ mem'.active = status.active /\ mem'.old = status.old
        /\ status' = mem' /\ req' = HostParams(spec, status.active)
        /\ pc' \in {"host", "migrate", "existing", "post", "idle"}
        /\ pc' = "post" => PostMigration(mem')
        /\ pc' \notin {"post", "idle"} => ~PostMigration(mem')
      BY <1>1, StartMade DEF executeDbClaimRequest, Start
  <2>2. /\ UNCHANGED <<spec, cr>> /\ claim \in {"new", "live", "deleting"} /\ pc = "idle"
        /\ claim' \in {"live", "deleting"} /\ (claim' = "live" => claim \in {"new", "live"})
      BY <1>1 DEF executeDbClaimRequest, Start
  <2>3. req' \in Hosts
      BY <2>1, HostNamed, StatusMade
  <2> QED
      BY <2>1, <2>2, <2>3 DEF PostMigration
<1>2. CASE StartDeletion
  <2>1. HostParams(spec, status.active) \in Hosts
      BY HostNamed, StatusMade
  <2> QED
      BY <1>2, <2>1 DEF StartDeletion, Start, PostMigration
<1>3. CASE manageCloudHost
    BY <1>3 DEF manageCloudHost, Continue, PostMigration
<1>4. CASE createDatabaseAndExtensions
  <2>1. mem' = [mem EXCEPT !.new.host = req] /\ req \in Hosts
      BY <1>4 DEF createDatabaseAndExtensions, Continue
  <2>2. mem' \in Status /\ mem'.active = mem.active /\ mem'.old = mem.old /\ mem'.new.host = req
      BY <2>1 DEF Status, DbStatus
  <2> QED
      BY <1>4, <2>2 DEF createDatabaseAndExtensions, Continue, PostMigration
<1>5. CASE manageUserAndExtensions
  <2>1. mem' = [mem EXCEPT !.user = TRUE]
      BY <1>5 DEF manageUserAndExtensions
  <2>2. mem' \in Status /\ mem'.active = mem.active /\ mem'.old = mem.old /\ mem'.new = mem.new
      BY <2>1, Zenon DEF Status
  <2> QED
      BY <1>5, <2>2 DEF manageUserAndExtensions, Continue, PostMigration
<1>6. CASE ManageSystemFunctions \/ createOrUpdateSecret \/ setTargetPasswordInTempSecret
    BY <1>6 DEF ManageSystemFunctions, createOrUpdateSecret, setTargetPasswordInTempSecret,
       Continue, PostMigration
<1>7. CASE ActiveDBSuccessReconcile
  <2>1. /\ status' \in Status /\ status'.active = [state |-> "ready", host |-> req]
        /\ status'.old = mem.old
    <3>1. /\ status' = [mem EXCEPT !.active = [state |-> "ready", host |-> req], !.new = NoDb,
                                   !.user = FALSE]
          /\ req \in Hosts
        BY <1>7, Zenon DEF ActiveDBSuccessReconcile, Continue
    <3>2. [state |-> "ready", host |-> req] \in DbStatus /\ NoDb \in DbStatus
        BY <3>1, StatusMade
    <3> QED
        BY <3>1, <3>2, Zenon DEF Status
  <2> QED
      BY <1>7, <2>1 DEF ActiveDBSuccessReconcile, Continue, PostMigration
<1>8. CASE MigrationInProgressStatus \/ Reroute
  <2>1. /\ status' \in Status /\ status'.active = mem.active /\ status'.old = mem.old
        /\ pc # "idle" /\ pc' = "idle" /\ UNCHANGED <<spec, claim, mem, req, cr>>
    <3>1. PICK m \in MigrationStates : status' = [mem EXCEPT !.migration = m]
        BY <1>8 DEF MigrationInProgressStatus, Reroute, MigrationStates
    <3>2. status' \in Status /\ status'.active = mem.active /\ status'.old = mem.old
        BY <3>1, MigrationRecorded
    <3> QED
        BY <1>8, <3>2 DEF MigrationInProgressStatus, Reroute, MigrationStep, Continue
  <2> QED
      BY <2>1, StatusWritten, Zenon
<1>9. CASE ManageExistingUser
  <2>1. /\ mem' \in Status /\ mem'.active = mem.active /\ mem'.old = mem.old
        /\ mem'.new = ExistingDb
    <3>1. mem' = [mem EXCEPT !.new = ExistingDb, !.user = TRUE] /\ ExistingDb \in DbStatus
        BY <1>9, StatusMade DEF ManageExistingUser, ExistingDb
    <3> QED
        BY <3>1, Zenon DEF Status
  <2> QED
      BY <1>9, <2>1 DEF ManageExistingUser, Continue, PostMigration
<1>10. CASE WriteExistingSecret
    BY <1>10 DEF WriteExistingSecret, Continue, PostMigration
<1>11. CASE ActivateExistingDB
  <2>1. /\ status' \in Status /\ status'.active.state = "using-existing-db"
        /\ status'.old = mem.old
    <3>1. status' = [mem EXCEPT !.active = ExistingDb, !.new = NoDb, !.user = FALSE]
        BY <1>11 DEF ActivateExistingDB, Continue
    <3>2. ExistingDb \in DbStatus /\ NoDb \in DbStatus
        BY StatusMade
    <3>3. status' \in Status /\ status'.active = ExistingDb /\ status'.old = mem.old
        BY <3>1, <3>2, Zenon DEF Status
    <3> QED
        BY <3>3, StatusMade, Zenon
  <2> QED
      BY <1>11, <2>1 DEF ActivateExistingDB, Continue, PostMigration
<1>12. CASE Subscribe
  <2>1. /\ mem' \in Status /\ mem'.active = mem.active /\ mem'.old = mem.old
        /\ status' = mem' /\ pc = "migrate" /\ pc' = "migrate"
        /\ UNCHANGED <<spec, claim, req, cr>>
      BY <1>12, MigrationRecorded DEF Subscribe, MigrationStep, MigrationStates
  <2> QED
      BY <2>1 DEF PostMigration
<1>13. CASE CompleteMigration
  <2>1. /\ pc = "migrate" /\ pc' = "idle" /\ status' = Completed(mem)
        /\ UNCHANGED <<spec, claim, mem, req, cr>>
      BY <1>13 DEF CompleteMigration, Continue, Completed
  <2>2. /\ mem.new.host \in Hosts /\ cr[mem.new.host] = "ready"
        /\ mem.new.host # mem.active.host /\ ~PostMigration(mem)
      BY <1>13, <2>1 DEF CompleteMigration, MigrationCanRun, ReadyHost
  <2>3. /\ status' \in Status /\ status'.active = [state |-> "ready", host |-> mem.new.host]
        /\ PostMigration(status') => status'.old.host = mem.active.host
      BY <2>1, <2>2, CompletedMade
  <2> QED
      BY <2>1, <2>2, <2>3 DEF PostMigration
<1>14. CASE postMigrationInProgress \/ OldHostLeft
  <2>1. /\ mem' \in Status /\ mem'.active = mem.active /\ ~PostMigration(mem')
        /\ pc = "post" /\ pc' = "cleared" /\ UNCHANGED <<spec, claim, status, req>>
    <3>1. mem' = [mem EXCEPT !.old = NoDb] /\ NoDb \in DbStatus
        BY <1>14, StatusMade DEF postMigrationInProgress, OldHostLeft
    <3>2. mem' \in Status /\ mem'.active = mem.active /\ mem'.old = NoDb
        BY <3>1 DEF Status
    <3>3. ~PostMigration(mem')
        BY <3>2, StatusMade, Zenon DEF PostMigration
    <3> QED
        BY <1>14, <3>2, <3>3 DEF postMigrationInProgress, OldHostLeft, Continue
  <2>2. cr' \in {cr, Deleted(mem.old.host)}
      BY <1>14 DEF postMigrationInProgress, OldHostLeft
  <2>3. /\ cr' \in [Hosts -> {"absent", "creating", "ready", "deleting"}]
        /\ \A h \in Hosts \ {mem.old.host} : cr'[h] = cr[h]
      BY <2>2 DEF Deleted
  <2> QED
      BY <2>1, <2>3 DEF PostMigration
<1>15. CASE ClearOldDB
    BY <1>15, StatusWritten DEF ClearOldDB, Continue
<1>16. CASE deleteExternalResources
    BY <1>16 DEF deleteExternalResources, Continue, Deleted, PostMigration
<1>17. CASE RemoveFinalizer
    BY <1>17 DEF RemoveFinalizer, PostMigration
<1>18. CASE \/ HostBeingDeleted \/ SourceUnknown \/ SubscriptionRefused
            \/ MigrationCannotRun \/ StatusConflict \/ CallFails
    BY <1>18, StatusWritten, Zenon
    DEF HostBeingDeleted, SourceUnknown, SubscriptionRefused, MigrationCannotRun,
        StatusConflict, CallFails, Fail
<1>19. CASE MigrationAborted
  <2> DEFINE n == [mem EXCEPT !.new.host = req, !.migration = ""]
  <2>1. n \in Status /\ n.active = mem.active /\ n.old = mem.old
      BY <1>19 DEF MigrationAborted, Status, DbStatus, MigrationStates
  <2> QED
      BY <1>19, <2>1, StatusWritten, Zenon DEF MigrationAborted, Fail
<1>20. CASE Restart \/ MigrationRetry \/ SkipExistingDB
    BY <1>20, StatusWritten, Zenon DEF Restart, MigrationRetry, SkipExistingDB, Continue
<1>21. CASE EditClaim
    BY <1>21 DEF EditClaim, PostMigration
<1>22. CASE DeleteClaim
    BY <1>22, StatusMade DEF DeleteClaim, PostMigration
<1>23. CASE Cloud
    BY <1>23 DEF Cloud, HostCreated, HostDeleted, Replicates, PostMigration
<1>24. CASE ApplicationWrites \/ Done \/ UNCHANGED vars
    BY <1>24 DEF ApplicationWrites, Done, vars, PostMigration
<1> HIDE DEF IInv
<1> QED
    BY <1>1, <1>2, <1>3, <1>4, <1>5, <1>6, <1>7, <1>8, <1>9, <1>10, <1>11, <1>12, <1>13,
       <1>14, <1>15, <1>16, <1>17, <1>18, <1>19, <1>20, <1>21, <1>22, <1>23, <1>24
    DEF Next, Controller

-----------------------------------------------------------------------------
(* The invariants together are inductive.                                  *)
LEMMA Inductive == Spec => []IInv
BY InitIInv, StepKeepsIInv, PTL DEF Spec

(* For all requests, faults and edits, in the middle of a migration too:   *)
(* the host that the status of a claim calls active is there, and nothing  *)
(* deletes it as long as nobody deletes the claim.                         *)
THEOREM ActiveHostIsKept == Spec => []ActiveHostKept
<1>1. IInv => ActiveHostKept
    BY DEF IInv
<1> QED
    BY <1>1, Inductive, PTL

(* A claim whose finalizer is removed has had its active host deleted      *)
(* before, unless it was asking for another one.                           *)
THEOREM GoneClaimReleasesHost == Spec => []GoneReleasesHost
<1>1. IInv => GoneReleasesHost
    BY DEF IInv
<1> QED
    BY <1>1, Inductive, PTL

-----------------------------------------------------------------------------
(***************************************************************************)
(* The data.  It is where the secret points because a reconcile that is no *)
(* migration works on the active host.                                     *)
(***************************************************************************)

(* The states of a database go with the host it names and with the state   *)
(* of the migration.                                                       *)
Well(st) ==
    /\ st.active.state \in {"", "ready", "using-existing-db"}
    /\ st.active.state = "" => st.active.host = NoHost /\ st.migration = ""
    /\ st.active.state = "using-existing-db" =>
          st.active.host = External /\ st.migration # "completed"
    /\ st.active.state = "ready" => st.active.host \in RequestedHosts
    /\ st.new.state # "" => st.migration # "completed"
    /\ st.new.host \in RequestedHosts \cup {External, NoHost}
    /\ PostMigration(st) => st.migration = "completed"

(* The running reconcile has not changed the state of the migration.       *)
WellInv ==
    /\ Well(status)
    /\ pc # "idle" => Well(mem) /\ mem.migration = status.migration

(* A claim that has only ever asked for its owner's database.              *)
Adopting(st) == st.active.state \in {"", "using-existing-db"} /\ st.migration = ""

ExistingInv ==
    /\ spec.existing => Adopting(status) /\ pc \in Adoption \cup {"idle", "delete", "finalize"}
    /\ pc \in Adoption => Adopting(status)

(* A reconcile works on a requested host: on the active one if there is    *)
(* one, or on the target of a migration not yet recorded as begun.         *)
ModeInv ==
    /\ pc \in Serving \cup {"host", "migrate"} => req \in RequestedHosts
    /\ pc \in Serving \cup {"host"} =>
        IF mode = "M_UseNewDB"
        THEN /\ status.active.state \in {"", "ready"}
             /\ status.active.state = "ready" => req = status.active.host
             /\ status.migration \notin Migrating \/ strayed
        ELSE status.migration = "initial" /\ status.active.state # ""
    /\ pc = "migrate" => status.active.state # ""
    /\ pc \notin Serving \cup {"idle"} => mem.new = status.new

(* An upgrade under way is marked in the status, so that no reconcile      *)
(* takes it for a new one and forgets its state.                           *)
Marked(st) == st.active.state = "ready" => st.new.state # ""

MarkedInv ==
    /\ status.migration \in Migrating => Marked(status) \/ strayed
    /\ pc \in Serving \cup {"host"} /\ mode # "M_UseNewDB" => Marked(mem)

(* The target of a migration has the subscription before the secret names  *)
(* it ...                                                                  *)
RerouteInv ==
    Owned /\ ~strayed /\ status.migration \in {"syncing", "rerouted"} =>
        /\ status.new.host \in Hosts \ {status.active.host}
        /\ cr[status.new.host] = "ready"
        /\ IF status.migration = "syncing" THEN status.new.host \in subscribed
           ELSE secretHost = status.new.host

(* ... and the active database at any other time.                          *)
DataInv ==
    /\ claim = "new" => ~wrote
    /\ Owned /\ ~strayed /\ wrote =>
        /\ status.active.state # ""
        /\ status.migration # "rerouted" => secretHost = status.active.host
        /\ secretHost \in holders

DInv == WellInv /\ ExistingInv /\ ModeInv /\ MarkedInv /\ RerouteInv /\ DataInv

(* No database has no state.                                               *)
LEMMA NoDbState == NoDb.state = "" /\ NoDb.host = NoHost
BY DEF NoDb

(* A request that is no upgrade of the active host names it.               *)
LEMMA RequestKeepsHost ==
    ASSUME RequestsFit, NEW s \in Requests, ~s.existing, NEW db \in DbStatus,
           db.state = "ready", db.host \in RequestedHosts, ~IsUpgradeRequested(s, db)
    PROVE  HostParams(s, db) = db.host
<1>1. db = [state |-> "ready", host |-> db.host]
    BY DEF DbStatus
<1> QED
    BY <1>1, Zenon DEF RequestsFit

(* The mode of a reconcile that works on a host: an upgrade or a migration *)
(* that has not been recorded as begun, or the host that is active.        *)
LEMMA StartFits ==
    ASSUME RequestsFit, NEW s \in Requests, NEW st \in Status, Well(st),
           s.existing => Adopting(st)
    PROVE  LET marked == MarkUpgrade(s, st)
               m == getMode(s, marked)
               n == Initiate(m, marked)
               p == FirstStep(m) IN
           /\ Well(n) /\ n.new.host = st.new.host
           /\ s.existing => Adopting(n) /\ p \in {"idle", "existing"}
           /\ p = "existing" => s.existing
           /\ p = "host" /\ m = "M_UseNewDB" =>
                 /\ n.active.state \in {"", "ready"}
                 /\ n.active.state = "ready" => HostParams(s, st.active) = st.active.host
                 /\ n.migration \in Migrating => st.migration = n.migration
           /\ p = "host" /\ m # "M_UseNewDB" =>
                 n.migration = "initial" /\ n.active.state # "" /\ Marked(n)
           /\ p = "migrate" => n.active.state # ""
           /\ n.migration # st.migration => n.migration \notin Migrating
           /\ st.migration \in Migrating /\ Marked(st) =>
                 n.migration = st.migration /\ n.new = st.new
<1> DEFINE marked == MarkUpgrade(s, st)
           m == getMode(s, marked)
           n == Initiate(m, marked)
           p == FirstStep(m)
<1>1. /\ marked \in Status /\ marked.active = st.active /\ marked.old = st.old
      /\ marked.new.host = st.new.host
      /\ \/ marked = st /\ (UpgradeWanted(s, st) => st.new.state # "")
         \/ /\ UpgradeWanted(s, st) /\ st.new.state = ""
            /\ marked.new.state = "in-progress" /\ marked.migration = ""
  <2> DEFINE up == [st EXCEPT !.new.state = "in-progress", !.migration = ""]
  <2>1. /\ up \in Status /\ up.active = st.active /\ up.old = st.old
        /\ up.new.host = st.new.host /\ up.new.state = "in-progress" /\ up.migration = ""
      BY DEF Status, DbStatus, DbStates, MigrationStates
  <2> HIDE DEF up
  <2>2. IF UpgradeWanted(s, st) /\ st.new.state = "" THEN marked = up ELSE marked = st
      BY DEF MarkUpgrade, up
  <2> QED
      BY <2>1, <2>2, Zenon
<1>2. UpgradeWanted(s, marked) <=> UpgradeWanted(s, st)
    BY <1>1, Zenon DEF UpgradeWanted
<1>3. UpgradeWanted(s, st) => ~PostMigration(st) /\ st.active.state = "ready" /\ ~s.existing
    BY DEF UpgradeWanted, PostMigration
<1>4. Well(marked)
    BY <1>1, <1>3 DEF Well, PostMigration
<1> HIDE DEF marked
<1>5. /\ n.active = marked.active /\ n.old = marked.old /\ n.new = marked.new
      /\ IF m \in {"M_MigrateExistingToNewDB", "M_InitiateDBUpgrade"} /\ marked.migration = ""
         THEN n.migration = "initial" ELSE n = marked
  <2> HIDE DEF m
  <2>1. marked \in Status
      BY <1>1
  <2> QED
      BY <2>1 DEF Initiate, Status
<1> HIDE DEF n
<1>6. /\ PostMigration(marked) => m \in {"M_PostMigrationInProgress", "M_NotSupported"}
      /\ ~PostMigration(marked) /\ s.existing => m \in {"M_UseExistingDB", "M_NotSupported"}
      /\ ~PostMigration(marked) /\ ~s.existing =>
            IF marked.active.state = "using-existing-db" /\ marked.migration # "completed"
            THEN IF marked.migration \in {"", "initial"} THEN m = "M_MigrateExistingToNewDB"
                 ELSE m = "M_MigrationInProgress"
            ELSE IF UpgradeWanted(s, marked) /\ marked.migration # "completed"
            THEN IF marked.migration \in {"", "initial"} THEN m = "M_InitiateDBUpgrade"
                 ELSE m = "M_UpgradeDBInProgress"
            ELSE m = "M_UseNewDB"
    BY DEF getMode, PostMigration
<1> HIDE DEF m
<1>7. /\ p = "host" <=> m \in {"M_UseNewDB", "M_MigrateExistingToNewDB", "M_InitiateDBUpgrade"}
      /\ p = "migrate" <=> m \in {"M_MigrationInProgress", "M_UpgradeDBInProgress"}
      /\ p = "existing" <=> m = "M_UseExistingDB"
      /\ p = "post" <=> m = "M_PostMigrationInProgress"
    BY DEF FirstStep
<1>8. p \in {"host", "migrate", "existing", "post", "idle"}
    BY DEF FirstStep
<1> HIDE DEF p
<1>9. Well(n) /\ n.new.host = st.new.host
    BY <1>1, <1>3, <1>4, <1>5, <1>6 DEF Well, PostMigration
<1>10. s.existing => Adopting(n) /\ p \in {"idle", "existing"}
    BY <1>1, <1>3, <1>4, <1>5, <1>6, <1>7, <1>8 DEF Well, Adopting
<1>11. p = "existing" => s.existing
    BY <1>6, <1>7
<1>12. p = "host" /\ m = "M_UseNewDB" =>
          /\ n.active.state \in {"", "ready"}
          /\ n.active.state = "ready" => HostParams(s, st.active) = st.active.host
  <2> SUFFICES ASSUME m = "M_UseNewDB"
               PROVE  /\ n.active.state \in {"", "ready"}
                      /\ n.active.state = "ready" => HostParams(s, st.active) = st.active.host
      OBVIOUS
  <2>1. ~PostMigration(marked) /\ ~s.existing /\ marked.active.state # "using-existing-db"
      BY <1>4, <1>6 DEF Well
  <2>2. ~UpgradeWanted(s, st)
      BY <1>1, <1>2, <1>4, <1>6, <2>1 DEF Well
  <2>3. st.active.state = "ready" => ~IsUpgradeRequested(s, st.active)
      BY <1>1, <2>1, <2>2 DEF UpgradeWanted, PostMigration
  <2>4. st.active.state = "ready" => HostParams(s, st.active) = st.active.host
      BY <2>1, <2>3, RequestKeepsHost, StatusMade DEF Well
  <2> QED
      BY <1>1, <1>4, <1>5, <2>1, <2>4 DEF Well
<1>13. p = "host" /\ m # "M_UseNewDB" =>
          n.migration = "initial" /\ n.active.state # "" /\ Marked(n)
  <2> SUFFICES ASSUME m \in {"M_MigrateExistingToNewDB", "M_InitiateDBUpgrade"}
               PROVE  n.migration = "initial" /\ n.active.state # "" /\ Marked(n)
      BY <1>7
  <2>1. /\ marked.migration \in {"", "initial"}
        /\ marked.active.state = "using-existing-db" \/ UpgradeWanted(s, marked)
      BY <1>6
  <2> QED
      BY <1>1, <1>2, <1>3, <1>5, <2>1 DEF Marked
<1>14. p = "migrate" => n.active.state # ""
    BY <1>1, <1>2, <1>3, <1>5, <1>6, <1>7
<1>15. n.migration # st.migration => n.migration \notin Migrating
    BY <1>1, <1>5 DEF Migrating
<1>16. st.migration \in Migrating /\ Marked(st) => n.migration = st.migration /\ n.new = st.new
    BY <1>1, <1>3, <1>5 DEF Migrating, Marked
<1> QED
    BY <1>9, <1>10, <1>11, <1>12, <1>13, <1>14, <1>15, <1>16 DEF marked, m, n, p

(* A request names a requested host.                                       *)
LEMMA RequestedNamed ==
    ASSUME NEW s \in Requests, ~s.existing, NEW db \in DbStatus
    PROVE  HostParams(s, db) \in RequestedHosts
BY DEF RequestedHosts

(* A host that is not the controller's is not deleted by it.               *)
LEMMA ExternalIsNoHost == External \notin Hosts /\ NoHost \notin Hosts /\ NoHost # External
BY VersionsAssumption DEF External, NoHost, Hosts

(* A reconcile that starts.                                                *)
LEMMA StartKeepsData == ASSUME RequestsFit, IInv, DInv, executeDbClaimRequest PROVE DInv'
<1> DEFINE marked == MarkUpgrade(spec, status)
           m == getMode(spec, marked)
           n == Initiate(m, marked)
           p == FirstStep(m)
<1>1. /\ spec \in Requests /\ status \in Status /\ status.active \in DbStatus
      /\ Well(status) /\ (spec.existing => Adopting(status))
    BY StatusMade DEF IInv, LifeType, DInv, WellInv, ExistingInv
<1>2. /\ n \in Status /\ n.active = status.active
      /\ p \in {"host", "migrate", "existing", "post", "idle"}
    BY <1>1, StartMade, Zenon
<1>3. /\ Well(n) /\ n.new.host = status.new.host
      /\ spec.existing => Adopting(n) /\ p \in {"idle", "existing"}
      /\ p = "existing" => spec.existing
      /\ p = "host" /\ m = "M_UseNewDB" =>
            /\ n.active.state \in {"", "ready"}
            /\ n.active.state = "ready" => HostParams(spec, status.active) = status.active.host
            /\ n.migration \in Migrating => status.migration = n.migration
      /\ p = "host" /\ m # "M_UseNewDB" =>
            n.migration = "initial" /\ n.active.state # "" /\ Marked(n)
      /\ p = "migrate" => n.active.state # ""
      /\ n.migration # status.migration => n.migration \notin Migrating
      /\ status.migration \in Migrating /\ Marked(status) =>
            n.migration = status.migration /\ n.new = status.new
    BY <1>1, StartFits, Zenon
<1>4. /\ mem' = n /\ status' = n /\ pc' = p /\ mode' = m
      /\ req' = HostParams(spec, status.active)
      /\ strayed' = (strayed \/ (m = "M_UseNewDB" /\ status.migration \in Migrating))
      /\ UNCHANGED <<spec, cr, secretHost, wrote, holders, subscribed>>
      /\ claim \in {"new", "live", "deleting"} /\ claim' = IF claim = "new" THEN "live" ELSE claim
    BY DEF executeDbClaimRequest, Start, worldVars, dataVars
<1> HIDE DEF marked, m, n, p
<1>5. ~spec.existing => req' \in RequestedHosts
    BY <1>1, <1>4, RequestedNamed
<1>6. status.migration \in Migrating => Marked(status) \/ strayed
    BY DEF DInv, MarkedInv
<1>7. strayed => strayed'
    BY <1>4
<1>8. WellInv'
    BY <1>3, <1>4 DEF WellInv
<1>9. ExistingInv'
    BY <1>2, <1>3, <1>4 DEF ExistingInv, Adoption
<1>10. ModeInv'
    BY <1>2, <1>3, <1>4, <1>5 DEF ModeInv, Serving
<1>11. MarkedInv'
    BY <1>2, <1>3, <1>4, <1>6, <1>7 DEF MarkedInv, Serving, Marked
<1>12. RerouteInv'
    BY <1>2, <1>3, <1>4, <1>7 DEF DInv, RerouteInv, Owned, Migrating
<1>13. DataInv'
    BY <1>2, <1>3, <1>4, <1>6, <1>7 DEF DInv, DataInv, Owned, Migrating
<1> QED
    BY <1>8, <1>9, <1>10, <1>11, <1>12, <1>13 DEF DInv

(* A reconcile that ends with the status it holds in memory, or leaves the *)
(* status as it is.                                                        *)
LEMMA EndKeepsData ==
    ASSUME IInv, DInv, pc # "idle", pc' = "idle", status' \in {status, mem},
           claim' = claim \/ ~Owned',
           UNCHANGED <<spec, cr, secretHost, wrote, holders, subscribed, strayed>>
    PROVE  DInv'
<1>1. mem.active = status.active /\ claim \in {"live", "deleting"}
    BY DEF IInv, RunInv
<1>2. mem.migration = status.migration /\ Well(status) /\ Well(mem)
    BY DEF DInv, WellInv
<1>3. \/ mem.new = status.new
      \/ status.migration \notin Migrating \/ strayed
    BY DEF DInv, ModeInv, Serving, Migrating
<1>4. WellInv'
    BY <1>2 DEF WellInv
<1>5. ExistingInv'
    BY <1>1, <1>2 DEF DInv, ExistingInv, Adopting, Adoption
<1>6. ModeInv'
    BY DEF ModeInv, Serving
<1>7. MarkedInv'
    BY <1>1, <1>2, <1>3 DEF DInv, MarkedInv, Marked, Serving
<1>8. RerouteInv'
    BY <1>1, <1>2, <1>3 DEF DInv, RerouteInv, Owned, Migrating
<1>9. DataInv'
    BY <1>1, <1>2 DEF DInv, DataInv, Owned
<1> QED
    BY <1>4, <1>5, <1>6, <1>7, <1>8, <1>9 DEF DInv

(* A step in the middle of a reconcile, which leaves the status and what   *)
(* it relies on alone.                                                     *)
LEMMA MiddleKeepsData ==
    ASSUME IInv, DInv, pc \in Serving \cup {"host"}, pc' \in Serving \cup {"idle"},
           mem'.active = mem.active, mem'.migration = mem.migration, mem'.old = mem.old,
           mem'.new.state = mem.new.state, mem'.new.host \in {mem.new.host, req},
           \A h \in Hosts : cr[h] = "ready" => cr'[h] = "ready",
           secretHost' = secretHost \/ (mode = "M_UseNewDB" /\ secretHost' = req),
           UNCHANGED <<spec, claim, status, mode, req, wrote, holders, subscribed, strayed>>
    PROVE  DInv'
<1>1. mem.active = status.active /\ mem.migration = status.migration
    BY DEF IInv, RunInv, DInv, WellInv, Serving
<1>2. WellInv'
    BY DEF DInv, WellInv, Well, ModeInv, PostMigration, Serving
<1>3. ExistingInv'
    BY DEF DInv, ExistingInv, Serving, Adoption
<1>4. ModeInv'
    BY DEF DInv, ModeInv, Serving
<1>5. MarkedInv'
    BY DEF DInv, MarkedInv, Marked, Serving
<1>6. mode = "M_UseNewDB" /\ ~strayed => status.migration \notin Migrating
    BY DEF DInv, ModeInv
<1>7. RerouteInv'
    BY <1>6 DEF DInv, RerouteInv, Owned, Migrating
<1>8. mode = "M_UseNewDB" /\ status.active.state # "" => req = status.active.host
    BY DEF DInv, ModeInv
<1>9. Owned /\ ~strayed /\ wrote => secretHost' = secretHost
    BY <1>6, <1>8 DEF DInv, DataInv, Migrating
<1>10. DataInv'
    BY <1>9, Zenon DEF DInv, DataInv, Owned
<1> QED
    BY <1>2, <1>3, <1>4, <1>5, <1>7, <1>10 DEF DInv

(* The database of a claim becomes the active one, or stays it.            *)
LEMMA SuccessKeepsData ==
    ASSUME IInv, DInv, ActiveDBSuccessReconcile
    PROVE  DInv'
<1>1. /\ pc = "finish" /\ pc' = "idle" /\ mode = "M_UseNewDB" /\ mem \in Status
      /\ mem.active = status.active /\ mem.new.host = req /\ ~PostMigration(mem)
      /\ claim \in {"live", "deleting"}
      /\ UNCHANGED <<spec, claim, cr, secretHost, wrote, holders, subscribed, strayed>>
      /\ status' = [mem EXCEPT !.active = [state |-> "ready", host |-> mem.new.host],
                               !.new = NoDb, !.user = FALSE]
    BY DEF IInv, LifeType, RunInv, Serving, Leaving, ActiveDBSuccessReconcile, Continue, worldVars,
       dataVars
<1>2. /\ status'.active = [state |-> "ready", host |-> req] /\ status'.new = NoDb
      /\ status'.old = mem.old /\ status'.migration = mem.migration
    BY <1>1, Zenon DEF Status
<1>3. /\ status'.active.state = "ready" /\ status'.active.host = req
      /\ status'.new.state = "" /\ status'.new.host = NoHost
  <2>1. status'.active.state = "ready" /\ status'.active.host = req
      BY <1>2, SMT
  <2>2. status'.new.state = "" /\ status'.new.host = NoHost
      BY <1>2, NoDbState, Zenon
  <2> QED
      BY <2>1, <2>2
<1>4. /\ req \in RequestedHosts /\ mem.migration = status.migration
      /\ status.active.state \in {"", "ready"}
      /\ status.active.state = "ready" => req = status.active.host
      /\ status.migration \notin Migrating \/ strayed
    BY <1>1 DEF DInv, ModeInv, WellInv, Serving
<1>5. WellInv'
    BY <1>1, <1>2, <1>3, <1>4 DEF WellInv, Well, PostMigration
<1>6. ExistingInv'
    BY <1>1 DEF DInv, ExistingInv, Serving, Adoption
<1>7. ModeInv' /\ MarkedInv'
    BY <1>1, <1>2, <1>4 DEF ModeInv, MarkedInv, Serving
<1>8. RerouteInv'
    BY <1>1, <1>2, <1>4 DEF RerouteInv, Migrating
<1>9. DataInv'
    BY <1>1, <1>2, <1>3, <1>4 DEF DInv, DataInv, Owned
<1> QED
    BY <1>5, <1>6, <1>7, <1>8, <1>9 DEF DInv

(* The existing database is recorded, its secret written, and activated.   *)
LEMMA ExistingKeepsData ==
    ASSUME IInv, DInv, ManageExistingUser \/ WriteExistingSecret \/ ActivateExistingDB
    PROVE  DInv'
<1>1. /\ pc \in Adoption /\ mem \in Status /\ mem.active = status.active
      /\ ~PostMigration(mem) /\ claim \in {"live", "deleting"}
      /\ UNCHANGED <<spec, claim, cr, wrote, holders, subscribed, strayed>>
    BY DEF IInv, LifeType, RunInv, Leaving, Adoption, ManageExistingUser, WriteExistingSecret,
       ActivateExistingDB, Continue, worldVars, dataVars
<1>2. /\ Adopting(status) /\ mem.migration = "" /\ status.migration = ""
      /\ Well(mem) /\ Well(status)
    BY <1>1 DEF DInv, WellInv, ExistingInv, Adopting, Adoption
<1>3. status.active.state = "using-existing-db" => status.active.host = External
    BY <1>2 DEF Well
<1>4. Owned /\ ~strayed /\ wrote => secretHost = External /\ secretHost \in holders
    BY <1>2, <1>3 DEF DInv, DataInv, Adopting
<1>5. CASE ManageExistingUser
  <2>1. /\ mem' = [mem EXCEPT !.new = ExistingDb, !.user = TRUE] /\ status' = mem'
        /\ pc' = "adopt" /\ UNCHANGED secretHost
      BY <1>5 DEF ManageExistingUser, Continue, ExistingDb, worldVars
  <2>2. /\ mem'.active = mem.active /\ mem'.new = ExistingDb /\ mem'.old = mem.old
        /\ mem'.migration = mem.migration
      BY <1>1, <2>1, Zenon DEF Status
  <2>3. mem'.new.host = External
      BY <2>2, StatusMade, Zenon
  <2>4. Well(mem')
      BY <1>1, <1>2, <2>2, <2>3 DEF Well, PostMigration
  <2>5. WellInv' /\ ExistingInv' /\ ModeInv'
      BY <1>1, <1>2, <2>1, <2>2, <2>4
      DEF WellInv, ExistingInv, Adopting, Adoption, ModeInv, Serving
  <2>6. MarkedInv' /\ RerouteInv'
      BY <1>2, <2>1, <2>2 DEF MarkedInv, RerouteInv, Serving, Migrating
  <2>7. DataInv'
      BY <1>1, <1>2, <2>1, <2>2 DEF DInv, DataInv, Owned
  <2> QED
      BY <2>5, <2>6, <2>7 DEF DInv
<1>6. CASE WriteExistingSecret
  <2>1. /\ pc = "adopt" /\ pc' = "adopted" /\ UNCHANGED <<status, mem>>
        /\ secretHost' \in {External, secretHost}
      BY <1>6 DEF WriteExistingSecret, Continue
  <2>2. WellInv' /\ ExistingInv' /\ ModeInv'
      BY <1>1, <2>1 DEF DInv, WellInv, ExistingInv, Adoption, ModeInv, Serving
  <2>3. MarkedInv' /\ RerouteInv'
      BY <1>2, <2>1 DEF MarkedInv, RerouteInv, Serving, Migrating
  <2>4. DataInv'
      BY <1>1, <1>4, <2>1 DEF DInv, DataInv, Owned
  <2> QED
      BY <2>2, <2>3, <2>4 DEF DInv
<1>7. CASE ActivateExistingDB
  <2>1. /\ pc = "adopted" /\ pc' = "idle" /\ UNCHANGED secretHost
        /\ status' = [mem EXCEPT !.active = ExistingDb, !.new = NoDb, !.user = FALSE]
      BY <1>7 DEF ActivateExistingDB, Continue, IInv, RunInv, Adoption, worldVars
  <2>2. /\ status'.active = ExistingDb /\ status'.new = NoDb
        /\ status'.old = mem.old /\ status'.migration = mem.migration
      BY <1>1, <2>1, Zenon DEF Status
  <2>3. /\ status'.active.state = "using-existing-db" /\ status'.active.host = External
        /\ status'.new.state = "" /\ status'.new.host = NoHost
      BY <2>2, StatusMade, NoDbState, Zenon
  <2>4. WellInv'
      BY <1>1, <1>2, <2>1, <2>2, <2>3 DEF WellInv, Well, PostMigration
  <2>5. ExistingInv'
      BY <1>2, <2>1, <2>2, <2>3 DEF ExistingInv, Adopting, Adoption
  <2>6. ModeInv' /\ MarkedInv' /\ RerouteInv'
      BY <1>2, <2>1, <2>2 DEF ModeInv, MarkedInv, RerouteInv, Serving, Migrating
  <2>7. DataInv'
      BY <1>1, <1>4, <2>1, <2>3 DEF DataInv, Owned
  <2> QED
      BY <2>4, <2>5, <2>6, <2>7 DEF DInv
<1> QED
    BY <1>5, <1>6, <1>7

(* A migration is begun, subscribes, names the target or ends.             *)
LEMMA MigrationKeepsData ==
    ASSUME IInv, DInv,
           MigrationInProgressStatus \/ Subscribe \/ Reroute \/ CompleteMigration
    PROVE  DInv'
<1>1. /\ mem \in Status /\ pc \in {"finish", "migrate"} /\ pc' \in {"idle", "migrate"}
      /\ mem.active = status.active /\ ~PostMigration(mem) /\ claim \in {"live", "deleting"}
      /\ UNCHANGED <<spec, claim, req, cr, wrote, holders>> /\ (strayed => strayed')
  <2>1. /\ pc \in {"finish", "migrate"} /\ pc' \in {"idle", "migrate"}
        /\ UNCHANGED <<spec, claim, req, cr, wrote, holders>>
      BY DEF MigrationInProgressStatus, Subscribe, Reroute, MigrationStep, CompleteMigration,
         Continue, worldVars, dataVars
  <2>2. strayed => strayed'
      BY DEF MigrationInProgressStatus, Subscribe, Reroute, MigrationStep, CompleteMigration,
         Continue
  <2> QED
      BY <2>1, <2>2 DEF IInv, LifeType, RunInv, Leaving
<1>2. /\ mem.migration = status.migration /\ Well(mem) /\ ~spec.existing
      /\ req \in RequestedHosts /\ req \in Hosts
    BY <1>1 DEF IInv, RunInv, DInv, WellInv, ExistingInv, Adoption, ModeInv, Serving
<1>3. ExistingInv' /\ (pc' = "idle" => ModeInv')
    BY <1>1, <1>2 DEF ExistingInv, Adoption, ModeInv, Serving
<1>4. CASE MigrationInProgressStatus
  <2>1. /\ status' = [mem EXCEPT !.migration = "copying"] /\ mode # "M_UseNewDB"
        /\ pc = "finish" /\ pc' = "idle" /\ UNCHANGED <<secretHost, strayed>>
      BY <1>4 DEF MigrationInProgressStatus, Continue, worldVars
  <2>2. /\ status'.active = mem.active /\ status'.new = mem.new /\ status'.old = mem.old
        /\ status'.migration = "copying"
      BY <1>1, <2>1 DEF Status
  <2>3. status.migration = "initial" /\ status.active.state # "" /\ Marked(mem)
      BY <2>1 DEF DInv, ModeInv, MarkedInv, Serving
  <2>4. WellInv' /\ MarkedInv'
      BY <1>1, <1>2, <2>1, <2>2, <2>3
      DEF WellInv, Well, PostMigration, MarkedInv, Marked, Serving
  <2>5. RerouteInv' /\ DataInv'
      BY <1>1, <2>1, <2>2, <2>3 DEF DInv, RerouteInv, DataInv, Owned
  <2> QED
      BY <1>3, <2>1, <2>4, <2>5 DEF DInv
<1>5. ASSUME pc = "migrate" PROVE status.active.state # "" /\ mem.new = status.new
    BY <1>5 DEF DInv, ModeInv, Serving
<1>6. CASE Subscribe
  <2>1. /\ mem' = [mem EXCEPT !.migration = "syncing"] /\ status' = mem'
        /\ mem.migration = "copying" /\ pc = "migrate" /\ pc' = "migrate"
        /\ subscribed' = subscribed \cup {req} /\ UNCHANGED secretHost
        /\ mem.new.host \in Hosts \ {mem.active.host} /\ cr[mem.new.host] = "ready"
        /\ ~strayed' => req = mem.new.host
      BY <1>6 DEF Subscribe, MigrationStep, MigrationCanRun, ReadyHost
  <2>2. /\ mem'.active = mem.active /\ mem'.new = mem.new /\ mem'.old = mem.old
        /\ mem'.migration = "syncing"
      BY <1>1, <2>1 DEF Status
  <2>3. WellInv'
      BY <1>1, <1>2, <1>5, <2>1, <2>2 DEF WellInv, Well, PostMigration
  <2>4. ModeInv'
      BY <1>1, <1>2, <1>5, <2>1, <2>2 DEF ModeInv, Serving
  <2>5. MarkedInv'
      BY <1>1, <1>2, <1>5, <2>1, <2>2 DEF DInv, MarkedInv, Marked, Migrating, Serving
  <2>6. RerouteInv'
      BY <1>1, <2>1, <2>2 DEF RerouteInv
  <2>7. DataInv'
      BY <1>1, <1>2, <1>5, <2>1, <2>2 DEF DInv, DataInv, Owned
  <2> QED
      BY <1>3, <2>3, <2>4, <2>5, <2>6, <2>7 DEF DInv
<1>7. CASE Reroute
  <2>1. /\ status' = [mem EXCEPT !.migration = "rerouted"] /\ mem.migration = "syncing"
        /\ pc = "migrate" /\ pc' = "idle" /\ secretHost' = mem.new.host
        /\ mem.new.host \in Hosts \ {mem.active.host} /\ cr[mem.new.host] = "ready"
        /\ ~strayed' => req = mem.new.host
        /\ req \in subscribed /\ secretHost \in holders => req \in holders
      BY <1>7 DEF Reroute, MigrationStep, MigrationCanRun, ReadyHost, CutOverReady, Replicated,
         SourceDsn
  <2>2. /\ status'.active = mem.active /\ status'.new = mem.new /\ status'.old = mem.old
        /\ status'.migration = "rerouted"
      BY <1>1, <2>1 DEF Status
  <2>3. WellInv'
      BY <1>1, <1>2, <1>5, <2>1, <2>2 DEF WellInv, Well, PostMigration
  <2>4. MarkedInv'
      BY <1>1, <1>2, <1>5, <2>1, <2>2 DEF DInv, MarkedInv, Marked, Migrating, Serving
  <2>5. RerouteInv'
      BY <1>1, <2>1, <2>2 DEF RerouteInv
  <2>6. Owned /\ ~strayed' => req \in subscribed
      BY <1>1, <1>2, <1>5, <2>1 DEF DInv, RerouteInv
  <2>7. DataInv'
      BY <1>1, <1>2, <1>5, <2>1, <2>2, <2>6 DEF DInv, DataInv, Owned
  <2> QED
      BY <1>3, <2>1, <2>3, <2>4, <2>5, <2>7 DEF DInv
<1>8. CASE CompleteMigration
  <2>1. /\ status' = Completed(mem) /\ mem.migration = "rerouted" /\ pc = "migrate"
        /\ pc' = "idle" /\ mem.new.host \in Hosts /\ UNCHANGED <<secretHost, strayed>>
      BY <1>8 DEF CompleteMigration, Continue, MigrationCanRun, ReadyHost, Completed
  <2>2. /\ status'.active = [state |-> "ready", host |-> mem.new.host] /\ status'.new = NoDb
        /\ status'.migration = "completed"
      BY <1>1, <2>1, Zenon DEF Completed, Status
  <2>3. /\ status'.active.state = "ready" /\ status'.active.host = mem.new.host
        /\ status'.new.state = "" /\ status'.new.host = NoHost
    <3>1. status'.active.state = "ready" /\ status'.active.host = mem.new.host
        BY <2>2, SMT
    <3>2. status'.new.state = "" /\ status'.new.host = NoHost
        BY <2>2, NoDbState, Zenon
    <3> QED
        BY <3>1, <3>2
  <2>4. mem.new.host \in RequestedHosts
      BY <1>2, <2>1, ExternalIsNoHost DEF Well
  <2>5. WellInv'
      BY <1>1, <2>1, <2>2, <2>3, <2>4 DEF WellInv, Well
  <2>6. MarkedInv' /\ RerouteInv'
      BY <2>1, <2>2 DEF MarkedInv, RerouteInv, Migrating, Serving
  <2>7. DataInv'
      BY <1>1, <1>2, <1>5, <2>1, <2>2, <2>3 DEF DInv, RerouteInv, DataInv, Owned
  <2> QED
      BY <1>3, <2>1, <2>5, <2>6, <2>7 DEF DInv
<1> QED
    BY <1>4, <1>6, <1>7, <1>8

(* A claim starts with nothing.                                            *)
LEMMA InitDInv == Init => DInv
<1> SUFFICES ASSUME Init PROVE DInv
    OBVIOUS
<1>1. /\ status = NoStatus /\ pc = "idle" /\ wrote = FALSE
      /\ NoStatus.active = NoDb /\ NoStatus.new = NoDb /\ NoStatus.migration = ""
      /\ NoDb.state = "" /\ NoDb.host = NoHost /\ ~PostMigration(NoStatus)
    BY StatusMade DEF Init, NoStatus, NoDb
<1>2. Well(NoStatus) /\ Adopting(NoStatus)
    BY <1>1 DEF Well, Adopting
<1> QED
    BY <1>1, <1>2 DEF DInv, WellInv, ExistingInv, ModeInv, MarkedInv, RerouteInv, DataInv,
       Serving, Adoption, Migrating

(* One step per action or kind of actions.                                 *)
LEMMA StepKeepsDInv == ASSUME RequestsFit, IInv, DInv, [Next]_vars PROVE DInv'
<1> USE DEF claimVars, runVars, worldVars, dataVars, Adoption
<1>1. CASE executeDbClaimRequest
    BY <1>1, StartKeepsData
<1>2. CASE StartDeletion
  <2>1. /\ pc = "idle" /\ pc' = "delete" /\ mem' = status
        /\ UNCHANGED <<spec, status, claim, cr, secretHost, wrote, holders, subscribed, strayed>>
      BY <1>2 DEF StartDeletion, Start
  <2>2. WellInv' /\ ExistingInv' /\ ModeInv'
      BY <2>1 DEF DInv, WellInv, ExistingInv, ModeInv, Serving
  <2>3. MarkedInv' /\ RerouteInv' /\ DataInv'
      BY <2>1 DEF DInv, MarkedInv, RerouteInv, DataInv, Owned, Serving
  <2> QED
      BY <2>2, <2>3 DEF DInv
<1>3. CASE manageCloudHost
  <2>1. \A h \in Hosts : cr[h] = "ready" => cr'[h] = "ready"
      BY <1>3 DEF manageCloudHost, IInv, LifeType
  <2> QED
      BY <1>3, <2>1, MiddleKeepsData DEF manageCloudHost, Continue, Serving
<1>4. CASE createDatabaseAndExtensions
  <2>1. /\ mem'.active = mem.active /\ mem'.migration = mem.migration /\ mem'.old = mem.old
        /\ mem'.new.state = mem.new.state /\ mem'.new.host = req
      BY <1>4 DEF createDatabaseAndExtensions, Continue, IInv, LifeType, Status, DbStatus
  <2> QED
      BY <1>4, <2>1, MiddleKeepsData DEF createDatabaseAndExtensions, Continue, Serving
<1>5. CASE manageUserAndExtensions
  <2>1. /\ mem'.active = mem.active /\ mem'.migration = mem.migration /\ mem'.old = mem.old
        /\ mem'.new = mem.new
    <3>1. mem' = [mem EXCEPT !.user = TRUE] /\ mem \in Status
        BY <1>5 DEF manageUserAndExtensions, IInv, LifeType
    <3> QED
        BY <3>1, Zenon DEF Status
  <2> QED
      BY <1>5, <2>1, MiddleKeepsData DEF manageUserAndExtensions, Continue, Serving
<1>6. CASE ManageSystemFunctions \/ createOrUpdateSecret \/ setTargetPasswordInTempSecret
    BY <1>6, MiddleKeepsData DEF ManageSystemFunctions, createOrUpdateSecret,
       setTargetPasswordInTempSecret, Continue, Serving
<1>7. CASE \/ ActiveDBSuccessReconcile
           \/ ManageExistingUser \/ WriteExistingSecret \/ ActivateExistingDB
           \/ MigrationInProgressStatus \/ Subscribe \/ Reroute \/ CompleteMigration
    BY <1>7, SuccessKeepsData, ExistingKeepsData, MigrationKeepsData, Zenon
<1>8. CASE postMigrationInProgress \/ OldHostLeft
  <2>1. /\ mem' = [mem EXCEPT !.old = NoDb] /\ mem \in Status
        /\ pc = "post" /\ pc' = "cleared"
        /\ UNCHANGED <<spec, claim, status, secretHost, wrote, holders, subscribed, strayed>>
      BY <1>8 DEF postMigrationInProgress, OldHostLeft, Continue, IInv, LifeType
  <2>2. /\ mem'.active = mem.active /\ mem'.migration = mem.migration
        /\ mem'.new = mem.new /\ mem'.old = NoDb
      BY <2>1, Zenon DEF Status
  <2>3. ~PostMigration(mem')
      BY <2>2, StatusMade, Zenon DEF PostMigration
  <2>4. PostMigration(mem) /\ Well(mem) /\ mem.migration = status.migration
      BY <2>1 DEF IInv, RunInv, DInv, WellInv
  <2>5. Well(mem') /\ status.migration = "completed"
      BY <2>2, <2>3, <2>4 DEF Well
  <2>6. WellInv' /\ ExistingInv' /\ ModeInv'
      BY <2>1, <2>2, <2>4, <2>5 DEF DInv, WellInv, ExistingInv, ModeInv, Serving
  <2>7. MarkedInv' /\ RerouteInv' /\ DataInv'
      BY <2>1, <2>5 DEF DInv, MarkedInv, RerouteInv, DataInv, Owned, Migrating, Serving
  <2> QED
      BY <2>6, <2>7 DEF DInv
<1>9. CASE deleteExternalResources
  <2>1. /\ pc = "delete" /\ pc' = "finalize" /\ claim = "deleting"
        /\ UNCHANGED <<spec, claim, status, mem, strayed>>
      BY <1>9 DEF deleteExternalResources, Continue, IInv, RunInv
  <2>2. WellInv' /\ ExistingInv' /\ ModeInv'
      BY <2>1 DEF DInv, WellInv, ExistingInv, ModeInv, Serving
  <2>3. MarkedInv' /\ RerouteInv' /\ DataInv'
      BY <2>1 DEF DInv, MarkedInv, RerouteInv, DataInv, Owned, Serving
  <2> QED
      BY <2>2, <2>3 DEF DInv
<1>10. CASE \/ ClearOldDB \/ RemoveFinalizer \/ Restart \/ SkipExistingDB \/ MigrationRetry
            \/ HostBeingDeleted \/ SourceUnknown \/ SubscriptionRefused
            \/ MigrationCannotRun \/ StatusConflict \/ CallFails
  <2>1. /\ pc # "idle" /\ pc' = "idle" /\ status' \in {status, mem}
        /\ claim' \in {claim, "gone"}
        /\ UNCHANGED <<spec, cr, secretHost, wrote, holders, subscribed, strayed>>
      BY <1>10 DEF ClearOldDB, RemoveFinalizer, Restart, SkipExistingDB, MigrationRetry,
         HostBeingDeleted, SourceUnknown, SubscriptionRefused, MigrationCannotRun,
         StatusConflict, CallFails, Fail, Continue
  <2> QED
      BY <2>1, EndKeepsData DEF Owned
<1>11. CASE MigrationAborted
  <2> DEFINE n == [mem EXCEPT !.new.host = req, !.migration = ""]
  <2>1. /\ pc = "database" /\ pc' = "idle" /\ status' \in {status, n} /\ mem \in Status
        /\ mem.migration = "initial"
        /\ UNCHANGED <<spec, claim, cr, secretHost, wrote, holders, subscribed, strayed>>
      BY <1>11 DEF MigrationAborted, PreviouslyManaged, Fail, IInv, LifeType
  <2>2. n.active = mem.active /\ n.old = mem.old /\ n.migration = "" /\ n.new.host = req
      BY <2>1 DEF Status, DbStatus
  <2>3. /\ mem.active = status.active /\ ~PostMigration(mem) /\ Well(mem) /\ Well(status)
        /\ status.migration = "initial" /\ ~spec.existing /\ req \in RequestedHosts
      BY <2>1 DEF IInv, RunInv, DInv, WellInv, ExistingInv, ModeInv, Serving, Leaving
  <2>4. CASE status' = status
      BY <2>1, <2>4, EndKeepsData
  <2>5. CASE status' = n
    <3> HIDE DEF n
    <3>1. WellInv'
        BY <2>1, <2>2, <2>3, <2>5 DEF WellInv, Well, PostMigration
    <3> QED
        BY <2>1, <2>2, <2>3, <2>5, <3>1 DEF DInv, ExistingInv, ModeInv, MarkedInv, RerouteInv,
           DataInv, Owned, Migrating, Serving
  <2> QED
      BY <2>1, <2>4, <2>5
<1>12. CASE EditClaim
  <2>1. /\ spec'.existing => spec.existing
        /\ UNCHANGED <<claim, status, mem, pc, mode, req, cr, secretHost, wrote, holders,
                       subscribed, strayed>>
      BY <1>12 DEF EditClaim
  <2>2. WellInv' /\ ExistingInv' /\ ModeInv'
      BY <2>1 DEF DInv, WellInv, ExistingInv, ModeInv
  <2>3. MarkedInv' /\ RerouteInv' /\ DataInv'
      BY <2>1 DEF DInv, MarkedInv, RerouteInv, DataInv, Owned
  <2> QED
      BY <2>2, <2>3 DEF DInv
<1>13. CASE DeleteClaim
  <2>1. /\ claim' \in {"gone", "deleting"}
        /\ UNCHANGED <<spec, status, mem, pc, mode, req, strayed>>
      BY <1>13 DEF DeleteClaim
  <2>2. WellInv' /\ ExistingInv' /\ ModeInv'
      BY <2>1 DEF DInv, WellInv, ExistingInv, ModeInv
  <2>3. MarkedInv' /\ RerouteInv' /\ DataInv'
      BY <2>1 DEF DInv, MarkedInv, RerouteInv, DataInv, Owned
  <2> QED
      BY <2>2, <2>3 DEF DInv
<1>14. CASE Cloud
  <2>1. PICK h \in Hosts : HostCreated(h) \/ HostDeleted(h) \/ Replicates(h)
      BY <1>14 DEF Cloud
  <2>2. UNCHANGED <<spec, claim, status, mem, pc, mode, req, secretHost, wrote, strayed>>
      BY <2>1 DEF HostCreated, HostDeleted, Replicates
  <2>3. /\ \A g \in Hosts : cr[g] = "ready" => cr'[g] = "ready"
        /\ \A g : g \in holders => g \in holders' \/ (g \in Hosts /\ cr[g] # "ready")
        /\ \A g : g \in subscribed => g \in subscribed' \/ cr[g] # "ready"
      BY <2>1 DEF HostCreated, HostDeleted, Replicates, IInv, LifeType
  <2>4. WellInv' /\ ExistingInv' /\ ModeInv' /\ MarkedInv'
      BY <2>2 DEF DInv, WellInv, ExistingInv, ModeInv, MarkedInv
  <2>5. RerouteInv'
      BY <2>2, <2>3 DEF DInv, RerouteInv, Owned
  <2>6. Owned /\ status.active.state \in {"ready", "using-existing-db"} =>
           status.active.host \notin Hosts \/ cr[status.active.host] = "ready"
      BY ExternalIsNoHost DEF IInv, ActiveHostKept, DInv, WellInv, Well
  <2>7. DataInv'
      BY <2>2, <2>3, <2>6 DEF DInv, WellInv, Well, DataInv, RerouteInv, Owned
  <2> QED
      BY <2>4, <2>5, <2>7 DEF DInv
<1>15. CASE ApplicationWrites
  <2>1. /\ claim = "live" /\ holders' = {secretHost}
        /\ \/ secretHost # NoHost /\ secretHost = status.active.host
           \/ status.migration = "rerouted" /\ secretHost = status.new.host
        /\ UNCHANGED <<spec, claim, status, mem, pc, mode, req, cr, secretHost, subscribed,
                       strayed>>
      BY <1>15 DEF ApplicationWrites
  <2>2. DataInv'
      BY <2>1 DEF DInv, WellInv, Well, DataInv, RerouteInv, Owned
  <2> QED
      BY <2>1, <2>2 DEF DInv, WellInv, ExistingInv, ModeInv, MarkedInv, RerouteInv, Owned
<1>16. CASE Done \/ UNCHANGED vars
  <2>1. UNCHANGED <<spec, claim, status, mem, pc, mode, req, cr, secretHost, wrote, holders,
                    subscribed, strayed>>
      BY <1>16 DEF Done, vars
  <2>2. WellInv' /\ ExistingInv' /\ ModeInv'
      BY <2>1 DEF DInv, WellInv, ExistingInv, ModeInv
  <2>3. MarkedInv' /\ RerouteInv' /\ DataInv'
      BY <2>1 DEF DInv, MarkedInv, RerouteInv, DataInv, Owned
  <2> QED
      BY <2>2, <2>3 DEF DInv
<1> QED
    BY <1>1, <1>2, <1>3, <1>4, <1>5, <1>6, <1>7, <1>8, <1>9, <1>10, <1>11, <1>12, <1>13,
       <1>14, <1>15, <1>16, Zenon
    DEF Next, Controller

(* Where a request that is no upgrade of the host in use names that host,  *)
(* the application's data is in the database its secret names: through     *)
(* every migration, failure, restart and edit, unless the claim has asked  *)
(* back for the host a migration under way was leaving, or a step up to    *)
(* the rerouting was taken for a request of another host than the target.  *)
THEOREM DataFollowsSecret == ASSUME RequestsFit PROVE Spec => []DataFollows
<1>1. IInv /\ DInv /\ [Next]_vars => (IInv /\ DInv)'
    BY StepKeepsIInv, StepKeepsDInv, Zenon
<1>2. DInv => DataFollows
    BY DEF DInv, DataInv, DataFollows, Owned
<1> QED
    BY <1>1, <1>2, InitIInv, InitDInv, PTL DEF Spec
==============================================================================
