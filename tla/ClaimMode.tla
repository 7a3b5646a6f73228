------------------------------ MODULE ClaimMode ------------------------------
(***************************************************************************)
(* What a reconcile is to do: the host parameters a claim asks for, when   *)
(* they ask for an upgrade, and the mode of operation.                     *)
(*                                                                         *)
(* A host is named by the hash of its parameters, so it is modelled by     *)
(* them.  SharedDBHost is never set and its branches are left out.         *)
(***************************************************************************)
EXTENDS Naturals, Sequences

CONSTANTS
    Classes,        \* instance classes
    DefaultClass,   \* the class of a claim that names none
    Versions,       \* database versions, as <<major>> or <<major, minor>>
    DefaultVersion  \* the version of a new claim that names none

ASSUME DefaultsAssumption == DefaultClass \in Classes /\ DefaultVersion \in Versions
ASSUME VersionsAssumption == \A v \in Versions : v \in Seq(Nat) /\ v # <<>>

Hosts == [class : Classes, version : Versions]
External == [class |-> "external", version |-> <<>>]  \* what SourceDataFrom names
NoHost == [class |-> "none", version |-> <<>>]

(* Of a claim's spec: UseExistingSource, SourceDataFrom, Shape, DBVersion. *)
Specs == [existing : BOOLEAN, source : BOOLEAN,
          class : Classes \cup {""}, version : Versions \cup {<<>>}]

DbStates == {"", "in-progress", "ready", "using-existing-db",
             "post-migration-in-progress"}
DbStatus == [state : DbStates, host : Hosts \cup {External, NoHost}]
NoDb == [state |-> "", host |-> NoHost]

(* MigrationState, with the states between S_MigrationInProgress and       *)
(* S_Completed told apart only by whether the target has its subscription  *)
(* ("syncing": from S_CutOverReadinessCheck on) and by which database the  *)
(* secret names.                                                           *)
MigrationStates == {"", "initial", "copying", "syncing", "rerouted", "completed"}
Migrating == {"copying", "syncing", "rerouted"}

-----------------------------------------------------------------------------
(* hostparams.New, as far as the name of the host depends on it.           *)
HostParams(spec, active) ==
    [class   |-> IF spec.class = "" THEN DefaultClass ELSE spec.class,
     version |-> IF spec.version # <<>> THEN spec.version
                 ELSE IF active.host \in Hosts THEN active.host.version
                 ELSE DefaultVersion]

HasInstanceClassChanged(spec, active) ==
    spec.class # "" /\ spec.class # active.host.class

(* Only the major versions are compared.                                   *)
HasVersionChanged(spec, active) ==
    Head(HostParams(spec, active).version) # Head(active.host.version)

(* The engine is part of what a shape stands for here: HasEngineChanged is *)
(* a change of class, which a claim without a shape does not ask for.      *)
IsUpgradeRequested(spec, active) ==
    HasInstanceClassChanged(spec, active) \/ HasVersionChanged(spec, active)

(* getMode enters an upgrade by marking the new database and forgetting    *)
(* the outcome of the previous migration.                                  *)
UpgradeWanted(spec, st) ==
    /\ st.old.state # "post-migration-in-progress"
    /\ ~spec.existing
    /\ st.active.state = "ready"
    /\ IsUpgradeRequested(spec, st.active)

MarkOnly(spec, st) ==
    IF UpgradeWanted(spec, st) /\ st.new.state = ""
    THEN [st EXCEPT !.new.state = "in-progress"]
    ELSE st

MarkUpgrade(spec, st) ==
    IF UpgradeWanted(spec, st) /\ st.new.state = ""
    THEN [st EXCEPT !.new.state = "in-progress", !.migration = ""]
    ELSE st

(* getMode, of the status MarkUpgrade returns.                             *)
getMode(spec, st) ==
    CASE st.old.state = "post-migration-in-progress" ->
            IF st.active.state = "ready" THEN "M_PostMigrationInProgress"
            ELSE "M_NotSupported"
      [] st.old.state # "post-migration-in-progress" /\ spec.existing ->
            IF spec.source THEN "M_UseExistingDB" ELSE "M_NotSupported"
      [] OTHER ->
            IF st.active.state = "using-existing-db" /\ st.migration # "completed"
            THEN IF st.migration \in {"", "initial"} THEN "M_MigrateExistingToNewDB"
                 ELSE "M_MigrationInProgress"
            ELSE IF UpgradeWanted(spec, st) /\ st.migration # "completed"
            THEN IF st.migration \in {"", "initial"} THEN "M_InitiateDBUpgrade"
                 ELSE "M_UpgradeDBInProgress"
            ELSE "M_UseNewDB"
==============================================================================
