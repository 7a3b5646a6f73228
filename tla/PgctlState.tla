----------------------------- MODULE PgctlState -----------------------------
(***************************************************************************)
(* The states of the migration state machine of pkg/pgctl, numbered as the *)
(* Go enumeration numbers them: the order matters, because the controller  *)
(* compares states with > to decide which secret still holds the source    *)
(* DSN.                                                                    *)
(***************************************************************************)
EXTENDS Naturals

S_Initial                 == 0
S_ValidateConnection      == 1
S_CreatePublication       == 2
S_CopySchema              == 3
S_CreateSubscription      == 4
S_EnableSubscription      == 5
S_CutOverReadinessCheck   == 6
S_ResetTargetSequence     == 7
S_RerouteTargetSecret     == 8
S_WaitToDisableSource     == 9
S_DisableSourceAccess     == 10
S_MigrationInProgress     == 11
S_ValidateMigrationStatus == 12
S_DisableSubscription     == 13
S_DeleteSubscription      == 14
S_DeletePublication       == 15
S_Completed               == 16
S_Retry                   == 17

StateEnum == S_Initial .. S_Retry

(***************************************************************************)
(* The state object that runs for a recorded state.  S_MigrationInProgress *)
(* is what the controller records once the new database is provisioned; it *)
(* runs as the initial state.                                              *)
(***************************************************************************)
GetReplicatorState(state) ==
    IF state = S_MigrationInProgress THEN S_Initial ELSE state
=============================================================================
