--------------------------- MODULE MigrationProofs ---------------------------
(***************************************************************************)
(* Theorems about Migration, for every Mode, every set of pods and every   *)
(* bound.                                                                  *)
(***************************************************************************)
EXTENDS Migration, FiniteSetTheorems, TLAPS

USE DEF S_Initial, S_ValidateConnection, S_CreatePublication, S_CopySchema,
        S_CreateSubscription, S_EnableSubscription, S_CutOverReadinessCheck,
        S_ResetTargetSequence, S_RerouteTargetSecret, S_WaitToDisableSource,
        S_DisableSourceAccess, S_MigrationInProgress,
        S_ValidateMigrationStatus, S_DisableSubscription,
        S_DeleteSubscription, S_DeletePublication, S_Completed, S_Retry,
        StateEnum, DBs, None, PCs,
        claimVars, runVars, k8sVars, replVars, rowVars, envVars


(* The value reset_target_sequence gives the target's sequence is more     *)
(* than half of the rounding step ahead of the source's, for every         *)
(* rounding step.                                                          *)
LEMMA ResetValueIsAhead ==
    ASSUME NEW v \in Nat
    PROVE  /\ ResetValue(v) \in Nat
           /\ ResetValue(v) > v + SeqStep \div 2
  BY BoundsAssumption, SMTT(30) DEF ResetValue

(* What Status().Update leaves behind.                                     *)
LEMMA UpdateStatusEffect ==
    ASSUME TypeOK, NEW c \in Claim, UpdateStatus(c)
    PROVE  /\ claim' \in Claim /\ mem' = claim' /\ cache' = cache
           /\ claim'.state = c.state
           /\ claim'.active = c.active
           /\ claim'.rv = claim.rv + 1
           /\ mem.rv = claim.rv
<1>1. claim.rv + 1 \in Nat
  BY SMTT(30) DEF TypeOK, Claim
<1> QED
  BY <1>1 DEF UpdateStatus, Current, Claim

(* Every step keeps the variables in their types.                          *)
LEMMA TypeStep == TypeOK /\ [Next]_vars => TypeOK'
<1> SUFFICES ASSUME TypeOK, [Next]_vars PROVE TypeOK'
  OBVIOUS
<1> USE DEF TypeOK
<1>1. CASE Reconcile
  BY <1>1 DEF Reconcile
<1>2. CASE Fence
  BY <1>2 DEF Fence
<1>3. CASE Configure
  BY <1>3 DEF Configure, getSrcAppDsnFromSecret, AdminReaches,
     GetReplicatorState, Claim
<1>4. CASE ConfigureFails
  BY <1>4 DEF ConfigureFails
<1>5. CASE PersistState
  <2> DEFINE c == [mem EXCEPT !.state = nxt]
  <2>0. c \in Claim
    BY DEF Claim
  <2>1. claim' \in Claim /\ mem' \in Claim /\ cache' \in Claim
    BY <1>5, <2>0, UpdateStatusEffect DEF PersistState
  <2>2. QED
    BY <1>5, <2>1 DEF PersistState
<1>6. CASE StoreSourceDsn
  BY <1>6 DEF StoreSourceDsn
<1>7. CASE RewriteAppSecret
  BY <1>7 DEF RewriteAppSecret
<1>8. CASE CompleteMigration
  <2>1. CompletedClaim \in Claim
    BY DEF Claim, CompletedClaim
  <2>2. claim' \in Claim /\ mem' \in Claim /\ cache' \in Claim
    BY <1>8, <2>1, UpdateStatusEffect DEF CompleteMigration
  <2>3. QED
    BY <1>8, <2>2 DEF CompleteMigration
<1>9. CASE DeleteTempSecret
  BY <1>9 DEF DeleteTempSecret
<1>10. CASE StatusConflict
  BY <1>10 DEF StatusConflict
<1>11. CASE CopySchemaInterrupted
  BY <1>11 DEF CopySchemaInterrupted
<1>12. CASE Interrupt
  BY <1>12 DEF Interrupt
<1>13. CASE InformerSync
  BY <1>13 DEF InformerSync
<1>14. CASE ForeignEdit
  BY <1>14 DEF ForeignEdit, Claim
<1>15. CASE SyncTables
  BY <1>15 DEF SyncTables
<1>16. CASE ApplyRow
  BY <1>16 DEF ApplyRow
<1>0. ASSUME NEW rc \in RoleClaims, CopyRoleClaim(rc) PROVE TypeOK'
  BY <1>0 DEF CopyRoleClaim
<1>17. ASSUME NEW p \in Pods, PodReload(p) PROVE TypeOK'
  BY <1>17 DEF PodReload
<1>18. ASSUME NEW p \in Pods, InsertSource(p) PROVE TypeOK'
  BY <1>18 DEF InsertSource
<1>19. ASSUME NEW p \in Pods, InsertTarget(p) PROVE TypeOK'
  BY <1>19 DEF InsertTarget
<1>20. CASE InitialState
  BY <1>20 DEF InitialState, Executes
<1>21. CASE ValidateConnectionState
  BY <1>21 DEF ValidateConnectionState, Executes
<1>22. CASE CreatePublicationState
  BY <1>22 DEF CreatePublicationState, Executes
<1>23. CASE CopySchemaState
  <2>1. superuser' \in BOOLEAN
    BY Zenon, <1>23 DEF CopySchemaState
  <2>2. QED
    BY <1>23, <2>1 DEF CopySchemaState, Executes
<1>24. CASE CopySchemaRestoreFails
  BY ZenonT(30), <1>24, Zenon DEF CopySchemaRestoreFails, Executes
<1>25. CASE CreateSubscriptionState
  BY <1>25 DEF CreateSubscriptionState, Executes
<1>26. CASE EnableSubscriptionState
  BY <1>26 DEF EnableSubscriptionState, Executes
<1>27. CASE CutOverReadinessCheckState
  BY <1>27 DEF CutOverReadinessCheckState, Executes
<1>28. CASE CutOverReadinessCheckRetry
  BY <1>28 DEF CutOverReadinessCheckRetry, Retries
<1>29. CASE ResetTargetSequenceState
  BY <1>29, ResetValueIsAhead DEF ResetTargetSequenceState, Executes,
     LastValue
<1>30. CASE RerouteTargetSecretState
  BY <1>30 DEF RerouteTargetSecretState, Executes
<1>31. CASE WaitToDisableSourceState
  BY <1>31 DEF WaitToDisableSourceState, Executes
<1>32. CASE DisableSourceAccessState
  <2>1. srcOpen' \in BOOLEAN
    BY Zenon, <1>32 DEF DisableSourceAccessState
  <2>2. QED
    BY <1>32, <2>1 DEF DisableSourceAccessState, Executes
<1>33. CASE ValidateMigrationStatusState
  BY <1>33 DEF ValidateMigrationStatusState, Executes
<1>34. CASE ValidateMigrationStatusRetry
  BY <1>34 DEF ValidateMigrationStatusRetry, Retries
<1>35. CASE DisableSubscriptionState
  BY <1>35 DEF DisableSubscriptionState, Executes
<1>36. CASE DeleteSubscriptionState
  <2>1. relReady' \in BOOLEAN
    BY Zenon, <1>36 DEF DeleteSubscriptionState
  <2>2. QED
    BY <1>36, <2>1 DEF DeleteSubscriptionState, Executes
<1>37. CASE DeletePublicationState
  <2>1. pub' \in BOOLEAN
    BY Zenon, <1>37 DEF DeletePublicationState
  <2>2. QED
    BY <1>37, <2>1 DEF DeletePublicationState, Executes
<1>38. CASE UNCHANGED vars
  BY <1>38 DEF vars
<1>39. ASSUME NEW rc \in RoleClaims, SkipRoleClaim(rc) PROVE TypeOK'
  BY <1>39 DEF SkipRoleClaim
<1> QED
  BY ZenonT(30), <1>0, <1>1, <1>2, <1>3, <1>4, <1>5, <1>6, <1>7, <1>8, <1>9,
     <1>10, <1>11, <1>12, <1>13, <1>14, <1>15, <1>16, <1>17, <1>18, <1>19,
     <1>20, <1>21, <1>22, <1>23, <1>24, <1>25, <1>26, <1>27, <1>28, <1>29,
     <1>30, <1>31, <1>32, <1>33, <1>34, <1>35, <1>36, <1>37, <1>38, <1>39
  DEF Next, Controller, Execute, Environment

(* The migration starts with every variable in its type.                   *)
LEMMA InitTypeOK == Init => TypeOK
<1> SUFFICES ASSUME Init PROVE TypeOK
  OBVIOUS
<1> USE DEF Init
<1>1. claim \in Claim /\ cache \in Claim /\ mem \in Claim
  BY DEF InitialClaim, Claim
<1>2. /\ pc \in PCs /\ s \in StateEnum /\ nxt \in StateEnum
      /\ srcUser \in DBs /\ appSecret \in DBs /\ temp \in DBs \cup {None}
      /\ sub \in {None, "disabled", "enabled"}
  OBVIOUS
<1>3. /\ pub \in BOOLEAN /\ relReady \in BOOLEAN /\ schema \in BOOLEAN
      /\ superuser \in BOOLEAN /\ srcOpen \in BOOLEAN
  BY Zenon
<1>4. /\ srcLast \in Nat /\ applied \in Nat /\ tgtLast \in Nat
      /\ resetAt \in Nat /\ faults \in Nat /\ edits \in Nat
  BY BoundsAssumption
<1>5. /\ own \in SUBSET Nat /\ podDb \in [Pods -> DBs]
      /\ copies \in SUBSET RoleClaims /\ skipped \in SUBSET RoleClaims
  OBVIOUS
<1> QED
  BY <1>1, <1>2, <1>3, <1>4, <1>5 DEF TypeOK

(* Every variable of the migration keeps its type.                         *)
THEOREM TypeCorrect == Spec => []TypeOK
  BY InitTypeOK, TypeStep, PTL DEF Spec

-----------------------------------------------------------------------------
(***************************************************************************)
(* The inductive invariant.                                                *)
(***************************************************************************)
Recorded == GetReplicatorState(claim.state)

(* The states that are steps: migration_in_progress stands for the first.  *)
Steps == StateEnum \ {S_MigrationInProgress}

Successor(step) ==
    IF step = S_DisableSourceAccess THEN S_ValidateMigrationStatus ELSE step + 1

Stepping == pc \in {"execute", "next", "rewrite", "persist"}

(* The step has been executed, and the running reconcile or the claim      *)
(* remembers it.                                                           *)
Past(step) ==
    \/ Recorded > step
    \/ pc \in {"next", "rewrite", "persist"} /\ s = step

(* Two copies of the claim with one resourceVersion are equal.             *)
VersionInv ==
    /\ cache.rv <= claim.rv /\ (cache.rv = claim.rv => cache = claim)
    /\ mem.rv <= claim.rv /\ (mem.rv = claim.rv => mem = claim)

(* A reconcile past the fence works on the recorded state; the state it    *)
(* moves to is the successor of the recorded one.                          *)
ControlInv ==
    /\ claim.state \notin {S_Initial, S_Retry}
    /\ claim.active = "target" <=> claim.state = S_Completed
    /\ pc = "fence" => mem.state # S_Completed
    /\ pc = "configure" \/ Stepping =>
          mem.state = claim.state /\ claim.state # S_Completed
    /\ Stepping => s = Recorded
    /\ pc = "next" => nxt = Successor(s)
    /\ pc \in {"rewrite", "persist"} =>
          s = S_ResetTargetSequence /\ nxt = S_RerouteTargetSecret
    /\ pc = "cleanup" => claim.state = S_Completed

(* Which steps have been taken determines the subscription and the grants. *)
ReplicationInv ==
    /\ sub = "enabled" =>
          Recorded \in S_EnableSubscription .. S_DisableSubscription
    /\ Past(S_CreateSubscription) /\ Recorded <= S_DisableSubscription
          => sub # None
    /\ Past(S_EnableSubscription) /\ Recorded <= S_ValidateMigrationStatus
          => sub = "enabled"
    /\ Past(S_CutOverReadinessCheck) /\ sub = "enabled" => relReady
    /\ Past(S_DisableSubscription) => sub # "enabled"
    /\ Recorded < S_DisableSourceAccess => srcOpen
    /\ Past(S_DisableSourceAccess) => ~srcOpen
    /\ Past(S_CopySchema) => ~superuser

(* The application meets the target only after the secret was rewritten,   *)
(* the target's rows come only from an enabled subscription.               *)
RerouteInv ==
    /\ Recorded < S_ResetTargetSequence => appSecret = "source"
    /\ Recorded >= S_RerouteTargetSecret \/ pc = "persist"
          => appSecret = "target"
    /\ appSecret = "source" =>
          own = {} /\ \A p \in Pods : podDb[p] = "source"
    /\ Recorded < S_EnableSubscription => applied = 0

IInv == TypeOK /\ VersionInv /\ ControlInv /\ ReplicationInv /\ RerouteInv

(* Faults and edits spare the reroute, or the mode makes the controller    *)
(* notice that it reads the wrong DSN.                                     *)
Careful == DisturbReroute = FALSE \/ Mode = "upgrade"

(* The source DSN and who still knows it.                                  *)
DsnInv ==
    /\ claim.state # S_Completed => temp = "source"
    /\ Stepping => srcUser = "source"
    /\ Stepping /\ pc # "persist" /\ s = S_ResetTargetSequence
          => appSecret = "source"
    /\ DisturbReroute = FALSE =>
          /\ Unrecorded => pc \in {"execute", "next", "persist"}
          /\ Unrecorded \/ Rerouting => Current

(* The target's rows: counted once the counts are accepted, and given ids  *)
(* ahead of the source's.                                                  *)
RowInv ==
    /\ IsFiniteSet(own)
    /\ Past(S_ValidateMigrationStatus) => srcLast <= applied + Cardinality(own)
    /\ appSecret = "target" \/ Past(S_ResetTargetSequence)
          => tgtLast > resetAt + SeqStep \div 2
    /\ \A id \in own : id > resetAt + SeqStep \div 2

-----------------------------------------------------------------------------
(* The write of PersistState, in terms of the claim's fields.              *)
LEMMA PersistEffect ==
    ASSUME TypeOK, PersistState
    PROVE  /\ claim' \in Claim /\ mem' = claim' /\ cache' = cache
           /\ claim'.state = nxt /\ claim'.active = mem.active
           /\ claim'.rv = claim.rv + 1 /\ mem.rv = claim.rv
<1> DEFINE c == [mem EXCEPT !.state = nxt]
<1>1. c \in Claim /\ c.state = nxt /\ c.active = mem.active
  BY DEF TypeOK, Claim
<1>2. UpdateStatus(c)
  BY DEF PersistState
<1> QED
  BY Zenon, <1>1, <1>2, UpdateStatusEffect

(* The write of CompleteMigration, in terms of the claim's fields.         *)
LEMMA CompleteEffect ==
    ASSUME TypeOK, CompleteMigration
    PROVE  /\ claim' \in Claim /\ mem' = claim' /\ cache' = cache
           /\ claim'.state = S_Completed /\ claim'.active = "target"
           /\ claim'.rv = claim.rv + 1 /\ mem.rv = claim.rv
<1>1. CompletedClaim \in Claim
  BY DEF TypeOK, Claim, CompletedClaim
<1>2. CompletedClaim.state = S_Completed /\ CompletedClaim.active = "target"
  BY DEF CompletedClaim
<1> QED
  BY <1>1, <1>2, UpdateStatusEffect DEF CompleteMigration

(* What a write by somebody else changes.                                  *)
LEMMA ForeignEditEffect ==
    ASSUME TypeOK, ForeignEdit
    PROVE  /\ claim'.state = claim.state /\ claim'.active = claim.active
           /\ claim'.rv = claim.rv + 1
  BY Zenon DEF TypeOK, Claim, ForeignEdit

(* The control part of every Execute: it moves to the successor state or   *)
(* ends the reconcile, and leaves the claim and the secrets alone.         *)
LEMMA ExecuteFrame ==
    ASSUME Execute
    PROVE  /\ pc = "execute"
           /\ \/ pc' = "next" /\ nxt' = Successor(s)
              \/ /\ pc' = "idle" /\ nxt' = nxt
                 /\ s \in {S_CopySchema, S_CutOverReadinessCheck,
                           S_ValidateMigrationStatus}
           /\ UNCHANGED <<claimVars, mem, s, srcUser, k8sVars, envVars>>
<1>1. CASE InitialState \/ ValidateConnectionState \/ CreatePublicationState
           \/ CopySchemaState
  BY <1>1, SMTT(30)
  DEF Executes, InitialState, ValidateConnectionState,
      CreatePublicationState, CopySchemaState, Successor
<1>2. CASE CopySchemaRestoreFails \/ CutOverReadinessCheckRetry
           \/ ValidateMigrationStatusRetry
  BY <1>2, SMTT(30)
  DEF Retries, CopySchemaRestoreFails, CutOverReadinessCheckRetry,
      ValidateMigrationStatusRetry
<1>3. CASE CreateSubscriptionState \/ EnableSubscriptionState
           \/ CutOverReadinessCheckState \/ ResetTargetSequenceState
  BY <1>3, SMTT(30)
  DEF Executes, CreateSubscriptionState, EnableSubscriptionState,
      CutOverReadinessCheckState, ResetTargetSequenceState, Successor
<1>4. CASE RerouteTargetSecretState \/ WaitToDisableSourceState
           \/ DisableSourceAccessState \/ ValidateMigrationStatusState
  BY <1>4, SMTT(30)
  DEF Executes, RerouteTargetSecretState, WaitToDisableSourceState,
      DisableSourceAccessState, ValidateMigrationStatusState, Successor
<1>5. CASE DisableSubscriptionState \/ DeleteSubscriptionState
           \/ DeletePublicationState
  BY <1>5, SMTT(30)
  DEF Executes, DisableSubscriptionState, DeleteSubscriptionState,
      DeletePublicationState, Successor
<1> QED
  BY <1>1, <1>2, <1>3, <1>4, <1>5, Zenon DEF Execute

(* An action that leaves the claim alone, or writes it with a fresh        *)
(* version, preserves VersionInv.                                          *)
LEMMA VersionStep == TypeOK /\ VersionInv /\ [Next]_vars => VersionInv'
<1> SUFFICES ASSUME TypeOK, VersionInv, [Next]_vars PROVE VersionInv'
  OBVIOUS
<1>t. /\ claim.rv \in Nat /\ cache.rv \in Nat /\ mem.rv \in Nat
  BY DEF TypeOK, Claim
<1>1. CASE UNCHANGED <<claim, cache, mem>>
  BY <1>1 DEF VersionInv
<1>2. CASE Reconcile
  BY <1>2 DEF Reconcile, VersionInv
<1>3. CASE PersistState
  BY <1>3, <1>t, PersistEffect DEF VersionInv
<1>4. CASE CompleteMigration
  BY <1>4, <1>t, CompleteEffect DEF VersionInv
<1>5. CASE InformerSync
  BY <1>5, <1>t DEF InformerSync, VersionInv
<1>6. CASE ForeignEdit
  BY <1>6, <1>t, ForeignEditEffect DEF ForeignEdit, VersionInv
<1>7. CASE Execute
  BY Zenon, <1>7, <1>1, ExecuteFrame
<1>8. CASE Fence \/ Configure \/ ConfigureFails \/ StoreSourceDsn
           \/ RewriteAppSecret \/ DeleteTempSecret \/ StatusConflict
           \/ CopySchemaInterrupted \/ Interrupt
  BY Zenon, <1>8, <1>1 DEF Fence, Configure, ConfigureFails, StoreSourceDsn,
     RewriteAppSecret, DeleteTempSecret, StatusConflict,
     CopySchemaInterrupted, Interrupt
<1>9. CASE SyncTables \/ ApplyRow
           \/ (\E rc \in RoleClaims : CopyRoleClaim(rc) \/ SkipRoleClaim(rc))
           \/ UNCHANGED vars
           \/ \E p \in Pods : PodReload(p) \/ InsertSource(p) \/ InsertTarget(p)
  BY Zenon, <1>9, <1>1 DEF SyncTables, ApplyRow, CopyRoleClaim, SkipRoleClaim, vars,
     PodReload, InsertSource,
     InsertTarget
<1> QED
  BY <1>1, <1>2, <1>3, <1>4, <1>5, <1>6, <1>7, <1>8, <1>9
  DEF Next, Controller, Environment

(* No step, fault or edit breaks the correspondence between the running    *)
(* reconcile and the claim.                                                *)
LEMMA ControlStep ==
    TypeOK /\ VersionInv /\ ControlInv /\ [Next]_vars => ControlInv'
<1> SUFFICES ASSUME TypeOK, VersionInv, ControlInv, [Next]_vars
             PROVE  ControlInv'
  OBVIOUS
<1> USE DEF ControlInv, Stepping, Recorded, GetReplicatorState
<1>t. claim.state \in StateEnum /\ s \in StateEnum /\ nxt \in StateEnum
  BY DEF TypeOK, Claim
<1>1. CASE UNCHANGED <<claim, pc, mem, s, nxt>>
  BY <1>1
<1>2. CASE Reconcile
  BY <1>2 DEF Reconcile
<1>3. CASE Fence
  BY <1>3 DEF Fence, Current, VersionInv
<1>4. CASE Configure
  BY <1>4 DEF Configure
<1>5. CASE Execute
  BY <1>5, ExecuteFrame
<1>6. CASE PersistState
  BY <1>6, <1>t, PersistEffect DEF PersistState, Successor, VersionInv
<1>7. CASE StoreSourceDsn
  BY <1>7, <1>t DEF StoreSourceDsn, Successor
<1>8. CASE RewriteAppSecret
  BY <1>8 DEF RewriteAppSecret
<1>9. CASE CompleteMigration
  BY <1>9, CompleteEffect DEF CompleteMigration
<1>10. CASE pc' = "idle" /\ UNCHANGED <<claim, mem, s, nxt>>
  BY ZenonT(30), <1>10
<1>11. CASE ConfigureFails \/ DeleteTempSecret \/ StatusConflict
            \/ CopySchemaInterrupted \/ Interrupt
  BY <1>11, <1>10, Zenon DEF ConfigureFails, DeleteTempSecret, StatusConflict,
     CopySchemaInterrupted, Interrupt
<1>12. CASE ForeignEdit
  BY Zenon, <1>12, ForeignEditEffect DEF ForeignEdit
<1>13. CASE InformerSync \/ SyncTables \/ ApplyRow
            \/ (\E rc \in RoleClaims : CopyRoleClaim(rc) \/ SkipRoleClaim(rc))
            \/ UNCHANGED vars
            \/ \E p \in Pods : PodReload(p) \/ InsertSource(p) \/ InsertTarget(p)
  BY Zenon, <1>13, <1>1 DEF InformerSync, SyncTables, ApplyRow, CopyRoleClaim, SkipRoleClaim,
     vars, PodReload,
     InsertSource, InsertTarget
<1> QED
  BY ZenonT(30), <1>1, <1>2, <1>3, <1>4, <1>5, <1>6, <1>7, <1>8, <1>9, <1>11,
     <1>12, <1>13
  DEF Next, Controller, Environment

(* Apart from an Execute, a step makes nothing past that was not; the      *)
(* recorded state moves only to its successor, once it is past.            *)
LEMMA ProgressStep ==
    ASSUME TypeOK, VersionInv, ControlInv, [Next]_vars, ~Execute
    PROVE  /\ \A k \in Steps : Past(k)' => Past(k)
           /\ \/ Recorded' = Recorded
              \/ Recorded' = Successor(Recorded) /\ Past(Recorded)
<1> USE DEF ControlInv, Stepping, Recorded, GetReplicatorState, Past, Steps
<1>t. claim.state \in StateEnum /\ s \in StateEnum /\ nxt \in StateEnum
  BY DEF TypeOK, Claim
<1>1. CASE UNCHANGED <<claim, pc, s>>
  BY <1>1
<1>2. CASE pc' \notin {"next", "rewrite", "persist"} /\ UNCHANGED claim
  BY Zenon, <1>2
<1>3. CASE Reconcile \/ Fence \/ Configure \/ ConfigureFails
           \/ DeleteTempSecret \/ StatusConflict
           \/ CopySchemaInterrupted \/ Interrupt
  BY Zenon, <1>3, <1>2 DEF Reconcile, Fence, Configure, ConfigureFails,
     DeleteTempSecret, StatusConflict, CopySchemaInterrupted, Interrupt
<1>4. CASE PersistState
  <2>1. Recorded' = Successor(Recorded) /\ Past(Recorded)
    BY <1>4, <1>t, PersistEffect DEF PersistState, Successor
  <2>2. \A k \in Steps : Past(k)' => Past(k)
    BY <1>4, <1>t, PersistEffect DEF PersistState, Successor
  <2> QED
    BY <2>1, <2>2
<1>5. CASE CompleteMigration
  <2>1. Recorded' = Successor(Recorded) /\ Past(Recorded)
    BY <1>5, <1>t, CompleteEffect DEF CompleteMigration, Successor
  <2>2. \A k \in Steps : Past(k)' => Past(k)
    BY <1>5, <1>t, CompleteEffect DEF CompleteMigration, Successor
  <2> QED
    BY <2>1, <2>2
<1>6. CASE StoreSourceDsn \/ RewriteAppSecret
  BY <1>6 DEF StoreSourceDsn, RewriteAppSecret
<1>7. CASE ForeignEdit
  BY Zenon, <1>7, ForeignEditEffect DEF ForeignEdit
<1>8. CASE InformerSync \/ SyncTables \/ ApplyRow
           \/ (\E rc \in RoleClaims : CopyRoleClaim(rc) \/ SkipRoleClaim(rc))
           \/ UNCHANGED vars
           \/ \E p \in Pods : PodReload(p) \/ InsertSource(p) \/ InsertTarget(p)
  BY Zenon, <1>8, <1>1 DEF InformerSync, SyncTables, ApplyRow, CopyRoleClaim, SkipRoleClaim,
     vars, PodReload,
     InsertSource, InsertTarget
<1> QED
  BY ZenonT(30), <1>1, <1>3, <1>4, <1>5, <1>6, <1>7, <1>8
  DEF Next, Controller, Environment

(* The subscription and the grants follow the recorded progress.           *)
LEMMA ReplicationStep ==
    TypeOK /\ VersionInv /\ ControlInv /\ ReplicationInv /\ [Next]_vars
        => ReplicationInv'
<1> SUFFICES ASSUME TypeOK, VersionInv, ControlInv, ReplicationInv,
                    [Next]_vars
             PROVE  ReplicationInv'
  OBVIOUS
<1>t. Recorded \in StateEnum /\ s \in StateEnum
  BY SMTT(30) DEF TypeOK, Claim, Recorded, GetReplicatorState
<1>1. CASE Execute
  <2> USE <1>t DEF ReplicationInv, ControlInv, Past, Stepping
  <2>r. Recorded' = Recorded
    BY <1>1, ExecuteFrame DEF Recorded, GetReplicatorState
  <2>1. CASE UNCHANGED replVars /\ s \in {S_Initial, S_ValidateConnection,
               S_CreatePublication, S_RerouteTargetSecret,
               S_ResetTargetSequence, S_WaitToDisableSource,
               S_ValidateMigrationStatus}
    BY <1>1, <2>1, <2>r, ExecuteFrame
  <2>2. CASE CreatePublicationState
    BY <2>2, <2>r DEF CreatePublicationState, Executes
  <2>3. CASE CopySchemaState
    BY <2>3, <2>r DEF CopySchemaState, Executes
  <2>4. CASE CopySchemaRestoreFails
    BY <2>4, <2>r DEF CopySchemaRestoreFails
  <2>5. CASE CreateSubscriptionState
    BY <2>5, <2>r DEF CreateSubscriptionState, Executes
  <2>6. CASE EnableSubscriptionState
    BY <2>6, <2>r DEF EnableSubscriptionState, Executes
  <2>7. CASE CutOverReadinessCheckState
    BY <2>7, <2>r DEF CutOverReadinessCheckState, Executes, CutOverReady
  <2>8. CASE CutOverReadinessCheckRetry
    BY <2>8, <2>r DEF CutOverReadinessCheckRetry, Retries
  <2>9. CASE DisableSourceAccessState
    BY <2>9, <2>r DEF DisableSourceAccessState, Executes
  <2>10. CASE DisableSubscriptionState
    BY <2>10, <2>r DEF DisableSubscriptionState, Executes
  <2>11. CASE DeleteSubscriptionState
    BY <2>11, <2>r DEF DeleteSubscriptionState, Executes
  <2>12. CASE DeletePublicationState
    BY SMTT(30), <2>12, <2>r DEF DeletePublicationState, Executes
  <2> QED
    BY ZenonT(30), <1>1, <2>1, <2>2, <2>3, <2>4, <2>5, <2>6, <2>7, <2>8, <2>9,
       <2>10,
       <2>11, <2>12
    DEF Execute, InitialState, ValidateConnectionState,
        ResetTargetSequenceState, RerouteTargetSecretState,
        WaitToDisableSourceState, ValidateMigrationStatusState,
        ValidateMigrationStatusRetry, Executes, Retries
<1>2. CASE ~Execute
  <2>p. /\ \A k \in Steps : Past(k)' => Past(k)
        /\ \/ Recorded' = Recorded
           \/ Recorded' = Successor(Recorded) /\ Past(Recorded)
    BY <1>2, ProgressStep
  <2>1. CASE UNCHANGED replVars
    BY <1>t, <2>p, <2>1 DEF ReplicationInv, Successor, Steps
  <2>2. CASE CopySchemaInterrupted
    BY <1>t, <2>p, <2>2
    DEF ReplicationInv, CopySchemaInterrupted, ControlInv, Stepping, Past,
        Successor, Steps
  <2>3. CASE SyncTables
    BY <1>t, <2>p, <2>3 DEF ReplicationInv, SyncTables, Successor,
       Steps
  <2> QED
    BY ZenonT(30), <1>2, <2>1, <2>2, <2>3
    DEF Next, Controller, Environment, Reconcile, Fence, Configure,
        ConfigureFails, PersistState, StoreSourceDsn, RewriteAppSecret,
        CompleteMigration, DeleteTempSecret, StatusConflict, Interrupt,
        InformerSync, ForeignEdit, ApplyRow, CopyRoleClaim, SkipRoleClaim, vars, PodReload,
           InsertSource,
        InsertTarget
<1> QED
  BY <1>1, <1>2

(* The application meets the target only after its secret was rewritten.   *)
LEMMA RerouteStep ==
    IInv /\ [Next]_vars => RerouteInv'
<1> SUFFICES ASSUME IInv, [Next]_vars PROVE RerouteInv'
  OBVIOUS
<1> USE DEF IInv
<1>t. /\ Recorded \in StateEnum /\ s \in StateEnum
      /\ applied \in Nat /\ podDb \in [Pods -> DBs] /\ appSecret \in DBs
  BY DEF TypeOK, Claim, Recorded, GetReplicatorState
<1>1. CASE Execute
  <2>1. Recorded' = Recorded /\ UNCHANGED <<appSecret, podDb>>
    BY Zenon, <1>1, ExecuteFrame DEF Recorded, GetReplicatorState
  <2>2. UNCHANGED <<applied, own>>
    BY Zenon, <1>1 DEF Execute, Executes, Retries, InitialState,
       ValidateConnectionState, CreatePublicationState, CopySchemaState,
       CopySchemaRestoreFails, CreateSubscriptionState,
       EnableSubscriptionState, CutOverReadinessCheckState,
       CutOverReadinessCheckRetry, ResetTargetSequenceState,
       RerouteTargetSecretState, WaitToDisableSourceState,
       DisableSourceAccessState, ValidateMigrationStatusState,
       ValidateMigrationStatusRetry, DisableSubscriptionState,
       DeleteSubscriptionState, DeletePublicationState
  <2> QED
    BY <1>1, <2>1, <2>2, ExecuteFrame DEF RerouteInv
<1>2. CASE ~Execute
  <2>p. /\ \A k \in Steps : Past(k)' => Past(k)
        /\ \/ Recorded' = Recorded
           \/ Recorded' = Successor(Recorded) /\ Past(Recorded)
    BY <1>2, ProgressStep
  <2>r. Recorded' >= Recorded
    BY <1>t, <2>p DEF Successor
  <2>1. CASE RewriteAppSecret
    BY <1>t, <2>1, <2>r DEF RewriteAppSecret, RerouteInv, ControlInv,
       Recorded,
       GetReplicatorState, Stepping
  <2>2. CASE \E p \in Pods : PodReload(p)
    BY Zenon, <1>t, <2>2, <2>r DEF PodReload, RerouteInv, Recorded,
       GetReplicatorState
  <2>3. CASE \E p \in Pods : InsertTarget(p)
    BY ZenonT(30), <1>t, <2>3, <2>r DEF InsertTarget, RerouteInv, Recorded,
       GetReplicatorState
  <2>4. CASE SyncTables \/ ApplyRow
    BY <1>t, <2>4, <2>r DEF SyncTables, ApplyRow, RerouteInv, ReplicationInv,
       Recorded, GetReplicatorState
  <2>5. CASE PersistState
    <3>1. UNCHANGED <<appSecret, podDb, own, applied>> /\ pc' # "persist"
      BY <2>5 DEF PersistState
    <3>2. Recorded = S_ResetTargetSequence => appSecret = "target"
      BY <1>t, <2>5 DEF PersistState, ControlInv, Stepping, Successor,
         RerouteInv
    <3>3. Recorded' = Successor(Recorded)
      BY <1>t, <2>5, PersistEffect
      DEF PersistState, ControlInv, Stepping, Successor, Recorded,
          GetReplicatorState
    <3> QED
      BY <1>t, <3>1, <3>2, <3>3 DEF RerouteInv, Successor
  <2>6. CASE CompleteMigration
    <3>1. UNCHANGED <<appSecret, podDb, own, applied>> /\ pc' # "persist"
      BY <2>6 DEF CompleteMigration
    <3>2. Recorded = S_DeletePublication
      BY <1>t, <2>6 DEF CompleteMigration, ControlInv, Stepping, Successor
    <3> QED
      BY <1>t, <2>p, <3>1, <3>2 DEF RerouteInv, Successor
  <2>7. CASE pc' # "persist" /\ Recorded' = Recorded
             /\ UNCHANGED <<appSecret, podDb, own, applied>>
    BY <2>7 DEF RerouteInv
  <2>8. CASE UNCHANGED <<appSecret, podDb, own, applied, pc>>
             /\ Recorded' = Recorded
    BY <2>8 DEF RerouteInv
  <2>9. CASE ForeignEdit
    BY Zenon, <2>8, <2>9, ForeignEditEffect
    DEF ForeignEdit, Recorded, GetReplicatorState
  <2>10. CASE Reconcile \/ Fence \/ Configure \/ ConfigureFails
              \/ StoreSourceDsn \/ DeleteTempSecret \/ StatusConflict
              \/ CopySchemaInterrupted \/ Interrupt
    BY ZenonT(30), <2>7, <2>10 DEF Reconcile, Fence, Configure,
       ConfigureFails,
       StoreSourceDsn, DeleteTempSecret, StatusConflict,
       CopySchemaInterrupted, Interrupt, Recorded, GetReplicatorState
  <2>11. CASE InformerSync \/ (\E p \in Pods : InsertSource(p))
              \/ (\E rc \in RoleClaims : CopyRoleClaim(rc) \/ SkipRoleClaim(rc))
              \/ UNCHANGED vars
    BY <2>8, <2>11, Zenon DEF InformerSync, InsertSource, CopyRoleClaim, SkipRoleClaim, vars,
       Recorded,
       GetReplicatorState
  <2> QED
    BY ZenonT(30), <1>2, <2>1, <2>2, <2>3, <2>4, <2>5, <2>6, <2>9, <2>10,
       <2>11
    DEF Next, Controller, Environment
<1> QED
  BY <1>1, <1>2

-----------------------------------------------------------------------------
(* The inductive invariant holds when the migration has just been recorded *)
(* in progress.                                                            *)
LEMMA InitIInv == Init => IInv
<1> SUFFICES ASSUME Init PROVE IInv
  OBVIOUS
<1>1. TypeOK
  BY InitTypeOK
<1>2. Recorded = S_Initial
  BY DEF Init, InitialClaim, Recorded, GetReplicatorState
<1>3. VersionInv
  BY DEF Init, InitialClaim, VersionInv
<1>4. ControlInv
  BY DEF Init, InitialClaim, ControlInv, Stepping
<1>5. ReplicationInv
  BY <1>2 DEF Init, ReplicationInv, Past
<1>6. RerouteInv
  BY <1>2 DEF Init, RerouteInv
<1> QED
  BY <1>1, <1>3, <1>4, <1>5, <1>6 DEF IInv

(* The inductive invariant holds throughout, whatever faults, conflicts    *)
(* and stale reads occur.                                                  *)
THEOREM Inductive == Spec => []IInv
<1>1. IInv /\ [Next]_vars => IInv'
  BY TypeStep, VersionStep, ControlStep, ReplicationStep, RerouteStep DEF IInv
<1> QED
  BY InitIInv, <1>1, PTL DEF Spec

(* The step a reconcile executes is the one the API server's claim         *)
(* records, however stale the cache it started from: the status write at   *)
(* the top of executeDbClaimRequest is a sufficient fence.                 *)
THEOREM FenceHolds == Spec => []ActsOnRecordedState
<1>1. IInv => ActsOnRecordedState
  BY DEF IInv, ControlInv, ActsOnRecordedState, Stepping, Recorded
<1> QED
  BY Inductive, <1>1, PTL

(* copy_schema's superuser grant is gone once a later state is recorded.   *)
THEOREM SuperuserRevoked == Spec => []SuperuserIsTemporary
<1>1. IInv => SuperuserIsTemporary
  BY DEF IInv, ReplicationInv, SuperuserIsTemporary, Past, Recorded
<1> QED
  BY Inductive, <1>1, PTL

(* The drop of every schema after a failed restore never hits a target     *)
(* that holds a row.                                                       *)
THEOREM DropIsHarmless == Spec => PopulatedTargetNeverDropped
<1>1. IInv /\ [Next]_vars
        => [schema /\ ~schema' => applied = 0 /\ own = {}]_vars
  <2> SUFFICES ASSUME IInv, Next, schema, ~schema'
               PROVE  applied = 0 /\ own = {}
    BY ZenonT(30)
  <2>1. pc = "execute" /\ s = S_CopySchema
    BY ZenonT(30) DEF Next, Controller, Environment, Reconcile, Fence,
       Configure,
       ConfigureFails, PersistState, StoreSourceDsn, RewriteAppSecret,
       CompleteMigration, DeleteTempSecret, StatusConflict, Interrupt,
       CopySchemaInterrupted, InformerSync, ForeignEdit, SyncTables,
       ApplyRow, CopyRoleClaim, SkipRoleClaim, vars, PodReload, InsertSource, InsertTarget,
       Execute, Executes, Retries, InitialState,
       ValidateConnectionState, CreatePublicationState, CopySchemaState,
       CopySchemaRestoreFails, CreateSubscriptionState,
       EnableSubscriptionState, CutOverReadinessCheckState,
       CutOverReadinessCheckRetry, ResetTargetSequenceState,
       RerouteTargetSecretState, WaitToDisableSourceState,
       DisableSourceAccessState, ValidateMigrationStatusState,
       ValidateMigrationStatusRetry, DisableSubscriptionState,
       DeleteSubscriptionState, DeletePublicationState
  <2> QED
    BY <2>1 DEF IInv, ControlInv, Stepping, RerouteInv
<1> QED
  BY Inductive, <1>1, PTL DEF Spec, PopulatedTargetNeverDropped

-----------------------------------------------------------------------------
(* An Execute maps to a step of Cutover or to a stutter.                   *)
LEMMA ExecuteRefines ==
    ASSUME IInv, Execute
    PROVE  [Promise!Next]_(Promise!vars)
<1> USE DEF IInv, ControlInv, Stepping, Link, Promise!Next, Promise!vars
<1>t. Recorded \in StateEnum /\ s \in StateEnum /\ s = Recorded
  BY ExecuteFrame DEF TypeOK, Claim, Recorded, GetReplicatorState
<1>f. UNCHANGED <<claim, appSecret>>
  BY ExecuteFrame
<1>1. CASE UNCHANGED <<sub, relReady, srcOpen>>
  BY <1>1, <1>f
<1>2. CASE CreateSubscriptionState
  BY <1>2, <1>f, <1>t DEF CreateSubscriptionState
<1>3. CASE EnableSubscriptionState
  <2>1. srcOpen /\ s = S_EnableSubscription
    BY <1>3, <1>t DEF EnableSubscriptionState, Executes, ReplicationInv
  <2> QED
    BY <1>3, <1>f, <2>1 DEF EnableSubscriptionState, Promise!Connect
<1>4. CASE DisableSourceAccessState
  <2>1. s = S_DisableSourceAccess
    BY <1>4 DEF DisableSourceAccessState, Executes
  <2>2. sub = "enabled" /\ relReady
    BY <1>t, <2>1 DEF ReplicationInv, Past
  <2>3. appSecret = "target"
    BY <1>t, <2>1 DEF RerouteInv
  <2>4. Link = "streaming" /\ Link' = "streaming" /\ srcOpen' = FALSE
    BY <1>4, <2>2 DEF DisableSourceAccessState
  <2> QED
    BY <1>f, <2>3, <2>4 DEF Promise!Freeze
<1>5. CASE DisableSubscriptionState
  <2>1. s = S_DisableSubscription
    BY <1>5 DEF DisableSubscriptionState, Executes
  <2>2. ~srcOpen
    BY <1>t, <2>1 DEF ReplicationInv, Past
  <2> QED
    BY <1>5, <1>f, <2>2 DEF DisableSubscriptionState, Promise!Cut
<1>6. CASE DeleteSubscriptionState
  <2>1. s = S_DeleteSubscription
    BY <1>6 DEF DeleteSubscriptionState, Executes
  <2>2. sub # "enabled"
    BY <1>t, <2>1 DEF ReplicationInv, Past
  <2> QED
    BY <1>6, <1>f, <2>2 DEF DeleteSubscriptionState
<1> QED
  BY ZenonT(30), <1>1, <1>2, <1>3, <1>4, <1>5, <1>6
  DEF Execute, Executes, Retries, InitialState, ValidateConnectionState,
      CreatePublicationState, CopySchemaState, CopySchemaRestoreFails,
      CutOverReadinessCheckState, CutOverReadinessCheckRetry,
      ResetTargetSequenceState, RerouteTargetSecretState,
      WaitToDisableSourceState, ValidateMigrationStatusState,
      ValidateMigrationStatusRetry, DeletePublicationState

(* The migration implements Cutover, for every mode and through every      *)
(* fault: the application is rerouted only to a live replica, the source   *)
(* is frozen only after that, and replication is cut only once frozen.     *)
THEOREM Refinement == Spec => KeepsCutoverPromise
<1>1. Init => Promise!Init
  BY SMTT(30) DEF Init, InitialClaim, Promise!Init, Link
<1>2. IInv /\ [Next]_vars => [Promise!Next]_(Promise!vars)
  <2> SUFFICES ASSUME IInv, [Next]_vars PROVE [Promise!Next]_(Promise!vars)
    OBVIOUS
  <2> USE DEF Link, Promise!Next, Promise!vars
  <2>t. Recorded \in StateEnum /\ s \in StateEnum
    BY DEF IInv, TypeOK, Claim, Recorded, GetReplicatorState
  <2>1. CASE Execute
    BY <2>1, ExecuteRefines
  <2>2. CASE UNCHANGED <<claim, appSecret, sub, relReady, srcOpen>>
    BY <2>2
  <2>3. CASE PersistState
    <3>1. claim'.active = claim.active
      BY SMTT(30), <2>3, PersistEffect DEF IInv, VersionInv
    <3> QED
      BY <2>3, <3>1 DEF PersistState
  <2>4. CASE RewriteAppSecret
    <3>1. sub = "enabled" /\ relReady
      BY <2>t, <2>4 DEF RewriteAppSecret, IInv, ControlInv, Stepping,
         ReplicationInv, Past
    <3>2. Link = "streaming" /\ Link' = "streaming" /\ appSecret' = "target"
      BY <2>4, <3>1 DEF RewriteAppSecret
    <3> QED
      BY <2>4, <3>2 DEF RewriteAppSecret, Promise!Reroute
  <2>5. CASE CompleteMigration
    <3>1. s = S_DeletePublication /\ s = Recorded
      BY <2>t, <2>5 DEF CompleteMigration, IInv, ControlInv, Stepping,
         Successor
    <3>2. sub # "enabled" /\ ~srcOpen
      BY <2>t, <3>1 DEF IInv, ReplicationInv, Past
    <3>3. Link = "cut" /\ Link' = "cut" /\ claim'.active = "target"
      BY <2>5, <3>2, CompleteEffect DEF CompleteMigration, IInv
    <3> QED
      BY <2>5, <3>3 DEF CompleteMigration, Promise!Finish
  <2>6. CASE ForeignEdit
    BY <2>6, ForeignEditEffect DEF ForeignEdit, IInv
  <2>7. CASE SyncTables
    <3>1. srcOpen
      BY <2>t, <2>7 DEF SyncTables, IInv, ReplicationInv, Past
    <3>2. Link = "off" /\ Link' = "streaming"
      BY Zenon, <2>7, <3>1 DEF SyncTables
    <3> QED
      BY <2>7, <3>2 DEF SyncTables, Promise!Connect
  <2>8. CASE Reconcile \/ Fence \/ Configure \/ ConfigureFails
             \/ StoreSourceDsn \/ DeleteTempSecret \/ StatusConflict
             \/ CopySchemaInterrupted \/ Interrupt
    BY Zenon, <2>2, <2>8 DEF Reconcile, Fence, Configure, ConfigureFails,
       StoreSourceDsn, DeleteTempSecret, StatusConflict,
       CopySchemaInterrupted, Interrupt
  <2>9. CASE InformerSync \/ ApplyRow
             \/ (\E rc \in RoleClaims : CopyRoleClaim(rc) \/ SkipRoleClaim(rc))
             \/ (\E p \in Pods : PodReload(p) \/ InsertSource(p) \/ InsertTarget(p))
             \/ UNCHANGED vars
    BY ZenonT(30), <2>2, <2>9 DEF InformerSync, ApplyRow, CopyRoleClaim, SkipRoleClaim, vars,
       PodReload, InsertSource,
       InsertTarget
  <2> QED
    BY  <2>1, <2>3, <2>4, <2>5, <2>6, <2>7, <2>8, <2>9, Zenon
    DEF Next, Controller, Environment
<1> QED
  BY Inductive, <1>1, <1>2, PTL DEF Spec, KeepsCutoverPromise, Promise!Spec

-----------------------------------------------------------------------------
RoleInv == claim.active = "target" => RoleClaims \subseteq copies \cup skipped

(* A claim whose active database is the target has all its role claims     *)
(* copied, but for those whose lookup failed, through every interruption   *)
(* of the copying.                                                         *)
THEOREM RoleClaimsCopied == Spec => []RoleClaimsFollow
<1>1. Init => RoleInv
  BY DEF Init, InitialClaim, RoleInv
<1>2. IInv /\ RoleInv /\ [Next]_vars => RoleInv'
  <2> SUFFICES ASSUME IInv, RoleInv, [Next]_vars PROVE RoleInv'
    OBVIOUS
  <2>1. CASE /\ copies \subseteq copies' /\ skipped \subseteq skipped'
             /\ claim'.active = claim.active
    BY <2>1 DEF RoleInv
  <2>2. CASE Execute
    BY <2>1, <2>2, ExecuteFrame
  <2>3. CASE PersistState
    <3>1. claim'.active = claim.active
      BY <2>3, PersistEffect DEF IInv, VersionInv
    <3> QED
      BY <2>1, <2>3, <3>1 DEF PersistState
  <2>4. CASE CompleteMigration
    BY <2>4 DEF CompleteMigration, RoleInv
  <2>5. CASE ForeignEdit
    BY <2>1, <2>5, ForeignEditEffect DEF ForeignEdit, IInv
  <2>6. CASE \E rc \in RoleClaims : CopyRoleClaim(rc) \/ SkipRoleClaim(rc)
    BY <2>1, <2>6 DEF CopyRoleClaim, SkipRoleClaim
  <2>7. CASE UNCHANGED <<claim, copies, skipped>>
    BY Zenon, <2>1, <2>7
  <2>10. CASE Configure
    BY <2>10 DEF Configure, RoleInv, IInv, ControlInv
  <2>8. CASE Reconcile \/ Fence \/ ConfigureFails
             \/ StoreSourceDsn \/ RewriteAppSecret \/ DeleteTempSecret
             \/ StatusConflict \/ CopySchemaInterrupted \/ Interrupt
    BY ZenonT(30), <2>7, <2>8 DEF Reconcile, Fence, ConfigureFails,
       StoreSourceDsn, RewriteAppSecret, DeleteTempSecret, StatusConflict,
       CopySchemaInterrupted, Interrupt
  <2>9. CASE InformerSync \/ SyncTables \/ ApplyRow \/ UNCHANGED vars
             \/ (\E p \in Pods : PodReload(p) \/ InsertSource(p) \/ InsertTarget(p))
    BY <2>7, <2>9, Zenon DEF InformerSync, SyncTables, ApplyRow, vars, PodReload,
       InsertSource, InsertTarget
  <2> QED
    BY  <2>2, <2>3, <2>4, <2>5, <2>6, <2>8, <2>9, <2>10, Zenon
    DEF Next, Controller, Environment
<1>3. RoleInv => RoleClaimsFollow
  BY Zenon, RoleClaimsAssumption DEF RoleInv, RoleClaimsFollow
<1> QED
  BY Inductive, <1>1, <1>2, <1>3, PTL DEF Spec

-----------------------------------------------------------------------------
(***************************************************************************)
(* The data, when the reroute is undisturbed or the mode is upgrade.       *)
(***************************************************************************)

(* No step loses the source DSN.                                           *)
LEMMA DsnStep ==
    Careful /\ IInv /\ DsnInv /\ [Next]_vars => DsnInv'
<1> SUFFICES ASSUME Careful, IInv, DsnInv, [Next]_vars PROVE DsnInv'
  OBVIOUS
<1> USE DEF Careful, DsnInv, Unrecorded, Rerouting, Current, Stepping
<1>i. TypeOK /\ VersionInv /\ ControlInv /\ ReplicationInv /\ RerouteInv
  BY DEF IInv
<1>t. /\ Recorded \in StateEnum /\ s \in StateEnum /\ nxt \in StateEnum
      /\ claim.state \in StateEnum /\ appSecret \in DBs
      /\ Recorded = GetReplicatorState(claim.state)
  BY SMTT(30), <1>i DEF TypeOK, Claim, Recorded, GetReplicatorState
<1>1. CASE UNCHANGED <<claim, pc, mem, s, appSecret, temp, srcUser>>
  BY ZenonT(30), <1>1 DEF GetReplicatorState
<1>2. CASE Reconcile
  BY <1>2, <1>t DEF Reconcile, GetReplicatorState
<1>3. CASE Fence
  BY ZenonT(30), <1>3, <1>t DEF Fence, GetReplicatorState
<1>4. CASE Configure
  <2>1. srcUser' = "source"
    BY SMTT(30), <1>4, <1>i, <1>t, ModeAssumption
    DEF Configure, getSrcAppDsnFromSecret, AdminReaches, ControlInv,
        GetReplicatorState
  <2>2. mem.state <= S_RerouteTargetSecret => appSecret = "source"
    BY SMTT(30), <1>4, <2>1, <1>i, <1>t
    DEF Configure, getSrcAppDsnFromSecret, ControlInv
  <2> QED
    BY SMTT(30), <1>4, <2>1, <2>2, <1>i, <1>t
    DEF Configure, ControlInv, GetReplicatorState
<1>5. CASE Execute
  <2>1. pc = "execute" /\ UNCHANGED <<claim, mem, s, srcUser, appSecret, temp>>
    BY <1>5, ExecuteFrame
  <2>2. s = Recorded
    BY <2>1, <1>i DEF ControlInv
  <2>3. CASE pc' = "next"
    BY SMTT(30), <2>1, <2>3 DEF GetReplicatorState
  <2>4. CASE pc' = "idle" /\ s \in {S_CopySchema, S_CutOverReadinessCheck,
                                   S_ValidateMigrationStatus}
    <3>1. ~Unrecorded
      BY SMTT(30), <2>2, <2>4, <1>i, <1>t DEF RerouteInv
    <3> QED
      BY SMTT(30), <2>1, <2>4, <3>1 DEF GetReplicatorState
  <2> QED
    BY ZenonT(30), <1>5, <2>3, <2>4, ExecuteFrame
<1>6. CASE PersistState
  BY SMTT(30), <1>6, <1>i, <1>t, PersistEffect
  DEF PersistState, ControlInv, RerouteInv, Successor, GetReplicatorState
<1>7. CASE StoreSourceDsn
  <2>1. s = S_ResetTargetSequence
    BY SMTT(30), <1>7, <1>i, <1>t DEF StoreSourceDsn, ControlInv, Successor
  <2> QED
    BY ZenonT(30), <1>7, <1>t, <2>1 DEF StoreSourceDsn, GetReplicatorState
<1>8. CASE RewriteAppSecret
  BY SMTT(30), <1>8, <1>i, <1>t DEF RewriteAppSecret, ControlInv,
     GetReplicatorState
<1>9. CASE CompleteMigration
  BY SMTT(30), <1>9, <1>i, CompleteEffect DEF CompleteMigration,
     GetReplicatorState
<1>10. CASE DeleteTempSecret
  BY Zenon, <1>10, <1>i DEF DeleteTempSecret, ControlInv, GetReplicatorState
<1>11. CASE StatusConflict
  BY Zenon, <1>11, <1>i, <1>t DEF StatusConflict, ControlInv,
     GetReplicatorState
<1>12. CASE ConfigureFails
  BY Zenon, <1>12, <1>i, <1>t DEF ConfigureFails, GetReplicatorState
<1>13. CASE Interrupt
  BY ZenonT(30), <1>13, <1>i, <1>t DEF Interrupt, GetReplicatorState
<1>14. CASE CopySchemaInterrupted
  BY <1>14, <1>i, <1>t DEF CopySchemaInterrupted, ControlInv, RerouteInv,
     GetReplicatorState
<1>15. CASE ForeignEdit
  BY Zenon, <1>15, <1>i, <1>t, ForeignEditEffect DEF ForeignEdit,
     GetReplicatorState
<1>16. CASE InformerSync \/ SyncTables \/ ApplyRow
            \/ (\E rc \in RoleClaims : CopyRoleClaim(rc) \/ SkipRoleClaim(rc))
            \/ UNCHANGED vars
            \/ \E p \in Pods : PodReload(p) \/ InsertSource(p) \/ InsertTarget(p)
  BY ZenonT(30), <1>16, <1>1 DEF InformerSync, SyncTables, ApplyRow,
     CopyRoleClaim, SkipRoleClaim, vars, PodReload,
     InsertSource, InsertTarget
<1> QED
  BY ZenonT(30), <1>1, <1>2, <1>3, <1>4, <1>5, <1>6, <1>7, <1>8, <1>9, <1>10,
     <1>11,
     <1>12, <1>13, <1>14, <1>15, <1>16
  DEF Next, Controller, Environment

(* No step takes back the accepted row count, nor hands out an id that is  *)
(* too small.                                                              *)
LEMMA RowStep ==
    IInv /\ DsnInv /\ RowInv /\ [Next]_vars => RowInv'
<1> SUFFICES ASSUME IInv, DsnInv, RowInv, [Next]_vars PROVE RowInv'
  OBVIOUS
<1> DEFINE half == SeqStep \div 2
<1>i. TypeOK /\ VersionInv /\ ControlInv /\ ReplicationInv /\ RerouteInv
  BY DEF IInv
<1>t. /\ Recorded \in StateEnum /\ s \in StateEnum
      /\ srcLast \in Nat /\ applied \in Nat /\ tgtLast \in Nat
      /\ resetAt \in Nat /\ own \in SUBSET Nat /\ half \in Nat
      /\ Cardinality(own) \in Nat /\ appSecret \in DBs
      /\ podDb \in [Pods -> DBs]
  BY <1>i, BoundsAssumption, FS_CardinalityType
  DEF TypeOK, Claim, Recorded, GetReplicatorState, RowInv
<1> HIDE DEF half
<1>v. /\ IsFiniteSet(own)
      /\ Past(S_ValidateMigrationStatus) => srcLast <= applied + Cardinality(own)
      /\ appSecret = "target" \/ Past(S_ResetTargetSequence)
           => tgtLast > resetAt + half
      /\ \A id \in own : id > resetAt + half
  BY DEF RowInv, half
<1>g. SUFFICES
      /\ IsFiniteSet(own')
      /\ Past(S_ValidateMigrationStatus)' => srcLast' <= applied' + Cardinality(own')
      /\ appSecret' = "target" \/ Past(S_ResetTargetSequence)'
           => tgtLast' > resetAt' + half
      /\ \A id \in own' : id > resetAt' + half
  BY DEF RowInv, half
<1>1. CASE Execute
  <2>r. Recorded' = Recorded /\ s' = s /\ appSecret' = appSecret
        /\ s = Recorded /\ pc = "execute"
    BY <1>1, <1>i, ExecuteFrame
    DEF Recorded, GetReplicatorState, ControlInv, Stepping
  <2>1. CASE ResetTargetSequenceState
    <3>1. s = S_ResetTargetSequence
      BY <2>1 DEF ResetTargetSequenceState, Executes
    <3>2. srcUser = "source" /\ own = {}
      BY <3>1, <2>r, <1>i DEF DsnInv, Stepping, RerouteInv
    <3>3. tgtLast' > resetAt' + half
      BY <2>1, <3>2, <1>t, ResetValueIsAhead
      DEF ResetTargetSequenceState, LastValue, half
    <3>4. UNCHANGED <<own, srcLast, applied>>
      BY <2>1 DEF ResetTargetSequenceState
    <3> QED
      BY SMTT(30), <3>1, <3>2, <3>3, <3>4, <2>r, <1>t, <1>v DEF Past
  <2>2. CASE ValidateMigrationStatusState
    <3>1. s = S_ValidateMigrationStatus /\ UNCHANGED rowVars
      BY <2>2 DEF ValidateMigrationStatusState, Executes
    <3>2. srcUser = "source"
      BY <2>r DEF DsnInv, Stepping
    <3>3. srcLast <= applied + Cardinality(own)
      BY <2>2, <3>2, <1>t
      DEF ValidateMigrationStatusState, CountsAgree, RowCount
    <3> QED
      BY <3>1, <3>3, <2>r, <1>t, <1>v DEF Past
  <2>3. CASE UNCHANGED rowVars /\ s \notin {S_ResetTargetSequence,
                                           S_ValidateMigrationStatus}
    BY Zenon, <2>3, <2>r, <1>t, <1>v DEF Past
  <2>4. CASE ValidateMigrationStatusRetry
    BY ZenonT(30), <2>4, <2>r, <1>t, <1>v DEF ValidateMigrationStatusRetry,
       Retries, Past
  <2>5. CASE InitialState \/ ValidateConnectionState
             \/ CreatePublicationState \/ CopySchemaState
    BY SMTT(30), <2>3, <2>5
    DEF Executes, InitialState, ValidateConnectionState,
        CreatePublicationState, CopySchemaState
  <2>8. CASE CopySchemaRestoreFails \/ CreateSubscriptionState
             \/ EnableSubscriptionState
    BY SMTT(30), <2>3, <2>8
    DEF Executes, CopySchemaRestoreFails, CreateSubscriptionState,
        EnableSubscriptionState
  <2>6. CASE CutOverReadinessCheckState \/ CutOverReadinessCheckRetry
             \/ RerouteTargetSecretState \/ WaitToDisableSourceState
    BY SMTT(30), <2>3, <2>6
    DEF Executes, Retries, CutOverReadinessCheckState,
        CutOverReadinessCheckRetry, RerouteTargetSecretState,
        WaitToDisableSourceState
  <2>7. CASE DisableSourceAccessState \/ DisableSubscriptionState
             \/ DeleteSubscriptionState \/ DeletePublicationState
    BY SMTT(30), <2>3, <2>7
    DEF Executes, DisableSourceAccessState, DisableSubscriptionState,
        DeleteSubscriptionState, DeletePublicationState
  <2> QED
    BY ZenonT(30), <1>1, <2>1, <2>2, <2>4, <2>5, <2>6, <2>7, <2>8 DEF Execute
<1>2. CASE ~Execute
  <2>p. /\ Past(S_ValidateMigrationStatus)' => Past(S_ValidateMigrationStatus)
        /\ Past(S_ResetTargetSequence)' => Past(S_ResetTargetSequence)
    BY <1>2, <1>i, ProgressStep DEF Steps
  <2>1. CASE UNCHANGED <<rowVars, appSecret>>
    BY <2>1, <2>p, <1>v
  <2>2. CASE RewriteAppSecret
    <3>1. Past(S_ResetTargetSequence) /\ UNCHANGED rowVars
      BY <2>2, <1>i DEF RewriteAppSecret, ControlInv, Past
    <3> QED
      BY ZenonT(30), <3>1, <2>p, <1>v
  <2>3. CASE SyncTables
    <3>1. ~Past(S_ValidateMigrationStatus) \/ applied' = srcLast
      BY <2>3 DEF SyncTables
    <3>2. UNCHANGED <<srcLast, own, tgtLast, resetAt, appSecret>>
      BY SMTT(30), <2>3 DEF SyncTables
    <3> QED
      BY SMTT(30), <3>1, <3>2, <2>p, <1>t, <1>v
  <2>4. CASE ApplyRow
    BY SMTT(30), <2>4, <2>p, <1>t, <1>v DEF ApplyRow
  <2>5. CASE \E p \in Pods : InsertSource(p)
    <3>1. ~Past(S_ValidateMigrationStatus)
      BY SMTT(30), <2>5, <1>i, <1>t
      DEF InsertSource, ReplicationInv, ControlInv, Stepping, Past
    <3> QED
      BY ZenonT(30), <2>5, <3>1, <2>p, <1>t, <1>v DEF InsertSource
  <2>6. CASE \E p \in Pods : InsertTarget(p)
    <3>1. PICK p \in Pods : InsertTarget(p)
      BY <2>6
    <3>2. appSecret = "target"
      BY ZenonT(30), <3>1, <1>i, <1>t DEF InsertTarget, RerouteInv
    <3>3. IsFiniteSet(own') /\ Cardinality(own') >= Cardinality(own)
          /\ Cardinality(own') \in Nat
      <4>1. CASE own' = own
        BY <4>1, <1>v, <1>t
      <4>2. CASE own' = own \cup {tgtLast + 1}
        <5>1. /\ IsFiniteSet(own \cup {tgtLast + 1})
              /\ \/ Cardinality(own \cup {tgtLast + 1}) = Cardinality(own)
                 \/ Cardinality(own \cup {tgtLast + 1}) = Cardinality(own) + 1
          BY <1>v, FS_AddElement
        <5> QED
          BY SMTT(30), <4>2, <5>1, <1>t
      <4> QED
        BY <3>1, <4>1, <4>2 DEF InsertTarget
    <3>4. \A id \in own' : id \in own \/ id = tgtLast + 1
      BY <3>1 DEF InsertTarget
    <3>5. tgtLast' = tgtLast + 1
          /\ UNCHANGED <<srcLast, applied, resetAt, appSecret>>
      BY <3>1 DEF InsertTarget
    <3>6. \A id \in own' : id > resetAt' + half
      <4> SUFFICES ASSUME NEW id \in own' PROVE id > resetAt' + half
        OBVIOUS
      <4>1. CASE id \in own
        BY <4>1, <3>5, <1>v
      <4>2. CASE id = tgtLast + 1
        BY SMTT(30), <4>2, <3>2, <3>5, <1>t, <1>v
      <4> QED
        BY <3>4, <4>1, <4>2
    <3>7. Past(S_ValidateMigrationStatus)'
            => srcLast' <= applied' + Cardinality(own')
      BY SMTT(30), <3>3, <3>5, <2>p, <1>t, <1>v
    <3>8. tgtLast' > resetAt' + half
      BY <3>2, <3>5, <1>t, <1>v
    <3> QED
      BY <3>3, <3>6, <3>7, <3>8
  <2> QED
    BY ZenonT(30), <1>2, <2>1, <2>2, <2>3, <2>4, <2>5, <2>6
    DEF Next, Controller, Environment, Reconcile, Fence, Configure,
        ConfigureFails, PersistState, StoreSourceDsn, CompleteMigration,
        DeleteTempSecret, StatusConflict, Interrupt, CopySchemaInterrupted,
        InformerSync, ForeignEdit, CopyRoleClaim, SkipRoleClaim, PodReload, vars
<1> QED
  BY <1>1, <1>2

(* The invariants on the DSN and on the rows hold initially.               *)
LEMMA InitRows == Init => DsnInv /\ RowInv
<1> SUFFICES ASSUME Init PROVE DsnInv /\ RowInv
  BY ZenonT(30)
<1>1. DsnInv
  BY DEF Init, InitialClaim, DsnInv, Stepping, Unrecorded, Rerouting
<1>2. IsFiniteSet(own) /\ own = {}
  BY ZenonT(30), FS_EmptySet DEF Init
<1>3. ~Past(S_ValidateMigrationStatus) /\ ~Past(S_ResetTargetSequence)
  BY DEF Init, InitialClaim, Past, Recorded, GetReplicatorState
<1>4. RowInv
  BY <1>2, <1>3 DEF RowInv, Init
<1> QED
  BY <1>1, <1>4

(* Under that assumption the invariants on the DSN and the rows join the   *)
(* inductive one.                                                          *)
THEOREM CarefulInductive ==
    ASSUME Careful PROVE Spec => [](IInv /\ DsnInv /\ RowInv)
<1>1. IInv /\ DsnInv /\ RowInv /\ [Next]_vars => (DsnInv /\ RowInv)'
  BY DsnStep, RowStep
<1> QED
  BY InitRows, Inductive, <1>1, PTL DEF Spec

(* If nothing disturbs the reroute, or in an upgrade whatever disturbs it, *)
(* the source DSN survives until the migration is recorded completed.      *)
THEOREM DsnSurvives == ASSUME Careful PROVE Spec => []SourceDsnPreserved
<1>1. DsnInv => SourceDsnPreserved
  BY DEF DsnInv, SourceDsnPreserved
<1> QED
  BY CarefulInductive, <1>1, PTL

(* Under the same assumption the rows that the count comparison of         *)
(* validate_migration_status lets go missing are at most the rows the      *)
(* application inserted in the target.                                     *)
THEOREM LossBounded == ASSUME Careful PROVE Spec => []LossBoundedByTargetWrites
<1>1. IInv /\ RowInv => LossBoundedByTargetWrites
  BY DEF IInv, TypeOK, Claim, RowInv, LossBoundedByTargetWrites, Past,
     Recorded, GetReplicatorState
<1> QED
  BY CarefulInductive, <1>1, PTL

(* Under the same assumption, for every rounding step, ids given out by    *)
(* the target stay clear of the source's as long as the source advanced by *)
(* at most half a rounding step since the reset.                           *)
THEOREM IdsDisjoint == ASSUME Careful PROVE Spec => []NoIdCollision
<1>1. IInv /\ RowInv => NoIdCollision
  <2> SUFFICES ASSUME IInv, RowInv, srcLast <= resetAt + SeqStep \div 2,
                      NEW id \in own
               PROVE  id > srcLast
    BY DEF NoIdCollision
  <2>1. /\ srcLast \in Nat /\ resetAt \in Nat /\ SeqStep \div 2 \in Nat
        /\ id \in Nat
    BY BoundsAssumption DEF IInv, TypeOK
  <2>2. id > resetAt + SeqStep \div 2
    BY DEF RowInv
  <2> QED
    BY <2>1, <2>2
<1> QED
  BY CarefulInductive, <1>1, PTL

=============================================================================
