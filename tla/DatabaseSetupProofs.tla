------------------------- MODULE DatabaseSetupProofs -------------------------
(***************************************************************************)
(* What a Ready claim has, for every number of extensions, configurations, *)
(* failures and edits.                                                     *)
(***************************************************************************)
EXTENDS DatabaseSetup, TLAPS

(***************************************************************************)
(* A creation is either complete, or cut, or being completed by the        *)
(* reconcile that made it.                                                 *)
(***************************************************************************)
CreationInv ==
    /\ mode = "new" /\ database =>
          Default \subseteq extensions \/ "defaults" \in cut \/ pc = "defaults"
    /\ mode = "new" /\ role =>
          \/ Special \subseteq extensions \/ "special" \in cut
          \/ pc = "special" /\ roleCreated
    /\ acting \subseteq users
    /\ pc = "setrole" => NextUser(currentUser) \in users
    /\ \/ users = acting \/ "setrole" \in cut
       \/ pc = "setrole" /\ users \subseteq acting \cup {NextUser(currentUser)}

(* How far a reconcile has come, and what it is therefore about to call    *)
(* Ready.                                                                  *)
StageInv ==
    /\ mode \in {"new", "existing"}
    /\ pc \in {"idle", "database", "defaults", "role", "special", "user", "setrole",
               "password", "super", "createrole", "replCurrent", "replNext", "status",
               "schema", "functions", "finish"}
    /\ mode = "new" /\ pc \notin {"idle", "database"} => database = TRUE
    /\ mode = "new" /\ pc \notin {"idle", "database", "defaults", "role"} => role = TRUE
    /\ mode = "existing" /\ pc \in {"schema", "functions", "finish"} =>
          Default \subseteq extensions
    /\ mode = "new" /\ ready = TRUE => database = TRUE /\ role = TRUE
    /\ mode = "existing" /\ ready = TRUE => Default \subseteq extensions

SetupInv == CreationInv /\ StageInv

(* Nothing is set up at first.                                             *)
LEMMA SetupInvInit == Init => SetupInv
BY DEF Init, SetupInv, CreationInv, StageInv

(* A creation is left incomplete only while under way, or cut.             *)
LEMMA SetupInvKept == ASSUME SetupInv, [Next]_vars PROVE SetupInv'
<1> USE DEF SetupInv, CreationInv, StageInv, Continue, claimVars, loopVars, runVars,
            roleVars, userVars, functionVars, dbVars, pastVars, boundVars
<1>1. CASE Reconcile
    BY <1>1 DEF Reconcile
<1>2. CASE CreateDatabase
    BY <1>2 DEF CreateDatabase
<1>3. CASE CreateDefaultExtensions
    BY <1>3 DEF CreateDefaultExtensions
<1>4. CASE CreateRole
    BY <1>4, Zenon DEF CreateRole
<1>5. CASE CreateSpecialExtensions
    BY <1>5 DEF CreateSpecialExtensions
<1>6. CASE CreateUser
    BY <1>6 DEF CreateUser, NextUser
<1>7. CASE KeepUser
    BY <1>7 DEF KeepUser
<1>8. CASE AssignRoleToUser
    BY <1>8 DEF AssignRoleToUser, NextUser
<1>9. CASE UpdatePassword
    BY <1>9 DEF UpdatePassword
<1>10. CASE ManageSuperUserRole
    BY <1>10 DEF ManageSuperUserRole
<1>11. CASE ManageCreateRole
    BY <1>11 DEF ManageCreateRole
<1>12. CASE ReplicationOfCurrentUser
    BY <1>12 DEF ReplicationOfCurrentUser
<1>13. CASE ReplicationOfNextUser
    BY <1>13 DEF ReplicationOfNextUser, AfterUsers
<1>14. CASE UpdateStatus
    BY <1>14 DEF UpdateStatus
<1>15. CASE CreateSchema
    BY <1>15 DEF CreateSchema
<1>16. ASSUME NEW f \in todo, ManageFunction(f) PROVE SetupInv'
    BY <1>16 DEF ManageFunction
<1>17. CASE FunctionsManaged
    BY <1>17 DEF FunctionsManaged
<1>18. CASE SuccessAndUpdateCondition
    BY <1>18 DEF SuccessAndUpdateCondition, Over
<1>19. CASE SetError
    BY <1>19 DEF SetError, Over, CutOff
<1>20. CASE WithdrawalRefused
    BY <1>20 DEF WithdrawalRefused, AfterUsers
<1>21. CASE Restart
    BY <1>21 DEF Restart, Over, CutOff
<1>22. ASSUME NEW right, EditClaim(right) PROVE SetupInv'
    BY <1>22 DEF EditClaim
<1>23. ASSUME NEW c, ConfigChanges(c) PROVE SetupInv'
    BY <1>23 DEF ConfigChanges
<1>24. CASE PeriodPasses
    BY <1>24 DEF PeriodPasses
<1>25. CASE UNCHANGED vars
    BY <1>25 DEF vars
<1> QED
    BY <1>1, <1>2, <1>3, <1>4, <1>5, <1>6, <1>7, <1>8, <1>9, <1>10, <1>11, <1>12, <1>13,
       <1>14, <1>15, <1>16, <1>17, <1>18, <1>19, <1>20, <1>21, <1>22, <1>23, <1>24, <1>25
    DEF Next, Controller, StatusConflict, CallFails

(* A claim is not Ready before its database has its extensions and its     *)
(* users act as its role, unless a failure cut one of the three steps that *)
(* only the creating reconcile takes.                                      *)
THEOREM ReadyClaimIsComplete == Spec => []ReadyIsComplete
<1>1. SetupInv => ReadyIsComplete
    BY DEF SetupInv, CreationInv, StageInv, ReadyIsComplete
<1> QED
    BY <1>1, SetupInvInit, SetupInvKept, PTL DEF Spec

-----------------------------------------------------------------------------
(***************************************************************************)
(* The users of a new database.  "b" is only made after "a" was recorded,  *)
(* so that the users are the current and the next one of every reconcile.  *)
(***************************************************************************)
Recorded(st) == st.active.user # NoUser \/ st.new.user # NoUser

Databases == {db \in DbStatus : db.at = "never" \/ db.user # NoUser}
Statuses == [active : Databases, new : Databases]

StatusType ==
    /\ mode \in {"new", "existing"}
    /\ status \in Statuses /\ mem \in Statuses
    /\ users \subseteq Users /\ currentUser \in Users \cup {NoUser}
    /\ ready \in BOOLEAN /\ queued \in BOOLEAN

(* What the reconcile makes of a status is a status.                       *)
LEMMA StatusMade ==
    /\ NoDb \in Databases /\ NoStatus \in Statuses
    /\ \A user \in Users : [user |-> user, at |-> "recent"] \in Databases
    /\ \A db \in Databases : Older(db) \in Databases /\ Older(db).user = db.user
    /\ \A db1, db2 \in Databases : [active |-> db1, new |-> db2] \in Statuses
    /\ \A st \in Statuses, db \in Databases :
          /\ [st EXCEPT !.new = db] \in Statuses
          /\ [st EXCEPT !.new = db].active = st.active
          /\ [st EXCEPT !.new = db].new = db
    /\ \A st \in Statuses : st.active \in Databases /\ st.new \in Databases
    /\ \A user : NextUser(user) \in Users
<1> USE DEF Databases, DbStatus, Statuses, Users, NoUser
<1>1. NoDb \in Databases /\ NoStatus \in Statuses
    BY DEF NoDb, NoStatus
<1>2. \A user \in Users : [user |-> user, at |-> "recent"] \in Databases
    OBVIOUS
<1>3. \A db \in Databases : Older(db) \in Databases /\ Older(db).user = db.user
    BY DEF Older
<1>4. \A user : NextUser(user) \in Users
    BY DEF NextUser
<1>5. \A db1, db2 \in Databases : [active |-> db1, new |-> db2] \in Statuses
    OBVIOUS
<1>6. \A st \in Statuses, db \in Databases :
          /\ [st EXCEPT !.new = db] \in Statuses
          /\ [st EXCEPT !.new = db].active = st.active
          /\ [st EXCEPT !.new = db].new = db
    OBVIOUS
<1>7. \A st \in Statuses : st.active \in Databases /\ st.new \in Databases
    OBVIOUS
<1> QED
    BY <1>1, <1>2, <1>3, <1>4, <1>5, <1>6, <1>7

(* The statuses, in the claim and in memory, are of their type.            *)
LEMMA StatusTypeKept == ASSUME StatusType, [Next]_vars PROVE StatusType'
<1> USE DEF StatusType, Continue, claimVars, loopVars, runVars,
            roleVars, userVars, functionVars, dbVars, pastVars, boundVars
<1>1. CASE Reconcile
  <2>1. StartingStatus \in Statuses
      BY StatusMade DEF StartingStatus
  <2>2. CurrentUser(StartingStatus) \in Users \cup {NoUser}
      BY <2>1, StatusMade DEF CurrentUser, Databases, DbStatus
  <2> QED
      BY <1>1, <2>1, <2>2, Zenon DEF Reconcile
<1>2. CASE CreateUser
    BY <1>2, StatusMade DEF CreateUser
<1>3. CASE UpdatePassword
    BY <1>3, StatusMade DEF UpdatePassword
<1>4. CASE UpdateStatus
    BY <1>4 DEF UpdateStatus
<1>5. CASE SuccessAndUpdateCondition
    BY <1>5, StatusMade DEF SuccessAndUpdateCondition, Over
<1>6. CASE SetError
    BY <1>6, StatusMade DEF SetError, Over
<1>7. CASE Restart
    BY <1>7, StatusMade DEF Restart, Over
<1>8. CASE PeriodPasses
    BY <1>8, StatusMade DEF PeriodPasses
<1>9. CASE /\ UNCHANGED <<mode, status, mem, users, currentUser>>
            /\ ready' = ready /\ (queued' = queued \/ queued' = TRUE)
  <2>1. ready' \in BOOLEAN
      BY <1>9, Zenon
  <2>2. queued' \in BOOLEAN
      BY <1>9, Zenon
  <2>3. /\ mode' \in {"new", "existing"}
        /\ status' \in Statuses /\ mem' \in Statuses
        /\ users' \subseteq Users /\ currentUser' \in Users \cup {NoUser}
      BY <1>9
  <2> QED
      BY <2>1, <2>2, <2>3
<1>10. CASE CreateDatabase \/ CreateDefaultExtensions \/ CreateRole \/ CreateSpecialExtensions
    BY <1>9, <1>10
    DEF CreateDatabase, CreateDefaultExtensions, CreateRole, CreateSpecialExtensions
<1>11. CASE KeepUser \/ AssignRoleToUser \/ ManageSuperUserRole \/ ManageCreateRole
    BY <1>9, <1>11 DEF KeepUser, AssignRoleToUser, ManageSuperUserRole, ManageCreateRole
<1>12. CASE ReplicationOfCurrentUser \/ ReplicationOfNextUser \/ WithdrawalRefused
    BY <1>9, <1>12 DEF ReplicationOfCurrentUser, ReplicationOfNextUser, WithdrawalRefused
<1>13. CASE CreateSchema \/ (\E f \in todo : ManageFunction(f)) \/ FunctionsManaged
    BY <1>9, <1>13 DEF CreateSchema, ManageFunction, FunctionsManaged
<1>14. CASE (\E right : EditClaim(right)) \/ (\E c : ConfigChanges(c))
    BY <1>9, <1>14, Zenon DEF EditClaim, ConfigChanges
<1>15. CASE UNCHANGED vars
    BY <1>9, <1>15 DEF vars
<1> QED
    BY <1>1, <1>2, <1>3, <1>4, <1>5, <1>6, <1>7, <1>8, <1>10, <1>11, <1>12, <1>13, <1>14,
       <1>15
    DEF Next, Controller, StatusConflict, CallFails

(* The steps before a user is made or kept.                                *)
BeforeUser == {"idle", "database", "defaults", "role", "special", "user", "setrole", "password"}

(* A running reconcile knows the recorded user, and has one to record once *)
(* past the creation.                                                      *)
UserInv ==
    mode = "new" =>
        /\ pc # "status"
        /\ "b" \in users => Recorded(status)
        /\ pc # "idle" =>
              /\ mem.active = status.active
              /\ mem.new = status.new \/ mem.new.user # NoUser
              /\ currentUser # NoUser <=> Recorded(status)
        /\ pc \notin BeforeUser => mem.new.user # NoUser

(* A second user is made only once the first is recorded in the status.    *)
LEMMA UserInvKept ==
    ASSUME StatusType, StatusType', UserInv, [Next]_vars PROVE UserInv'
<1> USE DEF UserInv, BeforeUser, Recorded, Continue, claimVars, loopVars, runVars,
            roleVars, userVars, functionVars, dbVars, pastVars, boundVars
<1>1. CASE Reconcile
    BY <1>1 DEF Reconcile, UpdatedRecently, StartingStatus, CurrentUser
<1>2. CASE CreateUser
    BY <1>2 DEF CreateUser, NextUser, StatusType, NoUser, Users
<1>3. CASE KeepUser
    BY <1>3, StatusMade DEF KeepUser, RotationDue, StatusType, Databases
<1>4. CASE UpdatePassword
  <2>1. /\ mem'.active = mem.active /\ mem'.new.user = NextUser(currentUser)
        /\ NextUser(currentUser) # NoUser
      BY <1>4, StatusMade DEF UpdatePassword, StatusType, NoUser, Users
  <2> QED
      BY <1>4, <2>1 DEF UpdatePassword
<1>5. CASE UpdateStatus
    BY <1>5 DEF UpdateStatus
<1>6. CASE SuccessAndUpdateCondition
    BY <1>6 DEF SuccessAndUpdateCondition, Over
<1>7. CASE SetError /\ pc # "idle"
    BY <1>7 DEF SetError, Over
<1>8. CASE Restart
    BY <1>8 DEF Restart, Over
<1>9. CASE PeriodPasses
    BY <1>9, StatusMade DEF PeriodPasses, StatusType
<1>10. CASE /\ UNCHANGED <<mode, status, mem, users, currentUser>>
            /\ pc = "idle" <=> pc' = "idle"
            /\ pc \in BeforeUser <=> pc' \in BeforeUser
            /\ pc' = "status" => mode # "new" \/ pc = "status"
    BY <1>10
<1>11. CASE CreateDatabase \/ CreateDefaultExtensions \/ CreateRole \/ CreateSpecialExtensions
    BY <1>10, <1>11
    DEF CreateDatabase, CreateDefaultExtensions, CreateRole, CreateSpecialExtensions
<1>12. CASE AssignRoleToUser \/ ManageSuperUserRole \/ ManageCreateRole
    BY <1>10, <1>12, Zenon DEF AssignRoleToUser, ManageSuperUserRole, ManageCreateRole
<1>13. CASE ReplicationOfCurrentUser \/ ReplicationOfNextUser \/ WithdrawalRefused
    BY <1>10, <1>13
    DEF ReplicationOfCurrentUser, ReplicationOfNextUser, WithdrawalRefused, AfterUsers
<1>14. CASE CreateSchema \/ (\E f \in todo : ManageFunction(f)) \/ FunctionsManaged
    BY <1>10, <1>14 DEF CreateSchema, ManageFunction, FunctionsManaged
<1>15. CASE (\E right : EditClaim(right)) \/ (\E c : ConfigChanges(c)) \/ UNCHANGED vars
    BY <1>10, <1>15 DEF EditClaim, ConfigChanges, vars
<1> QED
    BY <1>1, <1>2, <1>3, <1>4, <1>5, <1>6, <1>7, <1>8, <1>9, <1>11, <1>12, <1>13, <1>14, <1>15, Zenon
    DEF Next, Controller, StatusConflict, CallFails

(***************************************************************************)
(* The rights, as a request and the steps taken so far have left them.     *)
(***************************************************************************)
SuperOK(r) ==
    /\ r = "super" => "super" \in rights
    /\ r # "super" => "super" \notin rights \/ "super" \in refused
CreateOK(r) == r = "super" <=> "createrole" \in rights
ReplOK(r, user) ==
    /\ r = "repl" => user \in repl \/ user \notin users
    /\ r # "repl" => user \notin repl \/ user \in refused

(* The steps after all rights were visited.                                *)
Granted == {"schema", "functions", "finish"}

(* A reconcile acts for the claim as it is, or will not be the last; a     *)
(* right is as requested from its own step on.                             *)
RightsInv ==
    /\ rights \subseteq {"super", "createrole"} /\ repl \subseteq users
    /\ pc = "idle" => outdated = FALSE
    /\ outdated = TRUE => queued = TRUE
    /\ mode = "new" =>
          /\ pc # "idle" => request = asked \/ outdated = TRUE
          /\ pc \in {"createrole", "replCurrent", "replNext"} \cup Granted => SuperOK(request)
          /\ pc \in {"replCurrent", "replNext"} \cup Granted => CreateOK(request)
          /\ pc \in {"replNext"} \cup Granted => ReplOK(request, currentUser)
          /\ pc \in Granted => ReplOK(request, NextUser(currentUser))
          /\ pc = "idle" /\ queued = FALSE /\ ready = TRUE =>
                /\ SuperOK(asked) /\ CreateOK(asked)
                /\ \A user \in Users : ReplOK(asked, user)

(* Each step brings one right in line, and no step undoes another.         *)
LEMMA RightsInvKept ==
    ASSUME StatusType, UserInv, RightsInv, [Next]_vars PROVE RightsInv'
<1> USE DEF RightsInv, Granted, SuperOK, CreateOK, ReplOK, Continue, claimVars, loopVars,
            runVars, roleVars, userVars, functionVars, dbVars, pastVars, boundVars
<1>1. CASE Reconcile
    BY <1>1 DEF Reconcile, UpdatedRecently
<1>2. CASE CreateUser
    BY <1>2 DEF CreateUser
<1>3. CASE ManageSuperUserRole
    BY <1>3 DEF ManageSuperUserRole
<1>4. CASE ManageCreateRole
    BY <1>4 DEF ManageCreateRole
<1>5. CASE ReplicationOfCurrentUser
    BY <1>5 DEF ReplicationOfCurrentUser, ManageReplicationRole, StatusType, Users, NoUser
<1>6. CASE ReplicationOfNextUser
    BY <1>6 DEF ReplicationOfNextUser, ManageReplicationRole, AfterUsers, NextUser
<1>7. CASE WithdrawalRefused
    BY <1>7 DEF WithdrawalRefused, Withdrawn, AfterUsers
<1>8. CASE SuccessAndUpdateCondition
    BY <1>8 DEF SuccessAndUpdateCondition, Over, UserInv, StatusType, NextUser, Users
<1>9. CASE SetError \/ Restart
    BY <1>9 DEF SetError, Restart, Over
<1>10. CASE PeriodPasses
    BY <1>10 DEF PeriodPasses
<1>11. CASE \E right : EditClaim(right)
    BY <1>11, Zenon DEF EditClaim
<1>12. CASE CreateDatabase \/ CreateDefaultExtensions \/ CreateRole \/ CreateSpecialExtensions
    BY <1>12, Zenon DEF CreateDatabase, CreateDefaultExtensions, CreateRole, CreateSpecialExtensions
<1>13. CASE KeepUser \/ AssignRoleToUser \/ UpdatePassword \/ UpdateStatus
  <2>1. CASE KeepUser \/ AssignRoleToUser
      BY <2>1 DEF KeepUser, AssignRoleToUser
  <2>2. CASE UpdatePassword \/ UpdateStatus
      BY <2>2 DEF UpdatePassword, UpdateStatus
  <2> QED
      BY <1>13, <2>1, <2>2
<1>14. CASE CreateSchema \/ (\E f \in todo : ManageFunction(f)) \/ FunctionsManaged
  <2>1. CASE CreateSchema \/ FunctionsManaged
      BY <2>1 DEF CreateSchema, FunctionsManaged
  <2>2. CASE \E f \in todo : ManageFunction(f)
      BY <2>2 DEF ManageFunction
  <2> QED
      BY <1>14, <2>1, <2>2
<1>15. CASE \E c : ConfigChanges(c)
    BY <1>15 DEF ConfigChanges, NextUser
<1>16. CASE UNCHANGED vars
    BY <1>16 DEF vars, NextUser
<1> QED
    BY <1>1, <1>2, <1>3, <1>4, <1>5, <1>6, <1>7, <1>8, <1>9, <1>10, <1>11, <1>12, <1>13,
       <1>14, <1>15, <1>16
    DEF Next, Controller, StatusConflict, CallFails

GrantInv == StatusType /\ UserInv /\ RightsInv

(* At rest the users of a Ready claim on a new database have the right it  *)
(* asks for, and no other that the database did not refuse to take back,   *)
(* whatever failed or was edited before.                                   *)
THEOREM RightsAreAsAsked == Spec => []RightsAsAsked
<1>1. Init => GrantInv
  <2>1. Init => StatusType /\ UserInv
      BY StatusMade DEF Init, StatusType, UserInv, BeforeUser, NoUser
  <2>2. Init => RightsInv
      BY DEF Init, RightsInv, Granted
  <2> QED
      BY <2>1, <2>2 DEF GrantInv
<1>2. GrantInv /\ [Next]_vars => GrantInv'
    BY StatusTypeKept, UserInvKept, RightsInvKept DEF GrantInv
<1>3. GrantInv => RightsAsAsked
  <2>1. SUFFICES ASSUME GrantInv, pc = "idle", queued = FALSE, ready = TRUE, mode = "new"
                 PROVE  RightsAsAsked
      BY Zenon DEF GrantInv, StatusType, RightsAsAsked, Settled
  <2>2. SuperOK(asked) /\ CreateOK(asked) /\ \A user \in Users : ReplOK(asked, user)
      BY <2>1 DEF GrantInv, RightsInv
  <2>3. rights \subseteq {"super", "createrole"} /\ repl \subseteq users /\ users \subseteq Users
      BY <2>1 DEF GrantInv, StatusType, RightsInv
  <2> QED
      BY <2>1, <2>2, <2>3, Zenon DEF SuperOK, CreateOK, ReplOK, RightsAsAsked
<1> QED
    BY <1>1, <1>2, <1>3, PTL DEF Spec
==============================================================================
