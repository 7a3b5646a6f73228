-------------------------- MODULE CredentialsProofs --------------------------
(***************************************************************************)
(* What holds of a claim's users for every set of names and any number of  *)
(* failing calls, restarts and edits.                                      *)
(***************************************************************************)
EXTENDS Credentials, FiniteSetTheorems, TLAPS

People == Users \cup {NoUser}
Statuses == [active : DbStatus, new : DbStatus]

UserType ==
    /\ start.mode \in {"new", "existing"}
    /\ baseUsername \in Names /\ username \in Names /\ start.names \subseteq Names
    /\ status \in Statuses /\ mem \in Statuses
    /\ DOMAIN password = Users
    /\ pc \in {"idle", "role", "rename", "rotate", "password", "grants", "secret",
              "functions", "clear", "ready", "version"}

(* What a reconcile makes of a status, and the users it names.             *)
LEMMA StatusMade ==
    /\ NoDb \in DbStatus /\ NoStatus \in Statuses
    /\ \A user \in Users : [user |-> user, at |-> "recent"] \in DbStatus
    /\ \A db \in DbStatus : Older(db) \in DbStatus /\ Older(db).user = db.user
    /\ \A db1, db2 \in DbStatus : [active |-> db1, new |-> db2] \in Statuses
    /\ \A st \in Statuses, db \in DbStatus :
          /\ [st EXCEPT !.new = db] \in Statuses
          /\ [st EXCEPT !.new = db].active = st.active
          /\ [st EXCEPT !.new = db].new = db
    /\ \A st \in Statuses :
          /\ st.active \in DbStatus /\ st.new \in DbStatus
          /\ st.active.user \in People /\ st.new.user \in People
<1> USE DEF DbStatus, Statuses, People, Ages
<1>1. NoDb \in DbStatus /\ NoStatus \in Statuses
    BY DEF NoDb, NoStatus
<1>2. \A user \in Users : [user |-> user, at |-> "recent"] \in DbStatus
    OBVIOUS
<1>3. \A db \in DbStatus : Older(db) \in DbStatus /\ Older(db).user = db.user
    BY DEF Older
<1>4. \A db1, db2 \in DbStatus : [active |-> db1, new |-> db2] \in Statuses
    OBVIOUS
<1>5. \A st \in Statuses, db \in DbStatus :
          /\ [st EXCEPT !.new = db] \in Statuses
          /\ [st EXCEPT !.new = db].active = st.active
          /\ [st EXCEPT !.new = db].new = db
    OBVIOUS
<1>6. \A st \in Statuses :
          /\ st.active \in DbStatus /\ st.new \in DbStatus
          /\ st.active.user \in People /\ st.new.user \in People
    OBVIOUS
<1> QED
    BY <1>1, <1>2, <1>3, <1>4, <1>5, <1>6

(* The next user is another one than the current one.                      *)
LEMMA NextUserDiffers ==
    ASSUME baseUsername \in Names, NEW user
    PROVE  NextUser(user) \in Users /\ NextUser(user) # user
BY DEF NextUser, GetUserA, GetUserB, Users


-----------------------------------------------------------------------------
(* There are more passwords to choose from than users and the secret hold. *)
LEMMA NewPasswordExists == NewPassword # 0
<1> DEFINE ofA == [n \in Names |-> password[GetUserA(n)]]
           ofB == [n \in Names |-> password[GetUserB(n)]]
           InA == {ofA[n] : n \in Names}
           InB == {ofB[n] : n \in Names}
           Last == 2 * Cardinality(Names) + 2
<1>1. IsFiniteSet(Names) /\ Cardinality(Names) \in Nat
    BY NamesAssumption, FS_CardinalityType
<1>2. IsFiniteSet(InA) /\ Cardinality(InA) <= Cardinality(Names)
  <2>1. ofA \in Surjection(Names, InA)
      BY DEF Surjection
  <2> QED
      BY <1>1, <2>1, FS_Surjection
<1>3. IsFiniteSet(InB) /\ Cardinality(InB) <= Cardinality(Names)
  <2>1. ofB \in Surjection(Names, InB)
      BY DEF Surjection
  <2> QED
      BY <1>1, <2>1, FS_Surjection
<1> HIDE DEF InA, InB
<1>4. IsFiniteSet(InA \cup InB) /\ Cardinality(InA \cup InB) <= 2 * Cardinality(Names)
  <2>1. IsFiniteSet(InA \cap InB)
      BY <1>2, FS_Subset
  <2>2. Cardinality(InA) \in Nat /\ Cardinality(InB) \in Nat /\ Cardinality(InA \cap InB) \in Nat
      BY <1>2, <1>3, <2>1, FS_CardinalityType
  <2>3. /\ IsFiniteSet(InA \cup InB)
        /\ Cardinality(InA \cup InB) = Cardinality(InA) + Cardinality(InB) - Cardinality(InA \cap InB)
      BY <1>2, <1>3, FS_Union
  <2> QED
      BY <1>1, <1>2, <1>3, <2>2, <2>3
<1>5. PICK pw \in 1..Last : pw \notin InA \cup InB \cup {secret.pw}
  <2> DEFINE Held == (InA \cup InB) \cup {secret.pw}
  <2>1. Cardinality(InA \cup InB) \in Nat
      BY <1>4, FS_CardinalityType
  <2>2. /\ IsFiniteSet(Held)
        /\ Cardinality(Held) = Cardinality(InA \cup InB) \/ Cardinality(Held) = Cardinality(InA \cup InB) + 1
      BY <1>4, FS_AddElement
  <2>3. Cardinality(1..Last) = Last
      BY <1>1, FS_Interval
  <2>4. ~(1..Last \subseteq Held)
    <3> SUFFICES ASSUME 1..Last \subseteq Held PROVE FALSE
        OBVIOUS
    <3>1. Cardinality(1..Last) <= Cardinality(Held)
        BY <2>2, FS_Subset, Zenon
    <3> QED
        BY <1>1, <1>4, <2>1, <2>2, <2>3, <3>1
  <2> QED
      BY <2>4
<1>6. \A u \in Users : password[u] \in InA \cup InB
  <2>1. \A u \in Users : u.base \in Names /\ (u = GetUserA(u.base) \/ u = GetUserB(u.base))
      BY DEF Users, GetUserA, GetUserB
  <2> QED
      BY <2>1 DEF InA, InB
<1>7. NewPassword \in 1..Last
    BY <1>5, <1>6 DEF NewPassword
<1> QED
    BY <1>1, <1>7

-----------------------------------------------------------------------------
(* The types are kept.                                                     *)
LEMMA UserTypeKept == ASSUME UserType, [Next]_vars PROVE UserType'
<1> USE DEF UserType, Continue, claimVars, runVars, dbVars, queueVars, boundVars
<1>1. CASE Reconcile
  <2>1. StartingStatus \in Statuses
      BY StatusMade DEF StartingStatus
  <2> QED
      BY <1>1, <2>1 DEF Reconcile
<1>2. CASE CreateUser
    BY <1>2 DEF CreateUser
<1>3. CASE UpdatePassword
  <2>1. NextUser(currentUser) \in Users
      BY NextUserDiffers
  <2> QED
      BY <1>3, <2>1, StatusMade DEF UpdatePassword
<1>4. CASE ManageRoles \/ ClearError \/ SuccessAndUpdateCondition
    BY <1>4 DEF ManageRoles, ClearError, SuccessAndUpdateCondition
<1>5. CASE ActivateNewDB
    BY <1>5, StatusMade DEF ActivateNewDB
<1>6. CASE SetError
    BY <1>6, Zenon DEF SetError
<1>7. CASE PeriodPasses
    BY <1>7, StatusMade DEF PeriodPasses, OlderStatus
<1>8. CASE EditClaim
    BY <1>8 DEF EditClaim
<1>9. CASE ReconcileSkipped \/ CreateRole \/ KeepUsers \/ KeepPassword
    BY <1>9 DEF ReconcileSkipped, CreateRole, KeepUsers, KeepPassword
<1>10. CASE createOrUpdateSecret \/ ActiveDBSuccessReconcile \/ Restart \/ TimerFires
    BY <1>10 DEF createOrUpdateSecret, ActiveDBSuccessReconcile, Restart, TimerFires
<1>11. CASE UNCHANGED vars
    BY <1>11 DEF vars
<1> QED
    BY <1>1, <1>2, <1>3, <1>4, <1>5, <1>6, <1>7, <1>8, <1>9, <1>10, <1>11
    DEF Next, Controller, RenameUserFails, StatusConflict, CallFails

-----------------------------------------------------------------------------
(* The role of every user that a status names exists, and so does the      *)
(* claim's own once the reconcile has created it.                          *)
HasRole(db) == db.user # NoUser => db.user.base \in roles
RoleInv ==
    /\ HasRole(status.active) /\ HasRole(status.new)
    /\ HasRole(mem.active) /\ HasRole(mem.new)
    /\ pc \notin {"idle", "role"} => baseUsername \in roles

(* Roles are never dropped, so every step keeps that.                      *)
LEMMA RoleInvKept == ASSUME UserType, RoleInv, [Next]_vars PROVE RoleInv'
<1> USE DEF RoleInv, HasRole, UserType, Continue, claimVars, runVars, dbVars, queueVars,
            boundVars
<1>1. CASE Reconcile
  <2>1. StartingStatus.active = status.active /\ StartingStatus.new \in {status.active, status.new}
      BY StatusMade DEF StartingStatus
  <2> QED
      BY <1>1, <2>1 DEF Reconcile
<1>2. CASE CreateRole
    BY <1>2 DEF CreateRole
<1>3. CASE UpdatePassword
  <2>1. NextUser(currentUser).base = baseUsername
      BY DEF NextUser, GetUserA, GetUserB
  <2>2. /\ mem'.active = mem.active /\ mem'.new.user = NextUser(currentUser)
        /\ baseUsername \in roles /\ roles' = roles
      BY <1>3, StatusMade DEF UpdatePassword
  <2> QED
      BY <1>3, <2>1, <2>2 DEF UpdatePassword
<1>4. CASE ManageRoles \/ ClearError \/ SuccessAndUpdateCondition
    BY <1>4 DEF ManageRoles, ClearError, SuccessAndUpdateCondition
<1>5. CASE ActivateNewDB
    BY <1>5 DEF ActivateNewDB, NoDb
<1>6. CASE SetError
    BY <1>6, Zenon DEF SetError
<1>7. CASE PeriodPasses
  <2>1. \A st \in Statuses :
           /\ OlderStatus(st).active.user = st.active.user
           /\ OlderStatus(st).new.user = st.new.user
      BY StatusMade DEF OlderStatus
  <2> QED
      BY <1>7, <2>1 DEF PeriodPasses
<1>8. CASE EditClaim \/ CreateUser
    BY <1>8 DEF EditClaim, CreateUser
<1>9. CASE ReconcileSkipped \/ KeepUsers \/ KeepPassword
    BY <1>9 DEF ReconcileSkipped, KeepUsers, KeepPassword
<1>10. CASE createOrUpdateSecret \/ ActiveDBSuccessReconcile \/ Restart \/ TimerFires
    BY <1>10 DEF createOrUpdateSecret, ActiveDBSuccessReconcile, Restart, TimerFires
<1>11. CASE UNCHANGED vars
    BY <1>11 DEF vars
<1> QED
    BY <1>1, <1>2, <1>3, <1>4, <1>5, <1>6, <1>7, <1>8, <1>9, <1>10, <1>11, Zenon
    DEF Next, Controller, RenameUserFails, StatusConflict, CallFails

-----------------------------------------------------------------------------
(* Until it changes a password, a reconcile starts from the users recorded *)
(* in the status; afterwards the password it made is its new user's.  A    *)
(* secret is only ever written with a password.                            *)
PasswordInv ==
    /\ pc \in {"role", "rename", "rotate", "password"} =>
          /\ mem.active.user = status.active.user
          /\ mem.new.user = IF start.mode = "existing" /\ status.active.user # NoUser
                            THEN status.active.user ELSE status.new.user
    /\ pc \in {"role", "rename", "rotate"} => tempSecret = 0
    /\ pc \in {"grants", "secret"} /\ tempSecret # 0 =>
          mem.new.user \in Users /\ password[mem.new.user] = tempSecret
    /\ secret # NoSecret => secret.user \in Users /\ secret.pw # 0

(* Only CreateUser, UpdatePassword and the secret's write disturb that.    *)
LEMMA PasswordInvKept == ASSUME UserType, PasswordInv, [Next]_vars PROVE PasswordInv'
<1> USE DEF PasswordInv, UserType, Continue, claimVars, runVars, dbVars, queueVars,
            boundVars
<1>1. CASE Reconcile
  <2>1. /\ StartingStatus.active.user = status.active.user
        /\ StartingStatus.new.user = IF start.mode = "existing" /\ status.active.user # NoUser
                                     THEN status.active.user ELSE status.new.user
      BY StatusMade DEF StartingStatus
  <2> QED
      BY <1>1, <2>1 DEF Reconcile
<1>2. CASE CreateUser
    BY <1>2 DEF CreateUser
<1>3. CASE UpdatePassword
  <2>1. NextUser(currentUser) \in Users
      BY NextUserDiffers
  <2>2. mem'.new.user = NextUser(currentUser)
      BY <1>3, <2>1, StatusMade DEF UpdatePassword
  <2>3. password'[NextUser(currentUser)] = tempSecret
      BY <1>3, <2>1 DEF UpdatePassword
  <2> QED
      BY <1>3, <2>1, <2>2, <2>3 DEF UpdatePassword
<1>4. CASE ManageRoles \/ ClearError \/ SuccessAndUpdateCondition
    BY <1>4 DEF ManageRoles, ClearError, SuccessAndUpdateCondition
<1>5. CASE createOrUpdateSecret
    BY <1>5 DEF createOrUpdateSecret
<1>6. CASE SetError
    BY <1>6 DEF SetError
<1>7. CASE PeriodPasses
  <2>1. \A st \in Statuses :
           /\ OlderStatus(st).active.user = st.active.user
           /\ OlderStatus(st).new.user = st.new.user
      BY StatusMade DEF OlderStatus
  <2> QED
      BY <1>7, <2>1 DEF PeriodPasses
<1>8. CASE EditClaim \/ CreateRole \/ ActivateNewDB
    BY <1>8 DEF EditClaim, CreateRole, ActivateNewDB
<1>9. CASE ReconcileSkipped \/ KeepUsers \/ KeepPassword
    BY <1>9 DEF ReconcileSkipped, KeepUsers, KeepPassword
<1>10. CASE ActiveDBSuccessReconcile \/ Restart \/ TimerFires
    BY <1>10 DEF ActiveDBSuccessReconcile, Restart, TimerFires
<1>11. CASE UNCHANGED vars
    BY <1>11 DEF vars
<1> QED
    BY <1>1, <1>2, <1>3, <1>4, <1>5, <1>6, <1>7, <1>8, <1>9, <1>10, <1>11, Zenon
    DEF Next, Controller, RenameUserFails, StatusConflict, CallFails

-----------------------------------------------------------------------------
(* A status has a time for exactly the users it names.                     *)
Dated(db) == db.user = NoUser <=> db.at = "never"
DatedInv ==
    /\ Dated(status.active) /\ Dated(status.new)
    /\ Dated(mem.active) /\ Dated(mem.new)

(* UpdateUserStatus sets both, and a new database's status starts empty.   *)
LEMMA DatedInvKept == ASSUME UserType, DatedInv, [Next]_vars PROVE DatedInv'
<1> USE DEF DatedInv, Dated, UserType, Continue, claimVars, runVars, dbVars, queueVars,
            boundVars
<1>1. CASE Reconcile
  <2>1. StartingStatus.active = status.active /\ StartingStatus.new \in {status.active, status.new}
      BY StatusMade DEF StartingStatus
  <2> QED
      BY <1>1, <2>1 DEF Reconcile
<1>2. CASE UpdatePassword
  <2>1. NextUser(currentUser) \in Users /\ NextUser(currentUser) # NoUser
      BY NextUserDiffers, NamesAssumption DEF Users, NoUser
  <2>2. /\ mem'.active = mem.active
        /\ mem'.new.user = NextUser(currentUser) /\ mem'.new.at = "recent"
      BY <1>2, <2>1, StatusMade DEF UpdatePassword
  <2> QED
      BY <1>2, <2>1, <2>2 DEF UpdatePassword
<1>3. CASE ManageRoles \/ ClearError \/ SuccessAndUpdateCondition
    BY <1>3 DEF ManageRoles, ClearError, SuccessAndUpdateCondition
<1>4. CASE ActivateNewDB
    BY <1>4 DEF ActivateNewDB, NoDb
<1>5. CASE SetError
    BY <1>5, Zenon DEF SetError
<1>6. CASE PeriodPasses
  <2>1. \A db \in DbStatus : Older(db).at = "never" <=> db.at = "never"
      BY DEF Older, DbStatus, Ages
  <2>2. \A st \in Statuses : /\ OlderStatus(st).active = Older(st.active)
                             /\ OlderStatus(st).new = Older(st.new)
      BY DEF OlderStatus
  <2> QED
      BY <1>6, <2>1, <2>2, StatusMade DEF PeriodPasses
<1>7. CASE EditClaim \/ CreateRole \/ CreateUser
    BY <1>7 DEF EditClaim, CreateRole, CreateUser
<1>8. CASE ReconcileSkipped \/ KeepUsers \/ KeepPassword
    BY <1>8 DEF ReconcileSkipped, KeepUsers, KeepPassword
<1>9. CASE createOrUpdateSecret \/ ActiveDBSuccessReconcile \/ Restart \/ TimerFires
    BY <1>9 DEF createOrUpdateSecret, ActiveDBSuccessReconcile, Restart, TimerFires
<1>10. CASE UNCHANGED vars
    BY <1>10 DEF vars
<1> QED
    BY <1>1, <1>2, <1>3, <1>4, <1>5, <1>6, <1>7, <1>8, <1>9, <1>10, Zenon
    DEF Next, Controller, RenameUserFails, StatusConflict, CallFails

(* The secret names this user, with its password.                          *)
Works(user) == Usable /\ secret.user = user

(* What the status lets the next reconcile rely on.                        *)
StatusSound ==
    IF start.mode = "new" THEN status.new.user = NoUser
    ELSE /\ status.active.at = "recent" =>
               Works(status.active.user) /\ pc \in {"idle", "ready"}
         /\ status.active.user = NoUser =>
               /\ start.fresh
               /\ status.new.user = NoUser \/ Works(status.new.user) \/ pc = "secret"

(* ... and what the running one has made of it.                            *)
RunSound ==
    /\ Settled \/ pc = "version" => Works(status.active.user)
    /\ pc \in {"role", "rename", "rotate"} /\ ~RotationDue => Works(mem.new.user)
    /\ pc = "password" => RotationDue /\ tempSecret # 0
    /\ pc \in {"grants", "secret"} => tempSecret # 0 \/ Works(mem.new.user)
    /\ pc = "functions" => Works(mem.new.user)
    /\ pc \in {"clear", "ready"} => Works(mem.active.user) /\ mem.new.user = NoUser
    /\ start.mode = "existing" /\ pc \in {"role", "rename", "rotate", "password",
                                          "grants", "secret", "functions"} =>
          mem.active.at # "recent" /\ mem.active.user = status.active.user
    /\ start.mode = "existing" /\ pc = "secret" => status.new.user = mem.new.user

SoundInv == ~Interrupted => StatusSound /\ RunSound

(* Faults are only ever counted up ...                                     *)
FaultType == errors \in Nat /\ crashes \in Nat

(* One step counts at most one failing call and one restart.               *)
LEMMA FaultsCounted ==
    ASSUME [Next]_vars
    PROVE  /\ start' = start
           /\ errors' \in {errors, errors + 1} /\ crashes' \in {crashes, crashes + 1}
BY Zenon DEF Next, Controller, RenameUserFails, StatusConflict, CallFails, SetError, Reconcile,
       ReconcileSkipped, CreateRole, KeepUsers, KeepPassword, ManageRoles, ActivateNewDB,
       ClearError, SuccessAndUpdateCondition, ActiveDBSuccessReconcile, Restart, TimerFires,
       PeriodPasses, EditClaim, CreateUser, UpdatePassword, createOrUpdateSecret, Continue,
       vars, claimVars, boundVars

(* ... so what interrupts a claim is not undone.                           *)
LEMMA InterruptedStays ==
    ASSUME FaultType, [Next]_vars
    PROVE  FaultType' /\ (Interrupted => Interrupted')
<1>1. FaultType'
    BY FaultsCounted DEF FaultType
<1>2. errors > 0 => errors' > 0
    BY FaultsCounted DEF FaultType
<1>3. errors + crashes > 0 => errors' + crashes' > 0
    BY FaultsCounted DEF FaultType
<1>4. start' = start
    BY FaultsCounted
<1> QED
    BY <1>1, <1>2, <1>3, <1>4, Zenon DEF Interrupted

(* No claim has the user that stands for none.                             *)
LEMMA NoUserIsNone == NoUser \notin Users
    BY NamesAssumption DEF Users, NoUser

(* Each step of an uninterrupted claim keeps both.                         *)
LEMMA SoundInvKept ==
    ASSUME UserType, PasswordInv, DatedInv, FaultType, StatusSound, RunSound,
           [Next]_vars, ~Interrupted'
    PROVE  StatusSound' /\ RunSound'
<1> USE DEF UserType, StatusSound, RunSound, Works, Usable, Settled, RotationDue, Continue,
            claimVars, runVars, dbVars, queueVars, boundVars
<1>1. CASE Reconcile
  <2>1. /\ StartingStatus.active = status.active
        /\ StartingStatus.new = IF start.mode = "existing" /\ status.active.user # NoUser
                                THEN status.active ELSE status.new
      BY StatusMade DEF StartingStatus
  <2>2. status.active.at \in Ages /\ status.new.at \in Ages
      BY DEF Statuses, DbStatus
  <2> QED
      BY <1>1, <2>1, <2>2 DEF Reconcile, UpdatedRecently, DatedInv, Dated, Ages
<1>2. CASE ReconcileSkipped
    BY <1>2 DEF ReconcileSkipped, UpdatedRecently
<1>3. CASE CreateRole \/ KeepUsers
    BY <1>3 DEF CreateRole, KeepUsers
<1>4. CASE CreateUser
    BY <1>4, NewPasswordExists DEF CreateUser, PasswordInv, DatedInv, Dated
<1>5. CASE UpdatePassword
  <2>1. mem'.active = mem.active
      BY <1>5, StatusMade, NextUserDiffers DEF UpdatePassword
  <2> QED
      BY <1>5, <2>1 DEF UpdatePassword, PasswordInv, DatedInv, Dated
<1>6. CASE KeepPassword
    BY <1>6 DEF KeepPassword, PasswordInv
<1>7. CASE ManageRoles
    BY <1>7 DEF ManageRoles
<1>8. CASE createOrUpdateSecret
  <2>1. NoUser \notin Users
      BY NoUserIsNone
  <2> QED
      BY <1>8, <2>1, Zenon DEF createOrUpdateSecret, PasswordInv, NoSecret
<1>9. CASE ActivateNewDB
    BY <1>9 DEF ActivateNewDB, NoDb
<1>10. CASE ClearError
    BY <1>10, NoUserIsNone DEF ClearError, PasswordInv
<1>11. CASE SuccessAndUpdateCondition
    BY <1>11, NoUserIsNone DEF SuccessAndUpdateCondition, PasswordInv
<1>12. CASE ActiveDBSuccessReconcile \/ TimerFires \/ EditClaim
  <2>1. CASE ActiveDBSuccessReconcile
      BY <2>1 DEF ActiveDBSuccessReconcile
  <2>2. CASE TimerFires \/ EditClaim
      BY <2>2 DEF TimerFires, EditClaim
  <2> QED
      BY <1>12, <2>1, <2>2
<1>13. CASE RenameUserFails
    BY <1>13, Zenon DEF RenameUserFails, SetError, PasswordInv
<1>14. CASE StatusConflict
    BY <1>14 DEF StatusConflict, SetError, Succeeding
<1>15. CASE CallFails
  <2>1. start.mode = "existing" /\ ~start.fresh
    <3>1. start.mode \in {"new", "existing"}
        BY Zenon DEF UserType
    <3>2. errors' = errors + 1 /\ UNCHANGED <<start, crashes>> /\ errors \in Nat /\ crashes \in Nat
        BY <1>15, Zenon DEF CallFails, SetError, FaultType
    <3> HIDE DEF UserType, StatusSound, RunSound
    <3> QED
        BY <3>1, <3>2 DEF Interrupted
  <2> QED
      BY <1>15, <2>1, Zenon DEF CallFails, SetError, PasswordInv, Succeeding
<1>16. CASE Restart
  <2>1. start.mode = "new" \/ ~start.fresh
    <3> HIDE DEF UserType, StatusSound, RunSound
    <3> QED
        BY <1>16 DEF Restart, FaultType, Interrupted
  <2> QED
      BY <1>16, <2>1, Zenon DEF Restart
<1>17. CASE PeriodPasses
  <2>1. \A st \in Statuses :
           /\ OlderStatus(st).active.user = st.active.user
           /\ OlderStatus(st).new.user = st.new.user
           /\ OlderStatus(st).active.at # "recent"
           /\ OlderStatus(st).active.at = "old" \/ st.active.at # "old"
           /\ OlderStatus(st).new.at = "never" <=> st.new.at = "never"
      BY DEF OlderStatus, Older, Statuses, DbStatus, Ages
  <2> QED
      BY <1>17, <2>1 DEF PeriodPasses
<1>18. CASE UNCHANGED vars
    BY <1>18 DEF vars
<1> QED
    BY <1>1, <1>2, <1>3, <1>4, <1>5, <1>6, <1>7, <1>8, <1>9, <1>10, <1>11, <1>12, <1>13,
       <1>14, <1>15, <1>16, <1>17, <1>18 DEF Next, Controller

-----------------------------------------------------------------------------
IInv == UserType /\ RoleInv /\ PasswordInv /\ DatedInv /\ FaultType /\ SoundInv

(* A claim starts with users and passwords that satisfy the invariant.     *)
LEMMA InitIInv == Init => IInv
<1> SUFFICES ASSUME Init PROVE IInv
    OBVIOUS
<1>1. /\ start \in Claims /\ username \in start.names /\ start.names \subseteq Names
      /\ username \in Names /\ GetUserA(username) \in Users
    BY StartsAssumption DEF Init, Claims, GetUserA, Users
<1>2. /\ mem \in Statuses /\ mem.active.user = NoUser /\ mem.new.user = NoUser
      /\ pc = "idle" /\ baseUsername = username
    BY StatusMade DEF Init, NoStatus, NoDb
<1>3. mem.active.at = "never" /\ mem.new.at = "never" /\ FaultType /\ NoUser \notin Users
    BY NamesAssumption DEF Init, NoStatus, NoDb, FaultType, Users, NoUser
<1> USE DEF IInv, UserType, RoleInv, HasRole, PasswordInv, DatedInv, Dated, SoundInv,
            StatusSound, RunSound, Works, Usable, Settled
<1>4. CASE start.fresh /\ InitFresh
    BY <1>1, <1>2, <1>3, <1>4, StatusMade DEF InitFresh, NoStatus, NoDb, Claims
<1>5. CASE InitEstablished
  <2>1. /\ status \in Statuses /\ DOMAIN password = Users
        /\ status.active.user = GetUserA(username) /\ status.active.at = "recent"
        /\ status.new.user = NoUser /\ status.new.at = "never"
      BY <1>1, <1>5, StatusMade DEF InitEstablished, NoDb
  <2>2. /\ secret.user = GetUserA(username) /\ secret.pw = 1 /\ secret # NoSecret
        /\ password[GetUserA(username)] = 1
        /\ username \in roles /\ GetUserA(username).base = username
    <3> HIDE DEF IInv
    <3>1. secret = [user |-> GetUserA(username), pw |-> 1] /\ roles = {username}
        BY <1>5, Zenon DEF InitEstablished
    <3>2. password[GetUserA(username)] = 1
        BY <1>1, <1>5, Zenon DEF InitEstablished
    <3>3. secret.user = GetUserA(username) /\ secret.pw = 1 /\ username \in roles
        BY <3>1
    <3>4. secret # NoSecret
        BY <3>3 DEF NoSecret
    <3>5. GetUserA(username).base = username
        BY DEF GetUserA
    <3> QED
        BY <3>2, <3>3, <3>4, <3>5, Zenon
  <2>3. DatedInv /\ SoundInv
      BY <1>1, <1>2, <1>3, <2>1, <2>2 DEF Claims
  <2>4. RoleInv /\ PasswordInv
      BY <1>1, <1>2, <1>3, <2>1, <2>2 DEF Claims
  <2>5. UserType /\ FaultType
      BY <1>1, <1>2, <1>3, <2>1, <2>2 DEF Claims
  <2> QED
      BY <2>3, <2>4, <2>5
<1> QED
    BY <1>4, <1>5, Zenon DEF Init

(* The users of a claim satisfy the invariant in every state.              *)
LEMMA Inductive == Spec => []IInv
<1>1. IInv /\ [Next]_vars => IInv'
    BY UserTypeKept, RoleInvKept, PasswordInvKept, DatedInvKept, InterruptedStays, SoundInvKept
    DEF IInv, SoundInv
<1> QED
    BY <1>1, InitIInv, PTL DEF Spec

(* For every set of names and any failing calls, restarts and edits, the   *)
(* role of a user name that was changed exists beside the new one when     *)
(* RenameUser is called, which is therefore refused (databaseclaim.go).    *)
THEOREM RenameAlwaysBlocked == Spec => []RenameBlocked
<1>1. IInv => RenameBlocked
    BY DEF IInv, UserType, RoleInv, HasRole, RenameBlocked, IsUserChanged, CanRename, currentUser
<1> QED
    BY <1>1, Inductive, PTL

(* ... and no step makes the password in the application's secret invalid  *)
(* unless a rotation before it has reached the status or the secret only.  *)
THEOREM PasswordKept == Spec => PasswordInUseKept
<1>1. ASSUME IInv, IInv', [Next]_vars, Usable, ~Usable' PROVE HalfRotated
  <2> USE DEF Usable
  <2>1. secret.user \in Users /\ secret.pw # 0 /\ secret # NoSecret
      BY <1>1 DEF IInv, PasswordInv
  <2>2. CASE UNCHANGED <<password, secret>>
      BY <1>1, <2>2
  <2>3. CASE CreateUser
      BY <1>1, <2>1, <2>3, NextUserDiffers DEF CreateUser, IInv, UserType
  <2>4. CASE createOrUpdateSecret
      BY <1>1, <2>1, <2>4
      DEF createOrUpdateSecret, IInv, PasswordInv, UserType, Continue, dbVars, NoSecret
  <2>5. CASE UpdatePassword
    <3>1. NextUser(currentUser) \in Users
        BY <1>1, NextUserDiffers DEF IInv, UserType
    <3>2. secret.user = NextUser(currentUser)
        BY <1>1, <2>1, <2>5, <3>1 DEF UpdatePassword, IInv, UserType
    <3>3. currentUser # secret.user
        BY <1>1, <3>2, NextUserDiffers DEF IInv, UserType
    <3>4. secret.user # NoUser
        BY <2>1, NamesAssumption DEF Users, NoUser
    <3> QED
        BY <1>1, <2>5, <3>3, <3>4, Zenon
        DEF HalfRotated, currentUser, IInv, UserType, PasswordInv, UpdatePassword, Continue
  <2> QED
      BY <1>1, <2>2, <2>3, <2>4, <2>5, Zenon
      DEF Next, Controller, RenameUserFails, StatusConflict, CallFails, SetError, Reconcile,
          ReconcileSkipped, CreateRole, KeepUsers, KeepPassword, ManageRoles, ActivateNewDB,
          ClearError, SuccessAndUpdateCondition, ActiveDBSuccessReconcile, Restart, TimerFires,
          PeriodPasses, EditClaim, vars, claimVars, runVars, dbVars
<1>2. IInv /\ IInv' /\ [Next]_vars => [Usable /\ ~Usable' => HalfRotated]_vars
    BY <1>1
<1> QED
    BY <1>2, Inductive, PTL DEF Spec, PasswordInUseKept

(* Whatever restarts and edits come between, and whatever calls fail once  *)
(* a claim on an existing database has its user: when the controller has   *)
(* nothing left to do, the secret of a claim it calls Ready holds the      *)
(* password of the user that the status names.                             *)
THEOREM SecretIsSound == Spec => []SoundUntilFailure
<1>1. IInv => SoundUntilFailure
    BY DEF IInv, SoundInv, RunSound, Works, SoundUntilFailure, UsableWhenSettled,
           StatusNamesSecretUser
<1> QED
    BY <1>1, Inductive, PTL
==============================================================================
