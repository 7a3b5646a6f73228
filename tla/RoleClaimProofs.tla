--------------------------- MODULE RoleClaimProofs ---------------------------
(***************************************************************************)
(* The user of a role claim's secret can log in, and a role claim that is  *)
(* gone leaves no user behind, for all roles, schema maps, faults, edits   *)
(* and changes of the source.                                              *)
(***************************************************************************)
EXTENDS RoleClaim, TLAPS

Memories == [user : Users \cup {NoUser}, at : Ages, ver : Nat, src : Nat, host : Hosts]

ClaimType ==
    /\ obj \in Claims /\ cache \in Claims /\ read \in Claims /\ mem \in Memories
    /\ source \in Nat /\ seen \in Nat /\ home \in Hosts

(* What the steps make of a claim and of a status.                         *)
LEMMA ClaimMade ==
    /\ NothingRead \in Claims /\ NothingRead.state = "live" /\ NoStatus \in Memories
    /\ \A c \in Claims : Aged(c) \in Claims /\ Aged(c).state = c.state
    /\ \A m \in Memories : Aged(m) \in Memories /\ Aged(m).host = m.host
<1>1. NothingRead \in Claims /\ NothingRead.state = "live"
    BY DEF NothingRead, NewClaim, Claims, Ages, NoUser
<1>2. NoStatus \in Memories
    BY DEF NoStatus, Memories, Ages, Hosts, NoUser
<1>3. \A c \in Claims : Aged(c) \in Claims /\ Aged(c).state = c.state
    BY DEF Aged, Claims, Ages
<1>4. \A m \in Memories : Aged(m) \in Memories /\ Aged(m).host = m.host
    BY DEF Aged, Memories, Ages
<1> QED
    BY <1>1, <1>2, <1>3, <1>4

(* A status write changes neither the schema map nor the state.            *)
LEMMA StoredMade == ASSUME ClaimType PROVE Stored \in Claims /\ Stored.state = obj.state
BY Zenon DEF ClaimType, Stored, Claims, Memories

(* The types are kept.                                                     *)
LEMMA ClaimTypeKept == ASSUME ClaimType, [Next]_vars PROVE ClaimType'
<1> USE DEF ClaimType, sourceVars, storeVars, secretVars, dbVars, runVars, boundVars, At, Doing
<1>1. CASE Reconcile
    BY <1>1 DEF Reconcile, Claims, Memories
<1>2. CASE CreateUser
  <2>1. NextUser(mem.user) \in Users
      BY DEF NextUser, Users
  <2>2. mem' \in Memories
      BY <1>2, <2>1 DEF CreateUser, Memories
  <2> QED
      BY <1>2, <2>2 DEF CreateUser
<1>3. CASE WriteUserSecret \/ CopySourceSecret
  <2>1. mem' \in Memories
      BY <1>3 DEF WriteUserSecret, CopySourceSecret, Memories, Ages
  <2> QED
      BY <1>3, <2>1 DEF WriteUserSecret, CopySourceSecret
<1>4. CASE UpdateStatus \/ CopyFails
    BY <1>4, StoredMade, ClaimMade DEF UpdateStatus, CopyFails, Done
<1>5. CASE RemoveFinalizer
  <2>1. [obj EXCEPT !.state = "gone"] \in Claims
      BY DEF Claims
  <2> QED
      BY <1>5, <2>1, ClaimMade DEF RemoveFinalizer, Done
<1>6. CASE CreateSchemasAndRoles \/ UpdatePassword \/ RevokeAccessToRole \/ AssignRoleToUser
    BY <1>6 DEF CreateSchemasAndRoles, UpdatePassword, RevokeAccessToRole, AssignRoleToUser
<1>7. CASE DropUserA \/ DropUserB \/ DropFails
    BY <1>7 DEF DropUserA, DropUserB, DropUser, DropFails
<1>8. CASE CallFails \/ Restart
    BY <1>8, ClaimMade DEF CallFails, Restart, Done
<1>9. CASE InformerSync \/ SecretSync \/ Enqueue \/ SourceDeleted
    BY <1>9 DEF InformerSync, SecretSync, Enqueue, SourceDeleted
<1>10. CASE PeriodPasses
    BY <1>10, ClaimMade DEF PeriodPasses
<1>11. ASSUME NEW w \in Maps, EditClaim(w) PROVE ClaimType'
  <2>1. w \in Maps \cup {{}} /\ obj.gen + 1 \in Nat
      BY DEF Claims
  <2>2. [obj EXCEPT !.wanted = w, !.gen = obj.gen + 1] \in Claims
      BY <2>1, Zenon DEF Claims
  <2> QED
      BY <1>11, <2>2 DEF EditClaim
<1>12. CASE DeleteClaim
  <2>1. [obj EXCEPT !.state = "deleting"] \in Claims
      BY DEF Claims
  <2> QED
      BY <1>12, <2>1 DEF DeleteClaim
<1>13. CASE SourceSecretChanges \/ SourceMigrates
    BY <1>13 DEF SourceSecretChanges, SourceMigrates, Hosts
<1>14. CASE UNCHANGED vars
    BY <1>14 DEF vars
<1> QED
    BY <1>1, <1>2, <1>3, <1>4, <1>5, <1>6, <1>7, <1>8, <1>9, <1>10, <1>11, <1>12, <1>13, <1>14
    DEF Next, ReconcileSteps

-----------------------------------------------------------------------------
Dropping == {"dropA", "dropB", "finalize"}

(* The claim a reconcile has read, the cache and the API server are stages *)
(* of one life: nobody sees a later stage than the one after it.           *)
StateInv ==
    /\ read.state # "gone"
    /\ read.state = "deleting" => cache.state # "live"
    /\ cache.state = "deleting" => obj.state # "live"
    /\ cache.state = "gone" => obj.state = "gone"
    /\ pc \in Dropping => read.state = "deleting"
    /\ obj.state = "gone" => cache.state # "live" /\ pc \in Dropping \cup {"idle"}

(* No user is made on a host the source has not asked for; a deletion has  *)
(* dropped the users it has passed, or the failure is recorded.            *)
DropInv ==
    /\ pc # "idle" => mem.host = home
    /\ home = "old" => users \cap ({"new"} \X Users) = {}
    /\ pc = "dropB" => left \/ <<home, "a">> \notin users
    /\ pc = "finalize" => left \/ users \cap ({home} \X Users) = {}

(* A state only moves on, and a deletion is finished only by a reconcile   *)
(* whose copy of the claim is the current one.                             *)
LEMMA StateInvKept == ASSUME ClaimType, ClaimType', StateInv, [Next]_vars PROVE StateInv'
<1> USE DEF ClaimType, StateInv, Dropping, sourceVars, storeVars, secretVars, dbVars, runVars,
            boundVars, At, Doing
<1>1. CASE Reconcile
  <2>1. /\ cache.state = "deleting" => FirstStep = "dropA"
        /\ cache.state # "deleting" => FirstStep \in {"roles", "status", "copy"}
      BY DEF FirstStep, StepForMap
  <2>2. cache.state \in {"live", "deleting", "gone"}
      BY DEF Claims
  <2>3. CASE cache.state = "gone"
      BY <1>1, <2>3 DEF Reconcile
  <2>4. CASE cache.state # "gone"
      BY <1>1, <2>1, <2>2, <2>4 DEF Reconcile
  <2> QED
      BY <2>3, <2>4
<1>2. CASE UpdateStatus \/ CopyFails
    BY <1>2, StoredMade, ClaimMade DEF UpdateStatus, CopyFails, Done
<1>3. CASE RemoveFinalizer
  <2>1. [obj EXCEPT !.state = "gone"].state = "gone"
      BY DEF Claims
  <2> QED
      BY <1>3, <2>1, ClaimMade DEF RemoveFinalizer, Done, Conflict
<1>4. CASE CreateSchemasAndRoles \/ CreateUser \/ UpdatePassword \/ RevokeAccessToRole
    BY <1>4 DEF CreateSchemasAndRoles, CreateUser, UpdatePassword, RevokeAccessToRole
<1>5. CASE AssignRoleToUser \/ WriteUserSecret \/ CopySourceSecret
    BY <1>5 DEF AssignRoleToUser, WriteUserSecret, CopySourceSecret
<1>6. CASE DropUserA \/ DropUserB \/ DropFails
    BY <1>6 DEF DropUserA, DropUserB, DropUser, DropFails
<1>7. CASE CallFails \/ Restart
    BY <1>7, ClaimMade DEF CallFails, Restart, Done
<1>8. CASE InformerSync
    BY <1>8 DEF InformerSync, Claims
<1>9. CASE SecretSync \/ Enqueue \/ SourceDeleted \/ SourceSecretChanges \/ SourceMigrates
    BY <1>9 DEF SecretSync, Enqueue, SourceDeleted, SourceSecretChanges, SourceMigrates
<1>10. CASE PeriodPasses
    BY <1>10, ClaimMade DEF PeriodPasses
<1>11. ASSUME NEW w \in Maps, EditClaim(w) PROVE StateInv'
  <2>1. obj'.state = obj.state
      BY <1>11 DEF EditClaim, Claims
  <2> QED
      BY <1>11, <2>1 DEF EditClaim
<1>12. CASE DeleteClaim
  <2>1. obj'.state = "deleting"
      BY <1>12 DEF DeleteClaim, Claims
  <2> QED
      BY <1>12, <2>1 DEF DeleteClaim
<1>13. CASE UNCHANGED vars
    BY <1>13 DEF vars
<1> QED
    BY <1>1, <1>2, <1>3, <1>4, <1>5, <1>6, <1>7, <1>8, <1>9, <1>10, <1>11, <1>12, <1>13, Zenon
    DEF Next, ReconcileSteps

(* Each deleting step drops its user; no other step concerns both.         *)
LEMMA DropInvKept ==
    ASSUME ClaimType, DropInv, [Next]_vars
    PROVE  DropInv'
<1> USE DEF ClaimType, DropInv, sourceVars, storeVars, secretVars, dbVars, runVars,
            boundVars, At, Doing
<1>1. CASE Reconcile
    BY <1>1 DEF Reconcile, FirstStep, StepForMap
<1>2. CASE CreateUser
  <2>1. mem'.host = mem.host
      BY <1>2 DEF CreateUser, Memories
  <2>2. home = "old" => users' \cap ({"new"} \X Users) = {}
      BY <1>2 DEF CreateUser
  <2> QED
      BY <1>2, <2>1, <2>2 DEF CreateUser
<1>3. CASE WriteUserSecret \/ CopySourceSecret
  <2>1. mem'.host = mem.host
      BY <1>3 DEF WriteUserSecret, CopySourceSecret, Memories
  <2> QED
      BY <1>3, <2>1 DEF WriteUserSecret, CopySourceSecret
<1>4. CASE UpdateStatus \/ CopyFails \/ RemoveFinalizer \/ CallFails \/ Restart
    BY <1>4 DEF UpdateStatus, CopyFails, RemoveFinalizer, CallFails, Restart, Done
<1>5. CASE CreateSchemasAndRoles \/ UpdatePassword \/ RevokeAccessToRole \/ AssignRoleToUser
    BY <1>5 DEF CreateSchemasAndRoles, UpdatePassword, RevokeAccessToRole, AssignRoleToUser
<1>6. CASE DropUserA
    BY <1>6 DEF DropUserA, DropUser
<1>7. CASE DropUserB
    BY <1>7 DEF DropUserB, DropUser, Users
<1>8. CASE DropFails
    BY <1>8 DEF DropFails
<1>9. CASE InformerSync \/ SecretSync \/ Enqueue \/ SourceDeleted
    BY <1>9 DEF InformerSync, SecretSync, Enqueue, SourceDeleted
<1>10. CASE PeriodPasses
    BY <1>10, ClaimMade DEF PeriodPasses
<1>11. CASE (\E w \in Maps : EditClaim(w)) \/ DeleteClaim
    BY <1>11, Zenon DEF EditClaim, DeleteClaim
<1>12. CASE SourceSecretChanges \/ SourceMigrates
    BY <1>12 DEF SourceSecretChanges, SourceMigrates
<1>13. CASE UNCHANGED vars
    BY <1>13 DEF vars
<1> QED
    BY <1>1, <1>2, <1>3, <1>4, <1>5, <1>6, <1>7, <1>8, <1>9, <1>10, <1>11, <1>12, <1>13, Zenon
    DEF Next, ReconcileSteps

-----------------------------------------------------------------------------
(***************************************************************************)
(* The user of the secret can log in.                                      *)
(***************************************************************************)
(* A copy that differs from the claim only in a date that has passed would *)
(* be the claim.                                                           *)
Same(c) == Aged(c) = Aged(obj) => c = obj

(* What the copies of the claim, in the cache and in the running           *)
(* reconcile, have to do with it: neither is newer, and when the           *)
(* reconcile's is outdated another reconcile will come.                    *)
CopyInv ==
    /\ cache.gen <= obj.gen /\ Same(cache)
    /\ cache.at = "recent" => obj.at = "recent"
    /\ pc # "idle" =>
          /\ read.gen <= obj.gen /\ Same(read)
          /\ read.at = "recent" => obj.at = "recent"
          /\ read = obj => cache = obj
          /\ read # obj => queued \/ cache # obj

Changing == {"revoke", "assign", "secret"}
Rotating == {"roles", "user", "password"} \cup Changing

(* The status in memory: a reconcile that rotates found that due, and from *)
(* the creation of the user on it is about the other user.                 *)
MemInv ==
    /\ pc # "idle" => /\ mem.user = read.user => mem.at = read.at
                      /\ read.at = "recent" => mem.at = "recent"
    /\ pc \in Rotating => RotationDue(read) /\ mem.at = read.at
    /\ pc \in {"password"} \cup Changing => mem.user # read.user /\ Account \in users
    /\ pc \in {"roles", "user", "copy"} => mem.user = read.user

(* The users of a claim nobody deletes stay.                               *)
UserInv ==
    obj.state = "live" /\ HasUser => <<roleSecret.made, roleSecret.user>> \in users

(* While the secret's password is outdated a rotation is due, and under    *)
(* way or still to come if the claim has a schema map.                     *)
LogInv ==
    HasUser /\ ~secretOk /\ ~broken /\ pc \notin Changing =>
        /\ RotationDue(obj)
        /\ pc = "status" => read.wanted = {} /\ mem.at = read.at
        /\ pc = "idle" => queued \/ cache # obj \/ obj.state # "live" \/ obj.wanted = {}

(* Time changes the date of a claim only, and once.                        *)
LEMMA AgedClaim ==
    ASSUME NEW c \in Claims
    PROVE  /\ Aged(c).gen = c.gen /\ Aged(c).state = c.state /\ Aged(c).user = c.user
           /\ Aged(c).wanted = c.wanted /\ Aged(c).at # "recent"
           /\ (c.at # "recent" => Aged(c) = c) /\ Aged(Aged(c)) = Aged(c)
<1>1. /\ Aged(c).gen = c.gen /\ Aged(c).state = c.state /\ Aged(c).user = c.user
      /\ Aged(c).wanted = c.wanted /\ Aged(c).at # "recent"
    BY DEF Aged, Claims
<1>2. \A d \in Claims : d.at # "recent" => Aged(d) = d
    BY DEF Aged, Claims
<1>3. Aged(Aged(c)) = Aged(c)
    BY <1>1, <1>2, ClaimMade
<1> QED
    BY <1>1, <1>2, <1>3

(* The same for the status a reconcile holds in memory.                    *)
LEMMA AgedMemory ==
    ASSUME NEW m \in Memories
    PROVE  /\ Aged(m).user = m.user /\ Aged(m).host = m.host
           /\ Aged(m).at = IF m.at = "recent" THEN "old" ELSE m.at
BY DEF Aged, Memories

(* A status write that changes the date changes the user.                  *)
LEMMA StoredSame ==
    ASSUME ClaimType, pc # "idle", MemInv, read = obj
    PROVE  /\ Stored.gen = obj.gen /\ Stored.wanted = obj.wanted /\ Stored.at = mem.at
           /\ Aged(obj) = Aged(Stored) => obj = Stored
<1>1. /\ Stored.gen = obj.gen /\ Stored.wanted = obj.wanted /\ Stored.at = mem.at
      /\ Stored.user = mem.user /\ Stored.ver = mem.ver
    BY DEF Stored, ClaimType, Claims, Memories
<1>2. ASSUME Aged(obj) = Aged(Stored) PROVE obj = Stored
  <2>1. Aged(obj).user = obj.user /\ Aged(Stored).user = Stored.user
      BY AgedClaim, StoredMade DEF ClaimType
  <2>2. mem.at = obj.at /\ mem.user = obj.user
      BY <1>1, <1>2, <2>1 DEF MemInv
  <2>3. Aged(obj).ver = obj.ver /\ Aged(Stored).ver = Stored.ver
      BY StoredMade DEF ClaimType, Aged, Claims
  <2>4. mem.ver = obj.ver
      BY <1>1, <1>2, <2>3
  <2> QED
      BY <2>2, <2>4 DEF Stored, ClaimType, Claims
<1> QED
    BY <1>1, <1>2

(* Every change of the claim makes the copies outdated, and an outdated    *)
(* copy is followed by the current one.                                    *)
LEMMA CopyInvKept ==
    ASSUME ClaimType, ClaimType', StateInv, CopyInv, MemInv, [Next]_vars
    PROVE  CopyInv'
<1> USE DEF sourceVars, storeVars, secretVars, dbVars, runVars, boundVars, At, Doing
<1>0. obj \in Claims /\ cache \in Claims /\ read \in Claims /\ obj' \in Claims
    BY DEF ClaimType
<1>1. ASSUME UNCHANGED <<obj, cache, read, queued>>, pc # "idle" PROVE CopyInv'
    BY <1>1 DEF CopyInv, Same
<1>2. ASSUME UNCHANGED <<obj, cache>>, pc' = "idle" PROVE CopyInv'
    BY <1>2 DEF CopyInv, Same
<1>3. ASSUME UNCHANGED <<obj, cache, pc, read>>, pc = "idle" \/ queued' = TRUE PROVE CopyInv'
    BY <1>3 DEF CopyInv, Same
<1>4. CASE Reconcile
    BY <1>0, <1>4 DEF Reconcile, CopyInv, Same
<1>5. CASE UpdateStatus \/ CopyFails
  <2>1. CASE Conflict
      BY <1>2, <1>5, <2>1 DEF UpdateStatus, CopyFails, Done
  <2>2. CASE ~Conflict
    <3>1. obj' = Stored /\ UNCHANGED cache /\ pc' = "idle" /\ pc # "idle" /\ read = obj
        BY <1>5, <2>2 DEF UpdateStatus, CopyFails, Done, Conflict
    <3>2. cache = obj /\ Same(cache)' /\ cache.gen <= obj'.gen
        BY <1>0, <3>1, StoredSame DEF CopyInv, Same, Claims
    <3>3. cache.at = "recent" => obj'.at = "recent"
        BY <3>1, <3>2, StoredSame DEF MemInv
    <3> QED
        BY <3>1, <3>2, <3>3 DEF CopyInv
  <2> QED
      BY <2>1, <2>2
<1>6. CASE RemoveFinalizer
  <2>1. CASE Conflict
      BY <1>2, <1>6, <2>1 DEF RemoveFinalizer, Done
  <2>2. CASE ~Conflict
    <3>1. /\ obj' = [obj EXCEPT !.state = "gone"] /\ UNCHANGED cache /\ pc' = "idle"
          /\ read.state = "deleting" /\ read = obj /\ cache = obj
        BY <1>6, <2>2 DEF RemoveFinalizer, Done, Conflict, CopyInv, StateInv, Dropping
    <3>2. obj'.state = "gone" /\ obj'.gen = obj.gen /\ obj'.at = obj.at
        BY <1>0, <3>1 DEF Claims
    <3>3. Aged(cache).state # Aged(obj').state
        BY <1>0, <3>1, <3>2, AgedClaim
    <3> QED
        BY <3>1, <3>2, <3>3 DEF CopyInv, Same
  <2> QED
      BY <2>1, <2>2
<1>7. ASSUME cache' = obj, UNCHANGED obj, UNCHANGED <<pc, read>> \/ pc' = "idle", queued' = TRUE
      PROVE  CopyInv'
    BY <1>0, <1>7 DEF CopyInv, Same, Claims
<1>8. CASE PeriodPasses
  <2>1. /\ obj' = Aged(obj) /\ cache' = Aged(cache) /\ read' = Aged(read)
        /\ UNCHANGED <<pc, queued>>
      BY <1>8 DEF PeriodPasses
  <2>2. \A c \in Claims : Aged(c).gen = c.gen /\ Aged(c).at # "recent" /\ Aged(Aged(c)) = Aged(c)
      BY AgedClaim
  <2>3. Same(cache)' /\ Same(read)'
      BY <1>0, <2>1, <2>2 DEF Same
  <2> QED
      BY <1>0, <2>1, <2>2, <2>3 DEF CopyInv, Same
<1>9. ASSUME UNCHANGED <<cache, pc, read>>,
             obj'.gen # cache.gen \/ obj'.state # cache.state,
             pc # "idle" => obj'.gen # read.gen \/ obj'.state # read.state,
             obj'.gen >= obj.gen, obj'.at = obj.at
      PROVE  CopyInv'
  <2>1. \A c \in Claims : Aged(c).gen = c.gen /\ Aged(c).state = c.state
      BY AgedClaim
  <2>2. Same(cache)' /\ cache' # obj'
      BY <1>0, <1>9, <2>1 DEF Same
  <2>3. pc # "idle" => Same(read)' /\ read' # obj'
      BY <1>0, <1>9, <2>1 DEF Same
  <2>4. obj.gen \in Nat /\ obj'.gen \in Nat /\ cache.gen \in Nat /\ read.gen \in Nat
      BY <1>0 DEF Claims
  <2> QED
      BY <1>9, <2>2, <2>3, <2>4 DEF CopyInv
<1>10. ASSUME NEW w \in Maps, EditClaim(w) PROVE CopyInv'
  <2>1. obj'.gen = obj.gen + 1 /\ obj'.at = obj.at /\ UNCHANGED <<cache, pc, read>>
      BY <1>0, <1>10 DEF EditClaim, Claims
  <2>2. obj.gen \in Nat /\ cache.gen \in Nat /\ read.gen \in Nat
      BY <1>0 DEF Claims
  <2>3. /\ obj'.gen # cache.gen /\ obj'.gen >= obj.gen
        /\ pc # "idle" => obj'.gen # read.gen
      BY <2>1, <2>2 DEF CopyInv
  <2> QED
      BY <1>9, <2>1, <2>3
<1>11. CASE DeleteClaim
  <2>1. /\ obj'.gen = obj.gen /\ obj'.at = obj.at /\ UNCHANGED <<cache, pc, read>>
        /\ obj'.state = "deleting" /\ obj.state = "live"
      BY <1>0, <1>11 DEF DeleteClaim, Claims
  <2>2. cache.state # "deleting" /\ read.state # "deleting" /\ obj'.gen >= obj.gen
      BY <1>0, <2>1 DEF StateInv, Claims
  <2> QED
      BY <1>9, <2>1, <2>2
<1>12. CASE UNCHANGED vars
    BY <1>12 DEF vars, CopyInv, Same
<1>13. CASE SecretSync \/ Enqueue \/ SourceSecretChanges \/ SourceMigrates \/ SourceDeleted
    BY <1>1, <1>3, <1>13
    DEF SecretSync, Enqueue, SourceSecretChanges, SourceMigrates, SourceDeleted
<1>14. CASE InformerSync \/ Restart \/ CallFails
    BY <1>2, <1>7, <1>14 DEF InformerSync, Restart, CallFails, Done
<1>15. CASE CreateSchemasAndRoles \/ CreateUser \/ UpdatePassword \/ RevokeAccessToRole
    BY <1>1, <1>15 DEF CreateSchemasAndRoles, CreateUser, UpdatePassword, RevokeAccessToRole
<1>16. CASE AssignRoleToUser \/ WriteUserSecret \/ CopySourceSecret
    BY <1>1, <1>16 DEF AssignRoleToUser, WriteUserSecret, CopySourceSecret
<1>17. CASE DropUserA \/ DropUserB \/ DropFails
    BY <1>1, <1>17 DEF DropUserA, DropUserB, DropUser, DropFails
<1> QED
    BY <1>4, <1>5, <1>6, <1>8, <1>10, <1>11, <1>12, <1>13, <1>14, <1>15, <1>16, <1>17
    DEF Next, ReconcileSteps

(* A user has the other user's turn after it.                              *)
LEMMA NextUserOther == \A u : NextUser(u) # u /\ NextUser(u) \in Users
BY DEF NextUser, Users

(* The status in memory changes with the steps of its reconcile.           *)
LEMMA MemInvKept ==
    ASSUME ClaimType, MemInv, [Next]_vars
    PROVE  MemInv'
<1> USE DEF MemInv, Rotating, Changing, sourceVars, storeVars, secretVars, dbVars, runVars,
            boundVars, At, Doing, Account
<1>0. read \in Claims /\ cache \in Claims /\ mem \in Memories
    BY DEF ClaimType
<1>1. CASE Reconcile
  <2>1. CASE cache.state = "gone"
      BY <1>1, <2>1 DEF Reconcile
  <2>2. CASE cache.state # "gone"
    <3>1. /\ pc' = FirstStep /\ read' = cache
          /\ mem'.user = cache.user /\ mem'.at = cache.at
        BY <1>1, <2>2 DEF Reconcile
    <3>2. /\ FirstStep \in {"dropA", "roles", "status", "copy"}
          /\ FirstStep = "roles" => RotationDue(cache)
        BY DEF FirstStep, StepForMap
    <3> QED
        BY <3>1, <3>2
  <2> QED
      BY <2>1, <2>2
<1>2. CASE CreateUser
  <2>1. /\ mem'.user = NextUser(mem.user) /\ mem'.at = mem.at /\ mem'.host = mem.host
      BY <1>0, <1>2 DEF CreateUser, Memories
  <2>2. /\ pc = "user" /\ pc' \in {"password", "revoke"} /\ read' = read
        /\ <<mem.host, NextUser(mem.user)>> \in users'
      BY <1>2 DEF CreateUser
  <2> QED
      BY <2>1, <2>2, NextUserOther
<1>3. CASE WriteUserSecret
  <2>1. mem'.user = mem.user /\ mem'.at = "recent"
      BY <1>0, <1>3 DEF WriteUserSecret, Memories
  <2>2. pc = "secret" /\ pc' = "status" /\ read' = read
      BY <1>3 DEF WriteUserSecret
  <2> QED
      BY <2>1, <2>2
<1>4. CASE CopySourceSecret
  <2>1. mem'.user = mem.user /\ mem'.at = mem.at
      BY <1>0, <1>4 DEF CopySourceSecret, Memories
  <2>2. pc = "copy" /\ pc' = "status" /\ read' = read
      BY <1>4 DEF CopySourceSecret
  <2> QED
      BY <2>1, <2>2
<1>5. CASE PeriodPasses
  <2>1. /\ read' = Aged(read) /\ mem' = Aged(mem) /\ UNCHANGED <<pc, users>>
      BY <1>5 DEF PeriodPasses
  <2>2. /\ mem'.user = mem.user /\ mem'.host = mem.host
        /\ mem'.at = IF mem.at = "recent" THEN "old" ELSE mem.at
      BY <1>0, <2>1, AgedMemory
  <2>3. /\ read'.user = read.user /\ read'.at # "recent"
        /\ read'.at = IF read.at = "recent" THEN "old" ELSE read.at
      BY <1>0, <2>1, AgedClaim DEF Aged, Claims
  <2> QED
      BY <2>1, <2>2, <2>3 DEF RotationDue
<1>6. CASE pc' = "idle"
    BY <1>6
<1>7. CASE CreateSchemasAndRoles \/ UpdatePassword \/ RevokeAccessToRole \/ AssignRoleToUser
    BY <1>7 DEF CreateSchemasAndRoles, UpdatePassword, RevokeAccessToRole, AssignRoleToUser
<1>8. CASE DropUserA \/ DropUserB \/ DropFails
    BY <1>8 DEF DropUserA, DropUserB, DropUser, DropFails
<1>9. ASSUME UNCHANGED <<runVars, users>> PROVE MemInv'
    BY <1>9
<1> HIDE DEF MemInv
<1>10. CASE UpdateStatus \/ CopyFails \/ RemoveFinalizer \/ CallFails \/ Restart
    BY <1>6, <1>10 DEF UpdateStatus, CopyFails, RemoveFinalizer, CallFails, Restart, Done
<1>11. CASE InformerSync \/ SecretSync \/ Enqueue \/ (\E w \in Maps : EditClaim(w)) \/ DeleteClaim
    BY <1>9, <1>11 DEF InformerSync, SecretSync, Enqueue, EditClaim, DeleteClaim
<1>12. CASE SourceSecretChanges \/ SourceMigrates \/ SourceDeleted \/ UNCHANGED vars
    BY <1>9, <1>12 DEF SourceSecretChanges, SourceMigrates, SourceDeleted, vars
<1> QED
    BY <1>1, <1>2, <1>3, <1>4, <1>5, <1>7, <1>8, <1>10, <1>11, <1>12 DEF Next, ReconcileSteps

(* Only a deletion drops users.                                            *)
LEMMA UserInvKept ==
    ASSUME ClaimType, ClaimType', StateInv, MemInv, UserInv, [Next]_vars
    PROVE  UserInv'
<1> USE DEF UserInv, HasUser, sourceVars, storeVars, secretVars, dbVars, runVars,
            boundVars, At, Doing
<1>1. ASSUME UNCHANGED roleSecret, users \subseteq users', obj'.state = "live" => obj.state = "live"
      PROVE  UserInv'
    BY <1>1
<1>2. CASE WriteUserSecret
    BY <1>2 DEF WriteUserSecret, MemInv, Changing, Account
<1>3. CASE CopySourceSecret
    BY <1>3 DEF CopySourceSecret, CopyOf, NoUser, Users
<1>4. CASE DropUserA \/ DropUserB
  <2>1. pc \in Dropping /\ UNCHANGED obj
      BY <1>4 DEF DropUserA, DropUserB, DropUser, Dropping
  <2>2. cache.state \in {"live", "deleting", "gone"}
      BY DEF ClaimType, Claims
  <2>3. obj'.state # "live"
      BY <2>1, <2>2 DEF StateInv
  <2> QED
      BY <2>3
<1> HIDE DEF UserInv
<1>5. CASE UpdateStatus \/ CopyFails
  <2>1. obj' \in {obj, Stored} /\ UNCHANGED <<roleSecret, users>>
      BY <1>5 DEF UpdateStatus, CopyFails
  <2> QED
      BY <1>1, <2>1, StoredMade
<1>6. CASE RemoveFinalizer
  <2>1. obj' \in {obj, [obj EXCEPT !.state = "gone"]} /\ UNCHANGED <<roleSecret, users>>
      BY <1>6 DEF RemoveFinalizer
  <2>2. [obj EXCEPT !.state = "gone"].state = "gone"
      BY DEF ClaimType, Claims
  <2> QED
      BY <1>1, <2>1, <2>2
<1>7. CASE PeriodPasses
    BY <1>1, <1>7, ClaimMade DEF PeriodPasses, ClaimType
<1>8. CASE (\E w \in Maps : EditClaim(w)) \/ DeleteClaim
  <2>1. obj.state = "live" /\ UNCHANGED <<roleSecret, users>>
      BY <1>8 DEF EditClaim, DeleteClaim
  <2> QED
      BY <1>1, <2>1
<1>9. CASE CreateUser
    BY <1>1, <1>9 DEF CreateUser
<1>10. ASSUME UNCHANGED <<roleSecret, users, obj>> PROVE UserInv'
    BY <1>1, <1>10
<1>11. CASE Reconcile \/ CreateSchemasAndRoles \/ UpdatePassword \/ RevokeAccessToRole
    BY <1>10, <1>11 DEF Reconcile, CreateSchemasAndRoles, UpdatePassword, RevokeAccessToRole
<1>12. CASE AssignRoleToUser \/ DropFails \/ CallFails \/ Restart \/ InformerSync \/ SecretSync
    BY <1>10, <1>12 DEF AssignRoleToUser, DropFails, CallFails, Restart, InformerSync, SecretSync
<1>13. CASE Enqueue \/ SourceSecretChanges \/ SourceMigrates \/ SourceDeleted \/ UNCHANGED vars
    BY <1>10, <1>13 DEF Enqueue, SourceSecretChanges, SourceMigrates, SourceDeleted, vars
<1> QED
    BY <1>2, <1>3, <1>4, <1>5, <1>6, <1>7, <1>8, <1>9, <1>11, <1>12, <1>13
    DEF Next, ReconcileSteps

(* A password that was changed is stored, or its rotation is repeated.     *)
LEMMA LogInvKept ==
    ASSUME ClaimType, ClaimType', StateInv, CopyInv, CopyInv', MemInv, LogInv, [Next]_vars
    PROVE  LogInv'
<1> USE DEF HasUser, sourceVars, storeVars, secretVars, dbVars, runVars, boundVars, At, Doing
<1> DEFINE Bad == HasUser /\ ~secretOk /\ ~broken
<1>0. obj \in Claims /\ cache \in Claims /\ read \in Claims /\ obj' \in Claims
    BY DEF ClaimType
<1>1. ASSUME ~Bad' \/ pc' \in Changing PROVE LogInv'
    BY <1>1 DEF LogInv
<1>2. ASSUME UNCHANGED <<obj, cache, read, mem>>, Bad' => Bad, queued => queued',
             pc' = pc \/ pc' \notin {"idle", "status"}, pc' \in Changing \/ pc \notin Changing
      PROVE  LogInv'
    BY <1>2 DEF LogInv
<1>3. CASE Reconcile
  <2>1. UNCHANGED <<obj, cache, secretVars, broken>> /\ pc = "idle"
      BY <1>3 DEF Reconcile
  <2>2. CASE cache.state = "gone"
    <3>1. obj.state = "gone" /\ pc' = "idle"
        BY <1>3, <2>1, <2>2 DEF Reconcile, StateInv
    <3> QED
        BY <2>1, <3>1 DEF LogInv, Changing
  <2>3. CASE cache.state # "gone"
    <3>1. pc' = FirstStep /\ read' = cache /\ mem'.at = cache.at
        BY <1>3, <2>3 DEF Reconcile
    <3>2. /\ FirstStep # "idle" /\ FirstStep \notin Changing
          /\ FirstStep = "status" => cache.wanted = {} \/ ~RotationDue(cache)
        BY DEF FirstStep, StepForMap, Changing
    <3>3. RotationDue(obj) => RotationDue(cache)
        BY DEF RotationDue, CopyInv
    <3> QED
        BY <2>1, <3>1, <3>2, <3>3 DEF LogInv, Changing
  <2> QED
      BY <2>2, <2>3
<1>4. CASE CreateUser
  <2>1. /\ UNCHANGED <<obj, cache, read, secretVars, broken>>
        /\ pc = "user" /\ pc' \in {"password", "revoke"}
      BY <1>4 DEF CreateUser
  <2> QED
      BY <2>1 DEF LogInv, Changing
<1>5. CASE UpdatePassword
    BY <1>1, <1>5 DEF UpdatePassword, Changing
<1>6. CASE WriteUserSecret \/ CopySourceSecret
    BY <1>1, <1>6 DEF WriteUserSecret, CopySourceSecret, CopyOf, NoUser, Users
<1>7. CASE RevokeAccessToRole \/ AssignRoleToUser
    BY <1>1, <1>7 DEF RevokeAccessToRole, AssignRoleToUser, Changing
<1>8. CASE CreateSchemasAndRoles
    BY <1>2, <1>8 DEF CreateSchemasAndRoles, Changing
<1>9. CASE DropUserA \/ DropUserB \/ DropFails
    BY <1>2, <1>9 DEF DropUserA, DropUserB, DropUser, DropFails, Changing
<1>10. CASE UpdateStatus
  <2>1. /\ pc = "status" /\ pc' = "idle" /\ UNCHANGED <<cache, secretVars, queued, broken>>
        /\ obj' = IF Conflict THEN obj ELSE Stored
      BY <1>10 DEF UpdateStatus, Done
  <2>2. CASE Conflict
      BY <2>1, <2>2 DEF LogInv, CopyInv, Conflict, Changing
  <2>3. CASE ~Conflict
    <3>1. read = obj /\ obj'.wanted = obj.wanted /\ obj'.at = mem.at
        BY <2>1, <2>3, StoredSame DEF Conflict
    <3> QED
        BY <2>1, <3>1 DEF LogInv, RotationDue, Changing
  <2> QED
      BY <2>2, <2>3
<1>11. CASE RemoveFinalizer
  <2>1. /\ pc = "finalize" /\ pc' = "idle" /\ UNCHANGED <<cache, secretVars, broken>>
        /\ obj' = IF Conflict THEN obj ELSE [obj EXCEPT !.state = "gone"]
        /\ queued' = (queued \/ Conflict)
      BY <1>11 DEF RemoveFinalizer, Done
  <2>2. [obj EXCEPT !.state = "gone"].state = "gone" /\ [obj EXCEPT !.state = "gone"].at = obj.at
      BY <1>0 DEF Claims
  <2> QED
      BY <2>1, <2>2 DEF LogInv, RotationDue, Changing
(* When a reconcile fails that has changed the password of the claim's     *)
(* present user, the rotation is still due.                                *)
<1>12. ASSUME Bad', pc # "idle", UNCHANGED secretVars, broken' = CutShort
       PROVE  RotationDue(obj)
  <2>1. CASE pc \notin Changing
      BY <1>12, <2>1 DEF LogInv, CutShort
  <2>2. CASE pc \in Changing
    <3>1. read = obj
        BY <1>12, <2>2 DEF CutShort, Conflict, Changing
    <3> QED
        BY <2>2, <3>1 DEF MemInv, Rotating
  <2> QED
      BY <2>1, <2>2
<1>13. CASE CallFails \/ Restart
  <2>1. /\ pc # "idle" /\ pc' = "idle" /\ queued' = TRUE /\ broken' = CutShort
        /\ UNCHANGED <<obj, secretVars>>
      BY <1>13 DEF CallFails, Restart, Done
  <2> QED
      BY <1>12, <2>1 DEF LogInv
<1>14. CASE CopyFails
  <2>1. /\ pc \in {"secret", "copy"} /\ pc' = "idle" /\ broken' = CutShort
        /\ UNCHANGED <<cache, secretVars>> /\ obj' = IF Conflict THEN obj ELSE Stored
        /\ queued' = (queued \/ ~Conflict)
      BY <1>14 DEF CopyFails, Done
  <2>2. CASE Conflict
    <3>1. queued \/ cache # obj
        BY <2>1, <2>2 DEF CopyInv, Conflict
    <3> QED
        BY <1>12, <2>1, <2>2, <3>1 DEF LogInv
  <2>3. CASE ~Conflict
    <3>1. obj'.at = mem.at /\ read = obj /\ mem.at = read.at
        BY <2>1, <2>3, StoredSame DEF Conflict, MemInv, Rotating, Changing
    <3> QED
        BY <1>12, <2>1, <2>3, <3>1 DEF LogInv, RotationDue
  <2> QED
      BY <2>2, <2>3
<1>15. CASE InformerSync
  <2>1. UNCHANGED <<obj, pc, read, mem, secretVars, broken>> /\ queued'
      BY <1>15 DEF InformerSync
  <2> QED
      BY <2>1 DEF LogInv
<1>16. CASE PeriodPasses
  <2>1. obj.at = "recent" /\ UNCHANGED <<secretVars, broken, pc>>
      BY <1>16 DEF PeriodPasses
  <2> QED
      BY <1>1, <2>1 DEF LogInv, RotationDue
<1>17. ASSUME UNCHANGED <<cache, pc, read, mem, secretVars, broken>>, obj'.at = obj.at,
              obj' # cache
       PROVE  LogInv'
    BY <1>17 DEF LogInv, RotationDue
<1>18. ASSUME NEW w \in Maps, EditClaim(w) PROVE LogInv'
  <2>1. /\ obj'.gen = obj.gen + 1 /\ obj'.at = obj.at
        /\ UNCHANGED <<cache, pc, read, mem, secretVars, broken>>
      BY <1>0, <1>18 DEF EditClaim, Claims
  <2>2. obj' # cache
      BY <1>0, <2>1 DEF CopyInv, Claims
  <2> QED
      BY <1>17, <2>1, <2>2
<1>19. CASE DeleteClaim
  <2>1. /\ obj'.state = "deleting" /\ obj'.at = obj.at /\ obj.state = "live"
        /\ UNCHANGED <<cache, pc, read, mem, secretVars, broken>>
      BY <1>0, <1>19 DEF DeleteClaim, Claims
  <2> QED
      BY <1>17, <2>1 DEF StateInv
<1>20. CASE SecretSync \/ Enqueue
    BY <1>2, <1>20 DEF SecretSync, Enqueue
<1>21. CASE SourceSecretChanges \/ SourceMigrates \/ SourceDeleted \/ UNCHANGED vars
    BY <1>2, <1>21 DEF SourceSecretChanges, SourceMigrates, SourceDeleted, vars
<1> QED
    BY <1>3, <1>4, <1>5, <1>6, <1>7, <1>8, <1>9, <1>10, <1>11, <1>13, <1>14, <1>15, <1>16,
       <1>18, <1>19, <1>20, <1>21, Zenon
    DEF Next, ReconcileSteps

-----------------------------------------------------------------------------
IInv ==
    /\ ClaimType /\ StateInv /\ DropInv /\ GoneLeavesNoUser
    /\ CopyInv /\ MemInv /\ UserInv /\ LogInv

(* A new role claim has no user and is not being deleted.                  *)
LEMMA InitIInv == Init => IInv
<1> SUFFICES ASSUME Init PROVE IInv
    OBVIOUS
<1>1. PICK w \in FirstMaps : obj = NewClaim(w)
    BY DEF Init
<1>2. obj \in Claims /\ obj.state = "live"
    BY <1>1, RoleBoundsAssumption DEF NewClaim, Claims, Ages, NoUser
<1>3. ClaimType
    BY <1>2, ClaimMade DEF Init, ClaimType, Hosts
<1>4. StateInv /\ DropInv /\ GoneLeavesNoUser
    BY <1>2, ClaimMade DEF Init, StateInv, DropInv, GoneLeavesNoUser, Dropping
<1>5. CopyInv /\ MemInv
    BY <1>2 DEF Init, CopyInv, Same, MemInv, Rotating, Changing, Claims
<1>6. ~HasUser
    BY DEF Init, HasUser, NoSecret, Users
<1> QED
    BY <1>3, <1>4, <1>5, <1>6 DEF IInv, UserInv, LogInv

(* What a claim that is gone has left behind does not come back: its last  *)
(* reconciles only drop users, and the source's next host has none.        *)
LEMMA GoneKept == ASSUME IInv, ClaimType', [Next]_vars PROVE GoneLeavesNoUser'
<1> USE DEF IInv, ClaimType, GoneLeavesNoUser, sourceVars, storeVars, secretVars, dbVars,
            runVars, boundVars, At, Doing
<1>1. CASE RemoveFinalizer
    BY <1>1 DEF RemoveFinalizer, DropInv
<1>2. CASE UpdateStatus \/ CopyFails
    BY <1>2, StoredMade DEF UpdateStatus, CopyFails
<1>3. CASE CreateUser
    BY <1>3 DEF CreateUser, StateInv, Dropping
<1>4. CASE DropUserA \/ DropUserB \/ DropFails
    BY <1>4 DEF DropUserA, DropUserB, DropUser, DropFails
<1>5. CASE SourceMigrates
    BY <1>5 DEF SourceMigrates, DropInv
<1>6. CASE PeriodPasses
    BY <1>6, ClaimMade DEF PeriodPasses
<1>7. CASE (\E w \in Maps : EditClaim(w)) \/ DeleteClaim
  <2>1. obj'.state # "gone"
      BY <1>7, Zenon DEF EditClaim, DeleteClaim, Claims
  <2> QED
      BY <2>1
<1>8. CASE Reconcile \/ CreateSchemasAndRoles \/ UpdatePassword \/ RevokeAccessToRole
    BY <1>8 DEF Reconcile, CreateSchemasAndRoles, UpdatePassword, RevokeAccessToRole
<1>9. CASE AssignRoleToUser \/ WriteUserSecret \/ CopySourceSecret \/ CallFails \/ Restart
    BY <1>9 DEF AssignRoleToUser, WriteUserSecret, CopySourceSecret, CallFails, Restart
<1>10. CASE InformerSync \/ SecretSync \/ Enqueue \/ SourceDeleted \/ SourceSecretChanges
    BY <1>10 DEF InformerSync, SecretSync, Enqueue, SourceDeleted, SourceSecretChanges
<1>11. CASE UNCHANGED vars
    BY <1>11 DEF vars
<1> QED
    BY <1>1, <1>2, <1>3, <1>4, <1>5, <1>6, <1>7, <1>8, <1>9, <1>10, <1>11
    DEF Next, ReconcileSteps

(* Every step preserves the invariant.                                     *)
LEMMA Inductive == Spec => []IInv
<1>1. IInv /\ [Next]_vars => IInv'
  <2> SUFFICES ASSUME IInv, [Next]_vars PROVE IInv'
      OBVIOUS
  <2>1. ClaimType' /\ StateInv' /\ DropInv' /\ GoneLeavesNoUser'
      BY ClaimTypeKept, StateInvKept, DropInvKept, GoneKept DEF IInv
  <2>2. CopyInv' /\ MemInv' /\ UserInv'
      BY <2>1, CopyInvKept, MemInvKept, UserInvKept DEF IInv
  <2>3. LogInv'
      BY <2>1, <2>2, LogInvKept DEF IInv
  <2> QED
      BY <2>1, <2>2, <2>3 DEF IInv
<1> QED
    BY <1>1, InitIInv, PTL DEF Spec

(* For all schema maps, faults, edits, stale caches and a migration of the *)
(* source: a role claim that is gone has left no user on the host that its *)
(* source asks for, unless one could not be dropped (deleteExternalResources *)
(* in roleclaim.go).                                                       *)
THEOREM NoUserIsLeft == Spec => []GoneLeavesNoUser
<1>1. IInv => GoneLeavesNoUser
    BY DEF IInv
<1> QED
    BY <1>1, Inductive, PTL

(* For all schema maps, faults, edits, conflicts and stale caches: when    *)
(* the controller is at rest, the user of the secret it handed out for a   *)
(* schema map exists and has the secret's password, unless a reconcile of  *)
(* an outdated claim was cut short after it changed the password, or the   *)
(* source was migrating (Reconcile and copySourceSecret in roleclaim.go).  *)
THEOREM UserOfSecretCanLogIn == Spec => []UserCanLogIn
<1>1. IInv => UserCanLogIn
  <2> SUFFICES ASSUME IInv, Settled, obj.state = "live", obj.wanted # {}, HasUser, ~broken,
                      ~Crossed
               PROVE  secretOk /\ <<roleSecret.host, roleSecret.user>> \in users
      BY DEF UserCanLogIn
  <2>1. secretOk
      BY DEF IInv, LogInv, Settled, Changing
  <2>2. <<roleSecret.host, roleSecret.user>> \in users
      BY DEF IInv, UserInv, Crossed
  <2> QED
      BY <2>1, <2>2
<1> QED
    BY <1>1, Inductive, PTL
==============================================================================
