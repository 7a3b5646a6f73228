--------------------------- MODULE CloudHostProofs ---------------------------
(***************************************************************************)
(* A host in use is whole, an old one is tagged before it is deleted, and  *)
(* a forgotten one is released, for any numbers of failing calls, restarts *)
(* and returns to the host, with one instance or two.                      *)
(***************************************************************************)
EXTENDS CloudHost, TLAPS

States == {"absent", "creating", "ready", "deleting"}

HostType ==
    /\ provider \in Providers /\ todo \in Seq(Resources)
    /\ res \in [Resources -> States]
    /\ tag \in [Instances -> {"none", "active", "inactive"}]
    /\ atProvider \in [Instances -> {"none", "active", "inactive"}]

(* In s no member of B comes before one of A.                              *)
Before(A, B, s) == \A i, j \in 1..Len(s) : i < j /\ s[j] \in A => s[i] \notin B

(* Which routine runs for which claim, and what it visits in which order.  *)
RunInv ==
    /\ act \in {"idle", "manage", "tag", "retire", "delete"}
    /\ act = "manage" => use = "active"
    /\ act \in {"tag", "retire"} => use = "old"
    /\ act = "delete" => claim # "live" /\ (todo # <<>> => use = "active")
    /\ use # "active" => ~handedOver
    /\ act = "manage" \/ (act = "tag" /\ provider # "alloydb") =>
          Range(todo) \subseteq Managed(provider)
    /\ act = "manage" => Before({"cluster"}, Instances, todo)
    /\ act \in {"retire", "delete"} =>
          Before(Instances, {"cluster"}, todo) /\ Range(todo) \subseteq CloudResources

NeedsOfInstance == Managed(provider) \cap {"cluster", "paramGroup", "masterSecret"}
NeedsOfCluster == Managed(provider) \cap {"clusterParamGroup", "masterSecret"}
AllProvisioned(S) == \A n \in S : Provisioned(n)

Down(r) == res[r] \in {"absent", "deleting"}

(* The resources of a host: a provisioned one has what it needs.           *)
ResourceInv ==
    /\ \A r \in Resources \ Managed(provider) : res[r] = "absent"
    /\ \A r \in Resources \ CloudResources : res[r] # "deleting"
    /\ \A i \in Instances : res[i] = "ready" => AllProvisioned(NeedsOfInstance)
    /\ res["cluster"] = "ready" => AllProvisioned(NeedsOfCluster)
    /\ res["cluster"] = "deleting" => \A i \in Instances : Down(i)
    /\ act = "manage" /\ "cluster" \notin Range(todo) => res["cluster"] # "deleting"
    /\ act = "delete" \/ (act = "retire" /\ provider # "alloydb") =>
          "cluster" \notin Range(todo) \/ \A i \in Instances \ Range(todo) : Down(i)

InstancesOf == Instances \cap Managed(provider)

(* What managing a host has made sure of, and a claim that uses it keeps.  *)
InUse(r) ==
    /\ r \in Instances => res[r] = "ready" /\ tag[r] # "inactive"
    /\ r \notin CloudResources /\ r # "masterSecret" => res[r] # "absent"

UseInv ==
    /\ provider = "alloydb" => \A i \in Instances : tag[i] # "inactive"
    /\ act = "manage" /\ good => \A r \in Managed(provider) \ Range(todo) : InUse(r)
    /\ handedOver /\ claim = "live" => \A r \in Managed(provider) : InUse(r)

Tagged(i) == tag[i] = "inactive" /\ atProvider[i] = "inactive"
AllTagged == \A i \in Instances : res[i] = "ready" => Tagged(i)

(* A host the claim has left is complete, or the tags of what is left of   *)
(* it are in force.                                                        *)
OldInv ==
    /\ use = "old" => \A i \in Instances : res[i] # "creating"
    /\ use = "old" /\ provider # "alloydb" /\ ~waitOver /\ ~failed =>
          (\A i \in InstancesOf : res[i] = "ready") \/ AllTagged
    /\ act = "tag" /\ good =>
          \A i \in Instances \ Range(todo) : res[i] = "ready" => Tagged(i)
    /\ act = "retire" /\ provider # "alloydb" => waitOver \/ failed \/ AllTagged

(* What retiring a host has deleted stays so until the claim comes back.   *)
ReleaseInv ==
    act = "retire" /\ ~failed /\ provider # "alloydb" =>
        \A r \in CloudResources \ Range(todo) : Down(r)

-----------------------------------------------------------------------------
(* What is left to visit when the head has been visited.                   *)
LEMMA TailOf ==
    ASSUME NEW s \in Seq(Resources), s # <<>>
    PROVE  /\ Tail(s) \in Seq(Resources)
           /\ Head(s) \in Range(s) /\ Range(s) = {Head(s)} \cup Range(Tail(s))
<1>1. Len(s) \in Nat /\ Len(s) # 0 /\ Head(s) = s[1] /\ Tail(s) \in Seq(Resources)
    OBVIOUS
<1>2. Len(Tail(s)) = Len(s) - 1 /\ \A i \in 1..Len(s) - 1 : Tail(s)[i] = s[i + 1]
    BY <1>1
<1>3. Range(Tail(s)) \subseteq Range(s)
    BY <1>1, <1>2 DEF Range
<1>4. ASSUME NEW x \in Range(s), x # Head(s) PROVE x \in Range(Tail(s))
  <2>1. PICK j \in 1..Len(s) : x = s[j]
      BY <1>4 DEF Range
  <2>2. j - 1 \in 1..Len(s) - 1 /\ Tail(s)[j - 1] = s[j]
      BY <1>1, <1>2, <1>4, <2>1
  <2> QED
      BY <1>2, <2>1, <2>2, Zenon DEF Range
<1> QED
    BY <1>1, <1>3, <1>4 DEF Range

(* The order of a plan is that of what is left of it; its head comes after *)
(* nothing.                                                                *)
LEMMA OrderOfTail ==
    ASSUME NEW s \in Seq(Resources), s # <<>>, NEW A, NEW B, Before(A, B, s)
    PROVE  /\ Before(A, B, Tail(s))
           /\ Head(s) \in B \ A => Range(s) \cap A = {}
<1>1. Len(s) \in Nat /\ Len(s) # 0 /\ Head(s) = s[1]
    OBVIOUS
<1>2. Len(Tail(s)) = Len(s) - 1 /\ \A i \in 1..Len(s) - 1 : Tail(s)[i] = s[i + 1]
    BY <1>1
<1>3. Before(A, B, Tail(s))
    BY <1>1, <1>2 DEF Before
<1>4. ASSUME Head(s) \in B \ A, NEW x \in Range(s), x \in A PROVE FALSE
  <2>1. PICK j \in 1..Len(s) : x = s[j]
      BY DEF Range
  <2>2. 1 \in 1..Len(s) /\ 1 < j
      BY <1>1, <1>4, <2>1
  <2> QED
      BY <1>1, <1>4, <2>1, <2>2 DEF Before
<1> QED
    BY <1>3, <1>4

(* A plan with nothing left is in any order.                               *)
LEMMA NothingLeft ==
    /\ <<>> \in Seq(Resources) /\ Range(<<>>) = {}
    /\ \A A, B : Before(A, B, <<>>)
BY DEF Range, Before

-----------------------------------------------------------------------------
Secondaries == IF MultiAZ THEN {"secondary"} ELSE {}

(* The resources of each plan.                                             *)
LEMMA RangesOfPlans ==
    /\ Managed("aurora") = {"clusterParamGroup", "masterSecret", "cluster", "paramGroup",
                            "instance"} \cup Secondaries
    /\ Managed("postgres") = {"paramGroup", "masterSecret", "instance"}
    /\ Managed("alloydb") = {"masterSecret", "cluster", "instance", "networkRecord",
                             "connSecret"}
    /\ Range(TagPlan("aurora")) = {"clusterParamGroup", "cluster", "paramGroup",
                                   "instance"} \cup Secondaries
    /\ \A p \in {"postgres", "alloydb"} : Range(TagPlan(p)) = {"paramGroup", "instance"}
    /\ Range(DatabasePlan) = {"instance", "cluster"} \cup Secondaries
    /\ Range(DatabasePlan \o ParamGroupPlan) =
          ParamGroups \cup {"instance", "cluster"} \cup Secondaries
    /\ Range(RetirePlan) = ParamGroups \cup {"instance", "cluster"} \cup Secondaries
<1> USE CloudBoundsAssumption DEF IfMultiAZ, Secondaries, Range, ParamGroups
<1>1. Managed("aurora") = {"clusterParamGroup", "masterSecret", "cluster", "paramGroup",
                           "instance"} \cup Secondaries
  <2>1. ManagePlan("aurora") = <<"clusterParamGroup", "masterSecret", "cluster",
                                 "paramGroup", "instance">> \o IfMultiAZ(<<"secondary">>)
      BY DEF ManagePlan
  <2>2. CASE MultiAZ
      BY <2>1, <2>2, SMTT(30) DEF Managed
  <2>3. CASE ~MultiAZ
      BY <2>1, <2>3 DEF Managed
  <2> QED
      BY <2>2, <2>3
<1>2. Managed("postgres") = {"paramGroup", "masterSecret", "instance"}
    BY DEF Managed, ManagePlan
<1>3. Managed("alloydb") = {"masterSecret", "cluster", "instance", "networkRecord",
                            "connSecret"}
    BY DEF Managed, ManagePlan
<1>4. Range(TagPlan("aurora")) = {"clusterParamGroup", "cluster", "paramGroup",
                                  "instance"} \cup Secondaries
    BY DEF TagPlan
<1>5. \A p \in {"postgres", "alloydb"} : Range(TagPlan(p)) = {"paramGroup", "instance"}
    BY DEF TagPlan
<1>6. Range(DatabasePlan) = {"instance", "cluster"} \cup Secondaries
    BY DEF DatabasePlan
<1>7. Range(DatabasePlan \o ParamGroupPlan) =
          ParamGroups \cup {"instance", "cluster"} \cup Secondaries
    BY DEF DatabasePlan, ParamGroupPlan
<1>8. Range(RetirePlan) = ParamGroups \cup {"instance", "cluster"} \cup Secondaries
    BY DEF RetirePlan, DatabasePlan, ParamGroupPlan
<1> QED
    BY <1>1, <1>2, <1>3, <1>4, <1>5, <1>6, <1>7, <1>8, Zenon

(* A cluster is managed before its instances and taken down after them.    *)
LEMMA OrdersOfPlans ==
    /\ \A p \in Providers : /\ ManagePlan(p) \in Seq(Resources) /\ TagPlan(p) \in Seq(Resources)
                            /\ Before({"cluster"}, Instances, ManagePlan(p))
    /\ \A s \in {DatabasePlan, DatabasePlan \o ParamGroupPlan, RetirePlan} :
          s \in Seq(Resources) /\ Before(Instances, {"cluster"}, s)
<1> USE CloudBoundsAssumption DEF IfMultiAZ, Resources, CloudResources, ParamGroups, Instances
<1>1. ManagePlan("aurora") = <<"clusterParamGroup", "masterSecret", "cluster",
                               "paramGroup", "instance">> \o IfMultiAZ(<<"secondary">>)
    BY DEF ManagePlan
<1>2. /\ ManagePlan("aurora") \in Seq(Resources)
      /\ Before({"cluster"}, Instances, ManagePlan("aurora"))
    BY <1>1, SMTT(30) DEF Before
<1>3. /\ ManagePlan("postgres") \in Seq(Resources)
      /\ Before({"cluster"}, Instances, ManagePlan("postgres"))
    BY DEF Before, ManagePlan
<1>4. /\ ManagePlan("alloydb") \in Seq(Resources)
      /\ Before({"cluster"}, Instances, ManagePlan("alloydb"))
    BY DEF Before, ManagePlan
<1>5. \A p \in Providers : TagPlan(p) \in Seq(Resources)
  <2>1. <<"clusterParamGroup", "cluster", "paramGroup", "instance">> \in Seq(Resources)
      OBVIOUS
  <2>2. <<"secondary">> \in Seq(Resources) /\ <<>> \in Seq(Resources)
      OBVIOUS
  <2>3. <<"paramGroup", "instance">> \in Seq(Resources)
      OBVIOUS
  <2>4. IfMultiAZ(<<"secondary">>) \in Seq(Resources)
      BY <2>2, Zenon
  <2>5. <<"clusterParamGroup", "cluster", "paramGroup", "instance">>
           \o IfMultiAZ(<<"secondary">>) \in Seq(Resources)
    <3> HIDE DEF IfMultiAZ, Resources
    <3> QED
        BY <2>1, <2>4
  <2> QED
      BY <2>3, <2>5, Zenon DEF TagPlan
<1>6. DatabasePlan \in Seq(Resources) /\ Before(Instances, {"cluster"}, DatabasePlan)
  <2>1. DatabasePlan \in Seq(Resources)
    <3>1. <<"secondary">> \in Seq(Resources) /\ <<>> \in Seq(Resources)
        OBVIOUS
    <3>2. <<"instance", "cluster">> \in Seq(Resources)
        OBVIOUS
    <3>3. IfMultiAZ(<<"secondary">>) \in Seq(Resources)
        BY <3>1, Zenon
    <3> HIDE DEF IfMultiAZ, Resources
    <3> QED
        BY <3>2, <3>3 DEF DatabasePlan
  <2>2. Before(Instances, {"cluster"}, DatabasePlan)
      BY DEF DatabasePlan, Before
  <2> QED
      BY <2>1, <2>2
<1>7. /\ DatabasePlan \o ParamGroupPlan \in Seq(Resources)
      /\ Before(Instances, {"cluster"}, DatabasePlan \o ParamGroupPlan)
  <2>1. CASE MultiAZ
      BY <2>1 DEF DatabasePlan, ParamGroupPlan, Before
  <2>2. CASE ~MultiAZ
      BY <2>2 DEF DatabasePlan, ParamGroupPlan, Before
  <2> QED
      BY <2>1, <2>2
<1>8. RetirePlan \in Seq(Resources) /\ Before(Instances, {"cluster"}, RetirePlan)
  <2>1. CASE MultiAZ
      BY <2>1 DEF RetirePlan, DatabasePlan, ParamGroupPlan, Before
  <2>2. CASE ~MultiAZ
      BY <2>2 DEF RetirePlan, DatabasePlan, ParamGroupPlan, Before
  <2> QED
      BY <2>1, <2>2
<1> QED
    BY <1>2, <1>3, <1>4, <1>5, <1>6, <1>7, <1>8 DEF Providers

(* What the proofs below need of the plans.                                *)
LEMMA PlansCover ==
    ASSUME NEW p \in Providers
    PROVE  /\ Managed(p) \subseteq Resources
           /\ p # "alloydb" => Range(TagPlan(p)) \subseteq Managed(p)
           /\ Instances \cap Managed(p) \subseteq Range(TagPlan(p))
           /\ Instances \cap Managed(p) \subseteq Range(DatabasePlan)
           /\ Instances \cap Managed(p) \subseteq Range(DeletePlan(p))
           /\ Instances \cap Managed(p) \subseteq Range(RetirePlan)
           /\ CloudResources \cap Managed(p) \subseteq Range(RetirePlan)
           /\ Range(RetirePlan) \subseteq CloudResources
           /\ Range(DeletePlan(p)) \subseteq CloudResources
           /\ Range(DatabasePlan) \subseteq CloudResources
BY RangesOfPlans DEF Providers, Resources, CloudResources, ParamGroups, Instances, Secondaries,
   DeletePlan

(* What instances and clusters refer to.                                   *)
LEMMA NeedsAre ==
    /\ \A i \in Instances : Needs(i) = NeedsOfInstance
    /\ Needs("cluster") = NeedsOfCluster
BY DEF Needs, Instances, NeedsOfInstance, NeedsOfCluster

-----------------------------------------------------------------------------
(* A visit is to a resource the plan still has.                            *)
LEMMA VisitMade ==
    ASSUME HostType, NEW routine, NEW r, Visit(routine, r)
    PROVE  r \in Resources /\ r \in Range(todo)
BY TailOf DEF HostType, Visit

(* Going on after an instance that was not created only shortens the plan  *)
(* of a host that is not handed over by this reconcile.                    *)
LEMMA IgnoredMade ==
    ASSUME HostType, NEW r, CreateIgnored(r)
    PROVE  /\ act = "manage" /\ act' = act /\ good' = FALSE
           /\ r = Head(todo) /\ todo' = Tail(todo) /\ todo' \in Seq(Resources)
           /\ Range(todo) = {r} \cup Range(todo')
           /\ UNCHANGED <<provider, claim, use, res, tag, atProvider, handedOver, waitOver, failed>>
BY TailOf DEF HostType, CreateIgnored, GoOn, claimVars, cloudVars, oldVars

(* The types are kept.                                                     *)
LEMMA HostTypeKept == ASSUME HostType, [Next]_vars PROVE HostType'
<1> USE DEF HostType, States, claimVars, cloudVars, runVars, oldVars, boundVars, Visit, GoOn,
            Stop
<1>1. CASE StartManage \/ StartTag \/ StartDelete
    BY <1>1, OrdersOfPlans, NothingLeft, Zenon
    DEF StartManage, StartTag, StartDelete, Begin, DeletePlan
<1>2. ASSUME NEW r, CreateParamGroup(r) PROVE HostType'
    BY <1>2, TailOf DEF CreateParamGroup, Created
<1>3. CASE ManageMasterPassword
    BY <1>3, TailOf DEF ManageMasterPassword
<1>4. CASE CreateCluster
    BY <1>4, TailOf DEF CreateCluster, Created
<1>5. ASSUME NEW r \in Instances, CreateInstance(r), UpdateDBInstance(r) \/ UNCHANGED tag
      PROVE  HostType'
    BY <1>5, TailOf DEF CreateInstance, UpdateDBInstance, Created
<1>6. ASSUME NEW r \in CloudResources, BeingDeleted(r) PROVE HostType'
    BY <1>6, NothingLeft DEF BeingDeleted
<1>7. CASE ManageNetworkRecord
    BY <1>7, TailOf DEF ManageNetworkRecord, Created
<1>8. CASE CreateSecretWithConnInfo
    BY <1>8, TailOf DEF CreateSecretWithConnInfo
<1>9. CASE InstanceNotReady \/ HandOver
    BY <1>9, NothingLeft, Zenon DEF InstanceNotReady, HandOver
<1>10. ASSUME NEW r \in Resources, TagResource(r) \/ TagInstance(r) PROVE HostType'
    BY <1>10, TailOf, Zenon DEF TagResource, TagInstance
<1>11. ASSUME NEW r \in Resources, TagMissing(r) PROVE HostType'
    BY <1>11, OrdersOfPlans DEF TagMissing, Retire
<1>12. CASE TagsDone
    BY <1>12, OrdersOfPlans, NothingLeft, Zenon DEF TagsDone, Retire
<1>13. ASSUME NEW r \in Resources, RetireResource(r) \/ DeleteResource(r) PROVE HostType'
    BY <1>13, TailOf, Zenon DEF RetireResource, DeleteResource, Delete
<1>14. CASE ForgetOldHost \/ RemoveFinalizer \/ Restart
    BY <1>14, NothingLeft, Zenon DEF ForgetOldHost, RemoveFinalizer, Restart
<1>15. CASE CallFails
    BY <1>15, OrdersOfPlans, NothingLeft, Zenon DEF CallFails, Retire
<1>16. CASE LeaveHost \/ ReturnToHost \/ DeleteClaim \/ WaitPasses
    BY <1>16 DEF LeaveHost, ReturnToHost, DeleteClaim, WaitPasses
<1>17. ASSUME NEW r \in Resources, Provision(r) PROVE HostType'
    BY <1>17 DEF Provision
<1>18. ASSUME NEW r \in Resources, Gone(r) PROVE HostType'
    BY <1>18 DEF Gone
<1>19. ASSUME NEW i \in Instances, ApplyTag(i) PROVE HostType'
    BY <1>19 DEF ApplyTag
<1>20. CASE UNCHANGED vars
    BY <1>20 DEF vars
<1>21. ASSUME NEW i \in Instances, CreateIgnored(i) PROVE HostType'
    BY <1>21, IgnoredMade
<1> HIDE DEF HostType, States
<1> QED
    BY <1>1, <1>2, <1>3, <1>4, <1>5, <1>6, <1>7, <1>8, <1>9, <1>10, <1>11, <1>12, <1>13,
       <1>14, <1>15, <1>16, <1>17, <1>18, <1>19, <1>20, <1>21
    DEF Next, Reconcile, ManageSteps, RetireSteps, DeleteSteps, ManageClusterParamGroup,
        ManageAuroraPostgresParamGroup, ManagePostgresParamGroup, ManageDBClusterAWS,
        ManageDBClusterGCP, ManageAuroraDBInstance, ManagePostgresDBInstanceAWS,
        ManagePostgresDBInstanceGCP, Instances

-----------------------------------------------------------------------------
(* A visit leaves the order of the rest as it is.                          *)
LEMMA RunInvGoesOn ==
    ASSUME HostType, RunInv, todo # <<>>, GoOn, UNCHANGED <<claimVars, handedOver>>
    PROVE  RunInv'
<1>1. todo' = Tail(todo) /\ act' = act /\ Range(Tail(todo)) \subseteq Range(todo)
    BY TailOf DEF HostType, GoOn
<1>2. \A A, B : Before(A, B, todo) => Before(A, B, todo')
    BY <1>1, OrderOfTail DEF HostType
<1> QED
    BY <1>1, <1>2 DEF RunInv, claimVars

(* Every routine begins with a plan in its order.                          *)
LEMMA RunInvKept == ASSUME HostType, HostType', RunInv, [Next]_vars PROVE RunInv'
<1> USE DEF RunInv, claimVars, cloudVars, runVars, oldVars, boundVars, Stop
<1>1. CASE StartManage
    BY <1>1, OrdersOfPlans DEF StartManage, Begin, Managed, HostType
<1>2. CASE StartTag
    BY <1>2, PlansCover DEF StartTag, Begin, HostType
<1>3. CASE StartDelete
    BY <1>3, OrdersOfPlans, PlansCover, NothingLeft DEF StartDelete, Begin, DeletePlan, HostType
<1>4. ASSUME NEW r, \/ CreateParamGroup(r) \/ CreateInstance(r) \/ TagResource(r)
                    \/ TagInstance(r) \/ RetireResource(r) \/ DeleteResource(r)
                    \/ CreateIgnored(r)
      PROVE  RunInv'
    BY <1>4, RunInvGoesOn, Zenon DEF CreateParamGroup, CreateInstance, TagResource, TagInstance,
       RetireResource, DeleteResource, CreateIgnored, Visit
<1>5. CASE \/ ManageMasterPassword \/ CreateCluster
            \/ ManageNetworkRecord \/ CreateSecretWithConnInfo
    BY <1>5, RunInvGoesOn, Zenon DEF ManageMasterPassword, CreateCluster, ManageNetworkRecord,
       CreateSecretWithConnInfo, Visit
<1>6. ASSUME NEW r \in CloudResources, BeingDeleted(r) PROVE RunInv'
    BY <1>6 DEF BeingDeleted, Visit
<1>7. CASE InstanceNotReady \/ HandOver
    BY <1>7 DEF InstanceNotReady, HandOver, Visit
<1>8. ASSUME NEW r \in Resources, TagMissing(r) PROVE RunInv'
    BY <1>8, OrdersOfPlans, PlansCover DEF TagMissing, Retire, Visit, HostType
<1>9. CASE TagsDone
    BY <1>9, OrdersOfPlans, PlansCover DEF TagsDone, Retire, HostType
<1>10. CASE ForgetOldHost \/ RemoveFinalizer \/ Restart
    BY <1>10 DEF ForgetOldHost, RemoveFinalizer, Restart
<1>11. CASE CallFails
    BY <1>11, OrdersOfPlans, PlansCover, NothingLeft, Zenon DEF CallFails, Retire, HostType
<1>12. CASE LeaveHost \/ ReturnToHost \/ DeleteClaim \/ WaitPasses
    BY <1>12 DEF LeaveHost, ReturnToHost, DeleteClaim, WaitPasses
<1>13. ASSUME NEW r \in Resources, Provision(r) \/ Gone(r) \/ ApplyTag(r) PROVE RunInv'
    BY <1>13 DEF Provision, Gone, ApplyTag
<1>14. CASE UNCHANGED vars
    BY <1>14 DEF vars
<1> HIDE DEF RunInv
<1> QED
    BY <1>1, <1>2, <1>3, <1>4, <1>5, <1>6, <1>7, <1>8, <1>9, <1>10, <1>11, <1>12, <1>13,
       <1>14
    DEF Next, Reconcile, ManageSteps, RetireSteps, DeleteSteps, ManageClusterParamGroup,
        ManageAuroraPostgresParamGroup, ManagePostgresParamGroup, ManageDBClusterAWS,
        ManageDBClusterGCP, ManageAuroraDBInstance, ManagePostgresDBInstanceAWS,
        ManagePostgresDBInstanceGCP, Instances, Resources, CloudResources

-----------------------------------------------------------------------------
(* What managing a host does to a resource.                                *)
Manages(r) ==
    /\ Visit("manage", r) /\ GoOn
    /\ r \in Instances \cup {"cluster"} => NotBeingDeleted(r)
    /\ \E s \in States : /\ s \in {res[r], "ready"} \/ (res[r] = "absent" /\ s = "creating")
                         /\ s = "ready" => res[r] = "ready" \/ r \notin CloudResources
                         /\ s = "absent" => r \in CloudResources \cup {"masterSecret"}
                         /\ res' = [res EXCEPT ![r] = s]

(* ... and taking it down.                                                 *)
TakesDown(r) ==
    /\ Visit("retire", r) \/ Visit("delete", r)
    /\ GoOn
    /\ IF act = "delete" \/ provider # "alloydb" THEN Delete(r) ELSE UNCHANGED res

(* Every visit is one of these two.                                        *)
LEMMA ManageCases ==
    ASSUME HostType
    PROVE  /\ \A r : CreateParamGroup(r) /\ r \in ParamGroups => Manages(r)
           /\ \A r \in Instances : CreateInstance(r) => Manages(r)
           /\ CreateCluster => Manages("cluster")
           /\ ManageMasterPassword => Manages("masterSecret")
           /\ ManageNetworkRecord => Manages("networkRecord")
           /\ CreateSecretWithConnInfo => Manages("connSecret")
           /\ \A r \in Resources : RetireResource(r) \/ DeleteResource(r) => TakesDown(r)
<1> USE DEF HostType, Manages, States
<1>1. \A r : CreateParamGroup(r) /\ r \in ParamGroups => Manages(r)
    BY Zenon DEF CreateParamGroup, Created, ParamGroups, Instances, CloudResources, Resources
<1>2. \A r \in Instances : CreateInstance(r) => Manages(r)
    BY Zenon DEF CreateInstance, Created, Instances, CloudResources, Resources
<1>3. CreateCluster => Manages("cluster")
    BY Zenon DEF CreateCluster, Created, Instances, CloudResources, Resources
<1>4. ManageMasterPassword => Manages("masterSecret")
    BY Zenon DEF ManageMasterPassword, ParamGroups, Instances, CloudResources, Resources
<1>5. ManageNetworkRecord => Manages("networkRecord")
    BY Zenon DEF ManageNetworkRecord, Created, ParamGroups, Instances, CloudResources, Resources
<1>6. CreateSecretWithConnInfo => Manages("connSecret")
    BY DEF CreateSecretWithConnInfo, ParamGroups, Instances, CloudResources, Resources
<1>7. \A r \in Resources : RetireResource(r) \/ DeleteResource(r) => TakesDown(r)
    BY DEF RetireResource, DeleteResource, TakesDown, Visit, Delete, Exists
<1> QED
    BY <1>1, <1>2, <1>3, <1>4, <1>5, <1>6, <1>7

(* Resources are created from the bottom up and deleted from the top down, *)
(* and the provider keeps what a provisioned resource needs.               *)
LEMMA ResourceInvKept ==
    ASSUME HostType, HostType', RunInv, ResourceInv, [Next]_vars
    PROVE  ResourceInv'
<1> USE DEF ResourceInv, Down, Provisioned, AllProvisioned, NeedsOfInstance, NeedsOfCluster,
            claimVars, cloudVars, runVars, oldVars, boundVars, Stop
<1>0. /\ "cluster" \in Resources /\ "cluster" \notin Instances /\ Instances \subseteq Resources
      /\ Managed(provider) \subseteq Resources /\ provider \in Providers
    BY PlansCover DEF HostType, Resources, CloudResources, Instances
<1>1. ASSUME NEW r, Manages(r) PROVE ResourceInv'
  <2>1. /\ r \in Resources /\ r \in Managed(provider) /\ act = "manage" /\ act' = act
        /\ Range(todo) = {r} \cup Range(todo') /\ provider' = provider
        /\ r \in Instances => "cluster" \notin Range(todo)
      BY <1>0, <1>1, TailOf, OrderOfTail DEF Manages, Visit, GoOn, HostType, RunInv
  <2>2. PICK s \in States : /\ s \in {res[r], "ready"} \/ (res[r] = "absent" /\ s = "creating")
                            /\ s = "ready" => res[r] = "ready" \/ r \notin CloudResources
                            /\ s = "absent" => r \in CloudResources \cup {"masterSecret"}
                            /\ res' = [res EXCEPT ![r] = s]
      BY <1>1, Zenon DEF Manages
  <2>3. \A q \in Resources : /\ Provisioned(q) => Provisioned(q)'
                             /\ q # r => res'[q] = res[q]
                             /\ res'[q] = "deleting" <=> res[q] = "deleting"
                             /\ res'[q] = "ready" /\ q \in CloudResources => res[q] = "ready"
      BY <2>1, <2>2 DEF HostType, States
  <2>4. r \in Instances \cup {"cluster"} => NotBeingDeleted(r)
      BY <1>1 DEF Manages
  <2>5. "cluster" \in CloudResources /\ Instances \subseteq CloudResources
      BY DEF CloudResources
  <2> QED
      BY <1>0, <2>1, <2>3, <2>4, <2>5 DEF NotBeingDeleted
<1>2. ASSUME NEW r, TakesDown(r) PROVE ResourceInv'
  <2>1. /\ r \in CloudResources /\ act \in {"retire", "delete"} /\ act' = act
        /\ Range(todo) = {r} \cup Range(todo') /\ provider' = provider
        /\ r = "cluster" => Range(todo) \cap Instances = {}
    <3>1. /\ act \in {"retire", "delete"} /\ act' = act /\ provider' = provider
          /\ todo # <<>> /\ r = Head(todo) /\ todo' = Tail(todo)
        BY <1>2 DEF TakesDown, Visit, GoOn
    <3>2. Before(Instances, {"cluster"}, todo) /\ Range(todo) \subseteq CloudResources
        BY <3>1 DEF RunInv
    <3> QED
        BY <1>0, <3>1, <3>2, TailOf, OrderOfTail DEF HostType
  <2>2. CASE UNCHANGED res /\ act = "retire" /\ provider = "alloydb"
      BY <1>0, <2>1, <2>2
  <2>3. CASE Delete(r) /\ (act = "delete" \/ provider # "alloydb")
    <3>1. \A q \in Resources : /\ res[q] = "absent" <=> res'[q] = "absent"
                               /\ q # r => res'[q] = res[q]
                               /\ Provisioned(q) => Provisioned(q)'
                               /\ Down(q) => Down(q)'
        BY <2>1, <2>3 DEF Delete, HostType, Resources
    <3>2. Down(r)' /\ r \in Resources
        BY <2>1, <2>3 DEF Delete, HostType, Resources
    <3> QED
        BY <1>0, <2>1, <2>3, <3>1, <3>2
  <2> QED
      BY <1>2, <2>1, <2>2, <2>3 DEF TakesDown
<1>3. ASSUME NEW r \in Resources, Provision(r) PROVE ResourceInv'
    BY <1>0, <1>3, NeedsAre DEF Provision, HostType
<1>4. ASSUME NEW r \in Resources, Gone(r) PROVE ResourceInv'
  <2>1. /\ res' = [res EXCEPT ![r] = "absent"] /\ UNCHANGED <<provider, act, todo>>
        /\ \A i \in Instances : r \in NeedsOfInstance => ~Provisioned(i)
        /\ r \in NeedsOfCluster => ~Provisioned("cluster")
      BY <1>4, NeedsAre DEF Gone, CloudResources
  <2> QED
      BY <1>0, <2>1 DEF HostType
<1>5. CASE StartManage
    BY <1>0, <1>5 DEF StartManage, Begin, Managed
<1>6. CASE StartDelete
    BY <1>0, <1>6, PlansCover, NothingLeft DEF StartDelete, Begin
<1>7. ASSUME UNCHANGED <<res, provider>>, Retire PROVE ResourceInv'
    BY <1>0, <1>7, PlansCover DEF Retire
<1>8. CASE CallFails
    BY <1>0, <1>8, PlansCover, NothingLeft DEF CallFails, Retire
<1>9. ASSUME UNCHANGED <<res, provider>>, act' \in {"idle", "tag"} PROVE ResourceInv'
    BY <1>0, <1>9
<1>10. ASSUME UNCHANGED <<res, provider, act, todo>> PROVE ResourceInv'
    BY <1>0, <1>10
<1>11. ASSUME NEW i \in Instances, CreateIgnored(i) PROVE ResourceInv'
    BY <1>0, <1>11, IgnoredMade DEF Instances
<1> HIDE DEF ResourceInv, Down, Provisioned, AllProvisioned, NeedsOfInstance, NeedsOfCluster
<1> QED
    BY <1>1, <1>2, <1>3, <1>4, <1>5, <1>6, <1>7, <1>8, <1>9, <1>10, <1>11,
       ManageCases, Zenon
    DEF Next, Reconcile, ManageSteps, RetireSteps, DeleteSteps, ManageClusterParamGroup,
        ManageAuroraPostgresParamGroup, ManagePostgresParamGroup, ManageDBClusterAWS,
        ManageDBClusterGCP, ManageAuroraDBInstance, ManagePostgresDBInstanceAWS,
        ManagePostgresDBInstanceGCP, Instances, ParamGroups, StartTag, Begin, BeingDeleted, 
        InstanceNotReady, HandOver, TagResource, TagInstance, TagMissing, TagsDone,
        ForgetOldHost, RemoveFinalizer, Restart, LeaveHost, ReturnToHost, DeleteClaim, WaitPasses,
        ApplyTag, Visit, GoOn, vars

-----------------------------------------------------------------------------
(* Only the reconciles that retire or delete a host undo what managing it  *)
(* has made sure of, and these are not for a claim that uses it.           *)
LEMMA UseInvKept ==
    ASSUME HostType, HostType', RunInv, ResourceInv, UseInv, [Next]_vars
    PROVE  UseInv'
<1> USE DEF UseInv, InUse, claimVars, cloudVars, runVars, oldVars, boundVars, Stop
<1>0. /\ Instances \subseteq CloudResources /\ CloudResources \subseteq Resources
      /\ Managed(provider) \subseteq Resources /\ provider \in Providers
    BY PlansCover DEF HostType, Resources, CloudResources
<1>1. ASSUME NEW r, Manages(r), r \notin Instances, UNCHANGED <<tag, good>> PROVE UseInv'
  <2>1. /\ r \in Resources /\ act = "manage" /\ act' = act
        /\ Range(todo) = {r} \cup Range(todo') /\ UNCHANGED <<provider, handedOver, claim>>
      BY <1>0, <1>1, TailOf DEF Manages, Visit, GoOn, HostType
  <2>2. \A q \in Resources : /\ q # r => res'[q] = res[q]
                             /\ res[q] # "absent" => res'[q] # "absent"
      BY <1>1, <2>1 DEF Manages, HostType
  <2>3. r \notin CloudResources /\ r # "masterSecret" => res'[r] # "absent"
      BY <1>1, <2>1 DEF Manages, HostType
  <2> QED
      BY <1>0, <1>1, <2>1, <2>2, <2>3
<1>2. ASSUME NEW r \in Instances, CreateInstance(r),
             UpdateDBInstance(r) \/ (provider = "alloydb" /\ UNCHANGED tag)
      PROVE  UseInv'
  <2>1. /\ r \in Resources /\ act = "manage" /\ act' = act
        /\ Range(todo) = {r} \cup Range(todo') /\ UNCHANGED <<provider, handedOver, claim>>
      BY <1>0, <1>2, TailOf DEF CreateInstance, Visit, GoOn, HostType
  <2>2. \A q \in Resources : res[q] # "absent" => res'[q] = res[q]
      BY <1>2 DEF CreateInstance, Created, HostType
  <2>3. \A i \in Instances : tag'[i] = "inactive" => tag[i] = "inactive"
      BY <1>2 DEF UpdateDBInstance, HostType
  <2>4. tag'[r] # "inactive" /\ (good' => good /\ res[r] = "ready")
      BY <1>2, Zenon DEF UpdateDBInstance, HostType, CreateInstance, IsResourceReady
  <2> QED
      BY <1>0, <2>1, <2>2, <2>3, <2>4
<1>3. ASSUME NEW r, TakesDown(r), UNCHANGED tag PROVE UseInv'
    BY <1>3 DEF TakesDown, Visit, GoOn, RunInv
<1>4. ASSUME NEW r \in Resources, Provision(r) PROVE UseInv'
    BY <1>0, <1>4 DEF Provision, HostType
<1>5. ASSUME NEW r \in Resources, Gone(r) PROVE UseInv'
    BY <1>0, <1>5 DEF Gone, HostType, ResourceInv
<1>6. CASE StartManage
    BY <1>0, <1>6 DEF StartManage, Begin, Managed
<1>7. CASE HandOver
    BY <1>0, <1>7, NothingLeft, Zenon DEF HandOver
<1>8. ASSUME NEW r, TagInstance(r) PROVE UseInv'
    BY <1>8 DEF TagInstance, Visit, GoOn, RunInv, Exists
<1>9. ASSUME UNCHANGED <<res, tag, provider>>, act' # "manage" \/ UNCHANGED <<act, todo, good>>,
             handedOver' => handedOver, claim' = "live" => claim = "live"
      PROVE  UseInv'
    BY <1>0, <1>9
<1> HIDE DEF UseInv, InUse
<1>10. CASE ManageSteps
    BY <1>1, <1>2, <1>7, <1>9, <1>10, ManageCases, Zenon
    DEF ManageSteps, ManageClusterParamGroup, ManageAuroraPostgresParamGroup,
        ManagePostgresParamGroup, CreateParamGroup, ManageMasterPassword, ManageDBClusterAWS,
        ManageDBClusterGCP, CreateCluster, ManageAuroraDBInstance, ManagePostgresDBInstanceAWS,
        ManagePostgresDBInstanceGCP, ManageNetworkRecord, CreateSecretWithConnInfo,
        BeingDeleted, InstanceNotReady, Visit, Instances, ParamGroups
<1>11. CASE RetireSteps \/ DeleteSteps
    BY <1>3, <1>8, <1>9, <1>11, ManageCases, Zenon
    DEF RetireSteps, DeleteSteps, TagResource, TagMissing, TagsDone, RetireResource,
        DeleteResource, ForgetOldHost, RemoveFinalizer, Visit, GoOn, Retire
<1>12. CASE StartTag \/ StartDelete
    BY <1>9, <1>12 DEF StartTag, StartDelete, Begin
<1>13. CASE CallFails \/ Restart
    BY <1>9, <1>13 DEF CallFails, Retire, Restart
<1>14. CASE LeaveHost \/ ReturnToHost \/ DeleteClaim \/ WaitPasses
    BY <1>9, <1>14 DEF LeaveHost, ReturnToHost, DeleteClaim, WaitPasses
<1>15. CASE (\E i \in Instances : ApplyTag(i)) \/ UNCHANGED vars
  <2>1. UNCHANGED <<res, tag, provider, act, todo, good, handedOver, claim>>
      BY <1>15 DEF ApplyTag, vars
  <2> QED
      BY <1>9, <2>1
<1>16. ASSUME NEW i \in Instances, CreateIgnored(i) PROVE UseInv'
    BY <1>16, IgnoredMade DEF UseInv, InUse
<1> QED
    BY <1>4, <1>5, <1>6, <1>10, <1>11, <1>12, <1>13, <1>14, <1>15, <1>16, Zenon
    DEF Next, Reconcile

(* An instance that is ready has everything below it.                      *)
LEMMA ReadyStandsOnAll ==
    ASSUME HostType, ResourceInv, res["instance"] = "ready"
    PROVE  \A r \in Managed(provider) :
              r \in (CloudResources \ Instances) \cup {"masterSecret"} => res[r] # "absent"
<1> USE DEF ResourceInv, AllProvisioned, Provisioned, NeedsOfInstance, NeedsOfCluster
<1>1. \A r \in Managed(provider) \cap {"cluster", "paramGroup", "masterSecret"} : res[r] # "absent"
    BY DEF Instances
<1>2. "clusterParamGroup" \in Managed(provider) => "cluster" \in Managed(provider)
    BY RangesOfPlans DEF HostType, Providers, Secondaries
<1>3. "cluster" \in Managed(provider) => res["cluster"] = "ready"
    BY DEF Instances, Down
<1>4. "clusterParamGroup" \in Managed(provider) => res["clusterParamGroup"] # "absent"
    BY <1>2, <1>3
<1> QED
    BY <1>1, <1>4 DEF CloudResources, ParamGroups

-----------------------------------------------------------------------------
(* A host that is left is whole, and becomes less only when its tags are   *)
(* in force: a resource is found missing only after that.                  *)
LEMMA OldInvKept ==
    ASSUME HostType, HostType', RunInv, ResourceInv, UseInv, OldInv, [Next]_vars
    PROVE  OldInv'
<1> USE DEF OldInv, AllTagged, Tagged, InstancesOf, claimVars, cloudVars, runVars, oldVars,
            boundVars, Stop
<1>0. /\ Instances \subseteq Resources /\ provider \in Providers
      /\ Managed(provider) \subseteq Resources
      /\ \A i \in Instances \ Managed(provider) : res[i] = "absent"
    BY PlansCover DEF HostType, Resources, CloudResources, ResourceInv
<1>1. ASSUME act = "manage", act' = "manage", UNCHANGED <<provider, use>> PROVE OldInv'
    BY <1>1 DEF RunInv
<1>2. ASSUME NEW r, TakesDown(r), UNCHANGED <<tag, atProvider, waitOver, failed>> PROVE OldInv'
  <2>1. /\ act \in {"retire", "delete"} /\ act' = act /\ UNCHANGED <<provider, use>>
        /\ r \in Resources /\ (act = "delete" => use = "active")
      BY <1>2, VisitMade DEF TakesDown, Visit, GoOn, RunInv
  <2>2. \A i \in Instances : /\ res'[i] = "ready" => res[i] = "ready"
                             /\ res'[i] = "creating" => res[i] = "creating"
      BY <1>0, <1>2, <2>1 DEF TakesDown, Delete, HostType
  <2>3. AllTagged => AllTagged'
      BY <1>2, <2>2
  <2> HIDE DEF AllTagged, Tagged, InstancesOf
  <2>4. /\ use = "old" => \A i \in Instances : res'[i] # "creating"
        /\ act = "retire" /\ provider # "alloydb" => waitOver \/ failed \/ AllTagged'
        /\ use = "old" => act = "retire"
      BY <2>1, <2>2, <2>3
  <2> QED
      BY <1>2, <2>1, <2>4
<1>3. ASSUME NEW r \in Resources, Provision(r) PROVE OldInv'
  <2>1. /\ \A i \in Instances : i # r => res'[i] = res[i]
        /\ r \in Instances => use # "old" /\ res'[r] = "ready"
        /\ UNCHANGED <<tag, atProvider, provider, use, act, todo, good, waitOver, failed>>
      BY <1>0, <1>3 DEF Provision, HostType
  <2>2. act \in {"tag", "retire"} => use = "old"
      BY DEF RunInv
  <2>3. use = "old" => \A i \in Instances : res'[i] = res[i]
      BY <2>1, Zenon
  <2>4. use = "old" => (AllTagged => AllTagged')
      BY <2>1, <2>3, Zenon
  <2> QED
      BY <2>1, <2>2, <2>3, <2>4
<1>4. ASSUME NEW r \in Resources, Gone(r) PROVE OldInv'
  <2>0. /\ res \in [Resources -> States] /\ res[r] = "deleting"
        /\ res' = [res EXCEPT ![r] = "absent"]
        /\ tag' = [i \in Instances |-> IF i = r THEN "none" ELSE tag[i]]
        /\ atProvider' = [i \in Instances |-> IF i = r THEN "none" ELSE atProvider[i]]
      BY <1>4, Zenon DEF Gone, HostType
  <2>1. \A i \in Instances : i # r => res'[i] = res[i] /\ tag'[i] = tag[i]
                                      /\ atProvider'[i] = atProvider[i]
    <3> HIDE DEF OldInv
    <3> QED
        BY <1>0, <2>0
  <2>2. r \in Instances => res[r] = "deleting" /\ res'[r] = "absent"
    <3> HIDE DEF OldInv
    <3> QED
        BY <1>4, <2>0
  <2>3. UNCHANGED <<provider, use, act, todo, good, waitOver, failed>>
      BY <1>4 DEF Gone
  <2>4. \A i \in Instances : /\ res'[i] = "ready" => res[i] = "ready"
                             /\ res'[i] = "creating" => res[i] = "creating"
                             /\ res'[i] = "ready" /\ Tagged(i) => Tagged(i)'
      BY <2>1, <2>2
  <2>5. /\ AllTagged => AllTagged'
        /\ (\A i \in InstancesOf : res[i] = "ready") => \A i \in InstancesOf' : res'[i] = "ready"
      BY <2>1, <2>2, <2>3, <2>4
  <2> HIDE DEF AllTagged, Tagged, InstancesOf
  <2> QED
      BY <2>3, <2>4, <2>5
<1>5. ASSUME NEW r \in Instances, ApplyTag(r) PROVE OldInv'
    BY <1>0, <1>5 DEF ApplyTag, HostType
<1>6. CASE StartTag
    BY <1>0, <1>6, PlansCover DEF StartTag, Begin
<1>7. ASSUME NEW r, TagInstance(r) PROVE OldInv'
  <2>1. /\ act = "tag" /\ act' = act /\ r \in Instances
        /\ Range(todo) = {r} \cup Range(todo') /\ UNCHANGED <<provider, use>>
      BY <1>7, TailOf DEF TagInstance, Visit, GoOn, HostType
  <2> QED
      BY <1>0, <1>7, <2>1, Zenon DEF TagInstance, HostType
<1>8. ASSUME NEW r, TagResource(r) PROVE OldInv'
  <2>1. /\ act = "tag" /\ act' = act /\ r \notin Instances
        /\ Range(todo) = {r} \cup Range(todo') /\ UNCHANGED <<provider, use>>
      BY <1>8, TailOf DEF TagResource, Visit, GoOn, HostType
  <2> QED
      BY <1>0, <1>8, <2>1 DEF TagResource
<1>9. ASSUME NEW r \in Resources, TagMissing(r) PROVE OldInv'
  <2>1. CASE provider = "alloydb"
      BY <1>9, <2>1 DEF TagMissing, Retire, Visit
  <2>2. CASE provider # "alloydb"
    <3>1. /\ res[r] = "absent" /\ use = "old" /\ r \in Managed(provider)
        BY <1>9, <2>2, VisitMade DEF TagMissing, Exists, Visit, RunInv
    <3>2. r \in Instances \/ r \in (CloudResources \ Instances) \cup {"masterSecret"}
        BY <2>2, <3>1, RangesOfPlans DEF HostType, Providers, CloudResources, Instances,
           ParamGroups, Secondaries
    <3>3. "instance" \in InstancesOf
        BY <1>0, RangesOfPlans DEF Providers, Instances
    <3>4. ~(\A i \in InstancesOf : res[i] = "ready")
        BY <3>1, <3>2, <3>3, ReadyStandsOnAll
    <3> QED
        BY <1>9, <2>2, <3>1, <3>4 DEF TagMissing, Retire, Visit
  <2> QED
      BY <2>1, <2>2
<1>10. CASE TagsDone
    BY <1>0, <1>10, NothingLeft DEF TagsDone, Retire, RunInv
<1>11. CASE LeaveHost
    BY <1>0, <1>11 DEF LeaveHost, UseInv, InUse
<1>12. CASE CallFails
    BY <1>12 DEF CallFails, Retire
<1>13. ASSUME UNCHANGED <<res, tag, atProvider, provider>>, act' \notin {"tag", "retire"},
              use' = "old" => use = "old" /\ UNCHANGED <<waitOver, failed>>
       PROVE  OldInv'
  <2>1. /\ AllTagged => AllTagged'
        /\ (\A i \in InstancesOf : res[i] = "ready") => \A i \in InstancesOf' : res'[i] = "ready"
      BY <1>13
  <2> HIDE DEF AllTagged, Tagged, InstancesOf
  <2> QED
      BY <1>13, <2>1
<1>14. CASE WaitPasses
    BY <1>14 DEF WaitPasses
<1>15. ASSUME UNCHANGED <<res, tag, atProvider, provider, act, todo, good, waitOver, failed>>,
              use' = "old" => use = "old"
       PROVE  OldInv'
    BY <1>15
<1> HIDE DEF OldInv, AllTagged, Tagged, InstancesOf
<1>16. CASE ManageSteps
    BY <1>1, <1>13, <1>16, Zenon
    DEF ManageSteps, ManageClusterParamGroup, ManageAuroraPostgresParamGroup,
        ManagePostgresParamGroup, CreateParamGroup, ManageMasterPassword, ManageDBClusterAWS,
        ManageDBClusterGCP, CreateCluster, ManageAuroraDBInstance, ManagePostgresDBInstanceAWS,
        ManagePostgresDBInstanceGCP, CreateInstance, ManageNetworkRecord,
        CreateSecretWithConnInfo, BeingDeleted, InstanceNotReady, HandOver, Visit, GoOn
<1>17. CASE RetireSteps \/ DeleteSteps
    BY <1>2, <1>7, <1>8, <1>9, <1>10, <1>13, <1>17, ManageCases, Zenon
    DEF RetireSteps, DeleteSteps, RetireResource, DeleteResource, ForgetOldHost, RemoveFinalizer
<1>18. ASSUME NEW i \in Instances, CreateIgnored(i) PROVE OldInv'
    BY <1>13, <1>18, IgnoredMade
<1> QED
    BY <1>3, <1>4, <1>5, <1>6, <1>11, <1>12, <1>13, <1>14, <1>15, <1>16, <1>17, <1>18, Zenon
    DEF Next, Reconcile, StartManage, StartDelete, Begin, Restart, ReturnToHost, DeleteClaim, vars

-----------------------------------------------------------------------------
(* What was taken down stays down while the claim does not use the host.   *)
LEMMA ReleaseInvKept ==
    ASSUME HostType, HostType', RunInv, ResourceInv, ReleaseInv, ForgottenReleased, [Next]_vars
    PROVE  ReleaseInv' /\ ForgottenReleased'
<1> USE DEF ReleaseInv, ForgottenReleased, Down, claimVars, cloudVars, runVars, oldVars,
            boundVars, Stop
<1> DEFINE Goal == ReleaseInv' /\ ForgottenReleased'
<1>0. /\ CloudResources \subseteq Resources /\ provider \in Providers
      /\ \A r \in CloudResources \ Managed(provider) : res[r] = "absent"
    BY DEF HostType, Resources, ResourceInv
<1>1. ASSUME act = "manage", act' = "manage", UNCHANGED <<provider, use>> PROVE Goal
    BY <1>1 DEF RunInv
<1>2. ASSUME NEW r, TakesDown(r), UNCHANGED failed PROVE Goal
  <2>1. /\ act \in {"retire", "delete"} /\ act' = act /\ UNCHANGED <<provider, use>>
        /\ r \in Resources /\ Range(todo) = {r} \cup Range(todo')
      BY <1>2, TailOf DEF TakesDown, Visit, GoOn, HostType
  <2>2. provider # "alloydb" => /\ Down(r)'
                                /\ \A q \in Resources : Down(q) => Down(q)'
      BY <1>2, <2>1 DEF TakesDown, Delete, HostType
  <2> QED
      BY <1>0, <1>2, <2>1, <2>2
<1>3. ASSUME NEW r \in Resources, Provision(r) PROVE Goal
    BY <1>0, <1>3 DEF Provision, HostType
<1>4. ASSUME NEW r \in Resources, Gone(r) PROVE Goal
    BY <1>0, <1>4 DEF Gone, HostType
<1>5. ASSUME UNCHANGED <<res, provider, use, failed>>, Retire PROVE Goal
    BY <1>0, <1>5, PlansCover DEF Retire
<1>6. CASE ForgetOldHost
    BY <1>6, NothingLeft DEF ForgetOldHost
<1>7. CASE CallFails
    BY <1>7 DEF CallFails
<1>8. ASSUME UNCHANGED <<res, provider>>, act' # "retire" \/ UNCHANGED <<act, todo, failed>>,
             use' = "none" => use = "none" /\ UNCHANGED failed
      PROVE  Goal
    BY <1>8
<1> HIDE DEF ReleaseInv, ForgottenReleased, Down
<1>9. CASE ManageSteps
    BY <1>1, <1>8, <1>9, Zenon
    DEF ManageSteps, ManageClusterParamGroup, ManageAuroraPostgresParamGroup,
        ManagePostgresParamGroup, CreateParamGroup, ManageMasterPassword, ManageDBClusterAWS,
        ManageDBClusterGCP, CreateCluster, ManageAuroraDBInstance, ManagePostgresDBInstanceAWS,
        ManagePostgresDBInstanceGCP, CreateInstance, ManageNetworkRecord,
        CreateSecretWithConnInfo, BeingDeleted, InstanceNotReady, HandOver, Visit, GoOn
<1>10. CASE RetireSteps \/ DeleteSteps
    BY <1>2, <1>5, <1>6, <1>8, <1>10, ManageCases, Zenon
    DEF RetireSteps, DeleteSteps, TagResource, TagInstance, TagMissing, TagsDone,
        RetireResource, DeleteResource, RemoveFinalizer, Visit, GoOn
<1>11. ASSUME NEW i \in Instances, CreateIgnored(i) PROVE Goal
    BY <1>1, <1>11, IgnoredMade
<1> QED
    BY <1>3, <1>4, <1>7, <1>8, <1>9, <1>10, <1>11, Zenon
    DEF Next, Reconcile, StartManage, StartTag, StartDelete, Begin, Restart, LeaveHost,
        ReturnToHost, DeleteClaim, WaitPasses, ApplyTag, vars

-----------------------------------------------------------------------------
IInv ==
    /\ HostType /\ RunInv /\ ResourceInv
    /\ UseInv /\ OldInv /\ ReleaseInv /\ ForgottenReleased

(* A host is not there to begin with.                                      *)
LEMMA InitIInv == Init => IInv
<1> SUFFICES ASSUME Init PROVE IInv
    OBVIOUS
<1>1. HostType
    BY NothingLeft DEF Init, HostType, States
<1>2. /\ RunInv /\ \A r \in Resources : res[r] = "absent"
    BY DEF Init, RunInv
<1>3. Instances \subseteq Resources /\ "cluster" \in Resources /\ CloudResources \subseteq Resources
    BY DEF Resources, CloudResources
<1>4. ResourceInv
    BY <1>2, <1>3 DEF Init, ResourceInv
<1>5. UseInv /\ OldInv /\ ReleaseInv /\ ForgottenReleased
    BY DEF Init, UseInv, OldInv, ReleaseInv, ForgottenReleased
<1> QED
    BY <1>1, <1>2, <1>4, <1>5 DEF IInv

(* The invariants together are inductive.                                  *)
LEMMA Inductive == Spec => []IInv
<1>1. IInv /\ [Next]_vars => IInv'
    BY HostTypeKept, RunInvKept, ResourceInvKept, UseInvKept, OldInvKept, ReleaseInvKept DEF IInv
<1> QED
    BY <1>1, InitIInv, PTL DEF Spec

(* For all failing calls, restarts and returns to a host: while the claim  *)
(* uses a host that manageCloudHost has reported as ready, every resource  *)
(* of it exists and its instances are ready and not marked as retired.     *)
THEOREM HostInUseIsWhole == Spec => []WholeHost
<1>1. IInv => WholeHost
  <2> SUFFICES ASSUME IInv, handedOver, claim = "live", NEW r \in Managed(provider)
               PROVE  /\ res[r] # "absent"
                      /\ r \in Instances => res[r] = "ready" /\ tag[r] # "inactive"
      BY DEF WholeHost
  <2>1. \A q \in Managed(provider) : InUse(q)
      BY DEF IInv, UseInv
  <2>2. "instance" \in Managed(provider)
      BY RangesOfPlans DEF IInv, HostType, Providers
  <2>3. res["instance"] = "ready"
      BY <2>1, <2>2 DEF InUse, Instances
  <2> QED
      BY <2>1, <2>3, ReadyStandsOnAll DEF IInv, InUse
<1> QED
    BY <1>1, Inductive, PTL

(* When postMigrationInProgress clears an AWS host from the status, all    *)
(* resources of it are being deleted or gone, unless a call failed.        *)
THEOREM ForgottenHostIsReleased == Spec => []ForgottenReleased
<1>1. IInv => ForgottenReleased
    BY DEF IInv
<1> QED
    BY <1>1, Inductive, PTL

(* The deletion of an old host's instance starts only when its tag is in   *)
(* force, unless ten minutes passed or a call failed; a resource that is   *)
(* missing, which the code takes for a tagging error, is no way around it. *)
THEOREM TagsComeFirst == Spec => TaggedBeforeRetired
<1>1. ASSUME IInv, [Next]_vars, NEW i \in Instances,
             act = "retire", res[i] # "deleting", res'[i] = "deleting"
      PROVE  atProvider[i] = "inactive" \/ waitOver \/ failed
  <2>0. i \in Resources /\ res \in [Resources -> States]
      BY <1>1 DEF IInv, HostType, Resources, CloudResources
  <2>1. PICK r \in Resources : RetireResource(r)
      BY <1>1, <2>0, Zenon
      DEF Next, Reconcile, StartManage, StartTag, StartDelete, Begin, ManageSteps, RetireSteps,
          DeleteSteps, ManageClusterParamGroup, ManageAuroraPostgresParamGroup,
          ManagePostgresParamGroup, CreateParamGroup, ManageMasterPassword, ManageDBClusterAWS,
          ManageDBClusterGCP, CreateCluster, ManageAuroraDBInstance,
          ManagePostgresDBInstanceAWS, ManagePostgresDBInstanceGCP, CreateInstance,
          ManageNetworkRecord, CreateSecretWithConnInfo, BeingDeleted, InstanceNotReady,
          HandOver, Visit, TagResource, TagInstance, TagMissing, TagsDone, ForgetOldHost,
          DeleteResource, RemoveFinalizer, CallFails, CreateIgnored, Restart, LeaveHost,
          ReturnToHost, DeleteClaim, WaitPasses, Provision, Gone, ApplyTag, vars, cloudVars
  <2>2. provider # "alloydb" /\ i = r /\ res[i] # "absent"
      BY <1>1, <2>0, <2>1 DEF RetireResource, Exists, Delete
  <2>3. res[i] = "ready"
      BY <1>1, <2>0, <2>2 DEF IInv, OldInv, RunInv, States
  <2> QED
      BY <1>1, <2>2, <2>3 DEF IInv, OldInv, AllTagged, Tagged
<1>2. IInv /\ [Next]_vars =>
          [\A i \in Instances :
              act = "retire" /\ res[i] # "deleting" /\ res'[i] = "deleting" =>
                  atProvider[i] = "inactive" \/ waitOver \/ failed]_vars
    BY <1>1
<1> QED
    BY <1>2, Inductive, PTL DEF Spec, TaggedBeforeRetired
==============================================================================
