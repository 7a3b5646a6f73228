------------------------------ MODULE CloudHost ------------------------------
(***************************************************************************)
(* One host of a claim as Crossplane resources: reconciles create and      *)
(* update them, tag them when the claim has moved to another host, and     *)
(* delete them, while Crossplane provisions and removes what they stand    *)
(* for.  A claim that has left a host may come back to it.                 *)
(***************************************************************************)
EXTENDS Naturals, Sequences, FiniteSets

CONSTANTS
    MultiAZ,    \* whether Aurora has a second instance
    MaxErrors,  \* bound on calls that fail
    MaxCrashes, \* bound on restarts of the controller
    MaxReturns  \* bound on returns to the host

ASSUME CloudBoundsAssumption ==
    /\ MultiAZ \in BOOLEAN
    /\ MaxErrors \in Nat /\ MaxCrashes \in Nat /\ MaxReturns \in Nat

VARIABLES
    provider,   \* the kind of host: "aurora", "postgres" (AWS), "alloydb" (GCP)
    res,        \* the state of each resource
    tag,        \* the operational status asked for in an instance's spec ...
    atProvider, \* ... and the one in force at the provider
    claim,      \* "live", "deleting", "gone"
    use,        \* what the host is to the claim: "active", "old", "none"
    act,        \* the running reconcile's routine
    todo,       \* the resources it has yet to visit
    good,       \* that so far all are ready (manage) or verified (tag)
    handedOver, \* manageCloudHost has returned that the host is ready
    waitOver,   \* ten minutes have passed since the claim left the host
    failed,     \* a call failed since then
    errors, crashes, returns

claimVars == <<provider, claim, use>>
cloudVars == <<res, tag, atProvider>>
runVars == <<act, todo, good>>
oldVars == <<waitOver, failed>>
boundVars == <<errors, crashes, returns>>
vars == <<claimVars, cloudVars, runVars, handedOver, oldVars, boundVars>>

Providers == {"aurora", "postgres", "alloydb"}
ParamGroups == {"clusterParamGroup", "paramGroup"}
Instances == {"instance", "secondary"}
CloudResources == ParamGroups \cup Instances \cup {"cluster"}
Resources == CloudResources \cup {"masterSecret", "networkRecord", "connSecret"}

IfMultiAZ(s) == IF MultiAZ THEN s ELSE <<>>

(* The resources in the order manageCloudHost visits them.                 *)
ManagePlan(p) ==
    CASE p = "aurora" -> <<"clusterParamGroup", "masterSecret", "cluster",
                           "paramGroup", "instance">> \o IfMultiAZ(<<"secondary">>)
      [] p = "postgres" -> <<"paramGroup", "masterSecret", "instance">>
      [] p = "alloydb" -> <<"masterSecret", "cluster", "instance",
                            "networkRecord", "connSecret">>

TagPlan(p) ==
    IF p = "aurora"
    THEN <<"clusterParamGroup", "cluster", "paramGroup", "instance">>
           \o IfMultiAZ(<<"secondary">>)
    ELSE <<"paramGroup", "instance">>

DatabasePlanPrimaryOnly == <<"instance", "cluster">>

DatabasePlan == IfMultiAZ(<<"secondary">>) \o <<"instance", "cluster">>
ParamGroupPlan == <<"paramGroup", "clusterParamGroup">>

DeletePlanDatabaseOnly(p) == DatabasePlan

(* A claim's deletion has no parameter groups to delete on GCP.            *)
DeletePlan(p) ==
    IF p = "alloydb" THEN DatabasePlan ELSE DatabasePlan \o ParamGroupPlan

Range(s) == {s[i] : i \in 1..Len(s)}
Managed(p) == Range(ManagePlan(p))

Init ==
    /\ provider \in Providers
    /\ res = [r \in Resources |-> "absent"]
    /\ tag = [r \in Instances |-> "none"] /\ atProvider = tag
    /\ claim = "live" /\ use = "active"
    /\ act = "idle" /\ todo = <<>> /\ good = TRUE
    /\ handedOver = FALSE
    /\ waitOver = FALSE /\ failed = FALSE
    /\ errors = 0 /\ crashes = 0 /\ returns = 0

-----------------------------------------------------------------------------
(***************************************************************************)
(* The reconcile's routines, one resource at a time.                       *)
(***************************************************************************)
Begin(routine, plan) ==
    /\ act = "idle"
    /\ act' = routine /\ todo' = plan /\ good' = TRUE
    /\ UNCHANGED <<claimVars, cloudVars, handedOver, oldVars, boundVars>>

StartManageOnce ==
    /\ claim = "live" /\ use = "active" /\ res["instance"] = "absent"
    /\ Begin("manage", ManagePlan(provider))

StartManage == claim = "live" /\ use = "active" /\ Begin("manage", ManagePlan(provider))
StartTag    == claim = "live" /\ use = "old" /\ Begin("tag", TagPlan(provider))

(* The host to delete is looked up by the hash of the claim's present      *)
(* spec: one the claim has left, or is leaving, is not among its resources.*)
StartDelete ==
    /\ claim = "deleting"
    /\ Begin("delete", IF use = "active" THEN DeletePlan(provider) ELSE <<>>)

Visit(routine, r) ==
    /\ act = routine
    /\ todo # <<>> /\ r = Head(todo)
    /\ UNCHANGED <<claimVars, handedOver, boundVars>>

GoOn == act' = act /\ todo' = Tail(todo)
Stop == act' = "idle" /\ todo' = <<>>

NotBeingDeleted(r) == res[r] # "deleting"

Created(r) == [res EXCEPT ![r] = IF @ = "absent" THEN "creating" ELSE @]

(* The deletion of a parameter group in progress is not looked at.         *)
CreateParamGroup(r) ==
    /\ Visit("manage", r)
    /\ res' = Created(r)
    /\ GoOn
    /\ UNCHANGED <<tag, atProvider, good, oldVars>>

ManageClusterParamGroup == CreateParamGroup("clusterParamGroup")
ManageAuroraPostgresParamGroup == provider = "aurora" /\ CreateParamGroup("paramGroup")
ManagePostgresParamGroup == provider = "postgres" /\ CreateParamGroup("paramGroup")

(* The master password is stored before the resource that refers to it is  *)
(* created, and never replaced.                                            *)
ManageMasterPassword ==
    /\ Visit("manage", "masterSecret")
    /\ res' = [res EXCEPT !["masterSecret"] =
                  IF res[todo[2]] = "absent" THEN "ready" ELSE @]
    /\ GoOn
    /\ UNCHANGED <<tag, atProvider, good, oldVars>>

(* Whether the cluster is ready does not matter to the caller.             *)
CreateCluster ==
    /\ Visit("manage", "cluster")
    /\ NotBeingDeleted("cluster")
    /\ res' = Created("cluster")
    /\ GoOn
    /\ UNCHANGED <<tag, atProvider, good, oldVars>>

ManageDBClusterAWS == provider = "aurora" /\ CreateCluster
ManageDBClusterGCP == provider = "alloydb" /\ CreateCluster

IsResourceReady(r) == res[r] = "ready"

CreateInstance(r) ==
    /\ Visit("manage", r)
    /\ NotBeingDeleted(r)
    /\ res' = Created(r)
    /\ good' = (good /\ IsResourceReady(r))
    /\ GoOn
    /\ UNCHANGED <<atProvider, oldVars>>

UpdateDBInstanceKeepTag(r) ==
    tag' = [tag EXCEPT ![r] = IF @ = "none" THEN "active" ELSE @]

(* An update takes back the tag of a host the claim had left.              *)
UpdateDBInstance(r) == tag' = [tag EXCEPT ![r] = "active"]

ManageAuroraDBInstance(r) ==
    /\ provider = "aurora" /\ r \in Instances
    /\ CreateInstance(r) /\ UpdateDBInstance(r)

ManagePostgresDBInstanceAWS ==
    /\ provider = "postgres"
    /\ CreateInstance("instance") /\ UpdateDBInstance("instance")

ManagePostgresDBInstanceGCP ==
    /\ provider = "alloydb"
    /\ CreateInstance("instance") /\ UNCHANGED tag

BeingDeleted(r) ==
    /\ Visit("manage", r)
    /\ r \in Instances \cup {"cluster"} /\ ~NotBeingDeleted(r)
    /\ Stop
    /\ UNCHANGED <<cloudVars, good, oldVars>>

ManageNetworkRecord ==
    /\ Visit("manage", "networkRecord")
    /\ good
    /\ res' = Created("networkRecord")
    /\ GoOn
    /\ UNCHANGED <<tag, atProvider, good, oldVars>>

(* Crossplane writes the cluster's password in the secret, this routine    *)
(* the rest of the connection.                                             *)
CreateSecretWithConnInfo ==
    /\ Visit("manage", "connSecret")
    /\ good
    /\ res' = [res EXCEPT !["connSecret"] = "ready"]
    /\ GoOn
    /\ UNCHANGED <<tag, atProvider, good, oldVars>>

InstanceNotReady ==
    /\ Visit("manage", "networkRecord")
    /\ ~good
    /\ Stop
    /\ UNCHANGED <<cloudVars, good, oldVars>>

HandOver ==
    /\ act = "manage" /\ todo = <<>>
    /\ Stop
    /\ handedOver' = (handedOver \/ good)
    /\ UNCHANGED <<claimVars, cloudVars, good, oldVars, boundVars>>

-----------------------------------------------------------------------------
(***************************************************************************)
(* postMigrationInProgress: the host the claim has left is tagged, then    *)
(* deleted.  Its routines are those of AWS on every cloud.                 *)
(***************************************************************************)
Exists(r) == provider # "alloydb" /\ res[r] # "absent"

RetirePlan == ParamGroupPlan \o DatabasePlan
Retire == act' = "retire" /\ todo' = RetirePlan

(* The tags of other resources than instances are never looked at again.   *)
TagResource(r) ==
    /\ Visit("tag", r)
    /\ r \notin Instances /\ Exists(r)
    /\ GoOn
    /\ UNCHANGED <<cloudVars, good, oldVars>>

TagInstanceUnverified(r) ==
    /\ Visit("tag", r)
    /\ r \in Instances /\ Exists(r)
    /\ tag' = [tag EXCEPT ![r] = "inactive"]
    /\ good' = (good /\ tag[r] = "inactive")
    /\ GoOn
    /\ UNCHANGED <<res, atProvider, oldVars>>

(* The tag of an instance is asked for by one reconcile and verified by a  *)
(* later one.                                                              *)
TagInstance(r) ==
    /\ Visit("tag", r)
    /\ r \in Instances /\ Exists(r)
    /\ tag' = [tag EXCEPT ![r] = "inactive"]
    /\ good' = (good /\ tag[r] = "inactive" /\ atProvider[r] = "inactive")
    /\ GoOn
    /\ UNCHANGED <<res, atProvider, oldVars>>

(* A resource that is not there is a tagging error, and after a tagging    *)
(* error the host is deleted without waiting.                              *)
TagMissing(r) ==
    /\ Visit("tag", r)
    /\ ~Exists(r)
    /\ Retire
    /\ UNCHANGED <<cloudVars, good, oldVars>>

TagsDone ==
    /\ act = "tag" /\ todo = <<>>
    /\ IF good \/ waitOver THEN Retire ELSE Stop
    /\ UNCHANGED <<claimVars, cloudVars, good, handedOver, oldVars, boundVars>>

Delete(r) ==
    res' = [res EXCEPT ![r] = IF @ = "absent" THEN @ ELSE "deleting"]

RetireResource(r) ==
    /\ Visit("retire", r)
    /\ IF Exists(r) THEN Delete(r) ELSE UNCHANGED res
    /\ GoOn
    /\ UNCHANGED <<tag, atProvider, good, oldVars>>

ForgetOldHost ==
    /\ act = "retire" /\ todo = <<>>
    /\ use' = "none"
    /\ Stop
    /\ UNCHANGED <<provider, claim, cloudVars, good, handedOver, oldVars, boundVars>>

-----------------------------------------------------------------------------
(***************************************************************************)
(* deleteExternalResources, for a claim that is deleted.                   *)
(***************************************************************************)
DeleteResource(r) ==
    /\ Visit("delete", r)
    /\ Delete(r)
    /\ GoOn
    /\ UNCHANGED <<tag, atProvider, good, oldVars>>

RemoveFinalizer ==
    /\ act = "delete" /\ todo = <<>>
    /\ claim' = "gone"
    /\ Stop
    /\ UNCHANGED <<provider, use, cloudVars, good, handedOver, oldVars, boundVars>>

-----------------------------------------------------------------------------
(* A call fails.  An error ends a reconcile, except that a tagging error   *)
(* does not keep the old host from being deleted, and that each of the two *)
(* routines that delete it stops at its first error, which is only logged. *)
CallFails ==
    /\ act # "idle" /\ errors < MaxErrors
    /\ errors' = errors + 1
    /\ failed' = TRUE
    /\ \/ act = "tag" /\ Retire
       \/ /\ act = "retire" /\ todo # <<>>
          /\ act' = act
          /\ todo' = IF Head(todo) \in ParamGroups THEN DatabasePlan ELSE <<>>
       \/ /\ \/ act \in {"manage", "delete"}
             \/ act = "retire" /\ todo = <<>>
          /\ Stop
    /\ UNCHANGED <<claimVars, cloudVars, good, handedOver, waitOver, crashes, returns>>

(* The error of creating an Aurora instance is not looked at: the routine  *)
(* goes on with an instance that is not ready.                             *)
CreateIgnored(r) ==
    /\ provider = "aurora" /\ act = "manage"
    /\ todo # <<>> /\ r = Head(todo) /\ res[r] = "absent"
    /\ errors < MaxErrors
    /\ errors' = errors + 1
    /\ good' = FALSE
    /\ GoOn
    /\ UNCHANGED <<claimVars, cloudVars, handedOver, oldVars, crashes, returns>>

Restart ==
    /\ act # "idle" /\ crashes < MaxCrashes
    /\ crashes' = crashes + 1
    /\ Stop
    /\ UNCHANGED <<claimVars, cloudVars, good, handedOver, oldVars, errors, returns>>

-----------------------------------------------------------------------------
(***************************************************************************)
(* The claim: it is migrated from the host and back to it, and deleted.    *)
(***************************************************************************)
LeaveHost ==
    /\ act = "idle" /\ claim = "live" /\ use = "active" /\ handedOver
    /\ use' = "old"
    /\ handedOver' = FALSE
    /\ waitOver' = FALSE /\ failed' = FALSE
    /\ UNCHANGED <<provider, claim, cloudVars, runVars, boundVars>>

ReturnToHost ==
    /\ act = "idle" /\ claim = "live" /\ use = "none"
    /\ returns < MaxReturns
    /\ returns' = returns + 1
    /\ use' = "active"
    /\ UNCHANGED <<provider, claim, cloudVars, runVars, handedOver, oldVars,
                   errors, crashes>>

DeleteClaim ==
    /\ claim = "live"
    /\ claim' = "deleting"
    /\ UNCHANGED <<provider, use, cloudVars, runVars, handedOver, oldVars, boundVars>>

WaitPasses ==
    /\ use = "old" /\ ~waitOver
    /\ waitOver' = TRUE
    /\ UNCHANGED <<claimVars, cloudVars, runVars, handedOver, failed, boundVars>>

-----------------------------------------------------------------------------
(***************************************************************************)
(* Crossplane: a resource is provisioned once what it refers to is there,  *)
(* and goes when nothing that is provisioned refers to it.                 *)
(***************************************************************************)
Needs(r) ==
    CASE r \in Instances ->
             (Managed(provider) \cap {"cluster", "paramGroup", "masterSecret"})
      [] r = "cluster" ->
             (Managed(provider) \cap {"clusterParamGroup", "masterSecret"})
      [] r = "networkRecord" -> {"instance"}
      [] OTHER -> {}

Provisioned(r) == res[r] \in {"ready", "deleting"}

Provision(r) ==
    /\ res[r] = "creating"
    /\ \A n \in Needs(r) : Provisioned(n)
    /\ res' = [res EXCEPT ![r] = "ready"]
    /\ UNCHANGED <<claimVars, tag, atProvider, runVars, handedOver, oldVars, boundVars>>

Gone(r) ==
    /\ res[r] = "deleting"
    /\ \A d \in CloudResources : r \in Needs(d) => ~Provisioned(d)
    /\ res' = [res EXCEPT ![r] = "absent"]
    /\ tag' = [i \in Instances |-> IF i = r THEN "none" ELSE tag[i]]
    /\ atProvider' = [i \in Instances |-> IF i = r THEN "none" ELSE atProvider[i]]
    /\ UNCHANGED <<claimVars, runVars, handedOver, oldVars, boundVars>>

ApplyTag(r) ==
    /\ res[r] = "ready" /\ atProvider[r] # tag[r]
    /\ atProvider' = [atProvider EXCEPT ![r] = tag[r]]
    /\ UNCHANGED <<claimVars, res, tag, runVars, handedOver, oldVars, boundVars>>

-----------------------------------------------------------------------------
ManageSteps ==
    \/ ManageClusterParamGroup
    \/ ManageAuroraPostgresParamGroup \/ ManagePostgresParamGroup
    \/ ManageMasterPassword
    \/ ManageDBClusterAWS \/ ManageDBClusterGCP
    \/ \E r \in Instances : ManageAuroraDBInstance(r)
    \/ ManagePostgresDBInstanceAWS \/ ManagePostgresDBInstanceGCP
    \/ \E r \in CloudResources : BeingDeleted(r)
    \/ ManageNetworkRecord \/ CreateSecretWithConnInfo \/ InstanceNotReady
    \/ HandOver

RetireSteps ==
    \/ \E r \in Resources : TagResource(r) \/ TagInstance(r) \/ TagMissing(r)
    \/ TagsDone
    \/ \E r \in Resources : RetireResource(r)
    \/ ForgetOldHost

DeleteSteps == (\E r \in Resources : DeleteResource(r)) \/ RemoveFinalizer

Reconcile ==
    \/ StartManage \/ StartTag \/ StartDelete
    \/ ManageSteps \/ RetireSteps \/ DeleteSteps

Next ==
    \/ Reconcile
    \/ CallFails \/ (\E i \in Instances : CreateIgnored(i)) \/ Restart
    \/ LeaveHost \/ ReturnToHost \/ DeleteClaim \/ WaitPasses
    \/ \E r \in Resources : Provision(r) \/ Gone(r)
    \/ \E i \in Instances : ApplyTag(i)

Spec == Init /\ [][Next]_vars

(* The work queue runs a claim again while there is work; Crossplane's     *)
(* controllers do the same for each resource.                              *)
FairSpec ==
    /\ Spec
    /\ WF_vars(Reconcile) /\ WF_vars(WaitPasses)
    /\ \A r \in Resources : WF_vars(Provision(r)) /\ WF_vars(Gone(r))
    /\ \A i \in Instances : WF_vars(ApplyTag(i))

-----------------------------------------------------------------------------
(* The types of the variables.  Nothing is done for a claim that is gone.  *)
TypeOK ==
    /\ provider \in Providers
    /\ res \in [Resources -> {"absent", "creating", "ready", "deleting"}]
    /\ {tag, atProvider} \subseteq [Instances -> {"none", "active", "inactive"}]
    /\ claim \in {"live", "deleting", "gone"}
    /\ use \in {"active", "old", "none"}
    /\ act \in {"idle", "manage", "tag", "retire", "delete"}
    /\ claim = "gone" => act = "idle"
    /\ todo \in Seq(Resources)
    /\ {good, handedOver, waitOver, failed} \subseteq BOOLEAN
    /\ errors \in 0..MaxErrors /\ crashes \in 0..MaxCrashes
    /\ returns \in 0..MaxReturns

(* A host that was handed to the claim stays whole while the claim uses    *)
(* it: every resource of it exists, its instances are provisioned and      *)
(* none of them is marked as retired, also when the claim had left the     *)
(* host before and its deletion was under way when it came back.           *)
WholeHost ==
    handedOver /\ claim = "live" =>
        \A r \in Managed(provider) :
            /\ res[r] # "absent"
            /\ r \in Instances => res[r] = "ready" /\ tag[r] # "inactive"

(* The deletion of an old host's instance starts only when the provider    *)
(* shows it as inactive, unless ten minutes passed or a call failed.       *)
TaggedBeforeRetired ==
    [][\A i \in Instances :
          act = "retire" /\ res[i] # "deleting" /\ res'[i] = "deleting" =>
              atProvider[i] = "inactive" \/ waitOver \/ failed]_vars

(* When an AWS host is forgotten all its resources are being deleted,      *)
(* unless a call failed: no later reconcile would delete them.             *)
ForgottenReleased ==
    use = "none" /\ ~failed /\ provider # "alloydb" =>
        \A r \in CloudResources : res[r] \in {"absent", "deleting"}

(* A claim that stays gets its host, also one still being deleted when the *)
(* claim comes back to it.                                                 *)
HostComes == claim = "live" /\ use = "active" ~> handedOver \/ claim # "live"

(* A deleted claim goes, and the database it uses and its parameter groups *)
(* go with it, whatever state they were in.                                *)
HostGoes ==
    claim = "deleting" /\ use = "active" ~>
        /\ claim = "gone"
        /\ \A r \in CloudResources : res[r] = "absent"
==============================================================================
