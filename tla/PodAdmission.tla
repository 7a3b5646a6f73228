---------------------------- MODULE PodAdmission -----------------------------
(***************************************************************************)
(* The webhooks an application's pod passes: the conversion of the         *)
(* deprecated annotations into labels, and the defaulter, registered once  *)
(* for each side car, that adds the side cars the labels ask for.          *)
(*                                                                         *)
(* The namespace has at most one DatabaseClaim, "c", whose secret is "s1", *)
(* and one DbRoleClaim, of any name, whose secret is "s2".                 *)
(***************************************************************************)
EXTENDS Naturals, Sequences

CONSTANTS MaxEdits,   \* bound on updates of the pod
          MaxChanges  \* bound on changes to claims and secrets

SideCars == {"dbproxy", "dsnexec"}
Secrets == {"s1", "s2"}
Maybe(S) == S \cup {"none"}

VARIABLES
    claims,   \* the DatabaseClaims there are
    role,     \* the name of the DbRoleClaim, or "none"
    secrets,  \* the secrets there are
    request,  \* the pod as its owner submits it
    pod,      \* the pod on its way through the webhooks
    stored,   \* the pod the API server has stored
    phase,    \* the webhook that is called next, or the outcome
    operation,\* "create" or "update"
    changes, edits

worldVars == <<claims, role, secrets, changes>>
podVars == <<request, pod, stored, phase, operation, edits>>
vars == <<worldVars, podVars>>

(***************************************************************************)
(* A pod: the labels, the deprecated annotations, the injected-*           *)
(* annotations, and of its specification the side cars and the secrets of  *)
(* their volumes.                                                          *)
(***************************************************************************)
NoVolumes == [c \in SideCars |-> "none"]

NoPod == [claim |-> "none", class |-> "other", enabled |-> {}, config |-> FALSE,
          dsnexecConfig |-> FALSE, remoteDBDSN |-> "none", dbSecretPath |-> "none",
          injected |-> {}, containers |-> <<>>, volumes |-> NoVolumes]

(* A pod asks by labels, or by the annotations labels have replaced.       *)
Labelled(c, k, e, g, a) ==
    [NoPod EXCEPT !.claim = c, !.class = k, !.enabled = e, !.config = g,
                  !.dsnexecConfig = a]

Annotated(a, r, d) ==
    [NoPod EXCEPT !.dsnexecConfig = a, !.remoteDBDSN = r, !.dbSecretPath = d]

Requests ==
    {Labelled(c, k, e, g, a) :
        c \in Maybe({"c", "r"}), k \in {"ours", "other"}, e \in SUBSET SideCars,
        g \in BOOLEAN, a \in BOOLEAN}
    \cup
    {Annotated(a, r, d) :
        a \in BOOLEAN, r \in Maybe(Secrets), d \in Maybe(Secrets)}

Init ==
    /\ claims \in SUBSET {"c"}
    /\ role \in Maybe({"c", "r"})
    /\ secrets \in SUBSET ((IF claims = {} THEN {} ELSE {"s1"})
                           \cup (IF role = "none" THEN {} ELSE {"s2"}))
    /\ request \in Requests
    /\ pod = request
    /\ stored = NoPod
    /\ phase = "convert" /\ operation = "create"
    /\ changes = 0 /\ edits = 0

-----------------------------------------------------------------------------
(***************************************************************************)
(* The conversion webhook.                                                 *)
(***************************************************************************)

(* The claim that owns the secret; both kinds of claims own theirs.        *)
getClaimName(secret) ==
    IF secret \notin secrets THEN "none"
    ELSE IF secret = "s1" THEN "c" ELSE role

NeedsConversion(p) ==
    /\ p.enabled = {}
    /\ p.dsnexecConfig \/ p.remoteDBDSN # "none" \/ p.dbSecretPath # "none"

AskedSecretPath(p) == IF p.dbSecretPath # "none" THEN p.dbSecretPath ELSE p.remoteDBDSN

AskedSecret(p) == IF p.remoteDBDSN # "none" THEN p.remoteDBDSN ELSE p.dbSecretPath

AskedSideCars(p) ==
    (IF p.dsnexecConfig /\ p.remoteDBDSN # "none" THEN {"dsnexec"} ELSE {})
    \cup (IF p.dbSecretPath # "none" THEN {"dbproxy"} ELSE {})

(* The deprecated annotations go, whether or not they made a label.        *)
convertPod(p) ==
    LET asked == AskedSideCars(p) IN
    [p EXCEPT !.claim = IF asked = {} THEN @ ELSE getClaimName(AskedSecret(p)),
              !.class = IF asked = {} THEN @ ELSE "ours",
              !.enabled = asked,
              !.config = @ \/ "dsnexec" \in asked,
              !.dsnexecConfig = FALSE,
              !.remoteDBDSN = "none",
              !.dbSecretPath = "none"]

Unconvertible(p) == NeedsConversion(p) /\ getClaimName(AskedSecret(p)) = "none"

(* A pod whose annotations lead to no claim is refused.                    *)
Convert ==
    /\ phase = "convert"
    /\ IF Unconvertible(pod)
       THEN phase' = "refused" /\ UNCHANGED pod
       ELSE /\ phase' = "dbproxy"
            /\ pod' = IF NeedsConversion(pod) THEN convertPod(pod) ELSE pod
    /\ UNCHANGED <<worldVars, request, stored, operation, edits>>

(* A call of this webhook that does not get through is ignored.            *)
ConversionIgnored ==
    /\ phase = "convert"
    /\ phase' = "dbproxy"
    /\ UNCHANGED <<worldVars, request, pod, stored, operation, edits>>

-----------------------------------------------------------------------------
(***************************************************************************)
(* The defaulter.                                                          *)
(***************************************************************************)

(* The API server calls it for a side car's label, with a claim and the    *)
(* controller's class.                                                     *)
Matches(p, sideCar) ==
    p.claim # "none" /\ p.class = "ours" /\ sideCar \in p.enabled

ClaimExists(name) == name \in claims \/ name = role

(* The role claim's secret comes first.                                    *)
getSecretNameClass(name) == IF name = role THEN "s2" ELSE "s1"

Contains(p, sideCar) == \E i \in DOMAIN p.containers : p.containers[i] = sideCar

InjectAgain(p, sideCar) ==
    [p EXCEPT !.volumes[sideCar] = IF @ = "none" THEN getSecretNameClass(p.claim) ELSE @,
              !.containers = Append(@, sideCar),
              !.injected = @ \cup {sideCar}]

(* mutatePodProxy and mutatePodExec: what is there already is left alone.  *)
Inject(p, sideCar) ==
    [p EXCEPT !.volumes[sideCar] = IF @ = "none" THEN getSecretNameClass(p.claim) ELSE @,
              !.containers = IF Contains(p, sideCar) THEN @ ELSE Append(@, sideCar),
              !.injected = @ \cup {sideCar}]

NextSideCarsByLabel(p) ==
    IF "dbproxy" \in p.enabled THEN {"dbproxy"} ELSE p.enabled \ p.injected

(* One call adds one side car: dsnexec only when dbproxy has been added or *)
(* is not asked for.                                                       *)
NextSideCars(p) ==
    LET missing == p.enabled \ p.injected
    IN  IF "dbproxy" \in missing THEN {"dbproxy"} ELSE missing

Refused(p) ==
    \/ ~ClaimExists(p.claim)
    \/ NextSideCars(p) = {"dsnexec"} /\ ~p.config /\ ~p.dsnexecConfig

Default ==
    IF NextSideCars(pod) = {} THEN pod
    ELSE Inject(pod, CHOOSE c \in NextSideCars(pod) : TRUE)

(* The registrations are called in turn, and once more when the pod was    *)
(* changed after their call.                                               *)
Called(here, sideCar, there) ==
    /\ phase = here
    /\ IF ~Matches(pod, sideCar)
       THEN phase' = there /\ UNCHANGED pod
       ELSE IF Refused(pod)
       THEN phase' = "refused" /\ UNCHANGED pod
       ELSE phase' = there /\ pod' = Default
    /\ UNCHANGED <<worldVars, request, stored, operation, edits>>

CallForProxy == Called("dbproxy", "dbproxy", "dsnexec")
CallForExec == \E next \in {"again", "store"} : Called("dsnexec", "dsnexec", next)
CallAgain == Called("again", "dbproxy", "store")

SameSpec(p, q) == p.containers = q.containers /\ p.volumes = q.volumes

(* A stored pod's containers and volumes cannot be changed.                *)
Store ==
    /\ phase = "store"
    /\ IF operation = "update" /\ ~SameSpec(pod, stored)
       THEN phase' = "refused" /\ UNCHANGED stored
       ELSE phase' = "stored" /\ stored' = pod
    /\ UNCHANGED <<worldVars, request, pod, operation, edits>>

-----------------------------------------------------------------------------
(* A pod that is refused is submitted again by its owner.                  *)
Resubmit ==
    /\ phase = "refused" /\ operation = "create"
    /\ pod' = request
    /\ phase' = "convert"
    /\ UNCHANGED <<worldVars, request, stored, operation, edits>>

(* An update changes labels, the claim's to one other claim, and drops     *)
(* annotations, the injected-* ones too.                                   *)
Edits(p) ==
    [claim : {p.claim, "r"}, class : {p.class}, enabled : SUBSET SideCars,
     config : BOOLEAN, dsnexecConfig : {FALSE, p.dsnexecConfig},
     remoteDBDSN : {"none", p.remoteDBDSN}, dbSecretPath : {"none", p.dbSecretPath},
     injected : SUBSET p.injected, containers : {p.containers}, volumes : {p.volumes}]

Update ==
    /\ \/ phase = "stored"
       \/ phase = "refused" /\ operation = "update"
    /\ edits < MaxEdits
    /\ edits' = edits + 1
    /\ pod' \in Edits(stored)
    /\ operation' = "update"
    /\ phase' = "convert"
    /\ UNCHANGED <<worldVars, request, stored>>

ClaimCreated ==
    /\ changes < MaxChanges /\ changes' = changes + 1
    /\ \/ claims' = {"c"} /\ role' = role
       \/ role = "none" /\ role' \in {"c", "r"} /\ claims' = claims
    /\ UNCHANGED <<secrets, podVars>>

SecretCreated ==
    /\ changes < MaxChanges /\ changes' = changes + 1
    /\ \E s \in Secrets \ secrets :
          /\ IF s = "s1" THEN claims # {} ELSE role # "none"
          /\ secrets' = secrets \cup {s}
    /\ UNCHANGED <<claims, role, podVars>>

(* The secret of a deleted claim goes with it.                             *)
ClaimDeleted ==
    /\ changes < MaxChanges /\ changes' = changes + 1
    /\ \/ claims' = {} /\ role' = role /\ secrets' = secrets \ {"s1"}
       \/ role' = "none" /\ claims' = claims /\ secrets' = secrets \ {"s2"}
    /\ UNCHANGED podVars

Webhooks ==
    \/ Convert \/ ConversionIgnored \/ CallForProxy \/ CallForExec \/ CallAgain \/ Store
Environment == ClaimCreated \/ SecretCreated \/ ClaimDeleted
Next == Webhooks \/ Resubmit \/ Update \/ Environment
-----------------------------------------------------------------------------
Pods ==
    [claim : Maybe({"c", "r"}), class : {"ours", "other"}, enabled : SUBSET SideCars,
     config : BOOLEAN, dsnexecConfig : BOOLEAN,
     remoteDBDSN : Maybe(Secrets), dbSecretPath : Maybe(Secrets),
     injected : SUBSET SideCars, volumes : [SideCars -> Maybe(Secrets)],
     containers : UNION {[1..n -> SideCars] : n \in 0..2}]

(* The types of the variables.                                             *)
TypeOK ==
    /\ claims \subseteq {"c"} /\ role \in Maybe({"c", "r"}) /\ secrets \subseteq Secrets
    /\ {request, pod, stored} \subseteq Pods
    /\ phase \in {"convert", "dbproxy", "dsnexec", "again", "store", "stored", "refused"}
    /\ operation \in {"create", "update"}
    /\ changes \in 0..MaxChanges /\ edits \in 0..MaxEdits

(* A stored pod whose labels ask for a side car has it, once, and has its  *)
(* volume, although one call of the defaulter adds only one side car and   *)
(* is repeated for updates and reinvocations.                              *)
StoredWhole ==
    \A c \in SideCars : Matches(stored, c) =>
        /\ Contains(stored, c)
        /\ \A i, j \in DOMAIN stored.containers :
              stored.containers[i] = c /\ stored.containers[j] = c => i = j
        /\ stored.volumes[c] # "none"

(* An update of a stored pod is refused only when it asks for a side car   *)
(* the pod was not created with (a late conversion does), when the claim   *)
(* is gone, when it leaves the pod with no side car's label but with       *)
(* deprecated annotations that lead to no claim, or when the pod has lost  *)
(* both its dsnexec configuration and the note that dsnexec was injected.  *)
UpdateRefusedForCause ==
    [][phase' = "refused" /\ phase # "refused" /\ operation = "update" =>
          \/ \E c \in pod.enabled : ~Contains(stored, c)
          \/ pod.enabled # {} /\ ~ClaimExists(pod.claim)
          \/ Unconvertible(pod)
          \/ /\ "dsnexec" \in pod.enabled \ pod.injected
             /\ ~pod.config /\ ~pod.dsnexecConfig]_vars

AskedFor(sideCar) ==
    IF sideCar = "dbproxy" THEN request.dbSecretPath ELSE request.remoteDBDSN

(* The annotations name two secrets; the labels can only name one claim.   *)
NamesTwo == request.remoteDBDSN \notin {"none", request.dbSecretPath}

(* The other kind of claim has the name of the secret's claim.             *)
NameShared(secret) == IF secret = "s1" THEN role = "c" ELSE pod.claim \in claims

(* A side car that is asked for by annotations mounts the secret they      *)
(* name, except that dbproxy gets dsnexec's when they name two, and that   *)
(* a claim and a role claim of one name are taken for each other.          *)
MountsAskedSecret ==
    [][\A c \in SideCars :
          /\ operation = "create" /\ request.enabled = {}
          /\ AskedFor(c) # "none"
          /\ pod'.volumes[c] \notin {"none", pod.volumes[c]}
          => \/ pod'.volumes[c] = AskedFor(c)
             \/ c = "dbproxy" /\ NamesTwo
             \/ NameShared(AskedFor(c))]_vars
==============================================================================
