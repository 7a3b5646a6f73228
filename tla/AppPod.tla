------------------------------- MODULE AppPod --------------------------------
(***************************************************************************)
(* An application's pod from its submission on: the webhooks give it its   *)
(* side cars, and once it is started each of them follows the claim's      *)
(* secret, which rotations and migrations change, on its own.              *)
(***************************************************************************)
EXTENDS Integers, Sequences, FiniteSets

CONSTANTS
    MaxEdits, MaxChanges,            \* PodAdmission
    MaxRotations, MaxFaults, PortOf, \* DbProxy
    NCommands, MaxExits,             \* DsnExec
    MaxOther                         \* bound on versions of the other source

VARIABLES
    claims, role, secrets, changes,
    request, pod, stored, phase, operation, edits,
    file, watching, pending, dsn, hash, config, auth, running, booted, pc,
    missed, faulty, faults,
    other,    \* the version of dsnexec's other source file
    reported, held, updates, sources, args, command, dest, execPc, exits,
    started   \* the side cars that have been started

Admission == INSTANCE PodAdmission

DbProxy == INSTANCE DbProxy

(* dsnexec's sources are the claim's secret and one more file.             *)
content == [s \in {"dsn", "other"} |-> IF s = "dsn" THEN file ELSE other]

DsnExec ==
    INSTANCE DsnExec WITH Sources <- {"dsn", "other"}, pc <- execPc

admissionVars == <<claims, role, secrets, changes, request, pod, stored, phase,
                   operation, edits>>
proxyVars == <<watching, pending, dsn, hash, config, auth, running, booted,
               pc, missed, faulty, faults>>
execVars == <<reported, held, updates, sources, args, command, dest, execPc, exits>>
vars == <<admissionVars, file, proxyVars, other, execVars, started>>

ASSUME ProxyAssumption ==
    /\ MaxRotations \in Nat /\ MaxFaults \in Nat
    /\ PortOf \in [1..(MaxRotations + 1) -> 1..65535]
ASSUME ExecAssumption ==
    NCommands \in Nat \ {0} /\ MaxExits \in Nat /\ MaxOther \in Nat \ {0}
ASSUME AdmissionAssumption == MaxEdits \in Nat /\ MaxChanges \in Nat

Init ==
    /\ other = 1 /\ DbProxy!Init
    /\ Admission!Init
    /\ DsnExec!Init
    /\ started = {}

-----------------------------------------------------------------------------
Admit ==
    /\ Admission!Next
    /\ UNCHANGED <<file, other, proxyVars, execVars, started>>

(* The pod is started.  From here on only its side cars matter; what the   *)
(* webhooks saw is forgotten.                                              *)
Start ==
    /\ phase = "stored"
    /\ started' = {stored.containers[i] : i \in DOMAIN stored.containers}
    /\ phase' = "started"
    /\ request' = Admission!NoPod /\ pod' = Admission!NoPod /\ stored' = Admission!NoPod
    /\ operation' = "create" /\ edits' = MaxEdits
    /\ claims' = {} /\ role' = "none" /\ secrets' = {} /\ changes' = MaxChanges
    /\ UNCHANGED <<file, other, proxyVars, execVars>>

(* Bounds are smaller by one for a pod with both side cars.                *)
Bound(max) == IF Cardinality(started) = 2 THEN max - 1 ELSE max

ProxySteps(step) ==
    /\ "dbproxy" \in started
    /\ step
    /\ UNCHANGED <<admissionVars, other, execVars, started>>
    /\ faults' + exits <= Bound(MaxFaults)

ExecSteps(step) ==
    /\ "dsnexec" \in started
    /\ UNCHANGED <<admissionVars, file, other, proxyVars, started>>
    /\ step
    /\ faults + exits' <= Bound(MaxFaults)

SecretChanges ==
    /\ started # {} /\ file <= Bound(MaxRotations)
    /\ DbProxy!SecretChanges
    /\ UNCHANGED <<admissionVars, other, execVars, started>>

OtherChanges ==
    /\ "dsnexec" \in started /\ other < Bound(MaxOther)
    /\ other' = other + 1
    /\ UNCHANGED <<admissionVars, file, proxyVars, execVars, started>>

Next ==
    \/ Admit \/ Start
    \/ ProxySteps(DbProxy!Step) \/ ExecSteps(DsnExec!Step)
    \/ SecretChanges \/ OtherChanges

Spec == Init /\ [][Next]_vars

(* Both processes run, the watches report, and the files are created.      *)
FairSpec ==
    /\ Spec
    /\ WF_vars(ProxySteps(DbProxy!Proxy))
    /\ WF_vars(ExecSteps(DsnExec!Handler))
    /\ \A s \in {"dsn", "other"} :
          /\ WF_vars(ExecSteps(DsnExec!Notify(s)))
          /\ WF_vars(ExecSteps(DsnExec!Forward(s)))
    /\ WF_vars(file = 0 /\ SecretChanges)

-----------------------------------------------------------------------------
(* The types of the three components' variables.                           *)
TypeOK ==
    /\ phase = "started" \/ Admission!TypeOK
    /\ DbProxy!TypeOK /\ DsnExec!TypeOK
    /\ started \subseteq {"dbproxy", "dsnexec"}

(* A stored pod has, once, each side car its labels ask for.               *)
StoredWhole == Admission!StoredWhole

(* An update is refused only for one of the four causes PodAdmission names. *)
UpdateRefusedForCause == Admission!UpdateRefusedForCause

(* Annotations that were converted lead to the secret they named, but for  *)
(* the two cases PodAdmission names.                                       *)
MountsAskedSecret == Admission!MountsAskedSecret

(* dsnexec never waits for updates over a half-updated destination.        *)
CommandsAgree == DsnExec!CommandsAgree

(* No change that a watch reported to dsnexec is dropped on its way.       *)
NothingLost == DsnExec!NothingLost

ProxyUse ==
    INSTANCE SecretUse WITH version <- file, used <- running, up <- booted

ExecUse ==
    INSTANCE SecretUse
    WITH version <- file, used <- dest[NCommands]["dsn"], up <- TRUE

(* pgbouncer only ever loads a whole configuration, a newer one each time, *)
(* although every event empties its files first.                           *)
ProxyImplementsSecretUse == ProxyUse!Spec

(* dsnexec's last command is never run with an older DSN than before,      *)
(* across its restarts.                                                    *)
ExecImplementsSecretUse == ExecUse!Spec

(* Both side cars keep what SecretUse promises of following a secret.      *)
SideCarsImplementSecretUse == ProxyImplementsSecretUse /\ ExecImplementsSecretUse

(* Whatever the order of changes and events, pgbouncer ends up with the    *)
(* present credentials and port, except that a change between the first    *)
(* read and the first watch is missed, a failed write or reload is not     *)
(* retried, and a port must fit an int16.                                  *)
ProxyFollows ==
    <>[]("dbproxy" \notin started \/ DbProxy!Serving \/ missed \/ faulty
         \/ (file # 0 /\ PortOf[file] >= 2^15))

(* dsnexec, which ends at every error, has run its commands with what the  *)
(* sources hold in the end, without exception.                             *)
DestinationFollows ==
    <>[]("dsnexec" \notin started \/ \A c \in 1..NCommands : dest[c] = content)

(* Both side cars end up with the present secret, dbproxy with the         *)
(* exceptions above.                                                       *)
SideCarsFollow == ProxyFollows /\ DestinationFollows
==============================================================================
