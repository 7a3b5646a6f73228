--------------------------- MODULE AdmissionProofs ---------------------------
(***************************************************************************)
(* A stored pod has its side cars, its updates are refused only for cause  *)
(* and its annotations lead to the secret they name, for every number of   *)
(* updates of the pod and of changes to the claims.                        *)
(***************************************************************************)
EXTENDS AppPod, SequenceTheorems, TLAPS

SideCars == {"dbproxy", "dsnexec"}
Names == {"none", "c", "r", "s1", "s2", "ours", "other"}

PodType ==
    [claim : Names, class : Names, enabled : SUBSET SideCars, config : BOOLEAN,
     dsnexecConfig : BOOLEAN, remoteDBDSN : Names, dbSecretPath : Names,
     injected : SUBSET SideCars, containers : Seq(SideCars),
     volumes : [SideCars -> Names]]

Has(p, c) == \E i \in 1..Len(p.containers) : p.containers[i] = c

(* No side car is there twice, and what the injected-* annotations claim   *)
(* is there.                                                               *)
Sound(p) ==
    /\ p \in PodType
    /\ \A i, j \in 1..Len(p.containers) : p.containers[i] = p.containers[j] => i = j
    /\ \A c \in p.injected : Has(p, c) /\ p.volumes[c] # "none"

Asked(p, c) == Admission!Matches(p, c) => c \in p.injected

(* What the calls made so far have added.                                  *)
AdmissionInv ==
    /\ role \in Names
    /\ Sound(request) /\ Sound(pod) /\ Sound(stored)
    /\ phase \in {"dsnexec", "again", "store"} => Asked(pod, "dbproxy")
    /\ phase \in {"again", "store"} => Asked(pod, "dsnexec")
    /\ \A c \in SideCars : Asked(stored, c)

(* No pod asks for nothing.                                                *)
LEMMA NoPodSound == Sound(Admission!NoPod)
<1>1. <<>> \in Seq(SideCars) /\ Len(<<>>) = 0
    BY EmptySeq
<1>2. Admission!NoPod \in PodType
  <2>1. Admission!NoVolumes \in [SideCars -> Names]
      BY DEF Admission!NoVolumes, Admission!SideCars, SideCars, Names
  <2>2. FALSE \in BOOLEAN /\ {} \in SUBSET SideCars /\ "none" \in Names /\ "other" \in Names
      BY Zenon DEF Names
  <2> QED
      BY <1>1, <2>1, <2>2, Zenon DEF Admission!NoPod, PodType
<1> QED
    BY <1>1, <1>2 DEF Admission!NoPod, Sound

(* A pod with the same specification and no more annotations is sound.     *)
LEMMA SameSpecSound ==
    ASSUME NEW p, Sound(p), NEW q \in PodType, q.containers = p.containers,
           q.volumes = p.volumes, q.injected \subseteq p.injected
    PROVE  Sound(q)
BY DEF Sound, Has

(* The fields an update and the conversion replace.                        *)
Converted(p, cl, k, e, g) ==
    [p EXCEPT !.claim = cl, !.class = k, !.enabled = e, !.config = g,
              !.dsnexecConfig = FALSE, !.remoteDBDSN = "none", !.dbSecretPath = "none"]

SameContents(p, q) ==
    q \in PodType /\ q.containers = p.containers /\ q.volumes = p.volumes

(* An edit leaves the containers and the volumes alone.                    *)
LEMMA EditedPod ==
    ASSUME NEW p \in PodType, NEW q \in Admission!Edits(p)
    PROVE  SameContents(p, q) /\ q.injected \subseteq p.injected
<1>1. /\ p.claim \in Names /\ p.class \in Names /\ p.dsnexecConfig \in BOOLEAN
      /\ p.remoteDBDSN \in Names /\ p.dbSecretPath \in Names
      /\ p.injected \subseteq SideCars /\ p.containers \in Seq(SideCars)
      /\ p.volumes \in [SideCars -> Names]
    BY Zenon DEF PodType
<1>2. /\ {p.claim, "r"} \subseteq Names /\ {p.class} \subseteq Names
      /\ {"none", p.remoteDBDSN} \subseteq Names /\ {"none", p.dbSecretPath} \subseteq Names
    BY <1>1 DEF Names
<1>3. {FALSE, p.dsnexecConfig} \subseteq BOOLEAN
    BY <1>1, Zenon
<1>4. /\ SUBSET p.injected \subseteq SUBSET SideCars
      /\ {p.containers} \subseteq Seq(SideCars) /\ {p.volumes} \subseteq [SideCars -> Names]
    BY <1>1, Zenon
<1>5. /\ q.injected \in SUBSET p.injected
      /\ q.containers \in {p.containers} /\ q.volumes \in {p.volumes}
    BY Zenon DEF Admission!Edits
<1>6. q \in PodType
    BY <1>2, <1>3, <1>4, Zenon DEF Admission!Edits, PodType, Admission!SideCars, SideCars
<1> QED
    BY <1>5, <1>6, Zenon DEF SameContents

(* So does a conversion, which only turns annotations into labels.         *)
LEMMA ConvertedPod ==
    ASSUME NEW p \in PodType, NEW cl \in Names, NEW k \in Names,
           NEW e \in SUBSET SideCars, NEW g \in BOOLEAN
    PROVE  /\ SameContents(p, Converted(p, cl, k, e, g))
           /\ Converted(p, cl, k, e, g).injected = p.injected
<1>1. "none" \in Names /\ FALSE \in BOOLEAN
    BY Zenon DEF Names
<1> QED
    BY <1>1, Zenon DEF PodType, SameContents, Converted

(* Injecting a side car adds it unless it is there, and keeps the others.  *)
LEMMA InjectSound ==
    ASSUME NEW p, Sound(p), NEW c \in SideCars
    PROVE  /\ Sound(Admission!Inject(p, c))
           /\ Admission!Inject(p, c).injected = p.injected \cup {c}
           /\ Admission!Inject(p, c).claim = p.claim
           /\ Admission!Inject(p, c).class = p.class
           /\ Admission!Inject(p, c).enabled = p.enabled
<1> DEFINE q == Admission!Inject(p, c)
<1>0. p \in PodType /\ DOMAIN p.containers = 1..Len(p.containers)
    BY DEF Sound, PodType
<1>1. /\ q.injected = p.injected \cup {c} /\ q.claim = p.claim /\ q.class = p.class
      /\ q.enabled = p.enabled
    BY <1>0 DEF Admission!Inject, PodType
<1>2. q.containers = IF Has(p, c) THEN p.containers ELSE Append(p.containers, c)
    BY <1>0 DEF Admission!Inject, Admission!Contains, PodType, Has
<1>3. /\ q.volumes \in [SideCars -> Names] /\ q.volumes[c] # "none"
      /\ \A d \in SideCars : p.volumes[d] # "none" => q.volumes[d] # "none"
  <2>1. PICK v \in {"s1", "s2"} :
           q.volumes = [p.volumes EXCEPT ![c] = IF @ = "none" THEN v ELSE @]
      BY <1>0 DEF Admission!Inject, Admission!getSecretNameClass, PodType
  <2> QED
      BY <1>0, <2>1 DEF PodType, Names
<1>4. p.containers \in Seq(SideCars) /\ Append(p.containers, c) \in Seq(SideCars)
    BY <1>0, AppendProperties DEF PodType
<1>5. q \in PodType
    BY <1>0, <1>2, <1>3, <1>4, Zenon DEF Admission!Inject, PodType
<1>6. Has(q, c) /\ \A d \in SideCars : Has(p, d) => Has(q, d)
    BY <1>2, <1>4, AppendProperties DEF Has
<1>7. \A i, j \in 1..Len(q.containers) : q.containers[i] = q.containers[j] => i = j
  <2> DEFINE s == p.containers
             t == Append(s, c)
  <2>1. \A i, j \in 1..Len(s) : s[i] = s[j] => i = j
      BY Zenon DEF Sound
  <2>2. CASE Has(p, c)
      BY <1>2, <2>1, <2>2, Zenon
  <2>3. CASE ~Has(p, c)
    <3>1. /\ Len(s) \in Nat /\ Len(t) = Len(s) + 1 /\ t[Len(s) + 1] = c
          /\ \A i \in 1..Len(s) : t[i] = s[i] /\ s[i] # c
        BY <1>4, <2>3, AppendProperties DEF Has
    <3>2. q.containers = t
        BY <1>2, <2>3, Zenon
    <3> HIDE DEF s, t, q
    <3> QED
        BY <2>1, <3>1, <3>2
  <2> QED
      BY <2>2, <2>3
<1> QED
    BY <1>0, <1>1, <1>3, <1>5, <1>6, <1>7, Zenon DEF Sound, PodType

(* One call adds dbproxy if it is missing, and else dsnexec.               *)
LEMMA DefaultSound ==
    ASSUME Sound(pod)
    PROVE  /\ Sound(Admission!Default)
           /\ Admission!Default.claim = pod.claim /\ Admission!Default.class = pod.class
           /\ Admission!Default.enabled = pod.enabled
           /\ pod.injected \subseteq Admission!Default.injected
           /\ "dbproxy" \in pod.enabled => "dbproxy" \in Admission!Default.injected
           /\ "dsnexec" \in pod.enabled
              /\ ("dbproxy" \in pod.enabled => "dbproxy" \in pod.injected)
              => "dsnexec" \in Admission!Default.injected
<1>1. pod.enabled \subseteq SideCars /\ pod.injected \subseteq SideCars
    BY DEF Sound, PodType
<1>2. CASE Admission!NextSideCars(pod) = {}
    BY <1>1, <1>2 DEF Admission!NextSideCars, Admission!Default
<1>3. CASE Admission!NextSideCars(pod) # {}
  <2>1. PICK c \in Admission!NextSideCars(pod) : Admission!Default = Admission!Inject(pod, c)
      BY <1>3, Zenon DEF Admission!Default
  <2>2. /\ c \in SideCars
        /\ "dbproxy" \in pod.enabled \ pod.injected => c = "dbproxy"
        /\ "dbproxy" \notin pod.enabled \ pod.injected => c = "dsnexec"
      BY <1>1, <2>1 DEF Admission!NextSideCars, SideCars
  <2> QED
      BY <2>1, <2>2, InjectSound
<1> QED
    BY <1>2, <1>3

(* A call of the defaulter.                                                *)
LEMMA CalledEffect ==
    ASSUME Sound(pod), NEW here, NEW sideCar \in SideCars, NEW there,
           Admission!Called(here, sideCar, there)
    PROVE  /\ Sound(pod')
           /\ phase' \in {there, "refused"}
           /\ Asked(pod, "dbproxy") => Asked(pod', "dbproxy")
           /\ Asked(pod, "dsnexec") => Asked(pod', "dsnexec")
           /\ phase' # "refused" /\ sideCar = "dbproxy" => Asked(pod', "dbproxy")
           /\ phase' # "refused" /\ sideCar = "dsnexec" /\ Asked(pod, "dbproxy")
              => Asked(pod', "dsnexec")
           /\ UNCHANGED <<role, request, stored>>
<1>1. CASE Admission!Matches(pod, sideCar) /\ ~Admission!Refused(pod)
    BY <1>1, DefaultSound, Zenon DEF Admission!Called, Admission!Matches, Asked, Admission!worldVars
<1>2. CASE ~Admission!Matches(pod, sideCar) \/ Admission!Refused(pod)
    BY <1>2 DEF Admission!Called, Admission!Matches, Asked, Admission!worldVars
<1> QED
    BY <1>1, <1>2

(* Every pod that may be asked for is sound: it comes without side cars.   *)
LEMMA AdmissionInvInit == ASSUME Init PROVE AdmissionInv
<1> USE DEF Init, Admission!Init
<1>1. role \in Names
    BY DEF Admission!Maybe, Names
<1>2. Sound(request)
  <2>1. /\ request \in PodType
        /\ request.injected = {} /\ request.containers = <<>>
    <3>1. Admission!NoPod \in PodType
        BY NoPodSound DEF Sound
    <3>2. Admission!NoPod.injected = {} /\ Admission!NoPod.containers = <<>>
        BY DEF Admission!NoPod
    <3>3. ASSUME NEW c \in Names, NEW k \in Names, NEW e \in SUBSET SideCars,
                 NEW g \in BOOLEAN, NEW a \in BOOLEAN, request = Admission!Labelled(c, k, e, g, a)
          PROVE  /\ request \in PodType
                 /\ request.injected = {} /\ request.containers = <<>>
        BY <3>1, <3>2, <3>3, Zenon DEF Admission!Labelled, PodType
    <3>4. ASSUME NEW a \in BOOLEAN, NEW r \in Names, NEW d \in Names,
                 request = Admission!Annotated(a, r, d)
          PROVE  /\ request \in PodType
                 /\ request.injected = {} /\ request.containers = <<>>
        BY <3>1, <3>2, <3>4, Zenon DEF Admission!Annotated, PodType
    <3>5. \/ \E c, k \in Names, e \in SUBSET SideCars, g, a \in BOOLEAN :
                request = Admission!Labelled(c, k, e, g, a)
          \/ \E a \in BOOLEAN, r, d \in Names : request = Admission!Annotated(a, r, d)
      <4>1. {"c", "r"} \cup {"none"} \subseteq Names /\ {"s1", "s2"} \cup {"none"} \subseteq Names
            /\ {"ours", "other"} \subseteq Names
          BY DEF Names
      <4>2. request \in Admission!Requests
          OBVIOUS
      <4> HIDE DEF Init, Admission!Init
      <4> QED
          BY <4>1, <4>2
          DEF Admission!Requests, Admission!Maybe, Admission!Secrets, Admission!SideCars, SideCars
    <3> QED
        BY <3>3, <3>4, <3>5
  <2> QED
      BY <2>1 DEF Sound
<1>3. \A c \in SideCars : Asked(stored, c)
    BY DEF Asked, Admission!Matches, Admission!NoPod
<1> QED
    BY <1>1, <1>2, <1>3, NoPodSound DEF AdmissionInv

(* The conversion leaves a pod alone, and may refuse it, or replaces its   *)
(* annotations by the claim they lead to.                                  *)
LEMMA ConvertEffect ==
    ASSUME Sound(pod), role \in Names, Admission!Convert
    PROVE  \/ pod' = pod
           \/ /\ SameContents(pod, pod') /\ pod'.injected = pod.injected
              /\ pod'.claim \in {pod.claim, Admission!getClaimName(Admission!AskedSecret(pod))}
<1> DEFINE name == Admission!getClaimName(Admission!AskedSecret(pod))
           asked == Admission!AskedSideCars(pod)
           cl == IF asked = {} THEN pod.claim ELSE name
           k == IF asked = {} THEN pod.class ELSE "ours"
           g == pod.config \/ "dsnexec" \in asked
<1>1. SUFFICES ASSUME pod' = Admission!convertPod(pod)
               PROVE  /\ SameContents(pod, pod') /\ pod'.injected = pod.injected
                      /\ pod'.claim \in {pod.claim, name}
    BY DEF Admission!Convert
<1>2. pod \in PodType
    BY DEF Sound
<1>3. asked \in SUBSET SideCars
    BY DEF Admission!AskedSideCars, SideCars
<1>4. cl \in Names /\ k \in Names /\ cl \in {pod.claim, name}
    BY <1>2 DEF Admission!getClaimName, PodType, Names
<1>5. g \in BOOLEAN
    BY <1>2, Zenon
<1>6. pod' = Converted(pod, cl, k, asked, g)
    BY <1>1, <1>2 DEF Admission!convertPod, PodType, Converted
<1> HIDE DEF asked, cl, k, g, name
<1>7. SameContents(pod, pod') /\ pod'.injected = pod.injected
    BY <1>2, <1>3, <1>4, <1>5, <1>6, ConvertedPod
<1>8. pod'.claim = cl
    BY <1>2, <1>6, Zenon DEF Converted, PodType
<1> QED
    BY <1>4, <1>7, <1>8

(* No call of the webhooks and no event around them breaks the invariant.  *)
LEMMA AdmissionStepKeeps == ASSUME AdmissionInv, Admission!Next PROVE AdmissionInv'
<1> USE DEF AdmissionInv
<1>1. CASE Admission!Convert
  <2>1. Sound(pod')
      BY <1>1, ConvertEffect, SameSpecSound DEF SameContents
  <2> QED
      BY <1>1, <2>1 DEF Admission!Convert, Admission!worldVars, Asked, Admission!Matches
<1>2. CASE Admission!CallForProxy
    BY <1>2, CalledEffect DEF Admission!CallForProxy, SideCars
<1>3. CASE Admission!CallForExec
  <2>1. PICK next \in {"again", "store"} : Admission!Called("dsnexec", "dsnexec", next)
      BY <1>3 DEF Admission!CallForExec
  <2>2. phase = "dsnexec"
      BY <2>1 DEF Admission!Called
  <2> QED
      BY <2>1, <2>2, CalledEffect DEF SideCars
<1>4. CASE Admission!CallAgain
  <2>1. phase = "again"
      BY <1>4 DEF Admission!CallAgain, Admission!Called
  <2> QED
      BY <1>4, <2>1, CalledEffect DEF Admission!CallAgain, SideCars
<1>5. CASE Admission!Store
    BY <1>5 DEF Admission!Store, Admission!worldVars, SideCars
<1>6. CASE Admission!Resubmit
    BY <1>6 DEF Admission!Resubmit, Admission!worldVars
<1>7. CASE Admission!Update
  <2>1. SameContents(stored, pod') /\ pod'.injected \subseteq stored.injected
    <3>1. pod' \in Admission!Edits(stored)
        BY <1>7 DEF Admission!Update
    <3> QED
        BY <3>1, EditedPod DEF Sound
  <2>2. Sound(pod')
      BY <2>1, SameSpecSound DEF SameContents
  <2> QED
      BY <1>7, <2>2 DEF Admission!Update, Admission!worldVars
<1>8. CASE Admission!Environment
    BY <1>8 DEF Admission!Environment, Admission!ClaimCreated, Admission!SecretCreated,
       Admission!ClaimDeleted, Admission!podVars, Names, Asked, Admission!Matches
<1>9. CASE Admission!ConversionIgnored
    BY <1>9 DEF Admission!ConversionIgnored, Admission!worldVars
<1> QED
    BY <1>1, <1>2, <1>3, <1>4, <1>5, <1>6, <1>7, <1>8, <1>9, Zenon
    DEF Admission!Next, Admission!Webhooks

-----------------------------------------------------------------------------
(***************************************************************************)
(* Updates and volumes: what a pod has beside what its annotations claim.  *)
(***************************************************************************)
(* A side car comes with its volume.                                       *)
Equipped(p) == \A c \in SideCars : Has(p, c) => p.volumes[c] # "none"

(* An update only adds to the specification, and only a side car that the  *)
(* stored pod has not.                                                     *)
UpdateInv ==
    /\ Equipped(request) /\ Equipped(pod) /\ Equipped(stored)
    /\ phase = "stored" => Admission!SameSpec(pod, stored)
    /\ operation = "update" =>
          /\ \A c \in SideCars : Has(stored, c) => Has(pod, c)
          /\ \/ Admission!SameSpec(pod, stored)
             \/ phase # "convert" /\ \E c \in pod.enabled : ~Has(stored, c)

(* A pod whose annotations ask for the claim's secret gets no label but    *)
(* that claim's.                                                           *)
AskInv ==
    /\ request.remoteDBDSN \in {"none", "s1", "s2"} /\ request.dbSecretPath \in {"none", "s1", "s2"}
    /\ request.volumes = Admission!NoVolumes
    /\ Admission!AskedSecret(request) # "none" => request.claim = "none"
    /\ operation = "create" /\ phase = "convert" => pod = request
    /\ operation = "create" /\ Admission!AskedSecret(request) = "s1" => pod.claim \in {"none", "c"}

WebhookInv == AdmissionInv /\ UpdateInv /\ AskInv

(* What injecting a side car leaves alone, and that it changes nothing     *)
(* where the side car is complete.                                         *)
Adds(p, c, q) ==
    /\ q.config = p.config /\ q.dsnexecConfig = p.dsnexecConfig
    /\ q.remoteDBDSN = p.remoteDBDSN /\ q.dbSecretPath = p.dbSecretPath
    /\ \A d \in SideCars : Has(q, d) <=> Has(p, d) \/ d = c
    /\ \A d \in SideCars \ {c} : q.volumes[d] = p.volumes[d]
    /\ q.volumes[c] = IF p.volumes[c] = "none" THEN Admission!getSecretNameClass(p.claim)
                      ELSE p.volumes[c]
    /\ Has(p, c) /\ p.volumes[c] # "none" => Admission!SameSpec(q, p)

(* This holds of Inject.                                                   *)
LEMMA InjectAdds ==
    ASSUME NEW p, Sound(p), NEW c \in SideCars
    PROVE  Adds(p, c, Admission!Inject(p, c))
<1> DEFINE q == Admission!Inject(p, c)
           v == IF p.volumes[c] = "none" THEN Admission!getSecretNameClass(p.claim)
                ELSE p.volumes[c]
<1>0. /\ p \in PodType /\ DOMAIN p.containers = 1..Len(p.containers)
      /\ p.volumes \in [SideCars -> Names] /\ p.containers \in Seq(SideCars)
    BY DEF Sound, PodType
<1>1. /\ q.config = p.config /\ q.dsnexecConfig = p.dsnexecConfig
      /\ q.remoteDBDSN = p.remoteDBDSN /\ q.dbSecretPath = p.dbSecretPath
    BY <1>0, Zenon DEF Admission!Inject, PodType
<1>2. q.containers = IF Has(p, c) THEN p.containers ELSE Append(p.containers, c)
    BY <1>0 DEF Admission!Inject, Admission!Contains, PodType, Has
<1>3. q.volumes = [p.volumes EXCEPT ![c] = v]
    BY <1>0 DEF Admission!Inject, PodType
<1> HIDE DEF q, v
<1>4. \A d \in SideCars : Has(q, d) <=> Has(p, d) \/ d = c
    BY <1>0, <1>2, AppendProperties DEF Has
<1>5. q.volumes[c] = v /\ \A d \in SideCars \ {c} : q.volumes[d] = p.volumes[d]
    BY <1>0, <1>3
<1>6. Has(p, c) /\ p.volumes[c] # "none" => Admission!SameSpec(q, p)
    BY <1>0, <1>2, <1>3 DEF v, Admission!SameSpec
<1> QED
    BY <1>1, <1>4, <1>5, <1>6, Zenon DEF q, v, Adds

(* A call of the defaulter leaves the pod alone or adds one side car that  *)
(* the labels ask for; a pod is refused for want of a claim or of dsnexec's*)
(* configuration.                                                          *)
LEMMA CalledAdds ==
    ASSUME Sound(pod), NEW here, NEW sideCar \in SideCars, NEW there,
           Admission!Called(here, sideCar, there)
    PROVE  /\ phase = here /\ UNCHANGED <<claims, role, secrets, request, stored, operation>>
           /\ \/ /\ pod' = pod
                 /\ \/ phase' = there
                    \/ phase' = "refused" /\ Admission!Refused(pod)
              \/ /\ phase' = there
                 /\ pod.claim # "none" /\ Admission!ClaimExists(pod.claim)
                 /\ \E c \in SideCars :
                       /\ c \in pod.enabled /\ pod' = Admission!Inject(pod, c)
                       /\ c = "dsnexec" => pod.config \/ pod.dsnexecConfig
<1>1. phase = here /\ UNCHANGED <<claims, role, secrets, request, stored, operation>>
    BY DEF Admission!Called, Admission!worldVars
<1>2. CASE ~Admission!Matches(pod, sideCar) \/ Admission!Refused(pod)
    BY <1>1, <1>2, Zenon DEF Admission!Called
<1>3. CASE Admission!Matches(pod, sideCar) /\ ~Admission!Refused(pod)
  <2>1. phase' = there /\ pod' = Admission!Default
      BY <1>3, Zenon DEF Admission!Called
  <2>2. pod.claim # "none" /\ Admission!ClaimExists(pod.claim)
      BY <1>3 DEF Admission!Matches, Admission!Refused
  <2>3. CASE Admission!NextSideCars(pod) = {}
      BY <1>1, <2>1, <2>3, Zenon DEF Admission!Default
  <2>4. CASE Admission!NextSideCars(pod) # {}
    <3>1. PICK c \in Admission!NextSideCars(pod) : pod' = Admission!Inject(pod, c)
        BY <2>1, <2>4, Zenon DEF Admission!Default
    <3>2. c \in pod.enabled /\ c \in SideCars
        BY <3>1 DEF Admission!NextSideCars, Sound, PodType
    <3>3. c = "dsnexec" => Admission!NextSideCars(pod) = {"dsnexec"}
        BY <3>1 DEF Admission!NextSideCars, Sound, PodType, SideCars
    <3>4. c = "dsnexec" => pod.config \/ pod.dsnexecConfig
        BY <1>3, <3>3, Zenon DEF Admission!Refused
    <3> QED
        BY <1>1, <2>1, <2>2, <3>1, <3>2, <3>4, Zenon
  <2> QED
      BY <2>3, <2>4
<1> QED
    BY <1>2, <1>3

(* The calls of the defaulter.                                             *)
LEMMA CalledKeeps ==
    ASSUME WebhookInv, NEW here \in {"dbproxy", "dsnexec", "again"}, NEW sideCar \in SideCars,
           NEW there \in {"dsnexec", "again", "store"}, Admission!Called(here, sideCar, there)
    PROVE  UpdateInv' /\ AskInv'
<1>0. Sound(pod) /\ UpdateInv /\ AskInv
    BY DEF WebhookInv, AdmissionInv
<1>1. /\ phase = here /\ phase' \in {there, "refused"}
      /\ UNCHANGED <<claims, role, secrets, request, stored, operation>>
    BY <1>0, CalledAdds
<1>2. phase # "convert" /\ phase' \notin {"convert", "stored"}
    BY <1>1
<1>3. CASE pod' = pod
  <2>1. UpdateInv'
      BY <1>0, <1>1, <1>2, <1>3 DEF UpdateInv
  <2>2. AskInv'
      BY <1>0, <1>1, <1>2, <1>3 DEF AskInv
  <2> QED
      BY <2>1, <2>2
<1>4. CASE pod' # pod
  <2>1. PICK c \in SideCars : /\ pod.claim # "none" /\ c \in pod.enabled
                              /\ pod' = Admission!Inject(pod, c)
                              /\ c = "dsnexec" => pod.config \/ pod.dsnexecConfig
      BY <1>0, <1>4, CalledAdds
  <2>2. pod'.claim = pod.claim /\ pod'.enabled = pod.enabled
      BY <1>0, <2>1, InjectSound, Zenon
  <2>3. Adds(pod, c, pod')
      BY <1>0, <2>1, InjectAdds, Zenon
  <2>4. Admission!getSecretNameClass(pod.claim) # "none"
      BY DEF Admission!getSecretNameClass
  <2>5. Equipped(pod')
    <3>1. Equipped(pod)
        BY <1>0 DEF UpdateInv
    <3> QED
        BY <2>3, <2>4, <3>1 DEF Equipped, Adds
  <2>6. ASSUME operation = "update"
        PROVE  /\ \A d \in SideCars : Has(stored, d) => Has(pod', d)
               /\ Admission!SameSpec(pod', stored) \/ \E d \in pod'.enabled : ~Has(stored, d)
    <3>1. \A d \in SideCars : Has(stored, d) => Has(pod, d)
        BY <1>0, <2>6 DEF UpdateInv
    <3>2. \/ Admission!SameSpec(pod, stored)
          \/ \E d \in pod.enabled : ~Has(stored, d)
        BY <1>0, <2>6 DEF UpdateInv
    <3>3. Has(stored, c) => Admission!SameSpec(pod', pod)
        BY <1>0, <2>3, <3>1 DEF UpdateInv, Equipped, Adds
    <3>4. Admission!SameSpec(pod', pod) /\ Admission!SameSpec(pod, stored) =>
             Admission!SameSpec(pod', stored)
        BY DEF Admission!SameSpec
    <3> QED
        BY <2>1, <2>2, <2>3, <3>1, <3>2, <3>3, <3>4, Zenon DEF Adds
  <2>7. UpdateInv'
      BY <1>0, <1>1, <1>2, <2>5, <2>6 DEF UpdateInv
  <2>8. AskInv'
      BY <1>0, <1>1, <1>2, <2>2 DEF AskInv
  <2> QED
      BY <2>7, <2>8
<1> QED
    BY <1>3, <1>4

(* A pod with the same contents.                                           *)
LEMMA SameContentsEquipped ==
    ASSUME NEW p, Equipped(p), NEW q, SameContents(p, q)
    PROVE  Equipped(q) /\ Admission!SameSpec(q, p) /\ \A c : Has(p, c) <=> Has(q, c)
BY Zenon DEF SameContents, Equipped, Has, Admission!SameSpec

(* No step of the webhooks, the owner or the claims breaks the invariants. *)
LEMMA WebhookStepKeeps == ASSUME WebhookInv, Admission!Next PROVE WebhookInv'
<1>0. /\ Sound(request) /\ Sound(pod) /\ Sound(stored) /\ role \in Names
      /\ UpdateInv /\ AskInv /\ AdmissionInv
    BY DEF WebhookInv, AdmissionInv
<1>1. AdmissionInv'
    BY <1>0, AdmissionStepKeeps
<1> USE DEF Admission!worldVars, Admission!podVars
<1>2. CASE Admission!Convert
  <2>1. /\ phase = "convert" /\ phase' \in {"dbproxy", "refused"}
        /\ UNCHANGED <<claims, role, secrets, request, stored, operation>>
      BY <1>2 DEF Admission!Convert
  <2> DEFINE name == Admission!getClaimName(Admission!AskedSecret(pod))
  <2>2. /\ SameContents(pod, pod')
        /\ pod'.claim \in {pod.claim, name}
      BY <1>0, <1>2, ConvertEffect, Zenon DEF SameContents, Sound
  <2>3. /\ Equipped(pod') /\ Admission!SameSpec(pod', pod)
        /\ \A c : Has(pod, c) <=> Has(pod', c)
      BY <1>0, <2>2, SameContentsEquipped DEF UpdateInv
  <2>4. Admission!SameSpec(pod, stored) => Admission!SameSpec(pod', stored)
      BY <2>3 DEF Admission!SameSpec
  <2>5. UpdateInv'
      BY <1>0, <2>1, <2>3, <2>4 DEF UpdateInv
  <2>6. Admission!AskedSecret(pod) = "s1" => pod'.claim \in {pod.claim, "none", "c"}
      BY <2>2 DEF Admission!getClaimName
  <2>7. operation = "create" => pod = request
      BY <1>0, <2>1 DEF AskInv
  <2>8. AskInv'
      BY <1>0, <2>1, <2>6, <2>7 DEF AskInv
  <2> QED
      BY <1>1, <2>5, <2>8 DEF WebhookInv
<1>3. CASE Admission!CallForProxy
    BY <1>1, <1>3, CalledKeeps DEF WebhookInv, Admission!CallForProxy, SideCars
<1>4. CASE Admission!CallForExec
    BY <1>1, <1>4, CalledKeeps DEF WebhookInv, Admission!CallForExec, SideCars
<1>5. CASE Admission!CallAgain
    BY <1>1, <1>5, CalledKeeps DEF WebhookInv, Admission!CallAgain, SideCars
<1>6. CASE Admission!Store
  <2>1. /\ \/ phase' = "refused" /\ stored' = stored
           \/ phase' = "stored" /\ stored' = pod
        /\ UNCHANGED <<claims, role, secrets, request, pod, operation>>
        /\ phase = "store" /\ Admission!SameSpec(pod, pod)
      BY <1>6 DEF Admission!Store, Admission!SameSpec
  <2>2. UpdateInv'
      BY <1>0, <2>1 DEF UpdateInv
  <2>3. AskInv'
      BY <1>0, <2>1 DEF AskInv
  <2> QED
      BY <1>1, <2>2, <2>3 DEF WebhookInv
<1>7. CASE Admission!Resubmit
  <2>1. /\ phase' = "convert" /\ operation = "create" /\ pod' = request
        /\ UNCHANGED <<claims, role, secrets, request, stored, operation>>
      BY <1>7 DEF Admission!Resubmit
  <2>2. UpdateInv'
      BY <1>0, <2>1 DEF UpdateInv
  <2>3. Admission!AskedSecret(request) = "s1" => request.claim = "none"
      BY <1>0 DEF AskInv
  <2>4. AskInv'
      BY <1>0, <2>1, <2>3 DEF AskInv
  <2> QED
      BY <1>1, <2>2, <2>4 DEF WebhookInv
<1>8. CASE Admission!Update
  <2>1. /\ phase' = "convert" /\ operation' = "update" /\ pod' \in Admission!Edits(stored)
        /\ UNCHANGED <<claims, role, secrets, request, stored>>
      BY <1>8 DEF Admission!Update
  <2>2. SameContents(stored, pod')
      BY <1>0, <2>1, EditedPod DEF Sound
  <2>3. /\ Equipped(pod') /\ Admission!SameSpec(pod', stored)
        /\ \A c : Has(stored, c) <=> Has(pod', c)
      BY <1>0, <2>2, SameContentsEquipped DEF UpdateInv
  <2>5. UpdateInv'
      BY <1>0, <2>1, <2>3 DEF UpdateInv
  <2>6. AskInv'
      BY <1>0, <2>1 DEF AskInv
  <2> QED
      BY <1>1, <2>5, <2>6 DEF WebhookInv
<1>9. CASE Admission!Environment
  <2>1. UNCHANGED <<request, pod, stored, phase, operation>>
      BY <1>9 DEF Admission!Environment, Admission!ClaimCreated, Admission!SecretCreated,
         Admission!ClaimDeleted
  <2>2. UpdateInv'
      BY <1>0, <2>1 DEF UpdateInv
  <2>3. AskInv'
      BY <1>0, <2>1 DEF AskInv
  <2> QED
      BY <1>1, <2>2, <2>3 DEF WebhookInv
<1>10. CASE Admission!ConversionIgnored
  <2>1. /\ phase = "convert" /\ phase' = "dbproxy"
        /\ UNCHANGED <<claims, role, secrets, request, pod, stored, operation>>
      BY <1>10 DEF Admission!ConversionIgnored
  <2>2. UpdateInv'
      BY <1>0, <2>1 DEF UpdateInv
  <2>3. AskInv'
      BY <1>0, <2>1 DEF AskInv
  <2> QED
      BY <1>1, <2>2, <2>3 DEF WebhookInv
<1> QED
    BY <1>2, <1>3, <1>4, <1>5, <1>6, <1>7, <1>8, <1>9, <1>10, Zenon
    DEF Admission!Next, Admission!Webhooks

(* A pod is submitted with labels or with the deprecated annotations.      *)
LEMMA RequestMade ==
    ASSUME Init
    PROVE  /\ request.containers = <<>> /\ request.volumes = Admission!NoVolumes
           /\ request.remoteDBDSN \in {"none", "s1", "s2"}
           /\ request.dbSecretPath \in {"none", "s1", "s2"}
           /\ Admission!AskedSecret(request) # "none" => request.claim = "none"
<1> DEFINE Made ==
              /\ request.containers = <<>> /\ request.volumes = Admission!NoVolumes
              /\ request.remoteDBDSN \in {"none", "s1", "s2"}
              /\ request.dbSecretPath \in {"none", "s1", "s2"}
              /\ Admission!AskedSecret(request) # "none" => request.claim = "none"
<1>1. /\ Admission!NoPod \in PodType
      /\ Admission!NoPod.containers = <<>> /\ Admission!NoPod.volumes = Admission!NoVolumes
      /\ Admission!NoPod.remoteDBDSN = "none" /\ Admission!NoPod.dbSecretPath = "none"
      /\ Admission!NoPod.claim = "none"
    BY NoPodSound DEF Admission!NoPod, Sound
<1>2. ASSUME NEW c, NEW k, NEW e, NEW g, NEW a, request = Admission!Labelled(c, k, e, g, a)
      PROVE  Made
    BY <1>1, <1>2 DEF Admission!Labelled, PodType, Admission!AskedSecret
<1>3. ASSUME NEW a, NEW r \in {"none", "s1", "s2"}, NEW d \in {"none", "s1", "s2"},
             request = Admission!Annotated(a, r, d)
      PROVE  Made
    BY <1>1, <1>3 DEF Admission!Annotated, PodType, Admission!AskedSecret
<1>4. \/ \E c, k, e, g, a : request = Admission!Labelled(c, k, e, g, a)
      \/ \E a, r, d : /\ r \in {"none", "s1", "s2"} /\ d \in {"none", "s1", "s2"}
                      /\ request = Admission!Annotated(a, r, d)
  <2>1. request \in Admission!Requests
      BY DEF Init, Admission!Init
  <2> QED
      BY <2>1 DEF Admission!Requests, Admission!Maybe, Admission!Secrets
<1> HIDE DEF Made
<1>5. Made
    BY <1>2, <1>3, <1>4
<1> QED
    BY <1>5 DEF Made

(* Nothing is stored at first.                                             *)
LEMMA NoPodEquipped ==
    Equipped(Admission!NoPod) /\ Admission!AskedSecret(Admission!NoPod) = "none"
BY DEF Equipped, Has, Admission!NoPod, Admission!AskedSecret

(* The invariants hold of every pod that may be submitted.                 *)
LEMMA WebhookInvInit == ASSUME Init PROVE WebhookInv
<1>1. /\ pod = request /\ stored = Admission!NoPod /\ operation = "create" /\ phase = "convert"
    BY DEF Init, Admission!Init
<1>2. Equipped(request)
  <2>1. \A c : ~Has(request, c)
      BY RequestMade DEF Has
  <2> QED
      BY <2>1, Zenon DEF Equipped
<1>3. UpdateInv
    BY <1>1, <1>2, NoPodEquipped DEF UpdateInv
<1>4. AskInv
    BY <1>1, RequestMade DEF AskInv
<1> QED
    BY <1>3, <1>4, AdmissionInvInit DEF WebhookInv

(* A step of the application's pod is one of the webhooks, the start of    *)
(* its containers or nothing to the webhooks.                              *)
LEMMA AdmissionSteps ==
    ASSUME [Next]_vars
    PROVE  Admission!Next \/ Start \/ UNCHANGED admissionVars
BY Zenon DEF Next, Admit, ProxySteps, ExecSteps, SecretChanges, OtherChanges, vars

(* The invariants are inductive.                                           *)
LEMMA WebhookInvKept == ASSUME WebhookInv, [Next]_vars PROVE WebhookInv'
<1>1. CASE Start
  <2>1. /\ request' = Admission!NoPod /\ pod' = Admission!NoPod /\ stored' = Admission!NoPod
        /\ operation' = "create" /\ phase' = "started" /\ role' = "none" /\ secrets' = {}
      BY <1>1 DEF Start
  <2>2. AdmissionInv'
    <3>1. \A c \in SideCars : Asked(stored', c)
        BY <2>1 DEF Asked, Admission!Matches, Admission!NoPod
    <3> QED
        BY <2>1, <3>1, NoPodSound DEF AdmissionInv, Names
  <2>3. UpdateInv'
      BY <2>1, NoPodEquipped DEF UpdateInv
  <2>4. /\ Admission!NoPod.remoteDBDSN = "none" /\ Admission!NoPod.dbSecretPath = "none"
        /\ Admission!NoPod.volumes = Admission!NoVolumes
      BY DEF Admission!NoPod
  <2>5. AskInv'
      BY <2>1, <2>4, NoPodEquipped DEF AskInv
  <2> QED
      BY <2>2, <2>3, <2>5 DEF WebhookInv
<1>2. CASE UNCHANGED admissionVars
  <2>1. AdmissionInv'
      BY <1>2 DEF admissionVars, WebhookInv, AdmissionInv, Asked, Admission!Matches
  <2>2. UpdateInv'
      BY <1>2 DEF admissionVars, WebhookInv, UpdateInv
  <2>3. AskInv'
      BY <1>2 DEF admissionVars, WebhookInv, AskInv
  <2> QED
      BY <2>1, <2>2, <2>3 DEF WebhookInv
<1> QED
    BY <1>1, <1>2, WebhookStepKeeps, AdmissionSteps, Zenon

-----------------------------------------------------------------------------
(* Whatever the updates, reinvocations and changes to the claims: a stored *)
(* pod has, once, each side car its labels ask for, and its volume.        *)
THEOREM StoredPodIsWhole == Spec => []StoredWhole
<1>1. WebhookInv => AdmissionInv
    BY DEF WebhookInv
<1>2. AdmissionInv => StoredWhole
  <2> SUFFICES ASSUME AdmissionInv, NEW c \in SideCars, Admission!Matches(stored, c)
               PROVE  /\ Admission!Contains(stored, c)
                      /\ \A i, j \in DOMAIN stored.containers :
                            stored.containers[i] = c /\ stored.containers[j] = c => i = j
                      /\ stored.volumes[c] # "none"
      BY DEF StoredWhole, Admission!StoredWhole, Admission!SideCars, SideCars
  <2>1. c \in stored.injected /\ Sound(stored)
      BY Zenon DEF AdmissionInv, Asked
  <2>2. stored.containers \in Seq(SideCars)
      BY <2>1, Zenon DEF Sound, PodType
  <2>3. DOMAIN stored.containers = 1..Len(stored.containers)
      BY <2>2
  <2> QED
      BY <2>1, <2>3, Zenon DEF Sound, Has, Admission!Contains
<1> QED
    BY <1>1, <1>2, WebhookInvInit, WebhookInvKept, PTL DEF Spec

(* Updates that are refused.                                               *)
LEMMA RefusedStep ==
    ASSUME WebhookInv, [Next]_vars, phase' = "refused", phase # "refused", operation = "update"
    PROVE  \/ \E c \in pod.enabled : ~Admission!Contains(stored, c)
           \/ pod.enabled # {} /\ ~Admission!ClaimExists(pod.claim)
           \/ Admission!Unconvertible(pod)
           \/ /\ "dsnexec" \in pod.enabled \ pod.injected
              /\ ~pod.config /\ ~pod.dsnexecConfig
<1>0. Sound(pod) /\ Sound(stored) /\ UpdateInv
    BY DEF WebhookInv, AdmissionInv
<1>1. \A c : Admission!Contains(stored, c) <=> Has(stored, c)
    BY <1>0 DEF Admission!Contains, Has, Sound, PodType
<1>2. ASSUME NEW here, NEW sideCar, NEW there \in {"dsnexec", "again", "store"},
             Admission!Called(here, sideCar, there)
      PROVE  \/ pod.enabled # {} /\ ~Admission!ClaimExists(pod.claim)
             \/ /\ "dsnexec" \in pod.enabled \ pod.injected
                /\ ~pod.config /\ ~pod.dsnexecConfig
  <2>1. Admission!Matches(pod, sideCar) /\ Admission!Refused(pod)
      BY <1>2, Zenon DEF Admission!Called
  <2>2. pod.enabled # {}
      BY <2>1 DEF Admission!Matches
  <2>3. Admission!NextSideCars(pod) = {"dsnexec"} => "dsnexec" \in pod.enabled \ pod.injected
      BY DEF Admission!NextSideCars
  <2> QED
      BY <2>1, <2>2, <2>3, Zenon DEF Admission!Refused
<1>3. CASE Admission!Store
    BY <1>0, <1>1, <1>3 DEF Admission!Store, UpdateInv
<1>4. CASE Admission!Convert
    BY <1>4, Zenon DEF Admission!Convert
<1>5. Admission!Next
  <2>1. ~Start /\ ~UNCHANGED admissionVars
      BY DEF Start, admissionVars
  <2> QED
      BY <2>1, AdmissionSteps
<1>6. \/ Admission!Store \/ Admission!Convert
      \/ Admission!CallForProxy \/ Admission!CallForExec \/ Admission!CallAgain
    BY <1>5 DEF Admission!Next, Admission!Webhooks, Admission!ConversionIgnored,
       Admission!Resubmit, Admission!Update, Admission!Environment, Admission!ClaimCreated,
       Admission!SecretCreated, Admission!ClaimDeleted, Admission!podVars
<1> QED
    BY <1>2, <1>3, <1>4, <1>6 DEF Admission!CallForProxy, Admission!CallForExec, Admission!CallAgain

(* For every number of updates and of changes to claims and secrets: an    *)
(* update of a stored pod is refused only where its labels ask for a side  *)
(* car the pod was not created with, its claim is gone, its last labels    *)
(* are dropped from over annotations that lead to no claim, or dsnexec     *)
(* would be added anew without configuration (the conversion's and the     *)
(* defaulter's errors, and that a stored pod's containers cannot change).  *)
THEOREM UpdatesAreRefusedForCause == Spec => UpdateRefusedForCause
<1>1. WebhookInv /\ [Next]_vars =>
         [phase' = "refused" /\ phase # "refused" /\ operation = "update" =>
             \/ \E c \in pod.enabled : ~Admission!Contains(stored, c)
             \/ pod.enabled # {} /\ ~Admission!ClaimExists(pod.claim)
             \/ Admission!Unconvertible(pod)
             \/ /\ "dsnexec" \in pod.enabled \ pod.injected
                /\ ~pod.config /\ ~pod.dsnexecConfig]_Admission!vars
    BY RefusedStep, Zenon
<1> QED
    BY <1>1, WebhookInvInit, WebhookInvKept, PTL
    DEF Spec, UpdateRefusedForCause, Admission!UpdateRefusedForCause

(* A volume is only ever added by the defaulter.                           *)
LEMMA VolumeStep ==
    ASSUME WebhookInv, [Next]_vars, NEW c \in SideCars, operation = "create",
           pod'.volumes[c] \notin {"none", pod.volumes[c]}
    PROVE  /\ pod'.volumes[c] = Admission!getSecretNameClass(pod.claim)
           /\ pod.claim # "none" /\ Admission!ClaimExists(pod.claim)
<1>0. /\ Sound(pod) /\ Sound(stored) /\ role \in Names /\ UpdateInv /\ AskInv
      /\ pod' # pod
    BY DEF WebhookInv, AdmissionInv
<1>1. Admission!NoVolumes[c] = "none" /\ Admission!NoPod.volumes = Admission!NoVolumes
    BY DEF Admission!NoVolumes, Admission!NoPod, Admission!SideCars, SideCars
<1>2. ~Start /\ ~Admission!Resubmit
    BY <1>0, <1>1 DEF Start, Admission!Resubmit, AskInv
<1>3. ~Admission!Convert /\ ~Admission!ConversionIgnored
    BY <1>0, ConvertEffect DEF SameContents, Admission!ConversionIgnored
<1>4. ~Admission!Update
  <2> SUFFICES ASSUME Admission!Update PROVE FALSE
      OBVIOUS
  <2>1. /\ phase = "stored" /\ pod' \in Admission!Edits(stored)
      BY DEF Admission!Update
  <2>4. pod'.volumes = stored.volumes
      BY <1>0, <2>1, EditedPod DEF Sound, SameContents
  <2>5. stored.volumes = pod.volumes
      BY <1>0, <2>1, Zenon DEF UpdateInv, Admission!SameSpec
  <2> QED
      BY <2>4, <2>5
<1>5. \/ Admission!CallForProxy \/ Admission!CallForExec \/ Admission!CallAgain
  <2>1. ~Admission!Store /\ ~Admission!Environment /\ ~UNCHANGED admissionVars
      BY <1>0 DEF Admission!Store, Admission!Environment, Admission!ClaimCreated,
         Admission!SecretCreated, Admission!ClaimDeleted, Admission!podVars, admissionVars
  <2> QED
      BY <1>2, <1>3, <1>4, <2>1, AdmissionSteps, Zenon DEF Admission!Next, Admission!Webhooks
<1>6. PICK here \in {"dbproxy", "dsnexec", "again"}, sideCar \in SideCars,
           there \in {"dsnexec", "again", "store"} : Admission!Called(here, sideCar, there)
    BY <1>5, Zenon
    DEF Admission!CallForProxy, Admission!CallForExec, Admission!CallAgain, SideCars
<1>7. /\ pod.claim # "none" /\ Admission!ClaimExists(pod.claim)
      /\ \E d \in SideCars : pod' = Admission!Inject(pod, d)
    BY <1>0, <1>6, CalledAdds
<1>8. PICK d \in SideCars : pod' = Admission!Inject(pod, d)
    BY <1>7
<1>9. Adds(pod, d, pod')
    BY <1>0, <1>8, InjectAdds, Zenon
<1> QED
    BY <1>7, <1>9 DEF Adds

(* The secret a side car is given.                                         *)
LEMMA MountStep ==
    ASSUME WebhookInv, [Next]_vars, NEW c \in SideCars, operation = "create",
           Admission!AskedFor(c) # "none", pod'.volumes[c] \notin {"none", pod.volumes[c]}
    PROVE  \/ pod'.volumes[c] = Admission!AskedFor(c)
           \/ c = "dbproxy" /\ Admission!NamesTwo
           \/ Admission!NameShared(Admission!AskedFor(c))
<1> DEFINE asked == Admission!AskedFor(c)
<1>1. /\ pod'.volumes[c] = IF pod.claim = role THEN "s2" ELSE "s1"
      /\ pod.claim # "none" /\ (pod.claim \in claims \/ pod.claim = role)
    BY VolumeStep, Zenon DEF Admission!getSecretNameClass, Admission!ClaimExists
<1>2. asked = Admission!AskedSecret(request) \/ (c = "dbproxy" /\ Admission!NamesTwo)
    BY DEF Admission!AskedFor, Admission!AskedSecret, Admission!NamesTwo, SideCars
<1>3. asked \in {"s1", "s2"}
    BY DEF Admission!AskedFor, WebhookInv, AskInv
<1>4. Admission!AskedSecret(request) = "s1" => pod.claim = "c"
    BY <1>1 DEF WebhookInv, AskInv
<1> HIDE DEF asked
<1>5. CASE asked = Admission!AskedSecret(request) /\ asked = "s1"
    BY <1>1, <1>4, <1>5 DEF asked, Admission!NameShared
<1>6. CASE asked = Admission!AskedSecret(request) /\ asked = "s2"
    BY <1>1, <1>6 DEF asked, Admission!NameShared
<1> QED
    BY <1>2, <1>3, <1>5, <1>6

(* For every number of changes to claims and secrets, between the webhooks *)
(* too: the volume that is added for a pod's annotations has the secret    *)
(* they name, unless they name two or a claim and a role claim share the   *)
(* name (convertPod in conversion.go, getSecretNameClass in defaulter.go). *)
THEOREM AskedSecretIsMounted == Spec => MountsAskedSecret
<1>1. WebhookInv /\ [Next]_vars =>
         [\A c \in Admission!SideCars :
             /\ operation = "create" /\ request.enabled = {}
             /\ Admission!AskedFor(c) # "none"
             /\ pod'.volumes[c] \notin {"none", pod.volumes[c]}
             => \/ pod'.volumes[c] = Admission!AskedFor(c)
                \/ c = "dbproxy" /\ Admission!NamesTwo
                \/ Admission!NameShared(Admission!AskedFor(c))]_Admission!vars
    BY MountStep DEF Admission!SideCars, SideCars
<1> QED
    BY <1>1, WebhookInvInit, WebhookInvKept, PTL
    DEF Spec, MountsAskedSecret, Admission!MountsAskedSecret
==============================================================================
