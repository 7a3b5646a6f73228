----------------------------- MODULE MCLifecycle -----------------------------
(* Lifecycle with a few requests over two instance classes and versions.   *)
EXTENDS Lifecycle

MCClasses == {"small", "large"}
MCVersions == {<<15>>, <<16, 1>>}
MCDefaultVersion == <<15>>

Request(class, version) ==
    [existing |-> FALSE, source |-> FALSE, class |-> class, version |-> version]

(* A claim that is moved to the next major version and back, and one that  *)
(* starts on a database of its owner.                                      *)
Adopted == [Request("", <<>>) EXCEPT !.existing = TRUE, !.source = TRUE]
MCUpgrades == {Request("small", <<15>>), Request("small", <<16, 1>>), Adopted}

(* A claim that stops naming its instance class.                           *)
MCShapeRemoved == {Request("large", <<>>), Request("", <<>>)}

(* The first set of requests fits the hosts it names, the second does not. *)
ASSUME FitAssumption == RequestsFit <=> Requests # MCShapeRemoved
==============================================================================
