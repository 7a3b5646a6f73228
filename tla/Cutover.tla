------------------------------- MODULE Cutover -------------------------------
(***************************************************************************)
(* What a migration between two databases promises the application, with   *)
(* no mention of how the controller carries it out:                        *)
(*                                                                         *)
(*   - the application is pointed at the target only while the target is a *)
(*     live replica of the source;                                         *)
(*   - the source stops accepting writes only once the application's       *)
(*     secret names the target, so whatever database the secret names is   *)
(*     writable;                                                           *)
(*   - replication is cut only once the source is read-only, and is never  *)
(*     resumed;                                                            *)
(*   - the claim is declared migrated only after all of that.              *)
(***************************************************************************)

VARIABLES
    serving,    \* the database the application's secret names
    srcOpen,    \* the application may write to the source
    link,       \* replication source -> target: "off", "streaming", "cut"
    done        \* the claim's active database is the target

vars == <<serving, srcOpen, link, done>>

TypeOK ==
    /\ serving \in {"source", "target"}
    /\ srcOpen \in BOOLEAN
    /\ link \in {"off", "streaming", "cut"}
    /\ done \in BOOLEAN

Init ==
    /\ serving = "source"
    /\ srcOpen = TRUE
    /\ link = "off"
    /\ done = FALSE

Connect ==
    /\ link = "off"
    /\ link' = "streaming"
    /\ UNCHANGED <<serving, srcOpen, done>>

Reroute ==
    /\ link = "streaming"
    /\ serving' = "target"
    /\ UNCHANGED <<srcOpen, link, done>>

Freeze ==
    /\ link = "streaming"
    /\ serving = "target"
    /\ srcOpen' = FALSE
    /\ UNCHANGED <<serving, link, done>>

Cut ==
    /\ link = "streaming"
    /\ ~srcOpen
    /\ link' = "cut"
    /\ UNCHANGED <<serving, srcOpen, done>>

Finish ==
    /\ link = "cut"
    /\ done' = TRUE
    /\ UNCHANGED <<serving, srcOpen, link>>

Next == Connect \/ Reroute \/ Freeze \/ Cut \/ Finish

Spec == Init /\ [][Next]_vars
=============================================================================
