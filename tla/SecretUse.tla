------------------------------ MODULE SecretUse ------------------------------
(***************************************************************************)
(* What a side car promises about a secret it follows: it uses whole       *)
(* versions the secret has had, and never goes back to an older one; only  *)
(* when it stops does it use none.                                         *)
(***************************************************************************)
EXTENDS Naturals

VARIABLES
    version, \* the secret's version; 0: there is none yet
    used,    \* the version in use; 0: none
    up       \* the side car is up

vars == <<version, used, up>>

Init == version = 0 /\ used = 0 /\ up \in BOOLEAN

Change ==
    /\ version' = version + 1
    /\ UNCHANGED <<used, up>>

Follow ==
    /\ used' \in (used + 1)..version
    /\ up' = TRUE
    /\ UNCHANGED version

Stop ==
    /\ used' = 0 /\ up' = FALSE
    /\ UNCHANGED version

Next == Change \/ Follow \/ Stop

Spec == Init /\ [][Next]_vars
==============================================================================
