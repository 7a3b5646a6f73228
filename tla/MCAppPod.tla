------------------------------ MODULE MCAppPod -------------------------------
(* AppPod with the port of the database in each version of the DSN: the    *)
(* ports of the second and the fourth exceed an int16.                     *)
EXTENDS AppPod

Ports == <<5432, 40000, 5433, 32768>>
==============================================================================
