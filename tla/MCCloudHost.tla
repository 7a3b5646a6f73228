----------------------------- MODULE MCCloudHost -----------------------------
(* CloudHost with the bounds of its configuration.                         *)
EXTENDS CloudHost
==============================================================================
