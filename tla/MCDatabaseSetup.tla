--------------------------- MODULE MCDatabaseSetup ---------------------------
(* DatabaseSetup with two default extensions, a special one, and a         *)
(* configuration that gains a function.                                    *)
EXTENDS DatabaseSetup
MCConfigs == {[realm |-> "eu", env |-> "dev"],
              [realm |-> "us", env |-> "dev", lifecycle |-> "eu"]}
==============================================================================
