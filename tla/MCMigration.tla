----------------------------- MODULE MCMigration -----------------------------
(***************************************************************************)
(* Small instances of Migration; the pods are interchangeable.             *)
(***************************************************************************)
EXTENDS Migration, TLC

PodSymmetry == Permutations(Pods)
=============================================================================
