---------------------------- MODULE MCCredentials ----------------------------
(* Credentials with user names that are model values.                      *)
EXTENDS Credentials
CONSTANTS n1, n2

(* A claim on an existing database, before its first reconcile.            *)
MCAdopting == {[mode |-> "existing", fresh |-> TRUE, names |-> {n1}]}

(* ... a new database's claim, and a claim on an existing database whose   *)
(* owner changes its user name.                                            *)
MCStarts ==
    MCAdopting \cup {[mode |-> "new", fresh |-> TRUE, names |-> {n1}],
                     [mode |-> "existing", fresh |-> FALSE, names |-> {n1, n2}]}
==============================================================================
