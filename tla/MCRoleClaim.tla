----------------------------- MODULE MCRoleClaim -----------------------------
(* RoleClaim with two roles, of which a schema map asks for at most one.   *)
EXTENDS RoleClaim
CONSTANTS r1, r2
MCMaps == {{}, {r1}, {r2}}

(* Nothing tells the two roles apart.                                      *)
MCFirstMaps == {{}, {r1}}
==============================================================================
