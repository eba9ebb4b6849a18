---------------------------- MODULE MCOrgContext -----------------------------
(* A small instance of OrgContext for TLC.  No symmetry: the run checks      *)
(* liveness.                                                                 *)
EXTENDS OrgContext

CONSTANTS u1, o1, x, y
MCForeign  == {<<u1, o1>>}
MCPerm     == [role \in Role |-> IF role = x THEN {<<"app", "*">>} ELSE {<<"*", "read">>}]
MCRequired == {<<"app", "write">>}
=============================================================================
