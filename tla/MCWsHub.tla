------------------------------- MODULE MCWsHub -------------------------------
(* Small instances of WsHub for TLC.                                       *)
EXTENDS WsHub

CONSTANTS c1, c2, o1, a1, a2

(* Two apps of one organization.                                           *)
TwoScopes == [c \in Client |-> IF c = c2 THEN <<o1, a2>> ELSE <<o1, a1>>]
=============================================================================
