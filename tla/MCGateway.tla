------------------------------ MODULE MCGateway ------------------------------
(* A small instance of Gateway for TLC.                                    *)
EXTENDS Gateway, FiniteSets, TLC

CONSTANTS m1, m2, p1, p2, r1, r2, guarded, open, read

(* The first caller has the permission that the rule "guarded" requires.   *)
SomeGrants == [r \in Caller |-> IF r = r1 THEN {read} ELSE {}]
Requirement == [c \in Rule |-> IF c = guarded THEN read ELSE None]
Limits == [c \in Rule |-> IF c = guarded THEN 2 ELSE 1]

(* Requests that manage, and the rows of policies, are alike.              *)
Alike == Permutations(Admin) \union Permutations(Policy)

(* Bound: at most MaxBusy of the requests are under way at one time.       *)
MaxBusy == 3
Busy == {r \in Caller : at[r] \notin {"idle"} \union Ended}
            \union {a \in Admin : pc[a] # "idle"}
FewBusy == Cardinality(Busy) <= MaxBusy
=============================================================================
