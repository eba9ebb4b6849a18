------------------------------- MODULE Gateway -------------------------------
(***************************************************************************)
(* The policy pipeline that a request to a managed endpoint runs through,  *)
(* while the endpoint and its policies are being managed: the rows it      *)
(* reads in one call may have changed by the next.  The rate limit is a    *)
(* Lua script, one step of Redis, on one counter for all callers.  The     *)
(* process was started with Redis or goes on without it, and then it keeps *)
(* to no rate limit.                                                       *)
(*                                                                         *)
(* HasPermission grants only what the user_roles table grants the caller   *)
(* (RbacCache!NeverMoreThanGranted), and may not know yet of a grant.      *)
(***************************************************************************)
EXTENDS Endpoints

CONSTANTS
    Caller,              \* requests to managed endpoints
    Permission,
    Grants,              \* caller -> the permissions it has been granted
    RequiredPermission,  \* rule -> the permission it requires, or None
    RateLimit            \* rule -> requests per window, 0 for no limit

ASSUME GatewayAssumption ==
    /\ None \notin Permission
    /\ Grants \in [Caller -> SUBSET Permission]
    /\ RequiredPermission \in [Rule -> Permission \union {None}]
    /\ RateLimit \in [Rule -> Nat]

VARIABLES
    at,         \* caller -> the next step of Enforce
    target,     \* caller -> the endpoint its path names
    policy,     \* caller -> content of the policy it has read, or None
    hasRedis,   \* the process has a client for Redis
    count,      \* Redis: endpoint -> requests counted in this window
    expires,    \* Redis: the counters that have a time to live
    \* history, read by properties only
    wasActive,  \* callers whose endpoint was active at some time since
    wasOpen,    \* callers some policy of theirs let through since
    unread,     \* callers whose read of the policy failed
    admitted,   \* endpoint -> requests with a limit that went on in this window
    cap         \* endpoint -> the largest limit that they were held to

gatewayVars == <<at, target, policy, hasRedis, count, expires, wasActive, wasOpen,
                 unread, admitted, cap>>
vars == <<managementVars, gatewayVars>>

Passing == {"policy", "permit", "limit", "backend"}
Ended == {"served", "refused"}

GatewayTypeOK ==
    /\ TypeOK
    /\ at \in [Caller -> {"idle", "lookup"} \union Passing \union Ended]
    /\ target \in [Caller -> Endpoint \union {None}]
    /\ policy \in [Caller -> Rule \union {None}]
    /\ hasRedis \in BOOLEAN
    /\ count \in [Endpoint -> Nat] /\ admitted \in [Endpoint -> Nat]
    /\ cap \in [Endpoint -> Nat]
    /\ expires \subseteq Endpoint
    /\ wasActive \subseteq Caller /\ wasOpen \subseteq Caller
    /\ unread \subseteq Caller

GatewayInit ==
    /\ Init
    /\ at = [r \in Caller |-> "idle"]
    /\ target = [r \in Caller |-> None]
    /\ policy = [r \in Caller |-> None]
    /\ hasRedis \in BOOLEAN
    /\ count = [e \in Endpoint |-> 0]
    /\ admitted = [e \in Endpoint |-> 0]
    /\ cap = [e \in Endpoint |-> 0]
    /\ expires = {} /\ wasActive = {} /\ wasOpen = {} /\ unread = {}

Step(r, label) == at' = [at EXCEPT ![r] = label]

(* The request is answered, by its backend or not.                         *)
Answered(r, label) ==
    /\ Step(r, label)
    /\ policy' = [policy EXCEPT ![r] = None]

rateVars == <<count, expires, admitted, cap>>

(* What the endpoint of a request has shown of itself since it arrived.    *)
UnderWay == {r \in Caller : at[r] \in {"lookup"} \union Passing}
IsActive(r) == status[target[r]] = "active"
LetsThrough(r) ==
    \/ PoliciesOf(target[r]) = {}
    \/ \E p \in PoliciesOf(target[r]) :
          RequiredPermission[rule[p]] \in Grants[r] \union {None}

Observe ==
    /\ wasActive' = (wasActive \union {r \in UnderWay : IsActive(r)}')
                     \ {r \in Caller : at'[r] = "refused"}
    /\ wasOpen' = (wasOpen \union {r \in UnderWay : LetsThrough(r)}')
                   \ {r \in Caller : at'[r] = "refused"}

----------------------------------------------------------------------------
(* Enforce.                                                                *)

(* A request with an X-App-ID outside the paths of shouldSkipPipeline.     *)
Arrive(r, e) ==
    /\ at[r] = "idle"
    /\ target' = [target EXCEPT ![r] = e]
    /\ Step(r, "lookup")
    /\ UNCHANGED <<policy, rateVars, unread, managementVars>>

(* Mutant: IsActive is not asked.                                          *)
LookupAny(r) ==
    /\ at[r] = "lookup" /\ status[target[r]] # "none"
    /\ Step(r, "policy")
    /\ UNCHANGED <<target, policy, rateVars, unread, managementVars>>

(* GetByMethodPath and IsActive.                                           *)
Lookup(r) ==
    /\ at[r] = "lookup" /\ status[target[r]] = "active"
    /\ Step(r, "policy")
    /\ UNCHANGED <<target, policy, rateVars, unread, managementVars>>

(* Not found, or not readable: left to the routes of the router, which     *)
(* answer a path they do not know with 404.                                *)
LookupPasses(r) ==
    /\ at[r] = "lookup"
    /\ \/ status[target[r]] = "none" /\ UNCHANGED managementVars
       \/ /\ Fault
          /\ UNCHANGED <<endpointVars, policyVars, requestVars>>
    /\ Answered(r, "refused")
    /\ UNCHANGED <<target, rateVars, unread>>

LookupGone(r) ==
    /\ at[r] = "lookup" /\ status[target[r]] = "retired"
    /\ Answered(r, "refused")
    /\ UNCHANGED <<target, rateVars, unread, managementVars>>

(* GetByEndpointID: any of the rows; none; or an error, taken for none.    *)
ReadPolicy(r) ==
    /\ at[r] = "policy"
    /\ \/ /\ \E p \in PoliciesOf(target[r]) :
                 policy' = [policy EXCEPT ![r] = rule[p]]
          /\ UNCHANGED <<unread, managementVars>>
       \/ /\ PoliciesOf(target[r]) = {}
          /\ UNCHANGED <<policy, unread, managementVars>>
       \/ /\ Fault
          /\ unread' = unread \union {r}
          /\ UNCHANGED <<policy, endpointVars, policyVars, requestVars>>
    /\ Step(r, "permit")
    /\ UNCHANGED <<target, rateVars>>

Required(r) == IF policy[r] = None THEN None ELSE RequiredPermission[policy[r]]
Limit(r) == IF policy[r] = None THEN 0 ELSE RateLimit[policy[r]]
Limited(r) == Limit(r) > 0 /\ hasRedis

(* Mutant: an error of HasPermission is only logged.                       *)
PermitAnyway(r) ==
    /\ at[r] = "permit"
    /\ Required(r) \in Grants[r] \union {None} \/ faults < MaxFaults
    /\ Step(r, "limit")
    /\ UNCHANGED <<target, policy, rateVars, unread, managementVars>>

Permit(r) ==
    /\ at[r] = "permit"
    /\ Required(r) \in Grants[r] \union {None}
    /\ Step(r, "limit")
    /\ UNCHANGED <<target, policy, rateVars, unread, managementVars>>

(* Not granted, or granted and not yet known to be; or an error.           *)
Forbid(r) ==
    /\ at[r] = "permit" /\ Required(r) # None
    /\ Answered(r, "refused")
    /\ UNCHANGED <<target, rateVars, unread, managementVars>>

(* No limit; or no Redis to count in, and the limit is not kept to.        *)
Unlimited(r) ==
    /\ at[r] = "limit" /\ ~Limited(r)
    /\ admitted' = IF Limit(r) = 0 THEN admitted
                   ELSE [admitted EXCEPT ![target[r]] = @ + 1]
    /\ Step(r, "backend")
    /\ UNCHANGED <<target, policy, count, expires, cap, unread, managementVars>>

(* Mutant: the time to live is set by the second request.                  *)
CountUpExpireLast(e) ==
    /\ count' = [count EXCEPT ![e] = @ + 1]
    /\ expires' = IF count[e] = 1 THEN expires \union {e} ELSE expires

(* INCR, and EXPIRE for the first of a window.                             *)
CountUp(e) ==
    /\ count' = [count EXCEPT ![e] = @ + 1]
    /\ expires' = IF count[e] = 0 THEN expires \union {e} ELSE expires

(* Mutant: the script compares with >.                                     *)
AdmitOneMore(r) ==
    /\ at[r] = "limit" /\ Limited(r)
    /\ count[target[r]] <= Limit(r)
    /\ CountUp(target[r])
    /\ admitted' = [admitted EXCEPT ![target[r]] = @ + 1]
    /\ cap' = [cap EXCEPT ![target[r]] = IF @ < Limit(r) THEN Limit(r) ELSE @]
    /\ Step(r, "backend")
    /\ UNCHANGED <<target, policy, unread, managementVars>>

(* checkRateLimit.                                                         *)
Admit(r) ==
    /\ at[r] = "limit" /\ Limited(r)
    /\ count[target[r]] < Limit(r)
    /\ CountUp(target[r])
    /\ admitted' = [admitted EXCEPT ![target[r]] = @ + 1]
    /\ cap' = [cap EXCEPT ![target[r]] = IF @ < Limit(r) THEN Limit(r) ELSE @]
    /\ Step(r, "backend")
    /\ UNCHANGED <<target, policy, unread, managementVars>>

(* The limit is reached; or Redis fails, before or after the script ran,   *)
(* which is answered in the same way.                                      *)
Refuse(r) ==
    /\ at[r] = "limit" /\ Limited(r)
    /\ \/ count[target[r]] >= Limit(r) /\ UNCHANGED <<count, expires, managementVars>>
       \/ /\ Fault
          /\ \/ UNCHANGED <<count, expires>>
             \/ count[target[r]] < Limit(r) /\ CountUp(target[r])
          /\ UNCHANGED <<endpointVars, policyVars, requestVars>>
    /\ Answered(r, "refused")
    /\ UNCHANGED <<target, admitted, cap, unread>>

(* The interceptors accept it and its backend answers.                     *)
Serve(r) ==
    /\ at[r] = "backend"
    /\ Answered(r, "served")
    /\ UNCHANGED <<target, rateVars, unread, managementVars>>

(* Its body does not meet the schema (400), or its backend fails (502).    *)
ServeFails(r) ==
    /\ at[r] = "backend"
    /\ Answered(r, "refused")
    /\ UNCHANGED <<target, rateVars, unread, managementVars>>

(* Mutant: the end of a window takes the limit off the counter.            *)
WindowEndsByLimit(e) ==
    /\ count[e] > 0 /\ e \in expires
    /\ count' = [count EXCEPT ![e] = @ - cap[e]]
    /\ admitted' = [admitted EXCEPT ![e] = 0]
    /\ cap' = [cap EXCEPT ![e] = 0]
    /\ expires' = expires \ {e}
    /\ UNCHANGED <<at, target, policy, unread, managementVars>>

(* The 60 s of a window pass.                                              *)
WindowEnds(e) ==
    /\ count[e] > 0 /\ e \in expires
    /\ count' = [count EXCEPT ![e] = 0]
    /\ admitted' = [admitted EXCEPT ![e] = 0]
    /\ cap' = [cap EXCEPT ![e] = 0]
    /\ expires' = expires \ {e}
    /\ UNCHANGED <<at, target, policy, unread, managementVars>>

----------------------------------------------------------------------------
Enforce(r) ==
    \/ Lookup(r) \/ LookupPasses(r) \/ LookupGone(r) \/ ReadPolicy(r)
    \/ Permit(r) \/ Forbid(r) \/ Unlimited(r) \/ Admit(r) \/ Refuse(r)
    \/ Serve(r) \/ ServeFails(r)

PipelineNext ==
    \/ \E r \in Caller : Enforce(r) \/ \E e \in Endpoint : Arrive(r, e)
    \/ \E e \in Endpoint : WindowEnds(e)

Manage ==
    /\ ManagementNext
    /\ UNCHANGED <<at, target, policy, rateVars, unread>>

Next == (PipelineNext \/ Manage) /\ Observe /\ UNCHANGED hasRedis

GatewaySpec == GatewayInit /\ [][Next]_vars

----------------------------------------------------------------------------
(* A retired endpoint serves no request but one that overlaps a time when  *)
(* it was active: its status is read once and used until the end.          *)
ServedWhileActive == \A r \in Caller : at[r] = "served" => r \in wasActive

(* No request reaches its backend without a permission that every policy   *)
(* of the endpoint has required since the request arrived, as long as its  *)
(* read of the policy does not fail: a request is then not held to any.    *)
ServedIfLetThrough ==
    \A r \in Caller : at[r] = "served" => r \in wasOpen \union unread

(* With Redis, no more requests with a limit go on in a window than the    *)
(* largest limit that one of them was held to, whatever fails and whoever  *)
(* edits the policy.  A request is held to the limit it has read, which    *)
(* may be from before the window, or from before an edit that lowered it.  *)
WindowWithinLimit == hasRedis => \A e \in Endpoint : admitted[e] <= cap[e]

(* A limit that is reached is lifted: a counter never loses its time to    *)
(* live, so that no endpoint stays refused after the 60 s.                 *)
LimitLifted == \A e \in Endpoint : count[e] > 0 => e \in expires

----------------------------------------------------------------------------
(* The inductive invariant.  What each point of Enforce has behind it, and *)
(* how the counter of Redis bounds what has been let through.              *)
ActiveBehind ==
    \A r \in Caller : at[r] \in Passing \union {"served"} => r \in wasActive

PolicyBehind ==
    \A r \in Caller :
        /\ at[r] = "permit" /\ Required(r) \in Grants[r] \union {None}
              => r \in wasOpen \union unread
        /\ at[r] \in {"limit", "backend", "served"} => r \in wasOpen \union unread

AdmittedWereCounted == hasRedis => \A e \in Endpoint : admitted[e] <= count[e]

TargetsKnown == \A r \in Caller : at[r] # "idle" => target[r] \in Endpoint

PipelineInv ==
    /\ ManagementInv
    /\ GatewayTypeOK /\ TargetsKnown
    /\ ActiveBehind /\ PolicyBehind
    /\ AdmittedWereCounted /\ WindowWithinLimit /\ LimitLifted
=============================================================================
