----------------------------- MODULE OrgContext ------------------------------
(***************************************************************************)
(* Which organization a request is about.  JWTAuth puts the claims of the  *)
(* token into the context, TenantResolver resolves a tenant from header,   *)
(* claim or subdomain, and a permission is then checked through the cache  *)
(* of RbacCache: RequirePermission asks for the organization of the claim, *)
(* a WebSocket connection for one it resolves itself.                      *)
(*                                                                         *)
(* Login and Rotate sign tokens without an organization.  Any party with   *)
(* the HS256 secret can sign others: Foreign are those in circulation.     *)
(* A permission is the sequence of its parts: "org:read" is <<"org",       *)
(* "read">>.                                                               *)
(***************************************************************************)
EXTENDS RbacCache, SequencesExt

CONSTANTS
    NoOrg,       \* uuid.Nil, which is no row of organizations
    Foreign,     \* tokens signed elsewhere: user and organization
    Perm,        \* role -> the permissions it grants, wildcards among them
    Required     \* permissions that routes ask for

AppRead == <<"app", "read">>

ASSUME OrgAssumption ==
    /\ NoOrg \in Org
    /\ Foreign \subseteq User \X Org

VARIABLES
    tokens,      \* tokens that ValidateToken accepts
    via,         \* reader -> "route" or "socket"
    bearer,      \* reader -> user and organization of its token
    tenant,      \* reader -> ContextKeyTenantID, NoOrg if not set
    need,        \* reader -> the permission asked for
    \* history, read by properties only
    held,        \* reader -> the user's roles in the tenant when it arrived
    erred,       \* readers whose check ended with an error
    misled       \* readers that were answered from a stale entry or a cut list

ctxVars == <<tokens, via, bearer, tenant, need, held, erred, misled>>
orgVars == <<vars, ctxVars>>

OrgTypeOK ==
    /\ TypeOK
    /\ tokens \subseteq User \X Org
    /\ via    \in [Reader -> {"route", "socket"}]
    /\ bearer \in [Reader -> (User \X Org) \union {None}]
    /\ tenant \in [Reader -> Org]
    /\ need   \in [Reader -> Required \union {AppRead}]
    /\ held   \in [Reader -> SUBSET Role]
    /\ erred \subseteq Reader /\ misled \subseteq Reader

OrgInit ==
    /\ Init
    /\ tokens = Foreign
    /\ via    = [r \in Reader |-> "route"]
    /\ bearer = [r \in Reader |-> None]
    /\ tenant = [r \in Reader |-> NoOrg]
    /\ need   = [r \in Reader |-> AppRead]
    /\ held   = [r \in Reader |-> {}]
    /\ erred = {} /\ misled = {}

----------------------------------------------------------------------------
(* matchesPermission.                                                      *)
Matches(granted, required) ==
    \/ granted = required
    \/ granted = <<"*">>
    \/ Last(granted) = "*" /\ Len(granted) > 1 /\ IsPrefix(Front(granted), required)
    \/ granted = <<"*", "read">> /\ Len(required) > 1 /\ Last(required) = "read"

(* HasPermission, over the permissions GetUserPermissions has returned.    *)
Has(roles, required) ==
    \E role \in roles : \E granted \in Perm[role] : Matches(granted, required)

(* TenantResolver: the first of header, claim and the organization whose   *)
(* slug is the subdomain that is not uuid.Nil.                             *)
Resolve(header, claim, subdomain) ==
    IF header # NoOrg THEN header
    ELSE IF claim # NoOrg THEN claim ELSE subdomain

(* resolveOrgID of the connection's handler: header, claim, tenant.        *)
OrgOfConnection(header, claim, resolved) ==
    IF header # NoOrg THEN header
    ELSE IF claim # NoOrg THEN claim ELSE resolved

----------------------------------------------------------------------------
GenerateToken(u, org) == tokens' = tokens \union {<<u, org>>}

(* The signature is right; nobody looks at the issuer, and that a token    *)
(* expires is left out.                                                    *)
ValidateToken(t) == t \in tokens

(* Login, and Rotate with each new pair, signs a token that names no       *)
(* organization.                                                           *)
Login(u) ==
    /\ GenerateToken(u, NoOrg)
    /\ UNCHANGED <<vars, via, bearer, tenant, need, held, erred, misled>>

(* JWTAuth and TenantResolver, in front of every protected route.          *)
Authenticated(r, t, header, subdomain) ==
    LET resolved == Resolve(header, t[2], subdomain) IN
    /\ ValidateToken(t)
    /\ bearer' = [bearer EXCEPT ![r] = t]
    /\ tenant' = [tenant EXCEPT ![r] = resolved]
    /\ held' = [held EXCEPT ![r] = db[<<t[1], resolved>>]]
    /\ UNCHANGED <<tokens, erred, misled>>

(* A route with RequirePermission asks for the organization of the claim,  *)
(* also when that is uuid.Nil.                                             *)
Route(r, t, header, subdomain, permission) ==
    /\ Authenticated(r, t, header, subdomain)
    /\ via' = [via EXCEPT ![r] = "route"]
    /\ need' = [need EXCEPT ![r] = permission]
    /\ Check(r, t)

(* Mutant: the connection is checked for the organization of the claim.    *)
ConnectClaim(r, t, header, subdomain, appOrg) ==
    /\ Authenticated(r, t, header, subdomain)
    /\ appOrg = Resolve(header, t[2], subdomain)
    /\ via' = [via EXCEPT ![r] = "socket"]
    /\ need' = [need EXCEPT ![r] = AppRead]
    /\ Check(r, t)

(* A connection is turned away, before any permission is asked for, if it  *)
(* has no organization, if the app is of another one or inactive, or if    *)
(* GetByID does not return it.  Such a refusal changes no state; here is   *)
(* what happens to the other connections.                                  *)
ValidateConnect(r, user, org, appOrg) ==
    /\ org # NoOrg
    /\ appOrg = org
    /\ need' = [need EXCEPT ![r] = AppRead]
    /\ Check(r, <<user, org>>)

Connect(r, t, header, subdomain, appOrg) ==
    LET org == OrgOfConnection(header, t[2], Resolve(header, t[2], subdomain)) IN
    /\ Authenticated(r, t, header, subdomain)
    /\ via' = [via EXCEPT ![r] = "socket"]
    /\ ValidateConnect(r, t[1], org, appOrg)

(* HasPermission.                                                          *)
HasPermission(r) ==
    /\ \/ GetHit(r) /\ misled' = (IF Stale(key[r]) THEN misled \union {r} ELSE misled)
                    /\ UNCHANGED erred
       \/ QueryCut(r) /\ misled' = misled \union {r} /\ UNCHANGED erred
       \/ QueryFails(r) /\ erred' = erred \union {r} /\ UNCHANGED misled
       \/ /\ GetMiss(r) \/ Query(r) \/ SetEntry(r) \/ SetFails(r)
          /\ UNCHANGED <<erred, misled>>
    /\ UNCHANGED <<tokens, via, bearer, tenant, need, held>>

(* 403, 500 or the handler; with the request its context ends.             *)
Respond(r) ==
    /\ Answer(r)
    /\ via'    = [via EXCEPT ![r] = "route"]
    /\ bearer' = [bearer EXCEPT ![r] = None]
    /\ tenant' = [tenant EXCEPT ![r] = NoOrg]
    /\ need'   = [need EXCEPT ![r] = AppRead]
    /\ held'   = [held EXCEPT ![r] = {}]
    /\ erred'  = erred \ {r}
    /\ misled' = misled \ {r}
    /\ UNCHANGED tokens

CheckCall(r) == HasPermission(r) \/ Respond(r)

(* user_roles.organization_id references organizations.                    *)
AssignerStep(a) ==
    /\ \/ \E u \in User, o \in Org \ {NoOrg}, role \in Role :
             Assign(a, <<u, o>>, role) \/ AssignFails(a, <<u, o>>, role)
       \/ AssignerCall(a)
    /\ UNCHANGED ctxVars

Expires(k) == TTL(k) /\ UNCHANGED ctxVars

----------------------------------------------------------------------------
OrgNext ==
    \/ \E u \in User : Login(u)
    \/ \E r \in Reader, t \in tokens, header, subdomain \in Org :
          \/ \E p \in Required : Route(r, t, header, subdomain, p)
          \/ \E appOrg \in Org \ {NoOrg} : Connect(r, t, header, subdomain, appOrg)
    \/ \E r \in Reader : CheckCall(r)
    \/ \E a \in Assigner : AssignerStep(a)
    \/ \E k \in Key : Expires(k)

OrgSpec ==
    /\ OrgInit /\ [][OrgNext]_orgVars
    /\ \A r \in Reader : WF_orgVars(CheckCall(r))
    /\ \A a \in Assigner : WF_orgVars(AssignerCall(a) /\ UNCHANGED ctxVars)
    /\ \A k \in Key : WF_orgVars(Expires(k))

----------------------------------------------------------------------------
Denied(r) == pc[r] = "answer" /\ r \notin erred /\ ~Has(perms[r], need[r])

(* A user who, when the request arrived, held a role that allows it in the *)
(* organization the request resolves to is turned away only if a route     *)
(* asked for another organization, that of the token, or if the cache      *)
(* still had a list from before the role, or if the query was cut off.     *)
DeniedExplained ==
    \A r \in Reader :
        Denied(r) /\ Has(held[r], need[r]) =>
            \/ r \in misled
            \/ via[r] = "route" /\ bearer[r][2] # tenant[r]

(* A token that Login or Rotate has signed.                                *)
Own(t) == t[2] = NoOrg /\ t \notin Foreign

(* What the README says of the token of a Login, which Create Organization *)
(* and Create App use as it is: a route with RequirePermission does not    *)
(* turn away a user who holds a role that allows the request in the        *)
(* organization the request names.                                         *)
SavedTokenWorks ==
    \A r \in Reader :
        via[r] = "route" /\ bearer[r] # None /\ Own(bearer[r]) /\ Has(held[r], need[r])
            => ~Denied(r)

(* What the code does instead, in every instance: such a route lets nobody *)
(* in, since roles are given in organizations and these tokens name none.  *)
OwnTokensAdmitNobody ==
    \A r \in Reader :
        pc[r] = "answer" /\ via[r] = "route" /\ bearer[r][2] = NoOrg => perms[r] = {}

----------------------------------------------------------------------------
(* The inductive invariant behind the theorems of OrgContextProofs.        *)
NobodyInNoOrg == \A u \in User : db[<<u, NoOrg>>] = {}

(* A route asks for the organization of the token, a connection for the    *)
(* one that TenantResolver has found, which is also the one it resolves.   *)
AsksForItsOrg ==
    \A r \in Reader : pc[r] # "idle" =>
        /\ bearer[r] \in Key
        /\ key[r] = IF via[r] = "route" THEN bearer[r] ELSE <<bearer[r][1], tenant[r]>>

(* No role is taken away while a request is under way.                     *)
HeldIsGranted ==
    \A r \in Reader : pc[r] # "idle" => held[r] \subseteq db[<<bearer[r][1], tenant[r]>>]

SeenUnlessMisled ==
    \A r \in Reader :
        /\ pc[r] \in {"set", "answer"}
        /\ r \notin erred \union misled
        /\ key[r] = <<bearer[r][1], tenant[r]>>
        => held[r] \subseteq perms[r]

OrgIInv ==
    /\ IInv /\ OrgTypeOK
    /\ NobodyInNoOrg /\ AsksForItsOrg /\ HeldIsGranted /\ SeenUnlessMisled
=============================================================================
