---------------------------- MODULE RefreshTokens ----------------------------
(***************************************************************************)
(* Refresh-token sessions of the IAM service.                              *)
(*                                                                         *)
(* The state is the refresh_tokens table, the HTTP handlers that are       *)
(* serving a login, refresh, logout or logout-all request, and the cookie  *)
(* jars of the browsers that send them.  A handler is one goroutine: each  *)
(* of its calls to the repository is one action, because PostgreSQL runs   *)
(* every statement on its own (there is no transaction around Rotate) and  *)
(* statements of other handlers may run between two calls.                 *)
(*                                                                         *)
(* A raw token, its SHA-256 hash and the row's id are one value of Token:  *)
(* the code draws 32 random bytes, and token_hash is UNIQUE.  A family id  *)
(* is the first token of the family.                                       *)
(***************************************************************************)
EXTENDS Naturals

CONSTANTS
    User,         \* accounts, all active
    Browser,      \* clients with a cookie jar
    Handler,      \* request goroutines; a handler serves requests in turn
    Token,        \* refresh tokens that can ever be drawn
    None,         \* absence of any of these
    CookieScope,  \* the auth endpoints whose path lies under cfg.CookiePath
    MaxFaults     \* bound: failed database calls and lost responses

ASSUME TokensAssumption ==
    /\ None \notin User \union Browser \union Handler \union Token
    /\ CookieScope \subseteq {"refresh", "logout"}
    /\ MaxFaults \in Nat

VARIABLES
    \* the refresh_tokens table
    issued,     \* tokens that have a row
    revoked,    \* rows with revoked_at set
    expired,    \* rows whose expires_at has passed
    owner,      \* user_id of a row
    family,     \* family_id of a row
    \* the handlers
    pc,         \* the call a handler makes next, or "idle"
    op,         \* the request it serves
    client,     \* the browser that sent the request
    user,       \* the account the request is about
    tok,        \* the cookie that the request carried, where it is read
    new,        \* the token in the response
    \* the browsers
    jar,        \* the refresh-token cookie
    jwt,        \* the account of the access token the browser holds
    faults,     \* failures so far, up to MaxFaults
    \* history, read by properties only
    parent,     \* the token a rotation replaced by this one
    maker,      \* the handler that inserted the row
    replayed,   \* families revoked because a revoked token was presented
    signedOut,  \* families of a user at the time of a logout-all
    late,       \* handlers rotating a token that a sweep has just covered
    escaped,    \* tokens those handlers created, and their descendants
    contested,  \* families of which two requests have carried one token
    unanswered  \* cookies revoked by a request of which the answer was lost

db       == <<issued, revoked, expired, owner, family>>
request  == <<op, client, user, tok, contested, unanswered>>
cookies  == <<jar, jwt>>
lineage  == <<parent, maker, escaped>>
sweeps   == <<replayed, signedOut, late>>
vars     == <<db, pc, request, new, cookies, faults, lineage, sweeps>>

Ops == {"login", "refresh", "logout", "logoutAll"}
PCs == {"idle", "createSession", "lookup", "revokeFamily", "revoke", "reissue",
        "logoutLookup", "logoutRevoke", "revokeAll",
        "ok", "failed", "loggedOut", "noCookie"}

Rotating(h) == pc[h] \in {"revoke", "reissue"}
Swept       == replayed \union signedOut

(* What may end a session: a logout-all, two requests with one of its      *)
(* tokens.                                                                 *)
Endings     == signedOut \union contested

(* The handler works with the cookie it has read.                          *)
Carrying(h) == pc[h] \in {"lookup", "revokeFamily", "revoke", "reissue",
                          "logoutLookup", "logoutRevoke"}

(* A request with cookie t is not the first to use it: the token is        *)
(* revoked already, or another handler is about to revoke or replace it.   *)
SentAgain(t) == t \in revoked \/ \E g \in Handler : Carrying(g) /\ tok[g] = t

(* The answer of this handler replaces or clears the cookie it revoked.    *)
Replacing(h) ==
    \/ op[h] = "refresh" /\ pc[h] \in {"reissue", "ok", "failed"}
    \/ op[h] = "logout" /\ pc[h] = "loggedOut"

TypeOK ==
    /\ issued \subseteq Token
    /\ revoked \subseteq issued
    /\ expired \subseteq issued
    /\ owner  \in [Token -> User \union {None}]
    /\ family \in [Token -> Token \union {None}]
    /\ pc     \in [Handler -> PCs]
    /\ op     \in [Handler -> Ops \union {None}]
    /\ client \in [Handler -> Browser \union {None}]
    /\ user   \in [Handler -> User \union {None}]
    /\ tok    \in [Handler -> Token \union {None}]
    /\ new    \in [Handler -> Token \union {None}]
    /\ jar    \in [Browser -> Token \union {None}]
    /\ jwt    \in [Browser -> User \union {None}]
    /\ faults \in 0..MaxFaults
    /\ parent \in [Token -> Token \union {None}]
    /\ maker  \in [Token -> Handler \union {None}]
    /\ replayed  \subseteq Token
    /\ signedOut \subseteq Token
    /\ late      \subseteq Handler
    /\ escaped   \subseteq Token
    /\ contested \subseteq Token
    /\ unanswered \subseteq revoked

Init ==
    /\ issued = {} /\ revoked = {} /\ expired = {}
    /\ owner  = [t \in Token |-> None]
    /\ family = [t \in Token |-> None]
    /\ pc     = [h \in Handler |-> "idle"]
    /\ op     = [h \in Handler |-> None]
    /\ client = [h \in Handler |-> None]
    /\ user   = [h \in Handler |-> None]
    /\ tok    = [h \in Handler |-> None]
    /\ new    = [h \in Handler |-> None]
    /\ jar    = [b \in Browser |-> None]
    /\ jwt    = [b \in Browser |-> None]
    /\ faults = 0
    /\ parent = [t \in Token |-> None]
    /\ maker  = [t \in Token |-> None]
    /\ replayed = {} /\ signedOut = {} /\ late = {} /\ escaped = {}
    /\ contested = {} /\ unanswered = {}

----------------------------------------------------------------------------
(* Steps shared by the handlers.                                           *)

Goto(h, label) == pc' = [pc EXCEPT ![h] = label]

(* A call fails (connection lost, request context cancelled) or a response *)
(* does not reach the browser.  A failed statement may have taken effect.  *)
Fault == faults < MaxFaults /\ faults' = faults + 1

Begin(h, b, label, o, u, t) ==
    /\ pc[h] = "idle"
    /\ Goto(h, label)
    /\ op'     = [op EXCEPT ![h] = o]
    /\ client' = [client EXCEPT ![h] = b]
    /\ user'   = [user EXCEPT ![h] = u]
    /\ tok'    = [tok EXCEPT ![h] = t]
    /\ contested' = IF label \in {"lookup", "logoutLookup"} /\ SentAgain(t)
                    THEN contested \union {family[t]} ELSE contested
    /\ UNCHANGED <<db, new, cookies, faults, lineage, sweeps, unanswered>>

(* INSERT INTO refresh_tokens: row t of user u, in family f, replacing p.  *)
Create(h, t, u, f, p) ==
    /\ t \notin issued
    /\ issued'  = issued \union {t}
    /\ owner'   = [owner EXCEPT ![t] = u]
    /\ family'  = [family EXCEPT ![t] = f]
    /\ parent'  = [parent EXCEPT ![t] = p]
    /\ maker'   = [maker EXCEPT ![t] = h]
    /\ escaped' = IF h \in late \/ p \in escaped
                  THEN escaped \union {t} ELSE escaped
    /\ UNCHANGED <<revoked, expired>>

(* UPDATE ... SET revoked_at WHERE ... AND revoked_at IS NULL: how many    *)
(* rows it changed is not looked at.                                       *)
Revoke(T) ==
    /\ revoked' = revoked \union T
    /\ UNCHANGED <<issued, expired, owner, family, lineage>>

(* A revocation of many rows; the rotations of these rows that are past    *)
(* their checks are remembered.                                            *)
Sweep(T) ==
    /\ Revoke(T)
    /\ late' = late \union {g \in Handler : Rotating(g) /\ tok[g] \in T}

----------------------------------------------------------------------------
(* POST /auth/login: the password is right, GenerateRefreshToken stores    *)
(* the first token of a new family.                                        *)

BeginLogin(h, b, u) == Begin(h, b, "createSession", "login", u, None)

CreateSession(h) ==
    /\ pc[h] = "createSession"
    /\ \/ \E t \in Token :
            /\ Create(h, t, user[h], t, None)
            /\ \/ Goto(h, "ok") /\ new' = [new EXCEPT ![h] = t]
                  /\ UNCHANGED faults
               \/ Goto(h, "failed") /\ Fault /\ UNCHANGED new
       \/ Goto(h, "failed") /\ Fault /\ UNCHANGED <<db, lineage, new>>
    /\ UNCHANGED <<request, cookies, sweeps>>

----------------------------------------------------------------------------
(* POST /auth/refresh: Rotate.  Without a cookie the handler answers 401   *)
(* and touches nothing, so only requests that carry one are modelled.      *)

BeginRefresh(h, b) ==
    /\ "refresh" \in CookieScope
    /\ jar[b] # None
    /\ Begin(h, b, "lookup", "refresh", None, jar[b])

(* Mutant: the row is not checked for revoked_at.                          *)
LookupUnchecked(h) ==
    /\ pc[h] = "lookup"
    /\ tok[h] \notin expired
    /\ Goto(h, "revoke")
    /\ UNCHANGED <<db, request, new, cookies, faults, lineage, sweeps>>

(* GetByTokenHash, then IsRevoked and IsExpired on the row it returned.    *)
(* Every cookie has its row: DeleteExpired is never called.                *)
Lookup(h) ==
    /\ pc[h] = "lookup"
    /\ \/ /\ tok[h] \in revoked
          /\ Goto(h, "revokeFamily") /\ UNCHANGED faults
       \/ /\ tok[h] \in expired \ revoked
          /\ Goto(h, "failed") /\ UNCHANGED faults
       \/ /\ tok[h] \in issued \ (revoked \union expired)
          /\ Goto(h, "revoke") /\ UNCHANGED faults
       \/ Goto(h, "failed") /\ Fault
    /\ UNCHANGED <<db, request, new, cookies, lineage, sweeps>>

(* Mutant: only the token that was presented is revoked.                   *)
RevokeFamilyOneRow(h) ==
    /\ pc[h] = "revokeFamily"
    /\ Goto(h, "failed")
    /\ Sweep({tok[h]})
    /\ replayed' = replayed \union {family[tok[h]]}
    /\ UNCHANGED <<request, new, cookies, faults, signedOut>>

(* A revoked token was presented: revoke its family, ignore an error, 401. *)
RevokeFamily(h) ==
    LET f == family[tok[h]] IN
    /\ pc[h] = "revokeFamily"
    /\ Goto(h, "failed")
    /\ \/ /\ Sweep({t \in issued : family[t] = f})
          /\ replayed' = replayed \union {f}
          /\ UNCHANGED faults
       \/ Fault /\ UNCHANGED <<db, replayed, late, lineage>>
    /\ UNCHANGED <<request, new, cookies, signedOut>>

(* Mutant: the error of Revoke is ignored, as RevokeFamily ignores its.    *)
RevokeCurrentIgnored(h) ==
    /\ pc[h] = "revoke"
    /\ Goto(h, "reissue")
    /\ \/ Revoke({tok[h]}) /\ UNCHANGED faults
       \/ Fault /\ UNCHANGED <<db, lineage>>
    /\ UNCHANGED <<request, new, cookies, sweeps>>

(* The row may have been revoked since Lookup: Revoke does not tell.       *)
RevokeCurrent(h) ==
    /\ pc[h] = "revoke"
    /\ \/ Revoke({tok[h]}) /\ Goto(h, "reissue") /\ UNCHANGED faults
       \/ Revoke({tok[h]}) /\ Goto(h, "failed") /\ Fault
       \/ Goto(h, "failed") /\ Fault /\ UNCHANGED <<db, lineage>>
    /\ UNCHANGED <<request, new, cookies, sweeps>>

(* GetByID, GenerateToken and Create: the first two only read, so their    *)
(* failures are those of a Create without effect.                          *)
Reissue(h) ==
    /\ pc[h] = "reissue"
    /\ \/ \E t \in Token :
            /\ Create(h, t, owner[tok[h]], family[tok[h]], tok[h])
            /\ \/ Goto(h, "ok") /\ new' = [new EXCEPT ![h] = t]
                  /\ UNCHANGED faults
               \/ Goto(h, "failed") /\ Fault /\ UNCHANGED new
       \/ Goto(h, "failed") /\ Fault /\ UNCHANGED <<db, lineage, new>>
    /\ UNCHANGED <<request, cookies, sweeps>>

----------------------------------------------------------------------------
(* POST /auth/logout, behind the JWT middleware.  The browser attaches the *)
(* cookie only if the path is in scope; without it the answer is 204.      *)

BeginLogout(h, b) ==
    /\ jwt[b] # None
    /\ IF "logout" \in CookieScope /\ jar[b] # None
       THEN Begin(h, b, "logoutLookup", "logout", jwt[b], jar[b])
       ELSE Begin(h, b, "noCookie", "logout", jwt[b], None)

LogoutLookup(h) ==
    /\ pc[h] = "logoutLookup"
    /\ \/ Goto(h, "logoutRevoke") /\ UNCHANGED faults
       \/ Goto(h, "loggedOut") /\ Fault
    /\ UNCHANGED <<db, request, new, cookies, lineage, sweeps>>

(* The handler discards the error of Logout and clears the cookie anyway.  *)
LogoutRevoke(h) ==
    /\ pc[h] = "logoutRevoke"
    /\ Goto(h, "loggedOut")
    /\ \/ Revoke({tok[h]}) /\ UNCHANGED faults
       \/ Fault /\ UNCHANGED <<db, lineage>>
    /\ UNCHANGED <<request, new, cookies, sweeps>>

(* POST /auth/logout-all: the account is that of the access token.         *)
BeginLogoutAll(h, b) ==
    /\ jwt[b] # None
    /\ Begin(h, b, "revokeAll", "logoutAll", jwt[b], None)

RevokeAll(h) ==
    LET T == {t \in issued : owner[t] = user[h]}
        SweepAll == Sweep(T) /\ signedOut' = signedOut \union {family[t] : t \in T}
    IN
    /\ pc[h] = "revokeAll"
    /\ \/ SweepAll /\ Goto(h, "loggedOut") /\ UNCHANGED faults
       \/ SweepAll /\ Goto(h, "failed") /\ Fault
       \/ Goto(h, "failed") /\ Fault /\ UNCHANGED <<db, signedOut, late, lineage>>
    /\ UNCHANGED <<request, new, cookies, replayed>>

----------------------------------------------------------------------------
(* The response reaches the browser, or is lost and the jar stays as it    *)
(* was: the browser may then send the old cookie again.                    *)

Finish(h) ==
    /\ Goto(h, "idle")
    /\ op'     = [op EXCEPT ![h] = None]
    /\ client' = [client EXCEPT ![h] = None]
    /\ user'   = [user EXCEPT ![h] = None]
    /\ tok'    = [tok EXCEPT ![h] = None]
    /\ new'    = [new EXCEPT ![h] = None]
    /\ late'   = late \ {h}
    /\ UNCHANGED <<db, lineage, replayed, signedOut, contested>>

SetCookie(h, t) ==
    /\ jar' = [jar EXCEPT ![client[h]] = t]
    /\ unanswered' = unanswered \ {jar[client[h]]}

RespondOk(h) ==
    /\ pc[h] = "ok"
    /\ Finish(h)
    /\ SetCookie(h, new[h])
    /\ jwt' = [jwt EXCEPT ![client[h]] = owner[new[h]]]
    /\ UNCHANGED faults

(* Mutant: an error of Refresh leaves the cookie in the jar.               *)
RespondFailedKept(h) ==
    /\ pc[h] = "failed"
    /\ Finish(h)
    /\ UNCHANGED <<cookies, faults, unanswered>>

(* Refresh clears the cookie on every error; login and logout-all do not.  *)
RespondFailed(h) ==
    /\ pc[h] = "failed"
    /\ Finish(h)
    /\ IF op[h] = "refresh" THEN SetCookie(h, None) ELSE UNCHANGED <<jar, unanswered>>
    /\ UNCHANGED <<jwt, faults>>

RespondLoggedOut(h) ==
    /\ pc[h] = "loggedOut"
    /\ Finish(h)
    /\ SetCookie(h, None)
    /\ UNCHANGED <<jwt, faults>>

RespondNoCookie(h) ==
    /\ pc[h] = "noCookie"
    /\ Finish(h)
    /\ UNCHANGED <<cookies, faults, unanswered>>

LoseResponse(h) ==
    /\ pc[h] \in {"ok", "failed", "loggedOut"}
    /\ Finish(h)
    /\ Fault
    /\ unanswered' = IF Replacing(h) /\ tok[h] \in revoked /\ tok[h] = jar[client[h]]
                     THEN unanswered \union {tok[h]} ELSE unanswered
    /\ UNCHANGED cookies

(* Time passes a row's expires_at.  Lookup asks IsRevoked first, so nobody *)
(* sees the time of a revoked row pass.                                    *)
Expire(t) ==
    /\ t \in issued \ (expired \union revoked)
    /\ expired' = expired \union {t}
    /\ UNCHANGED <<issued, revoked, owner, family, pc, request, new, cookies,
                   faults, lineage, sweeps>>

Step(h) ==
    \/ CreateSession(h)
    \/ Lookup(h) \/ RevokeFamily(h) \/ RevokeCurrent(h) \/ Reissue(h)
    \/ LogoutLookup(h) \/ LogoutRevoke(h) \/ RevokeAll(h)
    \/ RespondOk(h) \/ RespondFailed(h) \/ RespondLoggedOut(h)
    \/ RespondNoCookie(h) \/ LoseResponse(h)

Next ==
    \/ \E h \in Handler, b \in Browser :
         \/ \E u \in User : BeginLogin(h, b, u)
         \/ BeginRefresh(h, b)
         \/ BeginLogout(h, b)
         \/ BeginLogoutAll(h, b)
    \/ \E h \in Handler : Step(h)
    \/ \E t \in Token : Expire(t)

Spec == Init /\ [][Next]_vars

----------------------------------------------------------------------------
(* Properties.                                                             *)

(* A token that replaced another is in the table only once the other is    *)
(* revoked, whatever call of Rotate failed: never two usable generations   *)
(* of one session because of a half-done rotation.                         *)
RevokedBeforeReplaced ==
    \A t \in issued : parent[t] # None => parent[t] \in revoked

(* The check of IsRevoked is not atomic with the revocation, so a token    *)
(* may be rotated by several concurrent requests, but each request in      *)
(* flight gains at most one successor: two successors of one token were    *)
(* made by different handlers.  With one handler a token is single-use.    *)
OneSuccessorPerHandler ==
    \A s, t \in issued :
        (parent[s] = parent[t] /\ parent[s] # None /\ s # t)
            => maker[s] # maker[t]

(* After a replay or a logout-all revoked a family, the only usable tokens *)
(* the family can still have come from a rotation that was past its checks *)
(* when the sweep ran, or descend from one that does.                      *)
SweepMissesOnlyInFlight ==
    \A t \in issued \ revoked : family[t] \in Swept => t \in escaped

(* A browser holds a revoked cookie only if its account was logged out     *)
(* everywhere, if some token of its session was carried by two requests,   *)
(* if the answer to the request that revoked the cookie was lost, or if    *)
(* that answer is still to come.  So a call that fails inside Rotate or    *)
(* Logout strands nobody by itself: its answer clears the cookie.  Two     *)
(* tabs that refresh with one cookie may end their session with no fault   *)
(* at all: the later one replays the token, and the family is revoked.     *)
RevokedCookieExplained ==
    \A b \in Browser : jar[b] \in revoked =>
        \/ family[jar[b]] \in Endings
        \/ jar[b] \in unanswered
        \/ \E h \in Handler : Replacing(h) /\ client[h] = b /\ tok[h] = jar[b]

(* What the comment on Rotate and steps 3 to 5 of the design document say: *)
(* a token is exchanged once.                                              *)
SingleUse ==
    \A s, t \in issued :
        (parent[s] = parent[t] /\ parent[s] # None) => s = t

----------------------------------------------------------------------------
(* The inductive invariant behind the theorems of RefreshTokensProofs.     *)

(* Every token a handler works on, answers with or a browser holds has its *)
(* row, and so has the token it replaced and the root of its family.       *)
Known ==
    /\ \A h \in Handler :
         /\ pc[h] \in {"lookup", "revokeFamily", "revoke", "reissue",
                      "logoutLookup", "logoutRevoke"} => tok[h] \in issued
         /\ pc[h] = "ok" => new[h] \in issued
    /\ \A b \in Browser : jar[b] \in issued \union {None}
    /\ \A t \in issued : family[t] \in issued /\ maker[t] \in Handler
    /\ Swept \subseteq issued

(* The tokens of a family belong to one account.                           *)
FamilyHasOneOwner ==
    \A s, t \in issued : family[s] = family[t] => owner[s] = owner[t]

(* What holds of a rotation that is past its checks: it has made no        *)
(* successor yet, it has revoked the token before it makes one, and if the *)
(* family was swept meanwhile the handler is recorded as late.             *)
RotationInFlight ==
    \A h \in Handler : Rotating(h) =>
        /\ pc[h] = "reissue" => tok[h] \in revoked
        /\ \A t \in issued : parent[t] = tok[h] => maker[t] # h
        /\ family[tok[h]] \in Swept => h \in late \/ tok[h] \in escaped

IInv ==
    /\ TypeOK /\ Known
    /\ RevokedBeforeReplaced
    /\ FamilyHasOneOwner
    /\ RotationInFlight
    /\ OneSuccessorPerHandler
    /\ SweepMissesOnlyInFlight

(* A token is in the jar of one browser at most, the one that sends it,    *)
(* and the token of an answer under way is nowhere else.                   *)
CookiesApart ==
    /\ \A b, c \in Browser : jar[b] = jar[c] /\ jar[b] # None => b = c
    /\ \A h \in Handler : tok[h] # None =>
         /\ tok[h] \in issued
         /\ \A b \in Browser : jar[b] = tok[h] => client[h] = b
         /\ \A g \in Handler : tok[g] = tok[h] => client[g] = client[h]
    /\ \A h \in Handler : pc[h] = "ok" =>
         /\ \A b \in Browser : jar[b] # new[h]
         /\ \A g \in Handler : tok[g] # new[h] /\ (pc[g] = "ok" /\ new[g] = new[h] => g = h)

(* A handler that works with a cookie serves the request that brought it;  *)
(* two with one cookie have contested it.                                  *)
CarriersKnown ==
    /\ \A h \in Handler :
         /\ pc[h] \in {"lookup", "revokeFamily", "revoke", "reissue"} => op[h] = "refresh"
         /\ pc[h] \in {"logoutLookup", "logoutRevoke"} => op[h] = "logout"
         /\ pc[h] # "idle" => client[h] \in Browser
    /\ \A g, h \in Handler :
         g # h /\ Carrying(g) /\ Carrying(h) /\ tok[g] = tok[h]
             => family[tok[h]] \in contested

(* A handler that finds its token revoked, a sweep, and an answer with a   *)
(* token that is revoked already: the family was contested or signed out.  *)
RevocationsHaveCause ==
    /\ replayed \subseteq Endings
    /\ \A h \in Handler :
         /\ pc[h] = "lookup" /\ tok[h] \in revoked
                => family[tok[h]] \in Endings
         /\ pc[h] = "revokeFamily" => family[tok[h]] \in Endings
         /\ pc[h] = "ok" /\ new[h] \in revoked
                => family[new[h]] \in Endings

CookieInv ==
    /\ IInv /\ CookiesApart /\ CarriersKnown /\ RevocationsHaveCause
    /\ RevokedCookieExplained
=============================================================================
