------------------------ MODULE RefreshTokensProofs ------------------------
(***************************************************************************)
(* Proofs about RefreshTokens, for any sets of accounts, browsers,         *)
(* handlers and tokens, any cookie scope and any number of faults.         *)
(*                                                                         *)
(* The argument: a token gets a successor only from a handler that read it *)
(* unrevoked and has then revoked it (RotationInFlight).  Whatever the     *)
(* table looks like when such a handler reads the row, the token has no    *)
(* successor yet, because successors exist only for revoked tokens.  There *)
(* is one lemma per action, with one step per conjunct of the inductive    *)
(* invariant IInv the action can disturb.                                  *)
(***************************************************************************)
EXTENDS RefreshTokens, TLAPS

(* The database relations: no successor, owner or sweep changes when a step
   leaves the table, the lineage and the sweeps alone.                     *)
LEMMA TableUntouched ==
  ASSUME IInv, UNCHANGED <<db, lineage, replayed, signedOut>>
  PROVE  /\ RevokedBeforeReplaced' /\ FamilyHasOneOwner'
         /\ OneSuccessorPerHandler' /\ SweepMissesOnlyInFlight'
  BY DEF IInv, db, lineage, RevokedBeforeReplaced, FamilyHasOneOwner,
         OneSuccessorPerHandler, SweepMissesOnlyInFlight, Swept

(* A request arrives with the cookie of the browser's jar. *)
LEMMA BeginStep ==
  ASSUME IInv, NEW h \in Handler, NEW b \in Browser,
         NEW label \in {"createSession", "lookup", "logoutLookup", "revokeAll", "noCookie"},
         NEW o \in Ops, NEW u \in User \union {None}, NEW t \in issued \union {None},
         label \in {"lookup", "logoutLookup"} => t # None, Begin(h, b, label, o, u, t)
  PROVE  IInv'
<1> USE TokensAssumption
    DEF Begin, Goto, db, request, cookies, lineage, sweeps
<1>1. TypeOK'
  BY DEF IInv, TypeOK, PCs, Ops, Known
<1>2. Known'
  BY DEF IInv, Known, TypeOK, Swept
<1>3. /\ RevokedBeforeReplaced' /\ FamilyHasOneOwner'
     /\ OneSuccessorPerHandler' /\ SweepMissesOnlyInFlight'
  BY TableUntouched
<1>4. RotationInFlight'
  BY DEF IInv, TypeOK, RotationInFlight, Rotating, Swept
<1> QED BY <1>1, <1>2, <1>3, <1>4 DEF IInv

(* Login stores the root of a new family: no sweep can have covered it. *)
LEMMA CreateSessionStep ==
  ASSUME IInv, NEW h \in Handler, CreateSession(h)
  PROVE  IInv'
<1> USE TokensAssumption
    DEF CreateSession, Create, Goto, Fault, db, request, cookies, lineage,
        sweeps
<1>1. TypeOK'
  BY DEF IInv, TypeOK, PCs, Ops, Known
<1>2. Known'
  BY DEF IInv, Known, TypeOK, Swept
<1>3. RevokedBeforeReplaced'
  BY DEF IInv, TypeOK, Known, Rotating, RotationInFlight, RevokedBeforeReplaced
<1>4. FamilyHasOneOwner'
  BY DEF IInv, TypeOK, Known, FamilyHasOneOwner
<1>5. RotationInFlight'
  BY DEF IInv, TypeOK, Known, Rotating, RotationInFlight, Swept
<1>6. OneSuccessorPerHandler'
  BY DEF IInv, TypeOK, Known, Rotating, RotationInFlight,
         RevokedBeforeReplaced, OneSuccessorPerHandler
<1>7. SweepMissesOnlyInFlight'
  BY DEF IInv, TypeOK, Known, SweepMissesOnlyInFlight, Swept
<1> QED BY <1>1, <1>2, <1>3, <1>4, <1>5, <1>6, <1>7 DEF IInv

(* Rotate reads its token: if the row is not revoked, nothing replaced it. *)
LEMMA LookupStep ==
  ASSUME IInv, NEW h \in Handler, Lookup(h)
  PROVE  IInv'
<1> USE TokensAssumption
    DEF Lookup, Goto, Fault, db, request, cookies, lineage, sweeps
<1>1. TypeOK'
  BY DEF IInv, TypeOK, PCs, Ops, Known
<1>2. Known'
  BY DEF IInv, Known, TypeOK, Swept
<1>3. /\ RevokedBeforeReplaced' /\ FamilyHasOneOwner'
     /\ OneSuccessorPerHandler' /\ SweepMissesOnlyInFlight'
  BY TableUntouched
<1>4. RotationInFlight'
  BY DEF IInv, TypeOK, Known, Rotating, Swept, RotationInFlight,
         RevokedBeforeReplaced, SweepMissesOnlyInFlight
<1> QED BY <1>1, <1>2, <1>3, <1>4 DEF IInv

(* The sweep after a replay covers a family, and marks its rotations late. *)
LEMMA RevokeFamilyStep ==
  ASSUME IInv, NEW h \in Handler, RevokeFamily(h)
  PROVE  IInv'
<1> USE TokensAssumption
    DEF RevokeFamily, Sweep, Revoke, Goto, Fault, db, request, cookies,
        lineage, sweeps
<1>1. TypeOK'
  BY DEF IInv, TypeOK, PCs, Ops, Known
<1>2. Known'
  BY DEF IInv, Known, TypeOK, Swept
<1>3. RevokedBeforeReplaced'
  BY DEF IInv, RevokedBeforeReplaced
<1>4. FamilyHasOneOwner'
  BY DEF IInv, FamilyHasOneOwner
<1>5. RotationInFlight'
  BY DEF IInv, TypeOK, Known, Rotating, RotationInFlight, Swept, FamilyHasOneOwner
<1>6. OneSuccessorPerHandler'
  BY DEF IInv, OneSuccessorPerHandler
<1>7. SweepMissesOnlyInFlight'
  BY DEF IInv, TypeOK, Known, FamilyHasOneOwner, SweepMissesOnlyInFlight, Swept
<1> QED BY <1>1, <1>2, <1>3, <1>4, <1>5, <1>6, <1>7 DEF IInv

(* Rotate revokes its token. *)
LEMMA RevokeCurrentStep ==
  ASSUME IInv, NEW h \in Handler, RevokeCurrent(h)
  PROVE  IInv'
<1> USE TokensAssumption
    DEF RevokeCurrent, Revoke, Goto, Fault, db, request, cookies, lineage,
        sweeps
<1>1. TypeOK'
  BY DEF IInv, TypeOK, PCs, Ops, Known
<1>2. Known'
  BY DEF IInv, Known, TypeOK, Swept
<1>3. RevokedBeforeReplaced'
  BY DEF IInv, RevokedBeforeReplaced
<1>4. FamilyHasOneOwner'
  BY DEF IInv, FamilyHasOneOwner
<1>5. RotationInFlight'
  BY DEF IInv, TypeOK, Known, Rotating, RotationInFlight, Swept
<1>6. OneSuccessorPerHandler'
  BY DEF IInv, OneSuccessorPerHandler
<1>7. SweepMissesOnlyInFlight'
  BY DEF IInv, SweepMissesOnlyInFlight, Swept
<1> QED BY <1>1, <1>2, <1>3, <1>4, <1>5, <1>6, <1>7 DEF IInv

(* Rotate inserts the successor: its parent is revoked, and this handler has
   made none before; if the family was swept, the successor is escaped. *)
LEMMA ReissueStep ==
  ASSUME IInv, NEW h \in Handler, Reissue(h)
  PROVE  IInv'
<1> USE TokensAssumption
    DEF Reissue, Create, Goto, Fault, db, request, cookies, lineage, sweeps
<1>1. TypeOK'
  BY DEF IInv, TypeOK, PCs, Ops, Known
<1>2. Known'
  BY DEF IInv, Known, TypeOK, Swept
<1>3. RevokedBeforeReplaced'
  BY DEF IInv, TypeOK, Known, Rotating, RotationInFlight, RevokedBeforeReplaced
<1>4. FamilyHasOneOwner'
  <2>1. CASE UNCHANGED <<db, lineage>>
    BY <2>1 DEF IInv, FamilyHasOneOwner
  <2>2. CASE \E t \in Token : Create(h, t, owner[tok[h]], family[tok[h]], tok[h])
    <3>1. PICK t \in Token : Create(h, t, owner[tok[h]], family[tok[h]], tok[h])
      BY <2>2
    <3>2. /\ tok[h] \in issued /\ issued' = issued \union {t}
          /\ family'[t] = family[tok[h]] /\ owner'[t] = owner[tok[h]]
          /\ \A s \in issued : family'[s] = family[s] /\ owner'[s] = owner[s]
      BY <3>1 DEF IInv, TypeOK, Known
    <3>3. \A r, s \in issued : family[r] = family[s] => owner[r] = owner[s]
      BY DEF IInv, FamilyHasOneOwner
    <3> QED BY <3>2, <3>3 DEF FamilyHasOneOwner
  <2> QED BY <2>1, <2>2
<1>5. RotationInFlight'
  BY DEF IInv, TypeOK, Known, Rotating, RotationInFlight, Swept
<1>6. OneSuccessorPerHandler'
  <2>1. CASE UNCHANGED <<db, lineage>>
    BY <2>1 DEF IInv, OneSuccessorPerHandler
  <2>2. CASE \E t \in Token : Create(h, t, owner[tok[h]], family[tok[h]], tok[h])
    <3>1. PICK t \in Token : Create(h, t, owner[tok[h]], family[tok[h]], tok[h])
      BY <2>2
    <3>2. /\ issued' = issued \union {t}
          /\ parent'[t] = tok[h] /\ maker'[t] = h
          /\ \A s \in issued : parent'[s] = parent[s] /\ maker'[s] = maker[s]
      BY <3>1 DEF IInv, TypeOK
    <3>3. \A s \in issued : parent[s] = tok[h] => maker[s] # h
      BY DEF IInv, RotationInFlight, Rotating
    <3>4. \A r, s \in issued :
            parent[r] = parent[s] /\ parent[r] # None /\ r # s => maker[r] # maker[s]
      BY DEF IInv, OneSuccessorPerHandler
    <3> QED BY <3>2, <3>3, <3>4 DEF OneSuccessorPerHandler
  <2> QED BY <2>1, <2>2
<1>7. SweepMissesOnlyInFlight'
  <2>1. /\ tok[h] \in issued
        /\ family[tok[h]] \in Swept => h \in late \/ tok[h] \in escaped
    BY DEF IInv, Known, RotationInFlight, Rotating
  <2>2. \A t \in issued \ revoked : family[t] \in Swept => t \in escaped
    BY DEF IInv, SweepMissesOnlyInFlight
  <2>3. CASE UNCHANGED <<db, lineage>>
    BY <2>2, <2>3 DEF SweepMissesOnlyInFlight, Swept
  <2>4. CASE \E t \in Token : Create(h, t, owner[tok[h]], family[tok[h]], tok[h])
    <3>1. PICK t \in Token : Create(h, t, owner[tok[h]], family[tok[h]], tok[h])
      BY <2>4
    <3>2. /\ issued' = issued \union {t} /\ revoked' = revoked /\ Swept' = Swept
          /\ family'[t] = family[tok[h]] /\ \A s \in issued : family'[s] = family[s]
          /\ escaped \subseteq escaped'
      BY <3>1 DEF IInv, TypeOK, Swept
    <3>3. family[tok[h]] \in Swept => t \in escaped'
      BY <2>1, <3>1
    <3> QED BY <2>2, <3>2, <3>3 DEF SweepMissesOnlyInFlight
  <2> QED BY <2>3, <2>4
<1> QED BY <1>1, <1>2, <1>3, <1>4, <1>5, <1>6, <1>7 DEF IInv

(* Logout reads the row, which leaves the table alone. *)
LEMMA LogoutLookupStep ==
  ASSUME IInv, NEW h \in Handler, LogoutLookup(h)
  PROVE  IInv'
<1> USE TokensAssumption
    DEF LogoutLookup, Goto, Fault, db, request, cookies, lineage, sweeps
<1>1. TypeOK'
  BY DEF IInv, TypeOK, PCs, Ops, Known
<1>2. Known'
  BY DEF IInv, Known, TypeOK, Swept
<1>3. /\ RevokedBeforeReplaced' /\ FamilyHasOneOwner'
     /\ OneSuccessorPerHandler' /\ SweepMissesOnlyInFlight'
  BY TableUntouched
<1>4. RotationInFlight'
  BY DEF IInv, TypeOK, RotationInFlight, Rotating, Swept
<1> QED BY <1>1, <1>2, <1>3, <1>4 DEF IInv

(* Logout revokes one row. *)
LEMMA LogoutRevokeStep ==
  ASSUME IInv, NEW h \in Handler, LogoutRevoke(h)
  PROVE  IInv'
<1> USE TokensAssumption
    DEF LogoutRevoke, Revoke, Goto, Fault, db, request, cookies, lineage,
        sweeps
<1>1. TypeOK'
  BY DEF IInv, TypeOK, PCs, Ops, Known
<1>2. Known'
  BY DEF IInv, Known, TypeOK, Swept
<1>3. RevokedBeforeReplaced'
  BY DEF IInv, RevokedBeforeReplaced
<1>4. FamilyHasOneOwner'
  BY DEF IInv, FamilyHasOneOwner
<1>5. RotationInFlight'
  BY DEF IInv, TypeOK, Known, Rotating, RotationInFlight, Swept
<1>6. OneSuccessorPerHandler'
  BY DEF IInv, OneSuccessorPerHandler
<1>7. SweepMissesOnlyInFlight'
  BY DEF IInv, SweepMissesOnlyInFlight, Swept
<1> QED BY <1>1, <1>2, <1>3, <1>4, <1>5, <1>6, <1>7 DEF IInv

(* Logout-all sweeps the rows of an account: every family it touches is
   covered whole, because a family has one owner. *)
LEMMA RevokeAllStep ==
  ASSUME IInv, NEW h \in Handler, RevokeAll(h)
  PROVE  IInv'
<1> USE TokensAssumption
    DEF RevokeAll, Sweep, Revoke, Goto, Fault, db, request, cookies,
        lineage, sweeps
<1>1. TypeOK'
  BY DEF IInv, TypeOK, PCs, Ops, Known
<1>2. Known'
  BY DEF IInv, Known, TypeOK, Swept
<1>3. RevokedBeforeReplaced'
  BY DEF IInv, RevokedBeforeReplaced
<1>4. FamilyHasOneOwner'
  BY DEF IInv, FamilyHasOneOwner
<1>5. RotationInFlight'
  BY DEF IInv, TypeOK, Known, Rotating, RotationInFlight, Swept, FamilyHasOneOwner
<1>6. OneSuccessorPerHandler'
  BY DEF IInv, OneSuccessorPerHandler
<1>7. SweepMissesOnlyInFlight'
  BY DEF IInv, TypeOK, Known, FamilyHasOneOwner, SweepMissesOnlyInFlight, Swept
<1> QED BY <1>1, <1>2, <1>3, <1>4, <1>5, <1>6, <1>7 DEF IInv

(* The answers change the jar of one browser, and end the request.         *)
LEMMA RespondStep ==
  ASSUME IInv, NEW h \in Handler,
         RespondOk(h) \/ RespondFailed(h) \/ RespondLoggedOut(h)
           \/ RespondNoCookie(h) \/ LoseResponse(h)
  PROVE  IInv'
<1> USE TokensAssumption
    DEF RespondOk, RespondFailed, RespondLoggedOut, RespondNoCookie, LoseResponse,
        Finish, SetCookie, Goto, Fault, db, request, cookies, lineage, sweeps
<1>1. TypeOK'
  <2>1. pc' \in [Handler -> PCs]
    BY DEF IInv, TypeOK, PCs
  <2>2. jar' \in [Browser -> Token \union {None}]
    BY DEF IInv, TypeOK, Known
  <2>3. jwt' \in [Browser -> User \union {None}]
    BY DEF IInv, TypeOK, Known
  <2>4. faults' \in 0..MaxFaults
    BY DEF IInv, TypeOK
  <2> QED BY <2>1, <2>2, <2>3, <2>4 DEF IInv, TypeOK
<1>2. Known'
  BY DEF IInv, Known, TypeOK, Swept
<1>3. /\ RevokedBeforeReplaced' /\ FamilyHasOneOwner'
      /\ OneSuccessorPerHandler' /\ SweepMissesOnlyInFlight'
  BY TableUntouched
<1>4. RotationInFlight'
  BY DEF IInv, TypeOK, RotationInFlight, Rotating, Swept
<1> QED BY <1>1, <1>2, <1>3, <1>4 DEF IInv

(* Expiry is read by Lookup only.                                          *)
LEMMA ExpireStep ==
  ASSUME IInv, NEW t \in Token, Expire(t)
  PROVE  IInv'
  BY DEF IInv, TypeOK, Known, Swept, Rotating, RevokedBeforeReplaced,
         FamilyHasOneOwner, RotationInFlight, OneSuccessorPerHandler,
         SweepMissesOnlyInFlight, Expire, request, cookies, lineage, sweeps

LEMMA InitInv == Init => IInv
  BY TokensAssumption
     DEF Init, IInv, TypeOK, Known, Swept, Rotating, RevokedBeforeReplaced, PCs,
         FamilyHasOneOwner, RotationInFlight, OneSuccessorPerHandler,
         SweepMissesOnlyInFlight

LEMMA StepInv == IInv /\ [Next]_vars => IInv'
<1> SUFFICES ASSUME IInv, [Next]_vars
             PROVE  IInv'
  OBVIOUS
<1>1. ASSUME NEW h \in Handler, NEW b \in Browser, NEW u \in User, BeginLogin(h, b, u)
      PROVE  IInv'
  BY <1>1, BeginStep DEF BeginLogin, Ops
<1>2. ASSUME NEW h \in Handler, NEW b \in Browser, BeginRefresh(h, b)
      PROVE  IInv'
  BY <1>2, BeginStep DEF BeginRefresh, Ops, IInv, Known
<1>3. ASSUME NEW h \in Handler, NEW b \in Browser, BeginLogout(h, b)
      PROVE  IInv'
  BY <1>3, BeginStep DEF BeginLogout, Ops, IInv, Known, TypeOK
<1>4. ASSUME NEW h \in Handler, NEW b \in Browser, BeginLogoutAll(h, b)
      PROVE  IInv'
  BY <1>4, BeginStep DEF BeginLogoutAll, Ops, IInv, Known, TypeOK
<1>5. ASSUME NEW h \in Handler, Step(h)
      PROVE  IInv'
  BY <1>5, CreateSessionStep, LookupStep, RevokeFamilyStep, RevokeCurrentStep,
     ReissueStep, LogoutLookupStep, LogoutRevokeStep, RevokeAllStep, RespondStep
     DEF Step
<1>6. ASSUME NEW t \in Token, Expire(t)
      PROVE  IInv'
  BY <1>6, ExpireStep
<1>7. CASE UNCHANGED vars
  BY <1>7
     DEF IInv, TypeOK, Known, Swept, Rotating, RevokedBeforeReplaced,
         FamilyHasOneOwner, RotationInFlight, OneSuccessorPerHandler,
         SweepMissesOnlyInFlight, vars, db, request, cookies, lineage, sweeps
<1> QED BY <1>1, <1>2, <1>3, <1>4, <1>5, <1>6, <1>7 DEF Next

(* IInv holds in every reachable state.                                    *)
THEOREM Invariance == Spec => []IInv
  BY InitInv, StepInv, PTL DEF Spec

(* The table, the handlers and the jars keep their types.                  *)
THEOREM TypeCorrect == Spec => []TypeOK
<1>1. IInv => TypeOK
  BY DEF IInv
<1> QED BY <1>1, Invariance, PTL

(* Rotate never leaves two usable generations of a session, whichever of   *)
(* its calls fails and whatever runs in between.                           *)
THEOREM RotationSafe == Spec => []RevokedBeforeReplaced
<1>1. IInv => RevokedBeforeReplaced
  BY DEF IInv
<1> QED BY <1>1, Invariance, PTL

(* The successors of a token were made by different concurrent requests,   *)
(* however many there are.                                                 *)
THEOREM SuccessorsBounded == Spec => []OneSuccessorPerHandler
<1>1. IInv => OneSuccessorPerHandler
  BY DEF IInv
<1> QED BY <1>1, Invariance, PTL

(* A server that handles one request at a time never lets a token be       *)
(* exchanged twice.                                                        *)
THEOREM SequentialSingleUse ==
  ASSUME NEW h0, Handler = {h0}
  PROVE  Spec => []SingleUse
<1>1. IInv => SingleUse
  <2> SUFFICES ASSUME IInv, NEW s \in issued, NEW t \in issued,
                      parent[s] = parent[t], parent[s] # None, s # t
               PROVE  FALSE
    BY DEF SingleUse
  <2>1. maker[s] # maker[t]
    BY DEF IInv, OneSuccessorPerHandler
  <2>2. maker[s] = h0 /\ maker[t] = h0
    BY DEF IInv, Known
  <2> QED BY <2>1, <2>2
<1> QED BY <1>1, Invariance, PTL

(* A sweep of a family or an account leaves no usable token but those of   *)
(* rotations in flight, and what descends from them.                       *)
THEOREM SweepBounded == Spec => []SweepMissesOnlyInFlight
<1>1. IInv => SweepMissesOnlyInFlight
  BY DEF IInv
<1> QED BY <1>1, Invariance, PTL

----------------------------------------------------------------------------
(* The cookies of the browsers.                                            *)

(* A request of b that replaces or clears the cookie b still has.          *)
Due(h, b) == Replacing(h) /\ client[h] = b /\ tok[h] = jar[b]

CookieFacts == CookiesApart /\ CarriersKnown /\ RevocationsHaveCause /\ RevokedCookieExplained

LEMMA InitCookies == Init => CookieInv
<1> SUFFICES ASSUME Init PROVE CookieFacts
  BY InitInv DEF CookieInv, CookieFacts
<1>1. revoked = {} /\ replayed = {} /\ \A h \in Handler : pc[h] = "idle" /\ tok[h] = None
  BY DEF Init
<1>2. \A b \in Browser : jar[b] = None
  BY DEF Init
<1> QED BY <1>1, <1>2 DEF CookieFacts, CookiesApart, CarriersKnown, RevocationsHaveCause,
     RevokedCookieExplained, Carrying, Endings

(* A request is sent with the cookie of the jar.  If it is not the first,  *)
(* the family is contested from here on.                                   *)
LEMMA BeginCookies ==
  ASSUME CookieInv, NEW h \in Handler, NEW b \in Browser,
         NEW label \in {"createSession", "lookup", "logoutLookup", "revokeAll", "noCookie"},
         NEW o \in Ops, NEW u \in User \union {None}, NEW t \in {jar[b], None},
         label = "lookup" => o = "refresh", label = "logoutLookup" => o = "logout",
         Begin(h, b, label, o, u, t)
  PROVE  CookieFacts'
<1> USE TokensAssumption DEF CookieInv
<1>1. /\ pc[h] = "idle" /\ pc'[h] = label /\ tok'[h] = t /\ client'[h] = b /\ op'[h] = o
      /\ \A g \in Handler \ {h} : /\ pc'[g] = pc[g] /\ tok'[g] = tok[g]
                                  /\ client'[g] = client[g] /\ op'[g] = op[g]
      /\ UNCHANGED <<issued, revoked, family, new, jar, replayed, signedOut, unanswered>>
  BY DEF Begin, Goto, IInv, TypeOK, db, cookies, sweeps
<1>2. /\ Endings \subseteq Endings' /\ contested \subseteq contested'
      /\ label \in {"lookup", "logoutLookup"} /\ SentAgain(t) => family[t] \in contested'
  BY DEF Begin, sweeps, Endings
<1>3. /\ jar[b] \in issued \union {None}
      /\ \A g \in Handler : pc[g] = "ok" => new[g] \in issued /\ new[g] # None
  BY DEF IInv, Known, TypeOK
<1>4. CookiesApart'
  BY <1>1, <1>3 DEF CookiesApart
<1>5. CarriersKnown'
  <2>1. ASSUME NEW g \in Handler \ {h}, Carrying(g)', Carrying(h)', tok'[g] = tok'[h]
        PROVE  family[t] \in contested'
    <3>1. label \in {"lookup", "logoutLookup"} /\ Carrying(g) /\ tok[g] = t
      BY <1>1, <2>1 DEF Carrying
    <3> QED BY <1>2, <3>1 DEF SentAgain
  <2>2. ASSUME NEW g \in Handler, NEW i \in Handler, g # i, Carrying(g)', Carrying(i)',
               tok'[g] = tok'[i]
        PROVE  family'[tok'[i]] \in contested'
    <3>1. CASE g = h \/ i = h
      BY <1>1, <2>1, <2>2, <3>1
    <3>2. CASE g # h /\ i # h
      <4>1. Carrying(g) /\ Carrying(i) /\ tok[g] = tok[i] /\ tok'[i] = tok[i]
        BY <1>1, <2>2, <3>2 DEF Carrying
      <4> QED BY <1>1, <1>2, <2>2, <4>1 DEF CarriersKnown
    <3> QED BY <3>1, <3>2
  <2>3. ASSUME NEW g \in Handler
        PROVE  /\ pc'[g] \in {"lookup", "revokeFamily", "revoke", "reissue"} => op'[g] = "refresh"
               /\ pc'[g] \in {"logoutLookup", "logoutRevoke"} => op'[g] = "logout"
               /\ pc'[g] # "idle" => client'[g] \in Browser
    BY <1>1 DEF CarriersKnown
  <2> QED BY <2>2, <2>3 DEF CarriersKnown
<1>6. RevocationsHaveCause'
  <2>1. t \in revoked /\ label = "lookup" => family[t] \in Endings'
    BY <1>2 DEF SentAgain, Endings
  <2>2. ASSUME NEW g \in Handler
        PROVE  /\ pc'[g] = "lookup" /\ tok'[g] \in revoked => family[tok'[g]] \in Endings'
               /\ pc'[g] = "revokeFamily" => family[tok'[g]] \in Endings'
               /\ pc'[g] = "ok" /\ new[g] \in revoked => family[new[g]] \in Endings'
    BY <1>1, <1>2, <2>1 DEF RevocationsHaveCause
  <2> QED BY <1>1, <1>2, <2>2 DEF RevocationsHaveCause
<1>7. RevokedCookieExplained'
  <2> SUFFICES ASSUME NEW c \in Browser, jar[c] \in revoked
               PROVE  \/ family[jar[c]] \in Endings' \/ jar[c] \in unanswered
                      \/ \E g \in Handler : Due(g, c)'
    BY <1>1 DEF RevokedCookieExplained, Due
  <2>1. family[jar[c]] \in Endings \/ jar[c] \in unanswered \/ \E g \in Handler : Due(g, c)
    BY DEF RevokedCookieExplained, Due
  <2>2. ASSUME NEW g \in Handler, Due(g, c) PROVE Due(g, c)'
    <3>1. g # h
      BY <1>1, <2>2 DEF Due, Replacing
    <3> QED BY <1>1, <2>2, <3>1 DEF Due, Replacing
  <2> QED BY <1>2, <2>1, <2>2
<1> QED BY <1>4, <1>5, <1>6, <1>7 DEF CookieFacts

(* A row is inserted and, unless a call fails, is the answer's.            *)
LEMMA CreateCookies ==
  ASSUME CookieInv, NEW h \in Handler, CreateSession(h) \/ Reissue(h)
  PROVE  CookieFacts'
<1> USE TokensAssumption DEF CookieInv
<1>1. /\ pc[h] \in {"createSession", "reissue"}
      /\ \A g \in Handler \ {h} : pc'[g] = pc[g] /\ new'[g] = new[g]
      /\ UNCHANGED <<revoked, tok, client, op, jar, replayed, signedOut, contested, unanswered>>
      /\ pc'[h] \in {"ok", "failed"}
      /\ pc'[h] = "ok" => new'[h] \notin issued
      /\ \A s \in issued : s \in issued' /\ family'[s] = family[s]
      /\ revoked \subseteq issued
  <2>1. /\ pc \in [Handler -> PCs] /\ new \in [Handler -> Token \union {None}]
        /\ family \in [Token -> Token \union {None}] /\ issued \subseteq Token
        /\ revoked \subseteq issued
    BY DEF IInv, TypeOK
  <2>2. CASE CreateSession(h)
    BY <2>1, <2>2 DEF CreateSession, Create, Goto, Fault, db, lineage, request, cookies, sweeps
  <2>3. CASE Reissue(h)
    BY <2>1, <2>3 DEF Reissue, Create, Goto, Fault, db, lineage, request, cookies, sweeps
  <2> QED BY <2>2, <2>3
<1>2. /\ \A b \in Browser : jar[b] \in issued \union {None}
      /\ \A g \in Handler : tok[g] \in issued \union {None}
      /\ \A g \in Handler : Carrying(g) => tok[g] \in issued
      /\ \A g \in Handler : pc[g] = "ok" => new[g] \in issued
  BY DEF IInv, Known, CookiesApart, Carrying
<1>3. pc'[h] = "ok" => new'[h] # None
  <2>1. new' \in [Handler -> Token \union {None}] /\ (pc'[h] = "ok" => new'[h] \in issued')
    BY StepInv DEF Step, Next, IInv, TypeOK, Known
  <2>2. None \notin issued'
    BY StepInv DEF Step, Next, IInv, TypeOK
  <2> QED BY <2>1, <2>2
<1>4. CookiesApart'
  BY <1>1, <1>2, <1>3 DEF CookiesApart
<1>5. Endings' = Endings
  BY <1>1 DEF Endings
<1>6. CarriersKnown'
  <2>1. \A g \in Handler : Carrying(g)' => Carrying(g) /\ g # h
    BY <1>1 DEF Carrying
  <2>2. ASSUME NEW g \in Handler
        PROVE  /\ pc'[g] \in {"lookup", "revokeFamily", "revoke", "reissue"} => op[g] = "refresh"
               /\ pc'[g] \in {"logoutLookup", "logoutRevoke"} => op[g] = "logout"
               /\ pc'[g] # "idle" => client[g] \in Browser
    BY <1>1 DEF CarriersKnown
  <2>3. ASSUME NEW g \in Handler, NEW i \in Handler, g # i, Carrying(g)', Carrying(i)',
               tok[g] = tok[i]
        PROVE  family'[tok[i]] \in contested
    <3>1. family[tok[i]] \in contested
      BY <2>1, <2>3 DEF CarriersKnown
    <3> QED BY <1>1, <1>2, <2>1, <2>3, <3>1
  <2> QED BY <1>1, <2>2, <2>3 DEF CarriersKnown
<1>7. RevocationsHaveCause'
  <2> SUFFICES ASSUME NEW g \in Handler
               PROVE  /\ pc'[g] = "lookup" /\ tok[g] \in revoked => family'[tok[g]] \in Endings
                      /\ pc'[g] = "revokeFamily" => family'[tok[g]] \in Endings
                      /\ pc'[g] = "ok" /\ new'[g] \in revoked => family'[new'[g]] \in Endings
    BY <1>1, <1>5 DEF RevocationsHaveCause
  <2>1. CASE g = h
    BY <1>1, <2>1
  <2>2. CASE g # h
    <3>1. pc[g] \in {"lookup", "revokeFamily"} => tok[g] \in issued
      BY <1>2 DEF Carrying
    <3> QED BY <1>1, <1>2, <2>2, <3>1 DEF RevocationsHaveCause
  <2> QED BY <2>1, <2>2
<1>8. RevokedCookieExplained'
  <2> SUFFICES ASSUME NEW c \in Browser, jar[c] \in revoked
               PROVE  \/ family'[jar[c]] \in Endings \/ jar[c] \in unanswered
                      \/ \E g \in Handler : Due(g, c)'
    BY <1>1, <1>5 DEF RevokedCookieExplained, Due
  <2>1. family[jar[c]] \in Endings \/ jar[c] \in unanswered \/ \E g \in Handler : Due(g, c)
    BY DEF RevokedCookieExplained, Due
  <2>2. ASSUME NEW g \in Handler, Due(g, c) PROVE Due(g, c)'
    BY <1>1, <2>2 DEF Due, Replacing
  <2> QED BY <1>1, <2>1, <2>2
<1> QED BY <1>4, <1>6, <1>7, <1>8 DEF CookieFacts

(* A handler that reads, revokes or sweeps: the rows it revokes are of a   *)
(* family with an ending, or are the one row of a cookie that its answer   *)
(* replaces or clears.                                                     *)
LEMMA RevokeCookies ==
  ASSUME CookieInv, NEW h \in Handler,
         \/ Lookup(h) \/ RevokeFamily(h) \/ RevokeCurrent(h)
         \/ LogoutLookup(h) \/ LogoutRevoke(h) \/ RevokeAll(h)
  PROVE  CookieFacts'
<1> USE TokensAssumption DEF CookieInv
<1>1. /\ \A g \in Handler \ {h} : pc'[g] = pc[g]
      /\ UNCHANGED <<issued, family, new, tok, client, op, jar, contested, unanswered>>
      /\ signedOut \subseteq signedOut'
      /\ pc'[h] # "ok" /\ pc[h] # "ok"
      /\ pc[h] \notin {"reissue", "failed", "loggedOut"}
      /\ pc[h] # "idle" /\ pc'[h] # "lookup" /\ (Carrying(h)' => Carrying(h))
      /\ pc'[h] \in {"revokeFamily", "revoke", "reissue"} => op[h] = "refresh"
      /\ pc'[h] \in {"logoutLookup", "logoutRevoke"} => op[h] = "logout"
      /\ pc'[h] = "revokeFamily" => family[tok[h]] \in Endings
      /\ replayed' \subseteq replayed \union Endings
  <2>1. pc \in [Handler -> PCs]
    BY DEF IInv, TypeOK
  <2>2. /\ pc[h] \in {"lookup", "revokeFamily", "revoke", "reissue"} => op[h] = "refresh"
        /\ pc[h] \in {"logoutLookup", "logoutRevoke"} => op[h] = "logout"
    BY DEF CarriersKnown
  <2>3. /\ pc[h] = "lookup" /\ tok[h] \in revoked => family[tok[h]] \in Endings
        /\ pc[h] = "revokeFamily" => family[tok[h]] \in Endings
    BY DEF RevocationsHaveCause
  <2>4. CASE Lookup(h)
    BY <2>1, <2>2, <2>3, <2>4 DEF Lookup, Goto, db, request, cookies, lineage, sweeps, Carrying
  <2>5. CASE LogoutLookup(h)
    BY <2>1, <2>2, <2>5 DEF LogoutLookup, Goto, db, request, cookies, lineage, sweeps, Carrying
  <2>6. CASE RevokeFamily(h)
    BY <2>1, <2>2, <2>3, <2>6 DEF RevokeFamily, Sweep, Revoke, Goto, db, request, cookies,
       lineage, sweeps, Carrying
  <2>7. CASE RevokeAll(h)
    BY <2>1, <2>7 DEF RevokeAll, Sweep, Revoke, Goto, db, request, cookies, lineage, sweeps, Carrying
  <2>8. CASE RevokeCurrent(h)
    BY <2>1, <2>2, <2>8 DEF RevokeCurrent, Revoke, Goto, db, request, cookies, lineage, sweeps, Carrying
  <2>9. CASE LogoutRevoke(h)
    BY <2>1, <2>2, <2>9 DEF LogoutRevoke, Revoke, Goto, db, request, cookies, lineage, sweeps, Carrying
  <2> QED BY <2>4, <2>5, <2>6, <2>7, <2>8, <2>9
<1>2. \A t \in revoked' \ revoked :
        family[t] \in Endings' \/ (t = tok[h] /\ Carrying(h) /\ Replacing(h)')
  <2>1. pc \in [Handler -> PCs]
    BY DEF IInv, TypeOK
  <2>2. CASE Lookup(h) \/ LogoutLookup(h)
    BY <2>2 DEF Lookup, LogoutLookup, db
  <2>3. CASE RevokeFamily(h)
    <3>1. family[tok[h]] \in Endings /\ Endings \subseteq Endings'
      BY <1>1, <2>3 DEF RevokeFamily, RevocationsHaveCause, Endings
    <3> QED BY <2>3, <3>1 DEF RevokeFamily, Sweep, Revoke, db
  <2>4. CASE RevokeAll(h)
    BY <2>4 DEF RevokeAll, Sweep, Revoke, db, Endings
  <2>5. CASE RevokeCurrent(h)
    <3>1. op'[h] = "refresh" /\ Carrying(h)
      BY <1>1, <2>5 DEF RevokeCurrent, CarriersKnown, Carrying
    <3> QED BY <2>1, <2>5, <3>1 DEF RevokeCurrent, Revoke, Goto, db, Replacing
  <2>6. CASE LogoutRevoke(h)
    <3>1. op'[h] = "logout" /\ Carrying(h)
      BY <1>1, <2>6 DEF LogoutRevoke, CarriersKnown, Carrying
    <3> QED BY <2>1, <2>6, <3>1 DEF LogoutRevoke, Revoke, Goto, db, Replacing
  <2> QED BY <2>2, <2>3, <2>4, <2>5, <2>6
<1>3. Endings \subseteq Endings'
  BY <1>1 DEF Endings
<1>4. CookiesApart'
  BY <1>1 DEF CookiesApart
<1>5. CarriersKnown'
  <2>1. \A g \in Handler : Carrying(g)' => Carrying(g)
    BY <1>1 DEF Carrying
  <2>2. ASSUME NEW g \in Handler
        PROVE  /\ pc'[g] \in {"lookup", "revokeFamily", "revoke", "reissue"} => op[g] = "refresh"
               /\ pc'[g] \in {"logoutLookup", "logoutRevoke"} => op[g] = "logout"
               /\ pc'[g] # "idle" => client[g] \in Browser
    BY <1>1 DEF CarriersKnown
  <2> QED BY <1>1, <2>1, <2>2 DEF CarriersKnown
<1>6. RevocationsHaveCause'
  <2> SUFFICES ASSUME NEW g \in Handler
               PROVE  /\ pc'[g] = "lookup" /\ tok[g] \in revoked' => family[tok[g]] \in Endings'
                      /\ pc'[g] = "revokeFamily" => family[tok[g]] \in Endings'
                      /\ pc'[g] = "ok" /\ new[g] \in revoked' => family[new[g]] \in Endings'
    BY <1>1, <1>3 DEF RevocationsHaveCause
  <2>1. CASE g = h
    BY <1>1, <1>3, <2>1
  <2>2. CASE g # h
    <3>1. ASSUME pc[g] = "lookup", tok[g] \in revoked' PROVE family[tok[g]] \in Endings'
      <4>1. tok[g] = tok[h] /\ Carrying(h) => family[tok[g]] \in contested
        BY <2>2, <3>1 DEF CarriersKnown, Carrying
      <4> QED BY <1>2, <1>3, <3>1, <4>1 DEF RevocationsHaveCause, Endings
    <3>2. ASSUME pc[g] = "ok", new[g] \in revoked' PROVE family[new[g]] \in Endings'
      <4>1. new[g] # tok[h]
        BY <3>2 DEF CookiesApart
      <4> QED BY <1>2, <1>3, <3>2, <4>1 DEF RevocationsHaveCause
    <3> QED BY <1>1, <1>3, <2>2, <3>1, <3>2 DEF RevocationsHaveCause
  <2> QED BY <2>1, <2>2
<1>7. RevokedCookieExplained'
  <2> SUFFICES ASSUME NEW c \in Browser, jar[c] \in revoked'
               PROVE  \/ family[jar[c]] \in Endings' \/ jar[c] \in unanswered
                      \/ \E g \in Handler : Due(g, c)'
    BY <1>1 DEF RevokedCookieExplained, Due
  <2>1. CASE jar[c] \in revoked
    <3>1. family[jar[c]] \in Endings \/ jar[c] \in unanswered \/ \E g \in Handler : Due(g, c)
      BY <2>1 DEF RevokedCookieExplained, Due
    <3>2. ASSUME NEW g \in Handler, Due(g, c) PROVE Due(g, c)'
      <4>1. g # h
        BY <1>1, <3>2 DEF Due, Replacing
      <4> QED BY <1>1, <3>2, <4>1 DEF Due, Replacing
    <3> QED BY <1>3, <3>1, <3>2
  <2>2. CASE jar[c] \notin revoked /\ family[jar[c]] \notin Endings'
    <3>1. jar[c] = tok[h] /\ Replacing(h)'
      BY <1>2, <2>2
    <3>2. tok[h] # None
      BY <3>1, StepInv DEF Step, Next, IInv, TypeOK
    <3>3. client[h] = c
      BY <3>1, <3>2 DEF CookiesApart
    <3>4. Due(h, c)'
      BY <1>1, <3>1, <3>3 DEF Due
    <3> QED BY <3>4
  <2> QED BY <2>1, <2>2
<1> QED BY <1>4, <1>5, <1>6, <1>7 DEF CookieFacts

(* An answer replaces the cookie, clears it or leaves it: it leaves one    *)
(* that the request itself did not revoke, or that is unanswered.          *)
LEMMA RespondCookies ==
  ASSUME CookieInv, NEW h \in Handler,
         RespondOk(h) \/ RespondFailed(h) \/ RespondLoggedOut(h)
           \/ RespondNoCookie(h) \/ LoseResponse(h)
  PROVE  CookieFacts'
<1> USE TokensAssumption DEF CookieInv
<1> DEFINE b == client[h]
<1>1. /\ pc'[h] = "idle" /\ tok'[h] = None
      /\ \A g \in Handler \ {h} : /\ pc'[g] = pc[g] /\ tok'[g] = tok[g] /\ new'[g] = new[g]
                                  /\ client'[g] = client[g] /\ op'[g] = op[g]
      /\ UNCHANGED <<issued, revoked, family, replayed, signedOut, contested>>
  BY DEF IInv, TypeOK, RespondOk, RespondFailed, RespondLoggedOut, RespondNoCookie, LoseResponse,
         Finish, Goto, db, lineage
<1>2. \/ pc[h] = "ok" /\ SetCookie(h, new[h])
      \/ SetCookie(h, None)
      \/ /\ UNCHANGED jar /\ unanswered \subseteq unanswered'
         /\ Replacing(h) /\ tok[h] \in revoked /\ tok[h] = jar[b] => tok[h] \in unanswered'
  <2>1. CASE RespondOk(h) \/ RespondLoggedOut(h)
    BY <2>1 DEF RespondOk, RespondLoggedOut
  <2>2. CASE RespondFailed(h)
    BY <2>2 DEF RespondFailed, Replacing
  <2>3. CASE RespondNoCookie(h)
    BY <2>3 DEF RespondNoCookie, Replacing, cookies
  <2>4. CASE LoseResponse(h)
    BY <2>4 DEF LoseResponse, cookies
  <2> QED BY <2>1, <2>2, <2>3, <2>4
<1>3. jar \in [Browser -> Token \union {None}] /\ revoked \subseteq Token
  BY DEF IInv, TypeOK
<1>4. \A c \in Browser :
        \/ /\ jar'[c] = jar[c]
           /\ jar[c] \in unanswered /\ jar[c] # None => jar[c] \in unanswered'
           /\ c = b /\ Replacing(h) /\ tok[h] = jar[c] /\ tok[h] \in revoked
                 => jar[c] \in unanswered'
        \/ c = b /\ jar'[c] = None
        \/ c = b /\ pc[h] = "ok" /\ jar'[c] = new[h]
  <2> TAKE c \in Browser
  <2>1. CASE c = b
    BY <1>2, <1>3, <2>1 DEF SetCookie
  <2>2. CASE c # b
    <3>1. jar'[c] = jar[c]
      BY <1>2, <1>3, <2>2 DEF SetCookie
    <3>2. ASSUME NEW v \in {new[h], None}, SetCookie(h, v), jar[c] \in unanswered, jar[c] # None
          PROVE  jar[c] \in unanswered'
      <4>1. jar[c] # jar[b]
        <5>1. CASE b \in Browser
          BY <2>2, <3>2, <5>1 DEF CookiesApart
        <5>2. CASE b \notin Browser
          <6>1. pc[h] \in {"ok", "failed", "loggedOut", "noCookie"}
            BY DEF RespondOk, RespondFailed, RespondLoggedOut, RespondNoCookie, LoseResponse
          <6> QED BY <5>2, <6>1 DEF CarriersKnown
        <5> QED BY <5>1, <5>2
      <4> QED BY <3>2, <4>1 DEF SetCookie
    <3> QED BY <1>2, <2>2, <3>1, <3>2
  <2> QED BY <2>1, <2>2
<1> HIDE DEF b
<1>5. CookiesApart'
  <2>1. ASSUME NEW c \in Browser, NEW d \in Browser, jar'[c] = jar'[d], jar'[c] # None
        PROVE  c = d
    BY <1>4, <2>1 DEF CookiesApart
  <2>2. ASSUME NEW g \in Handler, tok'[g] # None
        PROVE  /\ tok'[g] \in issued'
               /\ \A c \in Browser : jar'[c] = tok'[g] => client'[g] = c
               /\ \A i \in Handler : tok'[i] = tok'[g] => client'[i] = client'[g]
    <3>1. g # h /\ tok[g] = tok'[g] /\ tok[g] # None
      BY <1>1, <2>2
    <3>2. tok'[g] \in issued'
      BY <1>1, <3>1 DEF CookiesApart
    <3>3. ASSUME NEW c \in Browser, jar'[c] = tok'[g] PROVE client'[g] = c
      BY <1>1, <1>4, <3>1, <3>3 DEF CookiesApart
    <3>4. ASSUME NEW i \in Handler, tok'[i] = tok'[g] PROVE client'[i] = client'[g]
      BY <1>1, <3>1, <3>4 DEF CookiesApart
    <3> QED BY <3>2, <3>3, <3>4
  <2>3. ASSUME NEW g \in Handler, pc'[g] = "ok"
        PROVE  /\ \A c \in Browser : jar'[c] # new'[g]
               /\ \A i \in Handler : tok'[i] # new'[g] /\ (pc'[i] = "ok" /\ new'[i] = new'[g] => i = g)
    <3>1. g # h /\ pc[g] = "ok" /\ new'[g] = new[g] /\ new[g] # None
      BY <1>1, <2>3 DEF IInv, Known, TypeOK
    <3>2. ASSUME NEW c \in Browser PROVE jar'[c] # new[g]
      BY <1>4, <3>1 DEF CookiesApart
    <3>3. ASSUME NEW i \in Handler
          PROVE  tok'[i] # new[g] /\ (pc'[i] = "ok" /\ new'[i] = new[g] => i = g)
      BY <1>1, <3>1 DEF CookiesApart
    <3> QED BY <3>1, <3>2, <3>3
  <2> QED BY <2>1, <2>2, <2>3 DEF CookiesApart
<1>6. /\ \A g \in Handler : pc'[g] # "idle" => g # h /\ pc[g] # "idle"
      /\ Endings' = Endings
  BY <1>1 DEF Endings
<1>7. CarriersKnown'
  <2>1. \A g \in Handler : Carrying(g)' => g # h /\ Carrying(g) /\ tok'[g] = tok[g]
    BY <1>1 DEF Carrying
  <2>2. ASSUME NEW g \in Handler
        PROVE  /\ pc'[g] \in {"lookup", "revokeFamily", "revoke", "reissue"} => op'[g] = "refresh"
               /\ pc'[g] \in {"logoutLookup", "logoutRevoke"} => op'[g] = "logout"
               /\ pc'[g] # "idle" => client'[g] \in Browser
    BY <1>1 DEF CarriersKnown
  <2> QED BY <1>1, <2>1, <2>2 DEF CarriersKnown
<1>8. RevocationsHaveCause'
  BY <1>1, <1>6 DEF RevocationsHaveCause
<1>9. RevokedCookieExplained'
  <2> SUFFICES ASSUME NEW c \in Browser, jar'[c] \in revoked
               PROVE  \/ family[jar'[c]] \in Endings \/ jar'[c] \in unanswered'
                      \/ \E g \in Handler : Due(g, c)'
    BY <1>1, <1>6 DEF RevokedCookieExplained, Due
  <2>1. jar'[c] # None
    BY <1>3
  <2>2. CASE pc[h] = "ok" /\ jar'[c] = new[h]
    BY <2>2 DEF RevocationsHaveCause
  <2>3. CASE /\ jar'[c] = jar[c]
             /\ jar[c] \in unanswered /\ jar[c] # None => jar[c] \in unanswered'
             /\ c = b /\ Replacing(h) /\ tok[h] = jar[c] /\ tok[h] \in revoked
                   => jar[c] \in unanswered'
    <3>1. family[jar[c]] \in Endings \/ jar[c] \in unanswered \/ \E g \in Handler : Due(g, c)
      BY <2>3 DEF RevokedCookieExplained, Due
    <3>2. ASSUME NEW g \in Handler, Due(g, c) PROVE jar[c] \in unanswered' \/ Due(g, c)'
      <4>1. CASE g = h
        BY <2>3, <3>2, <4>1 DEF Due, b
      <4>2. CASE g # h
        BY <1>1, <2>3, <3>2, <4>2 DEF Due, Replacing
      <4> QED BY <4>1, <4>2
    <3> QED BY <2>1, <2>3, <3>1, <3>2
  <2> QED BY <1>4, <2>1, <2>2, <2>3
<1> QED BY <1>5, <1>7, <1>8, <1>9 DEF CookieFacts

LEMMA StepCookies == CookieInv /\ [Next]_vars => CookieInv'
<1> SUFFICES ASSUME CookieInv, [Next]_vars
             PROVE  CookieFacts'
  BY StepInv DEF CookieInv, CookieFacts
<1>1. ASSUME NEW h \in Handler, NEW b \in Browser, NEW u \in User, BeginLogin(h, b, u)
      PROVE  CookieFacts'
  BY <1>1, BeginCookies DEF BeginLogin, Ops
<1>2. ASSUME NEW h \in Handler, NEW b \in Browser, BeginRefresh(h, b)
      PROVE  CookieFacts'
  BY <1>2, BeginCookies DEF BeginRefresh, Ops
<1>3. ASSUME NEW h \in Handler, NEW b \in Browser, BeginLogout(h, b) \/ BeginLogoutAll(h, b)
      PROVE  CookieFacts'
  <2>1. jwt[b] \in User \union {None}
    BY DEF CookieInv, IInv, TypeOK
  <2> QED BY <1>3, <2>1, BeginCookies DEF BeginLogout, BeginLogoutAll, Ops
<1>4. ASSUME NEW h \in Handler, Step(h)
      PROVE  CookieFacts'
  BY <1>4, CreateCookies, RevokeCookies, RespondCookies DEF Step
<1>5. ASSUME NEW t \in Token, Expire(t)
      PROVE  CookieFacts'
  BY <1>5 DEF Expire, request, cookies, lineage, sweeps, CookieInv, CookieFacts, CookiesApart,
     CarriersKnown, RevocationsHaveCause, RevokedCookieExplained, Carrying, Replacing, Endings
<1>6. CASE UNCHANGED vars
  BY <1>6 DEF vars, db, request, cookies, lineage, sweeps, CookieInv, CookieFacts, CookiesApart,
     CarriersKnown, RevocationsHaveCause, RevokedCookieExplained, Carrying, Replacing, Endings
<1> QED BY <1>1, <1>2, <1>3, <1>4, <1>5, <1>6 DEF Next

(* Whatever fails, a browser stays with a cookie that was revoked only for *)
(* a logout-all, for two requests with one token of its session or for a   *)
(* lost answer; else the request that revoked it is still to answer, and   *)
(* replaces or clears it.                                                  *)
THEOREM NoBrowserStranded == Spec => []RevokedCookieExplained
<1>1. CookieInv => RevokedCookieExplained
  BY DEF CookieInv
<1> QED BY <1>1, InitCookies, StepCookies, PTL DEF Spec
=============================================================================
