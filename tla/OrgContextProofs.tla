-------------------------- MODULE OrgContextProofs ---------------------------
(***************************************************************************)
(* Proofs about RbacCache, and about OrgContext around it, for any users,  *)
(* organizations, roles and tokens, any number of requests, any failures.  *)
(*                                                                         *)
(* The cache: the table only grows, so a list read from it, and an entry   *)
(* written from such a list, is never more than the table grants.  A       *)
(* reader's list is the table's until an assignment of its key, which puts *)
(* the reader into overtaken: every stale entry goes back to one of those  *)
(* or to a failure.                                                        *)
(*                                                                         *)
(* The requests: every step is one of RbacCache or leaves its variables    *)
(* alone, so what is shown of the cache holds here.  A check that asks for *)
(* the organization of the tenant sees at least the roles the user held    *)
(* when the request arrived, because no role is taken away, unless it is   *)
(* answered from a stale entry or a list that was cut off.                 *)
(***************************************************************************)
EXTENDS OrgContext, TLAPS

LEMMA InitInv == Init => IInv
  BY RbacAssumption
  DEF Init, IInv, TypeOK, KeysKnown, NeverMoreThanGranted,
      WritesCurrentUnlessOvertaken, StaleExplained, Stale, Assigning, PCs

(* Reads of a check: they write nothing but the reader's own state.        *)
LEMMA ReadStep ==
  ASSUME IInv, NEW r \in Reader,
         \/ \E k \in Key : Check(r, k)
         \/ GetHit(r) \/ GetMiss(r) \/ Query(r) \/ QueryCut(r)
         \/ QueryFails(r) \/ Answer(r)
  PROVE  IInv'
<1> USE RbacAssumption
    DEF Check, GetHit, GetMiss, Query, QueryCut, QueryFails, Answer, Goto, Fault, CacheKey
<1>1. TypeOK'
  BY DEF IInv, TypeOK, KeysKnown, PCs
<1>2. NeverMoreThanGranted'
  <2>1. \A k \in Key : cache'[k] \subseteq db'[k]
    BY DEF IInv, NeverMoreThanGranted
  <2>2. pc'[r] # "idle" => perms'[r] \subseteq db[key'[r]]
    <3> USE DEF IInv, TypeOK, KeysKnown, NeverMoreThanGranted
    <3>1. CASE GetHit(r)
      BY <3>1
    <3>2. CASE Query(r) \/ QueryCut(r)
      BY <3>2
    <3>3. CASE QueryFails(r)
      BY <3>3
    <3>4. CASE GetMiss(r) \/ Answer(r) \/ \E k \in Key : Check(r, k)
      BY <3>4
    <3> QED BY <3>1, <3>2, <3>3, <3>4
  <2>3. \A q \in Reader \ {r} : /\ pc'[q] = pc[q] /\ key'[q] = key[q]
                               /\ perms'[q] = perms[q]
    BY DEF IInv, TypeOK
  <2> QED BY <2>1, <2>2, <2>3 DEF IInv, NeverMoreThanGranted
<1>3. WritesCurrentUnlessOvertaken'
  BY DEF IInv, TypeOK, KeysKnown, WritesCurrentUnlessOvertaken
<1>4. StaleExplained'
  BY DEF IInv, TypeOK, StaleExplained, Stale, Assigning
<1> QED BY <1>1, <1>2, <1>3, <1>4 DEF IInv

(* The write of an entry, done or failed.                                  *)
LEMMA SetStep ==
  ASSUME IInv, NEW r \in Reader, SetEntry(r) \/ SetFails(r)
  PROVE  IInv'
<1> USE RbacAssumption DEF SetEntry, SetFails, Goto, Fault, CacheKey
<1>1. TypeOK'
  BY DEF IInv, TypeOK, KeysKnown, PCs
<1>2. NeverMoreThanGranted'
  BY DEF IInv, TypeOK, KeysKnown, NeverMoreThanGranted
<1>3. WritesCurrentUnlessOvertaken'
  BY DEF IInv, TypeOK, KeysKnown, WritesCurrentUnlessOvertaken
<1>4. StaleExplained'
  BY DEF IInv, TypeOK, KeysKnown, WritesCurrentUnlessOvertaken, StaleExplained,
         Stale, Assigning
<1> QED BY <1>1, <1>2, <1>3, <1>4 DEF IInv

(* A row is inserted, and the request goes on to the cache or fails.       *)
LEMMA AssignStep ==
  ASSUME IInv, NEW a \in Assigner, NEW k \in Key, NEW role \in Role,
         Assign(a, k, role) \/ AssignFails(a, k, role)
  PROVE  IInv'
<1> USE RbacAssumption DEF Assign, AssignFails, Insert, Holding, Goto, Fault
<1>1. TypeOK'
  BY DEF IInv, TypeOK, KeysKnown, PCs
<1>2. \A j \in Key : /\ db[j] \subseteq db'[j]
                     /\ j # k \/ role \in db[k] => db'[j] = db[j]
  <2>1. /\ db \in [Key -> SUBSET Role]
        /\ db' = [db EXCEPT ![k] = @ \union {role}]
    BY DEF IInv, TypeOK
  <2>2. \A j \in Key : db'[j] = IF j = k THEN db[j] \union {role} ELSE db[j]
    BY <2>1
  <2>3. role \in db[k] => db[k] \union {role} = db[k]
    OBVIOUS
  <2> QED BY <2>2, <2>3
<1>3. NeverMoreThanGranted'
  <2>1. \A j \in Key : cache'[j] \subseteq db'[j]
    BY <1>2 DEF IInv, TypeOK, NeverMoreThanGranted
  <2>2. \A r \in Reader : pc'[r] = pc[r] /\ key'[r] = key[r]
    BY DEF IInv, TypeOK
  <2>3. \A r \in Reader :
          pc'[r] # "idle" => perms'[r] \subseteq db'[key'[r]]
    BY <1>2, <2>2 DEF IInv, TypeOK, KeysKnown, NeverMoreThanGranted
  <2> QED BY <2>1, <2>3 DEF NeverMoreThanGranted
<1>4. WritesCurrentUnlessOvertaken'
  <2>1. \A r \in Reader : pc'[r] = pc[r] /\ key'[r] = key[r]
    BY DEF IInv, TypeOK
  <2> SUFFICES ASSUME NEW r \in Reader, pc[r] = "set", r \notin overtaken'
               PROVE  perms[r] = db'[key[r]]
    BY <2>1 DEF WritesCurrentUnlessOvertaken
  <2>2. key[r] \in Key /\ perms[r] = db[key[r]]
    BY DEF IInv, TypeOK, KeysKnown, WritesCurrentUnlessOvertaken
  <2>3. key[r] # k \/ role \in db[k]
    OBVIOUS
  <2> QED BY <1>2, <2>2, <2>3
<1>5. StaleExplained'
  <2> SUFFICES ASSUME NEW j \in Key, Stale(j)'
               PROVE  Assigning(j)' \/ j \in outdated'
    BY DEF StaleExplained
  <2>1. CASE j = k
    BY <2>1 DEF IInv, TypeOK, Assigning
  <2>2. CASE j # k
    <3>1. Stale(j)
      BY <1>2, <2>2 DEF Stale
    <3>2. Assigning(j) => Assigning(j)'
      BY DEF IInv, TypeOK, Assigning
    <3> QED BY <3>1, <3>2 DEF IInv, StaleExplained
  <2> QED BY <2>1, <2>2
<1> QED BY <1>1, <1>3, <1>4, <1>5 DEF IInv

(* The entry is deleted, by the assignment or by its time to live.         *)
LEMMA DeleteStep ==
  ASSUME IInv,
         \/ \E a \in Assigner : Invalidate(a) \/ InvalidateFails(a)
         \/ \E k \in Key : TTL(k)
  PROVE  IInv'
<1> USE RbacAssumption DEF Invalidate, InvalidateFails, TTL, Goto, Fault, CacheKey
<1>1. TypeOK'
  BY DEF IInv, TypeOK, KeysKnown, PCs
<1>2. NeverMoreThanGranted'
  BY DEF IInv, TypeOK, KeysKnown, NeverMoreThanGranted
<1>3. WritesCurrentUnlessOvertaken'
  BY DEF IInv, TypeOK, KeysKnown, WritesCurrentUnlessOvertaken
<1>4. StaleExplained'
  BY DEF IInv, TypeOK, KeysKnown, StaleExplained, Stale, Assigning
<1> QED BY <1>1, <1>2, <1>3, <1>4 DEF IInv

LEMMA NextInv == IInv /\ [Next]_vars => IInv'
<1> SUFFICES ASSUME IInv, [Next]_vars PROVE IInv'
  OBVIOUS
<1>1. CASE \E r \in Reader : ReaderNext(r)
  BY <1>1, ReadStep, SetStep DEF ReaderNext, ReaderCall
<1>2. CASE \E a \in Assigner : AssignerNext(a)
  BY <1>2, AssignStep, DeleteStep DEF AssignerNext, AssignerCall
<1>3. CASE \E k \in Key : TTL(k)
  BY <1>3, DeleteStep
<1>4. CASE UNCHANGED vars
  BY <1>4 DEF vars, IInv, TypeOK, KeysKnown, NeverMoreThanGranted,
              WritesCurrentUnlessOvertaken, StaleExplained, Stale, Assigning
<1> QED BY <1>1, <1>2, <1>3, <1>4 DEF Next

(* The inductive invariant holds in every reachable state.                 *)
THEOREM Invariance == Spec => []IInv
  BY InitInv, NextInv, PTL DEF Spec

(* No permission is granted, from the cache or from the table, that the    *)
(* user does not have in that organization.                                *)
THEOREM NothingOvergranted == Spec => []NeverMoreThanGranted
<1>1. IInv => NeverMoreThanGranted
  BY DEF IInv
<1> QED BY <1>1, Invariance, PTL

(* A stale entry goes back to an overtaken reader or to a failed call.     *)
THEOREM StalenessExplained == Spec => []StaleExplained
<1>1. IInv => StaleExplained
  BY DEF IInv
<1> QED BY <1>1, Invariance, PTL

----------------------------------------------------------------------------
(* The requests around the cache.                                          *)
LEMMA OrgInitInv == OrgInit => OrgIInv
<1> SUFFICES ASSUME OrgInit PROVE OrgIInv
  OBVIOUS
<1>1. IInv
  BY InitInv DEF OrgInit
<1>2. OrgTypeOK
  BY <1>1, OrgAssumption DEF OrgInit, OrgTypeOK, IInv, Key
<1>3. NobodyInNoOrg
  BY OrgAssumption DEF OrgInit, Init, NobodyInNoOrg, Key
<1>4. \A r \in Reader : pc[r] = "idle"
  BY DEF OrgInit, Init
<1> QED BY <1>1, <1>2, <1>3, <1>4
    DEF OrgIInv, AsksForItsOrg, HeldIsGranted, SeenUnlessMisled

----------------------------------------------------------------------------
(* The arrival of a request.                                               *)
Arrival(r) ==
    \E t \in tokens, header, subdomain \in Org :
        \/ \E p \in Required : Route(r, t, header, subdomain, p)
        \/ \E appOrg \in Org \ {NoOrg} : Connect(r, t, header, subdomain, appOrg)

LEMMA ResolveIsOrg ==
  ASSUME NEW header \in Org, NEW claim \in Org, NEW subdomain \in Org
  PROVE  /\ Resolve(header, claim, subdomain) \in Org
         /\ OrgOfConnection(header, claim, Resolve(header, claim, subdomain))
               = Resolve(header, claim, subdomain)
  BY DEF Resolve, OrgOfConnection

(* What a request is about, however it comes in.                           *)
LEMMA ArrivalIsCheck ==
  ASSUME OrgTypeOK, NEW r \in Reader, Arrival(r)
  PROVE  \E t \in tokens, org \in Org, way \in {"route", "socket"},
            permission \in Required \union {AppRead} :
            /\ t \in Key /\ <<t[1], org>> \in Key
            /\ Check(r, IF way = "route" THEN t ELSE <<t[1], org>>)
            /\ bearer' = [bearer EXCEPT ![r] = t]
            /\ tenant' = [tenant EXCEPT ![r] = org]
            /\ held' = [held EXCEPT ![r] = db[<<t[1], org>>]]
            /\ via' = [via EXCEPT ![r] = way]
            /\ need' = [need EXCEPT ![r] = permission]
            /\ UNCHANGED <<tokens, erred, misled>>
<1>1. PICK t \in tokens, header \in Org, subdomain \in Org :
         \/ \E p \in Required : Route(r, t, header, subdomain, p)
         \/ \E appOrg \in Org \ {NoOrg} : Connect(r, t, header, subdomain, appOrg)
  BY DEF Arrival
<1> DEFINE org == Resolve(header, t[2], subdomain)
<1>2. t \in Key /\ t[1] \in User /\ t[2] \in Org
  BY DEF OrgTypeOK, Key
<1>3. org \in Org /\ <<t[1], org>> \in Key
  BY <1>2, ResolveIsOrg DEF Key
<1>4. CASE \E p \in Required : Route(r, t, header, subdomain, p)
  <2>1. PICK p \in Required : Route(r, t, header, subdomain, p)
    BY <1>4
  <2>2. /\ Check(r, IF "route" = "route" THEN t ELSE <<t[1], org>>)
        /\ bearer' = [bearer EXCEPT ![r] = t]
        /\ tenant' = [tenant EXCEPT ![r] = org]
        /\ held' = [held EXCEPT ![r] = db[<<t[1], org>>]]
        /\ via' = [via EXCEPT ![r] = "route"]
        /\ need' = [need EXCEPT ![r] = p]
        /\ UNCHANGED <<tokens, erred, misled>>
    BY <2>1 DEF Route, Authenticated
  <2> QED BY <1>2, <1>3, <2>2
<1>5. CASE \E appOrg \in Org \ {NoOrg} : Connect(r, t, header, subdomain, appOrg)
  <2>1. PICK appOrg \in Org : Connect(r, t, header, subdomain, appOrg)
    BY <1>5
  <2>2. OrgOfConnection(header, t[2], org) = org
    BY <1>2, ResolveIsOrg
  <2>3. /\ Check(r, IF "socket" = "route" THEN t ELSE <<t[1], org>>)
        /\ bearer' = [bearer EXCEPT ![r] = t]
        /\ tenant' = [tenant EXCEPT ![r] = org]
        /\ held' = [held EXCEPT ![r] = db[<<t[1], org>>]]
        /\ via' = [via EXCEPT ![r] = "socket"]
        /\ need' = [need EXCEPT ![r] = AppRead]
        /\ UNCHANGED <<tokens, erred, misled>>
    BY <2>1, <2>2 DEF Connect, Authenticated, ValidateConnect
  <2> QED BY <1>2, <1>3, <2>3
<1> QED BY <1>1, <1>4, <1>5

LEMMA ArrivalKeeps ==
  ASSUME OrgIInv, NEW r \in Reader, Arrival(r)
  PROVE  [Next]_vars /\ OrgIInv'
<1>1. PICK t \in tokens, org \in Org, way \in {"route", "socket"},
           permission \in Required \union {AppRead} :
         /\ t \in Key /\ <<t[1], org>> \in Key
         /\ Check(r, IF way = "route" THEN t ELSE <<t[1], org>>)
         /\ bearer' = [bearer EXCEPT ![r] = t]
         /\ tenant' = [tenant EXCEPT ![r] = org]
         /\ held' = [held EXCEPT ![r] = db[<<t[1], org>>]]
         /\ via' = [via EXCEPT ![r] = way]
         /\ need' = [need EXCEPT ![r] = permission]
         /\ UNCHANGED <<tokens, erred, misled>>
  BY ArrivalIsCheck DEF OrgIInv
<1> DEFINE k == IF way = "route" THEN t ELSE <<t[1], org>>
<1>2. k \in Key /\ Check(r, k)
  BY <1>1
<1>3. [Next]_vars
  BY <1>2 DEF Next, ReaderNext
<1>4. IInv'
  BY <1>3, NextInv DEF OrgIInv
<1>5. TypeOK /\ OrgTypeOK /\ db[<<t[1], org>>] \in SUBSET Role
  BY <1>1 DEF OrgIInv, IInv, TypeOK
<1>6. /\ db' = db /\ pc' = [pc EXCEPT ![r] = "get"] /\ key' = [key EXCEPT ![r] = k]
      /\ perms' = [perms EXCEPT ![r] = {}]
  BY <1>2 DEF Check, Goto
<1>7. OrgTypeOK'
  BY <1>1, <1>4, <1>5 DEF OrgTypeOK, IInv, Key
<1>8. NobodyInNoOrg'
  BY <1>6 DEF OrgIInv, NobodyInNoOrg
<1>9. /\ pc'[r] = "get" /\ key'[r] = k /\ bearer'[r] = t /\ via'[r] = way
      /\ tenant'[r] = org /\ held'[r] = db[<<t[1], org>>]
  BY <1>1, <1>5, <1>6 DEF TypeOK, OrgTypeOK
<1>10. \A q \in Reader \ {r} :
          /\ pc'[q] = pc[q] /\ key'[q] = key[q] /\ bearer'[q] = bearer[q]
          /\ via'[q] = via[q] /\ tenant'[q] = tenant[q] /\ held'[q] = held[q]
          /\ perms'[q] = perms[q]
  BY <1>1, <1>5, <1>6 DEF TypeOK, OrgTypeOK
<1>11. AsksForItsOrg'
  <2>1. bearer'[r] \in Key
        /\ key'[r] = IF via'[r] = "route" THEN bearer'[r] ELSE <<bearer'[r][1], tenant'[r]>>
    BY <1>1, <1>9
  <2> QED BY <2>1, <1>10 DEF OrgIInv, AsksForItsOrg
<1>12. HeldIsGranted'
  <2>1. held'[r] \subseteq db'[<<bearer'[r][1], tenant'[r]>>]
    BY <1>6, <1>9
  <2> QED BY <2>1, <1>6, <1>10 DEF OrgIInv, HeldIsGranted
<1>13. SeenUnlessMisled'
  <2>1. pc'[r] \notin {"set", "answer"} /\ UNCHANGED <<erred, misled>>
    BY <1>1, <1>9
  <2> QED BY <2>1, <1>10 DEF OrgIInv, SeenUnlessMisled
<1> QED BY <1>3, <1>4, <1>7, <1>8, <1>11, <1>12, <1>13 DEF OrgIInv

----------------------------------------------------------------------------
(* The calls of a check.                                                   *)
LEMMA CheckKeeps ==
  ASSUME OrgIInv, NEW r \in Reader, HasPermission(r)
  PROVE  [Next]_vars /\ OrgIInv'
<1>1. ReaderCall(r)
  BY DEF HasPermission, ReaderCall
<1>2. [Next]_vars
  BY <1>1 DEF Next, ReaderNext
<1>3. IInv'
  BY <1>2, NextInv DEF OrgIInv
<1>4. TypeOK /\ OrgTypeOK /\ pc[r] # "idle" /\ key[r] \in Key
  BY DEF OrgIInv, IInv, TypeOK, KeysKnown, HasPermission, GetHit, GetMiss, Query,
         QueryCut, QueryFails, SetEntry, SetFails
<1>5. UNCHANGED <<db, key, tokens, via, bearer, tenant, need, held>>
  BY DEF HasPermission, GetHit, GetMiss, Query, QueryCut, QueryFails, SetEntry, SetFails
<1>6. /\ \A q \in Reader \ {r} : pc'[q] = pc[q] /\ perms'[q] = perms[q]
      /\ erred \subseteq erred' /\ erred' \subseteq erred \union {r}
      /\ misled \subseteq misled' /\ misled' \subseteq misled \union {r}
  BY <1>4 DEF HasPermission, GetHit, GetMiss, Query, QueryCut, QueryFails, SetEntry,
              SetFails, Goto, TypeOK
<1>7. OrgTypeOK'
  BY <1>3, <1>4, <1>5, <1>6 DEF OrgTypeOK, IInv
<1>8. NobodyInNoOrg' /\ AsksForItsOrg' /\ HeldIsGranted'
  BY <1>4, <1>5, <1>6 DEF OrgIInv, NobodyInNoOrg, AsksForItsOrg, HeldIsGranted
<1>9. ASSUME pc'[r] \in {"set", "answer"}, r \notin erred' \union misled',
             key[r] = <<bearer[r][1], tenant[r]>>
      PROVE  held[r] \subseteq perms'[r]
  <2>1. held[r] \subseteq db[key[r]]
    BY <1>4, <1>9 DEF OrgIInv, HeldIsGranted
  <2>2. CASE GetHit(r)
    <3>1. perms'[r] = cache[key[r]] /\ cache[key[r]] # {}
      BY <1>4, <2>2 DEF GetHit, CacheKey, TypeOK
    <3>2. ~Stale(key[r])
      BY <1>4, <1>9, <2>2 DEF HasPermission, GetHit, GetMiss, Query, QueryCut,
                              QueryFails, SetEntry, SetFails, Goto, TypeOK
    <3> QED BY <2>1, <3>1, <3>2 DEF Stale
  <2>3. CASE Query(r)
    BY <1>4, <2>1, <2>3 DEF Query, TypeOK
  <2>4. CASE (SetEntry(r) \/ SetFails(r)) /\ UNCHANGED <<erred, misled>>
    BY <1>4, <1>9, <2>4 DEF SetEntry, SetFails, OrgIInv, SeenUnlessMisled
  <2>5. CASE GetMiss(r)
    BY <1>4, <1>9, <2>5 DEF GetMiss, Goto, TypeOK
  <2>6. CASE QueryCut(r) /\ misled' = misled \union {r}
    BY <1>9, <2>6
  <2>7. CASE QueryFails(r) /\ erred' = erred \union {r}
    BY <1>9, <2>7
  <2> QED BY <2>2, <2>3, <2>4, <2>5, <2>6, <2>7 DEF HasPermission
<1>10. SeenUnlessMisled'
  BY <1>5, <1>6, <1>9 DEF OrgIInv, SeenUnlessMisled
<1> QED BY <1>2, <1>3, <1>7, <1>8, <1>10 DEF OrgIInv

LEMMA RespondKeeps ==
  ASSUME OrgIInv, NEW r \in Reader, Respond(r)
  PROVE  [Next]_vars /\ OrgIInv'
<1>1. Answer(r)
  BY DEF Respond
<1>2. [Next]_vars
  BY <1>1 DEF Next, ReaderNext, ReaderCall
<1>3. IInv'
  BY <1>2, NextInv DEF OrgIInv
<1>4. TypeOK /\ OrgTypeOK
  BY DEF OrgIInv, IInv
<1>5. OrgTypeOK'
  BY <1>3, <1>4, OrgAssumption DEF OrgTypeOK, Respond, IInv
<1>6. UNCHANGED <<db, key, perms>> /\ pc'[r] = "idle"
  BY <1>1, <1>4 DEF Answer, Goto, TypeOK
<1>7. \A q \in Reader \ {r} :
        /\ pc'[q] = pc[q] /\ bearer'[q] = bearer[q] /\ via'[q] = via[q]
        /\ tenant'[q] = tenant[q] /\ held'[q] = held[q]
        /\ q \in erred' <=> q \in erred
        /\ q \in misled' <=> q \in misled
  BY <1>1, <1>4 DEF Respond, Answer, Goto, TypeOK, OrgTypeOK
<1>8. NobodyInNoOrg' /\ AsksForItsOrg'
  BY <1>6, <1>7 DEF OrgIInv, NobodyInNoOrg, AsksForItsOrg
<1>9. HeldIsGranted' /\ SeenUnlessMisled'
  BY <1>6, <1>7 DEF OrgIInv, HeldIsGranted, SeenUnlessMisled
<1> QED BY <1>2, <1>3, <1>5, <1>8, <1>9 DEF OrgIInv

----------------------------------------------------------------------------
(* Steps that leave the requests alone: roles are only added, and only in  *)
(* an organization.                                                        *)
LEMMA RequestsUntouched ==
  ASSUME OrgIInv, [Next]_vars, tokens' \subseteq User \X Org,
         UNCHANGED <<via, bearer, tenant, need, held, erred, misled>>,
         \A r \in Reader : pc'[r] = pc[r] /\ key'[r] = key[r] /\ perms'[r] = perms[r],
         \A k \in Key : db[k] \subseteq db'[k],
         \A u \in User : db'[<<u, NoOrg>>] = db[<<u, NoOrg>>]
  PROVE  OrgIInv'
<1>1. IInv'
  BY NextInv DEF OrgIInv
<1>2. OrgTypeOK'
  BY <1>1 DEF OrgIInv, OrgTypeOK, IInv
<1>3. NobodyInNoOrg' /\ AsksForItsOrg' /\ SeenUnlessMisled'
  BY DEF OrgIInv, NobodyInNoOrg, AsksForItsOrg, SeenUnlessMisled
<1>4. HeldIsGranted'
  <2> SUFFICES ASSUME NEW r \in Reader, pc[r] # "idle"
               PROVE  held[r] \subseteq db'[<<bearer[r][1], tenant[r]>>]
    BY DEF HeldIsGranted
  <2>1. bearer[r] \in User \X Org /\ tenant[r] \in Org
    BY DEF OrgIInv, OrgTypeOK, AsksForItsOrg, Key
  <2>2. <<bearer[r][1], tenant[r]>> \in Key
    BY <2>1 DEF Key
  <2> QED BY <2>2 DEF OrgIInv, HeldIsGranted
<1> QED BY <1>1, <1>2, <1>3, <1>4 DEF OrgIInv

LEMMA LoginKeeps ==
  ASSUME OrgIInv, NEW u \in User, Login(u)
  PROVE  [Next]_vars /\ OrgIInv'
<1>1. tokens' \subseteq User \X Org
  BY OrgAssumption DEF Login, GenerateToken, OrgIInv, OrgTypeOK
<1>2. UNCHANGED vars
  BY DEF Login
<1> QED BY <1>1, <1>2, RequestsUntouched DEF Login, vars

LEMMA AssignerKeeps ==
  ASSUME OrgIInv, NEW a \in Assigner, AssignerStep(a)
  PROVE  [Next]_vars /\ OrgIInv'
<1> USE RbacAssumption
<1>1. TypeOK /\ OrgTypeOK
  BY DEF OrgIInv, IInv
<1>2. tokens' \subseteq User \X Org
      /\ UNCHANGED <<via, bearer, tenant, need, held, erred, misled>>
  BY <1>1 DEF AssignerStep, ctxVars, OrgTypeOK
<1>3. CASE AssignerCall(a)
  <2>1. [Next]_vars
    BY <1>3 DEF Next, AssignerNext
  <2>2. /\ db' = db
        /\ \A r \in Reader : pc'[r] = pc[r] /\ key'[r] = key[r] /\ perms'[r] = perms[r]
    BY <1>1, <1>3 DEF AssignerCall, Invalidate, InvalidateFails, Goto, TypeOK
  <2> QED BY <1>2, <2>1, <2>2, RequestsUntouched
<1>4. CASE \E u \in User, o \in Org \ {NoOrg}, role \in Role :
              Assign(a, <<u, o>>, role) \/ AssignFails(a, <<u, o>>, role)
  <2>1. PICK u \in User, o \in Org \ {NoOrg}, role \in Role :
               Assign(a, <<u, o>>, role) \/ AssignFails(a, <<u, o>>, role)
    BY <1>4
  <2>2. <<u, o>> \in Key
    BY DEF Key
  <2>3. [Next]_vars
    BY <2>1, <2>2 DEF Next, AssignerNext
  <2>4. db' = [db EXCEPT ![<<u, o>>] = @ \union {role}]
        /\ \A r \in Reader : pc'[r] = pc[r] /\ key'[r] = key[r] /\ perms'[r] = perms[r]
    BY <1>1, <2>1 DEF Assign, AssignFails, Insert, Goto, TypeOK
  <2>5. \A k \in Key : db'[k] = IF k = <<u, o>> THEN db[k] \union {role} ELSE db[k]
    BY <1>1, <2>4 DEF TypeOK
  <2>6. \A v \in User : <<v, NoOrg>> \in Key /\ <<v, NoOrg>> # <<u, o>>
    BY OrgAssumption DEF Key
  <2> QED BY <1>2, <2>3, <2>4, <2>5, <2>6, RequestsUntouched
<1> QED BY <1>3, <1>4 DEF AssignerStep

LEMMA ExpiresKeeps ==
  ASSUME OrgIInv, NEW k \in Key, Expires(k)
  PROVE  [Next]_vars /\ OrgIInv'
<1>1. [Next]_vars
  BY DEF Expires, Next
<1> QED BY <1>1, RequestsUntouched DEF Expires, ctxVars, TTL, OrgIInv, OrgTypeOK

LEMMA OrgNextInv == OrgIInv /\ [OrgNext]_orgVars => [Next]_vars /\ OrgIInv'
<1> SUFFICES ASSUME OrgIInv, [OrgNext]_orgVars PROVE [Next]_vars /\ OrgIInv'
  OBVIOUS
<1>1. CASE \E u \in User : Login(u)
  BY <1>1, LoginKeeps
<1>2. CASE \E r \in Reader : Arrival(r)
  BY <1>2, ArrivalKeeps
<1>3. CASE \E r \in Reader : CheckCall(r)
  BY <1>3, CheckKeeps, RespondKeeps DEF CheckCall
<1>4. CASE \E a \in Assigner : AssignerStep(a)
  BY <1>4, AssignerKeeps
<1>5. CASE \E k \in Key : Expires(k)
  BY <1>5, ExpiresKeeps
<1>6. CASE UNCHANGED orgVars
  BY <1>6, RequestsUntouched DEF orgVars, vars, ctxVars, OrgIInv, OrgTypeOK
<1> QED BY <1>1, <1>2, <1>3, <1>4, <1>5, <1>6 DEF OrgNext, Arrival

(* Requests, connections and assignments use the cache as RbacCache says.  *)
THEOREM UsesRbacCache == OrgSpec => Init /\ [][Next]_vars /\ []OrgIInv
<1>1. OrgInit => Init
  BY DEF OrgInit
<1> QED BY <1>1, OrgInitInv, OrgNextInv, PTL DEF OrgSpec

(* No request is answered with a permission that the user does not have in *)
(* the organization it asked for, whichever tokens there are.              *)
THEOREM NothingOvergrantedToRequests == OrgSpec => []NeverMoreThanGranted
<1>1. OrgIInv => NeverMoreThanGranted
  BY DEF OrgIInv, IInv
<1> QED BY <1>1, UsesRbacCache, PTL

(* An entry that lacks a role goes back to an assignment under way, to a   *)
(* reader it overtook, or to a failed call.                                *)
THEOREM StalenessOfRequestsExplained == OrgSpec => []StaleExplained
<1>1. OrgIInv => StaleExplained
  BY DEF OrgIInv, IInv
<1> QED BY <1>1, UsesRbacCache, PTL

(* A holder of a role that allows a request is turned away only by a stale *)
(* entry, a list that was cut off, or a route that asks for another        *)
(* organization than the tenant's.                                         *)
THEOREM DenialHasCause == OrgSpec => []DeniedExplained
<1>1. OrgIInv => DeniedExplained
  <2> SUFFICES ASSUME OrgIInv, NEW r \in Reader, Denied(r), Has(held[r], need[r]),
                      r \notin misled, ~(via[r] = "route" /\ bearer[r][2] # tenant[r])
               PROVE  FALSE
    BY DEF DeniedExplained
  <2>1. pc[r] = "answer" /\ r \notin erred /\ ~Has(perms[r], need[r])
    BY DEF Denied
  <2>2. bearer[r] \in User \X Org
        /\ key[r] = IF via[r] = "route" THEN bearer[r] ELSE <<bearer[r][1], tenant[r]>>
    BY <2>1 DEF OrgIInv, AsksForItsOrg, Key
  <2>3. bearer[r] = <<bearer[r][1], bearer[r][2]>>
    BY <2>2
  <2>4. key[r] = <<bearer[r][1], tenant[r]>>
    BY <2>2, <2>3
  <2>5. held[r] \subseteq perms[r]
    BY <2>1, <2>4 DEF OrgIInv, SeenUnlessMisled
  <2> QED BY <2>1, <2>5 DEF Has
<1> QED BY <1>1, UsesRbacCache, PTL

(* A token of this program's own, which names no organization, brings      *)
(* nobody through a route that requires a permission.                      *)
THEOREM OwnTokensPassNoRoute == OrgSpec => []OwnTokensAdmitNobody
<1>1. OrgIInv => OwnTokensAdmitNobody
  <2> SUFFICES ASSUME OrgIInv, NEW r \in Reader, pc[r] = "answer", via[r] = "route",
                      bearer[r][2] = NoOrg
               PROVE  perms[r] = {}
    BY DEF OwnTokensAdmitNobody
  <2>1. bearer[r] \in User \X Org /\ key[r] = bearer[r]
    BY DEF OrgIInv, AsksForItsOrg, Key
  <2>2. key[r] = <<bearer[r][1], NoOrg>> /\ bearer[r][1] \in User
    BY <2>1
  <2>3. perms[r] \subseteq db[key[r]]
    BY DEF OrgIInv, IInv, NeverMoreThanGranted
  <2> QED BY <2>2, <2>3 DEF OrgIInv, NobodyInNoOrg
<1> QED BY <1>1, UsesRbacCache, PTL
=============================================================================
