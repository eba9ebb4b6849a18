---------------------------- MODULE RecordsProofs ----------------------------
(***************************************************************************)
(* Proofs about Tenants and about Records, for any tables that earlier     *)
(* requests have left, anything clients ask for, any number of handlers,   *)
(* requests and failures.                                                  *)
(*                                                                         *)
(* Tenants: no row is removed and none changes its kind or its place,      *)
(* so what a handler knows of a row stays true but for the fields that     *)
(* another one writes; those are in "since" of every handler that holds a  *)
(* copy (CopyExplained).  An inserted row is being published, has been or  *)
(* its request has met an error, and a slug that a workspace gives up is   *)
(* remembered before a cached answer can be wrong about it (WasAt).        *)
(*                                                                         *)
(* Records: its requests leave alone what Tenants relies on.  What a       *)
(* statement has returned it would return again as long as no row of the   *)
(* answer is written (SeenIsCurrent); and a column that can be read was    *)
(* written last without masking, because what is handed on by the masker   *)
(* cannot (RecordsAssumption).                                             *)
(***************************************************************************)
EXTENDS Records, FiniteSetTheorems, SequenceTheorems, TLAPS

LEMMA NewRowIsRow ==
  ASSUME NEW h \in Handler, req[h] \in Creations
  PROVE  NewRow(h) \in Row /\ NewRow(h) # None /\ NewRow(h).kind = req[h].kind
<1>1. req[h] \in Creation
  BY TenantsAssumption
<1>2. NewRow(h) \in Row /\ NewRow(h).kind = req[h].kind
  BY <1>1 DEF NewRow, Row, Creation
<1> QED BY <1>2, TenantsAssumption

(* A change leaves a row a row, of its kind and in its place.              *)
LEMMA ChangedIsRow ==
  ASSUME NEW h \in Handler, req[h] \in Updates, NEW row \in Row
  PROVE  /\ Changed(h, row) \in Row /\ Changed(h, row) # None
         /\ Changed(h, row).kind = row.kind /\ Changed(h, row).in = row.in
         /\ \A f \in Field : Changed(h, row)[f] = IF Asks(h, f) THEN req[h].change[f] ELSE row[f]
<1>1. req[h].change \in Change
  BY TenantsAssumption
<1>2. /\ req[h].change["name"] = req[h].change.name
      /\ req[h].change["slug"] = req[h].change.slug
      /\ req[h].change.name \in Name \union {None} /\ req[h].change.slug \in Slug \union {None}
  BY <1>1 DEF Change
<1>3. /\ Changed(h, row) \in Row
      /\ Changed(h, row).kind = row.kind /\ Changed(h, row).in = row.in
      /\ Changed(h, row).name = IF Asks(h, "name") THEN req[h].change.name ELSE row.name
      /\ Changed(h, row).slug = IF Asks(h, "slug") THEN req[h].change.slug ELSE row.slug
  BY <1>2 DEF Changed, Row, Asks
<1>4. \A f \in Field : Changed(h, row)[f] = IF Asks(h, f) THEN req[h].change[f] ELSE row[f]
  BY <1>3 DEF Field
<1> QED BY <1>3, <1>4, TenantsAssumption

----------------------------------------------------------------------------
(* What a step leaves alone.                                               *)

(* The handlers besides this one have made no step.                        *)
OthersStay(h) ==
    \A g \in Handler \ {h} : /\ pc'[g] = pc[g] /\ req'[g] = req[g]
                             /\ copy'[g] = copy[g] /\ since'[g] = since[g]

(* Rows have come, perhaps; none has gone or changed but in its "active".  *)
RowsStay ==
    \A i \in Id : Exists(i) =>
        /\ table'[i] # None /\ asked'[i] = asked[i]
        /\ table'[i].kind = table[i].kind /\ table'[i].in = table[i].in
        /\ \A f \in Field : table'[i][f] = table[i][f]

LEMMA FieldsAreFields ==
  ASSUME NEW row \in Row
  PROVE  row["slug"] = row.slug /\ row["name"] = row.name
  BY DEF Row

LEMMA OthersKept ==
  ASSUME TenantsInv, NEW h \in Handler, OthersStay(h), RowsStay, table' \in [Id -> Row \union {None}],
         UNCHANGED <<crossed, given>>,
         NEW g \in Handler, g # h
  PROVE  RequestKnown(g)' /\ CopyExplained(g)' /\ StoreExplained(g)'
<1>1. pc'[g] = pc[g] /\ req'[g] = req[g] /\ copy'[g] = copy[g] /\ since'[g] = since[g]
  BY DEF OthersStay
<1>2. RequestKnown(g)'
  BY <1>1 DEF TenantsInv, RequestKnown, RowsStay, Exists
<1>3. CopyExplained(g)'
  <2> SUFFICES ASSUME pc[g] \in {"recheck", "write"} PROVE CopyExplained(g)'
    BY <1>1 DEF CopyExplained
  <2> DEFINE w == req[g].id
  <2>1. /\ w \in Workspaces /\ w \in Id
        /\ copy[g] \in Row /\ copy[g].kind = "workspace" /\ copy[g].in = table[w].in
        /\ \A f \in Field :
              IF Asks(g, f) THEN copy[g][f] = req[g].change[f]
              ELSE copy[g][f] # asked[w][f] => f \in since[g] \/ <<w, f>> \in crossed
    BY DEF TenantsInv, CopyExplained, Workspaces
  <2>2. w \in Workspaces' /\ table'[w].in = table[w].in /\ asked'[w] = asked[w]
    BY <2>1 DEF Workspaces, Exists, RowsStay
  <2>3. \A f \in Field : Asks(g, f)' = Asks(g, f)
    BY <1>1 DEF Asks
  <2> QED BY <1>1, <2>1, <2>2, <2>3 DEF CopyExplained
<1>4. StoreExplained(g)'
  <2> SUFFICES ASSUME pc[g] = "store" PROVE StoreExplained(g)'
    BY <1>1 DEF StoreExplained
  <2>1. req[g] \in Sought /\ WasAt(req[g].id, <<req[g].in, req[g].slug>>)
    BY DEF TenantsInv, StoreExplained
  <2>2. WasAt(req[g].id, <<req[g].in, req[g].slug>>)'
    <3>1. req[g].id \in Id /\ table[req[g].id] # None
      BY <2>1 DEF WasAt, Workspaces, Exists
    <3>2. table'[req[g].id].slug = table[req[g].id].slug
      BY <3>1, FieldsAreFields DEF TenantsInv, TenantsTypeOK, RowsStay, Exists, Field
    <3> QED BY <1>1, <2>1, <3>1, <3>2 DEF WasAt, Workspaces, Exists, RowsStay
  <2> QED BY <1>1, <2>1, <2>2 DEF StoreExplained
<1> QED BY <1>2, <1>3, <1>4

(* The cache is explained as long as rows stay as they are.                *)
LEMMA CacheKept ==
  ASSUME TenantsInv, RowsStay, table' \in [Id -> Row \union {None}], UNCHANGED <<slugs, given>>
  PROVE  CacheExplained'
<1> SUFFICES ASSUME NEW p \in Place, slugs[p] # None
             PROVE  WasAt(slugs[p], p)'
  BY DEF CacheExplained
<1>1. WasAt(slugs[p], p)
  BY DEF TenantsInv, CacheExplained
<1>2. slugs[p] \in Id /\ table[slugs[p]] # None
  BY <1>1 DEF WasAt, Workspaces, Exists
<1>3. table'[slugs[p]].slug = table[slugs[p]].slug
  BY <1>2, FieldsAreFields DEF TenantsInv, TenantsTypeOK, RowsStay, Exists, Field
<1> QED BY <1>1, <1>2, <1>3 DEF WasAt, Workspaces, Exists, RowsStay

(* Nothing is published, inserted or about to be.                          *)
LEMMA EventsKept ==
  ASSUME TenantsInv, NEW h \in Handler, OthersStay(h), pc[h] # "publish", pc'[h] # "publish",
         UNCHANGED <<table, events, silent>>
  PROVE  CreationsPublished'
<1>1. \A i \in Id : Publishing(i)' <=> Publishing(i)
  BY DEF Publishing, OthersStay
<1> QED BY <1>1 DEF TenantsInv, CreationsPublished, Exists

(* A step of one handler that leaves the tables, the cache and the events  *)
(* alone is about that handler only.                                       *)
LEMMA OneHandlerKeeps ==
  ASSUME TenantsInv, NEW h \in Handler, TenantsTypeOK', OthersStay(h),
         UNCHANGED <<table, asked, crossed, given, slugs, events, silent>>,
         pc[h] # "publish", pc'[h] # "publish",
         RequestKnown(h)' /\ CopyExplained(h)' /\ StoreExplained(h)'
  PROVE  TenantsInv'
<1>1. RowsStay /\ table' \in [Id -> Row \union {None}]
  BY DEF RowsStay, Exists, TenantsInv, TenantsTypeOK
<1>2. \A g \in Handler : RequestKnown(g)' /\ CopyExplained(g)' /\ StoreExplained(g)'
  BY <1>1, OthersKept
<1>3. CacheExplained' /\ CreationsPublished'
  BY <1>1, CacheKept, EventsKept
<1>4. LostOnlyWhenCrossed' /\ \A i \in Id : Exists(i)' => asked'[i] # None
  BY DEF TenantsInv, LostOnlyWhenCrossed, Workspaces, Exists
<1> QED BY <1>2, <1>3, <1>4 DEF TenantsInv

----------------------------------------------------------------------------
LEMMA TenantsInitInv == TenantsInit => TenantsInv
<1> SUFFICES ASSUME TenantsInit PROVE TenantsInv
  OBVIOUS
<1> USE TenantsAssumption DEF TenantsInit
<1>1. TenantsTypeOK
  BY DEF TenantsTypeOK, Place
<1>2. \A i \in Id : Exists(i) => asked[i] # None
  BY DEF Exists
<1>3. \A h \in Handler : RequestKnown(h) /\ CopyExplained(h) /\ StoreExplained(h)
  BY DEF RequestKnown, CopyExplained, StoreExplained
<1>4. LostOnlyWhenCrossed /\ CacheExplained
  BY DEF LostOnlyWhenCrossed, CacheExplained, Workspaces
<1>5. CreationsPublished
  BY DEF CreationsPublished, Publishing, Exists
<1> QED BY <1>1, <1>2, <1>3, <1>4, <1>5 DEF TenantsInv

(* A request arrives.                                                      *)
LEMMA BeginKeeps ==
  ASSUME TenantsInv, NEW h \in Handler, NEW r, NEW label,
         Begin(h, r, label), UNCHANGED <<table, slugs, copy, events, faults, history>>,
         \/ label \in {"find", "check", "insert"} /\ r \in Creations
         \/ label = "read" /\ r \in Updates
         \/ label \in {"idle", "ask"}
         \/ label = "store" /\ r \in Sought /\ WasAt(r.id, <<r.in, r.slug>>)
  PROVE  TenantsInv'
<1>1. /\ pc[h] = "idle" /\ pc'[h] = label /\ req'[h] = r /\ requests' \in 0..MaxRequests
      /\ DOMAIN pc' = Handler /\ DOMAIN req' = Handler /\ since[h] = {}
      /\ UNCHANGED <<table, asked, crossed, given, slugs, events, silent, copy, since, faults>>
  BY TenantsAssumption DEF Begin, Goto, TenantsInv, TenantsTypeOK, RequestKnown, history
<1>2. OthersStay(h)
  BY <1>1 DEF OthersStay, Begin, Goto, TenantsInv, TenantsTypeOK
<1>3. TenantsTypeOK'
  BY <1>1 DEF TenantsInv, TenantsTypeOK
<1>4. RequestKnown(h)' /\ CopyExplained(h)'
  BY <1>1 DEF RequestKnown, CopyExplained
<1>5. StoreExplained(h)'
  BY <1>1 DEF StoreExplained, WasAt, Workspaces, Exists
<1> QED BY <1>1, <1>2, <1>3, <1>4, <1>5, OneHandlerKeeps

(* What End does to its handler.                                           *)
LEMMA EndFacts ==
  ASSUME TenantsInv, NEW h \in Handler, End(h)
  PROVE  /\ OthersStay(h) /\ pc'[h] = "idle" /\ since'[h] = {}
         /\ DOMAIN pc' = Handler /\ DOMAIN req' = Handler
         /\ copy' \in [Handler -> Row \union Id \union {None}]
         /\ since' \in [Handler -> SUBSET Field]
         /\ RequestKnown(h)' /\ CopyExplained(h)' /\ StoreExplained(h)'
<1>1. /\ OthersStay(h) /\ pc'[h] = "idle" /\ since'[h] = {}
      /\ DOMAIN pc' = Handler /\ DOMAIN req' = Handler
      /\ copy' \in [Handler -> Row \union Id \union {None}]
      /\ since' \in [Handler -> SUBSET Field]
  BY DEF OthersStay, End, Goto, TenantsInv, TenantsTypeOK
<1>2. RequestKnown(h)' /\ CopyExplained(h)' /\ StoreExplained(h)'
  BY <1>1 DEF RequestKnown, CopyExplained, StoreExplained
<1> QED BY <1>1, <1>2

(* The request ends, and nothing but its handler changes.                  *)
LEMMA EndKeeps ==
  ASSUME TenantsInv, NEW h \in Handler, End(h), pc[h] # "publish", faults' \in 0..MaxFaults,
         UNCHANGED <<table, asked, crossed, given, slugs, events, silent, requests>>
  PROVE  TenantsInv'
<1>1. TenantsTypeOK'
  BY EndFacts DEF TenantsInv, TenantsTypeOK
<1> QED BY <1>1, EndFacts, OneHandlerKeeps

LEMMA FaultCounted ==
  ASSUME TenantsInv, Fault
  PROVE  faults' \in 0..MaxFaults
  BY TenantsAssumption DEF TenantsInv, TenantsTypeOK, Fault

(* Reads before a row is inserted.                                         *)
LEMMA LookupKeeps ==
  ASSUME TenantsInv, NEW h \in Handler, FindOrg(h) \/ CheckSlug(h) \/ ReadFails(h)
  PROVE  TenantsInv'
<1>1. /\ UNCHANGED <<table, asked, crossed, given, slugs, events, silent, requests>>
      /\ pc[h] # "publish"
      /\ End(h) \/ (pc[h] \in {"find", "check"} /\ UNCHANGED <<req, copy, since>>
                    /\ \E label \in {"check", "insert"} : Goto(h, label))
  BY DEF FindOrg, CheckSlug, ReadFails
<1>2. faults' \in 0..MaxFaults
  <2>1. faults' = faults \/ Fault
    BY DEF FindOrg, CheckSlug, ReadFails
  <2> QED BY <2>1, FaultCounted DEF TenantsInv, TenantsTypeOK
<1>3. CASE End(h)
  BY <1>1, <1>2, <1>3, EndKeeps
<1>4. CASE pc[h] \in {"find", "check"} /\ UNCHANGED <<req, copy, since>>
           /\ \E label \in {"check", "insert"} : Goto(h, label)
  <2>1. /\ pc'[h] \in {"check", "insert"} /\ DOMAIN pc' = Handler /\ OthersStay(h)
        /\ req[h] \in Creations /\ since[h] = {}
    BY <1>4 DEF Goto, OthersStay, TenantsInv, TenantsTypeOK, RequestKnown
  <2>2. TenantsTypeOK'
    BY <1>1, <1>2, <1>4, <2>1 DEF TenantsInv, TenantsTypeOK
  <2>3. RequestKnown(h)' /\ CopyExplained(h)' /\ StoreExplained(h)'
    BY <1>4, <2>1 DEF RequestKnown, CopyExplained, StoreExplained
  <2> QED BY <1>1, <2>1, <2>2, <2>3, OneHandlerKeeps
<1> QED BY <1>1, <1>3, <1>4

(* Reads before a workspace is written: the copy is what was asked for, as *)
(* far as the row is, with the changes of this request.                    *)
LEMMA ReadKeeps ==
  ASSUME TenantsInv, NEW h \in Handler, ReadWorkspace(h)
  PROVE  TenantsInv'
<1> DEFINE w == req[h].id
<1>1. /\ pc[h] = "read" /\ req[h] \in Updates /\ since[h] = {}
      /\ UNCHANGED <<table, asked, crossed, given, slugs, events, silent, requests, faults>>
  BY DEF ReadWorkspace, TenantsInv, RequestKnown
<1>2. CASE End(h)
  BY <1>1, <1>2, EndKeeps DEF TenantsInv, TenantsTypeOK
<1>3. CASE ~End(h)
  <2>1. /\ w \in Workspaces
        /\ copy' = [copy EXCEPT ![h] = Changed(h, table[w])]
        /\ \E label \in {"recheck", "write"} : Goto(h, label)
        /\ UNCHANGED <<req, since>>
    BY <1>3 DEF ReadWorkspace
  <2>2. w \in Id /\ table[w] \in Row /\ table[w].kind = "workspace"
    BY <2>1 DEF Workspaces, Exists, TenantsInv, TenantsTypeOK
  <2>3. Changed(h, table[w]) \in Row
    BY <1>1, <2>2, ChangedIsRow
  <2>4. /\ pc'[h] \in {"recheck", "write"} /\ DOMAIN pc' = Handler /\ OthersStay(h)
        /\ copy'[h] = Changed(h, table[w])
        /\ copy' \in [Handler -> Row \union Id \union {None}]
    BY <2>1, <2>3 DEF Goto, OthersStay, TenantsInv, TenantsTypeOK
  <2>5. TenantsTypeOK'
    BY <1>1, <2>1, <2>4 DEF TenantsInv, TenantsTypeOK
  <2>6. RequestKnown(h)' /\ StoreExplained(h)'
    BY <1>1, <2>1, <2>4 DEF RequestKnown, StoreExplained
  <2>7. \A f \in Field : table[w][f] # asked[w][f] => <<w, f>> \in crossed
    BY <2>1 DEF TenantsInv, LostOnlyWhenCrossed
  <2>8. CopyExplained(h)'
    <3>1. /\ req'[h] = req[h] /\ w \in Workspaces' /\ table' = table /\ asked' = asked
          /\ crossed' = crossed
          /\ \A f \in Field : Asks(h, f)' = Asks(h, f)
      BY <1>1, <2>1 DEF Asks, Workspaces, Exists
    <3>2. /\ copy'[h] \in Row /\ copy'[h].kind = "workspace" /\ copy'[h].in = table[w].in
          /\ \A f \in Field : copy'[h][f] = IF Asks(h, f) THEN req[h].change[f] ELSE table[w][f]
      BY <1>1, <2>2, <2>4, ChangedIsRow
    <3> QED BY <2>4, <2>7, <3>1, <3>2 DEF CopyExplained
  <2> QED BY <1>1, <2>4, <2>5, <2>6, <2>8, OneHandlerKeeps
<1> QED BY <1>2, <1>3

LEMMA RecheckKeeps ==
  ASSUME TenantsInv, NEW h \in Handler, RecheckSlug(h)
  PROVE  TenantsInv'
<1>1. /\ pc[h] = "recheck"
      /\ UNCHANGED <<table, asked, crossed, given, slugs, events, silent, requests>>
  BY DEF RecheckSlug
<1>2. faults' \in 0..MaxFaults
  <2>1. faults' = faults \/ Fault
    BY DEF RecheckSlug
  <2> QED BY <2>1, FaultCounted DEF TenantsInv, TenantsTypeOK
<1>3. CASE End(h)
  BY <1>1, <1>2, <1>3, EndKeeps
<1>4. CASE ~End(h)
  <2>1. Goto(h, "write") /\ UNCHANGED <<req, copy, since>>
    BY <1>4 DEF RecheckSlug
  <2>2. pc'[h] = "write" /\ DOMAIN pc' = Handler /\ OthersStay(h)
    BY <2>1 DEF Goto, OthersStay, TenantsInv, TenantsTypeOK
  <2>3. TenantsTypeOK'
    BY <1>1, <1>2, <2>1, <2>2 DEF TenantsInv, TenantsTypeOK
  <2>4. RequestKnown(h)' /\ CopyExplained(h)' /\ StoreExplained(h)'
    <3>1. RequestKnown(h) /\ CopyExplained(h)
      BY DEF TenantsInv
    <3>2. /\ RequestKnown(h)'
          /\ StoreExplained(h)'
      BY <1>1, <2>1, <2>2, <3>1 DEF RequestKnown, StoreExplained
    <3>3. CopyExplained(h)'
      BY <1>1, <2>1, <2>2, <3>1 DEF CopyExplained, Asks, Workspaces, Exists
    <3> QED BY <3>2, <3>3
  <2> QED BY <1>1, <2>2, <2>3, <2>4, OneHandlerKeeps
<1> QED BY <1>3, <1>4

(* The middleware has found a workspace and remembers it.                  *)
LEMMA StoreKeeps ==
  ASSUME TenantsInv, NEW h \in Handler, Store(h)
  PROVE  TenantsInv'
<1> DEFINE p == <<req[h].in, req[h].slug>>
<1>1. /\ pc[h] = "store" /\ End(h)
      /\ slugs' = [slugs EXCEPT ![p] = req[h].id]
      /\ UNCHANGED <<table, events, requests, faults, asked, crossed, given, silent>>
  BY DEF Store, CacheKey
<1>2. req[h] \in Sought /\ WasAt(req[h].id, p)
  BY <1>1 DEF TenantsInv, StoreExplained
<1>3. p \in Place /\ req[h].id \in Id
  BY <1>2 DEF Sought, Place
<1> HIDE DEF p
<1>4. TenantsTypeOK'
  BY <1>1, <1>3, EndFacts DEF TenantsInv, TenantsTypeOK
<1>5. RowsStay
  BY <1>1 DEF RowsStay, Exists
<1>6. \A g \in Handler : RequestKnown(g)' /\ CopyExplained(g)' /\ StoreExplained(g)'
  BY <1>1, <1>4, <1>5, EndFacts, OthersKept DEF TenantsTypeOK
<1>7. CacheExplained'
  <2> SUFFICES ASSUME NEW q \in Place, slugs'[q] # None
               PROVE  WasAt(slugs'[q], q)
    BY <1>1 DEF CacheExplained, WasAt, Workspaces, Exists
  <2>1. slugs'[q] = IF q = p THEN req[h].id ELSE slugs[q]
    BY <1>1 DEF TenantsInv, TenantsTypeOK
  <2> QED BY <1>2, <2>1 DEF TenantsInv, CacheExplained
<1>8. CreationsPublished'
  BY <1>1, EndFacts, EventsKept
<1>9. LostOnlyWhenCrossed' /\ \A i \in Id : Exists(i)' => asked'[i] # None
  BY <1>1 DEF TenantsInv, LostOnlyWhenCrossed, Workspaces, Exists
<1> QED BY <1>4, <1>6, <1>7, <1>8, <1>9 DEF TenantsInv

----------------------------------------------------------------------------
(* A row comes in, as it was asked for.                                    *)
LEMMA RowInsertedFacts ==
  ASSUME TenantsInv, NEW h \in Handler, NEW i \in Id, RowInserted(h, i), pc[h] = "insert"
  PROVE  /\ ~Exists(i) /\ RowsStay
         /\ table' \in [Id -> Row \union {None}] /\ asked' \in [Id -> Row \union {None}]
         /\ table'[i] = NewRow(h) /\ asked'[i] = NewRow(h)
         /\ NewRow(h) # None /\ NewRow(h).kind = req[h].kind
         /\ \A j \in Id \ {i} : table'[j] = table[j] /\ asked'[j] = asked[j]
         /\ UNCHANGED <<slugs, crossed, given>> =>
               /\ \A j \in Id : Exists(j)' => asked'[j] # None
               /\ LostOnlyWhenCrossed' /\ CacheExplained'
<1>1. NewRow(h) \in Row /\ NewRow(h) # None /\ NewRow(h).kind = req[h].kind
  BY NewRowIsRow DEF TenantsInv, RequestKnown
<1>2. /\ ~Exists(i)
      /\ table' \in [Id -> Row \union {None}] /\ asked' \in [Id -> Row \union {None}]
      /\ table'[i] = NewRow(h) /\ asked'[i] = NewRow(h)
      /\ \A j \in Id \ {i} : table'[j] = table[j] /\ asked'[j] = asked[j]
  BY <1>1 DEF RowInserted, TenantsInv, TenantsTypeOK
<1>3. RowsStay
  BY <1>2 DEF RowsStay, Exists
<1>4. ASSUME UNCHANGED <<slugs, crossed, given>>
      PROVE  /\ \A j \in Id : Exists(j)' => asked'[j] # None
             /\ LostOnlyWhenCrossed' /\ CacheExplained'
  <2>1. CacheExplained'
    BY <1>2, <1>3, <1>4, CacheKept
  <2>2. \A j \in Id : Exists(j)' => asked'[j] # None
    BY <1>1, <1>2 DEF TenantsInv, Exists
  <2>3. LostOnlyWhenCrossed'
    BY <1>2, <1>4 DEF TenantsInv, LostOnlyWhenCrossed, Workspaces, Exists
  <2> QED BY <2>1, <2>2, <2>3
<1> QED BY <1>1, <1>2, <1>3, <1>4

LEMMA InsertKeeps ==
  ASSUME TenantsInv, NEW h \in Handler, NEW i \in Id, Insert(h, i)
  PROVE  TenantsInv'
<1>1. /\ pc[h] = "insert" /\ RowInserted(h, i) /\ pc'[h] = "publish" /\ copy'[h] = i
      /\ DOMAIN pc' = Handler /\ OthersStay(h) /\ since[h] = {}
      /\ copy' \in [Handler -> Row \union Id \union {None}]
      /\ UNCHANGED <<slugs, req, events, requests, faults, since, crossed, given, silent>>
  BY DEF Insert, Goto, OthersStay, TenantsInv, TenantsTypeOK, RequestKnown
<1>2. TenantsTypeOK'
  BY <1>1, RowInsertedFacts DEF TenantsInv, TenantsTypeOK
<1>3. Exists(i)'
  BY <1>1, RowInsertedFacts DEF Exists
<1>4. RequestKnown(h)' /\ CopyExplained(h)' /\ StoreExplained(h)'
  BY <1>1, <1>3 DEF RequestKnown, CopyExplained, StoreExplained, Exists
<1>5. \A g \in Handler : RequestKnown(g)' /\ CopyExplained(g)' /\ StoreExplained(g)'
  BY <1>1, <1>4, RowInsertedFacts, OthersKept
<1>6. CreationsPublished'
  <2>1. \A j \in Id : Publishing(j)' <=> Publishing(j) \/ j = i
    BY <1>1 DEF Publishing, OthersStay
  <2> QED BY <1>1, <1>3, <2>1, RowInsertedFacts DEF TenantsInv, CreationsPublished, Exists
<1> QED BY <1>1, <1>2, <1>5, <1>6, RowInsertedFacts DEF TenantsInv

LEMMA InsertKeyKeeps ==
  ASSUME TenantsInv, NEW h \in Handler, NEW i \in Id, InsertKey(h, i)
  PROVE  TenantsInv'
<1>1. /\ pc[h] = "insert" /\ RowInserted(h, i) /\ End(h) /\ req[h].kind = "key"
      /\ UNCHANGED <<slugs, events, requests, faults, crossed, given, silent>>
  BY DEF InsertKey
<1>2. TenantsTypeOK'
  BY <1>1, EndFacts, RowInsertedFacts DEF TenantsInv, TenantsTypeOK
<1>3. \A g \in Handler : RequestKnown(g)' /\ CopyExplained(g)' /\ StoreExplained(g)'
  BY <1>1, EndFacts, RowInsertedFacts, OthersKept
<1>4. CreationsPublished'
  <2>1. \A j \in Id : Publishing(j)' <=> Publishing(j)
    BY <1>1, EndFacts DEF Publishing, OthersStay
  <2> QED BY <1>1, <2>1, RowInsertedFacts DEF TenantsInv, CreationsPublished, Exists
<1> QED BY <1>1, <1>2, <1>3, <1>4, RowInsertedFacts DEF TenantsInv

LEMMA InsertFailsKeeps ==
  ASSUME TenantsInv, NEW h \in Handler, InsertFails(h)
  PROVE  TenantsInv'
<1>1. /\ pc[h] = "insert" /\ End(h)
      /\ UNCHANGED <<slugs, events, requests, crossed, given>>
  BY DEF InsertFails
<1>2. faults' \in 0..MaxFaults
  <2>1. faults' = faults \/ Fault
    BY DEF InsertFails
  <2> QED BY <2>1, FaultCounted DEF TenantsInv, TenantsTypeOK
<1>3. CASE UNCHANGED <<table, asked, silent>>
  BY <1>1, <1>2, <1>3, EndKeeps
<1>4. CASE \E i \in Id : RowInserted(h, i) /\ silent' = silent \union {i}
  <2>1. PICK i \in Id : RowInserted(h, i) /\ silent' = silent \union {i}
    BY <1>4
  <2>2. TenantsTypeOK'
    BY <1>1, <1>2, <2>1, EndFacts, RowInsertedFacts DEF TenantsInv, TenantsTypeOK
  <2>3. \A g \in Handler : RequestKnown(g)' /\ CopyExplained(g)' /\ StoreExplained(g)'
    BY <1>1, <2>1, EndFacts, RowInsertedFacts, OthersKept
  <2>4. CreationsPublished'
    <3>1. \A j \in Id : Publishing(j)' <=> Publishing(j)
      BY <1>1, EndFacts DEF Publishing, OthersStay
    <3> QED BY <1>1, <2>1, <3>1, RowInsertedFacts DEF TenantsInv, CreationsPublished, Exists
  <2> QED BY <1>1, <2>1, <2>2, <2>3, <2>4, RowInsertedFacts DEF TenantsInv
<1> QED BY <1>3, <1>4 DEF InsertFails

(* The event goes out, or an error keeps it back.                          *)
LEMMA PublishKeeps ==
  ASSUME TenantsInv, NEW h \in Handler, Publish(h)
  PROVE  TenantsInv'
<1>1. /\ pc[h] = "publish" /\ End(h) /\ copy[h] \in Id /\ Exists(copy[h])
      /\ UNCHANGED <<table, slugs, requests, asked, crossed, given>>
      /\ \/ events' = events \union {copy[h]} /\ silent' = silent
         \/ events' = events /\ silent' = silent \union {copy[h]}
  BY DEF Publish, TenantsInv, RequestKnown
<1>2. faults' \in 0..MaxFaults
  <2>1. faults' = faults \/ Fault
    BY DEF Publish
  <2> QED BY <2>1, FaultCounted DEF TenantsInv, TenantsTypeOK
<1>3. TenantsTypeOK'
  BY <1>1, <1>2, EndFacts DEF TenantsInv, TenantsTypeOK
<1>4. RowsStay
  BY <1>1 DEF RowsStay, Exists
<1>5. \A g \in Handler : RequestKnown(g)' /\ CopyExplained(g)' /\ StoreExplained(g)'
  BY <1>1, <1>3, <1>4, EndFacts, OthersKept DEF TenantsTypeOK
<1>6. CacheExplained'
  BY <1>1, <1>3, <1>4, CacheKept DEF TenantsTypeOK
<1>7. CreationsPublished'
  <2>1. \A j \in Id : /\ Publishing(j)' => Publishing(j)
                      /\ Publishing(j) => Publishing(j)' \/ j = copy[h]
    BY <1>1, EndFacts DEF Publishing, OthersStay
  <2> QED BY <1>1, <2>1 DEF TenantsInv, CreationsPublished, Exists
<1>8. LostOnlyWhenCrossed' /\ \A i \in Id : Exists(i)' => asked'[i] # None
  BY <1>1 DEF TenantsInv, LostOnlyWhenCrossed, Workspaces, Exists
<1> QED BY <1>3, <1>5, <1>6, <1>7, <1>8 DEF TenantsInv

(* Revoking a key leaves all but its "active".                             *)
LEMMA RevokeKeyKeeps ==
  ASSUME TenantsInv, NEW h \in Handler, NEW k \in Id, RevokeKey(h, k)
  PROVE  TenantsInv'
<1>1. /\ pc[h] = "idle" /\ pc'[h] = "idle" /\ requests' \in 0..MaxRequests
      /\ DOMAIN pc' = Handler /\ DOMAIN req' = Handler /\ since[h] = {}
      /\ UNCHANGED <<asked, crossed, given, slugs, events, silent, copy, since, faults>>
      /\ Exists(k) /\ table[k].kind = "key" /\ table' = [table EXCEPT ![k].active = FALSE]
  BY TenantsAssumption DEF RevokeKey, Begin, Goto, TenantsInv, TenantsTypeOK, RequestKnown, history
<1>2. OthersStay(h)
  BY <1>1 DEF OthersStay, RevokeKey, Begin, Goto, TenantsInv, TenantsTypeOK
<1>3. table[k] \in Row
  BY <1>1 DEF Exists, TenantsInv, TenantsTypeOK
<1>4. /\ [table[k] EXCEPT !.active = FALSE] \in Row
      /\ [table[k] EXCEPT !.active = FALSE].kind = table[k].kind
      /\ [table[k] EXCEPT !.active = FALSE].in = table[k].in
      /\ [table[k] EXCEPT !.active = FALSE].slug = table[k].slug
      /\ [table[k] EXCEPT !.active = FALSE].name = table[k].name
  BY <1>3 DEF Row
<1>5. /\ table' \in [Id -> Row \union {None}]
      /\ \A j \in Id \ {k} : table'[j] = table[j]
      /\ table'[k] = [table[k] EXCEPT !.active = FALSE]
  BY <1>1, <1>4 DEF TenantsInv, TenantsTypeOK
<1>6. /\ table'[k] \in Row /\ table'[k].kind = "key" /\ table'[k].in = table[k].in
      /\ \A f \in Field : table'[k][f] = table[k][f]
  BY <1>1, <1>3, <1>4, <1>5, FieldsAreFields DEF Field
<1>7. RowsStay /\ \A j \in Id : (Exists(j)' <=> Exists(j)) /\ (Exists(j) => table'[j].kind = table[j].kind)
  BY <1>1, <1>5, <1>6, TenantsAssumption DEF RowsStay, Exists
<1>8. TenantsTypeOK'
  BY <1>1, <1>5 DEF TenantsInv, TenantsTypeOK
<1>9. RequestKnown(h)' /\ CopyExplained(h)' /\ StoreExplained(h)'
  BY <1>1 DEF RequestKnown, CopyExplained, StoreExplained
<1>10. \A g \in Handler : RequestKnown(g)' /\ CopyExplained(g)' /\ StoreExplained(g)'
  BY <1>1, <1>2, <1>5, <1>7, <1>9, OthersKept
<1>11. CacheExplained'
  BY <1>1, <1>5, <1>7, CacheKept
<1>12. CreationsPublished'
  <2>1. \A j \in Id : Publishing(j)' <=> Publishing(j)
    BY <1>1, <1>2 DEF Publishing, OthersStay
  <2> QED BY <1>1, <1>7, <2>1 DEF TenantsInv, CreationsPublished
<1>13. LostOnlyWhenCrossed' /\ \A i \in Id : Exists(i)' => asked'[i] # None
  <2>1. \A j \in Workspaces' : j \in Workspaces /\ \A f \in Field : table'[j][f] = table[j][f]
    BY <1>7 DEF Workspaces, RowsStay
  <2> QED BY <1>1, <1>7, <2>1 DEF TenantsInv, LostOnlyWhenCrossed
<1> QED BY <1>8, <1>10, <1>11, <1>12, <1>13 DEF TenantsInv

----------------------------------------------------------------------------
(* A workspace is written: what others have not seen of it is remembered,  *)
(* and what this handler has not seen is crossed.                          *)
LEMMA WriteKeeps ==
  ASSUME TenantsInv, NEW h \in Handler, pc[h] = "write", RowWritten(h), EndOfWrite(h),
         faults' \in 0..MaxFaults, UNCHANGED <<slugs, events, requests, silent>>
  PROVE  TenantsInv'
<1> DEFINE w == req[h].id
           asks == {f \in Field : Asks(h, f)}
<1>1. /\ req[h] \in Updates /\ w \in Id /\ table[w] \in Row /\ table[w] # None
      /\ table[w].kind = "workspace" /\ asked[w] \in Row
      /\ copy[h] \in Row /\ copy[h].kind = "workspace" /\ copy[h].in = table[w].in
      /\ \A f \in Field :
            IF Asks(h, f) THEN copy[h][f] = req[h].change[f]
            ELSE copy[h][f] # asked[w][f] => f \in since[h] \/ <<w, f>> \in crossed
  BY DEF TenantsInv, TenantsTypeOK, RequestKnown, CopyExplained, Workspaces, Exists
<1>2. /\ table' = [table EXCEPT ![w] = copy[h]]
      /\ asked' = [asked EXCEPT ![w] = Changed(h, asked[w])]
      /\ crossed' = (crossed \ {<<w, f>> : f \in asks}) \union {<<w, f>> : f \in since[h] \ asks}
      /\ given' = given \union {<<w, table[w].slug>>}
  BY DEF RowWritten, WrittenRow
<1>3. /\ pc' = [pc EXCEPT ![h] = "idle"] /\ req' = [req EXCEPT ![h] = None]
      /\ copy' = [copy EXCEPT ![h] = None]
      /\ since' = [SinceOthers(h) EXCEPT ![h] = {}]
  BY DEF EndOfWrite, Goto
<1>4. /\ Changed(h, asked[w]) \in Row /\ Changed(h, asked[w]) # None
      /\ \A f \in Field : Changed(h, asked[w])[f]
                             = IF Asks(h, f) THEN req[h].change[f] ELSE asked[w][f]
  BY <1>1, ChangedIsRow
<1>5. /\ table' \in [Id -> Row \union {None}] /\ asked' \in [Id -> Row \union {None}]
      /\ table'[w] = copy[h] /\ asked'[w] = Changed(h, asked[w])
      /\ \A i \in Id \ {w} : table'[i] = table[i] /\ asked'[i] = asked[i]
  BY <1>1, <1>2, <1>4 DEF TenantsInv, TenantsTypeOK
<1>6. copy[h] # None
  BY <1>1, TenantsAssumption
<1>7. \A i \in Id : /\ Exists(i)' <=> Exists(i)
                    /\ Exists(i) => table'[i].kind = table[i].kind /\ table'[i].in = table[i].in
  BY <1>1, <1>5, <1>6 DEF Exists
<1>8. /\ DOMAIN pc' = Handler /\ DOMAIN req' = Handler
      /\ pc'[h] = "idle" /\ since'[h] = {}
      /\ copy' \in [Handler -> Row \union Id \union {None}]
      /\ \A g \in Handler \ {h} : /\ pc'[g] = pc[g] /\ req'[g] = req[g] /\ copy'[g] = copy[g]
                                  /\ since'[g] = SinceOthers(h)[g]
  BY <1>3 DEF TenantsInv, TenantsTypeOK, SinceOthers
<1>9. since' \in [Handler -> SUBSET Field]
  <2>1. SinceOthers(h) \in [Handler -> SUBSET Field]
    BY DEF SinceOthers, TenantsInv, TenantsTypeOK
  <2> QED BY <1>3, <2>1
<1>10. \A g \in Handler \ {h} :
         /\ since[g] \subseteq since'[g]
         /\ pc[g] \in {"recheck", "write"} /\ req[g].id = w => asks \subseteq since'[g]
         /\ pc[g] \notin {"recheck", "write"} => since'[g] = since[g]
  BY <1>8 DEF SinceOthers
<1>11. /\ \A x \in crossed : (\A f \in asks : x # <<w, f>>) => x \in crossed'
       /\ \A f \in since[h] : ~Asks(h, f) => <<w, f>> \in crossed'
  <2>1. since[h] \subseteq Field
    BY DEF TenantsInv, TenantsTypeOK
  <2> QED BY <1>2, <2>1
<1>12. crossed' \subseteq Id \X Field /\ given' \subseteq Place
  <2>1. table[w].slug \in Slug
    BY <1>1 DEF Row
  <2>2. since[h] \subseteq Field /\ crossed \subseteq Id \X Field /\ given \subseteq Place
    BY DEF TenantsInv, TenantsTypeOK
  <2> QED BY <1>1, <1>2, <2>1, <2>2 DEF Place
<1>13. \A f \in Field : ~Asks(h, f) => f \notin asks
  OBVIOUS
<1> HIDE DEF w, asks
<1>14. TenantsTypeOK'
  BY <1>5, <1>8, <1>9, <1>12 DEF TenantsInv, TenantsTypeOK
<1>15. \A i \in Id : Exists(i)' => asked'[i] # None
  BY <1>4, <1>5, <1>7 DEF TenantsInv
<1>16. LostOnlyWhenCrossed'
  <2> SUFFICES ASSUME NEW i \in Workspaces', NEW f \in Field, table'[i][f] # asked'[i][f]
               PROVE  <<i, f>> \in crossed'
    BY DEF LostOnlyWhenCrossed
  <2>1. i \in Workspaces /\ i \in Id
    BY <1>7 DEF Workspaces
  <2>2. CASE i = w
    <3>1. ~Asks(h, f) /\ copy[h][f] # asked[w][f]
      BY <1>1, <1>4, <1>5, <2>2
    <3>2. f \in since[h] \/ <<w, f>> \in crossed
      BY <1>1, <3>1
    <3>3. \A e \in asks : <<w, f>> # <<w, e>>
      BY <1>13, <3>1
    <3> QED BY <1>11, <2>2, <3>1, <3>2, <3>3
  <2>3. CASE i # w
    <3>1. <<i, f>> \in crossed
      BY <1>5, <2>1, <2>3 DEF TenantsInv, LostOnlyWhenCrossed
    <3> QED BY <1>11, <2>3, <3>1
  <2> QED BY <2>2, <2>3
<1>17. \A i \in Id : \A p \in Place : WasAt(i, p) => WasAt(i, p)'
  <2> SUFFICES ASSUME NEW i \in Id, NEW p \in Place, WasAt(i, p)
               PROVE  WasAt(i, p)'
    OBVIOUS
  <2>1. i \in Workspaces' /\ table'[i].in = p[1]
    BY <1>7 DEF WasAt, Workspaces
  <2>2. given \subseteq given' /\ <<w, table[w].slug>> \in given'
    BY <1>2
  <2>3. CASE i = w
    BY <2>1, <2>2, <2>3 DEF WasAt
  <2>4. CASE i # w
    BY <1>5, <2>1, <2>2, <2>4 DEF WasAt
  <2> QED BY <2>3, <2>4
<1>18. CacheExplained'
  <2> SUFFICES ASSUME NEW p \in Place, slugs[p] # None PROVE WasAt(slugs[p], p)'
    BY DEF CacheExplained
  <2>1. slugs[p] \in Id /\ WasAt(slugs[p], p)
    BY DEF TenantsInv, TenantsTypeOK, CacheExplained
  <2> QED BY <1>17, <2>1
<1>19. CreationsPublished'
  <2>1. \A i \in Id : Publishing(i)' <=> Publishing(i)
    BY <1>8 DEF Publishing
  <2> QED BY <1>7, <2>1 DEF TenantsInv, CreationsPublished
<1>20. ASSUME NEW g \in Handler
       PROVE  RequestKnown(g)' /\ CopyExplained(g)' /\ StoreExplained(g)'
  <2>1. CASE g = h
    BY <1>8, <2>1 DEF RequestKnown, CopyExplained, StoreExplained
  <2>2. CASE g # h
    <3>1. /\ pc'[g] = pc[g] /\ req'[g] = req[g] /\ copy'[g] = copy[g]
          /\ RequestKnown(g) /\ CopyExplained(g) /\ StoreExplained(g)
      BY <1>8, <2>2 DEF TenantsInv
    <3>2. RequestKnown(g)'
      BY <1>7, <1>10, <2>2, <3>1 DEF RequestKnown
    <3>3. CopyExplained(g)'
      <4> SUFFICES ASSUME pc[g] \in {"recheck", "write"} PROVE CopyExplained(g)'
        BY <3>1 DEF CopyExplained
      <4> DEFINE v == req[g].id
      <4>1. /\ v \in Workspaces /\ v \in Id
            /\ copy[g] \in Row /\ copy[g].kind = "workspace" /\ copy[g].in = table[v].in
            /\ \A f \in Field :
                  IF Asks(g, f) THEN copy[g][f] = req[g].change[f]
                  ELSE copy[g][f] # asked[v][f] => f \in since[g] \/ <<v, f>> \in crossed
        BY <3>1 DEF CopyExplained, Workspaces
      <4>2. v \in Workspaces' /\ table'[v].in = table[v].in
        BY <1>7, <4>1 DEF Workspaces
      <4>3. \A f \in Field : Asks(g, f)' = Asks(g, f)
        BY <3>1 DEF Asks
      <4>4. ASSUME NEW f \in Field, ~Asks(g, f), copy[g][f] # asked'[v][f]
            PROVE  f \in since'[g] \/ <<v, f>> \in crossed'
        <5>1. CASE v = w /\ Asks(h, f)
          BY <1>10, <2>2, <5>1 DEF asks
        <5>2. CASE v = w /\ ~Asks(h, f)
          <6>1. copy[g][f] # asked[v][f]
            BY <1>4, <1>5, <4>4, <5>2
          <6>2. \A e \in asks : <<v, f>> # <<w, e>>
            BY <1>13, <5>2
          <6> QED BY <1>10, <1>11, <2>2, <4>1, <4>4, <6>1, <6>2
        <5>3. CASE v # w
          <6>1. copy[g][f] # asked[v][f]
            BY <1>5, <4>1, <4>4, <5>3
          <6>2. \A e \in asks : <<v, f>> # <<w, e>>
            BY <5>3
          <6> QED BY <1>10, <1>11, <2>2, <4>1, <4>4, <6>1, <6>2
        <5> QED BY <5>1, <5>2, <5>3
      <4> QED BY <3>1, <4>1, <4>2, <4>3, <4>4 DEF CopyExplained
    <3>4. StoreExplained(g)'
      <4> SUFFICES ASSUME pc[g] = "store" PROVE StoreExplained(g)'
        BY <3>1 DEF StoreExplained
      <4>1. req[g] \in Sought /\ WasAt(req[g].id, <<req[g].in, req[g].slug>>)
        BY <3>1 DEF StoreExplained
      <4>2. req[g].id \in Id /\ <<req[g].in, req[g].slug>> \in Place
        BY <4>1 DEF Sought, Place
      <4>3. WasAt(req[g].id, <<req[g].in, req[g].slug>>)'
        BY <1>17, <4>1, <4>2, <3>1
      <4> QED BY <3>1, <4>1, <4>3 DEF StoreExplained
    <3> QED BY <3>2, <3>3, <3>4
  <2> QED BY <2>1, <2>2
<1> QED BY <1>14, <1>15, <1>16, <1>18, <1>19, <1>20 DEF TenantsInv

LEMMA UpdateKeeps ==
  ASSUME TenantsInv, NEW h \in Handler, WriteWorkspace(h) \/ WriteFails(h)
  PROVE  TenantsInv'
<1>1. pc[h] = "write" /\ UNCHANGED <<slugs, events, requests, silent>>
  BY DEF WriteWorkspace, WriteFails
<1>2. faults' \in 0..MaxFaults
  <2>1. faults' = faults \/ Fault
    BY DEF WriteWorkspace, WriteFails
  <2> QED BY <2>1, FaultCounted DEF TenantsInv, TenantsTypeOK
<1>3. CASE RowWritten(h) /\ EndOfWrite(h)
  BY <1>1, <1>2, <1>3, WriteKeeps
<1>4. CASE End(h) /\ UNCHANGED <<table, asked, crossed, given>>
  BY <1>1, <1>2, <1>4, EndKeeps
<1> QED BY <1>3, <1>4 DEF WriteWorkspace, WriteFails

----------------------------------------------------------------------------
LEMMA ArrivalKeeps ==
  ASSUME TenantsInv, NEW h \in Handler,
         \/ \E c \in Creations :
               \/ CreateOrg(h, c) \/ CreateApp(h, c) \/ CreateWorkspace(h, c)
               \/ Register(h, c) \/ CreateAPIKey(h, c)
         \/ \E u \in Updates : Update(h, u)
         \/ \E o \in Id, s \in Slug : ResolveHit(h, o, s) \/ ResolveMiss(h, o, s)
  PROVE  TenantsInv'
<1>1. ASSUME NEW c \in Creations,
             \/ CreateOrg(h, c) \/ CreateApp(h, c) \/ CreateWorkspace(h, c)
             \/ Register(h, c) \/ CreateAPIKey(h, c)
      PROVE  TenantsInv'
  <2>1. \E label \in {"find", "check", "insert"} :
           Begin(h, c, label) /\ UNCHANGED <<table, slugs, copy, events, faults, history>>
    BY <1>1 DEF CreateOrg, CreateApp, CreateWorkspace, Register, CreateAPIKey, Asked
  <2> QED BY <2>1, BeginKeeps
<1>2. ASSUME NEW u \in Updates, Update(h, u) PROVE TenantsInv'
  BY <1>2, BeginKeeps DEF Update
<1>3. ASSUME NEW o \in Id, NEW s \in Slug, ResolveHit(h, o, s) PROVE TenantsInv'
  BY <1>3, BeginKeeps DEF ResolveHit
<1>4. ASSUME NEW o \in Id, NEW s \in Slug, ResolveMiss(h, o, s) PROVE TenantsInv'
  <2>1. PICK w \in Workspaces :
          /\ table[w].in = o /\ table[w].slug = s
          /\ Begin(h, [in |-> o, slug |-> s, id |-> w], "store")
    BY <1>4 DEF ResolveMiss
  <2> DEFINE r == [in |-> o, slug |-> s, id |-> w]
  <2>2. r \in Sought /\ WasAt(r.id, <<r.in, r.slug>>)
    BY <2>1 DEF Sought, WasAt, Workspaces
  <2>3. UNCHANGED <<table, slugs, copy, events, faults, history>>
    BY <1>4 DEF ResolveMiss
  <2> HIDE DEF r
  <2>4. Begin(h, r, "store")
    BY <2>1 DEF r
  <2> QED BY <2>2, <2>3, <2>4, BeginKeeps
<1> QED BY <1>1, <1>2, <1>3, <1>4

LEMMA TenantsStepInv == TenantsInv /\ [TenantsNext]_tenantVars => TenantsInv'
<1> SUFFICES ASSUME TenantsInv, [TenantsNext]_tenantVars PROVE TenantsInv'
  OBVIOUS
<1>1. CASE UNCHANGED tenantVars
  BY <1>1 DEF tenantVars, TenantsInv, TenantsTypeOK, RequestKnown, CopyExplained, StoreExplained,
     Asks, Exists, Workspaces, WasAt, LostOnlyWhenCrossed, CreationsPublished, Publishing, CacheExplained
<1>2. CASE TenantsNext
  <2>1. PICK h \in Handler :
          \/ \E c \in Creations :
                \/ CreateOrg(h, c) \/ CreateApp(h, c) \/ CreateWorkspace(h, c)
                \/ Register(h, c) \/ CreateAPIKey(h, c)
          \/ FindOrg(h) \/ CheckSlug(h) \/ InsertFails(h) \/ Publish(h)
          \/ \E i \in Id : Insert(h, i) \/ InsertKey(h, i) \/ RevokeKey(h, i)
          \/ \E u \in Updates : Update(h, u)
          \/ ReadWorkspace(h) \/ RecheckSlug(h) \/ WriteWorkspace(h) \/ WriteFails(h)
          \/ \E o \in Id, s \in Slug : ResolveHit(h, o, s) \/ ResolveMiss(h, o, s)
          \/ Store(h)
          \/ ReadFails(h)
    BY <1>2 DEF TenantsNext
  <2> QED BY <2>1, ArrivalKeeps, LookupKeeps, InsertFailsKeeps, PublishKeeps, InsertKeeps,
     InsertKeyKeeps, RevokeKeyKeeps, ReadKeeps, RecheckKeeps, UpdateKeeps, StoreKeeps
<1> QED BY <1>1, <1>2

LEMMA TenantsInvariance == TenantsSpec => []TenantsInv
<1> QED BY TenantsInitInv, TenantsStepInv, PTL DEF TenantsSpec

(* UpdateWorkspace writes a whole row that it has read before.  A field    *)
(* differs from what was asked for last only if a request that had read    *)
(* the workspace before that wrote it back after.                          *)
THEOREM UpdatesLostByCrossing == TenantsSpec => []LostOnlyWhenCrossed
<1>1. TenantsInv => LostOnlyWhenCrossed
  BY DEF TenantsInv
<1> QED BY <1>1, TenantsInvariance, PTL

(* The use cases publish a creation if, and only if, the row is in its     *)
(* table; the only rows without event are those of requests with errors.   *)
THEOREM EventsFollowRows == TenantsSpec => []CreationsPublished
<1>1. TenantsInv => CreationsPublished
  BY DEF TenantsInv
<1> QED BY <1>1, TenantsInvariance, PTL

(* The workspaceCache of the middleware, which nothing invalidates, is     *)
(* wrong only about slugs that have been given up, and never about the     *)
(* organization.                                                           *)
THEOREM CachedSlugsExplained == TenantsSpec => []CachedSlugExplained
<1>1. TenantsInv => CachedSlugExplained
  BY DEF TenantsInv, CacheExplained, WasAt, CachedSlugExplained
<1> QED BY <1>1, TenantsInvariance, PTL

(* What is in the tables for good: no step of a use case removes a row or  *)
(* gives it another kind or place, and a revoked key stays revoked.        *)
ForGood ==
  \A i \in Id : Exists(i) =>
      /\ Exists(i)' /\ table'[i].kind = table[i].kind /\ table'[i].in = table[i].in
      /\ table[i].kind = "key" /\ ~table[i].active => ~table'[i].active

LEMMA WrittenForGood ==
  ASSUME TenantsInv, NEW h \in Handler, pc[h] = "write", RowWritten(h)
  PROVE  ForGood
<1> DEFINE w == req[h].id
<1>1. /\ w \in Id /\ table[w].kind = "workspace"
      /\ copy[h] \in Row /\ copy[h].kind = "workspace" /\ copy[h].in = table[w].in
  BY DEF TenantsInv, CopyExplained, Workspaces
<1>2. table' = [table EXCEPT ![w] = copy[h]] /\ copy[h] # None /\ DOMAIN table = Id
  BY <1>1, TenantsAssumption DEF RowWritten, WrittenRow, TenantsInv, TenantsTypeOK
<1> QED BY <1>1, <1>2 DEF ForGood, Exists

LEMMA InsertedForGood ==
  ASSUME TenantsInv, NEW h \in Handler, NEW i \in Id, RowInserted(h, i)
  PROVE  ForGood
<1>1. ~Exists(i) /\ table' = [table EXCEPT ![i] = NewRow(h)] /\ DOMAIN table = Id
  BY DEF RowInserted, TenantsInv, TenantsTypeOK
<1> QED BY <1>1 DEF ForGood, Exists

LEMMA RevokedForGood ==
  ASSUME TenantsInv, NEW h \in Handler, NEW i \in Id, RevokeKey(h, i)
  PROVE  ForGood
<1>1. /\ Exists(i) /\ table' = [table EXCEPT ![i].active = FALSE]
      /\ table \in [Id -> Row \union {None}]
  BY DEF RevokeKey, TenantsInv, TenantsTypeOK
<1>2. table[i] \in Row
  BY <1>1 DEF Exists
<1>3. /\ [table[i] EXCEPT !.active = FALSE] \in Row
      /\ [table[i] EXCEPT !.active = FALSE].kind = table[i].kind
      /\ [table[i] EXCEPT !.active = FALSE].in = table[i].in
      /\ [table[i] EXCEPT !.active = FALSE].active = FALSE
  BY <1>2 DEF Row
<1>4. table'[i] = [table[i] EXCEPT !.active = FALSE] /\ \A j \in Id \ {i} : table'[j] = table[j]
  BY <1>1
<1> QED BY <1>3, <1>4, TenantsAssumption DEF ForGood, Exists

LEMMA StepForGood ==
  ASSUME TenantsInv, [TenantsNext]_tenantVars
  PROVE  ForGood
<1>1. CASE table' = table
  BY <1>1 DEF ForGood, Exists
<1>2. CASE TenantsNext
  <2>1. \E h \in Handler :
           \/ table' = table
           \/ pc[h] = "write" /\ RowWritten(h)
           \/ \E i \in Id : RowInserted(h, i) \/ RevokeKey(h, i)
    BY <1>2 DEF TenantsNext, CreateOrg, CreateApp, CreateWorkspace, Register, CreateAPIKey, Asked,
       FindOrg, CheckSlug, InsertFails, Publish, Insert, InsertKey, Update, ReadWorkspace,
       RecheckSlug, WriteWorkspace, WriteFails, ResolveHit, ResolveMiss, Store, ReadFails
  <2> QED BY <1>1, <2>1, WrittenForGood, InsertedForGood, RevokedForGood
<1> QED BY <1>1, <1>2 DEF tenantVars

(* UpdateWorkspace writes whole rows that it has read before, and RevokeKey *)
(* is an UPDATE by id: neither moves a row to another organization, and     *)
(* nothing brings a revoked key back.                                       *)
THEOREM RowsAreForGood == TenantsSpec => [][ForGood]_tenantVars
<1>1. TenantsInv /\ [TenantsNext]_tenantVars => [ForGood]_tenantVars
  BY StepForGood
<1> QED BY <1>1, TenantsInvariance, PTL DEF TenantsSpec

----------------------------------------------------------------------------
(* Records.  First what a request of its own leaves alone of Tenants.      *)

ServesOrAsks(h) == 
  \/ \E call \in Calls : RecordCall(h, call)
  \/ \E user \in User : RecordUsage(h, user)
  \/ \E q \in Lists : Ask(h, q)

LEMMA RequestsKeepTenants ==
  ASSUME TenantsInv, NEW h \in Handler, ServesOrAsks(h)
  PROVE  TenantsInv'
<1>1. \E r : \E label \in {"idle", "ask"} : Begin(h, r, label)
  <2>1. ASSUME NEW call \in Calls, RecordCall(h, call) PROVE Serve(h)
    BY <2>1 DEF RecordCall, CallRejected, CallServed, CreateRecord, UpdateRecord, DeleteRecord, OtherCall
  <2> QED BY <2>1 DEF ServesOrAsks, RecordUsage, Ask, Serve
<1>2. UNCHANGED <<table, slugs, copy, events, faults, history>>
  BY DEF ServesOrAsks, RecordCall, RecordUsage, Ask
<1> QED BY <1>1, <1>2, BeginKeeps

LEMMA SawKeepsTenants ==
  ASSUME TenantsInv, NEW h \in Handler, pc[h] = "ask", NEW rows, Saw(h, rows), faults' \in 0..MaxFaults
  PROVE  TenantsInv'
<1>1. /\ UNCHANGED <<table, slugs, req, copy, events, requests, asked, since, crossed, given, silent>>
      /\ \E label \in {"ask", "answer"} : Goto(h, label)
  BY DEF Saw, history
<1>2. pc'[h] \in {"ask", "answer"} /\ DOMAIN pc' = Handler /\ OthersStay(h) /\ since[h] = {}
  BY <1>1 DEF Goto, OthersStay, TenantsInv, TenantsTypeOK, RequestKnown
<1>3. TenantsTypeOK'
  BY <1>1, <1>2 DEF TenantsInv, TenantsTypeOK
<1>4. RequestKnown(h)' /\ CopyExplained(h)' /\ StoreExplained(h)'
  BY <1>1, <1>2 DEF RequestKnown, CopyExplained, StoreExplained
<1> QED BY <1>1, <1>2, <1>3, <1>4, OneHandlerKeeps

LEMMA FinishKeepsTenants ==
  ASSUME TenantsInv, NEW h \in Handler, pc[h] \in {"ask", "answer"}, Finish(h), faults' \in 0..MaxFaults
  PROVE  TenantsInv'
  BY EndKeeps DEF Finish

LEMMA AnsweringKeepsTenants ==
  ASSUME TenantsInv, NEW h \in Handler, Statement(h) \/ StatementCut(h) \/ StatementFails(h) \/ Answer(h)
  PROVE  TenantsInv'
<1>1. faults' \in 0..MaxFaults
  <2>1. faults' = faults \/ Fault
    BY DEF Statement, StatementCut, StatementFails, Answer
  <2> QED BY <2>1, FaultCounted DEF TenantsInv, TenantsTypeOK
<1>2. \/ pc[h] = "ask" /\ \E rows : Saw(h, rows)
      \/ pc[h] \in {"ask", "answer"} /\ Finish(h)
  BY DEF Statement, StatementCut, StatementFails, Answer
<1> QED BY <1>1, <1>2, SawKeepsTenants, FinishKeepsTenants

----------------------------------------------------------------------------
(* What the interceptors hand on can be stored.                            *)
LEMMA InputHidden ==
  ASSUME NEW call \in Calls, call.endpoint.masking, NEW c \in DOMAIN Input(call)
  PROVE  ~Readable(c, Input(call)[c])
<1>1. CASE Intercepted(call).type = "object" /\ call.method \notin {"GET", "DELETE"}
  BY <1>1, RecordsAssumption DEF Input
<1>2. CASE ~(Intercepted(call).type = "object" /\ call.method \notin {"GET", "DELETE"})
  BY <1>2 DEF Input
<1> QED BY <1>1, <1>2

(* Columns that this call does not write are as bare as before, those that *)
(* it writes are bare if they can be read.                                 *)
LEMMA BareNoted ==
  ASSUME NEW call \in Calls, NEW rows, NoteBare(rows, call)
  PROVE  /\ \A i, c : i \notin rows \/ c \notin Written(call) => (<<i, c>> \in bare => <<i, c>> \in bare')
         /\ \A i \in rows : \A c \in Written(call) : Readable(c, Input(call)[c]) => <<i, c>> \in bare'
<1>1. ASSUME NEW i, NEW c, i \notin rows \/ c \notin Written(call), <<i, c>> \in bare
      PROVE  <<i, c>> \in bare'
  BY <1>1 DEF NoteBare
<1>2. ASSUME NEW i \in rows, NEW c \in Written(call), Readable(c, Input(call)[c])
      PROVE  <<i, c>> \in bare'
  <2>1. ~call.endpoint.masking
    BY <1>2, InputHidden DEF Written
  <2> QED BY <2>1 DEF NoteBare
<1> QED BY <1>1, <1>2

(* MaskedUnlessBare and the shape of the rows, which only RecordCall       *)
(* writes.                                                                 *)
RowsMasked ==
  /\ DOMAIN records = RecordId
  /\ \A i \in RecordId : records[i] # None => "data" \in DOMAIN records[i]
  /\ MaskedUnlessBare

LEMMA CreateMasks ==
  ASSUME RowsMasked, NEW h \in Handler, NEW call \in Calls, CreateRecord(h, call)
  PROVE  RowsMasked'
<1> DEFINE row == [own |-> Owner(call), data |-> [c \in Written(call) |-> Input(call)[c]]]
<1>1. PICK i \in RecordId : /\ records' = [records EXCEPT ![i] = row]
                            /\ NoteBare({i}, call)
  BY DEF CreateRecord
<1>2. /\ DOMAIN records' = RecordId /\ records'[i] = row
      /\ \A j \in RecordId \ {i} : records'[j] = records[j]
  BY <1>1 DEF RowsMasked
<1>3. /\ "data" \in DOMAIN row /\ DOMAIN row.data = Written(call)
      /\ \A c \in Written(call) : row.data[c] = Input(call)[c]
  OBVIOUS
<1> HIDE DEF row
<1>4. ASSUME NEW j \in RecordId, records'[j] # None, NEW c \in DOMAIN records'[j].data,
             Readable(c, records'[j].data[c])
      PROVE  <<j, c>> \in bare'
  <2>1. CASE j = i
    BY <1>1, <1>2, <1>3, <1>4, <2>1, BareNoted
  <2>2. CASE j # i
    <3>1. <<j, c>> \in bare
      BY <1>2, <1>4, <2>2 DEF RowsMasked, MaskedUnlessBare
    <3> QED BY <1>1, <2>2, <3>1, BareNoted
  <2> QED BY <2>1, <2>2
<1>5. MaskedUnlessBare'
  BY <1>4 DEF MaskedUnlessBare
<1> QED BY <1>2, <1>3, <1>5 DEF RowsMasked

LEMMA UpdateMasks ==
  ASSUME RowsMasked, NEW h \in Handler, NEW call \in Calls, UpdateRecord(h, call)
  PROVE  RowsMasked'
<1> DEFINE rows == Target(call)
<1>1. /\ rows \subseteq RecordId /\ \A i \in rows : records[i] # None
      /\ NoteBare(rows, call)
      /\ records' = [i \in RecordId |-> IF i \in rows THEN Updated(records[i], call) ELSE records[i]]
  BY DEF UpdateRecord, Target
<1>2. ASSUME NEW i \in rows
      PROVE  /\ "data" \in DOMAIN records'[i]
             /\ DOMAIN records'[i].data = Written(call) \union DOMAIN records[i].data
             /\ \A c \in DOMAIN records'[i].data :
                   records'[i].data[c] = IF c \in Written(call) THEN Input(call)[c]
                                         ELSE records[i].data[c]
  <2>1. "data" \in DOMAIN records[i] /\ records'[i] = Updated(records[i], call)
    BY <1>1 DEF RowsMasked
  <2> QED BY <2>1 DEF Updated
<1> HIDE DEF rows
<1>3. ASSUME NEW j \in RecordId, records'[j] # None, NEW c \in DOMAIN records'[j].data,
             Readable(c, records'[j].data[c])
      PROVE  <<j, c>> \in bare'
  <2>1. CASE j \in rows /\ c \in Written(call)
    BY <1>1, <1>2, <1>3, <2>1, BareNoted
  <2>2. CASE j \in rows /\ c \notin Written(call)
    <3>1. <<j, c>> \in bare
      BY <1>1, <1>2, <1>3, <2>2 DEF RowsMasked, MaskedUnlessBare
    <3> QED BY <1>1, <2>2, <3>1, BareNoted
  <2>3. CASE j \notin rows
    <3>1. <<j, c>> \in bare
      BY <1>1, <1>3, <2>3 DEF RowsMasked, MaskedUnlessBare
    <3> QED BY <1>1, <2>3, <3>1, BareNoted
  <2> QED BY <2>1, <2>2, <2>3
<1>4. MaskedUnlessBare'
  BY <1>3 DEF MaskedUnlessBare
<1>5. DOMAIN records' = RecordId /\ \A i \in RecordId : records'[i] # None => "data" \in DOMAIN records'[i]
  BY <1>1, <1>2 DEF RowsMasked
<1> QED BY <1>4, <1>5 DEF RowsMasked

LEMMA DeleteMasks ==
  ASSUME RowsMasked, NEW h \in Handler, NEW call \in Calls, DeleteRecord(h, call)
  PROVE  RowsMasked'
<1>1. /\ records' = [i \in RecordId |-> IF i \in Target(call) THEN None ELSE records[i]]
      /\ bare' = bare \ (Target(call) \X Column)
  BY DEF DeleteRecord
<1>2. DOMAIN records' = RecordId /\ \A i \in RecordId : records'[i] # None => "data" \in DOMAIN records'[i]
  BY <1>1 DEF RowsMasked
<1>3. ASSUME NEW j \in RecordId, records'[j] # None, NEW c \in DOMAIN records'[j].data,
             Readable(c, records'[j].data[c])
      PROVE  <<j, c>> \in bare'
  BY <1>1, <1>3 DEF RowsMasked, MaskedUnlessBare
<1> QED BY <1>2, <1>3 DEF RowsMasked, MaskedUnlessBare

LEMMA RecordCallMasks ==
  ASSUME RowsMasked, NEW h \in Handler, NEW call \in Calls, RecordCall(h, call)
  PROVE  RowsMasked'
<1>1. CASE UNCHANGED <<records, bare>>
  BY <1>1 DEF RowsMasked, MaskedUnlessBare
<1> QED BY <1>1, CreateMasks, UpdateMasks, DeleteMasks
     DEF RecordCall, CallRejected, CallServed, OtherCall

----------------------------------------------------------------------------
(* Answers of several statements.                                          *)
Rows == Id \union RecordId \union UsageId

LEMMA MatchingIsFinite ==
  ASSUME NEW q \in Lists
  PROVE  Matching(q) \subseteq Rows /\ IsFiniteSet(Matching(q))
<1>1. q.of \in {"org", "user", "app", "workspace", "key", "records", "usage"}
  BY RecordsAssumption
<1>2. Matching(q) \subseteq Id \/ Matching(q) \subseteq RecordId \/ Matching(q) \subseteq UsageId
  <2>1. CASE q.of \in {"org", "user"}
    BY <2>1 DEF Matching
  <2>2. CASE q.of \in {"app", "workspace", "key"}
    BY <2>2 DEF Matching
  <2>3. CASE q.of = "records"
    BY <2>3 DEF Matching
  <2>4. CASE q.of = "usage"
    BY <2>4 DEF Matching
  <2> QED BY <1>1, <2>1, <2>2, <2>3, <2>4
<1>3. IsFiniteSet(Matching(q))
  BY <1>2, RecordsAssumption, FS_Subset
<1> QED BY <1>2, <1>3 DEF Rows

(* A statement returns rows of its list.                                   *)
LEMMA ResultsMatch ==
  ASSUME NEW q, NEW statement, NEW rows \in Results(q, statement)
  PROVE  rows \subseteq Matching(q)
  BY DEF Results, Counted

LEMMA StatementsOfList ==
  ASSUME NEW q
  PROVE  /\ Len(Statements(q)) \in {1, 2, 5}
         /\ Len(Statements(q)) > 1 =>
              /\ Statements(q)[1] = "count" /\ Statements(q)[2] = "page"
              /\ \A n \in 3..Len(Statements(q)) : Statements(q)[n] \notin {"count", "page"}
  BY DEF Statements

(* Others than the handlers of a step go on as they were, if none of their *)
(* rows has been written.                                                  *)
LEMMA OthersSeen ==
  ASSUME NEW g \in Handler, SeenIsCurrent(g), Watch,
         pc'[g] = pc[g], req'[g] = req[g], seen'[g] = seen[g], g \in cut => g \in cut'
  PROVE  SeenIsCurrent(g)'
<1>1. CASE pc[g] \notin {"ask", "answer"}
  BY <1>1 DEF SeenIsCurrent
<1>2. CASE pc[g] \in {"ask", "answer"}
  <2>1. /\ req[g] \in Lists /\ Len(seen[g]) <= Len(Statements(req[g]))
        /\ pc[g] = "ask" => Len(seen[g]) < Len(Statements(req[g]))
    BY <1>2 DEF SeenIsCurrent
  <2>2. Statements(req[g])' = Statements(req[g])
    BY DEF Statements
  <2>3. ASSUME g \notin moved' \union cut', NEW n \in 1..Len(seen[g])
        PROVE  seen'[g][n] \in Results(req[g], Statements(req[g])[n])'
    <3>1. seen[g] # <<>>
      BY <2>3
    <3>2. g \notin moved \union cut /\ Matching(req[g])' = Matching(req[g])
      BY <1>2, <2>3, <3>1 DEF Watch
    <3>3. seen[g][n] \in Results(req[g], Statements(req[g])[n])
      BY <1>2, <2>3, <3>2 DEF SeenIsCurrent
    <3>4. Results(req[g], Statements(req[g])[n])' = Results(req[g], Statements(req[g])[n])
      BY <2>2, <3>2 DEF Results, Counted, Matching, Statements
    <3> QED BY <3>3, <3>4
  <2> QED BY <1>2, <2>1, <2>2, <2>3 DEF SeenIsCurrent
<1> QED BY <1>1, <1>2

(* A step of Tenants is one of a handler that is not answering a list.     *)
AwayFromLists(h) ==
  /\ pc[h] \notin {"ask", "answer"} /\ pc'[h] \notin {"ask", "answer"}
  /\ \A g \in Handler \ {h} : pc'[g] = pc[g] /\ req'[g] = req[g]

LEMMA BeginsAway ==
  ASSUME TenantsTypeOK, NEW h \in Handler, NEW r, NEW label \in {"find", "check", "insert", "read", "store", "idle"},
         Begin(h, r, label)
  PROVE  AwayFromLists(h)
  BY DEF AwayFromLists, Begin, Goto, TenantsTypeOK

LEMMA GoesAway ==
  ASSUME TenantsTypeOK, NEW h \in Handler, pc[h] \notin {"ask", "answer"},
         NEW label \in {"check", "insert", "publish", "recheck", "write"}, Goto(h, label), req' = req
  PROVE  AwayFromLists(h)
  BY DEF AwayFromLists, Goto, TenantsTypeOK

LEMMA EndsAway ==
  ASSUME TenantsTypeOK, NEW h \in Handler, pc[h] \notin {"ask", "answer"}, End(h) \/ EndOfWrite(h)
  PROVE  AwayFromLists(h)
  BY DEF AwayFromLists, End, EndOfWrite, Goto, TenantsTypeOK

LEMMA TenantsAway ==
  ASSUME TenantsTypeOK, TenantsNext
  PROVE  \E h \in Handler : AwayFromLists(h)
<1>1. PICK h \in Handler :
        \/ \E c \in Creations :
              \/ CreateOrg(h, c) \/ CreateApp(h, c) \/ CreateWorkspace(h, c)
              \/ Register(h, c) \/ CreateAPIKey(h, c)
        \/ FindOrg(h) \/ CheckSlug(h) \/ InsertFails(h) \/ Publish(h)
        \/ \E i \in Id : Insert(h, i) \/ InsertKey(h, i) \/ RevokeKey(h, i)
        \/ \E u \in Updates : Update(h, u)
        \/ ReadWorkspace(h) \/ RecheckSlug(h) \/ WriteWorkspace(h) \/ WriteFails(h)
        \/ \E o \in Id, s \in Slug : ResolveHit(h, o, s) \/ ResolveMiss(h, o, s)
        \/ Store(h)
        \/ ReadFails(h)
  BY DEF TenantsNext
<1>2. CASE \E c \in Creations : \/ CreateOrg(h, c) \/ CreateApp(h, c) \/ CreateWorkspace(h, c)
                                \/ Register(h, c) \/ CreateAPIKey(h, c)
  BY <1>2, BeginsAway DEF CreateOrg, CreateApp, CreateWorkspace, Register, CreateAPIKey, Asked
<1>3. CASE \/ \E i \in Id : RevokeKey(h, i)
           \/ \E u \in Updates : Update(h, u)
           \/ \E o \in Id, s \in Slug : ResolveHit(h, o, s) \/ ResolveMiss(h, o, s)
  BY <1>3, BeginsAway DEF RevokeKey, Update, ResolveHit, ResolveMiss
<1>4. CASE FindOrg(h) \/ CheckSlug(h)
  BY <1>4, GoesAway, EndsAway DEF FindOrg, CheckSlug
<1>5. CASE InsertFails(h) \/ Publish(h) \/ Store(h) \/ ReadFails(h)
  BY <1>5, EndsAway DEF InsertFails, Publish, Store, ReadFails
<1>6. CASE \E i \in Id : Insert(h, i) \/ InsertKey(h, i)
  BY <1>6, GoesAway, EndsAway DEF Insert, InsertKey
<1>7. CASE ReadWorkspace(h) \/ RecheckSlug(h)
  BY <1>7, GoesAway, EndsAway DEF ReadWorkspace, RecheckSlug
<1>8. CASE WriteWorkspace(h) \/ WriteFails(h)
  BY <1>8, EndsAway DEF WriteWorkspace, WriteFails
<1> QED BY <1>1, <1>2, <1>3, <1>4, <1>5, <1>6, <1>7, <1>8

LEMMA TenantsKeepSeen ==
  ASSUME RecordsInv, TenantsNext, UNCHANGED recordVars, Watch, NEW g \in Handler
  PROVE  SeenIsCurrent(g)'
<1>1. PICK h \in Handler : AwayFromLists(h)
  BY TenantsAway DEF RecordsInv, TenantsInv
<1>2. UNCHANGED <<seen, cut>> /\ SeenIsCurrent(g)
  BY DEF recordVars, RecordsInv
<1>3. CASE g = h
  BY <1>1, <1>2, <1>3 DEF AwayFromLists, SeenIsCurrent
<1>4. CASE g # h
  BY <1>1, <1>2, <1>4, OthersSeen DEF AwayFromLists
<1> QED BY <1>3, <1>4

LEMMA RequestsKeepSeen ==
  ASSUME RecordsInv, NEW h \in Handler, ServesOrAsks(h), Watch, NEW g \in Handler
  PROVE  SeenIsCurrent(g)' /\ UNCHANGED <<seen, cut>>
<1>1. /\ UNCHANGED <<seen, cut>>
      /\ Serve(h) \/ \E q \in Lists : Begin(h, q, "ask")
  <2>1. ASSUME NEW call \in Calls, RecordCall(h, call) PROVE Serve(h)
    BY <2>1 DEF RecordCall, CallRejected, CallServed, CreateRecord, UpdateRecord, DeleteRecord, OtherCall
  <2> QED BY <2>1 DEF ServesOrAsks, RecordCall, RecordUsage, Ask, recordVars
<1>2. /\ pc[h] = "idle" /\ SeenIsCurrent(h) /\ SeenIsCurrent(g)
      /\ pc'[h] = "idle" \/ (pc'[h] = "ask" /\ req'[h] \in Lists)
      /\ \A x \in Handler \ {h} : pc'[x] = pc[x] /\ req'[x] = req[x]
  BY <1>1 DEF Serve, Begin, Goto, RecordsInv, TenantsInv, TenantsTypeOK
<1>3. CASE g = h
  <2>1. seen'[h] = <<>> /\ Len(<<>>) = 0 /\ 1..0 = {}
    BY <1>1, <1>2 DEF SeenIsCurrent
  <2>2. Len(Statements(req[h])') > 0
    BY StatementsOfList DEF Statements
  <2> QED BY <1>1, <1>2, <1>3, <2>1, <2>2 DEF SeenIsCurrent
<1>4. CASE g # h
  BY <1>1, <1>2, <1>4, OthersSeen
<1> QED BY <1>1, <1>3, <1>4

(* A statement adds to the answer what it would return at this moment.     *)
LEMMA SawKeepsSeen ==
  ASSUME RecordsInv, NEW h \in Handler, pc[h] = "ask", NEW rows, Saw(h, rows), Watch,
         cut \subseteq cut', h \notin cut' => rows \in Results(req[h], NextOf(h)),
         NEW g \in Handler
  PROVE  SeenIsCurrent(g)'
<1>1. /\ seen' = [seen EXCEPT ![h] = Append(seen[h], rows)]
      /\ Goto(h, IF Len(seen[h]) + 1 = Len(Statements(req[h])) THEN "answer" ELSE "ask")
      /\ UNCHANGED <<table, req, records, usage>>
  BY DEF Saw
<1>2. /\ SeenIsCurrent(h) /\ SeenIsCurrent(g) /\ DOMAIN seen = Handler
      /\ seen[h] \in Seq(SUBSET Rows) /\ DOMAIN pc = Handler
  BY DEF RecordsInv, RecordsTypeOK, TenantsInv, TenantsTypeOK, Rows
<1>3. CASE g # h
  BY <1>1, <1>2, <1>3, OthersSeen DEF Goto
<1>4. CASE g = h
  <2> DEFINE now == seen[h]
             q == req[h]
  <2>1. /\ q \in Lists /\ Len(now) \in Nat /\ Len(now) < Len(Statements(q))
        /\ Len(Statements(q)) \in Nat
    BY <1>2, StatementsOfList DEF SeenIsCurrent
  <2>2. /\ pc'[h] = IF Len(now) + 1 = Len(Statements(q)) THEN "answer" ELSE "ask"
        /\ req'[h] = q /\ Statements(req[h])' = Statements(q)
    BY <1>1, <1>2 DEF Goto, Statements
  <2>3. /\ seen'[h] = Append(now, rows) /\ Len(Append(now, rows)) = Len(now) + 1
        /\ Append(now, rows)[Len(now) + 1] = rows
        /\ \A n \in 1..Len(now) : Append(now, rows)[n] = now[n]
    <3>1. /\ Len(Append(now, rows)) = Len(now) + 1
          /\ Append(now, rows)[Len(now) + 1] = rows
          /\ \A n \in 1..Len(now) : Append(now, rows)[n] = now[n]
      BY <1>2
    <3> QED BY <1>1, <1>2, <3>1
  <2>4. ASSUME h \notin moved' \union cut', NEW n \in 1..Len(now) + 1
        PROVE  Append(now, rows)[n] \in Results(req[h], Statements(req[h])[n])'
    <3>1. h \notin moved \union cut
      BY <2>2, <2>4 DEF Watch
    <3>2. Append(now, rows)[n] \in Results(q, Statements(q)[n])
      <4>1. CASE n = Len(now) + 1
        BY <2>3, <2>4, <4>1 DEF NextOf
      <4>2. CASE n # Len(now) + 1
        <5>1. n \in 1..Len(now)
          BY <2>1, <4>2
        <5>2. now[n] \in Results(q, Statements(q)[n])
          BY <1>2, <3>1, <5>1 DEF SeenIsCurrent
        <5> QED BY <2>3, <5>1, <5>2
      <4> QED BY <4>1, <4>2
    <3>3. Results(req[h], Statements(req[h])[n])' = Results(q, Statements(q)[n])
      BY <1>1 DEF Results, Counted, Matching, Exists, Statements
    <3> QED BY <3>2, <3>3
  <2> QED BY <1>4, <2>1, <2>2, <2>3, <2>4 DEF SeenIsCurrent
<1> QED BY <1>3, <1>4

LEMMA FinishKeepsSeen ==
  ASSUME RecordsInv, NEW h \in Handler, pc[h] \in {"ask", "answer"}, Finish(h), Watch, NEW g \in Handler
  PROVE  SeenIsCurrent(g)'
<1>1. /\ seen' = [seen EXCEPT ![h] = <<>>] /\ cut' = cut \ {h}
      /\ pc' = [pc EXCEPT ![h] = "idle"] /\ req' = [req EXCEPT ![h] = None]
  BY DEF Finish, End, Goto
<1>2. SeenIsCurrent(g) /\ DOMAIN seen = Handler /\ DOMAIN pc = Handler /\ DOMAIN req = Handler
  BY DEF RecordsInv, RecordsTypeOK, TenantsInv, TenantsTypeOK
<1>3. CASE g = h
  BY <1>1, <1>2, <1>3 DEF SeenIsCurrent
<1>4. CASE g # h
  BY <1>1, <1>2, <1>4, OthersSeen
<1> QED BY <1>3, <1>4

LEMMA AnsweringKeepsSeen ==
  ASSUME RecordsInv, NEW h \in Handler, Watch,
         Statement(h) \/ StatementCut(h) \/ StatementFails(h) \/ Answer(h), NEW g \in Handler
  PROVE  SeenIsCurrent(g)'
<1>1. CASE Statement(h)
  BY <1>1, SawKeepsSeen DEF Statement
<1>2. CASE StatementCut(h)
  BY <1>2, SawKeepsSeen DEF StatementCut
<1>3. CASE StatementFails(h) \/ Answer(h)
  BY <1>3, FinishKeepsSeen DEF StatementFails, Answer
<1> QED BY <1>1, <1>2, <1>3

(* An answer holds sets of rows.                                           *)
LEMMA AnsweringKeepsTypes ==
  ASSUME RecordsInv, NEW h \in Handler,
         Statement(h) \/ StatementCut(h) \/ StatementFails(h) \/ Answer(h)
  PROVE  /\ seen' \in [Handler -> Seq(SUBSET Rows)]
         /\ UNCHANGED <<records, usage, bare>>
<1>1. seen \in [Handler -> Seq(SUBSET Rows)]
  BY DEF RecordsInv, RecordsTypeOK, Rows
<1>2. ASSUME NEW rows \in SUBSET Rows, Saw(h, rows)
      PROVE  seen' \in [Handler -> Seq(SUBSET Rows)]
  BY <1>1, <1>2 DEF Saw
<1>3. CASE Statement(h) \/ StatementCut(h)
  <2>1. req[h] \in Lists
    BY <1>3 DEF Statement, StatementCut, RecordsInv, SeenIsCurrent
  <2>2. \A all \in Results(req[h], NextOf(h)) : all \subseteq Rows
    BY <2>1, ResultsMatch, MatchingIsFinite
  <2>3. \E rows \in SUBSET Rows : Saw(h, rows)
    BY <1>3, <2>2 DEF Statement, StatementCut
  <2>4. UNCHANGED <<records, usage, bare>>
    BY <2>3 DEF Saw
  <2> QED BY <1>2, <2>3, <2>4
<1>4. CASE StatementFails(h) \/ Answer(h)
  <2>1. seen' = [seen EXCEPT ![h] = <<>>] /\ UNCHANGED <<records, usage, bare>>
    BY <1>4 DEF StatementFails, Answer, Finish
  <2> QED BY <1>1, <2>1, EmptySeq
<1> QED BY <1>3, <1>4

----------------------------------------------------------------------------
LEMMA RecordsInitInv == RecordsInit => RecordsInv
<1> SUFFICES ASSUME RecordsInit PROVE RecordsInv
  OBVIOUS
<1>1. TenantsInv
  BY TenantsInitInv DEF RecordsInit
<1>2. RecordsTypeOK
  BY EmptySeq DEF RecordsInit, RecordsTypeOK
<1>3. \A h \in Handler : SeenIsCurrent(h)
  BY DEF RecordsInit, TenantsInit, SeenIsCurrent
<1>4. MaskedUnlessBare
  BY DEF RecordsInit, MaskedUnlessBare
<1> QED BY <1>1, <1>2, <1>3, <1>4 DEF RecordsInv

LEMMA RecordsStepInv == RecordsInv /\ [RecordsNext]_allVars => RecordsInv'
<1> SUFFICES ASSUME RecordsInv, [RecordsNext]_allVars PROVE RecordsInv'
  OBVIOUS
<1>1. CASE UNCHANGED allVars
  <2>1. TenantsInv'
    BY <1>1, TenantsStepInv DEF allVars, RecordsInv
  <2>2. RecordsTypeOK' /\ MaskedUnlessBare'
    BY <1>1 DEF allVars, recordVars, RecordsInv, RecordsTypeOK, MaskedUnlessBare
  <2>3. ASSUME NEW h \in Handler PROVE SeenIsCurrent(h)'
    <3>1. UNCHANGED <<table, records, usage, pc, req, seen, moved, cut>> /\ SeenIsCurrent(h)
      BY <1>1 DEF allVars, recordVars, tenantVars, RecordsInv
    <3>2. Statements(req[h])' = Statements(req[h])
      BY <3>1 DEF Statements
    <3>3. ASSUME NEW n \in 1..Len(seen[h])
          PROVE  Results(req[h], Statements(req[h])[n])' = Results(req[h], Statements(req[h])[n])
      BY <3>1 DEF Results, Counted, Matching, Exists, Statements
    <3> QED BY <3>1, <3>2, <3>3 DEF SeenIsCurrent
  <2> QED BY <2>1, <2>2, <2>3 DEF RecordsInv
<1>2. CASE TenantsNext /\ UNCHANGED recordVars /\ Watch
  <2>1. TenantsInv'
    BY <1>2, TenantsStepInv DEF RecordsInv
  <2>2. RecordsTypeOK' /\ MaskedUnlessBare'
    BY <1>2 DEF recordVars, RecordsInv, RecordsTypeOK, MaskedUnlessBare
  <2> QED BY <1>2, <2>1, <2>2, TenantsKeepSeen DEF RecordsInv
<1>3. ASSUME NEW h \in Handler, RecordsStep(h), Watch PROVE RecordsInv'
  <2>1. \/ ServesOrAsks(h)
        \/ Statement(h) \/ StatementCut(h) \/ StatementFails(h) \/ Answer(h)
    BY <1>3 DEF RecordsStep, ServesOrAsks, ListOrgs, ListUsers, ListApps, ListWorkspaces,
       ListAPIKeys, ListRecords, GetUserStats
  <2>2. RowsMasked
    BY DEF RecordsInv, RecordsTypeOK, RowsMasked
  <2>3. CASE ServesOrAsks(h)
    <3>1. TenantsInv'
      BY <2>3, RequestsKeepTenants DEF RecordsInv
    <3>2. UNCHANGED <<seen, cut>> /\ \A g \in Handler : SeenIsCurrent(g)'
      BY <1>3, <2>3, RequestsKeepSeen
    <3>3. RowsMasked'
      BY <2>2, <2>3, RecordCallMasks DEF ServesOrAsks, RecordUsage, Ask, recordVars, RowsMasked, MaskedUnlessBare
    <3>4. DOMAIN usage' = UsageId
      <4>1. usage' = usage \/ \E i \in UsageId, user \in User : usage' = [usage EXCEPT ![i] = user]
        BY <2>3 DEF ServesOrAsks, RecordCall, RecordUsage, Ask, recordVars
      <4> QED BY <4>1 DEF RecordsInv, RecordsTypeOK
    <3> QED BY <3>1, <3>2, <3>3, <3>4 DEF RecordsInv, RecordsTypeOK, RowsMasked
  <2>4. CASE Statement(h) \/ StatementCut(h) \/ StatementFails(h) \/ Answer(h)
    <3>1. TenantsInv'
      BY <2>4, AnsweringKeepsTenants DEF RecordsInv
    <3>2. \A g \in Handler : SeenIsCurrent(g)'
      BY <1>3, <2>4, AnsweringKeepsSeen
    <3>3. RecordsTypeOK' /\ MaskedUnlessBare'
      BY <2>4, AnsweringKeepsTypes DEF Rows, RecordsInv, RecordsTypeOK, MaskedUnlessBare
    <3> QED BY <3>1, <3>2, <3>3 DEF RecordsInv
  <2> QED BY <2>1, <2>3, <2>4
<1> QED BY <1>1, <1>2, <1>3 DEF RecordsNext

LEMMA RecordsInvariance == RecordsSpec => []RecordsInv
<1> QED BY RecordsInitInv, RecordsStepInv, PTL DEF RecordsSpec

(* The lists and statistics are made of several statements without a       *)
(* transaction: their parts are about the same rows unless a request has   *)
(* written one of these in between, or a loop has ended before its end.    *)
THEOREM AnswersOfOneMoment == RecordsSpec => []AnswersAgree
<1>1. RecordsInv => AnswersAgree
  <2> SUFFICES ASSUME RecordsInv, NEW h \in Handler, Complete(h), NEW n \in 2..Len(seen[h])
               PROVE  IF n = 2
                      THEN /\ seen[h][n] \subseteq seen[h][1]
                           /\ seen[h][n] = seen[h][1] \/ Cardinality(seen[h][n]) = Limit
                      ELSE seen[h][n] = seen[h][1]
    BY DEF AnswersAgree
  <2> DEFINE q == req[h]
             rows == Matching(q)
  <2>1. /\ q \in Lists /\ Len(seen[h]) <= Len(Statements(q))
        /\ \A k \in 1..Len(seen[h]) : seen[h][k] \in Results(q, Statements(q)[k])
    BY DEF RecordsInv, SeenIsCurrent, Complete
  <2>2. Len(seen[h]) \in Nat /\ Len(Statements(q)) \in Nat
    BY <2>1, StatementsOfList DEF RecordsInv, RecordsTypeOK
  <2>3. /\ 1 \in 1..Len(seen[h]) /\ n \in 1..Len(seen[h])
        /\ Statements(q)[1] = "count" /\ Statements(q)[2] = "page"
        /\ n # 2 => Statements(q)[n] \notin {"count", "page"}
    BY <2>1, <2>2, StatementsOfList
  <2>4. seen[h][1] = rows
    BY <2>1, <2>3 DEF Results, Counted
  <2>5. CASE n = 2
    <3>1. /\ seen[h][n] \subseteq rows
          /\ Cardinality(seen[h][n]) = IF Cardinality(rows) < Limit THEN Cardinality(rows) ELSE Limit
      BY <2>1, <2>3, <2>5 DEF Results
    <3>2. IsFiniteSet(rows)
      BY <2>1, MatchingIsFinite
    <3>3. /\ Cardinality(seen[h][n]) = Cardinality(rows) => seen[h][n] = rows
          /\ Cardinality(seen[h][n]) \in Nat /\ Cardinality(rows) \in Nat
      BY <3>1, <3>2, FS_Subset, FS_CardinalityType
    <3> QED BY <2>4, <2>5, <3>1, <3>3
  <2>6. CASE n # 2
    <3>1. seen[h][n] = rows
      BY <2>1, <2>3, <2>6 DEF Results
    <3> QED BY <2>4, <2>6, <3>1
  <2> QED BY <2>5, <2>6
<1> QED BY <1>1, RecordsInvariance, PTL

(* Whatever endpoints of one table write its rows, and in whatever order   *)
(* creations and patches come, a field that the masker hides can be read   *)
(* only where the generic handler has last written it for an endpoint      *)
(* without masking.                                                        *)
THEOREM MaskingHolds == RecordsSpec => []MaskedUnlessBare
<1>1. RecordsInv => MaskedUnlessBare
  BY DEF RecordsInv
<1> QED BY <1>1, RecordsInvariance, PTL

(* What is proved of Tenants alone holds while its handlers serve records  *)
(* and lists as well.                                                      *)
THEOREM TenancyWhileServing ==
  RecordsSpec => [](LostOnlyWhenCrossed /\ CreationsPublished /\ CachedSlugExplained)
<1>1. RecordsInv => LostOnlyWhenCrossed /\ CreationsPublished /\ CachedSlugExplained
  BY DEF RecordsInv, TenantsInv, CacheExplained, WasAt, CachedSlugExplained
<1> QED BY <1>1, RecordsInvariance, PTL
=============================================================================
