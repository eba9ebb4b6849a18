------------------------------- MODULE Tenants -------------------------------
(***************************************************************************)
(* Organizations, apps, workspaces, users and API keys: the use cases that *)
(* create and change them, each call of a repository an action, and the    *)
(* cache of workspace slugs in the tenant middleware.                      *)
(*                                                                         *)
(* The tables are one function from ids to rows.  The row of an app or a   *)
(* workspace is "in" its organization, that of a key in its app; "slug" is *)
(* what is unique among the rows of a kind in one place, for a user the    *)
(* email; keys have nothing of the kind.  "name" stands for all other      *)
(* columns.                                                                *)
(***************************************************************************)
EXTENDS Naturals, FiniteSets

CONSTANTS
    Handler,      \* requests are served by these, one after another
    Id,           \* ids of rows
    Slug, Name,
    Creations,    \* what clients ask to create
    Updates,      \* what clients ask to change
    None,
    Initial,      \* the tables that earlier requests have left behind
    MaxRequests,  \* bound: requests
    MaxFaults     \* bound: database calls that fail

Kind    == {"org", "app", "workspace", "user", "key"}
Row     == [kind : Kind, in : Id \union {None}, slug : Slug,
            name : Name, active : BOOLEAN]
Field   == {"slug", "name"}

Creation == [kind : Kind, in : Id \union {None}, slug : Slug, name : Name]
(* A change leaves out, as None, the fields that are to stay.              *)
Change   == [slug : Slug \union {None}, name : Name \union {None}]

(* The UNIQUE constraints of the migrations.                               *)
Clash(r, s) == r.kind = s.kind /\ r.in = s.in /\ r.slug = s.slug /\ r.kind # "key"
Unique(rows) ==
    \A i, j \in Id : i # j /\ None \notin {rows[i], rows[j]} => ~Clash(rows[i], rows[j])

ASSUME TenantsAssumption ==
    /\ None \notin Id \union Row
    /\ Initial \in [Id -> Row \union {None}]
    /\ Unique(Initial)
    /\ Creations \subseteq Creation
    /\ Updates \subseteq [claim : Id, id : Id, change : Change]
    /\ MaxRequests \in Nat /\ MaxFaults \in Nat

VARIABLES
    table,        \* id -> row
    slugs,        \* workspaceCache: organization, slug -> workspace
    pc,           \* handler -> next call of its request
    req,          \* handler -> the request it serves
    copy,         \* handler -> row it has read or will insert
    events,       \* ids of the rows whose creation was published
    requests, faults,
    \* history, read by properties only
    asked,        \* id -> the field values that requests asked for last
    since,        \* handler -> fields of its row written since it read them
    crossed,      \* fields written back by a request that had read them before
    given,        \* slugs that workspaces have had
    silent        \* rows whose request ended without an event

tenantVars == <<table, slugs, pc, req, copy, events, requests, faults,
                asked, since, crossed, given, silent>>
history == <<asked, since, crossed, given, silent>>

Place == Id \X Slug
Exists(i) == table[i] # None
Workspaces == {i \in Id : Exists(i) /\ table[i].kind = "workspace"}

TenantsInit ==
    /\ table = Initial
    /\ slugs = [p \in Place |-> None]
    /\ pc    = [h \in Handler |-> "idle"]
    /\ req   = [h \in Handler |-> None]
    /\ copy  = [h \in Handler |-> None]
    /\ events = {} /\ requests = 0 /\ faults = 0
    /\ asked  = Initial
    /\ since  = [h \in Handler |-> {}]
    /\ crossed = {}
    /\ given  = {}
    /\ silent = {}

Goto(h, label) == pc' = [pc EXCEPT ![h] = label]

Fault == faults < MaxFaults /\ faults' = faults + 1

Begin(h, request, label) ==
    /\ pc[h] = "idle"
    /\ requests < MaxRequests
    /\ requests' = requests + 1
    /\ req' = [req EXCEPT ![h] = request]
    /\ Goto(h, label)

(* The response is sent.                                                   *)
End(h) ==
    /\ Goto(h, "idle")
    /\ req'  = [req EXCEPT ![h] = None]
    /\ copy' = [copy EXCEPT ![h] = None]
    /\ since' = [since EXCEPT ![h] = {}]

----------------------------------------------------------------------------
Asked(h, c, label) == Begin(h, c, label) /\ UNCHANGED <<table, slugs, copy, events, faults, history>>

CreateOrg(h, c) == c.kind = "org" /\ Asked(h, c, "check")
Register(h, c)  == c.kind = "user" /\ Asked(h, c, "check")
(* The organization is the tenant of the context, or that of the path.     *)
CreateApp(h, c) == c.kind = "app" /\ Asked(h, c, "find")
(* The organization is that of the token.                                  *)
CreateWorkspace(h, c) == c.kind = "workspace" /\ Asked(h, c, "find")
(* Nothing is looked up; the foreign key finds out whether the app exists. *)
CreateAPIKey(h, c) == c.kind = "key" /\ Asked(h, c, "insert")

(* GetByID of the organization, which must be active.                      *)
FindOrg(h) ==
    LET org == req[h].in IN
    /\ pc[h] = "find"
    /\ IF /\ org # None
          /\ Exists(org) /\ table[org].kind = "org" /\ table[org].active
       THEN Goto(h, "check") /\ UNCHANGED <<req, copy, since>>
       ELSE End(h)
    /\ UNCHANGED <<table, slugs, events, requests, faults, asked, crossed, given, silent>>

NewRow(h) == [kind |-> req[h].kind, in |-> req[h].in, slug |-> req[h].slug,
              name |-> req[h].name, active |-> TRUE]

(* A row like this one is in its table already.                            *)
Found(h) == \E i \in Id : Exists(i) /\ Clash(table[i], NewRow(h))

(* GetBySlug or GetByEmail; an error is taken for absence.                 *)
CheckSlug(h) ==
    /\ pc[h] = "check"
    /\ \/ Found(h) /\ End(h) /\ UNCHANGED faults
       \/ /\ (~Found(h) /\ UNCHANGED faults) \/ Fault
          /\ Goto(h, "insert")
          /\ UNCHANGED <<req, copy, since>>
    /\ UNCHANGED <<table, slugs, events, requests, asked, crossed, given, silent>>

(* A key is of an app, under a foreign key.                                *)
HasApp(h) == \E app \in Id : app = req[h].in /\ Exists(app) /\ table[app].kind = "app"

(* The row is in, under the constraints of its table.                      *)
RowInserted(h, i) ==
    /\ ~Exists(i)
    /\ ~Found(h)
    /\ req[h].kind = "key" => HasApp(h)
    /\ table' = [table EXCEPT ![i] = NewRow(h)]
    /\ asked' = [asked EXCEPT ![i] = NewRow(h)]

(* The repository's Create.                                                *)
Insert(h, i) ==
    /\ pc[h] = "insert" /\ req[h].kind # "key"
    /\ RowInserted(h, i)
    /\ Goto(h, "publish")
    /\ copy' = [copy EXCEPT ![h] = i]
    /\ UNCHANGED <<slugs, req, events, requests, faults, since, crossed, given, silent>>

(* There is no event for a key.                                            *)
InsertKey(h, i) ==
    /\ pc[h] = "insert" /\ req[h].kind = "key"
    /\ RowInserted(h, i)
    /\ End(h)
    /\ UNCHANGED <<slugs, events, requests, faults, crossed, given, silent>>

(* Mutant: an error of Create is dropped.                                  *)
InsertFailsUnnoticed(h) ==
    /\ pc[h] = "insert"
    /\ Fault
    /\ Goto(h, "publish")
    /\ \E i \in Id : ~Exists(i) /\ copy' = [copy EXCEPT ![h] = i]
    /\ UNCHANGED <<table, slugs, req, events, requests, history>>

(* The constraint refuses the row, or the call fails: an error either way, *)
(* although the row may be in when the answer is lost.                     *)
InsertFails(h) ==
    /\ pc[h] = "insert"
    /\ \/ /\ Found(h) \/ (req[h].kind = "key" /\ ~HasApp(h))
          /\ UNCHANGED <<table, asked, silent, faults>>
       \/ Fault /\ UNCHANGED <<table, asked, silent>>
       \/ Fault /\ \E i \in Id : RowInserted(h, i) /\ silent' = silent \union {i}
    /\ End(h)
    /\ UNCHANGED <<slugs, events, requests, crossed, given>>

(* Publish; its error is dropped.                                          *)
Publish(h) ==
    /\ pc[h] = "publish"
    /\ \/ events' = events \union {copy[h]} /\ UNCHANGED <<faults, silent>>
       \/ Fault /\ silent' = silent \union {copy[h]} /\ UNCHANGED events
    /\ End(h)
    /\ UNCHANGED <<table, slugs, requests, asked, crossed, given>>

(* RevokeKey: one statement, whatever the app, and no word if the key does *)
(* not exist.                                                              *)
RevokeKey(h, key) ==
    /\ Begin(h, None, "idle")
    /\ Exists(key) /\ table[key].kind = "key"
    /\ table' = [table EXCEPT ![key].active = FALSE]
    /\ UNCHANGED <<slugs, copy, events, faults, history>>

----------------------------------------------------------------------------
(* UpdateWorkspace, for the organization of the claim.                     *)
Update(h, u) ==
    /\ Begin(h, u, "read")
    /\ UNCHANGED <<table, slugs, copy, events, faults, history>>

Asks(h, f) == req[h].change[f] # None

Changed(h, row) ==
    [row EXCEPT !.name = IF Asks(h, "name") THEN req[h].change.name ELSE @,
                !.slug = IF Asks(h, "slug") THEN req[h].change.slug ELSE @]

(* GetByID; the workspace must be one of the organization.                 *)
ReadWorkspace(h) ==
    LET w == req[h].id IN
    /\ pc[h] = "read"
    /\ IF w \in Workspaces /\ table[w].in = req[h].claim
       THEN /\ copy' = [copy EXCEPT ![h] = Changed(h, table[w])]
            /\ Goto(h, IF Asks(h, "slug") THEN "recheck" ELSE "write")
            /\ UNCHANGED <<req, since>>
       ELSE End(h)
    /\ UNCHANGED <<table, slugs, events, requests, faults, asked, crossed, given, silent>>

Taken(h) == \E i \in Id \ {req[h].id} : Exists(i) /\ Clash(table[i], copy[h])

(* GetBySlug for the new slug; an error is taken for absence.              *)
RecheckSlug(h) ==
    /\ pc[h] = "recheck"
    /\ \/ Taken(h) /\ End(h) /\ UNCHANGED faults
       \/ /\ (~Taken(h) /\ UNCHANGED faults) \/ Fault
          /\ Goto(h, "write")
          /\ UNCHANGED <<req, copy, since>>
    /\ UNCHANGED <<table, slugs, events, requests, asked, crossed, given, silent>>

(* Mutant: columns that were not given are reset.                          *)
WrittenRowReset(h) ==
    IF Asks(h, "name") THEN copy[h] ELSE [copy[h] EXCEPT !.name = CHOOSE n \in Name : TRUE]
(* UPDATE sets every column to that of the copy.                           *)
WrittenRow(h) == copy[h]

(* The row as read, with the changes, is written over what is there now.   *)
RowWritten(h) ==
    LET w == req[h].id
        asks == {f \in Field : Asks(h, f)} IN
    /\ ~Taken(h)
    /\ table' = [table EXCEPT ![w] = WrittenRow(h)]
    /\ asked' = [asked EXCEPT ![w] = Changed(h, @)]
    /\ crossed' = (crossed \ {<<w, f>> : f \in asks})
                  \union {<<w, f>> : f \in since[h] \ asks}
    /\ given' = given \union {<<w, table[w].slug>>}

(* Others that have read this row have not seen these fields.              *)
SinceOthers(h) ==
    [g \in Handler |->
        IF g # h /\ pc[g] \in {"recheck", "write"} /\ req[g].id = req[h].id
        THEN since[g] \union {f \in Field : table[req[h].id][f] # WrittenRow(h)[f] \/ Asks(h, f)}
        ELSE since[g]]

EndOfWrite(h) ==
    /\ Goto(h, "idle")
    /\ req' = [req EXCEPT ![h] = None]
    /\ copy' = [copy EXCEPT ![h] = None]
    /\ since' = [SinceOthers(h) EXCEPT ![h] = {}]

WriteWorkspace(h) ==
    /\ pc[h] = "write"
    /\ RowWritten(h)
    /\ EndOfWrite(h)
    /\ UNCHANGED <<slugs, events, requests, faults, silent>>

(* UNIQUE refuses the slug, or the call fails, before or after its effect. *)
WriteFails(h) ==
    /\ pc[h] = "write"
    /\ \/ /\ (Taken(h) /\ UNCHANGED faults) \/ Fault
          /\ End(h)
          /\ UNCHANGED <<table, asked, crossed, given>>
       \/ Fault /\ RowWritten(h) /\ EndOfWrite(h)
    /\ UNCHANGED <<slugs, events, requests, silent>>

----------------------------------------------------------------------------
(* TenantResolverWithWorkspace, for a request with X-Workspace-Slug.       *)

(* Mutant: the key of the cache is the slug.                               *)
CacheKeySlug(org, slug) == <<CHOOSE i \in Id : Initial[i] # None, slug>>
CacheKey(org, slug) == <<org, slug>>

(* The cache has the slug.                                                 *)
ResolveHit(h, org, slug) ==
    /\ slugs[CacheKey(org, slug)] # None
    /\ Begin(h, None, "idle")
    /\ UNCHANGED <<table, slugs, copy, events, faults, history>>

(* It does not, and GetBySlug finds the workspace.                         *)
ResolveMiss(h, org, slug) ==
    /\ slugs[CacheKey(org, slug)] = None
    /\ \E w \in Workspaces :
          /\ table[w].in = org /\ table[w].slug = slug
          /\ Begin(h, [in |-> org, slug |-> slug, id |-> w], "store")
    /\ UNCHANGED <<table, slugs, copy, events, faults, history>>

Store(h) ==
    /\ pc[h] = "store"
    /\ slugs' = [slugs EXCEPT ![CacheKey(req[h].in, req[h].slug)] = req[h].id]
    /\ End(h)
    /\ UNCHANGED <<table, events, requests, faults, asked, crossed, given, silent>>

----------------------------------------------------------------------------
(* Calls that only read and end the request with an error when they fail.  *)
ReadFails(h) ==
    /\ pc[h] \in {"find", "read"}
    /\ Fault
    /\ End(h)
    /\ UNCHANGED <<table, slugs, events, requests, asked, crossed, given, silent>>

TenantsNext ==
    \E h \in Handler :
        \/ \E c \in Creations :
              \/ CreateOrg(h, c) \/ CreateApp(h, c) \/ CreateWorkspace(h, c)
              \/ Register(h, c) \/ CreateAPIKey(h, c)
        \/ FindOrg(h) \/ CheckSlug(h) \/ InsertFails(h) \/ Publish(h)
        \/ \E i \in Id : Insert(h, i) \/ InsertKey(h, i) \/ RevokeKey(h, i)
        \/ \E u \in Updates : Update(h, u)
        \/ ReadWorkspace(h) \/ RecheckSlug(h) \/ WriteWorkspace(h) \/ WriteFails(h)
        \/ \E o \in Id, s \in Slug : ResolveHit(h, o, s) \/ ResolveMiss(h, o, s)
        \/ Store(h)
        \/ ReadFails(h)

TenantsSpec == TenantsInit /\ [][TenantsNext]_tenantVars

----------------------------------------------------------------------------
(* What a request asked for is what the workspace has, unless another that *)
(* had read the workspace before wrote it back after.                      *)
LostOnlyWhenCrossed ==
    \A w \in Workspaces : \A f \in Field :
        table[w][f] # asked[w][f] => <<w, f>> \in crossed

Publishing(i) == \E h \in Handler : pc[h] = "publish" /\ copy[h] = i

(* The creation of a row is published if it is in the table, and only then *)
(* - once, and unless its request has met an error.                        *)
CreationsPublished ==
    \A i \in Id :
        /\ i \in events \/ Publishing(i) => Exists(i)
        /\ Exists(i) /\ Initial[i] = None /\ table[i].kind # "key" =>
              i \in events \/ Publishing(i) \/ i \in silent

(* A slug resolves to a workspace of the same organization that has it, or *)
(* has had it.                                                             *)
CachedSlugExplained ==
    \A p \in Place : slugs[p] # None =>
        /\ table[slugs[p]].in = p[1]
        /\ table[slugs[p]].slug = p[2] \/ <<slugs[p], p[2]>> \in given

----------------------------------------------------------------------------
(* The inductive invariant.                                                *)

Sought == [in : Id, slug : Slug, id : Id]

(* The handlers may serve requests of other modules as well, at points and *)
(* with requests of their own.                                             *)
TenantsTypeOK ==
    /\ table \in [Id -> Row \union {None}] /\ asked \in [Id -> Row \union {None}]
    /\ slugs \in [Place -> Id \union {None}]
    /\ DOMAIN pc = Handler /\ DOMAIN req = Handler
    /\ copy  \in [Handler -> Row \union Id \union {None}]
    /\ since \in [Handler -> SUBSET Field]
    /\ events \subseteq Id /\ silent \subseteq Id
    /\ crossed \subseteq Id \X Field /\ given \subseteq Place
    /\ requests \in 0..MaxRequests /\ faults \in 0..MaxFaults

(* What a handler works on at each of its calls.                           *)
RequestKnown(h) ==
    /\ pc[h] \in {"find", "check", "insert"} => req[h] \in Creations
    /\ pc[h] \in {"read", "recheck", "write"} => req[h] \in Updates
    /\ pc[h] = "publish" => copy[h] \in Id /\ Exists(copy[h])
    /\ pc[h] \notin {"recheck", "write"} => since[h] = {}

(* What a handler will write back: its own changes, and for the rest what  *)
(* was asked for, unless it has been changed since.                        *)
CopyExplained(h) ==
    pc[h] \in {"recheck", "write"} =>
        LET w == req[h].id IN
        /\ w \in Workspaces
        /\ copy[h] \in Row /\ copy[h].kind = "workspace" /\ copy[h].in = table[w].in
        /\ \A f \in Field :
              IF Asks(h, f) THEN copy[h][f] = req[h].change[f]
              ELSE copy[h][f] # asked[w][f] => f \in since[h] \/ <<w, f>> \in crossed

(* The workspace with this id is or was at this place.                     *)
WasAt(w, place) ==
    /\ w \in Workspaces /\ table[w].in = place[1]
    /\ table[w].slug = place[2] \/ <<w, place[2]>> \in given

StoreExplained(h) ==
    pc[h] = "store" => /\ req[h] \in Sought
                       /\ WasAt(req[h].id, <<req[h].in, req[h].slug>>)

CacheExplained == \A p \in Place : slugs[p] # None => WasAt(slugs[p], p)

TenantsInv ==
    /\ TenantsTypeOK
    /\ \A i \in Id : Exists(i) => asked[i] # None
    /\ \A h \in Handler : RequestKnown(h) /\ CopyExplained(h) /\ StoreExplained(h)
    /\ LostOnlyWhenCrossed /\ CreationsPublished /\ CacheExplained
=============================================================================
