------------------------------- MODULE Records -------------------------------
(***************************************************************************)
(* What apps store through the gateway, and answers that several           *)
(* statements make up.                                                     *)
(*                                                                         *)
(* DynamicHandlerResolver serves an endpoint from a table of its own: the  *)
(* name is derived from the service's, the rows are the organization's and *)
(* the app's.  A list is a COUNT and then a SELECT; so are the lists of    *)
(* organizations, users and apps; the usage statistics of a user are five  *)
(* statements.  No transaction holds them together, and requests of other  *)
(* handlers, those of Tenants among them, go on in between.                *)
(*                                                                         *)
(* The interceptors are a parameter: which bodies they hand on, module     *)
(* Interceptors defines.                                                   *)
(*                                                                         *)
(* A name is a sequence of words: "order-service" is <<"order",            *)
(* "-service">>, and the plural of <<"order">> is <<"order", "s">>.        *)
(***************************************************************************)
EXTENDS Tenants, SequencesExt

CONSTANTS
    RecordId, User,
    Column,       \* columns of the tables, besides the ones in Reserved
    Calls,        \* what clients ask of the generic handler
    Lists,        \* what they ask to be listed
    Limit,        \* rows of a page
    UsageId,      \* ids of usage statistics
    Intercepted(_), \* call -> the body that the interceptors hand on
    Readable(_, _)  \* column, value: shows what masking is there to hide

(* What masking is relied on for, of each call that clients make.          *)
ASSUME RecordsAssumption ==
    /\ \A call \in Calls :
          call.endpoint.masking /\ call.method \notin {"GET", "DELETE"} =>
             LET body == Intercepted(call) IN
             body.type = "object" =>
                \A c \in DOMAIN body.fields : ~Readable(c, body.fields[c])
    /\ \A q \in Lists : q.of \in {"org", "user", "app", "workspace", "key", "records", "usage"}
    /\ IsFiniteSet(Id) /\ IsFiniteSet(RecordId) /\ IsFiniteSet(UsageId)
    /\ Limit \in Nat

VARIABLES
    records,      \* id -> row of a table of the generic handler
    usage,        \* id -> user of the row of model_usage_stats
    seen,         \* handler -> rows that the statements of its answer have seen
    \* history, read by properties only
    bare,         \* columns of a row that an endpoint without masking wrote last
    moved,        \* handlers whose rows were written between two statements
    cut           \* handlers with a loop that ended before the last row

recordVars == <<records, usage, seen, bare, cut>>
allVars == <<tenantVars, recordVars, moved>>

RecordsInit ==
    /\ TenantsInit
    /\ records = [i \in RecordId |-> None]
    /\ usage = [i \in UsageId |-> None]
    /\ seen = [h \in Handler |-> <<>>]
    /\ bare = {} /\ moved = {} /\ cut = {}

----------------------------------------------------------------------------
(* deriveTableName.                                                        *)
TrimSuffix(name, suffix) ==
    IF IsSuffix(<<suffix>>, name) THEN Front(name) ELSE name

TableName(endpoint) ==
    LET service == TrimSuffix(TrimSuffix(TrimSuffix(endpoint.service, "-service"), "-api"), "-handler")
    IN  IF endpoint.table # None THEN endpoint.table
        ELSE IF IsSuffix(<<"s">>, service) THEN service ELSE Append(service, "s")

(* extractIDFromPath: the segment after the first one that is the singular *)
(* of the table's name, None if there is none.                             *)
IdInPath(path, name) ==
    LET after == {i \in 2..Len(path) : path[i-1] = TrimSuffix(name, "s")} IN
    IF after = {} THEN None ELSE path[CHOOSE i \in after : \A j \in after : i <= j]

(* The row is in the table, of the organization of the token and the app   *)
(* that the header names.                                                  *)
Owner(call) == [table |-> TableName(call.endpoint), org |-> call.claim, app |-> call.app]

(* ResolveHandler.  Neither handlers nor configurations are registered: a  *)
(* service that is a URL is called, any other has a table.                 *)
Generic(call) == ~call.endpoint.url

(* The row that get, update and delete are about.                          *)
Target(call) ==
    {i \in RecordId : /\ i = IdInPath(call.path, TableName(call.endpoint))
                      /\ records[i] # None /\ records[i].own = Owner(call)}

Serve(h) == Begin(h, None, "idle")

(* Mutant: the pipeline goes on with the request as it came.               *)
InputAsSent(call) ==
    IF call.body.type = "object" /\ call.method \notin {"GET", "DELETE"} THEN call.body.fields ELSE <<>>
(* The object in the body as the interceptors hand it on: no fields if it  *)
(* is none, which is no error.                                             *)
Input(call) ==
    LET body == Intercepted(call) IN
    IF body.type = "object" /\ call.method \notin {"GET", "DELETE"} THEN body.fields ELSE <<>>

(* The columns of a row that no body sets.                                 *)
Reserved == {"id", "organization_id", "app_id", "created_at", "updated_at"}

(* The columns that the statement names.                                   *)
Written(call) == DOMAIN Input(call) \ Reserved

NoteBare(rows, call) ==
    bare' = (bare \ (rows \X Written(call)))
            \union (IF call.endpoint.masking THEN {} ELSE rows \X Written(call))

CreateRecord(h, call) ==
    /\ Generic(call) /\ call.action = "create" /\ Written(call) \subseteq Column
    /\ Serve(h)
    /\ \E i \in RecordId :
          /\ records[i] = None
          /\ records' = [records EXCEPT ![i] =
                [own |-> Owner(call), data |-> [c \in Written(call) |-> Input(call)[c]]]]
          /\ NoteBare({i}, call)

(* UPDATE sets the columns of the body and leaves the others.              *)
Updated(row, call) ==
    [row EXCEPT !.data = [c \in Written(call) \union DOMAIN @ |->
                             IF c \in Written(call) THEN Input(call)[c] ELSE @[c]]]

UpdateRecord(h, call) ==
    /\ Generic(call) /\ call.action \in {"update", "patch"} /\ Written(call) \subseteq Column
    /\ Serve(h)
    /\ records' = [i \in RecordId |->
          IF i \in Target(call) THEN Updated(records[i], call) ELSE records[i]]
    /\ NoteBare(Target(call), call)

DeleteRecord(h, call) ==
    /\ Generic(call) /\ call.action = "delete" /\ Serve(h)
    /\ records' = [i \in RecordId |-> IF i \in Target(call) THEN None ELSE records[i]]
    /\ bare' = bare \ (Target(call) \X Column)

(* Everything else leaves the tables alone, and so does a statement that   *)
(* names a column its table does not have.                                 *)
OtherCall(h, call) ==
    /\ \/ ~Generic(call)
       \/ call.action \notin {"create", "update", "patch", "delete"}
       \/ call.action # "delete" /\ ~(Written(call) \subseteq Column)
    /\ Serve(h)
    /\ UNCHANGED <<records, bare>>

(* A body that the schema does not admit is answered 400.                  *)
CallRejected(h, call) ==
    /\ Intercepted(call).type = "rejected"
    /\ Serve(h)
    /\ UNCHANGED <<records, bare>>

CallServed(h, call) ==
    /\ Intercepted(call).type # "rejected"
    /\ CreateRecord(h, call) \/ UpdateRecord(h, call) \/ DeleteRecord(h, call) \/ OtherCall(h, call)

RecordCall(h, call) ==
    /\ CallRejected(h, call) \/ CallServed(h, call)
    /\ UNCHANGED <<table, slugs, copy, events, faults, history, usage, seen, cut>>

(* RecordUsage.                                                            *)
RecordUsage(h, user) ==
    /\ Serve(h)
    /\ \E i \in UsageId : usage[i] = None /\ usage' = [usage EXCEPT ![i] = user]
    /\ UNCHANGED <<table, slugs, copy, events, faults, history, records, bare, seen, cut>>

----------------------------------------------------------------------------
(* The rows a list is about: its WHERE clause.                             *)
Matching(q) ==
    CASE q.of \in {"org", "user"} -> {i \in Id : Exists(i) /\ table[i].kind = q.of}
      [] q.of \in {"app", "workspace", "key"} ->
             {i \in Id : Exists(i) /\ table[i].kind = q.of /\ table[i].in = q.in}
      [] q.of = "records" -> {i \in RecordId : records[i] # None /\ records[i].own = q.own}
      [] q.of = "usage"   -> {i \in UsageId : usage[i] = q.user}

Statements(q) ==
    CASE q.of = "usage" -> <<"count", "page", "summary", "models", "breakdown">>
      [] q.of \in {"workspace", "key"} -> <<"rows">>
      [] OTHER -> <<"count", "page">>

(* Mutant: COUNT without the WHERE clause.                                 *)
CountedAll(q) ==
    CASE q.of = "records" -> {i \in RecordId : records[i] # None}
      [] q.of = "usage"   -> {i \in UsageId : usage[i] # None}
      [] OTHER -> {i \in Id : Exists(i)}
Counted(q) == Matching(q)

(* What a statement returns; LIMIT leaves a page of the rows.              *)
Results(q, statement) ==
    CASE statement = "count" -> {Counted(q)}
      [] statement = "page"  -> {rows \in SUBSET Matching(q) :
                                    Cardinality(rows) = IF Cardinality(Matching(q)) < Limit
                                                        THEN Cardinality(Matching(q)) ELSE Limit}
      [] OTHER -> {Matching(q)}

(* Only the loops over workspaces and over the rows of the generic handler *)
(* are followed by rows.Err; what QueryRow reads it reads whole.           *)
CanBeCut(q, statement) ==
    /\ statement \notin {"count", "summary"}
    /\ q.of \notin {"records", "workspace"}

Ask(h, q) ==
    /\ Begin(h, q, "ask")
    /\ UNCHANGED <<table, slugs, copy, events, faults, history, recordVars>>

ListOrgs(h, q)       == q.of = "org" /\ Ask(h, q)
ListUsers(h, q)      == q.of = "user" /\ Ask(h, q)
ListApps(h, q)       == q.of = "app" /\ Ask(h, q)
ListWorkspaces(h, q) == q.of = "workspace" /\ Ask(h, q)
ListAPIKeys(h, q)    == q.of = "key" /\ Ask(h, q)
ListRecords(h, q)    == q.of = "records" /\ Ask(h, q)
GetUserStats(h, q)   == q.of = "usage" /\ Ask(h, q)

NextOf(h) == Statements(req[h])[Len(seen[h]) + 1]

Saw(h, rows) ==
    /\ seen' = [seen EXCEPT ![h] = Append(@, rows)]
    /\ Goto(h, IF Len(seen[h]) + 1 = Len(Statements(req[h])) THEN "answer" ELSE "ask")
    /\ UNCHANGED <<table, slugs, req, copy, events, requests, history, records, bare, usage>>

Statement(h) ==
    /\ pc[h] = "ask"
    /\ \E rows \in Results(req[h], NextOf(h)) : Saw(h, rows)
    /\ UNCHANGED <<faults, cut>>

(* The connection is lost between two rows: the loop ends as after the     *)
(* last, and the answer goes out without the rest.                         *)
StatementCut(h) ==
    /\ pc[h] = "ask"
    /\ CanBeCut(req[h], NextOf(h))
    /\ Fault
    /\ \E all \in Results(req[h], NextOf(h)) : \E rows \in SUBSET all \ {all} : Saw(h, rows)
    /\ cut' = cut \union {h}

Finish(h) ==
    /\ End(h)
    /\ seen' = [seen EXCEPT ![h] = <<>>]
    /\ cut' = cut \ {h}
    /\ UNCHANGED <<table, slugs, events, requests, asked, crossed, given, silent, records, bare, usage>>

StatementFails(h) == pc[h] = "ask" /\ Fault /\ Finish(h)

Answer(h) == pc[h] = "answer" /\ UNCHANGED faults /\ Finish(h)

----------------------------------------------------------------------------
(* Handlers in the middle of an answer whose rows this step has written.   *)
Watch ==
    moved' = {h \in Handler :
        /\ pc'[h] \in {"ask", "answer"}
        /\ h \in moved \/ (seen[h] # <<>> /\ Matching(req[h])' # Matching(req[h]))}

RecordsStep(h) ==
    \/ \E call \in Calls : RecordCall(h, call)
    \/ \E user \in User : RecordUsage(h, user)
    \/ \E q \in Lists :
          \/ ListOrgs(h, q) \/ ListUsers(h, q) \/ ListApps(h, q) \/ ListWorkspaces(h, q)
          \/ ListAPIKeys(h, q) \/ ListRecords(h, q) \/ GetUserStats(h, q)
    \/ Statement(h) \/ StatementCut(h) \/ StatementFails(h) \/ Answer(h)

RecordsNext ==
    /\ \/ TenantsNext /\ UNCHANGED recordVars
       \/ \E h \in Handler : RecordsStep(h)
    /\ Watch

RecordsSpec == RecordsInit /\ [][RecordsNext]_allVars

----------------------------------------------------------------------------
Complete(h) == pc[h] = "answer" /\ h \notin moved \union cut

(* The parts of an answer are about the same rows - the total is that of   *)
(* the rows the pages have, the breakdown adds up to the summary - unless  *)
(* a request has written such a row in between or a loop was cut off.      *)
AnswersAgree ==
    \A h \in Handler : Complete(h) =>
        \A n \in 2..Len(seen[h]) :
            IF n = 2
            THEN /\ seen[h][n] \subseteq seen[h][1]
                 /\ seen[h][n] = seen[h][1] \/ Cardinality(seen[h][n]) = Limit
            ELSE seen[h][n] = seen[h][1]

(* A row shows what masking is there to hide only in a column that an      *)
(* endpoint without masking was the last to write: whichever endpoints of  *)
(* one table have written it, and in whatever order.                       *)
MaskedUnlessBare ==
    \A i \in RecordId : records[i] # None =>
        \A c \in DOMAIN records[i].data :
            Readable(c, records[i].data[c]) => <<i, c>> \in bare

----------------------------------------------------------------------------
(* The inductive invariant.                                                *)
RecordsTypeOK ==
    /\ DOMAIN records = RecordId /\ DOMAIN usage = UsageId
    /\ \A i \in RecordId : records[i] # None => "data" \in DOMAIN records[i]
    /\ seen \in [Handler -> Seq(SUBSET (Id \union RecordId \union UsageId))]

(* The statements behind an answer under way, and, unless their rows have  *)
(* been written since or a loop was cut off, each of them would return     *)
(* now what it has returned.                                               *)
SeenIsCurrent(h) ==
    IF pc[h] \in {"ask", "answer"}
    THEN /\ req[h] \in Lists
         /\ Len(seen[h]) <= Len(Statements(req[h]))
         /\ pc[h] = "ask" => Len(seen[h]) < Len(Statements(req[h]))
         /\ h \notin moved \union cut =>
               \A n \in 1..Len(seen[h]) : seen[h][n] \in Results(req[h], Statements(req[h])[n])
    ELSE seen[h] = <<>>

RecordsInv ==
    /\ TenantsInv
    /\ RecordsTypeOK
    /\ \A h \in Handler : SeenIsCurrent(h)
    /\ MaskedUnlessBare
=============================================================================
