# TLA+ models of masterfabric-go

masterfabric-go is a multi-tenant API gateway: one Go process with an HTTP router,
PostgreSQL, an optional Redis, an event bus (in-process or Kafka) and a WebSocket
hub. This directory models the parts whose correctness depends on the order of
steps of several goroutines, stores or clients, checks them with TLC on small
instances and proves the central facts with TLAPS for every instance.

Paths below are relative to the repository (`src/` in PROJECT.json, which maps every
definition to its lines).

## The system

| Part | State | Operations | What is hard |
| --- | --- | --- | --- |
| Refresh-token sessions (`application/iam/usecase/refresh_token_usecase.go`, its repository, `handler/iam`) | table `refresh_tokens`; the browser's cookie | login, refresh, logout, logout-all, list sessions | every call is a statement of its own; concurrent requests, lost responses, partial failure |
| WebSocket hub (`infrastructure/websocket`, `handler/realtime`) | `clients`, `rooms`, `orgChannels`; per connection a channel and two pumps | connect, subscribe, unsubscribe, broadcast, disconnect, `Close` | two client objects per connection, a channel several parties can close, limits |
| In-process event bus (`shared/events/inprocess.go`) and `run()` (`cmd/server/main.go`) | buffered channel, handlers, dispatcher | `Publish`, `Subscribe`, `Close`; startup, signal, shutdown | a full channel, handlers of cancelled requests, close against publish |
| Event bridge (`websocket/event_bridge.go`) | none | routes an event to rooms | a lookup that fails loses the rooms; it uses the context of a request that may be over |
| Kafka bus (`infrastructure/kafka`) | readers, positions; group offsets at the broker | `Publish`, `Subscribe`, `Start`, consume loop | commit order, restart, order of startup |
| Authentication, tenant resolution and RBAC (`shared/middleware`, `infrastructure/auth`, `assign_role.go`, `validate_connect.go`) | tokens in circulation; table `user_roles`; Redis entries with a TTL | sign and accept a token, find the organization, check a permission, assign a role | cache-aside read against invalidation; several answers to "which organization" |
| Gateway pipeline (`gateway/pipeline.go`) and rate limit | Redis counters | `Enforce` for each request | errors that are taken for absence; window boundary |
| Endpoint and policy management (`application/apimanagement`) | `app_endpoints`, `app_endpoint_policies` | define, activate, retire, update policy | whole-row read-modify-write, check-then-create, order of events |
| Organizations, apps, workspaces, users, API keys (`application/tenant`, `register.go`) | their tables; slug cache of the tenant middleware | create, update, revoke, list, resolve | check-then-create, lost updates, stale slugs |
| Interceptors (`gateway/interceptors`), dynamic backend handler (`gateway/dynamic_handler.go`), usage statistics | a table for each service; `model_usage_stats` | validate and mask a body; create, change, delete, list rows; five statements of one answer | endpoints of one table with and without masking; names derived from paths; answers put together from several statements |
| Migrations and startup (`postgres/migrate.go`, `run()`) | `schema_migrations` and the schema; connections | apply pending files; go on without a store | a crash between two statements; processes that start together |
| Router, health | groups of routes | readiness | what a process serves that has no database |
| Audit, configuration, utilities | none in use, or constants | | |

How they meet: the use cases write to PostgreSQL and then publish an event; the bus
hands the event to a logging handler and to the bridge, which broadcasts to the rooms
of the hub; a request passes authentication, tenant resolution, the pipeline and a
permission check (RBAC cache) before its use case runs. `run()` builds all of it, and
on shutdown stops the server, then closes the bus, Redis and the database.

What makes each part correct: a session token is worth one exchange and ends when its
owner says so; a hub's maps agree and a connection is closed once; an accepted event
is handled once, in order, and before the process ends; an offset is committed for
what was handled; a permission is granted only if the table says so, and soon if it
does; what is in the tables is what somebody asked for, and an answer tells one state of
them; a process serves the API only over the schema it was written for. PROJECT.json lists, under "hazards", where the code could fail in each of these
and which property watches it.

## Modules

`RefreshTokens` - table, handlers and cookie jars. An action is one call of a handler
to the repository (`Lookup` is `GetByTokenHash`, `RevokeCurrent` is `Revoke`, `Reissue`
is `Create`, ...), the arrival of a request (`Begin...`), or the response with the
browser's reaction to it (`Respond...`). A token, its hash and its row are one value;
a family is named by its first token. `Fault` lets a call fail, whether or not its
statement took effect, up to `MaxFaults`. `CookieScope` says which of the auth paths
lie under the cookie's path: the default of `config.go:166` is {"refresh"}. The
variables after "history" are written by actions and read by properties only.

`WsHub` - the hub, its connections and their pumps. Every method that holds `h.mu` is
one action; `Session.Start`'s second client object is modelled by the separate flags
`regClosed` and `sessClosed` and by `RemoveSession` working on an object without
rooms. `queued` counts the messages of a send channel. `crashed` records a panic on a
goroutine that does not recover, after which the process is gone.

`EventLog` - abstract: events are accepted in a sequence; each subscriber of an
event's topic handles it once, after everything accepted before it has been handled.

`EventBus` - the in-process bus with its publishers and `run()`. An event is named by
the request that publishes it. `main` goes through the phases of `run()`; `Dispatch`
and `Handle` are the dispatcher and its handler goroutines. `alive` holds the requests
whose context is not cancelled.

`EventBridge` - extends `EventBus`: `Bridge` is `Handle` for the bridge's handlers,
with the lookup under the request's context, which fails for any reason a query has, and
always once the request is over; `sent` is what goes to the hub.
`WsHub` takes it from there: its broadcasts come at any moment and in any order, so it
does not depend on what the bridge sends. A handler's goroutine recovers from nothing, so
that the panic of run `ws_hub_panic`, raised in the bridge, ends the process in the middle of a
`Handle`; `EventBus` does not contain this step, and what it shows is of processes that
do not meet it.

`KafkaConsumer` - one topic: `KafkaSubscribe`, `Start` and `KafkaListen` in the order the
constant `StartFirst` selects, the producer's `Write`, the loop of `consumeLoop`, and
`Restart`, after which the reader begins at the committed offsets.

`EventBuses` - the choice of `initEventBus`: a process has one of the two buses, for good
(`bus`), and each is scheduled as its own module says. `MCEventBuses` checks both.

`RbacCache` - `GetUserPermissions` in its three calls (`Get...`, `Query...`, `Set...`)
and `AssignRole` in its two (`Assign`, `Invalidate`). A role stands for its
permissions; no code changes `role_permissions` or takes a role away. `QueryCut` is a
loop over rows that ends because the connection does: nobody asks for `rows.Err`, so a
part of the list is taken, and cached, for all of it.

`OrgContext` - extends `RbacCache` with what comes before a check. A token is a user and
an organization; `Login` signs tokens that name none (`uuid.Nil`, the constant `NoOrg`),
`Foreign` are those of other holders of the secret. `Route` is a request through
`RequirePermission`, which asks for the organization of the claim, `Connect` a WebSocket
connection, which asks for the one `resolveOrgID` finds. `ValidateConnect` leaves out two more
refusals, of an app that is inactive or cannot be read. `Matches` is
`matchesPermission`, with permissions as sequences of their parts. `held`, `erred` and
`misled` are history.

`Tenants` - creations and updates, one repository call an action: `FindOrg`,
`CheckSlug`, `Insert...` and `Publish` for an organization, user, app or workspace,
`InsertKey` for a key; `ReadWorkspace`, `RecheckSlug` and `WriteWorkspace` for the one
update that routes reach. All tables are one function from ids to rows, and UNIQUE and
foreign keys are guards of the inserting statement. A read that fails is taken for
absence where the code takes it so. `ResolveHit`, `ResolveMiss` and `Store` are the slug
cache. `asked`, `since`, `crossed`, `given` and `silent` are history.

`Records` - extends `Tenants` with the generic handler and with the answers that several
statements make up: `Statements` lists them for each kind of list, a `Statement` sees
the rows of its moment, and `Watch` notes in every step whose rows were written in
between. `TableName` and `IdInPath` derive names and ids from sequences of words. What a
call writes is its body as the interceptors hand it on (`Input`), which the constant
operator `Intercepted` says; a statement that names a column its table does not have
fails. `bare` is history: the columns of a row that an endpoint without masking wrote
last.

`Interceptors` - the chain that `run()` builds, as operators on JSON values: `Validate`
(a schema is the set of the values it admits), `MaskPII` with the recursion of
`maskMap`, and `Intercept`. `Exposed` says, independently of the recursion, that a value
shows a sensitive field. `MCRecords` puts `Intercept` in the place of `Intercepted`, and
`Leaks` in that of `Readable`. What `Records` relies on - a masked body leaks nothing - is
the assumption `RecordsAssumption`, which TLC evaluates for the calls of the run;
`MaskerHides` in `MCRecords` checks it for every object of three levels over a sensitive
and an ordinary field.

`Startup` - the part of `run()` from the connection to PostgreSQL to the routes. A
migration file is a number and stands for its tables; a file is one `Exec` without
arguments, which PostgreSQL runs as one transaction, and creates something that may not
exist, so that it never succeeds twice. `Apply` and `Record` are the two statements of a
file. `Refused` is an error the database answers with, `Unanswered` a statement whose
answer is lost, `Exit` the end of the process. `LoseTables`, `GoesAway` and `ComesBack`
are the world around it. `Probe` is the readiness probe.

`Endpoints` - define, activate, retire and update-policy requests, one database call
an action: `Define` and `Change` read (a change of status needs another status),
`Insert` and `Update` write, `Publish` announces; `PutPolicy` looks for a policy,
`UpdatePolicy` or `CreatePolicy` writes it. An endpoint is its UNIQUE (app, method,
path, version); of its row only the status changes after the insert, so `Update` of the
whole row as read is an update of the status. A read that fails is taken for "not
found" where the code takes it so. `crossed`, `silent`, `blind` and `author` are
history.

`Gateway` - extends `Endpoints` with the requests that run through `Pipeline.Enforce`
while endpoints are managed: status, policy, permission, rate limit and backend are
separate steps, because the rows can change between them. The Lua script of the rate
limit is one step on a Redis counter, and `WindowEnds` is its expiry. A process that has
started without Redis (`hasRedis`) keeps to no limit: `Limited` is the condition of
`pipeline.go:140`, and `Unlimited` the way past it. That
`HasPermission` never grants more than the tables do is what `RbacCache` shows
(`NothingOvergranted`); here `Grants` is a parameter, and a check may also say no to a
permission just granted. `wasActive`, `wasOpen`, `admitted` and `cap` are history, the
first two kept by `Observe` in every step.

`RefreshTokensProofs`, `WsHubProofs`, `EventBusProofs` (of `EventBridge` too),
`KafkaConsumerProofs`, `OrgContextProofs` (of `RbacCache` too), `GatewayProofs` (of
`Endpoints` too), `RecordsProofs` (of `Tenants` too) and `StartupProofs` hold theorems; the inductive invariants are
the last section of the module they are about. `MC...` modules hold symmetry sets and function constants for TLC. Operators commented "Mutant" are
plausible bugs used to check that a property notices them; no specification uses them.

## Runs

| Run | Bounds | Shows |
| --- | --- | --- |
| refresh_tokens | 1 account, 1 browser, 2 handlers, 3 tokens, 1 fault | rotation, sweeps and cookies under two concurrent requests and any one failure (6.4 million states) |
| ws_hub | 2 connections, 1 place, 2 apps, 2 channels | maps, objects and channels agree; places are given back; strangers are disconnected |
| event_buses | in-process: 3 events (unscoped, scoped, to be looked up), 3 topics, 3 bridge handlers and a logger, buffer 2; Kafka: 3 messages, 2 partitions, 2 handlers, 2 errors, 1 restart | the bus implements `EventLog`; shutdown drains and ends; order in the rooms; which events can miss them. On Kafka nothing is committed untried, is redelivered but by restarts, or stays untried |
| org_context | 2 readers, 1 assigner, 1 user, 1 organization beside `NoOrg`, 2 roles with wildcards, 1 fault | no over-granting; every stale entry explained, and gone in the end; who is turned away although a role allows it |
| tenancy | 2 handlers, 3 requests, 2 faults, pages of 2 rows | lost updates, published creations, cached slugs, answers of several statements, masked fields |
| startup | 2 processes, 3 files (the last refers to the others), 2 faults | the schema under what is served, tables without their row, readiness, and that all processes serve in the end |
| gateway | 2 admins, 1 endpoint, 2 policy rows, 2 rules (limits 1 and 2, one with a permission), 2 callers, at most 3 of the 4 requests under way at a time, 1 fault | events, policies, permissions and limits while requests are served and management goes on, with and without Redis (3.3 million states) |

The bounds. Every race modelled needs two requests (one reads, the other writes in
between), so two handlers show it; a third token gives a rotation of a rotation, which
replay needs. Two connections for one
place show a refusal, a place given back and taken again; the invariants of the hub are
proved for any number of connections. One place in a send channel is enough to have it full and empty, and two places of the
bus with three publishers give a full channel and a queue with an order. Two errors and a
restart let a consumer fail on a message, then fail its commit, and read again. In `org_context` `uuid.Nil` is
the second organization that makes a wrong cache key visible; the two roles carry
`app:*` and `*:read`, so that a connection is allowed by either and the route by one. In
`tenancy` an update needs one request before and one beside it, and an answer of two
statements one beside it; two of the rows a page can hold make a page and its total
differ, and the second fault lets the check and the write of one request fail; four endpoints of
one table - with masking, without, with masking and a schema, and proxied - send bodies
with a sensitive field at the top, in an object, in an array and in an array of arrays. In
`startup` two processes read the same files pending, which a third would do no
differently; a file that refers to others is what lost tables are lost with, and two
faults are a crash between two statements and another at the restart. In `gateway` the two admins
cross each other's events and duplicate policies, and two callers reach a limit of one
and, after an edit of the policy, of two. No property relates more than two requests
and a third that interferes, so at most three are under way at a time (`MaxBusy`); the
theorems have no such bound. Symmetry is used only in
runs without liveness, over sets whose values no definition distinguishes.

`CHECK_DEADLOCK FALSE` is set where the system may stop: tokens that can be drawn,
connections, callers, messages and the requests of `tenancy` are finite in number, the
bus ends with the process, and a crashed hub does nothing. `org_context` and `startup`
check deadlock.

### What the violation runs show

Each states what a comment or a document says and is refuted by a trace of the code:

* refresh_replay: two requests that both read a token before either revokes it exchange
  it twice.
* ws_hub_panic: a room keeps the object of a client whose channel is closed; the next
  broadcast ends the process.
* kafka_at_least_once: the commit of a message passes an earlier one that failed.
* own_tokens: a user with a role logs in and is turned away by a protected route of the
  organization the role is in. The README of the repository (lines 228 to 231) has
  `Create Organization` and `Create App` use the token of `Login` as it is, and lines 139
  and 145 give them `org:write` and `app:write`. Roles are given in organizations, and own
  tokens name none; theorem `OwnTokensPassNoRoute` says that there is no exception. A
  WebSocket connection is open to them.
* ready_without_redis: the probe of a process without Redis panics and is answered 500,
  where the README of the repository (lines 622 and 623, with `REDIS_HOST=` in 584) shows
  it ready with PostgreSQL only. `handler/health/handler.go` compares an interface that
  holds a nil pointer with nil.

A fifth disagreement is a theorem and not a run: the comment at `main.go:197` says that
consuming starts after the subscriptions, but `run()` calls `Start` before
`buildDependencies` subscribes anything. With that order there is no consumer, and no
message is ever delivered (`EarlyStartServesNobody`). Everything else that is said here
of Kafka is therefore said of the other order (`StartFirst = FALSE`), which the consumer asks
for, and which `run()` would have to keep for Kafka to be of use.

Elsewhere the code promises less than one might expect, and the passing properties say
exactly how much less:

* A rotation between its `Revoke` and its `Create` survives a logout-all or the
  revocation of its family. `SweepMissesOnlyInFlight` and `OneSuccessorPerHandler` bound
  this to one session per request in flight.
* `CookieScope` gives the cookie to refresh and logout. Under the default path of the
  code (`config.go:166`) logout gets none and revokes nothing, although
  docs/superpowers/specs/2026-07-20-refresh-token-design.md:58 has it revoke the session.
  This is read off the code and no run is about it.
* `Publish` can panic after a shutdown that timed out, and only then
  (`PanicsOnlyWhenHurried`).
* An endpoint event names no organization, and misses its rooms when the lookup of its
  app fails: because its request, whose context the lookup uses, is over, or because the
  query fails (`MissedOnlyByLookup`). Nobody is told.
* A browser can be left with a revoked cookie without any fault: two tabs refresh with
  one cookie, the later one is taken for a replay, and the family is revoked.
  `RevokedCookieExplained` lists this with the other causes, a lost answer and a logout
  everywhere. A call that fails inside `Rotate` or `Logout` is not one: its answer clears
  the cookie.
* A permission entry can be written after the assignment that outdates it has deleted
  it (`StaleExplained`), and lives for a TTL at most (`FreshInTheEnd`).
* The organization of a request is the header's, the claim's or the subdomain's for
  everything but `RequirePermission`, which takes the claim's. `DeniedExplained` lists
  the reasons why a role holder is turned away, this one among them.
* An update of a workspace writes the whole row as it was read. A field that another
  request has changed in between goes back, and for no other reason does a workspace
  lack what was asked for last (`LostOnlyWhenCrossed`).
* A cached slug keeps resolving to the workspace it was of when the entry was written,
  for ever; `CachedSlugExplained` says that the workspace had it once and is of the same
  organization. Nothing reads the workspace of the context.
* A list and its total, and the parts of the usage statistics, are of different moments
  if a request writes in between, and are cut short if a loop ends early
  (`AnswersAgree`). The get, update and delete operations of the generic handler look for the
  singular table name in the path: for a table `orders` they match `/order/{id}`, and on
  `/orders/{id}` find no row.
* Masking goes by endpoint and not by table, and leaves arrays inside arrays alone: a
  sensitive field is readable in a column that an endpoint without masking wrote last, or
  there (`MaskedUnlessBare`). Responses are never masked, although the response side of
  the interceptors has tests. A body that is no JSON object, and so one of more than one
  MiB, creates an empty row and is answered 201 unless the endpoint has a schema.
* A migration and its record are two statements. If a process ends between them, every
  later start fails at that file until somebody intervenes (`UnrecordedExplained`);
  `ServesInTheEnd` promises service only without such tables.
* A process that starts while PostgreSQL is away serves no API until it is restarted,
  and `ready` never becomes true for it (`ReadyMeansServing`).
* A process that starts while Redis is away keeps to no rate limit. With Redis, the bound
  of a window is the largest limit that a request it let through had read, perhaps before
  the policy was lowered (`WindowWithinLimit`).
* The last event of an endpoint may tell another status than its row has: if a second
  request wrote the row before the first had published, or an event was lost. Otherwise
  they agree (`AnnouncedAgrees`).
* An endpoint can have several policies, any one of which is read: one for each request
  that looked before another inserted, and one for each failed lookup
  (`OnePolicyPerAuthor`).
* A request whose read of the policy fails is held to no policy at all
  (`pipeline.go:116` drops the error): `ServedIfLetThrough` excepts those, and only
  those. A failing permission check or rate limit refuses the request.
* The README of the repository (lines 270 to 273) puts schema validation before the
  permission check; `Enforce` runs it after the rate limit, with the interceptors. A
  request that fails it has therefore been counted (`Admit` precedes `ServeFails`).

## Fairness

`WsHub`: the pumps run when they can, and a write or read on a connection returns
(deadlines are set in `client.go`). No client is assumed to send, to read or to leave.
`EventBus`: dispatcher, handlers and the main goroutine run; the handlers do not block
without the request's context. Publishing requests are not fair (a use case may hang),
nor are signals; the 30 s of `Shutdown` pass. The liveness in `EventLog` follows from
these. `KafkaConsumer`: the single loop runs; restarts and errors are bounded.
`EventBridge` takes the fairness of the bus. `OrgContext`: requests make their calls,
and Redis expires entries; nobody has to log in, to ask or to assign. `Startup`: `run()`
goes from call to call, since its calls have deadlines, and the platform starts a
process again that has ended. The latter is an assumption about the deployment, which
the repository leaves to a hosting service; stores need not come back, and forced starts need not
cease, which is why `ServesInTheEnd` excepts them. `RefreshTokens` has
no liveness property: its requests may fail at any time; neither have `Endpoints`,
`Gateway`, `Tenants` and `Records`. In `Gateway`, `LimitLifted` says as an invariant that
a counter always has its time to live.

## Proofs

Every safety invariant of a passing run is a theorem, for all values of the constants.
All are proved by an inductive invariant, which TLC has confirmed on the run of its
module before: one lemma per action or group of actions that behaves alike, lemmas for what a step
leaves alone, and PTL at the end.

`RefreshTokensProofs`, for any accounts, browsers, handlers, tokens and failures. The
rows alone are not inductive: a handler at `reissue` relies on the revocation it made
two calls earlier. `RotationInFlight` says what each point of `Rotate` knows of its
token (it is in the table; at `reissue` it is revoked; the handler has not made its
successor), `FamilyHasOneOwner` that a family belongs to one account, and
`SweepMissesOnlyInFlight` is carried by the set of handlers that were rotating when a
sweep ran. Results: `RotationSafe`, `SuccessorsBounded`, `SweepBounded`, `TypeCorrect`,
and `SequentialSingleUse`: with a single handler every token is exchanged once.
`NoBrowserStranded` needs the jars as well (`CookieInv`): no two browsers hold one
token (`CookiesApart`), two handlers that carry one cookie have contested its family
(`CarriersKnown`), and a handler that finds its token revoked, that sweeps a family, or
that answers with a token already revoked works on a contested or signed-out family
(`RevocationsHaveCause`).

`WsHubProofs`, for any clients, organizations, apps, channels, limits and capacities:
`IndexCorrect`, `NoDoubleClose`, `MembersCorrect`, `TypeCorrect`. The point is that
membership in `clients` decides who closes a channel, so a member's channel is open;
two lemmas on `AddToRoom` and `DropFromRooms` carry the index.

`EventBusProofs`, for any publishers, topics, handlers and capacities. The channel is
always the end of the log of accepted events (`ChannelEndsLog`), so `Taken` of them
have left it; handlers run for the last taken event only (`RunningForLast`), and all
before it have been handled (`TakenAreHandled`). That makes `Accept`, `Handle` and every
other step one of `EventLog` or a stutter (`StepOfLog`), which is `ImplementsEventLog`:
the safety half of `AcceptedEventsHandled`, step by step. `ShutdownInOrder` ties the
phases of `run()` to the dispatcher's, which gives `ExitLosesNothing`, and
`PanicsOnlyAfterHurry` rests on requests being over before `Close` unless the stop was
hurried. `BridgeIsBus` maps each step of the bridge to one of the bus, so that all this holds of
`BridgeSpec` (`BridgedBusImplementsEventLog`, `BridgedBusSafe`); what is sent to the rooms is
sent while its event is the last taken, hence `RoomsHearInOrder`. In `MissesHaveCause` what
excuses an event stays so: a request that is over does not come back, and `failed` only grows.

`KafkaConsumerProofs`, for any messages, partitions, handlers, errors and restarts. The
loop works on the message it has fetched last (`LoopIsAtLast`), all fetched before it
have been given to every handler (`FetchedWasTried`), and a message is in the topic once
(`WrittenOnce`). Results: `OffsetsBehindHandlers`, `OneDeliveryPerStart`, `TypeCorrect`
and the action property `OffsetsAdvance`. Two theorems mark off what the violation runs
show: `AtLeastOnceWithoutErrors` (as long as nothing fails, what is committed was
handled) and `EarlyStartServesNobody` (with the order of `run()`, nothing is delivered).

`OrgContextProofs` begins with `RbacCache`, for any requests and failures:
`NothingOvergranted` and `StalenessExplained`. The strengthening is that a reader about
to write holds the table's list unless an assignment has overtaken it. Then, for any
tokens, headers, roles and wildcards: every step is one of `RbacCache` or leaves its
variables alone (`UsesRbacCache`), so its invariant holds in the composition.
`OrgIInv` adds that a request asks for the organization of its token or, on a
connection, for that of its tenant (`AsksForItsOrg`), that nobody has a role in `NoOrg`,
that the roles held on arrival are still granted, and that a list neither stale nor cut
contains them (`SeenUnlessMisled`). Results: `NothingOvergrantedToRequests`,
`StalenessOfRequestsExplained`, `DenialHasCause`, `OwnTokensPassNoRoute`.

`RecordsProofs` begins with `Tenants`, for any tables, creations, changes, handlers and
failures. No row is removed or moved, so what a handler has read stays true but for the
two fields; those that others write meanwhile are in its `since` (`CopyExplained`), and
a slug that is given up is in `given` before a cached or a stored answer can be wrong
about it (`WasAt`). Results: `UpdatesLostByCrossing`, `EventsFollowRows`,
`CachedSlugsExplained` and the action property `RowsAreForGood`. `RecordsInv` adds
`SeenIsCurrent`: each statement behind an answer under way would return now what it has
returned, unless `Watch` has noted a write or a loop was cut off; from that and a fact about
cardinalities follows `AnswersOfOneMoment`. `MaskingHolds` is inductive as it stands,
given `RecordsAssumption`. `TenancyWhileServing` restates the results on `Tenants` for
`RecordsSpec`.

`StartupProofs`, for any number of processes and files: `UpToDate`,
`UnrecordedHasCause`, `ReadyServes`, `TypeCorrect`. That a process with nothing left to
do has all tables rests on `DoneHaveTables`: a file it has found recorded or has applied
itself keeps its tables whatever others do, unless they are lost, and `RecordedHaveTables`
says that a row means tables. One lemma (`StepOfOne`) frames a step of one process, so
that each action has only its own part to show.

`GatewayProofs` begins with `Endpoints`; for any endpoints, rules, rows, admins, callers,
limits and failures. `ManagementInv` adds to the two properties that an endpoint neither
crossed nor silent has at most one event due, of its present status (`OneEventDue`),
that a request about to insert a policy has inserted none (`FirstForItsAuthor`), and
that free rows carry no author. `PipelineInv` adds what each point of `Enforce` has
behind it (`ActiveBehind`, `PolicyBehind`) and that Redis counts at least what was let
through (`AdmittedWereCounted`). A lemma says that a step of the pipeline leaves
`ManagementInv` alone; `ManagedWhileServing` restates its results for `GatewaySpec`.
Results: `EventsAgree`, `PoliciesBounded`, `ServesActive`, `ServesPermitted`,
`RateLimited`, `WindowsEnd`, and the types of both modules.

The assumptions are the named ASSUMEs of the modules, which TLC evaluates in every run:
typing of constants; readers and assigners are different requests; a migration refers to
earlier ones only; `None` is not an offset, a row or an id; ids are finitely many (they
are 128 bits long); and `RecordsAssumption` about the masker, which stays an assumption
because `maskMap` is recursive.

Only model-checked: all liveness, which the prover cannot reach (`SlotFreed`,
`StrangerDisconnected`, the liveness half of `AcceptedEventsHandled`,
`ShutdownTerminates`, `EveryMessageTried`, `FreshInTheEnd`, `ServesInTheEnd`), and what
the recursive operators of `Interceptors` compute, since induction over data is out of
its reach too.

## Not modelled

Cryptography, the text of JSON and SQL, logging and metrics; times, except that a refresh token
may expire and a TTL may pass; Kafka rebalances and producer retries. `LeastBytes`
partitioning (`producer.go:26`) and the envelope that the bridge does not know
(`event_bridge.go:163`) have no effect while no handler is subscribed before `Start`.
When Kafka cannot be reached at startup a process goes on with a bus of its own
(`InitEventBus`), so that instances no longer hear each other; each is then `EventBus`.

Code that nothing calls: `DeleteExpired`, `gateway/resolver.go`, the role-removal
methods, most `Update` and `Delete` methods of the repositories, the `AuditLog`
middleware, the response interceptors, and the check of API keys, which does not exist.
The remaining components without a module are listed in PROJECT.json, each with its
reason: configuration and utilities are stateless; scripts are not part of the program.

## Plan

Done: the sessions, the hub, bus and bridge, Kafka, the permission cache and the
organization of a request, endpoints and gateway, tenancy with the generic handler,
startup. Left, in this order:

1. Proofs: refinements between the modules that compose (`Gateway` and `Endpoints`,
   `Records` and `Tenants`) stated as such, and an abstract specification of the
   sessions that `RefreshTokens` implements.
2. `Endpoints` composed with `EventBus`: what a room hears of the status of an endpoint.
3. Kafka envelopes through the bridge, with handlers subscribed before `Start`.
4. Pagination parameters as operators against a reference definition.
