------------------------------- MODULE Startup -------------------------------
(***************************************************************************)
(* run in main.go, from the connection to PostgreSQL to the routes that    *)
(* are served: RunMigrations against a database that other processes       *)
(* migrate at the same time, and the stores a process goes on without.     *)
(*                                                                         *)
(* A migration file is its place in the order of the names, and stands     *)
(* also for the tables it creates.  It is one Exec without arguments,      *)
(* which PostgreSQL runs as one transaction; no file succeeds where its    *)
(* tables are, since each creates an index or a table that may not exist.  *)
(***************************************************************************)
EXTENDS Naturals, FiniteSetsExt

CONSTANTS
    Process,
    Files,       \* number of migration files
    Needs,       \* file -> the files whose tables it refers to
    MaxFaults    \* bound: crashes, failed calls, lost tables, outages

File == 1..Files
None == 0

ASSUME StartupAssumption ==
    /\ Files \in Nat
    /\ Needs \in [File -> SUBSET File]
    /\ \A f \in File : \A g \in Needs[f] : g < f
    /\ MaxFaults \in Nat

Bus == {"kafka", "in-process"}

VARIABLES
    tables,      \* files whose tables are there
    hasVersions, \* the table schema_migrations is there
    recorded,    \* its rows
    away,        \* stores that cannot be reached
    pc,          \* process -> its next call, "down" if it does not run
    force,       \* process -> FORCE_MIGRATE is set
    todo,        \* process -> files it has not found recorded
    conn,        \* process -> db, redis, bus: what it goes on with
    ready,       \* process -> its last answer to the readiness probe
    faults,
    \* history, read by properties only
    lost,        \* files whose tables were lost
    orphaned     \* files whose tables stayed when their row did not

vars == <<tables, hasVersions, recorded, away, pc, force, todo, conn, ready,
          faults, lost, orphaned>>
database == <<tables, hasVersions, recorded, lost, orphaned>>

Steps == {"down", "connect", "drop", "create", "read", "apply", "record",
          "redis", "bus", "serve"}
NoConn == [db |-> FALSE, redis |-> FALSE, bus |-> "in-process"]

TypeOK ==
    /\ tables \subseteq File /\ recorded \subseteq File
    /\ hasVersions \in BOOLEAN
    /\ ~hasVersions => recorded = {}
    /\ away \subseteq {"postgres", "redis", "kafka"}
    /\ pc \in [Process -> Steps]
    /\ force \in [Process -> BOOLEAN]
    /\ todo \in [Process -> SUBSET File]
    /\ conn \in [Process -> [db : BOOLEAN, redis : BOOLEAN, bus : Bus]]
    /\ ready \in [Process -> {"unasked", "ready", "not ready", "panicked"}]
    /\ faults \in 0..MaxFaults
    /\ lost \subseteq File /\ orphaned \subseteq File

Init ==
    /\ tables = {} /\ hasVersions = FALSE /\ recorded = {}
    /\ away = {}
    /\ pc = [p \in Process |-> "down"]
    /\ force = [p \in Process |-> FALSE]
    /\ todo = [p \in Process |-> {}]
    /\ conn = [p \in Process |-> NoConn]
    /\ ready = [p \in Process |-> "unasked"]
    /\ faults = 0
    /\ lost = {} /\ orphaned = {}

Goto(p, step) == pc' = [pc EXCEPT ![p] = step]
Fault == faults < MaxFaults /\ faults' = faults + 1

(* os.Exit, or the end of the process by another hand.                     *)
Exit(p) ==
    /\ Goto(p, "down")
    /\ force' = [force EXCEPT ![p] = FALSE]
    /\ todo'  = [todo EXCEPT ![p] = {}]
    /\ conn'  = [conn EXCEPT ![p] = NoConn]
    /\ ready' = [ready EXCEPT ![p] = "unasked"]

Reached(store) == store \notin away

----------------------------------------------------------------------------
Start(p, forced) ==
    /\ pc[p] = "down"
    /\ force' = [force EXCEPT ![p] = forced]
    /\ Goto(p, "connect")
    /\ UNCHANGED <<database, away, todo, conn, ready, faults>>

(* NewPostgresPool; without it the process goes on and migrates nothing.   *)
Connect(p) ==
    /\ pc[p] = "connect"
    /\ IF Reached("postgres")
       THEN /\ conn' = [conn EXCEPT ![p].db = TRUE]
            /\ Goto(p, IF force[p] THEN "drop" ELSE "create")
       ELSE UNCHANGED conn /\ Goto(p, "redis")
    /\ UNCHANGED <<database, away, force, todo, ready, faults>>

(* DROP TABLE IF EXISTS schema_migrations.                                 *)
VersionsDropped ==
    /\ hasVersions' = FALSE
    /\ recorded' = {}
    /\ orphaned' = orphaned \union (tables \intersect recorded)
    /\ UNCHANGED <<tables, lost>>

DropVersions(p) ==
    /\ pc[p] = "drop" /\ Reached("postgres")
    /\ VersionsDropped
    /\ Goto(p, "create")
    /\ UNCHANGED <<away, force, todo, conn, ready, faults>>

CreateVersions(p) ==
    /\ pc[p] = "create" /\ Reached("postgres")
    /\ hasVersions' = TRUE
    /\ Goto(p, "read")
    /\ UNCHANGED <<tables, recorded, lost, orphaned, away, force, todo, conn, ready, faults>>

GoOn(p, files) ==
    /\ todo' = [todo EXCEPT ![p] = files]
    /\ Goto(p, IF files = {} THEN "redis" ELSE "apply")

(* Mutant: every file is taken for pending.                                *)
ReadVersionsAll(p) ==
    /\ pc[p] = "read" /\ Reached("postgres")
    /\ hasVersions
    /\ GoOn(p, File)
    /\ UNCHANGED <<database, away, force, conn, ready, faults>>

(* The names recorded, once, before the first file.  The loop over them    *)
(* ends early when the connection is lost, and nobody asks for rows.Err.   *)
ReadVersions(p) ==
    /\ pc[p] = "read" /\ Reached("postgres")
    /\ hasVersions
    /\ \/ GoOn(p, File \ recorded) /\ UNCHANGED faults
       \/ Fault /\ \E rows \in SUBSET recorded : GoOn(p, File \ rows)
    /\ UNCHANGED <<database, away, force, conn, ready>>

NextFile(p) == Min(todo[p])

CanApply(f) == f \notin tables /\ Needs[f] \subseteq tables

TablesCreated(f) ==
    /\ CanApply(f)
    /\ tables' = tables \union {f}
    /\ lost' = lost \ {f}

Apply(p) ==
    /\ pc[p] = "apply" /\ Reached("postgres")
    /\ TablesCreated(NextFile(p))
    /\ Goto(p, "record")
    /\ UNCHANGED <<hasVersions, recorded, orphaned, away, force, todo, conn, ready, faults>>

CanRecord(f) == hasVersions /\ f \notin recorded

(* Mutant: the file is not entered.                                        *)
RowInsertedNot(f) == CanRecord(f) /\ UNCHANGED <<recorded, orphaned>>

(* INSERT INTO schema_migrations, under its primary key.                   *)
RowInserted(f) ==
    /\ CanRecord(f)
    /\ recorded' = recorded \union {f}
    /\ orphaned' = orphaned \ {f}

Record(p) ==
    /\ pc[p] = "record" /\ Reached("postgres")
    /\ RowInserted(NextFile(p))
    /\ GoOn(p, todo[p] \ {NextFile(p)})
    /\ UNCHANGED <<tables, hasVersions, lost, away, force, conn, ready, faults>>

(* Tables of a process that ends before their row.                         *)
LeavesBehind(p) == IF pc[p] = "record" THEN {NextFile(p)} \intersect tables ELSE {}

(* Mutant: a file that fails is skipped.                                   *)
RefusedSkips(p) ==
    /\ pc[p] = "apply" /\ Reached("postgres") /\ ~CanApply(NextFile(p))
    /\ GoOn(p, todo[p] \ {NextFile(p)})
    /\ UNCHANGED <<database, away, force, conn, ready, faults>>

(* PostgreSQL refuses a statement, and the process exits.                  *)
Refused(p) ==
    /\ Reached("postgres")
    /\ \/ pc[p] = "read" /\ ~hasVersions
       \/ pc[p] = "apply" /\ ~CanApply(NextFile(p))
       \/ pc[p] = "record" /\ ~CanRecord(NextFile(p))
    /\ orphaned' = orphaned \union (LeavesBehind(p) \ recorded)
    /\ Exit(p)
    /\ UNCHANGED <<tables, hasVersions, recorded, lost, away, faults>>

(* A statement does not return, or not before the ten seconds are over;    *)
(* it may have taken effect.                                               *)
Unanswered(p) ==
    /\ pc[p] \in {"drop", "create", "read", "apply", "record"}
    /\ Fault \/ (~Reached("postgres") /\ UNCHANGED faults)
    /\ \/ orphaned' = orphaned \union (LeavesBehind(p) \ recorded)
          /\ UNCHANGED <<tables, hasVersions, recorded, lost>>
       \/ pc[p] = "drop" /\ VersionsDropped
       \/ pc[p] = "create" /\ hasVersions' = TRUE
          /\ UNCHANGED <<tables, recorded, lost, orphaned>>
       \/ /\ pc[p] = "apply" /\ TablesCreated(NextFile(p))
          /\ orphaned' = orphaned \union {NextFile(p)}
          /\ UNCHANGED <<hasVersions, recorded>>
       \/ pc[p] = "record" /\ RowInserted(NextFile(p))
          /\ UNCHANGED <<tables, hasVersions, lost>>
    /\ Exit(p)
    /\ UNCHANGED away

(* NewRedisClient; the process goes on without.                            *)
ConnectRedis(p) ==
    /\ pc[p] = "redis"
    /\ conn' = [conn EXCEPT ![p].redis = Reached("redis")]
    /\ Goto(p, "bus")
    /\ UNCHANGED <<database, away, force, todo, ready, faults>>

(* EnsureTopics fails if the broker or its controller cannot be reached;   *)
(* what CreateTopics reports is logged.                                    *)
TopicsEnsured == Reached("kafka")

(* initEventBus: without KAFKA_ENABLED, or if the topics cannot be         *)
(* ensured, the bus is the process's own.                                  *)
InitEventBus(p, enabled) ==
    /\ pc[p] = "bus"
    /\ conn' = [conn EXCEPT ![p].bus =
                  IF enabled /\ TopicsEnsured THEN "kafka" ELSE "in-process"]
    /\ Goto(p, "serve")
    /\ UNCHANGED <<database, away, force, todo, ready, faults>>

(* A process ends, or is ended, at any point.                              *)
Crash(p) ==
    /\ pc[p] # "down"
    /\ Fault
    /\ orphaned' = orphaned \union (LeavesBehind(p) \ recorded)
    /\ Exit(p)
    /\ UNCHANGED <<tables, hasVersions, recorded, lost, away>>

----------------------------------------------------------------------------
(* buildDependencies: no handler is made without a database.               *)
Handlers(c) == IF c.db THEN {"auth", "api", "ws"} ELSE {}

(* router.New: what a process serves.                                      *)
Routes(c) == {"health", "metrics"} \union Handlers(c)

(* Mutant: a store the process is without is passed over.                  *)
PingSkipped(has, store) == IF has => Reached(store) THEN "healthy" ELSE "unhealthy"

(* h.db and h.redis are pointers in an interface, so never nil: without a  *)
(* store the method runs on a nil pointer.                                 *)
Ping(has, store) ==
    IF ~has THEN "panic" ELSE IF Reached(store) THEN "healthy" ELSE "unhealthy"

(* Readiness, under Recoverer.                                             *)
Readiness(c) ==
    LET pings == {Ping(c.db, "postgres"), Ping(c.redis, "redis")} IN
    IF "panic" \in pings THEN "panicked"
    ELSE IF "unhealthy" \in pings THEN "not ready" ELSE "ready"

Probe(p) ==
    /\ pc[p] = "serve"
    /\ ready' = [ready EXCEPT ![p] = Readiness(conn[p])]
    /\ UNCHANGED <<database, away, pc, force, todo, conn, faults>>

----------------------------------------------------------------------------
(* Around the processes: stores go away and come back, and tables are      *)
(* lost, with those that refer to them.                                    *)
GoesAway(store) ==
    /\ Reached(store) /\ Fault
    /\ away' = away \union {store}
    /\ UNCHANGED <<database, pc, force, todo, conn, ready>>

ComesBack(store) ==
    /\ away' = away \ {store} /\ away' # away
    /\ UNCHANGED <<database, pc, force, todo, conn, ready, faults>>

LoseTables ==
    /\ tables # {} /\ Fault
    /\ \E left \in SUBSET tables :
          /\ left # tables
          /\ \A f \in left : Needs[f] \subseteq left
          /\ tables' = left
          /\ lost' = lost \union (tables \ left)
          /\ orphaned' = orphaned \intersect left
    /\ UNCHANGED <<hasVersions, recorded, away, pc, force, todo, conn, ready>>

----------------------------------------------------------------------------
Run(p) ==
    \/ Connect(p) \/ DropVersions(p) \/ CreateVersions(p) \/ ReadVersions(p)
    \/ Apply(p) \/ Record(p) \/ Refused(p) \/ Unanswered(p)
    \/ ConnectRedis(p) \/ \E enabled \in BOOLEAN : InitEventBus(p, enabled)

Next ==
    \/ \E p \in Process :
          \/ \E forced \in BOOLEAN : Start(p, forced)
          \/ Run(p) \/ Crash(p) \/ Probe(p)
    \/ \E store \in {"postgres", "redis", "kafka"} : GoesAway(store) \/ ComesBack(store)
    \/ LoseTables

(* run goes from one call to the next, and the platform starts a process   *)
(* that has ended again.                                                   *)
Spec ==
    /\ Init /\ [][Next]_vars
    /\ \A p \in Process :
          /\ WF_vars(Run(p))
          /\ WF_vars(\E forced \in BOOLEAN : Start(p, forced))

----------------------------------------------------------------------------
(* A process with routes that read tables has all of them, but for tables  *)
(* that were lost and that nobody has told the migrations about.           *)
ServedUpToDate ==
    \A p \in Process :
        pc[p] = "serve" /\ "api" \in Routes(conn[p]) => File \ lost \subseteq tables

(* Tables without their row, which stop every later start, are either the  *)
(* ones of a process between its two statements or were left by one that   *)
(* failed there, or by a forced start that found tables.                   *)
UnrecordedExplained ==
    \A f \in tables \ recorded :
        \/ \E p \in Process : pc[p] = "record" /\ NextFile(p) = f
        \/ f \in orphaned

(* A process answers that it is ready only if it serves the API, on tables *)
(* that its own start or that of another process has brought up to date:   *)
(* a process that goes on without a database is never taken for ready.     *)
ReadyMeansServing ==
    \A p \in Process :
        ready[p] = "ready" =>
            /\ pc[p] = "serve" /\ "api" \in Routes(conn[p])
            /\ File \ lost \subseteq tables

(* "/health/ready # {"status":"ready","services":{"postgres":"healthy"}}"  *)
(* (README.md, of a deployment with REDIS_HOST=): a process with its       *)
(* database and without Redis answers the probe.                           *)
(* Violated: NewHandler puts a nil *redis.Client in an interface, which is *)
(* not nil, and Ping runs on it.                                           *)
ReadyWithoutRedis ==
    \A p \in Process : conn[p].db => ready[p] # "panicked"

(* Processes that find the same files pending make each other exit, but in *)
(* the end each of them serves, unless tables were left without their row, *)
(* or lost without it, or forced starts go on dropping the record under    *)
(* each other.                                                             *)
ServesInTheEnd ==
    \A p \in Process :
        \/ <>[](pc[p] = "serve" \/ tables # recorded)
        \/ []<>(\E q \in Process : pc[q] = "drop")
----------------------------------------------------------------------------
(* The inductive invariant behind the theorems of StartupProofs.           *)

(* A file is recorded only once its tables are there.                      *)
RecordedHaveTables == recorded \subseteq tables \union lost

(* So are they of the files a process no longer has to do, and of the one  *)
(* it is about to record.                                                  *)
DoneHaveTables ==
    \A p \in Process :
        /\ pc[p] \in {"apply", "record", "redis", "bus", "serve"} /\ conn[p].db =>
              File \ todo[p] \subseteq tables \union lost
        /\ pc[p] = "record" => NextFile(p) \in tables \union lost

(* What the step of a process says about its files and its database.       *)
StepsInOrder ==
    \A p \in Process :
        /\ pc[p] \in {"apply", "record"} => todo[p] # {}
        /\ pc[p] \in {"redis", "bus", "serve"} /\ conn[p].db => todo[p] = {}
        /\ pc[p] \in {"down", "connect"} => ~conn[p].db

(* Only a process with its database has answered that it is ready.         *)
ReadyHasDatabase ==
    \A p \in Process : ready[p] = "ready" => pc[p] = "serve" /\ conn[p].db

IInv ==
    /\ TypeOK
    /\ RecordedHaveTables
    /\ DoneHaveTables
    /\ StepsInOrder
    /\ UnrecordedExplained
    /\ ReadyHasDatabase
=============================================================================
