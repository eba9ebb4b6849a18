---------------------------- MODULE StartupProofs ----------------------------
(***************************************************************************)
(* Proofs about Startup, for any number of processes and files, and any    *)
(* crashes, failures and lost tables.                                      *)
(*                                                                         *)
(* What a process knows of a file - that it was recorded when it read the  *)
(* names, or that it has applied it itself - stays true whatever other     *)
(* processes do, unless the tables are lost: no step of a process takes    *)
(* tables away.                                                            *)
(***************************************************************************)
EXTENDS Startup, TLAPS, WellFoundedInduction

(* A set of numbers that is not empty has a least one.                     *)
LEMMA LeastExists ==
  ASSUME NEW S \in SUBSET Nat, S # {}
  PROVE  \E n \in S : \A m \in S : n <= m
<1>1. \E n \in S : \A m \in S : <<m, n>> \notin OpToRel(<, Nat)
  BY NatLessThanWellFounded, WFMin, Zenon
<1>2. PICK n \in S : \A m \in S : <<m, n>> \notin OpToRel(<, Nat)
  BY <1>1
<1>3. \A m \in S : ~(m < n)
  BY <1>2, Zenon DEF OpToRel
<1>4. \A m \in S : n <= m
  BY <1>3
<1> QED BY <1>4

(* NextFile is one of the files a process has to do.                       *)
LEMMA NextFileIsPending ==
  ASSUME TypeOK, NEW p \in Process, todo[p] # {}
  PROVE  NextFile(p) \in todo[p] /\ NextFile(p) \in File
<1>1. todo[p] \in SUBSET File
  BY DEF TypeOK
<1>2. todo[p] \in SUBSET Nat
  BY <1>1, StartupAssumption DEF File
<1>3. \E f \in todo[p] : \A g \in todo[p] : f <= g
  BY <1>2, LeastExists
<1>4. NextFile(p) \in todo[p]
  BY <1>3 DEF NextFile, Min
<1> QED BY <1>1, <1>4

LEMMA InitInv == Init => IInv
<1> SUFFICES ASSUME Init PROVE IInv
  OBVIOUS
<1>1. TypeOK
  <2>1. conn \in [Process -> [db : BOOLEAN, redis : BOOLEAN, bus : Bus]]
    BY DEF Init, NoConn, Bus
  <2>2. faults \in 0..MaxFaults
    BY StartupAssumption DEF Init
  <2>3. pc \in [Process -> Steps]
    BY DEF Init, Steps
  <2> QED BY <2>1, <2>2, <2>3 DEF Init, TypeOK
<1>2. \A p \in Process : pc[p] = "down" /\ ~conn[p].db /\ ready[p] = "unasked"
  BY DEF Init, NoConn
<1>3. tables = {} /\ recorded = {}
  BY DEF Init
<1> QED BY <1>1, <1>2, <1>3
    DEF IInv, RecordedHaveTables, DoneHaveTables, StepsInOrder,
        UnrecordedExplained, ReadyHasDatabase

----------------------------------------------------------------------------
(* The parts of IInv that speak of one process.                            *)
OfProcess(p) ==
    /\ pc[p] \in {"apply", "record", "redis", "bus", "serve"} /\ conn[p].db =>
          File \ todo[p] \subseteq tables \union lost
    /\ pc[p] = "record" => NextFile(p) \in tables \union lost
    /\ pc[p] \in {"apply", "record"} => todo[p] # {}
    /\ pc[p] \in {"redis", "bus", "serve"} /\ conn[p].db => todo[p] = {}
    /\ pc[p] \in {"down", "connect"} => ~conn[p].db
    /\ ready[p] = "ready" => pc[p] = "serve" /\ conn[p].db

LEMMA ByProcess ==
  IInv <=> /\ TypeOK /\ RecordedHaveTables /\ UnrecordedExplained
           /\ \A p \in Process : OfProcess(p)
  BY DEF IInv, DoneHaveTables, StepsInOrder, ReadyHasDatabase, OfProcess

OthersAsBefore(p) ==
    \A q \in Process \ {p} :
        /\ pc'[q] = pc[q] /\ todo'[q] = todo[q]
        /\ conn'[q] = conn[q] /\ ready'[q] = ready[q]

(* A step of one process that takes no tables away keeps IInv if it keeps  *)
(* its own part, records what has tables, and explains the tables without  *)
(* a row that were not there before or were explained by its own step.     *)
LEMMA StepOfOne ==
  ASSUME IInv, TypeOK', NEW p \in Process, OthersAsBefore(p),
         tables \union lost \subseteq tables' \union lost',
         recorded' \subseteq tables' \union lost',
         OfProcess(p)',
         \A f \in tables' \ recorded' :
            \/ f \in orphaned'
            \/ pc'[p] = "record" /\ NextFile(p)' = f
            \/ /\ f \in tables \ recorded /\ f \notin orphaned
               /\ ~(pc[p] = "record" /\ NextFile(p) = f)
  PROVE  IInv'
<1>1. \A q \in Process \ {p} : NextFile(q)' = NextFile(q)
  BY DEF OthersAsBefore, NextFile
<1>2. ASSUME NEW q \in Process \ {p}
      PROVE  OfProcess(q)'
  <2>1. OfProcess(q)
    BY ByProcess
  <2>2. NextFile(q)' = NextFile(q)
    BY <1>1
  <2>3. /\ pc'[q] = pc[q] /\ todo'[q] = todo[q]
        /\ conn'[q] = conn[q] /\ ready'[q] = ready[q]
    BY DEF OthersAsBefore
  <2> QED BY <2>1, <2>2, <2>3 DEF OfProcess
<1>3. UnrecordedExplained'
  <2> SUFFICES ASSUME NEW f \in tables' \ recorded'
               PROVE  \/ \E q \in Process : pc'[q] = "record" /\ NextFile(q)' = f
                      \/ f \in orphaned'
    BY DEF UnrecordedExplained
  <2>1. CASE \/ f \in orphaned'
             \/ pc'[p] = "record" /\ NextFile(p)' = f
    BY <2>1
  <2>2. CASE /\ f \in tables \ recorded /\ f \notin orphaned
             /\ ~(pc[p] = "record" /\ NextFile(p) = f)
    <3>1. PICK q \in Process : pc[q] = "record" /\ NextFile(q) = f
      BY <2>2 DEF IInv, UnrecordedExplained
    <3>2. q # p
      BY <2>2, <3>1
    <3> QED BY <3>1, <3>2, <1>1 DEF OthersAsBefore
  <2> QED BY <2>1, <2>2
<1>4. \A q \in Process : OfProcess(q)'
  BY <1>2
<1>5. RecordedHaveTables'
  BY DEF RecordedHaveTables
<1> QED BY <1>3, <1>4, <1>5
    DEF IInv, DoneHaveTables, StepsInOrder, ReadyHasDatabase, OfProcess

----------------------------------------------------------------------------
(* Steps that leave the tables and their rows alone.                       *)
LEMMA QuietStep ==
  ASSUME IInv, TypeOK', NEW p \in Process, OthersAsBefore(p),
         UNCHANGED <<tables, recorded, lost, orphaned>>,
         pc[p] # "record", OfProcess(p)'
  PROVE  IInv'
  BY StepOfOne DEF IInv, RecordedHaveTables, UnrecordedExplained

LEMMA StartKeeps ==
  ASSUME IInv, NEW p \in Process, NEW forced \in BOOLEAN, Start(p, forced)
  PROVE  IInv'
<1>1. TypeOK'
  BY DEF IInv, TypeOK, Start, Goto, database, Steps
<1>2. OthersAsBefore(p)
  BY DEF IInv, TypeOK, Start, Goto, OthersAsBefore
<1>3. OfProcess(p)'
  BY ByProcess DEF TypeOK, OfProcess, Start, Goto
<1> QED BY <1>1, <1>2, <1>3, QuietStep DEF Start, database

LEMMA ConnectKeeps ==
  ASSUME IInv, NEW p \in Process, Connect(p)
  PROVE  IInv'
<1>1. TypeOK'
  <2>1. pc' \in [Process -> Steps]
    <3>1. CASE Reached("postgres") /\ force[p]
      BY <3>1 DEF IInv, TypeOK, Connect, Goto, Steps
    <3>2. CASE Reached("postgres") /\ ~force[p]
      BY <3>2 DEF IInv, TypeOK, Connect, Goto, Steps
    <3>3. CASE ~Reached("postgres")
      BY <3>3 DEF IInv, TypeOK, Connect, Goto, Steps
    <3> QED BY <3>1, <3>2, <3>3
  <2>2. conn' \in [Process -> [db : BOOLEAN, redis : BOOLEAN, bus : Bus]]
    <3>1. conn' = conn \/ conn' = [conn EXCEPT ![p].db = TRUE]
      BY DEF Connect
    <3>2. conn \in [Process -> [db : BOOLEAN, redis : BOOLEAN, bus : Bus]]
      BY DEF IInv, TypeOK
    <3>3. CASE conn' = conn
      BY <3>2, <3>3
    <3>4. CASE conn' = [conn EXCEPT ![p].db = TRUE]
      BY <3>2, <3>4
    <3> QED BY <3>1, <3>3, <3>4
  <2> QED BY <2>1, <2>2 DEF IInv, TypeOK, Connect, database
<1>2. OthersAsBefore(p)
  BY DEF IInv, TypeOK, Connect, Goto, OthersAsBefore
<1>3. OfProcess(p)'
  BY ByProcess DEF TypeOK, OfProcess, Connect, Goto
<1> QED BY <1>1, <1>2, <1>3, QuietStep DEF Connect, database

LEMMA CreateVersionsKeeps ==
  ASSUME IInv, NEW p \in Process, CreateVersions(p)
  PROVE  IInv'
<1>1. TypeOK'
  BY DEF IInv, TypeOK, CreateVersions, Goto, Steps
<1>2. OthersAsBefore(p)
  BY DEF IInv, TypeOK, CreateVersions, Goto, OthersAsBefore
<1>3. OfProcess(p)'
  BY ByProcess DEF TypeOK, OfProcess, CreateVersions, Goto
<1> QED BY <1>1, <1>2, <1>3, QuietStep DEF CreateVersions

(* What a process has to do after it has read names is all that is not     *)
(* recorded, or more.                                                      *)
LEMMA ReadVersionsKeeps ==
  ASSUME IInv, NEW p \in Process, ReadVersions(p)
  PROVE  IInv'
<1>1. PICK rows \in SUBSET recorded : GoOn(p, File \ rows)
  BY DEF ReadVersions
<1>2. TypeOK'
  <2>1. faults' \in 0..MaxFaults
    <3>1. faults' = faults \/ Fault
      BY DEF ReadVersions
    <3>2. MaxFaults \in Nat /\ faults \in 0..MaxFaults
      BY StartupAssumption DEF IInv, TypeOK
    <3> QED BY <3>1, <3>2 DEF Fault
  <2>2. pc' \in [Process -> Steps] /\ todo' \in [Process -> SUBSET File]
    BY <1>1 DEF IInv, TypeOK, GoOn, Goto, Steps
  <2> QED BY <2>1, <2>2 DEF IInv, TypeOK, ReadVersions, database
<1>3. OthersAsBefore(p)
  BY <1>1 DEF IInv, TypeOK, ReadVersions, GoOn, Goto, OthersAsBefore
<1>4. OfProcess(p)'
  BY <1>1, ByProcess
  DEF TypeOK, RecordedHaveTables, OfProcess, ReadVersions, GoOn, Goto, database,
      Routes, Handlers
<1> QED BY <1>2, <1>3, <1>4, QuietStep DEF ReadVersions, database

LEMMA ConnectRedisKeeps ==
  ASSUME IInv, NEW p \in Process, ConnectRedis(p)
  PROVE  IInv'
<1>1. TypeOK'
  <2>1. Reached("redis") \in BOOLEAN
    BY DEF Reached
  <2>2. conn' \in [Process -> [db : BOOLEAN, redis : BOOLEAN, bus : Bus]]
    BY <2>1 DEF IInv, TypeOK, ConnectRedis
  <2>3. pc' \in [Process -> Steps]
    BY DEF IInv, TypeOK, ConnectRedis, Goto, Steps
  <2> QED BY <2>2, <2>3 DEF IInv, TypeOK, ConnectRedis, database
<1>2. OthersAsBefore(p)
  BY DEF IInv, TypeOK, ConnectRedis, Goto, OthersAsBefore
<1>3. OfProcess(p)'
  <2>1. conn'[p].db = conn[p].db /\ pc[p] = "redis" /\ pc'[p] = "bus"
    BY DEF IInv, TypeOK, ConnectRedis, Goto, Steps
  <2> QED BY <2>1, ByProcess DEF TypeOK, OfProcess, ConnectRedis, database
<1> QED BY <1>1, <1>2, <1>3, QuietStep DEF ConnectRedis, database

LEMMA InitEventBusKeeps ==
  ASSUME IInv, NEW p \in Process, NEW enabled \in BOOLEAN, InitEventBus(p, enabled)
  PROVE  IInv'
<1>1. TypeOK'
  <2>1. conn' \in [Process -> [db : BOOLEAN, redis : BOOLEAN, bus : Bus]]
    <3>1. PICK b \in Bus : conn' = [conn EXCEPT ![p].bus = b]
      BY DEF InitEventBus, Bus
    <3>2. conn \in [Process -> [db : BOOLEAN, redis : BOOLEAN, bus : Bus]]
      BY DEF IInv, TypeOK
    <3> QED BY <3>1, <3>2
  <2>2. pc' \in [Process -> Steps]
    BY DEF IInv, TypeOK, InitEventBus, Goto, Steps
  <2> QED BY <2>1, <2>2 DEF IInv, TypeOK, InitEventBus, database
<1>2. OthersAsBefore(p)
  BY DEF IInv, TypeOK, InitEventBus, Goto, OthersAsBefore
<1>3. /\ conn'[p].db = conn[p].db /\ conn'[p].redis = conn[p].redis
      /\ pc[p] = "bus" /\ pc'[p] = "serve"
  BY DEF IInv, TypeOK, InitEventBus, Goto, Steps
<1>4. OfProcess(p)'
  BY <1>3, ByProcess DEF TypeOK, OfProcess, InitEventBus, database
<1> QED BY <1>1, <1>2, <1>3, <1>4, QuietStep DEF InitEventBus, database

(* An answer of the probe: ready takes both stores.                        *)
LEMMA ProbeKeeps ==
  ASSUME IInv, NEW p \in Process, Probe(p)
  PROVE  IInv'
<1>1. TypeOK'
  BY DEF IInv, TypeOK, Probe, database, Readiness
<1>2. OthersAsBefore(p)
  BY DEF IInv, TypeOK, Probe, OthersAsBefore
<1>3. Readiness(conn[p]) = "ready" => conn[p].db /\ conn[p].redis
  BY DEF Readiness, Ping
<1>4. OfProcess(p)'
  BY <1>3, ByProcess DEF TypeOK, OfProcess, Probe, database
<1> QED BY <1>1, <1>2, <1>4, QuietStep DEF Probe, database

----------------------------------------------------------------------------
(* Steps that write.                                                       *)
LEMMA ApplyKeeps ==
  ASSUME IInv, NEW p \in Process, Apply(p)
  PROVE  IInv'
<1>1. pc[p] = "apply" /\ OfProcess(p)
  BY ByProcess DEF Apply
<1>2. NextFile(p) \in File
  BY <1>1, NextFileIsPending DEF IInv, OfProcess
<1>3. TypeOK'
  BY <1>2 DEF IInv, TypeOK, Apply, TablesCreated, Goto, Steps
<1>4. OthersAsBefore(p)
  BY DEF IInv, TypeOK, Apply, Goto, OthersAsBefore
<1>5. NextFile(p)' = NextFile(p)
  BY DEF Apply, NextFile
<1>6. tables' = tables \union {NextFile(p)} /\ lost' = lost \ {NextFile(p)}
  BY DEF Apply, TablesCreated
<1>7. pc'[p] = "record" /\ UNCHANGED <<recorded, orphaned, todo, conn, ready>>
  BY DEF IInv, TypeOK, Apply, Goto
<1>8. OfProcess(p)'
  BY <1>1, <1>5, <1>6, <1>7 DEF OfProcess
<1> QED BY <1>1, <1>3, <1>4, <1>5, <1>6, <1>7, <1>8, StepOfOne
    DEF IInv, RecordedHaveTables, UnrecordedExplained

LEMMA RecordKeeps ==
  ASSUME IInv, NEW p \in Process, Record(p)
  PROVE  IInv'
<1>1. pc[p] = "record" /\ OfProcess(p)
  BY ByProcess DEF Record
<1>2. NextFile(p) \in File /\ NextFile(p) \in tables \union lost
  BY <1>1, NextFileIsPending DEF IInv, OfProcess
<1>3. /\ recorded' = recorded \union {NextFile(p)}
      /\ orphaned' = orphaned \ {NextFile(p)}
      /\ hasVersions /\ UNCHANGED <<tables, hasVersions, lost, conn, ready>>
  BY DEF Record, RowInserted, CanRecord
<1>4. /\ todo' = [todo EXCEPT ![p] = todo[p] \ {NextFile(p)}]
      /\ pc' = [pc EXCEPT ![p] =
                  IF todo[p] \ {NextFile(p)} = {} THEN "redis" ELSE "apply"]
  BY DEF Record, GoOn, Goto
<1>5. TypeOK'
  <2>1. pc' \in [Process -> Steps]
    BY <1>4 DEF IInv, TypeOK, Steps
  <2>2. todo' \in [Process -> SUBSET File]
    BY <1>4 DEF IInv, TypeOK
  <2>3. recorded' \subseteq File /\ orphaned' \subseteq File
    BY <1>2, <1>3 DEF IInv, TypeOK
  <2>4. UNCHANGED <<away, force, faults>>
    BY DEF Record
  <2> QED BY <1>3, <2>1, <2>2, <2>3, <2>4 DEF IInv, TypeOK
<1>6. OthersAsBefore(p)
  BY <1>3, <1>4 DEF IInv, TypeOK, OthersAsBefore
<1>7. OfProcess(p)'
  <2>1. /\ todo'[p] = todo[p] \ {NextFile(p)}
        /\ pc'[p] = IF todo'[p] = {} THEN "redis" ELSE "apply"
    BY <1>4 DEF IInv, TypeOK
  <2> QED BY <2>1, <1>1, <1>2, <1>3 DEF OfProcess
<1> QED BY <1>2, <1>3, <1>5, <1>6, <1>7, StepOfOne
    DEF IInv, RecordedHaveTables, UnrecordedExplained

LEMMA DropVersionsKeeps ==
  ASSUME IInv, NEW p \in Process, DropVersions(p)
  PROVE  IInv'
<1>1. TypeOK'
  BY DEF IInv, TypeOK, DropVersions, VersionsDropped, Goto, Steps
<1>2. OthersAsBefore(p)
  BY DEF IInv, TypeOK, DropVersions, Goto, OthersAsBefore
<1>3. OfProcess(p)'
  BY ByProcess
  DEF TypeOK, OfProcess, DropVersions, VersionsDropped, Goto
<1>4. /\ UNCHANGED <<tables, lost>> /\ recorded' = {} /\ pc[p] = "drop"
      /\ orphaned' = orphaned \union (tables \intersect recorded)
  BY DEF DropVersions, VersionsDropped
<1> QED BY <1>1, <1>2, <1>3, <1>4, StepOfOne DEF IInv, UnrecordedExplained

(* A process that ends leaves behind what it was about to record, and its  *)
(* last statement may have taken effect.                                   *)
LEMMA ExitKeeps ==
  ASSUME IInv, NEW p \in Process, Exit(p),
         tables' \subseteq File, recorded' \subseteq File, lost' \subseteq File,
         orphaned' \subseteq File,
         hasVersions' \in BOOLEAN, ~hasVersions' => recorded' = {},
         away' = away, faults' \in 0..MaxFaults,
         tables \union lost \subseteq tables' \union lost',
         recorded' \subseteq tables' \union lost',
         \A f \in tables' \ recorded' :
            \/ f \in orphaned'
            \/ /\ f \in tables \ recorded /\ f \notin orphaned
               /\ ~(pc[p] = "record" /\ NextFile(p) = f)
  PROVE  IInv'
<1>1. TypeOK'
  <2>1. conn' \in [Process -> [db : BOOLEAN, redis : BOOLEAN, bus : Bus]]
    BY DEF IInv, TypeOK, Exit, NoConn, Bus
  <2> QED BY <2>1 DEF IInv, TypeOK, Exit, Goto, Steps
<1>2. OthersAsBefore(p)
  BY DEF IInv, TypeOK, Exit, Goto, OthersAsBefore
<1>3. pc'[p] = "down" /\ ~conn'[p].db /\ ready'[p] = "unasked"
  BY DEF IInv, TypeOK, Exit, Goto, NoConn
<1>4. OfProcess(p)'
  BY <1>3 DEF OfProcess
<1> QED BY <1>1, <1>2, <1>3, <1>4, StepOfOne

LEMMA RefusedKeeps ==
  ASSUME IInv, NEW p \in Process, Refused(p)
  PROVE  IInv'
<1>1. Exit(p) /\ UNCHANGED <<tables, hasVersions, recorded, lost, away, faults>>
      /\ orphaned' = orphaned \union (LeavesBehind(p) \ recorded)
  BY DEF Refused
<1>2. LeavesBehind(p) \subseteq tables
  BY DEF LeavesBehind
<1> QED BY <1>1, <1>2, ExitKeeps
    DEF IInv, TypeOK, RecordedHaveTables, LeavesBehind

LEMMA FaultsBounded ==
  ASSUME TypeOK, Fault \/ faults' = faults
  PROVE  faults' \in 0..MaxFaults
<1>1. MaxFaults \in Nat /\ faults \in 0..MaxFaults
  BY StartupAssumption DEF TypeOK
<1> QED BY <1>1 DEF Fault

LEMMA CrashKeeps ==
  ASSUME IInv, NEW p \in Process, Crash(p)
  PROVE  IInv'
<1>1. Exit(p) /\ Fault /\ UNCHANGED <<tables, hasVersions, recorded, lost, away>>
      /\ orphaned' = orphaned \union (LeavesBehind(p) \ recorded)
  BY DEF Crash
<1>2. LeavesBehind(p) \subseteq tables /\ faults' \in 0..MaxFaults
  BY <1>1, FaultsBounded DEF LeavesBehind, IInv
<1> QED BY <1>1, <1>2, ExitKeeps
    DEF IInv, TypeOK, RecordedHaveTables, LeavesBehind

LEMMA UnansweredKeeps ==
  ASSUME IInv, NEW p \in Process, Unanswered(p)
  PROVE  IInv'
<1>1. Exit(p) /\ away' = away
  BY DEF Unanswered
<1>2. faults' \in 0..MaxFaults
  BY FaultsBounded DEF Unanswered, IInv
<1>3. CASE /\ orphaned' = orphaned \union (LeavesBehind(p) \ recorded)
           /\ UNCHANGED <<tables, hasVersions, recorded, lost>>
  BY <1>1, <1>2, <1>3, ExitKeeps
  DEF IInv, TypeOK, RecordedHaveTables, LeavesBehind
<1>4. CASE pc[p] = "drop" /\ VersionsDropped
  BY <1>1, <1>2, <1>4, ExitKeeps DEF IInv, TypeOK, VersionsDropped
<1>5. CASE /\ pc[p] = "create" /\ hasVersions' = TRUE
           /\ UNCHANGED <<tables, recorded, lost, orphaned>>
  BY <1>1, <1>2, <1>5, ExitKeeps
  DEF IInv, TypeOK, RecordedHaveTables
<1>6. CASE /\ pc[p] = "apply" /\ TablesCreated(NextFile(p))
           /\ orphaned' = orphaned \union {NextFile(p)}
           /\ UNCHANGED <<hasVersions, recorded>>
  <2>1. NextFile(p) \in File
    BY <1>6, ByProcess, NextFileIsPending DEF IInv, OfProcess
  <2> QED BY <1>1, <1>2, <1>6, <2>1, ExitKeeps
      DEF IInv, TypeOK, RecordedHaveTables, TablesCreated
<1>7. CASE /\ pc[p] = "record" /\ RowInserted(NextFile(p))
           /\ UNCHANGED <<tables, hasVersions, lost>>
  <2>1. NextFile(p) \in File /\ NextFile(p) \in tables \union lost
    BY <1>7, ByProcess, NextFileIsPending DEF IInv, OfProcess
  <2> QED BY <1>1, <1>2, <1>7, <2>1, ExitKeeps
      DEF IInv, TypeOK, RecordedHaveTables, RowInserted, CanRecord
<1> QED BY <1>3, <1>4, <1>5, <1>6, <1>7 DEF Unanswered

----------------------------------------------------------------------------
(* Steps around the processes.                                             *)
LEMMA StoresKeep ==
  ASSUME IInv, NEW store \in {"postgres", "redis", "kafka"},
         GoesAway(store) \/ ComesBack(store)
  PROVE  IInv'
<1>1. /\ UNCHANGED <<database, pc, force, todo, conn, ready>>
      /\ away' \subseteq {"postgres", "redis", "kafka"}
      /\ Fault \/ faults' = faults
  BY DEF GoesAway, ComesBack, IInv, TypeOK
<1>2. faults' \in 0..MaxFaults
  BY <1>1, FaultsBounded DEF IInv
<1>3. TypeOK'
  BY <1>1, <1>2 DEF IInv, TypeOK, database
<1> QED BY <1>1, <1>3
    DEF IInv, RecordedHaveTables, DoneHaveTables, StepsInOrder, database,
        UnrecordedExplained, ReadyHasDatabase, NextFile

LEMMA LoseTablesKeeps ==
  ASSUME IInv, LoseTables
  PROVE  IInv'
<1>1. PICK left \in SUBSET tables :
         /\ tables' = left
         /\ lost' = lost \union (tables \ left)
         /\ orphaned' = orphaned \intersect left
  BY DEF LoseTables
<1>2. /\ UNCHANGED <<hasVersions, recorded, away, pc, force, todo, conn, ready>>
      /\ faults' \in 0..MaxFaults
  BY FaultsBounded DEF LoseTables, IInv
<1>3. tables' \union lost' = tables \union lost
  BY <1>1
<1>4. TypeOK'
  BY <1>1, <1>2 DEF IInv, TypeOK
<1>5. \A p \in Process : NextFile(p)' = NextFile(p)
  BY <1>2 DEF NextFile
<1>6. RecordedHaveTables' /\ DoneHaveTables'
  BY <1>2, <1>3, <1>5 DEF IInv, RecordedHaveTables, DoneHaveTables
<1>7. StepsInOrder' /\ ReadyHasDatabase'
  BY <1>2 DEF IInv, StepsInOrder, ReadyHasDatabase
<1>8. UnrecordedExplained'
  BY <1>1, <1>2, <1>5 DEF IInv, UnrecordedExplained
<1> QED BY <1>4, <1>6, <1>7, <1>8 DEF IInv

LEMMA StutterKeeps ==
  ASSUME IInv, UNCHANGED vars
  PROVE  IInv'
  BY DEF vars, IInv, TypeOK, RecordedHaveTables, DoneHaveTables, StepsInOrder,
         UnrecordedExplained, ReadyHasDatabase, NextFile

----------------------------------------------------------------------------
LEMMA NextInv == IInv /\ [Next]_vars => IInv'
<1> SUFFICES ASSUME IInv, [Next]_vars PROVE IInv'
  OBVIOUS
<1>1. CASE \E p \in Process : \E forced \in BOOLEAN : Start(p, forced)
  BY <1>1, StartKeeps
<1>2. CASE \E p \in Process : Run(p)
  BY <1>2, ConnectKeeps, DropVersionsKeeps, CreateVersionsKeeps, ReadVersionsKeeps,
     ApplyKeeps, RecordKeeps, RefusedKeeps, UnansweredKeeps, ConnectRedisKeeps,
     InitEventBusKeeps
  DEF Run
<1>3. CASE \E p \in Process : Crash(p) \/ Probe(p)
  BY <1>3, CrashKeeps, ProbeKeeps
<1>4. CASE \E store \in {"postgres", "redis", "kafka"} : GoesAway(store) \/ ComesBack(store)
  BY <1>4, StoresKeep
<1>5. CASE LoseTables
  BY <1>5, LoseTablesKeeps
<1>6. CASE UNCHANGED vars
  BY <1>6, StutterKeeps
<1> QED BY <1>1, <1>2, <1>3, <1>4, <1>5, <1>6 DEF Next

LEMMA Invariance == Spec => []IInv
  BY InitInv, NextInv, PTL DEF Spec

(* The variables keep their types.                                         *)
THEOREM TypeCorrect == Spec => []TypeOK
  BY Invariance, PTL DEF IInv

LEMMA Served == IInv => ServedUpToDate
  BY DEF IInv, DoneHaveTables, StepsInOrder, ServedUpToDate, Routes, Handlers

(* A process that serves the API has every table of the migrations but     *)
(* those that were lost: RunMigrations leaves none out, whichever other    *)
(* processes run it at the same time and wherever they fail.               *)
THEOREM UpToDate == Spec => []ServedUpToDate
  BY Served, Invariance, PTL

(* Tables that stop a later start were left by a process between applying  *)
(* a file and recording it, or by a forced start.                          *)
THEOREM UnrecordedHasCause == Spec => []UnrecordedExplained
  BY Invariance, PTL DEF IInv

(* The readiness probe says ready only of a process that serves the API,   *)
(* and that RunMigrations has let through with every table in place.       *)
THEOREM ReadyServes == Spec => []ReadyMeansServing
<1>1. IInv => ReadyMeansServing
  BY Served DEF IInv, ReadyHasDatabase, ReadyMeansServing, ServedUpToDate, Routes, Handlers
<1> QED BY <1>1, Invariance, PTL
=============================================================================
