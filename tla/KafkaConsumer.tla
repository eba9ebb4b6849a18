---------------------------- MODULE KafkaConsumer ----------------------------
(***************************************************************************)
(* One topic of the Kafka event bus: the producer of the use cases, the    *)
(* partitions of the broker, and the consumer of the application's group.  *)
(* One goroutine fetches the messages of all partitions, runs the topic's  *)
(* handlers one after another, and commits the offset of a message whose   *)
(* handlers all succeeded.  The broker and the kafka-go reader are         *)
(* modelled from how consumer.go uses them: a reader fetches on from its   *)
(* position whether or not the last message was committed, a commit sets   *)
(* the group's offset, and a new reader starts from the group's offset.    *)
(***************************************************************************)
EXTENDS Naturals, Sequences

CONSTANTS
    Partition, Message,
    Malformed,    \* messages whose value is not an envelope
    Handler,      \* handlers registered for the topic at startup
    StartFirst,   \* main.go's order: Bus.Start before the Subscribe calls
    Idle,         \* no message in the loop
    MaxErrors,    \* bound: errors of handlers and of CommitMessages
    MaxRestarts   \* bound: restarts of the process

ASSUME ConsumerAssumption ==
    /\ Malformed \subseteq Message
    /\ StartFirst \in BOOLEAN
    /\ MaxErrors \in Nat /\ MaxRestarts \in Nat
    /\ Idle \notin Partition \X Nat

VARIABLES
    registered, \* c.handlers of the topic
    started,    \* Bus.Start has been called
    consumers,  \* topicHandlers, copied by Start; without any, no reader
    serving,    \* startup is over
    partitions, \* partition -> its messages
    committed,  \* the group's offsets: messages that count as consumed
    position,   \* messages the reader has fetched
    current,    \* <<partition, index>> in the loop, or Idle
    todo,       \* handlers the loop has still to call
    handlerErr, \* a handler of the current message failed
    errors, restarts,
    \* history, read by properties only
    ok, tried,  \* message -> handlers that succeeded, that returned
    deliveries  \* message -> times it was fetched

startVars == <<registered, started, consumers, serving>>
loopVars  == <<current, todo, handlerErr>>
faultVars  == <<errors, restarts>>
kafkaHistVars == <<ok, tried, deliveries>>
kafkaVars == <<startVars, partitions, committed, position, loopVars, faultVars, kafkaHistVars>>

Current == partitions[current[1]][current[2]]
Written(m) == \E p \in Partition : \E i \in 1..Len(partitions[p]) : partitions[p][i] = m

KafkaTypeOK ==
    /\ registered \subseteq Handler /\ consumers \subseteq registered
    /\ started \in BOOLEAN /\ serving \in BOOLEAN /\ handlerErr \in BOOLEAN
    /\ partitions \in [Partition -> Seq(Message)]
    /\ position \in [Partition -> Nat] /\ \A p \in Partition : position[p] <= Len(partitions[p])
    /\ committed \in [Partition -> Nat] /\ \A p \in Partition : committed[p] <= position[p]
    /\ current \in (Partition \X Nat) \union {Idle}
    /\ todo \subseteq consumers
    /\ errors \in 0..MaxErrors /\ restarts \in 0..MaxRestarts
    /\ ok \in [Message -> SUBSET registered] /\ tried \in [Message -> SUBSET registered]
    /\ deliveries \in [Message -> Nat]

KafkaInit ==
    /\ registered = {} /\ consumers = {} /\ started = FALSE /\ serving = FALSE
    /\ partitions = [p \in Partition |-> <<>>]
    /\ committed = [p \in Partition |-> 0]
    /\ position  = [p \in Partition |-> 0]
    /\ current = Idle /\ todo = {} /\ handlerErr = FALSE
    /\ errors = 0 /\ restarts = 0
    /\ ok = [m \in Message |-> {}] /\ tried = [m \in Message |-> {}]
    /\ deliveries = [m \in Message |-> 0]

----------------------------------------------------------------------------
(* Startup.                                                                *)

KafkaSubscribe(h) ==
    /\ h \notin registered
    /\ started = StartFirst
    /\ registered' = registered \union {h}
    /\ UNCHANGED <<started, consumers, serving, partitions, committed, position, loopVars, faultVars, kafkaHistVars>>

Start ==
    /\ ~started
    /\ StartFirst \/ registered = Handler
    /\ started' = TRUE
    /\ consumers' = registered
    /\ UNCHANGED <<registered, serving, partitions, committed, position, loopVars, faultVars, kafkaHistVars>>

KafkaListen ==
    /\ ~serving
    /\ started /\ registered = Handler
    /\ serving' = TRUE
    /\ UNCHANGED <<registered, started, consumers, partitions, committed, position, loopVars, faultVars, kafkaHistVars>>

(* The producer: LeastBytes picks any partition.                           *)
Write(m, p) ==
    /\ serving
    /\ ~Written(m)
    /\ partitions' = [partitions EXCEPT ![p] = Append(@, m)]
    /\ UNCHANGED <<startVars, committed, position, loopVars, faultVars, kafkaHistVars>>

----------------------------------------------------------------------------
(* The loop.                                                               *)

EndOfMessage == current' = Idle /\ todo' = {} /\ handlerErr' = FALSE

CommitCurrent == committed' = [committed EXCEPT ![current[1]] = current[2]]

(* Mutant: the offset is committed as the message is fetched.              *)
FetchAndCommit(p) ==
    /\ consumers # {} /\ current = Idle /\ position[p] < Len(partitions[p])
    /\ position' = [position EXCEPT ![p] = @ + 1]
    /\ current' = <<p, position[p] + 1>>
    /\ todo' = IF partitions[p][position[p] + 1] \in Malformed THEN {} ELSE consumers
    /\ handlerErr' = FALSE
    /\ deliveries' = [deliveries EXCEPT ![partitions[p][position[p] + 1]] = @ + 1]
    /\ committed' = [committed EXCEPT ![p] = position[p] + 1]
    /\ UNCHANGED <<startVars, partitions, faultVars, ok, tried>>

(* FetchMessage and Unmarshal; a malformed message reaches no handler.     *)
Fetch(p) ==
    /\ consumers # {} /\ current = Idle
    /\ position[p] < Len(partitions[p])
    /\ LET m == partitions[p][position[p] + 1]
       IN  /\ todo' = IF m \in Malformed THEN {} ELSE consumers
           /\ deliveries' = [deliveries EXCEPT ![m] = @ + 1]
    /\ position' = [position EXCEPT ![p] = @ + 1]
    /\ current' = <<p, position[p] + 1>>
    /\ handlerErr' = FALSE
    /\ UNCHANGED <<startVars, partitions, committed, faultVars, ok, tried>>

HandlerReturns(h) ==
    /\ h \in todo
    /\ todo' = todo \ {h}
    /\ tried' = [tried EXCEPT ![Current] = @ \union {h}]
    /\ UNCHANGED <<startVars, partitions, committed, position, current, restarts, deliveries>>

HandlerOk(h) ==
    /\ HandlerReturns(h)
    /\ ok' = [ok EXCEPT ![Current] = @ \union {h}]
    /\ UNCHANGED <<handlerErr, errors>>

(* Every handler is called, also after one has failed.                     *)
HandlerFails(h) ==
    /\ errors < MaxErrors
    /\ HandlerReturns(h)
    /\ handlerErr' = TRUE
    /\ errors' = errors + 1
    /\ UNCHANGED ok

Commit ==
    /\ current # Idle /\ todo = {}
    /\ ~handlerErr
    /\ CommitCurrent
    /\ EndOfMessage
    /\ UNCHANGED <<startVars, partitions, position, faultVars, kafkaHistVars>>

(* The commit fails and is logged; the loop goes on.                       *)
CommitFails ==
    /\ current # Idle /\ todo = {}
    /\ ~handlerErr
    /\ errors < MaxErrors
    /\ errors' = errors + 1
    /\ EndOfMessage
    /\ UNCHANGED <<startVars, partitions, committed, position, restarts, kafkaHistVars>>

(* Mutant: the loop returns after a handler error.                         *)
SkipCommitEnds ==
    /\ current # Idle /\ todo = {}
    /\ handlerErr
    /\ consumers' = {}
    /\ EndOfMessage
    /\ UNCHANGED <<registered, started, serving, partitions, committed, position, faultVars, kafkaHistVars>>

(* Mutant: a handler error leaves the reader where it was.                 *)
SkipCommitRewinds ==
    /\ current # Idle /\ todo = {}
    /\ handlerErr
    /\ position' = [position EXCEPT ![current[1]] = @ - 1]
    /\ EndOfMessage
    /\ UNCHANGED <<startVars, partitions, committed, faultVars, kafkaHistVars>>

(* After a handler error nothing is committed, and the loop goes on.       *)
SkipCommit ==
    /\ current # Idle /\ todo = {}
    /\ handlerErr
    /\ EndOfMessage
    /\ UNCHANGED <<startVars, partitions, committed, position, faultVars, kafkaHistVars>>

(* The process dies and starts again, with the same startup: the reader    *)
(* goes on from the group's offsets.                                       *)
Restart ==
    /\ consumers # {} /\ serving
    /\ restarts < MaxRestarts
    /\ restarts' = restarts + 1
    /\ position' = committed
    /\ EndOfMessage
    /\ UNCHANGED <<startVars, partitions, committed, errors, kafkaHistVars>>

----------------------------------------------------------------------------
Loop ==
    \/ \E p \in Partition : Fetch(p)
    \/ \E h \in Handler : HandlerOk(h) \/ HandlerFails(h)
    \/ Commit \/ CommitFails \/ SkipCommit

KafkaNext ==
    \/ \E h \in Handler : KafkaSubscribe(h)
    \/ Start \/ KafkaListen
    \/ \E m \in Message, p \in Partition : Write(m, p)
    \/ Loop
    \/ Restart

(* The loop is one goroutine that never waits but for a message.           *)
KafkaSpec == KafkaInit /\ [][KafkaNext]_kafkaVars /\ WF_kafkaVars(Loop)

----------------------------------------------------------------------------
HandledOk(m) == m \in Malformed \/ registered \subseteq ok[m]
Tried(m)     == m \in Malformed \/ registered \subseteq tried[m]

(* The group's offset never passes a message that its handlers have not    *)
(* been given to the end, whatever fails and whenever the reader restarts. *)
CommittedWasTried ==
    \A p \in Partition : \A i \in 1..committed[p] : Tried(partitions[p][i])

(* A message is handed out again only by a restart: an error does not make *)
(* the loop read it again.                                                 *)
RedeliveredByRestartsOnly == \A m \in Message : deliveries[m] <= restarts + 1

----------------------------------------------------------------------------
(* The inductive invariant.                                                *)

(* What is there before Start copies the handlers, and after.              *)
StartedInOrder ==
    /\ IF StartFirst THEN consumers = {} /\ (~started => registered = {})
                     ELSE started => registered = Handler /\ consumers = Handler
    /\ ~started => consumers = {} /\ ~serving
    /\ consumers = {} => /\ current = Idle /\ restarts = 0
                         /\ \A p \in Partition : position[p] = 0

(* The message in the loop is the last one fetched, is not committed yet,  *)
(* and has been given to the handlers that are not still to be called.     *)
LoopIsAtLast ==
    IF current = Idle THEN todo = {}
    ELSE LET p == current[1] IN
         /\ current[2] = position[p] /\ committed[p] < position[p]
         /\ Current \in Malformed \/ consumers \subseteq tried[Current] \union todo

FetchedWasTried ==
    \A p \in Partition : \A i \in 1..position[p] :
        Tried(partitions[p][i]) \/ (current # Idle /\ current = <<p, i>>)

WrittenOnce ==
    \A p, q \in Partition : \A i \in 1..Len(partitions[p]), j \in 1..Len(partitions[q]) :
        partitions[p][i] = partitions[q][j] => p = q /\ i = j

(* What the reader is still to fetch it has fetched once a start at most,  *)
(* and not since the last one.                                             *)
DeliveredOncePerStart ==
    \A m \in Message :
        /\ deliveries[m] <= restarts + 1
        /\ deliveries[m] <= restarts
           \/ \E p \in Partition : \E i \in 1..position[p] : partitions[p][i] = m

OkUnlessFailed == errors = 0 => ok = tried

KafkaIInv ==
    /\ KafkaTypeOK /\ StartedInOrder /\ LoopIsAtLast /\ FetchedWasTried
    /\ WrittenOnce /\ DeliveredOncePerStart /\ OkUnlessFailed

----------------------------------------------------------------------------
(* Everything written is given to every handler in the end.                *)
EveryMessageTried == \A m \in Message : Written(m) ~> Tried(m)

(* "Only commit if all handlers succeeded (at-least-once delivery)"        *)
(* (consumer.go): a message below the group's offset was handled.          *)
(* Violated: the commit of a later message passes a failed one.            *)
AtLeastOnce ==
    \A p \in Partition : \A i \in 1..committed[p] : HandledOk(partitions[p][i])
=============================================================================
