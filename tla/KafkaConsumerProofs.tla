------------------------- MODULE KafkaConsumerProofs -------------------------
(***************************************************************************)
(* Proofs about KafkaConsumer, for any partitions, messages, handlers,     *)
(* errors and restarts, and for both orders of Start and Subscribe.        *)
(*                                                                         *)
(* The argument: the loop holds the last message it has fetched, which is  *)
(* not committed, until it has called every handler (LoopIsAtLast), so all *)
(* that is fetched before it has been tried (FetchedWasTried) and an       *)
(* offset can only be set to a tried message.  No message is written       *)
(* twice (WrittenOnce), and the position goes back by restarts only.       *)
(***************************************************************************)
EXTENDS KafkaConsumer, SequenceTheorems, TLAPS

LEMMA InitInv == KafkaInit => KafkaIInv
<1> SUFFICES ASSUME KafkaInit PROVE KafkaIInv
  OBVIOUS
<1> USE DEF KafkaInit
<1>1. KafkaTypeOK
  <2>1. <<>> \in Seq(Message) /\ Len(<<>>) = 0
    BY EmptySeq
  <2>2. partitions \in [Partition -> Seq(Message)] /\ \A p \in Partition : Len(partitions[p]) = 0
    BY <2>1
  <2>3. /\ position \in [Partition -> Nat] /\ committed \in [Partition -> Nat]
        /\ \A p \in Partition : position[p] = 0 /\ committed[p] = 0
    OBVIOUS
  <2>4. /\ ok \in [Message -> SUBSET registered] /\ tried \in [Message -> SUBSET registered]
        /\ deliveries \in [Message -> Nat]
    OBVIOUS
  <2>5. errors \in 0..MaxErrors /\ restarts \in 0..MaxRestarts
    BY ConsumerAssumption
  <2>6. /\ registered \subseteq Handler /\ consumers \subseteq registered
        /\ started \in BOOLEAN /\ serving \in BOOLEAN /\ handlerErr \in BOOLEAN
        /\ current \in (Partition \X Nat) \union {Idle} /\ todo \subseteq consumers
    OBVIOUS
  <2> HIDE DEF KafkaInit
  <2>7. \A p \in Partition : position[p] <= Len(partitions[p]) /\ committed[p] <= position[p]
    <3> TAKE p \in Partition
    <3>1. Len(partitions[p]) = 0
      BY <2>2
    <3>2. position[p] = 0 /\ committed[p] = 0
      BY <2>3
    <3> QED BY <3>1, <3>2
  <2> QED BY <2>2, <2>3, <2>4, <2>5, <2>6, <2>7 DEF KafkaTypeOK
<1>2. StartedInOrder /\ LoopIsAtLast /\ FetchedWasTried
  BY DEF StartedInOrder, LoopIsAtLast, FetchedWasTried
<1>3. WrittenOnce
  <2>1. Len(<<>>) = 0
    BY EmptySeq
  <2> QED BY <2>1 DEF WrittenOnce
<1>4. DeliveredOncePerStart /\ OkUnlessFailed
  BY DEF DeliveredOncePerStart, OkUnlessFailed
<1> QED BY <1>1, <1>2, <1>3, <1>4 DEF KafkaIInv

(* The partitions hold messages.                                           *)
LEMMA LogOfMessages ==
  ASSUME KafkaTypeOK, NEW p \in Partition
  PROVE  /\ partitions[p] \in Seq(Message) /\ Len(partitions[p]) \in Nat
         /\ \A i \in 1..Len(partitions[p]) : partitions[p][i] \in Message
         /\ position[p] \in 0..Len(partitions[p]) /\ committed[p] \in 0..position[p]
<1>1. partitions[p] \in Seq(Message)
  BY DEF KafkaTypeOK
<1>2. Len(partitions[p]) \in Nat /\ \A i \in 1..Len(partitions[p]) : partitions[p][i] \in Message
  BY <1>1
<1> QED BY <1>1, <1>2 DEF KafkaTypeOK

(* The message in the loop: where it is, and who is to be given it.        *)
LEMMA CurrentIsFetched ==
  ASSUME KafkaIInv, current # Idle
  PROVE  /\ current[1] \in Partition /\ current = <<current[1], position[current[1]]>>
         /\ committed[current[1]] < position[current[1]]
         /\ current[2] = position[current[1]]
         /\ current[2] \in 1..Len(partitions[current[1]])
         /\ Current \in Message
         /\ ~StartFirst /\ started /\ consumers = Handler /\ registered = Handler
<1>1. current \in Partition \X Nat
  BY DEF KafkaIInv, KafkaTypeOK
<1>2. current[1] \in Partition /\ current = <<current[1], current[2]>>
  BY <1>1
<1>3. current[2] = position[current[1]] /\ committed[current[1]] < position[current[1]]
  BY DEF KafkaIInv, LoopIsAtLast
<1>4. current[2] \in 1..Len(partitions[current[1]]) /\ Current \in Message
  BY <1>2, <1>3, LogOfMessages DEF KafkaIInv, Current
<1>5. ~StartFirst /\ started /\ consumers = Handler /\ registered = Handler
  BY DEF KafkaIInv, StartedInOrder
<1> QED BY <1>2, <1>3, <1>4, <1>5

(* Once its handlers are called, nothing fetched is left to be tried.      *)
LEMMA AllFetchedTried ==
  ASSUME KafkaIInv, todo = {},
         NEW p \in Partition, NEW i \in 1..position[p]
  PROVE  Tried(partitions[p][i])
<1>1. CASE current = <<p, i>> /\ current # Idle
  <2>1. Current = partitions[p][i]
    BY <1>1 DEF Current
  <2>2. Current \in Malformed \/ registered \subseteq tried[Current]
    BY <1>1, CurrentIsFetched DEF KafkaIInv, LoopIsAtLast
  <2> QED BY <2>1, <2>2 DEF Tried
<1>2. CASE ~(current = <<p, i>> /\ current # Idle)
  BY <1>2 DEF KafkaIInv, FetchedWasTried
<1> QED BY <1>1, <1>2

(* Only a handler that fails is tried without success.                     *)
LEMMA OkKept ==
  ASSUME KafkaIInv, [KafkaNext]_kafkaVars
  PROVE  OkUnlessFailed'
<1>1. errors \in Nat /\ (errors = 0 => ok = tried)
  BY ConsumerAssumption DEF KafkaIInv, KafkaTypeOK, OkUnlessFailed
<1>2. CASE \E h \in Handler : HandlerOk(h)
  <2>1. PICK h \in Handler : HandlerOk(h)
    BY <1>2
  <2>2. /\ errors' = errors
        /\ tried' = [tried EXCEPT ![Current] = tried[Current] \union {h}]
        /\ ok' = [ok EXCEPT ![Current] = ok[Current] \union {h}]
    BY <2>1 DEF HandlerOk, HandlerReturns
  <2> QED BY <1>1, <2>2 DEF OkUnlessFailed
<1>3. CASE \E h \in Handler : HandlerFails(h)
  <2>1. errors' = errors + 1
    BY <1>3 DEF HandlerFails
  <2> QED BY <1>1, <2>1 DEF OkUnlessFailed
<1>4. CASE UNCHANGED <<ok, tried>> /\ (errors' = errors \/ errors' = errors + 1)
  BY <1>1, <1>4 DEF OkUnlessFailed
<1> QED BY <1>2, <1>3, <1>4 DEF kafkaVars, kafkaHistVars, faultVars, KafkaNext, Loop, KafkaSubscribe, Start, KafkaListen, Write,
     Fetch, Commit, CommitFails, SkipCommit, Restart

(* All of IInv but what a step of every kind keeps in the same way.        *)
LoopInv ==
    /\ KafkaTypeOK /\ StartedInOrder /\ LoopIsAtLast /\ FetchedWasTried
    /\ WrittenOnce /\ DeliveredOncePerStart

----------------------------------------------------------------------------
(* Startup: nothing has been fetched when a handler is registered.         *)
LEMMA SubscribeKeeps ==
  ASSUME KafkaIInv, NEW h \in Handler, KafkaSubscribe(h)
  PROVE  LoopInv'
<1> USE DEF KafkaSubscribe, loopVars, faultVars, kafkaHistVars
<1>1. consumers = {} /\ current = Idle /\ \A p \in Partition : position[p] = 0
  BY DEF KafkaIInv, StartedInOrder
<1>2. KafkaTypeOK'
  BY DEF KafkaIInv, KafkaTypeOK
<1>3. StartedInOrder' /\ LoopIsAtLast'
  BY <1>1 DEF KafkaIInv, StartedInOrder, LoopIsAtLast
<1>4. FetchedWasTried'
  <2>1. \A p \in Partition : position'[p] = 0
    BY <1>1
  <2>2. 1..0 = {}
    OBVIOUS
  <2> QED BY <2>1, <2>2 DEF FetchedWasTried
<1>5. WrittenOnce' /\ DeliveredOncePerStart'
  <2>1. UNCHANGED <<partitions, restarts, deliveries>> /\ \A p \in Partition : position'[p] = position[p]
    BY <1>1
  <2>2. WrittenOnce'
    BY <2>1 DEF KafkaIInv, WrittenOnce
  <2>3. DeliveredOncePerStart'
    BY <2>1 DEF KafkaIInv, DeliveredOncePerStart
  <2> QED BY <2>2, <2>3
<1> QED BY <1>2, <1>3, <1>4, <1>5 DEF LoopInv

LEMMA StartKeeps ==
  ASSUME KafkaIInv, Start
  PROVE  LoopInv'
<1> USE DEF Start, loopVars, faultVars, kafkaHistVars
<1>1. consumers = {} /\ current = Idle /\ todo = {} /\ \A p \in Partition : position[p] = 0
  BY DEF KafkaIInv, StartedInOrder, LoopIsAtLast
<1>2. KafkaTypeOK'
  BY <1>1 DEF KafkaIInv, KafkaTypeOK
<1>3. StartedInOrder' /\ LoopIsAtLast'
  BY <1>1 DEF KafkaIInv, StartedInOrder, LoopIsAtLast
<1>4. FetchedWasTried'
  <2>1. \A p \in Partition : position'[p] = 0
    BY <1>1
  <2>2. 1..0 = {}
    OBVIOUS
  <2> QED BY <2>1, <2>2 DEF FetchedWasTried
<1>5. WrittenOnce' /\ DeliveredOncePerStart'
  <2>1. UNCHANGED <<partitions, restarts, deliveries>> /\ \A p \in Partition : position'[p] = position[p]
    BY <1>1
  <2>2. WrittenOnce'
    BY <2>1 DEF KafkaIInv, WrittenOnce
  <2>3. DeliveredOncePerStart'
    BY <2>1 DEF KafkaIInv, DeliveredOncePerStart
  <2> QED BY <2>2, <2>3
<1> QED BY <1>2, <1>3, <1>4, <1>5 DEF LoopInv

LEMMA ListenKeeps ==
  ASSUME KafkaIInv, KafkaListen
  PROVE  LoopInv'
<1> USE DEF KafkaListen, loopVars, faultVars, kafkaHistVars
<1>1. KafkaTypeOK' /\ StartedInOrder' /\ WrittenOnce' /\ DeliveredOncePerStart'
  BY DEF KafkaIInv, KafkaTypeOK, StartedInOrder, WrittenOnce, DeliveredOncePerStart
<1>2. LoopIsAtLast' /\ FetchedWasTried'
  BY DEF KafkaIInv, LoopIsAtLast, FetchedWasTried, Tried, Current
<1> QED BY <1>1, <1>2 DEF LoopInv

(* A new message goes behind those that are there, and is none of them.    *)
LEMMA WriteKeeps ==
  ASSUME KafkaIInv, NEW m \in Message, NEW p \in Partition, Write(m, p)
  PROVE  LoopInv'
<1> USE DEF Write, startVars, loopVars, faultVars, kafkaHistVars
<1>1. /\ partitions[p] \in Seq(Message) /\ Len(partitions[p]) \in Nat
      /\ Append(partitions[p], m) \in Seq(Message)
      /\ Len(Append(partitions[p], m)) = Len(partitions[p]) + 1
      /\ \A i \in 1..Len(partitions[p]) : Append(partitions[p], m)[i] = partitions[p][i]
      /\ Append(partitions[p], m)[Len(partitions[p]) + 1] = m
  BY LogOfMessages, AppendProperties DEF KafkaIInv
<1>2. /\ partitions' \in [Partition -> Seq(Message)]
      /\ \A q \in Partition : q # p => partitions'[q] = partitions[q]
      /\ Len(partitions'[p]) = Len(partitions[p]) + 1
      /\ partitions'[p][Len(partitions[p]) + 1] = m
      /\ \A q \in Partition : \A i \in 1..Len(partitions[q]) : partitions'[q][i] = partitions[q][i]
      /\ \A q \in Partition : Len(partitions[q]) \in Nat /\ Len(partitions[q]) <= Len(partitions'[q])
  <2>1. partitions \in [Partition -> Seq(Message)] /\ partitions' = [partitions EXCEPT ![p] = Append(partitions[p], m)]
    BY DEF KafkaIInv, KafkaTypeOK
  <2>2. partitions'[p] = Append(partitions[p], m) /\ \A q \in Partition : q # p => partitions'[q] = partitions[q]
    BY <2>1
  <2>3. \A q \in Partition : Len(partitions[q]) \in Nat
    BY LogOfMessages DEF KafkaIInv
  <2> QED BY <1>1, <2>1, <2>2, <2>3
<1>3. UNCHANGED <<registered, started, consumers, serving, committed, position, current, todo,
                  handlerErr, errors, restarts, ok, tried, deliveries>>
  OBVIOUS
<1>4. \A q \in Partition : \A i \in 1..Len(partitions[q]) : partitions[q][i] # m
  BY DEF Written
<1> HIDE DEF Write, startVars, loopVars, faultVars, kafkaHistVars
<1>5. KafkaTypeOK'
  <2>1. \A q \in Partition : position[q] <= Len(partitions[q]) /\ position[q] \in Nat
    BY DEF KafkaIInv, KafkaTypeOK
  <2>2. \A q \in Partition : position'[q] <= Len(partitions'[q])
    <3> TAKE q \in Partition
    <3>1. Len(partitions'[q]) \in Nat
      BY <1>2
    <3> QED BY <1>2, <1>3, <2>1, <3>1
  <2> QED BY <1>2, <1>3, <2>2 DEF KafkaIInv, KafkaTypeOK
<1>6. StartedInOrder'
  BY <1>3 DEF KafkaIInv, StartedInOrder
<1>7. LoopIsAtLast'
  <2>1. CASE current = Idle
    BY <2>1, <1>3 DEF KafkaIInv, LoopIsAtLast
  <2>2. CASE current # Idle
    <3>1. Current' = Current
      BY <2>2, <1>2, <1>3, CurrentIsFetched DEF Current
    <3> QED BY <2>2, <3>1, <1>3 DEF KafkaIInv, LoopIsAtLast
  <2> QED BY <2>1, <2>2
<1>8. \A q \in Partition : \A i \in 1..position[q] : i \in 1..Len(partitions[q]) /\ partitions'[q][i] = partitions[q][i]
  BY <1>2, LogOfMessages DEF KafkaIInv
<1>9. FetchedWasTried'
  BY <1>3, <1>8 DEF KafkaIInv, FetchedWasTried, Tried
<1>10. WrittenOnce'
  <2> SUFFICES ASSUME NEW q \in Partition, NEW r \in Partition,
                      NEW i \in 1..Len(partitions'[q]), NEW j \in 1..Len(partitions'[r]),
                      partitions'[q][i] = partitions'[r][j]
               PROVE  q = r /\ i = j
    BY DEF WrittenOnce
  <2>1. i \in 1..Len(partitions[q]) \/ (q = p /\ i = Len(partitions[p]) + 1)
    BY <1>2
  <2>2. j \in 1..Len(partitions[r]) \/ (r = p /\ j = Len(partitions[p]) + 1)
    BY <1>2
  <2>3. CASE i \in 1..Len(partitions[q]) /\ j \in 1..Len(partitions[r])
    BY <2>3, <1>2 DEF KafkaIInv, WrittenOnce
  <2> QED BY <2>1, <2>2, <2>3, <1>2, <1>4
<1>11. DeliveredOncePerStart'
  BY <1>3, <1>8 DEF KafkaIInv, DeliveredOncePerStart
<1> QED BY <1>5, <1>6, <1>7, <1>9, <1>10, <1>11 DEF LoopInv

----------------------------------------------------------------------------
(* The loop takes the next message: it has not been fetched since the last *)
(* start, as it would then be in the log twice.                            *)
LEMMA FetchKeeps ==
  ASSUME KafkaIInv, NEW p \in Partition, Fetch(p)
  PROVE  LoopInv'
<1> DEFINE n == position[p] + 1
           m == partitions[p][n]
<1> USE DEF Fetch, startVars, faultVars
<1>1. n \in 1..Len(partitions[p]) /\ m \in Message /\ n = position[p] + 1 /\ position[p] \in Nat
      /\ committed[p] < n
  BY LogOfMessages DEF KafkaIInv
<1>2. /\ consumers # {} /\ current = Idle /\ todo = {}
      /\ todo' = IF m \in Malformed THEN {} ELSE consumers
      /\ deliveries' = [deliveries EXCEPT ![m] = deliveries[m] + 1]
      /\ position' = [position EXCEPT ![p] = n]
      /\ current' = <<p, n>>
      /\ handlerErr' = FALSE
      /\ UNCHANGED <<registered, started, consumers, serving, partitions, committed, errors, restarts, ok, tried>>
  BY DEF KafkaIInv, LoopIsAtLast
<1>3. current' # Idle
  BY <1>1, <1>2, ConsumerAssumption
<1>4. /\ position' \in [Partition -> Nat] /\ position'[p] = n
      /\ \A q \in Partition : q # p => position'[q] = position[q]
  BY <1>1, <1>2 DEF KafkaIInv, KafkaTypeOK
<1>5. \A q \in Partition : \A i \in 1..position'[q] : i \in 1..position[q] \/ (q = p /\ i = n)
  BY <1>1, <1>4
<1>6. \A q \in Partition : \A i \in 1..position[q] : i \in 1..position'[q]
  BY <1>1, <1>4
<1>7. Current' = m /\ \A q \in Partition : \A i \in 1..position[q] : Tried(partitions[q][i])
  <2>1. current'[1] = p /\ current'[2] = n /\ partitions' = partitions
    BY <1>2
  <2>2. Current' = m
    BY <2>1 DEF Current
  <2> QED BY <1>2, <2>2, AllFetchedTried
<1>8. \A q \in Partition : position[q] \in 0..Len(partitions[q]) /\ committed[q] \in 0..position[q]
  BY LogOfMessages DEF KafkaIInv
<1> HIDE DEF Fetch, startVars, faultVars, n, m
<1>9. KafkaTypeOK'
  <2>1. \A q \in Partition : position'[q] <= Len(partitions'[q]) /\ committed'[q] <= position'[q]
    BY <1>1, <1>2, <1>4, <1>8
  <2>2. current' \in (Partition \X Nat) \union {Idle}
    BY <1>1, <1>2
  <2>3. deliveries' \in [Message -> Nat]
    BY <1>1, <1>2 DEF KafkaIInv, KafkaTypeOK
  <2> QED BY <1>2, <1>4, <2>1, <2>2, <2>3 DEF KafkaIInv, KafkaTypeOK
<1>10. StartedInOrder'
  BY <1>2 DEF KafkaIInv, StartedInOrder
<1>11. LoopIsAtLast'
  BY <1>1, <1>2, <1>3, <1>4, <1>7 DEF LoopIsAtLast
<1>12. FetchedWasTried'
  BY <1>2, <1>3, <1>5, <1>7 DEF FetchedWasTried, Tried
<1>13. WrittenOnce'
  BY <1>2 DEF KafkaIInv, WrittenOnce
<1>14. deliveries[m] <= restarts
  <2>1. ~ \E q \in Partition : \E i \in 1..position[q] : partitions[q][i] = m
    <3> SUFFICES ASSUME NEW q \in Partition, NEW i \in 1..position[q], partitions[q][i] = partitions[p][n]
                 PROVE  FALSE
      BY DEF m
    <3>1. i \in 1..Len(partitions[q])
      BY <1>8
    <3>2. q = p /\ i = n
      BY <1>1, <3>1 DEF KafkaIInv, WrittenOnce
    <3> QED BY <1>1, <3>2
  <2> QED BY <1>1, <2>1 DEF KafkaIInv, DeliveredOncePerStart
<1>15. DeliveredOncePerStart'
  <2> SUFFICES ASSUME NEW x \in Message
               PROVE  /\ deliveries'[x] <= restarts' + 1
                      /\ deliveries'[x] <= restarts'
                         \/ \E q \in Partition : \E i \in 1..position'[q] : partitions'[q][i] = x
    BY DEF DeliveredOncePerStart
  <2>1. CASE x = m
    <3>1. deliveries'[x] = deliveries[m] + 1 /\ deliveries[m] \in Nat /\ restarts \in Nat
      BY <2>1, <1>1, <1>2, ConsumerAssumption DEF KafkaIInv, KafkaTypeOK
    <3>2. n \in 1..position'[p] /\ partitions'[p][n] = x
      BY <2>1, <1>1, <1>2, <1>4 DEF m
    <3> QED BY <3>1, <3>2, <1>2, <1>14
  <2>2. CASE x # m
    <3>1. deliveries'[x] = deliveries[x]
      BY <2>2, <1>2 DEF KafkaIInv, KafkaTypeOK
    <3> QED BY <3>1, <1>2, <1>6 DEF KafkaIInv, DeliveredOncePerStart
  <2> QED BY <2>1, <2>2
<1> QED BY <1>9, <1>10, <1>11, <1>12, <1>13, <1>15 DEF LoopInv

(* A handler returns: the message stays in the loop.                       *)
LEMMA HandlerKeeps ==
  ASSUME KafkaIInv, NEW h \in Handler, HandlerOk(h) \/ HandlerFails(h)
  PROVE  LoopInv'
<1>1. /\ h \in todo /\ todo' = todo \ {h}
      /\ tried' = [tried EXCEPT ![Current] = tried[Current] \union {h}]
      /\ UNCHANGED <<registered, started, consumers, serving, partitions, committed, position, current,
                     restarts, deliveries>>
      /\ ok' = ok \/ ok' = [ok EXCEPT ![Current] = ok[Current] \union {h}]
  BY DEF HandlerOk, HandlerFails, HandlerReturns, startVars
<1>2. current # Idle
  BY <1>1 DEF KafkaIInv, LoopIsAtLast
<1>3. Current \in Message /\ Current' = Current /\ h \in registered
  BY <1>1, <1>2, CurrentIsFetched DEF Current
<1>4. errors' \in 0..MaxErrors /\ handlerErr' \in BOOLEAN
  <2>1. errors \in 0..MaxErrors /\ handlerErr \in BOOLEAN /\ MaxErrors \in Nat
    BY ConsumerAssumption DEF KafkaIInv, KafkaTypeOK
  <2>2. CASE HandlerOk(h)
    BY <2>1, <2>2 DEF HandlerOk
  <2>3. CASE HandlerFails(h)
    <3>1. errors < MaxErrors /\ errors' = errors + 1 /\ handlerErr' = TRUE
      BY <2>3 DEF HandlerFails
    <3> QED BY <2>1, <3>1
  <2> QED BY <2>2, <2>3
<1>5. /\ tried' \in [Message -> SUBSET registered] /\ ok' \in [Message -> SUBSET registered]
      /\ \A m \in Message : tried[m] \subseteq tried'[m]
      /\ tried'[Current] = tried[Current] \union {h}
  BY <1>1, <1>3 DEF KafkaIInv, KafkaTypeOK
<1>6. KafkaTypeOK'
  BY <1>1, <1>4, <1>5 DEF KafkaIInv, KafkaTypeOK
<1>7. StartedInOrder' /\ WrittenOnce' /\ DeliveredOncePerStart'
  BY <1>1 DEF KafkaIInv, StartedInOrder, WrittenOnce, DeliveredOncePerStart
<1>8. LoopIsAtLast'
  BY <1>1, <1>2, <1>3, <1>5 DEF KafkaIInv, LoopIsAtLast
<1>9. FetchedWasTried'
  <2> SUFFICES ASSUME NEW p \in Partition, NEW i \in 1..position[p],
                      ~(current # Idle /\ current = <<p, i>>)
               PROVE  Tried(partitions[p][i])'
    BY <1>1 DEF FetchedWasTried
  <2>1. Tried(partitions[p][i]) /\ partitions[p][i] \in Message
    BY LogOfMessages DEF KafkaIInv, FetchedWasTried
  <2> QED BY <2>1, <1>1, <1>5 DEF Tried
<1> QED BY <1>6, <1>7, <1>8, <1>9 DEF LoopInv

(* The loop is done with its message, committed or not.                    *)
LEMMA CommitKeeps ==
  ASSUME KafkaIInv, Commit \/ CommitFails \/ SkipCommit
  PROVE  LoopInv'
<1>1. /\ current # Idle /\ todo = {}
      /\ current' = Idle /\ todo' = {} /\ handlerErr' = FALSE
      /\ UNCHANGED <<registered, started, consumers, serving, partitions, position, restarts, ok, tried, deliveries>>
      /\ committed' = committed \/ committed' = [committed EXCEPT ![current[1]] = current[2]]
      /\ errors' \in 0..MaxErrors
  BY ConsumerAssumption DEF Commit, CommitFails, SkipCommit, EndOfMessage, CommitCurrent, startVars,
     faultVars, kafkaHistVars, KafkaIInv, KafkaTypeOK
<1>2. committed' \in [Partition -> Nat] /\ \A p \in Partition : committed'[p] <= position[p]
  <2>1. /\ committed \in [Partition -> Nat] /\ position \in [Partition -> Nat]
        /\ \A p \in Partition : committed[p] <= position[p]
    BY DEF KafkaIInv, KafkaTypeOK
  <2>2. current[1] \in Partition /\ current[2] = position[current[1]]
    BY <1>1, CurrentIsFetched
  <2> QED BY <1>1, <2>1, <2>2
<1>3. KafkaTypeOK'
  BY <1>1, <1>2 DEF KafkaIInv, KafkaTypeOK
<1>4. StartedInOrder' /\ LoopIsAtLast' /\ WrittenOnce' /\ DeliveredOncePerStart'
  BY <1>1, CurrentIsFetched DEF KafkaIInv, StartedInOrder, LoopIsAtLast, WrittenOnce, DeliveredOncePerStart
<1>5. FetchedWasTried'
  BY <1>1, AllFetchedTried DEF FetchedWasTried, Tried
<1> QED BY <1>3, <1>4, <1>5 DEF LoopInv

(* A restart goes back to the offsets, which are behind the message of the *)
(* loop: what is before them was tried.                                    *)
LEMMA RestartKeeps ==
  ASSUME KafkaIInv, Restart
  PROVE  LoopInv'
<1>1. /\ consumers # {} /\ restarts' = restarts + 1 /\ restarts' \in 0..MaxRestarts
      /\ restarts \in Nat
      /\ position' = committed /\ current' = Idle /\ todo' = {} /\ handlerErr' = FALSE
      /\ UNCHANGED <<registered, started, consumers, serving, partitions, committed, errors, ok, tried, deliveries>>
  BY ConsumerAssumption DEF Restart, EndOfMessage, startVars, kafkaHistVars, KafkaIInv, KafkaTypeOK
<1>2. \A p \in Partition : position[p] \in 0..Len(partitions[p]) /\ committed[p] \in 0..position[p]
  BY LogOfMessages DEF KafkaIInv
<1>3. KafkaTypeOK'
  <2>1. \A p \in Partition : Len(partitions[p]) \in Nat
    BY LogOfMessages DEF KafkaIInv
  <2>2. /\ position' \in [Partition -> Nat] /\ committed' = committed
        /\ \A p \in Partition : position'[p] <= Len(partitions'[p]) /\ committed'[p] <= position'[p]
    BY <1>1, <1>2, <2>1 DEF KafkaIInv, KafkaTypeOK
  <2> QED BY <1>1, <2>2 DEF KafkaIInv, KafkaTypeOK
<1>4. StartedInOrder' /\ LoopIsAtLast' /\ WrittenOnce'
  BY <1>1 DEF KafkaIInv, StartedInOrder, LoopIsAtLast, WrittenOnce
<1>5. FetchedWasTried'
  <2> SUFFICES ASSUME NEW p \in Partition, NEW i \in 1..committed[p]
               PROVE  Tried(partitions[p][i])
    BY <1>1 DEF FetchedWasTried, Tried
  <2>1. i \in 1..position[p]
    BY <1>2
  <2>2. ~(current # Idle /\ current = <<p, i>>)
    BY <1>2, CurrentIsFetched
  <2> QED BY <2>1, <2>2 DEF KafkaIInv, FetchedWasTried
<1>6. DeliveredOncePerStart'
  <2> SUFFICES ASSUME NEW m \in Message PROVE deliveries[m] <= restarts + 1
    BY <1>1 DEF DeliveredOncePerStart, KafkaIInv, KafkaTypeOK
  <2> QED BY DEF KafkaIInv, DeliveredOncePerStart
<1> QED BY <1>3, <1>4, <1>5, <1>6 DEF LoopInv

----------------------------------------------------------------------------
LEMMA StepInv == KafkaIInv /\ [KafkaNext]_kafkaVars => KafkaIInv'
<1> SUFFICES ASSUME KafkaIInv, [KafkaNext]_kafkaVars PROVE LoopInv'
  BY OkKept DEF KafkaIInv, LoopInv
<1>1. CASE \E h \in Handler : KafkaSubscribe(h)
  BY <1>1, SubscribeKeeps
<1>2. CASE Start
  BY <1>2, StartKeeps
<1>3. CASE KafkaListen
  BY <1>3, ListenKeeps
<1>4. CASE \E m \in Message, p \in Partition : Write(m, p)
  BY <1>4, WriteKeeps
<1>5. CASE \E p \in Partition : Fetch(p)
  BY <1>5, FetchKeeps
<1>6. CASE \E h \in Handler : HandlerOk(h) \/ HandlerFails(h)
  BY <1>6, HandlerKeeps
<1>7. CASE Commit \/ CommitFails \/ SkipCommit
  BY <1>7, CommitKeeps
<1>8. CASE Restart
  BY <1>8, RestartKeeps
<1>9. CASE UNCHANGED kafkaVars
  <2> USE <1>9 DEF kafkaVars, startVars, loopVars, faultVars, kafkaHistVars
  <2>1. KafkaTypeOK'
    BY DEF KafkaIInv, KafkaTypeOK
  <2>2. StartedInOrder' /\ WrittenOnce'
    BY DEF KafkaIInv, StartedInOrder, WrittenOnce
  <2>3. LoopIsAtLast'
    BY DEF KafkaIInv, LoopIsAtLast, Current
  <2>4. FetchedWasTried' /\ DeliveredOncePerStart'
    BY DEF KafkaIInv, FetchedWasTried, DeliveredOncePerStart, Tried
  <2> QED BY <2>1, <2>2, <2>3, <2>4 DEF LoopInv
<1> QED BY <1>1, <1>2, <1>3, <1>4, <1>5, <1>6, <1>7, <1>8, <1>9 DEF KafkaNext, Loop

LEMMA Invariance == KafkaSpec => []KafkaIInv
<1> QED BY InitInv, StepInv, PTL DEF KafkaSpec

(* The variables keep their types: an offset of the group is behind the    *)
(* reader, and the reader within the partition.                            *)
THEOREM TypeCorrect == KafkaSpec => []KafkaTypeOK
<1>1. KafkaIInv => KafkaTypeOK
  BY DEF KafkaIInv
<1> QED BY <1>1, Invariance, PTL

LEMMA CommittedTried == KafkaIInv => CommittedWasTried
<1> SUFFICES ASSUME KafkaIInv, NEW p \in Partition, NEW i \in 1..committed[p]
             PROVE  Tried(partitions[p][i])
  BY DEF CommittedWasTried
<1>1. position[p] \in Nat /\ committed[p] \in 0..position[p]
  BY LogOfMessages DEF KafkaIInv
<1>2. i \in 1..position[p]
  BY <1>1
<1>3. ~(current # Idle /\ current = <<p, i>>)
  BY <1>1, CurrentIsFetched
<1> QED BY <1>2, <1>3 DEF KafkaIInv, FetchedWasTried

(* runLoop commits a message only when its handlers are called to the end, *)
(* one message at a time: no error, failed commit or restart takes the     *)
(* offset past a message that a handler has not been given.                *)
THEOREM OffsetsBehindHandlers == KafkaSpec => []CommittedWasTried
  BY CommittedTried, Invariance, PTL

(* As long as no handler fails and no commit, what is committed was        *)
(* handled: the commit passes nothing but what a handler has refused.      *)
THEOREM AtLeastOnceWithoutErrors == KafkaSpec => [](errors = 0 => AtLeastOnce)
<1>1. KafkaIInv => (errors = 0 => AtLeastOnce)
  BY CommittedTried DEF KafkaIInv, OkUnlessFailed, CommittedWasTried, AtLeastOnce, Tried, HandledOk
<1> QED BY <1>1, Invariance, PTL

(* "Start consuming (after subscriptions are registered ...)" (main.go):   *)
(* in the order of the calls in run(), Bus.Start before the subscriptions, *)
(* there is no reader, and no message is ever fetched or committed.        *)
THEOREM EarlyStartServesNobody ==
  ASSUME StartFirst
  PROVE  KafkaSpec => [](/\ consumers = {}
                         /\ \A m \in Message : deliveries[m] = 0
                         /\ \A p \in Partition : committed[p] = 0)
<1>1. ASSUME KafkaIInv
      PROVE  /\ consumers = {}
             /\ \A m \in Message : deliveries[m] = 0
             /\ \A p \in Partition : committed[p] = 0
  <2>1. /\ consumers = {} /\ restarts = 0
        /\ \A p \in Partition : position[p] = 0
    BY <1>1 DEF KafkaIInv, StartedInOrder
  <2>2. ASSUME NEW m \in Message PROVE deliveries[m] = 0
    <3>1. deliveries[m] \in Nat
      BY <1>1 DEF KafkaIInv, KafkaTypeOK
    <3>2. ~ \E p \in Partition : \E i \in 1..position[p] : partitions[p][i] = m
      BY <2>1
    <3>3. deliveries[m] <= 0
      BY <1>1, <2>1, <3>2 DEF KafkaIInv, DeliveredOncePerStart
    <3> QED BY <3>1, <3>3
  <2>3. ASSUME NEW p \in Partition PROVE committed[p] = 0
    <3>1. committed[p] \in Nat /\ committed[p] <= 0
      BY <1>1, <2>1 DEF KafkaIInv, KafkaTypeOK
    <3> QED BY <3>1
  <2> QED BY <2>1, <2>2, <2>3
<1> QED BY <1>1, Invariance, PTL

(* FetchMessage hands a message out at most once in the life of a process. *)
THEOREM OneDeliveryPerStart == KafkaSpec => []RedeliveredByRestartsOnly
<1>1. KafkaIInv => RedeliveredByRestartsOnly
  BY DEF KafkaIInv, DeliveredOncePerStart, RedeliveredByRestartsOnly
<1> QED BY <1>1, Invariance, PTL

(* CommitMessages never takes the group back: the message it is called     *)
(* with is the last one fetched, which no earlier commit covers, although  *)
(* messages before it may have been passed over.                           *)
THEOREM OffsetsAdvance ==
  KafkaSpec => [][\A p \in Partition : committed[p] <= committed'[p]]_kafkaVars
<1>1. ASSUME KafkaIInv, [KafkaNext]_kafkaVars
      PROVE  [\A p \in Partition : committed[p] <= committed'[p]]_kafkaVars
  <2>1. CASE Commit
    <3>1. current # Idle /\ committed' = [committed EXCEPT ![current[1]] = current[2]]
      BY <2>1 DEF Commit, CommitCurrent
    <3>2. committed[current[1]] < current[2]
      BY <1>1, <3>1, CurrentIsFetched
    <3>3. committed \in [Partition -> Nat] /\ current[1] \in Partition /\ current[2] \in Nat
      BY <1>1, <3>1, CurrentIsFetched DEF KafkaIInv, KafkaTypeOK
    <3>4. \A p \in Partition : committed[p] <= committed'[p]
      BY <3>1, <3>2, <3>3
    <3> QED BY <3>4
  <2>2. CASE ~Commit /\ ~UNCHANGED kafkaVars
    <3>1. committed' = committed
      BY <1>1, <2>2 DEF KafkaNext, Loop, KafkaSubscribe, Start, KafkaListen, Write, Fetch, HandlerOk,
         HandlerFails, HandlerReturns, CommitFails, SkipCommit, Restart
    <3>2. \A p \in Partition : committed[p] <= committed[p]
      BY <1>1 DEF KafkaIInv, KafkaTypeOK
    <3> QED BY <3>1, <3>2
  <2>3. CASE UNCHANGED kafkaVars
    BY <2>3
  <2> QED BY <2>1, <2>2, <2>3
<1> QED BY <1>1, Invariance, PTL DEF KafkaSpec
=============================================================================
