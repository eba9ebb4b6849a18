---------------------------- MODULE EventBusProofs ----------------------------
(***************************************************************************)
(* Proofs about EventBus and EventBridge, for any requests, topics,        *)
(* handlers, routes and size of the channel.                               *)
(*                                                                         *)
(* The argument: the channel is the end of the log (ChannelEndsLog), so    *)
(* the dispatcher takes the events in the order of the log, and wg.Wait    *)
(* makes the running handlers those of the last event taken while all      *)
(* earlier ones are handled (RunningForLast, TakenAreHandled).             *)
(***************************************************************************)
EXTENDS EventBridge, SequenceTheorems, TLAPS

(* Each lemma is about the variables it names; Taken is a number.          *)
LEMMA TakenIsNat ==
  ASSUME TypeOK, ChannelEndsLog
  PROVE  /\ Len(log) \in Nat /\ Len(ch) \in Nat /\ Taken \in 0..Len(log)
         /\ \A i \in 1..Len(log) : log[i] \in Request
         /\ \A k \in 1..Len(ch) : ch[k] \in Request
<1>1. log \in Seq(Request) /\ ch \in Seq(Request)
  BY DEF TypeOK
<1>2. Len(log) \in Nat /\ Len(ch) \in Nat
  BY <1>1
<1>3. (\A i \in 1..Len(log) : log[i] \in Request) /\ (\A k \in 1..Len(ch) : ch[k] \in Request)
  BY <1>1
<1> QED BY <1>2, <1>3 DEF ChannelEndsLog, Taken

LEMMA InitInv == Init => IInv
<1> SUFFICES ASSUME Init PROVE IInv
  OBVIOUS
<1> USE DEF Init
<1>1. TypeOK
  <2>1. <<>> \in Seq(Request) /\ Len(<<>>) = 0 /\ 0 <= BufferSize
    BY EmptySeq, BusAssumption
  <2> QED BY <2>1 DEF TypeOK, Phases, RequestStates
<1>2. ChannelEndsLog /\ LoggedOnce /\ Taken = 0
  BY DEF ChannelEndsLog, LoggedOnce, Taken
<1>3. RunningForLast /\ TakenAreHandled /\ HandledWereTaken
  BY <1>2 DEF RunningForLast, TakenAreHandled, HandledWereTaken
<1>4. RegisteredAtStart /\ ShutdownInOrder /\ PanicsOnlyWhenHurried
  BY DEF RegisteredAtStart, ShutdownInOrder, PanicsOnlyWhenHurried
<1> QED BY <1>1, <1>2, <1>3, <1>4 DEF IInv

(* What the log, the channel and the handlers say, said again when none of *)
(* them changes and no logged request goes back.                           *)
LEMMA LogUntouched ==
  ASSUME IInv, UNCHANGED <<log, ch, running, handled>>,
         \A r \in Request : rq[r] \in {"published", "returned"}
                               => rq'[r] \in {"published", "returned"}
  PROVE  /\ ChannelEndsLog' /\ LoggedOnce' /\ RunningForLast' /\ TakenAreHandled'
         /\ HandledWereTaken' /\ Taken' = Taken
<1>1. ChannelEndsLog' /\ Taken' = Taken
  BY DEF IInv, ChannelEndsLog, Taken
<1>2. LoggedOnce'
  BY TakenIsNat DEF IInv, LoggedOnce
<1>3. RunningForLast' /\ TakenAreHandled' /\ HandledWereTaken'
  BY <1>1 DEF IInv, RunningForLast, TakenAreHandled, HandledWereTaken,
     Log!Audience
<1> QED BY <1>1, <1>2, <1>3

LEMMA SubscribeKeeps ==
  ASSUME IInv, NEW s \in Subscriber, Subscribe(s)
  PROVE  IInv'
<1> USE DEF Subscribe, mainVars, chanVars, reqVars, histVars
<1>1. TypeOK'
  BY BusAssumption DEF IInv, TypeOK
<1>2. /\ ChannelEndsLog' /\ LoggedOnce' /\ RunningForLast' /\ TakenAreHandled'
      /\ HandledWereTaken'
  BY LogUntouched
<1>3. RegisteredAtStart'
  BY BusAssumption DEF IInv, TypeOK, RegisteredAtStart
<1>4. ShutdownInOrder' /\ PanicsOnlyWhenHurried'
  BY DEF IInv, ShutdownInOrder, PanicsOnlyWhenHurried, InProgress
<1> QED BY <1>1, <1>2, <1>3, <1>4 DEF IInv

(* A step of the main goroutine.                                           *)
LEMMA MainKeeps ==
  ASSUME IInv, MainNext
  PROVE  IInv'
<1> USE DEF MainNext, Listen, Signal, Drained, StopHurried, Close, Exit, mainVars,
        chanVars, reqVars, histVars
<1>1. TypeOK'
  BY DEF IInv, TypeOK, Phases
<1>2. /\ ChannelEndsLog' /\ LoggedOnce' /\ RunningForLast' /\ TakenAreHandled'
      /\ HandledWereTaken'
  BY LogUntouched
<1>3. RegisteredAtStart'
  BY DEF IInv, TypeOK, RegisteredAtStart, Registered
<1>4. ShutdownInOrder'
  BY DEF IInv, TypeOK, ShutdownInOrder, InProgress
<1>5. PanicsOnlyWhenHurried'
  BY DEF IInv, TypeOK, PanicsOnlyWhenHurried
<1> QED BY <1>1, <1>2, <1>3, <1>4, <1>5 DEF IInv

(* A request begins, ends, or loses its client.                            *)
LEMMA ServeReturnDisconnectKeep ==
  ASSUME IInv, NEW r \in Request, Serve(r) \/ Return(r) \/ Disconnect(r)
  PROVE  IInv'
<1> USE DEF Serve, Return, Disconnect, mainVars, chanVars, reqVars, histVars
<1>1. TypeOK'
  BY DEF IInv, TypeOK, RequestStates
<1>2. /\ ChannelEndsLog' /\ LoggedOnce' /\ RunningForLast' /\ TakenAreHandled'
      /\ HandledWereTaken'
  BY LogUntouched DEF IInv, TypeOK
<1>3. RegisteredAtStart'
  BY DEF IInv, TypeOK, RegisteredAtStart, Registered, InProgress
<1>4. ShutdownInOrder'
  BY DEF IInv, TypeOK, ShutdownInOrder, InProgress
<1>5. PanicsOnlyWhenHurried'
  BY DEF IInv, TypeOK, PanicsOnlyWhenHurried
<1> QED BY <1>1, <1>2, <1>3, <1>4, <1>5 DEF IInv

(* The channel is closed: the request panics, which only a hurried stop    *)
(* leaves a request to do.                                                 *)
LEMMA PublishClosedKeeps ==
  ASSUME IInv, NEW r \in Request, Publish(r), closed
  PROVE  IInv'
<1> USE DEF Publish, PublishClosed, mainVars, chanVars, reqVars, histVars
<1>1. TypeOK'
  BY DEF IInv, TypeOK, RequestStates
<1>2. /\ ChannelEndsLog' /\ LoggedOnce' /\ RunningForLast' /\ TakenAreHandled'
      /\ HandledWereTaken'
  BY LogUntouched DEF IInv, TypeOK
<1>3. RegisteredAtStart'
  BY DEF IInv, TypeOK, RegisteredAtStart, Registered
<1>4. ShutdownInOrder'
  BY DEF IInv, TypeOK, ShutdownInOrder, InProgress
<1>5. PanicsOnlyWhenHurried'
  BY DEF IInv, TypeOK, ShutdownInOrder, PanicsOnlyWhenHurried, InProgress
<1> QED BY <1>1, <1>2, <1>3, <1>4, <1>5 DEF IInv

(* The channel is full: the event is dropped, and the log does not know it. *)
LEMMA PublishDroppedKeeps ==
  ASSUME IInv, NEW r \in Request, Publish(r), ~closed, ~(Len(ch) < BufferSize)
  PROVE  IInv'
<1> USE DEF Publish, PublishOpen, mainVars, chanVars, reqVars, histVars
<1>1. TypeOK'
  BY DEF IInv, TypeOK, RequestStates
<1>2. /\ ChannelEndsLog' /\ LoggedOnce' /\ RunningForLast' /\ TakenAreHandled'
      /\ HandledWereTaken'
  BY LogUntouched DEF IInv, TypeOK
<1>3. RegisteredAtStart'
  BY DEF IInv, TypeOK, RegisteredAtStart, Registered
<1>4. ShutdownInOrder'
  BY DEF IInv, TypeOK, ShutdownInOrder, InProgress
<1>5. PanicsOnlyWhenHurried'
  BY DEF IInv, TypeOK, PanicsOnlyWhenHurried
<1> QED BY <1>1, <1>2, <1>3, <1>4, <1>5 DEF IInv

(* The channel and the log get the event at their ends.                    *)
LEMMA PublishAcceptedKeeps ==
  ASSUME IInv, NEW r \in Request, Publish(r), ~closed, Len(ch) < BufferSize
  PROVE  IInv'
<1> USE DEF mainVars, chanVars, reqVars, histVars
<1>a. /\ log' = Append(log, r) /\ ch' = Append(ch, r)
      /\ rq[r] = "running" /\ rq' = [rq EXCEPT ![r] = "published"]
      /\ UNCHANGED <<main, hurried, handlers, closed, done, running, alive, handled, dropped>>
  BY DEF Publish, PublishOpen
<1>1. log \in Seq(Request) /\ ch \in Seq(Request)
  BY DEF IInv, TypeOK
<1>2. /\ log' \in Seq(Request) /\ Len(log') = Len(log) + 1 /\ log'[Len(log) + 1] = r
      /\ \A i \in 1..Len(log) : log'[i] = log[i]
  BY <1>a, <1>1, AppendProperties
<1>3. /\ ch' \in Seq(Request) /\ Len(ch') = Len(ch) + 1 /\ ch'[Len(ch) + 1] = r
      /\ \A i \in 1..Len(ch) : ch'[i] = ch[i]
  BY <1>a, <1>1, AppendProperties
<1>4. /\ Len(log) \in Nat /\ Len(ch) \in Nat /\ Taken \in 0..Len(log)
      /\ \A i \in 1..Len(log) : log[i] \in Request
  BY TakenIsNat DEF IInv
<1>5. TypeOK'
  BY <1>a, <1>2, <1>3, <1>4, BusAssumption DEF IInv, TypeOK, RequestStates
<1>6. Taken' = Taken
  BY <1>2, <1>3, <1>4 DEF Taken
<1>7. ChannelEndsLog'
  <2>1. ASSUME NEW k \in 1..Len(ch') PROVE ch'[k] = log'[Taken + k]
    <3>1. CASE k = Len(ch) + 1
      BY <3>1, <1>2, <1>3, <1>4 DEF Taken
    <3>2. CASE k # Len(ch) + 1
      <4>1. k \in 1..Len(ch) /\ Taken + k \in 1..Len(log)
        BY <3>2, <1>3, <1>4 DEF Taken, IInv, ChannelEndsLog
      <4>2. ch[k] = log[Taken + k]
        BY <4>1 DEF IInv, ChannelEndsLog
      <4> QED BY <4>1, <4>2, <1>2, <1>3
    <3> QED BY <3>1, <3>2
  <2>2. Len(ch') <= Len(log')
    BY <1>2, <1>3, <1>4 DEF IInv, ChannelEndsLog
  <2> QED BY <2>1, <2>2, <1>6 DEF ChannelEndsLog
<1>8. \A i \in 1..Len(log) : log[i] # r
  BY <1>a DEF IInv, LoggedOnce
<1>9. LoggedOnce'
  <2>1. ASSUME NEW i \in 1..Len(log'), NEW j \in 1..Len(log'), log'[i] = log'[j]
        PROVE  i = j
    BY <2>1, <1>2, <1>4, <1>8 DEF IInv, LoggedOnce
  <2>2. ASSUME NEW i \in 1..Len(log')
        PROVE  rq'[log'[i]] \in {"published", "returned"}
    BY <2>2, <1>a, <1>2, <1>4, <1>8 DEF IInv, TypeOK, LoggedOnce
  <2> QED BY <2>1, <2>2 DEF LoggedOnce
<1>10. RunningForLast' /\ TakenAreHandled' /\ HandledWereTaken'
  <2>1. \A i \in 1..Taken : log'[i] = log[i]
    BY <1>2, <1>4
  <2>2. handled' = handled /\ running' = running
    BY <1>a
  <2>3. RunningForLast'
    BY <2>1, <2>2, <1>4, <1>6 DEF IInv, RunningForLast, Log!Audience
  <2>4. TakenAreHandled'
    BY <2>1, <2>2, <1>6 DEF IInv, TakenAreHandled, Log!Audience
  <2>5. HandledWereTaken'
    BY <2>1, <2>2, <1>6 DEF IInv, HandledWereTaken
  <2> QED BY <2>3, <2>4, <2>5
<1>11. RegisteredAtStart'
  BY <1>a DEF IInv, TypeOK, RegisteredAtStart, Registered
<1>12. ShutdownInOrder'
  BY <1>a DEF IInv, TypeOK, ShutdownInOrder, InProgress
<1>13. PanicsOnlyWhenHurried'
  BY <1>a DEF IInv, TypeOK, PanicsOnlyWhenHurried
<1> QED BY <1>5, <1>7, <1>9, <1>10, <1>11, <1>12, <1>13 DEF IInv

(* The handlers of an event are those of its topic, once run() listens.    *)
LEMMA HandlersAreAudience ==
  ASSUME TypeOK, RegisteredAtStart, main # "starting", NEW r \in Request
  PROVE  handlers[EventTopic[r]] = Log!Audience(r)
  BY BusAssumption DEF TypeOK, RegisteredAtStart, Registered, Log!Audience

(* The next event of the log is taken, when all before it are handled.     *)
LEMMA DispatchKeeps ==
  ASSUME IInv, Dispatch
  PROVE  IInv'
<1> USE DEF Dispatch, mainVars, chanVars, reqVars, histVars
<1>1. log \in Seq(Request) /\ ch \in Seq(Request) /\ ch # <<>> /\ ch' = Tail(ch)
  BY DEF IInv, TypeOK
<1>2. /\ Len(ch) > 0 /\ Len(ch') = Len(ch) - 1 /\ ch' \in Seq(Request)
      /\ \A k \in 1..Len(ch') : ch'[k] = ch[k + 1]
      /\ Head(ch) = ch[1]
  BY <1>1, HeadTailProperties
<1>3. /\ Len(log) \in Nat /\ Len(ch) \in Nat /\ Taken \in 0..Len(log)
      /\ \A i \in 1..Len(log) : log[i] \in Request
  BY TakenIsNat DEF IInv
<1>4. Taken' = Taken + 1 /\ Taken + 1 \in 1..Len(log)
  BY <1>2, <1>3 DEF IInv, ChannelEndsLog, Taken
<1>5. Head(ch) = log[Taken'] /\ Head(ch) \in Request
  BY <1>2, <1>3, <1>4 DEF IInv, ChannelEndsLog
<1>6. ChannelEndsLog'
  <2>1. ASSUME NEW k \in 1..Len(ch') PROVE ch'[k] = log[Taken' + k]
    BY <2>1, <1>2, <1>3, <1>4 DEF IInv, ChannelEndsLog
  <2> QED BY <2>1, <1>2, <1>3, <1>4 DEF IInv, ChannelEndsLog
<1>7. rq[log[Taken']] \in {"published", "returned"}
  BY <1>4 DEF IInv, LoggedOnce
<1>8. main # "starting"
  BY <1>5, <1>7 DEF IInv, RegisteredAtStart
<1>9. running' = Log!Audience(Head(ch)) \X {Head(ch)}
  BY <1>5, <1>8, HandlersAreAudience DEF IInv
<1>10. TypeOK'
  BY <1>2, <1>3, <1>5, <1>9, BusAssumption DEF IInv, TypeOK, Log!Audience
<1>11. LoggedOnce'
  BY DEF IInv, LoggedOnce
<1>12. \A s \in Subscriber : Head(ch) \notin handled[s]
  BY <1>3, <1>4, <1>5 DEF IInv, HandledWereTaken, LoggedOnce
<1>13. RunningForLast'
  BY <1>4, <1>5, <1>9, <1>12 DEF RunningForLast, Log!Audience
<1>14. TakenAreHandled'
  <2> SUFFICES ASSUME NEW i \in 1..Taken', NEW s \in Log!Audience(log[i])
               PROVE  log[i] \in handled[s] \/ <<s, log[i]>> \in running'
    BY DEF TakenAreHandled, Log!Audience
  <2>1. CASE i = Taken'
    BY <2>1, <1>5, <1>9
  <2>2. CASE i # Taken'
    BY <2>2, <1>3, <1>4 DEF IInv, TakenAreHandled
  <2> QED BY <2>1, <2>2
<1>15. HandledWereTaken'
  BY <1>3, <1>4 DEF IInv, HandledWereTaken
<1>16. RegisteredAtStart' /\ PanicsOnlyWhenHurried'
  BY DEF IInv, RegisteredAtStart, Registered, PanicsOnlyWhenHurried
<1>17. ShutdownInOrder'
  BY <1>1 DEF IInv, ShutdownInOrder, InProgress
<1> QED BY <1>6, <1>10, <1>11, <1>13, <1>14, <1>15, <1>16, <1>17 DEF IInv

(* A handler of the last event taken returns.                              *)
LEMMA HandleKeeps ==
  ASSUME IInv, NEW s \in Subscriber, NEW r \in Request, Handle(s, r)
  PROVE  IInv'
<1> USE DEF Handle, mainVars, chanVars, reqVars, histVars
<1>1. TypeOK'
  BY DEF IInv, TypeOK
<1>2. ChannelEndsLog' /\ LoggedOnce' /\ Taken' = Taken
  BY DEF IInv, ChannelEndsLog, LoggedOnce, Taken
<1>3. Taken \in 1..Len(log) /\ r = log[Taken]
  BY TakenIsNat DEF IInv, RunningForLast
<1>4. \A q \in Subscriber : handled'[q] = IF q = s THEN handled[q] \union {r} ELSE handled[q]
  BY DEF IInv, TypeOK
<1>5. RunningForLast'
  BY <1>2, <1>4 DEF IInv, RunningForLast
<1>6. TakenAreHandled'
  BY <1>2, <1>4 DEF IInv, TakenAreHandled, Log!Audience
<1>7. HandledWereTaken'
  BY <1>2, <1>3, <1>4, TakenIsNat DEF IInv, HandledWereTaken
<1>8. RegisteredAtStart' /\ PanicsOnlyWhenHurried'
  BY DEF IInv, RegisteredAtStart, Registered, PanicsOnlyWhenHurried
<1>9. ShutdownInOrder'
  BY DEF IInv, ShutdownInOrder, InProgress
<1> QED BY <1>1, <1>2, <1>5, <1>6, <1>7, <1>8, <1>9 DEF IInv

(* dispatch returns: the channel is closed, and drained.                   *)
LEMMA DispatchEndsKeeps ==
  ASSUME IInv, DispatchEnds
  PROVE  IInv'
<1> USE DEF DispatchEnds, mainVars, reqVars, histVars
<1>1. TypeOK'
  BY DEF IInv, TypeOK
<1>2. /\ ChannelEndsLog' /\ LoggedOnce' /\ RunningForLast' /\ TakenAreHandled'
      /\ HandledWereTaken'
  BY LogUntouched
<1>3. RegisteredAtStart' /\ PanicsOnlyWhenHurried'
  BY DEF IInv, RegisteredAtStart, Registered, PanicsOnlyWhenHurried
<1>4. ShutdownInOrder'
  BY DEF IInv, TypeOK, ShutdownInOrder, InProgress
<1> QED BY <1>1, <1>2, <1>3, <1>4 DEF IInv

LEMMA StutterKeeps ==
  ASSUME IInv, UNCHANGED busVars
  PROVE  IInv'
<1> USE DEF busVars, mainVars, chanVars, reqVars, histVars
<1>1. /\ ChannelEndsLog' /\ LoggedOnce' /\ RunningForLast' /\ TakenAreHandled'
      /\ HandledWereTaken'
  BY LogUntouched
<1>2. TypeOK' /\ RegisteredAtStart' /\ ShutdownInOrder' /\ PanicsOnlyWhenHurried'
  BY DEF IInv, TypeOK, RegisteredAtStart, Registered, ShutdownInOrder, InProgress,
     PanicsOnlyWhenHurried
<1> QED BY <1>1, <1>2 DEF IInv

LEMMA NextInv == IInv /\ [Next]_busVars => IInv'
<1> SUFFICES ASSUME IInv, [Next]_busVars PROVE IInv'
  OBVIOUS
<1>1. CASE \E s \in Subscriber : Subscribe(s)
  BY <1>1, SubscribeKeeps
<1>2. CASE \E r \in Request : RequestNext(r)
  BY <1>2, ServeReturnDisconnectKeep, PublishClosedKeeps, PublishDroppedKeeps,
     PublishAcceptedKeeps DEF RequestNext
<1>3. CASE Dispatch \/ DispatchEnds
  BY <1>3, DispatchKeeps, DispatchEndsKeeps
<1>4. CASE MainNext
  BY <1>4, MainKeeps
<1>5. CASE \E s \in Subscriber, r \in Request : Handle(s, r)
  BY <1>5, HandleKeeps
<1>6. CASE UNCHANGED busVars
  BY <1>6, StutterKeeps
<1> QED BY <1>1, <1>2, <1>3, <1>4, <1>5, <1>6 DEF Next, BusNext

LEMMA Invariance == Spec => []IInv
  BY InitInv, NextInv, PTL DEF Spec

(* The variables keep their types.                                         *)
THEOREM TypeCorrect == Spec => []TypeOK
  BY Invariance, PTL DEF IInv

(* Publish panics only after a stop that left requests in progress.        *)
THEOREM PanicsOnlyAfterHurry == Spec => []PanicsOnlyWhenHurried
  BY Invariance, PTL DEF IInv

(* At the end nothing is in the channel, and nothing runs.                 *)
LEMMA DrainedAtExit == IInv => ExitsDrained
<1> SUFFICES ASSUME IInv, main = "exited", NEW i \in 1..Len(log), NEW s \in Log!Audience(log[i])
             PROVE  log[i] \in handled[s]
  BY DEF ExitsDrained, Log!HandledByAll
<1>1. Taken = Len(log) /\ running = {}
  BY TakenIsNat, EmptySeq DEF IInv, ShutdownInOrder, Taken
<1> QED BY <1>1 DEF IInv, TakenAreHandled

(* Close waits for all there is to wait for: when the process ends, every  *)
(* event that the channel accepted has been handled by every handler of    *)
(* its topic.                                                              *)
THEOREM ExitLosesNothing == Spec => []ExitsDrained
  BY DrainedAtExit, Invariance, PTL

----------------------------------------------------------------------------
(* The bus implements EventLog.                                            *)

(* Only an accepted event is added to the log, and only once.              *)
LEMMA PublishIsAccept ==
  ASSUME IInv, NEW r \in Request, Publish(r)
  PROVE  Log!Accept(r) \/ UNCHANGED <<log, handled>>
<1>1. CASE ~closed /\ Len(ch) < BufferSize
  <2>1. log' = Append(log, r) /\ handled' = handled /\ rq[r] = "running"
    BY <1>1 DEF Publish, PublishOpen
  <2>2. \A i \in 1..Len(log) : log[i] # r
    BY <2>1 DEF IInv, LoggedOnce
  <2> QED BY <2>1, <2>2 DEF Log!Accept
<1>2. CASE ~(~closed /\ Len(ch) < BufferSize)
  BY <1>2 DEF Publish, PublishOpen, PublishClosed
<1> QED BY <1>1, <1>2

(* A handler that returns has handled the last event taken, for the first  *)
(* time and after all events before it.                                    *)
LEMMA HandleIsDeliver ==
  ASSUME IInv, NEW s \in Subscriber, NEW r \in Request, Handle(s, r)
  PROVE  Log!Deliver(s, Taken) /\ Taken \in 1..Len(log)
<1>1. /\ Taken \in 1..Len(log) /\ log[Taken] = r
      /\ s \in Log!Audience(r) /\ r \notin handled[s]
  BY TakenIsNat DEF IInv, RunningForLast, Handle
<1>2. ASSUME NEW j \in 1..(Taken - 1) PROVE Log!HandledByAll(log[j])
  <2>1. j \in 1..Len(log) /\ j \in 1..Taken /\ log[j] # log[Taken]
    BY <1>1, <1>2, TakenIsNat DEF IInv, LoggedOnce
  <2>2. \A q \in Subscriber : <<q, log[j]>> \notin running
    BY <2>1, TakenIsNat DEF IInv, RunningForLast
  <2> QED BY <2>1, <2>2 DEF IInv, TakenAreHandled, Log!HandledByAll, Log!Audience
<1> QED BY <1>1, <1>2 DEF Handle, Log!Deliver

LEMMA StepOfLog == IInv /\ [Next]_busVars => [Log!Next]_(Log!logVars)
<1> SUFFICES ASSUME IInv, [Next]_busVars PROVE Log!Next \/ UNCHANGED <<log, handled>>
  BY DEF Log!logVars
<1>1. CASE \E r \in Request : Publish(r)
  BY <1>1, PublishIsAccept DEF Log!Next
<1>2. CASE \E s \in Subscriber, r \in Request : Handle(s, r)
  BY <1>2, HandleIsDeliver DEF Log!Next, Log!Delivery
<1>3. CASE \/ \E s \in Subscriber : Subscribe(s)
           \/ \E r \in Request : Serve(r) \/ Return(r) \/ Disconnect(r)
           \/ Dispatch \/ DispatchEnds \/ MainNext
           \/ UNCHANGED busVars
  BY <1>3 DEF Subscribe, Serve, Return, Disconnect, Dispatch, DispatchEnds, MainNext,
     Listen, Signal, Drained, StopHurried, Close, Exit, busVars, histVars
<1> QED BY <1>1, <1>2, <1>3 DEF Next, BusNext, RequestNext

(* Events are accepted and handled in the way of EventLog, whatever the    *)
(* requests, the topics and the shutdown do: the safety part of            *)
(* AcceptedEventsHandled.                                                  *)
THEOREM ImplementsEventLog == Spec => Log!Safety
<1>1. Init => Log!Init
  BY DEF Init, Log!Init
<1> QED BY <1>1, StepOfLog, Invariance, PTL DEF Spec, Log!Safety

----------------------------------------------------------------------------
(* The bridge.  A step of it is a step of the bus.                         *)
LEMMA BridgeIsBus == [BridgeNext]_bridgeVars => [Next]_busVars
  BY DEF BridgeNext, bridgeVars, Bridge, Next

LEMMA BusInvariance == BridgeSpec => []IInv
<1>1. BridgeInit => IInv
  BY InitInv DEF BridgeInit
<1>2. IInv /\ [BridgeNext]_bridgeVars => IInv'
  BY NextInv, BridgeIsBus
<1> QED BY <1>1, <1>2, PTL DEF BridgeSpec

(* The bus with the bridge among its handlers implements EventLog as well. *)
THEOREM BridgedBusImplementsEventLog == BridgeSpec => Log!Safety
<1>1. BridgeInit => Log!Init
  BY DEF BridgeInit, Init, Log!Init
<1>2. IInv /\ [BridgeNext]_bridgeVars => [Log!Next]_(Log!logVars)
  BY BridgeIsBus, StepOfLog
<1> QED BY <1>1, <1>2, BusInvariance, PTL DEF BridgeSpec, Log!Safety

LEMMA BridgeInitInv == BridgeInit => BridgeIInv
<1> SUFFICES ASSUME BridgeInit PROVE BridgeIInv
  OBVIOUS
<1>1. IInv
  BY InitInv DEF BridgeInit
<1>2. sent = <<>> /\ handled = [s \in Subscriber |-> {}] /\ Len(sent) = 0
  BY DEF BridgeInit, Init
<1>3. SentOK
  BY <1>2, EmptySeq DEF SentOK
<1>4. SentWereTaken /\ SentInLogOrder
  BY <1>2 DEF SentWereTaken, SentInLogOrder
<1>5. MissedOnlyByLookup
  BY <1>2, BridgeAssumption DEF MissedOnlyByLookup, Bridged
<1> QED BY <1>1, <1>3, <1>4, <1>5 DEF BridgeIInv

(* Places of the log keep their events, and what is taken stays taken.     *)
LEMMA LogGrows ==
  ASSUME IInv, [Next]_busVars
  PROVE  /\ Len(log) <= Len(log') /\ Taken <= Taken' /\ alive' \subseteq alive
         /\ \A i \in 1..Len(log) : log'[i] = log[i]
<1> USE DEF mainVars, chanVars, reqVars, histVars
<1>1. /\ Len(log) \in Nat /\ Len(ch) \in Nat /\ Taken \in 0..Len(log)
      /\ log \in Seq(Request) /\ ch \in Seq(Request)
  BY TakenIsNat DEF IInv, TypeOK
<1>2. CASE \E r \in Request : Publish(r)
  <2>1. PICK r \in Request : Publish(r)
    BY <1>2
  <2>2. CASE UNCHANGED <<log, ch>>
    BY <1>1, <2>1, <2>2 DEF Publish, Taken
  <2>3. CASE log' = Append(log, r) /\ ch' = Append(ch, r)
    BY <1>1, <2>1, <2>3, AppendProperties DEF Publish, Taken
  <2> QED BY <2>1, <2>2, <2>3 DEF Publish, PublishOpen, PublishClosed
<1>3. CASE Dispatch
  <2>1. ch # <<>> /\ ch' = Tail(ch) /\ UNCHANGED <<log, alive>>
    BY <1>3 DEF Dispatch
  <2> QED BY <1>1, <2>1, HeadTailProperties DEF Taken
<1>4. CASE UNCHANGED <<log, ch>> /\ alive' \subseteq alive
  BY <1>1, <1>4 DEF Taken
<1>5. CASE \/ \E s \in Subscriber : Subscribe(s) \/ \E r \in Request : Handle(s, r)
           \/ \E r \in Request : Serve(r) \/ Return(r) \/ Disconnect(r)
           \/ DispatchEnds \/ MainNext \/ UNCHANGED busVars
  <2>1. UNCHANGED <<log, ch>> /\ alive' \subseteq alive
    BY <1>5 DEF Subscribe, Handle, Serve, Return, Disconnect, DispatchEnds, MainNext,
       Listen, Signal, Drained, StopHurried, Close, Exit, busVars
  <2> QED BY <2>1, <1>4
<1> QED BY <1>2, <1>3, <1>5 DEF Next, BusNext, RequestNext

(* The rooms hear nothing in this step.                                    *)
LEMMA NothingSentKeeps ==
  ASSUME BridgeIInv, IInv', [Next]_busVars, UNCHANGED sent
  PROVE  SentOK' /\ SentWereTaken' /\ SentInLogOrder'
<1>1. /\ Len(log) \in Nat /\ Taken \in 0..Len(log)
      /\ Len(log') \in Nat /\ Taken' \in 0..Len(log')
  <2>1. Len(log) \in Nat /\ Taken \in 0..Len(log)
    BY TakenIsNat DEF BridgeIInv, IInv
  <2>2. (TypeOK /\ ChannelEndsLog => Len(log) \in Nat /\ Taken \in 0..Len(log))'
    BY TakenIsNat, PTL
  <2> QED BY <2>1, <2>2 DEF IInv
<1>2. /\ Len(log) <= Len(log') /\ Taken <= Taken'
      /\ \A i \in 1..Len(log) : log'[i] = log[i]
  BY LogGrows DEF BridgeIInv
<1>3. SentOK'
  BY DEF BridgeIInv, SentOK
<1>4. \A n \in 1..Taken : /\ n \in 1..Len(log) /\ n \in 1..Len(log') /\ n \in 1..Taken'
                          /\ log'[n] = log[n]
  BY <1>1, <1>2
<1>5. SentWereTaken'
  <2> SUFFICES ASSUME NEW i \in 1..Len(sent)
               PROVE  \E n \in 1..Taken' : sent[i].event = log'[n]
    BY DEF SentWereTaken
  <2>1. PICK n \in 1..Taken : sent[i].event = log[n]
    BY DEF BridgeIInv, SentWereTaken
  <2> QED BY <1>4, <2>1
<1>6. SentInLogOrder'
  <2> SUFFICES ASSUME NEW i \in 1..Len(sent), NEW j \in 1..Len(sent),
                      NEW m \in 1..Len(log'), NEW n \in 1..Len(log'),
                      i < j, sent[i].event = log'[m], sent[j].event = log'[n]
               PROVE  m <= n
    BY DEF SentInLogOrder
  <2>1. PICK k \in 1..Taken : sent[i].event = log[k]
    BY DEF BridgeIInv, SentWereTaken
  <2>2. PICK l \in 1..Taken : sent[j].event = log[l]
    BY DEF BridgeIInv, SentWereTaken
  <2>3. k \in 1..Len(log') /\ log'[k] = log'[m] /\ l \in 1..Len(log') /\ log'[l] = log'[n]
    BY <1>4, <2>1, <2>2
  <2>4. k = m /\ l = n
    BY <2>3 DEF IInv, LoggedOnce
  <2>5. k \in 1..Len(log) /\ l \in 1..Len(log)
    BY <1>4
  <2>6. k <= l
    BY <2>1, <2>2, <2>5 DEF BridgeIInv, SentInLogOrder
  <2> QED BY <2>4, <2>6
<1> QED BY <1>3, <1>5, <1>6

(* Two broadcasts of one event follow what was sent before.                *)
LEMMA SentTwice ==
  ASSUME SentOK, NEW s \in Bridges, NEW r \in Request,
         sent' = sent \o << Broadcast(r, DefaultChannel),
                            Broadcast(r, ChannelOf[SubscriberTopic[s]]) >>
  PROVE  /\ SentOK' /\ Len(sent) \in Nat /\ Len(sent') = Len(sent) + 2
         /\ \A i \in 1..Len(sent) : sent'[i] = sent[i]
         /\ \A i \in Len(sent) + 1..Len(sent') : sent'[i].event = r
<1> DEFINE first == Broadcast(r, DefaultChannel)
           second == Broadcast(r, ChannelOf[SubscriberTopic[s]])
<1>1. first \in Broadcasts /\ second \in Broadcasts /\ first.event = r /\ second.event = r
  BY DEF Broadcasts, Broadcast
<1> HIDE DEF first, second
<1>2. /\ <<first, second>> \in Seq(Broadcasts) /\ Len(<<first, second>>) = 2
      /\ \A i \in 1..2 : <<first, second>>[i].event = r
  BY <1>1
<1>3. sent \in Seq(Broadcasts) /\ sent' = sent \o <<first, second>>
  BY DEF SentOK, first, second
<1>4. /\ sent' \in Seq(Broadcasts) /\ Len(sent) \in Nat /\ Len(sent') = Len(sent) + 2
      /\ \A i \in 1..Len(sent) + 2 : sent'[i] = IF i <= Len(sent) THEN sent[i]
                                               ELSE <<first, second>>[i - Len(sent)]
  BY <1>2, <1>3, ConcatProperties
<1>5. SentOK'
  BY <1>4 DEF SentOK
<1>6. Len(sent) \in Nat
  BY <1>4
<1>7. \A i \in Len(sent) + 1..Len(sent) + 2 : (i - Len(sent)) \in 1..2 /\ ~(i <= Len(sent))
  BY <1>6
<1> QED BY <1>2, <1>4, <1>5, <1>6, <1>7

(* A handler of the bridge sends the last event taken: no earlier one has  *)
(* a later place in the log.                                               *)
LEMMA SendingKeeps ==
  ASSUME BridgeIInv, IInv', NEW s \in Bridges, NEW r \in Request, Handle(s, r),
         sent' = sent \o << Broadcast(r, DefaultChannel),
                            Broadcast(r, ChannelOf[SubscriberTopic[s]]) >>
  PROVE  SentOK' /\ SentWereTaken' /\ SentInLogOrder'
<1>1. s \in Subscriber
  BY BridgeAssumption
<1>2. /\ SentOK' /\ Len(sent) \in Nat /\ Len(sent') = Len(sent) + 2
      /\ \A i \in 1..Len(sent) : sent'[i] = sent[i]
      /\ \A i \in Len(sent) + 1..Len(sent') : sent'[i].event = r
  BY SentTwice DEF BridgeIInv
<1>3. UNCHANGED <<log, ch>> /\ Taken' = Taken /\ <<s, r>> \in running
  BY DEF Handle, chanVars, Taken
<1>4. Taken \in 1..Len(log) /\ Len(log) \in Nat /\ log[Taken] = r
  BY <1>1, <1>3, TakenIsNat DEF BridgeIInv, IInv, RunningForLast
<1>5. SentWereTaken'
  <2> SUFFICES ASSUME NEW i \in 1..Len(sent')
               PROVE  \E n \in 1..Taken : sent'[i].event = log[n]
    BY <1>3 DEF SentWereTaken
  <2>1. CASE i <= Len(sent)
    <3>1. i \in 1..Len(sent) /\ sent'[i] = sent[i]
      BY <1>2, <2>1
    <3>2. \E n \in 1..Taken : sent[i].event = log[n]
      BY <3>1 DEF BridgeIInv, SentWereTaken
    <3> QED BY <3>1, <3>2
  <2>2. CASE i > Len(sent)
    <3>1. i \in Len(sent) + 1..Len(sent')
      BY <1>2, <2>2
    <3>2. sent'[i].event = r
      BY <1>2, <3>1
    <3>3. Taken \in 1..Taken
      BY <1>4
    <3> QED BY <1>4, <3>2, <3>3
  <2> QED BY <1>2, <2>1, <2>2
<1>6. SentInLogOrder'
  <2> SUFFICES ASSUME NEW i \in 1..Len(sent'), NEW j \in 1..Len(sent'),
                      NEW m \in 1..Len(log), NEW n \in 1..Len(log),
                      i < j, sent'[i].event = log[m], sent'[j].event = log[n]
               PROVE  m <= n
    BY <1>3 DEF SentInLogOrder
  <2>1. CASE j <= Len(sent)
    <3>1. i \in 1..Len(sent) /\ j \in 1..Len(sent)
      BY <1>2, <2>1
    <3>2. sent[i].event = log[m] /\ sent[j].event = log[n]
      BY <1>2, <3>1
    <3> QED BY <3>1, <3>2 DEF BridgeIInv, SentInLogOrder
  <2>2. CASE j > Len(sent)
    <3>1. n = Taken
      <4>1. j \in Len(sent) + 1..Len(sent')
        BY <1>2, <2>2
      <4>2. sent'[j].event = r
        BY <1>2, <4>1
      <4> QED BY <4>2, <1>4 DEF BridgeIInv, IInv, LoggedOnce
    <3>2. PICK k \in 1..Taken : sent'[i].event = log[k]
      BY <1>3, <1>5 DEF SentWereTaken
    <3>3. k \in 1..Len(log) /\ log[k] = log[m]
      BY <1>4, <3>2
    <3>4. k = m
      BY <3>3 DEF BridgeIInv, IInv, LoggedOnce
    <3> QED BY <1>4, <3>1, <3>2, <3>4
  <2> QED BY <1>2, <2>1, <2>2
<1> QED BY <1>2, <1>5, <1>6

(* An event that a bridge handler has had without sending it had its       *)
(* lookup too late or without success, and both stay so.                   *)
LEMMA MissesKeepTheirCause ==
  ASSUME BridgeIInv, [BridgeNext]_bridgeVars, SentOK'
  PROVE  MissedOnlyByLookup'
<1> SUFFICES ASSUME NEW r \in Request, Bridged(r)', Scoped(r), r \notin SentEvents'
             PROVE  EventOrg[r] = None /\ (r \notin alive' \/ r \in failed')
  BY DEF MissedOnlyByLookup, Scoped
<1>1. alive' \subseteq alive /\ failed \subseteq failed'
  <2>1. failed \subseteq failed'
    BY DEF BridgeNext, Bridge, LookupFails, bridgeVars
  <2> QED BY <2>1, BridgeIsBus, LogGrows DEF BridgeIInv
<1>2. ASSUME NEW s \in Subscriber, NEW q \in Request, Bridge(s, q)
      PROVE  EventOrg[r] = None /\ (r \notin alive' \/ r \in failed')
  <2>1. \A t \in Subscriber : handled'[t] = IF t = s THEN handled[t] \union {q} ELSE handled[t]
    BY <1>2 DEF Bridge, Handle, BridgeIInv, IInv, TypeOK
  <2>2. alive' = alive
    BY <1>2 DEF Bridge, Handle, reqVars
  <2>3. CASE s \in Bridges /\ Scoped(q) /\ Send(s, q)
    <3>1. /\ Len(sent) \in Nat /\ Len(sent') = Len(sent) + 2
          /\ \A i \in 1..Len(sent) : sent'[i] = sent[i]
          /\ \A i \in Len(sent) + 1..Len(sent') : sent'[i].event = q
      BY <2>3, SentTwice DEF Send, BridgeIInv
    <3>2. q \in SentEvents'
      BY <3>1 DEF SentEvents
    <3>3. r # q
      BY <3>2
    <3>4. SentEvents \subseteq SentEvents'
      BY <3>1 DEF SentEvents
    <3>5. Bridged(r)
      BY <2>1, <3>3, BridgeAssumption DEF Bridged
    <3> QED BY <1>1, <2>2, <3>4, <3>5 DEF BridgeIInv, MissedOnlyByLookup
  <2>4. CASE sent' = sent /\ (LookupFails(q) \/ ~(s \in Bridges /\ Scoped(q)))
    <3>1. sent' = sent /\ SentEvents' = SentEvents
      BY <2>4 DEF SentEvents
    <3>2. CASE Bridged(r)
      BY <1>1, <2>2, <3>1, <3>2 DEF BridgeIInv, MissedOnlyByLookup
    <3>3. CASE ~Bridged(r)
      <4>1. r = q /\ s \in Bridges
        BY <2>1, <3>3, BridgeAssumption DEF Bridged
      <4>2. LookupFails(q)
        BY <2>4, <4>1
      <4> QED BY <2>2, <4>1, <4>2 DEF LookupFails, NeedsLookup
    <3> QED BY <3>2, <3>3
  <2>5. (s \in Bridges /\ Scoped(q) /\ Send(s, q))
        \/ (sent' = sent /\ (LookupFails(q) \/ ~(s \in Bridges /\ Scoped(q))))
    BY <1>2 DEF Bridge
  <2> QED BY <2>3, <2>4, <2>5
<1>3. CASE UNCHANGED <<handled, sent>>
  BY <1>1, <1>3 DEF BridgeIInv, MissedOnlyByLookup, Bridged, SentEvents
<1>4. ASSUME BusNext \/ UNCHANGED busVars PROVE UNCHANGED handled
  BY <1>4 DEF BusNext, RequestNext, Subscribe, Publish, Serve, Return, Disconnect, Dispatch,
     DispatchEnds, MainNext, Listen, Signal, Drained, StopHurried, Close, Exit, busVars, histVars
<1> QED BY <1>2, <1>3, <1>4 DEF BridgeNext, bridgeVars

LEMMA BridgeNextInv == BridgeIInv /\ [BridgeNext]_bridgeVars => BridgeIInv'
<1> SUFFICES ASSUME BridgeIInv, [BridgeNext]_bridgeVars PROVE BridgeIInv'
  OBVIOUS
<1>1. [Next]_busVars /\ IInv'
  BY NextInv, BridgeIsBus DEF BridgeIInv
<1>2. SentOK' /\ SentWereTaken' /\ SentInLogOrder'
  <2>1. CASE UNCHANGED sent
    BY <1>1, <2>1, NothingSentKeeps
  <2>2. ASSUME NEW s \in Subscriber, NEW r \in Request, Bridge(s, r)
        PROVE  SentOK' /\ SentWereTaken' /\ SentInLogOrder'
    <3>1. Handle(s, r) /\ (UNCHANGED sent \/ (s \in Bridges /\ Send(s, r)))
      BY <2>2 DEF Bridge
    <3>2. CASE s \in Bridges /\ Send(s, r)
      BY <1>1, <3>1, <3>2, SendingKeeps DEF Send
    <3> QED BY <2>1, <3>1, <3>2
  <2> QED BY <2>1, <2>2 DEF BridgeNext, bridgeVars
<1>3. MissedOnlyByLookup'
  BY <1>2, MissesKeepTheirCause
<1> QED BY <1>1, <1>2, <1>3 DEF BridgeIInv

LEMMA BridgeInvariance == BridgeSpec => []BridgeIInv
  BY BridgeInitInv, BridgeNextInv, PTL DEF BridgeSpec

(* The place of a logged event is the one it has.                          *)
LEMMA PositionInLog ==
  ASSUME LoggedOnce, NEW n \in 1..Len(log)
  PROVE  Position(log[n]) = n
  BY DEF LoggedOnce, Position

(* Rooms hear the events in the order in which the bus accepted them.      *)
THEOREM RoomsHearInOrder == BridgeSpec => []RoomsInOrder
<1>1. BridgeIInv => RoomsInOrder
  <2> SUFFICES ASSUME BridgeIInv, NEW i \in 1..Len(sent), NEW j \in 1..Len(sent), i < j
               PROVE  Position(sent[i].event) <= Position(sent[j].event)
    BY DEF RoomsInOrder
  <2>1. Len(log) \in Nat /\ Taken \in 0..Len(log)
    BY TakenIsNat DEF BridgeIInv, IInv
  <2>2. PICK m \in 1..Taken : sent[i].event = log[m]
    BY DEF BridgeIInv, SentWereTaken
  <2>3. PICK n \in 1..Taken : sent[j].event = log[n]
    BY DEF BridgeIInv, SentWereTaken
  <2>4. m \in 1..Len(log) /\ n \in 1..Len(log) /\ m <= n
    BY <2>1, <2>2, <2>3 DEF BridgeIInv, SentInLogOrder
  <2> QED BY <2>2, <2>3, <2>4, PositionInLog DEF BridgeIInv, IInv
<1> QED BY <1>1, BridgeInvariance, PTL

(* An event of an organization or application reaches its rooms, unless    *)
(* its organization had to be looked up, and its request was over by then  *)
(* or the lookup failed.                                                   *)
THEOREM MissesHaveCause == BridgeSpec => []MissedOnlyByLookup
  BY BridgeInvariance, PTL DEF BridgeIInv

(* With the bridge among the handlers the process still ends only when     *)
(* every accepted event has been handled, and panics only when hurried.    *)
THEOREM BridgedBusSafe == BridgeSpec => [](ExitsDrained /\ PanicsOnlyWhenHurried)
<1>1. IInv => ExitsDrained /\ PanicsOnlyWhenHurried
  BY DrainedAtExit DEF IInv
<1> QED BY <1>1, BusInvariance, PTL
=============================================================================
