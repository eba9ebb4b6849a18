------------------------------- MODULE EventBus -------------------------------
(***************************************************************************)
(* The in-process event bus, the HTTP requests that publish on it, and the *)
(* main goroutine that starts and stops them.                              *)
(*                                                                         *)
(* An event is named by the request that publishes it: every use case      *)
(* publishes once, after its database write.  The channel carries the      *)
(* event with the request's context.  One goroutine dispatches: it takes   *)
(* an envelope, runs the topic's handlers each in a goroutine, and waits   *)
(* for all of them before it takes the next.                               *)
(***************************************************************************)
EXTENDS Naturals, Sequences

CONSTANTS
    Request,          \* requests that publish an event; also the events
    Subscriber,       \* handlers that are registered at startup
    Topic,
    EventTopic,       \* the topic a request publishes on
    SubscriberTopic,  \* the topic a handler is registered for
    BufferSize        \* capacity of the channel (256 in main.go)

ASSUME BusAssumption ==
    /\ EventTopic      \in [Request -> Topic]
    /\ SubscriberTopic \in [Subscriber -> Topic]
    /\ BufferSize \in Nat \ {0}

VARIABLES
    main,      \* where run() is: see Phases
    handlers,  \* b.handlers: topic -> registered handlers
    ch,        \* b.ch
    closed,    \* close(b.ch) has run
    done,      \* dispatch has returned
    running,   \* <<handler, event>> goroutines of the current envelope
    rq,        \* request -> its state: see RequestStates
    alive,     \* requests whose context is not cancelled
    hurried,   \* the server stopped with requests in progress
    \* history, read by properties only
    log,       \* events the channel accepted, in order
    dropped,   \* events the full channel refused
    handled    \* handler -> events it has returned from

mainVars == <<main, hurried>>
chanVars == <<ch, closed, done>>
reqVars  == <<rq, alive>>
histVars == <<log, dropped, handled>>
busVars  == <<mainVars, handlers, chanVars, running, reqVars, histVars>>

Phases == {"starting", "serving", "draining", "stopped", "closing", "exited"}
RequestStates == {"new", "running", "published", "returned", "panicked"}
InProgress(r) == rq[r] \in {"running", "published"}

TypeOK ==
    /\ main \in Phases
    /\ handlers \in [Topic -> SUBSET Subscriber]
    /\ ch \in Seq(Request) /\ Len(ch) <= BufferSize
    /\ closed \in BOOLEAN /\ done \in BOOLEAN /\ hurried \in BOOLEAN
    /\ running \subseteq Subscriber \X Request
    /\ rq \in [Request -> RequestStates]
    /\ alive \subseteq Request
    /\ log \in Seq(Request)
    /\ dropped \subseteq Request
    /\ handled \in [Subscriber -> SUBSET Request]

Init ==
    /\ main = "starting"
    /\ handlers = [t \in Topic |-> {}]
    /\ ch = <<>> /\ closed = FALSE /\ done = FALSE /\ running = {}
    /\ rq = [r \in Request |-> "new"]
    /\ alive = Request
    /\ hurried = FALSE
    /\ log = <<>> /\ dropped = {}
    /\ handled = [s \in Subscriber |-> {}]

----------------------------------------------------------------------------
(* Startup: buildDependencies registers the handlers, then run() listens.  *)

Registered(s) == s \in handlers[SubscriberTopic[s]]

Subscribe(s) ==
    /\ main = "starting"
    /\ ~Registered(s)
    /\ handlers' = [handlers EXCEPT ![SubscriberTopic[s]] = @ \union {s}]
    /\ UNCHANGED <<mainVars, chanVars, running, reqVars, histVars>>

Listen ==
    /\ main = "starting"
    /\ \A s \in Subscriber : Registered(s)
    /\ main' = "serving"
    /\ UNCHANGED <<hurried, handlers, chanVars, running, reqVars, histVars>>

----------------------------------------------------------------------------
(* Requests.                                                               *)

(* A use case has done its database write and is about to publish.         *)
Serve(r) ==
    /\ main = "serving"
    /\ rq[r] = "new"
    /\ rq' = [rq EXCEPT ![r] = "running"]
    /\ UNCHANGED <<mainVars, handlers, chanVars, running, alive, histVars>>

(* The select of Publish: a send on the closed channel panics, a full      *)
(* channel drops the event, and the caller is told nothing either way.     *)
PublishOpen(r) ==
    /\ rq' = [rq EXCEPT ![r] = "published"]
    /\ IF Len(ch) < BufferSize
       THEN ch' = Append(ch, r) /\ log' = Append(log, r) /\ UNCHANGED dropped
       ELSE dropped' = dropped \union {r} /\ UNCHANGED <<ch, log>>

PublishClosed(r) ==
    /\ rq' = [rq EXCEPT ![r] = "panicked"]
    /\ UNCHANGED <<ch, log, dropped>>

Publish(r) ==
    /\ main # "exited"
    /\ rq[r] = "running"
    /\ IF closed THEN PublishClosed(r) ELSE PublishOpen(r)
    /\ UNCHANGED <<mainVars, handlers, closed, done, running, alive, handled>>

(* The HTTP handler returns: net/http cancels the request's context.       *)
Return(r) ==
    /\ main # "exited"
    /\ rq[r] = "published"
    /\ rq' = [rq EXCEPT ![r] = "returned"]
    /\ alive' = alive \ {r}
    /\ UNCHANGED <<mainVars, handlers, chanVars, running, histVars>>

(* The client goes away, or srv.Close closes its connection.               *)
Disconnect(r) ==
    /\ main # "exited"
    /\ InProgress(r)
    /\ r \in alive
    /\ alive' = alive \ {r}
    /\ UNCHANGED <<mainVars, handlers, chanVars, running, rq, histVars>>

----------------------------------------------------------------------------
(* The dispatcher and its handlers.                                        *)

(* Mutant: the handlers run without wg.Wait.                               *)
DispatchUnwaited ==
    /\ main # "exited"
    /\ ch # <<>>
    /\ ch' = Tail(ch)
    /\ running' = running \union (handlers[EventTopic[Head(ch)]] \X {Head(ch)})
    /\ UNCHANGED <<mainVars, handlers, closed, done, reqVars, histVars>>

(* Take an envelope and start its handlers; wg.Wait holds the next one.    *)
Dispatch ==
    /\ main # "exited"
    /\ running = {}
    /\ ch # <<>>
    /\ ch' = Tail(ch)
    /\ running' = handlers[EventTopic[Head(ch)]] \X {Head(ch)}
    /\ UNCHANGED <<mainVars, handlers, closed, done, reqVars, histVars>>

(* A handler returns; an error is logged and changes nothing.  Nothing     *)
(* recovers in its goroutine: a handler that panics, as one in the hub may *)
(* (WsHub), takes the process with it, which is not part of this module.   *)
Handle(s, r) ==
    /\ main # "exited"
    /\ <<s, r>> \in running
    /\ running' = running \ {<<s, r>>}
    /\ handled' = [handled EXCEPT ![s] = @ \union {r}]
    /\ UNCHANGED <<mainVars, handlers, chanVars, reqVars, log, dropped>>

(* Mutant: dispatch stops at close instead of draining the channel.        *)
DispatchEndsAtClose ==
    /\ closed /\ ~done /\ running = {}
    /\ done' = TRUE
    /\ UNCHANGED <<mainVars, handlers, ch, closed, running, reqVars, histVars>>

(* The range over the closed and drained channel ends: close(b.done).      *)
DispatchEnds ==
    /\ closed /\ ~done
    /\ ch = <<>> /\ running = {}
    /\ done' = TRUE
    /\ UNCHANGED <<mainVars, handlers, ch, closed, running, reqVars, histVars>>

----------------------------------------------------------------------------
(* Shutdown.                                                               *)

(* SIGTERM: srv.Shutdown takes no new request and waits for the others.    *)
Signal ==
    /\ main = "serving"
    /\ main' = "draining"
    /\ UNCHANGED <<hurried, handlers, chanVars, running, reqVars, histVars>>

(* Mutant: main does not wait for the requests in progress.                *)
DrainedAtOnce ==
    /\ main = "draining"
    /\ main' = "stopped"
    /\ UNCHANGED <<hurried, handlers, chanVars, running, reqVars, histVars>>

Drained ==
    /\ main = "draining"
    /\ \A r \in Request : ~InProgress(r)
    /\ main' = "stopped"
    /\ UNCHANGED <<hurried, handlers, chanVars, running, reqVars, histVars>>

(* Mutant: Shutdown is called without a deadline.                          *)
StopOnServerError ==
    /\ main = "serving"
    /\ main' = "stopped"
    /\ hurried' = TRUE
    /\ UNCHANGED <<handlers, chanVars, running, reqVars, histVars>>

(* The 30 s of Shutdown pass, or ListenAndServe fails: run() returns with  *)
(* requests in progress.                                                   *)
StopHurried ==
    /\ main \in {"draining", "serving"}
    /\ main' = "stopped"
    /\ hurried' = TRUE
    /\ UNCHANGED <<handlers, chanVars, running, reqVars, histVars>>

(* The deferred eventBus.Close().                                          *)
Close ==
    /\ main = "stopped"
    /\ main' = "closing"
    /\ closed' = TRUE
    /\ UNCHANGED <<hurried, handlers, ch, done, running, reqVars, histVars>>

(* <-b.done, the other defers, and the end of the process.                 *)
Exit ==
    /\ main = "closing"
    /\ done
    /\ main' = "exited"
    /\ UNCHANGED <<hurried, handlers, chanVars, running, reqVars, histVars>>

----------------------------------------------------------------------------
MainNext == Listen \/ Signal \/ Drained \/ StopHurried \/ Close \/ Exit

RequestNext(r) == Serve(r) \/ Publish(r) \/ Return(r) \/ Disconnect(r)

BusNext ==
    \/ \E s \in Subscriber : Subscribe(s)
    \/ \E r \in Request : RequestNext(r)
    \/ Dispatch \/ DispatchEnds
    \/ MainNext

Next == BusNext \/ \E s \in Subscriber, r \in Request : Handle(s, r)

(* Goroutines that can run do run.  A handler returns because the bridge   *)
(* never blocks without its request's context; a use case may take for     *)
(* ever, so Publish and Return are not fair, and neither is the signal.    *)
Fairness ==
    /\ WF_busVars(Dispatch) /\ WF_busVars(DispatchEnds)
    /\ \A s \in Subscriber, r \in Request : WF_busVars(Handle(s, r))
    /\ \A s \in Subscriber : WF_busVars(Subscribe(s))
    /\ WF_busVars(Listen) /\ WF_busVars(Close) /\ WF_busVars(Exit)
    /\ WF_busVars(StopHurried /\ main = "draining")

Spec == Init /\ [][Next]_busVars /\ Fairness

----------------------------------------------------------------------------
(* Refinement: the bus gives what EventLog promises for the events its     *)
(* channel accepted, through shutdown as well.                             *)
Log == INSTANCE EventLog WITH Event <- Request
AcceptedEventsHandled == Log!Spec

(* Only a stop that did not wait for its requests makes Publish panic.     *)
PanicsOnlyWhenHurried == (\E r \in Request : rq[r] = "panicked") => hurried

(* The process ends with every accepted event handled: what Close waits    *)
(* for covers the channel and the handlers that still run.                 *)
ExitsDrained ==
    main = "exited" => \A i \in 1..Len(log) : Log!HandledByAll(log[i])

(* Once the server is asked to stop the process ends: Close is waiting for *)
(* a goroutine that always ends.                                           *)
ShutdownTerminates == main = "draining" ~> main = "exited"

----------------------------------------------------------------------------
(* The inductive invariant.                                                *)

Taken == Len(log) - Len(ch)    \* envelopes that the dispatcher has received

(* The channel is the end of the log, which has nothing twice.             *)
ChannelEndsLog ==
    /\ Len(ch) <= Len(log)
    /\ \A k \in 1..Len(ch) : ch[k] = log[Taken + k]

LoggedOnce ==
    /\ \A i, j \in 1..Len(log) : log[i] = log[j] => i = j
    /\ \A i \in 1..Len(log) : rq[log[i]] \in {"published", "returned"}

(* Handlers run for the last envelope taken; those before it are done.     *)
RunningForLast ==
    \A s \in Subscriber, r \in Request : <<s, r>> \in running =>
        /\ Taken > 0 /\ r = log[Taken]
        /\ s \in Log!Audience(r) /\ r \notin handled[s]

TakenAreHandled ==
    \A i \in 1..Taken : \A s \in Log!Audience(log[i]) :
        log[i] \in handled[s] \/ <<s, log[i]>> \in running

HandledWereTaken ==
    \A s \in Subscriber : \A r \in handled[s] : \E i \in 1..Taken : log[i] = r

(* Handlers are registered for their topic, and all before run() listens.  *)
RegisteredAtStart ==
    /\ \A t \in Topic : \A s \in handlers[t] : SubscriberTopic[s] = t
    /\ IF main = "starting" THEN \A r \in Request : rq[r] = "new"
                            ELSE \A s \in Subscriber : Registered(s)

(* What each phase of the shutdown has behind it.                          *)
ShutdownInOrder ==
    /\ closed <=> main \in {"closing", "exited"}
    /\ done => closed /\ ch = <<>> /\ running = {}
    /\ main = "exited" => done
    /\ main \in {"stopped", "closing", "exited"} /\ ~hurried => \A r \in Request : ~InProgress(r)

IInv ==
    /\ TypeOK /\ ChannelEndsLog /\ LoggedOnce /\ RunningForLast /\ TakenAreHandled
    /\ HandledWereTaken /\ RegisteredAtStart /\ ShutdownInOrder /\ PanicsOnlyWhenHurried
=============================================================================
