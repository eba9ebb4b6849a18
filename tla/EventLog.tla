------------------------------- MODULE EventLog -------------------------------
(***************************************************************************)
(* What an event bus promises its subscribers, without the channel, the    *)
(* goroutines and the shutdown that InProcessBus builds it from: events    *)
(* are accepted one after another; every subscriber of an event's topic    *)
(* handles it once; an event is handled only when all subscribers have     *)
(* handled those accepted before it, whatever their topics; and every      *)
(* accepted event is handled in the end.                                   *)
(***************************************************************************)
EXTENDS Naturals, Sequences

CONSTANTS Event, Subscriber, Topic, EventTopic, SubscriberTopic

VARIABLES log,      \* accepted events, in order
          handled   \* [Subscriber -> SUBSET Event]

logVars == <<log, handled>>

Audience(e) == {s \in Subscriber : SubscriberTopic[s] = EventTopic[e]}
HandledByAll(e) == \A s \in Audience(e) : e \in handled[s]

Init == log = <<>> /\ handled = [s \in Subscriber |-> {}]

Accept(e) ==
    /\ \A i \in 1..Len(log) : log[i] # e
    /\ log' = Append(log, e)
    /\ UNCHANGED handled

Deliver(s, i) ==
    /\ s \in Audience(log[i])
    /\ log[i] \notin handled[s]
    /\ \A j \in 1..(i - 1) : HandledByAll(log[j])
    /\ handled' = [handled EXCEPT ![s] = @ \union {log[i]}]
    /\ UNCHANGED log

Delivery(s) == \E i \in 1..Len(log) : Deliver(s, i)

Next == (\E e \in Event : Accept(e)) \/ (\E s \in Subscriber : Delivery(s))

Safety == Init /\ [][Next]_logVars

Spec == Safety /\ \A s \in Subscriber : WF_logVars(Delivery(s))
=============================================================================
