----------------------------- MODULE EventBridge -----------------------------
(***************************************************************************)
(* The bridge from the event bus to the rooms of the WebSocket hub: one of *)
(* the two subscribers of every topic (the other logs the event).  What    *)
(* its handlers give Hub.Broadcast and Hub.BroadcastToOrganization is sent. *)
(*                                                                         *)
(* An event names an organization, an application, both, or neither.  An   *)
(* application without its organization is looked up in the apps table     *)
(* with the context of the request that published the event.               *)
(***************************************************************************)
EXTENDS EventBus

CONSTANTS
    Org, App, None,
    Bridges,         \* the subscribers that EventBridge.Register adds
    EventOrg,        \* the organization the event names, or None (uuid.Nil)
    EventApp,        \* the application it names, or None
    OrgOf,           \* the apps table: application -> organization_id
    DefaultChannel,  \* "events"
    ChannelOf        \* the channel of a topic's handler

ASSUME BridgeAssumption ==
    /\ Bridges \subseteq Subscriber
    /\ None \notin Org \union App
    /\ EventOrg \in [Request -> Org \union {None}]
    /\ EventApp \in [Request -> App \union {None}]
    /\ OrgOf    \in [App -> Org]

VARIABLES
    sent,    \* broadcasts, in order: [event, org, app, channel]
    \* history, read by properties only
    failed   \* events whose lookup failed while their request was alive

bridgeVars == <<busVars, sent, failed>>

BridgeInit == Init /\ sent = <<>> /\ failed = {}

(* extractRoutes: an event that names neither has no route.                *)
Scoped(r) == EventOrg[r] # None \/ EventApp[r] # None

(* Mutant: every event that names an application looks it up.              *)
NeedsLookupAlways(r) == EventApp[r] # None

NeedsLookup(r) == EventApp[r] # None /\ EventOrg[r] = None

OrgResolved(r) == IF NeedsLookup(r) THEN OrgOf[EventApp[r]] ELSE EventOrg[r]

(* A room of the application, or that channel's rooms of all applications. *)
Broadcast(r, channel) ==
    [event |-> r, org |-> OrgResolved(r), app |-> EventApp[r], channel |-> channel]

(* The bridge's part of handleEvent: what its route says, for each room.   *)
Send(s, r) ==
    sent' = sent \o << Broadcast(r, DefaultChannel),
                       Broadcast(r, ChannelOf[SubscriberTopic[s]]) >>

(* GetByID fails for any reason a query has (no connection, an error, no   *)
(* such app), and always once the request's context is cancelled.          *)
LookupFails(r) ==
    /\ NeedsLookup(r)
    /\ failed' = IF r \in alive THEN failed \union {r} ELSE failed

LookupDone(r) == NeedsLookup(r) => r \in alive

(* handleEvent: a failed lookup skips the route and returns no error.      *)
Bridge(s, r) ==
    /\ Handle(s, r)
    /\ \/ s \in Bridges /\ Scoped(r) /\ LookupDone(r) /\ Send(s, r) /\ UNCHANGED failed
       \/ s \in Bridges /\ LookupFails(r) /\ UNCHANGED sent
       \/ ~(s \in Bridges /\ Scoped(r)) /\ UNCHANGED <<sent, failed>>

BridgeNext ==
    \/ BusNext /\ UNCHANGED <<sent, failed>>
    \/ \E s \in Subscriber, r \in Request : Bridge(s, r)

(* Fairness of Handle is fairness of Bridge, which is a Handle step and is  *)
(* possible whenever Handle is.                                            *)
BridgeSpec == BridgeInit /\ [][BridgeNext]_bridgeVars /\ Fairness

----------------------------------------------------------------------------
Position(r) == CHOOSE i \in 1..Len(log) : log[i] = r
SentEvents  == {sent[i].event : i \in 1..Len(sent)}
Bridged(r)  == \E s \in Bridges : r \in handled[s]

(* A room hears events in the order the bus accepted them, across topics:  *)
(* all topics feed the default channel.                                    *)
RoomsInOrder ==
    \A i, j \in 1..Len(sent) :
        i < j => Position(sent[i].event) <= Position(sent[j].event)

(* Only an event whose organization must be looked up can miss its rooms,  *)
(* and only when its request was over before the handler ran, or the       *)
(* lookup itself failed.                                                   *)
MissedOnlyByLookup ==
    \A r \in Request :
        Bridged(r) /\ Scoped(r) /\ r \notin SentEvents
            => EventOrg[r] = None /\ (r \notin alive \/ r \in failed)

----------------------------------------------------------------------------
(* The inductive invariant: what is sent is of events that the dispatcher  *)
(* has taken, in the order of the log.                                     *)
Broadcasts ==
    {Broadcast(r, DefaultChannel) : r \in Request}
    \union {Broadcast(r, ChannelOf[SubscriberTopic[s]]) : r \in Request, s \in Bridges}

SentOK == sent \in Seq(Broadcasts)

SentWereTaken == \A i \in 1..Len(sent) : \E n \in 1..Taken : sent[i].event = log[n]

SentInLogOrder ==
    \A i, j \in 1..Len(sent) : \A m, n \in 1..Len(log) :
        i < j /\ sent[i].event = log[m] /\ sent[j].event = log[n] => m <= n

BridgeIInv == IInv /\ SentOK /\ SentWereTaken /\ SentInLogOrder /\ MissedOnlyByLookup
=============================================================================
