-------------------------------- MODULE WsHub --------------------------------
(***************************************************************************)
(* The in-memory WebSocket hub: its maps of clients, rooms and             *)
(* organization channels, and the goroutines of each connection.           *)
(*                                                                         *)
(* A connection is the HTTP handler Connect, a write pump and a read pump. *)
(* Hub.Register makes one client object for it (with its rooms) and        *)
(* Session.Start a second one (without rooms); both hold the same send     *)
(* channel, and each has its own flag "closed".  The pumps run on the      *)
(* second object.  Every method of the hub holds its mutex from start to   *)
(* end and is one action.  BuildRoomKey and ParseRoomKey are inverse of    *)
(* each other on the names used here: a room is a triple.                  *)
(***************************************************************************)
EXTENDS Naturals, FiniteSets

CONSTANTS
    Client,         \* connection ids, each used once
    Org, App, Channel,
    DefaultChannel,
    ScopeOf,        \* the organization and the app a client was validated for
    MaxConnections,
    SendCap         \* capacity of a send channel (64 in the code)

ASSUME HubAssumption ==
    /\ DefaultChannel \in Channel
    /\ ScopeOf \in [Client -> Org \X App]
    /\ MaxConnections \in Nat \ {0}
    /\ SendCap \in Nat \ {0}
    /\ IsFiniteSet(Client)

Room     == Org \X App \X Channel
RoomOf(c, ch) == <<ScopeOf[c][1], ScopeOf[c][2], ch>>
OrgKey   == Org \X Channel
KeyOf(r) == <<r[1], r[3]>>

VARIABLES
    \* the hub
    clients,      \* ids in h.clients
    rooms,        \* ids in h.rooms[room]; no entry is the empty set
    orgChannels,  \* rooms indexed by organization and channel
    closed,       \* h.closed
    \* the registered object and the session's object of a connection
    subs,         \* c.rooms of the registered object
    regClosed,    \* c.closed of the registered object
    sessClosed,   \* c.closed of the session's object
    \* the channel they share
    queued,       \* messages in the send channel
    chanClosed,
    \* the goroutines and the connection
    conn,         \* "none" before the upgrade, then "open", then "closed"
    registered,   \* Register returned a function that removes the client
    welcome,      \* Connect has still to send the welcome message
    writer,       \* write pump: "off", "running", "exited"
    reader,       \* read pump: "off", "reading", "removing", "unregistering", "exited"
    crashed       \* the panic that ended the process, if any

index == <<clients, rooms, orgChannels>>
flags == <<subs, regClosed, sessClosed>>
chans == <<queued, chanClosed>>
pumps == <<conn, registered, welcome, writer, reader>>
vars  == <<index, closed, flags, chans, pumps, crashed>>

TypeOK ==
    /\ clients \subseteq Client
    /\ rooms \in [Room -> SUBSET Client]
    /\ orgChannels \in [OrgKey -> SUBSET Room]
    /\ closed \in BOOLEAN
    /\ subs \in [Client -> SUBSET Room]
    /\ regClosed \in [Client -> BOOLEAN]
    /\ sessClosed \in [Client -> BOOLEAN]
    /\ queued \in [Client -> 0..SendCap]
    /\ chanClosed \in [Client -> BOOLEAN]
    /\ conn \in [Client -> {"none", "open", "closed"}]
    /\ registered \in [Client -> BOOLEAN]
    /\ welcome \in [Client -> BOOLEAN]
    /\ writer \in [Client -> {"off", "running", "exited"}]
    /\ reader \in [Client -> {"off", "reading", "removing", "unregistering", "exited"}]
    /\ crashed \in {"no", "sendOnClosed", "closeOfClosed"}

Init ==
    /\ clients = {}
    /\ rooms = [r \in Room |-> {}]
    /\ orgChannels = [k \in OrgKey |-> {}]
    /\ closed = FALSE
    /\ subs = [c \in Client |-> {}]
    /\ regClosed  = [c \in Client |-> FALSE]
    /\ sessClosed = [c \in Client |-> FALSE]
    /\ queued = [c \in Client |-> 0]
    /\ chanClosed = [c \in Client |-> FALSE]
    /\ conn = [c \in Client |-> "none"]
    /\ registered = [c \in Client |-> FALSE]
    /\ welcome = [c \in Client |-> FALSE]
    /\ writer = [c \in Client |-> "off"]
    /\ reader = [c \in Client |-> "off"]
    /\ crashed = "no"

----------------------------------------------------------------------------
(* Helpers of the hub, called with its mutex held.                         *)

AddToRoom(c, r) ==
    /\ rooms' = [rooms EXCEPT ![r] = @ \union {c}]
    /\ subs' = [subs EXCEPT ![c] = @ \union {r}]
    /\ orgChannels' = [orgChannels EXCEPT ![KeyOf(r)] = @ \union {r}]

(* Mutant: an emptied room stays in the reverse index.                     *)
DropFromRoomsIndexed(c, R) ==
    /\ rooms' = [r \in Room |-> IF r \in R THEN rooms[r] \ {c} ELSE rooms[r]]
    /\ UNCHANGED orgChannels

(* Take c out of the rooms R; a room left empty leaves both maps.          *)
DropFromRooms(c, R) ==
    LET emptied == {r \in R : c \in rooms[r] /\ rooms[r] = {c}} IN
    /\ rooms' = [r \in Room |-> IF r \in R THEN rooms[r] \ {c} ELSE rooms[r]]
    /\ orgChannels' = [k \in OrgKey |-> orgChannels[k] \ emptied]

(* closeSend on the object whose flag is given: closing a closed channel   *)
(* panics, and no goroutine of a connection recovers.                      *)
CloseSend(c, flag) ==
    IF flag THEN UNCHANGED <<chanClosed, crashed>>
    ELSE /\ chanClosed' = [chanClosed EXCEPT ![c] = TRUE]
         /\ crashed' = IF chanClosed[c] THEN "closeOfClosed" ELSE crashed

(* Mutant: the channel is not bounded.                                     *)
EnqueuedUnbounded(C) ==
    [c \in Client |-> IF c \in C THEN queued[c] + 1 ELSE queued[c]]

(* A non-blocking send: a full channel drops the message.                  *)
Enqueued(C) ==
    [c \in Client |-> IF c \in C /\ queued[c] < SendCap THEN queued[c] + 1 ELSE queued[c]]

(* SendToClient: only clients of the map are reached.                      *)
SendToClient(c) == queued' = Enqueued({c} \intersect clients)

(* Sending on a closed channel panics; the sends to the members before it  *)
(* in the iteration do not matter any more.                                *)
Send(C) ==
    IF \E c \in C : chanClosed[c]
    THEN crashed' = "sendOnClosed" /\ UNCHANGED queued
    ELSE queued' = Enqueued(C) /\ UNCHANGED crashed

----------------------------------------------------------------------------
(* Connect upgrades the request, then Register and Session.Start.  Nothing *)
(* of the hub depends on the pumps, so starting them is the same step.     *)

StartPumps(c) ==
    /\ conn[c] = "none"
    /\ conn' = [conn EXCEPT ![c] = "open"]
    /\ welcome' = [welcome EXCEPT ![c] = TRUE]
    /\ writer' = [writer EXCEPT ![c] = "running"]
    /\ reader' = [reader EXCEPT ![c] = "reading"]

ConnectRegistered(c) ==
    /\ ~closed /\ Cardinality(clients) < MaxConnections
    /\ StartPumps(c)
    /\ clients' = clients \union {c}
    /\ AddToRoom(c, RoomOf(c, DefaultChannel))
    /\ registered' = [registered EXCEPT ![c] = TRUE]
    /\ UNCHANGED <<closed, regClosed, sessClosed, chans, crashed>>

(* Mutant: Register refuses without closing the channel.                   *)
ConnectRefusedOpen(c) ==
    /\ ~closed /\ Cardinality(clients) >= MaxConnections
    /\ StartPumps(c)
    /\ UNCHANGED <<index, closed, flags, chans, registered, crashed>>

(* At the limit Register closes the channel; the pumps start all the same. *)
ConnectRefused(c) ==
    /\ ~closed /\ Cardinality(clients) >= MaxConnections
    /\ StartPumps(c)
    /\ chanClosed' = [chanClosed EXCEPT ![c] = TRUE]
    /\ UNCHANGED <<index, closed, flags, queued, registered, crashed>>

(* A closed hub registers nothing and leaves the channel open.             *)
ConnectClosed(c) ==
    /\ closed
    /\ StartPumps(c)
    /\ UNCHANGED <<index, closed, flags, chans, registered, crashed>>

(* The welcome message.  On a closed channel the handler panics, which the *)
(* Recoverer middleware catches.                                           *)
Welcome(c) ==
    /\ welcome[c]
    /\ welcome' = [welcome EXCEPT ![c] = FALSE]
    /\ queued' = IF chanClosed[c] THEN queued ELSE Enqueued({c})
    /\ UNCHANGED <<index, closed, flags, chanClosed, conn, registered, writer,
                   reader, crashed>>

----------------------------------------------------------------------------
(* The write pump.                                                         *)

WriteMessage(c) ==
    /\ writer[c] = "running" /\ conn[c] = "open" /\ queued[c] > 0
    /\ queued' = [queued EXCEPT ![c] = @ - 1]
    /\ UNCHANGED <<index, closed, flags, chanClosed, pumps, crashed>>

(* A drained, closed channel; or a write or ping that fails.               *)
WriterExits(c) ==
    /\ writer[c] = "running"
    /\ (chanClosed[c] /\ queued[c] = 0) \/ conn[c] = "closed"
    /\ writer' = [writer EXCEPT ![c] = "exited"]
    /\ conn' = [conn EXCEPT ![c] = "closed"]
    /\ UNCHANGED <<index, closed, flags, chans, registered, welcome, reader, crashed>>

(* The peer goes away, or the read deadline passes.                        *)
PeerGone(c) ==
    /\ conn[c] = "open"
    /\ conn' = [conn EXCEPT ![c] = "closed"]
    /\ UNCHANGED <<index, closed, flags, chans, registered, welcome, writer,
                   reader, crashed>>

----------------------------------------------------------------------------
(* The read pump: client actions while the connection is open, then the    *)
(* deferred removeClient on the session's object and unregister.           *)

Reading(c) == reader[c] = "reading" /\ conn[c] = "open"

(* Hub.Subscribe and the acknowledgement; "client not found" is answered   *)
(* by SendToClient, which does not find it either.                         *)
Subscribe(c, ch) ==
    /\ Reading(c)
    /\ IF c \in clients THEN AddToRoom(c, RoomOf(c, ch))
                        ELSE UNCHANGED <<rooms, subs, orgChannels>>
    /\ SendToClient(c)
    /\ UNCHANGED <<clients, closed, regClosed, sessClosed, chanClosed, pumps, crashed>>

(* Mutant: the client object keeps the room in its list.                   *)
UnsubscribeListed(c, ch) ==
    /\ Reading(c) /\ c \in clients
    /\ DropFromRooms(c, {RoomOf(c, ch)})
    /\ UNCHANGED <<clients, closed, flags, chans, pumps, crashed>>

Unsubscribe(c, ch) ==
    /\ Reading(c) /\ c \in clients
    /\ DropFromRooms(c, {RoomOf(c, ch)})
    /\ subs' = [subs EXCEPT ![c] = @ \ {RoomOf(c, ch)}]
    /\ UNCHANGED <<clients, closed, regClosed, sessClosed, chans, pumps, crashed>>

(* A ping, an unknown action or an invalid name: one control message.      *)
Control(c) ==
    /\ Reading(c) /\ c \in clients
    /\ SendToClient(c)
    /\ UNCHANGED <<index, closed, flags, chanClosed, pumps, crashed>>

(* Mutant: the read pump returns without its deferred calls.               *)
ReaderReturns(c) ==
    /\ reader[c] = "reading" /\ conn[c] = "closed"
    /\ reader' = [reader EXCEPT ![c] = "exited"]
    /\ UNCHANGED <<index, closed, flags, chans, conn, registered, welcome, writer, crashed>>

ReaderExits(c) ==
    /\ reader[c] = "reading" /\ conn[c] = "closed"
    /\ reader' = [reader EXCEPT ![c] = "removing"]
    /\ UNCHANGED <<index, closed, flags, chans, conn, registered, welcome, writer, crashed>>

(* Mutant: removeClient does not look whether the id is in the map.        *)
RemoveSessionAlways(c) ==
    /\ reader[c] = "removing"
    /\ reader' = [reader EXCEPT ![c] = "unregistering"]
    /\ clients' = clients \ {c}
    /\ sessClosed' = [sessClosed EXCEPT ![c] = TRUE]
    /\ CloseSend(c, sessClosed[c])
    /\ UNCHANGED <<rooms, orgChannels, closed, subs, regClosed, queued, conn,
                   registered, welcome, writer>>

(* removeClient(c) for the session's object: its set of rooms is nil.      *)
RemoveSession(c) ==
    /\ reader[c] = "removing"
    /\ reader' = [reader EXCEPT ![c] = "unregistering"]
    /\ IF c \in clients
       THEN /\ clients' = clients \ {c}
            /\ sessClosed' = [sessClosed EXCEPT ![c] = TRUE]
            /\ CloseSend(c, sessClosed[c])
       ELSE UNCHANGED <<clients, sessClosed, chanClosed, crashed>>
    /\ UNCHANGED <<rooms, orgChannels, closed, subs, regClosed, queued, conn,
                   registered, welcome, writer>>

(* unregister: removeClient(c) for the registered object.                  *)
Unregister(c) ==
    /\ reader[c] = "unregistering"
    /\ reader' = [reader EXCEPT ![c] = "exited"]
    /\ IF registered[c] /\ c \in clients
       THEN /\ clients' = clients \ {c}
            /\ DropFromRooms(c, subs[c])
            /\ regClosed' = [regClosed EXCEPT ![c] = TRUE]
            /\ CloseSend(c, regClosed[c])
       ELSE UNCHANGED <<index, regClosed, chanClosed, crashed>>
    /\ UNCHANGED <<closed, subs, sessClosed, queued, conn, registered, welcome, writer>>

----------------------------------------------------------------------------
(* Calls of the event bridge, on a goroutine of the event bus.             *)

Broadcast(r) ==
    /\ ~closed
    /\ Send(rooms[r])
    /\ UNCHANGED <<index, closed, flags, chanClosed, pumps>>

(* Each room of the index in turn.  A client is in at most one of them:    *)
(* they differ in the app.                                                 *)
BroadcastToOrganization(o, ch) ==
    /\ ~closed
    /\ Send(UNION {rooms[r] : r \in orgChannels[<<o, ch>>]})
    /\ UNCHANGED <<index, closed, flags, chanClosed, pumps>>

(* Hub.Close.  (main does not call it.)                                    *)
Close ==
    /\ ~closed
    /\ closed' = TRUE
    /\ clients' = {}
    /\ rooms' = [r \in Room |-> {}]
    /\ orgChannels' = [k \in OrgKey |-> {}]
    /\ regClosed' = [c \in Client |-> regClosed[c] \/ c \in clients]
    /\ chanClosed' = [c \in Client |-> chanClosed[c] \/ (c \in clients /\ ~regClosed[c])]
    /\ crashed' = IF \E c \in clients : chanClosed[c] /\ ~regClosed[c]
                  THEN "closeOfClosed" ELSE crashed
    /\ UNCHANGED <<subs, sessClosed, queued, pumps>>

Connection(c) ==
    \/ ConnectRegistered(c) \/ ConnectRefused(c) \/ ConnectClosed(c) \/ Welcome(c)
    \/ WriteMessage(c) \/ WriterExits(c) \/ PeerGone(c)
    \/ \E ch \in Channel : Subscribe(c, ch) \/ Unsubscribe(c, ch)
    \/ Control(c) \/ ReaderExits(c) \/ RemoveSession(c) \/ Unregister(c)

Bridge ==
    \/ \E r \in Room : Broadcast(r)
    \/ \E o \in Org, ch \in Channel : BroadcastToOrganization(o, ch)

Next == crashed = "no" /\ ((\E c \in Client : Connection(c)) \/ Bridge \/ Close)

(* The Go scheduler runs every goroutine that can run, and a pump's write  *)
(* or read returns; nothing makes a client send or a peer go away.         *)
Fairness ==
    \A c \in Client :
        /\ WF_vars(crashed = "no" /\ WriteMessage(c))
        /\ WF_vars(crashed = "no" /\ WriterExits(c))
        /\ WF_vars(crashed = "no" /\ ReaderExits(c))
        /\ WF_vars(crashed = "no" /\ RemoveSession(c))
        /\ WF_vars(crashed = "no" /\ Unregister(c))

Spec == Init /\ [][Next]_vars /\ Fairness

----------------------------------------------------------------------------
(* Properties.                                                             *)

(* BroadcastToOrganization finds its rooms through the reverse index: at   *)
(* every moment the index holds exactly the rooms that have a member,      *)
(* although three methods maintain it separately.                          *)
IndexMatchesRooms ==
    \A k \in OrgKey :
        orgChannels[k] = {r \in Room : KeyOf(r) = k /\ rooms[r] # {}}

(* Two objects hold one channel and each would close it once: membership   *)
(* in the map decides who does, so it is never closed twice, whether the   *)
(* read pump, unregister, the limit or Close comes first.                  *)
ClosedOnce == crashed # "closeOfClosed"

(* A connected client is in exactly the rooms its own object lists, and    *)
(* its channel is open: nothing else removes it from a room.               *)
MembersListTheirRooms ==
    \A c \in clients :
        ~chanClosed[c] /\ subs[c] = {r \in Room : c \in rooms[r]}

(* A dead connection gives its slot back.                                  *)
SlotFreed ==
    \A c \in Client : conn[c] = "closed" ~> (c \notin clients \/ crashed # "no")

(* A client the hub does not know (refused at the limit, removed, or       *)
(* thrown out by Close) does not keep its connection; only one that came   *)
(* after Close does.                                                       *)
StrangerDisconnected ==
    \A c \in Client :
        (conn[c] = "open" /\ c \notin clients /\ (registered[c] \/ ~closed))
            ~> (conn[c] = "closed" \/ crashed # "no")

(* What the comment on Broadcast says: a message goes to all clients       *)
(* subscribed to the room.  It must not end the process.                   *)
BroadcastNeverPanics == crashed # "sendOnClosed"

----------------------------------------------------------------------------
(* The inductive invariant behind the theorems of WsHubProofs.             *)

(* A connection that was not made yet has left no trace in the hub.        *)
Fresh ==
    \A c \in Client : conn[c] = "none" =>
        /\ c \notin clients /\ ~chanClosed[c]
        /\ subs[c] = {}
        /\ \A r \in Room : c \notin rooms[r]

IInv ==
    /\ TypeOK
    /\ Fresh
    /\ IndexMatchesRooms
    /\ MembersListTheirRooms
    /\ ClosedOnce
=============================================================================
