----------------------------- MODULE WsHubProofs -----------------------------
(***************************************************************************)
(* Proofs about WsHub, for any clients, organizations, apps and channels,  *)
(* any connection limit and any channel capacity.                          *)
(*                                                                         *)
(* The argument: a client of the map has its channel open and is in the    *)
(* rooms its registered object lists (MembersListTheirRooms), so whoever   *)
(* takes it out of the map is the first to close the channel.  The reverse *)
(* index follows the rooms because AddToRoom and DropFromRooms change both *)
(* alike; that is proved once, in the two lemmas on these helpers.         *)
(***************************************************************************)
EXTENDS WsHub, TLAPS

LEMMA RoomFacts ==
  /\ \A c \in Client, ch \in Channel : RoomOf(c, ch) \in Room
  /\ \A r \in Room : KeyOf(r) \in OrgKey
  BY HubAssumption DEF RoomOf, Room, KeyOf, OrgKey

LEMMA EnqueuedType ==
  ASSUME TypeOK
  PROVE  \A C : Enqueued(C) \in [Client -> 0..SendCap]
  BY HubAssumption DEF TypeOK, Enqueued

(* Joining a room keeps the index equal to the rooms with members.         *)
LEMMA AddToRoomKeepsIndex ==
  ASSUME TypeOK, IndexMatchesRooms, NEW c \in Client, NEW r \in Room,
         AddToRoom(c, r)
  PROVE  /\ rooms' \in [Room -> SUBSET Client]
         /\ orgChannels' \in [OrgKey -> SUBSET Room]
         /\ subs' \in [Client -> SUBSET Room]
         /\ IndexMatchesRooms'
         /\ \A s \in Room : rooms'[s] = IF s = r THEN rooms[s] \union {c} ELSE rooms[s]
         /\ \A d \in Client : subs'[d] = IF d = c THEN subs[d] \union {r} ELSE subs[d]
<1>1. KeyOf(r) \in OrgKey
  BY RoomFacts
<1>2. /\ rooms' \in [Room -> SUBSET Client]
      /\ \A s \in Room : rooms'[s] = IF s = r THEN rooms[s] \union {c} ELSE rooms[s]
  BY DEF TypeOK, AddToRoom
<1>3. /\ subs' \in [Client -> SUBSET Room]
      /\ \A d \in Client : subs'[d] = IF d = c THEN subs[d] \union {r} ELSE subs[d]
  BY DEF TypeOK, AddToRoom
<1>4. /\ orgChannels' \in [OrgKey -> SUBSET Room]
      /\ \A k \in OrgKey : orgChannels'[k] =
            IF k = KeyOf(r) THEN orgChannels[k] \union {r} ELSE orgChannels[k]
  BY <1>1 DEF TypeOK, AddToRoom
<1>5. \A k \in OrgKey :
        orgChannels'[k] = {s \in Room : KeyOf(s) = k /\ rooms'[s] # {}}
  BY <1>2, <1>4 DEF IndexMatchesRooms
<1> QED BY <1>2, <1>3, <1>4, <1>5 DEF IndexMatchesRooms

(* So does leaving a set of rooms.                                         *)
LEMMA DropFromRoomsKeepsIndex ==
  ASSUME TypeOK, IndexMatchesRooms, NEW c \in Client, NEW R \in SUBSET Room,
         DropFromRooms(c, R)
  PROVE  /\ rooms' \in [Room -> SUBSET Client]
         /\ orgChannels' \in [OrgKey -> SUBSET Room]
         /\ IndexMatchesRooms'
         /\ \A s \in Room : rooms'[s] = IF s \in R THEN rooms[s] \ {c} ELSE rooms[s]
<1>1. /\ rooms' \in [Room -> SUBSET Client]
      /\ \A s \in Room : rooms'[s] = IF s \in R THEN rooms[s] \ {c} ELSE rooms[s]
  BY DEF TypeOK, DropFromRooms
<1>2. /\ orgChannels' \in [OrgKey -> SUBSET Room]
      /\ \A k \in OrgKey : orgChannels'[k] =
            orgChannels[k] \ {r \in R : c \in rooms[r] /\ rooms[r] = {c}}
  BY DEF TypeOK, DropFromRooms
<1>3. \A k \in OrgKey :
        orgChannels'[k] = {s \in Room : KeyOf(s) = k /\ rooms'[s] # {}}
  BY <1>1, <1>2 DEF IndexMatchesRooms
<1> QED BY <1>1, <1>2, <1>3 DEF IndexMatchesRooms

(* Steps of the pumps, which leave the hub, the objects and the close of   *)
(* the channels alone.                                                     *)
LEMMA PumpStep ==
  ASSUME IInv, NEW c \in Client,
         \/ ConnectClosed(c) \/ Welcome(c) \/ WriteMessage(c) \/ WriterExits(c)
         \/ PeerGone(c) \/ Control(c) \/ ReaderExits(c)
  PROVE  IInv'
<1> USE HubAssumption
    DEF ConnectClosed, StartPumps, Welcome, WriteMessage, WriterExits, PeerGone,
        Control, Reading, SendToClient, ReaderExits,
        index, flags, chans, pumps
<1>1. TypeOK'
  <2>1. UNCHANGED <<clients, rooms, orgChannels, closed, subs, regClosed, sessClosed,
                    chanClosed, registered, crashed>>
    OBVIOUS
  <2>2. queued' \in [Client -> 0..SendCap]
    <3>1. \/ queued' = queued
          \/ \E C : queued' = Enqueued(C)
          \/ queued[c] > 0 /\ queued' = [queued EXCEPT ![c] = @ - 1]
      OBVIOUS
    <3> QED BY <3>1, EnqueuedType DEF IInv, TypeOK
  <2>3. /\ conn' \in [Client -> {"none", "open", "closed"}]
        /\ welcome' \in [Client -> BOOLEAN]
    BY DEF IInv, TypeOK
  <2>4. /\ writer' \in [Client -> {"off", "running", "exited"}]
        /\ reader' \in [Client -> {"off", "reading", "removing", "unregistering", "exited"}]
    <3>1. \/ UNCHANGED writer
          \/ \E v \in {"running", "exited"} : writer' = [writer EXCEPT ![c] = v]
      OBVIOUS
    <3>2. \/ UNCHANGED reader
          \/ \E v \in {"reading", "removing"} : reader' = [reader EXCEPT ![c] = v]
      OBVIOUS
    <3> HIDE DEF ConnectClosed, StartPumps, Welcome, WriteMessage, WriterExits, PeerGone,
                 Control, Reading, SendToClient, ReaderExits
    <3>3. /\ writer \in [Client -> {"off", "running", "exited"}]
          /\ reader \in [Client -> {"off", "reading", "removing", "unregistering", "exited"}]
      BY DEF IInv, TypeOK
    <3>4. writer' \in [Client -> {"off", "running", "exited"}]
      BY <3>1, <3>3
    <3>5. reader' \in [Client -> {"off", "reading", "removing", "unregistering", "exited"}]
      BY <3>2, <3>3
    <3> QED BY <3>4, <3>5
  <2> QED BY <2>1, <2>2, <2>3, <2>4 DEF IInv, TypeOK
<1>2. Fresh'
  BY DEF IInv, TypeOK, Fresh
<1>3. IndexMatchesRooms' /\ MembersListTheirRooms' /\ ClosedOnce'
  BY DEF IInv, IndexMatchesRooms, MembersListTheirRooms, ClosedOnce
<1> QED BY <1>1, <1>2, <1>3 DEF IInv

(* A new client is in its default room only, and lists it.                 *)
LEMMA ConnectRegisteredStep ==
  ASSUME IInv, NEW c \in Client, ConnectRegistered(c)
  PROVE  IInv'
<1> DEFINE r == RoomOf(c, DefaultChannel)
<1>1. TypeOK /\ IndexMatchesRooms /\ MembersListTheirRooms /\ Fresh /\ ClosedOnce
  BY DEF IInv
<1>2. r \in Room /\ AddToRoom(c, r)
  BY HubAssumption, RoomFacts DEF ConnectRegistered
<1> HIDE DEF r
<1>3. /\ rooms' \in [Room -> SUBSET Client]
      /\ orgChannels' \in [OrgKey -> SUBSET Room]
      /\ subs' \in [Client -> SUBSET Room]
      /\ IndexMatchesRooms'
      /\ \A s \in Room : rooms'[s] = IF s = r THEN rooms[s] \union {c} ELSE rooms[s]
      /\ \A d \in Client : subs'[d] = IF d = c THEN subs[d] \union {r} ELSE subs[d]
  BY <1>1, <1>2, AddToRoomKeepsIndex
<1>4. /\ conn[c] = "none" /\ conn' = [conn EXCEPT ![c] = "open"]
      /\ clients' = clients \union {c}
      /\ UNCHANGED <<chanClosed, crashed>>
  BY DEF ConnectRegistered, StartPumps, chans
<1>5. TypeOK'
  BY <1>1, <1>3 DEF TypeOK, ConnectRegistered, StartPumps, chans
<1>6. Fresh'
  BY <1>1, <1>3, <1>4 DEF Fresh, TypeOK
<1>7. MembersListTheirRooms'
  <2> SUFFICES ASSUME NEW d \in clients'
               PROVE  ~chanClosed'[d] /\ subs'[d] = {s \in Room : d \in rooms'[s]}
    BY DEF MembersListTheirRooms
  <2>1. d \in Client /\ d \in clients \union {c} /\ chanClosed' = chanClosed
    BY <1>1, <1>4 DEF TypeOK
  <2>2. CASE d = c
    <3>1. ~chanClosed[c] /\ subs[c] = {} /\ \A s \in Room : c \notin rooms[s]
      BY <1>1, <1>4 DEF Fresh
    <3>2. subs'[c] = {r} /\ \A s \in Room : c \in rooms'[s] <=> s = r
      BY <1>3, <3>1
    <3> QED BY <1>2, <2>1, <2>2, <3>1, <3>2
  <2>3. CASE d # c
    <3>1. ~chanClosed[d] /\ subs[d] = {s \in Room : d \in rooms[s]}
      BY <1>1, <2>1, <2>3 DEF MembersListTheirRooms
    <3>2. subs'[d] = subs[d] /\ \A s \in Room : d \in rooms'[s] <=> d \in rooms[s]
      BY <1>3, <2>1, <2>3
    <3> QED BY <2>1, <3>1, <3>2
  <2> QED BY <2>2, <2>3
<1> QED BY <1>1, <1>3, <1>4, <1>5, <1>6, <1>7 DEF IInv, ClosedOnce

(* Register at the limit closes a channel that no object has closed.       *)
LEMMA ConnectRefusedStep ==
  ASSUME IInv, NEW c \in Client, ConnectRefused(c)
  PROVE  IInv'
  BY DEF ConnectRefused, StartPumps, index, flags, IInv, TypeOK, Fresh,
         IndexMatchesRooms, MembersListTheirRooms, ClosedOnce

LEMMA SubscribeStep ==
  ASSUME IInv, NEW c \in Client, NEW ch \in Channel, Subscribe(c, ch)
  PROVE  IInv'
<1> DEFINE r == RoomOf(c, ch)
<1>1. TypeOK /\ IndexMatchesRooms /\ MembersListTheirRooms /\ Fresh /\ ClosedOnce
  BY DEF IInv
<1>2. /\ conn[c] = "open" /\ queued' \in [Client -> 0..SendCap]
      /\ UNCHANGED <<clients, closed, regClosed, sessClosed, chanClosed, pumps, crashed>>
  BY <1>1, HubAssumption DEF Subscribe, Reading, SendToClient, Enqueued, TypeOK
<1>3. CASE c \notin clients
  BY <1>1, <1>2, <1>3
     DEF Subscribe, IInv, TypeOK, Fresh, IndexMatchesRooms, MembersListTheirRooms,
         ClosedOnce, pumps
<1>4. CASE c \in clients
  <2>1. r \in Room /\ AddToRoom(c, r)
    BY <1>4, RoomFacts DEF Subscribe
  <2> HIDE DEF r
  <2>2. /\ rooms' \in [Room -> SUBSET Client]
        /\ orgChannels' \in [OrgKey -> SUBSET Room]
        /\ subs' \in [Client -> SUBSET Room]
        /\ IndexMatchesRooms'
        /\ \A s \in Room : rooms'[s] = IF s = r THEN rooms[s] \union {c} ELSE rooms[s]
        /\ \A d \in Client : subs'[d] = IF d = c THEN subs[d] \union {r} ELSE subs[d]
    BY <1>1, <2>1, AddToRoomKeepsIndex
  <2>3. TypeOK'
    BY <1>1, <1>2, <2>2 DEF TypeOK, pumps
  <2>4. Fresh'
    BY <1>1, <1>2, <2>2 DEF Fresh, TypeOK, pumps
  <2>5. MembersListTheirRooms'
    <3> SUFFICES ASSUME NEW d \in clients'
                 PROVE  ~chanClosed'[d] /\ subs'[d] = {s \in Room : d \in rooms'[s]}
      BY DEF MembersListTheirRooms
    <3>1. /\ d \in Client /\ chanClosed' = chanClosed
          /\ ~chanClosed[d] /\ subs[d] = {s \in Room : d \in rooms[s]}
      BY <1>1, <1>2 DEF TypeOK, MembersListTheirRooms
    <3>2. CASE d = c
      <4>1. subs'[d] = subs[d] \union {r}
        BY <2>2, <3>1, <3>2
      <4>2. \A s \in Room : d \in rooms'[s] <=> d \in rooms[s] \/ s = r
        BY <2>2, <3>2
      <4> QED BY <2>1, <3>1, <4>1, <4>2
    <3>3. CASE d # c
      <4>1. subs'[d] = subs[d] /\ \A s \in Room : d \in rooms'[s] <=> d \in rooms[s]
        BY <2>2, <3>1, <3>3
      <4> QED BY <3>1, <4>1
    <3> QED BY <3>2, <3>3
  <2> QED BY <1>1, <1>2, <2>2, <2>3, <2>4, <2>5 DEF IInv, ClosedOnce
<1> QED BY <1>3, <1>4

LEMMA UnsubscribeStep ==
  ASSUME IInv, NEW c \in Client, NEW ch \in Channel, Unsubscribe(c, ch)
  PROVE  IInv'
<1> DEFINE r == RoomOf(c, ch)
<1>1. TypeOK /\ IndexMatchesRooms /\ MembersListTheirRooms /\ Fresh /\ ClosedOnce
  BY DEF IInv
<1>2. /\ r \in Room /\ {r} \in SUBSET Room /\ DropFromRooms(c, {r})
      /\ subs' = [subs EXCEPT ![c] = @ \ {r}]
      /\ UNCHANGED <<clients, closed, regClosed, sessClosed, chans, pumps, crashed>>
  BY RoomFacts DEF Unsubscribe
<1> HIDE DEF r
<1>3. /\ rooms' \in [Room -> SUBSET Client]
      /\ orgChannels' \in [OrgKey -> SUBSET Room]
      /\ IndexMatchesRooms'
      /\ \A s \in Room : rooms'[s] = IF s \in {r} THEN rooms[s] \ {c} ELSE rooms[s]
  BY <1>1, <1>2, DropFromRoomsKeepsIndex
<1>4. TypeOK'
  BY <1>1, <1>2, <1>3 DEF TypeOK, pumps, chans
<1>5. Fresh'
  BY <1>1, <1>2, <1>3 DEF Fresh, TypeOK, pumps, chans
<1>6. MembersListTheirRooms'
  BY <1>1, <1>2, <1>3 DEF MembersListTheirRooms, TypeOK, chans
<1> QED BY <1>1, <1>2, <1>3, <1>4, <1>5, <1>6 DEF IInv, ClosedOnce

(* The read pump's removal closes an open channel: its client is in the    *)
(* map.                                                                    *)
LEMMA RemoveSessionStep ==
  ASSUME IInv, NEW c \in Client, RemoveSession(c)
  PROVE  IInv'
<1>1. TypeOK /\ IndexMatchesRooms /\ MembersListTheirRooms /\ Fresh /\ ClosedOnce
  BY DEF IInv
<1>2. /\ clients' \subseteq clients /\ c \notin clients'
      /\ UNCHANGED <<rooms, orgChannels, subs, conn>>
  BY DEF RemoveSession
<1>3. /\ crashed' = crashed /\ chanClosed' \in [Client -> BOOLEAN]
      /\ \A d \in Client : chanClosed'[d] # chanClosed[d] => d = c /\ c \in clients
  BY <1>1 DEF RemoveSession, CloseSend, MembersListTheirRooms, TypeOK
<1>4. TypeOK'
  BY <1>1, <1>2, <1>3 DEF TypeOK, RemoveSession
<1>5. Fresh'
  BY <1>1, <1>2, <1>3 DEF Fresh, TypeOK
<1>6. MembersListTheirRooms'
  BY <1>1, <1>2, <1>3 DEF MembersListTheirRooms, TypeOK
<1>7. IndexMatchesRooms' /\ ClosedOnce'
  BY <1>1, <1>2, <1>3 DEF IndexMatchesRooms, ClosedOnce
<1> QED BY <1>4, <1>5, <1>6, <1>7 DEF IInv

LEMMA UnregisterStep ==
  ASSUME IInv, NEW c \in Client, Unregister(c)
  PROVE  IInv'
<1>1. TypeOK /\ IndexMatchesRooms /\ MembersListTheirRooms /\ Fresh /\ ClosedOnce
  BY DEF IInv
<1>2. CASE ~(registered[c] /\ c \in clients)
  BY <1>1, <1>2
     DEF Unregister, index, IInv, TypeOK, Fresh, IndexMatchesRooms,
         MembersListTheirRooms, ClosedOnce
<1>3. CASE registered[c] /\ c \in clients
  <2>1. /\ subs[c] \in SUBSET Room /\ DropFromRooms(c, subs[c])
        /\ clients' = clients \ {c} /\ subs' = subs /\ conn' = conn
    BY <1>1, <1>3 DEF Unregister, TypeOK
  <2>2. /\ rooms' \in [Room -> SUBSET Client]
        /\ orgChannels' \in [OrgKey -> SUBSET Room]
        /\ IndexMatchesRooms'
        /\ \A s \in Room : rooms'[s] = IF s \in subs[c] THEN rooms[s] \ {c} ELSE rooms[s]
    BY <1>1, <2>1, DropFromRoomsKeepsIndex
  <2>3. /\ crashed' = crashed
        /\ chanClosed' = chanClosed \/ chanClosed' = [chanClosed EXCEPT ![c] = TRUE]
    BY <1>1, <1>3 DEF Unregister, CloseSend, MembersListTheirRooms
  <2>4. TypeOK'
    BY <1>1, <1>3, <2>2, <2>3 DEF TypeOK, Unregister
  <2>5. conn[c] # "none"
    BY <1>1, <1>3 DEF Fresh
  <2>6. Fresh'
    BY <1>1, <2>1, <2>2, <2>3, <2>5 DEF Fresh, TypeOK
  <2>7. MembersListTheirRooms'
    BY <1>1, <2>1, <2>2, <2>3 DEF MembersListTheirRooms, TypeOK
  <2> QED BY <1>1, <2>2, <2>3, <2>4, <2>6, <2>7 DEF IInv, ClosedOnce
<1> QED BY <1>2, <1>3

(* A broadcast changes queues only, or ends the process by the other panic.*)
LEMMA BridgeStep ==
  ASSUME IInv, Bridge
  PROVE  IInv'
<1>1. PICK C \in SUBSET Client : Send(C)
  <2>1. CASE \E r \in Room : Broadcast(r)
    <3>1. PICK r \in Room : Send(rooms[r])
      BY <2>1 DEF Broadcast
    <3>2. rooms[r] \in SUBSET Client
      BY DEF IInv, TypeOK
    <3> QED BY <3>1, <3>2
  <2>2. CASE \E o \in Org, ch \in Channel : BroadcastToOrganization(o, ch)
    <3>1. PICK k \in OrgKey : Send(UNION {rooms[r] : r \in orgChannels[k]})
      BY <2>2 DEF BroadcastToOrganization, OrgKey
    <3>2. UNION {rooms[r] : r \in orgChannels[k]} \in SUBSET Client
      BY DEF IInv, TypeOK
    <3> QED BY <3>1, <3>2
  <2> QED BY <2>1, <2>2 DEF Bridge
<1>2. UNCHANGED <<index, closed, flags, chanClosed, pumps>>
  BY DEF Bridge, Broadcast, BroadcastToOrganization
<1>3. queued' \in [Client -> 0..SendCap] /\ crashed' \in {crashed, "sendOnClosed"}
  BY <1>1, HubAssumption DEF Send, Enqueued, IInv, TypeOK
<1> QED BY <1>2, <1>3
     DEF IInv, TypeOK, Fresh, IndexMatchesRooms, MembersListTheirRooms, ClosedOnce,
         index, flags, pumps

(* Close empties both maps together, and closes channels that are open.    *)
LEMMA CloseStep ==
  ASSUME IInv, Close
  PROVE  IInv'
<1> USE DEF Close, pumps
<1>1. TypeOK'
  BY DEF IInv, TypeOK
<1>2. Fresh'
  BY DEF IInv, TypeOK, Fresh
<1>3. IndexMatchesRooms' /\ MembersListTheirRooms' /\ ClosedOnce'
  BY DEF IInv, TypeOK, IndexMatchesRooms, MembersListTheirRooms, ClosedOnce
<1> QED BY <1>1, <1>2, <1>3 DEF IInv

LEMMA InitInv == Init => IInv
<1> SUFFICES ASSUME Init
             PROVE  IInv
  OBVIOUS
<1> USE DEF Init
<1>1. TypeOK
  <2>1. /\ rooms \in [Room -> SUBSET Client] /\ orgChannels \in [OrgKey -> SUBSET Room]
        /\ subs \in [Client -> SUBSET Room]
    OBVIOUS
  <2>2. queued \in [Client -> 0..SendCap]
    BY HubAssumption
  <2> QED BY <2>1, <2>2 DEF TypeOK
<1>2. Fresh /\ MembersListTheirRooms /\ ClosedOnce
  BY DEF Fresh, MembersListTheirRooms, ClosedOnce
<1>3. IndexMatchesRooms
  BY DEF IndexMatchesRooms
<1> QED BY <1>1, <1>2, <1>3 DEF IInv

LEMMA StepInv == IInv /\ [Next]_vars => IInv'
<1> SUFFICES ASSUME IInv, [Next]_vars
             PROVE  IInv'
  OBVIOUS
<1>1. ASSUME NEW c \in Client, Connection(c)
      PROVE  IInv'
  BY <1>1, PumpStep, ConnectRegisteredStep, ConnectRefusedStep, SubscribeStep,
     UnsubscribeStep, RemoveSessionStep, UnregisterStep DEF Connection
<1>2. CASE Bridge
  BY <1>2, BridgeStep
<1>3. CASE Close
  BY <1>3, CloseStep
<1>4. CASE UNCHANGED vars
  BY <1>4
     DEF IInv, TypeOK, Fresh, IndexMatchesRooms, MembersListTheirRooms, ClosedOnce,
         vars, index, flags, chans, pumps
<1> QED BY <1>1, <1>2, <1>3, <1>4 DEF Next

(* IInv holds in every reachable state.                                    *)
THEOREM Invariance == Spec => []IInv
  BY InitInv, StepInv, PTL DEF Spec

(* The maps, flags and goroutines keep their types.                        *)
THEOREM TypeCorrect == Spec => []TypeOK
<1>1. IInv => TypeOK
  BY DEF IInv
<1> QED BY <1>1, Invariance, PTL

(* The reverse index BroadcastToOrganization reads is never out of step    *)
(* with the rooms, even after disconnects that leave members behind.       *)
THEOREM IndexCorrect == Spec => []IndexMatchesRooms
<1>1. IInv => IndexMatchesRooms
  BY DEF IInv
<1> QED BY <1>1, Invariance, PTL

(* No send channel is closed twice, though two objects may close it.       *)
THEOREM NoDoubleClose == Spec => []ClosedOnce
<1>1. IInv => ClosedOnce
  BY DEF IInv
<1> QED BY <1>1, Invariance, PTL

(* A client of the map is reachable: its channel is open, and it is in     *)
(* exactly the rooms it joined and did not leave.                          *)
THEOREM MembersCorrect == Spec => []MembersListTheirRooms
<1>1. IInv => MembersListTheirRooms
  BY DEF IInv
<1> QED BY <1>1, Invariance, PTL
=============================================================================
