------------------------- MODULE ServerSlotsProofs -------------------------
(***************************************************************************)
(* However many slots and clients there are, through restarts of the server *)
(* too: the players of the game are the clients that are connected and have *)
(* not left; a connecting client hears its verdict and nothing else; news   *)
(* that are on their way are true; no player's slot is closed untold.       *)
(***************************************************************************)
EXTENDS ServerSlots, TLAPS

(* Stop closes the slots it has visited.                                    *)
ClosedBehind == stopping => \A i \in Slots : i < turn => ~IsConnected(i)

(* A server that does not run is out of its loop and has no connection.     *)
RestIsClosed == ~m_Running => turn = 0 /\ ~stopping /\ \A i \in Slots : ~IsConnected(i)

(* Stop asks the slots it visits, and is done with each before the next.    *)
AbortInVisit == aborting => stopping /\ turn \in Slots

Holds(queue, event) == \E k \in DOMAIN queue : queue[k] = event

Asks(queue) == Holds(queue, "DisconnectionRequest")

(* Only Stop asks a slot to disconnect: in Idle the answer to it leaves the *)
(* player at the table.                                                     *)
NoRequest == ~stopping => \A i \in Slots : IsConnected(i) => ~Asks(m_EventQueue[i])

(* TableIsIdle is not inductive: a start and the end of a stop empty the    *)
(* table, which is right because every slot is closed then; and the answer  *)
(* to a DisconnectionRequest does not drop the player.                      *)
Inv == TypeOK /\ TableIsIdle /\ ClosedBehind /\ RestIsClosed /\ AbortInVisit /\ NoRequest

----------------------------------------------------------------------------
(* Types.                                                                   *)
LEMMA InitType == Init => TypeOK
<1> SUFFICES ASSUME Init PROVE TypeOK
  OBVIOUS
<1> USE SlotsAssumption DEF Init
<1>1. m_Running \in BOOLEAN /\ aborting \in BOOLEAN /\ stopping \in BOOLEAN
  OBVIOUS
<1>5. backlog \in Seq(Clients)
  OBVIOUS
<1>4. m_ClientsCount \in Nat /\ turn \in 0 .. MAX_CLIENTS + 1 /\ starts \in Nat
  OBVIOUS
<1>2. /\ m_Socket \in [Slots -> Clients \cup {NoClient}]
      /\ m_CurrentState \in [Slots -> {"ConnectionRequest", "WaitingName", "Idle", "Disconnected"}]
      /\ m_StopFlag \in [Slots -> BOOLEAN]
      /\ m_EventQueue \in [Slots -> Seq(ServerEvents)]
      /\ m_ClientName \in [Slots -> [Broadcasts -> Clients \cup {NoClient}]]
      /\ players \in SUBSET Slots
  OBVIOUS
<1>3. /\ state \in [Clients -> {"Out", "Connecting", "Idle", "Disconnected"}]
      /\ open \in [Clients -> BOOLEAN]
      /\ toServer \in [Clients -> Seq(ClientPackets)]
      /\ toClient \in [Clients -> Seq(ServerPackets)]
  OBVIOUS
<1> QED BY <1>1, <1>2, <1>3, <1>4, <1>5 DEF TypeOK

(* The parts of the type, by what changes together.                         *)
LoopType == /\ m_Running \in BOOLEAN /\ m_ClientsCount \in Nat
            /\ turn \in 0 .. MAX_CLIENTS + 1 /\ aborting \in BOOLEAN /\ stopping \in BOOLEAN
            /\ starts \in Nat /\ backlog \in Seq(Clients)

SlotType == /\ m_Socket \in [Slots -> Clients \cup {NoClient}]
            /\ m_CurrentState \in [Slots -> {"ConnectionRequest", "WaitingName", "Idle", "Disconnected"}]
            /\ m_StopFlag \in [Slots -> BOOLEAN]
            /\ m_EventQueue \in [Slots -> Seq(ServerEvents)]
            /\ m_ClientName \in [Slots -> [Broadcasts -> Clients \cup {NoClient}]]
            /\ players \in SUBSET Slots

ClientType == /\ state \in [Clients -> {"Out", "Connecting", "Idle", "Disconnected"}]
              /\ open \in [Clients -> BOOLEAN]
              /\ toServer \in [Clients -> Seq(ClientPackets)]
              /\ toClient \in [Clients -> Seq(ServerPackets)]

LEMMA TypeParts == TypeOK <=> LoopType /\ SlotType /\ ClientType
BY DEF TypeOK, LoopType, SlotType, ClientType

LEMMA SameSlots == SlotType /\ UNCHANGED slotVars => SlotType'
BY DEF SlotType, slotVars

LEMMA SameClients == ClientType /\ UNCHANGED << clientVars, toServer, toClient >> => ClientType'
BY DEF ClientType, clientVars

LEMMA NextTurnType == ASSUME LoopType, turn \in Slots PROVE NextTurn \in 0 .. MAX_CLIENTS + 1
BY SlotsAssumption DEF NextTurn, LoopType, Slots

LEMMA LoopTypes ==
    ASSUME TypeOK, Start \/ BeginUpdate \/ BeginStop \/ EndStop
    PROVE  TypeOK'
<1>1. LoopType'
  <2> USE SlotsAssumption, TypeParts DEF LoopType
  <2>1. CASE Start
    BY <2>1 DEF Start
  <2>2. CASE BeginUpdate
    BY <2>2 DEF BeginUpdate
  <2>3. CASE BeginStop
    BY <2>3 DEF BeginStop
  <2>4. CASE EndStop
    <3>1. backlog' = << >> /\ m_Running' = FALSE /\ stopping' = FALSE /\ turn' = 0
      BY <2>4 DEF EndStop
    <3>2. UNCHANGED << m_ClientsCount, aborting, starts >>
      BY <2>4 DEF EndStop
    <3>3. m_ClientsCount' \in Nat /\ aborting' \in BOOLEAN /\ starts' \in Nat
      BY <3>2
    <3>4. backlog' \in Seq(Clients)
      BY <3>1
    <3>5. turn' \in 0 .. MAX_CLIENTS + 1
      BY <3>1, SlotsAssumption
    <3>6. m_Running' \in BOOLEAN /\ stopping' \in BOOLEAN
      BY <3>1, Zenon
    <3> QED BY <3>3, <3>4, <3>5, <3>6
  <2> QED BY <2>1, <2>2, <2>3, <2>4
<1>2. SlotType'
  BY TypeParts DEF SlotType, slotVars, Start, BeginUpdate, BeginStop, EndStop
<1>3. ClientType'
  BY TypeParts, SameClients DEF Start, BeginUpdate, BeginStop, EndStop
<1> QED BY <1>1, <1>2, <1>3, TypeParts DEF TypeOK, LoopType, SlotType, ClientType

LEMMA CheckConnectionType ==
    ASSUME TypeOK, NEW slot \in Slots, CheckConnection(slot)
    PROVE  TypeOK'
<1>1. turn \in Slots
  BY DEF CheckConnection, Visits
<1>2. LoopType /\ SlotType
  BY TypeParts
<1>3. ASSUME stopping \/ backlog = << >> PROVE LoopType' /\ SlotType'
  <2>1. LoopType'
    BY <1>1, <1>2, <1>3, NextTurnType DEF LoopType, CheckConnection
  <2>2. SlotType'
    BY <1>2, <1>3, SameSlots DEF CheckConnection
  <2> QED BY <2>1, <2>2
<1>5. ASSUME ~(stopping \/ backlog = << >>) PROVE LoopType' /\ SlotType'
  <2>1. Head(backlog) \in Clients /\ Tail(backlog) \in Seq(Clients)
    BY <1>2, <1>5 DEF LoopType
  <2>2. LoopType'
    BY <1>1, <1>2, <1>5, <2>1, NextTurnType DEF LoopType, CheckConnection
  <2>3. << "WaitingName" >> \in Seq(ServerEvents)
    BY DEF ServerEvents
  <2>4. SlotType'
    BY <1>2, <1>5, <2>1, <2>3 DEF SlotType, CheckConnection
  <2> QED BY <2>2, <2>4
<1>4. ClientType'
  BY TypeParts, SameClients DEF CheckConnection
<1> QED BY <1>3, <1>4, <1>5, TypeParts DEF TypeOK, LoopType, SlotType, ClientType

LEMMA FreeSlotType ==
    ASSUME TypeOK, NEW slot \in Slots, FreeSlot(slot)
    PROVE  TypeOK'
<1>1. LoopType'
  BY TypeParts DEF LoopType, FreeSlot, Count
<1>2. SlotType'
  BY TypeParts DEF SlotType, FreeSlot, Close
<1>3. ClientType'
  BY TypeParts, SameClients DEF FreeSlot
<1> QED BY <1>1, <1>2, <1>3, TypeParts DEF TypeOK, LoopType, SlotType, ClientType

LEMMA AbortType ==
    ASSUME TypeOK, NEW slot \in Slots, Abort(slot)
    PROVE  TypeOK'
<1>1. LoopType'
  BY TypeParts DEF LoopType, Abort
<1>2. SlotType'
  BY TypeParts DEF SlotType, Abort, ServerEvents
<1>3. ClientType'
  BY TypeParts, SameClients DEF Abort
<1> QED BY <1>1, <1>2, <1>3, TypeParts DEF TypeOK, LoopType, SlotType, ClientType

LEMMA SendToType ==
    ASSUME TypeOK, NEW slot \in Slots, NEW packet \in ServerPackets, SendTo(slot, packet)
    PROVE  toClient' \in [Clients -> Seq(ServerPackets)]
<1>1. \A c \in Clients : Append(toClient[c], packet) \in Seq(ServerPackets)
  BY DEF TypeOK
<1> QED BY <1>1 DEF SendTo, TypeOK

LEMMA BroadcastType ==
    ASSUME TypeOK, NEW queues \in [Slots -> Seq(ServerEvents)], NEW kind \in Broadcasts,
           NEW name \in Clients \cup {NoClient}, Broadcast(queues, kind, name)
    PROVE  /\ m_EventQueue' \in [Slots -> Seq(ServerEvents)]
           /\ m_ClientName' \in [Slots -> [Broadcasts -> Clients \cup {NoClient}]]
<1>1. kind \in ServerEvents
  BY DEF ServerEvents
<1>2. \A j \in Slots : Append(queues[j], kind) \in Seq(ServerEvents)
  BY <1>1
<1>3. \A j \in Slots : [m_ClientName[j] EXCEPT ![kind] = name] \in [Broadcasts -> Clients \cup {NoClient}]
  BY DEF TypeOK
<1> QED BY <1>2, <1>3 DEF Broadcast, TypeOK

LEMMA PoppedType ==
    ASSUME TypeOK, NEW slot \in Slots, m_EventQueue[slot] # << >>
    PROVE  Popped(slot) \in [Slots -> Seq(ServerEvents)]
BY DEF TypeOK, Popped

LEMMA HandleEventType ==
    ASSUME TypeOK, NEW slot \in Slots, HandleEvent(slot)
    PROVE  TypeOK'
<1>1. m_EventQueue[slot] # << >> /\ Popped(slot) \in [Slots -> Seq(ServerEvents)]
  BY PoppedType DEF HandleEvent
<1>2. /\ UNCHANGED << loopVars, m_Socket, clientVars, backlog, toServer >>
      /\ LoopType /\ SlotType /\ ClientType
  BY TypeParts DEF HandleEvent
<1>3. LoopType'
  BY <1>2 DEF LoopType, loopVars
<1>4. SUFFICES /\ m_CurrentState' \in [Slots -> {"ConnectionRequest", "WaitingName", "Idle", "Disconnected"}]
               /\ m_StopFlag' \in [Slots -> BOOLEAN]
               /\ m_EventQueue' \in [Slots -> Seq(ServerEvents)]
               /\ m_ClientName' \in [Slots -> [Broadcasts -> Clients \cup {NoClient}]]
               /\ players' \in SUBSET Slots
               /\ toClient' \in [Clients -> Seq(ServerPackets)]
  <2>1. SlotType' /\ ClientType'
    BY <1>2, <1>4 DEF SlotType, ClientType, clientVars
  <2> QED BY <1>3, <2>1 DEF TypeOK, LoopType, SlotType, ClientType
<1>5. CASE AcceptConnection(slot)
  <2>1. \A type \in {"ConnectionAccepted", "ConnectionDeniedLobbyFull"} :
            Packet(type, NoClient) \in ServerPackets
    BY DEF Packet, ServerPackets
  <2>2. toClient' \in [Clients -> Seq(ServerPackets)]
    BY <1>5, <2>1, SendToType DEF AcceptConnection
  <2> QED BY <1>1, <1>2, <1>5, <2>2 DEF AcceptConnection, Transition, SlotType
<1>6. CASE NotifyClientConnected(slot)
  <2>1. m_Socket[slot] \in Clients \cup {NoClient} /\ "ClientConnected" \in Broadcasts
    BY <1>2 DEF SlotType, Broadcasts
  <2>2. /\ m_EventQueue' \in [Slots -> Seq(ServerEvents)]
        /\ m_ClientName' \in [Slots -> [Broadcasts -> Clients \cup {NoClient}]]
    BY <1>1, <1>6, <2>1, BroadcastType DEF NotifyClientConnected
  <2> QED BY <1>2, <1>6, <2>2 DEF NotifyClientConnected, Transition, SlotType, ClientType
<1>7. CASE SendBroadcast(slot)
  <2> PICK kind \in Broadcasts :
         /\ Transition(slot, "Idle", kind, "Idle")
         /\ SendTo(slot, Packet(kind, m_ClientName[slot][kind]))
         /\ m_EventQueue' = Popped(slot)
         /\ UNCHANGED << m_StopFlag, m_ClientName, players >>
    BY <1>7 DEF SendBroadcast
  <2>1. Packet(kind, m_ClientName[slot][kind]) \in ServerPackets
    BY <1>2 DEF Packet, ServerPackets, SlotType
  <2>2. toClient' \in [Clients -> Seq(ServerPackets)]
    BY <2>1, SendToType
  <2> QED BY <1>1, <1>2, <2>2 DEF Transition, SlotType
<1>8. CASE Disconnect(slot)
  <2>1. Packet("ServerShuttingDown", NoClient) \in ServerPackets
    BY DEF Packet, ServerPackets
  <2>2. toClient' \in [Clients -> Seq(ServerPackets)]
    BY <1>8, <2>1, SendToType DEF Disconnect
  <2> QED BY <1>1, <1>2, <1>8, <2>2 DEF Disconnect, Transition, SlotType
<1>9. CASE /\ m_EventQueue' = Popped(slot)
           /\ UNCHANGED << m_CurrentState, m_StopFlag, m_ClientName, players, toClient >>
  BY <1>1, <1>2, <1>9 DEF SlotType, ClientType
<1> QED BY <1>5, <1>6, <1>7, <1>8, <1>9 DEF HandleEvent

LEMMA UpdateStateType ==
    ASSUME TypeOK, NEW slot \in Slots, UpdateState(slot)
    PROVE  TypeOK'
<1>1. LoopType /\ SlotType /\ ClientType /\ turn \in Slots
  BY TypeParts DEF UpdateState, InMachine
<1>2. LoopType'
  <2>1. turn' \in 0 .. MAX_CLIENTS + 1
    BY <1>1, NextTurnType DEF UpdateState
  <2>2. m_ClientsCount' \in Nat
    BY <1>1 DEF LoopType, UpdateState, Count
  <2>3. aborting' = FALSE /\ UNCHANGED << m_Running, stopping, starts, backlog >>
    BY DEF UpdateState
  <2> QED BY <1>1, <2>1, <2>2, <2>3 DEF LoopType
<1>3. m_Socket' \in [Slots -> Clients \cup {NoClient}]
  BY <1>1 DEF UpdateState, Close, SlotType
<1>4. /\ m_EventQueue' \in [Slots -> Seq(ServerEvents)]
      /\ m_StopFlag' \in [Slots -> BOOLEAN]
      /\ m_ClientName' \in [Slots -> [Broadcasts -> Clients \cup {NoClient}]]
      /\ players' \in SUBSET Slots
  <2>1. CASE ReceiveName(slot)
    <3>1. Append(m_EventQueue[slot], "NameReceived") \in Seq(ServerEvents)
      BY <1>1 DEF SlotType, ServerEvents
    <3> QED BY <1>1, <2>1, <3>1 DEF ReceiveName, SlotType
  <2>2. CASE ReceiveLeave(slot)
    <3>1. m_Socket[slot] \in Clients \cup {NoClient} /\ "ClientDisconnected" \in Broadcasts
      BY <1>1 DEF SlotType, Broadcasts
    <3> QED BY <1>1, <2>2, <3>1, BroadcastType DEF ReceiveLeave, SlotType
  <2>3. CASE UNCHANGED << m_EventQueue, m_StopFlag, m_ClientName, players, toServer >>
    BY <1>1, <2>3 DEF SlotType
  <2> QED BY <2>1, <2>2, <2>3 DEF UpdateState
<1>5. SlotType'
  BY <1>1, <1>3, <1>4 DEF SlotType, UpdateState
<1>6. ClientType'
  <2>1. toServer' \in [Clients -> Seq(ClientPackets)]
    <3>1. CASE toServer' = toServer
      BY <1>1, <3>1 DEF ClientType
    <3>2. CASE /\ toServer[m_Socket[slot]] # << >>
               /\ toServer' = [toServer EXCEPT ![m_Socket[slot]] = Tail(@)]
      <4>1. m_Socket[slot] \in Clients
        BY <1>1 DEF SlotType, UpdateState, InMachine, IsConnected
      <4>2. Tail(toServer[m_Socket[slot]]) \in Seq(ClientPackets)
        BY <1>1, <3>2, <4>1 DEF ClientType
      <4> QED BY <1>1, <3>2, <4>2 DEF ClientType
    <3> QED BY <3>1, <3>2 DEF UpdateState
  <2> QED BY <1>1, <2>1 DEF UpdateState, ClientType, clientVars
<1> QED BY <1>2, <1>5, <1>6 DEF TypeOK, LoopType, SlotType, ClientType

LEMMA LeaveType ==
    ASSUME TypeOK, NEW c \in Clients, Leave(c)
    PROVE  ClientType'
<1>1. Append(toServer[c], "ClientLeave") \in Seq(ClientPackets)
  BY DEF TypeOK, ClientPackets
<1> QED BY <1>1 DEF Leave, Send, CloseSocket, TypeOK, ClientType

LEMMA HearType ==
    ASSUME TypeOK, NEW c \in Clients, Hear(c)
    PROVE  TypeOK'
<1>1. LoopType' /\ SlotType'
  BY TypeParts, SameSlots DEF LoopType, loopVars, Hear
<1>2. ClientType /\ toClient[c] # << >>
  BY TypeParts DEF Hear
<1>3. Tail(toClient[c]) \in Seq(ServerPackets)
  BY <1>2 DEF ClientType
<1> DEFINE type == Head(toClient[c]).type
<1>4. CASE HearVerdict(c, type)
  <2>1. Append(toServer[c], "ClientName") \in Seq(ClientPackets)
    BY <1>2 DEF ClientType, ClientPackets
  <2>2. ClientType'
    BY <1>2, <1>3, <1>4, <2>1, LeaveType DEF HearVerdict, Send, ClientType
  <2> QED BY <1>1, <2>2 DEF TypeOK, LoopType, SlotType, ClientType
<1>5. CASE state[c] = "Idle" /\ type = "ServerShuttingDown" /\ Leave(c)
  BY <1>1, <1>5, LeaveType DEF TypeOK, LoopType, SlotType, ClientType
<1>6. CASE HearOther(c, type)
  <2>1. ClientType'
    BY <1>2, <1>3, <1>6 DEF HearOther, ClientType
  <2> QED BY <1>1, <2>1 DEF TypeOK, LoopType, SlotType, ClientType
<1> QED BY <1>4, <1>5, <1>6 DEF Hear

LEMMA ClientActionType ==
    ASSUME TypeOK, NEW c \in Clients, Connect(c) \/ ClientDisconnects(c) \/ Vanish(c)
    PROVE  TypeOK'
<1>1. SlotType'
  BY TypeParts, SameSlots DEF Connect, ClientDisconnects, Vanish
<1>2. LoopType'
  <2>1. LoopType /\ Append(backlog, c) \in Seq(Clients)
    BY TypeParts DEF LoopType
  <2> QED BY <2>1 DEF LoopType, loopVars, Connect, ClientDisconnects, Vanish
<1>3. ClientType'
  <2>1. ClientType /\ << >> \in Seq(ServerPackets)
    BY TypeParts
  <2>2. CASE Connect(c)
    BY <2>1, <2>2 DEF Connect, ClientType
  <2>3. CASE ClientDisconnects(c)
    BY <2>3, LeaveType DEF ClientDisconnects
  <2>4. CASE Vanish(c)
    BY <2>1, <2>4 DEF Vanish, CloseSocket, ClientType
  <2> QED BY <2>2, <2>3, <2>4
<1> QED BY <1>1, <1>2, <1>3, TypeParts DEF TypeOK, LoopType, SlotType, ClientType

LEMMA NextType == ASSUME TypeOK, Next PROVE TypeOK'
BY LoopTypes, CheckConnectionType, FreeSlotType, AbortType, HandleEventType, UpdateStateType,
   HearType, ClientActionType DEF Next, ServerUpdates, SlotStep

LEMMA StutterType == ASSUME TypeOK, UNCHANGED vars PROVE TypeOK'
BY DEF TypeOK, vars, loopVars, slotVars, clientVars

(* Every state of the server and its clients is a state of the declared     *)
(* types: what is queued, sent or kept is one of the events, packets and    *)
(* clients there are.                                                       *)
THEOREM TypeCorrect == Spec => []TypeOK
<1>1. Init => TypeOK
  BY InitType
<1>2. TypeOK /\ [Next]_vars => TypeOK'
  BY NextType, StutterType
<1> QED BY <1>1, <1>2, PTL DEF Spec

----------------------------------------------------------------------------
(* The table.                                                               *)
LEMMA AppendHolds ==
    ASSUME NEW S, NEW queue \in Seq(S), NEW event, NEW other
    PROVE  Holds(Append(queue, event), other) <=> Holds(queue, other) \/ event = other
<1>1. /\ DOMAIN Append(queue, event) = DOMAIN queue \cup {Len(queue) + 1}
      /\ Append(queue, event)[Len(queue) + 1] = event
      /\ \A k \in DOMAIN queue : Append(queue, event)[k] = queue[k]
  OBVIOUS
<1> QED BY <1>1 DEF Holds

LEMMA TailHolds ==
    ASSUME NEW S, NEW queue \in Seq(S), queue # << >>, NEW event
    PROVE  Holds(queue, event) <=> Head(queue) = event \/ Holds(Tail(queue), event)
<1>1. ASSUME NEW k \in DOMAIN queue, queue[k] = event PROVE Head(queue) = event \/ Holds(Tail(queue), event)
  <2>1. CASE k = 1
    BY <1>1, <2>1
  <2>2. CASE k # 1
    <3>1. k - 1 \in DOMAIN Tail(queue) /\ Tail(queue)[k - 1] = queue[k]
      BY <2>2
    <3> QED BY <1>1, <3>1 DEF Holds
  <2> QED BY <2>1, <2>2
<1>2. ASSUME NEW k \in DOMAIN Tail(queue), Tail(queue)[k] = event PROVE Holds(queue, event)
  <2>1. k + 1 \in DOMAIN queue /\ Tail(queue)[k] = queue[k + 1]
    OBVIOUS
  <2> QED BY <1>2, <2>1 DEF Holds
<1>3. Head(queue) = event => Holds(queue, event)
  <2>1. 1 \in DOMAIN queue /\ Head(queue) = queue[1]
    OBVIOUS
  <2> QED BY <2>1 DEF Holds
<1> QED BY <1>1, <1>2, <1>3 DEF Holds

LEMMA AppendAsks ==
    ASSUME NEW queue \in Seq(ServerEvents), NEW event, event # "DisconnectionRequest", ~Asks(queue)
    PROVE  ~Asks(Append(queue, event))
BY AppendHolds DEF Asks

LEMMA TailAsks ==
    ASSUME NEW queue \in Seq(ServerEvents), queue # << >>, ~Asks(queue)
    PROVE  ~Asks(Tail(queue)) /\ Head(queue) # "DisconnectionRequest"
BY TailHolds DEF Asks

LEMMA BroadcastAsks ==
    ASSUME NEW queues \in [Slots -> Seq(ServerEvents)], NEW kind \in Broadcasts, NEW name,
           Broadcast(queues, kind, name), \A i \in Slots : IsConnected(i) => ~Asks(queues[i])
    PROVE  \A i \in Slots : IsConnected(i) => ~Asks(m_EventQueue'[i])
<1> SUFFICES ASSUME NEW i \in Slots, IsConnected(i) PROVE ~Asks(m_EventQueue'[i])
  OBVIOUS
<1>1. m_EventQueue'[i] = Append(queues[i], kind)
  BY DEF Broadcast
<1>2. kind # "DisconnectionRequest" /\ queues[i] \in Seq(ServerEvents)
  BY DEF Broadcasts
<1> QED BY <1>1, <1>2, AppendAsks

LEMMA InitInv == Init => Inv
<1> SUFFICES ASSUME Init PROVE Inv
  OBVIOUS
<1>1. TypeOK
  BY InitType
<1> QED BY <1>1 DEF Inv, Init, TableIsIdle, Idlers, ClosedBehind, RestIsClosed, AbortInVisit,
                    NoRequest, IsConnected

LEMMA StartInv == ASSUME Inv, Start PROVE Inv'
<1>1. TypeOK'
  BY LoopTypes DEF Inv
<1>2. ~stopping /\ \A i \in Slots : ~IsConnected(i)
  BY DEF Inv, RestIsClosed, Start
<1>3. TableIsIdle' /\ ClosedBehind' /\ RestIsClosed' /\ NoRequest'
  BY <1>2 DEF Start, TableIsIdle, Idlers, ClosedBehind, RestIsClosed, NoRequest, IsConnected
<1>4. AbortInVisit'
  BY DEF Inv, AbortInVisit, Start
<1> QED BY <1>1, <1>3, <1>4 DEF Inv

LEMMA BeginUpdateInv == ASSUME Inv, BeginUpdate PROVE Inv'
<1>1. TypeOK'
  BY LoopTypes DEF Inv
<1>2. /\ UNCHANGED << m_Running, aborting, stopping, slotVars >>
      /\ m_Running /\ turn = 0 /\ turn' = 1
  BY DEF BeginUpdate
<1>3. TableIsIdle' /\ NoRequest'
  BY <1>2 DEF Inv, TableIsIdle, Idlers, NoRequest, IsConnected, slotVars
<1>4. RestIsClosed' /\ AbortInVisit' /\ ClosedBehind'
  BY <1>2 DEF Inv, RestIsClosed, AbortInVisit, ClosedBehind, Slots
<1> QED BY <1>1, <1>3, <1>4 DEF Inv

LEMMA BeginStopInv == ASSUME Inv, BeginStop PROVE Inv'
<1>1. TypeOK'
  BY LoopTypes DEF Inv
<1>2. /\ UNCHANGED << m_Running, aborting, slotVars >>
      /\ m_Running /\ turn = 0 /\ turn' = 1 /\ stopping' = TRUE
  BY DEF BeginStop
<1>3. TableIsIdle' /\ NoRequest'
  BY <1>2 DEF Inv, TableIsIdle, Idlers, NoRequest, IsConnected, slotVars
<1>4. RestIsClosed' /\ AbortInVisit' /\ ClosedBehind'
  BY <1>2 DEF Inv, RestIsClosed, AbortInVisit, ClosedBehind, Slots
<1> QED BY <1>1, <1>3, <1>4 DEF Inv

LEMMA EndStopInv == ASSUME Inv, EndStop PROVE Inv'
<1>1. TypeOK'
  BY LoopTypes DEF Inv
<1>2. \A i \in Slots : ~IsConnected(i)
  BY SlotsAssumption DEF Inv, ClosedBehind, EndStop, Slots
<1>3. TableIsIdle' /\ RestIsClosed' /\ ClosedBehind' /\ NoRequest'
  BY <1>2 DEF EndStop, TableIsIdle, Idlers, RestIsClosed, ClosedBehind, NoRequest, IsConnected
<1>4. ~aborting
  BY SlotsAssumption DEF Inv, AbortInVisit, EndStop, Slots
<1>5. AbortInVisit'
  BY <1>4 DEF AbortInVisit, EndStop
<1> QED BY <1>1, <1>3, <1>5 DEF Inv

(* In the loop the server runs, and Stop goes one slot further.             *)
LEMMA VisitMoves ==
    ASSUME Inv, turn \in Slots
    PROVE  m_Running /\ (stopping => NextTurn = turn + 1 /\ turn \in Int)
BY DEF Inv, RestIsClosed, NextTurn, Slots

LEMMA CheckConnectionInv ==
    ASSUME Inv, NEW slot \in Slots, CheckConnection(slot)
    PROVE  Inv'
<1>1. TypeOK'
  BY CheckConnectionType DEF Inv
<1>2. /\ turn = slot /\ ~aborting /\ ~IsConnected(slot) /\ turn' = NextTurn /\ m_Running
      /\ UNCHANGED << m_Running, aborting, stopping >>
  BY VisitMoves DEF CheckConnection, Visits
<1>3. RestIsClosed' /\ AbortInVisit'
  BY <1>2 DEF RestIsClosed, AbortInVisit
<1>4. CASE UNCHANGED slotVars
  <2>1. TableIsIdle' /\ NoRequest'
    BY <1>2, <1>4 DEF Inv, TableIsIdle, Idlers, NoRequest, IsConnected, slotVars
  <2>2. ClosedBehind'
    BY <1>2, <1>4, VisitMoves DEF Inv, ClosedBehind, IsConnected, slotVars, Slots
  <2> QED BY <1>1, <1>3, <2>1, <2>2 DEF Inv
<1>5. CASE ~stopping /\ ~UNCHANGED slotVars
  <2>1. /\ m_Socket' = [m_Socket EXCEPT ![slot] = Head(backlog)]
        /\ m_CurrentState' = [m_CurrentState EXCEPT ![slot] = "ConnectionRequest"]
        /\ m_StopFlag' = [m_StopFlag EXCEPT ![slot] = FALSE]
        /\ m_EventQueue' = [m_EventQueue EXCEPT ![slot] = << "WaitingName" >>]
        /\ UNCHANGED << m_ClientName, players >>
    BY <1>5 DEF CheckConnection
  <2>2. Idlers' = Idlers
    BY <1>2, <2>1 DEF Idlers, IsConnected, Inv, TypeOK
  <2>3. TableIsIdle'
    BY <1>2, <1>5, <2>1, <2>2 DEF Inv, TableIsIdle
  <2>4. NoRequest'
    BY <1>5, <2>1 DEF Inv, NoRequest, IsConnected, Asks, Holds, TypeOK
  <2> QED BY <1>1, <1>2, <1>3, <1>5, <2>3, <2>4 DEF Inv, ClosedBehind
<1> QED BY <1>4, <1>5 DEF CheckConnection

LEMMA FreeSlotInv ==
    ASSUME Inv, NEW slot \in Slots, FreeSlot(slot)
    PROVE  Inv'
<1>1. TypeOK'
  BY FreeSlotType DEF Inv
<1>2. /\ UNCHANGED << m_Running, turn, aborting, stopping, m_CurrentState, m_StopFlag, m_EventQueue, players >>
      /\ m_Socket' = [m_Socket EXCEPT ![slot] = NoClient] /\ m_StopFlag[slot]
  BY DEF FreeSlot, Close
<1>3. Idlers' = Idlers
  BY <1>2 DEF Idlers, IsConnected, Inv, TypeOK
<1>4. \A i \in Slots : IsConnected(i)' => IsConnected(i)
  BY <1>2 DEF IsConnected, Inv, TypeOK
<1> QED BY <1>1, <1>2, <1>3, <1>4
        DEF Inv, TableIsIdle, ClosedBehind, RestIsClosed, AbortInVisit, NoRequest

LEMMA AbortInv ==
    ASSUME Inv, NEW slot \in Slots, Abort(slot)
    PROVE  Inv'
<1>1. TypeOK'
  BY AbortType DEF Inv
<1>2. /\ UNCHANGED << m_Running, turn, stopping, m_Socket, m_CurrentState, m_StopFlag, players >>
      /\ stopping /\ turn = slot
  BY DEF Abort, Visits
<1> QED BY <1>1, <1>2
        DEF Inv, TableIsIdle, Idlers, ClosedBehind, RestIsClosed, AbortInVisit, NoRequest, IsConnected

LEMMA HandleEventInv ==
    ASSUME Inv, NEW slot \in Slots, HandleEvent(slot)
    PROVE  Inv'
<1>1. TypeOK /\ TypeOK'
  BY HandleEventType DEF Inv
<1>2. /\ UNCHANGED << m_Running, turn, stopping, aborting, m_Socket >>
      /\ IsConnected(slot) /\ m_EventQueue[slot] # << >> /\ (~stopping => ~m_StopFlag[slot])
  BY DEF HandleEvent, InMachine, loopVars
<1>3. ClosedBehind' /\ RestIsClosed' /\ AbortInVisit'
  BY <1>2 DEF Inv, ClosedBehind, RestIsClosed, AbortInVisit, IsConnected
<1>4. ~stopping => Head(m_EventQueue[slot]) # "DisconnectionRequest"
                   /\ \A i \in Slots : IsConnected(i) => ~Asks(Popped(slot)[i])
  BY <1>1, <1>2, TailAsks DEF Inv, NoRequest, Popped, TypeOK
<1>5. SUFFICES TableIsIdle' /\ (~stopping => \A i \in Slots : IsConnected(i) => ~Asks(m_EventQueue'[i]))
  BY <1>1, <1>2, <1>3, <1>5 DEF Inv, NoRequest, IsConnected
<1>6. CASE AcceptConnection(slot)
  <2>1. Idlers' = Idlers
    BY <1>1, <1>2, <1>6 DEF Idlers, IsConnected, AcceptConnection, Transition, TypeOK
  <2> QED BY <1>2, <1>4, <1>6, <2>1 DEF AcceptConnection, Inv, TableIsIdle
<1>7. CASE NotifyClientConnected(slot)
  <2>1. players' = players \cup {slot}
    BY <1>7 DEF NotifyClientConnected
  <2>2. Idlers' \subseteq Idlers \cup {slot} /\ Idlers \subseteq Idlers'
    BY <1>1, <1>2, <1>7 DEF Idlers, IsConnected, NotifyClientConnected, Transition, TypeOK
  <2>3. ~stopping => slot \in Idlers'
    BY <1>1, <1>2, <1>7 DEF Idlers, IsConnected, NotifyClientConnected, Transition, TypeOK
  <2>4. TableIsIdle'
    BY <1>2, <2>1, <2>2, <2>3 DEF Inv, TableIsIdle
  <2>5. Popped(slot) \in [Slots -> Seq(ServerEvents)] /\ "ClientConnected" \in Broadcasts
    BY <1>1, <1>2, PoppedType DEF Broadcasts
  <2>6. Broadcast(Popped(slot), "ClientConnected", m_Socket[slot])
    BY <1>7 DEF NotifyClientConnected
  <2> QED BY <1>4, <2>4, <2>5, <2>6, BroadcastAsks
<1>8. CASE SendBroadcast(slot)
  <2>1. Idlers' = Idlers
    BY <1>1, <1>2, <1>8 DEF Idlers, IsConnected, SendBroadcast, Transition, TypeOK
  <2> QED BY <1>2, <1>4, <1>8, <2>1 DEF SendBroadcast, Inv, TableIsIdle
<1>9. CASE Disconnect(slot)
  <2>1. stopping
    BY <1>4, <1>9 DEF Disconnect, Transition
  <2>2. Idlers' \subseteq Idlers
    BY <1>1, <1>2, <1>9 DEF Idlers, IsConnected, Disconnect, Transition, TypeOK
  <2> QED BY <1>2, <1>9, <2>1, <2>2 DEF Disconnect, Inv, TableIsIdle
<1>10. CASE /\ m_EventQueue' = Popped(slot)
            /\ UNCHANGED << m_CurrentState, m_StopFlag, m_ClientName, players, toClient >>
  BY <1>2, <1>4, <1>10 DEF Inv, TableIsIdle, Idlers, IsConnected
<1> QED BY <1>6, <1>7, <1>8, <1>9, <1>10 DEF HandleEvent

LEMMA UpdateStateInv ==
    ASSUME Inv, NEW slot \in Slots, UpdateState(slot)
    PROVE  Inv'
<1>1. TypeOK /\ TypeOK'
  BY UpdateStateType DEF Inv
<1>2. /\ turn = slot /\ turn' = NextTurn /\ aborting' = FALSE
      /\ UNCHANGED << m_Running, stopping, m_CurrentState >>
      /\ IF stopping THEN m_Socket' = [m_Socket EXCEPT ![slot] = NoClient] ELSE UNCHANGED m_Socket
  BY DEF UpdateState, InMachine, Close
<1>3. RestIsClosed' /\ AbortInVisit'
  BY <1>2, VisitMoves DEF RestIsClosed, AbortInVisit
<1>4. ClosedBehind'
  <2> SUFFICES ASSUME stopping, NEW i \in Slots, i < turn' PROVE ~IsConnected(i)'
    BY <1>2 DEF ClosedBehind
  <2>1. turn' = turn + 1 /\ m_Socket' = [m_Socket EXCEPT ![slot] = NoClient]
    BY <1>2, VisitMoves
  <2>2. CASE i = slot
    BY <1>1, <2>1, <2>2 DEF IsConnected, TypeOK
  <2>3. CASE i # slot
    <3>1. i < turn
      BY <1>2, <2>1, <2>3 DEF Slots
    <3> QED BY <1>1, <2>1, <2>3, <3>1 DEF Inv, ClosedBehind, IsConnected, TypeOK
  <2> QED BY <2>2, <2>3
<1>5. SUFFICES TableIsIdle' /\ (~stopping => \A i \in Slots : IsConnected(i) => ~Asks(m_EventQueue'[i]))
  BY <1>1, <1>2, <1>3, <1>4, <1>5 DEF Inv, NoRequest, IsConnected
<1>6. ~stopping => \A i \in Slots : IsConnected(i) => ~Asks(m_EventQueue[i])
  BY DEF Inv, NoRequest
<1>7. ASSUME UNCHANGED << m_StopFlag, players >> PROVE TableIsIdle'
  <2>1. stopping => Idlers' \subseteq Idlers
    BY <1>1, <1>2, <1>7 DEF Idlers, IsConnected, TypeOK
  <2>2. ~stopping => Idlers' = Idlers
    BY <1>2, <1>7 DEF Idlers, IsConnected
  <2> QED BY <1>2, <1>7, <2>1, <2>2 DEF Inv, TableIsIdle
<1>8. CASE ReceiveName(slot)
  <2>1. m_EventQueue' = m_EventQueue
        \/ m_EventQueue' = [m_EventQueue EXCEPT ![slot] = Append(m_EventQueue[slot], "NameReceived")]
    BY <1>8 DEF ReceiveName
  <2>2. ~stopping /\ IsConnected(slot) => ~Asks(Append(m_EventQueue[slot], "NameReceived"))
    BY <1>1, <1>6, AppendAsks DEF TypeOK
  <2>3. ~stopping => \A i \in Slots : IsConnected(i) => ~Asks(m_EventQueue'[i])
    BY <1>1, <1>6, <2>1, <2>2 DEF TypeOK
  <2>4. UNCHANGED << m_StopFlag, players >>
    BY <1>8 DEF ReceiveName
  <2> QED BY <1>7, <2>3, <2>4
<1>9. CASE ReceiveLeave(slot)
  <2>1. /\ m_StopFlag' = [m_StopFlag EXCEPT ![slot] = TRUE] /\ players' = players \ {slot}
        /\ Broadcast(m_EventQueue, "ClientDisconnected", m_Socket[slot])
    BY <1>9 DEF ReceiveLeave
  <2>2. Idlers' \subseteq Idlers \ {slot} /\ (~stopping => Idlers \ {slot} \subseteq Idlers')
    BY <1>1, <1>2, <2>1 DEF Idlers, IsConnected, TypeOK
  <2>3. TableIsIdle'
    BY <1>2, <2>1, <2>2 DEF Inv, TableIsIdle
  <2>4. m_EventQueue \in [Slots -> Seq(ServerEvents)] /\ "ClientDisconnected" \in Broadcasts
    BY <1>1 DEF TypeOK, Broadcasts
  <2> QED BY <1>6, <2>1, <2>3, <2>4, BroadcastAsks
<1>10. CASE UNCHANGED << m_EventQueue, m_StopFlag, m_ClientName, players, toServer >>
  BY <1>6, <1>7, <1>10
<1> QED BY <1>8, <1>9, <1>10 DEF UpdateState

LEMMA OutsideInv ==
    ASSUME Inv, TypeOK', UNCHANGED << loopVars, slotVars >>
    PROVE  Inv'
BY DEF Inv, TableIsIdle, Idlers, ClosedBehind, RestIsClosed, AbortInVisit, NoRequest, IsConnected,
       loopVars, slotVars

LEMMA ClientsInv ==
    ASSUME Inv, NEW c \in Clients, Connect(c) \/ Hear(c) \/ ClientDisconnects(c) \/ Vanish(c)
    PROVE  Inv'
<1>1. TypeOK'
  BY HearType, ClientActionType DEF Inv
<1> QED BY <1>1, OutsideInv DEF Connect, Hear, ClientDisconnects, Vanish

LEMMA StepInv == ASSUME Inv, [Next]_vars PROVE Inv'
<1>1. CASE UNCHANGED vars
  <2>1. TypeOK'
    BY <1>1, StutterType DEF Inv
  <2> QED BY <1>1, <2>1, OutsideInv DEF vars
<1>2. CASE Next
  BY <1>2, StartInv, BeginUpdateInv, BeginStopInv, EndStopInv, CheckConnectionInv, FreeSlotInv,
     AbortInv, HandleEventInv, UpdateStateInv, ClientsInv DEF Next, ServerUpdates, SlotStep
<1> QED BY <1>1, <1>2

(* The players of BeloteContext are always the clients that are connected,  *)
(* have given their name and have not left (while the server stops, at      *)
(* least those): Idle adds and drops them at its two ends, while the slots  *)
(* are freed, used again, and closed by other steps.                        *)
THEOREM TableIsIdleAlways == Spec => []TableIsIdle
<1>1. Init => Inv
  BY InitInv
<1>2. Inv /\ [Next]_vars => Inv'
  BY StepInv
<1>3. Inv => TableIsIdle
  BY DEF Inv
<1> QED BY <1>1, <1>2, <1>3, PTL DEF Spec

----------------------------------------------------------------------------
(* The verdicts.                                                            *)
(* A client that has not heard its verdict has sent nothing, and one that   *)
(* has not connected is in no slot.                                         *)
Mute == \A c \in Clients :
            /\ state[c] \in {"Out", "Connecting"} => toServer[c] = << >>
            /\ state[c] = "Out" => toClient[c] = << >> /\ \A i \in Slots : m_Socket[i] # c

OneSlot == \A i, j \in Slots : IsConnected(i) /\ m_Socket[i] = m_Socket[j] => i = j

(* A client waits once for the listener, and for nothing else.              *)
Awaited ==
    \A k \in DOMAIN backlog :
        /\ state[backlog[k]] = "Connecting" /\ toClient[backlog[k]] = << >>
        /\ \A i \in Slots : m_Socket[i] # backlog[k]
        /\ \A l \in DOMAIN backlog : backlog[l] = backlog[k] => l = k

(* The slot of a client that is connecting has not got past its verdict.    *)
Unnamed ==
    \A i \in Slots : (IsConnected(i) /\ state[m_Socket[i]] = "Connecting") =>
        /\ m_CurrentState[i] \in {"ConnectionRequest", "WaitingName"}
        /\ m_CurrentState[i] = "ConnectionRequest" => toClient[m_Socket[i]] = << >>
        /\ ~Holds(m_EventQueue[i], "NameReceived")

VerdictInv == Mute /\ OneSlot /\ Awaited /\ Unnamed /\ VerdictFirst

LEMMA InitVerdict == Init => VerdictInv
<1> SUFFICES ASSUME Init PROVE VerdictInv
  OBVIOUS
<1>1. /\ \A i \in Slots : m_Socket[i] = NoClient
      /\ \A c \in Clients : c # NoClient /\ toServer[c] = << >> /\ toClient[c] = << >> /\ state[c] = "Out"
      /\ DOMAIN backlog = {}
  BY SlotsAssumption DEF Init
<1>2. Mute /\ OneSlot /\ Awaited /\ Unnamed
  BY <1>1 DEF Mute, OneSlot, Awaited, Unnamed, IsConnected
<1>3. VerdictFirst
  BY <1>1 DEF VerdictFirst
<1> QED BY <1>2, <1>3 DEF VerdictInv

(* The invariant of the verdicts speaks of these variables only.            *)
LEMMA SameVerdicts ==
    ASSUME VerdictInv, UNCHANGED << m_Socket, m_CurrentState, m_EventQueue, state, toServer, toClient >>,
           backlog' = backlog \/ backlog' = << >>
    PROVE  VerdictInv'
<1>1. Mute' /\ OneSlot' /\ Unnamed' /\ VerdictFirst'
  BY DEF VerdictInv, Mute, OneSlot, Unnamed, VerdictFirst, IsConnected
<1>2. Awaited'
  BY DEF VerdictInv, Awaited
<1> QED BY <1>1, <1>2 DEF VerdictInv

LEMMA CheckConnectionVerdict ==
    ASSUME Inv, VerdictInv, NEW slot \in Slots, CheckConnection(slot)
    PROVE  VerdictInv'
<1>1. CASE UNCHANGED slotVars /\ UNCHANGED backlog
  BY <1>1, SameVerdicts DEF slotVars, clientVars, CheckConnection
<1>2. CASE ~(stopping \/ backlog = << >>)
  <2> DEFINE c == Head(backlog)
  <2>1. /\ TypeOK /\ backlog \in Seq(Clients) /\ backlog # << >>
        /\ m_Socket' = [m_Socket EXCEPT ![slot] = c]
        /\ m_CurrentState' = [m_CurrentState EXCEPT ![slot] = "ConnectionRequest"]
        /\ m_EventQueue' = [m_EventQueue EXCEPT ![slot] = << "WaitingName" >>]
        /\ backlog' = Tail(backlog)
        /\ UNCHANGED << state, toServer, toClient >>
        /\ ~IsConnected(slot)
    BY <1>2 DEF Inv, TypeOK, CheckConnection, clientVars
  <2>2. /\ c \in Clients /\ c # NoClient /\ 1 \in DOMAIN backlog /\ c = backlog[1]
        /\ state[c] = "Connecting" /\ toClient[c] = << >> /\ \A i \in Slots : m_Socket[i] # c
    BY <2>1, SlotsAssumption DEF VerdictInv, Awaited
  <2>3. Mute' /\ VerdictFirst'
    BY <2>1, <2>2 DEF VerdictInv, Mute, VerdictFirst, TypeOK
  <2>4. OneSlot'
    BY <2>1, <2>2 DEF VerdictInv, OneSlot, IsConnected, TypeOK
  <2>5. ~Holds(<< "WaitingName" >>, "NameReceived")
    BY DEF Holds
  <2>6. Unnamed'
    BY <2>1, <2>2, <2>5 DEF VerdictInv, Unnamed, IsConnected, TypeOK
  <2>7. \A k \in DOMAIN Tail(backlog) : /\ k + 1 \in DOMAIN backlog /\ Tail(backlog)[k] = backlog[k + 1]
                                        /\ k \in Nat /\ k + 1 # 1
    BY <2>1
  <2>8. \A k \in DOMAIN Tail(backlog) : backlog[k + 1] # c
    BY <2>2, <2>7 DEF VerdictInv, Awaited
  <2>9. Awaited'
    <3> SUFFICES ASSUME NEW k \in DOMAIN Tail(backlog)
                 PROVE  /\ state[backlog[k + 1]] = "Connecting" /\ toClient[backlog[k + 1]] = << >>
                        /\ \A i \in Slots : m_Socket'[i] # backlog[k + 1]
                        /\ \A l \in DOMAIN Tail(backlog) : backlog[l + 1] = backlog[k + 1] => l = k
      BY <2>1, <2>7 DEF Awaited
    <3>1. \A l \in DOMAIN Tail(backlog) : l + 1 = k + 1 => l = k
      BY <2>7
    <3> QED BY <2>1, <2>7, <2>8, <3>1 DEF VerdictInv, Awaited, TypeOK
  <2> QED BY <2>3, <2>4, <2>6, <2>9 DEF VerdictInv
<1> QED BY <1>1, <1>2 DEF CheckConnection

(* A slot that is closed says less.                                         *)
LEMMA ClosedVerdict ==
    ASSUME TypeOK, VerdictInv, NEW slot \in Slots, Close(slot),
           UNCHANGED << m_CurrentState, m_EventQueue, state, toServer, toClient, backlog >>
    PROVE  VerdictInv'
<1>1. \A i \in Slots : m_Socket'[i] = m_Socket[i] \/ m_Socket'[i] = NoClient
  BY DEF Close, TypeOK
<1>2. Mute' /\ VerdictFirst'
  BY <1>1, SlotsAssumption DEF VerdictInv, Mute, VerdictFirst
<1>3. OneSlot' /\ Unnamed'
  BY <1>1 DEF VerdictInv, OneSlot, Unnamed, IsConnected
<1>4. \A k \in DOMAIN backlog : backlog[k] # NoClient
  BY SlotsAssumption DEF TypeOK
<1>5. Awaited'
  BY <1>1, <1>4 DEF VerdictInv, Awaited
<1> QED BY <1>2, <1>3, <1>5 DEF VerdictInv

(* The queues may change, as long as no name is received from a client that *)
(* has sent none.                                                           *)
LEMMA QueuesVerdict ==
    ASSUME VerdictInv,
           UNCHANGED << m_Socket, m_CurrentState, state, toClient, backlog >>,
           \A i \in Slots : (IsConnected(i) /\ state[m_Socket[i]] = "Connecting"
                             /\ ~Holds(m_EventQueue[i], "NameReceived"))
                                => ~Holds(m_EventQueue'[i], "NameReceived"),
           \A c \in Clients : toServer[c] = << >> => toServer'[c] = << >>
    PROVE  VerdictInv'
<1>1. Mute' /\ VerdictFirst'
  BY DEF VerdictInv, Mute, VerdictFirst
<1>2. OneSlot' /\ Awaited' /\ Unnamed'
  BY DEF VerdictInv, OneSlot, Awaited, Unnamed, IsConnected
<1> QED BY <1>1, <1>2 DEF VerdictInv

LEMMA AcceptVerdict ==
    ASSUME Inv, VerdictInv, NEW slot \in Slots, HandleEvent(slot), AcceptConnection(slot)
    PROVE  VerdictInv'
<1> DEFINE c == m_Socket[slot]
<1>1. /\ TypeOK /\ UNCHANGED << m_Socket, state, toServer, backlog, open >>
      /\ IsConnected(slot) /\ c \in Clients /\ m_EventQueue[slot] # << >>
      /\ m_CurrentState[slot] = "ConnectionRequest"
      /\ m_CurrentState' = [m_CurrentState EXCEPT ![slot] = "WaitingName"]
      /\ m_EventQueue' = Popped(slot)
  BY DEF Inv, TypeOK, HandleEvent, InMachine, IsConnected, AcceptConnection, Transition, clientVars
<1> DEFINE verdict == Packet(IF m_ClientsCount < MAX_CLIENTS_ON_TABLE
                             THEN "ConnectionAccepted" ELSE "ConnectionDeniedLobbyFull", NoClient)
<1>2. verdict.type \in Verdicts
  BY DEF Packet, Verdicts
<1>3. toClient' = [toClient EXCEPT ![c] = IF open[c] THEN Append(toClient[c], verdict) ELSE toClient[c]]
  BY DEF AcceptConnection, SendTo
<1>4. \A d \in Clients : d # c => toClient'[d] = toClient[d]
  BY <1>1, <1>3 DEF TypeOK
<1>5. state[c] = "Connecting" => toClient[c] = << >>
  BY <1>1 DEF VerdictInv, Unnamed
<1>6. state[c] = "Connecting" => toClient'[c] \in {<< >>, << verdict >>}
  BY <1>1, <1>3, <1>5 DEF TypeOK
<1>7. Mute'
  BY <1>1, <1>4 DEF VerdictInv, Mute
<1>8. VerdictFirst'
  <2> HIDE DEF verdict
  <2>1. \A queue \in {<< >>, << verdict >>} :
            Len(queue) <= 1 /\ \A i \in DOMAIN queue : queue[i].type \in Verdicts
    BY <1>2
  <2>2. ASSUME NEW d \in Clients, state[d] = "Connecting"
        PROVE  Len(toClient'[d]) <= 1 /\ \A i \in DOMAIN toClient'[d] : toClient'[d][i].type \in Verdicts
    <3>1. CASE d = c
      BY <1>6, <2>1, <2>2, <3>1
    <3>2. CASE d # c
      BY <1>4, <2>2, <3>2 DEF VerdictInv, VerdictFirst
    <3> QED BY <3>1, <3>2
  <2> QED BY <1>1, <2>2 DEF VerdictFirst
<1>9. OneSlot'
  BY <1>1 DEF VerdictInv, OneSlot, IsConnected
<1>10. Awaited'
  <2>1. \A k \in DOMAIN backlog : backlog[k] \in Clients /\ backlog[k] # c
    BY <1>1 DEF VerdictInv, Awaited, TypeOK
  <2> QED BY <1>1, <1>4, <2>1 DEF VerdictInv, Awaited
<1>11. Unnamed'
  <2> SUFFICES ASSUME NEW i \in Slots, IsConnected(i), state[m_Socket[i]] = "Connecting"
               PROVE  /\ m_CurrentState'[i] \in {"ConnectionRequest", "WaitingName"}
                      /\ m_CurrentState'[i] = "ConnectionRequest" => toClient'[m_Socket[i]] = << >>
                      /\ ~Holds(m_EventQueue'[i], "NameReceived")
    BY <1>1 DEF Unnamed, IsConnected
  <2>1. /\ m_CurrentState[i] \in {"ConnectionRequest", "WaitingName"}
        /\ m_CurrentState[i] = "ConnectionRequest" => toClient[m_Socket[i]] = << >>
        /\ ~Holds(m_EventQueue[i], "NameReceived") /\ m_Socket[i] \in Clients
        /\ m_EventQueue[i] \in Seq(ServerEvents)
    BY <1>1 DEF VerdictInv, Unnamed, IsConnected, TypeOK
  <2>2. CASE i = slot
    <3>1. m_EventQueue'[i] = Tail(m_EventQueue[i]) /\ m_CurrentState'[i] = "WaitingName"
      BY <1>1, <2>2 DEF Popped, TypeOK
    <3>2. ~Holds(m_EventQueue'[i], "NameReceived")
      BY <1>1, <2>1, <2>2, <3>1, TailHolds
    <3> QED BY <3>1, <3>2
  <2>3. CASE i # slot
    <3>1. m_EventQueue'[i] = m_EventQueue[i] /\ m_CurrentState'[i] = m_CurrentState[i]
      BY <1>1, <2>3 DEF Popped, TypeOK
    <3>2. m_Socket[i] # c
      BY <1>1, <2>3 DEF VerdictInv, OneSlot
    <3> QED BY <1>4, <2>1, <3>1, <3>2
  <2> QED BY <2>2, <2>3
<1> QED BY <1>7, <1>8, <1>9, <1>10, <1>11 DEF VerdictInv

(* A slot past its name sends to a client that knows its verdict.           *)
LEMMA LaterVerdict ==
    ASSUME Inv, VerdictInv, NEW slot \in Slots, HandleEvent(slot), NEW packet,
           SendTo(slot, packet) \/ UNCHANGED toClient,
           m_CurrentState[slot] \in {"Idle", "Disconnected"} \/ Head(m_EventQueue[slot]) = "NameReceived",
           NEW next \in {"Idle", "Disconnected"},
           m_CurrentState' = [m_CurrentState EXCEPT ![slot] = next],
           \A i \in Slots : i # slot => m_EventQueue'[i] = m_EventQueue[i]
                                        \/ \E kind \in Broadcasts : m_EventQueue'[i] = Append(m_EventQueue[i], kind)
    PROVE  VerdictInv'
<1> DEFINE c == m_Socket[slot]
<1>1. /\ TypeOK /\ UNCHANGED << m_Socket, state, toServer, backlog, open >>
      /\ IsConnected(slot) /\ c \in Clients /\ m_EventQueue[slot] # << >>
      /\ m_EventQueue[slot] \in Seq(ServerEvents)
  BY DEF Inv, TypeOK, HandleEvent, InMachine, IsConnected, clientVars
<1>2. state[c] # "Connecting"
  BY <1>1, TailHolds DEF VerdictInv, Unnamed
<1>3. state[c] # "Out"
  BY <1>1 DEF VerdictInv, Mute
<1>4. \A d \in Clients : d # c => toClient'[d] = toClient[d]
  BY <1>1 DEF TypeOK, SendTo
<1>5. Mute' /\ VerdictFirst'
  BY <1>1, <1>2, <1>3, <1>4 DEF VerdictInv, Mute, VerdictFirst
<1>6. OneSlot'
  BY <1>1 DEF VerdictInv, OneSlot, IsConnected
<1>7. Awaited'
  <2>1. \A k \in DOMAIN backlog : backlog[k] \in Clients /\ backlog[k] # c
    BY <1>1 DEF VerdictInv, Awaited, TypeOK
  <2> QED BY <1>1, <1>4, <2>1 DEF VerdictInv, Awaited
<1>8. Unnamed'
  <2> SUFFICES ASSUME NEW i \in Slots, IsConnected(i), state[m_Socket[i]] = "Connecting"
               PROVE  /\ m_CurrentState'[i] \in {"ConnectionRequest", "WaitingName"}
                      /\ m_CurrentState'[i] = "ConnectionRequest" => toClient'[m_Socket[i]] = << >>
                      /\ ~Holds(m_EventQueue'[i], "NameReceived")
    BY <1>1 DEF Unnamed, IsConnected
  <2>1. /\ m_CurrentState[i] \in {"ConnectionRequest", "WaitingName"}
        /\ m_CurrentState[i] = "ConnectionRequest" => toClient[m_Socket[i]] = << >>
        /\ ~Holds(m_EventQueue[i], "NameReceived") /\ m_Socket[i] \in Clients
        /\ m_EventQueue[i] \in Seq(ServerEvents)
    BY <1>1 DEF VerdictInv, Unnamed, IsConnected, TypeOK
  <2>2. i # slot /\ m_Socket[i] # c /\ m_CurrentState'[i] = m_CurrentState[i]
    BY <1>1, <1>2 DEF TypeOK
  <2>3. ~Holds(m_EventQueue'[i], "NameReceived")
    <3>1. \A kind \in Broadcasts : kind # "NameReceived"
      BY DEF Broadcasts
    <3>2. ASSUME NEW kind \in Broadcasts, m_EventQueue'[i] = Append(m_EventQueue[i], kind)
          PROVE  ~Holds(m_EventQueue'[i], "NameReceived")
      BY <2>1, <3>1, <3>2, AppendHolds
    <3> QED BY <2>1, <2>2, <3>2
  <2> QED BY <1>4, <2>1, <2>2, <2>3
<1> QED BY <1>5, <1>6, <1>7, <1>8 DEF VerdictInv

LEMMA HandleEventVerdict ==
    ASSUME Inv, VerdictInv, NEW slot \in Slots, HandleEvent(slot)
    PROVE  VerdictInv'
<1>1. TypeOK /\ m_EventQueue[slot] # << >> /\ \A i \in Slots : i # slot => Popped(slot)[i] = m_EventQueue[i]
  BY DEF Inv, TypeOK, HandleEvent, Popped
<1>2. CASE AcceptConnection(slot)
  BY <1>2, AcceptVerdict
<1>3. CASE NotifyClientConnected(slot)
  <2>1. \A i \in Slots : i # slot => m_EventQueue'[i] = m_EventQueue[i]
            \/ \E kind \in Broadcasts : m_EventQueue'[i] = Append(m_EventQueue[i], kind)
    BY <1>1, <1>3 DEF NotifyClientConnected, Broadcast, Broadcasts
  <2> QED BY <1>3, <2>1, LaterVerdict DEF NotifyClientConnected, Transition
<1>4. CASE SendBroadcast(slot)
  BY <1>1, <1>4, LaterVerdict DEF SendBroadcast, Transition
<1>5. CASE Disconnect(slot)
  BY <1>1, <1>5, LaterVerdict DEF Disconnect, Transition
<1>6. CASE /\ m_EventQueue' = Popped(slot)
           /\ UNCHANGED << m_CurrentState, m_StopFlag, m_ClientName, players, toClient >>
  <2>1. \A i \in Slots : Holds(m_EventQueue'[i], "NameReceived") => Holds(m_EventQueue[i], "NameReceived")
    <3>1. m_EventQueue'[slot] = Tail(m_EventQueue[slot]) /\ m_EventQueue[slot] \in Seq(ServerEvents)
      BY <1>1, <1>6 DEF Popped, TypeOK
    <3> QED BY <1>1, <1>6, <3>1, TailHolds
  <2> QED BY <1>6, <2>1, QueuesVerdict DEF HandleEvent, clientVars
<1> QED BY <1>2, <1>3, <1>4, <1>5, <1>6 DEF HandleEvent

LEMMA UpdateStateVerdict ==
    ASSUME Inv, VerdictInv, NEW slot \in Slots, UpdateState(slot)
    PROVE  VerdictInv'
<1> DEFINE c == m_Socket[slot]
<1>1. /\ TypeOK /\ UNCHANGED << m_CurrentState, state, toClient, backlog >>
      /\ IsConnected(slot) /\ c \in Clients
      /\ m_Socket' = m_Socket \/ Close(slot)
  BY DEF Inv, TypeOK, UpdateState, InMachine, IsConnected, clientVars
<1>2. toServer' = toServer \/ (toServer[c] # << >> /\ toServer' = [toServer EXCEPT ![c] = Tail(@)])
  BY DEF UpdateState
<1>3. \A d \in Clients : toServer[d] = << >> => toServer'[d] = << >>
  BY <1>1, <1>2 DEF TypeOK
<1>4. \A i \in Slots : (IsConnected(i) /\ state[m_Socket[i]] = "Connecting"
                        /\ ~Holds(m_EventQueue[i], "NameReceived"))
                           => ~Holds(m_EventQueue'[i], "NameReceived")
  <2> SUFFICES ASSUME NEW i \in Slots, IsConnected(i), state[m_Socket[i]] = "Connecting",
                      ~Holds(m_EventQueue[i], "NameReceived")
               PROVE  ~Holds(m_EventQueue'[i], "NameReceived")
    OBVIOUS
  <2>1. CASE UNCHANGED m_EventQueue
    BY <2>1
  <2>2. CASE ReceiveName(slot) /\ toServer[c] # << >>
    <3>1. i # slot
      BY <1>1, <2>2 DEF VerdictInv, Mute
    <3>2. m_EventQueue'[i] = m_EventQueue[i]
      BY <1>1, <2>2, <3>1 DEF ReceiveName, TypeOK
    <3> QED BY <3>2
  <2>3. CASE ReceiveLeave(slot)
    <3>1. m_EventQueue'[i] = Append(m_EventQueue[i], "ClientDisconnected")
      BY <2>3 DEF ReceiveLeave, Broadcast
    <3> QED BY <1>1, <3>1, AppendHolds DEF TypeOK
  <2> QED BY <2>1, <2>2, <2>3 DEF UpdateState
<1>5. Mute' /\ VerdictFirst'
  <2>1. \A i \in Slots : m_Socket'[i] = m_Socket[i] \/ m_Socket'[i] = NoClient
    BY <1>1 DEF Close, TypeOK
  <2> QED BY <1>1, <1>3, <2>1, SlotsAssumption DEF VerdictInv, Mute, VerdictFirst
<1>6. \A i \in Slots : IsConnected(i)' => IsConnected(i) /\ m_Socket'[i] = m_Socket[i]
  BY <1>1 DEF Close, TypeOK, IsConnected
<1>7. OneSlot'
  BY <1>6 DEF VerdictInv, OneSlot, IsConnected
<1>8. Unnamed'
  BY <1>1, <1>4, <1>6 DEF VerdictInv, Unnamed
<1>9. Awaited'
  <2>1. \A k \in DOMAIN backlog : backlog[k] # NoClient
    BY <1>1, SlotsAssumption DEF TypeOK
  <2> QED BY <1>1, <1>6, <2>1 DEF VerdictInv, Awaited, IsConnected
<1> QED BY <1>5, <1>7, <1>8, <1>9 DEF VerdictInv

LEMMA LeaveVerdict ==
    ASSUME Inv, VerdictInv, NEW c \in Clients, Leave(c), state[c] # "Out",
           state[c] = "Connecting" => toClient[c] # << >>,
           UNCHANGED << slotVars, backlog >>
    PROVE  VerdictInv'
<1>1. /\ TypeOK /\ UNCHANGED << m_Socket, m_CurrentState, m_EventQueue, backlog >>
      /\ state' = [state EXCEPT ![c] = "Disconnected"]
      /\ toClient' = [toClient EXCEPT ![c] = << >>]
      /\ toServer' = [toServer EXCEPT ![c] = Append(toServer[c], "ClientLeave")]
  BY DEF Inv, slotVars, Leave, CloseSocket, Send
<1>2. Mute' /\ VerdictFirst'
  BY <1>1 DEF VerdictInv, Mute, VerdictFirst, TypeOK
<1>3. OneSlot'
  BY <1>1 DEF VerdictInv, OneSlot, IsConnected
<1>4. Unnamed'
  BY <1>1 DEF VerdictInv, Unnamed, IsConnected, TypeOK
<1>5. Awaited'
  BY <1>1 DEF VerdictInv, Awaited, TypeOK
<1> QED BY <1>2, <1>3, <1>4, <1>5 DEF VerdictInv

LEMMA HearKeepsVerdict ==
    ASSUME Inv, VerdictInv, NEW c \in Clients, Hear(c)
    PROVE  VerdictInv'
<1> DEFINE type == Head(toClient[c]).type
<1>1. /\ TypeOK /\ UNCHANGED << slotVars, backlog >> /\ toClient[c] # << >>
      /\ toClient[c] \in Seq(ServerPackets)
      /\ UNCHANGED << m_Socket, m_CurrentState, m_EventQueue >>
  BY DEF Inv, TypeOK, Hear, slotVars
<1>2. state[c] # "Out"
  BY <1>1 DEF VerdictInv, Mute
<1>3. \A k \in DOMAIN backlog : backlog[k] # c
  BY <1>1 DEF VerdictInv, Awaited
<1>4. CASE /\ state[c] = "Connecting" /\ state' = [state EXCEPT ![c] = "Idle"] /\ Send(c, "ClientName")
           /\ toClient' = [toClient EXCEPT ![c] = Tail(@)]
  <2>1. Mute' /\ VerdictFirst'
    BY <1>1, <1>2, <1>4 DEF VerdictInv, Mute, VerdictFirst, TypeOK, Send
  <2>2. OneSlot' /\ Unnamed' /\ Awaited'
    BY <1>1, <1>3, <1>4 DEF VerdictInv, OneSlot, Unnamed, Awaited, IsConnected, TypeOK
  <2> QED BY <2>1, <2>2 DEF VerdictInv
<1>5. CASE Leave(c)
  BY <1>1, <1>2, <1>5, LeaveVerdict
<1>6. CASE HearOther(c, type)
  <2>1. toClient' = [toClient EXCEPT ![c] = Tail(@)] /\ UNCHANGED << state, toServer >>
    BY <1>6 DEF HearOther
  <2>2. state[c] # "Connecting"
    <3>1. 1 \in DOMAIN toClient[c] /\ Head(toClient[c]) = toClient[c][1]
      BY <1>1
    <3> QED BY <1>6, <3>1 DEF VerdictInv, VerdictFirst, HearOther, Verdicts
  <2>3. Mute' /\ VerdictFirst'
    BY <1>1, <1>2, <2>1, <2>2 DEF VerdictInv, Mute, VerdictFirst, TypeOK
  <2>4. OneSlot'
    BY <1>1 DEF VerdictInv, OneSlot, IsConnected
  <2>5. Unnamed'
    BY <1>1, <2>1, <2>2 DEF VerdictInv, Unnamed, IsConnected, TypeOK
  <2>6. Awaited'
    BY <1>1, <1>3, <2>1 DEF VerdictInv, Awaited, TypeOK
  <2> QED BY <2>3, <2>4, <2>5, <2>6 DEF VerdictInv
<1> QED BY <1>4, <1>5, <1>6 DEF Hear, HearVerdict

LEMMA ConnectVerdict ==
    ASSUME Inv, VerdictInv, NEW c \in Clients, Connect(c)
    PROVE  VerdictInv'
<1>1. /\ TypeOK /\ UNCHANGED << m_Socket, m_CurrentState, m_EventQueue, toServer, toClient >>
      /\ state[c] = "Out" /\ state' = [state EXCEPT ![c] = "Connecting"]
      /\ backlog' = backlog \/ backlog' = Append(backlog, c)
      /\ backlog \in Seq(Clients)
  BY DEF Inv, Connect, slotVars, TypeOK
<1>2. toServer[c] = << >> /\ toClient[c] = << >> /\ \A i \in Slots : m_Socket[i] # c
  BY <1>1 DEF VerdictInv, Mute
<1>3. Mute'
  BY <1>1, <1>2 DEF VerdictInv, Mute, TypeOK
<1>4. VerdictFirst'
  BY <1>1, <1>2 DEF VerdictInv, VerdictFirst, TypeOK
<1>5. OneSlot' /\ Unnamed'
  BY <1>1, <1>2 DEF VerdictInv, OneSlot, Unnamed, IsConnected, TypeOK
<1>6. \A k \in DOMAIN backlog : backlog[k] # c /\ backlog[k] \in Clients
  BY <1>1 DEF VerdictInv, Awaited
<1>7. Awaited'
  <2>1. CASE backlog' = backlog
    BY <1>1, <1>6, <2>1 DEF VerdictInv, Awaited, TypeOK
  <2>2. CASE backlog' = Append(backlog, c)
    <3>1. /\ DOMAIN Append(backlog, c) = DOMAIN backlog \cup {Len(backlog) + 1}
          /\ Append(backlog, c)[Len(backlog) + 1] = c
          /\ \A k \in DOMAIN backlog : Append(backlog, c)[k] = backlog[k]
      BY <1>1
    <3> QED BY <1>1, <1>2, <1>6, <2>2, <3>1 DEF VerdictInv, Awaited, TypeOK
  <2> QED BY <1>1, <2>1, <2>2
<1> QED BY <1>3, <1>4, <1>5, <1>7 DEF VerdictInv

LEMMA VanishVerdict ==
    ASSUME Inv, VerdictInv, NEW c \in Clients, Vanish(c)
    PROVE  VerdictInv'
<1>1. /\ TypeOK /\ UNCHANGED << m_Socket, m_CurrentState, m_EventQueue, state, toServer, backlog >>
      /\ toClient' = [toClient EXCEPT ![c] = << >>]
  BY DEF Inv, Vanish, CloseSocket, slotVars
<1>2. Mute' /\ VerdictFirst'
  BY <1>1 DEF VerdictInv, Mute, VerdictFirst, TypeOK
<1>3. OneSlot'
  BY <1>1 DEF VerdictInv, OneSlot, IsConnected
<1>4. Unnamed' /\ Awaited'
  BY <1>1 DEF VerdictInv, Unnamed, Awaited, IsConnected, TypeOK
<1> QED BY <1>2, <1>3, <1>4 DEF VerdictInv

LEMMA StepVerdict == ASSUME Inv, VerdictInv, [Next]_vars PROVE VerdictInv'
<1>1. CASE UNCHANGED vars
  BY <1>1, SameVerdicts DEF vars, slotVars, clientVars
<1>2. CASE Start \/ BeginUpdate \/ BeginStop \/ EndStop
  BY <1>2, SameVerdicts DEF Start, BeginUpdate, BeginStop, EndStop, slotVars, clientVars
<1>3. ASSUME NEW slot \in Slots, FreeSlot(slot) PROVE VerdictInv'
  BY <1>3, ClosedVerdict DEF Inv, FreeSlot, clientVars
<1>4. ASSUME NEW slot \in Slots, Abort(slot) PROVE VerdictInv'
  <2>1. \A i \in Slots : Holds(m_EventQueue'[i], "NameReceived") => Holds(m_EventQueue[i], "NameReceived")
    BY <1>4, AppendHolds DEF Inv, TypeOK, Abort
  <2> QED BY <1>4, <2>1, QueuesVerdict DEF Abort, clientVars
<1>5. ASSUME NEW c \in Clients, ClientDisconnects(c) PROVE VerdictInv'
  BY <1>5, LeaveVerdict DEF ClientDisconnects
<1> QED BY <1>1, <1>2, <1>3, <1>4, <1>5, CheckConnectionVerdict, HandleEventVerdict, UpdateStateVerdict,
           HearKeepsVerdict, ConnectVerdict, VanishVerdict DEF Next, ServerUpdates, SlotStep

(* However long a client waits for the listener, for a slot and for its    *)
(* visit, and whatever is broadcast meanwhile to every connected slot, the  *)
(* first and only thing it reads while connecting is its verdict.           *)
THEOREM VerdictFirstAlways == Spec => []VerdictFirst
<1>1. Init => Inv /\ VerdictInv
  BY InitInv, InitVerdict
<1>2. Inv /\ VerdictInv /\ [Next]_vars => Inv' /\ VerdictInv'
  BY StepInv, StepVerdict
<1>3. VerdictInv => VerdictFirst
  BY DEF VerdictInv
<1> QED BY <1>1, <1>2, <1>3, PTL DEF Spec

----------------------------------------------------------------------------
(* The news.                                                                *)
Named(c) == c \in Clients /\ state[c] \notin {"Out", "Connecting"}

(* No slot will make a player of this client again.                         *)
Gone(c) == /\ Named(c)
           /\ \A j \in Slots : m_Socket[j] = c =>
                 j \notin players /\ m_CurrentState[j] \in {"Idle", "Disconnected"}

TrueNews(kind, c) == IF kind = "ClientConnected" THEN Named(c) ELSE Gone(c)

NewsQueued == \A i \in Slots : \A kind \in Broadcasts :
                 Holds(m_EventQueue[i], kind) => TrueNews(kind, m_ClientName[i][kind])

NewsSent == \A c \in Clients : \A k \in DOMAIN toClient[c] :
                toClient[c][k].type \in Broadcasts => TrueNews(toClient[c][k].type, toClient[c][k].name)

(* NewsAreTrue is about packets that are on their way; the news they carry  *)
(* must be true from the broadcast on, and stay so.                         *)
NewsInv == NewsQueued /\ NewsSent

LEMMA NamesStay == ASSUME VerdictInv, TypeOK, [Next]_vars, NEW c, Named(c) PROVE Named(c)'
<1> USE DEF Named
<1>1. CASE state' = state
  BY <1>1
<1>2. ASSUME NEW d \in Clients, Connect(d) PROVE state'[c] \notin {"Out", "Connecting"}
  BY <1>2 DEF Connect, TypeOK
<1>3. ASSUME NEW d \in Clients, Hear(d) \/ ClientDisconnects(d) PROVE state'[c] \notin {"Out", "Connecting"}
  BY <1>3 DEF Hear, HearVerdict, HearOther, ClientDisconnects, Leave, TypeOK
<1>4. CASE Next
  <2>1. ASSUME NEW d \in Clients, Vanish(d) PROVE state' = state
    BY <2>1 DEF Vanish
  <2>2. ASSUME NEW slot \in Slots, SlotStep(slot) PROVE state' = state
    BY <2>2 DEF SlotStep, CheckConnection, FreeSlot, Abort, HandleEvent, UpdateState, clientVars
  <2>3. CASE Start \/ BeginUpdate \/ BeginStop \/ EndStop
    BY <1>1, <2>3 DEF Start, BeginUpdate, BeginStop, EndStop, clientVars
  <2> QED BY <1>1, <1>2, <1>3, <1>4, <2>1, <2>2, <2>3 DEF Next, ServerUpdates
<1> QED BY <1>1, <1>4 DEF vars, clientVars

(* The slot of a client that has given its name goes on, and makes a player *)
(* of it only once.                                                         *)
GoesOn(j) == /\ m_CurrentState[j] \in {"Idle", "Disconnected"} =>
                    m_CurrentState'[j] \in {"Idle", "Disconnected"} /\ (j \in players' => j \in players)

LEMMA HandleEventGoesOn ==
    ASSUME TypeOK, NEW slot \in Slots, HandleEvent(slot), NEW j \in Slots PROVE GoesOn(j)
BY DEF HandleEvent, AcceptConnection, NotifyClientConnected, SendBroadcast, Disconnect, Transition,
       GoesOn, TypeOK

LEMMA SlotsGoOn ==
    ASSUME Inv, VerdictInv, [Next]_vars, NEW c, Named(c), NEW j \in Slots, m_Socket'[j] = c
    PROVE  m_Socket[j] = c /\ GoesOn(j)
<1>1. TypeOK /\ c # NoClient
  BY SlotsAssumption DEF Inv, Named
<1>2. CASE UNCHANGED << m_Socket, m_CurrentState >> /\ (players' = players \/ players' = {})
  BY <1>2 DEF GoesOn
<1>3. ASSUME NEW slot \in Slots, CheckConnection(slot) PROVE m_Socket[j] = c /\ GoesOn(j)
  <2>1. CASE UNCHANGED slotVars
    BY <1>2, <2>1 DEF slotVars
  <2>2. CASE ~(stopping \/ backlog = << >>)
    <3>1. /\ m_Socket' = [m_Socket EXCEPT ![slot] = Head(backlog)] /\ players' = players
          /\ m_CurrentState' = [m_CurrentState EXCEPT ![slot] = "ConnectionRequest"]
      BY <1>3, <2>2 DEF CheckConnection
    <3>2. 1 \in DOMAIN backlog /\ Head(backlog) = backlog[1]
      BY <1>1, <2>2 DEF TypeOK
    <3>3. state[Head(backlog)] = "Connecting"
      BY <3>2 DEF VerdictInv, Awaited
    <3>4. j # slot
      BY <1>1, <3>1, <3>3 DEF Named, TypeOK
    <3> QED BY <1>1, <3>1, <3>4 DEF GoesOn, TypeOK
  <2> QED BY <1>3, <2>1, <2>2 DEF CheckConnection
<1>4. ASSUME NEW slot \in Slots, FreeSlot(slot) \/ UpdateState(slot) PROVE m_Socket[j] = c /\ GoesOn(j)
  <2>1. m_Socket' = m_Socket \/ Close(slot)
    BY <1>4 DEF FreeSlot, UpdateState
  <2>2. m_Socket[j] = c
    BY <1>1, <2>1 DEF Close, TypeOK
  <2>3. m_CurrentState' = m_CurrentState /\ players' \subseteq players
    BY <1>4 DEF FreeSlot, UpdateState, ReceiveName, ReceiveLeave
  <2> QED BY <2>2, <2>3 DEF GoesOn
<1>5. ASSUME NEW slot \in Slots, HandleEvent(slot) PROVE m_Socket[j] = c /\ GoesOn(j)
  <2>1. m_Socket' = m_Socket
    BY <1>5 DEF HandleEvent
  <2> QED BY <1>1, <1>5, <2>1, HandleEventGoesOn
<1>6. ASSUME NEW slot \in Slots, Abort(slot) PROVE m_Socket[j] = c /\ GoesOn(j)
  BY <1>2, <1>6 DEF Abort
<1>7. CASE Start \/ BeginUpdate \/ BeginStop \/ EndStop
  BY <1>2, <1>7 DEF Start, BeginUpdate, BeginStop, EndStop, slotVars
<1>8. ASSUME NEW d \in Clients, Connect(d) \/ Hear(d) \/ ClientDisconnects(d) \/ Vanish(d)
      PROVE  m_Socket[j] = c /\ GoesOn(j)
  BY <1>2, <1>8 DEF Connect, Hear, ClientDisconnects, Vanish, slotVars
<1>9. CASE UNCHANGED vars
  BY <1>2, <1>9 DEF vars, slotVars
<1> QED BY <1>3, <1>4, <1>5, <1>6, <1>7, <1>8, <1>9 DEF Next, ServerUpdates, SlotStep

(* What is true of a client stays true, whoever moves.                      *)
LEMMA NewsStay ==
    ASSUME Inv, VerdictInv, [Next]_vars, NEW kind, NEW c, TrueNews(kind, c)
    PROVE  TrueNews(kind, c)'
<1>1. Named(c) /\ Named(c)'
  BY NamesStay DEF TrueNews, Gone, Inv
<1>2. ASSUME Gone(c) PROVE Gone(c)'
  BY <1>1, <1>2, SlotsGoOn DEF Gone, GoesOn
<1> QED BY <1>1, <1>2 DEF TrueNews

LEMMA QueuedStay ==
    ASSUME Inv, VerdictInv, NewsInv, [Next]_vars, m_ClientName' = m_ClientName,
           \A i \in Slots : \A kind \in Broadcasts :
               Holds(m_EventQueue'[i], kind) => Holds(m_EventQueue[i], kind)
    PROVE  NewsQueued'
<1> SUFFICES ASSUME NEW i \in Slots, NEW kind \in Broadcasts, Holds(m_EventQueue'[i], kind),
                    NEW c, c = m_ClientName[i][kind]
             PROVE  TrueNews(kind, c)'
  BY DEF NewsQueued, TrueNews, Named, Gone
<1>1. TrueNews(kind, c)
  BY DEF NewsInv, NewsQueued
<1> QED BY <1>1, NewsStay

LEMMA SentStay ==
    ASSUME Inv, VerdictInv, NewsInv, [Next]_vars,
           \A c \in Clients :
               \/ toClient'[c] \in {toClient[c], << >>}
               \/ toClient[c] # << >> /\ toClient'[c] = Tail(toClient[c])
               \/ \E packet \in ServerPackets :
                     /\ toClient'[c] = Append(toClient[c], packet)
                     /\ packet.type \in Broadcasts => TrueNews(packet.type, packet.name)
    PROVE  NewsSent'
<1> SUFFICES ASSUME NEW c \in Clients, NEW k \in DOMAIN toClient'[c], NEW type \in Broadcasts, NEW name,
                    type = toClient'[c][k].type, name = toClient'[c][k].name
             PROVE  TrueNews(type, name)'
  BY DEF NewsSent, TrueNews, Named, Gone
<1>1. toClient[c] \in Seq(ServerPackets)
  BY DEF Inv, TypeOK
<1>2. \A l \in DOMAIN toClient[c] : toClient[c][l].type \in Broadcasts =>
          TrueNews(toClient[c][l].type, toClient[c][l].name)
  BY DEF NewsInv, NewsSent
<1>3. TrueNews(type, name)
  <2>1. CASE toClient'[c] = toClient[c]
    BY <1>2, <2>1
  <2>2. CASE toClient'[c] = << >>
    BY <2>2
  <2>3. CASE toClient[c] # << >> /\ toClient'[c] = Tail(toClient[c])
    <3>1. k + 1 \in DOMAIN toClient[c] /\ toClient'[c][k] = toClient[c][k + 1]
      BY <1>1, <2>3
    <3> QED BY <1>2, <3>1
  <2>4. ASSUME NEW packet \in ServerPackets, toClient'[c] = Append(toClient[c], packet),
               packet.type \in Broadcasts => TrueNews(packet.type, packet.name)
        PROVE  TrueNews(type, name)
    <3>1. (k \in DOMAIN toClient[c] /\ toClient'[c][k] = toClient[c][k]) \/ toClient'[c][k] = packet
      BY <1>1, <2>4
    <3> QED BY <1>2, <2>4, <3>1
  <2> QED BY <2>1, <2>2, <2>3, <2>4
<1> QED BY <1>3, NewsStay

LEMMA QueuedBroadcast ==
    ASSUME Inv, VerdictInv, NewsInv, [Next]_vars, NEW queues \in [Slots -> Seq(ServerEvents)],
           \A i \in Slots : \A kind \in Broadcasts : Holds(queues[i], kind) => Holds(m_EventQueue[i], kind),
           NEW told \in Broadcasts, NEW name, Broadcast(queues, told, name), TrueNews(told, name)'
    PROVE  NewsQueued'
<1> SUFFICES ASSUME NEW i \in Slots, NEW kind \in Broadcasts, Holds(m_EventQueue'[i], kind),
                    NEW c, c = m_ClientName'[i][kind]
             PROVE  TrueNews(kind, c)'
  BY DEF NewsQueued, TrueNews, Named, Gone
<1>1. m_ClientName[i] \in [Broadcasts -> Clients \cup {NoClient}]
  BY DEF Inv, TypeOK
<1>2. CASE IsConnected(i) /\ kind = told
  <2>1. c = name
    BY <1>1, <1>2 DEF Broadcast
  <2> QED BY <1>2, <2>1
<1>3. CASE ~(IsConnected(i) /\ kind = told)
  <2>1. c = m_ClientName[i][kind]
    BY <1>1, <1>3 DEF Broadcast
  <2>2. Holds(queues[i], kind)
    BY <1>3, AppendHolds DEF Broadcast
  <2>3. TrueNews(kind, c)
    BY <2>1, <2>2 DEF NewsInv, NewsQueued
  <2> QED BY <2>3, NewsStay
<1> QED BY <1>2, <1>3

LEMMA SendToNews ==
    ASSUME Inv, VerdictInv, NewsInv, [Next]_vars, NEW slot \in Slots, NEW packet \in ServerPackets,
           SendTo(slot, packet), packet.type \in Broadcasts => TrueNews(packet.type, packet.name)
    PROVE  NewsSent'
<1>1. \A c \in Clients : toClient'[c] = toClient[c] \/ toClient'[c] = Append(toClient[c], packet)
  BY DEF SendTo, Inv, TypeOK
<1> QED BY <1>1, SentStay

LEMMA HandleEventNews ==
    ASSUME Inv, VerdictInv, NewsInv, [Next]_vars, NEW slot \in Slots, HandleEvent(slot)
    PROVE  NewsInv'
<1>1. /\ TypeOK /\ m_EventQueue[slot] # << >> /\ m_EventQueue[slot] \in Seq(ServerEvents)
      /\ Popped(slot) \in [Slots -> Seq(ServerEvents)]
      /\ m_Socket' = m_Socket /\ state' = state /\ IsConnected(slot)
  BY PoppedType DEF Inv, TypeOK, HandleEvent, InMachine, clientVars
<1>2. \A i \in Slots : \A event : Holds(Popped(slot)[i], event) => Holds(m_EventQueue[i], event)
  BY <1>1, TailHolds DEF Popped, TypeOK
<1>3. ASSUME UNCHANGED << m_ClientName >>, m_EventQueue' = Popped(slot) PROVE NewsQueued'
  BY <1>2, <1>3, QueuedStay
<1>4. CASE AcceptConnection(slot)
  <2>1. \A type \in {"ConnectionAccepted", "ConnectionDeniedLobbyFull"} :
           Packet(type, NoClient) \in ServerPackets /\ Packet(type, NoClient).type \notin Broadcasts
    BY DEF Packet, ServerPackets, Broadcasts
  <2>2. NewsSent'
    BY <1>4, <2>1, SendToNews DEF AcceptConnection
  <2> QED BY <1>3, <1>4, <2>2 DEF AcceptConnection, NewsInv
<1>5. CASE NotifyClientConnected(slot)
  <2>1. NewsSent'
    BY <1>5, SentStay DEF NotifyClientConnected
  <2> SUFFICES ASSUME NEW c, c = m_Socket[slot] PROVE NewsQueued'
    BY <2>1 DEF NewsInv
  <2>2. Holds(m_EventQueue[slot], "NameReceived")
    BY <1>1, <1>5, TailHolds DEF NotifyClientConnected, Transition
  <2>3. c \in Clients /\ state[c] # "Connecting" /\ state[c] # "Out"
    BY <1>1, <2>2 DEF VerdictInv, Unnamed, Mute, IsConnected, TypeOK
  <2>4. TrueNews("ClientConnected", c)'
    BY <1>1, <2>3 DEF TrueNews, Named
  <2>5. "ClientConnected" \in Broadcasts /\ Broadcast(Popped(slot), "ClientConnected", c)
    BY <1>5 DEF Broadcasts, NotifyClientConnected
  <2> QED BY <1>1, <1>2, <2>4, <2>5, QueuedBroadcast
<1>6. CASE SendBroadcast(slot)
  <2> PICK kind \in Broadcasts :
         /\ Transition(slot, "Idle", kind, "Idle")
         /\ SendTo(slot, Packet(kind, m_ClientName[slot][kind]))
         /\ m_EventQueue' = Popped(slot)
         /\ UNCHANGED << m_StopFlag, m_ClientName, players >>
    BY <1>6 DEF SendBroadcast
  <2>1. Holds(m_EventQueue[slot], kind)
    BY <1>1, TailHolds DEF Transition
  <2>2. TrueNews(kind, m_ClientName[slot][kind])
    BY <2>1 DEF NewsInv, NewsQueued
  <2>3. Packet(kind, m_ClientName[slot][kind]) \in ServerPackets
    BY <1>1 DEF Packet, ServerPackets, TypeOK
  <2>4. NewsSent'
    BY <2>2, <2>3, SendToNews DEF Packet
  <2> QED BY <1>3, <2>4 DEF NewsInv
<1>7. CASE Disconnect(slot)
  <2>1. /\ Packet("ServerShuttingDown", NoClient) \in ServerPackets
        /\ Packet("ServerShuttingDown", NoClient).type \notin Broadcasts
    BY DEF Packet, ServerPackets, Broadcasts
  <2>2. NewsSent'
    BY <1>7, <2>1, SendToNews DEF Disconnect
  <2> QED BY <1>3, <1>7, <2>2 DEF Disconnect, NewsInv
<1>8. CASE /\ m_EventQueue' = Popped(slot)
           /\ UNCHANGED << m_CurrentState, m_StopFlag, m_ClientName, players, toClient >>
  <2>1. NewsSent'
    BY <1>8, SentStay
  <2> QED BY <1>3, <1>8, <2>1 DEF NewsInv
<1> QED BY <1>4, <1>5, <1>6, <1>7, <1>8 DEF HandleEvent

LEMMA UpdateStateNews ==
    ASSUME Inv, VerdictInv, NewsInv, [Next]_vars, NEW slot \in Slots, UpdateState(slot)
    PROVE  NewsInv'
<1>1. /\ TypeOK /\ IsConnected(slot)
      /\ UNCHANGED << m_CurrentState, state, toClient >>
      /\ m_Socket' = m_Socket \/ Close(slot)
  BY DEF Inv, UpdateState, InMachine, clientVars
<1>2. NewsSent'
  BY <1>1, SentStay
<1>3. CASE UNCHANGED m_EventQueue /\ UNCHANGED m_ClientName
  BY <1>2, <1>3, QueuedStay DEF NewsInv
<1>4. CASE ReceiveName(slot)
  <2>1. m_ClientName' = m_ClientName
    BY <1>4 DEF ReceiveName
  <2>2. \A i \in Slots : \A kind \in Broadcasts :
            Holds(m_EventQueue'[i], kind) => Holds(m_EventQueue[i], kind)
    <3>1. \A kind \in Broadcasts : kind # "NameReceived"
      BY DEF Broadcasts
    <3>2. \A kind : Holds(Append(m_EventQueue[slot], "NameReceived"), kind)
                       => Holds(m_EventQueue[slot], kind) \/ kind = "NameReceived"
      BY <1>1, AppendHolds DEF TypeOK
    <3> QED BY <1>1, <1>4, <3>1, <3>2 DEF ReceiveName, TypeOK
  <2> QED BY <1>2, <2>1, <2>2, QueuedStay DEF NewsInv
<1>5. CASE ReceiveLeave(slot) /\ toServer[m_Socket[slot]] # << >>
  <2> SUFFICES ASSUME NEW c, c = m_Socket[slot] PROVE NewsQueued'
    BY <1>2 DEF NewsInv
  <2>1. c \in Clients /\ state[c] \notin {"Out", "Connecting"}
    BY <1>1, <1>5 DEF VerdictInv, Mute, IsConnected, TypeOK
  <2>2. \A j \in Slots : m_Socket'[j] = c => j = slot
    BY <1>1, <2>1, SlotsAssumption DEF VerdictInv, OneSlot, Close, IsConnected, TypeOK
  <2>3. slot \notin players' /\ m_CurrentState'[slot] = "Idle"
    BY <1>1, <1>5 DEF ReceiveLeave
  <2>4. Gone(c)'
    BY <1>1, <2>1, <2>2, <2>3 DEF Gone, Named
  <2>5. TrueNews("ClientDisconnected", c)'
    BY <2>4 DEF TrueNews
  <2>6. /\ "ClientDisconnected" \in Broadcasts /\ Broadcast(m_EventQueue, "ClientDisconnected", c)
        /\ m_EventQueue \in [Slots -> Seq(ServerEvents)]
    BY <1>1, <1>5 DEF Broadcasts, ReceiveLeave, TypeOK
  <2> QED BY <2>5, <2>6, QueuedBroadcast
<1> QED BY <1>3, <1>4, <1>5 DEF UpdateState

LEMMA StepNews == ASSUME Inv, VerdictInv, NewsInv, [Next]_vars PROVE NewsInv'
<1>1. CASE UNCHANGED << m_EventQueue, m_ClientName, toClient >>
  BY <1>1, QueuedStay, SentStay DEF NewsInv
<1>2. CASE UNCHANGED vars \/ Start \/ BeginUpdate \/ BeginStop \/ EndStop
  BY <1>1, <1>2 DEF vars, slotVars, Start, BeginUpdate, BeginStop, EndStop
<1>3. ASSUME NEW slot \in Slots, CheckConnection(slot) PROVE NewsInv'
  <2>1. CASE UNCHANGED slotVars
    BY <1>1, <1>3, <2>1 DEF slotVars, CheckConnection
  <2>2. CASE m_EventQueue' = [m_EventQueue EXCEPT ![slot] = << "WaitingName" >>] /\ UNCHANGED m_ClientName
    <3>1. \A kind \in Broadcasts : ~Holds(<< "WaitingName" >>, kind)
      BY DEF Broadcasts, Holds
    <3>2. NewsQueued'
      BY <2>2, <3>1, QueuedStay DEF Inv, TypeOK
    <3>3. NewsSent'
      BY <1>3, SentStay DEF CheckConnection
    <3> QED BY <3>2, <3>3 DEF NewsInv
  <2> QED BY <1>3, <2>1, <2>2 DEF CheckConnection
<1>4. ASSUME NEW slot \in Slots, FreeSlot(slot) PROVE NewsInv'
  BY <1>1, <1>4 DEF FreeSlot
<1>5. ASSUME NEW slot \in Slots, Abort(slot) PROVE NewsInv'
  <2>1. \A kind \in Broadcasts : kind # "DisconnectionRequest"
    BY DEF Broadcasts
  <2>2. \A kind : Holds(Append(m_EventQueue[slot], "DisconnectionRequest"), kind)
                     => Holds(m_EventQueue[slot], kind) \/ kind = "DisconnectionRequest"
    BY AppendHolds DEF Inv, TypeOK
  <2>3. NewsQueued'
    BY <1>5, <2>1, <2>2, QueuedStay DEF Abort, Inv, TypeOK
  <2>4. NewsSent'
    BY <1>5, SentStay DEF Abort
  <2> QED BY <2>3, <2>4 DEF NewsInv
<1>6. ASSUME NEW c \in Clients, Connect(c) \/ Hear(c) \/ ClientDisconnects(c) \/ Vanish(c) PROVE NewsInv'
  <2>1. UNCHANGED << m_EventQueue, m_ClientName >>
    BY <1>6 DEF Connect, Hear, ClientDisconnects, Vanish, slotVars
  <2>2. NewsQueued'
    BY <2>1, QueuedStay
  <2>3. \A d \in Clients : \/ toClient'[d] \in {toClient[d], << >>}
                           \/ toClient[d] # << >> /\ toClient'[d] = Tail(toClient[d])
    BY <1>6 DEF Connect, Hear, HearVerdict, HearOther, ClientDisconnects, Vanish, Leave, CloseSocket, Inv, TypeOK
  <2>4. NewsSent'
    BY <2>3, SentStay
  <2> QED BY <2>2, <2>4 DEF NewsInv
<1> QED BY <1>2, <1>3, <1>4, <1>5, <1>6, HandleEventNews, UpdateStateNews DEF Next, ServerUpdates, SlotStep

LEMMA InitNews == Init => NewsInv
<1> SUFFICES ASSUME Init PROVE NewsInv
  OBVIOUS
<1>1. /\ \A i \in Slots : DOMAIN m_EventQueue[i] = {}
      /\ \A c \in Clients : DOMAIN toClient[c] = {}
  BY DEF Init
<1> QED BY <1>1 DEF NewsInv, NewsQueued, NewsSent, Holds

(* A packet that announces a client gone, or connected, is still true when  *)
(* it is read, although the name was kept apart from the event and the      *)
(* slots have been freed and used again since.                              *)
THEOREM NewsAreTrueAlways == Spec => []NewsAreTrue
<1>1. Init => Inv /\ VerdictInv /\ NewsInv
  BY InitInv, InitVerdict, InitNews
<1>2. Inv /\ VerdictInv /\ NewsInv /\ [Next]_vars => Inv' /\ VerdictInv' /\ NewsInv'
  BY StepInv, StepVerdict, StepNews
<1>3. Inv /\ NewsInv => NewsAreTrue
  <2> SUFFICES ASSUME Inv, NewsInv, NEW c \in Clients, NEW i \in DOMAIN toClient[c]
               PROVE  /\ toClient[c][i].type = "ClientDisconnected" =>
                            toClient[c][i].name \notin {m_Socket[j] : j \in players}
                      /\ toClient[c][i].type = "ClientConnected" => state[toClient[c][i].name] # "Connecting"
    BY DEF NewsAreTrue
  <2>1. toClient[c][i].type \in Broadcasts => TrueNews(toClient[c][i].type, toClient[c][i].name)
    BY DEF NewsInv, NewsSent
  <2> QED BY <2>1 DEF Broadcasts, TrueNews, Named, Gone, Inv, TypeOK
<1> QED BY <1>1, <1>2, <1>3, PTL DEF Spec

----------------------------------------------------------------------------
(* The end of the server.                                                   *)
(* The last thing a client was sent is the end of the server, or it has     *)
(* closed its socket.                                                       *)
Told(c) == \/ ~open[c]
           \/ toClient[c] # << >> /\ toClient[c][Len(toClient[c])].type = "ServerShuttingDown"

(* Stop has asked the slot it visits to disconnect.                         *)
Visited(i) == aborting /\ turn = i

(* While the server stops, the players are idle until they are visited; the *)
(* one that is visited has the request in its queue, or has answered it.    *)
PlayersTold ==
    stopping => \A i \in players : IsConnected(i) =>
        IF Visited(i) /\ m_CurrentState[i] = "Disconnected"
        THEN Told(m_Socket[i])
        ELSE /\ m_CurrentState[i] = "Idle" /\ ~m_StopFlag[i]
             /\ Visited(i) => Holds(m_EventQueue[i], "DisconnectionRequest")

(* A name makes a player of the slot visited: the request comes after it.   *)
AskedLast(queue) == \A k \in DOMAIN queue : queue[k] = "NameReceived" =>
                       \E l \in DOMAIN queue : l > k /\ queue[l] = "DisconnectionRequest"

VisitAsked == \A i \in Slots : Visited(i) =>
                 /\ AskedLast(m_EventQueue[i])
                 /\ m_StopFlag[i] => m_CurrentState[i] = "Disconnected"

ToldInv == PlayersTold /\ VisitAsked

LEMMA LastOfAppend ==
    ASSUME NEW S, NEW queue \in Seq(S), NEW item \in S
    PROVE  Append(queue, item) # << >> /\ Append(queue, item)[Len(Append(queue, item))] = item
<1>1. Len(Append(queue, item)) = Len(queue) + 1 /\ Append(queue, item)[Len(queue) + 1] = item
  OBVIOUS
<1> QED BY <1>1

LEMMA LastOfTail ==
    ASSUME NEW S, NEW queue \in Seq(S), queue # << >>, Len(queue) # 1
    PROVE  Tail(queue) # << >> /\ Tail(queue)[Len(Tail(queue))] = queue[Len(queue)]
<1>1. Len(queue) \in Nat /\ Len(queue) >= 2 /\ Len(Tail(queue)) = Len(queue) - 1
  OBVIOUS
<1>2. Len(queue) - 1 \in 1 .. Len(Tail(queue))
  BY <1>1
<1>3. \A k \in 1 .. Len(Tail(queue)) : Tail(queue)[k] = queue[k + 1]
  OBVIOUS
<1>4. Tail(queue)[Len(queue) - 1] = queue[Len(queue)]
  <2>1. Len(queue) - 1 + 1 = Len(queue)
    BY <1>1
  <2> QED BY <1>2, <1>3, <2>1
<1>5. Tail(queue) # << >>
  <2>1. Len(Tail(queue)) # 0
    BY <1>1
  <2>2. Len(<< >>) = 0
    OBVIOUS
  <2> QED BY <2>1, <2>2, Zenon
<1> QED BY <1>1, <1>4, <1>5

LEMMA AppendLast ==
    ASSUME NEW queue \in Seq(ServerEvents), NEW event,
           event = "DisconnectionRequest" \/ (event # "NameReceived" /\ AskedLast(queue))
    PROVE  AskedLast(Append(queue, event))
<1>1. /\ DOMAIN Append(queue, event) = DOMAIN queue \cup {Len(queue) + 1}
      /\ Append(queue, event)[Len(queue) + 1] = event
      /\ \A k \in DOMAIN queue : Append(queue, event)[k] = queue[k] /\ k < Len(queue) + 1
  OBVIOUS
<1> QED BY <1>1 DEF AskedLast

LEMMA TailLast ==
    ASSUME NEW queue \in Seq(ServerEvents), queue # << >>, AskedLast(queue)
    PROVE  /\ AskedLast(Tail(queue))
           /\ Head(queue) = "NameReceived" => Holds(Tail(queue), "DisconnectionRequest")
<1>1. \A k \in DOMAIN Tail(queue) : k + 1 \in DOMAIN queue /\ Tail(queue)[k] = queue[k + 1] /\ k \in Nat
  OBVIOUS
<1>2. \A l \in DOMAIN queue : l > 1 => l - 1 \in DOMAIN Tail(queue) /\ Tail(queue)[l - 1] = queue[l] /\ l \in Nat
  OBVIOUS
<1>3. 1 \in DOMAIN queue /\ Head(queue) = queue[1]
  OBVIOUS
<1>4. AskedLast(Tail(queue))
  <2> SUFFICES ASSUME NEW k \in DOMAIN Tail(queue), Tail(queue)[k] = "NameReceived"
               PROVE  \E l \in DOMAIN Tail(queue) : l > k /\ Tail(queue)[l] = "DisconnectionRequest"
    BY DEF AskedLast
  <2> PICK l \in DOMAIN queue : l > k + 1 /\ queue[l] = "DisconnectionRequest"
    BY <1>1 DEF AskedLast
  <2>1. l > 1 /\ l - 1 > k
    BY <1>1
  <2> QED BY <1>2, <2>1
<1>5. ASSUME Head(queue) = "NameReceived" PROVE Holds(Tail(queue), "DisconnectionRequest")
  BY <1>2, <1>3, <1>5 DEF AskedLast, Holds
<1> QED BY <1>4, <1>5

(* Outside a visit of Stop nobody is being asked.                           *)
LEMMA NotVisited == ASSUME Inv, ~stopping \/ turn \notin Slots PROVE ~aborting
BY DEF Inv, AbortInVisit

LEMMA LoopTold ==
    ASSUME Inv, ToldInv, Start \/ BeginUpdate \/ BeginStop \/ EndStop
    PROVE  ToldInv'
<1>1. ~aborting /\ aborting' = aborting
  BY NotVisited, SlotsAssumption DEF Start, BeginUpdate, BeginStop, EndStop, Slots, Inv, RestIsClosed
<1>2. VisitAsked'
  BY <1>1 DEF VisitAsked, Visited
<1>3. CASE Start \/ EndStop
  BY <1>2, <1>3 DEF Start, EndStop, ToldInv, PlayersTold
<1>4. CASE BeginUpdate
  <2>1. UNCHANGED << stopping, players, m_Socket, m_CurrentState, m_StopFlag >>
    BY <1>4 DEF BeginUpdate, slotVars
  <2> QED BY <1>1, <1>2, <2>1 DEF ToldInv, PlayersTold, Visited, IsConnected
<1>5. CASE BeginStop
  <2>1. /\ UNCHANGED << players, m_Socket, m_CurrentState, m_StopFlag >>
        /\ stopping => \A i \in players : IsConnected(i) => m_CurrentState[i] = "Idle" /\ ~m_StopFlag[i]
    BY <1>1, <1>5 DEF BeginStop, slotVars, ToldInv, PlayersTold, Visited
  <2>2. ~stopping => \A i \in players : m_CurrentState[i] = "Idle" /\ ~m_StopFlag[i]
    BY DEF Inv, TableIsIdle, Idlers
  <2> QED BY <1>1, <1>2, <2>1, <2>2 DEF ToldInv, PlayersTold, Visited, IsConnected
<1> QED BY <1>3, <1>4, <1>5

LEMMA CheckConnectionTold ==
    ASSUME Inv, ToldInv, NEW slot \in Slots, CheckConnection(slot)
    PROVE  ToldInv'
<1>1. ~aborting /\ ~aborting' /\ stopping' = stopping
  BY DEF CheckConnection, Visits
<1>2. VisitAsked'
  BY <1>1 DEF VisitAsked, Visited
<1>3. CASE stopping
  <2>1. UNCHANGED << players, m_Socket, m_CurrentState, m_StopFlag >>
    BY <1>3 DEF CheckConnection, slotVars
  <2> QED BY <1>1, <1>2, <2>1 DEF ToldInv, PlayersTold, Visited, IsConnected
<1> QED BY <1>1, <1>2, <1>3 DEF ToldInv, PlayersTold

LEMMA FreeSlotTold ==
    ASSUME Inv, ToldInv, NEW slot \in Slots, FreeSlot(slot)
    PROVE  ToldInv'
<1>1. /\ ~aborting /\ UNCHANGED << aborting, stopping, players, m_CurrentState, m_StopFlag >>
      /\ m_Socket' = [m_Socket EXCEPT ![slot] = NoClient]
  BY DEF FreeSlot, Visits, Close
<1>2. \A i \in Slots : IsConnected(i)' => IsConnected(i)
  BY <1>1 DEF IsConnected, Inv, TypeOK
<1>3. players \subseteq Slots
  BY DEF Inv, TypeOK
<1> QED BY <1>1, <1>2, <1>3 DEF ToldInv, PlayersTold, VisitAsked, Visited

LEMMA AbortTold ==
    ASSUME Inv, ToldInv, NEW slot \in Slots, Abort(slot)
    PROVE  ToldInv'
<1>1. /\ TypeOK /\ ~aborting /\ turn = slot /\ stopping /\ ~m_StopFlag[slot]
      /\ UNCHANGED << turn, stopping, players, m_Socket, m_CurrentState, m_StopFlag, toClient, open >>
      /\ m_EventQueue' = [m_EventQueue EXCEPT ![slot] = Append(@, "DisconnectionRequest")]
  BY DEF Abort, Visits, Inv, clientVars
<1>2. /\ m_EventQueue[slot] \in Seq(ServerEvents)
      /\ m_EventQueue'[slot] = Append(m_EventQueue[slot], "DisconnectionRequest")
  BY <1>1 DEF TypeOK
<1>3. AskedLast(m_EventQueue'[slot]) /\ Holds(m_EventQueue'[slot], "DisconnectionRequest")
  BY <1>2, AppendLast, AppendHolds
<1>4. VisitAsked'
  BY <1>1, <1>3 DEF VisitAsked, Visited
<1>5. \A i \in players : IsConnected(i) => m_CurrentState[i] = "Idle" /\ ~m_StopFlag[i]
  BY <1>1 DEF ToldInv, PlayersTold, Visited
<1>6. PlayersTold'
  BY <1>1, <1>3, <1>5 DEF PlayersTold, Visited, IsConnected
<1> QED BY <1>4, <1>6 DEF ToldInv

LEMMA HandleEventTold ==
    ASSUME Inv, ToldInv, NEW slot \in Slots, HandleEvent(slot)
    PROVE  ToldInv'
<1>1. CASE ~stopping
  <2>1. ~aborting /\ UNCHANGED << aborting, stopping >>
    BY <1>1, NotVisited DEF HandleEvent, loopVars
  <2> QED BY <1>1, <2>1 DEF ToldInv, PlayersTold, VisitAsked, Visited
<1>2. CASE stopping
  <2> DEFINE queue == m_EventQueue[slot]
  <2>1. /\ TypeOK /\ turn = slot /\ aborting /\ IsConnected(slot)
        /\ UNCHANGED << turn, aborting, stopping, m_Socket, open >>
        /\ queue \in Seq(ServerEvents) /\ queue # << >>
        /\ m_Socket[slot] \in Clients
        /\ m_StopFlag[slot] => m_CurrentState[slot] = "Disconnected"
        /\ AskedLast(queue)
    BY <1>2 DEF HandleEvent, InMachine, loopVars, clientVars, Inv, TypeOK, ToldInv, VisitAsked, Visited, IsConnected
  <2>2. \A i \in players : (IsConnected(i) /\ i # slot) => m_CurrentState[i] = "Idle" /\ ~m_StopFlag[i]
    BY <1>2, <2>1 DEF ToldInv, PlayersTold, Visited
  <2>3. /\ slot \in players /\ m_CurrentState[slot] # "Disconnected" =>
              m_CurrentState[slot] = "Idle" /\ Holds(queue, "DisconnectionRequest")
        /\ slot \in players /\ m_CurrentState[slot] = "Disconnected" => Told(m_Socket[slot])
    BY <1>2, <2>1 DEF ToldInv, PlayersTold, Visited
  <2>4. Popped(slot)[slot] = Tail(queue)
    BY <2>1 DEF Popped, TypeOK
  <2>5. SUFFICES /\ \A i \in Slots : i # slot => /\ m_CurrentState'[i] = m_CurrentState[i]
                                                 /\ m_StopFlag'[i] = m_StopFlag[i]
                                                 /\ i \in players' => i \in players
                 /\ AskedLast(m_EventQueue'[slot])
                 /\ m_StopFlag'[slot] => m_CurrentState'[slot] = "Disconnected"
                 /\ slot \in players' => IF m_CurrentState'[slot] = "Disconnected"
                                         THEN Told(m_Socket[slot])'
                                         ELSE /\ m_CurrentState'[slot] = "Idle"
                                              /\ Holds(m_EventQueue'[slot], "DisconnectionRequest")
    <3>1. VisitAsked'
      BY <2>1, <2>5 DEF VisitAsked, Visited
    <3>2. players' \subseteq Slots
      BY HandleEventType DEF Inv, TypeOK
    <3>3. PlayersTold'
      BY <2>1, <2>2, <2>5, <3>2 DEF PlayersTold, Visited, IsConnected
    <3> QED BY <3>1, <3>3 DEF ToldInv
  <2>6. AskedLast(Tail(queue))
    BY <2>1, TailLast
  <2>7. CASE AcceptConnection(slot)
    BY <2>1, <2>3, <2>4, <2>6, <2>7 DEF AcceptConnection, Transition, TypeOK
  <2>8. CASE NotifyClientConnected(slot)
    <3>1. Holds(Tail(queue), "DisconnectionRequest")
      BY <2>1, <2>8, TailLast DEF NotifyClientConnected, Transition
    <3>2. m_EventQueue'[slot] = Append(Popped(slot)[slot], "ClientConnected")
      BY <2>1, <2>8, Zenon DEF NotifyClientConnected, Broadcast
    <3>3. Tail(queue) \in Seq(ServerEvents)
      BY <2>1
    <3>4. AskedLast(m_EventQueue'[slot])
      BY <2>4, <2>6, <3>2, <3>3, AppendLast
    <3>5. Holds(m_EventQueue'[slot], "DisconnectionRequest")
      <4>1. Holds(Append(Tail(queue), "ClientConnected"), "DisconnectionRequest")
        BY <3>1, <3>3, AppendHolds
      <4> QED BY <2>4, <3>2, <4>1
    <3> QED BY <2>1, <2>8, <3>4, <3>5 DEF NotifyClientConnected, Transition, TypeOK
  <2>9. CASE SendBroadcast(slot)
    <3>1. Head(queue) # "DisconnectionRequest" /\ m_CurrentState[slot] = "Idle"
      BY <2>9 DEF SendBroadcast, Transition, Broadcasts
    <3>2. slot \in players => Holds(Tail(queue), "DisconnectionRequest")
      BY <2>1, <2>3, <3>1, TailHolds
    <3> QED BY <2>1, <2>4, <2>6, <2>9, <3>1, <3>2 DEF SendBroadcast, Transition, TypeOK
  <2>10. CASE Disconnect(slot)
    <3> DEFINE c == m_Socket[slot]
               packet == Packet("ServerShuttingDown", NoClient)
    <3>1. toClient' = [toClient EXCEPT ![c] = IF open[c] THEN Append(toClient[c], packet) ELSE toClient[c]]
      BY <2>10 DEF Disconnect, SendTo
    <3>2. toClient[c] \in Seq(ServerPackets) /\ packet \in ServerPackets /\ packet.type = "ServerShuttingDown"
      BY <2>1 DEF TypeOK, Packet, ServerPackets
    <3> HIDE DEF packet
    <3>5. open[c] => toClient'[c] = Append(toClient[c], packet)
      BY <2>1, <3>1 DEF TypeOK
    <3>3. open[c] => /\ toClient'[c] # << >>
                     /\ toClient'[c][Len(toClient'[c])] = packet
      BY <3>2, <3>5, LastOfAppend
    <3>4. Told(m_Socket[slot])'
      BY <2>1, <3>2, <3>3 DEF Told
    <3> QED BY <2>1, <2>4, <2>6, <2>10, <3>4 DEF Disconnect, Transition, TypeOK
  <2>11. CASE /\ ~CanHandleEvent(slot)
              /\ m_EventQueue' = Popped(slot)
              /\ UNCHANGED << m_CurrentState, m_StopFlag, m_ClientName, players, toClient >>
    <3>1. slot \in players /\ m_CurrentState[slot] # "Disconnected" => Holds(Tail(queue), "DisconnectionRequest")
      <4>1. m_CurrentState[slot] = "Idle" => Head(queue) # "DisconnectionRequest"
        BY <2>11 DEF CanHandleEvent
      <4> QED BY <2>1, <2>3, <4>1, TailHolds
    <3>2. Told(m_Socket[slot]) => Told(m_Socket[slot])'
      BY <2>1, <2>11 DEF Told
    <3> QED BY <2>1, <2>3, <2>4, <2>6, <2>11, <3>1, <3>2
  <2> QED BY <2>7, <2>8, <2>9, <2>10, <2>11 DEF HandleEvent
<1> QED BY <1>1, <1>2

LEMMA UpdateStateTold ==
    ASSUME Inv, ToldInv, NEW slot \in Slots, UpdateState(slot)
    PROVE  ToldInv'
<1>1. /\ TypeOK /\ turn = slot /\ ~aborting' /\ stopping' = stopping /\ m_CurrentState' = m_CurrentState
      /\ stopping => m_Socket' = [m_Socket EXCEPT ![slot] = NoClient]
  BY DEF UpdateState, InMachine, Close, Inv
<1>2. VisitAsked'
  BY <1>1 DEF VisitAsked, Visited
<1>3. players' \subseteq players /\ \A i \in Slots : i # slot => m_StopFlag'[i] = m_StopFlag[i]
  BY <1>1 DEF UpdateState, ReceiveName, ReceiveLeave, TypeOK
<1>4. PlayersTold'
  <2> SUFFICES ASSUME stopping, NEW i \in players', IsConnected(i)'
               PROVE  m_CurrentState[i] = "Idle" /\ ~m_StopFlag'[i]
    BY <1>1 DEF PlayersTold, Visited
  <2>1. i # slot /\ IsConnected(i) /\ i \in players /\ i \in Slots
    BY <1>1, <1>3 DEF IsConnected, TypeOK
  <2> QED BY <1>1, <1>3, <2>1 DEF ToldInv, PlayersTold, Visited
<1> QED BY <1>2, <1>4 DEF ToldInv

LEMMA ClientsTold ==
    ASSUME Inv, VerdictInv, ToldInv, NEW c \in Clients,
           Connect(c) \/ Hear(c) \/ ClientDisconnects(c) \/ Vanish(c)
    PROVE  ToldInv'
<1>1. /\ TypeOK /\ UNCHANGED << loopVars, slotVars >>
      /\ UNCHANGED << turn, aborting, stopping, players, m_Socket, m_CurrentState, m_StopFlag, m_EventQueue >>
  BY DEF Connect, Hear, ClientDisconnects, Vanish, Inv, loopVars, slotVars
<1>2. VisitAsked'
  BY <1>1 DEF ToldInv, VisitAsked, Visited
<1>3. ASSUME NEW i \in players, IsConnected(i), Told(m_Socket[i]), m_CurrentState[i] = "Disconnected"
      PROVE  Told(m_Socket[i])'
  <2> DEFINE d == m_Socket[i]
  <2>1. d \in Clients /\ state[d] # "Connecting"
    BY <1>1, <1>3 DEF VerdictInv, Unnamed, TypeOK, IsConnected
  <2>2. CASE Connect(c) \/ (Hear(c) /\ c # d)
    <3>1. open'[d] = open[d] /\ toClient'[d] = toClient[d]
      BY <1>1, <2>1, <2>2 DEF Connect, Hear, HearVerdict, HearOther, Leave, CloseSocket, TypeOK
    <3> QED BY <1>1, <1>3, <3>1 DEF Told
  <2>3. CASE ClientDisconnects(c) \/ Vanish(c)
    <3>1. open' = [open EXCEPT ![c] = FALSE] /\ toClient' = [toClient EXCEPT ![c] = << >>]
      BY <2>3 DEF ClientDisconnects, Vanish, Leave, CloseSocket
    <3>2. ~open'[d] \/ (open'[d] = open[d] /\ toClient'[d] = toClient[d])
      BY <1>1, <2>1, <3>1 DEF TypeOK
    <3> QED BY <1>1, <1>3, <3>2 DEF Told
  <2>4. CASE Hear(c) /\ c = d
    <3>1. CASE Leave(c)
      <4>1. ~open'[d]
        BY <1>1, <2>1, <2>4, <3>1 DEF Leave, CloseSocket, TypeOK
      <4> QED BY <1>1, <4>1 DEF Told
    <3>2. CASE HearOther(c, Head(toClient[c]).type)
      <4>1. /\ toClient[c] \in Seq(ServerPackets) /\ toClient[c] # << >>
            /\ Head(toClient[c]).type # "ServerShuttingDown" /\ open[c]
            /\ toClient'[c] = Tail(toClient[c])
        BY <1>1, <2>1, <2>4, <3>2 DEF Hear, HearOther, TypeOK
      <4>2. toClient[c][Len(toClient[c])].type = "ServerShuttingDown"
        BY <1>3, <2>4, <4>1 DEF Told
      <4>3. Len(toClient[c]) # 1
        BY <4>1, <4>2
      <4>4. Tail(toClient[c]) # << >> /\ Tail(toClient[c])[Len(Tail(toClient[c]))] = toClient[c][Len(toClient[c])]
        BY <4>1, <4>3, LastOfTail
      <4> QED BY <1>1, <2>4, <4>1, <4>2, <4>4 DEF Told
    <3> QED BY <2>1, <2>4, <3>1, <3>2 DEF Hear, HearVerdict
  <2> QED BY <2>2, <2>3, <2>4
<1>4. PlayersTold'
  BY <1>1, <1>3 DEF ToldInv, PlayersTold, Visited, IsConnected
<1> QED BY <1>2, <1>4 DEF ToldInv

LEMMA StepTold == ASSUME Inv, VerdictInv, ToldInv, [Next]_vars PROVE ToldInv'
<1>1. CASE UNCHANGED vars
  BY <1>1 DEF vars, loopVars, slotVars, clientVars, ToldInv, PlayersTold, VisitAsked, Visited, Told, IsConnected
<1> QED BY <1>1, LoopTold, CheckConnectionTold, FreeSlotTold, AbortTold, HandleEventTold, UpdateStateTold, ClientsTold
        DEF Next, ServerUpdates, SlotStep

LEMMA CloseTold ==
    ASSUME Inv, ToldInv, [Next]_vars, NEW i \in players, m_Socket'[i] # m_Socket[i]
    PROVE  Told(m_Socket[i])
<1>1. TypeOK /\ i \in Slots
  BY DEF Inv, TypeOK
<1>2. ~stopping => IsConnected(i) /\ ~m_StopFlag[i]
  BY DEF Inv, TableIsIdle, Idlers
<1>3. ASSUME NEW slot \in Slots, CheckConnection(slot) PROVE FALSE
  <2>1. ~stopping /\ i = slot /\ ~IsConnected(slot)
    BY <1>1, <1>3 DEF CheckConnection, slotVars, TypeOK
  <2> QED BY <1>2, <2>1
<1>4. ASSUME NEW slot \in Slots, FreeSlot(slot) PROVE FALSE
  <2>1. i = slot /\ ~aborting /\ IsConnected(i) /\ m_StopFlag[i]
    BY <1>1, <1>4 DEF FreeSlot, Visits, Close, TypeOK
  <2> QED BY <1>2, <2>1 DEF ToldInv, PlayersTold, Visited
<1>5. ASSUME NEW slot \in Slots, UpdateState(slot) PROVE Told(m_Socket[i])
  <2>1. i = slot /\ stopping /\ aborting /\ turn = i /\ IsConnected(i) /\ m_EventQueue[i] = << >>
    BY <1>1, <1>5 DEF UpdateState, InMachine, Close, TypeOK
  <2>2. ~Holds(m_EventQueue[i], "DisconnectionRequest")
    BY <2>1 DEF Holds
  <2> QED BY <2>1, <2>2 DEF ToldInv, PlayersTold, Visited
<1>6. CASE m_Socket' = m_Socket
  BY <1>6
<1>7. CASE UNCHANGED vars \/ Start \/ BeginUpdate \/ BeginStop \/ EndStop
           \/ (\E slot \in Slots : Abort(slot) \/ HandleEvent(slot))
           \/ (\E c \in Clients : Connect(c) \/ Hear(c) \/ ClientDisconnects(c) \/ Vanish(c))
  BY <1>6, <1>7 DEF vars, slotVars, Start, BeginUpdate, BeginStop, EndStop, Abort, HandleEvent,
                    Connect, Hear, ClientDisconnects, Vanish
<1> QED BY <1>3, <1>4, <1>5, <1>7 DEF Next, ServerUpdates, SlotStep

(* Stop closes the slot of a player only when the last packet to its client *)
(* is the end of the server: the request is handled before the socket is    *)
(* closed, and nothing is sent after the answer.                            *)
THEOREM ToldOfShutdownAlways == Spec => ToldOfShutdown
<1>1. Init => Inv /\ VerdictInv /\ ToldInv
  <2>1. Init => ToldInv
    BY DEF Init, ToldInv, PlayersTold, VisitAsked, Visited
  <2> QED BY <2>1, InitInv, InitVerdict
<1>2. Inv /\ VerdictInv /\ ToldInv /\ [Next]_vars => Inv' /\ VerdictInv' /\ ToldInv'
  BY StepInv, StepVerdict, StepTold
<1>3. Inv /\ ToldInv /\ [Next]_vars =>
        [\A i \in players : m_Socket'[i] # m_Socket[i] =>
          LET c == m_Socket[i]
          IN  \/ ~open[c]
              \/ toClient[c] # << >> /\ toClient[c][Len(toClient[c])].type = "ServerShuttingDown"]_vars
  BY CloseTold DEF Told
<1> QED BY <1>1, <1>2, <1>3, PTL DEF Spec, ToldOfShutdown
=============================================================================
