----------------------------- MODULE ServerSlots -----------------------------
(***************************************************************************)
(* Connections: the slots of the server and their state machines, the      *)
(* state machine of each client, and the two directions of each socket.    *)
(*                                                                         *)
(* Server::Update visits the slots in turn.  A visit is cut at each event  *)
(* and each packet, because clients of other processes act in between; the *)
(* clients of the server's own thread (the host, the bots) do not.         *)
(* A client stands for one connection: it does not come back.  Packets of  *)
(* the game are read by SeatTable and BeloteGame.                          *)
(***************************************************************************)
EXTENDS Integers, Sequences, FiniteSets

CONSTANTS
    Clients,                \* the connections that may be made
    Local,                  \* those of the server's own thread
    NoClient,               \* the remote end of a socket that is not connected
    MAX_CLIENTS, MAX_CLIENTS_ON_TABLE,
    MaxStarts               \* bound: how often the server is started

ASSUME SlotsAssumption == /\ Local \subseteq Clients /\ NoClient \notin Clients
                          /\ MAX_CLIENTS \in Nat /\ MAX_CLIENTS_ON_TABLE \in Nat
                          /\ MaxStarts \in Nat

Slots == 1 .. MAX_CLIENTS

VARIABLES
    m_Running, m_ClientsCount,
    turn,           \* the slot visited, 0 outside the loop over the slots
    aborting,       \* Stop has asked the slot visited to disconnect
    stopping,       \* the loop is that of Server::Stop
    starts,
    backlog,        \* connections the listener has not accepted
    m_Socket,       \* of a slot: its remote end
    m_CurrentState, m_StopFlag, m_EventQueue,
    m_ClientName,   \* of a slot: the name kept in each of its broadcast actions
    players,        \* the slots among the players of BeloteContext
    state,          \* of a client's state machine, "Out" before it is started
    open,           \* the client has not closed its socket
    toServer, toClient

loopVars   == << m_Running, m_ClientsCount, turn, aborting, stopping, starts >>
slotVars   == << m_Socket, m_CurrentState, m_StopFlag, m_EventQueue, m_ClientName, players >>
clientVars == << state, open >>
vars == << loopVars, slotVars, clientVars, backlog, toServer, toClient >>

Broadcasts == {"ClientConnected", "ClientDisconnected"}

Packet(type, name) == [type |-> type, name |-> name]

IsConnected(slot) == m_Socket[slot] # NoClient

----------------------------------------------------------------------------
(* The loop over the slots.                                                 *)

Start == /\ ~m_Running /\ turn = 0 /\ starts < MaxStarts
         /\ m_Running' = TRUE
         /\ starts' = starts + 1
         /\ players' = {}
         /\ UNCHANGED << m_ClientsCount, turn, aborting, stopping, m_Socket, m_CurrentState,
                         m_StopFlag, m_EventQueue, m_ClientName, clientVars, backlog,
                         toServer, toClient >>

BeginUpdate == /\ m_Running /\ turn = 0
               /\ turn' = 1
               /\ m_ClientsCount' = 0
               /\ UNCHANGED << m_Running, aborting, stopping, starts, slotVars, clientVars,
                               backlog, toServer, toClient >>

BeginStop == /\ m_Running /\ turn = 0
             /\ turn' = 1
             /\ stopping' = TRUE
             /\ UNCHANGED << m_Running, m_ClientsCount, aborting, starts, slotVars, clientVars,
                             backlog, toServer, toClient >>

(* The listener is closed, and with it what it has not accepted.            *)
EndStop == /\ turn = MAX_CLIENTS + 1 /\ stopping
           /\ turn' = 0
           /\ stopping' = FALSE
           /\ m_Running' = FALSE
           /\ backlog' = << >>
           /\ players' = {}
           /\ UNCHANGED << m_ClientsCount, aborting, starts, m_Socket, m_CurrentState, m_StopFlag,
                           m_EventQueue, m_ClientName, clientVars, toServer, toClient >>

(* The slot visited next; BeloteContext::Update follows the last one.       *)
NextTurn == IF turn = MAX_CLIENTS /\ ~stopping THEN 0 ELSE turn + 1

Visits(slot) == turn = slot /\ ~aborting

(* A free slot accepts a connection, unless the server is stopping.         *)
CheckConnection(slot) ==
    /\ Visits(slot) /\ ~IsConnected(slot)
    /\ turn' = NextTurn
    /\ IF stopping \/ backlog = << >>
       THEN UNCHANGED << backlog, slotVars >>
       ELSE /\ backlog' = Tail(backlog)
            /\ m_Socket' = [m_Socket EXCEPT ![slot] = Head(backlog)]
            /\ m_CurrentState' = [m_CurrentState EXCEPT ![slot] = "ConnectionRequest"]
            /\ m_StopFlag' = [m_StopFlag EXCEPT ![slot] = FALSE]
            /\ m_EventQueue' = [m_EventQueue EXCEPT ![slot] = << "WaitingName" >>]
            /\ UNCHANGED << m_ClientName, players >>
    /\ UNCHANGED << m_Running, m_ClientsCount, aborting, stopping, starts, clientVars,
                    toServer, toClient >>

(* The socket is closed; the count is that of the slots visited as           *)
(* connected, and Stop does not count.                                      *)
Close(slot) == m_Socket' = [m_Socket EXCEPT ![slot] = NoClient]

(* Mutated: Stop takes the slots it closes off the count.                   *)
CountDown == m_ClientsCount' = IF stopping THEN m_ClientsCount - 1 ELSE m_ClientsCount + 1

Count == m_ClientsCount' = IF stopping THEN m_ClientsCount ELSE m_ClientsCount + 1

(* A stopped machine frees its slot, which may accept at once.              *)
FreeSlot(slot) ==
    /\ Visits(slot) /\ IsConnected(slot) /\ m_StopFlag[slot]
    /\ Close(slot)
    /\ Count
    /\ UNCHANGED << m_Running, turn, aborting, stopping, starts, m_CurrentState, m_StopFlag,
                    m_EventQueue, m_ClientName, players, clientVars, backlog, toServer, toClient >>

(* ServerSocketPrivate::Abort, before the update of the machine.            *)
Abort(slot) ==
    /\ Visits(slot) /\ stopping /\ IsConnected(slot) /\ ~m_StopFlag[slot]
    /\ aborting' = TRUE
    /\ m_EventQueue' = [m_EventQueue EXCEPT ![slot] = Append(@, "DisconnectionRequest")]
    /\ UNCHANGED << m_Running, m_ClientsCount, turn, stopping, starts, m_Socket, m_CurrentState,
                    m_StopFlag, m_ClientName, players, clientVars, backlog, toServer, toClient >>

----------------------------------------------------------------------------
(* The state machine of a slot: its events, then one update of its state.   *)

InMachine(slot) ==
    /\ turn = slot /\ IsConnected(slot)
    /\ IF stopping THEN aborting ELSE ~m_StopFlag[slot]

SendTo(slot, packet) ==
    toClient' = [toClient EXCEPT ![m_Socket[slot]] = IF open[m_Socket[slot]] THEN Append(@, packet)
                                                                             ELSE @]

(* Mutated: one name for all broadcasts of a slot.                          *)
BroadcastSharedName(queues, kind, name) ==
    /\ m_EventQueue' = [j \in Slots |-> IF IsConnected(j) THEN Append(queues[j], kind)
                                                          ELSE queues[j]]
    /\ m_ClientName' = [j \in Slots |-> IF IsConnected(j) THEN [k \in Broadcasts |-> name]
                                                          ELSE m_ClientName[j]]

(* Server::ClientConnected and ClientDisconnected: the name is kept in the  *)
(* action of each connected slot, the event is queued.                      *)
Broadcast(queues, kind, name) ==
    /\ m_EventQueue' = [j \in Slots |-> IF IsConnected(j) THEN Append(queues[j], kind)
                                                          ELSE queues[j]]
    /\ m_ClientName' = [j \in Slots |-> IF IsConnected(j) THEN [m_ClientName[j] EXCEPT ![kind] = name]
                                                          ELSE m_ClientName[j]]

Popped(slot) == [m_EventQueue EXCEPT ![slot] = Tail(@)]

(* The transition of the current state for the event at the head.           *)
Transition(slot, source, event, target) ==
    /\ m_CurrentState[slot] = source /\ Head(m_EventQueue[slot]) = event
    /\ m_CurrentState' = [m_CurrentState EXCEPT ![slot] = target]

AcceptConnection(slot) ==
    /\ Transition(slot, "ConnectionRequest", "WaitingName", "WaitingName")
    /\ SendTo(slot, Packet(IF m_ClientsCount < MAX_CLIENTS_ON_TABLE
                           THEN "ConnectionAccepted" ELSE "ConnectionDeniedLobbyFull", NoClient))
    /\ m_EventQueue' = Popped(slot)
    /\ UNCHANGED << m_StopFlag, m_ClientName, players >>

NotifyClientConnected(slot) ==
    /\ Transition(slot, "WaitingName", "NameReceived", "Idle")
    /\ Broadcast(Popped(slot), "ClientConnected", m_Socket[slot])
    /\ players' = players \cup {slot}
    /\ UNCHANGED << m_StopFlag, toClient >>

(* Mutated: broadcasts are sent in whatever state the slot is.              *)
SendBroadcastAnywhere(slot) ==
    \E kind \in Broadcasts :
        /\ Transition(slot, m_CurrentState[slot], kind, m_CurrentState[slot])
        /\ SendTo(slot, Packet(kind, m_ClientName[slot][kind]))
        /\ m_EventQueue' = Popped(slot)
        /\ UNCHANGED << m_StopFlag, m_ClientName, players >>

SendBroadcast(slot) ==
    \E kind \in Broadcasts :
        /\ Transition(slot, "Idle", kind, "Idle")
        /\ SendTo(slot, Packet(kind, m_ClientName[slot][kind]))
        /\ m_EventQueue' = Popped(slot)
        /\ UNCHANGED << m_StopFlag, m_ClientName, players >>

(* Mutated: the transition has no action.                                   *)
DisconnectSilently(slot) ==
    /\ Transition(slot, "Idle", "DisconnectionRequest", "Disconnected")
    /\ m_StopFlag' = [m_StopFlag EXCEPT ![slot] = TRUE]
    /\ m_EventQueue' = Popped(slot)
    /\ UNCHANGED << m_ClientName, players, toClient >>

Disconnect(slot) ==
    /\ Transition(slot, "Idle", "DisconnectionRequest", "Disconnected")
    /\ SendTo(slot, Packet("ServerShuttingDown", NoClient))
    /\ m_StopFlag' = [m_StopFlag EXCEPT ![slot] = TRUE]
    /\ m_EventQueue' = Popped(slot)
    /\ UNCHANGED << m_ClientName, players >>

CanHandleEvent(slot) ==
    CASE m_CurrentState[slot] = "ConnectionRequest" -> Head(m_EventQueue[slot]) = "WaitingName"
      [] m_CurrentState[slot] = "WaitingName" -> Head(m_EventQueue[slot]) = "NameReceived"
      [] m_CurrentState[slot] = "Idle" ->
            Head(m_EventQueue[slot]) \in Broadcasts \cup {"DisconnectionRequest"}
      [] OTHER -> FALSE

HandleEvent(slot) ==
    /\ InMachine(slot) /\ m_EventQueue[slot] # << >>
    /\ \/ AcceptConnection(slot)
       \/ NotifyClientConnected(slot)
       \/ SendBroadcast(slot)
       \/ Disconnect(slot)
       \/ /\ ~CanHandleEvent(slot)
          /\ m_EventQueue' = Popped(slot)
          /\ UNCHANGED << m_CurrentState, m_StopFlag, m_ClientName, players, toClient >>
    /\ UNCHANGED << loopVars, m_Socket, clientVars, backlog, toServer >>

(* After the events: a packet of the client, if there is one.  A socket     *)
(* that Stop has made blocking waits for a packet, or for its end.          *)
NothingToRead(slot) ==
    \/ m_CurrentState[slot] = "Disconnected"
    \/ /\ toServer[m_Socket[slot]] = << >>
       /\ stopping => ~open[m_Socket[slot]]

ReceiveName(slot) ==
    /\ m_CurrentState[slot] = "WaitingName"
    /\ m_EventQueue' = IF Head(toServer[m_Socket[slot]]) = "ClientName"
                       THEN [m_EventQueue EXCEPT ![slot] = Append(@, "NameReceived")]
                       ELSE m_EventQueue
    /\ UNCHANGED << m_StopFlag, m_ClientName, players >>

(* Mutated: the player is not dropped.                                      *)
LeaveKeepingPlace(slot) ==
    /\ m_CurrentState[slot] = "Idle" /\ Head(toServer[m_Socket[slot]]) = "ClientLeave"
    /\ Broadcast(m_EventQueue, "ClientDisconnected", m_Socket[slot])
    /\ m_StopFlag' = [m_StopFlag EXCEPT ![slot] = TRUE]
    /\ UNCHANGED players

(* Mutated: the machine is not stopped.                                     *)
LeaveWithoutStop(slot) ==
    /\ m_CurrentState[slot] = "Idle" /\ Head(toServer[m_Socket[slot]]) = "ClientLeave"
    /\ Broadcast(m_EventQueue, "ClientDisconnected", m_Socket[slot])
    /\ players' = players \ {slot}
    /\ UNCHANGED m_StopFlag

ReceiveLeave(slot) ==
    /\ m_CurrentState[slot] = "Idle" /\ Head(toServer[m_Socket[slot]]) = "ClientLeave"
    /\ Broadcast(m_EventQueue, "ClientDisconnected", m_Socket[slot])
    /\ m_StopFlag' = [m_StopFlag EXCEPT ![slot] = TRUE]
    /\ players' = players \ {slot}

UpdateState(slot) ==
    /\ InMachine(slot) /\ m_EventQueue[slot] = << >>
    /\ \/ /\ NothingToRead(slot)
          /\ UNCHANGED << m_EventQueue, m_StopFlag, m_ClientName, players, toServer >>
       \/ /\ m_CurrentState[slot] # "Disconnected"
          /\ toServer[m_Socket[slot]] # << >>
          /\ toServer' = [toServer EXCEPT ![m_Socket[slot]] = Tail(@)]
          /\ ReceiveName(slot) \/ ReceiveLeave(slot)
    /\ aborting' = FALSE
    /\ turn' = NextTurn
    /\ Count
    /\ IF stopping THEN Close(slot) ELSE UNCHANGED m_Socket
    /\ UNCHANGED << m_Running, stopping, starts, m_CurrentState, clientVars, backlog, toClient >>

----------------------------------------------------------------------------
(* The clients.  Those of the server's thread do not act during a loop.  A   *)
(* visit reads the others once, after its events, so it is enough that they *)
(* act outside the events of a slot.                                        *)
MayAct(c) ==
    \/ turn = 0
    \/ c \notin Local /\ (turn \in Slots => ~IsConnected(turn) \/ m_EventQueue[turn] = << >>)

(* The first update of the client's machine: its connection waits for the   *)
(* listener.  Nothing tells the client that nobody listens; the clients of  *)
(* the server's thread connect after its start.                             *)
Connect(c) ==
    /\ MayAct(c) /\ state[c] = "Out"
    /\ c \in Local => m_Running
    /\ state' = [state EXCEPT ![c] = "Connecting"]
    /\ backlog' = IF m_Running THEN Append(backlog, c) ELSE backlog
    /\ UNCHANGED << loopVars, slotVars, open, toServer, toClient >>

Send(c, packet) == toServer' = [toServer EXCEPT ![c] = Append(@, packet)]

(* What a closed socket has not read is lost.                               *)
CloseSocket(c) == /\ open' = [open EXCEPT ![c] = FALSE]
                  /\ toClient' = [toClient EXCEPT ![c] = << >>]

Leave(c) == /\ state' = [state EXCEPT ![c] = "Disconnected"]
            /\ Send(c, "ClientLeave")
            /\ CloseSocket(c)

(* Mutated: an accepted client does not send its name.                      *)
HearVerdictSilently(c, type) ==
    /\ state[c] = "Connecting"
    /\ \/ /\ type = "ConnectionAccepted"
          /\ state' = [state EXCEPT ![c] = "Idle"]
          /\ toClient' = [toClient EXCEPT ![c] = Tail(@)]
          /\ UNCHANGED << open, toServer >>
       \/ type = "ConnectionDeniedLobbyFull" /\ Leave(c)

HearVerdict(c, type) ==
    /\ state[c] = "Connecting"
    /\ \/ /\ type = "ConnectionAccepted"
          /\ state' = [state EXCEPT ![c] = "Idle"]
          /\ Send(c, "ClientName")
          /\ toClient' = [toClient EXCEPT ![c] = Tail(@)]
          /\ UNCHANGED open
       \/ type = "ConnectionDeniedLobbyFull" /\ Leave(c)

HearOther(c, type) ==
    /\ IF state[c] = "Connecting"
       THEN type \notin {"ConnectionAccepted", "ConnectionDeniedLobbyFull"}
       ELSE type # "ServerShuttingDown"
    /\ toClient' = [toClient EXCEPT ![c] = Tail(@)]
    /\ UNCHANGED << state, open, toServer >>

(* The client reads a packet, with the transitions that follow: a verdict   *)
(* counts while it is connecting (Connected and LobbyFull are left in the   *)
(* same update), the end of the server once it is idle.                     *)
Hear(c) ==
    /\ MayAct(c) /\ open[c] /\ toClient[c] # << >>
    /\ LET type == Head(toClient[c]).type
       IN  \/ HearVerdict(c, type)
           \/ state[c] = "Idle" /\ type = "ServerShuttingDown" /\ Leave(c)
           \/ HearOther(c, type)
    /\ UNCHANGED << loopVars, slotVars, backlog >>

(* The person leaves the table.  A wish to leave while connecting waits for *)
(* the verdict (m_DisconnectRequested): it is made once idle.               *)
ClientDisconnects(c) ==
    /\ MayAct(c) /\ open[c] /\ state[c] = "Idle"
    /\ Leave(c)
    /\ UNCHANGED << loopVars, slotVars, backlog >>

(* The program of a client ends without a word (~ClientSocketPrivate).      *)
Vanish(c) ==
    /\ c \notin Local /\ MayAct(c) /\ open[c] /\ state[c] # "Out"
    /\ CloseSocket(c)
    /\ UNCHANGED << loopVars, slotVars, backlog, state, toServer >>

----------------------------------------------------------------------------
Init == /\ m_Running = TRUE /\ m_ClientsCount = 0 /\ turn = 0
        /\ aborting = FALSE /\ stopping = FALSE /\ starts = 1
        /\ backlog = << >>
        /\ m_Socket = [i \in Slots |-> NoClient]
        /\ m_CurrentState = [i \in Slots |-> "ConnectionRequest"]
        /\ m_StopFlag = [i \in Slots |-> TRUE]
        /\ m_EventQueue = [i \in Slots |-> << >>]
        /\ m_ClientName = [i \in Slots |-> [kind \in Broadcasts |-> NoClient]]
        /\ players = {}
        /\ state = [c \in Clients |-> "Out"]
        /\ open = [c \in Clients |-> TRUE]
        /\ toServer = [c \in Clients |-> << >>]
        /\ toClient = [c \in Clients |-> << >>]

SlotStep(slot) == \/ CheckConnection(slot) \/ FreeSlot(slot) \/ Abort(slot)
                  \/ HandleEvent(slot) \/ UpdateState(slot)

ServerUpdates == BeginUpdate \/ EndStop \/ \E slot \in Slots : SlotStep(slot)

Next == \/ ServerUpdates \/ Start \/ BeginStop
        \/ \E c \in Clients : \/ Connect(c) \/ Hear(c) \/ ClientDisconnects(c)
                              \/ Vanish(c)

Spec == Init /\ [][Next]_vars

(* The main loop goes on, and so does that of each client's program.        *)
FairSpec == /\ Spec
            /\ WF_vars(ServerUpdates)
            /\ \A c \in Clients : WF_vars(Hear(c))

----------------------------------------------------------------------------
ServerEvents == Broadcasts \cup {"WaitingName", "NameReceived", "DisconnectionRequest"}

ClientPackets == {"ClientName", "ClientLeave"}

ServerPackets == [type : Broadcasts \cup {"ConnectionAccepted", "ConnectionDeniedLobbyFull",
                                          "ServerShuttingDown"},
                  name : Clients \cup {NoClient}]

TypeOK ==
    /\ m_Running \in BOOLEAN /\ m_ClientsCount \in Nat
    /\ turn \in 0 .. MAX_CLIENTS + 1 /\ aborting \in BOOLEAN /\ stopping \in BOOLEAN
    /\ starts \in Nat
    /\ backlog \in Seq(Clients)
    /\ m_Socket \in [Slots -> Clients \cup {NoClient}]
    /\ m_CurrentState \in [Slots -> {"ConnectionRequest", "WaitingName", "Idle", "Disconnected"}]
    /\ m_StopFlag \in [Slots -> BOOLEAN]
    /\ m_EventQueue \in [Slots -> Seq(ServerEvents)]
    /\ m_ClientName \in [Slots -> [Broadcasts -> Clients \cup {NoClient}]]
    /\ players \in SUBSET Slots
    /\ state \in [Clients -> {"Out", "Connecting", "Idle", "Disconnected"}]
    /\ open \in [Clients -> BOOLEAN]
    /\ toServer \in [Clients -> Seq(ClientPackets)]
    /\ toClient \in [Clients -> Seq(ServerPackets)]

(* The players of the game are the clients that are connected, have given   *)
(* their name and have not left: AddPlayer and DropPlayer are called at the *)
(* two ends of Idle, the slot is freed and used again by other steps.       *)
(* While the server stops they are told one after the other.                *)
Idlers == {i \in Slots : IsConnected(i) /\ m_CurrentState[i] = "Idle" /\ ~m_StopFlag[i]}

TableIsIdle == IF stopping THEN Idlers \subseteq players ELSE players = Idlers

(* What a connecting client finds is its verdict and nothing else, although *)
(* each broadcast is queued at every connected slot, whatever its state: a  *)
(* client that was denied hears nothing of the table.                       *)
Verdicts == {"ConnectionAccepted", "ConnectionDeniedLobbyFull"}

VerdictFirst == \A c \in Clients : state[c] = "Connecting" =>
                    /\ Len(toClient[c]) <= 1
                    /\ \A i \in DOMAIN toClient[c] : toClient[c][i].type \in Verdicts

(* A client that is announced as gone is not at the table, one that is      *)
(* announced as connected has given its name.  The name is not in the event *)
(* but in the action, where a later broadcast overwrites it before the      *)
(* event is handled.                                                        *)
NewsAreTrue ==
    \A c \in Clients : \A i \in DOMAIN toClient[c] :
        LET news == toClient[c][i]
        IN  /\ news.type = "ClientDisconnected" => news.name \notin {m_Socket[j] : j \in players}
            /\ news.type = "ClientConnected" => state[news.name] # "Connecting"

(* "We want to be sure that the clients will get his disconnection message":*)
(* the slot of a player is closed only when the last thing its client was   *)
(* sent, or has read, is the end of the server.                             *)
ToldOfShutdown ==
    [][\A i \in players : m_Socket'[i] # m_Socket[i] =>
          LET c == m_Socket[i]
          IN  \/ ~open[c]
              \/ toClient[c] # << >> /\ toClient[c][Len(toClient[c])].type = "ServerShuttingDown"
      ]_vars

(* Stop makes the sockets blocking: it waits for the name of a client that  *)
(* was just accepted, for ever when this client is of its own thread.       *)
Hung == /\ stopping /\ turn \in Slots /\ aborting
        /\ m_Socket[turn] \in Local /\ m_EventQueue[turn] = << >>
        /\ toServer[m_Socket[turn]] = << >> /\ ~NothingToRead(turn)

(* Stop ends, unless it waits for a client that cannot act before it ends.  *)
StopEnds == stopping ~> (~stopping \/ Hung)

(* The slot of a player that has left is freed for another client (a client *)
(* that was denied keeps its slot).                                         *)
HasLeft(i) == /\ IsConnected(i) /\ m_CurrentState[i] = "Idle"
              /\ state[m_Socket[i]] = "Disconnected"

LeaverIsFreed == \A i \in Slots : HasLeft(i) ~> (~HasLeft(i) \/ Hung)
=============================================================================
