------------------------------ MODULE QtWindow ------------------------------
(***************************************************************************)
(* CuteBelote, the second client: its main window, the dialogs that host   *)
(* and join a game, the connection under them, and the server as this      *)
(* client meets it, with the other players as one.                         *)
(*                                                                         *)
(* Everything runs in the event loop of Qt.  A timer updates the           *)
(* connection; clicks come between two updates.  A dialog keeps the person *)
(* from the window but not the timer; a message box that is opened by an   *)
(* update also holds the timer, which Qt does not fire recursively.        *)
(* The window has no handler for a card to play: a round never ends here.  *)
(***************************************************************************)
EXTENDS Integers, Sequences, FiniteSets

CONSTANTS
    Seats,                  \* numbered as the position buttons are
    FirstGive, HandSize,    \* five and eight cards
    MaxConnects,            \* bound: how many times a connection is tried
    MaxClicks,              \* bound: clicks on the buttons of the setup scene
    MaxPackets              \* bound: unread packets, before the others move again

ASSUME WindowAssumption ==
    /\ Seats \subseteq Nat /\ IsFiniteSet(Seats)
    /\ FirstGive \in Nat /\ HandSize \in Nat /\ FirstGive <= HandSize
    /\ MaxConnects \in Nat /\ MaxClicks \in Nat /\ MaxPackets \in Nat

VARIABLES
    \* the window
    scene, mConnectionStatus, mMyPosition,
    taken,          \* the seats of the last positioning: their buttons are disabled
    unseat,         \* the seats whose unseat button is visible
    startVisible,
    mPlayerHand,    \* of an entry: null, or its card is "live" or "deleted"
    mPotentialAsset,
    askVisible,     \* the buttons that accept and refuse
    dialog, box,    \* what covers the window
    m_GameMode,
    \* the connection
    m_CurrentState, m_StopFlag, m_EventQueue, updating,
    m_PosName,      \* kept in the action that sends it
    m_DisconnectRequested, mCurrentConnectionStatus,
    \* the server
    server,         \* how far it is with this client
    isOwnServer,    \* it runs in this program
    table, unplaced, match, startPending,
    inbox, outbox,
    \* bounds, and a card was used after its deletion: nothing follows
    connects, clicks, undefined

seatVars    == << mMyPosition, taken, unseat >>
playVars    == << mPlayerHand, mPotentialAsset, askVisible >>
windowVars  == << scene, mConnectionStatus, startVisible, seatVars, playVars >>
coverVars   == << dialog, box >>
machineVars == << m_CurrentState, m_StopFlag, m_EventQueue, updating >>
socketVars  == << m_PosName, m_DisconnectRequested, mCurrentConnectionStatus >>
tableVars   == << table, unplaced, match, startPending >>
channelVars == << inbox, outbox >>
vars == << windowVars, coverVars, m_GameMode, machineVars, socketVars, server, isOwnServer,
           tableVars, channelVars, connects, clicks, undefined >>

Slots == 0 .. HandSize - 1
NoSeat == -1

Packet(type, seats) == [type |-> type, taken |-> seats]
Plain(types) == [i \in DOMAIN types |-> Packet(types[i], {})]

----------------------------------------------------------------------------
(* The connection, and the window that is told of its status.               *)

Notify(event) == m_EventQueue' = IF m_StopFlag THEN m_EventQueue ELSE Append(m_EventQueue, event)

(* Mutated: the button keeps the visibility it had.                         *)
StatusKeepingStart(new, prev) ==
    /\ mConnectionStatus' = new
    /\ box' = CASE prev = "CS_Connected" /\ m_GameMode # "GM_HOST" -> "ConnectionLost"
                [] prev = "CS_LobbyFull" -> "LobbyFull"
                [] OTHER -> box
    /\ scene' = IF new = "CS_Connected" THEN "setup" ELSE scene
    /\ startVisible' = (startVisible \/ (new = "CS_Connected" /\ m_GameMode = "GM_HOST"))

(* A session that ended is told of, the person's own leave included.        *)
OnConnectionStatusChanged(new, prev) ==
    /\ mConnectionStatus' = new
    /\ box' = CASE prev = "CS_Connected" /\ m_GameMode # "GM_HOST" -> "ConnectionLost"
                [] prev = "CS_LobbyFull" -> "LobbyFull"
                [] OTHER -> box
    /\ scene' = IF new = "CS_Connected" THEN "setup" ELSE scene
    /\ startVisible' = IF new = "CS_Connected" THEN m_GameMode = "GM_HOST" ELSE startVisible

EmitStatus(new) == /\ OnConnectionStatusChanged(new, mCurrentConnectionStatus)
                   /\ mCurrentConnectionStatus' = new

Running == ~undefined /\ box = "none" /\ ~m_StopFlag

(* One event of the queue, with its transition.                             *)
Transition(source, event, target, queued) ==
    /\ Running /\ m_EventQueue # << >>
    /\ m_CurrentState = source /\ Head(m_EventQueue) = event
    /\ m_CurrentState' = target
    /\ m_EventQueue' = Tail(m_EventQueue) \o queued
    /\ UNCHANGED << seatVars, playVars, dialog, m_GameMode, m_PosName, m_DisconnectRequested,
                    isOwnServer, tableVars, connects, clicks, undefined >>

Silent == UNCHANGED << mConnectionStatus, box, scene, startVisible, mCurrentConnectionStatus >>

ToConnecting ==
    /\ Transition("WaitingForConnection", "ConnectionRequest", "Connecting", << >>)
    /\ server' \in IF isOwnServer THEN {"asked"} ELSE {"asked", "gone"}
    /\ inbox' = << >> /\ outbox' = << >>
    /\ updating' = TRUE
    /\ UNCHANGED m_StopFlag
    /\ Silent

ToConnected ==
    /\ Transition("Connecting", "Connected", "Connected", << "SendName" >>)
    /\ updating' = TRUE
    /\ UNCHANGED << m_StopFlag, server, channelVars >>
    /\ Silent

ToIdle ==
    /\ Transition("Connected", "SendName", "Idle", << >>)
    /\ server' = IF server = "accepted" THEN "named" ELSE server
    /\ EmitStatus("CS_Connected")
    /\ updating' = TRUE
    /\ UNCHANGED << m_StopFlag, channelVars >>

ToLobbyFull ==
    /\ Transition("Connecting", "LobbyFull", "LobbyFull", << "DisconnectionRequest" >>)
    /\ EmitStatus("CS_LobbyFull")
    /\ updating' = TRUE
    /\ UNCHANGED << m_StopFlag, server, channelVars >>

(* ClientLeave is sent and the socket closed; the machine stops, and what   *)
(* its queue still holds is emptied by the next start.                      *)
ToDisconnected ==
    /\ \/ Transition("Idle", "DisconnectionRequest", "Disconnected", << >>)
       \/ Transition("LobbyFull", "DisconnectionRequest", "Disconnected", << >>)
    /\ EmitStatus("CS_Disconnected")
    /\ m_StopFlag' = TRUE
    /\ server' = "gone" /\ inbox' = << >> /\ outbox' = << >>
    /\ updating' = FALSE

Requests == {"SendPlayerPosition", "UnseatMe", "StartGame", "AcceptAsset", "RefuseAsset"}

(* A request is sent with what its action holds when the event is handled.  *)
SendRequest ==
    /\ \E request \in Requests :
          /\ Transition("Idle", request, "Idle", << >>)
          /\ outbox' = IF server \in {"named", "table"}
                       THEN Append(outbox, [type |-> request,
                                            seat |-> IF request = "SendPlayerPosition" THEN m_PosName
                                                                                       ELSE NoSeat])
                       ELSE outbox
    /\ updating' = TRUE
    /\ UNCHANGED << m_StopFlag, server, inbox >>
    /\ Silent

CanHandleEvent(event) ==
    CASE m_CurrentState = "WaitingForConnection" -> event = "ConnectionRequest"
      [] m_CurrentState = "Connecting" -> event \in {"Connected", "LobbyFull"}
      [] m_CurrentState = "Connected" -> event = "SendName"
      [] m_CurrentState = "LobbyFull" -> event = "DisconnectionRequest"
      [] m_CurrentState = "Idle" -> event \in Requests \cup {"DisconnectionRequest"}

DropEvent ==
    /\ Running /\ m_EventQueue # << >> /\ ~CanHandleEvent(Head(m_EventQueue))
    /\ m_EventQueue' = Tail(m_EventQueue)
    /\ updating' = TRUE
    /\ UNCHANGED << windowVars, coverVars, m_GameMode, m_CurrentState, m_StopFlag, socketVars,
                    server, isOwnServer, tableVars, channelVars, connects, clicks, undefined >>

----------------------------------------------------------------------------
(* The packets that Idle reads, and the slots of the window.                *)

(* The button of a taken seat is disabled; the person's own seat, the last  *)
(* one asked for, gets a button to leave it.                                *)
OnPositionningReceived(seats) ==
    /\ taken' = seats
    /\ unseat' = seats \cap {mMyPosition}
    /\ UNCHANGED << mMyPosition, playVars, scene, undefined >>

(* Mutated: only the host's window changes its scene.                       *)
GameStartingForHost == /\ scene' = IF m_GameMode = "GM_HOST" THEN "play" ELSE scene
                       /\ UNCHANGED << seatVars, playVars, undefined >>

OnGameStarting == /\ scene' = "play"
                  /\ UNCHANGED << seatVars, playVars, undefined >>

(* The cards of the hand before are removed and deleted, all eight entries  *)
(* of it; only those of the new cards are written.                          *)
OnCardsDealt(count) ==
    /\ undefined' = (\E i \in Slots : mPlayerHand[i] = "deleted")
    /\ mPlayerHand' = [i \in Slots |-> CASE i < count -> "live"
                                         [] i >= count /\ mPlayerHand[i] = "null" -> "null"
                                         [] OTHER -> "deleted"]
    /\ UNCHANGED << seatVars, mPotentialAsset, askVisible, scene >>

OnPotentialAssetReceived ==
    /\ mPotentialAsset' = "live"
    /\ askVisible' = FALSE
    /\ UNCHANGED << seatVars, mPlayerHand, scene, undefined >>

OnAskingRevealedAsset ==
    /\ askVisible' = TRUE
    /\ UNCHANGED << seatVars, mPlayerHand, mPotentialAsset, scene, undefined >>

(* Idle::Update with what PlayerSocket makes of a packet: signals, a few of *)
(* which no slot of the window is connected to.                             *)
HandleGameContextPacket(packet) ==
    \/ packet.type = "CurrentPositionning" /\ OnPositionningReceived(packet.taken)
    \/ packet.type = "GameStarting" /\ OnGameStarting
    \/ packet.type = "FirstCardsDealt" /\ OnCardsDealt(FirstGive)
    \/ packet.type = "AllCardsDealt" /\ OnCardsDealt(HandSize)
    \/ packet.type = "PotentialAsset" /\ OnPotentialAssetReceived
    \/ packet.type = "AskRevealedAsset" /\ OnAskingRevealedAsset
    \/ /\ packet.type \in {"AskAnotherAsset", "ServerShuttingDown"}
       /\ UNCHANGED << seatVars, playVars, scene, undefined >>

Notified(packet) ==
    CASE m_CurrentState = "Connecting" /\ packet.type = "ConnectionAccepted" -> << "Connected" >>
      [] m_CurrentState = "Connecting" /\ packet.type = "ConnectionDeniedLobbyFull" -> << "LobbyFull" >>
      [] m_CurrentState = "Idle" /\ packet.type = "ServerShuttingDown" -> << "DisconnectionRequest" >>
      [] OTHER -> << >>

Wish == IF m_DisconnectRequested THEN << "DisconnectionRequest" >> ELSE << >>

UpdateState ==
    /\ Running /\ m_EventQueue = << >>
    /\ \/ /\ m_CurrentState \in {"Connecting", "Idle"} /\ inbox # << >>
          /\ inbox' = Tail(inbox)
          /\ m_EventQueue' = Notified(Head(inbox)) \o Wish
          /\ IF m_CurrentState = "Idle" THEN HandleGameContextPacket(Head(inbox))
                                        ELSE UNCHANGED << seatVars, playVars, scene, undefined >>
       \/ /\ m_CurrentState \notin {"Connecting", "Idle"} \/ inbox = << >>
          /\ m_EventQueue' = Wish
          /\ UNCHANGED << inbox, seatVars, playVars, scene, undefined >>
    /\ updating' = FALSE
    /\ UNCHANGED << mConnectionStatus, startVisible, coverVars, m_GameMode, m_CurrentState,
                    m_StopFlag, socketVars, server, isOwnServer, tableVars, outbox, connects,
                    clicks >>

----------------------------------------------------------------------------
(* What the person does, between two updates.                               *)
MayClick == ~undefined /\ ~updating /\ box = "none" /\ dialog = "none"

(* Server::Stop, of the program's own server: a client at the table is told *)
(* of it, one whose name has not been read may be or not.                   *)
StopServer ==
    IF isOwnServer
    THEN /\ server' = "gone" /\ outbox' = << >>
         /\ \/ server \in {"named", "table"} /\ inbox' = inbox \o Plain(<< "ServerShuttingDown" >>)
            \/ server # "table" /\ UNCHANGED inbox
    ELSE UNCHANGED << server, channelVars >>

(* It waits for a name that this program will not send meanwhile.           *)
StopHangs == isOwnServer /\ server = "accepted"

OpenDialog ==
    /\ MayClick /\ mConnectionStatus # "CS_Connected" /\ connects < MaxConnects
    /\ dialog' \in {"GameSettings", "JoinGame"}
    /\ UNCHANGED << windowVars, box, m_GameMode, machineVars, socketVars, server, isOwnServer,
                    tableVars, channelVars, connects, clicks, undefined >>

InDialog == ~undefined /\ ~updating /\ box = "none" /\ dialog # "none"

CancelDialog ==
    /\ InDialog
    /\ dialog' = "none"
    /\ UNCHANGED << windowVars, box, m_GameMode, machineVars, socketVars, server, isOwnServer,
                    tableVars, channelVars, connects, clicks, undefined >>

(* GameSettings::accept and JoinGame::accept: both stop a server that runs. *)
(* The machine starts again, whatever the session is by now; the window     *)
(* shows none, without looking.                                             *)
AcceptDialog ==
    /\ InDialog /\ ~StopHangs
    /\ connects' = connects + 1
    /\ dialog' = "none"
    /\ m_GameMode' = IF dialog = "GameSettings" THEN "GM_HOST" ELSE "GM_CLIENT"
    /\ StopServer
    /\ isOwnServer' = (dialog = "GameSettings")
    /\ m_DisconnectRequested' = FALSE
    /\ m_StopFlag' = FALSE
    /\ m_CurrentState' = "WaitingForConnection"
    /\ m_EventQueue' = << "ConnectionRequest" >>
    /\ OnConnectionStatusChanged("CS_Disconnected", "CS_Disconnected")
    /\ UNCHANGED << seatVars, playVars, updating, m_PosName, mCurrentConnectionStatus, tableVars,
                    clicks, undefined >>

HangInDialog ==
    /\ InDialog /\ StopHangs
    /\ box' = "Hung"
    /\ UNCHANGED << windowVars, dialog, m_GameMode, machineVars, socketVars, server, isOwnServer,
                    tableVars, channelVars, connects, clicks, undefined >>

OnLeaveGame ==
    /\ MayClick /\ mConnectionStatus = "CS_Connected"
    /\ m_DisconnectRequested' = TRUE
    /\ IF m_GameMode = "GM_HOST" THEN StopServer ELSE UNCHANGED << server, channelVars >>
    /\ UNCHANGED << windowVars, coverVars, m_GameMode, machineVars, m_PosName,
                    mCurrentConnectionStatus, isOwnServer, tableVars, connects, clicks, undefined >>

CloseBox ==
    /\ box \in {"ConnectionLost", "LobbyFull"}
    /\ box' = "none"
    /\ UNCHANGED << windowVars, dialog, m_GameMode, machineVars, socketVars, server, isOwnServer,
                    tableVars, channelVars, connects, clicks, undefined >>

(* Buttons of the scenes: they can be clicked without a session too.        *)
Click(where, request) ==
    /\ MayClick /\ scene = where
    /\ clicks' = IF where = "setup" THEN clicks + 1 ELSE clicks
    /\ clicks' <= MaxClicks
    /\ Notify(request)
    /\ UNCHANGED << scene, mConnectionStatus, taken, unseat, startVisible, mPlayerHand,
                    mPotentialAsset, coverVars, m_GameMode, m_CurrentState, m_StopFlag, updating,
                    m_DisconnectRequested, mCurrentConnectionStatus, server, isOwnServer, tableVars,
                    channelVars, connects, undefined >>

(* Mutated: only the first choice is remembered.                            *)
FirstPosButtonPressed(seat) ==
    /\ Click("setup", "SendPlayerPosition") /\ seat \notin taken
    /\ mMyPosition' = IF mMyPosition = NoSeat THEN seat ELSE mMyPosition
    /\ m_PosName' = seat
    /\ UNCHANGED askVisible

OnPosButtonPressed(seat) ==
    /\ Click("setup", "SendPlayerPosition") /\ seat \notin taken
    /\ mMyPosition' = seat /\ m_PosName' = seat
    /\ UNCHANGED askVisible

UnseatMe == /\ Click("setup", "UnseatMe") /\ unseat # {}
            /\ UNCHANGED << mMyPosition, m_PosName, askVisible >>

StartGame == /\ Click("setup", "StartGame") /\ startVisible
             /\ UNCHANGED << mMyPosition, m_PosName, askVisible >>

AnswerProposedAsset ==
    /\ askVisible
    /\ Click("play", "AcceptAsset") \/ Click("play", "RefuseAsset")
    /\ askVisible' = FALSE
    /\ UNCHANGED << mMyPosition, m_PosName >>

----------------------------------------------------------------------------
(* The server.  Its own update runs in the loop of a program that hosts it. *)
Serves == ~undefined /\ (isOwnServer => box = "none" /\ ~updating)

Send(types) == inbox' = inbox \o Plain(types)

ServerAnswers ==
    /\ Serves /\ server = "asked"
    /\ \/ server' = "accepted" /\ Send(<< "ConnectionAccepted" >>)
       \/ server' = "denied" /\ Send(<< "ConnectionDeniedLobbyFull" >>)
    /\ UNCHANGED << windowVars, coverVars, m_GameMode, machineVars, socketVars, isOwnServer,
                    tableVars, outbox, connects, clicks, undefined >>

(* The end of a server elsewhere, with or without a word.                   *)
ServerEnds ==
    /\ ~undefined /\ ~isOwnServer /\ server \in {"named", "table"}
    /\ server' = "gone" /\ outbox' = << >>
    /\ Send(<< "ServerShuttingDown" >>) \/ UNCHANGED inbox
    /\ UNCHANGED << windowVars, coverVars, m_GameMode, machineVars, socketVars, isOwnServer,
                    tableVars, connects, clicks, undefined >>

Me == "me"
Occupied(seating) == {s \in Seats : seating[s] # "nobody"}
Mine(seating) == {s \in Seats : seating[s] = Me}

(* SendCurrentPositioningToAll: this client, if it has a place.             *)
Position(seating, isUnplaced) ==
    /\ table' = seating /\ unplaced' = isUnplaced
    /\ inbox' = IF isUnplaced \/ Mine(seating) # {}
                THEN Append(inbox, Packet("CurrentPositionning", Occupied(seating))) ELSE inbox

TableStep == UNCHANGED << windowVars, coverVars, m_GameMode, machineVars, socketVars, isOwnServer,
                          connects, clicks, undefined >>

(* AddPlayer, once the name is read; the others are seated or not.          *)
ServerAdds ==
    /\ Serves /\ server = "named"
    /\ server' = "table"
    /\ \E seating \in [Seats -> {"nobody", "other"}] : Position(seating, TRUE)
    /\ match' = "none" /\ startPending' = FALSE
    /\ UNCHANGED outbox
    /\ TableStep

(* Before a match: another player takes a free seat, leaves one, or moves,  *)
(* over whoever sits there.                                                 *)
OthersMove ==
    /\ Serves /\ server = "table" /\ match = "none" /\ Len(inbox) < MaxPackets
    /\ \E seat \in Seats :
          \/ table[seat] = "nobody" /\ Position([table EXCEPT ![seat] = "other"], unplaced)
          \/ table[seat] = "other" /\ Position([table EXCEPT ![seat] = "nobody"], unplaced)
          \/ \E old \in Seats \ {seat} :
                /\ table[old] = "other"
                /\ Position([table EXCEPT ![old] = "nobody", ![seat] = "other"], unplaced)
    /\ UNCHANGED << server, match, startPending, outbox >>
    /\ TableStep

(* How a match proposes its card, seen from this client: the turn is with   *)
(* others who are asked before it, with this client ("mine"), with others   *)
(* after its answer, with this client again in the second phase, where it   *)
(* is asked for another asset ("another"), or with the last of the others.  *)
Proposals == {"others", "mine", "after", "another", "last"}

(* PreTurn and DealFirstPart: the seated are dealt cards and the first one  *)
(* is asked, this client or another.                                        *)
PreTurn(news) ==
    \/ /\ match' = "others"
       /\ IF Mine(table) # {} THEN Send(news \o << "FirstCardsDealt", "PotentialAsset" >>)
                              ELSE UNCHANGED inbox
    \/ /\ Mine(table) # {}
       /\ match' = "mine"
       /\ Send(news \o << "FirstCardsDealt", "PotentialAsset", "AskRevealedAsset" >>)

(* NotifyStarting, then the first round.                                    *)
Deal == /\ PreTurn(<< "GameStarting" >>)
        /\ startPending' = FALSE
        /\ UNCHANGED << table, unplaced >>

(* A start waits for bots when seats are free.                              *)
ServerStarts == IF Occupied(table) = Seats THEN Deal
                ELSE startPending' = TRUE /\ UNCHANGED << table, unplaced, match, inbox >>

(* BeloteContext::Update, or the host when it is another client.            *)
OthersStart ==
    /\ Serves /\ server = "table" /\ match = "none" /\ Occupied(table) = Seats
    /\ startPending \/ ~isOwnServer
    /\ Deal
    /\ UNCHANGED << server, outbox >>
    /\ TableStep

(* AcceptAsset, DealLastPart: whoever's turn it is.                         *)
Accepted == /\ match' = "play"
            /\ IF Mine(table) # {} THEN Send(<< "AllCardsDealt" >>) ELSE UNCHANGED inbox
            /\ UNCHANGED << table, unplaced, startPending >>

(* The turn goes round twice, whoever it is that refused; a card that      *)
(* nobody takes is dealt anew.                                              *)
Refused == /\ UNCHANGED << table, unplaced, startPending >>
           /\ \/ match \in {"others", "after", "last"} /\ UNCHANGED << match, inbox >>
              \/ /\ match = "others" /\ Mine(table) # {}
                 /\ match' = "mine" /\ Send(<< "AskRevealedAsset" >>)
              \/ match = "mine" /\ match' = "after" /\ UNCHANGED inbox
              \/ match = "after" /\ match' = "another" /\ Send(<< "AskAnotherAsset" >>)
              \/ match = "another" /\ match' = "last" /\ UNCHANGED inbox
              \/ match \in {"another", "last"} /\ PreTurn(<< >>)

OthersAnswer ==
    /\ Serves /\ server = "table" /\ match \in {"others", "after", "last"}
    /\ Accepted \/ Refused
    /\ UNCHANGED << server, outbox >>
    /\ TableStep

SetPlayerPos(seat) ==
    /\ UNCHANGED << match, startPending >>
    /\ CASE unplaced /\ table[seat] = "nobody" -> Position([table EXCEPT ![seat] = Me], FALSE)
         [] ~unplaced /\ Mine(table) # {} ->
               Position([s \in Seats |-> CASE s = seat -> Me
                                           [] s # seat /\ table[s] = Me -> "nobody"
                                           [] OTHER -> table[s]], FALSE)
         [] OTHER -> Position(table, unplaced)

UnseatPlayer ==
    /\ UNCHANGED << match, startPending >>
    /\ Position([s \in Seats |-> IF table[s] = Me THEN "nobody" ELSE table[s]],
                unplaced \/ Mine(table) # {})

(* An answer outside the proposals, or a seat given up during a match,      *)
(* leaves a server that is not modelled further.                            *)
Breaks == match' = "broken" /\ UNCHANGED << table, unplaced, startPending, inbox >>

ServerReads ==
    /\ Serves /\ server = "table" /\ match # "broken" /\ outbox # << >>
    /\ outbox' = Tail(outbox)
    /\ LET request == Head(outbox)
           asking  == match \in Proposals
       IN  \/ match = "none" /\ request.type = "SendPlayerPosition" /\ SetPlayerPos(request.seat)
           \/ match = "none" /\ request.type = "UnseatMe" /\ UnseatPlayer
           \/ request.type = "StartGame" /\ ServerStarts
           \/ asking /\ request.type = "AcceptAsset" /\ Accepted
           \/ asking /\ request.type = "RefuseAsset" /\ Refused
           \/ ~asking /\ request.type \in {"AcceptAsset", "RefuseAsset"} /\ Breaks
           \/ match # "none" /\ request.type \in {"SendPlayerPosition", "UnseatMe"} /\ Breaks
    /\ UNCHANGED server
    /\ TableStep

----------------------------------------------------------------------------
Init == /\ scene = "play" /\ mConnectionStatus = "CS_Disconnected"
        /\ mMyPosition = NoSeat /\ taken = {} /\ unseat = {} /\ startVisible = TRUE
        /\ mPlayerHand = [i \in Slots |-> "null"]
        /\ mPotentialAsset = "null" /\ askVisible = FALSE
        /\ dialog = "none" /\ box = "none"
        /\ m_GameMode \in {"GM_HOST", "GM_CLIENT"}
        /\ m_CurrentState = "None" /\ m_StopFlag = TRUE /\ m_EventQueue = << >> /\ updating = FALSE
        /\ m_PosName = NoSeat /\ m_DisconnectRequested = FALSE
        /\ mCurrentConnectionStatus = "CS_Disconnected"
        /\ server = "gone" /\ isOwnServer = FALSE
        /\ table = [s \in Seats |-> "nobody"] /\ unplaced = FALSE /\ match = "none"
        /\ startPending = FALSE
        /\ inbox = << >> /\ outbox = << >>
        /\ connects = 0 /\ clicks = 0 /\ undefined = FALSE

OnUpdate == \/ ToConnecting \/ ToConnected \/ ToIdle \/ ToLobbyFull \/ ToDisconnected
            \/ SendRequest \/ DropEvent \/ UpdateState

PersonStep == \/ OpenDialog \/ CancelDialog \/ AcceptDialog \/ HangInDialog \/ OnLeaveGame
              \/ \E seat \in Seats : OnPosButtonPressed(seat)
              \/ UnseatMe \/ StartGame \/ AnswerProposedAsset

ServerStep == \/ ServerAnswers \/ ServerEnds \/ ServerAdds \/ OthersMove \/ OthersStart
              \/ OthersAnswer \/ ServerReads

Next == OnUpdate \/ PersonStep \/ CloseBox \/ ServerStep

Spec == Init /\ [][Next]_vars

----------------------------------------------------------------------------
(* The window and the server have heard of each other, in a session.        *)
Quiet == /\ m_CurrentState = "Idle" /\ server = "table"
         /\ m_EventQueue = << >> /\ inbox = << >> /\ outbox = << >>

(* Only the host starts a match.  The mode is changed by a dialog that may  *)
(* be accepted after the session it was opened without has begun, while the *)
(* button and the clicks on it are still those of that session.             *)
OnlyHostStarts == \A i \in DOMAIN outbox : outbox[i].type = "StartGame" => isOwnServer

(* A seated person can leave the seat: the button is on that seat, although *)
(* the window does not know its seat but only the last one it asked for,    *)
(* which the server may have refused.                                       *)
SeatedCanLeave ==
    Quiet /\ match = "none" /\ Mine(table) # {} => unseat = Mine(table)

(* The server never waits for the answer to a card that it proposes in the  *)
(* first phase while the window does not offer it, with the card it is      *)
(* about, whatever earlier starts, deals and sessions have left on it.  The *)
(* question of the second phase ("another") reaches no button: the server   *)
(* then waits for an answer that the person cannot give.                    *)
QuestionIsShown ==
    Quiet /\ match = "mine" => askVisible /\ mPotentialAsset = "live" /\ scene = "play"
=============================================================================
