---------------------------- MODULE ClientScreen ----------------------------
(***************************************************************************)
(* The program of a person: the main loop with its two screens, the state  *)
(* machine of its connection, and the queue of connection statuses between *)
(* them.  An iteration of the loop handles the events of the window, loads *)
(* the pending screens, updates the machine and fires the queued events;   *)
(* every click, event of the machine and fired status is a step.           *)
(*                                                                         *)
(* A person does one thing per iteration (there are 60 of them a second),  *)
(* and what a server answers is read in a later update than the packet it  *)
(* answers was sent in.  What the game screen does with the packets of the *)
(* game is modelled by TurnProtocol, the server by ServerSlots.            *)
(***************************************************************************)
EXTENDS Integers, Sequences

CONSTANTS
    MaxConnects,    \* bound: how many times a connection is tried
    MaxPackets      \* bound: packets of the game that wait in the socket

ASSUME ScreenAssumption == MaxConnects \in Nat /\ MaxPackets \in Nat

VARIABLES
    step,           \* what the loop does next
    IsOpened,       \* the window
    screen,         \* the script whose windows are shown: "menu" or "game"
    menuScreen,     \* of the menu, the last of its screenHistory
    ErrorMsgBox,    \* of the menu, the modal message it shows
    m_GameMode,
    m_QuitPending, m_LoadMenuPending, m_MenuReason, m_LoadGamePending,
    \* the connection
    m_CurrentState, m_StopFlag, m_EventQueue,
    m_DisconnectRequested, m_IsDisconnecting,
    m_ConnectionStatus,     \* the statuses to fire
    \* the server
    server,         \* how far it is with this client
    inbox,          \* what the socket has not been asked for
    isOwnServer,    \* it is the one of this program
    m_Running,      \* the server of this program runs, whoever is connected to it
    connects

loopVars    == << step, IsOpened >>
guiVars     == << screen, menuScreen, ErrorMsgBox, m_GameMode >>
pendingVars == << m_QuitPending, m_LoadMenuPending, m_MenuReason, m_LoadGamePending >>
machineVars == << m_CurrentState, m_StopFlag, m_EventQueue >>
wishVars    == << m_DisconnectRequested, m_IsDisconnecting >>
serverVars  == << server, inbox, connects, isOwnServer, m_Running >>
vars == << loopVars, guiVars, pendingVars, machineVars, wishVars, m_ConnectionStatus, serverVars >>

----------------------------------------------------------------------------
(* The server, as this client sees it.                                      *)
Arrives(packet) == inbox' = Append(inbox, packet)

ServerAnswers ==
    /\ server = "asked" /\ step = "events"
    /\ \/ server' = "accepted" /\ Arrives("ConnectionAccepted")
       \/ server' = "denied" /\ Arrives("ConnectionDeniedLobbyFull")
    /\ UNCHANGED << loopVars, guiVars, pendingVars, machineVars, wishVars, m_ConnectionStatus,
                    connects, isOwnServer, m_Running >>

(* Once it has the name: packets of the game; or the end of a server that is *)
(* elsewhere, which may come without a word.                                *)
ServerSends ==
    /\ server = "named" /\ step = "events"
    /\ \/ Len(inbox) < MaxPackets /\ Arrives("GameContextPacket") /\ UNCHANGED server
       \/ ~isOwnServer /\ server' = "gone" /\ Arrives("ServerShuttingDown")
       \/ ~isOwnServer /\ server' = "gone" /\ UNCHANGED inbox
    /\ UNCHANGED << loopVars, guiVars, pendingVars, machineVars, wishVars, m_ConnectionStatus,
                    connects, isOwnServer, m_Running >>

(* Server::Stop of the program's own server, as far as this client is told.  *)
CloseOwnSession ==
    IF m_Running /\ isOwnServer
    THEN /\ server' = "gone"
         /\ inbox' = IF server = "named" THEN Append(inbox, "ServerShuttingDown") ELSE inbox
    ELSE UNCHANGED << server, inbox >>

StopServer == CloseOwnSession /\ m_Running' = FALSE

(* It waits for the name of a client it has answered, which this program    *)
(* will not send any more: see ServerSlots.                                 *)
StopHangs == m_Running /\ isOwnServer /\ server \in {"accepted", "denied"}

----------------------------------------------------------------------------
(* HandleEvents: what the person does.                                      *)

LoadMenu(reason) == m_MenuReason' = reason /\ m_LoadMenuPending' = TRUE

LoadGame == m_LoadGamePending' = TRUE

ClientDisconnect == m_IsDisconnecting' = TRUE /\ m_DisconnectRequested' = TRUE

Poll == step = "events" /\ IsOpened

Polled == Poll /\ step' = "load"

(* Nothing is done; a program that is to quit closes its window.            *)
Idles == /\ Polled
         /\ \/ UNCHANGED IsOpened
            \/ m_QuitPending /\ IsOpened' = FALSE
         /\ UNCHANGED << guiVars, pendingVars, machineVars, wishVars, m_ConnectionStatus, serverVars >>

(* Buttons of the menu: the modal message box covers them.                  *)
OnMenu == ~m_QuitPending /\ screen = "menu" /\ ErrorMsgBox = "none"

ChooseMode ==
    /\ Polled /\ OnMenu
    /\ \/ /\ menuScreen = "MenuScreenMain"
          /\ \/ m_GameMode' = "GM_HOST" /\ menuScreen' = "MenuScreenRules"
             \/ m_GameMode' = "GM_CLIENT" /\ menuScreen' = "MenuScreenJoinGame"
       \/ /\ menuScreen # "MenuScreenMain"
          /\ menuScreen' = "MenuScreenMain" /\ UNCHANGED m_GameMode
    /\ UNCHANGED << IsOpened, screen, ErrorMsgBox, pendingVars, machineVars, wishVars,
                    m_ConnectionStatus, serverVars >>

(* Server::Start, which stops a server that still runs.                     *)
Host == /\ menuScreen = "MenuScreenRules" /\ ~StopHangs
        /\ CloseOwnSession
        /\ isOwnServer' = TRUE /\ m_Running' = TRUE

(* The address of a server elsewhere, or the program's own.                 *)
Join == /\ menuScreen = "MenuScreenJoinGame"
        /\ isOwnServer' \in {FALSE, m_Running}
        /\ UNCHANGED << server, inbox, m_Running >>

(* onRulesStart and onDoJoinGame: the machine starts again, whatever it was *)
(* doing.  What the queue of statuses holds stays there.                    *)
Connect ==
    /\ Polled /\ OnMenu /\ connects < MaxConnects
    /\ Host \/ Join
    /\ connects' = connects + 1
    /\ ErrorMsgBox' = "Wait"
    /\ m_IsDisconnecting' = FALSE /\ m_DisconnectRequested' = FALSE
    /\ m_StopFlag' = FALSE
    /\ m_CurrentState' = "WaitingForConnection"
    /\ m_EventQueue' = << "ConnectionRequest" >>
    /\ UNCHANGED << IsOpened, screen, menuScreen, m_GameMode, pendingVars, m_ConnectionStatus >>

(* The message of a connection under way has no button.                     *)
OnErrorOk ==
    /\ Polled /\ ~m_QuitPending /\ screen = "menu" /\ ErrorMsgBox \notin {"none", "Wait"}
    /\ ErrorMsgBox' = "none"
    /\ UNCHANGED << IsOpened, screen, menuScreen, m_GameMode, pendingVars, machineVars, wishVars,
                    m_ConnectionStatus, serverVars >>

OnQuitTable ==
    /\ Polled /\ ~m_QuitPending /\ screen = "game"
    /\ \/ m_GameMode = "GM_HOST" /\ ~StopHangs /\ StopServer
       \/ m_GameMode = "GM_CLIENT" /\ UNCHANGED << server, inbox, m_Running >>
    /\ ClientDisconnect
    /\ LoadMenu("MR_Normal")
    /\ UNCHANGED << IsOpened, guiVars, m_QuitPending, m_LoadGamePending, machineVars,
                    m_ConnectionStatus, connects, isOwnServer >>

(* The quit button, or the window's own: it closes once no sound is played. *)
Quit ==
    /\ Polled /\ ~m_QuitPending /\ ~StopHangs
    /\ m_QuitPending' = TRUE
    /\ StopServer
    /\ ClientDisconnect
    /\ IsOpened' \in BOOLEAN
    /\ UNCHANGED << guiVars, m_LoadMenuPending, m_MenuReason, m_LoadGamePending, machineVars,
                    m_ConnectionStatus, connects, isOwnServer >>

(* The start of the server, the way out of the table it hosts and the end   *)
(* of the program stop the server first: the loop may stay there.           *)
StopWaits ==
    /\ Poll /\ ~m_QuitPending /\ StopHangs
    /\ step' = "hung"
    /\ \/ /\ \/ OnMenu /\ menuScreen = "MenuScreenRules" /\ connects < MaxConnects
             \/ screen = "game" /\ m_GameMode = "GM_HOST"
          /\ UNCHANGED m_QuitPending
       \/ m_QuitPending' = TRUE
    /\ UNCHANGED << IsOpened, guiVars, m_LoadMenuPending, m_MenuReason, m_LoadGamePending,
                    machineVars, wishVars, m_ConnectionStatus, serverVars >>

----------------------------------------------------------------------------
(* DoLoadMenu, then DoLoadGame.  Handlers of the screen before are removed. *)
LoadScreens ==
    /\ step = "load"
    /\ step' = IF m_StopFlag THEN "fire" ELSE "machine"
    /\ IF m_LoadMenuPending
       THEN /\ menuScreen' = "MenuScreenMain"
            /\ ErrorMsgBox' = CASE m_MenuReason = "MR_Normal"         -> "none"
                                [] m_MenuReason = "MR_ConnectionLost" -> "LostConnection"
                                [] m_MenuReason = "MR_Unknown"        -> "Unknown"
       ELSE UNCHANGED << menuScreen, ErrorMsgBox >>
    /\ screen' = CASE m_LoadGamePending                       -> "game"
                   [] m_LoadMenuPending /\ ~m_LoadGamePending -> "menu"
                   [] OTHER                                   -> screen
    /\ m_LoadMenuPending' = FALSE /\ m_LoadGamePending' = FALSE
    /\ UNCHANGED << IsOpened, m_GameMode, m_QuitPending, m_MenuReason, machineVars, wishVars,
                    m_ConnectionStatus, serverVars >>

----------------------------------------------------------------------------
(* ClientSocket::Update: the events of the machine, then its state.         *)

(* Mutated: no guard.                                                       *)
PushAlways(status) == m_ConnectionStatus' = Append(m_ConnectionStatus, status)

(* OnConnectionStatusChanged: a status is queued behind CS_Connected only.  *)
Push(status) ==
    m_ConnectionStatus' =
        IF m_ConnectionStatus = << >> \/ m_ConnectionStatus[Len(m_ConnectionStatus)] = "CS_Connected"
        THEN Append(m_ConnectionStatus, status) ELSE m_ConnectionStatus

(* The transition of a state for the first event, and what it queues.       *)
Transition(source, event, target, queued) ==
    /\ step = "machine" /\ m_EventQueue # << >>
    /\ m_CurrentState = source /\ Head(m_EventQueue) = event
    /\ m_CurrentState' = target
    /\ m_EventQueue' = Tail(m_EventQueue) \o queued
    /\ UNCHANGED << loopVars, guiVars, pendingVars, wishVars, connects, isOwnServer, m_Running >>

(* The socket is connected anew; no one may be there.                       *)
ToConnecting ==
    /\ Transition("WaitingForConnection", "ConnectionRequest", "Connecting", << >>)
    /\ server' \in {"asked", "gone"} /\ inbox' = << >>
    /\ UNCHANGED << m_StopFlag, m_ConnectionStatus >>

ToConnected ==
    /\ Transition("Connecting", "Connected", "Connected", << "SendName" >>)
    /\ UNCHANGED << m_StopFlag, m_ConnectionStatus, server, inbox >>

ToLobbyFull ==
    /\ Transition("Connecting", "LobbyFull", "LobbyFull", << "DisconnectionRequest" >>)
    /\ Push("CS_LobbyFull")
    /\ UNCHANGED << m_StopFlag, server, inbox >>

(* Mutated: the screen is not told.                                         *)
ToIdleSilently ==
    /\ Transition("Connected", "SendName", "Idle", << >>)
    /\ server' = IF server = "accepted" THEN "named" ELSE server
    /\ UNCHANGED << m_StopFlag, m_ConnectionStatus, inbox >>

(* SendName, and Idle is entered.                                           *)
ToIdle ==
    /\ Transition("Connected", "SendName", "Idle", << >>)
    /\ server' = IF server = "accepted" THEN "named" ELSE server
    /\ Push("CS_Connected")
    /\ UNCHANGED << m_StopFlag, inbox >>

(* ClientLeave is sent and the socket closed; Disconnected stops the machine. *)
ToDisconnected ==
    /\ \/ Transition("Idle", "DisconnectionRequest", "Disconnected", << >>)
       \/ Transition("LobbyFull", "DisconnectionRequest", "Disconnected", << >>)
    /\ server' = "gone" /\ inbox' = << >>
    /\ Push("CS_Disconnected")
    /\ m_StopFlag' = TRUE

(* A state drops the events it has no transition for.                       *)
DropEvent ==
    /\ step = "machine" /\ m_EventQueue # << >>
    /\ << m_CurrentState, Head(m_EventQueue) >> \notin
          { << "WaitingForConnection", "ConnectionRequest" >>, << "Connecting", "Connected" >>,
            << "Connecting", "LobbyFull" >>, << "Connected", "SendName" >>,
            << "Idle", "DisconnectionRequest" >>, << "LobbyFull", "DisconnectionRequest" >> }
    /\ m_EventQueue' = Tail(m_EventQueue)
    /\ UNCHANGED << loopVars, guiVars, pendingVars, m_CurrentState, m_StopFlag, wishVars,
                    m_ConnectionStatus, serverVars >>

(* Mutated: the end of the server is read and ignored.                      *)
NotifiedOfAnswers(packet) ==
    CASE m_CurrentState = "Connecting" /\ packet = "ConnectionAccepted"        -> << "Connected" >>
      [] m_CurrentState = "Connecting" /\ packet = "ConnectionDeniedLobbyFull" -> << "LobbyFull" >>
      [] OTHER -> << >>

(* What the state's own update makes of a packet: the event it notifies.    *)
Notified(packet) ==
    CASE m_CurrentState = "Connecting" /\ packet = "ConnectionAccepted"        -> << "Connected" >>
      [] m_CurrentState = "Connecting" /\ packet = "ConnectionDeniedLobbyFull" -> << "LobbyFull" >>
      [] m_CurrentState = "Idle" /\ packet = "ServerShuttingDown" -> << "DisconnectionRequest" >>
      [] OTHER -> << >>

(* The wish to leave is notified again by each update.                      *)
Wish == IF m_DisconnectRequested THEN << "DisconnectionRequest" >> ELSE << >>

(* One packet is read.  Of a lost connection the socket reports an error or *)
(* nothing; Idle has no transition for the one, and ignores the other.      *)
UpdateState ==
    /\ step = "machine" /\ m_EventQueue = << >>
    /\ \/ /\ m_CurrentState \in {"Connecting", "Idle"} /\ inbox # << >>
          /\ inbox' = Tail(inbox)
          /\ m_EventQueue' = Notified(Head(inbox)) \o Wish
       \/ /\ m_CurrentState \notin {"Connecting", "Idle"} \/ inbox = << >>
          /\ m_EventQueue' = Wish
          /\ UNCHANGED inbox
       \/ /\ m_CurrentState = "Idle" /\ inbox = << >> /\ server = "gone"
          /\ m_EventQueue' = << "CantConnect" >> \o Wish
          /\ UNCHANGED inbox
    /\ step' = "fire"
    /\ UNCHANGED << IsOpened, guiVars, pendingVars, m_CurrentState, m_StopFlag, wishVars,
                    m_ConnectionStatus, server, connects, isOwnServer, m_Running >>

----------------------------------------------------------------------------
(* PlayerSocket::Update fires the statuses, unless the person is leaving.   *)
FireStatus ==
    /\ step = "fire" /\ ~m_IsDisconnecting /\ m_ConnectionStatus # << >>
    /\ m_ConnectionStatus' = Tail(m_ConnectionStatus)
    /\ LET status == Head(m_ConnectionStatus)
       IN  \/ /\ screen = "menu" /\ status = "CS_Connected"
              /\ LoadGame
              /\ UNCHANGED << ErrorMsgBox, m_LoadMenuPending, m_MenuReason >>
           \/ /\ screen = "menu" /\ status # "CS_Connected"
              /\ ErrorMsgBox' = IF status = "CS_LobbyFull" THEN "LobbyFull" ELSE "Unreachable"
              /\ UNCHANGED << m_LoadMenuPending, m_MenuReason, m_LoadGamePending >>
           \/ /\ screen = "game"
              /\ LoadMenu(IF status = "CS_Disconnected" THEN "MR_ConnectionLost" ELSE "MR_Unknown")
              /\ UNCHANGED << ErrorMsgBox, m_LoadGamePending >>
    /\ UNCHANGED << loopVars, screen, menuScreen, m_GameMode, m_QuitPending, machineVars, wishVars,
                    serverVars >>

EndUpdate ==
    /\ step = "fire" /\ (m_IsDisconnecting \/ m_ConnectionStatus = << >>)
    /\ step' = "events"
    /\ UNCHANGED << IsOpened, guiVars, pendingVars, machineVars, wishVars, m_ConnectionStatus,
                    serverVars >>

----------------------------------------------------------------------------
(* The program has started: the menu is pending.                            *)
Init == /\ step = "load" /\ IsOpened = TRUE
        /\ screen = "menu" /\ menuScreen = "MenuScreenMain" /\ ErrorMsgBox = "none"
        /\ m_GameMode \in {"GM_HOST", "GM_CLIENT"}
        /\ m_QuitPending = FALSE /\ m_LoadMenuPending = TRUE /\ m_MenuReason = "MR_Normal"
        /\ m_LoadGamePending = FALSE
        /\ m_CurrentState = "None" /\ m_StopFlag = TRUE /\ m_EventQueue = << >>
        /\ m_DisconnectRequested = FALSE /\ m_IsDisconnecting = FALSE
        /\ m_ConnectionStatus = << >>
        /\ server = "gone" /\ inbox = << >> /\ connects = 0
        /\ isOwnServer = FALSE /\ m_Running = FALSE

Machine == \/ ToConnecting \/ ToConnected \/ ToLobbyFull \/ ToIdle \/ ToDisconnected
           \/ DropEvent \/ UpdateState

Clicks == ChooseMode \/ Connect \/ OnErrorOk \/ OnQuitTable \/ Quit \/ StopWaits

Run == Idles \/ Clicks \/ LoadScreens \/ Machine \/ FireStatus \/ EndUpdate

Next == Run \/ ServerAnswers \/ ServerSends

Spec == Init /\ [][Next]_vars

(* The loop goes on.                                                        *)
FairSpec == Spec /\ WF_vars(Run)

----------------------------------------------------------------------------
Reads(packet) == /\ step = "machine" /\ m_EventQueue = << >>
                 /\ inbox # << >> /\ Head(inbox) = packet /\ inbox' = Tail(inbox)

ToldOfTheEnd == inbox # << >> /\ inbox[Len(inbox)] = "ServerShuttingDown"

(* A person who connects again while the game screen is about to be loaded   *)
(* is told of an unknown error, back on the menu, in a session at the table. *)
UnknownError == m_MenuReason = "MR_Unknown"

(* No event of the game is fired while the menu is shown, whose script has no *)
(* handler for it: the update that completes the connection queues its status *)
(* before a packet of the game can be read, and the game screen is loaded     *)
(* before the next update.                                                    *)
GameEventsAreHeard ==
    [][m_CurrentState = "Idle" /\ Reads("GameContextPacket")
       => screen = "game" \/ m_IsDisconnecting \/ UnknownError]_vars

(* A person whom the server denies is told so (of an unknown error, when the  *)
(* game screen of an earlier connection has been loaded meanwhile), and the  *)
(* notice that follows when the connection is closed does not replace the    *)
(* reason; unless the person leaves, quits or connects again meanwhile, or   *)
(* the program waits for its own server to stop.                            *)
DenialIsTold ==
    (m_CurrentState = "Connecting" /\ inbox # << >> /\ Head(inbox) = "ConnectionDeniedLobbyFull")
    ~> \/ ErrorMsgBox \in {"LobbyFull", "Unknown"} /\ step = "events"
       \/ m_QuitPending \/ m_IsDisconnecting
       \/ m_CurrentState = "WaitingForConnection"
       \/ step = "hung"

(* The screen and the session do not stay apart: a session at the table gets *)
(* the game screen, one that has ended or is told to gets the menu, and one  *)
(* whose person leaves is ended, as long as the program is not quit.         *)
ScreenFollowsSession ==
    /\ (m_CurrentState = "Idle" /\ screen = "menu")
       ~> (screen = "game" \/ m_CurrentState # "Idle" \/ m_QuitPending \/ UnknownError)
    /\ (screen = "game" /\ (m_CurrentState = "Disconnected" \/ ToldOfTheEnd))
       ~> (screen = "menu" \/ m_QuitPending \/ m_CurrentState = "WaitingForConnection")
    /\ (m_CurrentState = "Idle" /\ m_DisconnectRequested)
       ~> (m_CurrentState # "Idle" \/ ~m_DisconnectRequested \/ ~IsOpened)
=============================================================================
