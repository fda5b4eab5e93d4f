----------------------------- MODULE SeatTable -----------------------------
(***************************************************************************)
(* Taking seats: the players' part of BeloteContext, the requests of the   *)
(* clients on their way to the server and the positionings on their way    *)
(* back, people who act on the last positioning they have seen, and bots   *)
(* that the server spawns for the seats nobody has taken.                  *)
(*                                                                         *)
(* A client is in m_UnplacedPlayers at most once (UnseatPlayer pushes a    *)
(* player it has found in a seat, AddPlayer one that has just come), so    *)
(* the vector is kept as a set.  The connection itself is not modelled     *)
(* here: a client joins when the server has received its name.             *)
(***************************************************************************)
EXTENDS Integers, Sequences, FiniteSets

CONSTANTS
    Seats,          \* the positions, numbered as PlayerPosition is
    People, Bots,   \* the clients that may come, of both kinds
    Nobody,         \* the null pointer of an empty seat
    AllowBots,      \* rule set: m_AllowBots
    MaxRequests,    \* bound: what the people may ask for, all together
    MaxChoices      \* bound: the seats the bots may ask for, all together

Clients == People \cup Bots

ASSUME TableAssumption == /\ Seats \subseteq Nat /\ IsFiniteSet(Seats)
                          /\ People \cap Bots = {} /\ Nobody \notin Clients
                          /\ AllowBots \in BOOLEAN
                          /\ MaxRequests \in Nat /\ MaxChoices \in Nat

VARIABLES
    m_Players, m_UnplacedPlayers, m_RequiredBotsCount,
    session,        \* of a client: "out", "spawned", "in" or "left"
    toServer,       \* the requests of a client the server has not read
    toClient,       \* the positionings a client has not read
    seen,           \* the last positioning a client has read
    mySeat,         \* the seat a client believes it has (m_MySeat, myPosition)
    unseatBtn,      \* the button to leave a seat is shown to a person
    started,        \* the players were told that the game starts
    requests,       \* how many requests the people have made
    choices,        \* how many seats the bots have asked for
    undefined       \* a bot has read outside PlayerPositionStrings; bots and server
                    \* are one process, nothing follows

tableVars  == << m_Players, m_UnplacedPlayers >>
clientVars == << seen, mySeat, unseatBtn >>
vars == << tableVars, clientVars, m_RequiredBotsCount, session, toServer, toClient,
           started, requests, choices, undefined >>

NoSeat   == -1
NotSeen  == [seat \in Seats |-> Nobody]

(* Mutated: seats numbered from one.                                        *)
ChoosePosFromOne(seat) == [type |-> "PlayerChoosePos", seat |-> seat + 1]

ChoosePos(seat)  == [type |-> "PlayerChoosePos", seat |-> seat]
UnseatRequest    == [type |-> "PlayerUnseat", seat |-> NoSeat]
StartGameRequest == [type |-> "StartGameRequest", seat |-> NoSeat]
ClientLeave      == [type |-> "ClientLeave", seat |-> NoSeat]

Seated == {m_Players[seat] : seat \in Seats} \ {Nobody}

SeatsOf(client) == {seat \in Seats : m_Players[seat] = client}

----------------------------------------------------------------------------
(* The server.                                                              *)

(* Mutated: the unplaced players are not told.                              *)
SendCurrentPositioningToSeated ==
    toClient' = [c \in Clients |->
        IF c \in Seated' THEN Append(toClient[c], m_Players') ELSE toClient[c]]

(* SendCurrentPositioningToAll, once the players are where the primed       *)
(* variables say.                                                           *)
SendCurrentPositioningToAll ==
    toClient' = [c \in Clients |->
        IF c \in m_UnplacedPlayers' \cup Seated' THEN Append(toClient[c], m_Players')
                                                 ELSE toClient[c]]

(* The name of a client has come.                                           *)
AddPlayer(client) ==
    /\ ~undefined
    /\ session[client] = IF client \in Bots THEN "spawned" ELSE "out"
    /\ session' = [session EXCEPT ![client] = "in"]
    /\ m_UnplacedPlayers' = m_UnplacedPlayers \cup {client}
    /\ toClient' = [toClient EXCEPT ![client] = Append(@, m_Players)]
    /\ UNCHANGED << clientVars, m_Players, m_RequiredBotsCount, toServer, started,
                    requests, choices, undefined >>

(* Mutated: the seat is not looked at.                                      *)
PlaceAnywhere(client, seat) ==
    /\ client \in m_UnplacedPlayers
    /\ m_Players' = [m_Players EXCEPT ![seat] = client]
    /\ m_UnplacedPlayers' = m_UnplacedPlayers \ {client}

(* The place of an unplaced player, if it is still free.                    *)
Place(client, seat) ==
    /\ client \in m_UnplacedPlayers
    /\ IF m_Players[seat] = Nobody
       THEN /\ m_Players' = [m_Players EXCEPT ![seat] = client]
            /\ m_UnplacedPlayers' = m_UnplacedPlayers \ {client}
       ELSE UNCHANGED tableVars

(* Mutated: the seat the player leaves is not freed.                        *)
MoveKeepingSeat(client, seat) ==
    /\ client \in Seated \ m_UnplacedPlayers
    /\ m_Players' = [m_Players EXCEPT ![seat] = client]
    /\ UNCHANGED m_UnplacedPlayers

(* A seated player moves; whoever sits in the new seat is overwritten.      *)
Move(client, seat) ==
    /\ client \notin m_UnplacedPlayers
    /\ \E old \in SeatsOf(client) :
          m_Players' = [[m_Players EXCEPT ![old] = Nobody] EXCEPT ![seat] = client]
    /\ UNCHANGED m_UnplacedPlayers

PlayerNotFound(client) == /\ client \notin m_UnplacedPlayers \cup Seated
                          /\ UNCHANGED tableVars

SetPlayerPos(client, seat) ==
    /\ Place(client, seat) \/ Move(client, seat) \/ PlayerNotFound(client)
    /\ SendCurrentPositioningToAll
    /\ UNCHANGED << m_RequiredBotsCount, session, started >>

UnseatPlayer(client) ==
    /\ IF client \in Seated
       THEN /\ \E old \in SeatsOf(client) : m_Players' = [m_Players EXCEPT ![old] = Nobody]
            /\ m_UnplacedPlayers' = m_UnplacedPlayers \cup {client}
       ELSE UNCHANGED tableVars
    /\ SendCurrentPositioningToAll
    /\ UNCHANGED << m_RequiredBotsCount, session, started >>

(* Mutated: a client that leaves keeps its seat.                            *)
DropUnplaced(client) ==
    /\ session' = [session EXCEPT ![client] = "left"]
    /\ m_UnplacedPlayers' = m_UnplacedPlayers \ {client}
    /\ UNCHANGED << m_Players, toClient, m_RequiredBotsCount, started >>

(* A client has left: the others are told when it had a seat.               *)
DropPlayer(client) ==
    /\ session' = [session EXCEPT ![client] = "left"]
    /\ IF client \in Seated
       THEN /\ \E old \in SeatsOf(client) : m_Players' = [m_Players EXCEPT ![old] = Nobody]
            /\ UNCHANGED m_UnplacedPlayers
            /\ SendCurrentPositioningToAll
       ELSE /\ m_UnplacedPlayers' = m_UnplacedPlayers \ {client}
            /\ UNCHANGED << m_Players, toClient >>
    /\ UNCHANGED << m_RequiredBotsCount, started >>

FreeSeats == {seat \in Seats : m_Players[seat] = Nobody}

(* StartGame, up to the first deal.  Bots are spawned for the seats that    *)
(* are free when they are first missed.                                     *)
StartGame ==
    \/ /\ FreeSeats = {}
       /\ m_RequiredBotsCount' = 0
       /\ started' = TRUE
       /\ UNCHANGED session
    \/ /\ FreeSeats # {}
       /\ AllowBots
       /\ m_RequiredBotsCount = 0
       /\ m_RequiredBotsCount' = Cardinality(FreeSeats)
       /\ \E spawned \in SUBSET {b \in Bots : session[b] = "out"} :
             /\ Cardinality(spawned) = Cardinality(FreeSeats)
             /\ session' = [c \in Clients |-> IF c \in spawned THEN "spawned" ELSE session[c]]
       /\ UNCHANGED started
    \/ /\ FreeSeats # {}
       /\ AllowBots => m_RequiredBotsCount # 0
       /\ UNCHANGED << m_RequiredBotsCount, session, started >>

(* One request of a client is read: HandleGameContextPacket, or the client  *)
(* leaves.                                                                  *)
Receive(client) ==
    /\ ~undefined
    /\ session[client] = "in"
    /\ toServer[client] # << >>
    /\ toServer' = [toServer EXCEPT ![client] = Tail(@)]
    /\ LET packet == Head(toServer[client])
       IN  \/ packet.type = "PlayerChoosePos" /\ SetPlayerPos(client, packet.seat)
           \/ packet.type = "PlayerUnseat" /\ UnseatPlayer(client)
           \/ packet.type = "ClientLeave" /\ DropPlayer(client)
           \/ packet.type = "StartGameRequest" /\ StartGame /\ UNCHANGED << tableVars, toClient >>
    /\ UNCHANGED << clientVars, requests, choices, undefined >>

(* BeloteContext::Update: a start that waits for bots is tried again.       *)
Update == /\ ~undefined
          /\ m_RequiredBotsCount # 0
          /\ StartGame
          /\ UNCHANGED << tableVars, clientVars, toServer, toClient, requests, choices, undefined >>

----------------------------------------------------------------------------
(* The clients.                                                             *)
Send(client, packet) == toServer' = [toServer EXCEPT ![client] = Append(@, packet)]

(* A person acts on what the game screen shows.                             *)
Ask(person, packet, seat) ==
    /\ ~undefined
    /\ session[person] = "in"
    /\ ClientLeave \notin {toServer[person][i] : i \in DOMAIN toServer[person]}
    /\ requests < MaxRequests
    /\ requests' = requests + 1
    /\ Send(person, packet)
    /\ mySeat' = [mySeat EXCEPT ![person] = seat]
    /\ UNCHANGED << tableVars, m_RequiredBotsCount, session, toClient, seen, unseatBtn,
                    started, choices, undefined >>

(* The button of a seat is enabled when the seat was last seen free.        *)
ChoosePosition(person, seat) == /\ seen[person][seat] = Nobody
                                /\ Ask(person, ChoosePos(seat), seat)

(* The button to leave a seat stays as the last positioning has left it.    *)
UnseatMe(person) == unseatBtn[person] /\ Ask(person, UnseatRequest, NoSeat)

StartGameBtn(person) == Ask(person, StartGameRequest, mySeat[person])

Disconnect(person) == Ask(person, ClientLeave, mySeat[person])

Read(client) ==
    /\ ~undefined
    /\ session[client] = "in"
    /\ toClient[client] # << >>
    /\ toClient' = [toClient EXCEPT ![client] = Tail(@)]
    /\ seen' = [seen EXCEPT ![client] = Head(toClient[client])]

(* A person's screen is brought up to date: the button to leave a seat is   *)
(* shown when the seat the person has asked for last is taken.              *)
PersonReads(person) ==
    /\ Read(person)
    /\ unseatBtn' = [unseatBtn EXCEPT ![person] =
                        mySeat[person] # NoSeat /\ seen'[person][mySeat[person]] # Nobody]
    /\ UNCHANGED << tableVars, m_RequiredBotsCount, session, toServer, mySeat, started,
                    requests, choices, undefined >>

(* A bot that does not find itself in its seat takes the first free one;    *)
(* without a free seat it asks for the seat after the last one.             *)
FindsItself(bot, names) == \E seat \in Seats : seat = mySeat[bot] /\ names[seat] = bot

BotReads(bot) ==
    LET names == Head(toClient[bot])
        free  == {seat \in Seats : names[seat] = Nobody}
    IN  /\ Read(bot)
        /\ \/ /\ FindsItself(bot, names)
              /\ UNCHANGED << toServer, mySeat, choices, undefined >>
           \/ /\ ~FindsItself(bot, names)
              /\ choices < MaxChoices
              /\ choices' = choices + 1
              /\ \E first \in free :
                    /\ \A other \in free : first <= other
                    /\ mySeat' = [mySeat EXCEPT ![bot] = first]
                    /\ Send(bot, ChoosePos(first))
              /\ UNCHANGED undefined
           \/ /\ ~FindsItself(bot, names)
              /\ free = {}
              /\ undefined' = TRUE
              /\ UNCHANGED << toServer, mySeat, choices >>
        /\ UNCHANGED << tableVars, m_RequiredBotsCount, session, unseatBtn, started, requests >>

----------------------------------------------------------------------------
Init == /\ m_Players = NotSeen
        /\ m_UnplacedPlayers = {}
        /\ m_RequiredBotsCount = 0
        /\ session = [c \in Clients |-> "out"]
        /\ toServer = [c \in Clients |-> << >>]
        /\ toClient = [c \in Clients |-> << >>]
        /\ seen = [c \in Clients |-> NotSeen]
        /\ mySeat = [c \in Clients |-> NoSeat]
        /\ unseatBtn = [c \in Clients |-> FALSE]
        /\ started = FALSE
        /\ requests = 0
        /\ choices = 0
        /\ undefined = FALSE

ServerStep == \/ \E c \in Clients : AddPlayer(c) \/ Receive(c)
              \/ Update

PersonStep(person) == \/ \E seat \in Seats : ChoosePosition(person, seat)
                      \/ UnseatMe(person)
                      \/ StartGameBtn(person)
                      \/ Disconnect(person)

Next == \/ ServerStep
        \/ \E person \in People : PersonStep(person) \/ PersonReads(person)
        \/ \E bot \in Bots : BotReads(bot)

Spec == Init /\ [][Next]_vars

----------------------------------------------------------------------------
Packet == [type : {"PlayerChoosePos"}, seat : Seats]
            \cup {UnseatRequest, StartGameRequest, ClientLeave}

Positioning == [Seats -> Clients \cup {Nobody}]

TypeOK ==
    /\ m_Players \in Positioning
    /\ m_UnplacedPlayers \in SUBSET Clients
    /\ m_RequiredBotsCount \in Nat
    /\ session \in [Clients -> {"out", "spawned", "in", "left"}]
    /\ toServer \in [Clients -> Seq(Packet)]
    /\ toClient \in [Clients -> Seq(Positioning)]
    /\ seen \in [Clients -> Positioning]
    /\ mySeat \in [Clients -> Seats \cup {NoSeat}]
    /\ unseatBtn \in [Clients -> BOOLEAN]
    /\ started \in BOOLEAN
    /\ requests \in 0 .. MaxRequests
    /\ choices \in 0 .. MaxChoices
    /\ undefined \in BOOLEAN

(* A client has at most one place at the table: not two seats, and not a    *)
(* seat while it waits for one.  Requests that cross (a choice on its way   *)
(* while the seat is taken, a move after an unseat) could give it two.      *)
OnePlace ==
    /\ \A s, t \in Seats : m_Players[s] # Nobody /\ m_Players[s] = m_Players[t] => s = t
    /\ \A s \in Seats : m_Players[s] \notin m_UnplacedPlayers

(* Who is not in session has no place: the slot of a client that has left   *)
(* is used for the next one, which would inherit the seat.                  *)
OnlyPresentPlayers == \A c \in m_UnplacedPlayers \cup Seated : session[c] = "in"

(* The last positioning sent to a client that has a place is the present    *)
(* one: whatever the order of the requests, a client that has read its      *)
(* messages sees the table as it is.                                        *)
LastSent(c) == IF toClient[c] = << >> THEN seen[c] ELSE toClient[c][Len(toClient[c])]

LastPositioningIsCurrent ==
    \A c \in m_UnplacedPlayers \cup Seated : LastSent(c) = m_Players

(* A client in session loses its place only to a seated player who moves to *)
(* its seat.                                                                *)
LostOnlyToMover ==
    [][\A c \in m_UnplacedPlayers \cup Seated :
          (session'[c] = "in" /\ c \notin m_UnplacedPlayers' \cup Seated') =>
              \E seat \in SeatsOf(c) : m_Players'[seat] \in Seated \ {c}
      ]_vars
=============================================================================
