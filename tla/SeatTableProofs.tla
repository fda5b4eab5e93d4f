-------------------------- MODULE SeatTableProofs --------------------------
(***************************************************************************)
(* Whoever the clients are and however many: nobody ever has two places at *)
(* the table, only clients in session have one, what was sent last is the  *)
(* present table, and a place is lost only to a seated player who moves.   *)
(***************************************************************************)
EXTENDS SeatTable, FiniteSetTheorems, TLAPS

(* The three facts are inductive together: a client that joins has no place *)
(* because it was not in session, and a move frees the only seat of the     *)
(* mover.                                                                   *)
Inv == TypeOK /\ OnePlace /\ OnlyPresentPlayers

Placed == m_UnplacedPlayers \cup Seated

(* What a step may do to the table for the sake of client: the table stays  *)
(* well formed, and nobody else gains a place.                              *)
TableStep(client) == /\ m_Players' \in Positioning
                     /\ m_UnplacedPlayers' \in SUBSET Clients
                     /\ OnePlace'
                     /\ Placed' \subseteq Placed \cup {client}

THEOREM InitInv == Init => Inv
<1> SUFFICES ASSUME Init PROVE Inv
  OBVIOUS
<1> USE TableAssumption
<1>1. Seated = {}
  BY DEF Init, Seated, NotSeen
<1>2. TypeOK
  <2>1. NotSeen \in Positioning
    BY DEF NotSeen, Positioning
  <2>2. /\ m_Players \in Positioning /\ m_UnplacedPlayers \in SUBSET Clients
        /\ started \in BOOLEAN /\ undefined \in BOOLEAN
    BY <2>1 DEF Init
  <2>4. /\ m_RequiredBotsCount \in Nat
        /\ requests \in 0 .. MaxRequests /\ choices \in 0 .. MaxChoices
    BY DEF Init
  <2>3. /\ session \in [Clients -> {"out", "spawned", "in", "left"}]
        /\ toServer \in [Clients -> Seq(Packet)] /\ toClient \in [Clients -> Seq(Positioning)]
        /\ seen \in [Clients -> Positioning] /\ mySeat \in [Clients -> Seats \cup {NoSeat}]
        /\ unseatBtn \in [Clients -> BOOLEAN]
    BY <2>1 DEF Init
  <2> QED BY <2>2, <2>3, <2>4 DEF TypeOK
<1>3. OnePlace
  BY DEF Init, OnePlace, NotSeen
<1>4. OnlyPresentPlayers
  BY <1>1 DEF Init, OnlyPresentPlayers
<1> QED BY <1>2, <1>3, <1>4 DEF Inv

----------------------------------------------------------------------------
(* The table itself.                                                        *)
LEMMA SameTable ==
    ASSUME Inv, NEW client, UNCHANGED tableVars
    PROVE  TableStep(client)
BY DEF Inv, TypeOK, OnePlace, TableStep, Placed, Seated, tableVars

LEMMA PlaceTable ==
    ASSUME Inv, NEW client \in Clients, NEW seat \in Seats, Place(client, seat)
    PROVE  TableStep(client)
<1>1. client \in m_UnplacedPlayers /\ client # Nobody
  BY TableAssumption DEF Place
<1>2. CASE UNCHANGED tableVars
  BY <1>2, SameTable
<1>3. CASE ~ UNCHANGED tableVars
  <2>1. /\ m_Players[seat] = Nobody
        /\ m_Players' = [m_Players EXCEPT ![seat] = client]
        /\ m_UnplacedPlayers' = m_UnplacedPlayers \ {client}
    BY <1>3 DEF Place
  <2>2. m_Players' \in Positioning /\ m_UnplacedPlayers' \in SUBSET Clients
    BY <2>1 DEF Inv, TypeOK, Positioning
  <2>3. \A s \in Seats : m_Players'[s] = IF s = seat THEN client ELSE m_Players[s]
    BY <2>1 DEF Inv, TypeOK, Positioning
  <2>4. \A s \in Seats : m_Players[s] # client
    BY <1>1 DEF Inv, OnePlace
  <2>5. OnePlace'
    BY <2>1, <2>3, <2>4 DEF Inv, OnePlace
  <2>6. Placed' \subseteq Placed \cup {client}
    BY <2>1, <2>3 DEF Placed, Seated
  <2> QED BY <2>2, <2>5, <2>6 DEF TableStep
<1> QED BY <1>2, <1>3

LEMMA MoveTable ==
    ASSUME Inv, NEW client \in Clients, NEW seat \in Seats, Move(client, seat)
    PROVE  TableStep(client)
<1> PICK old \in SeatsOf(client) :
        m_Players' = [[m_Players EXCEPT ![old] = Nobody] EXCEPT ![seat] = client]
  BY DEF Move
<1>1. old \in Seats /\ m_Players[old] = client
  BY DEF SeatsOf
<1>2. m_Players' \in Positioning /\ m_UnplacedPlayers' = m_UnplacedPlayers
  BY DEF Inv, TypeOK, Positioning, Move
<1>3. \A s \in Seats : m_Players'[s] = IF s = seat THEN client
                                        ELSE IF s = old THEN Nobody ELSE m_Players[s]
  BY DEF Inv, TypeOK, Positioning
<1>4. client \notin m_UnplacedPlayers /\ client # Nobody
  BY TableAssumption DEF Move
<1>5. \A s \in Seats : s # old => m_Players[s] # client
  BY <1>1, <1>4 DEF Inv, OnePlace
<1>6. OnePlace'
  <2>1. \A s, t \in Seats : m_Players'[s] # Nobody /\ m_Players'[s] = m_Players'[t] => s = t
    BY <1>3, <1>5 DEF Inv, OnePlace
  <2>2. \A s \in Seats : m_Players'[s] \notin m_UnplacedPlayers'
    <3>1. \A s \in Seats : m_Players[s] \notin m_UnplacedPlayers
      BY DEF Inv, OnePlace
    <3>2. Nobody \notin m_UnplacedPlayers
      BY TableAssumption DEF Inv, TypeOK
    <3>3. \A s \in Seats : m_Players'[s] \notin m_UnplacedPlayers
      BY <1>3, <1>4, <3>1, <3>2
    <3> QED BY <1>2, <3>3
  <2> QED BY <2>1, <2>2 DEF OnePlace
<1>7. Placed' \subseteq Placed \cup {client}
  BY <1>2, <1>3 DEF Placed, Seated
<1> QED BY <1>2, <1>6, <1>7 DEF TableStep, Inv, TypeOK

(* A seat is given up, for nothing or for a place among the unplaced.       *)
LEMMA FreeTable ==
    ASSUME Inv, NEW client \in Clients, NEW old \in SeatsOf(client),
           m_Players' = [m_Players EXCEPT ![old] = Nobody],
           \/ m_UnplacedPlayers' = m_UnplacedPlayers
           \/ m_UnplacedPlayers' = m_UnplacedPlayers \cup {client}
    PROVE  /\ TableStep(client)
           /\ client \notin Seated'
<1>1. old \in Seats /\ m_Players[old] = client /\ client # Nobody
  BY TableAssumption DEF SeatsOf
<1>2. m_Players' \in Positioning
  BY DEF Inv, TypeOK, Positioning
<1>3. \A s \in Seats : m_Players'[s] = IF s = old THEN Nobody ELSE m_Players[s]
  BY DEF Inv, TypeOK, Positioning
<1>4. \A s \in Seats : s # old => m_Players[s] # client
  BY <1>1 DEF Inv, OnePlace
<1>5. OnePlace'
  <2>1. \A s, t \in Seats : m_Players'[s] # Nobody /\ m_Players'[s] = m_Players'[t] => s = t
    BY <1>3 DEF Inv, OnePlace
  <2>2. \A s \in Seats : m_Players'[s] \notin m_UnplacedPlayers'
    <3>1. \A s \in Seats : m_Players[s] \notin m_UnplacedPlayers
      BY DEF Inv, OnePlace
    <3>2. Nobody \notin m_UnplacedPlayers
      BY TableAssumption DEF Inv, TypeOK
    <3>3. m_UnplacedPlayers' \subseteq m_UnplacedPlayers \cup {client}
      OBVIOUS
    <3>4. \A s \in Seats : m_Players'[s] \notin m_UnplacedPlayers \cup {client}
      BY <1>1, <1>3, <1>4, <3>1, <3>2
    <3> QED BY <3>3, <3>4
  <2> QED BY <2>1, <2>2 DEF OnePlace
<1>6. Placed' \subseteq Placed \cup {client} /\ client \notin Seated'
  BY <1>1, <1>3, <1>4 DEF Placed, Seated
<1>7. m_UnplacedPlayers' \in SUBSET Clients
  BY DEF Inv, TypeOK
<1> QED BY <1>2, <1>5, <1>6, <1>7 DEF TableStep

----------------------------------------------------------------------------
(* The channels: what is sent to the clients are positionings.              *)
LEMMA BroadcastType ==
    ASSUME Inv, m_Players' \in Positioning, SendCurrentPositioningToAll
    PROVE  toClient' \in [Clients -> Seq(Positioning)]
BY DEF Inv, TypeOK, SendCurrentPositioningToAll

(* What the actions of the server that concern one client come to.          *)
LEMMA SetPlayerPosTable ==
    ASSUME Inv, NEW client \in Clients, session[client] = "in",
           NEW seat \in Seats, SetPlayerPos(client, seat)
    PROVE  /\ TableStep(client)
           /\ toClient' \in [Clients -> Seq(Positioning)]
<1>1. TableStep(client)
  BY PlaceTable, MoveTable, SameTable DEF SetPlayerPos, PlayerNotFound
<1>2. SendCurrentPositioningToAll
  BY DEF SetPlayerPos
<1> QED BY <1>1, <1>2, BroadcastType DEF TableStep

LEMMA UnseatPlayerTable ==
    ASSUME Inv, NEW client \in Clients, UnseatPlayer(client)
    PROVE  /\ TableStep(client)
           /\ toClient' \in [Clients -> Seq(Positioning)]
<1>1. TableStep(client)
  <2>1. CASE client \in Seated
    <3> PICK old \in SeatsOf(client) : m_Players' = [m_Players EXCEPT ![old] = Nobody]
      BY <2>1 DEF UnseatPlayer
    <3> m_UnplacedPlayers' = m_UnplacedPlayers \cup {client}
      BY <2>1 DEF UnseatPlayer
    <3> QED BY FreeTable
  <2>2. CASE client \notin Seated
    BY <2>2, SameTable DEF UnseatPlayer
  <2> QED BY <2>1, <2>2
<1>2. SendCurrentPositioningToAll
  BY DEF UnseatPlayer
<1> QED BY <1>1, <1>2, BroadcastType DEF TableStep

LEMMA DropPlayerTable ==
    ASSUME Inv, NEW client \in Clients, DropPlayer(client)
    PROVE  /\ TableStep(client)
           /\ client \notin Placed'
           /\ toClient' \in [Clients -> Seq(Positioning)]
<1>1. CASE client \in Seated
  <2> PICK old \in SeatsOf(client) : m_Players' = [m_Players EXCEPT ![old] = Nobody]
    BY <1>1 DEF DropPlayer
  <2> m_UnplacedPlayers' = m_UnplacedPlayers /\ SendCurrentPositioningToAll
    BY <1>1 DEF DropPlayer
  <2>1. TableStep(client) /\ client \notin Seated'
    BY FreeTable
  <2>2. client \notin m_UnplacedPlayers
    BY <1>1 DEF Inv, OnePlace, Seated
  <2> QED BY <2>1, <2>2, BroadcastType DEF TableStep, Placed
<1>2. CASE client \notin Seated
  <2>1. /\ m_UnplacedPlayers' = m_UnplacedPlayers \ {client}
        /\ m_Players' = m_Players /\ toClient' = toClient
    BY <1>2 DEF DropPlayer
  <2>2. OnePlace' /\ Seated' = Seated
    BY <2>1 DEF Inv, OnePlace, Seated
  <2> QED BY <1>2, <2>1, <2>2 DEF Inv, TypeOK, TableStep, Placed
<1> QED BY <1>1, <1>2

(* A step on the table for a client in session, or for one that leaves the  *)
(* session with no place left, keeps the places to clients in session.      *)
LEMMA PresentPlayers ==
    ASSUME Inv, NEW client \in Clients, TableStep(client),
           \A c \in Clients \ {client} : session[c] = "in" => session'[c] = "in",
           session'[client] = "in" \/ client \notin Placed'
    PROVE  OnlyPresentPlayers'
<1> SUFFICES ASSUME NEW c \in Placed' PROVE session'[c] = "in"
  BY DEF OnlyPresentPlayers, Placed
<1>1. Placed \subseteq Clients
  BY DEF Inv, TypeOK, Placed, Seated, Positioning
<1>2. CASE c = client
  BY <1>2
<1>3. CASE c # client
  <2>1. c \in Placed
    BY <1>3 DEF TableStep
  <2>2. session[c] = "in"
    BY <2>1 DEF Inv, OnlyPresentPlayers, Placed
  <2> QED BY <1>1, <1>3, <2>1, <2>2
<1> QED BY <1>2, <1>3

----------------------------------------------------------------------------
(* The actions, one after the other.                                        *)
LEMMA AddPlayerInv ==
    ASSUME Inv, NEW client \in Clients, AddPlayer(client)
    PROVE  Inv'
<1>1. session[client] # "in" /\ session' = [session EXCEPT ![client] = "in"]
  BY DEF AddPlayer
<1>2. client \notin Placed
  BY <1>1 DEF Inv, OnlyPresentPlayers, Placed
<1>3. /\ m_Players' = m_Players
      /\ m_UnplacedPlayers' = m_UnplacedPlayers \cup {client}
  BY DEF AddPlayer
<1>4. TableStep(client)
  <2>1. \A s \in Seats : m_Players[s] \notin m_UnplacedPlayers \cup {client}
    <3>1. \A s \in Seats : m_Players[s] # client
      BY <1>2, TableAssumption DEF Placed, Seated
    <3> QED BY <3>1 DEF Inv, OnePlace
  <2>2. OnePlace'
    BY <1>3, <2>1 DEF Inv, OnePlace
  <2> QED BY <1>3, <2>2 DEF Inv, TypeOK, TableStep, Placed, Seated
<1>5. session' \in [Clients -> {"out", "spawned", "in", "left"}]
  BY <1>1 DEF Inv, TypeOK
<1>6. OnlyPresentPlayers'
  BY <1>1, <1>4, PresentPlayers DEF Inv, TypeOK
<1>7. toClient' \in [Clients -> Seq(Positioning)]
  BY DEF AddPlayer, Inv, TypeOK
<1>8. TypeOK'
  BY <1>4, <1>5, <1>7 DEF AddPlayer, Inv, TypeOK, TableStep, clientVars
<1> QED BY <1>4, <1>6, <1>8 DEF Inv, TableStep

LEMMA StartGameType ==
    ASSUME Inv, StartGame
    PROVE  /\ m_RequiredBotsCount' \in Nat /\ started' \in BOOLEAN
           /\ session' \in [Clients -> {"out", "spawned", "in", "left"}]
           /\ \A c \in Clients : session[c] = "in" => session'[c] = "in"
<1>1. IsFiniteSet(FreeSeats)
  BY FS_Subset, TableAssumption DEF FreeSeats
<1>2. Cardinality(FreeSeats) \in Nat
  BY <1>1, FS_CardinalityType
<1>3. m_RequiredBotsCount' \in Nat /\ started' \in BOOLEAN
  <2>1. m_RequiredBotsCount' \in {0, m_RequiredBotsCount, Cardinality(FreeSeats)}
    BY DEF StartGame
  <2>2. started' \in {TRUE, started}
    BY DEF StartGame
  <2>3. m_RequiredBotsCount' \in Nat
    BY <1>2, <2>1 DEF Inv, TypeOK
  <2>4. started' \in BOOLEAN
    BY <2>2 DEF Inv, TypeOK
  <2> QED BY <2>3, <2>4
<1>4. CASE session' = session
  BY <1>3, <1>4 DEF Inv, TypeOK
<1>5. CASE session' # session
  <2>1. PICK spawned \in SUBSET {b \in Bots : session[b] = "out"} :
            session' = [c \in Clients |-> IF c \in spawned THEN "spawned" ELSE session[c]]
    BY <1>5 DEF StartGame
  <2>2. \A c \in spawned : session[c] = "out"
    OBVIOUS
  <2> QED BY <1>3, <2>1, <2>2 DEF Inv, TypeOK
<1> QED BY <1>4, <1>5

LEMMA ReceiveInv ==
    ASSUME Inv, NEW client \in Clients, Receive(client)
    PROVE  Inv'
<1> DEFINE packet == Head(toServer[client])
<1>1. /\ session[client] = "in" /\ toServer[client] # << >>
      /\ toServer' = [toServer EXCEPT ![client] = Tail(@)]
      /\ UNCHANGED << clientVars, requests, choices, undefined >>
  BY DEF Receive
<1>2. packet \in Packet /\ toServer' \in [Clients -> Seq(Packet)]
  BY <1>1 DEF Inv, TypeOK
<1> HIDE DEF packet
<1>3. SUFFICES /\ TableStep(client)
               /\ toClient' \in [Clients -> Seq(Positioning)]
               /\ m_RequiredBotsCount' \in Nat /\ started' \in BOOLEAN
               /\ session' \in [Clients -> {"out", "spawned", "in", "left"}]
               /\ \A c \in Clients \ {client} : session[c] = "in" => session'[c] = "in"
               /\ session'[client] = "in" \/ client \notin Placed'
  <2>1. OnlyPresentPlayers'
    BY <1>3, PresentPlayers
  <2>2. TypeOK'
    BY <1>1, <1>2, <1>3 DEF Inv, TypeOK, TableStep, clientVars
  <2> QED BY <1>3, <2>1, <2>2 DEF Inv, TableStep
<1>4. CASE packet.type = "PlayerChoosePos" /\ SetPlayerPos(client, packet.seat)
  <2>1. packet.seat \in Seats
    BY <1>2, <1>4 DEF Packet, UnseatRequest, StartGameRequest, ClientLeave
  <2> QED BY <1>1, <1>4, <2>1, SetPlayerPosTable DEF SetPlayerPos, Inv, TypeOK
<1>5. CASE UnseatPlayer(client)
  BY <1>1, <1>5, UnseatPlayerTable DEF UnseatPlayer, Inv, TypeOK
<1>6. CASE DropPlayer(client)
  BY <1>6, DropPlayerTable DEF DropPlayer, Inv, TypeOK
<1>7. CASE StartGame /\ UNCHANGED << tableVars, toClient >>
  BY <1>1, <1>7, StartGameType, SameTable DEF Inv, TypeOK
<1> QED BY <1>4, <1>5, <1>6, <1>7 DEF Receive, packet

LEMMA UpdateInv ==
    ASSUME Inv, Update
    PROVE  Inv'
<1>1. /\ StartGame
      /\ UNCHANGED << tableVars, clientVars, toServer, toClient, requests, choices, undefined >>
  BY DEF Update
<1>2. m_Players' = m_Players /\ m_UnplacedPlayers' = m_UnplacedPlayers /\ Seated' = Seated
  BY <1>1 DEF tableVars, Seated
<1>3. TypeOK'
  BY <1>1, <1>2, StartGameType DEF Inv, TypeOK, clientVars
<1>4. Placed \subseteq Clients
  BY DEF Inv, TypeOK, Placed, Seated, Positioning
<1>5. OnePlace' /\ OnlyPresentPlayers'
  BY <1>1, <1>2, <1>4, StartGameType DEF Inv, OnePlace, OnlyPresentPlayers, Placed
<1> QED BY <1>3, <1>5 DEF Inv

(* The clients' own actions leave the table and the sessions alone.         *)
LEMMA ClientStepInv ==
    ASSUME Inv, UNCHANGED << tableVars, session >>, TypeOK'
    PROVE  Inv'
BY DEF Inv, OnePlace, OnlyPresentPlayers, Seated, tableVars

LEMMA AskInv ==
    ASSUME Inv, NEW person \in People, NEW packet \in Packet,
           NEW seat \in Seats \cup {NoSeat}, Ask(person, packet, seat)
    PROVE  Inv'
<1>1. /\ requests' \in 0 .. MaxRequests
      /\ toServer' \in [Clients -> Seq(Packet)]
      /\ mySeat' \in [Clients -> Seats \cup {NoSeat}]
      /\ UNCHANGED << tableVars, m_RequiredBotsCount, session, toClient, seen, unseatBtn,
                      started, choices, undefined >>
  BY TableAssumption DEF Ask, Send, Inv, TypeOK, Clients
<1>2. TypeOK'
  BY <1>1 DEF Inv, TypeOK, tableVars
<1> QED BY <1>1, <1>2, ClientStepInv

LEMMA PersonStepInv ==
    ASSUME Inv, NEW person \in People, PersonStep(person)
    PROVE  Inv'
<1>1. mySeat[person] \in Seats \cup {NoSeat}
  BY DEF Inv, TypeOK, Clients
<1>2. /\ {UnseatRequest, StartGameRequest, ClientLeave} \subseteq Packet
      /\ \A seat \in Seats : ChoosePos(seat) \in Packet
  BY DEF Packet, ChoosePos
<1> QED BY <1>1, <1>2, AskInv
        DEF PersonStep, ChoosePosition, UnseatMe, StartGameBtn, Disconnect

LEMMA ReadType ==
    ASSUME Inv, NEW client \in Clients, Read(client)
    PROVE  /\ toClient' \in [Clients -> Seq(Positioning)]
           /\ seen' \in [Clients -> Positioning]
           /\ Head(toClient[client]) \in Positioning
           /\ undefined = FALSE
BY DEF Read, Inv, TypeOK

LEMMA PersonReadsInv ==
    ASSUME Inv, NEW person \in People, PersonReads(person)
    PROVE  Inv'
<1>1. /\ person \in Clients /\ Read(person)
      /\ UNCHANGED << tableVars, m_RequiredBotsCount, session, toServer, mySeat, started,
                      requests, choices, undefined >>
  BY DEF PersonReads, Clients
<1>2. unseatBtn' \in [Clients -> BOOLEAN]
  BY <1>1 DEF PersonReads, Inv, TypeOK
<1>3. TypeOK'
  BY <1>1, <1>2, ReadType DEF Inv, TypeOK, tableVars
<1> QED BY <1>1, <1>3, ClientStepInv

LEMMA BotReadsInv ==
    ASSUME Inv, NEW bot \in Bots, BotReads(bot)
    PROVE  Inv'
<1> DEFINE names == Head(toClient[bot])
           free  == {seat \in Seats : names[seat] = Nobody}
<1>1. /\ bot \in Clients /\ Read(bot)
      /\ UNCHANGED << tableVars, m_RequiredBotsCount, session, unseatBtn, started, requests >>
  BY DEF BotReads, Clients
<1>2. /\ toServer' \in [Clients -> Seq(Packet)]
      /\ mySeat' \in [Clients -> Seats \cup {NoSeat}]
      /\ choices' \in 0 .. MaxChoices /\ undefined' \in BOOLEAN
  <2>1. CASE UNCHANGED << toServer, mySeat, choices >>
    BY <1>1, <2>1, ReadType DEF BotReads, Inv, TypeOK
  <2>2. ASSUME NEW first \in free,
               mySeat' = [mySeat EXCEPT ![bot] = first], Send(bot, ChoosePos(first)),
               choices < MaxChoices, choices' = choices + 1, UNCHANGED undefined
        PROVE  /\ toServer' \in [Clients -> Seq(Packet)]
               /\ mySeat' \in [Clients -> Seats \cup {NoSeat}]
               /\ choices' \in 0 .. MaxChoices /\ undefined' \in BOOLEAN
    <3>1. ChoosePos(first) \in Packet
      BY DEF ChoosePos, Packet
    <3>2. toServer' \in [Clients -> Seq(Packet)] /\ mySeat' \in [Clients -> Seats \cup {NoSeat}]
      BY <1>1, <2>2, <3>1 DEF Send, Inv, TypeOK
    <3> QED BY <2>2, <3>2, TableAssumption DEF Inv, TypeOK
  <2> QED BY <2>1, <2>2 DEF BotReads
<1>3. TypeOK'
  BY <1>1, <1>2, ReadType DEF Inv, TypeOK, tableVars
<1> QED BY <1>1, <1>3, ClientStepInv

----------------------------------------------------------------------------
LEMMA NextInv == Inv /\ [Next]_vars => Inv'
<1> SUFFICES ASSUME Inv, [Next]_vars PROVE Inv'
  OBVIOUS
<1>1. ASSUME NEW c \in Clients, AddPlayer(c) PROVE Inv'
  BY <1>1, AddPlayerInv
<1>2. ASSUME NEW c \in Clients, Receive(c) PROVE Inv'
  BY <1>2, ReceiveInv
<1>3. CASE Update
  BY <1>3, UpdateInv
<1>4. ASSUME NEW person \in People, PersonStep(person) PROVE Inv'
  BY <1>4, PersonStepInv
<1>5. ASSUME NEW person \in People, PersonReads(person) PROVE Inv'
  BY <1>5, PersonReadsInv
<1>6. ASSUME NEW bot \in Bots, BotReads(bot) PROVE Inv'
  BY <1>6, BotReadsInv
<1>7. CASE UNCHANGED vars
  BY <1>7 DEF vars, tableVars, clientVars, Inv, TypeOK, OnePlace, OnlyPresentPlayers, Seated
<1> QED BY <1>1, <1>2, <1>3, <1>4, <1>5, <1>6, <1>7 DEF Next, ServerStep

(* Every variable of the table keeps to its type, whoever the clients are.  *)
THEOREM TypeCorrect == Spec => []TypeOK
<1>1. Inv => TypeOK
  BY DEF Inv
<1> QED BY InitInv, NextInv, <1>1, PTL DEF Spec

(* No order of requests, arrivals and departures gives a client two places  *)
(* at the table: the invariant OnePlace of SetPlayerPos, UnseatPlayer and   *)
(* DropPlayer, for any number of seats and clients.                         *)
THEOREM OnePlaceAlways == Spec => []OnePlace
<1>1. Inv => OnePlace
  BY DEF Inv
<1> QED BY InitInv, NextInv, <1>1, PTL DEF Spec

(* A client that is not in session (gone, or not yet come) has no place.    *)
THEOREM OnlyPresentAlways == Spec => []OnlyPresentPlayers
<1>1. Inv => OnlyPresentPlayers
  BY DEF Inv
<1> QED BY InitInv, NextInv, <1>1, PTL DEF Spec

----------------------------------------------------------------------------
(* What was sent last is the present table.                                 *)
InvTold == Inv /\ LastPositioningIsCurrent

LEMMA LastOfAppend ==
    ASSUME NEW S, NEW q \in Seq(S), NEW e \in S
    PROVE  Append(q, e) # << >> /\ Append(q, e)[Len(Append(q, e))] = e
OBVIOUS

LEMMA LastOfOne ==
    ASSUME NEW S, NEW q \in Seq(S), q # << >>, Tail(q) = << >>
    PROVE  q[Len(q)] = Head(q)
<1>1. Len(Tail(q)) = Len(q) - 1 /\ Len(q) \in Nat
  OBVIOUS
<1>2. Len(Tail(q)) = Len(<< >>) /\ Len(<< >>) = 0
  OBVIOUS
<1>3. Len(q) = 1
  BY <1>1, <1>2
<1> QED BY <1>3

LEMMA AllAreTold ==
    ASSUME Inv', toClient \in [Clients -> Seq(Positioning)], SendCurrentPositioningToAll
    PROVE  LastPositioningIsCurrent'
<1> SUFFICES ASSUME NEW c \in (m_UnplacedPlayers \cup Seated)'
             PROVE  LastSent(c)' = m_Players'
  BY DEF LastPositioningIsCurrent
<1>1. c \in Clients
  BY DEF Inv, TypeOK, Positioning, Seated
<1>2. toClient'[c] = Append(toClient[c], m_Players') /\ toClient[c] \in Seq(Positioning)
  BY <1>1 DEF SendCurrentPositioningToAll
<1>3. m_Players' \in Positioning
  BY DEF Inv, TypeOK
<1>4. toClient'[c] # << >> /\ toClient'[c][Len(toClient'[c])] = m_Players'
  BY <1>2, <1>3, LastOfAppend
<1> QED BY <1>4 DEF LastSent

LEMMA SameTold ==
    ASSUME InvTold, UNCHANGED << m_Players, seen, toClient >>,
           (m_UnplacedPlayers \cup Seated)' \subseteq m_UnplacedPlayers \cup Seated
    PROVE  LastPositioningIsCurrent'
BY DEF InvTold, LastPositioningIsCurrent, LastSent

LEMMA AddPlayerTold ==
    ASSUME InvTold, NEW client \in Clients, AddPlayer(client)
    PROVE  LastPositioningIsCurrent'
<1>1. /\ UNCHANGED << m_Players, seen >> /\ Seated' = Seated
      /\ m_UnplacedPlayers' = m_UnplacedPlayers \cup {client}
      /\ toClient' = [toClient EXCEPT ![client] = Append(@, m_Players)]
  BY DEF AddPlayer, clientVars, Seated
<1>2. m_Players \in Positioning /\ toClient \in [Clients -> Seq(Positioning)]
  BY DEF InvTold, Inv, TypeOK
<1> SUFFICES ASSUME NEW c \in (m_UnplacedPlayers \cup Seated)'
             PROVE  LastSent(c)' = m_Players'
  BY DEF LastPositioningIsCurrent
<1>3. CASE c = client
  <2>1. toClient'[c] = Append(toClient[c], m_Players) /\ toClient[c] \in Seq(Positioning)
    BY <1>1, <1>2, <1>3
  <2>2. toClient'[c] # << >> /\ toClient'[c][Len(toClient'[c])] = m_Players
    BY <1>2, <2>1, LastOfAppend
  <2> QED BY <1>1, <2>2 DEF LastSent
<1>4. CASE c # client
  <2>1. LastSent(c) = m_Players
    BY <1>1, <1>4 DEF InvTold, LastPositioningIsCurrent
  <2>2. toClient'[c] = toClient[c]
    BY <1>1, <1>2, <1>4
  <2> QED BY <1>1, <2>1, <2>2 DEF LastSent
<1> QED BY <1>3, <1>4

LEMMA ReceiveTold ==
    ASSUME InvTold, Inv', NEW client \in Clients, Receive(client)
    PROVE  LastPositioningIsCurrent'
<1>1. toClient \in [Clients -> Seq(Positioning)] /\ UNCHANGED seen
  BY DEF InvTold, Inv, TypeOK, Receive, clientVars
<1>2. CASE SendCurrentPositioningToAll
  BY <1>1, <1>2, AllAreTold
<1>3. CASE UNCHANGED << tableVars, toClient >>
  BY <1>1, <1>3, SameTold DEF tableVars, Seated
<1>4. CASE client \notin Seated /\ DropPlayer(client)
  BY <1>1, <1>4, SameTold DEF DropPlayer, Seated
<1> QED BY <1>2, <1>3, <1>4 DEF Receive, SetPlayerPos, UnseatPlayer, DropPlayer

LEMMA ReadTold ==
    ASSUME InvTold, NEW client \in Clients, Read(client), UNCHANGED tableVars
    PROVE  LastPositioningIsCurrent'
<1>1. /\ toClient[client] # << >>
      /\ toClient' = [toClient EXCEPT ![client] = Tail(toClient[client])]
      /\ seen' = [seen EXCEPT ![client] = Head(toClient[client])]
  BY DEF Read
<1>2. toClient \in [Clients -> Seq(Positioning)] /\ seen \in [Clients -> Positioning]
  BY DEF InvTold, Inv, TypeOK
<1>3. LastSent(client)' = LastSent(client)
  <2> DEFINE q == toClient[client]
  <2>1. q \in Seq(Positioning) /\ q # << >> /\ toClient'[client] = Tail(q) /\ seen'[client] = Head(q)
    BY <1>1, <1>2
  <2>2. CASE Tail(q) = << >>
    <3>1. q[Len(q)] = Head(q)
      BY <2>1, <2>2, LastOfOne
    <3> QED BY <2>1, <2>2, <3>1 DEF LastSent
  <2>3. CASE Tail(q) # << >>
    <3>1. Tail(q)[Len(Tail(q))] = q[Len(q)]
      BY <2>1, <2>3
    <3> QED BY <2>1, <2>3, <3>1 DEF LastSent
  <2> QED BY <2>2, <2>3
<1>4. \A c \in Clients \ {client} : LastSent(c)' = LastSent(c)
  BY <1>1, <1>2 DEF LastSent
<1>5. m_UnplacedPlayers \cup Seated \subseteq Clients
  BY DEF InvTold, Inv, TypeOK, Positioning, Seated
<1> QED BY <1>3, <1>4, <1>5 DEF InvTold, LastPositioningIsCurrent, tableVars, Seated

LEMMA NextTold == InvTold /\ [Next]_vars => InvTold'
<1> SUFFICES ASSUME InvTold, [Next]_vars PROVE LastPositioningIsCurrent'
  BY NextInv DEF InvTold
<1>1. Inv'
  BY NextInv DEF InvTold
<1>2. ASSUME NEW c \in Clients, AddPlayer(c) PROVE LastPositioningIsCurrent'
  BY <1>2, AddPlayerTold
<1>3. ASSUME NEW c \in Clients, Receive(c) PROVE LastPositioningIsCurrent'
  BY <1>1, <1>3, ReceiveTold
<1>4. CASE UNCHANGED << tableVars, seen, toClient >>
  BY <1>4, SameTold DEF tableVars, Seated
<1>5. CASE Update
  BY <1>4, <1>5 DEF Update, clientVars
<1>6. ASSUME NEW person \in People, PersonStep(person) PROVE LastPositioningIsCurrent'
  BY <1>4, <1>6 DEF PersonStep, ChoosePosition, UnseatMe, StartGameBtn, Disconnect, Ask
<1>7. ASSUME NEW person \in People, PersonReads(person) PROVE LastPositioningIsCurrent'
  BY <1>7, ReadTold DEF PersonReads, Clients
<1>8. ASSUME NEW bot \in Bots, BotReads(bot) PROVE LastPositioningIsCurrent'
  BY <1>8, ReadTold DEF BotReads, Clients
<1>9. CASE UNCHANGED vars
  BY <1>4, <1>9 DEF vars, clientVars
<1> QED BY <1>2, <1>3, <1>5, <1>6, <1>7, <1>8, <1>9 DEF Next, ServerStep

(* Whatever the order of requests, arrivals and departures, the last        *)
(* positioning on its way to a client that has a place is the present one:  *)
(* SendCurrentPositioningToAll follows each change, with everybody in it.   *)
THEOREM LastPositioningAlways == Spec => []LastPositioningIsCurrent
<1>1. Init => LastPositioningIsCurrent
  BY DEF Init, LastPositioningIsCurrent, LastSent, Seated, NotSeen
<1>2. Init => InvTold
  BY <1>1, InitInv DEF InvTold
<1>3. InvTold => LastPositioningIsCurrent
  BY DEF InvTold
<1> QED BY <1>2, <1>3, NextTold, PTL DEF Spec

----------------------------------------------------------------------------
(* Places are lost only to movers.                                          *)
NotLost(c) == session'[c] = "in" => c \in m_UnplacedPlayers' \cup Seated'

Overtaken(c) == \E seat \in SeatsOf(c) : m_Players'[seat] \in Seated \ {c}

LEMMA SetPlayerPosLoss ==
    ASSUME Inv, NEW client \in Clients, NEW seat \in Seats, SetPlayerPos(client, seat),
           NEW c \in m_UnplacedPlayers \cup Seated
    PROVE  NotLost(c) \/ Overtaken(c)
<1>1. CASE Place(client, seat)
  <2>1. CASE UNCHANGED tableVars
    BY <2>1 DEF NotLost, tableVars, Seated
  <2>2. CASE ~ UNCHANGED tableVars
    <3>1. /\ m_Players[seat] = Nobody /\ client # Nobody
          /\ m_Players' = [m_Players EXCEPT ![seat] = client]
          /\ m_UnplacedPlayers' = m_UnplacedPlayers \ {client}
      BY <1>1, <2>2, TableAssumption DEF Place
    <3>2. \A s \in Seats : m_Players'[s] = IF s = seat THEN client ELSE m_Players[s]
      BY <3>1 DEF Inv, TypeOK, Positioning
    <3> QED BY <3>1, <3>2 DEF NotLost, Seated
  <2> QED BY <2>1, <2>2
<1>2. CASE Move(client, seat)
  <2>1. PICK old \in SeatsOf(client) :
            m_Players' = [[m_Players EXCEPT ![old] = Nobody] EXCEPT ![seat] = client]
    BY <1>2 DEF Move
  <2>2. /\ m_UnplacedPlayers' = m_UnplacedPlayers /\ client # Nobody
        /\ old \in Seats /\ m_Players[old] = client
    BY <1>2, TableAssumption DEF Move, SeatsOf
  <2>3. \A s \in Seats : m_Players'[s] = IF s = seat THEN client
                                         ELSE IF s = old THEN Nobody ELSE m_Players[s]
    BY <2>1, <2>2 DEF Inv, TypeOK, Positioning
  <2>4. CASE c \in m_UnplacedPlayers \/ c = client
    BY <2>2, <2>3, <2>4 DEF NotLost, Seated
  <2>5. CASE c \notin m_UnplacedPlayers /\ c # client
    <3>1. PICK s \in Seats : m_Players[s] = c /\ c # Nobody
      BY <2>5 DEF Seated
    <3>2. CASE s # seat
      BY <2>2, <2>3, <2>5, <3>1, <3>2 DEF NotLost, Seated
    <3>3. CASE s = seat
      <4>1. seat \in SeatsOf(c) /\ m_Players'[seat] = client /\ client \in Seated
        BY <2>2, <2>3, <3>1, <3>3 DEF SeatsOf, Seated
      <4> QED BY <2>5, <4>1 DEF Overtaken
    <3> QED BY <3>2, <3>3
  <2> QED BY <2>4, <2>5
<1>3. CASE PlayerNotFound(client)
  BY <1>3 DEF PlayerNotFound, NotLost, tableVars, Seated
<1> QED BY <1>1, <1>2, <1>3 DEF SetPlayerPos

LEMMA FreeLoss ==
    ASSUME Inv, NEW client \in Clients, NEW old \in SeatsOf(client),
           m_Players' = [m_Players EXCEPT ![old] = Nobody],
           NEW c \in Seated, c # client
    PROVE  c \in Seated'
<1>1. PICK s \in Seats : m_Players[s] = c /\ c # Nobody
  BY DEF Seated
<1>2. m_Players[old] = client /\ old \in Seats
  BY DEF SeatsOf
<1>3. m_Players'[s] = c
  BY <1>1, <1>2 DEF Inv, TypeOK, Positioning
<1> QED BY <1>1, <1>3 DEF Seated

LEMMA UnseatPlayerLoss ==
    ASSUME Inv, NEW client \in Clients, UnseatPlayer(client),
           NEW c \in m_UnplacedPlayers \cup Seated
    PROVE  NotLost(c)
<1>1. CASE client \in Seated
  <2> PICK old \in SeatsOf(client) : m_Players' = [m_Players EXCEPT ![old] = Nobody]
    BY <1>1 DEF UnseatPlayer
  <2> m_UnplacedPlayers' = m_UnplacedPlayers \cup {client}
    BY <1>1 DEF UnseatPlayer
  <2> QED BY FreeLoss DEF NotLost
<1>2. CASE client \notin Seated
  BY <1>2 DEF UnseatPlayer, NotLost, tableVars, Seated
<1> QED BY <1>1, <1>2

LEMMA DropPlayerLoss ==
    ASSUME Inv, NEW client \in Clients, DropPlayer(client),
           NEW c \in m_UnplacedPlayers \cup Seated
    PROVE  NotLost(c)
<1>1. session'[client] = "left"
  BY DEF DropPlayer, Inv, TypeOK
<1>2. CASE client \in Seated
  <2> PICK old \in SeatsOf(client) : m_Players' = [m_Players EXCEPT ![old] = Nobody]
    BY <1>2 DEF DropPlayer
  <2> m_UnplacedPlayers' = m_UnplacedPlayers
    BY <1>2 DEF DropPlayer
  <2> QED BY <1>1, FreeLoss DEF NotLost
<1>3. CASE client \notin Seated
  BY <1>1, <1>3 DEF DropPlayer, NotLost, Seated
<1> QED BY <1>2, <1>3

LEMMA NextLoss ==
    ASSUME Inv, [Next]_vars, NEW c \in m_UnplacedPlayers \cup Seated
    PROVE  NotLost(c) \/ Overtaken(c)
<1>1. CASE UNCHANGED tableVars
  BY <1>1 DEF NotLost, tableVars, Seated
<1>2. ASSUME NEW client \in Clients, AddPlayer(client) PROVE NotLost(c)
  BY <1>2 DEF AddPlayer, NotLost, Seated
<1>3. ASSUME NEW client \in Clients, Receive(client) PROVE NotLost(c) \/ Overtaken(c)
  <2> DEFINE packet == Head(toServer[client])
  <2>1. packet \in Packet
    BY <1>3 DEF Receive, Inv, TypeOK
  <2>2. CASE packet.type = "PlayerChoosePos" /\ SetPlayerPos(client, packet.seat)
    <3>1. packet.seat \in Seats
      BY <2>1, <2>2 DEF Packet, UnseatRequest, StartGameRequest, ClientLeave
    <3> HIDE DEF packet
    <3> QED BY <2>2, <3>1, SetPlayerPosLoss
  <2>3. CASE UnseatPlayer(client) \/ DropPlayer(client)
    BY <2>3, UnseatPlayerLoss, DropPlayerLoss
  <2>4. CASE UNCHANGED tableVars
    BY <1>1, <2>4
  <2> QED BY <1>3, <2>2, <2>3, <2>4 DEF Receive
<1>4. CASE Update
  BY <1>1, <1>4 DEF Update
<1>5. ASSUME NEW person \in People, PersonStep(person) \/ PersonReads(person) PROVE NotLost(c)
  <2>1. UNCHANGED tableVars
    BY <1>5 DEF PersonStep, PersonReads, ChoosePosition, UnseatMe, StartGameBtn, Disconnect, Ask
  <2> QED BY <2>1 DEF NotLost, tableVars, Seated
<1>6. ASSUME NEW bot \in Bots, BotReads(bot) PROVE NotLost(c)
  <2>1. UNCHANGED tableVars
    BY <1>6 DEF BotReads
  <2> QED BY <2>1 DEF NotLost, tableVars, Seated
<1>7. CASE UNCHANGED vars
  BY <1>1, <1>7 DEF vars
<1> QED BY <1>2, <1>3, <1>4, <1>5, <1>6, <1>7 DEF Next, ServerStep

(* A client in session loses its place only to a seated player who moves to *)
(* its seat: no request of an unplaced player, no unseat and no departure   *)
(* takes the place of another.                                              *)
THEOREM LostOnlyToMoverAlways == Spec => LostOnlyToMover
<1>1. Inv /\ [Next]_vars =>
        [\A c \in m_UnplacedPlayers \cup Seated :
            (session'[c] = "in" /\ c \notin m_UnplacedPlayers' \cup Seated') =>
                \E seat \in SeatsOf(c) : m_Players'[seat] \in Seated \ {c}]_vars
  BY NextLoss DEF NotLost, Overtaken
<1> QED BY <1>1, InitInv, NextInv, PTL DEF Spec, LostOnlyToMover
============================================================================
