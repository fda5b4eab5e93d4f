---------------------------- MODULE ClientProofs ----------------------------
(***************************************************************************)
(* The two programs a person may sit at, for any number of seats, any size *)
(* of the hands, any number of connections, clicks and packets.            *)
(*                                                                         *)
(* The window of the Qt client shows what its own server last told it: its *)
(* host alone can start a match, a person who is seated can leave the      *)
(* seat, and the first question about a proposed card is on the screen     *)
(* while the server waits for its answer.  None of it is inductive: what   *)
(* the window shows depends on the requests, packets and events under way, *)
(* and the invariant says what each of the queues may hold (WindowInv).    *)
(*                                                                         *)
(* The client with two screens reads no packet of the game while the menu  *)
(* is shown.  ClientScreen comes in as an instance: the variables of one   *)
(* name are those of one connection, in two programs, and no theorem       *)
(* relates the two (ScreenInv).                                            *)
(***************************************************************************)
EXTENDS QtWindow, Functions, SequenceTheorems, TLAPS

VARIABLES step, IsOpened, screen, menuScreen, ErrorMsgBox,
          m_QuitPending, m_LoadMenuPending, m_MenuReason, m_LoadGamePending,
          m_IsDisconnecting, m_ConnectionStatus, m_Running

Screen == INSTANCE ClientScreen

----------------------------------------------------------------------------
(* Sequences.                                                               *)

(* No packet of some types.                                                 *)
None(channel, types) == \A i \in DOMAIN channel : channel[i].type \notin types

(* The last packet of some types, as a set of at most one.                  *)
Newest(channel, types) ==
    {channel[i] : i \in {j \in DOMAIN channel :
        /\ channel[j].type \in types
        /\ \A k \in DOMAIN channel : k > j => channel[k].type \notin types}}

(* An item at the end of a queue, and the queue without its first one.      *)
LEMMA AppendFacts ==
    ASSUME NEW S, NEW queue \in Seq(S), NEW item
    PROVE  /\ Len(queue) \in Nat /\ DOMAIN queue = 1 .. Len(queue)
           /\ DOMAIN Append(queue, item) = DOMAIN queue \cup {Len(queue) + 1}
           /\ Append(queue, item)[Len(queue) + 1] = item
           /\ \A i \in DOMAIN queue : Append(queue, item)[i] = queue[i] /\ i \in Nat /\ i < Len(queue) + 1
OBVIOUS

LEMMA TailFacts ==
    ASSUME NEW S, NEW queue \in Seq(S), queue # << >>
    PROVE  /\ Tail(queue) \in Seq(S) /\ Len(queue) \in Nat /\ Len(Tail(queue)) = Len(queue) - 1
           /\ 1 \in DOMAIN queue /\ Head(queue) = queue[1] /\ Head(queue) \in S
           /\ \A i \in DOMAIN Tail(queue) : /\ i \in Nat /\ i >= 1
                                            /\ i + 1 \in DOMAIN queue /\ Tail(queue)[i] = queue[i + 1]
           /\ \A i \in DOMAIN queue : i \in Nat /\ (i # 1 => i - 1 \in DOMAIN Tail(queue)
                                                     /\ Tail(queue)[i - 1] = queue[i])
OBVIOUS

LEMMA AppendRange ==
    ASSUME NEW S, NEW queue \in Seq(S), NEW item
    PROVE  Range(Append(queue, item)) = Range(queue) \cup {item}
<1> DEFINE longer == Append(queue, item)
           n == Len(queue) + 1
<1>1. /\ DOMAIN longer = DOMAIN queue \cup {n} /\ longer[n] = item
      /\ \A i \in DOMAIN queue : longer[i] = queue[i]
  BY AppendFacts
<1> HIDE DEF longer, n
<1> QED BY <1>1 DEF Range, longer

(* What a queue without its first item still holds.                         *)
LEMMA TailRange ==
    ASSUME NEW S, NEW queue \in Seq(S), queue # << >>
    PROVE  Range(queue) = {Head(queue)} \cup Range(Tail(queue))
<1> DEFINE rest == Tail(queue)
<1>1. /\ 1 \in DOMAIN queue /\ Head(queue) = queue[1]
      /\ \A i \in DOMAIN rest : i + 1 \in DOMAIN queue /\ rest[i] = queue[i + 1]
      /\ \A i \in DOMAIN queue : i # 1 => i - 1 \in DOMAIN rest /\ rest[i - 1] = queue[i]
  BY TailFacts
<1> HIDE DEF rest
<1>2. ASSUME NEW i \in DOMAIN queue PROVE queue[i] \in {Head(queue)} \cup Range(rest)
  BY <1>1 DEF Range
<1>3. ASSUME NEW i \in DOMAIN rest PROVE rest[i] \in Range(queue)
  BY <1>1 DEF Range
<1>4. Range(queue) \subseteq {Head(queue)} \cup Range(rest)
  BY <1>2 DEF Range
<1>5. Range(rest) \subseteq Range(queue)
  BY <1>3 DEF Range
<1>6. Head(queue) \in Range(queue)
  BY <1>1 DEF Range
<1> QED BY <1>4, <1>5, <1>6 DEF rest

(* What Append and Tail do to None and to Newest.                           *)
LEMMA AppendPacket ==
    ASSUME NEW S, NEW channel \in Seq(S), NEW packet, NEW types
    PROVE  /\ None(Append(channel, packet), types) <=> None(channel, types) /\ packet.type \notin types
           /\ Newest(Append(channel, packet), types)
                = IF packet.type \in types THEN {packet} ELSE Newest(channel, types)
<1> DEFINE longer == Append(channel, packet)
           n == Len(channel) + 1
<1>1. /\ DOMAIN longer = DOMAIN channel \cup {n} /\ longer[n] = packet /\ n \in Nat
      /\ \A i \in DOMAIN channel : longer[i] = channel[i] /\ i \in Nat /\ i < n
  BY AppendFacts
<1> HIDE DEF longer, n
<1>2. None(longer, types) <=> None(channel, types) /\ packet.type \notin types
  BY <1>1 DEF None
<1>3. CASE packet.type \in types
  <2>1. {j \in DOMAIN longer : /\ longer[j].type \in types
                               /\ \A k \in DOMAIN longer : k > j => longer[k].type \notin types} = {n}
    BY <1>1, <1>3
  <2> QED BY <1>1, <1>2, <1>3, <2>1 DEF Newest, longer
<1>4. CASE packet.type \notin types
  <2> DEFINE last(seq) == {j \in DOMAIN seq : /\ seq[j].type \in types
                               /\ \A k \in DOMAIN seq : k > j => seq[k].type \notin types}
  <2>1. last(longer) = last(channel)
    BY <1>1, <1>4
  <2>2. Newest(longer, types) = {longer[i] : i \in last(longer)}
        /\ Newest(channel, types) = {channel[i] : i \in last(channel)}
    BY DEF Newest
  <2>3. last(channel) \subseteq DOMAIN channel
    OBVIOUS
  <2> HIDE DEF last
  <2> QED BY <1>1, <1>2, <1>4, <2>1, <2>2, <2>3 DEF longer
<1> QED BY <1>3, <1>4

LEMMA TailPacket ==
    ASSUME NEW S, NEW channel \in Seq(S), channel # << >>, NEW types
    PROVE  /\ Newest(Tail(channel), types) \subseteq Newest(channel, types)
           /\ None(channel, types) <=> None(Tail(channel), types) /\ Head(channel).type \notin types
           /\ None(Tail(channel), types) /\ Head(channel).type \in types
                => Head(channel) \in Newest(channel, types)
<1> DEFINE rest == Tail(channel)
<1>1. /\ 1 \in DOMAIN channel /\ Head(channel) = channel[1]
      /\ \A i \in DOMAIN rest : i \in Nat /\ i + 1 \in DOMAIN channel /\ rest[i] = channel[i + 1]
      /\ \A i \in DOMAIN channel : i \in Nat /\ (i # 1 => i - 1 \in DOMAIN rest /\ rest[i - 1] = channel[i])
  BY TailFacts
<1> HIDE DEF rest
<1>2. None(channel, types) <=> None(rest, types) /\ Head(channel).type \notin types
  BY <1>1 DEF None
<1>3. ASSUME NEW i \in DOMAIN rest, rest[i].type \in types,
             \A k \in DOMAIN rest : k > i => rest[k].type \notin types
      PROVE  rest[i] \in Newest(channel, types)
  <2>1. \A k \in DOMAIN channel : k > i + 1 => channel[k].type \notin types
    <3> SUFFICES ASSUME NEW k \in DOMAIN channel, k > i + 1 PROVE channel[k].type \notin types
      OBVIOUS
    <3>1. k \in Nat /\ i \in Nat /\ k # 1 /\ k - 1 > i
      BY <1>1
    <3>2. k - 1 \in DOMAIN rest /\ rest[k - 1] = channel[k]
      BY <1>1, <3>1
    <3> QED BY <1>3, <3>1, <3>2
  <2>2. i + 1 \in DOMAIN channel /\ rest[i] = channel[i + 1]
    BY <1>1
  <2> QED BY <1>3, <2>1, <2>2 DEF Newest
<1>4. ASSUME None(rest, types), Head(channel).type \in types
      PROVE  Head(channel) \in Newest(channel, types)
  <2>1. \A k \in DOMAIN channel : k > 1 => channel[k].type \notin types
    BY <1>1, <1>4 DEF None
  <2> QED BY <1>1, <1>4, <2>1 DEF Newest
<1>5. Newest(rest, types) \subseteq Newest(channel, types)
  BY <1>3 DEF Newest
<1> QED BY <1>2, <1>4, <1>5 DEF rest

(* An empty queue holds nothing.                                            *)
LEMMA EmptyChannel ==
    \A types : Range(<< >>) = {} /\ None(<< >>, types) /\ Newest(<< >>, types) = {}
BY DEF Range, None, Newest

(* What the model queues as a sequence arrives one item after the other.    *)
LEMMA ConcatOne ==
    ASSUME NEW S, NEW queue \in Seq(S), NEW item \in S
    PROVE  /\ queue \o << item >> = Append(queue, item)
           /\ queue \o << >> = queue
<1>1. << item >> \in Seq(S) /\ Len(<< item >>) = 1 /\ << item >>[1] = item
  OBVIOUS
<1> DEFINE one == << item >>
           both == queue \o one
           longer == Append(queue, item)
<1>2. /\ both \in Seq(S) /\ Len(both) = Len(queue) + Len(one)
      /\ \A i \in 1 .. Len(queue) + Len(one) : both[i] = IF i <= Len(queue) THEN queue[i]
                                                                            ELSE one[i - Len(queue)]
  BY <1>1, ConcatProperties, Zenon
<1>3. /\ longer \in Seq(S) /\ Len(queue) \in Nat /\ Len(longer) = Len(queue) + 1
      /\ longer[Len(queue) + 1] = item
      /\ \A i \in 1 .. Len(queue) : longer[i] = queue[i]
  OBVIOUS
<1>4. queue \o << >> = queue
  BY ConcatEmptySeq
<1> HIDE DEF one, both, longer
<1>5. \A i \in 1 .. Len(both) : both[i] = longer[i]
  BY <1>1, <1>2, <1>3 DEF one
<1>6. Len(both) = Len(longer)
  BY <1>1, <1>2, <1>3 DEF one
<1>7. both = longer
  BY <1>2, <1>3, <1>5, <1>6, SeqEqual, Zenon
<1> QED BY <1>4, <1>7 DEF both, longer, one

PacketTypes == {"ConnectionAccepted", "ConnectionDeniedLobbyFull", "ServerShuttingDown",
                "CurrentPositionning", "GameStarting", "FirstCardsDealt", "PotentialAsset",
                "AskRevealedAsset", "AskAnotherAsset", "AllCardsDealt"}

Packets == [type : PacketTypes, taken : SUBSET Seats]

(* The packets that are sent at once, in their order, behind the others.    *)
LEMMA SendsTypes ==
    ASSUME NEW channel \in Seq(Packets), NEW sent \in Seq(PacketTypes)
    PROVE  /\ channel \o Plain(sent) \in Seq(Packets)
           /\ \A types : /\ None(channel \o Plain(sent), types)
                             <=> None(channel, types) /\ \A i \in DOMAIN sent : sent[i] \notin types
                         /\ sent # << >> /\ sent[Len(sent)] \in types
                             => Newest(channel \o Plain(sent), types) = {Packet(sent[Len(sent)], {})}
                         /\ (\A i \in DOMAIN sent : sent[i] \notin types)
                             => Newest(channel \o Plain(sent), types) = Newest(channel, types)
<1> DEFINE plain == Plain(sent)
           all == channel \o plain
           n == Len(channel)
           m == Len(sent)
<1>1. /\ DOMAIN sent = 1 .. m /\ m \in Nat /\ n \in Nat /\ DOMAIN channel = 1 .. n
      /\ sent # << >> => m >= 1
  OBVIOUS
<1>2. /\ plain \in Seq(Packets) /\ Len(plain) = m
      /\ \A i \in 1 .. m : plain[i] = Packet(sent[i], {}) /\ plain[i].type = sent[i]
  <2>1. /\ plain = [i \in 1 .. m |-> Packet(sent[i], {})]
        /\ \A i \in 1 .. m : Packet(sent[i], {}) \in Packets /\ Packet(sent[i], {}).type = sent[i]
    BY <1>1 DEF Plain, Packet, Packets
  <2> HIDE DEF plain, m
  <2>2. plain \in [1 .. m -> Packets]
    BY <2>1
  <2> QED BY <1>1, <2>1, <2>2
<1> HIDE DEF plain, m
<1>3. /\ all \in Seq(Packets) /\ Len(all) = n + m
      /\ \A i \in 1 .. n + m : all[i] = IF i <= n THEN channel[i] ELSE plain[i - n]
  BY <1>2, ConcatProperties, Zenon
<1>4. /\ DOMAIN all = 1 .. n + m
      /\ \A i \in 1 .. n : i \in DOMAIN all /\ all[i] = channel[i]
      /\ \A i \in 1 .. m : n + i \in DOMAIN all /\ all[n + i] = plain[i]
      /\ \A k \in DOMAIN all : k \in 1 .. n \/ \E i \in 1 .. m : k = n + i
  <2> HIDE DEF all, n
  <2>1. DOMAIN all = 1 .. n + m
    BY <1>1, <1>3
  <2>2. \A i \in 1 .. n : i \in DOMAIN all /\ all[i] = channel[i]
    BY <1>1, <1>3, <2>1
  <2>3. \A i \in 1 .. m : n + i \in DOMAIN all /\ all[n + i] = plain[i]
    BY <1>1, <1>3, <2>1
  <2>4. ASSUME NEW k \in DOMAIN all, k \notin 1 .. n PROVE \E i \in 1 .. m : k = n + i
    <3>1. k - n \in 1 .. m /\ k = n + (k - n)
      BY <1>1, <2>1, <2>4
    <3> QED BY <3>1
  <2> QED BY <2>1, <2>2, <2>3, <2>4
<1> HIDE DEF all, n
<1>8. /\ \A i \in DOMAIN sent : all[n + i].type = sent[i]
      /\ \A k \in DOMAIN all : k \in 1 .. n \/ \E i \in DOMAIN sent : k = n + i
  BY <1>1, <1>2, <1>4
<1> SUFFICES ASSUME NEW types
             PROVE  /\ None(all, types) <=> None(channel, types) /\ \A i \in DOMAIN sent : sent[i] \notin types
                    /\ sent # << >> /\ sent[m] \in types => Newest(all, types) = {Packet(sent[m], {})}
                    /\ (\A i \in DOMAIN sent : sent[i] \notin types)
                          => Newest(all, types) = Newest(channel, types)
  BY <1>3 DEF all, plain, m
<1>5. None(all, types) <=> None(channel, types) /\ \A i \in DOMAIN sent : sent[i] \notin types
  <2>1. ASSUME None(all, types) PROVE None(channel, types) /\ \A i \in DOMAIN sent : sent[i] \notin types
    BY <1>1, <1>2, <1>4, <2>1 DEF None
  <2>2. ASSUME None(channel, types), \A i \in DOMAIN sent : sent[i] \notin types PROVE None(all, types)
    <3> SUFFICES ASSUME NEW k \in DOMAIN all PROVE all[k].type \notin types
      BY DEF None
    <3>1. CASE k \in 1 .. n
      BY <1>1, <1>4, <2>2, <3>1 DEF None
    <3>2. CASE \E i \in DOMAIN sent : k = n + i
      <4>1. PICK i \in DOMAIN sent : k = n + i
        BY <3>2
      <4> QED BY <1>8, <2>2, <4>1
    <3> QED BY <1>8, <3>1, <3>2
  <2> QED BY <2>1, <2>2
<1> DEFINE last(queue) == {j \in DOMAIN queue : /\ queue[j].type \in types
                               /\ \A k \in DOMAIN queue : k > j => queue[k].type \notin types}
<1>6. ASSUME sent # << >>, sent[m] \in types PROVE Newest(all, types) = {Packet(sent[m], {})}
  <2>1. m \in 1 .. m /\ n + m \in DOMAIN all /\ all[n + m] = Packet(sent[m], {})
        /\ all[n + m].type = sent[m]
    BY <1>1, <1>2, <1>4, <1>6
  <2>2. \A k \in DOMAIN all : k <= n + m /\ k \in Nat
    BY <1>1, <1>4
  <2>3. last(all) = {n + m}
    BY <1>1, <1>6, <2>1, <2>2
  <2>4. Newest(all, types) = {all[i] : i \in last(all)}
    BY DEF Newest
  <2> HIDE DEF last
  <2> QED BY <2>1, <2>3, <2>4
<1>7. ASSUME \A i \in DOMAIN sent : sent[i] \notin types PROVE Newest(all, types) = Newest(channel, types)
  <2>1. ASSUME NEW k \in DOMAIN all, all[k].type \in types PROVE k \in 1 .. n
    <3>1. ASSUME NEW i \in DOMAIN sent, k = n + i PROVE FALSE
      BY <1>7, <1>8, <2>1, <3>1
    <3> QED BY <1>8, <3>1
  <2>2. last(all) = last(channel)
    BY <1>1, <1>4, <2>1
  <2>3. Newest(all, types) = {all[i] : i \in last(all)}
        /\ Newest(channel, types) = {channel[i] : i \in last(channel)}
    BY DEF Newest
  <2>4. last(channel) \subseteq 1 .. n
    BY <1>1
  <2> HIDE DEF last
  <2> QED BY <1>4, <2>2, <2>3, <2>4
<1> QED BY <1>5, <1>6, <1>7

----------------------------------------------------------------------------
(* The window: the types of what is under way.                              *)

Events == Requests \cup {"ConnectionRequest", "Connected", "LobbyFull", "SendName", "DisconnectionRequest"}

Letters == {letter \in [type : Requests, seat : Seats \cup {NoSeat}] :
                letter.type = "SendPlayerPosition" => letter.seat \in Seats}

Tables == [Seats -> {"nobody", "other", Me}]

TypeInv ==
    /\ m_EventQueue \in Seq(Events)
    /\ inbox \in Seq(Packets) /\ outbox \in Seq(Letters)
    /\ table \in Tables /\ unplaced \in BOOLEAN
    /\ mMyPosition = m_PosName
    /\ "SendPlayerPosition" \in Range(m_EventQueue) => m_PosName \in Seats

(* What the events of the machine leave of its queue.                       *)
LEMMA TransitionQueue ==
    ASSUME NEW source, NEW event, NEW target, NEW queued, m_EventQueue \in Seq(Events),
           Transition(source, event, target, queued),
           queued = << >> \/ \E next \in Events : queued = << next >>
    PROVE  /\ m_EventQueue # << >> /\ Head(m_EventQueue) = event
           /\ Tail(m_EventQueue) \in Seq(Events) /\ m_EventQueue' \in Seq(Events)
           /\ queued = << >> => m_EventQueue' = Tail(m_EventQueue)
           /\ \A next \in Events : queued = << next >>
                => m_EventQueue' = Append(Tail(m_EventQueue), next)
<1>1. m_EventQueue # << >> /\ Head(m_EventQueue) = event /\ m_EventQueue' = Tail(m_EventQueue) \o queued
  BY DEF Transition
<1> DEFINE rest == Tail(m_EventQueue)
<1>2. rest \in Seq(Events)
  BY <1>1, TailFacts
<1>3. CASE queued = << >>
  <2>1. rest \o queued = rest
    BY <1>2, <1>3, ConcatEmptySeq, Zenon
  <2>2. \A next : queued # << next >>
    BY <1>3
  <2> QED BY <1>1, <1>2, <2>1, <2>2
<1>4. ASSUME NEW next \in Events, queued = << next >>
      PROVE  m_EventQueue' = Append(rest, next) /\ m_EventQueue' \in Seq(Events)
  <2>1. rest \o queued = Append(rest, next)
    BY <1>2, <1>4, ConcatOne, Zenon
  <2> QED BY <1>1, <1>2, <1>4, <2>1
<1>5. ASSUME NEW next, queued = << next >> PROVE queued # << >>
  BY <1>5
<1> QED BY <1>1, <1>2, <1>3, <1>4, <1>5

(* The events whose transition, or whose loss, only shortens the queue.     *)
Consumes == ToConnecting \/ ToIdle \/ ToDisconnected \/ SendRequest \/ DropEvent

(* What each step does to the queue of events of the machine.               *)
LEMMA ConsumesQueue ==
    ASSUME m_EventQueue \in Seq(Events), Consumes
    PROVE  /\ m_EventQueue # << >> /\ m_EventQueue' = Tail(m_EventQueue)
           /\ m_EventQueue' \in Seq(Events)
           /\ Range(m_EventQueue) = {Head(m_EventQueue)} \cup Range(m_EventQueue')
<1>1. m_EventQueue # << >> /\ m_EventQueue' = Tail(m_EventQueue)
  <2>1. CASE ToConnecting
    BY <2>1, TransitionQueue DEF ToConnecting
  <2>2. CASE ToIdle
    BY <2>2, TransitionQueue DEF ToIdle
  <2>3. CASE ToDisconnected
    BY <2>3, TransitionQueue DEF ToDisconnected
  <2>4. CASE SendRequest
    BY <2>4, TransitionQueue DEF SendRequest
  <2>5. CASE DropEvent
    BY <2>5 DEF DropEvent
  <2> QED BY <2>1, <2>2, <2>3, <2>4, <2>5 DEF Consumes
<1>2. Tail(m_EventQueue) \in Seq(Events)
  BY <1>1, TailFacts
<1> QED BY <1>1, <1>2, TailRange

LEMMA QueuesNext ==
    ASSUME m_EventQueue \in Seq(Events), ToConnected \/ ToLobbyFull
    PROVE  \E rest \in Seq(Events), next \in {"SendName", "DisconnectionRequest"} :
              /\ m_EventQueue # << >> /\ rest = Tail(m_EventQueue)
              /\ m_EventQueue' = Append(rest, next) /\ m_EventQueue' \in Seq(Events)
              /\ Range(m_EventQueue) = {Head(m_EventQueue)} \cup Range(rest)
              /\ Range(m_EventQueue') = Range(rest) \cup {next}
              /\ ToLobbyFull => next = "DisconnectionRequest"
<1> DEFINE rest == Tail(m_EventQueue)
<1>1. "SendName" \in Events /\ "DisconnectionRequest" \in Events
  BY DEF Events
<1>2. m_EventQueue # << >>
  BY DEF ToConnected, ToLobbyFull, Transition
<1>3. CASE ToLobbyFull
  <2>1. rest \in Seq(Events) /\ m_EventQueue' \in Seq(Events)
        /\ m_EventQueue' = Append(rest, "DisconnectionRequest")
    BY <1>1, <1>3, TransitionQueue DEF ToLobbyFull
  <2>2. /\ Range(m_EventQueue) = {Head(m_EventQueue)} \cup Range(rest)
        /\ Range(Append(rest, "DisconnectionRequest")) = Range(rest) \cup {"DisconnectionRequest"}
    BY <1>2, <2>1, AppendRange, TailRange
  <2> HIDE DEF rest
  <2> QED BY <1>2, <2>1, <2>2 DEF rest
<1>4. CASE ToConnected /\ ~ToLobbyFull
  <2>1. rest \in Seq(Events) /\ m_EventQueue' \in Seq(Events)
        /\ m_EventQueue' = Append(rest, "SendName")
    BY <1>1, <1>4, TransitionQueue DEF ToConnected
  <2>2. /\ Range(m_EventQueue) = {Head(m_EventQueue)} \cup Range(rest)
        /\ Range(Append(rest, "SendName")) = Range(rest) \cup {"SendName"}
    BY <1>2, <2>1, AppendRange, TailRange
  <2> HIDE DEF rest
  <2> QED BY <1>2, <1>4, <2>1, <2>2 DEF rest
<1> QED BY <1>3, <1>4

(* A queue of one event.                                                    *)
LEMMA OneEvent ==
    ASSUME NEW event \in Events
    PROVE  << event >> \in Seq(Events) /\ Range(<< event >>) = {event}
<1>1. << event >> \in Seq(Events) /\ DOMAIN << event >> = {1} /\ << event >>[1] = event
  OBVIOUS
<1> QED BY <1>1 DEF Range

(* The events an update puts into the empty queue.                          *)
Told == {"Connected", "LobbyFull", "DisconnectionRequest"}

(* An update reads at most one packet and leaves at most two events.        *)
LEMMA UpdatesQueue ==
    ASSUME UpdateState
    PROVE  /\ m_EventQueue = << >> /\ Range(m_EventQueue) = {}
           /\ m_EventQueue' \in Seq(Events) /\ Range(m_EventQueue') \subseteq Told
<1> DEFINE empty == << >>
<1>1. Told \subseteq Events
  BY DEF Told, Events
<1>2. empty \in Seq(Events) /\ Range(empty) = {}
  BY EmptyChannel
<1>3. \A event \in Told : << event >> \in Seq(Events) /\ Range(<< event >>) = {event}
  BY <1>1, OneEvent
<1>4. Wish = empty \/ Wish = << "DisconnectionRequest" >>
  BY DEF Wish
<1>5. \A packet : \/ Notified(packet) = empty
                  \/ \E event \in Told : Notified(packet) = << event >>
  BY Zenon DEF Notified, Told
<1>6. ASSUME NEW told, told = empty \/ \E event \in Told : told = << event >>
      PROVE  told \o Wish \in Seq(Events) /\ Range(told \o Wish) \subseteq Told
  <2>1. told \in Seq(Events) /\ Range(told) \subseteq Told
    BY <1>2, <1>3, <1>6
  <2>2. CASE Wish = empty
    <3>1. told \o Wish = told
      BY <2>1, <2>2, ConcatEmptySeq, Zenon
    <3> QED BY <2>1, <3>1
  <2>3. CASE Wish = << "DisconnectionRequest" >>
    <3>1. "DisconnectionRequest" \in Events /\ "DisconnectionRequest" \in Told
      BY DEF Events, Told
    <3>2. told \o Wish = Append(told, "DisconnectionRequest")
      BY <2>1, <2>3, <3>1, ConcatOne, Zenon
    <3>3. Range(Append(told, "DisconnectionRequest")) = Range(told) \cup {"DisconnectionRequest"}
      BY <2>1, AppendRange
    <3>4. Append(told, "DisconnectionRequest") \in Seq(Events)
      BY <2>1, <3>1
    <3> QED BY <2>1, <3>1, <3>2, <3>3, <3>4
  <2> QED BY <1>4, <2>2, <2>3
<1>7. "DisconnectionRequest" \in Told
  BY DEF Told
<1>8. Wish \in Seq(Events) /\ Range(Wish) \subseteq Told
  BY <1>2, <1>3, <1>4, <1>7
<1>9. m_EventQueue' = Wish \/ m_EventQueue' = Notified(Head(inbox)) \o Wish
  BY DEF UpdateState
<1>10. m_EventQueue = empty
  BY DEF UpdateState
<1> HIDE DEF empty
<1> QED BY <1>2, <1>5, <1>6, <1>8, <1>9, <1>10 DEF empty

(* A click is queued behind what waits, if the machine runs.                *)
LEMMA ClickQueue ==
    ASSUME m_EventQueue \in Seq(Events), NEW where, NEW request \in Requests, Click(where, request)
    PROVE  /\ m_EventQueue' \in Seq(Events)
           /\ m_StopFlag => m_EventQueue' = m_EventQueue
           /\ ~m_StopFlag => /\ m_EventQueue' = Append(m_EventQueue, request)
                             /\ Range(m_EventQueue') = Range(m_EventQueue) \cup {request}
<1>1. request \in Events
  BY DEF Events
<1>2. m_EventQueue' = IF m_StopFlag THEN m_EventQueue ELSE Append(m_EventQueue, request)
  BY DEF Click, Notify
<1>3. /\ Range(Append(m_EventQueue, request)) = Range(m_EventQueue) \cup {request}
      /\ Append(m_EventQueue, request) \in Seq(Events)
  BY <1>1, AppendRange
<1> QED BY <1>2, <1>3

Questions == {"PotentialAsset", "AskRevealedAsset"}

LEMMA PacketFacts ==
    ASSUME NEW type, NEW seats
    PROVE  /\ Packet(type, seats).type = type /\ Packet(type, seats).taken = seats
           /\ type \in PacketTypes /\ seats \subseteq Seats => Packet(type, seats) \in Packets
BY DEF Packet, Packets

(* A packet of one type, at the end of the inbox.                           *)
LEMMA SendsPlain ==
    ASSUME inbox \in Seq(Packets)
    PROVE  \A type \in PacketTypes :
              /\ inbox \o Plain(<< type >>) \in Seq(Packets)
              /\ \A types : /\ None(inbox \o Plain(<< type >>), types)
                                <=> None(inbox, types) /\ type \notin types
                            /\ Newest(inbox \o Plain(<< type >>), types)
                                = IF type \in types THEN {Packet(type, {})} ELSE Newest(inbox, types)
<1> SUFFICES ASSUME NEW type \in PacketTypes
             PROVE  /\ inbox \o Plain(<< type >>) \in Seq(Packets)
                    /\ \A types : /\ None(inbox \o Plain(<< type >>), types)
                                       <=> None(inbox, types) /\ type \notin types
                                  /\ Newest(inbox \o Plain(<< type >>), types)
                                       = IF type \in types THEN {Packet(type, {})} ELSE Newest(inbox, types)
  OBVIOUS
<1> DEFINE one == << type >>
<1>1. /\ one \in Seq(PacketTypes) /\ one # << >> /\ Len(one) = 1 /\ DOMAIN one = {1} /\ one[1] = type
      /\ one[Len(one)] = type
  OBVIOUS
<1> HIDE DEF one
<1>2. /\ inbox \o Plain(one) \in Seq(Packets)
      /\ \A types : /\ None(inbox \o Plain(one), types)
                        <=> None(inbox, types) /\ \A i \in DOMAIN one : one[i] \notin types
                    /\ one # << >> /\ one[Len(one)] \in types
                        => Newest(inbox \o Plain(one), types) = {Packet(one[Len(one)], {})}
                    /\ (\A i \in DOMAIN one : one[i] \notin types)
                        => Newest(inbox \o Plain(one), types) = Newest(inbox, types)
  BY <1>1, SendsTypes
<1>3. /\ inbox \o Plain(one) \in Seq(Packets)
      /\ \A types : /\ None(inbox \o Plain(one), types) <=> None(inbox, types) /\ type \notin types
                    /\ Newest(inbox \o Plain(one), types)
                         = IF type \in types THEN {Packet(type, {})} ELSE Newest(inbox, types)
  BY <1>1, <1>2
<1> QED BY <1>3 DEF one

(* What is still to be read, after more has been sent.                      *)
NoneLost == \A types : None(inbox', types) => None(inbox, types)

(* The question that this client is asked is the newest it will read.       *)
MineIsAsked == /\ Mine(table) # {} /\ ~None(inbox', Questions)
               /\ \A packet \in Newest(inbox', Questions) : packet.type = "AskRevealedAsset"

(* A round: the seated are told of the card that is proposed; the question, *)
(* if it is theirs, comes last.                                             *)
LEMMA PreTurnSends ==
    ASSUME inbox \in Seq(Packets), NEW news \in {<< >>, << "GameStarting" >>}, PreTurn(news)
    PROVE  /\ inbox' \in Seq(Packets) /\ NoneLost
           /\ match' \in {"others", "mine"}
           /\ Mine(table) # {} => /\ news # << >> => ~None(inbox', {"GameStarting"})
                                  /\ ~None(inbox', {"PotentialAsset"})
           /\ match' = "mine" => MineIsAsked
<1> DEFINE dealt == << "FirstCardsDealt", "PotentialAsset" >>
           asked == << "FirstCardsDealt", "PotentialAsset", "AskRevealedAsset" >>
           told == news \o dealt
           question == news \o asked
<1>1. news \in Seq(PacketTypes) /\ dealt \in Seq(PacketTypes) /\ asked \in Seq(PacketTypes)
  <2>1. /\ dealt \in Seq(PacketTypes) /\ asked \in Seq(PacketTypes)
        /\ << >> \in Seq(PacketTypes) /\ << "GameStarting" >> \in Seq(PacketTypes)
    BY DEF PacketTypes
  <2> QED BY <2>1
<1>2. /\ Len(dealt) = 2 /\ dealt[2] = "PotentialAsset"
      /\ Len(asked) = 3 /\ asked[2] = "PotentialAsset" /\ asked[3] = "AskRevealedAsset"
      /\ Len(news) \in Nat /\ (news # << >> => Len(news) = 1 /\ news[1] = "GameStarting")
  OBVIOUS
<1> HIDE DEF dealt, asked
<1>3. /\ told \in Seq(PacketTypes) /\ Len(told) = Len(news) + Len(dealt)
      /\ \A i \in 1 .. Len(news) + Len(dealt) : told[i] = IF i <= Len(news) THEN news[i]
                                                                         ELSE dealt[i - Len(news)]
      /\ question \in Seq(PacketTypes) /\ Len(question) = Len(news) + Len(asked)
      /\ \A i \in 1 .. Len(news) + Len(asked) : question[i] = IF i <= Len(news) THEN news[i]
                                                                         ELSE asked[i - Len(news)]
  BY <1>1, ConcatProperties, Zenon
<1>4. \/ match' = "others" /\ inbox' = inbox /\ Mine(table) = {}
      \/ match' = "others" /\ inbox' = inbox \o Plain(told)
      \/ match' = "mine" /\ Mine(table) # {} /\ inbox' = inbox \o Plain(question)
  BY DEF PreTurn, Send, told, question, dealt, asked
<1> HIDE DEF told, question
<1>5. /\ DOMAIN told = 1 .. Len(news) + 2 /\ DOMAIN question = 1 .. Len(news) + 3
      /\ Len(news) + 2 \in DOMAIN told /\ told[Len(news) + 2] = "PotentialAsset"
      /\ Len(news) + 2 \in DOMAIN question /\ question[Len(news) + 2] = "PotentialAsset"
      /\ question # << >> /\ question[Len(question)] = "AskRevealedAsset"
      /\ news # << >> => /\ 1 \in DOMAIN told /\ told[1] = "GameStarting"
                         /\ 1 \in DOMAIN question /\ question[1] = "GameStarting"
  <2>1. Len(news) + 2 - Len(news) = 2 /\ Len(news) + 3 - Len(news) = 3
    BY <1>2
  <2> QED BY <1>2, <1>3, <2>1
<1>6. CASE match' = "others" /\ inbox' = inbox /\ Mine(table) = {}
  BY <1>6 DEF NoneLost
<1>7. CASE match' = "others" /\ inbox' = inbox \o Plain(told)
  <2>1. /\ inbox' \in Seq(Packets)
        /\ \A types : None(inbox', types) <=> None(inbox, types) /\ \A i \in DOMAIN told : told[i] \notin types
    BY <1>3, <1>7, SendsTypes
  <2>2. NoneLost
    BY <2>1 DEF NoneLost
  <2>3. ~None(inbox', {"PotentialAsset"}) /\ (news # << >> => ~None(inbox', {"GameStarting"}))
    BY <1>5, <2>1
  <2> QED BY <1>7, <2>1, <2>2, <2>3
<1>8. CASE match' = "mine" /\ Mine(table) # {} /\ inbox' = inbox \o Plain(question)
  <2>1. /\ inbox' \in Seq(Packets)
        /\ \A types : /\ None(inbox', types)
                          <=> None(inbox, types) /\ \A i \in DOMAIN question : question[i] \notin types
                      /\ question # << >> /\ question[Len(question)] \in types
                          => Newest(inbox', types) = {Packet(question[Len(question)], {})}
    BY <1>3, <1>8, SendsTypes
  <2>2. NoneLost /\ ~None(inbox', {"PotentialAsset"}) /\ (news # << >> => ~None(inbox', {"GameStarting"}))
    BY <1>5, <2>1 DEF NoneLost
  <2>3. ~None(inbox', Questions) /\ Newest(inbox', Questions) = {Packet("AskRevealedAsset", {})}
    BY <1>5, <2>1 DEF Questions
  <2>4. MineIsAsked
    BY <1>8, <2>3, PacketFacts DEF MineIsAsked
  <2> QED BY <1>8, <2>1, <2>2, <2>4
<1> QED BY <1>4, <1>6, <1>7, <1>8

(* The seats, and the news of them that this client gets if it has a place. *)
LEMMA PositionFacts ==
    ASSUME inbox \in Seq(Packets), NEW seating, NEW isUnplaced, Position(seating, isUnplaced)
    PROVE  /\ table' = seating /\ unplaced' = isUnplaced /\ inbox' \in Seq(Packets)
           /\ isUnplaced \/ Mine(seating) # {} =>
                 /\ ~None(inbox', {"CurrentPositionning"})
                 /\ Newest(inbox', {"CurrentPositionning"})
                      = {Packet("CurrentPositionning", Occupied(seating))}
<1> DEFINE packet == Packet("CurrentPositionning", Occupied(seating))
<1>1. packet \in Packets /\ packet.type = "CurrentPositionning"
  <2>1. Occupied(seating) \subseteq Seats
    BY DEF Occupied
  <2> QED BY <2>1, PacketFacts DEF PacketTypes
<1>2. /\ table' = seating /\ unplaced' = isUnplaced
      /\ inbox' = IF isUnplaced \/ Mine(seating) # {} THEN Append(inbox, packet) ELSE inbox
  BY DEF Position
<1> HIDE DEF packet
<1>3. /\ Append(inbox, packet) \in Seq(Packets)
      /\ ~None(Append(inbox, packet), {"CurrentPositionning"})
      /\ Newest(Append(inbox, packet), {"CurrentPositionning"}) = {packet}
  BY <1>1, AppendPacket
<1> QED BY <1>2, <1>3 DEF packet

(* The seats of this client after a request, and of the others after a move. *)
LEMMA SetPlayerPosFacts ==
    ASSUME table \in Tables, unplaced \in BOOLEAN, NEW seat \in Seats, unplaced => Mine(table) = {}, SetPlayerPos(seat)
    PROVE  \E seating \in Tables, isUnplaced \in BOOLEAN :
              /\ Position(seating, isUnplaced)
              /\ isUnplaced => Mine(seating) = {}
              /\ Mine(seating) # {} => Mine(seating) = {seat}
<1>1. CASE unplaced /\ table[seat] = "nobody"
  <2> DEFINE seating == [table EXCEPT ![seat] = Me]
  <2>1. seating \in Tables /\ Mine(seating) = {seat}
    BY <1>1 DEF Tables, Mine
  <2>2. Position(seating, FALSE)
    BY <1>1 DEF SetPlayerPos
  <2> HIDE DEF seating
  <2> QED BY <2>1, <2>2
<1>2. CASE ~unplaced /\ Mine(table) # {}
  <2> DEFINE seating == [s \in Seats |-> CASE s = seat -> Me
                                           [] s # seat /\ table[s] = Me -> "nobody"
                                           [] OTHER -> table[s]]
  <2>1. \A s \in Seats : seating[s] = IF s = seat THEN Me
                                      ELSE IF table[s] = Me THEN "nobody" ELSE table[s]
    BY Zenon
  <2>2. Position(seating, FALSE)
    <3>1. ~(unplaced /\ table[seat] = "nobody")
      BY <1>2
    <3> QED BY <1>2, <3>1, Zenon DEF SetPlayerPos
  <2>3. seating = [s \in Seats |-> seating[s]]
    OBVIOUS
  <2> HIDE DEF seating
  <2>4. seating \in Tables /\ Mine(seating) = {seat}
    BY <2>1, <2>3 DEF Tables, Mine, Me
  <2> QED BY <2>2, <2>4
<1>3. CASE ~(unplaced /\ table[seat] = "nobody") /\ ~(~unplaced /\ Mine(table) # {})
  <2>1. Position(table, unplaced)
    BY <1>3, Zenon DEF SetPlayerPos
  <2> QED BY <1>3, <2>1
<1> QED BY <1>1, <1>2, <1>3

(* This client leaves the seats it has.                                     *)
LEMMA UnseatFacts ==
    ASSUME table \in Tables, UnseatPlayer
    PROVE  \E seating \in Tables, isUnplaced \in BOOLEAN :
              Position(seating, isUnplaced) /\ Mine(seating) = {}
<1> DEFINE seating == [s \in Seats |-> IF table[s] = Me THEN "nobody" ELSE table[s]]
<1>1. seating \in Tables /\ Mine(seating) = {}
  BY DEF Tables, Mine, Me
<1>2. Position(seating, unplaced \/ Mine(table) # {})
  BY DEF UnseatPlayer
<1> HIDE DEF seating
<1> QED BY <1>1, <1>2

LEMMA OthersMoveFacts ==
    ASSUME table \in Tables, OthersMove
    PROVE  \E seating \in Tables : Position(seating, unplaced) /\ Mine(seating) \subseteq Mine(table)
<1>1. PICK seat \in Seats :
          \/ table[seat] = "nobody" /\ Position([table EXCEPT ![seat] = "other"], unplaced)
          \/ table[seat] = "other" /\ Position([table EXCEPT ![seat] = "nobody"], unplaced)
          \/ \E old \in Seats \ {seat} :
                Position([table EXCEPT ![old] = "nobody", ![seat] = "other"], unplaced)
  BY DEF OthersMove
<1>2. \A new \in {"nobody", "other"}, s \in Seats :
          /\ [table EXCEPT ![s] = new] \in Tables
          /\ Mine([table EXCEPT ![s] = new]) \subseteq Mine(table)
  BY DEF Tables, Mine, Me
<1>3. \A old \in Seats \ {seat} :
          /\ [table EXCEPT ![old] = "nobody", ![seat] = "other"] \in Tables
          /\ Mine([table EXCEPT ![old] = "nobody", ![seat] = "other"]) \subseteq Mine(table)
  BY DEF Tables, Mine, Me
<1> QED BY <1>1, <1>2, <1>3

LEMMA ServerAddsFacts ==
    ASSUME ServerAdds
    PROVE  \E seating \in Tables : Position(seating, TRUE) /\ Mine(seating) = {}
<1>1. PICK seating \in [Seats -> {"nobody", "other"}] : Position(seating, TRUE)
  BY DEF ServerAdds
<1>2. seating \in Tables /\ Mine(seating) = {}
  BY DEF Tables, Mine, Me
<1> QED BY <1>1, <1>2

(* What nobody but the machine and the person changes.                      *)
LEMMA TableStepFrame ==
    ASSUME ServerStep
    PROVE  /\ m_EventQueue' = m_EventQueue /\ m_CurrentState' = m_CurrentState
           /\ m_StopFlag' = m_StopFlag /\ updating' = updating
           /\ mMyPosition' = mMyPosition /\ m_PosName' = m_PosName /\ unseat' = unseat
           /\ startVisible' = startVisible /\ m_GameMode' = m_GameMode /\ isOwnServer' = isOwnServer
           /\ scene' = scene /\ mPotentialAsset' = mPotentialAsset /\ askVisible' = askVisible
BY DEF ServerStep, ServerAnswers, ServerEnds, ServerAdds, OthersMove, OthersStart, OthersAnswer,
       ServerReads, TableStep, windowVars, seatVars, playVars, coverVars, machineVars, socketVars

(* A request that is read is of a type the window sends.                    *)
LEMMA LetterFacts ==
    ASSUME outbox \in Seq(Letters), outbox # << >>
    PROVE  /\ Head(outbox) \in Letters /\ Head(outbox).type \in Requests
           /\ Head(outbox).type = "SendPlayerPosition" => Head(outbox).seat \in Seats
           /\ Tail(outbox) \in Seq(Letters)
<1>1. Head(outbox) \in Letters /\ Tail(outbox) \in Seq(Letters)
  BY TailFacts
<1> QED BY <1>1 DEF Letters

LEMMA AcceptedFacts ==
    ASSUME inbox \in Seq(Packets), Accepted
    PROVE  match' = "play" /\ table' = table /\ unplaced' = unplaced /\ inbox' \in Seq(Packets)
BY SendsPlain DEF Accepted, Send, PacketTypes

LEMMA RefusedFacts ==
    ASSUME inbox \in Seq(Packets), Refused
    PROVE  /\ table' = table /\ unplaced' = unplaced /\ inbox' \in Seq(Packets)
           /\ match \in Proposals /\ match' \in Proposals /\ NoneLost
           /\ match' = "mine" => MineIsAsked
<1>1. table' = table /\ unplaced' = unplaced
  BY DEF Refused
<1>2. CASE match \in {"others", "after", "last"} /\ match' = match /\ inbox' = inbox
  BY <1>1, <1>2 DEF Proposals, NoneLost
<1>3. CASE match = "others" /\ Mine(table) # {} /\ match' = "mine" /\ Send(<< "AskRevealedAsset" >>)
  <2>1. /\ inbox' \in Seq(Packets)
        /\ \A types : /\ None(inbox', types) <=> None(inbox, types) /\ "AskRevealedAsset" \notin types
                      /\ Newest(inbox', types) = IF "AskRevealedAsset" \in types
                                                 THEN {Packet("AskRevealedAsset", {})} ELSE Newest(inbox, types)
    BY <1>3, SendsPlain DEF Send, PacketTypes
  <2>2. ~None(inbox', Questions) /\ Newest(inbox', Questions) = {Packet("AskRevealedAsset", {})}
    BY <2>1 DEF Questions
  <2> QED BY <1>1, <1>3, <2>1, <2>2, PacketFacts DEF Proposals, NoneLost, MineIsAsked
<1>4. CASE \/ match = "mine" /\ match' = "after" /\ UNCHANGED inbox
           \/ match = "another" /\ match' = "last" /\ UNCHANGED inbox
  BY <1>1, <1>4 DEF Proposals, NoneLost
<1>5. CASE match = "after" /\ match' = "another" /\ Send(<< "AskAnotherAsset" >>)
  <2>1. /\ inbox' \in Seq(Packets)
        /\ \A types : None(inbox', types) <=> None(inbox, types) /\ "AskAnotherAsset" \notin types
    BY <1>5, SendsPlain DEF Send, PacketTypes
  <2> QED BY <1>1, <1>5, <2>1 DEF Proposals, NoneLost
<1>6. CASE match \in {"another", "last"} /\ PreTurn(<< >>)
  <2>1. << >> \in {<< >>, << "GameStarting" >>}
    OBVIOUS
  <2> QED BY <1>1, <1>6, <2>1, PreTurnSends DEF Proposals
<1> QED BY <1>2, <1>3, <1>4, <1>5, <1>6 DEF Refused

(* A match as the others see it, or as this client does: a card proposed.   *)
DealtFacts == /\ match' \in {"others", "mine"} /\ (match' = "mine" => MineIsAsked)
              /\ table' = table /\ unplaced' = unplaced
              /\ Mine(table) # {} => /\ ~None(inbox', {"GameStarting"})
                                     /\ ~None(inbox', {"PotentialAsset"})

SeatedFacts(seat) ==
    Mine(table') # {} => /\ Mine(table') = {seat}
                         /\ ~None(inbox', {"CurrentPositionning"})
                         /\ Newest(inbox', {"CurrentPositionning"})
                              = {Packet("CurrentPositionning", Occupied(table'))}

(* A match starts with a card that is proposed to somebody.                 *)
LEMMA DealFacts ==
    ASSUME inbox \in Seq(Packets), Deal
    PROVE  DealtFacts /\ inbox' \in Seq(Packets)
<1>1. PreTurn(<< "GameStarting" >>) /\ table' = table /\ unplaced' = unplaced
  BY DEF Deal
<1>2. << "GameStarting" >> \in {<< >>, << "GameStarting" >>} /\ << "GameStarting" >> # << >>
  OBVIOUS
<1> QED BY <1>1, <1>2, PreTurnSends DEF DealtFacts

(* The server handles a request.                                            *)
LEMMA ServerReadsFacts ==
    ASSUME TypeInv, unplaced => Mine(table) = {}, ServerReads
    PROVE  /\ server = "table" /\ server' = "table"
           /\ outbox # << >> /\ outbox' = Tail(outbox) /\ outbox' \in Seq(Letters)
           /\ table' \in Tables /\ unplaced' \in BOOLEAN /\ inbox' \in Seq(Packets)
           /\ unplaced' => Mine(table') = {}
           /\ \/ /\ Head(outbox).type = "SendPlayerPosition"
                 /\ match' = "none" /\ SeatedFacts(Head(outbox).seat)
              \/ match' = "none" /\ Mine(table') = {}
              \/ /\ Head(outbox).type = "StartGame"
                 /\ table' = table /\ match' = match /\ inbox' = inbox
              \/ DealtFacts
              \/ Refused
              \/ match' \in {"play", "broken"}
<1> DEFINE request == Head(outbox)
<1>1. /\ inbox \in Seq(Packets) /\ outbox \in Seq(Letters) /\ table \in Tables /\ unplaced \in BOOLEAN
  BY DEF TypeInv
<1>2. /\ server = "table" /\ server' = server /\ outbox # << >> /\ outbox' = Tail(outbox)
      /\ \/ match = "none" /\ request.type = "SendPlayerPosition" /\ SetPlayerPos(request.seat)
         \/ match = "none" /\ request.type = "UnseatMe" /\ UnseatPlayer
         \/ request.type = "StartGame" /\ ServerStarts
         \/ Accepted
         \/ Refused
         \/ Breaks
  BY DEF ServerReads
<1>3. /\ Tail(outbox) \in Seq(Letters)
      /\ request.type = "SendPlayerPosition" => request.seat \in Seats
  BY <1>1, <1>2, LetterFacts
<1> HIDE DEF request
<1>4. CASE match = "none" /\ request.type = "SendPlayerPosition" /\ SetPlayerPos(request.seat)
  <2>1. match' = "none"
    BY <1>4 DEF SetPlayerPos
  <2>2. PICK seating \in Tables, isUnplaced \in BOOLEAN :
              /\ Position(seating, isUnplaced)
              /\ isUnplaced => Mine(seating) = {}
              /\ Mine(seating) # {} => Mine(seating) = {request.seat}
    BY <1>1, <1>3, <1>4, SetPlayerPosFacts
  <2>3. /\ table' = seating /\ unplaced' = isUnplaced /\ inbox' \in Seq(Packets)
        /\ isUnplaced \/ Mine(seating) # {} =>
              /\ ~None(inbox', {"CurrentPositionning"})
              /\ Newest(inbox', {"CurrentPositionning"})
                   = {Packet("CurrentPositionning", Occupied(seating))}
    BY <1>1, <2>2, PositionFacts
  <2>4. SeatedFacts(request.seat)
    BY <2>2, <2>3 DEF SeatedFacts
  <2> QED BY <1>2, <1>3, <1>4, <2>1, <2>2, <2>3, <2>4 DEF request
<1>5. CASE match = "none" /\ request.type = "UnseatMe" /\ UnseatPlayer
  <2>1. match' = "none"
    BY <1>5 DEF UnseatPlayer
  <2>2. PICK seating \in Tables, isUnplaced \in BOOLEAN :
              Position(seating, isUnplaced) /\ Mine(seating) = {}
    BY <1>1, <1>5, UnseatFacts
  <2>3. /\ table' = seating /\ unplaced' = isUnplaced /\ inbox' \in Seq(Packets)
    BY <1>1, <2>2, PositionFacts
  <2> QED BY <1>2, <1>3, <2>1, <2>2, <2>3
<1>6. CASE request.type = "StartGame" /\ ServerStarts
  <2>1. CASE Deal
    <3>1. DealtFacts /\ inbox' \in Seq(Packets)
      BY <1>1, <2>1, DealFacts
    <3>2. table' = table /\ unplaced' = unplaced
      BY <3>1 DEF DealtFacts
    <3> QED BY <1>1, <1>2, <1>3, <3>1, <3>2
  <2>2. CASE table' = table /\ unplaced' = unplaced /\ match' = match /\ inbox' = inbox
    BY <1>1, <1>2, <1>3, <1>6, <2>2 DEF request
  <2>3. Deal \/ (table' = table /\ unplaced' = unplaced /\ match' = match /\ inbox' = inbox)
    BY <1>6 DEF ServerStarts
  <2> QED BY <2>1, <2>2, <2>3
<1>7. CASE Accepted
  BY <1>1, <1>2, <1>3, <1>7, AcceptedFacts
<1>8. CASE Refused
  <2>1. table' = table /\ unplaced' = unplaced /\ inbox' \in Seq(Packets)
    BY <1>1, <1>8, RefusedFacts
  <2> QED BY <1>1, <1>2, <1>3, <1>8, <2>1
<1>9. CASE Breaks
  <2>1. table' = table /\ unplaced' = unplaced /\ inbox' = inbox /\ match' = "broken"
    BY <1>9 DEF Breaks
  <2> QED BY <1>1, <1>2, <1>3, <2>1
<1> QED BY <1>2, <1>4, <1>5, <1>6, <1>7, <1>8, <1>9

NewsOfSeats == /\ ~None(inbox', {"CurrentPositionning"})
               /\ Newest(inbox', {"CurrentPositionning"})
                    = {Packet("CurrentPositionning", Occupied(table'))}

(* The server does something of its own, or the others do.                  *)
LEMMA ServerMovesFacts ==
    ASSUME TypeInv, unplaced => Mine(table) = {}, ServerStep, ~ServerReads
    PROVE  /\ outbox' \in Seq(Letters)
           /\ table' \in Tables /\ unplaced' \in BOOLEAN /\ inbox' \in Seq(Packets)
           /\ unplaced' => Mine(table') = {}
           /\ \/ server = "asked" /\ server' \in {"accepted", "denied"} /\ outbox' = outbox
              \/ server' = "gone" /\ outbox' = << >>
              \/ server = "named" /\ server' = "table" /\ outbox' = outbox
                 /\ match' = "none" /\ Mine(table') = {}
              \/ /\ server = "table" /\ server' = "table" /\ outbox' = outbox
                 /\ \/ /\ match = "none" /\ match' = "none" /\ Mine(table') \subseteq Mine(table)
                       /\ Mine(table') # {} => NewsOfSeats
                    \/ DealtFacts
                    \/ Refused
                    \/ match' = "play"
<1>1. /\ inbox \in Seq(Packets) /\ outbox \in Seq(Letters) /\ table \in Tables /\ unplaced \in BOOLEAN
  BY DEF TypeInv
<1>2. << >> \in Seq(Letters)
  OBVIOUS
<1>3. CASE ServerAnswers
  <2>1. inbox' \in Seq(Packets)
    BY <1>1, <1>3, SendsPlain DEF ServerAnswers, Send, PacketTypes
  <2> QED BY <1>1, <1>3, <2>1 DEF ServerAnswers, tableVars
<1>4. CASE ServerEnds
  <2>1. inbox' \in Seq(Packets)
    BY <1>1, <1>4, SendsPlain DEF ServerEnds, Send, PacketTypes
  <2> QED BY <1>1, <1>2, <1>4, <2>1 DEF ServerEnds, tableVars
<1>5. CASE ServerAdds
  <2>1. PICK seating \in Tables : Position(seating, TRUE) /\ Mine(seating) = {}
    BY <1>5, ServerAddsFacts
  <2>2. table' = seating /\ unplaced' = TRUE /\ inbox' \in Seq(Packets)
    BY <1>1, <2>1, PositionFacts
  <2> QED BY <1>1, <1>5, <2>1, <2>2 DEF ServerAdds
<1>6. CASE OthersMove
  <2>1. PICK seating \in Tables : Position(seating, unplaced) /\ Mine(seating) \subseteq Mine(table)
    BY <1>1, <1>6, OthersMoveFacts
  <2>2. /\ table' = seating /\ unplaced' = unplaced /\ inbox' \in Seq(Packets)
        /\ Mine(seating) # {} => /\ ~None(inbox', {"CurrentPositionning"})
                                 /\ Newest(inbox', {"CurrentPositionning"})
                                      = {Packet("CurrentPositionning", Occupied(seating))}
    BY <1>1, <2>1, PositionFacts
  <2>3. Mine(table') # {} => NewsOfSeats
    BY <2>2 DEF NewsOfSeats
  <2> QED BY <1>1, <1>6, <2>1, <2>2, <2>3 DEF OthersMove
<1>7. CASE OthersStart
  <2>1. Deal /\ server = "table" /\ server' = server /\ outbox' = outbox
    BY <1>7 DEF OthersStart
  <2>2. DealtFacts /\ inbox' \in Seq(Packets)
    BY <1>1, <2>1, DealFacts
  <2>3. table' = table /\ unplaced' = unplaced
    BY <2>2 DEF DealtFacts
  <2> QED BY <1>1, <2>1, <2>2, <2>3
<1>8. CASE OthersAnswer
  <2>1. (Accepted \/ Refused) /\ server = "table" /\ server' = server /\ outbox' = outbox
    BY <1>8 DEF OthersAnswer
  <2>2. CASE Accepted
    BY <1>1, <2>1, <2>2, AcceptedFacts
  <2>3. CASE Refused
    <3>1. table' = table /\ unplaced' = unplaced /\ inbox' \in Seq(Packets)
      BY <1>1, <2>3, RefusedFacts
    <3> QED BY <1>1, <2>1, <2>3, <3>1
  <2> QED BY <2>1, <2>2, <2>3
<1> QED BY <1>3, <1>4, <1>5, <1>6, <1>7, <1>8 DEF ServerStep

(* The types hold at the start.                                             *)
LEMMA TypeInit == Init => TypeInv
<1> SUFFICES ASSUME Init PROVE TypeInv
  OBVIOUS
<1>1. << >> \in Seq(Events) /\ << >> \in Seq(Packets) /\ << >> \in Seq(Letters)
  OBVIOUS
<1>2. table \in Tables
  BY DEF Init, Tables
<1>3. Range(m_EventQueue) = {}
  BY EmptyChannel DEF Init
<1> QED BY <1>1, <1>2, <1>3 DEF Init, TypeInv

(* A server that is stopped takes the requests with it.                     *)
LEMMA StopServerFacts ==
    ASSUME inbox \in Seq(Packets), outbox \in Seq(Letters), StopServer
    PROVE  /\ inbox' \in Seq(Packets) /\ outbox' \in Seq(Letters)
           /\ \/ isOwnServer /\ server' = "gone" /\ outbox' = << >>
              \/ ~isOwnServer /\ server' = server /\ outbox' = outbox /\ inbox' = inbox
<1>1. << >> \in Seq(Letters)
  OBVIOUS
<1>2. inbox \o Plain(<< "ServerShuttingDown" >>) \in Seq(Packets)
  BY SendsPlain DEF PacketTypes
<1> QED BY <1>1, <1>2 DEF StopServer, channelVars

(* What the invariants speak about.                                         *)
coreVars == << scene, mMyPosition, unseat, startVisible, mPotentialAsset, askVisible, m_GameMode,
               m_CurrentState, m_StopFlag, m_EventQueue, updating, m_PosName, server, isOwnServer,
               table, unplaced, match, inbox, outbox >>

Covers == OpenDialog \/ CancelDialog \/ HangInDialog \/ CloseBox

(* Dialogs cover the window and change nothing the invariant speaks about.  *)
LEMMA CoversFrame == Covers \/ UNCHANGED vars => UNCHANGED coreVars
BY DEF Covers, OpenDialog, CancelDialog, HangInDialog, CloseBox, coreVars, vars, windowVars, seatVars,
       playVars, machineVars, socketVars, tableVars, channelVars

Clicks == \/ \E seat \in Seats : OnPosButtonPressed(seat)
          \/ UnseatMe \/ StartGame \/ AnswerProposedAsset

(* A click queues a request and leaves the connection and the server alone. *)
LEMMA ClicksFacts ==
    ASSUME m_EventQueue \in Seq(Events), Clicks
    PROVE  \E request \in Requests :
              /\ ~updating /\ updating' = updating
              /\ m_EventQueue' \in Seq(Events)
              /\ m_StopFlag => m_EventQueue' = m_EventQueue
              /\ ~m_StopFlag => /\ m_EventQueue' = Append(m_EventQueue, request)
                                /\ Range(m_EventQueue') = Range(m_EventQueue) \cup {request}
              /\ UNCHANGED << scene, unseat, startVisible, mPotentialAsset, m_GameMode,
                              m_CurrentState, m_StopFlag, server, isOwnServer, table, unplaced,
                              match, inbox, outbox >>
              /\ request = "StartGame" => startVisible
              /\ \/ /\ request = "SendPlayerPosition"
                    /\ mMyPosition' = m_PosName' /\ m_PosName' \in Seats /\ askVisible' = askVisible
                 \/ /\ request # "SendPlayerPosition"
                    /\ mMyPosition' = mMyPosition /\ m_PosName' = m_PosName
                    /\ request \in {"AcceptAsset", "RefuseAsset"} \/ askVisible' = askVisible
<1>1. \A where : \A request \in Requests : Click(where, request) =>
              /\ ~updating /\ updating' = updating
              /\ m_EventQueue' \in Seq(Events)
              /\ m_StopFlag => m_EventQueue' = m_EventQueue
              /\ ~m_StopFlag => /\ m_EventQueue' = Append(m_EventQueue, request)
                                /\ Range(m_EventQueue') = Range(m_EventQueue) \cup {request}
              /\ UNCHANGED << scene, unseat, startVisible, mPotentialAsset, m_GameMode,
                              m_CurrentState, m_StopFlag, server, isOwnServer, table, unplaced,
                              match, inbox, outbox >>
  <2> SUFFICES ASSUME NEW where, NEW request \in Requests, Click(where, request)
               PROVE  /\ ~updating /\ updating' = updating
                      /\ m_EventQueue' \in Seq(Events)
                      /\ m_StopFlag => m_EventQueue' = m_EventQueue
                      /\ ~m_StopFlag => /\ m_EventQueue' = Append(m_EventQueue, request)
                                        /\ Range(m_EventQueue') = Range(m_EventQueue) \cup {request}
                      /\ UNCHANGED << scene, unseat, startVisible, mPotentialAsset, m_GameMode,
                                      m_CurrentState, m_StopFlag, server, isOwnServer, table, unplaced,
                                      match, inbox, outbox >>
    OBVIOUS
  <2>1. /\ ~updating /\ updating' = updating
        /\ UNCHANGED << scene, unseat, startVisible, mPotentialAsset, m_GameMode,
                        m_CurrentState, m_StopFlag, server, isOwnServer, table, unplaced,
                        match, inbox, outbox >>
    BY DEF Click, MayClick, tableVars, channelVars
  <2>2. /\ m_EventQueue' \in Seq(Events)
        /\ m_StopFlag => m_EventQueue' = m_EventQueue
        /\ ~m_StopFlag => /\ m_EventQueue' = Append(m_EventQueue, request)
                          /\ Range(m_EventQueue') = Range(m_EventQueue) \cup {request}
    BY ClickQueue
  <2> QED BY <2>1, <2>2
<1>2. CASE \E seat \in Seats : OnPosButtonPressed(seat)
  <2>1. "SendPlayerPosition" \in Requests
    BY DEF Requests
  <2>2. /\ Click("setup", "SendPlayerPosition")
        /\ mMyPosition' = m_PosName' /\ m_PosName' \in Seats /\ askVisible' = askVisible
    BY <1>2 DEF OnPosButtonPressed
  <2> QED BY <1>1, <2>1, <2>2
<1>3. CASE UnseatMe
  <2>1. "UnseatMe" \in Requests
    BY DEF Requests
  <2>2. /\ Click("setup", "UnseatMe")
        /\ mMyPosition' = mMyPosition /\ m_PosName' = m_PosName /\ askVisible' = askVisible
    BY <1>3 DEF UnseatMe
  <2> QED BY <1>1, <2>1, <2>2
<1>4. CASE StartGame
  <2>1. "StartGame" \in Requests
    BY DEF Requests
  <2>2. /\ Click("setup", "StartGame") /\ startVisible
        /\ mMyPosition' = mMyPosition /\ m_PosName' = m_PosName /\ askVisible' = askVisible
    BY <1>4 DEF StartGame
  <2> QED BY <1>1, <2>1, <2>2
<1>5. CASE AnswerProposedAsset
  <2>1. "AcceptAsset" \in Requests /\ "RefuseAsset" \in Requests
    BY DEF Requests
  <2>2. PICK request \in {"AcceptAsset", "RefuseAsset"} :
           /\ Click("play", request)
           /\ mMyPosition' = mMyPosition /\ m_PosName' = m_PosName
    BY <1>5 DEF AnswerProposedAsset
  <2> QED BY <1>1, <2>1, <2>2
<1> QED BY <1>2, <1>3, <1>4, <1>5 DEF Clicks

(* The steps of Next, as the lemmas above group them.                       *)
LEMMA StepCases ==
    ASSUME [Next]_vars
    PROVE  \/ Covers \/ UNCHANGED vars
           \/ Consumes \/ ToConnected \/ ToLobbyFull \/ UpdateState
           \/ AcceptDialog \/ OnLeaveGame \/ Clicks
           \/ ServerStep
BY DEF Next, OnUpdate, PersonStep, Covers, Consumes, Clicks

(* The person leaves: at once only the server of a host is gone.            *)
LEMMA LeaveFacts ==
    ASSUME inbox \in Seq(Packets), outbox \in Seq(Letters), OnLeaveGame
    PROVE  /\ inbox' \in Seq(Packets) /\ outbox' \in Seq(Letters)
           /\ \/ server' = "gone" /\ outbox' = << >>
              \/ server' = server /\ outbox' = outbox /\ inbox' = inbox
           /\ UNCHANGED << scene, mMyPosition, unseat, startVisible, mPotentialAsset, askVisible,
                           m_GameMode, m_CurrentState, m_StopFlag, m_EventQueue, updating, m_PosName,
                           isOwnServer, table, unplaced, match >>
<1>1. UNCHANGED << scene, mMyPosition, unseat, startVisible, mPotentialAsset, askVisible,
                   m_GameMode, m_CurrentState, m_StopFlag, m_EventQueue, updating, m_PosName,
                   isOwnServer, table, unplaced, match >>
  BY DEF OnLeaveGame, windowVars, seatVars, playVars, machineVars, tableVars
<1>2. CASE m_GameMode = "GM_HOST"
  <2>1. StopServer
    BY <1>2 DEF OnLeaveGame
  <2> QED BY <1>1, <2>1, StopServerFacts
<1>3. CASE m_GameMode # "GM_HOST"
  <2>1. server' = server /\ outbox' = outbox /\ inbox' = inbox
    BY <1>3 DEF OnLeaveGame, channelVars
  <2> QED BY <1>1, <2>1
<1> QED BY <1>2, <1>3

(* A dialog is accepted: the machine starts anew.                           *)
LEMMA AcceptFacts ==
    ASSUME inbox \in Seq(Packets), outbox \in Seq(Letters), AcceptDialog
    PROVE  /\ inbox' \in Seq(Packets) /\ outbox' \in Seq(Letters)
           /\ \/ isOwnServer /\ server' = "gone" /\ outbox' = << >>
              \/ ~isOwnServer /\ server' = server /\ outbox' = outbox
           /\ m_CurrentState' = "WaitingForConnection"
           /\ m_EventQueue' = << "ConnectionRequest" >>
           /\ m_EventQueue' \in Seq(Events) /\ Range(m_EventQueue') = {"ConnectionRequest"}
           /\ isOwnServer' <=> m_GameMode' = "GM_HOST"
           /\ UNCHANGED << mMyPosition, m_PosName, table, unplaced >>
<1>1. StopServer
  BY DEF AcceptDialog
<1>2. "ConnectionRequest" \in Events
  BY DEF Events
<1>3. /\ m_CurrentState' = "WaitingForConnection" /\ m_EventQueue' = << "ConnectionRequest" >>
      /\ isOwnServer' <=> m_GameMode' = "GM_HOST"
      /\ UNCHANGED << mMyPosition, m_PosName, table, unplaced >>
  BY DEF AcceptDialog, seatVars, tableVars
<1> QED BY <1>1, <1>2, <1>3, StopServerFacts, OneEvent

(* What the machine writes to the server, and is left with.                 *)
LEMMA ConsumesFacts ==
    ASSUME outbox \in Seq(Letters), inbox \in Seq(Packets), Consumes
    PROVE  /\ UNCHANGED << mMyPosition, unseat, mPotentialAsset, askVisible, m_GameMode, m_PosName,
                           isOwnServer, table, unplaced, match >>
           /\ ~m_StopFlag /\ inbox' \in Seq(Packets)
           /\ \/ ToConnecting /\ m_CurrentState' = "Connecting" /\ server' \in {"asked", "gone"}
                 /\ outbox' = << >>
              \/ /\ ToIdle /\ m_CurrentState = "Connected" /\ m_CurrentState' = "Idle"
                 /\ Head(m_EventQueue) = "SendName" /\ m_StopFlag' = FALSE
                 /\ startVisible' = (m_GameMode = "GM_HOST") /\ updating' = TRUE
                 /\ server' = IF server = "accepted" THEN "named" ELSE server
                 /\ inbox' = inbox /\ outbox' = outbox
              \/ /\ ToDisconnected /\ m_CurrentState' = "Disconnected"
                 /\ m_CurrentState \in {"Idle", "LobbyFull"}
                 /\ server' = "gone" /\ outbox' = << >>
              \/ /\ SendRequest /\ m_CurrentState = "Idle" /\ m_CurrentState' = "Idle"
                 /\ Head(m_EventQueue) \in Requests
                 /\ outbox' = IF server \in {"named", "table"}
                              THEN Append(outbox, [type |-> Head(m_EventQueue),
                                     seat |-> IF Head(m_EventQueue) = "SendPlayerPosition"
                                              THEN m_PosName ELSE NoSeat])
                              ELSE outbox
                 /\ updating' = TRUE
                 /\ UNCHANGED << scene, startVisible, server, m_StopFlag, inbox >>
              \/ /\ DropEvent /\ updating' = TRUE
                 /\ UNCHANGED << scene, startVisible, server, m_StopFlag, inbox, outbox, m_CurrentState >>
                 /\ m_CurrentState = "Idle" => Head(m_EventQueue) \notin Requests
                 /\ m_CurrentState = "Connected" => Head(m_EventQueue) # "SendName"
<1>1. << >> \in Seq(Packets)
  OBVIOUS
<1>2. CASE ToConnecting
  BY <1>1, <1>2 DEF ToConnecting, Transition, Running, Silent, seatVars, playVars, tableVars
<1>3. CASE ToIdle
  BY <1>3 DEF ToIdle, Transition, Running, EmitStatus, OnConnectionStatusChanged, seatVars, playVars,
              tableVars, channelVars
<1>4. CASE ToDisconnected
  BY <1>1, <1>4 DEF ToDisconnected, Transition, Running, seatVars, playVars, tableVars
<1>5. CASE SendRequest
  BY <1>5 DEF SendRequest, Transition, Running, Silent, seatVars, playVars, tableVars
<1>6. CASE DropEvent
  <2>1. ~CanHandleEvent(Head(m_EventQueue))
    BY <1>6 DEF DropEvent
  <2>2. m_CurrentState = "Idle" => Head(m_EventQueue) \notin Requests
    BY <2>1 DEF CanHandleEvent
  <2>3. m_CurrentState = "Connected" => Head(m_EventQueue) # "SendName"
    BY <2>1 DEF CanHandleEvent
  <2> QED BY <1>6, <2>2, <2>3 DEF DropEvent, Running, windowVars, seatVars, playVars, socketVars,
                     tableVars, channelVars
<1> QED BY <1>2, <1>3, <1>4, <1>5, <1>6 DEF Consumes

(* The events that queue another one: Connected and LobbyFull.              *)
LEMMA QueuesFacts ==
    ASSUME ToConnected \/ ToLobbyFull
    PROVE  /\ UNCHANGED << mMyPosition, unseat, mPotentialAsset, askVisible, m_GameMode, m_PosName,
                           isOwnServer, table, unplaced, match, m_StopFlag, server, inbox, outbox >>
           /\ m_CurrentState = "Connecting" /\ m_CurrentState' \in {"Connected", "LobbyFull"}
           /\ updating' = TRUE
           /\ ToConnected => m_CurrentState' = "Connected"
BY DEF ToConnected, ToLobbyFull, Transition, Silent, EmitStatus, OnConnectionStatusChanged, seatVars,
       playVars, tableVars, channelVars

(* The window after a packet, as far as the questions and seats go.         *)
Reads(packet) ==
    /\ scene' = IF packet.type = "GameStarting" THEN "play" ELSE scene
    /\ mPotentialAsset' = IF packet.type = "PotentialAsset" THEN "live" ELSE mPotentialAsset
    /\ packet.type \notin Questions => askVisible' = askVisible
    /\ packet.type = "AskRevealedAsset" => askVisible' = TRUE
    /\ unseat' = IF packet.type = "CurrentPositionning" THEN packet.taken \cap {mMyPosition} ELSE unseat

(* An update of the machine, with what the window makes of the packet.      *)
LEMMA UpdateFacts ==
    ASSUME inbox \in Seq(Packets), UpdateState
    PROVE  /\ UNCHANGED << mMyPosition, startVisible, m_GameMode, m_CurrentState, m_StopFlag,
                           m_PosName, server, isOwnServer, table, unplaced, match, outbox >>
           /\ updating' = FALSE /\ inbox' \in Seq(Packets)
           /\ \/ UNCHANGED << scene, unseat, mPotentialAsset, askVisible, inbox >>
              \/ /\ inbox # << >> /\ inbox' = Tail(inbox)
                 /\ m_CurrentState = "Idle" => Reads(Head(inbox))
<1>1. /\ UNCHANGED << mMyPosition, startVisible, m_GameMode, m_CurrentState, m_StopFlag,
                      m_PosName, server, isOwnServer, table, unplaced, match, outbox >>
      /\ updating' = FALSE
  <2>1. UNCHANGED mMyPosition
    BY DEF UpdateState, HandleGameContextPacket, OnPositionningReceived, OnGameStarting, OnCardsDealt,
           OnPotentialAssetReceived, OnAskingRevealedAsset, seatVars
  <2> QED BY <2>1 DEF UpdateState, socketVars, tableVars
<1>2. CASE m_CurrentState \notin {"Connecting", "Idle"} \/ inbox = << >>
  BY <1>1, <1>2 DEF UpdateState, seatVars, playVars
<1>3. CASE m_CurrentState \in {"Connecting", "Idle"} /\ inbox # << >>
  <2>1. inbox' = Tail(inbox) /\ inbox' \in Seq(Packets)
    <3>1. inbox' = Tail(inbox)
      BY <1>3 DEF UpdateState
    <3> QED BY <1>3, <3>1, TailFacts
  <2>2. ASSUME NEW packet, HandleGameContextPacket(packet) PROVE Reads(packet)
    BY <2>2 DEF HandleGameContextPacket, OnPositionningReceived, OnGameStarting, OnCardsDealt,
                OnPotentialAssetReceived, OnAskingRevealedAsset, seatVars, playVars, Reads, Questions
  <2>3. m_CurrentState = "Idle" => HandleGameContextPacket(Head(inbox))
    BY <1>3 DEF UpdateState
  <2> QED BY <1>1, <1>3, <2>1, <2>2, <2>3
<1> QED BY <1>2, <1>3

(* The types are inductive, given where an unplaced client sits.            *)
LEMMA TypeNext == ASSUME TypeInv, unplaced => Mine(table) = {}, [Next]_vars PROVE TypeInv'
<1> USE DEF TypeInv
<1>1. CASE Covers \/ UNCHANGED vars
  BY <1>1, CoversFrame DEF coreVars
<1>2. CASE Consumes
  <2>1. /\ m_EventQueue' \in Seq(Events)
        /\ Range(m_EventQueue) = {Head(m_EventQueue)} \cup Range(m_EventQueue')
    BY <1>2, ConsumesQueue
  <2>2. /\ UNCHANGED << mMyPosition, m_PosName, table, unplaced >> /\ inbox' \in Seq(Packets)
        /\ \/ outbox' = << >> \/ outbox' = outbox
           \/ \E request \in Requests :
                 /\ request = Head(m_EventQueue)
                 /\ outbox' = Append(outbox, [type |-> request,
                        seat |-> IF request = "SendPlayerPosition" THEN m_PosName ELSE NoSeat])
    BY <1>2, ConsumesFacts
  <2>3. ASSUME NEW request \in Requests, request = Head(m_EventQueue)
        PROVE  [type |-> request,
                seat |-> IF request = "SendPlayerPosition" THEN m_PosName ELSE NoSeat] \in Letters
    <3>1. request = "SendPlayerPosition" => m_PosName \in Seats
      BY <2>1, <2>3
    <3> QED BY <3>1 DEF Letters
  <2>4. outbox' \in Seq(Letters)
    <3>1. << >> \in Seq(Letters)
      OBVIOUS
    <3>2. \A letter \in Letters : Append(outbox, letter) \in Seq(Letters)
      OBVIOUS
    <3> QED BY <2>2, <2>3, <3>1, <3>2
  <2> QED BY <2>1, <2>2, <2>4
<1>3. CASE ToConnected \/ ToLobbyFull
  <2>1. /\ m_EventQueue' \in Seq(Events)
        /\ "SendPlayerPosition" \in Range(m_EventQueue') => "SendPlayerPosition" \in Range(m_EventQueue)
    BY <1>3, QueuesNext
  <2> QED BY <1>3, <2>1, QueuesFacts
<1>4. CASE UpdateState
  <2>1. m_EventQueue' \in Seq(Events) /\ "SendPlayerPosition" \notin Range(m_EventQueue')
    BY <1>4, UpdatesQueue DEF Told
  <2> QED BY <1>4, <2>1, UpdateFacts
<1>5. CASE AcceptDialog
  BY <1>5, AcceptFacts
<1>6. CASE OnLeaveGame
  BY <1>6, LeaveFacts
<1>7. CASE Clicks
  BY <1>7, ClicksFacts
<1>8. CASE ServerStep
  <2>1. m_EventQueue' = m_EventQueue /\ mMyPosition' = mMyPosition /\ m_PosName' = m_PosName
    BY <1>8, TableStepFrame
  <2>2. /\ outbox' \in Seq(Letters) /\ table' \in Tables /\ unplaced' \in BOOLEAN
        /\ inbox' \in Seq(Packets)
    BY <1>8, ServerReadsFacts, ServerMovesFacts
  <2> QED BY <2>1, <2>2
<1> QED BY <1>1, <1>2, <1>3, <1>4, <1>5, <1>6, <1>7, <1>8, StepCases

----------------------------------------------------------------------------
(* The session and its host.                                                *)

(* A server that has no name of this client has no request of it; the name  *)
(* is sent at the end of the queue, in an update that is under way.         *)
SessionInv ==
    /\ server \notin {"named", "table"} => outbox = << >>
    /\ m_CurrentState \in {"Connecting", "Connected"} => server \notin {"named", "table"}
    /\ \A i \in DOMAIN m_EventQueue : m_EventQueue[i] = "SendName"
          => i = Len(m_EventQueue) /\ updating /\ m_CurrentState = "Connected"
    /\ m_CurrentState = "Idle" => ~m_StopFlag

HostInv ==
    /\ m_CurrentState # "None" => (isOwnServer <=> m_GameMode = "GM_HOST")
    /\ m_CurrentState = "Idle" /\ (startVisible \/ "StartGame" \in Range(m_EventQueue)) => isOwnServer
    /\ OnlyHostStarts

(* The name is the last event: the queue is empty when Idle is entered.     *)
LEMMA NameIsLast ==
    ASSUME TypeInv, SessionInv, ToIdle
    PROVE  m_EventQueue' = << >> /\ Range(m_EventQueue') = {}
<1>1. m_EventQueue # << >> /\ m_EventQueue' = Tail(m_EventQueue) /\ m_EventQueue' \in Seq(Events)
  BY ConsumesQueue DEF TypeInv, Consumes
<1>2. Head(m_EventQueue) = "SendName"
  BY DEF ToIdle, Transition
<1>3. /\ 1 \in DOMAIN m_EventQueue /\ m_EventQueue[1] = "SendName"
      /\ Len(m_EventQueue') = Len(m_EventQueue) - 1
  BY <1>1, <1>2, TailFacts DEF TypeInv
<1>4. Len(m_EventQueue) = 1
  BY <1>3 DEF SessionInv
<1>5. m_EventQueue' = << >>
  BY <1>1, <1>3, <1>4
<1> QED BY <1>5, EmptyChannel

LEMMA SessionInit == Init => SessionInv /\ HostInv
<1> SUFFICES ASSUME Init PROVE SessionInv /\ HostInv
  OBVIOUS
<1>1. DOMAIN << >> = {}
  OBVIOUS
<1> QED BY <1>1 DEF Init, SessionInv, HostInv, OnlyHostStarts

(* A new session begins with empty channels.                                *)
LEMMA SessionNext ==
    ASSUME TypeInv, unplaced => Mine(table) = {}, SessionInv, [Next]_vars
    PROVE  SessionInv'
<1>0. m_EventQueue \in Seq(Events) /\ inbox \in Seq(Packets) /\ outbox \in Seq(Letters)
  BY DEF TypeInv
<1>1. CASE Covers \/ UNCHANGED vars
  BY <1>1, CoversFrame DEF coreVars, SessionInv
<1>2. CASE Consumes
  <2>1. /\ m_EventQueue # << >> /\ m_EventQueue' = Tail(m_EventQueue) /\ m_EventQueue' \in Seq(Events)
        /\ Len(m_EventQueue) \in Nat /\ Len(m_EventQueue') = Len(m_EventQueue) - 1
        /\ 1 \in DOMAIN m_EventQueue /\ Head(m_EventQueue) = m_EventQueue[1]
        /\ \A i \in DOMAIN m_EventQueue' : /\ i \in Nat /\ i + 1 \in DOMAIN m_EventQueue
                                           /\ m_EventQueue'[i] = m_EventQueue[i + 1]
    BY <1>0, <1>2, ConsumesQueue, TailFacts
  <2>2. \A i \in DOMAIN m_EventQueue' : m_EventQueue'[i] = "SendName"
           => i = Len(m_EventQueue') /\ updating /\ m_CurrentState = "Connected"
    BY <2>1 DEF SessionInv
  <2>3. CASE ToIdle
    <3>1. DOMAIN m_EventQueue' = {}
      BY <2>3, NameIsLast
    <3>2. /\ server' = IF server = "accepted" THEN "named" ELSE server
          /\ server \notin {"named", "table"} /\ m_StopFlag' = FALSE /\ m_CurrentState' = "Idle"
          /\ outbox' = outbox
      BY <1>0, <2>3, ConsumesFacts DEF SessionInv, Consumes, ToIdle, Transition, channelVars, Running
    <3> QED BY <3>1, <3>2 DEF SessionInv
  <2>4. CASE ~ToIdle
    <3>1. m_CurrentState = "Connected" => DropEvent
      BY <1>2, <2>4 DEF Consumes, ToConnecting, ToDisconnected, SendRequest, Transition
    <3>2. DropEvent => updating' = TRUE /\ m_CurrentState' = m_CurrentState
      BY DEF DropEvent
    <3>3. \A i \in DOMAIN m_EventQueue' : m_EventQueue'[i] = "SendName"
             => i = Len(m_EventQueue') /\ updating' /\ m_CurrentState' = "Connected"
      BY <2>2, <3>1, <3>2
    <3>4. \/ m_CurrentState' = "Connecting" /\ server' \in {"asked", "gone"} /\ outbox' = << >>
          \/ m_CurrentState' = "Disconnected" /\ server' = "gone" /\ outbox' = << >>
          \/ /\ server' = server /\ m_CurrentState' = m_CurrentState /\ m_StopFlag' = m_StopFlag
             /\ server \in {"named", "table"} \/ outbox' = outbox
      BY <1>0, <1>2, <2>4, ConsumesFacts
    <3> QED BY <3>3, <3>4 DEF SessionInv
  <2> QED BY <2>3, <2>4
<1>3. CASE ToConnected \/ ToLobbyFull
  <2>1. PICK rest \in Seq(Events), next \in {"SendName", "DisconnectionRequest"} :
           /\ m_EventQueue # << >> /\ rest = Tail(m_EventQueue)
           /\ m_EventQueue' = Append(rest, next) /\ m_EventQueue' \in Seq(Events)
           /\ ToLobbyFull => next = "DisconnectionRequest"
    BY <1>0, <1>3, QueuesNext
  <2>2. m_CurrentState = "Connecting"
    BY <1>3, QueuesFacts
  <2>3. \A i \in DOMAIN rest : i + 1 \in DOMAIN m_EventQueue /\ rest[i] = m_EventQueue[i + 1]
    BY <1>0, <2>1, TailFacts
  <2>4. \A i \in DOMAIN rest : rest[i] # "SendName"
    BY <2>2, <2>3 DEF SessionInv
  <2>5. /\ DOMAIN m_EventQueue' = DOMAIN rest \cup {Len(rest) + 1}
        /\ m_EventQueue'[Len(rest) + 1] = next /\ Len(m_EventQueue') = Len(rest) + 1
        /\ \A i \in DOMAIN rest : m_EventQueue'[i] = rest[i]
    <3>1. Len(Append(rest, next)) = Len(rest) + 1
      OBVIOUS
    <3> QED BY <2>1, <3>1, AppendFacts
  <2>6. /\ updating' = TRUE /\ m_CurrentState' \in {"Connected", "LobbyFull"}
        /\ ToConnected => m_CurrentState' = "Connected"
        /\ UNCHANGED << server, outbox >>
    BY <1>3, QueuesFacts
  <2>7. \A i \in DOMAIN m_EventQueue' : m_EventQueue'[i] = "SendName"
           => i = Len(m_EventQueue') /\ updating' /\ m_CurrentState' = "Connected"
    BY <1>3, <2>1, <2>4, <2>5, <2>6
  <2> QED BY <2>2, <2>6, <2>7 DEF SessionInv
<1>4. CASE UpdateState
  <2>1. "SendName" \notin Range(m_EventQueue')
    BY <1>4, UpdatesQueue DEF Told
  <2>2. \A i \in DOMAIN m_EventQueue' : m_EventQueue'[i] # "SendName"
    BY <2>1 DEF Range
  <2> QED BY <1>0, <1>4, <2>2, UpdateFacts DEF SessionInv
<1>5. CASE AcceptDialog
  <2>1. Range(m_EventQueue') = {"ConnectionRequest"}
    BY <1>0, <1>5, AcceptFacts
  <2>2. \A i \in DOMAIN m_EventQueue' : m_EventQueue'[i] # "SendName"
    BY <2>1 DEF Range
  <2> QED BY <1>0, <1>5, <2>2, AcceptFacts DEF SessionInv
<1>6. CASE OnLeaveGame
  BY <1>0, <1>6, LeaveFacts DEF SessionInv
<1>7. CASE Clicks
  <2>1. PICK request \in Requests :
           /\ ~updating
           /\ m_StopFlag => m_EventQueue' = m_EventQueue
           /\ ~m_StopFlag => m_EventQueue' = Append(m_EventQueue, request)
           /\ UNCHANGED << m_CurrentState, m_StopFlag, server, outbox >>
    BY <1>0, <1>7, ClicksFacts
  <2>2. request # "SendName"
    BY DEF Requests
  <2>3. \A i \in DOMAIN m_EventQueue : m_EventQueue[i] # "SendName"
    BY <2>1 DEF SessionInv
  <2>4. \A i \in DOMAIN Append(m_EventQueue, request) : Append(m_EventQueue, request)[i] # "SendName"
    BY <1>0, <2>2, <2>3, AppendFacts
  <2>5. \A i \in DOMAIN m_EventQueue' : m_EventQueue'[i] # "SendName"
    BY <2>1, <2>3, <2>4
  <2> QED BY <2>1, <2>5 DEF SessionInv
<1>8. CASE ServerStep
  <2>1. /\ m_EventQueue' = m_EventQueue /\ m_CurrentState' = m_CurrentState
        /\ m_StopFlag' = m_StopFlag /\ updating' = updating
    BY <1>8, TableStepFrame
  <2>2. CASE ServerReads
    BY <2>1, <2>2, ServerReadsFacts DEF SessionInv
  <2>3. CASE ~ServerReads
    <3>1. \/ server = "asked" /\ server' \in {"accepted", "denied"} /\ outbox' = outbox
          \/ server' = "gone" /\ outbox' = << >>
          \/ server = "named" /\ server' = "table"
          \/ server = "table" /\ server' = "table"
      BY <1>8, <2>3, ServerMovesFacts
    <3> QED BY <2>1, <3>1 DEF SessionInv
  <2> QED BY <2>2, <2>3
<1> QED BY <1>1, <1>2, <1>3, <1>4, <1>5, <1>6, <1>7, <1>8, StepCases

(* No request to start among those that are on their way.                   *)
LEMMA NoStartTail ==
    ASSUME outbox \in Seq(Letters), outbox # << >>, OnlyHostStarts, isOwnServer' = isOwnServer,
           outbox' = Tail(outbox)
    PROVE  OnlyHostStarts'
<1>1. \A i \in DOMAIN outbox' : i + 1 \in DOMAIN outbox /\ outbox'[i] = outbox[i + 1]
  BY TailFacts
<1> QED BY <1>1 DEF OnlyHostStarts

LEMMA NoStartEmpty == ASSUME outbox' = << >> PROVE OnlyHostStarts'
<1>1. DOMAIN outbox' = {}
  OBVIOUS
<1> QED BY <1>1 DEF OnlyHostStarts

(* Only the host has the button, and its session sends the request.         *)
LEMMA HostNext ==
    ASSUME TypeInv, unplaced => Mine(table) = {}, SessionInv, HostInv, [Next]_vars
    PROVE  HostInv'
<1>0. m_EventQueue \in Seq(Events) /\ inbox \in Seq(Packets) /\ outbox \in Seq(Letters)
  BY DEF TypeInv
<1>1. CASE Covers \/ UNCHANGED vars
  BY <1>1, CoversFrame DEF coreVars, HostInv, OnlyHostStarts
<1>2. CASE Consumes
  <2>1. /\ Range(m_EventQueue) = {Head(m_EventQueue)} \cup Range(m_EventQueue')
    BY <1>0, <1>2, ConsumesQueue
  <2>2. isOwnServer' = isOwnServer /\ m_GameMode' = m_GameMode
    BY <1>0, <1>2, ConsumesFacts
  <2>3. CASE ToConnecting \/ ToDisconnected
    <3>1. outbox' = << >> /\ m_CurrentState' \in {"Connecting", "Disconnected"} /\ m_CurrentState # "None"
      BY <2>3 DEF ToConnecting, ToDisconnected, Transition
    <3> QED BY <2>2, <3>1, NoStartEmpty DEF HostInv
  <2>4. CASE ToIdle
    <3>1. /\ m_CurrentState = "Connected" /\ startVisible' = (m_GameMode = "GM_HOST")
          /\ outbox' = outbox
      BY <2>4 DEF ToIdle, Transition, EmitStatus, OnConnectionStatusChanged, channelVars
    <3>2. Range(m_EventQueue') = {}
      BY <2>4, NameIsLast
    <3>3. OnlyHostStarts'
      BY <2>2, <3>1 DEF HostInv, OnlyHostStarts
    <3> QED BY <2>2, <3>1, <3>2, <3>3 DEF HostInv
  <2>5. CASE SendRequest
    <3> DEFINE letter == [type |-> Head(m_EventQueue),
                          seat |-> IF Head(m_EventQueue) = "SendPlayerPosition" THEN m_PosName ELSE NoSeat]
    <3>1. /\ m_CurrentState = "Idle" /\ m_CurrentState' = "Idle" /\ startVisible' = startVisible
          /\ outbox' = outbox \/ outbox' = Append(outbox, letter)
      BY <2>5 DEF SendRequest, Transition, Silent
    <3>2. letter.type = "StartGame" => isOwnServer
      BY <2>1, <3>1 DEF HostInv
    <3> HIDE DEF letter
    <3>3. OnlyHostStarts'
      <4>1. CASE outbox' = outbox
        BY <2>2, <4>1 DEF HostInv, OnlyHostStarts
      <4>2. CASE outbox' = Append(outbox, letter)
        <5>1. /\ DOMAIN outbox' = DOMAIN outbox \cup {Len(outbox) + 1}
              /\ outbox'[Len(outbox) + 1] = letter
              /\ \A i \in DOMAIN outbox : outbox'[i] = outbox[i]
          BY <1>0, <4>2, AppendFacts
        <5> QED BY <2>2, <3>2, <5>1 DEF HostInv, OnlyHostStarts
      <4> QED BY <3>1, <4>1, <4>2
    <3> QED BY <2>1, <2>2, <3>1, <3>3 DEF HostInv
  <2>6. CASE DropEvent
    <3>1. /\ m_CurrentState' = m_CurrentState /\ startVisible' = startVisible /\ outbox' = outbox
      BY <2>6 DEF DropEvent, windowVars, channelVars
    <3> QED BY <2>1, <2>2, <3>1 DEF HostInv, OnlyHostStarts
  <2> QED BY <1>2, <2>3, <2>4, <2>5, <2>6 DEF Consumes
<1>3. CASE ToConnected \/ ToLobbyFull
  <2>1. /\ isOwnServer' = isOwnServer /\ m_GameMode' = m_GameMode /\ outbox' = outbox
        /\ m_CurrentState = "Connecting" /\ m_CurrentState' \in {"Connected", "LobbyFull"}
    BY <1>3, QueuesFacts
  <2> QED BY <2>1 DEF HostInv, OnlyHostStarts
<1>4. CASE UpdateState
  <2>1. "StartGame" \notin Range(m_EventQueue')
    BY <1>4, UpdatesQueue DEF Told
  <2> QED BY <1>0, <1>4, <2>1, UpdateFacts DEF HostInv, OnlyHostStarts
<1>5. CASE AcceptDialog
  <2>1. /\ m_CurrentState' = "WaitingForConnection"
        /\ isOwnServer' <=> m_GameMode' = "GM_HOST"
        /\ outbox' = << >> \/ (~isOwnServer /\ outbox' = outbox)
    BY <1>0, <1>5, AcceptFacts
  <2>2. OnlyHostStarts'
    <3>1. CASE outbox' = << >>
      BY <3>1, NoStartEmpty
    <3>2. CASE ~isOwnServer /\ outbox' = outbox
      BY <3>2 DEF HostInv, OnlyHostStarts
    <3> QED BY <2>1, <3>1, <3>2
  <2> QED BY <2>1, <2>2 DEF HostInv
<1>6. CASE OnLeaveGame
  <2>1. OnlyHostStarts'
    <3>1. isOwnServer' = isOwnServer /\ (outbox' = << >> \/ outbox' = outbox)
      BY <1>0, <1>6, LeaveFacts
    <3> QED BY <3>1, NoStartEmpty DEF HostInv, OnlyHostStarts
  <2> QED BY <1>0, <1>6, <2>1, LeaveFacts DEF HostInv
<1>7. CASE Clicks
  BY <1>0, <1>7, ClicksFacts DEF HostInv, OnlyHostStarts
<1>8. CASE ServerStep
  <2>1. /\ m_EventQueue' = m_EventQueue /\ m_CurrentState' = m_CurrentState
        /\ startVisible' = startVisible /\ m_GameMode' = m_GameMode /\ isOwnServer' = isOwnServer
    BY <1>8, TableStepFrame
  <2>2. OnlyHostStarts'
    <3>1. CASE ServerReads
      <4>1. outbox # << >> /\ outbox' = Tail(outbox)
        BY <3>1 DEF ServerReads
      <4> QED BY <1>0, <2>1, <4>1, NoStartTail DEF HostInv
    <3>2. CASE ~ServerReads
      <4>1. outbox' = outbox \/ outbox' = << >>
        BY <1>8, <3>2, ServerMovesFacts
      <4> QED BY <2>1, <4>1, NoStartEmpty DEF HostInv, OnlyHostStarts
    <3> QED BY <3>1, <3>2
  <2> QED BY <2>1, <2>2 DEF HostInv
<1> QED BY <1>1, <1>2, <1>3, <1>4, <1>5, <1>6, <1>7, <1>8, StepCases

----------------------------------------------------------------------------
(* The seats and the questions of a session at the table.                   *)

AtTable == m_CurrentState = "Idle" /\ server = "table"

(* A request of some types is on its way to the server.                     *)
Pending(types) == types \cap Range(m_EventQueue) # {} \/ ~None(outbox, types)

SamePending == \A types \in SUBSET Requests : Pending(types)' <=> Pending(types)

windowSide == << scene, mMyPosition, unseat, mPotentialAsset, askVisible >>

(* The steps of a session at the table, as the window and the server see    *)
(* them.                                                                    *)
RequestMoves == AtTable /\ UNCHANGED << windowSide, table, match, inbox >> /\ SamePending

PacketIsRead == /\ AtTable /\ UNCHANGED << mMyPosition, table, match >> /\ SamePending
                /\ inbox # << >> /\ inbox' = Tail(inbox) /\ Reads(Head(inbox))

PersonClicks ==
    /\ AtTable /\ UNCHANGED << scene, unseat, mPotentialAsset, table, match, inbox >>
    /\ \E request \in Requests :
          /\ \A types \in SUBSET Requests : Pending(types)' <=> Pending(types) \/ request \in types
          /\ mMyPosition' = mMyPosition \/ request = "SendPlayerPosition"
          /\ askVisible' = askVisible \/ request \in {"AcceptAsset", "RefuseAsset"}

RequestIsRead ==
    /\ AtTable /\ UNCHANGED windowSide /\ ServerReads
    /\ \A types \in SUBSET Requests : Pending(types) <=> Pending(types)' \/ Head(outbox).type \in types

OthersAct ==
    /\ AtTable /\ UNCHANGED windowSide /\ SamePending /\ outbox' = outbox
    /\ \/ /\ match = "none" /\ match' = "none" /\ Mine(table') \subseteq Mine(table)
          /\ Mine(table') # {} => NewsOfSeats
       \/ DealtFacts
       \/ Refused
       \/ match' = "play"

(* Whatever happens to a session at the table is one of these steps.        *)
LEMMA TableSteps ==
    ASSUME TypeInv, unplaced => Mine(table) = {}, SessionInv, [Next]_vars, AtTable'
    PROVE  \/ RequestMoves \/ PacketIsRead \/ PersonClicks \/ RequestIsRead \/ OthersAct
           \/ match' = "none" /\ Mine(table') = {}
<1>0. m_EventQueue \in Seq(Events) /\ inbox \in Seq(Packets) /\ outbox \in Seq(Letters)
  BY DEF TypeInv
<1>a. m_CurrentState' = "Idle" /\ server' = "table"
  BY DEF AtTable
<1>b. ASSUME m_EventQueue' = m_EventQueue, outbox' = outbox PROVE SamePending
  BY <1>b DEF SamePending, Pending
<1>1. CASE Covers \/ UNCHANGED vars
  <2>1. UNCHANGED coreVars
    BY <1>1, CoversFrame
  <2> QED BY <1>a, <1>b, <2>1 DEF coreVars, RequestMoves, windowSide, AtTable
<1>2. CASE Consumes
  <2>1. /\ m_EventQueue # << >>
        /\ Range(m_EventQueue) = {Head(m_EventQueue)} \cup Range(m_EventQueue')
    BY <1>0, <1>2, ConsumesQueue
  <2>2. \/ ToIdle /\ m_CurrentState = "Connected" /\ server = "table"
        \/ SendRequest
        \/ DropEvent
    BY <1>0, <1>2, <1>a, ConsumesFacts
  <2>3. ~(m_CurrentState = "Connected" /\ server = "table")
    BY DEF SessionInv
  <2>4. CASE SendRequest
    <3> DEFINE letter == [type |-> Head(m_EventQueue),
                          seat |-> IF Head(m_EventQueue) = "SendPlayerPosition" THEN m_PosName ELSE NoSeat]
    <3>1. /\ AtTable /\ UNCHANGED << windowSide, table, match, inbox >>
          /\ outbox' = Append(outbox, letter)
      BY <1>a, <2>4 DEF SendRequest, Transition, Silent, seatVars, playVars, tableVars, AtTable, windowSide
    <3>2. \A types : None(outbox', types) <=> None(outbox, types) /\ Head(m_EventQueue) \notin types
      <4>1. letter.type = Head(m_EventQueue)
        OBVIOUS
      <4> HIDE DEF letter
      <4> QED BY <1>0, <3>1, <4>1, AppendPacket
    <3>3. SamePending
      BY <2>1, <3>2 DEF SamePending, Pending
    <3> QED BY <3>1, <3>3 DEF RequestMoves
  <2>5. CASE DropEvent
    <3>1. /\ AtTable /\ UNCHANGED << windowSide, table, match, inbox, outbox >>
      BY <1>a, <2>5 DEF DropEvent, windowVars, seatVars, playVars, tableVars, channelVars, AtTable, windowSide
    <3>2. Head(m_EventQueue) \notin Requests
      <4>1. m_CurrentState = "Idle" /\ ~CanHandleEvent(Head(m_EventQueue))
        BY <2>5, <3>1 DEF AtTable, DropEvent
      <4> QED BY <4>1 DEF CanHandleEvent
    <3>3. SamePending
      BY <2>1, <3>1, <3>2 DEF SamePending, Pending
    <3> QED BY <3>1, <3>3 DEF RequestMoves
  <2> QED BY <2>2, <2>3, <2>4, <2>5
<1>3. CASE ToConnected \/ ToLobbyFull
  BY <1>3, <1>a, QueuesFacts
<1>4. CASE UpdateState
  <2>1. Range(m_EventQueue) = {} /\ Range(m_EventQueue') \subseteq Told
    BY <1>4, UpdatesQueue
  <2>2. outbox' = outbox /\ AtTable /\ UNCHANGED << mMyPosition, table, match >>
    BY <1>0, <1>4, <1>a, UpdateFacts DEF AtTable
  <2>3. SamePending
    <3>1. Told \cap Requests = {}
      BY DEF Told, Requests
    <3> QED BY <2>1, <2>2, <3>1 DEF SamePending, Pending
  <2>4. \/ UNCHANGED << scene, unseat, mPotentialAsset, askVisible, inbox >>
        \/ inbox # << >> /\ inbox' = Tail(inbox) /\ Reads(Head(inbox))
    BY <1>0, <1>4, <2>2, UpdateFacts DEF AtTable
  <2> QED BY <2>2, <2>3, <2>4 DEF RequestMoves, PacketIsRead, windowSide
<1>5. CASE AcceptDialog
  BY <1>0, <1>5, <1>a, AcceptFacts
<1>6. CASE OnLeaveGame
  <2>1. /\ UNCHANGED << windowSide, table, match, inbox >> /\ AtTable
        /\ m_EventQueue' = m_EventQueue /\ outbox' = outbox
    BY <1>0, <1>6, <1>a, LeaveFacts DEF AtTable, windowSide
  <2> QED BY <1>b, <2>1 DEF RequestMoves
<1>7. CASE Clicks
  <2>1. PICK request \in Requests :
           /\ ~m_StopFlag => Range(m_EventQueue') = Range(m_EventQueue) \cup {request}
           /\ UNCHANGED << scene, unseat, mPotentialAsset, m_CurrentState, m_StopFlag, server, table,
                           match, inbox, outbox >>
           /\ mMyPosition' = mMyPosition \/ request = "SendPlayerPosition"
           /\ askVisible' = askVisible \/ request \in {"AcceptAsset", "RefuseAsset"}
    BY <1>0, <1>7, ClicksFacts
  <2>2. AtTable /\ ~m_StopFlag
    BY <1>a, <2>1 DEF AtTable, SessionInv
  <2>3. \A types \in SUBSET Requests : Pending(types)' <=> Pending(types) \/ request \in types
    BY <2>1, <2>2 DEF Pending
  <2> QED BY <2>1, <2>2, <2>3 DEF PersonClicks
<1>8. CASE ServerStep
  <2>1. UNCHANGED windowSide /\ m_EventQueue' = m_EventQueue /\ m_CurrentState = "Idle"
    BY <1>8, <1>a, TableStepFrame DEF windowSide
  <2>2. CASE ServerReads
    <3>1. server = "table" /\ outbox # << >> /\ outbox' = Tail(outbox)
      BY <2>2 DEF ServerReads
    <3>2. \A types : None(outbox, types) <=> None(outbox', types) /\ Head(outbox).type \notin types
      BY <1>0, <3>1, TailPacket
    <3>3. \A types \in SUBSET Requests :
             Pending(types) <=> Pending(types)' \/ Head(outbox).type \in types
      BY <2>1, <3>2 DEF Pending
    <3> QED BY <2>1, <2>2, <3>1, <3>3 DEF RequestIsRead, AtTable
  <2>3. CASE ~ServerReads
    <3>1. \/ match' = "none" /\ Mine(table') = {}
          \/ /\ server = "table" /\ outbox' = outbox
             /\ \/ /\ match = "none" /\ match' = "none" /\ Mine(table') \subseteq Mine(table)
                   /\ Mine(table') # {} => NewsOfSeats
                \/ DealtFacts
                \/ Refused
                \/ match' = "play"
      BY <1>8, <1>a, <2>3, ServerMovesFacts
    <3>2. outbox' = outbox => SamePending
      BY <1>b, <2>1
    <3> QED BY <2>1, <3>1, <3>2 DEF OthersAct, AtTable
  <2> QED BY <2>2, <2>3
<1> QED BY <1>1, <1>2, <1>3, <1>4, <1>5, <1>6, <1>7, <1>8, StepCases

Seating == {"SendPlayerPosition"}
Positionning == {"CurrentPositionning"}
Answers == {"AcceptAsset", "RefuseAsset"}

(* What the table will tell of the seats is what the window will show, once *)
(* no choice of a seat is on its way; the choice the server will read last  *)
(* is the last one.                                                         *)
ChoiceInv ==
    m_CurrentState = "Idle" /\ "SendPlayerPosition" \notin Range(m_EventQueue)
      => \A letter \in Newest(outbox, Seating) : letter.seat = mMyPosition

SeatsAreTold ==
    Mine(table) # {} =>
       /\ Mine(table) = {mMyPosition}
       /\ \A packet \in Newest(inbox, Positionning) : packet.taken = Occupied(table)
       /\ None(inbox, Positionning) => unseat = Mine(table)

SeatInv ==
    /\ unplaced => Mine(table) = {}
    /\ ChoiceInv
    /\ AtTable /\ match = "none" /\ ~Pending(Seating) => SeatsAreTold

(* The card and the scene of a match precede the question in what is read.  *)
QuestionInv ==
    AtTable =>
    /\ match \in Proposals /\ Mine(table) # {}
         => /\ scene = "play" \/ ~None(inbox, {"GameStarting"})
            /\ mPotentialAsset = "live" \/ ~None(inbox, {"PotentialAsset"})
    /\ match = "mine"
         => /\ Mine(table) # {}
            /\ \/ Pending(Answers)
               \/ /\ \A packet \in Newest(inbox, Questions) : packet.type = "AskRevealedAsset"
                  /\ None(inbox, Questions) => askVisible

(* The last choice of a seat on its way is the one the window remembers.    *)
LEMMA ChoiceNext ==
    ASSUME TypeInv, SessionInv, SeatInv, [Next]_vars
    PROVE  ChoiceInv'
<1> SUFFICES ASSUME m_CurrentState' = "Idle", "SendPlayerPosition" \notin Range(m_EventQueue')
             PROVE  \A letter \in Newest(outbox', Seating) : letter.seat = mMyPosition'
  BY DEF ChoiceInv
<1>0. /\ m_EventQueue \in Seq(Events) /\ inbox \in Seq(Packets) /\ outbox \in Seq(Letters)
      /\ mMyPosition = m_PosName /\ (unplaced => Mine(table) = {}) /\ ChoiceInv
  BY DEF TypeInv, SeatInv
<1>a. Newest(<< >>, Seating) = {}
  BY EmptyChannel
<1>b. CASE outbox' = << >>
  BY <1>a, <1>b
<1>c. ASSUME m_CurrentState = "Idle", "SendPlayerPosition" \notin Range(m_EventQueue),
             outbox' = outbox, mMyPosition' = mMyPosition
      PROVE  \A letter \in Newest(outbox', Seating) : letter.seat = mMyPosition'
  BY <1>0, <1>c DEF ChoiceInv
<1>1. CASE Covers \/ UNCHANGED vars
  <2>1. UNCHANGED coreVars
    BY <1>1, CoversFrame
  <2> QED BY <1>c, <2>1 DEF coreVars
<1>2. CASE Consumes
  <2>1. /\ m_EventQueue # << >>
        /\ Range(m_EventQueue) = {Head(m_EventQueue)} \cup Range(m_EventQueue')
    BY <1>0, <1>2, ConsumesQueue
  <2>2. \/ outbox' = << >>
        \/ ToIdle /\ m_CurrentState = "Connected" /\ outbox' = outbox
        \/ SendRequest
        \/ DropEvent
    BY <1>0, <1>2, ConsumesFacts
  <2>3. CASE ToIdle /\ m_CurrentState = "Connected" /\ outbox' = outbox
    BY <1>b, <2>3 DEF SessionInv
  <2>4. CASE SendRequest
    <3> DEFINE letter == [type |-> Head(m_EventQueue),
                          seat |-> IF Head(m_EventQueue) = "SendPlayerPosition" THEN m_PosName ELSE NoSeat]
    <3>1. /\ m_CurrentState = "Idle" /\ mMyPosition' = mMyPosition
          /\ outbox' = outbox \/ outbox' = Append(outbox, letter)
          /\ server \notin {"named", "table"} => outbox' = outbox
      BY <2>4 DEF SendRequest, Transition, seatVars
    <3>2. Newest(Append(outbox, letter), Seating)
             = IF letter.type \in Seating THEN {letter} ELSE Newest(outbox, Seating)
      <4> HIDE DEF letter
      <4> QED BY <1>0, AppendPacket
    <3>3. letter.type = Head(m_EventQueue)
          /\ (Head(m_EventQueue) = "SendPlayerPosition" => letter.seat = m_PosName)
      OBVIOUS
    <3> HIDE DEF letter
    <3>4. CASE Head(m_EventQueue) = "SendPlayerPosition"
      <4>1. CASE server \notin {"named", "table"}
        BY <1>b, <3>1, <4>1 DEF SessionInv
      <4>2. CASE server \in {"named", "table"}
        <5>1. outbox' = Append(outbox, letter)
          BY <2>4, <4>2 DEF SendRequest, letter, Transition
        <5> QED BY <1>0, <3>1, <3>2, <3>3, <3>4, <5>1 DEF Seating
      <4> QED BY <4>1, <4>2
    <3>5. CASE Head(m_EventQueue) # "SendPlayerPosition"
      <4>1. "SendPlayerPosition" \notin Range(m_EventQueue)
        BY <2>1, <3>5
      <4>2. Newest(outbox', Seating) = Newest(outbox, Seating)
        BY <3>1, <3>2, <3>3, <3>5 DEF Seating
      <4> QED BY <1>0, <3>1, <4>1, <4>2 DEF ChoiceInv
    <3> QED BY <3>4, <3>5
  <2>5. CASE DropEvent
    <3>1. /\ m_CurrentState = "Idle" /\ mMyPosition' = mMyPosition /\ outbox' = outbox
          /\ ~CanHandleEvent(Head(m_EventQueue))
      BY <2>5 DEF DropEvent, windowVars, seatVars, channelVars
    <3>2. Head(m_EventQueue) # "SendPlayerPosition"
      BY <3>1 DEF CanHandleEvent, Requests
    <3> QED BY <1>c, <2>1, <3>1, <3>2
  <2> QED BY <1>b, <2>2, <2>3, <2>4, <2>5
<1>3. CASE ToConnected \/ ToLobbyFull
  BY <1>3, QueuesFacts
<1>4. CASE UpdateState
  <2>1. Range(m_EventQueue) = {}
    BY <1>4, UpdatesQueue
  <2>2. m_CurrentState = "Idle" /\ outbox' = outbox /\ mMyPosition' = mMyPosition
    BY <1>0, <1>4, UpdateFacts
  <2> QED BY <1>c, <2>1, <2>2
<1>5. CASE AcceptDialog
  BY <1>0, <1>5, AcceptFacts
<1>6. CASE OnLeaveGame
  <2>1. /\ outbox' = << >> \/ outbox' = outbox
        /\ UNCHANGED << mMyPosition, m_CurrentState, m_EventQueue >>
    BY <1>0, <1>6, LeaveFacts
  <2> QED BY <1>b, <1>c, <2>1
<1>7. CASE Clicks
  <2>1. PICK request \in Requests :
           /\ ~m_StopFlag => Range(m_EventQueue') = Range(m_EventQueue) \cup {request}
           /\ UNCHANGED << m_CurrentState, outbox >>
           /\ request = "SendPlayerPosition" \/ mMyPosition' = mMyPosition
    BY <1>0, <1>7, ClicksFacts
  <2>2. ~m_StopFlag
    BY <2>1 DEF SessionInv
  <2> QED BY <1>c, <2>1, <2>2
<1>8. CASE ServerStep
  <2>1. UNCHANGED << mMyPosition, m_CurrentState, m_EventQueue >>
    BY <1>8, TableStepFrame
  <2>2. CASE ServerReads
    <3>1. outbox # << >> /\ outbox' = Tail(outbox)
      BY <2>2 DEF ServerReads
    <3>2. Newest(outbox', Seating) \subseteq Newest(outbox, Seating)
      BY <1>0, <3>1, TailPacket
    <3> QED BY <1>0, <2>1, <3>2 DEF ChoiceInv
  <2>3. CASE ~ServerReads
    <3>1. outbox' = outbox \/ outbox' = << >>
      BY <1>0, <1>8, <2>3, ServerMovesFacts
    <3> QED BY <1>b, <1>c, <2>1, <3>1
  <2> QED BY <2>2, <2>3
<1> QED BY <1>1, <1>2, <1>3, <1>4, <1>5, <1>6, <1>7, <1>8, StepCases

(* The window reads the positioning that was sent last.                     *)
LEMMA PositionIsRead ==
    ASSUME inbox \in Seq(Packets), inbox # << >>, inbox' = Tail(inbox), Reads(Head(inbox)),
           UNCHANGED << mMyPosition, table >>, SeatsAreTold
    PROVE  SeatsAreTold'
<1> SUFFICES ASSUME Mine(table)' # {} PROVE SeatsAreTold'
  BY DEF SeatsAreTold
<1>1. /\ Mine(table) # {} /\ Mine(table)' = Mine(table) /\ Occupied(table)' = Occupied(table)
      /\ Mine(table) = {mMyPosition}
      /\ \A packet \in Newest(inbox, Positionning) : packet.taken = Occupied(table)
      /\ None(inbox, Positionning) => unseat = Mine(table)
  BY DEF SeatsAreTold, Mine, Occupied
<1>2. /\ Newest(inbox', Positionning) \subseteq Newest(inbox, Positionning)
      /\ None(inbox, Positionning) <=> None(inbox', Positionning) /\ Head(inbox).type \notin Positionning
      /\ None(inbox', Positionning) /\ Head(inbox).type \in Positionning
           => Head(inbox) \in Newest(inbox, Positionning)
  BY TailPacket
<1>3. None(inbox', Positionning) => unseat' = Mine(table)
  <2>1. CASE Head(inbox).type = "CurrentPositionning" /\ None(inbox', Positionning)
    <3>1. Head(inbox).taken = Occupied(table)
      BY <1>1, <1>2, <2>1 DEF Positionning
    <3>2. unseat' = Head(inbox).taken \cap {mMyPosition}
      BY <2>1 DEF Reads
    <3>3. mMyPosition \in Occupied(table)
      BY <1>1 DEF Mine, Occupied, Me
    <3> QED BY <1>1, <3>1, <3>2, <3>3
  <2>2. CASE Head(inbox).type # "CurrentPositionning" /\ None(inbox', Positionning)
    <3>1. unseat' = unseat
      BY <2>2 DEF Reads
    <3> QED BY <1>1, <1>2, <2>2, <3>1 DEF Positionning
  <2> QED BY <2>1, <2>2
<1> QED BY <1>1, <1>2, <1>3 DEF SeatsAreTold

(* Seats change with the news of it, sent to everybody.                     *)
LEMMA SeatsNext ==
    ASSUME TypeInv, SessionInv, SeatInv, [Next]_vars,
           AtTable', match' = "none", ~Pending(Seating)'
    PROVE  SeatsAreTold'
<1>0. /\ inbox \in Seq(Packets) /\ outbox \in Seq(Letters)
      /\ (unplaced => Mine(table) = {}) /\ ChoiceInv
      /\ AtTable /\ match = "none" /\ ~Pending(Seating) => SeatsAreTold
      /\ Seating \in SUBSET Requests
  BY DEF TypeInv, SeatInv, Seating, Requests
<1>a. ASSUME Mine(table)' = {} PROVE SeatsAreTold'
  BY <1>a DEF SeatsAreTold
<1>b. Mine(table') = Mine(table)' /\ Occupied(table') = Occupied(table)'
  BY DEF Mine, Occupied
<1>1. CASE RequestMoves
  <2>1. SeatsAreTold
    BY <1>0, <1>1 DEF RequestMoves, SamePending
  <2> QED BY <1>1, <2>1 DEF RequestMoves, windowSide, SeatsAreTold, Mine, Occupied
<1>2. CASE PacketIsRead
  <2>1. SeatsAreTold
    BY <1>0, <1>2 DEF PacketIsRead, SamePending
  <2> QED BY <1>0, <1>2, <2>1, PositionIsRead DEF PacketIsRead
<1>3. CASE PersonClicks
  <2>1. PICK request \in Requests :
           /\ Pending(Seating)' <=> Pending(Seating) \/ request \in Seating
           /\ mMyPosition' = mMyPosition \/ request = "SendPlayerPosition"
    BY <1>0, <1>3 DEF PersonClicks
  <2>2. mMyPosition' = mMyPosition /\ ~Pending(Seating)
    BY <2>1 DEF Seating
  <2>3. SeatsAreTold
    BY <1>0, <1>3, <2>2 DEF PersonClicks
  <2> QED BY <1>3, <2>2, <2>3 DEF PersonClicks, SeatsAreTold, Mine, Occupied
<1>4. CASE RequestIsRead
  <2>1. /\ AtTable /\ UNCHANGED << mMyPosition, unseat >>
        /\ Pending(Seating) <=> Pending(Seating)' \/ Head(outbox).type \in Seating
    BY <1>0, <1>4 DEF RequestIsRead, windowSide
  <2>2. /\ outbox # << >> /\ outbox' = Tail(outbox)
        /\ \/ /\ Head(outbox).type = "SendPlayerPosition" /\ SeatedFacts(Head(outbox).seat)
           \/ Mine(table') = {}
           \/ /\ Head(outbox).type = "StartGame"
              /\ table' = table /\ match' = match /\ inbox' = inbox
    BY <1>0, <1>4, ServerReadsFacts, RefusedFacts DEF RequestIsRead, DealtFacts, Proposals
  <2>3. CASE Head(outbox).type = "SendPlayerPosition" /\ SeatedFacts(Head(outbox).seat)
    <3>1. /\ None(outbox', Seating) /\ "SendPlayerPosition" \notin Range(m_EventQueue')
      BY DEF Pending, Seating
    <3>2. Head(outbox) \in Newest(outbox, Seating)
      BY <1>0, <2>2, <2>3, <3>1, TailPacket DEF Seating
    <3>3. m_EventQueue' = m_EventQueue /\ m_CurrentState = "Idle"
      BY <1>4, <2>1, TableStepFrame DEF RequestIsRead, ServerStep, AtTable
    <3>4. Head(outbox).seat = mMyPosition
      BY <1>0, <3>1, <3>2, <3>3 DEF ChoiceInv
    <3>5. Packet("CurrentPositionning", Occupied(table')).taken = Occupied(table')
      BY PacketFacts
    <3>6. Mine(table') # {} => /\ Mine(table') = {mMyPosition}
                               /\ ~None(inbox', Positionning)
                               /\ \A packet \in Newest(inbox', Positionning) : packet.taken = Occupied(table')
      BY <2>3, <3>4, <3>5 DEF SeatedFacts, Positionning
    <3> QED BY <1>b, <2>1, <3>6 DEF SeatsAreTold
  <2>4. CASE Mine(table') = {}
    BY <1>a, <1>b, <2>4
  <2>5. CASE Head(outbox).type = "StartGame" /\ table' = table /\ match' = match /\ inbox' = inbox
    <3>1. SeatsAreTold
      BY <1>0, <2>1, <2>5 DEF Seating
    <3> QED BY <2>1, <2>5, <3>1 DEF SeatsAreTold, Mine, Occupied
  <2> QED BY <2>2, <2>3, <2>4, <2>5
<1>5. CASE OthersAct
  <2>1. /\ AtTable /\ UNCHANGED << mMyPosition, unseat >> /\ ~Pending(Seating)
    BY <1>0, <1>5 DEF OthersAct, windowSide, SamePending
  <2>2. /\ match = "none" /\ Mine(table') \subseteq Mine(table)
        /\ Mine(table') # {} => NewsOfSeats
    BY <1>0, <1>5, RefusedFacts DEF OthersAct, DealtFacts, Proposals
  <2>3. SeatsAreTold
    BY <1>0, <2>1, <2>2
  <2>4. CASE Mine(table') # {}
    <3>1. Mine(table') = {mMyPosition}
      BY <2>2, <2>3, <2>4 DEF SeatsAreTold
    <3>2. Packet("CurrentPositionning", Occupied(table')).taken = Occupied(table')
      BY PacketFacts
    <3>3. /\ ~None(inbox', Positionning)
          /\ \A packet \in Newest(inbox', Positionning) : packet.taken = Occupied(table')
      BY <2>2, <2>4, <3>2 DEF NewsOfSeats, Positionning
    <3> QED BY <1>b, <2>1, <3>1, <3>3 DEF SeatsAreTold
  <2> QED BY <1>a, <1>b, <2>4
<1>6. CASE match' = "none" /\ Mine(table') = {}
  BY <1>a, <1>b, <1>6
<1> QED BY <1>0, <1>1, <1>2, <1>3, <1>4, <1>5, <1>6, TableSteps

LEMMA UnplacedNext ==
    ASSUME TypeInv, unplaced => Mine(table) = {}, [Next]_vars
    PROVE  unplaced' => Mine(table)' = {}
<1>1. CASE ServerStep
  <2>1. unplaced' => Mine(table') = {}
    BY <1>1, ServerReadsFacts, ServerMovesFacts
  <2> QED BY <2>1 DEF Mine
<1>2. CASE ~ServerStep
  <2>1. table' = table /\ unplaced' = unplaced
    BY <1>2, StepCases, CoversFrame, ConsumesFacts, QueuesFacts, UpdateFacts, AcceptFacts, LeaveFacts,
       ClicksFacts DEF TypeInv, coreVars
  <2> QED BY <2>1 DEF Mine
<1> QED BY <1>1, <1>2

LEMMA SeatNext ==
    ASSUME TypeInv, SessionInv, SeatInv, [Next]_vars
    PROVE  SeatInv'
<1>1. unplaced' => Mine(table)' = {}
  BY UnplacedNext DEF SeatInv
<1>2. ChoiceInv'
  BY ChoiceNext
<1>3. AtTable' /\ match' = "none" /\ ~Pending(Seating)' => SeatsAreTold'
  BY SeatsNext
<1> QED BY <1>1, <1>2, <1>3 DEF SeatInv

(* A question that is read, or what comes before it.                        *)
LEMMA QuestionIsRead ==
    ASSUME inbox \in Seq(Packets), PacketIsRead, QuestionInv, AtTable'
    PROVE  QuestionInv'
<1>0. /\ AtTable /\ UNCHANGED << mMyPosition, table, match >> /\ SamePending
      /\ inbox # << >> /\ inbox' = Tail(inbox) /\ Reads(Head(inbox))
  BY DEF PacketIsRead
<1>1. \A types : /\ Newest(inbox', types) \subseteq Newest(inbox, types)
                 /\ None(inbox, types) <=> None(inbox', types) /\ Head(inbox).type \notin types
                 /\ None(inbox', types) /\ Head(inbox).type \in types
                      => Head(inbox) \in Newest(inbox, types)
  BY <1>0, TailPacket
<1>2. Mine(table)' = Mine(table)
  BY <1>0 DEF Mine
<1>3. ASSUME match \in Proposals, Mine(table) # {}
      PROVE  /\ scene' = "play" \/ ~None(inbox', {"GameStarting"})
             /\ mPotentialAsset' = "live" \/ ~None(inbox', {"PotentialAsset"})
  <2>1. /\ scene = "play" \/ ~None(inbox, {"GameStarting"})
        /\ mPotentialAsset = "live" \/ ~None(inbox, {"PotentialAsset"})
    BY <1>0, <1>3 DEF QuestionInv
  <2>2. CASE Head(inbox).type = "GameStarting"
    BY <1>0, <1>1, <2>1, <2>2 DEF Reads
  <2>3. CASE Head(inbox).type = "PotentialAsset"
    BY <1>0, <1>1, <2>1, <2>3 DEF Reads
  <2>4. CASE Head(inbox).type \notin {"GameStarting", "PotentialAsset"}
    BY <1>0, <1>1, <2>1, <2>4 DEF Reads
  <2> QED BY <2>2, <2>3, <2>4
<1>4. ASSUME match = "mine"
      PROVE  /\ Mine(table) # {}
             /\ \/ Pending(Answers)'
                \/ /\ \A packet \in Newest(inbox', Questions) : packet.type = "AskRevealedAsset"
                   /\ None(inbox', Questions) => askVisible'
  <2>1. /\ Mine(table) # {}
        /\ \/ Pending(Answers)
           \/ /\ \A packet \in Newest(inbox, Questions) : packet.type = "AskRevealedAsset"
              /\ None(inbox, Questions) => askVisible
    BY <1>0, <1>4 DEF QuestionInv
  <2>2. Answers \in SUBSET Requests
    BY DEF Answers, Requests
  <2>3. CASE Pending(Answers)
    BY <1>0, <2>1, <2>2, <2>3 DEF SamePending
  <2>4. CASE /\ \A packet \in Newest(inbox, Questions) : packet.type = "AskRevealedAsset"
             /\ None(inbox, Questions) => askVisible
    <3>1. \A packet \in Newest(inbox', Questions) : packet.type = "AskRevealedAsset"
      BY <1>1, <2>4
    <3>2. ASSUME None(inbox', Questions) PROVE askVisible'
      <4>1. CASE Head(inbox).type \in Questions
        <5>1. Head(inbox).type = "AskRevealedAsset"
          BY <1>1, <2>4, <3>2, <4>1
        <5> QED BY <1>0, <5>1 DEF Reads
      <4>2. CASE Head(inbox).type \notin Questions
        <5>1. None(inbox, Questions)
          BY <1>1, <3>2, <4>2
        <5>2. askVisible' = askVisible
          BY <1>0, <4>2 DEF Reads
        <5> QED BY <2>4, <5>1, <5>2
      <4> QED BY <4>1, <4>2
    <3> QED BY <2>1, <3>1, <3>2
  <2> QED BY <2>1, <2>3, <2>4
<1> QED BY <1>0, <1>2, <1>3, <1>4 DEF QuestionInv

(* A question that is asked.                                                *)
LEMMA QuestionIsAsked ==
    ASSUME inbox \in Seq(Packets), AtTable, QuestionInv, UNCHANGED windowSide, DealtFacts \/ Refused
    PROVE  QuestionInv'
<1>1. CASE DealtFacts
  <2>1. Mine(table)' = Mine(table)
    BY <1>1 DEF DealtFacts, Mine
  <2> QED BY <1>1, <2>1 DEF DealtFacts, MineIsAsked, QuestionInv
<1>2. CASE Refused
  <2>1. /\ Mine(table)' = Mine(table) /\ match \in Proposals /\ NoneLost
        /\ match' = "mine" => MineIsAsked
    BY <1>2, RefusedFacts DEF Mine
  <2>2. Mine(table) # {} => /\ scene' = "play" \/ ~None(inbox', {"GameStarting"})
                            /\ mPotentialAsset' = "live" \/ ~None(inbox', {"PotentialAsset"})
    BY <2>1 DEF QuestionInv, windowSide, NoneLost
  <2> QED BY <2>1, <2>2 DEF QuestionInv, MineIsAsked
<1> QED BY <1>1, <1>2

(* The question is asked after its card, and answered once.                 *)
LEMMA QuestionNext ==
    ASSUME TypeInv, SessionInv, unplaced => Mine(table) = {}, QuestionInv, [Next]_vars
    PROVE  QuestionInv'
<1> SUFFICES ASSUME AtTable' PROVE QuestionInv'
  BY DEF QuestionInv
<1>0. inbox \in Seq(Packets) /\ outbox \in Seq(Letters) /\ Answers \in SUBSET Requests
  BY DEF TypeInv, Answers, Requests
<1>1. CASE RequestMoves
  <2>1. Pending(Answers)' <=> Pending(Answers)
    BY <1>0, <1>1 DEF RequestMoves, SamePending
  <2> QED BY <1>1, <2>1 DEF RequestMoves, QuestionInv, windowSide, Mine
<1>2. CASE PacketIsRead
  BY <1>0, <1>2, QuestionIsRead
<1>3. CASE PersonClicks
  <2>1. PICK request \in Requests :
           /\ Pending(Answers)' <=> Pending(Answers) \/ request \in Answers
           /\ askVisible' = askVisible \/ request \in {"AcceptAsset", "RefuseAsset"}
    BY <1>0, <1>3 DEF PersonClicks
  <2> QED BY <1>3, <2>1 DEF PersonClicks, QuestionInv, Mine, Answers
<1>4. CASE RequestIsRead
  <2>1. /\ AtTable /\ UNCHANGED windowSide
        /\ Pending(Answers) <=> Pending(Answers)' \/ Head(outbox).type \in Answers
    BY <1>0, <1>4 DEF RequestIsRead
  <2>2. \/ match' = "none"
        \/ /\ Head(outbox).type = "StartGame"
           /\ table' = table /\ match' = match /\ inbox' = inbox
        \/ DealtFacts \/ Refused
        \/ match' \in {"play", "broken"}
    BY <1>4, ServerReadsFacts DEF RequestIsRead
  <2>3. CASE match' \in {"none", "play", "broken"}
    BY <2>3 DEF QuestionInv, Proposals
  <2>4. CASE /\ Head(outbox).type = "StartGame"
             /\ table' = table /\ match' = match /\ inbox' = inbox
    <3>1. Pending(Answers)' <=> Pending(Answers)
      BY <2>1, <2>4 DEF Answers
    <3> QED BY <2>1, <2>4, <3>1 DEF QuestionInv, windowSide, Mine
  <2>5. CASE DealtFacts \/ Refused
    BY <1>0, <2>1, <2>5, QuestionIsAsked
  <2> QED BY <2>2, <2>3, <2>4, <2>5
<1>5. CASE OthersAct
  <2>1. CASE match' \in {"none", "play"}
    BY <2>1 DEF QuestionInv, Proposals
  <2>2. CASE DealtFacts \/ Refused
    BY <1>0, <1>5, <2>2, QuestionIsAsked DEF OthersAct
  <2> QED BY <1>5, <2>1, <2>2 DEF OthersAct
<1>6. CASE match' = "none"
  BY <1>6 DEF QuestionInv, Proposals
<1> QED BY <1>1, <1>2, <1>3, <1>4, <1>5, <1>6, TableSteps

(* The inductive invariant of the window.                                   *)
WindowInv == TypeInv /\ SessionInv /\ HostInv /\ SeatInv /\ QuestionInv

LEMMA WindowInit == Init => WindowInv
<1> SUFFICES ASSUME Init PROVE WindowInv
  OBVIOUS
<1>1. SeatInv /\ QuestionInv
  BY DEF Init, SeatInv, ChoiceInv, AtTable, QuestionInv
<1> QED BY <1>1, TypeInit, SessionInit DEF WindowInv

(* The parts of the invariant together are inductive.                       *)
LEMMA WindowNext == WindowInv /\ [Next]_vars => WindowInv'
<1> SUFFICES ASSUME WindowInv, [Next]_vars PROVE WindowInv'
  OBVIOUS
<1>1. TypeInv /\ SessionInv /\ HostInv /\ SeatInv /\ QuestionInv /\ (unplaced => Mine(table) = {})
  BY DEF WindowInv, SeatInv
<1> QED BY <1>1, TypeNext, SessionNext, HostNext, SeatNext, QuestionNext DEF WindowInv

(* The invariant of the window, its connection and the table it is told of: *)
(* MainWindow shows the outcome of the packets of BeloteContext it has read, *)
(* and the rest is in the channels.                                         *)
THEOREM WindowInvAlways == Spec => []WindowInv
BY WindowInit, WindowNext, PTL DEF Spec

(* A request to start a match comes from the program that runs the server:  *)
(* the start button of the window is shown to a host only, and a session    *)
(* that is left takes its requests with it.                                 *)
THEOREM OnlyHostStartsAlways == Spec => []OnlyHostStarts
<1>1. WindowInv => OnlyHostStarts
  BY DEF WindowInv, HostInv
<1> QED BY <1>1, WindowInvAlways, PTL

(* Before a match, when all that was sent is read, the button that leaves a *)
(* seat is enabled for the very seat the server has this person on: the     *)
(* positioning MainWindow reads last is of the table as it is.              *)
THEOREM SeatedCanLeaveAlways == Spec => []SeatedCanLeave
<1>1. WindowInv => SeatedCanLeave
  <2> SUFFICES ASSUME WindowInv, Quiet, match = "none", Mine(table) # {} PROVE unseat = Mine(table)
    BY DEF SeatedCanLeave
  <2>1. Range(m_EventQueue) = {} /\ None(outbox, Seating) /\ None(inbox, Positionning)
    BY EmptyChannel DEF Quiet
  <2>2. AtTable /\ ~Pending(Seating)
    BY <2>1 DEF Quiet, AtTable, Pending
  <2> QED BY <2>1, <2>2 DEF WindowInv, SeatInv, SeatsAreTold
<1> QED BY <1>1, WindowInvAlways, PTL

(* When all that was sent is read and the server waits for this person's    *)
(* answer to the card it proposes in the first phase (AskRevealedAsset),    *)
(* MainWindow shows the card and the question.  Of the question of the      *)
(* second phase (AskAnotherAsset) nothing is shown, and nothing is stated.  *)
THEOREM QuestionIsShownAlways == Spec => []QuestionIsShown
<1>1. WindowInv => QuestionIsShown
  <2> SUFFICES ASSUME WindowInv, Quiet, match = "mine"
               PROVE  askVisible /\ mPotentialAsset = "live" /\ scene = "play"
    BY DEF QuestionIsShown
  <2>1. /\ Range(m_EventQueue) = {} /\ None(outbox, Answers)
        /\ \A types : None(inbox, types)
    BY EmptyChannel DEF Quiet
  <2>2. AtTable /\ ~Pending(Answers)
    BY <2>1 DEF Quiet, AtTable, Pending
  <2> QED BY <2>1, <2>2 DEF WindowInv, QuestionInv, Proposals
<1> QED BY <1>1, WindowInvAlways, PTL

----------------------------------------------------------------------------
(* The program with two screens.                                            *)

ScreenEvents == {"ConnectionRequest", "Connected", "LobbyFull", "SendName", "DisconnectionRequest",
                 "CantConnect"}
ScreenPackets == {"ConnectionAccepted", "ConnectionDeniedLobbyFull", "GameContextPacket",
                  "ServerShuttingDown"}
Statuses == {"CS_Connected", "CS_LobbyFull", "CS_Disconnected"}

ScreenType == /\ m_EventQueue \in Seq(ScreenEvents) /\ inbox \in Seq(ScreenPackets)
              /\ m_ConnectionStatus \in Seq(Statuses)

(* The server's verdict has been read, and the name not sent.               *)
Answered == m_CurrentState = "Connected" \/ "Connected" \in Range(m_EventQueue)

(* The verdict is the only packet of a connection under way; a session that *)
(* has it reads nothing more before it sends the name.                      *)
AnswerInv ==
    /\ "Connected" \in Range(m_EventQueue) => m_CurrentState = "Connecting"
    /\ \A i \in DOMAIN m_EventQueue : m_EventQueue[i] = "Connected" => i = 1
    /\ m_CurrentState \in {"Connecting", "Connected"} => server # "named"
    /\ server = "asked" => inbox = << >>
    /\ m_CurrentState = "Connecting" => Len(inbox) <= 1
    /\ Answered => server # "asked" /\ inbox = << >>

Staying == ~m_IsDisconnecting

(* What an earlier session has left in the queue of statuses is fired       *)
(* before the server of this one is heard.                                  *)
StatusInv == Staying =>
    /\ m_CurrentState = "Connecting" =>
          m_ConnectionStatus = << >> \/ (inbox = << >> /\ ~Answered /\ step \in {"machine", "fire"})
    /\ m_CurrentState = "Connected" => m_ConnectionStatus = << >>
    /\ m_CurrentState = "Idle" => m_ConnectionStatus \in {<< >>, << "CS_Connected" >>}

LoadInv == /\ step = "machine" => ~m_LoadMenuPending /\ ~m_LoadGamePending
           /\ screen \in {"menu", "game"}

(* At the table the game screen is shown, about to be loaded, or announced  *)
(* by a status that nothing was read after.                                 *)
HeardInv == Staying /\ m_CurrentState = "Idle" /\ ~Screen!UnknownError =>
    /\ ~m_LoadMenuPending
    /\ \/ screen = "game"
       \/ m_LoadGamePending
       \/ /\ m_ConnectionStatus = << "CS_Connected" >> /\ inbox = << >>
          /\ step \in {"machine", "fire"}

ScreenInv == ScreenType /\ AnswerInv /\ StatusInv /\ LoadInv /\ HeardInv

LEMMA ScreenInit == Screen!Init => ScreenInv
<1> SUFFICES ASSUME Screen!Init PROVE ScreenInv
  OBVIOUS
<1>1. << >> \in Seq(ScreenEvents) /\ << >> \in Seq(ScreenPackets) /\ << >> \in Seq(Statuses)
  OBVIOUS
<1>2. Range(<< >>) = {} /\ DOMAIN << >> = {}
  BY EmptyChannel
<1> QED BY <1>1, <1>2 DEF Screen!Init, ScreenInv, ScreenType, AnswerInv, Answered, StatusInv, LoadInv, HeardInv

(* A verdict in the queue is its first event.                               *)
VerdictFirst == \A i \in DOMAIN m_EventQueue : m_EventQueue[i] = "Connected" => i = 1

NoVerdict == /\ "Connected" \notin Range(m_EventQueue)
             /\ \A i \in DOMAIN m_EventQueue : m_EventQueue[i] # "Connected"

(* Once the verdict is taken from the queue there is none.                  *)
LEMMA RestHasNoVerdict ==
    ASSUME m_EventQueue \in Seq(ScreenEvents), VerdictFirst, m_EventQueue # << >>
    PROVE  /\ Tail(m_EventQueue) \in Seq(ScreenEvents)
           /\ \A i \in DOMAIN Tail(m_EventQueue) : Tail(m_EventQueue)[i] # "Connected"
           /\ Head(m_EventQueue) \in Range(m_EventQueue)
<1>1. /\ Tail(m_EventQueue) \in Seq(ScreenEvents)
      /\ \A i \in DOMAIN Tail(m_EventQueue) : /\ i \in Nat /\ i >= 1 /\ i + 1 \in DOMAIN m_EventQueue
                                              /\ Tail(m_EventQueue)[i] = m_EventQueue[i + 1]
  BY TailFacts
<1>2. Range(m_EventQueue) = {Head(m_EventQueue)} \cup Range(Tail(m_EventQueue))
  BY TailRange
<1> QED BY <1>1, <1>2 DEF VerdictFirst

ScreenConsumes == Screen!ToConnecting \/ Screen!ToIdle \/ Screen!ToDisconnected \/ Screen!DropEvent

LEMMA ScreenQueues ==
    ASSUME m_EventQueue \in Seq(ScreenEvents), VerdictFirst,
           ScreenConsumes \/ Screen!ToConnected \/ Screen!ToLobbyFull
    PROVE  /\ m_EventQueue # << >> /\ Head(m_EventQueue) \in Range(m_EventQueue)
           /\ m_EventQueue' \in Seq(ScreenEvents) /\ NoVerdict'
<1> DEFINE rest == Tail(m_EventQueue)
<1>1. m_EventQueue # << >>
  BY DEF ScreenConsumes, Screen!ToConnecting, Screen!ToIdle, Screen!ToDisconnected, Screen!DropEvent,
         Screen!ToConnected, Screen!ToLobbyFull, Screen!Transition
<1>2. rest \in Seq(ScreenEvents) /\ (\A i \in DOMAIN rest : rest[i] # "Connected")
      /\ Head(m_EventQueue) \in Range(m_EventQueue)
  BY <1>1, RestHasNoVerdict
<1>3. "SendName" \in ScreenEvents /\ "DisconnectionRequest" \in ScreenEvents
  BY DEF ScreenEvents
<1>4. \/ m_EventQueue' = rest \/ m_EventQueue' = rest \o << >>
      \/ m_EventQueue' = rest \o << "SendName" >> \/ m_EventQueue' = rest \o << "DisconnectionRequest" >>
  BY DEF ScreenConsumes, Screen!ToConnecting, Screen!ToIdle, Screen!ToDisconnected, Screen!DropEvent,
         Screen!ToConnected, Screen!ToLobbyFull, Screen!Transition
<1> HIDE DEF rest
<1>5. /\ rest \o << >> = rest
      /\ \A event \in {"SendName", "DisconnectionRequest"} : rest \o << event >> = Append(rest, event)
  BY <1>2, <1>3, ConcatOne
<1>6. \A event \in {"SendName", "DisconnectionRequest"} :
         /\ Append(rest, event) \in Seq(ScreenEvents)
         /\ \A i \in DOMAIN Append(rest, event) : Append(rest, event)[i] # "Connected"
  <2> SUFFICES ASSUME NEW event \in {"SendName", "DisconnectionRequest"}
               PROVE  /\ Append(rest, event) \in Seq(ScreenEvents)
                      /\ \A i \in DOMAIN Append(rest, event) : Append(rest, event)[i] # "Connected"
    OBVIOUS
  <2>1. /\ DOMAIN Append(rest, event) = DOMAIN rest \cup {Len(rest) + 1}
        /\ Append(rest, event)[Len(rest) + 1] = event
        /\ \A i \in DOMAIN rest : Append(rest, event)[i] = rest[i]
    BY <1>2, AppendFacts
  <2>2. Append(rest, event) \in Seq(ScreenEvents)
    BY <1>2, <1>3
  <2> QED BY <1>2, <2>1, <2>2
<1>7. m_EventQueue' \in Seq(ScreenEvents) /\ \A i \in DOMAIN m_EventQueue' : m_EventQueue'[i] # "Connected"
  BY <1>2, <1>4, <1>5, <1>6
<1>8. "Connected" \notin Range(m_EventQueue')
  BY <1>7 DEF Range
<1> QED BY <1>1, <1>2, <1>7, <1>8 DEF NoVerdict

(* What an update puts into the empty queue.                                *)
LEMMA ScreenUpdates ==
    ASSUME Screen!UpdateState
    PROVE  /\ m_EventQueue = << >> /\ Range(m_EventQueue) = {}
           /\ m_EventQueue' \in Seq(ScreenEvents)
           /\ VerdictFirst'
           /\ \/ NoVerdict'
              \/ /\ m_CurrentState = "Connecting" /\ inbox # << >> /\ inbox' = Tail(inbox)
<1> DEFINE wish == Screen!Wish
<1>1. wish = << >> \/ wish = << "DisconnectionRequest" >>
  BY DEF Screen!Wish
<1>2. \A packet : \/ Screen!Notified(packet) = << >>
                  \/ Screen!Notified(packet) = << "LobbyFull" >>
                  \/ Screen!Notified(packet) = << "DisconnectionRequest" >>
                  \/ m_CurrentState = "Connecting" /\ Screen!Notified(packet) = << "Connected" >>
  BY Zenon DEF Screen!Notified
<1>3. /\ m_EventQueue = << >>
      /\ \/ m_EventQueue' = wish
         \/ m_EventQueue' = << "CantConnect" >> \o wish
         \/ /\ inbox # << >> /\ inbox' = Tail(inbox)
            /\ m_EventQueue' = Screen!Notified(Head(inbox)) \o wish
  BY DEF Screen!UpdateState
<1>4. ASSUME NEW told, NEW state,
             told = << >> \/ \E event \in ScreenEvents : told = << event >>
                                                         /\ (event = "Connected" => state)
      PROVE  /\ told \o wish \in Seq(ScreenEvents)
             /\ \A i \in DOMAIN (told \o wish) : (told \o wish)[i] = "Connected" => i = 1 /\ state
  <2> DEFINE IsTold(seq) == /\ seq \in Seq(ScreenEvents)
                            /\ \A i \in DOMAIN seq : seq[i] = "Connected" => i = 1 /\ state
  <2>1. IsTold(told)
    <3>1. CASE told = << >>
      BY <3>1
    <3>2. CASE told # << >>
      <4>1. PICK event \in ScreenEvents : told = << event >> /\ (event = "Connected" => state)
        BY <1>4, <3>2
      <4>2. DOMAIN << event >> = {1} /\ << event >>[1] = event /\ << event >> \in Seq(ScreenEvents)
        OBVIOUS
      <4> QED BY <4>1, <4>2
    <3> QED BY <3>1, <3>2
  <2>2. CASE wish = << >>
    <3>1. told \o wish = told
      BY <2>1, <2>2, ConcatEmptySeq, Zenon
    <3> QED BY <2>1, <3>1
  <2>3. CASE wish = << "DisconnectionRequest" >>
    <3>1. "DisconnectionRequest" \in ScreenEvents
      BY DEF ScreenEvents
    <3>2. told \o wish = Append(told, "DisconnectionRequest")
      BY <2>1, <2>3, <3>1, ConcatOne, Zenon
    <3>3. /\ DOMAIN Append(told, "DisconnectionRequest") = DOMAIN told \cup {Len(told) + 1}
          /\ Append(told, "DisconnectionRequest")[Len(told) + 1] = "DisconnectionRequest"
          /\ \A i \in DOMAIN told : Append(told, "DisconnectionRequest")[i] = told[i]
      BY <2>1, AppendFacts
    <3>4. Append(told, "DisconnectionRequest") \in Seq(ScreenEvents)
      BY <2>1, <3>1
    <3>5. IsTold(Append(told, "DisconnectionRequest"))
      BY <2>1, <3>3, <3>4
    <3> QED BY <3>2, <3>5
  <2> QED BY <1>1, <2>2, <2>3
<1>5. /\ wish \in Seq(ScreenEvents)
      /\ \A i \in DOMAIN wish : wish[i] # "Connected"
  <2>1. CASE wish = << >>
    BY <2>1
  <2>2. CASE wish = << "DisconnectionRequest" >>
    <3>1. \A event : DOMAIN << event >> = {1} /\ << event >>[1] = event
      OBVIOUS
    <3>2. << "DisconnectionRequest" >> \in Seq(ScreenEvents)
      BY DEF ScreenEvents
    <3> HIDE DEF wish
    <3> QED BY <2>2, <3>1, <3>2
  <2> QED BY <1>1, <2>1, <2>2
<1> DEFINE reads == m_CurrentState = "Connecting" /\ inbox # << >> /\ inbox' = Tail(inbox)
<1>6. /\ m_EventQueue' \in Seq(ScreenEvents)
      /\ \A i \in DOMAIN m_EventQueue' : m_EventQueue'[i] = "Connected" => i = 1 /\ reads
  <2>1. CASE m_EventQueue' = wish
    BY <1>5, <2>1
  <2>2. CASE m_EventQueue' = << "CantConnect" >> \o wish
    <3>1. "CantConnect" \in ScreenEvents
      BY DEF ScreenEvents
    <3> DEFINE told == << "CantConnect" >>
    <3>2. told = << >> \/ \E event \in ScreenEvents : told = << event >>
                                                      /\ (event = "Connected" => reads)
      BY <3>1
    <3> HIDE DEF told, wish, reads
    <3>3. /\ told \o wish \in Seq(ScreenEvents)
          /\ \A i \in DOMAIN (told \o wish) : (told \o wish)[i] = "Connected" => i = 1 /\ reads
      BY <1>4, <3>2
    <3> QED BY <2>2, <3>3 DEF told
  <2>3. CASE /\ inbox # << >> /\ inbox' = Tail(inbox)
             /\ m_EventQueue' = Screen!Notified(Head(inbox)) \o wish
    <3>1. "LobbyFull" \in ScreenEvents /\ "DisconnectionRequest" \in ScreenEvents
          /\ "Connected" \in ScreenEvents
      BY DEF ScreenEvents
    <3> DEFINE told == Screen!Notified(Head(inbox))
    <3>2. told = << >> \/ \E event \in ScreenEvents : told = << event >>
                                                      /\ (event = "Connected" => reads)
      BY <1>2, <2>3, <3>1
    <3> HIDE DEF told, wish, reads
    <3>3. /\ told \o wish \in Seq(ScreenEvents)
          /\ \A i \in DOMAIN (told \o wish) : (told \o wish)[i] = "Connected" => i = 1 /\ reads
      BY <1>4, <3>2
    <3> QED BY <2>3, <3>3 DEF told
  <2> QED BY <1>3, <2>1, <2>2, <2>3
<1> HIDE DEF wish
<1>7. reads \/ NoVerdict'
  BY <1>6 DEF NoVerdict, Range
<1> QED BY <1>3, <1>6, <1>7, EmptyChannel DEF VerdictFirst

(* The steps that leave the machine alone.                                  *)
MachineRests == Screen!Idles \/ Screen!ChooseMode \/ Screen!OnErrorOk \/ Screen!OnQuitTable \/ Screen!Quit
                \/ Screen!StopWaits \/ Screen!LoadScreens \/ Screen!FireStatus \/ Screen!EndUpdate
                \/ Screen!ServerAnswers \/ Screen!ServerSends

(* The steps of Next, as the lemmas below group them.                       *)
LEMMA ScreenCases ==
    ASSUME [Screen!Next]_(Screen!vars)
    PROVE  \/ UNCHANGED Screen!vars \/ MachineRests \/ Screen!Connect
           \/ ScreenConsumes \/ Screen!ToConnected \/ Screen!ToLobbyFull \/ Screen!UpdateState
BY DEF Screen!Next, Screen!Run, Screen!Clicks, Screen!Machine, MachineRests, ScreenConsumes

(* They leave the machine, and add at most one packet.                      *)
LEMMA RestFacts ==
    ASSUME inbox \in Seq(ScreenPackets), MachineRests
    PROVE  /\ UNCHANGED << m_CurrentState, m_StopFlag, m_EventQueue >>
           /\ inbox' \in Seq(ScreenPackets)
           /\ \/ UNCHANGED << server, inbox >>
              \/ /\ server = "asked" /\ server' \in {"accepted", "denied"} /\ step = "events"
                 /\ \E packet \in ScreenPackets : inbox' = Append(inbox, packet)
              \/ server = "named" /\ server' \in {"named", "gone"} /\ step = "events"
              \/ server' = "gone" /\ inbox' = inbox /\ step = "events"
<1>1. UNCHANGED << m_CurrentState, m_StopFlag, m_EventQueue >>
  BY DEF MachineRests, Screen!Idles, Screen!ChooseMode, Screen!OnErrorOk, Screen!OnQuitTable,
         Screen!Quit, Screen!StopWaits, Screen!LoadScreens, Screen!FireStatus, Screen!EndUpdate,
         Screen!ServerAnswers, Screen!ServerSends, Screen!machineVars
<1>2. \/ UNCHANGED << server, inbox >>
      \/ /\ server = "asked" /\ server' \in {"accepted", "denied"} /\ step = "events"
         /\ \E packet \in ScreenPackets : inbox' = Append(inbox, packet)
      \/ /\ server = "named" /\ server' \in {"named", "gone"} /\ step = "events"
         /\ inbox' = inbox \/ \E packet \in ScreenPackets : inbox' = Append(inbox, packet)
      \/ server' = "gone" /\ inbox' = inbox /\ step = "events"
  <2>1. CASE Screen!StopServer /\ step = "events"
    BY <2>1 DEF Screen!StopServer, Screen!CloseOwnSession, ScreenPackets
  <2>2. CASE Screen!ServerAnswers
    BY <2>2 DEF Screen!ServerAnswers, Screen!Arrives, ScreenPackets
  <2>3. CASE Screen!ServerSends
    BY <2>3 DEF Screen!ServerSends, Screen!Arrives, ScreenPackets
  <2>4. CASE ~Screen!ServerAnswers /\ ~Screen!ServerSends /\ ~(Screen!StopServer /\ step = "events")
    BY <2>4 DEF MachineRests, Screen!Idles, Screen!ChooseMode, Screen!OnErrorOk, Screen!OnQuitTable,
         Screen!Quit, Screen!StopWaits, Screen!LoadScreens, Screen!FireStatus, Screen!EndUpdate,
         Screen!serverVars, Screen!Polled, Screen!Poll
  <2> QED BY <2>1, <2>2, <2>3, <2>4
<1>3. \A packet \in ScreenPackets : Append(inbox, packet) \in Seq(ScreenPackets)
  OBVIOUS
<1> QED BY <1>1, <1>2, <1>3

(* A click on connect starts the machine anew, and forgets its queue.  The   *)
(* server that was hosted has gone.                                         *)
LEMMA ConnectFacts ==
    ASSUME Screen!Connect, inbox \in Seq(ScreenPackets)
    PROVE  /\ m_CurrentState' = "WaitingForConnection" /\ inbox' \in Seq(ScreenPackets)
           /\ server' = "gone" \/ UNCHANGED << server, inbox >>
           /\ m_EventQueue' \in Seq(ScreenEvents) /\ NoVerdict'
<1>0. /\ inbox' \in Seq(ScreenPackets)
      /\ server' = "gone" \/ UNCHANGED << server, inbox >>
  <2>1. Append(inbox, "ServerShuttingDown") \in Seq(ScreenPackets)
    BY DEF ScreenPackets
  <2>2. CASE Screen!CloseOwnSession
    BY <2>1, <2>2 DEF Screen!CloseOwnSession
  <2>3. CASE UNCHANGED << server, inbox >>
    BY <2>3
  <2> QED BY <2>2, <2>3 DEF Screen!Connect, Screen!Host, Screen!Join
<1>1. m_EventQueue' = << "ConnectionRequest" >>
  BY DEF Screen!Connect
<1>2. << "ConnectionRequest" >> \in Seq(ScreenEvents)
  BY DEF ScreenEvents
<1>3. \A i \in DOMAIN m_EventQueue' : m_EventQueue'[i] # "Connected"
  <2>1. \A event : DOMAIN << event >> = {1} /\ << event >>[1] = event
    OBVIOUS
  <2> QED BY <1>1, <2>1
<1> QED BY <1>0, <1>1, <1>2, <1>3 DEF NoVerdict, Range, Screen!Connect

(* The transitions, with the state they start from and lead to.             *)
LEMMA MachineFacts ==
    ASSUME ScreenConsumes \/ Screen!ToConnected \/ Screen!ToLobbyFull
    PROVE  /\ step = "machine" /\ step' = "machine"
           /\ \/ /\ Screen!ToConnecting /\ m_CurrentState = "WaitingForConnection"
                 /\ m_CurrentState' = "Connecting" /\ inbox' = << >> /\ server' \in {"asked", "gone"}
              \/ /\ Screen!ToIdle /\ m_CurrentState = "Connected" /\ m_CurrentState' = "Idle"
                 /\ inbox' = inbox /\ server' = IF server = "accepted" THEN "named" ELSE server
              \/ /\ Screen!ToDisconnected /\ m_CurrentState' = "Disconnected"
                 /\ inbox' = << >> /\ server' = "gone"
              \/ /\ Screen!DropEvent /\ m_CurrentState' = m_CurrentState
                 /\ UNCHANGED << server, inbox >>
              \/ /\ Screen!ToConnected /\ m_CurrentState = "Connecting" /\ m_CurrentState' = "Connected"
                 /\ Head(m_EventQueue) = "Connected" /\ UNCHANGED << server, inbox >>
              \/ /\ Screen!ToLobbyFull /\ m_CurrentState = "Connecting" /\ m_CurrentState' = "LobbyFull"
                 /\ UNCHANGED << server, inbox >>
BY DEF ScreenConsumes, Screen!ToConnecting, Screen!ToIdle, Screen!ToDisconnected, Screen!DropEvent,
       Screen!ToConnected, Screen!ToLobbyFull, Screen!Transition, Screen!loopVars, Screen!serverVars

(* One verdict is read for each connection, and nothing before it.          *)
LEMMA AnswerNext ==
    ASSUME ScreenType, AnswerInv, [Screen!Next]_(Screen!vars)
    PROVE  AnswerInv' /\ m_EventQueue' \in Seq(ScreenEvents) /\ inbox' \in Seq(ScreenPackets)
<1>0. m_EventQueue \in Seq(ScreenEvents) /\ inbox \in Seq(ScreenPackets) /\ VerdictFirst
  BY DEF ScreenType, AnswerInv, VerdictFirst
<1>1. CASE UNCHANGED Screen!vars
  BY <1>0, <1>1 DEF Screen!vars, Screen!machineVars, Screen!serverVars, AnswerInv, Answered
<1>2. CASE MachineRests
  <2>1. UNCHANGED << m_CurrentState, m_EventQueue >> /\ inbox' \in Seq(ScreenPackets)
    BY <1>0, <1>2, RestFacts
  <2>2. Answered' <=> Answered
    BY <2>1 DEF Answered
  <2>3. CASE UNCHANGED << server, inbox >>
    BY <1>0, <2>1, <2>3 DEF AnswerInv, Answered
  <2>4. CASE /\ server = "asked" /\ server' \in {"accepted", "denied"}
             /\ \E packet \in ScreenPackets : inbox' = Append(inbox, packet)
    <3>1. PICK packet \in ScreenPackets : inbox' = Append(<< >>, packet)
      BY <2>4 DEF AnswerInv
    <3>2. Len(inbox') <= 1
      BY <3>1
    <3>3. ~Answered
      BY <2>4 DEF AnswerInv
    <3> QED BY <1>0, <2>1, <2>2, <2>4, <3>2, <3>3 DEF AnswerInv
  <2>5. CASE server = "named" /\ server' \in {"named", "gone"}
    <3>1. ~Answered /\ m_CurrentState \notin {"Connecting", "Connected"}
      BY <2>5 DEF AnswerInv, Answered
    <3> QED BY <1>0, <2>1, <2>2, <2>5, <3>1 DEF AnswerInv
  <2>6. CASE server' = "gone" /\ inbox' = inbox
    BY <1>0, <2>1, <2>2, <2>6 DEF AnswerInv
  <2> QED BY <1>0, <1>2, <2>3, <2>4, <2>5, <2>6, RestFacts
<1>3. CASE Screen!Connect
  <2>1. /\ m_CurrentState' = "WaitingForConnection" /\ inbox' \in Seq(ScreenPackets)
        /\ server' = "gone" \/ UNCHANGED << server, inbox >>
        /\ m_EventQueue' \in Seq(ScreenEvents) /\ NoVerdict'
    BY <1>0, <1>3, ConnectFacts
  <2>2. ~Answered' /\ (server' = "asked" => inbox' = << >>)
    BY <2>1 DEF AnswerInv, Answered, NoVerdict
  <2> QED BY <2>1, <2>2 DEF AnswerInv, NoVerdict
<1>4. CASE ScreenConsumes \/ Screen!ToConnected \/ Screen!ToLobbyFull
  <2>1. /\ Head(m_EventQueue) \in Range(m_EventQueue)
        /\ m_EventQueue' \in Seq(ScreenEvents) /\ NoVerdict'
    BY <1>0, <1>4, ScreenQueues
  <2>2. << >> \in Seq(ScreenPackets) /\ Len(<< >>) = 0
    OBVIOUS
  <2>3. Answered' <=> m_CurrentState' = "Connected"
    BY <2>1 DEF Answered, NoVerdict
  <2>4. m_CurrentState = "Connected" \/ Head(m_EventQueue) = "Connected" => Answered
    BY <2>1 DEF Answered
  <2>5. CASE m_CurrentState' \notin {"Connecting", "Connected"} /\ inbox' \in {inbox, << >>}
             /\ (server' = "asked" => inbox' = << >> \/ server = "asked")
    BY <1>0, <2>1, <2>2, <2>3, <2>5 DEF AnswerInv, NoVerdict
  <2>6. CASE m_CurrentState' = "Connecting" /\ inbox' = << >> /\ server' \in {"asked", "gone"}
    BY <1>0, <2>1, <2>2, <2>3, <2>6 DEF AnswerInv, NoVerdict
  <2>7. CASE m_CurrentState' = m_CurrentState /\ UNCHANGED << server, inbox >>
    BY <1>0, <2>1, <2>3, <2>4, <2>7 DEF AnswerInv, NoVerdict
  <2>8. CASE /\ m_CurrentState = "Connecting" /\ m_CurrentState' = "Connected"
             /\ Head(m_EventQueue) = "Connected" /\ UNCHANGED << server, inbox >>
    BY <1>0, <2>1, <2>3, <2>4, <2>8 DEF AnswerInv, NoVerdict
  <2> QED
    <3>1. /\ "Idle" \notin {"Connecting", "Connected"} /\ "Disconnected" \notin {"Connecting", "Connected"}
          /\ "LobbyFull" \notin {"Connecting", "Connected"}
      OBVIOUS
    <3> QED BY <1>4, <2>5, <2>6, <2>7, <2>8, <3>1, MachineFacts
<1>5. CASE Screen!UpdateState
  <2>1. /\ m_EventQueue' \in Seq(ScreenEvents) /\ VerdictFirst' /\ Range(m_EventQueue) = {}
        /\ NoVerdict' \/ (m_CurrentState = "Connecting" /\ inbox # << >> /\ inbox' = Tail(inbox))
    BY <1>5, ScreenUpdates
  <2>2. UNCHANGED << server, m_CurrentState >>
        /\ (inbox' = inbox \/ (inbox # << >> /\ inbox' = Tail(inbox)))
    BY <1>5 DEF Screen!UpdateState
  <2>3. inbox # << >> => /\ Tail(inbox) \in Seq(ScreenPackets) /\ Len(Tail(inbox)) = Len(inbox) - 1
                         /\ Len(inbox) \in Nat /\ Len(Tail(inbox)) \in Nat
                         /\ (Len(Tail(inbox)) = 0 => Tail(inbox) = << >>)
    BY <1>0, TailFacts
  <2>4. m_CurrentState = "Connecting" /\ inbox' = Tail(inbox) /\ inbox # << >> => inbox' = << >>
    BY <2>3 DEF AnswerInv
  <2>5. inbox' \in Seq(ScreenPackets) /\ (m_CurrentState = "Connecting" => Len(inbox') <= 1)
    BY <1>0, <2>2, <2>3 DEF AnswerInv
  <2>6. server = "asked" => inbox' = << >> /\ inbox = << >>
    BY <2>2 DEF AnswerInv
  <2>7. m_CurrentState = "Connected" => inbox' = << >>
    BY <2>2 DEF AnswerInv, Answered
  <2>8. /\ "Connected" \in Range(m_EventQueue') => m_CurrentState' = "Connecting"
        /\ Answered' => server' # "asked" /\ inbox' = << >>
    BY <2>1, <2>2, <2>4, <2>6, <2>7 DEF NoVerdict, Answered, AnswerInv
  <2> QED BY <2>1, <2>2, <2>5, <2>6, <2>8 DEF AnswerInv, VerdictFirst
<1> QED BY <1>1, <1>2, <1>3, <1>4, <1>5, ScreenCases

(* A status that is queued behind nothing is alone.                         *)
LEMMA PushFacts ==
    ASSUME m_ConnectionStatus \in Seq(Statuses), NEW status \in Statuses, Screen!Push(status)
    PROVE  /\ m_ConnectionStatus' \in Seq(Statuses)
           /\ m_ConnectionStatus = << >> => m_ConnectionStatus' = << status >>
<1>1. Append(m_ConnectionStatus, status) \in Seq(Statuses)
  OBVIOUS
<1>2. m_ConnectionStatus = << >> => Append(m_ConnectionStatus, status) = << status >>
  OBVIOUS
<1> QED BY <1>1, <1>2 DEF Screen!Push

(* What a step other than those of the machine does to the screens.         *)
LEMMA QuietFacts ==
    ASSUME MachineRests
    PROVE  \/ /\ UNCHANGED << m_ConnectionStatus, m_IsDisconnecting, m_LoadMenuPending, m_MenuReason,
                              m_LoadGamePending, screen >>
              /\ step = "events" /\ step' # "machine"
           \/ m_IsDisconnecting' /\ step = "events" /\ step' # "machine"
              /\ UNCHANGED << m_ConnectionStatus, screen >>
           \/ Screen!LoadScreens \/ Screen!FireStatus \/ Screen!EndUpdate
<1>1. CASE Screen!Idles
  BY <1>1 DEF Screen!Idles, Screen!Polled, Screen!Poll, Screen!pendingVars, Screen!wishVars, Screen!guiVars
<1>2. CASE Screen!ChooseMode
  BY <1>2 DEF Screen!ChooseMode, Screen!Polled, Screen!Poll, Screen!pendingVars, Screen!wishVars
<1>3. CASE Screen!OnErrorOk
  BY <1>3 DEF Screen!OnErrorOk, Screen!Polled, Screen!Poll, Screen!pendingVars, Screen!wishVars
<1>4. CASE Screen!OnQuitTable
  <2>1. step = "events" /\ step' = "load" /\ UNCHANGED << m_ConnectionStatus, screen >>
    BY <1>4 DEF Screen!OnQuitTable, Screen!Polled, Screen!Poll, Screen!guiVars
  <2>2. m_IsDisconnecting'
    BY <1>4 DEF Screen!OnQuitTable, Screen!ClientDisconnect
  <2> QED BY <2>1, <2>2
<1>5. CASE Screen!Quit
  BY <1>5 DEF Screen!Quit, Screen!ClientDisconnect, Screen!Polled, Screen!Poll, Screen!guiVars
<1>8. CASE Screen!StopWaits
  BY <1>8 DEF Screen!StopWaits, Screen!Poll, Screen!wishVars, Screen!guiVars
<1>6. CASE Screen!ServerAnswers
  BY <1>6 DEF Screen!ServerAnswers, Screen!pendingVars, Screen!wishVars, Screen!guiVars, Screen!loopVars
<1>7. CASE Screen!ServerSends
  BY <1>7 DEF Screen!ServerSends, Screen!pendingVars, Screen!wishVars, Screen!guiVars, Screen!loopVars
<1> QED BY <1>1, <1>2, <1>3, <1>4, <1>5, <1>6, <1>7, <1>8 DEF MachineRests

(* The transitions leave the screens and the wishes alone.                  *)
LEMMA TransitionFrame ==
    ASSUME ScreenConsumes \/ Screen!ToConnected \/ Screen!ToLobbyFull
    PROVE  UNCHANGED << step, screen, m_LoadMenuPending, m_MenuReason, m_LoadGamePending,
                        m_IsDisconnecting >>
BY DEF ScreenConsumes, Screen!ToConnecting, Screen!ToIdle, Screen!ToDisconnected, Screen!DropEvent,
       Screen!ToConnected, Screen!ToLobbyFull, Screen!Transition, Screen!loopVars, Screen!guiVars,
       Screen!pendingVars, Screen!wishVars

(* The queue of statuses keeps its type.                                    *)
LEMMA StatusSteps ==
    ASSUME m_ConnectionStatus \in Seq(Statuses), [Screen!Next]_(Screen!vars)
    PROVE  m_ConnectionStatus' \in Seq(Statuses)
<1> USE DEF Statuses
<1>1. CASE UNCHANGED Screen!vars
  BY <1>1 DEF Screen!vars
<1>2. CASE MachineRests
  <2>1. CASE Screen!FireStatus
    BY <2>1 DEF Screen!FireStatus
  <2>2. CASE Screen!LoadScreens \/ Screen!EndUpdate
    BY <2>2 DEF Screen!LoadScreens, Screen!EndUpdate
  <2> QED BY <1>2, <2>1, <2>2, QuietFacts
<1>3. CASE Screen!Connect
  BY <1>3 DEF Screen!Connect
<1>4. CASE ScreenConsumes \/ Screen!ToConnected \/ Screen!ToLobbyFull
  <2>1. CASE Screen!ToIdle
    BY <2>1, PushFacts DEF Screen!ToIdle
  <2>2. CASE Screen!ToDisconnected
    BY <2>2, PushFacts DEF Screen!ToDisconnected
  <2>3. CASE Screen!ToLobbyFull
    BY <2>3, PushFacts DEF Screen!ToLobbyFull
  <2>4. CASE Screen!ToConnecting \/ Screen!ToConnected \/ Screen!DropEvent
    BY <2>4 DEF Screen!ToConnecting, Screen!ToConnected, Screen!DropEvent
  <2> QED BY <1>4, <2>1, <2>2, <2>3, <2>4 DEF ScreenConsumes
<1>5. CASE Screen!UpdateState
  BY <1>5 DEF Screen!UpdateState
<1> QED BY <1>1, <1>2, <1>3, <1>4, <1>5, ScreenCases

(* Pending screens are loaded before the machine is updated.                *)
LEMMA LoadNext ==
    ASSUME LoadInv, [Screen!Next]_(Screen!vars)
    PROVE  LoadInv'
<1>1. CASE UNCHANGED Screen!vars
  BY <1>1 DEF Screen!vars, Screen!loopVars, Screen!guiVars, Screen!pendingVars, LoadInv
<1>2. CASE MachineRests
  <2>1. CASE Screen!FireStatus
    BY <2>1 DEF Screen!FireStatus, Screen!loopVars, LoadInv
  <2>2. CASE Screen!EndUpdate
    BY <2>2 DEF Screen!EndUpdate, Screen!guiVars, LoadInv
  <2>3. CASE Screen!LoadScreens
    <3>1. screen' \in {"menu", "game"}
      BY <2>3 DEF Screen!LoadScreens, LoadInv
    <3> QED BY <2>3, <3>1 DEF Screen!LoadScreens, LoadInv
  <2> QED BY <1>2, <2>1, <2>2, <2>3, QuietFacts DEF LoadInv
<1>3. CASE Screen!Connect
  BY <1>3 DEF Screen!Connect, Screen!Polled, LoadInv
<1>4. CASE ScreenConsumes \/ Screen!ToConnected \/ Screen!ToLobbyFull
  BY <1>4, TransitionFrame DEF LoadInv
<1>5. CASE Screen!UpdateState
  BY <1>5 DEF Screen!UpdateState, Screen!guiVars, LoadInv
<1> QED BY <1>1, <1>2, <1>3, <1>4, <1>5, ScreenCases

(* The statuses of an earlier session are fired before the verdict is read. *)
LEMMA StatusNext ==
    ASSUME ScreenInv, [Screen!Next]_(Screen!vars), AnswerInv'
    PROVE  StatusInv'
<1>0. m_ConnectionStatus \in Seq(Statuses) /\ inbox \in Seq(ScreenPackets) /\ m_EventQueue \in Seq(ScreenEvents)
  BY DEF ScreenInv, ScreenType
<1>1. CASE UNCHANGED Screen!vars
  BY <1>1 DEF Screen!vars, Screen!loopVars, Screen!wishVars, Screen!machineVars, Screen!serverVars,
              ScreenInv, StatusInv, Staying, Answered
<1>2. CASE MachineRests
  <2>1. UNCHANGED << m_CurrentState, m_EventQueue >>
    BY <1>0, <1>2, RestFacts
  <2>2. CASE Screen!FireStatus
    <3>1. /\ step = "fire" /\ ~m_IsDisconnecting /\ m_ConnectionStatus # << >>
          /\ m_ConnectionStatus' = Tail(m_ConnectionStatus)
          /\ UNCHANGED << step, m_IsDisconnecting, inbox >>
      BY <2>2 DEF Screen!FireStatus, Screen!loopVars, Screen!wishVars, Screen!serverVars
    <3>2. m_ConnectionStatus = << "CS_Connected" >> => m_ConnectionStatus' = << >>
      BY <3>1
    <3> QED BY <2>1, <3>1, <3>2 DEF ScreenInv, StatusInv, Staying, Answered
  <2>3. CASE Screen!EndUpdate
    <3>1. (m_IsDisconnecting \/ m_ConnectionStatus = << >>)
          /\ UNCHANGED << m_ConnectionStatus, m_IsDisconnecting >>
      BY <2>3 DEF Screen!EndUpdate, Screen!wishVars
    <3> QED BY <3>1 DEF StatusInv, Staying
  <2>4. CASE Screen!LoadScreens
    <3>1. step = "load" /\ UNCHANGED << m_ConnectionStatus, m_IsDisconnecting >>
      BY <2>4 DEF Screen!LoadScreens, Screen!wishVars
    <3> QED BY <2>1, <3>1 DEF ScreenInv, StatusInv, Staying
  <2>5. CASE step = "events" /\ UNCHANGED << m_ConnectionStatus, m_IsDisconnecting >>
    BY <2>1, <2>5 DEF ScreenInv, StatusInv, Staying
  <2>6. CASE m_IsDisconnecting'
    BY <2>6 DEF StatusInv, Staying
  <2> QED BY <1>2, <2>2, <2>3, <2>4, <2>5, <2>6, QuietFacts
<1>3. CASE Screen!Connect
  BY <1>3 DEF Screen!Connect, StatusInv
<1>4. CASE ScreenConsumes \/ Screen!ToConnected \/ Screen!ToLobbyFull
  <2>1. UNCHANGED << step, m_IsDisconnecting >> /\ step = "machine"
    BY <1>4, TransitionFrame, MachineFacts
  <2>2. m_EventQueue # << >> /\ Head(m_EventQueue) \in Range(m_EventQueue) /\ NoVerdict'
    BY <1>0, <1>4, ScreenQueues DEF ScreenInv, AnswerInv, VerdictFirst
  <2>3. CASE Screen!ToConnecting
    <3>1. m_CurrentState' = "Connecting" /\ inbox' = << >>
      BY <2>3 DEF Screen!ToConnecting, Screen!Transition
    <3> QED BY <2>1, <2>2, <3>1 DEF StatusInv, Answered, NoVerdict
  <2>4. CASE Screen!ToIdle
    <3>1. m_CurrentState = "Connected" /\ m_CurrentState' = "Idle"
      BY <2>4 DEF Screen!ToIdle, Screen!Transition
    <3>2. m_ConnectionStatus = << >> => m_ConnectionStatus' = << "CS_Connected" >>
      BY <1>0, <2>4, PushFacts DEF Screen!ToIdle, Statuses
    <3> QED BY <2>1, <3>1, <3>2 DEF ScreenInv, StatusInv, Staying
  <2>5. CASE Screen!ToDisconnected \/ Screen!ToLobbyFull
    <3>1. m_CurrentState' \in {"Disconnected", "LobbyFull"}
      BY <2>5 DEF Screen!ToDisconnected, Screen!ToLobbyFull, Screen!Transition
    <3> QED BY <3>1 DEF StatusInv
  <2>6. CASE Screen!DropEvent
    <3>1. UNCHANGED << m_CurrentState, m_ConnectionStatus, inbox >>
      BY <2>6 DEF Screen!DropEvent, Screen!serverVars
    <3>2. m_CurrentState = "Connecting" => ~Answered'
      BY <2>2, <3>1 DEF Answered, NoVerdict
    <3> QED BY <2>1, <3>1, <3>2 DEF ScreenInv, StatusInv, Staying
  <2>7. CASE Screen!ToConnected
    <3>1. /\ m_CurrentState = "Connecting" /\ m_CurrentState' = "Connected"
          /\ Head(m_EventQueue) = "Connected" /\ UNCHANGED m_ConnectionStatus
      BY <2>7 DEF Screen!ToConnected, Screen!Transition
    <3>2. Answered
      BY <2>2, <3>1 DEF Answered
    <3> QED BY <2>1, <3>1, <3>2 DEF ScreenInv, StatusInv, Staying
  <2> QED BY <1>4, <2>3, <2>4, <2>5, <2>6, <2>7 DEF ScreenConsumes
<1>5. CASE Screen!UpdateState
  <2>1. /\ UNCHANGED << m_CurrentState, m_ConnectionStatus, m_IsDisconnecting >>
        /\ step' = "fire" /\ (inbox = << >> => inbox' = << >>)
    BY <1>5 DEF Screen!UpdateState, Screen!wishVars
  <2>2. m_CurrentState = "Connecting" /\ inbox = << >> => ~Answered'
    BY <1>5, <2>1, ScreenUpdates DEF Answered, NoVerdict
  <2> QED BY <2>1, <2>2 DEF ScreenInv, StatusInv, Staying
<1> QED BY <1>1, <1>2, <1>3, <1>4, <1>5, ScreenCases

(* The status that loads the game screen is fired before the next update.   *)
LEMMA HeardNext ==
    ASSUME ScreenInv, [Screen!Next]_(Screen!vars), AnswerInv', LoadInv'
    PROVE  HeardInv'
<1>0. m_ConnectionStatus \in Seq(Statuses) /\ inbox \in Seq(ScreenPackets)
  BY DEF ScreenInv, ScreenType
<1> SUFFICES ASSUME Staying', m_CurrentState' = "Idle", ~Screen!UnknownError'
             PROVE  /\ ~m_LoadMenuPending'
                    /\ \/ screen' = "game"
                       \/ m_LoadGamePending'
                       \/ /\ m_ConnectionStatus' = << "CS_Connected" >> /\ inbox' = << >>
                          /\ step' \in {"machine", "fire"}
  BY DEF HeardInv
<1> USE DEF Staying, Screen!UnknownError
<1>1. CASE UNCHANGED Screen!vars
  BY <1>1 DEF Screen!vars, Screen!loopVars, Screen!wishVars, Screen!machineVars, Screen!serverVars,
              Screen!guiVars, Screen!pendingVars, ScreenInv, HeardInv
<1>2. CASE MachineRests
  <2>1. m_CurrentState = "Idle"
    BY <1>0, <1>2, RestFacts
  <2>2. CASE Screen!FireStatus
    <3>1. /\ step = "fire" /\ ~m_IsDisconnecting /\ m_ConnectionStatus # << >>
          /\ UNCHANGED << screen >>
      BY <2>2 DEF Screen!FireStatus
    <3>2. m_ConnectionStatus = << "CS_Connected" >>
      BY <2>1, <3>1 DEF ScreenInv, StatusInv
    <3>3. Head(m_ConnectionStatus) = "CS_Connected"
      BY <3>2
    <3>4. CASE screen = "menu"
      <4>1. m_LoadGamePending' /\ UNCHANGED << m_LoadMenuPending, m_MenuReason >>
        BY <2>2, <3>3, <3>4 DEF Screen!FireStatus, Screen!LoadGame
      <4> QED BY <2>1, <3>1, <4>1 DEF ScreenInv, HeardInv
    <3>5. CASE screen = "game"
      <4>1. m_MenuReason' = "MR_Unknown"
        BY <2>2, <3>3, <3>5 DEF Screen!FireStatus, Screen!LoadMenu
      <4> QED BY <4>1
    <3> QED BY <3>4, <3>5 DEF ScreenInv, LoadInv
  <2>3. CASE Screen!EndUpdate
    <3>1. /\ m_IsDisconnecting \/ m_ConnectionStatus = << >>
          /\ UNCHANGED << m_IsDisconnecting, screen, m_LoadMenuPending, m_MenuReason, m_LoadGamePending >>
      BY <2>3 DEF Screen!EndUpdate, Screen!wishVars, Screen!guiVars, Screen!pendingVars
    <3>2. m_ConnectionStatus # << "CS_Connected" >>
      BY <3>1
    <3> QED BY <2>1, <3>1, <3>2 DEF ScreenInv, HeardInv
  <2>4. CASE Screen!LoadScreens
    <3>1. /\ step = "load" /\ UNCHANGED << m_IsDisconnecting, m_MenuReason >> /\ ~m_LoadMenuPending'
      BY <2>4 DEF Screen!LoadScreens, Screen!wishVars
    <3>2. ~m_LoadMenuPending /\ (screen = "game" \/ m_LoadGamePending)
      BY <2>1, <3>1 DEF ScreenInv, HeardInv
    <3>3. screen' = "game"
      BY <2>4, <3>2 DEF Screen!LoadScreens
    <3> QED BY <3>1, <3>3
  <2>5. CASE /\ UNCHANGED << m_ConnectionStatus, m_IsDisconnecting, m_LoadMenuPending, m_MenuReason,
                             m_LoadGamePending, screen >>
             /\ step = "events"
    BY <2>1, <2>5 DEF ScreenInv, HeardInv
  <2>6. CASE m_IsDisconnecting'
    BY <2>6
  <2> QED BY <1>2, <2>2, <2>3, <2>4, <2>5, <2>6, QuietFacts
<1>3. CASE Screen!Connect
  BY <1>3 DEF Screen!Connect
<1>4. CASE ScreenConsumes \/ Screen!ToConnected \/ Screen!ToLobbyFull
  <2>1. /\ step = "machine" /\ UNCHANGED << step, screen, m_LoadMenuPending, m_MenuReason,
                                            m_LoadGamePending, m_IsDisconnecting >>
    BY <1>4, TransitionFrame, MachineFacts
  <2>2. CASE Screen!ToIdle
    <3>1. m_CurrentState = "Connected" /\ UNCHANGED inbox
      BY <2>2 DEF Screen!ToIdle, Screen!Transition
    <3>2. m_ConnectionStatus' = << "CS_Connected" >>
      BY <1>0, <2>1, <2>2, <3>1, PushFacts DEF Screen!ToIdle, Statuses, ScreenInv, StatusInv
    <3>3. inbox = << >>
      BY <3>1 DEF ScreenInv, AnswerInv, Answered
    <3> QED BY <2>1, <3>1, <3>2, <3>3 DEF ScreenInv, LoadInv
  <2>3. CASE Screen!DropEvent
    <3>1. UNCHANGED << m_CurrentState, m_ConnectionStatus, inbox >>
      BY <2>3 DEF Screen!DropEvent, Screen!serverVars
    <3> QED BY <2>1, <3>1 DEF ScreenInv, HeardInv
  <2> QED BY <1>4, <2>2, <2>3 DEF ScreenConsumes, Screen!ToConnecting, Screen!ToDisconnected,
                                  Screen!ToConnected, Screen!ToLobbyFull, Screen!Transition
<1>5. CASE Screen!UpdateState
  <2>1. /\ UNCHANGED << m_CurrentState, m_ConnectionStatus, m_IsDisconnecting, screen,
                        m_LoadMenuPending, m_MenuReason, m_LoadGamePending >>
        /\ step' = "fire" /\ (inbox = << >> => inbox' = << >>)
    BY <1>5 DEF Screen!UpdateState, Screen!wishVars, Screen!guiVars, Screen!pendingVars
  <2> QED BY <2>1 DEF ScreenInv, HeardInv
<1> QED BY <1>1, <1>2, <1>3, <1>4, <1>5, ScreenCases

(* The parts of the invariant together are inductive.                       *)
LEMMA ScreenNext ==
    ASSUME ScreenInv, [Screen!Next]_(Screen!vars)
    PROVE  ScreenInv'
<1>1. AnswerInv' /\ m_EventQueue' \in Seq(ScreenEvents) /\ inbox' \in Seq(ScreenPackets)
  BY AnswerNext DEF ScreenInv
<1>2. m_ConnectionStatus' \in Seq(Statuses)
  BY StatusSteps DEF ScreenInv, ScreenType
<1>3. LoadInv'
  BY LoadNext DEF ScreenInv
<1>4. StatusInv'
  BY <1>1, StatusNext
<1>5. HeardInv'
  BY <1>1, <1>3, HeardNext
<1> QED BY <1>1, <1>2, <1>3, <1>4, <1>5 DEF ScreenInv, ScreenType

(* The invariant of the main loop of Game, the queue of statuses of         *)
(* PlayerSocket and the machine of ClientSocket.                            *)
THEOREM ScreenInvAlways == Screen!Spec => []ScreenInv
<1>1. Screen!Init => ScreenInv
  BY ScreenInit
<1>2. ScreenInv /\ [Screen!Next]_(Screen!vars) => ScreenInv'
  BY ScreenNext
<1> QED BY <1>1, <1>2, PTL DEF Screen!Spec

(* PlayerSocket reads no packet of the game while the script of the menu,   *)
(* which has no handler for its event, is shown; unless the person leaves,  *)
(* or has been told of an unknown error on connecting again.                *)
THEOREM GameEventsAreHeardAlways == Screen!Spec => Screen!GameEventsAreHeard
<1>1. ScreenInv => [m_CurrentState = "Idle" /\ Screen!Reads("GameContextPacket")
                    => screen = "game" \/ m_IsDisconnecting \/ Screen!UnknownError]_(Screen!vars)
  BY DEF Screen!Reads, ScreenInv, HeardInv, LoadInv, Staying
<1> QED BY <1>1, ScreenInvAlways, PTL DEF Screen!GameEventsAreHeard

=============================================================================
