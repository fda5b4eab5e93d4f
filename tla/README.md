# Verification of fr-belote

fr-belote is a networked game of belote: one process is the server of a table,
four clients sit at it, and the server can fill free seats with bots that connect
to it as clients do. This directory holds TLA+ models of the server's logic,
TLC runs over small instances of them, and theorems that TLAPS proves.

Paths below are relative to `src/`; `BeloteContext.cpp` stands for
`BeloteServer/src/BeloteContext.cpp`.

## 1. Inventory

The server and its bots run in one thread. Each turn of the loop, `Server::Update`
visits the slots one after the other (each reads at most one packet), then
`BeloteContext::Update` retries a start that waits for bots and lets each bot run.
Nothing is preempted: a handler is atomic. What is concurrent is the rest: requests
of clients in flight, positionings and questions on their way back, bots' timers.

| Component | Code | State | Operations | Interacts with |
|---|---|---|---|---|
| Game engine | `BeloteContext.cpp` | deck, stacks of the teams, hands, trick, dealer, player to act, asset, scores | start, proposals, deals, tricks, settlement | clients, through packets |
| Rules of the trick | `AskToPlay` and helpers, `TurnEnded`, `include/BeloteContextTypes.h` | none | playable cards, value and score of a card, winner | game engine |
| Settlement | `GameEnded`, `CheckMatchEnd` | totals, pending points | settle a round, end the match | game engine |
| Seats | `AddPlayer`, `DropPlayer`, `SetPlayerPos`, `UnseatPlayer`, `StartGame` | seats, unplaced players, bots required | place, move, unseat, drop, spawn bots | clients, bots |
| Bots | `IASocket.cpp` | own seat, hand, record of played cards, one timer | choose a seat, propose, play | are clients; timers |
| Server slots | `Server.cpp`, `ServerSocket.cpp` | sixteen slots, a state machine in each, count of clients | accept, name, broadcast, close | seats, game engine |
| Client connection | `ClientSocket.cpp` | state machine, payload of each action | connect, send, receive | server |
| State machine | `include/StateMachine.h` | current state, queue of events | notify, update | both connections |
| Timers | `TimerPool.cpp`, `include/Timer.h` | started timers | start, fire, delete | bots, clients |
| Game screen | `ScreenGame.lua` | last positioning, own position | what a person can ask for | client connection |
| Client queue | `BeloteClient/src/PlayerSocket.cpp` | queue of statuses | replay to the screen | client connection |
| Qt client | `CuteBelote/src/MainWindow.cpp`, dialogs, `BeloteApplication.cpp` | scene shown, last seat asked for, hand and revealed card on the scene, dialog or message box in front | host, join, leave, seat, start, answer | client connection, its own server |
| Client program | `BeloteClient/src/Game.cpp`, `ScreenMenu.lua` | the screen shown, the pending loads, the message of the menu | host, join, leave, quit | client queue, its own server |

What is hard, and what makes each part correct:

- **Game engine.** The deck of a round is what the two stacks of the round before
  held, so a card lost or doubled anywhere is lost or doubled for the rest of the
  match. Hands, counters of remaining cards and the count of played cards are kept
  separately; the last trick is recognised from one of them. The belote is detected
  when the first of its cards is played and completed when the second one is. All
  must agree whatever is dealt and played, and no question may be unanswerable.
- **Rules.** The values that order cards give the same 0 to a 7 and to a discard.
- **Settlement.** Won, lost, capot and litige interact with the belote; points of a
  litige wait over several rounds; the arithmetic is unsigned.
- **Seats.** Requests are made on what a client last saw and read later.
  A client must never have two places, nor keep one after it left, nor be left with
  an old picture of the table.
- **Bots.** They act on stale positionings and on a single timer.
- **Slots and connections.** Counting of clients, denied clients, lost connections,
  shutdown while a name is awaited, payloads overwritten before they are sent.
- **Questions and answers.** The server applies an answer to the player whose turn it
  is, whoever sent it. Only the clients keep the two together: each window is hidden by
  the click that answers, each timer is stopped when it fires.
- **Qt client.** The event loop runs the updates of the connection and of an own server between
  clicks, and dialogs stay open across them; what the window shows outlives the session and the match
  it belongs to.
- **Client program.** Clicks, loads of screens and changes of the session happen in
  different parts of one loop, with a queue of statuses between them.

`PROJECT.json` lists the components with what is modelled of each, and the hazards
with the line where each bites and the properties that watch it.

## 2. Modules

| Module | Stands for |
|---|---|
| `BeloteCards` | cards, their values and scores, seats, teams, seat arithmetic |
| `BeloteRules` | `AskToPlay`, its helpers, the winner and the score of a trick |
| `BeloteScoring` | `GameEnded` as a function of scores, contract, belote, totals and pending points |
| `BeloteGame` | the game engine: one action per handler; EXTENDS rules and scoring |
| `BeloteGameProperties` | properties of `BeloteGame`, and `BeloteMatch` instantiated from it |
| `MCBeloteGame` | small packs for TLC |
| `BeloteLaw` | the law of the game, stated without the server's numbers: a reference |
| `TrickTable` | every small hand against every trick, `BeloteRules` compared with `BeloteLaw` |
| `BeloteMatch` | abstract: a match as a sequence of settlements |
| `BeloteMatchHistory` | `BeloteMatch` with the last round remembered; properties of settlements |
| `SeatTable`, `MCSeatTable` | seats, with requests and positionings in flight, people and bots |
| `ServerSlots`, `MCServerSlots` | the server's loop over its slots, their state machines, the clients' ones, both directions of each socket, stop and restart |
| `TurnProtocol` | questions and answers of a match in flight: windows of persons, timers of bots, a second start |
| `BotStrategy`, `MCBotStrategy` | what a bot remembers of a round, and the card it answers with; EXTENDS `BeloteRules` |
| `ClientScreen` | the program of a person: main loop, two screens, state machine of the connection, queue of statuses |
| `QtWindow` | the Qt program of a person: window, dialogs, message boxes, connection, and the server as it meets it |
| `BeloteRulesProofs` | theorems about `BeloteRules`, `BeloteLaw` and what a set of cards is worth: constant operators, no behaviour |
| `BeloteGameProofs`, `BotStrategyProofs`, `SeatTableProofs`, `ServerSlotsProofs`, `TurnProtocolProofs` | theorems about the module each is named after; the first two cite `BeloteRulesProofs` |
| `LawProofs` | theorems about `TrickTable` (which cite `BeloteRulesProofs`) and `BeloteMatchHistory` |
| `ClientProofs` | theorems about `QtWindow`, and about `ClientScreen` as an instance |

The modules meet where the code does. `ServerSlots` gives a client to the table
(`AddPlayer`) and takes it away (`DropPlayer`): `SeatTable` begins there, with a client that
joins and one that leaves. `SeatTable` ends with four players told that the game starts:
`BeloteGame` and `TurnProtocol` begin there. `BeloteGame` has one question at a time;
`TurnProtocol` shows when that is so, and what happens when it is not. Its `WaitingPlay`
carries the cards `BeloteRules` computes, and `BotStrategy` shows that a bot answers it with
one of them. `ClientScreen` and `QtWindow` are the other end of one slot of `ServerSlots`, seen from the
screens of the two programs; `QtWindow` ends it in a table like that of `SeatTable` and the first
questions of `TurnProtocol`, with the other players as one.

A definition whose comment starts with "Mutated:" is a deliberately wrong variant of
the one that follows it. It takes no part in the model: `PROJECT.json` names it as a
mutant, and the property it is paired with must fail when it is put in its place.

### How `BeloteGame` corresponds to `BeloteContext`

Variables have the names of the members of `ContextData`. Four are added:
`request` is the question on its way to `m_CurrentPlayer` (`BCPT_AskRevealedAsset`,
`BCPT_AskAnotherAsset` or `BCPT_WaitingPlay` with its list of cards), `announced` the
belote and rebelote broadcast in the round, `matches` the number of starts,
`undefined` that an array was left. A handler runs until it asks the next question,
so an action goes from one question to the next, with all calls in between:

| Action | Code |
|---|---|
| `StartGame` | `StartGame` with four players seated, `PreTurn`, `DealFirstPart`, `AskForAsset` |
| `AcceptAsset` | `AcceptAsset`, `DealLastPart`, `StartTurn`, `AskToPlay` |
| `RefuseAsset` | `RefuseAsset`: ask the next player, begin the second turn of proposals, or give up the round and deal the same deck again (`NoAssetTaken`) |
| `CardPlayed` / `NextCard` | `CardPlayed`, belote checks, `AskToPlay` |
| `CardPlayed` / `NextTrick` | the same, `TurnEnded`, `StartTurn` |
| `CardPlayed` / `NextRound` | the same, `GameEnded`, `PreTurn` for the next dealer |
| `CardPlayed` / `MatchEnded` | the same, `GameEnded` that returns at the end of the match |
| `CardPlayed` / `NoSuchPlayer` | the same, `TurnEnded` that counts and stacks the trick for a winner that is no seat; the next question is read from a hand that does not exist, nothing follows (counter-clockwise only) |
| `CardPlayed` / `OutOfBounds` | `GameEnded`, `PreTurn`: the copy of the stacks runs past the end of the deck; nothing follows |

A hand is a set: the order of its strings is presentation (`OrderHands`). The cut of
the deck is a choice among all cuts, the shuffle a choice among the decks of
`Shuffles`. Stale members (remaining cards, the last trick, the asset of the round
before) keep their stale values, as in the code.

The module assumes that the four seats stay taken and that each question is answered
once with an answer it allows. The server checks neither: `TurnProtocol` and `BotStrategy`
are about the second, and the first is left out (section 5).

### How `SeatTable` corresponds to the code

`m_Players`, `m_UnplacedPlayers` and `m_RequiredBotsCount` are the members;
`toServer` and `toClient` are the two directions of each connection, in order, and
what is in them was sent and is not read. `seen` is the table a screen or a bot last
read, `mySeat` is `m_MySeat` of a bot and `myPosition` of the Lua screen. A person may
press only the buttons the screen enables: a seat that was last seen free, and the button that leaves a
seat (`unseatBtn`), which is shown or hidden only when a positioning is read, so it can still be pressed after a click
on another seat, or twice. `Receive` is one
call of `HandleGameContextPacket` (or the drop of a client that leaves), `Update` the
retry of the start, `BotReads` one `OnPositionningReceived`. A client joins when its
name has arrived; the connection itself is in `ServerSlots`.

### How `ServerSlots` corresponds to the code

A slot is a `ServerSocket`: `m_Socket` is its remote end, `m_CurrentState`, `m_StopFlag` and
`m_EventQueue` are its state machine, `m_ClientName` the payload kept in its broadcast actions.
`turn` is the index of the loop of `Server::Update` or of `Server::Stop` (`stopping`), `aborting` says
that `Stop` has asked the slot to disconnect and runs its last update.

| Action | Code |
|---|---|
| `BeginUpdate`, `CheckConnection`, `FreeSlot` | `Server::Update`: count from zero; a free slot accepts; a stopped machine closes its slot, which may accept at once |
| `HandleEvent` | one event of `StateMachine::Update`: `AcceptConnection`, `NotifyClientConnected`, a broadcast, `Disconnect`, or an event without transition, which is dropped |
| `UpdateState` | the state's own update, with at most one packet: `ReceiveName`, `ReceiveLeave` |
| `BeginStop`, `Abort`, `EndStop` | `Server::Stop`, `ServerSocketPrivate::Abort`, `CloseConnection`; `players' = {}` is `BeloteContext::Reset` |
| `Start` | `Server::Start` after a stop |
| `Connect`, `Hear`, `ClientDisconnects`, `Vanish` | the client: first update, one packet with the transitions it causes, the wish to leave, the end of its program |

`Local` clients are of the server's thread (the host and the bots): they do not act during a
loop. The others act between any two visits, and in a visit once the events are handled.

### How `TurnProtocol` corresponds to the code

`phase`, `m_CurrentDealer`, `m_CurrentPlayer`, `m_CurrentlyPlayedCards` and `m_RemainingCards`
are what decides who is asked what; who takes a trick and when a match ends are
choices. `HandleGameContextPacket(p)` reads one packet from the socket of `p` and, as the code,
does not look at `p` any further. `screen` holds the visibility of the windows of
`ScreenGame.lua` that ask and whether cards may be clicked; `m_IsStarted` and `m_TimeoutFunc` are
a bot's timer.

An answer may come out of phase once a match was started twice. A refusal touches neither hands nor deck, so
it is followed: in a trick, or after the match, the player on turn loses it, the next one is asked for another asset
(or the same deck is dealt again after a whole turn), and `phase` is `"astray"` until there is a new deal. An asset that is taken
when none is proposed deals past the end of the deck, and a card that is played when none is asked for meets
counters and hands of another deal: there `phase` becomes `"undefined"` and the server stops being modelled.

### How `BotStrategy` corresponds to the code

The variables of the bot are the members of `IASocket`; `OnTurnStarting` and `OnPlayedCard`
are its slots, `CardToPlay` is `OnWaitingPlay` with `GetBestOpener` and the rest of its helpers
as operators. The environment is the server of `BeloteRules` and three players who play any card
the bot has not seen. `m_PlayedCards` is the set of cards whose entry is not -1. A round begins
with what the round before left in `m_CurrentTurnCards`, which `OnCardsDealt` does not clear.

### How `ClientScreen` corresponds to the code

`step` is the place in the loop of `Game::Run`: events of the window, loads of screens,
`ClientSocket::Update`, statuses fired by `PlayerSocket::Update`. Each click is an action
(`ChooseMode`, `Connect`, `OnErrorOk`, `OnQuitTable`, `Quit`) with the conditions under which
its button can be pressed; each transition of the machine is one (`ToConnecting` and so on), with
`Push` for `OnConnectionStatusChanged`; `FireStatus` is a status with the handler of the screen that
is shown. The server is reduced to how far it is with this client. `m_Running` is the program's own
server: hosting stops one that still runs (`Server::Start`), leaving a table it hosts and quitting do too, joining
leaves it running, and the address typed may be its own. A stop while it waits for the name of this client
hangs the program (`StopWaits`), as `ServerSlots` shows.

### How `QtWindow` corresponds to the code

A handler of Qt is atomic, with one exception: a message box runs an event loop of its own. It is
`box`; while it is open the window and the timer are held (Qt does not fire a timer from its own
handler) but a server elsewhere goes on. A `dialog` holds the window alone. `OnUpdate` is one event
or the state's own update of `ClientSocket::Update`; `updating` says that the update is not over, and
that no click comes. Each slot of `MainWindow` is an operator with the name it has there:
`HandleGameContextPacket` is the packet read by `Idle`, the signal of `PlayerSocket` and the slot.
`AcceptDialog` is `accept` of either dialog with what it calls: the stop of an own server, a new
one, `Connect`, and the status the window gives itself. A `Card` of `mPlayerHand` is null, live or deleted. `match` says how far the
server is with the proposals: another is asked before this client has answered (`"others"`) or after it has (`"after"`),
this client is asked for the revealed card (`"mine"`), for another asset (`"another"`), or has refused that too
(`"last"`). When all have refused twice the cards are dealt again and the questions start over. Seats have a number,
cards have no name.

## 3. Runs

| Run | Instance | What it shows |
|---|---|---|
| `round` | 12 cards of 3 colours, hands of 3, every cut, every answer | one whole round: types; each card is in exactly one place (hands and rest of the deck while an asset is proposed; hands, trick and stacks while tricks are played); counters agree with hands; each question can be answered; scores equal the cards taken, belote and bonus; belote and rebelote by the one holder, in order; the master's player takes the trick and leads |
| `match` | 8 cards, hands of 2, matches of several rounds | the deck rebuilt from the stacks stays the pack; no array is left; `BeloteGame` implements `BeloteMatch`; every round ends |
| `trick` | 12 cards with 7, 9, queen and ace, hands of 1 and 2, any cards on the table | the cards offered are those the law allows (behind an unbeaten led 7 excepted); the trick goes to its master card |
| `settlement` | the real scores; rounds at and around every threshold | points are conserved; pending points are paid once and entirely; a failed contract never pays |
| `seats` | 2 seats, 2 people, 2 bots, 3 requests and 3 choices of bots | one place per client, only clients in session, last positioning sent is the current table, a place is lost only to a seated player who moves |
| `slots` | 3 clients, 2 of them of the server's thread; 2 slots, a table of 1, 2 starts | the players of the table are the clients in session; a connecting client finds its verdict and nothing else; what is announced is true although names are overwritten; players are told of the end of the server; a stop ends, and a leaver's slot is freed, unless the stop waits for a name its own thread should send |
| `bot` | 9 cards of 3 colours, hands of 2, with and without cards left from the round before | a bot answers with a card that was offered; it does not cut its partner's trick without need; its record of a round holds the cards of the tricks played, and only those but the ones left from the round before |
| `turns` | 2 persons, 2 bots, hands of 2, 3 starts | with one start, exactly one answer is due, from the player it will be applied to; with more, never more answers than starts and never none, refusals out of phase included; bots answer whatever they are asked, persons unless a second start hides the question |
| `screen` | 5 connections, 2 packets waiting | no event of the game is fired at the menu; a denial is told and its reason not replaced; screen and session do not stay apart |
| `window` | 2 seats, 2 connections, 3 clicks, 2 packets waiting | only the host's program asks for a start; a seated person has the button that leaves the seat, on the right seat; when the server waits for this person to answer the first question, about the revealed card, the buttons that answer are shown, with the card (the question of the second phase has no button: section 5) |
| `ccw_winner` | counter-clockwise | *violation*: the trick goes to the stack of the other team (South has won it, `4 - start - winner` is no seat and the stack of West-East gets the cards) |
| `rematch` | two matches | *violation*: the second match copies too many cards to the deck |

Bounds. A card game of 32 cards is out of reach, so packs are small, but the constants
of the deal (`FirstGive`, `FirstPart`, `HandSize`) keep its shape: two parts, a revealed
card, a taker who gets one less. The pack of `round` has king and queen of
each colour, three colours (asset, requested, other) and three tricks (first, middle,
last); that of `match` is the smallest with a belote and two tricks, so that stacks of
either team may be empty, half or whole at the rebuild. Points per round, contract and
capot are scaled to the packs: half of the points and one. `MaxMatches` bounds starts.
In `seats`, two seats make "full", "one free" and "move to another's seat" possible; two
bots can compete for one seat; three requests are needed for place, move and leave to
cross; a start that would spawn more bots than `Bots` has is left out; each bound was reached.
People are interchangeable and so are bots, and all
properties of that run are safety properties, so symmetry is sound.

In `slots` (257,851 states) three clients for two slots and a table of one place make a client
wait in the backlog, a denial, a slot used again, and two broadcasts queued at one slot;
two starts are a restart. Liveness is checked, so there is no symmetry. In `bot` (995,435 states)
diamonds are the asset, hearts an ordinary colour and clubs the colour the last-colour case
singles out; two cards in hand are a choice in the first trick and a last one with a record behind
it. The values are those that order differently at the asset. In `turns` (626,851 states) the
bots sit side by side and each has a person for a partner, two cards make a trick
that is not the last, three starts put two more answers in flight than the server waits for. In
`screen` (37,023 states) a connection that is denied, one left while it is made, one at the table,
and what they leave behind for the next ones fit in five. In `window` (1,014,746 states) a hand grows
from one card to two as it does from five to eight; two connections make the second meet what the first left
on the window; three clicks are a seat, a start and an answer, or two starts.

Deadlock is checked except in `seats`, `slots`, `turns`, `screen` and `window`: a table where
nobody asks anything any more, a server that has been stopped for the last time, a match that
is over or undefined, a window that is closed or hung do stop.

Fairness. Each is weak fairness of something that runs in a loop of the code or of a person.

- `BeloteGame`: `Answer`: an asked player answers. A bot answers through its timer; a person is
  assumed to. Nothing else is needed: the server acts inside the answer. With it,
  `RoundEnds` says that neither the proposals nor the tricks go round for ever.
- `ServerSlots`: `ServerUpdates`, the main loop of the server's program, and `Hear` of each client,
  the loop of its own. Nothing obliges a client to connect or leave, or the server to stop.
- `TurnProtocol`: the loops of server and clients read their sockets, a started timer fires, a person
  who is asked answers (the same assumption as above).
- `ClientScreen`: `Run`, the main loop of the program. What the server sends and what the person clicks
  is not obliged.

## 4. Proofs

| Theorem | Says |
|---|---|
| `BeloteRulesProofs!PlayableIsLaw` | the cards `AskToPlay` offers are the legal ones, for any hand, any asset and any trick of fewer than four different cards, except behind an unbeaten led 7 with three cards played |
| `BeloteRulesProofs!WinnerIsLaw` | `TurnEnded` finds the master card of any four different cards |
| `LawProofs!PlayableIsLegalAlways`, `WinnerIsMasterAlways` | `Spec => []PlayableIsLegal`, `[]WinnerIsMaster`: the same along every trick of `TrickTable`, with the same exception of the led 7 in the first |
| `BeloteGameProofs!GameInvariant`, `TypeCorrect` | the first inductive invariant of the game and its types, for every pack, size of hand, shuffle and direction |
| `BeloteGameProofs!CardsInvariant`, `DeckIsWholeAlways`, `CountersInStepAlways`, `RequestIsAnswerableAlways`, `BeloteFollowsHandsAlways` | where the cards are, and the four invariants that follow, in every match and both directions |
| `BeloteGameProofs!CardsConservedInFirstMatch` | `Spec => [](matches <= 1 => CardsConserved)`: each card once in the hands and the rest of the deck, or in the hands, the trick and the stacks |
| `BeloteGameProofs!NothingOutOfBoundsClockwise` | `Spec => [](PlayDir = CW /\ matches <= 1 => NothingOutOfBounds)` |
| `BeloteGameProofs!MasterTakesTrickClockwise` | with `PlayDir = CW`, `Spec => MasterTakesTrick`, the action property, in every match |
| `BeloteGameProofs!ScoresInvariant`, `AccountsBalanceInFirstMatch` | no point is lost or counted twice in any match; `Spec => [](matches <= 1 => AccountsBalance)` |
| `BeloteRulesProofs!RealPackPoints` | the thirty-two cards are worth 152, whatever the asset |
| `BeloteGameProofs!GameImplementsMatch`, `RealGameImplementsMatch` | `Spec => ImplementsMatch`, the refinement of `BeloteMatch`, in every match and both directions, for any pack that is worth `PointsSumScore` with the bonus of the last trick; the pack of the code is one |
| `BotStrategyProofs!AnswerIsOfferedAlways`, `PartnerIsNotCutAlways`, `RecordIsExactAlways` | the three invariants of `bot`, for every pack, size of hand, seat, asset and memory of the round before |
| `LawProofs!AccountsAreNatural` | totals and pending points are natural: the unsigned subtraction of `GameEnded` never wraps |
| `LawProofs!ConservedAlways`, `PendingAlways`, `FailureAlways` | the three properties of `settlement` for every proportion of scores that `ProportionAssumption` describes |
| `SeatTableProofs!TypeCorrect`, `OnePlaceAlways`, `OnlyPresentAlways`, `LastPositioningAlways` | `Spec => []TypeOK`, `[]OnePlace`, `[]OnlyPresentPlayers`, `[]LastPositioningIsCurrent`, for any seats, people, bots and bounds |
| `SeatTableProofs!LostOnlyToMoverAlways` | `Spec => LostOnlyToMover`, the action property, likewise |
| `ServerSlotsProofs!TypeCorrect`, `TableIsIdleAlways`, `VerdictFirstAlways`, `NewsAreTrueAlways` | `Spec => []TypeOK`, `[]TableIsIdle`, `[]VerdictFirst`, `[]NewsAreTrue`, for any clients, number of slots, size of the table and number of starts |
| `ServerSlotsProofs!ToldOfShutdownAlways` | `Spec => ToldOfShutdown`, the action property, likewise |
| `TurnProtocolProofs!OneAnswerIsDueAlways`, `AnswersPerStartAlways` | `Spec => []OneAnswerIsDue`, `[]AnswersPerStart`, for any bots, size of hand and number of starts |
| `ClientProofs!OnlyHostStartsAlways`, `SeatedCanLeaveAlways`, `QuestionIsShownAlways` | `Spec => []OnlyHostStarts`, `[]SeatedCanLeave`, `[]QuestionIsShown` (the question of the first phase) of `QtWindow`, for any seats, size of the hands, connections, clicks and packets |
| `ClientProofs!GameEventsAreHeardAlways` | `Screen!Spec => Screen!GameEventsAreHeard`, the action property of `ClientScreen`, for any number of connections and packets |

`BeloteRulesProofs`: the values of `CardDefToValue` order cards as the law does except where
two are worth 0. `EqualValues` says that this is the only case in which two different cards are worth
the same; `LedSeven` that all four can be worth 0 only behind a led 7, which is then the master.
`BestIsMaster` puts the two together, and both theorems follow from it. They need that no card is on the table
twice (`Trick`), which `TrickTable` keeps by itself and `BeloteGame` by `TrickInv`.

What a set of cards is worth is a sum in an order nobody chose, so nothing can be said of it
by induction over the cards. `PointsAreTokens` counts instead: give each card as many tokens as it is worth; the
sum is the number of tokens. One function defines the sum (a smallest set on which a second one would differ is a
contradiction), and the number of tokens is such a function. `PointsFacts` is then what is known of
cardinalities: disjoint sets add up. `TrickPoints` says that the score of a trick is the worth of its cards.

`BeloteGameProofs`, in four layers. `TypeOK` is not inductive, because what a handler computes
is of the right type only in the right phase: `GameInv` adds that questions are asked only in
a match, that cards are asked for only when a team has the contract, that the player to act
is a seat unless the run means nothing any more, and that the score of the owner of the
belote includes it. It holds counter-clockwise too, where `NoSuchPlayer` is a real
branch: `GetWinnerPosition` is only proved to be an integer there.
`CardsInv` is about the cards. A deal is a bijection from places of the deck to cards, so the hands are
apart and the rest of the deck follows (`AskingInv`, `PlayingInv`); the counters and the belote are
carried through each card by hand; a full trick moves four cards to one stack. In the first match,
when the four hands are empty the stacks hold the pack, so the rebuilt deck is whole; in a later one
`RebuildDeck` copies what it finds and `DeckInv` says that the copy is whole again. `TrickInv` says that
the cards of a trick are different and in no hand, in every match: with `WinnerIsLaw` it gives
`MasterTakesTrick`.
`ScoresInv` is about the accounts. While cards are played, the scores of both teams and the worth of the cards that are
open, in a hand or in the trick, make the worth of the pack and the belote (`SharedOut`); the end of a trick
takes its cards from the open ones and gives their worth to its winner (`TrickLeavesOpen`, `TurnShared`).
When the last trick ends nothing is open, so the scores are a whole round of `BeloteMatch` and the settlement
is its `RoundPlayed` (`RoundIsWhole`); every other step is a stutter or its `StartMatch`
(`AccountsStep`). The stacks are not used for this, so it holds in every match; what each team has is the worth of its
own stack only while the stacks hold one match (`Earned`, `Rewarded`). `PackAndBonus`, the
hypothesis of `GameImplementsMatch`, says that pack and bonus make `PointsSumScore`: `RealPackPoints` and
the ten of the last trick make the 162 of the code.

The other hypotheses of these theorems are the code's too. `matches <= 1`: `StartGame` does not empty
the stacks of a match that has ended, so from the second start on cards are on a stack and in a hand, and
the copy to the deck runs past its end; `rematch` shows it. `PlayDir = CW`: counter-clockwise the winner's
seat is computed wrong: the partner of the winner, so the wrong player leads, or no seat, so the
cards of South's trick are stacked for West-East; `ccw_winner` shows the second.

`BotStrategyProofs`: the bot's memory is tied to the server's table by the distance of a seat to
the next player (`Rank`): the seats at distance 4 - n and more have played the n cards, in that order
(`TableInv`). So the bot sees its partner's card exactly when there is one, and compares it with the same
cards as `PlayerMustCut`: behind a master partner it is offered its whole hand, of which
another colour is then a part (`ExcusedHand`). A bot that is asked has a card: `CountInv` counts four
cards gone for each it has played. The choices among cards are CHOOSEs of a largest or smallest one:
`Least` and `Greatest` say that there is one, from the well-foundedness of the naturals. `RecordInv` adds
to the record what is on the table of a trick that has ended.

`TurnProtocolProofs`: `OneAnswerIsDue` needs to know what every message in flight will do to
the screen that reads it. `Agrees` says it of each person: after reading what is queued the screen shows what
the phase of the server wants, and no question finds the windows of another one open. With one start no answer
is out of phase; with more, what is counted for `AnswersPerStart` holds whatever phase a refusal leads to. A kind of
message is counted in a queue (`Matches`); reading, answering and firing a timer each move one unit
of the count.

`ServerSlotsProofs`: `TableIsIdle` is not inductive for two reasons. A start and the end of a
stop empty the table, which is right only because every slot is closed then
(`ClosedBehind`: a stop has closed the slots it has visited; `RestIsClosed`: a server that does not
run has no connection). And a slot that answers a `DisconnectionRequest` leaves `Idle` without
dropping its player, which is right only during a stop (`NoRequest`, `AbortInVisit`). `Inv` is the
conjunction of these with the types; one lemma per action for the types, one for the rest. The
other three properties need what is queued at a slot and sent to its client besides.

`SeatTableProofs`: `OnePlace` is not inductive alone, since a client that joins must not
be at the table already: that is `OnlyPresentPlayers`, and the two need the types. The
invariant is the conjunction of the three. One lemma per kind of change of the table
(same, place, move, free), then one per action. `LastPositioningIsCurrent` is inductive
together with it: a change of the table is followed by a positioning to all that have a place
then, a client that joins is sent one, and reading moves the last one from the channel to
the screen. For `LostOnlyToMover`, each change of the table is shown to keep the places of the
other clients, or to be a move onto the seat of one of them.

`LawProofs`: a trick on the table of `TrickTable` has different cards (`TableInv`), so the theorems about the
rules apply at every step. The settlement is split into won, litige and lost rounds, with one
lemma for what each credits. `LitigeFacts` is the key: scores of a litige are equal and
below the contract, so with `2 * MinScoreToWin <= PointsSumScore + BeloteScore` no belote
was counted in them. Hence the subtraction of the belote (807-808) is never
executed in a litige.

`ClientProofs`, the window: none of the three invariants is inductive, for each speaks of a moment when
nothing is under way, and what is shown then depends on all that was. `WindowInv` has a part for
each kind of thing under way. `SessionInv`: a server that does not know the name of this client has no request of
it, and the name is the last event of the queue, in an update that goes on, so a session comes to the table with
nothing to say. `HostInv`: the mode of the game tells whose server it is as long as a session lives (a dialog that is
accepted later begins a new one), and the button, a click that waits and a request that was sent are all the host's.
`SeatInv`: unless a choice of a seat is on its way, the last positioning in the inbox is that of
the table as it is, and with none there the button is on the seat already (`SeatsAreTold`); the last choice in the
outbox is the seat the window remembers (`ChoiceInv`), so the seat the server gives is the one whose button is
put in place by the next positioning. `QuestionInv`: the scene, the card and the question are each shown or in the inbox,
unless an answer is pending; of the packets that show or hide the question the last one is the question.
What is read last is `Newest`, the last packet of some types as a set of at most one: appending replaces it,
reading changes it only when it is the packet that was read (`AppendPacket`, `TailPacket`). `TableSteps` cuts the
steps of a session at the table into a handful of kinds, and the last two parts are proved for the kinds.

`ClientProofs`, the program with two screens: a packet of the game is read in `Idle` only when the queue of events is
empty, so what must be known of `Idle` is that the game screen is shown, about to be loaded, or announced by
a status after which nothing was read (`HeardInv`). That a status announces it needs the queue of statuses to be empty
before: the guard of `OnConnectionStatusChanged` queues nothing behind another status than `CS_Connected`. `StatusInv`
says that what an earlier session has left there is fired before the verdict of the server is read, because the
server is asked in one update and read in a later one; `AnswerInv` that one verdict is read for each connection.

Assumptions are the named ASSUMEs of the modules that declare the constants; TLC
evaluates them in the runs. None is stronger than the code: a pack is made of the colours and values there
are, a deal gives each player the same number of cards in two parts, the asset of a round is one of the four
colours, `NoColour` and `NoCard` are none.

Only model-checked:

- Liveness (`RoundEnds`, `StopEnds`, `LeaverIsFreed`, `QuestionsAreAnswered`, `DenialIsTold`,
  `ScreenFollowsSession`) is out of the prover's reach. Every other property of a passing run is a theorem, three of
  them for the first match of a server, two for the clockwise direction (above).

## 5. What the code does that a reader may not expect

Each is modelled as it is; where a run finds a statement of the repository violated, it is
under "findings" in `PROJECT.json`. The others contradict no statement precise enough to check.

- Rules and scores: behind an unbeaten led 7 a discard of the partner excuses from cutting,
  both being worth 0 (`BeloteContext.cpp:607`); the capot counts the belote (784), and a tie
  reached with the belote is a won contract, not a litige (781, 799).
- Seats: a seated player who moves to a seat that has just been taken overwrites its player, who is not put
  among the unplaced; a bot at a full table reads the name of seat 4 (`IASocket.cpp:104`).
- Slots: `AcceptConnection` reads a count that is being recomputed, so a table can get more clients
  than it has places; a denied client keeps its slot in `WaitingName` until the server stops; a stop
  waits for ever for the name of a client of its own thread; two clients that leave in one update
  may be announced twice, both under the name of the last.
- Stop: `Reset` empties the pointers of the unplaced players and keeps the entries; only the sending of
  positionings looks at them.
- Chat: two texts typed between two updates are sent as twice the second one, and two that are broadcast
  between two visits of a slot are shown there as twice the second one.
- Qt client: a person who leaves a joined game is told that the connection was lost; after a refused
  request the button that leaves a seat may be on the seat of another; the two answer buttons stay
  from one match to the next until its card is revealed, and are not shown when the others
  must choose another asset, so the server waits; the cards of a hand that is followed by a smaller one
  are deleted twice.
- Questions: once a second start is on its way, an answer may be applied to another player or to
  another phase, and nothing checks it. A refusal read in a trick asks the next player for another asset in a
  window that `TurnStarting` has hidden: the server may then wait for nobody, so `AnswersPerStart` claims an answer
  on its way in proposals and tricks only.
- Bots: the minimum of the search for the cheapest card is never updated, so the last card that is
  cheaper than the first one is played; the last trick of a round is recorded
  in the next round; the strongest club is taken to own the turn without a look at the table.
- Client program: a `CS_Disconnected` that comes while the person leaves stays queued
  (`PlayerSocket.cpp:66`) and is told at the next connection; a person who connects again while the
  game screen is about to be loaded is told of an unknown error in a live session; closing the
  window may never send `ClientLeave`; a lost connection is not noticed in `Idle`; an unreachable
  host leaves the modal "wait" message for ever; quitting hangs while the own server waits for a name.

## 6. Not modelled, and the plan

Not modelled: a player who leaves or unseats during a match (the next notification dereferences
a null pointer, `BeloteContext.cpp:114`: there is no behaviour after it to describe); the
probabilities with which a bot proposes an asset (any answer is allowed); the names of bots; chat texts and system
messages; the failure of a connection that times out; periodic timers and deletion of a timer from
its own timeout function, which nothing uses; the quality of the shuffle (any deck of `Shuffles`
may come out of it). `QtWindow` follows a
match up to the asset: the window has no handler for what comes after it. Left out for good: drawing,
wording, sounds and the generated Lua binding.

Next, in this order:

1. The texts of the chat, with the one text an action keeps for all its events; the names of the bots
   (`FreeNames`), with the queue of names that can run empty.
2. `TurnProtocol` with seats given up during a match, up to the null pointer.
