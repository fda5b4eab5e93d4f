---------------------------- MODULE TurnProtocol ----------------------------
(***************************************************************************)
(* Questions and answers of a match in flight.  The server asks the player *)
(* whose turn it is and applies an answer to the player whose turn it is,  *)
(* whoever sent it: what keeps the two together is that the screens and    *)
(* the timers of the clients answer every question once.                   *)
(*                                                                         *)
(* Four clients are seated.  Each has a connection to the server (inbox    *)
(* and outbox, first in first out); a person answers on the game screen, a *)
(* bot from a timer.  Messages that change neither a window that asks nor  *)
(* a timer are left out, and so are the cards: a round is the number of    *)
(* cards each player holds.                                                *)
(***************************************************************************)
EXTENDS BeloteCards

CONSTANTS
    Bots,           \* the seats of the bots
    HandSize,       \* eight
    MaxStarts       \* bound: how many times the start button is clicked

ASSUME TurnAssumption == /\ Bots \subseteq Positions
                         /\ HandSize \in Nat \ {0} /\ MaxStarts \in Nat

VARIABLES
    \* the server
    phase,                  \* which answer it waits for
    m_CurrentDealer, m_CurrentPlayer,
    m_IsInFirstAnnouncePhase,
    m_CurrentlyPlayedCards, \* on the table
    m_RemainingCards,       \* of the players who have not played in this trick
    starts,                 \* matches started so far
    \* the connections
    inbox, outbox,
    \* the game screens of the persons, the timers of the bots
    screen,
    m_IsStarted, m_TimeoutFunc

serverVars == << phase, m_CurrentDealer, m_CurrentPlayer, m_IsInFirstAnnouncePhase,
                 m_CurrentlyPlayedCards, m_RemainingCards, starts >>
timerVars == << m_IsStarted, m_TimeoutFunc >>
vars == << serverVars, inbox, outbox, screen, timerVars >>

Persons == Positions \ Bots

Questions == {"AskRevealedAsset", "AskAnotherAsset", "WaitingPlay"}
Answers   == {"AcceptAsset", "RefuseAsset", "PlayCard"}

(* "astray": an asset was refused in a trick or after the match.            *)
(* "undefined": an answer was applied to cards it was not meant for.        *)
InMatch == phase \in {"proposal", "play"}

----------------------------------------------------------------------------
(* The server.                                                              *)

(* What everyone is sent, then the question of one player.  Only the        *)
(* questions make a difference to a bot.                                    *)
SendAndAsk(notes, pos, question) ==
    inbox' = [p \in Positions |->
                 inbox[p] \o (IF p \in Persons THEN notes ELSE << >>)
                          \o (IF p = pos THEN << question >> ELSE << >>)]

(* PreTurn and DealFirstPart, for a new dealer.                             *)
PreTurn(dealer, notes) ==
    /\ m_CurrentDealer' = dealer
    /\ m_CurrentPlayer' = GetNextPlayer(CW, dealer)
    /\ phase' = "proposal" /\ m_IsInFirstAnnouncePhase' = TRUE
    /\ SendAndAsk(notes \o << "Dealing", "CardsDealt" >>, GetNextPlayer(CW, dealer), "AskRevealedAsset")

(* All seats are taken: a match starts, whatever the state of the last one. *)
StartGame ==
    /\ starts' = starts + 1
    /\ PreTurn(South, << "GameStarting" >>)
    /\ UNCHANGED << m_CurrentlyPlayedCards, m_RemainingCards >>

(* AcceptAsset, DealLastPart and StartTurn.                                 *)
AcceptAsset ==
    LET first == GetNextPlayer(CW, m_CurrentDealer)
    IN  /\ phase' = "play"
        /\ m_CurrentPlayer' = first
        /\ m_CurrentlyPlayedCards' = 0
        /\ m_RemainingCards' = HandSize
        /\ SendAndAsk(<< "CardsDealt", "TurnStarting" >>, first, "WaitingPlay")
        /\ UNCHANGED << m_CurrentDealer, m_IsInFirstAnnouncePhase, starts >>

(* Nothing checks that an asset is proposed: in a trick and after the match *)
(* the player on turn loses it, and the next one is asked as in the last    *)
(* proposals.                                                               *)
RefuseAsset ==
    LET next == GetNextPlayer(CW, m_CurrentPlayer)
        wholeTurnDone == m_CurrentPlayer = m_CurrentDealer
    IN  /\ \/ /\ wholeTurnDone /\ ~m_IsInFirstAnnouncePhase
              /\ PreTurn(GetNextPlayer(CW, m_CurrentDealer), << >>)
           \/ /\ ~wholeTurnDone \/ m_IsInFirstAnnouncePhase
              /\ m_IsInFirstAnnouncePhase' = (m_IsInFirstAnnouncePhase /\ ~wholeTurnDone)
              /\ m_CurrentPlayer' = next
              /\ phase' = IF phase = "proposal" THEN "proposal" ELSE "astray"
              /\ SendAndAsk(<< >>, next, IF m_IsInFirstAnnouncePhase' THEN "AskRevealedAsset"
                                                                     ELSE "AskAnotherAsset")
              /\ UNCHANGED m_CurrentDealer
        /\ UNCHANGED << m_CurrentlyPlayedCards, m_RemainingCards, starts >>

(* The trick goes to one of the players; the last one settles the round and *)
(* may end the match.                                                       *)
TurnEnded ==
    /\ m_CurrentlyPlayedCards' = 0
    /\ m_RemainingCards' = m_RemainingCards - 1
    /\ \/ /\ m_RemainingCards > 1
          /\ \E winner \in Positions :
                /\ m_CurrentPlayer' = winner
                /\ SendAndAsk(<< "TurnStarting" >>, winner, "WaitingPlay")
          /\ UNCHANGED << phase, m_CurrentDealer, m_IsInFirstAnnouncePhase >>
       \/ /\ m_RemainingCards = 1
          /\ \/ PreTurn(GetNextPlayer(CW, m_CurrentDealer), << >>)
             \/ /\ phase' = "over"
                /\ m_CurrentPlayer' \in Positions
                /\ UNCHANGED << inbox, m_CurrentDealer, m_IsInFirstAnnouncePhase >>
    /\ UNCHANGED starts

TableIsFull == m_CurrentlyPlayedCards + 1 = 4

CardPlayed ==
    \/ TableIsFull /\ TurnEnded
    \/ /\ ~TableIsFull
       /\ m_CurrentlyPlayedCards' = m_CurrentlyPlayedCards + 1
       /\ m_CurrentPlayer' = GetNextPlayer(CW, m_CurrentPlayer)
       /\ SendAndAsk(<< >>, m_CurrentPlayer', "WaitingPlay")
       /\ UNCHANGED << phase, m_CurrentDealer, m_IsInFirstAnnouncePhase, m_RemainingCards, starts >>

(* Nothing checks the others either.  An asset taken when none is proposed  *)
(* deals past the end of the deck.  A card played when no card is asked for *)
(* is counted and asks for the next one, but the counters and hands it      *)
(* meets are those of another deal: what comes of it is not followed.       *)
OutOfPhase == /\ phase' = "undefined"
              /\ UNCHANGED << m_CurrentDealer, m_CurrentPlayer, m_IsInFirstAnnouncePhase,
                              m_CurrentlyPlayedCards, m_RemainingCards, starts, inbox >>

(* Before the first match nobody is asked and nothing is answered.          *)
Answered(answer) ==
    /\ phase # "setup"
    /\ \/ answer = "AcceptAsset" /\ phase = "proposal" /\ AcceptAsset
       \/ answer = "RefuseAsset" /\ RefuseAsset
       \/ answer = "PlayCard" /\ phase = "play" /\ CardPlayed
       \/ answer = "AcceptAsset" /\ phase # "proposal" /\ OutOfPhase
       \/ answer = "PlayCard" /\ phase # "play" /\ OutOfPhase

(* The packet is read from the socket of p, and p is not looked at.         *)
HandleGameContextPacket(p) ==
    /\ phase # "undefined" /\ outbox[p] # << >>
    /\ outbox' = [outbox EXCEPT ![p] = Tail(@)]
    /\ \/ Head(outbox[p]) = "StartGameRequest" /\ StartGame
       \/ Head(outbox[p]) \in Answers /\ Answered(Head(outbox[p]))
    /\ UNCHANGED << screen, timerVars >>

----------------------------------------------------------------------------
(* The client of a person: which windows of the game screen are visible and *)
(* whether cards of the hand may be clicked.                                *)
NewScreen == [Setup |-> TRUE, AssetProposal |-> TRUE, FirstTurn |-> FALSE,
              SecondTurn |-> FALSE, Playable |-> FALSE]

(* The handler of a message.                                                *)
OnMessage(scr, msg) ==
    CASE msg = "GameStarting"     -> [scr EXCEPT !.Setup = FALSE]
      [] msg = "Dealing"          -> [scr EXCEPT !.AssetProposal = TRUE, !.FirstTurn = FALSE,
                                                 !.SecondTurn = FALSE]
      [] msg = "CardsDealt"       -> [scr EXCEPT !.Playable = FALSE]
      [] msg = "AskRevealedAsset" -> [scr EXCEPT !.FirstTurn = TRUE]
      [] msg = "AskAnotherAsset"  -> [scr EXCEPT !.SecondTurn = TRUE]
      [] msg = "TurnStarting"     -> [scr EXCEPT !.AssetProposal = FALSE]
      [] msg = "WaitingPlay"      -> [scr EXCEPT !.Playable = TRUE]

(* A window is seen when its parent is.                                     *)
AssetIsAsked(p) == screen[p].AssetProposal /\ (screen[p].FirstTurn \/ screen[p].SecondTurn)

Asks(p) == AssetIsAsked(p) \/ screen[p].Playable

PersonHears(p) ==
    /\ p \in Persons /\ inbox[p] # << >>
    /\ inbox' = [inbox EXCEPT ![p] = Tail(@)]
    /\ screen' = [screen EXCEPT ![p] = OnMessage(@, Head(inbox[p]))]
    /\ UNCHANGED << serverVars, outbox, timerVars >>

Send(p, request) == outbox' = [outbox EXCEPT ![p] = Append(@, request)]

Requested == starts + Cardinality({pi \in Positions \X (1 .. MaxStarts + 1) :
                 pi[2] <= Len(outbox[pi[1]]) /\ outbox[pi[1]][pi[2]] = "StartGameRequest"})

(* The button stays until GameStarting hides it.                            *)
OnStartGameBtn(p) ==
    /\ p \in Persons /\ screen[p].Setup /\ Requested < MaxStarts
    /\ Send(p, "StartGameRequest")
    /\ UNCHANGED << serverVars, inbox, screen, timerVars >>

(* Mutated: a click leaves the window of the proposal as it is.             *)
HideNoTurn(p) == UNCHANGED screen

HideTurns(p) == screen' = [screen EXCEPT ![p].FirstTurn = FALSE, ![p].SecondTurn = FALSE]

OnAssetAnswer(p) ==
    /\ p \in Persons /\ AssetIsAsked(p)
    /\ \/ Send(p, "AcceptAsset")
       \/ Send(p, "RefuseAsset")
    /\ HideTurns(p)
    /\ UNCHANGED << serverVars, inbox, timerVars >>

(* Mutated: the other cards stay playable until the next question.          *)
ResetNoPlayableCards(p) == UNCHANGED screen

ResetPlayableCards(p) == screen' = [screen EXCEPT ![p].Playable = FALSE]

OnCardSelected(p) ==
    /\ p \in Persons /\ screen[p].Playable
    /\ Send(p, "PlayCard")
    /\ ResetPlayableCards(p)
    /\ UNCHANGED << serverVars, inbox, timerVars >>

----------------------------------------------------------------------------
(* The client of a bot.                                                     *)

(* How a bot may answer; the probability of an asset depends on its cards.  *)
Reactions(question) ==
    IF question = "WaitingPlay" THEN {"PlayCard"} ELSE {"AcceptAsset", "RefuseAsset"}

(* Mutated: the timer is set up and not started.                            *)
ArmTimer(p, reaction) ==
    /\ m_TimeoutFunc' = [m_TimeoutFunc EXCEPT ![p] = reaction]
    /\ UNCHANGED m_IsStarted

(* One timer per bot: another question before it fires replaces the answer. *)
DelayReaction(p, reaction) ==
    /\ m_TimeoutFunc' = [m_TimeoutFunc EXCEPT ![p] = reaction]
    /\ m_IsStarted' = [m_IsStarted EXCEPT ![p] = TRUE]

BotHears(p) ==
    /\ p \in Bots /\ inbox[p] # << >>
    /\ inbox' = [inbox EXCEPT ![p] = Tail(@)]
    /\ \E reaction \in Reactions(Head(inbox[p])) : DelayReaction(p, reaction)
    /\ UNCHANGED << serverVars, outbox, screen >>

(* The timeout function is called, then the timer is stopped.               *)
StopOneShot(p) == m_IsStarted' = [m_IsStarted EXCEPT ![p] = FALSE]

TimerUpdate(p) ==
    /\ p \in Bots /\ m_IsStarted[p]
    /\ Send(p, m_TimeoutFunc[p])
    /\ StopOneShot(p)
    /\ UNCHANGED << serverVars, inbox, screen, m_TimeoutFunc >>

----------------------------------------------------------------------------
(* The four are seated and no match has been played.                        *)
Init == /\ phase = "setup" /\ m_IsInFirstAnnouncePhase = TRUE /\ starts = 0
        /\ m_CurrentDealer = South /\ m_CurrentPlayer = South
        /\ m_CurrentlyPlayedCards = 0 /\ m_RemainingCards = 0
        /\ inbox = [p \in Positions |-> << >>] /\ outbox = [p \in Positions |-> << >>]
        /\ screen = [p \in Persons |-> NewScreen]
        /\ m_IsStarted = [p \in Bots |-> FALSE]
        /\ m_TimeoutFunc = [p \in Bots |-> "RefuseAsset"]

Next == \E p \in Positions :
           \/ HandleGameContextPacket(p)
           \/ PersonHears(p) \/ OnStartGameBtn(p) \/ OnAssetAnswer(p) \/ OnCardSelected(p)
           \/ BotHears(p) \/ TimerUpdate(p)

Spec == Init /\ [][Next]_vars

(* The loops of the server and of the clients go on and read their sockets, *)
(* a started timer ends; a person who is asked answers some day.            *)
Fairness == \A p \in Positions :
               /\ WF_vars(HandleGameContextPacket(p))
               /\ WF_vars(PersonHears(p)) /\ WF_vars(BotHears(p))
               /\ WF_vars(TimerUpdate(p))
               /\ WF_vars(OnAssetAnswer(p) \/ OnCardSelected(p))

FairSpec == Spec /\ Fairness

----------------------------------------------------------------------------
(* Where an answer of p may still come from: questions it has not read, the *)
(* windows that ask, the timer, answers the server has not read.            *)
Unread(p)     == {i \in DOMAIN inbox[p] : inbox[p][i] \in Questions}
Unapplied(p)  == {i \in DOMAIN outbox[p] : outbox[p][i] \in Answers}
AskedNow(p)   == IF p \in Bots THEN m_IsStarted[p] ELSE Asks(p)
Due(p)        == Cardinality(Unread(p)) + Cardinality(Unapplied(p)) + (IF AskedNow(p) THEN 1 ELSE 0)
AllDue        == Due(South) + Due(West) + Due(North) + Due(East)

(* As long as the button has started one match only, the answer the server  *)
(* waits for is the only one that is on its way anywhere, and it comes from *)
(* the player it will be applied to: the server does not look at the sender.*)
OneAnswerIsDue ==
    (starts = 1 /\ InMatch) => AllDue = 1 /\ Due(m_CurrentPlayer) = 1

(* The match never waits for nobody; a second start leaves the answer of    *)
(* the first match on its way, and no more of them than matches started.    *)
AnswersPerStart == /\ InMatch => AllDue >= 1
                   /\ AllDue <= starts

(* A bot answers whatever it is asked, and a person too unless a second     *)
(* match is started before: that one may hide the question.                 *)
QuestionsAreAnswered ==
    /\ \A p \in Bots : Unread(p) # {} ~> Unapplied(p) # {}
    /\ \A p \in Persons : (Unread(p) # {} /\ starts = 1) ~> (Unapplied(p) # {} \/ starts > 1)
==============================================================================
