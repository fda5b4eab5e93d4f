----------------------------- MODULE BeloteGame -----------------------------
(***************************************************************************)
(* The game as the server's BeloteContext runs it: a match is a sequence   *)
(* of rounds; a round is a deal, at most two turns of asset proposals, a   *)
(* second deal, tricks of four cards, and a settlement.                    *)
(*                                                                         *)
(* The four seats are taken and stay taken, and a player answers each      *)
(* request of the server once, with an answer the request allows.  The     *)
(* server checks neither; what follows when seats or answers do not behave *)
(* is the business of other modules.                                       *)
(*                                                                         *)
(* A hand is the set of the non-empty strings of m_PlayersHand (OrderHands *)
(* and std::remove keep them in front); m_PlayedCards is the sequence of   *)
(* its first m_CurrentlyPlayedCards entries.  m_CurrentDeckPos is not      *)
(* kept: the first deal leaves it after the revealed card, and the second  *)
(* one starts there.                                                       *)
(***************************************************************************)
EXTENDS BeloteRules, BeloteScoring

CONSTANTS
    FirstGive,      \* cards given at once in the first turn of the deal (3)
    FirstPart,      \* cards in a hand before the asset is chosen (5)
    HandSize,       \* cards in a hand after the second deal (8)
    PlayDir,        \* rule set: m_PlayDir
    WinningScore,   \* rule set: m_WinningScore
    Shuffles,       \* the decks ShuffleDeck may leave
    MaxMatches      \* bound: the matches started in the life of the server

DeckSize == 4 * HandSize

ASSUME DealAssumption == /\ FirstGive \in Nat /\ FirstPart \in Nat /\ HandSize \in Nat
                         /\ FirstGive <= FirstPart /\ FirstPart < HandSize

ASSUME RuleSetAssumption == /\ PlayDir \in PlayDirections
                            /\ WinningScore \in Nat
                            /\ MaxMatches \in Nat

(* Who refuses the revealed colour has another one to name.                 *)
ASSUME ColoursAssumption == \E one, other \in Colours : one # other

(* A shuffled deck holds every card of the pack once.                       *)
ASSUME ShuffleAssumption ==
    \A deck \in Shuffles : /\ deck \in [1 .. DeckSize -> Pack]
                           /\ \A c \in Pack : \E i \in 1 .. DeckSize : deck[i] = c
                           /\ \A i, j \in 1 .. DeckSize : deck[i] = deck[j] => i = j

VARIABLES
    m_Deck, m_TeamPlayedCards,          \* the deck, the cards each team has taken
    m_CurrentDealer, m_CurrentPlayer,
    m_PlayersHand, m_RemainingCards,
    m_IsInFirstAnnouncePhase, m_CurrentAsset,
    m_TeamAcceptingContract, m_TeamOwningBelote,
    m_PlayedCards,
    m_Scores, m_TotalScores, m_LitigeScorePending,
    request,        \* what the server waits for from m_CurrentPlayer
    announced,      \* the belote and rebelote broadcast in this round
    matches,        \* how many matches were started
    undefined       \* the server has read or written outside an array

deckVars  == << m_Deck, m_TeamPlayedCards >>
seatVars  == << m_CurrentDealer, m_CurrentPlayer >>
handVars  == << m_PlayersHand, m_RemainingCards >>
assetVars == << m_IsInFirstAnnouncePhase, m_CurrentAsset, m_TeamAcceptingContract >>
scoreVars == << m_Scores, m_TotalScores, m_LitigeScorePending, m_TeamOwningBelote >>
vars == << deckVars, seatVars, handVars, assetVars, scoreVars,
           m_PlayedCards, request, announced, matches, undefined >>

NoColour == ""
NoScore == [team \in Teams |-> 0]

NoRequest == [what |-> "nothing", cards |-> {}]
AskRevealedAsset == [what |-> "AskRevealedAsset", cards |-> {}]
AskAnotherAsset  == [what |-> "AskAnotherAsset", cards |-> {}]
WaitingPlay(cards) == [what |-> "WaitingPlay", cards |-> cards]

NextAfter(pos) == GetNextPlayer(PlayDir, pos)

----------------------------------------------------------------------------
(* Dealing.                                                                 *)

(* Mutated: the cards moved behind are taken one place too far.             *)
CutDeckLate(deck, cutPos) ==
    [i \in 1 .. DeckSize |-> IF i + cutPos <= DeckSize THEN deck[i + cutPos]
                                                       ELSE deck[i + cutPos - DeckSize + 1]]

(* The deck once its first cutPos cards are moved behind the others.        *)
CutDeck(deck, cutPos) ==
    [i \in 1 .. DeckSize |-> IF i + cutPos <= DeckSize THEN deck[i + cutPos]
                                                       ELSE deck[i + cutPos - DeckSize]]

Interval(from, count) == from + 1 .. from + count

(* The deck positions the first deal gives to the player of a rank.         *)
FirstShare(rank) ==
    Interval(rank * FirstGive, FirstGive)
      \cup Interval(4 * FirstGive + rank * (FirstPart - FirstGive), FirstPart - FirstGive)

RevealedPos == 4 * FirstPart + 1

PotentialAsset == m_Deck[RevealedPos]

(* Mutated: the taker is dealt a full share, and not the revealed card.     *)
LastShareFull(rank, taker) ==
    LET full == HandSize - FirstPart
        from == RevealedPos + rank * full
    IN  IF rank <= taker THEN Interval(from, full) ELSE Interval(from - 1, full)

(* The deck positions the second deal gives to the player of a rank when    *)
(* the player of rank taker has taken: the taker gets one card less, and    *)
(* the revealed card.                                                       *)
LastShare(rank, taker) ==
    LET full == HandSize - FirstPart
        from == RevealedPos + rank * full
    IN  CASE rank < taker -> Interval(from, full)
          [] rank = taker -> Interval(from, full - 1) \cup {RevealedPos}
          [] rank > taker -> Interval(from - 1, full)

CardsAt(deck, places) == {deck[i] : i \in places}

----------------------------------------------------------------------------
(* The requests, as sent to the player who is next to act.                  *)
AskForAsset(firstPhase) ==
    request' = IF firstPhase THEN AskRevealedAsset ELSE AskAnotherAsset

AskToPlay(player, hand, asset, trick) ==
    request' = WaitingPlay(Playable(hand[player], asset, trick))

(* PreTurn, with DealFirstPart and AskForAsset.  m_RemainingCards and       *)
(* m_PlayedCards still hold what the last round left in them.               *)
PreTurn(dealer, deck) ==
    LET first == NextAfter(dealer)
    IN  /\ m_CurrentDealer' = dealer
        /\ m_CurrentPlayer' = first
        /\ m_Scores' = NoScore
        /\ m_TeamOwningBelote' = NoTeam
        /\ announced' = << >>
        /\ \E cutPos \in 1 .. DeckSize - 1 :
              /\ m_Deck' = CutDeck(deck, cutPos)
              /\ m_PlayersHand' = [p \in Positions |->
                    CardsAt(m_Deck', FirstShare(DealingRank(PlayDir, first, p)))]
        /\ m_IsInFirstAnnouncePhase' = TRUE
        /\ AskForAsset(TRUE)

(* Nothing the server reads has been written yet.                           *)
Init == /\ m_Deck = << >>
        /\ m_TeamPlayedCards = [team \in Teams |-> << >>]
        /\ m_CurrentDealer = South
        /\ m_CurrentPlayer = South
        /\ m_PlayersHand = [p \in Positions |-> {}]
        /\ m_RemainingCards = [p \in Positions |-> 0]
        /\ m_IsInFirstAnnouncePhase = FALSE
        /\ m_CurrentAsset = NoColour
        /\ m_TeamAcceptingContract = NoTeam
        /\ m_TeamOwningBelote = NoTeam
        /\ m_PlayedCards = << >>
        /\ m_Scores = NoScore
        /\ m_TotalScores = NoScore
        /\ m_LitigeScorePending = 0
        /\ request = NoRequest
        /\ announced = << >>
        /\ matches = 0
        /\ undefined = FALSE

(* The start request of a seated player, before the first match or after a  *)
(* match has ended.  What the teams have taken is not thrown away.          *)
StartGame ==
    /\ ~undefined
    /\ request = NoRequest
    /\ matches < MaxMatches
    /\ matches' = matches + 1
    /\ m_TotalScores' = NoScore
    /\ m_LitigeScorePending' = 0
    /\ \E deck \in Shuffles : PreTurn(South, deck)
    /\ UNCHANGED << m_TeamPlayedCards, m_RemainingCards, m_PlayedCards,
                    m_CurrentAsset, m_TeamAcceptingContract, undefined >>

----------------------------------------------------------------------------
(* The asset proposals.                                                     *)

(* The colours a player may answer with.                                    *)
Proposable ==
    CASE request = AskRevealedAsset -> {PotentialAsset.colour}
      [] request = AskAnotherAsset  -> Colours \ {PotentialAsset.colour}
      [] OTHER                      -> {}

(* AcceptAsset, with DealLastPart, StartTurn and AskToPlay.                 *)
AcceptAsset(colour) ==
    LET first == NextAfter(m_CurrentDealer)
        taker == DealingRank(PlayDir, first, m_CurrentPlayer)
    IN  /\ ~undefined
        /\ colour \in Proposable
        /\ m_CurrentAsset' = colour
        /\ m_TeamAcceptingContract' = Team(m_CurrentPlayer)
        /\ m_CurrentPlayer' = first
        /\ m_PlayersHand' = [p \in Positions |-> m_PlayersHand[p] \cup
                CardsAt(m_Deck, LastShare(DealingRank(PlayDir, first, p), taker))]
        /\ m_RemainingCards' = [p \in Positions |-> HandSize]
        /\ m_PlayedCards' = << >>
        /\ AskToPlay(first, m_PlayersHand', colour, << >>)
        /\ UNCHANGED << deckVars, scoreVars, m_CurrentDealer, m_IsInFirstAnnouncePhase,
                        announced, matches, undefined >>

(* Mutated: the first turn of proposals never ends.                         *)
PhaseForEver == m_IsInFirstAnnouncePhase

PhaseAfter == m_IsInFirstAnnouncePhase /\ m_CurrentPlayer # m_CurrentDealer

(* The part of RefuseAsset that asks the next player.                       *)
AskNextPlayer ==
    /\ m_CurrentPlayer = m_CurrentDealer => m_IsInFirstAnnouncePhase
    /\ m_IsInFirstAnnouncePhase' = PhaseAfter
    /\ m_CurrentPlayer' = NextAfter(m_CurrentPlayer)
    /\ AskForAsset(m_IsInFirstAnnouncePhase')
    /\ UNCHANGED << m_Deck, m_CurrentDealer, m_PlayersHand, m_Scores, m_TeamOwningBelote,
                    announced >>

(* The part of RefuseAsset that gives up the round: nobody has taken.       *)
NoAssetTaken ==
    /\ m_CurrentPlayer = m_CurrentDealer
    /\ ~m_IsInFirstAnnouncePhase
    /\ PreTurn(NextAfter(m_CurrentDealer), m_Deck)

RefuseAsset ==
    /\ ~undefined
    /\ request \in {AskRevealedAsset, AskAnotherAsset}
    /\ AskNextPlayer \/ NoAssetTaken
    /\ UNCHANGED << m_TeamPlayedCards, m_RemainingCards, m_CurrentAsset, m_PlayedCards,
                    m_TeamAcceptingContract, m_TotalScores, m_LitigeScorePending,
                    matches, undefined >>

----------------------------------------------------------------------------
(* Playing a card.                                                          *)

(* The other card of the belote.                                            *)
SecondPart(card) ==
    [colour |-> card.colour, value |-> IF card.value = "Q" THEN "K" ELSE "Q"]

IsBelotePart(card) == card.colour = m_CurrentAsset /\ card.value \in {"Q", "K"}

(* Mutated: one card of the belote is enough.                               *)
CheckForOnePart(card) == IsBelotePart(card) /\ m_TeamOwningBelote = NoTeam

CheckForBelote(card) == /\ IsBelotePart(card)
                        /\ m_TeamOwningBelote = NoTeam
                        /\ SecondPart(card) \in m_PlayersHand[m_CurrentPlayer]

CheckForRebelote(card) == /\ IsBelotePart(card)
                          /\ m_TeamOwningBelote = Team(m_CurrentPlayer)

(* Mutated: the seat of the owner is kept, not its team.                    *)
OwnerSeatAfter(card) == IF CheckForBelote(card) THEN m_CurrentPlayer ELSE m_TeamOwningBelote

OwnerAfter(card) ==
    IF CheckForBelote(card) THEN Team(m_CurrentPlayer) ELSE m_TeamOwningBelote

AnnouncedAfter(card) ==
    CASE CheckForBelote(card) ->
            Append(announced, [event |-> "Belote", by |-> m_CurrentPlayer])
      [] CheckForRebelote(card) /\ ~CheckForBelote(card) ->
            Append(announced, [event |-> "Rebelote", by |-> m_CurrentPlayer])
      [] OTHER -> announced

(* Mutated: the belote is counted with each of its cards.                   *)
ScoresAfterBoth(card) ==
    IF CheckForBelote(card) \/ CheckForRebelote(card)
    THEN [m_Scores EXCEPT ![Team(m_CurrentPlayer)] = @ + BeloteScore]
    ELSE m_Scores

ScoresAfter(card) ==
    IF CheckForBelote(card)
    THEN [m_Scores EXCEPT ![Team(m_CurrentPlayer)] = @ + BeloteScore]
    ELSE m_Scores

HandsAfter(card) == [m_PlayersHand EXCEPT ![m_CurrentPlayer] = @ \ {card}]

(* Mutated: counted for the player who comes next.                          *)
RemainingAfterNext == [m_RemainingCards EXCEPT ![NextAfter(m_CurrentPlayer)] = @ - 1]

RemainingAfter == [m_RemainingCards EXCEPT ![m_CurrentPlayer] = @ - 1]

TrickAfter(card) == Append(m_PlayedCards, card)

(* CardPlayed when the trick goes on.                                       *)
NextCard(card) ==
    /\ Len(TrickAfter(card)) < 4
    /\ m_TeamOwningBelote' = OwnerAfter(card)
    /\ announced' = AnnouncedAfter(card)
    /\ m_Scores' = ScoresAfter(card)
    /\ m_PlayersHand' = HandsAfter(card)
    /\ m_RemainingCards' = RemainingAfter
    /\ m_PlayedCards' = TrickAfter(card)
    /\ m_CurrentPlayer' = NextAfter(m_CurrentPlayer)
    /\ AskToPlay(m_CurrentPlayer', m_PlayersHand', m_CurrentAsset, m_PlayedCards')
    /\ UNCHANGED << deckVars, assetVars, m_CurrentDealer, m_TotalScores,
                    m_LitigeScorePending, undefined >>

(* TurnEnded and ComputeAndReportTurnScore.                                 *)
TrickWinner(card) ==
    GetWinnerPosition(PlayDir, m_CurrentPlayer, WinnerIndex(m_CurrentAsset, TrickAfter(card)))

IsLastTrick == RemainingAfter[South] = 0

(* Mutated: no bonus for the last trick.                                    *)
TurnScoresNoBonus(card) ==
    [ScoresAfter(card) EXCEPT ![Team(TrickWinner(card))] =
        @ + TrickScore(m_CurrentAsset, TrickAfter(card))]

TurnScores(card) ==
    [ScoresAfter(card) EXCEPT ![Team(TrickWinner(card))] =
        @ + TrickScore(m_CurrentAsset, TrickAfter(card))
          + IF IsLastTrick THEN LastTurnScore ELSE 0]

StacksAfter(card) ==
    [m_TeamPlayedCards EXCEPT ![Team(TrickWinner(card))] = @ \o TrickAfter(card)]

(* CardPlayed when it ends a trick that is not the last one, with StartTurn. *)
NextTrick(card) ==
    /\ Len(TrickAfter(card)) = 4
    /\ ~IsLastTrick
    /\ TrickWinner(card) \in Positions
    /\ m_TeamOwningBelote' = OwnerAfter(card)
    /\ announced' = AnnouncedAfter(card)
    /\ m_Scores' = TurnScores(card)
    /\ m_TeamPlayedCards' = StacksAfter(card)
    /\ m_PlayersHand' = HandsAfter(card)
    /\ m_RemainingCards' = RemainingAfter
    /\ m_PlayedCards' = << >>
    /\ m_CurrentPlayer' = TrickWinner(card)
    /\ AskToPlay(m_CurrentPlayer', m_PlayersHand', m_CurrentAsset, << >>)
    /\ UNCHANGED << m_Deck, assetVars, m_CurrentDealer, m_TotalScores,
                    m_LitigeScorePending, undefined >>

(* GameEnded.                                                               *)
Settlement(card) ==
    Settle(TurnScores(card), m_TeamAcceptingContract, OwnerAfter(card),
           m_TotalScores, m_LitigeScorePending)

(* The last trick of the last round of the match.                           *)
MatchEnded(card) ==
    /\ Len(TrickAfter(card)) = 4
    /\ IsLastTrick
    /\ CheckMatchEnd(Settlement(card).totals, WinningScore)
    /\ m_TotalScores' = Settlement(card).totals
    /\ m_LitigeScorePending' = Settlement(card).pending
    /\ m_TeamOwningBelote' = OwnerAfter(card)
    /\ announced' = AnnouncedAfter(card)
    /\ m_Scores' = TurnScores(card)
    /\ m_TeamPlayedCards' = StacksAfter(card)
    /\ m_PlayersHand' = HandsAfter(card)
    /\ m_RemainingCards' = RemainingAfter
    /\ m_PlayedCards' = TrickAfter(card)
    /\ m_CurrentPlayer' = TrickWinner(card)
    /\ request' = NoRequest
    /\ UNCHANGED << m_Deck, assetVars, m_CurrentDealer, undefined >>

(* Mutated: what West-East has taken is not copied.                         *)
GatheredNorthSouth(card) == StacksAfter(card)[NorthSouth]

(* What the teams have taken, copied back over the deck.                    *)
Gathered(card) == StacksAfter(card)[NorthSouth] \o StacksAfter(card)[WestEast]

GatheredDeck(card) ==
    [i \in 1 .. DeckSize |-> IF i <= Len(Gathered(card)) THEN Gathered(card)[i] ELSE m_Deck[i]]

(* Mutated: what the teams have taken stays.                                *)
StacksKept == m_TeamPlayedCards

StacksAfterRound == [team \in Teams |-> << >>]

(* The last trick of a round that does not end the match: GameEnded, then   *)
(* PreTurn for the next dealer.                                             *)
NextRound(card) ==
    /\ Len(TrickAfter(card)) = 4
    /\ IsLastTrick
    /\ ~CheckMatchEnd(Settlement(card).totals, WinningScore)
    /\ Len(Gathered(card)) <= DeckSize
    /\ m_TotalScores' = Settlement(card).totals
    /\ m_LitigeScorePending' = Settlement(card).pending
    /\ m_TeamPlayedCards' = StacksAfterRound
    /\ m_RemainingCards' = RemainingAfter
    /\ m_PlayedCards' = TrickAfter(card)
    /\ PreTurn(NextAfter(m_CurrentDealer), GatheredDeck(card))
    /\ UNCHANGED << m_CurrentAsset, m_TeamAcceptingContract, undefined >>

(* CardPlayed when the winner is none of the positions: the trick is counted *)
(* and stacked for West-East (neither South nor North has won), then the    *)
(* next request is to be computed from a hand that does not exist.          *)
NoSuchPlayer(card) ==
    /\ Len(TrickAfter(card)) = 4
    /\ ~IsLastTrick
    /\ TrickWinner(card) \notin Positions
    /\ m_TeamOwningBelote' = OwnerAfter(card)
    /\ announced' = AnnouncedAfter(card)
    /\ m_Scores' = TurnScores(card)
    /\ m_TeamPlayedCards' = StacksAfter(card)
    /\ m_PlayersHand' = HandsAfter(card)
    /\ m_RemainingCards' = RemainingAfter
    /\ m_PlayedCards' = << >>
    /\ m_CurrentPlayer' = TrickWinner(card)
    /\ undefined' = TRUE
    /\ UNCHANGED << m_Deck, assetVars, m_CurrentDealer, m_TotalScores, m_LitigeScorePending,
                    request >>

(* More cards are copied to the deck than it has places.                    *)
OutOfBounds(card) ==
    /\ Len(TrickAfter(card)) = 4
    /\ IsLastTrick
    /\ ~CheckMatchEnd(Settlement(card).totals, WinningScore)
    /\ Len(Gathered(card)) > DeckSize
    /\ undefined' = TRUE
    /\ UNCHANGED << deckVars, seatVars, handVars, assetVars, scoreVars,
                    m_PlayedCards, request, announced >>

CardPlayed(card) ==
    /\ ~undefined
    /\ card \in request.cards
    /\ \/ NextCard(card) \/ NextTrick(card) \/ NoSuchPlayer(card)
       \/ NextRound(card) \/ MatchEnded(card) \/ OutOfBounds(card)
    /\ UNCHANGED matches

----------------------------------------------------------------------------
(* What the asked player does.                                              *)
Answer == \/ \E colour \in Colours : AcceptAsset(colour)
          \/ RefuseAsset
          \/ \E card \in request.cards : CardPlayed(card)

(* Nothing is asked and no match is left to start, or the run means nothing *)
(* any more.                                                                *)
Finished == /\ undefined \/ (request = NoRequest /\ matches = MaxMatches)
            /\ UNCHANGED vars

Next == StartGame \/ Answer \/ Finished

Spec == Init /\ [][Next]_vars

(* An asked player answers: a bot through its timer, a person sooner or     *)
(* later.                                                                   *)
FairSpec == Spec /\ WF_vars(Answer)
=============================================================================
