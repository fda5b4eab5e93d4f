----------------------------- MODULE BotStrategy -----------------------------
(***************************************************************************)
(* How a bot plays the cards of a round: what it remembers of the messages *)
(* of the server, and the card it answers with.  The other players play    *)
(* any card the bot has not seen yet.                                      *)
(*                                                                         *)
(* A hand is a set: the server has ordered it by GetCardIndex, so that the *)
(* first and the last card of a colour are its weakest and its strongest.  *)
(***************************************************************************)
EXTENDS BeloteRules

CONSTANTS
    HandSize,       \* eight
    m_MySeat,
    NoCard,         \* the empty string
    Assets,         \* the colours tried as asset
    LastTricks      \* what the round before may leave in m_CurrentTurnCards

ASSUME BotAssumption == /\ HandSize \in Nat /\ m_MySeat \in Positions /\ NoCard \notin Card
                        /\ Assets \subseteq AllColours
                        /\ LastTricks \subseteq [Positions -> Card \cup {NoCard}]

VARIABLES
    \* the server
    hand,           \* m_PlayersHand of the bot
    trick,          \* m_PlayedCards
    turn,           \* m_CurrentPlayer
    gone,           \* the cards of the tricks that ended in this round
    announced,      \* BCPT_TurnStarting has been sent for the trick
    \* the bot
    m_MyHand, m_Asset, m_AssetTakenByOpponent, m_CardsRemainingInHand, m_AssetsPlayed,
    m_FirstCardThisTurn, m_CurrentTurnCards,
    m_PlayedCards   \* the cards whose entry is not -1

tableVars  == << hand, trick, turn, gone, announced >>
memoryVars == << m_MyHand, m_Asset, m_AssetTakenByOpponent, m_CardsRemainingInHand,
                 m_AssetsPlayed, m_FirstCardThisTurn, m_CurrentTurnCards, m_PlayedCards >>
vars == << tableVars, memoryVars >>

m_PartnerSeat == (m_MySeat + 2) % 4

NoTurnCards == [pos \in Positions |-> NoCard]

Cards(turnCards) == {turnCards[pos] : pos \in Positions} \ {NoCard}

ColourPreffixes == << "H", "S", "D", "C" >>

----------------------------------------------------------------------------
(* What the bot can tell of cards.                                          *)

(* The "1" of "10" makes a position that no card has, and behind it the     *)
(* index is one less: it is the rank among the values, from 0.              *)
GetCardIndex(asset, card) ==
    LET order == IF card.colour = asset THEN ValueOrderAtAsset ELSE ValueOrder
    IN  Cardinality({v \in Values : order[v] < order[card.value]})

CountCardsForColour(cards, colour) == Cardinality(OfColour(cards, colour))

GetStrongestCardForColour(colour, cards) ==
    IF OfColour(cards, colour) = {} THEN NoCard
    ELSE CHOOSE c \in OfColour(cards, colour) : \A d \in OfColour(cards, colour) :
            GetCardIndex(m_Asset, d) <= GetCardIndex(m_Asset, c)

GetWeakestCardForColour(colour, cards) ==
    IF OfColour(cards, colour) = {} THEN NoCard
    ELSE CHOOSE c \in OfColour(cards, colour) : \A d \in OfColour(cards, colour) :
            GetCardIndex(m_Asset, c) <= GetCardIndex(m_Asset, d)

(* An empty string has no value.                                            *)
Value(card) == IF card = NoCard THEN 0
               ELSE CardDefToValue(m_Asset, m_FirstCardThisTurn.colour, card)

(* All stronger cards of the colour have been played, and nothing on the    *)
(* table is stronger.  For the last card of the last colour the table is    *)
(* not looked at.                                                           *)
IsCardOwningTurn(card) ==
    \/ card.colour = "C" /\ GetCardIndex(m_Asset, card) = Cardinality(Values) - 1
    \/ /\ \A value \in Values :
             LET other == [colour |-> card.colour, value |-> value]
             IN  GetCardIndex(m_Asset, other) > GetCardIndex(m_Asset, card) => other \in m_PlayedCards
       /\ \/ m_FirstCardThisTurn = NoCard
          \/ \A pos \in Positions : Value(m_CurrentTurnCards[pos]) <= Value(card)

(* Mutated: the player after the bot is taken for its partner.              *)
IsNextOwningTurn ==
    LET partnerCard == m_CurrentTurnCards[(m_MySeat + 3) % 4]
    IN  /\ partnerCard # NoCard
        /\ \A pos \in Positions : Value(m_CurrentTurnCards[pos]) <= Value(partnerCard)

IsPartnerOwningTurn ==
    LET partnerCard == m_CurrentTurnCards[m_PartnerSeat]
    IN  /\ partnerCard # NoCard
        /\ \A pos \in Positions : Value(m_CurrentTurnCards[pos]) <= Value(partnerCard)

----------------------------------------------------------------------------
(* The choice of a card.                                                    *)
AssetsInHand == CountCardsForColour(m_MyHand, m_Asset)

ShouldPlayAsset ==
    \/ m_CardsRemainingInHand = AssetsInHand
    \/ /\ ~m_AssetTakenByOpponent
       /\ AssetsInHand > 0
       /\ Cardinality(Values) - AssetsInHand - m_AssetsPlayed > 0

(* m_Asset is erased from a copy of ColourPreffixes.                        *)
NormalColours == AllColours \ {m_Asset}

(* The weakest cards of the given colours, those that have one.             *)
Weakest(colours, cards) ==
    LET weakest[i \in 0 .. 4] ==
            IF i = 0 THEN << >>
            ELSE IF ColourPreffixes[i] \notin colours \/ OfColour(cards, ColourPreffixes[i]) = {}
                 THEN weakest[i - 1]
            ELSE Append(weakest[i - 1], GetWeakestCardForColour(ColourPreffixes[i], cards))
    IN  weakest[4]

(* The search for the cheapest card keeps the score of the first one as the *)
(* minimum: it ends with the last card that is cheaper than the first.      *)
CheaperThanFirst(cards) ==
    LET Score(i) == CardDefToScore(m_Asset, cards[i])
        cheaper  == {i \in DOMAIN cards : Score(i) < Score(1)}
    IN  IF cards = << >> THEN NoCard
        ELSE IF cheaper = {} THEN cards[1]
        ELSE cards[CHOOSE i \in cheaper : \A j \in cheaper : j <= i]

(* A first colour whose strongest card owns the turn; otherwise the         *)
(* strongest card of the last colour is still there, any weakest card is    *)
(* cheaper than no minimum, and the last of them remains.                   *)
GetBestOpener ==
    LET Strongest(i) == GetStrongestCardForColour(ColourPreffixes[i], m_MyHand)
        strongest == GetStrongestCardForColour(m_Asset, m_MyHand)
        normal    == {i \in 1 .. 4 : ColourPreffixes[i] \in NormalColours}
        owners    == {i \in normal : Strongest(i) # NoCard /\ IsCardOwningTurn(Strongest(i))}
        last      == CHOOSE i \in normal : \A j \in normal : j <= i
        weakest   == Weakest(NormalColours, m_MyHand)
    IN  CASE ShouldPlayAsset ->
               IF IsCardOwningTurn(strongest) THEN strongest
               ELSE GetWeakestCardForColour(m_Asset, m_MyHand)
          [] ~ShouldPlayAsset /\ owners # {} ->
               Strongest(CHOOSE i \in owners : \A j \in owners : i <= j)
          [] OTHER ->
               IF Strongest(last) = NoCard THEN CheaperThanFirst(weakest)
               ELSE weakest[Len(weakest)]

(* Mutated: the discard is taken from the hand and not from the cards       *)
(* offered.                                                                 *)
DiscardFromHand(offered) == CheaperThanFirst(Weakest(AllColours, m_MyHand))

(* A bot that has no card of the requested colour keeps its assets when its *)
(* partner owns the turn and it has something else.                         *)
Discard(offered) ==
    CheaperThanFirst(Weakest(
        IF IsPartnerOwningTurn /\ m_CardsRemainingInHand # AssetsInHand
        THEN NormalColours ELSE AllColours, offered))

(* OnWaitingPlay.                                                           *)
CardToPlay(offered) ==
    IF m_FirstCardThisTurn = NoCard THEN GetBestOpener
    ELSE LET requested == m_FirstCardThisTurn.colour
             strongest == GetStrongestCardForColour(requested, offered)
         IN  CASE strongest = NoCard -> Discard(offered)
               [] strongest # NoCard /\ IsCardOwningTurn(strongest) -> strongest
               [] OTHER -> GetWeakestCardForColour(requested, offered)

----------------------------------------------------------------------------
(* The round.                                                               *)
InPlay == UNION {{trick[i] : i \in DOMAIN trick}, gone, hand}

(* The cards are dealt and a player has taken the asset; what the bot had   *)
(* on the table in the round before is not forgotten.                       *)
Init == /\ hand \in {h \in SUBSET Pack : Cardinality(h) = HandSize}
        /\ trick = << >> /\ gone = {} /\ announced = FALSE
        /\ turn \in Positions
        /\ m_MyHand = hand
        /\ m_Asset \in Assets
        /\ m_AssetTakenByOpponent \in BOOLEAN
        /\ m_CardsRemainingInHand = HandSize
        /\ m_AssetsPlayed = 0
        /\ m_FirstCardThisTurn = NoCard \* whatever the last trick left, OnTurnStarting clears it
        /\ m_CurrentTurnCards \in LastTricks
        /\ m_PlayedCards = {}

(* Mutated: what was on the table is not recorded.                          *)
OnTurnStartingForgetful ==
    /\ m_CurrentTurnCards' = NoTurnCards
    /\ m_FirstCardThisTurn' = NoCard
    /\ UNCHANGED << m_PlayedCards, m_MyHand, m_Asset, m_AssetTakenByOpponent,
                    m_CardsRemainingInHand, m_AssetsPlayed >>

OnTurnStarting ==
    /\ m_PlayedCards' = m_PlayedCards \cup Cards(m_CurrentTurnCards)
    /\ m_CurrentTurnCards' = NoTurnCards
    /\ m_FirstCardThisTurn' = NoCard
    /\ UNCHANGED << m_MyHand, m_Asset, m_AssetTakenByOpponent, m_CardsRemainingInHand,
                    m_AssetsPlayed >>

OnPlayedCard(card, pos) ==
    /\ m_CurrentTurnCards' = [m_CurrentTurnCards EXCEPT ![pos] = card]
    /\ m_FirstCardThisTurn' = IF m_FirstCardThisTurn = NoCard THEN card ELSE m_FirstCardThisTurn
    /\ m_AssetsPlayed' = m_AssetsPlayed + (IF card.colour = m_Asset THEN 1 ELSE 0)
    /\ IF pos = m_MySeat
       THEN /\ m_MyHand' = m_MyHand \ {card}
            /\ m_CardsRemainingInHand' = m_CardsRemainingInHand - 1
       ELSE UNCHANGED << m_MyHand, m_CardsRemainingInHand >>
    /\ UNCHANGED << m_Asset, m_AssetTakenByOpponent, m_PlayedCards >>

StartTurn == /\ ~announced /\ Cardinality(gone) < 4 * HandSize
             /\ announced' = TRUE
             /\ OnTurnStarting
             /\ UNCHANGED << hand, trick, turn, gone >>

Plays(card) == /\ trick' = Append(trick, card)
               /\ turn' = GetNextPlayer(CW, turn)
               /\ OnPlayedCard(card, turn)
               /\ UNCHANGED << gone, announced >>

OtherPlays(card) == /\ announced /\ Len(trick) < 4 /\ turn # m_MySeat
                    /\ card \notin InPlay
                    /\ Plays(card)
                    /\ UNCHANGED hand

Offered == Playable(hand, m_Asset, trick)

IsAsked == announced /\ Len(trick) < 4 /\ turn = m_MySeat

(* assert(!cardToPlay.empty()).                                             *)
BotPlays == /\ IsAsked /\ CardToPlay(Offered) # NoCard
            /\ Plays(CardToPlay(Offered))
            /\ hand' = hand \ {CardToPlay(Offered)}

TurnEnded == /\ Len(trick) = 4
             /\ gone' = gone \cup {trick[i] : i \in DOMAIN trick}
             /\ trick' = << >>
             /\ turn' = GetWinnerPosition(CW, (turn + 3) % 4, WinnerIndex(m_Asset, trick))
             /\ announced' = FALSE
             /\ UNCHANGED << hand, memoryVars >>

RoundEnded == Cardinality(gone) = 4 * HandSize /\ UNCHANGED vars

Next == \/ StartTurn \/ BotPlays \/ TurnEnded \/ RoundEnded
        \/ \E card \in Pack : OtherPlays(card)

Spec == Init /\ [][Next]_vars

----------------------------------------------------------------------------
(* The bot answers with a card the server has offered: its choice goes      *)
(* through its own hand, the requested colour, then the other colours, and  *)
(* an assertion is all that stops it from sending nothing.                  *)
AnswerIsOffered == IsAsked => CardToPlay(Offered) \in Offered

(* A bot that cannot follow does not cut its partner's trick while it has   *)
(* something else to discard.                                               *)
PartnerIsNotCut ==
    (IsAsked /\ Len(trick) >= 2) =>
        LET partner == PlayedScore(m_Asset, trick, Len(trick) - 1)
        IN  (/\ \A i \in DOMAIN trick : PlayedScore(m_Asset, trick, i) <= partner
             /\ OfColour(hand, trick[1].colour) = {} /\ OfColour(hand, m_Asset) # hand)
            => CardToPlay(Offered) \notin OfColour(hand, m_Asset)

(* When the bot has heard that a trick starts it has recorded the cards of   *)
(* the tricks of this round, all of them and no other but those the round   *)
(* before has left on the table: OnCardsDealt clears the record and not     *)
(* m_CurrentTurnCards.                                                      *)
RecordIsExact ==
    announced => \E left \in LastTricks : m_PlayedCards = gone \cup Cards(left)
=============================================================================
