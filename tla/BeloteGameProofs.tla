-------------------------- MODULE BeloteGameProofs --------------------------
(***************************************************************************)
(* The game, for every pack, deal and rule set.  A first invariant bounds  *)
(* the types: no deal reads outside the deck, a trick always has a winning *)
(* card, and no score, total or pending litige goes below zero.  A second  *)
(* one says where the cards are: the deck is whole, the hands are apart    *)
(* and in step with their counters, and in the first match every card is   *)
(* in one place.  A third one keeps the trick apart from the hands, so     *)
(* that the law of BeloteRulesProofs says who takes it.  A fourth one      *)
(* keeps the accounts: scores and open cards share the pack, which makes   *)
(* every step of the game a settlement of BeloteMatch or a stutter.        *)
(***************************************************************************)
EXTENDS BeloteGameProperties, BeloteRulesProofs

(* The type invariant is not inductive by itself.  A player is asked only   *)
(* after a match was started (the deck is dealt), tricks are played only    *)
(* for a contract, and a team that owns the belote has its points, which a  *)
(* litige takes from its score.                                             *)
AskedInMatch == matches = 0 => request = NoRequest

PlayingForContract ==
    IF request.what = "WaitingPlay"
    THEN m_TeamAcceptingContract \in Teams /\ Len(m_PlayedCards) <= 3
    ELSE request.cards = {}

PlayerIsSeated == request.what # "nothing" /\ ~undefined => m_CurrentPlayer \in Positions

BeloteIsCounted == \A team \in Teams : m_Scores[team] >= Premium(m_TeamOwningBelote, team)

GameInv == TypeOK /\ AskedInMatch /\ PlayingForContract /\ PlayerIsSeated /\ BeloteIsCounted

WholeDeck == [1 .. DeckSize -> Pack]

----------------------------------------------------------------------------
(* Seats and teams.                                                         *)
LEMMA SeatFacts ==
    /\ Positions = {0, 1, 2, 3} /\ South = 0 /\ Teams = {0, 1} /\ NoTeam = -1
    /\ \A pos \in Positions : NextAfter(pos) \in Positions
    /\ \A first, pos \in Positions : DealingRank(PlayDir, first, pos) \in {0, 1, 2, 3}
    /\ \A pos : Team(pos) \in Teams
    /\ \A team \in Teams : GetOppositeTeam(team) \in Teams
<1>1. Positions = {0, 1, 2, 3} /\ South = 0 /\ East = 3 /\ Teams = {0, 1} /\ NoTeam = -1
  BY DEF Positions, South, East, Teams, NorthSouth, WestEast, NoTeam
<1>2. \A pos \in Positions : NextAfter(pos) \in Positions
  BY <1>1 DEF NextAfter, GetNextPlayer
<1>3. \A first, pos \in Positions : DealingRank(PlayDir, first, pos) \in {0, 1, 2, 3}
  BY <1>1 DEF DealingRank
<1>4. \A pos : Team(pos) \in Teams
  BY DEF Team, Teams
<1>5. \A team \in Teams : GetOppositeTeam(team) \in Teams
  BY <1>1 DEF GetOppositeTeam
<1> QED BY <1>1, <1>2, <1>3, <1>4, <1>5

(* The winner's position: the four seats, and two places beyond each end    *)
(* for the counter-clockwise formula.                                       *)
LEMMA WinnerPositionType ==
    ASSUME NEW pos \in Positions, NEW winner \in 0 .. 3
    PROVE  GetWinnerPosition(PlayDir, pos, winner) \in -2 .. 4
<1>1. NextAfter(pos) \in {0, 1, 2, 3}
  BY SeatFacts
<1> QED BY <1>1 DEF GetWinnerPosition, NextAfter

----------------------------------------------------------------------------
(* The deal.                                                                *)
LEMMA DeckSizeFacts ==
    /\ FirstGive \in Nat /\ FirstPart \in Nat /\ HandSize \in Nat
    /\ FirstGive <= FirstPart /\ FirstPart < HandSize
    /\ DeckSize = 4 * HandSize /\ DeckSize \in Nat
BY DealAssumption DEF DeckSize

LEMMA CutDeckType ==
    ASSUME NEW deck \in WholeDeck, NEW cutPos \in 1 .. DeckSize - 1
    PROVE  CutDeck(deck, cutPos) \in WholeDeck
<1> SUFFICES ASSUME NEW i \in 1 .. DeckSize
             PROVE  (IF i + cutPos <= DeckSize THEN deck[i + cutPos]
                                               ELSE deck[i + cutPos - DeckSize]) \in Pack
  BY DEF CutDeck, WholeDeck
<1>1. CASE i + cutPos <= DeckSize
  <2>1. i + cutPos \in 1 .. DeckSize
    BY <1>1, DeckSizeFacts
  <2> QED BY <1>1, <2>1 DEF WholeDeck
<1>2. CASE ~(i + cutPos <= DeckSize)
  <2>1. i + cutPos - DeckSize \in 1 .. DeckSize
    BY <1>2, DeckSizeFacts
  <2> QED BY <1>2, <2>1 DEF WholeDeck
<1> QED BY <1>1, <1>2

(* The first deal stays inside the deck, and so does the second, whoever    *)
(* has taken.                                                               *)
LEMMA FirstShareInDeck ==
    ASSUME NEW rank \in {0, 1, 2, 3}
    PROVE  FirstShare(rank) \subseteq 1 .. DeckSize
<1>1. CASE rank = 0
  BY <1>1, DeckSizeFacts DEF FirstShare, Interval
<1>2. CASE rank = 1
  BY <1>2, DeckSizeFacts DEF FirstShare, Interval
<1>3. CASE rank = 2
  BY <1>3, DeckSizeFacts DEF FirstShare, Interval
<1>4. CASE rank = 3
  BY <1>4, DeckSizeFacts DEF FirstShare, Interval
<1> QED BY <1>1, <1>2, <1>3, <1>4

LEMMA LastShareInDeck ==
    ASSUME NEW rank \in {0, 1, 2, 3}, NEW taker \in {0, 1, 2, 3}
    PROVE  LastShare(rank, taker) \subseteq 1 .. DeckSize
<1>1. CASE rank = 0
  BY <1>1, DeckSizeFacts DEF LastShare, Interval, RevealedPos
<1>2. CASE rank = 1
  BY <1>2, DeckSizeFacts DEF LastShare, Interval, RevealedPos
<1>3. CASE rank = 2
  BY <1>3, DeckSizeFacts DEF LastShare, Interval, RevealedPos
<1>4. CASE rank = 3
  BY <1>4, DeckSizeFacts DEF LastShare, Interval, RevealedPos
<1> QED BY <1>1, <1>2, <1>3, <1>4

LEMMA CardsAtType ==
    ASSUME NEW deck \in WholeDeck, NEW places \in SUBSET (1 .. DeckSize)
    PROVE  CardsAt(deck, places) \subseteq Pack
BY DEF CardsAt, WholeDeck

(* The requests.                                                            *)
Request == [what : {"nothing", "AskRevealedAsset", "AskAnotherAsset", "WaitingPlay"},
            cards : SUBSET Pack]

LEMMA RequestFacts ==
    /\ {NoRequest, AskRevealedAsset, AskAnotherAsset} \subseteq Request
    /\ NoRequest.what = "nothing" /\ NoRequest.cards = {}
    /\ \A asked \in {AskRevealedAsset, AskAnotherAsset} :
          asked.what \notin {"nothing", "WaitingPlay"} /\ asked.cards = {}
BY DEF Request, NoRequest, AskRevealedAsset, AskAnotherAsset

LEMMA NoScoreFacts ==
    NoScore \in [Teams -> Nat] /\ \A team \in Teams : NoScore[team] = 0
BY DEF NoScore

LEMMA PreTurnType ==
    ASSUME NEW dealer \in Positions, NEW deck \in WholeDeck, PreTurn(dealer, deck)
    PROVE  /\ m_Deck' \in WholeDeck /\ m_PlayersHand' \in [Positions -> SUBSET Pack]
           /\ m_CurrentDealer' = dealer /\ m_CurrentPlayer' \in Positions
           /\ m_Scores' = NoScore /\ m_TeamOwningBelote' = NoTeam
           /\ announced' = << >> /\ m_IsInFirstAnnouncePhase' = TRUE
           /\ request' = AskRevealedAsset
<1>1. NextAfter(dealer) \in Positions
  BY SeatFacts
<1>2. PICK cutPos \in 1 .. DeckSize - 1 :
          /\ m_Deck' = CutDeck(deck, cutPos)
          /\ m_PlayersHand' = [p \in Positions |->
                CardsAt(m_Deck', FirstShare(DealingRank(PlayDir, NextAfter(dealer), p)))]
  BY DEF PreTurn
<1>3. m_Deck' \in WholeDeck
  BY <1>2, CutDeckType
<1>4. \A p \in Positions :
          FirstShare(DealingRank(PlayDir, NextAfter(dealer), p)) \subseteq 1 .. DeckSize
  BY <1>1, SeatFacts, FirstShareInDeck
<1>5. m_PlayersHand' \in [Positions -> SUBSET Pack]
  BY <1>2, <1>3, <1>4, CardsAtType
<1> QED BY <1>1, <1>3, <1>5 DEF PreTurn, AskForAsset

----------------------------------------------------------------------------
(* The rules.                                                               *)
LEMMA CardFacts ==
    ASSUME NEW card \in Pack, NEW asset, NEW requested
    PROVE  /\ CardDefToScore(asset, card) \in Nat
           /\ CardDefToValue(asset, requested, card) \in Nat
<1>1. card.value \in AllValues
  BY PackAssumption DEF Pack
<1>2. \A v \in AllValues : /\ ValueOrder[v] \in Nat /\ ValueOrderAtAsset[v] \in Nat
                           /\ NormalScores[v] \in Nat /\ AssetScores[v] \in Nat
  BY DEF AllValues, ValueOrder, ValueOrderAtAsset, NormalScores, AssetScores
<1> QED BY <1>1, <1>2 DEF CardDefToScore, CardDefToValue

LEMMA FullTrick ==
    ASSUME NEW trick \in Seq(Pack), Len(trick) = 4
    PROVE  /\ DOMAIN trick = 1 .. 4
           /\ \A i \in 1 .. 4 : trick[i] \in Pack
BY LenProperties

LEMMA WinnerIndexType ==
    ASSUME NEW asset, NEW trick \in Seq(Pack), Len(trick) = 4
    PROVE  WinnerIndex(asset, trick) \in 0 .. 3
<1> DEFINE f == [i \in 1 .. 4 |-> PlayedScore(asset, trick, i)]
<1>1. DOMAIN trick = 1 .. 4 /\ \A i \in 1 .. 4 : trick[i] \in Pack
  BY FullTrick
<1>2. f \in [1 .. 4 -> Nat]
  BY <1>1, CardFacts DEF PlayedScore
<1>3. \E i \in 1 .. 4 : /\ \A j \in 1 .. 4 : f[j] <= f[i]
                        /\ \A j \in 1 .. (i - 1) : f[j] < f[i]
  <2> HIDE DEF f
  <2> QED BY <1>2, FirstBest
<1>4. \E i \in DOMAIN trick :
          /\ \A j \in DOMAIN trick : PlayedScore(asset, trick, j) <= PlayedScore(asset, trick, i)
          /\ \A j \in 1 .. (i - 1) : PlayedScore(asset, trick, j) < PlayedScore(asset, trick, i)
  <2>1. PICK i \in 1 .. 4 : /\ \A j \in 1 .. 4 : f[j] <= f[i]
                             /\ \A k \in 1 .. (i - 1) : f[k] < f[i]
    BY <1>3
  <2>2. \A j \in 1 .. 4 : f[j] = PlayedScore(asset, trick, j)
    OBVIOUS
  <2>3. \A j \in 1 .. (i - 1) : j \in 1 .. 4
    OBVIOUS
  <2> HIDE DEF f
  <2> QED BY <1>1, <2>1, <2>2, <2>3
<1> HIDE DEF f
<1> QED BY <1>1, <1>4 DEF WinnerIndex

LEMMA TrickScoreType ==
    ASSUME NEW asset, NEW trick \in Seq(Pack), Len(trick) = 4
    PROVE  TrickScore(asset, trick) \in Nat
<1>1. /\ trick[1] \in Pack /\ trick[2] \in Pack
      /\ trick[3] \in Pack /\ trick[4] \in Pack
  BY FullTrick
<1>2. /\ CardDefToScore(asset, trick[1]) \in Nat /\ CardDefToScore(asset, trick[2]) \in Nat
      /\ CardDefToScore(asset, trick[3]) \in Nat /\ CardDefToScore(asset, trick[4]) \in Nat
  BY <1>1, CardFacts
<1> QED BY <1>2 DEF TrickScore

(* The settlement of a round in which the owner of the belote has its       *)
(* points: nothing is subtracted below zero.                                *)
LEMMA PremiumType == \A belote, team : Premium(belote, team) \in Nat
BY ScoreAssumption DEF Premium

LEMMA SettleType ==
    ASSUME NEW scores \in [Teams -> Nat], NEW contract \in Teams, NEW belote,
           \A team \in Teams : scores[team] >= Premium(belote, team),
           NEW totals \in [Teams -> Nat], NEW pending \in Nat
    PROVE  /\ Settle(scores, contract, belote, totals, pending).totals \in [Teams -> Nat]
           /\ Settle(scores, contract, belote, totals, pending).pending \in Nat
<1>1. \A team \in Teams : Award(scores, contract, belote, team) \in Nat
  <2> TAKE team \in Teams
  <2>1. /\ scores[team] \in Nat /\ CapotScore \in Nat /\ PointsSumScore \in Nat
        /\ Premium(belote, team) \in Nat
    BY PremiumType, ScoreAssumption
  <2> QED BY <2>1 DEF Award, Capot, Litige
<1>2. Shelved(scores, contract, belote) \in Nat
  <2>1. CASE Litige(scores, contract, belote)
    <3>1. scores[NorthSouth] = scores[contract]
      BY <2>1, SeatFacts DEF Litige, NorthSouth, WestEast
    <3>2. scores[contract] \in Nat /\ scores[contract] >= Premium(belote, contract)
      OBVIOUS
    <3> QED BY <2>1, <3>1, <3>2, PremiumType DEF Shelved
  <2>2. CASE ~Litige(scores, contract, belote)
    BY <2>2 DEF Shelved
  <2> QED BY <2>1, <2>2
<1> DEFINE winner == RoundWinner(scores, contract)
           credit(team) == Award(scores, contract, belote, team)
               + IF Shelved(scores, contract, belote) = 0 /\ team = winner THEN pending ELSE 0
<1>3. \A team \in Teams : totals[team] + credit(team) \in Nat
  BY <1>1
<1>4. Settle(scores, contract, belote, totals, pending).totals
          = [team \in Teams |-> totals[team] + credit(team)]
  BY DEF Settle
<1>5. Settle(scores, contract, belote, totals, pending).pending \in Nat
  BY <1>2 DEF Settle
<1> HIDE DEF credit
<1> QED BY <1>3, <1>4, <1>5

----------------------------------------------------------------------------
(* The parts of a step that every card played has in common.                *)
LEMMA CardPlayedParts ==
    ASSUME GameInv, ~undefined, NEW card \in request.cards
    PROVE  /\ card \in Pack /\ request.what = "WaitingPlay" /\ m_CurrentPlayer \in Positions
           /\ m_TeamAcceptingContract \in Teams
           /\ TrickAfter(card) \in Seq(Pack) /\ Len(TrickAfter(card)) <= 4
           /\ HandsAfter(card) \in [Positions -> SUBSET Pack]
           /\ RemainingAfter \in [Positions -> Int]
           /\ OwnerAfter(card) \in Teams \cup {NoTeam}
           /\ AnnouncedAfter(card) \in Seq([event : {"Belote", "Rebelote"}, by : Positions])
<1>1. /\ card \in Pack /\ request.what = "WaitingPlay" /\ m_CurrentPlayer \in Positions
      /\ m_TeamAcceptingContract \in Teams /\ Len(m_PlayedCards) <= 3
  BY DEF GameInv, TypeOK, PlayingForContract, PlayerIsSeated
<1>2. TrickAfter(card) \in Seq(Pack) /\ Len(TrickAfter(card)) <= 4
  BY <1>1 DEF TrickAfter, GameInv, TypeOK
<1>3. HandsAfter(card) \in [Positions -> SUBSET Pack]
  BY <1>1 DEF HandsAfter, GameInv, TypeOK
<1>4. RemainingAfter \in [Positions -> Int]
  BY <1>1 DEF RemainingAfter, GameInv, TypeOK
<1>5. OwnerAfter(card) \in Teams \cup {NoTeam}
  BY SeatFacts DEF OwnerAfter, GameInv, TypeOK
<1>6. AnnouncedAfter(card) \in Seq([event : {"Belote", "Rebelote"}, by : Positions])
  <2> DEFINE Events == [event : {"Belote", "Rebelote"}, by : Positions]
  <2>1. announced \in Seq(Events)
    BY DEF GameInv, TypeOK
  <2>2. \A name \in {"Belote", "Rebelote"} : [event |-> name, by |-> m_CurrentPlayer] \in Events
    BY <1>1
  <2> HIDE DEF Events
  <2>3. \A e \in Events : Append(announced, e) \in Seq(Events)
    BY <2>1
  <2>4. AnnouncedAfter(card) \in Seq(Events)
    BY <2>1, <2>2, <2>3 DEF AnnouncedAfter
  <2> QED BY <2>4 DEF Events
<1> QED BY <1>1, <1>2, <1>3, <1>4, <1>5, <1>6

LEMMA ScoresAfterFacts ==
    ASSUME GameInv, ~undefined, NEW card \in request.cards
    PROVE  /\ ScoresAfter(card) \in [Teams -> Nat]
           /\ \A team \in Teams : ScoresAfter(card)[team] >= Premium(OwnerAfter(card), team)
<1>1. Team(m_CurrentPlayer) \in Teams /\ BeloteScore \in Nat /\ NoTeam \notin Teams
  BY SeatFacts, ScoreAssumption
<1>2. m_Scores \in [Teams -> Nat]
      /\ \A team \in Teams : m_Scores[team] >= Premium(m_TeamOwningBelote, team)
  BY DEF GameInv, TypeOK, BeloteIsCounted
<1>3. CASE CheckForBelote(card)
  BY <1>1, <1>2, <1>3 DEF ScoresAfter, OwnerAfter, Premium
<1>4. CASE ~CheckForBelote(card)
  BY <1>2, <1>4 DEF ScoresAfter, OwnerAfter
<1> QED BY <1>3, <1>4

LEMMA TrickEndFacts ==
    ASSUME GameInv, ~undefined, NEW card \in request.cards, Len(TrickAfter(card)) = 4
    PROVE  /\ TrickWinner(card) \in -2 .. 4
           /\ TurnScores(card) \in [Teams -> Nat]
           /\ \A team \in Teams : TurnScores(card)[team] >= Premium(OwnerAfter(card), team)
           /\ StacksAfter(card) \in [Teams -> Seq(Pack)]
           /\ GatheredDeck(card) \in WholeDeck \/ matches = 0
           /\ Settlement(card).totals \in [Teams -> Nat]
           /\ Settlement(card).pending \in Nat
<1>1. TrickAfter(card) \in Seq(Pack) /\ m_CurrentPlayer \in Positions
  BY CardPlayedParts
<1>2. TrickWinner(card) \in -2 .. 4
  BY <1>1, WinnerIndexType, WinnerPositionType DEF TrickWinner
<1>3. Team(TrickWinner(card)) \in Teams
  BY SeatFacts
<1> DEFINE points == TrickScore(m_CurrentAsset, TrickAfter(card))
                       + IF IsLastTrick THEN LastTurnScore ELSE 0
<1>4. TrickScore(m_CurrentAsset, TrickAfter(card)) \in Nat /\ LastTurnScore \in Nat
  BY <1>1, TrickScoreType, ScoreAssumption
<1>5. \A team \in Teams :
          TurnScores(card)[team] = ScoresAfter(card)[team]
              + IF team = Team(TrickWinner(card)) THEN points ELSE 0
  BY <1>3, <1>4, ScoresAfterFacts DEF TurnScores
<1>6. points \in Nat
  BY <1>4
<1>7. TurnScores(card) \in [Teams -> Nat]
  BY <1>3, <1>4, ScoresAfterFacts DEF TurnScores
<1> HIDE DEF points
<1>8. \A team \in Teams : TurnScores(card)[team] >= Premium(OwnerAfter(card), team)
  BY <1>5, <1>6, ScoresAfterFacts, PremiumType
<1>9. StacksAfter(card) \in [Teams -> Seq(Pack)]
  BY <1>1, <1>3 DEF StacksAfter, GameInv, TypeOK
<1>10. ASSUME matches # 0 PROVE GatheredDeck(card) \in WholeDeck
  <2>1. m_Deck \in WholeDeck
    BY <1>10 DEF GameInv, TypeOK, WholeDeck
  <2>2. Gathered(card) \in Seq(Pack)
    BY <1>9 DEF Gathered, Teams
  <2>3. \A i \in 1 .. DeckSize :
            (IF i <= Len(Gathered(card)) THEN Gathered(card)[i] ELSE m_Deck[i]) \in Pack
    BY <2>1, <2>2, DeckSizeFacts DEF WholeDeck
  <2> QED BY <2>3 DEF GatheredDeck, WholeDeck
<1>11. /\ Settlement(card).totals \in [Teams -> Nat]
       /\ Settlement(card).pending \in Nat
  BY <1>7, <1>8, SettleType, CardPlayedParts DEF Settlement, GameInv, TypeOK
<1> QED BY <1>2, <1>7, <1>8, <1>9, <1>10, <1>11

----------------------------------------------------------------------------
(* The state the server is in before its first start.                       *)
THEOREM GameInit == Init => GameInv
<1> SUFFICES ASSUME Init PROVE GameInv
  OBVIOUS
<1>1. TypeOK
  <2>1. /\ m_Deck = << >> /\ matches = 0 /\ matches \in 0 .. MaxMatches
        /\ m_CurrentDealer \in Positions /\ m_CurrentPlayer \in -2 .. 4
    BY SeatFacts, RuleSetAssumption DEF Init
  <2>2. /\ m_TeamPlayedCards \in [Teams -> Seq(Pack)] /\ m_PlayersHand \in [Positions -> SUBSET Pack]
        /\ m_RemainingCards \in [Positions -> Int] /\ m_PlayedCards \in Seq(Pack)
    BY DEF Init
  <2>3. /\ m_Scores \in [Teams -> Nat] /\ m_TotalScores \in [Teams -> Nat]
        /\ m_LitigeScorePending \in Nat
    BY NoScoreFacts DEF Init
  <2>4. request \in Request
    BY RequestFacts DEF Init
  <2>5. /\ m_CurrentAsset \in Colours \cup {NoColour}
        /\ m_TeamAcceptingContract \in Teams \cup {NoTeam}
        /\ m_TeamOwningBelote \in Teams \cup {NoTeam}
        /\ announced = << >> /\ m_IsInFirstAnnouncePhase = FALSE /\ undefined = FALSE
    BY DEF Init
  <2>6. announced \in Seq([event : {"Belote", "Rebelote"}, by : Positions])
    BY <2>5
  <2> QED BY <2>1, <2>2, <2>3, <2>4, <2>5, <2>6 DEF TypeOK, Request
<1>2. BeloteIsCounted
  <2>1. m_Scores = NoScore /\ \A team \in Teams : Premium(m_TeamOwningBelote, team) = 0
    BY SeatFacts DEF Init, Premium
  <2> QED BY <2>1, NoScoreFacts DEF BeloteIsCounted
<1>3. request = NoRequest
  BY DEF Init
<1> QED BY <1>1, <1>2, <1>3, RequestFacts
        DEF GameInv, AskedInMatch, PlayingForContract, PlayerIsSeated

(* A deal begins: nothing of the invariant but the types has to be shown    *)
(* for the variables PreTurn leaves alone.                                  *)
LEMMA DealInv ==
    ASSUME GameInv, NEW dealer \in Positions, NEW deck \in WholeDeck,
           PreTurn(dealer, deck), matches' \in 1 .. MaxMatches,
           m_TeamPlayedCards' \in [Teams -> Seq(Pack)],
           m_RemainingCards' \in [Positions -> Int], m_PlayedCards' \in Seq(Pack),
           m_TotalScores' \in [Teams -> Nat], m_LitigeScorePending' \in Nat,
           UNCHANGED << m_CurrentAsset, m_TeamAcceptingContract, undefined >>
    PROVE  GameInv'
<1>1. /\ m_Deck' \in WholeDeck /\ m_PlayersHand' \in [Positions -> SUBSET Pack]
      /\ m_CurrentDealer' \in Positions /\ m_CurrentPlayer' \in Positions
      /\ m_Scores' = NoScore /\ m_TeamOwningBelote' = NoTeam
      /\ announced' = << >> /\ m_IsInFirstAnnouncePhase' = TRUE
      /\ request' = AskRevealedAsset
  BY PreTurnType
<1>2. TypeOK'
  <2>1. m_Scores' \in [Teams -> Nat] /\ request' \in Request
    BY <1>1, NoScoreFacts, RequestFacts
  <2>2. m_CurrentPlayer' \in -2 .. 4
    BY <1>1, SeatFacts
  <2>3. matches' \in 0 .. MaxMatches /\ matches' # 0
    BY RuleSetAssumption
  <2>4. announced' \in Seq([event : {"Belote", "Rebelote"}, by : Positions])
    BY <1>1
  <2> QED BY <1>1, <2>1, <2>2, <2>3, <2>4 DEF GameInv, TypeOK, WholeDeck, Request
<1>3. BeloteIsCounted'
  <2>1. \A team \in Teams : Premium(m_TeamOwningBelote', team) = 0
    BY <1>1, SeatFacts DEF Premium
  <2>2. \A team \in Teams : m_Scores'[team] >= Premium(m_TeamOwningBelote', team)
    BY <1>1, <2>1, NoScoreFacts
  <2> QED BY <2>2 DEF BeloteIsCounted, Premium
<1>4. AskedInMatch' /\ PlayingForContract' /\ PlayerIsSeated'
  <2>1. matches' # 0
    BY RuleSetAssumption
  <2> QED BY <1>1, <2>1, RequestFacts DEF AskedInMatch, PlayingForContract, PlayerIsSeated
<1> QED BY <1>2, <1>3, <1>4 DEF GameInv

LEMMA StartGameInv == ASSUME GameInv, StartGame PROVE GameInv'
<1>1. PICK deck \in Shuffles : PreTurn(South, deck)
  BY DEF StartGame
<1>2. deck \in WholeDeck
  BY ShuffleAssumption DEF WholeDeck
<1>3. matches' \in 1 .. MaxMatches
  BY RuleSetAssumption DEF StartGame, GameInv, TypeOK
<1>4. m_TotalScores' \in [Teams -> Nat] /\ m_LitigeScorePending' \in Nat
  BY DEF StartGame, NoScore
<1> QED BY <1>1, <1>2, <1>3, <1>4, DealInv, SeatFacts DEF StartGame, GameInv, TypeOK

LEMMA AcceptAssetInv ==
    ASSUME GameInv, NEW colour \in Colours, AcceptAsset(colour) PROVE GameInv'
<1> DEFINE first == NextAfter(m_CurrentDealer)
           taker == DealingRank(PlayDir, first, m_CurrentPlayer)
<1>1. request \in {AskRevealedAsset, AskAnotherAsset}
  BY DEF AcceptAsset, Proposable
<1>2. /\ request.what # "nothing" /\ matches # 0 /\ m_CurrentPlayer \in Positions
      /\ m_Deck \in WholeDeck /\ m_CurrentDealer \in Positions
      /\ m_PlayersHand \in [Positions -> SUBSET Pack]
  <2>1. request.what # "nothing"
    BY <1>1 DEF AskRevealedAsset, AskAnotherAsset
  <2>2. matches # 0
    BY <2>1 DEF GameInv, AskedInMatch, NoRequest
  <2>3. ~undefined
    BY DEF AcceptAsset
  <2> QED BY <2>1, <2>2, <2>3 DEF GameInv, TypeOK, PlayerIsSeated, WholeDeck
<1>3. first \in Positions /\ taker \in {0, 1, 2, 3}
      /\ \A p \in Positions : DealingRank(PlayDir, first, p) \in {0, 1, 2, 3}
  BY <1>2, SeatFacts
<1>4. m_PlayersHand' = [p \in Positions |-> m_PlayersHand[p] \cup
          CardsAt(m_Deck, LastShare(DealingRank(PlayDir, first, p), taker))]
  BY DEF AcceptAsset
<1>5. m_PlayersHand' \in [Positions -> SUBSET Pack]
  <2>1. \A p \in Positions :
            CardsAt(m_Deck, LastShare(DealingRank(PlayDir, first, p), taker)) \subseteq Pack
    BY <1>2, <1>3, LastShareInDeck, CardsAtType
  <2> HIDE DEF first, taker
  <2> QED BY <1>2, <1>4, <2>1
<1>6. /\ request' \in Request /\ request'.what = "WaitingPlay"
  <2>1. request' = WaitingPlay(Playable(m_PlayersHand'[first], colour, << >>))
    BY DEF AcceptAsset, AskToPlay
  <2>2. m_PlayersHand'[first] \subseteq Pack
    BY <1>3, <1>5
  <2>3. Playable(m_PlayersHand'[first], colour, << >>) \subseteq Pack
    BY <2>2, PlayableInHand
  <2> QED BY <2>1, <2>3 DEF WaitingPlay, Request
<1>7. /\ m_RemainingCards' \in [Positions -> Int] /\ m_PlayedCards' = << >>
      /\ m_CurrentPlayer' \in Positions /\ m_TeamAcceptingContract' \in Teams
      /\ m_CurrentAsset' \in Colours
      /\ UNCHANGED << deckVars, scoreVars, m_CurrentDealer, m_IsInFirstAnnouncePhase,
                      announced, matches, undefined >>
  BY <1>3, SeatFacts, DeckSizeFacts DEF AcceptAsset
<1>8. TypeOK'
  <2>1. m_CurrentPlayer' \in -2 .. 4
    BY <1>7, SeatFacts
  <2> QED BY <1>5, <1>6, <1>7, <2>1 DEF GameInv, TypeOK, deckVars, scoreVars, Request
<1>9. BeloteIsCounted'
  BY <1>7 DEF GameInv, BeloteIsCounted, scoreVars, Premium
<1> QED BY <1>2, <1>6, <1>7, <1>8, <1>9
        DEF GameInv, AskedInMatch, PlayingForContract, PlayerIsSeated

LEMMA RefuseAssetInv == ASSUME GameInv, RefuseAsset PROVE GameInv'
<1>1. /\ matches # 0 /\ m_CurrentPlayer \in Positions /\ m_CurrentDealer \in Positions
      /\ request.what # "nothing"
  <2>1. request.what # "nothing"
    BY DEF RefuseAsset, AskRevealedAsset, AskAnotherAsset
  <2>2. matches # 0
    BY <2>1 DEF GameInv, AskedInMatch, NoRequest
  <2>3. ~undefined
    BY DEF RefuseAsset
  <2> QED BY <2>1, <2>2, <2>3 DEF GameInv, TypeOK, PlayerIsSeated
<1>2. UNCHANGED << m_TeamPlayedCards, m_RemainingCards, m_CurrentAsset, m_PlayedCards,
                   m_TeamAcceptingContract, m_TotalScores, m_LitigeScorePending,
                   matches, undefined >>
  BY DEF RefuseAsset
<1>3. CASE AskNextPlayer
  <2>1. m_CurrentPlayer' \in Positions /\ m_CurrentPlayer' \in -2 .. 4
    BY <1>1, <1>3, SeatFacts DEF AskNextPlayer
  <2>2. request' \in {AskRevealedAsset, AskAnotherAsset}
    BY <1>3 DEF AskNextPlayer, AskForAsset
  <2>3. m_IsInFirstAnnouncePhase' \in BOOLEAN
    <3>1. m_IsInFirstAnnouncePhase'
              = (m_IsInFirstAnnouncePhase /\ m_CurrentPlayer # m_CurrentDealer)
      BY <1>3 DEF AskNextPlayer, PhaseAfter
    <3> QED BY <3>1, Zenon
  <2>4. /\ request' \in Request /\ request'.what \notin {"nothing", "WaitingPlay"}
        /\ request'.cards = {}
    BY <2>2 DEF Request, AskRevealedAsset, AskAnotherAsset
  <2>5. UNCHANGED << m_Deck, m_CurrentDealer, m_PlayersHand, m_Scores, m_TeamOwningBelote,
                    announced >>
    BY <1>3 DEF AskNextPlayer
  <2>6. TypeOK'
    BY <1>2, <2>1, <2>3, <2>4, <2>5 DEF GameInv, TypeOK, Request
  <2> QED BY <1>1, <1>2, <2>1, <2>4, <2>5, <2>6
          DEF GameInv, AskedInMatch, PlayingForContract, PlayerIsSeated, BeloteIsCounted, Premium
<1>4. CASE NoAssetTaken
  <2>1. PreTurn(NextAfter(m_CurrentDealer), m_Deck)
    BY <1>4 DEF NoAssetTaken
  <2>2. /\ NextAfter(m_CurrentDealer) \in Positions /\ m_Deck \in WholeDeck
        /\ matches' \in 1 .. MaxMatches
    BY <1>1, <1>2, SeatFacts, RuleSetAssumption DEF GameInv, TypeOK, WholeDeck
  <2> QED BY <1>2, <2>1, <2>2, DealInv DEF GameInv, TypeOK
<1> QED BY <1>3, <1>4 DEF RefuseAsset

(* The trick goes on, or the next one begins: what both have in common.     *)
LEMMA AskedToPlayType ==
    ASSUME GameInv, ~undefined, NEW card \in request.cards, NEW player \in Positions, NEW trick,
           m_PlayersHand' = HandsAfter(card),
           AskToPlay(player, m_PlayersHand', m_CurrentAsset, trick)
    PROVE  request' \in Request /\ request'.what = "WaitingPlay"
<1>1. m_PlayersHand'[player] \subseteq Pack
  BY CardPlayedParts
<1>2. Playable(m_PlayersHand'[player], m_CurrentAsset, trick) \subseteq Pack
  BY <1>1, PlayableInHand
<1> QED BY <1>2 DEF AskToPlay, WaitingPlay, Request

LEMMA MatchesCount ==
    ASSUME GameInv, ~undefined, NEW card \in request.cards
    PROVE  matches # 0 /\ m_Deck \in WholeDeck
<1>1. request # NoRequest
  BY CardPlayedParts, RequestFacts
<1> QED BY <1>1 DEF GameInv, AskedInMatch, TypeOK, WholeDeck

LEMMA NextCardInv ==
    ASSUME GameInv, ~undefined, NEW card \in request.cards, NextCard(card), UNCHANGED matches
    PROVE  GameInv'
<1>1. m_CurrentPlayer' \in Positions /\ m_CurrentPlayer' \in -2 .. 4
  BY CardPlayedParts, SeatFacts DEF NextCard
<1>2. request' \in Request /\ request'.what = "WaitingPlay"
  BY <1>1, AskedToPlayType DEF NextCard
<1>3. /\ m_PlayedCards' = TrickAfter(card) /\ m_PlayersHand' = HandsAfter(card)
      /\ m_RemainingCards' = RemainingAfter /\ announced' = AnnouncedAfter(card)
      /\ m_Scores' = ScoresAfter(card) /\ m_TeamOwningBelote' = OwnerAfter(card)
      /\ Len(TrickAfter(card)) < 4
      /\ UNCHANGED << deckVars, assetVars, m_CurrentDealer, m_TotalScores,
                      m_LitigeScorePending, undefined >>
  BY DEF NextCard
<1>4. TypeOK'
  BY <1>1, <1>2, <1>3, CardPlayedParts, ScoresAfterFacts
  DEF GameInv, TypeOK, deckVars, assetVars, Request
<1>5. BeloteIsCounted'
  <2>1. \A team \in Teams : m_Scores'[team] >= Premium(m_TeamOwningBelote', team)
    BY <1>3, ScoresAfterFacts
  <2> QED BY <2>1 DEF BeloteIsCounted, Premium
<1>6. AskedInMatch' /\ PlayingForContract' /\ PlayerIsSeated'
  <2>1. Len(m_PlayedCards') <= 3
    BY <1>3, CardPlayedParts
  <2>2. m_TeamAcceptingContract' \in Teams
    BY <1>3, CardPlayedParts DEF assetVars
  <2> QED BY <1>1, <1>2, <2>1, <2>2, MatchesCount
          DEF AskedInMatch, PlayingForContract, PlayerIsSeated
<1> QED BY <1>4, <1>5, <1>6 DEF GameInv

LEMMA NextTrickInv ==
    ASSUME GameInv, ~undefined, NEW card \in request.cards, NextTrick(card), UNCHANGED matches
    PROVE  GameInv'
<1>1. m_CurrentPlayer' \in Positions /\ m_CurrentPlayer' \in -2 .. 4
  BY SeatFacts DEF NextTrick
<1>2. request' \in Request /\ request'.what = "WaitingPlay"
  BY <1>1, AskedToPlayType DEF NextTrick
<1>3. /\ m_PlayedCards' = << >> /\ m_PlayersHand' = HandsAfter(card)
      /\ m_RemainingCards' = RemainingAfter /\ announced' = AnnouncedAfter(card)
      /\ m_Scores' = TurnScores(card) /\ m_TeamOwningBelote' = OwnerAfter(card)
      /\ m_TeamPlayedCards' = StacksAfter(card)
      /\ Len(TrickAfter(card)) = 4
      /\ UNCHANGED << m_Deck, assetVars, m_CurrentDealer, m_TotalScores,
                      m_LitigeScorePending, undefined >>
  BY DEF NextTrick
<1>4. TypeOK'
  <2>1. /\ m_PlayedCards' \in Seq(Pack) /\ m_PlayersHand' \in [Positions -> SUBSET Pack]
        /\ m_RemainingCards' \in [Positions -> Int]
        /\ announced' \in Seq([event : {"Belote", "Rebelote"}, by : Positions])
        /\ m_TeamOwningBelote' \in Teams \cup {NoTeam}
    <3>1. m_PlayedCards' \in Seq(Pack)
      BY <1>3
    <3> QED BY <1>3, <3>1, CardPlayedParts
  <2>2. m_Scores' \in [Teams -> Nat] /\ m_TeamPlayedCards' \in [Teams -> Seq(Pack)]
    BY <1>3, TrickEndFacts
  <2>3. /\ m_Deck' \in IF matches' = 0 THEN {<< >>} ELSE [1 .. DeckSize -> Pack]
        /\ m_CurrentDealer' \in Positions /\ m_IsInFirstAnnouncePhase' \in BOOLEAN
        /\ m_CurrentAsset' \in Colours \cup {NoColour}
        /\ m_TeamAcceptingContract' \in Teams \cup {NoTeam}
        /\ m_TotalScores' \in [Teams -> Nat] /\ m_LitigeScorePending' \in Nat
        /\ matches' \in 0 .. MaxMatches /\ undefined' \in BOOLEAN
    BY <1>3 DEF GameInv, TypeOK, assetVars
  <2> QED BY <1>1, <1>2, <2>1, <2>2, <2>3 DEF TypeOK, Request
<1>5. BeloteIsCounted'
  <2>1. \A team \in Teams : m_Scores'[team] >= Premium(m_TeamOwningBelote', team)
    BY <1>3, TrickEndFacts
  <2> QED BY <2>1 DEF BeloteIsCounted, Premium
<1>6. AskedInMatch' /\ PlayingForContract' /\ PlayerIsSeated'
  <2>1. Len(m_PlayedCards') <= 3
    BY <1>3
  <2>2. m_TeamAcceptingContract' \in Teams
    BY <1>3, CardPlayedParts DEF assetVars
  <2> QED BY <1>1, <1>2, <2>1, <2>2, MatchesCount
          DEF AskedInMatch, PlayingForContract, PlayerIsSeated
<1> QED BY <1>4, <1>5, <1>6 DEF GameInv

LEMMA MatchEndedInv ==
    ASSUME GameInv, ~undefined, NEW card \in request.cards, MatchEnded(card), UNCHANGED matches
    PROVE  GameInv'
<1>1. /\ m_PlayedCards' = TrickAfter(card) /\ m_PlayersHand' = HandsAfter(card)
      /\ m_RemainingCards' = RemainingAfter /\ announced' = AnnouncedAfter(card)
      /\ m_Scores' = TurnScores(card) /\ m_TeamOwningBelote' = OwnerAfter(card)
      /\ m_TeamPlayedCards' = StacksAfter(card) /\ m_CurrentPlayer' = TrickWinner(card)
      /\ m_TotalScores' = Settlement(card).totals
      /\ m_LitigeScorePending' = Settlement(card).pending
      /\ Len(TrickAfter(card)) = 4 /\ request' = NoRequest
      /\ UNCHANGED << m_Deck, assetVars, m_CurrentDealer, undefined >>
  BY DEF MatchEnded
<1>2. TypeOK'
  <2>1. /\ m_PlayedCards' \in Seq(Pack) /\ m_PlayersHand' \in [Positions -> SUBSET Pack]
        /\ m_RemainingCards' \in [Positions -> Int]
        /\ announced' \in Seq([event : {"Belote", "Rebelote"}, by : Positions])
        /\ m_TeamOwningBelote' \in Teams \cup {NoTeam}
    BY <1>1, CardPlayedParts
  <2>2. /\ m_Scores' \in [Teams -> Nat] /\ m_TeamPlayedCards' \in [Teams -> Seq(Pack)]
        /\ m_TotalScores' \in [Teams -> Nat] /\ m_LitigeScorePending' \in Nat
        /\ m_CurrentPlayer' \in -2 .. 4
    BY <1>1, TrickEndFacts
  <2>3. request' \in Request
    BY <1>1, RequestFacts
  <2>4. /\ m_Deck' \in IF matches' = 0 THEN {<< >>} ELSE [1 .. DeckSize -> Pack]
        /\ m_CurrentDealer' \in Positions /\ m_IsInFirstAnnouncePhase' \in BOOLEAN
        /\ m_CurrentAsset' \in Colours \cup {NoColour}
        /\ m_TeamAcceptingContract' \in Teams \cup {NoTeam}
        /\ matches' \in 0 .. MaxMatches /\ undefined' \in BOOLEAN
    BY <1>1 DEF GameInv, TypeOK, assetVars
  <2> QED BY <2>1, <2>2, <2>3, <2>4 DEF TypeOK, Request
<1>3. BeloteIsCounted'
  <2>1. \A team \in Teams : m_Scores'[team] >= Premium(m_TeamOwningBelote', team)
    BY <1>1, TrickEndFacts
  <2> QED BY <2>1 DEF BeloteIsCounted, Premium
<1>4. AskedInMatch' /\ PlayingForContract' /\ PlayerIsSeated'
  BY <1>1, RequestFacts DEF AskedInMatch, PlayingForContract, PlayerIsSeated, NoRequest
<1> QED BY <1>2, <1>3, <1>4 DEF GameInv

LEMMA NextRoundInv ==
    ASSUME GameInv, ~undefined, NEW card \in request.cards, NextRound(card), UNCHANGED matches
    PROVE  GameInv'
<1>1. /\ PreTurn(NextAfter(m_CurrentDealer), GatheredDeck(card))
      /\ m_TotalScores' = Settlement(card).totals
      /\ m_LitigeScorePending' = Settlement(card).pending
      /\ m_TeamPlayedCards' = [team \in Teams |-> << >>]
      /\ m_RemainingCards' = RemainingAfter /\ m_PlayedCards' = TrickAfter(card)
      /\ Len(TrickAfter(card)) = 4
      /\ UNCHANGED << m_CurrentAsset, m_TeamAcceptingContract, undefined >>
  BY DEF NextRound, StacksAfterRound
<1>2. /\ GatheredDeck(card) \in WholeDeck /\ NextAfter(m_CurrentDealer) \in Positions
      /\ matches' \in 1 .. MaxMatches
  <2>1. GatheredDeck(card) \in WholeDeck
    BY <1>1, TrickEndFacts, MatchesCount
  <2>2. NextAfter(m_CurrentDealer) \in Positions
    BY SeatFacts DEF GameInv, TypeOK
  <2>3. matches' \in 1 .. MaxMatches
    BY MatchesCount, RuleSetAssumption DEF GameInv, TypeOK
  <2> QED BY <2>1, <2>2, <2>3
<1>3. m_TeamPlayedCards' \in [Teams -> Seq(Pack)]
  BY <1>1
<1> QED BY <1>1, <1>2, <1>3, CardPlayedParts, TrickEndFacts, DealInv

LEMMA NoSuchPlayerInv ==
    ASSUME GameInv, ~undefined, NEW card \in request.cards, NoSuchPlayer(card), UNCHANGED matches
    PROVE  GameInv'
<1>1. /\ m_PlayedCards' = << >> /\ m_PlayersHand' = HandsAfter(card)
      /\ m_RemainingCards' = RemainingAfter /\ announced' = AnnouncedAfter(card)
      /\ m_Scores' = TurnScores(card) /\ m_TeamOwningBelote' = OwnerAfter(card)
      /\ m_TeamPlayedCards' = StacksAfter(card) /\ m_CurrentPlayer' = TrickWinner(card)
      /\ Len(TrickAfter(card)) = 4 /\ undefined' = TRUE
      /\ UNCHANGED << m_Deck, assetVars, m_CurrentDealer, m_TotalScores, m_LitigeScorePending,
                      request >>
  BY DEF NoSuchPlayer
<1>2. TypeOK'
  <2>1. /\ m_PlayedCards' \in Seq(Pack) /\ m_PlayersHand' \in [Positions -> SUBSET Pack]
        /\ m_RemainingCards' \in [Positions -> Int]
        /\ announced' \in Seq([event : {"Belote", "Rebelote"}, by : Positions])
        /\ m_TeamOwningBelote' \in Teams \cup {NoTeam}
    <3>1. m_PlayedCards' \in Seq(Pack)
      BY <1>1
    <3> QED BY <1>1, <3>1, CardPlayedParts
  <2>2. /\ m_Scores' \in [Teams -> Nat] /\ m_TeamPlayedCards' \in [Teams -> Seq(Pack)]
        /\ m_CurrentPlayer' \in -2 .. 4
    BY <1>1, TrickEndFacts
  <2>3. /\ m_Deck' \in IF matches' = 0 THEN {<< >>} ELSE [1 .. DeckSize -> Pack]
        /\ m_CurrentDealer' \in Positions /\ m_IsInFirstAnnouncePhase' \in BOOLEAN
        /\ m_CurrentAsset' \in Colours \cup {NoColour}
        /\ m_TeamAcceptingContract' \in Teams \cup {NoTeam}
        /\ m_TotalScores' \in [Teams -> Nat] /\ m_LitigeScorePending' \in Nat
        /\ request' \in Request /\ matches' \in 0 .. MaxMatches /\ undefined' \in BOOLEAN
    BY <1>1 DEF GameInv, TypeOK, assetVars, Request
  <2> QED BY <2>1, <2>2, <2>3 DEF TypeOK, Request
<1>3. BeloteIsCounted'
  <2>1. \A team \in Teams : m_Scores'[team] >= Premium(m_TeamOwningBelote', team)
    BY <1>1, TrickEndFacts
  <2> QED BY <2>1 DEF BeloteIsCounted, Premium
<1>4. AskedInMatch' /\ PlayingForContract' /\ PlayerIsSeated'
  <2>1. Len(m_PlayedCards') <= 3
    BY <1>1
  <2>2. m_TeamAcceptingContract' \in Teams
    BY <1>1, CardPlayedParts DEF assetVars
  <2>3. matches' # 0
    BY <1>1, MatchesCount
  <2>4. undefined' = TRUE
    BY <1>1
  <2>5. PlayerIsSeated'
    BY <2>4, Zenon DEF PlayerIsSeated
  <2>6. PlayingForContract' /\ AskedInMatch'
    BY <1>1, <2>1, <2>2, <2>3 DEF GameInv, AskedInMatch, PlayingForContract
  <2> QED BY <2>5, <2>6
<1> QED BY <1>2, <1>3, <1>4 DEF GameInv

LEMMA OutOfBoundsInv ==
    ASSUME GameInv, ~undefined, NEW card \in request.cards, OutOfBounds(card), UNCHANGED matches
    PROVE  GameInv'
<1>1. /\ undefined' = TRUE
      /\ UNCHANGED << deckVars, seatVars, handVars, assetVars, scoreVars,
                      m_PlayedCards, request, announced, matches >>
  BY DEF OutOfBounds
<1>2. TypeOK'
  BY <1>1 DEF GameInv, TypeOK, deckVars, seatVars, handVars, assetVars, scoreVars
<1>3. BeloteIsCounted' /\ AskedInMatch' /\ PlayingForContract' /\ PlayerIsSeated'
  BY <1>1 DEF GameInv, BeloteIsCounted, Premium, AskedInMatch, PlayingForContract,
              PlayerIsSeated, seatVars, assetVars, scoreVars
<1> QED BY <1>2, <1>3 DEF GameInv

----------------------------------------------------------------------------
LEMMA GameNext == GameInv /\ [Next]_vars => GameInv'
<1> SUFFICES ASSUME GameInv, [Next]_vars PROVE GameInv'
  OBVIOUS
<1>1. CASE StartGame
  BY <1>1, StartGameInv
<1>2. ASSUME NEW colour \in Colours, AcceptAsset(colour) PROVE GameInv'
  BY <1>2, AcceptAssetInv
<1>3. CASE RefuseAsset
  BY <1>3, RefuseAssetInv
<1>4. ASSUME NEW card \in request.cards, CardPlayed(card) PROVE GameInv'
  BY <1>4, NextCardInv, NextTrickInv, NextRoundInv, MatchEndedInv,
     NoSuchPlayerInv, OutOfBoundsInv
  DEF CardPlayed
<1>5. CASE UNCHANGED vars
  <2>1. TypeOK'
    BY <1>5 DEF vars, deckVars, seatVars, handVars, assetVars, scoreVars, GameInv, TypeOK
  <2>2. BeloteIsCounted' /\ AskedInMatch' /\ PlayingForContract' /\ PlayerIsSeated'
    BY <1>5 DEF vars, seatVars, assetVars, scoreVars, GameInv, BeloteIsCounted, Premium,
                AskedInMatch, PlayingForContract, PlayerIsSeated
  <2> QED BY <2>1, <2>2 DEF GameInv
<1> QED BY <1>1, <1>2, <1>3, <1>4, <1>5 DEF Next, Answer, Finished

(* The whole invariant: whatever is dealt, proposed and played, an asked    *)
(* player sits at the table, tricks have a contract, and the owner of the   *)
(* belote has its points.                                                   *)
THEOREM GameInvariant == Spec => []GameInv
BY GameInit, GameNext, PTL DEF Spec

(* Type correctness of BeloteContext::ContextData: in particular the deck   *)
(* is dealt within its bounds, and no unsigned score is taken below zero.   *)
THEOREM TypeCorrect == Spec => []TypeOK
<1>1. GameInv => TypeOK
  BY DEF GameInv
<1> QED BY GameInvariant, <1>1, PTL

----------------------------------------------------------------------------
(* Where the cards are.                                                     *)
Shuffled(deck) == deck \in WholeDeck /\ IsInjective(deck) /\ Cards(deck) = Pack

HandsApart(hands) == \A p, q \in Positions : p # q => hands[p] \cap hands[q] = {}

(* Every card of the pack is in one place: a hand, the table, a stack.      *)
EveryCardOnce(hands, trick, stacks) ==
    /\ \A c \in Pack : \/ \E p \in Positions : c \in hands[p]
                       \/ c \in Cards(trick)
                       \/ \E team \in Teams : c \in Cards(stacks[team])
    /\ HandsApart(hands)
    /\ IsInjective(trick) /\ \A team \in Teams : IsInjective(stacks[team])
    /\ \A p \in Positions : hands[p] \cap Cards(trick) = {}
    /\ \A p \in Positions : \A team \in Teams : hands[p] \cap Cards(stacks[team]) = {}
    /\ \A team \in Teams : Cards(trick) \cap Cards(stacks[team]) = {}
    /\ \A one, other \in Teams : one # other => Cards(stacks[one]) \cap Cards(stacks[other]) = {}

(* The ranks of the dealing loops: who is dealt what.                       *)
LEMMA RankFacts ==
    ASSUME NEW first \in Positions
    PROVE  /\ \A p, q \in Positions : DealingRank(PlayDir, first, p) = DealingRank(PlayDir, first, q)
                                          => p = q
           /\ \A rank \in {0, 1, 2, 3} : \E p \in Positions : DealingRank(PlayDir, first, p) = rank
           /\ DealingRank(PlayDir, first, first) = 0
           /\ DealingRank(PlayDir, first, NextAfter(first)) = 1
           /\ \A p \in Positions \ {first} : DealingRank(PlayDir, first, p) >= 1
           /\ \A p \in Positions \ {first} :
                 DealingRank(PlayDir, NextAfter(first), p) = DealingRank(PlayDir, first, p) - 1
           /\ DealingRank(PlayDir, NextAfter(first), first) = 3
<1>1. Positions = {0, 1, 2, 3} /\ first \in Positions
  BY SeatFacts
<1>2. CASE PlayDir = CW
  <2>1. \A one, p \in Positions :
            DealingRank(PlayDir, one, p) = IF p >= one THEN p - one ELSE p - one + 4
    BY <1>1, <1>2 DEF DealingRank
  <2>2. NextAfter(first) = IF first = 3 THEN 0 ELSE first + 1
    BY <1>2 DEF NextAfter, GetNextPlayer, East, South
  <2>3. NextAfter(first) \in Positions
    BY SeatFacts
  <2> QED BY <1>1, <2>1, <2>2, <2>3
<1>3. CASE PlayDir # CW
  <2>1. \A one, p \in Positions :
            DealingRank(PlayDir, one, p) = IF one >= p THEN one - p ELSE one - p + 4
    BY <1>1, <1>3 DEF DealingRank
  <2>2. NextAfter(first) = IF first = 0 THEN 3 ELSE first - 1
    BY <1>3 DEF NextAfter, GetNextPlayer, East, South
  <2>3. NextAfter(first) \in Positions
    BY SeatFacts
  <2> QED BY <1>1, <2>1, <2>2, <2>3
<1> QED BY <1>2, <1>3

(* The deck positions a player has been dealt when both deals are done.     *)
Share(rank, taker) == FirstShare(rank) \cup LastShare(rank, taker)

LEMMA ShareMembers ==
    ASSUME NEW taker \in {0, 1, 2, 3}, NEW i \in Int
    PROVE  LET give == FirstGive
               more == FirstPart - FirstGive
               full == HandSize - FirstPart
               top  == 4 * FirstPart + 1
           IN  /\ i \in Share(0, taker) <=>
                     \/ 0 < i /\ i <= give
                     \/ 4 * give < i /\ i <= 4 * give + more
                     \/ top < i /\ i <= top + full - (IF taker = 0 THEN 1 ELSE 0)
                     \/ i = top /\ taker = 0
               /\ i \in Share(1, taker) <=>
                     \/ give < i /\ i <= 2 * give
                     \/ 4 * give + more < i /\ i <= 4 * give + 2 * more
                     \/ /\ top + full - (IF taker < 1 THEN 1 ELSE 0) < i
                        /\ i <= top + 2 * full - (IF taker <= 1 THEN 1 ELSE 0)
                     \/ i = top /\ taker = 1
               /\ i \in Share(2, taker) <=>
                     \/ 2 * give < i /\ i <= 3 * give
                     \/ 4 * give + 2 * more < i /\ i <= 4 * give + 3 * more
                     \/ /\ top + 2 * full - (IF taker < 2 THEN 1 ELSE 0) < i
                        /\ i <= top + 3 * full - (IF taker <= 2 THEN 1 ELSE 0)
                     \/ i = top /\ taker = 2
               /\ i \in Share(3, taker) <=>
                     \/ 3 * give < i /\ i <= 4 * give
                     \/ 4 * give + 3 * more < i /\ i <= 4 * give + 4 * more
                     \/ /\ top + 3 * full - (IF taker < 3 THEN 1 ELSE 0) < i
                        /\ i <= top + 4 * full - 1
                     \/ i = top /\ taker = 3
<1> USE DeckSizeFacts DEF Share, FirstShare, LastShare, Interval, RevealedPos
<1>1. CASE taker = 0
  BY <1>1
<1>2. CASE taker = 1
  BY <1>2
<1>3. CASE taker = 2
  BY <1>3
<1>4. CASE taker = 3
  BY <1>4
<1> QED BY <1>1, <1>2, <1>3, <1>4

(* No place of the deck is dealt twice, and none is left.                   *)
LEMMA SharesPartition ==
    ASSUME NEW taker \in {0, 1, 2, 3}
    PROVE  /\ \A rank \in {0, 1, 2, 3} : Share(rank, taker) \subseteq 1 .. DeckSize
           /\ \A r, s \in {0, 1, 2, 3} : r # s => Share(r, taker) \cap Share(s, taker) = {}
           /\ \A i \in 1 .. DeckSize : \E rank \in {0, 1, 2, 3} : i \in Share(rank, taker)
<1>1. \A rank \in {0, 1, 2, 3} : Share(rank, taker) \subseteq 1 .. DeckSize
  BY FirstShareInDeck, LastShareInDeck DEF Share
<1>2. ASSUME NEW i \in 1 .. DeckSize
      PROVE  /\ ~(i \in Share(0, taker) /\ i \in Share(1, taker))
             /\ ~(i \in Share(0, taker) /\ i \in Share(2, taker))
             /\ ~(i \in Share(0, taker) /\ i \in Share(3, taker))
             /\ ~(i \in Share(1, taker) /\ i \in Share(2, taker))
             /\ ~(i \in Share(1, taker) /\ i \in Share(3, taker))
             /\ ~(i \in Share(2, taker) /\ i \in Share(3, taker))
             /\ \/ i \in Share(0, taker) \/ i \in Share(1, taker)
                \/ i \in Share(2, taker) \/ i \in Share(3, taker)
  BY ShareMembers, DeckSizeFacts
<1>3. \A r, s \in {0, 1, 2, 3} : r # s => Share(r, taker) \cap Share(s, taker) = {}
  <2> SUFFICES ASSUME NEW r \in {0, 1, 2, 3}, NEW s \in {0, 1, 2, 3}, r # s,
                      NEW i \in Share(r, taker), i \in Share(s, taker)
               PROVE  FALSE
    OBVIOUS
  <2>1. i \in 1 .. DeckSize
    BY <1>1
  <2> QED BY <1>2, <2>1
<1>4. \A i \in 1 .. DeckSize : \E rank \in {0, 1, 2, 3} : i \in Share(rank, taker)
  BY <1>2
<1> QED BY <1>1, <1>3, <1>4

LEMMA IntervalSize ==
    ASSUME NEW from \in Int, NEW count \in Nat
    PROVE  IsFiniteSet(Interval(from, count)) /\ Cardinality(Interval(from, count)) = count
<1>1. /\ IsFiniteSet(from + 1 .. from + count)
      /\ Cardinality(from + 1 .. from + count)
            = IF from + 1 > from + count THEN 0 ELSE (from + count) - (from + 1) + 1
  BY FS_Interval
<1>2. IF from + 1 > from + count THEN count = 0 ELSE (from + count) - (from + 1) + 1 = count
  OBVIOUS
<1> QED BY <1>1, <1>2 DEF Interval

LEMMA FirstShareSize ==
    ASSUME NEW rank \in {0, 1, 2, 3}
    PROVE  /\ IsFiniteSet(FirstShare(rank)) /\ Cardinality(FirstShare(rank)) = FirstPart
           /\ \A i \in FirstShare(rank) : i \in Int /\ i < RevealedPos
<1> DEFINE start == rank * FirstGive
           next  == 4 * FirstGive + rank * (FirstPart - FirstGive)
           more  == FirstPart - FirstGive
<1>1. /\ start \in Int /\ next \in Int /\ more \in Nat
      /\ start + FirstGive <= next /\ next + more < RevealedPos
  <2>1. CASE rank = 0
    BY <2>1, DeckSizeFacts DEF RevealedPos
  <2>2. CASE rank = 1
    BY <2>2, DeckSizeFacts DEF RevealedPos
  <2>3. CASE rank = 2
    BY <2>3, DeckSizeFacts DEF RevealedPos
  <2>4. CASE rank = 3
    BY <2>4, DeckSizeFacts DEF RevealedPos
  <2> QED BY <2>1, <2>2, <2>3, <2>4
<1>2. FirstShare(rank) = Interval(start, FirstGive) \cup Interval(next, more)
  BY DEF FirstShare
<1>3. FirstGive \in Nat /\ FirstPart \in Nat /\ FirstGive + more = FirstPart
  BY DeckSizeFacts
<1> HIDE DEF start, next, more
<1>4. Interval(start, FirstGive) \cap Interval(next, more) = {}
  BY <1>1, <1>3 DEF Interval
<1>5. /\ IsFiniteSet(Interval(start, FirstGive)) /\ Cardinality(Interval(start, FirstGive)) = FirstGive
      /\ IsFiniteSet(Interval(next, more)) /\ Cardinality(Interval(next, more)) = more
  BY <1>1, <1>3, IntervalSize
<1>6. Cardinality(Interval(start, FirstGive) \cap Interval(next, more)) = 0
  BY <1>4, FS_EmptySet, Zenon
<1>8. /\ IsFiniteSet(Interval(start, FirstGive) \cup Interval(next, more))
      /\ Cardinality(Interval(start, FirstGive) \cup Interval(next, more))
            = Cardinality(Interval(start, FirstGive)) + Cardinality(Interval(next, more))
                - Cardinality(Interval(start, FirstGive) \cap Interval(next, more))
  BY <1>5, FS_Union
<1>7. \A i \in FirstShare(rank) : i \in Int /\ i < RevealedPos
  BY <1>1, <1>2, <1>3, DeckSizeFacts DEF Interval, RevealedPos
<1>9. FirstGive + more - 0 = FirstPart
  BY <1>1, <1>3
<1> QED BY <1>2, <1>5, <1>6, <1>7, <1>8, <1>9

LEMMA LastShareSize ==
    ASSUME NEW rank \in {0, 1, 2, 3}, NEW taker \in {0, 1, 2, 3}
    PROVE  /\ IsFiniteSet(LastShare(rank, taker))
           /\ Cardinality(LastShare(rank, taker)) = HandSize - FirstPart
           /\ \A i \in LastShare(rank, taker) : i \in Int /\ i >= RevealedPos
<1> DEFINE full == HandSize - FirstPart
           from == RevealedPos + rank * full
<1>1. full \in Nat /\ full >= 1 /\ from \in Int /\ RevealedPos \in Int /\ from >= RevealedPos
      /\ (rank > taker => from - 1 >= RevealedPos)
  <2>1. CASE rank = 0
    BY <2>1, DeckSizeFacts DEF RevealedPos
  <2>2. CASE rank = 1
    BY <2>2, DeckSizeFacts DEF RevealedPos
  <2>3. CASE rank = 2
    BY <2>3, DeckSizeFacts DEF RevealedPos
  <2>4. CASE rank = 3
    BY <2>4, DeckSizeFacts DEF RevealedPos
  <2> QED BY <2>1, <2>2, <2>3, <2>4
<1>2. CASE rank < taker
  <2>1. LastShare(rank, taker) = Interval(from, full)
    BY <1>2 DEF LastShare
  <2> HIDE DEF full, from
  <2>2. IsFiniteSet(Interval(from, full)) /\ Cardinality(Interval(from, full)) = full
    BY <1>1, IntervalSize
  <2>3. \A i \in Interval(from, full) : i \in Int /\ i >= RevealedPos
    BY <1>1 DEF Interval
  <2> QED BY <2>1, <2>2, <2>3 DEF full
<1>3. CASE rank > taker
  <2>1. LastShare(rank, taker) = Interval(from - 1, full)
    BY <1>3 DEF LastShare
  <2> HIDE DEF full, from
  <2>2. IsFiniteSet(Interval(from - 1, full)) /\ Cardinality(Interval(from - 1, full)) = full
    <3>1. from - 1 \in Int
      BY <1>1
    <3> QED BY <1>1, <3>1, IntervalSize
  <2>3. \A i \in Interval(from - 1, full) : i \in Int /\ i >= RevealedPos
    BY <1>1, <1>3 DEF Interval
  <2> QED BY <2>1, <2>2, <2>3 DEF full
<1>4. CASE rank = taker
  <2>1. LastShare(rank, taker) = Interval(from, full - 1) \cup {RevealedPos}
    BY <1>4 DEF LastShare
  <2> HIDE DEF full, from
  <2>2. IsFiniteSet(Interval(from, full - 1)) /\ Cardinality(Interval(from, full - 1)) = full - 1
    <3>1. full - 1 \in Nat
      BY <1>1
    <3> QED BY <1>1, <3>1, IntervalSize
  <2>3. RevealedPos \notin Interval(from, full - 1)
    BY <1>1 DEF Interval
  <2>4. /\ IsFiniteSet(LastShare(rank, taker))
        /\ Cardinality(LastShare(rank, taker)) = (full - 1) + 1
    BY <2>1, <2>2, <2>3, FS_AddElement
  <2>5. \A i \in LastShare(rank, taker) : i \in Int /\ i >= RevealedPos
    BY <1>1, <2>1 DEF Interval
  <2> QED BY <1>1, <2>4, <2>5 DEF full
<1> QED BY <1>2, <1>3, <1>4

LEMMA ShareSize ==
    ASSUME NEW rank \in {0, 1, 2, 3}, NEW taker \in {0, 1, 2, 3}
    PROVE  IsFiniteSet(Share(rank, taker)) /\ Cardinality(Share(rank, taker)) = HandSize
<1>1. FirstShare(rank) \cap LastShare(rank, taker) = {}
  <2>1. RevealedPos \in Int
    BY DeckSizeFacts DEF RevealedPos
  <2> QED BY <2>1, FirstShareSize, LastShareSize
<1>2. IsFiniteSet(FirstShare(rank)) /\ IsFiniteSet(LastShare(rank, taker))
  BY FirstShareSize, LastShareSize
<1>3. /\ IsFiniteSet(FirstShare(rank) \cup LastShare(rank, taker))
      /\ Cardinality(FirstShare(rank) \cup LastShare(rank, taker))
            = Cardinality(FirstShare(rank)) + Cardinality(LastShare(rank, taker))
                - Cardinality(FirstShare(rank) \cap LastShare(rank, taker))
  BY <1>2, FS_Union
<1>4. Cardinality(FirstShare(rank)) = FirstPart /\ Cardinality(LastShare(rank, taker)) = HandSize - FirstPart
  BY FirstShareSize, LastShareSize
<1>5. Cardinality(FirstShare(rank) \cap LastShare(rank, taker)) = 0
  BY <1>1, FS_EmptySet, Zenon
<1>6. FirstPart + (HandSize - FirstPart) - 0 = HandSize
  BY DeckSizeFacts
<1> QED BY <1>3, <1>4, <1>5, <1>6, Zenon DEF Share

----------------------------------------------------------------------------
(* The deck.                                                                *)
LEMMA ShuffledFacts ==
    ASSUME NEW deck, Shuffled(deck)
    PROVE  /\ DOMAIN deck = 1 .. DeckSize /\ deck \in WholeDeck
           /\ \A i, j \in 1 .. DeckSize : deck[i] = deck[j] => i = j
           /\ \A c \in Pack : \E i \in 1 .. DeckSize : deck[i] = c
<1>1. DOMAIN deck = 1 .. DeckSize /\ deck \in WholeDeck
  BY DEF Shuffled, WholeDeck
<1>2. Cards(deck) = Pack /\ IsInjective(deck)
  BY DEF Shuffled
<1>3. \A i, j \in 1 .. DeckSize : deck[i] = deck[j] => i = j
  BY <1>1, <1>2 DEF IsInjective
<1>4. \A c \in Pack : \E i \in 1 .. DeckSize : deck[i] = c
  BY <1>1, <1>2 DEF Cards
<1> QED BY <1>1, <1>3, <1>4

LEMMA CutDeckWhole ==
    ASSUME NEW deck, Shuffled(deck), NEW cutPos \in 1 .. DeckSize - 1
    PROVE  Shuffled(CutDeck(deck, cutPos))
<1> DEFINE place(i) == IF i + cutPos <= DeckSize THEN i + cutPos ELSE i + cutPos - DeckSize
           back(j)  == IF j > cutPos THEN j - cutPos ELSE j - cutPos + DeckSize
<1>1. deck \in WholeDeck /\ IsInjective(deck) /\ Cards(deck) = Pack /\ DOMAIN deck = 1 .. DeckSize
  BY DEF Shuffled, WholeDeck
<1>2. /\ \A i \in 1 .. DeckSize : place(i) \in 1 .. DeckSize /\ CutDeck(deck, cutPos)[i] = deck[place(i)]
      /\ DOMAIN CutDeck(deck, cutPos) = 1 .. DeckSize
  BY DeckSizeFacts DEF CutDeck
<1>3. \A i, j \in 1 .. DeckSize : place(i) = place(j) => i = j
  BY DeckSizeFacts
<1>4. \A j \in 1 .. DeckSize : back(j) \in 1 .. DeckSize /\ place(back(j)) = j
  BY DeckSizeFacts
<1>5. CutDeck(deck, cutPos) \in WholeDeck
  BY <1>1, CutDeckType
<1> HIDE DEF place, back
<1>6. IsInjective(CutDeck(deck, cutPos))
  BY <1>1, <1>2, <1>3 DEF IsInjective
<1>7. Cards(CutDeck(deck, cutPos)) = Pack
  <2>1. \A c \in Pack : \E i \in 1 .. DeckSize : c = CutDeck(deck, cutPos)[i]
    <3> TAKE c \in Pack
    <3>1. PICK j \in 1 .. DeckSize : c = deck[j]
      BY <1>1 DEF Cards
    <3> QED BY <1>2, <1>4, <3>1
  <2> QED BY <1>2, <1>5, <2>1 DEF Cards, WholeDeck
<1> QED BY <1>5, <1>6, <1>7 DEF Shuffled

LEMMA ShufflesAreWhole ==
    ASSUME NEW deck \in Shuffles PROVE Shuffled(deck)
<1>1. deck \in WholeDeck /\ DOMAIN deck = 1 .. DeckSize
  BY ShuffleAssumption DEF WholeDeck
<1>2. /\ \A c \in Pack : \E i \in 1 .. DeckSize : deck[i] = c
      /\ \A i, j \in 1 .. DeckSize : deck[i] = deck[j] => i = j
  BY ShuffleAssumption
<1>3. Cards(deck) = Pack
  BY <1>1, <1>2 DEF Cards, WholeDeck
<1> QED BY <1>1, <1>2, <1>3 DEF Shuffled, IsInjective

(* As many cards are dealt as there are places.                             *)
LEMMA CardsAtSize ==
    ASSUME NEW deck, Shuffled(deck), NEW places \in SUBSET (1 .. DeckSize), IsFiniteSet(places)
    PROVE  IsFiniteSet(CardsAt(deck, places)) /\ Cardinality(CardsAt(deck, places)) = Cardinality(places)
<1> DEFINE f == [i \in places |-> deck[i]]
<1>1. \A i, j \in places : deck[i] = deck[j] => i = j
  BY ShuffledFacts
<1>2. f \in Bijection(places, CardsAt(deck, places))
  <2>1. f \in [places -> CardsAt(deck, places)]
    BY DEF CardsAt
  <2>2. \A i, j \in places : f[i] = f[j] => i = j
    BY <1>1
  <2>3. \A c \in CardsAt(deck, places) : \E i \in places : f[i] = c
    BY DEF CardsAt
  <2> HIDE DEF f
  <2> QED BY <2>1, <2>2, <2>3 DEF Bijection, Injection, Surjection, IsInjective
<1>3. ExistsBijection(places, CardsAt(deck, places))
  BY <1>2 DEF ExistsBijection
<1> QED BY <1>3, FS_Bijection

LEMMA CardsAtFacts ==
    ASSUME NEW deck, Shuffled(deck),
           NEW one \in SUBSET (1 .. DeckSize), NEW other \in SUBSET (1 .. DeckSize)
    PROVE  /\ CardsAt(deck, one) \cup CardsAt(deck, other) = CardsAt(deck, one \cup other)
           /\ one \cap other = {} => CardsAt(deck, one) \cap CardsAt(deck, other) = {}
<1>1. \A i, j \in 1 .. DeckSize : deck[i] = deck[j] => i = j
  BY ShuffledFacts
<1> QED BY <1>1 DEF CardsAt


----------------------------------------------------------------------------
(* Cards that move.                                                         *)
LEMMA AppendCards ==
    ASSUME NEW seq \in Seq(Pack), NEW card \in Pack
    PROVE  /\ Cards(Append(seq, card)) = Cards(seq) \cup {card}
           /\ IsInjective(seq) /\ card \notin Cards(seq) => IsInjective(Append(seq, card))
<1>1. /\ DOMAIN seq = 1 .. Len(seq) /\ Len(seq) \in Nat
      /\ DOMAIN Append(seq, card) = 1 .. Len(seq) + 1
      /\ \A i \in 1 .. Len(seq) : Append(seq, card)[i] = seq[i]
      /\ Append(seq, card)[Len(seq) + 1] = card
  <2>1. Append(seq, card) \in Seq(Pack) /\ Len(Append(seq, card)) = Len(seq) + 1
    OBVIOUS
  <2> QED BY <2>1
<1> DEFINE more == Append(seq, card)
<1>2. /\ DOMAIN more = 1 .. Len(seq) + 1 /\ more[Len(seq) + 1] = card
      /\ \A i \in 1 .. Len(seq) : more[i] = seq[i]
  BY <1>1
<1> HIDE DEF more
<1>3. Cards(more) = Cards(seq) \cup {card}
  <2>1. Cards(more) \subseteq Cards(seq) \cup {card}
    <3> SUFFICES ASSUME NEW i \in 1 .. Len(seq) + 1 PROVE more[i] \in Cards(seq) \cup {card}
      BY <1>2 DEF Cards
    <3>1. i \in 1 .. Len(seq) \/ i = Len(seq) + 1
      BY <1>1
    <3> QED BY <1>1, <1>2, <3>1 DEF Cards
  <2>2. Cards(seq) \subseteq Cards(more)
    <3> SUFFICES ASSUME NEW i \in 1 .. Len(seq) PROVE seq[i] \in Cards(more)
      BY <1>1 DEF Cards
    <3>1. i \in DOMAIN more /\ more[i] = seq[i]
      BY <1>1, <1>2
    <3> QED BY <3>1 DEF Cards
  <2>3. card \in Cards(more)
    <3>1. Len(seq) + 1 \in DOMAIN more
      BY <1>1, <1>2
    <3> QED BY <1>2, <3>1 DEF Cards
  <2> QED BY <2>1, <2>2, <2>3
<1>4. ASSUME IsInjective(seq), card \notin Cards(seq) PROVE IsInjective(more)
  <2> SUFFICES ASSUME NEW i \in 1 .. Len(seq) + 1, NEW j \in 1 .. Len(seq) + 1, more[i] = more[j]
               PROVE  i = j
    BY <1>2 DEF IsInjective
  <2>1. \A k \in 1 .. Len(seq) : seq[k] # card
    BY <1>1, <1>4 DEF Cards
  <2>2. \A k, l \in 1 .. Len(seq) : seq[k] = seq[l] => k = l
    BY <1>1, <1>4 DEF IsInjective
  <2>3. (i \in 1 .. Len(seq) \/ i = Len(seq) + 1) /\ (j \in 1 .. Len(seq) \/ j = Len(seq) + 1)
    BY <1>1
  <2> QED BY <1>2, <2>1, <2>2, <2>3
<1> QED BY <1>3, <1>4 DEF more

LEMMA ConcatCards ==
    ASSUME NEW one \in Seq(Pack), NEW other \in Seq(Pack)
    PROVE  /\ one \o other \in Seq(Pack) /\ Len(one \o other) = Len(one) + Len(other)
           /\ Cards(one \o other) = Cards(one) \cup Cards(other)
           /\ IsInjective(one) /\ IsInjective(other) /\ Cards(one) \cap Cards(other) = {}
                => IsInjective(one \o other)
<1> DEFINE both == one \o other
           m == Len(one)
           n == Len(other)
<1>1. both \in Seq(Pack) /\ Len(both) = m + n
  BY ConcatProperties, Zenon
<1>2. m \in Nat /\ n \in Nat /\ DOMAIN one = 1 .. m /\ DOMAIN other = 1 .. n
  OBVIOUS
<1>3. DOMAIN both = 1 .. m + n
  <2> HIDE DEF both, m, n
  <2> QED BY <1>1
<1>4. \A i \in 1 .. m + n : both[i] = IF i <= m THEN one[i] ELSE other[i - m]
  <2>1. \A i \in 1 .. Len(one) + Len(other) :
            (one \o other)[i] = IF i <= Len(one) THEN one[i] ELSE other[i - Len(one)]
    BY ConcatProperties, Zenon
  <2> QED BY <2>1, Zenon
<1> HIDE DEF both, m, n
<1>5. Cards(both) = Cards(one) \cup Cards(other)
  <2>1. Cards(both) \subseteq Cards(one) \cup Cards(other)
    <3> SUFFICES ASSUME NEW i \in 1 .. m + n PROVE both[i] \in Cards(one) \cup Cards(other)
      BY <1>3 DEF Cards
    <3>1. i \in 1 .. m \/ (i - m \in 1 .. n /\ ~(i <= m))
      BY <1>2
    <3> QED BY <1>2, <1>4, <3>1 DEF Cards
  <2>2. Cards(one) \subseteq Cards(both)
    <3> SUFFICES ASSUME NEW i \in 1 .. m PROVE one[i] \in Cards(both)
      BY <1>2 DEF Cards
    <3>1. i \in 1 .. m + n /\ i <= m
      BY <1>2
    <3>2. i \in DOMAIN both /\ both[i] = one[i]
      BY <1>3, <1>4, <3>1
    <3> QED BY <3>2 DEF Cards
  <2>3. Cards(other) \subseteq Cards(both)
    <3> SUFFICES ASSUME NEW i \in 1 .. n PROVE other[i] \in Cards(both)
      BY <1>2 DEF Cards
    <3>1. i + m \in 1 .. m + n /\ ~(i + m <= m) /\ (i + m) - m = i
      BY <1>2
    <3>2. i + m \in DOMAIN both /\ both[i + m] = other[i]
      BY <1>3, <1>4, <3>1
    <3> QED BY <3>2 DEF Cards
  <2> QED BY <2>1, <2>2, <2>3
<1>6. ASSUME IsInjective(one), IsInjective(other), Cards(one) \cap Cards(other) = {}
      PROVE  IsInjective(both)
  <2> SUFFICES ASSUME NEW i \in 1 .. m + n, NEW j \in 1 .. m + n, both[i] = both[j]
               PROVE  i = j
    BY <1>3 DEF IsInjective
  <2>1. \A k, l \in 1 .. m : one[k] = one[l] => k = l
    BY <1>2, <1>6 DEF IsInjective
  <2>2. \A k, l \in 1 .. n : other[k] = other[l] => k = l
    BY <1>2, <1>6 DEF IsInjective
  <2>3. \A k \in 1 .. m, l \in 1 .. n : one[k] # other[l]
    BY <1>2, <1>6 DEF Cards
  <2>4. /\ (i \in 1 .. m /\ i <= m) \/ (i - m \in 1 .. n /\ ~(i <= m))
        /\ (j \in 1 .. m /\ j <= m) \/ (j - m \in 1 .. n /\ ~(j <= m))
    BY <1>2
  <2>5. i \in Int /\ j \in Int
    BY <1>2
  <2> QED BY <1>2, <1>4, <2>1, <2>2, <2>3, <2>4, <2>5
<1> QED BY <1>1, <1>5, <1>6 DEF both, m, n

(* One card goes from a hand to the table.                                  *)
LEMMA OneCardPlayed ==
    ASSUME NEW hands \in [Positions -> SUBSET Pack], NEW trick \in Seq(Pack), NEW stacks,
           EveryCardOnce(hands, trick, stacks),
           NEW p \in Positions, NEW card \in hands[p]
    PROVE  EveryCardOnce([hands EXCEPT ![p] = @ \ {card}], Append(trick, card), stacks)
<1> DEFINE after == [hands EXCEPT ![p] = @ \ {card}]
           more == Append(trick, card)
<1>1. card \in Pack /\ card \notin Cards(trick)
  BY DEF EveryCardOnce
<1>2. Cards(more) = Cards(trick) \cup {card} /\ IsInjective(more)
  BY <1>1, AppendCards DEF EveryCardOnce
<1>3. \A q \in Positions : after[q] = IF q = p THEN hands[q] \ {card} ELSE hands[q]
  OBVIOUS
<1>4. \A q \in Positions : card \notin after[q]
  BY <1>3 DEF EveryCardOnce, HandsApart
<1>5. \A team \in Teams : card \notin Cards(stacks[team])
  BY DEF EveryCardOnce
<1> HIDE DEF after, more
<1>6. \A c \in Pack : \/ \E q \in Positions : c \in after[q]
                      \/ c \in Cards(more)
                      \/ \E team \in Teams : c \in Cards(stacks[team])
  <2> TAKE c \in Pack
  <2>1. CASE c = card
    BY <1>2, <2>1
  <2>2. CASE c # card
    BY <1>2, <1>3, <2>2 DEF EveryCardOnce
  <2> QED BY <2>1, <2>2
<1>7. HandsApart(after)
  BY <1>3 DEF EveryCardOnce, HandsApart
<1>8. /\ \A q \in Positions : after[q] \cap Cards(more) = {}
      /\ \A q \in Positions : \A team \in Teams : after[q] \cap Cards(stacks[team]) = {}
      /\ \A team \in Teams : Cards(more) \cap Cards(stacks[team]) = {}
  <2>1. \A q \in Positions : after[q] \subseteq hands[q]
    BY <1>3
  <2>2. \A q \in Positions : after[q] \cap Cards(more) = {}
    BY <1>2, <1>4, <2>1 DEF EveryCardOnce
  <2>3. \A q \in Positions : \A team \in Teams : after[q] \cap Cards(stacks[team]) = {}
    BY <2>1 DEF EveryCardOnce
  <2>4. \A team \in Teams : Cards(more) \cap Cards(stacks[team]) = {}
    BY <1>2, <1>5 DEF EveryCardOnce
  <2> QED BY <2>2, <2>3, <2>4
<1>9. EveryCardOnce(after, more, stacks)
  BY <1>2, <1>6, <1>7, <1>8 DEF EveryCardOnce
<1> QED BY <1>9 DEF after, more

(* A whole trick goes to a stack.                                           *)
LEMMA TrickTaken ==
    ASSUME NEW hands, NEW trick \in Seq(Pack), NEW stacks \in [Teams -> Seq(Pack)],
           EveryCardOnce(hands, trick, stacks), NEW team \in Teams
    PROVE  EveryCardOnce(hands, << >>, [stacks EXCEPT ![team] = @ \o trick])
<1> DEFINE after == [stacks EXCEPT ![team] = @ \o trick]
           pile == stacks[team] \o trick
<1>1. /\ stacks[team] \in Seq(Pack) /\ IsInjective(stacks[team])
      /\ Cards(stacks[team]) \cap Cards(trick) = {} /\ IsInjective(trick)
  BY DEF EveryCardOnce
<1>2. Cards(pile) = Cards(stacks[team]) \cup Cards(trick) /\ IsInjective(pile)
  BY <1>1, ConcatCards
<1>3. \A t \in Teams : after[t] = IF t = team THEN pile ELSE stacks[t]
  OBVIOUS
<1> HIDE DEF after, pile
<1>4. \A t \in Teams : /\ Cards(after[t]) = Cards(stacks[t]) \cup (IF t = team THEN Cards(trick) ELSE {})
                       /\ IsInjective(after[t])
  BY <1>2, <1>3 DEF EveryCardOnce
<1>5. Cards(<< >>) = {} /\ IsInjective(<< >>)
  BY DEF Cards, IsInjective
<1>6. \A c \in Pack : \/ \E q \in Positions : c \in hands[q]
                      \/ \E t \in Teams : c \in Cards(after[t])
  BY <1>4 DEF EveryCardOnce
<1>7. \A p \in Positions : \A t \in Teams : hands[p] \cap Cards(after[t]) = {}
  BY <1>4 DEF EveryCardOnce
<1>8. \A one, other \in Teams : one # other => Cards(after[one]) \cap Cards(after[other]) = {}
  BY <1>4 DEF EveryCardOnce
<1>9. EveryCardOnce(hands, << >>, after)
  BY <1>4, <1>5, <1>6, <1>7, <1>8 DEF EveryCardOnce
<1> QED BY <1>9 DEF after


(* Both deals done, every card of the deck is in one hand.                  *)
DealtHands(deck, first, taker) ==
    [p \in Positions |-> CardsAt(deck, FirstShare(DealingRank(PlayDir, first, p)))
        \cup CardsAt(deck, LastShare(DealingRank(PlayDir, first, p), taker))]

LEMMA AllDealt ==
    ASSUME NEW deck, Shuffled(deck), NEW first \in Positions, NEW taker \in {0, 1, 2, 3},
           NEW hands, NEW stacks, hands = DealtHands(deck, first, taker)
    PROVE  /\ \A p \in Positions : IsFiniteSet(hands[p]) /\ Cardinality(hands[p]) = HandSize
           /\ HandsApart(hands)
           /\ (\A team \in Teams : stacks[team] = << >>) => EveryCardOnce(hands, << >>, stacks)
<1> DEFINE rank(p) == DealingRank(PlayDir, first, p)
<1>1. \A p \in Positions : rank(p) \in {0, 1, 2, 3}
  BY SeatFacts
<1>2. /\ \A p, q \in Positions : rank(p) = rank(q) => p = q
      /\ \A r \in {0, 1, 2, 3} : \E p \in Positions : rank(p) = r
  BY RankFacts
<1>3. \A p \in Positions : hands[p] = CardsAt(deck, Share(rank(p), taker))
  <2> TAKE p \in Positions
  <2>1. /\ FirstShare(rank(p)) \in SUBSET (1 .. DeckSize)
        /\ LastShare(rank(p), taker) \in SUBSET (1 .. DeckSize)
    BY <1>1, FirstShareInDeck, LastShareInDeck
  <2>2. hands[p] = CardsAt(deck, FirstShare(rank(p))) \cup CardsAt(deck, LastShare(rank(p), taker))
    BY DEF DealtHands
  <2> HIDE DEF rank
  <2> QED BY <2>1, <2>2, CardsAtFacts DEF Share
<1> HIDE DEF rank
<1>4. \A p \in Positions : /\ Share(rank(p), taker) \in SUBSET (1 .. DeckSize)
                           /\ IsFiniteSet(Share(rank(p), taker))
                           /\ Cardinality(Share(rank(p), taker)) = HandSize
  BY <1>1, SharesPartition, ShareSize
<1>5. \A p \in Positions : IsFiniteSet(hands[p]) /\ Cardinality(hands[p]) = HandSize
  BY <1>3, <1>4, CardsAtSize
<1>6. HandsApart(hands)
  <2> SUFFICES ASSUME NEW p \in Positions, NEW q \in Positions, p # q
               PROVE  hands[p] \cap hands[q] = {}
    BY DEF HandsApart
  <2>1. rank(p) # rank(q) /\ rank(p) \in {0, 1, 2, 3} /\ rank(q) \in {0, 1, 2, 3}
    BY <1>1, <1>2
  <2>2. Share(rank(p), taker) \cap Share(rank(q), taker) = {}
    <3>1. \A r, s \in {0, 1, 2, 3} : r # s => Share(r, taker) \cap Share(s, taker) = {}
      BY SharesPartition
    <3>2. PICK r \in {0, 1, 2, 3}, s \in {0, 1, 2, 3} : r = rank(p) /\ s = rank(q)
      BY <2>1, Zenon
    <3>3. Share(r, taker) \cap Share(s, taker) = {}
      BY <2>1, <3>1, <3>2, Zenon
    <3> QED BY <3>2, <3>3, Zenon
  <2>3. CardsAt(deck, Share(rank(p), taker)) \cap CardsAt(deck, Share(rank(q), taker)) = {}
    BY <1>4, <2>2, CardsAtFacts
  <2> QED BY <1>3, <2>3
<1>7. ASSUME \A team \in Teams : stacks[team] = << >>
      PROVE  EveryCardOnce(hands, << >>, stacks)
  <2>1. Cards(<< >>) = {} /\ IsInjective(<< >>)
    BY DEF Cards, IsInjective
  <2>2. \A c \in Pack : \E p \in Positions : c \in hands[p]
    <3> TAKE c \in Pack
    <3>1. PICK i \in 1 .. DeckSize : deck[i] = c
      BY ShuffledFacts
    <3>2. PICK r \in {0, 1, 2, 3} : i \in Share(r, taker)
      BY SharesPartition
    <3>3. PICK p \in Positions : rank(p) = r
      BY <1>2
    <3> QED BY <1>3, <3>1, <3>2, <3>3 DEF CardsAt
  <2> QED BY <1>6, <1>7, <2>1, <2>2 DEF EveryCardOnce
<1> QED BY <1>5, <1>6, <1>7

(* The deck that is rebuilt when all hands are empty.                       *)
LEMMA GatheredIsWhole ==
    ASSUME NEW hands, NEW stacks \in [Teams -> Seq(Pack)],
           EveryCardOnce(hands, << >>, stacks), \A p \in Positions : hands[p] = {},
           NEW gathered, gathered = stacks[NorthSouth] \o stacks[WestEast],
           Len(gathered) = DeckSize,
           NEW deck, deck = [i \in 1 .. DeckSize |-> gathered[i]]
    PROVE  Shuffled(deck)
<1>1. /\ NorthSouth \in Teams /\ WestEast \in Teams /\ NorthSouth # WestEast
      /\ \A team \in Teams : team = NorthSouth \/ team = WestEast
  BY DEF Teams, NorthSouth, WestEast
<1>2. /\ Cards(<< >>) = {}
      /\ IsInjective(stacks[NorthSouth]) /\ IsInjective(stacks[WestEast])
      /\ Cards(stacks[NorthSouth]) \cap Cards(stacks[WestEast]) = {}
  <2>1. Cards(<< >>) = {}
    BY DEF Cards
  <2> QED BY <1>1, <2>1, Zenon DEF EveryCardOnce
<1>3. /\ gathered \in Seq(Pack) /\ IsInjective(gathered)
      /\ Cards(gathered) = Cards(stacks[NorthSouth]) \cup Cards(stacks[WestEast])
  BY <1>1, <1>2, ConcatCards
<1>4. DOMAIN gathered = 1 .. DeckSize /\ gathered \in [1 .. DeckSize -> Pack]
  BY <1>3, LenProperties
<1>5. deck = gathered
  BY <1>4
<1>6. Pack \subseteq Cards(gathered)
  <2> SUFFICES ASSUME NEW c \in Pack PROVE c \in Cards(gathered)
    OBVIOUS
  <2>1. /\ \A p \in Positions : c \notin hands[p]
        /\ c \notin Cards(<< >>)
    BY <1>2
  <2>2. \E team \in Teams : c \in Cards(stacks[team])
    BY <2>1, Zenon DEF EveryCardOnce
  <2> QED BY <1>1, <1>3, <2>2, Zenon
<1>7. Cards(gathered) = Pack
  BY <1>4, <1>6 DEF Cards
<1> QED BY <1>3, <1>4, <1>5, <1>7 DEF Shuffled, WholeDeck

(* In one place, so counted once.                                           *)
LEMMA CopiesCount ==
    ASSUME NEW seq, NEW card
    PROVE  /\ card \notin Cards(seq) => Copies(seq, card) = 0
           /\ IsInjective(seq) /\ card \in Cards(seq) => Copies(seq, card) = 1
<1>1. ASSUME card \notin Cards(seq) PROVE Copies(seq, card) = 0
  <2>1. {i \in DOMAIN seq : seq[i] = card} = {}
    BY <1>1 DEF Cards
  <2> QED BY <2>1, FS_EmptySet DEF Copies, Quantify
<1>2. ASSUME IsInjective(seq), card \in Cards(seq) PROVE Copies(seq, card) = 1
  <2>1. PICK k \in DOMAIN seq : seq[k] = card
    BY <1>2 DEF Cards
  <2>2. {i \in DOMAIN seq : seq[i] = card} = {k}
    BY <1>2, <2>1 DEF IsInjective
  <2> QED BY <2>2, FS_Singleton DEF Copies, Quantify
<1> QED BY <1>1, <1>2

(* The places before the revealed card are dealt first, each to one rank.   *)
LEMMA FirstSharesPartition ==
    /\ \A r, s \in {0, 1, 2, 3} : r # s => FirstShare(r) \cap FirstShare(s) = {}
    /\ \A i \in 1 .. DeckSize :
          i < RevealedPos <=> \E rank \in {0, 1, 2, 3} : i \in FirstShare(rank)
<1> DEFINE give == FirstGive
           more == FirstPart - FirstGive
<1>1. ASSUME NEW i \in Int
      PROVE  /\ i \in FirstShare(0) <=> \/ 0 < i /\ i <= give
                                        \/ 4 * give < i /\ i <= 4 * give + more
             /\ i \in FirstShare(1) <=> \/ give < i /\ i <= 2 * give
                                        \/ 4 * give + more < i /\ i <= 4 * give + 2 * more
             /\ i \in FirstShare(2) <=> \/ 2 * give < i /\ i <= 3 * give
                                        \/ 4 * give + 2 * more < i /\ i <= 4 * give + 3 * more
             /\ i \in FirstShare(3) <=> \/ 3 * give < i /\ i <= 4 * give
                                        \/ 4 * give + 3 * more < i /\ i <= 4 * give + 4 * more
  BY DeckSizeFacts DEF FirstShare, Interval
<1>2. \A rank \in {0, 1, 2, 3} : FirstShare(rank) \in SUBSET Int
  BY DeckSizeFacts DEF FirstShare, Interval
<1>3. \A r, s \in {0, 1, 2, 3} : r # s => FirstShare(r) \cap FirstShare(s) = {}
  <2> SUFFICES ASSUME NEW r \in {0, 1, 2, 3}, NEW s \in {0, 1, 2, 3}, r # s,
                      NEW i \in FirstShare(r), i \in FirstShare(s)
               PROVE  FALSE
    OBVIOUS
  <2>1. i \in Int
    BY <1>2
  <2> QED BY <1>1, <2>1, DeckSizeFacts
<1>4. ASSUME NEW i \in 1 .. DeckSize
      PROVE  i < RevealedPos <=> \E rank \in {0, 1, 2, 3} : i \in FirstShare(rank)
  <2>1. i < RevealedPos <=> \/ i \in FirstShare(0) \/ i \in FirstShare(1)
                            \/ i \in FirstShare(2) \/ i \in FirstShare(3)
    BY <1>1, DeckSizeFacts DEF RevealedPos
  <2> QED BY <2>1
<1> QED BY <1>3, <1>4

(* While an asset is proposed a card is in one hand or not yet dealt.       *)
LEMMA OnceWhileAsking ==
    ASSUME Shuffled(m_Deck), NEW first \in Positions, NEW c \in Pack,
           \A p \in Positions :
              m_PlayersHand[p] = CardsAt(m_Deck, FirstShare(DealingRank(PlayDir, first, p)))
    PROVE  Held(c) + Undealt(c) = 1
<1>1. PICK k \in 1 .. DeckSize : m_Deck[k] = c
  BY ShuffledFacts
<1>2. \A i \in 1 .. DeckSize : m_Deck[i] = c <=> i = k
  BY <1>1, ShuffledFacts
<1>3. \A rank \in {0, 1, 2, 3} : FirstShare(rank) \subseteq 1 .. DeckSize
  BY FirstShareInDeck
<1>4. \A p \in Positions : DealingRank(PlayDir, first, p) \in {0, 1, 2, 3}
  BY SeatFacts
<1>5. \A p \in Positions :
          c \in m_PlayersHand[p] <=> k \in FirstShare(DealingRank(PlayDir, first, p))
  BY <1>1, <1>2, <1>3, <1>4 DEF CardsAt
<1>6. {i \in RevealedPos .. DeckSize : m_Deck[i] = c} = IF k < RevealedPos THEN {} ELSE {k}
  BY <1>1, <1>2, DeckSizeFacts DEF RevealedPos
<1>7. CASE k < RevealedPos
  <2>1. PICK rank \in {0, 1, 2, 3} : k \in FirstShare(rank)
    BY <1>7, FirstSharesPartition
  <2>2. PICK p \in Positions : DealingRank(PlayDir, first, p) = rank
    BY RankFacts
  <2>3. \A q \in Positions : c \in m_PlayersHand[q] <=> q = p
    <3>1. ASSUME NEW q \in Positions, c \in m_PlayersHand[q] PROVE q = p
      <4>1. DealingRank(PlayDir, first, q) = rank
        BY <1>4, <1>5, <2>1, <3>1, FirstSharesPartition
      <4> QED BY <2>2, <4>1, RankFacts
    <3> QED BY <1>5, <2>1, <2>2, <3>1
  <2>4. {q \in Positions : c \in m_PlayersHand[q]} = {p}
    BY <2>3
  <2>5. Held(c) = 1
    BY <2>4, FS_Singleton DEF Held, Quantify
  <2>6. Undealt(c) = 0
    BY <1>6, <1>7, FS_EmptySet DEF Undealt, Quantify
  <2> QED BY <2>5, <2>6
<1>8. CASE ~(k < RevealedPos)
  <2>1. {q \in Positions : c \in m_PlayersHand[q]} = {}
    BY <1>4, <1>5, <1>8, FirstSharesPartition
  <2>2. Held(c) = 0
    BY <2>1, FS_EmptySet DEF Held, Quantify
  <2>3. Undealt(c) = 1
    BY <1>6, <1>8, FS_Singleton DEF Undealt, Quantify
  <2> QED BY <2>2, <2>3
<1> QED BY <1>7, <1>8

LEMMA OnceIsConserved ==
    ASSUME EveryCardOnce(m_PlayersHand, m_PlayedCards, m_TeamPlayedCards), NEW c \in Pack
    PROVE  Held(c) + Copies(m_PlayedCards, c)
             + Copies(m_TeamPlayedCards[NorthSouth], c) + Copies(m_TeamPlayedCards[WestEast], c) = 1
<1> DEFINE held == Held(c)
           played == Copies(m_PlayedCards, c)
           north == Copies(m_TeamPlayedCards[NorthSouth], c)
           west == Copies(m_TeamPlayedCards[WestEast], c)
<1>1. /\ NorthSouth \in Teams /\ WestEast \in Teams /\ NorthSouth # WestEast
      /\ \A team \in Teams : team = NorthSouth \/ team = WestEast
  BY DEF Teams, NorthSouth, WestEast
<1>2. /\ IsInjective(m_PlayedCards) /\ IsInjective(m_TeamPlayedCards[NorthSouth])
      /\ IsInjective(m_TeamPlayedCards[WestEast])
  BY <1>1 DEF EveryCardOnce
<1>3. /\ (\A p \in Positions : c \notin m_PlayersHand[p]) => held = 0
      /\ (\E p \in Positions : c \in m_PlayersHand[p]) => held = 1
  <2>1. ASSUME \A p \in Positions : c \notin m_PlayersHand[p] PROVE held = 0
    <3>1. {p \in Positions : c \in m_PlayersHand[p]} = {}
      BY <2>1
    <3> QED BY <3>1, FS_EmptySet DEF Held, Quantify
  <2>2. ASSUME NEW p \in Positions, c \in m_PlayersHand[p] PROVE held = 1
    <3>1. {q \in Positions : c \in m_PlayersHand[q]} = {p}
      BY <2>2 DEF EveryCardOnce, HandsApart
    <3> QED BY <3>1, FS_Singleton DEF Held, Quantify
  <2> QED BY <2>1, <2>2
<1>4. /\ c \notin Cards(m_PlayedCards) => played = 0
      /\ c \in Cards(m_PlayedCards) => played = 1
      /\ c \notin Cards(m_TeamPlayedCards[NorthSouth]) => north = 0
      /\ c \in Cards(m_TeamPlayedCards[NorthSouth]) => north = 1
      /\ c \notin Cards(m_TeamPlayedCards[WestEast]) => west = 0
      /\ c \in Cards(m_TeamPlayedCards[WestEast]) => west = 1
  BY <1>2, CopiesCount
<1> HIDE DEF held, played, north, west
<1>5. CASE \E p \in Positions : c \in m_PlayersHand[p]
  <2>1. held = 1 /\ played = 0 /\ north = 0 /\ west = 0
    BY <1>1, <1>3, <1>4, <1>5 DEF EveryCardOnce
  <2> QED BY <2>1 DEF held, played, north, west
<1>6. CASE c \in Cards(m_PlayedCards)
  <2>1. held = 0 /\ played = 1 /\ north = 0 /\ west = 0
    BY <1>1, <1>3, <1>4, <1>6 DEF EveryCardOnce
  <2> QED BY <2>1 DEF held, played, north, west
<1>7. CASE c \in Cards(m_TeamPlayedCards[NorthSouth])
  <2>1. held = 0 /\ played = 0 /\ north = 1 /\ west = 0
    BY <1>1, <1>3, <1>4, <1>7 DEF EveryCardOnce
  <2> QED BY <2>1 DEF held, played, north, west
<1>8. CASE c \in Cards(m_TeamPlayedCards[WestEast])
  <2>1. held = 0 /\ played = 0 /\ north = 0 /\ west = 1
    BY <1>1, <1>3, <1>4, <1>8 DEF EveryCardOnce
  <2> QED BY <2>1 DEF held, played, north, west
<1> QED BY <1>1, <1>5, <1>6, <1>7, <1>8 DEF EveryCardOnce


----------------------------------------------------------------------------
(* The belote.                                                              *)
Part(asset, value) == [colour |-> asset, value |-> value]

HeldBy(hands, card) == {p \in Positions : card \in hands[p]}

BeloteOf(hands, asset, owner, events) ==
    LET queen == HeldBy(hands, Part(asset, "Q"))
        king  == HeldBy(hands, Part(asset, "K"))
    IN  /\ queen \cap king # {} => events = << >>
        /\ (events = << >>) = (owner = NoTeam)
        /\ events # << >> =>
              /\ events[1].event = "Belote"
              /\ owner = Team(events[1].by)
              /\ \A i \in 2 .. Len(events) :
                    events[i] = [event |-> "Rebelote", by |-> events[1].by]
              /\ queen \cup king = IF Len(events) = 1 THEN {events[1].by} ELSE {}
              /\ Len(events) \in {1, 2}

(* Whoever plays one of the two cards and holds the other one announces the *)
(* belote, and only he can play the other one.                              *)
LEMMA BeloteStep ==
    ASSUME GameInv, HandsApart(m_PlayersHand),
           BeloteOf(m_PlayersHand, m_CurrentAsset, m_TeamOwningBelote, announced),
           m_CurrentPlayer \in Positions, NEW card \in m_PlayersHand[m_CurrentPlayer], card \in Pack
    PROVE  BeloteOf(HandsAfter(card), m_CurrentAsset, OwnerAfter(card), AnnouncedAfter(card))
<1> DEFINE cur   == m_CurrentPlayer
           hands == m_PlayersHand
           after == HandsAfter(card)
           Q == Part(m_CurrentAsset, "Q")
           K == Part(m_CurrentAsset, "K")
<1>1. /\ announced \in Seq([event : {"Belote", "Rebelote"}, by : Positions])
      /\ hands \in [Positions -> SUBSET Pack] /\ cur \in Positions /\ card \in hands[cur]
      /\ NoTeam \notin Teams /\ Team(cur) \in Teams
  BY SeatFacts DEF GameInv, TypeOK
<1>2. \A p \in Positions : after[p] = hands[p] \ (IF p = cur THEN {card} ELSE {})
  BY <1>1 DEF HandsAfter
<1>3. \A p, q \in Positions : \A c : c \in hands[p] /\ c \in hands[q] => p = q
  BY DEF HandsApart
<1>4. Q # K /\ (IsBelotePart(card) <=> card = Q \/ card = K)
  <2>1. card = [colour |-> card.colour, value |-> card.value]
    BY DEF Pack
  <2> QED BY <2>1 DEF IsBelotePart, Part
<1>5. card = Q => SecondPart(card) = K
  BY DEF SecondPart, Part
<1>6. card = K => SecondPart(card) = Q
  BY DEF SecondPart, Part
<1>7. /\ HeldBy(hands, Q) \cap HeldBy(hands, K) # {} => announced = << >>
      /\ (announced = << >>) = (m_TeamOwningBelote = NoTeam)
      /\ announced # << >> =>
            /\ announced[1].event = "Belote"
            /\ m_TeamOwningBelote = Team(announced[1].by)
            /\ \A i \in 2 .. Len(announced) :
                  announced[i] = [event |-> "Rebelote", by |-> announced[1].by]
            /\ HeldBy(hands, Q) \cup HeldBy(hands, K)
                  = IF Len(announced) = 1 THEN {announced[1].by} ELSE {}
            /\ Len(announced) \in {1, 2}
  BY DEF BeloteOf
<1> HIDE DEF cur, hands, after, Q, K
<1>8. CASE CheckForBelote(card)
  <2>1. PICK mine \in {Q, K}, other \in {Q, K} :
            card = mine /\ other # mine /\ other \in hands[cur]
            /\ {Q, K} = {mine, other}
    BY <1>4, <1>5, <1>6, <1>8 DEF CheckForBelote, hands, cur
  <2>2. /\ announced = << >> /\ OwnerAfter(card) = Team(cur)
        /\ AnnouncedAfter(card) = << [event |-> "Belote", by |-> cur] >>
    <3>1. announced = << >>
      BY <1>7, <1>8, Zenon DEF CheckForBelote
    <3>2. AnnouncedAfter(card) = Append(announced, [event |-> "Belote", by |-> cur])
      BY <1>8, Zenon DEF AnnouncedAfter, cur
    <3>3. AnnouncedAfter(card) = << [event |-> "Belote", by |-> cur] >>
      BY <3>1, <3>2
    <3> QED BY <1>8, <3>1, <3>3 DEF OwnerAfter, cur
  <2>3. HeldBy(after, mine) = {} /\ HeldBy(after, other) = {cur}
    BY <1>1, <1>2, <1>3, <2>1 DEF HeldBy
  <2>4. HeldBy(after, Q) \cap HeldBy(after, K) = {} /\ HeldBy(after, Q) \cup HeldBy(after, K) = {cur}
    BY <2>1, <2>3
  <2>5. \A e : e = << [event |-> "Belote", by |-> cur] >> =>
            /\ e # << >> /\ Len(e) = 1 /\ e[1].event = "Belote" /\ e[1].by = cur
            /\ 2 .. Len(e) = {}
    OBVIOUS
  <2>6. Team(cur) # NoTeam
    BY <1>1
  <2> DEFINE e == AnnouncedAfter(card)
             o == OwnerAfter(card)
  <2>7. /\ e # << >> /\ Len(e) = 1 /\ e[1].event = "Belote" /\ e[1].by = cur
        /\ 2 .. Len(e) = {} /\ o = Team(e[1].by) /\ o # NoTeam
    BY <2>2, <2>5, <2>6
  <2> HIDE DEF e, o
  <2>8. BeloteOf(after, m_CurrentAsset, o, e)
    BY <2>4, <2>7 DEF BeloteOf, Q, K
  <2> QED BY <2>8 DEF e, o, after
<1>9. CASE IsBelotePart(card) /\ ~CheckForBelote(card) /\ announced # << >>
  <2>1. cur \in HeldBy(hands, Q) \cup HeldBy(hands, K)
    BY <1>1, <1>4, <1>9 DEF HeldBy
  <2>2. /\ Len(announced) = 1 /\ announced[1].by = cur /\ announced[1].event = "Belote"
        /\ HeldBy(hands, Q) \cup HeldBy(hands, K) = {cur}
        /\ HeldBy(hands, Q) \cap HeldBy(hands, K) = {}
        /\ m_TeamOwningBelote = Team(cur) /\ m_TeamOwningBelote # NoTeam
    BY <1>7, <1>9, <2>1
  <2>3. HeldBy(after, Q) = {} /\ HeldBy(after, K) = {}
    BY <1>1, <1>2, <1>4, <1>9, <2>2 DEF HeldBy
  <2>4. AnnouncedAfter(card) = Append(announced, [event |-> "Rebelote", by |-> cur])
    <3>1. CheckForRebelote(card)
      BY <1>9, <2>2, Zenon DEF CheckForRebelote, cur
    <3> QED BY <1>9, <3>1, Zenon DEF AnnouncedAfter, cur
  <2>5. OwnerAfter(card) = Team(cur)
    BY <1>9, <2>2 DEF OwnerAfter
  <2> DEFINE e == AnnouncedAfter(card)
             o == OwnerAfter(card)
  <2>6. /\ e # << >> /\ Len(e) = 2 /\ e[1].event = "Belote" /\ e[1].by = cur
        /\ e[2] = [event |-> "Rebelote", by |-> cur]
    <3> DEFINE Events == [event : {"Belote", "Rebelote"}, by : Positions]
               last == [event |-> "Rebelote", by |-> cur]
    <3>1. announced \in Seq(Events) /\ last \in Events /\ e = Append(announced, last)
      BY <1>1, <2>4
    <3> HIDE DEF Events, last, e
    <3>2. /\ Len(e) = Len(announced) + 1 /\ e # << >> /\ e[Len(announced) + 1] = last
          /\ \A i \in 1 .. Len(announced) : e[i] = announced[i]
      BY <3>1, AppendProperties
    <3>3. Len(e) = 2 /\ e[1] = announced[1] /\ e[2] = last
      BY <2>2, <3>2
    <3> QED BY <2>2, <3>2, <3>3 DEF last
  <2>7. o = Team(e[1].by) /\ o # NoTeam
    BY <2>2, <2>5, <2>6
  <2>8. \A i \in 2 .. Len(e) : i = 2
    BY <2>6
  <2> HIDE DEF e, o
  <2>9. \A i \in 2 .. Len(e) : e[i] = [event |-> "Rebelote", by |-> e[1].by]
    BY <2>6, <2>8
  <2>10. BeloteOf(after, m_CurrentAsset, o, e)
    BY <2>3, <2>6, <2>7, <2>9 DEF BeloteOf, Q, K
  <2> QED BY <2>10 DEF e, o, after
<1>10. CASE ~CheckForBelote(card) /\ (~IsBelotePart(card) \/ announced = << >>)
  <2>1. ~CheckForRebelote(card)
    <3>1. CASE ~IsBelotePart(card)
      BY <3>1 DEF CheckForRebelote
    <3>2. CASE announced = << >>
      BY <1>1, <1>7, <3>2 DEF CheckForRebelote, cur
    <3> QED BY <1>10, <3>1, <3>2
  <2>2. AnnouncedAfter(card) = announced
    BY <1>10, <2>1, Zenon DEF AnnouncedAfter
  <2>3. OwnerAfter(card) = m_TeamOwningBelote
    BY <1>10 DEF OwnerAfter
  <2>4. CASE announced = << >>
    <3>1. m_TeamOwningBelote = NoTeam
      BY <1>7, <2>4, Zenon
    <3>2. BeloteOf(after, m_CurrentAsset, m_TeamOwningBelote, announced)
      BY <2>4, <3>1 DEF BeloteOf
    <3> QED BY <2>2, <2>3, <3>2 DEF after
  <2>5. CASE ~IsBelotePart(card)
    <3>1. HeldBy(after, Q) = HeldBy(hands, Q) /\ HeldBy(after, K) = HeldBy(hands, K)
      BY <1>1, <1>2, <1>4, <2>5 DEF HeldBy
    <3>2. BeloteOf(after, m_CurrentAsset, m_TeamOwningBelote, announced)
      BY <3>1, Zenon DEF BeloteOf, Q, K, hands
    <3> QED BY <2>2, <2>3, <3>2 DEF after
  <2> QED BY <1>10, <2>4, <2>5
<1> QED BY <1>8, <1>9, <1>10 DEF after


----------------------------------------------------------------------------
(* The invariant that says where the cards are.  While an asset is proposed *)
(* the hands are the first shares of a whole deck; while tricks are played  *)
(* the hands are counted, disjoint, and the asked one is not empty.  What   *)
(* the teams have taken is only thrown away between the rounds of a match:  *)
(* in the first match every card is in one place, and a later match begins  *)
(* with a whole deck on the stacks.                                         *)
Stacked(stacks) == Len(stacks[NorthSouth]) + Len(stacks[WestEast])

SumOf(remaining) == remaining[0] + remaining[1] + remaining[2] + remaining[3]

InStep(hands, remaining, player, trick) ==
    /\ \A p \in Positions : remaining[p] = Cardinality(hands[p])
    /\ \A p \in Positions :
          remaining[p] = remaining[player]
            - IF DealingRank(PlayDir, player, p) >= 4 - Len(trick) THEN 1 ELSE 0

NothingStacked == \A team \in Teams : m_TeamPlayedCards[team] = << >>

DeckInv == matches > 0 => Shuffled(m_Deck)

AskingInv ==
    IsAsking => /\ \A p \in Positions :
                      m_PlayersHand[p] = CardsAt(m_Deck,
                          FirstShare(DealingRank(PlayDir, NextAfter(m_CurrentDealer), p)))
                /\ announced = << >> /\ m_TeamOwningBelote = NoTeam
                /\ matches = 1 => NothingStacked

PlayingInv ==
    IsPlaying => /\ \A p \in Positions : IsFiniteSet(m_PlayersHand[p])
                 /\ HandsApart(m_PlayersHand)
                 /\ InStep(m_PlayersHand, m_RemainingCards, m_CurrentPlayer, m_PlayedCards)
                 /\ BeloteOf(m_PlayersHand, m_CurrentAsset, m_TeamOwningBelote, announced)
                 /\ request.cards
                      = Playable(m_PlayersHand[m_CurrentPlayer], m_CurrentAsset, m_PlayedCards)
                 /\ m_PlayersHand[m_CurrentPlayer] # {}
                 /\ matches = 1 =>
                      /\ EveryCardOnce(m_PlayersHand, m_PlayedCards, m_TeamPlayedCards)
                      /\ SumOf(m_RemainingCards) + Len(m_PlayedCards)
                           + Stacked(m_TeamPlayedCards) = DeckSize

StacksInv == /\ matches = 0 => NothingStacked
             /\ matches = 1 /\ request = NoRequest => Stacked(m_TeamPlayedCards) = DeckSize
             /\ matches >= 2 => Stacked(m_TeamPlayedCards) >= DeckSize

DefinedInv == PlayDir = CW /\ matches <= 1 => NothingOutOfBounds

CardsInv == DeckInv /\ AskingInv /\ PlayingInv /\ StacksInv /\ DefinedInv

(* A card that is played leaves its hand, whatever follows.                 *)
LEMMA CardMoves ==
    ASSUME GameInv, CardsInv, ~undefined, NEW card \in request.cards
    PROVE  /\ IsPlaying /\ m_CurrentPlayer \in Positions /\ matches # 0
           /\ \A p \in Positions : /\ IsFiniteSet(HandsAfter(card)[p])
                                   /\ RemainingAfter[p] = Cardinality(HandsAfter(card)[p])
                                   /\ m_RemainingCards[p] \in Int
                                   /\ RemainingAfter[p]
                                        = m_RemainingCards[p] - IF p = m_CurrentPlayer THEN 1 ELSE 0
           /\ \A p \in Positions :
                 m_RemainingCards[p] = m_RemainingCards[m_CurrentPlayer]
                   - IF DealingRank(PlayDir, m_CurrentPlayer, p) >= 4 - Len(m_PlayedCards)
                     THEN 1 ELSE 0
           /\ m_RemainingCards[m_CurrentPlayer] >= 1
           /\ HandsApart(HandsAfter(card))
           /\ BeloteOf(HandsAfter(card), m_CurrentAsset, OwnerAfter(card), AnnouncedAfter(card))
           /\ m_PlayedCards \in Seq(Pack) /\ Len(TrickAfter(card)) = Len(m_PlayedCards) + 1
           /\ matches = 1 =>
                 /\ EveryCardOnce(HandsAfter(card), TrickAfter(card), m_TeamPlayedCards)
                 /\ SumOf(RemainingAfter) + Len(TrickAfter(card)) + Stacked(m_TeamPlayedCards)
                      = DeckSize
<1>1. /\ IsPlaying /\ m_CurrentPlayer \in Positions /\ matches # 0 /\ card \in Pack
      /\ m_PlayedCards \in Seq(Pack) /\ m_PlayersHand \in [Positions -> SUBSET Pack]
      /\ m_RemainingCards \in [Positions -> Int] /\ m_TeamPlayedCards \in [Teams -> Seq(Pack)]
  BY CardPlayedParts, MatchesCount DEF IsPlaying, GameInv, TypeOK
<1>2. /\ \A p \in Positions : IsFiniteSet(m_PlayersHand[p])
      /\ HandsApart(m_PlayersHand)
      /\ InStep(m_PlayersHand, m_RemainingCards, m_CurrentPlayer, m_PlayedCards)
      /\ BeloteOf(m_PlayersHand, m_CurrentAsset, m_TeamOwningBelote, announced)
      /\ card \in m_PlayersHand[m_CurrentPlayer]
      /\ matches = 1 =>
            /\ EveryCardOnce(m_PlayersHand, m_PlayedCards, m_TeamPlayedCards)
            /\ SumOf(m_RemainingCards) + Len(m_PlayedCards) + Stacked(m_TeamPlayedCards) = DeckSize
  BY <1>1, PlayableInHand DEF CardsInv, PlayingInv
<1>3. \A p \in Positions :
          /\ HandsAfter(card)[p]
                = IF p = m_CurrentPlayer THEN m_PlayersHand[p] \ {card} ELSE m_PlayersHand[p]
          /\ RemainingAfter[p] = m_RemainingCards[p] - IF p = m_CurrentPlayer THEN 1 ELSE 0
  <2> TAKE p \in Positions
  <2>1. HandsAfter(card)[p]
            = IF p = m_CurrentPlayer THEN m_PlayersHand[p] \ {card} ELSE m_PlayersHand[p]
    BY <1>1 DEF HandsAfter
  <2>2. RemainingAfter[p]
            = IF p = m_CurrentPlayer THEN m_RemainingCards[p] - 1 ELSE m_RemainingCards[p]
    BY <1>1 DEF RemainingAfter
  <2>3. m_RemainingCards[p] \in Int
    BY <1>1
  <2> QED BY <2>1, <2>2, <2>3
<1>4. \A p \in Positions : /\ IsFiniteSet(HandsAfter(card)[p])
                           /\ RemainingAfter[p] = Cardinality(HandsAfter(card)[p])
  <2> TAKE p \in Positions
  <2>1. m_RemainingCards[p] = Cardinality(m_PlayersHand[p]) /\ IsFiniteSet(m_PlayersHand[p])
    BY <1>2 DEF InStep
  <2>2. CASE p = m_CurrentPlayer
    <3>1. card \in m_PlayersHand[p]
      BY <1>2, <2>2
    <3>2. /\ IsFiniteSet(m_PlayersHand[p] \ {card})
          /\ Cardinality(m_PlayersHand[p] \ {card}) = Cardinality(m_PlayersHand[p]) - 1
      BY <2>1, <3>1, FS_RemoveElement
    <3>3. /\ HandsAfter(card)[p] = m_PlayersHand[p] \ {card}
          /\ RemainingAfter[p] = m_RemainingCards[p] - 1
      BY <1>3, <2>2
    <3> QED BY <2>1, <3>2, <3>3, Zenon
  <2>3. CASE p # m_CurrentPlayer
    <3>1. /\ HandsAfter(card)[p] = m_PlayersHand[p]
          /\ RemainingAfter[p] = m_RemainingCards[p] - 0 /\ m_RemainingCards[p] \in Int
      <4>1. m_RemainingCards[p] \in Int
        BY <1>1
      <4> QED BY <1>3, <2>3, <4>1, Zenon
    <3>2. RemainingAfter[p] = m_RemainingCards[p]
      BY <3>1
    <3> QED BY <2>1, <3>1, <3>2, Zenon
  <2> QED BY <2>2, <2>3
<1>5. m_RemainingCards[m_CurrentPlayer] >= 1
  <2>1. Cardinality(HandsAfter(card)[m_CurrentPlayer]) \in Nat
    BY <1>1, <1>4, FS_CardinalityType
  <2>2. RemainingAfter[m_CurrentPlayer] \in Nat
    BY <1>1, <1>4, <2>1, Zenon
  <2>3. m_RemainingCards[m_CurrentPlayer] \in Int
        /\ RemainingAfter[m_CurrentPlayer] = m_RemainingCards[m_CurrentPlayer] - 1
    BY <1>1, <1>3
  <2> QED BY <2>2, <2>3
<1>6. HandsApart(HandsAfter(card))
  BY <1>2, <1>3 DEF HandsApart
<1>7. BeloteOf(HandsAfter(card), m_CurrentAsset, OwnerAfter(card), AnnouncedAfter(card))
  BY <1>1, <1>2, BeloteStep
<1>8. Len(TrickAfter(card)) = Len(m_PlayedCards) + 1
  BY <1>1 DEF TrickAfter
<1>9. ASSUME matches = 1
      PROVE  /\ EveryCardOnce(HandsAfter(card), TrickAfter(card), m_TeamPlayedCards)
             /\ SumOf(RemainingAfter) + Len(TrickAfter(card)) + Stacked(m_TeamPlayedCards)
                  = DeckSize
  <2>1. EveryCardOnce(HandsAfter(card), TrickAfter(card), m_TeamPlayedCards)
    BY <1>1, <1>2, <1>9, OneCardPlayed DEF HandsAfter, TrickAfter
  <2>2. SumOf(RemainingAfter) = SumOf(m_RemainingCards) - 1 /\ SumOf(m_RemainingCards) \in Int
    <3> DEFINE after(p) == RemainingAfter[p]
               before(p) == m_RemainingCards[p]
    <3>1. \A p \in {0, 1, 2, 3} : /\ before(p) \in Int
                                   /\ after(p) = before(p) - IF p = m_CurrentPlayer THEN 1 ELSE 0
      BY <1>1, <1>3, SeatFacts
    <3>2. m_CurrentPlayer \in {0, 1, 2, 3}
      BY <1>1, SeatFacts
    <3> HIDE DEF after, before
    <3>3. /\ \A p \in {0, 1, 2, 3} \ {m_CurrentPlayer} : after(p) = before(p)
          /\ after(m_CurrentPlayer) = before(m_CurrentPlayer) - 1
      BY <3>1, <3>2
    <3>4. /\ after(0) + after(1) + after(2) + after(3)
                = (before(0) + before(1) + before(2) + before(3)) - 1
          /\ before(0) + before(1) + before(2) + before(3) \in Int
      <4>1. CASE m_CurrentPlayer = 0
        BY <3>1, <3>3, <4>1
      <4>2. CASE m_CurrentPlayer = 1
        BY <3>1, <3>3, <4>2
      <4>3. CASE m_CurrentPlayer = 2
        BY <3>1, <3>3, <4>3
      <4>4. CASE m_CurrentPlayer = 3
        BY <3>1, <3>3, <4>4
      <4> QED BY <3>2, <4>1, <4>2, <4>3, <4>4
    <3>5. SumOf(RemainingAfter) = after(0) + after(1) + after(2) + after(3)
      BY DEF after, SumOf
    <3>6. SumOf(m_RemainingCards) = before(0) + before(1) + before(2) + before(3)
      BY DEF before, SumOf
    <3> QED BY <3>4, <3>5, <3>6, Zenon
  <2>3. Len(m_PlayedCards) \in Nat /\ Stacked(m_TeamPlayedCards) \in Nat
    BY <1>1 DEF Stacked, Teams
  <2>4. SumOf(m_RemainingCards) + Len(m_PlayedCards) + Stacked(m_TeamPlayedCards) = DeckSize
    BY <1>2, <1>9
  <2>5. \A sum \in Int, played, stacked \in Nat :
            (sum - 1) + (played + 1) + stacked = sum + played + stacked
    OBVIOUS
  <2>6. SumOf(RemainingAfter) + Len(TrickAfter(card)) + Stacked(m_TeamPlayedCards) = DeckSize
    BY <1>8, <2>2, <2>3, <2>4, <2>5, Zenon
  <2> QED BY <2>1, <2>6, Zenon
<1>10. \A p \in Positions :
          m_RemainingCards[p] = m_RemainingCards[m_CurrentPlayer]
            - IF DealingRank(PlayDir, m_CurrentPlayer, p) >= 4 - Len(m_PlayedCards)
              THEN 1 ELSE 0
  BY <1>2 DEF InStep
<1> QED BY <1>1, <1>3, <1>4, <1>5, <1>6, <1>7, <1>8, <1>9, <1>10

(* The player who is next in a trick has as many cards as the one before    *)
(* him had; when the trick ends all have the same number.                   *)
LEMMA StepGoesOn ==
    ASSUME GameInv, CardsInv, ~undefined, NEW card \in request.cards, Len(TrickAfter(card)) < 4
    PROVE  /\ InStep(HandsAfter(card), RemainingAfter, NextAfter(m_CurrentPlayer), TrickAfter(card))
           /\ HandsAfter(card)[NextAfter(m_CurrentPlayer)] # {}
<1> DEFINE cur == m_CurrentPlayer
           next == NextAfter(m_CurrentPlayer)
           len == Len(m_PlayedCards)
           left == m_RemainingCards[m_CurrentPlayer]
           rank(p) == DealingRank(PlayDir, m_CurrentPlayer, p)
           rankNext(p) == DealingRank(PlayDir, NextAfter(m_CurrentPlayer), p)
<1>1. /\ cur \in Positions /\ next \in Positions /\ len \in Nat /\ len + 1 < 4
      /\ left \in Int /\ left >= 1 /\ Len(TrickAfter(card)) = len + 1
  BY CardMoves, SeatFacts
<1>2. \A p \in Positions : /\ rank(p) \in {0, 1, 2, 3}
                           /\ p # cur => rankNext(p) = rank(p) - 1
  BY <1>1, SeatFacts, RankFacts
<1>3. rank(next) = 1 /\ rankNext(cur) = 3 /\ next # cur
  BY <1>1, RankFacts
<1>4. \A p \in Positions :
          RemainingAfter[p] = left - (IF rank(p) >= 4 - len THEN 1 ELSE 0)
                                - (IF p = cur THEN 1 ELSE 0)
  BY CardMoves
<1>5. \A p \in Positions : p = cur => rank(p) = 0
  BY <1>1, RankFacts
<1> HIDE DEF cur, next, len, left, rank, rankNext
<1>6. RemainingAfter[next] = left
  BY <1>1, <1>3, <1>4
<1>7. \A p \in Positions :
          RemainingAfter[p] = RemainingAfter[next] - IF rankNext(p) >= 4 - (len + 1) THEN 1 ELSE 0
  BY <1>1, <1>2, <1>3, <1>4, <1>5, <1>6
<1>8. InStep(HandsAfter(card), RemainingAfter, next, TrickAfter(card))
  <2>1. \A p \in Positions : RemainingAfter[p] = Cardinality(HandsAfter(card)[p])
    BY CardMoves
  <2> QED BY <1>1, <1>7, <2>1 DEF InStep, rankNext, next
<1>9. HandsAfter(card)[next] # {}
  <2>1. Cardinality(HandsAfter(card)[next]) = left
    BY <1>1, <1>6, CardMoves
  <2>2. left # 0
    BY <1>1
  <2> QED BY <2>1, <2>2, FS_EmptySet, Zenon
<1> QED BY <1>8, <1>9 DEF next

LEMMA StepEnds ==
    ASSUME GameInv, CardsInv, ~undefined, NEW card \in request.cards, Len(TrickAfter(card)) = 4
    PROVE  /\ \A p \in Positions : RemainingAfter[p] = RemainingAfter[South]
           /\ \A p \in Positions : InStep(HandsAfter(card), RemainingAfter, p, << >>)
           /\ RemainingAfter[South] \in Nat
           /\ RemainingAfter[South] = 0 => \A p \in Positions : HandsAfter(card)[p] = {}
           /\ RemainingAfter[South] # 0 => \A p \in Positions : HandsAfter(card)[p] # {}
<1> DEFINE cur == m_CurrentPlayer
           len == Len(m_PlayedCards)
           left == m_RemainingCards[m_CurrentPlayer]
           rank(p) == DealingRank(PlayDir, m_CurrentPlayer, p)
<1>1. cur \in Positions /\ South \in Positions /\ len = 3 /\ left \in Int
  <2>1. m_PlayedCards \in Seq(Pack) /\ Len(TrickAfter(card)) = Len(m_PlayedCards) + 1
    BY CardMoves
  <2>2. len = 3
    <3>1. Len(m_PlayedCards) \in Nat
      BY <2>1, LenProperties
    <3>2. \A n \in Nat : n + 1 = 4 => n = 3
      OBVIOUS
    <3> QED BY <2>1, <3>1, <3>2, Zenon
  <2> QED BY <2>2, CardMoves, SeatFacts
<1>2. \A p \in Positions : /\ rank(p) \in {0, 1, 2, 3}
                           /\ p = cur => rank(p) = 0
                           /\ p # cur => rank(p) >= 1
  BY <1>1, SeatFacts, RankFacts
<1>3. \A p \in Positions :
          RemainingAfter[p] = left - (IF rank(p) >= 4 - len THEN 1 ELSE 0)
                                - (IF p = cur THEN 1 ELSE 0)
  BY CardMoves
<1> HIDE DEF cur, len, left, rank
<1>4. \A p \in Positions : RemainingAfter[p] = left - 1
  BY <1>1, <1>2, <1>3
<1>5. \A p \in Positions : /\ RemainingAfter[p] = RemainingAfter[South]
                           /\ RemainingAfter[p] = Cardinality(HandsAfter(card)[p])
                           /\ IsFiniteSet(HandsAfter(card)[p])
  BY <1>1, <1>4, CardMoves
<1>6. RemainingAfter[South] \in Nat
  BY <1>1, <1>5, FS_CardinalityType
<1>7. \A p \in Positions : RemainingAfter[South] = 0 <=> HandsAfter(card)[p] = {}
  BY <1>5, FS_EmptySet
<1>8. \A p \in Positions : InStep(HandsAfter(card), RemainingAfter, p, << >>)
  <2> TAKE p \in Positions
  <2>1. \A q \in Positions : DealingRank(PlayDir, p, q) < 4
    BY SeatFacts
  <2>2. \A q \in Positions : RemainingAfter[q] = RemainingAfter[p] - 0
    BY <1>1, <1>4
  <2>3. Len(<< >>) = 0
    OBVIOUS
  <2> QED BY <1>5, <2>1, <2>2, <2>3, SeatFacts DEF InStep
<1> QED BY <1>5, <1>6, <1>7, <1>8


----------------------------------------------------------------------------
(* Every step keeps it.                                                     *)
LEMMA CardsInit == Init => CardsInv
<1> SUFFICES ASSUME Init PROVE CardsInv
  OBVIOUS
<1>1. matches = 0 /\ request = NoRequest /\ undefined = FALSE /\ NothingStacked
  BY DEF Init, NothingStacked
<1>2. ~IsAsking /\ ~IsPlaying
  BY <1>1, RequestFacts DEF IsAsking, IsPlaying
<1> QED BY <1>1, <1>2
        DEF CardsInv, DeckInv, AskingInv, PlayingInv, StacksInv, DefinedInv, NothingOutOfBounds

(* A deal from a whole deck.                                                *)
LEMMA DealCards ==
    ASSUME NEW dealer \in Positions, NEW deck, Shuffled(deck), PreTurn(dealer, deck),
           undefined' = FALSE, matches' \in Nat, matches' > 0,
           matches' = 1 => NothingStacked',
           matches' >= 2 => Stacked(m_TeamPlayedCards') >= DeckSize
    PROVE  CardsInv'
<1>1. PICK cutPos \in 1 .. DeckSize - 1 :
          /\ m_Deck' = CutDeck(deck, cutPos)
          /\ m_PlayersHand' = [p \in Positions |->
                CardsAt(m_Deck', FirstShare(DealingRank(PlayDir, NextAfter(dealer), p)))]
  BY DEF PreTurn
<1>2. /\ m_CurrentDealer' = dealer /\ announced' = << >> /\ m_TeamOwningBelote' = NoTeam
      /\ request' = AskRevealedAsset
  BY DEF PreTurn, AskForAsset
<1>3. Shuffled(m_Deck')
  BY <1>1, CutDeckWhole
<1>4. /\ \A p \in Positions :
            m_PlayersHand'[p] = CardsAt(m_Deck',
                FirstShare(DealingRank(PlayDir, NextAfter(m_CurrentDealer'), p)))
  BY <1>1, <1>2
<1>5. AskingInv'
  BY <1>2, <1>4 DEF AskingInv, NextAfter
<1>6. PlayingInv'
  BY <1>2, RequestFacts DEF PlayingInv, IsPlaying
<1>7. DeckInv'
  BY <1>3 DEF DeckInv, Shuffled, WholeDeck
<1>8. StacksInv'
  <2>1. request' # NoRequest /\ matches' # 0
    BY <1>2, RequestFacts
  <2> QED BY <2>1, Zenon DEF StacksInv, Stacked
<1>9. DefinedInv'
  BY DEF DefinedInv, NothingOutOfBounds
<1> QED BY <1>5, <1>6, <1>7, <1>8, <1>9 DEF CardsInv

LEMMA StartGameCards == ASSUME GameInv, CardsInv, StartGame PROVE CardsInv'
<1>1. PICK deck \in Shuffles : PreTurn(South, deck)
  BY DEF StartGame
<1>2. Shuffled(deck) /\ South \in Positions
  BY ShufflesAreWhole, SeatFacts
<1>3. /\ matches' = matches + 1 /\ matches \in Nat /\ m_TeamPlayedCards' = m_TeamPlayedCards
      /\ undefined' = FALSE /\ request = NoRequest
  BY RuleSetAssumption DEF StartGame, GameInv, TypeOK
<1>4. matches' = 1 => NothingStacked'
  BY <1>3 DEF CardsInv, StacksInv, NothingStacked
<1>5. matches' >= 2 => Stacked(m_TeamPlayedCards') >= DeckSize
  <2>1. matches' >= 2 => matches = 1 \/ matches >= 2
    BY <1>3
  <2>2. DeckSize \in Nat
    BY DeckSizeFacts
  <2>3. matches = 1 \/ matches >= 2 => Stacked(m_TeamPlayedCards) >= DeckSize
    BY <1>3, <2>2 DEF CardsInv, StacksInv
  <2> QED BY <1>3, <2>1, <2>3
<1>6. matches' \in Nat /\ matches' > 0
  BY <1>3
<1> QED BY <1>1, <1>2, <1>3, <1>4, <1>5, <1>6, DealCards

LEMMA AcceptAssetCards ==
    ASSUME GameInv, CardsInv, NEW colour \in Colours, AcceptAsset(colour) PROVE CardsInv'
<1> DEFINE first == NextAfter(m_CurrentDealer)
           taker == DealingRank(PlayDir, first, m_CurrentPlayer)
<1>1. IsAsking /\ matches # 0 /\ matches \in Nat /\ m_CurrentPlayer \in Positions
      /\ m_CurrentDealer \in Positions
  <2>1. IsAsking
    BY DEF AcceptAsset, Proposable, IsAsking
  <2>2. request.what # "nothing"
    BY <2>1, RequestFacts DEF IsAsking
  <2>3. request # NoRequest
    BY <2>2, RequestFacts
  <2> QED BY <2>1, <2>2, <2>3, RuleSetAssumption
          DEF GameInv, AskedInMatch, TypeOK, PlayerIsSeated, IsAsking
<1>2. first \in Positions /\ taker \in {0, 1, 2, 3}
  BY <1>1, SeatFacts
<1>3. /\ Shuffled(m_Deck) /\ announced = << >> /\ m_TeamOwningBelote = NoTeam
      /\ matches = 1 => NothingStacked
      /\ \A p \in Positions :
            m_PlayersHand[p] = CardsAt(m_Deck, FirstShare(DealingRank(PlayDir, first, p)))
  BY <1>1 DEF CardsInv, AskingInv, DeckInv
<1>4. /\ m_PlayersHand' = [p \in Positions |-> m_PlayersHand[p] \cup
            CardsAt(m_Deck, LastShare(DealingRank(PlayDir, first, p), taker))]
      /\ m_RemainingCards' = [p \in Positions |-> HandSize] /\ m_PlayedCards' = << >>
      /\ m_CurrentPlayer' = first
      /\ request' = WaitingPlay(Playable(m_PlayersHand'[first], colour, << >>))
      /\ m_CurrentAsset' = colour /\ undefined' = FALSE
      /\ UNCHANGED << m_Deck, m_TeamPlayedCards, m_TeamOwningBelote, announced, matches >>
  BY <1>1 DEF AcceptAsset, AskToPlay, deckVars, scoreVars, IsAsking, GameInv, TypeOK
<1>5. m_PlayersHand' = DealtHands(m_Deck, first, taker)
  <2> HIDE DEF first, taker
  <2> QED BY <1>3, <1>4 DEF DealtHands
<1> HIDE DEF first, taker
<1>6. /\ \A p \in Positions : /\ IsFiniteSet(m_PlayersHand'[p])
                              /\ Cardinality(m_PlayersHand'[p]) = HandSize
      /\ HandsApart(m_PlayersHand')
      /\ NothingStacked => EveryCardOnce(m_PlayersHand', << >>, m_TeamPlayedCards)
  BY <1>2, <1>3, <1>5, AllDealt DEF NothingStacked
<1>7. HandSize \in Nat /\ HandSize # 0
  BY DeckSizeFacts
<1>8. InStep(m_PlayersHand', m_RemainingCards', first, << >>)
  <2>1. \A p \in Positions : DealingRank(PlayDir, first, p) < 4
    BY <1>2, SeatFacts
  <2>2. Len(<< >>) = 0 /\ \A p \in Positions : m_RemainingCards'[p] = HandSize
    BY <1>4
  <2>3. \A p \in Positions : m_RemainingCards'[p] = Cardinality(m_PlayersHand'[p])
    BY <1>6, <2>2, Zenon
  <2>4. \A p \in Positions : m_RemainingCards'[p] = m_RemainingCards'[first] - 0
    BY <1>2, <1>7, <2>2
  <2>5. \A p \in Positions : DealingRank(PlayDir, first, p) \in {0, 1, 2, 3}
    BY <1>2, SeatFacts
  <2>6. \A p \in Positions : ~(DealingRank(PlayDir, first, p) >= 4 - Len(<< >>))
    BY <2>2, <2>5
  <2> QED BY <2>3, <2>4, <2>6, Zenon DEF InStep
<1>9. m_PlayersHand'[first] # {}
  BY <1>2, <1>6, <1>7, FS_EmptySet
<1>10. BeloteOf(m_PlayersHand', colour, NoTeam, << >>)
  BY DEF BeloteOf
<1>11. ASSUME matches = 1
       PROVE  /\ EveryCardOnce(m_PlayersHand', << >>, m_TeamPlayedCards)
              /\ SumOf(m_RemainingCards') + Len(<< >>) + Stacked(m_TeamPlayedCards) = DeckSize
  <2>1. NothingStacked
    BY <1>3, <1>11
  <2>2. Stacked(m_TeamPlayedCards) = 0
    <3>1. m_TeamPlayedCards[NorthSouth] = << >> /\ m_TeamPlayedCards[WestEast] = << >>
      BY <2>1 DEF NothingStacked, Teams
    <3> QED BY <3>1 DEF Stacked
  <2>3. SumOf(m_RemainingCards') = DeckSize
    BY <1>4, <1>7, SeatFacts, DeckSizeFacts DEF SumOf
  <2>4. Len(<< >>) = 0 /\ DeckSize \in Nat
    BY DeckSizeFacts
  <2> QED BY <1>6, <2>1, <2>2, <2>3, <2>4
<1>12. PlayingInv'
  <2>1. request'.cards = Playable(m_PlayersHand'[first], colour, << >>)
    BY <1>4 DEF WaitingPlay
  <2> QED BY <1>3, <1>4, <1>6, <1>8, <1>9, <1>10, <1>11, <2>1 DEF PlayingInv, Stacked
<1>13. AskingInv'
  BY <1>4 DEF AskingInv, IsAsking, WaitingPlay, AskRevealedAsset, AskAnotherAsset
<1>14. DeckInv' /\ DefinedInv'
  BY <1>3, <1>4 DEF DeckInv, Shuffled, WholeDeck, DefinedInv, NothingOutOfBounds
<1>15. StacksInv'
  <2>1. request' # NoRequest
    BY <1>4 DEF WaitingPlay, NoRequest
  <2> QED BY <1>1, <1>4, <2>1 DEF CardsInv, StacksInv, Stacked
<1> QED BY <1>12, <1>13, <1>14, <1>15 DEF CardsInv

LEMMA RefuseAssetCards == ASSUME GameInv, CardsInv, RefuseAsset PROVE CardsInv'
<1>1. /\ IsAsking /\ matches # 0 /\ matches \in Nat /\ m_CurrentDealer \in Positions
      /\ undefined' = FALSE
      /\ matches' = matches /\ m_TeamPlayedCards' = m_TeamPlayedCards
  <2>1. request.what # "nothing" /\ request # NoRequest
    BY RequestFacts DEF RefuseAsset
  <2> QED BY <2>1, RuleSetAssumption DEF RefuseAsset, IsAsking, GameInv, AskedInMatch, TypeOK
<1>2. /\ Shuffled(m_Deck) /\ announced = << >> /\ m_TeamOwningBelote = NoTeam
      /\ matches = 1 => NothingStacked
      /\ \A p \in Positions :
            m_PlayersHand[p] = CardsAt(m_Deck,
                FirstShare(DealingRank(PlayDir, NextAfter(m_CurrentDealer), p)))
  BY <1>1 DEF CardsInv, AskingInv, DeckInv
<1>3. matches >= 2 => Stacked(m_TeamPlayedCards) >= DeckSize
  BY DEF CardsInv, StacksInv
<1>4. CASE AskNextPlayer
  <2>1. /\ request' \in {AskRevealedAsset, AskAnotherAsset}
        /\ UNCHANGED << m_Deck, m_CurrentDealer, m_PlayersHand, m_TeamOwningBelote, announced >>
    BY <1>4 DEF AskNextPlayer, AskForAsset
  <2>2. AskingInv'
    BY <1>1, <1>2, <2>1 DEF AskingInv, NextAfter, NothingStacked
  <2>3. PlayingInv'
    BY <2>1, RequestFacts DEF PlayingInv, IsPlaying
  <2>4. DeckInv' /\ DefinedInv'
    BY <1>1, <1>2, <2>1 DEF DeckInv, Shuffled, WholeDeck, DefinedInv, NothingOutOfBounds
  <2>5. StacksInv'
    BY <1>1, <1>3, <2>1, RequestFacts DEF StacksInv, Stacked
  <2> QED BY <2>2, <2>3, <2>4, <2>5 DEF CardsInv
<1>5. CASE NoAssetTaken
  <2>1. PreTurn(NextAfter(m_CurrentDealer), m_Deck) /\ NextAfter(m_CurrentDealer) \in Positions
    BY <1>1, <1>5, SeatFacts DEF NoAssetTaken
  <2>2. matches' = 1 => NothingStacked'
    BY <1>1, <1>2 DEF NothingStacked
  <2>3. matches' \in Nat /\ matches' > 0 /\ (matches' >= 2 => Stacked(m_TeamPlayedCards') >= DeckSize)
    BY <1>1, <1>3
  <2> QED BY <1>1, <1>2, <2>1, <2>2, <2>3, DealCards
<1> QED BY <1>4, <1>5 DEF RefuseAsset


(* Four more cards on the stacks.                                           *)
LEMMA TrickStacked ==
    ASSUME GameInv, CardsInv, ~undefined, NEW card \in request.cards, Len(TrickAfter(card)) = 4
    PROVE  /\ Stacked(m_TeamPlayedCards) \in Nat
           /\ Stacked(StacksAfter(card)) = Stacked(m_TeamPlayedCards) + 4
           /\ Len(Gathered(card)) = Stacked(StacksAfter(card))
           /\ StacksAfter(card) \in [Teams -> Seq(Pack)]
           /\ matches = 1 => /\ EveryCardOnce(HandsAfter(card), << >>, StacksAfter(card))
                             /\ SumOf(RemainingAfter) + Stacked(StacksAfter(card)) = DeckSize
<1> DEFINE stacks == m_TeamPlayedCards
           trick == TrickAfter(card)
           team == Team(TrickWinner(card))
           after == StacksAfter(card)
<1>1. /\ stacks \in [Teams -> Seq(Pack)] /\ trick \in Seq(Pack) /\ Len(trick) = 4
      /\ team \in Teams /\ after \in [Teams -> Seq(Pack)]
      /\ NorthSouth \in Teams /\ WestEast \in Teams /\ NorthSouth # WestEast
      /\ (team = NorthSouth \/ team = WestEast)
  <2>1. NorthSouth \in Teams /\ WestEast \in Teams /\ NorthSouth # WestEast
        /\ \A t \in Teams : t = NorthSouth \/ t = WestEast
    BY DEF Teams, NorthSouth, WestEast
  <2> QED BY <2>1, CardPlayedParts, TrickEndFacts, SeatFacts DEF GameInv, TypeOK
<1>2. after = [stacks EXCEPT ![team] = @ \o trick]
  BY DEF StacksAfter
<1> HIDE DEF stacks, trick, team, after
<1>3. \A t \in Teams : /\ Len(stacks[t]) \in Nat
                       /\ Len(after[t]) = Len(stacks[t]) + IF t = team THEN 4 ELSE 0
  <2> TAKE t \in Teams
  <2>1. stacks[t] \in Seq(Pack) /\ Len(stacks[t]) \in Nat
    BY <1>1
  <2>2. CASE t = team
    <3>1. after[t] = stacks[t] \o trick
      BY <1>1, <1>2, <2>2
    <3>2. Len(stacks[t] \o trick) = Len(stacks[t]) + Len(trick)
      BY <1>1, <2>1, ConcatProperties, Zenon
    <3> QED BY <1>1, <2>1, <2>2, <3>1, <3>2
  <2>3. CASE t # team
    <3>1. after[t] = stacks[t]
      BY <1>1, <1>2, <2>3
    <3> QED BY <2>1, <2>3, <3>1
  <2> QED BY <2>2, <2>3
<1>4. Stacked(stacks) \in Nat /\ Stacked(after) = Stacked(stacks) + 4
  <2> DEFINE a == Len(stacks[NorthSouth])
             b == Len(stacks[WestEast])
             c == Len(after[NorthSouth])
             d == Len(after[WestEast])
  <2>1. /\ a \in Nat /\ b \in Nat
        /\ c = a + (IF NorthSouth = team THEN 4 ELSE 0)
        /\ d = b + (IF WestEast = team THEN 4 ELSE 0)
    BY <1>1, <1>3
  <2>2. Stacked(stacks) = a + b /\ Stacked(after) = c + d
    BY DEF Stacked
  <2> HIDE DEF a, b, c, d
  <2> QED BY <1>1, <2>1, <2>2
<1>5. Len(Gathered(card)) = Stacked(after)
  <2>1. after[NorthSouth] \in Seq(Pack) /\ after[WestEast] \in Seq(Pack)
    BY <1>1
  <2>2. Gathered(card) = after[NorthSouth] \o after[WestEast]
    BY DEF Gathered, after
  <2>3. Len(after[NorthSouth] \o after[WestEast]) = Len(after[NorthSouth]) + Len(after[WestEast])
    BY <2>1, ConcatProperties, Zenon
  <2> QED BY <2>2, <2>3 DEF Stacked
<1>6. ASSUME matches = 1
      PROVE  /\ EveryCardOnce(HandsAfter(card), << >>, after)
             /\ SumOf(RemainingAfter) + Stacked(after) = DeckSize
  <2>1. /\ EveryCardOnce(HandsAfter(card), trick, stacks)
        /\ SumOf(RemainingAfter) + Len(trick) + Stacked(stacks) = DeckSize
    BY <1>6, CardMoves DEF trick, stacks
  <2>2. EveryCardOnce(HandsAfter(card), << >>, after)
    BY <1>1, <1>2, <2>1, TrickTaken
  <2>3. SumOf(RemainingAfter) \in Int
    <3>1. RemainingAfter \in [Positions -> Int]
      BY CardPlayedParts
    <3> QED BY <3>1, SeatFacts DEF SumOf
  <2> QED BY <1>1, <1>4, <2>1, <2>2, <2>3
<1> QED BY <1>1, <1>4, <1>5, <1>6 DEF stacks, after

LEMMA NextCardCards ==
    ASSUME GameInv, CardsInv, ~undefined, NEW card \in request.cards, NextCard(card),
           UNCHANGED matches
    PROVE  CardsInv'
<1> DEFINE next == NextAfter(m_CurrentPlayer)
<1>1. /\ m_PlayedCards' = TrickAfter(card) /\ m_PlayersHand' = HandsAfter(card)
      /\ m_RemainingCards' = RemainingAfter /\ announced' = AnnouncedAfter(card)
      /\ m_TeamOwningBelote' = OwnerAfter(card) /\ m_CurrentPlayer' = next
      /\ request' = WaitingPlay(Playable(m_PlayersHand'[next], m_CurrentAsset, m_PlayedCards'))
      /\ Len(TrickAfter(card)) < 4
      /\ UNCHANGED << m_Deck, m_TeamPlayedCards, m_CurrentAsset, undefined, matches >>
  BY DEF NextCard, AskToPlay, deckVars, assetVars
<1>2. /\ InStep(HandsAfter(card), RemainingAfter, next, TrickAfter(card))
      /\ HandsAfter(card)[next] # {}
  BY <1>1, StepGoesOn
<1> HIDE DEF next
<1>3. PlayingInv'
  <2>1. request'.cards = Playable(m_PlayersHand'[next], m_CurrentAsset, m_PlayedCards')
    BY <1>1 DEF WaitingPlay
  <2>2. /\ \A p \in Positions : IsFiniteSet(m_PlayersHand'[p])
        /\ HandsApart(m_PlayersHand')
        /\ BeloteOf(m_PlayersHand', m_CurrentAsset', m_TeamOwningBelote', announced')
        /\ matches' = 1 =>
             /\ EveryCardOnce(m_PlayersHand', m_PlayedCards', m_TeamPlayedCards')
             /\ SumOf(m_RemainingCards') + Len(m_PlayedCards') + Stacked(m_TeamPlayedCards')
                  = DeckSize
    BY <1>1, CardMoves
  <2>3. /\ InStep(m_PlayersHand', m_RemainingCards', m_CurrentPlayer', m_PlayedCards')
        /\ m_PlayersHand'[m_CurrentPlayer'] # {}
    BY <1>1, <1>2
  <2>4. request'.cards
          = Playable(m_PlayersHand'[m_CurrentPlayer'], m_CurrentAsset', m_PlayedCards')
    BY <1>1, <2>1
  <2> QED BY <2>2, <2>3, <2>4, Zenon DEF PlayingInv
<1>4. AskingInv'
  BY <1>1 DEF AskingInv, IsAsking, WaitingPlay, AskRevealedAsset, AskAnotherAsset
<1>5. DeckInv' /\ DefinedInv'
  BY <1>1 DEF CardsInv, DeckInv, Shuffled, WholeDeck, DefinedInv, NothingOutOfBounds
<1>6. StacksInv'
  <2>1. request' # NoRequest
    BY <1>1 DEF WaitingPlay, NoRequest
  <2> QED BY <1>1, <2>1, CardMoves DEF CardsInv, StacksInv, Stacked
<1> QED BY <1>3, <1>4, <1>5, <1>6 DEF CardsInv

LEMMA NextTrickCards ==
    ASSUME GameInv, CardsInv, ~undefined, NEW card \in request.cards, NextTrick(card),
           UNCHANGED matches
    PROVE  CardsInv'
<1> DEFINE winner == TrickWinner(card)
<1>1. /\ m_PlayedCards' = << >> /\ m_PlayersHand' = HandsAfter(card)
      /\ m_RemainingCards' = RemainingAfter /\ announced' = AnnouncedAfter(card)
      /\ m_TeamOwningBelote' = OwnerAfter(card) /\ m_CurrentPlayer' = winner
      /\ m_TeamPlayedCards' = StacksAfter(card) /\ winner \in Positions
      /\ request' = WaitingPlay(Playable(m_PlayersHand'[winner], m_CurrentAsset, << >>))
      /\ Len(TrickAfter(card)) = 4 /\ RemainingAfter[South] # 0
      /\ UNCHANGED << m_Deck, m_CurrentAsset, undefined, matches >>
  BY DEF NextTrick, AskToPlay, assetVars, IsLastTrick
<1>2. /\ InStep(HandsAfter(card), RemainingAfter, winner, << >>)
      /\ HandsAfter(card)[winner] # {}
  BY <1>1, StepEnds
<1>3. /\ Stacked(StacksAfter(card)) = Stacked(m_TeamPlayedCards) + 4
      /\ Stacked(m_TeamPlayedCards) \in Nat
      /\ matches = 1 => /\ EveryCardOnce(HandsAfter(card), << >>, StacksAfter(card))
                        /\ SumOf(RemainingAfter) + Stacked(StacksAfter(card)) = DeckSize
  BY <1>1, TrickStacked
<1> HIDE DEF winner
<1>4. PlayingInv'
  <2>1. request'.cards
          = Playable(m_PlayersHand'[m_CurrentPlayer'], m_CurrentAsset', m_PlayedCards')
    BY <1>1 DEF WaitingPlay
  <2>2. /\ \A p \in Positions : IsFiniteSet(m_PlayersHand'[p])
        /\ HandsApart(m_PlayersHand')
        /\ BeloteOf(m_PlayersHand', m_CurrentAsset', m_TeamOwningBelote', announced')
    BY <1>1, CardMoves
  <2>3. /\ InStep(m_PlayersHand', m_RemainingCards', m_CurrentPlayer', m_PlayedCards')
        /\ m_PlayersHand'[m_CurrentPlayer'] # {}
    BY <1>1, <1>2
  <2>4. ASSUME matches' = 1
        PROVE  /\ EveryCardOnce(m_PlayersHand', m_PlayedCards', m_TeamPlayedCards')
               /\ SumOf(m_RemainingCards') + Len(m_PlayedCards') + Stacked(m_TeamPlayedCards')
                    = DeckSize
    <3>1. SumOf(RemainingAfter) \in Int
      <4>1. RemainingAfter \in [Positions -> Int]
        BY CardPlayedParts
      <4> QED BY <4>1, SeatFacts DEF SumOf
    <3>2. Len(<< >>) = 0
      OBVIOUS
    <3>3. SumOf(RemainingAfter) + 0 + Stacked(StacksAfter(card)) = DeckSize
      BY <1>1, <1>3, <2>4, <3>1
    <3> QED BY <1>1, <1>3, <2>4, <3>2, <3>3, Zenon
  <2> QED BY <2>1, <2>2, <2>3, <2>4, Zenon DEF PlayingInv
<1>5. AskingInv'
  BY <1>1 DEF AskingInv, IsAsking, WaitingPlay, AskRevealedAsset, AskAnotherAsset
<1>6. DeckInv' /\ DefinedInv'
  BY <1>1 DEF CardsInv, DeckInv, Shuffled, WholeDeck, DefinedInv, NothingOutOfBounds
<1>7. StacksInv'
  <2>1. request' # NoRequest /\ matches' # 0
    BY <1>1, CardMoves DEF WaitingPlay, NoRequest
  <2>2. matches >= 2 => Stacked(StacksAfter(card)) >= DeckSize
    BY <1>3, DeckSizeFacts DEF CardsInv, StacksInv
  <2> QED BY <1>1, <2>1, <2>2, Zenon DEF StacksInv, Stacked
<1> QED BY <1>4, <1>5, <1>6, <1>7 DEF CardsInv

LEMMA MatchEndedCards ==
    ASSUME GameInv, CardsInv, ~undefined, NEW card \in request.cards, MatchEnded(card),
           UNCHANGED matches
    PROVE  CardsInv'
<1>1. /\ m_TeamPlayedCards' = StacksAfter(card) /\ request' = NoRequest
      /\ Len(TrickAfter(card)) = 4 /\ RemainingAfter[South] = 0
      /\ UNCHANGED << m_Deck, undefined, matches >>
  BY DEF MatchEnded, IsLastTrick
<1>2. /\ Stacked(StacksAfter(card)) = Stacked(m_TeamPlayedCards) + 4
      /\ Stacked(m_TeamPlayedCards) \in Nat
      /\ matches = 1 => SumOf(RemainingAfter) + Stacked(StacksAfter(card)) = DeckSize
  BY <1>1, TrickStacked
<1>3. SumOf(RemainingAfter) = 0
  <2>1. \A p \in Positions : RemainingAfter[p] = 0
    BY <1>1, StepEnds
  <2> QED BY <2>1, SeatFacts DEF SumOf
<1>4. AskingInv' /\ PlayingInv'
  BY <1>1, RequestFacts DEF AskingInv, PlayingInv, IsAsking, IsPlaying
<1>5. DeckInv' /\ DefinedInv'
  BY <1>1 DEF CardsInv, DeckInv, Shuffled, WholeDeck, DefinedInv, NothingOutOfBounds
<1>6. StacksInv'
  <2>1. matches' # 0
    BY <1>1, CardMoves
  <2>2. /\ matches >= 2 => Stacked(StacksAfter(card)) >= DeckSize
        /\ matches = 1 => Stacked(StacksAfter(card)) = DeckSize
    BY <1>2, <1>3, DeckSizeFacts DEF CardsInv, StacksInv
  <2> QED BY <1>1, <2>1, <2>2, Zenon DEF StacksInv, Stacked
<1> QED BY <1>4, <1>5, <1>6 DEF CardsInv

(* The deck is gathered in the first match only, and then from exactly as   *)
(* many cards as it has places.                                             *)
LEMMA LastTrick ==
    ASSUME GameInv, CardsInv, ~undefined, NEW card \in request.cards, Len(TrickAfter(card)) = 4,
           IsLastTrick
    PROVE  /\ matches = 1 => Len(Gathered(card)) = DeckSize
           /\ matches # 1 => Len(Gathered(card)) > DeckSize
<1>1. RemainingAfter[South] = 0
  BY DEF IsLastTrick
<1>2. SumOf(RemainingAfter) = 0
  <2>1. \A p \in Positions : RemainingAfter[p] = 0
    BY <1>1, StepEnds
  <2> QED BY <2>1, SeatFacts DEF SumOf
<1> DEFINE gathered == Len(Gathered(card))
           stacked == Stacked(m_TeamPlayedCards)
<1>3. /\ gathered = stacked + 4 /\ stacked \in Nat
      /\ matches = 1 => SumOf(RemainingAfter) + gathered = DeckSize
  BY TrickStacked
<1>4. matches \in Nat /\ matches # 0 /\ (matches >= 2 => stacked >= DeckSize)
  BY CardMoves, RuleSetAssumption DEF GameInv, TypeOK, CardsInv, StacksInv
<1> HIDE DEF gathered, stacked
<1>5. matches = 1 => gathered = DeckSize
  BY <1>2, <1>3
<1>6. matches # 1 => gathered > DeckSize
  BY <1>3, <1>4, DeckSizeFacts
<1> QED BY <1>5, <1>6 DEF gathered

LEMMA NextRoundCards ==
    ASSUME GameInv, CardsInv, ~undefined, NEW card \in request.cards, NextRound(card),
           UNCHANGED matches
    PROVE  CardsInv'
<1>1. /\ PreTurn(NextAfter(m_CurrentDealer), GatheredDeck(card))
      /\ m_TeamPlayedCards' = [team \in Teams |-> << >>] /\ undefined' = undefined
      /\ Len(TrickAfter(card)) = 4 /\ IsLastTrick /\ Len(Gathered(card)) <= DeckSize
      /\ NextAfter(m_CurrentDealer) \in Positions
  BY SeatFacts DEF NextRound, StacksAfterRound, GameInv, TypeOK
<1>2. matches = 1 /\ Len(Gathered(card)) = DeckSize
  <2>1. Len(Gathered(card)) \in Nat
    BY <1>1, TrickStacked
  <2> QED BY <1>1, <2>1, LastTrick, DeckSizeFacts
<1>3. Shuffled(GatheredDeck(card))
  <2>1. /\ EveryCardOnce(HandsAfter(card), << >>, StacksAfter(card))
        /\ StacksAfter(card) \in [Teams -> Seq(Pack)]
    BY <1>1, <1>2, TrickStacked
  <2>2. \A p \in Positions : HandsAfter(card)[p] = {}
    BY <1>1, StepEnds DEF IsLastTrick
  <2>3. GatheredDeck(card) = [i \in 1 .. DeckSize |-> Gathered(card)[i]]
    BY <1>2, DeckSizeFacts DEF GatheredDeck
  <2>4. Gathered(card) = StacksAfter(card)[NorthSouth] \o StacksAfter(card)[WestEast]
    BY DEF Gathered
  <2> QED BY <1>2, <2>1, <2>2, <2>3, <2>4, GatheredIsWhole
<1>4. NothingStacked' /\ undefined' = FALSE
  BY <1>1 DEF NothingStacked, GameInv, TypeOK
<1>5. matches' = 1 /\ matches' \in Nat /\ matches' > 0 /\ ~(matches' >= 2)
  BY <1>2
<1> QED BY <1>1, <1>3, <1>4, <1>5, DealCards

(* Clockwise, the winner of a trick sits at the table.                      *)
LEMMA ClockwiseWinner ==
    ASSUME PlayDir = CW, GameInv, ~undefined, NEW card \in request.cards, Len(TrickAfter(card)) = 4
    PROVE  TrickWinner(card) \in Positions
<1>1. WinnerIndex(m_CurrentAsset, TrickAfter(card)) \in 0 .. 3
  BY CardPlayedParts, WinnerIndexType
<1>2. NextAfter(m_CurrentPlayer) \in {0, 1, 2, 3}
  BY CardPlayedParts, SeatFacts
<1>3. TrickWinner(card)
        = (NextAfter(m_CurrentPlayer) + WinnerIndex(m_CurrentAsset, TrickAfter(card))) % 4
  BY DEF TrickWinner, GetWinnerPosition, NextAfter
<1>4. \A a \in {0, 1, 2, 3} : \A b \in 0 .. 3 : (a + b) % 4 \in {0, 1, 2, 3}
  OBVIOUS
<1> QED BY <1>1, <1>2, <1>3, <1>4, SeatFacts

LEMMA NoSuchPlayerCards ==
    ASSUME GameInv, CardsInv, ~undefined, NEW card \in request.cards, NoSuchPlayer(card),
           UNCHANGED matches
    PROVE  CardsInv'
<1>1. /\ m_TeamPlayedCards' = StacksAfter(card) /\ Len(TrickAfter(card)) = 4
      /\ undefined' = TRUE /\ TrickWinner(card) \notin Positions
      /\ UNCHANGED << m_Deck, request, matches >>
  BY DEF NoSuchPlayer
<1>2. PlayDir # CW
  BY <1>1, ClockwiseWinner
<1>3. /\ Stacked(StacksAfter(card)) = Stacked(m_TeamPlayedCards) + 4
      /\ Stacked(m_TeamPlayedCards) \in Nat
  BY <1>1, TrickStacked
<1>4. AskingInv' /\ PlayingInv'
  BY <1>1 DEF AskingInv, PlayingInv, IsAsking, IsPlaying
<1>5. DeckInv' /\ DefinedInv'
  BY <1>1, <1>2 DEF CardsInv, DeckInv, Shuffled, WholeDeck, DefinedInv, NothingOutOfBounds
<1>6. StacksInv'
  <2>1. request' # NoRequest /\ matches' # 0
    BY <1>1, CardMoves, RequestFacts DEF IsPlaying
  <2>2. matches >= 2 => Stacked(StacksAfter(card)) >= DeckSize
    BY <1>3, DeckSizeFacts DEF CardsInv, StacksInv
  <2> QED BY <1>1, <2>1, <2>2, Zenon DEF StacksInv, Stacked
<1> QED BY <1>4, <1>5, <1>6 DEF CardsInv

(* In the first match the deck has room for what is gathered.               *)
LEMMA OutOfBoundsCards ==
    ASSUME GameInv, CardsInv, ~undefined, NEW card \in request.cards, OutOfBounds(card),
           UNCHANGED matches
    PROVE  CardsInv'
<1>1. /\ undefined' = TRUE /\ Len(TrickAfter(card)) = 4
      /\ UNCHANGED << m_Deck, m_TeamPlayedCards, request, matches >>
  BY DEF OutOfBounds, deckVars
<1>2. ~(PlayDir = CW /\ matches <= 1)
  <2> SUFFICES ASSUME PlayDir = CW, matches <= 1 PROVE FALSE
    OBVIOUS
  <2>2. IsLastTrick /\ Len(Gathered(card)) > DeckSize
    BY DEF OutOfBounds
  <2>3. matches = 1
    BY CardMoves, RuleSetAssumption DEF GameInv, TypeOK
  <2>4. Len(Gathered(card)) = DeckSize /\ DeckSize \in Nat
    BY <1>1, <2>2, <2>3, LastTrick, DeckSizeFacts
  <2> QED BY <2>2, <2>4
<1>3. AskingInv' /\ PlayingInv'
  BY <1>1 DEF AskingInv, PlayingInv, IsAsking, IsPlaying
<1>4. DeckInv' /\ DefinedInv'
  BY <1>1, <1>2 DEF CardsInv, DeckInv, Shuffled, WholeDeck, DefinedInv, NothingOutOfBounds
<1>5. StacksInv'
  BY <1>1 DEF CardsInv, StacksInv, Stacked, NothingStacked
<1> QED BY <1>3, <1>4, <1>5 DEF CardsInv

LEMMA CardsNext == GameInv /\ CardsInv /\ [Next]_vars => CardsInv'
<1> SUFFICES ASSUME GameInv, CardsInv, [Next]_vars PROVE CardsInv'
  OBVIOUS
<1>1. CASE StartGame
  BY <1>1, StartGameCards
<1>2. ASSUME NEW colour \in Colours, AcceptAsset(colour) PROVE CardsInv'
  BY <1>2, AcceptAssetCards
<1>3. CASE RefuseAsset
  BY <1>3, RefuseAssetCards
<1>4. ASSUME NEW card \in request.cards, CardPlayed(card) PROVE CardsInv'
  BY <1>4, NextCardCards, NextTrickCards, NextRoundCards, MatchEndedCards,
     NoSuchPlayerCards, OutOfBoundsCards
  DEF CardPlayed
<1>5. CASE UNCHANGED vars
  <2>1. UNCHANGED << m_Deck, m_TeamPlayedCards, m_CurrentDealer, m_CurrentPlayer, m_PlayersHand,
                     m_RemainingCards, m_CurrentAsset, m_TeamOwningBelote, m_PlayedCards,
                     request, announced, matches, undefined >>
    BY <1>5 DEF vars, deckVars, seatVars, handVars, assetVars, scoreVars
  <2>2. DeckInv' /\ DefinedInv' /\ StacksInv'
    BY <2>1 DEF CardsInv, DeckInv, DefinedInv, NothingOutOfBounds, StacksInv, NothingStacked
  <2>3. AskingInv'
    BY <2>1 DEF CardsInv, AskingInv, IsAsking, NothingStacked, NextAfter
  <2>4. PlayingInv'
    BY <2>1 DEF CardsInv, PlayingInv, IsPlaying
  <2> QED BY <2>2, <2>3, <2>4 DEF CardsInv
<1> QED BY <1>1, <1>2, <1>3, <1>4, <1>5 DEF Next, Answer, Finished


(* Where the cards are, in every reachable state.                           *)
THEOREM CardsInvariant == Spec => [](GameInv /\ CardsInv)
<1>1. Init => GameInv /\ CardsInv
  BY GameInit, CardsInit
<1>2. GameInv /\ CardsInv /\ [Next]_vars => GameInv' /\ CardsInv'
  BY GameNext, CardsNext
<1> QED BY <1>1, <1>2, PTL DEF Spec

(* CutDeck, and the copy of what the teams have taken over the deck, lose   *)
(* no card and double none, in every match of the life of the server.       *)
THEOREM DeckIsWholeAlways == Spec => []DeckIsWhole
<1>1. GameInv /\ CardsInv => DeckIsWhole
  BY DEF CardsInv, DeckInv, Shuffled, DeckIsWhole
<1> QED BY CardsInvariant, <1>1, PTL

(* m_RemainingCards counts the hands, and who has played in the trick has   *)
(* one card less: the counter of South alone tells the last trick.          *)
THEOREM CountersInStepAlways == Spec => []CountersInStep
<1>1. GameInv /\ CardsInv => CountersInStep
  BY DEF CardsInv, PlayingInv, InStep, CountersInStep
<1> QED BY CardsInvariant, <1>1, PTL

(* Nobody is asked a question without an answer: the list of playable cards *)
(* is never empty and comes from the asked hand, a colour can be proposed.  *)
THEOREM RequestIsAnswerableAlways == Spec => []RequestIsAnswerable
<1>1. GameInv /\ CardsInv => RequestIsAnswerable
  <2> SUFFICES ASSUME GameInv, CardsInv PROVE RequestIsAnswerable
    OBVIOUS
  <2>1. ASSUME IsPlaying
        PROVE  request.cards # {} /\ request.cards \subseteq m_PlayersHand[m_CurrentPlayer]
    <3>1. /\ request.cards
               = Playable(m_PlayersHand[m_CurrentPlayer], m_CurrentAsset, m_PlayedCards)
          /\ m_PlayersHand[m_CurrentPlayer] # {}
      BY <2>1 DEF CardsInv, PlayingInv
    <3> QED BY <3>1, PlayableInHand
  <2>2. ASSUME IsAsking PROVE Proposable # {}
    <3>1. Colours \ {PotentialAsset.colour} # {}
      BY ColoursAssumption
    <3>2. AskAnotherAsset # AskRevealedAsset
      BY DEF AskAnotherAsset, AskRevealedAsset
    <3>3. CASE request = AskRevealedAsset
      <4>1. Proposable = {PotentialAsset.colour}
        BY <3>2, <3>3, Zenon DEF Proposable
      <4> QED BY <4>1
    <3>4. CASE request = AskAnotherAsset
      <4>1. Proposable = Colours \ {PotentialAsset.colour}
        BY <3>2, <3>4, Zenon DEF Proposable
      <4> QED BY <3>1, <4>1
    <3> QED BY <2>2, <3>3, <3>4 DEF IsAsking
  <2> QED BY <2>1, <2>2 DEF RequestIsAnswerable
<1> QED BY CardsInvariant, <1>1, PTL

(* The belote is announced by its holder with the first card of the two,    *)
(* the rebelote by the same player with the second, and by nobody else.     *)
THEOREM BeloteFollowsHandsAlways == Spec => []BeloteFollowsHands
<1>1. GameInv /\ CardsInv => BeloteFollowsHands
  <2> SUFFICES ASSUME GameInv, CardsInv, IsPlaying
               PROVE  BeloteOf(m_PlayersHand, m_CurrentAsset, m_TeamOwningBelote, announced)
                        => BeloteFollowsHands
    BY DEF BeloteFollowsHands, CardsInv, PlayingInv
  <2>1. \A value : Holder(value) = HeldBy(m_PlayersHand, Part(m_CurrentAsset, value))
    BY DEF Holder, HeldBy, Part
  <2> QED BY <2>1, Zenon DEF BeloteOf, BeloteFollowsHands
<1> QED BY CardsInvariant, <1>1, PTL

(* In the first match after the server's start no card is lost or doubled:  *)
(* each is in one hand or not yet dealt while an asset is proposed, and in  *)
(* one hand, on the table, or on one stack while tricks are played.         *)
THEOREM CardsConservedInFirstMatch == Spec => [](matches <= 1 => CardsConserved)
<1>1. ASSUME GameInv, CardsInv, IsAsking, NEW c \in Pack PROVE Held(c) + Undealt(c) = 1
  <2>1. matches > 0
    <3>1. request # NoRequest
      BY <1>1, RequestFacts DEF IsAsking
    <3> QED BY <1>1, <3>1, RuleSetAssumption DEF GameInv, AskedInMatch, TypeOK
  <2>2. Shuffled(m_Deck) /\ NextAfter(m_CurrentDealer) \in Positions
    BY <1>1, <2>1, SeatFacts DEF CardsInv, DeckInv, GameInv, TypeOK
  <2>3. \A p \in Positions :
            m_PlayersHand[p] = CardsAt(m_Deck,
                FirstShare(DealingRank(PlayDir, NextAfter(m_CurrentDealer), p)))
    BY <1>1 DEF CardsInv, AskingInv
  <2> QED BY <2>2, <2>3, OnceWhileAsking, Zenon
<1>2. ASSUME GameInv, CardsInv, matches <= 1, IsPlaying, NEW c \in Pack
      PROVE  Held(c) + Copies(m_PlayedCards, c) + Copies(m_TeamPlayedCards[NorthSouth], c)
               + Copies(m_TeamPlayedCards[WestEast], c) = 1
  <2>1. matches = 1
    <3>1. request # NoRequest
      BY <1>2, RequestFacts DEF IsPlaying
    <3> QED BY <1>2, <3>1, RuleSetAssumption DEF GameInv, AskedInMatch, TypeOK
  <2> QED BY <1>2, <2>1, OnceIsConserved DEF CardsInv, PlayingInv
<1>3. GameInv /\ CardsInv => (matches <= 1 => CardsConserved)
  BY <1>1, <1>2 DEF CardsConserved
<1> QED BY CardsInvariant, <1>3, PTL

(* Clockwise, as long as one match has been started, TurnEnded never asks a *)
(* player who does not exist and GameEnded never copies past the deck.      *)
THEOREM NothingOutOfBoundsClockwise == Spec => [](PlayDir = CW /\ matches <= 1 => NothingOutOfBounds)
<1>1. GameInv /\ CardsInv => (PlayDir = CW /\ matches <= 1 => NothingOutOfBounds)
  BY DEF CardsInv, DefinedInv
<1> QED BY CardsInvariant, <1>1, PTL

----------------------------------------------------------------------------
(* Who takes a trick.  In every match, the later ones too, the cards of the *)
(* trick are different and none of them is still in a hand.                 *)
TrickApart(hands, trick) ==
    IsInjective(trick) /\ \A p \in Positions : hands[p] \cap Cards(trick) = {}

TrickInv == IsPlaying => TrickApart(m_PlayersHand, m_PlayedCards)

LEMMA NothingPlayed == \A hands : TrickApart(hands, << >>)
BY DEF TrickApart, Cards, IsInjective

LEMMA CardJoinsTrick ==
    ASSUME GameInv, CardsInv, TrickInv, ~undefined, NEW card \in request.cards
    PROVE  TrickApart(HandsAfter(card), TrickAfter(card))
<1> DEFINE cur == m_CurrentPlayer
           hands == m_PlayersHand
           trick == m_PlayedCards
           after == HandsAfter(card)
           more == TrickAfter(card)
<1>1. /\ IsPlaying /\ cur \in Positions /\ card \in Pack /\ trick \in Seq(Pack)
      /\ hands \in [Positions -> SUBSET Pack]
  BY CardMoves, CardPlayedParts DEF GameInv, TypeOK
<1>2. /\ TrickApart(hands, trick) /\ HandsApart(hands) /\ card \in hands[cur]
  BY <1>1, PlayableInHand DEF TrickInv, CardsInv, PlayingInv
<1>3. \A p \in Positions : after[p] = IF p = cur THEN hands[p] \ {card} ELSE hands[p]
  BY <1>1 DEF HandsAfter
<1>4. Cards(more) = Cards(trick) \cup {card} /\ IsInjective(more)
  <2>1. IsInjective(trick) /\ card \notin Cards(trick)
    BY <1>1, <1>2 DEF TrickApart
  <2> QED BY <1>1, <2>1, AppendCards DEF TrickAfter
<1> HIDE DEF cur, hands, trick, after, more
<1>5. \A p \in Positions : after[p] \subseteq hands[p] /\ card \notin after[p]
  BY <1>1, <1>2, <1>3 DEF HandsApart
<1>6. \A p \in Positions : after[p] \cap Cards(more) = {}
  BY <1>2, <1>4, <1>5 DEF TrickApart
<1>7. TrickApart(after, more)
  BY <1>4, <1>6 DEF TrickApart
<1> QED BY <1>7 DEF after, more

LEMMA TrickNext == GameInv /\ CardsInv /\ TrickInv /\ [Next]_vars => TrickInv'
<1> SUFFICES ASSUME GameInv, CardsInv, TrickInv, [Next]_vars PROVE TrickInv'
  OBVIOUS
<1>1. CASE StartGame
  BY <1>1, RequestFacts DEF StartGame, PreTurn, AskForAsset, TrickInv, IsPlaying
<1>2. ASSUME NEW colour \in Colours, AcceptAsset(colour) PROVE TrickInv'
  <2>1. m_PlayedCards' = << >>
    BY <1>2 DEF AcceptAsset
  <2> QED BY <2>1, NothingPlayed DEF TrickInv
<1>3. CASE RefuseAsset
  <2>1. request' \in {AskRevealedAsset, AskAnotherAsset}
    BY <1>3 DEF RefuseAsset, AskNextPlayer, NoAssetTaken, PreTurn, AskForAsset
  <2> QED BY <2>1, RequestFacts DEF TrickInv, IsPlaying
<1>4. ASSUME NEW card \in request.cards, CardPlayed(card) PROVE TrickInv'
  <2>1. ~undefined
    BY <1>4 DEF CardPlayed
  <2>2. CASE NextCard(card)
    <3>1. m_PlayersHand' = HandsAfter(card) /\ m_PlayedCards' = TrickAfter(card)
      BY <2>2 DEF NextCard
    <3> QED BY <2>1, <3>1, CardJoinsTrick DEF TrickInv
  <2>3. CASE NextTrick(card)
    <3>1. m_PlayedCards' = << >>
      BY <2>3 DEF NextTrick
    <3> QED BY <3>1, NothingPlayed DEF TrickInv
  <2>4. CASE NextRound(card)
    <3>1. request' = AskRevealedAsset
      BY <2>4 DEF NextRound, PreTurn, AskForAsset
    <3> QED BY <3>1, RequestFacts DEF TrickInv, IsPlaying
  <2>5. CASE MatchEnded(card)
    <3>1. request' = NoRequest
      BY <2>5 DEF MatchEnded
    <3> QED BY <3>1, RequestFacts DEF TrickInv, IsPlaying
  <2>6. CASE NoSuchPlayer(card) \/ OutOfBounds(card)
    BY <2>6 DEF NoSuchPlayer, OutOfBounds, TrickInv, IsPlaying
  <2> QED BY <1>4, <2>2, <2>3, <2>4, <2>5, <2>6 DEF CardPlayed
<1>5. CASE UNCHANGED vars
  BY <1>5 DEF vars, deckVars, seatVars, handVars, assetVars, scoreVars, TrickInv, IsPlaying
<1> QED BY <1>1, <1>2, <1>3, <1>4, <1>5 DEF Next, Answer, Finished

(* In every match the trick holds no card twice, nor one that is in a hand.  *)
THEOREM TrickInvariant == Spec => [](GameInv /\ CardsInv /\ TrickInv)
<1>1. Init => TrickInv
  BY RequestFacts DEF Init, TrickInv, IsPlaying
<1> QED BY <1>1, CardsInvariant, TrickNext, PTL DEF Spec

(* Clockwise, the player TurnEnded computes is the one who played the       *)
(* winning card.                                                            *)
LEMMA WinnerPlayed ==
    ASSUME PlayDir = CW, NEW cur \in Positions, NEW index \in 0 .. 3
    PROVE  GetWinnerPosition(PlayDir, cur, index)
             = CHOOSE p \in Positions : DealingRank(PlayDir, NextAfter(cur), p) = index
<1> DEFINE first == NextAfter(cur)
           winner == GetWinnerPosition(PlayDir, cur, index)
<1>1. first \in Positions /\ Positions = {0, 1, 2, 3}
  BY SeatFacts
<1>2. winner = (first + index) % 4
  BY DEF GetWinnerPosition, NextAfter
<1>3. \A a \in {0, 1, 2, 3} : \A b \in 0 .. 3 :
          /\ (a + b) % 4 \in {0, 1, 2, 3}
          /\ (((a + b) % 4) - a) % 4 = b
  OBVIOUS
<1>4. \A p \in Positions : DealingRank(PlayDir, first, p) = (p - first) % 4
  BY DEF DealingRank
<1> HIDE DEF first, winner
<1>5. winner \in Positions /\ DealingRank(PlayDir, first, winner) = index
  BY <1>1, <1>2, <1>3, <1>4
<1>6. \A p \in Positions : DealingRank(PlayDir, first, p) = index => p = winner
  BY <1>1, <1>5, RankFacts
<1>7. (CHOOSE p \in Positions : DealingRank(PlayDir, first, p) = index) = winner
  BY <1>5, <1>6, Zenon
<1> QED BY <1>7 DEF first, winner

(* The four cards that were put on a stack are its last four.               *)
LEMMA LastFour ==
    ASSUME NEW stack \in Seq(Pack), NEW trick \in Seq(Pack), Len(trick) = 4
    PROVE  SubSeq(stack \o trick, Len(stack) + 1, Len(stack) + 4) = trick
<1> DEFINE n == Len(stack)
           both == stack \o trick
           last == SubSeq(both, n + 1, n + 4)
<1>1. n \in Nat /\ Len(trick) \in Nat
  OBVIOUS
<1>2. /\ both \in Seq(Pack) /\ Len(both) = n + Len(trick)
      /\ \A i \in 1 .. n + Len(trick) : both[i] = IF i <= n THEN stack[i] ELSE trick[i - n]
  BY ConcatProperties, Zenon
<1> HIDE DEF n, both
<1>3. Len(both) = n + 4 /\ \A i \in 1 .. 4 : both[n + i] = trick[i]
  <2>1. Len(both) = n + 4
    BY <1>2
  <2>2. ASSUME NEW i \in 1 .. 4 PROVE both[n + i] = trick[i]
    <3>1. n + i \in 1 .. n + Len(trick) /\ ~(n + i <= n) /\ (n + i) - n = i
      BY <1>1
    <3> QED BY <1>2, <3>1, Zenon
  <2> QED BY <2>1, <2>2
<1>4. last \in Seq(Pack) /\ Len(last) = 4 /\ \A i \in 1 .. 4 : last[i] = both[n + i]
  <2>1. \A i \in n + 1 .. n + 4 : both[i] \in Pack
    <3>1. \A i \in n + 1 .. n + 4 : i \in 1 .. Len(both)
      BY <1>1, <1>3
    <3> QED BY <1>2, <3>1
  <2>2. /\ last \in Seq(Pack)
        /\ Len(last) = IF n + 1 <= n + 4 THEN (n + 4) - (n + 1) + 1 ELSE 0
        /\ \A i \in 1 .. (n + 4) - (n + 1) + 1 : last[i] = both[(n + 1) + i - 1]
    BY <1>1, <2>1, SubSeqProperties
  <2>3. (n + 4) - (n + 1) + 1 = 4 /\ n + 1 <= n + 4 /\ \A i \in 1 .. 4 : (n + 1) + i - 1 = n + i
    BY <1>1
  <2> HIDE DEF last
  <2> QED BY <2>2, <2>3, Zenon
<1> HIDE DEF last
<1>5. last = trick
  BY <1>3, <1>4, SeqEqual
<1> QED BY <1>5 DEF last, both, n

(* The trick a card completes is put on the stack of the team of the player *)
(* of its master card.                                                      *)
LEMMA TrickTakenByMaster ==
    ASSUME PlayDir = CW, GameInv, CardsInv, TrickInv, ~undefined, NEW card \in request.cards,
           Len(TrickAfter(card)) = 4, m_TeamPlayedCards' = StacksAfter(card),
           request'.what = "WaitingPlay" => m_CurrentPlayer' = TrickWinner(card),
           NEW team \in Teams
    PROVE  TrickToMaster(team)
<1> DEFINE stack == m_TeamPlayedCards[team]
           trick == TrickAfter(card)
           index == WinnerIndex(m_CurrentAsset, TrickAfter(card))
           winner == TrickWinner(card)
           player(i) == TrickPlayer(i)
           last == TrickFor(team)
<1> SUFFICES ASSUME Len(m_TeamPlayedCards'[team]) = Len(stack) + 4
             PROVE  \E i \in 1 .. 4 : /\ IsMaster(m_CurrentAsset, last, i)
                                      /\ Team(player(i)) = team
                                      /\ request'.what = "WaitingPlay" => m_CurrentPlayer' = player(i)
  BY Zenon DEF TrickToMaster, HasTaken
<1>1. /\ m_TeamPlayedCards \in [Teams -> Seq(Pack)] /\ stack \in Seq(Pack) /\ Len(stack) \in Nat
      /\ trick \in Seq(Pack) /\ m_CurrentPlayer \in Positions
  BY CardPlayedParts DEF GameInv, TypeOK
<1>2. Trick(trick)
  <2>1. IsInjective(trick)
    BY CardJoinsTrick DEF TrickApart
  <2>2. Pack \subseteq Card
    BY PackAssumption DEF Pack, Card
  <2>3. trick \in Seq(Card)
    BY <1>1, <2>2
  <2> HIDE DEF trick
  <2> QED BY <2>1, <2>3 DEF Trick, IsInjective
<1>3. index \in 0 .. 3 /\ IsMaster(m_CurrentAsset, trick, index + 1)
  <2> HIDE DEF trick
  <2>1. Len(trick) = 4 /\ index = WinnerIndex(m_CurrentAsset, trick)
    BY DEF trick
  <2> QED BY <1>2, <2>1, WinnerIsLaw, Zenon
<1>4. winner = CHOOSE p \in Positions : DealingRank(PlayDir, NextAfter(m_CurrentPlayer), p) = index
  <2> HIDE DEF index
  <2>1. winner = GetWinnerPosition(PlayDir, m_CurrentPlayer, index)
    BY DEF TrickWinner, index
  <2> QED BY <1>1, <1>3, <2>1, WinnerPlayed, Zenon
<1>5. winner = player(index + 1) /\ index + 1 \in 1 .. 4
  <2>1. (index + 1) - 1 = index /\ index + 1 \in 1 .. 4
    BY <1>3
  <2> QED BY <1>4, <2>1, Zenon DEF TrickPlayer
<1>6. m_TeamPlayedCards'[team] = IF team = Team(winner) THEN stack \o trick ELSE stack
  BY <1>1 DEF StacksAfter
<1> HIDE DEF stack, trick, winner, index
<1>7. team = Team(winner)
  <2> SUFFICES ASSUME team # Team(winner) PROVE FALSE
    OBVIOUS
  <2>1. Len(stack) = Len(stack) + 4
    BY <1>6
  <2> QED BY <1>1, <2>1
<1>8. last = trick
  <2>1. Len(trick) = 4
    BY DEF trick
  <2>2. m_TeamPlayedCards'[team] = stack \o trick
    BY <1>6, <1>7
  <2>3. last = SubSeq(m_TeamPlayedCards'[team], Len(stack) + 1, Len(stack) + 4)
    BY DEF TrickFor, stack
  <2> QED BY <1>1, <2>1, <2>2, <2>3, LastFour, Zenon
<1> HIDE DEF player, last
<1>9. /\ IsMaster(m_CurrentAsset, last, index + 1) /\ Team(player(index + 1)) = team
      /\ request'.what = "WaitingPlay" => m_CurrentPlayer' = player(index + 1)
  BY <1>3, <1>5, <1>7, <1>8 DEF winner
<1> QED BY <1>5, <1>9, Zenon DEF player

(* The stacks grow by four cards only when a trick ends.                    *)
LEMMA OtherSteps ==
    ASSUME GameInv, NEW team \in Teams,
           m_TeamPlayedCards' = m_TeamPlayedCards \/ m_TeamPlayedCards'[team] = << >>
    PROVE  TrickToMaster(team)
<1>1. m_TeamPlayedCards[team] \in Seq(Pack)
  BY DEF GameInv, TypeOK
<1>2. Len(m_TeamPlayedCards[team]) \in Nat
  BY <1>1
<1>3. \A n \in Nat : n # n + 4 /\ 0 # n + 4
  OBVIOUS
<1>4. Len(<< >>) = 0
  OBVIOUS
<1>5. Len(m_TeamPlayedCards'[team]) # Len(m_TeamPlayedCards[team]) + 4
  BY <1>2, <1>3, <1>4, Zenon
<1> QED BY <1>5, Zenon DEF TrickToMaster, HasTaken

LEMMA MasterTakesStep ==
    ASSUME PlayDir = CW, GameInv, CardsInv, TrickInv, Next, NEW team \in Teams
    PROVE  TrickToMaster(team)
<1>1. CASE StartGame
  BY <1>1, OtherSteps DEF StartGame
<1>2. ASSUME NEW colour \in Colours, AcceptAsset(colour) PROVE TrickToMaster(team)
  BY <1>2, OtherSteps DEF AcceptAsset, deckVars
<1>3. CASE RefuseAsset
  BY <1>3, OtherSteps DEF RefuseAsset
<1>4. ASSUME NEW card \in request.cards, CardPlayed(card) PROVE TrickToMaster(team)
  <2>1. ~undefined
    BY <1>4 DEF CardPlayed
  <2>2. CASE NextCard(card)
    BY <2>2, OtherSteps DEF NextCard, deckVars
  <2>3. CASE NextTrick(card)
    BY <2>1, <2>3, TrickTakenByMaster DEF NextTrick
  <2>4. CASE NextRound(card)
    <3>1. m_TeamPlayedCards'[team] = << >>
      BY <2>4 DEF NextRound, StacksAfterRound
    <3> QED BY <3>1, OtherSteps
  <2>5. CASE MatchEnded(card)
    BY <2>1, <2>5, TrickTakenByMaster DEF MatchEnded
  <2>6. CASE OutOfBounds(card)
    BY <2>6, OtherSteps DEF OutOfBounds, deckVars
  <2>7. CASE NoSuchPlayer(card)
    <3>1. Len(TrickAfter(card)) = 4 /\ TrickWinner(card) \notin Positions
      BY <2>7 DEF NoSuchPlayer
    <3> QED BY <2>1, <3>1, ClockwiseWinner
  <2> QED BY <1>4, <2>2, <2>3, <2>4, <2>5, <2>6, <2>7 DEF CardPlayed
<1>5. CASE Finished
  BY <1>5, OtherSteps DEF Finished, vars, deckVars
<1> QED BY <1>1, <1>2, <1>3, <1>4, <1>5 DEF Next, Answer

(* Clockwise, in every match, every trick goes to the team of the player of *)
(* its master card, who plays first in the next one.                        *)
THEOREM MasterTakesTrickClockwise == ASSUME PlayDir = CW PROVE Spec => MasterTakesTrick
<1>1. GameInv /\ CardsInv /\ TrickInv /\ [Next]_vars
        => [\A team \in Teams : TrickToMaster(team)]_vars
  BY MasterTakesStep
<1> QED BY <1>1, TrickInvariant, PTL DEF Spec, MasterTakesTrick

----------------------------------------------------------------------------
(* The accounts.  A card is open until the trick it is in has been taken.   *)
(* The scores of the teams and the worth of the open cards make the worth   *)
(* of the pack and the belote; in the first match, each team has what its   *)
(* own stack is worth.                                                      *)
Open(hands, trick) ==
    {c \in Pack : (\E p \in Positions : c \in hands[p]) \/ c \in Cards(trick)}

SharedOut(scores, asset, owner, open) ==
    scores[NorthSouth] + scores[WestEast] + Points(asset, open)
      = Points(asset, Pack) + Premium(owner, NorthSouth) + Premium(owner, WestEast)

Earned(scores, asset, stacks, owner) ==
    \A team \in Teams :
        scores[team] = Points(asset, Cards(stacks[team])) + Premium(owner, team)

Rewarded(scores, asset, stacks, owner, winner) ==
    \A team \in Teams :
        scores[team] = Points(asset, Cards(stacks[team])) + Premium(owner, team)
                         + IF team = winner THEN LastTurnScore ELSE 0

ScoresInv ==
    /\ IsAsking => m_Scores = NoScore
    /\ IsPlaying => /\ m_CurrentAsset \in Colours
                    /\ SharedOut(m_Scores, m_CurrentAsset, m_TeamOwningBelote,
                                 Open(m_PlayersHand, m_PlayedCards))
                    /\ matches = 1 => Earned(m_Scores, m_CurrentAsset, m_TeamPlayedCards,
                                             m_TeamOwningBelote)
    /\ matches = 1 /\ request = NoRequest =>
          \E winner \in Teams : Rewarded(m_Scores, m_CurrentAsset, m_TeamPlayedCards,
                                          m_TeamOwningBelote, winner)

LEMMA CardPointsDef == \A team : CardPoints(team) = Points(m_CurrentAsset, Cards(m_TeamPlayedCards[team]))
BY Zenon DEF CardPoints, Points

LEMMA SameTeams ==
  /\ Accounts!Teams = Teams /\ Accounts!NorthSouth = NorthSouth /\ Accounts!WestEast = WestEast
  /\ Accounts!NoTeam = NoTeam
  /\ \A team : Accounts!GetOppositeTeam(team) = GetOppositeTeam(team)
BY DEF Accounts!Teams, Teams, Accounts!NorthSouth, NorthSouth, Accounts!WestEast, WestEast,
       Accounts!GetOppositeTeam, GetOppositeTeam, NoTeam, Accounts!NoTeam

LEMMA SameSettlement ==
    ASSUME NEW scores, NEW contract, NEW belote, NEW totals, NEW pending
    PROVE  Accounts!Settle(scores, contract, belote, totals, pending)
          = Settle(scores, contract, belote, totals, pending)
<1>1. Accounts!ContractWon(scores, contract) = ContractWon(scores, contract)
  BY DEF Accounts!ContractWon, ContractWon
<1>2. Accounts!Capot(scores, contract) = Capot(scores, contract)
  BY DEF Accounts!ContractWon, ContractWon, Accounts!Capot, Capot
<1>3. Accounts!Litige(scores, contract, belote) = Litige(scores, contract, belote)
  BY SameTeams DEF Accounts!ContractWon, ContractWon, Accounts!Litige, Litige
<1>4. \A team : Accounts!Premium(belote, team) = Premium(belote, team)
  BY DEF Accounts!Premium, Premium
<1>5. Accounts!Shelved(scores, contract, belote) = Shelved(scores, contract, belote)
  BY SameTeams, <1>3, <1>4 DEF Accounts!Shelved, Shelved
<1>6. \A team : Accounts!Award(scores, contract, belote, team) = Award(scores, contract, belote, team)
  BY <1>1, <1>2, <1>3, <1>4 DEF Accounts!Award, Award
<1>7. Accounts!RoundWinner(scores, contract) = RoundWinner(scores, contract)
  BY SameTeams, <1>1 DEF Accounts!RoundWinner, RoundWinner
<1> QED BY SameTeams, <1>5, <1>6, <1>7 DEF Accounts!Settle, Settle

LEMMA PackSubsets == \A S \in SUBSET Pack : S \in SUBSET Card /\ IsFiniteSet(S)
BY FinitePack, FS_Subset

LEMMA CardsInPack == \A seq \in Seq(Pack) : Cards(seq) \in SUBSET Pack
<1> SUFFICES ASSUME NEW seq \in Seq(Pack), NEW i \in DOMAIN seq PROVE seq[i] \in Pack
  BY DEF Cards
<1>1. i \in 1 .. Len(seq)
  BY LenProperties
<1> QED BY <1>1, ElementOfSeq, Zenon

LEMMA OpenInPack == \A hands, trick : Open(hands, trick) \in SUBSET Pack
BY DEF Open

(* The belote enters the score of its owner once.                           *)
LEMMA BeloteEnters ==
    ASSUME GameInv, ~undefined, NEW card \in request.cards, NEW team \in Teams
    PROVE  /\ ScoresAfter(card)[team] \in Nat /\ m_Scores[team] \in Nat
           /\ ScoresAfter(card)[team] + Premium(m_TeamOwningBelote, team)
                = m_Scores[team] + Premium(OwnerAfter(card), team)
<1>1. Team(m_CurrentPlayer) \in Teams /\ BeloteScore \in Nat /\ NoTeam \notin Teams
  BY SeatFacts, ScoreAssumption
<1>2. m_Scores \in [Teams -> Nat] /\ ScoresAfter(card) \in [Teams -> Nat]
  BY ScoresAfterFacts DEF GameInv, TypeOK
<1>3. CASE CheckForBelote(card)
  <2>1. m_TeamOwningBelote = NoTeam
    BY <1>3 DEF CheckForBelote
  <2>2. Premium(m_TeamOwningBelote, team) = 0
    BY <1>1, <2>1 DEF Premium
  <2>3. ScoresAfter(card) = [m_Scores EXCEPT ![Team(m_CurrentPlayer)] = @ + BeloteScore]
        /\ OwnerAfter(card) = Team(m_CurrentPlayer)
    BY <1>3 DEF ScoresAfter, OwnerAfter
  <2>4. ScoresAfter(card)[team]
          = m_Scores[team] + IF Team(m_CurrentPlayer) = team THEN BeloteScore ELSE 0
    BY <1>1, <1>2, <2>3
  <2>5. Premium(OwnerAfter(card), team) = IF Team(m_CurrentPlayer) = team THEN BeloteScore ELSE 0
    BY <2>3 DEF Premium
  <2> QED BY <1>1, <1>2, <2>2, <2>4, <2>5
<1>4. CASE ~CheckForBelote(card)
  BY <1>2, <1>4 DEF ScoresAfter, OwnerAfter
<1> QED BY <1>3, <1>4

(* A card that is played stays open until its trick is taken.               *)
LEMMA OpenStays ==
    ASSUME GameInv, CardsInv, ~undefined, NEW card \in request.cards
    PROVE  Open(HandsAfter(card), TrickAfter(card)) = Open(m_PlayersHand, m_PlayedCards)
<1>1. /\ IsPlaying /\ m_CurrentPlayer \in Positions /\ card \in Pack /\ m_PlayedCards \in Seq(Pack)
      /\ m_PlayersHand \in [Positions -> SUBSET Pack]
  BY CardMoves, CardPlayedParts DEF GameInv, TypeOK
<1>2. card \in m_PlayersHand[m_CurrentPlayer]
  BY <1>1, PlayableInHand DEF CardsInv, PlayingInv
<1>3. Cards(TrickAfter(card)) = Cards(m_PlayedCards) \cup {card}
  BY <1>1, AppendCards DEF TrickAfter
<1>4. \A p \in Positions :
          HandsAfter(card)[p] = IF p = m_CurrentPlayer THEN m_PlayersHand[p] \ {card}
                                                       ELSE m_PlayersHand[p]
  BY <1>1 DEF HandsAfter
<1> QED BY <1>1, <1>2, <1>3, <1>4 DEF Open

LEMMA TrickLeavesOpen ==
    ASSUME GameInv, CardsInv, TrickInv, ~undefined, NEW card \in request.cards,
           Len(TrickAfter(card)) = 4
    PROVE  /\ Points(m_CurrentAsset, Cards(TrickAfter(card)))
                = TrickScore(m_CurrentAsset, TrickAfter(card))
           /\ Points(m_CurrentAsset, Open(m_PlayersHand, m_PlayedCards))
                = Points(m_CurrentAsset, Open(HandsAfter(card), << >>))
                    + TrickScore(m_CurrentAsset, TrickAfter(card))
<1> DEFINE left == Open(HandsAfter(card), << >>)
           trick == TrickAfter(card)
<1>1. TrickApart(HandsAfter(card), trick) /\ trick \in Seq(Pack)
  BY CardJoinsTrick, CardPlayedParts
<1>2. Cards(trick) \in SUBSET Pack /\ Cards(trick) \in SUBSET Card /\ IsFiniteSet(Cards(trick))
  BY <1>1, CardsInPack, PackSubsets
<1>3. left \in SUBSET Pack /\ left \in SUBSET Card /\ IsFiniteSet(left)
  BY OpenInPack, PackSubsets
<1>4. Cards(<< >>) = {}
  BY DEF Cards
<1>5. Open(m_PlayersHand, m_PlayedCards) = left \cup Cards(trick) /\ left \cap Cards(trick) = {}
  <2>1. Open(m_PlayersHand, m_PlayedCards) = Open(HandsAfter(card), trick)
    BY OpenStays
  <2>2. Open(HandsAfter(card), trick) = left \cup Cards(trick)
    BY <1>2, <1>4 DEF Open
  <2>3. left \cap Cards(trick) = {}
    BY <1>1, <1>4 DEF Open, TrickApart
  <2> QED BY <2>1, <2>2, <2>3
<1>6. Points(m_CurrentAsset, Cards(trick)) = TrickScore(m_CurrentAsset, trick)
  <2>1. trick \in Seq(Card)
    <3>1. Pack \subseteq Card
      BY FinitePack
    <3>2. DOMAIN trick = 1 .. Len(trick) /\ trick \in [1 .. Len(trick) -> Card] /\ Len(trick) \in Nat
      BY <1>1, <3>1, LenProperties
    <3> HIDE DEF trick
    <3> QED BY <3>2
  <2>2. \A i, j \in DOMAIN trick : trick[i] = trick[j] => i = j
    BY <1>1 DEF TrickApart, IsInjective
  <2>3. Cards(trick) = {trick[i] : i \in DOMAIN trick}
    BY DEF Cards
  <2> HIDE DEF trick
  <2>4. Len(trick) = 4
    BY DEF trick
  <2> QED BY <2>1, <2>2, <2>3, <2>4, TrickPoints, Zenon
<1> HIDE DEF left, trick
<1>7. Points(m_CurrentAsset, left \cup Cards(trick))
        = Points(m_CurrentAsset, left) + Points(m_CurrentAsset, Cards(trick))
  BY <1>2, <1>3, <1>5, PointsFacts, Zenon
<1> QED BY <1>5, <1>6, <1>7, Zenon DEF left, trick

(* What the end of a trick adds to the scores.                              *)
TurnPoints(card) == TrickScore(m_CurrentAsset, TrickAfter(card)) + IF IsLastTrick THEN LastTurnScore ELSE 0

LEMMA TurnAdds ==
    ASSUME GameInv, ~undefined, NEW card \in request.cards, Len(TrickAfter(card)) = 4
    PROVE  /\ TurnPoints(card) \in Nat /\ LastTurnScore \in Nat
           /\ TrickScore(m_CurrentAsset, TrickAfter(card)) \in Nat
           /\ Team(TrickWinner(card)) \in Teams
           /\ \A team \in Teams :
                 TurnScores(card)[team] = ScoresAfter(card)[team]
                   + IF team = Team(TrickWinner(card)) THEN TurnPoints(card) ELSE 0
<1>1. TrickAfter(card) \in Seq(Pack) /\ m_CurrentPlayer \in Positions
  BY CardPlayedParts
<1>2. Team(TrickWinner(card)) \in Teams
  BY SeatFacts
<1>3. TrickScore(m_CurrentAsset, TrickAfter(card)) \in Nat /\ LastTurnScore \in Nat
  BY <1>1, TrickScoreType, ScoreAssumption
<1>4. \A team \in Teams :
          TurnScores(card)[team] = ScoresAfter(card)[team]
              + IF team = Team(TrickWinner(card)) THEN TurnPoints(card) ELSE 0
  BY <1>2, <1>3, ScoresAfterFacts DEF TurnScores, TurnPoints
<1>5. TurnPoints(card) \in Nat
  BY <1>3 DEF TurnPoints
<1> QED BY <1>2, <1>3, <1>4, <1>5

(* The points that are not out are with the teams.                          *)
LEMMA TurnShared ==
    ASSUME GameInv, CardsInv, TrickInv, ScoresInv, ~undefined, NEW card \in request.cards,
           Len(TrickAfter(card)) = 4
    PROVE  TurnScores(card)[NorthSouth] + TurnScores(card)[WestEast]
             + Points(m_CurrentAsset, Open(HandsAfter(card), << >>))
           = Points(m_CurrentAsset, Pack) + Premium(OwnerAfter(card), NorthSouth)
               + Premium(OwnerAfter(card), WestEast) + IF IsLastTrick THEN LastTurnScore ELSE 0
<1> DEFINE north == TurnScores(card)[NorthSouth]
           west  == TurnScores(card)[WestEast]
           n1 == ScoresAfter(card)[NorthSouth]
           w1 == ScoresAfter(card)[WestEast]
           n0 == m_Scores[NorthSouth]
           w0 == m_Scores[WestEast]
           left == Points(m_CurrentAsset, Open(HandsAfter(card), << >>))
           before == Points(m_CurrentAsset, Open(m_PlayersHand, m_PlayedCards))
           pack == Points(m_CurrentAsset, Pack)
           np0 == Premium(m_TeamOwningBelote, NorthSouth)
           wp0 == Premium(m_TeamOwningBelote, WestEast)
           np1 == Premium(OwnerAfter(card), NorthSouth)
           wp1 == Premium(OwnerAfter(card), WestEast)
           trick == TrickScore(m_CurrentAsset, TrickAfter(card))
           last == IF IsLastTrick THEN LastTurnScore ELSE 0
<1>1. /\ NorthSouth \in Teams /\ WestEast \in Teams /\ NorthSouth # WestEast
      /\ \A team \in Teams : team = NorthSouth \/ team = WestEast
  BY DEF Teams, NorthSouth, WestEast
<1>2. IsPlaying
  BY CardMoves
<1>3. n0 + w0 + before = pack + np0 + wp0
  BY <1>2 DEF ScoresInv, SharedOut
<1>4. /\ n0 \in Nat /\ w0 \in Nat /\ n1 \in Nat /\ w1 \in Nat
      /\ n1 + np0 = n0 + np1 /\ w1 + wp0 = w0 + wp1
  BY <1>1, BeloteEnters
<1>5. /\ np0 \in Nat /\ wp0 \in Nat /\ np1 \in Nat /\ wp1 \in Nat /\ last \in Nat /\ trick \in Nat
  BY PremiumType, TurnAdds
<1>6. left \in Nat /\ before \in Nat /\ pack \in Nat
  BY OpenInPack, PackSubsets, PointsFacts
<1>7. before = left + trick
  BY TrickLeavesOpen
<1>8. \/ north = n1 + (trick + last) /\ west = w1
      \/ north = n1 /\ west = w1 + (trick + last)
  <2>1. /\ north = n1 + IF NorthSouth = Team(TrickWinner(card)) THEN trick + last ELSE 0
        /\ west = w1 + IF WestEast = Team(TrickWinner(card)) THEN trick + last ELSE 0
        /\ Team(TrickWinner(card)) \in Teams
    BY <1>1, TurnAdds DEF TurnPoints
  <2> HIDE DEF north, west, n1, w1, trick, last
  <2> QED BY <1>1, <1>4, <1>5, <2>1
<1> HIDE DEF north, west, n0, w0, n1, w1, left, before, pack, np0, wp0, np1, wp1, trick, last
<1>9. north + west + left = pack + np1 + wp1 + last
  BY <1>3, <1>4, <1>5, <1>6, <1>7, <1>8
<1> QED BY <1>9 DEF north, west, left, pack, np1, wp1, last

(* In the first match each team has the points of its own stack.            *)
LEMMA TurnEarned ==
    ASSUME GameInv, CardsInv, TrickInv, ScoresInv, ~undefined, NEW card \in request.cards,
           Len(TrickAfter(card)) = 4, matches = 1, NEW team \in Teams
    PROVE  TurnScores(card)[team]
             = Points(m_CurrentAsset, Cards(StacksAfter(card)[team])) + Premium(OwnerAfter(card), team)
                 + IF IsLastTrick /\ team = Team(TrickWinner(card)) THEN LastTurnScore ELSE 0
<1> DEFINE winner == Team(TrickWinner(card))
           stack == m_TeamPlayedCards[team]
           pile == StacksAfter(card)[team]
           trick == TrickAfter(card)
           old == Points(m_CurrentAsset, Cards(stack))
           new == Points(m_CurrentAsset, Cards(pile))
           worth == TrickScore(m_CurrentAsset, trick)
<1>1. /\ winner \in Teams /\ stack \in Seq(Pack) /\ trick \in Seq(Pack) /\ IsPlaying
      /\ m_TeamPlayedCards \in [Teams -> Seq(Pack)]
  BY TurnAdds, CardPlayedParts, CardMoves DEF GameInv, TypeOK
<1>2. Cards(stack) \cap Cards(trick) = {}
  <2>1. EveryCardOnce(HandsAfter(card), trick, m_TeamPlayedCards)
    BY CardMoves
  <2> HIDE DEF trick
  <2>2. Cards(trick) \cap Cards(m_TeamPlayedCards[team]) = {}
    BY <2>1, Zenon DEF EveryCardOnce
  <2> QED BY <2>2
<1>3. pile = IF team = winner THEN stack \o trick ELSE stack
  BY <1>1 DEF StacksAfter
<1>4. /\ Cards(stack) \in SUBSET Card /\ IsFiniteSet(Cards(stack))
      /\ Cards(trick) \in SUBSET Card /\ IsFiniteSet(Cards(trick))
  BY <1>1, CardsInPack, PackSubsets
<1>5. old \in Nat /\ Points(m_CurrentAsset, Cards(trick)) = worth
  BY <1>4, PointsFacts, TrickLeavesOpen
<1>6. new = old + IF team = winner THEN worth ELSE 0
  <2> HIDE DEF winner, trick, stack, pile
  <2>1. CASE team = winner
    <3>1. Cards(pile) = Cards(stack) \cup Cards(trick)
      BY <1>1, <1>3, <2>1, ConcatCards
    <3>2. Points(m_CurrentAsset, Cards(stack) \cup Cards(trick))
            = Points(m_CurrentAsset, Cards(stack)) + Points(m_CurrentAsset, Cards(trick))
      BY <1>2, <1>4, PointsFacts, Zenon
    <3> QED BY <1>5, <2>1, <3>1, <3>2
  <2>2. CASE team # winner
    BY <1>3, <1>5, <2>2
  <2> QED BY <2>1, <2>2
<1> DEFINE after == ScoresAfter(card)[team]
           p0 == Premium(m_TeamOwningBelote, team)
           p1 == Premium(OwnerAfter(card), team)
           last == IF IsLastTrick THEN LastTurnScore ELSE 0
<1>7. after \in Nat /\ m_Scores[team] \in Nat /\ after + p0 = m_Scores[team] + p1
  BY BeloteEnters
<1>8. m_Scores[team] = old + p0
  BY <1>1 DEF ScoresInv, Earned
<1>9. p0 \in Nat /\ p1 \in Nat /\ worth \in Nat /\ last \in Nat
  BY PremiumType, TurnAdds
<1>10. TurnScores(card)[team] = after + IF team = winner THEN worth + last ELSE 0
  BY TurnAdds DEF TurnPoints
<1> HIDE DEF winner, old, new, worth, after, p0, p1
<1> QED BY <1>5, <1>6, <1>7, <1>8, <1>9, <1>10 DEF new, p1, winner, last

(* Every step keeps the accounts.                                           *)
LEMMA DealScores ==
    ASSUME NEW dealer, NEW deck, PreTurn(dealer, deck)
    PROVE  ScoresInv'
<1>1. m_Scores' = NoScore /\ request' = AskRevealedAsset
  BY DEF PreTurn, AskForAsset
<1> QED BY <1>1, RequestFacts DEF ScoresInv, IsAsking, IsPlaying

LEMMA AcceptAssetScores ==
    ASSUME GameInv, CardsInv, ScoresInv, NEW colour \in Colours, AcceptAsset(colour)
    PROVE  ScoresInv'
<1> DEFINE first == NextAfter(m_CurrentDealer)
           taker == DealingRank(PlayDir, first, m_CurrentPlayer)
<1>1. IsAsking /\ matches # 0 /\ m_CurrentPlayer \in Positions /\ m_CurrentDealer \in Positions
  <2>1. IsAsking
    BY DEF AcceptAsset, Proposable, IsAsking
  <2>2. request.what # "nothing"
    BY <2>1, RequestFacts DEF IsAsking
  <2>3. request # NoRequest
    BY <2>2, RequestFacts
  <2> QED BY <2>1, <2>2, <2>3 DEF GameInv, AskedInMatch, TypeOK, PlayerIsSeated, IsAsking
<1>2. first \in Positions /\ taker \in {0, 1, 2, 3}
  BY <1>1, SeatFacts
<1>3. /\ Shuffled(m_Deck) /\ m_TeamOwningBelote = NoTeam /\ m_Scores = NoScore
      /\ matches = 1 => NothingStacked
      /\ \A p \in Positions :
            m_PlayersHand[p] = CardsAt(m_Deck, FirstShare(DealingRank(PlayDir, first, p)))
  <2>1. matches > 0
    BY <1>1, RuleSetAssumption DEF GameInv, TypeOK
  <2> QED BY <1>1, <2>1 DEF CardsInv, AskingInv, DeckInv, ScoresInv
<1>4. /\ m_PlayersHand' = [p \in Positions |-> m_PlayersHand[p] \cup
            CardsAt(m_Deck, LastShare(DealingRank(PlayDir, first, p), taker))]
      /\ m_PlayedCards' = << >> /\ m_CurrentAsset' = colour
      /\ request'.what = "WaitingPlay"
      /\ UNCHANGED << m_TeamPlayedCards, m_TeamOwningBelote, m_Scores, matches >>
  BY DEF AcceptAsset, AskToPlay, WaitingPlay, deckVars, scoreVars
<1>5. m_PlayersHand' = DealtHands(m_Deck, first, taker)
  <2> HIDE DEF first, taker
  <2> QED BY <1>3, <1>4 DEF DealtHands
<1> HIDE DEF first, taker
<1>6. \A c \in Pack : \E p \in Positions : c \in m_PlayersHand'[p]
  <2> DEFINE none == [team \in Teams |-> << >>]
  <2>1. \A team \in Teams : none[team] = << >>
    OBVIOUS
  <2>2. Cards(<< >>) = {}
    BY DEF Cards
  <2> HIDE DEF none
  <2>3. EveryCardOnce(m_PlayersHand', << >>, none)
    BY <1>2, <1>3, <1>5, <2>1, AllDealt
  <2>4. \A c \in Pack : \/ \E p \in Positions : c \in m_PlayersHand'[p]
                        \/ c \in Cards(<< >>)
                        \/ \E team \in Teams : c \in Cards(none[team])
    BY <2>3, Zenon DEF EveryCardOnce
  <2> QED BY <2>1, <2>2, <2>4
<1>7. Open(m_PlayersHand', m_PlayedCards') = Pack
  BY <1>6 DEF Open
<1>8. \A team \in Teams : Premium(NoTeam, team) = 0 /\ NoScore[team] = 0
  BY SeatFacts DEF Premium, NoScore
<1>9. SharedOut(m_Scores', m_CurrentAsset', m_TeamOwningBelote', Open(m_PlayersHand', m_PlayedCards'))
  <2>1. Points(colour, Pack) \in Nat
    BY PackSubsets, PointsFacts
  <2>2. NorthSouth \in Teams /\ WestEast \in Teams
    BY DEF Teams
  <2>3. /\ NoScore[NorthSouth] = 0 /\ NoScore[WestEast] = 0
        /\ Premium(NoTeam, NorthSouth) = 0 /\ Premium(NoTeam, WestEast) = 0
    BY <1>8, <2>2
  <2>4. SharedOut(NoScore, colour, NoTeam, Pack)
    BY <2>1, <2>3 DEF SharedOut
  <2> QED BY <1>3, <1>4, <1>7, <2>4
<1>10. ASSUME matches = 1
       PROVE  Earned(m_Scores', m_CurrentAsset', m_TeamPlayedCards', m_TeamOwningBelote')
  <2>1. \A team \in Teams : Cards(m_TeamPlayedCards[team]) = {}
    BY <1>3, <1>10 DEF NothingStacked, Cards
  <2>2. \A team \in Teams :
            NoScore[team] = Points(colour, Cards(m_TeamPlayedCards[team])) + Premium(NoTeam, team)
    <3>1. Points(colour, {}) = 0
      BY PointsFacts
    <3> QED BY <1>8, <2>1, <3>1
  <2> QED BY <1>3, <1>4, <2>2 DEF Earned
<1>11. ~IsAsking' /\ request' # NoRequest
  BY <1>4, RequestFacts DEF IsAsking, AskRevealedAsset, AskAnotherAsset, NoRequest
<1> QED BY <1>4, <1>9, <1>10, <1>11 DEF ScoresInv

LEMMA NextCardScores ==
    ASSUME GameInv, CardsInv, ScoresInv, ~undefined, NEW card \in request.cards, NextCard(card),
           UNCHANGED matches
    PROVE  ScoresInv'
<1>1. /\ m_PlayedCards' = TrickAfter(card) /\ m_PlayersHand' = HandsAfter(card)
      /\ m_TeamOwningBelote' = OwnerAfter(card) /\ m_Scores' = ScoresAfter(card)
      /\ request'.what = "WaitingPlay"
      /\ UNCHANGED << m_TeamPlayedCards, m_CurrentAsset, matches >>
  BY DEF NextCard, AskToPlay, WaitingPlay, deckVars, assetVars
<1>2. IsPlaying /\ NorthSouth \in Teams /\ WestEast \in Teams
  BY CardMoves DEF Teams
<1>3. Open(m_PlayersHand', m_PlayedCards') = Open(m_PlayersHand, m_PlayedCards)
  BY <1>1, OpenStays
<1>4. \A team \in Teams :
          /\ ScoresAfter(card)[team] \in Nat /\ m_Scores[team] \in Nat
          /\ ScoresAfter(card)[team] + Premium(m_TeamOwningBelote, team)
               = m_Scores[team] + Premium(OwnerAfter(card), team)
          /\ Premium(m_TeamOwningBelote, team) \in Nat /\ Premium(OwnerAfter(card), team) \in Nat
  BY BeloteEnters, PremiumType
<1>5. SharedOut(ScoresAfter(card), m_CurrentAsset, OwnerAfter(card), Open(m_PlayersHand, m_PlayedCards))
  <2>1. SharedOut(m_Scores, m_CurrentAsset, m_TeamOwningBelote, Open(m_PlayersHand, m_PlayedCards))
    BY <1>2 DEF ScoresInv
  <2>2. /\ Points(m_CurrentAsset, Open(m_PlayersHand, m_PlayedCards)) \in Nat
        /\ Points(m_CurrentAsset, Pack) \in Nat
    BY OpenInPack, PackSubsets, PointsFacts
  <2> DEFINE n1 == ScoresAfter(card)[NorthSouth]
             w1 == ScoresAfter(card)[WestEast]
             n0 == m_Scores[NorthSouth]
             w0 == m_Scores[WestEast]
             np0 == Premium(m_TeamOwningBelote, NorthSouth)
             wp0 == Premium(m_TeamOwningBelote, WestEast)
             np1 == Premium(OwnerAfter(card), NorthSouth)
             wp1 == Premium(OwnerAfter(card), WestEast)
             open == Points(m_CurrentAsset, Open(m_PlayersHand, m_PlayedCards))
             pack == Points(m_CurrentAsset, Pack)
  <2>3. /\ n0 \in Nat /\ n1 \in Nat /\ np0 \in Nat /\ np1 \in Nat /\ n1 + np0 = n0 + np1
        /\ w0 \in Nat /\ w1 \in Nat /\ wp0 \in Nat /\ wp1 \in Nat /\ w1 + wp0 = w0 + wp1
    BY <1>2, <1>4
  <2>4. n0 + w0 + open = pack + np0 + wp0
    BY <2>1 DEF SharedOut
  <2> HIDE DEF n0, w0, n1, w1, np0, wp0, np1, wp1, open, pack
  <2>5. n1 + w1 + open = pack + np1 + wp1
    BY <2>2, <2>3, <2>4 DEF open, pack
  <2> QED BY <2>5 DEF SharedOut, n1, w1, open, pack, np1, wp1
<1>6. ASSUME matches = 1
      PROVE  Earned(ScoresAfter(card), m_CurrentAsset, m_TeamPlayedCards, OwnerAfter(card))
  <2> SUFFICES ASSUME NEW team \in Teams
               PROVE  ScoresAfter(card)[team]
                        = Points(m_CurrentAsset, Cards(m_TeamPlayedCards[team]))
                            + Premium(OwnerAfter(card), team)
    BY DEF Earned
  <2>1. m_Scores[team] = Points(m_CurrentAsset, Cards(m_TeamPlayedCards[team]))
                           + Premium(m_TeamOwningBelote, team)
    BY <1>2, <1>6 DEF ScoresInv, Earned
  <2>2. Points(m_CurrentAsset, Cards(m_TeamPlayedCards[team])) \in Nat
    <3>1. m_TeamPlayedCards[team] \in Seq(Pack)
      BY DEF GameInv, TypeOK
    <3> QED BY <3>1, CardsInPack, PackSubsets, PointsFacts
  <2> QED BY <1>4, <2>1, <2>2
<1>7. ~IsAsking' /\ request' # NoRequest
  BY <1>1, RequestFacts DEF IsAsking, AskRevealedAsset, AskAnotherAsset, NoRequest
<1> QED BY <1>1, <1>2, <1>3, <1>5, <1>6, <1>7 DEF ScoresInv

LEMMA NextTrickScores ==
    ASSUME GameInv, CardsInv, TrickInv, ScoresInv, ~undefined, NEW card \in request.cards,
           NextTrick(card), UNCHANGED matches
    PROVE  ScoresInv'
<1>1. /\ m_PlayedCards' = << >> /\ m_PlayersHand' = HandsAfter(card)
      /\ m_TeamOwningBelote' = OwnerAfter(card) /\ m_Scores' = TurnScores(card)
      /\ m_TeamPlayedCards' = StacksAfter(card) /\ request'.what = "WaitingPlay"
      /\ Len(TrickAfter(card)) = 4 /\ ~IsLastTrick
      /\ UNCHANGED << m_CurrentAsset, matches >>
  BY DEF NextTrick, AskToPlay, WaitingPlay, assetVars
<1>2. IsPlaying /\ m_CurrentAsset \in Colours
  BY CardMoves DEF ScoresInv
<1>3. /\ Points(m_CurrentAsset, Pack) \in Nat
      /\ \A team : Premium(OwnerAfter(card), team) \in Nat
  BY PackSubsets, PointsFacts, PremiumType
<1>4. SharedOut(TurnScores(card), m_CurrentAsset, OwnerAfter(card), Open(HandsAfter(card), << >>))
  BY <1>1, <1>3, TurnShared DEF SharedOut
<1>5. ASSUME matches = 1
      PROVE  Earned(TurnScores(card), m_CurrentAsset, StacksAfter(card), OwnerAfter(card))
  <2> SUFFICES ASSUME NEW team \in Teams
               PROVE  TurnScores(card)[team]
                        = Points(m_CurrentAsset, Cards(StacksAfter(card)[team]))
                            + Premium(OwnerAfter(card), team)
    BY DEF Earned
  <2>1. Points(m_CurrentAsset, Cards(StacksAfter(card)[team])) \in Nat
    <3>1. StacksAfter(card)[team] \in Seq(Pack)
      BY <1>1, TrickEndFacts
    <3> QED BY <3>1, CardsInPack, PackSubsets, PointsFacts
  <2> QED BY <1>1, <1>3, <1>5, <2>1, TurnEarned
<1>6. ~IsAsking' /\ request' # NoRequest
  BY <1>1, RequestFacts DEF IsAsking, AskRevealedAsset, AskAnotherAsset, NoRequest
<1> QED BY <1>1, <1>2, <1>4, <1>5, <1>6 DEF ScoresInv

LEMMA MatchEndedScores ==
    ASSUME GameInv, CardsInv, TrickInv, ScoresInv, ~undefined, NEW card \in request.cards,
           MatchEnded(card), UNCHANGED matches
    PROVE  ScoresInv'
<1>1. /\ m_TeamOwningBelote' = OwnerAfter(card) /\ m_Scores' = TurnScores(card)
      /\ m_TeamPlayedCards' = StacksAfter(card) /\ request' = NoRequest
      /\ Len(TrickAfter(card)) = 4 /\ IsLastTrick
      /\ UNCHANGED << m_CurrentAsset, matches >>
  BY DEF MatchEnded, assetVars
<1>2. ASSUME matches = 1
      PROVE  Rewarded(TurnScores(card), m_CurrentAsset, StacksAfter(card), OwnerAfter(card),
                      Team(TrickWinner(card)))
  BY <1>1, <1>2, TurnEarned DEF Rewarded
<1>3. Team(TrickWinner(card)) \in Teams
  BY SeatFacts
<1>4. ~IsAsking' /\ ~IsPlaying'
  BY <1>1, RequestFacts DEF IsAsking, IsPlaying
<1> QED BY <1>1, <1>2, <1>3, <1>4 DEF ScoresInv

LEMMA ScoresNext == GameInv /\ CardsInv /\ TrickInv /\ ScoresInv /\ [Next]_vars => ScoresInv'
<1> SUFFICES ASSUME GameInv, CardsInv, TrickInv, ScoresInv, [Next]_vars PROVE ScoresInv'
  OBVIOUS
<1>1. CASE StartGame
  BY <1>1, DealScores DEF StartGame
<1>2. ASSUME NEW colour \in Colours, AcceptAsset(colour) PROVE ScoresInv'
  BY <1>2, AcceptAssetScores
<1>3. CASE RefuseAsset
  <2>1. CASE AskNextPlayer
    <3>1. m_Scores' = m_Scores /\ request' \in {AskRevealedAsset, AskAnotherAsset}
      BY <2>1 DEF AskNextPlayer, AskForAsset
    <3>2. IsAsking
      BY <1>3 DEF RefuseAsset, IsAsking
    <3> QED BY <3>1, <3>2, RequestFacts DEF ScoresInv, IsPlaying, IsAsking
  <2>2. CASE NoAssetTaken
    BY <2>2, DealScores DEF NoAssetTaken
  <2> QED BY <1>3, <2>1, <2>2 DEF RefuseAsset
<1>4. ASSUME NEW card \in request.cards, CardPlayed(card) PROVE ScoresInv'
  <2>1. ~undefined /\ UNCHANGED matches
    BY <1>4 DEF CardPlayed
  <2>2. CASE NextCard(card)
    BY <2>1, <2>2, NextCardScores
  <2>3. CASE NextTrick(card)
    BY <2>1, <2>3, NextTrickScores
  <2>4. CASE NextRound(card)
    BY <2>4, DealScores DEF NextRound
  <2>5. CASE MatchEnded(card)
    BY <2>1, <2>5, MatchEndedScores
  <2>6. CASE NoSuchPlayer(card) \/ OutOfBounds(card)
    <3>1. undefined' = TRUE /\ request' = request /\ request.what = "WaitingPlay"
      BY <2>1, <2>6, CardMoves DEF NoSuchPlayer, OutOfBounds, IsPlaying
    <3> QED BY <3>1, RequestFacts DEF ScoresInv, IsAsking, IsPlaying
  <2> QED BY <1>4, <2>2, <2>3, <2>4, <2>5, <2>6 DEF CardPlayed
<1>5. CASE UNCHANGED vars
  BY <1>5 DEF vars, deckVars, seatVars, handVars, assetVars, scoreVars, ScoresInv, IsPlaying, IsAsking
<1> QED BY <1>1, <1>2, <1>3, <1>4, <1>5 DEF Next, Answer, Finished

(* In every match the scores and the open cards share the pack.             *)
THEOREM ScoresInvariant == Spec => [](GameInv /\ CardsInv /\ TrickInv /\ ScoresInv)
<1>1. Init => ScoresInv
  BY RequestFacts DEF Init, ScoresInv, IsPlaying, IsAsking
<1> QED BY <1>1, TrickInvariant, ScoresNext, PTL DEF Spec

(* Between tricks, and when the match is over, the accounts of the first    *)
(* match agree with the cards on the stacks: the totals the players see are *)
(* what their cards are worth.                                              *)
THEOREM AccountsBalanceInFirstMatch == Spec => [](matches <= 1 => AccountsBalance)
<1>1. GameInv /\ ScoresInv => (matches <= 1 => AccountsBalance)
  <2> SUFFICES ASSUME GameInv, ScoresInv, matches = 1, ~undefined, ~IsAsking
               PROVE  LET bonus == IF IsPlaying THEN 0 ELSE LastTurnScore
                      IN  \E team \in Teams :
                /\ m_Scores[team] = CardPoints(team) + Premium(m_TeamOwningBelote, team) + bonus
                /\ m_Scores[GetOppositeTeam(team)] =
                      CardPoints(GetOppositeTeam(team))
                        + Premium(m_TeamOwningBelote, GetOppositeTeam(team))
    BY RuleSetAssumption DEF AccountsBalance, GameInv, TypeOK
  <2>1. \A team \in Teams : /\ CardPoints(team) = Points(m_CurrentAsset, Cards(m_TeamPlayedCards[team]))
                            /\ CardPoints(team) \in Nat
                            /\ Premium(m_TeamOwningBelote, team) \in Nat
                            /\ GetOppositeTeam(team) \in Teams /\ GetOppositeTeam(team) # team
    <3>1. \A team \in Teams : m_TeamPlayedCards[team] \in Seq(Pack)
      BY DEF GameInv, TypeOK
    <3>2. \A team \in Teams : GetOppositeTeam(team) \in Teams /\ GetOppositeTeam(team) # team
      BY SeatFacts DEF GetOppositeTeam
    <3> QED BY <3>1, <3>2, CardPointsDef, CardsInPack, PackSubsets, PointsFacts, PremiumType
  <2>2. CASE IsPlaying
    <3>1. \A team \in Teams : m_Scores[team] = CardPoints(team) + Premium(m_TeamOwningBelote, team)
      BY <2>1, <2>2 DEF ScoresInv, Earned
    <3>2. NorthSouth \in Teams
      BY DEF Teams
    <3> QED BY <2>1, <2>2, <3>1, <3>2
  <2>3. CASE ~IsPlaying
    <3>1. request = NoRequest
      BY <2>3, RequestFacts DEF IsPlaying, IsAsking, GameInv, TypeOK, PlayingForContract,
         AskRevealedAsset, AskAnotherAsset, NoRequest
    <3>2. PICK winner \in Teams : Rewarded(m_Scores, m_CurrentAsset, m_TeamPlayedCards,
                                            m_TeamOwningBelote, winner)
      BY <3>1 DEF ScoresInv
    <3>3. LastTurnScore \in Nat
      BY ScoreAssumption
    <3> QED BY <2>1, <2>3, <3>2, <3>3 DEF Rewarded
  <2> QED BY <2>2, <2>3
<1> QED BY <1>1, ScoresInvariant, PTL

----------------------------------------------------------------------------
(* The game implements the match of the accounts.                           *)
PackAndBonus == \A asset \in Colours : Points(asset, Pack) + LastTurnScore = PointsSumScore

LEMMA Stages ==
    /\ matches \in Nat =>
         /\ matches = 0 => matchStage = "ready"
         /\ matches # 0 /\ request # NoRequest => matchStage = "playing"
         /\ matches # 0 /\ request = NoRequest => matchStage = "over"
    /\ matches' \in Nat =>
         /\ matches' # 0 /\ request' # NoRequest => matchStage' = "playing"
         /\ matches' # 0 /\ request' = NoRequest => matchStage' = "over"
    /\ request' = request /\ matches' = matches => matchStage' = matchStage
<1>1. ASSUME matches \in Nat
      PROVE  /\ matches = 0 => matchStage = "ready"
             /\ matches # 0 /\ request # NoRequest => matchStage = "playing"
             /\ matches # 0 /\ request = NoRequest => matchStage = "over"
  BY <1>1 DEF matchStage
<1>2. ASSUME matches' \in Nat
      PROVE  /\ matches' # 0 /\ request' # NoRequest => matchStage' = "playing"
             /\ matches' # 0 /\ request' = NoRequest => matchStage' = "over"
  BY <1>2 DEF matchStage, NoRequest
<1>3. ASSUME request' = request, matches' = matches PROVE matchStage' = matchStage
  BY <1>3 DEF matchStage, NoRequest
<1> QED BY <1>1, <1>2, <1>3

(* The scores of a whole round share the points of the pack.                *)
LEMMA RoundIsWhole ==
    ASSUME PackAndBonus, GameInv, CardsInv, TrickInv, ScoresInv, ~undefined,
           NEW card \in request.cards, Len(TrickAfter(card)) = 4, IsLastTrick
    PROVE  \E result \in Accounts!RoundResults :
              /\ Accounts!RoundScores(result) = TurnScores(card)
              /\ result.contract = m_TeamAcceptingContract
              /\ result.belote = OwnerAfter(card)
<1> DEFINE north == TurnScores(card)[NorthSouth]
           west  == TurnScores(card)[WestEast]
           np == Premium(OwnerAfter(card), NorthSouth)
           wp == Premium(OwnerAfter(card), WestEast)
           result == [points |-> north - np, contract |-> m_TeamAcceptingContract,
                      belote |-> OwnerAfter(card)]
<1>1. /\ NorthSouth \in Teams /\ WestEast \in Teams /\ NorthSouth # WestEast
      /\ \A team \in Teams : team = NorthSouth \/ team = WestEast
  BY DEF Teams, NorthSouth, WestEast
<1>2. m_TeamAcceptingContract \in Teams /\ OwnerAfter(card) \in Teams \cup {NoTeam}
  BY CardPlayedParts
<1>3. /\ north \in Nat /\ west \in Nat /\ north >= np /\ west >= wp
      /\ TurnScores(card) \in [Teams -> Nat]
  BY <1>1, TrickEndFacts
<1>4. np \in Nat /\ wp \in Nat /\ PointsSumScore \in Nat /\ LastTurnScore \in Nat
  BY PremiumType, ScoreAssumption
<1>5. north + west = PointsSumScore + np + wp
  <2>1. Open(HandsAfter(card), << >>) = {}
    <3>1. \A p \in Positions : HandsAfter(card)[p] = {}
      BY StepEnds DEF IsLastTrick
    <3>2. Cards(<< >>) = {}
      BY DEF Cards
    <3> QED BY <3>1, <3>2 DEF Open
  <2>2. Points(m_CurrentAsset, Open(HandsAfter(card), << >>)) = 0
    BY <2>1, PointsFacts
  <2>3. m_CurrentAsset \in Colours
    BY CardMoves DEF ScoresInv
  <2>4. Points(m_CurrentAsset, Pack) + LastTurnScore = PointsSumScore
    BY <2>3 DEF PackAndBonus
  <2> DEFINE pack == Points(m_CurrentAsset, Pack)
  <2>5. pack \in Nat
    BY PackSubsets, PointsFacts
  <2>6. north + west + 0 = pack + np + wp + LastTurnScore
    BY <2>2, TurnShared
  <2>7. pack + LastTurnScore = PointsSumScore
    BY <2>4
  <2> HIDE DEF pack, north, west, np, wp
  <2> QED BY <1>3, <1>4, <2>5, <2>6, <2>7
<1>6. result \in Accounts!RoundResults
  <2>1. north - np \in 0 .. PointsSumScore
    <3> HIDE DEF north, west, np, wp
    <3> QED BY <1>3, <1>4, <1>5
  <2> HIDE DEF north, np
  <2> QED BY <1>2, <2>1, SameTeams DEF Accounts!RoundResults, NoTeam, Accounts!NoTeam
<1>7. Accounts!RoundScores(result) = TurnScores(card)
  <2>1. \A team \in Teams :
            TurnScores(card)[team] = Premium(OwnerAfter(card), team)
                + IF team = NorthSouth THEN north - np ELSE PointsSumScore - (north - np)
    <3>1. north = np + (north - np) /\ west = wp + (PointsSumScore - (north - np))
      <4> HIDE DEF north, west, np, wp
      <4> QED BY <1>3, <1>4, <1>5
    <3> SUFFICES ASSUME NEW team \in Teams
                 PROVE  TurnScores(card)[team] = Premium(OwnerAfter(card), team)
                   + IF team = NorthSouth THEN north - np ELSE PointsSumScore - (north - np)
      OBVIOUS
    <3>2. CASE team = NorthSouth
      BY <3>1, <3>2
    <3>3. CASE team = WestEast
      BY <1>1, <3>1, <3>3
    <3> QED BY <1>1, <3>2, <3>3
  <2>2. \A belote, team : Accounts!Premium(belote, team) = Premium(belote, team)
    BY DEF Accounts!Premium, Premium
  <2>3. result.points = north - np /\ result.belote = OwnerAfter(card)
    OBVIOUS
  <2> HIDE DEF result, north, np
  <2>4. Accounts!RoundScores(result) = [team \in Teams |-> Premium(OwnerAfter(card), team)
                + IF team = NorthSouth THEN north - np ELSE PointsSumScore - (north - np)]
    BY <2>2, <2>3, SameTeams DEF Accounts!RoundScores
  <2> QED BY <1>3, <2>1, <2>4
<1> QED BY <1>6, <1>7

LEMMA RoundIsPlayed ==
    ASSUME PackAndBonus, GameInv, CardsInv, TrickInv, ScoresInv, ~undefined,
           NEW card \in request.cards, NextRound(card) \/ MatchEnded(card), UNCHANGED matches
    PROVE  \E result \in Accounts!RoundResults : Accounts!RoundPlayed(result)
<1>1. /\ Len(TrickAfter(card)) = 4 /\ IsLastTrick
      /\ m_TotalScores' = Settlement(card).totals
      /\ m_LitigeScorePending' = Settlement(card).pending
      /\ request' = IF CheckMatchEnd(Settlement(card).totals, WinningScore)
                    THEN NoRequest ELSE AskRevealedAsset
  BY DEF NextRound, MatchEnded, PreTurn, AskForAsset
<1>2. PICK result \in Accounts!RoundResults :
              /\ Accounts!RoundScores(result) = TurnScores(card)
              /\ result.contract = m_TeamAcceptingContract
              /\ result.belote = OwnerAfter(card)
  BY <1>1, RoundIsWhole
<1>3. Accounts!Settle(Accounts!RoundScores(result), result.contract, result.belote,
                      m_TotalScores, m_LitigeScorePending) = Settlement(card)
  BY <1>2, SameSettlement DEF Settlement
<1>4. /\ matches \in Nat /\ matches # 0 /\ request # NoRequest /\ AskRevealedAsset # NoRequest
  BY CardMoves, RequestFacts, RuleSetAssumption DEF GameInv, TypeOK, IsPlaying
<1>5. matchStage = "playing"
  BY <1>4, Stages
<1>6. Accounts!CheckMatchEnd(Settlement(card).totals, WinningScore)
        <=> CheckMatchEnd(Settlement(card).totals, WinningScore)
  BY SameTeams DEF Accounts!CheckMatchEnd, CheckMatchEnd
<1>7. matchStage' = IF Accounts!CheckMatchEnd(Settlement(card).totals, WinningScore)
                    THEN "over" ELSE "playing"
  BY <1>1, <1>4, <1>6, Stages
<1>8. Accounts!RoundPlayed(result)
  BY <1>1, <1>3, <1>5, <1>7 DEF Accounts!RoundPlayed
<1> QED BY <1>8

LEMMA AccountsStep ==
    ASSUME PackAndBonus, GameInv, CardsInv, TrickInv, ScoresInv, [Next]_vars
    PROVE  Accounts!MatchNext
<1>1. matches \in Nat
  BY RuleSetAssumption DEF GameInv, TypeOK
<1>2. ASSUME UNCHANGED << m_TotalScores, m_LitigeScorePending >>, matchStage' = matchStage
      PROVE  Accounts!MatchNext
  BY <1>2 DEF Accounts!MatchNext, Accounts!RoundGoesOn, Accounts!matchVars
<1>3. ASSUME request # NoRequest, request' # NoRequest, UNCHANGED matches PROVE matchStage' = matchStage
  <2>1. CASE matches = 0
    BY <1>3, <2>1 DEF GameInv, AskedInMatch
  <2>2. CASE matches # 0
    BY <1>1, <1>3, <2>2, Stages
  <2> QED BY <2>1, <2>2
<1>4. CASE StartGame
  <2>1. /\ request = NoRequest /\ matches' = matches + 1 /\ request' = AskRevealedAsset
        /\ m_TotalScores' = NoScore /\ m_LitigeScorePending' = 0
    BY <1>4 DEF StartGame, PreTurn, AskForAsset
  <2>2. matches' \in Nat /\ matches' # 0 /\ request' # NoRequest
    BY <1>1, <2>1, RequestFacts
  <2>3. matchStage' = "playing"
    BY <2>2, Stages
  <2>4. matchStage # "playing"
    BY <1>1, <2>1, Stages
  <2>5. Accounts!StartMatch
    BY <2>1, <2>3, <2>4, SameTeams DEF Accounts!StartMatch, NoScore
  <2> QED BY <2>5 DEF Accounts!MatchNext
<1>5. ASSUME NEW colour \in Colours, AcceptAsset(colour) PROVE Accounts!MatchNext
  <2>1. request # NoRequest
    BY <1>5, RequestFacts DEF AcceptAsset, Proposable
  <2>2. /\ request' # NoRequest /\ UNCHANGED << m_TotalScores, m_LitigeScorePending, matches >>
    BY <1>5 DEF AcceptAsset, AskToPlay, WaitingPlay, NoRequest, scoreVars
  <2> QED BY <1>2, <1>3, <2>1, <2>2
<1>6. CASE RefuseAsset
  <2>1. request # NoRequest /\ UNCHANGED << m_TotalScores, m_LitigeScorePending, matches >>
    BY <1>6, RequestFacts DEF RefuseAsset
  <2>2. request' \in {AskRevealedAsset, AskAnotherAsset}
    BY <1>6 DEF RefuseAsset, AskNextPlayer, NoAssetTaken, PreTurn, AskForAsset
  <2> QED BY <1>2, <1>3, <2>1, <2>2, RequestFacts
<1>7. ASSUME NEW card \in request.cards, CardPlayed(card) PROVE Accounts!MatchNext
  <2>1. ~undefined /\ UNCHANGED matches /\ request # NoRequest
    BY <1>7, RequestFacts DEF CardPlayed, NoRequest
  <2>2. CASE NextCard(card) \/ NextTrick(card)
    <3>1. /\ request' # NoRequest /\ UNCHANGED << m_TotalScores, m_LitigeScorePending >>
      BY <2>2 DEF NextCard, NextTrick, AskToPlay, WaitingPlay, NoRequest
    <3> QED BY <1>2, <1>3, <2>1, <3>1
  <2>3. CASE NextRound(card) \/ MatchEnded(card)
    BY <2>1, <2>3, RoundIsPlayed DEF Accounts!MatchNext
  <2>4. CASE NoSuchPlayer(card) \/ OutOfBounds(card)
    <3>1. request' = request /\ UNCHANGED << m_TotalScores, m_LitigeScorePending >>
      BY <2>4 DEF NoSuchPlayer, OutOfBounds, scoreVars
    <3> QED BY <1>2, <2>1, <3>1, Stages
  <2> QED BY <1>7, <2>2, <2>3, <2>4 DEF CardPlayed
<1>8. CASE UNCHANGED vars
  <2>1. UNCHANGED << m_TotalScores, m_LitigeScorePending, request, matches >>
    BY <1>8 DEF vars, scoreVars
  <2> QED BY <1>2, <2>1, Stages
<1> QED BY <1>4, <1>5, <1>6, <1>7, <1>8 DEF Next, Answer, Finished

(* The totals of a match move only by settlements of whole rounds, whatever *)
(* cards are played and however many matches the server has seen, when the  *)
(* points of the pack and the bonus of the last trick make PointsSumScore   *)
(* as they do in the code (RealPackPoints: 152 + 10 = 162).                 *)
THEOREM GameImplementsMatch == ASSUME PackAndBonus PROVE Spec => ImplementsMatch
<1>1. Init => Accounts!MatchInit
  <2> SUFFICES ASSUME Init PROVE Accounts!MatchInit
    OBVIOUS
  <2>1. m_TotalScores = NoScore /\ m_LitigeScorePending = 0 /\ matches = 0
    BY DEF Init
  <2>2. matchStage = "ready"
    BY <2>1, Stages
  <2> QED BY <2>1, <2>2, SameTeams DEF Accounts!MatchInit, NoScore
<1>2. GameInv /\ CardsInv /\ TrickInv /\ ScoresInv /\ [Next]_vars
        => [Accounts!MatchNext]_(Accounts!matchVars)
  BY AccountsStep
<1> QED BY <1>1, <1>2, ScoresInvariant, PTL DEF Spec, ImplementsMatch, Accounts!MatchSpec

(* The game as it is compiled: thirty-two cards, ten points for the last    *)
(* trick, 162 in all.                                                       *)
THEOREM RealGameImplementsMatch ==
    ASSUME Colours = AllColours, Values = AllValues, LastTurnScore = 10, PointsSumScore = 162
    PROVE  Spec => ImplementsMatch
<1>1. PackAndBonus
  BY RealPackPoints DEF PackAndBonus
<1> QED BY <1>1, GameImplementsMatch
=============================================================================
