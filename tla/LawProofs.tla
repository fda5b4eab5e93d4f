----------------------------- MODULE LawProofs -----------------------------
(***************************************************************************)
(* The two places where the program is compared with the law of the game   *)
(* in a behaviour of its own.                                              *)
(*                                                                         *)
(* TrickTable: at every moment of a trick, for every pack, hand and asset, *)
(* the cards offered are the legal ones and the trick goes to its master:  *)
(* the lemmas of BeloteRulesProofs apply because no card is on the table   *)
(* twice.                                                                  *)
(*                                                                         *)
(* BeloteMatchHistory: the accounts of a match balance for every score the *)
(* rules may give to the belote, the contract and the capot (within        *)
(* ProportionAssumption), whatever rounds are played.                      *)
(***************************************************************************)
EXTENDS TrickTable, BeloteMatchHistory, BeloteRulesProofs

----------------------------------------------------------------------------
(* The trick.                                                               *)

(* The table: nobody plays a card that is already on it.                    *)
TableInv == /\ Trick(m_PlayedCards) /\ Len(m_PlayedCards) <= 4
            /\ m_PlayersHand \subseteq Card
            /\ ~played => m_PlayersHand \cap OnTable = {}

LEMMA PutKeeps ==
    ASSUME TableInv, NEW card \in Card, card \notin OnTable, Put(card)
    PROVE  /\ Trick(m_PlayedCards') /\ Len(m_PlayedCards') <= 4
           /\ OnTable' = OnTable \cup {card}
<1> DEFINE trick == m_PlayedCards
           n == Len(trick)
<1>1. trick \in Seq(Card) /\ m_PlayedCards' = Append(trick, card) /\ n < 4 /\ n \in Nat
  <2>1. trick \in Seq(Card)
    BY DEF TableInv, Trick
  <2> QED BY <2>1 DEF Put
<1>2. /\ DOMAIN trick = 1 .. n /\ Len(m_PlayedCards') = n + 1 /\ DOMAIN m_PlayedCards' = 1 .. n + 1
      /\ m_PlayedCards' \in Seq(Card) /\ m_PlayedCards'[n + 1] = card
      /\ \A i \in 1 .. n : m_PlayedCards'[i] = trick[i]
  BY <1>1
<1>3. \A i \in 1 .. n + 1 : i \in 1 .. n \/ i = n + 1
  BY <1>1
<1>4. \A i \in 1 .. n : trick[i] # card
  BY <1>2 DEF OnTable
<1>5. \A i, j \in 1 .. n : i # j => trick[i] # trick[j]
  BY <1>2 DEF TableInv, Trick
<1>6. \A i \in 1 .. n : i \in 1 .. n + 1
  BY <1>1
<1>7. n + 1 \in 1 .. n + 1 /\ n + 1 <= 4
  BY <1>1
<1> HIDE DEF n, trick
<1>8. \A i, j \in DOMAIN m_PlayedCards' : i # j => m_PlayedCards'[i] # m_PlayedCards'[j]
  BY <1>2, <1>3, <1>4, <1>5
<1>9. {m_PlayedCards'[i] : i \in DOMAIN m_PlayedCards'} = {trick[i] : i \in DOMAIN trick} \cup {card}
  BY <1>2, <1>3, <1>6, <1>7
<1> QED BY <1>2, <1>7, <1>8, <1>9 DEF OnTable, Trick, trick

LEMMA TableInvAlways == Spec => []TableInv
<1>1. Pack \subseteq Card
  BY PackAssumption DEF Pack, Card
<1>2. Init => TableInv
  <2> SUFFICES ASSUME Init PROVE TableInv
    OBVIOUS
  <2>1. m_PlayedCards = << >> /\ Len(m_PlayedCards) = 0
    BY DEF Init
  <2>2. m_PlayersHand \subseteq Pack
    BY DEF Init, kSubset
  <2> QED BY <1>1, <2>1, <2>2 DEF TableInv, Trick, OnTable
<1>3. TableInv /\ [Next]_vars => TableInv'
  <2> SUFFICES ASSUME TableInv, [Next]_vars PROVE TableInv'
    OBVIOUS
  <2>1. ASSUME NEW card \in Pack, OtherPlays(card) PROVE TableInv'
    <3>1. card \in Card /\ card \notin OnTable /\ card \notin m_PlayersHand /\ Put(card)
          /\ UNCHANGED << m_PlayersHand, played >>
      BY <1>1, <2>1 DEF OtherPlays
    <3>2. Trick(m_PlayedCards') /\ Len(m_PlayedCards') <= 4 /\ OnTable' = OnTable \cup {card}
      BY <3>1, PutKeeps
    <3> QED BY <3>1, <3>2 DEF TableInv
  <2>2. ASSUME NEW card \in Playable(m_PlayersHand, m_CurrentAsset, m_PlayedCards), PlayerPlays(card) PROVE TableInv'
    <3>1. card \in m_PlayersHand
      BY <2>2, PlayableInHand
    <3>2. card \in Card /\ card \notin OnTable /\ Put(card) /\ m_PlayersHand' = m_PlayersHand \ {card} /\ played' = TRUE
      BY <2>2, <3>1 DEF PlayerPlays, TableInv
    <3>3. Trick(m_PlayedCards') /\ Len(m_PlayedCards') <= 4
      BY <3>2, PutKeeps
    <3> QED BY <3>2, <3>3 DEF TableInv
  <2>3. CASE UNCHANGED vars
    BY <2>3 DEF TableInv, Trick, OnTable, vars
  <2> QED BY <2>1, <2>2, <2>3 DEF Next, Done
<1> QED BY <1>2, <1>3, PTL DEF Spec

(* At every moment of a trick the server offers the legal cards, except     *)
(* behind a led 7 nobody has beaten.                                        *)
THEOREM PlayableIsLegalAlways == Spec => []PlayableIsLegal
<1>1. TableInv => PlayableIsLegal
  <2> SUFFICES ASSUME TableInv, Len(m_PlayedCards) < 4, ~LedSevenIsMaster
               PROVE  Playable(m_PlayersHand, m_CurrentAsset, m_PlayedCards)
                        = LegalCards(m_PlayersHand, m_CurrentAsset, m_PlayedCards)
    BY DEF PlayableIsLegal
  <2> QED BY PlayableIsLaw DEF TableInv, LedSevenIsMaster
<1> QED BY <1>1, TableInvAlways, PTL

(* The trick goes to its master card.                                       *)
THEOREM WinnerIsMasterAlways == Spec => []WinnerIsMaster
<1>1. TableInv => WinnerIsMaster
  BY WinnerIsLaw DEF TableInv, WinnerIsMaster
<1> QED BY <1>1, TableInvAlways, PTL

----------------------------------------------------------------------------
(* The accounts of a match.                                                 *)

AccountsType ==
    /\ m_TotalScores \in [Teams -> Nat]
    /\ m_LitigeScorePending \in Nat

BelotePoints(result) == IF result.belote = NoTeam THEN 0 ELSE BeloteScore

(* What m_TotalScores and m_LitigeScorePending become with a round.         *)
After(result) == Settle(RoundScores(result), result.contract, result.belote,
                        m_TotalScores, m_LitigeScorePending)

LEMMA TeamFacts ==
    /\ Teams = {0, 1} /\ NorthSouth = 0 /\ WestEast = 1 /\ NoTeam = -1
    /\ \A team \in Teams : GetOppositeTeam(team) \in Teams /\ GetOppositeTeam(team) # team
BY DEF Teams, NorthSouth, WestEast, NoTeam, GetOppositeTeam

(* The scores of a round, seen from the team that took the contract.        *)
LEMMA RoundScoresSum ==
    ASSUME NEW result \in RoundResults
    PROVE  /\ RoundScores(result) \in [Teams -> Nat]
           /\ RoundScores(result)[0] + RoundScores(result)[1]
                  = PointsSumScore + BelotePoints(result)
           /\ \A team \in Teams :
                  RoundScores(result)[team] >= Premium(result.belote, team)
<1>1. /\ result.points \in 0 .. PointsSumScore
      /\ result.belote \in {0, 1, -1}
      /\ PointsSumScore \in Nat /\ BeloteScore \in Nat
  BY MatchAssumption, ScoreAssumption DEF RoundResults, Teams, NorthSouth, WestEast, NoTeam
<1>2. \A team \in Teams : Premium(result.belote, team) \in Nat
  BY <1>1 DEF Premium
<1>3. \A team \in Teams : RoundScores(result)[team] = Premium(result.belote, team)
          + IF team = 0 THEN result.points ELSE PointsSumScore - result.points
  BY DEF RoundScores, NorthSouth
<1>4. Premium(result.belote, 0) + Premium(result.belote, 1) = BelotePoints(result)
  BY <1>1 DEF Premium, BelotePoints, NoTeam
<1>5. RoundScores(result) \in [Teams -> Nat]
  BY <1>1, <1>2 DEF RoundScores, NorthSouth
<1>6. RoundScores(result)[0] + RoundScores(result)[1] = PointsSumScore + BelotePoints(result)
  <2>1. /\ RoundScores(result)[0] = Premium(result.belote, 0) + result.points
        /\ RoundScores(result)[1] = Premium(result.belote, 1) + PointsSumScore - result.points
    BY <1>1, <1>2, <1>3, TeamFacts
  <2>2. Premium(result.belote, 0) \in Nat /\ Premium(result.belote, 1) \in Nat
    BY <1>2, TeamFacts
  <2> QED BY <1>1, <1>4, <2>1, <2>2
<1>7. \A team \in Teams : RoundScores(result)[team] >= Premium(result.belote, team)
  BY <1>1, <1>2, <1>3
<1> QED BY <1>5, <1>6, <1>7

LEMMA PremiumFacts ==
    ASSUME NEW result \in RoundResults
    PROVE  /\ \A team \in Teams : Premium(result.belote, team) \in Nat
           /\ Premium(result.belote, 0) + Premium(result.belote, 1) = BelotePoints(result)
           /\ BelotePoints(result) \in {0, BeloteScore}
           /\ BelotePoints(result) \in Nat
BY ScoreAssumption DEF RoundResults, Premium, BelotePoints, Teams, NorthSouth, WestEast, NoTeam

(* A litige is a tie below the contract: no belote is counted in it.        *)
LEMMA LitigeFacts ==
    ASSUME NEW result \in RoundResults,
           Litige(RoundScores(result), result.contract, result.belote)
    PROVE  /\ BelotePoints(result) = 0
           /\ RoundScores(result)[0] = RoundScores(result)[1]
           /\ RoundScores(result)[0] > 0
           /\ Shelved(RoundScores(result), result.contract, result.belote)
                 = RoundScores(result)[0]
<1> DEFINE scores == RoundScores(result)
<1>1. /\ result.contract \in {0, 1}
      /\ PointsSumScore \in Nat /\ BeloteScore \in Nat /\ MinScoreToWin \in Nat
  BY ScoreAssumption, TeamFacts DEF RoundResults
<1>2. scores[0] = scores[1] /\ ~(scores[result.contract] >= MinScoreToWin)
  BY DEF Litige, ContractWon, NorthSouth, WestEast
<1>3. /\ scores[0] \in Nat /\ scores[1] \in Nat
      /\ scores[0] + scores[1] = PointsSumScore + BelotePoints(result)
  BY RoundScoresSum, TeamFacts
<1>4. Shelved(scores, result.contract, result.belote)
          = scores[0] - Premium(result.belote, result.contract)
  BY DEF Shelved, NorthSouth
<1> HIDE DEF scores
<1>5. scores[0] < MinScoreToWin
  BY <1>1, <1>2, <1>3
<1>6. BelotePoints(result) = 0
  BY <1>1, <1>2, <1>3, <1>5, PremiumFacts, ProportionAssumption
<1>7. scores[0] > 0
  BY <1>1, <1>2, <1>3, <1>6, ProportionAssumption
<1>8. Premium(result.belote, result.contract) = 0
  BY <1>1, <1>6, PremiumFacts, TeamFacts
<1> QED BY <1>2, <1>3, <1>4, <1>6, <1>7, <1>8 DEF scores

(* What a round brings to a team.                                           *)
Gain(result, team) ==
    Award(RoundScores(result), result.contract, result.belote, team)
      + IF /\ Shelved(RoundScores(result), result.contract, result.belote) = 0
           /\ team = RoundWinner(RoundScores(result), result.contract)
        THEN m_LitigeScorePending ELSE 0

LEMMA AfterIsGain ==
    ASSUME NEW result \in RoundResults
    PROVE  /\ \A team \in Teams :
                  After(result).totals[team] = m_TotalScores[team] + Gain(result, team)
           /\ DOMAIN After(result).totals = Teams
           /\ After(result).totals = [team \in Teams |-> After(result).totals[team]]
BY DEF After, Settle, Gain

(* The three ends of a round: the contract is won,                          *)
LEMMA WonRound ==
    ASSUME AccountsType, NEW result \in RoundResults,
           ContractWon(RoundScores(result), result.contract)
    PROVE  /\ After(result).pending = 0
           /\ \A team \in Teams : Gain(result, team) \in Nat
           /\ Gain(result, result.contract) >= m_LitigeScorePending + MinScoreToWin
           /\ Gain(result, 0) + Gain(result, 1) - m_LitigeScorePending
                 \in {PointsSumScore + BelotePoints(result), CapotScore + BelotePoints(result)}
<1> DEFINE scores == RoundScores(result)
           belote == result.belote
           contract == result.contract
<1>0. ContractWon(scores, contract) /\ ~Litige(scores, contract, belote)
  BY DEF Litige
<1>1. Shelved(scores, contract, belote) = 0
  BY <1>0 DEF Shelved
<1>2. After(result).pending = 0
  BY <1>1 DEF After, Settle
<1>3. /\ contract \in {0, 1} /\ m_LitigeScorePending \in Nat
      /\ scores[0] \in Nat /\ scores[1] \in Nat
      /\ scores[0] + scores[1] = PointsSumScore + BelotePoints(result)
      /\ scores[contract] >= MinScoreToWin
      /\ {CapotScore, MinScoreToWin, PointsSumScore} \subseteq Nat
  BY RoundScoresSum, TeamFacts, ScoreAssumption DEF AccountsType, RoundResults, ContractWon
<1>4. \A team \in {0, 1} : Gain(result, team) = Award(scores, contract, belote, team)
          + IF team = contract THEN m_LitigeScorePending ELSE 0
  BY <1>0, <1>1 DEF Gain, RoundWinner
<1>5. CASE Capot(scores, contract)
  <2>1. \A team \in {0, 1} : Award(scores, contract, belote, team)
            = (IF team = contract THEN CapotScore ELSE 0) + Premium(belote, team)
    BY <1>0, <1>5 DEF Award
  <2> HIDE DEF scores, belote, contract
  <2>2. /\ Premium(belote, 0) \in Nat /\ Premium(belote, 1) \in Nat
        /\ Premium(belote, 0) + Premium(belote, 1) = BelotePoints(result)
    BY PremiumFacts, TeamFacts DEF belote
  <2> QED BY <1>2, <1>3, <1>4, <2>1, <2>2, ProportionAssumption, TeamFacts DEF contract
<1>6. CASE ~Capot(scores, contract)
  <2>1. \A team \in {0, 1} : Award(scores, contract, belote, team) = scores[team]
    BY <1>0, <1>6 DEF Award
  <2> HIDE DEF scores, belote, contract
  <2> QED BY <1>2, <1>3, <1>4, <2>1, TeamFacts DEF contract
<1> QED BY <1>5, <1>6

(* the round is a litige,                                                   *)
LEMMA LitigeRound ==
    ASSUME AccountsType, NEW result \in RoundResults,
           Litige(RoundScores(result), result.contract, result.belote)
    PROVE  /\ After(result).pending \in Nat
           /\ After(result).pending > m_LitigeScorePending
           /\ Gain(result, result.contract) = 0
           /\ \A team \in Teams : Gain(result, team) \in Nat
           /\ Gain(result, GetOppositeTeam(result.contract)) > 0
           /\ Gain(result, 0) + Gain(result, 1) + After(result).pending - m_LitigeScorePending
                 = PointsSumScore + BelotePoints(result)
<1> DEFINE scores == RoundScores(result)
           belote == result.belote
           contract == result.contract
<1>1. /\ scores[0] = scores[1] /\ scores[0] > 0 /\ BelotePoints(result) = 0
      /\ Shelved(scores, contract, belote) = scores[0]
  BY LitigeFacts
<1>2. After(result).pending = m_LitigeScorePending + scores[0]
  BY <1>1 DEF After, Settle
<1>3. /\ contract \in {0, 1} /\ m_LitigeScorePending \in Nat
      /\ scores[0] \in Nat /\ scores[1] \in Nat
      /\ scores[0] + scores[1] = PointsSumScore + BelotePoints(result)
      /\ PointsSumScore \in Nat
  BY RoundScoresSum, TeamFacts, ScoreAssumption DEF AccountsType, RoundResults
<1>4. \A team \in {0, 1} : Gain(result, team) = IF team = contract THEN 0 ELSE scores[team]
  <2>1. ~ContractWon(scores, contract) /\ ~Capot(scores, contract)
    BY DEF Litige, Capot
  <2>2. \A team \in {0, 1} : Award(scores, contract, belote, team)
            = IF team = contract THEN 0 ELSE scores[team]
    BY <2>1 DEF Award
  <2>3. Shelved(scores, contract, belote) # 0
    BY <1>1
  <2> HIDE DEF scores, belote, contract
  <2>4. \A team \in {0, 1} : Gain(result, team) = Award(scores, contract, belote, team) + 0
    BY <2>3 DEF Gain, scores, belote, contract
  <2> QED BY <1>3, <2>2, <2>4
<1> HIDE DEF scores, belote, contract
<1>5. GetOppositeTeam(contract) = 1 - contract
  BY DEF GetOppositeTeam
<1> QED BY <1>1, <1>2, <1>3, <1>4, <1>5, TeamFacts DEF contract

(* or the contract is lost.                                                 *)
LEMMA LostRound ==
    ASSUME AccountsType, NEW result \in RoundResults,
           ~ContractWon(RoundScores(result), result.contract),
           ~Litige(RoundScores(result), result.contract, result.belote)
    PROVE  /\ After(result).pending = 0
           /\ \A team \in Teams : Gain(result, team) \in Nat
           /\ Gain(result, GetOppositeTeam(result.contract))
                 >= m_LitigeScorePending + PointsSumScore
           /\ Gain(result, result.contract) <= BeloteScore
           /\ Gain(result, 0) + Gain(result, 1) - m_LitigeScorePending
                 = PointsSumScore + BelotePoints(result)
<1> DEFINE scores == RoundScores(result)
           belote == result.belote
           contract == result.contract
<1>1. Shelved(scores, contract, belote) = 0 /\ ~Capot(scores, contract)
  BY DEF Shelved, Capot
<1>2. After(result).pending = 0
  BY <1>1 DEF After, Settle
<1>3. /\ contract \in {0, 1} /\ m_LitigeScorePending \in Nat
      /\ PointsSumScore \in Nat /\ BeloteScore \in Nat
      /\ GetOppositeTeam(contract) = 1 - contract
  BY TeamFacts, ScoreAssumption DEF AccountsType, RoundResults, GetOppositeTeam
<1>4. \A team \in {0, 1} : Gain(result, team)
          = (IF team = contract THEN 0 ELSE PointsSumScore) + Premium(belote, team)
              + IF team = GetOppositeTeam(contract) THEN m_LitigeScorePending ELSE 0
  BY <1>1 DEF Gain, Award, RoundWinner
<1>5. /\ Premium(belote, 0) \in Nat /\ Premium(belote, 1) \in Nat
      /\ Premium(belote, 0) + Premium(belote, 1) = BelotePoints(result)
      /\ BelotePoints(result) <= BeloteScore
  BY PremiumFacts, TeamFacts, <1>3
<1> HIDE DEF scores, belote, contract
<1> QED BY <1>2, <1>3, <1>4, <1>5, TeamFacts DEF contract

(* What every round has in common.                                          *)
LEMMA AfterType ==
    ASSUME AccountsType, NEW result \in RoundResults
    PROVE  /\ After(result).totals \in [Teams -> Nat]
           /\ After(result).pending \in Nat
<1>1. (\A team \in Teams : Gain(result, team) \in Nat) /\ After(result).pending \in Nat
  BY WonRound, LitigeRound, LostRound
<1>2. \A team \in Teams : m_TotalScores[team] + Gain(result, team) \in Nat
  BY <1>1 DEF AccountsType
<1>3. \A team \in Teams : After(result).totals[team] \in Nat
  BY <1>2, AfterIsGain
<1>4. After(result).totals = [team \in Teams |-> After(result).totals[team]]
  BY AfterIsGain
<1> QED BY <1>1, <1>3, <1>4

----------------------------------------------------------------------------
LEMMA AccountsInit == HistoryInit => AccountsType
BY TeamFacts DEF HistoryInit, MatchInit, AccountsType

LEMMA AccountsNext == AccountsType /\ [HistoryNext]_historyVars => AccountsType'
<1> SUFFICES ASSUME AccountsType, [HistoryNext]_historyVars PROVE AccountsType'
  OBVIOUS
<1>1. CASE Start
  BY <1>1 DEF Start, StartMatch, AccountsType
<1>2. ASSUME NEW result \in RoundResults, Round(result) PROVE AccountsType'
  BY <1>2, AfterType DEF Round, RoundPlayed, After, AccountsType
<1>3. CASE UNCHANGED historyVars
  BY <1>3 DEF historyVars, matchVars, AccountsType
<1> QED BY <1>1, <1>2, <1>3 DEF HistoryNext, MatchOver

(* The only steps that settle a round.                                      *)
LEMMA RoundStepIsRound ==
    ASSUME AccountsType, [HistoryNext]_historyVars, RoundStep, ~UNCHANGED historyVars
    PROVE  \E result \in RoundResults :
              /\ last'.result = result
              /\ m_TotalScores' = After(result).totals
              /\ m_LitigeScorePending' = After(result).pending
<1>1. ~Start /\ ~MatchOver
  BY DEF Start, StartMatch, MatchOver, RoundStep
<1>2. PICK result \in RoundResults : Round(result)
  BY <1>1 DEF HistoryNext
<1>3. last'.result = result
  BY <1>2 DEF Round
<1> QED BY <1>2, <1>3 DEF Round, RoundPlayed, After

(* Totals and pending points never become negative or ill-typed, a litige   *)
(* with a belote included (GameEnded subtracts on unsigned integers).       *)
THEOREM AccountsAreNatural == HistorySpec => []AccountsType
BY AccountsInit, AccountsNext, PTL DEF HistorySpec

(* GameEnded neither loses nor invents points, whatever the scores are.     *)
THEOREM ConservedAlways == HistorySpec => PointsConserved
<1> DEFINE belote == IF last'.result.belote = NoTeam THEN 0 ELSE BeloteScore
           Conserved == RoundStep =>
               InPlay' - InPlay \in {PointsSumScore + belote, CapotScore + belote}
<1>1. ASSUME AccountsType, [HistoryNext]_historyVars
      PROVE  [Conserved]_historyVars
  <2> SUFFICES ASSUME RoundStep, ~UNCHANGED historyVars
               PROVE  InPlay' - InPlay \in {PointsSumScore + belote, CapotScore + belote}
    OBVIOUS
  <2> PICK result \in RoundResults : /\ last'.result = result
                                     /\ m_TotalScores' = After(result).totals
                                     /\ m_LitigeScorePending' = After(result).pending
    BY <1>1, RoundStepIsRound
  <2>1. belote = BelotePoints(result)
    BY DEF BelotePoints
  <2>2. InPlay' - InPlay = Gain(result, 0) + Gain(result, 1)
                             + After(result).pending - m_LitigeScorePending
    <3>1. /\ Gain(result, 0) \in Nat /\ Gain(result, 1) \in Nat
          /\ After(result).pending \in Nat
      BY <1>1, WonRound, LitigeRound, LostRound, TeamFacts
    <3>2. /\ m_TotalScores'[0] = m_TotalScores[0] + Gain(result, 0)
          /\ m_TotalScores'[1] = m_TotalScores[1] + Gain(result, 1)
      BY AfterIsGain, TeamFacts
    <3>3. /\ m_TotalScores[0] \in Nat /\ m_TotalScores[1] \in Nat
          /\ m_LitigeScorePending \in Nat
      BY <1>1, TeamFacts DEF AccountsType
    <3> QED BY <3>1, <3>2, <3>3 DEF InPlay, NorthSouth, WestEast
  <2>3. Gain(result, 0) + Gain(result, 1) + After(result).pending - m_LitigeScorePending
            \in {PointsSumScore + BelotePoints(result), CapotScore + BelotePoints(result)}
    <3>1. CASE ContractWon(RoundScores(result), result.contract)
      <4>1. /\ Gain(result, 0) \in Nat /\ Gain(result, 1) \in Nat
            /\ m_LitigeScorePending \in Nat /\ After(result).pending = 0
        BY <1>1, <3>1, WonRound, TeamFacts DEF AccountsType
      <4>2. Gain(result, 0) + Gain(result, 1) + 0 - m_LitigeScorePending
              = Gain(result, 0) + Gain(result, 1) - m_LitigeScorePending
        BY <4>1
      <4> QED BY <1>1, <3>1, <4>1, <4>2, WonRound
    <3>2. CASE Litige(RoundScores(result), result.contract, result.belote)
      BY <1>1, <3>2, LitigeRound
    <3>3. CASE /\ ~ContractWon(RoundScores(result), result.contract)
               /\ ~Litige(RoundScores(result), result.contract, result.belote)
      <4>1. /\ Gain(result, 0) \in Nat /\ Gain(result, 1) \in Nat
            /\ m_LitigeScorePending \in Nat /\ After(result).pending = 0
        BY <1>1, <3>3, LostRound, TeamFacts DEF AccountsType
      <4>2. Gain(result, 0) + Gain(result, 1) + 0 - m_LitigeScorePending
              = Gain(result, 0) + Gain(result, 1) - m_LitigeScorePending
        BY <4>1
      <4> QED BY <1>1, <3>3, <4>1, <4>2, LostRound
    <3> QED BY <3>1, <3>2, <3>3
  <2> QED BY <2>1, <2>2, <2>3
<1> QED BY <1>1, AccountsInit, AccountsNext, PTL DEF HistorySpec, PointsConserved

(* Every round in which the pending points are not increased hands all of   *)
(* them to the team that wins the round.                                    *)
THEOREM PendingAlways == HistorySpec => PendingGoesToWinner
<1> DEFINE won(team) == m_TotalScores'[team] - m_TotalScores[team] >= m_LitigeScorePending
                          + IF team = last'.result.contract THEN MinScoreToWin ELSE PointsSumScore
           Passed == \/ m_LitigeScorePending' > m_LitigeScorePending
                     \/ m_LitigeScorePending' = 0 /\ \E team \in Teams : won(team)
<1>1. ASSUME AccountsType, [HistoryNext]_historyVars
      PROVE  [(RoundStep /\ m_LitigeScorePending > 0) => Passed]_historyVars
  <2> SUFFICES ASSUME RoundStep, ~UNCHANGED historyVars PROVE Passed
    OBVIOUS
  <2> PICK result \in RoundResults : /\ last'.result = result
                                     /\ m_TotalScores' = After(result).totals
                                     /\ m_LitigeScorePending' = After(result).pending
    BY <1>1, RoundStepIsRound
  <2> DEFINE contract == result.contract
             other == GetOppositeTeam(contract)
  <2>1. contract \in Teams /\ other \in Teams /\ other # contract
    BY TeamFacts DEF RoundResults
  <2>2. \A team \in Teams : /\ Gain(result, team) \in Nat
                             /\ m_TotalScores[team] \in Nat
                             /\ m_TotalScores'[team] = m_TotalScores[team] + Gain(result, team)
    BY <1>1, WonRound, LitigeRound, LostRound, AfterIsGain DEF AccountsType
  <2>3. CASE ContractWon(RoundScores(result), contract)
    <3>1. Gain(result, contract) >= m_LitigeScorePending + MinScoreToWin
      BY <1>1, <2>3, WonRound
    <3>2. m_TotalScores'[contract] - m_TotalScores[contract] = Gain(result, contract)
      BY <2>1, <2>2
    <3>3. won(contract)
      BY <3>1, <3>2
    <3> QED BY <1>1, <2>1, <2>3, <3>3, WonRound
  <2>4. CASE Litige(RoundScores(result), contract, result.belote)
    BY <1>1, <2>4, LitigeRound
  <2>5. CASE /\ ~ContractWon(RoundScores(result), contract)
             /\ ~Litige(RoundScores(result), contract, result.belote)
    <3>1. Gain(result, other) >= m_LitigeScorePending + PointsSumScore
      BY <1>1, <2>5, LostRound
    <3>2. m_TotalScores'[other] - m_TotalScores[other] = Gain(result, other)
      BY <2>1, <2>2
    <3>3. won(other)
      BY <2>1, <3>1, <3>2
    <3> QED BY <1>1, <2>1, <2>5, <3>3, LostRound
  <2> QED BY <2>3, <2>4, <2>5
<1> QED BY <1>1, AccountsInit, AccountsNext, PTL DEF HistorySpec, PendingGoesToWinner

(* A team that fails its contract is credited with less than the other.     *)
THEOREM FailureAlways == HistorySpec => FailureNeverPays
<1> DEFINE contract == last'.result.contract
           other == GetOppositeTeam(contract)
           gain(team) == m_TotalScores'[team] - m_TotalScores[team]
           Failure == RoundScores(last'.result)[contract] < MinScoreToWin
                          => gain(contract) < gain(other)
<1>1. ASSUME AccountsType, [HistoryNext]_historyVars
      PROVE  [RoundStep => Failure]_historyVars
  <2> SUFFICES ASSUME RoundStep, ~UNCHANGED historyVars,
                      RoundScores(last'.result)[contract] < MinScoreToWin
               PROVE  gain(contract) < gain(other)
    OBVIOUS
  <2> PICK result \in RoundResults : /\ last'.result = result
                                     /\ m_TotalScores' = After(result).totals
                                     /\ m_LitigeScorePending' = After(result).pending
    BY <1>1, RoundStepIsRound
  <2>1. /\ contract = result.contract /\ contract \in Teams /\ other \in Teams
    BY TeamFacts DEF RoundResults
  <2>2. \A team \in Teams : /\ Gain(result, team) \in Nat
                             /\ m_TotalScores[team] \in Nat
                             /\ m_TotalScores'[team] = m_TotalScores[team] + Gain(result, team)
    BY <1>1, WonRound, LitigeRound, LostRound, AfterIsGain DEF AccountsType
  <2>3. gain(contract) = Gain(result, contract) /\ gain(other) = Gain(result, other)
    BY <2>1, <2>2
  <2>4. Gain(result, contract) < Gain(result, other)
    <3>1. ~ContractWon(RoundScores(result), result.contract)
      <4>1. RoundScores(result)[contract] \in Nat /\ MinScoreToWin \in Nat
        BY <2>1, RoundScoresSum, ScoreAssumption
      <4> QED BY <2>1, <4>1 DEF ContractWon
    <3>2. CASE Litige(RoundScores(result), result.contract, result.belote)
      BY <1>1, <2>1, <2>2, <3>2, LitigeRound
    <3>3. CASE ~Litige(RoundScores(result), result.contract, result.belote)
      <4>1. /\ Gain(result, other) >= m_LitigeScorePending + PointsSumScore
            /\ Gain(result, contract) <= BeloteScore
        BY <1>1, <2>1, <3>1, <3>3, LostRound
      <4>2. /\ Gain(result, other) \in Nat /\ Gain(result, contract) \in Nat
            /\ m_LitigeScorePending \in Nat
            /\ PointsSumScore \in Nat /\ BeloteScore \in Nat
        BY <1>1, <2>1, <2>2, ScoreAssumption DEF AccountsType
      <4> HIDE DEF contract, other
      <4> QED BY <4>1, <4>2, ProportionAssumption
    <3> QED BY <3>2, <3>3
  <2> HIDE DEF gain
  <2> QED BY <2>3, <2>4
<1> QED BY <1>1, AccountsInit, AccountsNext, PTL DEF HistorySpec, FailureNeverPays
============================================================================
