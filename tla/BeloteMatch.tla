---------------------------- MODULE BeloteMatch ----------------------------
(***************************************************************************)
(* A match seen from its accounts: rounds, each of which shares the points *)
(* of the pack between the teams, are settled one after the other until a  *)
(* team has passed the winning score.  BeloteGame implements it: whatever  *)
(* cards are played, the totals of a match move only by such settlements.  *)
(***************************************************************************)
EXTENDS BeloteScoring

CONSTANTS
    RoundPoints,    \* what North-South may have taken in a round, belote apart
    WinningScore    \* rule set: m_WinningScore

ASSUME MatchAssumption == /\ RoundPoints \subseteq 0 .. PointsSumScore
                          /\ WinningScore \in Nat

(* How the scores of the game relate: a tie in which a belote is counted is *)
(* a contract that is won, a capot pays at least a won contract, and the    *)
(* points of the pack outweigh a belote.                                    *)
ASSUME ProportionAssumption == /\ 2 * MinScoreToWin <= PointsSumScore + BeloteScore
                               /\ MinScoreToWin <= CapotScore
                               /\ BeloteScore < PointsSumScore

VARIABLES
    m_TotalScores, m_LitigeScorePending,
    stage           \* of the match: "ready", "playing" or "over"

matchVars == << m_TotalScores, m_LitigeScorePending, stage >>

RoundResults == [points : RoundPoints, contract : Teams, belote : Teams \cup {NoTeam}]

(* m_Scores at the end of a round.                                          *)
RoundScores(result) ==
    [team \in Teams |-> Premium(result.belote, team)
        + IF team = NorthSouth THEN result.points ELSE PointsSumScore - result.points]

MatchInit == /\ m_TotalScores = [team \in Teams |-> 0]
             /\ m_LitigeScorePending = 0
             /\ stage = "ready"

(* The start request, before the first match or after one has ended.        *)
StartMatch == /\ stage # "playing"
              /\ stage' = "playing"
              /\ m_TotalScores' = [team \in Teams |-> 0]
              /\ m_LitigeScorePending' = 0

(* GameEnded, for a round that gave result.                                 *)
RoundPlayed(result) ==
    LET after == Settle(RoundScores(result), result.contract, result.belote,
                        m_TotalScores, m_LitigeScorePending)
    IN  /\ stage = "playing"
        /\ m_TotalScores' = after.totals
        /\ m_LitigeScorePending' = after.pending
        /\ stage' = IF CheckMatchEnd(after.totals, WinningScore) THEN "over" ELSE "playing"

(* A proposal, a card, a trick: the accounts do not move.                   *)
RoundGoesOn == UNCHANGED matchVars

MatchNext == RoundGoesOn \/ StartMatch \/ \E result \in RoundResults : RoundPlayed(result)

MatchSpec == MatchInit /\ [][MatchNext]_matchVars
============================================================================
