------------------------- MODULE BeloteMatchHistory -------------------------
(***************************************************************************)
(* BeloteMatch with the result of the last round kept, to say what its     *)
(* settlement should have been.                                            *)
(***************************************************************************)
EXTENDS BeloteMatch

VARIABLES
    last        \* the last round

historyVars == << matchVars, last >>

NoRound == [played |-> FALSE]

HistoryInit == MatchInit /\ last = NoRound

Start == StartMatch /\ UNCHANGED last

Round(result) ==
    /\ RoundPlayed(result)
    /\ last' = [played |-> TRUE, result |-> result]

MatchOver == stage = "over" /\ UNCHANGED historyVars

HistoryNext == Start \/ (\E result \in RoundResults : Round(result)) \/ MatchOver

HistorySpec == HistoryInit /\ [][HistoryNext]_historyVars

----------------------------------------------------------------------------
InPlay == m_TotalScores[NorthSouth] + m_TotalScores[WestEast] + m_LitigeScorePending

RoundStep == last'.played /\ stage = "playing"

(* A settlement neither loses nor invents points: it adds to the totals and *)
(* to what is put aside the points of the pack and the belote, or the       *)
(* premium of a capot and the belote.  What an earlier litige put aside     *)
(* changes hands, and is not credited twice.                                *)
PointsConserved ==
    [][RoundStep =>
          LET belote == IF last'.result.belote = NoTeam THEN 0 ELSE BeloteScore
          IN  InPlay' - InPlay \in {PointsSumScore + belote, CapotScore + belote}
      ]_historyVars

(* The points a litige has put aside stay aside while there are litiges,    *)
(* then go, all of them, to the team that wins the first contested round.   *)
PendingGoesToWinner ==
    [][(RoundStep /\ m_LitigeScorePending > 0) =>
          LET won(team) == m_TotalScores'[team] - m_TotalScores[team] >= m_LitigeScorePending
                             + IF team = last'.result.contract THEN MinScoreToWin ELSE PointsSumScore
          IN  \/ m_LitigeScorePending' > m_LitigeScorePending
              \/ m_LitigeScorePending' = 0 /\ \E team \in Teams : won(team)
      ]_historyVars

(* A team never gains by failing: when it has taken the contract and has    *)
(* not reached the score, the other team is credited with more.             *)
FailureNeverPays ==
    [][RoundStep =>
          LET contract == last'.result.contract
              other    == GetOppositeTeam(contract)
              gain(team) == m_TotalScores'[team] - m_TotalScores[team]
          IN  RoundScores(last'.result)[contract] < MinScoreToWin => gain(contract) < gain(other)
      ]_historyVars
=============================================================================
