--------------------------- MODULE BeloteScoring ---------------------------
(***************************************************************************)
(* The settlement of a round: what GameEnded adds to the total of each     *)
(* team and what it puts aside, from the scores of the round, the team     *)
(* that took the contract and the team that owns the belote.               *)
(***************************************************************************)
EXTENDS BeloteCards

CONSTANTS
    LastTurnScore,      \* bonus of the last trick (10)
    BeloteScore,        \* king and queen of asset in one hand (20)
    MinScoreToWin,      \* what the contracting team needs (82)
    CapotScore,         \* credited instead of the score for a capot (252)
    PointsSumScore      \* all the points of a round, last trick included (162)

ASSUME ScoreAssumption ==
    {LastTurnScore, BeloteScore, MinScoreToWin, CapotScore, PointsSumScore} \subseteq Nat

ContractWon(scores, contract) == scores[contract] >= MinScoreToWin

Capot(scores, contract) == /\ ContractWon(scores, contract)
                           /\ scores[contract] >= PointsSumScore

Litige(scores, contract, belote) == /\ ~ContractWon(scores, contract)
                                    /\ scores[NorthSouth] = scores[WestEast]
                                    /\ belote # GetOppositeTeam(contract)

Premium(belote, team) == IF belote = team THEN BeloteScore ELSE 0

(* Mutated: a failed contract credits both teams with their scores.         *)
AwardScores(scores, contract, belote, team) ==
    IF Capot(scores, contract) THEN IF team = contract THEN CapotScore ELSE 0 ELSE scores[team]

(* What a team is credited with by the first part of GameEnded.             *)
Award(scores, contract, belote, team) ==
    CASE Capot(scores, contract) ->
           (IF team = contract THEN CapotScore ELSE 0) + Premium(belote, team)
      [] ContractWon(scores, contract) /\ ~Capot(scores, contract) ->
           scores[team]
      [] Litige(scores, contract, belote) ->
           IF team = contract THEN 0 ELSE scores[team]
      [] ~ContractWon(scores, contract) /\ ~Litige(scores, contract, belote) ->
           (IF team = contract THEN 0 ELSE PointsSumScore) + Premium(belote, team)

(* Mutated: the scores of both teams are put aside.                         *)
ShelvedBoth(scores, contract, belote) ==
    IF Litige(scores, contract, belote) THEN scores[NorthSouth] + scores[WestEast] ELSE 0

(* What a litige adds to m_LitigeScorePending.                              *)
Shelved(scores, contract, belote) ==
    IF Litige(scores, contract, belote)
    THEN scores[NorthSouth] - Premium(belote, contract)
    ELSE 0

(* Mutated: the pending points go to the contract, won or not.              *)
Contractor(scores, contract) == contract

RoundWinner(scores, contract) ==
    IF ContractWon(scores, contract) THEN contract ELSE GetOppositeTeam(contract)

(* m_TotalScores and m_LitigeScorePending after GameEnded: the points that  *)
(* wait from earlier litiges go to the winner of the first round that puts  *)
(* nothing aside.                                                           *)
Settle(scores, contract, belote, totals, pending) ==
    LET shelved == Shelved(scores, contract, belote)
        credit(team) == Award(scores, contract, belote, team)
            + IF shelved = 0 /\ team = RoundWinner(scores, contract) THEN pending ELSE 0
    IN  [totals  |-> [team \in Teams |-> totals[team] + credit(team)],
         pending |-> IF shelved = 0 THEN 0 ELSE pending + shelved]

CheckMatchEnd(totals, winningScore) ==
    totals[NorthSouth] > winningScore \/ totals[WestEast] > winningScore
============================================================================
