------------------------ MODULE BeloteGameProperties ------------------------
(***************************************************************************)
(* What the game as the server runs it promises to the players.            *)
(***************************************************************************)
EXTENDS BeloteGame, BeloteLaw, FiniteSetsExt

IsAsking  == ~undefined /\ request \in {AskRevealedAsset, AskAnotherAsset}
IsPlaying == ~undefined /\ request.what = "WaitingPlay"

Cards(seq) == {seq[i] : i \in DOMAIN seq}

TypeOK ==
    /\ m_Deck \in IF matches = 0 THEN {<< >>} ELSE [1 .. DeckSize -> Pack]
    /\ m_TeamPlayedCards \in [Teams -> Seq(Pack)]
    /\ m_CurrentDealer \in Positions
    /\ m_CurrentPlayer \in -2 .. 4
    /\ m_PlayersHand \in [Positions -> SUBSET Pack]
    /\ m_RemainingCards \in [Positions -> Int]
    /\ m_IsInFirstAnnouncePhase \in BOOLEAN
    /\ m_CurrentAsset \in Colours \cup {NoColour}
    /\ m_TeamAcceptingContract \in Teams \cup {NoTeam}
    /\ m_TeamOwningBelote \in Teams \cup {NoTeam}
    /\ m_PlayedCards \in Seq(Pack)
    /\ m_Scores \in [Teams -> Nat]
    /\ m_TotalScores \in [Teams -> Nat]
    /\ m_LitigeScorePending \in Nat
    /\ request \in [what : {"nothing", "AskRevealedAsset", "AskAnotherAsset", "WaitingPlay"},
                    cards : SUBSET Pack]
    /\ announced \in Seq([event : {"Belote", "Rebelote"}, by : Positions])
    /\ matches \in 0 .. MaxMatches
    /\ undefined \in BOOLEAN

Copies(seq, card) == Quantify(DOMAIN seq, LAMBDA i : seq[i] = card)

(* Every card of the pack is in exactly one place, once: a hand or the rest *)
(* of the deck while an asset is proposed, a hand, the trick on the table,  *)
(* or what a team has taken while tricks are played.  Broken by a wrong     *)
(* deal (the taker's share, the revealed card), by a card that stays in a   *)
(* hand, by a trick given twice.                                            *)
Held(card)    == Quantify(Positions, LAMBDA p : card \in m_PlayersHand[p])
Undealt(card) == Quantify(RevealedPos .. DeckSize, LAMBDA i : m_Deck[i] = card)

CardsConserved ==
    /\ IsAsking  => \A c \in Pack : Held(c) + Undealt(c) = 1
    /\ IsPlaying => \A c \in Pack :
          Held(c) + Copies(m_PlayedCards, c)
            + Copies(m_TeamPlayedCards[NorthSouth], c) + Copies(m_TeamPlayedCards[WestEast], c) = 1

(* The deck that is cut and dealt, and that a round rebuilds from what the  *)
(* teams have taken, holds every card of the pack.                          *)
DeckIsWhole == matches > 0 => Cards(m_Deck) = Pack

(* The counters the server iterates hands with are the numbers of cards of  *)
(* the hands, and the players who have played in the current trick have one *)
(* card less than those who have not; TurnEnded relies on it when it reads  *)
(* the counter of South only to know the last trick.                        *)
CountersInStep ==
    IsPlaying =>
        /\ \A p \in Positions : m_RemainingCards[p] = Cardinality(m_PlayersHand[p])
        /\ \A p \in Positions :
              m_RemainingCards[p] = m_RemainingCards[m_CurrentPlayer]
                - IF DealingRank(PlayDir, m_CurrentPlayer, p) >= 4 - Len(m_PlayedCards)
                  THEN 1 ELSE 0

(* No player is ever asked a question without an answer: a card to play is  *)
(* a card of the asked hand, and there is one; a colour can be proposed.    *)
RequestIsAnswerable ==
    /\ IsPlaying => request.cards # {} /\ request.cards \subseteq m_PlayersHand[m_CurrentPlayer]
    /\ IsAsking  => Proposable # {}

(* Between two tricks, and at the end of a match, the score of a team is    *)
(* what the cards it has taken are worth, the belote if it owns it, and the *)
(* bonus of the last trick for at most one of the teams.                    *)
CardPoints(team) ==
    MapThenSumSet(LAMBDA c : CardDefToScore(m_CurrentAsset, c), Cards(m_TeamPlayedCards[team]))

AccountsBalance ==
    LET bonus == IF IsPlaying THEN 0 ELSE LastTurnScore
    IN  (matches > 0 /\ ~undefined /\ ~IsAsking) =>
            \E team \in Teams :
                /\ m_Scores[team] = CardPoints(team) + Premium(m_TeamOwningBelote, team) + bonus
                /\ m_Scores[GetOppositeTeam(team)] =
                      CardPoints(GetOppositeTeam(team))
                        + Premium(m_TeamOwningBelote, GetOppositeTeam(team))

(* The belote is announced by the player who holds the king and the queen   *)
(* of asset, when the first of them is played, and the rebelote by the same *)
(* player when the second one is; nobody else announces anything, and the   *)
(* team of that player owns the belote.                                     *)
Holder(value) == {p \in Positions : [colour |-> m_CurrentAsset, value |-> value] \in m_PlayersHand[p]}

BeloteFollowsHands ==
    IsPlaying =>
        LET both == Holder("Q") \cap Holder("K")
            left == Holder("Q") \cup Holder("K")
        IN  /\ both # {} => announced = << >>
            /\ (announced = << >>) = (m_TeamOwningBelote = NoTeam)
            /\ announced # << >> =>
                  /\ announced[1].event = "Belote"
                  /\ m_TeamOwningBelote = Team(announced[1].by)
                  /\ \A i \in 2 .. Len(announced) :
                        announced[i] = [event |-> "Rebelote", by |-> announced[1].by]
                  /\ left = IF Len(announced) = 1 THEN {announced[1].by} ELSE {}
                  /\ Len(announced) \in {1, 2}

(* "Update scores & put the played cards on the winning team's stack": the  *)
(* four cards go to the team of the player of the master card, who plays    *)
(* first in the next trick.                                                 *)
TrickFor(team) ==
    SubSeq(m_TeamPlayedCards'[team], Len(m_TeamPlayedCards[team]) + 1, Len(m_TeamPlayedCards[team]) + 4)

HasTaken(team) == Len(m_TeamPlayedCards'[team]) = Len(m_TeamPlayedCards[team]) + 4

(* Who has played the i-th card of the trick that ends.                     *)
TrickPlayer(i) == CHOOSE p \in Positions :
                     DealingRank(PlayDir, NextAfter(m_CurrentPlayer), p) = i - 1

TrickToMaster(team) ==
    HasTaken(team) =>
        \E i \in 1 .. 4 : /\ IsMaster(m_CurrentAsset, TrickFor(team), i)
                          /\ Team(TrickPlayer(i)) = team
                          /\ request'.what = "WaitingPlay" => m_CurrentPlayer' = TrickPlayer(i)

MasterTakesTrick == [][\A team \in Teams : TrickToMaster(team)]_vars

(* The same comment, the stacks alone: the four cards go to the stack of    *)
(* the team that has played the master card, whoever plays next.            *)
WinningTeamsStack ==
    [][\A team \in Teams : HasTaken(team) =>
          \E i \in 1 .. 4 : /\ IsMaster(m_CurrentAsset, TrickFor(team), i)
                            /\ Team(TrickPlayer(i)) = team
      ]_vars

(* "assert(it != container->end())": no card is copied past the end of the  *)
(* deck, and no hand is read that does not exist.                           *)
NothingOutOfBounds == ~undefined

(* Every round comes to its end when the asked players answer: the proposal *)
(* of an asset cannot go round for ever, nor can the tricks.                *)
RoundEnds ==
    \A dealer \in Positions :
        (request # NoRequest /\ m_CurrentDealer = dealer)
            ~> (request = NoRequest \/ m_CurrentDealer # dealer \/ undefined)

(* What a spectator of the accounts sees of the game is BeloteMatch: until  *)
(* the next settlement nothing he sees changes, and every settlement is that *)
(* of a round in which the teams share all the points of the pack.          *)
matchStage == CASE matches = 0                           -> "ready"
                [] matches > 0 /\ request # NoRequest -> "playing"
                [] matches > 0 /\ request = NoRequest -> "over"

Accounts == INSTANCE BeloteMatch WITH stage <- matchStage,
                                      RoundPoints <- 0 .. PointsSumScore

ImplementsMatch == Accounts!MatchSpec
=============================================================================
