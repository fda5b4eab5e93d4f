---------------------------- MODULE BeloteRules ----------------------------
(***************************************************************************)
(* The rules of a trick, as the server computes them: which cards of a     *)
(* hand may be played on the cards already on the table, and which card    *)
(* wins the four of them.                                                  *)
(*                                                                         *)
(* A trick is the sequence of the cards played so far; the entries of      *)
(* m_PlayedCards that are still empty strings are valued 0 by              *)
(* CardDefToValue and never beat anything.                                 *)
(***************************************************************************)
EXTENDS BeloteCards

(* The value of the i-th card of the trick.                                 *)
PlayedScore(asset, trick, i) == CardDefToValue(asset, trick[1].colour, trick[i])

OfColour(hand, colour) == {c \in hand : c.colour = colour}

(* The cards of the hand that beat every card of the trick.                 *)
Overcutting(hand, asset, trick) ==
    {c \in hand : \A i \in DOMAIN trick :
        CardDefToValue(asset, trick[1].colour, c) > PlayedScore(asset, trick, i)}

PlayerCanOvercut(hand, asset, trick) == Overcutting(hand, asset, trick) # {}

(* Mutated: the partner is taken to be the player who opened the trick.     *)
PlayerMustCutOpener(asset, trick) ==
    \E i \in DOMAIN trick : PlayedScore(asset, trick, i) > PlayedScore(asset, trick, 1)

(* A player who cannot follow must cut when only one card is played, or     *)
(* when the card of his partner (the last but one) is not a strongest card. *)
PlayerMustCut(asset, trick) ==
    \/ Len(trick) = 1
    \/ \E i \in DOMAIN trick :
          PlayedScore(asset, trick, i) > PlayedScore(asset, trick, Len(trick) - 1)

(* Mutated: who cannot overcut may not play.                                *)
AssetsAbove(hand, asset, trick) == Overcutting(hand, asset, trick)

(* The asset cards a player who has to play asset may choose from.          *)
AssetsToPlay(hand, asset, trick) ==
    IF PlayerCanOvercut(hand, asset, trick) THEN Overcutting(hand, asset, trick)
                                            ELSE OfColour(hand, asset)

(* The list sent with BCPT_WaitingPlay.                                     *)
Playable(hand, asset, trick) ==
    IF trick = << >> THEN hand
    ELSE LET requested == trick[1].colour
             assets    == OfColour(hand, asset)
         IN  CASE requested = asset /\ assets # {} ->
                    AssetsToPlay(hand, asset, trick)
               [] requested # asset /\ OfColour(hand, requested) # {} ->
                    OfColour(hand, requested)
               [] requested # asset /\ OfColour(hand, requested) = {}
                    /\ assets # {} /\ PlayerMustCut(asset, trick) ->
                    AssetsToPlay(hand, asset, trick)
               [] OTHER -> hand

(* The index, from 0, of the first card of the trick with the best score.   *)
WinnerIndex(asset, trick) ==
    (CHOOSE i \in DOMAIN trick :
        /\ \A j \in DOMAIN trick : PlayedScore(asset, trick, j) <= PlayedScore(asset, trick, i)
        /\ \A j \in 1 .. (i - 1) : PlayedScore(asset, trick, j) < PlayedScore(asset, trick, i)) - 1

(* What the four cards of a trick are worth to the team that takes them.    *)
TrickScore(asset, trick) ==
    CardDefToScore(asset, trick[1]) + CardDefToScore(asset, trick[2])
        + CardDefToScore(asset, trick[3]) + CardDefToScore(asset, trick[4])
============================================================================
