---------------------------- MODULE BeloteCards ----------------------------
(***************************************************************************)
(* The vocabulary of the game: cards, the order and the points of cards at *)
(* the asset colour and at the other colours, the four seats, the teams    *)
(* and the seat arithmetic.  Everything here is a constant operator.       *)
(***************************************************************************)
EXTENDS Integers, Sequences, FiniteSets

CONSTANTS
    Colours,    \* the colours of the pack in play, a subset of AllColours
    Values      \* the values of the pack in play, a subset of AllValues

AllColours == {"H", "S", "D", "C"}
AllValues  == {"7", "8", "9", "10", "J", "Q", "K", "1"}

ASSUME PackAssumption == /\ Colours \subseteq AllColours
                         /\ Values \subseteq AllValues

Card == [colour : AllColours, value : AllValues]
Pack == [colour : Colours, value : Values]

----------------------------------------------------------------------------
(* A position in the string "789JQK101", found with rfind: the "10" takes   *)
(* two characters, so the ace ("1") is at 8.                                *)
ValueOrder[v \in AllValues] ==
    CASE v = "7" -> 0 [] v = "8" -> 1 [] v = "9"  -> 2 [] v = "J" -> 3
      [] v = "Q" -> 4 [] v = "K" -> 5 [] v = "10" -> 6 [] v = "1" -> 8

(* A position in the string "78QK1019J".                                    *)
ValueOrderAtAsset[v \in AllValues] ==
    CASE v = "7"  -> 0 [] v = "8" -> 1 [] v = "Q" -> 2 [] v = "K" -> 3
      [] v = "10" -> 4 [] v = "1" -> 6 [] v = "9" -> 7 [] v = "J" -> 8

NormalScores[v \in AllValues] ==
    CASE v \in {"7", "8", "9"} -> 0
      [] v = "J" -> 2 [] v = "Q" -> 3 [] v = "K" -> 4 [] v = "10" -> 10 [] v = "1" -> 11

AssetScores[v \in AllValues] ==
    CASE v \in {"7", "8"} -> 0
      [] v = "Q" -> 3 [] v = "K" -> 4 [] v = "10" -> 10 [] v = "1" -> 11
      [] v = "9" -> 14 [] v = "J" -> 20

(* The points a card is worth in a trick.                                   *)
CardDefToScore(asset, card) ==
    IF card.colour = asset THEN AssetScores[card.value] ELSE NormalScores[card.value]

(* Mutated: a discard keeps its strength.                                   *)
DiscardToValue(asset, requested, card) ==
    IF card.colour = asset THEN 100 + ValueOrderAtAsset[card.value] ELSE ValueOrder[card.value]

(* The strength of a card in a trick opened with a card of colour requested *)
(* : assets come first, then the requested colour; any other card is as     *)
(* weak as the 7 of the requested colour.                                   *)
CardDefToValue(asset, requested, card) ==
    CASE card.colour = asset                              -> 100 + ValueOrderAtAsset[card.value]
      [] card.colour = requested /\ card.colour # asset   -> ValueOrder[card.value]
      [] card.colour \notin {asset, requested}            -> 0

----------------------------------------------------------------------------
(* Seats are numbered as the enumeration PlayerPosition numbers them.       *)
South == 0
West  == 1
North == 2
East  == 3
Positions == South .. East

NorthSouth == 0
WestEast   == 1
NoTeam     == -1
Teams      == {NorthSouth, WestEast}

CW  == "CW"
CCW == "CCW"
PlayDirections == {CW, CCW}

Team(pos) == IF pos \in {South, North} THEN NorthSouth ELSE WestEast

GetOppositeTeam(team) == 1 - team

GetNextPlayer(pd, pos) ==
    IF pd = CW THEN (IF pos = East THEN South ELSE pos + 1)
               ELSE (IF pos = South THEN East ELSE pos - 1)

(* Mutated: counted from the player who closed the trick.                   *)
WinnerFromEnding(pd, endingPos, winner) == (endingPos + winner) % 4

(* The position of the player whose card is at index winner (from 0) of the *)
(* trick that endingPos closed.  The result of the counter-clockwise branch *)
(* may be no position at all: it ranges over -2 .. 4.                       *)
GetWinnerPosition(pd, endingPos, winner) ==
    LET startingPos == GetNextPlayer(pd, endingPos)
    IN  IF pd = CW THEN (startingPos + winner) % 4 ELSE 4 - startingPos - winner

(* How many calls of GetNextPlayer lead from first to pos: where the dealing *)
(* loops of the server, which start at first, come to pos.                   *)
DealingRank(pd, first, pos) == IF pd = CW THEN (pos - first) % 4 ELSE (first - pos) % 4
============================================================================
