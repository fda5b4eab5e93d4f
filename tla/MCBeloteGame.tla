---------------------------- MODULE MCBeloteGame ----------------------------
(***************************************************************************)
(* Small packs for TLC.  The scores keep the proportions of the real ones: *)
(* half of the points and one more make a contract.                        *)
(***************************************************************************)
EXTENDS BeloteGameProperties

(* The deck that lists the cards of the pack in the order of two orders.    *)
DeckInOrder(colours, values) ==
    [i \in 1 .. DeckSize |-> [colour |-> colours[((i - 1) % Len(colours)) + 1],
                              value  |-> values[((i - 1) \div Len(colours)) + 1]]]

(* Twelve cards, three tricks: four values of three colours.                *)
TwelveShuffles == {DeckInOrder(<< "H", "S", "D" >>, << "9", "Q", "K", "J" >>)}

(* Eight cards, two tricks: four values of two colours.                     *)
EightShuffles == {DeckInOrder(<< "H", "S" >>, << "Q", "7", "K", "J" >>)}
=============================================================================
