----------------------------- MODULE BeloteLaw -----------------------------
(***************************************************************************)
(* The law of the game, stated without the server's numbers: what beats    *)
(* what, who is master of a trick, which cards a player may choose from.   *)
(* The properties compare the operators of BeloteRules with it.            *)
(***************************************************************************)
EXTENDS BeloteCards

(* An asset beats every other colour, a card of the colour that was asked   *)
(* beats what does not follow, and within a colour the usual order holds.   *)
Beats(asset, requested, c, d) ==
    \/ c.colour = asset /\ d.colour # asset
    \/ c.colour = asset /\ d.colour = asset
         /\ ValueOrderAtAsset[c.value] > ValueOrderAtAsset[d.value]
    \/ c.colour = requested /\ d.colour \notin {asset, requested}
    \/ c.colour = requested /\ d.colour = requested /\ requested # asset
         /\ ValueOrder[c.value] > ValueOrder[d.value]

(* The card that beats the three others.                                    *)
IsMaster(asset, trick, i) ==
    \A j \in DOMAIN trick \ {i} : Beats(asset, trick[1].colour, trick[i], trick[j])

(* The assets the player must choose from when he has to play one: those    *)
(* that beat the asset cards on the table, if he has any.                   *)
RequiredAssets(hand, asset, trick) ==
    LET assets == {c \in hand : c.colour = asset}
        above  == {c \in assets : \A i \in DOMAIN trick : Beats(asset, trick[1].colour, c, trick[i])}
    IN  IF above # {} THEN above ELSE assets

(* Follow; without the requested colour, cut unless the partner is master;  *)
(* otherwise anything.                                                      *)
LegalCards(hand, asset, trick) ==
    LET requested  == trick[1].colour
        followers  == {c \in hand : c.colour = requested}
        hasAssets  == \E c \in hand : c.colour = asset
        excused    == Len(trick) >= 2 /\ IsMaster(asset, trick, Len(trick) - 1)
    IN  CASE trick = << >> -> hand
          [] trick # << >> /\ followers # {} ->
                IF requested = asset THEN RequiredAssets(hand, asset, trick) ELSE followers
          [] trick # << >> /\ followers = {} ->
                IF hasAssets /\ ~excused THEN RequiredAssets(hand, asset, trick) ELSE hand
============================================================================
