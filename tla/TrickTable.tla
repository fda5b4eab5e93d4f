----------------------------- MODULE TrickTable -----------------------------
(***************************************************************************)
(* One trick seen from one player: the others put any cards on the table,  *)
(* the player answers with a card the server calls playable, and the       *)
(* operators of BeloteRules are compared with the law of the game.         *)
(*                                                                         *)
(* Any sequence of cards may come before the player's: the hands of the    *)
(* others decide what they may play, and in the last trick a hand is one   *)
(* card.                                                                   *)
(***************************************************************************)
EXTENDS BeloteRules, BeloteLaw, FiniteSetsExt

CONSTANTS
    Assets,         \* the colours tried as asset
    MaxHand         \* bound: the cards of the player's hand

VARIABLES
    m_CurrentAsset,
    m_PlayersHand,  \* the hand of the player
    m_PlayedCards,
    played          \* the player has played his card

vars == << m_CurrentAsset, m_PlayersHand, m_PlayedCards, played >>

OnTable == {m_PlayedCards[i] : i \in DOMAIN m_PlayedCards}

Init == /\ m_CurrentAsset \in Assets
        /\ m_PlayersHand \in UNION {kSubset(n, Pack) : n \in 1 .. MaxHand}
        /\ m_PlayedCards = << >>
        /\ played = FALSE

Put(card) == /\ Len(m_PlayedCards) < 4
             /\ m_PlayedCards' = Append(m_PlayedCards, card)
             /\ UNCHANGED m_CurrentAsset

OtherPlays(card) == /\ card \notin OnTable \cup m_PlayersHand
                    /\ Put(card)
                    /\ UNCHANGED << m_PlayersHand, played >>

PlayerPlays(card) == /\ ~played
                     /\ Put(card)
                     /\ m_PlayersHand' = m_PlayersHand \ {card}
                     /\ played' = TRUE

Done == Len(m_PlayedCards) = 4 /\ UNCHANGED vars

Next == \/ \E card \in Pack : OtherPlays(card)
        \/ \E card \in Playable(m_PlayersHand, m_CurrentAsset, m_PlayedCards) : PlayerPlays(card)
        \/ Done

Spec == Init /\ [][Next]_vars

----------------------------------------------------------------------------
(* A 7 was led and nothing that was played since beats it: the server then  *)
(* values the 7 and the discards alike.                                     *)
LedSevenIsMaster ==
    /\ Len(m_PlayedCards) = 3
    /\ m_PlayedCards[1].value = "7"
    /\ IsMaster(m_CurrentAsset, m_PlayedCards, 1)

(* The cards AskToPlay offers are the cards the law allows, except behind  *)
(* a led 7 nobody has beaten.                                               *)
PlayableIsLegal ==
    (~played /\ Len(m_PlayedCards) < 4 /\ ~LedSevenIsMaster) =>
        Playable(m_PlayersHand, m_CurrentAsset, m_PlayedCards)
            = LegalCards(m_PlayersHand, m_CurrentAsset, m_PlayedCards)

(* TurnEnded gives the trick to the player of its master card.              *)
WinnerIsMaster ==
    Len(m_PlayedCards) = 4 =>
        IsMaster(m_CurrentAsset, m_PlayedCards, WinnerIndex(m_CurrentAsset, m_PlayedCards) + 1)
=============================================================================
