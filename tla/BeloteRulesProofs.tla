------------------------- MODULE BeloteRulesProofs -------------------------
(***************************************************************************)
(* The rules of a trick against the law, for every pack, every hand and    *)
(* every trick: the cards AskToPlay offers are the legal ones except       *)
(* behind a led 7 nobody has beaten, and the trick goes to its master      *)
(* card.  What makes the numbers of CardDefToValue agree with the law is   *)
(* that no card is on the table twice.  The last part is about what a set  *)
(* of cards is worth.                                                      *)
(***************************************************************************)
EXTENDS BeloteRules, BeloteLaw, FiniteSetsExt, SequenceTheorems, FiniteSetTheorems,
        WellFoundedInduction, TLAPS

(* Two different cards are worth the same in a trick only if neither is     *)
(* worth anything.                                                          *)
LEMMA Orders ==
    /\ \A v \in AllValues : ValueOrder[v] \in 0 .. 8 /\ ValueOrderAtAsset[v] \in 0 .. 8
    /\ \A v \in AllValues : ValueOrder[v] = 0 => v = "7"
    /\ \A v, w \in AllValues : ValueOrder[v] = ValueOrder[w] => v = w
    /\ \A v, w \in AllValues : ValueOrderAtAsset[v] = ValueOrderAtAsset[w] => v = w
<1>1. /\ ValueOrder["7"] = 0 /\ ValueOrder["8"] = 1 /\ ValueOrder["9"] = 2 /\ ValueOrder["J"] = 3
      /\ ValueOrder["Q"] = 4 /\ ValueOrder["K"] = 5 /\ ValueOrder["10"] = 6 /\ ValueOrder["1"] = 8
  BY DEF ValueOrder, AllValues
<1>2. /\ ValueOrderAtAsset["7"] = 0 /\ ValueOrderAtAsset["8"] = 1 /\ ValueOrderAtAsset["Q"] = 2
      /\ ValueOrderAtAsset["K"] = 3 /\ ValueOrderAtAsset["10"] = 4 /\ ValueOrderAtAsset["1"] = 6
      /\ ValueOrderAtAsset["9"] = 7 /\ ValueOrderAtAsset["J"] = 8
  BY DEF ValueOrderAtAsset, AllValues
<1>3. \A v \in AllValues : v \in {"7", "8", "9", "10", "J", "Q", "K", "1"}
  BY DEF AllValues
<1>4. \A v \in AllValues : ValueOrder[v] \in 0 .. 8 /\ ValueOrderAtAsset[v] \in 0 .. 8
  BY <1>1, <1>2, <1>3
<1>5. \A v, w \in AllValues : ValueOrder[v] = ValueOrder[w] => v = w
  BY <1>1, <1>3
<1>6. \A v, w \in AllValues : ValueOrderAtAsset[v] = ValueOrderAtAsset[w] => v = w
  BY <1>2, <1>3
<1> QED BY <1>1, <1>3, <1>4, <1>5, <1>6

LEMMA CardValue ==
    ASSUME NEW asset, NEW requested, NEW c \in Card
    PROVE  /\ CardDefToValue(asset, requested, c) \in 0 .. 108
           /\ c.colour = asset => CardDefToValue(asset, requested, c) = 100 + ValueOrderAtAsset[c.value]
           /\ c.colour = requested /\ c.colour # asset => CardDefToValue(asset, requested, c) = ValueOrder[c.value]
           /\ c.colour \notin {asset, requested} => CardDefToValue(asset, requested, c) = 0
           /\ CardDefToValue(asset, requested, c) >= 100 <=> c.colour = asset
           /\ c.colour # asset => CardDefToValue(asset, requested, c) <= 8
<1>1. c.value \in AllValues
  BY DEF Card
<1>2. ValueOrder[c.value] \in 0 .. 8 /\ ValueOrderAtAsset[c.value] \in 0 .. 8
  BY <1>1, Orders
<1>3. CASE c.colour = asset
  BY <1>2, <1>3 DEF CardDefToValue
<1>4. CASE c.colour = requested /\ c.colour # asset
  BY <1>2, <1>4 DEF CardDefToValue
<1>5. CASE c.colour \notin {asset, requested}
  BY <1>5 DEF CardDefToValue
<1> QED BY <1>3, <1>4, <1>5

LEMMA EqualValues ==
    ASSUME NEW asset, NEW requested, NEW c \in Card, NEW d \in Card, c # d,
           CardDefToValue(asset, requested, c) = CardDefToValue(asset, requested, d)
    PROVE  CardDefToValue(asset, requested, c) = 0
<1>1. c.value \in AllValues /\ d.value \in AllValues /\ (c.colour # d.colour \/ c.value # d.value)
  BY DEF Card
<1>2. CASE c.colour = asset
  <2>1. d.colour = asset
    BY <1>2, CardValue
  <2>2. 100 + ValueOrderAtAsset[c.value] = 100 + ValueOrderAtAsset[d.value]
    BY <1>2, <2>1, CardValue
  <2>3. ValueOrderAtAsset[c.value] = ValueOrderAtAsset[d.value]
    BY <1>1, <2>2, Orders
  <2> QED BY <1>1, <1>2, <2>1, <2>3, Orders
<1>3. CASE c.colour = requested /\ c.colour # asset
  <2>1. d.colour # asset
    BY <1>3, CardValue
  <2>2. CASE d.colour = requested
    <3>1. ValueOrder[c.value] = ValueOrder[d.value]
      BY <1>3, <2>1, <2>2, CardValue
    <3> QED BY <1>1, <1>3, <2>2, <3>1, Orders
  <2>3. CASE d.colour # requested
    BY <2>1, <2>3, CardValue
  <2> QED BY <2>2, <2>3
<1>4. CASE c.colour \notin {asset, requested}
  BY <1>4, CardValue
<1> QED BY <1>2, <1>3, <1>4

(* A card of more value beats, and a card that beats is worth no less; for  *)
(* an asset the value is exactly what decides.                              *)
LEMMA ValueBeats ==
    ASSUME NEW asset, NEW requested, NEW c \in Card, NEW d \in Card
    PROVE  /\ CardDefToValue(asset, requested, c) > CardDefToValue(asset, requested, d) => Beats(asset, requested, c, d)
           /\ Beats(asset, requested, c, d) => CardDefToValue(asset, requested, c) >= CardDefToValue(asset, requested, d)
           /\ c.colour = asset => (Beats(asset, requested, c, d)
                    <=> CardDefToValue(asset, requested, c) > CardDefToValue(asset, requested, d))
<1>1. c.value \in AllValues /\ d.value \in AllValues
  BY DEF Card
<1>2. /\ ValueOrder[c.value] \in 0 .. 8 /\ ValueOrderAtAsset[c.value] \in 0 .. 8
      /\ ValueOrder[d.value] \in 0 .. 8 /\ ValueOrderAtAsset[d.value] \in 0 .. 8
  BY <1>1, Orders
<1> QED BY <1>2 DEF CardDefToValue, Beats

----------------------------------------------------------------------------
(* A trick: cards of which none is there twice.                             *)
Trick(trick) == /\ trick \in Seq(Card)
                /\ \A i, j \in DOMAIN trick : i # j => trick[i] # trick[j]

LEMMA Scores ==
    ASSUME NEW asset, NEW trick, Trick(trick), NEW i \in DOMAIN trick, NEW j \in DOMAIN trick, i # j
    PROVE  /\ PlayedScore(asset, trick, i) \in 0 .. 108
           /\ PlayedScore(asset, trick, i) > PlayedScore(asset, trick, j)
                 => Beats(asset, trick[1].colour, trick[i], trick[j])
           /\ Beats(asset, trick[1].colour, trick[i], trick[j])
                 => PlayedScore(asset, trick, i) >= PlayedScore(asset, trick, j)
           /\ PlayedScore(asset, trick, i) = PlayedScore(asset, trick, j) => PlayedScore(asset, trick, i) = 0
<1>1. trick[i] \in Card /\ trick[j] \in Card /\ trick[i] # trick[j]
  BY DEF Trick
<1>2. PlayedScore(asset, trick, i) = CardDefToValue(asset, trick[1].colour, trick[i])
      /\ PlayedScore(asset, trick, j) = CardDefToValue(asset, trick[1].colour, trick[j])
  BY DEF PlayedScore
<1> QED BY <1>1, <1>2, CardValue, ValueBeats, EqualValues

(* When nothing on the table is worth anything, a 7 was led and it is the   *)
(* master: the others have not followed.                                    *)
LEMMA LedSeven ==
    ASSUME NEW asset, NEW trick, Trick(trick), trick # << >>,
           \A i \in DOMAIN trick : PlayedScore(asset, trick, i) = 0
    PROVE  trick[1].value = "7" /\ IsMaster(asset, trick, 1)
<1>1. 1 \in DOMAIN trick /\ \A i \in DOMAIN trick : trick[i] \in Card
  BY DEF Trick
<1>2. \A i \in DOMAIN trick : CardDefToValue(asset, trick[1].colour, trick[i]) = 0
  BY DEF PlayedScore
<1>3. trick[1].colour # asset
  <2>1. ~(CardDefToValue(asset, trick[1].colour, trick[1]) >= 100)
    BY <1>1, <1>2
  <2> QED BY <1>1, <2>1, CardValue
<1>4. \A i \in DOMAIN trick : trick[i].colour = trick[1].colour => trick[i].value = "7"
  <2> SUFFICES ASSUME NEW i \in DOMAIN trick, trick[i].colour = trick[1].colour PROVE trick[i].value = "7"
    OBVIOUS
  <2>1. ValueOrder[trick[i].value] = 0
    BY <1>1, <1>2, <1>3, CardValue
  <2>2. trick[i].value \in AllValues
    BY <1>1 DEF Card
  <2> QED BY <2>1, <2>2, Orders
<1>5. ASSUME NEW j \in DOMAIN trick, j # 1 PROVE Beats(asset, trick[1].colour, trick[1], trick[j])
  <2>1. trick[j] \in Card /\ trick[1] \in Card /\ trick[j] # trick[1]
    BY <1>1, <1>5 DEF Trick
  <2>2. trick[j].colour # trick[1].colour
    BY <1>1, <1>4, <1>5, <2>1 DEF Card
  <2>3. trick[j].colour # asset
    <3>1. ~(CardDefToValue(asset, trick[1].colour, trick[j]) >= 100)
      BY <1>2, <1>5
    <3> QED BY <2>1, <3>1, CardValue
  <2> QED BY <2>2, <2>3 DEF Beats
<1> QED BY <1>1, <1>4, <1>5 DEF IsMaster

(* The card of most value is the master, the led 7 aside.                   *)
LEMMA BestIsMaster ==
    ASSUME NEW asset, NEW trick, Trick(trick), NEW k \in DOMAIN trick
    PROVE  /\ IsMaster(asset, trick, k)
                => \A i \in DOMAIN trick : PlayedScore(asset, trick, i) <= PlayedScore(asset, trick, k)
           /\ (\A i \in DOMAIN trick : PlayedScore(asset, trick, i) <= PlayedScore(asset, trick, k))
                => IsMaster(asset, trick, k) \/ \A i \in DOMAIN trick : PlayedScore(asset, trick, i) = 0
<1>1. \A i \in DOMAIN trick : PlayedScore(asset, trick, i) \in 0 .. 108
  <2>1. \A i \in DOMAIN trick : trick[i] \in Card
    BY DEF Trick
  <2> QED BY <2>1, CardValue DEF PlayedScore
<1>2. ASSUME IsMaster(asset, trick, k), NEW i \in DOMAIN trick
      PROVE  PlayedScore(asset, trick, i) <= PlayedScore(asset, trick, k)
  <2>1. CASE i = k
    BY <1>1, <2>1
  <2>2. CASE i # k
    <3>1. Beats(asset, trick[1].colour, trick[k], trick[i])
      BY <1>2, <2>2 DEF IsMaster
    <3>2. PlayedScore(asset, trick, k) >= PlayedScore(asset, trick, i)
      BY <1>2, <2>2, <3>1, Scores
    <3> QED BY <1>1, <1>2, <3>2
  <2> QED BY <2>1, <2>2
<1>3. ASSUME \A i \in DOMAIN trick : PlayedScore(asset, trick, i) <= PlayedScore(asset, trick, k),
             PlayedScore(asset, trick, k) # 0, NEW j \in DOMAIN trick \ {k}
      PROVE  Beats(asset, trick[1].colour, trick[k], trick[j])
  <2>1. PlayedScore(asset, trick, k) # PlayedScore(asset, trick, j)
    BY <1>3, Scores
  <2>2. PlayedScore(asset, trick, k) > PlayedScore(asset, trick, j)
    BY <1>1, <1>3, <2>1
  <2> QED BY <1>3, <2>2, Scores
<1>4. ASSUME \A i \in DOMAIN trick : PlayedScore(asset, trick, i) <= PlayedScore(asset, trick, k),
             PlayedScore(asset, trick, k) = 0, NEW i \in DOMAIN trick
      PROVE  PlayedScore(asset, trick, i) = 0
  <2>1. PlayedScore(asset, trick, i) <= 0 /\ PlayedScore(asset, trick, i) \in 0 .. 108
    BY <1>1, <1>4
  <2> QED BY <2>1
<1> QED BY <1>2, <1>3, <1>4 DEF IsMaster

----------------------------------------------------------------------------
(* The cards that may be played.                                            *)

(* Who has to play asset is offered what the law requires.                  *)
LEMMA AssetsRequired ==
    ASSUME NEW asset, NEW trick, Trick(trick), trick # << >>, NEW hand \in SUBSET Card,
           OfColour(hand, asset) # {}, trick[1].colour = asset \/ OfColour(hand, trick[1].colour) = {}
    PROVE  AssetsToPlay(hand, asset, trick) = RequiredAssets(hand, asset, trick)
<1> DEFINE requested == trick[1].colour
<1>1. 1 \in DOMAIN trick /\ \A i \in DOMAIN trick : trick[i] \in Card
  BY DEF Trick
<1>2. ASSUME NEW c \in hand, \A i \in DOMAIN trick : CardDefToValue(asset, requested, c) > PlayedScore(asset, trick, i)
      PROVE  c.colour = asset
  <2>1. c \in Card /\ CardDefToValue(asset, requested, c) > CardDefToValue(asset, requested, trick[1])
    BY <1>1, <1>2 DEF PlayedScore
  <2>2. CardDefToValue(asset, requested, trick[1]) \in 0 .. 108 /\ CardDefToValue(asset, requested, c) \in 0 .. 108
    BY <1>1, <2>1, CardValue
  <2>3. CASE requested = asset
    <3>1. CardDefToValue(asset, requested, trick[1]) >= 100
      BY <1>1, <2>3, CardValue
    <3>2. CardDefToValue(asset, requested, c) >= 100
      <4> DEFINE vc == CardDefToValue(asset, requested, c)
                 vt == CardDefToValue(asset, requested, trick[1])
      <4>1. vc > vt /\ vt \in 0 .. 108 /\ vc \in 0 .. 108 /\ vt >= 100
        BY <2>1, <2>2, <3>1
      <4> HIDE DEF vc, vt
      <4>2. vc >= 100
        BY <4>1
      <4> QED BY <4>2 DEF vc
    <3> QED BY <2>1, <3>2, CardValue
  <2>4. CASE OfColour(hand, requested) = {}
    <3>1. c.colour # requested
      BY <1>2, <2>4 DEF OfColour
    <3>2. CardDefToValue(asset, requested, c) # 0
      <4> DEFINE vc == CardDefToValue(asset, requested, c)
                 vt == CardDefToValue(asset, requested, trick[1])
      <4>1. vc > vt /\ vt \in 0 .. 108
        BY <2>1, <2>2
      <4> HIDE DEF vc, vt
      <4>2. vc # 0
        BY <4>1
      <4> QED BY <4>2 DEF vc
    <3> QED BY <2>1, <3>1, <3>2, CardValue
  <2> QED BY <2>3, <2>4
<1>3. ASSUME NEW c \in hand, c.colour = asset, NEW i \in DOMAIN trick
      PROVE  Beats(asset, requested, c, trick[i]) <=> CardDefToValue(asset, requested, c) > PlayedScore(asset, trick, i)
  <2>1. c \in Card /\ trick[i] \in Card
    BY <1>1, <1>3
  <2> QED BY <1>3, <2>1, ValueBeats DEF PlayedScore
<1> DEFINE above == {c \in {d \in hand : d.colour = asset} : \A i \in DOMAIN trick : Beats(asset, requested, c, trick[i])}
<1>4. Overcutting(hand, asset, trick) = above
  BY <1>2, <1>3 DEF Overcutting
<1> QED BY <1>4 DEF AssetsToPlay, RequiredAssets, PlayerCanOvercut, OfColour

LEMMA Exceeds == \A x, y \in 0 .. 108 : x > y <=> ~(x <= y)
OBVIOUS

(* The partner is excused from cutting when the master card is his          *)
(* partner's, and PlayerMustCut finds that out, the led 7 aside.            *)
LEMMA MustCutIsLaw ==
    ASSUME NEW asset, NEW trick, Trick(trick), trick # << >>, Len(trick) < 4,
           ~(Len(trick) = 3 /\ trick[1].value = "7" /\ IsMaster(asset, trick, 1))
    PROVE  PlayerMustCut(asset, trick) <=> ~(Len(trick) >= 2 /\ IsMaster(asset, trick, Len(trick) - 1))
<1>1. Len(trick) \in 1 .. 3 /\ DOMAIN trick = 1 .. Len(trick)
  <2>1. trick \in Seq(Card)
    BY DEF Trick
  <2>2. Len(trick) \in Nat \ {0}
    BY <2>1, EmptySeq, Zenon
  <2>3. DOMAIN trick = 1 .. Len(trick)
    BY <2>1
  <2> QED BY <2>2, <2>3
<1>2. CASE Len(trick) = 1
  BY <1>2 DEF PlayerMustCut
<1>3. CASE Len(trick) >= 2
  <2> DEFINE k == Len(trick) - 1
  <2>1. k \in DOMAIN trick /\ Len(trick) # 1
    BY <1>1, <1>3
  <2> HIDE DEF k
  <2>2. \A i \in DOMAIN trick : PlayedScore(asset, trick, i) \in 0 .. 108
    <3>1. \A i \in DOMAIN trick : trick[i] \in Card
      BY DEF Trick
    <3> QED BY <3>1, CardValue DEF PlayedScore
  <2>3. PlayerMustCut(asset, trick) <=> ~(\A i \in DOMAIN trick : PlayedScore(asset, trick, i) <= PlayedScore(asset, trick, k))
    <3> DEFINE score(i) == PlayedScore(asset, trick, i)
    <3>1. \A i \in DOMAIN trick : score(i) \in 0 .. 108
      BY <2>2, Zenon
    <3>2. PlayerMustCut(asset, trick) <=> \E i \in DOMAIN trick : score(i) > score(k)
      BY <2>1, Zenon DEF PlayerMustCut, k
    <3> HIDE DEF score
    <3>3. \A i \in DOMAIN trick : score(i) > score(k) <=> ~(score(i) <= score(k))
      BY <2>1, <3>1, Exceeds, Zenon
    <3>4. PlayerMustCut(asset, trick) <=> ~(\A i \in DOMAIN trick : score(i) <= score(k))
      BY <3>2, <3>3, Zenon
    <3> QED BY <3>4 DEF score
  <2>4. (\A i \in DOMAIN trick : PlayedScore(asset, trick, i) = 0) => IsMaster(asset, trick, k)
    <3> SUFFICES ASSUME \A i \in DOMAIN trick : PlayedScore(asset, trick, i) = 0 PROVE IsMaster(asset, trick, k)
      OBVIOUS
    <3>1. trick[1].value = "7" /\ IsMaster(asset, trick, 1)
      BY LedSeven
    <3>2. k = 1
      BY <1>1, <1>3, <3>1 DEF k
    <3> QED BY <3>1, <3>2
  <2> QED BY <1>3, <2>1, <2>3, <2>4, BestIsMaster DEF k
<1> QED BY <1>1, <1>2, <1>3

LEMMA PlayableCases ==
    ASSUME NEW hand, NEW asset, NEW trick, trick # << >>
    PROVE  /\ trick[1].colour = asset /\ OfColour(hand, asset) # {}
                 => Playable(hand, asset, trick) = AssetsToPlay(hand, asset, trick)
           /\ trick[1].colour # asset /\ OfColour(hand, trick[1].colour) # {}
                 => Playable(hand, asset, trick) = OfColour(hand, trick[1].colour)
           /\ trick[1].colour # asset /\ OfColour(hand, trick[1].colour) = {} /\ OfColour(hand, asset) # {}
              /\ PlayerMustCut(asset, trick)
                 => Playable(hand, asset, trick) = AssetsToPlay(hand, asset, trick)
           /\ trick[1].colour # asset /\ OfColour(hand, trick[1].colour) = {}
              /\ (OfColour(hand, asset) = {} \/ ~PlayerMustCut(asset, trick))
                 => Playable(hand, asset, trick) = hand
           /\ trick[1].colour = asset /\ OfColour(hand, asset) = {} => Playable(hand, asset, trick) = hand
BY Zenon DEF Playable

LEMMA LegalCases ==
    ASSUME NEW hand, NEW asset, NEW trick, trick # << >>
    PROVE  /\ OfColour(hand, trick[1].colour) # {} /\ trick[1].colour = asset
                 => LegalCards(hand, asset, trick) = RequiredAssets(hand, asset, trick)
           /\ OfColour(hand, trick[1].colour) # {} /\ trick[1].colour # asset
                 => LegalCards(hand, asset, trick) = OfColour(hand, trick[1].colour)
           /\ OfColour(hand, trick[1].colour) = {} /\ OfColour(hand, asset) # {}
              /\ ~(Len(trick) >= 2 /\ IsMaster(asset, trick, Len(trick) - 1))
                 => LegalCards(hand, asset, trick) = RequiredAssets(hand, asset, trick)
           /\ OfColour(hand, trick[1].colour) = {}
              /\ (OfColour(hand, asset) = {} \/ (Len(trick) >= 2 /\ IsMaster(asset, trick, Len(trick) - 1)))
                 => LegalCards(hand, asset, trick) = hand
BY DEF LegalCards, OfColour

(* AskToPlay offers the legal cards: any hand, any trick of fewer than four *)
(* cards, except behind a led 7 that is master with three cards played.     *)
THEOREM PlayableIsLaw ==
    ASSUME NEW asset, NEW trick, Trick(trick), Len(trick) < 4, NEW hand \in SUBSET Card,
           ~(Len(trick) = 3 /\ trick[1].value = "7" /\ IsMaster(asset, trick, 1))
    PROVE  Playable(hand, asset, trick) = LegalCards(hand, asset, trick)
<1>1. CASE trick = << >>
  <2>1. Playable(hand, asset, trick) = hand
    BY <1>1 DEF Playable
  <2>2. LegalCards(hand, asset, trick) = hand
    BY <1>1, Zenon DEF LegalCards
  <2> QED BY <2>1, <2>2
<1>2. CASE trick # << >>
  <2>1. PlayerMustCut(asset, trick) <=> ~(Len(trick) >= 2 /\ IsMaster(asset, trick, Len(trick) - 1))
    BY <1>2, MustCutIsLaw
  <2>2. OfColour(hand, asset) # {} /\ (trick[1].colour = asset \/ OfColour(hand, trick[1].colour) = {})
          => AssetsToPlay(hand, asset, trick) = RequiredAssets(hand, asset, trick)
    BY <1>2, AssetsRequired
  <2>3. CASE OfColour(hand, trick[1].colour) # {} /\ trick[1].colour = asset
    <3>1. LegalCards(hand, asset, trick) = RequiredAssets(hand, asset, trick)
      BY <1>2, <2>3, LegalCases, Zenon
    <3>2. OfColour(hand, asset) # {}
      BY <2>3
    <3>3. Playable(hand, asset, trick) = AssetsToPlay(hand, asset, trick)
      BY <1>2, <2>3, <3>2, PlayableCases, Zenon
    <3> QED BY <2>2, <2>3, <3>1, <3>2, <3>3
  <2>4. CASE OfColour(hand, trick[1].colour) # {} /\ trick[1].colour # asset
    <3>1. LegalCards(hand, asset, trick) = OfColour(hand, trick[1].colour)
      BY <1>2, <2>4, LegalCases, Zenon
    <3>2. Playable(hand, asset, trick) = OfColour(hand, trick[1].colour)
      BY <1>2, <2>4, PlayableCases, Zenon
    <3> QED BY <3>1, <3>2
  <2>5. CASE OfColour(hand, trick[1].colour) = {} /\ OfColour(hand, asset) # {} /\ PlayerMustCut(asset, trick)
    <3>1. LegalCards(hand, asset, trick) = RequiredAssets(hand, asset, trick)
      BY <1>2, <2>1, <2>5, LegalCases, Zenon
    <3>2. trick[1].colour # asset
      BY <2>5
    <3>3. Playable(hand, asset, trick) = AssetsToPlay(hand, asset, trick)
      BY <1>2, <2>5, <3>2, PlayableCases, Zenon
    <3> QED BY <2>2, <2>5, <3>1, <3>3
  <2>6. CASE OfColour(hand, trick[1].colour) = {} /\ (OfColour(hand, asset) = {} \/ ~PlayerMustCut(asset, trick))
    <3>1. LegalCards(hand, asset, trick) = hand
      BY <1>2, <2>1, <2>6, LegalCases, Zenon
    <3>2. Playable(hand, asset, trick) = hand
      <4>1. CASE trick[1].colour = asset
        <5>1. OfColour(hand, asset) = {}
          BY <2>6, <4>1
        <5> QED BY <1>2, <4>1, <5>1, PlayableCases, Zenon
      <4>2. CASE trick[1].colour # asset
        BY <1>2, <2>6, <4>2, PlayableCases, Zenon
      <4> QED BY <4>1, <4>2
    <3> QED BY <3>1, <3>2
  <2> QED BY <2>3, <2>4, <2>5, <2>6, Zenon
<1> QED BY <1>1, <1>2

(* What is offered is in the hand, and something is.                        *)
LEMMA PlayableInHand ==
    ASSUME NEW hand, NEW asset, NEW trick
    PROVE  Playable(hand, asset, trick) \subseteq hand /\ (hand # {} => Playable(hand, asset, trick) # {})
<1>1. CASE trick = << >>
  BY <1>1 DEF Playable
<1>2. CASE trick # << >>
  <2>1. Overcutting(hand, asset, trick) \subseteq hand /\ OfColour(hand, asset) \subseteq hand
        /\ OfColour(hand, trick[1].colour) \subseteq hand
    BY DEF Overcutting, OfColour
  <2>2. AssetsToPlay(hand, asset, trick) \subseteq hand
        /\ (OfColour(hand, asset) # {} => AssetsToPlay(hand, asset, trick) # {})
    BY <2>1 DEF AssetsToPlay, PlayerCanOvercut
  <2>3. \/ Playable(hand, asset, trick) = AssetsToPlay(hand, asset, trick) /\ OfColour(hand, asset) # {}
        \/ Playable(hand, asset, trick) = OfColour(hand, trick[1].colour) /\ OfColour(hand, trick[1].colour) # {}
        \/ Playable(hand, asset, trick) = hand
    <3> DEFINE requested == trick[1].colour
    <3>1. CASE requested = asset /\ OfColour(hand, asset) # {}
      BY <1>2, <3>1, PlayableCases, Zenon
    <3>2. CASE requested # asset /\ OfColour(hand, requested) # {}
      BY <1>2, <3>2, PlayableCases, Zenon
    <3>3. CASE requested # asset /\ OfColour(hand, requested) = {} /\ OfColour(hand, asset) # {}
               /\ PlayerMustCut(asset, trick)
      BY <1>2, <3>3, PlayableCases, Zenon
    <3>4. CASE requested # asset /\ OfColour(hand, requested) = {}
               /\ (OfColour(hand, asset) = {} \/ ~PlayerMustCut(asset, trick))
      BY <1>2, <3>4, PlayableCases, Zenon
    <3>5. CASE requested = asset /\ OfColour(hand, asset) = {}
      BY <1>2, <3>5, PlayableCases, Zenon
    <3> QED BY <3>1, <3>2, <3>3, <3>4, <3>5, Zenon
  <2> QED BY <2>1, <2>2, <2>3
<1> QED BY <1>1, <1>2

----------------------------------------------------------------------------
(* The winner.                                                              *)
LEMMA FourNumbers ==
    ASSUME NEW a \in Nat, NEW b \in Nat, NEW c \in Nat, NEW d \in Nat
    PROVE  \/ a >= b /\ a >= c /\ a >= d
           \/ b > a /\ b >= c /\ b >= d
           \/ c > a /\ c > b /\ c >= d
           \/ d > a /\ d > b /\ d > c
OBVIOUS

LEMMA FirstBest ==
    ASSUME NEW score \in [1 .. 4 -> Nat]
    PROVE  \E i \in 1 .. 4 : /\ \A j \in 1 .. 4 : score[j] <= score[i]
                            /\ \A j \in 1 .. (i - 1) : score[j] < score[i]
<1> DEFINE First(i) == /\ \A j \in 1 .. 4 : score[j] <= score[i]
                       /\ \A j \in 1 .. (i - 1) : score[j] < score[i]
<1>1. /\ score[1] \in Nat /\ score[2] \in Nat /\ score[3] \in Nat /\ score[4] \in Nat
  OBVIOUS
<1>2. \A j \in 1 .. 4 : j = 1 \/ j = 2 \/ j = 3 \/ j = 4
  OBVIOUS
<1>3. CASE score[1] >= score[2] /\ score[1] >= score[3] /\ score[1] >= score[4]
  <2>1. First(1)
    BY <1>1, <1>2, <1>3
  <2> QED BY <2>1
<1>4. CASE score[2] > score[1] /\ score[2] >= score[3] /\ score[2] >= score[4]
  <2>1. First(2)
    BY <1>1, <1>2, <1>4
  <2> QED BY <2>1
<1>5. CASE score[3] > score[1] /\ score[3] > score[2] /\ score[3] >= score[4]
  <2>1. First(3)
    BY <1>1, <1>2, <1>5
  <2> QED BY <2>1
<1>6. CASE score[4] > score[1] /\ score[4] > score[2] /\ score[4] > score[3]
  <2>1. First(4)
    BY <1>1, <1>2, <1>6
  <2> QED BY <2>1
<1>7. \/ score[1] >= score[2] /\ score[1] >= score[3] /\ score[1] >= score[4]
      \/ score[2] > score[1] /\ score[2] >= score[3] /\ score[2] >= score[4]
      \/ score[3] > score[1] /\ score[3] > score[2] /\ score[3] >= score[4]
      \/ score[4] > score[1] /\ score[4] > score[2] /\ score[4] > score[3]
  <2> QED BY <1>1, FourNumbers, Zenon
<1> QED BY <1>3, <1>4, <1>5, <1>6, <1>7

(* TurnEnded looks for the best score of the four and keeps the first it    *)
(* finds: that card is the master of the trick.                             *)
THEOREM WinnerIsLaw ==
    ASSUME NEW asset, NEW trick, Trick(trick), Len(trick) = 4
    PROVE  WinnerIndex(asset, trick) \in 0 .. 3 /\ IsMaster(asset, trick, WinnerIndex(asset, trick) + 1)
<1>1. trick \in Seq(Card) /\ DOMAIN trick = 1 .. 4 /\ trick # << >> /\ 1 \in 1 .. 4
  <2>1. trick \in Seq(Card)
    BY DEF Trick
  <2> QED BY <2>1
<1> DEFINE score == [i \in 1 .. 4 |-> PlayedScore(asset, trick, i)]
           First(i) == /\ \A j \in DOMAIN trick : PlayedScore(asset, trick, j) <= PlayedScore(asset, trick, i)
                       /\ \A j \in 1 .. (i - 1) : PlayedScore(asset, trick, j) < PlayedScore(asset, trick, i)
           w == CHOOSE i \in DOMAIN trick : First(i)
<1>2. \A i \in 1 .. 4 : PlayedScore(asset, trick, i) \in 0 .. 108
  <2>1. \A i \in 1 .. 4 : trick[i] \in Card
    BY <1>1
  <2> QED BY <2>1, CardValue DEF PlayedScore
<1>3. \E i \in DOMAIN trick : First(i)
  <2>1. score \in [1 .. 4 -> Nat]
    BY <1>2
  <2>2. PICK i \in 1 .. 4 : (\A j \in 1 .. 4 : score[j] <= score[i]) /\ (\A j \in 1 .. (i - 1) : score[j] < score[i])
    BY <2>1, FirstBest, Zenon
  <2>3. \A j \in 1 .. (i - 1) : j \in 1 .. 4
    OBVIOUS
  <2>4. First(i)
    BY <1>1, <2>2, <2>3
  <2> QED BY <1>1, <2>4
<1>4. w \in DOMAIN trick /\ First(w)
  BY <1>3, Zenon
<1>5. WinnerIndex(asset, trick) = w - 1
  BY DEF WinnerIndex
<1>6. IsMaster(asset, trick, w) \/ \A i \in DOMAIN trick : PlayedScore(asset, trick, i) = 0
  BY <1>4, BestIsMaster
<1> HIDE DEF w
<1>7. IsMaster(asset, trick, w)
  <2> SUFFICES ASSUME \A i \in DOMAIN trick : PlayedScore(asset, trick, i) = 0 PROVE IsMaster(asset, trick, w)
    BY <1>6
  <2>1. IsMaster(asset, trick, 1)
    BY <1>1, LedSeven
  <2>2. ~(PlayedScore(asset, trick, 1) < PlayedScore(asset, trick, w))
    BY <1>1, <1>4
  <2>3. w \in 1 .. 4 /\ 1 \notin 1 .. (w - 1)
    BY <1>1, <1>4, <2>2
  <2>4. w = 1
    BY <2>3
  <2> QED BY <2>1, <2>4
<1>8. w \in 1 .. 4 /\ (w - 1) + 1 = w /\ w - 1 \in 0 .. 3
  BY <1>1, <1>4
<1> QED BY <1>5, <1>7, <1>8

----------------------------------------------------------------------------
(* Finite sets.                                                             *)
LEMMA Least ==
    ASSUME NEW S, S # {}, NEW f \in [S -> Nat]
    PROVE  \E x \in S : \A y \in S : f[x] <= f[y]
<1> DEFINE T == {f[x] : x \in S}
<1>1. T \subseteq Nat /\ T # {}
  OBVIOUS
<1>2. PICK n \in T : \A m \in T : ~(m < n)
  <2> DEFINE R == OpToRel(<, Nat)
  <2>1. IsWellFoundedOn(R, Nat)
    BY NatLessThanWellFounded, Zenon
  <2>2. PICK n \in T : \A m \in T : ~(<< m, n >> \in R)
    <3> HIDE DEF T, R
    <3> QED BY <1>1, <2>1, WFMin, Zenon
  <2>3. \A m \in T : m \in Nat /\ n \in Nat
    BY <1>1, <2>2, Zenon
  <2>4. \A m \in T : ~(m < n)
    <3> HIDE DEF T
    <3> QED BY <2>2, <2>3, Zenon DEF OpToRel
  <2> QED BY <2>2, <2>4, Zenon
<1>3. \A m \in T : n <= m
  BY <1>1, <1>2
<1> QED BY <1>2, <1>3

LEMMA FinitePack == IsFiniteSet(Values) /\ IsFiniteSet(Pack) /\ Pack \subseteq Card
<1>1. IsFiniteSet(AllValues) /\ IsFiniteSet(AllColours)
  <2>1. IsFiniteSet({}) BY FS_EmptySet
  <2>2. IsFiniteSet({} \cup {"H"}) BY <2>1, FS_AddElement
  <2>3. IsFiniteSet(({} \cup {"H"}) \cup {"S"}) BY <2>2, FS_AddElement
  <2>4. IsFiniteSet((({} \cup {"H"}) \cup {"S"}) \cup {"D"}) BY <2>3, FS_AddElement
  <2>5. IsFiniteSet(((({} \cup {"H"}) \cup {"S"}) \cup {"D"}) \cup {"C"}) BY <2>4, FS_AddElement
  <2>6. AllColours = ((({} \cup {"H"}) \cup {"S"}) \cup {"D"}) \cup {"C"} BY DEF AllColours
  <2>7. \A S, x, y : IsFiniteSet(S) => IsFiniteSet((S \cup {x}) \cup {y})
    <3> SUFFICES ASSUME NEW S, NEW x, NEW y, IsFiniteSet(S) PROVE IsFiniteSet((S \cup {x}) \cup {y})
      OBVIOUS
    <3>1. IsFiniteSet(S \cup {x}) BY FS_AddElement
    <3> QED BY <3>1, FS_AddElement
  <2> DEFINE A == ({} \cup {"7"}) \cup {"8"}
             B == (A \cup {"9"}) \cup {"10"}
             C == (B \cup {"J"}) \cup {"Q"}
             D == (C \cup {"K"}) \cup {"1"}
  <2>8. IsFiniteSet(A) BY <2>1, <2>7
  <2>9. IsFiniteSet(B) BY <2>8, <2>7
  <2>10. IsFiniteSet(C) BY <2>9, <2>7
  <2>11. IsFiniteSet(D) BY <2>10, <2>7
  <2>12. AllValues = D BY DEF AllValues
  <2> QED BY <2>5, <2>6, <2>11, <2>12
<1>2. IsFiniteSet(Values) /\ IsFiniteSet(Colours)
  BY <1>1, PackAssumption, FS_Subset
<1>3. IsFiniteSet(Colours \X Values)
  BY <1>2, FS_Product
<1>4. IsFiniteSet(Pack)
  <2> DEFINE f == [p \in Colours \X Values |-> [colour |-> p[1], value |-> p[2]]]
  <2>1. f \in [Colours \X Values -> Pack]
    BY DEF Pack
  <2>2. \A c \in Pack : \E p \in Colours \X Values : f[p] = c
    <3> SUFFICES ASSUME NEW c \in Pack PROVE \E p \in Colours \X Values : f[p] = c
      OBVIOUS
    <3>1. << c.colour, c.value >> \in Colours \X Values
      BY DEF Pack
    <3>2. f[<< c.colour, c.value >>] = c
      BY <3>1 DEF Pack
    <3> QED BY <3>1, <3>2
  <2>3. f \in Surjection(Colours \X Values, Pack)
    BY <2>1, <2>2 DEF Surjection
  <2> QED BY <1>3, <2>3, FS_Surjection
<1> QED BY <1>2, <1>4, PackAssumption DEF Pack, Card

----------------------------------------------------------------------------
(* What a set of cards is worth.                                            *)
Points(asset, S) == MapThenSumSet(LAMBDA c : CardDefToScore(asset, c), S)

AnyOf(s) == CHOOSE x \in s : TRUE

Adds(asset, T, f) ==
    f = [s \in SUBSET T |-> IF s = {} THEN 0
                            ELSE CardDefToScore(asset, AnyOf(s)) + f[s \ {AnyOf(s)}]]

LEMMA PointsDef == ASSUME NEW asset, NEW T PROVE Points(asset, T) = (CHOOSE f : Adds(asset, T, f))[T]
BY Zenon DEF Points, MapThenSumSet, MapThenFoldSet, Adds, AnyOf

LEMMA CardScore == \A asset : \A c \in Card : CardDefToScore(asset, c) \in 0 .. 20
<1> SUFFICES ASSUME NEW asset, NEW c \in Card PROVE CardDefToScore(asset, c) \in 0 .. 20
  OBVIOUS
<1>1. c.value \in AllValues
  BY DEF Card
<1>2. \A v \in AllValues : NormalScores[v] \in 0 .. 20 /\ AssetScores[v] \in 0 .. 20
  BY DEF AllValues, NormalScores, AssetScores
<1> QED BY <1>1, <1>2 DEF CardDefToScore

Tokens(asset, S) == {p \in S \X (1 .. 20) : p[2] <= CardDefToScore(asset, p[1])}

LEMMA TokensOfOne ==
    ASSUME NEW asset, NEW c \in Card
    PROVE  /\ IsFiniteSet(Tokens(asset, {c}))
           /\ Cardinality(Tokens(asset, {c})) = CardDefToScore(asset, c)
<1> DEFINE n == CardDefToScore(asset, c)
           f == [i \in 1 .. n |-> << c, i >>]
<1>1. n \in 0 .. 20
  BY CardScore
<1> HIDE DEF n
<1>2. \A p : p \in Tokens(asset, {c}) <=> \E i \in 1 .. n : p = << c, i >>
  BY <1>1 DEF Tokens, n
<1>3. f \in [1 .. n -> Tokens(asset, {c})]
  BY <1>2
<1>4. f \in Bijection(1 .. n, Tokens(asset, {c}))
  BY <1>2, <1>3 DEF Bijection, Injection, Surjection, IsInjective
<1>5. ExistsBijection(1 .. n, Tokens(asset, {c}))
  BY <1>4, Zenon DEF ExistsBijection
<1>6. IsFiniteSet(1 .. n) /\ Cardinality(1 .. n) = n
  <2>1. n \in Int /\ 1 \in Int
    BY <1>1
  <2>2. IsFiniteSet(1 .. n) /\ Cardinality(1 .. n) = IF 1 > n THEN 0 ELSE n - 1 + 1
    BY <2>1, FS_Interval, Zenon
  <2> QED BY <1>1, <2>2
<1> QED BY <1>5, <1>6, FS_Bijection DEF n

LEMMA TokensSplit ==
    ASSUME NEW asset, NEW S, NEW T, S \cap T = {},
           IsFiniteSet(Tokens(asset, S)), IsFiniteSet(Tokens(asset, T))
    PROVE  /\ IsFiniteSet(Tokens(asset, S \cup T))
           /\ Cardinality(Tokens(asset, S \cup T))
                = Cardinality(Tokens(asset, S)) + Cardinality(Tokens(asset, T))
<1>1. Tokens(asset, S \cup T) = Tokens(asset, S) \cup Tokens(asset, T)
  BY DEF Tokens
<1>2. Tokens(asset, S) \cap Tokens(asset, T) = {}
  BY DEF Tokens
<1>3. Cardinality(Tokens(asset, S)) \in Nat /\ Cardinality(Tokens(asset, T)) \in Nat
  BY FS_CardinalityType
<1> DEFINE A == Tokens(asset, S)
           B == Tokens(asset, T)
<1> HIDE DEF A, B
<1>4. IsFiniteSet(A \cup B) /\ Cardinality(A \cup B) = Cardinality(A) + Cardinality(B) - Cardinality(A \cap B)
  <2>1. IsFiniteSet(A) /\ IsFiniteSet(B)
    BY DEF A, B
  <2> QED BY <2>1, FS_Union, Zenon
<1>5. Cardinality(A \cap B) = 0
  BY <1>2, FS_EmptySet, Zenon DEF A, B
<1>6. Cardinality(A \cup B) = Cardinality(A) + Cardinality(B)
  BY <1>3, <1>4, <1>5 DEF A, B
<1> QED BY <1>1, <1>4, <1>6 DEF A, B

LEMMA TokensFinite == \A asset : \A S \in SUBSET Card : IsFiniteSet(S) => IsFiniteSet(Tokens(asset, S))
<1> SUFFICES ASSUME NEW asset, NEW S \in SUBSET Card, IsFiniteSet(S)
             PROVE  IsFiniteSet(Tokens(asset, S))
  OBVIOUS
<1>1. IsFiniteSet(S \X (1 .. 20))
  <2>1. IsFiniteSet(1 .. 20)
    <3>1. 1 \in Int /\ 20 \in Int
      OBVIOUS
    <3> QED BY <3>1, FS_Interval, Zenon
  <2> QED BY <2>1, FS_Product, Zenon
<1>2. Tokens(asset, S) \in SUBSET (S \X (1 .. 20))
  BY DEF Tokens
<1> QED BY <1>1, <1>2, FS_Subset

(* The order in which the cards are added does not matter: the sum is the   *)
(* number of tokens.                                                        *)
LEMMA PointsAreTokens ==
    ASSUME NEW asset, NEW T \in SUBSET Card, IsFiniteSet(T)
    PROVE  Points(asset, T) = Cardinality(Tokens(asset, T))
<1> DEFINE g == [s \in SUBSET T |-> Cardinality(Tokens(asset, s))]
<1>1. \A s \in SUBSET T : s # {} =>
          /\ AnyOf(s) \in s
          /\ s \ {AnyOf(s)} \in SUBSET T
          /\ g[s] = CardDefToScore(asset, AnyOf(s)) + g[s \ {AnyOf(s)}]
  <2> SUFFICES ASSUME NEW s \in SUBSET T, s # {}
               PROVE  /\ AnyOf(s) \in s
                      /\ s \ {AnyOf(s)} \in SUBSET T
                      /\ g[s] = CardDefToScore(asset, AnyOf(s)) + g[s \ {AnyOf(s)}]
    OBVIOUS
  <2>1. PICK x \in s : x = AnyOf(s)
    BY DEF AnyOf
  <2>2. s \ {x} \in SUBSET T /\ s \ {x} \in SUBSET Card /\ s = {x} \cup (s \ {x}) /\ x \in Card
    BY DEF Card
  <2>3. IsFiniteSet(s \ {x})
    BY <2>2, FS_Subset
  <2>4. Cardinality(Tokens(asset, {x} \cup (s \ {x})))
          = Cardinality(Tokens(asset, {x})) + Cardinality(Tokens(asset, s \ {x}))
    <3>1. {x} \cap (s \ {x}) = {}
      OBVIOUS
    <3> QED BY <2>2, <2>3, <3>1, TokensSplit, TokensOfOne, TokensFinite
  <2>5. g[s] = CardDefToScore(asset, x) + g[s \ {x}]
    BY <2>2, <2>4, TokensOfOne
  <2> HIDE DEF g
  <2> QED BY <2>1, <2>2, <2>5
<1>2. g[{}] = 0
  <2>1. Tokens(asset, {}) = {}
    BY DEF Tokens
  <2> QED BY <2>1, FS_EmptySet
<1>3. Adds(asset, T, g)
  <2> DEFINE e(s) == IF s = {} THEN 0 ELSE CardDefToScore(asset, AnyOf(s)) + g[s \ {AnyOf(s)}]
  <2>1. \A s \in SUBSET T : g[s] = e(s)
    <3> HIDE DEF g
    <3> QED BY <1>1, <1>2
  <2>2. g = [s \in SUBSET T |-> g[s]]
    OBVIOUS
  <2> HIDE DEF g
  <2>3. g = [s \in SUBSET T |-> e(s)]
    BY <2>1, <2>2
  <2> QED BY <2>3, Zenon DEF Adds
<1>4. ASSUME NEW f, Adds(asset, T, f) PROVE f[T] = g[T]
  <2> DEFINE wrong == {s \in SUBSET T : f[s] # g[s]}
             size == [s \in wrong |-> Cardinality(s)]
  <2>1. \A s \in SUBSET T : IsFiniteSet(s) /\ Cardinality(s) \in Nat
    BY FS_Subset, FS_CardinalityType
  <2>2. \A s \in SUBSET T :
            f[s] = IF s = {} THEN 0 ELSE CardDefToScore(asset, AnyOf(s)) + f[s \ {AnyOf(s)}]
    <3> HIDE DEF g
    <3>1. f = [s \in SUBSET T |-> IF s = {} THEN 0
                            ELSE CardDefToScore(asset, AnyOf(s)) + f[s \ {AnyOf(s)}]]
      BY <1>4, Zenon DEF Adds
    <3> QED BY <3>1, Zenon
  <2> HIDE DEF g
  <2>3. ASSUME wrong # {} PROVE FALSE
    <3>1. size \in [wrong -> Nat]
      BY <2>1
    <3>2. PICK s \in wrong : \A t \in wrong : size[s] <= size[t]
      <4> HIDE DEF wrong, size
      <4> QED BY <2>3, <3>1, Least, Zenon
    <3>3. s # {}
      BY <1>2, <2>2
    <3>4. /\ AnyOf(s) \in s /\ s \ {AnyOf(s)} \in SUBSET T
          /\ Cardinality(s \ {AnyOf(s)}) = Cardinality(s) - 1
      BY <1>1, <2>1, <3>3, FS_RemoveElement
    <3>5. s \ {AnyOf(s)} \notin wrong
      <4>1. Cardinality(s) \in Nat
        BY <2>1
      <4> SUFFICES ASSUME s \ {AnyOf(s)} \in wrong PROVE FALSE
        OBVIOUS
      <4>2. size[s] <= size[s \ {AnyOf(s)}]
        BY <3>2
      <4>3. size[s] = Cardinality(s) /\ size[s \ {AnyOf(s)}] = Cardinality(s) - 1
        BY <3>4
      <4> HIDE DEF size, wrong
      <4> QED BY <4>1, <4>2, <4>3
    <3>6. s \in SUBSET T /\ f[s] # g[s] /\ f[s \ {AnyOf(s)}] = g[s \ {AnyOf(s)}]
      BY <3>4, <3>5
    <3>7. f[s] = CardDefToScore(asset, AnyOf(s)) + f[s \ {AnyOf(s)}]
      BY <2>2, <3>3, <3>6, Zenon
    <3>8. g[s] = CardDefToScore(asset, AnyOf(s)) + g[s \ {AnyOf(s)}]
      BY <1>1, <3>3, <3>6, Zenon
    <3> QED BY <3>6, <3>7, <3>8
  <2> QED BY <2>3
<1> HIDE DEF g
<1>5. (CHOOSE f : Adds(asset, T, f))[T] = g[T]
  <2>1. Adds(asset, T, CHOOSE f : Adds(asset, T, f))
    BY <1>3, Zenon
  <2> QED BY <1>4, <2>1, Zenon
<1> QED BY <1>5, PointsDef DEF g

LEMMA PointsFacts ==
    ASSUME NEW asset
    PROVE  /\ Points(asset, {}) = 0
           /\ \A S \in SUBSET Card : IsFiniteSet(S) => Points(asset, S) \in Nat
           /\ \A S \in SUBSET Card : \A T \in SUBSET Card :
                 IsFiniteSet(S) /\ IsFiniteSet(T) /\ S \cap T = {}
                   => Points(asset, S \cup T) = Points(asset, S) + Points(asset, T)
           /\ \A S \in SUBSET Card : \A c \in Card :
                 IsFiniteSet(S) /\ c \notin S
                   => Points(asset, S \cup {c}) = Points(asset, S) + CardDefToScore(asset, c)
<1>1. Points(asset, {}) = 0
  <2>1. Tokens(asset, {}) = {}
    BY DEF Tokens
  <2>2. {} \in SUBSET Card /\ IsFiniteSet({})
    BY FS_EmptySet
  <2> QED BY <2>1, <2>2, FS_EmptySet, PointsAreTokens
<1>2. \A S \in SUBSET Card : IsFiniteSet(S) => Points(asset, S) \in Nat
  BY PointsAreTokens, TokensFinite, FS_CardinalityType
<1>3. ASSUME NEW S \in SUBSET Card, NEW T \in SUBSET Card,
             IsFiniteSet(S), IsFiniteSet(T), S \cap T = {}
      PROVE  Points(asset, S \cup T) = Points(asset, S) + Points(asset, T)
  <2>1. S \cup T \in SUBSET Card /\ IsFiniteSet(S \cup T)
    BY <1>3, FS_Union
  <2>2. IsFiniteSet(Tokens(asset, S)) /\ IsFiniteSet(Tokens(asset, T))
    BY <1>3, TokensFinite
  <2>3. Cardinality(Tokens(asset, S \cup T))
          = Cardinality(Tokens(asset, S)) + Cardinality(Tokens(asset, T))
    BY <1>3, <2>2, TokensSplit, Zenon
  <2> QED BY <1>3, <2>1, <2>3, PointsAreTokens
<1>4. ASSUME NEW S \in SUBSET Card, NEW c \in Card, IsFiniteSet(S), c \notin S
      PROVE  Points(asset, S \cup {c}) = Points(asset, S) + CardDefToScore(asset, c)
  <2>1. {c} \in SUBSET Card /\ IsFiniteSet({c}) /\ S \cap {c} = {}
    BY <1>4, FS_Singleton
  <2>2. Points(asset, {c}) = CardDefToScore(asset, c)
    BY <2>1, PointsAreTokens, TokensOfOne
  <2>3. Points(asset, S \cup {c}) = Points(asset, S) + Points(asset, {c})
    BY <1>3, <1>4, <2>1, Zenon
  <2> QED BY <2>2, <2>3, Zenon
<1> QED BY <1>1, <1>2, <1>3, <1>4, Zenon

LEMMA TrickPoints ==
    ASSUME NEW asset, NEW trick \in Seq(Card), Len(trick) = 4,
           \A i, j \in DOMAIN trick : trick[i] = trick[j] => i = j
    PROVE  /\ IsFiniteSet({trick[i] : i \in DOMAIN trick})
           /\ Points(asset, {trick[i] : i \in DOMAIN trick}) = TrickScore(asset, trick)
<1>1. /\ trick[1] \in Card /\ trick[2] \in Card /\ trick[3] \in Card /\ trick[4] \in Card
      /\ trick[1] # trick[2] /\ trick[1] # trick[3] /\ trick[1] # trick[4]
      /\ trick[2] # trick[3] /\ trick[2] # trick[4] /\ trick[3] # trick[4]
      /\ {trick[i] : i \in DOMAIN trick}
           = ((({} \cup {trick[1]}) \cup {trick[2]}) \cup {trick[3]}) \cup {trick[4]}
  <2>1. DOMAIN trick = 1 .. 4
    OBVIOUS
  <2>2. 1 .. 4 = {1, 2, 3, 4}
    OBVIOUS
  <2>3. trick[1] \in Card /\ trick[2] \in Card /\ trick[3] \in Card /\ trick[4] \in Card
    <3>1. \A i \in 1 .. Len(trick) : trick[i] \in Card
      BY ElementOfSeq, Zenon
    <3> QED BY <2>2, <3>1
  <2>4. \A i, j \in {1, 2, 3, 4} : i # j => trick[i] # trick[j]
    BY <2>1, <2>2
  <2>5. {trick[i] : i \in {1, 2, 3, 4}}
          = ((({} \cup {trick[1]}) \cup {trick[2]}) \cup {trick[3]}) \cup {trick[4]}
    OBVIOUS
  <2> QED BY <2>1, <2>2, <2>3, <2>4, <2>5
<1>2. PICK a, b, c, d : a = trick[1] /\ b = trick[2] /\ c = trick[3] /\ d = trick[4]
  OBVIOUS
<1> DEFINE A == {} \cup {a}
           B == A \cup {b}
           C == B \cup {c}
           D == C \cup {d}
<1>3. /\ {} \in SUBSET Card /\ A \in SUBSET Card /\ B \in SUBSET Card /\ C \in SUBSET Card
      /\ a \notin {} /\ b \notin A /\ c \notin B /\ d \notin C
      /\ a \in Card /\ b \in Card /\ c \in Card /\ d \in Card
  BY <1>1, <1>2
<1>4. IsFiniteSet({}) /\ IsFiniteSet(A) /\ IsFiniteSet(B) /\ IsFiniteSet(C) /\ IsFiniteSet(D)
  BY FS_EmptySet, FS_AddElement
<1>5. /\ Points(asset, A) = Points(asset, {}) + CardDefToScore(asset, a)
      /\ Points(asset, B) = Points(asset, A) + CardDefToScore(asset, b)
      /\ Points(asset, C) = Points(asset, B) + CardDefToScore(asset, c)
      /\ Points(asset, D) = Points(asset, C) + CardDefToScore(asset, d)
  <2> HIDE DEF A, B, C, D
  <2>1. Points(asset, {} \cup {a}) = Points(asset, {}) + CardDefToScore(asset, a)
    BY <1>3, <1>4, PointsFacts, Zenon
  <2>2. Points(asset, A \cup {b}) = Points(asset, A) + CardDefToScore(asset, b)
    BY <1>3, <1>4, PointsFacts, Zenon
  <2>3. Points(asset, B \cup {c}) = Points(asset, B) + CardDefToScore(asset, c)
    BY <1>3, <1>4, PointsFacts, Zenon
  <2>4. Points(asset, C \cup {d}) = Points(asset, C) + CardDefToScore(asset, d)
    BY <1>3, <1>4, PointsFacts, Zenon
  <2> QED BY <2>1, <2>2, <2>3, <2>4, Zenon DEF A, B, C, D
<1>6. {trick[i] : i \in DOMAIN trick} = D
  BY <1>1, <1>2, Zenon
<1>7. Points(asset, D) = TrickScore(asset, trick)
  <2>1. /\ CardDefToScore(asset, a) \in Nat /\ CardDefToScore(asset, b) \in Nat
        /\ CardDefToScore(asset, c) \in Nat /\ CardDefToScore(asset, d) \in Nat
    BY <1>3, CardScore
  <2>2. Points(asset, {}) = 0
    BY PointsFacts
  <2>3. TrickScore(asset, trick) = CardDefToScore(asset, a) + CardDefToScore(asset, b)
                                     + CardDefToScore(asset, c) + CardDefToScore(asset, d)
    BY <1>2 DEF TrickScore
  <2> HIDE DEF A, B, C, D
  <2> QED BY <1>5, <2>1, <2>2, <2>3
<1> QED BY <1>4, <1>6, <1>7, Zenon

Suit(colour) == {[colour |-> colour, value |-> v] : v \in AllValues}

LEMMA SuitPoints ==
    ASSUME NEW asset, NEW colour \in AllColours
    PROVE  /\ Suit(colour) \in SUBSET Card /\ IsFiniteSet(Suit(colour))
           /\ Points(asset, Suit(colour)) = IF colour = asset THEN 62 ELSE 30
<1> DEFINE card(v) == [colour |-> colour, value |-> v]
           A == {} \cup {card("7")}
           B == A \cup {card("8")}
           C == B \cup {card("9")}
           D == C \cup {card("10")}
           E == D \cup {card("J")}
           F == E \cup {card("Q")}
           G == F \cup {card("K")}
           H == G \cup {card("1")}
<1>1. /\ card("7") \in Card /\ card("8") \in Card /\ card("9") \in Card /\ card("10") \in Card
      /\ card("J") \in Card /\ card("Q") \in Card /\ card("K") \in Card /\ card("1") \in Card
  BY DEF Card, AllValues
<1>2. \A v, w : card(v) = card(w) => v = w
  <2> SUFFICES ASSUME NEW v, NEW w, card(v) = card(w) PROVE v = w
    OBVIOUS
  <2>1. card(v).value = card(w).value
    BY Zenon
  <2> QED BY <2>1
<1>3. /\ CardDefToScore(asset, card("7"))  = 0
      /\ CardDefToScore(asset, card("8"))  = 0
      /\ CardDefToScore(asset, card("9"))  = IF colour = asset THEN 14 ELSE 0
      /\ CardDefToScore(asset, card("10")) = 10
      /\ CardDefToScore(asset, card("J"))  = IF colour = asset THEN 20 ELSE 2
      /\ CardDefToScore(asset, card("Q"))  = 3
      /\ CardDefToScore(asset, card("K"))  = 4
      /\ CardDefToScore(asset, card("1"))  = 11
  BY DEF CardDefToScore, AllValues, NormalScores, AssetScores
<1>4. Suit(colour) = H
  BY DEF Suit, AllValues
<1> HIDE DEF card
<1>5. /\ card("8") \notin A /\ card("9") \notin B /\ card("10") \notin C /\ card("J") \notin D
      /\ card("Q") \notin E /\ card("K") \notin F /\ card("1") \notin G
  BY <1>2
<1>6. /\ A \in SUBSET Card /\ B \in SUBSET Card /\ C \in SUBSET Card /\ D \in SUBSET Card
      /\ E \in SUBSET Card /\ F \in SUBSET Card /\ G \in SUBSET Card /\ H \in SUBSET Card
  BY <1>1
<1>7. /\ IsFiniteSet(A) /\ IsFiniteSet(B) /\ IsFiniteSet(C) /\ IsFiniteSet(D)
      /\ IsFiniteSet(E) /\ IsFiniteSet(F) /\ IsFiniteSet(G) /\ IsFiniteSet(H)
  BY FS_EmptySet, FS_AddElement
<1>8. \A S \in SUBSET Card : \A c \in Card :
          IsFiniteSet(S) /\ c \notin S
            => Points(asset, S \cup {c}) = Points(asset, S) + CardDefToScore(asset, c)
  BY PointsFacts, Zenon
<1>9. /\ Points(asset, A) = CardDefToScore(asset, card("7"))
      /\ Points(asset, B) = Points(asset, A) + CardDefToScore(asset, card("8"))
      /\ Points(asset, C) = Points(asset, B) + CardDefToScore(asset, card("9"))
      /\ Points(asset, D) = Points(asset, C) + CardDefToScore(asset, card("10"))
      /\ Points(asset, E) = Points(asset, D) + CardDefToScore(asset, card("J"))
      /\ Points(asset, F) = Points(asset, E) + CardDefToScore(asset, card("Q"))
      /\ Points(asset, G) = Points(asset, F) + CardDefToScore(asset, card("K"))
      /\ Points(asset, H) = Points(asset, G) + CardDefToScore(asset, card("1"))
  <2>1. Points(asset, A) = CardDefToScore(asset, card("7"))
    <3>1. {} \in SUBSET Card /\ IsFiniteSet({}) /\ card("7") \notin {} /\ Points(asset, {}) = 0
      BY FS_EmptySet, PointsFacts
    <3>2. Points(asset, A) = Points(asset, {}) + CardDefToScore(asset, card("7"))
      BY <1>1, <1>8, <3>1, Zenon
    <3> QED BY <1>3, <3>1, <3>2
  <2>2. Points(asset, B) = Points(asset, A) + CardDefToScore(asset, card("8"))
    <3> HIDE DEF A
    <3> QED BY <1>1, <1>5, <1>6, <1>7, <1>8, Zenon
  <2>3. Points(asset, C) = Points(asset, B) + CardDefToScore(asset, card("9"))
    <3> HIDE DEF B
    <3> QED BY <1>1, <1>5, <1>6, <1>7, <1>8, Zenon
  <2>4. Points(asset, D) = Points(asset, C) + CardDefToScore(asset, card("10"))
    <3> HIDE DEF C
    <3> QED BY <1>1, <1>5, <1>6, <1>7, <1>8, Zenon
  <2>5. Points(asset, E) = Points(asset, D) + CardDefToScore(asset, card("J"))
    <3> HIDE DEF D
    <3> QED BY <1>1, <1>5, <1>6, <1>7, <1>8, Zenon
  <2>6. Points(asset, F) = Points(asset, E) + CardDefToScore(asset, card("Q"))
    <3> HIDE DEF E
    <3> QED BY <1>1, <1>5, <1>6, <1>7, <1>8, Zenon
  <2>7. Points(asset, G) = Points(asset, F) + CardDefToScore(asset, card("K"))
    <3> HIDE DEF F
    <3> QED BY <1>1, <1>5, <1>6, <1>7, <1>8, Zenon
  <2>8. Points(asset, H) = Points(asset, G) + CardDefToScore(asset, card("1"))
    <3> HIDE DEF G
    <3> QED BY <1>1, <1>5, <1>6, <1>7, <1>8, Zenon
  <2> HIDE DEF A, B, C, D, E, F, G, H
  <2> QED BY <2>1, <2>2, <2>3, <2>4, <2>5, <2>6, <2>7, <2>8, Zenon
<1> HIDE DEF A, B, C, D, E, F, G, H
<1>10. Points(asset, H) = IF colour = asset THEN 62 ELSE 30
  BY <1>3, <1>9
<1> QED BY <1>4, <1>6, <1>7, <1>10, Zenon

(* The thirty-two cards are worth 152 points, whatever the asset: with the  *)
(* ten of the last trick, the 162 of the code.                              *)
THEOREM RealPackPoints ==
    ASSUME Colours = AllColours, Values = AllValues, NEW asset \in Colours
    PROVE  Points(asset, Pack) = 152
<1>1. \A one, other \in AllColours : one # other => Suit(one) \cap Suit(other) = {}
  BY DEF Suit
<1>2. Pack = ((Suit("H") \cup Suit("S")) \cup Suit("D")) \cup Suit("C")
  <2>1. \A c \in Pack : c \in Suit(c.colour) /\ c.colour \in {"H", "S", "D", "C"}
    BY DEF Pack, Suit, AllColours
  <2>2. \A colour \in AllColours : Suit(colour) \subseteq Pack
    BY DEF Pack, Suit
  <2>3. /\ "H" \in AllColours /\ "S" \in AllColours /\ "D" \in AllColours /\ "C" \in AllColours
    BY DEF AllColours
  <2> QED BY <2>1, <2>2, <2>3
<1>3. /\ "H" \in AllColours /\ "S" \in AllColours /\ "D" \in AllColours /\ "C" \in AllColours
      /\ (asset = "H" \/ asset = "S" \/ asset = "D" \/ asset = "C")
  BY DEF AllColours
<1> DEFINE H == Suit("H")
           S == Suit("S")
           D == Suit("D")
           C == Suit("C")
<1>4. /\ H \in SUBSET Card /\ S \in SUBSET Card /\ D \in SUBSET Card /\ C \in SUBSET Card
      /\ IsFiniteSet(H) /\ IsFiniteSet(S) /\ IsFiniteSet(D) /\ IsFiniteSet(C)
      /\ Points(asset, H) = IF "H" = asset THEN 62 ELSE 30
      /\ Points(asset, S) = IF "S" = asset THEN 62 ELSE 30
      /\ Points(asset, D) = IF "D" = asset THEN 62 ELSE 30
      /\ Points(asset, C) = IF "C" = asset THEN 62 ELSE 30
  BY <1>3, SuitPoints
<1>5. H \cap S = {} /\ (H \cup S) \cap D = {} /\ ((H \cup S) \cup D) \cap C = {}
  BY <1>1, <1>3
<1>6. Pack = ((H \cup S) \cup D) \cup C
  BY <1>2
<1> HIDE DEF H, S, D, C
<1>7. /\ H \cup S \in SUBSET Card /\ (H \cup S) \cup D \in SUBSET Card
      /\ IsFiniteSet(H \cup S) /\ IsFiniteSet((H \cup S) \cup D)
  BY <1>4, FS_Union
<1>8. \A A \in SUBSET Card : \A B \in SUBSET Card :
          IsFiniteSet(A) /\ IsFiniteSet(B) /\ A \cap B = {}
            => Points(asset, A \cup B) = Points(asset, A) + Points(asset, B)
  BY PointsFacts, Zenon
<1>9. /\ Points(asset, H \cup S) = Points(asset, H) + Points(asset, S)
      /\ Points(asset, (H \cup S) \cup D) = Points(asset, H \cup S) + Points(asset, D)
      /\ Points(asset, ((H \cup S) \cup D) \cup C) = Points(asset, (H \cup S) \cup D) + Points(asset, C)
  BY <1>4, <1>5, <1>7, <1>8, Zenon
<1> QED BY <1>3, <1>4, <1>6, <1>9
=============================================================================
