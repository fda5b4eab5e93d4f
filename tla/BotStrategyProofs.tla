------------------------- MODULE BotStrategyProofs -------------------------
(***************************************************************************)
(* The bot answers with a card it was offered, keeps its assets behind its *)
(* partner's master card, and records the cards that have gone: for every  *)
(* pack, size of the hands, seat, asset and memory of the round before.    *)
(*                                                                         *)
(* The bot's memory of the table is tied to the server's trick by the      *)
(* distance of a seat to the next player; that the bot has a card left     *)
(* when it is asked is a count of the cards that have gone.                *)
(***************************************************************************)
EXTENDS BotStrategy, BeloteRulesProofs, FiniteSetTheorems, WellFoundedInduction

Rank(pos) == (pos - turn) % 4

HasPlayed(pos) == Rank(pos) >= 4 - Len(trick)

OnTable == {trick[i] : i \in DOMAIN trick}

TypeInv == /\ hand \subseteq Pack /\ gone \subseteq Pack
           /\ trick \in Seq(Pack) /\ Len(trick) <= 4
           /\ turn \in Positions /\ announced \in BOOLEAN
           /\ m_Asset \in Assets

HandInv == m_MyHand = hand /\ m_CardsRemainingInHand = Cardinality(hand)

TableInv ==
    /\ announced =>
         /\ m_FirstCardThisTurn = IF trick = << >> THEN NoCard ELSE trick[1]
         /\ m_CurrentTurnCards =
              [pos \in Positions |-> IF HasPlayed(pos) THEN trick[(Rank(pos) + Len(trick)) - 3] ELSE NoCard]
    /\ ~announced => trick = << >>

ApartInv == /\ \A i, j \in DOMAIN trick : i # j => trick[i] # trick[j]
            /\ hand \cap OnTable = {} /\ gone \cap OnTable = {} /\ gone \cap hand = {}

PlayedNow == IF HasPlayed(m_MySeat) THEN 1 ELSE 0

CountInv == /\ Cardinality(gone) = 4 * ((HandSize - Cardinality(hand)) - PlayedNow)
            /\ announced => Cardinality(gone) < 4 * HandSize

Unrecorded == IF announced THEN {} ELSE Cards(m_CurrentTurnCards)

RecordInv == \E left \in LastTricks : m_PlayedCards \cup Unrecorded = gone \cup Cards(left)

BotInv == TypeInv /\ HandInv /\ TableInv /\ ApartInv /\ CountInv /\ RecordInv

----------------------------------------------------------------------------
(* Finite sets of cards and of indices.                                     *)
LEMMA Greatest ==
    ASSUME NEW S, S # {}, NEW N \in Nat, NEW f \in [S -> 0 .. N]
    PROVE  \E x \in S : \A y \in S : f[y] <= f[x]
<1> DEFINE g == [x \in S |-> N - f[x]]
<1>1. g \in [S -> Nat]
  OBVIOUS
<1>2. PICK x \in S : \A y \in S : g[x] <= g[y]
  <2> HIDE DEF g
  <2> QED BY <1>1, Least, Zenon
<1>3. \A y \in S : f[y] <= f[x]
  <2> SUFFICES ASSUME NEW y \in S PROVE f[y] <= f[x]
    OBVIOUS
  <2>1. f[x] \in 0 .. N /\ f[y] \in 0 .. N /\ N - f[x] <= N - f[y]
    BY <1>2
  <2> QED BY <2>1
<1> QED BY <1>3

LEMMA LeastIndex ==
    ASSUME NEW S \in SUBSET (1 .. 4), S # {}
    PROVE  /\ \E i \in S : \A j \in S : i <= j
           /\ \E i \in S : \A j \in S : j <= i
<1> DEFINE f == [i \in S |-> i]
<1>1. f \in [S -> Nat] /\ f \in [S -> 0 .. 4]
  OBVIOUS
<1>2. \E i \in S : \A j \in S : f[i] <= f[j]
  BY <1>1, Least
<1>3. \E i \in S : \A j \in S : f[j] <= f[i]
  BY <1>1, Greatest
<1> QED BY <1>2, <1>3

----------------------------------------------------------------------------
(* What the bot chooses from a set of cards.                                *)
LEMMA CardIndexType ==
    ASSUME NEW asset, NEW card
    PROVE  GetCardIndex(asset, card) \in 0 .. Cardinality(Values)
<1> DEFINE below == {v \in Values :
                (IF card.colour = asset THEN ValueOrderAtAsset ELSE ValueOrder)[v]
                    < (IF card.colour = asset THEN ValueOrderAtAsset ELSE ValueOrder)[card.value]}
<1>1. below \subseteq Values /\ IsFiniteSet(Values)
  BY FinitePack
<1>2. GetCardIndex(asset, card) = Cardinality(below)
  BY Zenon DEF GetCardIndex
<1> HIDE DEF below
<1>3. Cardinality(below) \in Nat /\ Cardinality(Values) \in Nat /\ Cardinality(below) <= Cardinality(Values)
  BY <1>1, FS_Subset, FS_CardinalityType
<1> QED BY <1>2, <1>3

LEMMA ExtremeCards ==
    ASSUME NEW cards, NEW colour
    PROVE  /\ OfColour(cards, colour) = {} =>
                /\ GetStrongestCardForColour(colour, cards) = NoCard
                /\ GetWeakestCardForColour(colour, cards) = NoCard
           /\ OfColour(cards, colour) # {} =>
                /\ GetStrongestCardForColour(colour, cards) \in OfColour(cards, colour)
                /\ GetWeakestCardForColour(colour, cards) \in OfColour(cards, colour)
<1> DEFINE S == OfColour(cards, colour)
           N == Cardinality(Values)
           f == [c \in S |-> GetCardIndex(m_Asset, c)]
<1>1. CASE S = {}
  BY <1>1, Zenon DEF GetStrongestCardForColour, GetWeakestCardForColour
<1>2. CASE S # {}
  <2>1. N \in Nat
    BY FinitePack, FS_CardinalityType
  <2>2. \A n : n \in 0 .. N => n \in Nat
    BY <2>1
  <2>3. f \in [S -> 0 .. N]
    <3> HIDE DEF N, S
    <3>1. \A c \in S : GetCardIndex(m_Asset, c) \in 0 .. N
      BY CardIndexType DEF N
    <3> QED BY <3>1
  <2>4. f \in [S -> Nat]
    <3> HIDE DEF f, N, S
    <3> QED BY <2>2, <2>3
  <2>5. (\E x \in S : \A y \in S : f[x] <= f[y]) /\ (\E x \in S : \A y \in S : f[y] <= f[x])
    <3> HIDE DEF f, N, S
    <3> QED BY <1>2, <2>1, <2>3, <2>4, Least, Greatest
  <2>6. \E c \in S : \A d \in S : GetCardIndex(m_Asset, c) <= GetCardIndex(m_Asset, d)
    BY <2>5, Zenon
  <2>7. \E c \in S : \A d \in S : GetCardIndex(m_Asset, d) <= GetCardIndex(m_Asset, c)
    BY <2>5, Zenon
  <2> DEFINE Weak(c)   == \A d \in S : GetCardIndex(m_Asset, c) <= GetCardIndex(m_Asset, d)
             Strong(c) == \A d \in S : GetCardIndex(m_Asset, d) <= GetCardIndex(m_Asset, c)
  <2>8. (CHOOSE c \in S : Weak(c)) \in S
    BY <2>6, Zenon
  <2>9. (CHOOSE c \in S : Strong(c)) \in S
    BY <2>7, Zenon
  <2>10. GetWeakestCardForColour(colour, cards) = CHOOSE c \in S : Weak(c)
    BY <1>2, Zenon DEF GetWeakestCardForColour
  <2>11. GetStrongestCardForColour(colour, cards) = CHOOSE c \in S : Strong(c)
    BY <1>2, Zenon DEF GetStrongestCardForColour
  <2> HIDE DEF Weak, Strong
  <2> QED BY <1>2, <2>8, <2>9, <2>10, <2>11, Zenon
<1> QED BY <1>1, <1>2, Zenon

(* One weakest card for each of the colours that has one.                   *)
LEMMA WeakestCards ==
    ASSUME NEW colours, NEW cards \in SUBSET Card
    PROVE  LET S == {c \in cards : c.colour \in colours}
           IN  Weakest(colours, cards) \in Seq(S) /\ (S # {} => Weakest(colours, cards) # << >>)
<1> DEFINE S == {c \in cards : c.colour \in colours}
           None(i) == ColourPreffixes[i] \notin colours \/ OfColour(cards, ColourPreffixes[i]) = {}
           Step(w, i) == IF None(i) THEN w[i - 1]
                         ELSE Append(w[i - 1], GetWeakestCardForColour(ColourPreffixes[i], cards))
           Body(w) == [i \in 0 .. 4 |-> IF i = 0 THEN << >> ELSE Step(w, i)]
           w == CHOOSE v : v = Body(v)
<1>1. Weakest(colours, cards) = w[4]
  BY Zenon DEF Weakest
<1>2. w = Body(w)
  <2> DEFINE Next1(s, i) == IF None(i) THEN s
                            ELSE Append(s, GetWeakestCardForColour(ColourPreffixes[i], cards))
             s1 == Next1(<< >>, 1)
             s2 == Next1(s1, 2)
             s3 == Next1(s2, 3)
             s4 == Next1(s3, 4)
             v == [i \in 0 .. 4 |-> IF i = 0 THEN << >> ELSE IF i = 1 THEN s1 ELSE IF i = 2 THEN s2
                                    ELSE IF i = 3 THEN s3 ELSE s4]
  <2> HIDE DEF None
  <2>1. v[0] = << >> /\ v[1] = s1 /\ v[2] = s2 /\ v[3] = s3 /\ v[4] = s4
    <3> HIDE DEF s1, s2, s3, s4
    <3> QED OBVIOUS
  <2>2. s1 = Step(v, 1) /\ s2 = Step(v, 2) /\ s3 = Step(v, 3) /\ s4 = Step(v, 4)
    <3> HIDE DEF v
    <3>1. v[1 - 1] = << >> /\ v[2 - 1] = s1 /\ v[3 - 1] = s2 /\ v[4 - 1] = s3
      <4>1. 1 - 1 = 0 /\ 2 - 1 = 1 /\ 3 - 1 = 2 /\ 4 - 1 = 3
        OBVIOUS
      <4> HIDE DEF s1, s2, s3, s4
      <4> QED BY <2>1, <4>1, Zenon
    <3> QED BY <3>1, Zenon
  <2>3. v = Body(v)
    <3> SUFFICES ASSUME NEW i \in 0 .. 4 PROVE v[i] = IF i = 0 THEN << >> ELSE Step(v, i)
      <4> HIDE DEF s1, s2, s3, s4, Step
      <4> QED OBVIOUS
    <3>1. i = 0 \/ i = 1 \/ i = 2 \/ i = 3 \/ i = 4
      OBVIOUS
    <3> HIDE DEF v, s1, s2, s3, s4, Step
    <3> QED BY <2>1, <2>2, <3>1
  <2> HIDE DEF v, Body
  <2> QED BY <2>3, Zenon
<1> HIDE DEF w
<1>3. w[0] = << >> /\ \A i \in 1 .. 4 : w[i] = Step(w, i)
  <2>1. \A i \in 0 .. 4 : w[i] = IF i = 0 THEN << >> ELSE Step(w, i)
    <3> HIDE DEF Step
    <3>1. \A i \in 0 .. 4 : Body(w)[i] = IF i = 0 THEN << >> ELSE Step(w, i)
      BY Zenon
    <3> HIDE DEF Body
    <3> QED BY <1>2, <3>1
  <2> HIDE DEF Step
  <2> QED BY <2>1
<1>4. ASSUME NEW i \in 1 .. 4, w[i - 1] \in Seq(S)
      PROVE  w[i] \in Seq(S) /\ (w[i] = << >> => None(i) /\ w[i - 1] = << >>)
  <2>1. CASE None(i)
    BY <1>3, <1>4, <2>1
  <2>2. CASE ~None(i)
    <3> DEFINE c == GetWeakestCardForColour(ColourPreffixes[i], cards)
    <3>1. c \in S
      <4>1. c \in OfColour(cards, ColourPreffixes[i])
        BY <2>2, ExtremeCards, Zenon
      <4> QED BY <2>2, <4>1 DEF OfColour
    <3>2. w[i] = Append(w[i - 1], c)
      BY <1>3, <2>2
    <3> HIDE DEF c, S, None, Step
    <3>3. w[i - 1] \in Seq(S)
      BY <1>4
    <3>4. Append(w[i - 1], c) \in Seq(S) /\ Append(w[i - 1], c) # << >>
      <4> DEFINE q == w[i - 1]
      <4>1. q \in Seq(S)
        BY <3>3
      <4> HIDE DEF q
      <4>2. Append(q, c) \in Seq(S) /\ Append(q, c) # << >>
        BY <3>1, <4>1, AppendProperties
      <4> QED BY <4>2 DEF q
    <3> QED BY <3>2, <3>4, Zenon
  <2> QED BY <2>1, <2>2
<1>5. /\ w[4] \in Seq(S)
      /\ w[4] = << >> => None(1) /\ None(2) /\ None(3) /\ None(4)
  <2> HIDE DEF None, S, Step
  <2>1. w[0] \in Seq(S)
    BY <1>3, EmptySeq
  <2>2. w[1] \in Seq(S) /\ (w[1] = << >> => None(1) /\ w[0] = << >>)
    <3>1. 1 \in 1 .. 4 /\ 1 - 1 = 0
      OBVIOUS
    <3> QED BY <1>4, <2>1, <3>1
  <2>3. w[2] \in Seq(S) /\ (w[2] = << >> => None(2) /\ w[1] = << >>)
    <3>1. 2 \in 1 .. 4 /\ 2 - 1 = 1
      OBVIOUS
    <3> QED BY <1>4, <2>2, <3>1
  <2>4. w[3] \in Seq(S) /\ (w[3] = << >> => None(3) /\ w[2] = << >>)
    <3>1. 3 \in 1 .. 4 /\ 3 - 1 = 2
      OBVIOUS
    <3> QED BY <1>4, <2>3, <3>1
  <2>5. w[4] \in Seq(S) /\ (w[4] = << >> => None(4) /\ w[3] = << >>)
    <3>1. 4 \in 1 .. 4 /\ 4 - 1 = 3
      OBVIOUS
    <3> QED BY <1>4, <2>4, <3>1
  <2> QED BY <2>2, <2>3, <2>4, <2>5, Zenon
<1>6. ASSUME None(1), None(2), None(3), None(4) PROVE S = {}
  <2> SUFFICES ASSUME NEW c \in S PROVE FALSE
    OBVIOUS
  <2>1. c.colour \in {"H", "S", "D", "C"} /\ c.colour \in colours
    BY DEF Card, AllColours
  <2>2. ColourPreffixes[1] = "H" /\ ColourPreffixes[2] = "S" /\ ColourPreffixes[3] = "D"
        /\ ColourPreffixes[4] = "C"
    BY DEF ColourPreffixes
  <2>3. c \in OfColour(cards, c.colour)
    BY DEF OfColour
  <2> QED BY <1>6, <2>1, <2>2, <2>3
<1> HIDE DEF S, None
<1>7. w[4] \in Seq(S) /\ (S # {} => w[4] # << >>)
  BY <1>5, <1>6, Zenon
<1> QED BY <1>1, <1>7 DEF S

(* The card that is sent is one of those that were compared.                *)
LEMMA CheapestIsOne ==
    ASSUME NEW S, NEW cards \in Seq(S), cards # << >>
    PROVE  CheaperThanFirst(cards) \in S
<1> DEFINE cheaper == {i \in DOMAIN cards : CardDefToScore(m_Asset, cards[i]) < CardDefToScore(m_Asset, cards[1])}
           Last(i) == \A j \in cheaper : j <= i
           k == CHOOSE i \in cheaper : Last(i)
<1>1. Len(cards) \in Nat /\ DOMAIN cards = 1 .. Len(cards) /\ Len(cards) # 0
      /\ \A i \in 1 .. Len(cards) : cards[i] \in S
  OBVIOUS
<1>2. CASE cheaper = {}
  <2>1. CheaperThanFirst(cards) = cards[1]
    BY <1>2, Zenon DEF CheaperThanFirst
  <2> QED BY <1>1, <2>1
<1>3. CASE cheaper # {}
  <2>1. CheaperThanFirst(cards) = cards[k]
    BY <1>3, Zenon DEF CheaperThanFirst
  <2>2. cheaper \subseteq 1 .. Len(cards)
    BY <1>1
  <2>3. \E i \in cheaper : Last(i)
    <3> HIDE DEF cheaper
    <3> DEFINE f == [i \in cheaper |-> i]
    <3>1. f \in [cheaper -> 0 .. Len(cards)]
      BY <1>1, <2>2
    <3>2. \E i \in cheaper : \A j \in cheaper : f[j] <= f[i]
      <4> HIDE DEF f
      <4> QED BY <1>1, <1>3, <3>1, Greatest
    <3> QED BY <3>2
  <2>4. k \in cheaper
    <3> HIDE DEF Last, cheaper
    <3> QED BY <2>3, Zenon
  <2> HIDE DEF k, cheaper
  <2> QED BY <1>1, <2>1, <2>2, <2>4
<1> QED BY <1>2, <1>3

(* m_CardsRemainingInHand tells whether the hand is made of assets.         *)
LEMMA AllAssets ==
    ASSUME m_MyHand \in SUBSET Pack, m_CardsRemainingInHand = Cardinality(m_MyHand)
    PROVE  /\ m_CardsRemainingInHand = AssetsInHand <=> OfColour(m_MyHand, m_Asset) = m_MyHand
           /\ AssetsInHand \in Nat
           /\ AssetsInHand > 0 => OfColour(m_MyHand, m_Asset) # {}
<1> DEFINE assets == OfColour(m_MyHand, m_Asset)
<1>1. IsFiniteSet(m_MyHand)
  BY FinitePack, FS_Subset
<1>2. assets \in SUBSET m_MyHand
  BY DEF OfColour
<1>3. AssetsInHand = Cardinality(assets)
  BY DEF AssetsInHand, CountCardsForColour
<1> HIDE DEF assets
<1>4. IsFiniteSet(assets) /\ (Cardinality(m_MyHand) = Cardinality(assets) => m_MyHand = assets)
  BY <1>1, <1>2, FS_Subset
<1>5. Cardinality(assets) \in Nat /\ (Cardinality(assets) > 0 => assets # {})
  BY <1>4, FS_CardinalityType, FS_EmptySet
<1> QED BY <1>3, <1>4, <1>5, Zenon DEF assets

(* A hand that is not empty and not kept for its assets has a card of       *)
(* another colour.                                                          *)
LEMMA OtherColour ==
    ASSUME NEW cards \in SUBSET Card, OfColour(cards, m_Asset) # cards
    PROVE  {c \in cards : c.colour \in NormalColours} # {}
<1>1. PICK c \in cards : c.colour # m_Asset
  BY DEF OfColour
<1>2. c.colour \in NormalColours
  BY <1>1 DEF NormalColours, Card
<1> QED BY <1>1, <1>2

LEMMA OpenerIsInHand ==
    ASSUME m_MyHand \in SUBSET Pack, m_MyHand # {},
           m_CardsRemainingInHand = Cardinality(m_MyHand)
    PROVE  GetBestOpener \in m_MyHand
<1> DEFINE Strongest(i) == GetStrongestCardForColour(ColourPreffixes[i], m_MyHand)
           strongest == GetStrongestCardForColour(m_Asset, m_MyHand)
           normal    == {i \in 1 .. 4 : ColourPreffixes[i] \in NormalColours}
           owners    == {i \in normal : Strongest(i) # NoCard /\ IsCardOwningTurn(Strongest(i))}
           last      == CHOOSE i \in normal : \A j \in normal : j <= i
           first     == CHOOSE i \in owners : \A j \in owners : i <= j
           weakest   == Weakest(NormalColours, m_MyHand)
           S         == {c \in m_MyHand : c.colour \in NormalColours}
<1>1. m_MyHand \in SUBSET Card
  BY FinitePack
<1>2. \A colour : OfColour(m_MyHand, colour) \subseteq m_MyHand
  BY DEF OfColour
<1>3. CASE ShouldPlayAsset
  <2>1. OfColour(m_MyHand, m_Asset) # {}
    BY <1>3, AllAssets DEF ShouldPlayAsset
  <2>2. strongest \in m_MyHand /\ GetWeakestCardForColour(m_Asset, m_MyHand) \in m_MyHand
    BY <1>2, <2>1, ExtremeCards, Zenon
  <2>3. GetBestOpener = IF IsCardOwningTurn(strongest) THEN strongest
                        ELSE GetWeakestCardForColour(m_Asset, m_MyHand)
    BY <1>3, Zenon DEF GetBestOpener
  <2> HIDE DEF strongest
  <2> QED BY <2>2, <2>3, Zenon
<1>4. CASE ~ShouldPlayAsset /\ owners # {}
  <2>1. GetBestOpener = Strongest(first)
    BY <1>4, Zenon DEF GetBestOpener
  <2>2. owners \in SUBSET (1 .. 4)
    OBVIOUS
  <2>3. \E i \in owners : \A j \in owners : i <= j
    <3> HIDE DEF owners
    <3> QED BY <1>4, <2>2, LeastIndex
  <2>4. first \in owners
    <3> DEFINE Q(i) == \A j \in owners : i <= j
    <3>1. \E i \in owners : Q(i)
      BY <2>3, Zenon
    <3>2. first = CHOOSE i \in owners : Q(i)
      BY Zenon
    <3> HIDE DEF owners, first, Q
    <3> QED BY <3>1, <3>2, Zenon
  <2> HIDE DEF first
  <2>5. Strongest(first) # NoCard
    BY <2>4, Zenon
  <2>6. Strongest(first) \in m_MyHand
    BY <1>2, <2>5, ExtremeCards, Zenon
  <2> QED BY <2>1, <2>6, Zenon
<1>5. CASE ~ShouldPlayAsset /\ owners = {}
  <2>1. GetBestOpener = IF Strongest(last) = NoCard THEN CheaperThanFirst(weakest) ELSE weakest[Len(weakest)]
    BY <1>5, Zenon DEF GetBestOpener
  <2>2. weakest \in Seq(S) /\ (S # {} => weakest # << >>)
    BY <1>1, WeakestCards, Zenon
  <2>3. S # {}
    <3>1. OfColour(m_MyHand, m_Asset) # m_MyHand
      BY <1>5, AllAssets DEF ShouldPlayAsset
    <3> QED BY <1>1, <3>1, OtherColour
  <2>4. S \subseteq m_MyHand
    OBVIOUS
  <2> HIDE DEF weakest, S
  <2>5. CheaperThanFirst(weakest) \in S
    BY <2>2, <2>3, CheapestIsOne, Zenon
  <2>6. weakest[Len(weakest)] \in S
    BY <2>2, <2>3
  <2> HIDE DEF last
  <2> QED BY <2>1, <2>4, <2>5, <2>6, Zenon
<1> QED BY <1>3, <1>4, <1>5, Zenon

----------------------------------------------------------------------------
(* The answer, in a state of the invariant.                                 *)
LEMMA SeatFacts ==
    /\ Positions = {0, 1, 2, 3} /\ m_MySeat \in {0, 1, 2, 3} /\ m_PartnerSeat \in Positions
    /\ \A p, q \in {0, 1, 2, 3} : (p - q) % 4 \in {0, 1, 2, 3} /\ (p - p) % 4 = 0
    /\ (m_PartnerSeat - m_MySeat) % 4 = 2
    /\ \A q, r \in {0, 1, 2, 3} : \E p \in {0, 1, 2, 3} : (p - q) % 4 = r
<1>1. Positions = {0, 1, 2, 3} /\ m_MySeat \in {0, 1, 2, 3}
  BY BotAssumption DEF Positions, South, East
<1>2. \A p, q \in {0, 1, 2, 3} : (p - q) % 4 \in {0, 1, 2, 3} /\ (p - p) % 4 = 0
  OBVIOUS
<1>3. m_PartnerSeat \in Positions /\ (m_PartnerSeat - m_MySeat) % 4 = 2
  BY <1>1 DEF m_PartnerSeat
<1>4. \A q, r \in {0, 1, 2, 3} : \E p \in {0, 1, 2, 3} : (p - q) % 4 = r
  <2> SUFFICES ASSUME NEW q \in {0, 1, 2, 3}, NEW r \in {0, 1, 2, 3}
               PROVE  \E p \in {0, 1, 2, 3} : (p - q) % 4 = r
    OBVIOUS
  <2>1. (q + r) % 4 \in {0, 1, 2, 3} /\ (((q + r) % 4) - q) % 4 = r
    OBVIOUS
  <2> QED BY <2>1
<1> QED BY <1>1, <1>2, <1>3, <1>4

LEMMA TrickFacts ==
    ASSUME TypeInv, ApartInv
    PROVE  /\ Trick(trick) /\ Len(trick) \in 0 .. 4 /\ DOMAIN trick = 1 .. Len(trick)
           /\ \A i \in 1 .. Len(trick) : trick[i] \in Card /\ trick[i] # NoCard
           /\ trick # << >> => Len(trick) \in 1 .. 4
           /\ hand \in SUBSET Card
<1>1. trick \in Seq(Card) /\ Len(trick) \in Nat /\ DOMAIN trick = 1 .. Len(trick)
      /\ \A i \in 1 .. Len(trick) : trick[i] \in Card
  <2>1. trick \in Seq(Pack) /\ Pack \subseteq Card
    BY FinitePack DEF TypeInv
  <2> QED BY <2>1
<1>2. \A i \in 1 .. Len(trick) : trick[i] # NoCard
  BY <1>1, BotAssumption
<1>3. trick # << >> => Len(trick) # 0
  BY <1>1
<1> QED BY <1>1, <1>2, <1>3, FinitePack DEF TypeInv, ApartInv, Trick

(* A bot that is asked has a card: the cards that have gone are counted.    *)
LEMMA AskedHasCard ==
    ASSUME BotInv, IsAsked
    PROVE  /\ ~HasPlayed(m_MySeat) /\ Rank(m_MySeat) = 0
           /\ hand # {} /\ hand \in SUBSET Pack /\ IsFiniteSet(hand)
           /\ Offered \subseteq hand /\ Offered # {}
<1>1. Rank(m_MySeat) = 0
  BY SeatFacts DEF Rank, IsAsked
<1>2. ~HasPlayed(m_MySeat)
  <2>1. Len(trick) \in 0 .. 4
    BY TrickFacts DEF BotInv
  <2> QED BY <1>1, <2>1 DEF HasPlayed, IsAsked
<1>3. hand \in SUBSET Pack /\ IsFiniteSet(hand)
  BY FinitePack, FS_Subset DEF BotInv, TypeInv
<1>4. hand # {}
  <2> SUFFICES ASSUME hand = {} PROVE FALSE
    OBVIOUS
  <2>1. Cardinality(hand) = 0
    BY FS_EmptySet
  <2>2. PlayedNow = 0
    BY <1>2 DEF PlayedNow
  <2>3. Cardinality(gone) = 4 * HandSize /\ Cardinality(gone) < 4 * HandSize /\ HandSize \in Nat
    BY <2>1, <2>2, BotAssumption DEF BotInv, CountInv, IsAsked
  <2> QED BY <2>3
<1> QED BY <1>1, <1>2, <1>3, <1>4, PlayableInHand DEF Offered

LEMMA BackIndex == \A n \in 1 .. 4 : \A i \in 1 .. n : (i + 3) - n \in {0, 1, 2, 3}
OBVIOUS

(* What the bot sees of the table when it is asked.                         *)
LEMMA TableSeen ==
    ASSUME BotInv, IsAsked, trick # << >>
    PROVE  /\ m_FirstCardThisTurn = trick[1] /\ m_FirstCardThisTurn # NoCard
           /\ IsPartnerOwningTurn <=>
                /\ Len(trick) >= 2
                /\ \A i \in DOMAIN trick :
                      PlayedScore(m_Asset, trick, i) <= PlayedScore(m_Asset, trick, Len(trick) - 1)
<1> DEFINE n == Len(trick)
           seen(pos) == m_CurrentTurnCards[pos]
<1>1. n \in 1 .. 4 /\ n < 4 /\ DOMAIN trick = 1 .. n
      /\ \A i \in 1 .. n : trick[i] \in Card /\ trick[i] # NoCard
  BY TrickFacts DEF BotInv, IsAsked
<1>2. m_FirstCardThisTurn = trick[1] /\ m_FirstCardThisTurn # NoCard
  <2>1. m_FirstCardThisTurn = trick[1]
    BY DEF BotInv, TableInv, IsAsked
  <2> QED BY <1>1, <2>1
<1>3. \A pos \in Positions : Rank(pos) \in {0, 1, 2, 3}
  BY SeatFacts DEF Rank, BotInv, TypeInv
<1>4. \A pos \in Positions :
        seen(pos) = IF HasPlayed(pos) THEN trick[(Rank(pos) + n) - 3] ELSE NoCard
  BY DEF BotInv, TableInv, IsAsked
<1>5. \A i \in 1 .. n : \E pos \in Positions : seen(pos) = trick[i]
  <2> SUFFICES ASSUME NEW i \in 1 .. n PROVE \E pos \in Positions : seen(pos) = trick[i]
    OBVIOUS
  <2>1. (i + 3) - n \in {0, 1, 2, 3}
    BY <1>1, BackIndex, Zenon
  <2>2. PICK pos \in Positions : Rank(pos) = (i + 3) - n
    BY <2>1, SeatFacts DEF Rank, BotInv, TypeInv
  <2>3. HasPlayed(pos) /\ (Rank(pos) + n) - 3 = i
    BY <1>1, <2>2 DEF HasPlayed
  <2> QED BY <1>4, <2>2, <2>3
<1>6. \A pos \in Positions : seen(pos) # NoCard => \E i \in 1 .. n : seen(pos) = trick[i]
  <2> SUFFICES ASSUME NEW pos \in Positions, seen(pos) # NoCard
               PROVE  \E i \in 1 .. n : seen(pos) = trick[i]
    OBVIOUS
  <2>1. HasPlayed(pos) /\ seen(pos) = trick[(Rank(pos) + n) - 3]
    BY <1>4
  <2>2. (Rank(pos) + n) - 3 \in 1 .. n
    BY <1>1, <1>3, <2>1 DEF HasPlayed
  <2> QED BY <2>1, <2>2
<1>7. \A i \in 1 .. n : /\ Value(trick[i]) = PlayedScore(m_Asset, trick, i)
                        /\ PlayedScore(m_Asset, trick, i) \in 0 .. 108
  BY <1>1, <1>2, CardValue DEF Value, PlayedScore
<1>8. Value(NoCard) = 0
  BY DEF Value
<1>9. seen(m_PartnerSeat) # NoCard <=> n >= 2
  <2>1. Rank(m_PartnerSeat) = 2 /\ m_PartnerSeat \in Positions
    BY SeatFacts DEF Rank, IsAsked
  <2>2. HasPlayed(m_PartnerSeat) <=> n >= 2
    BY <1>1, <2>1 DEF HasPlayed
  <2>3. n >= 2 => (2 + n) - 3 \in 1 .. n
    BY <1>1
  <2> QED BY <1>1, <1>4, <2>1, <2>2, <2>3
<1>10. n >= 2 => seen(m_PartnerSeat) = trick[n - 1] /\ n - 1 \in 1 .. n
  <2>1. Rank(m_PartnerSeat) = 2 /\ m_PartnerSeat \in Positions
    BY SeatFacts DEF Rank, IsAsked
  <2>2. n >= 2 => HasPlayed(m_PartnerSeat) /\ (2 + n) - 3 = n - 1 /\ n - 1 \in 1 .. n
    BY <1>1, <2>1 DEF HasPlayed
  <2> QED BY <1>4, <2>1, <2>2
<1>11. IsPartnerOwningTurn <=>
          seen(m_PartnerSeat) # NoCard /\ \A pos \in Positions : Value(seen(pos)) <= Value(seen(m_PartnerSeat))
  BY Zenon DEF IsPartnerOwningTurn
<1>12. ASSUME n >= 2
       PROVE  (\A pos \in Positions : Value(seen(pos)) <= Value(seen(m_PartnerSeat)))
                <=> \A i \in 1 .. n : PlayedScore(m_Asset, trick, i) <= PlayedScore(m_Asset, trick, n - 1)
  <2> DEFINE score(i) == PlayedScore(m_Asset, trick, i)
  <2>1. Value(seen(m_PartnerSeat)) = score(n - 1) /\ n - 1 \in 1 .. n /\ 0 <= score(n - 1)
    <3>1. seen(m_PartnerSeat) = trick[n - 1] /\ n - 1 \in 1 .. n
      BY <1>10, <1>12
    <3>2. Value(trick[n - 1]) = score(n - 1) /\ score(n - 1) \in 0 .. 108
      BY <1>7, <3>1, Zenon
    <3>3. \A x \in 0 .. 108 : 0 <= x
      OBVIOUS
    <3> QED BY <3>1, <3>2, <3>3, Zenon
  <2>2. ASSUME \A pos \in Positions : Value(seen(pos)) <= score(n - 1), NEW i \in 1 .. n
        PROVE  score(i) <= score(n - 1)
    <3>1. PICK pos \in Positions : seen(pos) = trick[i]
      BY <1>5
    <3> QED BY <1>7, <2>2, <3>1, Zenon
  <2>3. ASSUME \A i \in 1 .. n : score(i) <= score(n - 1), NEW pos \in Positions
        PROVE  Value(seen(pos)) <= score(n - 1)
    <3> HIDE DEF seen, score, n
    <3>1. CASE seen(pos) = NoCard
      <4>1. Value(seen(pos)) = 0
        BY <1>8, <3>1, Zenon
      <4> QED BY <2>1, <4>1, Zenon
    <3>2. CASE seen(pos) # NoCard
      <4>1. PICK i \in 1 .. n : seen(pos) = trick[i]
        BY <1>6, <3>2
      <4>2. Value(seen(pos)) = score(i)
        BY <1>7, <4>1, Zenon DEF score
      <4> QED BY <2>3, <4>2, Zenon
    <3> QED BY <3>1, <3>2
  <2> QED BY <2>1, <2>2, <2>3, Zenon
<1> QED BY <1>1, <1>2, <1>9, <1>11, <1>12, Zenon

(* Behind its partner's master card a bot that cannot follow is offered its *)
(* whole hand.                                                              *)
LEMMA ExcusedHand ==
    ASSUME BotInv, IsAsked, trick # << >>, IsPartnerOwningTurn, OfColour(Offered, trick[1].colour) = {}
    PROVE  Offered = hand
<1> DEFINE requested == trick[1].colour
<1>1. Trick(trick) /\ hand \in SUBSET Card /\ DOMAIN trick = 1 .. Len(trick) /\ Len(trick) \in 0 .. 4
  BY TrickFacts DEF BotInv
<1>2. ~PlayerMustCut(m_Asset, trick)
  <2>1. Len(trick) >= 2 /\ \A i \in DOMAIN trick :
            PlayedScore(m_Asset, trick, i) <= PlayedScore(m_Asset, trick, Len(trick) - 1)
    BY TableSeen
  <2> DEFINE score(i) == PlayedScore(m_Asset, trick, i)
  <2>2. \A i \in DOMAIN trick : score(i) \in 0 .. 108
    <3>1. \A i \in DOMAIN trick : trick[i] \in Card
      BY <1>1 DEF Trick
    <3> QED BY <3>1, CardValue DEF PlayedScore
  <2>3. Len(trick) - 1 \in DOMAIN trick
    BY <1>1, <2>1
  <2>4. \A i \in DOMAIN trick : ~(score(i) > score(Len(trick) - 1))
    <3> HIDE DEF score
    <3>1. \A i \in DOMAIN trick : score(i) <= score(Len(trick) - 1)
      BY <2>1, Zenon DEF score
    <3> QED BY <2>2, <2>3, <3>1, Exceeds, Zenon
  <2>5. Len(trick) # 1
    BY <2>1
  <2> QED BY <2>4, <2>5, Zenon DEF PlayerMustCut
<1> DEFINE offered == Playable(hand, m_Asset, trick)
<1>7. Offered = offered
  BY Zenon DEF Offered
<1>3. CASE requested = m_Asset /\ OfColour(hand, m_Asset) # {}
  <2>1. Offered = AssetsToPlay(hand, m_Asset, trick)
    <3>1. offered = AssetsToPlay(hand, m_Asset, trick)
      BY <1>3, PlayableCases
    <3> QED BY <1>7, <3>1
  <2>2. Offered = RequiredAssets(hand, m_Asset, trick)
    BY <1>1, <1>3, <2>1, AssetsRequired
  <2>3. \A c \in RequiredAssets(hand, m_Asset, trick) : c.colour = m_Asset
    BY DEF RequiredAssets
  <2>4. OfColour(Offered, requested) = Offered
    BY <1>3, <2>2, <2>3 DEF OfColour
  <2> QED BY <2>4, AskedHasCard
<1>4. CASE requested # m_Asset /\ OfColour(hand, requested) # {}
  <2>1. Offered = OfColour(hand, requested)
    BY <1>4, <1>7, PlayableCases
  <2>2. OfColour(Offered, requested) = Offered
    BY <2>1 DEF OfColour
  <2> QED BY <2>2, AskedHasCard
<1>5. CASE requested # m_Asset /\ OfColour(hand, requested) = {}
  BY <1>2, <1>5, <1>7, PlayableCases
<1>6. CASE requested = m_Asset /\ OfColour(hand, m_Asset) = {}
  BY <1>6, <1>7, PlayableCases
<1> QED BY <1>3, <1>4, <1>5, <1>6, Zenon

LEMMA DiscardIsOffered ==
    ASSUME BotInv, IsAsked, trick # << >>, OfColour(Offered, trick[1].colour) = {}
    PROVE  /\ Discard(Offered) \in Offered
           /\ IsPartnerOwningTurn /\ OfColour(hand, m_Asset) # hand => Discard(Offered).colour # m_Asset
<1>1. /\ Offered \in SUBSET Card /\ Offered # {} /\ hand \in SUBSET Pack
      /\ m_MyHand = hand /\ m_CardsRemainingInHand = Cardinality(hand)
  BY AskedHasCard, FinitePack DEF BotInv, HandInv
<1>2. m_CardsRemainingInHand = AssetsInHand <=> OfColour(hand, m_Asset) = hand
  BY <1>1, AllAssets
<1>3. ASSUME NEW colours, {c \in Offered : c.colour \in colours} # {}
      PROVE  CheaperThanFirst(Weakest(colours, Offered)) \in {c \in Offered : c.colour \in colours}
  <2> DEFINE S == {c \in Offered : c.colour \in colours}
  <2>1. Weakest(colours, Offered) \in Seq(S) /\ Weakest(colours, Offered) # << >>
    BY <1>1, <1>3, WeakestCards, Zenon
  <2> HIDE DEF S
  <2>2. CheaperThanFirst(Weakest(colours, Offered)) \in S
    BY <2>1, CheapestIsOne, Zenon
  <2> QED BY <2>2 DEF S
<1>4. CASE IsPartnerOwningTurn /\ m_CardsRemainingInHand # AssetsInHand
  <2>1. Discard(Offered) = CheaperThanFirst(Weakest(NormalColours, Offered))
    BY <1>4, Zenon DEF Discard
  <2>2. Offered = hand /\ OfColour(hand, m_Asset) # hand
    BY <1>2, <1>4, ExcusedHand
  <2>3. {c \in Offered : c.colour \in NormalColours} # {}
    BY <1>1, <2>2, OtherColour
  <2>4. Discard(Offered) \in {c \in Offered : c.colour \in NormalColours}
    BY <1>3, <2>1, <2>3
  <2> QED BY <2>4 DEF NormalColours
<1>5. CASE ~(IsPartnerOwningTurn /\ m_CardsRemainingInHand # AssetsInHand)
  <2>1. Discard(Offered) = CheaperThanFirst(Weakest(AllColours, Offered))
    BY <1>5, Zenon DEF Discard
  <2>2. {c \in Offered : c.colour \in AllColours} # {}
    BY <1>1 DEF Card
  <2>3. Discard(Offered) \in {c \in Offered : c.colour \in AllColours}
    BY <1>3, <2>1, <2>2
  <2> QED BY <1>2, <1>5, <2>3
<1> QED BY <1>4, <1>5

LEMMA AnswerInv ==
    ASSUME BotInv
    PROVE  AnswerIsOffered
<1> SUFFICES ASSUME IsAsked PROVE CardToPlay(Offered) \in Offered
  BY DEF AnswerIsOffered
<1>1. /\ hand \in SUBSET Pack /\ hand # {} /\ m_MyHand = hand /\ m_CardsRemainingInHand = Cardinality(hand)
  BY AskedHasCard DEF BotInv, HandInv
<1>2. CASE trick = << >>
  <2>1. m_FirstCardThisTurn = NoCard
    BY <1>2 DEF BotInv, TableInv, IsAsked
  <2>2. CardToPlay(Offered) = GetBestOpener
    BY <2>1, Zenon DEF CardToPlay
  <2>3. Offered = hand
    BY <1>2, Zenon DEF Offered, Playable
  <2> QED BY <1>1, <2>2, <2>3, OpenerIsInHand
<1>3. CASE trick # << >>
  <2> DEFINE requested == trick[1].colour
             strongest == GetStrongestCardForColour(requested, Offered)
  <2>1. m_FirstCardThisTurn = trick[1] /\ m_FirstCardThisTurn # NoCard
    BY <1>3, TableSeen
  <2>2. /\ strongest = NoCard => CardToPlay(Offered) = Discard(Offered)
        /\ strongest # NoCard => \/ CardToPlay(Offered) = strongest
                                \/ CardToPlay(Offered) = GetWeakestCardForColour(requested, Offered)
    BY <2>1, Zenon DEF CardToPlay
  <2>3. OfColour(Offered, requested) \subseteq Offered /\ NoCard \notin Offered
    BY <1>1, AskedHasCard, FinitePack, BotAssumption DEF OfColour
  <2>4. CASE OfColour(Offered, requested) = {}
    <3>1. strongest = NoCard
      BY <2>4, ExtremeCards, Zenon
    <3> QED BY <1>3, <2>2, <2>4, <3>1, DiscardIsOffered
  <2>5. CASE OfColour(Offered, requested) # {}
    <3>1. strongest \in Offered /\ GetWeakestCardForColour(requested, Offered) \in Offered
      BY <2>3, <2>5, ExtremeCards, Zenon
    <3> QED BY <2>2, <2>3, <3>1, Zenon
  <2> QED BY <2>4, <2>5
<1> QED BY <1>2, <1>3

LEMMA NoCutInv ==
    ASSUME BotInv
    PROVE  PartnerIsNotCut
<1> SUFFICES ASSUME IsAsked, Len(trick) >= 2,
                    \A i \in DOMAIN trick :
                       PlayedScore(m_Asset, trick, i) <= PlayedScore(m_Asset, trick, Len(trick) - 1),
                    OfColour(hand, trick[1].colour) = {}, OfColour(hand, m_Asset) # hand
             PROVE  CardToPlay(Offered) \notin OfColour(hand, m_Asset)
  BY Zenon DEF PartnerIsNotCut
<1>1. trick # << >>
  <2>1. trick = << >> => Len(trick) = 0
    OBVIOUS
  <2> QED BY <2>1
<1>2. m_FirstCardThisTurn = trick[1] /\ m_FirstCardThisTurn # NoCard /\ IsPartnerOwningTurn
  BY <1>1, TableSeen
<1>3. OfColour(Offered, trick[1].colour) = {}
  BY AskedHasCard DEF OfColour
<1>4. GetStrongestCardForColour(trick[1].colour, Offered) = NoCard
  BY <1>3, ExtremeCards, Zenon
<1>5. CardToPlay(Offered) = Discard(Offered)
  BY <1>2, <1>4, Zenon DEF CardToPlay
<1>6. Discard(Offered).colour # m_Asset
  BY <1>1, <1>2, <1>3, DiscardIsOffered
<1> QED BY <1>5, <1>6 DEF OfColour

LEMMA RecordIsExactInv ==
    ASSUME BotInv
    PROVE  RecordIsExact
<1> SUFFICES ASSUME announced PROVE \E left \in LastTricks : m_PlayedCards = gone \cup Cards(left)
  BY DEF RecordIsExact
<1>1. Unrecorded = {}
  BY DEF Unrecorded
<1>2. \E left \in LastTricks : m_PlayedCards \cup Unrecorded = gone \cup Cards(left)
  BY DEF BotInv, RecordInv
<1> QED BY <1>1, <1>2

----------------------------------------------------------------------------
(* The invariant.                                                           *)
LEMMA NobodyHasPlayed ==
    ASSUME turn \in Positions, trick = << >>
    PROVE  \A pos \in Positions : ~HasPlayed(pos)
<1>1. Len(trick) = 0
  OBVIOUS
<1>2. \A pos \in Positions : Rank(pos) \in {0, 1, 2, 3}
  BY SeatFacts DEF Rank
<1> QED BY <1>1, <1>2 DEF HasPlayed

LEMMA InitInv == Init => BotInv
<1> SUFFICES ASSUME Init PROVE BotInv
  OBVIOUS
<1>1. TypeInv
  <2>1. trick = << >> /\ Len(trick) = 0 /\ trick \in Seq(Pack)
    BY DEF Init
  <2>2. hand \subseteq Pack /\ gone \subseteq Pack
    BY DEF Init
  <2>3. turn \in Positions /\ m_Asset \in Assets /\ announced \in BOOLEAN
    BY DEF Init
  <2>4. Len(trick) <= 4
    BY <2>1
  <2> QED BY <2>1, <2>2, <2>3, <2>4, Zenon DEF TypeInv
<1>2. HandInv
  BY DEF Init, HandInv
<1>3. TableInv
  BY DEF Init, TableInv
<1>4. ApartInv
  BY DEF Init, ApartInv, OnTable
<1>5. CountInv
  <2>1. ~HasPlayed(m_MySeat)
    BY NobodyHasPlayed, SeatFacts DEF Init
  <2>2. Cardinality(gone) = 0 /\ Cardinality(hand) = HandSize /\ PlayedNow = 0 /\ ~announced
    BY <2>1, FS_EmptySet DEF Init, PlayedNow
  <2> QED BY <2>2, BotAssumption DEF CountInv
<1>6. RecordInv
  <2>1. Unrecorded = Cards(m_CurrentTurnCards)
    BY DEF Unrecorded, Init
  <2> QED BY <2>1 DEF Init, RecordInv
<1> QED BY <1>1, <1>2, <1>3, <1>4, <1>5, <1>6 DEF BotInv

LEMMA StartTurnInv ==
    ASSUME BotInv, StartTurn
    PROVE  BotInv'
<1>1. /\ hand' = hand /\ trick' = trick /\ turn' = turn /\ gone' = gone /\ announced' = TRUE /\ ~announced
      /\ m_MyHand' = m_MyHand /\ m_Asset' = m_Asset /\ m_CardsRemainingInHand' = m_CardsRemainingInHand
      /\ m_FirstCardThisTurn' = NoCard /\ m_CurrentTurnCards' = NoTurnCards
      /\ m_PlayedCards' = m_PlayedCards \cup Cards(m_CurrentTurnCards)
      /\ Cardinality(gone) < 4 * HandSize
  BY DEF StartTurn, OnTurnStarting
<1>2. TypeInv' /\ HandInv' /\ ApartInv'
  BY <1>1 DEF BotInv, TypeInv, HandInv, ApartInv, OnTable
<1>3. trick = << >> /\ turn \in Positions
  BY <1>1 DEF BotInv, TableInv, TypeInv
<1>4. TableInv'
  <2>1. \A pos \in Positions : ~HasPlayed(pos)
    BY <1>3, NobodyHasPlayed
  <2>2. \A pos : HasPlayed(pos)' = HasPlayed(pos)
    BY <1>1 DEF HasPlayed, Rank
  <2>3. \A pos \in Positions : ~HasPlayed(pos)'
    BY <2>1, <2>2
  <2>4. m_CurrentTurnCards' = [pos \in Positions |->
            IF HasPlayed(pos)' THEN trick'[(Rank(pos)' + Len(trick')) - 3] ELSE NoCard]
    BY <1>1, <2>3 DEF NoTurnCards
  <2> QED BY <1>1, <1>3, <2>4 DEF TableInv
<1>5. CountInv'
  <2>1. PlayedNow' = PlayedNow
    BY <1>1 DEF PlayedNow, HasPlayed, Rank
  <2> QED BY <1>1, <2>1 DEF BotInv, CountInv
<1>6. RecordInv'
  <2>1. Unrecorded' = {} /\ Unrecorded = Cards(m_CurrentTurnCards)
    BY <1>1 DEF Unrecorded
  <2>2. PICK left \in LastTricks : m_PlayedCards \cup Unrecorded = gone \cup Cards(left)
    BY DEF BotInv, RecordInv
  <2>3. m_PlayedCards' \cup Unrecorded' = gone' \cup Cards(left)
    BY <1>1, <2>1, <2>2, Zenon
  <2>4. Cards(left)' = Cards(left)
    BY DEF Cards
  <2> QED BY <2>2, <2>3, <2>4 DEF RecordInv
<1> QED BY <1>2, <1>4, <1>5, <1>6 DEF BotInv

(* One more card on the table: the seat that has played is the farthest     *)
(* from the next one, and every other one comes one nearer.                 *)
LEMMA SeatShift ==
    \A pos, t \in {0, 1, 2, 3} :
       LET u == GetNextPlayer(CW, t)
       IN  /\ u \in {0, 1, 2, 3}
           /\ pos = t => (pos - u) % 4 = 3 /\ (pos - t) % 4 = 0
           /\ pos # t => (pos - u) % 4 = ((pos - t) % 4) - 1
BY DEF GetNextPlayer, CW, East, South

LEMMA CardIsPlayed ==
    ASSUME BotInv, announced, Len(trick) < 4, NEW card \in Pack, card \notin OnTable, Plays(card)
    PROVE  /\ trick' \in Seq(Pack) /\ Len(trick') = Len(trick) + 1 /\ turn' \in Positions
           /\ OnTable' = OnTable \cup {card}
           /\ \A i, j \in DOMAIN trick' : i # j => trick'[i] # trick'[j]
           /\ TableInv' /\ RecordInv' /\ m_Asset' = m_Asset
           /\ HasPlayed(m_MySeat)' <=> HasPlayed(m_MySeat) \/ turn = m_MySeat
           /\ turn = m_MySeat => ~HasPlayed(m_MySeat)
<1> DEFINE n == Len(trick)
<1>1. /\ trick' = Append(trick, card) /\ turn' = GetNextPlayer(CW, turn)
      /\ gone' = gone /\ announced' = announced /\ m_PlayedCards' = m_PlayedCards
      /\ m_CurrentTurnCards' = [m_CurrentTurnCards EXCEPT ![turn] = card]
      /\ m_FirstCardThisTurn' = (IF m_FirstCardThisTurn = NoCard THEN card ELSE m_FirstCardThisTurn)
      /\ m_Asset' = m_Asset
  BY DEF Plays, OnPlayedCard
<1>2. /\ trick \in Seq(Pack) /\ n \in 0 .. 4 /\ n < 4 /\ DOMAIN trick = 1 .. n
      /\ \A i \in 1 .. n : trick[i] # NoCard
      /\ turn \in {0, 1, 2, 3} /\ card # NoCard
  BY TrickFacts, SeatFacts, FinitePack, BotAssumption DEF BotInv, TypeInv
<1>3. /\ trick' \in Seq(Pack) /\ Len(trick') = n + 1 /\ DOMAIN trick' = 1 .. (n + 1)
      /\ \A i \in 1 .. n : trick'[i] = trick[i]
      /\ trick'[n + 1] = card
  BY <1>1, <1>2
<1>4. n + 1 \in 1 .. (n + 1) /\ \A i \in 1 .. (n + 1) : i \in 1 .. n \/ i = n + 1
  BY <1>2
<1>5. OnTable' = OnTable \cup {card}
  BY <1>2, <1>3, <1>4 DEF OnTable
<1>6. \A i, j \in DOMAIN trick' : i # j => trick'[i] # trick'[j]
  <2>1. \A i \in 1 .. n : trick[i] # card
    BY <1>2 DEF OnTable
  <2>2. \A i, j \in 1 .. n : i # j => trick[i] # trick[j]
    BY <1>2 DEF BotInv, ApartInv
  <2> QED BY <1>3, <1>4, <2>1, <2>2, Zenon
<1>7. turn' \in Positions /\ turn' \in {0, 1, 2, 3}
  BY <1>1, <1>2, SeatShift, SeatFacts
<1>8. \A pos \in {0, 1, 2, 3} : Rank(pos)' = (pos - turn') % 4 /\ HasPlayed(pos)' = (Rank(pos)' >= 4 - (n + 1))
  BY <1>3 DEF Rank, HasPlayed
<1>9. /\ Rank(turn) = 0 /\ ~HasPlayed(turn)
      /\ \A pos \in {0, 1, 2, 3} : Rank(pos) \in {0, 1, 2, 3}
  <2>1. Rank(turn) = 0 /\ \A pos \in {0, 1, 2, 3} : Rank(pos) \in {0, 1, 2, 3}
    BY <1>2, SeatFacts DEF Rank
  <2> QED BY <1>2, <2>1 DEF HasPlayed
<1>10. \A pos \in {0, 1, 2, 3} : (pos = turn => Rank(pos)' = 3) /\ (pos # turn => Rank(pos)' = Rank(pos) - 1)
  BY <1>1, <1>2, <1>8, SeatShift DEF Rank
<1>11. \A pos \in {0, 1, 2, 3} : HasPlayed(pos)' <=> HasPlayed(pos) \/ pos = turn
  <2> SUFFICES ASSUME NEW pos \in {0, 1, 2, 3} PROVE HasPlayed(pos)' <=> HasPlayed(pos) \/ pos = turn
    OBVIOUS
  <2>1. CASE pos = turn
    <3>1. Rank(pos)' = 3
      BY <1>10, <2>1
    <3>2. 3 >= 4 - (n + 1)
      BY <1>2
    <3>3. HasPlayed(pos)'
      BY <1>8, <3>1, <3>2, Zenon
    <3> QED BY <2>1, <3>3, Zenon
  <2>2. CASE pos # turn
    <3>1. PICK r \in {0, 1, 2, 3} : Rank(pos) = r /\ Rank(pos)' = r - 1
      BY <1>9, <1>10, <2>2
    <3>2. HasPlayed(pos)' <=> r - 1 >= 4 - (n + 1)
      BY <1>8, <3>1
    <3>3. HasPlayed(pos) <=> r >= 4 - n
      BY <3>1 DEF HasPlayed
    <3> QED BY <1>2, <2>2, <3>2, <3>3
  <2> QED BY <2>1, <2>2
<1>12. TableInv'
  <2> DEFINE now(pos) == IF HasPlayed(pos) THEN trick[(Rank(pos) + n) - 3] ELSE NoCard
             next(pos) == IF HasPlayed(pos)' THEN trick'[(Rank(pos)' + (n + 1)) - 3] ELSE NoCard
  <2>1. m_CurrentTurnCards = [pos \in Positions |-> now(pos)]
        /\ m_FirstCardThisTurn = IF trick = << >> THEN NoCard ELSE trick[1]
    BY DEF BotInv, TableInv
  <2>2. \A pos \in Positions : next(pos) = IF pos = turn THEN card ELSE now(pos)
    <3> SUFFICES ASSUME NEW pos \in {0, 1, 2, 3}
                 PROVE  next(pos) = IF pos = turn THEN card ELSE now(pos)
      BY SeatFacts
    <3>1. CASE pos = turn
      <4>1. Rank(pos)' = 3 /\ HasPlayed(pos)'
        BY <1>10, <1>11, <3>1
      <4>2. (3 + (n + 1)) - 3 = n + 1
        BY <1>2
      <4> QED BY <1>3, <3>1, <4>1, <4>2
    <3>2. CASE pos # turn
      <4>1. PICK r \in {0, 1, 2, 3} : Rank(pos) = r /\ Rank(pos)' = r - 1
        BY <1>9, <1>10, <3>2
      <4>2. ((r - 1) + (n + 1)) - 3 = (r + n) - 3
        BY <1>2
      <4>3. CASE HasPlayed(pos)
        <5>1. (r + n) - 3 \in 1 .. n
          BY <1>2, <4>1, <4>3 DEF HasPlayed
        <5>2. HasPlayed(pos)'
          BY <1>11, <4>3
        <5>3. next(pos) = trick'[(r + n) - 3] /\ now(pos) = trick[(r + n) - 3]
          BY <4>1, <4>2, <4>3, <5>2, Zenon
        <5> QED BY <1>3, <3>2, <5>1, <5>3, Zenon
      <4>4. CASE ~HasPlayed(pos)
        <5>1. ~HasPlayed(pos)'
          BY <1>11, <3>2, <4>4
        <5> QED BY <3>2, <4>4, <5>1, Zenon
      <4> QED BY <4>3, <4>4
    <3> QED BY <3>1, <3>2
  <2>3. m_CurrentTurnCards' = [pos \in Positions |-> next(pos)]
    <3> HIDE DEF now, next
    <3>1. m_CurrentTurnCards' = [[pos \in Positions |-> now(pos)] EXCEPT ![turn] = card]
      BY <1>1, <2>1, Zenon
    <3> QED BY <2>2, <3>1
  <2>4. m_CurrentTurnCards' =
          [pos \in Positions |-> IF HasPlayed(pos)' THEN trick'[(Rank(pos)' + Len(trick')) - 3] ELSE NoCard]
    BY <1>3, <2>3, Zenon
  <2>5. m_FirstCardThisTurn' = IF trick' = << >> THEN NoCard ELSE trick'[1]
    <3>1. trick' # << >>
      BY <1>1, <1>2
    <3>2. CASE trick = << >>
      <4>1. n = 0
        BY <3>2
      <4> QED BY <1>1, <1>3, <2>1, <3>1, <3>2, <4>1
    <3>3. CASE trick # << >>
      <4>1. 1 \in 1 .. n
        BY <1>2, <3>3
      <4> QED BY <1>1, <1>2, <1>3, <2>1, <3>1, <3>3, <4>1
    <3> QED BY <3>2, <3>3
  <2>6. announced'
    BY <1>1
  <2> QED BY <2>4, <2>5, <2>6, Zenon DEF TableInv
<1>13. RecordInv'
  <2>1. Unrecorded' = {} /\ Unrecorded = {}
    BY <1>1 DEF Unrecorded
  <2>2. PICK left \in LastTricks : m_PlayedCards \cup Unrecorded = gone \cup Cards(left)
    BY DEF BotInv, RecordInv
  <2>3. Cards(left)' = Cards(left)
    BY DEF Cards
  <2> QED BY <1>1, <2>1, <2>2, <2>3 DEF RecordInv
<1>14. (HasPlayed(m_MySeat)' <=> HasPlayed(m_MySeat) \/ turn = m_MySeat)
       /\ (turn = m_MySeat => ~HasPlayed(m_MySeat))
  BY <1>9, <1>11, SeatFacts
<1> QED BY <1>1, <1>3, <1>5, <1>6, <1>7, <1>12, <1>13, <1>14

LEMMA OtherPlaysInv ==
    ASSUME BotInv, NEW card \in Pack, OtherPlays(card)
    PROVE  BotInv'
<1>1. /\ announced /\ Len(trick) < 4 /\ turn # m_MySeat /\ Plays(card) /\ hand' = hand
      /\ card \notin OnTable /\ card \notin hand /\ card \notin gone
  BY DEF OtherPlays, InPlay, OnTable
<1>2. /\ trick' \in Seq(Pack) /\ Len(trick') = Len(trick) + 1 /\ turn' \in Positions
      /\ OnTable' = OnTable \cup {card}
      /\ \A i, j \in DOMAIN trick' : i # j => trick'[i] # trick'[j]
      /\ TableInv' /\ RecordInv' /\ m_Asset' = m_Asset
      /\ (HasPlayed(m_MySeat)' <=> HasPlayed(m_MySeat))
  BY <1>1, CardIsPlayed
<1>3. /\ gone' = gone /\ announced' = announced /\ m_MyHand' = m_MyHand
      /\ m_CardsRemainingInHand' = m_CardsRemainingInHand
  BY <1>1 DEF Plays, OnPlayedCard
<1>4. TypeInv'
  <2>1. Len(trick) \in 0 .. 4
    BY TrickFacts DEF BotInv
  <2> QED BY <1>1, <1>2, <1>3, <2>1 DEF BotInv, TypeInv
<1>5. HandInv'
  BY <1>1, <1>3 DEF BotInv, HandInv
<1>6. ApartInv'
  <2>1. hand \cap OnTable = {} /\ gone \cap OnTable = {} /\ gone \cap hand = {}
    BY DEF BotInv, ApartInv
  <2>2. hand' \cap OnTable' = {} /\ gone' \cap OnTable' = {} /\ gone' \cap hand' = {}
    BY <1>1, <1>2, <1>3, <2>1
  <2> QED BY <1>2, <2>2, Zenon DEF ApartInv
<1>7. CountInv'
  <2>1. PlayedNow' = PlayedNow
    BY <1>2 DEF PlayedNow
  <2> QED BY <1>1, <1>3, <2>1 DEF BotInv, CountInv
<1> QED BY <1>2, <1>4, <1>5, <1>6, <1>7 DEF BotInv

LEMMA BotPlaysInv ==
    ASSUME BotInv, BotPlays
    PROVE  BotInv'
<1>1. IsAsked /\ CardToPlay(Offered) \in Offered
  BY AnswerInv DEF BotPlays, AnswerIsOffered
<1>2. PICK card \in hand : card = CardToPlay(Offered)
  BY <1>1, AskedHasCard
<1>3. /\ announced /\ Len(trick) < 4 /\ turn = m_MySeat /\ Plays(card) /\ hand' = hand \ {card}
  BY <1>1, <1>2, Zenon DEF BotPlays, IsAsked
<1>4. card \in Pack /\ card \notin OnTable /\ card \notin gone
  <2>1. hand \subseteq Pack /\ hand \cap OnTable = {} /\ gone \cap hand = {}
    BY DEF BotInv, TypeInv, ApartInv
  <2> QED BY <1>2, <2>1
<1>5. /\ trick' \in Seq(Pack) /\ Len(trick') = Len(trick) + 1 /\ turn' \in Positions
      /\ OnTable' = OnTable \cup {card}
      /\ \A i, j \in DOMAIN trick' : i # j => trick'[i] # trick'[j]
      /\ TableInv' /\ RecordInv' /\ m_Asset' = m_Asset
      /\ HasPlayed(m_MySeat)' /\ ~HasPlayed(m_MySeat)
  BY <1>3, <1>4, CardIsPlayed
<1>6. /\ gone' = gone /\ announced' = announced /\ m_MyHand' = m_MyHand \ {card}
      /\ m_CardsRemainingInHand' = m_CardsRemainingInHand - 1
  BY <1>3 DEF Plays, OnPlayedCard
<1>7. Cardinality(hand') = Cardinality(hand) - 1 /\ Cardinality(hand) \in Nat
  <2>1. IsFiniteSet(hand)
    BY <1>1, AskedHasCard
  <2> QED BY <1>2, <1>3, <2>1, FS_RemoveElement, FS_CardinalityType
<1>8. TypeInv'
  <2>1. Len(trick) \in 0 .. 4
    BY TrickFacts DEF BotInv
  <2> QED BY <1>3, <1>5, <1>6, <2>1 DEF BotInv, TypeInv
<1>9. HandInv'
  BY <1>3, <1>6, <1>7 DEF BotInv, HandInv
<1>10. ApartInv'
  <2>1. hand \cap OnTable = {} /\ gone \cap OnTable = {} /\ gone \cap hand = {}
    BY DEF BotInv, ApartInv
  <2>2. hand' \cap OnTable' = {} /\ gone' \cap OnTable' = {} /\ gone' \cap hand' = {}
    BY <1>3, <1>4, <1>5, <1>6, <2>1
  <2> QED BY <1>5, <2>2, Zenon DEF ApartInv
<1>11. CountInv'
  <2>1. PlayedNow' = 1 /\ PlayedNow = 0
    BY <1>5 DEF PlayedNow
  <2>2. Cardinality(gone) = 4 * (HandSize - Cardinality(hand))
    BY <1>7, <2>1, BotAssumption DEF BotInv, CountInv
  <2>3. 4 * ((HandSize - Cardinality(hand')) - 1) = 4 * (HandSize - Cardinality(hand))
    BY <1>7, BotAssumption
  <2> QED BY <1>3, <1>6, <2>1, <2>2, <2>3 DEF BotInv, CountInv
<1> QED BY <1>5, <1>8, <1>9, <1>10, <1>11 DEF BotInv

LEMMA OneMore ==
    ASSUME NEW S, IsFiniteSet(S), NEW x, x \notin S
    PROVE  IsFiniteSet(S \cup {x}) /\ Cardinality(S \cup {x}) = Cardinality(S) + 1 /\ Cardinality(S) \in Nat
BY FS_AddElement, FS_CardinalityType

LEMMA FourMore ==
    ASSUME NEW S, IsFiniteSet(S), NEW a, NEW b, NEW c, NEW d,
           a \notin S, b \notin S, c \notin S, d \notin S,
           a # b, a # c, a # d, b # c, b # d, c # d
    PROVE  Cardinality(S \cup {a, b, c, d}) = Cardinality(S) + 4
<1> DEFINE A == S \cup {a}
           B == A \cup {b}
           C == B \cup {c}
           D == C \cup {d}
<1>1. b \notin A /\ c \notin B /\ d \notin C /\ D = S \cup {a, b, c, d}
  OBVIOUS
<1>2. IsFiniteSet(A) /\ Cardinality(A) = Cardinality(S) + 1 /\ Cardinality(S) \in Nat
  BY OneMore
<1>3. IsFiniteSet(B) /\ Cardinality(B) = Cardinality(A) + 1
  <2> HIDE DEF A
  <2> QED BY <1>1, <1>2, OneMore
<1>4. IsFiniteSet(C) /\ Cardinality(C) = Cardinality(B) + 1
  <2> HIDE DEF B
  <2> QED BY <1>1, <1>3, OneMore
<1>5. Cardinality(D) = Cardinality(C) + 1
  <2> HIDE DEF C
  <2> QED BY <1>1, <1>4, OneMore
<1> HIDE DEF A, B, C, D
<1> QED BY <1>1, <1>2, <1>3, <1>4, <1>5

LEMMA TurnEndedInv ==
    ASSUME BotInv, TurnEnded
    PROVE  BotInv'
<1>1. /\ Len(trick) = 4 /\ gone' = gone \cup OnTable /\ trick' = << >> /\ ~announced'
      /\ turn' = GetWinnerPosition(CW, (turn + 3) % 4, WinnerIndex(m_Asset, trick))
      /\ hand' = hand /\ m_MyHand' = m_MyHand /\ m_Asset' = m_Asset
      /\ m_CardsRemainingInHand' = m_CardsRemainingInHand
      /\ m_CurrentTurnCards' = m_CurrentTurnCards /\ m_PlayedCards' = m_PlayedCards
      /\ m_FirstCardThisTurn' = m_FirstCardThisTurn
  BY DEF TurnEnded, OnTable, memoryVars
<1>2. /\ Trick(trick) /\ DOMAIN trick = 1 .. 4 /\ \A i \in 1 .. 4 : trick[i] \in Pack /\ trick[i] # NoCard
  <2>1. \A i \in 1 .. 4 : trick[i] \in Pack
    BY <1>1 DEF BotInv, TypeInv
  <2> QED BY <1>1, <2>1, TrickFacts DEF BotInv
<1>3. announced
  <2>1. ~announced => trick = << >>
    BY DEF BotInv, TableInv
  <2>2. trick = << >> => Len(trick) = 0
    OBVIOUS
  <2> QED BY <1>1, <2>1, <2>2
<1>4. turn \in {0, 1, 2, 3} /\ turn' \in Positions
  <2>1. WinnerIndex(m_Asset, trick) \in 0 .. 3
    BY <1>1, <1>2, WinnerIsLaw
  <2>2. turn \in {0, 1, 2, 3}
    BY SeatFacts DEF BotInv, TypeInv
  <2>3. turn' = (GetNextPlayer(CW, (turn + 3) % 4) + WinnerIndex(m_Asset, trick)) % 4
    BY <1>1 DEF GetWinnerPosition, CW
  <2>4. (turn + 3) % 4 \in {0, 1, 2, 3}
    BY <2>2
  <2>5. GetNextPlayer(CW, (turn + 3) % 4) \in {0, 1, 2, 3}
    BY <2>4, SeatShift
  <2>6. \A a \in {0, 1, 2, 3}, w \in 0 .. 3 : (a + w) % 4 \in {0, 1, 2, 3}
    OBVIOUS
  <2> QED BY <2>1, <2>2, <2>3, <2>5, <2>6, SeatFacts
<1>5. OnTable = {trick[1], trick[2], trick[3], trick[4]}
  <2>1. 1 .. 4 = {1, 2, 3, 4}
    OBVIOUS
  <2> QED BY <1>2, <2>1 DEF OnTable
<1>6. OnTable' = {} /\ Len(trick') = 0 /\ DOMAIN trick' = {}
  BY <1>1 DEF OnTable
<1>7. TypeInv'
  <2>1. gone' \subseteq Pack
    BY <1>1, <1>2, <1>5 DEF BotInv, TypeInv
  <2>2. trick' \in Seq(Pack) /\ Len(trick') <= 4
    BY <1>1, <1>6
  <2>3. hand' \subseteq Pack /\ m_Asset' \in Assets /\ announced' \in BOOLEAN
    BY <1>1 DEF BotInv, TypeInv, TurnEnded
  <2> QED BY <1>4, <2>1, <2>2, <2>3, Zenon DEF TypeInv
<1>8. HandInv'
  BY <1>1 DEF BotInv, HandInv
<1>9. TableInv'
  BY <1>1, Zenon DEF TableInv
<1>10. ApartInv'
  <2>1. hand \cap OnTable = {} /\ gone \cap hand = {}
    BY DEF BotInv, ApartInv
  <2>2. gone' \cap hand' = {}
    BY <1>1, <2>1
  <2> QED BY <1>6, <2>2 DEF ApartInv
<1>11. \A pos \in Positions : Rank(pos) \in {0, 1, 2, 3} /\ HasPlayed(pos)
  <2>1. \A pos \in Positions : Rank(pos) \in {0, 1, 2, 3}
    BY <1>4, SeatFacts DEF Rank
  <2> QED BY <1>1, <2>1 DEF HasPlayed
<1>12. CountInv'
  <2>1. PlayedNow = 1
    BY <1>11, BotAssumption DEF PlayedNow
  <2>2. \A pos \in Positions : ~HasPlayed(pos)'
    <3>1. \A pos \in Positions : Rank(pos)' \in {0, 1, 2, 3}
      BY <1>4, SeatFacts DEF Rank
    <3> QED BY <1>6, <3>1 DEF HasPlayed
  <2>3. PlayedNow' = 0
    BY <2>2, BotAssumption DEF PlayedNow
  <2>4. IsFiniteSet(gone) /\ IsFiniteSet(hand)
    BY FinitePack, FS_Subset DEF BotInv, TypeInv
  <2>5. Cardinality(gone') = Cardinality(gone) + 4
    <3> DEFINE a == trick[1] b == trick[2] c == trick[3] d == trick[4]
    <3>1. \A i, j \in 1 .. 4 : i # j => trick[i] # trick[j]
      BY <1>2 DEF BotInv, ApartInv
    <3>2. a # b /\ a # c /\ a # d /\ b # c /\ b # d /\ c # d
      BY <3>1
    <3>3. a \notin gone /\ b \notin gone /\ c \notin gone /\ d \notin gone
      BY <1>5 DEF BotInv, ApartInv
    <3>4. gone' = gone \cup {a, b, c, d}
      BY <1>1, <1>5
    <3> HIDE DEF a, b, c, d
    <3> QED BY <2>4, <3>2, <3>3, <3>4, FourMore
  <2>6. Cardinality(hand) \in Nat /\ HandSize \in Nat
    BY <2>4, FS_CardinalityType, BotAssumption
  <2>7. Cardinality(gone) = 4 * ((HandSize - Cardinality(hand)) - 1)
    BY <2>1 DEF BotInv, CountInv
  <2>8. Cardinality(gone') = 4 * ((HandSize - Cardinality(hand')) - 0)
    BY <1>1, <2>5, <2>6, <2>7
  <2> QED BY <1>1, <2>3, <2>8 DEF CountInv
<1>13. RecordInv'
  <2>1. m_CurrentTurnCards = [pos \in Positions |-> trick[(Rank(pos) + 4) - 3]]
    <3>1. m_CurrentTurnCards =
            [pos \in Positions |-> IF HasPlayed(pos) THEN trick[(Rank(pos) + 4) - 3] ELSE NoCard]
      BY <1>1, <1>3 DEF BotInv, TableInv
    <3> QED BY <1>11, <3>1
  <2>2. \A pos \in Positions : (Rank(pos) + 4) - 3 \in 1 .. 4
    BY <1>11
  <2>3. \A i \in 1 .. 4 : \E pos \in Positions : (Rank(pos) + 4) - 3 = i
    <3> SUFFICES ASSUME NEW i \in 1 .. 4 PROVE \E pos \in Positions : (Rank(pos) + 4) - 3 = i
      OBVIOUS
    <3>1. i - 1 \in {0, 1, 2, 3}
      OBVIOUS
    <3>2. PICK pos \in Positions : Rank(pos) = i - 1
      BY <1>4, <3>1, SeatFacts DEF Rank
    <3> QED BY <3>2
  <2>4. Cards(m_CurrentTurnCards) = OnTable
    <3> DEFINE at(pos) == (Rank(pos) + 4) - 3
    <3>1. \A pos \in Positions : m_CurrentTurnCards[pos] = trick[at(pos)] /\ at(pos) \in 1 .. 4
      BY <2>1, <2>2
    <3>2. \A i \in 1 .. 4 : \E pos \in Positions : at(pos) = i
      BY <2>3
    <3> HIDE DEF at
    <3>3. {m_CurrentTurnCards[pos] : pos \in Positions} = {trick[i] : i \in 1 .. 4}
      BY <3>1, <3>2
    <3>4. NoCard \notin {trick[i] : i \in 1 .. 4}
      BY <1>2
    <3> QED BY <1>2, <3>3, <3>4, Zenon DEF Cards, OnTable
  <2>5. Unrecorded = {} /\ Unrecorded' = OnTable
    <3>1. Unrecorded' = Cards(m_CurrentTurnCards)'
      BY <1>1 DEF Unrecorded
    <3>2. Cards(m_CurrentTurnCards)' = Cards(m_CurrentTurnCards)
      BY <1>1 DEF Cards
    <3> QED BY <1>3, <2>4, <3>1, <3>2 DEF Unrecorded
  <2>6. PICK left \in LastTricks : m_PlayedCards \cup Unrecorded = gone \cup Cards(left)
    BY DEF BotInv, RecordInv
  <2>7. Cards(left)' = Cards(left)
    BY DEF Cards
  <2>8. m_PlayedCards' \cup Unrecorded' = gone' \cup Cards(left)'
    BY <1>1, <2>5, <2>6, <2>7
  <2> QED BY <2>8 DEF RecordInv
<1> QED BY <1>7, <1>8, <1>9, <1>10, <1>12, <1>13 DEF BotInv

(* Every step, the round that is over included.                             *)
LEMMA NextInv ==
    ASSUME BotInv, [Next]_vars
    PROVE  BotInv'
<1>1. CASE StartTurn
  BY <1>1, StartTurnInv
<1>2. CASE BotPlays
  BY <1>2, BotPlaysInv
<1>3. CASE TurnEnded
  BY <1>3, TurnEndedInv
<1>4. CASE \E card \in Pack : OtherPlays(card)
  BY <1>4, OtherPlaysInv
<1>5. CASE RoundEnded \/ UNCHANGED vars
  <2>1. /\ hand' = hand /\ trick' = trick /\ turn' = turn /\ gone' = gone /\ announced' = announced
        /\ m_MyHand' = m_MyHand /\ m_Asset' = m_Asset /\ m_CardsRemainingInHand' = m_CardsRemainingInHand
        /\ m_FirstCardThisTurn' = m_FirstCardThisTurn /\ m_CurrentTurnCards' = m_CurrentTurnCards
        /\ m_PlayedCards' = m_PlayedCards
    BY <1>5 DEF RoundEnded, vars, tableVars, memoryVars
  <2>2. TypeInv' /\ HandInv' /\ ApartInv'
    BY <2>1 DEF BotInv, TypeInv, HandInv, ApartInv, OnTable
  <2>3. TableInv' /\ CountInv'
    <3>1. \A pos : Rank(pos)' = Rank(pos) /\ HasPlayed(pos)' = HasPlayed(pos)
      BY <2>1 DEF HasPlayed, Rank
    <3>2. PlayedNow' = PlayedNow
      BY <3>1 DEF PlayedNow
    <3>3. CountInv'
      BY <2>1, <3>2 DEF BotInv, CountInv
    <3>4. TableInv'
      BY <2>1, <3>1 DEF BotInv, TableInv
    <3> QED BY <3>3, <3>4
  <2>4. RecordInv'
    BY <2>1 DEF BotInv, RecordInv, Unrecorded, Cards
  <2> QED BY <2>2, <2>3, <2>4 DEF BotInv
<1> QED BY <1>1, <1>2, <1>3, <1>4, <1>5 DEF Next

THEOREM BotInvariant == Spec => []BotInv
<1>1. BotInv /\ [Next]_vars => BotInv'
  BY NextInv
<1> QED BY InitInv, <1>1, PTL DEF Spec

(* The bot answers with a card AskToPlay has offered: CardToPlay never runs *)
(* into its assertion, nor returns an empty string.                         *)
THEOREM AnswerIsOfferedAlways == Spec => []AnswerIsOffered
<1>1. BotInv => AnswerIsOffered
  BY AnswerInv
<1> QED BY BotInvariant, <1>1, PTL

(* It does not cut its partner's trick while it has something else.         *)
THEOREM PartnerIsNotCutAlways == Spec => []PartnerIsNotCut
<1>1. BotInv => PartnerIsNotCut
  BY NoCutInv
<1> QED BY BotInvariant, <1>1, PTL

(* When a trick starts m_PlayedCards is what has gone in this round and     *)
(* what the round before has left on the table.                             *)
THEOREM RecordIsExactAlways == Spec => []RecordIsExact
<1>1. BotInv => RecordIsExact
  BY RecordIsExactInv
<1> QED BY BotInvariant, <1>1, PTL
=============================================================================
