------------------------- MODULE TurnProtocolProofs -------------------------
(***************************************************************************)
(* Whoever the bots are, however long a hand and however often the button  *)
(* is clicked: the match never waits for nobody, no more answers are on    *)
(* their way than matches were started, and as long as one was started the *)
(* only answer comes from the player it will be applied to.                *)
(***************************************************************************)
EXTENDS TurnProtocol, FiniteSetTheorems, FunctionTheorems, SequenceTheorems, TLAPS

AssetQuestions == {"AskRevealedAsset", "AskAnotherAsset"}

Notes == {"GameStarting", "Dealing", "CardsDealt", "TurnStarting"}

Messages == Questions \cup Notes

Screens == [Setup : BOOLEAN, AssetProposal : BOOLEAN, FirstTurn : BOOLEAN,
            SecondTurn : BOOLEAN, Playable : BOOLEAN]

(* The types that the counting of answers needs.                            *)
Typed ==
    /\ phase \in {"setup", "proposal", "play", "astray", "over", "undefined"}
    /\ m_CurrentDealer \in Positions /\ m_CurrentPlayer \in Positions /\ starts \in Nat
    /\ inbox \in [Positions -> Seq(Messages)]
    /\ \A p \in Bots : inbox[p] \in Seq(Questions)
    /\ outbox \in [Positions -> Seq(Answers \cup {"StartGameRequest"})]
    /\ screen \in [Persons -> Screens]
    /\ m_IsStarted \in [Bots -> BOOLEAN] /\ m_TimeoutFunc \in [Bots -> Answers]

----------------------------------------------------------------------------
(* How many messages of a queue are of a kind.                              *)
Matches(queue, kind) == {i \in DOMAIN queue : queue[i] \in kind}

LEMMA MatchesFinite ==
    ASSUME NEW S, NEW queue \in Seq(S), NEW kind
    PROVE  /\ IsFiniteSet(Matches(queue, kind)) /\ Cardinality(Matches(queue, kind)) \in Nat
           /\ Matches(queue, kind) # {} => Cardinality(Matches(queue, kind)) >= 1
<1>1. Matches(queue, kind) \in SUBSET (1 .. Len(queue)) /\ Len(queue) \in Nat
  BY DEF Matches
<1>2. IsFiniteSet(1 .. Len(queue))
  BY <1>1, FS_Interval
<1>3. IsFiniteSet(Matches(queue, kind))
  BY <1>1, <1>2, FS_Subset
<1> QED BY <1>3, FS_CardinalityType, FS_EmptySet

LEMMA MatchesAppend ==
    ASSUME NEW S, NEW queue \in Seq(S), NEW message, NEW kind
    PROVE  Cardinality(Matches(Append(queue, message), kind))
               = Cardinality(Matches(queue, kind)) + (IF message \in kind THEN 1 ELSE 0)
<1> DEFINE n == Len(queue) + 1
<1>1. /\ DOMAIN Append(queue, message) = DOMAIN queue \cup {n} /\ n \notin DOMAIN queue
      /\ Append(queue, message)[n] = message
      /\ \A i \in DOMAIN queue : Append(queue, message)[i] = queue[i]
  OBVIOUS
<1>2. IsFiniteSet(Matches(queue, kind)) /\ Cardinality(Matches(queue, kind)) \in Nat
  BY MatchesFinite
<1> HIDE DEF n
<1>3. CASE message \in kind
  <2>1. Matches(Append(queue, message), kind) = Matches(queue, kind) \cup {n} /\ n \notin Matches(queue, kind)
    BY <1>1, <1>3 DEF Matches
  <2> QED BY <1>2, <1>3, <2>1, FS_AddElement
<1>4. CASE message \notin kind
  <2>1. Matches(Append(queue, message), kind) = Matches(queue, kind)
    BY <1>1, <1>4 DEF Matches
  <2> QED BY <1>2, <1>4, <2>1
<1> QED BY <1>3, <1>4

LEMMA MatchesTail ==
    ASSUME NEW S, NEW queue \in Seq(S), queue # << >>, NEW kind
    PROVE  Cardinality(Matches(queue, kind))
               = Cardinality(Matches(Tail(queue), kind)) + (IF Head(queue) \in kind THEN 1 ELSE 0)
<1> DEFINE T == Matches(Tail(queue), kind)
           f == [i \in T |-> i + 1]
           U == {i + 1 : i \in T}
<1>1. /\ \A i \in DOMAIN Tail(queue) : i \in Nat /\ i >= 1 /\ i + 1 \in DOMAIN queue /\ Tail(queue)[i] = queue[i + 1]
      /\ \A i \in DOMAIN queue : i \in Nat /\ (i # 1 => i - 1 \in DOMAIN Tail(queue) /\ (i - 1) + 1 = i)
      /\ 1 \in DOMAIN queue /\ Head(queue) = queue[1]
  OBVIOUS
<1>2. IsFiniteSet(T) /\ Cardinality(T) \in Nat
  <2>1. Tail(queue) \in Seq(S)
    OBVIOUS
  <2> QED BY <2>1, MatchesFinite
<1>3. \A i \in T : i \in Nat /\ i >= 1
  BY <1>1 DEF Matches
<1>4. f \in Bijection(T, U)
  <2>1. f \in [T -> U]
    OBVIOUS
  <2>2. \A i, j \in T : f[i] = f[j] => i = j
    BY <1>3
  <2>3. \A u \in U : \E i \in T : f[i] = u
    OBVIOUS
  <2> QED BY <2>1, <2>2, <2>3, Fun_IsBij
<1>5. IsFiniteSet(U) /\ Cardinality(U) = Cardinality(T)
  BY <1>2, <1>4, FS_Bijection DEF ExistsBijection
<1>6. 1 \notin U
  BY <1>3
<1>7. {i \in Matches(queue, kind) : i # 1} = U
  <2>1. ASSUME NEW i \in Matches(queue, kind), i # 1 PROVE i \in U
    <3>1. i - 1 \in T /\ (i - 1) + 1 = i
      BY <1>1, <2>1 DEF Matches
    <3> QED BY <3>1
  <2>2. ASSUME NEW i \in T PROVE i + 1 \in Matches(queue, kind) /\ i + 1 # 1
    BY <1>1, <2>2 DEF Matches
  <2> QED BY <2>1, <2>2
<1>8. CASE Head(queue) \in kind
  <2>1. Matches(queue, kind) = U \cup {1}
    BY <1>1, <1>7, <1>8 DEF Matches
  <2> QED BY <1>2, <1>5, <1>6, <1>8, <2>1, FS_AddElement
<1>9. CASE Head(queue) \notin kind
  <2>1. Matches(queue, kind) = U
    BY <1>1, <1>7, <1>9 DEF Matches
  <2> QED BY <1>2, <1>5, <1>9, <2>1
<1> QED BY <1>8, <1>9

----------------------------------------------------------------------------
(* What a screen will show once a part of its messages is read.             *)

(* A flag that the message on raises and the message off lowers is down     *)
(* after the first k messages.                                              *)
DownAfter(queue, k, on, off, flag) ==
    \/ ~flag /\ \A l \in 1 .. k : queue[l] # on
    \/ \E j \in 1 .. k : queue[j] = off /\ \A l \in j + 1 .. k : queue[l] # on

LEMMA DownAppend ==
    ASSUME NEW S, NEW queue \in Seq(S), NEW message, NEW on, NEW off, on # off, NEW flag \in BOOLEAN
    PROVE  /\ DownAfter(Append(queue, message), Len(queue) + 1, on, off, flag)
                <=> (message = off \/ (message # on /\ DownAfter(queue, Len(queue), on, off, flag)))
           /\ \A k \in 0 .. Len(queue) : DownAfter(Append(queue, message), k, on, off, flag)
                                             <=> DownAfter(queue, k, on, off, flag)
<1> DEFINE n == Len(queue)
           longer == Append(queue, message)
<1>1. n \in Nat /\ longer[n + 1] = message /\ \A l \in 1 .. n : longer[l] = queue[l]
  OBVIOUS
<1> HIDE DEF longer, n
<1>2. \A k \in 0 .. n : DownAfter(longer, k, on, off, flag) <=> DownAfter(queue, k, on, off, flag)
  <2> SUFFICES ASSUME NEW k \in 0 .. n
               PROVE  DownAfter(longer, k, on, off, flag) <=> DownAfter(queue, k, on, off, flag)
    OBVIOUS
  <2>1. \A l \in 1 .. k : longer[l] = queue[l]
    BY <1>1
  <2>2. \A j \in 1 .. k : \A l \in j + 1 .. k : l \in 1 .. k
    BY <1>1
  <2> QED BY <2>1, <2>2 DEF DownAfter
<1>3. ASSUME message = off PROVE DownAfter(longer, n + 1, on, off, flag)
  <2>1. n + 1 \in 1 .. n + 1 /\ (n + 1) + 1 .. n + 1 = {}
    BY <1>1
  <2> QED BY <1>1, <1>3, <2>1 DEF DownAfter
<1>4. ASSUME message # on, DownAfter(queue, n, on, off, flag) PROVE DownAfter(longer, n + 1, on, off, flag)
  <2>1. \A l \in 1 .. n + 1 : l \in 1 .. n \/ l = n + 1
    BY <1>1
  <2>2. \A j \in 1 .. n : j \in 1 .. n + 1 /\ \A l \in j + 1 .. n + 1 : l \in j + 1 .. n \/ l = n + 1
    BY <1>1
  <2>3. CASE ~flag /\ \A l \in 1 .. n : queue[l] # on
    BY <1>1, <1>4, <2>1, <2>3 DEF DownAfter
  <2>4. ASSUME NEW j \in 1 .. n, queue[j] = off, \A l \in j + 1 .. n : queue[l] # on
        PROVE  DownAfter(longer, n + 1, on, off, flag)
    <3>1. \A l \in j + 1 .. n + 1 : longer[l] # on
      BY <1>1, <1>4, <2>2, <2>4
    <3> QED BY <1>1, <2>2, <2>4, <3>1 DEF DownAfter
  <2> QED BY <1>4, <2>3, <2>4 DEF DownAfter
<1>5. ASSUME DownAfter(longer, n + 1, on, off, flag), message # off
      PROVE  message # on /\ DownAfter(queue, n, on, off, flag)
  <2>1. CASE ~flag /\ \A l \in 1 .. n + 1 : longer[l] # on
    BY <1>1, <2>1 DEF DownAfter
  <2>2. ASSUME NEW j \in 1 .. n + 1, longer[j] = off, \A l \in j + 1 .. n + 1 : longer[l] # on
        PROVE  message # on /\ DownAfter(queue, n, on, off, flag)
    <3>1. j \in 1 .. n /\ n + 1 \in j + 1 .. n + 1 /\ \A l \in j + 1 .. n : l \in j + 1 .. n + 1 /\ l \in 1 .. n
      BY <1>1, <1>5, <2>2
    <3> QED BY <1>1, <2>2, <3>1 DEF DownAfter
  <2> QED BY <1>5, <2>1, <2>2 DEF DownAfter
<1> QED BY <1>2, <1>3, <1>4, <1>5 DEF longer, n

LEMMA DownTail ==
    ASSUME NEW S, NEW queue \in Seq(S), queue # << >>, NEW on, NEW off, on # off,
           NEW flag \in BOOLEAN, NEW next \in BOOLEAN,
           next => Head(queue) = on \/ (flag /\ Head(queue) # off),
           NEW k \in 1 .. Len(queue), DownAfter(queue, k, on, off, flag)
    PROVE  DownAfter(Tail(queue), k - 1, on, off, next)
<1> DEFINE rest == Tail(queue)
<1>1. k \in Nat /\ \A l \in 1 .. k - 1 : rest[l] = queue[l + 1] /\ l + 1 \in 1 .. k
  OBVIOUS
<1>2. Head(queue) = queue[1] /\ 1 \in 1 .. k
  OBVIOUS
<1> HIDE DEF rest
<1>3. CASE ~flag /\ \A l \in 1 .. k : queue[l] # on
  <2>1. ~next
    BY <1>2, <1>3
  <2> QED BY <1>1, <1>3, <2>1 DEF DownAfter, rest
<1>4. ASSUME NEW j \in 1 .. k, queue[j] = off, \A l \in j + 1 .. k : queue[l] # on
      PROVE  DownAfter(rest, k - 1, on, off, next)
  <2>1. CASE j = 1
    <3>1. ~next
      BY <1>2, <1>4, <2>1
    <3>2. \A l \in 1 .. k - 1 : l + 1 \in j + 1 .. k
      BY <1>1, <2>1
    <3> QED BY <1>1, <1>4, <3>1, <3>2 DEF DownAfter
  <2>2. CASE j # 1
    <3>1. j - 1 \in 1 .. k - 1 /\ (j - 1) + 1 = j
      BY <1>1, <2>2
    <3>2. \A l \in (j - 1) + 1 .. k - 1 : l \in 1 .. k - 1 /\ l + 1 \in j + 1 .. k
      BY <1>1, <2>2
    <3> QED BY <1>1, <1>4, <3>1, <3>2 DEF DownAfter
  <2> QED BY <2>1, <2>2
<1> QED BY <1>3, <1>4 DEF DownAfter, rest

CardsOff(queue, k, scr)    == DownAfter(queue, k, "WaitingPlay", "CardsDealt", scr.Playable)
ProposalOff(queue, k, scr) == DownAfter(queue, k, "Dealing", "TurnStarting", scr.AssetProposal)
ProposalOn(queue, k, scr)  == DownAfter(queue, k, "TurnStarting", "Dealing", ~scr.AssetProposal)

(* A question about the asset is read when the cards are off, or when the   *)
(* proposal is because nothing was proposed; the question of a card when    *)
(* the proposal is off.                                                     *)
WellAsked(queue, scr) ==
    \A k \in 1 .. Len(queue) :
        /\ queue[k] \in AssetQuestions => CardsOff(queue, k - 1, scr) \/ ProposalOff(queue, k - 1, scr)
        /\ queue[k] = "WaitingPlay" => ProposalOff(queue, k - 1, scr)

(* The cards are dealt, and no asset is proposed any more.                  *)
Dealt == {"play", "astray", "over"}

(* Once everything is read, the screen is as the phase of the server wants. *)
InPhase(ph, queue, scr) ==
    /\ ph = "proposal" => CardsOff(queue, Len(queue), scr) /\ ProposalOn(queue, Len(queue), scr)
    /\ ph \in Dealt => ProposalOff(queue, Len(queue), scr)

Agrees(ph, queue, scr) == WellAsked(queue, scr) /\ InPhase(ph, queue, scr)

ProposalAsks(scr) == scr.AssetProposal /\ (scr.FirstTurn \/ scr.SecondTurn)

(* The persons are never asked for an asset and a card at once.             *)
ScreensAgree == \A p \in Persons : /\ Agrees(phase, inbox[p], screen[p])
                                   /\ ~(ProposalAsks(screen[p]) /\ screen[p].Playable)

LEMMA NoteAgrees ==
    ASSUME NEW queue \in Seq(Messages), NEW message \in Messages, NEW scr \in Screens
    PROVE  LET longer == Append(queue, message)
               before == Len(queue)
               after == Len(longer)
           IN  /\ CardsOff(longer, after, scr)
                     <=> (message = "CardsDealt" \/ (message # "WaitingPlay" /\ CardsOff(queue, before, scr)))
               /\ ProposalOff(longer, after, scr)
                     <=> (message = "TurnStarting" \/ (message # "Dealing" /\ ProposalOff(queue, before, scr)))
               /\ ProposalOn(longer, after, scr)
                     <=> (message = "Dealing" \/ (message # "TurnStarting" /\ ProposalOn(queue, before, scr)))
               /\ WellAsked(queue, scr)
                  /\ (message \in AssetQuestions => CardsOff(queue, before, scr) \/ ProposalOff(queue, before, scr))
                  /\ (message = "WaitingPlay" => ProposalOff(queue, before, scr))
                  => WellAsked(longer, scr)
<1> DEFINE longer == Append(queue, message)
           n == Len(queue)
<1>1. /\ n \in Nat /\ Len(longer) = n + 1 /\ longer[n + 1] = message
      /\ \A k \in 1 .. n : longer[k] = queue[k]
  OBVIOUS
<1>2. scr.Playable \in BOOLEAN /\ scr.AssetProposal \in BOOLEAN /\ (~scr.AssetProposal) \in BOOLEAN
  BY DEF Screens
<1>3. /\ CardsOff(longer, n + 1, scr)
            <=> (message = "CardsDealt" \/ (message # "WaitingPlay" /\ CardsOff(queue, n, scr)))
      /\ \A k \in 0 .. n : CardsOff(longer, k, scr) <=> CardsOff(queue, k, scr)
  BY <1>2, DownAppend, "WaitingPlay" # "CardsDealt" DEF CardsOff
<1>4. /\ ProposalOff(longer, n + 1, scr)
            <=> (message = "TurnStarting" \/ (message # "Dealing" /\ ProposalOff(queue, n, scr)))
      /\ \A k \in 0 .. n : ProposalOff(longer, k, scr) <=> ProposalOff(queue, k, scr)
  BY <1>2, DownAppend, "Dealing" # "TurnStarting" DEF ProposalOff
<1>5. ProposalOn(longer, n + 1, scr)
         <=> (message = "Dealing" \/ (message # "TurnStarting" /\ ProposalOn(queue, n, scr)))
  <2>1. PICK hidden \in BOOLEAN : hidden = ~scr.AssetProposal
    BY <1>2
  <2>2. DownAfter(longer, n + 1, "TurnStarting", "Dealing", hidden)
            <=> (message = "Dealing"
                 \/ (message # "TurnStarting" /\ DownAfter(queue, n, "TurnStarting", "Dealing", hidden)))
    BY DownAppend, "Dealing" # "TurnStarting"
  <2> HIDE DEF longer, n
  <2> QED BY <2>1, <2>2, Zenon DEF ProposalOn
<1> HIDE DEF longer, n
<1>6. ASSUME WellAsked(queue, scr),
             message \in AssetQuestions => CardsOff(queue, n, scr) \/ ProposalOff(queue, n, scr),
             message = "WaitingPlay" => ProposalOff(queue, n, scr)
      PROVE  WellAsked(longer, scr)
  <2> SUFFICES ASSUME NEW k \in 1 .. n + 1
               PROVE  /\ longer[k] \in AssetQuestions => CardsOff(longer, k - 1, scr) \/ ProposalOff(longer, k - 1, scr)
                      /\ longer[k] = "WaitingPlay" => ProposalOff(longer, k - 1, scr)
    BY <1>1 DEF WellAsked
  <2>1. k - 1 \in 0 .. n
    BY <1>1
  <2>2. CASE k = n + 1
    <3>1. k - 1 = n
      BY <1>1, <2>2
    <3> QED BY <1>1, <1>3, <1>4, <1>6, <2>1, <2>2, <3>1
  <2>3. CASE k # n + 1
    <3>1. k \in 1 .. n
      BY <1>1, <2>3
    <3> QED BY <1>1, <1>3, <1>4, <1>6, <2>1, <3>1 DEF WellAsked, n
  <2> QED BY <2>2, <2>3
<1> QED BY <1>1, <1>3, <1>4, <1>5, <1>6 DEF longer, n

----------------------------------------------------------------------------
(* What the server sends in a step.                                         *)
QuestionsOf(ph) == IF ph = "play" THEN {"WaitingPlay"} ELSE AssetQuestions

Asking == {"proposal", "play", "astray"}

(* What the persons are sent before the question, from a phase to the next. *)
Heralds(notes, old, new) ==
    \/ notes \in {<< "GameStarting", "Dealing", "CardsDealt" >>, << "Dealing", "CardsDealt" >>}
       /\ new = "proposal"
    \/ notes \in {<< "CardsDealt", "TurnStarting" >>, << "TurnStarting" >>} /\ new = "play"
    \/ notes = << >> /\ (old = new \/ (old \in Dealt /\ new = "astray"))

LEMMA HeraldsAgree ==
    ASSUME NEW queue \in Seq(Messages), NEW scr \in Screens, NEW old, NEW new, NEW notes,
           Agrees(old, queue, scr), Heralds(notes, old, new)
    PROVE  Agrees(new, queue \o notes, scr)
<1> USE DEF Messages, Notes
<1>1. WellAsked(queue, scr)
  BY DEF Agrees
<1>2. ASSUME NEW start \in Seq(Messages), WellAsked(start, scr), new = "proposal"
      PROVE  Agrees(new, start \o << "Dealing", "CardsDealt" >>, scr)
  <2> DEFINE dealing == Append(start, "Dealing")
             dealt == Append(dealing, "CardsDealt")
  <2>1. dealing \in Seq(Messages) /\ start \o << "Dealing", "CardsDealt" >> = dealt
    OBVIOUS
  <2>2. WellAsked(dealing, scr) /\ ProposalOn(dealing, Len(dealing), scr)
    BY <1>2, NoteAgrees, "Dealing" \notin AssetQuestions, "Dealing" # "WaitingPlay" DEF AssetQuestions
  <2> HIDE DEF dealing
  <2>3. WellAsked(dealt, scr) /\ ProposalOn(dealt, Len(dealt), scr) /\ CardsOff(dealt, Len(dealt), scr)
    BY <2>1, <2>2, NoteAgrees DEF AssetQuestions
  <2> HIDE DEF dealt
  <2> QED BY <1>2, <2>1, <2>3 DEF Agrees, InPhase, Dealt
<1>3. CASE notes = << "Dealing", "CardsDealt" >> /\ new = "proposal"
  BY <1>1, <1>2, <1>3
<1>4. CASE notes = << "GameStarting", "Dealing", "CardsDealt" >> /\ new = "proposal"
  <2> DEFINE starting == Append(queue, "GameStarting")
  <2>1. starting \in Seq(Messages) /\ queue \o notes = starting \o << "Dealing", "CardsDealt" >>
    BY <1>4
  <2>2. WellAsked(starting, scr)
    BY <1>1, NoteAgrees DEF AssetQuestions
  <2> HIDE DEF starting
  <2> QED BY <1>2, <1>4, <2>1, <2>2
<1>5. ASSUME NEW start \in Seq(Messages), WellAsked(start, scr), new = "play"
      PROVE  Agrees(new, Append(start, "TurnStarting"), scr)
  <2> DEFINE turn == Append(start, "TurnStarting")
  <2>1. WellAsked(turn, scr) /\ ProposalOff(turn, Len(turn), scr)
    BY <1>5, NoteAgrees DEF AssetQuestions
  <2> HIDE DEF turn
  <2> QED BY <1>5, <2>1 DEF Agrees, InPhase, Dealt, turn
<1>6. CASE notes = << "TurnStarting" >> /\ new = "play"
  <2>1. queue \o notes = Append(queue, "TurnStarting")
    BY <1>6
  <2> QED BY <1>1, <1>5, <1>6, <2>1
<1>7. CASE notes = << "CardsDealt", "TurnStarting" >> /\ new = "play"
  <2> DEFINE dealt == Append(queue, "CardsDealt")
  <2>1. dealt \in Seq(Messages) /\ queue \o notes = Append(dealt, "TurnStarting")
    BY <1>7
  <2>2. WellAsked(dealt, scr)
    BY <1>1, NoteAgrees DEF AssetQuestions
  <2> HIDE DEF dealt
  <2> QED BY <1>5, <1>7, <2>1, <2>2
<1>8. CASE notes = << >> /\ (old = new \/ (old \in Dealt /\ new = "astray"))
  <2>1. queue \o notes = queue
    BY <1>8
  <2> QED BY <1>8, <2>1 DEF Agrees, InPhase, Dealt
<1> QED BY <1>3, <1>4, <1>6, <1>7, <1>8 DEF Heralds

LEMMA QuestionAgrees ==
    ASSUME NEW queue \in Seq(Messages), NEW scr \in Screens, NEW new \in Asking, Agrees(new, queue, scr),
           NEW question \in QuestionsOf(new)
    PROVE  Agrees(new, Append(queue, question), scr)
<1> DEFINE longer == Append(queue, question)
<1>1. question \in Messages /\ question \notin Notes
  BY DEF QuestionsOf, AssetQuestions, Messages, Questions, Notes
<1>2. (question = "WaitingPlay" <=> new = "play") /\ (question \in AssetQuestions <=> new \in {"proposal", "astray"})
  BY DEF QuestionsOf, AssetQuestions, Asking
<1>3. /\ CardsOff(longer, Len(longer), scr) <=> (question # "WaitingPlay" /\ CardsOff(queue, Len(queue), scr))
      /\ ProposalOff(longer, Len(longer), scr) <=> ProposalOff(queue, Len(queue), scr)
      /\ ProposalOn(longer, Len(longer), scr) <=> ProposalOn(queue, Len(queue), scr)
  BY <1>1, NoteAgrees DEF Notes
<1>4. WellAsked(longer, scr)
  BY <1>1, <1>2, NoteAgrees DEF Agrees, InPhase, Dealt
<1> HIDE DEF longer
<1> QED BY <1>2, <1>3, <1>4 DEF Agrees, InPhase, Dealt, longer

LEMMA OneAndTwo ==
    ASSUME NEW S, NEW a \in Seq(S), NEW b \in Seq(S), Len(a) = 1, Len(b) = 2,
           NEW t \in Seq(S), Len(t) = 3, t[1] = a[1], t[2] = b[1], t[3] = b[2]
    PROVE  a \o b = t
<1>1. a \o b \in Seq(S) /\ Len(a \o b) = Len(a) + Len(b)
  BY ConcatProperties, Zenon
<1>2. \A i \in 1 .. Len(a) + Len(b) : (a \o b)[i] = IF i <= Len(a) THEN a[i] ELSE b[i - Len(a)]
  BY ConcatProperties, Zenon
<1>3. \A i \in 1 .. Len(t) : i = 1 \/ i = 2 \/ i = 3
  OBVIOUS
<1>4. /\ 2 - 1 = 1 /\ 3 - 1 = 2 /\ 1 <= 1 /\ ~(2 <= 1) /\ ~(3 <= 1)
      /\ Len(a) + Len(b) = Len(t) /\ Len(t) = 3
  OBVIOUS
<1>5. \A i \in 1 .. Len(t) : (a \o b)[i] = t[i]
  BY <1>2, <1>3, <1>4, Zenon
<1> QED BY <1>1, <1>4, <1>5, SeqEqual, Zenon

LEMMA StartIsAnnounced ==
    << "GameStarting" >> \o << "Dealing", "CardsDealt" >> = << "GameStarting", "Dealing", "CardsDealt" >>
<1> DEFINE a == << "GameStarting" >>
           b == << "Dealing", "CardsDealt" >>
           t == << "GameStarting", "Dealing", "CardsDealt" >>
<1>1. a \in Seq(Notes) /\ Len(a) = 1 /\ a[1] = "GameStarting"
  BY DEF Notes
<1>2. b \in Seq(Notes) /\ Len(b) = 2 /\ b[1] = "Dealing" /\ b[2] = "CardsDealt"
  BY DEF Notes
<1>3. t \in Seq(Notes) /\ Len(t) = 3 /\ t[1] = "GameStarting" /\ t[2] = "Dealing" /\ t[3] = "CardsDealt"
  BY DEF Notes
<1> HIDE DEF a, b, t
<1>4. t[1] = a[1] /\ t[2] = b[1] /\ t[3] = b[2]
  BY <1>1, <1>2, <1>3
<1>5. a \o b = t
  BY <1>1, <1>2, <1>3, <1>4, OneAndTwo
<1> QED BY <1>5 DEF a, b, t

(* A packet is a start or an answer; afterwards somebody is asked what the  *)
(* phase asks, or the match is over.                                        *)
LEMMA ServerStep ==
    ASSUME Typed, NEW p \in Positions, HandleGameContextPacket(p), NEW new, new = phase', NEW pos, pos = m_CurrentPlayer'
    PROVE  /\ new \in Asking \cup {"over", "undefined"} /\ pos \in Positions /\ m_CurrentDealer' \in Positions
           /\ outbox[p] # << >> /\ outbox' = [outbox EXCEPT ![p] = Tail(@)]
           /\ \/ Head(outbox[p]) \notin Answers /\ starts' = starts + 1
              \/ Head(outbox[p]) \in Answers /\ starts' = starts
           /\ \/ new \in Asking
                 /\ \E notes \in Seq(Notes), question \in QuestionsOf(new) :
                        Heralds(notes, phase, new) /\ SendAndAsk(notes, pos, question)
              \/ (new = "undefined" \/ (new = "over" /\ phase = "play")) /\ UNCHANGED inbox
<1> DEFINE Goal == /\ new \in Asking \cup {"over", "undefined"} /\ pos \in Positions /\ m_CurrentDealer' \in Positions
                   /\ \/ new \in Asking
                         /\ \E notes \in Seq(Notes), question \in QuestionsOf(new) :
                                Heralds(notes, phase, new) /\ SendAndAsk(notes, pos, question)
                      \/ (new = "undefined" \/ (new = "over" /\ phase = "play")) /\ UNCHANGED inbox
<1> USE DEF Asking
<1>1. \A q \in Positions : GetNextPlayer(CW, q) \in Positions
  BY DEF GetNextPlayer, Positions, CW, CCW, South, West, North, East
<1>2. m_CurrentDealer \in Positions /\ m_CurrentPlayer \in Positions
  BY DEF Typed
<1>3. ASSUME NEW dealer \in Positions, NEW notes, notes = << >> \/ notes = << "GameStarting" >>, PreTurn(dealer, notes)
      PROVE  Goal
  <2> DEFINE all == notes \o << "Dealing", "CardsDealt" >>
  <2>1. all = << "Dealing", "CardsDealt" >> \/ all = << "GameStarting", "Dealing", "CardsDealt" >>
    <3>1. CASE notes = << >>
      BY <3>1
    <3>2. CASE notes = << "GameStarting" >>
      <4>1. << "GameStarting" >> \o << "Dealing", "CardsDealt" >> = << "GameStarting", "Dealing", "CardsDealt" >>
        BY StartIsAnnounced
      <4> QED BY <3>2, <4>1
    <3> QED BY <1>3, <3>1, <3>2
  <2>2. new = "proposal" /\ pos \in Positions /\ m_CurrentDealer' \in Positions
        /\ SendAndAsk(all, pos, "AskRevealedAsset") /\ "AskRevealedAsset" \in QuestionsOf(new)
    BY <1>1, <1>3 DEF PreTurn, QuestionsOf, AssetQuestions
  <2> HIDE DEF all
  <2>3. Heralds(all, phase, new)
    BY <2>1, <2>2 DEF Heralds
  <2>4. << "Dealing", "CardsDealt" >> \in Seq(Notes) /\ << "GameStarting", "Dealing", "CardsDealt" >> \in Seq(Notes)
    BY DEF Notes
  <2> QED BY <2>1, <2>2, <2>3, <2>4
<1>4. ASSUME StartGame PROVE Goal
  <2>1. PreTurn(South, << "GameStarting" >>) /\ South \in Positions
    BY <1>4 DEF StartGame, Positions, South, East
  <2> QED BY <1>3, <2>1
<1>5. ASSUME AcceptAsset PROVE Goal
  <2>1. new = "play" /\ pos \in Positions /\ m_CurrentDealer' \in Positions
        /\ SendAndAsk(<< "CardsDealt", "TurnStarting" >>, pos, "WaitingPlay") /\ "WaitingPlay" \in QuestionsOf(new)
    BY <1>1, <1>2, <1>5 DEF AcceptAsset, QuestionsOf
  <2>2. << "CardsDealt", "TurnStarting" >> \in Seq(Notes) /\ Heralds(<< "CardsDealt", "TurnStarting" >>, phase, new)
    BY <2>1 DEF Notes, Heralds
  <2> QED BY <2>1, <2>2
<1>6. ASSUME new \in Asking, phase = new \/ (phase \in Dealt /\ new = "astray"), pos \in Positions,
             m_CurrentDealer' \in Positions, NEW question \in QuestionsOf(new), SendAndAsk(<< >>, pos, question)
      PROVE  Goal
  <2>1. << >> \in Seq(Notes) /\ Heralds(<< >>, phase, new)
    BY <1>6 DEF Heralds
  <2> QED BY <1>6, <2>1
<1>7. ASSUME RefuseAsset, phase \in {"proposal"} \cup Dealt PROVE Goal
  <2>1. CASE PreTurn(GetNextPlayer(CW, m_CurrentDealer), << >>)
    BY <1>1, <1>2, <1>3, <2>1
  <2>2. ASSUME NEW question, question = IF m_IsInFirstAnnouncePhase' THEN "AskRevealedAsset" ELSE "AskAnotherAsset",
               m_CurrentPlayer' = GetNextPlayer(CW, m_CurrentPlayer),
               phase' = IF phase = "proposal" THEN "proposal" ELSE "astray",
               SendAndAsk(<< >>, GetNextPlayer(CW, m_CurrentPlayer), question), UNCHANGED m_CurrentDealer
        PROVE  Goal
    <3>1. question \in QuestionsOf(new) /\ new \in Asking
      BY <2>2 DEF QuestionsOf, AssetQuestions
    <3>2. phase = new \/ (phase \in Dealt /\ new = "astray")
      BY <1>7, <2>2
    <3>3. pos \in Positions /\ m_CurrentDealer' \in Positions /\ SendAndAsk(<< >>, pos, question)
      BY <1>1, <1>2, <2>2
    <3> QED BY <1>6, <3>1, <3>2, <3>3
  <2> QED BY <1>7, <2>1, <2>2 DEF RefuseAsset
<1>8. ASSUME TurnEnded, phase = "play" PROVE Goal
  <2>1. ASSUME NEW winner \in Positions, m_CurrentPlayer' = winner,
               SendAndAsk(<< "TurnStarting" >>, winner, "WaitingPlay"), UNCHANGED << phase, m_CurrentDealer >>
        PROVE  Goal
    <3>1. new = "play" /\ pos = winner /\ "WaitingPlay" \in QuestionsOf(new) /\ m_CurrentDealer' \in Positions
      BY <1>2, <1>8, <2>1 DEF QuestionsOf
    <3>2. << "TurnStarting" >> \in Seq(Notes) /\ Heralds(<< "TurnStarting" >>, phase, new)
      BY <3>1 DEF Notes, Heralds
    <3> QED BY <2>1, <3>1, <3>2
  <2>2. CASE PreTurn(GetNextPlayer(CW, m_CurrentDealer), << >>)
    BY <1>1, <1>2, <1>3, <2>2
  <2>3. CASE phase' = "over" /\ m_CurrentPlayer' \in Positions /\ UNCHANGED << inbox, m_CurrentDealer >>
    BY <1>2, <1>8, <2>3
  <2> QED BY <1>8, <2>1, <2>2, <2>3 DEF TurnEnded
<1>9. ASSUME CardPlayed, phase = "play" PROVE Goal
  <2>1. CASE TurnEnded
    BY <1>8, <1>9, <2>1
  <2>2. CASE /\ m_CurrentPlayer' = GetNextPlayer(CW, m_CurrentPlayer)
             /\ SendAndAsk(<< >>, m_CurrentPlayer', "WaitingPlay")
             /\ UNCHANGED << phase, m_CurrentDealer, m_IsInFirstAnnouncePhase, m_RemainingCards, starts >>
    <3>1. new = "play" /\ pos \in Positions /\ "WaitingPlay" \in QuestionsOf(new)
      BY <1>1, <1>2, <1>9, <2>2 DEF QuestionsOf
    <3> QED BY <1>2, <1>6, <1>9, <2>2, <3>1
  <2> QED BY <1>9, <2>1, <2>2 DEF CardPlayed
<1>10. ASSUME OutOfPhase PROVE Goal
  BY <1>2, <1>10 DEF OutOfPhase
<1>11. ASSUME NEW answer, Answered(answer), phase # "undefined" PROVE Goal
  <2>1. phase \in {"proposal"} \cup Dealt
    BY <1>11 DEF Answered, Typed, Dealt
  <2> QED BY <1>5, <1>7, <1>9, <1>10, <1>11, <2>1 DEF Answered
<1>12. ASSUME NEW answer, Answered(answer) PROVE starts' = starts
  BY <1>12 DEF Answered, AcceptAsset, RefuseAsset, CardPlayed, TurnEnded, OutOfPhase
<1>13. outbox[p] # << >> /\ outbox' = [outbox EXCEPT ![p] = Tail(@)]
  BY DEF HandleGameContextPacket
<1>14. CASE Head(outbox[p]) = "StartGameRequest" /\ StartGame
  <2>1. Head(outbox[p]) \notin Answers /\ starts' = starts + 1
    BY <1>14 DEF Answers, StartGame
  <2> QED BY <1>4, <1>13, <1>14, <2>1
<1>15. CASE Head(outbox[p]) \in Answers /\ Answered(Head(outbox[p]))
  <2>1. phase # "undefined"
    BY DEF HandleGameContextPacket
  <2> QED BY <1>11, <1>12, <1>13, <1>15, <2>1
<1> QED BY <1>14, <1>15 DEF HandleGameContextPacket

----------------------------------------------------------------------------
(* Counting the answers that are due.                                       *)
LEMMA NotesAskNothing ==
    ASSUME NEW queue \in Seq(Messages), NEW notes \in Seq(Notes)
    PROVE  /\ queue \o notes \in Seq(Messages)
           /\ Cardinality(Matches(queue \o notes, Questions)) = Cardinality(Matches(queue, Questions))
<1>1. notes \in Seq(Messages)
  BY DEF Messages
<1>2. /\ queue \o notes \in Seq(Messages) /\ Len(queue \o notes) = Len(queue) + Len(notes)
      /\ \A i \in 1 .. Len(queue) + Len(notes) : (queue \o notes)[i] =
                     IF i <= Len(queue) THEN queue[i] ELSE notes[i - Len(queue)]
  BY <1>1, ConcatProperties, Zenon
<1>3. \A i \in 1 .. Len(notes) : notes[i] \notin Questions
  <2>1. \A i \in 1 .. Len(notes) : notes[i] \in Notes
    OBVIOUS
  <2> QED BY <2>1 DEF Notes, Questions
<1>4. \A i \in Nat : i \in 1 .. Len(queue) + Len(notes) =>
          IF i <= Len(queue) THEN i \in 1 .. Len(queue) ELSE i - Len(queue) \in 1 .. Len(notes)
  OBVIOUS
<1>5. \A i \in 1 .. Len(queue) : i \in 1 .. Len(queue) + Len(notes) /\ i <= Len(queue)
  OBVIOUS
<1>6. DOMAIN (queue \o notes) = 1 .. Len(queue) + Len(notes) /\ DOMAIN queue = 1 .. Len(queue)
      /\ \A i \in 1 .. Len(queue) + Len(notes) : i \in Nat
  BY <1>2, LenProperties
<1>7. ASSUME NEW i \in Matches(queue \o notes, Questions) PROVE i \in Matches(queue, Questions)
  <2>1. i \in 1 .. Len(queue) + Len(notes) /\ (queue \o notes)[i] \in Questions
    BY <1>6 DEF Matches
  <2>2. i <= Len(queue)
    BY <1>2, <1>3, <1>4, <1>6, <2>1, Zenon
  <2> QED BY <1>2, <1>4, <1>6, <2>1, <2>2, Zenon DEF Matches
<1>8. ASSUME NEW i \in Matches(queue, Questions) PROVE i \in Matches(queue \o notes, Questions)
  <2>1. i \in 1 .. Len(queue) /\ queue[i] \in Questions
    BY <1>6 DEF Matches
  <2>2. i \in 1 .. Len(queue) + Len(notes) /\ i <= Len(queue)
    BY <1>5, <2>1, Zenon
  <2> QED BY <1>2, <1>6, <2>1, <2>2, Zenon DEF Matches
<1>9. Matches(queue \o notes, Questions) = Matches(queue, Questions)
  BY <1>7, <1>8, Zenon
<1> QED BY <1>2, <1>9, Zenon

(* The player on turn is asked, everyone reads what was announced.          *)
LEMMA SendCounts ==
    ASSUME Typed, NEW notes \in Seq(Notes), NEW pos \in Positions, NEW question \in Questions,
           SendAndAsk(notes, pos, question)
    PROVE  /\ inbox' \in [Positions -> Seq(Messages)] /\ \A p \in Bots : inbox'[p] \in Seq(Questions)
           /\ \A p \in Positions : Cardinality(Matches(inbox'[p], Questions))
                                     = Cardinality(Matches(inbox[p], Questions)) + (IF p = pos THEN 1 ELSE 0)
           /\ inbox'[pos] # << >> /\ inbox'[pos][Len(inbox'[pos])] = question
           /\ \A p \in Persons : inbox'[p] = IF p = pos THEN Append(inbox[p] \o notes, question)
                                                       ELSE inbox[p] \o notes
<1>1. Bots \subseteq Positions /\ Persons = Positions \ Bots
  BY TurnAssumption DEF Persons
<1>2. question \in Messages
  BY DEF Messages
<1>3. ASSUME NEW p \in Positions
      PROVE  /\ p \in Persons => inbox'[p] = IF p = pos THEN Append(inbox[p] \o notes, question)
                                                         ELSE inbox[p] \o notes
             /\ p \in Bots => inbox'[p] = IF p = pos THEN Append(inbox[p], question) ELSE inbox[p]
  <2> DEFINE announced == IF p \in Persons THEN inbox[p] \o notes ELSE inbox[p]
  <2>1. inbox[p] \in Seq(Messages) /\ announced \in Seq(Messages)
    BY <1>3, NotesAskNothing DEF Typed
  <2>2. inbox'[p] = inbox[p] \o (IF p \in Persons THEN notes ELSE << >>)
                             \o (IF p = pos THEN << question >> ELSE << >>)
    BY <1>3 DEF SendAndAsk
  <2>3. inbox[p] \o << >> = inbox[p] /\ announced \o << >> = announced
    BY <2>1, ConcatEmptySeq
  <2>4. announced \o << question >> = Append(announced, question)
    BY <1>2, <2>1
  <2>5. inbox[p] \o (IF p \in Persons THEN notes ELSE << >>) = announced
    BY <2>3
  <2>6. inbox'[p] = IF p = pos THEN Append(announced, question) ELSE announced
    BY <2>2, <2>3, <2>4, <2>5, Zenon
  <2> QED BY <1>1, <2>6
<1>4. ASSUME NEW p \in Persons
      PROVE  /\ inbox'[p] \in Seq(Messages)
             /\ Cardinality(Matches(inbox'[p], Questions))
                   = Cardinality(Matches(inbox[p], Questions)) + (IF p = pos THEN 1 ELSE 0)
             /\ p = pos => inbox'[p] # << >> /\ inbox'[p][Len(inbox'[p])] = question
  <2> DEFINE announced == inbox[p] \o notes
  <2>1. p \in Positions /\ inbox[p] \in Seq(Messages)
    BY <1>1, <1>4 DEF Typed
  <2>2. announced \in Seq(Messages)
        /\ Cardinality(Matches(announced, Questions)) = Cardinality(Matches(inbox[p], Questions))
    BY <2>1, NotesAskNothing
  <2>3. Cardinality(Matches(inbox[p], Questions)) \in Nat
    BY <2>1, MatchesFinite
  <2>4. inbox'[p] = IF p = pos THEN Append(announced, question) ELSE announced
    BY <1>3, <1>4, <2>1
  <2> HIDE DEF announced
  <2>5. Cardinality(Matches(Append(announced, question), Questions)) = Cardinality(Matches(announced, Questions)) + 1
    BY <2>2, MatchesAppend
  <2>6. Append(announced, question) \in Seq(Messages) /\ Append(announced, question) # << >>
        /\ Append(announced, question)[Len(Append(announced, question))] = question
    BY <1>2, <2>2
  <2>7. CASE p = pos
    BY <2>2, <2>4, <2>5, <2>6, <2>7
  <2>8. CASE p # pos
    BY <2>2, <2>3, <2>4, <2>8
  <2> QED BY <2>7, <2>8
<1>5. ASSUME NEW p \in Bots
      PROVE  /\ inbox'[p] \in Seq(Messages) /\ inbox'[p] \in Seq(Questions)
             /\ Cardinality(Matches(inbox'[p], Questions))
                   = Cardinality(Matches(inbox[p], Questions)) + (IF p = pos THEN 1 ELSE 0)
             /\ p = pos => inbox'[p] # << >> /\ inbox'[p][Len(inbox'[p])] = question
  <2> DEFINE queue == inbox[p]
  <2>1. p \in Positions /\ queue \in Seq(Messages) /\ queue \in Seq(Questions)
    BY <1>1, <1>5 DEF Typed
  <2>2. inbox'[p] = IF p = pos THEN Append(queue, question) ELSE queue
    BY <1>3, <1>5, <2>1
  <2>3. Cardinality(Matches(queue, Questions)) \in Nat
    BY <2>1, MatchesFinite
  <2> HIDE DEF queue
  <2>4. Cardinality(Matches(Append(queue, question), Questions)) = Cardinality(Matches(queue, Questions)) + 1
    BY <2>1, MatchesAppend
  <2>5. Append(queue, question) \in Seq(Messages) /\ Append(queue, question) \in Seq(Questions)
        /\ Append(queue, question) # << >>
        /\ Append(queue, question)[Len(Append(queue, question))] = question
    BY <1>2, <2>1
  <2>6. CASE p = pos
    BY <2>1, <2>2, <2>4, <2>5, <2>6 DEF queue
  <2>7. CASE p # pos
    BY <2>1, <2>2, <2>3, <2>7 DEF queue
  <2> QED BY <2>6, <2>7
<1>6. \A p \in Positions : p \in Persons \/ p \in Bots
  BY <1>1
<1>7. inbox' \in [Positions -> Seq(Messages)]
  <2>1. inbox' = [p \in Positions |-> inbox'[p]]
    BY DEF SendAndAsk
  <2>2. \A p \in Positions : inbox'[p] \in Seq(Messages)
    BY <1>4, <1>5, <1>6
  <2> QED BY <2>1, <2>2
<1>8. inbox'[pos] # << >> /\ inbox'[pos][Len(inbox'[pos])] = question
  BY <1>4, <1>5, <1>6
<1> QED BY <1>1, <1>3, <1>4, <1>5, <1>6, <1>7, <1>8, Zenon

----------------------------------------------------------------------------
(* Where the answer of p to the question of the phase is: given and not     *)
(* applied, to be given now that everything is read, or to come because the *)
(* question is the last message p will read.                                *)
Live(p) == \/ Cardinality(Unapplied(p)) >= 1
           \/ inbox[p] = << >> /\ AskedNow(p)
           \/ inbox[p] # << >> /\ inbox[p][Len(inbox[p])] \in QuestionsOf(phase)

QuestionLives == InMatch => Live(m_CurrentPlayer)

DueBounded == AllDue <= starts

TurnInv == Typed /\ ScreensAgree /\ QuestionLives /\ DueBounded

Held(p) == IF AskedNow(p) THEN 1 ELSE 0

LEMMA DueParts ==
    ASSUME Typed, NEW r \in Positions
    PROVE  /\ Cardinality(Matches(inbox[r], Questions)) \in Nat /\ Cardinality(Unapplied(r)) \in Nat
           /\ Due(r) = Cardinality(Matches(inbox[r], Questions)) + Cardinality(Unapplied(r)) + Held(r)
           /\ Unapplied(r) = Matches(outbox[r], Answers) /\ Held(r) \in {0, 1} /\ Due(r) \in Nat
<1>1. Unread(r) = Matches(inbox[r], Questions) /\ Unapplied(r) = Matches(outbox[r], Answers)
  BY DEF Unread, Unapplied, Matches
<1>2. inbox[r] \in Seq(Messages) /\ outbox[r] \in Seq(Answers \cup {"StartGameRequest"})
  BY DEF Typed
<1>3. Cardinality(Matches(inbox[r], Questions)) \in Nat /\ Cardinality(Matches(outbox[r], Answers)) \in Nat
  BY <1>2, MatchesFinite
<1>4. Held(r) \in {0, 1}
  BY DEF Held
<1>5. Due(r) = Cardinality(Unread(r)) + Cardinality(Unapplied(r)) + Held(r)
  BY Zenon DEF Due, Held
<1> QED BY <1>1, <1>3, <1>4, <1>5

(* Everything is due to some player.                                        *)
LEMMA AllDueTyped == ASSUME Typed PROVE AllDue \in Nat /\ \A r \in Positions : AllDue >= Due(r)
<1>1. South \in Positions /\ West \in Positions /\ North \in Positions /\ East \in Positions
      /\ Positions = {South, West, North, East}
  BY DEF Positions, South, West, North, East
<1>2. Due(South) \in Nat /\ Due(West) \in Nat /\ Due(North) \in Nat /\ Due(East) \in Nat
  BY <1>1, DueParts
<1>3. AllDue = Due(South) + Due(West) + Due(North) + Due(East)
  BY DEF AllDue
<1>4. \A r \in Positions : r = South \/ r = West \/ r = North \/ r = East
  BY <1>1
<1> QED BY <1>2, <1>3, <1>4

(* A live question is due.                                                  *)
LEMMA LiveIsDue == ASSUME Typed, NEW p \in Positions, Live(p), InMatch PROVE Due(p) >= 1
<1>1. CASE Cardinality(Unapplied(p)) >= 1
  BY <1>1, DueParts
<1>2. CASE AskedNow(p)
  <2>1. Held(p) = 1
    BY <1>2 DEF Held
  <2> QED BY <2>1, DueParts
<1>3. CASE inbox[p] # << >> /\ inbox[p][Len(inbox[p])] \in QuestionsOf(phase)
  <2>1. inbox[p] \in Seq(Messages) /\ QuestionsOf(phase) \subseteq Questions
    BY DEF Typed, QuestionsOf, AssetQuestions, Questions
  <2>2. Len(inbox[p]) \in DOMAIN inbox[p]
    BY <1>3, <2>1
  <2>3. Matches(inbox[p], Questions) # {}
    BY <1>3, <2>1, <2>2 DEF Matches
  <2>4. Cardinality(Matches(inbox[p], Questions)) >= 1
    BY <2>1, <2>3, MatchesFinite
  <2> QED BY <2>4, DueParts
<1> QED BY <1>1, <1>2, <1>3 DEF Live

(* What the invariant says of the answers that are due.                     *)
LEMMA TurnInvGives == ASSUME TurnInv PROVE OneAnswerIsDue /\ AnswersPerStart
<1> USE DEF TurnInv
<1>1. m_CurrentPlayer \in Positions /\ starts \in Nat
  BY DEF Typed
<1>2. AllDue \in Nat /\ AllDue >= Due(m_CurrentPlayer) /\ Due(m_CurrentPlayer) \in Nat /\ AllDue <= starts
  BY <1>1, AllDueTyped, DueParts DEF DueBounded
<1>3. InMatch => Due(m_CurrentPlayer) >= 1
  BY <1>1, LiveIsDue DEF QuestionLives
<1> QED BY <1>2, <1>3 DEF OneAnswerIsDue, AnswersPerStart

LEMMA TurnInvInit == Init => TurnInv
<1> SUFFICES ASSUME Init PROVE TurnInv
  OBVIOUS
<1>1. Typed
  BY TurnAssumption DEF Init, Typed, Persons, NewScreen, Screens, Answers, Positions, South, East
<1>2. ScreensAgree
  <2> SUFFICES ASSUME NEW p \in Persons
               PROVE  WellAsked(inbox[p], screen[p]) /\ InPhase(phase, inbox[p], screen[p])
                      /\ ~(ProposalAsks(screen[p]) /\ screen[p].Playable)
    BY DEF ScreensAgree, Agrees
  <2>1. inbox[p] = << >> /\ screen[p] = NewScreen /\ phase = "setup"
    BY DEF Init, Persons
  <2>2. Len(inbox[p]) = 0
    BY <2>1
  <2>3. WellAsked(inbox[p], screen[p])
    BY <2>2 DEF WellAsked
  <2> QED BY <2>1, <2>3 DEF InPhase, Dealt, NewScreen
<1>3. QuestionLives
  BY DEF Init, QuestionLives, InMatch
<1>4. ASSUME NEW r \in Positions PROVE Due(r) = 0
  <2>1. inbox[r] = << >> /\ outbox[r] = << >>
    BY <1>4 DEF Init
  <2>2. Matches(inbox[r], Questions) = {} /\ Matches(outbox[r], Answers) = {}
    BY <2>1 DEF Matches
  <2>3. ~AskedNow(r)
    BY <1>4 DEF Init, AskedNow, Asks, AssetIsAsked, Persons, NewScreen
  <2> QED BY <1>1, <2>2, <2>3, DueParts, FS_EmptySet DEF Held
<1>5. DueBounded
  <2>1. South \in Positions /\ West \in Positions /\ North \in Positions /\ East \in Positions
    BY DEF Positions, South, West, North, East
  <2> QED BY <1>4, <2>1 DEF DueBounded, AllDue, Init
<1> QED BY <1>1, <1>2, <1>3, <1>5 DEF TurnInv

----------------------------------------------------------------------------
(* The server: an answer less and a question more, or a match started.      *)
LEMMA OneMore ==
    ASSUME NEW d \in [Positions -> Nat], NEW e \in [Positions -> Nat], NEW pos \in Positions,
           \A r \in Positions : e[r] <= d[r] + (IF r = pos THEN 1 ELSE 0)
    PROVE  e[South] + e[West] + e[North] + e[East] <= d[South] + d[West] + d[North] + d[East] + 1
BY DEF Positions, South, West, North, East

LEMMA OneForOne ==
    ASSUME NEW d \in [Positions -> Nat], NEW e \in [Positions -> Nat], NEW pos \in Positions, NEW p \in Positions,
           \A r \in Positions : e[r] <= d[r] + (IF r = pos THEN 1 ELSE 0) - (IF r = p THEN 1 ELSE 0)
    PROVE  e[South] + e[West] + e[North] + e[East] <= d[South] + d[West] + d[North] + d[East]
BY DEF Positions, South, West, North, East

LEMMA ServerTyped ==
    ASSUME Typed, NEW p \in Positions, HandleGameContextPacket(p), NEW new, new = phase', NEW pos, pos = m_CurrentPlayer'
    PROVE  Typed'
<1>1. /\ new \in Asking \cup {"over", "undefined"} /\ pos \in Positions /\ m_CurrentDealer' \in Positions
      /\ outbox[p] # << >> /\ outbox' = [outbox EXCEPT ![p] = Tail(@)]
      /\ starts' = starts + 1 \/ starts' = starts
      /\ \/ \E notes \in Seq(Notes), question \in QuestionsOf(new) : new \in Asking /\ SendAndAsk(notes, pos, question)
         \/ UNCHANGED inbox
  BY ServerStep
<1>2. screen' = screen /\ m_IsStarted' = m_IsStarted /\ m_TimeoutFunc' = m_TimeoutFunc
  BY DEF HandleGameContextPacket, timerVars
<1>3. QuestionsOf(new) \subseteq Questions
  BY DEF QuestionsOf, AssetQuestions, Questions
<1>4. inbox' \in [Positions -> Seq(Messages)] /\ \A b \in Bots : inbox'[b] \in Seq(Questions)
  <2>1. CASE UNCHANGED inbox
    BY <2>1 DEF Typed
  <2>2. ASSUME NEW notes \in Seq(Notes), NEW question \in QuestionsOf(new), SendAndAsk(notes, pos, question)
        PROVE  inbox' \in [Positions -> Seq(Messages)] /\ \A b \in Bots : inbox'[b] \in Seq(Questions)
    BY <1>1, <1>3, <2>2, SendCounts
  <2> QED BY <1>1, <2>1, <2>2
<1>5. phase' \in {"setup", "proposal", "play", "astray", "over", "undefined"} /\ m_CurrentPlayer' \in Positions
      /\ starts' \in Nat
  BY <1>1 DEF Asking, Typed
<1>6. outbox' \in [Positions -> Seq(Answers \cup {"StartGameRequest"})]
  BY <1>1 DEF Typed
<1> QED BY <1>1, <1>2, <1>4, <1>5, <1>6 DEF Typed

LEMMA ServerScreens ==
    ASSUME Typed, ScreensAgree, NEW p \in Positions, HandleGameContextPacket(p),
           NEW new, new = phase', NEW pos, pos = m_CurrentPlayer'
    PROVE  ScreensAgree'
<1>1. /\ pos \in Positions
      /\ \/ new \in Asking
            /\ \E notes \in Seq(Notes), question \in QuestionsOf(new) :
                   Heralds(notes, phase, new) /\ SendAndAsk(notes, pos, question)
         \/ (new = "undefined" \/ (new = "over" /\ phase = "play")) /\ UNCHANGED inbox
  BY ServerStep
<1>2. screen' = screen
  BY DEF HandleGameContextPacket
<1>3. ASSUME NEW r \in Persons PROVE Agrees(new, inbox'[r], screen[r])
  <2>1. inbox[r] \in Seq(Messages) /\ screen[r] \in Screens /\ Agrees(phase, inbox[r], screen[r])
    BY <1>3 DEF Typed, ScreensAgree, Persons
  <2>2. CASE (new = "undefined" \/ (new = "over" /\ phase = "play")) /\ UNCHANGED inbox
    BY <2>1, <2>2 DEF Agrees, InPhase, Dealt
  <2>3. ASSUME new \in Asking, NEW notes \in Seq(Notes), NEW question \in QuestionsOf(new),
               Heralds(notes, phase, new), SendAndAsk(notes, pos, question)
        PROVE  Agrees(new, inbox'[r], screen[r])
    <3> DEFINE announced == inbox[r] \o notes
    <3>1. announced \in Seq(Messages) /\ Agrees(new, announced, screen[r])
      BY <2>1, <2>3, HeraldsAgree, NotesAskNothing
    <3>2. question \in Questions
      BY DEF QuestionsOf, AssetQuestions, Questions
    <3>3. inbox'[r] = IF r = pos THEN Append(announced, question) ELSE announced
      BY <1>1, <1>3, <2>3, <3>2, SendCounts
    <3> HIDE DEF announced
    <3>4. Agrees(new, Append(announced, question), screen[r])
      BY <2>1, <2>3, <3>1, QuestionAgrees
    <3> QED BY <3>1, <3>3, <3>4
  <2> QED BY <1>1, <2>2, <2>3
<1>4. \A r \in Persons : ~(ProposalAsks(screen[r]) /\ screen[r].Playable)
  BY DEF ScreensAgree
<1> QED BY <1>2, <1>3, <1>4 DEF ScreensAgree

LEMMA ServerDue ==
    ASSUME Typed, DueBounded, NEW p \in Positions, HandleGameContextPacket(p), Typed',
           NEW new, new = phase', NEW pos, pos = m_CurrentPlayer'
    PROVE  DueBounded' /\ QuestionLives'
<1>1. /\ pos \in Positions /\ outbox[p] # << >> /\ outbox' = [outbox EXCEPT ![p] = Tail(@)]
      /\ \/ Head(outbox[p]) \notin Answers /\ starts' = starts + 1
         \/ Head(outbox[p]) \in Answers /\ starts' = starts
      /\ \/ \E notes \in Seq(Notes), question \in QuestionsOf(new) : new \in Asking /\ SendAndAsk(notes, pos, question)
         \/ new \in {"over", "undefined"} /\ UNCHANGED inbox
  BY ServerStep
<1>2. QuestionsOf(new) \subseteq Questions
  BY DEF QuestionsOf, AssetQuestions, Questions
<1>3. ASSUME NEW r \in Positions
      PROVE  Cardinality(Matches(inbox'[r], Questions))
                 <= Cardinality(Matches(inbox[r], Questions)) + (IF r = pos THEN 1 ELSE 0)
  <2>1. Cardinality(Matches(inbox[r], Questions)) \in Nat
    BY <1>3, DueParts
  <2>2. CASE UNCHANGED inbox
    BY <2>1, <2>2
  <2>3. ASSUME NEW notes \in Seq(Notes), NEW question \in QuestionsOf(new), SendAndAsk(notes, pos, question)
        PROVE  Cardinality(Matches(inbox'[r], Questions))
                   = Cardinality(Matches(inbox[r], Questions)) + (IF r = pos THEN 1 ELSE 0)
    BY <1>1, <1>2, <1>3, <2>3, SendCounts
  <2> QED BY <1>1, <2>1, <2>2, <2>3
<1>4. ASSUME NEW r \in Positions
      PROVE  Cardinality(Matches(outbox[r], Answers))
                 = Cardinality(Matches(outbox'[r], Answers))
                   + (IF r = p /\ Head(outbox[p]) \in Answers THEN 1 ELSE 0)
  <2>1. outbox[r] \in Seq(Answers \cup {"StartGameRequest"}) /\ outbox'[r] = IF r = p THEN Tail(outbox[p]) ELSE outbox[r]
    BY <1>1, <1>4 DEF Typed
  <2>2. CASE r = p
    BY <1>1, <2>1, <2>2, MatchesTail
  <2>3. CASE r # p
    BY <2>1, <2>3, MatchesFinite
  <2> QED BY <2>2, <2>3
<1>5. ASSUME NEW r \in Positions
      PROVE  /\ Due(r) \in Nat /\ Due(r)' \in Nat
             /\ Due(r)' <= Due(r) + (IF r = pos THEN 1 ELSE 0)
                                  - (IF r = p /\ Head(outbox[p]) \in Answers THEN 1 ELSE 0)
  <2>1. /\ Due(r) = Cardinality(Matches(inbox[r], Questions)) + Cardinality(Matches(outbox[r], Answers)) + Held(r)
        /\ Cardinality(Matches(inbox[r], Questions)) \in Nat /\ Cardinality(Matches(outbox[r], Answers)) \in Nat
        /\ Held(r) \in {0, 1} /\ Due(r) \in Nat
    BY <1>5, DueParts
  <2>2. Unread(r)' = Matches(inbox'[r], Questions) /\ Unapplied(r)' = Matches(outbox'[r], Answers)
    BY DEF Unread, Unapplied, Matches
  <2>3. AskedNow(r)' <=> AskedNow(r)
    BY DEF HandleGameContextPacket, timerVars, AskedNow, Asks, AssetIsAsked
  <2>4. Due(r)' = Cardinality(Matches(inbox'[r], Questions)) + Cardinality(Matches(outbox'[r], Answers)) + Held(r)
    BY <2>2, <2>3 DEF Due, Held
  <2>5. inbox'[r] \in Seq(Messages) /\ outbox'[r] \in Seq(Answers \cup {"StartGameRequest"})
    BY <1>5 DEF Typed
  <2>6. Cardinality(Matches(inbox'[r], Questions)) \in Nat /\ Cardinality(Matches(outbox'[r], Answers)) \in Nat
    BY <2>5, MatchesFinite
  <2>7. Cardinality(Matches(outbox[r], Answers))
                 = Cardinality(Matches(outbox'[r], Answers))
                   + (IF r = p /\ Head(outbox[p]) \in Answers THEN 1 ELSE 0)
    BY <1>4, <1>5
  <2>8. Cardinality(Matches(inbox'[r], Questions))
                 <= Cardinality(Matches(inbox[r], Questions)) + (IF r = pos THEN 1 ELSE 0)
    BY <1>3, <1>5
  <2> HIDE DEF Held
  <2> QED BY <2>1, <2>4, <2>6, <2>7, <2>8
<1>6. DueBounded'
  <2> DEFINE d == [r \in Positions |-> Due(r)]
             e == [r \in Positions |-> Due(r)']
  <2>1. South \in Positions /\ West \in Positions /\ North \in Positions /\ East \in Positions
    BY DEF Positions, South, West, North, East
  <2>2. d \in [Positions -> Nat] /\ e \in [Positions -> Nat]
        /\ d[South] + d[West] + d[North] + d[East] = AllDue /\ e[South] + e[West] + e[North] + e[East] = AllDue'
    BY <1>5, <2>1 DEF AllDue
  <2>3. \A r \in Positions : e[r] <= d[r] + (IF r = pos THEN 1 ELSE 0)
                                         - (IF r = p /\ Head(outbox[p]) \in Answers THEN 1 ELSE 0)
    BY <1>5
  <2>4. starts \in Nat /\ AllDue <= starts /\ AllDue \in Nat
    BY AllDueTyped DEF Typed, DueBounded
  <2> HIDE DEF d, e
  <2>5. AllDue' \in Int
    BY <2>1, <2>2
  <2>6. CASE Head(outbox[p]) \in Answers
    <3>1. AllDue' <= AllDue
      BY <1>1, <2>2, <2>3, <2>6, OneForOne
    <3> QED BY <1>1, <2>4, <2>5, <2>6, <3>1 DEF DueBounded
  <2>7. CASE Head(outbox[p]) \notin Answers
    <3>1. \A r \in Positions : e[r] <= d[r] + (IF r = pos THEN 1 ELSE 0)
      BY <2>2, <2>3, <2>7
    <3>2. AllDue' <= AllDue + 1
      BY <1>1, <2>2, <3>1, OneMore
    <3> QED BY <1>1, <2>4, <2>5, <2>7, <3>2 DEF DueBounded
  <2> QED BY <2>6, <2>7
<1>7. QuestionLives'
  <2>1. CASE new \in {"over", "undefined"}
    BY <2>1 DEF QuestionLives, InMatch
  <2>2. ASSUME NEW notes \in Seq(Notes), NEW question \in QuestionsOf(new), SendAndAsk(notes, pos, question)
        PROVE  QuestionLives'
    <3>1. inbox'[pos] # << >> /\ inbox'[pos][Len(inbox'[pos])] \in QuestionsOf(new)
      BY <1>1, <1>2, <2>2, SendCounts
    <3> QED BY <3>1 DEF QuestionLives, Live
  <2> QED BY <1>1, <2>1, <2>2
<1> QED BY <1>6, <1>7

----------------------------------------------------------------------------
(* The clients: no step of theirs makes more answers due.                   *)
LEMMA ClientStep ==
    ASSUME Typed, QuestionLives, DueBounded, Typed', UNCHANGED serverVars, NEW p \in Positions,
           \A r \in Positions \ {p} : inbox'[r] = inbox[r] /\ outbox'[r] = outbox[r] /\ (AskedNow(r)' <=> AskedNow(r)),
           Due(p)' <= Due(p), InMatch /\ Live(p) => Live(p)'
    PROVE  QuestionLives' /\ DueBounded'
<1>1. m_CurrentPlayer \in Positions /\ m_CurrentPlayer' = m_CurrentPlayer /\ phase' = phase /\ starts' = starts
      /\ starts \in Nat
  BY DEF Typed, serverVars
<1>2. ASSUME NEW r \in Positions, r # p PROVE Due(r)' = Due(r) /\ (Live(r)' <=> Live(r))
  <2>1. inbox'[r] = inbox[r] /\ outbox'[r] = outbox[r] /\ (AskedNow(r)' <=> AskedNow(r))
    BY <1>2
  <2>2. Unread(r)' = Unread(r) /\ Unapplied(r)' = Unapplied(r)
    BY <2>1 DEF Unread, Unapplied
  <2> QED BY <1>1, <2>1, <2>2 DEF Due, Live
<1>3. QuestionLives'
  <2>1. CASE m_CurrentPlayer = p
    BY <1>1, <2>1 DEF QuestionLives, InMatch
  <2>2. CASE m_CurrentPlayer # p
    BY <1>1, <1>2, <2>2 DEF QuestionLives, InMatch
  <2> QED BY <2>1, <2>2
<1>4. ASSUME NEW r \in Positions PROVE Due(r) \in Nat /\ Due(r)' \in Nat
  <2>1. Due(r) \in Nat
    BY <1>4, DueParts
  <2>2. inbox'[r] \in Seq(Messages) /\ outbox'[r] \in Seq(Answers \cup {"StartGameRequest"})
    BY <1>4 DEF Typed
  <2>3. Unread(r)' = Matches(inbox'[r], Questions) /\ Unapplied(r)' = Matches(outbox'[r], Answers)
    BY DEF Unread, Unapplied, Matches
  <2>4. Cardinality(Unread(r)') \in Nat /\ Cardinality(Unapplied(r)') \in Nat
    BY <2>2, <2>3, MatchesFinite
  <2> QED BY <2>1, <2>4 DEF Due
<1>5. \A r \in Positions : Due(r)' <= Due(r)
  BY <1>2, <1>4
<1>6. AllDue' <= AllDue /\ AllDue' \in Nat /\ AllDue \in Nat
  <2>1. South \in Positions /\ West \in Positions /\ North \in Positions /\ East \in Positions
    BY DEF Positions, South, West, North, East
  <2>2. /\ Due(South)' <= Due(South) /\ Due(West)' <= Due(West) /\ Due(North)' <= Due(North) /\ Due(East)' <= Due(East)
        /\ Due(South) \in Nat /\ Due(West) \in Nat /\ Due(North) \in Nat /\ Due(East) \in Nat
        /\ Due(South)' \in Nat /\ Due(West)' \in Nat /\ Due(North)' \in Nat /\ Due(East)' \in Nat
    BY <1>4, <1>5, <2>1
  <2>3. AllDue = Due(South) + Due(West) + Due(North) + Due(East)
        /\ AllDue' = Due(South)' + Due(West)' + Due(North)' + Due(East)'
    BY DEF AllDue
  <2> QED BY <2>2, <2>3
<1>7. DueBounded'
  BY <1>1, <1>6 DEF DueBounded
<1> QED BY <1>3, <1>7

LEMMA ScreensStay ==
    ASSUME ScreensAgree, UNCHANGED << phase, screen >>, \A r \in Persons : inbox'[r] = inbox[r]
    PROVE  ScreensAgree'
BY DEF ScreensAgree, Agrees, InPhase

(* The parts of what is due to p, after a step of p.                        *)
LEMMA DuePartsNext ==
    ASSUME NEW p \in Positions
    PROVE  /\ Due(p)' = Cardinality(Matches(inbox'[p], Questions)) + Cardinality(Matches(outbox'[p], Answers)) + Held(p)'
           /\ Unapplied(p)' = Matches(outbox'[p], Answers) /\ (AskedNow(p)' => Held(p)' = 1) /\ (~AskedNow(p)' => Held(p)' = 0)
<1>1. Unread(p)' = Matches(inbox'[p], Questions) /\ Unapplied(p)' = Matches(outbox'[p], Answers)
  BY DEF Unread, Unapplied, Matches
<1> QED BY <1>1 DEF Due, Held

LEMMA SendAppends ==
    ASSUME Typed, NEW p \in Positions, NEW request \in Answers \cup {"StartGameRequest"}, Send(p, request)
    PROVE  /\ outbox' \in [Positions -> Seq(Answers \cup {"StartGameRequest"})]
           /\ \A r \in Positions \ {p} : outbox'[r] = outbox[r]
           /\ Cardinality(Matches(outbox'[p], Answers))
                 = Cardinality(Matches(outbox[p], Answers)) + (IF request \in Answers THEN 1 ELSE 0)
<1>1. outbox[p] \in Seq(Answers \cup {"StartGameRequest"}) /\ outbox'[p] = Append(outbox[p], request)
  BY DEF Typed, Send
<1>2. Cardinality(Matches(outbox'[p], Answers))
                 = Cardinality(Matches(outbox[p], Answers)) + (IF request \in Answers THEN 1 ELSE 0)
  BY <1>1, MatchesAppend
<1> QED BY <1>1, <1>2 DEF Typed, Send

(* A second click is no answer: it makes nothing due by itself.             *)
LEMMA StartBtnKeeps == ASSUME TurnInv, NEW p \in Positions, OnStartGameBtn(p) PROVE TurnInv'
<1> USE DEF TurnInv
<1>1. /\ Send(p, "StartGameRequest") /\ UNCHANGED << serverVars, inbox, screen, timerVars >>
  BY DEF OnStartGameBtn
<1>2. /\ outbox' \in [Positions -> Seq(Answers \cup {"StartGameRequest"})]
      /\ \A r \in Positions \ {p} : outbox'[r] = outbox[r]
      /\ Cardinality(Matches(outbox'[p], Answers)) = Cardinality(Matches(outbox[p], Answers)) + 0
  BY <1>1, SendAppends DEF Answers
<1>3. Typed'
  BY <1>1, <1>2 DEF Typed, serverVars, timerVars
<1>4. ScreensAgree'
  BY <1>1, ScreensStay DEF serverVars
<1>5. \A r \in Positions : AskedNow(r)' <=> AskedNow(r)
  BY <1>1 DEF AskedNow, Asks, AssetIsAsked, timerVars
<1>6. Held(p)' = Held(p)
  BY <1>5 DEF Held
<1>7. Due(p)' <= Due(p)
  BY <1>1, <1>2, <1>6, DueParts, DuePartsNext
<1>8. Live(p) => Live(p)'
  BY <1>1, <1>2, <1>5, DueParts, DuePartsNext DEF Live, serverVars
<1>9. QuestionLives' /\ DueBounded'
  BY <1>1, <1>2, <1>3, <1>5, <1>7, <1>8, ClientStep
<1> QED BY <1>3, <1>4, <1>9

(* The answer the timer held is on its way; a question arms the timer.      *)
LEMMA TimerKeeps == ASSUME TurnInv, NEW p \in Positions, TimerUpdate(p) PROVE TurnInv'
<1> USE DEF TurnInv
<1>1. /\ p \in Bots /\ m_IsStarted[p] /\ Send(p, m_TimeoutFunc[p]) /\ m_TimeoutFunc[p] \in Answers
      /\ m_IsStarted' = [m_IsStarted EXCEPT ![p] = FALSE] /\ UNCHANGED << serverVars, inbox, screen, m_TimeoutFunc >>
  BY DEF TimerUpdate, StopOneShot, Typed
<1>2. /\ outbox' \in [Positions -> Seq(Answers \cup {"StartGameRequest"})]
      /\ \A r \in Positions \ {p} : outbox'[r] = outbox[r]
      /\ Cardinality(Matches(outbox'[p], Answers)) = Cardinality(Matches(outbox[p], Answers)) + 1
  BY <1>1, SendAppends
<1>3. Typed'
  BY <1>1, <1>2 DEF Typed, serverVars
<1>4. ScreensAgree'
  BY <1>1, ScreensStay DEF serverVars
<1>5. \A r \in Positions \ {p} : AskedNow(r)' <=> AskedNow(r)
  BY <1>1 DEF AskedNow, Asks, AssetIsAsked, Typed
<1>6. AskedNow(p) /\ ~AskedNow(p)'
  BY <1>1 DEF AskedNow, Typed
<1>7. Due(p)' <= Due(p) /\ Live(p)'
  <2>1. Held(p) = 1 /\ Held(p)' = 0
    BY <1>6 DEF Held
  <2>2. inbox'[p] = inbox[p]
    BY <1>1
  <2>3. Cardinality(Matches(outbox'[p], Answers)) >= 1
    BY <1>2, DueParts
  <2> QED BY <1>2, <2>1, <2>2, <2>3, DueParts, DuePartsNext DEF Live
<1>8. QuestionLives' /\ DueBounded'
  BY <1>1, <1>2, <1>3, <1>5, <1>7, ClientStep
<1> QED BY <1>3, <1>4, <1>8

LEMMA LastOfTail ==
    ASSUME NEW S, NEW queue \in Seq(S), queue # << >>
    PROVE  /\ Head(queue) \in S
           /\ \/ Tail(queue) = << >> /\ queue[Len(queue)] = Head(queue) /\ Len(queue) = 1
              \/ Tail(queue) # << >> /\ Tail(queue)[Len(Tail(queue))] = queue[Len(queue)]
<1>1. Len(queue) \in Nat /\ Len(queue) >= 1 /\ Head(queue) = queue[1] /\ Head(queue) \in S
  OBVIOUS
<1>2. Len(Tail(queue)) = Len(queue) - 1 /\ Tail(queue) \in Seq(S)
  OBVIOUS
<1>3. CASE Len(queue) = 1
  <2>1. Tail(queue) = << >>
    <3>1. Len(Tail(queue)) = 0
      BY <1>2, <1>3
    <3> QED BY <1>2, <3>1, EmptySeq, Zenon
  <2> QED BY <1>1, <1>3, <2>1
<1>4. CASE Len(queue) # 1
  <2>1. Len(queue) - 1 \in 1 .. Len(queue) - 1 /\ (Len(queue) - 1) + 1 = Len(queue)
    BY <1>1, <1>4
  <2>2. Tail(queue)[Len(queue) - 1] = queue[(Len(queue) - 1) + 1]
    BY <2>1
  <2>3. Tail(queue) # << >>
    BY <1>2, <2>1
  <2> QED BY <1>1, <1>2, <2>1, <2>2, <2>3
<1> QED BY <1>3, <1>4

(* What is left to read after the first message.                            *)
LEMMA ReadOne ==
    ASSUME Typed, NEW p \in Positions, inbox[p] # << >>, inbox' = [inbox EXCEPT ![p] = Tail(@)]
    PROVE  /\ Head(inbox[p]) \in Messages /\ inbox' \in [Positions -> Seq(Messages)]
           /\ \A r \in Positions \ {p} : inbox'[r] = inbox[r]
           /\ Cardinality(Matches(inbox[p], Questions))
                 = Cardinality(Matches(inbox'[p], Questions)) + (IF Head(inbox[p]) \in Questions THEN 1 ELSE 0)
           /\ Cardinality(Matches(inbox'[p], Questions)) \in Nat
           /\ \/ inbox'[p] = << >> /\ inbox[p][Len(inbox[p])] = Head(inbox[p]) /\ Len(inbox[p]) = 1
              \/ inbox'[p] # << >> /\ inbox'[p][Len(inbox'[p])] = inbox[p][Len(inbox[p])]
<1>1. inbox[p] \in Seq(Messages) /\ inbox'[p] = Tail(inbox[p]) /\ inbox' \in [Positions -> Seq(Messages)]
      /\ \A r \in Positions \ {p} : inbox'[r] = inbox[r]
  BY DEF Typed
<1>2. /\ Head(inbox[p]) \in Messages
      /\ \/ Tail(inbox[p]) = << >> /\ inbox[p][Len(inbox[p])] = Head(inbox[p]) /\ Len(inbox[p]) = 1
         \/ Tail(inbox[p]) # << >> /\ Tail(inbox[p])[Len(Tail(inbox[p]))] = inbox[p][Len(inbox[p])]
  BY <1>1, LastOfTail
<1>3. Cardinality(Matches(inbox[p], Questions))
         = Cardinality(Matches(inbox'[p], Questions)) + (IF Head(inbox[p]) \in Questions THEN 1 ELSE 0)
  BY <1>1, MatchesTail
<1>4. inbox'[p] \in Seq(Messages)
  BY <1>1
<1> QED BY <1>1, <1>2, <1>3, <1>4, MatchesFinite

LEMMA BotHearsKeeps == ASSUME TurnInv, NEW p \in Positions, BotHears(p) PROVE TurnInv'
<1> USE DEF TurnInv
<1>1. PICK reaction \in Reactions(Head(inbox[p])) : DelayReaction(p, reaction)
  BY DEF BotHears
<1>2. /\ p \in Bots /\ inbox[p] # << >> /\ inbox' = [inbox EXCEPT ![p] = Tail(@)]
      /\ UNCHANGED << serverVars, outbox, screen >>
  BY DEF BotHears
<1>3. /\ m_TimeoutFunc' = [m_TimeoutFunc EXCEPT ![p] = reaction] /\ m_IsStarted' = [m_IsStarted EXCEPT ![p] = TRUE]
      /\ reaction \in Answers
  BY <1>1 DEF DelayReaction, Reactions, Answers
<1>4. inbox[p] \in Seq(Questions) /\ Head(inbox[p]) \in Questions /\ Tail(inbox[p]) \in Seq(Questions)
  BY <1>2 DEF Typed
<1>5. /\ inbox' \in [Positions -> Seq(Messages)] /\ \A r \in Positions \ {p} : inbox'[r] = inbox[r]
      /\ Cardinality(Matches(inbox[p], Questions)) = Cardinality(Matches(inbox'[p], Questions)) + 1
      /\ Cardinality(Matches(inbox'[p], Questions)) \in Nat
      /\ \/ inbox'[p] = << >>
         \/ inbox'[p] # << >> /\ inbox'[p][Len(inbox'[p])] = inbox[p][Len(inbox[p])]
  BY <1>2, <1>4, ReadOne
<1>6. Typed'
  <2>1. inbox'[p] = Tail(inbox[p])
    BY <1>2 DEF Typed
  <2>2. \A b \in Bots : inbox'[b] \in Seq(Questions)
    BY <1>4, <1>5, <2>1, TurnAssumption DEF Typed
  <2> QED BY <1>2, <1>3, <1>5, <2>2 DEF Typed, serverVars
<1>7. ScreensAgree'
  <2>1. \A r \in Persons : inbox'[r] = inbox[r]
    BY <1>2, <1>5 DEF Persons
  <2> QED BY <1>2, <2>1, ScreensStay DEF serverVars
<1>8. \A r \in Positions \ {p} : outbox'[r] = outbox[r] /\ (AskedNow(r)' <=> AskedNow(r))
  BY <1>2, <1>3 DEF AskedNow, Asks, AssetIsAsked, Typed
<1>9. AskedNow(p)' /\ Held(p)' = 1
  BY <1>2, <1>3 DEF AskedNow, Typed, Held
<1>10. Due(p)' <= Due(p)
  <2> DEFINE unread == Cardinality(Matches(inbox'[p], Questions))
             unapplied == Cardinality(Matches(outbox[p], Answers))
  <2>1. Due(p) = unread + 1 + unapplied + Held(p) /\ Held(p) \in {0, 1} /\ unapplied \in Nat /\ unread \in Nat
    BY <1>5, DueParts
  <2>2. Due(p)' = unread + unapplied + 1
    BY <1>2, <1>9, DuePartsNext
  <2> HIDE DEF unread, unapplied
  <2> QED BY <2>1, <2>2
<1>11. Live(p) => Live(p)'
  BY <1>2, <1>5, <1>9, DueParts, DuePartsNext DEF Live, serverVars
<1>12. QuestionLives' /\ DueBounded'
  BY <1>2, <1>5, <1>6, <1>8, <1>10, <1>11, ClientStep
<1> QED BY <1>6, <1>7, <1>12

(* The screen after a message.                                              *)
LEMMA Heard ==
    ASSUME NEW scr \in Screens, NEW msg \in Messages, NEW next, next = OnMessage(scr, msg)
    PROVE  /\ next \in Screens
           /\ next.Playable <=> (msg = "WaitingPlay" \/ (msg # "CardsDealt" /\ scr.Playable))
           /\ next.AssetProposal <=> (msg = "Dealing" \/ (msg # "TurnStarting" /\ scr.AssetProposal))
           /\ next.FirstTurn <=> (msg = "AskRevealedAsset" \/ (msg # "Dealing" /\ scr.FirstTurn))
           /\ next.SecondTurn <=> (msg = "AskAnotherAsset" \/ (msg # "Dealing" /\ scr.SecondTurn))
<1> USE DEF Screens
<1>1. CASE msg = "GameStarting"
  BY <1>1 DEF OnMessage
<1>2. CASE msg = "Dealing"
  BY <1>2 DEF OnMessage
<1>3. CASE msg = "CardsDealt"
  BY <1>3 DEF OnMessage
<1>4. CASE msg = "AskRevealedAsset"
  BY <1>4 DEF OnMessage
<1>5. CASE msg = "AskAnotherAsset"
  BY <1>5 DEF OnMessage
<1>6. CASE msg = "TurnStarting"
  BY <1>6 DEF OnMessage
<1>7. CASE msg = "WaitingPlay"
  BY <1>7 DEF OnMessage
<1> QED BY <1>1, <1>2, <1>3, <1>4, <1>5, <1>6, <1>7 DEF Messages, Questions, Notes

(* A flag seen later from a queue that is one message shorter.              *)
LEMMA HeardOff ==
    ASSUME NEW queue \in Seq(Messages), queue # << >>, NEW scr \in Screens, NEW next, next = OnMessage(scr, Head(queue)),
           NEW k \in 1 .. Len(queue)
    PROVE  /\ CardsOff(queue, k, scr) => CardsOff(Tail(queue), k - 1, next)
           /\ ProposalOff(queue, k, scr) => ProposalOff(Tail(queue), k - 1, next)
           /\ ProposalOn(queue, k, scr) => ProposalOn(Tail(queue), k - 1, next)
<1> DEFINE msg == Head(queue)
<1>1. msg \in Messages
  OBVIOUS
<1>2. /\ next \in Screens
      /\ next.Playable <=> (msg = "WaitingPlay" \/ (msg # "CardsDealt" /\ scr.Playable))
      /\ next.AssetProposal <=> (msg = "Dealing" \/ (msg # "TurnStarting" /\ scr.AssetProposal))
  BY <1>1, Heard
<1>3. next.Playable \in BOOLEAN /\ next.AssetProposal \in BOOLEAN /\ scr.Playable \in BOOLEAN /\ scr.AssetProposal \in BOOLEAN
  BY <1>2 DEF Screens
<1>4. PICK a \in BOOLEAN, b \in BOOLEAN, c \in BOOLEAN, d \in BOOLEAN :
          a = scr.Playable /\ b = next.Playable /\ c = scr.AssetProposal /\ d = next.AssetProposal
  BY <1>3
<1>5. (b <=> (msg = "WaitingPlay" \/ (msg # "CardsDealt" /\ a))) /\ (d <=> (msg = "Dealing" \/ (msg # "TurnStarting" /\ c)))
  BY <1>2, <1>4
<1>6. ASSUME CardsOff(queue, k, scr) PROVE CardsOff(Tail(queue), k - 1, next)
  <2>1. DownAfter(queue, k, "WaitingPlay", "CardsDealt", a)
    BY <1>4, <1>6 DEF CardsOff
  <2>2. DownAfter(Tail(queue), k - 1, "WaitingPlay", "CardsDealt", b)
    BY <1>5, <2>1, DownTail, "WaitingPlay" # "CardsDealt"
  <2> QED BY <1>4, <2>2 DEF CardsOff
<1>7. ASSUME ProposalOff(queue, k, scr) PROVE ProposalOff(Tail(queue), k - 1, next)
  <2>1. DownAfter(queue, k, "Dealing", "TurnStarting", c)
    BY <1>4, <1>7 DEF ProposalOff
  <2>2. DownAfter(Tail(queue), k - 1, "Dealing", "TurnStarting", d)
    BY <1>5, <2>1, DownTail, "Dealing" # "TurnStarting"
  <2> QED BY <1>4, <2>2 DEF ProposalOff
<1>8. ASSUME ProposalOn(queue, k, scr) PROVE ProposalOn(Tail(queue), k - 1, next)
  <2>1. PICK hidden \in BOOLEAN, after \in BOOLEAN : hidden = ~c /\ after = ~d
    OBVIOUS
  <2>2. DownAfter(queue, k, "TurnStarting", "Dealing", hidden)
    BY <1>4, <1>8, <2>1, Zenon DEF ProposalOn
  <2>3. after => msg = "TurnStarting" \/ (hidden /\ msg # "Dealing")
    BY <1>5, <2>1
  <2>4. DownAfter(Tail(queue), k - 1, "TurnStarting", "Dealing", after)
    BY <2>2, <2>3, DownTail, "Dealing" # "TurnStarting"
  <2> QED BY <1>4, <2>1, <2>4, Zenon DEF ProposalOn
<1> QED BY <1>6, <1>7, <1>8

(* A message read leaves the screen in agreement, and at most one thing     *)
(* asked.                                                                   *)
LEMMA HeardAgrees ==
    ASSUME NEW ph, NEW queue \in Seq(Messages), queue # << >>, NEW scr \in Screens,
           NEW next, next = OnMessage(scr, Head(queue)),
           Agrees(ph, queue, scr), ~(ProposalAsks(scr) /\ scr.Playable)
    PROVE  Agrees(ph, Tail(queue), next) /\ ~(ProposalAsks(next) /\ next.Playable)
<1> DEFINE rest == Tail(queue)
           n == Len(queue)
<1>1. /\ n \in Nat /\ n >= 1 /\ Len(rest) = n - 1 /\ rest \in Seq(Messages) /\ Head(queue) = queue[1]
      /\ \A k \in 1 .. n - 1 : rest[k] = queue[k + 1] /\ k + 1 \in 1 .. n
      /\ Head(queue) \in Messages
  OBVIOUS
<1>2. \A k \in 1 .. n : /\ CardsOff(queue, k, scr) => CardsOff(rest, k - 1, next)
                        /\ ProposalOff(queue, k, scr) => ProposalOff(rest, k - 1, next)
                        /\ ProposalOn(queue, k, scr) => ProposalOn(rest, k - 1, next)
  BY HeardOff
<1> HIDE DEF rest, n
<1>3. WellAsked(rest, next)
  <2> SUFFICES ASSUME NEW k \in 1 .. n - 1
               PROVE  /\ rest[k] \in AssetQuestions => CardsOff(rest, k - 1, next) \/ ProposalOff(rest, k - 1, next)
                      /\ rest[k] = "WaitingPlay" => ProposalOff(rest, k - 1, next)
    BY <1>1 DEF WellAsked
  <2>1. k \in 1 .. n /\ k + 1 \in 1 .. n /\ (k + 1) - 1 = k /\ rest[k] = queue[k + 1]
    BY <1>1
  <2>2. /\ queue[k + 1] \in AssetQuestions => CardsOff(queue, k, scr) \/ ProposalOff(queue, k, scr)
        /\ queue[k + 1] = "WaitingPlay" => ProposalOff(queue, k, scr)
    BY <2>1 DEF Agrees, WellAsked, n
  <2> QED BY <1>2, <2>1, <2>2
<1>4. InPhase(ph, rest, next)
  <2>1. n \in 1 .. n
    BY <1>1
  <2> QED BY <1>1, <1>2, <2>1 DEF Agrees, InPhase, n
<1>5. ~(ProposalAsks(next) /\ next.Playable)
  <2>1. /\ next.Playable <=> (queue[1] = "WaitingPlay" \/ (queue[1] # "CardsDealt" /\ scr.Playable))
        /\ next.AssetProposal <=> (queue[1] = "Dealing" \/ (queue[1] # "TurnStarting" /\ scr.AssetProposal))
        /\ next.FirstTurn <=> (queue[1] = "AskRevealedAsset" \/ (queue[1] # "Dealing" /\ scr.FirstTurn))
        /\ next.SecondTurn <=> (queue[1] = "AskAnotherAsset" \/ (queue[1] # "Dealing" /\ scr.SecondTurn))
    BY <1>1, Heard
  <2>2. 1 \in 1 .. n /\ 1 - 1 = 0
    BY <1>1
  <2>3. queue[1] \in AssetQuestions => CardsOff(queue, 0, scr) \/ ProposalOff(queue, 0, scr)
    BY <2>2 DEF Agrees, WellAsked, n
  <2>4. queue[1] = "WaitingPlay" => ProposalOff(queue, 0, scr)
    BY <2>2 DEF Agrees, WellAsked, n
  <2>5. (CardsOff(queue, 0, scr) => ~scr.Playable) /\ (ProposalOff(queue, 0, scr) => ~scr.AssetProposal)
    BY DEF CardsOff, ProposalOff, DownAfter
  <2> QED BY <2>1, <2>3, <2>4, <2>5 DEF ProposalAsks, AssetQuestions
<1> QED BY <1>3, <1>4, <1>5 DEF Agrees, rest

LEMMA PersonHearsKeeps == ASSUME TurnInv, NEW p \in Positions, PersonHears(p) PROVE TurnInv'
<1> USE DEF TurnInv
<1> DEFINE msg == Head(inbox[p])
           scr == screen[p]
<1>0. PICK next : next = OnMessage(scr, msg)
  OBVIOUS
<1>1. /\ p \in Persons /\ p \notin Bots /\ inbox[p] # << >> /\ inbox' = [inbox EXCEPT ![p] = Tail(@)]
      /\ screen' = [screen EXCEPT ![p] = next] /\ UNCHANGED << serverVars, outbox, timerVars >>
  BY <1>0 DEF PersonHears, Persons
<1>2. /\ msg \in Messages /\ inbox' \in [Positions -> Seq(Messages)]
      /\ \A r \in Positions \ {p} : inbox'[r] = inbox[r]
      /\ Cardinality(Matches(inbox[p], Questions))
             = Cardinality(Matches(inbox'[p], Questions)) + (IF msg \in Questions THEN 1 ELSE 0)
      /\ Cardinality(Matches(inbox'[p], Questions)) \in Nat
      /\ \/ inbox'[p] = << >> /\ inbox[p][Len(inbox[p])] = msg /\ Len(inbox[p]) = 1
         \/ inbox'[p] # << >> /\ inbox'[p][Len(inbox'[p])] = inbox[p][Len(inbox[p])]
  BY <1>1, ReadOne
<1>3. scr \in Screens /\ Agrees(phase, inbox[p], scr) /\ ~(ProposalAsks(scr) /\ scr.Playable)
      /\ inbox[p] \in Seq(Messages)
  BY <1>1 DEF Typed, ScreensAgree
<1>4. /\ next \in Screens
      /\ next.Playable <=> (msg = "WaitingPlay" \/ (msg # "CardsDealt" /\ scr.Playable))
      /\ next.AssetProposal <=> (msg = "Dealing" \/ (msg # "TurnStarting" /\ scr.AssetProposal))
      /\ next.FirstTurn <=> (msg = "AskRevealedAsset" \/ (msg # "Dealing" /\ scr.FirstTurn))
      /\ next.SecondTurn <=> (msg = "AskAnotherAsset" \/ (msg # "Dealing" /\ scr.SecondTurn))
  <2>1. msg \in Messages /\ scr \in Screens
    BY <1>2, <1>3
  <2> HIDE DEF msg, scr
  <2> QED BY <1>0, <2>1, Heard, Zenon
<1>5. Agrees(phase, Tail(inbox[p]), next) /\ ~(ProposalAsks(next) /\ next.Playable)
  BY <1>0, <1>1, <1>3, HeardAgrees
<1>6. /\ screen' \in [Persons -> Screens] /\ screen'[p] = next
      /\ \A r \in Persons \ {p} : screen'[r] = screen[r]
  BY <1>1, <1>4 DEF Typed
<1>7. Typed'
  <2>1. \A b \in Bots : inbox'[b] \in Seq(Questions)
    BY <1>1, <1>2, TurnAssumption DEF Typed
  <2> QED BY <1>1, <1>2, <1>6, <2>1 DEF Typed, serverVars, timerVars
<1>8. ScreensAgree'
  <2>1. inbox'[p] = Tail(inbox[p]) /\ phase' = phase
    BY <1>1 DEF Typed, serverVars
  <2>2. \A r \in Persons : Agrees(phase, inbox'[r], screen'[r]) /\ ~(ProposalAsks(screen'[r]) /\ screen'[r].Playable)
    <3> SUFFICES ASSUME NEW r \in Persons
                 PROVE  Agrees(phase, inbox'[r], screen'[r]) /\ ~(ProposalAsks(screen'[r]) /\ screen'[r].Playable)
      OBVIOUS
    <3>1. CASE r = p
      BY <1>5, <1>6, <2>1, <3>1
    <3>2. CASE r # p
      <4>1. inbox'[r] = inbox[r] /\ screen'[r] = screen[r]
        BY <1>2, <1>6, <3>2 DEF Persons
      <4> QED BY <4>1 DEF ScreensAgree
    <3> QED BY <3>1, <3>2
  <2> QED BY <2>1, <2>2 DEF ScreensAgree
<1>9. \A r \in Positions \ {p} : outbox'[r] = outbox[r] /\ (AskedNow(r)' <=> AskedNow(r))
  BY <1>1, <1>6 DEF AskedNow, Asks, AssetIsAsked, timerVars, Persons
<1>10. AskedNow(p) <=> (ProposalAsks(scr) \/ scr.Playable)
  BY <1>1 DEF AskedNow, Asks, AssetIsAsked, ProposalAsks
<1>11. AskedNow(p)' <=> (ProposalAsks(next) \/ next.Playable)
  BY <1>1, <1>6 DEF AskedNow, Asks, AssetIsAsked, ProposalAsks
<1>12. Due(p)' <= Due(p)
  <2>1. AskedNow(p)' => AskedNow(p) \/ msg \in Questions
    BY <1>2, <1>4, <1>10, <1>11 DEF ProposalAsks, Messages, Questions, Notes
  <2> DEFINE unread == Cardinality(Matches(inbox'[p], Questions))
             unapplied == Cardinality(Matches(outbox[p], Answers))
  <2>2. Due(p) = unread + (IF msg \in Questions THEN 1 ELSE 0) + unapplied + Held(p)
        /\ Held(p) \in {0, 1} /\ unapplied \in Nat /\ unread \in Nat
    BY <1>2, DueParts
  <2>3. Due(p)' = unread + unapplied + Held(p)' /\ (AskedNow(p)' => Held(p)' = 1) /\ (~AskedNow(p)' => Held(p)' = 0)
    BY <1>1, DuePartsNext
  <2>4. AskedNow(p) => Held(p) = 1
    BY DEF Held
  <2> HIDE DEF unread, unapplied
  <2> QED BY <2>1, <2>2, <2>3, <2>4
<1>13. InMatch /\ Live(p) => Live(p)'
  <2> SUFFICES ASSUME InMatch, Live(p) PROVE Live(p)'
    OBVIOUS
  <2>1. phase' = phase /\ Cardinality(Unapplied(p)') = Cardinality(Unapplied(p))
    BY <1>1, DueParts, DuePartsNext DEF serverVars
  <2>2. CASE Cardinality(Unapplied(p)) >= 1
    BY <2>1, <2>2 DEF Live
  <2>3. ASSUME inbox[p][Len(inbox[p])] \in QuestionsOf(phase), inbox'[p] = << >>,
               inbox[p][Len(inbox[p])] = msg, Len(inbox[p]) = 1
        PROVE  AskedNow(p)'
    <3>1. CASE phase = "play"
      BY <1>4, <1>11, <2>3, <3>1 DEF QuestionsOf
    <3>2. CASE phase = "proposal"
      <4>1. ProposalOn(inbox[p], 1, scr)
        BY <1>3, <2>3, <3>2 DEF Agrees, InPhase
      <4>2. inbox[p][1] = msg /\ msg \in {"AskRevealedAsset", "AskAnotherAsset"}
        BY <2>3, <3>2 DEF QuestionsOf, AssetQuestions
      <4>3. \A j \in 1 .. 1 : j = 1
        OBVIOUS
      <4>4. scr.AssetProposal
        BY <4>1, <4>2, <4>3 DEF ProposalOn, DownAfter
      <4> QED BY <1>4, <1>11, <4>2, <4>4 DEF ProposalAsks
    <3> QED BY <3>1, <3>2 DEF InMatch
  <2>4. CASE inbox[p][Len(inbox[p])] \in QuestionsOf(phase)
    BY <1>2, <2>1, <2>3, <2>4 DEF Live
  <2> QED BY <1>1, <2>2, <2>4 DEF Live
<1>14. QuestionLives' /\ DueBounded'
  BY <1>1, <1>2, <1>7, <1>9, <1>12, <1>13, ClientStep
<1> QED BY <1>7, <1>8, <1>14

(* The two windows of a person that send an answer: what was asked is hid.  *)
LEMMA AnswerKeeps ==
    ASSUME TurnInv, NEW p \in Persons, NEW answer \in Answers, Send(p, answer), UNCHANGED << serverVars, inbox, timerVars >>,
           NEW next \in Screens, screen' = [screen EXCEPT ![p] = next], AskedNow(p),
           next.AssetProposal <=> screen[p].AssetProposal, next.Playable => screen[p].Playable,
           ~next.Playable, ~ProposalAsks(next)
    PROVE  TurnInv'
<1> USE DEF TurnInv
<1>1. p \in Positions /\ p \notin Bots
  BY DEF Persons
<1>2. /\ outbox' \in [Positions -> Seq(Answers \cup {"StartGameRequest"})]
      /\ \A r \in Positions \ {p} : outbox'[r] = outbox[r]
      /\ Cardinality(Matches(outbox'[p], Answers)) = Cardinality(Matches(outbox[p], Answers)) + 1
  BY <1>1, SendAppends
<1>3. /\ screen' \in [Persons -> Screens] /\ screen'[p] = next
      /\ \A r \in Persons \ {p} : screen'[r] = screen[r]
  BY DEF Typed
<1>4. Typed'
  BY <1>2, <1>3 DEF Typed, serverVars, timerVars
<1>5. Agrees(phase, inbox[p], next)
  <2>1. Agrees(phase, inbox[p], screen[p]) /\ screen[p] \in Screens
    BY DEF ScreensAgree, Typed
  <2>2. \A k : /\ CardsOff(inbox[p], k, screen[p]) => CardsOff(inbox[p], k, next)
               /\ ProposalOff(inbox[p], k, screen[p]) => ProposalOff(inbox[p], k, next)
               /\ ProposalOn(inbox[p], k, screen[p]) => ProposalOn(inbox[p], k, next)
    BY DEF CardsOff, ProposalOff, ProposalOn, DownAfter
  <2> QED BY <2>1, <2>2 DEF Agrees, WellAsked, InPhase
<1>6. ScreensAgree'
  <2> SUFFICES ASSUME NEW r \in Persons
               PROVE  Agrees(phase, inbox[r], screen'[r]) /\ ~(ProposalAsks(screen'[r]) /\ screen'[r].Playable)
    BY DEF ScreensAgree, serverVars
  <2>1. CASE r = p
    BY <1>3, <1>5, <2>1
  <2>2. CASE r # p
    BY <1>3, <2>2 DEF ScreensAgree
  <2> QED BY <2>1, <2>2
<1>7. \A r \in Positions \ {p} : AskedNow(r)' <=> AskedNow(r)
  BY <1>3 DEF AskedNow, Asks, AssetIsAsked, timerVars, Persons
<1>8. ~AskedNow(p)'
  BY <1>1, <1>3 DEF AskedNow, Asks, AssetIsAsked, ProposalAsks
<1>9. Due(p)' <= Due(p) /\ Live(p)'
  <2>1. Held(p) = 1 /\ Held(p)' = 0
    BY <1>8 DEF Held
  <2>2. inbox'[p] = inbox[p]
    OBVIOUS
  <2>3. Cardinality(Matches(outbox'[p], Answers)) >= 1
    BY <1>1, <1>2, DueParts
  <2>4. Live(p)'
    BY <1>1, <2>3, DuePartsNext DEF Live
  <2>5. Due(p)' <= Due(p)
    BY <1>1, <1>2, <2>1, <2>2, DueParts, DuePartsNext
  <2> QED BY <2>4, <2>5
<1>10. QuestionLives' /\ DueBounded'
  BY <1>1, <1>2, <1>4, <1>7, <1>9, ClientStep
<1> QED BY <1>4, <1>6, <1>10

LEMMA AssetAnswerKeeps == ASSUME TurnInv, NEW p \in Positions, OnAssetAnswer(p) PROVE TurnInv'
<1> DEFINE next == [screen[p] EXCEPT !.FirstTurn = FALSE, !.SecondTurn = FALSE]
<1>1. p \in Persons /\ p \notin Bots /\ AssetIsAsked(p) /\ UNCHANGED << serverVars, inbox, timerVars >>
  BY DEF OnAssetAnswer, Persons
<1>2. PICK answer \in Answers : Send(p, answer)
  BY DEF OnAssetAnswer, Answers
<1>3. screen[p] \in Screens /\ ~(ProposalAsks(screen[p]) /\ screen[p].Playable)
  BY <1>1 DEF TurnInv, Typed, ScreensAgree
<1>4. screen' = [screen EXCEPT ![p] = next]
  BY <1>1 DEF OnAssetAnswer, HideTurns, TurnInv, Typed
<1>5. next \in Screens /\ ~next.FirstTurn /\ ~next.SecondTurn /\ (next.Playable <=> screen[p].Playable)
      /\ (next.AssetProposal <=> screen[p].AssetProposal)
  BY <1>3 DEF Screens
<1> HIDE DEF next
<1>6. ~next.Playable /\ ~ProposalAsks(next) /\ AskedNow(p)
  BY <1>1, <1>3, <1>5 DEF AssetIsAsked, ProposalAsks, AskedNow, Asks
<1> QED BY <1>1, <1>2, <1>4, <1>5, <1>6, AnswerKeeps

LEMMA CardSelectedKeeps == ASSUME TurnInv, NEW p \in Positions, OnCardSelected(p) PROVE TurnInv'
<1> DEFINE next == [screen[p] EXCEPT !.Playable = FALSE]
<1>1. p \in Persons /\ p \notin Bots /\ screen[p].Playable /\ UNCHANGED << serverVars, inbox, timerVars >>
      /\ Send(p, "PlayCard") /\ "PlayCard" \in Answers
  BY DEF OnCardSelected, Persons, Answers
<1>2. screen[p] \in Screens /\ ~(ProposalAsks(screen[p]) /\ screen[p].Playable)
  BY <1>1 DEF TurnInv, Typed, ScreensAgree
<1>3. screen' = [screen EXCEPT ![p] = next]
  BY <1>1 DEF OnCardSelected, ResetPlayableCards, TurnInv, Typed
<1>4. next \in Screens /\ ~next.Playable /\ (next.FirstTurn <=> screen[p].FirstTurn)
      /\ (next.SecondTurn <=> screen[p].SecondTurn) /\ (next.AssetProposal <=> screen[p].AssetProposal)
  BY <1>2 DEF Screens
<1> HIDE DEF next
<1>5. ~ProposalAsks(next) /\ AskedNow(p)
  BY <1>1, <1>2, <1>4 DEF ProposalAsks, AskedNow, Asks
<1> QED BY <1>1, <1>3, <1>4, <1>5, AnswerKeeps

----------------------------------------------------------------------------
(* What keeps the questions and the answers together holds in every state:  *)
(* the screens agree with the phase once they have read everything, the     *)
(* question of the player on turn is alive, and no more answers are due     *)
(* than matches were started.                                               *)
THEOREM TurnInvAlways == Spec => []TurnInv
<1>1. Init => TurnInv
  BY TurnInvInit
<1>2. TurnInv /\ [Next]_vars => TurnInv'
  <2> SUFFICES ASSUME TurnInv, [Next]_vars PROVE TurnInv'
    OBVIOUS
  <2>1. ASSUME NEW p \in Positions, HandleGameContextPacket(p) PROVE TurnInv'
    <3>1. PICK new, pos : new = phase' /\ pos = m_CurrentPlayer'
      OBVIOUS
    <3>2. Typed'
      BY <2>1, <3>1, ServerTyped DEF TurnInv
    <3>3. ScreensAgree'
      BY <2>1, <3>1, ServerScreens DEF TurnInv
    <3>4. DueBounded' /\ QuestionLives'
      BY <2>1, <3>1, <3>2, ServerDue DEF TurnInv
    <3> QED BY <3>2, <3>3, <3>4 DEF TurnInv
  <2>2. CASE UNCHANGED vars
    BY <2>2 DEF vars, serverVars, timerVars, TurnInv, Typed, ScreensAgree, Agrees, InPhase, QuestionLives, InMatch,
                Live, Unapplied, AskedNow, Asks, AssetIsAsked, DueBounded, AllDue, Due, Unread
  <2> QED BY <2>1, <2>2, StartBtnKeeps, TimerKeeps, BotHearsKeeps, PersonHearsKeeps, AssetAnswerKeeps,
             CardSelectedKeeps DEF Next
<1> QED BY <1>1, <1>2, PTL DEF Spec

(* As long as one match was started, exactly one answer is on its way while *)
(* the server waits for one, and it comes from m_CurrentPlayer, to whom     *)
(* HandleGameContextPacket applies it without looking at the sender.        *)
THEOREM OneAnswerIsDueAlways == Spec => []OneAnswerIsDue
BY TurnInvAlways, TurnInvGives, PTL

(* The server never waits for nobody, and the answers on their way are no   *)
(* more than the matches started.                                           *)
THEOREM AnswersPerStartAlways == Spec => []AnswersPerStart
BY TurnInvAlways, TurnInvGives, PTL
=============================================================================
