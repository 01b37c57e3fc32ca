--------------------------- MODULE RoomViewProofs ---------------------------
(***************************************************************************)
(* What the list of actions tells of a room, for every deck, every set of  *)
(* shuffles, every seating of bots and every length of the list.  A room   *)
(* with its list is a room, so RoomInvariant holds of it; ViewInvariant    *)
(* ties the list to the table, to the cards on it and to the stake.        *)
(***************************************************************************)
EXTENDS RoomView, RoomProofs, FunctionTheorems, WellFoundedInduction

Entry ==
  [kind : {"system", "pass", "play"}, player : Player \cup {NoPlayer}, cards : SUBSET Deck]

LogType == actions \in Seq(Entry) /\ Len(actions) <= HistoryLimit

\* The play at i is the last one, and what has been passed since then: twice if the
\* table was freed, else as often as the room counts.  A play that has dropped out took
\* all before it along, so that only passes on it are left in the list.
Last(i) == i \in LoggedPlays /\ \A j \in LoggedPlays : j <= i
TwoPassesAfter(i) == \E j, k \in LoggedPasses : i < j /\ j < k
CountedAfter(i, n) ==
  /\ n = 0 => \A j \in LoggedPasses : j < i
  /\ n = 1 => \E j \in LoggedPasses : i < j /\ \A k \in LoggedPasses : i < k => k = j
TableInv ==
  /\ phase = "WAITING" => LoggedPlays = {} /\ LoggedPasses = {}
  /\ \A i \in LoggedPlays : Last(i) =>
       IF lastPattern = NoPattern THEN TwoPassesAfter(i)
       ELSE PatternOf[actions[i].cards] = lastPattern /\ CountedAfter(i, passCount)
  /\ LoggedPlays = {} /\ lastPattern # NoPattern =>
       /\ Len(actions) = HistoryLimit
       /\ passCount = 0 => LoggedPasses = {}
       /\ \A j, k \in LoggedPasses : j = k

\* What each player has laid down.
LaidBy == [p \in Player |-> Laid(p)]

\* What is logged was laid down by its player, once; nothing is missing from a list that
\* is not full.
LaidInv ==
  /\ \A i \in LoggedPlays :
       /\ actions[i].player \in Player /\ actions[i].cards # {}
       /\ actions[i].cards \subseteq LaidBy[actions[i].player]
  /\ \A i, j \in LoggedPlays : i # j => actions[i].cards \cap actions[j].cards = {}
  /\ Len(actions) < HistoryLimit => AllTold

\* The bombs in a complete list and the spring are what has doubled the stake.
StakeInv ==
  /\ ~Finished => ~spring
  /\ phase = "WAITING" => multiplier = 1
  /\ AllTold => multiplier = 2^(BombNum + IF spring THEN 1 ELSE 0)

ViewInvariant == LogType /\ TableInv /\ LaidInv /\ StakeInv

-----------------------------------------------------------------------------
\* A room with its list is a room: a step with the list is a step without it.
LEMMA ModelMovesAreMoves ==
  ASSUME RoomInvariant, DecisionDue, DriveSeen
  PROVE  DriveBid \/ DriveMove \/ DriveModelFails
<1>1. CASE DriveBid
  BY <1>1
<1>2. CASE phase = "PLAYING" /\ ModelPlays
  <2>1. PICK cards \in BuildLegalPatterns(current) :
          IF Legal(current, AsPlay(cards))
          THEN PlayCards(current, AsPlay(cards), TRUE) /\ Log(Played(current, cards))
          ELSE DriveModelFails /\ UNCHANGED actions
    BY <1>2 DEF ModelPlays
  <2>2. CASE Legal(current, AsPlay(cards))
    <3>1. current \in Player
      BY DEF DecisionDue, RoomInvariant, FinishOnce, TypeOK, TurnType
    <3>2. hand[current] \in SUBSET Deck
      BY <3>1 DEF RoomInvariant, TypeOK, PlayType
    <3>3. cards \in SUBSET Deck
      BY <2>2, <3>2 DEF Legal, AsPlay
    <3>4. cards \in BuildCandidates(hand[current])
      BY <3>2, <2>1 DEF BuildLegalPatterns, CandidatesOf
    <3>5. EvaluatePattern(cards) # Invalid
      BY <3>4 DEF BuildCandidates
    <3>6. AsPlay(cards) \in Plays
      BY <3>3, <3>5 DEF AsPlay, PatternOf, Plays
    <3> QED
      BY <1>2, <2>1, <2>2, <3>6 DEF DriveMove
  <2> QED
    BY <2>1, <2>2
<1>3. CASE phase = "PLAYING" /\ ModelPasses
  BY <1>3 DEF ModelPasses, DriveMove
<1> QED
  BY <1>1, <1>2, <1>3 DEF DriveSeen

LEMMA ViewStepIsStep ==
  ASSUME RoomInvariant, [ViewNext]_viewVars
  PROVE  [Next]_vars
<1>1. CASE ClientSeen
  BY <1>1 DEF ClientSeen, Client, Next
<1>2. CASE TickDriveSeen
  BY <1>2, ModelMovesAreMoves DEF TickDriveSeen, TickDrive, TickRetry, TickManaged, Next
<1>3. CASE TickTrusteeSeen
  BY <1>3 DEF TickTrusteeSeen, TickManaged, Next
<1>4. CASE Unlogged
  BY <1>4 DEF Unlogged, Client, TickManaged, Next
<1> QED
  BY <1>1, <1>2, <1>3, <1>4 DEF ViewNext, viewVars

\* A room seen through its list behaves as a room.
THEOREM ViewIsARoom == ViewSpec => Spec
<1>1. ViewInit => Init
  BY DEF ViewInit
<1>2. RoomInvariant /\ [ViewNext]_viewVars => [Next]_vars
  BY ViewStepIsStep
<1>3. RoomInvariant /\ [ViewNext]_viewVars => RoomInvariant'
  BY ViewStepIsStep, NextKeeps
<1>4. Init => RoomInvariant
  BY StartGameInit
<1> QED
  BY <1>1, <1>2, <1>3, <1>4, PTL DEF ViewSpec, Spec

-----------------------------------------------------------------------------
\* The size of a list of places does not change when they all move up.
LEMMA ShiftKeepsSize ==
  ASSUME NEW S, IsFiniteSet(S), S \subseteq Nat, NEW d \in {0, 1}
  PROVE  Cardinality({i - d : i \in S}) = Cardinality(S)
<1> DEFINE T == {i - d : i \in S}
           f == [i \in S |-> i - d]
<1>1. f \in [S -> T]
  OBVIOUS
<1>2. \A a, b \in S : f[a] = f[b] => a = b
  OBVIOUS
<1>3. \A t \in T : \E s \in S : f[s] = t
  OBVIOUS
<1>4. f \in Bijection(S, T)
  <2> HIDE DEF f, T
  <2> QED
    BY <1>1, <1>2, <1>3 DEF Bijection, Injection, Surjection, IsInjective
<1>5. ExistsBijection(S, T)
  BY <1>4 DEF ExistsBijection
<1> HIDE DEF T
<1> QED
  BY <1>5, FS_Bijection DEF T

\* A set has twice as many subsets when it has one more element.
LEMMA TwicePower ==
  ASSUME NEW n \in Nat
  PROVE  2^(n + 1) = 2 * 2^n /\ 2^n \in Nat /\ 2^0 = 1
<1> DEFINE A == SUBSET (1..n)
           With == {s \cup {n + 1} : s \in A}
           f == [s \in A |-> s \cup {n + 1}]
<1>1. /\ IsFiniteSet(1..n) /\ Cardinality(1..n) = n
      /\ IsFiniteSet(1..(n + 1)) /\ Cardinality(1..(n + 1)) = n + 1
  <2>1. n \in Int /\ n + 1 \in Int /\ 1 \in Int
    OBVIOUS
  <2> QED
    BY <2>1, FS_Interval
<1>2. IsFiniteSet(A) /\ Cardinality(A) = 2^n
  BY <1>1, FS_SUBSET
<1>3. Cardinality(SUBSET (1..(n + 1))) = 2^(n + 1)
  BY <1>1, FS_SUBSET
<1>4. \A s \in A : n + 1 \notin s
  OBVIOUS
<1>5. f \in Bijection(A, With)
  <2>1. f \in [A -> With]
    OBVIOUS
  <2>2. \A s, t \in A : f[s] = f[t] => s = t
    BY <1>4
  <2>3. \A t \in With : \E s \in A : f[s] = t
    OBVIOUS
  <2> HIDE DEF f, With, A
  <2> QED
    BY <2>1, <2>2, <2>3 DEF Bijection, Injection, Surjection, IsInjective
<1>6. IsFiniteSet(With) /\ Cardinality(With) = Cardinality(A)
  <2> HIDE DEF f, With, A
  <2>1. ExistsBijection(A, With)
    BY <1>5 DEF ExistsBijection
  <2> QED
    BY <1>2, <2>1, FS_Bijection
<1>7. SUBSET (1..(n + 1)) = A \cup With
  <2>1. ASSUME NEW s \in SUBSET (1..(n + 1)) PROVE s \in A \cup With
    <3>1. CASE n + 1 \in s
      <4>1. s \ {n + 1} \in A /\ s = (s \ {n + 1}) \cup {n + 1}
        BY <3>1
      <4> QED
        BY <4>1
    <3>2. CASE n + 1 \notin s
      BY <3>2
    <3> QED
      BY <3>1, <3>2
  <2>2. A \subseteq SUBSET (1..(n + 1)) /\ With \subseteq SUBSET (1..(n + 1))
    <3>1. 1..n \subseteq 1..(n + 1) /\ n + 1 \in 1..(n + 1)
      OBVIOUS
    <3> QED
      BY <3>1
  <2> QED
    BY <2>1, <2>2
<1>8. A \cap With = {}
  BY <1>4
<1>9. Cardinality(A \cup With) = Cardinality(A) + Cardinality(With)
  <2> HIDE DEF A, With
  <2>1. Cardinality(A \cup With) = Cardinality(A) + Cardinality(With) - Cardinality(A \cap With)
    BY <1>2, <1>6, FS_Union
  <2>2. Cardinality(A \cap With) = 0
    BY <1>8, FS_EmptySet
  <2>3. Cardinality(A) \in Nat /\ Cardinality(With) \in Nat
    BY <1>2, <1>6, FS_CardinalityType
  <2> QED
    BY <2>1, <2>2, <2>3
<1>10. Cardinality(A) \in Nat
  BY <1>2, FS_CardinalityType
<1>11. 2^0 = 1
  OBVIOUS
<1>12. Cardinality(SUBSET (1..(n + 1))) = Cardinality(A) + Cardinality(A)
  <2> HIDE DEF A, With
  <2> QED
    BY <1>6, <1>7, <1>9
<1> HIDE DEF A, With
<1> QED
  BY <1>2, <1>3, <1>10, <1>11, <1>12

-----------------------------------------------------------------------------
\* The steps of a room by what they do to the list and to what the list tells of.
\* Bids and trustees are entries of no player; a settlement leaves no entry.
Seen == <<dealt, phase, hand, landlord, lastPattern, passCount, multiplier, spring>>
RestStep == UNCHANGED <<actions, Seen>>
SettleStep ==
  /\ UNCHANGED <<actions, dealt, hand, landlord, lastPattern, passCount>>
  /\ ~Finished /\ phase # "WAITING" /\ Finished'
  /\ multiplier' = IF spring' THEN 2 * multiplier ELSE multiplier
SystemStep == Log(System) /\ UNCHANGED Seen
BidEndStep ==
  /\ Log(System) /\ phase = "WAITING" /\ phase' = "PLAYING"
  /\ landlord' \in Player
  /\ hand' = [hand EXCEPT ![landlord'] = @ \cup dealt.landlordCards]
  /\ UNCHANGED <<dealt, lastPattern, passCount, multiplier, spring>>
PassStep ==
  /\ \E p \in Player : Log(Passed(p))
  /\ phase = "PLAYING" /\ lastPattern # NoPattern
  /\ \/ passCount = 1 /\ lastPattern' = NoPattern
     \/ passCount = 0 /\ passCount' = 1 /\ lastPattern' = lastPattern
  /\ UNCHANGED <<dealt, phase, hand, landlord, multiplier, spring>>
LaysDown(p, cards) ==
  /\ Log(Played(p, cards))
  /\ phase = "PLAYING" /\ cards # {} /\ cards \subseteq hand[p]
  /\ hand' = [hand EXCEPT ![p] = @ \ cards]
  /\ PatternOf[cards] # NoPattern /\ lastPattern' = PatternOf[cards] /\ passCount' = 0
  /\ multiplier' = IF IsBombMove(cards) THEN 2 * multiplier ELSE multiplier
  /\ UNCHANGED <<dealt, phase, landlord, spring>>
PlayStep == \E p \in Player, cards \in SUBSET Deck : LaysDown(p, cards)

LEMMA BidIsSeen ==
  ASSUME RoomInvariant, NEW p \in Player, NEW score \in 0..3, NEW auto,
         phase = "WAITING", CallScore(p, score, auto), Log(System)
  PROVE  SystemStep \/ BidEndStep
<1> DEFINE bid == IF score > 0 THEN score ELSE highestBid
           bidder == IF score > 0 THEN p ELSE highestBidder
           winner == IF bidder = NoPlayer THEN bidStart ELSE bidder
<1>1. UNCHANGED <<dealt, lastPattern, passCount, multiplier, spring>>
  BY DEF CallScore, dealVars, trickVars, countVars, resultVars
<1>2. CASE FinalizeBidding(bid, bidder)
  <2>1. winner \in Player
    BY DEF RoomInvariant, TypeOK, BiddingType
  <2>2. /\ phase' = "PLAYING" /\ landlord' = winner
        /\ hand' = [hand EXCEPT ![winner] = @ \cup dealt.landlordCards]
    BY <1>2 DEF FinalizeBidding, TakeLandlordCards
  <2> HIDE DEF winner
  <2> QED
    BY <1>1, <2>1, <2>2 DEF BidEndStep
<1>3. CASE UNCHANGED <<phase, landlord, hand, baseScore>>
  BY <1>1, <1>3 DEF SystemStep, Seen
<1> QED
  BY <1>2, <1>3 DEF CallScore

LEMMA PlayIsSeen ==
  ASSUME RoomInvariant, NEW p \in Player, NEW play \in Plays, NEW auto, phase = "PLAYING",
         Legal(p, play), PlayCards(p, play, auto), Log(Played(p, play.cards))
  PROVE  PlayStep
<1>1. /\ play.cards \in SUBSET Deck /\ play.cards # {}
      /\ play.pattern = PatternOf[play.cards] /\ play.pattern # NoPattern
  <2>1. PICK s \in SUBSET Deck : play = [cards |-> s, pattern |-> EvaluatePattern(s)]
    BY DEF Plays
  <2>2. play.cards = s /\ play.pattern = EvaluatePattern(s) /\ PatternOf[s] = EvaluatePattern(s)
    BY <2>1 DEF PatternOf
  <2> QED
    BY <2>1, <2>2, PlaysType
<1>2. UNCHANGED <<dealt, phase, landlord, spring>>
  BY DEF PlayCards, dealVars, resultVars
<1>3. multiplier' = IF IsBombMove(play.cards) THEN 2 * multiplier ELSE multiplier
  BY <1>1 DEF PlayCards, IsBombMove
<1>4. LaysDown(p, play.cards)
  BY <1>1, <1>2, <1>3 DEF LaysDown, PlayCards, Legal
<1> QED
  BY <1>1, <1>4 DEF PlayStep

LEMMA PassIsSeen ==
  ASSUME RoomInvariant, NEW p \in Player, NEW auto, phase = "PLAYING",
         ~IsLeadTurnFor(p), Pass(p, auto), Log(Passed(p))
  PROVE  PassStep
<1>1. UNCHANGED <<dealt, phase, hand, landlord, multiplier, spring>>
  BY DEF Pass, dealVars, countVars, resultVars
<1>2. lastPattern # NoPattern
  BY DEF IsLeadTurnFor
<1>3. passCount \in 0..1
  BY DEF RoomInvariant, TypeOK, PlayType
<1>4. \/ passCount = 1 /\ lastPattern' = NoPattern
      \/ passCount = 0 /\ passCount' = 1 /\ lastPattern' = lastPattern
  BY <1>3 DEF Pass, TrickOver, ClearTable
<1> QED
  BY <1>1, <1>2, <1>4 DEF PassStep

LEMMA SettleIsSeen ==
  ASSUME RoomInvariant, TickFinish, UNCHANGED actions
  PROVE  RestStep \/ SettleStep
<1>1. UNCHANGED <<dealt, hand, landlord, lastPattern, passCount>>
  BY DEF TickFinish, CompletePendingFinish, dealVars, trickVars
<1>2. CASE hand[pendingWinner] # {}
  BY <1>1, <1>2 DEF TickFinish, CompletePendingFinish, RestStep, Seen
<1>3. CASE hand[pendingWinner] = {}
  <2>1. phase = "PLAYING"
    BY DEF TickFinish, FinishDue, RoomInvariant, WinnerInv
  <2>2. /\ Finished' /\ spring' = Spring(pendingWinner)
        /\ multiplier' = IF Spring(pendingWinner) THEN 2 * multiplier ELSE multiplier
    BY <1>3 DEF TickFinish, CompletePendingFinish, Finished
  <2> QED
    BY <1>1, <2>1, <2>2 DEF SettleStep, Finished
<1> QED
  BY <1>2, <1>3

LEMMA ModelIsSeen ==
  ASSUME RoomInvariant, DecisionDue, DriveSeen
  PROVE  RestStep \/ SystemStep \/ BidEndStep \/ PassStep \/ PlayStep
<1>1. current \in Player
  BY DEF DecisionDue, RoomInvariant, FinishOnce, TypeOK, TurnType
<1>2. ASSUME DriveModelFails, UNCHANGED actions PROVE RestStep
  BY <1>2 DEF DriveModelFails, dealVars, trickVars, countVars, resultVars, RestStep, Seen
<1>3. CASE DriveBid /\ (IF bidTurns' = bidTurns THEN UNCHANGED actions ELSE Log(System))
  <2>1. PICK level \in 0..3 :
          IF BidAccepted(ChooseBidAction(level, highestBid))
          THEN CallScore(current, ChooseBidAction(level, highestBid), TRUE)
          ELSE UNCHANGED <<dealVars, phase, hand, landlord, managed, biddingVars, trickVars,
                           countVars, resultVars, current, idle, finishVars, clientVars>>
    BY <1>3 DEF DriveBid
  <2>2. ChooseBidAction(level, highestBid) \in 0..3
    BY DEF ChooseBidAction
  <2>3. bidTurns \in 0..3
    BY DEF RoomInvariant, TypeOK, BiddingType
  <2>4. CASE BidAccepted(ChooseBidAction(level, highestBid))
    <3>1. bidTurns' = bidTurns + 1
      BY <2>1, <2>4 DEF CallScore
    <3>2. Log(System)
      BY <1>3, <2>3, <3>1
    <3> QED
      BY <1>1, <1>3, <2>1, <2>2, <2>4, <3>2, BidIsSeen DEF DriveBid
  <2>5. CASE ~BidAccepted(ChooseBidAction(level, highestBid))
    <3>1. UNCHANGED actions
      BY <1>3, <2>1, <2>5 DEF biddingVars
    <3> QED
      BY <2>1, <2>5, <3>1 DEF dealVars, trickVars, countVars, resultVars, RestStep, Seen
  <2> QED
    BY <2>4, <2>5
<1>4. CASE phase = "PLAYING" /\ ModelPlays
  <2>1. PICK cards \in BuildLegalPatterns(current) :
          IF Legal(current, AsPlay(cards))
          THEN PlayCards(current, AsPlay(cards), TRUE) /\ Log(Played(current, cards))
          ELSE DriveModelFails /\ UNCHANGED actions
    BY <1>4 DEF ModelPlays
  <2>2. CASE Legal(current, AsPlay(cards))
    <3>1. AsPlay(cards) \in Plays /\ AsPlay(cards).cards = cards
      <4>1. hand[current] \in SUBSET Deck
        BY <1>1 DEF RoomInvariant, TypeOK, PlayType
      <4>2. cards \in SUBSET Deck
        BY <2>2, <4>1 DEF Legal, AsPlay
      <4>3. EvaluatePattern(cards) # Invalid
        BY <4>1, <2>1 DEF BuildLegalPatterns, CandidatesOf, BuildCandidates
      <4> QED
        BY <4>2, <4>3 DEF AsPlay, PatternOf, Plays
    <3> QED
      BY <1>1, <1>4, <2>1, <2>2, <3>1, PlayIsSeen
  <2> QED
    BY <1>2, <2>1, <2>2
<1>5. CASE phase = "PLAYING" /\ ModelPasses
  BY <1>1, <1>2, <1>5, PassIsSeen DEF ModelPasses
<1> QED
  BY <1>3, <1>4, <1>5 DEF DriveSeen

LEMMA StepIsSeen ==
  ASSUME RoomInvariant, [ViewNext]_viewVars
  PROVE  RestStep \/ SettleStep \/ SystemStep \/ BidEndStep \/ PassStep \/ PlayStep
<1> USE DEF dealVars, trickVars, countVars, resultVars
<1>1. CASE ClientSeen
  <2>1. ASSUME NEW p \in Humans, NEW score \in 0..3, ClientBids(p, score), Log(System)
        PROVE  SystemStep \/ BidEndStep
    BY <2>1, BidIsSeen DEF ClientBids, Humans
  <2>2. ASSUME NEW p \in Humans, NEW play \in Plays, ClientPlays(p, play), Log(Played(p, play.cards))
        PROVE  PlayStep
    BY <2>2, PlayIsSeen DEF ClientPlays, Humans
  <2>3. ASSUME NEW p \in Humans, ClientPasses(p), Log(Passed(p)) PROVE PassStep
    BY <2>3, PassIsSeen DEF ClientPasses, Humans
  <2>4. ASSUME NEW p \in Humans, NEW on \in BOOLEAN, SetManaged(p, on), Log(System) PROVE SystemStep
    BY <2>4 DEF SetManaged, SystemStep, Seen
  <2> QED
    BY <1>1, <2>1, <2>2, <2>3, <2>4 DEF ClientSeen
<1>2. CASE TickDriveSeen
  BY <1>2, ModelIsSeen DEF TickDriveSeen
<1>3. CASE TickTrusteeSeen
  BY <1>3 DEF TickTrusteeSeen, TickTrustee, EnterTrustee, SystemStep, Seen
<1>4. CASE Unlogged /\ UNCHANGED actions
  <2>1. CASE \E p \in Humans : ClientPlaysInvalid(p)
    BY <1>4, <2>1 DEF ClientPlaysInvalid, RestStep, Seen
  <2>2. CASE TickFinish
    BY <1>4, <2>2, SettleIsSeen
  <2>3. CASE Elapse
    BY <1>4, <2>3 DEF Elapse, ElapseDecision, ElapseTurn, ElapseFinish, ElapseGate, Unmoved,
                      RestStep, Seen
  <2>4. CASE Over
    BY <1>4, <2>4 DEF Over, vars, RestStep, Seen
  <2> QED
    BY <1>4, <2>1, <2>2, <2>3, <2>4 DEF Unlogged
<1>5. CASE UNCHANGED viewVars
  BY <1>5 DEF viewVars, vars, RestStep, Seen
<1> QED
  BY <1>1, <1>2, <1>3, <1>4, <1>5 DEF ViewNext

-----------------------------------------------------------------------------
\* An entry goes to the end of the list; the places before it move up by one once the
\* list is full.
Shift(d, e) ==
  /\ d = IF Len(actions) < HistoryLimit THEN 0 ELSE 1
  /\ Len(actions') = Len(actions) + 1 - d
  /\ actions' \in Seq(Entry)
  /\ actions'[Len(actions) + 1 - d] = e
  /\ \A i \in 1..Len(actions) : i > d => actions'[i - d] = actions[i]

LEMMA LogShifts ==
  ASSUME LogType, NEW e \in Entry, Log(e)
  PROVE  LogType' /\ \E d \in {0, 1} : Shift(d, e)
<1> DEFINE s == Append(actions, e)
           n == Len(actions)
<1>1. /\ s \in Seq(Entry) /\ Len(s) = n + 1 /\ n \in Nat
      /\ s[n + 1] = e /\ \A i \in 1..n : s[i] = actions[i]
  BY DEF LogType
<1>2. HistoryLimit \in Nat \ {0} /\ n <= HistoryLimit
  BY ViewAssumption DEF LogType
<1>3. actions' = IF n + 1 <= HistoryLimit THEN s ELSE Tail(s)
  BY <1>1 DEF Log, Latest
<1> HIDE DEF s
<1>4. CASE n < HistoryLimit
  <2>1. actions' = s
    BY <1>1, <1>2, <1>3, <1>4
  <2>2. Shift(0, e)
    BY <1>1, <1>2, <1>4, <2>1 DEF Shift
  <2>3. LogType'
    BY <1>1, <1>2, <1>4, <2>1 DEF LogType
  <2> QED
    BY <2>2, <2>3
<1>5. CASE n = HistoryLimit
  <2>1. actions' = Tail(s)
    BY <1>1, <1>2, <1>3, <1>5
  <2>2. s # << >>
    BY <1>1
  <2>3. /\ Tail(s) \in Seq(Entry) /\ Len(Tail(s)) = n
        /\ \A i \in 1..n : Tail(s)[i] = s[i + 1]
    BY <1>1, <2>2
  <2>4. actions'[n] = e /\ Len(actions') = n /\ actions' \in Seq(Entry)
    BY <1>1, <1>2, <1>5, <2>1, <2>3
  <2>5. \A i \in 1..n : i > 1 => actions'[i - 1] = actions[i]
    BY <1>1, <2>1, <2>3
  <2>6. Shift(1, e)
    BY <1>1, <1>2, <1>5, <2>4, <2>5 DEF Shift
  <2>7. LogType'
    BY <1>2, <1>5, <2>4 DEF LogType
  <2> QED
    BY <2>6, <2>7
<1> QED
  BY <1>1, <1>2, <1>4, <1>5

\* The entries of one kind after a step, place by place: those before that have not
\* dropped out, and the new one.
LEMMA PlacesShift ==
  ASSUME LogType, LogType', NEW e \in Entry, NEW d \in {0, 1}, Shift(d, e), NEW kind
  PROVE  /\ \A i \in Entries(kind)' :
              \/ e.kind = kind /\ i = Len(actions) + 1 - d
              \/ i + d \in Entries(kind) /\ i \in 1..(Len(actions) - d) /\ actions'[i] = actions[i + d]
         /\ \A i \in Entries(kind) : i > d => i - d \in Entries(kind)' /\ actions'[i - d] = actions[i]
         /\ e.kind = kind => Len(actions) + 1 - d \in Entries(kind)'
         /\ Entries(kind) \subseteq 1..Len(actions) /\ Len(actions) \in Nat
         /\ actions'[Len(actions) + 1 - d] = e
<1> DEFINE n == Len(actions)
<1>1. /\ n \in Nat /\ DOMAIN actions = 1..n /\ DOMAIN actions' = 1..(n + 1 - d)
      /\ n = 0 => d = 0
  BY ViewAssumption DEF LogType, Shift
<1>2. Entries(kind) = {i \in 1..n : actions[i].kind = kind}
  BY <1>1 DEF Entries
<1>3. Entries(kind)' = {i \in 1..(n + 1 - d) : actions'[i].kind = kind}
  BY <1>1 DEF Entries
<1>4. \A i \in 1..n : i > d => actions'[i - d] = actions[i]
  BY DEF Shift
<1>5. actions'[n + 1 - d] = e
  BY DEF Shift
<1> HIDE DEF n
<1>6. ASSUME NEW i \in Entries(kind)', i # n + 1 - d
      PROVE  i + d \in Entries(kind) /\ i \in 1..(n - d) /\ actions'[i] = actions[i + d]
  <2>1. i + d \in 1..n /\ i + d > d /\ i = (i + d) - d /\ i \in 1..(n - d)
    BY <1>1, <1>3, <1>6
  <2>2. actions'[i] = actions[i + d]
    BY <1>4, <2>1
  <2> QED
    BY <1>2, <1>3, <2>1, <2>2
<1>7. ASSUME NEW i \in Entries(kind)', i = n + 1 - d PROVE e.kind = kind
  BY <1>3, <1>5, <1>7
<1>8. ASSUME NEW i \in Entries(kind), i > d
      PROVE  i - d \in Entries(kind)' /\ actions'[i - d] = actions[i]
  <2>1. actions'[i - d] = actions[i] /\ i - d \in 1..(n + 1 - d)
    BY <1>1, <1>2, <1>4, <1>8
  <2> QED
    BY <1>2, <1>3, <2>1
<1>9. ASSUME e.kind = kind PROVE n + 1 - d \in Entries(kind)'
  <2>1. n + 1 - d \in 1..(n + 1 - d)
    BY <1>1
  <2> QED
    BY <1>3, <1>5, <1>9, <2>1
<1>10. Entries(kind) \subseteq 1..n
  BY <1>2
<1> QED
  BY <1>1, <1>5, <1>6, <1>7, <1>8, <1>9, <1>10 DEF n

\* When no play is added, the last play stays the last one until it drops out, and the
\* passes that are left then were all made on it.
LEMMA TableShift ==
  ASSUME LogType, LogType', TableInv, passCount \in 0..1, NEW e \in Entry, e.kind # "play",
         NEW d \in {0, 1}, Shift(d, e)
  PROVE  /\ \A i \in LoggedPlays' : (\A j \in LoggedPlays' : j <= i) =>
              i \in Nat /\ i >= 1 /\ actions'[i] = actions[i + d] /\ i + d \in LoggedPlays /\ Last(i + d)
         /\ LoggedPlays' = {} /\ lastPattern # NoPattern =>
              /\ d = 1 /\ Len(actions) = HistoryLimit
              /\ passCount = 0 => \A j \in LoggedPasses : j <= d
              /\ \A j, k \in LoggedPasses : j > d /\ k > d => j = k
<1> DEFINE n == Len(actions)
           P == LoggedPlays
           Q == LoggedPasses
<1>1. /\ \A i \in LoggedPlays' : i + d \in P /\ i \in 1..(n - d) /\ actions'[i] = actions[i + d]
      /\ \A i \in P : i > d => i - d \in LoggedPlays'
      /\ P \subseteq 1..n /\ n \in Nat
  BY PlacesShift DEF LoggedPlays
<1>2. Q \subseteq 1..n
  BY PlacesShift DEF LoggedPasses
<1>3. HistoryLimit \in Nat /\ (d = 1 => n = HistoryLimit) /\ (n = HistoryLimit => d = 1)
  BY <1>1, ViewAssumption DEF Shift, LogType
<1>4. ASSUME NEW i \in LoggedPlays', \A j \in LoggedPlays' : j <= i
      PROVE  i \in Nat /\ i >= 1 /\ actions'[i] = actions[i + d] /\ i + d \in LoggedPlays /\ Last(i + d)
  <2>1. i + d \in P /\ i \in 1..(n - d) /\ actions'[i] = actions[i + d]
    BY <1>1
  <2>2. ASSUME NEW j \in P PROVE j <= i + d
    <3>1. CASE j > d
      <4>1. j - d <= i
        BY <1>1, <1>4, <3>1
      <4> QED
        BY <1>1, <2>1, <4>1
    <3>2. CASE ~(j > d)
      BY <1>1, <2>1, <3>2
    <3> QED
      BY <3>1, <3>2
  <2> QED
    BY <1>1, <2>1, <2>2 DEF Last
<1>5. ASSUME LoggedPlays' = {}, lastPattern # NoPattern
      PROVE  /\ d = 1 /\ Len(actions) = HistoryLimit
             /\ passCount = 0 => \A j \in LoggedPasses : j <= d
             /\ \A j, k \in LoggedPasses : j > d /\ k > d => j = k
  <2>1. CASE P = {}
    BY <1>2, <1>3, <1>5, <2>1 DEF TableInv
  <2>2. CASE P # {}
    <3>1. PICK i \in P : TRUE
      BY <2>2
    <3>2. \A j \in P : j <= d
      BY <1>1, <1>5
    <3>3. d = 1 /\ i = 1 /\ Last(i)
      BY <1>1, <3>1, <3>2 DEF Last
    <3>4. CountedAfter(1, passCount)
      BY <1>5, <3>3 DEF TableInv
    <3>5. \A j \in Q : j \in Nat /\ j >= 1
      BY <1>2
    <3>6. passCount = 0 => Q = {}
      BY <3>4, <3>5 DEF CountedAfter
    <3>7. passCount = 1 => \A j, k \in Q : j > 1 /\ k > 1 => j = k
      BY <3>4, <3>5 DEF CountedAfter
    <3> QED
      BY <1>3, <3>3, <3>6, <3>7
  <2> QED
    BY <2>1, <2>2
<1> QED
  BY <1>4, <1>5

\* A bid or a switch of a trustee leaves the table as it was.
LEMMA TableAfterSystem ==
  ASSUME LogType, TableInv, passCount \in 0..1, Log(System),
         phase' = "WAITING" => phase = "WAITING", UNCHANGED <<lastPattern, passCount>>
  PROVE  LogType' /\ TableInv'
<1> DEFINE n == Len(actions)
<1>1. System \in Entry /\ System.kind = "system"
  BY DEF System, Entry
<1>2. LogType' /\ \E d \in {0, 1} : Shift(d, System)
  BY <1>1, LogShifts
<1>3. PICK d \in {0, 1} : Shift(d, System)
  BY <1>2
<1>4. /\ \A i \in LoggedPasses' : i + d \in LoggedPasses /\ i \in 1..(n - d)
      /\ \A i \in LoggedPasses : i > d => i - d \in LoggedPasses'
      /\ LoggedPasses \subseteq 1..n /\ n \in Nat
  BY <1>1, <1>2, <1>3, PlacesShift DEF LoggedPasses
<1>5. \A i \in LoggedPlays' : i + d \in LoggedPlays
  BY <1>1, <1>2, <1>3, PlacesShift DEF LoggedPlays
<1>6. /\ \A i \in LoggedPlays' : (\A j \in LoggedPlays' : j <= i) =>
           i \in Nat /\ i >= 1 /\ actions'[i] = actions[i + d] /\ i + d \in LoggedPlays /\ Last(i + d)
      /\ LoggedPlays' = {} /\ lastPattern # NoPattern =>
           /\ d = 1 /\ Len(actions) = HistoryLimit
           /\ passCount = 0 => \A j \in LoggedPasses : j <= d
           /\ \A j, k \in LoggedPasses : j > d /\ k > d => j = k
  BY <1>1, <1>2, <1>3, TableShift
<1>7. phase' = "WAITING" => LoggedPlays' = {} /\ LoggedPasses' = {}
  BY <1>4, <1>5 DEF TableInv
<1>8. ASSUME NEW i \in LoggedPlays', \A j \in LoggedPlays' : j <= i
      PROVE  IF lastPattern' = NoPattern THEN TwoPassesAfter(i)'
             ELSE PatternOf[actions'[i].cards] = lastPattern' /\ CountedAfter(i, passCount)'
  <2>1. i \in Nat /\ i >= 1 /\ actions'[i] = actions[i + d] /\ i + d \in LoggedPlays /\ Last(i + d)
    BY <1>6, <1>8
  <2>2. CASE lastPattern = NoPattern
    <3>1. PICK j, k \in LoggedPasses : i + d < j /\ j < k
      BY <2>1, <2>2 DEF TableInv, TwoPassesAfter
    <3>2. j - d \in LoggedPasses' /\ k - d \in LoggedPasses' /\ i < j - d /\ j - d < k - d
      BY <1>4, <2>1, <3>1
    <3> QED
      BY <2>2, <3>2 DEF TwoPassesAfter
  <2>3. CASE lastPattern # NoPattern
    <3>1. PatternOf[actions[i + d].cards] = lastPattern /\ CountedAfter(i + d, passCount)
      BY <2>1, <2>3 DEF TableInv
    <3>2. ASSUME passCount = 0 PROVE \A j \in LoggedPasses' : j < i
      BY <1>4, <2>1, <3>1, <3>2 DEF CountedAfter
    <3>3. ASSUME passCount = 1
          PROVE  \E j \in LoggedPasses' : i < j /\ \A k \in LoggedPasses' : i < k => k = j
      <4>1. PICK j \in LoggedPasses : i + d < j /\ \A k \in LoggedPasses : i + d < k => k = j
        BY <3>1, <3>3 DEF CountedAfter
      <4>2. j - d \in LoggedPasses' /\ i < j - d
        BY <1>4, <2>1, <4>1
      <4>3. \A k \in LoggedPasses' : i < k => k = j - d
        BY <1>4, <2>1, <4>1
      <4> QED
        BY <4>2, <4>3
    <3> QED
      BY <2>1, <2>3, <3>1, <3>2, <3>3 DEF CountedAfter
  <2> QED
    BY <2>2, <2>3
<1>9. ASSUME LoggedPlays' = {}, lastPattern' # NoPattern
      PROVE  /\ Len(actions') = HistoryLimit
             /\ passCount' = 0 => LoggedPasses' = {}
             /\ \A j, k \in LoggedPasses' : j = k
  <2>1. /\ d = 1 /\ n = HistoryLimit
        /\ passCount = 0 => \A j \in LoggedPasses : j <= d
        /\ \A j, k \in LoggedPasses : j > d /\ k > d => j = k
    BY <1>6, <1>9
  <2>2. Len(actions') = HistoryLimit
    BY <1>3, <1>4, <2>1 DEF Shift
  <2>3. \A j \in LoggedPasses' : j + d \in LoggedPasses /\ j + d > d /\ j \in Nat
    BY <1>4
  <2> QED
    BY <1>4, <2>1, <2>2, <2>3
<1> QED
  BY <1>2, <1>7, <1>8, <1>9 DEF TableInv, Last

\* A pass is one more on the last play, or the second, which frees the table.
LEMMA TableAfterPass ==
  ASSUME LogType, TableInv, PassStep
  PROVE  LogType' /\ TableInv'
<1> DEFINE n == Len(actions)
<1>0. PICK p \in Player : Log(Passed(p))
  BY DEF PassStep
<1> DEFINE e == Passed(p)
<1>1. e \in Entry /\ e.kind = "pass"
  BY DEF Passed, Entry
<1> HIDE DEF e
<1>2. LogType' /\ \E d \in {0, 1} : Shift(d, e)
  BY <1>0, <1>1, LogShifts DEF e
<1>3. PICK d \in {0, 1} : Shift(d, e)
  BY <1>2
<1>4. /\ \A i \in LoggedPasses' : i = n + 1 - d \/ (i + d \in LoggedPasses /\ i \in 1..(n - d))
      /\ \A i \in LoggedPasses : i > d => i - d \in LoggedPasses'
      /\ n + 1 - d \in LoggedPasses'
      /\ LoggedPasses \subseteq 1..n /\ n \in Nat
  BY <1>1, <1>2, <1>3, PlacesShift DEF LoggedPasses
<1>5. /\ \A i \in LoggedPlays' : (\A j \in LoggedPlays' : j <= i) =>
           i \in Nat /\ i >= 1 /\ actions'[i] = actions[i + d] /\ i + d \in LoggedPlays /\ Last(i + d)
      /\ LoggedPlays' = {} /\ lastPattern # NoPattern =>
           /\ d = 1 /\ Len(actions) = HistoryLimit
           /\ passCount = 0 => \A j \in LoggedPasses : j <= d
           /\ \A j, k \in LoggedPasses : j > d /\ k > d => j = k
  <2>1. e.kind # "play" /\ passCount \in 0..1
    BY <1>1 DEF PassStep
  <2> QED
    BY <1>1, <1>2, <1>3, <2>1, TableShift
<1>6. phase' # "WAITING" /\ lastPattern # NoPattern
  BY DEF PassStep
<1>7. ASSUME NEW i \in LoggedPlays', \A j \in LoggedPlays' : j <= i
      PROVE  IF lastPattern' = NoPattern THEN TwoPassesAfter(i)'
             ELSE PatternOf[actions'[i].cards] = lastPattern' /\ CountedAfter(i, passCount)'
  <2>1. /\ i \in Nat /\ i >= 1 /\ actions'[i] = actions[i + d]
        /\ i + d \in LoggedPlays /\ Last(i + d) /\ i + d \in 1..n
    <3>1. LoggedPlays \subseteq 1..n
      BY <1>1, <1>2, <1>3, PlacesShift DEF LoggedPlays
    <3> QED
      BY <1>5, <1>7, <3>1
  <2>2. PatternOf[actions[i + d].cards] = lastPattern /\ CountedAfter(i + d, passCount)
    BY <1>6, <2>1 DEF TableInv
  <2>3. CASE passCount = 1 /\ lastPattern' = NoPattern
    <3>1. PICK j \in LoggedPasses : i + d < j
      BY <2>2, <2>3 DEF CountedAfter
    <3>2. j - d \in LoggedPasses' /\ i < j - d /\ j - d < n + 1 - d
      BY <1>4, <2>1, <3>1
    <3> QED
      BY <1>4, <2>3, <3>2 DEF TwoPassesAfter
  <2>4. CASE passCount = 0 /\ passCount' = 1 /\ lastPattern' = lastPattern
    <3>1. \A j \in LoggedPasses : j < i + d
      BY <2>2, <2>4 DEF CountedAfter
    <3>2. \A k \in LoggedPasses' : i < k => k = n + 1 - d
      BY <1>4, <2>1, <3>1
    <3>3. n + 1 - d \in LoggedPasses' /\ i < n + 1 - d
      BY <1>4, <2>1
    <3>4. CountedAfter(i, passCount)'
      BY <2>4, <3>2, <3>3 DEF CountedAfter
    <3> QED
      BY <1>6, <2>1, <2>2, <2>4, <3>4
  <2> QED
    BY <2>3, <2>4 DEF PassStep
<1>8. ASSUME LoggedPlays' = {}, lastPattern' # NoPattern
      PROVE  /\ Len(actions') = HistoryLimit
             /\ passCount' = 0 => LoggedPasses' = {}
             /\ \A j, k \in LoggedPasses' : j = k
  <2>1. passCount = 0 /\ passCount' = 1
    BY <1>8 DEF PassStep
  <2>2. d = 1 /\ n = HistoryLimit /\ \A j \in LoggedPasses : j <= d
    BY <1>5, <1>6, <1>8, <2>1
  <2>3. Len(actions') = HistoryLimit
    BY <1>3, <1>4, <2>2 DEF Shift
  <2>4. \A j \in LoggedPasses' : j = n + 1 - d
    BY <1>4, <2>2
  <2> QED
    BY <2>1, <2>3, <2>4
<1> QED
  BY <1>2, <1>6, <1>7, <1>8 DEF TableInv, Last

\* A play is the last one from then on, and nobody has passed on it.
LEMMA TableAfterPlay ==
  ASSUME LogType, TableInv, PlayStep
  PROVE  LogType' /\ TableInv'
<1> DEFINE n == Len(actions)
<1>0. PICK p \in Player, cards \in SUBSET Deck : LaysDown(p, cards)
  BY DEF PlayStep
<1> DEFINE e == Played(p, cards)
<1>1. e \in Entry /\ e.kind = "play" /\ e.cards = cards
  BY DEF Played, Entry
<1> HIDE DEF e
<1>2. LogType' /\ \E d \in {0, 1} : Shift(d, e)
  BY <1>0, <1>1, LogShifts DEF e, LaysDown
<1>3. PICK d \in {0, 1} : Shift(d, e)
  BY <1>2
<1>4. /\ \A i \in LoggedPasses' : i \in 1..(n - d)
      /\ n \in Nat
  BY <1>1, <1>2, <1>3, PlacesShift DEF LoggedPasses
<1>5. /\ \A i \in LoggedPlays' : i = n + 1 - d \/ i \in 1..(n - d)
      /\ n + 1 - d \in LoggedPlays'
      /\ actions'[n + 1 - d] = e
  BY <1>1, <1>2, <1>3, PlacesShift DEF LoggedPlays
<1>6. /\ phase' # "WAITING" /\ lastPattern' # NoPattern /\ passCount' = 0
      /\ lastPattern' = PatternOf[cards]
  BY <1>0 DEF LaysDown
<1>7. ASSUME NEW i \in LoggedPlays', \A j \in LoggedPlays' : j <= i
      PROVE  PatternOf[actions'[i].cards] = lastPattern' /\ CountedAfter(i, passCount)'
  <2>1. i = n + 1 - d
    BY <1>4, <1>5, <1>7
  <2>2. \A j \in LoggedPasses' : j < i
    BY <1>4, <2>1
  <2> QED
    BY <1>1, <1>5, <1>6, <2>1, <2>2 DEF CountedAfter
<1> QED
  BY <1>2, <1>5, <1>6, <1>7 DEF TableInv, Last

-----------------------------------------------------------------------------
\* The cards dealt to different players are different, and players hold of theirs.
LEMMA GivenApart ==
  ASSUME RoomInvariant
  PROVE  /\ \A p \in Player : hand[p] \subseteq Given(p) /\ Given(p) \subseteq Deck
         /\ \A p, q \in Player : p # q => Given(p) \cap Given(q) = {}
<1>1. dealt \in Deal /\ Shared(dealt)
  BY RoomAssumption DEF RoomInvariant, TypeOK, BiddingType
<1>2. \A p \in Player : hand[p] \subseteq Given(p)
  BY DEF RoomInvariant, CardsAccounted
<1>3. \A p \in Player : Given(p) \subseteq Deck
  BY <1>1 DEF Deal, Given
<1>4. \A p, q \in Player : p # q => Given(p) \cap Given(q) = {}
  BY <1>1 DEF Shared, Given
<1> QED
  BY <1>2, <1>3, <1>4

\* What an entry tells besides.
AllLaid == UNION {LaidBy[p] : p \in Player}
NewCards(e) == IF e.kind = "play" THEN e.cards ELSE {}
NewBomb(e) == IF e.kind = "play" /\ IsBombMove(e.cards) THEN 1 ELSE 0
Bombs == {i \in LoggedPlays : IsBombMove(actions[i].cards)}

\* While no play drops out, the list tells all it told before and the new play.
LEMMA NothingDropped ==
  ASSUME LogType, LogType', NEW e \in Entry, NEW d \in {0, 1}, Shift(d, e),
         \A i \in LoggedPlays : i > d
  PROVE  /\ LoggedCards' = LoggedCards \cup NewCards(e)
         /\ BombNum' = BombNum + NewBomb(e) /\ BombNum \in Nat
<1> DEFINE n == Len(actions)
<1>1. /\ \A i \in LoggedPlays' :
           \/ e.kind = "play" /\ i = n + 1 - d
           \/ i + d \in LoggedPlays /\ i \in 1..(n - d) /\ actions'[i] = actions[i + d]
      /\ \A i \in LoggedPlays : i - d \in LoggedPlays' /\ actions'[i - d] = actions[i]
      /\ e.kind = "play" => n + 1 - d \in LoggedPlays'
      /\ LoggedPlays \subseteq 1..n /\ n \in Nat
      /\ actions'[n + 1 - d] = e
  BY PlacesShift DEF LoggedPlays
<1>2. LoggedCards' = LoggedCards \cup NewCards(e)
  <2>1. ASSUME NEW c \in LoggedCards' PROVE c \in LoggedCards \cup NewCards(e)
    <3>1. PICK i \in LoggedPlays' : c \in actions'[i].cards
      BY <2>1 DEF LoggedCards
    <3> QED
      BY <1>1, <3>1 DEF LoggedCards, NewCards
  <2>2. ASSUME NEW c \in LoggedCards PROVE c \in LoggedCards'
    <3>1. PICK i \in LoggedPlays : c \in actions[i].cards
      BY <2>2 DEF LoggedCards
    <3> QED
      BY <1>1, <3>1 DEF LoggedCards
  <2>3. ASSUME NEW c \in NewCards(e) PROVE c \in LoggedCards'
    BY <1>1, <2>3 DEF LoggedCards, NewCards
  <2> QED
    BY <2>1, <2>2, <2>3
<1>3. IsFiniteSet(Bombs) /\ Bombs \subseteq Nat
  <2>1. Bombs \in SUBSET (1..n)
    BY <1>1 DEF Bombs
  <2>4. n \in Int /\ 1 \in Int
    BY <1>1
  <2>3. Bombs \subseteq Nat
    BY <2>1
  <2> HIDE DEF n
  <2>2. IsFiniteSet(1..n)
    BY <2>4, FS_Interval
  <2> QED
    BY <2>1, <2>2, <2>3, FS_Subset
<1> DEFINE Old == {i - d : i \in Bombs}
<1>4. Cardinality(Old) = Cardinality(Bombs) /\ IsFiniteSet(Old)
  <2>1. Cardinality(Old) = Cardinality(Bombs)
    BY <1>3, ShiftKeepsSize
  <2>2. Old \in SUBSET (0..n) /\ n \in Int /\ 0 \in Int
    BY <1>1 DEF Bombs
  <2> HIDE DEF Old, n
  <2>3. IsFiniteSet(0..n)
    BY <2>2, FS_Interval
  <2> QED
    BY <2>1, <2>2, <2>3, FS_Subset
<1>5. Bombs' = Old \cup (IF NewBomb(e) = 1 THEN {n + 1 - d} ELSE {})
  <2>1. ASSUME NEW i \in Bombs' PROVE i \in Old \/ (NewBomb(e) = 1 /\ i = n + 1 - d)
    <3>1. i \in LoggedPlays' /\ IsBombMove(actions'[i].cards)
      BY <2>1 DEF Bombs, IsBombMove
    <3>2. CASE e.kind = "play" /\ i = n + 1 - d
      BY <1>1, <3>1, <3>2 DEF NewBomb
    <3>3. CASE i + d \in LoggedPlays /\ i \in 1..(n - d) /\ actions'[i] = actions[i + d]
      <4>1. i + d \in Bombs /\ i = (i + d) - d
        BY <3>1, <3>3 DEF Bombs
      <4> QED
        BY <4>1
    <3> QED
      BY <1>1, <3>1, <3>2, <3>3
  <2>2. ASSUME NEW i \in Bombs PROVE i - d \in Bombs'
    BY <1>1 DEF Bombs, IsBombMove
  <2>3. ASSUME NewBomb(e) = 1 PROVE n + 1 - d \in Bombs'
    BY <1>1, <2>3 DEF Bombs, NewBomb, IsBombMove
  <2> QED
    BY <2>1, <2>2, <2>3
<1>6. n + 1 - d \notin Old
  BY <1>1 DEF Bombs
<1>7. BombNum = Cardinality(Bombs) /\ BombNum' = Cardinality(Bombs')
  BY DEF BombNum, Bombs
<1>8. NewBomb(e) \in {0, 1}
  BY DEF NewBomb
<1>9. Cardinality(Bombs) \in Nat
  BY <1>3, FS_CardinalityType
<1>10. BombNum' = BombNum + NewBomb(e)
  <2> HIDE DEF Old, n
  <2>1. CASE NewBomb(e) = 1
    <3>1. Bombs' = Old \cup {n + 1 - d}
      BY <1>5, <2>1
    <3>2. Cardinality(Old \cup {n + 1 - d}) = Cardinality(Old) + 1
      BY <1>4, <1>6, FS_AddElement
    <3> QED
      BY <1>4, <1>7, <1>9, <2>1, <3>1, <3>2
  <2>2. CASE NewBomb(e) = 0
    <3>1. Bombs' = Old
      BY <1>5, <2>2
    <3> QED
      BY <1>4, <1>7, <1>9, <2>2, <3>1
  <2> QED
    BY <1>8, <2>1, <2>2
<1> QED
  BY <1>2, <1>7, <1>9, <1>10

\* What was dealt and laid down, when a step only adds the new cards to it: the list
\* stays true to it, and a complete list tells the bombs of a complete one before.
LEMMA LaidAfterStep ==
  ASSUME LogType, LogType', LaidInv, NEW e \in Entry, NEW d \in {0, 1}, Shift(d, e),
         \A p \in Player : LaidBy[p] \subseteq LaidBy'[p],
         e.kind = "play" => e.player \in Player /\ e.cards # {} /\ e.cards \subseteq LaidBy'[e.player],
         AllLaid' = AllLaid \cup NewCards(e), NewCards(e) \cap AllLaid = {}
  PROVE  /\ LaidInv'
         /\ AllTold' => AllTold /\ BombNum' = BombNum + NewBomb(e) /\ BombNum \in Nat
<1> DEFINE n == Len(actions)
<1>1. /\ \A i \in LoggedPlays' :
           \/ e.kind = "play" /\ i = n + 1 - d
           \/ i + d \in LoggedPlays /\ i \in 1..(n - d) /\ actions'[i] = actions[i + d]
      /\ LoggedPlays \subseteq 1..n /\ n \in Nat
      /\ actions'[n + 1 - d] = e
  BY PlacesShift DEF LoggedPlays
<1>2. \A i \in LoggedPlays :
        /\ actions[i].player \in Player /\ actions[i].cards # {}
        /\ actions[i].cards \subseteq LaidBy[actions[i].player]
        /\ actions[i].cards \subseteq AllLaid
  BY DEF LaidInv, AllLaid
<1>3. ASSUME NEW i \in LoggedPlays'
      PROVE  /\ actions'[i].player \in Player /\ actions'[i].cards # {}
             /\ actions'[i].cards \subseteq LaidBy'[actions'[i].player]
  <2>1. CASE e.kind = "play" /\ i = n + 1 - d
    BY <1>1, <2>1
  <2>2. CASE i + d \in LoggedPlays /\ actions'[i] = actions[i + d]
    BY <1>2, <2>2
  <2> QED
    BY <1>1, <2>1, <2>2
<1>4. ASSUME NEW i \in LoggedPlays', NEW j \in LoggedPlays', i # j
      PROVE  actions'[i].cards \cap actions'[j].cards = {}
  <2>1. ASSUME NEW k \in LoggedPlays', k \in 1..(n - d)
        PROVE  k + d \in LoggedPlays /\ actions'[k] = actions[k + d] /\ actions'[k].cards \subseteq AllLaid
    BY <1>1, <1>2, <2>1
  <2>2. ASSUME NEW k \in LoggedPlays', k = n + 1 - d
        PROVE  actions'[k].cards \cap AllLaid = {}
    BY <1>1, <2>2 DEF NewCards
  <2>3. CASE i \in 1..(n - d) /\ j \in 1..(n - d)
    <3>1. i + d \in LoggedPlays /\ j + d \in LoggedPlays /\ i + d # j + d
      BY <1>1, <1>4, <2>1, <2>3
    <3>2. actions[i + d].cards \cap actions[j + d].cards = {}
      BY <3>1 DEF LaidInv
    <3> QED
      BY <2>1, <2>3, <3>2
  <2>4. CASE i = n + 1 - d /\ j \in 1..(n - d)
    BY <2>1, <2>2, <2>4
  <2>5. CASE i \in 1..(n - d) /\ j = n + 1 - d
    BY <2>1, <2>2, <2>5
  <2> QED
    BY <1>1, <1>4, <2>3, <2>4, <2>5
<1>5. (AllTold <=> LoggedCards = AllLaid) /\ (AllTold' <=> LoggedCards' = AllLaid')
  <2>1. \A p \in Player : LaidBy[p] = Laid(p) /\ LaidBy'[p] = Laid(p)'
    BY DEF LaidBy
  <2>2. AllLaid = UNION {Laid(p) : p \in Player} /\ AllLaid' = UNION {Laid(p)' : p \in Player}
    BY <2>1 DEF AllLaid
  <2> QED
    BY <2>2 DEF AllTold
<1>6. LoggedCards \subseteq AllLaid
  BY <1>2 DEF LoggedCards
<1>7. ASSUME \A i \in LoggedPlays : i > d
      PROVE  /\ AllTold' <=> AllTold
             /\ BombNum' = BombNum + NewBomb(e) /\ BombNum \in Nat
  <2>1. /\ LoggedCards' = LoggedCards \cup NewCards(e)
        /\ BombNum' = BombNum + NewBomb(e) /\ BombNum \in Nat
    BY <1>7, NothingDropped
  <2> QED
    BY <1>5, <1>6, <2>1
<1>8. ASSUME NEW i \in LoggedPlays, ~(i > d) PROVE ~AllTold'
  <2>1. PICK c \in actions[i].cards : c \in AllLaid
    BY <1>2
  <2>2. ASSUME NEW j \in LoggedPlays' PROVE c \notin actions'[j].cards
    <3>1. CASE e.kind = "play" /\ j = n + 1 - d
      BY <1>1, <2>1, <3>1 DEF NewCards
    <3>2. CASE j + d \in LoggedPlays /\ j \in 1..(n - d) /\ actions'[j] = actions[j + d]
      <4>1. j + d # i
        BY <1>1, <1>8, <3>2
      <4> QED
        BY <2>1, <3>2, <4>1 DEF LaidInv
    <3> QED
      BY <1>1, <3>1, <3>2
  <2>3. c \notin LoggedCards'
    BY <2>2 DEF LoggedCards
  <2> QED
    BY <1>5, <2>1, <2>3
<1>9. ASSUME Len(actions') < HistoryLimit PROVE AllTold'
  <2>1. d = 0 /\ n < HistoryLimit
    BY <1>1, <1>9, ViewAssumption DEF Shift, LogType
  <2>2. AllTold /\ \A i \in LoggedPlays : i > d
    BY <1>1, <2>1 DEF LaidInv
  <2> QED
    BY <1>7, <2>2
<1>10. LaidInv'
  BY <1>3, <1>4, <1>9 DEF LaidInv
<1> QED
  BY <1>7, <1>8, <1>10

-----------------------------------------------------------------------------
\* A step that neither deals nor plays leaves what was laid down.
LEMMA LaidSame ==
  ASSUME UNCHANGED <<dealt, hand, landlord>>
  PROVE  LaidBy' = LaidBy /\ AllLaid' = AllLaid
  BY DEF LaidBy, AllLaid, Laid, Given

\* The landlord's cards are given and taken at once: nothing has been laid down.
LEMMA LaidAtBidEnd ==
  ASSUME RoomInvariant, BidEndStep
  PROVE  LaidBy' = LaidBy /\ AllLaid' = AllLaid
<1>1. hand = dealt.hand /\ landlord = NoPlayer /\ hand \in [Player -> SUBSET Deck]
  BY DEF BidEndStep, RoomInvariant, BiddingInv, CardsAccounted, TypeOK, PlayType
<1>2. \A p \in Player : p # NoPlayer
  BY DEF Player, NoPlayer
<1>3. \A p \in Player : Laid(p) = {}
  BY <1>1, <1>2 DEF Laid, Given
<1>4. \A p \in Player : Laid(p)' = {}
  <2> SUFFICES ASSUME NEW p \in Player PROVE Laid(p)' = {}
    OBVIOUS
  <2>1. dealt' = dealt /\ landlord' \in Player
        /\ hand'[p] = hand[p] \cup IF p = landlord' THEN dealt.landlordCards ELSE {}
    BY <1>1 DEF BidEndStep
  <2> QED
    BY <1>1, <2>1 DEF Laid, Given
<1>5. LaidBy = [p \in Player |-> {}] /\ LaidBy' = [p \in Player |-> {}]
  BY <1>3, <1>4 DEF LaidBy
<1> QED
  BY <1>5 DEF AllLaid

\* A play adds its cards to what its player has laid down.
LEMMA LaidByPlay ==
  ASSUME RoomInvariant, NEW p \in Player, NEW cards \in SUBSET Deck, LaysDown(p, cards)
  PROVE  /\ \A q \in Player : LaidBy[q] \subseteq LaidBy'[q]
         /\ cards \subseteq LaidBy'[p]
         /\ AllLaid' = AllLaid \cup cards /\ cards \cap AllLaid = {}
<1>1. /\ hand \in [Player -> SUBSET Deck] /\ cards \subseteq hand[p]
      /\ hand' = [hand EXCEPT ![p] = @ \ cards] /\ UNCHANGED <<dealt, landlord>>
  BY DEF LaysDown, RoomInvariant, TypeOK, PlayType
<1>2. \A q \in Player : Given(q)' = Given(q)
  BY <1>1 DEF Given
<1>3. /\ \A q \in Player : hand[q] \subseteq Given(q)
      /\ \A q, r \in Player : q # r => Given(q) \cap Given(r) = {}
  BY GivenApart
<1>4. \A q \in Player : LaidBy[q] = Given(q) \ hand[q] /\ LaidBy'[q] = Given(q) \ hand'[q]
  BY <1>2 DEF LaidBy, Laid
<1>5. \A q \in Player : LaidBy'[q] = LaidBy[q] \cup IF q = p THEN cards ELSE {}
  BY <1>1, <1>3, <1>4
<1>6. \A q \in Player : cards \cap LaidBy[q] = {}
  BY <1>1, <1>3, <1>4
<1>7. AllLaid' = AllLaid \cup cards
  BY <1>5 DEF AllLaid
<1>8. cards \cap AllLaid = {}
  BY <1>6 DEF AllLaid
<1> QED
  BY <1>5, <1>7, <1>8

\* An entry without cards changes nothing of what the list tells.
LEMMA QuietEntry ==
  ASSUME LogType, LaidInv, NEW e \in Entry, e.kind # "play", Log(e),
         LaidBy' = LaidBy, AllLaid' = AllLaid
  PROVE  LaidInv' /\ (AllTold' => AllTold /\ BombNum' = BombNum)
<1>1. LogType' /\ \E d \in {0, 1} : Shift(d, e)
  BY LogShifts
<1>2. PICK d \in {0, 1} : Shift(d, e)
  BY <1>1
<1>3. NewCards(e) = {} /\ NewBomb(e) = 0
  BY DEF NewCards, NewBomb
<1>4. AllLaid' = AllLaid \cup NewCards(e) /\ NewCards(e) \cap AllLaid = {}
  BY <1>3
<1>5. \A p \in Player : LaidBy[p] \subseteq LaidBy'[p]
  OBVIOUS
<1>6. /\ LaidInv'
      /\ AllTold' => AllTold /\ BombNum' = BombNum + NewBomb(e) /\ BombNum \in Nat
  BY <1>1, <1>2, <1>4, <1>5, LaidAfterStep
<1> QED
  BY <1>3, <1>6

\* The stake after a step that neither plays nor settles.
LEMMA StakeKept ==
  ASSUME StakeInv, AllTold' => AllTold /\ BombNum' = BombNum, UNCHANGED <<multiplier, spring>>,
         ~Finished' => ~Finished, phase' = "WAITING" => phase = "WAITING"
  PROVE  StakeInv'
  BY DEF StakeInv

LEMMA SystemKeeps ==
  ASSUME RoomInvariant, ViewInvariant, SystemStep \/ BidEndStep
  PROVE  ViewInvariant'
<1>1. System \in Entry /\ System.kind # "play" /\ Log(System)
  BY DEF System, Entry, SystemStep, BidEndStep
<1>2. LaidBy' = LaidBy /\ AllLaid' = AllLaid
  BY LaidSame, LaidAtBidEnd DEF SystemStep, Seen
<1>3. LaidInv' /\ (AllTold' => AllTold /\ BombNum' = BombNum)
  BY <1>1, <1>2, QuietEntry DEF ViewInvariant
<1>4. /\ UNCHANGED <<multiplier, spring, lastPattern, passCount>>
      /\ ~Finished' => ~Finished
      /\ phase' = "WAITING" => phase = "WAITING"
  BY DEF SystemStep, Seen, BidEndStep, Finished
<1>5. passCount \in 0..1
  BY DEF RoomInvariant, TypeOK, PlayType
<1>6. LogType' /\ TableInv'
  BY <1>1, <1>4, <1>5, TableAfterSystem DEF ViewInvariant
<1>7. StakeInv'
  BY <1>3, <1>4, StakeKept DEF ViewInvariant
<1> QED
  BY <1>3, <1>6, <1>7 DEF ViewInvariant

LEMMA PassStepKeeps ==
  ASSUME RoomInvariant, ViewInvariant, PassStep
  PROVE  ViewInvariant'
<1>1. PICK p \in Player : Log(Passed(p))
  BY DEF PassStep
<1>2. Passed(p) \in Entry /\ Passed(p).kind # "play"
  BY DEF Passed, Entry
<1>3. LaidBy' = LaidBy /\ AllLaid' = AllLaid
  BY LaidSame DEF PassStep
<1>4. LaidInv' /\ (AllTold' => AllTold /\ BombNum' = BombNum)
  BY <1>1, <1>2, <1>3, QuietEntry DEF ViewInvariant
<1>5. /\ UNCHANGED <<multiplier, spring>>
      /\ ~Finished' => ~Finished
      /\ phase' = "WAITING" => phase = "WAITING"
  BY DEF PassStep, Finished
<1>6. LogType' /\ TableInv'
  BY TableAfterPass DEF ViewInvariant
<1>7. StakeInv'
  BY <1>4, <1>5, StakeKept DEF ViewInvariant
<1> QED
  BY <1>4, <1>6, <1>7 DEF ViewInvariant

LEMMA PlayStepKeeps ==
  ASSUME RoomInvariant, ViewInvariant, PlayStep
  PROVE  ViewInvariant'
<1>1. PICK p \in Player, cards \in SUBSET Deck : LaysDown(p, cards)
  BY DEF PlayStep
<1> DEFINE e == Played(p, cards)
<1>2. /\ e \in Entry /\ e.kind = "play" /\ e.player = p /\ e.cards = cards
      /\ NewCards(e) = cards /\ NewBomb(e) = IF IsBombMove(cards) THEN 1 ELSE 0
  BY DEF Played, Entry, NewCards, NewBomb
<1>3. Log(e) /\ cards # {}
  BY <1>1 DEF LaysDown
<1> HIDE DEF e
<1>4. LogType' /\ \E d \in {0, 1} : Shift(d, e)
  BY <1>2, <1>3, LogShifts DEF ViewInvariant
<1>5. PICK d \in {0, 1} : Shift(d, e)
  BY <1>4
<1>6. /\ \A q \in Player : LaidBy[q] \subseteq LaidBy'[q]
      /\ cards \subseteq LaidBy'[p]
      /\ AllLaid' = AllLaid \cup cards /\ cards \cap AllLaid = {}
  BY <1>1, LaidByPlay
<1>7. /\ LaidInv'
      /\ AllTold' => AllTold /\ BombNum' = BombNum + NewBomb(e) /\ BombNum \in Nat
  <2>1. /\ e.kind = "play" => e.player \in Player /\ e.cards # {} /\ e.cards \subseteq LaidBy'[e.player]
        /\ AllLaid' = AllLaid \cup NewCards(e) /\ NewCards(e) \cap AllLaid = {}
    BY <1>2, <1>3, <1>6
  <2> QED
    BY <1>2, <1>4, <1>5, <1>6, <2>1, LaidAfterStep DEF ViewInvariant
<1>8. TableInv'
  BY TableAfterPlay DEF ViewInvariant
<1>9. StakeInv'
  <2>1. /\ phase = "PLAYING" /\ phase' = "PLAYING" /\ spring' = spring /\ ~spring
        /\ multiplier' = IF IsBombMove(cards) THEN 2 * multiplier ELSE multiplier
    BY <1>1 DEF LaysDown, ViewInvariant, StakeInv, Finished
  <2>2. ASSUME AllTold' PROVE multiplier' = 2^(BombNum' + 0)
    <3>1. AllTold /\ BombNum \in Nat /\ BombNum' = BombNum + NewBomb(e)
      BY <1>7, <2>2
    <3>2. multiplier = 2^(BombNum + 0)
      BY <2>1, <3>1 DEF ViewInvariant, StakeInv
    <3>3. BombNum + 0 = BombNum
      BY <3>1
    <3>4. CASE IsBombMove(cards)
      <4>1. BombNum' + 0 = BombNum + 1
        BY <1>2, <3>1, <3>4
      <4>2. 2^(BombNum + 1) = 2 * 2^BombNum
        BY <3>1, TwicePower
      <4> QED
        BY <2>1, <3>2, <3>3, <3>4, <4>1, <4>2
    <3>5. CASE ~IsBombMove(cards)
      <4>1. BombNum' + 0 = BombNum
        BY <1>2, <3>1, <3>5
      <4> QED
        BY <2>1, <3>2, <3>3, <3>5, <4>1
    <3> QED
      BY <3>4, <3>5
  <2> QED
    BY <2>1, <2>2 DEF StakeInv, Finished
<1> QED
  BY <1>4, <1>7, <1>8, <1>9 DEF ViewInvariant

\* A settlement doubles the stake for the spring that it announces.
LEMMA SettleStepKeeps ==
  ASSUME RoomInvariant, ViewInvariant, SettleStep
  PROVE  ViewInvariant'
<1>1. LaidBy' = LaidBy /\ AllLaid' = AllLaid
  BY LaidSame DEF SettleStep
<1>2. /\ actions' = actions /\ LoggedPlays' = LoggedPlays /\ LoggedPasses' = LoggedPasses
      /\ LoggedCards' = LoggedCards /\ BombNum' = BombNum
  BY DEF SettleStep, LoggedPlays, LoggedPasses, Entries, LoggedCards, BombNum, IsBombMove
<1>3. AllTold' <=> AllTold
  BY <1>2 DEF AllTold, SettleStep, Laid, Given
<1>4. phase' = "FINISHED" /\ UNCHANGED <<lastPattern, passCount>>
  BY DEF SettleStep, Finished
<1>5. LogType' /\ TableInv'
  BY <1>2, <1>4 DEF ViewInvariant, LogType, TableInv, Last, TwoPassesAfter, CountedAfter
<1>6. LaidInv'
  BY <1>1, <1>2, <1>3 DEF ViewInvariant, LaidInv
<1>7. StakeInv'
  <2>1. ~spring /\ Finished' /\ multiplier' = IF spring' THEN 2 * multiplier ELSE multiplier
    BY DEF SettleStep, ViewInvariant, StakeInv
  <2>2. ASSUME AllTold' PROVE multiplier' = 2^(BombNum' + IF spring' THEN 1 ELSE 0)
    <3>1. multiplier = 2^(BombNum + 0)
      BY <1>3, <2>1, <2>2 DEF ViewInvariant, StakeInv
    <3>2. BombNum \in Nat
      <4>1. IsFiniteSet(1..Len(actions)) /\ LoggedPlays \subseteq 1..Len(actions)
        <5>1. Len(actions) \in Int /\ 1 \in Int /\ DOMAIN actions = 1..Len(actions)
          BY DEF ViewInvariant, LogType
        <5> QED
          BY <5>1, FS_Interval DEF LoggedPlays, Entries
      <4>2. {i \in LoggedPlays : IsBombMove(actions[i].cards)} \in SUBSET (1..Len(actions))
        BY <4>1
      <4> QED
        BY <4>1, <4>2, FS_Subset, FS_CardinalityType DEF BombNum
    <3>3. BombNum + 0 = BombNum
      BY <3>2
    <3>4. CASE spring'
      <4>1. 2^(BombNum + 1) = 2 * 2^BombNum
        BY <3>2, TwicePower
      <4> QED
        BY <1>2, <2>1, <3>1, <3>3, <3>4, <4>1
    <3>5. CASE ~spring'
      BY <1>2, <2>1, <3>1, <3>5
    <3> QED
      BY <3>4, <3>5
  <2> QED
    BY <1>4, <2>1, <2>2 DEF StakeInv
<1> QED
  BY <1>5, <1>6, <1>7 DEF ViewInvariant

LEMMA RestStepKeeps ==
  ASSUME ViewInvariant, RestStep
  PROVE  ViewInvariant'
<1>1. /\ actions' = actions /\ LoggedPlays' = LoggedPlays /\ LoggedPasses' = LoggedPasses
      /\ LoggedCards' = LoggedCards /\ BombNum' = BombNum
  BY DEF RestStep, LoggedPlays, LoggedPasses, Entries, LoggedCards, BombNum, IsBombMove
<1>2. UNCHANGED Seen
  BY DEF RestStep
<1>3. LaidBy' = LaidBy /\ (AllTold' <=> AllTold)
  BY <1>1, <1>2, LaidSame DEF Seen, AllTold, Laid, Given
<1>4. LogType' /\ TableInv'
  BY <1>1, <1>2 DEF Seen, ViewInvariant, LogType, TableInv, Last, TwoPassesAfter, CountedAfter
<1>5. LaidInv' /\ StakeInv'
  BY <1>1, <1>2, <1>3 DEF Seen, ViewInvariant, LaidInv, StakeInv, Finished
<1> QED
  BY <1>4, <1>5 DEF ViewInvariant

LEMMA ViewNextKeeps ==
  ASSUME RoomInvariant, ViewInvariant, [ViewNext]_viewVars
  PROVE  ViewInvariant'
  BY StepIsSeen, SystemKeeps, PassStepKeeps, PlayStepKeeps, SettleStepKeeps, RestStepKeeps

LEMMA ViewInitHolds ==
  ASSUME ViewInit
  PROVE  ViewInvariant
<1>1. actions = << >> /\ Init /\ HistoryLimit \in Nat \ {0}
  BY ViewAssumption DEF ViewInit
<1>2. LogType /\ LoggedPlays = {} /\ LoggedPasses = {} /\ LoggedCards = {}
  BY <1>1 DEF LogType, LoggedPlays, LoggedPasses, Entries, LoggedCards
<1>3. hand = dealt.hand /\ landlord = NoPlayer /\ phase = "WAITING" /\ multiplier = 1 /\ ~spring
  BY <1>1 DEF Init, StartGame
<1>4. \A p \in Player : Laid(p) = {}
  BY <1>3 DEF Laid, Given, Player, NoPlayer
<1>5. AllTold
  BY <1>2, <1>4 DEF AllTold
<1>6. BombNum = 0
  <2>1. {i \in LoggedPlays : IsBombMove(actions[i].cards)} = {}
    BY <1>2
  <2> QED
    BY <2>1, FS_EmptySet DEF BombNum
<1>7. TableInv
  BY <1>1, <1>2, <1>3 DEF TableInv, Init, StartGame
<1>8. LaidInv
  BY <1>2, <1>5 DEF LaidInv
<1>9. StakeInv
  <2>1. 2^(0 + 0) = 1
    BY TwicePower
  <2> QED
    BY <1>3, <1>6, <2>1 DEF StakeInv
<1> QED
  BY <1>2, <1>7, <1>8, <1>9 DEF ViewInvariant

\* What a room's list tells is tied to the room for ever.
THEOREM ViewSafe == ViewSpec => [](RoomInvariant /\ ViewInvariant)
<1>1. ViewInit => ViewInvariant
  BY ViewInitHolds
<1>2. RoomInvariant /\ ViewInvariant /\ [ViewNext]_viewVars => ViewInvariant'
  BY ViewNextKeeps
<1> QED
  BY <1>1, <1>2, ViewIsARoom, RoomSafe, PTL DEF ViewSpec

-----------------------------------------------------------------------------
Below == {p \in Nat \X Nat : p[1] < p[2]}

\* Some places of a list have a greatest one among them.
LEMMA GreatestPlace ==
  ASSUME NEW n \in Nat, NEW S, S \subseteq 1..n, S # {}
  PROVE  \E i \in S : \A j \in S : j <= i
<1> DEFINE T == {n - i : i \in S}
<1>1. IsWellFoundedOn(Below, Nat)
  <2>1. OpToRel(<, Nat) = Below
    BY DEF OpToRel, Below
  <2> QED
    BY <2>1, NatLessThanWellFounded
<1>2. T \subseteq Nat /\ T # {}
  <2>1. \A i \in S : n - i \in Nat
    OBVIOUS
  <2> QED
    BY <2>1
<1>3. PICK x \in T : \A y \in T : ~(<<y, x>> \in Below)
  <2> HIDE DEF T
  <2> QED
    BY <1>1, <1>2, WFMin, Zenon
<1>4. PICK i \in S : x = n - i
  BY <1>3
<1>5. ASSUME NEW j \in S PROVE j <= i
  <2>1. n - j \in Nat /\ n - i \in Nat /\ n - j \in T
    BY <1>2
  <2>2. <<n - j, n - i>> \in Nat \X Nat /\ <<n - j, n - i>>[1] = n - j /\ <<n - j, n - i>>[2] = n - i
    BY <2>1
  <2>3. ~(n - j < n - i)
    BY <1>3, <1>4, <2>1, <2>2 DEF Below
  <2> QED
    BY <2>3
<1> QED
  BY <1>5

\* The table a model sees is the room's, but for a full list of system entries and at
\* most one pass.
THEOREM TableAlwaysSeen == ViewSpec => []SeesTheTable
<1>1. ASSUME RoomInvariant, ViewInvariant PROVE SeesTheTable
  <2> DEFINE n == Len(actions)
  <2>1. n \in Nat /\ LoggedPlays \subseteq 1..n /\ LoggedPasses \subseteq 1..n
    BY <1>1 DEF ViewInvariant, LogType, LoggedPlays, LoggedPasses, Entries
  <2>2. passCount \in 0..1
    BY <1>1 DEF RoomInvariant, TypeOK, PlayType
  <2>3. IsFiniteSet(LoggedPlays) /\ IsFiniteSet(LoggedPasses)
    <3>1. n \in Int /\ 1 \in Int
      BY <2>1
    <3> HIDE DEF n
    <3>2. IsFiniteSet(1..n)
      BY <3>1, FS_Interval
    <3> QED
      BY <2>1, <3>2, FS_Subset
  <2>4. CASE LoggedPlays = {}
    <3>1. CASE lastPattern = NoPattern
      BY <2>4, <3>1 DEF SeesTheTable, TableSeen, CurrentTablePattern
    <3>2. CASE lastPattern # NoPattern
      <4>1. Len(actions) = HistoryLimit /\ \A j, k \in LoggedPasses : j = k
        BY <1>1, <2>4, <3>2 DEF ViewInvariant, TableInv
      <4>2. Cardinality(LoggedPasses) <= 1
        <5>1. CASE LoggedPasses = {}
          <6>1. Cardinality(LoggedPasses) = 0
            BY <5>1, FS_EmptySet
          <6> QED
            BY <6>1
        <5>2. CASE LoggedPasses # {}
          <6>1. PICK j \in LoggedPasses : LoggedPasses = {j}
            BY <4>1, <5>2
          <6>2. Cardinality({j}) = 1
            BY FS_Singleton
          <6> QED
            BY <6>1, <6>2
        <5> QED
          BY <5>1, <5>2
      <4> QED
        BY <2>4, <4>1, <4>2 DEF SeesTheTable
    <3> QED
      BY <3>1, <3>2
  <2>5. CASE LoggedPlays # {}
    <3>1. PICK i \in LoggedPlays : \A j \in LoggedPlays : j <= i
      BY <2>1, <2>3, <2>5, GreatestPlace
    <3>2. LastPlay = i
      <4>1. LastPlay \in LoggedPlays /\ \A j \in LoggedPlays : j <= LastPlay
        BY <3>1, Zenon DEF LastPlay
      <4>2. LastPlay <= i /\ i <= LastPlay /\ LastPlay \in 1..n /\ i \in 1..n
        BY <2>1, <3>1, <4>1
      <4> QED
        BY <2>1, <4>2
    <3> DEFINE After == {j \in LoggedPasses : j > i}
    <3>3. TrailingPasses = Cardinality(After)
      BY <3>2 DEF TrailingPasses
    <3>4. IsFiniteSet(After) /\ Cardinality(After) \in Nat
      <4>1. After \in SUBSET LoggedPasses
        OBVIOUS
      <4> HIDE DEF After
      <4> QED
        BY <2>3, <4>1, FS_Subset, FS_CardinalityType
    <3>5. Last(i)
      BY <3>1 DEF Last
    <3>6. CASE lastPattern = NoPattern
      <4>1. PICK j, k \in LoggedPasses : i < j /\ j < k
        BY <1>1, <3>5, <3>6 DEF ViewInvariant, TableInv, TwoPassesAfter
      <4>2. j \in After /\ k \in After /\ j # k
        BY <2>1, <3>1, <4>1
      <4> HIDE DEF After
      <4>3. Cardinality(After) >= 2
        <5>1. Cardinality({j}) = 1 /\ IsFiniteSet({j})
          BY FS_Singleton
        <5>2. Cardinality({j} \cup {k}) = 2 /\ {j} \cup {k} \in SUBSET After
          BY <4>2, <5>1, FS_AddElement
        <5> QED
          BY <3>4, <5>2, FS_Subset
      <4>4. CurrentTablePattern = NoPattern
        BY <3>3, <4>3 DEF CurrentTablePattern
      <4> QED
        BY <3>6, <4>4 DEF SeesTheTable, TableSeen
    <3>7. CASE lastPattern # NoPattern
      <4>1. PatternOf[actions[i].cards] = lastPattern /\ CountedAfter(i, passCount)
        BY <1>1, <3>5, <3>7 DEF ViewInvariant, TableInv
      <4>2. ~(Cardinality(After) >= 2)
        <5>1. CASE passCount = 0
          <6>1. After = {}
            <7>1. \A j \in LoggedPasses : j < i /\ j \in 1..n
              BY <2>1, <4>1, <5>1 DEF CountedAfter
            <7>2. i \in 1..n
              BY <2>1
            <7> QED
              BY <7>1, <7>2
          <6>2. Cardinality(After) = 0
            BY <6>1, FS_EmptySet
          <6> QED
            BY <6>2
        <5>2. CASE passCount = 1
          <6>1. PICK j \in LoggedPasses : After = {j}
            BY <2>1, <3>1, <4>1, <5>2 DEF CountedAfter
          <6>2. Cardinality({j}) = 1
            BY FS_Singleton
          <6> QED
            BY <6>1, <6>2
        <5> QED
          BY <2>2, <5>1, <5>2
      <4>3. CurrentTablePattern = lastPattern
        BY <2>5, <3>2, <3>3, <4>1, <4>2 DEF CurrentTablePattern
      <4> QED
        BY <4>3 DEF SeesTheTable, TableSeen
    <3> QED
      BY <3>6, <3>7
  <2> QED
    BY <2>4, <2>5
<1> QED
  BY <1>1, ViewSafe, PTL

-----------------------------------------------------------------------------
\* Counting the cards of a value.
LEMMA NumberAdds ==
  ASSUME NEW A, NEW B, NEW v, A \subseteq Deck, B \subseteq Deck
  PROVE  /\ Number(A, v) \in Nat
         /\ A \cap B = {} => Number(A \cup B, v) = Number(A, v) + Number(B, v)
         /\ A \subseteq B => Number(A, v) <= Number(B, v)
<1> DEFINE a == {c \in A : Value[c] = v}
           b == {c \in B : Value[c] = v}
           ab == {c \in A \cup B : Value[c] = v}
<1>1. a \in SUBSET Deck /\ b \in SUBSET Deck /\ ab = a \cup b
  OBVIOUS
<1>2. Number(A, v) = Cardinality(a) /\ Number(B, v) = Cardinality(b)
      /\ Number(A \cup B, v) = Cardinality(ab)
  BY DEF Number
<1>3. A \cap B = {} => a \cap b = {}
  OBVIOUS
<1>4. A \subseteq B => a \in SUBSET b
  OBVIOUS
<1> HIDE DEF a, b, ab
<1>5. IsFiniteSet(a) /\ IsFiniteSet(b)
  BY <1>1, DeckAssumption, FS_Subset
<1>6. Cardinality(a) \in Nat /\ Cardinality(b) \in Nat
  BY <1>5, FS_CardinalityType
<1>7. Cardinality(a \cup b) = Cardinality(a) + Cardinality(b) - Cardinality(a \cap b)
  BY <1>5, FS_Union
<1>8. a \cap b = {} => Cardinality(a \cap b) = 0
  BY FS_EmptySet
<1>9. a \in SUBSET b => Cardinality(a) <= Cardinality(b)
  BY <1>5, FS_Subset
<1> QED
  BY <1>1, <1>2, <1>3, <1>4, <1>6, <1>7, <1>8, <1>9

\* The cards of a round: what is in a hand, in the other hands and on the table.
OtherHands(p) == UNION {hand[q] : q \in Player \ {p}}

LEMMA CardsApart ==
  ASSUME RoomInvariant, ViewInvariant, NEW p \in Player
  PROVE  /\ hand[p] \subseteq Deck /\ OtherHands(p) \subseteq Deck /\ AllLaid \subseteq Deck
         /\ hand[p] \cap OtherHands(p) = {} /\ hand[p] \cap AllLaid = {}
         /\ OtherHands(p) \cap AllLaid = {}
         /\ LoggedCards \subseteq AllLaid /\ (AllTold <=> LoggedCards = AllLaid)
         /\ AllLaid = UNION {Laid(q) : q \in Player}
         /\ phase # "WAITING" => Deck = hand[p] \cup OtherHands(p) \cup AllLaid
<1>1. /\ \A q \in Player : hand[q] \subseteq Given(q) /\ Given(q) \subseteq Deck
      /\ \A q, r \in Player : q # r => Given(q) \cap Given(r) = {}
  BY GivenApart
<1>2. \A q \in Player : LaidBy[q] = Laid(q)
  BY DEF LaidBy
<1>3. AllLaid = UNION {Laid(q) : q \in Player}
  BY <1>2 DEF AllLaid
<1>4. \A q \in Player : Laid(q) = Given(q) \ hand[q]
  BY DEF Laid
<1>5. \A q, r \in Player : hand[q] \cap Laid(r) = {}
  BY <1>1, <1>4
<1>6. \A q \in Player : q # p => hand[p] \cap hand[q] = {}
  BY <1>1
<1>7. LoggedCards \subseteq AllLaid
  BY DEF ViewInvariant, LaidInv, LoggedCards, AllLaid
<1>8. AllTold <=> LoggedCards = AllLaid
  BY <1>3 DEF AllTold
<1>9. ASSUME phase # "WAITING" PROVE Deck \subseteq hand[p] \cup OtherHands(p) \cup AllLaid
  <2>1. landlord \in Player
    BY <1>9 DEF RoomInvariant, TypeOK, PlayType, CardsAccounted
  <2>2. Shared(dealt)
    BY RoomAssumption DEF RoomInvariant, TypeOK, BiddingType
  <2>3. ASSUME NEW c \in Deck PROVE \E q \in Player : c \in Given(q)
    BY <2>1, <2>2 DEF Shared, Given
  <2> SUFFICES ASSUME NEW c \in Deck PROVE c \in hand[p] \cup OtherHands(p) \cup AllLaid
    OBVIOUS
  <2>4. PICK q \in Player : c \in Given(q)
    BY <2>3
  <2>5. CASE c \in hand[q]
    BY <2>5 DEF OtherHands
  <2>6. CASE c \notin hand[q]
    BY <1>3, <1>4, <2>4, <2>6
  <2> QED
    BY <2>5, <2>6
<1>10. /\ hand[p] \subseteq Deck /\ OtherHands(p) \subseteq Deck /\ AllLaid \subseteq Deck
       /\ hand[p] \cap OtherHands(p) = {} /\ hand[p] \cap AllLaid = {}
       /\ OtherHands(p) \cap AllLaid = {}
  BY <1>1, <1>3, <1>4, <1>5, <1>6 DEF OtherHands
<1> QED
  BY <1>3, <1>7, <1>8, <1>9, <1>10

\* What is neither in the own hand nor in the list is at least what the others hold, and
\* exactly that if the list is complete.
LEMMA OthersCounted ==
  ASSUME RoomInvariant, ViewInvariant, phase # "WAITING", NEW p \in Player, NEW v
  PROVE  /\ BuildOtherHandCards(p, v) >= HeldByOthers(p, v)
         /\ AllTold => BuildOtherHandCards(p, v) = HeldByOthers(p, v)
<1> DEFINE H == hand[p]
           O == OtherHands(p)
           L == LoggedCards
<1>1. /\ H \subseteq Deck /\ O \subseteq Deck /\ L \subseteq Deck
      /\ H \cap O = {} /\ (H \cup O) \cap L = {} /\ H \cup O \subseteq Deck
      /\ (H \cup O) \cup L \subseteq Deck /\ (AllTold => (H \cup O) \cup L = Deck)
  BY CardsApart
<1>2. HeldByOthers(p, v) = Number(O, v)
  BY DEF HeldByOthers, OtherHands
<1>3. BuildOtherHandCards(p, v) = AtLeastNone(Number(Deck, v) - Number(H, v) - Number(L, v))
  BY DEF BuildOtherHandCards
<1> HIDE DEF H, O, L
<1>4. Number(H \cup O, v) = Number(H, v) + Number(O, v)
  BY <1>1, NumberAdds
<1>5. Number((H \cup O) \cup L, v) = Number(H \cup O, v) + Number(L, v)
  BY <1>1, NumberAdds
<1>6. Number((H \cup O) \cup L, v) <= Number(Deck, v)
  BY <1>1, NumberAdds
<1>7. /\ Number(H, v) \in Nat /\ Number(O, v) \in Nat /\ Number(L, v) \in Nat
      /\ Number(Deck, v) \in Nat
  BY <1>1, NumberAdds
<1>8. AllTold => Number((H \cup O) \cup L, v) = Number(Deck, v)
  BY <1>1
<1> QED
  BY <1>2, <1>3, <1>4, <1>5, <1>6, <1>7, <1>8 DEF AtLeastNone

\* What a model sums up in the list is the truth until a play has dropped out, and never
\* counts the others' cards too low.
THEOREM RoundAlwaysTold == ViewSpec => []ViewTellsTheRound
<1>1. ASSUME RoomInvariant, ViewInvariant PROVE ViewTellsTheRound
  <2>1. Len(actions) < HistoryLimit => AllTold
    BY <1>1 DEF ViewInvariant, LaidInv
  <2>2. AllTold => multiplier = 2^(BombNum + IF spring THEN 1 ELSE 0)
    BY <1>1 DEF ViewInvariant, StakeInv
  <2>3. ASSUME NEW p \in Player PROVE PlayedBy(p) \subseteq Laid(p)
    <3>1. LaidBy[p] = Laid(p)
      BY DEF LaidBy
    <3>2. \A i \in LoggedPlays : actions[i].player = p => actions[i].cards \subseteq Laid(p)
      BY <1>1, <3>1 DEF ViewInvariant, LaidInv
    <3> QED
      BY <3>2 DEF PlayedBy
  <2>4. ASSUME phase # "WAITING", NEW p \in Player, NEW v \in {Value[c] : c \in Deck}
        PROVE  /\ BuildOtherHandCards(p, v) >= HeldByOthers(p, v)
               /\ AllTold => BuildOtherHandCards(p, v) = HeldByOthers(p, v)
    BY <1>1, <2>4, OthersCounted
  <2> QED
    BY <2>1, <2>2, <2>3, <2>4 DEF ViewTellsTheRound
<1> QED
  BY <1>1, ViewSafe, PTL

\* The counter of a complete list falls short of the cards out of sight by the cards of
\* the landlord that were counted twice.
LEMMA CounterCounted ==
  ASSUME RoomInvariant, ViewInvariant, AllTold, NEW p \in Player, NEW v
  PROVE  /\ CardCounter(p, v) <= NotSeenBy(p, v)
         /\ CardCounter(p, v) >= NotSeenBy(p, v) - CountedTwice(p, v)
<1> DEFINE H == hand[p]
           L == AllLaid
           K == IF phase = "WAITING" THEN {} ELSE dealt.landlordCards
           S == (Deck \ (H \cup K)) \ L
           Twice == K \cap (H \cup L)
           Once == K \ (H \cup L)
<1>1. H \subseteq Deck /\ L \subseteq Deck /\ H \cap L = {} /\ LoggedCards = L
      /\ L = UNION {Laid(q) : q \in Player}
  BY CardsApart
<1>2. dealt \in Deal /\ Shared(dealt)
  BY RoomAssumption DEF RoomInvariant, TypeOK, BiddingType
<1>3. K \subseteq Deck
  BY <1>2 DEF Deal
<1>4. NotSeenBy(p, v) = Number(S, v)
  BY <1>1 DEF NotSeenBy
<1>5. Number({}, v) = 0
  <2>1. {c \in {} : Value[c] = v} = {}
    OBVIOUS
  <2> QED
    BY <2>1, FS_EmptySet DEF Number
<1>6. CardCounter(p, v) =
        AtLeastNone(Number(Deck, v) - Number(H, v) - Number(L, v) - Number(K, v))
  BY <1>1, <1>5 DEF CardCounter
<1>7. CountedTwice(p, v) = Number(Twice, v)
  <2>1. CASE phase = "WAITING"
    <3>1. Twice = {}
      BY <2>1
    <3> QED
      BY <1>5, <2>1, <3>1 DEF CountedTwice
  <2>2. CASE phase # "WAITING"
    <3>1. landlord \in Player
      BY <2>2 DEF RoomInvariant, TypeOK, PlayType, CardsAccounted
    <3>2. \A q \in Player : q # landlord => dealt.landlordCards \cap Laid(q) = {}
      BY <1>2 DEF Shared, Laid, Given
    <3>3. dealt.landlordCards \cap L = dealt.landlordCards \cap Laid(landlord)
      BY <1>1, <3>1, <3>2
    <3>4. Twice = dealt.landlordCards \cap (hand[p] \cup Laid(landlord))
      BY <2>2, <3>3
    <3> QED
      BY <2>2, <3>4 DEF CountedTwice
  <2> QED
    BY <2>1, <2>2
<1>8. /\ Twice \subseteq Deck /\ Once \subseteq Deck /\ S \subseteq Deck
      /\ Twice \cap Once = {} /\ K = Twice \cup Once
      /\ H \cup L \subseteq Deck /\ S \cap (H \cup L) = {} /\ (H \cup L) \cup S \subseteq Deck
      /\ ((H \cup L) \cup S) \cap Once = {} /\ Deck = ((H \cup L) \cup S) \cup Once
  BY <1>1, <1>3
<1> HIDE DEF H, L, K, S, Twice, Once
<1>9. Number(K, v) = Number(Twice, v) + Number(Once, v)
  BY <1>8, NumberAdds
<1>10. Number(H \cup L, v) = Number(H, v) + Number(L, v)
  BY <1>1, NumberAdds
<1>11. Number((H \cup L) \cup S, v) = Number(H \cup L, v) + Number(S, v)
  BY <1>8, NumberAdds
<1>12. Number(Deck, v) = Number((H \cup L) \cup S, v) + Number(Once, v)
  BY <1>8, NumberAdds
<1>13. /\ Number(H, v) \in Nat /\ Number(L, v) \in Nat /\ Number(S, v) \in Nat
       /\ Number(Twice, v) \in Nat /\ Number(Once, v) \in Nat
  BY <1>1, <1>8, NumberAdds
<1> QED
  BY <1>4, <1>6, <1>7, <1>9, <1>10, <1>11, <1>12, <1>13 DEF AtLeastNone

\* The remaining cards the game page lists never exceed what the player cannot see, and
\* fall short of it only by landlord's cards counted twice, until a play has dropped out.
THEOREM CounterAlwaysShortByTwice == ViewSpec => []CounterShortOnlyByTwice
<1>1. RoomInvariant /\ ViewInvariant => CounterShortOnlyByTwice
  BY CounterCounted DEF CounterShortOnlyByTwice
<1> QED
  BY <1>1, ViewSafe, PTL
=============================================================================
