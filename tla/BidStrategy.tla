---------------------------- MODULE BidStrategy ----------------------------
(***************************************************************************)
(* How a bot plans a hand before it bids, AnalyzeStructure of              *)
(* bid_strategy.cpp: it lays the hand out in combinations, takes the kinds *)
(* in a fixed order, and counts them as the turns the hand will need.  The *)
(* code works on the number of cards of each value; here the cards         *)
(* themselves are taken.  The weights that make a bid of 0 to 3 out of the *)
(* plan are left out: Room lets a bot value its hand at any of them.       *)
(*                                                                         *)
(* A hand to bid on is what remains of Deck without a play of three, so a  *)
(* deck of 20 gives hands of the 17 cards a player is dealt.               *)
(***************************************************************************)
EXTENDS PatternRules, Sequences

\* A group of the plan: what it is taken for and its cards.
Group(kind, cards) == [kind |-> kind, cards |-> cards]

\* FindLongestRun: the longest run of values held n times, the highest of several.
LongestRun(cards, n, least) ==
  LET runs == Runs(WithAtLeast(cards, n) \cap 3..14, least)
      Top(r) == CHOOSE v \in r : \A w \in r : w <= v
      Before(q, r) == \/ Cardinality(q) < Cardinality(r)
                      \/ Cardinality(q) = Cardinality(r) /\ Top(q) <= Top(r)
  IN  IF runs = {} THEN {} ELSE CHOOSE r \in runs : \A q \in runs : Before(q, r)

\* The price of breaking `size` cards out of the cards of value v (TakeAttachments).
Priority(cards, v, size) ==
  LET n == Count(cards, v)
      broken == IF size = 1 THEN <<0, 4, 8, 14>>[n]
                ELSE IF n = 2 THEN 0 ELSE IF n = 3 THEN 6 ELSE 16
      high == IF v >= 15 THEN IF size = 1 THEN 18 ELSE 20 ELSE IF v >= 13 THEN 8 ELSE 0
  IN  broken + high

\* Mutant of Attachable: the cards left of the run itself serve as its wings.
AttachableAnywhere(cards, excluded, size) == WithAtLeast(cards, size)

\* The values wings of `size` cards may be taken from.
Attachable(cards, excluded, size) == WithAtLeast(cards, size) \ excluded

\* TakeAttachments: `groups` wings where they cost least, the lower value first; none
\* at all if there are too few.
Attachments(cards, groups, size, excluded) ==
  LET from == Attachable(cards, excluded, size)
      Cheaper(v, w) == \/ Priority(cards, v, size) < Priority(cards, w, size)
                       \/ Priority(cards, v, size) = Priority(cards, w, size) /\ v < w
  IN  IF Cardinality(from) < groups THEN {}
      ELSE TakeCards(cards, {v \in from : Cardinality({w \in from : Cheaper(w, v)}) < groups}, size)

\* n cards of each value of a run, with pairs for wings, or else single cards.
WithWings(cards, run, kind) ==
  LET core == TakeCards(cards, run, 3)
      Wing(size) == Attachments(cards \ core, Cardinality(run), size, run)
  IN  IF Wing(2) # {} THEN Group(kind \o "_with_pair", core \cup Wing(2))
      ELSE IF Wing(1) # {} THEN Group(kind \o "_with_single", core \cup Wing(1))
      ELSE Group(kind, core)

LowestOf(S) == Lowest(S, 1)

\* One turn of AnalyzeStructure's loops.  Each loop runs until it finds nothing more,
\* and what a later one takes never makes an earlier kind possible again, so the next
\* group is the first that can be found.
NextGroup(cards) ==
  LET plane    == LongestRun(cards, 3, 2)
      pairs    == LongestRun(cards, 2, 3)
      straight == LongestRun(cards, 1, 5)
      OfAKind(n) == LowestOf(WithAtLeast(cards, n))
  IN  IF plane # {} THEN WithWings(cards, plane, "airplane")
      ELSE IF pairs # {} THEN Group("straight_pair", TakeCards(cards, pairs, 2))
      ELSE IF straight # {} THEN Group("straight", TakeCards(cards, straight, 1))
      ELSE IF {SmallJoker, BigJoker} \subseteq Values(cards)
           THEN Group("rocket", TakeCards(cards, {SmallJoker, BigJoker}, 1))
      ELSE IF OfAKind(4) # {} THEN Group("bomb", TakeCards(cards, OfAKind(4), 4))
      ELSE IF OfAKind(3) # {} THEN WithWings(cards, OfAKind(3), "triple")
      ELSE IF OfAKind(2) # {} THEN Group("pair", TakeCards(cards, OfAKind(2), 2))
      ELSE Group("single", TakeCards(cards, OfAKind(1), 1))

\* AnalyzeStructure: the groups the hand is laid out in.
AnalyzeStructure[cards \in SUBSET Deck] ==
  IF cards = {} THEN {}
  ELSE LET group == NextGroup(cards) IN {group} \cup AnalyzeStructure[cards \ group.cards]

-----------------------------------------------------------------------------
\* The turns a bot bids on can really be played: its plan uses every card of the hand
\* once, and each group is, by the rules, the very combination it was taken for, so
\* estimated_turns never flatters the hand (AnalyzeStructure 174-265 against
\* EvaluatePattern, models.cpp 163-303).
PlanPlayable ==
  Cardinality(play) = 3 =>
    LET plan == AnalyzeStructure[Deck \ play] IN
    /\ UNION {group.cards : group \in plan} = Deck \ play
    /\ \A group \in plan :
         /\ EvaluatePattern(group.cards).type = group.kind
         /\ \A other \in plan \ {group} : group.cards \cap other.cards = {}
=============================================================================
