------------------------- MODULE CardPatternsProofs -------------------------
(***************************************************************************)
(* Facts about the operators of CardPatterns for any deck.                 *)
(***************************************************************************)
EXTENDS CardPatterns, FiniteSetTheorems, TLAPS

\* A subset of the deck is finite and so are the values in it.
LEMMA PlayIsFinite ==
  ASSUME NEW cards \in SUBSET Deck
  PROVE  /\ IsFiniteSet(cards)
         /\ Cardinality(cards) \in Nat
         /\ Values(cards) \subseteq 3..17
<1>1. IsFiniteSet(cards)
  BY FS_Subset, DeckAssumption
<1>2. Cardinality(cards) \in Nat
  BY <1>1, FS_CardinalityType
<1>3. Values(cards) \subseteq 3..17
  BY DeckAssumption DEF Values
<1> QED
  BY <1>1, <1>2, <1>3

\* Whatever EvaluatePattern reads in a play is a pattern of the play's length.
LEMMA ReadingsType ==
  ASSUME NEW cards \in SUBSET Deck
  PROVE  Readings(cards) \subseteq {p \in Pattern : p.length = Cardinality(cards)}
<1> DEFINE n == Cardinality(cards)
           OK == {p \in Pattern : p.length = n}
<1>1. ASSUME NEW t \in PatternTypes, NEW w \in Int
      PROVE  MakePattern(t, cards, w) \in OK
  BY PlayIsFinite DEF MakePattern, Pattern
<1>2. Values(cards) \subseteq Int
  BY PlayIsFinite
<1>3. \A k : WithCount(cards, k) \subseteq Int
  BY <1>2 DEF WithCount
<1>4. \A r : r \in PlaneRuns(cards) => r \subseteq Int
  BY <1>2 DEF PlaneRuns, Runs, WithAtLeast
<1>5. \A r : Highest(r) \subseteq r
  BY DEF Highest
<1>6. RocketWeight \in Int
  BY DEF RocketWeight
<1>7. \A r : r \in PlaneRuns(cards) => Highest(r) \subseteq Int
  BY <1>4, <1>5
<1>8. SUFFICES ASSUME NEW p \in Readings(cards)
               PROVE  \E t \in PatternTypes, w \in Int : p = MakePattern(t, cards, w)
  BY <1>1
<1>9. Highest(Values(cards)) \subseteq Int
  BY <1>2, <1>5
<1> HIDE DEF n, OK
<1> QED
  BY <1>2, <1>3, <1>6, <1>7, <1>9 DEF Readings, PatternTypes

\* EvaluatePattern returns a pattern or kInvalid, and never accepts an empty play:
\* whoever plays loses at least one card.
THEOREM EvaluatePatternType ==
  ASSUME NEW cards \in SUBSET Deck
  PROVE  /\ EvaluatePattern(cards) \in Pattern \cup {Invalid}
         /\ EvaluatePattern(cards) # Invalid => cards # {}
<1>1. EvaluatePattern(cards) \in Pattern \cup {Invalid}
  BY ReadingsType DEF EvaluatePattern
<1>2. ASSUME cards = {} PROVE Readings(cards) = {}
  <2>1. Cardinality(cards) = 0 /\ Values(cards) = {}
    BY <1>2, FS_EmptySet DEF Values
  <2>2. \A k : WithCount(cards, k) = {}
    BY <2>1 DEF WithCount
  <2>3. Highest(Values(cards)) = {}
    BY <2>1 DEF Highest
  <2>4. PlaneRuns(cards) = {}
    BY <2>1 DEF PlaneRuns, Runs, WithAtLeast
  <2> QED
    BY <2>1, <2>2, <2>3, <2>4 DEF Readings, SmallJoker, BigJoker
<1> QED
  BY <1>1, <1>2 DEF EvaluatePattern
=============================================================================
