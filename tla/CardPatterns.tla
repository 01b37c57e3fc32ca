---------------------------- MODULE CardPatterns ----------------------------
(***************************************************************************)
(* The card combinations of backend/server/src/models.cpp.  A card is an   *)
(* element of Deck and is known by its value only: 3..14 are the ranks 3   *)
(* to ace, 15 is the two, 16 and 17 are the jokers.  A play is a set of    *)
(* cards, as the code's vectors never hold a card twice.  Suits only order *)
(* the cards of a hand and are left out.                                   *)
(***************************************************************************)
EXTENDS Integers, FiniteSets

CONSTANTS
  Deck,   \* the cards of this round (BuildDeck's 54, fewer in a small instance)
  Value   \* the value of each card

ASSUME DeckAssumption == IsFiniteSet(Deck) /\ Value \in [Deck -> 3..17]

Two == 15
SmallJoker == 16
BigJoker == 17

\* The patterns a play can have.  RocketWeight is the fixed weight of the rocket.
RocketWeight == 100
PatternTypes ==
  {"single", "pair", "triple", "triple_with_single", "triple_with_pair",
   "straight", "straight_pair", "airplane", "airplane_with_single",
   "airplane_with_pair", "bomb", "four_with_two_singles",
   "four_with_two_pairs", "rocket"}

Pattern == [type : PatternTypes, weight : Int, length : Int]

\* std::nullopt for last_pattern_, and PatternType::kInvalid.
NoPattern == [type |-> "none", weight |-> 0, length |-> 0]
Invalid   == [type |-> "invalid", weight |-> 0, length |-> 0]

MakePattern(type, cards, weight) ==
  [type |-> type, weight |-> weight, length |-> Cardinality(cards)]

-----------------------------------------------------------------------------
\* GroupByValue: the values of a play, the cards of one value, and how many.
Values(cards) == {Value[c] : c \in cards}
Bucket(cards, v) == {c \in cards : Value[c] = v}
Count(cards, v) == Cardinality(Bucket(cards, v))

\* ValuesFromCounts and ExtractValuesWithCount.
WithCount(cards, n) == {v \in Values(cards) : Count(cards, v) = n}
WithAtLeast(cards, n) == {v \in Values(cards) : Count(cards, v) >= n}

\* counts == {...}: exactly `cores` values n times and `rest` values m times.
Shape(cards, n, cores, m, rest) ==
  /\ Cardinality(WithCount(cards, n)) = cores
  /\ Cardinality(WithCount(cards, m)) = rest
  /\ Values(cards) = WithCount(cards, n) \cup WithCount(cards, m)

\* FindConsecutiveRuns: every interval of at least `least` values within S.
Runs(S, least) ==
  {r \in {lo..hi : lo \in S, hi \in S} :
     /\ r # {}
     /\ r \subseteq S
     /\ Cardinality(r) >= least}

\* run.back(), and the largest value of a chain (nothing for no cards).
Highest(run) == {v \in run : \A w \in run : w <= v}

\* Mutant of Chain: the minimum length is forgotten.
ChainOfAnyLength(cards, n, least) ==
  /\ Values(cards) = WithCount(cards, n)
  /\ Values(cards) \in Runs(Values(cards) \cap 3..14, 1)

\* A chain: the whole play is one run below the two, every value n times.
Chain(cards, n, least) ==
  /\ Values(cards) = WithCount(cards, n)
  /\ Values(cards) \in Runs(Values(cards) \cap 3..14, least)

\* The runs of triples an airplane can be built on (twos and jokers excluded).
PlaneRuns(cards) == Runs(WithAtLeast(cards, 3) \cap 3..14, 2)

\* Mutant of IsAirplane: the wings are not counted.
IsAirplaneUncountedWings(cards, run, n) ==
  /\ Cardinality(cards) = Cardinality(run) * (3 + n)
  /\ \A v \in Values(cards) \ run : Count(cards, v) = n

\* An airplane on `run` with one wing of n cards (0, 1 or 2) per triple.
IsAirplane(cards, run, n) ==
  LET wings == Values(cards) \ run IN
  /\ Cardinality(cards) = Cardinality(run) * (3 + n)
  /\ \A v \in wings : Count(cards, v) = n
  /\ Cardinality(wings) = IF n = 0 THEN 0 ELSE Cardinality(run)

\* Every reading of a play.  The code returns at the first test that succeeds;
\* OneReading says that no play passes two of them, so the order is immaterial.
Readings(cards) ==
  LET n == Cardinality(cards)
      As(type, weights) == {MakePattern(type, cards, w) : w \in weights}
      If(test, S) == {v \in S : test}
      One == Cardinality(Values(cards)) = 1
  IN  As("single", If(n = 1, Values(cards)))
        \cup As("rocket", If(n = 2 /\ Values(cards) = {SmallJoker, BigJoker},
                             {RocketWeight}))
        \cup As("pair", If(n = 2 /\ One, Values(cards)))
        \cup As("triple", If(n = 3 /\ One, Values(cards)))
        \cup As("bomb", If(n = 4 /\ One, Values(cards)))
        \cup As("triple_with_single",
                If(n = 4 /\ Shape(cards, 3, 1, 1, 1), WithCount(cards, 3)))
        \cup As("triple_with_pair",
                If(n = 5 /\ Shape(cards, 3, 1, 2, 1), WithCount(cards, 3)))
        \cup As("four_with_two_singles",
                If(n = 6 /\ Shape(cards, 4, 1, 1, 2), WithCount(cards, 4)))
        \cup As("four_with_two_pairs",
                If(n = 8 /\ Shape(cards, 4, 1, 2, 2), WithCount(cards, 4)))
        \cup As("straight", If(Chain(cards, 1, 5), Highest(Values(cards))))
        \cup As("straight_pair", If(Chain(cards, 2, 3), Highest(Values(cards))))
        \cup As("airplane",
                UNION {Highest(r) : r \in {q \in PlaneRuns(cards) : IsAirplane(cards, q, 0)}})
        \cup As("airplane_with_single",
                UNION {Highest(r) : r \in {q \in PlaneRuns(cards) : IsAirplane(cards, q, 1)}})
        \cup As("airplane_with_pair",
                UNION {Highest(r) : r \in {q \in PlaneRuns(cards) : IsAirplane(cards, q, 2)}})

EvaluatePattern(cards) ==
  IF Readings(cards) = {} THEN Invalid ELSE CHOOSE p \in Readings(cards) : TRUE

-----------------------------------------------------------------------------
\* The types whose length must not be compared.
FixedLength == {"single", "pair", "triple", "bomb"}

\* Mutant of CanBeat: nothing protects a rocket on the table.
CanBeatARocket(candidate, last) ==
  /\ candidate.type # "invalid"
  /\ \/ last = NoPattern
     \/ candidate.type = "rocket"
     \/ candidate.type = "bomb" /\ last.type # "bomb"
     \/ candidate.type = last.type /\ candidate.weight > last.weight

\* CanBeat(candidate, last_pattern); `last` is NoPattern on a lead.
CanBeat(candidate, last) ==
  /\ candidate.type # "invalid"
  /\ \/ last = NoPattern
     \/ candidate.type = "rocket"
     \/ /\ last.type # "rocket"
        /\ \/ /\ candidate.type = "bomb"
              /\ last.type \notin {"bomb", "four_with_two_singles", "four_with_two_pairs"}
           \/ /\ candidate.type = last.type
              /\ candidate.length = last.length \/ candidate.type \in FixedLength
              /\ candidate.weight > last.weight

-----------------------------------------------------------------------------
\* BuildCandidates.  Some(cards, v, n) is the first n cards of a bucket: cards of
\* one value differ in suit only, so any n of them stand for the code's choice.
Some(cards, v, n) == CHOOSE s \in SUBSET Bucket(cards, v) : Cardinality(s) = n
TakeCards(cards, run, n) == UNION {Some(cards, v, n) : v \in run}

\* Mutant of Lowest: one too few.
LowestButOne(S, k) == {v \in S : Cardinality({w \in S : w < v}) < k - 1}

\* The k lowest values of S (CollectSinglesExcluding and CollectPairsExcluding
\* walk an ordered map and the airplane takes the first k).
Lowest(S, k) == {v \in S : Cardinality({w \in S : w < v}) < k}

\* Wings: the values outside `core` with at least n cards.
Wings(cards, core, n) == WithAtLeast(cards, n) \ core

\* One value with n attached values of m cards each.
Attached(cards, n, wingCount, m) ==
  UNION {{Some(cards, v, n) \cup TakeCards(cards, w, m) :
             w \in {x \in SUBSET Wings(cards, {v}, m) : Cardinality(x) = wingCount}} :
         v \in WithAtLeast(cards, n)}

Chains(cards, n, least) ==
  {TakeCards(cards, r, n) : r \in Runs(WithAtLeast(cards, n) \cap 3..14, least)}

Airplanes(cards, m) ==
  {TakeCards(cards, r, 3) \cup TakeCards(cards, Lowest(Wings(cards, r, m), Cardinality(r)), m) :
     r \in {q \in PlaneRuns(cards) : Cardinality(Wings(cards, q, m)) >= Cardinality(q)}}

Candidates(cards) ==
  (UNION {{Some(cards, v, n) : v \in WithAtLeast(cards, n)} : n \in 1..4})
    \cup Attached(cards, 3, 1, 1) \cup Attached(cards, 3, 1, 2)
    \cup Attached(cards, 4, 2, 1) \cup Attached(cards, 4, 2, 2)
    \cup (IF {SmallJoker, BigJoker} \subseteq Values(cards)
          THEN {TakeCards(cards, {SmallJoker, BigJoker}, 1)} ELSE {})
    \cup Chains(cards, 1, 5) \cup Chains(cards, 2, 3) \cup Chains(cards, 3, 2)
    \cup Airplanes(cards, 1) \cup Airplanes(cards, 2)

BuildCandidates(cards) ==
  {s \in Candidates(cards) : EvaluatePattern(s) # Invalid}
=============================================================================
