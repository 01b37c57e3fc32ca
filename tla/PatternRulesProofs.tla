------------------------- MODULE PatternRulesProofs -------------------------
(***************************************************************************)
(* That models.cpp reads, generates and compares plays by the rules, for   *)
(* every deck and every hand of at most 20 cards.  Every reading of a play *)
(* but the rocket's is a core and wings of a row of the rules (ReadsFits), *)
(* every such play is read so (FitsReads), and the cards determine the     *)
(* core: the values held most often (FitsUnique).                          *)
(***************************************************************************)
EXTENDS PatternRules, CardPatternsProofs, FunctionTheorems

-----------------------------------------------------------------------------
(* Finite sets.                                                            *)

\* A finite set has a subset of every smaller size.
LEMMA SubsetOfSize ==
  ASSUME NEW S, IsFiniteSet(S), NEW n \in Nat, n <= Cardinality(S)
  PROVE  \E T \in SUBSET S : Cardinality(T) = n
<1> DEFINE N == Cardinality(S)
<1>1. N \in Nat /\ ExistsBijection(1..N, S)
  BY FS_CardinalityType
<1>2. PICK f \in Bijection(1..N, S) : TRUE
  BY <1>1 DEF ExistsBijection
<1> HIDE DEF N
<1>3. f \in [1..N -> S] /\ \A i, j \in 1..N : f[i] = f[j] => i = j
  BY <1>2 DEF Bijection, Injection, IsInjective
<1> DEFINE T == {f[i] : i \in 1..n}
           g == [i \in 1..n |-> f[i]]
<1>4. \A i \in 1..n : i \in 1..N
  BY <1>1 DEF N
<1>5. T \in SUBSET S
  BY <1>3, <1>4
<1>6. g \in Bijection(1..n, T)
  BY <1>3, <1>4 DEF Bijection, Injection, Surjection, IsInjective
<1>7. IsFiniteSet(1..n) /\ Cardinality(1..n) = n
  BY FS_Interval
<1>8. Cardinality(T) = n
  BY <1>6, <1>7, FS_Bijection DEF ExistsBijection
<1> QED
  BY <1>5, <1>8

\* The k lowest of a finite set are k.  A value is ranked by how many are below it.
LEMMA LowestCount ==
  ASSUME NEW S \in SUBSET Int, IsFiniteSet(S), NEW k \in Nat, k <= Cardinality(S)
  PROVE  Lowest(S, k) \subseteq S /\ Cardinality(Lowest(S, k)) = k
<1> DEFINE N       == Cardinality(S)
           Less(v) == {w \in S : w < v}
           rank    == [v \in S |-> Cardinality(Less(v))]
<1>1. N \in Nat
  BY FS_CardinalityType
<1>2. ASSUME NEW v \in S PROVE rank[v] \in 0..(N-1) /\ IsFiniteSet(Less(v))
  <2>1. Less(v) \in SUBSET (S \ {v})
    OBVIOUS
  <2>2. IsFiniteSet(S \ {v}) /\ Cardinality(S \ {v}) = N - 1
    BY FS_RemoveElement
  <2>3. IsFiniteSet(Less(v)) /\ Cardinality(Less(v)) <= N - 1
    BY <2>1, <2>2, FS_Subset
  <2> QED
    BY <1>1, <2>3, FS_CardinalityType
<1>3. ASSUME NEW v \in S, NEW w \in S, v < w PROVE rank[v] < rank[w]
  <2>1. Less(v) \cup {v} \in SUBSET Less(w) /\ v \notin Less(v)
    <3>1. ASSUME NEW x \in Less(v) PROVE x \in Less(w)
      BY <1>3
    <3>2. v \in Less(w) /\ v \notin Less(v)
      BY <1>3
    <3> HIDE DEF Less
    <3> QED
      BY <3>1, <3>2
  <2>2. Cardinality(Less(v) \cup {v}) = rank[v] + 1
    BY <1>2, <2>1, FS_AddElement
  <2>3. Cardinality(Less(v) \cup {v}) <= rank[w]
    BY <1>2, <2>1, FS_Subset
  <2> QED
    BY <1>2, <2>2, <2>3
<1> HIDE DEF Less
<1>4. rank \in Injection(S, 0..(N-1))
  <2>1. rank \in [S -> 0..(N-1)]
    BY <1>2
  <2>2. ASSUME NEW v \in S, NEW w \in S, rank[v] = rank[w] PROVE v = w
    <3>1. ~(rank[v] < rank[w]) /\ ~(rank[w] < rank[v])
      BY <1>2, <2>2
    <3> QED
      BY <1>3, <3>1
  <2> QED
    BY <2>1, <2>2 DEF Injection, IsInjective
<1>5. IsFiniteSet(0..(N-1)) /\ Cardinality(0..(N-1)) = N
  <2> HIDE DEF N
  <2>1. N - 1 \in Int /\ 0 \in Int
    BY <1>1
  <2>2. /\ IsFiniteSet(0..(N-1))
        /\ Cardinality(0..(N-1)) = IF 0 > N - 1 THEN 0 ELSE (N - 1) - 0 + 1
    BY <2>1, FS_Interval
  <2> QED
    BY <1>1, <2>2
<1>6. rank \in Surjection(S, 0..(N-1))
  BY <1>4, <1>5, FS_Injection
<1> DEFINE L == Lowest(S, k)
<1>7. L = {v \in S : rank[v] < k}
  BY DEF Lowest, Less
<1> HIDE DEF L, N, rank
<1> DEFINE g == [v \in L |-> rank[v]]
<1>8. g \in Bijection(L, 0..(k-1))
  <2>1. ASSUME NEW v \in L PROVE rank[v] \in 0..(k-1)
    <3>1. v \in S /\ rank[v] < k
      BY <1>7
    <3>2. rank[v] \in 0..(N-1)
      BY <1>2, <3>1
    <3> QED
      BY <1>1, <3>1, <3>2
  <2>2. \A v, w \in L : g[v] = g[w] => v = w
    BY <1>4, <1>7 DEF Injection, IsInjective
  <2>3. ASSUME NEW i \in 0..(k-1) PROVE \E v \in L : g[v] = i
    <3>1. i \in 0..(N-1)
      BY <1>1 DEF N
    <3>2. PICK v \in S : rank[v] = i
      BY <1>6, <3>1 DEF Surjection
    <3> QED
      BY <1>7, <3>2
  <2> QED
    BY <2>1, <2>2, <2>3 DEF Bijection, Injection, Surjection, IsInjective
<1>9. IsFiniteSet(L)
  BY <1>7, FS_Subset
<1>10. Cardinality(0..(k-1)) = Cardinality(L)
  BY <1>8, <1>9, FS_Bijection DEF ExistsBijection
<1>11. Cardinality(0..(k-1)) = k
  BY FS_Interval
<1> QED
  BY <1>7, <1>10, <1>11 DEF L

-----------------------------------------------------------------------------
(* Plays as buckets of cards of one value.                                 *)

\* The cards of some values.
CardsOf(cards, V) == {c \in cards : Value[c] \in V}

LEMMA BucketFacts ==
  ASSUME NEW cards \in SUBSET Deck, NEW v
  PROVE  /\ Bucket(cards, v) \subseteq cards /\ IsFiniteSet(Bucket(cards, v))
         /\ Count(cards, v) \in Nat
         /\ v \in Values(cards) <=> Bucket(cards, v) # {}
         /\ Count(cards, v) = 0 <=> Bucket(cards, v) = {}
<1>1. Bucket(cards, v) \subseteq cards /\ IsFiniteSet(cards)
  BY PlayIsFinite DEF Bucket
<1>2. IsFiniteSet(Bucket(cards, v))
  BY <1>1, FS_Subset
<1>3. Count(cards, v) \in Nat
  BY <1>2, FS_CardinalityType DEF Count
<1>4. Count(cards, v) = 0 <=> Bucket(cards, v) = {}
  BY <1>2, FS_EmptySet DEF Count
<1>5. v \in Values(cards) <=> Bucket(cards, v) # {}
  BY DEF Values, Bucket
<1> QED
  BY <1>1, <1>2, <1>3, <1>4, <1>5

LEMMA ValuesFacts ==
  ASSUME NEW cards \in SUBSET Deck
  PROVE  /\ Values(cards) \in SUBSET (3..17) /\ IsFiniteSet(Values(cards))
         /\ Cardinality(Values(cards)) \in Nat
         /\ \A v \in Values(cards) : Count(cards, v) \in Nat /\ Count(cards, v) >= 1
<1>1. Values(cards) \in SUBSET (3..17)
  BY PlayIsFinite
<1>2. IsFiniteSet(3..17)
  <2>1. 3 \in Int /\ 17 \in Int
    OBVIOUS
  <2> QED
    BY <2>1, FS_Interval
<1>3. IsFiniteSet(Values(cards))
  BY <1>1, <1>2, FS_Subset
<1>4. ASSUME NEW v \in Values(cards) PROVE Count(cards, v) \in Nat /\ Count(cards, v) >= 1
  BY BucketFacts
<1> QED
  BY <1>1, <1>3, <1>4, FS_CardinalityType

\* The cards of some values, n of each, are n times as many as the values.
LEMMA SameCount ==
  ASSUME NEW cards \in SUBSET Deck, NEW V, IsFiniteSet(V), NEW n \in Nat,
         \A v \in V : Count(cards, v) = n
  PROVE  Cardinality(CardsOf(cards, V)) = n * Cardinality(V)
<1>1. \A v \in V : \E f : f \in Bijection(Bucket(cards, v), 1..n)
  <2> SUFFICES ASSUME NEW v \in V PROVE \E f : f \in Bijection(Bucket(cards, v), 1..n)
    OBVIOUS
  <2>1. IsFiniteSet(1..n) /\ Cardinality(1..n) = n
    BY FS_Interval
  <2>2. IsFiniteSet(Bucket(cards, v)) /\ Cardinality(Bucket(cards, v)) = n
    BY BucketFacts DEF Count
  <2> QED
    BY <2>1, <2>2, FS_SameCardinalityBij DEF ExistsBijection
<1> DEFINE F == [v \in V |-> CHOOSE f : f \in Bijection(Bucket(cards, v), 1..n)]
           C == CardsOf(cards, V)
           g == [c \in C |-> <<Value[c], F[Value[c]][c]>>]
<1>2. \A v \in V : F[v] \in Bijection(Bucket(cards, v), 1..n)
  BY <1>1
<1> HIDE DEF F
<1>3. ASSUME NEW v \in V
      PROVE  /\ F[v] \in [Bucket(cards, v) -> 1..n]
             /\ \A c, d \in Bucket(cards, v) : F[v][c] = F[v][d] => c = d
             /\ \A i \in 1..n : \E c \in Bucket(cards, v) : F[v][c] = i
  BY <1>2 DEF Bijection, Injection, Surjection, IsInjective
<1>4. \A c \in C : Value[c] \in V /\ c \in Bucket(cards, Value[c])
  BY DEF CardsOf, Bucket
<1>5. \A v \in V : \A c \in Bucket(cards, v) : c \in C /\ Value[c] = v
  BY DEF CardsOf, Bucket
<1> HIDE DEF C
<1>6. g \in [C -> V \X (1..n)]
  <2>1. ASSUME NEW c \in C PROVE <<Value[c], F[Value[c]][c]>> \in V \X (1..n)
    BY <1>3, <1>4
  <2> QED
    BY <2>1
<1>7. ASSUME NEW c \in C, NEW d \in C, g[c] = g[d] PROVE c = d
  <2>1. Value[c] = Value[d] /\ F[Value[c]][c] = F[Value[d]][d]
    BY <1>7
  <2> QED
    BY <1>3, <1>4, <2>1
<1>8. ASSUME NEW x \in V \X (1..n) PROVE \E c \in C : g[c] = x
  <2>1. x[1] \in V /\ x[2] \in 1..n /\ x = <<x[1], x[2]>>
    OBVIOUS
  <2>2. PICK c \in Bucket(cards, x[1]) : F[x[1]][c] = x[2]
    BY <1>3, <2>1
  <2>3. c \in C /\ Value[c] = x[1]
    BY <1>5, <2>1
  <2> QED
    BY <2>1, <2>2, <2>3
<1>9. g \in Bijection(C, V \X (1..n))
  <2> HIDE DEF g
  <2> QED
    BY <1>6, <1>7, <1>8 DEF Bijection, Injection, Surjection, IsInjective
<1>10. IsFiniteSet(1..n) /\ Cardinality(1..n) = n
  BY FS_Interval
<1>11. Cardinality(V \X (1..n)) = Cardinality(V) * n
  BY <1>10, FS_Product
<1>12. C \subseteq cards /\ IsFiniteSet(cards)
  BY PlayIsFinite DEF C, CardsOf
<1>13. IsFiniteSet(C)
  BY <1>12, FS_Subset
<1>14. Cardinality(C) = Cardinality(V) * n
  BY <1>9, <1>11, <1>13, FS_Bijection DEF ExistsBijection
<1>15. Cardinality(V) \in Nat
  BY FS_CardinalityType
<1>16. Cardinality(C) = n * Cardinality(V)
  BY <1>14, <1>15
<1> QED
  BY <1>16 DEF C

\* A play of a core, n cards of each value, and wings of m cards each.
LEMMA CoreAndWings ==
  ASSUME NEW cards \in SUBSET Deck, NEW core \in SUBSET Values(cards), NEW n \in Nat, NEW m \in Nat,
         \A v \in core : Count(cards, v) = n,
         \A v \in Values(cards) \ core : Count(cards, v) = m
  PROVE  Cardinality(cards) = n * Cardinality(core) + m * Cardinality(Values(cards) \ core)
<1> DEFINE wings == Values(cards) \ core
           C == CardsOf(cards, core)
           W == CardsOf(cards, wings)
<1>1. IsFiniteSet(core) /\ IsFiniteSet(wings)
  BY ValuesFacts, FS_Subset
<1>2. Cardinality(C) = n * Cardinality(core) /\ Cardinality(W) = m * Cardinality(wings)
  BY <1>1, SameCount
<1>3. C \cup W = cards /\ C \cap W = {} /\ C \subseteq cards /\ W \subseteq cards
  BY DEF CardsOf, Values
<1>4. IsFiniteSet(C) /\ IsFiniteSet(W)
  BY <1>3, PlayIsFinite, FS_Subset
<1> HIDE DEF C, W, wings
<1>5. Cardinality(C \cup W) = Cardinality(C) + Cardinality(W) - Cardinality(C \cap W)
  BY <1>4, FS_Union
<1>6. Cardinality(C \cap W) = 0 /\ Cardinality(C) \in Nat /\ Cardinality(W) \in Nat
  BY <1>3, <1>4, FS_EmptySet, FS_CardinalityType
<1>7. Cardinality(cards) = Cardinality(C) + Cardinality(W)
  <2>1. Cardinality(cards) = Cardinality(C) + Cardinality(W) - Cardinality(C \cap W)
    BY <1>3, <1>5, Zenon
  <2> QED
    BY <1>6, <2>1
<1> QED
  BY <1>2, <1>7 DEF wings

LEMMA SomeFacts ==
  ASSUME NEW cards \in SUBSET Deck, NEW n \in Nat, NEW v \in WithAtLeast(cards, n)
  PROVE  Some(cards, v, n) \subseteq Bucket(cards, v) /\ Cardinality(Some(cards, v, n)) = n
<1>1. n <= Count(cards, v) /\ IsFiniteSet(Bucket(cards, v))
  BY BucketFacts DEF WithAtLeast
<1>2. \E s \in SUBSET Bucket(cards, v) : Cardinality(s) = n
  BY <1>1, SubsetOfSize DEF Count
<1> QED
  BY <1>2 DEF Some

\* The play holds n cards of each of some values.
Holds(cards, V, n) == n \in Nat /\ n # 0 /\ V \subseteq WithAtLeast(cards, n)

\* n cards of each of some values.
LEMMA TakenFacts ==
  ASSUME NEW cards \in SUBSET Deck, NEW V, NEW n, Holds(cards, V, n)
  PROVE  /\ TakeCards(cards, V, n) \in SUBSET cards
         /\ Values(TakeCards(cards, V, n)) = V
         /\ \A v \in V : Count(TakeCards(cards, V, n), v) = n
<1> USE DEF Holds
<1> DEFINE s == TakeCards(cards, V, n)
<1>1. \A v \in V : Some(cards, v, n) \subseteq Bucket(cards, v) /\ Cardinality(Some(cards, v, n)) = n
  BY SomeFacts
<1>2. s = UNION {Some(cards, v, n) : v \in V}
  BY DEF TakeCards
<1> HIDE DEF s
<1>3. \A c \in s : c \in cards /\ Value[c] \in V /\ c \in Some(cards, Value[c], n)
  BY <1>1, <1>2 DEF Bucket
<1>4. \A v \in V : \A c \in Some(cards, v, n) : c \in s /\ Value[c] = v
  BY <1>1, <1>2 DEF Bucket
<1>5. \A v \in V : Bucket(s, v) = Some(cards, v, n)
  BY <1>3, <1>4 DEF Bucket
<1>6. \A v \in V : Count(s, v) = n
  BY <1>1, <1>5 DEF Count
<1>7. \A v \in V : \E c \in s : Value[c] = v
  <2> SUFFICES ASSUME NEW v \in V PROVE \E c \in s : Value[c] = v
    OBVIOUS
  <2>1. Some(cards, v, n) # {}
    BY <1>1, FS_EmptySet
  <2> QED
    BY <1>4, <2>1
<1>8. Values(s) = V
  BY <1>3, <1>7 DEF Values
<1> QED
  BY <1>3, <1>6, <1>8 DEF s

\* A play put together of n cards of each value of a core and m of each of its wings.
Built(cards, core, n, wings, m) == TakeCards(cards, core, n) \cup TakeCards(cards, wings, m)

LEMMA BuiltFacts ==
  ASSUME NEW cards \in SUBSET Deck, NEW core, NEW n, Holds(cards, core, n),
         NEW wings, NEW m, wings = {} \/ Holds(cards, wings, m), core \cap wings = {}
  PROVE  /\ Built(cards, core, n, wings, m) \in SUBSET cards
         /\ Values(Built(cards, core, n, wings, m)) = core \cup wings
         /\ \A v \in core : Count(Built(cards, core, n, wings, m), v) = n
         /\ \A v \in wings : Count(Built(cards, core, n, wings, m), v) = m
<1> DEFINE c == TakeCards(cards, core, n)
           w == TakeCards(cards, wings, m)
           s == Built(cards, core, n, wings, m)
<1>0. c = TakeCards(cards, core, n) /\ w = TakeCards(cards, wings, m) /\ s = c \cup w
  BY DEF Built
<1> HIDE DEF c, w, s
<1>1. c \in SUBSET cards /\ Values(c) = core /\ \A v \in core : Count(c, v) = n
  BY <1>0, TakenFacts
<1>2. w \in SUBSET cards /\ Values(w) = wings /\ \A v \in wings : Count(w, v) = m
  <2>1. CASE wings = {}
    <3>1. w = {}
      BY <1>0, <2>1 DEF TakeCards
    <3> QED
      BY <2>1, <3>1 DEF Values
  <2>2. CASE wings # {}
    BY <1>0, <2>2, TakenFacts
  <2> QED
    BY <2>1, <2>2
<1>3. Values(s) = core \cup wings
  BY <1>0, <1>1, <1>2 DEF Values
<1>4. \A v \in core : Bucket(s, v) = Bucket(c, v)
  BY <1>0, <1>2 DEF Bucket, Values
<1>5. \A v \in wings : Bucket(s, v) = Bucket(w, v)
  BY <1>0, <1>1 DEF Bucket, Values
<1> QED
  BY <1>0, <1>1, <1>2, <1>3, <1>4, <1>5 DEF Count, s

-----------------------------------------------------------------------------
(* The rules and the code's tests, kind by kind.                           *)

Top(core) == CHOOSE v \in core : \A w \in core : w <= v

\* A core is an interval, and its top the end of it.
IsCore(core, k) == core # {} /\ \E top \in core : core = top - k + 1 .. top

\* Fits for a row of the rules.
FitsRow(cards, core, n, k, w, m) ==
  /\ IsCore(core, k)
  /\ k > 1 => core \subseteq 3..14
  /\ \A v \in core : Count(cards, v) = n
  /\ Cardinality(Values(cards) \ core) = w
  /\ \A v \in Values(cards) \ core : Count(cards, v) = m

LEMMA FitsIs ==
  ASSUME NEW cards, NEW core, NEW n, NEW k, NEW w, NEW m, NEW rule, rule = <<n, k, w, m>>
  PROVE  Fits(cards, core, rule) <=> FitsRow(cards, core, n, k, w, m)
<1>1. rule[1] = n /\ rule[2] = k /\ rule[3] = w /\ rule[4] = m
  OBVIOUS
<1> QED
  BY <1>1 DEF Fits, FitsRow, IsCore

LEMMA TopIs ==
  ASSUME NEW core \in SUBSET Int, NEW v \in core, \A w \in core : w <= v
  PROVE  Top(core) = v
<1>1. Top(core) \in core /\ \A w \in core : w <= Top(core)
  BY DEF Top
<1>2. Top(core) <= v /\ v <= Top(core) /\ Top(core) \in Int /\ v \in Int
  BY <1>1
<1> QED
  BY <1>2

LEMMA CoreFacts ==
  ASSUME NEW core \in SUBSET Int, NEW k \in Nat, IsCore(core, k)
  PROVE  /\ k # 0 /\ Cardinality(core) = k /\ IsFiniteSet(core)
         /\ Top(core) \in core /\ core = Top(core) - k + 1 .. Top(core)
         /\ \A w \in core : w <= Top(core)
<1>1. PICK top \in core : core = top - k + 1 .. top
  BY DEF IsCore
<1>2. top \in Int /\ \A w \in core : w <= top
  BY <1>1
<1>3. Top(core) = top
  BY <1>2, TopIs
<1>4. top - k + 1 \in Int /\ top - k + 1 <= top
  BY <1>1, <1>2
<1>5. IsFiniteSet(core) /\ Cardinality(core) = top - (top - k + 1) + 1
  BY <1>1, <1>2, <1>4, FS_Interval
<1> QED
  BY <1>1, <1>2, <1>3, <1>4, <1>5

\* A run is a core.
LEMMA RunFacts ==
  ASSUME NEW S \in SUBSET Int, NEW least \in Nat, NEW r \in Runs(S, least)
  PROVE  /\ r \in SUBSET S /\ Cardinality(r) \in Nat /\ least <= Cardinality(r)
         /\ IsCore(r, Cardinality(r))
<1>1. PICK lo \in S, hi \in S : r = lo..hi
  BY DEF Runs
<1>2. r # {} /\ r \subseteq S /\ Cardinality(r) >= least
  BY DEF Runs
<1>3. lo \in Int /\ hi \in Int /\ lo <= hi
  BY <1>1, <1>2
<1>4. Cardinality(r) = hi - lo + 1
  BY <1>1, <1>3, FS_Interval
<1>5. hi \in r /\ r = hi - Cardinality(r) + 1 .. hi
  BY <1>1, <1>3, <1>4
<1> QED
  BY <1>2, <1>3, <1>4, <1>5 DEF IsCore

LEMMA CoreRuns ==
  ASSUME NEW S \in SUBSET Int, NEW least \in Nat, NEW k \in Nat, least <= k,
         NEW r \in SUBSET S, IsCore(r, k)
  PROVE  r \in Runs(S, least)
<1>1. /\ k # 0 /\ Cardinality(r) = k
      /\ Top(r) \in r /\ r = Top(r) - k + 1 .. Top(r)
  BY CoreFacts
<1>2. PICK t \in r : r = t - k + 1 .. t
  BY <1>1
<1>3. t \in Int /\ t \in S
  OBVIOUS
<1> DEFINE lo == t - k + 1
<1>4. lo \in Int /\ lo <= t /\ r = lo..t
  BY <1>1, <1>2, <1>3
<1> HIDE DEF lo
<1>5. lo \in S
  <2>1. lo \in lo..t
    BY <1>3, <1>4
  <2> QED
    BY <1>4, <2>1
<1> QED
  BY <1>1, <1>3, <1>4, <1>5 DEF Runs

LEMMA HighestIsTop ==
  ASSUME NEW r \in SUBSET Int, NEW v
  PROVE  v \in Highest(r) <=> (v = Top(r) /\ v \in r /\ \A w \in r : w <= v)
<1>1. ASSUME v \in Highest(r) PROVE v = Top(r) /\ v \in r /\ \A w \in r : w <= v
  <2>1. v \in r /\ \A w \in r : w <= v
    BY <1>1 DEF Highest
  <2> QED
    BY <2>1, TopIs
<1> QED
  BY <1>1 DEF Highest

LEMMA WithCountFacts ==
  ASSUME NEW cards \in SUBSET Deck, NEW n
  PROVE  /\ WithCount(cards, n) \subseteq Values(cards)
         /\ \A v : v \in WithCount(cards, n) <=> v \in Values(cards) /\ Count(cards, v) = n
  BY DEF WithCount

\* Cards of one value.
LEMMA OneValueFits ==
  ASSUME NEW cards \in SUBSET Deck, Cardinality(Values(cards)) = 1, NEW v \in Values(cards)
  PROVE  FitsRow(cards, {v}, Cardinality(cards), 1, 0, 0) /\ Top({v}) = v
<1>1. Values(cards) = {v} /\ v \in Int
  BY ValuesFacts, FS_Singleton
<1>2. Count(cards, v) = Cardinality(cards)
  <2>1. Bucket(cards, v) = cards
    BY <1>1 DEF Bucket, Values
  <2> QED
    BY <2>1 DEF Count
<1>3. Top({v}) = v
  BY <1>1, TopIs
<1>4. Values(cards) \ {v} = {} /\ Cardinality({}) = 0
  BY <1>1, FS_EmptySet
<1>5. IsCore({v}, 1)
  <2>1. v - 1 + 1 = v /\ v..v = {v}
    BY <1>1
  <2> QED
    BY <2>1 DEF IsCore
<1>6. ~(1 > 1)
  OBVIOUS
<1> QED
  BY <1>2, <1>3, <1>4, <1>5, <1>6 DEF FitsRow

LEMMA FitsOneValue ==
  ASSUME NEW cards \in SUBSET Deck, NEW core \in SUBSET Values(cards), NEW n \in Nat,
         FitsRow(cards, core, n, 1, 0, 0)
  PROVE  Cardinality(Values(cards)) = 1 /\ Cardinality(cards) = n /\ Top(core) \in Values(cards)
<1>1. /\ IsCore(core, 1) /\ \A v \in core : Count(cards, v) = n
      /\ Cardinality(Values(cards) \ core) = 0
  BY DEF FitsRow
<1>2. core \in SUBSET Int /\ IsFiniteSet(Values(cards))
  BY ValuesFacts
<1>3. Cardinality(core) = 1 /\ Top(core) \in core
  BY <1>1, <1>2, CoreFacts
<1>4. Values(cards) \ core = {}
  BY <1>1, <1>2, FS_Difference, FS_EmptySet
<1>5. Values(cards) = core
  BY <1>4
<1>6. Cardinality(cards) = n * Cardinality(core) + 0 * Cardinality(Values(cards) \ core)
  BY <1>1, <1>4, CoreAndWings
<1> QED
  BY <1>1, <1>3, <1>5, <1>6

\* One value with other ones attached.
LEMMA ShapeFits ==
  ASSUME NEW cards \in SUBSET Deck, NEW n, NEW m, NEW rest, n # m,
         Shape(cards, n, 1, m, rest), NEW v \in WithCount(cards, n)
  PROVE  FitsRow(cards, {v}, n, 1, rest, m) /\ Top({v}) = v /\ v \in Values(cards)
<1>1. /\ Cardinality(WithCount(cards, n)) = 1 /\ Cardinality(WithCount(cards, m)) = rest
      /\ Values(cards) = WithCount(cards, n) \cup WithCount(cards, m)
  BY DEF Shape
<1>2. IsFiniteSet(WithCount(cards, n))
  BY ValuesFacts, WithCountFacts, FS_Subset
<1>3. WithCount(cards, n) = {v}
  BY <1>1, <1>2, FS_Singleton
<1>4. Values(cards) \ {v} = WithCount(cards, m)
  BY <1>1, <1>3, WithCountFacts
<1>5. v \in Int /\ v \in Values(cards)
  BY ValuesFacts, WithCountFacts
<1>6. Top({v}) = v
  BY <1>5, TopIs
<1>7. IsCore({v}, 1)
  <2>1. v - 1 + 1 = v /\ v..v = {v}
    BY <1>5
  <2> QED
    BY <2>1 DEF IsCore
<1>8. Count(cards, v) = n /\ \A w \in Values(cards) \ {v} : Count(cards, w) = m
  BY <1>4, WithCountFacts
<1>9. ~(1 > 1)
  OBVIOUS
<1> QED
  BY <1>1, <1>4, <1>5, <1>6, <1>7, <1>8, <1>9 DEF FitsRow

LEMMA FitsShape ==
  ASSUME NEW cards \in SUBSET Deck, NEW core \in SUBSET Values(cards),
         NEW n \in Nat, NEW m \in Nat, NEW w \in Nat, n # m,
         FitsRow(cards, core, n, 1, w, m)
  PROVE  /\ Shape(cards, n, 1, m, w) /\ Top(core) \in WithCount(cards, n)
         /\ Cardinality(cards) = n + m * w
<1>1. /\ IsCore(core, 1) /\ \A v \in core : Count(cards, v) = n
      /\ Cardinality(Values(cards) \ core) = w
      /\ \A v \in Values(cards) \ core : Count(cards, v) = m
  BY DEF FitsRow
<1>2. core \in SUBSET Int
  BY ValuesFacts
<1>3. Cardinality(core) = 1 /\ Top(core) \in core
  BY <1>1, <1>2, CoreFacts
<1>4. WithCount(cards, n) = core
  BY <1>1, WithCountFacts
<1>5. WithCount(cards, m) = Values(cards) \ core
  BY <1>1, WithCountFacts
<1>6. Values(cards) = WithCount(cards, n) \cup WithCount(cards, m)
  BY <1>4, <1>5
<1>7. Shape(cards, n, 1, m, w)
  BY <1>1, <1>3, <1>4, <1>5, <1>6 DEF Shape
<1>8. Cardinality(cards) = n * Cardinality(core) + m * Cardinality(Values(cards) \ core)
  BY <1>1, CoreAndWings
<1>9. Cardinality(cards) = n * 1 + m * w
  BY <1>1, <1>3, <1>8
<1>10. n * 1 = n
  OBVIOUS
<1> QED
  BY <1>3, <1>4, <1>7, <1>9, <1>10

\* Chains.
LEMMA ChainFits ==
  ASSUME NEW cards \in SUBSET Deck, NEW n \in Nat, NEW least \in Nat,
         Chain(cards, n, least), NEW v \in Highest(Values(cards)),
         NEW k, k = Cardinality(Values(cards)), k > 1
  PROVE  /\ k \in Nat /\ least <= k /\ k <= 12 /\ Cardinality(cards) = n * k
         /\ FitsRow(cards, Values(cards), n, k, 0, 0) /\ Top(Values(cards)) = v
<1> DEFINE core == Values(cards)
<1>1. core = WithCount(cards, n) /\ core \in Runs(core \cap 3..14, least)
  BY DEF Chain
<1>2. core \in SUBSET Int /\ IsFiniteSet(core) /\ core \cap 3..14 \in SUBSET Int
  BY ValuesFacts
<1> HIDE DEF core
<1>3. core \in SUBSET (core \cap 3..14) /\ k \in Nat /\ least <= k /\ IsCore(core, k)
  BY <1>1, <1>2, RunFacts DEF core
<1>4. k <= 12
  <2>1. 3 \in Int /\ 14 \in Int /\ ~(3 > 14) /\ 14 - 3 + 1 = 12
    OBVIOUS
  <2>2. IsFiniteSet(3..14) /\ Cardinality(3..14) = 12
    BY <2>1, FS_Interval
  <2>3. core \in SUBSET (3..14)
    BY <1>3
  <2> QED
    BY <2>2, <2>3, FS_Subset DEF core
<1>5. Top(core) = v
  BY <1>2, HighestIsTop DEF core
<1>6. \A u \in core : Count(cards, u) = n
  BY <1>1, WithCountFacts
<1>7. Values(cards) \ core = {} /\ Cardinality({}) = 0
  BY FS_EmptySet DEF core
<1>8. FitsRow(cards, core, n, k, 0, 0)
  BY <1>3, <1>6, <1>7 DEF FitsRow
<1>9. Cardinality(cards) = n * Cardinality(core) + 0 * Cardinality(Values(cards) \ core)
  <2>1. core \in SUBSET Values(cards)
    BY DEF core
  <2> QED
    BY <1>6, <1>7, <2>1, CoreAndWings
<1>10. Cardinality(cards) = n * k + 0 * 0
  BY <1>7, <1>9 DEF core
<1>11. n * k \in Nat
  BY <1>3
<1> QED
  BY <1>3, <1>4, <1>5, <1>8, <1>10, <1>11 DEF core

LEMMA FitsChain ==
  ASSUME NEW cards \in SUBSET Deck, NEW core \in SUBSET Values(cards),
         NEW n \in Nat, NEW k \in Nat, NEW least \in Nat, k > 1, least <= k,
         FitsRow(cards, core, n, k, 0, 0)
  PROVE  Chain(cards, n, least) /\ Top(core) \in Highest(Values(cards)) /\ Cardinality(cards) = n * k
<1>1. /\ IsCore(core, k) /\ core \subseteq 3..14 /\ \A v \in core : Count(cards, v) = n
      /\ Cardinality(Values(cards) \ core) = 0
  BY DEF FitsRow
<1>2. core \in SUBSET Int /\ IsFiniteSet(Values(cards))
  BY ValuesFacts
<1>3. Cardinality(core) = k /\ Top(core) \in core /\ \A w \in core : w <= Top(core)
  BY <1>1, <1>2, CoreFacts
<1>4. Values(cards) \ core = {}
  BY <1>1, <1>2, FS_Difference, FS_EmptySet
<1>5. Values(cards) = core
  BY <1>4
<1>6. Values(cards) = WithCount(cards, n)
  BY <1>1, <1>5, WithCountFacts
<1>7. core \in SUBSET (Values(cards) \cap 3..14) /\ Values(cards) \cap 3..14 \in SUBSET Int
  BY <1>1, <1>5
<1>8. Values(cards) \in Runs(Values(cards) \cap 3..14, least)
  BY <1>1, <1>5, <1>7, CoreRuns
<1>9. Top(core) \in Highest(Values(cards))
  BY <1>3, <1>5 DEF Highest
<1>10. Cardinality(cards) = n * Cardinality(core) + 0 * Cardinality(Values(cards) \ core)
  BY <1>1, <1>4, CoreAndWings
<1>11. Cardinality(cards) = n * k + 0 * 0 /\ n * k \in Nat
  BY <1>1, <1>3, <1>10
<1> QED
  BY <1>6, <1>8, <1>9, <1>11 DEF Chain

\* Airplanes.
LEMMA PlaneRunFacts ==
  ASSUME NEW cards \in SUBSET Deck, NEW q \in PlaneRuns(cards)
  PROVE  /\ q \subseteq WithAtLeast(cards, 3) /\ q \subseteq Values(cards) /\ q \subseteq 3..14
         /\ Cardinality(q) \in Nat /\ Cardinality(q) > 1 /\ IsCore(q, Cardinality(q))
<1> DEFINE S == WithAtLeast(cards, 3) \cap 3..14
<1>1. S \in SUBSET Int
  OBVIOUS
<1>2. q \in Runs(S, 2)
  BY DEF PlaneRuns
<1>3. q \in SUBSET S /\ Cardinality(q) \in Nat /\ 2 <= Cardinality(q) /\ IsCore(q, Cardinality(q))
  <2> HIDE DEF S
  <2> QED
    BY <1>1, <1>2, RunFacts
<1> QED
  BY <1>3 DEF WithAtLeast

\* An airplane holds each value of its run three times and no more.
LEMMA PlaneCounts ==
  ASSUME NEW cards \in SUBSET Deck, NEW q \in PlaneRuns(cards), NEW m \in {0, 1, 2},
         IsAirplane(cards, q, m)
  PROVE  \A v \in q : Count(cards, v) = 3
<1> DEFINE k     == Cardinality(q)
           wings == Values(cards) \ q
           C     == CardsOf(cards, q)
           W     == CardsOf(cards, wings)
           T     == TakeCards(cards, q, 3)
<1>1. q \subseteq WithAtLeast(cards, 3) /\ q \subseteq Values(cards) /\ k \in Nat
  BY PlaneRunFacts
<1>2. /\ Cardinality(cards) = k * (3 + m)
      /\ \A v \in wings : Count(cards, v) = m
      /\ Cardinality(wings) = IF m = 0 THEN 0 ELSE k
  BY DEF IsAirplane
<1>3. IsFiniteSet(wings) /\ IsFiniteSet(q)
  BY <1>1, ValuesFacts, FS_Subset
<1>4. Cardinality(W) = m * Cardinality(wings)
  BY <1>2, <1>3, SameCount
<1>5. C \cup W = cards /\ C \cap W = {} /\ C \subseteq cards /\ W \subseteq cards
  BY DEF CardsOf, Values
<1>6. IsFiniteSet(C) /\ IsFiniteSet(W) /\ IsFiniteSet(cards)
  BY <1>5, PlayIsFinite, FS_Subset
<1>7. T \in SUBSET cards /\ Values(T) = q /\ \A v \in q : Count(T, v) = 3
  <2>1. Holds(cards, q, 3)
    BY <1>1 DEF Holds
  <2> QED
    BY <2>1, TakenFacts
<1> HIDE DEF T, W
<1>8. CardsOf(T, q) = T /\ T \in SUBSET C
  BY <1>7 DEF CardsOf, Values
<1>9. T \in SUBSET Deck
  BY <1>7
<1>10. Cardinality(CardsOf(T, q)) = 3 * k
  BY <1>3, <1>7, <1>9, SameCount
<1> HIDE DEF C, wings, k
<1>11. Cardinality(C \cup W) = Cardinality(C) + Cardinality(W) - Cardinality(C \cap W)
  BY <1>6, FS_Union
<1>12. Cardinality(C \cap W) = 0 /\ Cardinality(C) \in Nat /\ Cardinality(W) \in Nat
  BY <1>5, <1>6, FS_EmptySet, FS_CardinalityType
<1>13. Cardinality(cards) = Cardinality(C) + Cardinality(W)
  <2>1. Cardinality(cards) = Cardinality(C) + Cardinality(W) - Cardinality(C \cap W)
    BY <1>5, <1>11, Zenon
  <2> QED
    BY <1>12, <2>1
<1>14. Cardinality(C) = 3 * k
  <2>1. CASE m = 0
    BY <1>1, <1>2, <1>4, <1>12, <1>13, <2>1
  <2>2. CASE m = 1
    BY <1>1, <1>2, <1>4, <1>12, <1>13, <2>2
  <2>3. CASE m = 2
    BY <1>1, <1>2, <1>4, <1>12, <1>13, <2>3
  <2> QED
    BY <2>1, <2>2, <2>3
<1>15. T = C
  BY <1>6, <1>8, <1>10, <1>14, FS_Subset
<1>16. \A v \in q : Bucket(cards, v) = Bucket(C, v)
  BY DEF Bucket, C, CardsOf
<1> QED
  BY <1>7, <1>15, <1>16 DEF Count

LEMMA PlaneFits ==
  ASSUME NEW cards \in SUBSET Deck, NEW q \in PlaneRuns(cards), NEW m \in {0, 1, 2},
         IsAirplane(cards, q, m), NEW v \in Highest(q), NEW k, k = Cardinality(q)
  PROVE  /\ k \in Nat /\ k > 1 /\ Cardinality(cards) = k * (3 + m)
         /\ q \in SUBSET Values(cards) /\ Top(q) = v
         /\ FitsRow(cards, q, 3, k, IF m = 0 THEN 0 ELSE k, m)
<1>1. /\ q \subseteq Values(cards) /\ q \subseteq 3..14
      /\ k \in Nat /\ k > 1 /\ IsCore(q, k)
  BY PlaneRunFacts
<1>2. /\ Cardinality(cards) = k * (3 + m)
      /\ \A u \in Values(cards) \ q : Count(cards, u) = m
      /\ Cardinality(Values(cards) \ q) = IF m = 0 THEN 0 ELSE k
  BY DEF IsAirplane
<1>3. \A u \in q : Count(cards, u) = 3
  BY PlaneCounts
<1>4. q \in SUBSET Int
  BY <1>1
<1>5. Top(q) = v
  BY <1>4, HighestIsTop
<1>6. FitsRow(cards, q, 3, k, IF m = 0 THEN 0 ELSE k, m)
  <2> DEFINE w == IF m = 0 THEN 0 ELSE k
  <2>1. Cardinality(Values(cards) \ q) = w
    BY <1>2
  <2> HIDE DEF w
  <2>2. FitsRow(cards, q, 3, k, w, m)
    <3>1. \A u \in Values(cards) \ q : Count(cards, u) = m
      BY <1>2
    <3>2. FitsRow(cards, q, 3, k, w, m) <=>
            /\ IsCore(q, k)
            /\ k > 1 => q \subseteq 3..14
            /\ \A u \in q : Count(cards, u) = 3
            /\ Cardinality(Values(cards) \ q) = w
            /\ \A u \in Values(cards) \ q : Count(cards, u) = m
      BY DEF FitsRow
    <3> QED
      BY <1>1, <1>3, <2>1, <3>1, <3>2
  <2> QED
    BY <2>2 DEF w
<1> QED
  BY <1>1, <1>2, <1>5, <1>6

LEMMA FitsPlane ==
  ASSUME NEW cards \in SUBSET Deck, NEW core \in SUBSET Values(cards),
         NEW k \in Nat, NEW m \in {0, 1, 2}, k > 1,
         FitsRow(cards, core, 3, k, IF m = 0 THEN 0 ELSE k, m)
  PROVE  /\ core \in PlaneRuns(cards) /\ IsAirplane(cards, core, m)
         /\ Top(core) \in Highest(core) /\ Cardinality(cards) = k * (3 + m)
<1> DEFINE w == IF m = 0 THEN 0 ELSE k
<1>0. FitsRow(cards, core, 3, k, w, m)
  OBVIOUS
<1> HIDE DEF w
<1>1. /\ IsCore(core, k) /\ core \subseteq 3..14 /\ \A v \in core : Count(cards, v) = 3
      /\ Cardinality(Values(cards) \ core) = w
      /\ \A v \in Values(cards) \ core : Count(cards, v) = m
  BY <1>0 DEF FitsRow
<1>2. core \in SUBSET Int
  BY ValuesFacts
<1>3. Cardinality(core) = k /\ Top(core) \in core /\ \A u \in core : u <= Top(core)
  BY <1>1, <1>2, CoreFacts
<1>4. core \in SUBSET (WithAtLeast(cards, 3) \cap 3..14)
  BY <1>1 DEF WithAtLeast
<1>5. core \in PlaneRuns(cards)
  <2>1. WithAtLeast(cards, 3) \cap 3..14 \in SUBSET Int /\ 2 <= k
    OBVIOUS
  <2> QED
    BY <1>1, <1>4, <2>1, CoreRuns DEF PlaneRuns
<1>6. Top(core) \in Highest(core)
  BY <1>3 DEF Highest
<1>7. Cardinality(cards) = 3 * Cardinality(core) + m * Cardinality(Values(cards) \ core)
  BY <1>1, CoreAndWings
<1>8. Cardinality(cards) = 3 * k + m * w
  BY <1>1, <1>3, <1>7
<1>9. Cardinality(cards) = k * (3 + m)
  <2>1. CASE m = 0
    BY <1>8, <2>1 DEF w
  <2>2. CASE m = 1
    BY <1>8, <2>2 DEF w
  <2>3. CASE m = 2
    BY <1>8, <2>3 DEF w
  <2> QED
    BY <2>1, <2>2, <2>3
<1>10. IsAirplane(cards, core, m)
  BY <1>1, <1>3, <1>9 DEF IsAirplane, w
<1> QED
  BY <1>5, <1>6, <1>9, <1>10

-----------------------------------------------------------------------------
(* The code and the rules read a play alike.                               *)

\* The rows of Rules.
Ruled(t, n, k, w, m) ==
  \/ t = "single" /\ n = 1 /\ k = 1 /\ w = 0 /\ m = 0
  \/ t = "pair"   /\ n = 2 /\ k = 1 /\ w = 0 /\ m = 0
  \/ t = "triple" /\ n = 3 /\ k = 1 /\ w = 0 /\ m = 0
  \/ t = "bomb"   /\ n = 4 /\ k = 1 /\ w = 0 /\ m = 0
  \/ t = "triple_with_single"    /\ n = 3 /\ k = 1 /\ w = 1 /\ m = 1
  \/ t = "triple_with_pair"      /\ n = 3 /\ k = 1 /\ w = 1 /\ m = 2
  \/ t = "four_with_two_singles" /\ n = 4 /\ k = 1 /\ w = 2 /\ m = 1
  \/ t = "four_with_two_pairs"   /\ n = 4 /\ k = 1 /\ w = 2 /\ m = 2
  \/ t = "straight"              /\ n = 1 /\ k \in 5..12 /\ w = 0 /\ m = 0
  \/ t = "straight_pair"         /\ n = 2 /\ k \in 3..10 /\ w = 0 /\ m = 0
  \/ t = "airplane"              /\ n = 3 /\ k \in 2..6 /\ w = 0 /\ m = 0
  \/ t = "airplane_with_single"  /\ n = 3 /\ k \in 2..5 /\ w = k /\ m = 1
  \/ t = "airplane_with_pair"    /\ n = 3 /\ k \in 2..4 /\ w = k /\ m = 2

\* A play is of type t with rank v, by the rules.
RuledPlay(cards, t, v) ==
  \E core \in SUBSET Values(cards), n, k, w, m \in Nat :
    Ruled(t, n, k, w, m) /\ FitsRow(cards, core, n, k, w, m) /\ Top(core) = v

LEMMA RulesAre ==
  ASSUME NEW t, NEW rule
  PROVE  t \in DOMAIN Rules /\ rule \in Rules[t] <=>
           \E n, k, w, m \in Nat : rule = <<n, k, w, m>> /\ Ruled(t, n, k, w, m)
<1>1. ASSUME t \in DOMAIN Rules, rule \in Rules[t]
      PROVE  \E n, k, w, m \in Nat : rule = <<n, k, w, m>> /\ Ruled(t, n, k, w, m)
  <2>1. t \in {"single", "pair", "triple", "bomb", "triple_with_single", "triple_with_pair",
               "four_with_two_singles", "four_with_two_pairs", "straight", "straight_pair",
               "airplane", "airplane_with_single", "airplane_with_pair"}
    BY <1>1 DEF Rules
  <2>2. CASE t \in {"single", "pair", "triple", "bomb", "triple_with_single", "triple_with_pair",
                    "four_with_two_singles", "four_with_two_pairs"}
    BY <1>1, <2>2 DEF Rules, Ruled
  <2>3. CASE t = "straight"
    <3>1. PICK k \in 5..12 : rule = <<1, k, 0, 0>>
      BY <1>1, <2>3 DEF Rules
    <3> QED
      BY <2>3, <3>1 DEF Ruled
  <2>4. CASE t = "straight_pair"
    <3>1. PICK k \in 3..10 : rule = <<2, k, 0, 0>>
      BY <1>1, <2>4 DEF Rules
    <3> QED
      BY <2>4, <3>1 DEF Ruled
  <2>5. CASE t = "airplane"
    <3>1. PICK k \in 2..6 : rule = <<3, k, 0, 0>>
      BY <1>1, <2>5 DEF Rules
    <3> QED
      BY <2>5, <3>1 DEF Ruled
  <2>6. CASE t = "airplane_with_single"
    <3>1. PICK k \in 2..5 : rule = <<3, k, k, 1>>
      BY <1>1, <2>6 DEF Rules
    <3> QED
      BY <2>6, <3>1 DEF Ruled
  <2>7. CASE t = "airplane_with_pair"
    <3>1. PICK k \in 2..4 : rule = <<3, k, k, 2>>
      BY <1>1, <2>7 DEF Rules
    <3> QED
      BY <2>7, <3>1 DEF Ruled
  <2> QED
    BY <2>1, <2>2, <2>3, <2>4, <2>5, <2>6, <2>7
<1>2. ASSUME NEW n \in Nat, NEW k \in Nat, NEW w \in Nat, NEW m \in Nat,
             rule = <<n, k, w, m>>, Ruled(t, n, k, w, m)
      PROVE  t \in DOMAIN Rules /\ rule \in Rules[t]
  BY <1>2 DEF Rules, Ruled
<1> QED
  BY <1>1, <1>2

\* A play is of type t with rank v, by the tests of the code.
Reads(cards, t, v) ==
  LET n == Cardinality(cards)
      One == Cardinality(Values(cards)) = 1
  IN  \/ t = "single" /\ n = 1 /\ v \in Values(cards)
      \/ t = "rocket" /\ n = 2 /\ Values(cards) = {SmallJoker, BigJoker} /\ v = RocketWeight
      \/ t = "pair" /\ n = 2 /\ One /\ v \in Values(cards)
      \/ t = "triple" /\ n = 3 /\ One /\ v \in Values(cards)
      \/ t = "bomb" /\ n = 4 /\ One /\ v \in Values(cards)
      \/ t = "triple_with_single" /\ n = 4 /\ Shape(cards, 3, 1, 1, 1) /\ v \in WithCount(cards, 3)
      \/ t = "triple_with_pair" /\ n = 5 /\ Shape(cards, 3, 1, 2, 1) /\ v \in WithCount(cards, 3)
      \/ t = "four_with_two_singles" /\ n = 6 /\ Shape(cards, 4, 1, 1, 2) /\ v \in WithCount(cards, 4)
      \/ t = "four_with_two_pairs" /\ n = 8 /\ Shape(cards, 4, 1, 2, 2) /\ v \in WithCount(cards, 4)
      \/ t = "straight" /\ Chain(cards, 1, 5) /\ v \in Highest(Values(cards))
      \/ t = "straight_pair" /\ Chain(cards, 2, 3) /\ v \in Highest(Values(cards))
      \/ t = "airplane" /\ \E q \in PlaneRuns(cards) : IsAirplane(cards, q, 0) /\ v \in Highest(q)
      \/ t = "airplane_with_single"
           /\ \E q \in PlaneRuns(cards) : IsAirplane(cards, q, 1) /\ v \in Highest(q)
      \/ t = "airplane_with_pair"
           /\ \E q \in PlaneRuns(cards) : IsAirplane(cards, q, 2) /\ v \in Highest(q)

LEMMA ReadingsAre ==
  ASSUME NEW cards, NEW p
  PROVE  p \in Readings(cards) <=> \E t, v : p = MakePattern(t, cards, v) /\ Reads(cards, t, v)
<1>1. p \in Readings(cards) => \E t, v : p = MakePattern(t, cards, v) /\ Reads(cards, t, v)
  BY DEF Readings, Reads
<1>2. ASSUME NEW t, NEW v, p = MakePattern(t, cards, v), Reads(cards, t, v)
      PROVE  p \in Readings(cards)
  BY <1>2 DEF Readings, Reads
<1> QED
  BY <1>1, <1>2

\* Every reading but the rocket's is a core and wings of a row of the rules.
LEMMA ReadsFits ==
  ASSUME NEW cards \in SUBSET Deck, Cardinality(cards) <= 20, NEW t, NEW v,
         Reads(cards, t, v), t # "rocket"
  PROVE  RuledPlay(cards, t, v)
<1> DEFINE N == Cardinality(cards)
           One == Cardinality(Values(cards)) = 1
           K == Cardinality(Values(cards))
           Goal == \E core \in SUBSET Values(cards), n, k, w, m \in Nat :
                     Ruled(t, n, k, w, m) /\ FitsRow(cards, core, n, k, w, m) /\ Top(core) = v
<1> SUFFICES Goal
  BY DEF RuledPlay
<1>1. /\ N \in Nat /\ IsFiniteSet(cards) /\ N <= 20
      /\ K \in Nat /\ IsFiniteSet(Values(cards)) /\ Values(cards) \in SUBSET Int
  BY PlayIsFinite, ValuesFacts
<1>2. N = 1 => One
  <2> SUFFICES ASSUME N = 1 PROVE One
    OBVIOUS
  <2>1. PICK c : cards = {c}
    BY <1>1, FS_Singleton
  <2>2. Values(cards) = {Value[c]}
    BY <2>1 DEF Values
  <2> QED
    BY <2>2, FS_Singleton
<1>3. \/ One /\ v \in Values(cards) /\ Ruled(t, N, 1, 0, 0)
      \/ t = "triple_with_single" /\ Shape(cards, 3, 1, 1, 1) /\ v \in WithCount(cards, 3)
      \/ t = "triple_with_pair" /\ Shape(cards, 3, 1, 2, 1) /\ v \in WithCount(cards, 3)
      \/ t = "four_with_two_singles" /\ Shape(cards, 4, 1, 1, 2) /\ v \in WithCount(cards, 4)
      \/ t = "four_with_two_pairs" /\ Shape(cards, 4, 1, 2, 2) /\ v \in WithCount(cards, 4)
      \/ t = "straight" /\ Chain(cards, 1, 5) /\ v \in Highest(Values(cards))
      \/ t = "straight_pair" /\ Chain(cards, 2, 3) /\ v \in Highest(Values(cards))
      \/ t = "airplane" /\ \E q \in PlaneRuns(cards) : IsAirplane(cards, q, 0) /\ v \in Highest(q)
      \/ t = "airplane_with_single"
           /\ \E q \in PlaneRuns(cards) : IsAirplane(cards, q, 1) /\ v \in Highest(q)
      \/ t = "airplane_with_pair"
           /\ \E q \in PlaneRuns(cards) : IsAirplane(cards, q, 2) /\ v \in Highest(q)
  BY <1>2 DEF Reads, Ruled
<1>4. ASSUME One, v \in Values(cards), Ruled(t, N, 1, 0, 0) PROVE Goal
  <2>1. FitsRow(cards, {v}, N, 1, 0, 0) /\ Top({v}) = v
    BY <1>4, OneValueFits
  <2> QED
    BY <1>1, <1>4, <2>1
<1>5. ASSUME NEW n \in Nat, NEW m \in Nat, NEW w \in Nat, n # m, Shape(cards, n, 1, m, w),
             v \in WithCount(cards, n), Ruled(t, n, 1, w, m)
      PROVE  Goal
  <2>1. FitsRow(cards, {v}, n, 1, w, m) /\ Top({v}) = v /\ v \in Values(cards)
    BY <1>5, ShapeFits
  <2> QED
    BY <1>5, <2>1
<1>6. ASSUME NEW n \in {1, 2}, NEW least \in Nat, least > 1, Chain(cards, n, least),
             v \in Highest(Values(cards)),
             \A k \in Nat : least <= k /\ k <= 12 /\ n * k <= 20 => Ruled(t, n, k, 0, 0)
      PROVE  Goal
  <2>0. K > 1
    <3>1. least <= K
      BY <1>6, <1>1 DEF Chain, Runs
    <3> QED
      BY <1>6, <1>1, <3>1
  <2>1. /\ least <= K /\ K <= 12 /\ N = n * K
        /\ FitsRow(cards, Values(cards), n, K, 0, 0) /\ Top(Values(cards)) = v
    BY <1>6, <2>0, <1>1, ChainFits
  <2>2. Ruled(t, n, K, 0, 0)
    BY <1>6, <2>1, <1>1
  <2> QED
    BY <1>1, <2>1, <2>2
<1>7. ASSUME NEW q \in PlaneRuns(cards), NEW m \in {0, 1, 2}, IsAirplane(cards, q, m), v \in Highest(q),
             m = 0 => t = "airplane", m = 1 => t = "airplane_with_single",
             m = 2 => t = "airplane_with_pair"
      PROVE  Goal
  <2> DEFINE k == Cardinality(q)
             w == IF m = 0 THEN 0 ELSE k
  <2>1. /\ k \in Nat /\ k > 1 /\ N = k * (3 + m)
        /\ q \in SUBSET Values(cards) /\ Top(q) = v
        /\ FitsRow(cards, q, 3, k, w, m)
    BY <1>7, PlaneFits
  <2>2. w \in Nat
    BY <2>1
  <2>3. CASE m = 0
    <3>1. k \in 2..6
      BY <1>1, <2>1, <2>3
    <3> QED
      BY <1>7, <2>1, <2>3, <3>1 DEF Ruled
  <2>4. CASE m = 1
    <3>1. k \in 2..5
      BY <1>1, <2>1, <2>4
    <3> QED
      BY <1>7, <2>1, <2>4, <3>1 DEF Ruled
  <2>5. CASE m = 2
    <3>1. k \in 2..4
      BY <1>1, <2>1, <2>5
    <3> QED
      BY <1>7, <2>1, <2>5, <3>1 DEF Ruled
  <2> QED
    BY <2>3, <2>4, <2>5
<1> HIDE DEF Goal, One, N, K
<1>8. CASE t = "triple_with_single" /\ Shape(cards, 3, 1, 1, 1) /\ v \in WithCount(cards, 3)
  <2>1. Ruled(t, 3, 1, 1, 1) /\ 3 # 1
    BY <1>8 DEF Ruled
  <2> QED
    BY <1>5, <1>8, <2>1
<1>9. CASE t = "triple_with_pair" /\ Shape(cards, 3, 1, 2, 1) /\ v \in WithCount(cards, 3)
  <2>1. Ruled(t, 3, 1, 1, 2) /\ 3 # 2
    BY <1>9 DEF Ruled
  <2> QED
    BY <1>5, <1>9, <2>1
<1>10. CASE t = "four_with_two_singles" /\ Shape(cards, 4, 1, 1, 2) /\ v \in WithCount(cards, 4)
  <2>1. Ruled(t, 4, 1, 2, 1) /\ 4 # 1
    BY <1>10 DEF Ruled
  <2> QED
    BY <1>5, <1>10, <2>1
<1>11. CASE t = "four_with_two_pairs" /\ Shape(cards, 4, 1, 2, 2) /\ v \in WithCount(cards, 4)
  <2>1. Ruled(t, 4, 1, 2, 2) /\ 4 # 2
    BY <1>11 DEF Ruled
  <2> QED
    BY <1>5, <1>11, <2>1
<1>12. CASE t = "straight" /\ Chain(cards, 1, 5) /\ v \in Highest(Values(cards))
  <2>1. \A k \in Nat : 5 <= k /\ k <= 12 /\ 1 * k <= 20 => Ruled(t, 1, k, 0, 0)
    BY <1>12 DEF Ruled
  <2> QED
    BY <1>6, <1>12, <2>1
<1>13. CASE t = "straight_pair" /\ Chain(cards, 2, 3) /\ v \in Highest(Values(cards))
  <2>1. \A k \in Nat : 3 <= k /\ k <= 12 /\ 2 * k <= 20 => Ruled(t, 2, k, 0, 0)
    BY <1>13 DEF Ruled
  <2> QED
    BY <1>6, <1>13, <2>1
<1>14. CASE t = "airplane" /\ \E q \in PlaneRuns(cards) : IsAirplane(cards, q, 0) /\ v \in Highest(q)
  <2>1. PICK q \in PlaneRuns(cards) : IsAirplane(cards, q, 0) /\ v \in Highest(q)
    BY <1>14
  <2> QED
    BY <1>7, <1>14, <2>1
<1>15. CASE t = "airplane_with_single"
              /\ \E q \in PlaneRuns(cards) : IsAirplane(cards, q, 1) /\ v \in Highest(q)
  <2>1. PICK q \in PlaneRuns(cards) : IsAirplane(cards, q, 1) /\ v \in Highest(q)
    BY <1>15
  <2> QED
    BY <1>7, <1>15, <2>1
<1>16. CASE t = "airplane_with_pair"
              /\ \E q \in PlaneRuns(cards) : IsAirplane(cards, q, 2) /\ v \in Highest(q)
  <2>1. PICK q \in PlaneRuns(cards) : IsAirplane(cards, q, 2) /\ v \in Highest(q)
    BY <1>16
  <2> QED
    BY <1>7, <1>16, <2>1
<1> QED
  BY <1>3, <1>4, <1>8, <1>9, <1>10, <1>11, <1>12, <1>13, <1>14, <1>15, <1>16

LEMMA FitsSize ==
  ASSUME NEW cards \in SUBSET Deck, NEW core, core \subseteq Values(cards),
         NEW n \in Nat, NEW k \in Nat, NEW w \in Nat, NEW m \in Nat,
         FitsRow(cards, core, n, k, w, m)
  PROVE  /\ Cardinality(cards) = n * k + m * w
         /\ core # {} /\ IsFiniteSet(core) /\ Cardinality(core) = k
<1>1. /\ IsCore(core, k) /\ \A v \in core : Count(cards, v) = n
      /\ Cardinality(Values(cards) \ core) = w
      /\ \A v \in Values(cards) \ core : Count(cards, v) = m
  BY DEF FitsRow
<1>2. core \in SUBSET Int
  BY ValuesFacts
<1>3. /\ Cardinality(core) = k /\ Top(core) \in core /\ IsFiniteSet(core)
  BY <1>1, <1>2, CoreFacts
<1>4. Cardinality(cards) = n * Cardinality(core) + m * Cardinality(Values(cards) \ core)
  BY <1>1, CoreAndWings
<1> QED
  BY <1>1, <1>2, <1>3, <1>4

\* A core and wings of a row of the rules pass the test of that row's type.
LEMMA FitsReads ==
  ASSUME NEW cards \in SUBSET Deck, NEW t, NEW v, RuledPlay(cards, t, v)
  PROVE  Reads(cards, t, v)
<1> PICK core \in SUBSET Values(cards), n \in Nat, k \in Nat, w \in Nat, m \in Nat :
      Ruled(t, n, k, w, m) /\ FitsRow(cards, core, n, k, w, m) /\ Top(core) = v
  BY DEF RuledPlay
<1> SUFFICES Reads(cards, t, Top(core))
  OBVIOUS
<1>1. CASE k = 1 /\ w = 0 /\ m = 0
  <2>1. Cardinality(Values(cards)) = 1 /\ Cardinality(cards) = n /\ Top(core) \in Values(cards)
    BY <1>1, FitsOneValue
  <2> QED
    BY <1>1, <2>1 DEF Ruled, Reads
<1>2. CASE k = 1 /\ w # 0
  <2>1. n # m
    BY <1>2 DEF Ruled
  <2>2. /\ Shape(cards, n, 1, m, w) /\ Top(core) \in WithCount(cards, n)
        /\ Cardinality(cards) = n + m * w
    BY <1>2, <2>1, FitsShape
  <2>3. CASE t = "triple_with_single"
    BY <2>2, <2>3 DEF Ruled, Reads
  <2>4. CASE t = "triple_with_pair"
    BY <2>2, <2>4 DEF Ruled, Reads
  <2>5. CASE t = "four_with_two_singles"
    BY <2>2, <2>5 DEF Ruled, Reads
  <2>6. CASE t = "four_with_two_pairs"
    BY <2>2, <2>6 DEF Ruled, Reads
  <2> QED
    BY <1>2, <2>3, <2>4, <2>5, <2>6 DEF Ruled
<1>3. CASE t = "straight"
  <2>1. n = 1 /\ k > 1 /\ 5 <= k /\ w = 0 /\ m = 0
    BY <1>3 DEF Ruled
  <2>2. Chain(cards, 1, 5) /\ Top(core) \in Highest(Values(cards))
    BY <2>1, FitsChain
  <2> QED
    BY <1>3, <2>2 DEF Reads
<1>4. CASE t = "straight_pair"
  <2>1. n = 2 /\ k > 1 /\ 3 <= k /\ w = 0 /\ m = 0
    BY <1>4 DEF Ruled
  <2>2. Chain(cards, 2, 3) /\ Top(core) \in Highest(Values(cards))
    BY <2>1, FitsChain
  <2> QED
    BY <1>4, <2>2 DEF Reads
<1>5. ASSUME n = 3, k > 1, m \in {0, 1, 2}, w = IF m = 0 THEN 0 ELSE k
      PROVE  core \in PlaneRuns(cards) /\ IsAirplane(cards, core, m) /\ Top(core) \in Highest(core)
  BY <1>5, FitsPlane
<1>6. CASE t = "airplane"
  <2>1. n = 3 /\ k > 1 /\ w = 0 /\ m = 0
    BY <1>6 DEF Ruled
  <2> QED
    BY <1>5, <1>6, <2>1 DEF Reads
<1>7. CASE t = "airplane_with_single"
  <2>1. n = 3 /\ k > 1 /\ w = k /\ m = 1
    BY <1>7 DEF Ruled
  <2> QED
    BY <1>5, <1>7, <2>1 DEF Reads
<1>8. CASE t = "airplane_with_pair"
  <2>1. n = 3 /\ k > 1 /\ w = k /\ m = 2
    BY <1>8 DEF Ruled
  <2> QED
    BY <1>5, <1>8, <2>1 DEF Reads
<1> QED
  BY <1>1, <1>2, <1>3, <1>4, <1>6, <1>7, <1>8 DEF Ruled

\* The combinations of the rules, unfolded.
LEMMA ByTheRulesIs ==
  ASSUME NEW cards, NEW p
  PROVE  p \in ByTheRules(cards) <=>
           \/ \E t, v : RuledPlay(cards, t, v) /\ p = MakePattern(t, cards, v)
           \/ /\ Values(cards) = {SmallJoker, BigJoker} /\ Cardinality(cards) = 2
              /\ p = MakePattern("rocket", cards, RocketWeight)
<1> DEFINE A == {y \in (DOMAIN Rules) \X SUBSET Values(cards) :
                   \E rule \in Rules[y[1]] : Fits(cards, y[2], rule)}
           B == {MakePattern(x[1], cards, CHOOSE v \in x[2] : \A w \in x[2] : w <= v) : x \in A}
           Lhs == \E t, v : RuledPlay(cards, t, v) /\ p = MakePattern(t, cards, v)
<1>1. ASSUME p \in B PROVE Lhs
  <2>1. PICK x \in A : p = MakePattern(x[1], cards, Top(x[2]))
    BY <1>1 DEF Top
  <2>2. /\ x[1] \in DOMAIN Rules /\ x[2] \in SUBSET Values(cards)
        /\ \E rule \in Rules[x[1]] : Fits(cards, x[2], rule)
    BY <2>1
  <2>3. PICK rule \in Rules[x[1]] : Fits(cards, x[2], rule)
    BY <2>2
  <2>4. PICK n, k, w, m \in Nat : rule = <<n, k, w, m>> /\ Ruled(x[1], n, k, w, m)
    BY <2>2, <2>3, RulesAre
  <2> QED
    <3>1. FitsRow(cards, x[2], n, k, w, m)
      BY <2>3, <2>4, FitsIs
    <3> QED
      BY <2>1, <2>2, <2>4, <3>1 DEF RuledPlay
<1>2. ASSUME Lhs PROVE p \in B
  <2>1. PICK t, v : RuledPlay(cards, t, v) /\ p = MakePattern(t, cards, v)
    BY <1>2
  <2>2. PICK core \in SUBSET Values(cards), n \in Nat, k \in Nat, w \in Nat, m \in Nat :
          Ruled(t, n, k, w, m) /\ FitsRow(cards, core, n, k, w, m) /\ Top(core) = v
    BY <2>1 DEF RuledPlay
  <2> DEFINE rule == <<n, k, w, m>>
             x == <<t, core>>
  <2>3. t \in DOMAIN Rules /\ rule \in Rules[t]
    BY <2>2, RulesAre
  <2>4. x[1] = t /\ x[2] = core
    OBVIOUS
  <2>5. x \in A
    <3>1. Fits(cards, core, rule)
      BY <2>2, FitsIs
    <3> QED
      BY <2>2, <2>3, <3>1
  <2>6. p = MakePattern(x[1], cards, Top(x[2]))
    BY <2>1, <2>2, <2>4
  <2> HIDE DEF A, x
  <2> QED
    BY <2>5, <2>6 DEF Top
<1> HIDE DEF A
<1>3. p \in ByTheRules(cards) <=>
        \/ p \in B
        \/ p \in IF Values(cards) = {SmallJoker, BigJoker} /\ Cardinality(cards) = 2
                 THEN {MakePattern("rocket", cards, RocketWeight)} ELSE {}
  BY DEF ByTheRules, A
<1> HIDE DEF B
<1> QED
  BY <1>1, <1>2, <1>3

\* The code and the rules agree on what a play of at most 20 cards is.
LEMMA ReadingsByTheRules ==
  ASSUME NEW cards \in SUBSET Deck, Cardinality(cards) <= 20
  PROVE  Readings(cards) = ByTheRules(cards)
<1>1. ASSUME NEW p \in Readings(cards) PROVE p \in ByTheRules(cards)
  <2>1. PICK t, v : p = MakePattern(t, cards, v) /\ Reads(cards, t, v)
    BY <1>1, ReadingsAre
  <2>2. CASE t = "rocket"
    <3>1. Values(cards) = {SmallJoker, BigJoker} /\ Cardinality(cards) = 2 /\ v = RocketWeight
      BY <2>1, <2>2 DEF Reads
    <3> QED
      BY <2>1, <2>2, <3>1, ByTheRulesIs
  <2>3. CASE t # "rocket"
    <3>1. RuledPlay(cards, t, v)
      BY <2>1, <2>3, ReadsFits
    <3> QED
      BY <2>1, <3>1, ByTheRulesIs
  <2> QED
    BY <2>2, <2>3
<1>2. ASSUME NEW p \in ByTheRules(cards) PROVE p \in Readings(cards)
  <2>1. CASE \E t, v : RuledPlay(cards, t, v) /\ p = MakePattern(t, cards, v)
    BY <2>1, FitsReads, ReadingsAre
  <2>2. CASE /\ Values(cards) = {SmallJoker, BigJoker} /\ Cardinality(cards) = 2
             /\ p = MakePattern("rocket", cards, RocketWeight)
    <3>1. Reads(cards, "rocket", RocketWeight)
      BY <2>2 DEF Reads
    <3> QED
      BY <2>2, <3>1, ReadingsAre
  <2> QED
    BY <1>2, <2>1, <2>2, ByTheRulesIs
<1> QED
  BY <1>1, <1>2

\* The core of a play and the row of the rules are determined by its cards: the
\* core is the values held most often.
LEMMA FitsUnique ==
  ASSUME NEW cards \in SUBSET Deck, NEW t, NEW v, RuledPlay(cards, t, v),
         NEW u, NEW x, RuledPlay(cards, u, x)
  PROVE  t = u /\ v = x
<1>0. PICK core \in SUBSET Values(cards), n \in Nat, k \in Nat, w \in Nat, m \in Nat :
        Ruled(t, n, k, w, m) /\ FitsRow(cards, core, n, k, w, m) /\ Top(core) = v
  BY DEF RuledPlay
<1>00. PICK core2 \in SUBSET Values(cards), n2 \in Nat, k2 \in Nat, w2 \in Nat, m2 \in Nat :
        Ruled(u, n2, k2, w2, m2) /\ FitsRow(cards, core2, n2, k2, w2, m2) /\ Top(core2) = x
  BY DEF RuledPlay
<1>1. /\ Cardinality(cards) = n * k + m * w
      /\ core # {} /\ IsFiniteSet(core) /\ Cardinality(core) = k
      /\ \A i \in core : Count(cards, i) = n
      /\ \A i \in Values(cards) \ core : Count(cards, i) = m
      /\ Cardinality(Values(cards) \ core) = w
  <2>1. FitsRow(cards, core, n, k, w, m) /\ core \subseteq Values(cards)
    BY <1>0
  <2>2. /\ \A i \in core : Count(cards, i) = n
        /\ \A i \in Values(cards) \ core : Count(cards, i) = m
        /\ Cardinality(Values(cards) \ core) = w
    BY <2>1 DEF FitsRow
  <2>3. /\ Cardinality(cards) = n * k + m * w
        /\ core # {} /\ IsFiniteSet(core) /\ Cardinality(core) = k
    BY <2>1, FitsSize
  <2> QED
    BY <2>2, <2>3
<1>2. /\ Cardinality(cards) = n2 * k2 + m2 * w2
      /\ core2 # {} /\ IsFiniteSet(core2) /\ Cardinality(core2) = k2
      /\ \A i \in core2 : Count(cards, i) = n2
      /\ \A i \in Values(cards) \ core2 : Count(cards, i) = m2
      /\ Cardinality(Values(cards) \ core2) = w2
  <2>1. FitsRow(cards, core2, n2, k2, w2, m2) /\ core2 \subseteq Values(cards)
    BY <1>00
  <2>2. /\ \A i \in core2 : Count(cards, i) = n2
        /\ \A i \in Values(cards) \ core2 : Count(cards, i) = m2
        /\ Cardinality(Values(cards) \ core2) = w2
    BY <2>1 DEF FitsRow
  <2>3. /\ Cardinality(cards) = n2 * k2 + m2 * w2
        /\ core2 # {} /\ IsFiniteSet(core2) /\ Cardinality(core2) = k2
    BY <2>1, FitsSize
  <2> QED
    BY <2>2, <2>3
<1>3. m < n /\ m2 < n2 /\ (w = 0 => m = 0) /\ (w2 = 0 => m2 = 0)
  BY <1>0, <1>00 DEF Ruled
<1>4. n = n2
  <2>1. PICK i \in core : TRUE
    BY <1>1
  <2>2. PICK j \in core2 : TRUE
    BY <1>2
  <2>3. n <= n2
    BY <1>1, <1>2, <1>3, <2>1
  <2>4. n2 <= n
    BY <1>1, <1>2, <1>3, <2>2
  <2> QED
    BY <2>3, <2>4
<1>5. core = core2
  BY <1>1, <1>2, <1>3, <1>4
<1>6. k = k2 /\ w = w2
  BY <1>1, <1>2, <1>5
<1>7. m = m2
  <2>1. CASE w = 0
    BY <1>3, <1>6, <2>1
  <2>2. CASE w # 0
    <3>1. Values(cards) \ core # {}
      BY <1>1, <2>2, FS_EmptySet
    <3> QED
      BY <1>1, <1>2, <1>5, <3>1
  <2> QED
    BY <2>1, <2>2
<1>8. t = u
  BY <1>0, <1>00, <1>4, <1>6, <1>7 DEF Ruled
<1> QED
  BY <1>0, <1>00, <1>5, <1>8

\* Two jokers fit no row of the rules.
LEMMA RocketAlone ==
  ASSUME NEW cards \in SUBSET Deck, Values(cards) = {SmallJoker, BigJoker}, Cardinality(cards) = 2,
         NEW t, NEW v, RuledPlay(cards, t, v)
  PROVE  FALSE
<1>0. PICK core \in SUBSET Values(cards), n \in Nat, k \in Nat, w \in Nat, m \in Nat :
        Ruled(t, n, k, w, m) /\ FitsRow(cards, core, n, k, w, m) /\ Top(core) = v
  BY DEF RuledPlay
<1>1. /\ Cardinality(cards) = n * k + m * w
      /\ core # {} /\ IsFiniteSet(core) /\ Cardinality(core) = k
      /\ \A i \in core : Count(cards, i) = n
      /\ \A i \in Values(cards) \ core : Count(cards, i) = m
      /\ Cardinality(Values(cards) \ core) = w
  <2>1. FitsRow(cards, core, n, k, w, m) /\ core \subseteq Values(cards)
    BY <1>0
  <2>2. /\ \A i \in core : Count(cards, i) = n
        /\ \A i \in Values(cards) \ core : Count(cards, i) = m
        /\ Cardinality(Values(cards) \ core) = w
    BY <2>1 DEF FitsRow
  <2>3. /\ Cardinality(cards) = n * k + m * w
        /\ core # {} /\ IsFiniteSet(core) /\ Cardinality(core) = k
    BY <2>1, FitsSize
  <2> QED
    BY <2>2, <2>3
<1>2. n = 2 /\ k = 1 /\ w = 0
  BY <1>0, <1>1 DEF Ruled
<1>3. Values(cards) \ core = {}
  <2>1. IsFiniteSet(Values(cards) \ core)
    BY ValuesFacts, FS_Subset
  <2> QED
    BY <1>1, <1>2, <2>1, FS_EmptySet
<1>4. PICK i : core = {i}
  BY <1>1, <1>2, FS_Singleton
<1> QED
  BY <1>3, <1>4 DEF SmallJoker, BigJoker

LEMMA ReadingsUnique ==
  ASSUME NEW cards \in SUBSET Deck, Cardinality(cards) <= 20,
         NEW p \in Readings(cards), NEW q \in Readings(cards)
  PROVE  p = q
<1> DEFINE Ruling(x) == \E t, v : RuledPlay(cards, t, v) /\ x = MakePattern(t, cards, v)
           Rocket(x) == /\ Values(cards) = {SmallJoker, BigJoker} /\ Cardinality(cards) = 2
                        /\ x = MakePattern("rocket", cards, RocketWeight)
<1>1. (Ruling(p) \/ Rocket(p)) /\ (Ruling(q) \/ Rocket(q))
  BY ReadingsByTheRules, ByTheRulesIs
<1>2. ASSUME NEW x, Ruling(x), NEW y, Rocket(y) PROVE FALSE
  BY <1>2, RocketAlone
<1>3. CASE Ruling(p) /\ Ruling(q)
  BY <1>3, FitsUnique
<1>4. CASE Rocket(p) /\ Rocket(q)
  BY <1>4
<1> HIDE DEF Ruling, Rocket
<1> QED
  BY <1>1, <1>2, <1>3, <1>4

-----------------------------------------------------------------------------
(* What EvaluatePattern answers.                                           *)

LEMMA EvaluateIs ==
  ASSUME NEW cards \in SUBSET Deck, Cardinality(cards) <= 20, NEW p
  PROVE  p \in Readings(cards) <=> EvaluatePattern(cards) = p /\ p # Invalid
<1>1. \A q \in Readings(cards) : q # Invalid
  <2>1. Readings(cards) \subseteq Pattern
    BY ReadingsType
  <2>2. Invalid \notin Pattern
    BY DEF Invalid, Pattern, PatternTypes
  <2> QED
    BY <2>1, <2>2
<1>2. \A q, r \in Readings(cards) : q = r
  BY ReadingsUnique
<1> QED
  BY <1>1, <1>2 DEF EvaluatePattern

-----------------------------------------------------------------------------
(* The candidates of the move generator.                                   *)

\* A play within a hand: what it holds of a value the hand holds too.
LEMMA PlayWithin ==
  ASSUME NEW hh \in SUBSET Deck, NEW cards \in SUBSET hh, NEW v
  PROVE  /\ v \in Values(cards) => v \in Values(hh)
         /\ Count(cards, v) <= Count(hh, v)
         /\ Count(cards, v) \in Nat /\ Count(hh, v) \in Nat
<1>1. Bucket(cards, v) \subseteq Bucket(hh, v)
  BY DEF Bucket
<1>2. IsFiniteSet(Bucket(hh, v)) /\ Count(cards, v) \in Nat /\ Count(hh, v) \in Nat
  BY BucketFacts
<1>3. Cardinality(Bucket(cards, v)) <= Cardinality(Bucket(hh, v))
  BY <1>1, <1>2, FS_Subset
<1> QED
  BY <1>2, <1>3 DEF Values, Count

LEMMA PlayParts ==
  ASSUME NEW hh \in SUBSET Deck, NEW cards \in SUBSET hh, NEW core, core \subseteq Values(cards),
         NEW n, NEW k, NEW w, NEW m, FitsRow(cards, core, n, k, w, m)
  PROVE  core \subseteq WithAtLeast(hh, n) /\ Values(cards) \ core \subseteq Wings(hh, core, m)
<1>1. /\ \A v \in core : Count(cards, v) = n
      /\ \A v \in Values(cards) \ core : Count(cards, v) = m
  BY DEF FitsRow
<1> QED
  BY <1>1, PlayWithin DEF WithAtLeast, Wings

\* A play that fits a row of the rules is read by it.
LEMMA FitsPlay ==
  ASSUME NEW s \in SUBSET Deck, NEW core, core \subseteq Values(s), NEW t,
         NEW n \in Nat, NEW k \in Nat, NEW w \in Nat, NEW m \in Nat,
         Ruled(t, n, k, w, m), FitsRow(s, core, n, k, w, m)
  PROVE  /\ Cardinality(s) = n * k + m * w
         /\ MakePattern(t, s, Top(core)) \in Readings(s)
<1>1. Cardinality(s) = n * k + m * w
  BY FitsSize
<1>2. RuledPlay(s, t, Top(core))
  BY DEF RuledPlay
<1> QED
  BY <1>1, <1>2, FitsReads, ReadingsAre

\* Of a hand that holds enough cards, a core and wings are a play of the rules.
LEMMA BuiltPlay ==
  ASSUME NEW hh \in SUBSET Deck, NEW t,
         NEW n \in Nat, NEW k \in Nat, NEW w \in Nat, NEW m \in Nat, Ruled(t, n, k, w, m),
         NEW core, core \subseteq WithAtLeast(hh, n), IsCore(core, k), k > 1 => core \subseteq 3..14,
         NEW wings, wings \subseteq Wings(hh, core, m), IsFiniteSet(wings), Cardinality(wings) = w
  PROVE  /\ Built(hh, core, n, wings, m) \in SUBSET hh
         /\ core \subseteq Values(Built(hh, core, n, wings, m))
         /\ FitsRow(Built(hh, core, n, wings, m), core, n, k, w, m)
<1> DEFINE s == Built(hh, core, n, wings, m)
<1>0. s = Built(hh, core, n, wings, m)
  OBVIOUS
<1> HIDE DEF s
<1>1. n # 0 /\ (w # 0 => m # 0)
  BY DEF Ruled
<1>2. core \cap wings = {} /\ Holds(hh, core, n) /\ (wings = {} \/ Holds(hh, wings, m))
  BY <1>1, FS_EmptySet DEF Wings, Holds
<1>3. /\ s \in SUBSET hh /\ Values(s) = core \cup wings
      /\ \A v \in core : Count(s, v) = n
      /\ \A v \in wings : Count(s, v) = m
  BY <1>0, <1>2, BuiltFacts
<1>4. Values(s) \ core = wings /\ core \subseteq Values(s)
  BY <1>2, <1>3
<1>5. FitsRow(s, core, n, k, w, m)
  BY <1>3, <1>4 DEF FitsRow
<1> QED
  BY <1>3, <1>4, <1>5 DEF s

\* What the generator builds, kind by kind.
LEMMA CandidateKinds ==
  ASSUME NEW hh
  PROVE  /\ \A n \in 1..4 : \A x \in WithAtLeast(hh, n) : Some(hh, x, n) \in Candidates(hh)
         /\ Attached(hh, 3, 1, 1) \cup Attached(hh, 3, 1, 2) \subseteq Candidates(hh)
         /\ Attached(hh, 4, 2, 1) \cup Attached(hh, 4, 2, 2) \subseteq Candidates(hh)
         /\ {SmallJoker, BigJoker} \subseteq Values(hh) =>
              TakeCards(hh, {SmallJoker, BigJoker}, 1) \in Candidates(hh)
         /\ Chains(hh, 1, 5) \cup Chains(hh, 2, 3) \cup Chains(hh, 3, 2) \subseteq Candidates(hh)
         /\ Airplanes(hh, 1) \cup Airplanes(hh, 2) \subseteq Candidates(hh)
<1> DEFINE A == UNION {{Some(hh, v, n) : v \in WithAtLeast(hh, n)} : n \in 1..4}
           R == IF {SmallJoker, BigJoker} \subseteq Values(hh)
                THEN {TakeCards(hh, {SmallJoker, BigJoker}, 1)} ELSE {}
<1>1. Candidates(hh) =
        A \cup Attached(hh, 3, 1, 1) \cup Attached(hh, 3, 1, 2)
          \cup Attached(hh, 4, 2, 1) \cup Attached(hh, 4, 2, 2) \cup R
          \cup Chains(hh, 1, 5) \cup Chains(hh, 2, 3) \cup Chains(hh, 3, 2)
          \cup Airplanes(hh, 1) \cup Airplanes(hh, 2)
  BY DEF Candidates
<1>2. \A n \in 1..4 : \A x \in WithAtLeast(hh, n) : Some(hh, x, n) \in A
  OBVIOUS
<1>3. {SmallJoker, BigJoker} \subseteq Values(hh) => TakeCards(hh, {SmallJoker, BigJoker}, 1) \in R
  BY Zenon
<1> HIDE DEF A, R
<1> QED
  BY <1>1, <1>2, <1>3

LEMMA AttachedHas ==
  ASSUME NEW hh, NEW n, NEW w, NEW m, NEW v \in WithAtLeast(hh, n),
         NEW wings, wings \subseteq Wings(hh, {v}, m), Cardinality(wings) = w
  PROVE  Built(hh, {v}, n, wings, m) \in Attached(hh, n, w, m)
<1> DEFINE A(x) == {Some(hh, x, n) \cup TakeCards(hh, u, m) :
                      u \in {y \in SUBSET Wings(hh, {x}, m) : Cardinality(y) = w}}
<1>1. TakeCards(hh, {v}, n) = Some(hh, v, n)
  BY DEF TakeCards
<1>2. Built(hh, {v}, n, wings, m) \in A(v)
  BY <1>1 DEF Built
<1>3. Attached(hh, n, w, m) = UNION {A(x) : x \in WithAtLeast(hh, n)}
  BY DEF Attached
<1> HIDE DEF A
<1> QED
  BY <1>2, <1>3

\* Every play of the rules has a candidate of the same kind, rank and length.
LEMMA CandidateFor ==
  ASSUME NEW hh \in SUBSET Deck, NEW cards \in SUBSET hh, NEW t, NEW v, RuledPlay(cards, t, v)
  PROVE  \E s \in Candidates(hh) :
           /\ s \in SUBSET hh /\ Cardinality(s) = Cardinality(cards)
           /\ MakePattern(t, s, v) \in Readings(s)
<1> DEFINE Goal == \E s \in Candidates(hh) :
                     /\ s \in SUBSET hh /\ Cardinality(s) = Cardinality(cards)
                     /\ MakePattern(t, s, v) \in Readings(s)
<1> SUFFICES Goal
  OBVIOUS
<1>1. PICK core \in SUBSET Values(cards), n \in Nat, k \in Nat, w \in Nat, m \in Nat :
        Ruled(t, n, k, w, m) /\ FitsRow(cards, core, n, k, w, m) /\ Top(core) = v
  BY DEF RuledPlay
<1> DEFINE Out == Values(cards) \ core
<1>2. cards \in SUBSET Deck /\ core \subseteq Values(cards)
  BY <1>1
<1>3. core \subseteq WithAtLeast(hh, n) /\ Out \subseteq Wings(hh, core, m)
  BY <1>1, <1>2, PlayParts
<1>4. /\ IsCore(core, k) /\ (k > 1 => core \subseteq 3..14) /\ Cardinality(Out) = w
  BY <1>1 DEF FitsRow
<1>5. /\ Cardinality(cards) = n * k + m * w
      /\ core # {} /\ IsFiniteSet(core) /\ Cardinality(core) = k
  BY <1>1, <1>2, FitsSize
<1>6. IsFiniteSet(Out) /\ IsFiniteSet(Wings(hh, core, m)) /\ Wings(hh, core, m) \in SUBSET Int
  <2>1. /\ IsFiniteSet(Values(hh)) /\ Values(hh) \in SUBSET (3..17)
        /\ Wings(hh, core, m) \subseteq Values(hh)
    BY ValuesFacts DEF Wings, WithAtLeast
  <2> QED
    BY <1>3, <2>1, FS_Subset
<1> HIDE DEF Goal, Out
<1>7. ASSUME NEW W, W \subseteq Wings(hh, core, m), IsFiniteSet(W), Cardinality(W) = w,
             Built(hh, core, n, W, m) \in Candidates(hh)
      PROVE  Goal
  <2> DEFINE s == Built(hh, core, n, W, m)
  <2>1. s \in SUBSET hh /\ core \subseteq Values(s) /\ FitsRow(s, core, n, k, w, m)
    BY <1>1, <1>3, <1>4, <1>7, BuiltPlay
  <2> HIDE DEF s
  <2>2. s \in SUBSET Deck
    BY <2>1
  <2>3. Cardinality(s) = n * k + m * w /\ MakePattern(t, s, Top(core)) \in Readings(s)
    BY <1>1, <2>1, <2>2, FitsPlay
  <2> QED
    BY <1>1, <1>5, <1>7, <2>1, <2>3 DEF Goal, s
<1>8. CASE w = 0
  <2>1. Built(hh, core, n, {}, m) = TakeCards(hh, core, n)
    BY DEF Built, TakeCards
  <2>2. ASSUME TakeCards(hh, core, n) \in Candidates(hh) PROVE Goal
    BY <1>7, <1>8, <2>1, <2>2, FS_EmptySet
  <2>3. CASE k = 1
    <3>1. PICK x : core = {x}
      BY <1>5, <2>3, FS_Singleton
    <3>2. TakeCards(hh, core, n) = Some(hh, x, n) /\ x \in WithAtLeast(hh, n)
      BY <1>3, <3>1 DEF TakeCards
    <3>3. n \in 1..4
      BY <1>1 DEF Ruled
    <3> QED
      BY <2>2, <3>2, <3>3, CandidateKinds
  <2>4. ASSUME NEW least \in Nat, k > 1, least <= k PROVE TakeCards(hh, core, n) \in Chains(hh, n, least)
    <3>1. WithAtLeast(hh, n) \cap 3..14 \in SUBSET Int /\ core \in SUBSET (WithAtLeast(hh, n) \cap 3..14)
      BY <1>3, <1>4, <2>4
    <3>2. core \in Runs(WithAtLeast(hh, n) \cap 3..14, least)
      BY <1>4, <2>4, <3>1, CoreRuns
    <3> QED
      BY <3>2 DEF Chains
  <2>5. CASE t = "straight"
    <3>1. n = 1 /\ k > 1 /\ 5 <= k
      BY <1>1, <2>5 DEF Ruled
    <3>2. TakeCards(hh, core, n) \in Chains(hh, 1, 5)
      BY <2>4, <3>1
    <3> QED
      BY <2>2, <3>1, <3>2, CandidateKinds
  <2>6. CASE t = "straight_pair"
    <3>1. n = 2 /\ k > 1 /\ 3 <= k
      BY <1>1, <2>6 DEF Ruled
    <3>2. TakeCards(hh, core, n) \in Chains(hh, 2, 3)
      BY <2>4, <3>1
    <3> QED
      BY <2>2, <3>1, <3>2, CandidateKinds
  <2>7. CASE t = "airplane"
    <3>1. n = 3 /\ k > 1 /\ 2 <= k
      BY <1>1, <2>7 DEF Ruled
    <3>2. TakeCards(hh, core, n) \in Chains(hh, 3, 2)
      BY <2>4, <3>1
    <3> QED
      BY <2>2, <3>1, <3>2, CandidateKinds
  <2> QED
    BY <1>1, <1>8, <2>3, <2>5, <2>6, <2>7 DEF Ruled
<1>9. CASE k = 1 /\ w # 0
  <2>1. PICK x : core = {x}
    BY <1>5, <1>9, FS_Singleton
  <2>2. Built(hh, core, n, Out, m) \in Attached(hh, n, w, m)
    BY <1>3, <1>4, <2>1, AttachedHas
  <2>3. \/ n = 3 /\ w = 1 /\ m = 1
        \/ n = 3 /\ w = 1 /\ m = 2
        \/ n = 4 /\ w = 2 /\ m = 1
        \/ n = 4 /\ w = 2 /\ m = 2
    BY <1>1, <1>9 DEF Ruled
  <2>4. Built(hh, core, n, Out, m) \in Candidates(hh)
    BY <2>2, <2>3, CandidateKinds
  <2> QED
    BY <1>3, <1>4, <1>6, <1>7, <2>4
<1>10. CASE k > 1 /\ w # 0
  <2>1. n = 3 /\ w = k /\ m \in {1, 2}
    BY <1>1, <1>10 DEF Ruled
  <2> DEFINE Wi == Wings(hh, core, m)
             W  == Lowest(Wi, k)
  <2>2. k <= Cardinality(Wi)
    <3>1. Cardinality(Out) <= Cardinality(Wi)
      BY <1>3, <1>6, FS_Subset
    <3> QED
      BY <1>4, <2>1, <3>1
  <2>3. W \subseteq Wi /\ Cardinality(W) = k /\ IsFiniteSet(W)
    <3>1. W \subseteq Wi /\ Cardinality(W) = k
      BY <1>6, <2>2, LowestCount
    <3> QED
      BY <1>6, <3>1, FS_Subset
  <2>4. core \in PlaneRuns(hh)
    <3>1. WithAtLeast(hh, 3) \cap 3..14 \in SUBSET Int /\ core \in SUBSET (WithAtLeast(hh, 3) \cap 3..14)
      BY <1>3, <1>4, <1>10, <2>1
    <3> QED
      BY <1>4, <1>10, <3>1, CoreRuns DEF PlaneRuns
  <2>5. Built(hh, core, 3, W, m) \in Airplanes(hh, m)
    BY <1>5, <2>2, <2>4 DEF Airplanes, Built
  <2>6. Built(hh, core, n, W, m) \in Candidates(hh)
    BY <2>1, <2>5, CandidateKinds
  <2> HIDE DEF W
  <2> QED
    BY <1>7, <2>1, <2>3, <2>6
<1>11. k = 1 \/ k > 1
  BY <1>1 DEF Ruled
<1> QED
  BY <1>8, <1>9, <1>10, <1>11

\* Every candidate is made of cards of the hand.
LEMMA TakenWithin ==
  ASSUME NEW hh \in SUBSET Deck, NEW n \in Nat, NEW V, V \subseteq WithAtLeast(hh, n)
  PROVE  TakeCards(hh, V, n) \subseteq hh
<1>1. \A v \in V : Some(hh, v, n) \subseteq hh
  BY SomeFacts, BucketFacts
<1> QED
  BY <1>1 DEF TakeCards

LEMMA CandidatesWithin ==
  ASSUME NEW hh \in SUBSET Deck, NEW s \in Candidates(hh)
  PROVE  s \subseteq hh
<1>1. \A n \in Nat : \A v \in WithAtLeast(hh, n) : Some(hh, v, n) \subseteq hh
  BY SomeFacts, BucketFacts
<1>2. ASSUME NEW n \in Nat, NEW V, V \subseteq WithAtLeast(hh, n)
      PROVE  TakeCards(hh, V, n) \subseteq hh
  BY <1>2, TakenWithin
<1>3. ASSUME NEW n \in Nat, NEW w, NEW m \in Nat, s \in Attached(hh, n, w, m)
      PROVE  s \subseteq hh
  <2>0. PICK v \in WithAtLeast(hh, n) :
          s \in {Some(hh, v, n) \cup TakeCards(hh, x, m) :
                  x \in {y \in SUBSET Wings(hh, {v}, m) : Cardinality(y) = w}}
    BY <1>3 DEF Attached
  <2>1. PICK u \in SUBSET Wings(hh, {v}, m) : s = Some(hh, v, n) \cup TakeCards(hh, u, m)
    BY <2>0
  <2>2. u \subseteq WithAtLeast(hh, m)
    BY <2>1 DEF Wings
  <2>3. TakeCards(hh, u, m) \subseteq hh
    BY <1>2, <2>2
  <2> QED
    BY <1>1, <2>1, <2>3
<1>4. ASSUME NEW n \in Nat, NEW least, s \in Chains(hh, n, least) PROVE s \subseteq hh
  <2>1. PICK r \in Runs(WithAtLeast(hh, n) \cap 3..14, least) : s = TakeCards(hh, r, n)
    BY <1>4 DEF Chains
  <2>2. r \subseteq WithAtLeast(hh, n)
    BY <2>1 DEF Runs
  <2> QED
    BY <1>2, <2>1, <2>2
<1>5. ASSUME NEW m \in Nat, s \in Airplanes(hh, m) PROVE s \subseteq hh
  <2>1. PICK r \in PlaneRuns(hh) :
          s = TakeCards(hh, r, 3) \cup TakeCards(hh, Lowest(Wings(hh, r, m), Cardinality(r)), m)
    BY <1>5 DEF Airplanes
  <2> DEFINE u == Lowest(Wings(hh, r, m), Cardinality(r))
  <2>2. r \subseteq WithAtLeast(hh, 3) /\ u \subseteq WithAtLeast(hh, m)
    BY <2>1 DEF PlaneRuns, Runs, Wings, Lowest
  <2> HIDE DEF u
  <2>3. TakeCards(hh, r, 3) \subseteq hh /\ TakeCards(hh, u, m) \subseteq hh
    BY <1>2, <2>2
  <2>4. s = TakeCards(hh, r, 3) \cup TakeCards(hh, u, m)
    BY <2>1 DEF u
  <2> QED
    BY <2>3, <2>4
<1>6. ASSUME {SmallJoker, BigJoker} \subseteq Values(hh)
      PROVE  TakeCards(hh, {SmallJoker, BigJoker}, 1) \subseteq hh
  <2>1. {SmallJoker, BigJoker} \subseteq WithAtLeast(hh, 1)
    BY <1>6, ValuesFacts DEF WithAtLeast
  <2> QED
    BY <1>2, <2>1
<1> DEFINE A == UNION {{Some(hh, v, n) : v \in WithAtLeast(hh, n)} : n \in 1..4}
           R == IF {SmallJoker, BigJoker} \subseteq Values(hh)
                THEN {TakeCards(hh, {SmallJoker, BigJoker}, 1)} ELSE {}
<1>7. \/ s \in A \/ s \in R
      \/ s \in Attached(hh, 3, 1, 1) \/ s \in Attached(hh, 3, 1, 2)
      \/ s \in Attached(hh, 4, 2, 1) \/ s \in Attached(hh, 4, 2, 2)
      \/ s \in Chains(hh, 1, 5) \/ s \in Chains(hh, 2, 3) \/ s \in Chains(hh, 3, 2)
      \/ s \in Airplanes(hh, 1) \/ s \in Airplanes(hh, 2)
  BY DEF Candidates
<1>8. s \in A => s \subseteq hh
  BY <1>1
<1>9. s \in R => s \subseteq hh
  BY <1>6
<1> HIDE DEF A, R
<1> QED
  BY <1>3, <1>4, <1>5, <1>7, <1>8, <1>9

LEMMA CandidatePatterns ==
  ASSUME NEW hh \in SUBSET Deck, NEW s \in BuildCandidates(hh)
  PROVE  s \subseteq hh /\ EvaluatePattern(s) \in Pattern
<1>1. s \in Candidates(hh) /\ EvaluatePattern(s) # Invalid
  BY DEF BuildCandidates
<1>2. s \subseteq hh
  BY <1>1, CandidatesWithin
<1>3. s \in SUBSET Deck
  BY <1>2
<1>4. EvaluatePattern(s) \in Pattern \cup {Invalid}
  BY <1>3, EvaluatePatternType
<1> QED
  BY <1>1, <1>2, <1>4

\* Every legal play of a hand has a candidate of the same pattern.
LEMMA CandidateLike ==
  ASSUME NEW hh \in SUBSET Deck, Cardinality(hh) <= 20, NEW cards \in SUBSET hh,
         EvaluatePattern(cards) # Invalid
  PROVE  \E s \in BuildCandidates(hh) : s \subseteq hh /\ EvaluatePattern(s) = EvaluatePattern(cards)
<1> DEFINE p == EvaluatePattern(cards)
<1>1. \A c \in SUBSET hh : c \in SUBSET Deck /\ Cardinality(c) <= 20
  <2>1. IsFiniteSet(hh) /\ Cardinality(hh) \in Nat
    BY PlayIsFinite
  <2> SUFFICES ASSUME NEW c \in SUBSET hh PROVE Cardinality(c) <= 20
    OBVIOUS
  <2>2. IsFiniteSet(c) /\ Cardinality(c) <= Cardinality(hh)
    BY <2>1, FS_Subset
  <2>3. Cardinality(c) \in Nat
    BY <2>2, FS_CardinalityType
  <2> QED
    BY <2>1, <2>2, <2>3
<1>2. p \in Readings(cards)
  BY <1>1, EvaluateIs
<1>3. ASSUME NEW s \in Candidates(hh), s \in SUBSET hh, p \in Readings(s)
      PROVE  s \in BuildCandidates(hh) /\ s \subseteq hh /\ EvaluatePattern(s) = p
  <2>1. EvaluatePattern(s) = p /\ p # Invalid
    BY <1>1, <1>3, EvaluateIs
  <2> QED
    BY <1>3, <2>1 DEF BuildCandidates
<1>4. PICK t, v : p = MakePattern(t, cards, v) /\ Reads(cards, t, v)
  BY <1>2, ReadingsAre
<1> HIDE DEF p
<1>5. CASE t # "rocket"
  <2>1. RuledPlay(cards, t, v)
    BY <1>1, <1>4, <1>5, ReadsFits
  <2>2. PICK s \in Candidates(hh) :
          /\ s \in SUBSET hh /\ Cardinality(s) = Cardinality(cards)
          /\ MakePattern(t, s, v) \in Readings(s)
    BY <2>1, CandidateFor
  <2>3. MakePattern(t, s, v) = p
    BY <1>4, <2>2 DEF MakePattern
  <2> QED
    BY <1>3, <2>2, <2>3 DEF p
<1>6. CASE t = "rocket"
  <2> DEFINE J == {SmallJoker, BigJoker}
             s == TakeCards(hh, J, 1)
  <2>1. Values(cards) = J /\ Cardinality(cards) = 2 /\ v = RocketWeight
    BY <1>4, <1>6 DEF Reads
  <2>2. J \subseteq Values(hh)
    BY <2>1, PlayWithin
  <2>3. Holds(hh, J, 1)
    BY <2>2, ValuesFacts DEF Holds, WithAtLeast
  <2>4. s \in Candidates(hh)
    BY <2>2, CandidateKinds
  <2> HIDE DEF J
  <2>5. s \in SUBSET hh /\ Values(s) = J /\ \A i \in J : Count(s, i) = 1
    BY <2>3, TakenFacts
  <2> HIDE DEF s
  <2>6. s \in SUBSET Deck
    BY <2>5
  <2>7. Cardinality(s) = 2
    <3>1. Values(s) \ J = {} /\ J \in SUBSET Values(s)
      BY <2>5
    <3>2. Cardinality(s) = 1 * Cardinality(J) + 0 * Cardinality(Values(s) \ J)
      BY <2>5, <2>6, <3>1, CoreAndWings
    <3>3. Cardinality(J) = 2 /\ Cardinality(Values(s) \ J) = 0
      <4>1. SmallJoker # BigJoker
        BY DEF SmallJoker, BigJoker
      <4> QED
        <5>1. Cardinality({SmallJoker} \cup {BigJoker}) = Cardinality({SmallJoker}) + 1
          BY <4>1, FS_AddElement, FS_Singleton
        <5>2. Cardinality({SmallJoker}) = 1 /\ J = {SmallJoker} \cup {BigJoker}
          BY FS_Singleton DEF J
        <5> QED
          BY <3>1, <5>1, <5>2, FS_EmptySet
    <3> QED
      BY <3>2, <3>3
  <2>8. Reads(s, t, v)
    BY <1>6, <2>1, <2>5, <2>7 DEF Reads, J
  <2>9. p = MakePattern(t, s, v)
    BY <1>4, <2>1, <2>7 DEF MakePattern
  <2> QED
    BY <1>3, <2>4, <2>5, <2>8, <2>9, ReadingsAre DEF p
<1> QED
  BY <1>5, <1>6

-----------------------------------------------------------------------------
(* The theorems.                                                           *)

\* A hand of Hands, and a play laid out of it.
PlayOfHand == hand \in Hands /\ play \subseteq hand

LEMMA Laying == Spec => []PlayOfHand
<1>1. Init => PlayOfHand
  BY DEF Init, PlayOfHand
<1>2. PlayOfHand /\ [Next]_vars => PlayOfHand'
  BY DEF PlayOfHand, Next, LayCard, vars
<1> QED
  BY <1>1, <1>2, PTL DEF Spec

LEMMA PlayFacts ==
  ASSUME PlayOfHand
  PROVE  /\ hand \in SUBSET Deck /\ Cardinality(hand) <= 20 /\ play \in SUBSET hand
         /\ play \in SUBSET Deck /\ Cardinality(play) <= 20
<1>1. hand \in SUBSET Deck /\ Cardinality(hand) <= 20 /\ play \in SUBSET hand
  BY HandsAssumption DEF PlayOfHand
<1>2. IsFiniteSet(hand) /\ Cardinality(hand) \in Nat
  BY <1>1, PlayIsFinite
<1>3. IsFiniteSet(play) /\ Cardinality(play) <= Cardinality(hand)
  BY <1>1, <1>2, FS_Subset
<1>4. Cardinality(play) \in Nat
  BY <1>3, FS_CardinalityType
<1> QED
  BY <1>1, <1>2, <1>3, <1>4

\* EvaluatePattern accepts the combinations of the rules and no other, for every
\* deck and every play of a hand of at most 20 cards.
THEOREM Rulebook == Spec => []ReadsByTheRules
<1>1. PlayOfHand => ReadsByTheRules
  BY PlayFacts, ReadingsByTheRules DEF ReadsByTheRules
<1> QED
  BY <1>1, Laying, PTL

\* No play has two readings: the order of EvaluatePattern's tests is immaterial.
THEOREM NoSecondReading == Spec => []OneReading
<1>1. ASSUME PlayOfHand PROVE OneReading
  <2>1. play \in SUBSET Deck /\ Cardinality(play) <= 20
    BY <1>1, PlayFacts
  <2>2. \A p, q \in Readings(play) : p = q
    BY <2>1, ReadingsUnique
  <2>3. CASE Readings(play) = {}
    BY <2>3, FS_EmptySet DEF OneReading
  <2>4. CASE Readings(play) # {}
    <3>1. PICK p \in Readings(play) : TRUE
      BY <2>4
    <3>2. Readings(play) = {p}
      BY <2>2, <3>1
    <3>3. Cardinality({p}) = 1
      BY FS_Singleton
    <3> QED
      BY <3>2, <3>3 DEF OneReading
  <2> QED
    BY <2>3, <2>4
<1> QED
  BY <1>1, Laying, PTL

\* The bot's generator has a candidate of the type, rank and length of every
\* legal play of every hand.
THEOREM GeneratorComplete == Spec => []CandidatesComplete
<1>1. ASSUME PlayOfHand PROVE CandidatesComplete
  <2>1. hand \in SUBSET Deck /\ Cardinality(hand) <= 20 /\ play \in SUBSET hand /\ hand \in Hands
    BY <1>1, PlayFacts DEF PlayOfHand
  <2>2. EvaluatePattern(play) # Invalid =>
          \E s \in BuildCandidates(hand) : s \subseteq hand /\ EvaluatePattern(s) = EvaluatePattern(play)
    BY <2>1, CandidateLike
  <2>3. HandCandidates[hand] = BuildCandidates(hand)
    BY <2>1 DEF HandCandidates
  <2> QED
    BY <2>2, <2>3 DEF CandidatesComplete
<1> QED
  BY <1>1, Laying, PTL

\* Whatever has been played, beating never leads back: CanBeat is a strict order
\* on the patterns (but for the two rockets no deck holds).
THEOREM BeatingIsAnOrder == Spec => []NoBeatingCircle
<1>1. ASSUME NEW p \in Pattern, NEW q \in Pattern
      PROVE  CanBeat(p, q) <=>
               \/ p.type = "rocket"
               \/ /\ q.type # "rocket"
                  /\ \/ /\ p.type = "bomb"
                        /\ q.type \notin {"bomb", "four_with_two_singles", "four_with_two_pairs"}
                     \/ /\ p.type = q.type
                        /\ p.length = q.length \/ p.type \in FixedLength
                        /\ p.weight > q.weight
  <2>1. q # NoPattern /\ p.type # "invalid"
    BY DEF Pattern, PatternTypes, NoPattern
  <2> QED
    BY <2>1 DEF CanBeat
<1> DEFINE Beats(x, y) == CanBeat(x, y) /\ ~(x.type = "rocket" /\ y.type = "rocket")
<1>2. \A p \in Pattern : p.type \in PatternTypes /\ p.weight \in Int /\ p.length \in Int
  BY DEF Pattern
<1>3. ASSUME NEW p \in Pattern, NEW q \in Pattern PROVE ~(Beats(p, q) /\ Beats(q, p))
  BY <1>1, <1>2
<1>4. ASSUME NEW p \in Pattern, NEW q \in Pattern, NEW r \in Pattern, Beats(r, q), Beats(q, p)
      PROVE  Beats(r, p)
  <2>1. CASE r.type = "rocket"
    BY <1>1, <1>4, <2>1
  <2>2. CASE r.type # "rocket" /\ r.type = "bomb"
    BY <1>1, <1>2, <1>4, <2>2
  <2>3. CASE r.type # "rocket" /\ r.type # "bomb"
    BY <1>1, <1>2, <1>4, <2>3
  <2> QED
    BY <2>1, <2>2, <2>3
<1>5. AllPatterns \subseteq Pattern
  <2>1. \A h \in Hands : HandCandidates[h] = BuildCandidates(h) /\ h \in SUBSET Deck
    BY HandsAssumption DEF HandCandidates
  <2> QED
    BY <2>1, CandidatePatterns DEF AllPatterns
<1> HIDE DEF Beats
<1>6. ASSUME PlayOfHand PROVE NoBeatingCircle
  <2> DEFINE p == EvaluatePattern(play)
  <2>1. play \in SUBSET Deck
    BY <1>6, PlayFacts
  <2>2. p \in Pattern \cup {Invalid}
    BY <2>1, EvaluatePatternType
  <2> HIDE DEF p
  <2>3. p # Invalid =>
          \A q, r \in AllPatterns :
            /\ ~(Beats(p, q) /\ Beats(q, p))
            /\ Beats(r, q) /\ Beats(q, p) => Beats(r, p)
    BY <1>3, <1>4, <1>5, <2>2
  <2> QED
    BY <2>3 DEF NoBeatingCircle, p, Beats
<1> QED
  BY <1>6, Laying, PTL

=============================================================================
