---------------------------- MODULE PatternRules ----------------------------
(***************************************************************************)
(* The rules of the card combinations stated once, as a reference for the  *)
(* case analysis of CardPatterns: a combination is a core (a run of values, *)
(* each held the same number of times) and wings of one size.  The module  *)
(* picks a hand and lays a play out of it card by card, so that every play *)
(* of every hand of Hands is a state.                                      *)
(***************************************************************************)
EXTENDS CardPatterns

CONSTANT Hands          \* the hands examined, sets of cards of Deck

\* A player never holds more than the landlord's 20 cards.
ASSUME HandsAssumption == \A h \in Hands : h \subseteq Deck /\ Cardinality(h) <= 20

VARIABLES hand, play
vars == <<hand, play>>

Init == hand \in Hands /\ play = {}
LayCard == \E c \in hand \ play : play' = play \cup {c} /\ UNCHANGED hand
Next == LayCard \/ (play = hand /\ UNCHANGED vars)
Spec == Init /\ [][Next]_vars

-----------------------------------------------------------------------------
\* A core held `copies` times on k consecutive values, `wings` wings of `size` cards.
Rules ==
  [single                |-> {<<1, 1, 0, 0>>},
   pair                  |-> {<<2, 1, 0, 0>>},
   triple                |-> {<<3, 1, 0, 0>>},
   bomb                  |-> {<<4, 1, 0, 0>>},
   triple_with_single    |-> {<<3, 1, 1, 1>>},
   triple_with_pair      |-> {<<3, 1, 1, 2>>},
   four_with_two_singles |-> {<<4, 1, 2, 1>>},
   four_with_two_pairs   |-> {<<4, 1, 2, 2>>},
   straight              |-> {<<1, k, 0, 0>> : k \in 5..12},
   straight_pair         |-> {<<2, k, 0, 0>> : k \in 3..10},
   airplane              |-> {<<3, k, 0, 0>> : k \in 2..6},
   airplane_with_single  |-> {<<3, k, k, 1>> : k \in 2..5},
   airplane_with_pair    |-> {<<3, k, k, 2>> : k \in 2..4}]

\* The cards are `copies` of each value of `core`, and wings on other values.
Fits(cards, core, rule) ==
  /\ core # {} /\ (\E top \in core : core = top - rule[2] + 1 .. top)
  /\ rule[2] > 1 => core \subseteq 3..14
  /\ \A v \in core : Count(cards, v) = rule[1]
  /\ Cardinality(Values(cards) \ core) = rule[3]
  /\ \A v \in Values(cards) \ core : Count(cards, v) = rule[4]

ByTheRules(cards) ==
  {MakePattern(x[1], cards, CHOOSE v \in x[2] : \A w \in x[2] : w <= v) :
     x \in {y \in (DOMAIN Rules) \X SUBSET Values(cards) :
              \E rule \in Rules[y[1]] : Fits(cards, y[2], rule)}}
  \cup IF Values(cards) = {SmallJoker, BigJoker} /\ Cardinality(cards) = 2
       THEN {MakePattern("rocket", cards, RocketWeight)} ELSE {}

-----------------------------------------------------------------------------
\* EvaluatePattern's tests never compete: whatever order the code tries them in,
\* a play has at most one reading (models.cpp 163-303 returns at the first).
OneReading == Cardinality(Readings(play)) <= 1

\* EvaluatePattern accepts exactly the combinations of the rules, with their
\* type, rank and length (kickers of equal value are not a combination).
ReadsByTheRules == Readings(play) = ByTheRules(play)

\* The bot's move generator misses nothing that matters: every legal play of the
\* hand has a candidate that fights it on equal terms (same type, rank, length),
\* and every candidate is itself a legal play of the hand.
HandCandidates == [h \in Hands |-> BuildCandidates(h)]
CandidatesComplete ==
  LET p == EvaluatePattern(play) IN
  p # Invalid =>
    \E s \in HandCandidates[hand] : s \subseteq hand /\ EvaluatePattern(s) = p

\* The patterns of the hands, each computed once.
AllPatterns == {EvaluatePattern(s) : s \in UNION {HandCandidates[h] : h \in Hands}}

\* CanBeat never lets a table be beaten in a circle: following any beaten pattern
\* upwards is transitive and never comes back (the rocket, of which the deck holds
\* one, is the top).
NoBeatingCircle ==
  LET p == EvaluatePattern(play)
      Beats(x, y) == CanBeat(x, y) /\ ~(x.type = "rocket" /\ y.type = "rocket") IN
  p # Invalid =>
    \A q, r \in AllPatterns :
      /\ ~(Beats(p, q) /\ Beats(q, p))
      /\ Beats(r, q) /\ Beats(q, p) => Beats(r, p)
=============================================================================
