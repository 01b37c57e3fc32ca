------------------------------- MODULE MCRoom -------------------------------
(* Small decks for Room: eight cards with a bomb and the rocket in them, two *)
(* cards each and two for the landlord.                                      *)
EXTENDS RoomProperties, Sequences, TLC

CardValues == <<3, 3, 3, 3, 4, 4, 16, 17>>
MCDeck == 1..Len(CardValues)
MCValue == [c \in MCDeck |-> CardValues[c]]

Give(a, b, c) ==
  [hand |-> (0 :> a) @@ (1 :> b) @@ (2 :> c),
   landlordCards |-> MCDeck \ (a \cup b \cup c)]

\* Pairs against the rocket with a bomb for seat 0, and three mixed hands.
MCDeals == {Give({1, 2}, {5, 6}, {7, 8}), Give({1, 5}, {2, 8}, {6, 7})}

\* The smallest round with a second trick: one card each, one for the landlord.
SmallDeck == {1, 5, 6, 7}
SmallDeals ==
  {[hand |-> (0 :> {1}) @@ (1 :> {5}) @@ (2 :> {7}), landlordCards |-> {6}],
   [hand |-> (0 :> {5}) @@ (1 :> {7}) @@ (2 :> {6}), landlordCards |-> {1}]}
SmallValue == [c \in SmallDeck |-> CardValues[c]]
=============================================================================
