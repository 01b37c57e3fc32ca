----------------------------- MODULE MCRoomView -----------------------------
(* Four cards with a pair and the rocket in them for RoomView: the landlord's *)
(* card completes the rocket of one seat, or a pair of another.               *)
EXTENDS RoomView, TLC

CardValues == <<3, 3, 16, 17>>
MCDeck == 1..Len(CardValues)
MCValue == [c \in MCDeck |-> CardValues[c]]

MCDeals ==
  {[hand |-> (0 :> {1}) @@ (1 :> {2}) @@ (2 :> {3}), landlordCards |-> {4}],
   [hand |-> (0 :> {1}) @@ (1 :> {3}) @@ (2 :> {4}), landlordCards |-> {2}]}
=============================================================================
