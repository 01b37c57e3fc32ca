--------------------------- MODULE MCPatternRules ---------------------------
(* Two hands that between them hold every combination of the game.         *)
EXTENDS BidStrategy

\* Card n has the n-th value of this list.
CardValues == <<3, 3, 3, 3, 4, 4, 4, 5, 5, 6, 6, 7, 7, 14, 15, 15, 16, 17,
                5, 8>>
MCDeck == 1..Len(CardValues)
MCValue == [c \in MCDeck |-> CardValues[c]]

\* 3333 444 55 7 2 and both jokers; 33 44 55 66 77 8 A; 333 444 555 66 2.
MCHands == {{1, 2, 3, 4, 5, 6, 7, 8, 9, 12, 15, 17, 18},
            {1, 2, 5, 6, 8, 9, 10, 11, 12, 13, 20, 14},
            {1, 2, 3, 5, 6, 7, 8, 9, 19, 10, 11, 15}}
=============================================================================
