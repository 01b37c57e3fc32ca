---------------------------- MODULE LandlordGame ----------------------------
(***************************************************************************)
(* What a room promises its players: one round of the game, without        *)
(* clocks, trustees, bots, announcements or lost messages.  Room is shown  *)
(* to implement it.                                                        *)
(***************************************************************************)
EXTENDS CardPatterns

CONSTANTS
  Plays,          \* the sets of cards that may be played, with what they are
  Deals,          \* the shuffles
  FirstBidders    \* who may open the bidding

VARIABLES
  deal,           \* the shuffle
  opener,         \* who opens the bidding
  stage,          \* "bidding", "playing", "won" or "settled"
  hands,          \* the cards of each player
  turn,           \* who is to act, -1 when nobody is
  calls,          \* how many players have bid
  top,            \* the highest bid and who made it last
  lord,           \* the landlord, -1 while bidding
  table,          \* the combination to beat and its owner
  stake,          \* what a farmer wins or loses
  lordPlays, farmerPlays,
  payoff          \* the result of the round
vars == <<deal, opener, stage, hands, turn, calls, top, lord, table, stake,
          lordPlays, farmerPlays, payoff>>

Seat == 0..2
Nobody == -1
EmptyTable == [by |-> Nobody, pattern |-> NoPattern]
Left(p) == (p + 1) % 3

Init ==
  /\ deal \in Deals /\ opener \in FirstBidders
  /\ stage = "bidding" /\ hands = deal.hand /\ turn = opener
  /\ calls = 0 /\ top = [bid |-> 0, by |-> Nobody] /\ lord = Nobody
  /\ table = EmptyTable /\ stake = 1
  /\ lordPlays = 0 /\ farmerPlays = 0
  /\ payoff = [p \in Seat |-> 0]

\* The landlord takes the three cards and leads.
TakeLand(p, bid) ==
  /\ stage' = "playing" /\ lord' = p /\ turn' = p /\ stake' = bid
  /\ hands' = [hands EXCEPT ![p] = @ \cup deal.landlordCards]

\* Everybody bids once, in turn, until somebody bids 3.  A later bid of the same
\* height takes the auction over; when nobody bids the opener plays for 1.
Bid(p, bid) ==
  LET best == IF bid > 0 THEN [bid |-> bid, by |-> p] ELSE top IN
  /\ stage = "bidding" /\ turn = p
  /\ bid = 0 \/ bid >= top.bid
  /\ calls' = calls + 1 /\ top' = best
  /\ IF best.bid = 3 \/ calls' = 3
     THEN IF best.by = Nobody THEN TakeLand(opener, 1) ELSE TakeLand(best.by, best.bid)
     ELSE turn' = Left(p) /\ UNCHANGED <<stage, lord, stake, hands>>
  /\ UNCHANGED <<deal, opener, table, lordPlays, farmerPlays, payoff>>

\* Lead anything to an empty table, beat what lies there otherwise.
Play(p, play) ==
  /\ stage = "playing" /\ turn = p
  /\ play.cards \subseteq hands[p]
  /\ table # EmptyTable => table.by # p /\ CanBeat(play.pattern, table.pattern)
  /\ hands' = [hands EXCEPT ![p] = @ \ play.cards]
  /\ table' = [by |-> p, pattern |-> play.pattern]
  /\ stake' = IF play.pattern.type \in {"bomb", "rocket"} THEN 2 * stake ELSE stake
  /\ IF p = lord THEN lordPlays' = lordPlays + 1 /\ UNCHANGED farmerPlays
                 ELSE farmerPlays' = farmerPlays + 1 /\ UNCHANGED lordPlays
  /\ IF play.cards = hands[p] THEN stage' = "won" /\ turn' = Nobody
                         ELSE turn' = Left(p) /\ UNCHANGED stage
  /\ UNCHANGED <<deal, opener, calls, top, lord, payoff>>

\* The table is cleared when the turn comes back to the owner of what lies there.
Pass(p) ==
  /\ stage = "playing" /\ turn = p
  /\ table # EmptyTable /\ table.by # p
  /\ turn' = Left(p)
  /\ table' = IF Left(p) = table.by THEN EmptyTable ELSE table
  /\ UNCHANGED <<deal, opener, stage, hands, calls, top, lord, stake, lordPlays,
                 farmerPlays, payoff>>

\* A side shut out pays double; what the landlord wins or loses the farmers share.
ShutOut ==
  IF hands[lord] = {}
  THEN \A p \in Seat \ {lord} : hands[p] = deal.hand[p]
  ELSE lordPlays = 1

Settle ==
  /\ stage = "won" /\ stage' = "settled"
  /\ stake' = IF ShutOut THEN 2 * stake ELSE stake
  /\ \E unit \in {stake', -stake'} :
       /\ (unit > 0) = (hands[lord] = {})
       /\ payoff' = [p \in Seat |-> IF p = lord THEN unit + unit ELSE -unit]
  /\ UNCHANGED <<deal, opener, hands, turn, calls, top, lord, table, lordPlays, farmerPlays>>

Next ==
  \/ \E p \in Seat :
       \/ \E bid \in 0..3 : Bid(p, bid)
       \/ \E play \in Plays : Play(p, play)
       \/ Pass(p)
  \/ Settle

Spec == Init /\ [][Next]_vars
=============================================================================
