--------------------------- MODULE RoomRefinement ---------------------------
(***************************************************************************)
(* A room implements LandlordGame, for every deck, every set of shuffles,  *)
(* every seating of bots and both modes.                                   *)
(***************************************************************************)
EXTENDS RoomProofs

\* While bidding the stake is one, and there is a bid on the table when there is a
\* bidder.
AuctionInv ==
  phase = "WAITING" =>
    baseScore = 1 /\ multiplier = 1 /\ (highestBidder = NoPlayer <=> highestBid = 0)

\* The steps of the game among those of the room.
Bids(p, score) ==
  /\ phase = "WAITING" /\ OnTurn(p) /\ BidAccepted(score)
  /\ \E auto \in BOOLEAN : CallScore(p, score, auto)
Lays(p, play) ==
  /\ phase = "PLAYING" /\ OnTurn(p) /\ Legal(p, play)
  /\ \E auto \in BOOLEAN : PlayCards(p, play, auto)
Passes(p) ==
  /\ phase = "PLAYING" /\ OnTurn(p) /\ ~IsLeadTurnFor(p)
  /\ \E auto \in BOOLEAN : Pass(p, auto)

LEMMA GameSteps ==
  ASSUME RoomInvariant, [Next]_vars
  PROVE  \/ \E p \in Player, score \in 0..3 : Bids(p, score)
         \/ \E p \in Player, play \in Plays : Lays(p, play)
         \/ \E p \in Player : Passes(p)
         \/ FinishDue /\ CompletePendingFinish
         \/ UNCHANGED gameVars
<1> USE DEF gameVars, turnVars, finishVars
<1>1. CASE Client
  <2>1. ASSUME NEW p \in Humans, NEW score \in 0..3, ClientBids(p, score)
        PROVE  p \in Player /\ Bids(p, score)
    BY <2>1 DEF ClientBids, Bids, Humans
  <2>2. ASSUME NEW p \in Humans, NEW play \in Plays, ClientPlays(p, play)
        PROVE  p \in Player /\ Lays(p, play)
    BY <2>2 DEF ClientPlays, Lays, Humans
  <2>3. ASSUME NEW p \in Humans, ClientPasses(p) PROVE p \in Player /\ Passes(p)
    BY <2>3 DEF ClientPasses, Passes, Humans
  <2>4. ASSUME NEW p \in Humans, \/ ClientPlaysInvalid(p)
                                 \/ \E on \in BOOLEAN : SetManaged(p, on)
        PROVE  UNCHANGED gameVars
    BY <2>4 DEF ClientPlaysInvalid, SetManaged
  <2>5. CASE ClientPresents \/ \E id \in acks : AcknowledgePresentation(id)
    BY <2>5 DEF ClientPresents, AcknowledgePresentation
  <2> QED
    BY <1>1, <2>1, <2>2, <2>3, <2>4, <2>5 DEF Client
<1>2. CASE TickManaged
  <2>1. CASE TickFinish
    BY <2>1 DEF TickFinish
  <2>2. CASE TickDrive
    <3>1. /\ current \in Player /\ OnTurn(current) /\ highestBid \in 0..3
      BY <2>2 DEF TickDrive, DecisionDue, Running, OnTurn, RoomInvariant, TypeOK, TurnType,
                  FinishOnce, BiddingType
    <3>2. ASSUME DriveBid
          PROVE  (\E score \in 0..3 : Bids(current, score)) \/ UNCHANGED gameVars
      <4>1. PICK level \in 0..3 :
              LET bid == ChooseBidAction(level, highestBid) IN
              IF BidAccepted(bid) THEN CallScore(current, bid, TRUE) ELSE UNCHANGED gameVars
        BY <3>2 DEF DriveBid
      <4>2. ChooseBidAction(level, highestBid) \in 0..3
        BY <3>1 DEF ChooseBidAction
      <4>3. phase = "WAITING" /\ TRUE \in BOOLEAN
        BY <3>2 DEF DriveBid
      <4> QED
        BY <3>1, <4>1, <4>2, <4>3 DEF Bids
    <3>3. ASSUME DriveMove
          PROVE  (\E play \in Plays : Lays(current, play)) \/ Passes(current)
      BY <3>1, <3>3 DEF DriveMove, Lays, Passes
    <3> QED
      BY <2>2, <3>1, <3>2, <3>3 DEF TickDrive
  <2>3. CASE TickRetry \/ TickTrustee \/ TickGate
    BY <2>3 DEF TickRetry, DriveModelFails, TickTrustee, EnterTrustee, TickGate
  <2> QED
    BY <1>2, <2>1, <2>2, <2>3 DEF TickManaged
<1>3. CASE Elapse \/ LoseAck
  BY <1>3 DEF Elapse, ElapseDecision, ElapseTurn, ElapseFinish, ElapseGate, LoseAck, Unmoved
<1>4. CASE Over \/ UNCHANGED vars
  BY <1>4 DEF Over, vars
<1> QED
  BY <1>1, <1>2, <1>3, <1>4 DEF Next

-----------------------------------------------------------------------------
\* Twice the stake is the stake of twice the multiplier.
LEMMA StakeDoubles ==
  ASSUME NEW score \in 1..3, NEW m \in Nat
  PROVE  score * (2 * m) = 2 * (score * m)
<1>1. score = 1 \/ score = 2 \/ score = 3
  OBVIOUS
<1> QED
  BY <1>1

LEMMA SameCards ==
  ASSUME NEW a, NEW b
  PROVE  CanBeat(a, b) => Game!CanBeat(a, b)
  BY DEF CanBeat, Game!CanBeat, NoPattern, Game!NoPattern, FixedLength, Game!FixedLength

LEMMA BidRefines ==
  ASSUME RoomInvariant, AuctionInv, NEW p \in Player, NEW score \in 0..3, Bids(p, score)
  PROVE  Game!Bid(p, score) /\ AuctionInv'
<1> DEFINE bid == IF score > 0 THEN score ELSE highestBid
           bidder == IF score > 0 THEN p ELSE highestBidder
           winner == IF bidder = NoPlayer THEN bidStart ELSE bidder
           best == [bid |-> IF bidder = NoPlayer THEN 0 ELSE bid, by |-> bidder]
<1> USE DEF NoPlayer, Game!Nobody
<1>1. PICK auto \in BOOLEAN : CallScore(p, score, auto)
  BY DEF Bids
<1>2. /\ phase = "WAITING" /\ p = current /\ BidAccepted(score) /\ pendingWinner = NoPlayer
      /\ bidTurns \in 0..2 /\ highestBid \in 0..2 /\ highestBidder \in Player \cup {NoPlayer}
      /\ baseScore = 1 /\ multiplier = 1 /\ (highestBidder = NoPlayer <=> highestBid = 0)
      /\ bidStart \in Player
  BY DEF Bids, OnTurn, RoomInvariant, TypeOK, BiddingType, BiddingInv, AuctionInv
<1>3. /\ highestBidder' = bidder /\ bidTurns' = bidTurns + 1
      /\ UNCHANGED <<dealt, bidStart, lastPattern, lastPlayer, multiplier,
                     landlordPlays, farmerPlays, roundScore, pendingWinner>>
  BY <1>1 DEF CallScore, dealVars, trickVars, countVars, resultVars, finishVars
<1>4. /\ bid \in 0..3 /\ bidder \in Player \cup {NoPlayer}
      /\ bidder = NoPlayer <=> bid = 0
  BY <1>2 DEF Player
<1>5. best = IF score > 0 THEN [bid |-> score, by |-> p] ELSE Top
  BY <1>2 DEF Top, Player
<1>6. Stage = "bidding" /\ (score = 0 \/ score >= Top.bid)
  BY <1>2 DEF Stage, Top, BidAccepted
<1>7. UNCHANGED Table
  BY <1>3 DEF Table
<1>8. CASE bid >= 3 \/ bidTurns + 1 >= 3
  <2>1. /\ phase' = "PLAYING" /\ landlord' = winner /\ current' = winner
        /\ highestBid' = (IF bid = 0 THEN 1 ELSE bid) /\ baseScore' = highestBid'
        /\ hand' = [hand EXCEPT ![winner] = @ \cup dealt.landlordCards]
    BY <1>2, <1>4, <1>8, <1>1 DEF CallScore, FinalizeBidding, TakeLandlordCards,
                            ScheduleNextDecision
  <2> HIDE DEF bid, bidder, winner, best
  <2>2. Stage' = "playing" /\ Stake' = highestBid'
    BY <2>1, <1>2, <1>3, <1>4 DEF Stage, Stake
  <2>3. Top' = best
    BY <2>1, <1>3, <1>4 DEF Top, best
  <2>4. best.bid = 3 \/ bidTurns' = 3
    BY <1>2, <1>3, <1>4, <1>8 DEF best
  <2>5. IF best.by = Game!Nobody THEN Game!TakeLand(bidStart, 1) ELSE Game!TakeLand(best.by, best.bid)
    BY <2>1, <2>2, <1>4 DEF Game!TakeLand, best, winner
  <2> QED
    BY <2>1, <2>2, <2>3, <2>4, <2>5, <1>2, <1>3, <1>5, <1>6, <1>7 DEF Game!Bid, AuctionInv
<1>9. CASE ~(bid >= 3 \/ bidTurns + 1 >= 3)
  <2>1. /\ highestBid' = bid /\ current' = NextPlayerIndex(p)
        /\ UNCHANGED <<phase, landlord, hand, baseScore>>
    BY <1>9, <1>1, <1>2 DEF CallScore, AdvanceTurn, ScheduleNextDecision
  <2> HIDE DEF bid, bidder, winner, best
  <2>2. UNCHANGED <<Stage, Stake>>
    BY <2>1, <1>3 DEF Stage, Stake
  <2>3. Top' = best
    BY <2>1, <1>3 DEF Top, best
  <2>4. ~(best.bid = 3 \/ bidTurns' = 3)
    BY <1>2, <1>3, <1>4, <1>9 DEF best
  <2>5. current' = Game!Left(p)
    BY <2>1 DEF NextPlayerIndex, Game!Left
  <2>6. AuctionInv'
    BY <2>1, <1>2, <1>3, <1>4 DEF AuctionInv
  <2> QED
    BY <2>1, <2>2, <2>3, <2>4, <2>5, <2>6, <1>2, <1>3, <1>5, <1>6, <1>7 DEF Game!Bid
<1> QED
  BY <1>8, <1>9

LEMMA PlayRefines ==
  ASSUME RoomInvariant, NEW p \in Player, NEW play \in Plays, Lays(p, play)
  PROVE  Game!Play(p, play) /\ AuctionInv'
<1>1. PICK auto \in BOOLEAN : PlayCards(p, play, auto)
  BY DEF Lays
<1>2. /\ phase = "PLAYING" /\ p = current /\ pendingWinner = NoPlayer
      /\ play.cards \subseteq hand[p] /\ CanBeat(play.pattern, lastPattern)
  BY DEF Lays, OnTurn, Legal
<1>3. /\ hand' = [hand EXCEPT ![p] = @ \ play.cards]
      /\ landlordPlays' = IF p = landlord THEN landlordPlays + 1 ELSE landlordPlays
      /\ farmerPlays' = IF p = landlord THEN farmerPlays ELSE farmerPlays + 1
      /\ multiplier' = IF play.pattern.type \in {"bomb", "rocket"} THEN 2 * multiplier ELSE multiplier
      /\ lastPattern' = play.pattern /\ lastPlayer' = p
      /\ UNCHANGED <<dealt, bidStart, phase, landlord, bidTurns, highestBid, highestBidder,
                     baseScore, roundScore>>
  BY <1>1 DEF PlayCards, dealVars, biddingVars, resultVars
<1>4. Table # Game!EmptyTable => Table.by # p /\ Game!CanBeat(play.pattern, Table.pattern)
  <2>1. lastPlayer # p
    BY <1>2, NextIsPlayer
       DEF RoomInvariant, TrickOrder, TypeOK, PlayType, Running, Finished, Player, NoPlayer
  <2> QED
    BY <2>1, <1>2, SameCards DEF Table
<1>5. Stage = "playing" /\ Table' = [by |-> p, pattern |-> play.pattern] /\ UNCHANGED Top
  BY <1>2, <1>3 DEF Stage, Table, Top
<1>6. Stake' = IF play.pattern.type \in {"bomb", "rocket"} THEN 2 * Stake ELSE Stake
  BY <1>3, StakeDoubles DEF Stake, RoomInvariant, TypeOK, BiddingType, PlayType
<1>7. IF play.cards = hand[p] THEN Stage' = "won" /\ current' = Game!Nobody
                              ELSE current' = Game!Left(p) /\ UNCHANGED Stage
  <2>1. CASE hand[p] = play.cards
    <3>1. pendingWinner' = p /\ current' = NoPlayer
      BY <2>1, <1>1 DEF PlayCards, ScheduleRoundFinish
    <3> QED
      BY <2>1, <3>1, <1>2, <1>3, NextIsPlayer DEF Stage, NoPlayer, Game!Nobody
  <2>2. CASE hand[p] # play.cards
    <3>1. pendingWinner' = pendingWinner /\ current' = NextPlayerIndex(p)
      BY <2>2, <1>1 DEF PlayCards, AdvanceTurn, ScheduleNextDecision, finishVars
    <3> QED
      BY <2>2, <3>1, <1>2, <1>3 DEF Stage, NextPlayerIndex, Game!Left
  <2> QED
    BY <2>1, <2>2
<1> QED
  BY <1>2, <1>3, <1>4, <1>5, <1>6, <1>7 DEF Game!Play, AuctionInv

LEMMA PassRefines ==
  ASSUME RoomInvariant, NEW p \in Player, Passes(p)
  PROVE  Game!Pass(p) /\ AuctionInv'
<1>1. PICK auto \in BOOLEAN : Pass(p, auto)
  BY DEF Passes
<1>2. /\ phase = "PLAYING" /\ p = current /\ pendingWinner = NoPlayer
      /\ lastPattern # NoPattern /\ lastPlayer # p
  BY DEF Passes, OnTurn, IsLeadTurnFor
<1>3. UNCHANGED <<dealt, bidStart, phase, hand, landlord, bidTurns, highestBid, highestBidder,
                  baseScore, multiplier, landlordPlays, farmerPlays, roundScore, pendingWinner>>
  BY <1>1 DEF Pass, dealVars, biddingVars, countVars, resultVars, finishVars
<1>4. /\ lastPlayer \in Player /\ passCount \in 0..1
      /\ current = (lastPlayer + 1 + passCount) % 3
  BY <1>2 DEF RoomInvariant, TypeOK, PlayType, TrickOrder, Running, Finished
<1>5. TrickOver <=> Game!Left(p) = lastPlayer
  BY <1>2, <1>4 DEF TrickOver, Game!Left, Player
<1>6. current' = Game!Left(p)
  BY <1>1, <1>5 DEF Pass, ScheduleNextDecision, AdvanceTurn, NextPlayerIndex, Game!Left
<1>7. Table' = IF Game!Left(p) = Table.by THEN Game!EmptyTable ELSE Table
  BY <1>1, <1>5 DEF Pass, ClearTable, Table, Game!EmptyTable, NoPlayer, Game!Nobody,
                    NoPattern, Game!NoPattern
<1>8. Stage = "playing" /\ UNCHANGED <<Stage, Top, Stake>>
  BY <1>2, <1>3 DEF Stage, Top, Stake
<1>9. Table # Game!EmptyTable /\ Table.by # p
  BY <1>2 DEF Table, Game!EmptyTable, NoPattern, Game!NoPattern
<1> QED
  BY <1>2, <1>3, <1>6, <1>7, <1>8, <1>9 DEF Game!Pass, AuctionInv

LEMMA SettleRefines ==
  ASSUME RoomInvariant, FinishDue, CompletePendingFinish
  PROVE  Game!Settle /\ AuctionInv'
<1> DEFINE w == pendingWinner
           unit == IF w = landlord THEN Stake' ELSE -Stake'
<1>1. /\ w \in Player /\ phase = "PLAYING" /\ landlord \in Player /\ landlordPlays \in Nat
      /\ landlordPlays # 0 /\ farmerPlays \in Nat
      /\ \A q \in Player : hand[q] = {} <=> q = w
      /\ baseScore \in 1..3 /\ multiplier \in Nat /\ multiplier > 0
  BY NextIsPlayer
     DEF RoomInvariant, TypeOK, BiddingType, PlayType, FinishType, FinishDue, WinnerInv,
         CardsAccounted, FinishOnce, Finished, LandlordLeads
<1>2. /\ phase' = "FINISHED" /\ spring' = Spring(w)
      /\ multiplier' = (IF Spring(w) THEN 2 * multiplier ELSE multiplier)
      /\ roundScore' = [p \in Player |-> Score(p, w, Stake')]
      /\ UNCHANGED <<dealt, bidStart, hand, landlord, bidTurns, highestBid, highestBidder,
                     baseScore, lastPattern, lastPlayer, landlordPlays, farmerPlays, current>>
  BY <1>1 DEF CompletePendingFinish, Stake, dealVars, biddingVars, trickVars
<1>3. Spring(w) <=> Game!ShutOut
  <2>1. RoomInvariant'
    BY FinishKeeps
  <2>2. SpringMeansShutOut' /\ Finished'
    BY <2>1, <1>2 DEF RoomInvariant, Finished
  <2> QED
    BY <2>2, <1>2 DEF SpringMeansShutOut, Game!ShutOut, Game!Seat, Player
<1>4. Stake' = IF Game!ShutOut THEN 2 * Stake ELSE Stake
  BY <1>1, <1>2, <1>3, StakeDoubles DEF Stake
<1>5. Stake' \in Nat /\ Stake' > 0
  <2>1. multiplier' \in Nat /\ multiplier' > 0
    BY <1>1, <1>2
  <2> QED
    BY <2>1, <1>1, <1>2, PositiveStake DEF Stake
<1>6. /\ unit \in {Stake', -Stake'} /\ (unit > 0) = (hand[landlord] = {})
      /\ roundScore' = [p \in Game!Seat |-> IF p = landlord THEN unit + unit ELSE -unit]
  <2>1. unit \in {Stake', -Stake'} /\ (unit > 0) = (hand[landlord] = {})
    BY <1>1, <1>5
  <2> DEFINE stake == Stake'
  <2>2. ASSUME NEW p \in Player
        PROVE  Score(p, w, stake) = IF p = landlord THEN unit + unit ELSE -unit
    <3>1. stake \in Nat /\ unit = IF w = landlord THEN stake ELSE -stake
      BY <1>5
    <3> HIDE DEF stake, unit, w
    <3> QED
      BY <3>1 DEF Score
  <2> QED
    BY <2>1, <2>2, <1>2 DEF Game!Seat, Player
<1>7. Stage = "won" /\ Stage' = "settled" /\ UNCHANGED <<Top, Table>>
  BY <1>1, <1>2, NextIsPlayer DEF Stage, Top, Table
<1> QED
  BY <1>2, <1>4, <1>6, <1>7 DEF Game!Settle, AuctionInv

LEMMA QuietRefines ==
  ASSUME AuctionInv, UNCHANGED gameVars
  PROVE  UNCHANGED Game!vars /\ AuctionInv'
  BY DEF gameVars, dealVars, biddingVars, trickVars, countVars, resultVars, Game!vars, Stage,
         Top, Table, Stake, AuctionInv

LEMMA StepRefines ==
  RoomInvariant /\ AuctionInv /\ [Next]_vars => [Game!Next]_Game!vars /\ AuctionInv'
<1> SUFFICES ASSUME RoomInvariant, AuctionInv, [Next]_vars
             PROVE  [Game!Next]_Game!vars /\ AuctionInv'
  OBVIOUS
<1> QED
  BY GameSteps, BidRefines, PlayRefines, PassRefines, SettleRefines, QuietRefines
     DEF Game!Next, Game!Seat, Player

LEMMA InitRefines == Init => Game!Init /\ AuctionInv
  BY DEF Init, StartGame, Game!Init, Stage, Top, Table, Stake, AuctionInv, NoPlayer,
         Game!Nobody, Game!EmptyTable, Game!Seat, Player, NoPattern, Game!NoPattern

\* Whatever clocks, trustees, bots, models and lost messages do, the players play one
\* round of the game.
THEOREM RoomPlaysTheGame == Spec => PlaysTheGame
  BY InitRefines, StepRefines, RoomSafe, PTL DEF Spec, PlaysTheGame, Game!Spec
=============================================================================
