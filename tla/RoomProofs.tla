----------------------------- MODULE RoomProofs -----------------------------
(***************************************************************************)
(* The safety properties of a room, for every deck, every set of shuffles, *)
(* every seating of bots and both modes.  RoomInvariant is the inductive   *)
(* invariant; one lemma per operation shows that the operation keeps it.   *)
(* The last part is about single steps: what the gate and the trustee may  *)
(* never do.                                                               *)
(***************************************************************************)
EXTENDS RoomProperties, CardPatternsProofs

\* While bidding nothing has been played, nobody has bid 3 and not all have bid; a
\* bid has a bidder.  Afterwards the stake is the final bid.
BiddingInv ==
  IF phase = "WAITING"
  THEN /\ hand = dealt.hand
       /\ bidTurns < 3 /\ highestBid < 3
       /\ pendingWinner = NoPlayer /\ lastPlayer = NoPlayer
  ELSE highestBid = baseScore

\* Nobody plays before the landlord has led.
LandlordLeads ==
  phase # "WAITING" /\ landlordPlays = 0 =>
    lastPlayer = NoPlayer /\ farmerPlays = 0 /\ current = landlord /\ pendingWinner = NoPlayer

\* The player whose last card is on the table is the one the finish waits for.
WinnerInv ==
  /\ pendingWinner # NoPlayer => phase = "PLAYING" /\ lastPlayer = pendingWinner
  /\ Finished => lastPlayer # NoPlayer

\* A gate has an action and a time-out, or neither.
GateInv == gate = "none" <=> gateAction = NoAction

RoomInvariant ==
  /\ TypeOK
  /\ AutoTurnScheduled /\ TrickOrder /\ CardsAccounted /\ FinishOnce
  /\ BiddingInv /\ LandlordLeads /\ WinnerInv /\ GateInv
  /\ Settlement /\ SpringMeansShutOut

-----------------------------------------------------------------------------
\* A play is not empty and is a set of cards with its pattern.
LEMMA PlaysType ==
  ASSUME NEW play \in Plays
  PROVE  /\ play.cards \in SUBSET Deck /\ play.cards # {}
         /\ play.pattern \in Pattern /\ play.pattern # NoPattern
<1>1. PICK s \in SUBSET Deck : /\ play = [cards |-> s, pattern |-> EvaluatePattern(s)]
                              /\ EvaluatePattern(s) # Invalid
  BY DEF Plays
<1>2. NoPattern \notin Pattern
  BY DEF NoPattern, Pattern, PatternTypes
<1> QED
  BY <1>1, <1>2, EvaluatePatternType

\* What a shuffle gives: no empty hand, and cards of the deck only.
LEMMA DealType ==
  ASSUME NEW d \in Deals
  PROVE  /\ d.hand \in [Player -> SUBSET Deck]
         /\ d.landlordCards \in SUBSET Deck
         /\ \A p \in Player : d.hand[p] # {}
  BY RoomAssumption DEF Deal, Shared

\* Announcing an action keeps the gate well formed.
LEMMA GateAfterAppend ==
  ASSUME AppendAction
  PROVE  gateAction' \in ActionIds \cup {NoAction} /\ gate' \in Deadline /\ GateInv'
  BY RoomAssumption DEF AppendAction, ClearPresentationGate, GateInv, Deadline

\* So does the time-out check of TickManaged.
LEMMA GateAfterTimeOut ==
  ASSUME GateType, GateInv, ClearTimedOutGate
  PROVE  /\ gateAction' \in ActionIds \cup {NoAction} /\ gate' \in Deadline /\ GateInv'
         /\ gate = "none" \/ gate = "due" => gate' = "none" /\ gateAction' = NoAction
  BY DEF ClearTimedOutGate, ClearPresentationGate, GateInv, Deadline, gateVars, GateType

LEMMA NextIsPlayer ==
  ASSUME NEW p \in Player
  PROVE  NextPlayerIndex(p) \in Player /\ NoPlayer \notin Player
  BY DEF Player, NextPlayerIndex, NoPlayer

\* A player's own move and a driven one leave humans managed only.
LEMMA ManagedAfterMove ==
  ASSUME TurnType, NEW p, NEW auto, Unmanage(p, auto)
  PROVE  managed' \subseteq Humans
  BY DEF TurnType, Unmanage

-----------------------------------------------------------------------------
\* StartGame establishes the invariant.
LEMMA StartGameInit == Init => RoomInvariant
<1> SUFFICES ASSUME Init PROVE RoomInvariant
  OBVIOUS
<1> USE DEF Init, StartGame
<1>1. dealt \in Deals /\ dealt.hand \in [Player -> SUBSET Deck] /\ \A p \in Player : dealt.hand[p] # {}
  BY DealType
<1>2. bidStart \in Player
  BY RoomAssumption DEF FirstBidders, Audience, Player, Humans
<1>3. TypeOK
  <2>1. BiddingType
    BY <1>1, <1>2 DEF BiddingType
  <2>2. PlayType
    BY <1>1 DEF PlayType
  <2>3. TurnType
    BY <1>2 DEF TurnType, Deadline
  <2>4. FinishType
    <3>1. roundScore \in [Player -> Int]
      OBVIOUS
    <3> QED
      BY <3>1 DEF FinishType, Deadline
  <2>5. GateType
    BY DEF GateType, Deadline
  <2> QED
    BY <2>1, <2>2, <2>3, <2>4, <2>5 DEF TypeOK
<1>4. AutoTurnScheduled
  BY DEF AutoTurnScheduled, Driven, Running, Finished
<1>5. TrickOrder
  BY DEF TrickOrder
<1>6. CardsAccounted
  BY <1>1 DEF CardsAccounted, Given, Laid, NoPlayer, Player
<1>7. FinishOnce
  BY <1>1, <1>2 DEF FinishOnce, Finished, Running, NoPlayer, Player
<1>8. BiddingInv /\ LandlordLeads /\ WinnerInv /\ GateInv
  BY DEF BiddingInv, LandlordLeads, WinnerInv, GateInv, Finished
<1>9. Settlement /\ SpringMeansShutOut
  BY DEF Settlement, SpringMeansShutOut, Finished
<1> QED
  BY <1>3, <1>4, <1>5, <1>6, <1>7, <1>8, <1>9 DEF RoomInvariant

-----------------------------------------------------------------------------
\* A round that is not over has no result yet.
LEMMA StillRunning ==
  ASSUME phase' # "FINISHED"
  PROVE  Settlement' /\ SpringMeansShutOut'
  BY DEF Settlement, SpringMeansShutOut, Finished

\* A step of the clocks, the gate, the trustee or the messages.
gameVars == <<dealVars, phase, hand, landlord, biddingVars, trickVars, countVars, resultVars,
              current, pendingWinner>>

\* Such a step keeps the invariant when it keeps what ties those to the game.
LEMMA QuietStepKeeps ==
  ASSUME RoomInvariant, UNCHANGED gameVars,
         managed' \subseteq Humans, idle' \in BOOLEAN, decision' \in Deadline,
         finish' \in Deadline, finish' = "none" <=> finish = "none",
         GateType', GateInv', AutoTurnScheduled',
         ~Running => decision' = "none",
         Finished => gateAction' = NoAction /\ gate' = "none"
  PROVE  RoomInvariant'
<1> USE DEF gameVars, dealVars, biddingVars, trickVars, countVars, resultVars
<1>1. TypeOK'
  BY DEF RoomInvariant, TypeOK, BiddingType, PlayType, TurnType, FinishType
<1>2. TrickOrder' /\ CardsAccounted'
  BY DEF RoomInvariant, TrickOrder, CardsAccounted, Running, Finished, Given, Laid
<1>3. FinishOnce'
  BY DEF RoomInvariant, FinishOnce, Running, Finished
<1>4. BiddingInv' /\ LandlordLeads' /\ WinnerInv'
  BY DEF RoomInvariant, BiddingInv, LandlordLeads, WinnerInv, Finished
<1>5. Settlement' /\ SpringMeansShutOut'
  BY DEF RoomInvariant, Settlement, SpringMeansShutOut, Finished
<1> QED
  BY <1>1, <1>2, <1>3, <1>4, <1>5 DEF RoomInvariant

-----------------------------------------------------------------------------
\* CallScore keeps the invariant, whoever calls it.
LEMMA CallScoreKeeps ==
  ASSUME RoomInvariant, NEW p \in Player, NEW score \in 0..3, NEW auto \in BOOLEAN,
         phase = "WAITING", OnTurn(p), BidAccepted(score), CallScore(p, score, auto)
  PROVE  RoomInvariant'
<1> DEFINE bid == IF score > 0 THEN score ELSE highestBid
           bidder == IF score > 0 THEN p ELSE highestBidder
           winner == IF bidder = NoPlayer THEN bidStart ELSE bidder
<1>1. /\ TypeOK /\ BiddingInv /\ CardsAccounted /\ TrickOrder /\ FinishOnce
      /\ BiddingType /\ PlayType /\ TurnType /\ FinishType /\ GateType
  BY DEF RoomInvariant, TypeOK
<1>2. /\ dealt \in Deals /\ dealt.hand \in [Player -> SUBSET Deck]
      /\ dealt.landlordCards \in SUBSET Deck /\ \A q \in Player : dealt.hand[q] # {}
  BY <1>1, DealType DEF BiddingType
<1>3. bid \in 0..3 /\ bidder \in Player \cup {NoPlayer} /\ winner \in Player
  BY <1>1 DEF BiddingType
<1>4. /\ highestBidder' = bidder
      /\ bidTurns' = bidTurns + 1 /\ bidTurns' \in 0..3
      /\ UNCHANGED <<dealt, bidStart, lastPattern, lastPlayer, passCount, multiplier,
                     landlordPlays, farmerPlays, spring, roundScore, pendingWinner, finish,
                     presented, acks>>
  BY <1>1 DEF CallScore, BiddingType, BiddingInv, dealVars, trickVars, countVars,
              resultVars, finishVars, clientVars
<1>5. managed' \subseteq Humans
  BY <1>1, ManagedAfterMove DEF CallScore
<1>6. gateAction' \in ActionIds \cup {NoAction} /\ gate' \in Deadline /\ GateInv'
  BY GateAfterAppend DEF CallScore
<1>7. FinishType' /\ GateType'
  BY <1>1, <1>4, <1>6 DEF FinishType, GateType
<1>8. CASE bid >= 3 \/ bidTurns + 1 >= 3
  <2>1. /\ phase' = "PLAYING" /\ landlord' = winner /\ current' = winner /\ idle' = FALSE
        /\ highestBid' = (IF bid = 0 THEN 1 ELSE bid) /\ baseScore' = highestBid'
        /\ hand' = [hand EXCEPT ![winner] = @ \cup dealt.landlordCards]
        /\ decision' = IF winner \in Bots \cup managed' THEN "waiting" ELSE "none"
    BY <1>1, <1>3, <1>8 DEF CallScore, BiddingType, FinalizeBidding, TakeLandlordCards,
                            ScheduleNextDecision
  <2> HIDE DEF winner, bidder, bid
  <2>2. highestBid' = baseScore' /\ baseScore' \in 1..3
    BY <2>1, <1>3
  <2>3. hand = dealt.hand
    BY <1>1 DEF BiddingInv
  <2>4. hand' \in [Player -> SUBSET Deck] /\ \A q \in Player : hand'[q] # {}
    BY <2>1, <2>3, <1>2, <1>3
  <2>5. BiddingType' /\ PlayType' /\ TurnType'
    <3>1. BiddingType'
      BY <2>2, <1>1, <1>3, <1>4 DEF BiddingType
    <3>2. PlayType'
      BY <2>1, <2>4, <1>1, <1>3, <1>4 DEF PlayType
    <3>3. TurnType'
      BY <2>1, <1>3, <1>5 DEF TurnType, Deadline
    <3> QED
      BY <3>1, <3>2, <3>3
  <2>6. AutoTurnScheduled'
    BY <2>1 DEF AutoTurnScheduled, Driven
  <2>7. TrickOrder'
    BY <1>1, <1>4 DEF TrickOrder, BiddingInv
  <2>8. CardsAccounted'
    BY <2>1, <2>3, <1>1, <1>2, <1>3, <1>4, NextIsPlayer DEF CardsAccounted, Given, Laid
  <2>9. FinishOnce'
    BY <2>1, <2>4, <1>1, <1>3, <1>4, NextIsPlayer DEF FinishOnce, BiddingInv, Running, Finished
  <2>10. BiddingInv' /\ LandlordLeads' /\ WinnerInv'
    BY <2>1, <1>1, <1>4 DEF BiddingInv, LandlordLeads, WinnerInv, Finished, CardsAccounted
  <2>11. Settlement' /\ SpringMeansShutOut'
    BY <2>1, StillRunning
  <2> QED
    BY <2>5, <2>6, <2>7, <2>8, <2>9, <2>10, <2>11, <1>6, <1>7 DEF RoomInvariant, TypeOK
<1>9. CASE ~(bid >= 3 \/ bidTurns + 1 >= 3)
  <2>1. /\ highestBid' = bid /\ current' = NextPlayerIndex(p) /\ idle' = FALSE
        /\ decision' = IF current' \in Bots \cup managed' THEN "waiting" ELSE "none"
        /\ UNCHANGED <<phase, landlord, hand, baseScore>>
    BY <1>9, <1>1, <1>3 DEF CallScore, BiddingType, AdvanceTurn, ScheduleNextDecision
  <2> HIDE DEF winner, bidder, bid
  <2>2. current' \in Player /\ current' # NoPlayer
    BY <2>1, NextIsPlayer
  <2>3. BiddingType' /\ PlayType' /\ TurnType'
    BY <2>1, <2>2, <1>1, <1>3, <1>4, <1>5 DEF BiddingType, PlayType, TurnType, Deadline
  <2>4. AutoTurnScheduled' /\ TrickOrder'
    BY <2>1, <1>1, <1>4 DEF AutoTurnScheduled, Driven, TrickOrder, BiddingInv
  <2>5. CardsAccounted'
    BY <2>1, <1>1, <1>4 DEF CardsAccounted, Given, Laid
  <2>6. FinishOnce'
    BY <2>1, <2>2, <1>1, <1>2, <1>4, NextIsPlayer DEF FinishOnce, BiddingInv, Running, Finished
  <2>7. BiddingInv' /\ LandlordLeads' /\ WinnerInv'
    BY <2>1, <1>1, <1>3, <1>4, <1>9 DEF BiddingInv, LandlordLeads, WinnerInv, Finished, BiddingType
  <2>8. Settlement' /\ SpringMeansShutOut'
    BY <2>1, StillRunning
  <2> QED
    BY <2>3, <2>4, <2>5, <2>6, <2>7, <2>8, <1>6, <1>7 DEF RoomInvariant, TypeOK
<1> QED
  BY <1>8, <1>9

-----------------------------------------------------------------------------
\* PlayCards keeps the invariant.
LEMMA PlayCardsKeeps ==
  ASSUME RoomInvariant, NEW p \in Player, NEW play \in Plays, NEW auto \in BOOLEAN,
         phase = "PLAYING", OnTurn(p), Legal(p, play), PlayCards(p, play, auto)
  PROVE  RoomInvariant'
<1>1. /\ TypeOK /\ BiddingInv /\ CardsAccounted /\ TrickOrder /\ FinishOnce /\ LandlordLeads
      /\ BiddingType /\ PlayType /\ TurnType /\ FinishType /\ GateType
  BY DEF RoomInvariant, TypeOK
<1>2. /\ play.cards \in SUBSET Deck /\ play.cards # {}
      /\ play.pattern \in Pattern /\ play.pattern # NoPattern
  BY PlaysType
<1>3. /\ hand' = [hand EXCEPT ![p] = @ \ play.cards]
      /\ landlordPlays' = IF p = landlord THEN landlordPlays + 1 ELSE landlordPlays
      /\ farmerPlays' = IF p = landlord THEN farmerPlays ELSE farmerPlays + 1
      /\ multiplier' = multiplier \/ multiplier' = 2 * multiplier
      /\ lastPattern' = play.pattern /\ lastPlayer' = p /\ passCount' = 0
      /\ UNCHANGED <<dealt, bidStart, phase, landlord, bidTurns, highestBid, highestBidder,
                     baseScore, spring, roundScore, presented, acks>>
  BY DEF PlayCards, dealVars, biddingVars, resultVars, clientVars
<1>4. managed' \subseteq Humans
  BY <1>1, ManagedAfterMove DEF PlayCards
<1>5. gateAction' \in ActionIds \cup {NoAction} /\ gate' \in Deadline /\ GateInv'
  BY GateAfterAppend DEF PlayCards
<1>6. hand' \in [Player -> SUBSET Deck] /\ hand'[p] = hand[p] \ play.cards
      /\ \A q \in Player \ {p} : hand'[q] = hand[q]
  BY <1>1, <1>2, <1>3 DEF PlayType
<1>7. play.cards \subseteq hand[p] /\ p = current /\ pendingWinner = NoPlayer /\ p # NoPlayer
  BY NextIsPlayer DEF Legal, OnTurn
<1>8. \A q \in Player : hand[q] # {}
  BY <1>1, <1>7, NextIsPlayer DEF FinishOnce, Finished
<1>9. BiddingType' /\ GateType'
  BY <1>1, <1>3, <1>5 DEF BiddingType, GateType
<1>10. PlayType'
  <2>1. multiplier' \in Nat \ {0} /\ landlordPlays' \in Nat /\ farmerPlays' \in Nat
    BY <1>1, <1>3 DEF PlayType
  <2> QED
    BY <2>1, <1>1, <1>2, <1>3, <1>6 DEF PlayType
<1>11. CardsAccounted'
  <2>1. landlord \in Player /\ \A q \in Player : hand[q] \subseteq Given(q) /\ Given(q)' = Given(q)
    BY <1>1, <1>3 DEF CardsAccounted, PlayType, Given
  <2>2. \A q \in Player : hand'[q] \subseteq Given(q)'
    BY <2>1, <1>6
  <2>3. /\ Laid(p)' = Laid(p) \cup play.cards
        /\ \A q \in Player \ {p} : Laid(q)' = Laid(q)
    BY <2>1, <1>6, <1>7 DEF Laid
  <2>4. landlordPlays' = 0 <=> (\A q \in Player : q = landlord => Laid(q)' = {})
    BY <2>1, <2>3, <1>1, <1>2, <1>3 DEF CardsAccounted, PlayType
  <2>5. farmerPlays' = 0 <=> (\A q \in Player \ {landlord} : Laid(q)' = {})
    BY <2>1, <2>3, <1>1, <1>2, <1>3 DEF CardsAccounted, PlayType
  <2> QED
    BY <2>1, <2>2, <2>4, <2>5, <1>3, NextIsPlayer DEF CardsAccounted
<1>12. BiddingInv' /\ LandlordLeads'
  BY <1>1, <1>3, <1>7 DEF BiddingInv, LandlordLeads, PlayType
<1>13. Settlement' /\ SpringMeansShutOut'
  BY <1>3, StillRunning
<1>14. CASE hand[p] = play.cards
  <2>1. /\ pendingWinner' = p /\ finish' = "waiting"
        /\ current' = NoPlayer /\ idle' = FALSE /\ decision' = "none"
    BY <1>14 DEF PlayCards, ScheduleRoundFinish
  <2>2. TurnType' /\ FinishType'
    BY <2>1, <1>1, <1>3, <1>4 DEF TurnType, FinishType, Deadline
  <2>3. ~Running'
    BY <2>1, <1>7 DEF Running
  <2>4. AutoTurnScheduled' /\ TrickOrder' /\ WinnerInv'
    BY <2>1, <2>3, <1>2, <1>3, <1>7 DEF AutoTurnScheduled, TrickOrder, WinnerInv, Finished
  <2>5. FinishOnce'
    BY <2>1, <2>3, <1>3, <1>6, <1>7, <1>8, <1>14 DEF FinishOnce, Finished
  <2> QED
    BY <2>2, <2>4, <2>5, <1>5, <1>9, <1>10, <1>11, <1>12, <1>13 DEF RoomInvariant, TypeOK
<1>15. CASE hand[p] # play.cards
  <2>1. /\ UNCHANGED <<pendingWinner, finish>>
        /\ current' = NextPlayerIndex(p) /\ idle' = FALSE
        /\ decision' = IF current' \in Bots \cup managed' THEN "waiting" ELSE "none"
    BY <1>15 DEF PlayCards, AdvanceTurn, ScheduleNextDecision, finishVars
  <2>2. current' \in Player /\ current' # NoPlayer
    BY <2>1, NextIsPlayer
  <2>3. TurnType' /\ FinishType'
    BY <2>1, <2>2, <1>1, <1>3, <1>4 DEF TurnType, FinishType, Deadline
  <2>4. AutoTurnScheduled' /\ WinnerInv'
    BY <2>1, <1>3, <1>7 DEF AutoTurnScheduled, Driven, WinnerInv, Finished
  <2>5. TrickOrder'
    <3>1. NextPlayerIndex(p) = (p + 1 + 0) % 3
      BY DEF NextPlayerIndex, Player
    <3> QED
      BY <2>1, <3>1, <1>2, <1>3, <1>7 DEF TrickOrder
  <2>6. \A q \in Player : hand'[q] # {}
    BY <1>6, <1>7, <1>8, <1>15
  <2>7. FinishOnce'
    BY <2>1, <2>2, <2>6, <1>1, <1>3, <1>7, NextIsPlayer DEF FinishOnce, Finished, Running
  <2> QED
    BY <2>3, <2>4, <2>5, <2>7, <1>5, <1>9, <1>10, <1>11, <1>12, <1>13 DEF RoomInvariant, TypeOK
<1> QED
  BY <1>14, <1>15

\* Pass keeps the invariant.
LEMMA PassKeeps ==
  ASSUME RoomInvariant, NEW p \in Player, NEW auto \in BOOLEAN,
         phase = "PLAYING", OnTurn(p), ~IsLeadTurnFor(p), Pass(p, auto)
  PROVE  RoomInvariant'
<1>1. /\ TypeOK /\ BiddingInv /\ CardsAccounted /\ TrickOrder /\ FinishOnce /\ LandlordLeads
      /\ BiddingType /\ PlayType /\ TurnType /\ FinishType /\ GateType
  BY DEF RoomInvariant, TypeOK
<1>2. UNCHANGED <<dealt, bidStart, phase, hand, landlord, bidTurns, highestBid, highestBidder,
                  baseScore, multiplier, landlordPlays, farmerPlays, spring, roundScore,
                  pendingWinner, finish, presented, acks>>
  BY DEF Pass, dealVars, biddingVars, countVars, resultVars, finishVars, clientVars
<1>3. managed' \subseteq Humans
  BY <1>1, ManagedAfterMove DEF Pass
<1>4. gateAction' \in ActionIds \cup {NoAction} /\ gate' \in Deadline /\ GateInv'
  BY GateAfterAppend DEF Pass
<1>5. /\ p = current /\ pendingWinner = NoPlayer /\ p # NoPlayer /\ Running
      /\ lastPattern # NoPattern /\ lastPlayer \in Player /\ lastPlayer # NoPlayer
  BY <1>1, NextIsPlayer DEF OnTurn, IsLeadTurnFor, TrickOrder, PlayType, Running, Finished
<1>6. p = (lastPlayer + 1 + passCount) % 3
  BY <1>1, <1>5 DEF TrickOrder
<1>7. /\ lastPattern' \in Pattern \cup {NoPattern} /\ lastPlayer' \in Player \cup {NoPlayer}
      /\ passCount' \in 0..1 /\ current' \in Player /\ idle' = FALSE
      /\ decision' = IF current' \in Bots \cup managed' THEN "waiting" ELSE "none"
      /\ TrickOrder'
  <2>1. CASE TrickOver
    <3>1. /\ lastPattern' = NoPattern /\ lastPlayer' = NoPlayer /\ passCount' = 0
          /\ current' = lastPlayer /\ idle' = FALSE
          /\ decision' = IF current' \in Bots \cup managed' THEN "waiting" ELSE "none"
      BY <2>1 DEF Pass, ClearTable, ScheduleNextDecision
    <3> QED
      BY <3>1, <1>5 DEF TrickOrder
  <2>2. CASE ~TrickOver
    <3>1. /\ passCount' = passCount + 1 /\ UNCHANGED <<lastPattern, lastPlayer>>
          /\ current' = NextPlayerIndex(p) /\ idle' = FALSE
          /\ decision' = IF current' \in Bots \cup managed' THEN "waiting" ELSE "none"
      BY <2>2 DEF Pass, AdvanceTurn, ScheduleNextDecision
    <3>2. passCount = 0 /\ passCount' = 1
      BY <2>2, <3>1, <1>1 DEF TrickOver, PlayType
    <3>3. current' = (lastPlayer + 1 + 1) % 3
      <4>1. lastPlayer \in 0..2 /\ p = (lastPlayer + 1 + 0) % 3 /\ current' = (p + 1) % 3
        BY <3>1, <3>2, <1>5, <1>6 DEF NextPlayerIndex, Player
      <4>2. CASE lastPlayer = 0
        BY <4>1, <4>2
      <4>3. CASE lastPlayer = 1
        BY <4>1, <4>3
      <4>4. CASE lastPlayer = 2
        BY <4>1, <4>4
      <4> QED
        BY <4>1, <4>2, <4>3, <4>4
    <3>4. TrickOrder'
      BY <3>1, <3>2, <3>3, <1>5 DEF TrickOrder
    <3> QED
      BY <3>1, <3>2, <3>4, <1>1, <1>5, NextIsPlayer DEF PlayType
  <2> QED
    BY <2>1, <2>2
<1>8. BiddingType' /\ FinishType' /\ GateType'
  BY <1>1, <1>2, <1>4 DEF BiddingType, FinishType, GateType
<1>9. PlayType' /\ TurnType'
  BY <1>1, <1>2, <1>3, <1>7 DEF PlayType, TurnType, Deadline
<1>10. AutoTurnScheduled'
  BY <1>7 DEF AutoTurnScheduled, Driven
<1>11. CardsAccounted'
  BY <1>1, <1>2 DEF CardsAccounted, Given, Laid
<1>12. FinishOnce'
  BY <1>1, <1>2, <1>5, <1>7, NextIsPlayer DEF FinishOnce, Running, Finished
<1>13. BiddingInv' /\ LandlordLeads' /\ WinnerInv'
  BY <1>1, <1>2, <1>5 DEF BiddingInv, LandlordLeads, WinnerInv, Finished
<1>14. Settlement' /\ SpringMeansShutOut'
  BY <1>2, StillRunning
<1> QED
  BY <1>4, <1>7, <1>8, <1>9, <1>10, <1>11, <1>12, <1>13, <1>14 DEF RoomInvariant, TypeOK

LEMMA PositiveStake ==
  ASSUME NEW score \in 1..3, NEW m \in Nat, m > 0
  PROVE  score * m \in Nat /\ score * m > 0
<1>1. score = 1 \/ score = 2 \/ score = 3
  OBVIOUS
<1>2. 1 * m = m /\ 2 * m = m + m /\ 3 * m = m + m + m
  OBVIOUS
<1> QED
  BY <1>1, <1>2

\* CompletePendingFinish keeps the invariant: it settles the round the winner ended.
LEMMA FinishKeeps ==
  ASSUME RoomInvariant, FinishDue, CompletePendingFinish
  PROVE  RoomInvariant'
<1> DEFINE w == pendingWinner
           stake == baseScore * multiplier'
<1>1. /\ TypeOK /\ BiddingInv /\ CardsAccounted /\ TrickOrder /\ FinishOnce
      /\ LandlordLeads /\ WinnerInv /\ GateInv
      /\ BiddingType /\ PlayType /\ TurnType /\ FinishType /\ GateType
  BY DEF RoomInvariant, TypeOK
<1>2. /\ w \in Player /\ phase = "PLAYING" /\ lastPlayer = w /\ landlord \in Player
      /\ landlord # NoPlayer /\ ~Running
      /\ \A q \in Player : hand[q] = {} <=> q = w
  BY <1>1, NextIsPlayer
     DEF FinishDue, FinishType, WinnerInv, CardsAccounted, PlayType, FinishOnce, Finished, Running
<1>3. /\ pendingWinner' = NoPlayer /\ finish' = "none" /\ decision' = "none"
      /\ phase' = "FINISHED" /\ spring' = Spring(w)
      /\ multiplier' = (IF Spring(w) THEN 2 * multiplier ELSE multiplier)
      /\ roundScore' = [p \in Player |-> Score(p, w, stake)]
      /\ UNCHANGED <<dealt, bidStart, hand, landlord, managed, bidTurns, highestBid,
                     highestBidder, baseScore, lastPattern, lastPlayer, passCount,
                     landlordPlays, farmerPlays, current, idle, presented, acks>>
  BY <1>2 DEF CompletePendingFinish, dealVars, biddingVars, trickVars, clientVars
<1>4. gateAction' = NoAction /\ gate' = "none" /\ GateInv'
  BY <1>1, GateAfterTimeOut DEF CompletePendingFinish, FinishDue, PresentationGateOpen,
                                GateType, Deadline
<1>5. multiplier' \in Nat \ {0} /\ stake \in Nat /\ stake > 0
  <2>1. multiplier' \in Nat /\ multiplier' > 0
    BY <1>1, <1>3 DEF PlayType
  <2>2. \A m \in Nat : m > 0 => baseScore * m \in Nat /\ baseScore * m > 0
    BY <1>1, PositiveStake DEF BiddingType
  <2>3. stake \in Nat /\ stake > 0
    BY <2>1, <2>2
  <2> QED
    BY <2>1, <2>3
<1> HIDE DEF stake
<1>6. \A p \in Player :
        roundScore'[p] = IF p = landlord THEN IF w = landlord THEN 2 * stake ELSE -(2 * stake)
                                         ELSE IF w = landlord THEN -stake ELSE stake
  BY <1>2, <1>3 DEF Score
<1>7. roundScore' \in [Player -> Int]
  <2>1. \A p \in Player : Score(p, w, stake) \in Int
    BY <1>5 DEF Score
  <2> QED
    BY <2>1, <1>3
<1>8. TypeOK'
  <2>1. BiddingType' /\ PlayType'
    BY <1>1, <1>3, <1>5 DEF BiddingType, PlayType
  <2>2. TurnType' /\ GateType'
    BY <1>1, <1>3, <1>4 DEF TurnType, GateType, Deadline
  <2>3. Spring(w) \in BOOLEAN
    <3>1. CASE w = landlord
      BY <3>1 DEF Spring
    <3>2. CASE w # landlord
      BY <3>2 DEF Spring
    <3> QED
      BY <3>1, <3>2
  <2>4. FinishType'
    BY <2>3, <1>3, <1>7 DEF FinishType, Deadline
  <2> QED
    BY <2>1, <2>2, <2>4 DEF TypeOK
<1>9. ~Running' /\ current' = NoPlayer
  BY <1>1, <1>2, <1>3 DEF Running, Finished, FinishOnce
<1>10. AutoTurnScheduled' /\ TrickOrder'
  BY <1>1, <1>3, <1>9 DEF AutoTurnScheduled, TrickOrder
<1>11. CardsAccounted'
  BY <1>1, <1>2, <1>3 DEF CardsAccounted, Given, Laid
<1>12. FinishOnce'
  BY <1>2, <1>3, <1>4, <1>9, NextIsPlayer DEF FinishOnce, Finished
<1>13. landlordPlays # 0 /\ w # NoPlayer
  BY <1>1, <1>2, NextIsPlayer DEF LandlordLeads
<1>14. BiddingInv' /\ LandlordLeads' /\ WinnerInv'
  BY <1>1, <1>2, <1>3, <1>13 DEF BiddingInv, LandlordLeads, WinnerInv, Finished
<1>15. Settlement'
  <2>1. \A p \in Player \ {landlord} : roundScore'[landlord] = -2 * roundScore'[p]
    BY <1>2, <1>5, <1>6
  <2>2. roundScore'[landlord] > 0 <=> hand[landlord] = {}
    BY <1>2, <1>5, <1>6
  <2>3. roundScore'[0] + roundScore'[1] + roundScore'[2] = 0
    <3>1. landlord = 0 \/ landlord = 1 \/ landlord = 2
      BY <1>2 DEF Player
    <3>2. 0 \in Player /\ 1 \in Player /\ 2 \in Player
      BY DEF Player
    <3>3. CASE landlord = 0
      BY <3>2, <3>3, <1>5, <1>6
    <3>4. CASE landlord = 1
      BY <3>2, <3>4, <1>5, <1>6
    <3>5. CASE landlord = 2
      BY <3>2, <3>5, <1>5, <1>6
    <3> QED
      BY <3>1, <3>3, <3>4, <3>5
  <2> QED
    BY <2>1, <2>2, <2>3, <1>2, <1>3 DEF Settlement
<1>16. SpringMeansShutOut'
  <2>1. CASE w = landlord
    <3>1. \A q \in Player \ {landlord} : Laid(q) = {} <=> hand[q] = dealt.hand[q]
      BY <1>1 DEF CardsAccounted, Laid, Given
    <3> QED
      BY <2>1, <3>1, <1>1, <1>2, <1>3 DEF SpringMeansShutOut, Spring, CardsAccounted
  <2>2. CASE w # landlord
    <3>1. spring' <=> landlordPlays <= 1
      BY <2>2, <1>3, Zenon DEF Spring
    <3>2. landlordPlays <= 1 <=> landlordPlays = 1
      BY <1>1, <1>13 DEF PlayType
    <3>3. landlordPlays' = landlordPlays /\ ~(hand'[landlord'] = {})
      BY <2>2, <1>2, <1>3
    <3> QED
      BY <3>1, <3>2, <3>3, Zenon DEF SpringMeansShutOut
  <2> QED
    BY <2>1, <2>2
<1> QED
  BY <1>4, <1>8, <1>10, <1>11, <1>12, <1>14, <1>15, <1>16 DEF RoomInvariant

-----------------------------------------------------------------------------
\* What a client sends keeps the invariant.
LEMMA ClientKeeps == RoomInvariant /\ Client => RoomInvariant'
<1> SUFFICES ASSUME RoomInvariant, Client PROVE RoomInvariant'
  OBVIOUS
<1> USE DEF gameVars
<1>1. /\ AutoTurnScheduled /\ FinishOnce /\ GateInv
      /\ TurnType /\ FinishType /\ GateType
  BY DEF RoomInvariant, TypeOK
<1>2. Humans \subseteq Player
  BY DEF Humans
<1>3. ASSUME NEW p \in Humans, NEW score \in 0..3, ClientBids(p, score)
      PROVE  RoomInvariant'
  BY <1>2, <1>3, CallScoreKeeps DEF ClientBids
<1>4. ASSUME NEW p \in Humans, NEW play \in Plays, ClientPlays(p, play)
      PROVE  RoomInvariant'
  BY <1>2, <1>4, PlayCardsKeeps DEF ClientPlays
<1>5. ASSUME NEW p \in Humans, ClientPlaysInvalid(p)
      PROVE  RoomInvariant'
  <2>1. /\ UNCHANGED gameVars /\ UNCHANGED <<idle, decision, finish, gateAction, gate, presented, acks>>
        /\ managed' = managed \ {p}
    BY <1>5 DEF ClientPlaysInvalid, turnVars, finishVars, gateVars, clientVars
  <2>2. AutoTurnScheduled' /\ GateType' /\ GateInv'
    BY <2>1, <1>1 DEF AutoTurnScheduled, Running, Finished, Driven, GateType, GateInv
  <2> QED
    BY <2>1, <2>2, <1>1, QuietStepKeeps DEF TurnType, FinishType, FinishOnce
<1>6. ASSUME NEW p \in Humans, ClientPasses(p)
      PROVE  RoomInvariant'
  BY <1>2, <1>6, PassKeeps DEF ClientPasses
<1>7. ASSUME NEW p \in Humans, NEW on \in BOOLEAN, SetManaged(p, on)
      PROVE  RoomInvariant'
  <2>1. /\ Running /\ UNCHANGED gameVars /\ UNCHANGED <<finish, presented, acks>>
        /\ managed' = IF on THEN managed \cup {p} ELSE managed \ {p}
        /\ IF p = current THEN idle' = FALSE /\ decision' = (IF on THEN "waiting" ELSE "none")
                          ELSE UNCHANGED <<idle, decision>>
    BY <1>7 DEF SetManaged, Running, finishVars, clientVars
  <2>2. gateAction' \in ActionIds \cup {NoAction} /\ gate' \in Deadline /\ GateInv'
    BY <1>7, GateAfterAppend DEF SetManaged
  <2>3. p \in Player /\ p \notin Bots /\ managed' \subseteq Humans
    BY <2>1, <1>1 DEF Humans, TurnType
  <2>4. AutoTurnScheduled'
    BY <2>1, <2>3, <1>1 DEF AutoTurnScheduled, Running, Finished, Driven
  <2>5. GateType'
    BY <2>1, <2>2, <1>1 DEF GateType
  <2>6. idle' \in BOOLEAN /\ decision' \in Deadline
    BY <2>1, <1>1 DEF TurnType, Deadline
  <2> QED
    BY <2>1, <2>2, <2>3, <2>4, <2>5, <2>6, <1>1, QuietStepKeeps DEF FinishType, Running
<1>8. ASSUME NEW id \in acks, AcknowledgePresentation(id)
      PROVE  RoomInvariant'
  <2>1. /\ UNCHANGED gameVars /\ UNCHANGED <<managed, idle, decision, finish, presented>>
        /\ acks' \subseteq ActionIds
        /\ \/ ClearPresentationGate
           \/ UNCHANGED gateVars
    BY <1>8, <1>1 DEF AcknowledgePresentation, turnVars, finishVars, GateType
  <2>2. /\ GateType' /\ GateInv'
        /\ Finished => gateAction' = NoAction /\ gate' = "none"
    BY <2>1, <1>1 DEF GateType, GateInv, ClearPresentationGate, gateVars, Deadline, FinishOnce
  <2>3. AutoTurnScheduled'
    BY <2>1, <1>1 DEF AutoTurnScheduled, Running, Finished, Driven
  <2> QED
    BY <2>1, <2>2, <2>3, <1>1, QuietStepKeeps DEF TurnType, FinishType, FinishOnce
<1>9. ASSUME ClientPresents
      PROVE  RoomInvariant'
  <2>1. /\ UNCHANGED gameVars /\ UNCHANGED <<managed, idle, decision, finish, gateAction, gate>>
        /\ presented' = gateAction /\ acks' = acks \cup {gateAction} /\ gateAction # NoAction
    BY <1>9 DEF ClientPresents, turnVars, finishVars, gateVars
  <2>2. GateType' /\ GateInv'
    BY <2>1, <1>1 DEF GateType, GateInv
  <2>3. AutoTurnScheduled'
    BY <2>1, <1>1 DEF AutoTurnScheduled, Running, Finished, Driven
  <2> QED
    BY <2>1, <2>2, <2>3, <1>1, QuietStepKeeps DEF TurnType, FinishType, FinishOnce
<1> QED
  BY <1>3, <1>4, <1>5, <1>6, <1>7, <1>8, <1>9 DEF Client

\* What the tick thread does keeps the invariant.
LEMMA TickKeeps == RoomInvariant /\ TickManaged => RoomInvariant'
<1> SUFFICES ASSUME RoomInvariant, TickManaged PROVE RoomInvariant'
  OBVIOUS
<1> USE DEF gameVars
<1>1. /\ AutoTurnScheduled /\ FinishOnce /\ GateInv /\ BiddingInv
      /\ BiddingType /\ TurnType /\ FinishType /\ GateType
  BY DEF RoomInvariant, TypeOK
<1>2. Running => current \in Player /\ pendingWinner = NoPlayer /\ OnTurn(current)
  BY <1>1 DEF FinishOnce, TurnType, Running, OnTurn
<1>3. ASSUME TickFinish PROVE RoomInvariant'
  BY <1>3, FinishKeeps DEF TickFinish
<1>4. ASSUME DecisionDue, DriveBid PROVE RoomInvariant'
  <2>1. Running /\ phase = "WAITING"
    BY <1>4 DEF DecisionDue, DriveBid
  <2>2. PICK level \in 0..3 :
          LET bid == ChooseBidAction(level, highestBid) IN
          IF BidAccepted(bid) THEN CallScore(current, bid, TRUE)
          ELSE /\ decision' = "none" /\ ClearTimedOutGate
               /\ UNCHANGED <<dealVars, phase, hand, landlord, managed, biddingVars, trickVars,
                              countVars, resultVars, current, idle, finishVars, clientVars>>
    BY <1>4 DEF DriveBid
  <2> DEFINE bid == ChooseBidAction(level, highestBid)
  <2>3. bid \in 0..3 /\ BidAccepted(bid)
    BY <1>1 DEF ChooseBidAction, BidAccepted, BiddingType
  <2> HIDE DEF bid
  <2>4. CallScore(current, bid, TRUE)
    BY <2>2, <2>3 DEF bid
  <2> QED
    BY <2>1, <2>3, <2>4, <1>2, CallScoreKeeps
<1>5. ASSUME DecisionDue, DriveMove PROVE RoomInvariant'
  <2>1. Running /\ phase = "PLAYING" /\ current \in Player /\ OnTurn(current)
    BY <1>5, <1>2 DEF DecisionDue, DriveMove
  <2>2. CASE \E play \in Plays : Legal(current, play) /\ PlayCards(current, play, TRUE)
    BY <2>1, <2>2, PlayCardsKeeps
  <2>3. CASE ~IsLeadTurnFor(current) /\ Pass(current, TRUE)
    BY <2>1, <2>3, PassKeeps
  <2> QED
    BY <1>5, <2>2, <2>3 DEF DriveMove
<1>6. ASSUME TickRetry PROVE RoomInvariant'
  <2>1. /\ Running /\ UNCHANGED gameVars /\ UNCHANGED <<managed, finish, presented, acks>>
        /\ idle' = FALSE /\ decision' = "waiting" /\ ClearTimedOutGate
    BY <1>6 DEF TickRetry, DriveModelFails, DecisionDue, finishVars, clientVars
  <2>2. GateType' /\ GateInv'
    BY <2>1, <1>1, GateAfterTimeOut DEF GateType
  <2>3. AutoTurnScheduled' /\ decision' \in Deadline
    BY <2>1 DEF AutoTurnScheduled, Deadline
  <2> QED
    BY <2>1, <2>2, <2>3, <1>1, QuietStepKeeps DEF TurnType, FinishType, Running
<1>7. ASSUME TickTrustee PROVE RoomInvariant'
  <2>1. /\ Running /\ UNCHANGED gameVars /\ UNCHANGED <<finish, presented, acks>>
        /\ idle' = FALSE /\ decision' = "waiting" /\ managed' = managed \cup {current}
        /\ ~Driven(current)
    BY <1>7 DEF TickTrustee, EnterTrustee, TrusteeDue, finishVars, clientVars
  <2>2. gateAction' \in ActionIds \cup {NoAction} /\ gate' \in Deadline /\ GateInv'
    BY <1>7, GateAfterAppend DEF TickTrustee, EnterTrustee
  <2>3. GateType'
    BY <2>1, <2>2, <1>1 DEF GateType
  <2>4. managed' \subseteq Humans
    BY <2>1, <1>1, <1>2 DEF TurnType, Humans, Driven
  <2>5. AutoTurnScheduled' /\ decision' \in Deadline
    BY <2>1 DEF AutoTurnScheduled, Deadline
  <2> QED
    BY <2>1, <2>2, <2>3, <2>4, <2>5, <1>1, QuietStepKeeps DEF FinishType, Running
<1>8. ASSUME TickGate PROVE RoomInvariant'
  <2>1. /\ UNCHANGED gameVars
        /\ UNCHANGED <<managed, idle, decision, finish, presented, acks>>
        /\ ClearPresentationGate
    BY <1>8 DEF TickGate, turnVars, finishVars, clientVars
  <2>2. GateType' /\ GateInv' /\ gateAction' = NoAction /\ gate' = "none"
    BY <2>1, <1>1 DEF GateType, GateInv, ClearPresentationGate, Deadline
  <2>3. AutoTurnScheduled'
    BY <2>1, <1>1 DEF AutoTurnScheduled, Running, Finished, Driven
  <2> QED
    BY <2>1, <2>2, <2>3, <1>1, QuietStepKeeps DEF TurnType, FinishType, FinishOnce
<1> QED
  BY <1>3, <1>4, <1>5, <1>6, <1>7, <1>8 DEF TickManaged, TickDrive

\* Time passing, lost messages and the end of the round keep the invariant.
LEMMA ElapseKeeps ==
  RoomInvariant /\ (Elapse \/ LoseAck \/ UNCHANGED vars) => RoomInvariant'
<1> SUFFICES ASSUME RoomInvariant, Elapse \/ LoseAck \/ UNCHANGED vars PROVE RoomInvariant'
  OBVIOUS
<1>1. /\ AutoTurnScheduled /\ FinishOnce /\ GateInv
      /\ TurnType /\ FinishType /\ GateType
  BY DEF RoomInvariant, TypeOK
<1>2. /\ UNCHANGED gameVars /\ UNCHANGED <<managed, gateAction, presented>>
      /\ acks' \subseteq acks
      /\ decision' = decision \/ (decision = "waiting" /\ decision' = "due")
      /\ idle' = idle \/ idle' = TRUE
      /\ finish' = finish \/ (finish = "waiting" /\ finish' = "due")
      /\ gate' = gate \/ (gate = "waiting" /\ gate' = "due")
  BY DEF Elapse, ElapseDecision, ElapseTurn, ElapseFinish, ElapseGate, LoseAck, Unmoved, vars,
         gameVars, turnVars, finishVars, gateVars, clientVars
<1>3. GateType' /\ GateInv' /\ (Finished => gateAction' = NoAction /\ gate' = "none")
  BY <1>1, <1>2 DEF GateType, GateInv, Deadline, FinishOnce
<1>4. AutoTurnScheduled'
  BY <1>1, <1>2 DEF AutoTurnScheduled, Running, Finished, Driven, gameVars
<1>5. managed' \subseteq Humans /\ idle' \in BOOLEAN /\ decision' \in Deadline /\ finish' \in Deadline
  BY <1>1, <1>2 DEF TurnType, FinishType, Deadline
<1>6. (finish' = "none" <=> finish = "none") /\ (~Running => decision' = "none")
  BY <1>1, <1>2 DEF FinishOnce
<1> QED
  BY <1>2, <1>3, <1>4, <1>5, <1>6, QuietStepKeeps

\* Every step keeps the invariant.
LEMMA NextKeeps == RoomInvariant /\ [Next]_vars => RoomInvariant'
  BY ClientKeeps, TickKeeps, ElapseKeeps DEF Next, Over

-----------------------------------------------------------------------------
\* The inductive invariant of a room.
THEOREM RoomSafe == Spec => []RoomInvariant
  BY StartGameInit, NextKeeps, PTL DEF Spec

\* Every field of a room keeps to its values.
THEOREM RoomTypeOK == Spec => []TypeOK
<1>1. RoomInvariant => TypeOK
  BY DEF RoomInvariant
<1> QED
  BY <1>1, RoomSafe, PTL

\* No turn of a bot or a managed player is ever left without a deadline.
THEOREM AutoTurnAlwaysScheduled == Spec => []AutoTurnScheduled
<1>1. RoomInvariant => AutoTurnScheduled
  BY DEF RoomInvariant
<1> QED
  BY <1>1, RoomSafe, PTL

\* A trick closes exactly when the turn is back at the owner of the table.
THEOREM TrickOrderKept == Spec => []TrickOrder
<1>1. RoomInvariant => TrickOrder
  BY DEF RoomInvariant
<1> QED
  BY <1>1, RoomSafe, PTL

\* No card is created or lost and the play counters tell the truth about the hands.
THEOREM CardsAlwaysAccounted == Spec => []CardsAccounted
<1>1. RoomInvariant => CardsAccounted
  BY DEF RoomInvariant
<1> QED
  BY <1>1, RoomSafe, PTL

\* The end of a round is announced once, for the player who is out of cards.
THEOREM FinishedOnce == Spec => []FinishOnce
<1>1. RoomInvariant => FinishOnce
  BY DEF RoomInvariant
<1> QED
  BY <1>1, RoomSafe, PTL

\* A settled round sums up to zero and is won by the side that went out.
THEOREM SettlementCorrect == Spec => []Settlement
<1>1. RoomInvariant => Settlement
  BY DEF RoomInvariant
<1> QED
  BY <1>1, RoomSafe, PTL

\* The score is doubled for a spring exactly when the losing side was shut out.
THEOREM SpringCorrect == Spec => []SpringMeansShutOut
<1>1. RoomInvariant => SpringMeansShutOut
  BY DEF RoomInvariant
<1> QED
  BY <1>1, RoomSafe, PTL

-----------------------------------------------------------------------------
(* What a step of a room may never do.                                     *)

\* Only a game against bots with a human in it has a gate to close.
OnlyGated == gate # "none" => Gated

\* The acknowledgement under way for the pending action is that of the action the
\* client presented last: ids are fresh.
FreshInv == gateAction \in acks => presented = gateAction

\* Whoever appends an action closes the gate if the room has one.
LEMMA AppendGates ==
  ASSUME AppendAction, TypeOK
  PROVE  OnlyGated' /\ (Gated => gate' = "waiting") /\ gateAction' \notin acks
  BY RoomAssumption
     DEF AppendAction, ClearPresentationGate, OnlyGated, Gated, TypeOK, GateType

LEMMA TimeOutGates ==
  ASSUME OnlyGated, ClearTimedOutGate
  PROVE  /\ OnlyGated' /\ (gate = "waiting" => gate' = "waiting")
         /\ gateAction' \in {gateAction, NoAction}
  BY DEF ClearTimedOutGate, ClearPresentationGate, OnlyGated, Gated, gateVars

\* The steps of a room by what they do to the gate: they announce an action, let a
\* timed-out gate go, open it for an acknowledged action, let its time run out, or rest.
Announces == AppendAction /\ UNCHANGED clientVars
Releases == ClearTimedOutGate /\ UNCHANGED clientVars
Opens == gateAction \in acks /\ ClearPresentationGate /\ acks' \subseteq acks
Expires == gate = "waiting" /\ gate' = "due" /\ UNCHANGED <<gateAction, clientVars>>
Rests ==
  /\ UNCHANGED gateVars
  /\ \/ UNCHANGED presented /\ acks' \subseteq acks
     \/ presented' = gateAction

LEMMA GateSteps ==
  ASSUME [Next]_vars
  PROVE  Announces \/ Releases \/ Opens \/ Expires \/ Rests
<1>1. CASE Client
  <2>1. ASSUME NEW p \in Humans, NEW score \in 0..3, ClientBids(p, score) PROVE Announces
    BY <2>1 DEF ClientBids, CallScore, Announces
  <2>2. ASSUME NEW p \in Humans, NEW play \in Plays, ClientPlays(p, play) PROVE Announces
    BY <2>2 DEF ClientPlays, PlayCards, Announces
  <2>3. ASSUME NEW p \in Humans, ClientPlaysInvalid(p) PROVE Rests
    BY <2>3 DEF ClientPlaysInvalid, gateVars, Rests, clientVars
  <2>4. ASSUME NEW p \in Humans, ClientPasses(p) PROVE Announces
    BY <2>4 DEF ClientPasses, Pass, Announces
  <2>5. ASSUME NEW p \in Humans, NEW on \in BOOLEAN, SetManaged(p, on) PROVE Announces
    BY <2>5 DEF SetManaged, Announces
  <2>6. ASSUME NEW id \in acks, AcknowledgePresentation(id) PROVE Opens \/ Rests
    BY <2>6 DEF AcknowledgePresentation, Opens, gateVars, Rests, clientVars
  <2>7. CASE ClientPresents
    BY <2>7 DEF ClientPresents, gateVars, Rests, clientVars
  <2> QED
    BY <1>1, <2>1, <2>2, <2>3, <2>4, <2>5, <2>6, <2>7 DEF Client
<1>2. CASE TickManaged
  <2>1. CASE TickFinish
    BY <2>1 DEF TickFinish, CompletePendingFinish, Releases
  <2>2. ASSUME DriveBid PROVE Announces \/ Releases
    BY <2>2 DEF DriveBid, CallScore, Announces, Releases
  <2>3. ASSUME DriveMove PROVE Announces
    BY <2>3 DEF DriveMove, PlayCards, Pass, Announces
  <2>4. CASE TickRetry
    BY <2>4 DEF TickRetry, DriveModelFails, Releases
  <2>5. CASE TickTrustee
    BY <2>5 DEF TickTrustee, EnterTrustee, Announces
  <2>6. CASE TickGate
    BY <2>6 DEF TickGate, ClearTimedOutGate, Releases, clientVars
  <2> QED
    BY <1>2, <2>1, <2>2, <2>3, <2>4, <2>5, <2>6 DEF TickManaged, TickDrive
<1>3. CASE Elapse
  BY <1>3 DEF Elapse, ElapseDecision, ElapseTurn, ElapseFinish, ElapseGate, Expires, Rests,
               Unmoved, gateVars, clientVars
<1>4. CASE LoseAck \/ Over \/ UNCHANGED vars
  BY <1>4 DEF LoseAck, Over, vars, gateVars, Rests, clientVars, Unmoved
<1> QED
  BY <1>1, <1>2, <1>3, <1>4 DEF Next

LEMMA GatedInit == Init => OnlyGated /\ FreshInv
  BY DEF Init, StartGame, OnlyGated, FreshInv

LEMMA GatedNext == OnlyGated /\ FreshInv /\ TypeOK /\ [Next]_vars => OnlyGated' /\ FreshInv'
<1> SUFFICES ASSUME OnlyGated, FreshInv, TypeOK, [Next]_vars PROVE OnlyGated' /\ FreshInv'
  OBVIOUS
<1>1. CASE Announces
  BY <1>1, AppendGates DEF Announces, clientVars, FreshInv
<1>2. NoAction \notin acks
  BY RoomAssumption DEF TypeOK, GateType
<1>3. CASE Releases
  BY <1>2, <1>3, TimeOutGates DEF Releases, clientVars, FreshInv
<1>4. CASE Opens
  BY <1>2, <1>4 DEF Opens, ClearPresentationGate, OnlyGated, FreshInv
<1>5. CASE Expires
  BY <1>5 DEF Expires, clientVars, FreshInv, OnlyGated
<1>6. CASE Rests
  BY <1>6 DEF Rests, gateVars, FreshInv, OnlyGated
<1> QED
  BY <1>1, <1>3, <1>4, <1>5, <1>6, GateSteps

-----------------------------------------------------------------------------
\* Whose turn it was when somebody else's has come: a human's, who moved and is not
\* managed any more, or one that TickManaged played because its time had come.
LEMMA TurnSteps ==
  ASSUME [Next]_vars, current' # current
  PROVE  \/ current \in Humans /\ current \notin managed'
         \/ DecisionDue /\ managed' = managed
<1>1. CASE Client
  <2>1. ASSUME NEW p \in Humans, NEW score \in 0..3, ClientBids(p, score)
        PROVE  current \in Humans /\ current \notin managed'
    BY <2>1 DEF ClientBids, OnTurn, CallScore, Unmanage
  <2>2. ASSUME NEW p \in Humans, NEW play \in Plays, ClientPlays(p, play)
        PROVE  current \in Humans /\ current \notin managed'
    BY <2>2 DEF ClientPlays, OnTurn, PlayCards, Unmanage
  <2>3. ASSUME NEW p \in Humans, ClientPasses(p)
        PROVE  current \in Humans /\ current \notin managed'
    BY <2>3 DEF ClientPasses, OnTurn, Pass, Unmanage
  <2>4. ~\E p \in Humans : ClientPlaysInvalid(p) \/ \E on \in BOOLEAN : SetManaged(p, on)
    BY DEF ClientPlaysInvalid, SetManaged, turnVars
  <2>5. ~(ClientPresents \/ \E id \in acks : AcknowledgePresentation(id))
    BY DEF ClientPresents, AcknowledgePresentation, turnVars
  <2> QED
    BY <1>1, <2>1, <2>2, <2>3, <2>4, <2>5 DEF Client
<1>2. CASE TickManaged
  <2>1. ~TickFinish /\ ~TickRetry /\ ~TickTrustee /\ ~TickGate
    BY DEF TickFinish, CompletePendingFinish, TickRetry, DriveModelFails, TickTrustee,
           EnterTrustee, TickGate, turnVars
  <2>2. ASSUME DriveBid PROVE managed' = managed
    BY <2>2 DEF DriveBid, CallScore, Unmanage
  <2>3. ASSUME DriveMove PROVE managed' = managed
    BY <2>3 DEF DriveMove, PlayCards, Pass, Unmanage
  <2> QED
    BY <1>2, <2>1, <2>2, <2>3 DEF TickManaged, TickDrive
<1>3. ~Elapse /\ ~LoseAck /\ ~Over /\ ~UNCHANGED vars
  BY DEF Elapse, ElapseDecision, ElapseTurn, ElapseFinish, ElapseGate, LoseAck, Over, vars,
         turnVars, Unmoved
<1> QED
  BY <1>1, <1>2, <1>3 DEF Next

\* Only a settlement ends the round.
LEMMA FinishSteps ==
  ASSUME [Next]_vars, ~Finished, Finished'
  PROVE  ~PresentationGateOpen
<1>1. CASE Client
  <2>1. ASSUME NEW p, NEW score, CallScore(p, score, FALSE) PROVE phase' \in {phase, "PLAYING"}
    BY <2>1 DEF CallScore, FinalizeBidding
  <2> QED
    BY <1>1, <2>1 DEF Client, ClientBids, ClientPlays, PlayCards, ClientPlaysInvalid, ClientPasses,
           Pass, SetManaged, AcknowledgePresentation, ClientPresents, Finished
<1>2. CASE TickManaged
  <2>1. ~(TickTrustee \/ TickGate)
    BY DEF TickTrustee, EnterTrustee, TickGate, Finished
  <2> QED
    BY <1>2, <2>1 DEF TickManaged, TickFinish, FinishDue, TickDrive, TickRetry, DecisionDue
<1>3. ~Elapse /\ ~LoseAck /\ ~Over /\ ~UNCHANGED vars
  BY DEF Elapse, ElapseDecision, ElapseTurn, ElapseFinish, ElapseGate, LoseAck, Over, vars,
         Unmoved, Finished
<1> QED
  BY <1>1, <1>2, <1>3 DEF Next

-----------------------------------------------------------------------------
\* Nothing moves ahead of what the human's client has shown: before the time-out the
\* gate opens for the presented action alone, and until then neither a bot nor the
\* trustee moves and the round is not settled.
THEOREM PresentationKept == Spec => PresentationRespected
<1>1. ASSUME OnlyGated, FreshInv, RoomInvariant, [Next]_vars, gate = "waiting", presented # gateAction
      PROVE  /\ gate' # "none"
             /\ ~Finished'
             /\ current' # current => current \in Humans \ managed'
  <2>1. gate' # "none"
    <3>1. ~Opens
      BY <1>1 DEF FreshInv, Opens
    <3>2. Announces => gate' = "waiting"
      BY <1>1, AppendGates DEF Announces, RoomInvariant, OnlyGated
    <3>3. Releases => gate' = "waiting"
      BY <1>1, TimeOutGates DEF Releases
    <3>4. Expires \/ Rests => gate' # "none"
      BY <1>1 DEF Expires, Rests, gateVars
    <3> QED
      BY <1>1, <3>1, <3>2, <3>3, <3>4, GateSteps
  <2>2. ~Finished'
    BY <1>1, FinishSteps DEF RoomInvariant, FinishOnce, PresentationGateOpen
  <2>3. current' # current => current \in Humans \ managed'
    BY <1>1, TurnSteps DEF DecisionDue, PresentationGateOpen
  <2> QED
    BY <2>1, <2>2, <2>3
<1>2. RoomInvariant => TypeOK
  BY DEF RoomInvariant
<1>3. Spec => [](OnlyGated /\ FreshInv)
  BY <1>2, GatedInit, GatedNext, RoomSafe, PTL DEF Spec
<1>4. OnlyGated /\ FreshInv /\ RoomInvariant /\ [Next]_vars =>
        [gate = "waiting" /\ presented # gateAction =>
           /\ gate' # "none"
           /\ ~Finished'
           /\ current' # current => current \in Humans \ managed']_vars
  BY <1>1
<1> QED
  BY <1>3, <1>4, RoomSafe, PTL DEF Spec, PresentationRespected

\* The trustee plays for a human only from a turn on which he was already managed.
THEOREM OwnMoveAlwaysTakesOver == Spec => OwnMoveTakesOver
<1>1. [Next]_vars => [\A p \in Humans :
       current = p /\ current' # p /\ p \in managed' => p \in managed /\ decision = "due"]_vars
  BY TurnSteps DEF DecisionDue, Driven, Humans
<1> QED
  BY <1>1, PTL DEF Spec, OwnMoveTakesOver
=============================================================================
