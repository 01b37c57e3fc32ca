--------------------------- MODULE RoomProperties ---------------------------
(***************************************************************************)
(* What must hold of a room.  The names in brackets are the places of      *)
(* backend/server/src/room.cpp a property is about.                        *)
(***************************************************************************)
EXTENDS Room

Deadline == {"none", "waiting", "due"}

BiddingType ==
  /\ dealt \in Deals /\ bidStart \in Player
  /\ bidTurns \in 0..3 /\ highestBid \in 0..3
  /\ highestBidder \in Player \cup {NoPlayer}
  /\ baseScore \in 1..3
PlayType ==
  /\ hand \in [Player -> SUBSET Deck]
  /\ landlord \in Player \cup {NoPlayer}
  /\ lastPattern \in Pattern \cup {NoPattern}
  /\ lastPlayer \in Player \cup {NoPlayer}
  /\ passCount \in 0..1
  /\ multiplier \in Nat \ {0}
  /\ landlordPlays \in Nat /\ farmerPlays \in Nat
TurnType ==
  /\ phase \in {"WAITING", "PLAYING", "FINISHED"}
  /\ managed \subseteq Humans
  /\ current \in Player \cup {NoPlayer}
  /\ idle \in BOOLEAN /\ decision \in Deadline
FinishType ==
  /\ pendingWinner \in Player \cup {NoPlayer} /\ finish \in Deadline
  /\ spring \in BOOLEAN /\ roundScore \in [Player -> Int]
GateType ==
  /\ gateAction \in ActionIds \cup {NoAction} /\ gate \in Deadline
  /\ presented \in ActionIds \cup {NoAction} /\ acks \subseteq ActionIds

\* The values each field of the room can hold.
TypeOK == BiddingType /\ PlayType /\ TurnType /\ FinishType /\ GateType

\* A bot's or a managed player's turn always has a time at which TickManaged will
\* play it: no sequence of toggles, refused plays, model failures and refused bids
\* leaves decision_ready_at_ms_ at 0, after which nothing would ever move the room
\* (TickManaged 937-952, ScheduleNextDecision, SetManaged, DriveBots).
AutoTurnScheduled == Running /\ Driven(current) => decision # "none"

\* The pass counter and the owner of the table agree with the seat on turn, so a
\* trick closes exactly when the turn is back at the owner, who therefore never has
\* to beat his own cards (Pass 468-483, AdvanceTurn, IsLeadTurnFor).
TrickOrder ==
  /\ (lastPattern = NoPattern) <=> (lastPlayer = NoPlayer)
  /\ lastPlayer = NoPlayer => passCount = 0
  /\ lastPlayer # NoPlayer /\ Running => current = (lastPlayer + 1 + passCount) % 3

\* The cards a player was given, and those he has laid down.
Given(p) == dealt.hand[p] \cup IF p = landlord THEN dealt.landlordCards ELSE {}
Laid(p) == Given(p) \ hand[p]

\* Every card is in the hand of the player it was given to or has been played, and
\* the play counters that decide the spring tell the truth about the hands: a side
\* has made no play exactly when it still holds all it was given
\* (FinalizeBidding 713-716, PlayCards 414-424).
CardsAccounted ==
  /\ \A p \in Player : hand[p] \subseteq Given(p)
  /\ phase = "WAITING" => landlord = NoPlayer /\ landlordPlays = 0 /\ farmerPlays = 0
  /\ phase # "WAITING" => landlord # NoPlayer
  /\ (landlordPlays = 0) <=> (\A p \in Player : p = landlord => Laid(p) = {})
  /\ (farmerPlays = 0) <=> (\A p \in Player \ {landlord} : Laid(p) = {})

\* The end of a round is announced exactly while a player is out of cards and the
\* round is not settled; meanwhile nobody is on turn, and once settled no deadline
\* and no presentation is left (ScheduleRoundFinish, CompletePendingFinish).
FinishOnce ==
  /\ \A p \in Player : hand[p] = {} <=> p = pendingWinner \/ (Finished /\ p = lastPlayer)
  /\ (pendingWinner # NoPlayer) <=> (finish # "none")
  /\ current = NoPlayer <=> ~Running
  /\ ~Running => decision = "none"
  /\ Finished => pendingWinner = NoPlayer /\ gateAction = NoAction /\ gate = "none"

\* A settled round has one winner, sums up to zero, the landlord stands for double
\* and his side won exactly when he is out of cards (FinishIfNeeded; asserted by
\* VerifyFinishedRoom in backend/server/tests/room_simulation_test.cpp).
Settlement ==
  Finished =>
    /\ \E p \in Player : \A q \in Player : hand[q] = {} <=> q = p
    /\ roundScore[0] + roundScore[1] + roundScore[2] = 0
    /\ (roundScore[landlord] > 0) <=> (hand[landlord] = {})
    /\ \A p \in Player \ {landlord} : roundScore[landlord] = -2 * roundScore[p]

\* The score is doubled for a spring exactly when the losing side was shut out: the
\* farmers still hold all their cards, or the landlord's lead was his only play.
SpringMeansShutOut ==
  Finished =>
    (spring <=> IF hand[landlord] = {}
                THEN \A p \in Player \ {landlord} : hand[p] = dealt.hand[p]
                ELSE landlordPlays = 1)

-----------------------------------------------------------------------------
\* Against bots the server keeps step with the human's screen.  Before its time-out
\* the gate of an action opens only when the client has presented that very action
\* (not for a late acknowledgement of an earlier one), and while it is closed no bot
\* and no trustee moves and the round is not settled (AcknowledgePresentation,
\* TickManaged).
PresentationRespected ==
  [][gate = "waiting" /\ presented # gateAction =>
       /\ gate' # "none"
       /\ ~Finished'
       /\ current' # current => current \in Humans \ managed']_vars

\* The trustee plays for a human only from a turn on which he was already managed:
\* a move that leaves a human managed was not his own, and a human's own move always
\* takes the game back (PlayCards 391-393, Pass 464-466, CallScore 321-323).
OwnMoveTakesOver ==
  [][\A p \in Humans :
       current = p /\ current' # p /\ p \in managed' => p \in managed /\ decision = "due"]_vars

-----------------------------------------------------------------------------
\* Once the humans stop switching the trustee on and off (each switch restarts
\* turn_started_ms_ and the gate, and a refused play switches it off too), the round
\* ends, whatever else they do or leave undone, or one model is asked for one move for
\* ever and always fails.  No gate, deadline, bid or finish delay holds a round up for
\* good, and no model does that answers at last (TickManaged, DriveBots 514-557).
Toggles ==
  \E p \in Humans : ClientPlaysInvalid(p) \/ \E on \in BOOLEAN : SetManaged(p, on)
ModelFailsForEver(p) ==
  /\ <>[](phase = "PLAYING" /\ current = p /\ Driven(p))
  /\ []<><<TickRetry>>_vars
EndsOrModelFails ==
  <>[][~Toggles]_vars => <>Finished \/ \E p \in Player : ModelFailsForEver(p)

-----------------------------------------------------------------------------
\* What a room shows of the game once the clocks, the trustee, the gate and the
\* messages are hidden.
Stage ==
  CASE phase = "WAITING" -> "bidding"
    [] phase = "FINISHED" -> "settled"
    [] OTHER -> IF pendingWinner = NoPlayer THEN "playing" ELSE "won"
Top == [bid |-> IF highestBidder = NoPlayer THEN 0 ELSE highestBid, by |-> highestBidder]
Table == [by |-> lastPlayer, pattern |-> lastPattern]
Stake == baseScore * multiplier

Game == INSTANCE LandlordGame WITH
  deal <- dealt, opener <- bidStart, stage <- Stage, hands <- hand, turn <- current,
  calls <- bidTurns, top <- Top, lord <- landlord, table <- Table, stake <- Stake,
  lordPlays <- landlordPlays, payoff <- roundScore

\* A room plays the game: every step of the room is a step of LandlordGame or none.
PlaysTheGame == Game!Spec
=============================================================================
