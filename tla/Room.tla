-------------------------------- MODULE Room --------------------------------
(***************************************************************************)
(* One game room, backend/server/src/room.cpp: the bidding, the tricks,    *)
(* the trustee ("managed" player), the presentation gate of a room against *)
(* bots and the settlement of the round.                                   *)
(*                                                                         *)
(* The server calls every operation under one mutex, so an action is one   *)
(* call.  CallScore, Pass, PlayCards, SetManaged and                       *)
(* AcknowledgePresentation come from a client; TickManaged comes from the  *)
(* tick thread every 100 ms and is what moves bots and managed players.    *)
(* A call that returns an error and changes nothing is no action.          *)
(*                                                                         *)
(* Time.  The code stores deadlines (decision_ready_at_ms_,                *)
(* finish_ready_at_ms_, presentation_timeout_at_ms_) and compares them with *)
(* now; their lengths come from environment variables.  A deadline is here *)
(* "none" (0 in the code), "waiting" or "due", and an Elapse action makes a *)
(* waiting one due: deadlines may pass in any order.  `idle` says that the *)
(* 25 s since turn_started_ms_ have passed.                                *)
(***************************************************************************)
EXTENDS CardPatterns

CONSTANTS
  Mode,        \* MATCH_MODE_VS_BOT or MATCH_MODE_PVP: "VS_BOT" or "PVP"
  Bots,        \* the seats played by the server
  Deals,       \* the shuffles StartGame may produce
  ActionIds,   \* the ids GenerateId may return
  MaxAcks      \* bound: acknowledgements under way at once

Player == 0..2
NoPlayer == -1
NoAction == "no action"

NextPlayerIndex(p) == (p + 1) % 3
Humans == Player \ Bots

\* A shuffle: three hands and the landlord's cards share the deck out.
Deal == [hand : [Player -> SUBSET Deck], landlordCards : SUBSET Deck]
Shared(d) ==
  /\ \A p \in Player :
       /\ d.hand[p] # {} /\ d.hand[p] \cap d.landlordCards = {}
       /\ \A q \in Player \ {p} : d.hand[p] \cap d.hand[q] = {}
  /\ d.landlordCards # {}
  /\ Deck = d.landlordCards \cup UNION {d.hand[p] : p \in Player}

\* The plays the game knows: cards with the pattern EvaluatePattern reads in them.
Plays ==
  {[cards |-> s, pattern |-> EvaluatePattern(s)] :
     s \in {cards \in SUBSET Deck : EvaluatePattern(cards) # Invalid}}

ASSUME RoomAssumption ==
  /\ Mode \in {"VS_BOT", "PVP"}
  /\ Bots \subseteq Player
  /\ Deals \subseteq {d \in Deal : Shared(d)}
  /\ NoAction \notin ActionIds
  /\ MaxAcks \in Nat

VARIABLES
  dealt,          \* the shuffle of this round (history, and landlord_cards_)
  phase,          \* phase_
  hand,           \* players_[i].hand
  landlord,       \* the player with is_landlord, or NoPlayer
  managed,        \* the players with is_managed
  current,        \* current_turn_player_id_
  bidStart,       \* bid_start_index_
  bidTurns,       \* bid_turns_taken_
  highestBid,     \* highest_bid_
  highestBidder,  \* highest_bid_player_id_
  baseScore,      \* base_score_
  multiplier,     \* multiplier_
  lastPattern,    \* last_pattern_
  lastPlayer,     \* last_action_player_id_
  passCount,      \* pass_count_
  landlordPlays,  \* landlord_play_count_
  farmerPlays,    \* farmer_play_count_
  pendingWinner,  \* pending_winner_player_id_
  spring,         \* spring_triggered_
  roundScore,     \* players_[i].round_score
  decision,       \* decision_ready_at_ms_
  idle,           \* now - turn_started_ms_ >= timeout_ms
  finish,         \* finish_ready_at_ms_
  gateAction,     \* pending_presentation_action_id_
  gate,           \* presentation_timeout_at_ms_
  presented,      \* the action the audience's client last finished presenting
  acks            \* "__presented__:<id>" messages under way to the server

dealVars    == <<dealt, bidStart>>
biddingVars == <<bidTurns, highestBid, highestBidder, baseScore>>
trickVars   == <<lastPattern, lastPlayer, passCount>>
countVars   == <<multiplier, landlordPlays, farmerPlays>>
resultVars  == <<spring, roundScore>>
turnVars    == <<current, idle, decision>>
finishVars  == <<pendingWinner, finish>>
gateVars    == <<gateAction, gate>>
clientVars  == <<presented, acks>>
vars == <<dealVars, phase, hand, landlord, managed, biddingVars, trickVars,
          countVars, resultVars, turnVars, finishVars, gateVars, clientVars>>

-----------------------------------------------------------------------------
\* PresentationAudiencePlayerId: the first player who is not a bot.
Audience ==
  IF Humans = {} THEN NoPlayer ELSE CHOOSE p \in Humans : \A q \in Humans : p <= q

FirstBidders ==
  IF Mode = "VS_BOT" THEN {IF Audience = NoPlayer THEN 0 ELSE Audience} ELSE Player

Driven(p) == p \in Bots \cup managed
Gated == Mode = "VS_BOT" /\ Audience # NoPlayer
PresentationGateOpen == gate = "waiting"
Finished == phase = "FINISHED"
OnTurn(p) == p = current /\ pendingWinner = NoPlayer

\* IsLeadTurnFor: nothing lies on the table, or the player's own cards do.
IsLeadTurnFor(p) == lastPattern = NoPattern \/ lastPlayer = p

-----------------------------------------------------------------------------
ClearPresentationGate == gateAction' = NoAction /\ gate' = "none"

\* AppendAction: a fresh action id, whose presentation the gate waits for.
AppendAction ==
  IF Gated
  THEN /\ \E id \in ActionIds \ ({gateAction, presented} \cup acks) : gateAction' = id
       /\ gate' = "waiting"
  ELSE ClearPresentationGate

\* The assignments AdvanceTurn, AdvanceBidTurn, FinalizeBidding, StartGame and
\* Pass share: p is on turn and ScheduleNextDecision plans an automatic move.
ScheduleNextDecision(p) ==
  /\ current' = p
  /\ idle' = FALSE
  /\ decision' = IF p \in Bots \cup managed' THEN "waiting" ELSE "none"

AdvanceTurn(p) == ScheduleNextDecision(NextPlayerIndex(p))

\* A move made by the player cancels the trustee; one DriveBots makes does not.
Unmanage(p, auto) == managed' = IF auto THEN managed ELSE managed \ {p}

-----------------------------------------------------------------------------
StartGame ==
  /\ dealt \in Deals
  /\ bidStart \in FirstBidders
  /\ phase = "WAITING"
  /\ hand = dealt.hand
  /\ landlord = NoPlayer /\ managed = {}
  /\ bidTurns = 0 /\ highestBid = 0 /\ highestBidder = NoPlayer
  /\ baseScore = 1 /\ multiplier = 1
  /\ lastPattern = NoPattern /\ lastPlayer = NoPlayer /\ passCount = 0
  /\ landlordPlays = 0 /\ farmerPlays = 0
  /\ pendingWinner = NoPlayer /\ finish = "none"
  /\ spring = FALSE /\ roundScore = [p \in Player |-> 0]
  /\ current = bidStart /\ idle = FALSE
  /\ decision = IF bidStart \in Bots THEN "waiting" ELSE "none"
  /\ gateAction = NoAction /\ gate = "none"

Init == StartGame /\ presented = NoAction /\ acks = {}

-----------------------------------------------------------------------------
\* Mutant of TakeLandlordCards: the landlord plays without the three cards.
LeaveLandlordCards(p) == hand' = hand

TakeLandlordCards(p) == hand' = [hand EXCEPT ![p] = @ \cup dealt.landlordCards]

\* FinalizeBidding: the highest bidder, or the first to bid when nobody did.
FinalizeBidding(bid, bidder) ==
  LET winner == IF bidder = NoPlayer THEN bidStart ELSE bidder
      score  == IF bid = 0 THEN 1 ELSE bid
  IN  /\ phase' = "PLAYING"
      /\ highestBid' = score /\ baseScore' = score
      /\ landlord' = winner
      /\ TakeLandlordCards(winner)
      /\ ScheduleNextDecision(winner)

\* Mutant of BidAccepted: a lower bid is let through.
BidAcceptedAny(score) == TRUE

\* CallScore turns down a bid below the one on the table.
BidAccepted(score) == score = 0 \/ score >= highestBid

\* CallScore, once its guards have let the call through.
CallScore(p, score, auto) ==
  LET bid    == IF score > 0 THEN score ELSE highestBid
      bidder == IF score > 0 THEN p ELSE highestBidder
  IN  /\ Unmanage(p, auto)
      /\ AppendAction
      /\ highestBidder' = bidder
      /\ bidTurns' = bidTurns + 1
      /\ \/ /\ bid >= 3 \/ bidTurns + 1 >= 3
            /\ FinalizeBidding(bid, bidder)
         \/ /\ bid < 3 /\ bidTurns + 1 < 3
            /\ highestBid' = bid
            /\ AdvanceTurn(p)
            /\ UNCHANGED <<phase, landlord, hand, baseScore>>
      /\ UNCHANGED <<dealVars, trickVars, countVars, resultVars, finishVars, clientVars>>

\* Mutant of ScheduleRoundFinish: the winner stays on turn.
ScheduleFinishKeepingTurn(p) ==
  /\ pendingWinner' = p /\ finish' = "waiting"
  /\ idle' = FALSE /\ decision' = "none" /\ UNCHANGED current

\* ScheduleRoundFinish: nobody is on turn until the finish is due.
ScheduleRoundFinish(p) ==
  /\ pendingWinner' = p /\ finish' = "waiting"
  /\ current' = NoPlayer /\ idle' = FALSE /\ decision' = "none"

\* PlayCards, once the play has been found legal.
PlayCards(p, play, auto) ==
  /\ Unmanage(p, auto)
  /\ hand' = [hand EXCEPT ![p] = @ \ play.cards]
  /\ landlordPlays' = IF p = landlord THEN landlordPlays + 1 ELSE landlordPlays
  /\ farmerPlays' = IF p = landlord THEN farmerPlays ELSE farmerPlays + 1
  /\ multiplier' = IF play.pattern.type \in {"bomb", "rocket"} THEN 2 * multiplier ELSE multiplier
  /\ AppendAction
  /\ lastPattern' = play.pattern /\ lastPlayer' = p /\ passCount' = 0
  /\ \/ hand[p] = play.cards /\ ScheduleRoundFinish(p)
     \/ hand[p] # play.cards /\ AdvanceTurn(p) /\ UNCHANGED finishVars
  /\ UNCHANGED <<dealVars, phase, landlord, biddingVars, resultVars, clientVars>>

\* The plays both PlayCards and ResolveModelMove let through.
Legal(p, play) ==
  /\ play.cards \subseteq hand[p]
  /\ CanBeat(play.pattern, lastPattern)

\* Mutant of ClearTable: whose cards lay there is not forgotten.
ClearPatternOnly == lastPattern' = NoPattern /\ passCount' = 0 /\ UNCHANGED lastPlayer

ClearTable == lastPattern' = NoPattern /\ lastPlayer' = NoPlayer /\ passCount' = 0

\* Mutant of TrickOver: one pass too many.
TrickOverLate == passCount + 1 >= 3

TrickOver == passCount + 1 >= 2

\* Pass, once it has been allowed: the second one in a row ends the trick.
Pass(p, auto) ==
  /\ Unmanage(p, auto)
  /\ AppendAction
  /\ \/ /\ TrickOver
        /\ ClearTable
        /\ ScheduleNextDecision(lastPlayer)
     \/ /\ ~TrickOver
        /\ passCount' = passCount + 1
        /\ AdvanceTurn(p)
        /\ UNCHANGED <<lastPattern, lastPlayer>>
  /\ UNCHANGED <<dealVars, phase, hand, landlord, biddingVars, countVars, resultVars,
                 finishVars, clientVars>>

-----------------------------------------------------------------------------
(* Calls of a client, in the order HandlePlay and HandlePass make them.    *)

ClientBids(p, score) ==
  /\ phase = "WAITING" /\ OnTurn(p)
  /\ BidAccepted(score)
  /\ CallScore(p, score, FALSE)

ClientPlays(p, play) ==
  /\ phase = "PLAYING" /\ OnTurn(p)
  /\ Legal(p, play)
  /\ PlayCards(p, play, FALSE)

\* A play the server turns down has already cancelled the trustee.
ClientPlaysInvalid(p) ==
  /\ phase = "PLAYING" /\ OnTurn(p)
  /\ managed' = managed \ {p}
  /\ UNCHANGED <<dealVars, phase, hand, landlord, biddingVars, trickVars, countVars,
                 resultVars, turnVars, finishVars, gateVars, clientVars>>

ClientPasses(p) ==
  /\ phase = "PLAYING" /\ OnTurn(p)
  /\ ~IsLeadTurnFor(p)
  /\ Pass(p, FALSE)

\* SetManaged: "auto:on" and "auto:off", at any time of the round.
SetManaged(p, on) ==
  /\ ~Finished /\ pendingWinner = NoPlayer
  /\ managed' = IF on THEN managed \cup {p} ELSE managed \ {p}
  /\ AppendAction
  /\ \/ /\ p = current
        /\ idle' = FALSE
        /\ decision' = IF on THEN "waiting" ELSE "none"
     \/ p # current /\ UNCHANGED <<idle, decision>>
  /\ UNCHANGED <<dealVars, phase, hand, landlord, biddingVars, trickVars, countVars,
                 resultVars, current, finishVars, clientVars>>

\* Mutant of AcknowledgePresentation: any acknowledgement opens the way.
AcknowledgeAnything(id) ==
  /\ id \in acks
  /\ acks' \in {acks, acks \ {id}}
  /\ ClearPresentationGate
  /\ UNCHANGED <<dealVars, phase, hand, landlord, managed, biddingVars, trickVars,
                 countVars, resultVars, turnVars, finishVars, presented>>

\* AcknowledgePresentation: only the pending action's acknowledgement counts; a
\* late one ("presentation_ack_mismatch") is turned down.  A delivered message may
\* be delivered again, a message may be lost.
AcknowledgePresentation(id) ==
  /\ id \in acks
  /\ acks' \in {acks, acks \ {id}}
  /\ \/ id = gateAction /\ ClearPresentationGate
     \/ id # gateAction /\ UNCHANGED gateVars
  /\ UNCHANGED <<dealVars, phase, hand, landlord, managed, biddingVars, trickVars,
                 countVars, resultVars, turnVars, finishVars, presented>>

\* The audience's client shows the pending action and sends its acknowledgement.
ClientPresents ==
  /\ gateAction # NoAction /\ gateAction \notin acks
  /\ Cardinality(acks) < MaxAcks
  /\ presented' = gateAction
  /\ acks' = acks \cup {gateAction}
  /\ UNCHANGED <<dealVars, phase, hand, landlord, managed, biddingVars, trickVars,
                 countVars, resultVars, turnVars, finishVars, gateVars>>

Client ==
  \/ \E p \in Humans :
       \/ \E score \in 0..3 : ClientBids(p, score)
       \/ \E play \in Plays : ClientPlays(p, play)
       \/ ClientPlaysInvalid(p)
       \/ ClientPasses(p)
       \/ \E on \in BOOLEAN : SetManaged(p, on)
  \/ \E id \in acks : AcknowledgePresentation(id)
  \/ ClientPresents

-----------------------------------------------------------------------------
(* TickManaged.  A gate that timed out is cleared first; then at most one  *)
(* of its branches runs.                                                   *)

Running == ~Finished /\ pendingWinner = NoPlayer

\* Mutant of DecisionDue: nobody waits for the time of the decision.
DecisionPlanned == Running /\ Driven(current) /\ decision # "none" /\ ~PresentationGateOpen

\* Mutant of TrusteeDue: a human who does not bid is waited for.
TrusteeInPlayDue == Running /\ phase = "PLAYING" /\ ~Driven(current) /\ idle

FinishDue   == pendingWinner # NoPlayer /\ finish = "due" /\ ~PresentationGateOpen
DecisionDue == Running /\ Driven(current) /\ decision = "due" /\ ~PresentationGateOpen
TrusteeDue  == Running /\ ~Driven(current) /\ idle

\* The gate after the time-out check, for the branches that append no action.
ClearTimedOutGate ==
  IF gate = "due" THEN ClearPresentationGate ELSE UNCHANGED gateVars

\* Mutant of ChooseBidAction: the bid on the table is ignored.
ChooseBidAlone(level, bid) == level

\* ChooseBidAction: what a bot bids on top of `bid` when its hand is worth `level`.
ChooseBidAction(level, bid) ==
  IF bid >= 3 THEN 0
  ELSE IF bid <= 0 THEN level
  ELSE IF level > bid THEN level ELSE 0

\* DriveBots while bidding.  A bid CallScore turns down leaves decision_ready_at_ms_
\* at 0 and only sets the status text.
DriveBid ==
  /\ phase = "WAITING"
  /\ \E level \in 0..3 :
       LET bid == ChooseBidAction(level, highestBid) IN
       IF BidAccepted(bid)
       THEN CallScore(current, bid, TRUE)
       ELSE /\ decision' = "none"
            /\ ClearTimedOutGate
            /\ UNCHANGED <<dealVars, phase, hand, landlord, managed, biddingVars, trickVars,
                           countVars, resultVars, current, idle, finishVars, clientVars>>

\* DriveBots while playing: ResolveModelMove lets any legal move of the model through.
DriveMove ==
  /\ phase = "PLAYING"
  /\ \/ \E play \in Plays : Legal(current, play) /\ PlayCards(current, play, TRUE)
     \/ ~IsLeadTurnFor(current) /\ Pass(current, TRUE)

\* The model is missing, answers nothing or answers an illegal move: retry later.
DriveModelFails ==
  /\ phase = "PLAYING"
  /\ idle' = FALSE /\ decision' = "waiting"
  /\ ClearTimedOutGate
  /\ UNCHANGED <<dealVars, phase, hand, landlord, managed, biddingVars, trickVars,
                 countVars, resultVars, current, finishVars, clientVars>>

\* A human who let 25 s pass is handed to the trustee.
EnterTrustee ==
  /\ managed' = managed \cup {current}
  /\ AppendAction
  /\ idle' = FALSE /\ decision' = "waiting"
  /\ UNCHANGED <<dealVars, phase, hand, landlord, biddingVars, trickVars, countVars,
                 resultVars, current, finishVars, clientVars>>

\* Mutant of Spring: a farmers' spring needs a landlord who never played at all.
SpringNeverPlayed(winner) ==
  IF winner = landlord THEN farmerPlays = 0 ELSE landlordPlays = 0

\* FinishIfNeeded: the losing side was shut out.
Spring(winner) ==
  IF winner = landlord THEN farmerPlays = 0 ELSE landlordPlays <= 1

\* Mutant of Score: the landlord's loss is not doubled.
ScoreUndoubled(p, winner, stake) ==
  IF p = landlord <=> winner = landlord
  THEN IF p = landlord THEN 2 * stake ELSE stake
  ELSE -stake

\* What player p gets of a stake.
Score(p, winner, stake) ==
  LET won == p = landlord <=> winner = landlord
      share == IF p = landlord THEN 2 * stake ELSE stake
  IN  IF won THEN share ELSE -share

\* CompletePendingFinish, with the FinishIfNeeded it calls.
CompletePendingFinish ==
  /\ pendingWinner' = NoPlayer /\ finish' = "none"
  /\ IF hand[pendingWinner] # {}
     THEN UNCHANGED <<phase, spring, multiplier, roundScore, decision>>
     ELSE /\ phase' = "FINISHED"
          /\ spring' = Spring(pendingWinner)
          /\ multiplier' = IF Spring(pendingWinner) THEN 2 * multiplier ELSE multiplier
          /\ roundScore' =
               [p \in Player |-> Score(p, pendingWinner, baseScore * multiplier')]
          /\ decision' = "none"
  /\ ClearTimedOutGate
  /\ UNCHANGED <<dealVars, hand, landlord, managed, biddingVars, trickVars, landlordPlays,
                 farmerPlays, current, idle, clientVars>>

TickFinish  == FinishDue /\ CompletePendingFinish
TickDrive   == DecisionDue /\ (DriveBid \/ DriveMove)
TickRetry   == DecisionDue /\ DriveModelFails
TickTrustee == TrusteeDue /\ EnterTrustee
TickGate ==
  /\ gate = "due" /\ ~FinishDue /\ ~DecisionDue /\ ~TrusteeDue
  /\ ClearPresentationGate
  /\ UNCHANGED <<dealVars, phase, hand, landlord, managed, biddingVars, trickVars,
                 countVars, resultVars, turnVars, finishVars, clientVars>>

TickManaged == TickFinish \/ TickDrive \/ TickRetry \/ TickTrustee \/ TickGate

-----------------------------------------------------------------------------
(* The passing of time, and messages lost on the way.                      *)

Unmoved == <<dealVars, phase, hand, landlord, managed, biddingVars, trickVars,
             countVars, resultVars, current, pendingWinner, gateAction, presented>>

ElapseDecision == decision = "waiting" /\ decision' = "due" /\ UNCHANGED <<Unmoved, idle, finish, gate, acks>>
ElapseTurn     == ~idle /\ Running /\ idle' = TRUE /\ UNCHANGED <<Unmoved, decision, finish, gate, acks>>
ElapseFinish   == finish = "waiting" /\ finish' = "due" /\ UNCHANGED <<Unmoved, decision, idle, gate, acks>>
ElapseGate     == gate = "waiting" /\ gate' = "due" /\ UNCHANGED <<Unmoved, decision, idle, finish, acks>>
LoseAck        == \E id \in acks : acks' = acks \ {id} /\ UNCHANGED <<Unmoved, decision, idle, finish, gate>>

Elapse == ElapseDecision \/ ElapseTurn \/ ElapseFinish \/ ElapseGate

\* The round is over; the room waits to be released.
Over == Finished /\ UNCHANGED vars

Next == Client \/ TickManaged \/ Elapse \/ LoseAck \/ Over

\* Time passes and the tick thread runs for ever: a turn that is due is taken up, but
\* nothing makes a model answer (DriveBots 517-530 asks the same one again, without a
\* fallback).  Clients owe nothing.
Fairness ==
  /\ WF_vars(ElapseDecision) /\ WF_vars(ElapseTurn)
  /\ WF_vars(ElapseFinish) /\ WF_vars(ElapseGate)
  /\ WF_vars(TickFinish) /\ WF_vars(TickTrustee) /\ WF_vars(TickGate)
  /\ WF_vars(TickDrive \/ TickRetry)

Spec == Init /\ [][Next]_vars
FairSpec == Spec /\ Fairness
=============================================================================
