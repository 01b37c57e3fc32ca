------------------------------ MODULE RoomView ------------------------------
(***************************************************************************)
(* What a player, and a bot's model, is shown of a room: the snapshot of   *)
(* room.cpp and what onnx_bot_strategy.cpp reads in it.  A snapshot tells  *)
(* the own hand, the landlord's cards, how many cards each player holds    *)
(* and the last actions; it does not tell the pattern to beat.  A model    *)
(* works that out from the actions, and the room then checks its answer    *)
(* against last_pattern_ (ResolveModelMove).                               *)
(*                                                                         *)
(* The module lays the list of actions over the steps of Room and lets a   *)
(* bot or a trustee choose among the moves its model finds.  That a model  *)
(* is missing or answers nothing is in Room (TickRetry) and left out here, *)
(* and so is the presentation gate, which decides only when a bot moves.   *)
(***************************************************************************)
EXTENDS RoomProperties, Sequences

CONSTANT HistoryLimit   \* the actions a room keeps (24)

ASSUME ViewAssumption == HistoryLimit \in Nat \ {0} /\ ~Gated

VARIABLE actions        \* actions_

viewVars == <<vars, actions>>

\* The entries of actions_.  Of a bid and of the trustee's switching a reader of the
\* list takes no more than that they are there.
System == [kind |-> "system", player |-> NoPlayer, cards |-> {}]
Passed(p) == [kind |-> "pass", player |-> p, cards |-> {}]
Played(p, cards) == [kind |-> "play", player |-> p, cards |-> cards]

\* AppendAction keeps the last HistoryLimit entries.
Latest(s) == IF Len(s) <= HistoryLimit THEN s ELSE Tail(s)

Log(entry) == actions' = Latest(Append(actions, entry))

-----------------------------------------------------------------------------
(* What a snapshot says.                                                   *)

\* EvaluatePattern and BuildCandidates, tabulated.
PatternOf == [cards \in SUBSET Deck |-> EvaluatePattern(cards)]
CandidatesOf == [cards \in SUBSET Deck |-> BuildCandidates(cards)]

\* The moves in the list: a reader skips the others (IsSystemAction).
Entries(kind) == {i \in DOMAIN actions : actions[i].kind = kind}
LoggedPlays == Entries("play")
LoggedPasses == Entries("pass")
LoggedCards == UNION {actions[i].cards : i \in LoggedPlays}

\* What CurrentTablePattern meets on its way back from the end: the last play, and the
\* passes after it (trailing_passes).
LastPlay == CHOOSE i \in LoggedPlays : \A j \in LoggedPlays : j <= i
TrailingPasses == Cardinality({j \in LoggedPasses : j > LastPlay})

\* Mutant of CurrentTablePattern: one pass already frees the table.
FreedByOnePass ==
  IF LoggedPlays = {} \/ TrailingPasses >= 1 THEN NoPattern
  ELSE PatternOf[actions[LastPlay].cards]

\* CurrentTablePattern: the last play, unless two passes have followed it.
CurrentTablePattern ==
  IF LoggedPlays = {} \/ TrailingPasses >= 2 THEN NoPattern
  ELSE PatternOf[actions[LastPlay].cards]

\* BuildLegalPatterns: the candidates of the hand that beat the table a model sees,
\* and to pass if it sees one (MayPass).
BuildLegalPatterns(p) ==
  {s \in CandidatesOf[hand[p]] : CanBeat(PatternOf[s], CurrentTablePattern)}

\* Mutant of MayPass: passing is offered on the lead.
MayPassOnLead == CurrentTablePattern = NoPattern

MayPass == CurrentTablePattern # NoPattern

Number(cards, v) == Cardinality({c \in cards : Value[c] = v})
AtLeastNone(n) == IF n < 0 THEN 0 ELSE n

\* Mutant of BuildOtherHandCards: the landlord's cards count as seen.
OtherHandCardsSeen(p, v) ==
  AtLeastNone(Number(Deck, v) - Number(hand[p], v) - Number(LoggedCards, v)
              - Number(dealt.landlordCards, v))

\* BuildOtherHandCards: how many cards of a value the other two hold.
BuildOtherHandCards(p, v) ==
  AtLeastNone(Number(Deck, v) - Number(hand[p], v) - Number(LoggedCards, v))

\* BuildHistory: bomb_num.
IsBombMove(cards) == PatternOf[cards].type \in {"bomb", "rocket"}
BombNum == Cardinality({i \in LoggedPlays : IsBombMove(actions[i].cards)})
PlayedBy(p) == UNION {actions[i].cards : i \in {j \in LoggedPlays : actions[j].player = p}}

\* Mutant of CardCounter: the landlord's cards are subtracted from the deal on.
CounterFromTheDeal(p, v) ==
  AtLeastNone(Number(Deck, v) - Number(hand[p], v) - Number(LoggedCards, v)
              - Number(dealt.landlordCards, v))

\* card_counter of BuildSnapshotFor: the remaining cards the game page lists.
CardCounter(p, v) ==
  AtLeastNone(Number(Deck, v) - Number(hand[p], v) - Number(LoggedCards, v)
              - IF phase = "WAITING" THEN 0 ELSE Number(dealt.landlordCards, v))

-----------------------------------------------------------------------------
(* The steps of a room, with the list of actions.                          *)

AsPlay(cards) == [cards |-> cards, pattern |-> PatternOf[cards]]

\* DriveBots while playing.  ResolveModelMove refuses what the room does not allow.
ModelPlays ==
  \E cards \in BuildLegalPatterns(current) :
    IF Legal(current, AsPlay(cards))
    THEN PlayCards(current, AsPlay(cards), TRUE) /\ Log(Played(current, cards))
    ELSE DriveModelFails /\ UNCHANGED actions
ModelPasses ==
  /\ MayPass
  /\ IF IsLeadTurnFor(current)
     THEN DriveModelFails /\ UNCHANGED actions
     ELSE Pass(current, TRUE) /\ Log(Passed(current))

DriveSeen ==
  \/ DriveBid /\ (IF bidTurns' = bidTurns THEN UNCHANGED actions ELSE Log(System))
  \/ phase = "PLAYING" /\ (ModelPlays \/ ModelPasses)

TickDriveSeen == DecisionDue /\ DriveSeen
TickTrusteeSeen == TickTrustee /\ Log(System)

ClientSeen ==
  \E p \in Humans :
    \/ \E score \in 0..3 : ClientBids(p, score) /\ Log(System)
    \/ \E play \in Plays : ClientPlays(p, play) /\ Log(Played(p, play.cards))
    \/ ClientPasses(p) /\ Log(Passed(p))
    \/ \E on \in BOOLEAN : SetManaged(p, on) /\ Log(System)

Unlogged == (\E p \in Humans : ClientPlaysInvalid(p)) \/ TickFinish \/ Elapse \/ Over

ViewInit == Init /\ actions = <<>>
ViewNext == ClientSeen \/ TickDriveSeen \/ TickTrusteeSeen \/ (Unlogged /\ UNCHANGED actions)

\* Time passes, and the tick thread runs: a model that is due is asked.  It answers from
\* what it sees, so it fails only where the room refuses the answer.
ViewFairness ==
  /\ WF_viewVars(Elapse /\ UNCHANGED actions)
  /\ WF_viewVars(TickDriveSeen \/ TickTrusteeSeen \/ (TickFinish /\ UNCHANGED actions))

ViewSpec == ViewInit /\ [][ViewNext]_viewVars
FairViewSpec == ViewSpec /\ ViewFairness

-----------------------------------------------------------------------------
(* What a model may rely on.                                               *)

OnTheTable == Running /\ phase = "PLAYING"
TableSeen == CurrentTablePattern = lastPattern

\* The pattern a model works out of the actions is the one the room checks its answer
\* against, for every order of plays, passes, settled tricks and switching of trustees.
\* The one exception is a full list of system entries and at most one pass: nothing but
\* HistoryLimit - 1 switches of a trustee since the last play push it out
\* (AppendAction 642, CurrentTablePattern, Pass 468-483).
SeesTheTable ==
  OnTheTable =>
    \/ TableSeen
    \/ Len(actions) = HistoryLimit /\ LoggedPlays = {} /\ Cardinality(LoggedPasses) <= 1

\* The actions are those of this round, each once and under its player, so what a
\* model sums up in them is the truth until a play has dropped out: what each player
\* laid down, the bombs that doubled the stake and the cards the others still hold.
\* Afterwards the other players' cards are never counted too low.
HeldByOthers(p, v) == Number(UNION {hand[q] : q \in Player \ {p}}, v)
AllTold == LoggedCards = UNION {Laid(p) : p \in Player}
ViewTellsTheRound ==
  phase # "WAITING" =>
    /\ Len(actions) < HistoryLimit => AllTold
    /\ AllTold => multiplier = 2^(BombNum + IF spring THEN 1 ELSE 0)
    /\ \A p \in Player :
         /\ PlayedBy(p) \subseteq Laid(p)
         /\ \A v \in {Value[c] : c \in Deck} :
              /\ BuildOtherHandCards(p, v) >= HeldByOthers(p, v)
              /\ AllTold => BuildOtherHandCards(p, v) = HeldByOthers(p, v)

\* The remaining cards the game page lists never exceed what the player cannot see
\* until a play has dropped out.  They fall short only by landlord's cards that are
\* counted twice: those the landlord laid down and, for himself, those he holds
\* (BuildSnapshotFor 240-248).  While bidding they are all that is not in his hand.
NotSeenBy(p, v) ==
  LET known == IF phase = "WAITING" THEN {} ELSE dealt.landlordCards
  IN  Number((Deck \ (hand[p] \cup known)) \ UNION {Laid(q) : q \in Player}, v)
CountedTwice(p, v) ==
  IF phase = "WAITING" THEN 0
  ELSE Number(dealt.landlordCards \cap (hand[p] \cup Laid(landlord)), v)
CounterShortOnlyByTwice ==
  AllTold =>
    \A p \in Player, v \in {Value[c] : c \in Deck} :
      /\ CardCounter(p, v) <= NotSeenBy(p, v)
      /\ CardCounter(p, v) >= NotSeenBy(p, v) - CountedTwice(p, v)

\* With models that answer from what they see, a round ends if switching the trustee
\* stops and the table stays told: every bot and trustee then finds a move, and the room
\* takes it, so none is asked for ever in vain.  (Where it is not told, a model picks the
\* same refused move again and again: DriveBots 514-545.)
TogglesSeen ==
  \E p \in Humans : ClientPlaysInvalid(p) \/ \E on \in BOOLEAN : SetManaged(p, on)
ModelsEndTheRound ==
  <>[][~TogglesSeen]_vars /\ <>[](OnTheTable => TableSeen) => <>Finished
=============================================================================
