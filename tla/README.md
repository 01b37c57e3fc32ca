# A specification of LandLords

LandLords is an online Dou Dizhu ("fight the landlord") game: a C++ server that
keeps accounts, lobby, rooms and scores, bots that play through ONNX models, and a
Flutter client. This directory holds TLA+ models of its logic, translated from the
source under `src/`, the TLC configurations that check them on small instances, and
proofs for every instance where those could be had. `PROJECT.json` maps every
definition to the lines it stands for. The abbreviations below: `room.cpp`,
`game_service.cpp`, ... are in `backend/server/src/`, Dart files in `lib/src/`.

## The system

| Part | State it keeps | Operations |
|---|---|---|
| Card patterns (`models.cpp`) | none | `EvaluatePattern`, `CanBeat`, `BuildCandidates` |
| Room (`room.cpp`) | phase, hands, landlord, bids, table, turn, trustee flags, deadlines, presentation gate, pending winner, scores | `StartGame`; `CallScore`, `PlayCards`, `Pass`, `SetManaged`, `AcknowledgePresentation` from clients; `TickManaged` from the tick thread; `ResolveModelMove` for bots |
| Bid strategy, bot strategy (`bid_strategy.cpp`, `bot_strategy.cpp`, `onnx_bot_strategy.cpp`) | loaded models | a bid or a move for a hand |
| Lobby (`game_service.cpp`) | sessions, active tokens, rooms in preparation and running, free-match queue, invitations and remembered answers | login, match, cancel, create, join, leave, ready, add bot, remove player, invite, respond, reconnect, heartbeat, tick |
| Score book (`game_service.cpp`, `state/app_controller.dart`) | user records; the client's profile and last settled room | `PersistFinishedRoomScores`, `SendSnapshotToRoom`; `_syncProfileFromSnapshot` |
| Friend center (`game_service.cpp`, `file_friend_request_repository.cpp`) | a file per request, friend lists in the profiles | add, respond, delete, snapshot |
| User repository (`file_user_repository.cpp`) | a file per profile, account index | save, update, find |
| Accounts, support likes (`game_service.cpp`, `file_system_repository.cpp`) | records, a counter | register, passwords, nickname, statistics, reward |
| Network (`tcp_server.cpp`) | connections | framing, send, close |
| Client controller (`state/app_controller.dart`) | stage, snapshot, profile, notices | answers and pushes, matching, invitations |
| Client gateways (`services/websocket_game_gateway.dart`, `socket_game_gateway.dart`) | channel, pending requests | request, timeout, reconnect |
| Client pages (`pages/`, `widgets/`) | what is on screen | present actions and acknowledge them |
| Local demo (`services/local_demo_*.dart`) | a whole game in the client | an offline copy of the rules |

How they interact. A client sends one protobuf request at a time over TCP or
WebSocket; the event thread calls `GameService::HandleMessage`, which takes the one
`mutex_` and holds it to the end of the handler. The tick thread (`TickRoomsLoop`,
every 100 ms) takes the same mutex, lets each room play for bots and managed players,
expires invitations, stores finished rooms and pushes snapshots. So a handler or a
tick of a room is atomic in memory, and what interleaves is: requests of several
clients, ticks, the passing of several deadlines, connections that end, messages under
way, and, below all this, the single steps of file writes when the server stops.

What is hard in it:

* Deadlines. Trustee (25 s without a move), bot's thinking time, the announcement
  before a round ends, the presentation gate (the server waits for the human's screen),
  invitations (30 s) and remembered answers (120 s) run side by side and pass in any order.
* Two actors for one turn: a human and his trustee.
* Players who change room, device and connection while they are in a queue, in a room
  in preparation, in a game and invited elsewhere. The same fact is kept in several
  maps that each handler has to keep in step.
* A result that is stored by the server and added by the client separately, with
  repeated requests and repeated snapshots.
* Updates of several files with no transaction.
* The case analysis of the card combinations.
* Views worked out of a list of actions that is cut to its last 24 entries.

What makes each part correct: a combination is read as the rules have it, in one way,
and beating is an order (card patterns); no turn is stuck, cards are neither lost nor
made, a trick closes where it should, a round ends once and is settled rightly, the
trustee and the gate do what they promise (room); one session per user, an owner in
his room, a start exactly when all are ready, invitations that lead somewhere and end
once, a game that survives its players' other requests (lobby); a result stored before
it is shown, and once (score book); one profile for an account and in it what was
booked, whatever else is written in between (accounts, likes); nothing acknowledged is
lost by a stop, and a friendship is on both sides when its request says so (friend
center); the same table for those who play by the snapshot and for the room that checks
them (snapshot, bot strategy); a plan for a hand that can be played (bid strategy).

## The modules

| Module | Models | Notes |
|---|---|---|
| `CardPatterns` | `models.cpp` | operators over sets of cards; `Deck` and `Value` are constants |
| `PatternRules` | | the rules of the game as a reference; a state is a hand and a play laid out of it |
| `Room` | `room.cpp`, `bid_strategy.cpp`, the part of `HandlePlay`/`HandlePass` that calls a room | extends `CardPatterns` |
| `RoomView` | the kept actions and the snapshot (`room.cpp`), what a model reads in them (`onnx_bot_strategy.cpp`) | extends `Room`; `actions` is the one variable it adds |
| `BidStrategy` | `bid_strategy.cpp` | how a hand is taken apart; extends `PatternRules` |
| `RoomProperties` | | what must hold of a room; instantiates `LandlordGame` |
| `LandlordGame` | | abstract: a round with no clocks, trustees, gate or messages |
| `Lobby` | `game_service.cpp` | a room in it is only unfinished or finished, what `Room` does in between is `RoomFinishes` |
| `LobbyProperties` | | what must hold of the lobby |
| `ScoreBook` | storing and showing results | a round in it is only the number of its actions |
| `UserStore` | `file_user_repository.cpp`, `file_system_repository.cpp`, the handlers of accounts, results and likes | each file step is an action |
| `FriendBook` | `file_friend_request_repository.cpp`, friend handlers | extends `UserStore`, over the same files |
| `CardPatternsProofs`, `PatternRulesProofs`, `RoomProofs`, `RoomViewProofs`, `RoomRefinement`, `LobbyProofs`, `ScoreBookProofs`, `FriendBookProofs` | | the theorems |
| `MC...` | | constants for TLC |

### Room

One variable per field of `Room` (the comment beside each names it). Seats 0..2 stand
for players and `current` for `current_turn_player_id_`. The actions of a client are the
operations with their guards: `CallScore`, `PlayCards`, `Pass`, `SetManaged`,
`AcknowledgePresentation`, and `ClientPlaysInvalid`, because a play that is turned down
has already cancelled the trustee and its deadline. `TickManaged` is split by the
branch it takes, in the code's order: finish, decision of a bot or trustee, entering the
trustee, clearing the gate.

*Time.* A deadline is `"none"` (0 in the code), `"waiting"` or `"due"`. An `Elapse`
action makes a waiting one due, at any moment and in any order; the lengths come from
environment variables, so no order can be excluded. `idle` is "25 s since
`turn_started_ms_`".

*Bots.* A model's answer is any legal move, or none (then `TickRetry` plans another
attempt). A bid is at most 3 and not below the table. The trustee's move goes the same
way. So nothing depends on how well a bot plays.

*Presentation.* `AppendAction` arms the gate with the id of the action; the client's
acknowledgements are the set `acks`, which they leave late, in any order, or never
(`LoseAck`). The ids are drawn from `ActionIds`; an id can come again once nothing
refers to it, which only adds behaviours.

*Bounds.* `MaxAcks` acknowledgements are under way at once; decks are 8 cards (4
against bots) and two shuffles, chosen so that there are a bomb, the rocket, a second trick,
and a winner on either side.

### Lobby

The unordered maps are functions whose domain is the set of keys present. A request
is one action; one that is refused does what `HandleHeartbeat` does (bind the session to
the connection it came by) and is that action. A room code stands for its room.
`StartPreparedRoom`, `RemoveSessionFromPendingRoom`, `ReleaseTransientBotRoom` and the
`Expire...` helpers are operators that the handlers share, as in the code. A new room
never gets the id of a room that some session still names (ids are random).

*Bounds.* `MaxOffline` sessions without a connection, `MaxWaiting` in the queue,
`MaxBots` bots in preparation at a time; 2 to 3 users, 3 tokens, 1 to 2 rooms, 1 to
2 invitations. The tokens are more than the users where device changes matter, so that a
user can log in while his other session lives. The passing runs bound offline
sessions, bots and invitations together as well (`OneAtATime`, `TwoAtATime` of `MCLobby`, as
TLC constraints): each pair of them meets, all three do not.

### ScoreBook

A record is the number of times each room's result was added to it; coins, games and
wins are sums over that. A round has `MaxActions[r]` actions at most. The gate is the one
of `Room`, as the number of the action it waits for. The client is a queue of messages
(`inbox`, in order as on one connection), its profile and the one room id it remembers;
it acknowledges the actions one after the other, at any time (`NextAck`), and an acknowledgement
that is lost is not sent again. A page that goes to the background of the browser sends what it owes at
once, the actions that wait first and the older one it is presenting last (`FlushPresentations`); they
are on their way in that order (`flushed`), and `overtaken` remembers the room. Two equal snapshots one behind the
other are one, since the second changes nothing. `MaxChanges` bounds logins from other devices, game pages
opened again and lost connections together.

### RoomView

`actions` is `actions_`, cut to `HistoryLimit` entries: plays and passes with their
player, bids and switches of the trustee as `System` entries, since no reader takes more
of those. Every action of `Room` appends what `AppendAction` does there. Out of the list
the module works out what the code does: the table to beat as
`BuildObservationSeed` reads it backwards (`CurrentTablePattern`), the cards each
player laid down, the bombs, the cards the others hold, and the card counter
of a snapshot. A model here answers with any of the moves it finds in what it sees
(`BuildLegalPatterns`, `MayPass`), and the room checks the answer: one that is refused leaves
everything as it was.

What the runs say: a full list is not in itself wrong, because plays are frequent enough
for the last one to be in it, unless humans flood it with trustee switches; then the room
still holds the table and a model sees none. The card counter takes off the landlord's three
cards a second time once they are played, or in the landlord's own view.
`ModelsEndTheRound` says that rounds end whose models do not fail but answer from what they
see, as long as the list is not full of switches: `EndsOrModelFails` of the run `room_bots` leaves open that
a model fails for ever, and a list flooded so that the table is lost is how one does.

*Bounds.* `HistoryLimit` 5 instead of 24, with 4 cards and so at most about ten
entries in a round without trustee switches: the list overflows in every run.

### BidStrategy

`AnalyzeStructure` takes a hand apart: in each step the group of cards with the highest
priority (rocket, bombs, the longest runs, triples with what they can carry away,
pairs, single cards). It is a function of the hand, as in the code; `PlanPlayable` compares
each group with what `EvaluatePattern` makes of it. The points that count the groups, and the
thresholds that turn points into a bid, are left out: `Room` lets any bid from 0 to 3 happen.

### UserStore and FriendBook

`disk` has every file there is: the profiles (account, friends, coins), the account
index, the counter of likes and the requests. A handler decides on what a load would
read, and then its writes run as steps of `todo`: for a request open the temporary file,
write it, remove the old file, rename; for the other files the last two, since nobody
reads their temporary files. `Crash` ends a handler between any two. A load of profiles
reads profiles only; a load of requests goes through every file of the directory, the
temporary ones too, in an order the file system decides, so a request may read as either
(`Views`).

The server starts in an empty directory. A load that finds no account index writes
every profile again and with them the default user, if he is missing, under a new id
(`LoadLocked`); the first handler that needs a user does this before anything else, so it
is an action of its own, and the other handlers wait for the index to be there (`Begin`).
While the default user's profile is missing and the index is there, each load builds him
in memory under another id (`Missing`): a friend request can be sent to or by such a
user, who is never written. The index's content and the inbox files are left out: a load
reads the profiles and the requests themselves.

`books` is history: the coins each user has by what the handlers meant to write, and the likes.
A crash sets it to what is on disk. `deleted` remembers who deleted whom.

*Bounds.* `MaxCrashes`, and `MaxChanges` for results, likes and deletions together; four
user ids for three accounts, so that one can be made anew; two requests, one in each direction
or to two users.

## The runs

| Run | What it asks | Bounds |
|---|---|---|
| `patterns` | `OneReading`, `ReadsByTheRules`, `CandidatesComplete`, `NoBeatingCircle`: every play of three hands is read as the rules do, the generator misses none, and beating has no circle. `PlanPlayable`: the plan of every 17-card hand has each card once, and each of its moves is a combination | three hands of 12 or 13 cards that between them hold every kind of combination; for the plan, hands that leave three cards out of the deck |
| `room_bots` | one human and two bots: `TypeOK`, `AutoTurnScheduled`, `FinishOnce`, `PresentationRespected`, `OwnMoveTakesOver`, and `EndsOrModelFails` (if the human stops toggling the trustee, the round ends or a model fails for ever) | 4 cards, 4 action ids, one acknowledgement under way |
| `room_pvp` | two humans and a bot in a prepared room: `TrickOrder`, `CardsAccounted`, `Settlement`, `SpringMeansShutOut`, and the room implements `LandlordGame` (`PlaysTheGame`) | 8 cards; no gate in this mode |
| `room_view` | `SeesTheTable`, `ViewTellsTheRound`, `CounterShortOnlyByTwice`: what the kept actions tell is true; `ModelsEndTheRound`: bots that go by it end the round | 4 cards, one human and two bots, the last 5 actions |
| `lobby_rooms` | `OwnerSeated`, `GameGoesOn`, `SettledOnce`, while players move by code and invitation | 2 users, 3 tokens, 2 rooms; one at a time of an invitation, a bot in preparation and a broken connection |
| `lobby_three` | `TypeOK`, `OneSession`, `InvitationsOpen`, `PlayersDistinct`, `StartsWhenReady`, `DeviceTakesOver` | 3 users, 3 tokens, 1 room, a queue of 2; two at a time of 2 invitations, 2 bots in preparation and a broken connection |
| `score_book` | `TypeOK`, `RecordedBeforeShown`, `BotGameCountedOnce` (for clients that answer in time, stay, and acknowledge in order), `NeverAheadOfRecord` | an online game of two and a bot game of one of them, one change |
| `friend_book` | `TypeOK`, `AccountsKept`, `BooksBalance`, `RequestSurvives`, `OneSidedIsUnaccepted`, `OnePendingBetween`, `AcceptedOnlyWhenLinked` | 4 user ids, 3 accounts, 2 requests, 1 crash, 1 change |
| `lobby_removed`, `lobby_two_seats`, `score_twice`, `friends_lost` | findings, below | |

The comment above each property states it and names the code it is about. Every property
of a passing run has a mutant in the module it is about (comments `Mutant of ...`): the
definition as a plausible slip would have it, with which TLC finds the property violated.
The mutants are used by nothing else.

Why the bounds are enough. The properties of `room_bots` are about turns, deadlines and
the gate, for which the four cards of the smallest round with a second trick do; three of
them are proved for every deck. The rules of a room depend on which seat holds what and on
whose turn it is, so three seats and a hand of two or three cards already give every
order of bids, passes, second tricks, and a winner of either side; more cards repeat
these. The safety properties of `room_pvp` are proved for every deck besides. Two rooms are enough for moving from one to another, three users for a
full room and a match, a third token for a device change. In `ScoreBook` two rooms are
the least in which the one remembered room id can be displaced. One crash suffices for
each half-done write and for every handler to meet what it left, a `.tmp` file, a missing
profile or a missing index; with two crashes, three user ids and two accounts the
properties of `friend_book` hold as well (a million states), but the run is kept to one.
The list of `room_view` has five entries where the code keeps 24: what matters is that the
play on the table can be its oldest, and that it can be pushed out.

Deadlock is checked for rooms and lobby (a finished room stutters by `Over`).
`ScoreBook` and `FriendBook` stop when their games or requests are used up.

Fairness (`Room!Fairness`, used by `room_bots`, and `FairViewSpec` of `room_view`). Time
passes, and the tick thread runs until the server stops: weak fairness on each `Elapse`
action and on the branches of `TickManaged`. That a bot's turn is due makes the tick ask
its model, with whatever result: weak fairness on `TickDrive \/ TickRetry` together.
Nothing is assumed of the answer. A model that fails is asked again after `ModelRetryDelayMs`
for as long as it takes, and the code falls back on nothing, so `EndsOrModelFails` promises
that the round ends or that one model is asked for one and the same move for ever
(`ModelFailsForEver`). Clients owe nothing: no fairness on them or on acknowledgements.
Both properties exclude humans who switch the trustee (or send refused plays, which
switch it off) for ever: each time `turn_started_ms_` starts anew, and the round would
indeed never end.

## What is proved

`CardPatternsProofs!EvaluatePatternType`: for every deck `EvaluatePattern` returns a
pattern or `Invalid`, and no accepted play is empty. It assumes `DeckAssumption` (a
finite deck, values 3..17).

`PatternRulesProofs`: the properties of `PatternRules`, for every deck and every set of hands of
at most 20 cards (`HandsAssumption`: the landlord's 17 and the 3 he takes; with more
cards the code would accept airplanes the rules' table does not list). The run examines
three hands, the theorems every play of all of them. The argument compares the code's tests and
the rules through one form: a core, some copies of each value of an interval, and wings of
one size (`FitsRow`, `RuledPlay`).

* `Rulebook` (`ReadsByTheRules`): each test implies a row of the rules (`ReadsFits`, over a lemma per
  kind: `OneValueFits`, `ShapeFits`, `ChainFits`, `PlaneFits`) and each row its test
  (`FitsReads`). Airplanes are the hard case: the code only asks for at least three cards of each
  value of the run and counts the cards, and `PlaneCounts` shows that this leaves exactly three.
* `NoSecondReading` (`OneReading`): the core is the values held most often, so the cards determine it
  and with it the row (`FitsUnique`); two jokers fit no row (`RocketAlone`).
* `GeneratorComplete` (`CandidatesComplete`): what a play takes of a hand the generator can take too
  (`PlayParts`), what it builds fits the same row (`BuiltPlay`), and the k lowest wings
  it attaches to an airplane are really k (`LowestCount`).
* `BeatingIsAnOrder` (`NoBeatingCircle`): by cases on the types; that a bomb beats no four with
  two is what could have broken it and does not.

`RoomProofs!RoomSafe`: `Spec => []RoomInvariant`, for every deck, every set of
shuffles, every seating of bots and both modes (`RoomAssumption`: shuffles share the deck
out and leave nobody without cards). From it follow `TypeOK`, `AutoTurnScheduled`,
`TrickOrder`, `CardsAccounted`, `FinishOnce`, `Settlement` and `SpringMeansShutOut`, each
as a theorem of its own. Their conjunction is not inductive; `RoomInvariant` adds

* `BiddingInv`: while bidding nothing has been laid down and a bid of 3 has ended it, so
  the stake afterwards is the bid the landlord made;
* `LandlordLeads`: before the landlord's first play the table is empty and it is his
  turn; without this a farmer's play could come before it and the counters that decide
  the spring would say nothing about the hands;
* `WinnerInv`: the player the finish waits for is the one whose cards lie on the table;
  this is what ties the settled scores to an empty hand;
* `GateInv`: the gate has an action and a time-out or neither.

There is a lemma per operation (`CallScoreKeeps`, `PlayCardsKeeps`, `PassKeeps`,
`FinishKeeps`, `QuietStepKeeps` for those that move nothing), and one each for the
disjuncts of `Next` (`ClientKeeps`, `TickKeeps`, `ElapseKeeps`).

`RoomProofs!PresentationKept` and `OwnMoveAlwaysTakesOver`: the two action properties
of the room. The first needs, beside `RoomInvariant`, that a room without an audience never
closes a gate (`OnlyGated`) and that the acknowledgement under way for the pending action
is that of the action presented last (`FreshInv`), which holds because ids are fresh.
Each kind of step is then sorted by what it does to the gate and to the seat on turn.

`RoomRefinement!RoomPlaysTheGame`: `Spec => PlaysTheGame`, that is `LandlordGame!Spec` under the
mapping of `RoomProperties`. `GameSteps` sorts the steps of a room into bids, plays, passes,
the settlement and steps that show nothing; one lemma each maps them to the action of
`LandlordGame`. Beside `RoomInvariant` it needs that the stake is 1 during the auction and that
a bid on the table has a bidder (`AuctionInv`). `TrickOrder` is what makes the pass counter
agree with "the turn is back at the owner of the table", `CardsAccounted` and `LandlordLeads`
what makes the spring's counters agree with the hands.

`RoomViewProofs` is about the list of actions a room keeps and what is read out of it, for
every deck and every length of the list. `ViewIsARoom` (`ViewSpec => Spec`) makes everything
that is proved of a room true of one whose bots go by the list. `TableAlwaysSeen`,
`RoundAlwaysTold` and `CounterAlwaysShortByTwice` state the three safety properties of the run `room_view`.
A new entry may push the oldest one out, so an entry moves by no place or by one
(`LogShifts`), and `ViewInvariant` says of the list what survives that:

* `TableInv`: behind the last play in the list there are as many passes as the room
  counts, or two when the table is free; if no play is in the list though one lies on the
  table, the list is full and has at most one pass. That a play which drops out takes
  everything before it along is what makes the reading from the end right;
* `LaidInv`: the plays in the list were laid by their players, no card is in two of them, and a list
  that is not full has all of them (`AllTold`). A play that has dropped out makes
  `AllTold` false for the rest of the round (`NothingDropped`), since what the others laid is never
  less than what is missing;
* `StakeInv`: as long as nothing is missing, the stake is a power of two whose exponent counts the
  bombs in the list and the spring.

`ScoreBookProofs!ResultsStoredBeforeShown`: `Spec => []RecordedBeforeShown` for any number
of users and rooms. `BookInvariant` adds what makes it inductive: a finished room is
stored for all its members (`StoredInv`), a session is in a room its user plays in
(`SessionsInv`, for the snapshot a reconnect asks for), and whatever is under way to a client
or shown by it is in the record (`ShownInv`).

`ScoreBookProofs!BotGamesCountedOnce`: `Spec => []BotGameCountedOnce`. In `GateInvariant` the
gate of a game against bots is clear or waits for the last action, when it is clear
everything has been acknowledged or lost, and a finished round has a clear gate: so no
acknowledgement is left that could store again. It uses that such a room has one human
(`ScoreBookAssumption`, from `CreateBotRoom`), and that acknowledgements come in order: rooms
in which a page in the background has put an older one behind newer ones (`overtaken`) are left
out, as those whose gate timed out and users who came in again. In them it is false: see
the end of the findings.

`ScoreBookProofs!TypesKept` adds to the types that no gate and no acknowledgement is ahead
of its room's actions (`BoundsInv`).

`ScoreBookProofs!ClientNeverAhead`: `Spec => []NeverAheadOfRecord`. A client adds the score
of a snapshot to its profile and forgets what it added when a profile arrives, so its copy
depends on the order of everything still in the mail. `InStepInv` says of a user with one room,
as long as nothing was lost: neither the client nor a profile under way has more than the
record; while the client has not settled the room yet and a snapshot of its end is under way, the
client and every profile that arrives before the first such snapshot are short of the
record, so there is room for what the client will add; and when the room has finished
and the session is still in it, the client has settled it or such a snapshot is under way.

### The lobby

`LobbyProofs!LobbyStaysInOrder`: `Spec => []LobbyInvariant`, for any number of users, tokens,
rooms and invitations. From it follow `TypeOK`, `OneSession`, `OwnerSeated`,
`InvitationsOpen`, `PlayersDistinct` and `StartsWhenReady`, and with lemmas on single steps the
action properties `SettledOnce`, `GameGoesOn` and `DeviceTakesOver`. The properties alone are not
inductive; `LobbyInvariant` adds

* `SessionsInv`: a session's token is its user's active one, which is what keeps a login
  from leaving a second session behind, and the queue has no token twice;
* `SeatRules`: a player is ready in the first of his seats at most. `HandleRoomReady` takes the
  first seat it finds, so one who sits twice can never be ready in both, and no game
  starts with him twice: without this `PlayersDistinct` cannot be kept, since a room in preparation
  may seat a player twice (`lobby_two_seats`);
* `RoomRules`: a room in preparation waits for somebody and holds somebody;
* `InviteMaps`: the two maps of invitations are inverse, and none that has a result is open;
* `InvitesLead` (`Leads`): an invitation's room has an empty seat, and as long as the invited
  seat itself is empty the invitee who came in otherwise sits before it. `HandleJoinRoom` gives out
  the first empty seat: this is why accepting the invitation never sets him into an
  earlier seat, which would undo `SeatRules`.

There is a lemma per handler, each for the invariant and for `Settled`, over lemmas about maps
(`PutFacts`), about the queue, about seats and about how invitations expire.

### Profiles, requests and likes

`FriendBookProofs` proves, for any number of users, accounts, requests and crashes, `TypeOK`,
`BooksBalance`, `AccountsKept`, `OnePendingBetween` and `AcceptedOnlyWhenLinked`, and `RequestSurvives` for
`MaxCrashes <= 1` (with two crashes it is false: the second can come while the one file
that is left is being replaced) and `OneSidedIsUnaccepted` for `MaxCrashes <= 2` (with three it is false, TLC
finds the trace). A handler is a row of file steps, and an invariant has
to say of the row what it has still to do. First come the rows: what `FlattenSeq` makes of
a sequence of rows (an induction, see below), that every handler's row is a sequence of
whole replacements (`Rows`), and which files it replaces by what (`Does`, and `Wrote` for what
all handlers have in common, `HandlingWrites`). Then what one file step does, whoever asked for
it. The invariants:

* `TypeInv`, `WritingInv`: contents fit their file, and while a request's file is replaced its
  temporary file holds the new contents whole; without the second a rename would bring
  something unknown;
* `CoinsInv`, `LikesInv` for `BooksBalance`: every pending writer of a profile has the booked coins,
  and the last pending writer of the counter the booked likes. That some writer brings them is not
  enough: a later one in the same row could undo it;
* `ClaimsInv`, `AnswerInv`, `LossInv` for `AccountsKept`: no two users have or are about to have one
  account; who is told is there or comes before; and the accounts lost are at most the
  crashes, but for the one whose file is being replaced at the moment, which is the one
  the next crash may cost;
* `SurviveInv` for `RequestSurvives`: before any crash a request's file is missing only between
  its removal and its rename, and after one crash a request can be read or its rename is to come;
* `PendingInv` for `OnePendingBetween`: over all the versions a request reads as, on disk, in its
  temporary file and in what is to be written;
* `LinksInv` for `AcceptedOnlyWhenLinked`: the step that writes an accepted request comes behind the
  renames that link both profiles, and no step between takes the link out again;
* `FriendsInv` for `OneSidedIsUnaccepted`, in six parts. `PurposeInv`: what a handler still has
  to write leaves all friendships alone, or ends one, for the one who deletes first, or makes one,
  by a request that reads as pending until both profiles are written (`Keeps`, `Unlinks`, `Links`).
  `PassedInv`: a request is passed over only behind what mends or outlives it, both profiles linked
  or another request between the two rejected. `PartiesInv`: whatever a request reads as, it is
  between the same two. `KnownInv`: a friend has or had a profile, so his id is given to nobody
  else. `GapInv`: a file is missing while it is replaced. `OneSidedInv` counts the stops: a
  friendship on one side is being made; or, after the first stop, there is a request that stands for
  it in its own file; or, after the second, one that can be read. Each stop costs one layer of
  evidence, which is why two are allowed and three are not.

These proofs need assumptions that a run would not notice: that account names are not
request ids, and that the marks `NoFile`, `Gone` and `Torn` are no contents
(`UserStoreAssumption`, `MarksAssumption`). They say that the model's tags can be told apart, nothing of the
code; TLC evaluates them in every run of `MCFriendBook`.

### How the proofs were made

Each invariant was first checked by TLC as an invariant of the component's run, then
proved; where it was not inductive on the first attempt, the part that was missing is
named above. Induction over data is beyond the provers' reach as a rule (the library's
theorem takes an operator); the three places that need it, the `k`-th place of
a queue (`Nth`), the union of rows (`FlattenSeq`) and its range, argue by a least
counterexample, from the well-foundedness of `<` on the natural numbers.

Model-checked only: `PlanPlayable`, which is about the plan a recursive definition makes of a hand.
`EndsOrModelFails` and `ModelsEndTheRound` stay with TLC too: liveness under fairness is beyond the prover.
Every other property of a passing run is a theorem.

## Findings

* `lobby_removed`: a guest removed while offline keeps the room id in his session, because
  `HandleRemovePlayer` only visits sessions with a live connection. Once the room has
  started he reconnects into a game he does not play in.
* `lobby_two_seats`: an invitee who already came in by the room code is seated a second
  time when he accepts; the room can then never start.
* `score_twice`: `HandlePlay` stores the scores after every request it accepts for a finished
  room, and an acknowledgement is always accepted when no presentation is pending, which
  is always in an online room. The client acknowledges the last action after it has been
  spoken, later than the round's end, so the result is stored again, once per client.
* `friends_lost`: a profile is removed before its new version is renamed into place, and
  a load ignores the temporary file. A stop in between loses the account.

`PROJECT.json` quotes for each the test it contradicts. Met while modelling and recorded
as hazards, because nothing in the repository promises otherwise: a room left to its bots
has no owner and nobody who enters becomes one; a finished online room that one player
leaves for a new game keeps the others from matching; a half-accepted friendship stays
on one side if the request is then rejected; the client forgets which room it settled
before the last one, so alternating snapshots of two rooms count twice; the card counter
takes off the landlord's three cards twice once they are played; a list full of trustee
switches hides the table from the bots' models, which are then refused for ever; a
request to the default user goes to nobody while his profile is lost; a stop in the
write of the like counter makes it restart at 0.

`score_twice` has a second way in, for games against bots. A page that goes to the background of
the browser acknowledges what waits in its queue before the older action it is presenting
(`game_page.dart` 138-149). When the human's last card is in the queue, its acknowledgement
clears the gate, a tick may settle and store the round, and the older one, accepted since
nothing is pending any more, stores it again, though the client answered in time. TLC finds
this trace when `BotGameCountedOnce` is stated without `overtaken`.

## Not modelled, and why

The points by which a bot weighs a hand, the ONNX models and the encoding of their
features: numeric, and no property depends on them. Framing, the threads of `tcp_server.cpp` and
libevent: outside code, though the use of one connection from two threads is listed as a
hazard. What a profile holds beside account, friends and coins. Account names with `|`,
which is written as `/`, so that a load never finds such an account by its name again. Client
gateways and the rest of the controller, the local demo: planned. The Python export
tools, vendored DouZero, pages, sound and logging: no logic of the game's own.

The map covers a small share of all the C++ lines in the repository because 43611
of them are the generated protobuf code (`generated/landlords.pb.h`, `landlords.pb.cc`), which
keeps no state of the game; the server's own code is about 8000 lines.

## Plan

Built, in this order: `CardPatterns` and `PatternRules`; `Room`, `RoomProperties` and
`LandlordGame`; their proofs; `Lobby`; `ScoreBook`; `FriendBook`; `RoomView`; `BidStrategy`;
`UserStore`, over which `FriendBook` now stands.

To come, the most important first:

1. `Client`: the gateway's request table, timeouts, reconnects and the logout on
   `ERROR_CODE_AUTH_FAILED`; the controller's epochs, resume room and invitations. It composes
   with what `Lobby` answers.
2. The local demo's rules against `LandlordGame`.
