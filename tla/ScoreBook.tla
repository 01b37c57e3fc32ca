----------------------------- MODULE ScoreBook -----------------------------
(***************************************************************************)
(* How a round's result gets into the players' records and into the        *)
(* profile their clients show.  The server adds the result of a finished   *)
(* room to the records after the tick that finishes it and after every     *)
(* accepted request for it (PersistFinishedRoomScores); the client adds it *)
(* to its copy of the profile when a snapshot of the finished room comes   *)
(* in (app_controller.dart, _syncProfileFromSnapshot).                     *)
(*                                                                         *)
(* A record is kept as the number of times each room's result was added to *)
(* it: the games, wins and coins of a UserRecord are sums over that.  The  *)
(* rules of play are in Room; here a round is the number of its actions.   *)
(***************************************************************************)
EXTENDS Naturals, Sequences, SequencesExt, FiniteSets

CONSTANTS
  Users,        \* the human players
  Rooms,        \* one round each
  BotRooms,     \* the rooms of mode VS_BOT; the others are of mode PVP
  Members,      \* Members[r]: the humans who play in r
  MaxActions,   \* bound: MaxActions[r] actions of the round in r
  MaxChanges,   \* bound: users who log in again, or return to the game page, once each,
                \* and broken connections
  NoRoom        \* an empty room id

ASSUME ScoreBookAssumption ==
  /\ BotRooms \subseteq Rooms
  /\ Members \in [Rooms -> SUBSET Users]
  /\ \A r \in BotRooms : \A u, v \in Members[r] : u = v  \* one human: CreateBotRoom
  /\ MaxActions \in [Rooms -> Nat]
  /\ MaxChanges \in Nat
  /\ NoRoom \notin Rooms

VARIABLES
  phase,    \* Room::phase_, with "finishing" for a pending winner, "gone" once erased
  actions,  \* actions_: how many the round has seen
  gate,     \* pending_presentation_action_id_, 0 for none
  timedOut, \* rooms in which the server once gave up on the client (history)
  record,   \* the stored UserRecord of each user
  sessionRoom, \* SessionState::room_id of the user's active session
  inbox,    \* messages on their way to the user's client, in order
  client,   \* the client's _profile and _lastSettledRoomId
  acked,    \* game_page.dart: the client has sent its acknowledgements up to this action
  flushed,  \* those that a page gone to the background sent at once, still on their way
  overtaken, \* rooms in which that put an older acknowledgement behind newer ones (history)
  arrivals, \* the users whose client was replaced by a new one
  lost      \* counted for the bound

vars == <<phase, actions, gate, timedOut, record, sessionRoom, inbox, client, acked, flushed,
          overtaken, arrivals, lost>>
clientVars == <<client, acked, flushed, overtaken, arrivals, lost>>

ChangesLeft == Cardinality(arrivals) + lost < MaxChanges

NoGames == [r \in Rooms |-> 0]
NoneFlushed == [r \in Rooms |-> <<>>]

Init ==
  /\ phase = [r \in Rooms |-> "none"]
  /\ actions = [r \in Rooms |-> 0]
  /\ gate = [r \in Rooms |-> 0]
  /\ timedOut = {}
  /\ record = [u \in Users |-> NoGames]
  /\ sessionRoom = [u \in Users |-> NoRoom]
  /\ inbox = [u \in Users |-> <<>>]
  /\ client = [u \in Users |-> [games |-> NoGames, settled |-> NoRoom]]
  /\ acked = [u \in Users |-> NoGames]
  /\ flushed = [u \in Users |-> NoneFlushed]
  /\ overtaken = {}
  /\ arrivals = {}
  /\ lost = 0

-----------------------------------------------------------------------------
\* Messages that matter to the profile: one that carries the stored record (LoginResponse,
\* UpdateNicknameResponse), and a snapshot of a finished room.
ProfileOf(u) == [kind |-> "profile", games |-> record[u]]
Finished(r) == [kind |-> "finished", room |-> r]

\* PersistFinishedRoomScores: nothing before the room has finished, and then the result
\* once more for every human player of the room, stored one after the other.
Persisted(r, ph) ==
  [u \in Users |-> IF ph = "finished" /\ u \in Members[r]
                   THEN [record[u] EXCEPT ![r] = @ + 1] ELSE record[u]]

\* SendSnapshotToRoom: to the active session of every player of the room, wherever he
\* is now. Snapshots of unfinished rooms leave the profile alone, and so does one right
\* behind its like.
Pushed(r, ph) ==
  [u \in Users |-> IF ph = "finished" /\ u \in Members[r] /\ (inbox[u] = <<>> \/ Last(inbox[u]) # Finished(r))
                   THEN Append(inbox[u], Finished(r)) ELSE inbox[u]]

\* Mutant of Armed: the gate waits for the next action.
ArmedNext(r, n) == IF r \in BotRooms THEN n + 1 ELSE 0

\* ArmPresentationGate: each action of a game against bots waits for the human's client.
Armed(r, n) == IF r \in BotRooms THEN n ELSE 0

-----------------------------------------------------------------------------
\* A room starts its round with every human member in it. Matching, creating or joining
\* the next room erases the one the session was in if that has finished or is against
\* bots (ReleaseTransientBotRoom).
StartRound(r) ==
  /\ phase[r] = "none"
  /\ \A u \in Members[r] :
       sessionRoom[u] \notin BotRooms \cup {NoRoom} => phase[sessionRoom[u]] \in {"finished", "gone"}
  /\ phase' = [q \in Rooms |->
       IF q = r THEN "playing"
       ELSE IF \E u \in Members[r] : sessionRoom[u] = q THEN "gone" ELSE phase[q]]
  /\ sessionRoom' = [u \in Users |-> IF u \in Members[r] THEN r ELSE sessionRoom[u]]
  /\ UNCHANGED <<actions, gate, timedOut, record, inbox, clientVars>>

\* An action of the round, a human's by HandlePlay or HandlePass, or a bot's by
\* TickManaged, which waits for the gate; the last one schedules the finish.
Act(r, byBot, last) ==
  /\ phase[r] = "playing"
  /\ actions[r] < MaxActions[r]
  /\ byBot => gate[r] = 0
  /\ actions' = [actions EXCEPT ![r] = @ + 1]
  /\ gate' = [gate EXCEPT ![r] = Armed(r, actions[r] + 1)]
  /\ phase' = [phase EXCEPT ![r] = IF last THEN "finishing" ELSE @]
  /\ UNCHANGED <<timedOut, record, sessionRoom, inbox, clientVars>>

\* TickManaged gives up on the acknowledgement after 15 s.
GateTimesOut(r) ==
  /\ gate[r] # 0
  /\ phase[r] \in {"playing", "finishing"}
  /\ gate' = [gate EXCEPT ![r] = 0]
  /\ timedOut' = timedOut \cup {r}
  /\ UNCHANGED <<phase, actions, record, sessionRoom, inbox, clientVars>>

\* Mutant of TickFinishes: the tick tells the players without storing the scores.
TickFinishesUnsaved(r) ==
  /\ phase[r] = "finishing"
  /\ gate[r] = 0
  /\ phase' = [phase EXCEPT ![r] = "finished"]
  /\ inbox' = Pushed(r, "finished")
  /\ UNCHANGED <<actions, gate, timedOut, record, sessionRoom, clientVars>>

\* TickRoomsLoop: CompletePendingFinish once the gate is clear and the delay is over,
\* then the scores are stored and the players told, in one hold of the mutex.
TickFinishes(r) ==
  /\ phase[r] = "finishing"
  /\ gate[r] = 0
  /\ phase' = [phase EXCEPT ![r] = "finished"]
  /\ record' = Persisted(r, "finished")
  /\ inbox' = Pushed(r, "finished")
  /\ UNCHANGED <<actions, gate, timedOut, sessionRoom, clientVars>>

\* HandleLeaveRoom closes a game against bots at any time, in the finish delay as well.
LeaveBotRoom(u, r) ==
  /\ r \in BotRooms
  /\ sessionRoom[u] = r
  /\ phase[r] \in {"playing", "finishing", "finished"}
  /\ phase' = [phase EXCEPT ![r] = "gone"]
  /\ sessionRoom' = [sessionRoom EXCEPT ![u] = NoRoom]
  /\ UNCHANGED <<actions, gate, timedOut, record, inbox, clientVars>>

-----------------------------------------------------------------------------
\* Mutant of AckAccepted: an acknowledgement of any action opens the gate.
AckAcceptedAny(r, k) == TRUE

\* AcknowledgePresentation refuses the wrong action while one is pending. With nothing
\* pending every acknowledgement succeeds.
AckAccepted(r, k) == gate[r] = 0 \/ gate[r] = k

\* _flushPresentationQueueForBrowserBackground: what waits behind the action that is
\* being presented is acknowledged first, that action last.
SentAtOnce(first, last) ==
  [i \in 1 .. last - first + 1 |-> IF i = last - first + 1 THEN first ELSE first + i]

\* The page goes to the background of the browser while it presents an action, with
\* newer ones in the queue.
FlushPresentations(u, r) ==
  /\ u \in Members[r]
  /\ phase[r] \in {"playing", "finishing", "finished"}
  /\ flushed[u][r] = <<>>
  /\ \E last \in acked[u][r] + 2 .. actions[r] :
       /\ flushed' = [flushed EXCEPT ![u][r] = SentAtOnce(acked[u][r] + 1, last)]
       /\ acked' = [acked EXCEPT ![u][r] = last]
  /\ overtaken' = overtaken \cup {r}
  /\ UNCHANGED <<phase, actions, gate, timedOut, record, sessionRoom, inbox, client, arrivals, lost>>

\* The next acknowledgement to reach the server: the client presents and acknowledges
\* one action after the other (_presentAction, and _sync in the background).
NextAck(u, r) == IF flushed[u][r] = <<>> THEN acked[u][r] + 1 ELSE Head(flushed[u][r])

\* To HandlePlay that is one more play: accepted, it stores the scores and sends snapshots.
Acknowledge(u, r) ==
  LET k == NextAck(u, r) IN
  /\ u \in Members[r]
  /\ phase[r] \in {"playing", "finishing", "finished"}
  /\ k <= actions[r]
  /\ IF flushed[u][r] = <<>>
     THEN acked' = [acked EXCEPT ![u][r] = k] /\ flushed' = flushed
     ELSE flushed' = [flushed EXCEPT ![u][r] = Tail(@)] /\ acked' = acked
  /\ IF AckAccepted(r, k)
     THEN /\ gate' = [gate EXCEPT ![r] = 0]
          /\ record' = Persisted(r, phase[r])
          /\ inbox' = Pushed(r, phase[r])
     ELSE UNCHANGED <<gate, record, inbox>>
  /\ UNCHANGED <<phase, actions, timedOut, sessionRoom, client, overtaken, arrivals, lost>>

\* The game page opened again knows nothing of what its predecessor presented.
ReopenGamePage(u) ==
  /\ sessionRoom[u] \notin BotRooms
  /\ u \notin arrivals /\ ChangesLeft
  /\ acked' = [acked EXCEPT ![u] = NoGames]
  /\ arrivals' = arrivals \cup {u}
  /\ UNCHANGED <<phase, actions, gate, timedOut, record, sessionRoom, inbox, client, flushed,
                 overtaken, lost>>

\* HandleLogin on another device: a fresh client on a fresh connection, whose session
\* takes over the room unless it has finished.
HandleLogin(u) ==
  /\ u \notin arrivals /\ ChangesLeft
  /\ sessionRoom' = [sessionRoom EXCEPT ![u] =
       IF @ # NoRoom /\ phase[@] \in {"playing", "finishing"} THEN @ ELSE NoRoom]
  /\ inbox' = [inbox EXCEPT ![u] = <<ProfileOf(u)>>]
  /\ client' = [client EXCEPT ![u] = [games |-> NoGames, settled |-> NoRoom]]
  /\ acked' = [acked EXCEPT ![u] = NoGames]
  /\ flushed' = [flushed EXCEPT ![u] = NoneFlushed]
  /\ arrivals' = arrivals \cup {u}
  /\ UNCHANGED <<phase, actions, gate, timedOut, record, overtaken, lost>>

\* HandleUpdateNickname answers with the stored profile.
HandleUpdateNickname(u) ==
  /\ Len(inbox[u]) < 2
  /\ client[u].games # record[u]
  /\ inbox' = [inbox EXCEPT ![u] = Append(@, ProfileOf(u))]
  /\ UNCHANGED <<phase, actions, gate, timedOut, record, sessionRoom, clientVars>>

\* HandleReconnect for the session's own room.
HandleReconnect(u) ==
  /\ Len(inbox[u]) < 2
  /\ sessionRoom[u] # NoRoom /\ phase[sessionRoom[u]] = "finished"
  /\ client[u].settled # sessionRoom[u]
  /\ inbox' = [inbox EXCEPT ![u] = Append(@, Finished(sessionRoom[u]))]
  /\ UNCHANGED <<phase, actions, gate, timedOut, record, sessionRoom, clientVars>>

\* The connection breaks, and what was on it is lost: messages to the client, and
\* acknowledgements, none of which the client sends again (acknowledgePresentation).
LoseConnection(u) ==
  /\ ChangesLeft
  /\ inbox' = [inbox EXCEPT ![u] = <<>>]
  /\ flushed' = [flushed EXCEPT ![u] = NoneFlushed]
  /\ \E r \in Rooms : \E k \in acked[u][r] .. actions[r] :
       /\ u \in Members[r]
       /\ acked' = [acked EXCEPT ![u][r] = k]
  /\ lost' = lost + 1
  /\ UNCHANGED <<phase, actions, gate, timedOut, record, sessionRoom, client, overtaken, arrivals>>

\* Mutant of Settled: the client adds every snapshot of a finished room.
SettledEvery(c, m) ==
  IF m.kind = "profile" THEN [c EXCEPT !.games = m.games]
  ELSE [games |-> [c.games EXCEPT ![m.room] = @ + 1], settled |-> m.room]

\* A response replaces _profile; a finished room is added to it unless it is the one
\* settled last (_syncProfileFromSnapshot).
Settled(c, m) ==
  IF m.kind = "profile" THEN [c EXCEPT !.games = m.games]
  ELSE IF c.settled = m.room THEN c
  ELSE [games |-> [c.games EXCEPT ![m.room] = @ + 1], settled |-> m.room]

ClientReceives(u) ==
  /\ inbox[u] # <<>>
  /\ client' = [client EXCEPT ![u] = Settled(@, Head(inbox[u]))]
  /\ inbox' = [inbox EXCEPT ![u] = Tail(@)]
  /\ UNCHANGED <<phase, actions, gate, timedOut, record, sessionRoom, acked, flushed, overtaken,
                 arrivals, lost>>

Next ==
  \/ \E r \in Rooms :
       \/ StartRound(r) \/ GateTimesOut(r) \/ TickFinishes(r)
       \/ \E byBot, last \in BOOLEAN : Act(r, byBot, last)
       \/ \E u \in Users : LeaveBotRoom(u, r) \/ FlushPresentations(u, r) \/ Acknowledge(u, r)
  \/ \E u \in Users :
       \/ ReopenGamePage(u) \/ HandleLogin(u) \/ HandleUpdateNickname(u)
       \/ HandleReconnect(u) \/ LoseConnection(u) \/ ClientReceives(u)

Spec == Init /\ [][Next]_vars

-----------------------------------------------------------------------------
Message == [kind : {"profile"}, games : [Rooms -> Nat]] \cup [kind : {"finished"}, room : Rooms]

TypeOK ==
  /\ phase \in [Rooms -> {"none", "playing", "finishing", "finished", "gone"}]
  /\ \A r \in Rooms : actions[r] \in 0 .. MaxActions[r] /\ gate[r] \in 0 .. actions[r]
  /\ record \in [Users -> [Rooms -> Nat]]
  /\ sessionRoom \in [Users -> Rooms \cup {NoRoom}]
  /\ inbox \in [Users -> Seq(Message)]
  /\ client \in [Users -> [games : [Rooms -> Nat], settled : Rooms \cup {NoRoom}]]
  /\ \A u \in Users, r \in Rooms :
       acked[u][r] \in 0 .. actions[r] /\ flushed[u][r] \in Seq(1 .. actions[r])

\* Nobody is told of a result that is not in his record: scores are stored before the
\* snapshot of the finished room goes out, on every path that sends one, and a client
\* that counted a game would find it again after a new login (TickRoomsLoop 2918-2923,
\* HandlePlay 2123-2130).
RecordedBeforeShown ==
  \A u \in Users, r \in Rooms :
    (client[u].games[r] > 0 \/ \E i \in DOMAIN inbox[u] : inbox[u][i] = Finished(r))
      => record[u][r] > 0

\* The presentation gate keeps a game against bots from being recorded twice: the last
\* action must have been acknowledged before the tick may finish the round, and as long as
\* the acknowledgements come in order, none is left then that could store the scores again
\* (AcknowledgePresentation, TickManaged). It takes a client that answers within the 15 s
\* of the gate, stays the same to the end, and does not go to the background of the
\* browser with newer actions waiting behind the one it presents: the last action's
\* acknowledgement may then open the gate before an older one comes and stores again.
BotGameCountedOnce ==
  \A u \in Users, r \in BotRooms \ (timedOut \cup overtaken) :
    u \notin arrivals => record[u][r] <= 1

\* The client shows no game more often than its record holds it, as long as the game
\* is the user's only one: it remembers the last room it settled, and that guards
\* against every repeated snapshot (_syncProfileFromSnapshot).
NeverAheadOfRecord ==
  \A u \in Users, r \in Rooms :
    (\A q \in Rooms \ {r} : record[u][q] = 0) /\ lost = 0 => client[u].games[r] <= record[u][r]

\* One game counts as one game in the profile (test/app_controller_room_state_test.dart
\* 425-497, 'finished snapshots split online and bot profile stats correctly').
CountedOnce ==
  \A u \in Users, r \in Rooms : client[u].games[r] <= 1
=============================================================================
