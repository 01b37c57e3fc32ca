------------------------------- MODULE Lobby -------------------------------
(***************************************************************************)
(* The lobby of backend/server/src/game_service.cpp: sessions, rooms in    *)
(* preparation, running rooms, the queue of the free match and the         *)
(* invitations.  Every handler holds mutex_ from its first line to its     *)
(* last, so one action is one whole handler; the unordered maps are        *)
(* functions whose domain is the set of keys present.                      *)
(*                                                                         *)
(* A request with a token that is no session's, or whose user logged in    *)
(* again since, is answered with an error and changes nothing; any other   *)
(* one first ties the session to the connection it came by                 *)
(* (RequireSessionForConnection).  A request that is turned down after     *)
(* that does no more than Heartbeat does.  A room code stands for its room *)
(* (pending_room_id_by_code_ is written wherever pending_rooms_by_id_ is). *)
(***************************************************************************)
EXTENDS Naturals, Sequences, FiniteSets, Functions

CONSTANTS
  Users,      \* the registered accounts
  Tokens,     \* session tokens GenerateId may return
  RoomIds,    \* room ids GenerateId may return
  InviteIds,  \* invitation ids GenerateId may return
  MaxOffline, \* bound: sessions whose connection is gone
  MaxWaiting, \* bound: tokens in the queue of the free match
  MaxBots     \* bound: bots in the rooms in preparation

Seats == 0..2
Nobody == "nobody"
Bot == "bot"
NoRoom == "no room"

ASSUME LobbyAssumption ==
  /\ {Nobody, Bot} \cap Users = {}
  /\ NoRoom \notin RoomIds
  /\ MaxOffline \in Nat /\ MaxWaiting \in Nat /\ MaxBots \in Nat

VARIABLES
  sessions,     \* sessions_by_token_: token -> [user, room, online]
  activeToken,  \* active_session_token_by_user_id_: user -> token
  pending,      \* pending_rooms_by_id_: room -> [owner, seats]
  rooms,        \* rooms_by_id_: room -> [mode, players, finished]
  waiting,      \* pvp_waiting_tokens_
  invitations,  \* invitations_by_id_: id -> [room, inviter, invitee, seat]
  invitationOf, \* invitation_id_by_invitee_: user -> id
  resolved      \* resolved_invitations_by_id_: id -> result

inviteVars == <<invitations, invitationOf, resolved>>
vars == <<sessions, activeToken, pending, rooms, waiting, inviteVars>>

EmptyMap == [k \in {} |-> k]
Put(f, k, v) == [x \in DOMAIN f \cup {k} |-> IF x = k THEN v ELSE f[x]]
Drop(f, keys) == Restrict(f, DOMAIN f \ keys)

\* The k-th of some places of a queue, and a queue in which only the tokens in keep
\* stay, in their order.
Nth(places, k) == CHOOSE i \in places : Cardinality({j \in places : j <= i}) = k
Selected(queue, keep) ==
  LET places == {i \in DOMAIN queue : queue[i] \in keep}
  IN  [k \in 1..Cardinality(places) |-> queue[Nth(places, k)]]

-----------------------------------------------------------------------------
(* Sessions.                                                               *)

\* RequireSession: the token is a session's, and its user has not logged in since.
Authed(t) ==
  /\ t \in DOMAIN sessions
  /\ sessions[t].user \in DOMAIN activeToken => activeToken[sessions[t].user] = t

UserOf(t) == sessions[t].user
RoomOf(t) == sessions[t].room

\* FindSessionTokensByUserId and FindSessionsByUserId.
TokensOf(u) == {t \in DOMAIN sessions : Authed(t) /\ UserOf(t) = u}
OnlineTokensOf(u) == {t \in TokensOf(u) : sessions[t].online}

\* BindSessionConnection, and the room the session is in afterwards.
InRoom(t, r) == [sessions EXCEPT ![t].room = r, ![t].online = TRUE]

Fresh(r) ==
  /\ r \in RoomIds \ (DOMAIN pending \cup DOMAIN rooms)
  /\ \A t \in DOMAIN sessions : RoomOf(t) # r

-----------------------------------------------------------------------------
(* Seats of a room in preparation.                                         *)

EmptySeat == [player |-> Nobody, ready |-> FALSE]
SeatOf(u) == [player |-> u, ready |-> FALSE]
BotSeat == [player |-> Bot, ready |-> TRUE]

SeatsHeld(seats, u) == {i \in Seats : seats[i].player = u}
First(indices) == CHOOSE i \in indices : \A j \in indices : i <= j
Full(seats) == SeatsHeld(seats, Nobody) = {}
HumansIn(seats) == {i \in Seats : seats[i].player \in Users}
BotSeats == {p \in (DOMAIN pending) \X Seats : pending[p[1]].seats[p[2]].player = Bot}

\* Mutant of JoinSeat: a player who already sits there gets another seat.
JoinSeatAnew(seats, u) == SeatsHeld(seats, Nobody)

\* The seat JoinRoom gives a player: the first he holds, else the first empty one.
JoinSeat(seats, u) ==
  IF SeatsHeld(seats, u) # {} THEN SeatsHeld(seats, u) ELSE SeatsHeld(seats, Nobody)

\* Mutant of NextOwner: the room stays with the owner who left.
SameOwner(owner, seats, u) == owner

\* Mutant of NextOwner: the first seat that is taken, be it by a bot.
NextInLine(owner, seats, u) ==
  IF owner # u THEN owner
  ELSE LET taken == Seats \ SeatsHeld(seats, Nobody)
       IN  IF taken = {} THEN Nobody ELSE seats[First(taken)].player

\* Who owns the room when u has left these seats.
NextOwner(owner, seats, u) ==
  IF owner # u THEN owner
  ELSE IF HumansIn(seats) = {} THEN Nobody
  ELSE seats[First(HumansIn(seats))].player

\* What RemoveSessionFromPendingRoom leaves of the rooms in preparation.
PendingWithout(u, r) ==
  IF SeatsHeld(pending[r].seats, u) = {} THEN pending
  ELSE LET seats == [pending[r].seats EXCEPT ![First(SeatsHeld(pending[r].seats, u))] = EmptySeat]
       IN  IF SeatsHeld(seats, Nobody) = Seats THEN Drop(pending, {r})
           ELSE [pending EXCEPT ![r] = [owner |-> NextOwner(@.owner, seats, u), seats |-> seats]]

-----------------------------------------------------------------------------
(* Invitations.                                                            *)

InvitesFor(r) == {i \in DOMAIN invitations : invitations[i].room = r}

\* Mutant of Cleared: an answered invitation stays open.
ClearedNone(ids) == {}

\* ClearInvitation.
Cleared(ids) == ids

\* RememberResolvedInvitation and ClearInvitation for every invitation outcome gives
\* a result: outcome is a function from invitation ids to results.
Resolve(outcome) ==
  /\ invitations' = Drop(invitations, Cleared(DOMAIN outcome))
  /\ invitationOf' = Drop(invitationOf, {invitations[i].invitee : i \in Cleared(DOMAIN outcome)})
  /\ resolved' = [i \in DOMAIN outcome \cup DOMAIN resolved |->
                    IF i \in DOMAIN outcome THEN outcome[i] ELSE resolved[i]]

\* ExpireInvitationsForRoom, ExpireInvitationForInvitee and ExpireStaleInvitations.
Expired(ids) == [i \in ids |-> "expired"]

\* Mutant of FilledUp: nobody tells the invited that the room is full.
FilledUpSilently(r, seats) == {}

\* The invitations that expire because nobody can sit down any more.
FilledUp(r, seats) == IF Full(seats) THEN InvitesFor(r) ELSE {}

\* The invitations that expire when u leaves the room.
LeftBehind(u, r) ==
  IF SeatsHeld(pending[r].seats, u) = {} THEN {} ELSE InvitesFor(r)

-----------------------------------------------------------------------------
(* Rooms.                                                                  *)

\* Mutant of Releasable: whoever asks for a new game ends the one he is in.
ReleasableAlways(room) == TRUE

Releasable(room) == room.finished \/ room.mode = "VS_BOT"

\* ReleaseTransientBotRoom: the session's room is over or only its own.
Releases(t) == RoomOf(t) \in DOMAIN rooms /\ Releasable(rooms[RoomOf(t)])
RoomsAfterRelease(t) == IF Releases(t) THEN Drop(rooms, {RoomOf(t)}) ELSE rooms

\* EnsureSessionRoomAvailable, after ReleaseTransientBotRoom.
RoomAvailable(t) == Releases(t) \/ RoomOf(t) \notin DOMAIN pending \cup DOMAIN rooms

SessionCanJoinPendingRoom(t, r) ==
  RoomOf(t) # r /\ RoomOf(t) \in DOMAIN rooms \ DOMAIN pending => rooms[RoomOf(t)].finished

\* StartPreparedRoom: bots or not, the game counts as one between players.
Started(seats) ==
  [mode |-> "PVP", players |-> [i \in Seats |-> seats[i].player], finished |-> FALSE]

\* Mutant of Startable: bots are not counted among those who are ready.
StartableByHumans(seats) == \A i \in Seats : seats[i].player \in Users /\ seats[i].ready

Startable(seats) == Full(seats) /\ \A i \in Seats : seats[i].ready

\* A room after its seats changed: it starts when all three are taken and ready.
SeatsChanged(r, seats) ==
  IF Startable(seats)
  THEN /\ rooms' = Put(rooms, r, Started(seats))
       /\ pending' = Drop(pending, {r})
       /\ Resolve(Expired(InvitesFor(r)))
  ELSE /\ pending' = [pending EXCEPT ![r].seats = seats]
       /\ UNCHANGED rooms
       /\ Resolve(Expired(FilledUp(r, seats)))

\* MaybeCreatePvpRoom drops the tokens it cannot match, and matches the first three.
Matchable(queue, ss) ==
  Selected(queue, {t \in DOMAIN ss :
                     /\ ss[t].online /\ ss[t].room = NoRoom
                     /\ ss[t].user \in DOMAIN activeToken => activeToken[ss[t].user] = t})

-----------------------------------------------------------------------------
Init ==
  /\ sessions = EmptyMap /\ activeToken = EmptyMap
  /\ pending = EmptyMap /\ rooms = EmptyMap /\ waiting = <<>>
  /\ invitations = EmptyMap /\ invitationOf = EmptyMap /\ resolved = EmptyMap

\* Mutant of Superseded: the sessions of the other devices live on.
SupersededNone(u) == {}

Superseded(u) == TokensOf(u)

\* Mutant of ReconnectableRoom: only a running game is taken over.
ReconnectableGame(t) ==
  IF /\ RoomOf(t) \in DOMAIN rooms
     /\ ~rooms[RoomOf(t)].finished
     /\ UserOf(t) \in Range(rooms[RoomOf(t)].players)
  THEN RoomOf(t) ELSE NoRoom

\* ResolveReconnectableRoomId: a new device takes over the room its user sits in,
\* or the unfinished game he plays in.
ReconnectableRoom(t) ==
  LET r == RoomOf(t) IN
  IF \/ r \in DOMAIN pending /\ SeatsHeld(pending[r].seats, UserOf(t)) # {}
     \/ /\ r \in DOMAIN rooms \ DOMAIN pending
        /\ ~rooms[r].finished
        /\ UserOf(t) \in Range(rooms[r].players)
  THEN r ELSE NoRoom

HandleLogin(u, t) ==
  /\ t \notin DOMAIN sessions \cup Range(waiting)
  /\ LET old   == Superseded(u)
         kept  == {ReconnectableRoom(s) : s \in old} \ {NoRoom}
         room  == IF kept = {} THEN NoRoom ELSE CHOOSE r \in kept : TRUE
     IN  /\ sessions' = Put(Drop(sessions, old), t, [user |-> u, room |-> room, online |-> TRUE])
         /\ activeToken' = Put(activeToken, u, t)
         /\ waiting' = Selected(waiting, Tokens \ old)
  /\ Resolve(Expired(IF u \in DOMAIN invitationOf
                     THEN {invitationOf[u]} \cap DOMAIN invitations ELSE {}))
  /\ UNCHANGED <<pending, rooms>>

\* The connection of a session is closed and its last reference dropped.
Disconnect(t) ==
  /\ t \in DOMAIN sessions /\ sessions[t].online
  /\ Cardinality({s \in DOMAIN sessions : ~sessions[s].online}) < MaxOffline
  /\ sessions' = [sessions EXCEPT ![t].online = FALSE]
  /\ UNCHANGED <<activeToken, pending, rooms, waiting, inviteVars>>

\* A heartbeat, or any request that is turned down, ties the session to its connection.
HandleHeartbeat(t) ==
  /\ Authed(t) /\ ~sessions[t].online
  /\ sessions' = [sessions EXCEPT ![t].online = TRUE]
  /\ UNCHANGED <<activeToken, pending, rooms, waiting, inviteVars>>

-----------------------------------------------------------------------------
(* The free match.                                                         *)

\* HandleMatch lets a session through whose room it could release, or that is in none.
MatchAccepted(t) == Authed(t) /\ (Releases(t) \/ RoomOf(t) = NoRoom)

\* HandleMatch against bots, with CreateBotRoom.
HandleMatchVsBot(t) ==
  /\ MatchAccepted(t)
  /\ \E r \in RoomIds :
       /\ Fresh(r)
       /\ sessions' = InRoom(t, r)
       /\ rooms' = Put(RoomsAfterRelease(t), r,
                       [mode |-> "VS_BOT", finished |-> FALSE,
                        players |-> [i \in Seats |-> IF i = 0 THEN UserOf(t) ELSE Bot]])
  /\ UNCHANGED <<activeToken, pending, waiting, inviteVars>>

\* HandleMatch between players, with MaybeCreatePvpRoom.
HandleMatchPvp(t) ==
  /\ MatchAccepted(t)
  /\ LET queue   == IF t \in Range(waiting) THEN waiting ELSE Append(waiting, t)
         mine    == InRoom(t, NoRoom)
         matched == Matchable(queue, mine)
         three   == {matched[i] : i \in 1..3}
     IN  \/ /\ Len(matched) < 3 /\ Len(matched) <= MaxWaiting
            /\ waiting' = matched
            /\ sessions' = mine
            /\ rooms' = RoomsAfterRelease(t)
         \/ /\ Len(matched) >= 3
            /\ waiting' = SubSeq(matched, 4, Len(matched))
            /\ \E r \in RoomIds :
                 /\ Fresh(r)
                 /\ rooms' = Put(RoomsAfterRelease(t), r,
                                 [mode |-> "PVP", finished |-> FALSE,
                                  players |-> [i \in Seats |-> UserOf(matched[i + 1])]])
                 /\ sessions' = [s \in DOMAIN mine |->
                                   IF s \in three THEN [mine[s] EXCEPT !.room = r] ELSE mine[s]]
  /\ UNCHANGED <<activeToken, pending, inviteVars>>

\* HandlePlay with "match:cancel".
CancelMatch(t) ==
  /\ Authed(t)
  /\ t \in Range(waiting)
  /\ sessions' = InRoom(t, RoomOf(t))
  /\ waiting' = Selected(waiting, Tokens \ {t})
  /\ UNCHANGED <<activeToken, pending, rooms, inviteVars>>

-----------------------------------------------------------------------------
(* Rooms in preparation.                                                   *)

HandleCreateRoom(t) ==
  /\ Authed(t) /\ RoomAvailable(t)
  /\ rooms' = RoomsAfterRelease(t)
  /\ \E r \in RoomIds :
       /\ Fresh(r)
       /\ sessions' = InRoom(t, r)
       /\ pending' = Put(pending, r,
                         [owner |-> UserOf(t),
                          seats |-> [i \in Seats |-> IF i = 0 THEN SeatOf(UserOf(t)) ELSE EmptySeat]])
  /\ UNCHANGED <<activeToken, waiting, inviteVars>>

HandleJoinRoom(t, r) ==
  /\ Authed(t) /\ RoomAvailable(t)
  /\ r \in DOMAIN pending
  /\ JoinSeat(pending[r].seats, UserOf(t)) # {}
  /\ LET seat  == First(JoinSeat(pending[r].seats, UserOf(t)))
         seats == [pending[r].seats EXCEPT ![seat] = SeatOf(UserOf(t))]
     IN  /\ pending' = [pending EXCEPT ![r].seats = seats]
         /\ Resolve(Expired(FilledUp(r, seats)))
  /\ sessions' = InRoom(t, r)
  /\ rooms' = RoomsAfterRelease(t)
  /\ UNCHANGED <<activeToken, waiting>>

\* No room has the code, or its seats are taken: the session's own room is gone already.
HandleJoinRoomFails(t) ==
  /\ Authed(t) /\ RoomAvailable(t) /\ RoomOf(t) # NoRoom
  /\ sessions' = InRoom(t, NoRoom)
  /\ rooms' = RoomsAfterRelease(t)
  /\ UNCHANGED <<activeToken, pending, waiting, inviteVars>>

\* HandleLeaveRoom of a room in preparation, the session's own or another, with
\* RemoveSessionFromPendingRoom.
HandleLeavePending(t, r) ==
  /\ Authed(t) /\ r \in DOMAIN pending
  /\ sessions' = InRoom(t, NoRoom)
  /\ pending' = PendingWithout(UserOf(t), r)
  /\ Resolve(Expired(LeftBehind(UserOf(t), r)))
  /\ UNCHANGED <<activeToken, rooms, waiting>>

\* HandleLeaveRoom of a running room.
HandleLeaveGame(t) ==
  /\ Authed(t) /\ RoomOf(t) \in DOMAIN rooms
  /\ rooms[RoomOf(t)].mode = "VS_BOT"
  /\ sessions' = InRoom(t, NoRoom)
  /\ rooms' = Drop(rooms, {RoomOf(t)})
  /\ UNCHANGED <<activeToken, pending, waiting, inviteVars>>

HandleRoomReady(t, r, ready) ==
  /\ Authed(t) /\ r \in DOMAIN pending
  /\ SeatsHeld(pending[r].seats, UserOf(t)) # {}
  /\ SeatsChanged(r, [pending[r].seats EXCEPT
                       ![First(SeatsHeld(pending[r].seats, UserOf(t)))].ready = ready])
  /\ sessions' = InRoom(t, RoomOf(t))
  /\ UNCHANGED <<activeToken, waiting>>

HandleAddBot(t, r, i) ==
  /\ Authed(t) /\ r \in DOMAIN pending /\ pending[r].owner = UserOf(t)
  /\ pending[r].seats[i] = EmptySeat /\ Cardinality(BotSeats) < MaxBots
  /\ SeatsChanged(r, [pending[r].seats EXCEPT ![i] = BotSeat])
  /\ sessions' = InRoom(t, RoomOf(t))
  /\ UNCHANGED <<activeToken, waiting>>

\* HandleRemovePlayer takes a player's first seat, and his online sessions out of
\* whatever room they are in.
HandleRemovePlayer(t, r, i) ==
  /\ Authed(t) /\ r \in DOMAIN pending /\ pending[r].owner = UserOf(t)
  /\ LET who == pending[r].seats[i].player IN
     /\ who # UserOf(t)
     /\ who # Bot => i = First(SeatsHeld(pending[r].seats, who))
     /\ sessions' = [s \in DOMAIN sessions |->
                       IF s \in OnlineTokensOf(who) THEN [sessions[s] EXCEPT !.room = NoRoom]
                       ELSE InRoom(t, RoomOf(t))[s]]
  /\ pending' = [pending EXCEPT ![r].seats[i] = EmptySeat]
  /\ Resolve(Expired(InvitesFor(r)))
  /\ UNCHANGED <<activeToken, rooms, waiting>>

\* What HandleReconnect answers with a snapshot of the session's room.
CanReconnect(t) ==
  \/ RoomOf(t) \in DOMAIN pending /\ SeatsHeld(pending[RoomOf(t)].seats, UserOf(t)) # {}
  \/ RoomOf(t) \in DOMAIN rooms \ DOMAIN pending

\* HandleReconnect forgets a room in preparation the user has no seat in.
HandleReconnectForgets(t) ==
  /\ Authed(t) /\ RoomOf(t) \in DOMAIN pending /\ ~CanReconnect(t)
  /\ sessions' = InRoom(t, NoRoom)
  /\ UNCHANGED <<activeToken, pending, rooms, waiting, inviteVars>>

-----------------------------------------------------------------------------
(* Invitations.                                                            *)

HandleInvitePlayer(t, r, u, i) ==
  /\ Authed(t) /\ r \in DOMAIN pending /\ pending[r].owner = UserOf(t)
  /\ u # UserOf(t) /\ SeatsHeld(pending[r].seats, u) = {}
  /\ pending[r].seats[i] = EmptySeat
  /\ u \notin DOMAIN invitationOf
  /\ \E s \in OnlineTokensOf(u) : SessionCanJoinPendingRoom(s, r)
  /\ \E id \in InviteIds \ (DOMAIN invitations \cup DOMAIN resolved) :
       /\ invitations' = Put(invitations, id,
                             [room |-> r, inviter |-> UserOf(t), invitee |-> u, seat |-> i])
       /\ invitationOf' = Put(invitationOf, u, id)
  /\ sessions' = InRoom(t, RoomOf(t))
  /\ UNCHANGED <<activeToken, pending, rooms, waiting, resolved>>

\* What comes of a yes to an invitation, in the order HandleRespondRoomInvitation asks.
Outcome(t, invite) ==
  IF invite.room \notin DOMAIN pending THEN "expired"
  ELSE IF ~SessionCanJoinPendingRoom(t, invite.room) THEN "failed"
  ELSE IF pending[invite.room].seats[invite.seat].player \notin {Nobody, UserOf(t)} THEN "expired"
  ELSE "accepted"

Invited(t, id) == Authed(t) /\ id \in DOMAIN invitations /\ invitations[id].invitee = UserOf(t)

DeclineInvitation(t, id) ==
  /\ Invited(t, id)
  /\ Resolve([i \in {id} |-> "rejected"])
  /\ sessions' = InRoom(t, RoomOf(t))
  /\ UNCHANGED <<activeToken, pending, rooms, waiting>>

AcceptInvitationFails(t, id) ==
  /\ Invited(t, id)
  /\ Outcome(t, invitations[id]) # "accepted"
  /\ Resolve([i \in {id} |-> Outcome(t, invitations[id])])
  /\ sessions' = InRoom(t, RoomOf(t))
  /\ UNCHANGED <<activeToken, pending, rooms, waiting>>

\* The player leaves the room in preparation he was in, sits down at the invited seat,
\* and when that was the last one the other invitations expire.
AcceptInvitation(t, id) ==
  /\ Invited(t, id)
  /\ Outcome(t, invitations[id]) = "accepted"
  /\ LET r       == invitations[id].room
         leaves  == RoomOf(t) \in DOMAIN pending \ {r}
         others  == IF leaves THEN PendingWithout(UserOf(t), RoomOf(t)) ELSE pending
         seats   == [pending[r].seats EXCEPT ![invitations[id].seat] = SeatOf(UserOf(t))]
         expired == FilledUp(r, seats) \cup IF leaves THEN LeftBehind(UserOf(t), RoomOf(t)) ELSE {}
     IN  /\ pending' = [others EXCEPT ![r].seats = seats]
         /\ Resolve([i \in expired \cup {id} |-> IF i = id THEN "accepted" ELSE "expired"])
         /\ sessions' = InRoom(t, r)
  /\ UNCHANGED <<activeToken, rooms, waiting>>

-----------------------------------------------------------------------------
\* A game ends, by a player's move or the tick thread (Room!CompletePendingFinish).
RoomFinishes(r) ==
  /\ r \in DOMAIN rooms /\ ~rooms[r].finished
  /\ rooms' = [rooms EXCEPT ![r].finished = TRUE]
  /\ UNCHANGED <<sessions, activeToken, pending, waiting, inviteVars>>

\* TickRoomsLoop: the invitations 30 s old expire, and the answers kept for 120 s to
\* be repeated are forgotten.
TickRoomsLoop(due, kept) ==
  /\ due \subseteq DOMAIN invitations /\ kept \subseteq DOMAIN resolved
  /\ invitations' = Drop(invitations, due)
  /\ invitationOf' = Drop(invitationOf, {invitations[i].invitee : i \in due})
  /\ resolved' = [i \in kept \cup due |-> IF i \in due THEN "expired" ELSE resolved[i]]
  /\ UNCHANGED <<sessions, activeToken, pending, rooms, waiting>>

Requests(t) ==
  \/ HandleHeartbeat(t) \/ HandleMatchVsBot(t) \/ HandleMatchPvp(t) \/ CancelMatch(t)
  \/ HandleCreateRoom(t) \/ HandleJoinRoomFails(t) \/ HandleLeaveGame(t)
  \/ HandleReconnectForgets(t)
  \/ \E r \in DOMAIN pending :
       \/ HandleJoinRoom(t, r)
       \/ HandleLeavePending(t, r)
       \/ \E ready \in BOOLEAN : HandleRoomReady(t, r, ready)
       \/ \E i \in Seats :
            \/ HandleAddBot(t, r, i)
            \/ HandleRemovePlayer(t, r, i)
            \/ \E u \in Users : HandleInvitePlayer(t, r, u, i)
  \/ \E id \in DOMAIN invitations :
       DeclineInvitation(t, id) \/ AcceptInvitation(t, id) \/ AcceptInvitationFails(t, id)

Next ==
  \/ \E u \in Users, t \in Tokens : HandleLogin(u, t)
  \/ \E t \in DOMAIN sessions : Requests(t) \/ Disconnect(t)
  \/ \E r \in DOMAIN rooms : RoomFinishes(r)
  \/ \E due \in SUBSET DOMAIN invitations, kept \in SUBSET DOMAIN resolved :
       TickRoomsLoop(due, kept)

Spec == Init /\ [][Next]_vars
=============================================================================
