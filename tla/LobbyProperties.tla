-------------------------- MODULE LobbyProperties --------------------------
(***************************************************************************)
(* What must hold of the lobby, and at the end what its tests say of it    *)
(* and the handlers do not keep.                                           *)
(***************************************************************************)
EXTENDS Lobby

Session == [user : Users, room : RoomIds \cup {NoRoom}, online : BOOLEAN]
Seat == [player : Users \cup {Bot, Nobody}, ready : BOOLEAN]
PendingRoom == [owner : Users \cup {Nobody}, seats : [Seats -> Seat]]
RunningRoom ==
  [mode : {"VS_BOT", "PVP"}, players : [Seats -> Users \cup {Bot}], finished : BOOLEAN]
Invitation == [room : RoomIds, inviter : Users, invitee : Users, seat : Seats]

IsMap(f, keys, values) == DOMAIN f \subseteq keys /\ f \in [DOMAIN f -> values]

\* The entries of each map, among them that a bot never owns a room in preparation
\* (RemoveSessionFromPendingRoom 602-610) and no game starts with an empty seat.
TypeOK ==
  /\ IsMap(sessions, Tokens, Session)
  /\ IsMap(activeToken, Users, Tokens)
  /\ IsMap(pending, RoomIds, PendingRoom)
  /\ IsMap(rooms, RoomIds, RunningRoom)
  /\ waiting \in Seq(Tokens)
  /\ IsMap(invitations, InviteIds, Invitation)
  /\ IsMap(invitationOf, Users, InviteIds)
  /\ IsMap(resolved, InviteIds, {"accepted", "rejected", "expired", "failed"})

\* A user has one session, the one of his last login, however often devices take over
\* from each other; a token waits in the queue once, and only while its session lives
\* (HandleLogin 720-755, MaybeCreatePvpRoom; room_lifecycle_service_test.cpp 689-706).
OneSession ==
  /\ \A t \in DOMAIN sessions :
       UserOf(t) \in DOMAIN activeToken /\ activeToken[UserOf(t)] = t
  /\ \A i, j \in DOMAIN waiting : waiting[i] = waiting[j] => i = j
  /\ Range(waiting) \subseteq DOMAIN sessions

\* A room in preparation holds somebody, and its owner sits in it: no order of leaving,
\* removing, joining and changing rooms by invitation leaves the right to invite, add
\* bots and remove players with someone who is gone (RemoveSessionFromPendingRoom).
OwnerSeated ==
  \A r \in DOMAIN pending :
    /\ SeatsHeld(pending[r].seats, Nobody) # Seats
    /\ pending[r].owner # Nobody => SeatsHeld(pending[r].seats, pending[r].owner) # {}

\* The two maps of open invitations are inverse to each other, so no invitee is blocked
\* by an invitation that is gone; and an open invitation leads somewhere: its room is
\* still in preparation, has an empty seat and is still the inviter's (ClearInvitation,
\* ExpireInvitationsForRoom and its callers).
InvitationsOpen ==
  /\ \A u \in DOMAIN invitationOf :
       invitationOf[u] \in DOMAIN invitations /\ invitations[invitationOf[u]].invitee = u
  /\ \A id \in DOMAIN invitations :
       LET invite == invitations[id] IN
       /\ invite.invitee \in DOMAIN invitationOf /\ invitationOf[invite.invitee] = id
       /\ invite.room \in DOMAIN pending
       /\ pending[invite.room].owner = invite.inviter
       /\ ~Full(pending[invite.room].seats)

\* No game is started with the same player in two of its seats, though in preparation
\* a player can come to hold two: the second one never gets ready (HandleJoinRoom,
\* HandleRespondRoomInvitation, HandleRoomReady, MaybeCreatePvpRoom).
PlayersDistinct ==
  \A r \in DOMAIN rooms : \A i, j \in Seats :
    rooms[r].players[i] \in Users /\ rooms[r].players[i] = rooms[r].players[j] => i = j

\* A room is in preparation or running, not both, and one whose three seats are taken
\* and ready is running: no request leaves it waiting for a press of a button that
\* nobody has to press any more (HandleRoomReady, HandleAddBot, StartPreparedRoom).
StartsWhenReady ==
  /\ DOMAIN pending \cap DOMAIN rooms = {}
  /\ \A r \in DOMAIN pending : \E i \in Seats : ~pending[r].seats[i].ready

-----------------------------------------------------------------------------
\* An invitation comes to one end.  While its result is remembered it is not open, and
\* a later answer, time-out or change of the room does not turn the result into another:
\* the inviter and a repeated answer are told the same (RememberResolvedInvitation,
\* HandleRespondRoomInvitation 1617-1636).
SettledOnce ==
  [][\A id \in DOMAIN resolved :
       /\ id \notin DOMAIN invitations /\ id \notin DOMAIN invitations'
       /\ id \in DOMAIN resolved' => resolved'[id] = resolved[id]]_vars

\* A game between players goes on until it is finished, whatever one of them asks for
\* meanwhile (ReleaseTransientBotRoom, HandleLeaveRoom, HandleMatch).
GameGoesOn ==
  [][\A r \in DOMAIN rooms :
       rooms[r].mode = "PVP" /\ ~rooms[r].finished =>
         r \in DOMAIN rooms' /\ rooms'[r].players = rooms[r].players]_vars

\* A session a login puts an end to hands over the seat and the unfinished game its user
\* has: the new device can reconnect into it, and answers for the user from then on
\* (HandleLogin, ResolveReconnectableRoomId; room_lifecycle_service_test.cpp 712-715).
HasPlace(t) ==
  /\ CanReconnect(t)
  /\ RoomOf(t) \in DOMAIN rooms =>
       ~rooms[RoomOf(t)].finished /\ UserOf(t) \in Range(rooms[RoomOf(t)].players)
DeviceTakesOver ==
  [][\A t \in DOMAIN sessions \ DOMAIN sessions', new \in Tokens :
       activeToken'[UserOf(t)] = new =>
         /\ sessions'[new].room = IF HasPlace(t) THEN RoomOf(t) ELSE NoRoom
         /\ HasPlace(t) => HasPlace(new)']_vars

-----------------------------------------------------------------------------
(* What the tests say, and a longer sequence of requests refutes.          *)

\* "removed guest should not be able to reconnect into the old room"
\* (room_lifecycle_service_test.cpp 645): who can reconnect into a game plays in it.
\* A guest removed while his connection is down keeps his room id.
RemovedStaysOut ==
  \A t \in DOMAIN sessions :
    CanReconnect(t) /\ RoomOf(t) \in DOMAIN rooms =>
      UserOf(t) \in Range(rooms[RoomOf(t)].players)

\* "inviter room should contain inviter and invitee after accept"
\* (room_lifecycle_service_test.cpp 502-503, which counts two seats taken): nobody holds
\* two seats.  An invitee who came in by the room code first is seated again.
SeatedOnce ==
  \A r \in DOMAIN pending, u \in Users : Cardinality(SeatsHeld(pending[r].seats, u)) <= 1
=============================================================================
