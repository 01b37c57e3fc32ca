---------------------------- MODULE LobbyProofs ----------------------------
(***************************************************************************)
(* The safety and the action properties of the lobby, for any number of    *)
(* users, tokens, rooms and invitations.  LobbyInvariant is the inductive  *)
(* invariant.  Beside the properties it says what their proofs need of a   *)
(* room: a player is ready in the first of his seats at most, since        *)
(* HandleRoomReady looks for the first, and an invitation whose seat is    *)
(* still empty lies behind every seat its invitee has taken meanwhile,     *)
(* since HandleJoinRoom gives out the first empty one.  After lemmas on    *)
(* maps, the queue, seats, rooms and invitations, one lemma per handler    *)
(* shows that it keeps the invariant and Settled.                          *)
(***************************************************************************)
EXTENDS LobbyProperties, FiniteSetTheorems, WellFoundedInduction, TLAPS

\* What may become of an invitation.
Results == {"accepted", "rejected", "expired", "failed"}
Distinct(queue) == \A i, j \in DOMAIN queue : queue[i] = queue[j] => i = j

\* Sessions, tokens and the queue fit together.
SessionsInv ==
  /\ IsMap(sessions, Tokens, Session) /\ IsMap(activeToken, Users, Tokens)
  /\ \A t \in DOMAIN sessions :
       UserOf(t) \in DOMAIN activeToken /\ activeToken[UserOf(t)] = t
  /\ waiting \in Seq(Tokens) /\ Distinct(waiting) /\ Range(waiting) \subseteq DOMAIN sessions

\* An empty seat is not ready, and a player is ready in the first of his seats at most.
SeatRules(seats) ==
  /\ \A i \in Seats : seats[i].player = Nobody => ~seats[i].ready
  /\ \A i, j \in Seats :
       seats[i].ready /\ seats[i].player \in Users /\ seats[j].player = seats[i].player => i <= j

\* A room in preparation waits for somebody, holds somebody, and its owner sits in it.
RoomRules(room) ==
  /\ SeatRules(room.seats)
  /\ \E i \in Seats : ~room.seats[i].ready
  /\ \E i \in Seats : room.seats[i].player # Nobody
  /\ room.owner # Nobody => \E i \in Seats : room.seats[i].player = room.owner

\* Nobody plays two hands.
PlayedOnce(room) ==
  \A i, j \in Seats :
    room.players[i] \in Users /\ room.players[i] = room.players[j] => i = j

PreparedOK(map) == IsMap(map, RoomIds, PendingRoom) /\ \A r \in DOMAIN map : RoomRules(map[r])
RunningOK(map) == IsMap(map, RoomIds, RunningRoom) /\ \A r \in DOMAIN map : PlayedOnce(map[r])

RoomsInv == PreparedOK(pending) /\ RunningOK(rooms) /\ DOMAIN pending \cap DOMAIN rooms = {}

\* The maps of open invitations are inverse, and what has a result is not open.
InviteMaps ==
  /\ IsMap(invitations, InviteIds, Invitation)
  /\ IsMap(invitationOf, Users, InviteIds)
  /\ IsMap(resolved, InviteIds, Results)
  /\ DOMAIN invitations \cap DOMAIN resolved = {}
  /\ \A u \in DOMAIN invitationOf :
       invitationOf[u] \in DOMAIN invitations /\ invitations[invitationOf[u]].invitee = u
  /\ \A id \in DOMAIN invitations :
       invitations[id].invitee \in DOMAIN invitationOf /\ invitationOf[invitations[id].invitee] = id

\* An invitation into a room: sent by its owner, who has an empty seat left; and if the
\* invited seat is still empty, the invitee who came in otherwise sits before it.
Leads(invite, room) ==
  /\ room.owner = invite.inviter
  /\ \E i \in Seats : room.seats[i].player = Nobody
  /\ room.seats[invite.seat].player = Nobody =>
       \A j \in Seats : room.seats[j].player = invite.invitee =>
         \E k \in Seats : k < invite.seat /\ room.seats[k].player = invite.invitee

InvitesLead ==
  \A id \in DOMAIN invitations :
    /\ invitations[id].room \in DOMAIN pending
    /\ Leads(invitations[id], pending[invitations[id].room])

LobbyInvariant == SessionsInv /\ RoomsInv /\ InviteMaps /\ InvitesLead
-----------------------------------------------------------------------------
(* Maps.                                                                   *)

LEMMA PutFacts ==
  \A f, k, v :
    /\ DOMAIN Put(f, k, v) = DOMAIN f \cup {k}
    /\ Put(f, k, v)[k] = v
    /\ \A x \in DOMAIN f \ {k} : Put(f, k, v)[x] = f[x]
  BY DEF Put

LEMMA PutType ==
  ASSUME NEW K, NEW V, NEW f, IsMap(f, K, V), NEW k \in K, NEW v \in V
  PROVE  IsMap(Put(f, k, v), K, V)
  BY DEF IsMap, Put

LEMMA DropFacts ==
  \A f, keys :
    /\ DOMAIN Drop(f, keys) = DOMAIN f \ keys
    /\ \A x \in DOMAIN f \ keys : Drop(f, keys)[x] = f[x]
  BY DEF Drop, Restrict

LEMMA DropType ==
  ASSUME NEW K, NEW V, NEW f, IsMap(f, K, V), NEW keys
  PROVE  IsMap(Drop(f, keys), K, V)
  BY DEF IsMap, Drop, Restrict

-----------------------------------------------------------------------------
(* The queue: what Selected leaves of it, for every queue.                 *)

Below == {p \in Nat \X Nat : p[1] < p[2]}

LEMMA BelowIsWellFounded == IsWellFoundedOn(Below, Nat)
<1>1. OpToRel(<, Nat) = Below
  BY DEF OpToRel, Below
<1> QED
  BY <1>1, NatLessThanWellFounded

\* A set of natural numbers has a least one.
LEMMA LeastNatural ==
  ASSUME NEW T \in SUBSET Nat, T # {}
  PROVE  \E n \in T : \A m \in T : n <= m
<1>1. PICK n \in T : \A m \in T : <<m, n>> \notin Below
  BY BelowIsWellFounded, WFMin, Zenon
<1>2. ASSUME NEW m \in T PROVE n <= m
  <2>1. <<m, n>> \in Nat \X Nat /\ <<m, n>>[1] = m /\ <<m, n>>[2] = n
    OBVIOUS
  <2>2. ~(m < n)
    BY <1>1, <2>1 DEF Below
  <2> QED
    BY <2>2
<1> QED
  BY <1>2

\* Counting the places from the front, the k-th is where the count reaches k.
LEMMA NthPlace ==
  ASSUME NEW n \in Nat, NEW places \in SUBSET (1..n), NEW k \in 1..Cardinality(places)
  PROVE  /\ Nth(places, k) \in places
         /\ Cardinality({j \in places : j <= Nth(places, k)}) = k
<1> DEFINE UpTo(i) == {j \in places : j <= i}
           T == {i \in Nat : Cardinality(UpTo(i)) >= k}
<1>1. IsFiniteSet(places)
  <2>1. IsFiniteSet(1..n)
    BY FS_Interval
  <2> QED
    BY <2>1, FS_Subset
<1>2. \A i \in Nat : IsFiniteSet(UpTo(i)) /\ Cardinality(UpTo(i)) \in Nat
  BY <1>1, FS_Subset, FS_CardinalityType
<1>3. UpTo(n) = places
  <2>1. \A j \in places : j <= n
    OBVIOUS
  <2> QED
    BY <2>1
<1>4. UpTo(0) = {}
  <2>1. \A j \in places : ~(j <= 0)
    OBVIOUS
  <2> QED
    BY <2>1
<1>5. k \in Nat /\ k >= 1 /\ Cardinality(places) >= k
  BY <1>1, FS_CardinalityType
<1>6. n \in T
  BY <1>3, <1>5
<1>7. PICK m \in T : \A i \in T : m <= i
  BY <1>6, LeastNatural
<1>8. m \in Nat /\ Cardinality(UpTo(m)) >= k
  OBVIOUS
<1>9. m # 0
  BY <1>4, <1>5, <1>8, FS_EmptySet
<1>10. m - 1 \in Nat /\ m - 1 \notin T
  <2>1. m - 1 \in Nat /\ ~(m <= m - 1)
    BY <1>8, <1>9
  <2> HIDE DEF T
  <2> QED
    BY <1>7, <2>1
<1>11. ~(Cardinality(UpTo(m - 1)) >= k)
  BY <1>10
<1>12. /\ m \notin UpTo(m - 1)
       /\ UpTo(m) = IF m \in places THEN UpTo(m - 1) \cup {m} ELSE UpTo(m - 1)
  <2>1. \A j \in places : j <= m <=> (j <= m - 1 \/ j = m)
    BY <1>8, <1>9
  <2>2. ~(m <= m - 1)
    BY <1>8
  <2> QED
    BY <2>1, <2>2
<1>13. m \in places /\ Cardinality(UpTo(m)) = k
  <2> HIDE DEF UpTo, T
  <2>1. Cardinality(UpTo(m - 1) \cup {m}) = Cardinality(UpTo(m - 1)) + 1
    BY <1>2, <1>10, <1>12, FS_AddElement
  <2>2. Cardinality(UpTo(m - 1)) \in Nat
    BY <1>2, <1>10
  <2> QED
    BY <1>5, <1>8, <1>11, <1>12, <2>1, <2>2
<1> QED
  BY <1>13 DEF Nth

\* Selected returns a sequence of tokens of the queue that are in keep, each once if
\* the queue has each once.
LEMMA SelectedFacts ==
  ASSUME NEW S, NEW queue \in Seq(S), NEW keep
  PROVE  /\ Selected(queue, keep) \in Seq(S)
         /\ \A k \in DOMAIN Selected(queue, keep) :
              \E i \in DOMAIN queue : Selected(queue, keep)[k] = queue[i] /\ queue[i] \in keep
         /\ Distinct(queue) => Distinct(Selected(queue, keep))
<1> DEFINE places == {i \in DOMAIN queue : queue[i] \in keep}
<1>1. places \in SUBSET (1..Len(queue)) /\ Len(queue) \in Nat
  OBVIOUS
<1>2. \A k \in 1..Cardinality(places) :
        Nth(places, k) \in places /\ Cardinality({j \in places : j <= Nth(places, k)}) = k
  BY <1>1, NthPlace
<1>3. Cardinality(places) \in Nat
  <2>1. IsFiniteSet(1..Len(queue))
    BY <1>1, FS_Interval
  <2> QED
    BY <1>1, <2>1, FS_Subset, FS_CardinalityType
<1>4. Selected(queue, keep) = [k \in 1..Cardinality(places) |-> queue[Nth(places, k)]]
  BY DEF Selected
<1>5. \A i \in places : i \in DOMAIN queue /\ queue[i] \in S /\ queue[i] \in keep
  OBVIOUS
<1> HIDE DEF places
<1>6. Selected(queue, keep) \in Seq(S) /\ DOMAIN Selected(queue, keep) = 1..Cardinality(places)
  <2>1. \A k \in 1..Cardinality(places) : queue[Nth(places, k)] \in S
    BY <1>2, <1>5
  <2> QED
    BY <1>3, <1>4, <2>1
<1>7. \A k \in 1..Cardinality(places) : Selected(queue, keep)[k] = queue[Nth(places, k)]
  BY <1>4
<1>8. \A i, j \in 1..Cardinality(places) : Nth(places, i) = Nth(places, j) => i = j
  BY <1>2
<1> QED
  BY <1>2, <1>5, <1>6, <1>7, <1>8 DEF Distinct
-----------------------------------------------------------------------------
(* Sessions.                                                               *)

\* The sessions are the same, of the same users, wherever they are and are connected.
SessionsStay ==
  /\ sessions' \in [DOMAIN sessions -> Session]
  /\ \A t \in DOMAIN sessions : sessions'[t].user = sessions[t].user
  /\ activeToken' = activeToken

LEMMA SessionsStayKeeps ==
  ASSUME SessionsInv, SessionsStay,
         waiting' \in Seq(Tokens), Distinct(waiting'), Range(waiting') \subseteq DOMAIN sessions
  PROVE  SessionsInv'
  BY DEF SessionsInv, SessionsStay, IsMap, UserOf, Distinct, Range

LEMMA InRoomFacts ==
  ASSUME SessionsInv, NEW t \in DOMAIN sessions, NEW r \in RoomIds \cup {NoRoom}
  PROVE  /\ InRoom(t, r) \in [DOMAIN sessions -> Session]
         /\ \A s \in DOMAIN sessions : InRoom(t, r)[s].user = sessions[s].user
<1>1. sessions \in [DOMAIN sessions -> Session]
  BY DEF SessionsInv, IsMap
<1>2. ASSUME NEW s \in DOMAIN sessions
      PROVE  InRoom(t, r)[s] \in Session /\ InRoom(t, r)[s].user = sessions[s].user
  BY <1>1 DEF InRoom, Session
<1>3. InRoom(t, r) = [s \in DOMAIN sessions |-> InRoom(t, r)[s]]
  BY DEF InRoom
<1> QED
  BY <1>2, <1>3

LEMMA RoomOfType ==
  ASSUME SessionsInv, NEW t \in DOMAIN sessions
  PROVE  RoomOf(t) \in RoomIds \cup {NoRoom} /\ UserOf(t) \in Users
  BY DEF SessionsInv, IsMap, Session, RoomOf, UserOf

\* A request that only moves its session to a room keeps SessionsInv.
LEMMA MoveKeepsSessions ==
  ASSUME SessionsInv, NEW t \in DOMAIN sessions, NEW r \in RoomIds \cup {NoRoom},
         sessions' = InRoom(t, r), UNCHANGED <<activeToken, waiting>>
  PROVE  SessionsInv'
<1>1. SessionsStay
  BY InRoomFacts DEF SessionsStay
<1> QED
  BY <1>1, SessionsStayKeeps DEF SessionsInv

LEMMA AuthedIsSession ==
  ASSUME NEW t, Authed(t)
  PROVE  t \in DOMAIN sessions
  BY DEF Authed

\* A user has no second session.
LEMMA TokensOfUser ==
  ASSUME SessionsInv, NEW u \in Users
  PROVE  TokensOf(u) = {t \in DOMAIN sessions : UserOf(t) = u}
<1>1. \A t \in DOMAIN sessions : Authed(t)
  BY DEF SessionsInv, Authed, UserOf
<1> QED
  BY <1>1 DEF TokensOf

LEMMA LoginKeepsSessions ==
  ASSUME SessionsInv, NEW u \in Users, NEW t \in Tokens,
         HandleLogin(u, t), \A s \in DOMAIN sessions : ReconnectableRoom(s) \in RoomIds \cup {NoRoom}
  PROVE  SessionsInv'
<1> DEFINE old  == TokensOf(u)
           kept == {ReconnectableRoom(s) : s \in old} \ {NoRoom}
           room == IF kept = {} THEN NoRoom ELSE CHOOSE r \in kept : TRUE
           new  == [user |-> u, room |-> room, online |-> TRUE]
<1>1. old = {s \in DOMAIN sessions : UserOf(s) = u}
  BY TokensOfUser
<1>2. new \in Session
  <2>1. kept \subseteq RoomIds
    BY <1>1
  <2>2. room \in RoomIds \cup {NoRoom}
    BY <2>1
  <2> HIDE DEF room
  <2> QED
    BY <2>2 DEF Session
<1>3. /\ t \notin DOMAIN sessions
      /\ sessions' = Put(Drop(sessions, old), t, new)
      /\ activeToken' = Put(activeToken, u, t)
      /\ waiting' = Selected(waiting, Tokens \ old)
  BY DEF HandleLogin, Superseded
<1> HIDE DEF new, old
<1>4. /\ IsMap(Drop(sessions, old), Tokens, Session)
      /\ DOMAIN Drop(sessions, old) = DOMAIN sessions \ old
      /\ \A s \in DOMAIN sessions \ old : Drop(sessions, old)[s] = sessions[s]
  BY DropFacts, DropType DEF SessionsInv
<1>5. /\ IsMap(sessions', Tokens, Session)
      /\ DOMAIN sessions' = (DOMAIN sessions \ old) \cup {t}
      /\ sessions'[t] = new
      /\ \A s \in DOMAIN sessions \ old : sessions'[s] = sessions[s]
  BY <1>2, <1>3, <1>4, PutType DEF Put
<1>6. /\ IsMap(activeToken', Users, Tokens)
      /\ DOMAIN activeToken' = DOMAIN activeToken \cup {u}
      /\ activeToken'[u] = t
      /\ \A v \in DOMAIN activeToken \ {u} : activeToken'[v] = activeToken[v]
  <2>1. IsMap(activeToken', Users, Tokens)
    BY <1>3, PutType DEF SessionsInv
  <2> QED
    BY <1>3, <2>1 DEF Put
<1>7. \A s \in DOMAIN sessions' :
        sessions'[s].user \in DOMAIN activeToken' /\ activeToken'[sessions'[s].user] = s
  <2>1. new.user = u
    BY DEF new
  <2> QED
    BY <1>1, <1>5, <1>6, <2>1 DEF SessionsInv, UserOf
<1>8. /\ waiting' \in Seq(Tokens) /\ Distinct(waiting')
      /\ \A k \in DOMAIN waiting' : waiting'[k] \in DOMAIN sessions'
  <2>1. \A i \in DOMAIN waiting : waiting[i] \in DOMAIN sessions
    BY DEF SessionsInv, Range
  <2>2. waiting \in Seq(Tokens) /\ Distinct(waiting)
    BY DEF SessionsInv
  <2>3. /\ waiting' \in Seq(Tokens) /\ Distinct(waiting')
        /\ \A k \in DOMAIN waiting' :
             \E i \in DOMAIN waiting : waiting'[k] = waiting[i] /\ waiting[i] \in Tokens \ old
    <3> DEFINE keep == Tokens \ old
    <3>1. waiting' = Selected(waiting, keep)
      BY <1>3
    <3> HIDE DEF keep
    <3>2. /\ waiting' \in Seq(Tokens) /\ Distinct(waiting')
          /\ \A k \in DOMAIN waiting' :
               \E i \in DOMAIN waiting : waiting'[k] = waiting[i] /\ waiting[i] \in keep
      BY <2>2, <3>1, SelectedFacts, Zenon
    <3> QED
      BY <3>2 DEF keep
  <2>4. ASSUME NEW k \in DOMAIN waiting' PROVE waiting'[k] \in DOMAIN sessions'
    <3>1. PICK i \in DOMAIN waiting : waiting'[k] = waiting[i] /\ waiting[i] \in Tokens \ old
      BY <2>3
    <3>2. waiting[i] \in DOMAIN sessions \ old
      BY <2>1, <3>1
    <3> QED
      BY <1>5, <3>1, <3>2
  <2> QED
    BY <2>3, <2>4
<1> QED
  BY <1>5, <1>6, <1>7, <1>8 DEF SessionsInv, UserOf, Range, Distinct

LEMMA CancelKeepsSessions ==
  ASSUME SessionsInv, NEW t, CancelMatch(t)
  PROVE  SessionsInv'
<1>1. SessionsStay
  BY InRoomFacts, RoomOfType, AuthedIsSession DEF CancelMatch, SessionsStay
<1> DEFINE keep == Tokens \ {t}
<1>2. waiting' = Selected(waiting, keep)
  BY DEF CancelMatch
<1>3. \A i \in DOMAIN waiting : waiting[i] \in DOMAIN sessions
  BY DEF SessionsInv, Range
<1>4. /\ waiting' \in Seq(Tokens) /\ Distinct(waiting')
      /\ \A k \in DOMAIN waiting' : waiting'[k] \in DOMAIN sessions
  <2>1. waiting \in Seq(Tokens) /\ Distinct(waiting)
    BY DEF SessionsInv
  <2>2. /\ waiting' \in Seq(Tokens) /\ Distinct(waiting')
        /\ \A k \in DOMAIN waiting' :
             \E i \in DOMAIN waiting : waiting'[k] = waiting[i] /\ waiting[i] \in keep
    <3> HIDE DEF keep
    <3> QED
      BY <1>2, <2>1, SelectedFacts, Zenon
  <2> QED
    BY <1>3, <2>2
<1> QED
  BY <1>1, <1>4, SessionsStayKeeps DEF Range

\* The queue HandleMatch looks at, and the tokens in it that can be matched.
Queue(t) == IF t \in Range(waiting) THEN waiting ELSE Append(waiting, t)
Matched(t) == Matchable(Queue(t), InRoom(t, NoRoom))

LEMMA QueueFacts ==
  ASSUME SessionsInv, NEW t \in DOMAIN sessions
  PROVE  /\ Queue(t) \in Seq(Tokens) /\ Distinct(Queue(t))
         /\ \A i \in DOMAIN Queue(t) : Queue(t)[i] \in DOMAIN sessions
<1>1. /\ waiting \in Seq(Tokens) /\ Distinct(waiting) /\ t \in Tokens
      /\ \A i \in DOMAIN waiting : waiting[i] \in DOMAIN sessions
  BY DEF SessionsInv, IsMap, Range
<1>2. CASE t \in Range(waiting)
  BY <1>1, <1>2 DEF Queue
<1>3. CASE t \notin Range(waiting)
  <2>1. Queue(t) = Append(waiting, t)
    BY <1>3 DEF Queue
  <2>2. \A i \in DOMAIN waiting : waiting[i] # t
    BY <1>3 DEF Range
  <2> QED
    BY <1>1, <2>1, <2>2 DEF Distinct
<1> QED
  BY <1>2, <1>3

LEMMA MatchedFacts ==
  ASSUME SessionsInv, NEW t \in DOMAIN sessions
  PROVE  /\ Matched(t) \in Seq(Tokens) /\ Distinct(Matched(t))
         /\ \A k \in DOMAIN Matched(t) : Matched(t)[k] \in DOMAIN sessions
<1>1. PICK keep : Matched(t) = Selected(Queue(t), keep)
  BY DEF Matched, Matchable
<1> DEFINE queue == Queue(t)
           all   == Selected(queue, keep)
<1>2. queue \in Seq(Tokens) /\ Distinct(queue)
  BY QueueFacts
<1>3. /\ all \in Seq(Tokens) /\ Distinct(all)
      /\ \A k \in DOMAIN all :
           \E i \in DOMAIN queue : all[k] = queue[i] /\ queue[i] \in keep
  <2> HIDE DEF queue
  <2> QED
    BY <1>2, SelectedFacts
<1> QED
  BY <1>1, <1>3, QueueFacts

\* The two ways out of HandleMatch between players.
Waits(t) ==
  /\ waiting' = Matched(t)
  /\ sessions' = InRoom(t, NoRoom)
  /\ rooms' = RoomsAfterRelease(t)
Starts(t, r) ==
  /\ Len(Matched(t)) >= 3
  /\ waiting' = SubSeq(Matched(t), 4, Len(Matched(t)))
  /\ Fresh(r)
  /\ rooms' = Put(RoomsAfterRelease(t), r,
                  [mode |-> "PVP", finished |-> FALSE,
                   players |-> [i \in Seats |-> UserOf(Matched(t)[i + 1])]])
  /\ sessions' = [s \in DOMAIN InRoom(t, NoRoom) |->
                    IF s \in {Matched(t)[i] : i \in 1..3}
                    THEN [InRoom(t, NoRoom)[s] EXCEPT !.room = r] ELSE InRoom(t, NoRoom)[s]]

LEMMA MatchCases ==
  ASSUME NEW t, HandleMatchPvp(t)
  PROVE  /\ Authed(t) /\ UNCHANGED <<activeToken, pending, inviteVars>>
         /\ Waits(t) \/ \E r \in RoomIds : Starts(t, r)
  BY DEF HandleMatchPvp, MatchAccepted, Waits, Starts, Matched, Queue

LEMMA MatchKeepsSessions ==
  ASSUME SessionsInv, NEW t, HandleMatchPvp(t)
  PROVE  SessionsInv'
<1> DEFINE matched == Matched(t)
           mine    == InRoom(t, NoRoom)
<1>1. t \in DOMAIN sessions /\ activeToken' = activeToken
  BY MatchCases, AuthedIsSession
<1>2. /\ matched \in Seq(Tokens) /\ Distinct(matched)
      /\ \A k \in DOMAIN matched : matched[k] \in DOMAIN sessions
  BY <1>1, MatchedFacts
<1>3. /\ mine \in [DOMAIN sessions -> Session]
      /\ \A s \in DOMAIN sessions : mine[s].user = sessions[s].user
  BY <1>1, InRoomFacts
<1>4. CASE Waits(t)
  <2>1. SessionsStay
    BY <1>1, <1>3, <1>4 DEF SessionsStay, Waits
  <2>2. waiting' = matched
    BY <1>4 DEF Waits
  <2> HIDE DEF matched
  <2>3. Range(waiting') \subseteq DOMAIN sessions
    BY <1>2, <2>2 DEF Range
  <2> QED
    BY <1>2, <2>1, <2>2, <2>3, SessionsStayKeeps
<1>5. ASSUME NEW r \in RoomIds, Starts(t, r) PROVE SessionsInv'
  <2>1. /\ waiting' = SubSeq(matched, 4, Len(matched))
        /\ \E three : sessions' = [s \in DOMAIN mine |->
                        IF s \in three THEN [mine[s] EXCEPT !.room = r] ELSE mine[s]]
    BY <1>5 DEF Starts
  <2> HIDE DEF mine, matched
  <2>2. SessionsStay
    BY <1>1, <1>3, <2>1 DEF SessionsStay, Session
  <2>3. \A k \in DOMAIN SubSeq(matched, 4, Len(matched)) :
          k + 3 \in DOMAIN matched /\ SubSeq(matched, 4, Len(matched))[k] = matched[k + 3]
    BY <1>2
  <2>4. SubSeq(matched, 4, Len(matched)) \in Seq(Tokens)
    BY <1>2
  <2>5. Distinct(SubSeq(matched, 4, Len(matched)))
    BY <1>2, <2>3, <2>4 DEF Distinct
  <2>6. Range(waiting') \subseteq DOMAIN sessions
    BY <1>2, <2>1, <2>3 DEF Range
  <2> QED
    BY <2>1, <2>2, <2>4, <2>5, <2>6, SessionsStayKeeps
<1> QED
  BY <1>4, <1>5, MatchCases

-----------------------------------------------------------------------------
(* Seats of a room in preparation.                                         *)

SeatMap == [Seats -> Seat]
SatBy(seats, p) == \E i \in Seats : seats[i].player = p

LEMMA NobodyIsNoUser == Nobody \notin Users /\ Bot \notin Users /\ Nobody # Bot
  BY LobbyAssumption DEF Nobody, Bot

LEMMA FirstFacts ==
  ASSUME NEW S \in SUBSET Seats, S # {}
  PROVE  First(S) \in S /\ \A j \in S : First(S) <= j
<1>1. S \in SUBSET Nat
  BY DEF Seats
<1>2. \E i \in S : \A j \in S : i <= j
  BY <1>1, LeastNatural
<1> QED
  BY <1>2 DEF First

\* A player sits down, on a seat of his own or on an empty one behind his first.
LEMMA SitDown ==
  ASSUME NEW seats \in SeatMap, SeatRules(seats), NEW u \in Users, NEW i \in Seats,
         seats[i].player \in {Nobody, u},
         \/ seats[i].player = u
         \/ \A j \in Seats : seats[j].player = u =>
              \E k \in Seats : k < i /\ seats[k].player = u,
         NEW new, new = [seats EXCEPT ![i] = SeatOf(u)]
  PROVE  /\ new \in SeatMap /\ SeatRules(new) /\ ~new[i].ready /\ SatBy(new, u)
         /\ \A p : p # Nobody /\ SatBy(seats, p) => SatBy(new, p)
<1>1. u # Nobody
  BY NobodyIsNoUser
<1>2. SeatOf(u) \in Seat /\ SeatOf(u).player = u /\ ~SeatOf(u).ready
  BY DEF SeatOf, Seat
<1>3. /\ new \in SeatMap /\ new[i] = SeatOf(u)
      /\ \A j \in Seats : j # i => new[j] = seats[j]
  BY <1>2 DEF SeatMap
<1>4. Seats \subseteq Int
  BY DEF Seats
<1>5. SeatRules(new)
  <2>1. \A a \in Seats : new[a].player = Nobody => ~new[a].ready
    BY <1>1, <1>2, <1>3 DEF SeatRules
  <2>2. ASSUME NEW a \in Seats, NEW b \in Seats,
               new[a].ready, new[a].player \in Users, new[b].player = new[a].player
        PROVE  a <= b
    <3>1. a # i /\ new[a] = seats[a]
      BY <1>2, <1>3, <2>2
    <3>2. CASE b # i
      BY <1>3, <2>2, <3>1, <3>2 DEF SeatRules
    <3>3. CASE b = i
      <4>1. seats[a].player = u /\ seats[a].ready
        BY <1>2, <1>3, <2>2, <3>1, <3>3
      <4>2. CASE seats[i].player = u
        BY <3>3, <4>1, <4>2 DEF SeatRules
      <4>3. CASE seats[i].player # u
        <5>1. PICK k \in Seats : k < i /\ seats[k].player = u
          BY <4>1, <4>3
        <5>2. a <= k
          BY <4>1, <5>1 DEF SeatRules
        <5> QED
          BY <1>4, <3>3, <5>1, <5>2
      <4> QED
        BY <4>2, <4>3
    <3> QED
      BY <3>2, <3>3
  <2> QED
    BY <2>1, <2>2 DEF SeatRules
<1>6. ASSUME NEW p, p # Nobody, SatBy(seats, p) PROVE SatBy(new, p)
  BY <1>2, <1>3, <1>6 DEF SatBy
<1> QED
  BY <1>2, <1>3, <1>5, <1>6 DEF SatBy

\* Somebody's seat is freed.
LEMMA StandUp ==
  ASSUME NEW seats \in SeatMap, SeatRules(seats), NEW i \in Seats,
         NEW new, new = [seats EXCEPT ![i] = EmptySeat]
  PROVE  /\ new \in SeatMap /\ SeatRules(new) /\ ~new[i].ready
         /\ \A p : p # seats[i].player /\ SatBy(seats, p) => SatBy(new, p)
<1>1. EmptySeat \in Seat /\ EmptySeat.player = Nobody /\ ~EmptySeat.ready
  BY DEF EmptySeat, Seat
<1>2. /\ new \in SeatMap /\ new[i] = EmptySeat
      /\ \A j \in Seats : j # i => new[j] = seats[j]
  BY <1>1 DEF SeatMap
<1>3. SeatRules(new)
  BY <1>1, <1>2, NobodyIsNoUser DEF SeatRules
<1> QED
  BY <1>1, <1>2, <1>3 DEF SatBy

\* A player gets ready, or not, in the first of his seats.
LEMMA GetReady ==
  ASSUME NEW seats \in SeatMap, SeatRules(seats), NEW u \in Users, NEW i \in Seats,
         seats[i].player = u, \A j \in Seats : seats[j].player = u => i <= j,
         NEW new \in SeatMap, new[i].player = u,
         \A j \in Seats : j # i => new[j] = seats[j]
  PROVE  SeatRules(new) /\ \A j \in Seats : new[j].player = seats[j].player
<1>1. \A j \in Seats : new[j].player = seats[j].player
  OBVIOUS
<1>2. \A a \in Seats : new[a].player = Nobody => ~new[a].ready
  BY NobodyIsNoUser DEF SeatRules
<1>3. ASSUME NEW a \in Seats, NEW b \in Seats,
             new[a].ready, new[a].player \in Users, new[b].player = new[a].player
      PROVE  a <= b
  <2>1. CASE a = i
    BY <1>1, <1>3, <2>1
  <2>2. CASE a # i
    BY <1>1, <1>3, <2>2 DEF SeatRules
  <2> QED
    BY <2>1, <2>2
<1> QED
  BY <1>1, <1>2, <1>3 DEF SeatRules

\* A bot takes an empty seat.
LEMMA BotSitsDown ==
  ASSUME NEW seats \in SeatMap, SeatRules(seats), NEW i \in Seats, seats[i] = EmptySeat,
         NEW new, new = [seats EXCEPT ![i] = BotSeat]
  PROVE  /\ new \in SeatMap /\ SeatRules(new) /\ SatBy(new, Bot)
         /\ \A p : p # Nobody /\ SatBy(seats, p) => SatBy(new, p)
<1>1. BotSeat \in Seat /\ BotSeat.player = Bot
  BY DEF BotSeat, Seat
<1>2. /\ new \in SeatMap /\ new[i] = BotSeat
      /\ \A j \in Seats : j # i => new[j] = seats[j]
  BY <1>1 DEF SeatMap
<1>3. SeatRules(new)
  BY <1>1, <1>2, NobodyIsNoUser DEF SeatRules
<1>4. seats[i].player = Nobody
  BY DEF EmptySeat
<1> QED
  BY <1>1, <1>2, <1>3, <1>4 DEF SatBy

\* What is started with three ready players has no player twice.
LEMMA StartedFacts ==
  ASSUME NEW seats \in SeatMap, SeatRules(seats), Startable(seats)
  PROVE  Started(seats) \in RunningRoom /\ PlayedOnce(Started(seats))
<1>1. \A i \in Seats : seats[i].ready /\ seats[i].player \in Users \cup {Bot}
  BY DEF Startable, Full, SeatsHeld, SeatMap, Seat
<1>2. Started(seats) \in RunningRoom
  BY <1>1 DEF Started, RunningRoom
<1>3. \A i \in Seats : Started(seats).players[i] = seats[i].player
  BY DEF Started
<1>4. ASSUME NEW i \in Seats, NEW j \in Seats,
             seats[i].player \in Users, seats[i].player = seats[j].player
      PROVE  i = j
  <2>1. i <= j /\ j <= i
    BY <1>1, <1>4 DEF SeatRules
  <2> QED
    BY <2>1 DEF Seats
<1> QED
  BY <1>2, <1>3, <1>4 DEF PlayedOnce

\* As long as a seat is empty, not everybody is ready.
LEMMA NotStartable ==
  ASSUME NEW seats \in SeatMap, SeatRules(seats), ~Startable(seats)
  PROVE  \E i \in Seats : ~seats[i].ready
  BY DEF Startable, Full, SeatsHeld, SeatRules

-----------------------------------------------------------------------------
(* Rooms.                                                                  *)

PreparedRoom(owner, seats) == [owner |-> owner, seats |-> seats]

LEMMA RoomFacts ==
  ASSUME NEW map, PreparedOK(map), NEW r \in DOMAIN map
  PROVE  /\ r \in RoomIds /\ map[r].seats \in SeatMap
         /\ map[r].owner \in Users \cup {Nobody}
         /\ SeatRules(map[r].seats)
         /\ \E i \in Seats : map[r].seats[i].player # Nobody
         /\ map[r].owner # Nobody => SatBy(map[r].seats, map[r].owner)
  BY DEF PreparedOK, IsMap, PendingRoom, SeatMap, RoomRules, SatBy

\* One room in preparation gets other seats, or another owner too.
LEMMA RoomChanges ==
  ASSUME NEW map, PreparedOK(map), NEW r \in DOMAIN map,
         NEW owner \in Users \cup {Nobody}, NEW seats \in SeatMap,
         RoomRules(PreparedRoom(owner, seats))
  PROVE  PreparedOK([map EXCEPT ![r] = PreparedRoom(owner, seats)])
<1>1. PreparedRoom(owner, seats) \in PendingRoom
  BY DEF PreparedRoom, PendingRoom, SeatMap
<1> QED
  BY <1>1 DEF PreparedOK, IsMap

LEMMA RoomIsRecord ==
  ASSUME NEW map, PreparedOK(map), NEW r \in DOMAIN map
  PROVE  map[r] = PreparedRoom(map[r].owner, map[r].seats)
  BY DEF PreparedOK, IsMap, PendingRoom, PreparedRoom

LEMMA NewSeats ==
  ASSUME NEW map, PreparedOK(map), NEW r \in DOMAIN map, NEW seats
  PROVE  [map[r] EXCEPT !.seats = seats] = PreparedRoom(map[r].owner, seats)
<1>1. map[r] \in PendingRoom
  BY DEF PreparedOK, IsMap
<1> QED
  BY <1>1 DEF PendingRoom, PreparedRoom

\* A room in preparation disappears, or a new one comes.
LEMMA PreparedDrop ==
  ASSUME PreparedOK(pending), NEW keys
  PROVE  PreparedOK(Drop(pending, keys)) /\ DOMAIN Drop(pending, keys) = DOMAIN pending \ keys
<1>1. IsMap(Drop(pending, keys), RoomIds, PendingRoom)
  BY DropType DEF PreparedOK
<1>2. \A r \in DOMAIN Drop(pending, keys) : RoomRules(Drop(pending, keys)[r])
  BY DEF PreparedOK, Drop, Restrict
<1> QED
  BY <1>1, <1>2 DEF PreparedOK, Drop, Restrict

LEMMA RunningDrop ==
  ASSUME RunningOK(rooms), NEW keys
  PROVE  RunningOK(Drop(rooms, keys)) /\ DOMAIN Drop(rooms, keys) = DOMAIN rooms \ keys
<1>1. IsMap(Drop(rooms, keys), RoomIds, RunningRoom)
  BY DropType DEF RunningOK
<1>2. \A r \in DOMAIN Drop(rooms, keys) : PlayedOnce(Drop(rooms, keys)[r])
  BY DEF RunningOK, Drop, Restrict
<1> QED
  BY <1>1, <1>2 DEF RunningOK, Drop, Restrict

LEMMA RunningPut ==
  ASSUME NEW map, RunningOK(map), NEW r \in RoomIds, NEW room \in RunningRoom, PlayedOnce(room)
  PROVE  RunningOK(Put(map, r, room)) /\ DOMAIN Put(map, r, room) = DOMAIN map \cup {r}
<1>1. IsMap(Put(map, r, room), RoomIds, RunningRoom)
  BY PutType DEF RunningOK
<1>2. \A x \in DOMAIN Put(map, r, room) : PlayedOnce(Put(map, r, room)[x])
  BY DEF RunningOK, Put
<1> QED
  BY <1>1, <1>2 DEF RunningOK, Put

LEMMA ReleaseFacts ==
  ASSUME RunningOK(rooms), NEW t
  PROVE  RunningOK(RoomsAfterRelease(t)) /\ DOMAIN RoomsAfterRelease(t) \subseteq DOMAIN rooms
  BY RunningDrop DEF RoomsAfterRelease

-----------------------------------------------------------------------------
(* Invitations.                                                            *)

\* No result is changed, and nothing with a result is open again.
Settled ==
  \A id \in DOMAIN resolved :
    /\ id \notin DOMAIN invitations /\ id \notin DOMAIN invitations'
    /\ id \in DOMAIN resolved' => resolved'[id] = resolved[id]

\* The open invitations are some of those that were.
SomeStayOpen ==
  \A id \in DOMAIN invitations' :
    id \in DOMAIN invitations /\ invitations'[id] = invitations[id]

LEMMA InvitesStay ==
  ASSUME InviteMaps, UNCHANGED inviteVars
  PROVE  InviteMaps' /\ Settled /\ SomeStayOpen
  BY DEF InviteMaps, inviteVars, Settled, SomeStayOpen

\* Some open invitations are closed and their invitees free again.
LEMMA InvitesClose ==
  ASSUME InviteMaps, NEW ids \in SUBSET DOMAIN invitations,
         invitations' = Drop(invitations, ids),
         invitationOf' = Drop(invitationOf, {invitations[i].invitee : i \in ids}),
         IsMap(resolved', InviteIds, Results),
         DOMAIN resolved' \subseteq DOMAIN resolved \cup ids
  PROVE  InviteMaps' /\ SomeStayOpen /\ DOMAIN invitations' = DOMAIN invitations \ ids
<1> DEFINE invitees == {invitations[i].invitee : i \in ids}
<1>1. IsMap(invitations', InviteIds, Invitation)
  BY DropType DEF InviteMaps
<1>2. IsMap(invitationOf', Users, InviteIds)
  BY DropType DEF InviteMaps
<1>3. /\ DOMAIN invitations' = DOMAIN invitations \ ids
      /\ \A id \in DOMAIN invitations \ ids : invitations'[id] = invitations[id]
  BY DEF Drop, Restrict
<1>4. /\ DOMAIN invitationOf' = DOMAIN invitationOf \ invitees
      /\ \A u \in DOMAIN invitationOf \ invitees : invitationOf'[u] = invitationOf[u]
  BY DEF Drop, Restrict
<1>5. \A u \in DOMAIN invitationOf' :
        invitationOf'[u] \in DOMAIN invitations' /\ invitations'[invitationOf'[u]].invitee = u
  BY <1>3, <1>4 DEF InviteMaps
<1>6. ASSUME NEW id \in DOMAIN invitations'
      PROVE  /\ invitations'[id].invitee \in DOMAIN invitationOf'
             /\ invitationOf'[invitations'[id].invitee] = id
  <2>1. id \in DOMAIN invitations \ ids /\ invitations'[id] = invitations[id]
    BY <1>3
  <2>2. invitations[id].invitee \in DOMAIN invitationOf /\ invitationOf[invitations[id].invitee] = id
    BY <2>1 DEF InviteMaps
  <2>3. \A i \in ids : invitations[i].invitee # invitations[id].invitee
    BY <2>1, <2>2 DEF InviteMaps
  <2> QED
    BY <1>4, <2>1, <2>2, <2>3
<1>7. DOMAIN invitations' \cap DOMAIN resolved' = {}
  BY <1>3 DEF InviteMaps
<1> QED
  BY <1>1, <1>2, <1>3, <1>5, <1>6, <1>7 DEF InviteMaps, SomeStayOpen

LEMMA ResolveFacts ==
  ASSUME InviteMaps, NEW outcome, DOMAIN outcome \subseteq DOMAIN invitations,
         \A i \in DOMAIN outcome : outcome[i] \in Results,
         Resolve(outcome)
  PROVE  /\ InviteMaps' /\ Settled /\ SomeStayOpen
         /\ DOMAIN invitations' = DOMAIN invitations \ DOMAIN outcome
<1>1. /\ invitations' = Drop(invitations, DOMAIN outcome)
      /\ invitationOf' = Drop(invitationOf, {invitations[i].invitee : i \in DOMAIN outcome})
      /\ DOMAIN resolved' = DOMAIN outcome \cup DOMAIN resolved
      /\ resolved' = [i \in DOMAIN outcome \cup DOMAIN resolved |->
                       IF i \in DOMAIN outcome THEN outcome[i] ELSE resolved[i]]
  BY DEF Resolve, Cleared
<1>2. IsMap(resolved', InviteIds, Results)
  BY <1>1 DEF InviteMaps, IsMap
<1>3. /\ InviteMaps' /\ SomeStayOpen
      /\ DOMAIN invitations' = DOMAIN invitations \ DOMAIN outcome
  BY <1>1, <1>2, InvitesClose
<1>4. \A id \in DOMAIN resolved : id \notin DOMAIN invitations
  BY DEF InviteMaps
<1>5. \A id \in DOMAIN resolved : id \in DOMAIN resolved' => resolved'[id] = resolved[id]
  BY <1>1, <1>4
<1> QED
  BY <1>3, <1>4, <1>5 DEF Settled

LEMMA ExpireFacts ==
  ASSUME InviteMaps, NEW ids \in SUBSET DOMAIN invitations, Resolve(Expired(ids))
  PROVE  /\ InviteMaps' /\ Settled /\ SomeStayOpen
         /\ DOMAIN invitations' = DOMAIN invitations \ ids
<1>1. DOMAIN Expired(ids) = ids /\ \A i \in ids : Expired(ids)[i] = "expired"
  BY DEF Expired
<1>2. "expired" \in Results
  BY DEF Results
<1> QED
  BY <1>1, <1>2, ResolveFacts

\* The invitations into the room r are the ones to look at when the rooms of the others
\* did not change.
LEMMA OpenInvitesLeadOn ==
  ASSUME InvitesLead, SomeStayOpen, NEW r,
         \A id \in DOMAIN invitations' :
           invitations[id].room # r =>
             /\ invitations[id].room \in DOMAIN pending'
             /\ pending'[invitations[id].room] = pending[invitations[id].room],
         \A id \in DOMAIN invitations' :
           invitations[id].room = r => r \in DOMAIN pending' /\ Leads(invitations[id], pending'[r])
  PROVE  InvitesLead'
<1> SUFFICES ASSUME NEW id \in DOMAIN invitations'
             PROVE  /\ invitations'[id].room \in DOMAIN pending'
                    /\ Leads(invitations'[id], pending'[invitations'[id].room])
  BY DEF InvitesLead, Leads
<1>1. id \in DOMAIN invitations /\ invitations'[id] = invitations[id]
  BY DEF SomeStayOpen
<1>2. /\ invitations[id].room \in DOMAIN pending
      /\ Leads(invitations[id], pending[invitations[id].room])
  BY <1>1 DEF InvitesLead
<1>3. CASE invitations[id].room = r
  BY <1>1, <1>3
<1>4. CASE invitations[id].room # r
  BY <1>1, <1>2, <1>4
<1> QED
  BY <1>3, <1>4

LEMMA InvitesLeadOn ==
  ASSUME InvitesLead, SomeStayOpen, NEW r,
         \A x \in DOMAIN pending : x # r => x \in DOMAIN pending' /\ pending'[x] = pending[x],
         \A id \in DOMAIN invitations' :
           invitations[id].room = r => r \in DOMAIN pending' /\ Leads(invitations[id], pending'[r])
  PROVE  InvitesLead'
<1>1. \A id \in DOMAIN invitations' : invitations[id].room \in DOMAIN pending
  BY DEF InvitesLead, SomeStayOpen
<1> QED
  BY <1>1, OpenInvitesLeadOn

\* An invitation still leads somewhere when another player sits down, or the invitee
\* on a seat of his own or the first one empty, and a seat is left.
LEMMA LeadsWhenSitting ==
  ASSUME NEW seats \in SeatMap, NEW owner, NEW u, u # Nobody, NEW i \in Seats,
         seats[i].player \in {Nobody, u},
         NEW invite \in Invitation, Leads(invite, PreparedRoom(owner, seats)),
         NEW new \in SeatMap, new[i].player = u,
         \A j \in Seats : j # i => new[j] = seats[j],
         ~Full(new),
         \/ invite.invitee # u
         \/ seats[i].player = u
         \/ \A j \in Seats : seats[j].player = Nobody => i <= j
  PROVE  Leads(invite, PreparedRoom(owner, new))
<1>1. invite.seat \in Seats /\ Seats \subseteq Int /\ invite.invitee \in Users
  BY DEF Invitation, Seats
<1>2. \E j \in Seats : new[j].player = Nobody
  BY DEF Full, SeatsHeld
<1>3. /\ owner = invite.inviter
      /\ seats[invite.seat].player = Nobody =>
           \A j \in Seats : seats[j].player = invite.invitee =>
             \E k \in Seats : k < invite.seat /\ seats[k].player = invite.invitee
  BY DEF Leads, PreparedRoom
<1>4. ASSUME new[invite.seat].player = Nobody,
             NEW j \in Seats, new[j].player = invite.invitee
      PROVE  \E k \in Seats : k < invite.seat /\ new[k].player = invite.invitee
  <2>1. invite.seat # i /\ seats[invite.seat].player = Nobody
    BY <1>1, <1>4
  <2>2. CASE \E x \in Seats : seats[x].player = invite.invitee
    <3>1. PICK k \in Seats : k < invite.seat /\ seats[k].player = invite.invitee
      BY <1>3, <2>1, <2>2
    <3>2. new[k].player = invite.invitee
      BY <1>1, <3>1, NobodyIsNoUser
    <3> QED
      BY <3>1, <3>2
  <2>3. CASE ~\E x \in Seats : seats[x].player = invite.invitee
    <3>1. j = i /\ invite.invitee = u /\ seats[i].player # u
      BY <1>4, <2>3
    <3>2. i <= invite.seat
      BY <1>1, <2>1, <3>1
    <3>3. i < invite.seat
      BY <1>1, <2>1, <3>2 DEF Seats
    <3> QED
      BY <3>1, <3>3
  <2> QED
    BY <2>2, <2>3
<1> QED
  BY <1>2, <1>3, <1>4 DEF Leads, PreparedRoom

\* A bot on an empty seat, or players who get ready, do not lead an invitation astray.
LEMMA LeadsWhenOthers ==
  ASSUME NEW seats \in SeatMap, NEW owner,
         NEW invite \in Invitation, Leads(invite, PreparedRoom(owner, seats)),
         NEW new \in SeatMap, ~Full(new),
         \A j \in Seats :
           \/ new[j].player = seats[j].player
           \/ new[j].player = Bot /\ seats[j].player = Nobody
  PROVE  Leads(invite, PreparedRoom(owner, new))
<1>1. invite.seat \in Seats /\ invite.invitee \in Users
  BY DEF Invitation
<1>2. \E j \in Seats : new[j].player = Nobody
  BY DEF Full, SeatsHeld
<1>3. \A j \in Seats : new[j].player = invite.invitee <=> seats[j].player = invite.invitee
  BY <1>1, NobodyIsNoUser
<1>4. new[invite.seat].player = Nobody => seats[invite.seat].player = Nobody
  BY <1>1, NobodyIsNoUser
<1> QED
  BY <1>2, <1>3, <1>4 DEF Leads, PreparedRoom

-----------------------------------------------------------------------------
(* The handlers, one by one.                                               *)

LEMMA RoomsQuiet ==
  ASSUME RoomsInv, UNCHANGED <<pending, rooms>>
  PROVE  RoomsInv'
  BY DEF RoomsInv, PreparedOK, RunningOK, IsMap

LEMMA InvitesQuiet ==
  ASSUME LobbyInvariant, UNCHANGED <<pending, inviteVars>>
  PROVE  InviteMaps' /\ Settled /\ InvitesLead'
<1>1. InviteMaps' /\ Settled /\ SomeStayOpen
  BY InvitesStay DEF LobbyInvariant
<1>2. InvitesLead /\ pending' = pending /\ invitations' = invitations
  BY DEF LobbyInvariant, inviteVars
<1> QED
  BY <1>1, <1>2 DEF InvitesLead, Leads

LEMMA ConnectionKeeps ==
  ASSUME LobbyInvariant, NEW t, Disconnect(t) \/ HandleHeartbeat(t)
  PROVE  LobbyInvariant' /\ Settled
<1>1. /\ t \in DOMAIN sessions /\ UNCHANGED <<activeToken, pending, rooms, waiting, inviteVars>>
      /\ \E online \in BOOLEAN : sessions' = [sessions EXCEPT ![t].online = online]
  BY AuthedIsSession DEF Disconnect, HandleHeartbeat
<1>2. SessionsInv'
  <2>1. PICK online \in BOOLEAN : sessions' = [sessions EXCEPT ![t].online = online]
    BY <1>1
  <2>2. sessions \in [DOMAIN sessions -> Session] /\ sessions[t] \in Session
    BY <1>1 DEF LobbyInvariant, SessionsInv, IsMap
  <2>3. [sessions[t] EXCEPT !.online = online] \in Session
    BY <2>2 DEF Session
  <2>4. SessionsStay
    BY <1>1, <2>1, <2>2, <2>3 DEF SessionsStay
  <2> QED
    BY <1>1, <2>4, SessionsStayKeeps DEF LobbyInvariant, SessionsInv
<1> QED
  BY <1>1, <1>2, RoomsQuiet, InvitesQuiet DEF LobbyInvariant

LEMMA CancelMatchKeeps ==
  ASSUME LobbyInvariant, NEW t, CancelMatch(t)
  PROVE  LobbyInvariant' /\ Settled
<1>1. UNCHANGED <<pending, rooms, inviteVars>>
  BY DEF CancelMatch
<1> QED
  BY <1>1, CancelKeepsSessions, RoomsQuiet, InvitesQuiet DEF LobbyInvariant

LEMMA ReconnectForgetsKeeps ==
  ASSUME LobbyInvariant, NEW t, HandleReconnectForgets(t)
  PROVE  LobbyInvariant' /\ Settled
<1>1. /\ t \in DOMAIN sessions /\ sessions' = InRoom(t, NoRoom)
      /\ UNCHANGED <<activeToken, pending, rooms, waiting, inviteVars>>
  BY AuthedIsSession DEF HandleReconnectForgets
<1>2. SessionsInv'
  BY <1>1, MoveKeepsSessions DEF LobbyInvariant
<1> QED
  BY <1>1, <1>2, RoomsQuiet, InvitesQuiet DEF LobbyInvariant

LEMMA RoomFinishesKeeps ==
  ASSUME LobbyInvariant, NEW r, RoomFinishes(r)
  PROVE  LobbyInvariant' /\ Settled
<1>1. /\ r \in DOMAIN rooms /\ rooms' = [rooms EXCEPT ![r].finished = TRUE]
      /\ UNCHANGED <<sessions, activeToken, pending, waiting, inviteVars>>
  BY DEF RoomFinishes
<1>2. SessionsInv'
  BY <1>1 DEF LobbyInvariant, SessionsInv, IsMap, UserOf, Distinct, Range
<1>3. RunningOK(rooms')
  <2>1. /\ DOMAIN rooms' = DOMAIN rooms /\ IsMap(rooms, RoomIds, RunningRoom)
        /\ \A x \in DOMAIN rooms : rooms[x] \in RunningRoom /\ PlayedOnce(rooms[x])
    BY <1>1 DEF LobbyInvariant, RoomsInv, RunningOK, IsMap
  <2>2. ASSUME NEW x \in DOMAIN rooms
        PROVE  rooms'[x] \in RunningRoom /\ rooms'[x].players = rooms[x].players
    BY <1>1, <2>1 DEF RunningRoom
  <2>3. IsMap(rooms', RoomIds, RunningRoom)
    BY <1>1, <2>1, <2>2 DEF IsMap
  <2>4. \A x \in DOMAIN rooms' : PlayedOnce(rooms'[x])
    BY <2>1, <2>2 DEF PlayedOnce
  <2> QED
    BY <2>3, <2>4 DEF RunningOK
<1>4. RoomsInv'
  BY <1>1, <1>3 DEF LobbyInvariant, RoomsInv, PreparedOK, IsMap
<1> QED
  BY <1>1, <1>2, <1>4, InvitesQuiet DEF LobbyInvariant

LEMMA TickKeeps ==
  ASSUME LobbyInvariant, NEW due, NEW kept, TickRoomsLoop(due, kept)
  PROVE  LobbyInvariant' /\ Settled
<1>1. /\ due \in SUBSET DOMAIN invitations /\ kept \in SUBSET DOMAIN resolved
      /\ invitations' = Drop(invitations, due)
      /\ invitationOf' = Drop(invitationOf, {invitations[i].invitee : i \in due})
      /\ resolved' = [i \in kept \cup due |-> IF i \in due THEN "expired" ELSE resolved[i]]
      /\ UNCHANGED <<sessions, activeToken, pending, rooms, waiting>>
  BY DEF TickRoomsLoop
<1>2. SessionsInv'
  BY <1>1 DEF LobbyInvariant, SessionsInv, IsMap, UserOf, Distinct, Range
<1>3. IsMap(resolved', InviteIds, Results) /\ DOMAIN resolved' = kept \cup due
  BY <1>1 DEF LobbyInvariant, InviteMaps, IsMap, Results
<1>4. InviteMaps' /\ SomeStayOpen /\ DOMAIN invitations' = DOMAIN invitations \ due
  BY <1>1, <1>3, InvitesClose DEF LobbyInvariant
<1>5. Settled
  <2>1. \A id \in DOMAIN resolved : id \notin DOMAIN invitations
    BY DEF LobbyInvariant, InviteMaps
  <2> QED
    BY <1>1, <1>3, <1>4, <2>1 DEF Settled
<1>6. InvitesLead'
  BY <1>1, <1>4 DEF LobbyInvariant, InvitesLead, SomeStayOpen, Leads
<1> QED
  BY <1>1, <1>2, <1>4, <1>5, <1>6, RoomsQuiet DEF LobbyInvariant

LEMMA LoginKeeps ==
  ASSUME LobbyInvariant, NEW u \in Users, NEW t \in Tokens, HandleLogin(u, t)
  PROVE  LobbyInvariant' /\ Settled
<1>1. SessionsInv /\ InviteMaps /\ UNCHANGED <<pending, rooms>>
  BY DEF LobbyInvariant, HandleLogin
<1>2. \A s \in DOMAIN sessions : ReconnectableRoom(s) \in RoomIds \cup {NoRoom}
  BY <1>1, RoomOfType DEF ReconnectableRoom
<1>3. SessionsInv'
  BY <1>1, <1>2, LoginKeepsSessions
<1>4. InviteMaps' /\ Settled /\ SomeStayOpen
  <2>1. PICK ids \in SUBSET DOMAIN invitations : Resolve(Expired(ids))
    BY DEF HandleLogin
  <2> QED
    BY <1>1, <2>1, ExpireFacts
<1>5. InvitesLead'
  BY <1>1, <1>4 DEF LobbyInvariant, InvitesLead, SomeStayOpen, Leads
<1> QED
  BY <1>1, <1>3, <1>4, <1>5, RoomsQuiet DEF LobbyInvariant

LEMMA FreshRoom ==
  ASSUME NEW r, Fresh(r)
  PROVE  r \in RoomIds /\ r \notin DOMAIN pending /\ r \notin DOMAIN rooms
  BY DEF Fresh

\* A request that takes the session out of a running room, or into a new one.
LEMMA RunningChanges ==
  ASSUME RoomsInv, UNCHANGED pending, RunningOK(rooms'),
         \A r \in DOMAIN rooms' : r \notin DOMAIN pending
  PROVE  RoomsInv'
  BY DEF RoomsInv, PreparedOK, IsMap

LEMMA JoinFailsKeeps ==
  ASSUME LobbyInvariant, NEW t, HandleJoinRoomFails(t)
  PROVE  LobbyInvariant' /\ Settled
<1>1. /\ t \in DOMAIN sessions /\ sessions' = InRoom(t, NoRoom)
      /\ rooms' = RoomsAfterRelease(t)
      /\ UNCHANGED <<activeToken, pending, waiting, inviteVars>>
  BY AuthedIsSession DEF HandleJoinRoomFails
<1>2. SessionsInv'
  BY <1>1, MoveKeepsSessions DEF LobbyInvariant
<1>3. RoomsInv'
  <2>1. RunningOK(rooms') /\ DOMAIN rooms' \subseteq DOMAIN rooms
    BY <1>1, ReleaseFacts DEF LobbyInvariant, RoomsInv
  <2> QED
    BY <1>1, <2>1, RunningChanges DEF LobbyInvariant, RoomsInv
<1> QED
  BY <1>1, <1>2, <1>3, InvitesQuiet DEF LobbyInvariant

LEMMA LeaveGameKeeps ==
  ASSUME LobbyInvariant, NEW t, HandleLeaveGame(t)
  PROVE  LobbyInvariant' /\ Settled
<1>1. /\ t \in DOMAIN sessions /\ sessions' = InRoom(t, NoRoom)
      /\ rooms' = Drop(rooms, {RoomOf(t)})
      /\ UNCHANGED <<activeToken, pending, waiting, inviteVars>>
  BY AuthedIsSession DEF HandleLeaveGame
<1>2. SessionsInv'
  BY <1>1, MoveKeepsSessions DEF LobbyInvariant
<1>3. RoomsInv'
  <2>1. RunningOK(rooms') /\ DOMAIN rooms' \subseteq DOMAIN rooms
    BY <1>1, RunningDrop DEF LobbyInvariant, RoomsInv
  <2> QED
    BY <1>1, <2>1, RunningChanges DEF LobbyInvariant, RoomsInv
<1> QED
  BY <1>1, <1>2, <1>3, InvitesQuiet DEF LobbyInvariant

LEMMA MatchVsBotKeeps ==
  ASSUME LobbyInvariant, NEW t, HandleMatchVsBot(t)
  PROVE  LobbyInvariant' /\ Settled
<1> DEFINE game == [mode |-> "VS_BOT", finished |-> FALSE,
                    players |-> [i \in Seats |-> IF i = 0 THEN UserOf(t) ELSE Bot]]
<1>1. /\ t \in DOMAIN sessions
      /\ UNCHANGED <<activeToken, pending, waiting, inviteVars>>
  BY AuthedIsSession DEF HandleMatchVsBot, MatchAccepted
<1>2. PICK r \in RoomIds : /\ Fresh(r) /\ sessions' = InRoom(t, r)
                           /\ rooms' = Put(RoomsAfterRelease(t), r, game)
  BY DEF HandleMatchVsBot
<1>3. SessionsInv'
  BY <1>1, <1>2, MoveKeepsSessions DEF LobbyInvariant
<1>4. game \in RunningRoom /\ PlayedOnce(game)
  <2>1. UserOf(t) \in Users
    BY <1>1, RoomOfType DEF LobbyInvariant
  <2> QED
    BY <2>1, NobodyIsNoUser DEF RunningRoom, PlayedOnce, Seats
<1>5. RoomsInv'
  <2> HIDE DEF game
  <2>1. RunningOK(RoomsAfterRelease(t)) /\ DOMAIN RoomsAfterRelease(t) \subseteq DOMAIN rooms
    BY ReleaseFacts DEF LobbyInvariant, RoomsInv
  <2>2. RunningOK(rooms')
    BY <1>2, <1>4, <2>1, RunningPut
  <2>3. DOMAIN rooms' \subseteq DOMAIN rooms \cup {r}
    BY <1>2, <2>1 DEF Put
  <2> QED
    BY <1>1, <1>2, <2>2, <2>3, FreshRoom, RunningChanges DEF LobbyInvariant, RoomsInv
<1> QED
  BY <1>1, <1>3, <1>5, InvitesQuiet DEF LobbyInvariant

LEMMA MatchPvpKeeps ==
  ASSUME LobbyInvariant, NEW t, HandleMatchPvp(t)
  PROVE  LobbyInvariant' /\ Settled
<1>1. /\ t \in DOMAIN sessions
      /\ UNCHANGED <<activeToken, pending, inviteVars>>
  BY MatchCases, AuthedIsSession
<1>2. SessionsInv'
  BY MatchKeepsSessions DEF LobbyInvariant
<1>3. RunningOK(RoomsAfterRelease(t)) /\ DOMAIN RoomsAfterRelease(t) \subseteq DOMAIN rooms
  BY ReleaseFacts DEF LobbyInvariant, RoomsInv
<1>4. CASE Waits(t)
  <2>1. RoomsInv'
    BY <1>1, <1>3, <1>4, RunningChanges DEF Waits, LobbyInvariant, RoomsInv
  <2> QED
    BY <1>1, <1>2, <2>1, InvitesQuiet DEF LobbyInvariant
<1>5. ASSUME NEW r \in RoomIds, Starts(t, r) PROVE LobbyInvariant' /\ Settled
  <2> DEFINE matched == Matched(t)
             game == [mode |-> "PVP", finished |-> FALSE,
                      players |-> [i \in Seats |-> UserOf(matched[i + 1])]]
  <2>1. Len(matched) >= 3 /\ Fresh(r) /\ rooms' = Put(RoomsAfterRelease(t), r, game)
    BY <1>5 DEF Starts
  <2>2. /\ matched \in Seq(Tokens) /\ Distinct(matched)
        /\ \A k \in DOMAIN matched : matched[k] \in DOMAIN sessions
    BY <1>1, MatchedFacts DEF LobbyInvariant
  <2> HIDE DEF matched
  <2>3. \A i \in Seats : i + 1 \in DOMAIN matched /\ matched[i + 1] \in DOMAIN sessions
    BY <2>1, <2>2 DEF Seats
  <2>4. game \in RunningRoom
    <3>1. \A i \in Seats : UserOf(matched[i + 1]) \in Users
      BY <2>3, RoomOfType DEF LobbyInvariant
    <3> QED
      BY <3>1 DEF RunningRoom
  <2>5. PlayedOnce(game)
    <3>1. ASSUME NEW i \in Seats, NEW j \in Seats,
                 UserOf(matched[i + 1]) = UserOf(matched[j + 1])
          PROVE  i = j
      <4>1. matched[i + 1] = matched[j + 1]
        BY <2>3, <3>1 DEF LobbyInvariant, SessionsInv
      <4>2. i + 1 = j + 1
        BY <2>2, <2>3, <4>1 DEF Distinct
      <4> QED
        BY <4>2 DEF Seats
    <3> QED
      BY <3>1 DEF PlayedOnce
  <2>6. RoomsInv'
    <3> HIDE DEF game
    <3>1. RunningOK(rooms')
      BY <1>3, <2>1, <2>4, <2>5, RunningPut
    <3>2. DOMAIN rooms' \subseteq DOMAIN rooms \cup {r}
      BY <1>3, <2>1 DEF Put
    <3> QED
      BY <1>1, <2>1, <3>1, <3>2, FreshRoom, RunningChanges DEF LobbyInvariant, RoomsInv
  <2> QED
    BY <1>1, <1>2, <2>6, InvitesQuiet DEF LobbyInvariant
<1> QED
  BY <1>4, <1>5, MatchCases

LEMMA CreateRoomKeeps ==
  ASSUME LobbyInvariant, NEW t, HandleCreateRoom(t)
  PROVE  LobbyInvariant' /\ Settled
<1> DEFINE seats == [i \in Seats |-> IF i = 0 THEN SeatOf(UserOf(t)) ELSE EmptySeat]
           room  == PreparedRoom(UserOf(t), seats)
<1>1. /\ t \in DOMAIN sessions /\ rooms' = RoomsAfterRelease(t)
      /\ UNCHANGED <<activeToken, waiting, inviteVars>>
  BY AuthedIsSession DEF HandleCreateRoom
<1>2. PICK r \in RoomIds : /\ Fresh(r) /\ sessions' = InRoom(t, r)
                           /\ pending' = Put(pending, r, room)
  BY DEF HandleCreateRoom, PreparedRoom
<1>3. SessionsInv'
  BY <1>1, <1>2, MoveKeepsSessions DEF LobbyInvariant
<1>4. room \in PendingRoom /\ RoomRules(room)
  <2>1. UserOf(t) \in Users /\ UserOf(t) # Nobody
    BY <1>1, RoomOfType, NobodyIsNoUser DEF LobbyInvariant
  <2>2. seats \in SeatMap
    BY <2>1 DEF SeatMap, Seat, SeatOf, EmptySeat
  <2>3. SeatRules(seats)
    BY NobodyIsNoUser DEF SeatRules, Seats, SeatOf, EmptySeat
  <2>4. seats[0].player = UserOf(t) /\ ~seats[0].ready /\ 0 \in Seats
    BY DEF Seats, SeatOf
  <2> HIDE DEF seats
  <2> QED
    BY <2>1, <2>2, <2>3, <2>4 DEF PendingRoom, RoomRules, PreparedRoom, SeatMap
<1> HIDE DEF room
<1>5. PreparedOK(pending') /\ DOMAIN pending' = DOMAIN pending \cup {r}
  <2>1. IsMap(pending', RoomIds, PendingRoom)
    BY <1>2, <1>4, PutType DEF LobbyInvariant, RoomsInv, PreparedOK
  <2> QED
    BY <1>2, <1>4, <2>1 DEF LobbyInvariant, RoomsInv, PreparedOK, Put
<1>6. RoomsInv'
  <2>1. RunningOK(rooms') /\ DOMAIN rooms' \subseteq DOMAIN rooms
    BY <1>1, ReleaseFacts DEF LobbyInvariant, RoomsInv
  <2> QED
    BY <1>2, <1>5, <2>1, FreshRoom DEF LobbyInvariant, RoomsInv
<1>7. InviteMaps' /\ Settled /\ SomeStayOpen
  BY <1>1, InvitesStay DEF LobbyInvariant
<1>8. InvitesLead'
  <2>1. \A x \in DOMAIN pending : x # r => x \in DOMAIN pending' /\ pending'[x] = pending[x]
    BY <1>2 DEF Put
  <2>2. \A id \in DOMAIN invitations' : invitations[id].room # r
    BY <1>2, <1>7, FreshRoom DEF LobbyInvariant, InvitesLead, SomeStayOpen
  <2> QED
    BY <1>7, <2>1, <2>2, InvitesLeadOn DEF LobbyInvariant
<1> QED
  BY <1>3, <1>6, <1>7, <1>8 DEF LobbyInvariant

\* A room stays in order while its owner and somebody sit in it and one is not ready.
LEMMA RoomStays ==
  ASSUME NEW map, PreparedOK(map), NEW r \in DOMAIN map,
         NEW seats \in SeatMap, SeatRules(seats), \E i \in Seats : ~seats[i].ready,
         \E i \in Seats : seats[i].player # Nobody,
         map[r].owner # Nobody => SatBy(seats, map[r].owner)
  PROVE  PreparedOK([map EXCEPT ![r].seats = seats])
<1> DEFINE owner == map[r].owner
<1>1. owner \in Users \cup {Nobody}
  BY RoomFacts
<1>2. RoomRules(PreparedRoom(owner, seats))
  BY DEF RoomRules, PreparedRoom, SatBy
<1>3. [map EXCEPT ![r].seats = seats] = [map EXCEPT ![r] = PreparedRoom(owner, seats)]
  <2>1. [map[r] EXCEPT !.seats = seats] = PreparedRoom(map[r].owner, seats)
    BY NewSeats
  <2> QED
    BY <2>1
<1>4. PreparedOK([map EXCEPT ![r] = PreparedRoom(owner, seats)])
  <2> HIDE DEF owner
  <2> QED
    BY <1>1, <1>2, RoomChanges
<1> QED
  BY <1>3, <1>4

LEMMA SeatsChangeKeeps ==
  ASSUME NEW map, PreparedOK(map), NEW r \in DOMAIN map,
         NEW seats \in SeatMap, SeatRules(seats), \E i \in Seats : ~seats[i].ready,
         \A p : p # Nobody /\ SatBy(map[r].seats, p) => SatBy(seats, p)
  PROVE  PreparedOK([map EXCEPT ![r].seats = seats])
<1>1. map[r].owner # Nobody => SatBy(seats, map[r].owner)
  BY RoomFacts
<1>2. \E i \in Seats : seats[i].player # Nobody
  <2>1. PICK i \in Seats : map[r].seats[i].player # Nobody
    BY RoomFacts
  <2>2. SatBy(seats, map[r].seats[i].player)
    BY <2>1 DEF SatBy
  <2> QED
    BY <2>1, <2>2 DEF SatBy
<1> QED
  BY <1>1, <1>2, RoomStays

LEMMA FilledUpFacts ==
  ASSUME InviteMaps, NEW r, NEW seats, Resolve(Expired(FilledUp(r, seats)))
  PROVE  /\ InviteMaps' /\ Settled /\ SomeStayOpen
         /\ \A id \in DOMAIN invitations' : invitations[id].room = r => ~Full(seats)
<1>1. FilledUp(r, seats) \in SUBSET DOMAIN invitations
  BY DEF FilledUp, InvitesFor
<1>2. /\ InviteMaps' /\ Settled /\ SomeStayOpen
      /\ DOMAIN invitations' = DOMAIN invitations \ FilledUp(r, seats)
  BY <1>1, ExpireFacts
<1> QED
  BY <1>2 DEF FilledUp, InvitesFor

LEMMA RoomExpires ==
  ASSUME InviteMaps, NEW r, Resolve(Expired(InvitesFor(r)))
  PROVE  /\ InviteMaps' /\ Settled /\ SomeStayOpen
         /\ \A id \in DOMAIN invitations' : invitations[id].room # r
<1>1. InvitesFor(r) \in SUBSET DOMAIN invitations
  BY DEF InvitesFor
<1>2. /\ InviteMaps' /\ Settled /\ SomeStayOpen
      /\ DOMAIN invitations' = DOMAIN invitations \ InvitesFor(r)
  BY <1>1, ExpireFacts
<1> QED
  BY <1>2 DEF InvitesFor

\* A room's seats change, and it stays in preparation.
LEMMA OtherRoomsStay ==
  ASSUME NEW r, NEW seats, pending' = [pending EXCEPT ![r].seats = seats]
  PROVE  \A x \in DOMAIN pending : x # r => x \in DOMAIN pending' /\ pending'[x] = pending[x]
  OBVIOUS

LEMMA ChangedRoom ==
  ASSUME NEW map, PreparedOK(map), NEW r \in DOMAIN map, NEW seats,
         pending' = [map EXCEPT ![r].seats = seats]
  PROVE  /\ DOMAIN pending' = DOMAIN map
         /\ pending'[r] = PreparedRoom(map[r].owner, seats)
<1>1. [map[r] EXCEPT !.seats = seats] = PreparedRoom(map[r].owner, seats)
  BY NewSeats
<1> QED
  BY <1>1

LEMMA JoinRoomKeeps ==
  ASSUME LobbyInvariant, NEW t, NEW r, HandleJoinRoom(t, r)
  PROVE  LobbyInvariant' /\ Settled
<1> DEFINE old   == pending[r].seats
           u     == UserOf(t)
           seat  == First(JoinSeat(old, u))
           seats == [old EXCEPT ![seat] = SeatOf(u)]
<1>1. /\ t \in DOMAIN sessions /\ r \in DOMAIN pending /\ JoinSeat(old, u) # {}
      /\ pending' = [pending EXCEPT ![r].seats = seats]
      /\ Resolve(Expired(FilledUp(r, seats)))
      /\ sessions' = InRoom(t, r) /\ rooms' = RoomsAfterRelease(t)
      /\ UNCHANGED <<activeToken, waiting>>
  BY AuthedIsSession DEF HandleJoinRoom
<1>2. /\ r \in RoomIds /\ old \in SeatMap /\ SeatRules(old)
      /\ PreparedOK(pending) /\ InviteMaps /\ InvitesLead
  BY <1>1, RoomFacts DEF LobbyInvariant, RoomsInv
<1>3. u \in Users /\ u # Nobody
  BY <1>1, RoomOfType, NobodyIsNoUser DEF LobbyInvariant
<1>4. SessionsInv'
  BY <1>1, <1>2, MoveKeepsSessions DEF LobbyInvariant
<1>5. /\ seat \in Seats /\ old[seat].player \in {Nobody, u}
      /\ \/ old[seat].player = u
         \/ /\ \A j \in Seats : old[j].player # u
            /\ \A j \in Seats : old[j].player = Nobody => seat <= j
  <2>1. JoinSeat(old, u) \in SUBSET Seats
    BY DEF JoinSeat, SeatsHeld
  <2>2. seat \in JoinSeat(old, u) /\ \A j \in JoinSeat(old, u) : seat <= j
    BY <1>1, <2>1, FirstFacts
  <2> HIDE DEF seat, old, u
  <2> QED
    BY <2>1, <2>2 DEF JoinSeat, SeatsHeld
<1> HIDE DEF seat, u
<1>6. /\ seats \in SeatMap /\ SeatRules(seats) /\ ~seats[seat].ready
      /\ \A p : p # Nobody /\ SatBy(old, p) => SatBy(seats, p)
  <2>1. seats = [old EXCEPT ![seat] = SeatOf(u)]
    OBVIOUS
  <2>2. \/ old[seat].player = u
        \/ \A j \in Seats : old[j].player = u =>
             \E k \in Seats : k < seat /\ old[k].player = u
    BY <1>5
  <2> HIDE DEF seats, old
  <2> QED
    BY <1>2, <1>3, <1>5, <2>1, <2>2, SitDown
<1>7. RoomsInv'
  <2> HIDE DEF seats
  <2>1. PreparedOK(pending')
    BY <1>1, <1>2, <1>5, <1>6, SeatsChangeKeeps
  <2>2. RunningOK(rooms') /\ DOMAIN rooms' \subseteq DOMAIN rooms
    BY <1>1, ReleaseFacts DEF LobbyInvariant, RoomsInv
  <2> QED
    BY <1>1, <2>1, <2>2 DEF LobbyInvariant, RoomsInv
<1>8. /\ InviteMaps' /\ Settled /\ SomeStayOpen
      /\ \A id \in DOMAIN invitations' : invitations[id].room = r => ~Full(seats)
  BY <1>1, <1>2, FilledUpFacts
<1>9. /\ seats[seat].player = u
      /\ \A j \in Seats : j # seat => seats[j] = old[j]
  BY <1>2, <1>5 DEF SeatMap, SeatOf
<1>10. ASSUME NEW id \in DOMAIN invitations', invitations[id].room = r
       PROVE  Leads(invitations[id], PreparedRoom(pending[r].owner, seats))
  <2>1. invitations[id] \in Invitation /\ Leads(invitations[id], PreparedRoom(pending[r].owner, old))
    BY <1>1, <1>2, <1>8, <1>10, RoomIsRecord DEF InviteMaps, IsMap, InvitesLead, SomeStayOpen
  <2>2. ~Full(seats)
    BY <1>8, <1>10
  <2>3. \/ old[seat].player = u
        \/ \A j \in Seats : old[j].player = Nobody => seat <= j
    BY <1>5
  <2>4. /\ old \in SeatMap /\ u # Nobody /\ seat \in Seats
        /\ old[seat].player \in {Nobody, u} /\ seats \in SeatMap
    BY <1>2, <1>3, <1>5, <1>6
  <2> DEFINE owner  == pending[r].owner
             invite == invitations[id]
  <2> HIDE DEF seats, old, owner, invite
  <2> QED
    BY <1>9, <2>1, <2>2, <2>3, <2>4, LeadsWhenSitting
<1>11. InvitesLead'
  <2> HIDE DEF seats
  <2>1. \A x \in DOMAIN pending : x # r => x \in DOMAIN pending' /\ pending'[x] = pending[x]
    BY <1>1, OtherRoomsStay
  <2>2. r \in DOMAIN pending' /\ pending'[r] = PreparedRoom(pending[r].owner, seats)
    BY <1>1, <1>2, ChangedRoom
  <2>3. \A id \in DOMAIN invitations' :
          invitations[id].room = r => r \in DOMAIN pending' /\ Leads(invitations[id], pending'[r])
    BY <1>10, <2>2
  <2> QED
    BY <1>2, <1>8, <2>1, <2>3, InvitesLeadOn
<1> QED
  BY <1>4, <1>7, <1>8, <1>11 DEF LobbyInvariant

\* The end of HandleRoomReady and HandleAddBot: the room starts or waits on.
LEMMA SeatsChangedKeeps ==
  ASSUME LobbyInvariant, NEW r \in DOMAIN pending,
         NEW seats \in SeatMap, SeatRules(seats),
         \A p : p # Nobody /\ SatBy(pending[r].seats, p) => SatBy(seats, p),
         \A j \in Seats :
           \/ seats[j].player = pending[r].seats[j].player
           \/ seats[j].player = Bot /\ pending[r].seats[j].player = Nobody,
         SeatsChanged(r, seats)
  PROVE  RoomsInv' /\ InviteMaps' /\ Settled /\ InvitesLead'
<1> DEFINE old == pending[r].seats
<1>1. /\ r \in RoomIds /\ old \in SeatMap
      /\ PreparedOK(pending) /\ RunningOK(rooms) /\ InviteMaps /\ InvitesLead
      /\ DOMAIN pending \cap DOMAIN rooms = {}
  BY RoomFacts DEF LobbyInvariant, RoomsInv
<1>2. CASE Startable(seats)
  <2>1. /\ rooms' = Put(rooms, r, Started(seats)) /\ pending' = Drop(pending, {r})
        /\ Resolve(Expired(InvitesFor(r)))
    BY <1>2 DEF SeatsChanged
  <2>2. PreparedOK(pending') /\ DOMAIN pending' = DOMAIN pending \ {r}
    BY <1>1, <2>1, PreparedDrop
  <2>3. RunningOK(rooms')
    BY <1>1, <1>2, <2>1, StartedFacts, RunningPut
  <2>4. DOMAIN rooms' = DOMAIN rooms \cup {r}
    BY <2>1 DEF Put
  <2>5. RoomsInv'
    BY <1>1, <2>2, <2>3, <2>4 DEF RoomsInv
  <2>6. /\ InviteMaps' /\ Settled /\ SomeStayOpen
        /\ \A id \in DOMAIN invitations' : invitations[id].room # r
    BY <1>1, <2>1, RoomExpires
  <2>7. \A x \in DOMAIN pending : x # r => x \in DOMAIN pending' /\ pending'[x] = pending[x]
    BY <2>1 DEF Drop, Restrict
  <2> QED
    BY <1>1, <2>5, <2>6, <2>7, InvitesLeadOn
<1>3. CASE ~Startable(seats)
  <2>1. /\ pending' = [pending EXCEPT ![r].seats = seats] /\ rooms' = rooms
        /\ Resolve(Expired(FilledUp(r, seats)))
    BY <1>3 DEF SeatsChanged
  <2>2. PreparedOK(pending') /\ DOMAIN pending' = DOMAIN pending
    BY <1>1, <1>3, <2>1, NotStartable, SeatsChangeKeeps
  <2>3. RoomsInv'
    BY <1>1, <2>1, <2>2 DEF RoomsInv
  <2>4. /\ InviteMaps' /\ Settled /\ SomeStayOpen
        /\ \A id \in DOMAIN invitations' : invitations[id].room = r => ~Full(seats)
    BY <1>1, <2>1, FilledUpFacts
  <2>5. ASSUME NEW id \in DOMAIN invitations', invitations[id].room = r
        PROVE  Leads(invitations[id], PreparedRoom(pending[r].owner, seats))
    <3>1. /\ invitations[id] \in Invitation
          /\ Leads(invitations[id], PreparedRoom(pending[r].owner, old))
      BY <1>1, <2>4, <2>5, RoomIsRecord DEF InviteMaps, IsMap, InvitesLead, SomeStayOpen
    <3> QED
      BY <1>1, <2>4, <2>5, <3>1, LeadsWhenOthers
  <2>6. InvitesLead'
    <3>1. \A x \in DOMAIN pending : x # r => x \in DOMAIN pending' /\ pending'[x] = pending[x]
      BY <2>1, OtherRoomsStay
    <3>2. r \in DOMAIN pending' /\ pending'[r] = PreparedRoom(pending[r].owner, seats)
      BY <1>1, <2>1, ChangedRoom
    <3>3. \A id \in DOMAIN invitations' :
            invitations[id].room = r => r \in DOMAIN pending' /\ Leads(invitations[id], pending'[r])
      BY <2>5, <3>2
    <3> QED
      BY <1>1, <2>4, <3>1, <3>3, InvitesLeadOn
  <2> QED
    BY <2>3, <2>4, <2>6
<1> QED
  BY <1>2, <1>3

LEMMA RoomReadyKeeps ==
  ASSUME LobbyInvariant, NEW t, NEW r, NEW ready \in BOOLEAN, HandleRoomReady(t, r, ready)
  PROVE  LobbyInvariant' /\ Settled
<1> DEFINE old   == pending[r].seats
           u     == UserOf(t)
           i     == First(SeatsHeld(old, u))
           seats == [old EXCEPT ![i].ready = ready]
<1>1. /\ t \in DOMAIN sessions /\ r \in DOMAIN pending /\ SeatsHeld(old, u) # {}
      /\ SeatsChanged(r, seats)
      /\ sessions' = InRoom(t, RoomOf(t)) /\ UNCHANGED <<activeToken, waiting>>
  BY AuthedIsSession DEF HandleRoomReady
<1>2. old \in SeatMap /\ SeatRules(old) /\ u \in Users
  BY <1>1, RoomFacts, RoomOfType DEF LobbyInvariant, RoomsInv
<1>3. SessionsInv'
  BY <1>1, RoomOfType, MoveKeepsSessions DEF LobbyInvariant
<1>4. /\ seats \in SeatMap /\ SeatRules(seats)
      /\ \A j \in Seats : seats[j].player = old[j].player
  <2>1. i \in Seats /\ old[i].player = u /\ \A j \in Seats : old[j].player = u => i <= j
    BY <1>1, FirstFacts DEF SeatsHeld
  <2>2. seats = [old EXCEPT ![i].ready = ready]
    OBVIOUS
  <2> HIDE DEF seats, old, u, i
  <2>3. /\ seats \in SeatMap /\ seats[i].player = u
        /\ \A j \in Seats : j # i => seats[j] = old[j]
    BY <1>2, <2>1, <2>2 DEF SeatMap, Seat
  <2> QED
    BY <1>2, <2>1, <2>3, GetReady
<1> HIDE DEF seats
<1>5. \A p : SatBy(old, p) => SatBy(seats, p)
  BY <1>4 DEF SatBy
<1>6. RoomsInv' /\ InviteMaps' /\ Settled /\ InvitesLead'
  BY <1>1, <1>4, <1>5, SeatsChangedKeeps
<1> QED
  BY <1>3, <1>6 DEF LobbyInvariant

LEMMA AddBotKeeps ==
  ASSUME LobbyInvariant, NEW t, NEW r, NEW i \in Seats, HandleAddBot(t, r, i)
  PROVE  LobbyInvariant' /\ Settled
<1> DEFINE old   == pending[r].seats
           seats == [old EXCEPT ![i] = BotSeat]
<1>1. /\ t \in DOMAIN sessions /\ r \in DOMAIN pending /\ old[i] = EmptySeat
      /\ SeatsChanged(r, seats)
      /\ sessions' = InRoom(t, RoomOf(t)) /\ UNCHANGED <<activeToken, waiting>>
  BY AuthedIsSession DEF HandleAddBot
<1>2. old \in SeatMap /\ SeatRules(old)
  BY <1>1, RoomFacts DEF LobbyInvariant, RoomsInv
<1>3. SessionsInv'
  BY <1>1, RoomOfType, MoveKeepsSessions DEF LobbyInvariant
<1>4. /\ seats \in SeatMap /\ SeatRules(seats)
      /\ \A p : p # Nobody /\ SatBy(old, p) => SatBy(seats, p)
  <2>1. seats = [old EXCEPT ![i] = BotSeat]
    OBVIOUS
  <2> HIDE DEF seats, old
  <2> QED
    BY <1>1, <1>2, <2>1, BotSitsDown
<1>5. \A j \in Seats :
        \/ seats[j].player = old[j].player
        \/ seats[j].player = Bot /\ old[j].player = Nobody
  BY <1>1, <1>2 DEF SeatMap, BotSeat, EmptySeat
<1> HIDE DEF seats
<1>6. RoomsInv' /\ InviteMaps' /\ Settled /\ InvitesLead'
  BY <1>1, <1>4, <1>5, SeatsChangedKeeps
<1> QED
  BY <1>3, <1>6 DEF LobbyInvariant

LEMMA RemovePlayerKeeps ==
  ASSUME LobbyInvariant, NEW t, NEW r, NEW i \in Seats, HandleRemovePlayer(t, r, i)
  PROVE  LobbyInvariant' /\ Settled
<1> DEFINE old   == pending[r].seats
           seats == [old EXCEPT ![i] = EmptySeat]
           owner == pending[r].owner
<1>1. /\ t \in DOMAIN sessions /\ r \in DOMAIN pending /\ owner = UserOf(t)
      /\ old[i].player # owner
      /\ pending' = [pending EXCEPT ![r].seats[i] = EmptySeat]
      /\ Resolve(Expired(InvitesFor(r)))
      /\ UNCHANGED <<activeToken, rooms, waiting>>
  BY AuthedIsSession DEF HandleRemovePlayer
<1>2. /\ old \in SeatMap /\ SeatRules(old) /\ owner \in Users /\ owner # Nobody
      /\ SatBy(old, owner)
  BY <1>1, RoomFacts, RoomOfType, NobodyIsNoUser DEF LobbyInvariant, RoomsInv
<1>3. SessionsInv'
  <2>1. PICK gone : sessions' = [s \in DOMAIN sessions |->
                       IF s \in gone THEN [sessions[s] EXCEPT !.room = NoRoom]
                       ELSE InRoom(t, RoomOf(t))[s]]
    BY DEF HandleRemovePlayer
  <2>2. /\ InRoom(t, RoomOf(t)) \in [DOMAIN sessions -> Session]
        /\ \A s \in DOMAIN sessions : InRoom(t, RoomOf(t))[s].user = sessions[s].user
    BY <1>1, RoomOfType, InRoomFacts DEF LobbyInvariant
  <2>3. \A s \in DOMAIN sessions : sessions[s] \in Session
    BY DEF LobbyInvariant, SessionsInv, IsMap
  <2>4. SessionsStay
    <3> DEFINE mine == InRoom(t, RoomOf(t))
    <3> HIDE DEF mine
    <3> QED
      BY <1>1, <2>1, <2>2, <2>3 DEF SessionsStay, Session, mine
  <2> QED
    BY <1>1, <2>4, SessionsStayKeeps DEF LobbyInvariant, SessionsInv
<1>4. /\ seats \in SeatMap /\ SeatRules(seats) /\ ~seats[i].ready /\ SatBy(seats, owner)
  <2>1. seats = [old EXCEPT ![i] = EmptySeat]
    OBVIOUS
  <2> HIDE DEF seats, old, owner
  <2>2. /\ seats \in SeatMap /\ SeatRules(seats) /\ ~seats[i].ready
        /\ \A p : p # old[i].player /\ SatBy(old, p) => SatBy(seats, p)
    BY <1>2, <2>1, StandUp
  <2> QED
    BY <1>1, <1>2, <2>2
<1>5. pending' = [pending EXCEPT ![r].seats = seats]
  BY <1>1
<1> HIDE DEF seats
<1>6. RoomsInv'
  <2>1. \E j \in Seats : seats[j].player # Nobody
    BY <1>2, <1>4 DEF SatBy
  <2>2. PreparedOK([pending EXCEPT ![r].seats = seats])
    BY <1>1, <1>4, <2>1, RoomStays DEF LobbyInvariant, RoomsInv
  <2>3. DOMAIN pending' = DOMAIN pending
    BY <1>5
  <2> QED
    BY <1>1, <1>5, <2>2, <2>3 DEF LobbyInvariant, RoomsInv
<1>7. /\ InviteMaps' /\ Settled /\ SomeStayOpen
      /\ \A id \in DOMAIN invitations' : invitations[id].room # r
  BY <1>1, RoomExpires DEF LobbyInvariant
<1>8. InvitesLead'
  <2>1. \A x \in DOMAIN pending : x # r => x \in DOMAIN pending' /\ pending'[x] = pending[x]
    BY <1>5, OtherRoomsStay
  <2> QED
    BY <1>7, <2>1, InvitesLeadOn DEF LobbyInvariant
<1> QED
  BY <1>3, <1>6, <1>7, <1>8 DEF LobbyInvariant

\* Who owns a room u has left sits in it, or nobody owns it.
LEMMA NextOwnerFacts ==
  ASSUME NEW seats \in SeatMap, NEW owner \in Users \cup {Nobody}, NEW u,
         owner # Nobody /\ owner # u => SatBy(seats, owner)
  PROVE  /\ NextOwner(owner, seats, u) \in Users \cup {Nobody}
         /\ NextOwner(owner, seats, u) # Nobody => SatBy(seats, NextOwner(owner, seats, u))
<1>1. CASE owner # u
  BY <1>1 DEF NextOwner
<1>2. CASE owner = u /\ HumansIn(seats) = {}
  BY <1>2 DEF NextOwner
<1>3. CASE owner = u /\ HumansIn(seats) # {}
  <2>1. HumansIn(seats) \in SUBSET Seats
    BY DEF HumansIn
  <2>2. First(HumansIn(seats)) \in HumansIn(seats)
    BY <1>3, <2>1, FirstFacts
  <2>3. NextOwner(owner, seats, u) = seats[First(HumansIn(seats))].player
    BY <1>3 DEF NextOwner
  <2> QED
    BY <2>2, <2>3 DEF HumansIn, SatBy
<1> QED
  BY <1>1, <1>2, <1>3

\* Leaving a room in preparation leaves every room in order, and the others as they are.
LEMMA WithoutFacts ==
  ASSUME PreparedOK(pending), NEW r \in DOMAIN pending, NEW u \in Users,
         NEW rest, rest = PendingWithout(u, r)
  PROVE  /\ PreparedOK(rest) /\ DOMAIN rest \subseteq DOMAIN pending
         /\ \A x \in DOMAIN pending : x # r => x \in DOMAIN rest /\ rest[x] = pending[x]
         /\ SeatsHeld(pending[r].seats, u) = {} => rest = pending
<1> DEFINE old   == pending[r].seats
           i     == First(SeatsHeld(old, u))
           seats == [old EXCEPT ![i] = EmptySeat]
           owner == NextOwner(pending[r].owner, seats, u)
<1>1. CASE SeatsHeld(old, u) = {}
  BY <1>1 DEF PendingWithout
<1>2. CASE SeatsHeld(old, u) # {}
  <2>1. i \in Seats /\ old[i].player = u
    BY <1>2, FirstFacts DEF SeatsHeld
  <2>2. /\ old \in SeatMap /\ SeatRules(old) /\ pending[r].owner \in Users \cup {Nobody}
        /\ pending[r].owner # Nobody => SatBy(old, pending[r].owner)
    BY RoomFacts
  <2>3. /\ seats \in SeatMap /\ SeatRules(seats) /\ ~seats[i].ready
        /\ \A p : p # u /\ SatBy(old, p) => SatBy(seats, p)
    <3>1. seats = [old EXCEPT ![i] = EmptySeat]
      OBVIOUS
    <3> HIDE DEF seats, old, i
    <3> QED
      BY <2>1, <2>2, <3>1, StandUp
  <2>4. owner \in Users \cup {Nobody} /\ (owner # Nobody => SatBy(seats, owner))
    <3> HIDE DEF seats
    <3> QED
      BY <2>2, <2>3, NextOwnerFacts
  <2>5. rest = IF SeatsHeld(seats, Nobody) = Seats THEN Drop(pending, {r})
               ELSE [pending EXCEPT ![r] = PreparedRoom(owner, seats)]
    BY <1>2 DEF PendingWithout, PreparedRoom
  <2> HIDE DEF owner, seats, i
  <2>6. CASE SeatsHeld(seats, Nobody) = Seats
    <3>1. rest = Drop(pending, {r})
      BY <2>5, <2>6
    <3>2. PreparedOK(Drop(pending, {r})) /\ DOMAIN Drop(pending, {r}) = DOMAIN pending \ {r}
      BY PreparedDrop
    <3>3. \A x \in DOMAIN pending : x # r => Drop(pending, {r})[x] = pending[x]
      BY DEF Drop, Restrict
    <3> QED
      BY <1>2, <3>1, <3>2, <3>3
  <2>7. CASE SeatsHeld(seats, Nobody) # Seats
    <3>1. rest = [pending EXCEPT ![r] = PreparedRoom(owner, seats)]
      BY <2>5, <2>7
    <3>2. \E j \in Seats : seats[j].player # Nobody
      BY <2>7 DEF SeatsHeld
    <3>3. RoomRules(PreparedRoom(owner, seats))
      BY <2>1, <2>3, <2>4, <3>2 DEF RoomRules, PreparedRoom, SatBy
    <3>4. PreparedOK([pending EXCEPT ![r] = PreparedRoom(owner, seats)])
      BY <2>3, <2>4, <3>3, RoomChanges
    <3> QED
      BY <1>2, <3>1, <3>4
  <2> QED
    BY <2>6, <2>7
<1> QED
  BY <1>1, <1>2

LEMMA LeavePendingKeeps ==
  ASSUME LobbyInvariant, NEW t, NEW r, HandleLeavePending(t, r)
  PROVE  LobbyInvariant' /\ Settled
<1> DEFINE u == UserOf(t)
<1>1. /\ t \in DOMAIN sessions /\ r \in DOMAIN pending
      /\ sessions' = InRoom(t, NoRoom)
      /\ pending' = PendingWithout(u, r)
      /\ Resolve(Expired(LeftBehind(u, r)))
      /\ UNCHANGED <<activeToken, rooms, waiting>>
  BY AuthedIsSession DEF HandleLeavePending
<1>2. u \in Users /\ PreparedOK(pending)
  BY <1>1, RoomOfType DEF LobbyInvariant, RoomsInv
<1>3. SessionsInv'
  BY <1>1, MoveKeepsSessions DEF LobbyInvariant
<1> HIDE DEF u
<1>4. /\ PreparedOK(pending') /\ DOMAIN pending' \subseteq DOMAIN pending
      /\ \A x \in DOMAIN pending : x # r => x \in DOMAIN pending' /\ pending'[x] = pending[x]
      /\ SeatsHeld(pending[r].seats, u) = {} => pending' = pending
  BY <1>1, <1>2, WithoutFacts
<1>5. RoomsInv'
  BY <1>1, <1>4 DEF LobbyInvariant, RoomsInv
<1>6. /\ InviteMaps' /\ Settled /\ SomeStayOpen
      /\ DOMAIN invitations' = DOMAIN invitations \ LeftBehind(u, r)
  <2>1. LeftBehind(u, r) \in SUBSET DOMAIN invitations
    BY DEF LeftBehind, InvitesFor
  <2> QED
    BY <1>1, <2>1, ExpireFacts DEF LobbyInvariant
<1>7. ASSUME NEW id \in DOMAIN invitations', invitations[id].room = r
      PROVE  r \in DOMAIN pending' /\ Leads(invitations[id], pending'[r])
  <2>1. id \in DOMAIN invitations /\ id \notin LeftBehind(u, r)
    BY <1>6, <1>7
  <2>2. pending' = pending
    BY <1>4, <1>7, <2>1 DEF LeftBehind, InvitesFor
  <2> QED
    BY <1>1, <1>7, <2>1, <2>2 DEF LobbyInvariant, InvitesLead
<1>8. InvitesLead'
  BY <1>4, <1>6, <1>7, InvitesLeadOn DEF LobbyInvariant
<1> QED
  BY <1>3, <1>5, <1>6, <1>8 DEF LobbyInvariant

LEMMA InviteKeeps ==
  ASSUME LobbyInvariant, NEW t, NEW r, NEW u \in Users, NEW i \in Seats,
         HandleInvitePlayer(t, r, u, i)
  PROVE  LobbyInvariant' /\ Settled
<1> DEFINE invite == [room |-> r, inviter |-> UserOf(t), invitee |-> u, seat |-> i]
<1>1. /\ t \in DOMAIN sessions /\ r \in DOMAIN pending /\ pending[r].owner = UserOf(t)
      /\ SeatsHeld(pending[r].seats, u) = {} /\ pending[r].seats[i] = EmptySeat
      /\ u \notin DOMAIN invitationOf
      /\ sessions' = InRoom(t, RoomOf(t))
      /\ UNCHANGED <<activeToken, pending, rooms, waiting, resolved>>
  BY AuthedIsSession DEF HandleInvitePlayer
<1>2. PICK id \in InviteIds \ (DOMAIN invitations \cup DOMAIN resolved) :
        invitations' = Put(invitations, id, invite) /\ invitationOf' = Put(invitationOf, u, id)
  BY DEF HandleInvitePlayer
<1>3. SessionsInv'
  BY <1>1, RoomOfType, MoveKeepsSessions DEF LobbyInvariant
<1>4. RoomsInv'
  BY <1>1, RoomsQuiet DEF LobbyInvariant
<1>5. InviteMaps
  BY DEF LobbyInvariant
<1>6. invite \in Invitation /\ invite.invitee = u
  <2>1. UserOf(t) \in Users /\ r \in RoomIds
    BY <1>1, RoomOfType, RoomFacts DEF LobbyInvariant, RoomsInv
  <2> QED
    BY <2>1 DEF Invitation
<1>7. invite.room = r /\ Leads(invite, pending[r])
  BY <1>1 DEF Leads, SeatsHeld, EmptySeat
<1> HIDE DEF invite
<1>8. /\ IsMap(invitations', InviteIds, Invitation) /\ IsMap(invitationOf', Users, InviteIds)
  BY <1>2, <1>5, <1>6, PutType DEF InviteMaps
<1>9. /\ DOMAIN invitations' = DOMAIN invitations \cup {id} /\ invitations'[id] = invite
      /\ \A x \in DOMAIN invitations : invitations'[x] = invitations[x]
  BY <1>2 DEF Put
<1>10. /\ DOMAIN invitationOf' = DOMAIN invitationOf \cup {u} /\ invitationOf'[u] = id
       /\ \A x \in DOMAIN invitationOf : invitationOf'[x] = invitationOf[x]
  BY <1>1, <1>2 DEF Put
<1>11. InviteMaps'
  <2>1. \A x \in DOMAIN invitationOf' :
          invitationOf'[x] \in DOMAIN invitations' /\ invitations'[invitationOf'[x]].invitee = x
    BY <1>5, <1>6, <1>9, <1>10 DEF InviteMaps
  <2>2. \A x \in DOMAIN invitations' :
          /\ invitations'[x].invitee \in DOMAIN invitationOf'
          /\ invitationOf'[invitations'[x].invitee] = x
    BY <1>1, <1>5, <1>6, <1>9, <1>10 DEF InviteMaps
  <2>3. IsMap(resolved', InviteIds, Results)
    BY <1>1, <1>5 DEF InviteMaps
  <2>4. DOMAIN invitations' \cap DOMAIN resolved' = {}
    BY <1>1, <1>2, <1>5, <1>9 DEF InviteMaps
  <2> QED
    BY <1>8, <2>1, <2>2, <2>3, <2>4 DEF InviteMaps
<1>12. Settled
  BY <1>1, <1>2, <1>5, <1>9 DEF Settled, InviteMaps
<1>13. InvitesLead'
  <2>1. ASSUME NEW x \in DOMAIN invitations'
        PROVE  invitations'[x].room \in DOMAIN pending /\ Leads(invitations'[x], pending[invitations'[x].room])
    <3>1. CASE x = id
      BY <1>1, <1>7, <1>9, <3>1
    <3>2. CASE x # id
      <4>1. x \in DOMAIN invitations /\ invitations'[x] = invitations[x]
        BY <1>9, <3>2
      <4> QED
        BY <4>1 DEF LobbyInvariant, InvitesLead
    <3> QED
      BY <3>1, <3>2
  <2>2. pending' = pending
    BY <1>1
  <2> QED
    BY <2>1, <2>2 DEF InvitesLead, Leads
<1> QED
  BY <1>3, <1>4, <1>11, <1>12, <1>13 DEF LobbyInvariant

LEMMA AnswerKeeps ==
  ASSUME LobbyInvariant, NEW t \in DOMAIN sessions, NEW id \in DOMAIN invitations,
         NEW result \in Results, Resolve([i \in {id} |-> result]),
         sessions' = InRoom(t, RoomOf(t)), UNCHANGED <<activeToken, pending, rooms, waiting>>
  PROVE  LobbyInvariant' /\ Settled
<1>1. SessionsInv'
  BY RoomOfType, MoveKeepsSessions DEF LobbyInvariant
<1>2. InviteMaps' /\ Settled /\ SomeStayOpen
  <2> DEFINE outcome == [i \in {id} |-> result]
  <2>1. DOMAIN outcome \subseteq DOMAIN invitations /\ \A i \in DOMAIN outcome : outcome[i] \in Results
    OBVIOUS
  <2>2. Resolve(outcome)
    OBVIOUS
  <2> HIDE DEF outcome
  <2> QED
    BY <2>1, <2>2, ResolveFacts DEF LobbyInvariant
<1>3. InvitesLead'
  BY <1>2 DEF LobbyInvariant, InvitesLead, SomeStayOpen, Leads
<1> QED
  BY <1>1, <1>2, <1>3, RoomsQuiet DEF LobbyInvariant

LEMMA DeclineKeeps ==
  ASSUME LobbyInvariant, NEW t, NEW id, DeclineInvitation(t, id)
  PROVE  LobbyInvariant' /\ Settled
<1>1. t \in DOMAIN sessions /\ id \in DOMAIN invitations /\ "rejected" \in Results
  BY AuthedIsSession DEF DeclineInvitation, Invited, Results
<1> QED
  BY <1>1, AnswerKeeps DEF DeclineInvitation

LEMMA AcceptFailsKeeps ==
  ASSUME LobbyInvariant, NEW t, NEW id, AcceptInvitationFails(t, id)
  PROVE  LobbyInvariant' /\ Settled
<1> DEFINE result == Outcome(t, invitations[id])
<1>1. t \in DOMAIN sessions /\ id \in DOMAIN invitations /\ result \in Results
  BY AuthedIsSession DEF AcceptInvitationFails, Invited, Results, Outcome
<1>2. /\ Resolve([i \in {id} |-> result]) /\ sessions' = InRoom(t, RoomOf(t))
      /\ UNCHANGED <<activeToken, pending, rooms, waiting>>
  BY DEF AcceptInvitationFails
<1> HIDE DEF result
<1> QED
  BY <1>1, <1>2, AnswerKeeps

\* The rooms in preparation when t has left the one his session is in for the room r.
Left(t, r) ==
  IF RoomOf(t) \in DOMAIN pending \ {r} THEN PendingWithout(UserOf(t), RoomOf(t)) ELSE pending
LeftExpired(t, r) ==
  IF RoomOf(t) \in DOMAIN pending \ {r} THEN LeftBehind(UserOf(t), RoomOf(t)) ELSE {}

LEMMA LeftFacts ==
  ASSUME LobbyInvariant, NEW t \in DOMAIN sessions, NEW r \in DOMAIN pending,
         NEW rest, rest = Left(t, r)
  PROVE  /\ PreparedOK(rest) /\ DOMAIN rest \subseteq DOMAIN pending
         /\ r \in DOMAIN rest /\ rest[r] = pending[r]
         /\ LeftExpired(t, r) \in SUBSET DOMAIN invitations
         /\ \A id \in DOMAIN invitations \ LeftExpired(t, r) :
              /\ invitations[id].room \in DOMAIN rest
              /\ rest[invitations[id].room] = pending[invitations[id].room]
<1> DEFINE q == RoomOf(t)
           u == UserOf(t)
<1>1. u \in Users /\ PreparedOK(pending)
  BY RoomOfType DEF LobbyInvariant, RoomsInv
<1>2. \A id \in DOMAIN invitations : invitations[id].room \in DOMAIN pending
  BY DEF LobbyInvariant, InvitesLead
<1>3. CASE q \notin DOMAIN pending \ {r}
  <2>1. rest = pending /\ LeftExpired(t, r) = {}
    BY <1>3 DEF Left, LeftExpired
  <2> QED
    BY <1>1, <1>2, <2>1
<1>4. CASE q \in DOMAIN pending \ {r}
  <2>1. rest = PendingWithout(u, q) /\ LeftExpired(t, r) = LeftBehind(u, q)
    BY <1>4 DEF Left, LeftExpired
  <2> HIDE DEF q, u
  <2>2. /\ PreparedOK(rest) /\ DOMAIN rest \subseteq DOMAIN pending
        /\ \A x \in DOMAIN pending : x # q => x \in DOMAIN rest /\ rest[x] = pending[x]
        /\ SeatsHeld(pending[q].seats, u) = {} => rest = pending
    BY <1>1, <1>4, <2>1, WithoutFacts
  <2>3. LeftExpired(t, r) \in SUBSET DOMAIN invitations
    BY <2>1 DEF LeftBehind, InvitesFor
  <2>4. ASSUME NEW id \in DOMAIN invitations \ LeftExpired(t, r)
        PROVE  /\ invitations[id].room \in DOMAIN rest
               /\ rest[invitations[id].room] = pending[invitations[id].room]
    <3>1. CASE invitations[id].room # q
      BY <1>2, <2>2, <2>4, <3>1
    <3>2. CASE invitations[id].room = q
      <4>1. SeatsHeld(pending[q].seats, u) = {}
        BY <2>1, <2>4, <3>2 DEF LeftBehind, InvitesFor
      <4> QED
        BY <1>2, <2>2, <2>4, <4>1
    <3> QED
      BY <3>1, <3>2
  <2> QED
    BY <1>4, <2>2, <2>3, <2>4
<1> QED
  BY <1>3, <1>4

LEMMA AcceptKeeps ==
  ASSUME LobbyInvariant, NEW t, NEW id, AcceptInvitation(t, id)
  PROVE  LobbyInvariant' /\ Settled
<1> DEFINE u       == UserOf(t)
           r       == invitations[id].room
           seat    == invitations[id].seat
           old     == pending[r].seats
           seats   == [old EXCEPT ![seat] = SeatOf(u)]
           rest    == Left(t, r)
           expired == FilledUp(r, seats) \cup LeftExpired(t, r)
           outcome == [i \in expired \cup {id} |-> IF i = id THEN "accepted" ELSE "expired"]
<1>1. /\ t \in DOMAIN sessions /\ id \in DOMAIN invitations /\ invitations[id].invitee = u
      /\ r \in DOMAIN pending /\ old[seat].player \in {Nobody, u}
  BY AuthedIsSession DEF AcceptInvitation, Invited, Outcome
<1>2. /\ pending' = [rest EXCEPT ![r].seats = seats]
      /\ Resolve(outcome)
      /\ sessions' = InRoom(t, r)
      /\ UNCHANGED <<activeToken, rooms, waiting>>
  BY DEF AcceptInvitation, Left, LeftExpired
<1>3. /\ r \in RoomIds /\ old \in SeatMap /\ SeatRules(old)
      /\ PreparedOK(pending) /\ InviteMaps /\ InvitesLead
  BY <1>1, RoomFacts DEF LobbyInvariant, RoomsInv
<1>4. u \in Users /\ u # Nobody
  BY <1>1, RoomOfType, NobodyIsNoUser DEF LobbyInvariant
<1>5. SessionsInv'
  BY <1>1, <1>2, <1>3, MoveKeepsSessions DEF LobbyInvariant
<1>6. /\ PreparedOK(rest) /\ DOMAIN rest \subseteq DOMAIN pending
      /\ r \in DOMAIN rest /\ rest[r] = pending[r]
      /\ LeftExpired(t, r) \in SUBSET DOMAIN invitations
      /\ \A x \in DOMAIN invitations \ LeftExpired(t, r) :
           /\ invitations[x].room \in DOMAIN rest
           /\ rest[invitations[x].room] = pending[invitations[x].room]
  <2> HIDE DEF r
  <2> QED
    BY <1>1, LeftFacts
<1>7. /\ seat \in Seats
      /\ \/ old[seat].player = u
         \/ \A j \in Seats : old[j].player = u => \E k \in Seats : k < seat /\ old[k].player = u
  <2>1. seat \in Seats
    BY <1>1, <1>3 DEF InviteMaps, IsMap, Invitation
  <2>2. Leads(invitations[id], pending[r])
    BY <1>1, <1>3 DEF InvitesLead
  <2> QED
    BY <1>1, <2>1, <2>2 DEF Leads
<1> HIDE DEF u, seat, rest
<1>8. /\ seats \in SeatMap /\ SeatRules(seats) /\ ~seats[seat].ready
      /\ \A p : p # Nobody /\ SatBy(old, p) => SatBy(seats, p)
  <2>1. seats = [old EXCEPT ![seat] = SeatOf(u)]
    OBVIOUS
  <2> HIDE DEF seats, old, r
  <2> QED
    BY <1>1, <1>3, <1>4, <1>7, <2>1, SitDown
<1>9. /\ seats[seat].player = u
      /\ \A j \in Seats : j # seat => seats[j] = old[j]
  BY <1>3, <1>7 DEF SeatMap, SeatOf
<1> HIDE DEF seats
<1>10. RoomsInv'
  <2>1. \A p : p # Nobody /\ SatBy(rest[r].seats, p) => SatBy(seats, p)
    BY <1>6, <1>8
  <2>2. PreparedOK([rest EXCEPT ![r].seats = seats])
    <3> HIDE DEF r
    <3> QED
      BY <1>6, <1>7, <1>8, <2>1, SeatsChangeKeeps
  <2>3. DOMAIN pending' = DOMAIN rest
    BY <1>2
  <2> QED
    BY <1>2, <1>6, <2>2, <2>3 DEF LobbyInvariant, RoomsInv
<1>11. /\ InviteMaps' /\ Settled /\ SomeStayOpen
       /\ DOMAIN invitations' = DOMAIN invitations \ (expired \cup {id})
  <2>1. expired \cup {id} \in SUBSET DOMAIN invitations
    BY <1>1, <1>6 DEF FilledUp, InvitesFor
  <2>2. DOMAIN outcome = expired \cup {id} /\ \A i \in DOMAIN outcome : outcome[i] \in Results
    BY DEF Results
  <2> HIDE DEF outcome, expired
  <2> QED
    BY <1>2, <1>3, <2>1, <2>2, ResolveFacts
<1>12. \A x \in DOMAIN invitations' :
         x \in DOMAIN invitations /\ x # id /\ x \notin FilledUp(r, seats) /\ x \notin LeftExpired(t, r)
  BY <1>11
<1>13. ASSUME NEW x \in DOMAIN invitations', invitations[x].room = r
       PROVE  Leads(invitations[x], PreparedRoom(pending[r].owner, seats))
  <2>1. /\ invitations[x] \in Invitation
        /\ Leads(invitations[x], PreparedRoom(pending[r].owner, old))
    BY <1>1, <1>3, <1>12, <1>13, RoomIsRecord DEF InviteMaps, IsMap, InvitesLead
  <2>2. ~Full(seats)
    BY <1>12, <1>13 DEF FilledUp, InvitesFor
  <2>3. invitations[x].invitee # u
    BY <1>1, <1>3, <1>12 DEF InviteMaps
  <2> HIDE DEF old, r
  <2> QED
    BY <1>1, <1>3, <1>4, <1>7, <1>8, <1>9, <2>1, <2>2, <2>3, LeadsWhenSitting
<1>14. InvitesLead'
  <2> HIDE DEF r
  <2>1. DOMAIN pending' = DOMAIN rest /\ pending'[r] = PreparedRoom(pending[r].owner, seats)
    <3>1. [rest[r] EXCEPT !.seats = seats] = PreparedRoom(rest[r].owner, seats)
      BY <1>6, NewSeats
    <3> QED
      BY <1>2, <1>6, <3>1
  <2>2. \A x \in DOMAIN invitations' :
          invitations[x].room # r =>
            /\ invitations[x].room \in DOMAIN pending'
            /\ pending'[invitations[x].room] = pending[invitations[x].room]
    BY <1>2, <1>6, <1>12, <2>1
  <2>3. \A x \in DOMAIN invitations' :
          invitations[x].room = r => r \in DOMAIN pending' /\ Leads(invitations[x], pending'[r])
    BY <1>6, <1>13, <2>1
  <2> QED
    BY <1>3, <1>11, <2>2, <2>3, OpenInvitesLeadOn
<1> QED
  BY <1>5, <1>10, <1>11, <1>14 DEF LobbyInvariant

-----------------------------------------------------------------------------
(* The steps together.                                                     *)

LEMMA RequestKeeps ==
  ASSUME LobbyInvariant, NEW t \in DOMAIN sessions, Requests(t)
  PROVE  LobbyInvariant' /\ Settled
<1>1. CASE \/ HandleHeartbeat(t) \/ HandleMatchVsBot(t) \/ HandleMatchPvp(t) \/ CancelMatch(t)
           \/ HandleCreateRoom(t) \/ HandleJoinRoomFails(t) \/ HandleLeaveGame(t)
           \/ HandleReconnectForgets(t)
  BY <1>1, ConnectionKeeps, MatchVsBotKeeps, MatchPvpKeeps, CancelMatchKeeps, CreateRoomKeeps,
     JoinFailsKeeps, LeaveGameKeeps, ReconnectForgetsKeeps, Zenon
<1>2. ASSUME NEW r \in DOMAIN pending, HandleJoinRoom(t, r) \/ HandleLeavePending(t, r)
      PROVE  LobbyInvariant' /\ Settled
  BY <1>2, JoinRoomKeeps, LeavePendingKeeps, Zenon
<1>3. ASSUME NEW r \in DOMAIN pending, NEW ready \in BOOLEAN, HandleRoomReady(t, r, ready)
      PROVE  LobbyInvariant' /\ Settled
  BY <1>3, RoomReadyKeeps, Zenon
<1>4. ASSUME NEW r \in DOMAIN pending, NEW i \in Seats,
             HandleAddBot(t, r, i) \/ HandleRemovePlayer(t, r, i)
      PROVE  LobbyInvariant' /\ Settled
  BY <1>4, AddBotKeeps, RemovePlayerKeeps, Zenon
<1>5. ASSUME NEW r \in DOMAIN pending, NEW i \in Seats, NEW u \in Users,
             HandleInvitePlayer(t, r, u, i)
      PROVE  LobbyInvariant' /\ Settled
  BY <1>5, InviteKeeps, Zenon
<1>6. ASSUME NEW id \in DOMAIN invitations,
             \/ DeclineInvitation(t, id) \/ AcceptInvitation(t, id)
             \/ AcceptInvitationFails(t, id)
      PROVE  LobbyInvariant' /\ Settled
  BY <1>6, DeclineKeeps, AcceptKeeps, AcceptFailsKeeps, Zenon
<1> QED
  BY <1>1, <1>2, <1>3, <1>4, <1>5, <1>6, Zenon DEF Requests

LEMMA NextKeeps ==
  ASSUME LobbyInvariant, [Next]_vars
  PROVE  LobbyInvariant' /\ Settled
<1>1. CASE UNCHANGED vars
  <2>1. /\ UNCHANGED <<sessions, activeToken, pending, rooms, waiting>>
        /\ UNCHANGED <<pending, inviteVars>>
    BY <1>1 DEF vars
  <2>2. SessionsInv'
    BY <2>1 DEF LobbyInvariant, SessionsInv, IsMap, UserOf, Distinct, Range
  <2> QED
    BY <2>1, <2>2, RoomsQuiet, InvitesQuiet DEF LobbyInvariant
<1>2. CASE \E u \in Users, t \in Tokens : HandleLogin(u, t)
  BY <1>2, LoginKeeps, Zenon
<1>3. CASE \E t \in DOMAIN sessions : Requests(t) \/ Disconnect(t)
  BY <1>3, RequestKeeps, ConnectionKeeps, Zenon
<1>4. CASE \E r \in DOMAIN rooms : RoomFinishes(r)
  BY <1>4, RoomFinishesKeeps, Zenon
<1>5. CASE \E due \in SUBSET DOMAIN invitations, kept \in SUBSET DOMAIN resolved :
             TickRoomsLoop(due, kept)
  BY <1>5, TickKeeps, Zenon
<1> QED
  BY <1>1, <1>2, <1>3, <1>4, <1>5, Zenon DEF Next

LEMMA InitIsInOrder == Init => LobbyInvariant
<1> SUFFICES ASSUME Init PROVE LobbyInvariant
  OBVIOUS
<1>1. /\ DOMAIN sessions = {} /\ DOMAIN activeToken = {} /\ DOMAIN pending = {}
      /\ DOMAIN rooms = {} /\ DOMAIN invitations = {} /\ DOMAIN invitationOf = {}
      /\ DOMAIN resolved = {} /\ waiting = <<>>
  BY DEF Init, EmptyMap
<1>2. \A K, V : IsMap(EmptyMap, K, V)
  BY DEF IsMap, EmptyMap
<1>3. SessionsInv
  BY <1>1, <1>2 DEF Init, SessionsInv, Distinct, Range
<1>4. RoomsInv
  BY <1>1, <1>2 DEF Init, RoomsInv, PreparedOK, RunningOK
<1>5. InviteMaps /\ InvitesLead
  BY <1>1, <1>2 DEF Init, InviteMaps, InvitesLead
<1> QED
  BY <1>3, <1>4, <1>5 DEF LobbyInvariant

\* Every lobby the handlers can reach is in order, whatever the number of users, tokens,
\* rooms and invitations and whatever the bounds.
THEOREM LobbyStaysInOrder == Spec => []LobbyInvariant
<1>1. LobbyInvariant /\ [Next]_vars => LobbyInvariant'
  BY NextKeeps
<1> QED
  BY <1>1, InitIsInOrder, PTL DEF Spec

\* The maps hold what their types say; a bot never owns a room, and no game starts with
\* an empty seat.
THEOREM TypesKept == Spec => []TypeOK
<1>1. LobbyInvariant => TypeOK
  BY DEF LobbyInvariant, SessionsInv, RoomsInv, PreparedOK, RunningOK, InviteMaps, TypeOK, Results
<1> QED
  BY <1>1, LobbyStaysInOrder, PTL

\* A user has one session, the one of his last login, and waits in the queue once, with
\* a session that lives (HandleLogin 720-755, MaybeCreatePvpRoom).
THEOREM OneSessionEach == Spec => []OneSession
<1>1. LobbyInvariant => OneSession
  BY DEF LobbyInvariant, SessionsInv, OneSession, Distinct
<1> QED
  BY <1>1, LobbyStaysInOrder, PTL

\* A room in preparation holds somebody, and its owner sits in it, in whatever order
\* players leave, are removed and change rooms (RemoveSessionFromPendingRoom).
THEOREM OwnersSit == Spec => []OwnerSeated
<1>1. LobbyInvariant => OwnerSeated
  <2> SUFFICES ASSUME LobbyInvariant, NEW r \in DOMAIN pending
               PROVE  /\ SeatsHeld(pending[r].seats, Nobody) # Seats
                      /\ pending[r].owner # Nobody =>
                           SeatsHeld(pending[r].seats, pending[r].owner) # {}
    BY DEF OwnerSeated
  <2>1. /\ \E i \in Seats : pending[r].seats[i].player # Nobody
        /\ pending[r].owner # Nobody => SatBy(pending[r].seats, pending[r].owner)
    BY RoomFacts DEF LobbyInvariant, RoomsInv
  <2> QED
    BY <2>1 DEF SeatsHeld, SatBy
<1> QED
  BY <1>1, LobbyStaysInOrder, PTL

\* No invitee is blocked by an invitation that is gone, and an open invitation leads to
\* a room of the inviter's with an empty seat (ClearInvitation, ExpireInvitationsForRoom).
THEOREM InvitationsLead == Spec => []InvitationsOpen
<1>1. LobbyInvariant => InvitationsOpen
  BY DEF LobbyInvariant, InviteMaps, InvitesLead, Leads, InvitationsOpen, Full, SeatsHeld
<1> QED
  BY <1>1, LobbyStaysInOrder, PTL

\* No game is started with a player in two seats, though one may hold two seats of the
\* room it was prepared in (HandleRoomReady, StartPreparedRoom, MaybeCreatePvpRoom).
THEOREM NobodyPlaysTwice == Spec => []PlayersDistinct
<1>1. LobbyInvariant => PlayersDistinct
  BY DEF LobbyInvariant, RoomsInv, RunningOK, PlayedOnce, PlayersDistinct
<1> QED
  BY <1>1, LobbyStaysInOrder, PTL

\* A room is in preparation or running, and one whose seats are taken and ready is
\* running (HandleRoomReady, HandleAddBot, StartPreparedRoom).
THEOREM ReadyRoomsRun == Spec => []StartsWhenReady
<1>1. LobbyInvariant => StartsWhenReady
  BY DEF LobbyInvariant, RoomsInv, PreparedOK, RoomRules, StartsWhenReady
<1> QED
  BY <1>1, LobbyStaysInOrder, PTL

\* An invitation comes to one end (RememberResolvedInvitation, ClearInvitation).
THEOREM InvitationsEndOnce == Spec => SettledOnce
<1>1. LobbyInvariant /\ [Next]_vars =>
        [\A id \in DOMAIN resolved :
           /\ id \notin DOMAIN invitations /\ id \notin DOMAIN invitations'
           /\ id \in DOMAIN resolved' => resolved'[id] = resolved[id]]_vars
  BY NextKeeps DEF Settled
<1> QED
  BY <1>1, LobbyStaysInOrder, PTL DEF Spec, SettledOnce

-----------------------------------------------------------------------------
(* The games between players.                                              *)

\* These rooms hold every game between players that is not over.
HoldsGames(map) ==
  \A r \in DOMAIN rooms :
    rooms[r].mode = "PVP" /\ ~rooms[r].finished =>
      r \in DOMAIN map /\ map[r].players = rooms[r].players

LEMMA ReleaseHoldsGames == ASSUME NEW t PROVE HoldsGames(RoomsAfterRelease(t))
<1>1. CASE Releases(t)
  <2>1. RoomsAfterRelease(t) = Drop(rooms, {RoomOf(t)})
    BY <1>1 DEF RoomsAfterRelease
  <2>2. rooms[RoomOf(t)].finished \/ rooms[RoomOf(t)].mode = "VS_BOT"
    BY <1>1 DEF Releases, Releasable
  <2> QED
    BY <2>1, <2>2 DEF HoldsGames, Drop, Restrict
<1>2. CASE ~Releases(t)
  BY <1>2 DEF RoomsAfterRelease, HoldsGames
<1> QED
  BY <1>1, <1>2

LEMMA PutHoldsGames ==
  ASSUME NEW map, HoldsGames(map), NEW r, r \notin DOMAIN rooms, NEW room
  PROVE  HoldsGames(Put(map, r, room))
  BY DEF HoldsGames, Put

LEMMA RequestHoldsGames ==
  ASSUME LobbyInvariant, NEW t \in DOMAIN sessions, Requests(t)
  PROVE  HoldsGames(rooms')
<1>0. ASSUME rooms' = rooms PROVE HoldsGames(rooms')
  BY <1>0 DEF HoldsGames
<1>1. CASE HandleHeartbeat(t) \/ CancelMatch(t) \/ HandleReconnectForgets(t)
  BY <1>0, <1>1 DEF HandleHeartbeat, CancelMatch, HandleReconnectForgets
<1>2. CASE HandleMatchVsBot(t)
  <2>1. PICK r, room : r \in RoomIds /\ Fresh(r) /\ rooms' = Put(RoomsAfterRelease(t), r, room)
    BY <1>2 DEF HandleMatchVsBot
  <2> QED
    BY <2>1, FreshRoom, ReleaseHoldsGames, PutHoldsGames
<1>3. CASE HandleMatchPvp(t)
  <2>1. CASE Waits(t)
    BY <2>1, ReleaseHoldsGames DEF Waits
  <2>2. CASE \E r \in RoomIds : Starts(t, r)
    <3>1. PICK r, room : r \in RoomIds /\ Fresh(r) /\ rooms' = Put(RoomsAfterRelease(t), r, room)
      BY <2>2 DEF Starts
    <3> QED
      BY <3>1, FreshRoom, ReleaseHoldsGames, PutHoldsGames
  <2> QED
    BY <1>3, <2>1, <2>2, MatchCases
<1>4. CASE HandleCreateRoom(t) \/ HandleJoinRoomFails(t)
  BY <1>4, ReleaseHoldsGames DEF HandleCreateRoom, HandleJoinRoomFails
<1>5. CASE HandleLeaveGame(t)
  BY <1>5 DEF HandleLeaveGame, HoldsGames, Drop, Restrict
<1>6. ASSUME NEW r \in DOMAIN pending, HandleJoinRoom(t, r) \/ HandleLeavePending(t, r)
      PROVE  HoldsGames(rooms')
  BY <1>0, <1>6, ReleaseHoldsGames DEF HandleJoinRoom, HandleLeavePending
<1>7. ASSUME NEW r \in DOMAIN pending, NEW seats, SeatsChanged(r, seats)
      PROVE  HoldsGames(rooms')
  <2>1. r \notin DOMAIN rooms
    BY DEF LobbyInvariant, RoomsInv
  <2>2. rooms' = rooms \/ rooms' = Put(rooms, r, Started(seats))
    BY <1>7 DEF SeatsChanged
  <2>3. HoldsGames(rooms)
    BY DEF HoldsGames
  <2> QED
    BY <1>0, <2>1, <2>2, <2>3, PutHoldsGames
<1>8. ASSUME NEW r \in DOMAIN pending, NEW ready \in BOOLEAN, HandleRoomReady(t, r, ready)
      PROVE  HoldsGames(rooms')
  BY <1>7, <1>8 DEF HandleRoomReady
<1>9. ASSUME NEW r \in DOMAIN pending, NEW i \in Seats,
             \/ HandleAddBot(t, r, i) \/ HandleRemovePlayer(t, r, i)
             \/ \E u \in Users : HandleInvitePlayer(t, r, u, i)
      PROVE  HoldsGames(rooms')
  BY <1>0, <1>7, <1>9 DEF HandleAddBot, HandleRemovePlayer, HandleInvitePlayer
<1>10. ASSUME NEW id \in DOMAIN invitations,
             \/ DeclineInvitation(t, id) \/ AcceptInvitation(t, id)
             \/ AcceptInvitationFails(t, id)
      PROVE  HoldsGames(rooms')
  BY <1>0, <1>10 DEF DeclineInvitation, AcceptInvitation, AcceptInvitationFails
<1> QED
  BY <1>1, <1>2, <1>3, <1>4, <1>5, <1>6, <1>8, <1>9, <1>10, Zenon DEF Requests

\* A game between players goes on until it is finished, whatever one of them asks for
\* meanwhile (ReleaseTransientBotRoom, HandleLeaveRoom, HandleMatch).
THEOREM GamesGoOn == Spec => GameGoesOn
<1>1. ASSUME LobbyInvariant, Next PROVE HoldsGames(rooms')
  <2>1. ASSUME rooms' = rooms PROVE HoldsGames(rooms')
    BY <2>1 DEF HoldsGames
  <2>2. CASE \E u \in Users, t \in Tokens : HandleLogin(u, t)
    BY <2>1, <2>2 DEF HandleLogin
  <2>3. CASE \E t \in DOMAIN sessions : Requests(t) \/ Disconnect(t)
    BY <1>1, <2>1, <2>3, RequestHoldsGames DEF Disconnect
  <2>4. CASE \E r \in DOMAIN rooms : RoomFinishes(r)
    <3>1. PICK r \in DOMAIN rooms : rooms' = [rooms EXCEPT ![r].finished = TRUE]
      BY <2>4 DEF RoomFinishes
    <3>2. rooms[r] \in RunningRoom
      BY <1>1 DEF LobbyInvariant, RoomsInv, RunningOK, IsMap
    <3> QED
      BY <3>1, <3>2 DEF HoldsGames, RunningRoom
  <2>5. CASE \E due \in SUBSET DOMAIN invitations, kept \in SUBSET DOMAIN resolved :
               TickRoomsLoop(due, kept)
    BY <2>1, <2>5 DEF TickRoomsLoop
  <2> QED
    BY <1>1, <2>2, <2>3, <2>4, <2>5 DEF Next
<1>2. LobbyInvariant /\ [Next]_vars =>
        [\A r \in DOMAIN rooms :
           rooms[r].mode = "PVP" /\ ~rooms[r].finished =>
             r \in DOMAIN rooms' /\ rooms'[r].players = rooms[r].players]_vars
  BY <1>1 DEF HoldsGames
<1> QED
  BY <1>2, LobbyStaysInOrder, PTL DEF Spec, GameGoesOn

-----------------------------------------------------------------------------
(* A new device.                                                           *)

LEMMA RequestKeepsTokens ==
  ASSUME NEW t \in DOMAIN sessions, Requests(t)
  PROVE  DOMAIN sessions' = DOMAIN sessions
<1>1. \A r : DOMAIN InRoom(t, r) = DOMAIN sessions
  BY DEF InRoom
<1>2. CASE HandleHeartbeat(t)
  BY <1>2 DEF HandleHeartbeat
<1>3. CASE \/ HandleMatchVsBot(t) \/ CancelMatch(t) \/ HandleCreateRoom(t)
           \/ HandleJoinRoomFails(t) \/ HandleLeaveGame(t) \/ HandleReconnectForgets(t)
  BY <1>1, <1>3 DEF HandleMatchVsBot, CancelMatch, HandleCreateRoom, HandleJoinRoomFails,
     HandleLeaveGame, HandleReconnectForgets
<1>4. CASE HandleMatchPvp(t)
  BY <1>1, <1>4, MatchCases DEF Waits, Starts
<1>5. ASSUME NEW r, \/ HandleJoinRoom(t, r) \/ HandleLeavePending(t, r)
                    \/ \E ready \in BOOLEAN : HandleRoomReady(t, r, ready)
      PROVE  DOMAIN sessions' = DOMAIN sessions
  BY <1>1, <1>5 DEF HandleJoinRoom, HandleLeavePending, HandleRoomReady
<1>6. ASSUME NEW r, NEW i, \/ HandleAddBot(t, r, i) \/ HandleRemovePlayer(t, r, i)
                           \/ \E u \in Users : HandleInvitePlayer(t, r, u, i)
      PROVE  DOMAIN sessions' = DOMAIN sessions
  BY <1>1, <1>6 DEF HandleAddBot, HandleRemovePlayer, HandleInvitePlayer
<1>7. ASSUME NEW id, \/ DeclineInvitation(t, id) \/ AcceptInvitation(t, id)
                     \/ AcceptInvitationFails(t, id)
      PROVE  DOMAIN sessions' = DOMAIN sessions
  BY <1>1, <1>7 DEF DeclineInvitation, AcceptInvitation, AcceptInvitationFails
<1> QED
  BY <1>2, <1>3, <1>4, <1>5, <1>6, <1>7, Zenon DEF Requests

\* Only a login ends a session.
LEMMA OnlyLoginEnds ==
  ASSUME [Next]_vars, NEW t \in DOMAIN sessions \ DOMAIN sessions'
  PROVE  \E u \in Users, new \in Tokens : HandleLogin(u, new)
<1>1. CASE \E s \in DOMAIN sessions : Requests(s) \/ Disconnect(s)
  BY <1>1, RequestKeepsTokens DEF Disconnect
<1>2. CASE \E r \in DOMAIN rooms : RoomFinishes(r)
  BY <1>2 DEF RoomFinishes
<1>3. CASE \E due \in SUBSET DOMAIN invitations, kept \in SUBSET DOMAIN resolved :
             TickRoomsLoop(due, kept)
  BY <1>3 DEF TickRoomsLoop
<1>4. CASE UNCHANGED vars
  BY <1>4 DEF vars
<1> QED
  BY <1>1, <1>2, <1>3, <1>4 DEF Next

\* The room a new device takes over is the one its user has a place in.
LEMMA PlaceIsReconnectable ==
  ASSUME LobbyInvariant, NEW t
  PROVE  ReconnectableRoom(t) = IF HasPlace(t) THEN RoomOf(t) ELSE NoRoom
<1>1. DOMAIN pending \cap DOMAIN rooms = {}
  BY DEF LobbyInvariant, RoomsInv
<1> QED
  BY <1>1 DEF ReconnectableRoom, HasPlace, CanReconnect

LEMMA LoginTakesOver ==
  ASSUME LobbyInvariant, NEW u \in Users, NEW new \in Tokens, HandleLogin(u, new),
         NEW t \in DOMAIN sessions \ DOMAIN sessions'
  PROVE  /\ UserOf(t) = u /\ activeToken'[u] = new
         /\ sessions'[new].user = u
         /\ sessions'[new].room = ReconnectableRoom(t)
<1> DEFINE old  == TokensOf(u)
           kept == {ReconnectableRoom(s) : s \in old} \ {NoRoom}
           room == IF kept = {} THEN NoRoom ELSE CHOOSE r \in kept : TRUE
<1>1. /\ sessions' = Put(Drop(sessions, old), new, [user |-> u, room |-> room, online |-> TRUE])
      /\ activeToken' = Put(activeToken, u, new)
  BY DEF HandleLogin, Superseded
<1>2. old = {s \in DOMAIN sessions : UserOf(s) = u}
  BY TokensOfUser DEF LobbyInvariant
<1>3. DOMAIN sessions' = (DOMAIN sessions \ old) \cup {new}
  BY <1>1 DEF Put, Drop, Restrict
<1>4. UserOf(t) = u /\ t \in old
  BY <1>2, <1>3
<1>5. old = {t}
  BY <1>2, <1>4 DEF LobbyInvariant, SessionsInv
<1>6. room = ReconnectableRoom(t)
  <2>1. kept = {ReconnectableRoom(t)} \ {NoRoom}
    BY <1>5
  <2>2. CASE ReconnectableRoom(t) = NoRoom
    BY <2>1, <2>2
  <2>3. CASE ReconnectableRoom(t) # NoRoom
    <3>1. kept = {ReconnectableRoom(t)}
      BY <2>1, <2>3
    <3> HIDE DEF kept
    <3> QED
      BY <3>1
  <2> QED
    BY <2>2, <2>3
<1> HIDE DEF room
<1> QED
  BY <1>1, <1>4, <1>6, PutFacts

\* A session a login puts an end to hands over the seat and the unfinished game its user
\* has, and the new device can reconnect into it (HandleLogin, ResolveReconnectableRoomId).
THEOREM DevicesTakeOver == Spec => DeviceTakesOver
<1>1. ASSUME LobbyInvariant, [Next]_vars,
             NEW t \in DOMAIN sessions \ DOMAIN sessions', NEW new \in Tokens,
             activeToken'[UserOf(t)] = new
      PROVE  /\ sessions'[new].room = IF HasPlace(t) THEN RoomOf(t) ELSE NoRoom
             /\ HasPlace(t) => HasPlace(new)'
  <2>1. PICK u \in Users, mine \in Tokens : HandleLogin(u, mine)
    BY <1>1, OnlyLoginEnds
  <2>2. /\ UserOf(t) = u /\ activeToken'[u] = mine
        /\ sessions'[mine].user = u /\ sessions'[mine].room = ReconnectableRoom(t)
    BY <1>1, <2>1, LoginTakesOver
  <2>3. mine = new
    BY <1>1, <2>2
  <2>4. sessions'[new].room = IF HasPlace(t) THEN RoomOf(t) ELSE NoRoom
    BY <1>1, <2>2, <2>3, PlaceIsReconnectable
  <2>5. ASSUME HasPlace(t) PROVE HasPlace(new)'
    <3>1. pending' = pending /\ rooms' = rooms
      BY <2>1 DEF HandleLogin
    <3>2. sessions'[new].room = RoomOf(t) /\ sessions'[new].user = UserOf(t)
      BY <2>2, <2>3, <2>4, <2>5
    <3> QED
      BY <2>5, <3>1, <3>2 DEF HasPlace, CanReconnect, RoomOf, UserOf, SeatsHeld
  <2> QED
    BY <2>4, <2>5
<1>2. LobbyInvariant /\ [Next]_vars =>
        [\A t \in DOMAIN sessions \ DOMAIN sessions', new \in Tokens :
           activeToken'[UserOf(t)] = new =>
             /\ sessions'[new].room = IF HasPlace(t) THEN RoomOf(t) ELSE NoRoom
             /\ HasPlace(t) => HasPlace(new)']_vars
  BY <1>1
<1> QED
  BY <1>2, LobbyStaysInOrder, PTL DEF Spec, DeviceTakesOver

=============================================================================
