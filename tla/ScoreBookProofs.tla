-------------------------- MODULE ScoreBookProofs --------------------------
(***************************************************************************)
(* The score book for every number of users and rooms, actions and         *)
(* changes: its types, that no result is shown that is not stored, that    *)
(* the presentation gate lets a game against bots be stored once, and that *)
(* a client is never ahead of the record of its user's only game.          *)
(***************************************************************************)
EXTENDS ScoreBook, TLAPS

\* What a step of the server leaves alone.
USE DEF clientVars

Counts == [Rooms -> Nat]

RoundType ==
  /\ phase \in [Rooms -> {"none", "playing", "finishing", "finished", "gone"}]
  /\ actions \in [Rooms -> Nat] /\ gate \in [Rooms -> Nat]
  /\ acked \in [Users -> Counts] /\ flushed \in [Users -> [Rooms -> Seq(Nat)]]
  /\ sessionRoom \in [Users -> Rooms \cup {NoRoom}]
BookType ==
  /\ record \in [Users -> Counts]
  /\ inbox \in [Users -> Seq(Message)]
  /\ client \in [Users -> [games : Counts, settled : Rooms \cup {NoRoom}]]

\* What a message tells is in the record.
Backed(m, rec) ==
  IF m.kind = "profile" THEN \A r \in Rooms : m.games[r] > 0 => rec[r] > 0
  ELSE rec[m.room] > 0
BoxBacked(box, rec) == \A i \in 1..Len(box) : Backed(box[i], rec)

\* Snapshots of a finished room go to its members, who have its result by then.
SessionsInv == \A u \in Users : sessionRoom[u] # NoRoom => u \in Members[sessionRoom[u]]
StoredInv ==
  \A r \in Rooms : phase[r] = "finished" => \A u \in Members[r] : record[u][r] > 0
ShownInv ==
  \A u \in Users :
    /\ BoxBacked(inbox[u], record[u])
    /\ \A r \in Rooms : client[u].games[r] > 0 => record[u][r] > 0

BookInvariant == RoundType /\ BookType /\ SessionsInv /\ StoredInv /\ ShownInv

-----------------------------------------------------------------------------
\* What a record may do to a box that it backs: grow.
Grows(old, new) == \A r \in Rooms : old[r] > 0 => new[r] > 0

LEMMA BoxAppend ==
  ASSUME NEW box \in Seq(Message), NEW m \in Message, NEW rec,
         BoxBacked(box, rec), Backed(m, rec)
  PROVE  Append(box, m) \in Seq(Message) /\ BoxBacked(Append(box, m), rec)
  BY DEF BoxBacked

LEMMA BoxTail ==
  ASSUME NEW box \in Seq(Message), NEW rec, box # <<>>, BoxBacked(box, rec)
  PROVE  /\ Tail(box) \in Seq(Message) /\ BoxBacked(Tail(box), rec)
         /\ Head(box) \in Message /\ Backed(Head(box), rec)
  BY DEF BoxBacked

LEMMA BoxGrows ==
  ASSUME NEW box \in Seq(Message), NEW old, NEW new,
         BoxBacked(box, old), Grows(old, new)
  PROVE  BoxBacked(box, new)
<1>1. ASSUME NEW m \in Message, Backed(m, old) PROVE Backed(m, new)
  BY <1>1 DEF Message, Backed, Grows
<1> QED
  BY <1>1 DEF BoxBacked

\* PersistFinishedRoomScores only adds, and every member of a finished room has it.
LEMMA PersistedAdds ==
  ASSUME BookType, NEW r \in Rooms, NEW ph
  PROVE  /\ Persisted(r, ph) \in [Users -> Counts]
         /\ \A u \in Users : Grows(record[u], Persisted(r, ph)[u])
         /\ ph = "finished" => \A u \in Members[r] : Persisted(r, ph)[u][r] > 0
<1>1. \A u \in Users : record[u] \in Counts
  BY DEF BookType
<1>2. Members[r] \subseteq Users
  BY ScoreBookAssumption
<1>3. ASSUME NEW u \in Users
      PROVE  [record[u] EXCEPT ![r] = @ + 1] \in Counts
             /\ Grows(record[u], [record[u] EXCEPT ![r] = @ + 1])
             /\ [record[u] EXCEPT ![r] = @ + 1][r] > 0
  BY <1>1 DEF Counts, Grows
<1>4. \A u \in Users : Grows(record[u], record[u])
  BY DEF Grows
<1> QED
  BY <1>1, <1>2, <1>3, <1>4 DEF Persisted

\* SendSnapshotToRoom tells the members of a finished room what their records back.
LEMMA PushedBacked ==
  ASSUME BookType, NEW r \in Rooms, NEW ph, NEW new,
         \A u \in Users : BoxBacked(inbox[u], new[u]),
         ph = "finished" => \A u \in Members[r] : new[u][r] > 0
  PROVE  /\ Pushed(r, ph) \in [Users -> Seq(Message)]
         /\ \A u \in Users : BoxBacked(Pushed(r, ph)[u], new[u])
<1>1. SUFFICES ASSUME NEW u \in Users
               PROVE  /\ Pushed(r, ph)[u] \in Seq(Message)
                      /\ BoxBacked(Pushed(r, ph)[u], new[u])
  BY DEF Pushed
<1>2. inbox[u] \in Seq(Message) /\ BoxBacked(inbox[u], new[u])
  BY DEF BookType
<1>3. CASE Pushed(r, ph)[u] = inbox[u]
  BY <1>2, <1>3
<1>4. CASE ph = "finished" /\ u \in Members[r] /\ Pushed(r, ph)[u] = Append(inbox[u], Finished(r))
  <2>1. Finished(r) \in Message /\ Backed(Finished(r), new[u])
    BY <1>4 DEF Finished, Message, Backed
  <2> QED
    BY <1>2, <1>4, <2>1, BoxAppend
<1> QED
  BY <1>3, <1>4 DEF Pushed

\* A profile is backed by the record it was read from.
LEMMA ProfileBacked ==
  ASSUME BookType, NEW u \in Users
  PROVE  ProfileOf(u) \in Message /\ Backed(ProfileOf(u), record[u])
  BY DEF BookType, ProfileOf, Message, Backed, Counts

-----------------------------------------------------------------------------
\* A step that leaves record, mail and client alone and finishes no room.
LEMMA QuietKeeps ==
  ASSUME BookInvariant, RoundType', SessionsInv',
         UNCHANGED <<record, inbox, client>>,
         \A r \in Rooms : phase'[r] = "finished" => phase[r] = "finished"
  PROVE  BookInvariant'
<1>1. BookType' /\ ShownInv'
  BY DEF BookInvariant, BookType, ShownInv
<1>2. StoredInv'
  BY DEF BookInvariant, StoredInv
<1> QED
  BY <1>1, <1>2 DEF BookInvariant

\* A step that stores and shows: records grow, and each box and client stays backed.
LEMMA MailKeeps ==
  ASSUME BookInvariant, RoundType', SessionsInv', BookType', StoredInv',
         \A u \in Users : /\ BoxBacked(inbox'[u], record'[u])
                          /\ Grows(record[u], record'[u])
                          /\ client'[u] = client[u]
  PROVE  BookInvariant'
<1>1. ShownInv'
  BY DEF BookInvariant, ShownInv, Grows
<1> QED
  BY <1>1 DEF BookInvariant

LEMMA BookInit == Init => BookInvariant
<1> SUFFICES ASSUME Init PROVE BookInvariant
  OBVIOUS
<1>1. RoundType /\ SessionsInv /\ StoredInv
  BY DEF Init, RoundType, SessionsInv, StoredInv, NoGames, NoneFlushed, Counts
<1>2. BookType
  BY DEF Init, BookType, NoGames, Counts
<1>3. ShownInv
  BY DEF Init, ShownInv, BoxBacked, NoGames
<1> QED
  BY <1>1, <1>2, <1>3 DEF BookInvariant

LEMMA StartRoundKeeps ==
  ASSUME BookInvariant, NEW r \in Rooms, StartRound(r)
  PROVE  BookInvariant'
<1>1. RoundType'
  BY ScoreBookAssumption DEF BookInvariant, RoundType, StartRound
<1>2. SessionsInv'
  BY ScoreBookAssumption DEF BookInvariant, RoundType, SessionsInv, StartRound
<1>3. \A q \in Rooms : phase'[q] = "finished" => phase[q] = "finished"
  BY DEF StartRound
<1> QED
  BY <1>1, <1>2, <1>3, QuietKeeps DEF StartRound

LEMMA ActKeeps ==
  ASSUME BookInvariant, NEW r \in Rooms, NEW byBot, NEW last \in BOOLEAN, Act(r, byBot, last)
  PROVE  BookInvariant'
<1>1. RoundType'
  BY DEF BookInvariant, RoundType, Act, Armed
<1>2. SessionsInv'
  BY DEF BookInvariant, SessionsInv, Act
<1>3. \A q \in Rooms : phase'[q] = "finished" => phase[q] = "finished"
  BY DEF BookInvariant, RoundType, Act
<1> QED
  BY <1>1, <1>2, <1>3, QuietKeeps DEF Act

LEMMA TimeOutKeeps ==
  ASSUME BookInvariant, NEW r \in Rooms, GateTimesOut(r)
  PROVE  BookInvariant'
<1>1. RoundType' /\ SessionsInv'
  BY DEF BookInvariant, RoundType, SessionsInv, GateTimesOut
<1> QED
  BY <1>1, QuietKeeps DEF GateTimesOut

LEMMA LeaveKeeps ==
  ASSUME BookInvariant, NEW u \in Users, NEW r \in Rooms, LeaveBotRoom(u, r)
  PROVE  BookInvariant'
<1>1. RoundType'
  BY DEF BookInvariant, RoundType, LeaveBotRoom
<1>2. SessionsInv'
  BY DEF BookInvariant, RoundType, SessionsInv, LeaveBotRoom
<1>3. \A q \in Rooms : phase'[q] = "finished" => phase[q] = "finished"
  BY DEF BookInvariant, RoundType, LeaveBotRoom
<1> QED
  BY <1>1, <1>2, <1>3, QuietKeeps DEF LeaveBotRoom

\* One entry of a table of users and rooms is changed.
LEMMA OneEntry ==
  ASSUME NEW S, NEW f \in [Users -> [Rooms -> S]], NEW u \in Users, NEW r \in Rooms, NEW x \in S
  PROVE  /\ [f EXCEPT ![u][r] = x] \in [Users -> [Rooms -> S]]
         /\ [f EXCEPT ![u][r] = x][u][r] = x
         /\ \A v \in Users, q \in Rooms :
              v # u \/ q # r => [f EXCEPT ![u][r] = x][v][q] = f[v][q]
  OBVIOUS

\* What a page in the background sends are numbers of actions.
LEMMA SentFits ==
  ASSUME NEW first \in Nat, NEW last \in Nat, first < last
  PROVE  /\ SentAtOnce(first, last) \in Seq(Nat)
         /\ \A i \in 1..Len(SentAtOnce(first, last)) : SentAtOnce(first, last)[i] \in first..last
<1> DEFINE n == last - first + 1
<1>1. n \in Nat
  OBVIOUS
<1>2. \A i \in 1..n : (IF i = n THEN first ELSE first + i) \in first..last
  OBVIOUS
<1>3. SentAtOnce(first, last) = [i \in 1..n |-> IF i = n THEN first ELSE first + i]
  BY DEF SentAtOnce
<1>4. Len(SentAtOnce(first, last)) = n /\ SentAtOnce(first, last) \in Seq(Nat)
  BY <1>1, <1>2, <1>3
<1> QED
  BY <1>2, <1>3, <1>4

\* All that going to the background changes.
LEMMA FlushDoes ==
  ASSUME RoundType, NEW u \in Users, NEW r \in Rooms, FlushPresentations(u, r)
  PROVE  \E last \in acked[u][r] + 2 .. actions[r] :
           LET sent == SentAtOnce(acked[u][r] + 1, last) IN
           /\ last \in Nat /\ sent \in Seq(Nat)
           /\ \A i \in 1..Len(sent) : sent[i] \in 1..actions[r]
           /\ flushed' = [flushed EXCEPT ![u][r] = sent]
           /\ acked' = [acked EXCEPT ![u][r] = last]
<1>1. acked[u][r] \in Nat /\ actions[r] \in Nat
  BY DEF RoundType, Counts
<1>2. PICK last \in acked[u][r] + 2 .. actions[r] :
        /\ flushed' = [flushed EXCEPT ![u][r] = SentAtOnce(acked[u][r] + 1, last)]
        /\ acked' = [acked EXCEPT ![u][r] = last]
  BY DEF FlushPresentations
<1>3. last \in Nat /\ acked[u][r] + 1 \in Nat /\ acked[u][r] + 1 < last /\ last <= actions[r]
  BY <1>1, <1>2
<1> DEFINE sent == SentAtOnce(acked[u][r] + 1, last)
<1>4. sent \in Seq(Nat) /\ \A i \in 1..Len(sent) : sent[i] \in acked[u][r] + 1 .. last
  BY <1>3, SentFits
<1> HIDE DEF sent
<1>5. \A i \in 1..Len(sent) : sent[i] \in 1..actions[r]
  BY <1>1, <1>3, <1>4
<1> QED
  BY <1>2, <1>3, <1>4, <1>5 DEF sent

LEMMA FlushTypes ==
  ASSUME RoundType, NEW u \in Users, NEW r \in Rooms, FlushPresentations(u, r)
  PROVE  RoundType'
<1>2. PICK last, sent : /\ last \in Nat /\ sent \in Seq(Nat)
                        /\ flushed' = [flushed EXCEPT ![u][r] = sent]
                        /\ acked' = [acked EXCEPT ![u][r] = last]
  BY FlushDoes
<1>1. /\ acked' \in [Users -> Counts]
      /\ flushed' \in [Users -> [Rooms -> Seq(Nat)]]
  BY <1>2, OneEntry DEF RoundType, Counts
<1> QED
  BY <1>1 DEF RoundType, FlushPresentations

LEMMA FlushKeeps ==
  ASSUME BookInvariant, NEW u \in Users, NEW r \in Rooms, FlushPresentations(u, r)
  PROVE  BookInvariant'
<1>1. RoundType' /\ SessionsInv'
  BY FlushTypes DEF BookInvariant, SessionsInv, FlushPresentations
<1> QED
  BY <1>1, QuietKeeps DEF FlushPresentations

\* What an acknowledgement that arrives changes at the client.
LEMMA AcknowledgeTypes ==
  ASSUME RoundType, NEW u \in Users, NEW r \in Rooms, Acknowledge(u, r)
  PROVE  RoundType'
<1>0. UNCHANGED <<phase, actions, sessionRoom>> /\ gate' \in [Rooms -> Nat]
  <2>1. UNCHANGED <<phase, actions, sessionRoom>>
        /\ (gate' = gate \/ gate' = [gate EXCEPT ![r] = 0])
    BY DEF Acknowledge
  <2>2. gate \in [Rooms -> Nat]
    BY DEF RoundType
  <2> QED
    BY <2>1, <2>2
<1>1. CASE flushed[u][r] = <<>>
  <2>1. acked' = [acked EXCEPT ![u][r] = acked[u][r] + 1] /\ flushed' = flushed
    BY <1>1 DEF Acknowledge, NextAck
  <2>2. acked[u][r] + 1 \in Nat
    BY DEF RoundType, Counts
  <2>3. acked' \in [Users -> Counts]
    BY <2>1, <2>2, OneEntry DEF RoundType, Counts
  <2> QED
    BY <1>0, <2>1, <2>3 DEF RoundType
<1>2. CASE flushed[u][r] # <<>>
  <2>1. flushed' = [flushed EXCEPT ![u][r] = Tail(@)] /\ acked' = acked
    BY <1>2 DEF Acknowledge
  <2>2. Tail(flushed[u][r]) \in Seq(Nat)
    BY <1>2 DEF RoundType
  <2>3. flushed' \in [Users -> [Rooms -> Seq(Nat)]]
    BY <2>1, <2>2, OneEntry DEF RoundType
  <2> QED
    BY <1>0, <2>1, <2>3 DEF RoundType
<1> QED
  BY <1>1, <1>2

\* A lost connection takes acknowledgements with it.
LEMMA LostTypes ==
  ASSUME RoundType, NEW u \in Users, LoseConnection(u)
  PROVE  RoundType' /\ \E r \in Rooms : \E k \in acked[u][r] .. actions[r] :
           acked' = [acked EXCEPT ![u][r] = k]
<1>1. PICK r \in Rooms : \E k \in acked[u][r] .. actions[r] : acked' = [acked EXCEPT ![u][r] = k]
  BY DEF LoseConnection
<1>2. acked[u][r] \in Nat /\ actions[r] \in Nat
  BY DEF RoundType, Counts
<1>3. acked' \in [Users -> Counts]
  BY <1>1, <1>2 DEF RoundType, Counts
<1>4. flushed' \in [Users -> [Rooms -> Seq(Nat)]]
  BY DEF LoseConnection, RoundType, NoneFlushed
<1> QED
  BY <1>1, <1>3, <1>4 DEF LoseConnection, RoundType

LEMMA ReopenKeeps ==
  ASSUME BookInvariant, NEW u \in Users, ReopenGamePage(u)
  PROVE  BookInvariant'
<1>1. RoundType' /\ SessionsInv'
  BY DEF BookInvariant, RoundType, SessionsInv, ReopenGamePage, NoGames, Counts
<1> QED
  BY <1>1, QuietKeeps DEF ReopenGamePage

LEMMA TickFinishesKeeps ==
  ASSUME BookInvariant, NEW r \in Rooms, TickFinishes(r)
  PROVE  BookInvariant'
<1>0. record' = Persisted(r, "finished") /\ inbox' = Pushed(r, "finished")
      /\ client' = client /\ phase' = [phase EXCEPT ![r] = "finished"]
  BY DEF TickFinishes
<1>1. RoundType' /\ SessionsInv'
  BY DEF BookInvariant, RoundType, SessionsInv, TickFinishes
<1>2. /\ record' \in [Users -> Counts]
      /\ \A u \in Users : Grows(record[u], record'[u])
      /\ \A u \in Members[r] : record'[u][r] > 0
  BY <1>0, PersistedAdds DEF BookInvariant
<1>3. \A u \in Users : BoxBacked(inbox[u], record'[u])
  BY <1>2, BoxGrows DEF BookInvariant, BookType, ShownInv
<1>4. inbox' \in [Users -> Seq(Message)] /\ \A u \in Users : BoxBacked(inbox'[u], record'[u])
  BY <1>0, <1>2, <1>3, PushedBacked DEF BookInvariant
<1>5. BookType'
  BY <1>0, <1>2, <1>4 DEF BookInvariant, BookType
<1>6. StoredInv'
  <2> SUFFICES ASSUME NEW q \in Rooms, phase'[q] = "finished", NEW u \in Members[q]
               PROVE  record'[u][q] > 0
    BY DEF StoredInv
  <2>1. u \in Users
    BY ScoreBookAssumption
  <2>2. CASE q = r
    BY <1>2, <2>2
  <2>3. CASE q # r
    <3>1. record[u][q] > 0
      BY <1>0, <2>3 DEF BookInvariant, RoundType, StoredInv
    <3> QED
      BY <1>2, <2>1, <3>1 DEF Grows
  <2> QED
    BY <2>2, <2>3
<1> QED
  BY <1>0, <1>1, <1>2, <1>4, <1>5, <1>6, MailKeeps

LEMMA AcknowledgeKeeps ==
  ASSUME BookInvariant, NEW u \in Users, NEW r \in Rooms, Acknowledge(u, r)
  PROVE  BookInvariant'
<1>1. RoundType' /\ SessionsInv'
  BY AcknowledgeTypes DEF BookInvariant, SessionsInv, Acknowledge
<1>2. CASE UNCHANGED <<record, inbox>>
  BY <1>1, <1>2, QuietKeeps DEF Acknowledge
<1>3. CASE record' = Persisted(r, phase[r]) /\ inbox' = Pushed(r, phase[r])
  <2>1. /\ record' \in [Users -> Counts]
        /\ \A v \in Users : Grows(record[v], record'[v])
        /\ phase[r] = "finished" => \A v \in Members[r] : record'[v][r] > 0
    BY <1>3, PersistedAdds DEF BookInvariant
  <2>2. \A v \in Users : BoxBacked(inbox[v], record'[v])
    BY <2>1, BoxGrows DEF BookInvariant, BookType, ShownInv
  <2>3. inbox' \in [Users -> Seq(Message)] /\ \A v \in Users : BoxBacked(inbox'[v], record'[v])
    BY <1>3, <2>1, <2>2, PushedBacked DEF BookInvariant
  <2>4. client' = client /\ phase' = phase
    BY DEF Acknowledge
  <2>5. BookType'
    BY <2>1, <2>3, <2>4 DEF BookInvariant, BookType
  <2>6. StoredInv'
    BY <2>1, <2>4, ScoreBookAssumption DEF BookInvariant, StoredInv, Grows
  <2> QED
    BY <1>1, <2>1, <2>3, <2>4, <2>5, <2>6, MailKeeps
<1> QED
  BY <1>2, <1>3 DEF Acknowledge

\* The steps that change one user's mail and client only.
LEMMA OneUserKeeps ==
  ASSUME BookInvariant, RoundType', SessionsInv', UNCHANGED <<phase, record>>,
         NEW u \in Users, NEW box \in Seq(Message), NEW c \in [games : Counts, settled : Rooms \cup {NoRoom}],
         inbox' = [inbox EXCEPT ![u] = box], client' = [client EXCEPT ![u] = c],
         BoxBacked(box, record[u]), Grows(c.games, record[u])
  PROVE  BookInvariant'
<1>1. BookType'
  BY DEF BookInvariant, BookType
<1>2. StoredInv'
  BY DEF BookInvariant, StoredInv
<1>3. ShownInv'
  BY DEF BookInvariant, BookType, ShownInv, Grows
<1> QED
  BY <1>1, <1>2, <1>3 DEF BookInvariant

\* What the invariant says of one user.
LEMMA OneUser ==
  ASSUME BookInvariant, NEW u \in Users
  PROVE  /\ inbox[u] \in Seq(Message) /\ BoxBacked(inbox[u], record[u])
         /\ client[u] \in [games : Counts, settled : Rooms \cup {NoRoom}]
         /\ client = [client EXCEPT ![u] = client[u]]
         /\ Grows(client[u].games, record[u])
  BY DEF BookInvariant, BookType, ShownInv, Grows

LEMMA LoginKeeps ==
  ASSUME BookInvariant, NEW u \in Users, HandleLogin(u)
  PROVE  BookInvariant'
<1> DEFINE c == [games |-> NoGames, settled |-> NoRoom]
<1>1. RoundType' /\ SessionsInv'
  BY DEF BookInvariant, RoundType, SessionsInv, HandleLogin, NoGames, NoneFlushed, Counts
<1>2. c \in [games : Counts, settled : Rooms \cup {NoRoom}] /\ Grows(c.games, record[u])
  BY DEF NoGames, Counts, Grows
<1>3. <<ProfileOf(u)>> \in Seq(Message) /\ BoxBacked(<<ProfileOf(u)>>, record[u])
  BY ProfileBacked DEF BookInvariant, BoxBacked
<1> QED
  BY <1>1, <1>2, <1>3, OneUserKeeps DEF HandleLogin

LEMMA NicknameKeeps ==
  ASSUME BookInvariant, NEW u \in Users, HandleUpdateNickname(u)
  PROVE  BookInvariant'
<1>1. RoundType' /\ SessionsInv'
  BY DEF BookInvariant, RoundType, SessionsInv, HandleUpdateNickname
<1>2. /\ Append(inbox[u], ProfileOf(u)) \in Seq(Message)
      /\ BoxBacked(Append(inbox[u], ProfileOf(u)), record[u])
  BY OneUser, ProfileBacked, BoxAppend DEF BookInvariant
<1> QED
  BY <1>1, <1>2, OneUser, OneUserKeeps DEF HandleUpdateNickname

LEMMA ReconnectKeeps ==
  ASSUME BookInvariant, NEW u \in Users, HandleReconnect(u)
  PROVE  BookInvariant'
<1>1. RoundType' /\ SessionsInv'
  BY DEF BookInvariant, RoundType, SessionsInv, HandleReconnect
<1> DEFINE m == Finished(sessionRoom[u])
<1>2. m \in Message /\ Backed(m, record[u])
  BY DEF BookInvariant, RoundType, SessionsInv, StoredInv, HandleReconnect, Finished, Message, Backed
<1>3. Append(inbox[u], m) \in Seq(Message) /\ BoxBacked(Append(inbox[u], m), record[u])
  BY <1>2, OneUser, BoxAppend
<1> QED
  BY <1>1, <1>3, OneUser, OneUserKeeps DEF HandleReconnect

LEMMA LostKeeps ==
  ASSUME BookInvariant, NEW u \in Users, LoseConnection(u)
  PROVE  BookInvariant'
<1>1. RoundType' /\ SessionsInv'
  BY LostTypes DEF BookInvariant, SessionsInv, LoseConnection
<1>2. <<>> \in Seq(Message) /\ BoxBacked(<<>>, record[u])
  BY DEF BoxBacked
<1> QED
  BY <1>1, <1>2, OneUser, OneUserKeeps DEF LoseConnection

LEMMA ReceiveKeeps ==
  ASSUME BookInvariant, NEW u \in Users, ClientReceives(u)
  PROVE  BookInvariant'
<1> DEFINE m == Head(inbox[u])
<1>1. RoundType' /\ SessionsInv'
  BY DEF BookInvariant, RoundType, SessionsInv, ClientReceives
<1>2. /\ Tail(inbox[u]) \in Seq(Message) /\ BoxBacked(Tail(inbox[u]), record[u])
      /\ m \in Message /\ Backed(m, record[u])
  BY OneUser, BoxTail DEF ClientReceives
<1>3. /\ Settled(client[u], m) \in [games : Counts, settled : Rooms \cup {NoRoom}]
      /\ Grows(Settled(client[u], m).games, record[u])
  <2>1. CASE m.kind = "profile"
    BY <1>2, <2>1, OneUser DEF Settled, Message, Backed, Grows, Counts
  <2>2. CASE m.kind # "profile"
    BY <1>2, <2>2, OneUser DEF Settled, Message, Backed, Grows, Counts
  <2> QED
    BY <2>1, <2>2
<1>4. client' = [client EXCEPT ![u] = Settled(client[u], m)]
      /\ inbox' = [inbox EXCEPT ![u] = Tail(inbox[u])] /\ UNCHANGED <<phase, record>>
  BY DEF ClientReceives
<1> QED
  BY <1>1, <1>2, <1>3, <1>4, OneUserKeeps

LEMMA BookNext == BookInvariant /\ [Next]_vars => BookInvariant'
<1> SUFFICES ASSUME BookInvariant, [Next]_vars PROVE BookInvariant'
  OBVIOUS
<1>1. ASSUME NEW r \in Rooms, StartRound(r) \/ GateTimesOut(r) \/ TickFinishes(r)
      PROVE  BookInvariant'
  BY <1>1, StartRoundKeeps, TimeOutKeeps, TickFinishesKeeps
<1>2. ASSUME NEW r \in Rooms, NEW byBot \in BOOLEAN, NEW last \in BOOLEAN, Act(r, byBot, last)
      PROVE  BookInvariant'
  BY <1>2, ActKeeps
<1>3. ASSUME NEW r \in Rooms, NEW u \in Users,
             LeaveBotRoom(u, r) \/ FlushPresentations(u, r) \/ Acknowledge(u, r)
      PROVE  BookInvariant'
  BY <1>3, LeaveKeeps, FlushKeeps, AcknowledgeKeeps
<1>4. ASSUME NEW u \in Users,
             \/ ReopenGamePage(u) \/ HandleLogin(u) \/ HandleUpdateNickname(u)
             \/ HandleReconnect(u) \/ LoseConnection(u) \/ ClientReceives(u)
      PROVE  BookInvariant'
  BY <1>4, ReopenKeeps, LoginKeeps, NicknameKeeps, ReconnectKeeps, LostKeeps, ReceiveKeeps
<1>5. CASE UNCHANGED vars
  <2>1. RoundType' /\ SessionsInv'
    BY <1>5 DEF BookInvariant, RoundType, SessionsInv, vars
  <2> QED
    BY <1>5, <2>1, QuietKeeps DEF vars
<1> QED
  BY <1>1, <1>2, <1>3, <1>4, <1>5 DEF Next

\* The inductive invariant of what is stored and shown.
THEOREM BookSafe == Spec => []BookInvariant
  BY BookInit, BookNext, PTL DEF Spec

\* Nobody is told of a result that is not in his record, however many users, rooms,
\* repeated acknowledgements, logins and lost connections there are.
THEOREM ResultsStoredBeforeShown == Spec => []RecordedBeforeShown
<1>1. BookInvariant => RecordedBeforeShown
  <2> SUFFICES ASSUME BookInvariant, NEW u \in Users, NEW r \in Rooms,
                      NEW i \in DOMAIN inbox[u], inbox[u][i] = Finished(r)
               PROVE  record[u][r] > 0
    BY DEF RecordedBeforeShown, BookInvariant, ShownInv
  <2>1. i \in 1..Len(inbox[u])
    BY DEF BookInvariant, BookType
  <2> QED
    BY <2>1 DEF BookInvariant, ShownInv, BoxBacked, Backed, Finished
<1> QED
  BY <1>1, BookSafe, PTL

-----------------------------------------------------------------------------
(* The presentation gate.                                                  *)

\* In a game against bots the gate waits for the last action until its client has
\* acknowledged all of them, in order; the result is stored by the tick alone.
GateInv ==
  \A r \in BotRooms \ (timedOut \cup overtaken) : \A u \in Members[r] \ arrivals :
    /\ flushed[u][r] = <<>>
    /\ gate[r] \in {0, actions[r]}
    /\ gate[r] = 0 => acked[u][r] = actions[r]
    /\ phase[r] = "finished" => gate[r] = 0
    /\ record[u][r] <= 1
    /\ phase[r] \in {"none", "playing", "finishing"} => record[u][r] = 0

\* Nobody has a result of a room he did not play in.
ForeignInv == \A u \in Users, r \in Rooms : u \notin Members[r] => record[u][r] = 0

GateInvariant == RoundType /\ record \in [Users -> Counts] /\ GateInv /\ ForeignInv

LEMMA GateInit == Init => GateInvariant
  BY ScoreBookAssumption DEF Init, GateInvariant, RoundType, GateInv, ForeignInv, NoGames, NoneFlushed, Counts

\* What a step that neither stores nor acknowledges may do to a room.
RoomKept(r) ==
  /\ \/ gate'[r] = gate[r] /\ actions'[r] = actions[r]
     \/ gate'[r] # 0 /\ gate'[r] = actions'[r]
  /\ phase'[r] = "finished" => phase[r] = "finished" /\ gate'[r] = gate[r]
  /\ phase'[r] \in {"none", "playing", "finishing"} =>
       phase[r] \in {"none", "playing", "finishing"}

LEMMA GateStep ==
  ASSUME GateInvariant, RoundType', UNCHANGED <<record, acked, flushed, arrivals>>,
         timedOut \subseteq timedOut', overtaken' = overtaken,
         \A r \in BotRooms \ (timedOut' \cup overtaken) : RoomKept(r)
  PROVE  GateInvariant'
<1>1. GateInv'
  <2> SUFFICES ASSUME NEW r \in BotRooms \ (timedOut' \cup overtaken), NEW u \in Members[r] \ arrivals
               PROVE  /\ flushed[u][r] = <<>>
                      /\ gate'[r] \in {0, actions'[r]}
                      /\ gate'[r] = 0 => acked[u][r] = actions'[r]
                      /\ phase'[r] = "finished" => gate'[r] = 0
                      /\ record[u][r] <= 1
                      /\ phase'[r] \in {"none", "playing", "finishing"} => record[u][r] = 0
    BY DEF GateInv
  <2> QED
    BY DEF GateInvariant, GateInv, RoomKept
<1>2. ForeignInv'
  BY DEF GateInvariant, ForeignInv
<1> QED
  BY <1>1, <1>2 DEF GateInvariant

LEMMA GateTick ==
  ASSUME GateInvariant, NEW q \in Rooms, TickFinishes(q)
  PROVE  GateInvariant'
<1>1. RoundType'
  BY DEF GateInvariant, RoundType, TickFinishes
<1>2. record' \in [Users -> Counts]
  BY DEF GateInvariant, TickFinishes, Persisted, Counts
<1>3. \A u \in Users, r \in Rooms :
        record'[u][r] = IF r = q /\ u \in Members[q] THEN record[u][r] + 1 ELSE record[u][r]
  BY DEF GateInvariant, TickFinishes, Persisted, Counts
<1>4. ForeignInv'
  BY <1>3 DEF GateInvariant, ForeignInv
<1>5. GateInv'
  <2> SUFFICES ASSUME NEW r \in BotRooms \ (timedOut \cup overtaken), NEW u \in Members[r] \ arrivals
               PROVE  /\ flushed'[u][r] = <<>>
                      /\ gate'[r] \in {0, actions'[r]}
                      /\ gate'[r] = 0 => acked'[u][r] = actions'[r]
                      /\ phase'[r] = "finished" => gate'[r] = 0
                      /\ record'[u][r] <= 1
                      /\ phase'[r] \in {"none", "playing", "finishing"} => record'[u][r] = 0
    BY DEF GateInv, TickFinishes
  <2>1. r \in Rooms /\ u \in Users
    BY ScoreBookAssumption
  <2>2. /\ flushed[u][r] = <<>>
        /\ gate[r] \in {0, actions[r]}
        /\ gate[r] = 0 => acked[u][r] = actions[r]
        /\ phase[r] = "finished" => gate[r] = 0
        /\ record[u][r] <= 1
        /\ phase[r] \in {"none", "playing", "finishing"} => record[u][r] = 0
    BY DEF GateInvariant, GateInv
  <2>3. UNCHANGED <<actions, gate, acked, flushed>>
    BY DEF TickFinishes
  <2>4. CASE r # q
    <3>1. record'[u][r] = record[u][r] /\ phase'[r] = phase[r]
      BY <1>3, <2>1, <2>4 DEF GateInvariant, RoundType, TickFinishes
    <3> QED
      BY <2>2, <2>3, <3>1
  <2>5. CASE r = q
    <3>1. phase[r] = "finishing" /\ gate[r] = 0 /\ phase'[r] = "finished"
      BY <2>1, <2>5 DEF GateInvariant, RoundType, TickFinishes
    <3>2. record[u][r] = 0 /\ record'[u][r] <= 1
      BY <1>3, <2>1, <2>2, <3>1
    <3> QED
      BY <2>2, <2>3, <3>1, <3>2
  <2> QED
    BY <2>4, <2>5
<1> QED
  BY <1>1, <1>2, <1>4, <1>5 DEF GateInvariant

LEMMA GateAcknowledge ==
  ASSUME GateInvariant, NEW v \in Users, NEW q \in Rooms, Acknowledge(v, q)
  PROVE  GateInvariant'
<1>1. RoundType'
  BY AcknowledgeTypes DEF GateInvariant
<1>0. record' = record \/ record' = Persisted(q, phase[q])
  BY DEF Acknowledge
<1>2. record' \in [Users -> Counts]
  BY <1>0 DEF GateInvariant, Persisted, Counts
<1>3. \A u \in Users, r \in Rooms :
        \/ record'[u][r] = record[u][r]
        \/ r = q /\ u \in Members[q] /\ phase[q] = "finished"
  BY <1>0 DEF GateInvariant, Persisted, Counts
<1>4. ForeignInv'
  BY <1>3 DEF GateInvariant, ForeignInv
<1>5. GateInv'
  <2> SUFFICES ASSUME NEW r \in BotRooms \ (timedOut \cup overtaken), NEW u \in Members[r] \ arrivals
               PROVE  /\ flushed'[u][r] = <<>>
                      /\ gate'[r] \in {0, actions[r]}
                      /\ gate'[r] = 0 => acked'[u][r] = actions[r]
                      /\ phase[r] = "finished" => gate'[r] = 0
                      /\ record'[u][r] <= 1
                      /\ phase[r] \in {"none", "playing", "finishing"} => record'[u][r] = 0
    BY DEF GateInv, Acknowledge
  <2>1. r \in Rooms /\ u \in Users
    BY ScoreBookAssumption
  <2>2. /\ flushed[u][r] = <<>>
        /\ gate[r] \in {0, actions[r]}
        /\ gate[r] = 0 => acked[u][r] = actions[r]
        /\ phase[r] = "finished" => gate[r] = 0
        /\ record[u][r] <= 1
        /\ phase[r] \in {"none", "playing", "finishing"} => record[u][r] = 0
    BY DEF GateInvariant, GateInv
  <2>3. CASE r # q
    <3>1. gate'[r] = gate[r] /\ record'[u][r] = record[u][r]
      BY <1>3, <2>1, <2>3 DEF GateInvariant, RoundType, Acknowledge
    <3>2. acked'[u][r] = acked[u][r] /\ flushed'[u][r] = flushed[u][r]
      <4>1. CASE flushed[v][q] = <<>>
        <5>1. flushed' = flushed /\ acked' = [acked EXCEPT ![v][q] = acked[v][q] + 1]
          BY <4>1 DEF Acknowledge, NextAck
        <5>2. acked[v][q] + 1 \in Nat
          BY DEF GateInvariant, RoundType, Counts
        <5> QED
          BY <2>1, <2>3, <5>1, <5>2, OneEntry DEF GateInvariant, RoundType, Counts
      <4>2. CASE flushed[v][q] # <<>>
        <5>1. flushed' = [flushed EXCEPT ![v][q] = Tail(@)] /\ acked' = acked
          BY <4>2 DEF Acknowledge
        <5>2. Tail(flushed[v][q]) \in Seq(Nat)
          BY <4>2 DEF GateInvariant, RoundType
        <5> QED
          BY <2>1, <2>3, <5>1, <5>2, OneEntry DEF GateInvariant, RoundType
      <4> QED
        BY <4>1, <4>2
    <3> QED
      BY <2>2, <3>1, <3>2
  <2>4. CASE r = q
    <3>1. u = v
      BY <2>4, ScoreBookAssumption DEF Acknowledge
    <3>0. NextAck(u, r) = acked[u][r] + 1
      BY <2>2 DEF NextAck
    <3>2. /\ acked[u][r] + 1 <= actions[r] /\ acked'[u][r] = acked[u][r] + 1
          /\ flushed' = flushed
      BY <2>1, <2>2, <2>4, <3>0, <3>1 DEF GateInvariant, RoundType, Acknowledge, Counts
    <3>3. actions[r] \in Nat /\ acked[u][r] \in Nat
      BY <2>1 DEF GateInvariant, RoundType, Counts
    <3>4. gate[r] # 0 /\ gate[r] = actions[r] /\ phase[r] # "finished"
      BY <2>2, <3>2, <3>3
    <3>5. record'[u][r] = record[u][r]
      BY <1>3, <2>1, <2>4, <3>4
    <3>6. \/ gate'[r] = gate[r]
          \/ gate'[r] = 0 /\ gate[r] = acked[u][r] + 1
      BY <2>1, <2>4, <3>0, <3>1, <3>4 DEF GateInvariant, RoundType, Acknowledge, AckAccepted
    <3> QED
      BY <2>2, <3>2, <3>3, <3>4, <3>5, <3>6
  <2> QED
    BY <2>3, <2>4
<1> QED
  BY <1>1, <1>2, <1>4, <1>5 DEF GateInvariant

\* A client that is replaced, or whose page is opened anew, counts no longer.
LEMMA GateArrival ==
  ASSUME GateInvariant, NEW v \in Users, ReopenGamePage(v) \/ HandleLogin(v)
  PROVE  GateInvariant'
<1>1. RoundType'
  <2>1. CASE ReopenGamePage(v)
    BY <2>1 DEF GateInvariant, RoundType, ReopenGamePage, NoGames, Counts
  <2>2. CASE HandleLogin(v)
    BY <2>2 DEF GateInvariant, RoundType, HandleLogin, NoGames, NoneFlushed, Counts
  <2> QED
    BY <2>1, <2>2
<1>2. ForeignInv' /\ record' \in [Users -> Counts]
  BY DEF GateInvariant, ForeignInv, ReopenGamePage, HandleLogin
<1>3. /\ arrivals' = arrivals \cup {v} /\ acked' = [acked EXCEPT ![v] = NoGames]
      /\ flushed' \in {flushed, [flushed EXCEPT ![v] = NoneFlushed]}
      /\ UNCHANGED <<phase, actions, gate, timedOut, record, overtaken>>
  BY DEF ReopenGamePage, HandleLogin
<1>4. \A u \in Users \ arrivals' : acked'[u] = acked[u] /\ flushed'[u] = flushed[u]
  BY <1>3 DEF GateInvariant, RoundType
<1>5. GateInv'
  BY <1>3, <1>4, ScoreBookAssumption DEF GateInvariant, GateInv
<1> QED
  BY <1>1, <1>2, <1>5 DEF GateInvariant

\* A page that goes to the background counts no longer in its room.
LEMMA GateFlush ==
  ASSUME GateInvariant, NEW v \in Users, NEW q \in Rooms, FlushPresentations(v, q)
  PROVE  GateInvariant'
<1>1. RoundType'
  BY FlushTypes DEF GateInvariant
<1>2. ForeignInv' /\ record' \in [Users -> Counts]
  BY DEF GateInvariant, ForeignInv, FlushPresentations
<1>3. /\ overtaken' = overtaken \cup {q}
      /\ UNCHANGED <<phase, actions, gate, timedOut, record, arrivals>>
  BY DEF FlushPresentations
<1>4. \A u \in Users, r \in Rooms \ {q} : acked'[u][r] = acked[u][r] /\ flushed'[u][r] = flushed[u][r]
  <2>1. PICK last, sent : /\ last \in Nat /\ sent \in Seq(Nat)
                          /\ flushed' = [flushed EXCEPT ![v][q] = sent]
                          /\ acked' = [acked EXCEPT ![v][q] = last]
    BY FlushDoes DEF GateInvariant
  <2> QED
    BY <2>1, OneEntry DEF GateInvariant, RoundType, Counts
<1>5. GateInv'
  BY <1>3, <1>4, ScoreBookAssumption DEF GateInvariant, GateInv
<1> QED
  BY <1>1, <1>2, <1>5 DEF GateInvariant

\* Acknowledgements that are lost cannot come too late.
LEMMA GateLost ==
  ASSUME GateInvariant, NEW v \in Users, LoseConnection(v)
  PROVE  GateInvariant'
<1>1. RoundType'
  BY LostTypes DEF GateInvariant
<1>2. ForeignInv' /\ record' \in [Users -> Counts]
  BY DEF GateInvariant, ForeignInv, LoseConnection
<1>3. UNCHANGED <<phase, actions, gate, timedOut, record, arrivals, overtaken>>
  BY DEF LoseConnection
<1>4. PICK q \in Rooms : \E k \in acked[v][q] .. actions[q] : acked' = [acked EXCEPT ![v][q] = k]
  BY LostTypes DEF GateInvariant
<1>5. PICK k \in acked[v][q] .. actions[q] : acked' = [acked EXCEPT ![v][q] = k]
  BY <1>4
<1>6. ASSUME NEW u \in Users, NEW r \in Rooms, acked[u][r] = actions[r]
      PROVE  acked'[u][r] = actions[r]
  <2>1. actions[r] \in Nat /\ actions[q] \in Nat /\ acked[v][q] \in Nat
    BY DEF GateInvariant, RoundType, Counts
  <2>2. CASE u = v /\ r = q
    <3>1. k = actions[r]
      BY <1>5, <1>6, <2>1, <2>2
    <3> QED
      BY <1>5, <2>2, <3>1 DEF GateInvariant, RoundType, Counts
  <2>3. CASE u # v \/ r # q
    BY <1>5, <1>6, <2>3 DEF GateInvariant, RoundType, Counts
  <2> QED
    BY <2>2, <2>3
<1>7. \A u \in Users, r \in Rooms : flushed[u][r] = <<>> => flushed'[u][r] = <<>>
  BY DEF LoseConnection, NoneFlushed, GateInvariant, RoundType
<1>8. GateInv'
  BY <1>3, <1>6, <1>7, ScoreBookAssumption DEF GateInvariant, GateInv
<1> QED
  BY <1>1, <1>2, <1>8 DEF GateInvariant

LEMMA GateNext == GateInvariant /\ [Next]_vars => GateInvariant'
<1> SUFFICES ASSUME GateInvariant, [Next]_vars PROVE GateInvariant'
  OBVIOUS
<1>1. ASSUME NEW r \in Rooms, StartRound(r) PROVE GateInvariant'
  <2>1. RoundType'
    BY <1>1, ScoreBookAssumption DEF GateInvariant, RoundType, StartRound
  <2>2. /\ UNCHANGED <<record, acked, flushed, arrivals, overtaken>>
        /\ timedOut \subseteq timedOut'
    BY <1>1 DEF StartRound
  <2>3. ASSUME NEW q \in BotRooms \ (timedOut' \cup overtaken) PROVE RoomKept(q)
    <3>1. q \in Rooms
      BY ScoreBookAssumption
    <3> QED
      BY <1>1, <3>1 DEF GateInvariant, RoundType, RoomKept, StartRound
  <2> QED
    BY <2>1, <2>2, <2>3, GateStep
<1>2. ASSUME NEW r \in Rooms, NEW byBot \in BOOLEAN, NEW last \in BOOLEAN, Act(r, byBot, last)
      PROVE  GateInvariant'
  <2>1. RoundType'
    BY <1>2 DEF GateInvariant, RoundType, Act, Armed
  <2>2. /\ UNCHANGED <<record, acked, flushed, arrivals, overtaken>>
        /\ timedOut \subseteq timedOut'
    BY <1>2 DEF Act
  <2>3. ASSUME NEW q \in BotRooms \ (timedOut' \cup overtaken) PROVE RoomKept(q)
    <3>1. q \in Rooms
      BY ScoreBookAssumption
    <3> QED
      BY <1>2, <3>1 DEF GateInvariant, RoundType, RoomKept, Act, Armed
  <2> QED
    BY <2>1, <2>2, <2>3, GateStep
<1>3. ASSUME NEW r \in Rooms, GateTimesOut(r) PROVE GateInvariant'
  <2>1. RoundType'
    BY <1>3 DEF GateInvariant, RoundType, GateTimesOut
  <2>2. /\ UNCHANGED <<record, acked, flushed, arrivals, overtaken>>
        /\ timedOut \subseteq timedOut'
    BY <1>3 DEF GateTimesOut
  <2>3. ASSUME NEW q \in BotRooms \ (timedOut' \cup overtaken) PROVE RoomKept(q)
    <3>1. q \in Rooms
      BY ScoreBookAssumption
    <3> QED
      BY <1>3, <3>1 DEF GateInvariant, RoundType, RoomKept, GateTimesOut
  <2> QED
    BY <2>1, <2>2, <2>3, GateStep
<1>4. ASSUME NEW u \in Users, NEW r \in Rooms, LeaveBotRoom(u, r) PROVE GateInvariant'
  <2>1. RoundType'
    BY <1>4 DEF GateInvariant, RoundType, LeaveBotRoom
  <2>2. /\ UNCHANGED <<record, acked, flushed, arrivals, overtaken>>
        /\ timedOut \subseteq timedOut'
    BY <1>4 DEF LeaveBotRoom
  <2>3. ASSUME NEW q \in BotRooms \ (timedOut' \cup overtaken) PROVE RoomKept(q)
    <3>1. q \in Rooms
      BY ScoreBookAssumption
    <3> QED
      BY <1>4, <3>1 DEF GateInvariant, RoundType, RoomKept, LeaveBotRoom
  <2> QED
    BY <2>1, <2>2, <2>3, GateStep
<1>5. ASSUME NEW u \in Users,
             HandleUpdateNickname(u) \/ HandleReconnect(u) \/ ClientReceives(u)
      PROVE  GateInvariant'
  BY <1>5 DEF GateInvariant, RoundType, GateInv, ForeignInv, HandleUpdateNickname,
              HandleReconnect, ClientReceives
<1>6. CASE UNCHANGED vars
  BY <1>6 DEF GateInvariant, RoundType, GateInv, ForeignInv, vars
<1> QED
  BY <1>1, <1>2, <1>3, <1>4, <1>5, <1>6, GateTick, GateFlush, GateAcknowledge,
     GateArrival, GateLost DEF Next

\* A client that answers in time, stays to the end and acknowledges in order has its game
\* against bots stored once, whichever acknowledgements are late or lost. (One whose page
\* goes to the background of the browser while actions are waiting does not acknowledge in
\* order, and may have it stored twice.)
THEOREM BotGamesCountedOnce == Spec => []BotGameCountedOnce
<1>1. GateInvariant => BotGameCountedOnce
  <2> SUFFICES ASSUME GateInvariant, NEW u \in Users \ arrivals,
                      NEW r \in BotRooms \ (timedOut \cup overtaken)
               PROVE  record[u][r] <= 1
    BY DEF BotGameCountedOnce
  <2>1. CASE u \in Members[r]
    BY <2>1 DEF GateInvariant, GateInv
  <2>2. CASE u \notin Members[r]
    BY <2>2, ScoreBookAssumption DEF GateInvariant, ForeignInv
  <2> QED
    BY <2>1, <2>2
<1> QED
  BY <1>1, GateInit, GateNext, PTL DEF Spec
-----------------------------------------------------------------------------
(* The bounds of the counters.                                             *)

BoundsInv ==
  \A r \in Rooms :
    /\ actions[r] <= MaxActions[r] /\ gate[r] <= actions[r]
    /\ \A u \in Users :
         /\ acked[u][r] <= actions[r]
         /\ \A i \in 1..Len(flushed[u][r]) : flushed[u][r][i] \in 1..actions[r]

LEMMA BoundsNext == BookInvariant /\ BoundsInv /\ [Next]_vars => BoundsInv'
<1> SUFFICES ASSUME RoundType, BoundsInv, [Next]_vars PROVE BoundsInv'
  BY DEF BookInvariant
<1>0. MaxActions \in [Rooms -> Nat]
  BY ScoreBookAssumption
<1>1. ASSUME NEW r \in Rooms, NEW byBot \in BOOLEAN, NEW last \in BOOLEAN, Act(r, byBot, last)
      PROVE  BoundsInv'
  <2>1. /\ actions' = [actions EXCEPT ![r] = @ + 1] /\ actions[r] < MaxActions[r]
        /\ gate' = [gate EXCEPT ![r] = Armed(r, actions[r] + 1)] /\ UNCHANGED <<acked, flushed>>
    BY <1>1 DEF Act
  <2>2. Armed(r, actions[r] + 1) \in Nat /\ Armed(r, actions[r] + 1) <= actions[r] + 1
    BY DEF Armed, RoundType
  <2>3. \A q \in Rooms : actions'[q] \in Nat /\ actions[q] \in Nat /\ actions[q] <= actions'[q]
    BY <2>1 DEF RoundType
  <2>4. \A q \in Rooms : actions'[q] <= MaxActions[q] /\ gate'[q] <= actions'[q]
    BY <1>0, <2>1, <2>2 DEF BoundsInv, RoundType
  <2>5. \A q \in Rooms, u \in Users : acked'[u][q] <= actions'[q]
    BY <2>1, <2>3 DEF BoundsInv, RoundType, Counts
  <2>6. ASSUME NEW q \in Rooms, NEW u \in Users, NEW i \in 1..Len(flushed'[u][q])
        PROVE  flushed'[u][q][i] \in 1..actions'[q]
    BY <2>1, <2>3 DEF BoundsInv
  <2> QED
    BY <2>4, <2>5, <2>6 DEF BoundsInv
<1>2. ASSUME NEW r \in Rooms, GateTimesOut(r) PROVE BoundsInv'
  BY <1>2 DEF GateTimesOut, BoundsInv, RoundType
<1>3. ASSUME NEW u \in Users, NEW r \in Rooms, Acknowledge(u, r) PROVE BoundsInv'
  <2>1. actions' = actions
    BY <1>3 DEF Acknowledge
  <2>0. \A q \in Rooms : gate'[q] <= actions[q]
    <3>1. gate' = gate \/ gate' = [gate EXCEPT ![r] = 0]
      BY <1>3 DEF Acknowledge
    <3>2. \A q \in Rooms : gate'[q] \in {gate[q], 0} /\ actions[q] \in Nat
      BY <3>1 DEF RoundType
    <3> QED
      BY <3>2 DEF BoundsInv
  <2>2. CASE flushed[u][r] = <<>>
    <3>1. /\ acked[u][r] + 1 <= actions[r] /\ flushed' = flushed
          /\ acked' = [acked EXCEPT ![u][r] = acked[u][r] + 1]
      BY <1>3, <2>2 DEF Acknowledge, NextAck
    <3>2. acked[u][r] + 1 \in Nat
      BY DEF RoundType, Counts
    <3>3. \A v \in Users, q \in Rooms : acked'[v][q] <= actions[q]
      BY <3>1, <3>2, OneEntry DEF BoundsInv, RoundType, Counts
    <3> QED
      BY <2>0, <2>1, <3>1, <3>3 DEF BoundsInv
  <2>3. CASE flushed[u][r] # <<>>
    <3>1. acked' = acked /\ flushed' = [flushed EXCEPT ![u][r] = Tail(@)]
      BY <1>3, <2>3 DEF Acknowledge
    <3>2. flushed[u][r] \in Seq(Nat)
      BY DEF RoundType
    <3>3. ASSUME NEW i \in 1..Len(Tail(flushed[u][r])) PROVE Tail(flushed[u][r])[i] \in 1..actions[r]
      <4>1. i + 1 \in 1..Len(flushed[u][r]) /\ Tail(flushed[u][r])[i] = flushed[u][r][i + 1]
        BY <2>3, <3>2
      <4> QED
        BY <4>1 DEF BoundsInv
    <3>4. ASSUME NEW v \in Users, NEW q \in Rooms
          PROVE  \/ flushed'[v][q] = flushed[v][q]
                 \/ v = u /\ q = r /\ flushed'[v][q] = Tail(flushed[u][r])
      BY <3>1 DEF RoundType
    <3>5. \A v \in Users, q \in Rooms : \A i \in 1..Len(flushed'[v][q]) : flushed'[v][q][i] \in 1..actions[q]
      BY <3>3, <3>4 DEF BoundsInv
    <3> QED
      BY <2>0, <2>1, <3>1, <3>5 DEF BoundsInv
  <2> QED
    BY <2>2, <2>3
<1>4. ASSUME NEW u \in Users, ReopenGamePage(u) \/ HandleLogin(u) PROVE BoundsInv'
  <2>1. /\ actions' = actions /\ gate' = gate /\ acked' = [acked EXCEPT ![u] = NoGames]
        /\ flushed' \in {flushed, [flushed EXCEPT ![u] = NoneFlushed]}
    BY <1>4 DEF ReopenGamePage, HandleLogin
  <2>2. \A v \in Users, q \in Rooms : acked'[v][q] \in {acked[v][q], 0} /\ actions[q] \in Nat
    BY <2>1 DEF RoundType, NoGames
  <2>3. \A v \in Users, q \in Rooms : acked'[v][q] <= actions[q]
    BY <2>2 DEF BoundsInv
  <2>4. \A v \in Users, q \in Rooms : flushed'[v][q] = flushed[v][q] \/ flushed'[v][q] = <<>>
    <3>1. CASE flushed' = flushed
      BY <3>1
    <3>2. CASE flushed' = [flushed EXCEPT ![u] = NoneFlushed]
      <4>1. \A q \in Rooms : NoneFlushed[q] = <<>>
        BY DEF NoneFlushed
      <4> QED
        BY <3>2, <4>1 DEF RoundType
    <3> QED
      BY <2>1, <3>1, <3>2
  <2>5. \A v \in Users, q \in Rooms : \A i \in 1..Len(flushed'[v][q]) : flushed'[v][q][i] \in 1..actions[q]
    <3>1. ASSUME NEW v \in Users, NEW q \in Rooms, flushed'[v][q] = <<>>
          PROVE  \A i \in 1..Len(flushed'[v][q]) : flushed'[v][q][i] \in 1..actions[q]
      BY <3>1
    <3> QED
      BY <2>4, <3>1 DEF BoundsInv
  <2> QED
    BY <2>1, <2>3, <2>5 DEF BoundsInv
<1>10. ASSUME NEW u \in Users, NEW r \in Rooms, FlushPresentations(u, r) PROVE BoundsInv'
  <2>1. actions' = actions /\ gate' = gate
    BY <1>10 DEF FlushPresentations
  <2>2. PICK last \in acked[u][r] + 2 .. actions[r] :
          LET sent == SentAtOnce(acked[u][r] + 1, last) IN
          /\ last \in Nat /\ sent \in Seq(Nat)
          /\ \A i \in 1..Len(sent) : sent[i] \in 1..actions[r]
          /\ flushed' = [flushed EXCEPT ![u][r] = sent]
          /\ acked' = [acked EXCEPT ![u][r] = last]
    BY <1>10, FlushDoes
  <2> DEFINE sent == SentAtOnce(acked[u][r] + 1, last)
  <2>3. /\ last \in Nat /\ last <= actions[r] /\ acked' = [acked EXCEPT ![u][r] = last]
        /\ \A i \in 1..Len(sent) : sent[i] \in 1..actions[r]
        /\ flushed' = [flushed EXCEPT ![u][r] = sent]
    BY <2>2 DEF RoundType, Counts
  <2> HIDE DEF sent
  <2>4. \A v \in Users, q \in Rooms : acked'[v][q] <= actions[q]
    BY <2>3 DEF BoundsInv, RoundType, Counts
  <2>5. \A v \in Users, q \in Rooms : \A i \in 1..Len(flushed'[v][q]) : flushed'[v][q][i] \in 1..actions[q]
    BY <2>3 DEF BoundsInv, RoundType
  <2> QED
    BY <2>1, <2>4, <2>5 DEF BoundsInv
<1>11. ASSUME NEW u \in Users, LoseConnection(u) PROVE BoundsInv'
  <2>1. PICK r \in Rooms : \E k \in acked[u][r] .. actions[r] : acked' = [acked EXCEPT ![u][r] = k]
    BY <1>11, LostTypes
  <2>2. actions' = actions /\ gate' = gate /\ flushed' = [flushed EXCEPT ![u] = NoneFlushed]
    BY <1>11 DEF LoseConnection
  <2>3. acked[u][r] \in Nat /\ actions[r] \in Nat
    BY DEF RoundType, Counts
  <2>4. \A v \in Users, q \in Rooms : acked'[v][q] <= actions[q]
    BY <2>1, <2>3 DEF BoundsInv, RoundType, Counts
  <2>5. \A v \in Users, q \in Rooms : \A i \in 1..Len(flushed'[v][q]) : flushed'[v][q][i] \in 1..actions[q]
    BY <2>2 DEF BoundsInv, RoundType, NoneFlushed
  <2> QED
    BY <2>2, <2>4, <2>5 DEF BoundsInv
<1>5. ASSUME UNCHANGED <<actions, gate, acked, flushed>> PROVE BoundsInv'
  BY <1>5 DEF BoundsInv
<1>6. ASSUME NEW r \in Rooms, StartRound(r) \/ TickFinishes(r) PROVE BoundsInv'
  BY <1>5, <1>6 DEF StartRound, TickFinishes
<1>7. ASSUME NEW u \in Users, NEW r \in Rooms, LeaveBotRoom(u, r) PROVE BoundsInv'
  BY <1>5, <1>7 DEF LeaveBotRoom
<1>8. ASSUME NEW u \in Users,
             HandleUpdateNickname(u) \/ HandleReconnect(u) \/ ClientReceives(u)
      PROVE  BoundsInv'
  BY <1>5, <1>8 DEF HandleUpdateNickname, HandleReconnect, ClientReceives
<1>9. CASE UNCHANGED vars
  BY <1>5, <1>9 DEF vars
<1> QED
  BY <1>1, <1>2, <1>3, <1>4, <1>6, <1>7, <1>8, <1>9, <1>10, <1>11 DEF Next

LEMMA SeqNarrow ==
  ASSUME NEW s \in Seq(Nat), NEW S, \A i \in 1..Len(s) : s[i] \in S
  PROVE  s \in Seq(S)
<1>1. Len(s) \in Nat /\ s \in [1..Len(s) -> S]
  OBVIOUS
<1> QED
  BY <1>1

\* Records, mails and clients hold what their types say, and nobody acknowledges an
\* action that has not happened, nor does a gate wait for one.
THEOREM TypesKept == Spec => []TypeOK
<1>1. Init => BoundsInv
  BY ScoreBookAssumption DEF Init, BoundsInv, NoGames, NoneFlushed
<1>2. BookInvariant /\ BoundsInv => TypeOK
  <2> SUFFICES ASSUME BookInvariant, BoundsInv PROVE TypeOK
    OBVIOUS
  <2>1. /\ \A r \in Rooms : actions[r] \in 0 .. MaxActions[r] /\ gate[r] \in 0 .. actions[r]
        /\ \A u \in Users, r \in Rooms : acked[u][r] \in 0 .. actions[r]
    BY ScoreBookAssumption DEF BookInvariant, BoundsInv, RoundType, Counts
  <2>2. ASSUME NEW u \in Users, NEW r \in Rooms PROVE flushed[u][r] \in Seq(1 .. actions[r])
    <3>1. flushed[u][r] \in Seq(Nat)
      BY DEF BookInvariant, RoundType
    <3>2. \A i \in 1..Len(flushed[u][r]) : flushed[u][r][i] \in 1..actions[r]
      BY DEF BoundsInv
    <3> QED
      BY <3>1, <3>2, SeqNarrow
  <2> QED
    BY <2>1, <2>2 DEF BookInvariant, RoundType, BookType, TypeOK, Counts
<1> QED
  BY <1>1, <1>2, BoundsNext, BookSafe, PTL DEF Spec

-----------------------------------------------------------------------------
(* The client's copy of the profile.                                       *)

\* A user's only game is the one in r.
Only(rec, r) == \A q \in Rooms \ {r} : rec[q] = 0

\* Neither the client nor a profile on its way counts the game in r more often than the
\* record, and once less where a snapshot of the finished room is still to be settled.
InStep(box, c, rec, r) ==
  /\ c.games[r] <= rec[r]
  /\ \A i \in 1..Len(box) : box[i].kind = "profile" => box[i].games[r] <= rec[r]
  /\ c.settled # r => \A i \in 1..Len(box) : box[i] = Finished(r) =>
       /\ c.games[r] < rec[r]
       /\ \A j \in 1..Len(box) :
            /\ j < i /\ box[j].kind = "profile"
            /\ \A k \in 1..Len(box) : k <= j => box[k] # Finished(r)
            => box[j].games[r] < rec[r]

\* The client knows that the room has finished, or will know.
Told(box, c, r) == c.settled = r \/ \E i \in 1..Len(box) : box[i] = Finished(r)

InStepInv ==
  /\ lost \in Nat
  /\ lost = 0 =>
       \A u \in Users, r \in Rooms :
         Only(record[u], r) =>
           /\ InStep(inbox[u], client[u], record[u], r)
           /\ sessionRoom[u] = r /\ phase[r] = "finished" => Told(inbox[u], client[u], r)

\* The user's record has grown, and his mail and client are as they were.
LEMMA InStepGrows ==
  ASSUME NEW box \in Seq(Message), NEW c, NEW old \in Counts, NEW new \in Counts, NEW r \in Rooms,
         c.games \in Counts, InStep(box, c, old, r), old[r] <= new[r]
  PROVE  InStep(box, c, new, r)
<1>1. \A i \in 1..Len(box) : box[i].kind = "profile" => box[i].games[r] \in Nat
  BY DEF Message, Counts
<1>2. old[r] \in Nat /\ new[r] \in Nat /\ c.games[r] \in Nat
  BY DEF Counts
<1> QED
  BY <1>1, <1>2 DEF InStep

\* A snapshot of the finished room goes out: with a result that has just been stored, or
\* as one of many.
LEMMA InStepFinished ==
  ASSUME NEW box \in Seq(Message), NEW c, NEW old \in Counts, NEW new \in Counts, NEW r \in Rooms,
         c.games \in Counts, InStep(box, c, old, r),
         old[r] < new[r] \/ (old[r] = new[r] /\ Told(box, c, r))
  PROVE  InStep(Append(box, Finished(r)), c, new, r) /\ Told(Append(box, Finished(r)), c, r)
<1> DEFINE more == Append(box, Finished(r))
<1>1. \A i \in 1..Len(box) : box[i].kind = "profile" => box[i].games[r] \in Nat
  BY DEF Message, Counts
<1>2. old[r] \in Nat /\ new[r] \in Nat /\ c.games[r] \in Nat
  BY DEF Counts
<1>3. /\ Len(more) = Len(box) + 1 /\ Len(box) \in Nat /\ more[Len(box) + 1] = Finished(r)
      /\ \A i \in 1..Len(box) : more[i] = box[i]
      /\ \A i \in 1..Len(more) : i \in 1..Len(box) \/ i = Len(box) + 1
  OBVIOUS
<1>4. Finished(r).kind # "profile"
  BY DEF Finished
<1> HIDE DEF more
<1>5. c.games[r] <= new[r]
  BY <1>2 DEF InStep
<1>6. \A i \in 1..Len(more) : more[i].kind = "profile" =>
        i \in 1..Len(box) /\ more[i].games[r] <= new[r]
  BY <1>1, <1>2, <1>3, <1>4 DEF InStep
<1>7. ASSUME c.settled # r
      PROVE  /\ c.games[r] < new[r]
             /\ \A j \in 1..Len(more) :
                  /\ more[j].kind = "profile"
                  /\ \A k \in 1..Len(more) : k <= j => more[k] # Finished(r)
                  => more[j].games[r] < new[r]
  <2>1. CASE old[r] < new[r]
    BY <1>1, <1>2, <1>3, <1>4, <2>1 DEF InStep
  <2>2. CASE old[r] = new[r] /\ Told(box, c, r)
    <3>1. PICK i \in 1..Len(box) : box[i] = Finished(r)
      BY <1>7, <2>2 DEF Told
    <3>2. /\ c.games[r] < new[r]
          /\ \A j \in 1..Len(box) :
               /\ j < i /\ box[j].kind = "profile"
               /\ \A k \in 1..Len(box) : k <= j => box[k] # Finished(r)
               => box[j].games[r] < new[r]
      BY <1>7, <2>2, <3>1 DEF InStep
    <3>3. ASSUME NEW j \in 1..Len(more), more[j].kind = "profile",
                 \A k \in 1..Len(more) : k <= j => more[k] # Finished(r)
          PROVE  more[j].games[r] < new[r]
      <4>1. j \in 1..Len(box) /\ more[j] = box[j]
        BY <1>3, <1>6, <3>3
      <4>2. more[i] = Finished(r) /\ i \in 1..Len(more)
        BY <1>3, <3>1
      <4>3. j < i
        BY <3>3, <4>1, <4>2
      <4>4. \A k \in 1..Len(box) : k <= j => box[k] # Finished(r)
        BY <1>3, <3>3
      <4> QED
        BY <3>2, <3>3, <4>1, <4>3, <4>4
    <3> QED
      BY <3>2, <3>3
  <2> QED
    BY <2>1, <2>2
<1>8. InStep(more, c, new, r)
  BY <1>5, <1>6, <1>7 DEF InStep
<1>9. Told(more, c, r)
  BY <1>3 DEF Told
<1> QED
  BY <1>8, <1>9 DEF more

\* A profile read from the record goes out.
LEMMA InStepProfile ==
  ASSUME NEW box \in Seq(Message), NEW c, NEW rec \in Counts, NEW r \in Rooms,
         InStep(box, c, rec, r),
         NEW m, m.kind = "profile", m.games = rec
  PROVE  /\ InStep(Append(box, m), c, rec, r)
         /\ Told(box, c, r) => Told(Append(box, m), c, r)
<1> DEFINE more == Append(box, m)
<1>1. /\ Len(more) = Len(box) + 1 /\ Len(box) \in Nat /\ more[Len(box) + 1] = m
      /\ \A i \in 1..Len(box) : i \in 1..Len(more) /\ more[i] = box[i]
      /\ \A i \in 1..Len(more) : i \in 1..Len(box) \/ i = Len(box) + 1
  OBVIOUS
<1>2. m # Finished(r)
  BY DEF Finished
<1>3. rec[r] \in Nat
  BY DEF Counts
<1> HIDE DEF more
<1>4. \A i \in 1..Len(more) : more[i].kind = "profile" => more[i].games[r] <= rec[r]
  BY <1>1, <1>3 DEF InStep
<1>5. ASSUME c.settled # r, NEW i \in 1..Len(more), more[i] = Finished(r)
      PROVE  /\ c.games[r] < rec[r]
             /\ \A j \in 1..Len(more) :
                  /\ j < i /\ more[j].kind = "profile"
                  /\ \A k \in 1..Len(more) : k <= j => more[k] # Finished(r)
                  => more[j].games[r] < rec[r]
  <2>1. i \in 1..Len(box) /\ box[i] = Finished(r)
    BY <1>1, <1>2, <1>5
  <2>2. /\ c.games[r] < rec[r]
        /\ \A j \in 1..Len(box) :
             /\ j < i /\ box[j].kind = "profile"
             /\ \A k \in 1..Len(box) : k <= j => box[k] # Finished(r)
             => box[j].games[r] < rec[r]
    BY <1>5, <2>1 DEF InStep
  <2>3. ASSUME NEW j \in 1..Len(more), j < i, more[j].kind = "profile",
               \A k \in 1..Len(more) : k <= j => more[k] # Finished(r)
        PROVE  more[j].games[r] < rec[r]
    <3>1. j \in 1..Len(box) /\ more[j] = box[j]
      BY <1>1, <2>1, <2>3
    <3>2. \A k \in 1..Len(box) : k <= j => box[k] # Finished(r)
      BY <1>1, <2>3
    <3> QED
      BY <2>2, <2>3, <3>1, <3>2
  <2> QED
    BY <2>2, <2>3
<1>6. InStep(more, c, rec, r)
  BY <1>4, <1>5 DEF InStep
<1>7. Told(box, c, r) => Told(more, c, r)
  BY <1>1 DEF Told
<1> QED
  BY <1>6, <1>7 DEF more

\* The client takes the first message of his only game.
LEMMA InStepReceives ==
  ASSUME NEW box \in Seq(Message), box # <<>>,
         NEW c \in [games : Counts, settled : Rooms \cup {NoRoom}],
         NEW rec \in Counts, NEW r \in Rooms, InStep(box, c, rec, r),
         Head(box).kind = "profile" \/ Head(box) = Finished(r)
  PROVE  /\ InStep(Tail(box), Settled(c, Head(box)), rec, r)
         /\ Told(box, c, r) => Told(Tail(box), Settled(c, Head(box)), r)
<1> DEFINE m    == Head(box)
           rest == Tail(box)
           d    == Settled(c, m)
<1>1. /\ Len(box) \in Nat \ {0} /\ Len(rest) = Len(box) - 1 /\ box[1] = m
      /\ \A i \in 1..Len(rest) : i + 1 \in 1..Len(box) /\ rest[i] = box[i + 1]
      /\ \A i \in 1..Len(box) : i = 1 \/ (i - 1 \in 1..Len(rest) /\ rest[i - 1] = box[i])
  OBVIOUS
<1>2. rec[r] \in Nat /\ c.games[r] \in Nat
  BY DEF Counts
<1>3. m \in Message
  BY <1>1
<1> HIDE DEF rest
<1>4. \A i \in 1..Len(rest) : rest[i].kind = "profile" => rest[i].games[r] <= rec[r]
  BY <1>1 DEF InStep
<1>5. CASE m.kind = "profile"
  <2>1. d.games = m.games /\ d.settled = c.settled
    BY <1>5 DEF Settled
  <2>2. d.games[r] <= rec[r]
    BY <1>1, <1>5, <2>1 DEF InStep
  <2>3. m # Finished(r)
    BY <1>5 DEF Finished
  <2> HIDE DEF m, d
  <2>4. ASSUME d.settled # r, NEW i \in 1..Len(rest), rest[i] = Finished(r)
        PROVE  /\ d.games[r] < rec[r]
               /\ \A j \in 1..Len(rest) :
                    /\ j < i /\ rest[j].kind = "profile"
                    /\ \A k \in 1..Len(rest) : k <= j => rest[k] # Finished(r)
                    => rest[j].games[r] < rec[r]
    <3>1. /\ c.games[r] < rec[r]
          /\ \A j \in 1..Len(box) :
               /\ j < i + 1 /\ box[j].kind = "profile"
               /\ \A k \in 1..Len(box) : k <= j => box[k] # Finished(r)
               => box[j].games[r] < rec[r]
      BY <1>1, <2>1, <2>4 DEF InStep
    <3>2. d.games[r] < rec[r]
      <4>1. 1 \in 1..Len(box) /\ 1 < i + 1 /\ box[1].kind = "profile"
        BY <1>1, <1>5
      <4>2. \A k \in 1..Len(box) : k <= 1 => box[k] # Finished(r)
        BY <1>1, <2>3
      <4>3. box[1].games[r] < rec[r]
        BY <3>1, <4>1, <4>2
      <4> QED
        BY <1>1, <2>1, <4>3
    <3>3. ASSUME NEW j \in 1..Len(rest), j < i, rest[j].kind = "profile",
                 \A k \in 1..Len(rest) : k <= j => rest[k] # Finished(r)
          PROVE  rest[j].games[r] < rec[r]
      <4>1. j + 1 \in 1..Len(box) /\ j + 1 < i + 1 /\ box[j + 1] = rest[j]
        BY <1>1, <3>3
      <4>2. ASSUME NEW k \in 1..Len(box), k <= j + 1 PROVE box[k] # Finished(r)
        <5>1. CASE k = 1
          BY <1>1, <2>3, <5>1
        <5>2. CASE k # 1
          <6>1. k - 1 \in 1..Len(rest) /\ k - 1 <= j /\ rest[k - 1] = box[k]
            BY <1>1, <4>2, <5>2
          <6> QED
            BY <3>3, <6>1
        <5> QED
          BY <5>1, <5>2
      <4> QED
        BY <3>1, <3>3, <4>1, <4>2
    <3> QED
      BY <3>2, <3>3
  <2>5. InStep(rest, d, rec, r)
    BY <1>4, <2>2, <2>4 DEF InStep
  <2>6. Told(box, c, r) => Told(rest, d, r)
    BY <1>1, <2>1, <2>3 DEF Told
  <2> QED
    BY <2>5, <2>6 DEF m, d, rest
<1>6. CASE m = Finished(r)
  <2>1. m.kind # "profile" /\ m.room = r
    BY <1>6 DEF Finished
  <2>2. d.settled = r
    BY <2>1 DEF Settled
  <2>3. d.games[r] <= rec[r]
    <3>1. CASE c.settled = r
      BY <2>1, <3>1 DEF Settled, InStep
    <3>2. CASE c.settled # r
      <4>1. c.games[r] < rec[r]
        BY <1>1, <1>6, <3>2 DEF InStep
      <4>2. d.games[r] = c.games[r] + 1
        BY <2>1, <3>2 DEF Settled, Counts
      <4> QED
        BY <1>2, <4>1, <4>2
    <3> QED
      BY <3>1, <3>2
  <2> HIDE DEF m, d
  <2>4. InStep(rest, d, rec, r) /\ Told(rest, d, r)
    BY <1>4, <2>2, <2>3 DEF InStep, Told
  <2> QED
    BY <2>4 DEF m, d, rest
<1> QED
  BY <1>5, <1>6

\* What InStepInv says of one user.
KeepsStep(u, r) ==
  /\ InStep(inbox[u], client[u], record[u], r)
  /\ sessionRoom[u] = r /\ phase[r] = "finished" => Told(inbox[u], client[u], r)

\* A user whose record, mail and client stay as they are.
LEMMA QuietUser ==
  ASSUME NEW u \in Users, NEW r \in Rooms, KeepsStep(u, r),
         record'[u] = record[u], inbox'[u] = inbox[u], client'[u] = client[u],
         sessionRoom'[u] = r /\ phase'[r] = "finished" =>
           sessionRoom[u] = r /\ phase[r] = "finished"
  PROVE  KeepsStep(u, r)'
  BY DEF KeepsStep

LEMMA OneMore ==
  ASSUME NEW rec \in Counts, NEW r \in Rooms
  PROVE  [rec EXCEPT ![r] = @ + 1] \in Counts /\ rec[r] < [rec EXCEPT ![r] = @ + 1][r]
  BY DEF Counts

\* A finished room's result is stored and shown.
LEMMA StoredUser ==
  ASSUME BookInvariant, NEW u \in Users, NEW r \in Rooms, KeepsStep(u, r), Only(record'[u], r),
         NEW q \in Rooms, record' = Persisted(q, "finished"), inbox' = Pushed(q, "finished"),
         client' = client, sessionRoom' = sessionRoom,
         phase'[r] = "finished" => phase[r] = "finished" \/ r = q
  PROVE  KeepsStep(u, r)'
<1>1. /\ record[u] \in Counts /\ inbox[u] \in Seq(Message) /\ client[u].games \in Counts
  BY DEF BookInvariant, BookType
<1>2. CASE u \notin Members[q]
  <2>1. record'[u] = record[u] /\ inbox'[u] = inbox[u]
    BY <1>2 DEF Persisted, Pushed
  <2>2. sessionRoom[u] # q
    BY <1>2, ScoreBookAssumption DEF BookInvariant, SessionsInv
  <2> QED
    BY <2>1, <2>2, QuietUser
<1>3. CASE u \in Members[q]
  <2>1. record'[u] = [record[u] EXCEPT ![q] = @ + 1]
    BY <1>3 DEF Persisted
  <2>2. q = r
    <3>1. record'[u][q] = record[u][q] + 1 /\ record[u][q] \in Nat
      BY <1>1, <2>1 DEF Counts
    <3>2. record'[u][q] # 0
      BY <3>1
    <3>3. \A p \in Rooms : p # r => record'[u][p] = 0
      BY DEF Only
    <3> QED
      BY <3>2, <3>3
  <2>3. record'[u] \in Counts /\ record[u][r] < record'[u][r]
    <3> DEFINE had   == record[u]
               grown == [had EXCEPT ![r] = @ + 1]
    <3>1. had \in Counts /\ record'[u] = grown
      BY <1>1, <2>1, <2>2
    <3> HIDE DEF had
    <3>2. grown \in Counts /\ had[r] < grown[r]
      BY <3>1, OneMore
    <3> QED
      BY <3>1, <3>2 DEF had
  <2>4. CASE inbox'[u] = Append(inbox[u], Finished(r))
    <3>1. InStep(inbox[u], client[u], record[u], r)
      BY DEF KeepsStep
    <3> DEFINE box   == inbox[u]
               mine  == client[u]
               had   == record[u]
               grown == record'[u]
    <3>2. box \in Seq(Message) /\ mine.games \in Counts /\ had \in Counts /\ grown \in Counts
      BY <1>1, <2>3
    <3>4. InStep(box, mine, had, r)
      BY <3>1
    <3>5. had[r] < grown[r]
      BY <2>3
    <3> HIDE DEF box, mine, had, grown
    <3>3. InStep(Append(box, Finished(r)), mine, grown, r) /\ Told(Append(box, Finished(r)), mine, r)
      BY <3>2, <3>4, <3>5, InStepFinished
    <3> QED
      BY <2>4, <3>3 DEF KeepsStep, box, mine, grown
  <2>5. CASE inbox'[u] = inbox[u] /\ inbox[u] # <<>> /\ Last(inbox[u]) = Finished(r)
    <3>1. Len(inbox[u]) \in 1..Len(inbox[u]) /\ inbox[u][Len(inbox[u])] = Finished(r)
      BY <1>1, <2>5 DEF Last
    <3>2. Told(inbox[u], client[u], r)
      BY <3>1 DEF Told
    <3>3. record[u][r] <= record'[u][r]
      BY <1>1, <2>3 DEF Counts
    <3>4. InStep(inbox[u], client[u], record'[u], r)
      BY <1>1, <2>3, <3>3, InStepGrows DEF KeepsStep
    <3> QED
      BY <2>5, <3>2, <3>4 DEF KeepsStep
  <2> QED
    BY <1>3, <2>2, <2>4, <2>5 DEF Pushed
<1> QED
  BY <1>2, <1>3

\* One user's mail or client changes, his record does not.
LEMMA MailUser ==
  ASSUME BookInvariant, NEW u \in Users, NEW r \in Rooms, KeepsStep(u, r), Only(record[u], r),
         \/ HandleLogin(u) \/ HandleUpdateNickname(u) \/ HandleReconnect(u) \/ ClientReceives(u)
  PROVE  KeepsStep(u, r)'
<1>1. /\ record[u] \in Counts /\ inbox[u] \in Seq(Message)
      /\ client[u] \in [games : Counts, settled : Rooms \cup {NoRoom}]
      /\ BoxBacked(inbox[u], record[u])
  BY DEF BookInvariant, BookType, ShownInv
<1>2. record' = record /\ phase' = phase
  BY DEF HandleLogin, HandleUpdateNickname, HandleReconnect, ClientReceives
<1>3. CASE HandleLogin(u)
  <2>1. /\ inbox'[u] = <<ProfileOf(u)>> /\ client'[u] = [games |-> NoGames, settled |-> NoRoom]
        /\ sessionRoom'[u] = r => phase[r] # "finished"
    BY <1>3, ScoreBookAssumption DEF HandleLogin, BookInvariant, BookType, RoundType
  <2>2. ProfileOf(u).kind = "profile" /\ ProfileOf(u).games = record[u]
    BY DEF ProfileOf
  <2>3. ProfileOf(u) # Finished(r) /\ NoGames[r] = 0 /\ record[u][r] \in Nat
    BY <1>1, <2>2 DEF Finished, NoGames, Counts
  <2> QED
    BY <1>2, <2>1, <2>2, <2>3 DEF KeepsStep, InStep
<1>4. CASE HandleUpdateNickname(u)
  <2>1. /\ inbox'[u] = Append(inbox[u], ProfileOf(u)) /\ client' = client
        /\ sessionRoom' = sessionRoom
    BY <1>4 DEF HandleUpdateNickname, BookInvariant, BookType
  <2>2. ProfileOf(u).kind = "profile" /\ ProfileOf(u).games = record[u]
    BY DEF ProfileOf
  <2> QED
    BY <1>1, <1>2, <2>1, <2>2, InStepProfile DEF KeepsStep
<1>5. CASE HandleReconnect(u)
  <2>1. /\ sessionRoom[u] \in Rooms /\ phase[sessionRoom[u]] = "finished"
        /\ inbox'[u] = Append(inbox[u], Finished(sessionRoom[u])) /\ client' = client
        /\ sessionRoom' = sessionRoom
    BY <1>5 DEF HandleReconnect, BookInvariant, BookType, RoundType
  <2>2. record[u][sessionRoom[u]] > 0
    <3>1. u \in Members[sessionRoom[u]]
      BY <2>1, ScoreBookAssumption DEF BookInvariant, SessionsInv
    <3> QED
      BY <2>1, <3>1 DEF BookInvariant, StoredInv
  <2>3. sessionRoom[u] = r
    BY <1>1, <2>1, <2>2 DEF Only, Counts
  <2>4. Told(inbox[u], client[u], r)
    BY <2>1, <2>3 DEF KeepsStep
  <2>5. InStep(inbox[u], client[u], record[u], r)
    BY DEF KeepsStep
  <2>6. client[u].games \in Counts
    BY <1>1
  <2>7. /\ InStep(Append(inbox[u], Finished(r)), client[u], record[u], r)
        /\ Told(Append(inbox[u], Finished(r)), client[u], r)
    BY <1>1, <2>4, <2>5, <2>6, InStepFinished
  <2> QED
    BY <1>2, <2>1, <2>3, <2>7 DEF KeepsStep
<1>6. CASE ClientReceives(u)
  <2>1. /\ inbox[u] # <<>> /\ inbox'[u] = Tail(inbox[u])
        /\ client'[u] = Settled(client[u], Head(inbox[u]))
        /\ sessionRoom' = sessionRoom
    BY <1>6 DEF ClientReceives, BookInvariant, BookType
  <2>2. Head(inbox[u]) \in Message /\ Backed(Head(inbox[u]), record[u])
    BY <1>1, <2>1, BoxTail
  <2>3. Head(inbox[u]).kind = "profile" \/ Head(inbox[u]) = Finished(r)
    BY <1>1, <2>2 DEF Message, Backed, Only, Counts, Finished
  <2> QED
    BY <1>1, <1>2, <2>1, <2>3, InStepReceives DEF KeepsStep
<1> QED
  BY <1>3, <1>4, <1>5, <1>6

LEMMA LostNext == lost \in Nat /\ [Next]_vars => lost' \in Nat
  BY DEF Next, vars, StartRound, GateTimesOut, TickFinishes, Act, LeaveBotRoom, FlushPresentations,
     Acknowledge, ReopenGamePage, HandleLogin, HandleUpdateNickname, HandleReconnect, LoseConnection,
     ClientReceives

LEMMA InStepNext == BookInvariant /\ InStepInv /\ [Next]_vars => InStepInv'
<1>0. InStepInv /\ [Next]_vars => lost' \in Nat
  BY LostNext DEF InStepInv
<1> SUFFICES ASSUME BookInvariant, InStepInv, [Next]_vars, lost' = 0,
                    NEW u \in Users, NEW r \in Rooms, Only(record'[u], r)
             PROVE  KeepsStep(u, r)'
  BY <1>0 DEF InStepInv, KeepsStep
<1>1. ASSUME lost' = lost, Only(record[u], r) PROVE KeepsStep(u, r)
  BY <1>1 DEF InStepInv, KeepsStep
<1>2. ASSUME NEW q \in Rooms, NEW ph PROVE Only(Persisted(q, ph)[u], r) => Only(record[u], r)
  <2>1. /\ record[u] \in Counts /\ Persisted(q, ph)[u] \in Counts
        /\ Grows(record[u], Persisted(q, ph)[u])
    BY PersistedAdds DEF BookInvariant, BookType
  <2> QED
    BY <2>1 DEF Only, Grows, Counts
<1>3. ASSUME NEW q \in Rooms, StartRound(q) PROVE KeepsStep(u, r)'
  <2>1. /\ record' = record /\ inbox' = inbox /\ client' = client /\ lost' = lost
        /\ sessionRoom'[u] = r /\ phase'[r] = "finished" =>
             sessionRoom[u] = r /\ phase[r] = "finished"
    BY <1>3 DEF StartRound
  <2> QED
    BY <1>1, <2>1, QuietUser
<1>4. ASSUME NEW q \in Rooms, NEW byBot \in BOOLEAN, NEW last \in BOOLEAN, Act(q, byBot, last)
      PROVE  KeepsStep(u, r)'
  <2>1. /\ record' = record /\ inbox' = inbox /\ client' = client /\ lost' = lost
        /\ sessionRoom' = sessionRoom /\ (phase'[r] = "finished" => phase[r] = "finished")
    BY <1>4 DEF Act, BookInvariant, RoundType
  <2> QED
    BY <1>1, <2>1, QuietUser
<1>5. ASSUME NEW q \in Rooms, NEW v \in Users, LeaveBotRoom(v, q) PROVE KeepsStep(u, r)'
  <2>1. /\ record' = record /\ inbox' = inbox /\ client' = client /\ lost' = lost
        /\ sessionRoom'[u] = r /\ phase'[r] = "finished" =>
             sessionRoom[u] = r /\ phase[r] = "finished"
    BY <1>5, ScoreBookAssumption DEF LeaveBotRoom, BookInvariant, RoundType
  <2> QED
    BY <1>1, <2>1, QuietUser
<1>6. ASSUME NEW q \in Rooms,
             GateTimesOut(q) \/ \E v \in Users : ReopenGamePage(v) \/ FlushPresentations(v, q)
      PROVE  KeepsStep(u, r)'
  <2>1. UNCHANGED <<record, inbox, client, lost, sessionRoom, phase>>
    BY <1>6 DEF GateTimesOut, ReopenGamePage, FlushPresentations
  <2> QED
    BY <1>1, <2>1, QuietUser
<1>7. ASSUME NEW q \in Rooms, TickFinishes(q) PROVE KeepsStep(u, r)'
  <2>1. /\ record' = Persisted(q, "finished") /\ inbox' = Pushed(q, "finished")
        /\ client' = client /\ sessionRoom' = sessionRoom /\ lost' = lost
        /\ phase'[r] = "finished" => phase[r] = "finished" \/ r = q
    BY <1>7 DEF TickFinishes, BookInvariant, RoundType
  <2> QED
    BY <1>1, <1>2, <2>1, StoredUser
<1>8. ASSUME NEW q \in Rooms, NEW v \in Users, Acknowledge(v, q) PROVE KeepsStep(u, r)'
  <2>1. client' = client /\ sessionRoom' = sessionRoom /\ lost' = lost /\ phase' = phase
    BY <1>8 DEF Acknowledge
  <2>2. CASE UNCHANGED <<record, inbox>>
    BY <1>1, <2>1, <2>2, QuietUser
  <2>3. CASE record' = Persisted(q, phase[q]) /\ inbox' = Pushed(q, phase[q])
    <3>1. CASE phase[q] = "finished"
      BY <1>1, <1>2, <2>1, <2>3, <3>1, StoredUser
    <3>2. CASE phase[q] # "finished"
      <4>1. record'[u] = record[u] /\ inbox'[u] = inbox[u]
        BY <2>3, <3>2 DEF Persisted, Pushed
      <4> QED
        BY <1>1, <2>1, <4>1, QuietUser
    <3> QED
      BY <3>1, <3>2
  <2> QED
    BY <1>8, <2>2, <2>3 DEF Acknowledge
<1>9. ASSUME NEW v \in Users,
             \/ HandleLogin(v) \/ HandleUpdateNickname(v) \/ HandleReconnect(v)
             \/ ClientReceives(v)
      PROVE  KeepsStep(u, r)'
  <2>1. record' = record /\ lost' = lost /\ phase' = phase
    BY <1>9 DEF HandleLogin, HandleUpdateNickname, HandleReconnect, ClientReceives
  <2>2. CASE v = u
    BY <1>1, <1>9, <2>1, <2>2, MailUser
  <2>3. CASE v # u
    <3>1. inbox'[u] = inbox[u] /\ client'[u] = client[u] /\ sessionRoom'[u] = sessionRoom[u]
      BY <1>9, <2>3 DEF HandleLogin, HandleUpdateNickname, HandleReconnect, ClientReceives,
         BookInvariant, BookType, RoundType
    <3> QED
      BY <1>1, <2>1, <3>1, QuietUser
  <2> QED
    BY <2>2, <2>3
<1>10. ASSUME NEW v \in Users, LoseConnection(v) PROVE FALSE
  BY <1>10 DEF LoseConnection, InStepInv
<1>11. CASE UNCHANGED vars
  BY <1>1, <1>11, QuietUser DEF vars
<1> QED
  BY <1>3, <1>4, <1>5, <1>6, <1>7, <1>8, <1>9, <1>10, <1>11 DEF Next

\* The client shows no game more often than its record holds it while it is the user's
\* only one and no message is lost, however often the result is stored and shown again
\* and whatever profiles come between (_syncProfileFromSnapshot).
THEOREM ClientNeverAhead == Spec => []NeverAheadOfRecord
<1>1. Init => InStepInv
  BY DEF Init, InStepInv, InStep, NoGames
<1>2. InStepInv => NeverAheadOfRecord
  BY DEF InStepInv, NeverAheadOfRecord, Only, InStep
<1> QED
  BY <1>1, <1>2, InStepNext, BookSafe, PTL DEF Spec

=============================================================================
