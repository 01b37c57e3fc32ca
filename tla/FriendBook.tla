----------------------------- MODULE FriendBook ----------------------------
(***************************************************************************)
(* Friends and friend requests on disk (HandleAddFriend,                   *)
(* HandleRespondFriendRequest, HandleDeleteFriend,                         *)
(* file_friend_request_repository.cpp), over the files and the fault model *)
(* of UserStore, whose handlers run in between.                            *)
(*                                                                         *)
(* The inbox files are written as well and never decide anything: a load   *)
(* reads the requests themselves.                                          *)
(***************************************************************************)
EXTENDS UserStore

\* Mutant of Views: temporary files are left alone here as well.
ViewsOfDisk(q) == {disk[q]} \ {NoFile, Gone}

\* What a load makes of a request's files: it goes through every file of the directory,
\* the temporary ones among them, and the one it comes to last stands
\* (LoadStructuredLocked). A load of the profiles opens no temporary file.
Views(q) == {disk[q], temp[q]} \ {NoFile, Gone, Torn}

AllViews == [Requests -> (UNION {Views(q) : q \in Requests}) \cup {NoFile}]

\* One reading of the whole directory.
Readings ==
  {v \in AllViews : \A q \in Requests : IF Views(q) = {} THEN v[q] = NoFile ELSE v[q] \in Views(q)}

Pending(v, q) == v[q] # NoFile /\ v[q].status = "PENDING"
Between(r, a, b) == {r.requester, r.receiver} = {a, b}

\* Mutant of PendingBetween: only what the user himself has sent.
PendingFrom(v, a, b) == \E q \in Requests : Pending(v, q) /\ v[q].requester = a /\ v[q].receiver = b

\* FindPendingBetween, in either direction.
PendingBetween(v, a, b) == \E q \in Requests : Pending(v, q) /\ Between(v[q], a, b)

-----------------------------------------------------------------------------
\* A user may be one without a profile, the default user whom a load built.
IsUser(u) == IsThere(u) \/ Missing(u)
FriendsOf(u) == IF IsThere(u) THEN disk[u].friends ELSE {}

\* HandleAddFriend, of a by b: refused if they are friends on a's list or a request
\* between them is pending. GenerateId gives the request an id no file has.
HandleAddFriend(a, b) ==
  /\ Begin
  /\ a # b /\ IsUser(a) /\ IsUser(b)
  /\ b \notin FriendsOf(a)
  /\ \E v \in Readings : ~PendingBetween(v, a, b)
  /\ \E q \in Requests :
       /\ disk[q] = NoFile /\ temp[q] = NoFile
       /\ todo' = Write(q, [requester |-> a, receiver |-> b, status |-> "PENDING"]) \o Answer(q)
  /\ UNCHANGED <<disk, temp, answered, books, deleted, crashes, changes>>

SaveFriends(u, friends) == Save(u, [disk[u] EXCEPT !.friends = friends])

\* Mutant of Linked: both names go on both lists.
LinkedBoth(r) ==
  LET both == {r.requester, r.receiver} IN
  SaveFriends(r.requester, FriendsOf(r.requester) \cup both)
    \o SaveFriends(r.receiver, FriendsOf(r.receiver) \cup both)

\* Mutant of Linked: a new friend replaces the ones before.
LinkedAnew(r) == SaveFriends(r.requester, {r.receiver}) \o SaveFriends(r.receiver, {r.requester})

\* LinkFriends and the two UpdateUser calls that follow it.
Linked(r) ==
  SaveFriends(r.requester, FriendsOf(r.requester) \cup {r.receiver})
    \o SaveFriends(r.receiver, FriendsOf(r.receiver) \cup {r.requester})

Decided(v, q, status) == Write(q, [v[q] EXCEPT !.status = status])

\* The other pending requests between the two become history, status UNSPECIFIED.
Siblings(v, q) ==
  {s \in Requests \ {q} : Pending(v, s) /\ Between(v[s], v[q].requester, v[q].receiver)}

SiblingWrites(v, q) ==
  {FlattenSeq([i \in DOMAIN order |-> Decided(v, order[i], "UNSPECIFIED")]) :
     order \in SetToSeqs(Siblings(v, q))}

\* Mutant of AcceptWrites: the request is decided before the two are friends.
AcceptWritesFirst(v, q) == Decided(v, q, "ACCEPTED") \o Linked(v[q])

\* The order of the writes when a request is accepted.
AcceptWrites(v, q) == Linked(v[q]) \o Decided(v, q, "ACCEPTED")

\* HandleRespondFriendRequest, by the receiver, and the siblings after the request.
HandleRespondFriendRequest(q, accept) ==
  /\ Begin
  /\ \E v \in Readings :
       /\ Pending(v, q)
       /\ IsThere(v[q].receiver)
       /\ accept => IsThere(v[q].requester)
       /\ \E siblings \in SiblingWrites(v, q) :
            todo' = (IF accept THEN AcceptWrites(v, q) ELSE Decided(v, q, "REJECTED"))
                      \o siblings \o Answer(q)
  /\ UNCHANGED <<disk, temp, answered, books, deleted, crashes, changes>>

\* HandleDeleteFriend, by a: UnlinkFriends, then both profiles.
HandleDeleteFriend(a, b) ==
  /\ Begin
  /\ changes < MaxChanges
  /\ IsThere(a) /\ IsThere(b)
  /\ b \in FriendsOf(a)
  /\ todo' = SaveFriends(a, FriendsOf(a) \ {b}) \o SaveFriends(b, FriendsOf(b) \ {a})
  /\ deleted' = deleted \cup {<<a, b>>}
  /\ changes' = changes + 1
  /\ UNCHANGED <<disk, temp, answered, books, crashes>>

Next ==
  \/ StoreNext
  \/ \E a, b \in Users : HandleAddFriend(a, b) \/ HandleDeleteFriend(a, b)
  \/ \E q \in Requests, accept \in BOOLEAN : HandleRespondFriendRequest(q, accept)

Spec == Init /\ [][Next]_vars

-----------------------------------------------------------------------------
Profile == [account : Accounts, friends : SUBSET Users, coins : Int]
Request == [requester : Users, receiver : Users,
            status : {"PENDING", "ACCEPTED", "REJECTED", "UNSPECIFIED"}]

\* The marks of a file that is not there, or not whole, are nobody's contents.
ASSUME MarksAssumption ==
  {NoFile, Gone, Torn} \cap (Profile \cup Request \cup Nat \cup {{}}) = {}

TypeOK ==
  /\ \A u \in Profiles : disk[u] \in Profile /\ u \notin disk[u].friends
  /\ \A q \in Requests : Views(q) \subseteq Request
  /\ disk[Index] \in {NoFile, Gone, {}}
  /\ disk[Likes] \in {NoFile, Gone} \cup Nat
  /\ answered \subseteq Accounts \cup Requests
  /\ deleted \subseteq Users \X Users

\* No request reads as accepted before both profiles hold the friendship, whatever the
\* step at which the server stops: the links are written first, so an answer is never
\* ahead of what it promises (HandleRespondFriendRequest 1368-1389).
AcceptedOnlyWhenLinked ==
  [][\A q \in Requests : \A r \in Views(q)' :
       r.status = "ACCEPTED" /\ r \notin Views(q) =>
         r.receiver \in FriendsOf(r.requester) /\ r.requester \in FriendsOf(r.receiver)]_vars

\* A friendship that a crash left on one side is never behind an accepted request: the
\* request still reads as pending, and to accept it again links both (LinkFriends adds
\* what is missing), unless the receiver has rejected it since. The other way to such a
\* friendship is a deletion, written for the one who deletes first: it is the other one
\* who keeps him, and nothing but another request mends it (HandleDeleteFriend 1455-1458).
OneSidedIsUnaccepted ==
  todo = <<>> =>
    \A a, b \in Profiles :
      b \in disk[a].friends /\ a \notin disk[b].friends =>
        \/ <<b, a>> \in deleted
        \/ \E q \in Requests : \E r \in Views(q) :
             r.status \in {"PENDING", "REJECTED"} /\ Between(r, a, b)

\* Two users never have two requests open between them, be it one from each: a request
\* that waits keeps the other side from sending its own, and a decision leaves no
\* sibling pending. This is without crashes, after which a request may read both ways.
OnePendingBetween ==
  todo = <<>> /\ crashes = 0 => \A q, s \in Requests : \A r \in Views(q), t \in Views(s) :
    q # s /\ r.status = "PENDING" /\ t.status = "PENDING" => ~Between(r, t.requester, t.receiver)

\* A request that was answered as sent is still there after the server stopped once in
\* any write: where the file is removed already, its temporary file is read.
RequestSurvives ==
  todo = <<>> => \A q \in answered \cap Requests : Views(q) # {}

\* A user who was told that he is registered is found again
\* (tests/friend_center_service_test.cpp:758, 'reloaded user should be found by account').
ProfileSurvives ==
  todo = <<>> => \A account \in answered \cap Accounts : ProfileOf(account) # {}
=============================================================================
