----------------------------- MODULE UserStore -----------------------------
(***************************************************************************)
(* What the server keeps in files: a profile per user, the account index,  *)
(* the counter of support likes and a file per friend request              *)
(* (file_user_repository.cpp, file_system_repository.cpp), with the        *)
(* handlers of accounts, results and likes.  Those of friends are in       *)
(* FriendBook, which extends this module.                                  *)
(*                                                                         *)
(* A handler reads what it needs from the files, writes one file after the *)
(* other and answers, all under GameService::mutex_.  A write replaces a   *)
(* file by a temporary one (WriteTextFileAtomically).  The server may stop *)
(* between any two steps; a restarted server knows what the files say.     *)
(*                                                                         *)
(* Names, passwords and counts of games are left out of a profile: no step *)
(* here depends on them, and to change one is to write the profile again.  *)
(* The temporary files of requests are read back (FriendBook), the other   *)
(* ones never are and are left out.  Account names hold no '|', which      *)
(* Escape would turn into '/'.                                             *)
(***************************************************************************)
EXTENDS Integers, Sequences, SequencesExt, FiniteSets

CONSTANTS
  Users,           \* ids GenerateId may give to a user
  Accounts,        \* account names
  DefaultAccount,  \* "player1", the account EnsureDefaultUsersLocked provides
  Requests,        \* ids of friend requests
  Results,         \* the scores a finished room may bring its human players, by seat
  MaxCrashes,      \* bound: crashes
  MaxChanges,      \* bound: results, likes that are no reward, and deleted friendships
  Index, Likes,    \* the files users_by_account.v1 and system_state.v1
  NoFile,          \* there never was such a file
  Gone,            \* the file has been removed
  Torn             \* a temporary file that was opened for writing, and nothing more

ASSUME UserStoreAssumption ==
  /\ IsFiniteSet(Users) /\ IsFiniteSet(Requests)
  /\ Users \cap Requests = {} /\ {Index, Likes} \cap (Users \cup Requests) = {}
  /\ Accounts \cap Requests = {}
  /\ Index # Likes /\ NoFile # Gone /\ Torn \notin {NoFile, Gone}
  /\ DefaultAccount \in Accounts
  /\ Results \subseteq Seq(Int)
  /\ {MaxCrashes, MaxChanges} \subseteq Nat

Files == Users \cup Requests \cup {Index, Likes}

VARIABLES
  disk,      \* each file: a profile, a request's record, the likes
  temp,      \* the temporary file of a request, path + ".tmp"
  todo,      \* what the running handler has still to do; <<>> if none runs
  answered,  \* accounts and requests whose user was told that they are there
  books,     \* history: the coins and likes there are by what the handlers did
  deleted,   \* history: <<a, b>> once a has deleted his friend b
  crashes, changes  \* counted for the bounds

vars == <<disk, temp, todo, answered, books, deleted, crashes, changes>>

IsThere(f) == disk[f] \notin {NoFile, Gone}
Profiles == {u \in Users : IsThere(u)}
ProfileOf(account) == {u \in Profiles : disk[u].account = account}

\* An id that GenerateId may give: no profile and no request has it.
Fresh(u) ==
  /\ disk[u] = NoFile
  /\ \A q \in Requests : \A r \in {disk[q], temp[q]} \ {NoFile, Gone, Torn} :
       u \notin {r.requester, r.receiver}

\* SaveNewUser and BuildDemoUser.
InitialCoins == 100
NewUser(account) == [account |-> account, friends |-> {}, coins |-> InitialCoins]

\* The first start, in an empty directory.
Init ==
  /\ disk = [f \in Files |-> NoFile] /\ temp = [q \in Requests |-> NoFile]
  /\ todo = <<>> /\ answered = {}
  /\ books = [coins |-> [u \in Users |-> 0], likes |-> 0]
  /\ deleted = {} /\ crashes = 0 /\ changes = 0

-----------------------------------------------------------------------------
Step(op, f, content) == [op |-> op, file |-> f, content |-> content]

\* WriteTextFileAtomically, step by step.
Write(f, content) ==
  (IF f \in Requests THEN <<Step("open", f, content), Step("write", f, content)>> ELSE <<>>)
    \o <<Step("remove", f, content), Step("rename", f, content)>>

\* FlushUserLocked and FlushAccountIndexLocked, the writes of SaveNewUser and UpdateUser.
Save(u, profile) == Write(u, profile) \o Write(Index, {})

\* The answer comes after the last file.
Answer(what) == <<Step("answer", what, NoFile)>>

FileStep ==
  /\ todo # <<>>
  /\ LET s == Head(todo) IN
     /\ temp' = CASE s.op = "open"  -> [temp EXCEPT ![s.file] = Torn]
                  [] s.op = "write" -> [temp EXCEPT ![s.file] = s.content]
                  [] s.op = "rename" /\ s.file \in Requests -> [temp EXCEPT ![s.file] = NoFile]
                  [] OTHER -> temp
     /\ disk' = CASE s.op = "remove" /\ IsThere(s.file) -> [disk EXCEPT ![s.file] = Gone]
                  [] s.op = "rename" -> [disk EXCEPT ![s.file] = s.content]
                  [] OTHER -> disk
     /\ answered' = IF s.op = "answer" THEN answered \cup {s.file} ELSE answered
  /\ todo' = Tail(todo)
  /\ UNCHANGED <<books, deleted, crashes, changes>>

\* FileSystemRepository::LoadLocked: no readable counter is no like.
LikesOn(d) == IF d[Likes] \in {NoFile, Gone} THEN 0 ELSE d[Likes]

\* The process dies in a handler. What it has written is there, the rest never comes,
\* and the books go by what is there.
Crash ==
  /\ todo # <<>>
  /\ crashes < MaxCrashes
  /\ todo' = <<>>
  /\ crashes' = crashes + 1
  /\ books' = [coins |-> [u \in Users |-> IF IsThere(u) THEN disk[u].coins ELSE 0],
               likes |-> LikesOn(disk)]
  /\ UNCHANGED <<disk, temp, answered, deleted, changes>>

-----------------------------------------------------------------------------
\* Mutant of Missing: the default user is built at every load that writes.
MissingAlways(u) == Fresh(u)

\* EnsureDefaultUsersLocked builds the default user, under a new id, if no profile has his
\* account; he is in memory for this load, and only FlushAllLocked writes him.
Missing(u) == ProfileOf(DefaultAccount) = {} /\ Fresh(u)

\* The profiles as a load has them, new ones included.
Loaded(new) ==
  [u \in Profiles \cup new |-> IF u \in new THEN NewUser(DefaultAccount) ELSE disk[u]]

\* LoadLocked where there is no account index: all profiles are written again, in some
\* order, and then the index. Every handler that needs a user begins with a load, so
\* the first one to come does this; to log in needs nothing else of the files.
LoadLocked ==
  /\ todo = <<>>
  /\ ~IsThere(Index)
  /\ \E new \in SUBSET {u \in Users : Missing(u)} :
       /\ Cardinality(new) <= 1
       /\ new = {} => ProfileOf(DefaultAccount) # {}
       /\ \E order \in SetToSeqs(Profiles \cup new) :
            todo' = FlattenSeq([i \in DOMAIN order |-> Write(order[i], Loaded(new)[order[i]])])
                      \o Write(Index, {})
       /\ books' = [books EXCEPT !.coins = [u \in Users |->
                      IF u \in new THEN InitialCoins ELSE @[u]]]
  /\ UNCHANGED <<disk, temp, answered, deleted, crashes, changes>>

\* A handler begins, with the index there (LoadLocked).
Begin == todo = <<>> /\ IsThere(Index)

\* Mutant of Taken: an account is as free as its user was not answered.
TakenIfAnswered(account) == account \in answered

\* FindByAccount: the default account is there at every load.
Taken(account) == account = DefaultAccount \/ ProfileOf(account) # {}

\* HandleRegister.
HandleRegister(account) ==
  /\ Begin
  /\ ~Taken(account)
  /\ \E u \in Users :
       /\ Fresh(u)
       /\ todo' = Save(u, NewUser(account)) \o Answer(account)
       /\ books' = [books EXCEPT !.coins[u] = InitialCoins]
  /\ UNCHANGED <<disk, temp, answered, deleted, crashes, changes>>

\* HandleChangePassword, HandleUpdateNickname, and HandleResetPassword of an account with
\* a profile: the same profile, by what is modelled of it, is written again.
HandleChangeOfUser(u) ==
  /\ Begin
  /\ IsThere(u)
  /\ todo' = Save(u, disk[u])
  /\ UNCHANGED <<disk, temp, answered, books, deleted, crashes, changes>>

\* HandleResetPassword of the default account while its profile is missing: the user the
\* load built is written.
HandleResetPasswordOfDefault(u) ==
  /\ Begin
  /\ Missing(u)
  /\ todo' = Save(u, NewUser(DefaultAccount))
  /\ books' = [books EXCEPT !.coins[u] = InitialCoins]
  /\ UNCHANGED <<disk, temp, answered, deleted, crashes, changes>>

-----------------------------------------------------------------------------
\* Mutant of Paid: the score is the user's new total.
PaidAnew(u, score) == [disk[u] EXCEPT !.coins = score]

\* total_score += score.
Paid(u, score) == [disk[u] EXCEPT !.coins = @ + score]

Booked(pays) ==
  [u \in Users |-> books.coins[u] + IF u \in DOMAIN pays /\ IsThere(u) THEN pays[u] ELSE 0]

\* PersistFinishedRoomScores: one player after the other. Who has no profile, the default
\* user of a load, is skipped.
PersistFinishedRoomScores(players, scores) ==
  /\ Begin
  /\ \A u \in Range(players) : IsThere(u) \/ Missing(u)
  /\ changes < MaxChanges
  /\ todo' = FlattenSeq([i \in DOMAIN players |->
       IF IsThere(players[i]) THEN Save(players[i], Paid(players[i], scores[i])) ELSE <<>>])
  /\ books' = [books EXCEPT !.coins =
       Booked([u \in Range(players) |-> scores[CHOOSE i \in DOMAIN players : players[i] = u]])]
  /\ changes' = changes + 1
  /\ UNCHANGED <<disk, temp, answered, deleted, crashes>>

\* LoadLocked of the likes writes a counter that is not readable; UpdateSupportLikeCount.
LikesLoaded == IF IsThere(Likes) THEN <<>> ELSE Write(Likes, 0)
OneLikeMore == LikesLoaded \o Write(Likes, LikesOn(disk) + 1)

\* HandleFetchSystemStats, where the counter is not readable.
HandleFetchSystemStats ==
  /\ todo = <<>>
  /\ ~IsThere(Likes)
  /\ todo' = LikesLoaded
  /\ UNCHANGED <<disk, temp, answered, books, deleted, crashes, changes>>

\* HandleSubmitSupportLike: of anybody, no session is asked for.
HandleSubmitSupportLike ==
  /\ todo = <<>>
  /\ changes < MaxChanges
  /\ todo' = OneLikeMore
  /\ books' = [books EXCEPT !.likes = @ + 1]
  /\ changes' = changes + 1
  /\ UNCHANGED <<disk, temp, answered, deleted, crashes>>

\* HandleClaimSupportLikeReward: for a user in debt, the coins first and then the like.
RewardCoins == 50

HandleClaimSupportLikeReward(u) ==
  /\ Begin
  /\ IsThere(u)
  /\ disk[u].coins < 0
  /\ todo' = Save(u, Paid(u, RewardCoins)) \o OneLikeMore
  /\ books' = [coins |-> [books.coins EXCEPT ![u] = @ + RewardCoins], likes |-> books.likes + 1]
  /\ UNCHANGED <<disk, temp, answered, deleted, crashes, changes>>

\* The players of a room in the order of their seats, no two the same.
Seatings(n) == {p \in [1 .. n -> Users] : \A i, j \in 1 .. n : p[i] = p[j] => i = j}

StoreNext ==
  \/ FileStep \/ Crash \/ LoadLocked
  \/ HandleFetchSystemStats \/ HandleSubmitSupportLike
  \/ \E account \in Accounts : HandleRegister(account)
  \/ \E u \in Users :
       \/ HandleChangeOfUser(u) \/ HandleResetPasswordOfDefault(u)
       \/ HandleClaimSupportLikeReward(u)
  \/ \E scores \in Results : \E players \in Seatings(Len(scores)) :
       PersistFinishedRoomScores(players, scores)

-----------------------------------------------------------------------------
\* An account is one user: no two profiles have it, and whoever was told that he is
\* registered has a profile, but for one lost in each crash, wherever it happened: in
\* his registration's own writes, in those of a default user built anew by a load, or
\* while a load wrote all profiles again (HandleRegister 690-699, LoadLocked 362-365).
AccountsKept ==
  todo = <<>> =>
    /\ \A u, v \in Profiles : disk[u].account = disk[v].account => u = v
    /\ Cardinality({a \in answered \cap Accounts : ProfileOf(a) = {}}) <= crashes

Coming(f, Is(_)) == \E i \in DOMAIN todo :
  todo[i].op = "rename" /\ todo[i].file = f /\ Is(todo[i].content)

\* Nothing a handler booked is lost to a later writer of the same profile, be it about
\* friends, a password or a whole load: every profile there is holds the coins of its
\* starting credit, results and rewards, and the counter the likes, or the write that
\* brings them is still to come (UpdateUser, UpdateSupportLikeCount).
BooksBalance ==
  /\ \A u \in Profiles :
       \/ disk[u].coins = books.coins[u]
       \/ Coming(u, LAMBDA p : p.coins = books.coins[u])
  /\ \/ LikesOn(disk) = books.likes
     \/ Coming(Likes, LAMBDA n : n = books.likes)
=============================================================================
