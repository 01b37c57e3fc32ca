-------------------------- MODULE FriendBookProofs --------------------------
(***************************************************************************)
(* What FriendBook and UserStore keep on disk, for any number of users,    *)
(* accounts, requests and crashes.                                         *)
(*                                                                         *)
(* A handler is a row of file steps.  The proofs go in three stages:       *)
(*   - what the rows are: FlattenSeq puts plans in a row, and each handler *)
(*     replaces whole files by contents of their kind (Rows, Does, Wrote); *)
(*   - what one file step does, whoever asked for it (FileStepDoes,        *)
(*     DiskStep, RequestStep);                                             *)
(*   - each property from an invariant that says of a row what it still    *)
(*     has to do: CoinsInv and LikesInv of the last writer of a file,      *)
(*     ClaimsInv, AnswerInv and LossInv of accounts, SurviveInv,           *)
(*     PendingInv and LinksInv of requests, FriendsInv of friendships.     *)
(***************************************************************************)
EXTENDS FriendBook, FiniteSetTheorems, SequenceTheorems, WellFoundedInduction, TLAPS

-----------------------------------------------------------------------------
(* Sequences: what FlattenSeq, which puts them in a row, makes of them.    *)

Below == {p \in Nat \X Nat : p[1] < p[2]}

LEMMA BelowIsWellFounded == IsWellFoundedOn(Below, Nat)
<1>1. OpToRel(<, Nat) = Below
  BY DEF OpToRel, Below
<1> QED
  BY <1>1, NatLessThanWellFounded

\* A set of natural numbers with a member has a least one.
LEMMA LeastNatural ==
  ASSUME NEW T \in SUBSET Nat, T # {}
  PROVE  \E n \in T : \A m \in T : n <= m
<1>1. PICK n \in T : \A m \in T : <<m, n>> \notin Below
  BY BelowIsWellFounded, WFMin, Zenon
<1>2. ASSUME NEW m \in T PROVE n <= m
  <2>1. <<m, n>> \in Nat \X Nat /\ <<m, n>>[1] = m /\ <<m, n>>[2] = n
    OBVIOUS
  <2>2. ~(m < n)
    BY <1>1, <2>1 DEF Below
  <2> QED
    BY <2>2
<1> QED
  BY <1>2

\* The function by which FlattenSeq puts the first n sequences in a row.
FlatTo(ss, n, f) == f = [i \in 1..n |-> IF i = 1 THEN ss[i] ELSE f[i-1] \o ss[i]]

LEMMA FlatNext ==
  ASSUME NEW ss, NEW n \in Nat, n # 0, NEW f, FlatTo(ss, n - 1, f)
  PROVE  \E g : FlatTo(ss, n, g)
<1> DEFINE last == IF n = 1 THEN ss[n] ELSE f[n-1] \o ss[n]
           g == [i \in 1..n |-> IF i = n THEN last ELSE f[i]]
<1> HIDE DEF last
<1>1. \A i \in 1..(n-1) : f[i] = IF i = 1 THEN ss[i] ELSE f[i-1] \o ss[i]
  BY Zenon DEF FlatTo
<1>2. ASSUME NEW i \in 1..n PROVE g[i] = IF i = 1 THEN ss[i] ELSE g[i-1] \o ss[i]
  <2>1. CASE i = n
    <3>1. n # 1 => n - 1 \in 1..n /\ n - 1 # n
      OBVIOUS
    <3>2. g[n] = last /\ (n # 1 => g[n-1] = f[n-1])
      BY <3>1
    <3> QED
      BY <2>1, <3>2 DEF last
  <2>2. CASE i # n
    <3>1. i \in 1..(n-1) /\ (i # 1 => i - 1 \in 1..n /\ i - 1 # n)
      BY <2>2
    <3>2. g[i] = f[i] /\ (i # 1 => g[i-1] = f[i-1])
      BY <2>2, <3>1
    <3>3. f[i] = IF i = 1 THEN ss[i] ELSE f[i-1] \o ss[i]
      BY <1>1, <3>1
    <3> HIDE DEF g
    <3> QED
      BY <3>2, <3>3
  <2> QED
    BY <2>1, <2>2
<1>3. g = [i \in 1..n |-> g[i]]
  OBVIOUS
<1> HIDE DEF g
<1>4. FlatTo(ss, n, g)
  BY <1>2, <1>3 DEF FlatTo
<1> QED
  BY <1>4

LEMMA FlatExists ==
  ASSUME NEW ss, NEW n \in Nat
  PROVE  \E f : FlatTo(ss, n, f)
<1> DEFINE T == {m \in Nat : ~ \E f : FlatTo(ss, m, f)}
<1>1. ASSUME NEW m \in T, \A k \in T : m <= k PROVE FALSE
  <2>1. m # 0
    <3>1. FlatTo(ss, 0, [i \in 1..0 |-> <<>>])
      BY DEF FlatTo
    <3> QED
      BY <3>1
  <2>2. m - 1 \in Nat /\ ~(m <= m - 1)
    BY <2>1
  <2>3. m - 1 \notin T
    BY <1>1, <2>2
  <2>4. PICK f : FlatTo(ss, m - 1, f)
    BY <2>2, <2>3
  <2>5. \E g : FlatTo(ss, m, g)
    BY <2>1, <2>4, FlatNext
  <2> QED
    BY <2>5
<1>2. T \in SUBSET Nat
  OBVIOUS
<1> HIDE DEF T
<1>3. T = {}
  BY <1>1, <1>2, LeastNatural
<1> USE DEF T
<1> QED
  BY <1>3

LEMMA FlattenSeqFlat ==
  ASSUME NEW S, NEW ss \in Seq(S), ss # <<>>
  PROVE  \E f : FlatTo(ss, Len(ss), f) /\ FlattenSeq(ss) = f[Len(ss)]
<1> DEFINE flatten == CHOOSE f : FlatTo(ss, Len(ss), f)
<1>0. Len(ss) \in Nat /\ Len(ss) # 0
  OBVIOUS
<1>1. FlatTo(ss, Len(ss), flatten)
  BY <1>0, FlatExists
<1>2. FlattenSeq(ss) = flatten[Len(ss)]
  BY <1>0, SMT DEF FlatTo, FlattenSeq
<1> QED
  BY <1>1, <1>2

\* What holds of the empty sequence, of every one in the row and, with any two, of the
\* one behind the other, holds of the whole row.
LEMMA FlattenSeqIn ==
  ASSUME NEW W, <<>> \in W, \A s, t \in W : s \o t \in W, NEW ss \in Seq(W)
  PROVE  FlattenSeq(ss) \in W
<1>1. CASE ss = <<>>
  <2>1. FlattenSeq(ss) = ss
    BY <1>1, SMT DEF FlattenSeq
  <2> QED
    BY <1>1, <2>1
<1>2. CASE ss # <<>>
  <2>1. PICK f : FlatTo(ss, Len(ss), f) /\ FlattenSeq(ss) = f[Len(ss)]
    BY <1>2, FlattenSeqFlat
  <2>2. Len(ss) \in Nat \ {0} /\ \A i \in 1..Len(ss) : ss[i] \in W
    BY <1>2
  <2>3. \A i \in 1..Len(ss) : f[i] = IF i = 1 THEN ss[i] ELSE f[i-1] \o ss[i]
    BY <2>1, Zenon DEF FlatTo
  <2> DEFINE T == {i \in Nat : i \in 1..Len(ss) /\ f[i] \notin W}
  <2>4. ASSUME NEW i \in T, \A j \in T : i <= j PROVE FALSE
    <3>1. i \in 1..Len(ss) /\ f[i] \notin W
      OBVIOUS
    <3>2. i # 1
      BY <2>2, <2>3, <3>1
    <3>3. i - 1 \in Nat /\ i - 1 \in 1..Len(ss) /\ ~(i <= i - 1)
      BY <2>2, <3>1, <3>2
    <3>4. f[i-1] \in W
      BY <2>4, <3>3
    <3>5. f[i] = f[i-1] \o ss[i]
      BY <2>3, <3>1, <3>2
    <3> QED
      BY <2>2, <3>1, <3>4, <3>5
  <2>5. T \in SUBSET Nat
    OBVIOUS
  <2> HIDE DEF T
  <2>6. T = {}
    BY <2>4, <2>5, LeastNatural
  <2> USE DEF T
  <2>7. Len(ss) \in Nat /\ Len(ss) \in 1..Len(ss)
    BY <2>2
  <2> QED
    BY <2>1, <2>6, <2>7
<1> QED
  BY <1>1, <1>2

LEMMA RangeOfRow ==
  ASSUME NEW S, NEW s \in Seq(S), NEW t \in Seq(S)
  PROVE  Range(s \o t) = Range(s) \cup Range(t)
<1> DEFINE st == s \o t
<1>1. /\ Len(s) \in Nat /\ Len(t) \in Nat /\ st \in Seq(S) /\ Len(st) = Len(s) + Len(t)
      /\ DOMAIN s = 1..Len(s) /\ DOMAIN t = 1..Len(t) /\ DOMAIN st = 1..Len(st)
  OBVIOUS
<1>2. \A i \in 1..Len(s) : i \in 1..Len(st) /\ st[i] = s[i]
  BY <1>1
<1>3. \A i \in 1..Len(t) : i + Len(s) \in 1..Len(st) /\ st[i + Len(s)] = t[i]
  BY <1>1
<1>4. \A i \in 1..Len(st) : i \in 1..Len(s) \/ \E j \in 1..Len(t) : i = j + Len(s)
  <2>1. ASSUME NEW i \in 1..Len(st), i \notin 1..Len(s)
        PROVE  i - Len(s) \in 1..Len(t) /\ i = (i - Len(s)) + Len(s)
    BY <1>1, <2>1
  <2> QED
    BY <2>1
<1> HIDE DEF st
<1>5. Range(st) \subseteq Range(s) \cup Range(t)
  <2> SUFFICES ASSUME NEW i \in 1..Len(st) PROVE st[i] \in Range(s) \cup Range(t)
    BY <1>1 DEF Range
  <2>1. CASE i \in 1..Len(s)
    BY <1>1, <1>2, <2>1 DEF Range
  <2>2. CASE \E j \in 1..Len(t) : i = j + Len(s)
    BY <1>1, <1>3, <2>2 DEF Range
  <2> QED
    BY <1>4, <2>1, <2>2
<1>6. Range(s) \subseteq Range(st) /\ Range(t) \subseteq Range(st)
  BY <1>1, <1>2, <1>3 DEF Range
<1> QED
  BY <1>5, <1>6 DEF st

\* The row has what its sequences have, and nothing else.
LEMMA FlattenSeqRange ==
  ASSUME NEW S, NEW ss \in Seq(Seq(S))
  PROVE  /\ FlattenSeq(ss) \in Seq(S)
         /\ \A x \in Range(FlattenSeq(ss)) : \E i \in 1..Len(ss) : x \in Range(ss[i])
         /\ \A i \in 1..Len(ss) : Range(ss[i]) \subseteq Range(FlattenSeq(ss))
<1>1. FlattenSeq(ss) \in Seq(S)
  <2>1. <<>> \in Seq(S) /\ \A s, t \in Seq(S) : s \o t \in Seq(S)
    OBVIOUS
  <2> QED
    BY <2>1, FlattenSeqIn
<1>2. \A x \in Range(FlattenSeq(ss)) : \E i \in 1..Len(ss) : x \in Range(ss[i])
  <2> DEFINE R == UNION {Range(ss[i]) : i \in 1..Len(ss)}
             W == {t \in Seq(S) : Range(t) \subseteq R}
  <2>1. <<>> \in W
    BY DEF Range
  <2>2. \A s, t \in W : s \o t \in W
    BY RangeOfRow
  <2>3. ss \in Seq(W)
    <3>1. Len(ss) \in Nat /\ ss = [i \in 1..Len(ss) |-> ss[i]] /\ \A i \in 1..Len(ss) : ss[i] \in W
      OBVIOUS
    <3> HIDE DEF W
    <3>2. ss \in [1..Len(ss) -> W]
      BY <3>1
    <3> QED
      BY <3>1, <3>2
  <2> HIDE DEF W
  <2>4. FlattenSeq(ss) \in W
    BY <2>1, <2>2, <2>3, FlattenSeqIn
  <2> QED
    BY <2>4 DEF W
<1>3. ASSUME NEW k \in 1..Len(ss) PROVE Range(ss[k]) \subseteq Range(FlattenSeq(ss))
  <2>1. ss # <<>> /\ Len(ss) \in Nat \ {0} /\ \A i \in 1..Len(ss) : ss[i] \in Seq(S)
    OBVIOUS
  <2>2. PICK f : FlatTo(ss, Len(ss), f) /\ FlattenSeq(ss) = f[Len(ss)]
    BY <2>1, FlattenSeqFlat
  <2>3. \A i \in 1..Len(ss) : f[i] = IF i = 1 THEN ss[i] ELSE f[i-1] \o ss[i]
    BY <2>2, Zenon DEF FlatTo
  <2> DEFINE T == {i \in Nat : i \in 1..Len(ss) /\
                     ~(f[i] \in Seq(S) /\ (k <= i => Range(ss[k]) \subseteq Range(f[i])))}
  <2>4. ASSUME NEW i \in T, \A j \in T : i <= j PROVE FALSE
    <3>1. i \in 1..Len(ss) /\ ss[i] \in Seq(S)
      BY <2>1
    <3>2. CASE i = 1
      <4>1. f[i] = ss[i] /\ (k <= i => k = i)
        BY <2>3, <3>1, <3>2
      <4> QED
        BY <3>1, <4>1
    <3>3. CASE i # 1
      <4>1. i - 1 \in Nat /\ i - 1 \in 1..Len(ss) /\ ~(i <= i - 1) /\ (k <= i => k = i \/ k <= i - 1)
        BY <2>1, <3>1, <3>3
      <4>2. f[i-1] \in Seq(S) /\ (k <= i - 1 => Range(ss[k]) \subseteq Range(f[i-1]))
        BY <2>4, <4>1
      <4>3. f[i] = f[i-1] \o ss[i]
        BY <2>3, <3>1, <3>3
      <4>4. f[i] \in Seq(S) /\ Range(f[i]) = Range(f[i-1]) \cup Range(ss[i])
        BY <3>1, <4>2, <4>3, RangeOfRow
      <4> QED
        BY <4>1, <4>2, <4>4
    <3> QED
      BY <3>2, <3>3
  <2>5. T \in SUBSET Nat
    OBVIOUS
  <2> HIDE DEF T
  <2>6. T = {}
    BY <2>4, <2>5, LeastNatural
  <2> USE DEF T
  <2>7. Len(ss) \in Nat /\ Len(ss) \in 1..Len(ss) /\ k <= Len(ss)
    BY <2>1
  <2> QED
    BY <2>2, <2>6, <2>7
<1> QED
  BY <1>1, <1>2, <1>3

-----------------------------------------------------------------------------
(* What handlers have to do: rows of steps.                                *)

\* What a file may hold.
Contents == Profile \cup Request \cup Nat \cup {{}}
Fits(f, c) ==
  /\ c \in Contents
  /\ f \in Users => c \in Profile /\ f \notin c.friends
  /\ f \in Requests => c \in Request /\ c.requester # c.receiver
  /\ f = Index => c = {}
  /\ f = Likes => c \in Nat

FileSteps ==
  {s \in [op : {"open", "write", "remove", "rename"}, file : Files, content : Contents] :
     Fits(s.file, s.content) /\ (s.op \in {"open", "write"} => s.file \in Requests)}
Steps == FileSteps \cup [op : {"answer"}, file : Accounts \cup Requests, content : {NoFile}]

\* The steps of a write follow each other, and nothing comes between them.
Follows(s, t) ==
  /\ s.op = "open" => t = Step("write", s.file, s.content)
  /\ s.op = "write" => t = Step("remove", s.file, s.content)
  /\ s.op = "remove" => t = Step("rename", s.file, s.content)
  /\ t.op = "write" => s.op = "open"
  /\ t.op = "remove" /\ t.file \in Requests => s.op = "write"
  /\ t.op = "rename" => s.op = "remove"
Starts(s) == s.op \in {"open", "answer"} \/ (s.op = "remove" /\ s.file \notin Requests)
Ends(s) == s.op \in {"rename", "answer"}

\* What is left of a plan, and a plan.
Rows ==
  {t \in Seq(Steps) :
     /\ \A i \in 1..Len(t) : \A j \in 1..Len(t) : j = i + 1 => Follows(t[i], t[j])
     /\ t # <<>> => Ends(t[Len(t)])}
Plans == {t \in Rows : t # <<>> => Starts(t[1])}

LEMMA EmptyPlan == <<>> \in Plans
  BY DEF Plans, Rows

LEMMA PlansInRow == ASSUME NEW s \in Plans, NEW t \in Plans PROVE s \o t \in Plans
<1> DEFINE st == s \o t
<1>1. /\ s \in Seq(Steps) /\ t \in Seq(Steps) /\ st \in Seq(Steps)
      /\ Len(s) \in Nat /\ Len(t) \in Nat /\ Len(st) = Len(s) + Len(t)
  BY DEF Plans, Rows
<1>2. \A i \in 1..Len(s) : st[i] = s[i]
  BY <1>1
<1>3. \A i \in 1..Len(t) : st[i + Len(s)] = t[i]
  BY <1>1
<1>4. \A i \in 1..Len(st) : i \in 1..Len(s) \/ (i - Len(s) \in 1..Len(t) /\ st[i] = t[i - Len(s)])
  BY <1>1, <1>3
<1>5. CASE s = <<>> \/ t = <<>>
  <2>1. s = <<>> => st = t
    BY <1>1
  <2>2. t = <<>> => st = s
    BY <1>1
  <2> QED
    BY <1>5, <2>1, <2>2
<1>6. CASE s # <<>> /\ t # <<>>
  <2>1. Len(s) # 0 /\ Len(t) # 0
    BY <1>1, <1>6
  <2>2. Starts(s[1]) /\ Starts(t[1]) /\ Ends(s[Len(s)]) /\ Ends(t[Len(t)])
    BY <1>6 DEF Plans, Rows
  <2>3. st # <<>> /\ st[1] = s[1] /\ st[Len(st)] = t[Len(t)]
    BY <1>1, <1>2, <1>3, <2>1
  <2> HIDE DEF st
  <2>4. ASSUME NEW i \in 1..Len(st), NEW j \in 1..Len(st), j = i + 1 PROVE Follows(st[i], st[j])
    <3>1. CASE j \in 1..Len(s)
      <4>1. i \in 1..Len(s) /\ st[i] = s[i] /\ st[j] = s[j]
        BY <1>1, <1>2, <2>4, <3>1
      <4> QED
        BY <2>4, <3>1, <4>1 DEF Plans, Rows
    <3>2. CASE i \in 1..Len(s) /\ j \notin 1..Len(s)
      <4>1. i = Len(s) /\ j - Len(s) = 1
        BY <1>1, <2>4, <3>2
      <4>2. st[i] = s[Len(s)] /\ st[j] = t[1]
        BY <1>2, <1>4, <3>2, <4>1
      <4> QED
        BY <2>2, <4>2 DEF Follows, Starts, Ends
    <3>3. CASE i \notin 1..Len(s)
      <4> DEFINE k == i - Len(s)
                 l == j - Len(s)
      <4>1. j \notin 1..Len(s) /\ l = k + 1
        BY <1>1, <2>4, <3>3
      <4>2. k \in 1..Len(t) /\ l \in 1..Len(t) /\ st[i] = t[k] /\ st[j] = t[l]
        BY <1>4, <3>3, <4>1
      <4> HIDE DEF k, l
      <4> QED
        BY <4>1, <4>2 DEF Plans, Rows
    <3> QED
      BY <3>1, <3>2, <3>3
  <2>5. st \in Rows
    BY <1>1, <2>2, <2>3, <2>4 DEF Rows
  <2>6. st \in Plans
    BY <2>2, <2>3, <2>5 DEF Plans
  <2> QED
    BY <2>6 DEF st
<1> QED
  BY <1>5, <1>6

LEMMA TwoPairs ==
  ASSUME NEW a, NEW b, NEW c, NEW d
  PROVE  <<a, b>> \o <<c, d>> = <<a, b, c, d>> /\ <<>> \o <<c, d>> = <<c, d>>
<1> DEFINE S == {a, b, c, d}
<1>1. /\ <<a, b>> \in Seq(S) /\ <<c, d>> \in Seq(S) /\ <<a, b, c, d>> \in Seq(S)
      /\ Len(<<a, b>>) = 2 /\ Len(<<c, d>>) = 2 /\ Len(<<a, b, c, d>>) = 4
  OBVIOUS
<1> HIDE DEF S
<1>2. <<>> \o <<c, d>> = <<c, d>>
  BY <1>1
<1> DEFINE u == <<a, b>> \o <<c, d>>
           v == <<a, b, c, d>>
<1>3. u \in Seq(S) /\ Len(u) = 4 /\ u[1] = a /\ u[2] = b /\ u[3] = c /\ u[4] = d
  BY <1>1
<1>4. v \in Seq(S) /\ Len(v) = 4 /\ v[1] = a /\ v[2] = b /\ v[3] = c /\ v[4] = d
  BY <1>1
<1> HIDE DEF u, v
<1>5. \A i \in 1..4 : i = 1 \/ i = 2 \/ i = 3 \/ i = 4
  OBVIOUS
<1>6. u = v
  BY <1>3, <1>4, <1>5
<1> QED
  BY <1>2, <1>6 DEF u, v

\* A write is a plan, and so is an answer.
LEMMA WritePlan ==
  ASSUME NEW f \in Files, NEW c, Fits(f, c)
  PROVE  /\ Write(f, c) \in Plans
         /\ Range(Write(f, c)) =
              {Step(op, f, c) : op \in IF f \in Requests THEN {"open", "write", "remove", "rename"}
                                       ELSE {"remove", "rename"}}
<1>1. c \in Contents
  BY DEF Fits
<1>2. CASE f \in Requests
  <2>1. Write(f, c) = <<Step("open", f, c), Step("write", f, c), Step("remove", f, c), Step("rename", f, c)>>
    BY <1>2, TwoPairs DEF Write
  <2> DEFINE t == <<Step("open", f, c), Step("write", f, c), Step("remove", f, c), Step("rename", f, c)>>
  <2>2. \A op \in {"open", "write", "remove", "rename"} : Step(op, f, c) \in Steps
    BY <1>1, <1>2 DEF Steps, FileSteps, Step
  <2>3. /\ t \in Seq(Steps) /\ Len(t) = 4 /\ DOMAIN t = 1..4
        /\ t[1] = Step("open", f, c) /\ t[2] = Step("write", f, c)
        /\ t[3] = Step("remove", f, c) /\ t[4] = Step("rename", f, c)
    BY <2>2
  <2> HIDE DEF t
  <2>4. \A i \in 1..4 : i = 1 \/ i = 2 \/ i = 3 \/ i = 4
    OBVIOUS
  <2>5. t # <<>> /\ Starts(t[1]) /\ Ends(t[Len(t)])
    <3>1. t # <<>>
      BY <2>3
    <3>2. t[1].op = "open" /\ t[Len(t)].op = "rename"
      BY <2>3 DEF Step
    <3> QED
      BY <3>1, <3>2 DEF Starts, Ends
  <2>6. \A i \in 1..Len(t) : \A j \in 1..Len(t) : j = i + 1 => Follows(t[i], t[j])
    BY <2>3, <2>4 DEF Follows, Step
  <2>7. t \in Plans
    BY <2>3, <2>5, <2>6 DEF Plans, Rows
  <2>8. Range(t) = {Step(op, f, c) : op \in {"open", "write", "remove", "rename"}}
    BY <2>3, <2>4 DEF Range
  <2> QED
    BY <1>2, <2>1, <2>7, <2>8 DEF t
<1>3. CASE f \notin Requests
  <2>1. Write(f, c) = <<Step("remove", f, c), Step("rename", f, c)>>
    BY <1>3, TwoPairs DEF Write
  <2> DEFINE t == <<Step("remove", f, c), Step("rename", f, c)>>
  <2>2. \A op \in {"remove", "rename"} : Step(op, f, c) \in Steps
    BY <1>1 DEF Steps, FileSteps, Step
  <2>3. /\ t \in Seq(Steps) /\ Len(t) = 2 /\ DOMAIN t = 1..2
        /\ t[1] = Step("remove", f, c) /\ t[2] = Step("rename", f, c)
    BY <2>2
  <2> HIDE DEF t
  <2>4. \A i \in 1..2 : i = 1 \/ i = 2
    OBVIOUS
  <2>5. t # <<>> /\ Starts(t[1]) /\ Ends(t[Len(t)])
    BY <1>3, <2>3 DEF Starts, Ends, Step
  <2>6. \A i \in 1..Len(t) : \A j \in 1..Len(t) : j = i + 1 => Follows(t[i], t[j])
    BY <1>3, <2>3, <2>4 DEF Follows, Step
  <2>7. t \in Plans
    BY <2>3, <2>5, <2>6 DEF Plans, Rows
  <2>8. Range(t) = {Step(op, f, c) : op \in {"remove", "rename"}}
    BY <2>3, <2>4 DEF Range
  <2> QED
    BY <1>3, <2>1, <2>7, <2>8 DEF t
<1> QED
  BY <1>2, <1>3

LEMMA AnswerPlan ==
  ASSUME NEW what \in Accounts \cup Requests
  PROVE  Answer(what) \in Plans /\ Range(Answer(what)) = {Step("answer", what, NoFile)}
<1> DEFINE t == <<Step("answer", what, NoFile)>>
<1>1. Step("answer", what, NoFile) \in Steps
  BY DEF Steps, Step
<1>2. t \in Seq(Steps) /\ Len(t) = 1 /\ DOMAIN t = 1..1 /\ t[1] = Step("answer", what, NoFile)
  BY <1>1
<1> HIDE DEF t
<1>3. t \in Plans
  <2>1. t[1].op = "answer"
    BY <1>2 DEF Step
  <2>2. \A i \in 1..Len(t) : \A j \in 1..Len(t) : j # i + 1
    BY <1>2
  <2> QED
    BY <1>2, <2>1, <2>2 DEF Plans, Rows, Starts, Ends
<1>4. Range(t) = {Step("answer", what, NoFile)}
  BY <1>2 DEF Range
<1> QED
  BY <1>3, <1>4 DEF t, Answer

\* Plans in a row: what is done in all is done in one of them.
LEMMA PlanRange ==
  ASSUME NEW s \in Plans, NEW t \in Plans
  PROVE  Range(s \o t) = Range(s) \cup Range(t)
  BY RangeOfRow DEF Plans, Rows

LEMMA FlattenPlans ==
  ASSUME NEW ss \in Seq(Plans)
  PROVE  /\ FlattenSeq(ss) \in Plans
         /\ \A x \in Range(FlattenSeq(ss)) : \E i \in 1..Len(ss) : x \in Range(ss[i])
         /\ \A i \in 1..Len(ss) : Range(ss[i]) \subseteq Range(FlattenSeq(ss))
<1>1. ss \in Seq(Seq(Steps))
  <2>1. Plans \subseteq Seq(Steps)
    BY DEF Plans, Rows
  <2> QED
    BY <2>1
<1>2. FlattenSeq(ss) \in Plans
  BY EmptyPlan, PlansInRow, FlattenSeqIn
<1> QED
  BY <1>1, <1>2, FlattenSeqRange

LEMMA TailAt ==
  ASSUME NEW S, NEW t \in Seq(S), t # <<>>
  PROVE  /\ Len(t) \in Nat \ {0} /\ Len(Tail(t)) = Len(t) - 1 /\ Head(t) = t[1] /\ Tail(t) \in Seq(S)
         /\ \A i \in 1..Len(Tail(t)) : i + 1 \in 1..Len(t) /\ Tail(t)[i] = t[i + 1]
         /\ \A i \in 1..Len(t) : i # 1 => i - 1 \in 1..Len(Tail(t)) /\ Tail(t)[i - 1] = t[i]
         /\ Tail(t) = <<>> <=> Len(t) = 1
<1>1. Len(t) \in Nat \ {0} /\ Len(Tail(t)) = Len(t) - 1 /\ Head(t) = t[1] /\ Tail(t) \in Seq(S)
  OBVIOUS
<1>2. \A i \in 1..Len(Tail(t)) : i + 1 \in 1..Len(t) /\ Tail(t)[i] = t[i + 1]
  BY <1>1
<1>3. ASSUME NEW i \in 1..Len(t), i # 1
      PROVE  i - 1 \in 1..Len(Tail(t)) /\ Tail(t)[i - 1] = t[i]
  <2>1. i - 1 \in 1..Len(Tail(t)) /\ (i - 1) + 1 = i
    BY <1>1, <1>3
  <2> QED
    BY <1>2, <2>1
<1>4. Tail(t) = <<>> <=> Len(t) = 1
  <2>1. \A u \in Seq(S) : u = <<>> <=> Len(u) = 0
    OBVIOUS
  <2>2. Tail(t) = <<>> <=> Len(Tail(t)) = 0
    BY <1>1, <2>1
  <2>3. Len(t) - 1 = 0 <=> Len(t) = 1
    BY <1>1
  <2> QED
    BY <1>1, <2>2, <2>3
<1> QED
  BY <1>1, <1>2, <1>3, <1>4

\* One step of a row is done.
LEMMA RowTail ==
  ASSUME NEW t \in Rows, t # <<>>
  PROVE  /\ Tail(t) \in Rows /\ Head(t) \in Steps
         /\ Tail(t) # <<>> => Follows(Head(t), Head(Tail(t)))
         /\ Tail(t) = <<>> => Ends(Head(t))
<1>1. t \in Seq(Steps)
  BY DEF Rows
<1> DEFINE u == Tail(t)
<1>2. /\ Len(t) \in Nat \ {0} /\ Len(u) = Len(t) - 1 /\ Head(t) = t[1] /\ u \in Seq(Steps)
      /\ \A i \in 1..Len(u) : i + 1 \in 1..Len(t) /\ u[i] = t[i + 1]
      /\ u = <<>> <=> Len(t) = 1
  BY <1>1, TailAt
<1> HIDE DEF u
<1>3. \A i \in 1..Len(u) : \A j \in 1..Len(u) : j = i + 1 => Follows(u[i], u[j])
  <2> SUFFICES ASSUME NEW i \in 1..Len(u), NEW j \in 1..Len(u), j = i + 1 PROVE Follows(u[i], u[j])
    OBVIOUS
  <2>1. i + 1 \in 1..Len(t) /\ j + 1 \in 1..Len(t) /\ j + 1 = (i + 1) + 1
    BY <1>2
  <2> QED
    BY <1>2, <2>1 DEF Rows
<1>4. u # <<>> => Len(u) \in 1..Len(u) /\ u[Len(u)] = t[Len(t)] /\ u[1] = t[2] /\ 2 \in 1..Len(t) /\ 1 \in 1..Len(t)
  BY <1>2
<1>5. u \in Rows
  BY <1>2, <1>3, <1>4 DEF Rows
<1>6. u # <<>> => Follows(t[1], Head(u))
  BY <1>2, <1>4 DEF Rows
<1>7. u = <<>> => Ends(t[1])
  BY <1>2 DEF Rows
<1> QED
  BY <1>1, <1>2, <1>5, <1>6, <1>7 DEF u

-----------------------------------------------------------------------------
(* The invariant.                                                          *)

Renames(f) == \E s \in Range(todo) : s.op = "rename" /\ s.file = f
OnFile(s, f) == s.op # "answer" /\ s.file = f

TypeInv ==
  /\ disk \in [Files -> Contents \cup {NoFile, Gone}]
  /\ \A f \in Files : IsThere(f) => Fits(f, disk[f])
  /\ temp \in [Requests -> Request \cup {NoFile, Torn}]
  /\ \A q \in Requests : temp[q] \in Request => Fits(q, temp[q])
  /\ todo \in Rows
  /\ answered \subseteq Accounts \cup Requests /\ IsFiniteSet(answered)
  /\ books \in [coins : [Users -> Int], likes : Nat]
  /\ deleted \subseteq Users \X Users
  /\ crashes \in Nat /\ crashes <= MaxCrashes

\* While a request's file is replaced, its temporary file holds what comes.
WritingInv ==
  todo # <<>> /\ Head(todo).op \in {"remove", "rename"} /\ Head(todo).file \in Requests
    => temp[Head(todo).file] = Head(todo).content

\* What a user is told is there, or comes before he is told.
AnswerInv ==
  \A i \in 1..Len(todo) : todo[i].op = "answer" =>
    /\ todo[i].file \in Requests =>
         \/ IsThere(todo[i].file)
         \/ \E j \in 1..Len(todo) : j < i /\ todo[j].op = "rename" /\ todo[j].file = todo[i].file
    /\ todo[i].file \in Accounts =>
         \/ ProfileOf(todo[i].file) # {}
         \/ \E j \in 1..Len(todo) : /\ j < i /\ todo[j].op = "rename" /\ todo[j].file \in Users
                                    /\ todo[j].content.account = todo[i].file

\* Every writer of a profile has the booked coins, and so has the profile but for one
\* that is still to be written.
CoinsInv ==
  \A u \in Users :
    /\ \A s \in Range(todo) : OnFile(s, u) => s.content.coins = books.coins[u]
    /\ IsThere(u) => disk[u].coins = books.coins[u] \/ Renames(u)

\* The last to write the likes has the booked number.
LikesInv ==
  /\ \A i \in 1..Len(todo) : OnFile(todo[i], Likes) =>
       \E j \in 1..Len(todo) : i <= j /\ todo[j] = Step("rename", Likes, books.likes)
  /\ \/ LikesOn(disk) = books.likes
     \/ Step("rename", Likes, books.likes) \in Range(todo)

\* A user who has the account, or is about to.
Claims(u, a) ==
  \/ IsThere(u) /\ disk[u].account = a
  \/ \E s \in Range(todo) : OnFile(s, u) /\ s.content.account = a
ClaimsInv ==
  \A u, v \in Users : \A a, b \in Accounts : Claims(u, a) /\ Claims(v, b) => (u = v <=> a = b)

\* Accounts without a profile: one for each crash, and the one being replaced.
Lost == {a \in answered \cap Accounts : ProfileOf(a) = {}}
InHand ==
  {a \in Accounts : /\ todo # <<>> /\ Head(todo).op = "rename" /\ Head(todo).file \in Users
                    /\ a = Head(todo).content.account}
LossInv == Cardinality(Lost \ InHand) <= crashes

\* Until the first crash a file is missing only between its remove and its rename; up to
\* the second one a request that was answered can be read, or is about to be written.
SurviveInv ==
  \A q \in Requests :
    /\ crashes = 0 /\ temp[q] # NoFile => Renames(q)
    /\ crashes = 0 /\ q \in answered =>
         IsThere(q) \/ (todo # <<>> /\ Head(todo).op = "rename" /\ Head(todo).file = q)
    /\ crashes <= 1 /\ q \in answered => Views(q) # {} \/ Renames(q)

\* What a request reads as, now or later.
Versions(q) == Views(q) \cup {s.content : s \in {t \in Range(todo) : OnFile(t, q)}}
PendingInv ==
  crashes = 0 =>
    \A q, s \in Requests : \A r \in Versions(q), t \in Versions(s) :
      q # s /\ r.status = "PENDING" /\ t.status = "PENDING" => ~Between(r, t.requester, t.receiver)

\* At the i-th step that is still to come x will have y for a friend.
Befriended(i, x, y) ==
  /\ \A j \in 1..Len(todo) : j < i /\ OnFile(todo[j], x) => y \in todo[j].content.friends
  /\ \/ IsThere(x) /\ y \in disk[x].friends
     \/ \E j \in 1..Len(todo) : j < i /\ todo[j].op = "rename" /\ todo[j].file = x
LinksInv ==
  \A i \in 1..Len(todo) :
    todo[i].op # "answer" /\ todo[i].file \in Requests /\ todo[i].content.status = "ACCEPTED" =>
      /\ Befriended(i, todo[i].content.requester, todo[i].content.receiver)
      /\ Befriended(i, todo[i].content.receiver, todo[i].content.requester)
-----------------------------------------------------------------------------
(* What the actions do.                                                    *)

LEMMA Apart ==
  /\ Users \cap Requests = {} /\ Accounts \cap Requests = {} /\ Index # Likes
  /\ Index \notin Users /\ Index \notin Requests /\ Likes \notin Users /\ Likes \notin Requests
  /\ NoFile # Gone /\ NoFile # Torn /\ Gone # Torn
  /\ \A c \in Contents : c # NoFile /\ c # Gone /\ c # Torn
  /\ Request \subseteq Contents
  BY UserStoreAssumption, MarksAssumption DEF Contents

\* One step at a file.
Opened(s) ==
  /\ s.op = "open" /\ s.file \in Requests
  /\ temp' = [temp EXCEPT ![s.file] = Torn] /\ disk' = disk /\ answered' = answered
Written(s) ==
  /\ s.op = "write" /\ s.file \in Requests
  /\ temp' = [temp EXCEPT ![s.file] = s.content] /\ disk' = disk /\ answered' = answered
Removed(s) ==
  /\ s.op = "remove"
  /\ disk' = [disk EXCEPT ![s.file] = IF IsThere(s.file) THEN Gone ELSE @]
  /\ temp' = temp /\ answered' = answered
Renamed(s) ==
  /\ s.op = "rename" /\ disk' = [disk EXCEPT ![s.file] = s.content]
  /\ temp' = [q \in Requests |-> IF q = s.file THEN NoFile ELSE temp[q]] /\ answered' = answered
Answered(s) ==
  s.op = "answer" /\ answered' = answered \cup {s.file} /\ disk' = disk /\ temp' = temp

LEMMA FileStepDoes ==
  ASSUME TypeInv, FileStep
  PROVE  LET s == Head(todo) IN
         /\ todo # <<>> /\ s \in Steps /\ s \in Range(todo)
         /\ Opened(s) \/ Written(s) \/ Removed(s) \/ Renamed(s) \/ Answered(s)
         /\ s.op # "answer" => s \in FileSteps
         /\ s.op = "answer" => s.file \in Accounts \cup Requests
         /\ todo' = Tail(todo) /\ todo' \in Rows
         /\ UNCHANGED <<books, deleted, crashes, changes>>
<1> DEFINE s == Head(todo)
<1>1. todo # <<>> /\ todo' = Tail(todo) /\ UNCHANGED <<books, deleted, crashes, changes>>
  BY DEF FileStep
<1>2. s \in Steps /\ todo' \in Rows
  BY <1>1, RowTail DEF TypeInv
<1>3. s \in Range(todo)
  <2>1. todo \in Seq(Steps)
    BY DEF TypeInv, Rows
  <2>2. 1 \in DOMAIN todo /\ s = todo[1]
    BY <1>1, <2>1
  <2> HIDE DEF s
  <2> QED
    BY <2>2 DEF Range
<1>4. /\ temp' = CASE s.op = "open"  -> [temp EXCEPT ![s.file] = Torn]
                  [] s.op = "write" -> [temp EXCEPT ![s.file] = s.content]
                  [] s.op = "rename" /\ s.file \in Requests -> [temp EXCEPT ![s.file] = NoFile]
                  [] OTHER -> temp
      /\ disk' = CASE s.op = "remove" /\ IsThere(s.file) -> [disk EXCEPT ![s.file] = Gone]
                  [] s.op = "rename" -> [disk EXCEPT ![s.file] = s.content]
                  [] OTHER -> disk
      /\ answered' = IF s.op = "answer" THEN answered \cup {s.file} ELSE answered
  BY DEF FileStep
<1> HIDE DEF s
<1>5. /\ s.op # "answer" => s \in FileSteps
      /\ s.op = "answer" => s.file \in Accounts \cup Requests
  BY <1>2 DEF Steps, FileSteps
<1>6. temp \in [Requests -> Request \cup {NoFile, Torn}] /\ disk \in [Files -> Contents \cup {NoFile, Gone}]
  BY DEF TypeInv
<1>7. ASSUME s.op = "open" PROVE Opened(s)
  BY <1>4, <1>5, <1>7 DEF Opened, FileSteps
<1>8. ASSUME s.op = "write" PROVE Written(s)
  BY <1>4, <1>5, <1>8 DEF Written, FileSteps
<1>9. ASSUME s.op = "remove" PROVE Removed(s)
  <2>1. temp' = temp /\ answered' = answered
    BY <1>4, <1>9
  <2>2. CASE IsThere(s.file)
    BY <1>4, <1>9, <2>1, <2>2 DEF Removed
  <2>3. CASE ~IsThere(s.file)
    <3>1. disk' = disk
      BY <1>4, <1>9, <2>3
    <3>2. disk' = [disk EXCEPT ![s.file] = disk[s.file]]
      BY <1>6, <3>1
    <3> QED
      BY <1>9, <2>1, <2>3, <3>2 DEF Removed
  <2> QED
    BY <2>2, <2>3
<1>10. ASSUME s.op = "rename" PROVE Renamed(s)
  <2>1. disk' = [disk EXCEPT ![s.file] = s.content] /\ answered' = answered
    BY <1>4, <1>10
  <2>2. temp' = [q \in Requests |-> IF q = s.file THEN NoFile ELSE temp[q]]
    <3>1. temp' = IF s.file \in Requests THEN [temp EXCEPT ![s.file] = NoFile] ELSE temp
      BY <1>4, <1>10
    <3> QED
      BY <1>6, <3>1
  <2> QED
    BY <1>10, <2>1, <2>2 DEF Renamed
<1>11. ASSUME s.op = "answer" PROVE Answered(s)
  BY <1>4, <1>11 DEF Answered
<1>12. s.op \in {"open", "write", "remove", "rename", "answer"}
  BY <1>2 DEF Steps, FileSteps
<1>13. Opened(s) \/ Written(s) \/ Removed(s) \/ Renamed(s) \/ Answered(s)
  BY <1>7, <1>8, <1>9, <1>10, <1>11, <1>12
<1> QED
  BY <1>1, <1>2, <1>3, <1>5, <1>13 DEF s

\* A plan that writes what W says, pairs of a file and its content, and answers A.
Does(t, W, A) ==
  /\ t \in Plans
  /\ \A s \in Range(t) : s.op = "answer" => s.file \in A
  /\ \A s \in Range(t) : s.op # "answer" => \E w \in W : s.file = w[1] /\ s.content = w[2]
  /\ \A w \in W : Step("rename", w[1], w[2]) \in Range(t)

LEMMA DoesNothing == Does(<<>>, {}, {})
  BY EmptyPlan DEF Does, Range

LEMMA DoesWrite ==
  ASSUME NEW f \in Files, NEW c, Fits(f, c)
  PROVE  Does(Write(f, c), {<<f, c>>}, {})
<1> DEFINE t == Write(f, c)
<1>1. t \in Plans /\ Step("rename", f, c) \in Range(t)
  BY WritePlan
<1>2. \A s \in Range(t) : s.op # "answer" /\ s.file = f /\ s.content = c
  BY WritePlan DEF Step
<1> HIDE DEF t
<1> QED
  BY <1>1, <1>2 DEF Does, t

LEMMA DoesAnswer ==
  ASSUME NEW what \in Accounts \cup Requests
  PROVE  Does(Answer(what), {}, {what})
  BY AnswerPlan DEF Does, Step

LEMMA DoesBoth ==
  ASSUME NEW s, NEW t, NEW V, NEW W, NEW A, NEW B, Does(s, V, A), Does(t, W, B)
  PROVE  Does(s \o t, V \cup W, A \cup B)
<1>1. s \in Plans /\ t \in Plans
  BY DEF Does
<1>2. s \o t \in Plans /\ Range(s \o t) = Range(s) \cup Range(t)
  BY <1>1, PlansInRow, PlanRange
<1> QED
  BY <1>2 DEF Does

\* What SaveNewUser and UpdateUser write.
LEMMA DoesSave ==
  ASSUME NEW u \in Users, NEW p, Fits(u, p)
  PROVE  Does(Save(u, p), {<<u, p>>, <<Index, {}>>}, {})
<1>1. Does(Write(u, p), {<<u, p>>}, {})
  BY DoesWrite DEF Files
<1>2. Fits(Index, {}) /\ Index \in Files
  BY Apart DEF Fits, Contents, Files
<1>3. Does(Write(Index, {}), {<<Index, {}>>}, {})
  BY <1>2, DoesWrite
<1>4. Does(Write(u, p) \o Write(Index, {}), {<<u, p>>} \cup {<<Index, {}>>}, {} \cup {})
  BY <1>1, <1>3, DoesBoth
<1>5. {<<u, p>>} \cup {<<Index, {}>>} = {<<u, p>>, <<Index, {}>>} /\ {} \cup {} = {}
  OBVIOUS
<1> QED
  BY <1>4, <1>5 DEF Save

LEMMA DoesAll ==
  ASSUME NEW n \in Nat, NEW ss, NEW Ws, ss = [i \in 1..n |-> ss[i]],
         \A i \in 1..n : Does(ss[i], Ws[i], {})
  PROVE  Does(FlattenSeq(ss), UNION {Ws[i] : i \in 1..n}, {})
<1> DEFINE t == FlattenSeq(ss)
           W == UNION {Ws[i] : i \in 1..n}
<1>1. \A i \in 1..n : ss[i] \in Plans
  BY DEF Does
<1>2. ss \in Seq(Plans) /\ Len(ss) = n
  <2>1. ss \in [1..n -> Plans]
    BY <1>1
  <2> QED
    BY <2>1
<1>3. /\ t \in Plans
      /\ \A x \in Range(t) : \E i \in 1..n : x \in Range(ss[i])
      /\ \A i \in 1..n : Range(ss[i]) \subseteq Range(t)
  BY <1>2, FlattenPlans
<1> HIDE DEF t
<1>4. \A s \in Range(t) : s.op = "answer" => s.file \in {}
  BY <1>3 DEF Does
<1>5. ASSUME NEW s \in Range(t), s.op # "answer" PROVE \E w \in W : s.file = w[1] /\ s.content = w[2]
  <2>1. PICK i \in 1..n : s \in Range(ss[i])
    BY <1>3
  <2>2. PICK w \in Ws[i] : s.file = w[1] /\ s.content = w[2]
    BY <1>5, <2>1 DEF Does
  <2> QED
    BY <2>2
<1>6. ASSUME NEW w \in W PROVE Step("rename", w[1], w[2]) \in Range(t)
  <2>1. PICK i \in 1..n : w \in Ws[i]
    OBVIOUS
  <2>2. Step("rename", w[1], w[2]) \in Range(ss[i])
    BY <2>1 DEF Does
  <2> QED
    BY <1>3, <2>2
<1> HIDE DEF W
<1> QED
  BY <1>3, <1>4, <1>5, <1>6 DEF Does, t, W

\* A handler has planned what W says.
Handled(W, A) ==
  todo = <<>> /\ UNCHANGED <<disk, temp, answered, crashes>> /\ Does(todo', W, A)

LEMMA DiskFits ==
  ASSUME TypeInv, NEW f \in Files, IsThere(f)
  PROVE  Fits(f, disk[f])
  BY DEF TypeInv

LEMMA NewUserFits ==
  ASSUME NEW u \in Users, NEW account \in Accounts
  PROVE  Fits(u, NewUser(account))
<1>1. NewUser(account) \in Profile /\ NewUser(account).friends = {}
  BY DEF NewUser, Profile, InitialCoins
<1> QED
  BY <1>1, Apart DEF Fits, Contents

LEMMA UserThere ==
  ASSUME TypeInv, NEW u \in Users, IsThere(u)
  PROVE  disk[u] \in Profile /\ u \notin disk[u].friends
  BY DiskFits DEF Files, Fits

\* The profile with another number of coins, or with other friends.
LEMMA PaidFits ==
  ASSUME TypeInv, NEW u \in Users, IsThere(u), NEW score \in Int
  PROVE  /\ Fits(u, Paid(u, score)) /\ Paid(u, score).coins = disk[u].coins + score
         /\ Paid(u, score).account = disk[u].account /\ Paid(u, score).friends = disk[u].friends
<1>1. disk[u] \in Profile /\ u \notin disk[u].friends
  BY UserThere
<1>2. /\ Paid(u, score).coins = disk[u].coins + score
      /\ Paid(u, score).account = disk[u].account /\ Paid(u, score).friends = disk[u].friends
      /\ Paid(u, score) \in Profile
  BY <1>1 DEF Paid, Profile
<1> QED
  BY <1>1, <1>2, Apart DEF Fits, Contents

Having(u, friends) == [disk[u] EXCEPT !.friends = friends]

LEMMA HavingFits ==
  ASSUME TypeInv, NEW u \in Users, IsThere(u), NEW friends \in SUBSET Users, u \notin friends
  PROVE  /\ Fits(u, Having(u, friends)) /\ Having(u, friends).coins = disk[u].coins
         /\ Having(u, friends).account = disk[u].account /\ Having(u, friends).friends = friends
<1>1. disk[u] \in Profile
  BY UserThere
<1>2. /\ Having(u, friends).coins = disk[u].coins /\ Having(u, friends).friends = friends
      /\ Having(u, friends).account = disk[u].account /\ Having(u, friends) \in Profile
  BY <1>1 DEF Having, Profile
<1> QED
  BY <1>2, Apart DEF Fits, Contents

LEMMA ViewFits ==
  ASSUME TypeInv, NEW q \in Requests, NEW r \in Views(q)
  PROVE  Fits(q, r) /\ r \in Request /\ r.requester # r.receiver
<1>1. q \in Files
  BY DEF Files
<1>2. CASE r = disk[q]
  BY <1>1, <1>2, DiskFits DEF Views, IsThere, Fits
<1>3. CASE r = temp[q]
  <2>1. r \in Request
    BY <1>3 DEF Views, TypeInv
  <2> QED
    BY <1>3, <2>1 DEF TypeInv, Fits
<1> QED
  BY <1>2, <1>3 DEF Views

\* A reading has one version of every request that can be read.
LEMMA ReadingViews ==
  ASSUME NEW v \in Readings, NEW q \in Requests
  PROVE  v[q] \in Views(q) \/ (v[q] = NoFile /\ Views(q) = {})
  BY DEF Readings

LEMMA LoadDoes ==
  ASSUME TypeInv, LoadLocked
  PROVE  \E new, W :
           /\ new \in SUBSET {u \in Users : Missing(u)}
           /\ \A u, v \in new : u = v
           /\ \A w \in W : \/ \E u \in Profiles : u \notin new /\ w = <<u, disk[u]>>
                           \/ \E u \in new : w = <<u, NewUser(DefaultAccount)>>
           /\ Handled(W \cup {<<Index, {}>>}, {})
           /\ books' = [books EXCEPT !.coins = [u \in Users |->
                          IF u \in new THEN InitialCoins ELSE books.coins[u]]]
           /\ deleted' = deleted
<1>1. PICK new \in SUBSET {u \in Users : Missing(u)} :
        /\ Cardinality(new) <= 1
        /\ \E order \in SetToSeqs(Profiles \cup new) :
             todo' = FlattenSeq([i \in DOMAIN order |-> Write(order[i], Loaded(new)[order[i]])])
                       \o Write(Index, {})
        /\ books' = [books EXCEPT !.coins = [u \in Users |->
                       IF u \in new THEN InitialCoins ELSE books.coins[u]]]
  BY DEF LoadLocked, TypeInv
<1>2. todo = <<>> /\ UNCHANGED <<disk, temp, answered, deleted, crashes>>
  BY DEF LoadLocked
<1> DEFINE these == Profiles \cup new
           n     == Cardinality(these)
<1>3. IsFiniteSet(these) /\ n \in Nat /\ IsFiniteSet(new)
  <2>1. IsFiniteSet(Users) /\ these \in SUBSET Users /\ new \in SUBSET Users
    BY UserStoreAssumption DEF Profiles
  <2> QED
    BY <2>1, FS_Subset, FS_CardinalityType
<1>4. PICK order \in [1..n -> these] :
        todo' = FlattenSeq([i \in DOMAIN order |-> Write(order[i], Loaded(new)[order[i]])])
                  \o Write(Index, {})
  BY <1>1 DEF SetToSeqs
<1>5. ASSUME NEW u \in these PROVE u \in Users /\ Fits(u, Loaded(new)[u])
  <2>1. u \in Users
    BY DEF Profiles
  <2>2. CASE u \in new
    <3>1. Loaded(new)[u] = NewUser(DefaultAccount)
      BY <2>2 DEF Loaded
    <3> QED
      BY <2>1, <3>1, NewUserFits, UserStoreAssumption
  <2>3. CASE u \notin new
    <3>1. Loaded(new)[u] = disk[u] /\ IsThere(u)
      BY <2>3 DEF Loaded, Profiles
    <3> QED
      BY <2>1, <3>1, DiskFits DEF Files
  <2> QED
    BY <2>1, <2>2, <2>3
<1> HIDE DEF n
<1> DEFINE ss == [i \in 1..n |-> Write(order[i], Loaded(new)[order[i]])]
           Ws == [i \in 1..n |-> {<<order[i], Loaded(new)[order[i]]>>}]
           W  == UNION {Ws[i] : i \in 1..n}
<1>6. \A i \in 1..n : Does(ss[i], Ws[i], {})
  <2> SUFFICES ASSUME NEW i \in 1..n
               PROVE  Does(Write(order[i], Loaded(new)[order[i]]), {<<order[i], Loaded(new)[order[i]]>>}, {})
    OBVIOUS
  <2>1. order[i] \in these
    OBVIOUS
  <2>2. order[i] \in Files /\ Fits(order[i], Loaded(new)[order[i]])
    BY <1>5, <2>1 DEF Files
  <2> QED
    BY <2>2, DoesWrite
<1>7. ss = [i \in 1..n |-> ss[i]]
  OBVIOUS
<1>8. todo' = FlattenSeq(ss) \o Write(Index, {})
  BY <1>4
<1>9. \A w \in W : \E i \in 1..n : w = <<order[i], Loaded(new)[order[i]]>>
  OBVIOUS
<1> HIDE DEF ss
<1>10. Does(FlattenSeq(ss), W, {})
  <2> HIDE DEF Ws
  <2> QED
    BY <1>3, <1>6, <1>7, DoesAll
<1>11. Does(Write(Index, {}), {<<Index, {}>>}, {})
  <2>1. Fits(Index, {}) /\ Index \in Files
    BY Apart DEF Fits, Contents, Files
  <2> QED
    BY <2>1, DoesWrite
<1> HIDE DEF W
<1>12. Does(todo', W \cup {<<Index, {}>>}, {} \cup {})
  BY <1>8, <1>10, <1>11, DoesBoth
<1>13. Handled(W \cup {<<Index, {}>>}, {})
  BY <1>2, <1>12 DEF Handled
<1>14. \A u, v \in new : u = v
  <2>1. Cardinality(new) \in Nat
    BY <1>3, FS_CardinalityType
  <2>2. CASE Cardinality(new) = 0
    BY <1>3, <2>2, FS_EmptySet
  <2>3. CASE Cardinality(new) = 1
    <3>1. \E x : new = {x}
      BY <1>3, <2>3, FS_Singleton
    <3> QED
      BY <3>1
  <2> QED
    BY <1>1, <2>1, <2>2, <2>3
<1>15. ASSUME NEW w \in W
       PROVE  \/ \E u \in Profiles : u \notin new /\ w = <<u, disk[u]>>
              \/ \E u \in new : w = <<u, NewUser(DefaultAccount)>>
  <2>1. PICK i \in 1..n : w = <<order[i], Loaded(new)[order[i]]>>
    BY <1>9
  <2>2. order[i] \in these
    OBVIOUS
  <2> QED
    BY <2>1, <2>2 DEF Loaded
<1> QED
  BY <1>1, <1>2, <1>13, <1>14, <1>15

LEMMA RegisterDoes ==
  ASSUME TypeInv, NEW account \in Accounts, HandleRegister(account)
  PROVE  \E u \in Users :
           /\ Fresh(u) /\ ~Taken(account)
           /\ todo' = Save(u, NewUser(account)) \o Answer(account)
           /\ Does(Save(u, NewUser(account)), {<<u, NewUser(account)>>, <<Index, {}>>}, {})
           /\ Handled({<<u, NewUser(account)>>, <<Index, {}>>}, {account})
           /\ books' = [books EXCEPT !.coins[u] = InitialCoins] /\ deleted' = deleted
<1>1. PICK u \in Users :
        /\ Fresh(u) /\ ~Taken(account)
        /\ todo' = Save(u, NewUser(account)) \o Answer(account)
        /\ books' = [books EXCEPT !.coins[u] = InitialCoins]
  BY DEF HandleRegister
<1> DEFINE W == {<<u, NewUser(account)>>, <<Index, {}>>}
<1>2. Does(Save(u, NewUser(account)), W, {})
  BY NewUserFits, DoesSave
<1>3. Does(Answer(account), {}, {account})
  BY DoesAnswer
<1> HIDE DEF W
<1>4. Does(Save(u, NewUser(account)) \o Answer(account), W \cup {}, {} \cup {account})
  BY <1>2, <1>3, DoesBoth
<1>5. W \cup {} = W /\ {} \cup {account} = {account}
  OBVIOUS
<1>6. Handled(W, {account}) /\ deleted' = deleted
  BY <1>1, <1>4, <1>5 DEF Handled, HandleRegister, Begin
<1> QED
  BY <1>1, <1>2, <1>6 DEF W

LEMMA ChangeDoes ==
  ASSUME TypeInv, NEW u \in Users, HandleChangeOfUser(u)
  PROVE  /\ IsThere(u) /\ Handled({<<u, disk[u]>>, <<Index, {}>>}, {})
         /\ books' = books /\ deleted' = deleted
<1>1. IsThere(u) /\ Fits(u, disk[u])
  BY DiskFits DEF HandleChangeOfUser, Files
<1>2. Does(Save(u, disk[u]), {<<u, disk[u]>>, <<Index, {}>>}, {})
  BY <1>1, DoesSave
<1> QED
  BY <1>1, <1>2 DEF Handled, HandleChangeOfUser, Begin

LEMMA ResetDoes ==
  ASSUME TypeInv, NEW u \in Users, HandleResetPasswordOfDefault(u)
  PROVE  /\ Missing(u) /\ Handled({<<u, NewUser(DefaultAccount)>>, <<Index, {}>>}, {})
         /\ books' = [books EXCEPT !.coins[u] = InitialCoins] /\ deleted' = deleted
<1>1. Does(Save(u, NewUser(DefaultAccount)), {<<u, NewUser(DefaultAccount)>>, <<Index, {}>>}, {})
  BY NewUserFits, DoesSave, UserStoreAssumption
<1> QED
  BY <1>1 DEF Handled, HandleResetPasswordOfDefault, Begin

LEMMA PersistDoes ==
  ASSUME TypeInv, NEW scores \in Results, NEW players \in Seatings(Len(scores)),
         PersistFinishedRoomScores(players, scores)
  PROVE  \E W :
           /\ \A w \in W : \/ w = <<Index, {}>>
                           \/ \E i \in 1..Len(scores) : IsThere(players[i]) /\
                                w = <<players[i], Paid(players[i], scores[i])>>
           /\ \A i \in 1..Len(scores) :
                IsThere(players[i]) => <<players[i], Paid(players[i], scores[i])>> \in W
           /\ Handled(W, {})
           /\ books' = [books EXCEPT !.coins = Booked([u \in Range(players) |->
                          scores[CHOOSE i \in DOMAIN players : players[i] = u]])]
           /\ deleted' = deleted
<1> DEFINE n == Len(scores)
<1>1. /\ n \in Nat /\ players \in [1..n -> Users] /\ DOMAIN players = 1..n
      /\ \A i \in 1..n : scores[i] \in Int
  BY UserStoreAssumption DEF Seatings
<1> DEFINE One(i) == IF IsThere(players[i]) THEN Save(players[i], Paid(players[i], scores[i])) ELSE <<>>
           Wof(i) == IF IsThere(players[i])
                     THEN {<<players[i], Paid(players[i], scores[i])>>, <<Index, {}>>} ELSE {}
           ss == [i \in 1..n |-> One(i)]
           Ws == [i \in 1..n |-> Wof(i)]
           W  == UNION {Ws[i] : i \in 1..n}
<1>2. todo' = FlattenSeq(ss)
  BY <1>1 DEF PersistFinishedRoomScores
<1> HIDE DEF n
<1>3. ASSUME NEW i \in 1..n PROVE Does(One(i), Wof(i), {})
  <2>1. CASE IsThere(players[i])
    <3>1. players[i] \in Users /\ scores[i] \in Int
      BY <1>1
    <3>2. Fits(players[i], Paid(players[i], scores[i]))
      BY <2>1, <3>1, PaidFits
    <3>3. Does(Save(players[i], Paid(players[i], scores[i])),
               {<<players[i], Paid(players[i], scores[i])>>, <<Index, {}>>}, {})
      BY <3>1, <3>2, DoesSave
    <3> QED
      BY <2>1, <3>3
  <2>2. CASE ~IsThere(players[i])
    BY <2>2, DoesNothing
  <2> QED
    BY <2>1, <2>2
<1>4. Does(FlattenSeq(ss), W, {})
  <2>1. \A i \in 1..n : Does(ss[i], Ws[i], {})
    BY <1>3
  <2>2. ss = [i \in 1..n |-> ss[i]]
    OBVIOUS
  <2> HIDE DEF ss, Ws
  <2> QED
    BY <1>1, <2>1, <2>2, DoesAll
<1>5. Handled(W, {})
  BY <1>2, <1>4 DEF Handled, PersistFinishedRoomScores, Begin
<1>6. ASSUME NEW w \in W
      PROVE  \/ w = <<Index, {}>>
             \/ \E i \in 1..n : IsThere(players[i]) /\ w = <<players[i], Paid(players[i], scores[i])>>
  <2>1. PICK i \in 1..n : w \in Wof(i)
    OBVIOUS
  <2> QED
    BY <2>1
<1>7. ASSUME NEW i \in 1..n, IsThere(players[i])
      PROVE  <<players[i], Paid(players[i], scores[i])>> \in W
  <2>1. <<players[i], Paid(players[i], scores[i])>> \in Ws[i]
    BY <1>7
  <2> QED
    BY <2>1
<1> HIDE DEF W
<1> QED
  BY <1>5, <1>6, <1>7 DEF n, PersistFinishedRoomScores

\* The likes: what LikesLoaded and OneLikeMore write.
LikesWrites == IF IsThere(Likes) THEN {} ELSE {<<Likes, 0>>}
MoreWrites == LikesWrites \cup {<<Likes, LikesOn(disk) + 1>>}

LEMMA LikesOnType == ASSUME TypeInv PROVE LikesOn(disk) \in Nat
<1>1. Likes \in Files
  BY DEF Files
<1> QED
  BY <1>1, DiskFits DEF LikesOn, IsThere, Fits

LEMMA LikesDoes ==
  ASSUME TypeInv
  PROVE  Does(LikesLoaded, LikesWrites, {}) /\ Does(OneLikeMore, MoreWrites, {})
<1>1. Likes \in Files /\ \A n \in Nat : Fits(Likes, n)
  BY Apart DEF Files, Fits, Contents
<1>2. Does(LikesLoaded, LikesWrites, {})
  <2>1. Does(Write(Likes, 0), {<<Likes, 0>>}, {})
    BY <1>1, DoesWrite
  <2> QED
    BY <2>1, DoesNothing DEF LikesLoaded, LikesWrites
<1>3. LikesOn(disk) + 1 \in Nat
  BY LikesOnType
<1>4. Does(Write(Likes, LikesOn(disk) + 1), {<<Likes, LikesOn(disk) + 1>>}, {})
  BY <1>1, <1>3, DoesWrite
<1>5. Does(LikesLoaded \o Write(Likes, LikesOn(disk) + 1), LikesWrites \cup {<<Likes, LikesOn(disk) + 1>>}, {} \cup {})
  BY <1>2, <1>4, DoesBoth
<1> QED
  BY <1>2, <1>5 DEF OneLikeMore, MoreWrites

LEMMA FetchDoes ==
  ASSUME TypeInv, HandleFetchSystemStats
  PROVE  /\ Handled(LikesWrites, {}) /\ todo' = LikesLoaded
         /\ books' = books /\ deleted' = deleted
  BY LikesDoes DEF Handled, HandleFetchSystemStats

LEMMA SubmitDoes ==
  ASSUME TypeInv, HandleSubmitSupportLike
  PROVE  /\ Handled(MoreWrites, {}) /\ todo' = OneLikeMore
         /\ books' = [books EXCEPT !.likes = @ + 1] /\ deleted' = deleted
  BY LikesDoes DEF Handled, HandleSubmitSupportLike

LEMMA ClaimDoes ==
  ASSUME TypeInv, NEW u \in Users, HandleClaimSupportLikeReward(u)
  PROVE  /\ IsThere(u)
         /\ todo' = Save(u, Paid(u, RewardCoins)) \o OneLikeMore
         /\ Does(Save(u, Paid(u, RewardCoins)), {<<u, Paid(u, RewardCoins)>>, <<Index, {}>>}, {})
         /\ Handled({<<u, Paid(u, RewardCoins)>>, <<Index, {}>>} \cup MoreWrites, {})
         /\ books' = [coins |-> [books.coins EXCEPT ![u] = @ + RewardCoins],
                      likes |-> books.likes + 1]
         /\ deleted' = deleted
<1>1. IsThere(u) /\ RewardCoins \in Int
  BY DEF HandleClaimSupportLikeReward, RewardCoins
<1>2. Fits(u, Paid(u, RewardCoins))
  BY <1>1, PaidFits
<1> DEFINE W == {<<u, Paid(u, RewardCoins)>>, <<Index, {}>>}
<1>3. Does(Save(u, Paid(u, RewardCoins)), W, {})
  BY <1>2, DoesSave
<1>4. Does(OneLikeMore, MoreWrites, {})
  BY LikesDoes
<1> HIDE DEF W
<1>5. Does(Save(u, Paid(u, RewardCoins)) \o OneLikeMore, W \cup MoreWrites, {} \cup {})
  BY <1>3, <1>4, DoesBoth
<1>6. Handled(W \cup MoreWrites, {})
  BY <1>5 DEF Handled, HandleClaimSupportLikeReward, Begin
<1> QED
  BY <1>1, <1>3, <1>6 DEF W, HandleClaimSupportLikeReward

LEMMA AddDoes ==
  ASSUME TypeInv, NEW a \in Users, NEW b \in Users, HandleAddFriend(a, b)
  PROVE  \E q, r :
           /\ q \in Requests
           /\ r = [requester |-> a, receiver |-> b, status |-> "PENDING"]
           /\ Fits(q, r) /\ disk[q] = NoFile /\ temp[q] = NoFile
           /\ \E v \in Readings : ~PendingBetween(v, a, b)
           /\ todo' = Write(q, r) \o Answer(q)
           /\ Does(Write(q, r), {<<q, r>>}, {})
           /\ Handled({<<q, r>>}, {q})
           /\ books' = books /\ deleted' = deleted
<1> DEFINE r == [requester |-> a, receiver |-> b, status |-> "PENDING"]
<1>1. PICK q \in Requests :
        /\ disk[q] = NoFile /\ temp[q] = NoFile
        /\ todo' = Write(q, r) \o Answer(q)
  BY DEF HandleAddFriend
<1>2. a # b /\ todo = <<>> /\ UNCHANGED <<disk, temp, answered, books, deleted, crashes>>
      /\ \E v \in Readings : ~PendingBetween(v, a, b)
  BY DEF HandleAddFriend, Begin
<1>3. r \in Request /\ r.requester = a /\ r.receiver = b
  BY DEF Request
<1> HIDE DEF r
<1>4. Fits(q, r)
  BY <1>2, <1>3, Apart DEF Fits, Contents
<1>5. Does(Write(q, r), {<<q, r>>}, {})
  BY <1>4, DoesWrite DEF Files
<1>6. Does(Answer(q), {}, {q})
  BY DoesAnswer
<1>7. Does(Write(q, r) \o Answer(q), {<<q, r>>} \cup {}, {} \cup {q})
  BY <1>5, <1>6, DoesBoth
<1>8. {<<q, r>>} \cup {} = {<<q, r>>} /\ {} \cup {q} = {q}
  OBVIOUS
<1>9. Handled({<<q, r>>}, {q})
  BY <1>1, <1>2, <1>7, <1>8 DEF Handled
<1> QED
  BY <1>1, <1>2, <1>4, <1>5, <1>9 DEF r

LEMMA DeleteDoes ==
  ASSUME TypeInv, NEW a \in Users, NEW b \in Users, HandleDeleteFriend(a, b)
  PROVE  LET A == Having(a, disk[a].friends \ {b})
             B == Having(b, disk[b].friends \ {a}) IN
         /\ IsThere(a) /\ IsThere(b)
         /\ todo' = Save(a, A) \o Save(b, B)
         /\ Does(Save(a, A), {<<a, A>>, <<Index, {}>>}, {})
         /\ Does(Save(b, B), {<<b, B>>, <<Index, {}>>}, {})
         /\ Handled({<<a, A>>, <<Index, {}>>} \cup {<<b, B>>, <<Index, {}>>}, {})
         /\ books' = books /\ deleted' = deleted \cup {<<a, b>>}
<1> DEFINE A == Having(a, disk[a].friends \ {b})
           B == Having(b, disk[b].friends \ {a})
<1>1. /\ IsThere(a) /\ IsThere(b) /\ todo = <<>> /\ todo' = Save(a, A) \o Save(b, B)
      /\ UNCHANGED <<disk, temp, answered, books, crashes>> /\ deleted' = deleted \cup {<<a, b>>}
  BY DEF HandleDeleteFriend, Begin, SaveFriends, FriendsOf, Having
<1>2. /\ disk[a].friends \ {b} \in SUBSET Users /\ a \notin disk[a].friends \ {b}
      /\ disk[b].friends \ {a} \in SUBSET Users /\ b \notin disk[b].friends \ {a}
  BY <1>1, UserThere DEF Profile
<1>3. Fits(a, A) /\ Fits(b, B)
  BY <1>1, <1>2, HavingFits
<1> HIDE DEF A, B
<1>4. Does(Save(a, A), {<<a, A>>, <<Index, {}>>}, {}) /\ Does(Save(b, B), {<<b, B>>, <<Index, {}>>}, {})
  BY <1>3, DoesSave
<1>5. Does(Save(a, A) \o Save(b, B), {<<a, A>>, <<Index, {}>>} \cup {<<b, B>>, <<Index, {}>>}, {} \cup {})
  BY <1>4, DoesBoth
<1>6. Handled({<<a, A>>, <<Index, {}>>} \cup {<<b, B>>, <<Index, {}>>}, {})
  BY <1>1, <1>5 DEF Handled
<1> QED
  BY <1>1, <1>4, <1>6 DEF A, B

\* A request with another status.
As(r, status) == [r EXCEPT !.status = status]

LEMMA AsFits ==
  ASSUME TypeInv, NEW q \in Requests, NEW r \in Views(q),
         NEW status \in {"PENDING", "ACCEPTED", "REJECTED", "UNSPECIFIED"}
  PROVE  /\ Fits(q, As(r, status)) /\ As(r, status) \in Request
         /\ As(r, status).requester = r.requester /\ As(r, status).receiver = r.receiver
         /\ As(r, status).status = status
<1>1. r \in Request /\ r.requester # r.receiver
  BY ViewFits
<1>2. /\ As(r, status).requester = r.requester /\ As(r, status).receiver = r.receiver
      /\ As(r, status).status = status /\ As(r, status) \in Request
  BY <1>1 DEF As, Request
<1> QED
  BY <1>1, <1>2, Apart DEF Fits

\* The siblings of a request, in some order.
LEMMA SiblingsDo ==
  ASSUME TypeInv, NEW v \in Readings, NEW q \in Requests, NEW S \in SiblingWrites(v, q)
  PROVE  \E W : /\ Does(S, W, {})
                /\ \A w \in W : w[1] \in Siblings(v, q) /\ w[2] = As(v[w[1]], "UNSPECIFIED")
<1> DEFINE n == Cardinality(Siblings(v, q))
<1>1. n \in Nat
  <2>1. IsFiniteSet(Requests) /\ Siblings(v, q) \in SUBSET Requests
    BY UserStoreAssumption DEF Siblings
  <2> QED
    BY <2>1, FS_Subset, FS_CardinalityType
<1>2. PICK order \in [1..n -> Siblings(v, q)] :
        S = FlattenSeq([i \in DOMAIN order |-> Decided(v, order[i], "UNSPECIFIED")])
  BY DEF SiblingWrites, SetToSeqs
<1> HIDE DEF n
<1> DEFINE c(i) == As(v[order[i]], "UNSPECIFIED")
           ss == [i \in 1..n |-> Write(order[i], c(i))]
           Ws == [i \in 1..n |-> {<<order[i], c(i)>>}]
           W  == UNION {Ws[i] : i \in 1..n}
<1>3. S = FlattenSeq(ss)
  BY <1>2 DEF Decided, As
<1>4. \A i \in 1..n : Does(ss[i], Ws[i], {})
  <2> SUFFICES ASSUME NEW i \in 1..n PROVE Does(Write(order[i], c(i)), {<<order[i], c(i)>>}, {})
    OBVIOUS
  <2>1. order[i] \in Siblings(v, q)
    OBVIOUS
  <2>2. order[i] \in Requests /\ v[order[i]] # NoFile
    BY <2>1 DEF Siblings, Pending
  <2>3. v[order[i]] \in Views(order[i])
    BY <2>2, ReadingViews
  <2>4. Fits(order[i], c(i))
    BY <2>2, <2>3, AsFits
  <2> QED
    BY <2>2, <2>4, DoesWrite DEF Files
<1>5. ss = [i \in 1..n |-> ss[i]]
  OBVIOUS
<1>6. ASSUME NEW w \in W PROVE w[1] \in Siblings(v, q) /\ w[2] = As(v[w[1]], "UNSPECIFIED")
  <2>1. PICK i \in 1..n : w = <<order[i], c(i)>>
    OBVIOUS
  <2>2. order[i] \in Siblings(v, q)
    OBVIOUS
  <2> QED
    BY <2>1, <2>2
<1> HIDE DEF ss, Ws
<1>7. Does(FlattenSeq(ss), W, {})
  BY <1>1, <1>4, <1>5, DoesAll
<1> QED
  BY <1>3, <1>6, <1>7

\* A decision d by the reading v, of the friends' profiles A and B first where there are any,
\* and of the siblings by the plan S behind it.
Responds(q, accept, v, S, W) ==
  LET r == v[q]
      A == Having(r.requester, disk[r.requester].friends \cup {r.receiver})
      B == Having(r.receiver, disk[r.receiver].friends \cup {r.requester})
      d == As(r, IF accept THEN "ACCEPTED" ELSE "REJECTED")
      V == (IF accept THEN {<<r.requester, A>>, <<r.receiver, B>>, <<Index, {}>>} ELSE {})
             \cup {<<q, d>>} \cup W IN
  /\ Pending(v, q) /\ r \in Views(q) /\ IsThere(r.receiver)
  /\ accept => IsThere(r.requester)
  /\ Does(S, W, {})
  /\ \A w \in W : w[1] \in Siblings(v, q) /\ w[2] = As(v[w[1]], "UNSPECIFIED")
  /\ accept => /\ todo' = (((Save(r.requester, A) \o Save(r.receiver, B)) \o Write(q, d)) \o S) \o Answer(q)
               /\ Does(Save(r.requester, A), {<<r.requester, A>>, <<Index, {}>>}, {})
               /\ Does(Save(r.receiver, B), {<<r.receiver, B>>, <<Index, {}>>}, {})
  /\ ~accept => todo' = (Write(q, d) \o S) \o Answer(q)
  /\ Does(Write(q, d), {<<q, d>>}, {})
  /\ Handled(V, {q})
  /\ \E X : todo' = X \o Answer(q) /\ Does(X, V, {})
  /\ books' = books /\ deleted' = deleted

LEMMA RespondDoes ==
  ASSUME TypeInv, NEW q \in Requests, NEW accept \in BOOLEAN, HandleRespondFriendRequest(q, accept)
  PROVE  \E v, S, W : v \in Readings /\ Responds(q, accept, v, S, W)
<1>1. PICK v \in Readings :
        /\ Pending(v, q) /\ IsThere(v[q].receiver)
        /\ accept => IsThere(v[q].requester)
        /\ \E siblings \in SiblingWrites(v, q) :
             todo' = (IF accept THEN AcceptWrites(v, q) ELSE Decided(v, q, "REJECTED"))
                       \o siblings \o Answer(q)
  BY DEF HandleRespondFriendRequest
<1>2. PICK S \in SiblingWrites(v, q) :
        todo' = (IF accept THEN AcceptWrites(v, q) ELSE Decided(v, q, "REJECTED")) \o S \o Answer(q)
  BY <1>1
<1>3. PICK W : /\ Does(S, W, {})
               /\ \A w \in W : w[1] \in Siblings(v, q) /\ w[2] = As(v[w[1]], "UNSPECIFIED")
  BY SiblingsDo
<1>4. todo = <<>> /\ UNCHANGED <<disk, temp, answered, crashes, books, deleted>>
  BY DEF HandleRespondFriendRequest, Begin
<1> DEFINE r == v[q]
           A == Having(r.requester, disk[r.requester].friends \cup {r.receiver})
           B == Having(r.receiver, disk[r.receiver].friends \cup {r.requester})
           d == As(r, IF accept THEN "ACCEPTED" ELSE "REJECTED")
           WA == {<<r.requester, A>>, <<Index, {}>>}
           WB == {<<r.receiver, B>>, <<Index, {}>>}
           N == IF accept THEN WA \cup WB ELSE {}
<1>5. r \in Views(q)
  BY <1>1, ReadingViews DEF Pending
<1>6. r \in Request /\ r.requester # r.receiver
  BY <1>5, ViewFits
<1>7. r.requester \in Users /\ r.receiver \in Users
  BY <1>6 DEF Request
<1>8. Does(Write(q, d), {<<q, d>>}, {})
  <2>1. Fits(q, d)
    BY <1>5, AsFits
  <2> QED
    BY <2>1, DoesWrite DEF Files
<1>9. Does(Answer(q), {}, {q})
  BY DoesAnswer
<1>10. ASSUME accept
       PROVE  /\ todo' = (((Save(r.requester, A) \o Save(r.receiver, B)) \o Write(q, d)) \o S) \o Answer(q)
              /\ Does(Save(r.requester, A), WA, {}) /\ Does(Save(r.receiver, B), WB, {})
  <2>1. FriendsOf(r.requester) = disk[r.requester].friends /\ FriendsOf(r.receiver) = disk[r.receiver].friends
    BY <1>1, <1>10 DEF FriendsOf
  <2>2. todo' = (((Save(r.requester, A) \o Save(r.receiver, B)) \o Write(q, d)) \o S) \o Answer(q)
    BY <1>2, <1>10, <2>1 DEF AcceptWrites, Linked, SaveFriends, Decided, As, Having
  <2>3. Fits(r.requester, A)
    <3>1. /\ disk[r.requester].friends \cup {r.receiver} \in SUBSET Users
          /\ r.requester \notin disk[r.requester].friends \cup {r.receiver}
      BY <1>1, <1>6, <1>7, <1>10, UserThere DEF Profile
    <3> QED
      BY <1>1, <1>7, <1>10, <3>1, HavingFits
  <2>4. Fits(r.receiver, B)
    <3>1. /\ disk[r.receiver].friends \cup {r.requester} \in SUBSET Users
          /\ r.receiver \notin disk[r.receiver].friends \cup {r.requester}
      BY <1>1, <1>6, <1>7, UserThere DEF Profile
    <3> QED
      BY <1>1, <1>7, <3>1, HavingFits
  <2> HIDE DEF A, B
  <2> QED
    BY <1>7, <2>2, <2>3, <2>4, DoesSave
<1>11. ASSUME ~accept PROVE todo' = (Write(q, d) \o S) \o Answer(q)
  BY <1>2, <1>11 DEF Decided, As
<1> HIDE DEF A, B, d, WA, WB, r
<1> DEFINE V == N \cup {<<q, d>>} \cup W
<1>12. \E X : todo' = X \o Answer(q) /\ Does(X, V, {})
  <2>1. CASE accept
    <3> DEFINE X == ((Save(r.requester, A) \o Save(r.receiver, B)) \o Write(q, d)) \o S
    <3>1. Does(Save(r.requester, A) \o Save(r.receiver, B), WA \cup WB, {} \cup {})
      BY <1>10, <2>1, DoesBoth
    <3>2. Does((Save(r.requester, A) \o Save(r.receiver, B)) \o Write(q, d),
               (WA \cup WB) \cup {<<q, d>>}, ({} \cup {}) \cup {})
      BY <1>8, <3>1, DoesBoth
    <3>3. Does(X, ((WA \cup WB) \cup {<<q, d>>}) \cup W, (({} \cup {}) \cup {}) \cup {})
      BY <1>3, <3>2, DoesBoth
    <3>4. ((WA \cup WB) \cup {<<q, d>>}) \cup W = V /\ (({} \cup {}) \cup {}) \cup {} = {}
      BY <2>1
    <3>5. todo' = X \o Answer(q)
      BY <1>10, <2>1
    <3> HIDE DEF X, V
    <3> QED
      BY <3>3, <3>4, <3>5
  <2>2. CASE ~accept
    <3> DEFINE X == Write(q, d) \o S
    <3>1. Does(X, {<<q, d>>} \cup W, {} \cup {})
      BY <1>3, <1>8, DoesBoth
    <3>2. {<<q, d>>} \cup W = V /\ {} \cup {} = {}
      BY <2>2
    <3>3. todo' = X \o Answer(q)
      BY <1>11, <2>2
    <3> HIDE DEF X, V
    <3> QED
      BY <3>1, <3>2, <3>3
  <2> QED
    BY <2>1, <2>2
<1> HIDE DEF V
<1>13. Handled(V, {q})
  <2>1. PICK X : todo' = X \o Answer(q) /\ Does(X, V, {})
    BY <1>12
  <2>2. Does(X \o Answer(q), V \cup {}, {} \cup {q})
    BY <1>9, <2>1, DoesBoth
  <2>3. V \cup {} = V /\ {} \cup {q} = {q}
    OBVIOUS
  <2>4. Does(todo', V, {q})
    BY <2>1, <2>2, <2>3
  <2> QED
    BY <1>4, <2>4 DEF Handled
<1>14. V = (IF accept THEN {<<r.requester, A>>, <<r.receiver, B>>, <<Index, {}>>} ELSE {}) \cup {<<q, d>>} \cup W
  BY DEF WA, WB, V
<1> QED
  BY <1>1, <1>3, <1>4, <1>5, <1>8, <1>10, <1>11, <1>12, <1>13, <1>14 DEF Responds, WA, WB, r, A, B, d

\* What a decision writes, by what each file gets.
LEMMA RespondWrites ==
  ASSUME TypeInv, NEW q \in Requests, NEW accept \in BOOLEAN, HandleRespondFriendRequest(q, accept)
  PROVE  \E W, X :
           /\ Handled(W, {q}) /\ todo' = X \o Answer(q) /\ Does(X, W, {})
           /\ \A w \in W :
                \/ w = <<Index, {}>>
                \/ /\ w[1] \in Users /\ IsThere(w[1])
                   /\ w[2].account = disk[w[1]].account /\ w[2].coins = disk[w[1]].coins
                \/ w[1] \in Requests /\ w[2].status # "PENDING"
           /\ \E w \in W : w[1] = q
           /\ books' = books /\ deleted' = deleted
<1>0. PICK v, S, W : v \in Readings /\ Responds(q, accept, v, S, W)
  BY RespondDoes
<1> DEFINE r == v[q]
           A == Having(r.requester, disk[r.requester].friends \cup {r.receiver})
           B == Having(r.receiver, disk[r.receiver].friends \cup {r.requester})
           d == As(r, IF accept THEN "ACCEPTED" ELSE "REJECTED")
           N == IF accept THEN {<<r.requester, A>>, <<r.receiver, B>>, <<Index, {}>>} ELSE {}
           V == N \cup {<<q, d>>} \cup W
<1>1. /\ r \in Views(q) /\ IsThere(r.receiver)
      /\ accept => IsThere(r.requester)
      /\ \A w \in W : w[1] \in Siblings(v, q) /\ w[2] = As(v[w[1]], "UNSPECIFIED")
  BY <1>0 DEF Responds
<1>2. /\ Handled(V, {q}) /\ \E X : todo' = X \o Answer(q) /\ Does(X, V, {})
      /\ books' = books /\ deleted' = deleted
  BY <1>0 DEF Responds
<1>3. ASSUME accept
      PROVE  /\ r.requester \in Users /\ IsThere(r.requester)
             /\ A.account = disk[r.requester].account /\ A.coins = disk[r.requester].coins
             /\ r.receiver \in Users /\ IsThere(r.receiver)
             /\ B.account = disk[r.receiver].account /\ B.coins = disk[r.receiver].coins
  <2>1. r \in Request
    BY <1>1, ViewFits
  <2>2. r.requester \in Users /\ r.receiver \in Users
    BY <2>1 DEF Request
  <2>3. disk[r.requester] \in Profile /\ disk[r.receiver] \in Profile
    BY <1>1, <1>3, <2>2, UserThere
  <2> QED
    BY <1>1, <1>3, <2>2, <2>3 DEF Having, Profile
<1>4. d.status # "PENDING"
  BY <1>1, AsFits
<1>5. ASSUME NEW w \in W PROVE w[1] \in Requests /\ w[2].status # "PENDING"
  <2>1. w[1] \in Requests /\ v[w[1]] # NoFile /\ w[2] = As(v[w[1]], "UNSPECIFIED")
    BY <1>1 DEF Siblings, Pending
  <2>2. v[w[1]] \in Views(w[1])
    BY <1>0, <2>1, ReadingViews
  <2> QED
    BY <2>1, <2>2, AsFits
<1> HIDE DEF A, B, d, r
<1>6. \A w \in V : \/ w = <<Index, {}>>
                   \/ /\ w[1] \in Users /\ IsThere(w[1])
                      /\ w[2].account = disk[w[1]].account /\ w[2].coins = disk[w[1]].coins
                   \/ w[1] \in Requests /\ w[2].status # "PENDING"
  BY <1>3, <1>4, <1>5
<1>7. \E w \in V : w[1] = q
  <2>1. <<q, d>> \in V
    OBVIOUS
  <2> HIDE DEF V
  <2> QED
    BY <2>1
<1> HIDE DEF V
<1> QED
  BY <1>2, <1>6, <1>7

-----------------------------------------------------------------------------
(* Types.                                                                  *)

\* A plan begins with no step in the middle of a write.
LEMMA PlanBegins ==
  ASSUME NEW t \in Plans, t # <<>>
  PROVE  Head(t).op # "rename" /\ (Head(t).op = "remove" => Head(t).file \notin Requests)
<1>1. t \in Seq(Steps) /\ Starts(t[1])
  BY DEF Plans, Rows
<1>2. Head(t) = t[1]
  BY <1>1
<1> QED
  BY <1>1, <1>2 DEF Starts

LEMMA TypeHandled ==
  ASSUME TypeInv, NEW W, NEW A, Handled(W, A), deleted' \subseteq Users \X Users,
         books' \in [coins : [Users -> Int], likes : Nat]
  PROVE  TypeInv' /\ WritingInv'
<1>1. todo' \in Plans /\ todo' \in Rows /\ UNCHANGED <<disk, temp, answered, crashes>>
  BY DEF Handled, Does, Plans
<1>2. TypeInv'
  BY <1>1 DEF TypeInv, IsThere
<1>3. WritingInv'
  BY <1>1, PlanBegins DEF WritingInv
<1> QED
  BY <1>2, <1>3

LEMMA TypeFileStep ==
  ASSUME TypeInv, WritingInv, FileStep
  PROVE  TypeInv' /\ WritingInv'
<1> DEFINE s == Head(todo)
<1>1. /\ todo # <<>> /\ s \in Steps /\ s \in Range(todo)
      /\ Opened(s) \/ Written(s) \/ Removed(s) \/ Renamed(s) \/ Answered(s)
      /\ s.op # "answer" => s \in FileSteps
      /\ s.op = "answer" => s.file \in Accounts \cup Requests
      /\ todo' = Tail(todo) /\ todo' \in Rows
      /\ UNCHANGED <<books, deleted, crashes, changes>>
  BY FileStepDoes
<1>2. todo' # <<>> => Follows(s, Head(todo'))
  BY <1>1, RowTail DEF TypeInv
<1>3. WritingInv => (s.op \in {"remove", "rename"} /\ s.file \in Requests => temp[s.file] = s.content)
  BY <1>1 DEF WritingInv
<1> HIDE DEF s
<1>4. /\ disk \in [Files -> Contents \cup {NoFile, Gone}]
      /\ \A f \in Files : IsThere(f) => Fits(f, disk[f])
      /\ temp \in [Requests -> Request \cup {NoFile, Torn}]
      /\ \A q \in Requests : temp[q] \in Request => Fits(q, temp[q])
  BY DEF TypeInv
<1>5. s.op # "answer" => s.file \in Files /\ s.content \in Contents /\ Fits(s.file, s.content)
  BY <1>1 DEF FileSteps
<1>6. s.file \in Requests /\ s.op # "answer" => s.content \in Request
  BY <1>5 DEF Fits
<1>7. /\ disk' \in [Files -> Contents \cup {NoFile, Gone}]
      /\ \A f \in Files : IsThere(f)' => Fits(f, disk'[f])
  <2>1. CASE Opened(s) \/ Written(s) \/ Answered(s)
    <3>1. disk' = disk
      BY <2>1 DEF Opened, Written, Answered
    <3> QED
      BY <1>4, <3>1 DEF IsThere
  <2>2. CASE Removed(s)
    <3>1. disk' = [disk EXCEPT ![s.file] = IF IsThere(s.file) THEN Gone ELSE @]
      BY <2>2 DEF Removed
    <3>2. \A f \in Files : disk'[f] = disk[f] \/ disk'[f] = Gone
      BY <1>4, <3>1
    <3> QED
      BY <1>4, <3>1, <3>2 DEF IsThere
  <2>3. CASE Renamed(s)
    <3>1. disk' = [disk EXCEPT ![s.file] = s.content] /\ s.op = "rename"
      BY <2>3 DEF Renamed
    <3>2. s.content \in Contents /\ s.file \in Files /\ Fits(s.file, s.content)
      BY <1>5, <3>1
    <3>3. \A f \in Files : disk'[f] = IF f = s.file THEN s.content ELSE disk[f]
      BY <1>4, <3>1
    <3>4. disk' \in [Files -> Contents \cup {NoFile, Gone}]
      BY <1>4, <3>1, <3>2
    <3> QED
      BY <1>4, <3>2, <3>3, <3>4 DEF IsThere
  <2> QED
    BY <1>1, <2>1, <2>2, <2>3
<1>8. /\ temp' \in [Requests -> Request \cup {NoFile, Torn}]
      /\ \A q \in Requests : temp'[q] \in Request => Fits(q, temp'[q])
  <2>0. NoFile \notin Request /\ Torn \notin Request
    BY Apart
  <2>1. CASE Removed(s) \/ Answered(s)
    BY <1>4, <2>1 DEF Removed, Answered
  <2>2. CASE Opened(s)
    BY <1>4, <2>0, <2>2 DEF Opened
  <2>3. CASE Written(s)
    <3>1. temp' = [temp EXCEPT ![s.file] = s.content] /\ s.op = "write" /\ s.file \in Requests
      BY <2>3 DEF Written
    <3>2. s.content \in Request /\ Fits(s.file, s.content)
      BY <1>5, <1>6, <3>1
    <3> QED
      BY <1>4, <3>1, <3>2
  <2>4. CASE Renamed(s)
    BY <1>4, <2>0, <2>4 DEF Renamed
  <2> QED
    BY <1>1, <2>1, <2>2, <2>3, <2>4
<1>9. answered' \subseteq Accounts \cup Requests /\ IsFiniteSet(answered')
  <2>1. CASE Answered(s)
    <3>1. answered' = answered \cup {s.file} /\ s.file \in Accounts \cup Requests
      BY <1>1, <2>1 DEF Answered
    <3> QED
      BY <3>1, FS_AddElement DEF TypeInv
  <2>2. CASE ~Answered(s)
    <3>1. answered' = answered
      BY <1>1, <2>2 DEF Opened, Written, Removed, Renamed
    <3> QED
      BY <3>1 DEF TypeInv
  <2> QED
    BY <2>1, <2>2
<1>10. TypeInv'
  BY <1>1, <1>7, <1>8, <1>9 DEF TypeInv
<1>11. WritingInv'
  <2> DEFINE h == Head(todo')
  <2> SUFFICES ASSUME todo' # <<>>, h.op \in {"remove", "rename"}, h.file \in Requests
               PROVE  temp'[h.file] = h.content
    BY DEF WritingInv
  <2>1. Follows(s, h)
    BY <1>2
  <2> HIDE DEF h
  <2>2. CASE h.op = "remove"
    <3>1. s.op = "write"
      BY <2>1, <2>2 DEF Follows
    <3>2. h = Step("remove", s.file, s.content) /\ Written(s)
      BY <1>1, <2>1, <3>1 DEF Follows, Opened, Removed, Renamed, Answered
    <3> QED
      BY <1>4, <3>2 DEF Written, Step
  <2>3. CASE h.op = "rename"
    <3>1. s.op = "remove"
      BY <2>1, <2>3 DEF Follows
    <3>2. h = Step("rename", s.file, s.content) /\ Removed(s)
      BY <1>1, <2>1, <3>1 DEF Follows, Opened, Written, Renamed, Answered
    <3> QED
      BY <1>3, <3>1, <3>2 DEF Removed, Step
  <2> QED
    BY <2>2, <2>3
<1> QED
  BY <1>10, <1>11

LEMMA TypeCrash ==
  ASSUME TypeInv, Crash
  PROVE  TypeInv' /\ WritingInv'
<1>1. /\ todo' = <<>> /\ crashes' = crashes + 1 /\ crashes < MaxCrashes
      /\ books' = [coins |-> [u \in Users |-> IF IsThere(u) THEN disk[u].coins ELSE 0],
                   likes |-> LikesOn(disk)]
      /\ UNCHANGED <<disk, temp, answered, deleted>>
  BY DEF Crash
<1>2. \A u \in Users : IsThere(u) => disk[u].coins \in Int
  BY UserThere DEF Profile
<1>3. books' \in [coins : [Users -> Int], likes : Nat]
  BY <1>1, <1>2, LikesOnType
<1>4. crashes' \in Nat /\ crashes' <= MaxCrashes
  BY <1>1, UserStoreAssumption DEF TypeInv
<1>5. todo' \in Rows
  BY <1>1, EmptyPlan DEF Plans
<1>6. TypeInv'
  BY <1>1, <1>3, <1>4, <1>5 DEF TypeInv, IsThere
<1> QED
  BY <1>1, <1>6 DEF WritingInv

\* The handlers.
Handling ==
  \/ LoadLocked \/ HandleFetchSystemStats \/ HandleSubmitSupportLike
  \/ \E account \in Accounts : HandleRegister(account)
  \/ \E u \in Users :
       \/ HandleChangeOfUser(u) \/ HandleResetPasswordOfDefault(u)
       \/ HandleClaimSupportLikeReward(u)
  \/ \E scores \in Results : \E players \in Seatings(Len(scores)) :
       PersistFinishedRoomScores(players, scores)
  \/ \E a, b \in Users : HandleAddFriend(a, b) \/ HandleDeleteFriend(a, b)
  \/ \E q \in Requests, accept \in BOOLEAN : HandleRespondFriendRequest(q, accept)

LEMMA NextIs == [Next]_vars => FileStep \/ Crash \/ Handling \/ UNCHANGED vars
  BY DEF Next, StoreNext, Handling

ScoreOf(players, scores, u) == scores[CHOOSE i \in DOMAIN players : players[i] = u]

LEMMA PlayerScore ==
  ASSUME NEW scores \in Results, NEW players \in Seatings(Len(scores)), NEW i \in 1..Len(scores)
  PROVE  /\ players[i] \in Range(players) /\ scores[i] \in Int
         /\ ScoreOf(players, scores, players[i]) = scores[i]
<1>1. /\ scores \in Seq(Int) /\ players \in [1..Len(scores) -> Users] /\ DOMAIN players = 1..Len(scores)
      /\ \A j, k \in 1..Len(scores) : players[j] = players[k] => j = k
  BY UserStoreAssumption DEF Seatings
<1>2. (CHOOSE j \in DOMAIN players : players[j] = players[i]) = i
  BY <1>1
<1> QED
  BY <1>1, <1>2 DEF Range, ScoreOf

\* What a result books.
LEMMA BookedIs ==
  ASSUME TypeInv, NEW scores \in Results, NEW players \in Seatings(Len(scores))
  PROVE  LET pays == [u \in Range(players) |-> scores[CHOOSE i \in DOMAIN players : players[i] = u]]
         IN  /\ Booked(pays) \in [Users -> Int]
             /\ \A i \in 1..Len(scores) : IsThere(players[i]) =>
                  Booked(pays)[players[i]] = books.coins[players[i]] + scores[i]
             /\ \A u \in Users : IsThere(u) =>
                  \/ Booked(pays)[u] = books.coins[u]
                  \/ \E i \in 1..Len(scores) : u = players[i]
<1> DEFINE pays == [u \in Range(players) |-> scores[CHOOSE i \in DOMAIN players : players[i] = u]]
<1>1. /\ players \in [1..Len(scores) -> Users]
      /\ \A u \in Range(players) : \E i \in 1..Len(scores) : u = players[i]
  BY DEF Seatings, Range
<1>2. DOMAIN pays = Range(players)
  OBVIOUS
<1>3. \A i \in 1..Len(scores) : players[i] \in Range(players) /\ pays[players[i]] = scores[i] /\ scores[i] \in Int
  <2> SUFFICES ASSUME NEW i \in 1..Len(scores)
               PROVE  players[i] \in Range(players) /\ pays[players[i]] = scores[i] /\ scores[i] \in Int
    OBVIOUS
  <2>1. /\ players[i] \in Range(players) /\ scores[i] \in Int
        /\ ScoreOf(players, scores, players[i]) = scores[i]
    BY PlayerScore
  <2>2. pays[players[i]] = ScoreOf(players, scores, players[i])
    BY <2>1 DEF ScoreOf
  <2> QED
    BY <2>1, <2>2
<1>4. ASSUME NEW u \in Range(players) PROVE pays[u] \in Int
  <2>1. PICK i \in 1..Len(scores) : u = players[i]
    BY <1>1
  <2>2. pays[players[i]] = scores[i] /\ scores[i] \in Int
    BY <1>3
  <2> QED
    BY <2>1, <2>2
<1>5. books.coins \in [Users -> Int]
  BY DEF TypeInv
<1> HIDE DEF pays
<1>6. \A u \in Users : Booked(pays)[u] = books.coins[u] + IF u \in Range(players) /\ IsThere(u) THEN pays[u] ELSE 0
  BY <1>2 DEF Booked
<1>7. Booked(pays) \in [Users -> Int]
  BY <1>2, <1>4, <1>5 DEF Booked
<1>8. ASSUME NEW i \in 1..Len(scores), IsThere(players[i])
      PROVE  Booked(pays)[players[i]] = books.coins[players[i]] + scores[i]
  BY <1>1, <1>3, <1>6, <1>8
<1>9. ASSUME NEW u \in Users, IsThere(u)
      PROVE  Booked(pays)[u] = books.coins[u] \/ \E i \in 1..Len(scores) : u = players[i]
  BY <1>1, <1>5, <1>6, <1>9
<1> QED
  BY <1>7, <1>8, <1>9 DEF pays

LEMMA TypeHandling ==
  ASSUME TypeInv, Handling
  PROVE  TypeInv' /\ WritingInv'
<1>0. /\ deleted \subseteq Users \X Users
      /\ books \in [coins : [Users -> Int], likes : Nat]
      /\ InitialCoins \in Int /\ RewardCoins \in Int
  BY DEF TypeInv, InitialCoins, RewardCoins
<1>1. \A u \in Users : [books EXCEPT !.coins[u] = InitialCoins] \in [coins : [Users -> Int], likes : Nat]
  BY <1>0
<1>2. CASE LoadLocked
  <2>1. PICK new, W : /\ Handled(W \cup {<<Index, {}>>}, {}) /\ deleted' = deleted
                      /\ books' = [books EXCEPT !.coins = [u \in Users |->
                                     IF u \in new THEN InitialCoins ELSE books.coins[u]]]
    BY <1>2, LoadDoes
  <2>2. [u \in Users |-> IF u \in new THEN InitialCoins ELSE books.coins[u]] \in [Users -> Int]
    BY <1>0
  <2>3. books' \in [coins : [Users -> Int], likes : Nat]
    BY <1>0, <2>1, <2>2
  <2> QED
    BY <1>0, <2>1, <2>3, TypeHandled
<1>3. CASE HandleFetchSystemStats
  BY <1>0, <1>3, FetchDoes, TypeHandled
<1>4. CASE HandleSubmitSupportLike
  BY <1>0, <1>4, SubmitDoes, TypeHandled
<1>5. ASSUME NEW account \in Accounts, HandleRegister(account) PROVE TypeInv' /\ WritingInv'
  BY <1>0, <1>1, <1>5, RegisterDoes, TypeHandled
<1>6. ASSUME NEW u \in Users, HandleChangeOfUser(u) PROVE TypeInv' /\ WritingInv'
  BY <1>0, <1>6, ChangeDoes, TypeHandled
<1>7. ASSUME NEW u \in Users, HandleResetPasswordOfDefault(u) PROVE TypeInv' /\ WritingInv'
  BY <1>0, <1>1, <1>7, ResetDoes, TypeHandled
<1>8. ASSUME NEW u \in Users, HandleClaimSupportLikeReward(u) PROVE TypeInv' /\ WritingInv'
  <2>1. PICK W : /\ Handled(W, {}) /\ deleted' = deleted
                 /\ books' = [coins |-> [books.coins EXCEPT ![u] = @ + RewardCoins],
                              likes |-> books.likes + 1]
    BY <1>8, ClaimDoes
  <2>2. books' \in [coins : [Users -> Int], likes : Nat]
    BY <1>0, <2>1
  <2> QED
    BY <1>0, <2>1, <2>2, TypeHandled
<1>9. ASSUME NEW scores \in Results, NEW players \in Seatings(Len(scores)),
             PersistFinishedRoomScores(players, scores)
      PROVE  TypeInv' /\ WritingInv'
  <2> DEFINE pays == [u \in Range(players) |-> scores[CHOOSE i \in DOMAIN players : players[i] = u]]
  <2>1. PICK W : Handled(W, {}) /\ books' = [books EXCEPT !.coins = Booked(pays)] /\ deleted' = deleted
    BY <1>9, PersistDoes
  <2>2. Booked(pays) \in [Users -> Int]
    BY BookedIs
  <2> HIDE DEF pays
  <2>3. books' \in [coins : [Users -> Int], likes : Nat]
    BY <1>0, <2>1, <2>2
  <2> QED
    BY <1>0, <2>1, <2>3, TypeHandled
<1>10. ASSUME NEW a \in Users, NEW b \in Users, HandleAddFriend(a, b) PROVE TypeInv' /\ WritingInv'
  <2>1. PICK W, A : Handled(W, A) /\ books' = books /\ deleted' = deleted
    BY <1>10, AddDoes
  <2> QED
    BY <1>0, <2>1, TypeHandled
<1>11. ASSUME NEW a \in Users, NEW b \in Users, HandleDeleteFriend(a, b) PROVE TypeInv' /\ WritingInv'
  <2>1. PICK W : Handled(W, {}) /\ books' = books /\ deleted' = deleted \cup {<<a, b>>}
    BY <1>11, DeleteDoes
  <2>2. deleted' \subseteq Users \X Users
    BY <1>0, <2>1
  <2> QED
    BY <1>0, <2>1, <2>2, TypeHandled
<1>12. ASSUME NEW q \in Requests, NEW accept \in BOOLEAN, HandleRespondFriendRequest(q, accept)
       PROVE  TypeInv' /\ WritingInv'
  <2>1. PICK W, A : Handled(W, A) /\ books' = books /\ deleted' = deleted
    BY <1>12, RespondWrites
  <2> QED
    BY <1>0, <2>1, TypeHandled
<1> QED
  BY <1>2, <1>3, <1>4, <1>5, <1>6, <1>7, <1>8, <1>9, <1>10, <1>11, <1>12 DEF Handling

LEMMA TypeNext == TypeInv /\ WritingInv /\ [Next]_vars => TypeInv' /\ WritingInv'
<1> SUFFICES ASSUME TypeInv, WritingInv, [Next]_vars PROVE TypeInv' /\ WritingInv'
  OBVIOUS
<1>1. CASE UNCHANGED vars
  BY <1>1 DEF vars, TypeInv, WritingInv, IsThere
<1> QED
  BY <1>1, NextIs, TypeFileStep, TypeCrash, TypeHandling

LEMMA TypeInit == Init => TypeInv /\ WritingInv
<1> SUFFICES ASSUME Init PROVE TypeInv /\ WritingInv
  OBVIOUS
<1>1. todo \in Rows
  BY EmptyPlan DEF Init, Plans
<1>2. NoFile \notin Request
  BY Apart
<1>3. books \in [coins : [Users -> Int], likes : Nat]
  BY DEF Init
<1> QED
  BY <1>1, <1>2, <1>3, FS_EmptySet, UserStoreAssumption DEF Init, TypeInv, WritingInv, IsThere

LEMMA RangeTail ==
  ASSUME NEW S, NEW t \in Seq(S), t # <<>>
  PROVE  Range(t) = {Head(t)} \cup Range(Tail(t))
<1> DEFINE u == Tail(t)
<1>1. /\ Len(t) \in Nat \ {0} /\ Head(t) = t[1] /\ DOMAIN t = 1..Len(t) /\ DOMAIN u = 1..Len(u)
      /\ \A i \in 1..Len(u) : i + 1 \in 1..Len(t) /\ u[i] = t[i + 1]
      /\ \A i \in 1..Len(t) : i # 1 => i - 1 \in 1..Len(u) /\ u[i - 1] = t[i]
  BY TailAt
<1> HIDE DEF u
<1>2. 1 \in 1..Len(t)
  BY <1>1
<1>3. ASSUME NEW i \in 1..Len(t) PROVE t[i] \in {Head(t)} \cup Range(u)
  <2>1. CASE i = 1
    BY <1>1, <2>1
  <2>2. CASE i # 1
    <3>1. i - 1 \in DOMAIN u /\ u[i - 1] = t[i]
      BY <1>1, <1>3, <2>2
    <3> QED
      BY <3>1 DEF Range
  <2> QED
    BY <2>1, <2>2
<1>4. Range(u) \subseteq Range(t)
  BY <1>1 DEF Range
<1>5. Range(t) \subseteq {Head(t)} \cup Range(u)
  BY <1>1, <1>3 DEF Range
<1>6. Head(t) \in Range(t)
  BY <1>1, <1>2 DEF Range
<1> QED
  BY <1>4, <1>5, <1>6 DEF u

LEMMA TodoRange ==
  ASSUME TypeInv, FileStep
  PROVE  Range(todo) = {Head(todo)} \cup Range(todo')
<1>1. todo \in Seq(Steps) /\ todo # <<>> /\ todo' = Tail(todo)
  BY DEF TypeInv, Rows, FileStep
<1> QED
  BY <1>1, RangeTail

\* Whether a file of the disk has changed.
LEMMA DiskStep ==
  ASSUME TypeInv, FileStep, NEW f \in Files
  PROVE  LET s == Head(todo) IN
         /\ (s.op = "rename" /\ s.file = f) => disk'[f] = s.content /\ OnFile(s, f) /\ IsThere(f)'
         /\ ~(s.op = "rename" /\ s.file = f) /\ IsThere(f)' => disk'[f] = disk[f] /\ IsThere(f)
         /\ ~(s.op = "remove" /\ s.file = f) /\ IsThere(f) => IsThere(f)'
<1> DEFINE s == Head(todo)
<1>1. /\ Opened(s) \/ Written(s) \/ Removed(s) \/ Renamed(s) \/ Answered(s)
      /\ s.op # "answer" => s \in FileSteps
  BY FileStepDoes
<1> HIDE DEF s
<1>2. disk \in [Files -> Contents \cup {NoFile, Gone}]
  BY DEF TypeInv
<1>3. CASE Opened(s) \/ Written(s) \/ Answered(s)
  BY <1>3 DEF Opened, Written, Answered, IsThere, s
<1>4. CASE Removed(s)
  <2>1. /\ s.op = "remove"
        /\ disk' = [disk EXCEPT ![s.file] = IF IsThere(s.file) THEN Gone ELSE @]
    BY <1>4 DEF Removed
  <2>2. IsThere(f)' => disk'[f] = disk[f]
    BY <1>2, <2>1 DEF IsThere
  <2>3. s.file # f => disk'[f] = disk[f]
    BY <1>2, <2>1
  <2> QED
    BY <2>1, <2>2, <2>3 DEF IsThere, s
<1>5. CASE Renamed(s)
  <2>1. s.op = "rename" /\ disk' = [disk EXCEPT ![s.file] = s.content]
    BY <1>5 DEF Renamed
  <2>2. s.content \in Contents
    BY <1>1, <2>1 DEF FileSteps
  <2>3. s.file = f => disk'[f] = s.content
    BY <1>2, <2>1
  <2>4. s.file # f => disk'[f] = disk[f]
    BY <1>2, <2>1
  <2>5. s.file = f => IsThere(f)'
    BY <2>2, <2>3, Apart DEF IsThere
  <2> QED
    BY <2>1, <2>3, <2>4, <2>5 DEF IsThere, OnFile, s
<1> QED
  BY <1>1, <1>3, <1>4, <1>5

-----------------------------------------------------------------------------
(* The books.                                                              *)

LEMMA CoinsFileStep == ASSUME TypeInv, CoinsInv, FileStep PROVE CoinsInv'
<1> DEFINE s == Head(todo)
<1>1. Range(todo) = {s} \cup Range(todo') /\ books' = books
  BY TodoRange, FileStepDoes
<1> SUFFICES ASSUME NEW u \in Users
             PROVE  /\ \A x \in Range(todo') : OnFile(x, u) => x.content.coins = books.coins[u]
                    /\ IsThere(u)' => disk'[u].coins = books.coins[u] \/ Renames(u)'
  BY <1>1 DEF CoinsInv, OnFile
<1>2. \A x \in Range(todo) : OnFile(x, u) => x.content.coins = books.coins[u]
  BY DEF CoinsInv
<1>3. ASSUME IsThere(u)' PROVE disk'[u].coins = books.coins[u] \/ Renames(u)'
  <2>1. CASE s.op = "rename" /\ s.file = u
    <3>1. disk'[u] = s.content /\ OnFile(s, u)
      BY <2>1, DiskStep DEF Files
    <3> QED
      BY <1>1, <1>2, <3>1
  <2>2. CASE ~(s.op = "rename" /\ s.file = u)
    <3>1. disk'[u] = disk[u] /\ IsThere(u)
      BY <1>3, <2>2, DiskStep DEF Files
    <3>2. disk[u].coins = books.coins[u] \/ Renames(u)
      BY <3>1 DEF CoinsInv
    <3>3. Renames(u) => Renames(u)'
      BY <1>1, <2>2 DEF Renames
    <3> QED
      BY <3>1, <3>2, <3>3
  <2> QED
    BY <2>1, <2>2
<1> QED
  BY <1>1, <1>2, <1>3

LEMMA NothingLeft ==
  ASSUME todo = <<>>
  PROVE  Range(todo) = {} /\ \A f : ~Renames(f)
  BY DEF Range, Renames

LEMMA CoinsHandled ==
  ASSUME TypeInv, CoinsInv, NEW W, NEW A, Handled(W, A),
         \A w \in W : w[1] \in Users => w[2].coins = books'.coins[w[1]],
         \A u \in Users : IsThere(u) => books'.coins[u] = books.coins[u] \/ \E w \in W : w[1] = u
  PROVE  CoinsInv'
<1>1. todo = <<>> /\ disk' = disk /\ Does(todo', W, A)
  BY DEF Handled
<1> SUFFICES ASSUME NEW u \in Users
             PROVE  /\ \A x \in Range(todo') : OnFile(x, u) => x.content.coins = books'.coins[u]
                    /\ IsThere(u)' => disk'[u].coins = books'.coins[u] \/ Renames(u)'
  BY DEF CoinsInv, OnFile
<1>2. ASSUME NEW x \in Range(todo'), OnFile(x, u) PROVE x.content.coins = books'.coins[u]
  <2>1. PICK w \in W : x.file = w[1] /\ x.content = w[2]
    BY <1>1, <1>2 DEF Does, OnFile
  <2> QED
    BY <1>2, <2>1 DEF OnFile
<1>3. ASSUME IsThere(u) PROVE disk[u].coins = books'.coins[u] \/ Renames(u)'
  <2>1. disk[u].coins = books.coins[u]
    BY <1>1, <1>3, NothingLeft DEF CoinsInv
  <2>2. ASSUME NEW w \in W, w[1] = u PROVE Renames(u)'
    BY <1>1, <2>2 DEF Does, Renames, Step
  <2> QED
    BY <1>3, <2>1, <2>2
<1> QED
  BY <1>1, <1>2, <1>3 DEF IsThere

\* What is in no profile yet.
LEMMA FreshIsNew == ASSUME NEW u \in Users, Fresh(u) PROVE ~IsThere(u)
  BY DEF Fresh, IsThere

LEMMA CoinsHandling == ASSUME TypeInv, CoinsInv, Handling PROVE CoinsInv'
<1>0. /\ books \in [coins : [Users -> Int], likes : Nat]
      /\ InitialCoins \in Int /\ RewardCoins \in Int
      /\ \A account : NewUser(account).coins = InitialCoins
      /\ Index \notin Users /\ Likes \notin Users /\ Users \cap Requests = {}
  BY Apart DEF TypeInv, InitialCoins, RewardCoins, NewUser
<1>1. \A W, A : Handled(W, A) => \A u \in Users : IsThere(u) => disk[u].coins = books.coins[u]
  BY NothingLeft DEF Handled, CoinsInv
<1>2. CASE LoadLocked
  <2>1. PICK new, W :
           /\ new \in SUBSET {u \in Users : Missing(u)}
           /\ \A w \in W : \/ \E u \in Profiles : u \notin new /\ w = <<u, disk[u]>>
                           \/ \E u \in new : w = <<u, NewUser(DefaultAccount)>>
           /\ Handled(W \cup {<<Index, {}>>}, {})
           /\ books' = [books EXCEPT !.coins = [u \in Users |->
                          IF u \in new THEN InitialCoins ELSE books.coins[u]]]
    BY <1>2, LoadDoes
  <2>2. \A u \in Users : books'.coins[u] = IF u \in new THEN InitialCoins ELSE books.coins[u]
    BY <1>0, <2>1
  <2>3. \A u \in new : ~IsThere(u)
    BY <2>1, FreshIsNew DEF Missing
  <2>4. ASSUME NEW w \in W \cup {<<Index, {}>>}, w[1] \in Users PROVE w[2].coins = books'.coins[w[1]]
    <3>1. w \in W
      BY <1>0, <2>4
    <3>2. CASE \E u \in Profiles : u \notin new /\ w = <<u, disk[u]>>
      BY <1>1, <2>1, <2>2, <3>2 DEF Profiles
    <3>3. CASE \E u \in new : w = <<u, NewUser(DefaultAccount)>>
      BY <1>0, <2>1, <2>2, <3>3
    <3> QED
      BY <2>1, <3>1, <3>2, <3>3
  <2>5. \A u \in Users : IsThere(u) => books'.coins[u] = books.coins[u]
    BY <2>2, <2>3
  <2> QED
    BY <2>1, <2>4, <2>5, CoinsHandled
<1>3. ASSUME NEW W, NEW A, Handled(W, A), books'.coins = books.coins,
             \A w \in W : w[1] \in Users => IsThere(w[1]) /\ w[2].coins = disk[w[1]].coins
      PROVE  CoinsInv'
  BY <1>1, <1>3, CoinsHandled
<1>4. \A w \in MoreWrites \cup LikesWrites : w[1] = Likes
  BY DEF MoreWrites, LikesWrites
<1>5. CASE HandleFetchSystemStats
  <2>1. Handled(LikesWrites, {}) /\ books' = books
    BY <1>5, FetchDoes
  <2> QED
    BY <1>0, <1>3, <1>4, <2>1
<1>6. CASE HandleSubmitSupportLike
  <2>1. Handled(MoreWrites, {}) /\ books'.coins = books.coins
    BY <1>0, <1>6, SubmitDoes
  <2> QED
    BY <1>0, <1>3, <1>4, <2>1
<1>7. ASSUME NEW u \in Users, NEW account, NEW A, ~IsThere(u),
             Handled({<<u, NewUser(account)>>, <<Index, {}>>}, A),
             books' = [books EXCEPT !.coins[u] = InitialCoins]
      PROVE  CoinsInv'
  <2>1. \A v \in Users : books'.coins[v] = IF v = u THEN InitialCoins ELSE books.coins[v]
    BY <1>0, <1>7
  <2> DEFINE W == {<<u, NewUser(account)>>, <<Index, {}>>}
  <2>2. \A w \in W : w[1] \in Users => w[2].coins = books'.coins[w[1]]
    BY <1>0, <2>1
  <2>3. \A v \in Users : IsThere(v) => books'.coins[v] = books.coins[v]
    BY <1>7, <2>1
  <2> HIDE DEF W
  <2> QED
    BY <1>7, <2>2, <2>3, CoinsHandled DEF W
<1>8. ASSUME NEW account \in Accounts, HandleRegister(account) PROVE CoinsInv'
  BY <1>7, <1>8, RegisterDoes, FreshIsNew
<1>9. ASSUME NEW u \in Users, HandleChangeOfUser(u) PROVE CoinsInv'
  <2>1. IsThere(u) /\ Handled({<<u, disk[u]>>, <<Index, {}>>}, {}) /\ books' = books
    BY <1>9, ChangeDoes
  <2> QED
    BY <1>0, <1>3, <2>1
<1>10. ASSUME NEW u \in Users, HandleResetPasswordOfDefault(u) PROVE CoinsInv'
  BY <1>7, <1>10, ResetDoes, FreshIsNew DEF Missing
<1>11. ASSUME NEW u \in Users, HandleClaimSupportLikeReward(u) PROVE CoinsInv'
  <2> DEFINE W == {<<u, Paid(u, RewardCoins)>>, <<Index, {}>>} \cup MoreWrites
  <2>1. /\ IsThere(u) /\ Handled(W, {})
        /\ books' = [coins |-> [books.coins EXCEPT ![u] = @ + RewardCoins], likes |-> books.likes + 1]
    BY <1>11, ClaimDoes
  <2>2. Paid(u, RewardCoins).coins = disk[u].coins + RewardCoins
    BY <1>0, <2>1, PaidFits
  <2>3. disk[u].coins = books.coins[u]
    BY <1>1, <2>1
  <2>4. \A v \in Users : books'.coins[v] = IF v = u THEN books.coins[u] + RewardCoins ELSE books.coins[v]
    BY <1>0, <2>1
  <2>5. \A w \in W : w[1] \in Users => w = <<u, Paid(u, RewardCoins)>>
    BY <1>0, <1>4
  <2>6. <<u, Paid(u, RewardCoins)>> \in W
    OBVIOUS
  <2> HIDE DEF W
  <2>7. \A w \in W : w[1] \in Users => w[2].coins = books'.coins[w[1]]
    BY <2>2, <2>3, <2>4, <2>5
  <2>8. \A v \in Users : books'.coins[v] = books.coins[v] \/ \E w \in W : w[1] = v
    BY <2>4, <2>6
  <2> QED
    BY <2>1, <2>7, <2>8, CoinsHandled
<1>12. ASSUME NEW scores \in Results, NEW players \in Seatings(Len(scores)),
              PersistFinishedRoomScores(players, scores)
       PROVE  CoinsInv'
  <2> DEFINE pays == [u \in Range(players) |-> scores[CHOOSE i \in DOMAIN players : players[i] = u]]
  <2>1. PICK W :
          /\ \A w \in W : \/ w = <<Index, {}>>
                          \/ \E i \in 1..Len(scores) : IsThere(players[i]) /\
                               w = <<players[i], Paid(players[i], scores[i])>>
          /\ \A i \in 1..Len(scores) :
               IsThere(players[i]) => <<players[i], Paid(players[i], scores[i])>> \in W
          /\ Handled(W, {}) /\ books' = [books EXCEPT !.coins = Booked(pays)]
    BY <1>12, PersistDoes
  <2>2. /\ \A i \in 1..Len(scores) : IsThere(players[i]) =>
             Booked(pays)[players[i]] = books.coins[players[i]] + scores[i]
        /\ \A u \in Users : IsThere(u) =>
             Booked(pays)[u] = books.coins[u] \/ \E i \in 1..Len(scores) : u = players[i]
    BY BookedIs
  <2> HIDE DEF pays
  <2>3. books'.coins = Booked(pays)
    BY <1>0, <2>1
  <2>4. \A i \in 1..Len(scores) : players[i] \in Users /\ scores[i] \in Int
    BY UserStoreAssumption DEF Seatings
  <2>5. ASSUME NEW i \in 1..Len(scores), IsThere(players[i])
        PROVE  Paid(players[i], scores[i]).coins = books'.coins[players[i]]
    <3>1. Paid(players[i], scores[i]).coins = disk[players[i]].coins + scores[i]
      BY <2>4, <2>5, PaidFits
    <3>2. disk[players[i]].coins = books.coins[players[i]]
      BY <1>1, <2>1, <2>4, <2>5
    <3> QED
      BY <2>2, <2>3, <2>5, <3>1, <3>2
  <2>6. \A w \in W : w[1] \in Users => w[2].coins = books'.coins[w[1]]
    BY <1>0, <2>1, <2>5
  <2>7. ASSUME NEW u \in Users, IsThere(u)
        PROVE  books'.coins[u] = books.coins[u] \/ \E w \in W : w[1] = u
    <3>1. ASSUME NEW i \in 1..Len(scores), u = players[i] PROVE \E w \in W : w[1] = u
      <4>1. <<players[i], Paid(players[i], scores[i])>> \in W
        BY <2>1, <2>7, <3>1
      <4> QED
        BY <3>1, <4>1
    <3> QED
      BY <2>2, <2>3, <2>7, <3>1
  <2> QED
    BY <2>1, <2>6, <2>7, CoinsHandled
<1>13. ASSUME NEW a \in Users, NEW b \in Users, HandleAddFriend(a, b) PROVE CoinsInv'
  <2>1. PICK q, r : q \in Requests /\ Handled({<<q, r>>}, {q}) /\ books' = books
    BY <1>13, AddDoes
  <2> QED
    BY <1>0, <1>3, <2>1
<1>14. ASSUME NEW a \in Users, NEW b \in Users, HandleDeleteFriend(a, b) PROVE CoinsInv'
  <2> DEFINE A == Having(a, disk[a].friends \ {b})
             B == Having(b, disk[b].friends \ {a})
             W == {<<a, A>>, <<Index, {}>>} \cup {<<b, B>>, <<Index, {}>>}
  <2>1. IsThere(a) /\ IsThere(b) /\ Handled(W, {}) /\ books' = books
    BY <1>14, DeleteDoes
  <2>2. A.coins = disk[a].coins /\ B.coins = disk[b].coins
    <3>1. disk[a] \in Profile /\ disk[b] \in Profile
      BY <2>1, UserThere
    <3> QED
      BY <3>1 DEF Having, Profile
  <2> HIDE DEF A, B
  <2>3. \A w \in W : w[1] \in Users => IsThere(w[1]) /\ w[2].coins = disk[w[1]].coins
    BY <1>0, <2>1, <2>2
  <2> HIDE DEF W
  <2> QED
    BY <1>3, <2>1, <2>3
<1>15. ASSUME NEW q \in Requests, NEW accept \in BOOLEAN, HandleRespondFriendRequest(q, accept)
       PROVE  CoinsInv'
  <2>1. PICK W : /\ Handled(W, {q}) /\ books' = books
                 /\ \A w \in W :
                      \/ w = <<Index, {}>>
                      \/ w[1] \in Users /\ IsThere(w[1]) /\ w[2].coins = disk[w[1]].coins
                      \/ w[1] \in Requests
    BY <1>15, RespondWrites
  <2>2. \A w \in W : w[1] \in Users => IsThere(w[1]) /\ w[2].coins = disk[w[1]].coins
    BY <1>0, <2>1
  <2> QED
    BY <1>3, <2>1, <2>2
<1> QED
  BY <1>2, <1>5, <1>6, <1>8, <1>9, <1>10, <1>11, <1>12, <1>13, <1>14, <1>15 DEF Handling

LEMMA CoinsNext == TypeInv /\ CoinsInv /\ [Next]_vars => CoinsInv'
<1> SUFFICES ASSUME TypeInv, CoinsInv, [Next]_vars PROVE CoinsInv'
  OBVIOUS
<1>1. CASE Crash
  <2>1. /\ todo' = <<>> /\ disk' = disk
        /\ books' = [coins |-> [u \in Users |-> IF IsThere(u) THEN disk[u].coins ELSE 0],
                     likes |-> LikesOn(disk)]
    BY <1>1 DEF Crash
  <2>2. Range(todo') = {}
    BY <2>1 DEF Range
  <2> QED
    BY <2>1, <2>2 DEF CoinsInv, IsThere
<1>2. CASE UNCHANGED vars
  BY <1>2 DEF vars, CoinsInv, IsThere, Renames
<1> QED
  BY <1>1, <1>2, NextIs, CoinsFileStep, CoinsHandling

-----------------------------------------------------------------------------
(* The likes.                                                              *)

\* The last step at the likes brings n.
LikesEnd(t, n) ==
  \A i \in 1..Len(t) : OnFile(t[i], Likes) =>
    \E j \in 1..Len(t) : i <= j /\ t[j] = Step("rename", Likes, n)

LEMMA LikesEndWrite ==
  ASSUME NEW n \in Nat
  PROVE  /\ LikesEnd(Write(Likes, n), n) /\ Write(Likes, n) \in Seq(Steps)
         /\ Step("rename", Likes, n) \in Range(Write(Likes, n))
<1>1. Likes \in Files /\ Fits(Likes, n) /\ Likes \notin Requests
  BY Apart DEF Files, Fits, Contents
<1>2. Write(Likes, n) \in Plans /\ Step("rename", Likes, n) \in Range(Write(Likes, n))
  BY <1>1, WritePlan
<1>3. Write(Likes, n) = <<Step("remove", Likes, n), Step("rename", Likes, n)>>
  BY <1>1, TwoPairs DEF Write
<1> DEFINE t == <<Step("remove", Likes, n), Step("rename", Likes, n)>>
<1>4. Len(t) = 2 /\ t[2] = Step("rename", Likes, n)
  OBVIOUS
<1> HIDE DEF t
<1>5. LikesEnd(t, n)
  BY <1>4 DEF LikesEnd
<1> QED
  BY <1>2, <1>3, <1>5 DEF t, Plans, Rows

LEMMA LikesEndRow ==
  ASSUME NEW S, NEW s \in Seq(S), NEW t \in Seq(S), NEW n,
         LikesEnd(t, n), Step("rename", Likes, n) \in Range(t)
  PROVE  LikesEnd(s \o t, n) /\ Step("rename", Likes, n) \in Range(s \o t)
<1> DEFINE st == s \o t
<1>1. /\ Len(s) \in Nat /\ Len(t) \in Nat /\ Len(st) = Len(s) + Len(t) /\ DOMAIN t = 1..Len(t)
      /\ \A i \in 1..Len(t) : i + Len(s) \in 1..Len(st) /\ st[i + Len(s)] = t[i]
  OBVIOUS
<1>2. Step("rename", Likes, n) \in Range(st)
  BY RangeOfRow
<1>3. PICK k \in 1..Len(t) : t[k] = Step("rename", Likes, n)
  BY <1>1 DEF Range
<1> HIDE DEF st
<1>4. ASSUME NEW i \in 1..Len(st), OnFile(st[i], Likes)
      PROVE  \E j \in 1..Len(st) : i <= j /\ st[j] = Step("rename", Likes, n)
  <2>1. CASE i <= Len(s)
    <3>1. k + Len(s) \in 1..Len(st) /\ i <= k + Len(s) /\ st[k + Len(s)] = Step("rename", Likes, n)
      BY <1>1, <1>3, <2>1
    <3> QED
      BY <3>1
  <2>2. CASE ~(i <= Len(s))
    <3>1. i - Len(s) \in 1..Len(t) /\ i = (i - Len(s)) + Len(s)
      BY <1>1, <2>2
    <3>2. OnFile(t[i - Len(s)], Likes)
      BY <1>1, <1>4, <3>1
    <3>3. PICK j \in 1..Len(t) : i - Len(s) <= j /\ t[j] = Step("rename", Likes, n)
      BY <3>1, <3>2 DEF LikesEnd
    <3>4. j + Len(s) \in 1..Len(st) /\ i <= j + Len(s) /\ st[j + Len(s)] = Step("rename", Likes, n)
      BY <1>1, <3>3
    <3> QED
      BY <3>4
  <2> QED
    BY <2>1, <2>2
<1> QED
  BY <1>2, <1>4 DEF LikesEnd, st

\* After what is written before a write of the likes, this write is the last.
LEMMA LikesEndMore ==
  ASSUME TypeInv
  PROVE  /\ LikesEnd(OneLikeMore, LikesOn(disk) + 1)
         /\ Step("rename", Likes, LikesOn(disk) + 1) \in Range(OneLikeMore)
         /\ ~IsThere(Likes) => LikesEnd(LikesLoaded, 0) /\ Step("rename", Likes, 0) \in Range(LikesLoaded)
<1>1. LikesLoaded \in Seq(Steps)
  BY LikesDoes DEF Does, Plans, Rows
<1>2. LikesOn(disk) + 1 \in Nat
  BY LikesOnType
<1> DEFINE n == LikesOn(disk) + 1
<1>3. /\ LikesEnd(Write(Likes, n), n) /\ Write(Likes, n) \in Seq(Steps)
      /\ Step("rename", Likes, n) \in Range(Write(Likes, n))
  BY <1>2, LikesEndWrite
<1> HIDE DEF n
<1>4. LikesEnd(LikesLoaded \o Write(Likes, n), n) /\ Step("rename", Likes, n) \in Range(LikesLoaded \o Write(Likes, n))
  BY <1>1, <1>3, LikesEndRow
<1>5. ~IsThere(Likes) => LikesEnd(LikesLoaded, 0) /\ Step("rename", Likes, 0) \in Range(LikesLoaded)
  BY LikesEndWrite DEF LikesLoaded
<1> QED
  BY <1>4, <1>5 DEF n, OneLikeMore

LEMMA LikesFileStep == ASSUME TypeInv, LikesInv, FileStep PROVE LikesInv'
<1> DEFINE s == Head(todo)
           x == Step("rename", Likes, books.likes)
           u == Tail(todo)
<1>1. Range(todo) = {s} \cup Range(todo') /\ books' = books /\ todo' = u
  BY TodoRange, FileStepDoes
<1>2. /\ \A i \in 1..Len(u) : i + 1 \in 1..Len(todo) /\ u[i] = todo[i + 1]
      /\ \A i \in 1..Len(todo) : i # 1 => i - 1 \in 1..Len(u) /\ u[i - 1] = todo[i]
      /\ s = todo[1] /\ 1 \in 1..Len(todo) /\ DOMAIN todo = 1..Len(todo)
  <2>1. todo \in Seq(Steps) /\ todo # <<>>
    BY DEF TypeInv, Rows, FileStep
  <2>2. Len(todo) \in Nat \ {0}
    BY <2>1
  <2> QED
    BY <2>1, <2>2, TailAt
<1> HIDE DEF s, u
<1>3. ASSUME NEW i \in 1..Len(u), OnFile(u[i], Likes) PROVE \E j \in 1..Len(u) : i <= j /\ u[j] = x
  <2>1. i + 1 \in 1..Len(todo) /\ OnFile(todo[i + 1], Likes) /\ i \in Nat
    BY <1>2, <1>3
  <2>2. PICK k \in 1..Len(todo) : i + 1 <= k /\ todo[k] = x
    BY <2>1 DEF LikesInv
  <2>3. k # 1 /\ i <= k - 1
    BY <2>1, <2>2
  <2>4. k - 1 \in 1..Len(u) /\ u[k - 1] = x
    BY <1>2, <2>2, <2>3
  <2> QED
    BY <2>3, <2>4
<1>4. LikesOn(disk') = books.likes \/ x \in Range(todo')
  <2>1. CASE s.op = "rename" /\ s.file = Likes
    <3>1. disk'[Likes] = s.content /\ disk'[Likes] \notin {NoFile, Gone} /\ OnFile(s, Likes)
      BY <2>1, DiskStep DEF s, IsThere, Files
    <3>2. PICK k \in 1..Len(todo) : todo[k] = x
      BY <1>2, <3>1 DEF LikesInv
    <3>3. x \in Range(todo)
      BY <1>2, <3>2 DEF Range
    <3>4. CASE x = s
      <4>1. s.content = books.likes
        BY <3>4 DEF Step
      <4> QED
        BY <3>1, <4>1 DEF LikesOn
    <3> QED
      BY <1>1, <3>3, <3>4
  <2>2. CASE s.op = "remove" /\ s.file = Likes
    <3>1. PICK k \in 1..Len(todo) : todo[k] = x
      BY <1>2, <2>2 DEF LikesInv, OnFile
    <3>2. x \in Range(todo) /\ x # s
      BY <1>2, <2>2, <3>1 DEF Range, Step
    <3> QED
      BY <1>1, <3>2
  <2>3. CASE ~(s.op \in {"remove", "rename"} /\ s.file = Likes)
    <3>1. /\ IsThere(Likes)' => disk'[Likes] = disk[Likes] /\ IsThere(Likes)
          /\ IsThere(Likes) => IsThere(Likes)'
      BY <2>3, DiskStep DEF s, Files
    <3>2. LikesOn(disk') = LikesOn(disk)
      BY <3>1 DEF LikesOn, IsThere
    <3>3. x # s
      BY <2>3 DEF Step
    <3> QED
      BY <1>1, <3>2, <3>3 DEF LikesInv
  <2> QED
    BY <2>1, <2>2, <2>3
<1> QED
  BY <1>1, <1>3, <1>4 DEF LikesInv

\* A handler that leaves the likes alone.
LEMMA LikesAlone ==
  ASSUME TypeInv, LikesInv, NEW W, NEW A, Handled(W, A), books'.likes = books.likes,
         \A w \in W : w[1] # Likes
  PROVE  LikesInv'
<1>1. todo = <<>> /\ disk' = disk /\ Does(todo', W, A) /\ todo' \in Seq(Steps)
  BY DEF Handled, Does, Plans, Rows
<1>2. LikesOn(disk) = books.likes
  BY <1>1, NothingLeft DEF LikesInv
<1>3. ASSUME NEW i \in 1..Len(todo'), OnFile(todo'[i], Likes) PROVE FALSE
  <2>1. DOMAIN todo' = 1..Len(todo')
    BY <1>1
  <2>2. todo'[i] \in Range(todo')
    BY <2>1 DEF Range
  <2> QED
    BY <1>1, <1>3, <2>2 DEF Does, OnFile
<1>4. LikesOn(disk') = books'.likes
  BY <1>1, <1>2
<1> QED
  BY <1>3, <1>4 DEF LikesInv

\* A handler whose last write of the likes is of the booked number.
LEMMA LikesWritten ==
  ASSUME LikesEnd(todo', books'.likes), Step("rename", Likes, books'.likes) \in Range(todo')
  PROVE  LikesInv'
  BY DEF LikesEnd, LikesInv

LEMMA LikesHandling == ASSUME TypeInv, LikesInv, Handling PROVE LikesInv'
<1>0. /\ books \in [coins : [Users -> Int], likes : Nat]
      /\ Index # Likes /\ Likes \notin Users /\ Likes \notin Requests
  BY Apart DEF TypeInv
<1>1. todo = <<>> => LikesOn(disk) = books.likes
  BY NothingLeft DEF LikesInv
<1>2. CASE LoadLocked
  <2>1. PICK new, W :
           /\ new \in SUBSET {u \in Users : Missing(u)}
           /\ \A w \in W : \/ \E u \in Profiles : u \notin new /\ w = <<u, disk[u]>>
                           \/ \E u \in new : w = <<u, NewUser(DefaultAccount)>>
           /\ Handled(W \cup {<<Index, {}>>}, {})
           /\ books' = [books EXCEPT !.coins = [u \in Users |->
                          IF u \in new THEN InitialCoins ELSE books.coins[u]]]
    BY <1>2, LoadDoes
  <2>2. \A w \in W \cup {<<Index, {}>>} : w[1] # Likes
    BY <1>0, <2>1 DEF Profiles
  <2>3. books'.likes = books.likes
    BY <1>0, <2>1
  <2> QED
    BY <2>1, <2>2, <2>3, LikesAlone
<1>3. CASE HandleFetchSystemStats
  <2>1. todo' = LikesLoaded /\ books' = books /\ ~IsThere(Likes) /\ todo = <<>>
    BY <1>3, FetchDoes DEF HandleFetchSystemStats
  <2>2. books'.likes = 0
    BY <1>1, <2>1 DEF LikesOn, IsThere
  <2> QED
    BY <2>1, <2>2, LikesEndMore, LikesWritten
<1>4. CASE HandleSubmitSupportLike
  <2>1. todo' = OneLikeMore /\ books' = [books EXCEPT !.likes = @ + 1] /\ todo = <<>>
    BY <1>4, SubmitDoes DEF HandleSubmitSupportLike
  <2>2. books'.likes = LikesOn(disk) + 1
    BY <1>0, <1>1, <2>1
  <2> QED
    BY <2>1, <2>2, LikesEndMore, LikesWritten
<1>5. ASSUME NEW account \in Accounts, HandleRegister(account) PROVE LikesInv'
  <2>1. PICK u \in Users : /\ Handled({<<u, NewUser(account)>>, <<Index, {}>>}, {account})
                           /\ books' = [books EXCEPT !.coins[u] = InitialCoins]
    BY <1>5, RegisterDoes
  <2>2. books'.likes = books.likes
    BY <1>0, <2>1
  <2> QED
    BY <1>0, <2>1, <2>2, LikesAlone
<1>6. ASSUME NEW u \in Users, HandleChangeOfUser(u) PROVE LikesInv'
  <2>1. Handled({<<u, disk[u]>>, <<Index, {}>>}, {}) /\ books' = books
    BY <1>6, ChangeDoes
  <2> QED
    BY <1>0, <2>1, LikesAlone
<1>7. ASSUME NEW u \in Users, HandleResetPasswordOfDefault(u) PROVE LikesInv'
  <2>1. /\ Handled({<<u, NewUser(DefaultAccount)>>, <<Index, {}>>}, {})
        /\ books' = [books EXCEPT !.coins[u] = InitialCoins]
    BY <1>7, ResetDoes
  <2>2. books'.likes = books.likes
    BY <1>0, <2>1
  <2> QED
    BY <1>0, <2>1, <2>2, LikesAlone
<1>8. ASSUME NEW u \in Users, HandleClaimSupportLikeReward(u) PROVE LikesInv'
  <2> DEFINE first == Save(u, Paid(u, RewardCoins))
  <2>1. /\ todo' = first \o OneLikeMore /\ todo = <<>> /\ books'.likes = books.likes + 1
        /\ Does(first, {<<u, Paid(u, RewardCoins)>>, <<Index, {}>>}, {})
    BY <1>8, ClaimDoes DEF HandleClaimSupportLikeReward, Begin
  <2>2. first \in Seq(Steps) /\ OneLikeMore \in Seq(Steps)
    BY <2>1, LikesDoes DEF Does, Plans, Rows
  <2> HIDE DEF first
  <2>3. /\ LikesEnd(first \o OneLikeMore, LikesOn(disk) + 1)
        /\ Step("rename", Likes, LikesOn(disk) + 1) \in Range(first \o OneLikeMore)
    BY <2>2, LikesEndMore, LikesEndRow
  <2> QED
    BY <1>1, <2>1, <2>3, LikesWritten
<1>9. ASSUME NEW scores \in Results, NEW players \in Seatings(Len(scores)),
             PersistFinishedRoomScores(players, scores)
      PROVE  LikesInv'
  <2>1. PICK W :
          /\ \A w \in W : \/ w = <<Index, {}>>
                          \/ \E i \in 1..Len(scores) : IsThere(players[i]) /\
                               w = <<players[i], Paid(players[i], scores[i])>>
          /\ Handled(W, {})
          /\ books' = [books EXCEPT !.coins = Booked([u \in Range(players) |->
                         scores[CHOOSE i \in DOMAIN players : players[i] = u]])]
    BY <1>9, PersistDoes
  <2>2. books'.likes = books.likes
    BY <1>0, <2>1
  <2>3. \A i \in 1..Len(scores) : players[i] \in Users
    BY DEF Seatings
  <2>4. \A w \in W : w[1] # Likes
    BY <1>0, <2>1, <2>3
  <2> QED
    BY <2>1, <2>2, <2>4, LikesAlone
<1>10. ASSUME NEW a \in Users, NEW b \in Users, HandleAddFriend(a, b) PROVE LikesInv'
  <2>1. PICK q, r : q \in Requests /\ Handled({<<q, r>>}, {q}) /\ books' = books
    BY <1>10, AddDoes
  <2> QED
    BY <1>0, <2>1, LikesAlone
<1>11. ASSUME NEW a \in Users, NEW b \in Users, HandleDeleteFriend(a, b) PROVE LikesInv'
  <2>1. PICK A, B : Handled({<<a, A>>, <<Index, {}>>} \cup {<<b, B>>, <<Index, {}>>}, {}) /\ books' = books
    BY <1>11, DeleteDoes
  <2> QED
    BY <1>0, <2>1, LikesAlone
<1>12. ASSUME NEW q \in Requests, NEW accept \in BOOLEAN, HandleRespondFriendRequest(q, accept)
       PROVE  LikesInv'
  <2>1. PICK W : /\ Handled(W, {q}) /\ books' = books
                 /\ \A w \in W : w = <<Index, {}>> \/ w[1] \in Users \/ w[1] \in Requests
    BY <1>12, RespondWrites
  <2>2. \A w \in W : w[1] # Likes
    BY <1>0, <2>1
  <2> QED
    BY <2>1, <2>2, LikesAlone
<1> QED
  BY <1>2, <1>3, <1>4, <1>5, <1>6, <1>7, <1>8, <1>9, <1>10, <1>11, <1>12 DEF Handling

LEMMA LikesNext == TypeInv /\ LikesInv /\ [Next]_vars => LikesInv'
<1> SUFFICES ASSUME TypeInv, LikesInv, [Next]_vars PROVE LikesInv'
  OBVIOUS
<1>1. CASE Crash
  <2>1. todo' = <<>> /\ disk' = disk /\ books'.likes = LikesOn(disk)
    BY <1>1 DEF Crash
  <2>2. Len(todo') = 0
    BY <2>1
  <2> QED
    BY <2>1, <2>2 DEF LikesInv
<1>2. CASE UNCHANGED vars
  BY <1>2 DEF vars, LikesInv
<1> QED
  BY <1>1, <1>2, NextIs, LikesFileStep, LikesHandling

\* What is on disk, and in the temporary files of requests, is always of its kind: no file
\* is written with another one's content, nobody is his own friend, and a torn temporary
\* file is never taken for a request.
THEOREM TypesKept == Spec => []TypeOK
<1>1. TypeInv => TypeOK
  <2> SUFFICES ASSUME TypeInv PROVE TypeOK
    OBVIOUS
  <2>1. /\ disk \in [Files -> Contents \cup {NoFile, Gone}]
        /\ answered \subseteq Accounts \cup Requests /\ deleted \subseteq Users \X Users
    BY DEF TypeInv
  <2>2. \A u \in Profiles : disk[u] \in Profile /\ u \notin disk[u].friends
    BY UserThere DEF Profiles
  <2>3. \A q \in Requests : Views(q) \subseteq Request
    BY ViewFits
  <2>4. Index \in Files /\ Likes \in Files
    BY DEF Files
  <2>5. IsThere(Index) => disk[Index] = {}
    BY <2>4, DiskFits DEF Fits
  <2>6. IsThere(Likes) => disk[Likes] \in Nat
    BY <2>4, DiskFits DEF Fits
  <2> QED
    BY <2>1, <2>2, <2>3, <2>5, <2>6 DEF TypeOK, IsThere
<1> QED
  BY <1>1, TypeInit, TypeNext, PTL DEF Spec

\* Whatever the order of results, likes, rewards, friendships and loads, and wherever the
\* server stops, no booked coin or like is overwritten by somebody else's write.
THEOREM BooksKept == Spec => []BooksBalance
<1>1. Init => CoinsInv /\ LikesInv
  <2> SUFFICES ASSUME Init PROVE CoinsInv /\ LikesInv
    OBVIOUS
  <2>1. /\ todo = <<>> /\ disk = [f \in Files |-> NoFile]
        /\ books = [coins |-> [u \in Users |-> 0], likes |-> 0]
    BY DEF Init
  <2>2. Range(todo) = {} /\ Len(todo) = 0
    BY <2>1 DEF Range
  <2>3. LikesOn(disk) = 0
    BY <2>1 DEF LikesOn, Files
  <2> QED
    BY <2>1, <2>2, <2>3 DEF CoinsInv, LikesInv, IsThere, Files
<1>2. TypeInv /\ CoinsInv /\ LikesInv => BooksBalance
  <2> SUFFICES ASSUME TypeInv, CoinsInv, LikesInv PROVE BooksBalance
    OBVIOUS
  <2>1. todo \in Seq(Steps) /\ DOMAIN todo = 1..Len(todo)
    BY DEF TypeInv, Rows
  <2>2. ASSUME NEW u \in Users, Renames(u)
        PROVE  \E i \in DOMAIN todo : todo[i].op = "rename" /\ todo[i].file = u /\ todo[i].content.coins = books.coins[u]
    <3>1. PICK s \in Range(todo) : s.op = "rename" /\ s.file = u
      BY <2>2 DEF Renames
    <3>2. s.content.coins = books.coins[u]
      BY <3>1 DEF CoinsInv, OnFile
    <3> QED
      BY <3>1, <3>2 DEF Range
  <2>3. ASSUME Step("rename", Likes, books.likes) \in Range(todo)
        PROVE  \E i \in DOMAIN todo : todo[i].op = "rename" /\ todo[i].file = Likes /\ todo[i].content = books.likes
    <3>1. PICK i \in DOMAIN todo : todo[i] = Step("rename", Likes, books.likes)
      BY <2>3 DEF Range
    <3> QED
      BY <3>1 DEF Step
  <2>4. ASSUME NEW u \in Profiles
        PROVE  \/ disk[u].coins = books.coins[u]
               \/ Coming(u, LAMBDA p : p.coins = books.coins[u])
    <3>1. u \in Users /\ IsThere(u)
      BY DEF Profiles
    <3> QED
      BY <2>2, <3>1 DEF CoinsInv, Coming
  <2>5. LikesOn(disk) = books.likes \/ Coming(Likes, LAMBDA n : n = books.likes)
    BY <2>3 DEF LikesInv, Coming
  <2> QED
    BY <2>4, <2>5 DEF BooksBalance
<1> QED
  BY <1>1, <1>2, TypeInit, TypeNext, CoinsNext, LikesNext, PTL DEF Spec

-----------------------------------------------------------------------------
(* What every handler has in common.                                       *)

\* A profile that is written again, and one for a user who had none.
Kept(w) == w[1] \in Users /\ IsThere(w[1]) /\ w[2].account = disk[w[1]].account
New(w) ==
  /\ w[1] \in Users /\ ~IsThere(w[1])
  /\ w[2].account \in Accounts /\ ProfileOf(w[2].account) = {}

\* A request that is sent, where none that waits was read.
Sent(w) ==
  /\ w[1] \in Requests /\ disk[w[1]] = NoFile /\ temp[w[1]] = NoFile
  /\ \E v \in Readings : ~PendingBetween(v, w[2].requester, w[2].receiver)

\* All is renamed before anything is answered.
AnswersLast(t, W) ==
  \A i \in 1..Len(t) : t[i].op = "answer" =>
    \A w \in W : \E j \in 1..Len(t) : j < i /\ t[j] = Step("rename", w[1], w[2])

\* Both profiles get the friendship before a request is accepted.
Befriends(t, i, x, y) ==
  /\ \A j \in 1..Len(t) : j < i /\ OnFile(t[j], x) => y \in t[j].content.friends
  /\ \E j \in 1..Len(t) : j < i /\ t[j].op = "rename" /\ t[j].file = x
LinkedBefore(t) ==
  \A i \in 1..Len(t) :
    t[i].op # "answer" /\ t[i].file \in Requests /\ t[i].content.status = "ACCEPTED" =>
      /\ Befriends(t, i, t[i].content.requester, t[i].content.receiver)
      /\ Befriends(t, i, t[i].content.receiver, t[i].content.requester)

Wrote(W, A) ==
  /\ Handled(W, A) /\ LinkedBefore(todo')
  /\ \A w \in W : \/ w[1] \in {Index, Likes} \/ Kept(w) \/ New(w)
                  \/ (w[1] \in Requests /\ w[2].status # "PENDING") \/ Sent(w)
  /\ \A w, x \in W : New(w) /\ New(x) => w = x
  /\ \A w, x \in W : Sent(w) /\ w[2].status = "PENDING" /\ x[1] \in Requests => w = x
  /\ AnswersLast(todo', W)
  /\ \A a \in A : \/ a \in Accounts /\ \E w \in W : w[1] \in Users /\ w[2].account = a
                  \/ a \in Requests /\ \E w \in W : w[1] = a

\* What is not in the first part of a row comes behind all of that part.
LEMMA Behind ==
  ASSUME NEW S, NEW s \in Seq(S), NEW t \in Seq(S),
         NEW i \in 1..Len(s \o t), (s \o t)[i] \notin Range(s), NEW x \in Range(s)
  PROVE  \E j \in 1..Len(s \o t) : j < i /\ (s \o t)[j] = x
<1> DEFINE st == s \o t
<1>1. /\ Len(s) \in Nat /\ Len(t) \in Nat /\ Len(st) = Len(s) + Len(t) /\ DOMAIN s = 1..Len(s)
      /\ \A k \in 1..Len(s) : st[k] = s[k]
  OBVIOUS
<1> HIDE DEF st
<1>2. PICK j \in 1..Len(s) : s[j] = x
  BY <1>1 DEF Range
<1>3. i \notin 1..Len(s)
  BY <1>1 DEF Range, st
<1>4. j \in 1..Len(st) /\ j < i /\ st[j] = x
  BY <1>1, <1>2, <1>3 DEF st
<1> QED
  BY <1>4 DEF st

LEMMA AnswerLast ==
  ASSUME NEW X, NEW W, NEW what \in Accounts \cup Requests, Does(X, W, {})
  PROVE  AnswersLast(X \o Answer(what), W)
<1> DEFINE a == Answer(what)
           t == X \o a
<1>1. X \in Seq(Steps) /\ a \in Seq(Steps)
  BY AnswerPlan DEF Does, Plans, Rows
<1> HIDE DEF a
<1>2. ASSUME NEW i \in 1..Len(t), t[i].op = "answer", NEW w \in W
      PROVE  \E j \in 1..Len(t) : j < i /\ t[j] = Step("rename", w[1], w[2])
  <2> DEFINE x == Step("rename", w[1], w[2])
  <2>1. t[i] \notin Range(X)
    BY <1>2 DEF Does
  <2>2. x \in Range(X)
    BY DEF Does
  <2> HIDE DEF x
  <2>3. \E j \in 1..Len(t) : j < i /\ t[j] = x
    BY <1>1, <2>1, <2>2, Behind
  <2> QED
    BY <2>3 DEF x
<1>3. AnswersLast(t, W)
  BY <1>2 DEF AnswersLast
<1> QED
  BY <1>3 DEF a

LEMMA NoAnswers ==
  ASSUME NEW t, NEW V, NEW W, Does(t, V, {})
  PROVE  AnswersLast(t, W)
<1>1. t \in Seq(Steps)
  BY DEF Does, Plans, Rows
<1>2. ASSUME NEW i \in 1..Len(t) PROVE t[i].op # "answer"
  <2>1. t[i] \in Range(t)
    BY <1>1 DEF Range
  <2> QED
    BY <2>1 DEF Does
<1> QED
  BY <1>2 DEF AnswersLast

LEMMA NoLinks ==
  ASSUME NEW t, NEW W, NEW A, Does(t, W, A),
         \A w \in W : w[1] \in Requests => w[2].status # "ACCEPTED"
  PROVE  LinkedBefore(t)
<1>1. t \in Seq(Steps)
  BY DEF Does, Plans, Rows
<1>2. ASSUME NEW i \in 1..Len(t), t[i].op # "answer", t[i].file \in Requests, t[i].content.status = "ACCEPTED"
      PROVE  FALSE
  <2>1. t[i] \in Range(t)
    BY <1>1 DEF Range
  <2>2. PICK w \in W : t[i].file = w[1] /\ t[i].content = w[2]
    BY <1>2, <2>1 DEF Does
  <2> QED
    BY <1>2, <2>2
<1> QED
  BY <1>2 DEF LinkedBefore

LEMMA InThree == \A s, t, u \in Seq(Steps) : t \o u \in Seq(Steps) /\ (s \o t) \o u = s \o (t \o u)
  BY ConcatAssociative

\* What is not of the first part comes behind it, where all is of plans.
LEMMA BehindSteps ==
  \A s, t \in Seq(Steps) : \A i \in 1..Len(s \o t) : (s \o t)[i] \notin Range(s) =>
    \A x \in Range(s) : \E j \in 1..Len(s \o t) : j < i /\ (s \o t)[j] = x
  BY Behind

\* In which order the files are written when a request is answered: both profiles before
\* any request, the request itself before its siblings.
LEMMA RespondOrder ==
  ASSUME TypeInv, NEW q \in Requests, NEW accept \in BOOLEAN, NEW v \in Readings, NEW S, NEW W,
         Responds(q, accept, v, S, W)
  PROVE  \A i \in 1..Len(todo') : todo'[i].op # "answer" /\ todo'[i].file \in Requests =>
           /\ accept => /\ Befriends(todo', i, v[q].requester, v[q].receiver)
                        /\ Befriends(todo', i, v[q].receiver, v[q].requester)
                        /\ \A j \in 1..Len(todo') : i < j /\ todo'[j].op # "answer" => todo'[j].file \notin Users
           /\ ~accept /\ todo'[i].file # q =>
                \E j \in 1..Len(todo') : j < i /\ todo'[j].op = "rename" /\ todo'[j].file = q
<1> DEFINE r == v[q]
           A == Having(r.requester, disk[r.requester].friends \cup {r.receiver})
           B == Having(r.receiver, disk[r.receiver].friends \cup {r.requester})
           d == As(r, IF accept THEN "ACCEPTED" ELSE "REJECTED")
           V == (IF accept THEN {<<r.requester, A>>, <<r.receiver, B>>, <<Index, {}>>} ELSE {})
                  \cup {<<q, d>>} \cup W
           L == Save(r.requester, A) \o Save(r.receiver, B)
           D == Write(q, d)
<1>1. /\ r \in Views(q) /\ IsThere(r.receiver)
      /\ accept => IsThere(r.requester)
      /\ \A w \in W : w[1] \in Siblings(v, q) /\ w[2] = As(v[w[1]], "UNSPECIFIED")
      /\ Does(todo', V, {q}) /\ Does(S, W, {}) /\ Does(D, {<<q, d>>}, {})
      /\ accept => todo' = ((L \o D) \o S) \o Answer(q)
      /\ ~accept => todo' = (D \o S) \o Answer(q)
      /\ accept => Does(Save(r.requester, A), {<<r.requester, A>>, <<Index, {}>>}, {})
      /\ accept => Does(Save(r.receiver, B), {<<r.receiver, B>>, <<Index, {}>>}, {})
  BY DEF Responds, Handled
<1>2. r \in Request /\ r.requester # r.receiver
  BY <1>1, ViewFits
<1>3. r.requester \in Users /\ r.receiver \in Users
  BY <1>2 DEF Request
<1>4. \A w \in W : w[1] \in Requests
  BY <1>1 DEF Siblings
<1>5. accept => /\ A.friends = disk[r.requester].friends \cup {r.receiver}
                /\ B.friends = disk[r.receiver].friends \cup {r.requester}
  <2>1. accept => disk[r.requester] \in Profile /\ disk[r.receiver] \in Profile
    BY <1>1, <1>3, UserThere
  <2> QED
    BY <2>1 DEF Having, Profile
<1> HIDE DEF A, B, d
<1>6. accept => \A w \in V : /\ w[1] = r.requester => w[2] = A
                             /\ w[1] = r.receiver => w[2] = B
  BY <1>2, <1>3, <1>4, Apart
<1> HIDE DEF V, D
<1>7. /\ Answer(q) \in Seq(Steps) /\ S \in Seq(Steps) /\ D \in Seq(Steps) /\ todo' \in Seq(Steps)
      /\ \A s \in Range(S) \cup Range(D) \cup Range(Answer(q)) : s.op # "answer" => s.file \in Requests
  <2>1. \A s \in Range(S) \cup Range(D) : s.op # "answer" => s.file \in Requests
    BY <1>1, <1>4 DEF Does
  <2>2. \A s \in Range(Answer(q)) : s.op = "answer"
    BY AnswerPlan DEF Step
  <2> QED
    BY <1>1, <2>1, <2>2, AnswerPlan DEF Does, Plans, Rows
<1>8. ASSUME NEW i \in 1..Len(todo') PROVE todo'[i] \in Range(todo')
  BY <1>7 DEF Range
<1>9. ASSUME accept, NEW i \in 1..Len(todo'), todo'[i].op # "answer", todo'[i].file \in Requests
      PROVE  /\ Befriends(todo', i, r.requester, r.receiver)
             /\ Befriends(todo', i, r.receiver, r.requester)
             /\ \A j \in 1..Len(todo') : i < j /\ todo'[j].op # "answer" => todo'[j].file \notin Users
  <2> DEFINE WL == {<<r.requester, A>>, <<Index, {}>>} \cup {<<r.receiver, B>>, <<Index, {}>>}
             M == D \o S
             N == M \o Answer(q)
  <2>1. Does(L, WL, {} \cup {})
    BY <1>1, <1>9, DoesBoth
  <2>2. <<r.requester, A>> \in WL /\ <<r.receiver, B>> \in WL /\ \A w \in WL : w[1] \notin Requests
    BY <1>3, Apart
  <2> HIDE DEF L, WL
  <2>3. L \in Seq(Steps) /\ \A s \in Range(L) : s.op # "answer" /\ s.file \notin Requests
    BY <2>1, <2>2 DEF Does, Plans, Rows
  <2>4. M \in Seq(Steps) /\ N \in Seq(Steps) /\ todo' = L \o N
    <3>0. L \in Seq(Steps) /\ D \in Seq(Steps) /\ S \in Seq(Steps) /\ Answer(q) \in Seq(Steps)
      BY <1>7, <2>3
    <3>1. M \in Seq(Steps) /\ (L \o D) \o S = L \o M
      BY ONLY <3>0, InThree DEF M
    <3> HIDE DEF M
    <3>2. M \in Seq(Steps) /\ L \in Seq(Steps) /\ Answer(q) \in Seq(Steps)
      BY <3>0, <3>1
    <3> DEFINE N2 == Answer(q)
    <3> HIDE DEF N2
    <3>3. M \in Seq(Steps) /\ L \in Seq(Steps) /\ N2 \in Seq(Steps)
      BY <3>2 DEF N2
    <3>4. M \o N2 \in Seq(Steps) /\ (L \o M) \o N2 = L \o (M \o N2)
      BY ONLY <3>3, InThree
    <3> QED
      BY <1>1, <1>9, <3>1, <3>4 DEF N2
  <2>5. \A s \in Range(N) : s.op # "answer" => s.file \in Requests
    <3>1. Range(M) = Range(D) \cup Range(S)
      BY <1>7, RangeOfRow
    <3> HIDE DEF M
    <3>2. Range(N) = Range(M) \cup Range(Answer(q))
      BY <1>7, <2>4, RangeOfRow
    <3> QED
      BY <1>7, <3>1, <3>2
  <2> HIDE DEF N
  <2>6. i \notin 1..Len(L)
    <3>1. ASSUME i \in 1..Len(L) PROVE FALSE
      <4>1. todo'[i] = L[i] /\ i \in DOMAIN L
        BY <2>3, <2>4, <3>1
      <4>2. todo'[i] \in Range(L)
        BY <4>1 DEF Range
      <4> QED
        BY <1>9, <2>3, <4>2
    <3> QED
      BY <3>1
  <2>7. ASSUME NEW j \in 1..Len(todo'), i < j, todo'[j].op # "answer" PROVE todo'[j].file \notin Users
    <3>1. j - Len(L) \in 1..Len(N) /\ todo'[j] = N[j - Len(L)]
      BY <2>3, <2>4, <2>6, <2>7
    <3>2. todo'[j] \in Range(N)
      <4>1. DOMAIN N = 1..Len(N)
        BY <2>4
      <4> QED
        BY <3>1, <4>1 DEF Range
    <3> QED
      BY <2>5, <2>7, <3>2, Apart
  <2>8. todo'[i] \notin Range(L)
    BY <1>9, <2>3
  <2>9. ASSUME NEW w \in WL PROVE \E j \in 1..Len(todo') : j < i /\ todo'[j].op = "rename" /\ todo'[j].file = w[1]
    <3>1. Step("rename", w[1], w[2]) \in Range(L)
      BY <2>1 DEF Does
    <3>2. ASSUME NEW x \in Range(L) PROVE \E j \in 1..Len(todo') : j < i /\ todo'[j] = x
      <4>1. /\ L \in Seq(Steps) /\ N \in Seq(Steps) /\ x \in Range(L)
            /\ (L \o N)[i] \notin Range(L) /\ i \in 1..Len(L \o N)
        BY <2>3, <2>4, <2>8, <3>2
      <4>2. \E j \in 1..Len(L \o N) : j < i /\ (L \o N)[j] = x
        BY ONLY <4>1, BehindSteps
      <4> QED
        BY <2>4, <4>2
    <3>3. PICK j \in 1..Len(todo') : j < i /\ todo'[j] = Step("rename", w[1], w[2])
      BY <3>1, <3>2
    <3> QED
      BY <3>3 DEF Step
  <2>10. /\ \E j \in 1..Len(todo') : j < i /\ todo'[j].op = "rename" /\ todo'[j].file = r.requester
         /\ \E j \in 1..Len(todo') : j < i /\ todo'[j].op = "rename" /\ todo'[j].file = r.receiver
    <3>1. \E j \in 1..Len(todo') : j < i /\ todo'[j].op = "rename" /\ todo'[j].file = r.requester
      BY <2>2, <2>9
    <3>2. \E j \in 1..Len(todo') : j < i /\ todo'[j].op = "rename" /\ todo'[j].file = r.receiver
      BY <2>2, <2>9
    <3> QED
      BY <3>1, <3>2
  <2>11. ASSUME NEW j \in 1..Len(todo')
         PROVE  /\ OnFile(todo'[j], r.requester) => todo'[j].content = A
                /\ OnFile(todo'[j], r.receiver) => todo'[j].content = B
    <3>1. todo'[j].op # "answer" => \E w \in V : todo'[j].file = w[1] /\ todo'[j].content = w[2]
      BY <1>1, <1>8 DEF Does
    <3> QED
      BY <1>6, <1>9, <3>1 DEF OnFile
  <2> QED
    BY <1>5, <1>9, <2>7, <2>10, <2>11 DEF Befriends
<1>10. ASSUME ~accept, NEW i \in 1..Len(todo'), todo'[i].op # "answer", todo'[i].file \in Requests \ {q}
       PROVE  \E j \in 1..Len(todo') : j < i /\ todo'[j].op = "rename" /\ todo'[j].file = q
  <2> DEFINE N == S \o Answer(q)
  <2>1. N \in Seq(Steps) /\ todo' = D \o N
    <3>1. D \in Seq(Steps) /\ S \in Seq(Steps) /\ Answer(q) \in Seq(Steps)
      BY <1>7
    <3>2. S \o Answer(q) \in Seq(Steps) /\ (D \o S) \o Answer(q) = D \o (S \o Answer(q))
      BY ONLY <3>1, InThree
    <3> QED
      BY <1>1, <1>10, <3>2
  <2> HIDE DEF N
  <2>2. todo'[i] \notin Range(D)
    BY <1>1, <1>10 DEF Does
  <2>3. Step("rename", q, d) \in Range(D)
    BY <1>1 DEF Does
  <2>4. \E j \in 1..Len(todo') : j < i /\ todo'[j] = Step("rename", q, d)
    <3> DEFINE x == Step("rename", q, d)
    <3>0. x \in Range(D)
      BY <2>3
    <3> HIDE DEF x
    <3>1. /\ (D \o N)[i] \notin Range(D) /\ i \in 1..Len(D \o N)
          /\ D \in Seq(Steps) /\ N \in Seq(Steps) /\ x \in Range(D)
      BY <1>7, <1>10, <2>1, <2>2, <3>0
    <3>2. \E j \in 1..Len(D \o N) : j < i /\ (D \o N)[j] = x
      BY ONLY <3>1, BehindSteps
    <3> QED
      BY <2>1, <3>2 DEF x
  <2> QED
    BY <2>4 DEF Step
<1> QED
  BY <1>9, <1>10

\* All versions of a request are between the same two.
SameTwo(r, t) == r.requester = t.requester /\ r.receiver = t.receiver
Rewrites(w) == \E r \in Views(w[1]) : SameTwo(w[2], r)

\* What a decision writes about requests.
LEMMA RespondRequests ==
  ASSUME TypeInv, NEW q \in Requests, NEW accept \in BOOLEAN, NEW v \in Readings, NEW S, NEW W,
         Responds(q, accept, v, S, W)
  PROVE  LET r == v[q]
             d == As(r, IF accept THEN "ACCEPTED" ELSE "REJECTED") IN
         /\ r \in Views(q) /\ r.status = "PENDING"
         /\ r.requester \in Users /\ r.receiver \in Users /\ r.requester # r.receiver
         /\ d.status = (IF accept THEN "ACCEPTED" ELSE "REJECTED") /\ SameTwo(d, r)
         /\ \A w \in W : /\ w[1] \in Requests \ {q} /\ w[2].status = "UNSPECIFIED" /\ Rewrites(w)
                         /\ Between(w[2], r.requester, r.receiver)
         /\ \A s \in Range(todo') : s.op # "answer" /\ s.file \in Requests =>
              (s.file = q /\ s.content = d) \/ \E w \in W : s.file = w[1] /\ s.content = w[2]
<1> DEFINE r == v[q]
           d == As(r, IF accept THEN "ACCEPTED" ELSE "REJECTED")
           A == Having(r.requester, disk[r.requester].friends \cup {r.receiver})
           B == Having(r.receiver, disk[r.receiver].friends \cup {r.requester})
           U == IF accept THEN {<<r.requester, A>>, <<r.receiver, B>>, <<Index, {}>>} ELSE {}
           V == U \cup {<<q, d>>} \cup W
<1>1. /\ r \in Views(q) /\ r.status = "PENDING" /\ Handled(V, {q})
      /\ \A w \in W : w[1] \in Siblings(v, q) /\ w[2] = As(v[w[1]], "UNSPECIFIED")
  BY DEF Responds, Pending
<1>2. r.requester \in Users /\ r.receiver \in Users /\ r.requester # r.receiver
  BY <1>1, ViewFits DEF Request
<1>3. \A w \in U : w[1] \notin Requests
  BY <1>2, Apart
<1>4. d.status = (IF accept THEN "ACCEPTED" ELSE "REJECTED") /\ SameTwo(d, r)
  BY <1>1, AsFits DEF SameTwo
<1> HIDE DEF U, d
<1>5. \A w \in V : w[1] \in Requests => w = <<q, d>> \/ w \in W
  BY <1>3
<1>6. ASSUME NEW w \in W
      PROVE  /\ w[1] \in Requests \ {q} /\ w[2].status = "UNSPECIFIED" /\ Rewrites(w)
             /\ Between(w[2], r.requester, r.receiver)
  <2>1. /\ w[1] \in Requests \ {q} /\ v[w[1]] # NoFile /\ w[2] = As(v[w[1]], "UNSPECIFIED")
        /\ Between(v[w[1]], r.requester, r.receiver)
    BY <1>1 DEF Siblings, Pending
  <2>2. v[w[1]] \in Views(w[1])
    BY <2>1, ReadingViews
  <2>3. SameTwo(w[2], v[w[1]]) /\ w[2].status = "UNSPECIFIED"
    BY <2>1, <2>2, AsFits DEF SameTwo
  <2> QED
    BY <2>1, <2>2, <2>3 DEF Rewrites, SameTwo, Between
<1> HIDE DEF V
<1>7. ASSUME NEW s \in Range(todo'), s.op # "answer", s.file \in Requests
      PROVE  (s.file = q /\ s.content = d) \/ \E w \in W : s.file = w[1] /\ s.content = w[2]
  <2>1. PICK w \in V : s.file = w[1] /\ s.content = w[2]
    BY <1>1, <1>7 DEF Handled, Does
  <2> QED
    BY <1>5, <1>7, <2>1
<1> QED
  BY <1>1, <1>2, <1>4, <1>6, <1>7 DEF d

LEMMA RespondLinks ==
  ASSUME TypeInv, NEW q \in Requests, NEW accept \in BOOLEAN, HandleRespondFriendRequest(q, accept)
  PROVE  LinkedBefore(todo')
<1>1. PICK v, S, W : v \in Readings /\ Responds(q, accept, v, S, W)
  BY RespondDoes
<1> DEFINE r == v[q]
           d == As(r, IF accept THEN "ACCEPTED" ELSE "REJECTED")
<1>2. /\ d.status = (IF accept THEN "ACCEPTED" ELSE "REJECTED") /\ SameTwo(d, r)
      /\ \A w \in W : w[2].status = "UNSPECIFIED"
      /\ \A s \in Range(todo') : s.op # "answer" /\ s.file \in Requests =>
           (s.file = q /\ s.content = d) \/ \E w \in W : s.file = w[1] /\ s.content = w[2]
  BY <1>1, RespondRequests
<1>3. todo' \in Seq(Steps)
  BY <1>1 DEF Responds, Handled, Does, Plans, Rows
<1> HIDE DEF d
<1>4. ASSUME NEW i \in 1..Len(todo'), todo'[i].op # "answer", todo'[i].file \in Requests,
             todo'[i].content.status = "ACCEPTED"
      PROVE  /\ Befriends(todo', i, todo'[i].content.requester, todo'[i].content.receiver)
             /\ Befriends(todo', i, todo'[i].content.receiver, todo'[i].content.requester)
  <2>1. todo'[i] \in Range(todo')
    BY <1>3 DEF Range
  <2>2. todo'[i].content = d /\ accept
    BY <1>2, <1>4, <2>1
  <2>3. /\ Befriends(todo', i, v[q].requester, v[q].receiver)
        /\ Befriends(todo', i, v[q].receiver, v[q].requester)
    BY <1>1, <1>4, <2>2, RespondOrder
  <2>4. todo'[i].content.requester = v[q].requester /\ todo'[i].content.receiver = v[q].receiver
    BY <1>2, <2>2 DEF SameTwo
  <2> QED
    BY ONLY <2>3, <2>4
<1> QED
  BY <1>4 DEF LinkedBefore

LEMMA NewProfile ==
  ASSUME NEW u \in Users, Fresh(u), NEW account \in Accounts, ProfileOf(account) = {}
  PROVE  New(<<u, NewUser(account)>>)
  BY FreshIsNew DEF New, NewUser

\* A handler that answers nothing.
LEMMA Silent ==
  ASSUME NEW W, Handled(W, {}),
         \A w \in W : w[1] \in {Index, Likes} \/ Kept(w) \/ New(w),
         \A w, x \in W : New(w) /\ New(x) => w = x
  PROVE  \E V, A : Wrote(V, A)
<1>1. AnswersLast(todo', W)
  BY NoAnswers DEF Handled
<1>2. \A w \in W : ~Sent(w)
  BY Apart DEF Sent, Kept, New
<1>4. LinkedBefore(todo')
  <2>1. \A w \in W : w[1] \notin Requests
    BY Apart DEF Kept, New
  <2> QED
    BY <2>1, NoLinks DEF Handled
<1>3. Wrote(W, {})
  BY <1>1, <1>2, <1>4 DEF Wrote
<1> QED
  BY <1>3

LEMMA HandlingWrites == ASSUME TypeInv, Handling PROVE \E W, A : Wrote(W, A)
<1>0. /\ Index \notin Users /\ Likes \notin Users /\ Users \cap Requests = {} /\ Accounts \cap Requests = {}
      /\ DefaultAccount \in Accounts /\ Index \notin Requests /\ Likes \notin Requests
      /\ RewardCoins \in Int
  BY Apart, UserStoreAssumption DEF RewardCoins
<1>1. \A w : Kept(w) => ~New(w)
  BY DEF Kept, New
<1>2. CASE LoadLocked
  <2>1. PICK new, W :
           /\ new \in SUBSET {u \in Users : Missing(u)}
           /\ \A u, v \in new : u = v
           /\ \A w \in W : \/ \E u \in Profiles : u \notin new /\ w = <<u, disk[u]>>
                           \/ \E u \in new : w = <<u, NewUser(DefaultAccount)>>
           /\ Handled(W \cup {<<Index, {}>>}, {})
    BY <1>2, LoadDoes
  <2>2. ASSUME NEW u \in new PROVE New(<<u, NewUser(DefaultAccount)>>)
    BY <1>0, <2>1, NewProfile DEF Missing
  <2>3. \A u \in Profiles : Kept(<<u, disk[u]>>)
    BY DEF Profiles, Kept
  <2>4. \A w \in W \cup {<<Index, {}>>} : w[1] \in {Index, Likes} \/ Kept(w) \/ New(w)
    BY <2>1, <2>2, <2>3
  <2>5. \A w \in W \cup {<<Index, {}>>} : New(w) => \E u \in new : w = <<u, NewUser(DefaultAccount)>>
    BY <1>0, <1>1, <2>1, <2>3 DEF New
  <2>6. \A w, x \in W \cup {<<Index, {}>>} : New(w) /\ New(x) => w = x
    BY <2>1, <2>5
  <2> QED
    BY <2>1, <2>4, <2>6, Silent
<1>3. \A w \in MoreWrites \cup LikesWrites : w[1] = Likes /\ ~New(w)
  BY <1>0 DEF MoreWrites, LikesWrites, New
<1>4. CASE HandleFetchSystemStats
  BY <1>3, <1>4, FetchDoes, Silent
<1>5. CASE HandleSubmitSupportLike
  BY <1>3, <1>5, SubmitDoes, Silent
<1>6. ASSUME NEW account \in Accounts, HandleRegister(account) PROVE \E W, A : Wrote(W, A)
  <2>1. PICK u \in Users :
           /\ Fresh(u) /\ ~Taken(account)
           /\ todo' = Save(u, NewUser(account)) \o Answer(account)
           /\ Does(Save(u, NewUser(account)), {<<u, NewUser(account)>>, <<Index, {}>>}, {})
           /\ Handled({<<u, NewUser(account)>>, <<Index, {}>>}, {account})
    BY <1>6, RegisterDoes
  <2> DEFINE w == <<u, NewUser(account)>>
             W == {w, <<Index, {}>>}
  <2>2. New(w) /\ w[2].account = account
    BY <2>1, NewProfile DEF Taken, NewUser
  <2>3. AnswersLast(todo', W)
    <3> HIDE DEF W
    <3>1. Does(Save(u, NewUser(account)), W, {})
      BY <2>1 DEF W
    <3> QED
      BY <2>1, <3>1, AnswerLast
  <2>4. ~New(<<Index, {}>>) /\ ~Sent(<<Index, {}>>) /\ ~Sent(w) /\ w[1] \in Users
    BY <1>0 DEF New, Sent
  <2>5. Handled(W, {account})
    BY <2>1
  <2>7. LinkedBefore(todo')
    <3>1. \A x \in W : x[1] \notin Requests
      BY <1>0
    <3> HIDE DEF W
    <3> QED
      BY <2>5, <3>1, NoLinks DEF Handled
  <2> HIDE DEF w
  <2>6. Wrote(W, {account})
    BY <2>2, <2>3, <2>4, <2>5, <2>7 DEF Wrote
  <2> QED
    BY <2>6
<1>7. ASSUME NEW u \in Users, HandleChangeOfUser(u) PROVE \E W, A : Wrote(W, A)
  <2>1. IsThere(u) /\ Handled({<<u, disk[u]>>, <<Index, {}>>}, {})
    BY <1>7, ChangeDoes
  <2>2. Kept(<<u, disk[u]>>) /\ ~New(<<Index, {}>>)
    BY <1>0, <2>1 DEF Kept, New
  <2> QED
    BY <1>1, <2>1, <2>2, Silent
<1>8. ASSUME NEW u \in Users, HandleResetPasswordOfDefault(u) PROVE \E W, A : Wrote(W, A)
  <2>1. Missing(u) /\ Handled({<<u, NewUser(DefaultAccount)>>, <<Index, {}>>}, {})
    BY <1>8, ResetDoes
  <2> DEFINE w == <<u, NewUser(DefaultAccount)>>
  <2>2. New(w)
    BY <1>0, <2>1, NewProfile DEF Missing
  <2>3. ~New(<<Index, {}>>) /\ <<Index, {}>>[1] = Index /\ Handled({w, <<Index, {}>>}, {})
    BY <1>0, <2>1 DEF New
  <2> HIDE DEF w
  <2> DEFINE W == {w, <<Index, {}>>}
  <2>4. \A x \in W : (x[1] \in {Index, Likes} \/ Kept(x) \/ New(x)) /\ (New(x) => x = w)
    BY <2>2, <2>3
  <2>5. Handled(W, {})
    BY <2>3
  <2>6. /\ \A x \in W : x[1] \in {Index, Likes} \/ Kept(x) \/ New(x)
        /\ \A x, y \in W : New(x) /\ New(y) => x = y
    <3> HIDE DEF W
    <3> QED
      BY <2>4
  <2> HIDE DEF W
  <2> QED
    BY <2>5, <2>6, Silent
<1>9. ASSUME NEW u \in Users, HandleClaimSupportLikeReward(u) PROVE \E W, A : Wrote(W, A)
  <2> DEFINE p == <<u, Paid(u, RewardCoins)>>
             W == {p, <<Index, {}>>} \cup MoreWrites
  <2>1. IsThere(u) /\ Handled(W, {})
    BY <1>9, ClaimDoes
  <2>2. Kept(p) /\ ~New(<<Index, {}>>)
    <3>1. Paid(u, RewardCoins).account = disk[u].account
      BY <1>0, <2>1, PaidFits
    <3> QED
      BY <1>0, <2>1, <3>1 DEF Kept, New
  <2> HIDE DEF p
  <2>3. \A w \in W : w = p \/ w[1] = Index \/ w \in MoreWrites
    OBVIOUS
  <2>5. \A w \in W : (w[1] \in {Index, Likes} \/ Kept(w) \/ New(w)) /\ ~New(w)
    BY <1>0, <1>1, <1>3, <2>2, <2>3 DEF New
  <2> HIDE DEF W
  <2> QED
    BY <2>1, <2>5, Silent
<1>10. ASSUME NEW scores \in Results, NEW players \in Seatings(Len(scores)),
              PersistFinishedRoomScores(players, scores)
       PROVE  \E W, A : Wrote(W, A)
  <2>1. PICK W :
          /\ \A w \in W : \/ w = <<Index, {}>>
                          \/ \E i \in 1..Len(scores) : IsThere(players[i]) /\
                               w = <<players[i], Paid(players[i], scores[i])>>
          /\ Handled(W, {})
    BY <1>10, PersistDoes
  <2>2. ASSUME NEW i \in 1..Len(scores), IsThere(players[i])
        PROVE  Kept(<<players[i], Paid(players[i], scores[i])>>)
    <3>1. players[i] \in Users /\ scores[i] \in Int
      BY UserStoreAssumption DEF Seatings
    <3>2. Paid(players[i], scores[i]).account = disk[players[i]].account
      BY <2>2, <3>1, PaidFits
    <3> QED
      BY <2>2, <3>1, <3>2 DEF Kept
  <2>3. \A w \in W : w = <<Index, {}>> \/ Kept(w)
    BY <2>1, <2>2
  <2>4. ~New(<<Index, {}>>)
    BY <1>0 DEF New
  <2>5. \A w \in W : (w[1] \in {Index, Likes} \/ Kept(w) \/ New(w)) /\ ~New(w)
    BY <1>1, <2>3, <2>4
  <2> QED
    BY <2>1, <2>5, Silent
<1>11. ASSUME NEW a \in Users, NEW b \in Users, HandleAddFriend(a, b) PROVE \E W, A : Wrote(W, A)
  <2>1. PICK q, r :
           /\ q \in Requests
           /\ r = [requester |-> a, receiver |-> b, status |-> "PENDING"]
           /\ disk[q] = NoFile /\ temp[q] = NoFile
           /\ \E v \in Readings : ~PendingBetween(v, a, b)
           /\ todo' = Write(q, r) \o Answer(q)
           /\ Does(Write(q, r), {<<q, r>>}, {})
           /\ Handled({<<q, r>>}, {q})
    BY <1>11, AddDoes
  <2>2. Sent(<<q, r>>) /\ ~New(<<q, r>>)
    BY <1>0, <2>1 DEF Sent, New
  <2>3. AnswersLast(todo', {<<q, r>>})
    BY <2>1, AnswerLast
  <2>5. LinkedBefore(todo')
    BY <2>1, NoLinks DEF Handled
  <2>4. Wrote({<<q, r>>}, {q})
    BY <2>1, <2>2, <2>3, <2>5 DEF Wrote
  <2> QED
    BY <2>4
<1>12. ASSUME NEW a \in Users, NEW b \in Users, HandleDeleteFriend(a, b) PROVE \E W, A : Wrote(W, A)
  <2> DEFINE A == Having(a, disk[a].friends \ {b})
             B == Having(b, disk[b].friends \ {a})
             W == {<<a, A>>, <<Index, {}>>} \cup {<<b, B>>, <<Index, {}>>}
  <2>1. IsThere(a) /\ IsThere(b) /\ Handled(W, {})
    BY <1>12, DeleteDoes
  <2>2. A.account = disk[a].account /\ B.account = disk[b].account
    <3>1. disk[a] \in Profile /\ disk[b] \in Profile
      BY <2>1, UserThere
    <3> QED
      BY <3>1 DEF Having, Profile
  <2> HIDE DEF A, B
  <2>3. Kept(<<a, A>>) /\ Kept(<<b, B>>) /\ ~New(<<Index, {}>>)
    BY <1>0, <2>1, <2>2 DEF Kept, New
  <2>4. \A w \in W : (w[1] \in {Index, Likes} \/ Kept(w) \/ New(w)) /\ ~New(w)
    BY <1>1, <2>3
  <2> HIDE DEF W
  <2> QED
    BY <2>1, <2>4, Silent
<1>13. ASSUME NEW q \in Requests, NEW accept \in BOOLEAN, HandleRespondFriendRequest(q, accept)
       PROVE  \E W, A : Wrote(W, A)
  <2>1. PICK W, X :
           /\ Handled(W, {q}) /\ todo' = X \o Answer(q) /\ Does(X, W, {})
           /\ \A w \in W :
                \/ w = <<Index, {}>>
                \/ /\ w[1] \in Users /\ IsThere(w[1])
                   /\ w[2].account = disk[w[1]].account /\ w[2].coins = disk[w[1]].coins
                \/ w[1] \in Requests /\ w[2].status # "PENDING"
           /\ \E w \in W : w[1] = q
    BY <1>13, RespondWrites
  <2>2. \A w \in W : w[1] \in {Index, Likes} \/ Kept(w) \/ (w[1] \in Requests /\ w[2].status # "PENDING")
    BY <2>1 DEF Kept
  <2>3. \A w \in W : ~New(w) /\ ~(Sent(w) /\ w[2].status = "PENDING")
    BY <1>0, <1>1, <2>2 DEF New, Sent, Kept
  <2>4. AnswersLast(todo', W)
    BY <2>1, AnswerLast
  <2>5. Wrote(W, {q})
    BY <1>13, <2>1, <2>2, <2>3, <2>4, RespondLinks DEF Wrote
  <2> QED
    BY <2>5
<1> QED
  BY <1>2, <1>4, <1>5, <1>6, <1>7, <1>8, <1>9, <1>10, <1>11, <1>12, <1>13 DEF Handling

-----------------------------------------------------------------------------
(* The accounts.                                                           *)

LEMMA ClaimsFileStep == ASSUME TypeInv, ClaimsInv, FileStep PROVE ClaimsInv'
<1> DEFINE s == Head(todo)
<1>1. Range(todo) = {s} \cup Range(todo')
  BY TodoRange
<1>2. ASSUME NEW u \in Users, NEW a \in Accounts, Claims(u, a)' PROVE Claims(u, a)
  <2>1. CASE IsThere(u)' /\ disk'[u].account = a
    <3>1. CASE s.op = "rename" /\ s.file = u
      <4>1. disk'[u] = s.content /\ OnFile(s, u)
        BY <3>1, DiskStep DEF Files
      <4> QED
        BY <1>1, <2>1, <4>1 DEF Claims
    <3>2. CASE ~(s.op = "rename" /\ s.file = u)
      <4>1. disk'[u] = disk[u] /\ IsThere(u)
        BY <2>1, <3>2, DiskStep DEF Files
      <4> QED
        BY <2>1, <4>1 DEF Claims
    <3> QED
      BY <3>1, <3>2
  <2>2. CASE \E x \in Range(todo') : OnFile(x, u) /\ x.content.account = a
    BY <1>1, <2>2 DEF Claims, OnFile
  <2> QED
    BY <1>2, <2>1, <2>2 DEF Claims, OnFile
<1> QED
  BY <1>2 DEF ClaimsInv

LEMMA ClaimsHandled ==
  ASSUME TypeInv, ClaimsInv, NEW W, NEW A, Wrote(W, A)
  PROVE  ClaimsInv'
<1>1. /\ todo = <<>> /\ disk' = disk /\ Does(todo', W, A)
      /\ \A w \in W : w[1] \in Users => Kept(w) \/ New(w)
      /\ \A w, x \in W : New(w) /\ New(x) => w = x
  BY Apart DEF Wrote, Handled, Sent
<1> DEFINE Has(u, a) == IsThere(u) /\ disk[u].account = a
           Gets(u, a) == \E w \in W : w[1] = u /\ w[2].account = a /\ New(w)
<1>2. ASSUME NEW u \in Users, NEW a \in Accounts, Claims(u, a)' PROVE Has(u, a) \/ Gets(u, a)
  <2>1. CASE IsThere(u)' /\ disk'[u].account = a
    BY <1>1, <2>1 DEF IsThere
  <2>2. CASE \E x \in Range(todo') : OnFile(x, u) /\ x.content.account = a
    <3>1. PICK w \in W : w[1] = u /\ w[2].account = a
      BY <1>1, <2>2 DEF Does, OnFile
    <3>2. CASE Kept(w)
      BY <3>1, <3>2 DEF Kept
    <3>3. CASE New(w)
      BY <3>1, <3>3
    <3> QED
      BY <1>1, <3>1, <3>2, <3>3
  <2> QED
    BY <1>2, <2>1, <2>2 DEF Claims, OnFile
<1>3. ASSUME NEW u \in Users, NEW v \in Users, NEW a \in Accounts, NEW b \in Accounts, Has(u, a), Has(v, b)
      PROVE  u = v <=> a = b
  BY <1>3 DEF ClaimsInv, Claims
<1>4. ASSUME NEW u \in Users, NEW v \in Users, NEW a \in Accounts, NEW b \in Accounts, Gets(u, a), Gets(v, b)
      PROVE  u = v /\ a = b
  BY <1>1, <1>4
<1>5. ASSUME NEW u \in Users, NEW v \in Users, NEW a \in Accounts, NEW b \in Accounts, Has(u, a), Gets(v, b)
      PROVE  u # v /\ a # b
  <2>1. ~IsThere(v) /\ ProfileOf(b) = {}
    BY <1>5 DEF New
  <2> QED
    BY <1>5, <2>1 DEF ProfileOf, Profiles
<1> HIDE DEF Has, Gets
<1>6. ASSUME NEW u \in Users, NEW v \in Users, NEW a \in Accounts, NEW b \in Accounts, Claims(u, a)', Claims(v, b)'
      PROVE  u = v <=> a = b
  <2>1. (Has(u, a) \/ Gets(u, a)) /\ (Has(v, b) \/ Gets(v, b))
    BY <1>2, <1>6
  <2>2. CASE Has(u, a) /\ Has(v, b)
    BY <1>3, <2>2
  <2>3. CASE Has(u, a) /\ Gets(v, b)
    BY <1>5, <2>3
  <2>4. CASE Gets(u, a) /\ Has(v, b)
    <3>1. v # u /\ b # a
      BY <1>5, <2>4
    <3> QED
      BY <3>1
  <2>5. CASE Gets(u, a) /\ Gets(v, b)
    BY <1>4, <2>5
  <2> QED
    BY <2>1, <2>2, <2>3, <2>4, <2>5
<1> QED
  BY <1>6 DEF ClaimsInv

LEMMA ClaimsNext == TypeInv /\ ClaimsInv /\ [Next]_vars => ClaimsInv'
<1> SUFFICES ASSUME TypeInv, ClaimsInv, [Next]_vars PROVE ClaimsInv'
  OBVIOUS
<1>1. CASE Crash
  <2>1. Range(todo') = {} /\ disk' = disk
    BY <1>1 DEF Crash, Range
  <2>2. \A u, a : Claims(u, a)' => Claims(u, a)
    BY <2>1 DEF Claims, IsThere
  <2> QED
    BY <2>2 DEF ClaimsInv
<1>2. CASE UNCHANGED vars
  BY <1>2 DEF vars, ClaimsInv, Claims, IsThere, OnFile
<1>3. CASE Handling
  BY <1>3, HandlingWrites, ClaimsHandled
<1> QED
  BY <1>1, <1>2, <1>3, NextIs, ClaimsFileStep

\* A step and the one behind it.
LEMMA TodoTail ==
  ASSUME TypeInv, FileStep
  PROVE  /\ Len(todo) \in Nat \ {0} /\ Head(todo) = todo[1] /\ 1 \in 1..Len(todo)
         /\ \A i \in 1..Len(todo') : i + 1 \in 1..Len(todo) /\ todo'[i] = todo[i + 1]
         /\ \A i \in 1..Len(todo) : i # 1 => i - 1 \in 1..Len(todo') /\ todo'[i - 1] = todo[i]
         /\ Head(todo).op = "remove" =>
              /\ todo' # <<>> /\ 1 \in 1..Len(todo') /\ Head(todo') = todo'[1]
              /\ Head(todo') = Step("rename", Head(todo).file, Head(todo).content)
<1>1. todo \in Seq(Steps) /\ todo # <<>> /\ todo' = Tail(todo) /\ todo \in Rows
  BY DEF TypeInv, Rows, FileStep
<1>2. /\ Len(todo) \in Nat \ {0} /\ Head(todo) = todo[1] /\ todo' \in Seq(Steps)
      /\ \A i \in 1..Len(todo') : i + 1 \in 1..Len(todo) /\ todo'[i] = todo[i + 1]
      /\ \A i \in 1..Len(todo) : i # 1 => i - 1 \in 1..Len(todo') /\ todo'[i - 1] = todo[i]
  BY <1>1, TailAt
<1>3. ASSUME Head(todo).op = "remove"
      PROVE  /\ todo' # <<>> /\ 1 \in 1..Len(todo') /\ Head(todo') = todo'[1]
             /\ Head(todo') = Step("rename", Head(todo).file, Head(todo).content)
  <2>1. ~Ends(Head(todo))
    BY <1>3 DEF Ends
  <2>2. todo' # <<>> /\ Follows(Head(todo), Head(todo'))
    BY <1>1, <2>1, RowTail
  <2>3. 1 \in 1..Len(todo') /\ Head(todo') = todo'[1]
    BY <1>2, <2>2
  <2> QED
    BY <1>3, <2>2, <2>3 DEF Follows
<1>4. 1 \in 1..Len(todo)
  BY <1>2
<1> QED
  BY <1>2, <1>3, <1>4

\* A user keeps his account over a step, or the next one brings it back.
LEMMA AccountStep ==
  ASSUME TypeInv, ClaimsInv, FileStep, NEW a \in Accounts, NEW u \in ProfileOf(a)
  PROVE  \/ u \in ProfileOf(a)'
         \/ /\ Head(todo).op = "remove" /\ Head(todo).file = u
            /\ Head(todo).content.account = a
<1> DEFINE s == Head(todo)
<1>1. u \in Users /\ IsThere(u) /\ disk[u].account = a
  BY DEF ProfileOf, Profiles
<1>2. ASSUME OnFile(s, u) PROVE s.content.account = a
  <2>1. s \in Range(todo) /\ s.op # "answer" /\ s \in FileSteps
    BY <1>2, FileStepDoes DEF OnFile
  <2>2. s.content \in Profile
    BY <1>1, <1>2, <2>1 DEF FileSteps, Fits, OnFile
  <2>3. s.content.account \in Accounts /\ Claims(u, s.content.account) /\ Claims(u, a)
    BY <1>1, <1>2, <2>1, <2>2 DEF Profile, Claims
  <2> QED
    BY <1>1, <2>3 DEF ClaimsInv
<1>3. CASE s.op = "rename" /\ s.file = u
  <2>1. disk'[u] = s.content /\ OnFile(s, u) /\ IsThere(u)'
    BY <1>1, <1>3, DiskStep DEF Files
  <2> QED
    BY <1>1, <1>2, <2>1 DEF ProfileOf, Profiles
<1>4. CASE s.op = "remove" /\ s.file = u
  BY <1>2, <1>4 DEF OnFile
<1>5. CASE ~(s.op \in {"remove", "rename"} /\ s.file = u)
  <2>1. IsThere(u)' /\ disk'[u] = disk[u]
    BY <1>1, <1>5, DiskStep DEF Files
  <2> QED
    BY <1>1, <2>1 DEF ProfileOf, Profiles
<1> QED
  BY <1>3, <1>4, <1>5

\* Who is renamed has his account afterwards.
LEMMA AccountRenamed ==
  ASSUME TypeInv, FileStep, NEW u \in Users, NEW a,
         Head(todo).op = "rename", Head(todo).file = u, Head(todo).content.account = a
  PROVE  u \in ProfileOf(a)'
<1>1. disk'[u] = Head(todo).content /\ IsThere(u)'
  BY DiskStep DEF Files
<1> QED
  BY <1>1 DEF ProfileOf, Profiles

LEMMA AnswerFileStep == ASSUME TypeInv, ClaimsInv, AnswerInv, FileStep PROVE AnswerInv'
<1> DEFINE s == Head(todo)
<1>1. /\ Len(todo) \in Nat \ {0} /\ s = todo[1] /\ 1 \in 1..Len(todo)
      /\ \A i \in 1..Len(todo') : i + 1 \in 1..Len(todo) /\ todo'[i] = todo[i + 1]
      /\ \A i \in 1..Len(todo) : i # 1 => i - 1 \in 1..Len(todo') /\ todo'[i - 1] = todo[i]
      /\ s.op = "remove" => /\ 1 \in 1..Len(todo')
                            /\ todo'[1] = Step("rename", s.file, s.content)
  BY TodoTail
<1> HIDE DEF s
<1> SUFFICES ASSUME NEW i \in 1..Len(todo'), NEW f, todo'[i].op = "answer", todo'[i].file = f
             PROVE  /\ f \in Requests =>
                         \/ IsThere(f)'
                         \/ \E j \in 1..Len(todo') : j < i /\ todo'[j].op = "rename" /\ todo'[j].file = f
                    /\ f \in Accounts =>
                         \/ ProfileOf(f)' # {}
                         \/ \E j \in 1..Len(todo') : /\ j < i /\ todo'[j].op = "rename" /\ todo'[j].file \in Users
                                                     /\ todo'[j].content.account = f
  BY DEF AnswerInv, IsThere, ProfileOf, Profiles
<1>2. i + 1 \in 1..Len(todo) /\ todo[i + 1].op = "answer" /\ todo[i + 1].file = f /\ i \in Nat
  BY <1>1
<1>3. s.op = "remove" => 1 < i /\ i # 1
  <2>1. s.op = "remove" => todo'[1].op # "answer"
    BY <1>1 DEF Step
  <2> QED
    BY <1>2, <2>1
<1>4. ASSUME f \in Requests
      PROVE  \/ IsThere(f)'
             \/ \E j \in 1..Len(todo') : j < i /\ todo'[j].op = "rename" /\ todo'[j].file = f
  <2>0. f \in Files
    BY <1>4 DEF Files
  <2>1. CASE IsThere(f)
    <3>1. CASE s.op = "remove" /\ s.file = f
      <4>1. 1 \in 1..Len(todo') /\ 1 < i /\ todo'[1].op = "rename" /\ todo'[1].file = f
        BY <1>1, <1>3, <3>1 DEF Step
      <4> QED
        BY <4>1
    <3>2. CASE ~(s.op = "remove" /\ s.file = f)
      BY <2>0, <2>1, <3>2, DiskStep DEF s
    <3> QED
      BY <3>1, <3>2
  <2>2. ASSUME NEW j \in 1..Len(todo), j < i + 1, todo[j].op = "rename", todo[j].file = f
        PROVE  \/ IsThere(f)'
               \/ \E k \in 1..Len(todo') : k < i /\ todo'[k].op = "rename" /\ todo'[k].file = f
    <3>1. CASE j = 1
      <4>1. s.op = "rename" /\ s.file = f
        BY <1>1, <2>2, <3>1
      <4> QED
        BY <2>0, <4>1, DiskStep DEF s
    <3>2. CASE j # 1
      <4>1. j - 1 \in 1..Len(todo') /\ j - 1 < i /\ todo'[j - 1] = todo[j]
        BY <1>1, <1>2, <2>2, <3>2
      <4> QED
        BY <2>2, <4>1
    <3> QED
      BY <3>1, <3>2
  <2> QED
    BY <1>2, <1>4, <2>1, <2>2 DEF AnswerInv
<1>5. ASSUME f \in Accounts
      PROVE  \/ ProfileOf(f)' # {}
             \/ \E j \in 1..Len(todo') : /\ j < i /\ todo'[j].op = "rename" /\ todo'[j].file \in Users
                                         /\ todo'[j].content.account = f
  <2>1. ASSUME NEW u \in ProfileOf(f)
        PROVE  \/ ProfileOf(f)' # {}
               \/ \E j \in 1..Len(todo') : /\ j < i /\ todo'[j].op = "rename" /\ todo'[j].file \in Users
                                           /\ todo'[j].content.account = f
    <3>1. CASE u \in ProfileOf(f)'
      BY <3>1
    <3>2. CASE s.op = "remove" /\ s.file = u /\ s.content.account = f
      <4>1. u \in Users
        BY DEF ProfileOf, Profiles
      <4>2. /\ 1 \in 1..Len(todo') /\ 1 < i /\ todo'[1].op = "rename" /\ todo'[1].file = u
            /\ todo'[1].content.account = f
        BY <1>1, <1>3, <3>2 DEF Step
      <4> QED
        BY <4>1, <4>2
    <3> QED
      BY <1>5, <3>1, <3>2, AccountStep DEF s
  <2>2. ASSUME NEW j \in 1..Len(todo), j < i + 1, todo[j].op = "rename", todo[j].file \in Users,
               todo[j].content.account = f
        PROVE  \/ ProfileOf(f)' # {}
               \/ \E k \in 1..Len(todo') : /\ k < i /\ todo'[k].op = "rename" /\ todo'[k].file \in Users
                                           /\ todo'[k].content.account = f
    <3>1. CASE j = 1
      <4>1. PICK u \in Users : s.op = "rename" /\ s.file = u /\ s.content.account = f
        BY <1>1, <2>2, <3>1
      <4>2. u \in ProfileOf(f)'
        BY <4>1, AccountRenamed DEF s
      <4> QED
        BY <4>2
    <3>2. CASE j # 1
      <4>1. j - 1 \in 1..Len(todo') /\ j - 1 < i /\ todo'[j - 1] = todo[j]
        BY <1>1, <1>2, <2>2, <3>2
      <4> QED
        BY <2>2, <4>1
    <3> QED
      BY <3>1, <3>2
  <2> QED
    BY <1>2, <1>5, <2>1, <2>2 DEF AnswerInv
<1> QED
  BY <1>4, <1>5

LEMMA AnswerHandled ==
  ASSUME TypeInv, NEW W, NEW A, Wrote(W, A)
  PROVE  AnswerInv'
<1>1. /\ Does(todo', W, A) /\ AnswersLast(todo', W) /\ todo' \in Seq(Steps)
      /\ \A a \in A : \/ a \in Accounts /\ \E w \in W : w[1] \in Users /\ w[2].account = a
                      \/ a \in Requests /\ \E w \in W : w[1] = a
  BY DEF Wrote, Handled, Does, Plans, Rows
<1>2. ASSUME NEW i \in 1..Len(todo'), todo'[i].op = "answer"
      PROVE  /\ todo'[i].file \in Requests =>
                  \E j \in 1..Len(todo') : j < i /\ todo'[j].op = "rename" /\ todo'[j].file = todo'[i].file
             /\ todo'[i].file \in Accounts =>
                  \E j \in 1..Len(todo') : /\ j < i /\ todo'[j].op = "rename" /\ todo'[j].file \in Users
                                           /\ todo'[j].content.account = todo'[i].file
  <2> DEFINE a == todo'[i].file
  <2>1. a \in A
    <3>1. todo'[i] \in Range(todo')
      BY <1>1 DEF Range
    <3> QED
      BY <1>1, <1>2, <3>1 DEF Does
  <2>2. ASSUME NEW w \in W
        PROVE  \E j \in 1..Len(todo') : j < i /\ todo'[j].op = "rename" /\ todo'[j].file = w[1] /\ todo'[j].content = w[2]
    <3>1. PICK j \in 1..Len(todo') : j < i /\ todo'[j] = Step("rename", w[1], w[2])
      BY <1>1, <1>2 DEF AnswersLast
    <3> QED
      BY <3>1 DEF Step
  <2> HIDE DEF a
  <2>3. ASSUME a \in Requests
        PROVE  \E j \in 1..Len(todo') : j < i /\ todo'[j].op = "rename" /\ todo'[j].file = a
    <3>1. PICK w \in W : w[1] = a
      BY <1>1, <2>1, <2>3, Apart
    <3> QED
      BY <2>2, <3>1
  <2>4. ASSUME a \in Accounts
        PROVE  \E j \in 1..Len(todo') : /\ j < i /\ todo'[j].op = "rename" /\ todo'[j].file \in Users
                                        /\ todo'[j].content.account = a
    <3>1. PICK w \in W : w[1] \in Users /\ w[2].account = a
      BY <1>1, <2>1, <2>4, Apart
    <3> QED
      BY <2>2, <3>1
  <2> QED
    BY <2>3, <2>4 DEF a
<1> QED
  BY <1>2 DEF AnswerInv

LEMMA AnswerNext == TypeInv /\ ClaimsInv /\ AnswerInv /\ [Next]_vars => AnswerInv'
<1> SUFFICES ASSUME TypeInv, ClaimsInv, AnswerInv, [Next]_vars PROVE AnswerInv'
  OBVIOUS
<1>1. CASE Crash
  <2>1. Len(todo') = 0
    BY <1>1 DEF Crash
  <2> QED
    BY <2>1 DEF AnswerInv
<1>2. CASE UNCHANGED vars
  BY <1>2 DEF vars, AnswerInv, IsThere, ProfileOf, Profiles
<1>3. CASE Handling
  BY <1>3, HandlingWrites, AnswerHandled
<1> QED
  BY <1>1, <1>2, <1>3, NextIs, AnswerFileStep

\* At most one account is in hand.
LEMMA InHandIsOne == \E a : InHand \subseteq {a}
  BY DEF InHand

LEMMA LostType == ASSUME TypeInv PROVE IsFiniteSet(Lost)
<1>1. IsFiniteSet(answered) /\ Lost \subseteq answered
  BY DEF TypeInv, Lost
<1> QED
  BY <1>1, FS_Subset

LEMMA LossFileStep ==
  ASSUME TypeInv, ClaimsInv, AnswerInv, LossInv, FileStep
  PROVE  LossInv'
<1> DEFINE s == Head(todo)
<1>1. /\ todo # <<>> /\ s \in Steps
      /\ Opened(s) \/ Written(s) \/ Removed(s) \/ Renamed(s) \/ Answered(s)
      /\ s.op = "answer" => s.file \in Accounts \cup Requests
      /\ crashes' = crashes
  BY FileStepDoes
<1>2. /\ s = todo[1] /\ 1 \in 1..Len(todo)
      /\ s.op = "remove" => todo' # <<>> /\ Head(todo') = Step("rename", s.file, s.content)
  BY TodoTail
<1>3. ASSUME NEW a, a \in Lost', a \notin InHand' PROVE a \in Lost \ InHand
  <2>1. a \in Accounts /\ a \in answered' /\ ProfileOf(a)' = {}
    BY <1>3 DEF Lost
  <2>2. ProfileOf(a) = {}
    <3> SUFFICES ASSUME NEW u \in ProfileOf(a) PROVE FALSE
      OBVIOUS
    <3>1. s.op = "remove" /\ s.file = u /\ s.content.account = a
      BY <2>1, AccountStep
    <3>2. u \in Users
      BY DEF ProfileOf, Profiles
    <3>3. /\ todo' # <<>> /\ Head(todo').op = "rename" /\ Head(todo').file \in Users
          /\ a = Head(todo').content.account
      BY <1>2, <3>1, <3>2 DEF Step
    <3>4. a \in InHand'
      BY <2>1, <3>3 DEF InHand
    <3> QED
      BY <1>3, <3>4
  <2>3. a \in answered
    <3>1. CASE Answered(s)
      <4>1. s.op = "answer" /\ answered' = answered \cup {s.file}
        BY <3>1 DEF Answered
      <4>2. s.file # a
        <5> SUFFICES ASSUME s.file = a PROVE FALSE
          OBVIOUS
        <5>1. ProfileOf(a) # {} \/ \E j \in 1..Len(todo) : j < 1
          BY <1>2, <2>1, <4>1 DEF AnswerInv
        <5> QED
          BY <2>2, <5>1
      <4> QED
        BY <2>1, <4>1, <4>2
    <3>2. CASE ~Answered(s)
      BY <1>1, <2>1, <3>2 DEF Opened, Written, Removed, Renamed
    <3> QED
      BY <3>1, <3>2
  <2>4. a \notin InHand
    <3> SUFFICES ASSUME a \in InHand PROVE FALSE
      OBVIOUS
    <3>1. PICK u \in Users : s.op = "rename" /\ s.file = u /\ s.content.account = a
      BY DEF InHand
    <3>2. u \in ProfileOf(a)'
      BY <3>1, AccountRenamed
    <3> QED
      BY <2>1, <3>2
  <2> QED
    BY <2>1, <2>2, <2>3, <2>4 DEF Lost
<1>4. (Lost \ InHand)' \subseteq Lost \ InHand
  BY <1>3
<1>5. IsFiniteSet(Lost \ InHand)
  <2>1. Lost \ InHand \subseteq Lost
    OBVIOUS
  <2> QED
    BY <2>1, LostType, FS_Subset
<1>6. /\ Cardinality((Lost \ InHand)') <= Cardinality(Lost \ InHand)
      /\ Cardinality((Lost \ InHand)') \in Nat /\ Cardinality(Lost \ InHand) \in Nat
  BY <1>4, <1>5, FS_Subset, FS_CardinalityType
<1> QED
  BY <1>1, <1>6 DEF LossInv, TypeInv

LEMMA LossCrash ==
  ASSUME TypeInv, LossInv, Crash
  PROVE  LossInv'
<1>1. todo' = <<>> /\ crashes' = crashes + 1 /\ UNCHANGED <<disk, answered>>
  BY DEF Crash
<1>2. Lost' = Lost /\ InHand' = {}
  BY <1>1 DEF Lost, InHand, ProfileOf, Profiles, IsThere
<1>3. PICK a : InHand \subseteq {a}
  BY InHandIsOne
<1> DEFINE L == Lost \ InHand
<1>4. IsFiniteSet(L) /\ Lost \subseteq L \cup {a} /\ Cardinality(L) <= crashes
  <2>1. L \subseteq Lost /\ Lost \subseteq L \cup {a}
    BY <1>3
  <2> QED
    BY <2>1, LostType, FS_Subset DEF LossInv
<1> HIDE DEF L
<1>5. IsFiniteSet(L \cup {a}) /\ Cardinality(L \cup {a}) <= Cardinality(L) + 1 /\ Cardinality(L) \in Nat
  BY <1>4, FS_AddElement, FS_CardinalityType
<1>6. Cardinality(Lost) <= Cardinality(L \cup {a}) /\ Cardinality(Lost) \in Nat /\ Cardinality(L \cup {a}) \in Nat
  BY <1>4, <1>5, FS_Subset, FS_CardinalityType
<1>7. Cardinality(Lost) <= crashes + 1
  BY <1>4, <1>5, <1>6 DEF TypeInv
<1>8. Lost \ {} = Lost
  OBVIOUS
<1> QED
  BY <1>1, <1>2, <1>7, <1>8 DEF LossInv

LEMMA LossHandled ==
  ASSUME TypeInv, LossInv, NEW W, NEW A, Wrote(W, A)
  PROVE  LossInv'
<1>1. todo = <<>> /\ UNCHANGED <<disk, answered, crashes>> /\ todo' \in Plans
  BY DEF Wrote, Handled, Does
<1>2. InHand = {} /\ InHand' = {} /\ Lost' = Lost
  BY <1>1, PlanBegins DEF InHand, Lost, ProfileOf, Profiles, IsThere
<1> QED
  BY <1>1, <1>2 DEF LossInv

LEMMA LossNext == TypeInv /\ ClaimsInv /\ AnswerInv /\ LossInv /\ [Next]_vars => LossInv'
<1> SUFFICES ASSUME TypeInv, ClaimsInv, AnswerInv, LossInv, [Next]_vars PROVE LossInv'
  OBVIOUS
<1>1. CASE UNCHANGED vars
  BY <1>1 DEF vars, LossInv, Lost, InHand, ProfileOf, Profiles, IsThere
<1>2. CASE Handling
  BY <1>2, HandlingWrites, LossHandled
<1> QED
  BY <1>1, <1>2, NextIs, LossFileStep, LossCrash

LEMMA AccountsInit == Init => ClaimsInv /\ AnswerInv /\ LossInv
<1> SUFFICES ASSUME Init PROVE ClaimsInv /\ AnswerInv /\ LossInv
  OBVIOUS
<1>1. todo = <<>> /\ disk = [f \in Files |-> NoFile] /\ answered = {} /\ crashes = 0
  BY DEF Init
<1>2. Range(todo) = {} /\ Len(todo) = 0 /\ \A u \in Users : ~IsThere(u)
  BY <1>1 DEF Range, IsThere, Files
<1>3. Lost \ InHand = {}
  BY <1>1 DEF Lost
<1>4. ClaimsInv /\ AnswerInv
  BY <1>2 DEF ClaimsInv, Claims, AnswerInv
<1> QED
  BY <1>1, <1>3, <1>4, FS_EmptySet DEF LossInv

\* No account ever has two profiles, and every crash costs at most one user who was told
\* that he is registered, at whichever step of whichever handler or load it comes.
THEOREM OneLostInACrash == Spec => []AccountsKept
<1>1. TypeInv /\ ClaimsInv /\ LossInv => AccountsKept
  <2> SUFFICES ASSUME TypeInv, ClaimsInv, LossInv, todo = <<>> PROVE AccountsKept
    BY DEF AccountsKept
  <2>1. ASSUME NEW u \in Profiles, NEW v \in Profiles, disk[u].account = disk[v].account PROVE u = v
    <3>1. u \in Users /\ v \in Users /\ IsThere(u) /\ IsThere(v)
      BY DEF Profiles
    <3>2. disk[u].account \in Accounts
      BY <3>1, UserThere DEF Profile
    <3> QED
      BY <2>1, <3>1, <3>2 DEF ClaimsInv, Claims
  <2>2. InHand = {}
    BY DEF InHand
  <2>3. Lost \ InHand = {a \in answered \cap Accounts : ProfileOf(a) = {}}
    BY <2>2 DEF Lost
  <2> QED
    BY <2>1, <2>3 DEF AccountsKept, LossInv
<1> QED
  BY <1>1, TypeInit, TypeNext, AccountsInit, ClaimsNext, AnswerNext, LossNext, PTL DEF Spec

-----------------------------------------------------------------------------
(* The requests.                                                           *)

LEMMA FollowsIn ==
  ASSUME NEW s, NEW t, NEW f, NEW c, Follows(s, t)
  PROVE  /\ s = Step("open", f, c) => t = Step("write", f, c)
         /\ s = Step("write", f, c) => t = Step("remove", f, c)
         /\ s = Step("remove", f, c) => t = Step("rename", f, c)
  BY DEF Follows, Step

\* Whatever is written is renamed in the end.
LEMMA RenameComes ==
  ASSUME NEW t \in Rows, t # <<>>, Head(t).op \in {"open", "write", "remove"}
  PROVE  Step("rename", Head(t).file, Head(t).content) \in Range(Tail(t))
<1> DEFINE Begins(r, op, f, c) == r \in Rows /\ r # <<>> /\ Head(r) = Step(op, f, c)
<1>1. ASSUME NEW r, NEW op \in {"open", "write", "remove"}, NEW f, NEW c, Begins(r, op, f, c)
      PROVE  /\ Tail(r) \in Rows /\ Tail(r) # <<>> /\ Follows(Head(r), Head(Tail(r)))
             /\ Head(Tail(r)) \in Range(Tail(r)) /\ Range(Tail(Tail(r))) \subseteq Range(Tail(r))
  <2>1. r \in Rows /\ r # <<>> /\ ~Ends(Head(r))
    BY <1>1 DEF Ends, Step
  <2>2. Tail(r) \in Rows /\ Tail(r) # <<>> /\ Follows(Head(r), Head(Tail(r)))
    BY <2>1, RowTail
  <2>3. Tail(r) \in Seq(Steps)
    BY <2>2 DEF Rows
  <2>4. Range(Tail(r)) = {Head(Tail(r))} \cup Range(Tail(Tail(r)))
    BY <2>2, <2>3, RangeTail
  <2> QED
    BY <2>2, <2>4
<1>2. ASSUME NEW r, NEW f, NEW c, Begins(r, "remove", f, c)
      PROVE  Step("rename", f, c) \in Range(Tail(r))
  <2>1. /\ Tail(r) \in Rows /\ Tail(r) # <<>> /\ Follows(Head(r), Head(Tail(r)))
        /\ Head(Tail(r)) \in Range(Tail(r))
    BY <1>1, <1>2
  <2>2. Begins(Tail(r), "rename", f, c)
    BY <1>2, <2>1, FollowsIn
  <2> QED
    BY <2>1, <2>2
<1>3. ASSUME NEW r, NEW f, NEW c, Begins(r, "write", f, c)
      PROVE  Step("rename", f, c) \in Range(Tail(r))
  <2>1. /\ Tail(r) \in Rows /\ Tail(r) # <<>> /\ Follows(Head(r), Head(Tail(r)))
        /\ Range(Tail(Tail(r))) \subseteq Range(Tail(r))
    BY <1>1, <1>3
  <2>2. Begins(Tail(r), "remove", f, c)
    BY <1>3, <2>1, FollowsIn
  <2> QED
    BY <1>2, <2>1, <2>2
<1>4. ASSUME NEW r, NEW f, NEW c, Begins(r, "open", f, c)
      PROVE  Step("rename", f, c) \in Range(Tail(r))
  <2>1. /\ Tail(r) \in Rows /\ Tail(r) # <<>> /\ Follows(Head(r), Head(Tail(r)))
        /\ Range(Tail(Tail(r))) \subseteq Range(Tail(r))
    BY <1>1, <1>4
  <2>2. Begins(Tail(r), "write", f, c)
    BY <1>4, <2>1, FollowsIn
  <2> QED
    BY <1>3, <2>1, <2>2
<1>5. Head(t) \in Steps
  BY RowTail
<1>6. Head(t) = Step(Head(t).op, Head(t).file, Head(t).content)
  <2>1. \A x \in Steps : x = Step(x.op, x.file, x.content)
    BY DEF Steps, FileSteps, Step
  <2> QED
    BY <1>5, <2>1, Zenon
<1>7. Begins(t, Head(t).op, Head(t).file, Head(t).content)
  BY <1>6
<1> HIDE DEF Begins
<1> QED
  BY <1>2, <1>3, <1>4, <1>7

\* What a step does to a request's files, by what can be read of them.
LEMMA RequestStep ==
  ASSUME TypeInv, WritingInv, FileStep, NEW q \in Requests
  PROVE  LET s == Head(todo) IN
         /\ ~(s.op # "answer" /\ s.file = q) => /\ disk'[q] = disk[q] /\ temp'[q] = temp[q]
                                                /\ Renames(q) => Renames(q)'
         /\ (s.op \in {"open", "write", "remove"} /\ s.file = q) => Renames(q)'
         /\ (s.op \in {"open", "write"} /\ s.file = q) => disk'[q] = disk[q]
         /\ (s.op = "open" /\ s.file = q) => temp'[q] = Torn
         /\ (s.op = "write" /\ s.file = q) => temp'[q] = s.content
         /\ (s.op = "remove" /\ s.file = q) => temp'[q] = temp[q] /\ disk'[q] \in {disk[q], NoFile, Gone}
         /\ (s.op \in {"remove", "rename"} /\ s.file = q) => temp[q] = s.content
         /\ (s.op = "rename" /\ s.file = q) => temp'[q] = NoFile /\ disk'[q] = s.content
         /\ (s.op # "answer" /\ s.file = q) => s.content \in Request /\ s.content \in Versions(q)
<1> DEFINE s == Head(todo)
<1>1. /\ todo # <<>> /\ s \in Range(todo) /\ todo' = Tail(todo)
      /\ Opened(s) \/ Written(s) \/ Removed(s) \/ Renamed(s) \/ Answered(s)
      /\ s.op # "answer" => s \in FileSteps
  BY FileStepDoes
<1>2. Range(todo) = {s} \cup Range(todo')
  BY TodoRange
<1>3. s.op \in {"open", "write", "remove"} => Step("rename", s.file, s.content) \in Range(todo')
  BY <1>1, RenameComes DEF TypeInv
<1>4. s.op \in {"remove", "rename"} /\ s.file \in Requests => temp[s.file] = s.content
  BY <1>1 DEF WritingInv
<1> HIDE DEF s
<1>5. /\ disk \in [Files -> Contents \cup {NoFile, Gone}] /\ q \in Files
      /\ temp \in [Requests -> Request \cup {NoFile, Torn}]
  BY DEF TypeInv, Files
<1>6. ~(s.op # "answer" /\ s.file = q) => (Renames(q) => Renames(q)')
  BY <1>2 DEF Renames
<1>7. s.op \in {"open", "write", "remove"} /\ s.file = q => Renames(q)'
  BY <1>3 DEF Renames, Step
<1>8. s.op # "answer" /\ s.file = q => s.content \in Request /\ s.content \in Versions(q)
  <2>1. s.op # "answer" /\ s.file = q => s.content \in Request
    BY <1>1 DEF FileSteps, Fits
  <2> QED
    BY <1>1, <2>1 DEF Versions, OnFile
<1>9. /\ ~(s.op # "answer" /\ s.file = q) => disk'[q] = disk[q] /\ temp'[q] = temp[q]
      /\ (s.op \in {"open", "write"} /\ s.file = q) => disk'[q] = disk[q]
      /\ (s.op = "open" /\ s.file = q) => temp'[q] = Torn
      /\ (s.op = "write" /\ s.file = q) => temp'[q] = s.content
      /\ (s.op = "remove" /\ s.file = q) => temp'[q] = temp[q] /\ disk'[q] \in {disk[q], NoFile, Gone}
      /\ (s.op = "rename" /\ s.file = q) => temp'[q] = NoFile /\ disk'[q] = s.content
  <2>1. CASE Opened(s)
    BY <1>5, <2>1 DEF Opened
  <2>2. CASE Written(s)
    BY <1>5, <2>2 DEF Written
  <2>3. CASE Removed(s)
    BY <1>5, <2>3 DEF Removed
  <2>4. CASE Renamed(s)
    BY <1>5, <2>4 DEF Renamed
  <2>5. CASE Answered(s)
    BY <1>5, <2>5 DEF Answered
  <2> QED
    BY <1>1, <2>1, <2>2, <2>3, <2>4, <2>5
<1> QED
  BY <1>4, <1>6, <1>7, <1>8, <1>9 DEF s

LEMMA SurviveFileStep ==
  ASSUME TypeInv, WritingInv, AnswerInv, SurviveInv, FileStep
  PROVE  SurviveInv'
<1> DEFINE s == Head(todo)
<1> SUFFICES ASSUME NEW q \in Requests
             PROVE  /\ crashes' = 0 /\ temp'[q] # NoFile => Renames(q)'
                    /\ crashes' = 0 /\ q \in answered' =>
                         IsThere(q)' \/ (todo' # <<>> /\ Head(todo').op = "rename" /\ Head(todo').file = q)
                    /\ crashes' <= 1 /\ q \in answered' => Views(q)' # {} \/ Renames(q)'
  BY DEF SurviveInv
<1>1. /\ crashes' = crashes
      /\ Opened(s) \/ Written(s) \/ Removed(s) \/ Renamed(s) \/ Answered(s)
  BY FileStepDoes
<1>2. /\ s = todo[1] /\ 1 \in 1..Len(todo)
      /\ s.op = "remove" => todo' # <<>> /\ Head(todo') = Step("rename", s.file, s.content)
  BY TodoTail
<1>3. /\ ~(s.op # "answer" /\ s.file = q) => /\ disk'[q] = disk[q] /\ temp'[q] = temp[q]
                                             /\ Renames(q) => Renames(q)'
      /\ (s.op \in {"open", "write", "remove"} /\ s.file = q) => Renames(q)'
      /\ (s.op \in {"open", "write"} /\ s.file = q) => disk'[q] = disk[q]
      /\ (s.op = "rename" /\ s.file = q) => temp'[q] = NoFile /\ disk'[q] = s.content
      /\ (s.op # "answer" /\ s.file = q) => s.content \in Request
  BY RequestStep
<1>4. /\ crashes = 0 /\ temp[q] # NoFile => Renames(q)
      /\ crashes = 0 /\ q \in answered =>
           IsThere(q) \/ (todo # <<>> /\ s.op = "rename" /\ s.file = q)
      /\ crashes <= 1 /\ q \in answered => Views(q) # {} \/ Renames(q)
  BY DEF SurviveInv
<1>5. s.op \in {"open", "write", "remove", "rename", "answer"}
  BY FileStepDoes DEF Steps, FileSteps
<1>6. q \in answered' => q \in answered \/ (s.op = "answer" /\ IsThere(q))
  <2>1. ASSUME s.op = "answer", s.file = q PROVE IsThere(q)
    <3>1. IsThere(q) \/ \E j \in 1..Len(todo) : j < 1
      BY <1>2, <2>1 DEF AnswerInv
    <3> QED
      BY <3>1
  <2> QED
    BY <1>1, <2>1 DEF Opened, Written, Removed, Renamed, Answered
<1>7. \A r \in Request : r # NoFile /\ r # Gone /\ r # Torn
  BY Apart
<1> HIDE DEF s
<1>8. ASSUME crashes' = 0, temp'[q] # NoFile PROVE Renames(q)'
  BY <1>1, <1>3, <1>4, <1>5, <1>8
<1>9. ASSUME crashes' = 0, q \in answered'
      PROVE  IsThere(q)' \/ (todo' # <<>> /\ Head(todo').op = "rename" /\ Head(todo').file = q)
  <2>1. CASE s.op = "remove" /\ s.file = q
    BY <1>2, <2>1 DEF Step
  <2>2. CASE s.op = "rename" /\ s.file = q
    BY <1>3, <1>7, <2>2 DEF IsThere
  <2>3. CASE ~(s.op \in {"remove", "rename"} /\ s.file = q)
    <3>1. disk'[q] = disk[q] /\ IsThere(q)
      BY <1>1, <1>3, <1>4, <1>5, <1>6, <1>9, <2>3
    <3> QED
      BY <3>1 DEF IsThere
  <2> QED
    BY <2>1, <2>2, <2>3
<1>10. ASSUME crashes' <= 1, q \in answered' PROVE Views(q)' # {} \/ Renames(q)'
  <2>1. CASE s.op \in {"open", "write", "remove"} /\ s.file = q
    BY <1>3, <2>1
  <2>2. CASE s.op = "rename" /\ s.file = q
    <3>1. disk'[q] \in Views(q)'
      BY <1>3, <1>7, <2>2 DEF Views
    <3> QED
      BY <3>1
  <2>3. CASE ~(s.op # "answer" /\ s.file = q)
    <3>1. Views(q)' = Views(q) /\ (Renames(q) => Renames(q)')
      BY <1>3, <2>3 DEF Views
    <3>3. IsThere(q) => Views(q) # {}
      <4>1. IsThere(q) => disk[q] \in Contents
        BY DiskFits DEF Fits, Files
      <4> QED
        BY <4>1, Apart DEF IsThere, Views
    <3> QED
      BY <1>1, <1>4, <1>6, <1>10, <3>1, <3>3
  <2> QED
    BY <1>5, <2>1, <2>2, <2>3
<1> QED
  BY <1>8, <1>9, <1>10

LEMMA SurviveCrash ==
  ASSUME TypeInv, WritingInv, SurviveInv, Crash
  PROVE  SurviveInv'
<1>1. todo # <<>> /\ crashes' = crashes + 1 /\ crashes \in Nat /\ UNCHANGED <<disk, temp, answered>>
  BY DEF Crash, TypeInv
<1> SUFFICES ASSUME NEW q \in Requests, crashes = 0, q \in answered PROVE Views(q)' # {}
  BY <1>1 DEF SurviveInv
<1>2. Views(q)' = Views(q)
  BY <1>1 DEF Views
<1>3. CASE IsThere(q)
  <2>1. disk[q] \in Contents
    BY <1>3, DiskFits DEF Fits, Files
  <2> QED
    BY <1>2, <1>3, <2>1, Apart DEF IsThere, Views
<1>4. CASE Head(todo).op = "rename" /\ Head(todo).file = q
  <2>1. temp[q] = Head(todo).content
    BY <1>1, <1>4 DEF WritingInv
  <2>2. Head(todo) \in FileSteps
    BY <1>1, <1>4, RowTail DEF TypeInv, Steps
  <2>3. temp[q] \in Request
    BY <1>4, <2>1, <2>2 DEF FileSteps, Fits
  <2> QED
    BY <1>2, <2>3, Apart DEF Views
<1> QED
  BY <1>3, <1>4 DEF SurviveInv

LEMMA SurviveNext == TypeInv /\ WritingInv /\ AnswerInv /\ SurviveInv /\ [Next]_vars => SurviveInv'
<1> SUFFICES ASSUME TypeInv, WritingInv, AnswerInv, SurviveInv, [Next]_vars PROVE SurviveInv'
  OBVIOUS
<1>1. CASE UNCHANGED vars
  BY <1>1 DEF vars, SurviveInv, Renames, IsThere, Views
<1>2. CASE Handling
  <2>1. todo = <<>> /\ UNCHANGED <<disk, temp, answered, crashes>>
    BY <1>2, HandlingWrites DEF Wrote, Handled
  <2>2. \A q : ~Renames(q)
    BY <2>1, NothingLeft
  <2> QED
    BY <2>1, <2>2 DEF SurviveInv, IsThere, Views
<1> QED
  BY <1>1, <1>2, NextIs, SurviveFileStep, SurviveCrash

LEMMA SurviveInit == Init => SurviveInv
  BY DEF Init, SurviveInv

\* As long as the server stops at most once, no request that its sender was told of is
\* lost, at whichever step of sending it, deciding it or passing it over it comes. A
\* second stop may lose one: it can come while the file that is left is replaced.
THEOREM OneCrashLosesNoRequest ==
  ASSUME MaxCrashes <= 1
  PROVE  Spec => []RequestSurvives
<1>1. TypeInv /\ SurviveInv => RequestSurvives
  <2> SUFFICES ASSUME TypeInv, SurviveInv, todo = <<>> PROVE RequestSurvives
    BY DEF RequestSurvives
  <2>1. \A q : ~Renames(q)
    BY NothingLeft
  <2>2. crashes <= 1
    BY UserStoreAssumption DEF TypeInv
  <2> QED
    BY <2>1, <2>2 DEF RequestSurvives, SurviveInv
<1> QED
  BY <1>1, TypeInit, TypeNext, AccountsInit, ClaimsNext, AnswerNext, SurviveInit, SurviveNext, PTL DEF Spec

\* What a request reads as never grows while a plan is followed.
LEMMA VersionsStep ==
  ASSUME TypeInv, WritingInv, FileStep, NEW q \in Requests
  PROVE  Versions(q)' \subseteq Versions(q)
<1> DEFINE s == Head(todo)
<1>1. Range(todo) = {s} \cup Range(todo')
  BY TodoRange
<1>2. /\ ~(s.op # "answer" /\ s.file = q) => disk'[q] = disk[q] /\ temp'[q] = temp[q]
      /\ (s.op \in {"open", "write"} /\ s.file = q) => disk'[q] = disk[q]
      /\ (s.op = "open" /\ s.file = q) => temp'[q] = Torn
      /\ (s.op = "write" /\ s.file = q) => temp'[q] = s.content
      /\ (s.op = "remove" /\ s.file = q) => temp'[q] = temp[q] /\ disk'[q] \in {disk[q], NoFile, Gone}
      /\ (s.op = "rename" /\ s.file = q) => temp'[q] = NoFile /\ disk'[q] = s.content
      /\ (s.op # "answer" /\ s.file = q) => s.content \in Versions(q)
  BY RequestStep
<1>3. s.op \in {"open", "write", "remove", "rename", "answer"}
  BY FileStepDoes DEF Steps, FileSteps
<1> HIDE DEF s
<1>4. Views(q)' \subseteq Views(q) \cup (IF s.op # "answer" /\ s.file = q THEN {s.content} ELSE {})
  <2>1. CASE s.op # "answer" /\ s.file = q
    BY <1>2, <1>3, <2>1 DEF Views
  <2>2. CASE ~(s.op # "answer" /\ s.file = q)
    BY <1>2, <2>2 DEF Views
  <2> QED
    BY <2>1, <2>2
<1>5. Views(q)' \subseteq Versions(q)
  BY <1>2, <1>4 DEF Versions
<1>6. ASSUME NEW x \in Range(todo'), OnFile(x, q) PROVE x.content \in Versions(q)
  BY <1>1, <1>6 DEF Versions
<1> QED
  BY <1>5, <1>6 DEF Versions, OnFile

LEMMA PendingHandled ==
  ASSUME TypeInv, SurviveInv, PendingInv, NEW W, NEW A, Wrote(W, A)
  PROVE  PendingInv'
<1>1. /\ todo = <<>> /\ UNCHANGED <<disk, temp, crashes>> /\ Does(todo', W, A)
      /\ \A w \in W : w[1] \in Requests => w[2].status # "PENDING" \/ Sent(w)
      /\ \A w, x \in W : Sent(w) /\ w[2].status = "PENDING" /\ x[1] \in Requests => w = x
  BY Apart DEF Wrote, Handled, Kept, New
<1> SUFFICES ASSUME crashes = 0, NEW q \in Requests, NEW s \in Requests,
                    NEW r, r \in Versions(q)', NEW t, t \in Versions(s)',
                    q # s, r.status = "PENDING", t.status = "PENDING"
             PROVE  ~Between(r, t.requester, t.receiver)
  BY <1>1 DEF PendingInv
<1> DEFINE Reads(p, x) == x \in Views(p)
           Sends(p, x) == \E w \in W : w[1] = p /\ w[2] = x /\ Sent(w)
<1>2. ASSUME NEW p \in Requests, NEW x, x \in Versions(p)', x.status = "PENDING"
      PROVE  Reads(p, x) \/ Sends(p, x)
  <2>1. CASE x \in Views(p)'
    BY <1>1, <2>1 DEF Views
  <2>2. CASE \E y \in Range(todo') : OnFile(y, p) /\ y.content = x
    <3>1. PICK w \in W : w[1] = p /\ w[2] = x
      BY <1>1, <2>2 DEF Does, OnFile
    <3> QED
      BY <1>1, <1>2, <3>1
  <2> QED
    BY <1>2, <2>1, <2>2 DEF Versions, OnFile
<1>3. ASSUME NEW p \in Requests, NEW o \in Requests, NEW x, NEW y, p # o,
             x.status = "PENDING", y.status = "PENDING", Reads(p, x), Reads(o, y)
      PROVE  ~Between(x, y.requester, y.receiver)
  <2>1. x \in Versions(p) /\ y \in Versions(o)
    BY <1>3 DEF Versions
  <2> QED
    BY <1>3, <2>1 DEF PendingInv
<1>4. ASSUME NEW p \in Requests, NEW o \in Requests, NEW x, NEW y,
             x.status = "PENDING", Reads(p, x), Sends(o, y)
      PROVE  ~Between(x, y.requester, y.receiver)
  <2>1. PICK w \in W : w[1] = o /\ w[2] = y /\ Sent(w)
    BY <1>4
  <2>2. PICK v \in Readings : ~PendingBetween(v, y.requester, y.receiver)
    BY <2>1 DEF Sent
  <2>3. temp[p] = NoFile
    BY <1>1, NothingLeft DEF SurviveInv
  <2>4. v[p] = x
    BY <1>4, <2>3, ReadingViews DEF Views
  <2>5. x # NoFile
    BY <1>4 DEF Views
  <2> QED
    BY <1>4, <2>2, <2>4, <2>5 DEF PendingBetween, Pending
<1>5. ASSUME NEW p \in Requests, NEW o \in Requests, NEW x, NEW y, p # o,
             x.status = "PENDING", Sends(p, x), Sends(o, y)
      PROVE  FALSE
  <2>1. PICK w \in W : w[1] = p /\ w[2] = x /\ Sent(w)
    BY <1>5
  <2>2. PICK z \in W : z[1] = o /\ z[2] = y /\ Sent(z)
    BY <1>5
  <2>3. w = z
    BY <1>1, <1>5, <2>1, <2>2
  <2> QED
    BY <1>5, <2>1, <2>2, <2>3
<1>6. Between(t, r.requester, r.receiver) <=> Between(r, t.requester, t.receiver)
  BY DEF Between
<1>7. (Reads(q, r) \/ Sends(q, r)) /\ (Reads(s, t) \/ Sends(s, t))
  BY <1>2
<1> HIDE DEF Reads, Sends
<1>8. CASE Reads(q, r) /\ Reads(s, t)
  BY <1>3, <1>8
<1>9. CASE Reads(q, r) /\ Sends(s, t)
  BY <1>4, <1>9
<1>10. CASE Sends(q, r) /\ Reads(s, t)
  BY <1>4, <1>6, <1>10
<1>11. CASE Sends(q, r) /\ Sends(s, t)
  BY <1>5, <1>11
<1> QED
  BY <1>7, <1>8, <1>9, <1>10, <1>11

LEMMA PendingNext == TypeInv /\ WritingInv /\ SurviveInv /\ PendingInv /\ [Next]_vars => PendingInv'
<1> SUFFICES ASSUME TypeInv, WritingInv, SurviveInv, PendingInv, [Next]_vars PROVE PendingInv'
  OBVIOUS
<1>1. CASE FileStep
  <2>1. crashes' = crashes /\ \A q \in Requests : Versions(q)' \subseteq Versions(q)
    BY <1>1, FileStepDoes, VersionsStep
  <2> QED
    BY <2>1 DEF PendingInv
<1>2. CASE Crash
  <2>1. crashes' # 0
    BY <1>2 DEF Crash, TypeInv
  <2> QED
    BY <2>1 DEF PendingInv
<1>3. CASE UNCHANGED vars
  BY <1>3 DEF vars, PendingInv, Versions, Views, OnFile
<1>4. CASE Handling
  BY <1>4, HandlingWrites, PendingHandled
<1> QED
  BY <1>1, <1>2, <1>3, <1>4, NextIs

LEMMA PendingInit == Init => PendingInv
<1> SUFFICES ASSUME Init PROVE PendingInv
  OBVIOUS
<1>1. \A q \in Requests : Versions(q) = {}
  BY DEF Init, Versions, Views, Range, Files
<1> QED
  BY <1>1 DEF PendingInv

\* Without a crash two users never have two requests open between them, whoever sent them
\* and however often, and whatever was decided in between.
THEOREM NoSecondRequest == Spec => []OnePendingBetween
<1>1. PendingInv => OnePendingBetween
  <2> SUFFICES ASSUME PendingInv, crashes = 0 PROVE OnePendingBetween
    BY DEF OnePendingBetween
  <2>1. \A q \in Requests : Views(q) \subseteq Versions(q)
    BY DEF Versions
  <2> QED
    BY <2>1 DEF OnePendingBetween, PendingInv
<1> QED
  BY <1>1, TypeInit, TypeNext, AccountsInit, ClaimsNext, AnswerNext, SurviveInit, SurviveNext,
     PendingInit, PendingNext, PTL DEF Spec

LEMMA BefriendedStep ==
  ASSUME TypeInv, FileStep, NEW i \in 1..Len(todo'), NEW x \in Users, NEW y,
         Befriended(i + 1, x, y), todo'[i].file \in Requests
  PROVE  Befriended(i, x, y)'
<1> DEFINE s == Head(todo)
<1>1. /\ s = todo[1] /\ 1 \in 1..Len(todo)
      /\ \A j \in 1..Len(todo') : j + 1 \in 1..Len(todo) /\ todo'[j] = todo[j + 1]
      /\ \A j \in 1..Len(todo) : j # 1 => j - 1 \in 1..Len(todo') /\ todo'[j - 1] = todo[j]
      /\ s.op = "remove" => 1 \in 1..Len(todo') /\ todo'[1] = Step("rename", s.file, s.content)
  BY TodoTail
<1> HIDE DEF s
<1>2. i \in Nat /\ x \in Files /\ x \notin Requests
  BY Apart DEF Files
<1>3. \A j \in 1..Len(todo) : j < i + 1 /\ OnFile(todo[j], x) => y \in todo[j].content.friends
  BY DEF Befriended
<1>4. ASSUME NEW j \in 1..Len(todo'), j < i, OnFile(todo'[j], x) PROVE y \in todo'[j].content.friends
  <2>1. j + 1 \in 1..Len(todo) /\ j + 1 < i + 1 /\ todo'[j] = todo[j + 1]
    BY <1>1, <1>2, <1>4
  <2> QED
    BY <1>3, <1>4, <2>1
<1>5. \/ IsThere(x)' /\ y \in disk'[x].friends
      \/ \E j \in 1..Len(todo') : j < i /\ todo'[j].op = "rename" /\ todo'[j].file = x
  <2>1. CASE s.op = "rename" /\ s.file = x
    <3>1. disk'[x] = s.content /\ OnFile(s, x) /\ IsThere(x)'
      BY <1>2, <2>1, DiskStep DEF s
    <3>2. y \in s.content.friends
      BY <1>1, <1>2, <1>3, <3>1
    <3> QED
      BY <3>1, <3>2
  <2>2. CASE s.op = "remove" /\ s.file = x
    <3>1. 1 \in 1..Len(todo') /\ todo'[1].op = "rename" /\ todo'[1].file = x
      BY <1>1, <2>2 DEF Step
    <3>2. i # 1
      BY <1>2, <3>1
    <3>3. 1 < i
      BY <1>2, <3>2
    <3> QED
      BY <3>1, <3>3
  <2>3. CASE ~(s.op \in {"remove", "rename"} /\ s.file = x)
    <3>1. CASE IsThere(x) /\ y \in disk[x].friends
      <4>1. IsThere(x)' /\ disk'[x] = disk[x]
        BY <1>2, <2>3, <3>1, DiskStep DEF s
      <4> QED
        BY <3>1, <4>1
    <3>2. CASE \E j \in 1..Len(todo) : j < i + 1 /\ todo[j].op = "rename" /\ todo[j].file = x
      <4>1. PICK j \in 1..Len(todo) : j < i + 1 /\ todo[j].op = "rename" /\ todo[j].file = x
        BY <3>2
      <4>2. j # 1
        BY <1>1, <2>3, <4>1
      <4>3. j - 1 \in 1..Len(todo') /\ todo'[j - 1] = todo[j]
        BY <1>1, <4>2
      <4>4. j - 1 < i
        BY <1>2, <4>1
      <4> QED
        BY <4>1, <4>3, <4>4
    <3> QED
      BY <3>1, <3>2 DEF Befriended
  <2> QED
    BY <2>1, <2>2, <2>3
<1> QED
  BY <1>4, <1>5 DEF Befriended, OnFile

LEMMA LinksFileStep == ASSUME TypeInv, LinksInv, FileStep PROVE LinksInv'
<1>1. \A i \in 1..Len(todo') : i + 1 \in 1..Len(todo) /\ todo'[i] = todo[i + 1]
  BY TodoTail
<1>2. ASSUME NEW i \in 1..Len(todo'), NEW x, NEW y, todo'[i].op # "answer", todo'[i].file \in Requests,
             todo'[i].content.status = "ACCEPTED",
             x = todo'[i].content.requester, y = todo'[i].content.receiver
      PROVE  Befriended(i, x, y)' /\ Befriended(i, y, x)'
  <2>1. i + 1 \in 1..Len(todo) /\ todo'[i] = todo[i + 1]
    BY <1>1
  <2>2. Befriended(i + 1, x, y) /\ Befriended(i + 1, y, x)
    BY <1>2, <2>1 DEF LinksInv
  <2>3. x \in Users /\ y \in Users
    <3>1. todo'[i] \in Steps
      BY <2>1 DEF TypeInv, Rows
    <3>2. todo'[i].content \in Request
      BY <1>2, <3>1 DEF Steps, FileSteps, Fits
    <3> QED
      BY <1>2, <3>2 DEF Request
  <2> QED
    BY <1>2, <2>2, <2>3, BefriendedStep
<1> QED
  BY <1>2 DEF LinksInv, Befriended

LEMMA LinksHandled ==
  ASSUME NEW W, NEW A, Wrote(W, A)
  PROVE  LinksInv'
  BY DEF Wrote, LinkedBefore, Befriends, LinksInv, Befriended

LEMMA LinksNext == TypeInv /\ LinksInv /\ [Next]_vars => LinksInv'
<1> SUFFICES ASSUME TypeInv, LinksInv, [Next]_vars PROVE LinksInv'
  OBVIOUS
<1>1. CASE Crash
  <2>1. Len(todo') = 0
    BY <1>1 DEF Crash
  <2> QED
    BY <2>1 DEF LinksInv
<1>2. CASE UNCHANGED vars
  BY <1>2 DEF vars, LinksInv, Befriended, IsThere, OnFile
<1>3. CASE Handling
  BY <1>3, HandlingWrites, LinksHandled
<1> QED
  BY <1>1, <1>2, <1>3, NextIs, LinksFileStep

LEMMA LinksInit == Init => LinksInv
<1> SUFFICES ASSUME Init PROVE LinksInv
  OBVIOUS
<1>1. Len(todo) = 0
  BY DEF Init
<1> QED
  BY <1>1 DEF LinksInv

\* Wherever the server stops, a request never begins to read as accepted, in its file or in
\* the temporary one that a load reads as well, before both profiles on disk have the
\* friendship.
THEOREM LinkedBeforeAccepted == Spec => AcceptedOnlyWhenLinked
<1> DEFINE Accepting ==
      \A q \in Requests : \A r \in Views(q)' :
        r.status = "ACCEPTED" /\ r \notin Views(q) =>
          r.receiver \in FriendsOf(r.requester) /\ r.requester \in FriendsOf(r.receiver)
<1>1. TypeInv /\ WritingInv /\ LinksInv /\ [Next]_vars => Accepting
  <2> SUFFICES ASSUME TypeInv, WritingInv, LinksInv, [Next]_vars,
                      NEW q \in Requests, NEW r, r \in Views(q)', r.status = "ACCEPTED", r \notin Views(q)
               PROVE  r.receiver \in FriendsOf(r.requester) /\ r.requester \in FriendsOf(r.receiver)
    OBVIOUS
  <2>1. CASE Crash \/ Handling \/ UNCHANGED vars
    <3>1. UNCHANGED <<disk, temp>>
      BY <2>1, HandlingWrites DEF Crash, vars, Wrote, Handled
    <3> QED
      BY <3>1 DEF Views
  <2>2. CASE FileStep
    <3> DEFINE s == Head(todo)
    <3>1. /\ ~(s.op # "answer" /\ s.file = q) => disk'[q] = disk[q] /\ temp'[q] = temp[q]
          /\ (s.op \in {"open", "write"} /\ s.file = q) => disk'[q] = disk[q]
          /\ (s.op = "open" /\ s.file = q) => temp'[q] = Torn
          /\ (s.op = "write" /\ s.file = q) => temp'[q] = s.content
          /\ (s.op = "remove" /\ s.file = q) => temp'[q] = temp[q] /\ disk'[q] \in {disk[q], NoFile, Gone}
          /\ (s.op \in {"remove", "rename"} /\ s.file = q) => temp[q] = s.content
          /\ (s.op = "rename" /\ s.file = q) => temp'[q] = NoFile /\ disk'[q] = s.content
          /\ (s.op # "answer" /\ s.file = q) => s.content \in Request
      BY <2>2, RequestStep
    <3>2. s.op \in {"open", "write", "remove", "rename", "answer"}
      BY <2>2, FileStepDoes DEF Steps, FileSteps
    <3>3. s = todo[1] /\ 1 \in 1..Len(todo)
      BY <2>2, TodoTail
    <3> HIDE DEF s
    <3>4. s.op = "write" /\ s.file = q /\ r = s.content
      BY <3>1, <3>2 DEF Views
    <3>5. Befriended(1, r.requester, r.receiver) /\ Befriended(1, r.receiver, r.requester)
      BY <3>3, <3>4 DEF LinksInv
    <3>6. \A x, y : Befriended(1, x, y) => y \in FriendsOf(x)
      <4>1. \A j \in 1..Len(todo) : ~(j < 1)
        OBVIOUS
      <4> QED
        BY <4>1 DEF Befriended, FriendsOf
    <3> QED
      BY <3>5, <3>6
  <2> QED
    BY <2>1, <2>2, NextIs
<1>2. TypeInv /\ WritingInv /\ LinksInv /\ [Next]_vars => [Accepting]_vars
  BY <1>1
<1>3. Spec => [][Accepting]_vars
  <2> HIDE DEF Accepting
  <2> QED
    BY <1>2, TypeInit, TypeNext, LinksInit, LinksNext, PTL DEF Spec
<1> QED
  BY <1>3 DEF AcceptedOnlyWhenLinked
-----------------------------------------------------------------------------
(* The friendships.                                                        *)

\* The file is between its remove and its rename.
Returns(f) == todo # <<>> /\ Head(todo).op = "rename" /\ Head(todo).file = f

\* A user who has a profile, or gets it back in the next step, and the friends on it.
Stands(u) == IsThere(u) \/ Returns(u)
Circle(u) == IF Returns(u) THEN Head(todo).content.friends ELSE FriendsOf(u)

Comes(u) == \E s \in Range(todo) : OnFile(s, u)
OnUser(s) == s.op # "answer" /\ s.file \in Users

\* What the running handler does to friendships: nothing, ...
Keeps == \A u \in Users : \A s \in Range(todo) : OnFile(s, u) => s.content.friends = Circle(u)

\* ... or to end the one of a and b, for a first, ...
Unlinks(a, b) ==
  /\ a # b /\ <<a, b>> \in deleted
  /\ \A u \in Users : \A s \in Range(todo) : OnFile(s, u) =>
       \/ u = a /\ s.content.friends = Circle(a) \ {b}
       \/ u = b /\ s.content.friends = Circle(b) \ {a}
  /\ \A i \in 1..Len(todo) : OnFile(todo[i], b) =>
       b \notin Circle(a) \/ \E j \in 1..Len(todo) : j < i /\ OnFile(todo[j], a)

\* ... or to make a and b friends, by the request q that waits, in its own file where
\* the server never stopped, until both profiles are written.
Links(q, a, b) ==
  /\ a # b
  /\ \A u \in Users : \A s \in Range(todo) : OnFile(s, u) =>
       \/ u = a /\ s.content.friends = Circle(a) \cup {b}
       \/ u = b /\ s.content.friends = Circle(b) \cup {a}
  /\ b \in Circle(a) \/ Comes(a)
  /\ a \in Circle(b) \/ Comes(b)
  /\ (\E s \in Range(todo) : OnUser(s)) =>
       \E r \in Views(q) : r.status = "PENDING" /\ Between(r, a, b) /\ (crashes = 0 => r = disk[q])
  /\ \A i \in 1..Len(todo) : \A j \in 1..Len(todo) : i < j /\ OnFile(todo[i], q) => ~OnUser(todo[j])

PurposeInv ==
  \/ Keeps
  \/ \E a, b \in Users : Unlinks(a, b)
  \/ \E q \in Requests : \E a, b \in Users : Links(q, a, b)

\* A file is replaced only while it is not there.
GapInv == \A f \in Files : Returns(f) => ~IsThere(f)

\* Friends have, or have had, a profile, so their ids are given to nobody else.
KnownInv ==
  \A u \in Users :
    /\ \A f \in Circle(u) : disk[f] # NoFile
    /\ \A s \in Range(todo) : OnFile(s, u) =>
         /\ \A f \in s.content.friends : disk[f] # NoFile
         /\ Stands(u) \/ (disk[u] = NoFile /\ s.content.friends = {})

\* All versions of a request are between the same two.
PartiesInv == \A q \in Requests : \A r, t \in Versions(q) : SameTwo(r, t)

\* A request is passed over once the two are friends, or another one is rejected.
Rejected(r, a, b) == r.status = "REJECTED" /\ Between(r, a, b)
RejectedBy(i, d, a, b) ==
  /\ \A s \in Range(todo) : OnFile(s, d) => Rejected(s.content, a, b)
  /\ \/ IsThere(d) /\ Rejected(disk[d], a, b)
     \/ \E j \in 1..Len(todo) : j < i /\ todo[j].op = "rename" /\ todo[j].file = d
PassedOver(i, q, a, b) ==
  \/ Befriended(i, a, b) /\ Befriended(i, b, a)
  \/ \E d \in Requests \ {q} : RejectedBy(i, d, a, b)
PassedInv ==
  \A q \in Requests : \A i \in 1..Len(todo) :
    OnFile(todo[i], q) /\ todo[i].content.status = "UNSPECIFIED" =>
      PassedOver(i, q, todo[i].content.requester, todo[i].content.receiver)

\* A friendship on one side only is one that is being made, or one that a request stands
\* for: by its own file after the first crash, by whatever of it is read or still to be
\* written after the second.
OneSided(a, b) == Stands(b) /\ b \in Circle(a) /\ a \notin Circle(b) /\ <<b, a>> \notin deleted
Stays(r, a, b) == r.status \in {"PENDING", "REJECTED"} /\ Between(r, a, b)
OnDisk(a, b) ==
  \E q \in Requests : \/ IsThere(q) /\ Stays(disk[q], a, b)
                      \/ Returns(q) /\ Stays(Head(todo).content, a, b)
Readable(a, b) == \E q \in Requests : \E r \in Versions(q) : Stays(r, a, b)
OneSidedInv ==
  \A a, b \in Users : OneSided(a, b) =>
    \/ \E q \in Requests : Links(q, a, b)
    \/ \E q \in Requests : Links(q, b, a)
    \/ crashes >= 1 /\ OnDisk(a, b)
    \/ crashes >= 2 /\ Readable(a, b)

FriendsInv == GapInv /\ KnownInv /\ PurposeInv /\ PartiesInv /\ PassedInv /\ OneSidedInv

\* How a step moves a profile through its remove and its rename.
LEMMA ReturnsStep ==
  ASSUME TypeInv, FileStep, NEW f
  PROVE  Returns(f)' <=> Head(todo).op = "remove" /\ Head(todo).file = f
<1>1. /\ todo # <<>> /\ todo \in Rows /\ todo' = Tail(todo)
      /\ Head(todo).op = "remove" => todo' # <<>> /\ Head(todo') = Step("rename", Head(todo).file, Head(todo).content)
  BY TodoTail DEF TypeInv, FileStep
<1>2. todo' # <<>> => Follows(Head(todo), Head(todo'))
  BY <1>1, RowTail
<1>3. todo' # <<>> /\ Head(todo').op = "rename" => Head(todo).op = "remove"
  BY <1>2 DEF Follows
<1> QED
  BY <1>1, <1>3 DEF Returns, Step

LEMMA CircleStep ==
  ASSUME TypeInv, FileStep, NEW u \in Users
  PROVE  LET s == Head(todo) IN
         /\ s.op = "remove" /\ s.file = u => Stands(u)' /\ Circle(u)' = s.content.friends
         /\ ~(s.op = "remove" /\ s.file = u) => (Stands(u)' <=> Stands(u)) /\ Circle(u)' = Circle(u)
         /\ s.op = "rename" /\ s.file = u => Circle(u) = s.content.friends
<1> DEFINE s == Head(todo)
<1>1. Returns(u)' <=> s.op = "remove" /\ s.file = u
  BY ReturnsStep
<1>2. /\ s.op = "remove" => Head(todo') = Step("rename", s.file, s.content)
      /\ todo # <<>>
  BY TodoTail DEF FileStep
<1>3. /\ (s.op = "rename" /\ s.file = u) => disk'[u] = s.content /\ IsThere(u)'
      /\ ~(s.op = "rename" /\ s.file = u) /\ IsThere(u)' => disk'[u] = disk[u] /\ IsThere(u)
      /\ ~(s.op = "remove" /\ s.file = u) /\ IsThere(u) => IsThere(u)'
  BY DiskStep DEF Files
<1>4. Returns(u) <=> s.op = "rename" /\ s.file = u
  BY <1>2 DEF Returns
<1> HIDE DEF s
<1>5. CASE s.op = "remove" /\ s.file = u
  BY <1>1, <1>2, <1>5 DEF Stands, Circle, Step, s
<1>6. CASE s.op = "rename" /\ s.file = u
  <2>1. Circle(u) = s.content.friends /\ Stands(u)
    BY <1>4, <1>6 DEF Circle, Stands, s
  <2>2. Circle(u)' = s.content.friends /\ Stands(u)'
    BY <1>1, <1>3, <1>6 DEF Circle, Stands, FriendsOf
  <2> QED
    BY <1>6, <2>1, <2>2 DEF s
<1>7. CASE ~(s.op \in {"remove", "rename"} /\ s.file = u)
  <2>1. ~Returns(u) /\ ~Returns(u)'
    BY <1>1, <1>4, <1>7
  <2>2. IsThere(u)' <=> IsThere(u)
    BY <1>3, <1>7
  <2>3. FriendsOf(u)' = FriendsOf(u)
    BY <1>3, <1>7, <2>2 DEF FriendsOf
  <2>4. (Stands(u)' <=> Stands(u)) /\ Circle(u)' = Circle(u)
    BY <2>1, <2>2, <2>3 DEF Stands, Circle
  <2> QED
    BY <1>7, <2>4 DEF s
<1> QED
  BY <1>5, <1>6, <1>7 DEF s

\* A file that has been there never becomes one that was not.
LEMMA NeverNew ==
  ASSUME TypeInv, FileStep, NEW f \in Files
  PROVE  /\ disk[f] # NoFile => disk'[f] # NoFile
         /\ ~(Head(todo).op \in {"remove", "rename"} /\ Head(todo).file = f) => disk'[f] = disk[f]
<1> DEFINE s == Head(todo)
<1>1. /\ Opened(s) \/ Written(s) \/ Removed(s) \/ Renamed(s) \/ Answered(s)
      /\ s.op # "answer" => s \in FileSteps
  BY FileStepDoes
<1> HIDE DEF s
<1>2. disk \in [Files -> Contents \cup {NoFile, Gone}]
  BY DEF TypeInv
<1>3. CASE Opened(s) \/ Written(s) \/ Answered(s)
  BY <1>3 DEF Opened, Written, Answered
<1>4. CASE Removed(s)
  <2>1. s.op = "remove" /\ disk' = [disk EXCEPT ![s.file] = IF IsThere(s.file) THEN Gone ELSE @]
    BY <1>4 DEF Removed
  <2>2. disk[f] # NoFile => disk'[f] # NoFile
    BY <1>2, <2>1, Apart
  <2>3. s.file # f => disk'[f] = disk[f]
    BY <1>2, <2>1
  <2> QED
    BY <2>1, <2>2, <2>3 DEF s
<1>5. CASE Renamed(s)
  <2>1. s.op = "rename" /\ disk' = [disk EXCEPT ![s.file] = s.content]
    BY <1>5 DEF Renamed
  <2>2. s.content # NoFile
    BY <1>1, <2>1, Apart DEF FileSteps
  <2>3. disk'[f] = IF s.file = f THEN s.content ELSE disk[f]
    BY <1>2, <2>1
  <2> QED
    BY <2>1, <2>2, <2>3 DEF s
<1> QED
  BY <1>1, <1>3, <1>4, <1>5

LEMMA GapFileStep == ASSUME TypeInv, FileStep PROVE GapInv'
<1> SUFFICES ASSUME NEW f \in Files, Returns(f)' PROVE ~IsThere(f)'
  BY DEF GapInv
<1> DEFINE s == Head(todo)
<1>1. s.op = "remove" /\ s.file = f
  BY ReturnsStep
<1>2. Opened(s) \/ Written(s) \/ Removed(s) \/ Renamed(s) \/ Answered(s)
  BY FileStepDoes
<1> HIDE DEF s
<1>3. disk' = [disk EXCEPT ![f] = IF IsThere(f) THEN Gone ELSE @]
  BY <1>1, <1>2 DEF Opened, Written, Removed, Renamed, Answered
<1>4. disk'[f] = IF IsThere(f) THEN Gone ELSE disk[f]
  BY <1>3 DEF TypeInv
<1> QED
  BY <1>4 DEF IsThere

LEMMA KnownFileStep == ASSUME TypeInv, KnownInv, FileStep PROVE KnownInv'
<1> DEFINE s == Head(todo)
<1>1. s \in Range(todo) /\ Range(todo) = {s} \cup Range(todo')
  BY FileStepDoes, TodoRange
<1> SUFFICES ASSUME NEW u \in Users
             PROVE  /\ \A f \in Circle(u)' : disk'[f] # NoFile
                    /\ \A t \in Range(todo') : OnFile(t, u) =>
                         /\ \A f \in t.content.friends : disk'[f] # NoFile
                         /\ Stands(u)' \/ (disk'[u] = NoFile /\ t.content.friends = {})
  BY DEF KnownInv, OnFile
<1>2. /\ s.op = "remove" /\ s.file = u => Stands(u)' /\ Circle(u)' = s.content.friends
      /\ ~(s.op = "remove" /\ s.file = u) => (Stands(u)' <=> Stands(u)) /\ Circle(u)' = Circle(u)
  BY CircleStep
<1>3. u \in Files
  BY DEF Files
<1>4. /\ disk[u] # NoFile => disk'[u] # NoFile
      /\ ~(s.op \in {"remove", "rename"} /\ s.file = u) => disk'[u] = disk[u]
  BY <1>3, NeverNew
<1>5. ASSUME NEW f \in Users, disk[f] # NoFile PROVE disk'[f] # NoFile
  BY <1>5, NeverNew DEF Files
<1>6. s.op = "rename" /\ s.file = u => Stands(u)
  BY DEF Stands, Returns, FileStep
<1> HIDE DEF s
<1>7. /\ \A f \in Circle(u) : disk[f] # NoFile
      /\ \A t \in Range(todo) : OnFile(t, u) =>
           /\ \A f \in t.content.friends : disk[f] # NoFile
           /\ Stands(u) \/ (disk[u] = NoFile /\ t.content.friends = {})
  BY DEF KnownInv
<1>8. ASSUME NEW t \in Range(todo), OnFile(t, u) PROVE t.content.friends \subseteq Users
  <2>1. t \in Steps
    BY DEF TypeInv, Rows, Range
  <2>2. t.content \in Profile
    BY <1>8, <2>1 DEF OnFile, Steps, FileSteps, Fits
  <2> QED
    BY <2>2 DEF Profile
<1>9. Circle(u)' \subseteq Users /\ \A f \in Circle(u)' : disk[f] # NoFile
  <2>1. CASE s.op = "remove" /\ s.file = u
    <3>1. OnFile(s, u)
      BY <2>1 DEF OnFile
    <3> QED
      BY <1>1, <1>2, <1>7, <1>8, <2>1, <3>1
  <2>2. CASE ~(s.op = "remove" /\ s.file = u)
    <3>1. Circle(u) \subseteq Users
      <4>1. CASE Returns(u)
        <5>1. OnFile(s, u) /\ Circle(u) = s.content.friends
          BY <4>1 DEF Returns, OnFile, Circle, s
        <5> QED
          BY <1>1, <1>8, <5>1
      <4>2. CASE ~Returns(u)
        <5>1. Circle(u) = FriendsOf(u)
          BY <4>2 DEF Circle
        <5>2. FriendsOf(u) \subseteq Users
          BY UserThere DEF FriendsOf, Profile
        <5> QED
          BY <5>1, <5>2
      <4> QED
        BY <4>1, <4>2
    <3> QED
      BY <1>2, <1>7, <2>2, <3>1
  <2> QED
    BY <2>1, <2>2
<1>10. ASSUME NEW t \in Range(todo'), OnFile(t, u)
       PROVE  /\ \A f \in t.content.friends : disk'[f] # NoFile
              /\ Stands(u)' \/ (disk'[u] = NoFile /\ t.content.friends = {})
  <2>1. t \in Range(todo)
    BY <1>1
  <2>2. \A f \in t.content.friends : disk'[f] # NoFile
    BY <1>5, <1>7, <1>8, <1>10, <2>1
  <2>3. Stands(u)' \/ (disk'[u] = NoFile /\ t.content.friends = {})
    BY <1>2, <1>4, <1>6, <1>7, <1>10, <2>1
  <2> QED
    BY <2>2, <2>3
<1> QED
  BY <1>5, <1>9, <1>10

\* Each purpose stays what it is to the end of the plan.
LEMMA KeepsStep ==
  ASSUME TypeInv, FileStep, Keeps
  PROVE  Keeps' /\ \A u \in Users : Circle(u)' = Circle(u)
<1> DEFINE s == Head(todo)
<1>1. s \in Range(todo) /\ Range(todo) = {s} \cup Range(todo')
  BY FileStepDoes, TodoRange
<1> HIDE DEF s
<1>2. ASSUME NEW u \in Users PROVE Circle(u)' = Circle(u)
  <2>1. /\ s.op = "remove" /\ s.file = u => Circle(u)' = s.content.friends
        /\ ~(s.op = "remove" /\ s.file = u) => Circle(u)' = Circle(u)
    BY CircleStep DEF s
  <2>2. s.op = "remove" /\ s.file = u => s.content.friends = Circle(u)
    BY <1>1 DEF Keeps, OnFile
  <2> QED
    BY <2>1, <2>2
<1>3. \A u \in Users : \A t \in Range(todo') : OnFile(t, u) => t.content.friends = Circle(u)
  BY <1>1 DEF Keeps
<1> QED
  BY <1>2, <1>3 DEF Keeps, OnFile

LEMMA UnlinksStep ==
  ASSUME TypeInv, FileStep, NEW a \in Users, NEW b \in Users, Unlinks(a, b)
  PROVE  /\ Unlinks(a, b)'
         /\ \A u \in Users : u \notin {a, b} => Circle(u)' = Circle(u)
         /\ Circle(a)' \in {Circle(a), Circle(a) \ {b}}
         /\ Circle(b)' = Circle(b) \/ (Circle(b)' = Circle(b) \ {a} /\ b \notin Circle(a))
<1> DEFINE s == Head(todo)
<1>1. s \in Range(todo) /\ Range(todo) = {s} \cup Range(todo') /\ deleted' = deleted
  BY FileStepDoes, TodoRange
<1>2. /\ s = todo[1] /\ 1 \in 1..Len(todo)
      /\ \A i \in 1..Len(todo') : i + 1 \in 1..Len(todo) /\ todo'[i] = todo[i + 1]
      /\ \A i \in 1..Len(todo) : i # 1 => i - 1 \in 1..Len(todo') /\ todo'[i - 1] = todo[i]
  BY TodoTail
<1>3. ASSUME NEW u \in Users
      PROVE  /\ s.op = "remove" /\ s.file = u => Circle(u)' = s.content.friends
             /\ ~(s.op = "remove" /\ s.file = u) => Circle(u)' = Circle(u)
             /\ s.op = "rename" /\ s.file = u => Circle(u) = s.content.friends
  BY CircleStep
<1>4. OnUser(s) => s.op \in {"remove", "rename"}
  <2>1. s.op # "answer" => s \in FileSteps
    BY FileStepDoes
  <2> QED
    BY <2>1, Apart DEF OnUser, FileSteps
<1> HIDE DEF s
<1>5. /\ a # b /\ <<a, b>> \in deleted
      /\ \A u \in Users : \A t \in Range(todo) : OnFile(t, u) =>
           \/ u = a /\ t.content.friends = Circle(a) \ {b}
           \/ u = b /\ t.content.friends = Circle(b) \ {a}
      /\ \A i \in 1..Len(todo) : OnFile(todo[i], b) =>
           b \notin Circle(a) \/ \E j \in 1..Len(todo) : j < i /\ OnFile(todo[j], a)
  BY DEF Unlinks
<1>6. /\ \A u \in Users : u \notin {a, b} => Circle(u)' = Circle(u)
      /\ Circle(a)' \in {Circle(a), Circle(a) \ {b}}
      /\ Circle(b)' \in {Circle(b), Circle(b) \ {a}}
      /\ OnFile(s, a) => Circle(a)' = Circle(a) \ {b}
  <2>1. \A u \in Users : s.op = "remove" /\ s.file = u => OnFile(s, u)
    BY DEF OnFile
  <2>2. ASSUME OnFile(s, a) PROVE Circle(a)' = Circle(a) \ {b}
    <3>1. s.content.friends = Circle(a) \ {b}
      BY <1>1, <1>5, <2>2
    <3>2. s.op \in {"remove", "rename"} /\ s.file = a
      BY <1>4, <2>2 DEF OnFile, OnUser
    <3> QED
      BY <1>3, <3>1, <3>2
  <2> QED
    BY <1>1, <1>3, <1>5, <2>1, <2>2
<1>7. Circle(b)' = Circle(b) \/ b \notin Circle(a)
  <2>1. CASE OnFile(s, b)
    BY <1>2, <1>5, <2>1
  <2>2. CASE ~OnFile(s, b)
    BY <1>3, <2>2 DEF OnFile
  <2> QED
    BY <2>1, <2>2
<1>8. ASSUME NEW u \in Users, NEW t \in Range(todo'), OnFile(t, u)
      PROVE  \/ u = a /\ t.content.friends = Circle(a)' \ {b}
             \/ u = b /\ t.content.friends = Circle(b)' \ {a}
  BY <1>1, <1>5, <1>6, <1>8
<1>9. ASSUME NEW i \in 1..Len(todo'), OnFile(todo'[i], b), b \in Circle(a)'
      PROVE  \E j \in 1..Len(todo') : j < i /\ OnFile(todo'[j], a)
  <2>1. i \in Nat /\ i + 1 \in 1..Len(todo) /\ todo'[i] = todo[i + 1] /\ b \in Circle(a)
    BY <1>2, <1>6, <1>9
  <2>2. PICK j \in 1..Len(todo) : j < i + 1 /\ OnFile(todo[j], a)
    BY <1>5, <1>9, <2>1
  <2>3. j # 1
    BY <1>2, <1>6, <1>9, <2>2
  <2>4. j - 1 \in 1..Len(todo') /\ todo'[j - 1] = todo[j] /\ j - 1 < i
    BY <1>2, <2>1, <2>2, <2>3
  <2> QED
    BY <2>2, <2>4
<1>10. Unlinks(a, b)'
  BY <1>1, <1>5, <1>8, <1>9 DEF Unlinks, OnFile
<1> QED
  BY <1>6, <1>7, <1>10

LEMMA LinksStep ==
  ASSUME TypeInv, WritingInv, FileStep, NEW q \in Requests, NEW a \in Users, NEW b \in Users, Links(q, a, b)
  PROVE  /\ Links(q, a, b)'
         /\ \A u \in Users : u \notin {a, b} => Circle(u)' = Circle(u)
         /\ Circle(a)' \in {Circle(a), Circle(a) \cup {b}}
         /\ Circle(b)' \in {Circle(b), Circle(b) \cup {a}}
<1> DEFINE s == Head(todo)
<1>1. s \in Range(todo) /\ Range(todo) = {s} \cup Range(todo') /\ crashes' = crashes
  BY FileStepDoes, TodoRange
<1>2. /\ s = todo[1] /\ 1 \in 1..Len(todo) /\ Len(todo) \in Nat
      /\ \A i \in 1..Len(todo') : i + 1 \in 1..Len(todo) /\ todo'[i] = todo[i + 1]
  BY TodoTail
<1>3. ASSUME NEW u \in Users
      PROVE  /\ s.op = "remove" /\ s.file = u => Circle(u)' = s.content.friends
             /\ ~(s.op = "remove" /\ s.file = u) => Circle(u)' = Circle(u)
             /\ s.op = "rename" /\ s.file = u => Circle(u) = s.content.friends
  BY CircleStep
<1>4. OnUser(s) => s.op \in {"remove", "rename"}
  <2>1. s.op # "answer" => s \in FileSteps
    BY FileStepDoes
  <2> QED
    BY <2>1, Apart DEF OnUser, FileSteps
<1>5. ~OnFile(s, q) => disk'[q] = disk[q] /\ temp'[q] = temp[q]
  BY RequestStep DEF OnFile
<1> HIDE DEF s
<1>6. /\ a # b
      /\ \A u \in Users : \A t \in Range(todo) : OnFile(t, u) =>
           \/ u = a /\ t.content.friends = Circle(a) \cup {b}
           \/ u = b /\ t.content.friends = Circle(b) \cup {a}
      /\ b \in Circle(a) \/ Comes(a)
      /\ a \in Circle(b) \/ Comes(b)
      /\ (\E t \in Range(todo) : OnUser(t)) =>
           \E r \in Views(q) : r.status = "PENDING" /\ Between(r, a, b) /\ (crashes = 0 => r = disk[q])
      /\ \A i \in 1..Len(todo) : \A j \in 1..Len(todo) : i < j /\ OnFile(todo[i], q) => ~OnUser(todo[j])
  BY DEF Links
<1>7. /\ \A u \in Users : u \notin {a, b} => Circle(u)' = Circle(u)
      /\ Circle(a)' \in {Circle(a), Circle(a) \cup {b}}
      /\ Circle(b)' \in {Circle(b), Circle(b) \cup {a}}
  <2>1. \A u \in Users : s.op = "remove" /\ s.file = u => OnFile(s, u)
    BY DEF OnFile
  <2> QED
    BY <1>1, <1>3, <1>6, <2>1
<1>8. (OnFile(s, a) => b \in Circle(a)') /\ (OnFile(s, b) => a \in Circle(b)')
  <2>1. ASSUME NEW u \in {a, b}, OnFile(s, u) PROVE s.op \in {"remove", "rename"} /\ s.file = u
    BY <1>4, <2>1 DEF OnFile, OnUser
  <2>2. OnFile(s, a) => b \in s.content.friends
    BY <1>1, <1>6
  <2>3. OnFile(s, b) => a \in s.content.friends
    BY <1>1, <1>6
  <2> QED
    BY <1>3, <2>1, <2>2, <2>3
<1>9. (b \in Circle(a)' \/ Comes(a)') /\ (a \in Circle(b)' \/ Comes(b)')
  <2>1. \A u : Comes(u) => OnFile(s, u) \/ \E t \in Range(todo') : OnFile(t, u)
    BY <1>1 DEF Comes
  <2> QED
    BY <1>6, <1>7, <1>8, <2>1 DEF Comes, OnFile
<1>10. ASSUME NEW t \in Range(todo'), OnUser(t)
       PROVE  \E r \in Views(q)' : r.status = "PENDING" /\ Between(r, a, b) /\ (crashes' = 0 => r = disk'[q])
  <2>1. PICK i \in 1..Len(todo') : t = todo'[i]
    <3>1. todo' \in Seq(Steps)
      BY FileStepDoes DEF Rows
    <3> QED
      BY <3>1 DEF Range
  <2>2. i + 1 \in 1..Len(todo) /\ todo[i + 1] = t /\ 1 < i + 1
    BY <1>2, <2>1
  <2>3. ~OnFile(s, q)
    BY <1>2, <1>6, <1>10, <2>2
  <2>4. Views(q)' = Views(q)
    BY <1>5, <2>3 DEF Views
  <2>5. t \in Range(todo)
    BY <1>1
  <2> QED
    BY <1>1, <1>5, <1>6, <1>10, <2>3, <2>4, <2>5
<1>11. ASSUME NEW i \in 1..Len(todo'), NEW j \in 1..Len(todo'), i < j, OnFile(todo'[i], q)
       PROVE  ~OnUser(todo'[j])
  <2>1. /\ i + 1 \in 1..Len(todo) /\ todo'[i] = todo[i + 1]
        /\ j + 1 \in 1..Len(todo) /\ todo'[j] = todo[j + 1] /\ i + 1 < j + 1
    BY <1>2, <1>11
  <2> QED
    BY <1>6, <1>11, <2>1
<1>12. ASSUME NEW u \in Users, NEW t \in Range(todo'), OnFile(t, u)
       PROVE  \/ u = a /\ t.content.friends = Circle(a)' \cup {b}
              \/ u = b /\ t.content.friends = Circle(b)' \cup {a}
  BY <1>1, <1>6, <1>7, <1>12
<1>13. Links(q, a, b)'
  BY <1>6, <1>9, <1>10, <1>11, <1>12 DEF Links, OnFile, OnUser, Between
<1> QED
  BY <1>7, <1>13

LEMMA PurposeFileStep == ASSUME TypeInv, WritingInv, PurposeInv, FileStep PROVE PurposeInv'
<1>1. CASE Keeps
  BY <1>1, KeepsStep DEF PurposeInv
<1>2. ASSUME NEW a \in Users, NEW b \in Users, Unlinks(a, b) PROVE PurposeInv'
  <2>1. Unlinks(a, b)'
    BY <1>2, UnlinksStep
  <2> QED
    BY <2>1 DEF PurposeInv
<1>3. ASSUME NEW q \in Requests, NEW a \in Users, NEW b \in Users, Links(q, a, b) PROVE PurposeInv'
  <2>1. Links(q, a, b)'
    BY <1>3, LinksStep
  <2> QED
    BY <2>1 DEF PurposeInv
<1> QED
  BY <1>1, <1>2, <1>3 DEF PurposeInv

\* A request that is written keeps what it is to become, and one that is not is as it was.
LEMMA VersionsKept ==
  ASSUME TypeInv, WritingInv, FileStep, NEW q \in Requests
  PROVE  /\ ~OnFile(Head(todo), q) => Versions(q)' = Versions(q)
         /\ OnFile(Head(todo), q) => /\ Head(todo).content \in Versions(q)
                                     /\ Head(todo).content \in Versions(q)'
<1> DEFINE s == Head(todo)
<1>1. Range(todo) = {s} \cup Range(todo')
  BY TodoRange
<1>2. /\ ~(s.op # "answer" /\ s.file = q) => disk'[q] = disk[q] /\ temp'[q] = temp[q]
      /\ (s.op = "rename" /\ s.file = q) => disk'[q] = s.content
      /\ (s.op # "answer" /\ s.file = q) => s.content \in Request /\ s.content \in Versions(q)
  BY RequestStep
<1>3. /\ todo \in Rows /\ todo # <<>> /\ todo' = Tail(todo)
      /\ s.op \in {"open", "write", "remove", "rename", "answer"}
  BY FileStepDoes DEF TypeInv, Steps, FileSteps
<1>4. s.op \in {"open", "write", "remove"} => Step("rename", s.file, s.content) \in Range(todo')
  BY <1>3, RenameComes
<1> HIDE DEF s
<1>5. CASE ~OnFile(s, q)
  <2>1. Views(q)' = Views(q)
    BY <1>2, <1>5 DEF Views, OnFile
  <2>2. {t \in Range(todo') : OnFile(t, q)} = {t \in Range(todo) : OnFile(t, q)}
    BY <1>1, <1>5
  <2>3. Versions(q)' = Versions(q)
    BY <2>1, <2>2 DEF Versions, OnFile
  <2> QED
    BY <1>5, <2>3 DEF s
<1>6. CASE OnFile(s, q)
  <2>1. s.content \in Request /\ s.content \in Versions(q)
    BY <1>2, <1>6 DEF OnFile
  <2>2. CASE s.op = "rename"
    <3>1. s.content \in Views(q)'
      BY <1>2, <1>6, <2>1, <2>2, Apart DEF Views, OnFile
    <3> QED
      BY <1>6, <2>1, <3>1 DEF Versions, s
  <2>3. CASE s.op # "rename"
    <3>1. Step("rename", q, s.content) \in Range(todo')
      BY <1>3, <1>4, <1>6, <2>3 DEF OnFile
    <3>2. s.content \in Versions(q)'
      BY <3>1 DEF Versions, OnFile, Step
    <3> QED
      BY <1>6, <2>1, <3>2 DEF s
  <2> QED
    BY <2>2, <2>3
<1> QED
  BY <1>5, <1>6 DEF s

LEMMA PartiesFileStep == ASSUME TypeInv, WritingInv, PartiesInv, FileStep PROVE PartiesInv'
<1>1. \A q \in Requests : Versions(q)' \subseteq Versions(q)
  BY VersionsStep
<1> QED
  BY <1>1 DEF PartiesInv, SameTwo

LEMMA PassedFileStep == ASSUME TypeInv, PassedInv, FileStep PROVE PassedInv'
<1> DEFINE s == Head(todo)
<1>1. /\ s = todo[1] /\ 1 \in 1..Len(todo)
      /\ \A i \in 1..Len(todo') : i + 1 \in 1..Len(todo) /\ todo'[i] = todo[i + 1]
      /\ \A i \in 1..Len(todo) : i # 1 => i - 1 \in 1..Len(todo') /\ todo'[i - 1] = todo[i]
      /\ s.op = "remove" => 1 \in 1..Len(todo') /\ todo'[1] = Step("rename", s.file, s.content)
      /\ s \in Range(todo) /\ Range(todo) = {s} \cup Range(todo')
  BY TodoTail, TodoRange
<1>2. ASSUME NEW d \in Requests
      PROVE  /\ (s.op = "rename" /\ s.file = d) => disk'[d] = s.content /\ IsThere(d)'
             /\ ~(s.op = "remove" /\ s.file = d) /\ IsThere(d) => IsThere(d)'
             /\ ~(s.op \in {"remove", "rename"} /\ s.file = d) => disk'[d] = disk[d]
  BY DiskStep, NeverNew DEF Files
<1> HIDE DEF s
<1>3. ASSUME NEW i \in 1..Len(todo'), NEW q \in Requests, NEW d \in Requests \ {q}, NEW a, NEW b,
             OnFile(todo'[i], q), RejectedBy(i + 1, d, a, b)
      PROVE  RejectedBy(i, d, a, b)'
  <2>0. i \in Nat
    OBVIOUS
  <2>1. /\ \A t \in Range(todo) : OnFile(t, d) => Rejected(t.content, a, b)
        /\ \/ IsThere(d) /\ Rejected(disk[d], a, b)
           \/ \E j \in 1..Len(todo) : j < i + 1 /\ todo[j].op = "rename" /\ todo[j].file = d
    BY <1>3 DEF RejectedBy
  <2>2. \A t \in Range(todo') : OnFile(t, d) => Rejected(t.content, a, b)
    BY <1>1, <2>1
  <2>3. \/ IsThere(d)' /\ Rejected(disk'[d], a, b)
        \/ \E j \in 1..Len(todo') : j < i /\ todo'[j].op = "rename" /\ todo'[j].file = d
    <3>1. CASE s.op = "rename" /\ s.file = d
      <4>1. Rejected(s.content, a, b)
        BY <1>1, <2>1, <3>1 DEF OnFile
      <4> QED
        BY <1>2, <3>1, <4>1
    <3>2. CASE s.op = "remove" /\ s.file = d
      <4>1. 1 \in 1..Len(todo') /\ todo'[1].op = "rename" /\ todo'[1].file = d
        BY <1>1, <3>2 DEF Step
      <4>2. i # 1
        BY <1>3, <4>1 DEF OnFile
      <4>3. 1 < i
        BY <2>0, <4>2
      <4> QED
        BY <4>1, <4>3
    <3>3. CASE ~(s.op \in {"remove", "rename"} /\ s.file = d)
      <4>1. CASE IsThere(d) /\ Rejected(disk[d], a, b)
        BY <1>2, <3>3, <4>1
      <4>2. CASE \E j \in 1..Len(todo) : j < i + 1 /\ todo[j].op = "rename" /\ todo[j].file = d
        <5>1. PICK j \in 1..Len(todo) : j < i + 1 /\ todo[j].op = "rename" /\ todo[j].file = d
          BY <4>2
        <5>2. j # 1
          BY <1>1, <3>3, <5>1
        <5>3. j - 1 \in 1..Len(todo') /\ todo'[j - 1] = todo[j]
          BY <1>1, <5>2
        <5>4. j - 1 < i
          BY <2>0, <5>1
        <5> QED
          BY <5>1, <5>3, <5>4
      <4> QED
        BY <2>1, <4>1, <4>2
    <3> QED
      BY <3>1, <3>2, <3>3
  <2> QED
    BY <2>2, <2>3 DEF RejectedBy, OnFile, Rejected, Between
<1>4. ASSUME NEW q \in Requests, NEW i \in 1..Len(todo'), NEW a, NEW b,
             OnFile(todo'[i], q), todo'[i].content.status = "UNSPECIFIED",
             a = todo'[i].content.requester, b = todo'[i].content.receiver
      PROVE  PassedOver(i, q, a, b)'
  <2>1. i + 1 \in 1..Len(todo) /\ todo'[i] = todo[i + 1]
    BY <1>1
  <2>2. PassedOver(i + 1, q, a, b)
    BY <1>4, <2>1 DEF PassedInv
  <2>3. a \in Users /\ b \in Users
    <3>1. todo'[i] \in Steps
      BY <2>1 DEF TypeInv, Rows
    <3>2. todo'[i].content \in Request
      BY <1>4, <3>1 DEF OnFile, Steps, FileSteps, Fits
    <3> QED
      BY <1>4, <3>2 DEF Request
  <2>4. CASE Befriended(i + 1, a, b) /\ Befriended(i + 1, b, a)
    <3>1. Befriended(i, a, b)' /\ Befriended(i, b, a)'
      BY <1>4, <2>3, <2>4, BefriendedStep DEF OnFile
    <3> QED
      BY <3>1 DEF PassedOver
  <2>5. ASSUME NEW d \in Requests \ {q}, RejectedBy(i + 1, d, a, b) PROVE PassedOver(i, q, a, b)'
    <3>1. RejectedBy(i, d, a, b)'
      BY <1>3, <1>4, <2>5
    <3> QED
      BY <3>1 DEF PassedOver
  <2> QED
    BY <2>2, <2>4, <2>5 DEF PassedOver
<1> QED
  BY <1>4 DEF PassedInv, OnFile

\* Where a friendship is on one side after a step, it was so before, or is being made.
LEMMA OneSidedBefore ==
  ASSUME TypeInv, WritingInv, KnownInv, PurposeInv, FileStep,
         NEW a \in Users, NEW b \in Users, OneSided(a, b)'
  PROVE  OneSided(a, b) \/ \E q \in Requests : Links(q, a, b) \/ Links(q, b, a)
<1>1. Stands(b)' /\ b \in Circle(a)' /\ a \notin Circle(b)' /\ <<b, a>> \notin deleted
  BY FileStepDoes DEF OneSided
<1>2. ASSUME b \in Circle(a) PROVE Stands(b)
  <2> DEFINE s == Head(todo)
  <2>1. disk[b] # NoFile
    BY <1>2 DEF KnownInv
  <2>2. s \in Range(todo)
    BY FileStepDoes
  <2>3. ~(s.op = "remove" /\ s.file = b) => (Stands(b)' <=> Stands(b))
    BY CircleStep
  <2> HIDE DEF s
  <2>4. CASE s.op = "remove" /\ s.file = b
    <3>1. OnFile(s, b)
      BY <2>4 DEF OnFile
    <3> QED
      BY <2>1, <2>2, <3>1 DEF KnownInv
  <2> QED
    BY <1>1, <2>3, <2>4
<1>3. ASSUME b \in Circle(a), a \notin Circle(b) PROVE OneSided(a, b)
  BY <1>1, <1>2, <1>3 DEF OneSided
<1>4. CASE Keeps
  BY <1>1, <1>3, <1>4, KeepsStep
<1>5. ASSUME NEW x \in Users, NEW y \in Users, Unlinks(x, y) PROVE OneSided(a, b)
  <2>1. /\ \A u \in Users : u \notin {x, y} => Circle(u)' = Circle(u)
        /\ Circle(x)' \in {Circle(x), Circle(x) \ {y}}
        /\ Circle(y)' = Circle(y) \/ (Circle(y)' = Circle(y) \ {x} /\ y \notin Circle(x))
    BY <1>5, UnlinksStep
  <2>2. <<x, y>> \in deleted
    BY <1>5 DEF Unlinks
  <2>3. b \in Circle(a)
    BY <1>1, <2>1
  <2>4. ASSUME a \in Circle(b) PROVE FALSE
    <3>1. Circle(b)' # Circle(b)
      BY <1>1, <2>4
    <3>2. CASE b = x
      <4>1. a = y
        BY <1>1, <2>1, <2>4, <3>1, <3>2
      <4> QED
        BY <1>1, <2>2, <3>2, <4>1
    <3>3. CASE b = y
      <4>1. a = x /\ y \notin Circle(x)
        BY <1>1, <2>1, <2>4, <3>1, <3>3
      <4> QED
        BY <2>3, <3>3, <4>1
    <3> QED
      BY <2>1, <3>1, <3>2, <3>3
  <2> QED
    BY <1>3, <2>3, <2>4
<1>6. ASSUME NEW p \in Requests, NEW x \in Users, NEW y \in Users, Links(p, x, y)
      PROVE  OneSided(a, b) \/ \E q \in Requests : Links(q, a, b) \/ Links(q, b, a)
  <2>1. /\ \A u \in Users : u \notin {x, y} => Circle(u)' = Circle(u)
        /\ Circle(x)' \in {Circle(x), Circle(x) \cup {y}}
        /\ Circle(y)' \in {Circle(y), Circle(y) \cup {x}}
    BY <1>6, LinksStep
  <2>2. CASE (a = x /\ b = y) \/ (a = y /\ b = x)
    BY <1>6, <2>2
  <2>3. CASE ~((a = x /\ b = y) \/ (a = y /\ b = x))
    <3>1. b \in Circle(a) /\ a \notin Circle(b)
      BY <1>1, <2>1, <2>3
    <3> QED
      BY <1>3, <3>1
  <2> QED
    BY <2>2, <2>3
<1> QED
  BY <1>4, <1>5, <1>6 DEF PurposeInv

\* A request that stands for a one-sided friendship is written over only to stand for it
\* again, or where another one does.
LEMMA OthersStand ==
  ASSUME TypeInv, PartiesInv, LinksInv, PassedInv, FileStep, WritingInv,
         NEW a \in Users, NEW b \in Users, OneSided(a, b),
         NEW q \in Requests, OnFile(Head(todo), q), NEW r \in Versions(q), Stays(r, a, b)
  PROVE  \/ Stays(Head(todo).content, a, b)
         \/ \E d \in Requests \ {q} : IsThere(d) /\ Stays(disk[d], a, b)
<1> DEFINE c == Head(todo).content
           x == c.requester
           y == c.receiver
<1>1. c \in Versions(q)
  BY VersionsKept
<1>2. Head(todo) = todo[1] /\ 1 \in 1..Len(todo) /\ \A j \in 1..Len(todo) : ~(j < 1)
  BY TodoTail
<1>3. {x, y} = {a, b}
  <2>1. SameTwo(r, c)
    BY <1>1 DEF PartiesInv
  <2> QED
    BY <2>1 DEF SameTwo, Stays, Between
<1>4. c \in Request
  BY RequestStep DEF OnFile
<1>5. ~Returns(b) /\ Circle(b) = FriendsOf(b)
  BY Apart DEF OnFile, Returns, Circle
<1>6. ASSUME Befriended(1, x, y), Befriended(1, y, x) PROVE FALSE
  <2>1. \A u, v : Befriended(1, u, v) => v \in FriendsOf(u)
    BY <1>2 DEF Befriended, FriendsOf
  <2>2. y \in FriendsOf(x) /\ x \in FriendsOf(y)
    BY <1>6, <2>1
  <2>3. (x = a /\ y = b) \/ (x = b /\ y = a)
    BY <1>3
  <2>4. a \in FriendsOf(b)
    BY <2>2, <2>3
  <2> QED
    BY <1>5, <2>4 DEF OneSided
<1>7. CASE c.status = "ACCEPTED"
  BY <1>2, <1>6, <1>7 DEF LinksInv, OnFile
<1>8. CASE c.status = "UNSPECIFIED"
  <2>1. PassedOver(1, q, x, y)
    BY <1>2, <1>8 DEF PassedInv
  <2>2. PICK d \in Requests \ {q} : RejectedBy(1, d, x, y)
    BY <1>6, <2>1 DEF PassedOver
  <2>3. IsThere(d) /\ Rejected(disk[d], x, y)
    BY <1>2, <2>2 DEF RejectedBy
  <2>4. Stays(disk[d], a, b)
    BY <1>3, <2>3 DEF Rejected, Stays, Between
  <2> QED
    BY <2>3, <2>4
<1>9. CASE c.status \in {"PENDING", "REJECTED"}
  BY <1>3, <1>9 DEF Stays, Between
<1>10. c.status \in {"PENDING", "ACCEPTED", "REJECTED", "UNSPECIFIED"}
  BY <1>4 DEF Request
<1> QED
  BY <1>7, <1>8, <1>9, <1>10

\* What lies on the disk, or comes back to it in the next step.
LEMMA OnDiskStep ==
  ASSUME TypeInv, WritingInv, GapInv, PartiesInv, LinksInv, PassedInv, FileStep,
         NEW a \in Users, NEW b \in Users, OneSided(a, b), OnDisk(a, b)
  PROVE  OnDisk(a, b)'
<1> DEFINE s == Head(todo)
           Lies(q) == IsThere(q) /\ Stays(disk[q], a, b)
           LiesNext(q) == IsThere(q)' /\ Stays(disk'[q], a, b)
<1>1. ASSUME NEW q \in Requests, LiesNext(q) PROVE OnDisk(a, b)'
  BY <1>1 DEF OnDisk, Stays, Between
<1>2. ASSUME NEW q \in Requests, Lies(q), ~(s.op \in {"remove", "rename"} /\ s.file = q) PROVE LiesNext(q)
  <2>1. q \in Files
    BY DEF Files
  <2>2. disk'[q] = disk[q] /\ IsThere(q)'
    BY <1>2, <2>1, DiskStep
  <2> QED
    BY <1>2, <2>2
<1>3. PICK q \in Requests : Lies(q) \/ (Returns(q) /\ Stays(s.content, a, b))
  BY DEF OnDisk
<1>4. q \in Files /\ todo # <<>>
  BY DEF Files, FileStep
<1>5. CASE s.op = "rename" /\ s.file = q
  <2>1. disk'[q] = s.content /\ IsThere(q)'
    BY <1>4, <1>5, DiskStep
  <2>2. Returns(q) /\ ~IsThere(q)
    BY <1>4, <1>5 DEF Returns, GapInv
  <2>3. LiesNext(q)
    BY <1>3, <2>1, <2>2
  <2> QED
    BY <1>1, <2>3
<1>6. CASE s.op = "remove" /\ s.file = q
  <2>1. Lies(q)
    BY <1>3, <1>6 DEF Returns
  <2>2. disk[q] \in Versions(q)
    <3>1. disk[q] \in Request
      BY <1>4, <2>1, DiskFits DEF Fits
    <3> QED
      BY <2>1, <3>1, Apart DEF Versions, Views, IsThere
  <2>3. OnFile(s, q)
    BY <1>6 DEF OnFile
  <2>4. Stays(s.content, a, b) \/ \E d \in Requests \ {q} : Lies(d)
    BY <2>1, <2>2, <2>3, OthersStand
  <2>5. CASE Stays(s.content, a, b)
    <3>1. Returns(q)'
      BY <1>6, ReturnsStep
    <3>2. Head(todo').content = s.content
      BY <1>6, TodoTail DEF Step
    <3> QED
      BY <2>5, <3>1, <3>2 DEF OnDisk, Stays, Between
  <2>6. ASSUME NEW d \in Requests \ {q}, Lies(d) PROVE OnDisk(a, b)'
    <3>1. LiesNext(d)
      BY <1>2, <1>6, <2>6
    <3> QED
      BY <1>1, <3>1
  <2> QED
    BY <2>4, <2>5, <2>6
<1>7. CASE ~(s.op \in {"remove", "rename"} /\ s.file = q)
  <2>1. LiesNext(q)
    BY <1>2, <1>3, <1>7 DEF Returns
  <2> QED
    BY <1>1, <2>1
<1> QED
  BY <1>5, <1>6, <1>7

LEMMA ReadableStep ==
  ASSUME TypeInv, WritingInv, PartiesInv, LinksInv, PassedInv, FileStep,
         NEW a \in Users, NEW b \in Users, OneSided(a, b), Readable(a, b)
  PROVE  Readable(a, b)'
<1>1. ASSUME NEW q \in Requests, NEW r, r \in Versions(q)', Stays(r, a, b) PROVE Readable(a, b)'
  BY <1>1 DEF Readable, Stays, Between
<1>2. PICK q \in Requests : \E r \in Versions(q) : Stays(r, a, b)
  BY DEF Readable
<1>3. CASE ~OnFile(Head(todo), q)
  <2>1. Versions(q)' = Versions(q)
    BY <1>3, VersionsKept
  <2> QED
    BY <1>1, <1>2, <2>1
<1>4. CASE OnFile(Head(todo), q)
  <2>1. Head(todo).content \in Versions(q)'
    BY <1>4, VersionsKept
  <2>2. ASSUME NEW d \in Requests \ {q}, IsThere(d), Stays(disk[d], a, b) PROVE Readable(a, b)'
    <3>1. disk[d] \in Request
      BY <2>2, DiskFits DEF Fits, Files
    <3>2. disk[d] \in Versions(d)
      BY <2>2, <3>1, Apart DEF Versions, Views, IsThere
    <3>3. ~OnFile(Head(todo), d)
      BY <1>4, <2>2 DEF OnFile
    <3>4. disk[d] \in Versions(d)'
      BY <3>2, <3>3, VersionsKept
    <3> QED
      BY <1>1, <2>2, <3>4
  <2> QED
    BY <1>1, <1>2, <1>4, <2>1, <2>2, OthersStand
<1> QED
  BY <1>3, <1>4

LEMMA OneSidedFileStep == ASSUME TypeInv, WritingInv, LinksInv, FriendsInv, FileStep PROVE OneSidedInv'
<1> USE DEF FriendsInv
<1> SUFFICES ASSUME NEW a \in Users, NEW b \in Users, OneSided(a, b)'
             PROVE  \/ \E q \in Requests : Links(q, a, b)'
                    \/ \E q \in Requests : Links(q, b, a)'
                    \/ crashes' >= 1 /\ OnDisk(a, b)'
                    \/ crashes' >= 2 /\ Readable(a, b)'
  BY DEF OneSidedInv
<1>1. crashes' = crashes
  BY FileStepDoes
<1>2. ASSUME NEW q \in Requests, Links(q, a, b) \/ Links(q, b, a) PROVE Links(q, a, b)' \/ Links(q, b, a)'
  <2>1. CASE Links(q, a, b)
    BY <2>1, LinksStep
  <2>2. CASE Links(q, b, a)
    BY <2>2, LinksStep
  <2> QED
    BY <1>2, <2>1, <2>2
<1>3. CASE \E q \in Requests : Links(q, a, b) \/ Links(q, b, a)
  BY <1>2, <1>3
<1>4. CASE ~\E q \in Requests : Links(q, a, b) \/ Links(q, b, a)
  <2>1. OneSided(a, b)
    BY <1>4, OneSidedBefore
  <2>2. (crashes >= 1 /\ OnDisk(a, b)) \/ (crashes >= 2 /\ Readable(a, b))
    BY <1>4, <2>1 DEF OneSidedInv
  <2> QED
    BY <1>1, <2>1, <2>2, OnDiskStep, ReadableStep
<1> QED
  BY <1>3, <1>4

\* A stop costs a friendship that is being made the profiles of its plan, and one that a
\* request stands for the file that is just being replaced.
LEMMA FriendsCrash ==
  ASSUME MaxCrashes <= 2, TypeInv, WritingInv, FriendsInv, Crash
  PROVE  FriendsInv'
<1>1. /\ todo' = <<>> /\ UNCHANGED <<disk, temp, deleted>> /\ crashes' = crashes + 1
      /\ crashes \in Nat /\ crashes < MaxCrashes /\ MaxCrashes \in Nat
  BY UserStoreAssumption DEF Crash, TypeInv
<1>2. Range(todo') = {} /\ Len(todo') = 0
  BY <1>1 DEF Range
<1>3. /\ \A f : ~Returns(f)'
      /\ \A u : Stands(u)' <=> IsThere(u)
      /\ \A u : Circle(u)' = FriendsOf(u)
  BY <1>1 DEF Returns, Stands, Circle, FriendsOf, IsThere
<1>4. \A u \in Users : IsThere(u) => Stands(u) /\ Circle(u) = FriendsOf(u)
  BY DEF FriendsInv, GapInv, Files, Stands, Circle
<1>5. \A q \in Requests : Versions(q)' = Views(q)
  BY <1>1, <1>2 DEF Versions, Views
<1>6. GapInv' /\ PurposeInv' /\ PassedInv'
  BY <1>2, <1>3 DEF GapInv, PurposeInv, Keeps, PassedInv
<1>7. KnownInv'
  <2>1. ASSUME NEW u \in Users, NEW f \in FriendsOf(u) PROVE disk[f] # NoFile
    <3>1. IsThere(u)
      BY <2>1 DEF FriendsOf
    <3> QED
      BY <1>4, <2>1, <3>1 DEF FriendsInv, KnownInv
  <2> QED
    BY <1>1, <1>2, <1>3, <2>1 DEF KnownInv
<1>8. PartiesInv'
  <2>1. \A q \in Requests : Views(q) \subseteq Versions(q)
    BY DEF Versions
  <2> QED
    BY <1>5, <2>1 DEF FriendsInv, PartiesInv, SameTwo
<1>9. ASSUME NEW a \in Users, NEW b \in Users, OneSided(a, b)'
      PROVE  (crashes' >= 1 /\ OnDisk(a, b)') \/ (crashes' >= 2 /\ Readable(a, b)')
  <2>1. IsThere(b) /\ b \in FriendsOf(a) /\ a \notin FriendsOf(b) /\ <<b, a>> \notin deleted
    BY <1>1, <1>3, <1>9 DEF OneSided
  <2>2. OneSided(a, b)
    BY <1>4, <2>1 DEF OneSided, FriendsOf
  <2>3. ASSUME NEW q \in Requests, NEW r \in Views(q), Stays(r, a, b) PROVE Readable(a, b)'
    BY <1>5, <2>3 DEF Readable, Stays, Between
  <2>4. ASSUME NEW q \in Requests, NEW x \in Users, NEW y \in Users, Links(q, x, y),
               a \notin Circle(b), {x, y} = {a, b}
        PROVE  (crashes' >= 1 /\ OnDisk(a, b)') \/ (crashes' >= 2 /\ Readable(a, b)')
    <3>1. Comes(b)
      BY <2>4 DEF Links
    <3>2. \E s \in Range(todo) : OnUser(s)
      BY <3>1 DEF Comes, OnUser, OnFile
    <3>3. PICK r \in Views(q) : r.status = "PENDING" /\ Between(r, x, y) /\ (crashes = 0 => r = disk[q])
      BY <2>4, <3>2 DEF Links
    <3>4. Stays(r, a, b)
      BY <2>4, <3>3 DEF Stays, Between
    <3>5. CASE crashes = 0
      <4>1. IsThere(q) /\ Stays(disk[q], a, b)
        BY <3>3, <3>4, <3>5 DEF Views, IsThere
      <4>2. OnDisk(a, b)'
        BY <1>1, <4>1 DEF OnDisk, IsThere, Stays, Between
      <4> QED
        BY <1>1, <4>2
    <3>6. CASE crashes # 0
      BY <1>1, <2>3, <3>4, <3>6
    <3> QED
      BY <3>5, <3>6
  <2>5. CASE \E q \in Requests : Links(q, a, b) \/ Links(q, b, a)
    BY <2>2, <2>4, <2>5 DEF OneSided
  <2>6. CASE crashes >= 1 /\ OnDisk(a, b)
    <3>1. PICK q \in Requests : \/ IsThere(q) /\ Stays(disk[q], a, b)
                                \/ Returns(q) /\ Stays(Head(todo).content, a, b)
      BY <2>6 DEF OnDisk
    <3>2. CASE IsThere(q) /\ Stays(disk[q], a, b)
      <4>1. disk[q] \in Request
        BY <3>2, DiskFits DEF Fits, Files
      <4>2. disk[q] \in Views(q)
        BY <3>2, <4>1, Apart DEF Views, IsThere
      <4> QED
        BY <1>1, <2>3, <2>6, <3>2, <4>2
    <3>3. CASE Returns(q) /\ Stays(Head(todo).content, a, b)
      <4>1. temp[q] = Head(todo).content
        BY <3>3 DEF Returns, WritingInv
      <4>2. Head(todo).content \in Request
        <5>1. Head(todo) \in Steps
          BY <3>3, RowTail DEF Returns, TypeInv
        <5> QED
          BY <3>3, <5>1 DEF Returns, Steps, FileSteps, Fits
      <4>3. temp[q] \in Views(q)
        BY <4>1, <4>2, Apart DEF Views
      <4> QED
        BY <1>1, <2>3, <2>6, <3>3, <4>1, <4>3
    <3> QED
      BY <3>1, <3>2, <3>3
  <2>7. CASE crashes >= 2
    BY <1>1, <2>7
  <2> QED
    BY <2>2, <2>5, <2>6, <2>7 DEF FriendsInv, OneSidedInv
<1>10. OneSidedInv'
  BY <1>9 DEF OneSidedInv
<1> QED
  BY <1>6, <1>7, <1>8, <1>10 DEF FriendsInv

\* The deletions there were are not forgotten.
LEMMA DeletedGrows == Handling => deleted \subseteq deleted'
  BY DEF Handling, LoadLocked, HandleFetchSystemStats, HandleSubmitSupportLike, HandleRegister,
         HandleChangeOfUser, HandleResetPasswordOfDefault, HandleClaimSupportLikeReward,
         PersistFinishedRoomScores, HandleAddFriend, HandleDeleteFriend, HandleRespondFriendRequest

\* Where a handler begins nothing is being replaced, before or after.
LEMMA HandledFrame ==
  ASSUME TypeInv, NEW W, NEW A, Handled(W, A)
  PROVE  /\ Range(todo) = {} /\ UNCHANGED <<disk, temp, crashes>> /\ todo' \in Seq(Steps)
         /\ \A f : ~Returns(f) /\ ~Returns(f)'
         /\ \A u : /\ Stands(u) <=> IsThere(u)
                   /\ Stands(u)' <=> IsThere(u)
                   /\ IsThere(u)' <=> IsThere(u)
                   /\ Circle(u) = FriendsOf(u) /\ Circle(u)' = FriendsOf(u)
         /\ \A q : Versions(q) = Views(q) /\ Views(q)' = Views(q)
         /\ \A f : \A s \in Range(todo') : OnFile(s, f) => \E w \in W : w[1] = f /\ w[2] = s.content
<1>1. /\ todo = <<>> /\ UNCHANGED <<disk, temp, crashes>> /\ todo' \in Plans
      /\ \A s \in Range(todo') : s.op # "answer" => \E w \in W : s.file = w[1] /\ s.content = w[2]
  BY DEF Handled, Does
<1>2. todo' # <<>> => Head(todo').op # "rename"
  BY <1>1, PlanBegins
<1>3. Range(todo) = {} /\ todo' \in Seq(Steps)
  BY <1>1 DEF Range, Plans, Rows
<1>4. \A f : ~Returns(f) /\ ~Returns(f)'
  BY <1>1, <1>2 DEF Returns
<1>5. \A u : /\ Stands(u) <=> IsThere(u)
             /\ Stands(u)' <=> IsThere(u)
             /\ IsThere(u)' <=> IsThere(u)
             /\ Circle(u) = FriendsOf(u) /\ Circle(u)' = FriendsOf(u)
  BY <1>1, <1>4 DEF Stands, Circle, FriendsOf, IsThere
<1>6. \A q : Versions(q) = Views(q) /\ Views(q)' = Views(q)
  BY <1>1, <1>3 DEF Versions, Views
<1>7. \A f : \A s \in Range(todo') : OnFile(s, f) => \E w \in W : w[1] = f /\ w[2] = s.content
  BY <1>1 DEF OnFile
<1> QED
  BY <1>1, <1>3, <1>4, <1>5, <1>6, <1>7

LEMMA OneSidedHandled ==
  ASSUME TypeInv, OneSidedInv, NEW W, NEW A, Handled(W, A), deleted \subseteq deleted'
  PROVE  OneSidedInv'
<1>1. /\ Range(todo) = {} /\ UNCHANGED <<disk, temp, crashes>>
      /\ \A f : ~Returns(f) /\ ~Returns(f)'
      /\ \A u : /\ Stands(u) <=> IsThere(u)
                /\ Stands(u)' <=> IsThere(u)
                /\ IsThere(u)' <=> IsThere(u)
                /\ Circle(u) = FriendsOf(u) /\ Circle(u)' = FriendsOf(u)
      /\ \A q : Versions(q) = Views(q) /\ Views(q)' = Views(q)
  BY HandledFrame
<1>2. ASSUME NEW a \in Users, NEW b \in Users, OneSided(a, b)'
      PROVE  (crashes' >= 1 /\ OnDisk(a, b)') \/ (crashes' >= 2 /\ Readable(a, b)')
  <2>1. OneSided(a, b)
    BY <1>1, <1>2 DEF OneSided
  <2>2. \A q \in Requests : ~Links(q, a, b) /\ ~Links(q, b, a)
    BY <1>1, <2>1 DEF OneSided, Links, Comes
  <2>3. OnDisk(a, b) => OnDisk(a, b)'
    BY <1>1 DEF OnDisk, Stays, Between
  <2>4. Readable(a, b) => Readable(a, b)'
    <3>1. \A q : Versions(q) \subseteq Versions(q)'
      BY <1>1 DEF Versions
    <3> QED
      BY <3>1 DEF Readable, Stays, Between
  <2> QED
    BY <1>1, <2>1, <2>2, <2>3, <2>4 DEF OneSidedInv
<1> QED
  BY <1>2 DEF OneSidedInv

\* A profile that is written, where there is one or never was one, by friends who are known.
KnownWrite(w) ==
  /\ \A f \in w[2].friends : disk[f] # NoFile
  /\ IsThere(w[1]) \/ (disk[w[1]] = NoFile /\ w[2].friends = {})

LEMMA FriendsHandled ==
  ASSUME TypeInv, FriendsInv, NEW W, NEW A, Handled(W, A), deleted \subseteq deleted',
         \A w \in W : w[1] \in Users => KnownWrite(w),
         \A w \in W : w[1] \in Requests =>
           Rewrites(w) \/ (Views(w[1]) = {} /\ \A x \in W : x[1] = w[1] => x = w),
         PurposeInv', PassedInv'
  PROVE  FriendsInv'
<1>1. /\ Range(todo) = {} /\ UNCHANGED <<disk, temp, crashes>>
      /\ \A f : ~Returns(f) /\ ~Returns(f)'
      /\ \A u : /\ Stands(u) <=> IsThere(u)
                /\ Stands(u)' <=> IsThere(u)
                /\ Circle(u) = FriendsOf(u) /\ Circle(u)' = FriendsOf(u)
      /\ \A q : Versions(q) = Views(q) /\ Views(q)' = Views(q)
      /\ \A f : \A s \in Range(todo') : OnFile(s, f) => \E w \in W : w[1] = f /\ w[2] = s.content
  BY HandledFrame
<1>2. GapInv'
  BY <1>1 DEF GapInv
<1>3. KnownInv'
  <2>1. ASSUME NEW u \in Users, NEW f, f \in Circle(u)' PROVE disk'[f] # NoFile
    BY <1>1, <2>1 DEF FriendsInv, KnownInv
  <2>2. ASSUME NEW u \in Users, NEW s \in Range(todo'), OnFile(s, u)
        PROVE  /\ \A f \in s.content.friends : disk'[f] # NoFile
               /\ Stands(u)' \/ (disk'[u] = NoFile /\ s.content.friends = {})
    <3>1. PICK w \in W : w[1] = u /\ w[2] = s.content
      BY <1>1, <2>2
    <3> QED
      BY <1>1, <3>1 DEF KnownWrite
  <2> QED
    BY <2>1, <2>2 DEF KnownInv, OnFile
<1>4. PartiesInv'
  <2>1. ASSUME NEW q \in Requests, NEW r, r \in Versions(q)' PROVE r \in Views(q) \/ \E w \in W : w[1] = q /\ w[2] = r
    <3>1. CASE \E s \in Range(todo') : OnFile(s, q) /\ s.content = r
      BY <1>1, <3>1
    <3>2. CASE r \in Views(q)'
      BY <1>1, <3>2
    <3> QED
      BY <2>1, <3>1, <3>2 DEF Versions, OnFile
  <2>2. \A q \in Requests : \A r, t \in Views(q) : SameTwo(r, t)
    BY <1>1 DEF FriendsInv, PartiesInv
  <2>3. ASSUME NEW q \in Requests, NEW r, r \in Versions(q)', NEW t, t \in Versions(q)' PROVE SameTwo(r, t)
    <3>1. CASE r \in Views(q) /\ t \in Views(q)
      BY <2>2, <3>1
    <3>2. CASE r \in Views(q) /\ \E w \in W : w[1] = q /\ w[2] = t
      BY <2>2, <3>2 DEF Rewrites, SameTwo
    <3>3. CASE t \in Views(q) /\ \E w \in W : w[1] = q /\ w[2] = r
      BY <2>2, <3>3 DEF Rewrites, SameTwo
    <3>4. CASE (\E w \in W : w[1] = q /\ w[2] = r) /\ (\E w \in W : w[1] = q /\ w[2] = t)
      <4>1. PICK w \in W : w[1] = q /\ w[2] = r
        BY <3>4
      <4>2. PICK x \in W : x[1] = q /\ x[2] = t
        BY <3>4
      <4>3. CASE Rewrites(w) /\ Rewrites(x)
        BY <2>2, <4>1, <4>2, <4>3 DEF Rewrites, SameTwo
      <4>4. CASE w = x
        BY <4>1, <4>2, <4>4 DEF SameTwo
      <4> QED
        BY <4>1, <4>2, <4>3, <4>4
    <3> QED
      BY <2>1, <2>3, <3>1, <3>2, <3>3, <3>4
  <2> QED
    BY <2>3 DEF PartiesInv, SameTwo
<1>5. OneSidedInv'
  BY OneSidedHandled DEF FriendsInv
<1> QED
  BY <1>2, <1>3, <1>4, <1>5 DEF FriendsInv

LEMMA NonePassed ==
  ASSUME TypeInv, NEW W, NEW A, Handled(W, A),
         \A w \in W : w[1] \in Requests => w[2].status # "UNSPECIFIED"
  PROVE  PassedInv'
<1>1. /\ todo' \in Seq(Steps)
      /\ \A f : \A s \in Range(todo') : OnFile(s, f) => \E w \in W : w[1] = f /\ w[2] = s.content
  BY HandledFrame
<1>2. ASSUME NEW q \in Requests, NEW i \in 1..Len(todo'), OnFile(todo'[i], q)
      PROVE  todo'[i].content.status # "UNSPECIFIED"
  <2>1. todo'[i] \in Range(todo')
    BY <1>1 DEF Range
  <2> QED
    BY <1>1, <1>2, <2>1
<1> QED
  BY <1>2 DEF PassedInv, OnFile

\* A handler that changes no friendship and no request.
Alike(w) ==
  /\ w[1] \in Users
  /\ \/ IsThere(w[1]) /\ w[2].friends = disk[w[1]].friends
     \/ disk[w[1]] = NoFile /\ w[2].friends = {}

LEMMA PlainHandled ==
  ASSUME TypeInv, FriendsInv, NEW W, NEW A, Handled(W, A), deleted \subseteq deleted',
         \A w \in W : w[1] \in {Index, Likes} \/ Alike(w)
  PROVE  FriendsInv'
<1>1. /\ \A u : /\ Circle(u) = FriendsOf(u) /\ Circle(u)' = FriendsOf(u)
      /\ \A f : \A s \in Range(todo') : OnFile(s, f) => \E w \in W : w[1] = f /\ w[2] = s.content
  BY HandledFrame
<1>2. \A w \in W : w[1] \notin Requests /\ (w[1] \in Users => Alike(w))
  BY Apart DEF Alike
<1>3. \A w \in W : w[1] \in Users => KnownWrite(w) /\ w[2].friends = FriendsOf(w[1])
  <2>1. ASSUME NEW w \in W, w[1] \in Users PROVE KnownWrite(w) /\ w[2].friends = FriendsOf(w[1])
    <3>1. \A f \in FriendsOf(w[1]) : disk[f] # NoFile
      BY <1>1, <2>1 DEF FriendsInv, KnownInv
    <3>2. w[2].friends = FriendsOf(w[1])
      BY <1>2, <2>1 DEF Alike, FriendsOf, IsThere
    <3> QED
      BY <1>2, <2>1, <3>1, <3>2 DEF Alike, KnownWrite
  <2> QED
    BY <2>1
<1>4. PurposeInv'
  <2>1. ASSUME NEW u \in Users, NEW s \in Range(todo'), OnFile(s, u) PROVE s.content.friends = Circle(u)'
    BY <1>1, <1>3, <2>1
  <2> QED
    BY <2>1 DEF PurposeInv, Keeps, OnFile
<1>5. PassedInv'
  BY <1>2, NonePassed
<1> QED
  BY <1>2, <1>3, <1>4, <1>5, FriendsHandled

\* The handlers of accounts, results and likes leave the friendships as they are.
LEMMA PlainHandling ==
  ASSUME TypeInv, FriendsInv,
         \/ LoadLocked \/ HandleFetchSystemStats \/ HandleSubmitSupportLike
         \/ \E account \in Accounts : HandleRegister(account)
         \/ \E u \in Users :
              \/ HandleChangeOfUser(u) \/ HandleResetPasswordOfDefault(u)
              \/ HandleClaimSupportLikeReward(u)
         \/ \E scores \in Results : \E players \in Seatings(Len(scores)) :
              PersistFinishedRoomScores(players, scores)
  PROVE  FriendsInv'
<1>0. /\ \A account : NewUser(account).friends = {}
      /\ \A u : Fresh(u) => disk[u] = NoFile
      /\ \A w \in MoreWrites \cup LikesWrites : w[1] = Likes
      /\ RewardCoins \in Int
  BY DEF NewUser, Fresh, MoreWrites, LikesWrites, RewardCoins
<1>1. deleted \subseteq deleted'
  BY DeletedGrows DEF Handling
<1>2. \A u \in Users : \A account : Fresh(u) => Alike(<<u, NewUser(account)>>)
  BY <1>0 DEF Alike
<1>3. \A u \in Users : IsThere(u) => Alike(<<u, disk[u]>>)
  BY DEF Alike
<1>4. CASE LoadLocked
  <2>1. PICK new, W :
           /\ new \in SUBSET {u \in Users : Missing(u)}
           /\ \A w \in W : \/ \E u \in Profiles : u \notin new /\ w = <<u, disk[u]>>
                           \/ \E u \in new : w = <<u, NewUser(DefaultAccount)>>
           /\ Handled(W \cup {<<Index, {}>>}, {})
    BY <1>4, LoadDoes
  <2>2. \A w \in W : Alike(w)
    BY <1>2, <1>3, <2>1 DEF Missing, Profiles
  <2>3. \A w \in W \cup {<<Index, {}>>} : w[1] \in {Index, Likes} \/ Alike(w)
    BY <2>2
  <2> QED
    BY <1>1, <2>1, <2>3, PlainHandled
<1>5. CASE HandleFetchSystemStats
  <2>1. Handled(LikesWrites, {})
    BY <1>5, FetchDoes
  <2> QED
    BY <1>0, <1>1, <2>1, PlainHandled
<1>6. CASE HandleSubmitSupportLike
  <2>1. Handled(MoreWrites, {})
    BY <1>6, SubmitDoes
  <2> QED
    BY <1>0, <1>1, <2>1, PlainHandled
<1>7. ASSUME NEW account \in Accounts, HandleRegister(account) PROVE FriendsInv'
  <2>1. PICK u \in Users : Fresh(u) /\ Handled({<<u, NewUser(account)>>, <<Index, {}>>}, {account})
    BY <1>7, RegisterDoes
  <2>2. Alike(<<u, NewUser(account)>>)
    BY <1>2, <2>1
  <2>3. \A w \in {<<u, NewUser(account)>>, <<Index, {}>>} : w[1] \in {Index, Likes} \/ Alike(w)
    BY <2>2
  <2> QED
    BY <1>1, <2>1, <2>3, PlainHandled
<1>8. ASSUME NEW u \in Users, HandleChangeOfUser(u) PROVE FriendsInv'
  <2>1. IsThere(u) /\ Handled({<<u, disk[u]>>, <<Index, {}>>}, {})
    BY <1>8, ChangeDoes
  <2>2. Alike(<<u, disk[u]>>)
    BY <1>3, <2>1
  <2>3. \A w \in {<<u, disk[u]>>, <<Index, {}>>} : w[1] \in {Index, Likes} \/ Alike(w)
    BY <2>2
  <2> QED
    BY <1>1, <2>1, <2>3, PlainHandled
<1>9. ASSUME NEW u \in Users, HandleResetPasswordOfDefault(u) PROVE FriendsInv'
  <2>1. Missing(u) /\ Handled({<<u, NewUser(DefaultAccount)>>, <<Index, {}>>}, {})
    BY <1>9, ResetDoes
  <2>2. Alike(<<u, NewUser(DefaultAccount)>>)
    BY <1>2, <2>1 DEF Missing
  <2>3. \A w \in {<<u, NewUser(DefaultAccount)>>, <<Index, {}>>} : w[1] \in {Index, Likes} \/ Alike(w)
    BY <2>2
  <2> QED
    BY <1>1, <2>1, <2>3, PlainHandled
<1>10. ASSUME NEW u \in Users, HandleClaimSupportLikeReward(u) PROVE FriendsInv'
  <2> DEFINE p == <<u, Paid(u, RewardCoins)>>
             W == {p, <<Index, {}>>} \cup MoreWrites
  <2>1. IsThere(u) /\ Handled(W, {})
    BY <1>10, ClaimDoes
  <2>2. Alike(p)
    <3>1. Paid(u, RewardCoins).friends = disk[u].friends
      BY <1>0, <2>1, PaidFits
    <3> QED
      BY <2>1, <3>1 DEF Alike
  <2> HIDE DEF p
  <2>3. \A w \in W : w[1] \in {Index, Likes} \/ Alike(w)
    BY <1>0, <2>2
  <2> HIDE DEF W
  <2> QED
    BY <1>1, <2>1, <2>3, PlainHandled
<1>11. ASSUME NEW scores \in Results, NEW players \in Seatings(Len(scores)),
              PersistFinishedRoomScores(players, scores)
       PROVE  FriendsInv'
  <2>1. PICK W :
          /\ \A w \in W : \/ w = <<Index, {}>>
                          \/ \E i \in 1..Len(scores) : IsThere(players[i]) /\
                               w = <<players[i], Paid(players[i], scores[i])>>
          /\ Handled(W, {})
    BY <1>11, PersistDoes
  <2>2. ASSUME NEW i \in 1..Len(scores), IsThere(players[i])
        PROVE  Alike(<<players[i], Paid(players[i], scores[i])>>)
    <3>1. players[i] \in Users /\ scores[i] \in Int
      BY UserStoreAssumption DEF Seatings
    <3>2. Paid(players[i], scores[i]).friends = disk[players[i]].friends
      BY <2>2, <3>1, PaidFits
    <3> QED
      BY <2>2, <3>1, <3>2 DEF Alike
  <2>3. \A w \in W : w[1] \in {Index, Likes} \/ Alike(w)
    BY <2>1, <2>2
  <2> QED
    BY <1>1, <2>1, <2>3, PlainHandled
<1> QED
  BY <1>4, <1>5, <1>6, <1>7, <1>8, <1>9, <1>10, <1>11

\* A request that is sent changes no friendship.
LEMMA AddHandled ==
  ASSUME TypeInv, FriendsInv, NEW a \in Users, NEW b \in Users, HandleAddFriend(a, b)
  PROVE  FriendsInv'
<1>1. PICK q, r :
         /\ q \in Requests
         /\ r = [requester |-> a, receiver |-> b, status |-> "PENDING"]
         /\ disk[q] = NoFile /\ temp[q] = NoFile
         /\ Handled({<<q, r>>}, {q}) /\ deleted' = deleted
  BY AddDoes
<1> DEFINE W == {<<q, r>>}
<1>2. \A w \in W : w[1] = q /\ w[1] \in Requests /\ w[1] \notin Users /\ w[2].status # "UNSPECIFIED"
  BY <1>1, Apart
<1>3. Views(q) = {}
  BY <1>1 DEF Views
<1>4. Handled(W, {q}) /\ \A w, x \in W : w = x
  BY <1>1
<1> HIDE DEF W
<1>5. \A f : \A s \in Range(todo') : OnFile(s, f) => \E w \in W : w[1] = f /\ w[2] = s.content
  BY <1>4, HandledFrame
<1>6. PurposeInv'
  <2>1. \A u \in Users : \A s \in Range(todo') : ~OnFile(s, u)
    BY <1>2, <1>5
  <2> QED
    BY <2>1 DEF PurposeInv, Keeps, OnFile
<1>7. PassedInv'
  BY <1>2, <1>4, NonePassed
<1> QED
  BY <1>1, <1>2, <1>3, <1>4, <1>6, <1>7, FriendsHandled

\* A deletion writes the one who deletes first.
LEMMA DeleteHandled ==
  ASSUME TypeInv, FriendsInv, NEW a \in Users, NEW b \in Users, HandleDeleteFriend(a, b)
  PROVE  FriendsInv'
<1> DEFINE A == Having(a, disk[a].friends \ {b})
           B == Having(b, disk[b].friends \ {a})
           WA == {<<a, A>>, <<Index, {}>>}
           WB == {<<b, B>>, <<Index, {}>>}
           W == WA \cup WB
<1>1. /\ IsThere(a) /\ IsThere(b)
      /\ todo' = Save(a, A) \o Save(b, B)
      /\ Does(Save(a, A), WA, {}) /\ Does(Save(b, B), WB, {}) /\ Handled(W, {})
      /\ deleted' = deleted \cup {<<a, b>>}
  BY DeleteDoes
<1>2. b \in disk[a].friends /\ a \notin disk[a].friends
  <2>1. b \in FriendsOf(a)
    BY DEF HandleDeleteFriend
  <2> QED
    BY <1>1, <2>1, UserThere DEF FriendsOf
<1>3. A.friends = disk[a].friends \ {b} /\ B.friends = disk[b].friends \ {a}
  <2>1. disk[a] \in Profile /\ disk[b] \in Profile
    BY <1>1, UserThere
  <2> QED
    BY <2>1 DEF Having, Profile
<1> HIDE DEF A, B
<1>4. \A w \in W : w = <<a, A>> \/ w = <<b, B>> \/ w[1] = Index
  OBVIOUS
<1>5. \A w \in WA : w[1] = a \/ w[1] = Index
  OBVIOUS
<1>6. <<a, A>> \in WA
  OBVIOUS
<1> HIDE DEF W, WA, WB
<1>7. \A w \in W : w[1] \notin Requests /\ (w[1] \in Users => w = <<a, A>> \/ w = <<b, B>>)
  BY <1>4, Apart
<1>8. /\ \A u : Circle(u) = FriendsOf(u) /\ Circle(u)' = FriendsOf(u)
      /\ \A f : \A s \in Range(todo') : OnFile(s, f) => \E w \in W : w[1] = f /\ w[2] = s.content
      /\ todo' \in Seq(Steps)
  BY <1>1, HandledFrame
<1>9. Circle(a)' = disk[a].friends /\ Circle(b)' = disk[b].friends
  BY <1>1, <1>8 DEF FriendsOf
<1>10. \A w \in W : w[1] \in Users => KnownWrite(w)
  <2>1. /\ \A f \in disk[a].friends : disk[f] # NoFile
        /\ \A f \in disk[b].friends : disk[f] # NoFile
    BY <1>1, <1>8 DEF FriendsInv, KnownInv, FriendsOf
  <2>2. KnownWrite(<<a, A>>) /\ KnownWrite(<<b, B>>)
    BY <1>1, <1>3, <2>1 DEF KnownWrite
  <2> QED
    BY <1>7, <2>2
<1>11. ASSUME NEW i \in 1..Len(todo'), OnFile(todo'[i], b)
       PROVE  \E j \in 1..Len(todo') : j < i /\ OnFile(todo'[j], a)
  <2> DEFINE s == Save(a, A)
             t == Save(b, B)
             x == Step("rename", a, A)
  <2>1. /\ s \in Seq(Steps) /\ t \in Seq(Steps) /\ x \in Range(s)
        /\ \A y \in Range(s) : y.op # "answer" /\ y.file \in {a, Index}
    BY <1>1, <1>5, <1>6 DEF Does, Plans, Rows
  <2>2. todo'[i] \notin Range(s)
    BY <1>2, <1>11, <2>1, Apart DEF OnFile
  <2>3. OnFile(x, a)
    BY DEF OnFile, Step
  <2> HIDE DEF s, t, x
  <2>4. todo' = s \o t
    BY <1>1 DEF s, t
  <2>5. /\ s \in Seq(Steps) /\ t \in Seq(Steps) /\ x \in Range(s)
        /\ i \in 1..Len(s \o t) /\ (s \o t)[i] \notin Range(s)
    BY <1>11, <2>1, <2>2, <2>4
  <2>6. \E j \in 1..Len(s \o t) : j < i /\ (s \o t)[j] = x
    BY ONLY <2>5, BehindSteps
  <2> QED
    BY <2>3, <2>4, <2>6
<1>12. PurposeInv'
  <2>1. ASSUME NEW u \in Users, NEW s \in Range(todo'), OnFile(s, u)
        PROVE  \/ u = a /\ s.content.friends = Circle(a)' \ {b}
               \/ u = b /\ s.content.friends = Circle(b)' \ {a}
    <3>1. PICK w \in W : w[1] = u /\ w[2] = s.content
      BY <1>8, <2>1
    <3> QED
      BY <1>3, <1>7, <1>9, <3>1
  <2>2. Unlinks(a, b)'
    BY <1>1, <1>2, <1>11, <2>1 DEF Unlinks, OnFile
  <2> QED
    BY <2>2 DEF PurposeInv
<1>13. PassedInv'
  BY <1>1, <1>7, NonePassed
<1>14. deleted \subseteq deleted'
  BY <1>1
<1> QED
  BY <1>1, <1>7, <1>10, <1>12, <1>13, <1>14, FriendsHandled

\* A decision leaves the friendships alone, or makes the two friends by the request read.
LEMMA RespondHandled ==
  ASSUME TypeInv, SurviveInv, FriendsInv, NEW q \in Requests, NEW accept \in BOOLEAN,
         HandleRespondFriendRequest(q, accept)
  PROVE  FriendsInv'
<1>1. PICK v, S, W : v \in Readings /\ Responds(q, accept, v, S, W)
  BY RespondDoes
<1> DEFINE r == v[q]
           x == r.requester
           y == r.receiver
           d == As(r, IF accept THEN "ACCEPTED" ELSE "REJECTED")
           A == Having(x, disk[x].friends \cup {y})
           B == Having(y, disk[y].friends \cup {x})
           U == IF accept THEN {<<x, A>>, <<y, B>>, <<Index, {}>>} ELSE {}
           V == U \cup {<<q, d>>} \cup W
<1>2. /\ r \in Views(q) /\ r.status = "PENDING" /\ x \in Users /\ y \in Users /\ x # y
      /\ d.status = (IF accept THEN "ACCEPTED" ELSE "REJECTED") /\ SameTwo(d, r)
      /\ \A w \in W : /\ w[1] \in Requests \ {q} /\ w[2].status = "UNSPECIFIED" /\ Rewrites(w)
                      /\ Between(w[2], x, y)
      /\ \A s \in Range(todo') : s.op # "answer" /\ s.file \in Requests =>
           (s.file = q /\ s.content = d) \/ \E w \in W : s.file = w[1] /\ s.content = w[2]
  BY <1>1, RespondRequests
<1>3. /\ Handled(V, {q}) /\ IsThere(y) /\ deleted' = deleted
      /\ accept => IsThere(x)
  BY <1>1 DEF Responds
<1>4. \A i \in 1..Len(todo') : todo'[i].op # "answer" /\ todo'[i].file \in Requests =>
        /\ accept => /\ Befriends(todo', i, x, y)
                     /\ Befriends(todo', i, y, x)
                     /\ \A j \in 1..Len(todo') : i < j /\ todo'[j].op # "answer" => todo'[j].file \notin Users
        /\ ~accept /\ todo'[i].file # q =>
             \E j \in 1..Len(todo') : j < i /\ todo'[j].op = "rename" /\ todo'[j].file = q
  BY <1>1, RespondOrder
<1>5. accept => A.friends = disk[x].friends \cup {y} /\ B.friends = disk[y].friends \cup {x}
  <2>1. accept => disk[x] \in Profile /\ disk[y] \in Profile
    BY <1>2, <1>3, UserThere
  <2> QED
    BY <2>1 DEF Having, Profile
<1> HIDE DEF A, B, d
<1>6. /\ \A w \in V : w[1] \in Requests => w = <<q, d>> \/ w \in W
      /\ \A w \in V : w[1] \in Users => accept /\ (w = <<x, A>> \/ w = <<y, B>>)
      /\ accept => <<x, A>> \in V /\ <<y, B>> \in V
  BY <1>2, Apart
<1> HIDE DEF U, V, r
<1>7. /\ \A u : Circle(u) = FriendsOf(u) /\ Circle(u)' = FriendsOf(u)
      /\ \A p : Views(p)' = Views(p)
      /\ \A f : \A s \in Range(todo') : OnFile(s, f) => \E w \in V : w[1] = f /\ w[2] = s.content
      /\ todo' \in Seq(Steps) /\ UNCHANGED <<disk, temp, crashes>>
  BY <1>3, HandledFrame
<1>8. \A i \in 1..Len(todo') : todo'[i] \in Range(todo')
  BY <1>7 DEF Range
<1>9. \A w \in V : w[1] \in Users => KnownWrite(w)
  <2>1. ASSUME accept PROVE KnownWrite(<<x, A>>) /\ KnownWrite(<<y, B>>)
    <3>1. /\ \A f \in disk[x].friends : disk[f] # NoFile
          /\ \A f \in disk[y].friends : disk[f] # NoFile
      BY <1>2, <1>3, <1>7, <2>1 DEF FriendsInv, KnownInv, FriendsOf
    <3>2. disk[x] # NoFile /\ disk[y] # NoFile
      BY <1>3, <2>1 DEF IsThere
    <3> QED
      BY <1>3, <1>5, <2>1, <3>1, <3>2 DEF KnownWrite
  <2> QED
    BY <1>6, <2>1
<1>10. \A w \in V : w[1] \in Requests => Rewrites(w)
  <2>1. Rewrites(<<q, d>>)
    BY <1>2 DEF Rewrites
  <2> QED
    BY <1>2, <1>6, <2>1
<1>11. PurposeInv'
  <2>1. CASE ~accept
    <3>1. \A u \in Users : \A s \in Range(todo') : ~OnFile(s, u)
      BY <1>6, <1>7, <2>1
    <3> QED
      BY <3>1 DEF PurposeInv, Keeps, OnFile
  <2>2. CASE accept
    <3>1. FriendsOf(x) = disk[x].friends /\ FriendsOf(y) = disk[y].friends
      BY <1>3, <2>2 DEF FriendsOf
    <3>2. ASSUME NEW u \in Users, NEW s \in Range(todo'), OnFile(s, u)
          PROVE  \/ u = x /\ s.content.friends = Circle(x)' \cup {y}
                 \/ u = y /\ s.content.friends = Circle(y)' \cup {x}
      <4>1. PICK w \in V : w[1] = u /\ w[2] = s.content
        BY <1>7, <3>2
      <4> QED
        BY <1>5, <1>6, <1>7, <2>2, <3>1, <4>1
    <3>3. Comes(x)' /\ Comes(y)'
      <4>1. \A w \in V : Step("rename", w[1], w[2]) \in Range(todo')
        BY <1>3 DEF Handled, Does
      <4>2. Step("rename", x, A) \in Range(todo') /\ Step("rename", y, B) \in Range(todo')
        BY <1>6, <2>2, <4>1
      <4>3. \A c : OnFile(Step("rename", x, c), x) /\ OnFile(Step("rename", y, c), y)
        BY DEF OnFile, Step
      <4> QED
        BY <4>2, <4>3 DEF Comes, OnFile
    <3>4. r.status = "PENDING" /\ Between(r, x, y) /\ r \in Views(q)' /\ (crashes' = 0 => r = disk'[q])
      <4>1. crashes = 0 => temp[q] = NoFile
        BY <1>3, NothingLeft DEF SurviveInv, Handled
      <4>2. crashes = 0 => r = disk[q]
        BY <1>2, <4>1 DEF Views
      <4> QED
        BY <1>2, <1>7, <4>2 DEF Between
    <3>5. ASSUME NEW i \in 1..Len(todo'), NEW j \in 1..Len(todo'), i < j, OnFile(todo'[i], q)
          PROVE  ~OnUser(todo'[j])
      BY <1>4, <2>2, <3>5 DEF OnFile, OnUser
    <3> HIDE DEF x, y
    <3>6. Links(q, x, y)'
      BY <1>2, <3>2, <3>3, <3>4, <3>5 DEF Links, OnFile, OnUser, Comes, Between
    <3> QED
      BY <1>2, <3>6 DEF PurposeInv
  <2> QED
    BY <2>1, <2>2
<1>12. ASSUME NEW p \in Requests, NEW i \in 1..Len(todo'), OnFile(todo'[i], p),
              todo'[i].content.status = "UNSPECIFIED",
              NEW a, NEW b, a = todo'[i].content.requester, b = todo'[i].content.receiver
       PROVE  PassedOver(i, p, a, b)'
  <2>1. PICK w \in W : p = w[1] /\ todo'[i].content = w[2]
    BY <1>2, <1>8, <1>12 DEF OnFile
  <2>2. p # q /\ Between(w[2], x, y)
    BY <1>2, <2>1
  <2>3. {a, b} = {x, y} /\ ((a = x /\ b = y) \/ (a = y /\ b = x))
    <3>1. a = w[2].requester /\ b = w[2].receiver
      BY <1>12, <2>1
    <3>2. {a, b} = {x, y}
      BY <2>2, <3>1 DEF Between
    <3> HIDE DEF x, y
    <3> QED
      BY ONLY <3>2
  <2>4. CASE accept
    <3>1. Befriends(todo', i, a, b) /\ Befriends(todo', i, b, a)
      BY <1>4, <1>12, <2>3, <2>4 DEF OnFile
    <3>2. Befriended(i, a, b)' /\ Befriended(i, b, a)'
      BY <3>1 DEF Befriends, Befriended, OnFile
    <3> QED
      BY <3>2 DEF PassedOver
  <2>5. CASE ~accept
    <3>1. \E j \in 1..Len(todo') : j < i /\ todo'[j].op = "rename" /\ todo'[j].file = q
      BY <1>4, <1>12, <2>2, <2>5 DEF OnFile
    <3>2. ASSUME NEW s \in Range(todo'), OnFile(s, q) PROVE Rejected(s.content, a, b)
      <4>1. s.content = d
        BY <1>2, <3>2 DEF OnFile
      <4> QED
        BY <1>2, <2>3, <2>5, <4>1 DEF Rejected, SameTwo, Between
    <3>3. RejectedBy(i, q, a, b)'
      BY <3>1, <3>2 DEF RejectedBy, OnFile, Rejected, Between
    <3> QED
      BY <2>2, <3>3 DEF PassedOver
  <2> QED
    BY <2>4, <2>5
<1>13. PassedInv'
  BY <1>12 DEF PassedInv, OnFile
<1> QED
  BY <1>3, <1>9, <1>10, <1>11, <1>13, FriendsHandled

LEMMA FriendsNext ==
  ASSUME MaxCrashes <= 2
  PROVE  TypeInv /\ WritingInv /\ LinksInv /\ SurviveInv /\ FriendsInv /\ [Next]_vars => FriendsInv'
<1> SUFFICES ASSUME TypeInv, WritingInv, LinksInv, SurviveInv, FriendsInv, [Next]_vars PROVE FriendsInv'
  OBVIOUS
<1>1. CASE FileStep
  <2>1. GapInv' /\ KnownInv' /\ PurposeInv' /\ PartiesInv' /\ PassedInv'
    BY <1>1, GapFileStep, KnownFileStep, PurposeFileStep, PartiesFileStep, PassedFileStep DEF FriendsInv
  <2>2. OneSidedInv'
    BY <1>1, OneSidedFileStep
  <2> QED
    BY <2>1, <2>2 DEF FriendsInv
<1>2. CASE Crash
  BY <1>2, FriendsCrash
<1>3. CASE Handling
  BY <1>3, PlainHandling, AddHandled, DeleteHandled, RespondHandled DEF Handling
<1>4. CASE UNCHANGED vars
  <2>0. UNCHANGED <<disk, temp, todo, deleted, crashes>>
    BY <1>4 DEF vars
  <2> USE <2>0
  <2>1. /\ \A f : Returns(f)' <=> Returns(f)
        /\ \A f : IsThere(f)' <=> IsThere(f)
    BY DEF Returns, IsThere
  <2>2. \A u : (Stands(u)' <=> Stands(u)) /\ Circle(u)' = Circle(u) /\ (Comes(u)' <=> Comes(u))
    BY <2>1 DEF Stands, Circle, FriendsOf, Comes, OnFile
  <2>3. \A q : Views(q)' = Views(q) /\ Versions(q)' = Versions(q)
    BY DEF Views, Versions, OnFile
  <2>4. GapInv'
    BY <2>1 DEF FriendsInv, GapInv
  <2>5. KnownInv'
    BY <2>1, <2>2 DEF FriendsInv, KnownInv, OnFile
  <2>6. \A q, a, b : Links(q, a, b)' <=> Links(q, a, b)
    <3> SUFFICES ASSUME NEW q, NEW a, NEW b PROVE Links(q, a, b)' <=> Links(q, a, b)
      OBVIOUS
    <3>1. /\ Circle(a)' = Circle(a) /\ Circle(b)' = Circle(b) /\ Views(q)' = Views(q)
          /\ (Comes(a)' <=> Comes(a)) /\ (Comes(b)' <=> Comes(b))
      BY <2>2, <2>3
    <3> DEFINE Adds(u, s) == \/ u = a /\ s.content.friends = Circle(a) \cup {b}
                             \/ u = b /\ s.content.friends = Circle(b) \cup {a}
               Waits(r) == r.status = "PENDING" /\ Between(r, a, b) /\ (crashes = 0 => r = disk[q])
    <3>2. \A u, s : Adds(u, s)' <=> Adds(u, s)
      BY <3>1
    <3>3. \A r : Waits(r)' <=> Waits(r)
      BY DEF Between
    <3> HIDE DEF Adds, Waits
    <3>4. Links(q, a, b) <=>
            /\ a # b
            /\ \A u \in Users : \A s \in Range(todo) : OnFile(s, u) => Adds(u, s)
            /\ (b \in Circle(a) \/ Comes(a)) /\ (a \in Circle(b) \/ Comes(b))
            /\ (\E s \in Range(todo) : OnUser(s)) => \E r \in Views(q) : Waits(r)
            /\ \A i \in 1..Len(todo) : \A j \in 1..Len(todo) : i < j /\ OnFile(todo[i], q) => ~OnUser(todo[j])
      BY DEF Links, Adds, Waits
    <3>5. Links(q, a, b)' <=>
            /\ a # b
            /\ \A u \in Users : \A s \in Range(todo) : OnFile(s, u) => Adds(u, s)'
            /\ (b \in Circle(a) \/ Comes(a)) /\ (a \in Circle(b) \/ Comes(b))
            /\ (\E s \in Range(todo) : OnUser(s)) => \E r \in Views(q) : Waits(r)'
            /\ \A i \in 1..Len(todo) : \A j \in 1..Len(todo) : i < j /\ OnFile(todo[i], q) => ~OnUser(todo[j])
      BY <3>1 DEF Links, Adds, Waits, OnFile, OnUser
    <3> QED
      BY <3>2, <3>3, <3>4, <3>5
  <2>7. PurposeInv'
    <3>1. Keeps => Keeps'
      BY <2>2 DEF Keeps, OnFile
    <3>2. \A a, b : Unlinks(a, b) => Unlinks(a, b)'
      BY <2>2 DEF Unlinks, OnFile
    <3> QED
      BY <2>6, <3>1, <3>2 DEF FriendsInv, PurposeInv
  <2>8. PartiesInv'
    BY <2>3 DEF FriendsInv, PartiesInv, SameTwo
  <2>9. PassedInv'
    <3>1. \A i, a, b : Befriended(i, a, b)' <=> Befriended(i, a, b)
      BY <2>1 DEF Befriended, OnFile
    <3>2. ASSUME NEW i, NEW d, NEW a, NEW b PROVE RejectedBy(i, d, a, b)' <=> RejectedBy(i, d, a, b)
      <4>1. todo' = todo /\ disk' = disk /\ (IsThere(d)' <=> IsThere(d))
        BY <2>1
      <4>2. \A r : Rejected(r, a, b)' <=> Rejected(r, a, b)
        BY DEF Rejected, Between
      <4>3. (\A s \in Range(todo) : OnFile(s, d) => Rejected(s.content, a, b))'
              <=> \A s \in Range(todo) : OnFile(s, d) => Rejected(s.content, a, b)
        BY ONLY <4>1, <4>2 DEF OnFile
      <4>4. (IsThere(d) /\ Rejected(disk[d], a, b))' <=> (IsThere(d) /\ Rejected(disk[d], a, b))
        BY ONLY <4>1, <4>2
      <4>5. (\E j \in 1..Len(todo) : j < i /\ todo[j].op = "rename" /\ todo[j].file = d)'
              <=> \E j \in 1..Len(todo) : j < i /\ todo[j].op = "rename" /\ todo[j].file = d
        BY ONLY <4>1
      <4> QED
        BY ONLY <4>3, <4>4, <4>5 DEF RejectedBy
    <3>3. \A i, q, a, b : PassedOver(i, q, a, b)' <=> PassedOver(i, q, a, b)
      BY ONLY <3>1, <3>2 DEF PassedOver
    <3> QED
      BY <3>3 DEF FriendsInv, PassedInv, OnFile
  <2>10. OneSidedInv'
    <3>1. \A a, b : /\ OneSided(a, b)' <=> OneSided(a, b)
                    /\ OnDisk(a, b) => OnDisk(a, b)'
                    /\ Readable(a, b) => Readable(a, b)'
      BY <2>1, <2>2, <2>3 DEF OneSided, OnDisk, Readable, Stays, Between
    <3> QED
      BY <2>6, <3>1 DEF FriendsInv, OneSidedInv
  <2> QED
    BY <2>4, <2>5, <2>7, <2>8, <2>9, <2>10 DEF FriendsInv
<1> QED
  BY <1>1, <1>2, <1>3, <1>4, NextIs

LEMMA FriendsInit == Init => FriendsInv
<1> SUFFICES ASSUME Init PROVE FriendsInv
  OBVIOUS
<1>1. /\ todo = <<>> /\ Range(todo) = {} /\ Len(todo) = 0
      /\ \A f \in Files : disk[f] = NoFile /\ ~IsThere(f)
      /\ \A q \in Requests : temp[q] = NoFile
  BY DEF Init, Range, IsThere
<1>2. \A u \in Users : ~Stands(u) /\ Circle(u) = {}
  BY <1>1 DEF Stands, Returns, Circle, FriendsOf, Files
<1>3. \A q \in Requests : Versions(q) = {}
  BY <1>1 DEF Versions, Views, Files
<1>4. GapInv /\ PurposeInv /\ PassedInv
  BY <1>1 DEF GapInv, PurposeInv, Keeps, PassedInv
<1>5. KnownInv
  BY <1>1, <1>2 DEF KnownInv
<1>6. PartiesInv
  BY <1>3 DEF PartiesInv
<1>7. OneSidedInv
  BY <1>2 DEF OneSidedInv, OneSided
<1> QED
  BY <1>4, <1>5, <1>6, <1>7 DEF FriendsInv

\* As long as the server stops at most twice, a friendship that only one of the two still
\* has is one that the other has deleted, or there is a request between them that reads as
\* pending or rejected: none is left behind by a request that was accepted, or passed over
\* for another, at whichever steps the server stops. A third stop can leave one without.
THEOREM OneSidedOnlyUnaccepted ==
  ASSUME MaxCrashes <= 2
  PROVE  Spec => []OneSidedIsUnaccepted
<1>1. TypeInv /\ FriendsInv => OneSidedIsUnaccepted
  <2> SUFFICES ASSUME TypeInv, FriendsInv, todo = <<>>, NEW a \in Profiles, NEW b \in Profiles,
                      b \in disk[a].friends, a \notin disk[b].friends, <<b, a>> \notin deleted
               PROVE  \E q \in Requests : \E r \in Views(q) :
                        r.status \in {"PENDING", "REJECTED"} /\ Between(r, a, b)
    BY DEF OneSidedIsUnaccepted
  <2>1. Range(todo) = {} /\ \A f : ~Returns(f)
    BY DEF Range, Returns
  <2>2. a \in Users /\ b \in Users /\ IsThere(a) /\ IsThere(b)
    BY DEF Profiles
  <2>3. OneSided(a, b)
    BY <2>1, <2>2 DEF OneSided, Stands, Circle, FriendsOf
  <2>4. \A q \in Requests : ~Links(q, a, b) /\ ~Links(q, b, a)
    BY <2>1, <2>3 DEF OneSided, Links, Comes
  <2>5. OnDisk(a, b) \/ Readable(a, b)
    BY <2>2, <2>3, <2>4 DEF FriendsInv, OneSidedInv
  <2>6. ASSUME NEW q \in Requests, IsThere(q) PROVE disk[q] \in Views(q)
    <3>1. disk[q] \in Contents
      BY <2>6, DiskFits DEF Fits, Files
    <3> QED
      BY <3>1, Apart DEF Views
  <2>7. \A q \in Requests : Versions(q) = Views(q)
    BY <2>1 DEF Versions
  <2> QED
    BY <2>1, <2>5, <2>6, <2>7 DEF OnDisk, Readable, Stays
<1> QED
  BY <1>1, TypeInit, TypeNext, AccountsInit, ClaimsNext, AnswerNext, SurviveInit, SurviveNext,
     LinksInit, LinksNext, FriendsInit, FriendsNext, PTL DEF Spec
=============================================================================
