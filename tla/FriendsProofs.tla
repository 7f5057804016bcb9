---------------------------- MODULE FriendsProofs ----------------------------
(***************************************************************************)
(* That every call of a device finds the page it was made for; that a list *)
(* of friends never gets shorter while people wait for what they started;   *)
(* and that, as long as no app is stopped, requests are distinct and backed *)
(* and only those who asked are one-sided friends.  For any number of       *)
(* users, texts, pending calls and any lengths of the lists.                *)
(***************************************************************************)
EXTENDS Friends, SequenceProofs

-----------------------------------------------------------------------------
(* One device, its queue q and its screen a.                               *)

Screens == [page : {"messenger", "add", "request"}, enabled : BOOLEAN,
            text : Texts \cup {None}, submit : BOOLEAN, flag : BOOLEAN,
            alert : BOOLEAN, rows : Seq(Users)]

RowKinds == {"loadName", "loadList", "loadNames", "takeFriend", "dropRequest"}
TextKinds == {"find", "checkFriends", "checkRequests", "ask", "addAsked"}

\* What the type invariant says of a call.
Knows1(call, a) ==
  /\ call.kind \in {"takeRequest", "takeFriend", "dropRequest"} => call.row \in DOMAIN a.rows
  /\ call.kind \in PutKinds => call.who \in Users
  /\ call.kind = "putRequest" => call.list \in Seq(Users)

\* A call is there only with the page it belongs to, or after the page went,
\* when it is one that writes; the text or the rows it needs are there too.
BelongsTo(call, a) ==
  /\ call.kind \in PageKinds => a.page # "messenger"
  /\ call.kind \in TapKinds => a.page = "messenger"
  /\ call.kind \in {"loadAdd"} \cup TextKinds => a.page # "request"
  /\ call.kind \in RowKinds \cup {"takeRequest"} => a.page # "add"
  /\ call.kind \in TextKinds => a.text # None
  /\ call.kind \in RowKinds => ~(a.page = "request" /\ a.enabled)

Fits(q, a) ==
  /\ a.submit => a.text # None
  /\ \A i \in 1..Len(q) : Knows1(q[i], a) /\ BelongsTo(q[i], a)

\* After a tap only writes; the request page does one thing at a time, and the
\* second half of accepting comes after the first.
InOrder(q) ==
  /\ \A i, j \in 1..Len(q) : i < j /\ q[i].kind \in TapKinds => q[j].kind \in PutKinds
  /\ \A i, j \in 1..Len(q) : q[i].kind \in RowKinds /\ q[j].kind \in RowKinds => i = j
  /\ \A i \in 1..Len(q) : q[i].kind = "takeRequest" =>
       \E j \in 1..Len(q) : i < j /\ q[j].kind = "takeFriend"

Sound(q, a) == q \in Seq(Calls) /\ a \in Screens /\ Fits(q, a) /\ InOrder(q)

-----------------------------------------------------------------------------
(* Queues.                                                                 *)

\* What is behind the first call, and the calls made.
LEMMA Served ==
  ASSUME NEW q \in Seq(Calls), q # <<>>, NEW calls \in Seq(Calls)
  PROVE  LET r == Tail(q) \o calls IN
         /\ r \in Seq(Calls) /\ Len(q) \in Nat /\ Len(calls) \in Nat
         /\ Len(r) = Len(q) - 1 + Len(calls)
         /\ 1 \in 1..Len(q) /\ Head(q) = q[1] /\ q[1] \in Calls
         /\ \A i \in 1..Len(q) : i # 1 => i - 1 \in 1..Len(r) /\ r[i - 1] = q[i]
         /\ \A i \in 1..Len(calls) : Len(q) - 1 + i \in 1..Len(r) /\ r[Len(q) - 1 + i] = calls[i]
         /\ \A i \in 1..Len(r) :
              \/ i < Len(q) /\ i + 1 \in 1..Len(q) /\ r[i] = q[i + 1]
              \/ i >= Len(q) /\ i - Len(q) + 1 \in 1..Len(calls) /\ r[i] = calls[i - Len(q) + 1]
  OBVIOUS

\* The calls of a tap come after all others.
LEMMA Sent ==
  ASSUME NEW q \in Seq(Calls), NEW calls \in Seq(Calls)
  PROVE  LET r == q \o calls IN
         /\ r \in Seq(Calls) /\ Len(q) \in Nat /\ Len(calls) \in Nat
         /\ Len(r) = Len(q) + Len(calls)
         /\ \A i \in 1..Len(q) : i \in 1..Len(r) /\ r[i] = q[i]
         /\ \A i \in 1..Len(calls) : Len(q) + i \in 1..Len(r) /\ r[Len(q) + i] = calls[i]
         /\ \A i \in 1..Len(r) :
              \/ i \in 1..Len(q) /\ r[i] = q[i]
              \/ i > Len(q) /\ i - Len(q) \in 1..Len(calls) /\ r[i] = calls[i - Len(q)]
  OBVIOUS

\* A write that is about to wait in the queue.
Quiet(call) ==
  /\ call.kind \in PutKinds /\ call.who \in Users
  /\ call.kind = "putRequest" => call.list \in Seq(Users)

\* What dealing with call c may make, on the screen it leaves.
MayMake(calls, c, b) ==
  /\ \A i \in 1..Len(calls) :
       \/ Quiet(calls[i])
       \/ /\ calls[i].kind \in {"checkFriends", "checkRequests", "loadList", "loadNames"}
          /\ BelongsTo(calls[i], b)
          /\ calls[i].kind \in RowKinds => c.kind \in RowKinds
  /\ \A i, j \in 1..Len(calls) : calls[i].kind \in RowKinds /\ calls[j].kind \in RowKinds => i = j

\* How dealing with call c may change a page that stays.
MayShow(a, c, b) ==
  /\ b.page = a.page /\ b.text = a.text
  /\ b.rows = a.rows \/ c.kind = "loadList"
  /\ b.submit => a.submit \/ c.kind \in TextKinds
  /\ b.enabled => a.enabled \/ c.kind \in {"loadAdd", "loadNames"}

\* Dealing with a call of a page that stays.
LEMMA ServedSoundly ==
  ASSUME NEW q, NEW a, Sound(q, a), q # <<>>,
         NEW calls \in Seq(Calls), NEW b \in Screens,
         MayMake(calls, q[1], b), MayShow(a, q[1], b)
  PROVE  Sound(Tail(q) \o calls, b)
<1> DEFINE r == Tail(q) \o calls
           Old(i) == i + 1 \in 1..Len(q) /\ i + 1 # 1 /\ r[i] = q[i + 1]
           New(i) == i >= Len(q) /\ i - Len(q) + 1 \in 1..Len(calls) /\ r[i] = calls[i - Len(q) + 1]
<1>1. /\ r \in Seq(Calls) /\ Len(q) \in Nat /\ Len(calls) \in Nat
      /\ 1 \in 1..Len(q) /\ q[1] \in Calls
      /\ \A i \in 1..Len(q) : i # 1 => i - 1 \in 1..Len(r) /\ r[i - 1] = q[i]
      /\ \A i \in 1..Len(r) : Old(i) \/ New(i)
  BY Served DEF Sound
<1> HIDE DEF r
<1>2. ASSUME NEW i \in 1..Len(q), q[i].kind = "takeRequest"
      PROVE  q[1].kind \notin RowKinds
  <2>1. PICK j \in 1..Len(q) : i < j /\ q[j].kind = "takeFriend"
    BY <1>2 DEF Sound, InOrder
  <2>2. j # 1
    BY <2>1
  <2> QED
    BY <1>1, <2>1, <2>2 DEF Sound, InOrder, RowKinds
<1>3. Fits(r, b)
  <2>1. b.submit => b.text # None
    BY <1>1 DEF Sound, Fits, BelongsTo, MayShow
  <2>2. ASSUME NEW i \in 1..Len(r) PROVE Knows1(r[i], b) /\ BelongsTo(r[i], b)
    <3>1. CASE New(i) /\ Quiet(r[i])
      BY <3>1 DEF Quiet, Knows1, BelongsTo, PutKinds, PageKinds, TapKinds, TextKinds, RowKinds
    <3>2. CASE New(i) /\ ~Quiet(r[i])
      BY <3>2 DEF MayMake, Knows1, PutKinds
    <3>3. CASE Old(i)
      <4>1. Knows1(r[i], a) /\ BelongsTo(r[i], a)
        BY <3>3 DEF Sound, Fits
      <4>2. Knows1(r[i], b)
        <5>1. CASE b.rows = a.rows
          BY <4>1, <5>1 DEF Knows1
        <5>2. CASE q[1].kind = "loadList"
          <6>1. r[i].kind \notin RowKinds
            BY <1>1, <3>3, <5>2 DEF Sound, InOrder, RowKinds
          <6>2. r[i].kind # "takeRequest"
            BY <1>2, <3>3, <5>2 DEF RowKinds
          <6> QED
            BY <4>1, <6>1, <6>2 DEF Knows1, RowKinds
        <5> QED
          BY <5>1, <5>2 DEF MayShow
      <4>3. r[i].kind \in RowKinds => ~(b.page = "request" /\ b.enabled)
        <5> SUFFICES ASSUME r[i].kind \in RowKinds, b.page = "request", b.enabled PROVE FALSE
          OBVIOUS
        <5>1. q[1].kind \in {"loadAdd", "loadNames"}
          BY <4>1 DEF BelongsTo, MayShow
        <5>2. q[1].kind = "loadNames"
          BY <1>1, <5>1 DEF Sound, Fits, BelongsTo, MayShow
        <5>3. i + 1 = 1
          BY <1>1, <3>3, <5>2 DEF Sound, InOrder, RowKinds
        <5> QED
          BY <3>3, <5>3
      <4> QED
        BY <4>1, <4>2, <4>3 DEF BelongsTo, MayShow
    <3> QED
      BY <1>1, <3>1, <3>2, <3>3
  <2> QED
    BY <2>1, <2>2 DEF Fits
<1>4. InOrder(r)
  <2>1. ASSUME NEW i \in 1..Len(r), New(i)
        PROVE  /\ r[i].kind \notin TapKinds /\ r[i].kind # "takeRequest"
               /\ r[i].kind \in PutKinds \/ b.page # "messenger"
    BY <2>1 DEF MayMake, Quiet, BelongsTo, PutKinds, TapKinds, PageKinds
  <2>2. ASSUME NEW i \in 1..Len(r), NEW j \in 1..Len(r), i < j, r[i].kind \in TapKinds
        PROVE  r[j].kind \in PutKinds
    <3>1. Old(i)
      BY <1>1, <2>1, <2>2
    <3>2. CASE New(j)
      <4>1. a.page = "messenger"
        BY <2>2, <3>1 DEF Sound, Fits, BelongsTo
      <4> QED
        BY <2>1, <3>2, <4>1 DEF MayShow
    <3>3. CASE Old(j)
      <4>1. i + 1 < j + 1
        BY <2>2
      <4> QED
        BY <2>2, <3>1, <3>3, <4>1 DEF Sound, InOrder
    <3> QED
      BY <1>1, <3>2, <3>3
  <2>3. ASSUME NEW i \in 1..Len(r), NEW j \in 1..Len(r), r[i].kind \in RowKinds, Old(i), New(j)
        PROVE  r[j].kind \notin RowKinds
    <3> SUFFICES ASSUME r[j].kind \in RowKinds PROVE FALSE
      OBVIOUS
    <3>1. q[1].kind \in RowKinds
      BY <2>3 DEF MayMake, Quiet, RowKinds, PutKinds
    <3> QED
      BY <1>1, <2>3, <3>1 DEF Sound, InOrder
  <2>4. ASSUME NEW i \in 1..Len(r), NEW j \in 1..Len(r), r[i].kind \in RowKinds, r[j].kind \in RowKinds
        PROVE  i = j
    <3>1. CASE Old(i) /\ Old(j)
      <4>1. i + 1 = j + 1
        BY <2>4, <3>1 DEF Sound, InOrder
      <4> QED
        BY <4>1
    <3>2. CASE New(i) /\ New(j)
      <4>1. i - Len(q) + 1 = j - Len(q) + 1
        BY <2>4, <3>2 DEF MayMake
      <4> QED
        BY <1>1, <4>1
    <3> QED
      BY <1>1, <2>3, <2>4, <3>1, <3>2
  <2>5. ASSUME NEW i \in 1..Len(r), r[i].kind = "takeRequest"
        PROVE  \E j \in 1..Len(r) : i < j /\ r[j].kind = "takeFriend"
    <3>1. Old(i)
      BY <1>1, <2>1, <2>5
    <3>2. PICK j \in 1..Len(q) : i + 1 < j /\ q[j].kind = "takeFriend"
      BY <2>5, <3>1 DEF Sound, InOrder
    <3>3. i < j - 1 /\ j # 1
      BY <3>2
    <3>4. j - 1 \in 1..Len(r) /\ r[j - 1] = q[j]
      BY <1>1, <3>3
    <3> QED
      BY <3>2, <3>3, <3>4
  <2> QED
    BY <2>2, <2>4, <2>5 DEF InOrder
<1> QED
  BY <1>1, <1>3, <1>4 DEF Sound, r

\* The app starts again, or has just been started.
LEMMA HomeIsSound == Home \in Screens /\ Sound(<<>>, Home)
  BY DEF Home, Screens, Sound, Fits, InOrder

LEMMA CallIsCall ==
  ASSUME NEW kind \in PageKinds \cup TapKinds \cup EditKinds \cup PutKinds
  PROVE  Call(kind) \in Calls /\ Call(kind).kind = kind
  BY DEF Call, Calls

LEMMA CallWithName ==
  ASSUME NEW kind \in PageKinds, NEW who \in Texts
  PROVE  LET c == [Call(kind) EXCEPT !.who = who] IN
         c \in Calls /\ c.kind = kind /\ c.who = who
<1> DEFINE c == [kind |-> kind, who |-> who, row |-> 0, list |-> <<>>]
<1>1. [Call(kind) EXCEPT !.who = who] = c
  BY DEF Call
<1>2. c \in Calls /\ c.kind = kind /\ c.who = who
  BY DEF Calls
<1> QED
  BY <1>1, <1>2

LEMMA CallWithRow ==
  ASSUME NEW kind \in EditKinds, NEW row \in Nat
  PROVE  LET c == [Call(kind) EXCEPT !.row = row] IN
         c \in Calls /\ c.kind = kind /\ c.row = row
<1> DEFINE c == [kind |-> kind, who |-> None, row |-> row, list |-> <<>>]
<1>1. [Call(kind) EXCEPT !.row = row] = c
  BY DEF Call
<1>2. c \in Calls /\ c.kind = kind /\ c.row = row
  BY DEF Calls
<1> QED
  BY <1>1, <1>2

\* What a tap on a page sends.
MaySend(calls, b) ==
  /\ InOrder(calls)
  /\ \A i \in 1..Len(calls) : Knows1(calls[i], b) /\ BelongsTo(calls[i], b)

\* A page is touched, on which no tap that leads elsewhere is waiting.
LEMMA SentSoundly ==
  ASSUME NEW q, NEW a, Sound(q, a),
         NEW calls \in Seq(Calls), NEW b \in Screens,
         \A i \in 1..Len(q) : q[i].kind \notin TapKinds,
         MaySend(calls, b),
         \A i \in 1..Len(q), j \in 1..Len(calls) :
           calls[j].kind \in RowKinds => q[i].kind \notin RowKinds,
         b.page = a.page, b.rows = a.rows, b.text = a.text \/ b.text # None,
         b.submit => a.submit, b.enabled => a.enabled
  PROVE  Sound(q \o calls, b)
<1> DEFINE r == q \o calls
           Old(i) == i \in 1..Len(q) /\ r[i] = q[i]
           New(i) == i > Len(q) /\ i - Len(q) \in 1..Len(calls) /\ r[i] = calls[i - Len(q)]
<1>1. /\ r \in Seq(Calls) /\ Len(q) \in Nat /\ Len(calls) \in Nat
      /\ \A i \in 1..Len(q) : i \in 1..Len(r) /\ r[i] = q[i]
      /\ \A i \in 1..Len(calls) : Len(q) + i \in 1..Len(r) /\ r[Len(q) + i] = calls[i]
      /\ \A i \in 1..Len(r) : Old(i) \/ New(i)
  BY Sent DEF Sound
<1> HIDE DEF r
<1>2. Fits(r, b)
  <2>1. b.submit => b.text # None
    BY DEF Sound, Fits
  <2>2. ASSUME NEW i \in 1..Len(r) PROVE Knows1(r[i], b) /\ BelongsTo(r[i], b)
    <3>1. CASE Old(i)
      BY <3>1 DEF Sound, Fits, Knows1, BelongsTo
    <3>2. CASE New(i)
      BY <3>2 DEF MaySend
    <3> QED
      BY <1>1, <3>1, <3>2
  <2> QED
    BY <2>1, <2>2 DEF Fits
<1>3. InOrder(r)
  <2>1. ASSUME NEW i \in 1..Len(r), NEW j \in 1..Len(r), i < j, r[i].kind \in TapKinds
        PROVE  r[j].kind \in PutKinds
    <3>0. New(i)
      BY <1>1, <2>1
    <3>1. New(j)
      BY <1>1, <2>1, <3>0
    <3>2. i - Len(q) < j - Len(q)
      BY <1>1, <2>1
    <3> QED
      BY <2>1, <3>0, <3>1, <3>2 DEF MaySend, InOrder
  <2>2. ASSUME NEW i \in 1..Len(r), NEW j \in 1..Len(r), r[i].kind \in RowKinds, r[j].kind \in RowKinds
        PROVE  i = j
    <3>1. CASE Old(i) /\ Old(j)
      BY <2>2, <3>1 DEF Sound, InOrder
    <3>2. CASE New(i) /\ New(j)
      <4>1. i - Len(q) = j - Len(q)
        BY <2>2, <3>2 DEF MaySend, InOrder
      <4> QED
        BY <1>1, <4>1
    <3> QED
      BY <1>1, <2>2, <3>1, <3>2
  <2>3. ASSUME NEW i \in 1..Len(r), r[i].kind = "takeRequest"
        PROVE  \E j \in 1..Len(r) : i < j /\ r[j].kind = "takeFriend"
    <3>1. CASE Old(i)
      <4>1. PICK j \in 1..Len(q) : i < j /\ q[j].kind = "takeFriend"
        BY <2>3, <3>1 DEF Sound, InOrder
      <4> QED
        BY <1>1, <4>1
    <3>2. CASE New(i)
      <4>1. PICK j \in 1..Len(calls) : i - Len(q) < j /\ calls[j].kind = "takeFriend"
        BY <2>3, <3>2 DEF MaySend, InOrder
      <4>2. Len(q) + j \in 1..Len(r) /\ r[Len(q) + j] = calls[j]
        BY <1>1
      <4>3. i < Len(q) + j
        BY <1>1, <4>1
      <4> QED
        BY <4>1, <4>2, <4>3
    <3> QED
      BY <1>1, <3>1, <3>2
  <2> QED
    BY <2>1, <2>2, <2>3 DEF InOrder
<1> QED
  BY <1>1, <1>2, <1>3 DEF Sound, r

\* Another page comes up: behind the tap there are only writes.
LEMMA OpenedSoundly ==
  ASSUME NEW q, NEW a, Sound(q, a), q # <<>>, q[1].kind \in TapKinds,
         NEW c \in Calls, NEW b \in Screens,
         c.kind \in {"loadAdd", "loadName"}, BelongsTo(c, b), ~b.submit
  PROVE  Sound(Tail(q) \o <<c>>, b)
<1> DEFINE r == Tail(q) \o <<c>>
           Old(i) == i + 1 \in 1..Len(q) /\ i + 1 # 1 /\ r[i] = q[i + 1]
           New(i) == i = Len(q) /\ r[i] = c
<1>0. <<c>> \in Seq(Calls)
  OBVIOUS
<1>1. /\ r \in Seq(Calls) /\ Len(q) \in Nat /\ 1 \in 1..Len(q)
      /\ \A i \in 1..Len(r) : Old(i) \/ New(i)
  <2> DEFINE calls == <<c>>
  <2>1. Len(calls) = 1 /\ calls[1] = c /\ calls \in Seq(Calls)
    OBVIOUS
  <2> HIDE DEF calls
  <2>2. /\ Tail(q) \o calls \in Seq(Calls) /\ Len(q) \in Nat /\ 1 \in 1..Len(q)
        /\ \A i \in 1..Len(Tail(q) \o calls) :
              \/ i < Len(q) /\ i + 1 \in 1..Len(q) /\ (Tail(q) \o calls)[i] = q[i + 1]
              \/ i >= Len(q) /\ i - Len(q) + 1 \in 1..Len(calls) /\ (Tail(q) \o calls)[i] = calls[i - Len(q) + 1]
    BY <2>1, Served DEF Sound
  <2>3. \A i \in Nat : i >= Len(q) /\ i - Len(q) + 1 \in 1..1 => i = Len(q) /\ i - Len(q) + 1 = 1
    BY <2>2
  <2> QED
    BY <2>1, <2>2, <2>3 DEF calls
<1> HIDE DEF r
<1>2. ASSUME NEW i \in 1..Len(r), Old(i) PROVE r[i].kind \in PutKinds
  <2>1. 1 < i + 1
    OBVIOUS
  <2> QED
    BY <1>1, <1>2, <2>1 DEF Sound, InOrder
<1>3. Fits(r, b)
  <2>1. ASSUME NEW i \in 1..Len(r) PROVE Knows1(r[i], b) /\ BelongsTo(r[i], b)
    <3>1. CASE Old(i)
      <4>1. Knows1(r[i], a)
        BY <3>1 DEF Sound, Fits
      <4> QED
        BY <1>2, <3>1, <4>1 DEF Knows1, BelongsTo, PutKinds, PageKinds, TapKinds, TextKinds, RowKinds
    <3>2. CASE New(i)
      BY <3>2 DEF Knows1, PutKinds
    <3> QED
      BY <1>1, <3>1, <3>2
  <2> QED
    BY <2>1 DEF Fits
<1>4. InOrder(r)
  <2>1. \A i \in 1..Len(r) : r[i].kind \notin TapKinds /\ r[i].kind # "takeRequest"
    BY <1>1, <1>2 DEF PutKinds, TapKinds
  <2>2. \A i \in 1..Len(r) : r[i].kind \in RowKinds => i = Len(q)
    BY <1>1, <1>2 DEF PutKinds, RowKinds
  <2> QED
    BY <2>1, <2>2 DEF InOrder
<1> QED
  BY <1>1, <1>3, <1>4 DEF Sound, r

\* The page goes; what stays in the queue keeps what it needs of the page.
LEMMA PoppedSoundly ==
  ASSUME NEW q, NEW a, Sound(q, a), a.page # "messenger",
         NEW b, b = IF \E i \in DOMAIN q : q[i].kind \in EditKinds
                      THEN [a EXCEPT !.page = "messenger"] ELSE Home
  PROVE  Sound(OfKind(q, TapKinds \cup EditKinds \cup PutKinds), b)
<1> DEFINE kinds == TapKinds \cup EditKinds \cup PutKinds
           r == OfKind(q, kinds)
<1>1. r \in Seq(Calls)
  BY SelectionIsOrdered DEF Sound
<1>2. PICK e : Selects(e, r, q, Len(q), kinds)
  BY SelectionIsOrdered DEF Sound
<1> HIDE DEF r
<1>3. \A i \in 1..Len(r) : e[i] \in 1..Len(q) /\ r[i] = q[e[i]] /\ r[i].kind \in EditKinds \cup PutKinds
  BY <1>2 DEF Selects, Sound, Fits, BelongsTo, TapKinds
<1>4. b \in Screens /\ b.page = "messenger" /\ (b.submit => b.text # None)
  BY HomeIsSound DEF Sound, Fits, Screens, Home
<1>5. Fits(r, b)
  <2>1. ASSUME NEW i \in 1..Len(r) PROVE Knows1(r[i], b) /\ BelongsTo(r[i], b)
    <3>1. Knows1(r[i], a) /\ BelongsTo(r[i], a)
      BY <1>3 DEF Sound, Fits
    <3>2. CASE r[i].kind \in PutKinds
      BY <3>1, <3>2, <1>4 DEF Knows1, BelongsTo, PutKinds, PageKinds, TapKinds, TextKinds, RowKinds
    <3>3. CASE r[i].kind \in EditKinds
      <4>1. e[i] \in DOMAIN q /\ q[e[i]].kind \in EditKinds
        BY <1>3, <3>3 DEF Sound
      <4>2. b = [a EXCEPT !.page = "messenger"]
        BY <4>1
      <4>3. b.rows = a.rows /\ b.text = a.text
        BY <4>2 DEF Sound, Screens
      <4> QED
        BY <1>4, <3>1, <3>3, <4>3 DEF Knows1, BelongsTo, EditKinds, PageKinds, TapKinds, RowKinds
    <3> QED
      BY <1>3, <3>2, <3>3
  <2> QED
    BY <1>4, <2>1 DEF Fits
<1>6. InOrder(r)
  <2>1. \A i \in 1..Len(r) : r[i].kind \notin TapKinds
    BY <1>3 DEF EditKinds, PutKinds, TapKinds
  <2>2. ASSUME NEW i \in 1..Len(r), NEW j \in 1..Len(r), r[i].kind \in RowKinds, r[j].kind \in RowKinds
        PROVE  i = j
    <3>1. e[i] = e[j]
      BY <1>3, <2>2 DEF Sound, InOrder
    <3>2. ~(i < j) /\ ~(j < i)
      BY <1>2, <1>3, <3>1 DEF Selects
    <3> QED
      BY <3>2
  <2>3. ASSUME NEW i \in 1..Len(r), r[i].kind = "takeRequest"
        PROVE  \E j \in 1..Len(r) : i < j /\ r[j].kind = "takeFriend"
    <3>1. PICK k \in 1..Len(q) : e[i] < k /\ q[k].kind = "takeFriend"
      BY <1>3, <2>3 DEF Sound, InOrder
    <3>2. q[k].kind \in kinds
      BY <3>1 DEF EditKinds
    <3>3. PICK j \in 1..Len(r) : e[j] = k
      BY <1>2, <3>2 DEF Selects
    <3>4. ~(j < i) /\ j # i
      BY <1>2, <1>3, <3>1, <3>3 DEF Selects
    <3> QED
      BY <1>3, <3>1, <3>3, <3>4
  <2> QED
    BY <2>1, <2>2, <2>3 DEF InOrder
<1> QED
  BY <1>1, <1>4, <1>5, <1>6 DEF Sound, r

-----------------------------------------------------------------------------
(* Every step keeps every device sound.                                    *)

\* Something happens on the device of u only.
Turns(u, r, b) ==
  /\ queue' = [queue EXCEPT ![u] = r]
  /\ app' = [app EXCEPT ![u] = b]

\* The lists of the database and what was observed keep their types.
DataTyped ==
  /\ request \in [Users -> Seq(Users)]
  /\ friends \in [Users -> Seq(Texts)]
  /\ asked \subseteq Users \X Users
  /\ answered \subseteq Users \X Users

TypeInv ==
  /\ DataTyped
  /\ DOMAIN queue = Users /\ queue = [u \in Users |-> queue[u]]
  /\ DOMAIN app = Users /\ app = [u \in Users |-> app[u]]
  /\ \A u \in Users : Sound(queue[u], app[u])

LEMMA OneDevice ==
  ASSUME TypeInv, DataTyped', NEW u \in Users, NEW r, NEW b, Sound(r, b), Turns(u, r, b)
  PROVE  TypeInv'
<1>1. /\ DOMAIN queue' = Users /\ queue' = [v \in Users |-> queue'[v]]
      /\ DOMAIN app' = Users /\ app' = [v \in Users |-> app'[v]]
  BY DEF TypeInv, Turns
<1>2. ASSUME NEW v \in Users PROVE Sound(queue'[v], app'[v])
  <2>1. CASE v = u
    <3>1. queue'[v] = r /\ app'[v] = b
      BY <2>1 DEF TypeInv, Turns
    <3> QED
      BY <3>1
  <2>2. CASE v # u
    <3>1. queue'[v] = queue[v] /\ app'[v] = app[v]
      BY <2>2 DEF TypeInv, Turns
    <3> QED
      BY <3>1 DEF TypeInv
  <2> QED
    BY <2>1, <2>2
<1> QED
  BY <1>1, <1>2 DEF TypeInv

LEMMA TypeInvImpliesTypeOK == TypeInv => TypeOK
<1> SUFFICES ASSUME TypeInv PROVE TypeOK
  OBVIOUS
<1>1. queue \in [Users -> Seq(Calls)] /\ app \in [Users -> Screens]
  BY DEF TypeInv, Sound
<1>2. ASSUME NEW u \in Users, NEW i \in DOMAIN queue[u]
      PROVE  LET call == queue[u][i] IN
             /\ call.kind \in {"takeRequest", "takeFriend", "dropRequest"}
                  => call.row \in DOMAIN app[u].rows
             /\ call.kind \in PutKinds => call.who \in Users
             /\ call.kind = "putRequest" => call.list \in Seq(Users)
             /\ call.kind = "addAsked" => app[u].text # None
  <2>1. i \in 1..Len(queue[u])
    BY <1>1
  <2> QED
    BY <2>1 DEF TypeInv, Sound, Fits, Knows1, BelongsTo, TextKinds
<1> QED
  BY <1>1, <1>2 DEF TypeOK, TypeInv, DataTyped, Screens

LEMMA InitIsSound == Init => TypeInv
  BY HomeIsSound DEF Init, TypeInv, DataTyped

\* What a device that deals with its first call is like.
LEMMA HeadIsFirst ==
  ASSUME TypeInv, NEW u \in Users, NEW kind, Next1(u, kind)
  PROVE  /\ Sound(queue[u], app[u]) /\ queue[u] \in Seq(Calls) /\ app[u] \in Screens
         /\ queue[u] # <<>> /\ 1 \in 1..Len(queue[u]) /\ Len(queue[u]) \in Nat
         /\ Head(queue[u]) = queue[u][1] /\ queue[u][1] \in Calls
         /\ queue[u][1].kind = kind
         /\ Knows1(queue[u][1], app[u]) /\ BelongsTo(queue[u][1], app[u])
<1>1. Sound(queue[u], app[u]) /\ queue[u] \in Seq(Calls) /\ app[u] \in Screens
  BY DEF TypeInv, Sound
<1>2. queue[u] # <<>> /\ Head(queue[u]).kind = kind
  BY DEF Next1
<1>3. /\ 1 \in 1..Len(queue[u]) /\ Len(queue[u]) \in Nat
      /\ Head(queue[u]) = queue[u][1] /\ queue[u][1] \in Calls
  BY <1>1, <1>2
<1> QED
  BY <1>1, <1>2, <1>3 DEF Sound, Fits

\* A device deals with a call of a page that stays.
LEMMA ServesSoundly ==
  ASSUME TypeInv, DataTyped', NEW u \in Users, queue[u] # <<>>,
         NEW calls \in Seq(Calls), NEW b \in Screens,
         MayMake(calls, queue[u][1], b), MayShow(app[u], queue[u][1], b),
         Makes(u, calls), app' = [app EXCEPT ![u] = b]
  PROVE  TypeInv'
<1>1. Sound(Tail(queue[u]) \o calls, b)
  BY ServedSoundly DEF TypeInv
<1>2. Turns(u, Tail(queue[u]) \o calls, b)
  BY DEF Turns, Makes
<1> QED
  BY <1>1, <1>2, OneDevice

\* An app starts again.
LEMMA RestartsSoundly ==
  ASSUME TypeInv, DataTyped', NEW u \in Users, Restart(u)
  PROVE  TypeInv'
<1>1. Turns(u, <<>>, Home)
  BY DEF Restart, Turns
<1> QED
  BY <1>1, HomeIsSound, OneDevice

\* What a callback makes: nothing, one call, or two.
LEMMA NothingMade == \A c, b : MayMake(<<>>, c, b) /\ <<>> \in Seq(Calls)
  BY DEF MayMake

LEMMA OneMade ==
  ASSUME NEW c, NEW b, NEW one \in Calls,
         \/ Quiet(one)
         \/ /\ one.kind \in {"loadList", "loadNames"} /\ BelongsTo(one, b)
            /\ c.kind \in RowKinds
  PROVE  MayMake(<<one>>, c, b) /\ <<one>> \in Seq(Calls)
<1> DEFINE calls == <<one>>
<1>1. Len(calls) = 1 /\ calls[1] = one /\ calls \in Seq(Calls)
  OBVIOUS
<1> HIDE DEF calls
<1>2. MayMake(calls, c, b)
  BY <1>1 DEF MayMake
<1> QED
  BY <1>1, <1>2 DEF calls

LEMMA TwoMade ==
  ASSUME NEW c, NEW b, NEW one \in Calls, NEW two \in Calls,
         \/ Quiet(one)
         \/ one.kind = "checkFriends" /\ BelongsTo(one, b),
         \/ two.kind = "checkRequests" /\ BelongsTo(two, b)
         \/ two.kind = "loadList" /\ BelongsTo(two, b) /\ c.kind \in RowKinds
  PROVE  MayMake(<<one, two>>, c, b) /\ <<one, two>> \in Seq(Calls)
<1> DEFINE calls == <<one, two>>
<1>1. Len(calls) = 2 /\ calls[1] = one /\ calls[2] = two /\ calls \in Seq(Calls)
  OBVIOUS
<1>2. one.kind \notin RowKinds
  BY DEF Quiet, PutKinds, RowKinds
<1> HIDE DEF calls
<1>3. \A i \in 1..Len(calls) : i = 1 \/ i = 2
  BY <1>1
<1>4. MayMake(calls, c, b)
  <2>1. ASSUME NEW i \in 1..Len(calls)
        PROVE  \/ Quiet(calls[i])
               \/ /\ calls[i].kind \in {"checkFriends", "checkRequests", "loadList", "loadNames"}
                  /\ BelongsTo(calls[i], b)
                  /\ calls[i].kind \in RowKinds => c.kind \in RowKinds
    <3>1. CASE i = 1
      BY <1>1, <1>2, <3>1
    <3>2. CASE i = 2
      BY <1>1, <3>2 DEF RowKinds
    <3> QED
      BY <1>3, <3>1, <3>2
  <2>2. \A i \in 1..Len(calls) : calls[i].kind \in RowKinds => i = 2
    BY <1>1, <1>2, <1>3
  <2> QED
    BY <2>1, <2>2 DEF MayMake
<1> QED
  BY <1>1, <1>4 DEF calls

LEMMA PutIsQuiet ==
  ASSUME NEW kind \in PutKinds, NEW who \in Users, NEW list \in Seq(Texts),
         kind = "putRequest" => list \in Seq(Users)
  PROVE  /\ Put(kind, who, list) \in Calls /\ Quiet(Put(kind, who, list))
         /\ Put(kind, who, list).kind = kind /\ Put(kind, who, list).who = who
         /\ Put(kind, who, list).list = list
  BY DEF Put, Call, Calls, Quiet, Texts

LEMMA UsersAreTexts == \A s \in Seq(Users) : s \in Seq(Texts)
  BY DEF Texts

-----------------------------------------------------------------------------
(* One list.                                                               *)

\* What is left of a list without an entry's first place.
LEMMA TakenOff ==
  ASSUME NEW S, NEW s \in Seq(S), NEW v \in Range(s)
  PROVE  LET r == RemoveFirst(s, v) IN
         /\ r \in Seq(S)
         /\ Range(r) \subseteq Range(s)
         /\ IsInjective(s) => IsInjective(r)
<1>1. \E i \in 1..Len(s) : s[i] = v
  BY DEF Range
<1> DEFINE I == {i \in 1..Len(s) : s[i] = v}
           k == SelectInSeq(s, LAMBDA x : x = v)
           r == RemoveAt(s, k)
<1>2. k \in 1..Len(s)
  <2>1. I # {} /\ I \in SUBSET Nat
    BY <1>1
  <2>2. k = Min(I)
    BY <2>1 DEF SelectInSeq
  <2> HIDE DEF I
  <2>3. \E x \in I : \A y \in I : x <= y
    BY <2>1, LeastExists
  <2>4. Min(I) \in I
    BY <2>3 DEF Min
  <2> QED
    BY <2>2, <2>4 DEF I
<1>3. RemoveFirst(s, v) = r
  BY <1>1 DEF RemoveFirst
<1> HIDE DEF k
<1> DEFINE f == SubSeq(s, 1, k - 1)
           g == SubSeq(s, k + 1, Len(s))
<1>4. /\ f \in Seq(S) /\ Len(f) = k - 1 /\ \A i \in 1..(k - 1) : f[i] = s[i]
      /\ g \in Seq(S) /\ Len(g) = Len(s) - k /\ \A i \in 1..(Len(s) - k) : g[i] = s[k + i]
  BY <1>2
<1>5. r = f \o g
  BY DEF RemoveAt
<1> HIDE DEF r, f, g
<1>6. /\ r \in Seq(S) /\ Len(r) = Len(s) - 1
      /\ \A i \in 1..Len(r) : r[i] = IF i < k THEN s[i] ELSE s[i + 1]
  <2>1. r \in Seq(S) /\ Len(r) = Len(s) - 1
    BY <1>2, <1>4, <1>5
  <2>2. ASSUME NEW i \in 1..Len(r) PROVE r[i] = IF i < k THEN s[i] ELSE s[i + 1]
    <3>1. CASE i < k
      <4>1. i \in 1..(k - 1) /\ r[i] = f[i]
        BY <1>2, <1>4, <1>5, <2>1, <3>1
      <4> QED
        BY <1>4, <3>1, <4>1
    <3>2. CASE ~(i < k)
      <4>1. i - (k - 1) \in 1..(Len(s) - k) /\ r[i] = g[i - (k - 1)]
        BY <1>2, <1>4, <1>5, <2>1, <3>2
      <4>2. k + (i - (k - 1)) = i + 1
        BY <1>2
      <4> QED
        BY <1>4, <3>2, <4>1, <4>2
    <3> QED
      BY <3>1, <3>2
  <2> QED
    BY <2>1, <2>2
<1>7. Range(r) \subseteq Range(s)
  BY <1>2, <1>6, SMTT(30) DEF Range
<1>8. IsInjective(s) => IsInjective(r)
  BY <1>2, <1>6, SMTT(30) DEF IsInjective
<1> QED
  BY <1>3, <1>6, <1>7, <1>8

\* One more in a list.
LEMMA OneMore ==
  ASSUME NEW S, NEW s \in Seq(S), NEW x \in S
  PROVE  /\ Append(s, x) \in Seq(S) /\ Range(Append(s, x)) = Range(s) \cup {x}
         /\ IsInjective(s) /\ x \notin Range(s) => IsInjective(Append(s, x))
<1> DEFINE r == Append(s, x)
<1>1. /\ r \in Seq(S) /\ Len(r) = Len(s) + 1 /\ r[Len(s) + 1] = x
      /\ \A i \in 1..Len(s) : r[i] = s[i]
  OBVIOUS
<1>2. DOMAIN r = 1..(Len(s) + 1) /\ DOMAIN s = 1..Len(s) /\ Len(s) \in Nat
  OBVIOUS
<1> HIDE DEF r
<1>3. \A i \in DOMAIN r : i \in DOMAIN s \/ i = Len(s) + 1
  BY <1>2
<1>4. Range(r) = Range(s) \cup {x}
  <2>1. \A i \in DOMAIN s : i \in DOMAIN r
    BY <1>2
  <2>2. Len(s) + 1 \in DOMAIN r
    BY <1>2
  <2> QED
    BY <1>1, <1>2, <1>3, <2>1, <2>2 DEF Range
<1>5. ASSUME IsInjective(s), x \notin Range(s) PROVE IsInjective(r)
  <2>1. \A i \in DOMAIN s : s[i] # x
    BY <1>5 DEF Range
  <2> QED
    BY <1>1, <1>2, <1>3, <1>5, <2>1 DEF IsInjective
<1> QED
  BY <1>1, <1>4, <1>5 DEF r

-----------------------------------------------------------------------------
(* Every action keeps every device sound.                                  *)

LEMMA LoadAddIsSound ==
  ASSUME TypeInv, NEW u \in Users, LoadAdd(u)
  PROVE  TypeInv'
<1> DEFINE b == [app[u] EXCEPT !.enabled = TRUE]
<1>1. Next1(u, "loadAdd") /\ Makes(u, <<>>) /\ app' = [app EXCEPT ![u] = b]
  BY DEF LoadAdd, TypeInv, Sound, Screens
<1>2. queue[u] # <<>> /\ queue[u][1].kind = "loadAdd" /\ app[u] \in Screens
  BY <1>1, HeadIsFirst
<1>3. DataTyped'
  BY DEF LoadAdd, TypeInv, DataTyped, database, observed
<1>4. b \in Screens /\ MayShow(app[u], queue[u][1], b)
  BY <1>2 DEF Screens, MayShow, TextKinds
<1> QED
  BY <1>1, <1>2, <1>3, <1>4, NothingMade, ServesSoundly

LEMMA CheckFriendsIsSound ==
  ASSUME TypeInv, NEW u \in Users, CheckFriends(u)
  PROVE  TypeInv'
<1> DEFINE b == IF Knows(u, Head(queue[u]).who)
               THEN [app[u] EXCEPT !.submit = FALSE, !.flag = FALSE] ELSE app[u]
<1>1. Next1(u, "checkFriends") /\ Makes(u, <<>>) /\ app' = [app EXCEPT ![u] = b]
  BY DEF CheckFriends, TypeInv, Sound, Screens
<1>2. queue[u] # <<>> /\ queue[u][1].kind = "checkFriends" /\ app[u] \in Screens
  BY <1>1, HeadIsFirst
<1>3. DataTyped'
  BY DEF CheckFriends, TypeInv, DataTyped, database, observed
<1>4. b \in Screens /\ MayShow(app[u], queue[u][1], b)
  BY <1>2 DEF Screens, MayShow, TextKinds
<1> QED
  BY <1>1, <1>2, <1>3, <1>4, NothingMade, ServesSoundly

LEMMA CheckRequestsIsSound ==
  ASSUME TypeInv, NEW u \in Users, CheckRequests(u)
  PROVE  TypeInv'
<1> DEFINE b == [app[u] EXCEPT !.submit = IF WasAskedBy(u) THEN FALSE
                                                ELSE app[u].flag \/ app[u].submit]
<1>1. Next1(u, "checkRequests") /\ Makes(u, <<>>) /\ app' = [app EXCEPT ![u] = b]
  BY DEF CheckRequests, TypeInv, Sound, Screens
<1>2. queue[u] # <<>> /\ queue[u][1].kind = "checkRequests" /\ app[u] \in Screens
  BY <1>1, HeadIsFirst
<1>3. DataTyped'
  BY DEF CheckRequests, TypeInv, DataTyped, database, observed
<1>4. b \in Screens /\ MayShow(app[u], queue[u][1], b)
  BY <1>2 DEF Screens, MayShow, TextKinds
<1> QED
  BY <1>1, <1>2, <1>3, <1>4, NothingMade, ServesSoundly

LEMMA OpenAddIsSound ==
  ASSUME TypeInv, NEW u \in Users, OpenAdd(u)
  PROVE  TypeInv'
<1> DEFINE b == [Home EXCEPT !.page = "add"]
           c == Call("loadAdd")
<1>1. Next1(u, "openAdd") /\ Turns(u, Tail(queue[u]) \o <<c>>, b)
  BY DEF OpenAdd, Turns, Makes
<1>2. Sound(queue[u], app[u]) /\ queue[u] # <<>> /\ queue[u][1].kind \in TapKinds
  BY <1>1, HeadIsFirst DEF TapKinds
<1>3. DataTyped'
  BY DEF OpenAdd, TypeInv, DataTyped, database, observed
<1>4. c \in Calls /\ c.kind = "loadAdd"
  BY CallIsCall DEF PageKinds
<1>5. b \in Screens /\ ~b.submit /\ BelongsTo(c, b)
  BY <1>4, HomeIsSound DEF Screens, Home, BelongsTo, TapKinds, TextKinds, RowKinds
<1> HIDE DEF b, c
<1>6. Sound(Tail(queue[u]) \o <<c>>, b)
  BY <1>2, <1>4, <1>5, OpenedSoundly
<1> QED
  BY <1>1, <1>3, <1>6, OneDevice

LEMMA OpenRequestsIsSound ==
  ASSUME TypeInv, NEW u \in Users, OpenRequests(u)
  PROVE  TypeInv'
<1> DEFINE b == [Home EXCEPT !.page = "request"]
           c == Call("loadName")
<1>1. Next1(u, "openRequests") /\ Turns(u, Tail(queue[u]) \o <<c>>, b)
  BY DEF OpenRequests, Turns, Makes
<1>2. Sound(queue[u], app[u]) /\ queue[u] # <<>> /\ queue[u][1].kind \in TapKinds
  BY <1>1, HeadIsFirst DEF TapKinds
<1>3. DataTyped'
  BY DEF OpenRequests, TypeInv, DataTyped, database, observed
<1>4. c \in Calls /\ c.kind = "loadName"
  BY CallIsCall DEF PageKinds
<1>5. b \in Screens /\ ~b.submit /\ BelongsTo(c, b)
  BY <1>4, HomeIsSound DEF Screens, Home, BelongsTo, TapKinds, TextKinds, RowKinds
<1> HIDE DEF b, c
<1>6. Sound(Tail(queue[u]) \o <<c>>, b)
  BY <1>2, <1>4, <1>5, OpenedSoundly
<1> QED
  BY <1>1, <1>3, <1>6, OneDevice

LEMMA FindIsSound ==
  ASSUME TypeInv, NEW u \in Users, Find(u)
  PROVE  TypeInv'
<1>1. Next1(u, "find")
  BY DEF Find
<1>2. /\ queue[u] # <<>> /\ queue[u][1].kind = "find" /\ app[u] \in Screens
      /\ BelongsTo(queue[u][1], app[u])
  BY <1>1, HeadIsFirst
<1>3. DataTyped'
  BY DEF Find, TypeInv, DataTyped, database, observed
<1>4. CASE Restart(u)
  BY <1>3, <1>4, RestartsSoundly
<1>5. CASE /\ app' = [app EXCEPT ![u].submit = FALSE]
           /\ Makes(u, <<>>)
  <2> DEFINE b == [app[u] EXCEPT !.submit = FALSE]
  <2>1. app' = [app EXCEPT ![u] = b]
    BY <1>5 DEF TypeInv, Sound, Screens
  <2>2. b \in Screens /\ MayShow(app[u], queue[u][1], b)
    BY <1>2 DEF Screens, MayShow
  <2> QED
    BY <1>2, <1>3, <1>5, <2>1, <2>2, NothingMade, ServesSoundly
<1>6. CASE /\ app[u].text \in Users
           /\ app' = [app EXCEPT ![u].submit = FALSE, ![u].flag = TRUE]
           /\ Makes(u, <<[Call("checkFriends") EXCEPT !.who = app[u].text],
                         Call("checkRequests")>>)
  <2> DEFINE b == [app[u] EXCEPT !.submit = FALSE, !.flag = TRUE]
             one == [Call("checkFriends") EXCEPT !.who = app[u].text]
             two == Call("checkRequests")
  <2>1. app' = [app EXCEPT ![u] = b] /\ Makes(u, <<one, two>>)
    BY <1>6 DEF TypeInv, Sound, Screens
  <2>2. b \in Screens /\ MayShow(app[u], queue[u][1], b)
    BY <1>2 DEF Screens, MayShow
  <2>3. /\ one \in Calls /\ one.kind = "checkFriends"
        /\ two \in Calls /\ two.kind = "checkRequests"
    BY <1>6, CallIsCall, CallWithName DEF PageKinds, Texts
  <2>4. b.page = "add" /\ b.text # None
    BY <1>2 DEF BelongsTo, Screens, PageKinds, TextKinds
  <2>5. BelongsTo(one, b) /\ BelongsTo(two, b)
    BY <2>3, <2>4 DEF BelongsTo, PageKinds, TapKinds, TextKinds, RowKinds
  <2> HIDE DEF b, one, two
  <2>6. MayMake(<<one, two>>, queue[u][1], b) /\ <<one, two>> \in Seq(Calls)
    BY <2>3, <2>5, TwoMade
  <2> QED
    BY <1>2, <1>3, <2>1, <2>2, <2>6, ServesSoundly
<1> QED
  BY <1>4, <1>5, <1>6 DEF Find

LEMMA AskIsSound ==
  ASSUME TypeInv, NEW u \in Users, Ask(u)
  PROVE  TypeInv'
<1> DEFINE x == app[u].text
           one == Put("putRequest", x, Append(request[x], u))
<1>1. Next1(u, "ask")
  BY DEF Ask
<1>2. queue[u] # <<>> /\ queue[u][1].kind = "ask" /\ app[u] \in Screens
  BY <1>1, HeadIsFirst
<1>3. DataTyped'
  BY DEF Ask, TypeInv, DataTyped, database
<1>4. CASE Restart(u)
  BY <1>3, <1>4, RestartsSoundly
<1>5. CASE x \in Users /\ Makes(u, <<one>>) /\ UNCHANGED app
  <2>1. app' = [app EXCEPT ![u] = app[u]]
    BY <1>5 DEF TypeInv
  <2>2. MayShow(app[u], queue[u][1], app[u])
    BY DEF MayShow
  <2>3. Append(request[x], u) \in Seq(Users)
    BY <1>5 DEF TypeInv, DataTyped
  <2>4. one \in Calls /\ Quiet(one)
    BY <1>5, <2>3, UsersAreTexts, PutIsQuiet DEF PutKinds
  <2> HIDE DEF one
  <2>5. MayMake(<<one>>, queue[u][1], app[u]) /\ <<one>> \in Seq(Calls)
    BY <2>4, OneMade
  <2> QED
    BY <1>2, <1>3, <1>5, <2>1, <2>2, <2>5, ServesSoundly
<1> QED
  BY <1>4, <1>5 DEF Ask

LEMMA AddAskedIsSound ==
  ASSUME TypeInv, NEW u \in Users, AddAsked(u)
  PROVE  TypeInv'
<1> DEFINE one == Put("putFriends", u, FriendsWith(u, app[u].text))
<1>1. Next1(u, "addAsked") /\ Makes(u, <<one>>) /\ app' = [app EXCEPT ![u] = app[u]]
  BY DEF AddAsked, TypeInv
<1>2. /\ queue[u] # <<>> /\ app[u] \in Screens
      /\ app[u].text # None
  BY <1>1, HeadIsFirst DEF BelongsTo, TextKinds
<1>3. DataTyped'
  BY DEF AddAsked, TypeInv, DataTyped, database, observed
<1>4. FriendsWith(u, app[u].text) \in Seq(Texts)
  BY <1>2 DEF TypeInv, DataTyped, Screens, FriendsWith
<1>5. one \in Calls /\ Quiet(one)
  BY <1>4, PutIsQuiet DEF PutKinds
<1> HIDE DEF one
<1>6. MayMake(<<one>>, queue[u][1], app[u]) /\ <<one>> \in Seq(Calls)
  BY <1>5, OneMade
<1>7. MayShow(app[u], queue[u][1], app[u])
  BY DEF MayShow
<1> QED
  BY <1>1, <1>2, <1>3, <1>6, <1>7, ServesSoundly

LEMMA LoadNameIsSound ==
  ASSUME TypeInv, NEW u \in Users, LoadName(u)
  PROVE  TypeInv'
<1> DEFINE one == Call("loadList")
<1>1. Next1(u, "loadName") /\ Makes(u, <<one>>) /\ app' = [app EXCEPT ![u] = app[u]]
  BY DEF LoadName, TypeInv
<1>2. /\ queue[u] # <<>> /\ app[u] \in Screens /\ queue[u][1].kind = "loadName"
      /\ BelongsTo(queue[u][1], app[u])
  BY <1>1, HeadIsFirst
<1>3. DataTyped'
  BY DEF LoadName, TypeInv, DataTyped, database, observed
<1>4. one \in Calls /\ one.kind = "loadList"
  BY CallIsCall DEF PageKinds
<1>5. BelongsTo(one, app[u])
  BY <1>2, <1>4 DEF BelongsTo, PageKinds, TapKinds, TextKinds, RowKinds
<1> HIDE DEF one
<1>6. MayMake(<<one>>, queue[u][1], app[u]) /\ <<one>> \in Seq(Calls)
  BY <1>2, <1>4, <1>5, OneMade DEF RowKinds
<1>7. MayShow(app[u], queue[u][1], app[u])
  BY DEF MayShow
<1> QED
  BY <1>1, <1>2, <1>3, <1>6, <1>7, ServesSoundly

LEMMA LoadListIsSound ==
  ASSUME TypeInv, NEW u \in Users, LoadList(u)
  PROVE  TypeInv'
<1> DEFINE one == Call("loadNames")
           b == [app[u] EXCEPT !.rows = request[u]]
<1>1. Next1(u, "loadList") /\ Makes(u, <<one>>) /\ app' = [app EXCEPT ![u] = b]
  BY DEF LoadList, TypeInv
<1>2. /\ queue[u] # <<>> /\ app[u] \in Screens /\ queue[u][1].kind = "loadList"
      /\ BelongsTo(queue[u][1], app[u])
  BY <1>1, HeadIsFirst
<1>3. DataTyped'
  BY DEF LoadList, TypeInv, DataTyped, database, observed
<1>4. one \in Calls /\ one.kind = "loadNames"
  BY CallIsCall DEF PageKinds
<1>5. b \in Screens /\ MayShow(app[u], queue[u][1], b)
  BY <1>2 DEF Screens, MayShow, TypeInv, DataTyped
<1>6. BelongsTo(one, b)
  BY <1>2, <1>4 DEF BelongsTo, Screens, PageKinds, TapKinds, TextKinds, RowKinds
<1> HIDE DEF one, b
<1>7. MayMake(<<one>>, queue[u][1], b) /\ <<one>> \in Seq(Calls)
  BY <1>2, <1>4, <1>6, OneMade DEF RowKinds
<1> QED
  BY <1>1, <1>2, <1>3, <1>5, <1>7, ServesSoundly

LEMMA LoadNamesIsSound ==
  ASSUME TypeInv, NEW u \in Users, LoadNames(u)
  PROVE  TypeInv'
<1> DEFINE b == [app[u] EXCEPT !.enabled = TRUE]
<1>1. DataTyped'
  BY DEF LoadNames, TypeInv, DataTyped, database, observed
<1>2. CASE Restart(u)
  BY <1>1, <1>2, RestartsSoundly
<1>3. CASE Makes(u, <<>>) /\ app' = [app EXCEPT ![u].enabled = TRUE]
  <2>1. queue[u] # <<>> /\ queue[u][1].kind = "loadNames" /\ app[u] \in Screens
    BY HeadIsFirst DEF LoadNames
  <2>2. app' = [app EXCEPT ![u] = b]
    BY <1>3 DEF TypeInv
  <2>3. b \in Screens /\ MayShow(app[u], queue[u][1], b)
    BY <2>1 DEF Screens, MayShow
  <2> QED
    BY <1>1, <1>3, <2>1, <2>2, <2>3, NothingMade, ServesSoundly
<1> QED
  BY <1>2, <1>3 DEF LoadNames

\* A request is taken off, or a trap.
LEMMA TakesOffIsSound ==
  ASSUME TypeInv, DataTyped', NEW u \in Users, NEW kind \in {"takeRequest", "dropRequest"},
         Next1(u, kind), NEW reloads \in {<<>>, <<Call("loadList")>>},
         reloads # <<>> => kind = "dropRequest" /\ app[u].page = "request",
         TakesOff(u, Head(queue[u]).row, reloads)
  PROVE  TypeInv'
<1> DEFINE v == app[u].rows[Head(queue[u]).row]
           one == Put("putRequest", u, RemoveFirst(request[u], v))
<1>1. CASE Restart(u)
  BY <1>1, RestartsSoundly
<1>2. CASE v \in Range(request[u]) /\ Makes(u, <<one>> \o reloads) /\ UNCHANGED app
  <2>1. /\ queue[u] # <<>> /\ queue[u][1].kind = kind /\ app[u] \in Screens
        /\ BelongsTo(queue[u][1], app[u])
    BY HeadIsFirst
  <2>2. app' = [app EXCEPT ![u] = app[u]] /\ MayShow(app[u], queue[u][1], app[u])
    BY <1>2 DEF TypeInv, MayShow
  <2>3. RemoveFirst(request[u], v) \in Seq(Users)
    <3>1. request[u] \in Seq(Users)
      BY DEF TypeInv, DataTyped
    <3> QED
      BY <1>2, <3>1, TakenOff
  <2>4. one \in Calls /\ Quiet(one)
    BY <2>3, UsersAreTexts, PutIsQuiet DEF PutKinds
  <2> HIDE DEF one, v
  <2>5. CASE reloads = <<>>
    <3>1. <<one>> \o reloads = <<one>>
      BY <2>5
    <3>2. MayMake(<<one>>, queue[u][1], app[u]) /\ <<one>> \in Seq(Calls)
      BY <2>4, OneMade
    <3>3. Makes(u, <<one>>)
      BY <1>2, <3>1
    <3> QED
      BY <2>1, <2>2, <3>2, <3>3, ServesSoundly
  <2>6. CASE reloads # <<>>
    <3> DEFINE two == Call("loadList")
    <3>1. two \in Calls /\ two.kind = "loadList"
      BY CallIsCall DEF PageKinds
    <3>2. <<one>> \o reloads = <<one, two>>
      BY <2>4, <2>6, <3>1, Pair
    <3> HIDE DEF two
    <3>3. BelongsTo(two, app[u]) /\ queue[u][1].kind \in RowKinds
      BY <2>1, <2>6, <3>1 DEF BelongsTo, PageKinds, TapKinds, TextKinds, RowKinds
    <3>4. MayMake(<<one, two>>, queue[u][1], app[u]) /\ <<one, two>> \in Seq(Calls)
      BY <2>4, <3>1, <3>3, TwoMade
    <3>5. Makes(u, <<one, two>>)
      BY <1>2, <3>2
    <3> QED
      BY <2>1, <2>2, <3>4, <3>5, ServesSoundly
  <2> QED
    BY <2>5, <2>6
<1> QED
  BY <1>1, <1>2 DEF TakesOff

LEMMA TakeRequestIsSound ==
  ASSUME TypeInv, NEW u \in Users, TakeRequest(u)
  PROVE  TypeInv'
<1>1. app[u].rows[Head(queue[u]).row] \in Users
  <2>1. Knows1(Head(queue[u]), app[u]) /\ Head(queue[u]).kind = "takeRequest" /\ app[u] \in Screens
    BY HeadIsFirst DEF TakeRequest
  <2> QED
    BY <2>1 DEF Knows1, Screens
<1>2. DataTyped'
  BY <1>1 DEF TakeRequest, TakesOff, TypeInv, DataTyped, database
<1> QED
  BY <1>2, TakesOffIsSound DEF TakeRequest

LEMMA DropRequestIsSound ==
  ASSUME TypeInv, NEW u \in Users, DropRequest(u)
  PROVE  TypeInv'
<1>1. app[u].rows[Head(queue[u]).row] \in Users
  <2>1. Knows1(Head(queue[u]), app[u]) /\ Head(queue[u]).kind = "dropRequest" /\ app[u] \in Screens
    BY HeadIsFirst DEF DropRequest
  <2> QED
    BY <2>1 DEF Knows1, Screens
<1>2. DataTyped'
  BY <1>1 DEF DropRequest, TakesOff, TypeInv, DataTyped, database
<1>3. /\ Reloads(u) \in {<<>>, <<Call("loadList")>>}
      /\ Reloads(u) # <<>> => app[u].page = "request"
  BY DEF Reloads
<1> QED
  BY <1>2, <1>3, TakesOffIsSound DEF DropRequest

LEMMA TakeFriendIsSound ==
  ASSUME TypeInv, NEW u \in Users, TakeFriend(u)
  PROVE  TypeInv'
<1> DEFINE x == app[u].rows[Head(queue[u]).row]
           one == Put("putFriends", u, FriendsWith(u, x))
           two == Call("loadList")
<1>1. /\ queue[u] # <<>> /\ queue[u][1].kind = "takeFriend" /\ app[u] \in Screens
      /\ BelongsTo(queue[u][1], app[u])
      /\ Knows1(Head(queue[u]), app[u]) /\ Head(queue[u]).kind = "takeFriend"
  BY HeadIsFirst DEF TakeFriend
<1>2. x \in Users
  BY <1>1 DEF Knows1, Screens
<1>3. FriendsWith(u, x) \in Seq(Texts)
  BY <1>2 DEF TypeInv, DataTyped, FriendsWith, Texts
<1>4. one \in Calls /\ Quiet(one)
  BY <1>3, PutIsQuiet DEF PutKinds
<1>5. two \in Calls /\ two.kind = "loadList"
  BY CallIsCall DEF PageKinds
<1>6. /\ app' = [app EXCEPT ![u] = app[u]] /\ MayShow(app[u], queue[u][1], app[u])
      /\ DataTyped'
  BY DEF TakeFriend, TypeInv, MayShow, DataTyped, database, observed
<1>7. Makes(u, <<one>> \o ReloadsAfterTaking(u))
  BY DEF TakeFriend
<1> HIDE DEF one
<1>8. CASE app[u].page # "request"
  <2>1. <<one>> \o ReloadsAfterTaking(u) = <<one>>
    BY <1>8 DEF ReloadsAfterTaking, Reloads
  <2>2. MayMake(<<one>>, queue[u][1], app[u]) /\ <<one>> \in Seq(Calls)
    BY <1>4, OneMade
  <2>3. Makes(u, <<one>>)
    BY <1>7, <2>1
  <2> QED
    BY <1>1, <1>6, <2>2, <2>3, ServesSoundly
<1>9. CASE app[u].page = "request"
  <2>1. <<one>> \o ReloadsAfterTaking(u) = <<one, two>>
    BY <1>4, <1>5, <1>9, Pair DEF ReloadsAfterTaking, Reloads
  <2> HIDE DEF two
  <2>2. BelongsTo(two, app[u]) /\ queue[u][1].kind \in RowKinds
    BY <1>1, <1>5, <1>9 DEF BelongsTo, PageKinds, TapKinds, TextKinds, RowKinds
  <2>3. MayMake(<<one, two>>, queue[u][1], app[u]) /\ <<one, two>> \in Seq(Calls)
    BY <1>4, <1>5, <2>2, TwoMade
  <2>4. Makes(u, <<one, two>>)
    BY <1>7, <2>1
  <2> QED
    BY <1>1, <1>6, <2>3, <2>4, ServesSoundly
<1> QED
  BY <1>8, <1>9

LEMMA PutRequestIsSound ==
  ASSUME TypeInv, NEW u \in Users, PutRequest(u)
  PROVE  TypeInv'
<1>1. /\ queue[u] # <<>> /\ app[u] \in Screens /\ Head(queue[u]) = queue[u][1]
      /\ Knows1(queue[u][1], app[u]) /\ queue[u][1].kind = "putRequest"
  BY HeadIsFirst DEF PutRequest
<1>2. Makes(u, <<>>) /\ app' = [app EXCEPT ![u] = app[u]] /\ MayShow(app[u], queue[u][1], app[u])
  BY DEF PutRequest, TypeInv, MayShow
<1>3. queue[u][1].who \in Users /\ queue[u][1].list \in Seq(Users)
  BY <1>1 DEF Knows1, PutKinds
<1>4. DataTyped'
  BY <1>1, <1>3 DEF PutRequest, TypeInv, DataTyped, observed
<1> QED
  BY <1>1, <1>2, <1>4, NothingMade, ServesSoundly

LEMMA PutFriendsIsSound ==
  ASSUME TypeInv, NEW u \in Users, PutFriends(u)
  PROVE  TypeInv'
<1>1. /\ queue[u] # <<>> /\ app[u] \in Screens /\ Head(queue[u]) = queue[u][1]
      /\ Knows1(queue[u][1], app[u]) /\ queue[u][1].kind = "putFriends" /\ queue[u][1] \in Calls
  BY HeadIsFirst DEF PutFriends
<1>2. Makes(u, <<>>) /\ app' = [app EXCEPT ![u] = app[u]] /\ MayShow(app[u], queue[u][1], app[u])
  BY DEF PutFriends, TypeInv, MayShow
<1>3. queue[u][1].who \in Users /\ queue[u][1].list \in Seq(Texts)
  BY <1>1 DEF Knows1, PutKinds, Calls
<1>4. DataTyped'
  BY <1>1, <1>3 DEF PutFriends, TypeInv, DataTyped, observed
<1> QED
  BY <1>1, <1>2, <1>4, NothingMade, ServesSoundly

\* A page is touched.
LEMMA TouchesSoundly ==
  ASSUME TypeInv, DataTyped', NEW u \in Users, NEW calls \in Seq(Calls), NEW b \in Screens,
         \A i \in 1..Len(queue[u]) : queue[u][i].kind \notin TapKinds,
         MaySend(calls, b),
         \A i \in 1..Len(queue[u]), j \in 1..Len(calls) :
           calls[j].kind \in RowKinds => queue[u][i].kind \notin RowKinds,
         b.page = app[u].page, b.rows = app[u].rows,
         b.text = app[u].text \/ b.text # None,
         b.submit => app[u].submit, b.enabled => app[u].enabled,
         queue' = [queue EXCEPT ![u] = queue[u] \o calls], app' = [app EXCEPT ![u] = b]
  PROVE  TypeInv'
<1>1. Sound(queue[u] \o calls, b)
  BY SentSoundly DEF TypeInv
<1> QED
  BY <1>1, OneDevice DEF Turns

\* On a page, no tap that leads elsewhere is waiting.
LEMMA NoTapWaits ==
  ASSUME TypeInv, NEW u \in Users, app[u].page # "messenger"
  PROVE  \A i \in 1..Len(queue[u]) : queue[u][i].kind \notin TapKinds
  BY DEF TypeInv, Sound, Fits, BelongsTo

LEMMA OneSent ==
  ASSUME NEW c \in Calls, NEW b, Knows1(c, b), BelongsTo(c, b), c.kind # "takeRequest"
  PROVE  MaySend(<<c>>, b) /\ <<c>> \in Seq(Calls) /\ \A j \in 1..Len(<<c>>) : <<c>>[j] = c
<1> DEFINE calls == <<c>>
<1>1. calls \in Seq(Calls) /\ Len(calls) = 1 /\ calls[1] = c
  OBVIOUS
<1> HIDE DEF calls
<1>2. \A j \in 1..Len(calls) : j = 1 /\ calls[j] = c
  BY <1>1
<1>3. MaySend(calls, b)
  BY <1>2 DEF MaySend, InOrder
<1> QED
  BY <1>1, <1>2, <1>3 DEF calls

LEMMA TwoSent ==
  ASSUME NEW c \in Calls, NEW d \in Calls, NEW b,
         Knows1(c, b), BelongsTo(c, b), Knows1(d, b), BelongsTo(d, b),
         \/ c.kind = "ask" /\ d.kind = "addAsked"
         \/ c.kind = "takeRequest" /\ d.kind = "takeFriend"
  PROVE  /\ MaySend(<<c, d>>, b) /\ <<c, d>> \in Seq(Calls)
         /\ \A j \in 1..Len(<<c, d>>) : <<c, d>>[j] = c \/ <<c, d>>[j] = d
<1> DEFINE calls == <<c, d>>
<1>1. calls \in Seq(Calls) /\ Len(calls) = 2 /\ calls[1] = c /\ calls[2] = d
  OBVIOUS
<1> HIDE DEF calls
<1>2. \A j \in 1..Len(calls) : (j = 1 /\ calls[j] = c) \/ (j = 2 /\ calls[j] = d)
  BY <1>1
<1>3. InOrder(calls)
  BY <1>1, <1>2 DEF InOrder, TapKinds, RowKinds
<1>4. MaySend(calls, b)
  BY <1>2, <1>3 DEF MaySend
<1> QED
  BY <1>1, <1>2, <1>4 DEF calls

LEMMA TapIsSound ==
  ASSUME TypeInv, NEW u \in Users, NEW kind \in TapKinds, Tap(u, kind)
  PROVE  TypeInv'
<1> DEFINE c == Call(kind)
<1>1. c \in Calls /\ c.kind = kind
  BY CallIsCall
<1>2. app[u] \in Screens /\ queue[u] \in Seq(Calls) /\ app[u].page = "messenger"
  BY DEF Tap, TypeInv, Sound
<1>3. \A i \in 1..Len(queue[u]) : queue[u][i].kind \notin TapKinds
  BY <1>2 DEF Tap
<1>4. Knows1(c, app[u]) /\ BelongsTo(c, app[u])
  BY <1>1, <1>2 DEF Knows1, BelongsTo, PutKinds, PageKinds, TapKinds, TextKinds, RowKinds
<1>5. c.kind \notin RowKinds /\ c.kind # "takeRequest"
  BY <1>1 DEF TapKinds, RowKinds
<1>6. /\ queue' = [queue EXCEPT ![u] = queue[u] \o <<c>>] /\ app' = [app EXCEPT ![u] = app[u]]
      /\ DataTyped'
  BY DEF Tap, Sends, TypeInv, DataTyped, database, observed
<1> HIDE DEF c
<1>7. MaySend(<<c>>, app[u]) /\ <<c>> \in Seq(Calls) /\ \A j \in 1..Len(<<c>>) : <<c>>[j] = c
  BY <1>1, <1>4, <1>5, OneSent
<1> QED
  BY <1>2, <1>3, <1>5, <1>6, <1>7, TouchesSoundly

LEMMA BackIsSound ==
  ASSUME TypeInv, NEW u \in Users, Back(u)
  PROVE  TypeInv'
<1>1. Sound(OfKind(queue[u], TapKinds \cup EditKinds \cup PutKinds), Popped(u))
  BY PoppedSoundly DEF Back, TypeInv, Popped
<1>2. DataTyped' /\ Turns(u, OfKind(queue[u], TapKinds \cup EditKinds \cup PutKinds), Popped(u))
  BY DEF Back, TypeInv, DataTyped, Turns, database, observed
<1> QED
  BY <1>1, <1>2, OneDevice

LEMMA SearchIsSound ==
  ASSUME TypeInv, NEW u \in Users, NEW x \in Texts, Search(u, x)
  PROVE  TypeInv'
<1> DEFINE c == Call("find")
           b == [app[u] EXCEPT !.text = x, !.submit = FALSE]
<1>1. c \in Calls /\ c.kind = "find"
  BY CallIsCall DEF PageKinds
<1>2. app[u] \in Screens /\ app[u].page = "add" /\ x # None
  BY NoneIsNoUser, OtherTextsAreNotUsers DEF Search, TypeInv, Sound, Texts, None
<1>3. /\ b \in Screens /\ b.page = "add" /\ b.rows = app[u].rows /\ b.text = x
      /\ ~b.submit /\ b.enabled = app[u].enabled
  BY <1>2 DEF Screens
<1>4. /\ queue' = [queue EXCEPT ![u] = queue[u] \o <<c>>] /\ app' = [app EXCEPT ![u] = b]
      /\ DataTyped'
  BY <1>2 DEF Search, Sends, TypeInv, DataTyped, database, observed, Screens
<1>5. c.kind \notin RowKinds /\ c.kind # "takeRequest"
  BY <1>1 DEF RowKinds
<1> HIDE DEF b, c
<1>6. Knows1(c, b) /\ BelongsTo(c, b)
  BY <1>1, <1>2, <1>3 DEF Knows1, BelongsTo, PutKinds, PageKinds, TapKinds, TextKinds, RowKinds
<1>7. MaySend(<<c>>, b) /\ <<c>> \in Seq(Calls) /\ \A j \in 1..Len(<<c>>) : <<c>>[j] = c
  BY <1>1, <1>5, <1>6, OneSent
<1>8. \A i \in 1..Len(queue[u]) : queue[u][i].kind \notin TapKinds
  BY <1>2, NoTapWaits
<1> QED
  BY <1>2, <1>3, <1>4, <1>5, <1>7, <1>8, TouchesSoundly

\* A touch that makes no calls.
LEMMA ShowsSoundly ==
  ASSUME TypeInv, DataTyped', NEW u \in Users, NEW b \in Screens,
         b.page = app[u].page, b.rows = app[u].rows,
         b.text = app[u].text \/ b.text # None,
         b.submit => app[u].submit, b.enabled = app[u].enabled,
         app' = [app EXCEPT ![u] = b], UNCHANGED queue
  PROVE  TypeInv'
<1>1. Fits(queue[u], b)
  BY DEF TypeInv, Sound, Fits, Knows1, BelongsTo
<1>2. Sound(queue[u], b)
  BY <1>1 DEF TypeInv, Sound
<1>3. Turns(u, queue[u], b)
  BY DEF TypeInv, Turns
<1> QED
  BY <1>2, <1>3, OneDevice

LEMMA EditTextIsSound ==
  ASSUME TypeInv, NEW u \in Users, NEW x \in Texts, EditText(u, x)
  PROVE  TypeInv'
<1> DEFINE b == [app[u] EXCEPT !.text = x]
<1>1. app[u] \in Screens /\ x # None
  BY NoneIsNoUser, OtherTextsAreNotUsers DEF TypeInv, Sound, Texts, None
<1>2. /\ b \in Screens /\ b.page = app[u].page /\ b.rows = app[u].rows /\ b.text = x
      /\ b.submit = app[u].submit /\ b.enabled = app[u].enabled
  BY <1>1 DEF Screens
<1>3. DataTyped' /\ app' = [app EXCEPT ![u] = b] /\ UNCHANGED queue
  BY DEF EditText, TypeInv, DataTyped, database, observed
<1> HIDE DEF b
<1> QED
  BY <1>1, <1>2, <1>3, ShowsSoundly

LEMMA DoneIsSound ==
  ASSUME TypeInv, NEW u \in Users, Done(u)
  PROVE  TypeInv'
<1> DEFINE b == [app[u] EXCEPT !.alert = FALSE, !.submit = FALSE]
<1>1. app[u] \in Screens
  BY DEF TypeInv, Sound
<1>2. /\ b \in Screens /\ b.page = app[u].page /\ b.rows = app[u].rows /\ b.text = app[u].text
      /\ ~b.submit /\ b.enabled = app[u].enabled
  BY <1>1 DEF Screens
<1>3. DataTyped' /\ app' = [app EXCEPT ![u] = b] /\ UNCHANGED queue
  BY <1>1 DEF Done, TypeInv, DataTyped, database, observed, Screens
<1> HIDE DEF b
<1> QED
  BY <1>1, <1>2, <1>3, ShowsSoundly

LEMMA SubmitIsSound ==
  ASSUME TypeInv, NEW u \in Users, Submit(u)
  PROVE  TypeInv'
<1> DEFINE c == Call("ask")
           d == Call("addAsked")
           b == [app[u] EXCEPT !.alert = TRUE]
<1>1. c \in Calls /\ c.kind = "ask" /\ d \in Calls /\ d.kind = "addAsked"
  BY CallIsCall DEF EditKinds
<1>2. app[u] \in Screens /\ app[u].page = "add" /\ app[u].text # None
  BY DEF Submit, TypeInv, Sound, Fits
<1>3. /\ b \in Screens /\ b.page = "add" /\ b.rows = app[u].rows /\ b.text = app[u].text
      /\ b.submit = app[u].submit /\ b.enabled = app[u].enabled
  BY <1>2 DEF Screens
<1>4. /\ queue' = [queue EXCEPT ![u] = queue[u] \o <<c, d>>] /\ app' = [app EXCEPT ![u] = b]
      /\ DataTyped'
  BY DEF Submit, SubmitCalls, Sends, TypeInv, DataTyped, database, observed
<1> HIDE DEF b, c, d
<1>5. Knows1(c, b) /\ BelongsTo(c, b) /\ Knows1(d, b) /\ BelongsTo(d, b)
  BY <1>1, <1>2, <1>3 DEF Knows1, BelongsTo, PutKinds, PageKinds, TapKinds, TextKinds, RowKinds
<1>6. /\ MaySend(<<c, d>>, b) /\ <<c, d>> \in Seq(Calls)
      /\ \A j \in 1..Len(<<c, d>>) : <<c, d>>[j] = c \/ <<c, d>>[j] = d
  BY <1>1, <1>5, TwoSent
<1>7. \A i \in 1..Len(queue[u]) : queue[u][i].kind \notin TapKinds
  BY <1>2, NoTapWaits
<1>8. \A j \in 1..Len(<<c, d>>) : <<c, d>>[j].kind \notin RowKinds
  BY <1>1, <1>6 DEF RowKinds
<1> QED
  BY <1>2, <1>3, <1>4, <1>6, <1>7, <1>8, TouchesSoundly

LEMMA AddReqIsSound ==
  ASSUME TypeInv, NEW u \in Users, NEW i \in DOMAIN app[u].rows, AddReq(u, i)
  PROVE  TypeInv'
<1> DEFINE c == [Call("takeRequest") EXCEPT !.row = i]
           d == [Call("takeFriend") EXCEPT !.row = i]
           b == [app[u] EXCEPT !.enabled = FALSE]
<1>1. app[u] \in Screens /\ app[u].page = "request" /\ app[u].enabled /\ i \in Nat
  BY DEF AddReq, TypeInv, Sound, Screens
<1>2. /\ c \in Calls /\ c.kind = "takeRequest" /\ c.row = i
      /\ d \in Calls /\ d.kind = "takeFriend" /\ d.row = i
  BY <1>1, CallWithRow DEF EditKinds
<1>3. /\ b \in Screens /\ b.page = "request" /\ b.rows = app[u].rows /\ b.text = app[u].text
      /\ b.submit = app[u].submit /\ ~b.enabled
  BY <1>1 DEF Screens
<1>4. /\ queue' = [queue EXCEPT ![u] = queue[u] \o <<c, d>>] /\ app' = [app EXCEPT ![u] = b]
      /\ DataTyped'
  BY DEF AddReq, Sends, TypeInv, DataTyped, database, observed
<1> HIDE DEF b, c, d
<1>5. Knows1(c, b) /\ BelongsTo(c, b) /\ Knows1(d, b) /\ BelongsTo(d, b)
  BY <1>1, <1>2, <1>3 DEF Knows1, BelongsTo, PutKinds, PageKinds, TapKinds, TextKinds, RowKinds
<1>6. MaySend(<<c, d>>, b) /\ <<c, d>> \in Seq(Calls)
  BY <1>2, <1>5, TwoSent
<1>7. \A k \in 1..Len(queue[u]) : queue[u][k].kind \notin TapKinds /\ queue[u][k].kind \notin RowKinds
  BY <1>1, NoTapWaits DEF TypeInv, Sound, Fits, BelongsTo
<1> QED
  BY <1>1, <1>3, <1>4, <1>6, <1>7, TouchesSoundly

LEMMA RemoveReqIsSound ==
  ASSUME TypeInv, NEW u \in Users, NEW i \in DOMAIN app[u].rows, RemoveReq(u, i)
  PROVE  TypeInv'
<1> DEFINE c == [Call("dropRequest") EXCEPT !.row = i]
           b == [app[u] EXCEPT !.enabled = FALSE]
<1>1. app[u] \in Screens /\ app[u].page = "request" /\ app[u].enabled /\ i \in Nat
  BY DEF RemoveReq, TypeInv, Sound, Screens
<1>2. c \in Calls /\ c.kind = "dropRequest" /\ c.row = i
  BY <1>1, CallWithRow DEF EditKinds
<1>3. /\ b \in Screens /\ b.page = "request" /\ b.rows = app[u].rows /\ b.text = app[u].text
      /\ b.submit = app[u].submit /\ ~b.enabled
  BY <1>1 DEF Screens
<1>4. /\ queue' = [queue EXCEPT ![u] = queue[u] \o <<c>>] /\ app' = [app EXCEPT ![u] = b]
      /\ DataTyped'
  BY DEF RemoveReq, Sends, TypeInv, DataTyped, database, observed
<1> HIDE DEF b, c
<1>5. Knows1(c, b) /\ BelongsTo(c, b)
  BY <1>1, <1>2, <1>3 DEF Knows1, BelongsTo, PutKinds, PageKinds, TapKinds, TextKinds, RowKinds
<1>6. MaySend(<<c>>, b) /\ <<c>> \in Seq(Calls)
  BY <1>2, <1>5, OneSent
<1>7. \A k \in 1..Len(queue[u]) : queue[u][k].kind \notin TapKinds /\ queue[u][k].kind \notin RowKinds
  BY <1>1, NoTapWaits DEF TypeInv, Sound, Fits, BelongsTo
<1> QED
  BY <1>1, <1>3, <1>4, <1>6, <1>7, TouchesSoundly

LEMMA NextIsSound == TypeInv /\ [Next]_vars => TypeInv'
<1> SUFFICES ASSUME TypeInv, [Next]_vars PROVE TypeInv'
  OBVIOUS
<1>1. CASE UNCHANGED vars
  BY <1>1 DEF vars, TypeInv, DataTyped
<1>2. ASSUME NEW u \in Users, Person(u) PROVE TypeInv'
  <2>1. ASSUME NEW kind \in TapKinds, Tap(u, kind) PROVE TypeInv'
    BY <2>1, TapIsSound
  <2>2. ASSUME NEW x \in Texts, Search(u, x) \/ EditText(u, x) PROVE TypeInv'
    BY <2>2, SearchIsSound, EditTextIsSound
  <2>3. ASSUME NEW i \in DOMAIN app[u].rows, AddReq(u, i) \/ RemoveReq(u, i) PROVE TypeInv'
    BY <2>3, AddReqIsSound, RemoveReqIsSound
  <2> QED
    BY <1>2, <2>1, <2>2, <2>3, BackIsSound, SubmitIsSound, DoneIsSound DEF Person
<1>3. ASSUME NEW u \in Users, Serve(u) PROVE TypeInv'
  BY <1>3, OpenAddIsSound, LoadAddIsSound, FindIsSound, CheckFriendsIsSound, CheckRequestsIsSound,
     AskIsSound, AddAskedIsSound, OpenRequestsIsSound, LoadNameIsSound, LoadListIsSound,
     LoadNamesIsSound, TakeRequestIsSound, TakeFriendIsSound, DropRequestIsSound,
     PutRequestIsSound, PutFriendsIsSound DEF Serve
<1>4. ASSUME NEW u \in Users, Die(u) PROVE TypeInv'
  <2>1. DataTyped'
    BY <1>4 DEF Die, TypeInv, DataTyped, database, observed
  <2> QED
    BY <1>4, <2>1, RestartsSoundly DEF Die
<1> QED
  BY <1>1, <1>2, <1>3, <1>4 DEF Next

LEMMA TypesStay == Spec => []TypeInv
  BY InitIsSound, NextIsSound, PTL DEF Spec

\* Every call of a device finds the page it was made for, its row on it and the
\* text in it, whatever is touched, popped or stopped meanwhile: the two reads
\* of an accepted request never meet rows that were loaded after it.
THEOREM CallsKeepTheirPage == Spec => []TypeOK
  BY TypesStay, TypeInvImpliesTypeOK, PTL

-----------------------------------------------------------------------------
(* Careful people touch the screen when nothing they started is pending, so *)
(* that a device is in one of the stages of what was tapped last.          *)

Alone == {"openAdd", "openRequests", "loadAdd", "find", "checkRequests", "putFriends",
          "loadName", "loadList", "loadNames", "dropRequest", "putRequest"}

Pairs == {<<"checkFriends", "checkRequests">>,
          <<"ask", "addAsked">>, <<"addAsked", "putRequest">>, <<"putRequest", "putFriends">>,
          <<"takeRequest", "takeFriend">>, <<"takeFriend", "putRequest">>,
          <<"putFriends", "loadList">>, <<"putRequest", "loadList">>}

IsStage(q) ==
  \/ q = <<>>
  \/ Len(q) = 1 /\ q[1].kind \in Alone
  \/ Len(q) = 2 /\ <<q[1].kind, q[2].kind>> \in Pairs
  \/ /\ Len(q) = 3 /\ q[1].kind = "putRequest"
     /\ q[2].kind = "putFriends" /\ q[3].kind = "loadList"

\* A list of friends f under way to the database is longer than the one there.
MoreFriends(u, q, f) ==
  \A i \in 1..Len(q) : q[i].kind = "putFriends" => q[i].who = u /\ IsPrefix(f, q[i].list)

\* The text on the page is somebody who is not among the friends f.
New(a, f) == a.text \in Users /\ a.text \notin Range(f)

\* "Submit" is there for somebody new only, and so is what follows it; s holds
\* who has asked whom.
AsksNew(u, q, a, f, s) ==
  /\ a.submit => a.page = "add" /\ (a.alert \/ (q = <<>> /\ New(a, f)))
  /\ q # <<>> =>
       /\ q[1].kind \in {"checkFriends", "checkRequests"} => ~a.submit /\ a.text \in Users
       /\ q[1].kind = "checkRequests" /\ a.flag => New(a, f)
       /\ q[1].kind = "ask" => New(a, f)
       /\ q[1].kind = "addAsked" => a.text \in Users /\ <<u, a.text>> \in s

Waits(u, q, a, f, s) == IsStage(q) /\ MoreFriends(u, q, f) /\ AsksNew(u, q, a, f, s)

CarefulInv == \A u \in Users : Waits(u, queue[u], app[u], friends[u], asked)

\* What is behind the first call, by that call.
LEMMA StageBehind ==
  ASSUME NEW q \in Seq(Calls), IsStage(q), q # <<>>
  PROVE  /\ Len(q) \in {1, 2, 3}
         /\ q[1].kind \in {"openAdd", "openRequests", "loadAdd", "find", "checkRequests",
                           "loadName", "loadList", "loadNames", "dropRequest"} => Len(q) = 1
         /\ q[1].kind \in {"checkFriends", "ask", "addAsked", "takeRequest", "takeFriend"}
              => Len(q) = 2
         /\ q[1].kind = "checkFriends" => q[2].kind = "checkRequests"
         /\ q[1].kind = "ask" => q[2].kind = "addAsked"
         /\ q[1].kind \in {"addAsked", "takeFriend"} => q[2].kind = "putRequest"
         /\ q[1].kind = "takeRequest" => q[2].kind = "takeFriend"
         /\ q[1].kind = "putFriends" =>
              Len(q) = 1 \/ (Len(q) = 2 /\ q[2].kind = "loadList")
         /\ q[1].kind = "putRequest" =>
              \/ Len(q) = 1
              \/ Len(q) = 2 /\ q[2].kind \in {"putFriends", "loadList"}
              \/ Len(q) = 3 /\ q[2].kind = "putFriends" /\ q[3].kind = "loadList"
  BY DEF IsStage, Alone, Pairs

\* What becomes of a queue of one, two or three calls.
LEMMA AfterOne ==
  ASSUME NEW q \in Seq(Calls), NEW calls \in Seq(Calls), Len(q) = 1
  PROVE  Tail(q) \o calls = calls
<1>1. q # <<>>
  <2>1. Len(q) # 0
    OBVIOUS
  <2> QED
    BY <2>1, EmptyHasNone
<1>2. Tail(q) \in Seq(Calls) /\ Len(Tail(q)) = 0
  BY <1>1, TailIsShorter
<1>3. Tail(q) = <<>>
  BY <1>2, EmptyHasNone
<1> QED
  BY <1>3, EmptyHasNone

LEMMA AfterTwo ==
  ASSUME NEW q \in Seq(Calls), NEW calls \in Seq(Calls), Len(q) = 2
  PROVE  LET r == Tail(q) \o calls IN
         /\ r \in Seq(Calls) /\ Len(r) = 1 + Len(calls) /\ r[1] = q[2]
         /\ \A i \in 1..Len(calls) : r[1 + i] = calls[i]
<1> DEFINE s == Tail(q)
<1>0. q # <<>>
  <2>1. Len(q) # 0
    OBVIOUS
  <2> QED
    BY <2>1, EmptyHasNone
<1>1. s \in Seq(Calls) /\ Len(s) = Len(q) - 1
  BY <1>0, TailIsShorter
<1>2. 1 \in 1..(Len(q) - 1)
  OBVIOUS
<1>3. s[1] = q[1 + 1]
  BY <1>0, <1>2, TailIsShorter
<1> HIDE DEF s
<1>4. /\ s \o calls \in Seq(Calls) /\ Len(s \o calls) = Len(s) + Len(calls)
      /\ \A i \in 1..Len(s) : (s \o calls)[i] = s[i]
      /\ \A i \in 1..Len(calls) : (s \o calls)[Len(s) + i] = calls[i]
  <2>1. s \in Seq(Calls)
    BY <1>1
  <2> QED
    BY <2>1, Concatenation
<1>5. 1 \in 1..Len(s) /\ Len(s) = 1
  BY <1>1
<1>6. (s \o calls)[1] = q[1 + 1]
  BY <1>3, <1>4, <1>5
<1> DEFINE r == s \o calls
<1>7. /\ r \in Seq(Calls) /\ Len(r) = 1 + Len(calls) /\ r[1] = q[1 + 1]
         /\ \A i \in 1..Len(calls) : r[1 + i] = calls[i]
  BY <1>4, <1>5, <1>6
<1> QED
  BY <1>7 DEF s

LEMMA AfterThree ==
  ASSUME NEW q \in Seq(Calls), Len(q) = 3
  PROVE  LET r == Tail(q) \o <<>> IN
         r \in Seq(Calls) /\ Len(r) = 2 /\ r[1] = q[2] /\ r[2] = q[3]
<1> DEFINE s == Tail(q)
<1>0. q # <<>>
  <2>1. Len(q) # 0
    OBVIOUS
  <2> QED
    BY <2>1, EmptyHasNone
<1>1. s \in Seq(Calls) /\ Len(s) = Len(q) - 1
  BY <1>0, TailIsShorter
<1>2. 1 \in 1..(Len(q) - 1) /\ 2 \in 1..(Len(q) - 1)
  OBVIOUS
<1>3. s[1] = q[1 + 1] /\ s[2] = q[2 + 1]
  BY <1>0, <1>2, TailIsShorter
<1> HIDE DEF s
<1>4. s \o <<>> = s
  BY <1>1, EmptyHasNone
<1> QED
  BY <1>1, <1>3, <1>4 DEF s

LEMMA LongerIsPrefix ==
  ASSUME NEW f \in Seq(Texts), NEW x \in Texts
  PROVE  IsPrefix(f, Append(f, x))
<1> DEFINE g == Append(f, x)
<1>1. g \in Seq(Texts) /\ Len(g) = Len(f) + 1 /\ \A i \in 1..Len(f) : g[i] = f[i]
  OBVIOUS
<1> HIDE DEF g
<1>2. SubSeq(f, 1, Len(f)) = SubSeq(g, 1, Len(f))
  <2>1. /\ SubSeq(f, 1, Len(f)) = [i \in 1..Len(f) |-> f[i]]
        /\ SubSeq(g, 1, Len(f)) = [i \in 1..Len(f) |-> g[i]]
    BY <1>1
  <2> QED
    BY <1>1, <2>1
<1> QED
  BY <1>1, <1>2 DEF IsPrefix, g

LEMMA PrefixOfItself ==
  ASSUME NEW f \in Seq(Texts)
  PROVE  IsPrefix(f, f)
  BY DEF IsPrefix

LEMMA PrefixHasLess ==
  ASSUME NEW f \in Seq(Texts), NEW g \in Seq(Texts), IsPrefix(f, g)
  PROVE  Range(f) \subseteq Range(g)
<1>1. Len(f) <= Len(g) /\ SubSeq(f, 1, Len(f)) = SubSeq(g, 1, Len(f))
  BY DEF IsPrefix
<1>2. /\ SubSeq(f, 1, Len(f)) = [i \in 1..Len(f) |-> f[i]]
      /\ SubSeq(g, 1, Len(f)) = [i \in 1..Len(f) |-> g[i]]
  BY <1>1
<1>3. \A i \in 1..Len(f) : f[i] = g[i] /\ i \in 1..Len(g)
  <2> SUFFICES ASSUME NEW i \in 1..Len(f) PROVE f[i] = g[i] /\ i \in 1..Len(g)
    OBVIOUS
  <2>1. [j \in 1..Len(f) |-> f[j]][i] = [j \in 1..Len(f) |-> g[j]][i]
    BY <1>1, <1>2
  <2> QED
    BY <1>1, <2>1
<1> QED
  BY <1>3 DEF Range

\* The list of one person's friends may change, and requests may be asked.
OnlyFriendsOf(u) ==
  /\ \A v \in Users : v # u => friends'[v] = friends[v]
  /\ asked \subseteq asked'

LEMMA OneWaits ==
  ASSUME TypeInv, CarefulInv, NEW u \in Users, NEW r, NEW b, Turns(u, r, b), OnlyFriendsOf(u),
         Waits(u, r, b, friends'[u], asked')
  PROVE  CarefulInv'
<1> SUFFICES ASSUME NEW v \in Users PROVE Waits(v, queue'[v], app'[v], friends'[v], asked')
  BY DEF CarefulInv
<1>1. CASE v = u
  <2>1. queue'[v] = r /\ app'[v] = b
    BY <1>1 DEF TypeInv, Turns
  <2> QED
    BY <1>1, <2>1
<1>2. CASE v # u
  <2>1. queue'[v] = queue[v] /\ app'[v] = app[v] /\ friends'[v] = friends[v]
    BY <1>2 DEF TypeInv, Turns, OnlyFriendsOf
  <2>2. Waits(v, queue[v], app[v], friends[v], asked)
    BY DEF CarefulInv
  <2> QED
    BY <2>1, <2>2 DEF Waits, AsksNew, OnlyFriendsOf
<1> QED
  BY <1>1, <1>2

LEMMA EmptyWaits ==
  ASSUME NEW u, NEW b, NEW f, NEW s, b.submit => b.page = "add" /\ (b.alert \/ New(b, f))
  PROVE  Waits(u, <<>>, b, f, s)
  BY DEF Waits, IsStage, MoreFriends, AsksNew

\* A list of friends under way.
More(u, c, f) == c.kind = "putFriends" => c.who = u /\ IsPrefix(f, c.list)

LEMMA OneCallWaits ==
  ASSUME NEW u, NEW r \in Seq(Calls), NEW b, NEW f, NEW s, Len(r) = 1,
         r[1].kind \in Alone \ {"checkRequests"}, More(u, r[1], f), b.submit => b.page = "add" /\ b.alert
  PROVE  Waits(u, r, b, f, s)
<1>1. \A i \in 1..Len(r) : i = 1
  OBVIOUS
<1>2. IsStage(r) /\ MoreFriends(u, r, f)
  BY <1>1 DEF IsStage, MoreFriends, More
<1>3. AsksNew(u, r, b, f, s)
  BY DEF AsksNew, Alone
<1> QED
  BY <1>2, <1>3 DEF Waits

LEMMA TwoCallsWait ==
  ASSUME NEW u, NEW r \in Seq(Calls), NEW b, NEW f, NEW s, Len(r) = 2,
         <<r[1].kind, r[2].kind>> \in Pairs, More(u, r[1], f), More(u, r[2], f),
         b.submit => b.page = "add" /\ b.alert,
         r[1].kind = "checkFriends" => ~b.submit /\ b.text \in Users,
         r[1].kind = "ask" => New(b, f),
         r[1].kind = "addAsked" => b.text \in Users /\ <<u, b.text>> \in s
  PROVE  Waits(u, r, b, f, s)
<1>1. \A i \in 1..Len(r) : i = 1 \/ i = 2
  OBVIOUS
<1>2. IsStage(r) /\ MoreFriends(u, r, f)
  BY <1>1 DEF IsStage, MoreFriends, More
<1>3. AsksNew(u, r, b, f, s)
  <2>1. r[1].kind # "checkRequests"
    BY DEF Pairs
  <2> QED
    BY <2>1 DEF AsksNew
<1> QED
  BY <1>2, <1>3 DEF Waits

\* The head of the queue, what is behind it, and what the page says.
LEMMA HeadWaits ==
  ASSUME TypeInv, CarefulInv, NEW u \in Users, NEW kind, Next1(u, kind)
  PROVE  /\ queue[u] \in Seq(Calls) /\ app[u] \in Screens /\ queue[u] # <<>>
         /\ queue[u][1].kind = kind /\ Head(queue[u]) = queue[u][1]
         /\ IsStage(queue[u]) /\ Len(queue[u]) \in {1, 2, 3}
         /\ MoreFriends(u, queue[u], friends[u])
         /\ \A i \in 1..Len(queue[u]) : More(u, queue[u][i], friends[u])
         /\ app[u].submit => app[u].page = "add" /\ app[u].alert
         /\ AsksNew(u, queue[u], app[u], friends[u], asked)
<1>1. /\ queue[u] \in Seq(Calls) /\ app[u] \in Screens /\ queue[u] # <<>>
      /\ queue[u][1].kind = kind /\ Head(queue[u]) = queue[u][1]
  BY HeadIsFirst
<1>2. /\ IsStage(queue[u]) /\ MoreFriends(u, queue[u], friends[u])
      /\ AsksNew(u, queue[u], app[u], friends[u], asked)
  BY DEF CarefulInv, Waits
<1> QED
  BY <1>1, <1>2, StageBehind DEF MoreFriends, More, AsksNew

\* The only call is dealt with, and calls come in its place.
LEMMA ServesAlone ==
  ASSUME TypeInv, CarefulInv, NEW u \in Users, NEW kind, Next1(u, kind),
         kind \in {"openAdd", "openRequests", "loadAdd", "find", "checkRequests",
                   "loadName", "loadList", "loadNames", "dropRequest"},
         NEW calls \in Seq(Calls), NEW b, Makes(u, calls), app' = [app EXCEPT ![u] = b],
         OnlyFriendsOf(u), Waits(u, calls, b, friends'[u], asked')
  PROVE  CarefulInv' /\ queue'[u] = calls
<1>1. queue[u] \in Seq(Calls) /\ Len(queue[u]) = 1
  BY HeadWaits, StageBehind
<1>2. Tail(queue[u]) \o calls = calls
  BY <1>1, AfterOne
<1>3. Turns(u, calls, b) /\ queue'[u] = calls
  BY <1>2 DEF Makes, Turns, TypeInv
<1> QED
  BY <1>3, OneWaits

\* The first of two calls is dealt with; the other one waits, and new ones.
LEMMA ServesOfTwo ==
  ASSUME TypeInv, CarefulInv, NEW u \in Users, NEW kind, Next1(u, kind), Len(queue[u]) = 2,
         NEW calls \in Seq(Calls), NEW b, Makes(u, calls), app' = [app EXCEPT ![u] = b],
         OnlyFriendsOf(u),
         ASSUME NEW r \in Seq(Calls), Len(r) = 1 + Len(calls), r[1] = queue[u][2],
                \A i \in 1..Len(calls) : r[1 + i] = calls[i]
         PROVE  Waits(u, r, b, friends'[u], asked')
  PROVE  /\ CarefulInv' /\ queue'[u] \in Seq(Calls)
         /\ Len(queue'[u]) = 1 + Len(calls) /\ queue'[u][1] = queue[u][2]
         /\ \A i \in 1..Len(calls) : queue'[u][1 + i] = calls[i]
<1> DEFINE r == Tail(queue[u]) \o calls
<1>1. /\ r \in Seq(Calls) /\ Len(r) = 1 + Len(calls) /\ r[1] = queue[u][2]
      /\ \A i \in 1..Len(calls) : r[1 + i] = calls[i]
  <2>1. queue[u] \in Seq(Calls)
    BY HeadWaits
  <2> QED
    BY <2>1, AfterTwo
<1>2. Turns(u, r, b) /\ queue'[u] = r
  BY DEF Makes, Turns, TypeInv
<1> HIDE DEF r
<1>3. Waits(u, r, b, friends'[u], asked')
  BY <1>1
<1> QED
  BY <1>1, <1>2, <1>3, OneWaits

LEMMA RestartWaits ==
  ASSUME TypeInv, CarefulInv, NEW u \in Users, Restart(u), OnlyFriendsOf(u)
  PROVE  CarefulInv' /\ queue'[u] = <<>> /\ app'[u] = Home
<1>1. Turns(u, <<>>, Home) /\ queue'[u] = <<>> /\ app'[u] = Home
  BY DEF Restart, Turns, TypeInv
<1>2. Waits(u, <<>>, Home, friends'[u], asked')
  BY EmptyWaits DEF Home
<1> QED
  BY <1>1, <1>2, OneWaits

-----------------------------------------------------------------------------
(* Steps that write no list and send none.                                 *)

PlainHeads == {"openAdd", "openRequests", "loadAdd", "find", "checkFriends", "checkRequests",
               "ask", "takeRequest", "dropRequest", "loadName", "loadList", "loadNames"}

Plain(q) == q = <<>> \/ q[1].kind \in PlainHeads

\* A plain step of u, after which its queue is plain again.
PlainStep(u) ==
  /\ Plain(queue[u]) /\ Plain(queue'[u])
  /\ UNCHANGED <<request, friends, asked>>
  /\ Range(app'[u].rows) \subseteq Range(app[u].rows) \cup Range(request[u])
  /\ \A v \in Users : v # u => queue'[v] = queue[v] /\ app'[v] = app[v]

LEMMA RestartIsPlain ==
  ASSUME TypeInv, CarefulInv, NEW u \in Users, Restart(u), UNCHANGED <<request, friends, asked>>,
         Plain(queue[u])
  PROVE  CarefulInv' /\ PlainStep(u)
<1>1. CarefulInv' /\ queue'[u] = <<>> /\ app'[u] = Home
  BY RestartWaits DEF OnlyFriendsOf
<1>2. Range(app'[u].rows) = {}
  BY <1>1 DEF Home, Range
<1> QED
  BY <1>1, <1>2 DEF PlainStep, Plain, Restart, TypeInv

LEMMA OpenAddIsPlain ==
  ASSUME TypeInv, CarefulInv, NEW u \in Users, OpenAdd(u)
  PROVE  CarefulInv' /\ PlainStep(u)
<1> DEFINE b == [Home EXCEPT !.page = "add"]
           c == Call("loadAdd")
<1>1. /\ Next1(u, "openAdd") /\ app[u] \in Screens
      /\ Makes(u, <<c>>) /\ app' = [app EXCEPT ![u] = b]
  BY DEF OpenAdd, TypeInv, Sound, Screens
<1>2. /\ app[u].submit => app[u].page = "add" /\ app[u].alert
      /\ queue[u][1].kind = "openAdd" /\ AsksNew(u, queue[u], app[u], friends[u], asked)
      /\ queue[u] # <<>> /\ BelongsTo(queue[u][1], app[u])
  BY <1>1, HeadWaits, HeadIsFirst
<1>3. OnlyFriendsOf(u) /\ UNCHANGED <<request, friends, asked>> /\ app'[u] = b
  BY <1>1 DEF OpenAdd, OnlyFriendsOf, database, observed, TypeInv
<1>4. c \in Calls /\ c.kind = "loadAdd"
  BY CallIsCall DEF PageKinds
<1>5. b.submit => b.page = "add" /\ b.alert
  BY <1>1, <1>2 DEF Screens, Home
<1>6. Range(b.rows) \subseteq Range(app[u].rows) \cup Range(request[u])
  BY <1>1 DEF Screens, Home, Range
<1> HIDE DEF b, c
<1>7. <<c>> \in Seq(Calls) /\ Len(<<c>>) = 1 /\ <<c>>[1] = c
  BY <1>4
<1>8. Waits(u, <<c>>, b, friends'[u], asked')
  BY <1>4, <1>5, <1>7, OneCallWaits DEF Alone, More
<1>9. CarefulInv' /\ queue'[u] = <<c>>
  BY <1>1, <1>3, <1>7, <1>8, ServesAlone
<1> QED
  BY <1>1, <1>2, <1>3, <1>4, <1>6, <1>7, <1>9 DEF PlainStep, Plain, PlainHeads, Makes, TypeInv

LEMMA OpenRequestsIsPlain ==
  ASSUME TypeInv, CarefulInv, NEW u \in Users, OpenRequests(u)
  PROVE  CarefulInv' /\ PlainStep(u)
<1> DEFINE b == [Home EXCEPT !.page = "request"]
           c == Call("loadName")
<1>1. /\ Next1(u, "openRequests") /\ app[u] \in Screens
      /\ Makes(u, <<c>>) /\ app' = [app EXCEPT ![u] = b]
  BY DEF OpenRequests, TypeInv, Sound, Screens
<1>2. /\ app[u].submit => app[u].page = "add" /\ app[u].alert
      /\ queue[u][1].kind = "openRequests" /\ AsksNew(u, queue[u], app[u], friends[u], asked)
      /\ queue[u] # <<>> /\ BelongsTo(queue[u][1], app[u])
  BY <1>1, HeadWaits, HeadIsFirst
<1>3. OnlyFriendsOf(u) /\ UNCHANGED <<request, friends, asked>> /\ app'[u] = b
  BY <1>1 DEF OpenRequests, OnlyFriendsOf, database, observed, TypeInv
<1>4. c \in Calls /\ c.kind = "loadName"
  BY CallIsCall DEF PageKinds
<1>5. b.submit => b.page = "add" /\ b.alert
  BY <1>1, <1>2 DEF Screens, Home
<1>6. Range(b.rows) \subseteq Range(app[u].rows) \cup Range(request[u])
  BY <1>1 DEF Screens, Home, Range
<1> HIDE DEF b, c
<1>7. <<c>> \in Seq(Calls) /\ Len(<<c>>) = 1 /\ <<c>>[1] = c
  BY <1>4
<1>8. Waits(u, <<c>>, b, friends'[u], asked')
  BY <1>4, <1>5, <1>7, OneCallWaits DEF Alone, More
<1>9. CarefulInv' /\ queue'[u] = <<c>>
  BY <1>1, <1>3, <1>7, <1>8, ServesAlone
<1> QED
  BY <1>1, <1>2, <1>3, <1>4, <1>6, <1>7, <1>9 DEF PlainStep, Plain, PlainHeads, Makes, TypeInv

LEMMA LoadNameIsPlain ==
  ASSUME TypeInv, CarefulInv, NEW u \in Users, LoadName(u)
  PROVE  CarefulInv' /\ PlainStep(u)
<1> DEFINE b == app[u]
           c == Call("loadList")
<1>1. /\ Next1(u, "loadName") /\ app[u] \in Screens
      /\ Makes(u, <<c>>) /\ app' = [app EXCEPT ![u] = b]
  BY DEF LoadName, TypeInv, Sound, Screens
<1>2. /\ app[u].submit => app[u].page = "add" /\ app[u].alert
      /\ queue[u][1].kind = "loadName" /\ AsksNew(u, queue[u], app[u], friends[u], asked)
      /\ queue[u] # <<>> /\ BelongsTo(queue[u][1], app[u])
  BY <1>1, HeadWaits, HeadIsFirst
<1>3. OnlyFriendsOf(u) /\ UNCHANGED <<request, friends, asked>> /\ app'[u] = b
  BY <1>1 DEF LoadName, OnlyFriendsOf, database, observed, TypeInv
<1>4. c \in Calls /\ c.kind = "loadList"
  BY CallIsCall DEF PageKinds
<1>5. b.submit => b.page = "add" /\ b.alert
  BY <1>1, <1>2 DEF Screens, Home
<1>6. Range(b.rows) \subseteq Range(app[u].rows) \cup Range(request[u])
  BY <1>1 DEF Screens, Home, Range
<1> HIDE DEF b, c
<1>7. <<c>> \in Seq(Calls) /\ Len(<<c>>) = 1 /\ <<c>>[1] = c
  BY <1>4
<1>8. Waits(u, <<c>>, b, friends'[u], asked')
  BY <1>4, <1>5, <1>7, OneCallWaits DEF Alone, More
<1>9. CarefulInv' /\ queue'[u] = <<c>>
  BY <1>1, <1>3, <1>7, <1>8, ServesAlone
<1> QED
  BY <1>1, <1>2, <1>3, <1>4, <1>6, <1>7, <1>9 DEF PlainStep, Plain, PlainHeads, Makes, TypeInv

LEMMA LoadListIsPlain ==
  ASSUME TypeInv, CarefulInv, NEW u \in Users, LoadList(u)
  PROVE  CarefulInv' /\ PlainStep(u)
<1> DEFINE b == [app[u] EXCEPT !.rows = request[u]]
           c == Call("loadNames")
<1>1. /\ Next1(u, "loadList") /\ app[u] \in Screens
      /\ Makes(u, <<c>>) /\ app' = [app EXCEPT ![u] = b]
  BY DEF LoadList, TypeInv, Sound, Screens
<1>2. /\ app[u].submit => app[u].page = "add" /\ app[u].alert
      /\ queue[u][1].kind = "loadList" /\ AsksNew(u, queue[u], app[u], friends[u], asked)
      /\ queue[u] # <<>> /\ BelongsTo(queue[u][1], app[u])
  BY <1>1, HeadWaits, HeadIsFirst
<1>3. OnlyFriendsOf(u) /\ UNCHANGED <<request, friends, asked>> /\ app'[u] = b
  BY <1>1 DEF LoadList, OnlyFriendsOf, database, observed, TypeInv
<1>4. c \in Calls /\ c.kind = "loadNames"
  BY CallIsCall DEF PageKinds
<1>5. b.submit => b.page = "add" /\ b.alert
  BY <1>1, <1>2 DEF Screens, Home
<1>6. Range(b.rows) \subseteq Range(app[u].rows) \cup Range(request[u])
  BY <1>1 DEF Screens, Home, Range
<1> HIDE DEF b, c
<1>7. <<c>> \in Seq(Calls) /\ Len(<<c>>) = 1 /\ <<c>>[1] = c
  BY <1>4
<1>8. Waits(u, <<c>>, b, friends'[u], asked')
  BY <1>4, <1>5, <1>7, OneCallWaits DEF Alone, More
<1>9. CarefulInv' /\ queue'[u] = <<c>>
  BY <1>1, <1>3, <1>7, <1>8, ServesAlone
<1> QED
  BY <1>1, <1>2, <1>3, <1>4, <1>6, <1>7, <1>9 DEF PlainStep, Plain, PlainHeads, Makes, TypeInv

LEMMA LoadAddIsPlain ==
  ASSUME TypeInv, CarefulInv, NEW u \in Users, LoadAdd(u)
  PROVE  CarefulInv' /\ PlainStep(u)
<1> DEFINE b == [app[u] EXCEPT !.enabled = TRUE]
<1>1. /\ Next1(u, "loadAdd") /\ app[u] \in Screens
      /\ Makes(u, <<>>) /\ app' = [app EXCEPT ![u] = b]
  BY DEF LoadAdd, TypeInv, Sound, Screens
<1>2. /\ app[u].submit => app[u].page = "add" /\ app[u].alert
      /\ queue[u][1].kind = "loadAdd" /\ AsksNew(u, queue[u], app[u], friends[u], asked)
      /\ queue[u] # <<>> /\ BelongsTo(queue[u][1], app[u])
  BY <1>1, HeadWaits, HeadIsFirst
<1>3. OnlyFriendsOf(u) /\ UNCHANGED <<request, friends, asked>> /\ app'[u] = b
  BY <1>1 DEF LoadAdd, OnlyFriendsOf, database, observed, TypeInv
<1>4. b.submit => b.page = "add" /\ (b.alert \/ New(b, friends'[u]))
  BY <1>1, <1>2, <1>3 DEF Screens, New
<1>5. Range(b.rows) \subseteq Range(app[u].rows) \cup Range(request[u])
  BY <1>1 DEF Screens
<1> HIDE DEF b
<1>6. Waits(u, <<>>, b, friends'[u], asked') /\ <<>> \in Seq(Calls)
  BY <1>4, EmptyWaits
<1>7. CarefulInv' /\ queue'[u] = <<>>
  BY <1>1, <1>3, <1>6, ServesAlone
<1> QED
  BY <1>1, <1>2, <1>3, <1>5, <1>7 DEF PlainStep, Plain, PlainHeads, Makes, TypeInv

LEMMA CheckRequestsIsPlain ==
  ASSUME TypeInv, CarefulInv, NEW u \in Users, CheckRequests(u)
  PROVE  CarefulInv' /\ PlainStep(u)
<1> DEFINE b == [app[u] EXCEPT !.submit = IF WasAskedBy(u) THEN FALSE
                                                ELSE app[u].flag \/ app[u].submit]
<1>1. /\ Next1(u, "checkRequests") /\ app[u] \in Screens
      /\ Makes(u, <<>>) /\ app' = [app EXCEPT ![u] = b]
  BY DEF CheckRequests, TypeInv, Sound, Screens
<1>2. /\ app[u].submit => app[u].page = "add" /\ app[u].alert
      /\ queue[u][1].kind = "checkRequests" /\ AsksNew(u, queue[u], app[u], friends[u], asked)
      /\ queue[u] # <<>> /\ BelongsTo(queue[u][1], app[u])
  BY <1>1, HeadWaits, HeadIsFirst
<1>3. OnlyFriendsOf(u) /\ UNCHANGED <<request, friends, asked>> /\ app'[u] = b
  BY <1>1 DEF CheckRequests, OnlyFriendsOf, database, observed, TypeInv
<1>4. b.submit => b.page = "add" /\ (b.alert \/ New(b, friends'[u]))
  <2> SUFFICES ASSUME b.submit PROVE b.page = "add" /\ New(b, friends'[u])
    OBVIOUS
  <2>1. b.page = app[u].page /\ b.text = app[u].text
    BY <1>1 DEF Screens
  <2>2. app[u].flag \/ app[u].submit
    BY <1>1 DEF Screens
  <2>3. New(app[u], friends[u])
    BY <1>2, <2>2 DEF AsksNew
  <2>4. app[u].page = "add"
    <3>1. queue[u][1].kind \in PageKinds \cap TextKinds
      BY <1>2 DEF PageKinds, TextKinds
    <3>2. app[u].page \in {"messenger", "add", "request"}
      BY <1>1 DEF Screens
    <3>3. app[u].page # "messenger" /\ app[u].page # "request"
      BY <1>2, <3>1 DEF BelongsTo
    <3> QED
      BY <3>2, <3>3
  <2> QED
    BY <1>3, <2>1, <2>3, <2>4 DEF New
<1>5. Range(b.rows) \subseteq Range(app[u].rows) \cup Range(request[u])
  BY <1>1 DEF Screens
<1> HIDE DEF b
<1>6. Waits(u, <<>>, b, friends'[u], asked') /\ <<>> \in Seq(Calls)
  BY <1>4, EmptyWaits
<1>7. CarefulInv' /\ queue'[u] = <<>>
  BY <1>1, <1>3, <1>6, ServesAlone
<1> QED
  BY <1>1, <1>2, <1>3, <1>5, <1>7 DEF PlainStep, Plain, PlainHeads, Makes, TypeInv

LEMMA FindIsPlain ==
  ASSUME TypeInv, CarefulInv, NEW u \in Users, Find(u)
  PROVE  CarefulInv' /\ PlainStep(u)
<1>1. Next1(u, "find") /\ UNCHANGED <<request, friends, asked>> /\ OnlyFriendsOf(u)
  BY DEF Find, OnlyFriendsOf, database, observed
<1>2. /\ queue[u] # <<>> /\ queue[u][1].kind = "find" /\ app[u] \in Screens
      /\ app[u].submit => app[u].page = "add" /\ app[u].alert
  BY <1>1, HeadWaits
<1>3. Plain(queue[u])
  BY <1>2 DEF Plain, PlainHeads
<1>4. CASE Restart(u)
  BY <1>1, <1>3, <1>4, RestartIsPlain
<1>5. CASE /\ app' = [app EXCEPT ![u].submit = FALSE]
           /\ Makes(u, <<>>)
  <2> DEFINE b == [app[u] EXCEPT !.submit = FALSE]
  <2>1. app' = [app EXCEPT ![u] = b]
    BY <1>5 DEF TypeInv
  <2>2. ~b.submit /\ b.rows = app[u].rows
    BY <1>2 DEF Screens
  <2> HIDE DEF b
  <2>3. Waits(u, <<>>, b, friends'[u], asked') /\ <<>> \in Seq(Calls)
    BY <2>2, EmptyWaits
  <2>4. CarefulInv' /\ queue'[u] = <<>>
    BY <1>1, <1>5, <2>1, <2>3, ServesAlone
  <2> QED
    BY <1>1, <1>3, <1>5, <2>1, <2>2, <2>4 DEF PlainStep, Plain, Makes, TypeInv
<1>6. CASE /\ app[u].text \in Users
           /\ app' = [app EXCEPT ![u].submit = FALSE, ![u].flag = TRUE]
           /\ Makes(u, <<[Call("checkFriends") EXCEPT !.who = app[u].text],
                         Call("checkRequests")>>)
  <2> DEFINE b == [app[u] EXCEPT !.submit = FALSE, !.flag = TRUE]
             one == [Call("checkFriends") EXCEPT !.who = app[u].text]
             two == Call("checkRequests")
             calls == <<one, two>>
  <2>1. app' = [app EXCEPT ![u] = b] /\ Makes(u, calls)
    BY <1>2, <1>6 DEF TypeInv, Screens
  <2>2. ~b.submit /\ b.rows = app[u].rows /\ b.text \in Users
    BY <1>2, <1>6 DEF Screens
  <2>3. /\ one \in Calls /\ one.kind = "checkFriends"
        /\ two \in Calls /\ two.kind = "checkRequests"
    BY <1>6, CallIsCall, CallWithName DEF PageKinds, Texts
  <2> HIDE DEF b, one, two
  <2>4. calls \in Seq(Calls) /\ Len(calls) = 2 /\ calls[1] = one /\ calls[2] = two
    BY <2>3
  <2> HIDE DEF calls
  <2>5. Waits(u, calls, b, friends'[u], asked')
    BY <2>2, <2>3, <2>4, TwoCallsWait DEF Pairs, More
  <2>6. CarefulInv' /\ queue'[u] = calls
    BY <1>1, <2>1, <2>4, <2>5, ServesAlone
  <2>7. Plain(queue'[u])
    BY <2>3, <2>4, <2>6 DEF Plain, PlainHeads
  <2> QED
    BY <1>1, <1>3, <2>1, <2>2, <2>6, <2>7 DEF PlainStep, Makes, TypeInv
<1> QED
  BY <1>4, <1>5, <1>6 DEF Find

LEMMA LoadNamesIsPlain ==
  ASSUME TypeInv, CarefulInv, NEW u \in Users, LoadNames(u)
  PROVE  CarefulInv' /\ PlainStep(u)
<1>1. Next1(u, "loadNames") /\ UNCHANGED <<request, friends, asked>> /\ OnlyFriendsOf(u)
  BY DEF LoadNames, OnlyFriendsOf, database, observed
<1>2. /\ queue[u] # <<>> /\ queue[u][1].kind = "loadNames" /\ app[u] \in Screens
      /\ app[u].submit => app[u].page = "add" /\ app[u].alert
  BY <1>1, HeadWaits
<1>3. Plain(queue[u])
  BY <1>2 DEF Plain, PlainHeads
<1>4. CASE Restart(u)
  BY <1>1, <1>3, <1>4, RestartIsPlain
<1>5. CASE Makes(u, <<>>) /\ app' = [app EXCEPT ![u].enabled = TRUE]
  <2> DEFINE b == [app[u] EXCEPT !.enabled = TRUE]
  <2>1. app' = [app EXCEPT ![u] = b]
    BY <1>5 DEF TypeInv
  <2>2. (b.submit => b.page = "add" /\ b.alert) /\ b.rows = app[u].rows
    BY <1>2 DEF Screens
  <2> HIDE DEF b
  <2>3. Waits(u, <<>>, b, friends'[u], asked') /\ <<>> \in Seq(Calls)
    BY <2>2, EmptyWaits
  <2>4. CarefulInv' /\ queue'[u] = <<>>
    BY <1>1, <1>5, <2>1, <2>3, ServesAlone
  <2> QED
    BY <1>1, <1>3, <1>5, <2>1, <2>2, <2>4 DEF PlainStep, Plain, Makes, TypeInv
<1> QED
  BY <1>4, <1>5 DEF LoadNames

LEMMA CheckFriendsIsPlain ==
  ASSUME TypeInv, CarefulInv, NEW u \in Users, CheckFriends(u)
  PROVE  CarefulInv' /\ PlainStep(u)
<1> DEFINE b == IF Knows(u, Head(queue[u]).who)
                  THEN [app[u] EXCEPT !.submit = FALSE, !.flag = FALSE] ELSE app[u]
<1>1. /\ Next1(u, "checkFriends") /\ app[u] \in Screens
      /\ Makes(u, <<>>) /\ app' = [app EXCEPT ![u] = b]
  BY DEF CheckFriends, TypeInv, Sound, Screens
<1>2. /\ queue[u] \in Seq(Calls) /\ queue[u] # <<>> /\ queue[u][1].kind = "checkFriends"
      /\ IsStage(queue[u]) /\ AsksNew(u, queue[u], app[u], friends[u], asked)
  BY <1>1, HeadWaits
<1>3. Len(queue[u]) = 2 /\ queue[u][2].kind = "checkRequests"
  BY <1>2, StageBehind
<1>4. OnlyFriendsOf(u) /\ UNCHANGED <<request, friends, asked>> /\ app'[u] = b
  BY <1>1 DEF CheckFriends, OnlyFriendsOf, database, observed, TypeInv
<1>5. ~b.submit /\ b.text \in Users /\ (b.flag => New(b, friends[u])) /\ b.rows = app[u].rows
  BY <1>1, <1>2 DEF AsksNew, Knows, New, Screens
<1> HIDE DEF b
<1>6. ASSUME NEW r \in Seq(Calls), Len(r) = 1 + Len(<<>>), r[1] = queue[u][2]
      PROVE  Waits(u, r, b, friends'[u], asked')
  <2>1. Len(r) = 1 /\ r[1].kind = "checkRequests"
    BY <1>3, <1>6
  <2>2. \A i \in 1..Len(r) : i = 1
    BY <2>1
  <2> QED
    BY <1>4, <1>5, <2>1, <2>2 DEF Waits, IsStage, Alone, MoreFriends, AsksNew, New
<1>7. <<>> \in Seq(Calls)
  OBVIOUS
<1>8. CarefulInv' /\ queue'[u] \in Seq(Calls) /\ queue'[u][1] = queue[u][2]
  BY <1>1, <1>3, <1>4, <1>6, <1>7, ServesOfTwo
<1> QED
  BY <1>1, <1>2, <1>3, <1>4, <1>5, <1>8 DEF PlainStep, Plain, PlainHeads, Makes, TypeInv

\* A touch: nothing is pending.
LEMMA TapsWait ==
  ASSUME TypeInv, CarefulInv, Careful, NEW u \in Users, Ready(u),
         NEW calls \in Seq(Calls), NEW b,
         queue' = [queue EXCEPT ![u] = queue[u] \o calls], app' = [app EXCEPT ![u] = b],
         UNCHANGED <<request, friends, asked>>,
         Waits(u, calls, b, friends[u], asked), Plain(calls),
         Range(b.rows) \subseteq Range(app[u].rows)
  PROVE  CarefulInv' /\ PlainStep(u)
<1>1. queue[u] = <<>>
  BY DEF Ready
<1>2. queue[u] \o calls = calls
  BY <1>1, EmptyHasNone
<1>3. Turns(u, calls, b) /\ OnlyFriendsOf(u)
  BY <1>2 DEF Turns, OnlyFriendsOf
<1>4. queue'[u] = calls /\ app'[u] = b
  BY <1>3 DEF Turns, TypeInv
<1>5. CarefulInv'
  BY <1>3, OneWaits
<1> QED
  BY <1>1, <1>3, <1>4, <1>5 DEF PlainStep, Plain, Turns, TypeInv

LEMMA TapIsPlain ==
  ASSUME TypeInv, CarefulInv, Careful, NEW u \in Users, NEW kind \in TapKinds, Tap(u, kind)
  PROVE  CarefulInv' /\ PlainStep(u)
<1> DEFINE c == Call(kind)
           calls == <<c>>
<1>1. c \in Calls /\ c.kind = kind
  BY CallIsCall
<1>2. /\ Ready(u) /\ queue' = [queue EXCEPT ![u] = queue[u] \o calls]
      /\ app' = [app EXCEPT ![u] = app[u]] /\ UNCHANGED <<request, friends, asked>>
  BY DEF Tap, Sends, TypeInv, database, observed
<1>3. ~app[u].submit
  BY DEF Tap, CarefulInv, Waits, AsksNew
<1> HIDE DEF c
<1>4. calls \in Seq(Calls) /\ Len(calls) = 1 /\ calls[1] = c
  BY <1>1
<1> HIDE DEF calls
<1>5. Waits(u, calls, app[u], friends[u], asked) /\ Plain(calls)
  BY <1>1, <1>3, <1>4, OneCallWaits DEF TapKinds, Alone, More, Plain, PlainHeads
<1> QED
  BY <1>2, <1>4, <1>5, TapsWait

LEMMA BackIsPlain ==
  ASSUME TypeInv, CarefulInv, Careful, NEW u \in Users, Back(u)
  PROVE  CarefulInv' /\ PlainStep(u)
<1>1. queue[u] = <<>> /\ UNCHANGED <<request, friends, asked>>
  BY DEF Back, Ready, database, observed
<1>2. Popped(u) = Home
  BY <1>1 DEF Popped
<1>3. OfKind(<<>>, TapKinds \cup EditKinds \cup PutKinds) = <<>>
  BY NothingSelected
<1>4. Restart(u)
  BY <1>1, <1>2, <1>3 DEF Back, Restart
<1>5. Plain(queue[u])
  BY <1>1 DEF Plain
<1> QED
  BY <1>1, <1>4, <1>5, RestartIsPlain

LEMMA SearchIsPlain ==
  ASSUME TypeInv, CarefulInv, Careful, NEW u \in Users, NEW x \in Texts, Search(u, x)
  PROVE  CarefulInv' /\ PlainStep(u)
<1> DEFINE c == Call("find")
           calls == <<c>>
           b == [app[u] EXCEPT !.text = x, !.submit = FALSE]
<1>1. c \in Calls /\ c.kind = "find" /\ app[u] \in Screens
  BY CallIsCall DEF PageKinds, TypeInv, Sound
<1>2. /\ Ready(u) /\ queue' = [queue EXCEPT ![u] = queue[u] \o calls]
      /\ app' = [app EXCEPT ![u] = b] /\ UNCHANGED <<request, friends, asked>>
  BY <1>1 DEF Search, Sends, TypeInv, database, observed, Screens
<1>3. ~b.submit /\ b.rows = app[u].rows
  BY <1>1 DEF Screens
<1> HIDE DEF c, b
<1>4. calls \in Seq(Calls) /\ Len(calls) = 1 /\ calls[1] = c
  BY <1>1
<1> HIDE DEF calls
<1>5. Waits(u, calls, b, friends[u], asked) /\ Plain(calls)
  BY <1>1, <1>3, <1>4, OneCallWaits DEF Alone, More, Plain, PlainHeads
<1> QED
  BY <1>2, <1>3, <1>4, <1>5, TapsWait

LEMMA SubmitIsPlain ==
  ASSUME TypeInv, CarefulInv, Careful, NEW u \in Users, Submit(u)
  PROVE  CarefulInv' /\ PlainStep(u)
<1> DEFINE c == Call("ask")
           d == Call("addAsked")
           calls == <<c, d>>
           b == [app[u] EXCEPT !.alert = TRUE]
<1>1. c \in Calls /\ c.kind = "ask" /\ d \in Calls /\ d.kind = "addAsked" /\ app[u] \in Screens
  BY CallIsCall DEF EditKinds, TypeInv, Sound
<1>2. /\ Ready(u) /\ queue' = [queue EXCEPT ![u] = queue[u] \o calls]
      /\ app' = [app EXCEPT ![u] = b] /\ UNCHANGED <<request, friends, asked>>
  BY DEF Submit, SubmitCalls, Sends, TypeInv, database, observed
<1>3. New(app[u], friends[u])
  BY DEF Submit, Ready, CarefulInv, Waits, AsksNew
<1>4. (b.submit => b.page = "add" /\ b.alert) /\ b.rows = app[u].rows /\ New(b, friends[u])
  BY <1>1, <1>3 DEF Submit, Screens, New
<1> HIDE DEF c, d, b
<1>5. calls \in Seq(Calls) /\ Len(calls) = 2 /\ calls[1] = c /\ calls[2] = d
  BY <1>1
<1> HIDE DEF calls
<1>6. Waits(u, calls, b, friends[u], asked) /\ Plain(calls)
  BY <1>1, <1>4, <1>5, TwoCallsWait DEF Pairs, More, Plain, PlainHeads
<1> QED
  BY <1>2, <1>4, <1>5, <1>6, TapsWait

LEMMA AddReqIsPlain ==
  ASSUME TypeInv, CarefulInv, Careful, NEW u \in Users, NEW i \in DOMAIN app[u].rows, AddReq(u, i)
  PROVE  CarefulInv' /\ PlainStep(u)
<1> DEFINE c == [Call("takeRequest") EXCEPT !.row = i]
           d == [Call("takeFriend") EXCEPT !.row = i]
           calls == <<c, d>>
           b == [app[u] EXCEPT !.enabled = FALSE]
<1>1. app[u] \in Screens /\ app[u].page = "request" /\ i \in Nat
  BY DEF AddReq, TypeInv, Sound, Screens
<1>2. c \in Calls /\ c.kind = "takeRequest" /\ d \in Calls /\ d.kind = "takeFriend"
  BY <1>1, CallWithRow DEF EditKinds
<1>3. /\ Ready(u) /\ queue' = [queue EXCEPT ![u] = queue[u] \o calls]
      /\ app' = [app EXCEPT ![u] = b] /\ UNCHANGED <<request, friends, asked>>
  BY DEF AddReq, Sends, TypeInv, database, observed
<1>4. ~b.submit /\ b.rows = app[u].rows
  BY <1>1 DEF Screens, CarefulInv, Waits, AsksNew
<1> HIDE DEF c, d, b
<1>5. calls \in Seq(Calls) /\ Len(calls) = 2 /\ calls[1] = c /\ calls[2] = d
  BY <1>2
<1> HIDE DEF calls
<1>6. Waits(u, calls, b, friends[u], asked) /\ Plain(calls)
  BY <1>2, <1>4, <1>5, TwoCallsWait DEF Pairs, More, Plain, PlainHeads
<1> QED
  BY <1>3, <1>4, <1>5, <1>6, TapsWait

LEMMA RemoveReqIsPlain ==
  ASSUME TypeInv, CarefulInv, Careful, NEW u \in Users, NEW i \in DOMAIN app[u].rows, RemoveReq(u, i)
  PROVE  CarefulInv' /\ PlainStep(u)
<1> DEFINE c == [Call("dropRequest") EXCEPT !.row = i]
           calls == <<c>>
           b == [app[u] EXCEPT !.enabled = FALSE]
<1>1. app[u] \in Screens /\ app[u].page = "request" /\ i \in Nat
  BY DEF RemoveReq, TypeInv, Sound, Screens
<1>2. c \in Calls /\ c.kind = "dropRequest"
  BY <1>1, CallWithRow DEF EditKinds
<1>3. /\ Ready(u) /\ queue' = [queue EXCEPT ![u] = queue[u] \o calls]
      /\ app' = [app EXCEPT ![u] = b] /\ UNCHANGED <<request, friends, asked>>
  BY DEF RemoveReq, Sends, TypeInv, database, observed
<1>4. ~b.submit /\ b.rows = app[u].rows
  BY <1>1 DEF Screens, CarefulInv, Waits, AsksNew
<1> HIDE DEF c, b
<1>5. calls \in Seq(Calls) /\ Len(calls) = 1 /\ calls[1] = c
  BY <1>2
<1> HIDE DEF calls
<1>6. Waits(u, calls, b, friends[u], asked) /\ Plain(calls)
  BY <1>2, <1>4, <1>5, OneCallWaits DEF Alone, More, Plain, PlainHeads
<1> QED
  BY <1>3, <1>4, <1>5, <1>6, TapsWait

\* "Done" changes nothing that is pending.
IdleStep(u) ==
  /\ UNCHANGED <<request, friends, queue, asked>>
  /\ \A v \in Users : app'[v].text = app[v].text /\ app'[v].rows = app[v].rows

LEMMA DoneIsIdle ==
  ASSUME TypeInv, CarefulInv, NEW u \in Users, Done(u)
  PROVE  CarefulInv' /\ IdleStep(u)
<1> DEFINE b == [app[u] EXCEPT !.alert = FALSE, !.submit = FALSE]
<1>1. app[u] \in Screens
  BY DEF TypeInv, Sound
<1>2. /\ Turns(u, queue[u], b) /\ OnlyFriendsOf(u)
      /\ UNCHANGED <<request, friends, queue, asked>>
  BY <1>1 DEF Done, TypeInv, Turns, OnlyFriendsOf, database, observed, Screens
<1>3. ~b.submit /\ b.text = app[u].text /\ b.rows = app[u].rows /\ b.flag = app[u].flag
  BY <1>1 DEF Screens
<1>4. Waits(u, queue[u], b, friends'[u], asked')
  <2>1. Waits(u, queue[u], app[u], friends[u], asked)
    BY DEF CarefulInv
  <2> QED
    BY <1>2, <1>3, <2>1 DEF Waits, AsksNew, New
<1>5. CarefulInv'
  BY <1>2, <1>4, OneWaits
<1> QED
  BY <1>2, <1>3, <1>5 DEF IdleStep, Turns, TypeInv

-----------------------------------------------------------------------------
(* Steps that write a list or send one.                                    *)

LEMMA AskWaits ==
  ASSUME TypeInv, CarefulInv, NEW u \in Users, Ask(u)
  PROVE  LET x == app[u].text
             one == Put("putRequest", x, Append(request[x], u)) IN
         /\ CarefulInv' /\ New(app[u], friends[u]) /\ UNCHANGED <<request, friends, app>>
         /\ asked' = asked \cup {<<u, x>>} /\ Makes(u, <<one>>)
         /\ queue[u][1].kind = "ask" /\ queue'[u] # <<>> /\ queue'[u][1].kind = "addAsked"
<1> DEFINE x == app[u].text
           one == Put("putRequest", x, Append(request[x], u))
           calls == <<one>>
<1>1. /\ queue[u] \in Seq(Calls) /\ queue[u] # <<>> /\ queue[u][1].kind = "ask"
      /\ IsStage(queue[u]) /\ AsksNew(u, queue[u], app[u], friends[u], asked)
      /\ app[u].submit => app[u].page = "add" /\ app[u].alert
  BY HeadWaits DEF Ask
<1>2. Len(queue[u]) = 2 /\ queue[u][2].kind = "addAsked"
  BY <1>1, StageBehind
<1>3. New(app[u], friends[u]) /\ x \in Users
  BY <1>1 DEF AsksNew, New
<1>4. /\ UNCHANGED <<request, friends, app>> /\ Makes(u, calls)
      /\ asked' = asked \cup {<<u, x>>} /\ Next1(u, "ask")
  BY <1>3 DEF Ask, database
<1>5. one \in Calls /\ one.kind = "putRequest"
  <2>1. request[x] \in Seq(Users)
    BY <1>3 DEF TypeInv, DataTyped
  <2>2. Append(request[x], u) \in Seq(Users)
    BY <2>1
  <2>3. Append(request[x], u) \in Seq(Texts) /\ "putRequest" \in PutKinds
    BY <2>2, UsersAreTexts DEF PutKinds
  <2> DEFINE list == Append(request[x], u)
  <2>4. list \in Seq(Users) /\ list \in Seq(Texts)
    BY <2>2, <2>3
  <2> HIDE DEF list
  <2>5. Put("putRequest", x, list) \in Calls /\ Put("putRequest", x, list).kind = "putRequest"
    BY <1>3, <2>3, <2>4, PutIsQuiet
  <2> QED
    BY <2>5 DEF list
<1> HIDE DEF one
<1>6. calls \in Seq(Calls) /\ Len(calls) = 1 /\ calls[1] = one
  BY <1>5
<1> HIDE DEF calls
<1>7. ASSUME NEW r \in Seq(Calls), Len(r) = 1 + Len(calls), r[1] = queue[u][2],
             \A i \in 1..Len(calls) : r[1 + i] = calls[i]
      PROVE  Waits(u, r, app[u], friends'[u], asked')
  <2>1. Len(r) = 2 /\ r[1].kind = "addAsked" /\ r[2].kind = "putRequest"
    <3>1. 1 \in 1..Len(calls) /\ r[1 + 1] = one
      BY <1>6, <1>7
    <3> QED
      BY <1>2, <1>5, <1>6, <1>7, <3>1
  <2> QED
    BY <1>1, <1>3, <1>4, <2>1, TwoCallsWait DEF Pairs, More
<1>8. OnlyFriendsOf(u) /\ app' = [app EXCEPT ![u] = app[u]]
  BY <1>4 DEF OnlyFriendsOf, TypeInv
<1>9. CarefulInv' /\ queue'[u] \in Seq(Calls) /\ Len(queue'[u]) = 1 + Len(calls) /\ queue'[u][1] = queue[u][2]
  BY <1>2, <1>4, <1>6, <1>7, <1>8, ServesOfTwo
<1>10. queue'[u] # <<>>
  <2>1. Len(queue'[u]) # 0
    BY <1>6, <1>9
  <2> QED
    BY <1>9, <2>1, EmptyHasNone
<1> QED
  BY <1>1, <1>2, <1>3, <1>4, <1>9, <1>10 DEF calls, one

\* A longer list of friends is sent.
LEMMA FriendIsMore ==
  ASSUME TypeInv, NEW u \in Users, NEW x \in Texts
  PROVE  LET one == Put("putFriends", u, FriendsWith(u, x)) IN
         /\ one \in Calls /\ one.kind = "putFriends" /\ More(u, one, friends[u])
         /\ one.list = Append(friends[u], x)
<1>1. friends[u] \in Seq(Texts) /\ FriendsWith(u, x) \in Seq(Texts)
  BY DEF TypeInv, DataTyped, FriendsWith
<1>2. IsPrefix(friends[u], FriendsWith(u, x))
  BY <1>1, LongerIsPrefix DEF FriendsWith
<1> DEFINE one == Put("putFriends", u, FriendsWith(u, x))
<1>3. one \in Calls /\ one.kind = "putFriends" /\ one.who = u /\ one.list = FriendsWith(u, x)
  BY <1>1, PutIsQuiet DEF PutKinds
<1> HIDE DEF one
<1> QED
  BY <1>2, <1>3 DEF More, FriendsWith, one

LEMMA AddAskedWaits ==
  ASSUME TypeInv, CarefulInv, NEW u \in Users, AddAsked(u)
  PROVE  LET x == app[u].text
             one == Put("putFriends", u, FriendsWith(u, x)) IN
         /\ CarefulInv' /\ UNCHANGED <<request, friends, app, asked>> /\ Makes(u, <<one>>)
         /\ x \in Users /\ <<u, x>> \in asked
         /\ queue[u][1].kind = "addAsked" /\ queue'[u] # <<>> /\ queue'[u][1].kind = "putRequest"
<1> DEFINE x == app[u].text
           one == Put("putFriends", u, FriendsWith(u, x))
           calls == <<one>>
<1>1. /\ queue[u] \in Seq(Calls) /\ queue[u] # <<>> /\ queue[u][1].kind = "addAsked"
      /\ IsStage(queue[u]) /\ AsksNew(u, queue[u], app[u], friends[u], asked)
      /\ app[u].submit => app[u].page = "add" /\ app[u].alert
      /\ \A i \in 1..Len(queue[u]) : More(u, queue[u][i], friends[u])
  BY HeadWaits DEF AddAsked
<1>2. Len(queue[u]) = 2 /\ queue[u][2].kind = "putRequest"
  BY <1>1, StageBehind
<1>3. x \in Users /\ <<u, x>> \in asked
  BY <1>1 DEF AsksNew
<1>4. /\ UNCHANGED <<request, friends, app, asked>> /\ Makes(u, calls)
      /\ Next1(u, "addAsked")
  BY DEF AddAsked, database, observed
<1>5. one \in Calls /\ one.kind = "putFriends" /\ More(u, one, friends[u])
  BY <1>3, FriendIsMore DEF Texts
<1> HIDE DEF one
<1>6. calls \in Seq(Calls) /\ Len(calls) = 1 /\ calls[1] = one
  BY <1>5
<1> HIDE DEF calls
<1>7. ASSUME NEW r \in Seq(Calls), Len(r) = 1 + Len(calls), r[1] = queue[u][2],
             \A i \in 1..Len(calls) : r[1 + i] = calls[i]
      PROVE  Waits(u, r, app[u], friends'[u], asked')
  <2>1. Len(r) = 2 /\ r[1].kind = "putRequest" /\ r[2] = one
    <3>1. 1 \in 1..Len(calls) /\ r[1 + 1] = one
      BY <1>6, <1>7
    <3> QED
      BY <1>2, <1>5, <1>6, <1>7, <3>1
  <2> QED
    BY <1>1, <1>4, <1>5, <2>1, TwoCallsWait DEF Pairs, More
<1>8. OnlyFriendsOf(u) /\ app' = [app EXCEPT ![u] = app[u]]
  BY <1>4 DEF OnlyFriendsOf, TypeInv
<1>9. CarefulInv' /\ queue'[u] \in Seq(Calls) /\ Len(queue'[u]) = 1 + Len(calls) /\ queue'[u][1] = queue[u][2]
  BY <1>2, <1>4, <1>6, <1>7, <1>8, ServesOfTwo
<1>10. queue'[u] # <<>>
  <2>1. Len(queue'[u]) # 0
    BY <1>6, <1>9
  <2> QED
    BY <1>9, <2>1, EmptyHasNone
<1> QED
  BY <1>1, <1>2, <1>3, <1>4, <1>9, <1>10 DEF calls, one

\* What TakesOff writes.
LEMMA ShorterList ==
  ASSUME TypeInv, NEW u \in Users, NEW v \in Range(request[u])
  PROVE  LET one == Put("putRequest", u, RemoveFirst(request[u], v)) IN
         /\ one \in Calls /\ one.kind = "putRequest" /\ one.who = u
         /\ one.list = RemoveFirst(request[u], v)
<1>1. request[u] \in Seq(Users)
  BY DEF TypeInv, DataTyped
<1>2. RemoveFirst(request[u], v) \in Seq(Users)
  BY <1>1, TakenOff
<1> QED
  BY <1>2, UsersAreTexts, PutIsQuiet DEF PutKinds

LEMMA TakeRequestWaits ==
  ASSUME TypeInv, CarefulInv, NEW u \in Users, TakeRequest(u)
  PROVE  LET v == app[u].rows[Head(queue[u]).row]
             one == Put("putRequest", u, RemoveFirst(request[u], v)) IN
         /\ CarefulInv'
         /\ \/ PlainStep(u)
            \/ /\ UNCHANGED <<request, friends, app, asked>> /\ Makes(u, <<one>>)
               /\ v \in Range(request[u])
               /\ Plain(queue[u]) /\ queue'[u] # <<>> /\ queue'[u][1].kind = "takeFriend"
<1> DEFINE v == app[u].rows[Head(queue[u]).row]
           one == Put("putRequest", u, RemoveFirst(request[u], v))
           calls == <<one>>
<1>1. /\ queue[u] \in Seq(Calls) /\ queue[u] # <<>> /\ queue[u][1].kind = "takeRequest"
      /\ IsStage(queue[u])
      /\ app[u].submit => app[u].page = "add" /\ app[u].alert
  BY HeadWaits DEF TakeRequest
<1>2. Len(queue[u]) = 2 /\ queue[u][2].kind = "takeFriend" /\ Plain(queue[u])
  BY <1>1, StageBehind DEF Plain, PlainHeads
<1>3. UNCHANGED <<request, friends, asked>> /\ Next1(u, "takeRequest")
  BY DEF TakeRequest, database
<1>4. CASE Restart(u)
  BY <1>2, <1>3, <1>4, RestartIsPlain
<1>5. CASE v \in Range(request[u]) /\ Makes(u, <<one>> \o <<>>) /\ UNCHANGED app
  <2>1. one \in Calls /\ one.kind = "putRequest"
    BY <1>5, ShorterList
  <2> HIDE DEF one, v
  <2>2. calls \in Seq(Calls) /\ Len(calls) = 1 /\ calls[1] = one
    BY <2>1
  <2> HIDE DEF calls
  <2>3. Makes(u, calls)
    BY <1>5, <2>2, EmptyHasNone DEF calls
  <2>4. ASSUME NEW r \in Seq(Calls), Len(r) = 1 + Len(calls), r[1] = queue[u][2],
               \A i \in 1..Len(calls) : r[1 + i] = calls[i]
        PROVE  Waits(u, r, app[u], friends'[u], asked')
    <3>1. Len(r) = 2 /\ r[1].kind = "takeFriend" /\ r[2].kind = "putRequest"
      <4>1. 1 \in 1..Len(calls) /\ r[1 + 1] = one
        BY <2>2, <2>4
      <4> QED
        BY <1>2, <2>1, <2>2, <2>4, <4>1
    <3> QED
      BY <1>1, <1>3, <3>1, TwoCallsWait DEF Pairs, More
  <2>5. OnlyFriendsOf(u) /\ app' = [app EXCEPT ![u] = app[u]]
    BY <1>3, <1>5 DEF OnlyFriendsOf, TypeInv
  <2>6. CarefulInv' /\ queue'[u] \in Seq(Calls) /\ Len(queue'[u]) = 1 + Len(calls) /\ queue'[u][1] = queue[u][2]
    BY <1>2, <1>3, <2>2, <2>3, <2>4, <2>5, ServesOfTwo
  <2>7. queue'[u] # <<>>
    <3>1. Len(queue'[u]) # 0
      BY <2>2, <2>6
    <3> QED
      BY <2>6, <3>1, EmptyHasNone
  <2> QED
    BY <1>2, <1>3, <1>5, <2>3, <2>6, <2>7 DEF calls, one, v
<1> QED
  BY <1>4, <1>5 DEF TakeRequest, TakesOff

LEMMA DropRequestWaits ==
  ASSUME TypeInv, CarefulInv, NEW u \in Users, DropRequest(u)
  PROVE  LET v == app[u].rows[Head(queue[u]).row]
             one == Put("putRequest", u, RemoveFirst(request[u], v)) IN
         /\ CarefulInv'
         /\ \/ PlainStep(u)
            \/ /\ UNCHANGED <<request, friends, app, asked>>
               /\ Makes(u, <<one>>) \/ Makes(u, <<one, Call("loadList")>>)
               /\ v \in Range(request[u])
               /\ Plain(queue[u]) /\ queue'[u] # <<>> /\ queue'[u][1].kind = "putRequest"
<1> DEFINE v == app[u].rows[Head(queue[u]).row]
           one == Put("putRequest", u, RemoveFirst(request[u], v))
           two == Call("loadList")
<1>1. /\ queue[u] \in Seq(Calls) /\ queue[u] # <<>> /\ queue[u][1].kind = "dropRequest"
      /\ app[u].submit => app[u].page = "add" /\ app[u].alert
  BY HeadWaits DEF DropRequest
<1>2. Plain(queue[u])
  BY <1>1 DEF Plain, PlainHeads
<1>3. UNCHANGED <<request, friends, asked>> /\ Next1(u, "dropRequest")
  BY DEF DropRequest, database
<1>4. CASE Restart(u)
  BY <1>2, <1>3, <1>4, RestartIsPlain
<1>5. CASE v \in Range(request[u]) /\ Makes(u, <<one>> \o Reloads(u)) /\ UNCHANGED app
  <2>1. one \in Calls /\ one.kind = "putRequest" /\ two \in Calls /\ two.kind = "loadList"
    BY <1>5, ShorterList, CallIsCall DEF PageKinds
  <2> HIDE DEF one, v, two
  <2>2. OnlyFriendsOf(u) /\ app' = [app EXCEPT ![u] = app[u]]
    BY <1>3, <1>5 DEF OnlyFriendsOf, TypeInv
  <2>3. CASE Reloads(u) = <<>>
    <3> DEFINE calls == <<one>>
    <3>1. calls \in Seq(Calls) /\ Len(calls) = 1 /\ calls[1] = one
      BY <2>1
    <3>2. Makes(u, calls)
      BY <1>5, <2>3, <3>1, EmptyHasNone
    <3>3. calls # <<>>
      OBVIOUS
    <3> HIDE DEF calls
    <3>4. Waits(u, calls, app[u], friends'[u], asked')
      BY <1>1, <2>1, <3>1, OneCallWaits DEF Alone, More
    <3>5. CarefulInv' /\ queue'[u] = calls
      BY <1>3, <2>2, <3>1, <3>2, <3>4, ServesAlone
    <3>6. queue'[u] # <<>> /\ queue'[u][1].kind = "putRequest"
      BY <2>1, <3>1, <3>3, <3>5, Zenon
    <3>7. Makes(u, <<one>>)
      BY <3>2 DEF calls
    <3>8. UNCHANGED <<request, friends, app, asked>> /\ v \in Range(request[u])
      BY <1>3, <1>5
    <3> QED
      BY <1>2, <3>5, <3>6, <3>7, <3>8, Zenon DEF one, v
  <2>4. CASE Reloads(u) # <<>>
    <3> DEFINE calls == <<one, two>>
    <3>1. calls \in Seq(Calls) /\ Len(calls) = 2 /\ calls[1] = one /\ calls[2] = two
      BY <2>1
    <3>2. Makes(u, calls)
      <4>1. <<one>> \o <<two>> = calls
        BY <2>1, Pair
      <4> QED
        BY <1>5, <2>4, <4>1 DEF Reloads, two
    <3>3. calls # <<>>
      OBVIOUS
    <3> HIDE DEF calls
    <3>4. Waits(u, calls, app[u], friends'[u], asked')
      BY <1>1, <2>1, <3>1, TwoCallsWait DEF Pairs, More
    <3>5. CarefulInv' /\ queue'[u] = calls
      BY <1>3, <2>2, <3>1, <3>2, <3>4, ServesAlone
    <3>6. queue'[u] # <<>> /\ queue'[u][1].kind = "putRequest"
      BY <2>1, <3>1, <3>3, <3>5, Zenon
    <3>7. Makes(u, <<one, Call("loadList")>>)
      BY <3>2 DEF calls, two
    <3>8. UNCHANGED <<request, friends, app, asked>> /\ v \in Range(request[u])
      BY <1>3, <1>5
    <3> QED
      BY <1>2, <3>5, <3>6, <3>7, <3>8, Zenon DEF one, v
  <2> QED
    BY <2>3, <2>4
<1> QED
  BY <1>4, <1>5 DEF DropRequest, TakesOff

LEMMA TakeFriendWaits ==
  ASSUME TypeInv, CarefulInv, NEW u \in Users, TakeFriend(u)
  PROVE  LET x == app[u].rows[Head(queue[u]).row]
             one == Put("putFriends", u, FriendsWith(u, x)) IN
         /\ CarefulInv' /\ UNCHANGED <<request, friends, app, asked>>
         /\ x \in Users /\ x \in Range(app[u].rows)
         /\ queue[u][1].kind = "takeFriend" /\ Len(queue[u]) = 2
         /\ queue'[u] \in Seq(Calls) /\ Len(queue'[u]) \in {2, 3}
         /\ queue'[u][1] = queue[u][2] /\ queue'[u][1].kind = "putRequest"
         /\ queue'[u][2] = one
         /\ Len(queue'[u]) = 3 => queue'[u][3].kind = "loadList"
<1> DEFINE x == app[u].rows[Head(queue[u]).row]
           one == Put("putFriends", u, FriendsWith(u, x))
           two == Call("loadList")
<1>1. /\ queue[u] \in Seq(Calls) /\ queue[u] # <<>> /\ queue[u][1].kind = "takeFriend"
      /\ IsStage(queue[u]) /\ app[u] \in Screens
      /\ app[u].submit => app[u].page = "add" /\ app[u].alert
      /\ \A i \in 1..Len(queue[u]) : More(u, queue[u][i], friends[u])
      /\ Next1(u, "takeFriend") /\ Head(queue[u]) = queue[u][1]
  BY HeadWaits DEF TakeFriend
<1>2. Len(queue[u]) = 2 /\ queue[u][2].kind = "putRequest"
  BY <1>1, StageBehind
<1>3. x \in Users /\ x \in Range(app[u].rows)
  <2>1. Knows1(queue[u][1], app[u])
    BY <1>1, HeadIsFirst
  <2>2. Head(queue[u]).row \in DOMAIN app[u].rows /\ app[u].rows \in Seq(Users)
    BY <1>1, <2>1 DEF Knows1, Screens
  <2> QED
    BY <2>2 DEF Range
<1>4. /\ UNCHANGED <<request, friends, app, asked>> /\ Makes(u, <<one>> \o Reloads(u))
  BY DEF TakeFriend, database, observed, ReloadsAfterTaking
<1>5. one \in Calls /\ one.kind = "putFriends" /\ More(u, one, friends[u])
  BY <1>3, FriendIsMore DEF Texts
<1>6. two \in Calls /\ two.kind = "loadList"
  BY CallIsCall DEF PageKinds
<1> HIDE DEF one, x, two
<1>7. OnlyFriendsOf(u) /\ app' = [app EXCEPT ![u] = app[u]]
  BY <1>4 DEF OnlyFriendsOf, TypeInv
<1>8. CASE Reloads(u) = <<>>
  <2> DEFINE calls == <<one>>
  <2>1. calls \in Seq(Calls) /\ Len(calls) = 1 /\ calls[1] = one
    BY <1>5
  <2>2. Makes(u, calls)
    BY <1>4, <1>8, <2>1, EmptyHasNone
  <2> HIDE DEF calls
  <2>3. ASSUME NEW r \in Seq(Calls), Len(r) = 1 + Len(calls), r[1] = queue[u][2],
               \A i \in 1..Len(calls) : r[1 + i] = calls[i]
        PROVE  Waits(u, r, app[u], friends'[u], asked')
    <3>1. Len(r) = 2 /\ r[1].kind = "putRequest" /\ r[2] = one
      <4>1. 1 \in 1..Len(calls) /\ r[1 + 1] = one
        BY <2>1, <2>3
      <4> QED
        BY <1>2, <1>5, <2>1, <2>3, <4>1
    <3> QED
      BY <1>1, <1>4, <1>5, <3>1, TwoCallsWait DEF Pairs, More
  <2>4. /\ CarefulInv' /\ queue'[u] \in Seq(Calls) /\ Len(queue'[u]) = 1 + Len(calls)
        /\ queue'[u][1] = queue[u][2] /\ \A i \in 1..Len(calls) : queue'[u][1 + i] = calls[i]
    BY <1>1, <1>2, <1>7, <2>1, <2>2, <2>3, ServesOfTwo
  <2>5. 1 \in 1..Len(calls) /\ queue'[u][1 + 1] = one
    BY <2>1, <2>4
  <2>6. /\ Len(queue'[u]) = 2 /\ queue'[u][1].kind = "putRequest"
        /\ queue'[u][2] = one
    BY <1>2, <1>6, <2>1, <2>4, <2>5
  <2>7. Len(queue'[u]) \in {2, 3} /\ (Len(queue'[u]) = 3 => queue'[u][3].kind = "loadList")
    BY <2>6
  <2> QED
    BY <1>1, <1>2, <1>3, <1>4, <2>4, <2>6, <2>7, Zenon DEF one, x
<1>9. CASE Reloads(u) # <<>>
  <2> DEFINE calls == <<one, two>>
  <2>1. calls \in Seq(Calls) /\ Len(calls) = 2 /\ calls[1] = one /\ calls[2] = two
    BY <1>5, <1>6
  <2>2. Makes(u, calls)
    <3>1. <<one>> \o <<two>> = calls
      BY <1>5, <1>6, Pair
    <3> QED
      BY <1>4, <1>9, <3>1 DEF Reloads, two
  <2> HIDE DEF calls
  <2>3. ASSUME NEW r \in Seq(Calls), Len(r) = 1 + Len(calls), r[1] = queue[u][2],
               \A i \in 1..Len(calls) : r[1 + i] = calls[i]
        PROVE  Waits(u, r, app[u], friends'[u], asked')
    <3>1. /\ Len(r) = 3 /\ r[1].kind = "putRequest" /\ r[2] = one /\ r[3] = two
      <4>1. 1 \in 1..Len(calls) /\ 2 \in 1..Len(calls) /\ r[1 + 1] = one /\ r[1 + 2] = two
        BY <2>1, <2>3
      <4> QED
        BY <1>2, <1>5, <2>1, <2>3, <4>1
    <3>2. \A i \in 1..Len(r) : i = 1 \/ i = 2 \/ i = 3
      BY <3>1
    <3>3. IsStage(r)
      BY <1>5, <1>6, <3>1 DEF IsStage
    <3>4. MoreFriends(u, r, friends'[u])
      BY <1>4, <1>5, <1>6, <3>1, <3>2 DEF MoreFriends, More
    <3>5. AsksNew(u, r, app[u], friends'[u], asked')
      BY <1>1, <3>1 DEF AsksNew
    <3> QED
      BY <3>3, <3>4, <3>5 DEF Waits
  <2>4. /\ CarefulInv' /\ queue'[u] \in Seq(Calls) /\ Len(queue'[u]) = 1 + Len(calls)
        /\ queue'[u][1] = queue[u][2] /\ \A i \in 1..Len(calls) : queue'[u][1 + i] = calls[i]
    BY <1>1, <1>2, <1>7, <2>1, <2>2, <2>3, ServesOfTwo
  <2>5. 1 \in 1..Len(calls) /\ 2 \in 1..Len(calls) /\ queue'[u][1 + 1] = one /\ queue'[u][1 + 2] = two
    BY <2>1, <2>4
  <2>6. queue'[u][2] = one /\ queue'[u][3] = two
    BY <2>5
  <2>7. /\ Len(queue'[u]) = 3 /\ queue'[u][1].kind = "putRequest"
        /\ queue'[u][2] = one /\ queue'[u][3].kind = "loadList"
    BY <1>2, <1>6, <2>1, <2>4, <2>6
  <2>8. Len(queue'[u]) \in {2, 3} /\ (Len(queue'[u]) = 3 => queue'[u][3].kind = "loadList")
    BY <2>7
  <2> QED
    BY <1>1, <1>2, <1>3, <1>4, <2>4, <2>7, <2>8, Zenon DEF one, x
<1> QED
  BY <1>8, <1>9

\* What is left when the database has taken a list.
LEMMA PutsLeave ==
  ASSUME NEW q \in Seq(Calls), IsStage(q), q # <<>>, q[1].kind \in PutKinds
  PROVE  LET r == Tail(q) \o <<>> IN
         /\ r \in Seq(Calls)
         /\ \/ r = <<>>
            \/ Len(r) = 1 /\ r[1].kind \in {"putFriends", "loadList"} /\ r[1] = q[2] /\ Len(q) = 2
            \/ /\ Len(r) = 2 /\ r[1].kind = "putFriends" /\ r[2].kind = "loadList"
               /\ r[1] = q[2] /\ r[2] = q[3] /\ Len(q) = 3
         /\ q[1].kind = "putFriends" => r = <<>> \/ (Len(r) = 1 /\ r[1].kind = "loadList")
         /\ q[1].kind = "putRequest" => \A i \in 2..Len(q) : \E j \in 1..Len(r) : r[j] = q[i]
<1> DEFINE r == Tail(q) \o <<>>
<1>0. <<>> \in Seq(Calls) /\ Len(<<>>) = 0
  OBVIOUS
<1>4. /\ Len(q) \in {1, 2, 3}
      /\ q[1].kind = "putFriends" =>
           Len(q) = 1 \/ (Len(q) = 2 /\ q[2].kind = "loadList")
      /\ q[1].kind = "putRequest" =>
           \/ Len(q) = 1
           \/ Len(q) = 2 /\ q[2].kind \in {"putFriends", "loadList"}
           \/ Len(q) = 3 /\ q[2].kind = "putFriends" /\ q[3].kind = "loadList"
  BY StageBehind
<1>5. q[1].kind = "putFriends" \/ q[1].kind = "putRequest"
  BY DEF PutKinds
<1>1. CASE Len(q) = 1
  <2>1. r = <<>>
    BY <1>0, <1>1, AfterOne
  <2>2. \A i \in 2..Len(q) : FALSE
    BY <1>1
  <2> QED
    BY <1>0, <2>1, <2>2
<1>2. CASE Len(q) = 2
  <2>1. r \in Seq(Calls) /\ Len(r) = 1 + Len(<<>>) /\ r[1] = q[2]
    BY <1>0, <1>2, AfterTwo
  <2> HIDE DEF r
  <2>2. \A i \in 2..Len(q) : i = 2
    BY <1>2
  <2>3. q[2].kind \in {"putFriends", "loadList"} /\ (q[1].kind = "putFriends" => q[2].kind = "loadList")
    BY <1>2, <1>4, <1>5
  <2>4. 1 \in 1..Len(r) /\ Len(r) = 1
    BY <1>0, <2>1
  <2> QED
    BY <1>2, <2>1, <2>2, <2>3, <2>4 DEF r
<1>3. CASE Len(q) = 3
  <2>1. r \in Seq(Calls) /\ Len(r) = 2 /\ r[1] = q[2] /\ r[2] = q[3]
    BY <1>3, AfterThree
  <2> HIDE DEF r
  <2>2. \A i \in 2..Len(q) : i = 2 \/ i = 3
    BY <1>3
  <2>3. q[1].kind = "putRequest" /\ q[2].kind = "putFriends" /\ q[3].kind = "loadList"
    BY <1>3, <1>4, <1>5
  <2>4. 1 \in 1..Len(r) /\ 2 \in 1..Len(r)
    BY <2>1
  <2> QED
    BY <1>3, <2>1, <2>2, <2>3, <2>4 DEF r
<1> QED
  BY <1>1, <1>2, <1>3, <1>4

LEMMA PutRequestWaits ==
  ASSUME TypeInv, CarefulInv, NEW u \in Users, PutRequest(u)
  PROVE  /\ CarefulInv' /\ UNCHANGED <<friends, app, asked>>
         /\ queue[u] \in Seq(Calls) /\ queue[u] # <<>> /\ queue[u][1].kind = "putRequest"
         /\ queue[u][1].who \in Users
         /\ request' = [request EXCEPT ![queue[u][1].who] = queue[u][1].list]
         /\ queue' = [queue EXCEPT ![u] = Tail(queue[u]) \o <<>>]
<1>1. /\ queue[u] \in Seq(Calls) /\ queue[u] # <<>> /\ queue[u][1].kind = "putRequest"
      /\ IsStage(queue[u])
      /\ app[u].submit => app[u].page = "add" /\ app[u].alert
      /\ \A i \in 1..Len(queue[u]) : More(u, queue[u][i], friends[u])
      /\ Head(queue[u]) = queue[u][1]
  BY HeadWaits DEF PutRequest
<1>2. queue[u][1].who \in Users
  BY <1>1, HeadIsFirst DEF PutRequest, Knows1, PutKinds
<1> DEFINE r == Tail(queue[u]) \o <<>>
<1>3. /\ UNCHANGED <<friends, app, asked>> /\ queue' = [queue EXCEPT ![u] = r]
      /\ request' = [request EXCEPT ![queue[u][1].who] = queue[u][1].list]
  BY <1>1 DEF PutRequest, Makes, observed, TypeInv
<1>4. Turns(u, r, app[u]) /\ OnlyFriendsOf(u)
  BY <1>3 DEF Turns, OnlyFriendsOf, TypeInv
<1>5. /\ r \in Seq(Calls)
      /\ \/ r = <<>>
         \/ Len(r) = 1 /\ r[1].kind \in {"putFriends", "loadList"} /\ r[1] = queue[u][2] /\ Len(queue[u]) = 2
         \/ /\ Len(r) = 2 /\ r[1].kind = "putFriends" /\ r[2].kind = "loadList"
            /\ r[1] = queue[u][2] /\ r[2] = queue[u][3] /\ Len(queue[u]) = 3
  BY <1>1, PutsLeave DEF PutKinds
<1> HIDE DEF r
<1>6. Waits(u, r, app[u], friends'[u], asked')
  <2>1. CASE r = <<>>
    BY <1>1, <1>3, <2>1, EmptyWaits
  <2>2. CASE Len(r) = 1 /\ r[1].kind \in {"putFriends", "loadList"} /\ r[1] = queue[u][2] /\ Len(queue[u]) = 2
    <3>1. More(u, r[1], friends'[u])
      BY <1>1, <1>3, <2>2
    <3> QED
      BY <1>1, <1>5, <2>2, <3>1, OneCallWaits DEF Alone
  <2>3. CASE /\ Len(r) = 2 /\ r[1].kind = "putFriends" /\ r[2].kind = "loadList"
             /\ r[1] = queue[u][2] /\ r[2] = queue[u][3] /\ Len(queue[u]) = 3
    <3>1. More(u, r[1], friends'[u]) /\ More(u, r[2], friends'[u])
      BY <1>1, <1>3, <2>3
    <3> QED
      BY <1>1, <1>5, <2>3, <3>1, TwoCallsWait DEF Pairs
  <2> QED
    BY <1>5, <2>1, <2>2, <2>3
<1> QED
  BY <1>1, <1>2, <1>3, <1>4, <1>6, OneWaits DEF r

LEMMA PutFriendsWaits ==
  ASSUME TypeInv, CarefulInv, NEW u \in Users, PutFriends(u)
  PROVE  /\ CarefulInv' /\ UNCHANGED <<request, app, asked>>
         /\ queue[u] \in Seq(Calls) /\ queue[u] # <<>> /\ queue[u][1].kind = "putFriends"
         /\ friends' = [friends EXCEPT ![u] = queue[u][1].list]
         /\ IsPrefix(friends[u], queue[u][1].list)
         /\ queue'[u] = <<>> \/ (Len(queue'[u]) = 1 /\ queue'[u][1].kind = "loadList")
         /\ \A v \in Users : v # u => queue'[v] = queue[v]
         /\ Len(queue[u]) = 1 \/ (Len(queue[u]) = 2 /\ queue[u][2].kind = "loadList")
<1>1. /\ queue[u] \in Seq(Calls) /\ queue[u] # <<>> /\ queue[u][1].kind = "putFriends"
      /\ IsStage(queue[u]) /\ Len(queue[u]) \in {1, 2, 3}
      /\ app[u].submit => app[u].page = "add" /\ app[u].alert
      /\ \A i \in 1..Len(queue[u]) : More(u, queue[u][i], friends[u])
      /\ Head(queue[u]) = queue[u][1]
  BY HeadWaits DEF PutFriends
<1>2. queue[u][1].who = u /\ IsPrefix(friends[u], queue[u][1].list)
  <2>1. 1 \in 1..Len(queue[u])
    BY <1>1
  <2> QED
    BY <1>1, <2>1 DEF More
<1> DEFINE r == Tail(queue[u]) \o <<>>
<1>3. /\ UNCHANGED <<request, app, asked>> /\ queue' = [queue EXCEPT ![u] = r]
      /\ friends' = [friends EXCEPT ![u] = queue[u][1].list]
  BY <1>1, <1>2 DEF PutFriends, Makes, observed, TypeInv
<1>4. Turns(u, r, app[u]) /\ OnlyFriendsOf(u) /\ queue'[u] = r
  BY <1>3 DEF Turns, OnlyFriendsOf, TypeInv, DataTyped
<1>5. r \in Seq(Calls) /\ (r = <<>> \/ (Len(r) = 1 /\ r[1].kind = "loadList"))
  BY <1>1, PutsLeave DEF PutKinds
<1>6. Len(queue[u]) = 1 \/ (Len(queue[u]) = 2 /\ queue[u][2].kind = "loadList")
  BY <1>1, StageBehind
<1> HIDE DEF r
<1>7. Waits(u, r, app[u], friends'[u], asked')
  <2>1. CASE r = <<>>
    BY <1>1, <2>1, EmptyWaits
  <2>2. CASE Len(r) = 1 /\ r[1].kind = "loadList"
    BY <1>1, <1>5, <2>2, OneCallWaits DEF Alone, More
  <2> QED
    BY <1>5, <2>1, <2>2
<1> QED
  BY <1>1, <1>2, <1>3, <1>4, <1>5, <1>6, <1>7, OneWaits DEF TypeInv

LEMMA DieWaits ==
  ASSUME TypeInv, CarefulInv, NEW u \in Users, Die(u)
  PROVE  CarefulInv' /\ UNCHANGED friends
<1>1. Restart(u) /\ OnlyFriendsOf(u) /\ UNCHANGED friends
  BY DEF Die, OnlyFriendsOf, database, observed
<1> QED
  BY <1>1, RestartWaits

LEMMA InitWaits == Init => CarefulInv
<1> SUFFICES ASSUME Init, NEW u \in Users PROVE Waits(u, queue[u], app[u], friends[u], asked)
  BY DEF CarefulInv
<1>1. queue[u] = <<>> /\ app[u] = Home
  BY DEF Init
<1> QED
  BY <1>1, EmptyWaits DEF Home

LEMMA NextWaits ==
  ASSUME Careful, TypeInv, CarefulInv, [Next]_vars
  PROVE  CarefulInv' /\ \A v \in Users : IsPrefix(friends[v], friends'[v])
<1> DEFINE Grow == \A v \in Users : IsPrefix(friends[v], friends'[v])
<1>1. ASSUME UNCHANGED friends PROVE Grow
  <2> SUFFICES ASSUME NEW v \in Users PROVE IsPrefix(friends[v], friends'[v])
    OBVIOUS
  <2>1. friends[v] \in Seq(Texts) /\ friends'[v] = friends[v]
    BY <1>1 DEF TypeInv, DataTyped
  <2> QED
    BY <2>1, PrefixOfItself
<1>2. CASE UNCHANGED vars
  <2>1. CarefulInv'
    BY <1>2 DEF vars, CarefulInv
  <2> QED
    BY <1>1, <1>2, <2>1 DEF vars
<1>3. ASSUME NEW u \in Users, Person(u) PROVE CarefulInv' /\ Grow
  <2>1. ASSUME NEW kind \in TapKinds, Tap(u, kind) PROVE CarefulInv' /\ UNCHANGED friends
    BY <2>1, TapIsPlain DEF PlainStep
  <2>2. ASSUME NEW x \in Texts, Search(u, x) \/ EditText(u, x)
        PROVE  CarefulInv' /\ UNCHANGED friends
    BY <2>2, SearchIsPlain DEF PlainStep, EditText
  <2>3. ASSUME NEW i \in DOMAIN app[u].rows, AddReq(u, i) \/ RemoveReq(u, i)
        PROVE  CarefulInv' /\ UNCHANGED friends
    BY <2>3, AddReqIsPlain, RemoveReqIsPlain DEF PlainStep
  <2>4. CASE Back(u)
    BY <1>1, <2>4, BackIsPlain DEF PlainStep
  <2>5. CASE Submit(u)
    BY <1>1, <2>5, SubmitIsPlain DEF PlainStep
  <2>6. CASE Done(u)
    BY <1>1, <2>6, DoneIsIdle DEF IdleStep
  <2> HIDE DEF Grow
  <2> QED
    BY <1>1, <1>3, <2>1, <2>2, <2>3, <2>4, <2>5, <2>6 DEF Person
<1>4. ASSUME NEW u \in Users, Serve(u) PROVE CarefulInv' /\ Grow
  <2>1. CASE \/ OpenAdd(u) \/ LoadAdd(u) \/ Find(u) \/ CheckFriends(u) \/ CheckRequests(u)
             \/ OpenRequests(u) \/ LoadName(u) \/ LoadList(u) \/ LoadNames(u)
    <3>1. CarefulInv' /\ PlainStep(u)
      BY <2>1, OpenAddIsPlain, LoadAddIsPlain, FindIsPlain, CheckFriendsIsPlain,
         CheckRequestsIsPlain, OpenRequestsIsPlain, LoadNameIsPlain, LoadListIsPlain,
         LoadNamesIsPlain
    <3> QED
      BY <1>1, <3>1 DEF PlainStep
  <2>2. CASE Ask(u)
    <3>1. CarefulInv' /\ UNCHANGED friends
      BY <2>2, AskWaits
    <3> QED
      BY <1>1, <3>1
  <2>3. CASE AddAsked(u)
    <3>1. CarefulInv' /\ UNCHANGED friends
      BY <2>3, AddAskedWaits
    <3> QED
      BY <1>1, <3>1
  <2>4. CASE TakeRequest(u)
    <3>1. CarefulInv' /\ UNCHANGED friends
      BY <2>4, TakeRequestWaits DEF PlainStep
    <3> QED
      BY <1>1, <3>1
  <2>5. CASE TakeFriend(u)
    <3>1. CarefulInv' /\ UNCHANGED friends
      BY <2>5, TakeFriendWaits
    <3> QED
      BY <1>1, <3>1
  <2>6. CASE DropRequest(u)
    <3>1. CarefulInv' /\ UNCHANGED friends
      BY <2>6, DropRequestWaits DEF PlainStep
    <3> QED
      BY <1>1, <3>1
  <2>7. CASE PutRequest(u)
    <3>1. CarefulInv' /\ UNCHANGED friends
      BY <2>7, PutRequestWaits
    <3> QED
      BY <1>1, <3>1
  <2>8. CASE PutFriends(u)
    <3>1. /\ CarefulInv' /\ friends' = [friends EXCEPT ![u] = queue[u][1].list]
          /\ IsPrefix(friends[u], queue[u][1].list)
      BY <2>8, PutFriendsWaits
    <3>2. ASSUME NEW v \in Users PROVE IsPrefix(friends[v], friends'[v])
      <4>1. friends[v] \in Seq(Texts) /\ friends'[v] = IF v = u THEN queue[u][1].list ELSE friends[v]
        BY <3>1 DEF TypeInv, DataTyped
      <4> QED
        BY <3>1, <4>1, PrefixOfItself
    <3> QED
      BY <3>1, <3>2
  <2> HIDE DEF Grow
  <2> QED
    BY <1>4, <2>1, <2>2, <2>3, <2>4, <2>5, <2>6, <2>7, <2>8 DEF Serve
<1>5. ASSUME NEW u \in Users, Die(u) PROVE CarefulInv' /\ Grow
  <2>1. CarefulInv' /\ UNCHANGED friends
    BY <1>5, DieWaits
  <2> QED
    BY <1>1, <2>1
<1> HIDE DEF Grow
<1>6. CarefulInv' /\ Grow
  BY <1>2, <1>3, <1>4, <1>5 DEF Next, Grow
<1> QED
  BY <1>6 DEF Grow

LEMMA StagesStay ==
  ASSUME Careful
  PROVE  Spec => [](TypeInv /\ CarefulInv)
<1>1. TypeInv /\ CarefulInv /\ [Next]_vars => (TypeInv /\ CarefulInv)'
  BY NextIsSound, NextWaits
<1> QED
  BY <1>1, InitIsSound, InitWaits, PTL DEF Spec

\* While people wait for what they tapped, no whole-list write of a list of
\* friends loses a friend, whichever apps are stopped in the middle of it: what
\* the database gets is always the list it has, with more at its end.
THEOREM FriendsAreKept ==
  ASSUME Careful
  PROVE  Spec => FriendsOnlyGrow
<1>1. TypeInv /\ CarefulInv /\ [Next]_vars
        => [\A u \in Users : IsPrefix(friends[u], friends'[u])]_friends
  BY NextWaits
<1> QED
  BY <1>1, StagesStay, PTL DEF Spec, FriendsOnlyGrow

-----------------------------------------------------------------------------
(* Who has whom as a friend, now or when what is pending is done: MayDie is *)
(* empty, for an app that is stopped takes half of what it started with it. *)

\* w is a friend, or on the way to be one: by the second half of didSubmit or
\* by a list that is sent.
Backs(w, q, a, f) ==
  \/ w \in Range(f)
  \/ q # <<>> /\ q[1].kind = "addAsked" /\ a.text = w
  \/ \E i \in 1..Len(q) : q[i].kind = "putFriends" /\ w \in Range(q[i].list)

Backers == {p \in Users \X Users : Backs(p[2], queue[p[1]], app[p[1]], friends[p[1]])}

\* Requests to w, each by one who backs w, in B.
BackedList(s, w, B) == IsInjective(s) /\ \A x \in Range(s) : <<x, w>> \in B

BackedCalls(q, B) ==
  \A i \in 1..Len(q) : q[i].kind = "putRequest" => BackedList(q[i].list, q[i].who, B)

BackedInv ==
  /\ \A w \in Users : BackedList(request[w], w, Backers)
  /\ \A w \in Users : BackedCalls(queue[w], Backers)
  /\ \A w \in Users : \A x \in Range(app[w].rows) : <<x, w>> \in Backers
  /\ \A v, w \in Users : <<v, w>> \in Backers => <<v, w>> \in asked \/ <<w, v>> \in Backers

\* Whom u backs is seen on u's device and in u's list.
LEMMA BackersOf ==
  ASSUME NEW u \in Users, NEW w \in Users
  PROVE  /\ <<u, w>> \in Backers <=> Backs(w, queue[u], app[u], friends[u])
         /\ <<u, w>> \in Backers' <=> Backs(w, queue'[u], app'[u], friends'[u])
  BY DEF Backers

\* A device that backs everybody it backed before.
LEMMA MoreBackers ==
  ASSUME NEW u \in Users,
         \A v \in Users : v # u =>
           queue'[v] = queue[v] /\ app'[v] = app[v] /\ friends'[v] = friends[v],
         \A w \in Users : Backs(w, queue[u], app[u], friends[u])
                            => Backs(w, queue'[u], app'[u], friends'[u])
  PROVE  /\ Backers \subseteq Backers'
         /\ \A v, w \in Users : v # u => (<<v, w>> \in Backers' <=> <<v, w>> \in Backers)
<1>1. ASSUME NEW v \in Users, NEW w \in Users, v # u
      PROVE  <<v, w>> \in Backers' <=> <<v, w>> \in Backers
  <2>1. queue'[v] = queue[v] /\ app'[v] = app[v] /\ friends'[v] = friends[v]
    BY <1>1
  <2> QED
    BY <2>1, BackersOf
<1>2. ASSUME NEW w \in Users, <<u, w>> \in Backers PROVE <<u, w>> \in Backers'
  BY <1>2, BackersOf
<1>3. \A p \in Users \X Users : p \in Backers => p \in Backers'
  <2> SUFFICES ASSUME NEW p \in Users \X Users, p \in Backers PROVE p \in Backers'
    OBVIOUS
  <2>1. p[1] \in Users /\ p[2] \in Users /\ p = <<p[1], p[2]>>
    OBVIOUS
  <2>2. CASE p[1] = u
    BY <1>2, <2>1, <2>2
  <2>3. CASE p[1] # u
    BY <1>1, <2>1, <2>3
  <2> QED
    BY <2>2, <2>3
<1>4. Backers \subseteq Backers'
  BY <1>3 DEF Backers
<1> QED
  BY <1>1, <1>4

LEMMA StepIsBacked ==
  ASSUME TypeInv, TypeInv', BackedInv, NEW u \in Users, asked \subseteq asked',
         \A v \in Users : v # u =>
           queue'[v] = queue[v] /\ app'[v] = app[v] /\ friends'[v] = friends[v],
         \A w \in Users : Backs(w, queue[u], app[u], friends[u])
                            => Backs(w, queue'[u], app'[u], friends'[u]),
         \A w \in Users : Backs(w, queue'[u], app'[u], friends'[u])
                            => \/ Backs(w, queue[u], app[u], friends[u])
                               \/ <<u, w>> \in asked' \/ <<w, u>> \in Backers,
         \A w \in Users : request'[w] = request[w] \/ BackedList(request'[w], w, Backers'),
         BackedCalls(queue'[u], Backers'),
         \A x \in Range(app'[u].rows) : <<x, u>> \in Backers
  PROVE  BackedInv'
<1>1. /\ Backers \subseteq Backers'
      /\ \A v, w \in Users : v # u => (<<v, w>> \in Backers' <=> <<v, w>> \in Backers)
  BY MoreBackers
<1>5. ASSUME NEW w \in Users PROVE BackedList(request'[w], w, Backers')
  <2>1. BackedList(request[w], w, Backers)
    BY DEF BackedInv
  <2> QED
    BY <1>1, <2>1 DEF BackedList
<1>6. ASSUME NEW w \in Users PROVE BackedCalls(queue'[w], Backers')
  <2>1. BackedCalls(queue[w], Backers)
    BY DEF BackedInv
  <2>2. CASE w = u
    BY <2>2
  <2>3. CASE w # u
    <3>1. queue'[w] = queue[w]
      BY <2>3
    <3> QED
      BY <1>1, <2>1, <3>1 DEF BackedCalls, BackedList
  <2> QED
    BY <2>2, <2>3
<1>7. ASSUME NEW w \in Users, NEW x \in Range(app'[w].rows) PROVE <<x, w>> \in Backers'
  <2>1. CASE w = u
    BY <1>1, <1>7, <2>1
  <2>2. CASE w # u
    <3>1. app'[w] = app[w]
      BY <2>2
    <3> QED
      BY <1>1, <1>7, <3>1 DEF BackedInv
  <2> QED
    BY <2>1, <2>2
<1>8. ASSUME NEW v \in Users, NEW w \in Users, <<v, w>> \in Backers'
      PROVE  <<v, w>> \in asked' \/ <<w, v>> \in Backers'
  <2>1. <<v, w>> \in Backers => <<v, w>> \in asked \/ <<w, v>> \in Backers
    BY DEF BackedInv
  <2>2. CASE v = u
    <3>1. Backs(w, queue'[u], app'[u], friends'[u])
      BY <1>8, <2>2, BackersOf
    <3>2. \/ Backs(w, queue[u], app[u], friends[u])
          \/ <<u, w>> \in asked' \/ <<w, u>> \in Backers
      BY <3>1
    <3> QED
      BY <1>1, <2>1, <2>2, <3>2, BackersOf
  <2>3. CASE v # u
    BY <1>1, <1>8, <2>1, <2>3
  <2> QED
    BY <2>2, <2>3
<1> QED
  BY <1>5, <1>6, <1>7, <1>8 DEF BackedInv

\* A plain queue holds no list.
LEMMA PlainHasNoPuts ==
  ASSUME NEW q \in Seq(Calls), IsStage(q), Plain(q)
  PROVE  /\ \A i \in 1..Len(q) : q[i].kind \notin PutKinds
         /\ q # <<>> => q[1].kind # "addAsked"
<1>1. CASE q = <<>>
  BY <1>1
<1>2. CASE q # <<>>
  <2>1. q[1].kind \in PlainHeads
    BY <1>2 DEF Plain
  <2>2. q[1].kind # "addAsked" /\ q[1].kind \notin PutKinds
    BY <2>1 DEF PlainHeads, PutKinds
  <2>3. Len(q) = 1 \/ (Len(q) = 2 /\ q[2].kind \notin PutKinds)
    BY <1>2, <2>1, StageBehind DEF PlainHeads, PutKinds
  <2>4. ASSUME NEW i \in 1..Len(q) PROVE q[i].kind \notin PutKinds
    <3>1. CASE Len(q) = 1
      <4>1. i = 1
        BY <3>1
      <4> QED
        BY <2>2, <4>1
    <3>2. CASE Len(q) = 2 /\ q[2].kind \notin PutKinds
      <4>1. i = 1 \/ i = 2
        BY <3>2
      <4> QED
        BY <2>2, <3>2, <4>1
    <3> QED
      BY <2>3, <3>1, <3>2
  <2> QED
    BY <2>2, <2>4
<1> QED
  BY <1>1, <1>2

LEMMA PlainBacks ==
  ASSUME NEW q \in Seq(Calls), IsStage(q), Plain(q), NEW w, NEW a, NEW f, NEW B
  PROVE  (Backs(w, q, a, f) <=> w \in Range(f)) /\ BackedCalls(q, B)
  BY PlainHasNoPuts DEF Backs, BackedCalls, PutKinds

LEMMA PlainIsBacked ==
  ASSUME TypeInv, TypeInv', CarefulInv, CarefulInv', BackedInv, NEW u \in Users, PlainStep(u)
  PROVE  BackedInv'
<1>1. /\ queue[u] \in Seq(Calls) /\ IsStage(queue[u]) /\ Plain(queue[u])
      /\ queue'[u] \in Seq(Calls) /\ IsStage(queue'[u]) /\ Plain(queue'[u])
  BY DEF TypeInv, Sound, CarefulInv, Waits, PlainStep
<1>2. /\ UNCHANGED <<request, friends, asked>>
      /\ Range(app'[u].rows) \subseteq Range(app[u].rows) \cup Range(request[u])
      /\ \A v \in Users : v # u => queue'[v] = queue[v] /\ app'[v] = app[v]
  BY DEF PlainStep
<1>3. \A w \in Users : Backs(w, queue[u], app[u], friends[u]) <=> w \in Range(friends[u])
  BY <1>1, PlainBacks
<1>4. \A w \in Users : Backs(w, queue'[u], app'[u], friends'[u]) <=> w \in Range(friends[u])
  BY <1>1, <1>2, PlainBacks
<1>5. BackedCalls(queue'[u], Backers')
  BY <1>1, PlainBacks
<1>6. \A x \in Range(app'[u].rows) : <<x, u>> \in Backers
  BY <1>2 DEF BackedInv, BackedList
<1> QED
  BY <1>2, <1>3, <1>4, <1>5, <1>6, StepIsBacked

LEMMA IdleIsBacked ==
  ASSUME TypeInv, BackedInv, NEW u \in Users, IdleStep(u)
  PROVE  BackedInv'
<1>1. /\ UNCHANGED <<request, friends, queue, asked>>
      /\ \A v \in Users : app'[v].text = app[v].text /\ app'[v].rows = app[v].rows
  BY DEF IdleStep
<1>2. ASSUME NEW v \in Users, NEW w
      PROVE  Backs(w, queue'[v], app'[v], friends'[v]) <=> Backs(w, queue[v], app[v], friends[v])
  BY <1>1 DEF Backs
<1>3. Backers' = Backers
  BY <1>2 DEF Backers
<1> QED
  BY <1>1, <1>3 DEF BackedInv

LEMMA AskIsBacked ==
  ASSUME TypeInv, TypeInv', CarefulInv, BackedInv, NEW u \in Users, Ask(u)
  PROVE  BackedInv'
<1> DEFINE x == app[u].text
           list == Append(request[x], u)
           one == Put("putRequest", x, list)
<1>1. /\ New(app[u], friends[u]) /\ UNCHANGED <<request, friends, app>>
      /\ asked' = asked \cup {<<u, x>>} /\ Makes(u, <<one>>)
      /\ queue[u][1].kind = "ask" /\ queue'[u] # <<>> /\ queue'[u][1].kind = "addAsked"
  BY AskWaits
<1>2. /\ queue[u] \in Seq(Calls) /\ IsStage(queue[u]) /\ queue[u] # <<>>
      /\ Plain(queue[u]) /\ Len(queue[u]) = 2
  BY <1>1, HeadWaits, StageBehind DEF Ask, Plain, PlainHeads
<1>3. x \in Users /\ x \notin Range(friends[u]) /\ request[x] \in Seq(Users)
  BY <1>1 DEF New, TypeInv, DataTyped
<1>4. \A w \in Users : Backs(w, queue[u], app[u], friends[u]) <=> w \in Range(friends[u])
  BY <1>2, PlainBacks
<1>5. ~(<<u, x>> \in Backers)
  BY <1>3, <1>4, BackersOf
<1>6. BackedList(request[x], x, Backers)
  BY <1>3 DEF BackedInv
<1>7. list \in Seq(Users) /\ IsInjective(list) /\ Range(list) = Range(request[x]) \cup {u}
  <2>1. u \notin Range(request[x])
    BY <1>5, <1>6 DEF BackedList
  <2>2. IsInjective(request[x])
    BY <1>6 DEF BackedList
  <2> QED
    BY <1>3, <2>1, <2>2, OneMore
<1> HIDE DEF list
<1>8. one \in Calls /\ one.kind = "putRequest" /\ one.who = x /\ one.list = list
  <2>1. list \in Seq(Texts) /\ "putRequest" \in PutKinds
    BY <1>7, UsersAreTexts DEF PutKinds
  <2> QED
    BY <1>3, <1>7, <2>1, PutIsQuiet
<1> HIDE DEF one
<1>9. /\ queue'[u] \in Seq(Calls) /\ Len(queue'[u]) = 2
      /\ queue'[u][2] = one
  <2>1. <<one>> \in Seq(Calls) /\ Len(<<one>>) = 1 /\ <<one>>[1] = one /\ 1 \in 1..Len(<<one>>)
    BY <1>8
  <2> DEFINE calls == <<one>>
             r == Tail(queue[u]) \o calls
  <2>2. queue'[u] = r
    BY <1>1 DEF Makes, TypeInv
  <2> HIDE DEF calls
  <2>3. calls \in Seq(Calls) /\ Len(calls) = 1 /\ calls[1] = one /\ 1 \in 1..Len(calls)
    BY <2>1 DEF calls
  <2>4. r \in Seq(Calls) /\ Len(r) = 1 + Len(calls) /\ \A i \in 1..Len(calls) : r[1 + i] = calls[i]
    BY <1>2, <2>3, AfterTwo
  <2>5. r[1 + 1] = one
    BY <2>3, <2>4
  <2> HIDE DEF r
  <2> QED
    BY <2>2, <2>3, <2>4, <2>5
<1>10. \A i \in 1..Len(queue'[u]) : i = 1 \/ i = 2
  BY <1>9
<1>11. \A w \in Users : Backs(w, queue'[u], app'[u], friends'[u])
                         <=> w \in Range(friends[u]) \/ w = x
  <2>1. \A i \in 1..Len(queue'[u]) : queue'[u][i].kind # "putFriends"
    BY <1>1, <1>8, <1>9, <1>10
  <2> QED
    BY <1>1, <2>1 DEF Backs
<1>12. \A v \in Users : v # u =>
         queue'[v] = queue[v] /\ app'[v] = app[v] /\ friends'[v] = friends[v]
  BY <1>1 DEF Makes, TypeInv
<1>13. <<u, x>> \in Backers' /\ \A w \in Users : <<w, x>> \in Backers => <<w, x>> \in Backers'
  <2>1. <<u, x>> \in Backers'
    BY <1>3, <1>11, BackersOf
  <2>2. ASSUME NEW w \in Users, <<w, x>> \in Backers PROVE <<w, x>> \in Backers'
    <3>1. CASE w = u
      BY <2>1, <3>1
    <3>2. CASE w # u
      <4>1. queue'[w] = queue[w] /\ app'[w] = app[w] /\ friends'[w] = friends[w]
        BY <1>12, <3>2
      <4> QED
        BY <1>3, <2>2, <4>1, BackersOf
    <3> QED
      BY <3>1, <3>2
  <2> QED
    BY <2>1, <2>2
<1>14. BackedList(list, x, Backers')
  <2> SUFFICES ASSUME NEW w \in Range(list) PROVE <<w, x>> \in Backers'
    BY <1>7 DEF BackedList
  <2>1. w = u \/ (w \in Range(request[x]) /\ w \in Users)
    <3>1. \A y \in Range(request[x]) : y \in Users
      BY <1>3 DEF Range
    <3> QED
      BY <1>7, <3>1
  <2> QED
    BY <1>6, <1>13, <2>1 DEF BackedList
<1>15. BackedCalls(queue'[u], Backers')
  BY <1>1, <1>8, <1>9, <1>10, <1>14 DEF BackedCalls
<1>16. \A w \in Range(app'[u].rows) : <<w, u>> \in Backers
  BY <1>1 DEF BackedInv
<1> QED
  BY <1>1, <1>4, <1>11, <1>12, <1>15, <1>16, StepIsBacked

LEMMA AddAskedIsBacked ==
  ASSUME TypeInv, TypeInv', CarefulInv, BackedInv, NEW u \in Users, AddAsked(u)
  PROVE  BackedInv'
<1> DEFINE x == app[u].text
           one == Put("putFriends", u, FriendsWith(u, x))
<1>1. /\ UNCHANGED <<request, friends, app, asked>> /\ Makes(u, <<one>>)
      /\ x \in Users /\ <<u, x>> \in asked
      /\ queue[u][1].kind = "addAsked"
  BY AddAskedWaits
<1>2. /\ queue[u] \in Seq(Calls) /\ IsStage(queue[u]) /\ queue[u] # <<>>
      /\ Len(queue[u]) = 2 /\ queue[u][2].kind = "putRequest"
  BY <1>1, HeadWaits, StageBehind DEF AddAsked
<1>3. one \in Calls /\ one.kind = "putFriends" /\ one.list = Append(friends[u], x)
  BY <1>1, FriendIsMore DEF Texts
<1>4. Range(one.list) = Range(friends[u]) \cup {x}
  <2>1. friends[u] \in Seq(Texts) /\ x \in Texts
    BY <1>1 DEF TypeInv, DataTyped, Texts
  <2>2. Range(Append(friends[u], x)) = Range(friends[u]) \cup {x}
    BY <2>1, OneMore
  <2> HIDE DEF one
  <2> QED
    BY <1>3, <2>2
<1> HIDE DEF one
<1>5. queue'[u] \in Seq(Calls) /\ Len(queue'[u]) = 2 /\ queue'[u][1] = queue[u][2] /\ queue'[u][2] = one
  <2> DEFINE calls == <<one>>
             r == Tail(queue[u]) \o calls
  <2>1. calls \in Seq(Calls) /\ Len(calls) = 1 /\ calls[1] = one /\ 1 \in 1..Len(calls)
    BY <1>3
  <2>2. queue'[u] = r
    BY <1>1 DEF Makes, TypeInv
  <2> HIDE DEF calls
  <2>3. /\ r \in Seq(Calls) /\ Len(r) = 1 + Len(calls) /\ r[1] = queue[u][2]
        /\ \A i \in 1..Len(calls) : r[1 + i] = calls[i]
    BY <1>2, <2>1, AfterTwo
  <2>4. r[1 + 1] = one
    BY <2>1, <2>3
  <2> HIDE DEF r
  <2> QED
    BY <2>1, <2>2, <2>3, <2>4
<1>6. \A i \in 1..2 : i = 1 \/ i = 2
  OBVIOUS
<1>7. \A w \in Users : Backs(w, queue[u], app[u], friends[u])
                         <=> w \in Range(friends[u]) \/ w = x
  <2>1. \A i \in 1..Len(queue[u]) : queue[u][i].kind # "putFriends"
    BY <1>1, <1>2, <1>6
  <2> QED
    BY <1>1, <1>2, <2>1 DEF Backs
<1>8. \A w \in Users : Backs(w, queue'[u], app'[u], friends'[u])
                         <=> w \in Range(friends[u]) \/ w = x
  <2>1. queue'[u][1].kind = "putRequest" /\ 2 \in 1..Len(queue'[u])
    BY <1>2, <1>5
  <2>2. \A i \in 1..Len(queue'[u]) : i = 1 \/ i = 2
    BY <1>5
  <2> QED
    BY <1>1, <1>3, <1>4, <1>5, <2>1, <2>2 DEF Backs
<1>9. \A v \in Users : v # u =>
         queue'[v] = queue[v] /\ app'[v] = app[v] /\ friends'[v] = friends[v]
  BY <1>1 DEF Makes, TypeInv
<1>10. Backers \subseteq Backers'
  BY <1>7, <1>8, <1>9, MoreBackers
<1>11. BackedCalls(queue'[u], Backers')
  <2>1. BackedList(queue[u][2].list, queue[u][2].who, Backers)
    <3>1. 2 \in 1..Len(queue[u])
      BY <1>2
    <3>2. BackedCalls(queue[u], Backers)
      BY DEF BackedInv
    <3> QED
      BY <1>2, <3>1, <3>2 DEF BackedCalls
  <2>2. BackedList(queue[u][2].list, queue[u][2].who, Backers')
    BY <1>10, <2>1 DEF BackedList
  <2>3. \A i \in 1..Len(queue'[u]) : i = 1 \/ i = 2
    BY <1>5
  <2> QED
    BY <1>3, <1>5, <2>2, <2>3 DEF BackedCalls
<1>12. \A w \in Range(app'[u].rows) : <<w, u>> \in Backers
  BY <1>1 DEF BackedInv
<1> QED
  BY <1>1, <1>7, <1>8, <1>9, <1>11, <1>12, StepIsBacked

\* A list of requests with one taken off it.
LEMMA ShorterIsBacked ==
  ASSUME TypeInv, BackedInv, NEW u \in Users, NEW v \in Range(request[u])
  PROVE  BackedList(RemoveFirst(request[u], v), u, Backers)
<1>1. request[u] \in Seq(Users) /\ BackedList(request[u], u, Backers)
  BY DEF TypeInv, DataTyped, BackedInv
<1>2. LET r == RemoveFirst(request[u], v) IN
      Range(r) \subseteq Range(request[u]) /\ (IsInjective(request[u]) => IsInjective(r))
  BY <1>1, TakenOff
<1> QED
  BY <1>1, <1>2 DEF BackedList

\* A plain queue whose first call sends a shorter list of requests.
LEMMA ShorterStepIsBacked ==
  ASSUME TypeInv, TypeInv', CarefulInv, BackedInv, NEW u \in Users, NEW v \in Range(request[u]),
         NEW one, one = Put("putRequest", u, RemoveFirst(request[u], v)),
         UNCHANGED <<request, friends, app, asked>>,
         \A w \in Users : w # u => queue'[w] = queue[w],
         Plain(queue[u]), queue[u] # <<>>,
         queue'[u] # <<>>, queue'[u][1].kind # "addAsked",
         \A i \in 1..Len(queue'[u]) :
           \/ queue'[u][i] = one
           \/ queue'[u][i].kind \in {"takeFriend", "loadList"}
  PROVE  BackedInv'
<1>1. one.kind = "putRequest" /\ one.who = u /\ one.list = RemoveFirst(request[u], v)
  BY ShorterList
<1>2. queue[u] \in Seq(Calls) /\ IsStage(queue[u])
  BY DEF TypeInv, Sound, CarefulInv, Waits
<1>3. \A w \in Users : Backs(w, queue[u], app[u], friends[u]) <=> w \in Range(friends[u])
  BY <1>2, PlainBacks
<1>4. \A i \in 1..Len(queue'[u]) : queue'[u][i].kind # "putFriends"
  BY <1>1
<1>5. \A w \in Users : Backs(w, queue'[u], app'[u], friends'[u]) <=> w \in Range(friends[u])
  BY <1>4 DEF Backs
<1>6. Backers \subseteq Backers'
  BY <1>3, <1>5, MoreBackers
<1>7. BackedList(one.list, one.who, Backers')
  <2>1. BackedList(RemoveFirst(request[u], v), u, Backers)
    BY ShorterIsBacked
  <2> QED
    BY <1>1, <1>6, <2>1 DEF BackedList
<1>8. BackedCalls(queue'[u], Backers')
  BY <1>7 DEF BackedCalls
<1>9. \A w \in Range(app'[u].rows) : <<w, u>> \in Backers
  BY DEF BackedInv
<1> QED
  BY <1>3, <1>5, <1>8, <1>9, StepIsBacked

LEMMA TakeRequestIsBacked ==
  ASSUME TypeInv, TypeInv', CarefulInv, CarefulInv', BackedInv, NEW u \in Users, TakeRequest(u)
  PROVE  BackedInv'
<1> DEFINE v == app[u].rows[Head(queue[u]).row]
           one == Put("putRequest", u, RemoveFirst(request[u], v))
<1>1. CASE PlainStep(u)
  BY <1>1, PlainIsBacked
<1>2. CASE /\ UNCHANGED <<request, friends, app, asked>> /\ Makes(u, <<one>>)
           /\ v \in Range(request[u])
           /\ Plain(queue[u]) /\ queue'[u] # <<>> /\ queue'[u][1].kind = "takeFriend"
  <2>1. queue[u] \in Seq(Calls) /\ queue[u] # <<>> /\ Len(queue[u]) = 2
    BY HeadWaits, StageBehind DEF TakeRequest
  <2>2. one \in Calls
    BY <1>2, ShorterList
  <2>3. one = Put("putRequest", u, RemoveFirst(request[u], v))
    OBVIOUS
  <2> HIDE DEF one, v
  <2> DEFINE calls == <<one>>
             r == Tail(queue[u]) \o calls
  <2>4. calls \in Seq(Calls) /\ Len(calls) = 1 /\ calls[1] = one /\ 1 \in 1..Len(calls)
    BY <2>2
  <2>5. queue'[u] = r /\ \A w \in Users : w # u => queue'[w] = queue[w]
    BY <1>2 DEF Makes, TypeInv
  <2> HIDE DEF calls
  <2>6. /\ r \in Seq(Calls) /\ Len(r) = 1 + Len(calls)
        /\ \A i \in 1..Len(calls) : r[1 + i] = calls[i]
    BY <2>1, <2>4, AfterTwo
  <2>7. r[1 + 1] = one
    BY <2>4, <2>6
  <2> HIDE DEF r
  <2>8. \A i \in 1..Len(queue'[u]) : queue'[u][i] = one \/ queue'[u][i].kind \in {"takeFriend", "loadList"}
    <3> SUFFICES ASSUME NEW i \in 1..Len(r)
                 PROVE  r[i] = one \/ r[i].kind \in {"takeFriend", "loadList"}
      BY <2>5
    <3>1. i = 1 \/ i = 1 + 1
      BY <2>4, <2>6
    <3> QED
      BY <1>2, <2>5, <2>7, <3>1
  <2>9. \A w \in Users : w # u => queue'[w] = queue[w]
    BY <2>5
  <2>10. queue'[u][1].kind # "addAsked" /\ queue'[u] # <<>> /\ queue[u] # <<>>
    BY <1>2, <2>1
  <2>11. UNCHANGED <<request, friends, app, asked>> /\ v \in Range(request[u]) /\ Plain(queue[u])
    BY <1>2
  <2> QED
    BY <2>3, <2>8, <2>9, <2>10, <2>11, ShorterStepIsBacked, SMTT(30)
<1> QED
  BY <1>1, <1>2, TakeRequestWaits

LEMMA DropRequestIsBacked ==
  ASSUME TypeInv, TypeInv', CarefulInv, CarefulInv', BackedInv, NEW u \in Users, DropRequest(u)
  PROVE  BackedInv'
<1> DEFINE v == app[u].rows[Head(queue[u]).row]
           one == Put("putRequest", u, RemoveFirst(request[u], v))
           two == Call("loadList")
<1>1. CASE PlainStep(u)
  BY <1>1, PlainIsBacked
<1>2. CASE /\ UNCHANGED <<request, friends, app, asked>>
           /\ Makes(u, <<one>>) \/ Makes(u, <<one, two>>)
           /\ v \in Range(request[u])
           /\ Plain(queue[u]) /\ queue'[u] # <<>> /\ queue'[u][1].kind = "putRequest"
  <2>1. queue[u] \in Seq(Calls) /\ queue[u] # <<>> /\ Len(queue[u]) = 1
    BY HeadWaits, StageBehind DEF DropRequest
  <2>2. one \in Calls /\ two \in Calls /\ two.kind = "loadList"
    BY <1>2, ShorterList, CallIsCall DEF PageKinds
  <2>3. one = Put("putRequest", u, RemoveFirst(request[u], v))
    OBVIOUS
  <2> HIDE DEF one, v, two
  <2>4. \A w \in Users : w # u => queue'[w] = queue[w]
    BY <1>2 DEF Makes, TypeInv
  <2>5. ASSUME NEW calls \in Seq(Calls), Makes(u, calls) PROVE queue'[u] = calls
    <3>1. Tail(queue[u]) \o calls = calls
      BY <2>1, AfterOne
    <3> QED
      BY <2>5, <3>1 DEF Makes, TypeInv
  <2>6. queue'[u] = <<one>> \/ queue'[u] = <<one, two>>
    <3>1. <<one>> \in Seq(Calls) /\ <<one, two>> \in Seq(Calls)
      BY <2>2
    <3> QED
      BY <1>2, <2>5, <3>1
  <2>7. \A i \in 1..Len(queue'[u]) : queue'[u][i] = one \/ queue'[u][i].kind \in {"takeFriend", "loadList"}
    BY <2>2, <2>6
  <2> QED
    BY <1>2, <2>1, <2>3, <2>4, <2>7, ShorterStepIsBacked
<1> QED
  BY <1>1, <1>2, DropRequestWaits

LEMMA TakeFriendIsBacked ==
  ASSUME TypeInv, TypeInv', CarefulInv, BackedInv, NEW u \in Users, TakeFriend(u)
  PROVE  BackedInv'
<1> DEFINE x == app[u].rows[Head(queue[u]).row]
           one == Put("putFriends", u, FriendsWith(u, x))
<1>1. /\ UNCHANGED <<request, friends, app, asked>>
      /\ x \in Users /\ x \in Range(app[u].rows)
      /\ queue[u][1].kind = "takeFriend" /\ Len(queue[u]) = 2
      /\ queue'[u] \in Seq(Calls) /\ Len(queue'[u]) \in {2, 3}
      /\ queue'[u][1] = queue[u][2] /\ queue'[u][1].kind = "putRequest"
      /\ queue'[u][2] = one
      /\ Len(queue'[u]) = 3 => queue'[u][3].kind = "loadList"
  BY TakeFriendWaits
<1>2. queue[u] \in Seq(Calls) /\ queue[u] # <<>> /\ queue[u][2].kind = "putRequest"
  BY HeadWaits, StageBehind DEF TakeFriend
<1>3. one.kind = "putFriends" /\ one.list = Append(friends[u], x)
  BY <1>1, FriendIsMore DEF Texts
<1>4. Range(one.list) = Range(friends[u]) \cup {x}
  <2>1. friends[u] \in Seq(Texts) /\ x \in Texts
    BY <1>1 DEF TypeInv, DataTyped, Texts
  <2>2. Range(Append(friends[u], x)) = Range(friends[u]) \cup {x}
    BY <2>1, OneMore
  <2> HIDE DEF one
  <2> QED
    BY <1>3, <2>2
<1> HIDE DEF one, x
<1>5. \A i \in 1..Len(queue[u]) : queue[u][i].kind # "putFriends"
  <2>1. \A i \in 1..Len(queue[u]) : i = 1 \/ i = 2
    BY <1>1
  <2> QED
    BY <1>1, <1>2, <2>1
<1>6. /\ \A i \in 1..Len(queue'[u]) : i = 1 \/ i = 2 \/ (i = 3 /\ queue'[u][i].kind = "loadList")
      /\ 2 \in 1..Len(queue'[u]) /\ queue'[u] # <<>>
  <2>1. CASE Len(queue'[u]) = 2
    BY <2>1
  <2>2. CASE Len(queue'[u]) = 3
    BY <1>1, <2>2
  <2> QED
    BY <1>1, <2>1, <2>2
<1>7. \A w \in Users : Backs(w, queue[u], app[u], friends[u]) <=> w \in Range(friends[u])
  BY <1>1, <1>5 DEF Backs
<1>8. \A w \in Users : Backs(w, queue'[u], app'[u], friends'[u])
                         <=> w \in Range(friends[u]) \/ w = x
  BY <1>1, <1>3, <1>4, <1>6 DEF Backs
<1>9. \A v \in Users : v # u =>
         queue'[v] = queue[v] /\ app'[v] = app[v] /\ friends'[v] = friends[v]
  BY <1>1 DEF TakeFriend, Makes, TypeInv
<1>10. Backers \subseteq Backers'
  BY <1>7, <1>8, <1>9, MoreBackers
<1>11. BackedCalls(queue'[u], Backers')
  <2>1. BackedList(queue[u][2].list, queue[u][2].who, Backers)
    <3>1. 2 \in 1..Len(queue[u])
      BY <1>1
    <3>2. BackedCalls(queue[u], Backers)
      BY DEF BackedInv
    <3> QED
      BY <1>2, <3>1, <3>2 DEF BackedCalls
  <2>2. BackedList(queue[u][2].list, queue[u][2].who, Backers')
    BY <1>10, <2>1 DEF BackedList
  <2> QED
    BY <1>1, <1>3, <1>6, <2>2 DEF BackedCalls
<1>12. (\A w \in Range(app'[u].rows) : <<w, u>> \in Backers) /\ <<x, u>> \in Backers
  BY <1>1 DEF BackedInv
<1> QED
  BY <1>1, <1>7, <1>8, <1>9, <1>11, <1>12, StepIsBacked

LEMMA PutRequestIsBacked ==
  ASSUME TypeInv, TypeInv', CarefulInv, BackedInv, NEW u \in Users, PutRequest(u)
  PROVE  BackedInv'
<1> DEFINE q == queue[u]
           r == Tail(queue[u]) \o <<>>
<1>1. /\ UNCHANGED <<friends, app, asked>>
      /\ q \in Seq(Calls) /\ q # <<>> /\ q[1].kind = "putRequest" /\ q[1].who \in Users
      /\ request' = [request EXCEPT ![q[1].who] = q[1].list]
      /\ queue' = [queue EXCEPT ![u] = r]
  BY PutRequestWaits
<1>2. IsStage(q) /\ BackedCalls(q, Backers)
  BY DEF CarefulInv, Waits, BackedInv
<1>3. queue'[u] = r /\ \A v \in Users : v # u => queue'[v] = queue[v]
  BY <1>1 DEF TypeInv
<1>4. \A w \in Users : request'[w] = IF w = q[1].who THEN q[1].list ELSE request[w]
  BY <1>1 DEF TypeInv, DataTyped
<1> HIDE DEF q, r
<1>5. /\ r \in Seq(Calls)
      /\ \/ r = <<>>
         \/ Len(r) = 1 /\ r[1].kind \in {"putFriends", "loadList"} /\ r[1] = q[2] /\ Len(q) = 2
         \/ /\ Len(r) = 2 /\ r[1].kind = "putFriends" /\ r[2].kind = "loadList"
            /\ r[1] = q[2] /\ r[2] = q[3] /\ Len(q) = 3
      /\ \A i \in 2..Len(q) : \E j \in 1..Len(r) : r[j] = q[i]
  BY <1>1, <1>2, PutsLeave DEF PutKinds, r, q
<1>6. /\ \A j \in 1..Len(r) : /\ r[j].kind \in {"putFriends", "loadList"}
                              /\ \E i \in 1..Len(q) : r[j] = q[i]
      /\ r # <<>> => r[1].kind # "addAsked"
  <2>1. CASE r = <<>>
    BY <2>1
  <2>2. CASE Len(r) = 1 /\ r[1].kind \in {"putFriends", "loadList"} /\ r[1] = q[2] /\ Len(q) = 2
    <3>1. 2 \in 1..Len(q) /\ \A j \in 1..Len(r) : j = 1
      BY <2>2
    <3> QED
      BY <2>2, <3>1
  <2>3. CASE /\ Len(r) = 2 /\ r[1].kind = "putFriends" /\ r[2].kind = "loadList"
             /\ r[1] = q[2] /\ r[2] = q[3] /\ Len(q) = 3
    <3>1. 2 \in 1..Len(q) /\ 3 \in 1..Len(q) /\ \A j \in 1..Len(r) : j = 1 \/ j = 2
      BY <2>3
    <3> QED
      BY <2>3, <3>1
  <2> QED
    BY <1>5, <2>1, <2>2, <2>3
<1>7. \A i \in 1..Len(q) : i = 1 \/ i \in 2..Len(q)
  BY <1>1
<1>8. \A w \in Users : Backs(w, q, app[u], friends[u]) <=> Backs(w, r, app[u], friends[u])
  <2> SUFFICES ASSUME NEW w \in Users
               PROVE  (\E i \in 1..Len(q) : q[i].kind = "putFriends" /\ w \in Range(q[i].list))
                        <=> (\E i \in 1..Len(r) : r[i].kind = "putFriends" /\ w \in Range(r[i].list))
    BY <1>1, <1>6 DEF Backs
  <2>1. ASSUME NEW i \in 1..Len(q), q[i].kind = "putFriends", w \in Range(q[i].list)
        PROVE  \E j \in 1..Len(r) : r[j].kind = "putFriends" /\ w \in Range(r[j].list)
    <3>1. i # 1
      BY <1>1, <2>1
    <3> QED
      BY <1>5, <1>7, <2>1, <3>1
  <2>2. ASSUME NEW j \in 1..Len(r), r[j].kind = "putFriends", w \in Range(r[j].list)
        PROVE  \E i \in 1..Len(q) : q[i].kind = "putFriends" /\ w \in Range(q[i].list)
    BY <1>6, <2>2
  <2> QED
    BY <2>1, <2>2
<1>9. \A w \in Users : /\ Backs(w, queue[u], app[u], friends[u])
                            => Backs(w, queue'[u], app'[u], friends'[u])
                       /\ Backs(w, queue'[u], app'[u], friends'[u])
                            => Backs(w, queue[u], app[u], friends[u])
  BY <1>1, <1>3, <1>8 DEF q
<1>10. Backers \subseteq Backers'
  BY <1>1, <1>3, <1>9, MoreBackers
<1>11. \A w \in Users : request'[w] = request[w] \/ BackedList(request'[w], w, Backers')
  <2>1. 1 \in 1..Len(q)
    BY <1>1 DEF q
  <2>2. BackedList(q[1].list, q[1].who, Backers)
    BY <1>1, <1>2, <2>1 DEF BackedCalls
  <2>3. BackedList(q[1].list, q[1].who, Backers')
    BY <1>10, <2>2 DEF BackedList
  <2> QED
    BY <1>4, <2>3
<1>12. BackedCalls(queue'[u], Backers')
  BY <1>3, <1>6 DEF BackedCalls
<1>13. \A w \in Range(app'[u].rows) : <<w, u>> \in Backers
  BY <1>1 DEF BackedInv
<1> QED
  BY <1>1, <1>3, <1>9, <1>11, <1>12, <1>13, StepIsBacked

LEMMA PutFriendsIsBacked ==
  ASSUME TypeInv, TypeInv', CarefulInv, BackedInv, NEW u \in Users, PutFriends(u)
  PROVE  BackedInv'
<1>1. /\ UNCHANGED <<request, app, asked>>
      /\ queue[u] \in Seq(Calls) /\ queue[u] # <<>> /\ queue[u][1].kind = "putFriends"
      /\ friends' = [friends EXCEPT ![u] = queue[u][1].list]
      /\ IsPrefix(friends[u], queue[u][1].list)
      /\ queue'[u] = <<>> \/ (Len(queue'[u]) = 1 /\ queue'[u][1].kind = "loadList")
      /\ \A v \in Users : v # u => queue'[v] = queue[v]
      /\ Len(queue[u]) = 1 \/ (Len(queue[u]) = 2 /\ queue[u][2].kind = "loadList")
  BY PutFriendsWaits
<1>2. friends'[u] = queue[u][1].list /\ \A v \in Users : v # u => friends'[v] = friends[v]
  BY <1>1 DEF TypeInv, DataTyped
<1>3. Range(friends[u]) \subseteq Range(queue[u][1].list)
  <2>1. friends[u] \in Seq(Texts) /\ queue[u][1].list \in Seq(Texts)
    <3>1. queue[u][1] \in Calls
      BY <1>1
    <3> QED
      BY <3>1 DEF TypeInv, DataTyped, Calls
  <2> QED
    BY <1>1, <2>1, PrefixHasLess
<1>4. \A i \in 1..Len(queue[u]) : i = 1 \/ queue[u][i].kind # "putFriends"
  <2>1. CASE Len(queue[u]) = 1
    BY <2>1
  <2>2. CASE Len(queue[u]) = 2 /\ queue[u][2].kind = "loadList"
    <3>1. \A i \in 1..Len(queue[u]) : i = 1 \/ i = 2
      BY <2>2
    <3> QED
      BY <2>2, <3>1
  <2> QED
    BY <1>1, <2>1, <2>2
<1>5. \A i \in 1..Len(queue'[u]) : queue'[u][i].kind = "loadList"
  <2>1. CASE queue'[u] = <<>>
    BY <2>1
  <2>2. CASE Len(queue'[u]) = 1 /\ queue'[u][1].kind = "loadList"
    <3>1. \A i \in 1..Len(queue'[u]) : i = 1
      BY <2>2
    <3> QED
      BY <2>2, <3>1
  <2> QED
    BY <1>1, <2>1, <2>2
<1>6. \A w \in Users : Backs(w, queue[u], app[u], friends[u]) <=> w \in Range(queue[u][1].list)
  <2>1. 1 \in 1..Len(queue[u])
    BY <1>1
  <2> QED
    BY <1>1, <1>3, <1>4, <2>1 DEF Backs
<1>7. \A w \in Users : Backs(w, queue'[u], app'[u], friends'[u]) <=> w \in Range(queue[u][1].list)
  <2>1. queue'[u] # <<>> => queue'[u][1].kind # "addAsked"
    BY <1>1
  <2> QED
    BY <1>2, <1>5, <2>1 DEF Backs
<1>8. BackedCalls(queue'[u], Backers')
  BY <1>5 DEF BackedCalls
<1>9. \A w \in Range(app'[u].rows) : <<w, u>> \in Backers
  BY <1>1 DEF BackedInv
<1> QED
  BY <1>1, <1>2, <1>6, <1>7, <1>8, <1>9, StepIsBacked

LEMMA InitIsBacked == Init => BackedInv
<1> SUFFICES ASSUME Init PROVE BackedInv
  OBVIOUS
<1>1. Backers = {}
  <2> SUFFICES ASSUME NEW p \in Users \X Users,
                      Backs(p[2], queue[p[1]], app[p[1]], friends[p[1]])
               PROVE  FALSE
    BY DEF Backers
  <2>1. queue[p[1]] = <<>> /\ friends[p[1]] = <<>>
    BY DEF Init
  <2> QED
    BY <2>1 DEF Backs, Range
<1> QED
  BY <1>1 DEF Init, Home, BackedInv, BackedList, BackedCalls, IsInjective, Range

LEMMA NextIsBacked ==
  ASSUME Careful, MayDie = {}, TypeInv, CarefulInv, BackedInv, [Next]_vars
  PROVE  BackedInv'
<1>1. TypeInv' /\ CarefulInv'
  BY NextIsSound, NextWaits
<1>2. CASE UNCHANGED vars
  BY <1>2 DEF vars, BackedInv, Backers
<1>3. ASSUME NEW u \in Users, Person(u) PROVE BackedInv'
  <2>1. ASSUME NEW kind \in TapKinds, Tap(u, kind) PROVE PlainStep(u)
    BY <2>1, TapIsPlain
  <2>2. ASSUME NEW x \in Texts, Search(u, x) \/ EditText(u, x) PROVE PlainStep(u)
    BY <2>2, SearchIsPlain DEF EditText
  <2>3. ASSUME NEW i \in DOMAIN app[u].rows, AddReq(u, i) \/ RemoveReq(u, i) PROVE PlainStep(u)
    BY <2>3, AddReqIsPlain, RemoveReqIsPlain
  <2>4. CASE Back(u) \/ Submit(u)
    <3>1. PlainStep(u)
      BY <2>4, BackIsPlain, SubmitIsPlain
    <3> QED
      BY <1>1, <3>1, PlainIsBacked
  <2>5. CASE Done(u)
    <3>1. IdleStep(u)
      BY <2>5, DoneIsIdle
    <3> QED
      BY <3>1, IdleIsBacked
  <2>6. CASE PlainStep(u)
    BY <1>1, <2>6, PlainIsBacked
  <2> QED
    BY <1>3, <2>1, <2>2, <2>3, <2>4, <2>5, <2>6 DEF Person
<1>4. ASSUME NEW u \in Users, Serve(u) PROVE BackedInv'
  <2>1. CASE \/ OpenAdd(u) \/ LoadAdd(u) \/ Find(u) \/ CheckFriends(u) \/ CheckRequests(u)
             \/ OpenRequests(u) \/ LoadName(u) \/ LoadList(u) \/ LoadNames(u)
    <3>1. PlainStep(u)
      BY <2>1, OpenAddIsPlain, LoadAddIsPlain, FindIsPlain, CheckFriendsIsPlain,
         CheckRequestsIsPlain, OpenRequestsIsPlain, LoadNameIsPlain, LoadListIsPlain,
         LoadNamesIsPlain
    <3> QED
      BY <1>1, <3>1, PlainIsBacked
  <2>2. CASE Ask(u)
    BY <1>1, <2>2, AskIsBacked
  <2>3. CASE AddAsked(u)
    BY <1>1, <2>3, AddAskedIsBacked
  <2>4. CASE TakeRequest(u)
    BY <1>1, <2>4, TakeRequestIsBacked
  <2>5. CASE TakeFriend(u)
    BY <1>1, <2>5, TakeFriendIsBacked
  <2>6. CASE DropRequest(u)
    BY <1>1, <2>6, DropRequestIsBacked
  <2>7. CASE PutRequest(u)
    BY <1>1, <2>7, PutRequestIsBacked
  <2>8. CASE PutFriends(u)
    BY <1>1, <2>8, PutFriendsIsBacked
  <2> QED
    BY <1>4, <2>1, <2>2, <2>3, <2>4, <2>5, <2>6, <2>7, <2>8 DEF Serve
<1> QED
  BY <1>2, <1>3, <1>4 DEF Next, Die

LEMMA BackedStays ==
  ASSUME Careful, MayDie = {}
  PROVE  Spec => [](TypeInv /\ BackedInv)
<1>1. TypeInv /\ CarefulInv /\ BackedInv /\ [Next]_vars => BackedInv'
  BY NextIsBacked
<1> QED
  BY <1>1, StagesStay, InitIsBacked, PTL DEF Spec

\* Who backs somebody has them as a friend, or a pending call adds them.
LEMMA BackingIsAdding ==
  ASSUME TypeInv, NEW v \in Users, NEW u \in Users, <<v, u>> \in Backers
  PROVE  u \in Range(friends[v]) \/ Adding(v, u)
<1>1. Backs(u, queue[v], app[v], friends[v])
  BY BackersOf
<1>2. queue[v] \in Seq(Calls)
  BY DEF TypeInv, Sound
<1>3. DOMAIN queue[v] = 1..Len(queue[v])
  BY <1>2
<1>4. queue[v] # <<>> => 1 \in 1..Len(queue[v])
  BY <1>2
<1> QED
  BY <1>1, <1>3, <1>4 DEF Backs, Adding

\* While people wait for what they tapped and no app is stopped, nobody is in a
\* list of requests twice, whichever of two people's lists overwrites the
\* other's: no request page ever has a row without a name.
THEOREM NobodyAsksTwice ==
  ASSUME Careful, MayDie = {}
  PROVE  Spec => []RequestsAreDistinct
<1>1. BackedInv => RequestsAreDistinct
  BY DEF BackedInv, BackedList, RequestsAreDistinct
<1> QED
  BY <1>1, BackedStays, PTL

\* Under the same conditions a request that is shown comes from one who has the
\* other as a friend, or is about to: accepting it makes the friendship mutual.
THEOREM AskersAreBehindRequests ==
  ASSUME Careful, MayDie = {}
  PROVE  Spec => []RequestsAreBacked
<1>1. TypeInv /\ BackedInv => RequestsAreBacked
  <2> SUFFICES ASSUME TypeInv, BackedInv, NEW u \in Users, NEW v \in Users,
                      v \in Range(request[u])
               PROVE  u \in Range(friends[v]) \/ Adding(v, u)
    BY DEF RequestsAreBacked
  <2>1. <<v, u>> \in Backers
    BY DEF BackedInv, BackedList
  <2> QED
    BY <2>1, BackingIsAdding
<1> QED
  BY <1>1, BackedStays, PTL

\* Under the same conditions a friendship is one-sided only on the side of the
\* one who asked: the two writes of accepting are never seen by halves.
THEOREM OneSideAsked ==
  ASSUME Careful, MayDie = {}
  PROVE  Spec => []OnlyAskersAreOneSided
<1>1. TypeInv /\ BackedInv => OnlyAskersAreOneSided
  <2> SUFFICES ASSUME TypeInv, BackedInv, NEW u \in Users, NEW v \in Users,
                      v \in Range(friends[u]), u \notin Range(friends[v]), ~Adding(v, u)
               PROVE  <<u, v>> \in asked
    BY DEF OnlyAskersAreOneSided
  <2>1. <<u, v>> \in Backers
    BY BackersOf DEF Backs
  <2>2. ~(<<v, u>> \in Backers)
    BY BackingIsAdding
  <2> QED
    BY <2>1, <2>2 DEF BackedInv
<1> QED
  BY <1>1, BackedStays, PTL

=============================================================================
