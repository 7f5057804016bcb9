---------------------------- MODULE AccountsProofs ----------------------------
(***************************************************************************)
(* That every variable keeps its type and every write its place; and, when *)
(* no two people want the same name, that a name leads back to the one who *)
(* has it, that taken names stay taken and lists that are used are not     *)
(* emptied, and that the account and its two records agree when nothing is *)
(* under way.  For any numbers of people, names and calls.                 *)
(***************************************************************************)
EXTENDS Accounts, SequenceProofs

-----------------------------------------------------------------------------
(* One device of p: its queue q, its call c to Auth, its screen a; and the  *)
(* record un under p's uid, and the users us.                              *)

Screens == [page : {"out", "signUp", "main", "setup", "update"},
            name : Names \cup {None}, display : Displays \cup {None},
            picked : BOOLEAN, uploading : BOOLEAN,
            child : Names \cup {None}, alert : BOOLEAN,
            mayName : BOOLEAN, ended : BOOLEAN]

Typed ==
  /\ auth \in [People -> [there : BOOLEAN, display : Displays \cup {None}]]
  /\ username \in [People -> [name : Names, display : Displays \cup {None}] \cup {Unset}]
  /\ user \in [Names -> [uid : People, display : Displays \cup {None}] \cup {Free}]
  /\ lists \in [Names -> {"missing", "empty", "used"}]
  /\ signedIn \in [People -> BOOLEAN]
  /\ queue \in [People -> Seq(Calls)]
  /\ call \in [People -> {None, "create", "commitNew", "commitUpdate"}]
  /\ app \in [People -> Screens]

\* What is tapped and answered before anything else is touched.
Asks == {"checkNew", "checkSetup", "openUpdate"}

NoAsks(q) == \A i \in 1..Len(q) : q[i].kind \notin Asks

\* A call writes to places that p wants, and reads what is there.
CallFits(p, x, c, a, un, us) ==
  /\ x.kind = "putUser" => <<p, x.at>> \in Wanted /\ <<x.value.uid, x.at>> \in Wanted
  /\ x.kind \in {"putUsername", "putLists"} => <<p, x.at>> \in Wanted
  /\ x.kind \in {"loadChild", "editUsername", "editUser"} => un # Unset
  /\ x.kind = "editUser" => us[x.at] # Free /\ <<p, x.at>> \in Wanted
  /\ x.kind \in Asks => c = None /\ ~a.alert
  /\ x.kind \in {"checkNew", "checkSetup"} => <<p, a.name>> \in Wanted

\* The user n is there, or is before the i-th call.
Comes(n, i, q, us) ==
  us[n] # Free \/ \E j \in 1..Len(q) : j < i /\ q[j].kind = "putUser" /\ q[j].at = n

QueueFits(p, q, c, a, un, us) ==
  /\ \A i \in 1..Len(q) : CallFits(p, q[i], c, a, un, us)
  /\ \A i, j \in 1..Len(q) : q[i].kind \in Asks /\ q[j].kind \in Asks => i = j
  /\ \A i \in 1..Len(q) : q[i].kind \in {"putUsername", "putLists"} => Comes(q[i].at, i, q, us)

PageFits(p, c, a, un, us) ==
  /\ c # None => ~a.alert
  /\ c \in {"create", "commitNew"} => <<p, a.name>> \in Wanted
  /\ a.page = "update" \/ c = "commitUpdate" => un # Unset
  /\ a.child # None => us[a.child] # Free /\ <<p, a.child>> \in Wanted
  /\ un # Unset => <<p, un.name>> \in Wanted /\ us[un.name] # Free

Owned == \A n \in Names : user[n] # Free => <<user[n].uid, n>> \in Wanted

Fits(p) ==
  /\ QueueFits(p, queue[p], call[p], app[p], username[p], user)
  /\ PageFits(p, call[p], app[p], username[p], user)

NamesInv == Typed /\ Owned /\ \A p \in People : Fits(p)

\* Users do not go away, and names are not taken back.
Grow(us, vs) == \A n \in Names : us[n] # Free => vs[n] # Free

\* Of the page and of Auth, a call that waits to be answered sees the same.
SameToAsks(c, a, d, b) == (c = None => d = None) /\ (b.alert => a.alert) /\ b.name = a.name

-----------------------------------------------------------------------------
(* Queues.                                                                 *)

LEMMA CallsAreTyped ==
  ASSUME NEW x \in Calls
  PROVE  /\ x.kind \in Writes \cup Reads /\ x.value \in Records /\ x.at \in Names \cup {None}
         /\ x.kind \in Writes \cup {"editUser"} => x.at \in Names
  BY DEF Calls, Writes, Reads

LEMMA ReadIsCall ==
  ASSUME NEW kind \in Reads, kind # "editUser"
  PROVE  Call(kind) \in Calls /\ Call(kind).kind = kind /\ Call(kind).at = None
  BY DEF Call, Calls, Records, Free

\* What is behind the first call.
LEMMA TailOf ==
  ASSUME NEW q \in Seq(Calls), q # <<>>
  PROVE  LET r == Tail(q) IN
         /\ r \in Seq(Calls) /\ Len(q) \in Nat /\ 1 \in 1..Len(q)
         /\ Head(q) = q[1] /\ q[1] \in Calls
         /\ \A i \in 1..Len(r) : i \in Nat /\ i + 1 \in 1..Len(q) /\ r[i] = q[i + 1]
         /\ \A i \in 1..Len(q) : i # 1 => i - 1 \in 1..Len(r) /\ r[i - 1] = q[i]
  OBVIOUS

\* Calls that are sent come behind all others.
LEMMA SentTo ==
  ASSUME NEW q \in Seq(Calls), NEW calls \in Seq(Calls)
  PROVE  LET r == q \o calls IN
         /\ r \in Seq(Calls) /\ Len(q) \in Nat /\ Len(calls) \in Nat
         /\ Len(r) = Len(q) + Len(calls)
         /\ \A i \in 1..Len(q) : i \in 1..Len(r) /\ r[i] = q[i]
         /\ \A i \in 1..Len(calls) : Len(q) + i \in 1..Len(r) /\ r[Len(q) + i] = calls[i]
         /\ \A i \in 1..Len(r) :
              \/ i \in 1..Len(q) /\ r[i] = q[i]
              \/ i > Len(q) /\ i - Len(q) \in 1..Len(calls) /\ r[i] = calls[i - Len(q)]
  OBVIOUS

\* Some of the calls, in their order; of these kinds, all up to the last one.
PartOf(e, r, q, kinds) ==
  /\ e \in [1..Len(r) -> 1..Len(q)]
  /\ \A i \in 1..Len(r) : r[i] = q[e[i]]
  /\ \A i, j \in 1..Len(r) : i < j => e[i] < e[j]
  /\ \A i \in 1..Len(r) : \A k \in 1..Len(q) :
       k < e[i] /\ q[k].kind \in kinds => \E j \in 1..Len(r) : j < i /\ e[j] = k

LEMMA SelectionIsPart ==
  ASSUME NEW q \in Seq(Calls), NEW kinds
  PROVE  LET r == OfKind(q, kinds) IN
         /\ r \in Seq(Calls) /\ \A i \in 1..Len(r) : r[i].kind \in kinds
         /\ \E e : /\ PartOf(e, r, q, kinds)
                   /\ \A k \in 1..Len(q) : q[k].kind \in kinds => \E j \in 1..Len(r) : e[j] = k
<1> DEFINE r == OfKind(q, kinds)
<1>1. PICK e : r \in Seq(Calls) /\ Selects(e, r, q, Len(q), kinds)
  BY SelectionIsOrdered
<1> HIDE DEF r
<1>2. ASSUME NEW i \in 1..Len(r), NEW k \in 1..Len(q), k < e[i], q[k].kind \in kinds
      PROVE  \E j \in 1..Len(r) : j < i /\ e[j] = k
  <2>1. PICK j \in 1..Len(r) : e[j] = k
    BY <1>1, <1>2 DEF Selects
  <2>2. i \in Nat /\ j \in Nat /\ e[i] \in Nat /\ e[j] \in Nat
    <3>1. e \in [1..Len(r) -> 1..Len(q)]
      BY <1>1 DEF Selects
    <3>2. e[i] \in 1..Len(q) /\ e[j] \in 1..Len(q)
      BY <3>1
    <3> QED
      BY <3>2
  <2>3. ~(i < j) /\ i # j
    <3>1. i < j => e[i] < e[j]
      BY <1>1 DEF Selects
    <3> QED
      BY <1>2, <2>1, <2>2, <3>1
  <2> QED
    BY <2>1, <2>2, <2>3
<1>3. PartOf(e, r, q, kinds)
  BY <1>1, <1>2 DEF PartOf, Selects
<1> QED
  BY <1>1, <1>3 DEF r, Selects

LEMMA BeginningIsPart ==
  ASSUME NEW q \in Seq(Calls), NEW w \in Seq(Calls), NEW e, NEW kinds,
         PartOf(e, w, q, kinds), NEW m \in 0..Len(w)
  PROVE  LET r == SubSeq(w, 1, m) IN
         /\ r \in Seq(Calls) /\ \A i \in 1..Len(r) : i \in 1..Len(w) /\ r[i] = w[i]
         /\ \E d : PartOf(d, r, q, kinds)
<1> DEFINE r == SubSeq(w, 1, m)
<1>1. /\ r \in Seq(Calls) /\ Len(r) = m /\ m <= Len(w)
      /\ \A i \in 1..Len(r) : i \in 1..Len(w) /\ r[i] = w[i]
  OBVIOUS
<1> HIDE DEF r
<1> DEFINE d == [i \in 1..Len(r) |-> e[i]]
<1>2. d \in [1..Len(r) -> 1..Len(q)] /\ \A i \in 1..Len(r) : d[i] = e[i] /\ r[i] = q[d[i]]
  BY <1>1 DEF PartOf
<1> HIDE DEF d
<1>3. \A i, j \in 1..Len(r) : i < j => d[i] < d[j]
  BY <1>1, <1>2 DEF PartOf
<1>4. ASSUME NEW i \in 1..Len(r), NEW k \in 1..Len(q), k < d[i], q[k].kind \in kinds
      PROVE  \E j \in 1..Len(r) : j < i /\ d[j] = k
  <2>1. PICK j \in 1..Len(w) : j < i /\ e[j] = k
    BY <1>1, <1>2, <1>4 DEF PartOf
  <2>2. j \in 1..Len(r)
    BY <1>1, <2>1
  <2> QED
    BY <1>2, <2>1, <2>2
<1>5. PartOf(d, r, q, kinds)
  BY <1>2, <1>3, <1>4 DEF PartOf
<1> QED
  BY <1>1, <1>5 DEF r

-----------------------------------------------------------------------------
(* What becomes of a queue that fits.                                      *)

LEMMA EmptyFits ==
  ASSUME NEW p, NEW c, NEW a, NEW un, NEW us
  PROVE  QueueFits(p, <<>>, c, a, un, us)
  BY DEF QueueFits

LEMMA TailFits ==
  ASSUME NEW p, NEW q \in Seq(Calls), q # <<>>, NEW c, NEW a, NEW un, NEW us,
         QueueFits(p, q, c, a, un, us), q[1].kind = "putUser" => us[q[1].at] # Free
  PROVE  /\ QueueFits(p, Tail(q), c, a, un, us) /\ CallFits(p, q[1], c, a, un, us)
         /\ q[1].kind \in Asks => NoAsks(Tail(q))
<1> DEFINE r == Tail(q)
<1>1. /\ r \in Seq(Calls) /\ Len(q) \in Nat /\ 1 \in 1..Len(q)
      /\ \A i \in 1..Len(r) : i \in Nat /\ i + 1 \in 1..Len(q) /\ r[i] = q[i + 1]
      /\ \A i \in 1..Len(q) : i # 1 => i - 1 \in 1..Len(r) /\ r[i - 1] = q[i]
  BY TailOf
<1> HIDE DEF r
<1>2. \A i \in 1..Len(r) : CallFits(p, r[i], c, a, un, us)
  BY <1>1 DEF QueueFits
<1>3. \A i, j \in 1..Len(r) : r[i].kind \in Asks /\ r[j].kind \in Asks => i = j
  BY <1>1 DEF QueueFits
<1>4. ASSUME NEW i \in 1..Len(r), r[i].kind \in {"putUsername", "putLists"}
      PROVE  Comes(r[i].at, i, r, us)
  <2>1. Comes(q[i + 1].at, i + 1, q, us)
    BY <1>1, <1>4 DEF QueueFits
  <2>2. CASE us[r[i].at] # Free
    BY <2>2 DEF Comes
  <2>3. CASE us[r[i].at] = Free
    <3>1. PICK j \in 1..Len(q) : j < i + 1 /\ q[j].kind = "putUser" /\ q[j].at = r[i].at
      BY <1>1, <2>1, <2>3 DEF Comes
    <3>2. j # 1
      BY <2>3, <3>1
    <3>3. j - 1 \in 1..Len(r) /\ r[j - 1] = q[j] /\ j - 1 < i
      BY <1>1, <3>1, <3>2
    <3> QED
      BY <3>1, <3>3 DEF Comes
  <2> QED
    BY <2>2, <2>3
<1>5. q[1].kind \in Asks => NoAsks(r)
  <2> SUFFICES ASSUME q[1].kind \in Asks, NEW i \in 1..Len(r), r[i].kind \in Asks PROVE FALSE
    BY DEF NoAsks
  <2>1. i + 1 = 1
    BY <1>1 DEF QueueFits
  <2> QED
    BY <1>1, <2>1
<1> QED
  BY <1>1, <1>2, <1>3, <1>4, <1>5 DEF QueueFits, r

\* The page, the call or the records turn into others.
LEMMA TurnFits ==
  ASSUME NEW p, NEW q \in Seq(Calls), NEW c, NEW a, NEW un, NEW us, NEW d, NEW b, NEW vn, NEW vs,
         QueueFits(p, q, c, a, un, us), Wanted \subseteq People \X Names,
         SameToAsks(c, a, d, b) \/ NoAsks(q), un # Unset => vn # Unset, Grow(us, vs)
  PROVE  QueueFits(p, q, d, b, vn, vs)
<1>1. ASSUME NEW i \in 1..Len(q) PROVE CallFits(p, q[i], d, b, vn, vs)
  <2>1. CallFits(p, q[i], c, a, un, us)
    BY DEF QueueFits
  <2>2. q[i].kind \in Asks => SameToAsks(c, a, d, b)
    BY DEF NoAsks
  <2>3. q[i].kind \in {"checkNew", "checkSetup"} => q[i].kind \in Asks
    BY DEF Asks
  <2>4. <<p, q[i].at>> \in Wanted => q[i].at \in Names
    OBVIOUS
  <2> QED
    BY <2>1, <2>2, <2>3, <2>4 DEF CallFits, SameToAsks, Grow
<1>2. ASSUME NEW i \in 1..Len(q), q[i].kind \in {"putUsername", "putLists"}
      PROVE  Comes(q[i].at, i, q, vs)
  <2>1. Comes(q[i].at, i, q, us) /\ <<p, q[i].at>> \in Wanted
    BY <1>2 DEF QueueFits, CallFits
  <2>2. q[i].at \in Names
    BY <2>1
  <2> QED
    BY <2>1, <2>2 DEF Comes, Grow
<1> QED
  BY <1>1, <1>2 DEF QueueFits

\* More calls are sent.
LEMMA SentFits ==
  ASSUME NEW p, NEW q \in Seq(Calls), NEW calls \in Seq(Calls), NEW c, NEW a, NEW un, NEW us,
         QueueFits(p, q, c, a, un, us), QueueFits(p, calls, c, a, un, us),
         NoAsks(q) \/ NoAsks(calls)
  PROVE  QueueFits(p, q \o calls, c, a, un, us)
<1> DEFINE r == q \o calls
           n == Len(q)
<1>1. /\ r \in Seq(Calls) /\ n \in Nat /\ Len(calls) \in Nat /\ Len(r) = n + Len(calls)
      /\ \A i \in 1..n : i \in 1..Len(r) /\ r[i] = q[i]
      /\ \A i \in 1..Len(calls) : n + i \in 1..Len(r) /\ r[n + i] = calls[i]
      /\ \A i \in 1..Len(r) :
           \/ i \in 1..n /\ r[i] = q[i]
           \/ i > n /\ i - n \in 1..Len(calls) /\ r[i] = calls[i - n]
  BY SentTo
<1> HIDE DEF r
<1>2. \A i \in 1..Len(r) : CallFits(p, r[i], c, a, un, us)
  BY <1>1 DEF QueueFits
<1>3. ASSUME NEW i \in 1..Len(r), NEW j \in 1..Len(r), r[i].kind \in Asks, r[j].kind \in Asks
      PROVE  i = j
  <2>1. CASE i \in 1..n /\ j \in 1..n
    BY <1>1, <1>3, <2>1 DEF QueueFits
  <2>2. CASE i \notin 1..n /\ j \notin 1..n
    <3>1. i - n \in 1..Len(calls) /\ j - n \in 1..Len(calls) /\ r[i] = calls[i - n] /\ r[j] = calls[j - n]
      BY <1>1, <2>2
    <3>2. i - n = j - n
      BY <1>3, <3>1 DEF QueueFits
    <3> QED
      BY <1>1, <3>2
  <2>3. CASE (i \in 1..n /\ j \notin 1..n) \/ (i \notin 1..n /\ j \in 1..n)
    BY <1>1, <1>3, <2>3 DEF NoAsks
  <2> QED
    BY <2>1, <2>2, <2>3
<1>4. ASSUME NEW i \in 1..Len(r), r[i].kind \in {"putUsername", "putLists"}
      PROVE  Comes(r[i].at, i, r, us)
  <2>1. CASE i \in 1..n
    <3>1. Comes(q[i].at, i, q, us) /\ r[i] = q[i]
      BY <1>1, <1>4, <2>1 DEF QueueFits
    <3> QED
      BY <1>1, <3>1 DEF Comes
  <2>2. CASE i \notin 1..n
    <3>1. i - n \in 1..Len(calls) /\ r[i] = calls[i - n]
      BY <1>1, <2>2
    <3>2. Comes(r[i].at, i - n, calls, us)
      BY <1>4, <3>1 DEF QueueFits
    <3>3. CASE us[r[i].at] # Free
      BY <3>3 DEF Comes
    <3>4. ASSUME NEW j \in 1..Len(calls), j < i - n, calls[j].kind = "putUser", calls[j].at = r[i].at
          PROVE  Comes(r[i].at, i, r, us)
      <4>1. n + j \in 1..Len(r) /\ r[n + j] = calls[j] /\ n + j < i
        BY <1>1, <3>4
      <4> QED
        BY <3>4, <4>1 DEF Comes
    <3> QED
      BY <3>2, <3>3, <3>4 DEF Comes
  <2> QED
    BY <2>1, <2>2
<1> QED
  BY <1>2, <1>3, <1>4 DEF QueueFits, r

LEMMA PartFits ==
  ASSUME NEW p, NEW q \in Seq(Calls), NEW r \in Seq(Calls), NEW e, NEW kinds,
         PartOf(e, r, q, kinds), "putUser" \in kinds, NEW c, NEW a, NEW un, NEW us,
         QueueFits(p, q, c, a, un, us)
  PROVE  QueueFits(p, r, c, a, un, us)
<1>1. \A i \in 1..Len(r) : i \in Nat /\ e[i] \in 1..Len(q) /\ r[i] = q[e[i]]
  BY DEF PartOf
<1>2. \A i \in 1..Len(r) : CallFits(p, r[i], c, a, un, us)
  BY <1>1 DEF QueueFits
<1>3. ASSUME NEW i \in 1..Len(r), NEW j \in 1..Len(r), r[i].kind \in Asks, r[j].kind \in Asks
      PROVE  i = j
  <2>1. e[i] = e[j]
    BY <1>1, <1>3 DEF QueueFits
  <2>2. e[i] \in Nat /\ ~(i < j) /\ ~(j < i)
    <3>1. (i < j => e[i] < e[j]) /\ (j < i => e[j] < e[i])
      BY DEF PartOf
    <3> QED
      BY <1>1, <2>1, <3>1
  <2> QED
    BY <1>1, <2>2
<1>4. ASSUME NEW i \in 1..Len(r), r[i].kind \in {"putUsername", "putLists"}
      PROVE  Comes(r[i].at, i, r, us)
  <2>1. Comes(r[i].at, e[i], q, us)
    BY <1>1, <1>4 DEF QueueFits
  <2>2. CASE us[r[i].at] # Free
    BY <2>2 DEF Comes
  <2>3. ASSUME NEW k \in 1..Len(q), k < e[i], q[k].kind = "putUser", q[k].at = r[i].at
        PROVE  Comes(r[i].at, i, r, us)
    <3>1. PICK j \in 1..Len(r) : j < i /\ e[j] = k
      BY <2>3 DEF PartOf
    <3> QED
      BY <1>1, <2>3, <3>1 DEF Comes
  <2> QED
    BY <2>1, <2>2, <2>3 DEF Comes
<1> QED
  BY <1>2, <1>3, <1>4 DEF QueueFits

\* The calls that the pages send.
LEMMA OneFits ==
  ASSUME NEW p, NEW x \in Calls, NEW c, NEW a, NEW un, NEW us, CallFits(p, x, c, a, un, us),
         x.kind \in {"putUsername", "putLists"} => us[x.at] # Free
  PROVE  /\ <<x>> \in Seq(Calls) /\ QueueFits(p, <<x>>, c, a, un, us)
         /\ x.kind \notin Asks => NoAsks(<<x>>)
<1> DEFINE q == <<x>>
<1>1. q \in Seq(Calls) /\ \A i \in 1..Len(q) : q[i] = x /\ i = 1
  OBVIOUS
<1> HIDE DEF q
<1> QED
  BY <1>1 DEF QueueFits, NoAsks, Comes, q

LEMMA NameFits ==
  ASSUME NEW p \in People, NEW n \in Names, NEW d \in Displays \cup {None},
         NEW c, NEW a, NEW un, NEW us, <<p, n>> \in Wanted
  PROVE  LET q == TakesName(p, n, d) IN
         q \in Seq(Calls) /\ QueueFits(p, q, c, a, un, us) /\ NoAsks(q)
<1> DEFINE q == TakesName(p, n, d)
           record == [uid |-> p, display |-> d]
           x == [Call("putUser") EXCEPT !.at = n, !.value = record]
           y == [Call("putUsername") EXCEPT !.at = n, !.value = record]
           z == [Call("putLists") EXCEPT !.at = n]
<1>1. record \in Records /\ record.uid = p
  BY DEF Records
<1> HIDE DEF record
<1>2. x \in Calls /\ x.kind = "putUser" /\ x.at = n /\ x.value.uid = p
  BY <1>1 DEF Call, Calls, Writes
<1>3. y \in Calls /\ y.kind = "putUsername" /\ y.at = n
  BY <1>1 DEF Call, Calls, Writes
<1>4. z \in Calls /\ z.kind = "putLists" /\ z.at = n
  BY DEF Call, Calls, Writes, Records, Free
<1>5. q = <<x, y, z>>
  BY DEF TakesName, record
<1> HIDE DEF q, x, y, z
<1>6. /\ q \in Seq(Calls) /\ 1..Len(q) = {1, 1 + 1, 1 + 1 + 1} /\ 1 < 1 + 1 /\ 1 < 1 + 1 + 1
      /\ q[1] = x /\ q[1 + 1] = y /\ q[1 + 1 + 1] = z
  BY <1>2, <1>3, <1>4, <1>5
<1>7. CallFits(p, x, c, a, un, us) /\ CallFits(p, y, c, a, un, us) /\ CallFits(p, z, c, a, un, us)
  BY <1>2, <1>3, <1>4 DEF CallFits, Asks
<1>8. NoAsks(q)
  BY <1>2, <1>3, <1>4, <1>6 DEF NoAsks, Asks
<1>9. ASSUME NEW i \in 1..Len(q), q[i].kind \in {"putUsername", "putLists"}
      PROVE  Comes(q[i].at, i, q, us)
  <2>1. q[i].at = n /\ 1 < i
    BY <1>2, <1>3, <1>4, <1>6, <1>9
  <2> QED
    BY <1>2, <1>6, <2>1 DEF Comes
<1>10. QueueFits(p, q, c, a, un, us)
  BY <1>6, <1>7, <1>8, <1>9 DEF QueueFits, NoAsks
<1> QED
  BY <1>6, <1>8, <1>10 DEF q

-----------------------------------------------------------------------------
(* One step of one person.                                                 *)

\* Nothing of the others is touched.
Alone(p) ==
  \A o \in People : o # p =>
    queue'[o] = queue[o] /\ call'[o] = call[o] /\ app'[o] = app[o] /\ username'[o] = username[o]

LEMMA OthersFit ==
  ASSUME NamesInv, NEW p \in People, Typed', Owned', Alone(p), Grow(user, user'), Fits(p)'
  PROVE  NamesInv'
<1> SUFFICES ASSUME NEW o \in People, o # p PROVE Fits(o)'
  BY DEF NamesInv
<1>1. /\ queue'[o] = queue[o] /\ call'[o] = call[o] /\ app'[o] = app[o]
      /\ username'[o] = username[o] /\ queue[o] \in Seq(Calls)
  BY DEF Alone, NamesInv, Typed
<1>2. /\ QueueFits(o, queue[o], call[o], app[o], username[o], user)
      /\ PageFits(o, call[o], app[o], username[o], user)
  BY DEF NamesInv, Fits
<1>3. Wanted \subseteq People \X Names
  BY WantedNames
<1>4. QueueFits(o, queue[o], call[o], app[o], username[o], user')
  BY <1>1, <1>2, <1>3, TurnFits DEF SameToAsks
<1>5. PageFits(o, call[o], app[o], username[o], user')
  <2>1. \A n : <<o, n>> \in Wanted => n \in Names
    BY <1>3
  <2> QED
    BY <1>2, <2>1 DEF PageFits, Grow
<1> QED
  BY <1>1, <1>4, <1>5 DEF Fits

\* The page or the call to Auth changes, and a call that asks sees no
\* difference.
LEMMA PageStep ==
  ASSUME NamesInv, NEW p \in People, NEW c \in {None, "create", "commitNew", "commitUpdate"},
         NEW a \in Screens, call' = [call EXCEPT ![p] = c], app' = [app EXCEPT ![p] = a],
         auth' \in [People -> [there : BOOLEAN, display : Displays \cup {None}]],
         signedIn' \in [People -> BOOLEAN], UNCHANGED <<database, queue>>,
         SameToAsks(call[p], app[p], c, a) \/ NoAsks(queue[p]),
         PageFits(p, c, a, username[p], user)
  PROVE  NamesInv'
<1>1. Typed'
  BY DEF NamesInv, Typed, database
<1>2. Owned' /\ Alone(p) /\ Grow(user, user')
  BY DEF NamesInv, Owned, Typed, Alone, Grow, database
<1>3. call'[p] = c /\ app'[p] = a /\ queue[p] \in Seq(Calls)
  BY DEF NamesInv, Typed
<1>4. QueueFits(p, queue[p], c, a, username[p], user)
  BY <1>3, WantedNames, TurnFits DEF NamesInv, Fits, Grow
<1>5. Fits(p)'
  BY <1>3, <1>4 DEF Fits, database
<1> QED
  BY <1>1, <1>2, <1>5, OthersFit

\* So does the queue, if what comes of it fits.
LEMMA QueueStep ==
  ASSUME NamesInv, NEW p \in People, NEW c \in {None, "create", "commitNew", "commitUpdate"},
         NEW a \in Screens, NEW q \in Seq(Calls),
         call' = [call EXCEPT ![p] = c], app' = [app EXCEPT ![p] = a],
         queue' = [queue EXCEPT ![p] = q],
         auth' \in [People -> [there : BOOLEAN, display : Displays \cup {None}]],
         signedIn' \in [People -> BOOLEAN], UNCHANGED database,
         QueueFits(p, q, c, a, username[p], user),
         PageFits(p, c, a, username[p], user)
  PROVE  NamesInv'
<1>1. Typed'
  BY DEF NamesInv, Typed, database
<1>2. Owned' /\ Alone(p) /\ Grow(user, user')
  BY DEF NamesInv, Owned, Typed, Alone, Grow, database
<1>3. call'[p] = c /\ app'[p] = a /\ queue'[p] = q
  BY DEF NamesInv, Typed
<1>4. Fits(p)'
  BY <1>3 DEF Fits, database
<1> QED
  BY <1>1, <1>2, <1>4, OthersFit

\* A variable that stays is one in which p's part is set to what it is.
LEMMA Stays ==
  ASSUME NamesInv, NEW p \in People
  PROVE  /\ call = [call EXCEPT ![p] = call[p]] /\ app = [app EXCEPT ![p] = app[p]]
         /\ queue = [queue EXCEPT ![p] = queue[p]]
  BY DEF NamesInv, Typed

LEMMA PartsOf ==
  ASSUME NamesInv, NEW p \in People
  PROVE  /\ queue[p] \in Seq(Calls) /\ app[p] \in Screens
         /\ call[p] \in {None, "create", "commitNew", "commitUpdate"}
         /\ username[p] \in [name : Names, display : Displays \cup {None}] \cup {Unset}
         /\ username[p] # Unset => username[p].name \in Names
         /\ auth \in [People -> [there : BOOLEAN, display : Displays \cup {None}]]
         /\ auth[p].display \in Displays \cup {None}
         /\ signedIn \in [People -> BOOLEAN]
         /\ QueueFits(p, queue[p], call[p], app[p], username[p], user)
         /\ PageFits(p, call[p], app[p], username[p], user)
         /\ app[p].alert \/ call[p] # None => NoAsks(queue[p])
<1>1. QueueFits(p, queue[p], call[p], app[p], username[p], user)
  BY DEF NamesInv, Fits
<1>2. app[p].alert \/ call[p] # None => NoAsks(queue[p])
  BY <1>1 DEF QueueFits, CallFits, NoAsks
<1> QED
  BY <1>1, <1>2 DEF NamesInv, Typed, Fits, Unset

LEMMA OnAsksNothing ==
  ASSUME NEW p, NEW page, On(p, page)
  PROVE  call[p] = None /\ ~app[p].alert /\ app[p].page = page /\ NoAsks(queue[p])
  BY DEF On, NoAsks, Asks

\* What a page that comes up holds.
LEMMA GoesTo ==
  ASSUME NamesInv, NEW p \in People, NEW page \in {"out", "signUp", "main", "setup", "update"}
  PROVE  LET a == [Empty EXCEPT !.page = page, !.mayName = app[p].mayName /\ page # "out",
                                !.ended = app[p].ended] IN
         /\ a \in Screens /\ a.page = page /\ ~a.alert /\ a.name = None /\ a.child = None
         /\ page # "update" \/ username[p] # Unset => PageFits(p, None, a, username[p], user)
<1> DEFINE a == [Empty EXCEPT !.page = page, !.mayName = app[p].mayName /\ page # "out",
                              !.ended = app[p].ended]
<1>1. app[p].mayName \in BOOLEAN /\ app[p].ended \in BOOLEAN
  BY PartsOf DEF Screens
<1>2. Empty \in Screens /\ ~Empty.alert /\ Empty.name = None /\ Empty.child = None
  BY DEF Empty, Screens
<1>3. a \in Screens /\ a.page = page /\ ~a.alert /\ a.name = None /\ a.child = None
  BY <1>1, <1>2 DEF Screens
<1> HIDE DEF a
<1>4. page # "update" \/ username[p] # Unset => PageFits(p, None, a, username[p], user)
  BY <1>3, PartsOf DEF PageFits, None
<1> QED
  BY <1>3, <1>4 DEF a

-----------------------------------------------------------------------------
(* Every action.                                                           *)

\* A page comes up while nothing is asked.
LEMMA GoesKeeps ==
  ASSUME NamesInv, NEW p \in People, NEW page \in {"out", "signUp", "main", "setup"},
         NoAsks(queue[p]), call[p] = None, Goes(p, page), UNCHANGED <<database, queue, call>>,
         auth' \in [People -> [there : BOOLEAN, display : Displays \cup {None}]],
         signedIn' \in [People -> BOOLEAN]
  PROVE  NamesInv'
<1> DEFINE a == [Empty EXCEPT !.page = page, !.mayName = app[p].mayName /\ page # "out",
                              !.ended = app[p].ended]
<1>1. a \in Screens /\ PageFits(p, None, a, username[p], user)
  BY GoesTo, ZenonT(30)
<1>2. app' = [app EXCEPT ![p] = a]
  BY DEF Goes
<1>3. call' = [call EXCEPT ![p] = None]
  BY Stays
<1> HIDE DEF a
<1> QED
  BY <1>1, <1>2, <1>3, PageStep

LEMMA MovesKeep ==
  ASSUME NamesInv, NEW p \in People,
         \/ OpenSignUp(p) \/ DismissSignUp(p) \/ OpenSetup(p) \/ DismissSetup(p)
         \/ SignIn(p) \/ (\E d \in Displays : SignInElsewhere(p, d)) \/ Done(p)
  PROVE  NamesInv'
<1>1. /\ auth \in [People -> [there : BOOLEAN, display : Displays \cup {None}]]
      /\ signedIn \in [People -> BOOLEAN]
  BY PartsOf
<1>2. CASE OpenSignUp(p) \/ DismissSignUp(p) \/ OpenSetup(p) \/ DismissSetup(p)
  BY <1>1, <1>2, OnAsksNothing, GoesKeeps
       DEF OpenSignUp, DismissSignUp, OpenSetup, DismissSetup, database
<1>3. CASE SignIn(p)
  BY <1>1, <1>3, OnAsksNothing, GoesKeeps DEF SignIn, database
<1>4. ASSUME NEW d \in Displays, SignInElsewhere(p, d) PROVE NamesInv'
  <2>1. auth' \in [People -> [there : BOOLEAN, display : Displays \cup {None}]]
    BY <1>1, <1>4 DEF SignInElsewhere
  <2> QED
    BY <1>1, <1>4, <2>1, OnAsksNothing, GoesKeeps DEF SignInElsewhere, database
<1>5. CASE Done(p)
  <2>1. app[p].alert /\ call[p] = None /\ NoAsks(queue[p])
    BY <1>5, PartsOf DEF Done, PageFits
  <2> QED
    BY <1>1, <1>5, <2>1, GoesKeeps DEF Done, database
<1> QED
  BY <1>2, <1>3, <1>4, <1>5

LEMMA FieldsKeep ==
  ASSUME NamesInv, NEW p \in People,
         ChoosePicture(p) \/ Uploaded(p) \/ \E d \in Displays : TapUpdate(p, d)
  PROVE  NamesInv'
<1>1. /\ auth \in [People -> [there : BOOLEAN, display : Displays \cup {None}]]
      /\ signedIn \in [People -> BOOLEAN] /\ app[p] \in Screens
      /\ call[p] \in {None, "create", "commitNew", "commitUpdate"}
      /\ PageFits(p, call[p], app[p], username[p], user)
  BY PartsOf
<1>2. call = [call EXCEPT ![p] = call[p]]
  BY Stays
<1>3. CASE ChoosePicture(p)
  <2> DEFINE a == [app[p] EXCEPT !.uploading = TRUE]
  <2>1. a \in Screens /\ a.alert = app[p].alert /\ a.name = app[p].name
        /\ a.page = app[p].page /\ a.child = app[p].child
    BY <1>1 DEF Screens
  <2>2. app' = [app EXCEPT ![p] = a] /\ UNCHANGED <<auth, database, signedIn, queue, call>>
    BY <1>3 DEF ChoosePicture
  <2> HIDE DEF a
  <2>3. PageFits(p, call[p], a, username[p], user) /\ SameToAsks(call[p], app[p], call[p], a)
    BY <1>1, <2>1 DEF PageFits, SameToAsks
  <2> QED
    BY <1>1, <1>2, <2>1, <2>2, <2>3, PageStep
<1>4. CASE Uploaded(p)
  <2>1. PICK done \in BOOLEAN :
          app' = [app EXCEPT ![p].uploading = FALSE, ![p].picked = @ \/ (done /\ signedIn[p])]
    BY <1>4 DEF Uploaded
  <2> DEFINE picked == app[p].picked \/ (done /\ signedIn[p])
             a == [app[p] EXCEPT !.uploading = FALSE, !.picked = picked]
  <2>2. picked \in BOOLEAN
    OBVIOUS
  <2>3. app' = [app EXCEPT ![p] = a] /\ UNCHANGED <<auth, database, signedIn, queue, call>>
    BY <1>4, <2>1 DEF Uploaded, NamesInv, Typed, Screens
  <2> HIDE DEF picked
  <2>4. a \in Screens /\ a.alert = app[p].alert /\ a.name = app[p].name
        /\ a.page = app[p].page /\ a.child = app[p].child
    BY <1>1, <2>2 DEF Screens
  <2> HIDE DEF a
  <2>5. PageFits(p, call[p], a, username[p], user) /\ SameToAsks(call[p], app[p], call[p], a)
    BY <1>1, <2>4 DEF PageFits, SameToAsks
  <2> QED
    BY <1>1, <1>2, <2>3, <2>4, <2>5, PageStep
<1>5. ASSUME NEW d \in Displays, TapUpdate(p, d) PROVE NamesInv'
  <2> DEFINE a == [app[p] EXCEPT !.display = d]
  <2>1. a \in Screens /\ ~a.alert /\ a.page = "update" /\ a.child = app[p].child
    BY <1>1, <1>5 DEF Screens, TapUpdate, On
  <2>2. /\ app' = [app EXCEPT ![p] = a] /\ call' = [call EXCEPT ![p] = "commitUpdate"]
        /\ UNCHANGED <<auth, database, signedIn, queue>>
    BY <1>5 DEF TapUpdate
  <2>3. NoAsks(queue[p]) /\ app[p].page = "update"
    BY <1>5, OnAsksNothing DEF TapUpdate
  <2> HIDE DEF a
  <2>4. PageFits(p, "commitUpdate", a, username[p], user)
    BY <1>1, <2>1, <2>3 DEF PageFits
  <2> QED
    BY <1>1, <2>1, <2>2, <2>3, <2>4, PageStep
<1> QED
  BY <1>3, <1>4, <1>5

\* A call is sent from a page.
LEMMA TapsKeep ==
  ASSUME NamesInv, NEW p \in People, NEW kind \in {"checkNew", "checkSetup", "openUpdate", "showName"},
         NEW a \in Screens, call[p] = None, ~a.alert, NoAsks(queue[p]),
         kind \in {"checkNew", "checkSetup"} => <<p, a.name>> \in Wanted,
         PageFits(p, None, a, username[p], user),
         app' = [app EXCEPT ![p] = a], Sends(p, <<Call(kind)>>),
         UNCHANGED <<auth, database, signedIn, call>>
  PROVE  NamesInv'
<1> DEFINE x == Call(kind)
           q == queue[p] \o <<x>>
<1>1. x \in Calls /\ x.kind = kind
  BY ReadIsCall DEF Reads
<1>2. queue' = [queue EXCEPT ![p] = q] /\ call' = [call EXCEPT ![p] = None]
  BY Stays DEF Sends
<1>3. queue[p] \in Seq(Calls) /\ QueueFits(p, queue[p], None, app[p], username[p], user)
      /\ auth \in [People -> [there : BOOLEAN, display : Displays \cup {None}]]
      /\ signedIn \in [People -> BOOLEAN]
  BY PartsOf
<1> HIDE DEF x
<1>4. CallFits(p, x, None, a, username[p], user)
  BY <1>1 DEF CallFits
<1>5. <<x>> \in Seq(Calls) /\ QueueFits(p, <<x>>, None, a, username[p], user)
  BY <1>1, <1>4, OneFits
<1>6. QueueFits(p, queue[p], None, a, username[p], user)
  BY <1>3, WantedNames, TurnFits DEF Grow
<1>7. q \in Seq(Calls) /\ QueueFits(p, q, None, a, username[p], user)
  <2>1. q \in Seq(Calls)
    BY <1>3, <1>5, SentTo
  <2>2. queue[p] \in Seq(Calls) /\ <<x>> \in Seq(Calls) /\ NoAsks(queue[p])
    BY <1>3, <1>5
  <2>3. QueueFits(p, <<x>>, None, a, username[p], user)
    BY <1>5
  <2>4. QueueFits(p, queue[p], None, a, username[p], user)
    BY <1>6
  <2> QED
    BY <2>1, <2>2, <2>3, <2>4, SentFits
<1> HIDE DEF q
<1> QED
  BY <1>2, <1>3, <1>7, QueueStep

LEMMA AsksKeep ==
  ASSUME NamesInv, NEW p \in People,
         \/ \E n \in Names, d \in Displays : <<p, n>> \in Wanted /\ TapSignUp(p, n, d)
         \/ \E n \in Names : <<p, n>> \in Wanted /\ TapSetup(p, n)
         \/ OpenProfile(p) \/ TapProfile(p)
  PROVE  NamesInv'
<1>1. app[p] \in Screens /\ PageFits(p, call[p], app[p], username[p], user)
  BY PartsOf
<1>2. ASSUME NEW n \in Names, NEW d \in Displays, <<p, n>> \in Wanted, TapSignUp(p, n, d)
      PROVE  NamesInv'
  <2> DEFINE a == [app[p] EXCEPT !.name = n, !.display = d]
  <2>1. call[p] = None /\ ~app[p].alert /\ NoAsks(queue[p])
    BY <1>2, OnAsksNothing DEF TapSignUp
  <2>2. a \in Screens /\ ~a.alert /\ a.name = n /\ a.page = app[p].page /\ a.child = app[p].child
    BY <1>1, <2>1 DEF Screens
  <2>3. app' = [app EXCEPT ![p] = a]
    BY <1>2 DEF TapSignUp, NamesInv, Typed, Screens
  <2> HIDE DEF a
  <2>4. PageFits(p, None, a, username[p], user)
    BY <1>1, <2>1, <2>2 DEF PageFits, None
  <2> QED
    BY <1>2, <2>1, <2>2, <2>3, <2>4, TapsKeep DEF TapSignUp
<1>3. ASSUME NEW n \in Names, <<p, n>> \in Wanted, TapSetup(p, n)
      PROVE  NamesInv'
  <2> DEFINE a == [app[p] EXCEPT !.name = n]
  <2>1. call[p] = None /\ ~app[p].alert /\ NoAsks(queue[p])
    BY <1>3, OnAsksNothing DEF TapSetup
  <2>2. a \in Screens /\ ~a.alert /\ a.name = n /\ a.page = app[p].page /\ a.child = app[p].child
    BY <1>1, <2>1 DEF Screens
  <2>3. app' = [app EXCEPT ![p] = a]
    BY <1>3 DEF TapSetup, NamesInv, Typed, Screens
  <2> HIDE DEF a
  <2>4. PageFits(p, None, a, username[p], user)
    BY <1>1, <2>1, <2>2 DEF PageFits, None
  <2> QED
    BY <1>3, <2>1, <2>2, <2>3, <2>4, TapsKeep DEF TapSetup
<1>4. CASE OpenProfile(p) \/ TapProfile(p)
  <2>1. call[p] = None /\ ~app[p].alert /\ NoAsks(queue[p])
    BY <1>4, OnAsksNothing DEF OpenProfile, TapProfile
  <2>2. app' = [app EXCEPT ![p] = app[p]] /\ UNCHANGED <<auth, database, signedIn, call>>
    BY <1>4, Stays DEF OpenProfile, TapProfile
  <2>3. Sends(p, <<Call("showName")>>) \/ Sends(p, <<Call("openUpdate")>>)
    BY <1>4 DEF OpenProfile, TapProfile
  <2> QED
    BY <1>1, <2>1, <2>2, <2>3, TapsKeep
<1> QED
  BY <1>2, <1>3, <1>4

\* The app starts again; the account may have been changed before.
LEMMA RestartKeeps ==
  ASSUME NamesInv, NEW p \in People, Restart(p), UNCHANGED <<database, signedIn>>,
         auth' \in [People -> [there : BOOLEAN, display : Displays \cup {None}]]
  PROVE  NamesInv'
<1> DEFINE w == OfKind(queue[p], Writes)
           a == [Empty EXCEPT !.page = IF signedIn[p] THEN "main" ELSE "out", !.ended = TRUE]
<1>1. PICK m \in 0..Len(w) : queue' = [queue EXCEPT ![p] = SubSeq(w, 1, m)]
  BY DEF Restart
<1>2. app' = [app EXCEPT ![p] = a] /\ call' = [call EXCEPT ![p] = None]
  BY DEF Restart
<1>3. queue[p] \in Seq(Calls) /\ QueueFits(p, queue[p], call[p], app[p], username[p], user)
      /\ PageFits(p, call[p], app[p], username[p], user)
      /\ signedIn' \in [People -> BOOLEAN]
  BY PartsOf
<1>4. /\ w \in Seq(Calls) /\ \A i \in 1..Len(w) : w[i].kind \in Writes
      /\ \E e : PartOf(e, w, queue[p], Writes)
  BY <1>3, SelectionIsPart
<1>5. a \in Screens /\ a.page \in {"main", "out"} /\ a.child = None
  BY DEF Empty, Screens
<1> HIDE DEF a, w
<1> DEFINE q == SubSeq(w, 1, m)
<1>6. PICK e : PartOf(e, w, queue[p], Writes)
  BY <1>4
<1>7. /\ q \in Seq(Calls) /\ \A i \in 1..Len(q) : i \in 1..Len(w) /\ q[i] = w[i]
      /\ \E d : PartOf(d, q, queue[p], Writes)
  BY <1>3, <1>4, <1>6, BeginningIsPart
<1>8. queue' = [queue EXCEPT ![p] = q]
  BY <1>1
<1> HIDE DEF q
<1>9. QueueFits(p, q, call[p], app[p], username[p], user)
  <2>1. "putUser" \in Writes
    BY DEF Writes
  <2> QED
    BY <1>3, <1>7, <2>1, PartFits
<1>10. NoAsks(q)
  BY <1>4, <1>7 DEF NoAsks, Writes, Asks
<1>11. QueueFits(p, q, None, a, username[p], user)
  BY <1>7, <1>9, <1>10, WantedNames, TurnFits DEF Grow
<1>12. PageFits(p, None, a, username[p], user)
  BY <1>3, <1>5 DEF PageFits, None
<1> QED
  BY <1>2, <1>3, <1>5, <1>7, <1>8, <1>11, <1>12, QueueStep

\* A call to Auth is answered.
LEMMA AuthKeeps ==
  ASSUME NamesInv, NEW p \in People, CreateUser(p) \/ CommitNew(p) \/ CommitUpdate(p)
  PROVE  NamesInv'
<1>1. /\ auth \in [People -> [there : BOOLEAN, display : Displays \cup {None}]]
      /\ signedIn \in [People -> BOOLEAN] /\ app[p] \in Screens /\ queue[p] \in Seq(Calls)
      /\ app[p].display \in Displays \cup {None}
      /\ app[p].child \in Names \cup {None}
      /\ PageFits(p, call[p], app[p], username[p], user)
      /\ QueueFits(p, queue[p], call[p], app[p], username[p], user)
  BY PartsOf DEF Screens
<1>2. call[p] # None /\ NoAsks(queue[p])
  BY PartsOf DEF CreateUser, CommitNew, CommitUpdate, None
<1>3. PageFits(p, None, app[p], username[p], user)
  BY <1>1 DEF PageFits, None
<1> DEFINE a == [app[p] EXCEPT !.alert = TRUE]
<1>4. a \in Screens /\ a.name = app[p].name /\ a.page = app[p].page /\ a.child = app[p].child
  BY <1>1 DEF Screens
<1> HIDE DEF a
<1>5. PageFits(p, None, a, username[p], user)
  BY <1>3, <1>4 DEF PageFits
<1>6. QueueFits(p, queue[p], None, a, username[p], user)
  BY <1>1, <1>2, WantedNames, TurnFits DEF Grow
<1>7. app = [app EXCEPT ![p] = app[p]]
  BY Stays
<1>8. ASSUME NEW calls \in Seq(Calls), QueueFits(p, calls, None, a, username[p], user),
             queue' = [queue EXCEPT ![p] = @ \o calls], app' = [app EXCEPT ![p] = a],
             call' = [call EXCEPT ![p] = None], UNCHANGED database,
             auth' \in [People -> [there : BOOLEAN, display : Displays \cup {None}]],
             signedIn' \in [People -> BOOLEAN]
      PROVE  NamesInv'
  <2> DEFINE q == queue[p] \o calls
  <2>1. q \in Seq(Calls)
    BY <1>1, SentTo
  <2>2. QueueFits(p, q, None, a, username[p], user)
    BY <1>1, <1>2, <1>6, <1>8, SentFits
  <2>3. queue' = [queue EXCEPT ![p] = q]
    BY <1>8
  <2> HIDE DEF q
  <2> QED
    BY <1>4, <1>5, <1>8, <2>1, <2>2, <2>3, QueueStep
<1>9. CASE CreateUser(p)
  <2>1. PageFits(p, "commitNew", app[p], username[p], user)
    BY <1>1, <1>9 DEF PageFits, CreateUser, None
  <2>2. CASE ~auth[p].there /\ call' = [call EXCEPT ![p] = "commitNew"]
              /\ auth' = [auth EXCEPT ![p].there = TRUE] /\ signedIn' = [signedIn EXCEPT ![p] = TRUE]
    <3>1. /\ auth' \in [People -> [there : BOOLEAN, display : Displays \cup {None}]]
          /\ signedIn' \in [People -> BOOLEAN]
      BY <1>1, <2>2
    <3>2. UNCHANGED <<database, queue, app>>
      BY <1>9 DEF CreateUser
    <3> QED
      BY <1>1, <1>2, <1>7, <2>1, <2>2, <3>1, <3>2, PageStep
  <2>3. CASE call' = [call EXCEPT ![p] = None] /\ UNCHANGED <<auth, signedIn>>
    BY <1>1, <1>2, <1>3, <1>7, <1>9, <2>3, PageStep DEF CreateUser
  <2> QED
    BY <1>9, <2>2, <2>3 DEF CreateUser
<1>10. CASE CommitNew(p)
  <2> DEFINE calls == TakesName(p, app[p].name, DisplayAfter(p))
  <2>1. <<p, app[p].name>> \in Wanted /\ app[p].name \in Names
    BY <1>1, <1>10, WantedNames DEF CommitNew, PageFits
  <2>2. calls \in Seq(Calls) /\ QueueFits(p, calls, None, a, username[p], user)
    BY <1>1, <2>1, NameFits DEF DisplayAfter
  <2> HIDE DEF calls
  <2>3. CASE /\ auth' = [auth EXCEPT ![p].display = app[p].display]
             /\ Sends(p, calls) /\ app' = [app EXCEPT ![p].alert = TRUE]
    <3>1. auth' \in [People -> [there : BOOLEAN, display : Displays \cup {None}]]
      BY <1>1, <2>3
    <3>2. app' = [app EXCEPT ![p] = a] /\ queue' = [queue EXCEPT ![p] = @ \o calls]
      BY <2>3 DEF Sends, a
    <3>3. call' = [call EXCEPT ![p] = None] /\ UNCHANGED <<database, signedIn>>
      BY <1>10 DEF CommitNew
    <3> QED
      BY <1>1, <1>8, <2>2, <3>1, <3>2, <3>3
  <2>4. CASE UNCHANGED <<auth, queue, app>>
    BY <1>1, <1>2, <1>3, <1>7, <1>10, <2>4, PageStep DEF CommitNew
  <2> QED
    BY <1>10, <2>3, <2>4 DEF CommitNew, calls
<1>11. CASE CommitUpdate(p)
  <2> DEFINE x == [Call("editUsername") EXCEPT !.value = Changes(p)]
             y == [Call("editUser") EXCEPT !.at = app[p].child, !.value = Changes(p)]
             calls == <<x, y>>
  <2>1. UNCHANGED database
    BY <1>11 DEF CommitUpdate
  <2>2. auth' = [auth EXCEPT ![p].display = app[p].display] =>
          auth' \in [People -> [there : BOOLEAN, display : Displays \cup {None}]]
    BY <1>1
  <2>3. CASE /\ app[p].child # None
             /\ auth' = [auth EXCEPT ![p].display = app[p].display]
             /\ Sends(p, UpdateCalls(p)) /\ signedIn' = [signedIn EXCEPT ![p] = FALSE]
             /\ app' = [app EXCEPT ![p].alert = TRUE] /\ call' = [call EXCEPT ![p] = None]
    <3>1. username[p] # Unset
      BY <1>1, <1>11 DEF CommitUpdate, PageFits
    <3>2. Changes(p) \in Records
      BY <1>1 DEF Changes, Records, Free
    <3>3. x \in Calls /\ x.kind = "editUsername" /\ y \in Calls /\ y.kind = "editUser" /\ y.at = app[p].child
      BY <1>1, <2>3, <3>2 DEF Call, Calls, Reads
    <3>4. queue' = [queue EXCEPT ![p] = @ \o calls] /\ app' = [app EXCEPT ![p] = a]
      BY <2>3 DEF Sends, UpdateCalls, a, x, y, calls
    <3> HIDE DEF x, y
    <3>5. CallFits(p, x, None, a, username[p], user) /\ CallFits(p, y, None, a, username[p], user)
      BY <1>1, <2>3, <3>1, <3>3 DEF CallFits, PageFits, Asks
    <3>6. /\ calls \in Seq(Calls) /\ 1..Len(calls) = {1, 1 + 1}
          /\ calls[1] = x /\ calls[1 + 1] = y
      BY <3>3
    <3> HIDE DEF calls
    <3>7. QueueFits(p, calls, None, a, username[p], user)
      BY <3>3, <3>5, <3>6 DEF QueueFits, Asks
    <3>8. signedIn' \in [People -> BOOLEAN]
      BY <1>1, <2>3
    <3> QED
      BY <1>8, <2>1, <2>2, <2>3, <3>4, <3>6, <3>7, <3>8
  <2>4. CASE auth' = [auth EXCEPT ![p].display = app[p].display] /\ UpdateTraps(p)
    BY <2>1, <2>2, <2>4, RestartKeeps DEF UpdateTraps
  <2>5. CASE call' = [call EXCEPT ![p] = None] /\ UNCHANGED <<auth, queue, signedIn, app>>
    BY <1>1, <1>2, <1>3, <1>7, <2>1, <2>5, PageStep
  <2> QED
    BY <1>11, <2>3, <2>4, <2>5 DEF CommitUpdate
<1> QED
  BY <1>9, <1>10, <1>11

\* The first call goes, and the one or more that it leads to are sent.
LEMMA ServeStep ==
  ASSUME NamesInv, NEW p \in People, NEW a \in Screens, NEW calls \in Seq(Calls),
         queue[p] # <<>>, Head(queue[p]).kind # "putUser",
         NEW c \in {None, "create", "commitNew", "commitUpdate"},
         SameToAsks(call[p], app[p], c, a) \/ Head(queue[p]).kind \in Asks,
         QueueFits(p, calls, c, a, username[p], user), NoAsks(calls),
         Makes(p, calls), app' = [app EXCEPT ![p] = a], call' = [call EXCEPT ![p] = c],
         UNCHANGED <<auth, database, signedIn>>,
         PageFits(p, c, a, username[p], user)
  PROVE  NamesInv'
<1> DEFINE t == Tail(queue[p])
           q == t \o calls
<1>1. queue[p] \in Seq(Calls) /\ QueueFits(p, queue[p], call[p], app[p], username[p], user)
      /\ auth \in [People -> [there : BOOLEAN, display : Displays \cup {None}]]
      /\ signedIn \in [People -> BOOLEAN]
  BY PartsOf
<1>2. t \in Seq(Calls) /\ Head(queue[p]) = queue[p][1]
  BY <1>1, TailOf
<1>3. QueueFits(p, t, call[p], app[p], username[p], user)
      /\ (Head(queue[p]).kind \in Asks => NoAsks(t))
  BY <1>1, <1>2, TailFits
<1>4. queue' = [queue EXCEPT ![p] = q]
  BY DEF Makes
<1> HIDE DEF t
<1>5. QueueFits(p, t, c, a, username[p], user)
  BY <1>2, <1>3, WantedNames, TurnFits DEF Grow
<1>6. q \in Seq(Calls)
  BY <1>2, SentTo
<1>7. QueueFits(p, q, c, a, username[p], user)
  BY <1>2, <1>5, SentFits
<1> HIDE DEF q
<1> QED
  BY <1>1, <1>4, <1>6, <1>7, QueueStep

LEMMA EmptySends ==
  ASSUME NEW p, NEW c, NEW a, NEW un, NEW us
  PROVE  <<>> \in Seq(Calls) /\ QueueFits(p, <<>>, c, a, un, us) /\ NoAsks(<<>>)
  BY EmptyFits DEF NoAsks

\* The call that is dealt with.
LEMMA FirstFits ==
  ASSUME NamesInv, NEW p \in People, queue[p] # <<>>
  PROVE  LET x == Head(queue[p]) IN
         /\ x \in Calls /\ x.value \in Records /\ x.at \in Names \cup {None}
         /\ CallFits(p, x, call[p], app[p], username[p], user)
         /\ x.kind \in {"putUsername", "putLists"} => user[x.at] # Free
<1> DEFINE q == queue[p]
<1>1. q \in Seq(Calls) /\ QueueFits(p, q, call[p], app[p], username[p], user)
  BY PartsOf
<1>2. 1 \in 1..Len(q) /\ Head(q) = q[1] /\ q[1] \in Calls
  BY <1>1, TailOf
<1>3. CallFits(p, q[1], call[p], app[p], username[p], user)
  BY <1>1, <1>2 DEF QueueFits
<1>4. q[1].kind \in {"putUsername", "putLists"} => user[q[1].at] # Free
  <2> SUFFICES ASSUME q[1].kind \in {"putUsername", "putLists"} PROVE user[q[1].at] # Free
    OBVIOUS
  <2>1. Comes(q[1].at, 1, q, user)
    BY <1>1, <1>2 DEF QueueFits
  <2> QED
    BY <2>1 DEF Comes
<1>5. q[1].value \in Records /\ q[1].at \in Names \cup {None}
  BY <1>2, CallsAreTyped
<1> QED
  BY <1>2, <1>3, <1>4, <1>5

LEMMA LooksKeep ==
  ASSUME NamesInv, NEW p \in People, CheckNew(p) \/ CheckSetup(p) \/ ShowName(p)
  PROVE  NamesInv'
<1> DEFINE x == Head(queue[p])
<1>1. /\ app[p] \in Screens /\ PageFits(p, call[p], app[p], username[p], user)
      /\ call[p] \in {None, "create", "commitNew", "commitUpdate"}
      /\ auth[p].display \in Displays \cup {None}
  BY PartsOf
<1>2. queue[p] # <<>>
  BY DEF CheckNew, CheckSetup, ShowName, First
<1>3. CallFits(p, x, call[p], app[p], username[p], user)
  BY <1>2, FirstFits
<1>4. call = [call EXCEPT ![p] = call[p]] /\ app = [app EXCEPT ![p] = app[p]]
  BY Stays
<1>5. CASE CheckNew(p)
  <2>1. x.kind = "checkNew" /\ Makes(p, <<>>) /\ UNCHANGED <<auth, database, signedIn, app>>
    BY <1>5 DEF CheckNew, First
  <2>2. x.kind \in Asks /\ x.kind # "putUser"
    BY <2>1 DEF Asks
  <2>3. call[p] = None /\ ~app[p].alert /\ <<p, app[p].name>> \in Wanted
    BY <1>3, <2>1, <2>2 DEF CallFits
  <2>4. PageFits(p, "create", app[p], username[p], user)
    BY <1>1, <2>3 DEF PageFits
  <2>5. call' = [call EXCEPT ![p] = "create"] \/ call' = [call EXCEPT ![p] = call[p]]
    BY <1>4, <1>5 DEF CheckNew
  <2> QED
    BY <1>1, <1>2, <1>4, <2>1, <2>2, <2>4, <2>5, EmptySends, ServeStep
<1>6. CASE CheckSetup(p)
  <2>1. x.kind = "checkSetup" /\ UNCHANGED <<auth, database, signedIn, call>>
    BY <1>6 DEF CheckSetup, First
  <2>2. x.kind \in Asks /\ x.kind # "putUser"
    BY <2>1 DEF Asks
  <2>3. call[p] = None /\ <<p, app[p].name>> \in Wanted
    BY <1>3, <2>1, <2>2 DEF CallFits
  <2> DEFINE a == [app[p] EXCEPT !.alert = TRUE]
             calls == TakesName(p, app[p].name, auth[p].display)
  <2>4. a \in Screens /\ a.name = app[p].name /\ a.page = app[p].page /\ a.child = app[p].child
    BY <1>1 DEF Screens
  <2>5. app[p].name \in Names
    BY <2>3, WantedNames
  <2>6. calls \in Seq(Calls) /\ QueueFits(p, calls, call[p], a, username[p], user) /\ NoAsks(calls)
    BY <1>1, <2>3, <2>5, NameFits
  <2>7. CASE Makes(p, calls) /\ app' = [app EXCEPT ![p].alert = TRUE]
    <3>1. app' = [app EXCEPT ![p] = a] /\ Makes(p, calls)
      BY <2>7
    <3> HIDE DEF a, calls
    <3>2. PageFits(p, call[p], a, username[p], user)
      BY <1>1, <2>3, <2>4 DEF PageFits, None
    <3> QED
      BY <1>1, <1>2, <1>4, <2>1, <2>2, <2>4, <2>6, <3>1, <3>2, ServeStep
  <2>8. CASE Makes(p, <<>>) /\ UNCHANGED app
    BY <1>1, <1>2, <1>4, <2>1, <2>2, <2>8, EmptySends, ServeStep
  <2> QED
    BY <1>6, <2>7, <2>8 DEF CheckSetup
<1>7. CASE ShowName(p)
  <2>1. x.kind # "putUser" /\ Makes(p, <<>>) /\ UNCHANGED <<auth, database, signedIn, call>>
    BY <1>7 DEF ShowName, First
  <2> DEFINE a == [app[p] EXCEPT !.mayName = TRUE]
  <2>2. a \in Screens /\ a.name = app[p].name /\ a.page = app[p].page /\ a.child = app[p].child
        /\ a.alert = app[p].alert
    BY <1>1 DEF Screens
  <2>3. app' = [app EXCEPT ![p] = a] \/ app' = [app EXCEPT ![p] = app[p]]
    BY <1>4, <1>7 DEF ShowName
  <2> HIDE DEF a
  <2>4. PageFits(p, call[p], a, username[p], user) /\ SameToAsks(call[p], app[p], call[p], a)
        /\ SameToAsks(call[p], app[p], call[p], app[p])
    BY <1>1, <2>2 DEF PageFits, SameToAsks
  <2> QED
    BY <1>1, <1>2, <1>4, <2>1, <2>2, <2>3, <2>4, EmptySends, ServeStep
<1> QED
  BY <1>5, <1>6, <1>7

LEMMA ProfileKeeps ==
  ASSUME NamesInv, NEW p \in People, OpenUpdate(p) \/ LoadChild(p) \/ EditUsername(p)
  PROVE  NamesInv'
<1> DEFINE x == Head(queue[p])
           un == username[p]
<1>1. /\ app[p] \in Screens /\ PageFits(p, call[p], app[p], un, user)
      /\ call[p] \in {None, "create", "commitNew", "commitUpdate"}
      /\ un # Unset => un.name \in Names
  BY PartsOf
<1>2. queue[p] # <<>>
  BY DEF OpenUpdate, LoadChild, EditUsername, First
<1>3. CallFits(p, x, call[p], app[p], un, user) /\ x.value \in Records
  BY <1>2, FirstFits
<1>4. call = [call EXCEPT ![p] = call[p]] /\ app = [app EXCEPT ![p] = app[p]]
  BY Stays
<1>5. CASE OpenUpdate(p)
  <2>1. x.kind = "openUpdate" /\ UNCHANGED <<auth, database, signedIn, call>>
    BY <1>5 DEF OpenUpdate, First
  <2>2. x.kind \in Asks /\ x.kind # "putUser"
    BY <2>1 DEF Asks
  <2>3. call[p] = None /\ ~app[p].alert
    BY <1>3, <2>2 DEF CallFits
  <2>4. CASE HasName(p) /\ Goes(p, "update") /\ Makes(p, <<Call("loadChild")>>)
    <3> DEFINE a == [Empty EXCEPT !.page = "update", !.mayName = app[p].mayName /\ "update" # "out",
                                  !.ended = app[p].ended]
               y == Call("loadChild")
    <3>1. y \in Calls /\ y.kind = "loadChild"
      BY ReadIsCall DEF Reads
    <3>2. a \in Screens /\ PageFits(p, None, a, un, user)
      BY <2>4, GoesTo DEF HasName
    <3>3. app' = [app EXCEPT ![p] = a] /\ Makes(p, <<y>>)
      BY <2>4 DEF Goes
    <3> HIDE DEF a, y
    <3>4. CallFits(p, y, None, a, un, user)
      BY <2>4, <3>1 DEF CallFits, Asks, HasName
    <3>5. <<y>> \in Seq(Calls) /\ QueueFits(p, <<y>>, None, a, un, user) /\ NoAsks(<<y>>)
      BY <3>1, <3>4, OneFits DEF Asks
    <3> QED
      BY <1>1, <1>2, <1>4, <2>1, <2>2, <2>3, <3>2, <3>3, <3>5, ServeStep
  <2>5. CASE app' = [app EXCEPT ![p].mayName = TRUE] /\ Makes(p, <<>>)
    <3> DEFINE a == [app[p] EXCEPT !.mayName = TRUE]
    <3>1. a \in Screens /\ a.name = app[p].name /\ a.page = app[p].page /\ a.child = app[p].child
          /\ a.alert = app[p].alert
      BY <1>1 DEF Screens
    <3>2. app' = [app EXCEPT ![p] = a]
      BY <2>5
    <3> HIDE DEF a
    <3>3. PageFits(p, call[p], a, un, user)
      BY <1>1, <3>1 DEF PageFits
    <3> QED
      BY <1>1, <1>2, <1>4, <2>1, <2>2, <2>5, <3>1, <3>2, <3>3, EmptySends, ServeStep
  <2> QED
    BY <1>5, <2>4, <2>5 DEF OpenUpdate
<1>6. CASE LoadChild(p)
  <2>1. x.kind = "loadChild" /\ Makes(p, <<>>) /\ UNCHANGED <<auth, database, signedIn, call>>
    BY <1>6 DEF LoadChild, First
  <2>2. un # Unset
    BY <1>3, <2>1 DEF CallFits
  <2> DEFINE a == [app[p] EXCEPT !.child = un.name]
  <2>3. a \in Screens /\ a.name = app[p].name /\ a.page = app[p].page /\ a.child = un.name
        /\ a.alert = app[p].alert
    BY <1>1, <2>2 DEF Screens
  <2>4. app' = [app EXCEPT ![p] = a]
    BY <1>6 DEF LoadChild
  <2> HIDE DEF a
  <2>5. PageFits(p, call[p], a, un, user) /\ SameToAsks(call[p], app[p], call[p], a)
    BY <1>1, <2>2, <2>3 DEF PageFits, SameToAsks
  <2> QED
    BY <1>1, <1>2, <1>4, <2>1, <2>3, <2>4, <2>5, EmptySends, ServeStep
<1>7. CASE EditUsername(p)
  <2> DEFINE y == [Call("putUsername") EXCEPT !.at = un.name, !.value = x.value]
  <2>1. x.kind = "editUsername" /\ Makes(p, <<y>>) /\ UNCHANGED <<auth, database, signedIn, call, app>>
    BY <1>7 DEF EditUsername, First
  <2>2. un # Unset
    BY <1>3, <2>1 DEF CallFits
  <2>3. <<p, un.name>> \in Wanted /\ user[un.name] # Free
    BY <1>1, <2>2 DEF PageFits
  <2>4. y \in Calls /\ y.kind = "putUsername" /\ y.at = un.name
    BY <1>1, <1>3, <2>2 DEF Call, Calls, Writes
  <2> HIDE DEF x, y, un
  <2>5. CallFits(p, y, call[p], app[p], un, user)
    BY <2>3, <2>4 DEF CallFits, Asks
  <2>6. <<y>> \in Seq(Calls) /\ QueueFits(p, <<y>>, call[p], app[p], un, user) /\ NoAsks(<<y>>)
    BY <2>3, <2>4, <2>5, OneFits DEF Asks
  <2>7. SameToAsks(call[p], app[p], call[p], app[p])
    BY DEF SameToAsks
  <2> QED
    BY <1>1, <1>2, <1>4, <2>1, <2>6, <2>7, ServeStep DEF x, un
<1> QED
  BY <1>5, <1>6, <1>7

\* A page goes, and what it asked for with it.
LEMMA LeavesKeep ==
  ASSUME NamesInv, NEW p \in People, SignOut(p) \/ BackFromUpdate(p)
  PROVE  NamesInv'
<1> DEFINE page == IF SignOut(p) THEN "out" ELSE "main"
           a == [Empty EXCEPT !.page = page, !.mayName = app[p].mayName /\ page # "out",
                              !.ended = app[p].ended]
           kind == IF SignOut(p) THEN "showName" ELSE "loadChild"
           kinds == (Writes \cup Reads) \ {kind}
           q == OfKind(queue[p], kinds)
<1>1. queue[p] \in Seq(Calls) /\ QueueFits(p, queue[p], call[p], app[p], username[p], user)
      /\ auth \in [People -> [there : BOOLEAN, display : Displays \cup {None}]]
      /\ signedIn \in [People -> BOOLEAN]
  BY PartsOf
<1>2. call[p] = None /\ NoAsks(queue[p])
  BY OnAsksNothing DEF SignOut, BackFromUpdate
<1>3. Goes(p, page) /\ Forgets(p, kind) /\ UNCHANGED <<database, call>>
  BY DEF SignOut, BackFromUpdate, database
<1>4. auth' \in [People -> [there : BOOLEAN, display : Displays \cup {None}]]
      /\ signedIn' \in [People -> BOOLEAN]
  BY <1>1 DEF SignOut, BackFromUpdate
<1>5. page \in {"out", "main"} /\ "putUser" \in kinds
  BY DEF Writes
<1> HIDE DEF page, kind
<1>6. a \in Screens /\ PageFits(p, None, a, username[p], user)
  BY <1>5, GoesTo
<1>7. app' = [app EXCEPT ![p] = a] /\ call' = [call EXCEPT ![p] = None]
      /\ queue' = [queue EXCEPT ![p] = q]
  BY <1>2, <1>3, Stays DEF Goes, Forgets
<1> HIDE DEF a, kinds
<1>8. q \in Seq(Calls) /\ \E e : PartOf(e, q, queue[p], kinds)
  BY <1>1, SelectionIsPart
<1> HIDE DEF q
<1>9. PICK e : PartOf(e, q, queue[p], kinds)
  BY <1>8
<1>10. QueueFits(p, q, call[p], app[p], username[p], user)
  BY <1>1, <1>5, <1>8, <1>9, PartFits
<1>11. NoAsks(q)
  BY <1>2, <1>9 DEF PartOf, NoAsks
<1>12. QueueFits(p, q, None, a, username[p], user)
  BY <1>8, <1>10, <1>11, WantedNames, TurnFits DEF Grow
<1> QED
  BY <1>3, <1>4, <1>6, <1>7, <1>8, <1>12, QueueStep

LEMMA EditUserKeeps ==
  ASSUME NamesInv, NEW p \in People, EditUser(p)
  PROVE  NamesInv'
<1> DEFINE x == Head(queue[p])
           n == x.at
<1>1. queue[p] # <<>> /\ x.kind = "editUser" /\ UNCHANGED <<auth, database, signedIn>>
  BY DEF EditUser, First
<1>2. CallFits(p, x, call[p], app[p], username[p], user) /\ x.value \in Records
      /\ n \in Names
  BY <1>1, FirstFits, CallsAreTyped
<1> DEFINE v == [user[n] EXCEPT !.display = x.value.display]
           y == [Call("putUser") EXCEPT !.at = n, !.value = v]
<1>3. n \in Names /\ user[n] # Free /\ <<p, n>> \in Wanted
  BY <1>1, <1>2 DEF CallFits
<1>4. user[n] \in [uid : People, display : Displays \cup {None}]
      /\ <<user[n].uid, n>> \in Wanted
  BY <1>3 DEF NamesInv, Typed, Owned
<1>5. x.value.display \in Displays \cup {None}
  BY <1>2 DEF Records
<1>6. v \in Records /\ v.uid = user[n].uid
  BY <1>4, <1>5 DEF Records
<1>7. Makes(p, <<y>>) /\ UNCHANGED <<call, app>>
  BY DEF EditUser
<1> HIDE DEF v
<1>8. y \in Calls /\ y.kind = "putUser" /\ y.at = n /\ y.value = v
  BY <1>3, <1>6 DEF Call, Calls, Writes
<1> HIDE DEF x, y, n
<1>9. CallFits(p, y, call[p], app[p], username[p], user)
  BY <1>3, <1>4, <1>6, <1>8 DEF CallFits, Asks
<1>10. <<y>> \in Seq(Calls) /\ QueueFits(p, <<y>>, call[p], app[p], username[p], user) /\ NoAsks(<<y>>)
  BY <1>8, <1>9, OneFits DEF Asks
<1>11. SameToAsks(call[p], app[p], call[p], app[p])
  BY DEF SameToAsks
<1>12. /\ app[p] \in Screens /\ PageFits(p, call[p], app[p], username[p], user)
       /\ call[p] \in {None, "create", "commitNew", "commitUpdate"}
  BY PartsOf
<1>13. call' = [call EXCEPT ![p] = call[p]] /\ app' = [app EXCEPT ![p] = app[p]]
  BY <1>7, Stays
<1> QED
  BY <1>1, <1>7, <1>10, <1>11, <1>12, <1>13, ServeStep DEF x

\* The first call is a write, and only what it writes changes.
LEMMA WriteStep ==
  ASSUME NamesInv, NEW p \in People, queue[p] # <<>>, Makes(p, <<>>),
         UNCHANGED <<auth, signedIn, call, app>>,
         Typed => username' \in [People -> [name : Names, display : Displays \cup {None}] \cup {Unset}]
                  /\ user' \in [Names -> [uid : People, display : Displays \cup {None}] \cup {Free}]
                  /\ lists' \in [Names -> {"missing", "empty", "used"}],
         \A o \in People : o # p => username'[o] = username[o],
         username[p] # Unset => username'[p] # Unset, Owned', Grow(user, user'),
         Head(queue[p]).kind = "putUser" => user'[Head(queue[p]).at] # Free,
         username'[p] # Unset => <<p, username'[p].name>> \in Wanted /\ user'[username'[p].name] # Free
  PROVE  NamesInv'
<1> DEFINE t == Tail(queue[p])
<1>1. queue[p] \in Seq(Calls) /\ QueueFits(p, queue[p], call[p], app[p], username[p], user)
      /\ PageFits(p, call[p], app[p], username[p], user)
  BY PartsOf
<1>2. t \in Seq(Calls) /\ Head(queue[p]) = queue[p][1]
  BY <1>1, TailOf
<1>3. QueueFits(p, queue[p], call[p], app[p], username'[p], user')
  BY <1>1, WantedNames, TurnFits DEF SameToAsks
<1>4. QueueFits(p, t, call[p], app[p], username'[p], user')
  BY <1>1, <1>2, <1>3, TailFits
<1>5. queue' = [queue EXCEPT ![p] = t]
  <2>1. t \o <<>> = t
    BY <1>2, EmptyHasNone
  <2> QED
    BY <2>1 DEF Makes
<1> HIDE DEF t
<1>6. Typed'
  BY <1>2, <1>5 DEF NamesInv, Typed
<1>7. Alone(p) /\ queue'[p] = t
  BY <1>5 DEF Alone, NamesInv, Typed
<1>8. PageFits(p, call[p], app[p], username'[p], user')
  <2>1. \A n : <<p, n>> \in Wanted => n \in Names
    BY WantedNames
  <2> QED
    BY <1>1, <2>1 DEF PageFits, Grow
<1>9. Fits(p)'
  BY <1>4, <1>7, <1>8 DEF Fits
<1> QED
  BY <1>6, <1>7, <1>9, OthersFit

LEMMA WritesKeep ==
  ASSUME NamesInv, NEW p \in People, PutUser(p) \/ PutUsername(p) \/ PutLists(p)
  PROVE  NamesInv'
<1> DEFINE x == Head(queue[p])
<1>1. queue[p] # <<>> /\ Makes(p, <<>>) /\ UNCHANGED <<auth, signedIn, call, app>>
  BY DEF PutUser, PutUsername, PutLists, First
<1>2. /\ x \in Calls /\ x.value \in Records /\ x.at \in Names \cup {None}
      /\ CallFits(p, x, call[p], app[p], username[p], user)
      /\ x.kind \in {"putUsername", "putLists"} => user[x.at] # Free
  BY <1>1, FirstFits
<1>3. PageFits(p, call[p], app[p], username[p], user)
  BY PartsOf
<1>4. \A o, n : <<o, n>> \in Wanted => o \in People /\ n \in Names
  BY WantedNames
<1>5. Typed /\ Owned
  BY DEF NamesInv
<1>6. CASE PutUser(p)
  <2> DEFINE n == x.at
  <2>1. x.kind = "putUser" /\ user' = [user EXCEPT ![n] = x.value] /\ UNCHANGED <<username, lists>>
    BY <1>6 DEF PutUser, First
  <2>2. n \in Names /\ x.value.uid \in People /\ <<x.value.uid, n>> \in Wanted
    BY <1>2, <1>4, <2>1 DEF CallFits
  <2>3. x.value \in [uid : People, display : Displays \cup {None}] /\ x.value # Free
    BY <1>2, <2>2, NoneIsNothing DEF Records, Free, None
  <2>4. user' \in [Names -> [uid : People, display : Displays \cup {None}] \cup {Free}]
    BY <1>5, <2>1, <2>3 DEF Typed
  <2>5. user'[n] = x.value /\ \A m \in Names : m # n => user'[m] = user[m]
    BY <1>5, <2>1, <2>2 DEF Typed
  <2> HIDE DEF x, n
  <2>6. Owned' /\ Grow(user, user')
    BY <1>5, <2>2, <2>3, <2>5 DEF Owned, Grow
  <2>7. username[p] # Unset => <<p, username[p].name>> \in Wanted /\ user'[username[p].name] # Free
    BY <1>3, <1>4, <2>6 DEF PageFits, Grow
  <2>8. x.kind = "putUser" => user'[x.at] # Free
    BY <2>3, <2>5 DEF n
  <2> QED
    BY <1>1, <2>1, <2>4, <2>6, <2>7, <2>8, WriteStep DEF Typed, x
<1>7. CASE PutUsername(p)
  <2> DEFINE v == [name |-> x.at, display |-> x.value.display]
  <2>1. x.kind = "putUsername" /\ username' = [username EXCEPT ![p] = v] /\ UNCHANGED <<user, lists>>
    BY <1>7 DEF PutUsername, First
  <2>2. x.at \in Names /\ <<p, x.at>> \in Wanted /\ user[x.at] # Free
    BY <1>2, <1>4, <2>1 DEF CallFits
  <2>3. v \in [name : Names, display : Displays \cup {None}] /\ v.name = x.at /\ v # Unset
    BY <1>2, <2>2, NoneIsNothing DEF Records, Unset, None
  <2> HIDE DEF v
  <2>4. username' \in [People -> [name : Names, display : Displays \cup {None}] \cup {Unset}]
    BY <1>5, <2>1, <2>3 DEF Typed
  <2>5. username'[p] = v /\ \A o \in People : o # p => username'[o] = username[o]
    BY <1>5, <2>1 DEF Typed
  <2>6. Owned' /\ Grow(user, user')
    BY <1>5, <2>1 DEF Owned, Grow
  <2> HIDE DEF x
  <2>7. username'[p] # Unset => <<p, username'[p].name>> \in Wanted /\ user'[username'[p].name] # Free
    BY <2>1, <2>2, <2>3, <2>5
  <2>8. x.kind # "putUser" /\ username'[p] # Unset
    BY <2>1, <2>3, <2>5
  <2> QED
    BY <1>1, <2>1, <2>4, <2>5, <2>6, <2>7, <2>8, WriteStep DEF Typed, x
<1>8. CASE PutLists(p)
  <2>1. x.kind = "putLists" /\ lists' = [lists EXCEPT ![x.at] = "empty"] /\ UNCHANGED <<user, username>>
    BY <1>8 DEF PutLists, First
  <2>2. lists' \in [Names -> {"missing", "empty", "used"}]
    BY <1>5, <2>1 DEF Typed
  <2>3. Owned' /\ Grow(user, user')
    BY <1>5, <2>1 DEF Owned, Grow
  <2>4. username[p] # Unset => <<p, username[p].name>> \in Wanted /\ user'[username[p].name] # Free
    BY <1>3, <2>1 DEF PageFits
  <2> QED
    BY <1>1, <2>1, <2>2, <2>3, <2>4, WriteStep DEF Typed
<1> QED
  BY <1>6, <1>7, <1>8

-----------------------------------------------------------------------------
(* Types, and names.                                                       *)

LEMMA NamesStart ==
  ASSUME Init
  PROVE  NamesInv
<1>1. Typed
  BY DEF Init, Typed, NoAccount, Unset, Free, Empty, Screens
<1>2. Owned
  BY DEF Init, Owned
<1>3. ASSUME NEW p \in People PROVE Fits(p)
  <2>1. queue[p] = <<>> /\ call[p] = None /\ app[p] = Empty /\ username[p] = Unset
    BY DEF Init
  <2>2. PageFits(p, None, Empty, Unset, user)
    BY DEF PageFits, Empty, None
  <2> QED
    BY <2>1, <2>2, EmptyFits DEF Fits
<1> QED
  BY <1>1, <1>2, <1>3 DEF NamesInv

LEMMA NamesNext ==
  ASSUME NamesInv, [Next]_vars
  PROVE  NamesInv'
<1>1. CASE UNCHANGED vars
  BY <1>1 DEF vars, NamesInv, Typed, Owned, Fits
<1>2. ASSUME NEW n \in Names, UseLists(n) PROVE NamesInv'
  <2>1. lists' \in [Names -> {"missing", "empty", "used"}]
    BY <1>2 DEF UseLists, NamesInv, Typed
  <2> QED
    BY <1>2, <2>1 DEF UseLists, NamesInv, Typed, Owned, Fits
<1>3. ASSUME NEW p \in People, Person(p) PROVE NamesInv'
  BY <1>3, MovesKeep, AsksKeep, FieldsKeep, LeavesKeep DEF Person
<1>4. ASSUME NEW p \in People, Serve(p) PROVE NamesInv'
  BY <1>4, LooksKeep, ProfileKeeps, EditUserKeeps, WritesKeep DEF Serve
<1>5. ASSUME NEW p \in People, Auth(p) PROVE NamesInv'
  BY <1>5, AuthKeeps, FieldsKeep DEF Auth
<1>6. ASSUME NEW p \in People, Die(p) PROVE NamesInv'
  <2>1. Restart(p) /\ UNCHANGED <<auth, database, signedIn>>
    BY <1>6 DEF Die
  <2>2. auth' \in [People -> [there : BOOLEAN, display : Displays \cup {None}]]
    BY <2>1 DEF NamesInv, Typed
  <2> QED
    BY <2>1, <2>2, RestartKeeps
<1> QED
  BY <1>1, <1>2, <1>3, <1>4, <1>5, <1>6 DEF Next

THEOREM NamesHold == Spec => []NamesInv
  BY NamesStart, NamesNext, PTL DEF Spec

\* Every variable keeps the shape its uses expect: every write says where it
\* goes, and no callback reads a name that is not there.
THEOREM AccountsAreTyped == Spec => []TypeOK
<1>1. NamesInv => TypeOK
  BY DEF NamesInv, Typed, TypeOK, Screens
<1> QED
  BY <1>1, NamesHold, PTL

-----------------------------------------------------------------------------
(* From here on, no two people want the same name.  (In the code they do:   *)
(* the run AccountsSameName shows what comes of it.)                       *)

OneWants ==
  \A p, o \in People, n \in Names : <<p, n>> \in Wanted /\ <<o, n>> \in Wanted => p = o

\* A record username/<uid>, once it is there, names a user, and that user has
\* this uid: setUserToDatabase writes user/ first, and a name once seen free is
\* taken by no other.
THEOREM NamesAreFound ==
  ASSUME OneWants
  PROVE  Spec => []NamesLeadBack
<1>1. NamesInv => NamesLeadBack
  <2> SUFFICES ASSUME NamesInv, NEW p \in People, HasName(p)
               PROVE  user[username[p].name].uid = p
    BY DEF NamesLeadBack
  <2> DEFINE n == username[p].name
  <2>1. n \in Names /\ <<p, n>> \in Wanted /\ user[n] # Free
    BY PartsOf DEF HasName, PageFits
  <2>2. <<user[n].uid, n>> \in Wanted /\ user[n].uid \in People
    BY <2>1, WantedNames DEF NamesInv, Owned
  <2> QED
    BY <2>1, <2>2 DEF OneWants
<1> QED
  BY <1>1, NamesHold, PTL

\* "Username does exists!": who has a name keeps it, whatever is written
\* behind an old look.
THEOREM NamesAreKept ==
  ASSUME OneWants
  PROVE  Spec => NamesStayTaken
<1>1. NamesInv /\ [Next]_vars =>
        [\A n \in Names : user[n] # Free => user'[n].uid = user[n].uid]_user
  <2> SUFFICES ASSUME NamesInv, [Next]_vars, NEW n \in Names, user[n] # Free, user' # user
               PROVE  user'[n].uid = user[n].uid
    OBVIOUS
  <2>1. PICK p \in People : PutUser(p)
    BY ZenonT(60) DEF Next, Person, Serve, Auth, Die, vars, database, UseLists, PutUsername, PutLists,
           OpenSignUp, DismissSignUp, TapSignUp, CheckNew, CreateUser, CommitNew, OpenProfile,
           ShowName, OpenSetup, DismissSetup, TapSetup, CheckSetup, SignIn, SignInElsewhere,
           SignOut, TapProfile, OpenUpdate, LoadChild, ChoosePicture, Uploaded, TapUpdate,
           CommitUpdate, EditUsername, EditUser, BackFromUpdate, Done
  <2> DEFINE x == Head(queue[p])
  <2>2. queue[p] # <<>> /\ x.kind = "putUser" /\ user' = [user EXCEPT ![x.at] = x.value]
    BY <2>1 DEF PutUser, First
  <2>3. <<x.value.uid, x.at>> \in Wanted
    BY <2>2, FirstFits DEF CallFits
  <2>4. <<user[n].uid, n>> \in Wanted
    BY DEF NamesInv, Owned
  <2> HIDE DEF x
  <2>5. CASE x.at = n
    <3>1. x.value.uid \in People /\ user[n].uid \in People
      BY <2>3, <2>4, WantedNames
    <3>2. x.value.uid = user[n].uid
      BY <2>3, <2>4, <2>5, <3>1 DEF OneWants
    <3>3. user'[n] = x.value
      BY <2>2, <2>5 DEF NamesInv, Typed
    <3> QED
      BY <3>2, <3>3
  <2>6. CASE x.at # n
    BY <2>2, <2>6 DEF NamesInv, Typed
  <2> QED
    BY <2>5, <2>6
<1> QED
  BY <1>1, NamesHold, PTL DEF Spec, NamesStayTaken

-----------------------------------------------------------------------------
(* What a step of p leaves alone, and what of the queue it changes.        *)

LEMMA StepIsAlone ==
  ASSUME NamesInv, NEW p \in People, Person(p) \/ Serve(p) \/ Auth(p) \/ Die(p)
  PROVE  Alone(p) /\ \A o \in People : o # p => auth'[o] = auth[o]
<1>1. /\ queue \in [People -> Seq(Calls)] /\ app \in [People -> Screens]
      /\ DOMAIN call = People /\ DOMAIN username = People /\ DOMAIN auth = People
  BY DEF NamesInv, Typed
<1>2. CASE OpenSignUp(p) \/ DismissSignUp(p) \/ OpenSetup(p) \/ DismissSetup(p) \/ Done(p)
  BY <1>1, <1>2 DEF OpenSignUp, DismissSignUp, OpenSetup, DismissSetup, Done, Goes, Alone, database
<1>3. CASE SignIn(p) \/ (\E d \in Displays : SignInElsewhere(p, d)) \/ SignOut(p) \/ BackFromUpdate(p)
  BY <1>1, <1>3 DEF SignIn, SignInElsewhere, SignOut, BackFromUpdate, Goes, Forgets, Alone, database
<1>4. CASE (\E n \in Names, d \in Displays : TapSignUp(p, n, d)) \/ (\E n \in Names : TapSetup(p, n))
  BY <1>1, <1>4 DEF TapSignUp, TapSetup, Sends, Alone, database
<1>5. CASE OpenProfile(p) \/ TapProfile(p) \/ ChoosePicture(p) \/ Uploaded(p)
           \/ \E d \in Displays : TapUpdate(p, d)
  BY <1>1, <1>5 DEF OpenProfile, TapProfile, ChoosePicture, Uploaded, TapUpdate, Sends, Alone, database
<1>6. CASE CreateUser(p) \/ CommitNew(p) \/ CommitUpdate(p)
  BY <1>1, <1>6 DEF CreateUser, CommitNew, CommitUpdate, UpdateTraps, Restart, Sends, Alone, database
<1>7. CASE CheckNew(p) \/ CheckSetup(p) \/ ShowName(p)
  BY <1>1, <1>7 DEF CheckNew, CheckSetup, ShowName, Makes, Alone, database
<1>8. CASE OpenUpdate(p) \/ LoadChild(p) \/ EditUsername(p)
  BY <1>1, <1>8 DEF OpenUpdate, LoadChild, EditUsername, Goes, Makes, Alone, database
<1>9. CASE EditUser(p) \/ Die(p)
  BY <1>1, <1>9 DEF EditUser, Die, Restart, Makes, Alone, database
<1>10. CASE PutUser(p) \/ PutUsername(p) \/ PutLists(p)
  BY <1>1, <1>10 DEF PutUser, PutUsername, PutLists, Makes, Alone
<1> QED
  BY <1>2, <1>3, <1>4, <1>5, <1>6, <1>7, <1>8, <1>9, <1>10 DEF Person, Serve, Auth

LEMMA StepIsOwn ==
  ASSUME NamesInv, NEW p \in People, Person(p) \/ Serve(p) \/ Auth(p) \/ Die(p), NEW n \in Names,
         user'[n] # user[n] \/ lists'[n] # lists[n]
  PROVE  <<p, n>> \in Wanted
<1>1. CASE PutUser(p) \/ PutLists(p)
  <2> DEFINE x == Head(queue[p])
  <2>1. queue[p] # <<>> /\ x.kind \in {"putUser", "putLists"}
    BY <1>1 DEF PutUser, PutLists, First
  <2>2. <<p, x.at>> \in Wanted
    BY <2>1, FirstFits DEF CallFits
  <2>3. \/ user' = [user EXCEPT ![x.at] = x.value] /\ lists' = lists
        \/ lists' = [lists EXCEPT ![x.at] = "empty"] /\ user' = user
    BY <1>1 DEF PutUser, PutLists
  <2>4. x.at = n
    BY <2>3 DEF NamesInv, Typed
  <2> QED
    BY <2>2, <2>4
<1>2. CASE ~PutUser(p) /\ ~PutLists(p)
  BY <1>2 DEF Person, Serve, Auth, Die, database, PutUsername,
         OpenSignUp, DismissSignUp, TapSignUp, CheckNew, CreateUser, CommitNew, OpenProfile,
         ShowName, OpenSetup, DismissSetup, TapSetup, CheckSetup, SignIn, SignInElsewhere,
         SignOut, TapProfile, OpenUpdate, LoadChild, ChoosePicture, Uploaded, TapUpdate,
         CommitUpdate, EditUsername, EditUser, BackFromUpdate, Done
<1> QED
  BY <1>1, <1>2

-----------------------------------------------------------------------------
(* That lists are made once.  Between the look at user/<n> and the write   *)
(* of user/<n> nothing else of p is on its way to n.                       *)

Looks == {"checkNew", "checkSetup"}

\* No putUser(n) is in q.
NotSent(n, q) == \A i \in 1..Len(q) : ~(q[i].kind = "putUser" /\ q[i].at = n)

\* Users that are looked for are behind those that are made.
LooksLast(q, us) ==
  \A i, k \in 1..Len(q) :
    i < k /\ q[k].kind = "putUser" /\ us[q[k].at] = Free => q[i].kind \notin Looks

\* Lists are made at most once, where there are none.
ListsNew(q, ls) ==
  /\ \A i \in 1..Len(q) : q[i].kind = "putLists" => ls[q[i].at] = "missing"
  /\ \A i, j \in 1..Len(q) :
       q[i].kind = "putLists" /\ q[j].kind = "putLists" /\ q[i].at = q[j].at => i = j

NewFits(q, c, a, us, ls) ==
  /\ LooksLast(q, us)
  /\ ListsNew(q, ls)
  /\ c \in {"create", "commitNew"} => us[a.name] = Free /\ NotSent(a.name, q)

ListsFollow == \A n \in Names : lists[n] # "missing" => user[n] # Free

NewInv == ListsFollow /\ \A p \in People : NewFits(queue[p], call[p], app[p], user, lists)

\* A user that is neither there nor sent gets no lists either.
LEMMA NoListsYet ==
  ASSUME NEW p, NEW q, NEW c, NEW a, NEW un, NEW us, NEW n,
         QueueFits(p, q, c, a, un, us), us[n] = Free, NotSent(n, q), NEW i \in 1..Len(q)
  PROVE  ~(q[i].kind \in {"putUsername", "putLists"} /\ q[i].at = n)
  BY DEF QueueFits, Comes, NotSent

LEMMA NewTail ==
  ASSUME NEW q \in Seq(Calls), q # <<>>, NEW us, NEW ls, LooksLast(q, us), ListsNew(q, ls)
  PROVE  LET t == Tail(q) IN
         /\ LooksLast(t, us) /\ ListsNew(t, ls)
         /\ \A n : NotSent(n, q) => NotSent(n, t)
         /\ \A n : q[1].kind \in Looks /\ us[n] = Free => NotSent(n, t)
         /\ q[1].kind = "putLists" =>
              \A i \in 1..Len(t) : ~(t[i].kind = "putLists" /\ t[i].at = q[1].at)
<1> DEFINE t == Tail(q)
<1>1. /\ t \in Seq(Calls) /\ Len(q) \in Nat /\ 1 \in 1..Len(q)
      /\ \A i \in 1..Len(t) : i \in Nat /\ i + 1 \in 1..Len(q) /\ t[i] = q[i + 1] /\ 1 < i + 1
  BY TailOf
<1> HIDE DEF t
<1>2. LooksLast(t, us)
  <2> SUFFICES ASSUME NEW i \in 1..Len(t), NEW k \in 1..Len(t), i < k,
                      t[k].kind = "putUser", us[t[k].at] = Free
               PROVE  t[i].kind \notin Looks
    BY DEF LooksLast
  <2>1. i + 1 < k + 1
    BY <1>1
  <2> QED
    BY <1>1, <2>1 DEF LooksLast
<1>3. ListsNew(t, ls)
  <2>1. \A i \in 1..Len(t) : t[i].kind = "putLists" => ls[t[i].at] = "missing"
    BY <1>1 DEF ListsNew
  <2>2. ASSUME NEW i \in 1..Len(t), NEW j \in 1..Len(t), t[i].kind = "putLists",
               t[j].kind = "putLists", t[i].at = t[j].at
        PROVE  i = j
    <3>1. i + 1 = j + 1
      BY <1>1, <2>2 DEF ListsNew
    <3> QED
      BY <1>1, <3>1
  <2> QED
    BY <2>1, <2>2 DEF ListsNew
<1>4. \A n : NotSent(n, q) => NotSent(n, t)
  BY <1>1 DEF NotSent
<1>5. \A n : q[1].kind \in Looks /\ us[n] = Free => NotSent(n, t)
  BY <1>1 DEF NotSent, LooksLast
<1>6. ASSUME q[1].kind = "putLists", NEW i \in 1..Len(t), t[i].kind = "putLists", t[i].at = q[1].at
      PROVE  FALSE
  <2>1. i + 1 = 1
    BY <1>1, <1>6 DEF ListsNew
  <2> QED
    BY <1>1, <2>1
<1> QED
  BY <1>2, <1>3, <1>4, <1>5, <1>6 DEF t

LEMMA NewPart ==
  ASSUME NEW q \in Seq(Calls), NEW r \in Seq(Calls), NEW e, NEW kinds, PartOf(e, r, q, kinds),
         NEW us, NEW ls, LooksLast(q, us), ListsNew(q, ls)
  PROVE  LooksLast(r, us) /\ ListsNew(r, ls)
<1>1. \A i \in 1..Len(r) : i \in Nat /\ e[i] \in 1..Len(q) /\ e[i] \in Nat /\ r[i] = q[e[i]]
  BY DEF PartOf
<1>2. \A i, j \in 1..Len(r) : i < j => e[i] < e[j]
  BY DEF PartOf
<1>3. LooksLast(r, us)
  BY <1>1, <1>2 DEF LooksLast
<1>4. ASSUME NEW i \in 1..Len(r), NEW j \in 1..Len(r), r[i].kind = "putLists",
             r[j].kind = "putLists", r[i].at = r[j].at
      PROVE  i = j
  <2>1. e[i] = e[j]
    BY <1>1, <1>4 DEF ListsNew
  <2> QED
    BY <1>1, <1>2, <2>1
<1>5. ListsNew(r, ls)
  BY <1>1, <1>4 DEF ListsNew
<1> QED
  BY <1>3, <1>5

LEMMA NewSent ==
  ASSUME NEW q \in Seq(Calls), NEW calls \in Seq(Calls), NEW us, NEW ls,
         LooksLast(q, us), ListsNew(q, ls), LooksLast(calls, us), ListsNew(calls, ls),
         NoAsks(q) \/ \A i \in 1..Len(calls) : calls[i].kind = "putUser" => us[calls[i].at] # Free,
         \A i \in 1..Len(q), j \in 1..Len(calls) :
           ~(q[i].kind = "putLists" /\ calls[j].kind = "putLists" /\ q[i].at = calls[j].at)
  PROVE  LooksLast(q \o calls, us) /\ ListsNew(q \o calls, ls)
<1> DEFINE r == q \o calls
           n == Len(q)
<1>1. /\ r \in Seq(Calls) /\ n \in Nat /\ Len(calls) \in Nat /\ Len(r) = n + Len(calls)
      /\ \A i \in 1..Len(r) :
           \/ i \in 1..n /\ r[i] = q[i]
           \/ i > n /\ i - n \in 1..Len(calls) /\ r[i] = calls[i - n]
  BY SentTo
<1> HIDE DEF r, n
<1>2. ASSUME NEW i \in 1..Len(r), NEW k \in 1..Len(r), i < k, r[k].kind = "putUser", us[r[k].at] = Free
      PROVE  r[i].kind \notin Looks
  <2>1. CASE k \in 1..n /\ r[k] = q[k]
    <3>1. i \in 1..n /\ r[i] = q[i]
      BY <1>1, <1>2, <2>1
    <3> QED
      BY <1>2, <2>1, <3>1 DEF LooksLast, n
  <2>2. CASE k > n /\ k - n \in 1..Len(calls) /\ r[k] = calls[k - n]
    <3>1. NoAsks(q)
      BY <1>2, <2>2
    <3>2. CASE i \in 1..n /\ r[i] = q[i]
      BY <3>1, <3>2 DEF NoAsks, Looks, Asks, n
    <3>3. CASE i > n /\ i - n \in 1..Len(calls) /\ r[i] = calls[i - n]
      <4>1. i - n < k - n
        BY <1>1, <1>2
      <4> QED
        BY <1>2, <2>2, <3>3, <4>1 DEF LooksLast
    <3> QED
      BY <1>1, <3>2, <3>3
  <2> QED
    BY <1>1, <2>1, <2>2
<1>3. ASSUME NEW i \in 1..Len(r), NEW j \in 1..Len(r), r[i].kind = "putLists",
             r[j].kind = "putLists", r[i].at = r[j].at
      PROVE  i = j
  <2>1. CASE i \in 1..n /\ j \in 1..n /\ r[i] = q[i] /\ r[j] = q[j]
    BY <1>3, <2>1 DEF ListsNew, n
  <2>2. CASE i > n /\ j > n /\ i - n \in 1..Len(calls) /\ j - n \in 1..Len(calls)
              /\ r[i] = calls[i - n] /\ r[j] = calls[j - n]
    <3>1. i - n = j - n
      BY <1>3, <2>2 DEF ListsNew
    <3> QED
      BY <1>1, <3>1
  <2>3. CASE \/ i \in 1..n /\ r[i] = q[i] /\ j - n \in 1..Len(calls) /\ r[j] = calls[j - n]
             \/ j \in 1..n /\ r[j] = q[j] /\ i - n \in 1..Len(calls) /\ r[i] = calls[i - n]
    BY <1>3, <2>3 DEF n
  <2> QED
    BY <1>1, <2>1, <2>2, <2>3
<1>4. \A i \in 1..Len(r) : r[i].kind = "putLists" => ls[r[i].at] = "missing"
  BY <1>1, ZenonT(60) DEF ListsNew, n
<1>5. LooksLast(r, us) /\ ListsNew(r, ls)
  BY <1>2, <1>3, <1>4 DEF LooksLast, ListsNew
<1> QED
  BY <1>5 DEF r

\* One call that makes nothing.
LEMMA NewOne ==
  ASSUME NEW x \in Calls, x.kind # "putLists", NEW us, NEW ls
  PROVE  LooksLast(<<x>>, us) /\ ListsNew(<<x>>, ls)
<1> DEFINE q == <<x>>
<1>1. \A i \in 1..Len(q) : q[i] = x /\ i = 1
  OBVIOUS
<1> HIDE DEF q
<1> QED
  BY <1>1 DEF LooksLast, ListsNew, q

LEMMA NewNothing ==
  ASSUME NEW us, NEW ls
  PROVE  LooksLast(<<>>, us) /\ ListsNew(<<>>, ls)
  BY DEF LooksLast, ListsNew

\* The calls that take a free name.
LEMMA NewName ==
  ASSUME NEW p \in People, NEW n \in Names, NEW d \in Displays \cup {None},
         NEW us, NEW ls, ls[n] = "missing"
  PROVE  LET q == TakesName(p, n, d) IN
         /\ LooksLast(q, us) /\ ListsNew(q, ls)
         /\ \A i \in 1..Len(q) : q[i].at = n
<1> DEFINE q == TakesName(p, n, d)
           record == [uid |-> p, display |-> d]
           x == [Call("putUser") EXCEPT !.at = n, !.value = record]
           y == [Call("putUsername") EXCEPT !.at = n, !.value = record]
           z == [Call("putLists") EXCEPT !.at = n]
<1> HIDE DEF record
<1>1. /\ x.kind = "putUser" /\ x.at = n /\ y.kind = "putUsername" /\ y.at = n
      /\ z.kind = "putLists" /\ z.at = n
  BY DEF Call
<1>2. q = <<x, y, z>>
  BY DEF TakesName, record
<1> HIDE DEF q, x, y, z
<1>3. /\ 1..Len(q) = {1, 1 + 1, 1 + 1 + 1}
      /\ q[1] = x /\ q[1 + 1] = y /\ q[1 + 1 + 1] = z
  BY <1>2
<1>4. \A i \in 1..Len(q) : q[i].at = n /\ q[i].kind \notin Looks /\ (q[i].kind = "putLists" => i = 3)
  BY <1>1, <1>3 DEF Looks
<1>5. LooksLast(q, us) /\ ListsNew(q, ls)
  BY <1>4 DEF LooksLast, ListsNew
<1> QED
  BY <1>4, <1>5 DEF q

LEMMA UsersGrow ==
  ASSUME NamesInv, [Next]_vars
  PROVE  Grow(user, user')
<1>1. ASSUME NEW p \in People, PutUser(p) PROVE Grow(user, user')
  <2> DEFINE x == Head(queue[p])
  <2>1. queue[p] # <<>> /\ x.kind = "putUser" /\ user' = [user EXCEPT ![x.at] = x.value]
    BY <1>1 DEF PutUser, First
  <2>2. <<x.value.uid, x.at>> \in Wanted
    BY <2>1, FirstFits DEF CallFits
  <2>3. x.value # Free
    BY <2>2, WantedNames, NoneIsNothing DEF Free, None
  <2> QED
    BY <2>1, <2>3 DEF Grow, NamesInv, Typed
<1>2. CASE user' = user
  BY <1>2 DEF Grow
<1>3. user' = user \/ \E p \in People : PutUser(p)
  BY ZenonT(60) DEF Next, Person, Serve, Auth, Die, vars, database, UseLists, PutUsername, PutLists,
         OpenSignUp, DismissSignUp, TapSignUp, CheckNew, CreateUser, CommitNew, OpenProfile,
         ShowName, OpenSetup, DismissSetup, TapSetup, CheckSetup, SignIn, SignInElsewhere,
         SignOut, TapProfile, OpenUpdate, LoadChild, ChoosePicture, Uploaded, TapUpdate,
         CommitUpdate, EditUsername, EditUser, BackFromUpdate, Done
<1> QED
  BY <1>1, <1>2, <1>3

LEMMA NewOthers ==
  ASSUME OneWants, NamesInv, NewInv, NEW p \in People, Person(p) \/ Serve(p) \/ Auth(p) \/ Die(p),
         ListsFollow', NewFits(queue'[p], call'[p], app'[p], user', lists')
  PROVE  NewInv'
<1> SUFFICES ASSUME NEW o \in People, o # p
             PROVE  NewFits(queue'[o], call'[o], app'[o], user', lists')
  BY DEF NewInv
<1> DEFINE q == queue[o]
<1>1. queue'[o] = q /\ call'[o] = call[o] /\ app'[o] = app[o]
  BY StepIsAlone DEF Alone
<1>2. NewFits(q, call[o], app[o], user, lists)
  BY DEF NewInv
<1>3. QueueFits(o, q, call[o], app[o], username[o], user)
      /\ PageFits(o, call[o], app[o], username[o], user)
  BY PartsOf
<1>4. \A n : <<o, n>> \in Wanted => n \in Names /\ user'[n] = user[n] /\ lists'[n] = lists[n]
  <2> SUFFICES ASSUME NEW n, <<o, n>> \in Wanted
               PROVE  n \in Names /\ user'[n] = user[n] /\ lists'[n] = lists[n]
    OBVIOUS
  <2>1. n \in Names
    BY WantedNames
  <2>2. <<p, n>> \notin Wanted
    BY <2>1 DEF OneWants
  <2> QED
    BY <2>1, <2>2, StepIsOwn
<1>5. \A i \in 1..Len(q) : q[i].kind \in {"putUser", "putUsername", "putLists"} => <<o, q[i].at>> \in Wanted
  BY <1>3 DEF QueueFits, CallFits
<1> HIDE DEF q
<1>6. LooksLast(q, user')
  BY <1>2, <1>4, <1>5 DEF NewFits, LooksLast
<1>7. ListsNew(q, lists')
  BY <1>2, <1>4, <1>5 DEF NewFits, ListsNew
<1>8. call[o] \in {"create", "commitNew"} => user'[app[o].name] = Free
  BY <1>2, <1>3, <1>4 DEF NewFits, PageFits
<1> QED
  BY <1>1, <1>2, <1>6, <1>7, <1>8 DEF NewFits, q

LEMMA NewStays ==
  ASSUME NewInv, UNCHANGED <<user, lists>>
  PROVE  ListsFollow'
  BY DEF NewInv, ListsFollow

\* The queue of p as it was.
LEMMA NewParts ==
  ASSUME NamesInv, NewInv, NEW p \in People
  PROVE  /\ queue[p] \in Seq(Calls) /\ LooksLast(queue[p], user) /\ ListsNew(queue[p], lists)
         /\ NewFits(queue[p], call[p], app[p], user, lists)
  BY PartsOf DEF NewInv, NewFits

\* Steps that send nothing.
LEMMA NewQuiet ==
  ASSUME NamesInv, NewInv, NEW p \in People,
         \/ OpenSignUp(p) \/ DismissSignUp(p) \/ OpenSetup(p) \/ DismissSetup(p)
         \/ SignIn(p) \/ (\E d \in Displays : SignInElsewhere(p, d)) \/ Done(p)
         \/ ChoosePicture(p) \/ Uploaded(p) \/ (\E d \in Displays : TapUpdate(p, d))
         \/ CreateUser(p)
  PROVE  ListsFollow' /\ NewFits(queue'[p], call'[p], app'[p], user', lists')
<1>1. UNCHANGED <<database, queue>>
  BY DEF OpenSignUp, DismissSignUp, OpenSetup, DismissSetup, SignIn, SignInElsewhere, Done,
         ChoosePicture, Uploaded, TapUpdate, CreateUser
<1>2. ListsFollow'
  BY <1>1, NewStays DEF database
<1>3. NewFits(queue[p], call[p], app[p], user, lists) /\ DOMAIN call = People
      /\ app \in [People -> Screens]
  BY NewParts DEF NamesInv, Typed
<1>4. CASE /\ call'[p] \in {"create", "commitNew"} => call[p] \in {"create", "commitNew"}
           /\ app'[p].name = app[p].name
  BY <1>1, <1>2, <1>3, <1>4 DEF NewFits, database
<1>5. CASE call'[p] \notin {"create", "commitNew"}
  BY <1>1, <1>2, <1>3, <1>5 DEF NewFits, database
<1>6. CASE OpenSignUp(p) \/ DismissSignUp(p) \/ OpenSetup(p) \/ DismissSetup(p)
           \/ SignIn(p) \/ (\E d \in Displays : SignInElsewhere(p, d))
  <2>1. call'[p] = None
    BY <1>6 DEF OpenSignUp, DismissSignUp, OpenSetup, DismissSetup, SignIn, SignInElsewhere, On
  <2> QED
    BY <1>5, <2>1 DEF None
<1>7. CASE Done(p)
  <2>1. call'[p] = None
    BY <1>7, PartsOf DEF Done, PageFits
  <2> QED
    BY <1>5, <2>1 DEF None
<1>8. CASE ChoosePicture(p) \/ Uploaded(p)
  <2>1. call' = call /\ app'[p].name = app[p].name
    BY <1>3, <1>8 DEF ChoosePicture, Uploaded, Screens
  <2> QED
    BY <1>4, <2>1
<1>9. ASSUME NEW d \in Displays, TapUpdate(p, d) PROVE call'[p] = "commitUpdate"
  BY <1>3, <1>9 DEF TapUpdate
<1>10. CASE CreateUser(p)
  <2>1. call[p] = "create" /\ app' = app
    BY <1>10 DEF CreateUser
  <2> QED
    BY <1>4, <2>1
<1> QED
  BY <1>5, <1>6, <1>7, <1>8, <1>9, <1>10

\* Steps that send a call that asks.
LEMMA NewTaps ==
  ASSUME NamesInv, NewInv, NEW p \in People,
         \/ \E n \in Names, d \in Displays : TapSignUp(p, n, d)
         \/ \E n \in Names : TapSetup(p, n)
         \/ OpenProfile(p) \/ TapProfile(p)
  PROVE  ListsFollow' /\ NewFits(queue'[p], call'[p], app'[p], user', lists')
<1>1. call'[p] = None /\ UNCHANGED database
  BY DEF TapSignUp, TapSetup, OpenProfile, TapProfile, On
<1>2. PICK kind \in {"checkNew", "checkSetup", "openUpdate", "showName"} : Sends(p, <<Call(kind)>>)
  BY DEF TapSignUp, TapSetup, OpenProfile, TapProfile
<1> DEFINE x == Call(kind)
           q == queue[p] \o <<x>>
<1>3. x \in Calls /\ x.kind = kind /\ <<x>> \in Seq(Calls)
  BY ReadIsCall DEF Reads
<1>4. queue'[p] = q /\ queue[p] \in Seq(Calls) /\ LooksLast(queue[p], user) /\ ListsNew(queue[p], lists)
  BY <1>2, NewParts DEF Sends, NamesInv, Typed
<1> HIDE DEF x
<1>5. LooksLast(<<x>>, user) /\ ListsNew(<<x>>, lists)
  BY <1>3, NewOne
<1>6. \A i \in 1..Len(<<x>>) : <<x>>[i].kind \notin {"putUser", "putLists"}
  BY <1>3
<1>7. LooksLast(q, user) /\ ListsNew(q, lists)
  BY <1>3, <1>4, <1>5, <1>6, NewSent
<1> HIDE DEF q
<1> QED
  BY <1>1, <1>4, <1>7, NewStays DEF NewFits, database, None

\* Steps that take a name.
LEMMA NewTakes ==
  ASSUME NamesInv, NewInv, NEW p \in People, NEW n \in Names, NEW d \in Displays \cup {None},
         NEW q \in Seq(Calls), LooksLast(q, user), ListsNew(q, lists), NoAsks(q),
         \A i \in 1..Len(q) : ~(q[i].kind = "putLists" /\ q[i].at = n),
         user[n] = Free, <<p, n>> \in Wanted, call'[p] = None, UNCHANGED database,
         queue'[p] = q \o TakesName(p, n, d)
  PROVE  ListsFollow' /\ NewFits(queue'[p], call'[p], app'[p], user', lists')
<1> DEFINE calls == TakesName(p, n, d)
<1>1. lists[n] = "missing"
  BY DEF NewInv, ListsFollow
<1>2. LooksLast(calls, user) /\ ListsNew(calls, lists) /\ \A i \in 1..Len(calls) : calls[i].at = n
  BY <1>1, NewName
<1>3. calls \in Seq(Calls)
  BY NameFits
<1> HIDE DEF calls
<1>4. \A i \in 1..Len(q), j \in 1..Len(calls) :
        ~(q[i].kind = "putLists" /\ calls[j].kind = "putLists" /\ q[i].at = calls[j].at)
  BY <1>2
<1>5. LooksLast(q \o calls, user) /\ ListsNew(q \o calls, lists)
  BY <1>2, <1>3, <1>4, NewSent
<1> QED
  BY <1>5, NewStays DEF NewFits, database, None, calls

\* Steps after which only some of the calls are left.
LEMMA NewLeaves ==
  ASSUME NamesInv, NewInv, NEW p \in People,
         SignOut(p) \/ BackFromUpdate(p) \/ (Restart(p) /\ UNCHANGED database)
  PROVE  ListsFollow' /\ NewFits(queue'[p], call'[p], app'[p], user', lists')
<1>1. call'[p] = None /\ UNCHANGED database
  BY DEF SignOut, BackFromUpdate, On, Restart, NamesInv, Typed
<1>2. queue[p] \in Seq(Calls) /\ LooksLast(queue[p], user) /\ ListsNew(queue[p], lists)
  BY NewParts
<1>3. \E r \in Seq(Calls) : \E e, kinds : queue'[p] = r /\ PartOf(e, r, queue[p], kinds)
  <2>1. ASSUME NEW kind, Forgets(p, kind)
        PROVE  \E r \in Seq(Calls) : \E e, kinds : queue'[p] = r /\ PartOf(e, r, queue[p], kinds)
    <3> DEFINE kinds == (Writes \cup Reads) \ {kind}
               r == OfKind(queue[p], kinds)
    <3>1. queue'[p] = r
      BY <2>1 DEF Forgets, NamesInv, Typed
    <3> HIDE DEF kinds
    <3> QED
      BY <1>2, <3>1, SelectionIsPart
  <2>2. CASE Restart(p)
    <3> DEFINE w == OfKind(queue[p], Writes)
    <3>1. PICK m \in 0..Len(w) : queue'[p] = SubSeq(w, 1, m)
      BY <2>2 DEF Restart, NamesInv, Typed
    <3>2. w \in Seq(Calls) /\ \E e : PartOf(e, w, queue[p], Writes)
      BY <1>2, SelectionIsPart
    <3> HIDE DEF w
    <3>3. PICK e : PartOf(e, w, queue[p], Writes)
      BY <3>2
    <3> DEFINE r == SubSeq(w, 1, m)
    <3>4. r \in Seq(Calls) /\ \E d : PartOf(d, r, queue[p], Writes)
      BY <1>2, <3>2, <3>3, BeginningIsPart
    <3> QED
      BY <3>1, <3>4
  <2> QED
    BY <2>1, <2>2 DEF SignOut, BackFromUpdate
<1>4. LooksLast(queue'[p], user) /\ ListsNew(queue'[p], lists)
  BY <1>2, <1>3, NewPart
<1> QED
  BY <1>1, <1>4, NewStays DEF NewFits, database, None

LEMMA NewCommits ==
  ASSUME NamesInv, NewInv, NEW p \in People, CommitNew(p) \/ CommitUpdate(p)
  PROVE  ListsFollow' /\ NewFits(queue'[p], call'[p], app'[p], user', lists')
<1>1. /\ queue[p] \in Seq(Calls) /\ LooksLast(queue[p], user) /\ ListsNew(queue[p], lists)
      /\ NewFits(queue[p], call[p], app[p], user, lists)
  BY NewParts
<1>2. call'[p] = None /\ UNCHANGED database
  BY DEF CommitNew, CommitUpdate, UpdateTraps, Restart, NamesInv, Typed
<1>3. app[p].display \in Displays \cup {None} /\ app[p].child \in Names \cup {None}
      /\ NoAsks(queue[p]) /\ PageFits(p, call[p], app[p], username[p], user)
      /\ QueueFits(p, queue[p], call[p], app[p], username[p], user)
  BY PartsOf DEF CommitNew, CommitUpdate, Screens, None
<1>4. CASE queue' = queue
  BY <1>1, <1>2, <1>4, NewStays DEF NewFits, database, None
<1>5. CASE CommitNew(p) /\ Sends(p, TakesName(p, app[p].name, DisplayAfter(p)))
  <2> DEFINE n == app[p].name
  <2>1. user[n] = Free /\ NotSent(n, queue[p]) /\ <<p, n>> \in Wanted
    BY <1>1, <1>3, <1>5 DEF CommitNew, NewFits, PageFits
  <2>2. n \in Names
    BY <2>1, WantedNames
  <2>3. queue'[p] = queue[p] \o TakesName(p, n, app[p].display)
    BY <1>5 DEF Sends, DisplayAfter, NamesInv, Typed
  <2> HIDE DEF n
  <2>4. \A i \in 1..Len(queue[p]) : ~(queue[p][i].kind = "putLists" /\ queue[p][i].at = n)
    BY <1>3, <2>1, NoListsYet
  <2> QED
    BY <1>1, <1>2, <1>3, <2>1, <2>2, <2>3, <2>4, NewTakes
<1>6. CASE CommitUpdate(p) /\ app[p].child # None /\ Sends(p, UpdateCalls(p))
  <2> DEFINE x == [Call("editUsername") EXCEPT !.value = Changes(p)]
             y == [Call("editUser") EXCEPT !.at = app[p].child, !.value = Changes(p)]
             calls == <<x, y>>
  <2>1. Changes(p) \in Records
    BY <1>3 DEF Changes, Records, Free
  <2>2. x \in Calls /\ x.kind = "editUsername" /\ y \in Calls /\ y.kind = "editUser"
    BY <1>3, <1>6, <2>1 DEF Call, Calls, Reads
  <2>3. queue'[p] = queue[p] \o calls
    BY <1>6 DEF Sends, UpdateCalls, NamesInv, Typed
  <2> HIDE DEF x, y
  <2>4. /\ calls \in Seq(Calls)
        /\ \A i \in 1..Len(calls) : calls[i].kind \in {"editUsername", "editUser"}
    BY <2>2
  <2> HIDE DEF calls
  <2>5. LooksLast(calls, user) /\ ListsNew(calls, lists)
    BY <2>4 DEF LooksLast, ListsNew
  <2>6. LooksLast(queue'[p], user) /\ ListsNew(queue'[p], lists)
    BY <1>1, <2>3, <2>4, <2>5, NewSent
  <2> QED
    BY <1>2, <2>6, NewStays DEF NewFits, database, None
<1>7. CASE UpdateTraps(p)
  BY <1>2, <1>7, NewLeaves DEF UpdateTraps
<1> QED
  BY <1>4, <1>5, <1>6, <1>7 DEF CommitNew, CommitUpdate

\* Steps that deal with a call and change no user and no lists.
LEMMA NewServes ==
  ASSUME NamesInv, NewInv, NEW p \in People,
         CheckNew(p) \/ CheckSetup(p) \/ ShowName(p) \/ OpenUpdate(p) \/ LoadChild(p)
         \/ EditUsername(p) \/ EditUser(p) \/ PutUsername(p)
  PROVE  ListsFollow' /\ NewFits(queue'[p], call'[p], app'[p], user', lists')
<1> DEFINE q == queue[p]
           t == Tail(q)
           x == Head(q)
<1>1. /\ q \in Seq(Calls) /\ LooksLast(q, user) /\ ListsNew(q, lists)
      /\ NewFits(q, call[p], app[p], user, lists)
  BY NewParts
<1>2. q # <<>> /\ UNCHANGED <<user, lists>>
  BY DEF CheckNew, CheckSetup, ShowName, OpenUpdate, LoadChild, EditUsername, EditUser,
         PutUsername, First, database
<1>3. x = q[1] /\ t \in Seq(Calls)
  BY <1>1, <1>2, TailOf
<1>4. /\ LooksLast(t, user) /\ ListsNew(t, lists)
      /\ \A n : NotSent(n, q) => NotSent(n, t)
      /\ \A n : x.kind \in Looks /\ user[n] = Free => NotSent(n, t)
  BY <1>1, <1>2, <1>3, NewTail
<1>5. CallFits(p, x, call[p], app[p], username[p], user) /\ x.value \in Records /\ x \in Calls
  BY <1>2, FirstFits
<1>6. QueueFits(p, t, call[p], app[p], username[p], user) /\ (x.kind \in Asks => NoAsks(t))
  BY <1>1, <1>2, <1>3, PartsOf, TailFits DEF First, CheckNew, CheckSetup, ShowName, OpenUpdate,
     LoadChild, EditUsername, EditUser, PutUsername
<1>7. ListsFollow'
  BY <1>2, NewStays
<1>8. \A r : Makes(p, r) => queue'[p] = t \o r
  BY DEF Makes, NamesInv, Typed
<1>9. t \o <<>> = t
  BY <1>3, EmptyHasNone
<1>10. app \in [People -> Screens] /\ DOMAIN call = People
  BY DEF NamesInv, Typed
<1>11. username[p] # Unset => username[p].name \in Names
  BY PartsOf
<1> HIDE DEF t, x, q
<1>12. CASE CheckNew(p)
  <2>1. x.kind = "checkNew" /\ Makes(p, <<>>) /\ app' = app
    BY <1>12 DEF CheckNew, First, x, q
  <2>2. call[p] = None
    BY <1>5, <2>1 DEF CallFits, Asks
  <2>3. queue'[p] = t
    BY <1>8, <1>9, <2>1
  <2>4. x.kind \in Looks
    BY <2>1 DEF Looks
  <2>5. call'[p] # None => user[app[p].name] = Free
    BY <1>12, <2>2 DEF CheckNew, IsFree
  <2>6. call'[p] # None => NotSent(app[p].name, t)
    BY <1>4, <2>4, <2>5
  <2> QED
    BY <1>2, <1>4, <1>7, <2>1, <2>3, <2>5, <2>6 DEF NewFits, None
<1>13. CASE CheckSetup(p) /\ IsFree(app[p].name) /\ Makes(p, TakesName(p, app[p].name, auth[p].display))
  <2> DEFINE n == app[p].name
  <2>1. x.kind = "checkSetup" /\ UNCHANGED database /\ call' = call
    BY <1>13 DEF CheckSetup, First, x, q
  <2>2. x.kind \in Looks /\ x.kind \in Asks
    BY <2>1 DEF Looks, Asks
  <2>3. call[p] = None /\ <<p, n>> \in Wanted
    BY <1>5, <2>1, <2>2 DEF CallFits
  <2>4. user[n] = Free /\ NotSent(n, t)
    BY <1>4, <1>13, <2>2 DEF IsFree
  <2>5. n \in Names /\ auth[p].display \in Displays \cup {None}
    BY <2>3, WantedNames, PartsOf
  <2>6. queue'[p] = t \o TakesName(p, n, auth[p].display)
    BY <1>8, <1>13
  <2>7. call'[p] = None /\ NoAsks(t)
    BY <1>6, <2>1, <2>2, <2>3
  <2> HIDE DEF n
  <2>8. \A i \in 1..Len(t) : ~(t[i].kind = "putLists" /\ t[i].at = n)
    BY <1>6, <2>4, NoListsYet
  <2> QED
    BY <1>3, <1>4, <2>1, <2>3, <2>4, <2>5, <2>6, <2>7, <2>8, NewTakes
<1>14. ASSUME Makes(p, <<>>),
              call'[p] \in {"create", "commitNew"} =>
                call[p] \in {"create", "commitNew"} /\ app'[p].name = app[p].name
       PROVE  NewFits(queue'[p], call'[p], app'[p], user', lists')
  <2>1. queue'[p] = t
    BY <1>8, <1>9, <1>14
  <2> QED
    BY <1>1, <1>2, <1>4, <1>14, <2>1 DEF NewFits
<1>15. CASE CheckSetup(p) /\ Makes(p, <<>>) /\ UNCHANGED app
  BY <1>7, <1>14, <1>15 DEF CheckSetup
<1>16. CASE ShowName(p) \/ LoadChild(p)
  <2>1. call' = call /\ app'[p].name = app[p].name /\ Makes(p, <<>>)
    BY <1>10, <1>16 DEF ShowName, LoadChild, Screens
  <2> QED
    BY <1>7, <1>14, <2>1
<1>17. ASSUME NEW y \in Calls, y.kind # "putLists", y.kind = "putUser" => user[y.at] # Free,
              Makes(p, <<y>>),
              call'[p] \in {"create", "commitNew"} =>
                call[p] \in {"create", "commitNew"} /\ app'[p].name = app[p].name
       PROVE  NewFits(queue'[p], call'[p], app'[p], user', lists')
  <2> DEFINE r == <<y>>
  <2>1. r \in Seq(Calls) /\ \A i \in 1..Len(r) : r[i] = y
    OBVIOUS
  <2>2. LooksLast(r, user) /\ ListsNew(r, lists)
    BY <1>17, NewOne
  <2>3. queue'[p] = t \o r
    BY <1>8, <1>17
  <2> HIDE DEF r
  <2>4. LooksLast(t \o r, user) /\ ListsNew(t \o r, lists)
    BY <1>3, <1>4, <1>17, <2>1, <2>2, NewSent
  <2>5. ASSUME call[p] \in {"create", "commitNew"}
        PROVE  user[app[p].name] = Free /\ NotSent(app[p].name, t \o r)
    <3> DEFINE n == app[p].name
               s == t \o r
    <3>1. user[n] = Free /\ NotSent(n, t)
      BY <1>1, <1>4, <2>5 DEF NewFits
    <3> HIDE DEF n
    <3>2. \A i \in 1..Len(r) : ~(r[i].kind = "putUser" /\ r[i].at = n)
      BY <1>17, <2>1, <3>1
    <3>3. /\ \A i \in 1..Len(s) :
              \/ i \in 1..Len(t) /\ s[i] = t[i]
              \/ i > Len(t) /\ i - Len(t) \in 1..Len(r) /\ s[i] = r[i - Len(t)]
      BY <1>3, <2>1, SentTo
    <3> HIDE DEF s
    <3>4. NotSent(n, s)
      BY <3>1, <3>2, <3>3 DEF NotSent
    <3> QED
      BY <3>1, <3>4 DEF n, s
  <2> QED
    BY <1>2, <1>17, <2>3, <2>4, <2>5 DEF NewFits
<1>18. CASE OpenUpdate(p)
  <2>1. x.kind = "openUpdate" /\ call' = call
    BY <1>18 DEF OpenUpdate, First, x, q
  <2>2. call'[p] = None
    BY <1>5, <2>1 DEF CallFits, Asks
  <2>3. CASE Makes(p, <<>>)
    BY <1>7, <1>14, <2>2, <2>3 DEF None
  <2>4. CASE Makes(p, <<Call("loadChild")>>)
    <3>1. Call("loadChild") \in Calls /\ Call("loadChild").kind = "loadChild"
      BY ReadIsCall DEF Reads
    <3> QED
      BY <1>7, <1>17, <2>2, <2>4, <3>1 DEF None
  <2> QED
    BY <1>18, <2>3, <2>4 DEF OpenUpdate
<1>19. CASE EditUsername(p)
  <2> DEFINE y == [Call("putUsername") EXCEPT !.at = username[p].name, !.value = x.value]
  <2>1. x.kind = "editUsername" /\ Makes(p, <<y>>) /\ UNCHANGED <<call, app>>
    BY <1>19 DEF EditUsername, First, x, q
  <2>2. username[p].name \in Names
    BY <1>5, <1>11, <2>1 DEF CallFits
  <2>3. y \in Calls /\ y.kind = "putUsername"
    BY <1>5, <2>2 DEF Call, Calls, Writes
  <2> HIDE DEF y
  <2> QED
    BY <1>7, <1>17, <2>1, <2>3
<1>20. CASE EditUser(p)
  <2> DEFINE n == x.at
             v == [user[n] EXCEPT !.display = x.value.display]
             y == [Call("putUser") EXCEPT !.at = n, !.value = v]
  <2>1. x.kind = "editUser" /\ Makes(p, <<y>>) /\ UNCHANGED <<call, app>>
    BY <1>20 DEF EditUser, First, x, q
  <2>2. n \in Names /\ user[n] # Free
    BY <1>5, <2>1, CallsAreTyped DEF CallFits
  <2>3. user[n] \in [uid : People, display : Displays \cup {None}]
    BY <2>2 DEF NamesInv, Typed
  <2>4. x.value.display \in Displays \cup {None}
    BY <1>5 DEF Records
  <2>5. v \in Records
    BY <2>3, <2>4 DEF Records
  <2> HIDE DEF v
  <2>6. y \in Calls /\ y.kind = "putUser" /\ y.at = n
    BY <2>2, <2>5 DEF Call, Calls, Writes
  <2> HIDE DEF y, n
  <2> QED
    BY <1>7, <1>17, <2>1, <2>2, <2>6
<1>21. CASE PutUsername(p)
  BY <1>7, <1>14, <1>21 DEF PutUsername
<1> QED
  BY <1>12, <1>13, <1>15, <1>16, <1>18, <1>19, <1>20, <1>21 DEF CheckSetup

\* Users and lists are made.
LEMMA NewWrites ==
  ASSUME NamesInv, NewInv, NEW p \in People, PutUser(p) \/ PutLists(p)
  PROVE  ListsFollow' /\ NewFits(queue'[p], call'[p], app'[p], user', lists')
<1> DEFINE q == queue[p]
           t == Tail(q)
           x == Head(q)
<1>1. /\ q \in Seq(Calls) /\ LooksLast(q, user) /\ ListsNew(q, lists)
      /\ NewFits(q, call[p], app[p], user, lists)
  BY NewParts
<1>2. q # <<>> /\ UNCHANGED <<call, app>> /\ Makes(p, <<>>)
  BY DEF PutUser, PutLists, First
<1>3. x = q[1] /\ t \in Seq(Calls) /\ 1 \in 1..Len(q)
  BY <1>1, <1>2, TailOf
<1>4. /\ LooksLast(t, user) /\ ListsNew(t, lists)
      /\ \A n : NotSent(n, q) => NotSent(n, t)
      /\ x.kind = "putLists" => \A i \in 1..Len(t) : ~(t[i].kind = "putLists" /\ t[i].at = x.at)
  BY <1>1, <1>2, <1>3, NewTail
<1>5. \A i \in 1..Len(t) : t[i] \in Calls
  BY <1>3
<1>6. queue'[p] = t
  <2>1. t \o <<>> = t
    BY <1>3, EmptyHasNone
  <2> QED
    BY <1>2, <2>1 DEF Makes, NamesInv, Typed
<1>7. call[p] \in {"create", "commitNew"} =>
        /\ user[app[p].name] = Free /\ NotSent(app[p].name, q) /\ NotSent(app[p].name, t)
  BY <1>1, <1>4 DEF NewFits
<1>8. PageFits(p, call[p], app[p], username[p], user)
      /\ (x.kind \in {"putUsername", "putLists"} => user[x.at] # Free)
  BY <1>2, PartsOf, FirstFits
<1>9. Grow(user, user')
  BY UsersGrow DEF Next, Serve
<1> HIDE DEF q, t, x
<1>10. CASE PutUser(p)
  <2>1. x.kind = "putUser" /\ user' = [user EXCEPT ![x.at] = x.value] /\ lists' = lists
    BY <1>10 DEF PutUser, First, x, q
  <2>2. ListsFollow'
    BY <1>9, <2>1 DEF NewInv, ListsFollow, Grow
  <2>3. LooksLast(t, user')
    <3>1. \A i \in 1..Len(t) : t[i].kind = "putUser" => t[i].at \in Names
      BY <1>5, CallsAreTyped DEF Writes
    <3> QED
      BY <1>4, <1>9, <3>1 DEF LooksLast, Grow
  <2>4. ASSUME call[p] \in {"create", "commitNew"} PROVE user'[app[p].name] = Free
    <3>1. app[p].name # x.at
      BY <1>3, <1>7, <2>1, <2>4 DEF NotSent
    <3>2. app[p].name \in Names
      BY <1>8, <2>4, WantedNames DEF PageFits
    <3> QED
      BY <1>7, <2>1, <2>4, <3>1, <3>2 DEF NamesInv, Typed
  <2> QED
    BY <1>2, <1>4, <1>6, <1>7, <2>1, <2>2, <2>3, <2>4 DEF NewFits
<1>11. CASE PutLists(p)
  <2>1. x.kind = "putLists" /\ lists' = [lists EXCEPT ![x.at] = "empty"] /\ user' = user
    BY <1>11 DEF PutLists, First, x, q
  <2>2. DOMAIN lists = Names
    BY DEF NamesInv, Typed
  <2>3. ListsFollow'
    BY <1>8, <2>1, <2>2 DEF NewInv, ListsFollow
  <2>4. ListsNew(t, lists')
    <3>1. \A i \in 1..Len(t) : t[i].kind = "putLists" => t[i].at \in Names /\ t[i].at # x.at
      BY <1>4, <1>5, <2>1, CallsAreTyped DEF Writes
    <3>2. \A n \in Names : n # x.at => lists'[n] = lists[n]
      BY <2>1, <2>2
    <3> QED
      BY <1>4, <3>1, <3>2 DEF ListsNew
  <2> QED
    BY <1>2, <1>4, <1>6, <1>7, <2>1, <2>3, <2>4 DEF NewFits
<1> QED
  BY <1>10, <1>11

LEMMA NewNext ==
  ASSUME OneWants, NamesInv, NewInv, [Next]_vars
  PROVE  NewInv'
<1>1. CASE UNCHANGED vars
  BY <1>1 DEF vars, NewInv, ListsFollow
<1>2. ASSUME NEW n \in Names, UseLists(n) PROVE NewInv'
  <2>1. lists[n] = "empty" /\ lists' = [lists EXCEPT ![n] = "used"]
        /\ UNCHANGED <<user, queue, call, app>> /\ DOMAIN lists = Names
    BY <1>2 DEF UseLists, NamesInv, Typed
  <2>2. \A m : lists[m] = "missing" => lists'[m] = "missing"
    BY <2>1
  <2>3. ListsFollow'
    BY <2>1 DEF NewInv, ListsFollow
  <2>4. ASSUME NEW o \in People PROVE NewFits(queue[o], call[o], app[o], user, lists')
    BY <2>2 DEF NewInv, NewFits, ListsNew
  <2> QED
    BY <2>1, <2>3, <2>4 DEF NewInv
<1>3. ASSUME NEW p \in People, Person(p) \/ Serve(p) \/ Auth(p) \/ Die(p) PROVE NewInv'
  <2>1. ListsFollow' /\ NewFits(queue'[p], call'[p], app'[p], user', lists')
    <3>1. CASE Person(p)
      BY <3>1, NewQuiet, NewTaps, NewLeaves DEF Person
    <3>2. CASE Serve(p)
      BY <3>2, NewServes, NewWrites DEF Serve
    <3>3. CASE Auth(p)
      BY <3>3, NewQuiet, NewCommits DEF Auth
    <3>4. CASE Die(p)
      BY <3>4, NewLeaves DEF Die
    <3> QED
      BY <1>3, <3>1, <3>2, <3>3, <3>4
  <2> QED
    BY <1>3, <2>1, NewOthers
<1> QED
  BY <1>1, <1>2, <1>3 DEF Next

THEOREM NewHolds ==
  ASSUME OneWants
  PROVE  Spec => []NewInv
<1>1. Init => NewInv
  <2> SUFFICES ASSUME Init PROVE NewInv
    OBVIOUS
  <2>1. ListsFollow
    BY DEF Init, ListsFollow
  <2>2. ASSUME NEW p \in People PROVE NewFits(queue[p], call[p], app[p], user, lists)
    BY NewNothing DEF Init, NewFits, None
  <2> QED
    BY <2>1, <2>2 DEF NewInv
<1>2. NamesInv /\ NewInv /\ [Next]_vars => NewInv'
  BY NewNext
<1> QED
  BY <1>1, <1>2, NamesHold, PTL DEF Spec

\* Lists that others have put something into are not emptied: the third write
\* of taking a name comes once for each name, for nobody finds it free again.
THEOREM ListsAreKept ==
  ASSUME OneWants
  PROVE  Spec => ListsAreNotEmptied
<1>1. NamesInv /\ NewInv /\ [Next]_vars =>
        [\A n \in Names : lists[n] = "used" => lists'[n] = "used"]_lists
  <2> SUFFICES ASSUME NamesInv, NewInv, [Next]_vars, NEW n \in Names, lists[n] = "used",
                      lists' # lists
               PROVE  lists'[n] = "used"
    OBVIOUS
  <2>1. (\E p \in People : PutLists(p)) \/ \E m \in Names : UseLists(m)
    BY ZenonT(60) DEF Next, Person, Serve, Auth, Die, vars, database, PutUsername, PutUser,
           OpenSignUp, DismissSignUp, TapSignUp, CheckNew, CreateUser, CommitNew, OpenProfile,
           ShowName, OpenSetup, DismissSetup, TapSetup, CheckSetup, SignIn, SignInElsewhere,
           SignOut, TapProfile, OpenUpdate, LoadChild, ChoosePicture, Uploaded, TapUpdate,
           CommitUpdate, EditUsername, EditUser, BackFromUpdate, Done
  <2>2. DOMAIN lists = Names
    BY DEF NamesInv, Typed
  <2>3. ASSUME NEW m \in Names, UseLists(m) PROVE lists'[n] = "used"
    BY <2>2, <2>3 DEF UseLists
  <2>4. ASSUME NEW p \in People, PutLists(p) PROVE lists'[n] = "used"
    <3> DEFINE q == queue[p]
               x == Head(q)
    <3>1. q # <<>> /\ x.kind = "putLists" /\ lists' = [lists EXCEPT ![x.at] = "empty"]
      BY <2>4 DEF PutLists, First
    <3>2. x = q[1] /\ 1 \in 1..Len(q) /\ ListsNew(q, lists)
      BY <3>1, TailOf, NewParts
    <3>3. lists[x.at] = "missing"
      BY <3>1, <3>2 DEF ListsNew
    <3> QED
      BY <2>2, <3>1, <3>3
  <2> QED
    BY <2>1, <2>3, <2>4
<1> QED
  BY <1>1, NamesHold, NewHolds, PTL DEF Spec, ListsAreNotEmptied

-----------------------------------------------------------------------------
(* That the displays agree.  What is on its way to a record decides what   *)
(* the record will say: the last call to it.                               *)

Edits == {"editUsername", "editUser"}

No(q, kinds) == \A i \in 1..Len(q) : q[i].kind \notin kinds

\* Behind a call of the kinds A there is none of the kinds B.
Never(q, A, B) == \A i, k \in 1..Len(q) : i < k /\ q[i].kind \in A => q[k].kind \notin B

\* The last of the calls S is one of G; if there is none, b.
Ends(q, S, G, b) ==
  /\ \A i \in 1..Len(q) :
       q[i] \in S /\ (\A k \in 1..Len(q) : i < k => q[k] \notin S) => q[i] \in G
  /\ (\A i \in 1..Len(q) : q[i] \notin S) => b

\* What will write username/<uid> of p, and what user/<n>.
UidCalls == {x \in Calls : x.kind \in {"putUsername", "editUsername"}}
NameCalls(n) == {x \in Calls : x.kind \in {"putUser", "editUser"} /\ x.at = n}
Shown(d) == {x \in Calls : x.value.display = d}

\* Nothing on its way changes the name that un has.
Steady(q, un) == \A i \in 1..Len(q) : q[i].kind = "putUsername" => q[i].at = un.name

\* n is the name when all calls are dealt with.
Named(n, q, un) ==
  \/ un.name = n /\ No(q, {"putUsername"})
  \/ \E i \in 1..Len(q) :
       /\ q[i].kind = "putUsername" /\ q[i].at = n
       /\ \A k \in 1..Len(q) : i < k => q[k].kind # "putUsername"

Ordered(q, un) ==
  /\ Never(q, Asks, Edits \cup {"loadChild"})
  /\ Never(q, {"editUsername"}, {"putUsername", "editUsername", "putUser"})
  /\ Never(q, {"editUser"}, {"putUser", "editUser", "editUsername"})
  /\ Never(q, {"openUpdate"}, {"putUsername"}) \/ Steady(q, un)
  /\ No(q, {"loadChild", "editUsername"}) \/ Steady(q, un)

\* What p's page and call to Auth say of the calls on their way.
PageAgrees(q, c, a, un, there) ==
  /\ (a.page = "update" /\ ~a.alert) \/ c = "commitUpdate" => No(q, Edits)
  /\ a.page = "update" => Steady(q, un) /\ (a.child # None => a.child = un.name)
  /\ No(q, {"checkNew"}) \/ a.page = "signUp"
  /\ No(q, {"checkSetup"}) \/ a.page = "setup"
  /\ c \in {"create", "commitNew"} => a.page = "signUp"
  /\ c = "commitUpdate" => a.page = "update"
  /\ a.page \in {"main", "setup", "update"} \/ a.alert \/ c = "commitNew" => there
  /\ ~there \/ c = "commitNew" => un = Unset /\ No(q, Edits \cup {"putUser", "putUsername"})

ShowsUid(q, un, d) == Ends(q, UidCalls, Shown(d), un # Unset => un.display = d)

ShowsNames(q, un, us, d) ==
  \A n \in Names : Named(n, q, un) => Ends(q, NameCalls(n), Shown(d), us[n].display = d)

Says(q, un, us, d) == Ordered(q, un) /\ ShowsUid(q, un, d) /\ ShowsNames(q, un, us, d)

Agrees(q, c, a, un, us, acc) ==
  Says(q, un, us, acc.display) /\ PageAgrees(q, c, a, un, acc.there)

AgreeInv ==
  \A p \in People : ~app[p].ended =>
    Agrees(queue[p], call[p], app[p], username[p], user, auth[p])

\* Some of the calls, in their order; of these kinds, all.
Keeps(e, r, q, kinds) ==
  /\ e \in [1..Len(r) -> 1..Len(q)]
  /\ \A i \in 1..Len(r) : r[i] = q[e[i]]
  /\ \A i, j \in 1..Len(r) : i < j => e[i] < e[j]
  /\ \A k \in 1..Len(q) : q[k].kind \in kinds => \E j \in 1..Len(r) : e[j] = k

LEMMA SelectionKeeps ==
  ASSUME NEW q \in Seq(Calls), NEW kinds
  PROVE  \E e : Keeps(e, OfKind(q, kinds), q, kinds)
  BY SelectionIsOrdered, SMTT(30) DEF Selects, Keeps

LEMMA TailKeeps ==
  ASSUME NEW q \in Seq(Calls), q # <<>>
  PROVE  \A kinds : q[1].kind \notin kinds => \E e : Keeps(e, Tail(q), q, kinds)
<1> DEFINE t == Tail(q)
           e == [i \in 1..Len(t) |-> i + 1]
<1>1. /\ t \in Seq(Calls) /\ Len(q) \in Nat /\ Len(t) \in Nat
      /\ \A i \in 1..Len(t) : i \in Nat /\ i + 1 \in 1..Len(q) /\ t[i] = q[i + 1]
      /\ \A i \in 1..Len(q) : i # 1 => i - 1 \in 1..Len(t)
  BY TailOf
<1> HIDE DEF t
<1>2. \A i \in 1..Len(t) : e[i] = i + 1
  OBVIOUS
<1>3. e \in [1..Len(t) -> 1..Len(q)]
  BY <1>1
<1> HIDE DEF e
<1> SUFFICES ASSUME NEW kinds, q[1].kind \notin kinds PROVE Keeps(e, t, q, kinds)
  BY DEF t
<1>4. ASSUME NEW k \in 1..Len(q), q[k].kind \in kinds PROVE \E j \in 1..Len(t) : e[j] = k
  <2>1. k # 1 /\ k - 1 \in 1..Len(t) /\ k \in Nat
    BY <1>1, <1>4
  <2>2. e[k - 1] = k
    BY <1>2, <2>1
  <2> QED
    BY <2>1, <2>2
<1>5. \A i, j \in 1..Len(t) : i < j => e[i] < e[j]
  BY <1>1, <1>2
<1> QED
  BY <1>1, <1>2, <1>3, <1>4, <1>5 DEF Keeps

LEMMA KeptNever ==
  ASSUME NEW q \in Seq(Calls), NEW r \in Seq(Calls), NEW e, NEW kinds, Keeps(e, r, q, kinds)
  PROVE  /\ \A A, B : Never(q, A, B) => Never(r, A, B)
         /\ \A A : No(q, A) => No(r, A)
         /\ \A un : Steady(q, un) => Steady(r, un)
<1>1. \A i \in 1..Len(r) : i \in Nat /\ e[i] \in 1..Len(q) /\ r[i] = q[e[i]]
  BY DEF Keeps
<1>2. \A i, j \in 1..Len(r) : i < j => e[i] < e[j]
  BY DEF Keeps
<1>3. ASSUME NEW A, NEW B, Never(q, A, B) PROVE Never(r, A, B)
  BY <1>1, <1>2, <1>3 DEF Never
<1>4. ASSUME NEW A, No(q, A) PROVE No(r, A)
  BY <1>1, <1>4 DEF No
<1>5. ASSUME NEW un, Steady(q, un) PROVE Steady(r, un)
  BY <1>1, <1>5 DEF Steady
<1> QED
  BY <1>3, <1>4, <1>5

\* Which of S comes last is not changed when others are left out.
LEMMA KeptEnds ==
  ASSUME NEW q \in Seq(Calls), NEW r \in Seq(Calls), NEW e, NEW kinds, Keeps(e, r, q, kinds),
         NEW S, \A x \in S : x.kind \in kinds, NEW G, NEW b, Ends(q, S, G, b)
  PROVE  Ends(r, S, G, b)
<1>1. \A i \in 1..Len(r) : i \in Nat /\ e[i] \in 1..Len(q) /\ e[i] \in Nat /\ r[i] = q[e[i]]
  BY DEF Keeps
<1>2. \A i, j \in 1..Len(r) : i < j => e[i] < e[j]
  BY DEF Keeps
<1>3. \A k \in 1..Len(q) : q[k] \in S => \E j \in 1..Len(r) : e[j] = k
  BY DEF Keeps
<1>4. ASSUME NEW i \in 1..Len(r), r[i] \in S, \A k \in 1..Len(r) : i < k => r[k] \notin S
      PROVE  r[i] \in G
  <2>1. ASSUME NEW k \in 1..Len(q), e[i] < k, q[k] \in S PROVE FALSE
    <3>1. PICK j \in 1..Len(r) : e[j] = k
      BY <1>3, <2>1
    <3>2. ~(i < j)
      BY <1>1, <1>4, <2>1, <3>1
    <3>3. i # j /\ ~(j < i)
      BY <1>1, <1>2, <2>1, <3>1
    <3> QED
      BY <1>1, <3>2, <3>3
  <2> QED
    BY <1>1, <1>4, <2>1 DEF Ends
<1>5. ASSUME \A i \in 1..Len(r) : r[i] \notin S PROVE b
  <2>1. \A i \in 1..Len(q) : q[i] \notin S
    BY <1>1, <1>3, <1>5
  <2> QED
    BY <2>1 DEF Ends
<1> QED
  BY <1>4, <1>5 DEF Ends

LEMMA KeptNamed ==
  ASSUME NEW q \in Seq(Calls), NEW r \in Seq(Calls), NEW e, NEW kinds, Keeps(e, r, q, kinds),
         "putUsername" \in kinds, NEW n, NEW un, Named(n, r, un)
  PROVE  Named(n, q, un)
<1>1. \A i \in 1..Len(r) : i \in Nat /\ e[i] \in 1..Len(q) /\ e[i] \in Nat /\ r[i] = q[e[i]]
  BY DEF Keeps
<1>2. \A i, j \in 1..Len(r) : i < j => e[i] < e[j]
  BY DEF Keeps
<1>3. \A k \in 1..Len(q) : q[k].kind = "putUsername" => \E j \in 1..Len(r) : e[j] = k
  BY DEF Keeps
<1>4. CASE un.name = n /\ No(r, {"putUsername"})
  <2>1. ASSUME NEW k \in 1..Len(q), q[k].kind = "putUsername" PROVE FALSE
    <3>1. PICK j \in 1..Len(r) : e[j] = k
      BY <1>3, <2>1
    <3>2. r[j].kind = "putUsername"
      BY <1>1, <2>1, <3>1
    <3> QED
      BY <1>4, <3>2 DEF No
  <2>2. No(q, {"putUsername"})
    BY <2>1 DEF No
  <2> QED
    BY <1>4, <2>2 DEF Named
<1>5. ASSUME NEW i \in 1..Len(r), r[i].kind = "putUsername", r[i].at = n,
             \A k \in 1..Len(r) : i < k => r[k].kind # "putUsername"
      PROVE  Named(n, q, un)
  <2>1. ASSUME NEW k \in 1..Len(q), e[i] < k, q[k].kind = "putUsername" PROVE FALSE
    <3>1. PICK j \in 1..Len(r) : e[j] = k
      BY <1>3, <2>1
    <3>2. ~(i < j)
      BY <1>1, <1>5, <2>1, <3>1
    <3>3. i # j /\ ~(j < i)
      BY <1>1, <1>2, <2>1, <3>1
    <3> QED
      BY <1>1, <3>2, <3>3
  <2> QED
    BY <1>1, <1>5, <2>1 DEF Named
<1> QED
  BY <1>4, <1>5 DEF Named

\* More calls are sent.
LEMMA SentNever ==
  ASSUME NEW q \in Seq(Calls), NEW calls \in Seq(Calls)
  PROVE  /\ \A A, B : Never(q, A, B) /\ Never(calls, A, B) /\ (No(q, A) \/ No(calls, B))
                      => Never(q \o calls, A, B)
         /\ \A A : No(q, A) /\ No(calls, A) <=> No(q \o calls, A)
         /\ \A un : Steady(q, un) /\ Steady(calls, un) => Steady(q \o calls, un)
<1> DEFINE r == q \o calls
           n == Len(q)
<1>1. /\ r \in Seq(Calls) /\ n \in Nat /\ Len(calls) \in Nat /\ Len(r) = n + Len(calls)
      /\ \A i \in 1..n : i \in 1..Len(r) /\ r[i] = q[i]
      /\ \A i \in 1..Len(calls) : n + i \in 1..Len(r) /\ r[n + i] = calls[i]
      /\ \A i \in 1..Len(r) :
           \/ i \in 1..n /\ r[i] = q[i]
           \/ i > n /\ i - n \in 1..Len(calls) /\ r[i] = calls[i - n]
  BY SentTo
<1> HIDE DEF r, n
<1>2. ASSUME NEW A, NEW B, Never(q, A, B), Never(calls, A, B), No(q, A) \/ No(calls, B)
      PROVE  Never(r, A, B)
  <2> SUFFICES ASSUME NEW i \in 1..Len(r), NEW k \in 1..Len(r), i < k, r[i].kind \in A, r[k].kind \in B
               PROVE  FALSE
    BY DEF Never
  <2>1. CASE k \in 1..n /\ r[k] = q[k]
    <3>1. i \in 1..n /\ r[i] = q[i]
      BY <1>1, <2>1
    <3> QED
      BY <1>2, <2>1, <3>1 DEF Never, n
  <2>2. CASE i \in 1..n /\ r[i] = q[i] /\ k - n \in 1..Len(calls) /\ r[k] = calls[k - n]
    BY <1>2, <2>2 DEF No, n
  <2>3. CASE /\ i > n /\ i - n \in 1..Len(calls) /\ r[i] = calls[i - n]
             /\ k - n \in 1..Len(calls) /\ r[k] = calls[k - n]
    <3>1. i - n < k - n
      BY <1>1
    <3> QED
      BY <1>2, <2>3, <3>1 DEF Never
  <2> QED
    BY <1>1, <2>1, <2>2, <2>3
<1>3. \A A : No(q, A) /\ No(calls, A) <=> No(r, A)
  <2>1. ASSUME NEW A, No(q, A), No(calls, A) PROVE No(r, A)
    BY <1>1, <2>1 DEF No, n
  <2>2. ASSUME NEW A, No(r, A) PROVE No(q, A) /\ No(calls, A)
    <3>1. ASSUME NEW i \in 1..Len(q) PROVE q[i].kind \notin A
      BY <1>1, <2>2 DEF No, n
    <3>2. ASSUME NEW i \in 1..Len(calls) PROVE calls[i].kind \notin A
      BY <1>1, <2>2 DEF No, n
    <3> QED
      BY <3>1, <3>2 DEF No
  <2> QED
    BY <2>1, <2>2
<1>4. \A un : Steady(q, un) /\ Steady(calls, un) => Steady(r, un)
  <2> SUFFICES ASSUME NEW un, Steady(q, un), Steady(calls, un), NEW i \in 1..Len(r),
                      r[i].kind = "putUsername"
               PROVE  r[i].at = un.name
    BY DEF Steady
  <2>1. CASE i \in 1..n /\ r[i] = q[i]
    BY <2>1 DEF Steady, n
  <2>2. CASE i - n \in 1..Len(calls) /\ r[i] = calls[i - n]
    BY <2>2 DEF Steady
  <2> QED
    BY <1>1, <2>1, <2>2
<1> QED
  BY <1>2, <1>3, <1>4 DEF r

LEMMA SentEnds ==
  ASSUME NEW q \in Seq(Calls), NEW calls \in Seq(Calls), NEW S, NEW G, NEW b,
         \/ Ends(q, S, G, b) /\ \A i \in 1..Len(calls) : calls[i] \notin S
         \/ Ends(calls, S, G, FALSE)
  PROVE  Ends(q \o calls, S, G, b)
<1> DEFINE r == q \o calls
           n == Len(q)
<1>1. /\ r \in Seq(Calls) /\ n \in Nat /\ Len(calls) \in Nat /\ Len(r) = n + Len(calls)
      /\ \A i \in 1..n : i \in 1..Len(r) /\ r[i] = q[i]
      /\ \A i \in 1..Len(calls) : n + i \in 1..Len(r) /\ r[n + i] = calls[i]
      /\ \A i \in 1..Len(r) :
           \/ i \in 1..n /\ r[i] = q[i]
           \/ i > n /\ i - n \in 1..Len(calls) /\ r[i] = calls[i - n]
  BY SentTo
<1> HIDE DEF r, n
<1>2. CASE Ends(q, S, G, b) /\ \A i \in 1..Len(calls) : calls[i] \notin S
  <2>1. ASSUME NEW i \in 1..Len(r), r[i] \in S, \A k \in 1..Len(r) : i < k => r[k] \notin S
        PROVE  r[i] \in G
    <3>1. i \in 1..n /\ r[i] = q[i]
      BY <1>1, <1>2, <2>1
    <3>2. \A k \in 1..n : i < k => q[k] \notin S
      BY <1>1, <2>1
    <3> QED
      BY <1>2, <2>1, <3>1, <3>2 DEF Ends, n
  <2>2. ASSUME \A i \in 1..Len(r) : r[i] \notin S PROVE b
    <3>1. \A i \in 1..n : q[i] \notin S
      BY <1>1, <2>2
    <3> QED
      BY <1>2, <3>1 DEF Ends, n
  <2> QED
    BY <2>1, <2>2 DEF Ends, r
<1>3. CASE Ends(calls, S, G, FALSE)
  <2>1. PICK m \in 1..Len(calls) : calls[m] \in S
    BY <1>3 DEF Ends
  <2>2. ASSUME NEW i \in 1..Len(r), r[i] \in S, \A k \in 1..Len(r) : i < k => r[k] \notin S
        PROVE  r[i] \in G
    <3>1. ~(i < n + m)
      BY <1>1, <2>1, <2>2
    <3>2. i - n \in 1..Len(calls) /\ r[i] = calls[i - n]
      BY <1>1, <2>1, <3>1
    <3>3. ASSUME NEW k \in 1..Len(calls), i - n < k PROVE calls[k] \notin S
      <4>1. i < n + k
        BY <1>1, <3>2, <3>3
      <4> QED
        BY <1>1, <2>2, <4>1
    <3> QED
      BY <1>3, <2>2, <3>2, <3>3 DEF Ends
  <2>3. ~(\A i \in 1..Len(r) : r[i] \notin S)
    BY <1>1, <2>1
  <2> QED
    BY <2>2, <2>3 DEF Ends, r
<1> QED
  BY <1>2, <1>3

LEMMA SentNamed ==
  ASSUME NEW q \in Seq(Calls), NEW calls \in Seq(Calls), NEW n, NEW un, Named(n, q \o calls, un)
  PROVE  /\ No(calls, {"putUsername"}) => Named(n, q, un)
         /\ ~No(calls, {"putUsername"}) =>
              \E i \in 1..Len(calls) : calls[i].kind = "putUsername" /\ calls[i].at = n
<1> DEFINE r == q \o calls
           m == Len(q)
<1>1. /\ r \in Seq(Calls) /\ m \in Nat /\ Len(calls) \in Nat /\ Len(r) = m + Len(calls)
      /\ \A i \in 1..m : i \in 1..Len(r) /\ r[i] = q[i]
      /\ \A i \in 1..Len(calls) : m + i \in 1..Len(r) /\ r[m + i] = calls[i]
      /\ \A i \in 1..Len(r) :
           \/ i \in 1..m /\ r[i] = q[i]
           \/ i > m /\ i - m \in 1..Len(calls) /\ r[i] = calls[i - m]
  BY SentTo
<1>2. \A A : No(q, A) /\ No(calls, A) <=> No(r, A)
  BY SentNever
<1>3. Named(n, r, un)
  OBVIOUS
<1> HIDE DEF r, m
<1>4. CASE un.name = n /\ No(r, {"putUsername"})
  BY <1>2, <1>4 DEF Named
<1>5. ASSUME NEW i \in 1..Len(r), r[i].kind = "putUsername", r[i].at = n,
             \A k \in 1..Len(r) : i < k => r[k].kind # "putUsername"
      PROVE  /\ No(calls, {"putUsername"}) => Named(n, q, un)
             /\ ~No(calls, {"putUsername"}) =>
                  \E j \in 1..Len(calls) : calls[j].kind = "putUsername" /\ calls[j].at = n
  <2>1. CASE No(calls, {"putUsername"})
    <3>1. i \in 1..m /\ r[i] = q[i]
      BY <1>1, <1>5, <2>1 DEF No
    <3>2. \A k \in 1..m : i < k => q[k].kind # "putUsername"
      BY <1>1, <1>5
    <3> QED
      BY <1>5, <2>1, <3>1, <3>2 DEF Named, m
  <2>2. CASE ~No(calls, {"putUsername"})
    <3>1. PICK j \in 1..Len(calls) : calls[j].kind = "putUsername"
      BY <2>2 DEF No
    <3>2. ~(i < m + j)
      BY <1>1, <1>5, <3>1
    <3>3. i - m \in 1..Len(calls) /\ r[i] = calls[i - m]
      BY <1>1, <3>1, <3>2
    <3> QED
      BY <1>5, <2>2, <3>3
  <2> QED
    BY <2>1, <2>2
<1> QED
  BY <1>3, <1>4, <1>5 DEF Named

\* The first call is dealt with.
LEMMA TailEnds ==
  ASSUME NEW q \in Seq(Calls), q # <<>>, NEW S, NEW G, NEW b, NEW c, Ends(q, S, G, b),
         q[1] \in S \cap G => c, q[1] \notin S /\ b => c
  PROVE  Ends(Tail(q), S, G, c)
<1> DEFINE t == Tail(q)
<1>1. /\ t \in Seq(Calls) /\ Len(q) \in Nat /\ Len(t) \in Nat /\ 1 \in 1..Len(q)
      /\ \A i \in 1..Len(t) : i \in Nat /\ i + 1 \in 1..Len(q) /\ t[i] = q[i + 1]
      /\ \A i \in 1..Len(q) : i \in Nat /\ (i # 1 => i - 1 \in 1..Len(t) /\ t[i - 1] = q[i])
  BY TailOf
<1> HIDE DEF t
<1>2. ASSUME NEW i \in 1..Len(t), t[i] \in S, \A k \in 1..Len(t) : i < k => t[k] \notin S
      PROVE  t[i] \in G
  <2>1. ASSUME NEW k \in 1..Len(q), i + 1 < k PROVE q[k] \notin S
    <3>1. k - 1 \in 1..Len(t) /\ i < k - 1 /\ t[k - 1] = q[k]
      BY <1>1, <2>1
    <3> QED
      BY <1>2, <3>1
  <2> QED
    BY <1>1, <1>2, <2>1 DEF Ends
<1>3. ASSUME \A i \in 1..Len(t) : t[i] \notin S PROVE c
  <2>1. \A i \in 1..Len(q) : i # 1 => q[i] \notin S
    BY <1>1, <1>3
  <2>2. CASE q[1] \in S
    <3>1. \A k \in 1..Len(q) : 1 < k => q[k] \notin S
      BY <2>1
    <3> QED
      BY <1>1, <2>2, <3>1 DEF Ends
  <2>3. CASE q[1] \notin S
    BY <2>1, <2>3 DEF Ends
  <2> QED
    BY <2>2, <2>3
<1> QED
  BY <1>2, <1>3 DEF Ends, t

-----------------------------------------------------------------------------
(* What the calls say, when they change.                                   *)

Tells == Edits \cup {"putUser", "putUsername"}

LEMMA KeptOrdered ==
  ASSUME NEW q \in Seq(Calls), NEW r \in Seq(Calls), NEW e, NEW kinds, Keeps(e, r, q, kinds),
         NEW un, Ordered(q, un)
  PROVE  Ordered(r, un)
  BY KeptNever DEF Ordered

LEMMA KeptSays ==
  ASSUME NEW q \in Seq(Calls), NEW r \in Seq(Calls), NEW e, NEW kinds, Keeps(e, r, q, kinds),
         Tells \subseteq kinds, NEW un, NEW us, NEW d, Says(q, un, us, d)
  PROVE  Says(r, un, us, d)
<1>1. /\ "putUsername" \in kinds /\ "editUser" \in kinds
      /\ "putUser" \in kinds /\ "editUsername" \in kinds
  BY DEF Tells, Edits
<1>2. Ordered(r, un)
  BY KeptOrdered DEF Says
<1>3. ShowsUid(r, un, d)
  <2>1. \A x \in UidCalls : x.kind \in kinds
    BY <1>1 DEF UidCalls
  <2>2. Ends(q, UidCalls, Shown(d), un # Unset => un.display = d)
    BY DEF Says, ShowsUid
  <2>3. Ends(r, UidCalls, Shown(d), un # Unset => un.display = d)
    BY <2>1, <2>2, KeptEnds
  <2> QED
    BY <2>3 DEF ShowsUid
<1>4. ShowsNames(r, un, us, d)
  <2>1. ASSUME NEW n \in Names, Named(n, r, un)
        PROVE  Ends(r, NameCalls(n), Shown(d), us[n].display = d)
    <3>1. Named(n, q, un)
      BY <1>1, <2>1, KeptNamed
    <3>2. Ends(q, NameCalls(n), Shown(d), us[n].display = d)
      BY <3>1 DEF Says, ShowsNames
    <3>3. \A x \in NameCalls(n) : x.kind \in kinds
      BY <1>1 DEF NameCalls
    <3> QED
      BY <3>2, <3>3, KeptEnds
  <2> QED
    BY <2>1 DEF ShowsNames
<1> QED
  BY <1>2, <1>3, <1>4 DEF Says

\* A call that writes and changes nothing in these records.
LEMMA TailSays ==
  ASSUME NEW q \in Seq(Calls), q # <<>>, q[1].kind \notin Tells,
         NEW un, NEW us, NEW d, Says(q, un, us, d)
  PROVE  Says(Tail(q), un, us, d)
<1>1. Tail(q) \in Seq(Calls) /\ \E e : Keeps(e, Tail(q), q, Tells)
  BY TailKeeps, TailOf
<1> QED
  BY <1>1, KeptSays

\* One call, which reads.
LEMMA ReadSays ==
  ASSUME NEW q \in Seq(Calls), NEW x \in Calls, x.kind \notin Tells,
         NEW un, NEW us, NEW d, Says(q, un, us, d),
         x.kind = "loadChild" => NoAsks(q) /\ Steady(q, un)
  PROVE  Says(q \o <<x>>, un, us, d)
<1> DEFINE calls == <<x>>
           r == q \o calls
<1>1. calls \in Seq(Calls) /\ \A i \in 1..Len(calls) : i = 1 /\ calls[i] = x
  OBVIOUS
<1>2. r \in Seq(Calls)
  BY <1>1, SentTo
<1> HIDE DEF calls
<1>3. /\ \A A, B : Never(q, A, B) /\ Never(calls, A, B) /\ (No(q, A) \/ No(calls, B)) => Never(r, A, B)
      /\ \A A : No(q, A) /\ No(calls, A) <=> No(r, A)
      /\ \A vn : Steady(q, vn) /\ Steady(calls, vn) => Steady(r, vn)
  BY <1>1, SentNever
<1>4. /\ \A A, B : Never(calls, A, B)
      /\ \A A : x.kind \notin A => No(calls, A)
      /\ Steady(calls, un)
  BY <1>1 DEF Never, No, Steady, Tells
<1> HIDE DEF r
<1>5. Ordered(r, un)
  <2>1. Ordered(q, un)
    BY DEF Says
  <2>2. x.kind # "editUser" /\ x.kind # "editUsername" /\ x.kind # "putUser" /\ x.kind # "putUsername"
    BY DEF Tells, Edits
  <2>3. Never(r, Asks, Edits \cup {"loadChild"})
    <3>1. No(q, Asks) \/ No(calls, Edits \cup {"loadChild"})
      BY <1>4, <2>2 DEF No, NoAsks, Edits
    <3> QED
      BY <1>3, <1>4, <2>1, <3>1 DEF Ordered
  <2>4. Never(r, {"editUsername"}, {"putUsername", "editUsername", "putUser"})
    <3>1. No(calls, {"putUsername", "editUsername", "putUser"})
      BY <1>4, <2>2
    <3> QED
      BY <1>3, <1>4, <2>1, <3>1 DEF Ordered
  <2>5. Never(r, {"editUser"}, {"putUser", "editUser", "editUsername"})
    <3>1. No(calls, {"putUser", "editUser", "editUsername"})
      BY <1>4, <2>2
    <3> QED
      BY <1>3, <1>4, <2>1, <3>1 DEF Ordered
  <2>6. Never(r, {"openUpdate"}, {"putUsername"}) \/ Steady(r, un)
    <3>1. No(calls, {"putUsername"})
      BY <1>4, <2>2
    <3> QED
      BY <1>3, <1>4, <2>1, <3>1 DEF Ordered
  <2>7. No(r, {"loadChild", "editUsername"}) \/ Steady(r, un)
    <3>1. x.kind # "loadChild" => No(calls, {"loadChild", "editUsername"})
      BY <1>4, <2>2
    <3> QED
      BY <1>3, <1>4, <2>1, <3>1 DEF Ordered
  <2> QED
    BY <2>3, <2>4, <2>5, <2>6, <2>7 DEF Ordered
<1>6. ShowsUid(r, un, d)
  <2>1. \A i \in 1..Len(calls) : calls[i] \notin UidCalls
    BY <1>1 DEF UidCalls, Tells, Edits
  <2>2. Ends(q, UidCalls, Shown(d), un # Unset => un.display = d)
    BY DEF Says, ShowsUid
  <2>3. Ends(r, UidCalls, Shown(d), un # Unset => un.display = d)
    BY <1>1, <2>1, <2>2, SentEnds DEF r
  <2> QED
    BY <2>3 DEF ShowsUid
<1>7. ShowsNames(r, un, us, d)
  <2>1. ASSUME NEW n \in Names, Named(n, r, un)
        PROVE  Ends(r, NameCalls(n), Shown(d), us[n].display = d)
    <3>1. No(calls, {"putUsername"})
      BY <1>4 DEF Tells
    <3>2. Named(n, q, un)
      BY <1>1, <2>1, <3>1, SentNamed DEF r
    <3>3. Ends(q, NameCalls(n), Shown(d), us[n].display = d)
      BY <3>2 DEF Says, ShowsNames
    <3>4. \A i \in 1..Len(calls) : calls[i] \notin NameCalls(n)
      BY <1>1 DEF NameCalls, Tells, Edits
    <3> QED
      BY <1>1, <3>3, <3>4, SentEnds DEF r
  <2> QED
    BY <2>1 DEF ShowsNames
<1> QED
  BY <1>5, <1>6, <1>7 DEF Says, r, calls

\* The order of calls, when more are sent.
LEMMA SentOrdered ==
  ASSUME NEW q \in Seq(Calls), NEW calls \in Seq(Calls), NEW un, Ordered(q, un),
         Ordered(calls, un),
         No(q, Asks) \/ No(calls, Edits \cup {"loadChild"}),
         No(q, {"editUsername"}) \/ No(calls, {"putUsername", "editUsername", "putUser"}),
         No(q, {"editUser"}) \/ No(calls, {"putUser", "editUser", "editUsername"}),
         \/ No(q, {"openUpdate"}) /\ No(calls, {"openUpdate"})
         \/ No(calls, {"putUsername"}) \/ (Steady(q, un) /\ Steady(calls, un)),
         \/ No(q, {"loadChild", "editUsername"}) /\ No(calls, {"loadChild", "editUsername"})
         \/ (No(calls, {"loadChild", "editUsername"}) /\ Steady(calls, un))
         \/ (Steady(q, un) /\ Steady(calls, un))
  PROVE  Ordered(q \o calls, un)
<1> DEFINE r == q \o calls
<1>1. /\ \A A, B : Never(q, A, B) /\ Never(calls, A, B) /\ (No(q, A) \/ No(calls, B)) => Never(r, A, B)
      /\ \A A : No(q, A) /\ No(calls, A) <=> No(r, A)
      /\ Steady(q, un) /\ Steady(calls, un) => Steady(r, un)
  BY SentNever
<1>2. No(calls, {"putUsername"}) => Steady(calls, un) /\ Never(calls, {"openUpdate"}, {"putUsername"})
  BY DEF No, Steady, Never
<1>3. No(q, {"openUpdate"}) /\ No(calls, {"openUpdate"}) => Never(r, {"openUpdate"}, {"putUsername"})
  <2>1. ASSUME NEW s, No(s, {"openUpdate"}) PROVE Never(s, {"openUpdate"}, {"putUsername"})
    BY <2>1 DEF No, Never
  <2> QED
    BY <1>1, <2>1
<1> HIDE DEF r
<1>4. Never(r, Asks, Edits \cup {"loadChild"})
  BY <1>1 DEF Ordered
<1>5. Never(r, {"editUsername"}, {"putUsername", "editUsername", "putUser"})
  BY <1>1 DEF Ordered
<1>6. Never(r, {"editUser"}, {"putUser", "editUser", "editUsername"})
  BY <1>1 DEF Ordered
<1>7. Never(r, {"openUpdate"}, {"putUsername"}) \/ Steady(r, un)
  BY <1>1, <1>2, <1>3 DEF Ordered
<1>8. No(r, {"loadChild", "editUsername"}) \/ Steady(r, un)
  BY <1>1 DEF Ordered
<1> QED
  BY <1>4, <1>5, <1>6, <1>7, <1>8 DEF Ordered, r

\* A name is taken, with the display d.
LEMMA NameSays ==
  ASSUME NEW q \in Seq(Calls), NEW un, NEW us, Ordered(q, un), NoAsks(q),
         No(q, Edits \cup {"loadChild"}),
         NEW p \in People, NEW n \in Names, NEW d \in Displays \cup {None}
  PROVE  Says(q \o TakesName(p, n, d), un, us, d)
<1> DEFINE calls == TakesName(p, n, d)
           record == [uid |-> p, display |-> d]
           x == [Call("putUser") EXCEPT !.at = n, !.value = record]
           y == [Call("putUsername") EXCEPT !.at = n, !.value = record]
           z == [Call("putLists") EXCEPT !.at = n]
<1>1. record \in Records /\ record.display = d
  BY DEF Records
<1> HIDE DEF record
<1>2. x \in Calls /\ x.kind = "putUser" /\ x.at = n /\ x.value.display = d
  BY <1>1 DEF Call, Calls, Writes
<1>3. y \in Calls /\ y.kind = "putUsername" /\ y.at = n /\ y.value.display = d
  BY <1>1 DEF Call, Calls, Writes
<1>4. z \in Calls /\ z.kind = "putLists" /\ z.at = n
  BY DEF Call, Calls, Writes, Records, Free
<1>5. calls = <<x, y, z>>
  BY DEF TakesName, record
<1> HIDE DEF calls, x, y, z
<1>6. /\ calls \in Seq(Calls) /\ 1..Len(calls) = {1, 1 + 1, 1 + 1 + 1}
      /\ calls[1] = x /\ calls[1 + 1] = y /\ calls[1 + 1 + 1] = z
  BY <1>2, <1>3, <1>4, <1>5
<1>7. \A i \in 1..Len(calls) : calls[i].kind \in {"putUser", "putUsername", "putLists"} /\ calls[i].at = n
  BY <1>2, <1>3, <1>4, <1>6
<1>8. Ordered(calls, un)
  <2>1. No(calls, Asks \cup {"editUsername", "editUser", "openUpdate", "loadChild"})
    BY <1>7 DEF No, Asks
  <2> QED
    BY <2>1 DEF No, Ordered, Never
<1>9. Ordered(q \o calls, un)
  <2>1. /\ No(q, {"editUsername"}) /\ No(q, {"editUser"}) /\ No(q, {"openUpdate"})
        /\ No(q, {"loadChild", "editUsername"}) /\ No(q, Asks)
    BY DEF No, NoAsks, Asks, Edits
  <2>2. No(calls, {"openUpdate"}) /\ No(calls, {"loadChild", "editUsername"})
    BY <1>7 DEF No
  <2> QED
    BY <1>6, <1>8, <2>1, <2>2, SentOrdered
<1>10. ShowsUid(q \o calls, un, d)
  <2>1. Ends(calls, UidCalls, Shown(d), FALSE)
    BY <1>2, <1>3, <1>4, <1>6 DEF Ends, UidCalls, Shown
  <2> QED
    BY <1>6, <2>1, SentEnds DEF ShowsUid
<1>11. ASSUME NEW m \in Names, Named(m, q \o calls, un)
       PROVE  Ends(q \o calls, NameCalls(m), Shown(d), us[m].display = d)
  <2>1. ~No(calls, {"putUsername"})
    BY <1>3, <1>6 DEF No
  <2>2. m = n
    BY <1>6, <1>7, <1>11, <2>1, SentNamed
  <2>3. Ends(calls, NameCalls(n), Shown(d), FALSE)
    BY <1>2, <1>3, <1>4, <1>6 DEF Ends, NameCalls, Shown
  <2> QED
    BY <1>6, <2>2, <2>3, SentEnds
<1> QED
  BY <1>9, <1>10, <1>11 DEF Says, ShowsNames, calls

\* The profile is updated, and will be with the display d.
LEMMA UpdateSays ==
  ASSUME NEW q \in Seq(Calls), NEW un, NEW us, Ordered(q, un), NoAsks(q), No(q, Edits),
         Steady(q, un), NEW child \in Names, child = un.name,
         NEW v \in Records,
         NEW x \in Calls, x.kind = "editUsername", x.value = v,
         NEW y \in Calls, y.kind = "editUser", y.at = child, y.value = v
  PROVE  Says(q \o <<x, y>>, un, us, v.display)
<1> DEFINE calls == <<x, y>>
           d == v.display
<1>1. /\ calls \in Seq(Calls) /\ 1..Len(calls) = {1, 1 + 1}
      /\ calls[1] = x /\ calls[1 + 1] = y
  OBVIOUS
<1> HIDE DEF calls
<1>2. \A i \in 1..Len(calls) : calls[i].kind \in Edits
  BY <1>1 DEF Edits
<1>3. Steady(calls, un) /\ No(calls, {"openUpdate", "putUsername", "putUser"} \cup Asks)
  BY <1>2 DEF Steady, No, Edits, Asks
<1>4. \A i, k \in 1..Len(calls) : i < k => i = 1 /\ k = 1 + 1
  BY <1>1
<1>5. Ordered(calls, un)
  <2>1. Never(calls, Asks, Edits \cup {"loadChild"}) /\ Never(calls, {"openUpdate"}, {"putUsername"})
    BY <1>3 DEF Never, No
  <2>2. Never(calls, {"editUsername"}, {"putUsername", "editUsername", "putUser"})
    BY <1>1, <1>4 DEF Never
  <2>3. Never(calls, {"editUser"}, {"putUser", "editUser", "editUsername"})
    BY <1>1, <1>4 DEF Never
  <2> QED
    BY <1>3, <2>1, <2>2, <2>3 DEF Ordered
<1>6. Ordered(q \o calls, un)
  <2>1. No(q, {"editUsername"}) /\ No(q, {"editUser"}) /\ No(q, Asks) /\ No(calls, {"putUsername"})
    BY <1>3 DEF No, NoAsks, Asks, Edits
  <2> QED
    BY <1>1, <1>3, <1>5, <2>1, SentOrdered
<1>7. x \in Shown(d) /\ y \in Shown(d)
  BY DEF Shown
<1>8. ShowsUid(q \o calls, un, d)
  <2>1. x \in UidCalls /\ y \notin UidCalls
    BY DEF UidCalls
  <2>2. Ends(calls, UidCalls, Shown(d), FALSE)
    BY <1>1, <1>7, <2>1 DEF Ends
  <2> QED
    BY <1>1, <2>2, SentEnds DEF ShowsUid
<1>9. ShowsNames(q \o calls, un, us, d)
  <2>1. ASSUME NEW m \in Names, Named(m, q \o calls, un)
        PROVE  Ends(q \o calls, NameCalls(m), Shown(d), us[m].display = d)
    <3>1. No(calls, {"putUsername"})
      BY <1>3 DEF No
    <3>2. Named(m, q, un)
      BY <1>1, <2>1, <3>1, SentNamed
    <3>3. m = child
      BY <3>2 DEF Named, Steady
    <3>4. y \in NameCalls(m) /\ x \notin NameCalls(m)
      BY <3>3 DEF NameCalls
    <3>5. Ends(calls, NameCalls(m), Shown(d), FALSE)
      BY <1>1, <1>7, <3>4 DEF Ends
    <3> QED
      BY <1>1, <3>5, SentEnds
  <2> QED
    BY <2>1 DEF ShowsNames
<1> QED
  BY <1>6, <1>8, <1>9 DEF Says, calls

\* The first call is of this kind, and behind it there is none of those.
LEMMA HeadNever ==
  ASSUME NEW q \in Seq(Calls), q # <<>>, NEW A, NEW B, Never(q, A, B), q[1].kind \in A
  PROVE  No(Tail(q), B)
<1> DEFINE t == Tail(q)
<1>1. /\ t \in Seq(Calls) /\ 1 \in 1..Len(q)
      /\ \A i \in 1..Len(t) : i \in Nat /\ i + 1 \in 1..Len(q) /\ t[i] = q[i + 1] /\ 1 < i + 1
  BY TailOf
<1> HIDE DEF t
<1>2. No(t, B)
  BY <1>1 DEF No, Never
<1> QED
  BY <1>2 DEF t

LEMMA TailOrdered ==
  ASSUME NEW q \in Seq(Calls), q # <<>>, NEW un, Ordered(q, un)
  PROVE  Ordered(Tail(q), un) /\ (Steady(q, un) => Steady(Tail(q), un))
<1>1. Tail(q) \in Seq(Calls) /\ \E e : Keeps(e, Tail(q), q, {})
  BY TailOf, TailKeeps
<1> QED
  BY <1>1, KeptOrdered, KeptNever

LEMMA TailNamed ==
  ASSUME NEW q \in Seq(Calls), q # <<>>, q[1].kind # "putUsername", NEW un, NEW n, Named(n, Tail(q), un)
  PROVE  Named(n, q, un)
<1>1. Tail(q) \in Seq(Calls) /\ \E e : Keeps(e, Tail(q), q, {"putUsername"})
  BY TailOf, TailKeeps
<1> QED
  BY <1>1, KeptNamed

\* One call to a write.
LEMMA OneOf ==
  ASSUME NEW y \in Calls
  PROVE  /\ <<y>> \in Seq(Calls) /\ \A i \in 1..Len(<<y>>) : <<y>>[i] = y
         /\ \A A : No(<<y>>, A) <=> y.kind \notin A
         /\ \A A, B : Never(<<y>>, A, B)
         /\ \A S, G : y \in S /\ y \in G => Ends(<<y>>, S, G, FALSE)
         /\ \A un : y.kind # "putUsername" \/ y.at = un.name => Steady(<<y>>, un)
<1> DEFINE q == <<y>>
<1>1. q \in Seq(Calls) /\ 1..Len(q) = {1} /\ q[1] = y
  OBVIOUS
<1> HIDE DEF q
<1>2. \A A, B : Never(q, A, B)
  BY <1>1 DEF Never
<1>3. \A S, G : y \in S /\ y \in G => Ends(q, S, G, FALSE)
  BY <1>1 DEF Ends
<1>4. \A A : No(q, A) <=> y.kind \notin A
  BY <1>1 DEF No
<1>5. \A un : y.kind # "putUsername" \/ y.at = un.name => Steady(q, un)
  BY <1>1 DEF Steady
<1> QED
  BY <1>1, <1>2, <1>3, <1>4, <1>5 DEF q

\* The read of username/<uid> becomes its write.
LEMMA EditUsernameSays ==
  ASSUME NEW q \in Seq(Calls), q # <<>>, q[1].kind = "editUsername",
         NEW un, NEW us, NEW d, Says(q, un, us, d),
         NEW y \in Calls, y.kind = "putUsername", y.at = un.name, y.value = q[1].value
  PROVE  Says(Tail(q) \o <<y>>, un, us, d)
<1> DEFINE t == Tail(q)
           calls == <<y>>
<1>1. t \in Seq(Calls) /\ q[1] \in Calls /\ 1 \in 1..Len(q)
  BY TailOf
<1>2. Ordered(q, un) /\ ShowsUid(q, un, d)
  BY DEF Says
<1>3. Ordered(t, un) /\ (Steady(q, un) => Steady(t, un))
  BY <1>2, TailOrdered
<1>4. No(t, {"putUsername", "editUsername", "putUser"})
  <2>1. Never(q, {"editUsername"}, {"putUsername", "editUsername", "putUser"})
    BY <1>2 DEF Ordered
  <2> QED
    BY <2>1, HeadNever
<1>5. Steady(q, un)
  BY <1>1, <1>2 DEF Ordered, No
<1>6. /\ calls \in Seq(Calls) /\ \A i \in 1..Len(calls) : calls[i] = y
      /\ \A A : No(calls, A) <=> y.kind \notin A
      /\ \A A, B : Never(calls, A, B)
      /\ \A S, G : y \in S /\ y \in G => Ends(calls, S, G, FALSE)
      /\ Steady(calls, un)
  BY OneOf
<1>7. \A n : Named(n, t, un) => Named(n, q, un)
  BY TailNamed
<1>8. \A c : (q[1] \in UidCalls \cap Shown(d) => c) => Ends(t, UidCalls, Shown(d), c)
  BY <1>1, <1>2, TailEnds DEF ShowsUid, UidCalls
<1> HIDE DEF t, calls
<1>9. Ordered(t \o calls, un)
  <2>1. No(t, {"editUsername"})
    BY <1>4 DEF No
  <2>2. No(calls, Edits \cup {"loadChild"}) /\ No(calls, {"putUser", "editUser", "editUsername"})
    BY <1>6 DEF Edits
  <2>3. Ordered(calls, un)
    BY <1>6 DEF Ordered
  <2> QED
    BY <1>1, <1>3, <1>5, <1>6, <2>1, <2>2, <2>3, SentOrdered
<1>10. ShowsUid(t \o calls, un, d)
  <2>1. q[1] \in Shown(d)
    <3> DEFINE c == q[1] \in UidCalls \cap Shown(d)
    <3>1. Ends(t, UidCalls, Shown(d), c)
      BY <1>8
    <3>2. \A i \in 1..Len(t) : t[i] \notin UidCalls
      BY <1>4 DEF No, UidCalls
    <3> QED
      BY <3>1, <3>2 DEF Ends
  <2>2. y \in Shown(d) /\ y \in UidCalls
    BY <2>1 DEF Shown, UidCalls
  <2>3. Ends(calls, UidCalls, Shown(d), FALSE)
    BY <1>6, <2>2
  <2> QED
    BY <1>1, <1>6, <2>3, SentEnds DEF ShowsUid
<1>11. ShowsNames(t \o calls, un, us, d)
  <2>1. ASSUME NEW n \in Names, Named(n, t \o calls, un)
        PROVE  Ends(t \o calls, NameCalls(n), Shown(d), us[n].display = d)
    <3>1. \E i \in 1..Len(calls) : calls[i].kind = "putUsername" /\ calls[i].at = n
      BY <1>1, <1>6, <2>1, SentNamed
    <3>2. n = un.name
      BY <1>6, <3>1
    <3>3. Named(n, t, un)
      BY <1>4, <3>2 DEF Named, No
    <3>4. Ends(q, NameCalls(n), Shown(d), us[n].display = d)
      BY <1>7, <3>3 DEF Says, ShowsNames
    <3>5. q[1] \notin NameCalls(n) /\ y \notin NameCalls(n)
      BY DEF NameCalls
    <3>6. Ends(t, NameCalls(n), Shown(d), us[n].display = d)
      BY <3>4, <3>5, TailEnds DEF t
    <3> QED
      BY <1>1, <1>6, <3>5, <3>6, SentEnds
  <2> QED
    BY <2>1 DEF ShowsNames
<1> QED
  BY <1>9, <1>10, <1>11 DEF Says, t, calls

\* The read of user/<n> becomes its write.
LEMMA EditUserSays ==
  ASSUME NEW q \in Seq(Calls), q # <<>>, q[1].kind = "editUser",
         NEW un, NEW us, NEW d, Says(q, un, us, d),
         NEW y \in Calls, y.kind = "putUser", y.at = q[1].at, y.value.display = q[1].value.display
  PROVE  Says(Tail(q) \o <<y>>, un, us, d)
<1> DEFINE t == Tail(q)
           calls == <<y>>
<1>1. t \in Seq(Calls) /\ q[1] \in Calls /\ 1 \in 1..Len(q)
  BY TailOf
<1>2. Ordered(q, un) /\ ShowsUid(q, un, d)
  BY DEF Says
<1>3. Ordered(t, un)
  BY <1>2, TailOrdered
<1>4. No(t, {"putUser", "editUser", "editUsername"})
  <2>1. Never(q, {"editUser"}, {"putUser", "editUser", "editUsername"})
    BY <1>2 DEF Ordered
  <2> QED
    BY <2>1, HeadNever
<1>5. /\ calls \in Seq(Calls) /\ \A i \in 1..Len(calls) : calls[i] = y
      /\ \A A : No(calls, A) <=> y.kind \notin A
      /\ \A A, B : Never(calls, A, B)
      /\ \A S, G : y \in S /\ y \in G => Ends(calls, S, G, FALSE)
      /\ Steady(calls, un)
  BY OneOf
<1>6. \A n : Named(n, t, un) => Named(n, q, un)
  BY TailNamed
<1>7. q[1] \notin UidCalls /\ y \notin UidCalls
  BY DEF UidCalls
<1>8. Ends(t, UidCalls, Shown(d), un # Unset => un.display = d)
  BY <1>2, <1>7, TailEnds DEF ShowsUid
<1> HIDE DEF t, calls
<1>9. Ordered(t \o calls, un)
  <2>1. No(t, {"editUsername"}) /\ No(t, {"editUser"})
    BY <1>4 DEF No
  <2>2. No(calls, Edits \cup {"loadChild"}) /\ No(calls, {"putUsername"})
        /\ No(calls, {"loadChild", "editUsername"})
    BY <1>5 DEF Edits
  <2>3. Ordered(calls, un)
    BY <1>5 DEF Ordered
  <2> QED
    BY <1>1, <1>3, <1>5, <2>1, <2>2, <2>3, SentOrdered
<1>10. ShowsUid(t \o calls, un, d)
  BY <1>1, <1>5, <1>7, <1>8, SentEnds DEF ShowsUid
<1>11. ASSUME NEW m \in Names, Named(m, t \o calls, un)
       PROVE  Ends(t \o calls, NameCalls(m), Shown(d), us[m].display = d)
  <2>1. No(calls, {"putUsername"})
    BY <1>5
  <2>2. Named(m, q, un)
    BY <1>1, <1>5, <1>6, <1>11, <2>1, SentNamed
  <2>3. Ends(q, NameCalls(m), Shown(d), us[m].display = d)
    BY <2>2 DEF Says, ShowsNames
  <2>4. CASE y.at # m
    <3>1. q[1] \notin NameCalls(m) /\ y \notin NameCalls(m)
      BY <2>4 DEF NameCalls
    <3>2. Ends(t, NameCalls(m), Shown(d), us[m].display = d)
      BY <2>3, <3>1, TailEnds DEF t
    <3> QED
      BY <1>1, <1>5, <3>1, <3>2, SentEnds
  <2>5. CASE y.at = m
    <3> DEFINE c == q[1] \in NameCalls(m) \cap Shown(d)
    <3>1. q[1] \in NameCalls(m)
      BY <1>1, <2>5 DEF NameCalls
    <3>2. Ends(t, NameCalls(m), Shown(d), c)
      BY <2>3, <3>1, TailEnds DEF t
    <3>3. \A i \in 1..Len(t) : t[i] \notin NameCalls(m)
      BY <1>4 DEF No, NameCalls
    <3>4. q[1] \in Shown(d)
      BY <3>2, <3>3 DEF Ends
    <3>5. y \in NameCalls(m) /\ y \in Shown(d)
      BY <2>5, <3>4 DEF Shown, NameCalls
    <3>6. Ends(calls, NameCalls(m), Shown(d), FALSE)
      BY <1>5, <3>5
    <3> QED
      BY <1>1, <1>5, <3>6, SentEnds
  <2> QED
    BY <2>4, <2>5
<1> QED
  BY <1>9, <1>10, <1>11 DEF Says, ShowsNames, t, calls

\* user/<n> is written.
LEMMA PutUserSays ==
  ASSUME NEW q \in Seq(Calls), q # <<>>, q[1].kind = "putUser",
         NEW un, NEW us, NEW d, Says(q, un, us, d), NEW vs,
         vs[q[1].at] = q[1].value, \A m \in Names : m # q[1].at => vs[m] = us[m]
  PROVE  Says(Tail(q), un, vs, d)
<1> DEFINE t == Tail(q)
<1>1. Ordered(q, un) /\ ShowsUid(q, un, d)
  BY DEF Says
<1>2. Ordered(t, un)
  BY <1>1, TailOrdered
<1>3. q[1] \notin UidCalls
  BY DEF UidCalls
<1>4. ShowsUid(t, un, d)
  BY <1>1, <1>3, TailEnds DEF ShowsUid
<1>5. ASSUME NEW m \in Names, Named(m, t, un)
      PROVE  Ends(t, NameCalls(m), Shown(d), vs[m].display = d)
  <2>1. Ends(q, NameCalls(m), Shown(d), us[m].display = d)
    BY <1>5, TailNamed DEF Says, ShowsNames
  <2>2. CASE q[1].at = m
    <3>1. q[1] \in Shown(d) => vs[m].display = d
      BY <2>2 DEF Shown
    <3>2. q[1] \in NameCalls(m)
      <4>1. q[1] \in Calls
        BY TailOf
      <4> QED
        BY <2>2, <4>1 DEF NameCalls
    <3> QED
      BY <2>1, <3>1, <3>2, TailEnds
  <2>3. CASE q[1].at # m
    <3>1. q[1] \notin NameCalls(m) /\ vs[m] = us[m]
      BY <2>3 DEF NameCalls
    <3> QED
      BY <2>1, <3>1, TailEnds
  <2> QED
    BY <2>2, <2>3
<1> QED
  BY <1>2, <1>4, <1>5 DEF Says, ShowsNames

\* username/<uid> is written.
LEMMA PutUsernameSays ==
  ASSUME NEW q \in Seq(Calls), q # <<>>, q[1].kind = "putUsername",
         NEW un, NEW us, NEW d, Says(q, un, us, d), NEW vn,
         vn.name = q[1].at, vn.display = q[1].value.display
  PROVE  Says(Tail(q), vn, us, d)
<1> DEFINE t == Tail(q)
<1>1. Ordered(q, un) /\ ShowsUid(q, un, d)
  BY DEF Says
<1>2. /\ t \in Seq(Calls) /\ Len(q) \in Nat /\ 1 \in 1..Len(q) /\ q[1] \in Calls
      /\ \A i \in 1..Len(t) : i \in Nat /\ i + 1 \in 1..Len(q) /\ t[i] = q[i + 1]
      /\ \A i \in 1..Len(q) : i \in Nat /\ (i # 1 => i - 1 \in 1..Len(t) /\ t[i - 1] = q[i])
  BY TailOf
<1>3. Ordered(t, un) /\ (Steady(q, un) => Steady(t, un))
  BY <1>1, TailOrdered
<1>4. Steady(q, un) => un.name = vn.name
  BY <1>2 DEF Steady
<1>5. q[1] \in UidCalls /\ (q[1] \in Shown(d) => vn.display = d)
  BY <1>2 DEF UidCalls, Shown
<1>6. ShowsUid(t, vn, d)
  BY <1>1, <1>5, TailEnds DEF ShowsUid
<1>7. \A S, G, b : q[1] \notin S /\ Ends(q, S, G, b) => Ends(t, S, G, b)
  BY TailEnds
<1> HIDE DEF t
<1>8. Ordered(t, vn)
  <2>1. Steady(q, un) => Steady(t, vn)
    BY <1>3, <1>4 DEF Steady
  <2>2. Ordered(t, un)
    BY <1>3
  <2>3. Never(t, {"openUpdate"}, {"putUsername"}) \/ Steady(t, vn)
    <3>1. CASE Never(q, {"openUpdate"}, {"putUsername"})
      <4> SUFFICES ASSUME NEW i \in 1..Len(t), NEW k \in 1..Len(t), i < k,
                          t[i].kind \in {"openUpdate"}, t[k].kind \in {"putUsername"}
                   PROVE  FALSE
        BY DEF Never
      <4>1. i + 1 < k + 1
        BY <1>2
      <4> QED
        BY <1>2, <3>1, <4>1 DEF Never
    <3> QED
      BY <1>1, <2>1, <3>1 DEF Ordered
  <2>4. No(t, {"loadChild", "editUsername"}) \/ Steady(t, vn)
    <3>1. CASE No(q, {"loadChild", "editUsername"})
      BY <1>2, <3>1 DEF No
    <3> QED
      BY <1>1, <2>1, <3>1 DEF Ordered
  <2> QED
    BY <2>2, <2>3, <2>4 DEF Ordered
<1>9. ASSUME NEW m, Named(m, t, vn) PROVE Named(m, q, un)
  <2>1. CASE vn.name = m /\ No(t, {"putUsername"})
    <3>1. \A k \in 1..Len(q) : 1 < k => q[k].kind # "putUsername"
      BY <1>2, <2>1 DEF No
    <3> QED
      BY <1>2, <2>1, <3>1 DEF Named
  <2>2. ASSUME NEW i \in 1..Len(t), t[i].kind = "putUsername", t[i].at = m,
               \A k \in 1..Len(t) : i < k => t[k].kind # "putUsername"
        PROVE  Named(m, q, un)
    <3>1. ASSUME NEW k \in 1..Len(q), i + 1 < k PROVE q[k].kind # "putUsername"
      <4>1. k - 1 \in 1..Len(t) /\ i < k - 1 /\ t[k - 1] = q[k]
        BY <1>2, <3>1
      <4> QED
        BY <2>2, <4>1
    <3>2. i + 1 \in 1..Len(q) /\ q[i + 1].kind = "putUsername" /\ q[i + 1].at = m
      BY <1>2, <2>2
    <3> QED
      BY <3>1, <3>2 DEF Named
  <2> QED
    BY <1>9, <2>1, <2>2 DEF Named
<1>10. ASSUME NEW m \in Names, Named(m, t, vn)
       PROVE  Ends(t, NameCalls(m), Shown(d), us[m].display = d)
  <2>1. Ends(q, NameCalls(m), Shown(d), us[m].display = d)
    BY <1>9, <1>10 DEF Says, ShowsNames
  <2>2. q[1] \notin NameCalls(m)
    BY DEF NameCalls
  <2> QED
    BY <1>7, <2>1, <2>2
<1> QED
  BY <1>6, <1>8, <1>10 DEF Says, ShowsNames, t

-----------------------------------------------------------------------------
(* What every action leaves of it.                                         *)

AgreesThen(p) ==
  ~app'[p].ended => Agrees(queue'[p], call'[p], app'[p], username'[p], user', auth'[p])

LEMMA AgreeOthers ==
  ASSUME OneWants, NamesInv, AgreeInv, NEW p \in People,
         Person(p) \/ Serve(p) \/ Auth(p) \/ Die(p), AgreesThen(p)
  PROVE  AgreeInv'
<1> SUFFICES ASSUME NEW o \in People, o # p, ~app'[o].ended
             PROVE  Agrees(queue'[o], call'[o], app'[o], username'[o], user', auth'[o])
  BY DEF AgreeInv, AgreesThen
<1> DEFINE q == queue[o]
           un == username[o]
           d == auth[o].display
<1>1. queue'[o] = q /\ call'[o] = call[o] /\ app'[o] = app[o] /\ username'[o] = un
      /\ auth'[o] = auth[o]
  BY StepIsAlone DEF Alone
<1>2. Agrees(q, call[o], app[o], un, user, auth[o])
  BY <1>1 DEF AgreeInv
<1>3. QueueFits(o, q, call[o], app[o], un, user)
      /\ PageFits(o, call[o], app[o], un, user)
  BY PartsOf
<1>4. \A n \in Names : <<o, n>> \in Wanted => user'[n] = user[n]
  <2> SUFFICES ASSUME NEW n \in Names, <<o, n>> \in Wanted PROVE user'[n] = user[n]
    OBVIOUS
  <2>1. <<p, n>> \notin Wanted
    BY DEF OneWants
  <2> QED
    BY <2>1, StepIsOwn
<1>5. \A i \in 1..Len(q) : q[i].kind = "putUsername" => <<o, q[i].at>> \in Wanted
  BY <1>3 DEF QueueFits, CallFits
<1>6. un # Unset => <<o, un.name>> \in Wanted
  BY <1>3 DEF PageFits
<1>7. \A n \in Names : un.name = n => un # Unset
  BY NoneIsNothing DEF Unset, None
<1> HIDE DEF q, un, d
<1>8. \A n \in Names : Named(n, q, un) => user'[n] = user[n]
  BY <1>4, <1>5, <1>6, <1>7 DEF Named
<1>9. ShowsNames(q, un, user, d) => ShowsNames(q, un, user', d)
  BY <1>8 DEF ShowsNames
<1>10. Says(q, un, user', d)
  BY <1>2, <1>9 DEF Agrees, Says, d
<1> QED
  BY <1>1, <1>2, <1>10 DEF Agrees, d

LEMMA AgreeParts ==
  ASSUME NamesInv, AgreeInv, NEW p \in People, ~app[p].ended
  PROVE  /\ queue[p] \in Seq(Calls)
         /\ Says(queue[p], username[p], user, auth[p].display)
         /\ PageAgrees(queue[p], call[p], app[p], username[p], auth[p].there)
         /\ Ordered(queue[p], username[p])
         /\ DOMAIN call = People /\ app \in [People -> Screens] /\ DOMAIN queue = People
         /\ DOMAIN username = People
         /\ auth \in [People -> [there : BOOLEAN, display : Displays \cup {None}]]
  BY PartsOf DEF AgreeInv, Agrees, Says, NamesInv, Typed

LEMMA AgreeThen ==
  ASSUME NEW p \in People,
         ~app'[p].ended => Says(queue'[p], username'[p], user', auth'[p].display)
                           /\ PageAgrees(queue'[p], call'[p], app'[p], username'[p], auth'[p].there)
  PROVE  AgreesThen(p)
  BY DEF AgreesThen, Agrees

LEMMA NoCases ==
  ASSUME NEW q
  PROVE  /\ NoAsks(q) => No(q, {"checkNew"}) /\ No(q, {"checkSetup"}) /\ No(q, {"openUpdate"})
                         /\ No(q, Asks)
         /\ No(q, Edits \cup {"putUser", "putUsername"}) =>
              No(q, Edits) /\ No(q, {"putUser"}) /\ No(q, {"putUsername"})
         /\ No(q, {"putUsername"}) => \A un : Steady(q, un)
  BY DEF NoAsks, No, Asks, Edits, Steady

\* What the page says stays right when calls go and the page stays the same.
LEMMA PageSame ==
  ASSUME NEW q, NEW r, NEW c, NEW a, NEW b, NEW un, NEW there, PageAgrees(q, c, a, un, there),
         b.page = a.page, b.alert = a.alert, b.child = a.child \/ b.child = un.name,
         \A A : No(q, A) => No(r, A), Steady(q, un) => Steady(r, un)
  PROVE  PageAgrees(r, c, b, un, there)
  BY DEF PageAgrees

LEMMA TailLess ==
  ASSUME NEW q \in Seq(Calls), q # <<>>
  PROVE  /\ \A A : No(q, A) => No(Tail(q), A)
         /\ \A un : Steady(q, un) => Steady(Tail(q), un)
         /\ 1 \in 1..Len(q) /\ Head(q) = q[1]
<1>1. Tail(q) \in Seq(Calls) /\ \E e : Keeps(e, Tail(q), q, {})
  BY TailOf, TailKeeps
<1>2. 1 \in 1..Len(q) /\ Head(q) = q[1]
  BY TailOf
<1> QED
  BY <1>1, <1>2, KeptNever

LEMMA GoesAgrees ==
  ASSUME NamesInv, AgreeInv, NEW p \in People, NEW page \in {"out", "signUp", "main", "setup"},
         NoAsks(queue[p]), call[p] = None, Goes(p, page),
         \/ queue' = queue
         \/ \E kind \in {"showName", "loadChild"} : Forgets(p, kind),
         UNCHANGED <<database, call, auth>>,
         ~app[p].ended /\ page \in {"main", "setup"} => auth[p].there
  PROVE  AgreesThen(p)
<1> SUFFICES ASSUME ~app'[p].ended PROVE AgreesThen(p)
  BY DEF AgreesThen
<1> DEFINE a == [Empty EXCEPT !.page = page, !.mayName = app[p].mayName /\ page # "out",
                              !.ended = app[p].ended]
           q == queue[p]
           un == username[p]
<1>1. a.page = page /\ ~a.alert /\ a.child = None /\ a.ended = app[p].ended /\ app'[p] = a
  BY DEF Goes, Empty, NamesInv, Typed
<1>2. /\ q \in Seq(Calls) /\ Says(q, un, user, auth[p].display)
      /\ PageAgrees(q, call[p], app[p], un, auth[p].there)
      /\ DOMAIN queue = People
  BY <1>1, AgreeParts
<1> HIDE DEF a, q, un
<1>3. \E r \in Seq(Calls) : \E e : queue'[p] = r /\ Keeps(e, r, q, Tells)
  <2>1. CASE queue' = queue
    <3> DEFINE e == [i \in 1..Len(q) |-> i]
    <3>1. \A i \in 1..Len(q) : e[i] = i
      OBVIOUS
    <3>2. e \in [1..Len(q) -> 1..Len(q)]
      OBVIOUS
    <3> HIDE DEF e
    <3>3. Keeps(e, q, q, Tells)
      BY <3>1, <3>2 DEF Keeps
    <3> QED
      BY <1>2, <2>1, <3>3 DEF q
  <2>2. ASSUME NEW kind \in {"showName", "loadChild"}, Forgets(p, kind)
        PROVE  \E r \in Seq(Calls) : \E e : queue'[p] = r /\ Keeps(e, r, q, Tells)
    <3> DEFINE kinds == (Writes \cup Reads) \ {kind}
               r == OfKind(q, kinds)
    <3>1. queue'[p] = r
      BY <1>2, <2>2 DEF Forgets, q
    <3>2. Tells \subseteq kinds
      BY DEF Tells, Edits, Writes, Reads
    <3> HIDE DEF kinds
    <3>3. r \in Seq(Calls) /\ \E e : Keeps(e, r, q, kinds)
      BY <1>2, SelectionKeeps, SelectionIsPart
    <3> HIDE DEF r
    <3>4. PICK e : Keeps(e, r, q, kinds)
      BY <3>3
    <3>5. Keeps(e, r, q, Tells)
      BY <3>2, <3>4 DEF Keeps
    <3> QED
      BY <3>1, <3>3, <3>5
  <2> QED
    BY <2>1, <2>2
<1>4. PICK r \in Seq(Calls) : \E e : queue'[p] = r /\ Keeps(e, r, q, Tells)
  BY <1>3
<1>5. PICK e : queue'[p] = r /\ Keeps(e, r, q, Tells)
  BY <1>4
<1>6. Says(r, un, user, auth[p].display) /\ \A A : No(q, A) => No(r, A)
  BY <1>2, <1>5, KeptSays, KeptNever
<1>7. NoAsks(r)
  BY <1>5 DEF Keeps, NoAsks, q
<1>8. PageAgrees(r, None, a, un, auth[p].there)
  <2>1. No(r, {"checkNew"}) /\ No(r, {"checkSetup"})
    BY <1>7, NoCases
  <2>2. ~auth[p].there => un = Unset /\ No(r, Edits \cup {"putUser", "putUsername"})
    BY <1>2, <1>6 DEF PageAgrees
  <2> QED
    BY <1>1, <2>1, <2>2 DEF PageAgrees, None
<1> QED
  BY <1>1, <1>5, <1>6, <1>8, AgreeThen DEF database, un

LEMMA MovesAgree ==
  ASSUME NamesInv, AgreeInv, NEW p \in People,
         \/ OpenSignUp(p) \/ DismissSignUp(p) \/ OpenSetup(p) \/ DismissSetup(p)
         \/ SignIn(p) \/ Done(p) \/ SignOut(p) \/ BackFromUpdate(p)
  PROVE  AgreesThen(p)
<1>1. ~app[p].ended => (app[p].page \in {"main", "setup", "update"} \/ app[p].alert => auth[p].there)
  BY AgreeParts DEF PageAgrees
<1>2. CASE OpenSignUp(p) \/ DismissSignUp(p)
  BY <1>2, OnAsksNothing, GoesAgrees DEF OpenSignUp, DismissSignUp
<1>3. CASE OpenSetup(p) \/ DismissSetup(p)
  BY <1>1, <1>3, OnAsksNothing, GoesAgrees DEF OpenSetup, DismissSetup
<1>4. CASE SignIn(p)
  BY <1>4, OnAsksNothing, GoesAgrees DEF SignIn
<1>5. CASE SignOut(p) \/ BackFromUpdate(p)
  BY <1>1, <1>5, OnAsksNothing, GoesAgrees DEF SignOut, BackFromUpdate
<1>6. CASE Done(p)
  <2>1. app[p].alert /\ call[p] = None /\ NoAsks(queue[p])
    BY <1>6, PartsOf DEF Done, PageFits
  <2> QED
    BY <1>1, <1>6, <2>1, GoesAgrees DEF Done
<1> QED
  BY <1>2, <1>3, <1>4, <1>5, <1>6

LEMMA ElsewhereAgrees ==
  ASSUME NamesInv, AgreeInv, NEW p \in People, NEW d \in Displays, SignInElsewhere(p, d)
  PROVE  AgreesThen(p)
<1> SUFFICES ASSUME ~app'[p].ended PROVE AgreesThen(p)
  BY DEF AgreesThen
<1> DEFINE q == queue[p]
           un == username[p]
<1>1. /\ app'[p].page = "main" /\ ~app'[p].alert /\ app'[p].child = None /\ ~app[p].ended
      /\ call[p] = None /\ NoAsks(q) /\ ~auth[p].there
      /\ auth'[p].there /\ auth'[p].display = d
      /\ UNCHANGED <<database, queue, call>>
  BY OnAsksNothing DEF SignInElsewhere, Goes, Empty, NamesInv, Typed
<1>2. Ordered(q, un) /\ un = Unset /\ No(q, Edits \cup {"putUser", "putUsername"})
  BY <1>1, AgreeParts DEF PageAgrees
<1> HIDE DEF q, un
<1>3. ShowsUid(q, un, d)
  BY <1>2 DEF ShowsUid, Ends, UidCalls, No, Edits
<1>4. ShowsNames(q, un, user, d)
  <2> SUFFICES ASSUME NEW n \in Names, Named(n, q, un) PROVE FALSE
    BY DEF ShowsNames
  <2>1. un.name # n
    BY <1>2, NoneIsNothing DEF Unset, None
  <2> QED
    BY <1>2, <2>1 DEF Named, No
<1>5. PageAgrees(q, None, app'[p], un, auth'[p].there)
  BY <1>1, <1>2, NoCases DEF PageAgrees, None
<1> QED
  BY <1>1, <1>2, <1>3, <1>4, <1>5, AgreeThen DEF Says, database, q, un

LEMMA FieldsAgree ==
  ASSUME NamesInv, AgreeInv, NEW p \in People,
         ChoosePicture(p) \/ Uploaded(p) \/ \E d \in Displays : TapUpdate(p, d)
  PROVE  AgreesThen(p)
<1> SUFFICES ASSUME ~app'[p].ended PROVE AgreesThen(p)
  BY DEF AgreesThen
<1>1. /\ app'[p].page = app[p].page /\ app'[p].alert = app[p].alert
      /\ app'[p].child = app[p].child /\ ~app[p].ended /\ UNCHANGED <<auth, database, queue>>
  <2>1. app \in [People -> Screens]
    BY DEF NamesInv, Typed
  <2>2. CASE ChoosePicture(p)
    BY <2>1, <2>2 DEF ChoosePicture, Screens
  <2>3. CASE Uploaded(p)
    <3>1. PICK done \in BOOLEAN : app' = [app EXCEPT ![p].uploading = FALSE,
                                                  ![p].picked = @ \/ (done /\ signedIn[p])]
      BY <2>3 DEF Uploaded
    <3>2. UNCHANGED <<auth, database, queue>>
      BY <2>3 DEF Uploaded
    <3> QED
      BY <2>1, <3>1, <3>2 DEF Screens
  <2>4. ASSUME NEW d \in Displays, TapUpdate(p, d)
        PROVE  /\ app' = [app EXCEPT ![p].display = d] /\ UNCHANGED <<auth, database, queue>>
    BY <2>4 DEF TapUpdate
  <2> QED
    BY <2>1, <2>2, <2>3, <2>4 DEF Screens
<1>2. /\ Says(queue[p], username[p], user, auth[p].display)
      /\ PageAgrees(queue[p], call[p], app[p], username[p], auth[p].there)
  BY <1>1, AgreeParts
<1>3. CASE ChoosePicture(p) \/ Uploaded(p)
  <2>1. call' = call
    BY <1>3 DEF ChoosePicture, Uploaded
  <2>2. PageAgrees(queue[p], call[p], app'[p], username[p], auth[p].there)
    BY <1>1, <1>2, PageSame
  <2> QED
    BY <1>1, <1>2, <2>1, <2>2, AgreeThen DEF database
<1>4. ASSUME NEW d \in Displays, TapUpdate(p, d) PROVE AgreesThen(p)
  <2>1. app[p].page = "update" /\ ~app[p].alert /\ call'[p] = "commitUpdate" /\ NoAsks(queue[p])
    BY <1>4, OnAsksNothing DEF TapUpdate, NamesInv, Typed
  <2>2. PageAgrees(queue[p], "commitUpdate", app'[p], username[p], auth[p].there)
    BY <1>1, <1>2, <2>1 DEF PageAgrees
  <2> QED
    BY <1>1, <1>2, <2>1, <2>2, AgreeThen DEF database
<1> QED
  BY <1>3, <1>4

LEMMA TapsAgree ==
  ASSUME NamesInv, AgreeInv, NEW p \in People,
         \/ \E n \in Names, d \in Displays : TapSignUp(p, n, d)
         \/ \E n \in Names : TapSetup(p, n)
         \/ OpenProfile(p) \/ TapProfile(p)
  PROVE  AgreesThen(p)
<1> SUFFICES ASSUME ~app'[p].ended PROVE AgreesThen(p)
  BY DEF AgreesThen
<1>1. app \in [People -> Screens] /\ DOMAIN queue = People
  BY DEF NamesInv, Typed
<1>2. PICK kind \in {"checkNew", "checkSetup", "openUpdate", "showName"} :
        /\ Sends(p, <<Call(kind)>>)
        /\ app[p].page # "update" /\ call[p] = None /\ NoAsks(queue[p])
        /\ kind = "checkNew" => app[p].page = "signUp"
        /\ kind = "checkSetup" => app[p].page = "setup"
  <2>1. ASSUME NEW page, On(p, page) PROVE app[p].page = page /\ call[p] = None /\ NoAsks(queue[p])
    BY <2>1, OnAsksNothing
  <2>2. ASSUME NEW n \in Names, NEW d \in Displays, TapSignUp(p, n, d)
        PROVE  On(p, "signUp") /\ Sends(p, <<Call("checkNew")>>)
    BY <2>2 DEF TapSignUp
  <2>3. ASSUME NEW n \in Names, TapSetup(p, n)
        PROVE  On(p, "setup") /\ Sends(p, <<Call("checkSetup")>>)
    BY <2>3 DEF TapSetup
  <2>4. OpenProfile(p) => On(p, "main") /\ Sends(p, <<Call("showName")>>)
    BY DEF OpenProfile
  <2>5. TapProfile(p) => On(p, "main") /\ Sends(p, <<Call("openUpdate")>>)
    BY DEF TapProfile
  <2>6. \/ On(p, "signUp") /\ Sends(p, <<Call("checkNew")>>)
        \/ On(p, "setup") /\ Sends(p, <<Call("checkSetup")>>)
        \/ On(p, "main") /\ (Sends(p, <<Call("showName")>>) \/ Sends(p, <<Call("openUpdate")>>))
    BY <2>2, <2>3, <2>4, <2>5
  <2> QED
    BY <2>1, <2>6
<1>3. /\ app'[p].page = app[p].page /\ app'[p].alert = app[p].alert
      /\ app'[p].child = app[p].child /\ ~app[p].ended
      /\ UNCHANGED <<auth, database, call>>
  <2>1. ASSUME NEW n \in Names, NEW d \in Displays, TapSignUp(p, n, d)
        PROVE  app' = [app EXCEPT ![p].name = n, ![p].display = d] /\ UNCHANGED <<auth, database, call>>
    BY <2>1 DEF TapSignUp
  <2>2. ASSUME NEW n \in Names, TapSetup(p, n)
        PROVE  app' = [app EXCEPT ![p].name = n] /\ UNCHANGED <<auth, database, call>>
    BY <2>2 DEF TapSetup
  <2>3. OpenProfile(p) \/ TapProfile(p) => UNCHANGED <<auth, database, call, app>>
    BY DEF OpenProfile, TapProfile
  <2>4. CASE UNCHANGED <<auth, database, call, app>>
    BY <2>4
  <2>5. ASSUME NEW n \in Names, NEW d \in Displays,
               app' = [app EXCEPT ![p].name = n, ![p].display = d], UNCHANGED <<auth, database, call>>
        PROVE  /\ app'[p].page = app[p].page /\ app'[p].alert = app[p].alert
               /\ app'[p].child = app[p].child /\ ~app[p].ended
    BY <1>1, <2>5 DEF Screens
  <2>6. ASSUME NEW n \in Names, app' = [app EXCEPT ![p].name = n], UNCHANGED <<auth, database, call>>
        PROVE  /\ app'[p].page = app[p].page /\ app'[p].alert = app[p].alert
               /\ app'[p].child = app[p].child /\ ~app[p].ended
    BY <1>1, <2>6 DEF Screens
  <2> QED
    BY <2>1, <2>2, <2>3, <2>4, <2>5, <2>6, ZenonT(30)
<1> DEFINE q == queue[p]
           un == username[p]
           x == Call(kind)
<1>4. /\ Says(q, un, user, auth[p].display)
      /\ PageAgrees(q, call[p], app[p], un, auth[p].there) /\ q \in Seq(Calls)
  BY <1>3, AgreeParts
<1>5. x \in Calls /\ x.kind = kind /\ x.kind \notin Tells
  BY ReadIsCall DEF Reads, Tells, Edits
<1>6. queue'[p] = q \o <<x>>
  BY <1>1, <1>2 DEF Sends
<1> HIDE DEF q, un, x
<1>7. Says(q \o <<x>>, un, user, auth[p].display)
  BY <1>4, <1>5, ReadSays
<1>8. \A A : No(q, A) /\ kind \notin A => No(q \o <<x>>, A)
  BY <1>4, <1>5, OneOf, SentNever
<1>9. PageAgrees(q \o <<x>>, None, app'[p], un, auth[p].there)
  <2>1. kind # "checkNew" => No(q \o <<x>>, {"checkNew"})
    BY <1>2, <1>8, NoCases DEF q
  <2>2. kind # "checkSetup" => No(q \o <<x>>, {"checkSetup"})
    BY <1>2, <1>8, NoCases DEF q
  <2>3. kind \notin Edits \cup {"putUser", "putUsername"}
    BY DEF Edits
  <2>4. ~auth[p].there => un = Unset /\ No(q \o <<x>>, Edits \cup {"putUser", "putUsername"})
    BY <1>4, <1>8, <2>3 DEF PageAgrees
  <2> QED
    BY <1>2, <1>3, <1>4, <2>1, <2>2, <2>4 DEF PageAgrees, None
<1> QED
  BY <1>2, <1>3, <1>6, <1>7, <1>9, AgreeThen DEF database, un

LEMMA CreateAgrees ==
  ASSUME NamesInv, AgreeInv, NEW p \in People, CreateUser(p)
  PROVE  AgreesThen(p)
<1> SUFFICES ASSUME ~app'[p].ended PROVE AgreesThen(p)
  BY DEF AgreesThen
<1> DEFINE q == queue[p]
           un == username[p]
<1>1. call[p] = "create" /\ UNCHANGED <<database, queue, app>> /\ ~app[p].ended
  BY DEF CreateUser
<1>2. /\ Says(q, un, user, auth[p].display) /\ DOMAIN call = People
      /\ PageAgrees(q, call[p], app[p], un, auth[p].there)
      /\ auth \in [People -> [there : BOOLEAN, display : Displays \cup {None}]]
  BY <1>1, AgreeParts
<1> HIDE DEF q, un
<1>3. CASE ~auth[p].there /\ call' = [call EXCEPT ![p] = "commitNew"]
            /\ auth' = [auth EXCEPT ![p].there = TRUE]
  <2>1. auth'[p].there /\ auth'[p].display = auth[p].display /\ call'[p] = "commitNew"
    BY <1>2, <1>3
  <2>2. PageAgrees(q, "commitNew", app[p], un, auth'[p].there)
    BY <1>1, <1>2, <1>3, <2>1 DEF PageAgrees
  <2> QED
    BY <1>1, <1>2, <2>1, <2>2, AgreeThen DEF database, q, un
<1>4. CASE call' = [call EXCEPT ![p] = None] /\ UNCHANGED auth
  <2>1. PageAgrees(q, None, app[p], un, auth[p].there)
    BY <1>1, <1>2 DEF PageAgrees, None
  <2> QED
    BY <1>1, <1>2, <1>4, <2>1, AgreeThen DEF database, q, un
<1> QED
  BY <1>3, <1>4 DEF CreateUser

LEMMA CommitNewAgrees ==
  ASSUME NamesInv, AgreeInv, NEW p \in People, CommitNew(p)
  PROVE  AgreesThen(p)
<1> SUFFICES ASSUME ~app'[p].ended PROVE AgreesThen(p)
  BY DEF AgreesThen
<1> DEFINE q == queue[p]
           un == username[p]
           n == app[p].name
           d == app[p].display
           calls == TakesName(p, n, d)
<1>1. call[p] = "commitNew" /\ UNCHANGED database /\ call' = [call EXCEPT ![p] = None]
      /\ app \in [People -> Screens]
  BY DEF CommitNew, NamesInv, Typed
<1>2. ~app[p].ended
  BY <1>1 DEF CommitNew, Screens
<1>3. /\ q \in Seq(Calls) /\ Says(q, un, user, auth[p].display) /\ Ordered(q, un)
      /\ PageAgrees(q, call[p], app[p], un, auth[p].there) /\ DOMAIN queue = People
      /\ DOMAIN call = People
      /\ auth \in [People -> [there : BOOLEAN, display : Displays \cup {None}]]
  BY <1>2, AgreeParts
<1>4. /\ NoAsks(q) /\ <<p, n>> \in Wanted /\ d \in Displays \cup {None}
      /\ QueueFits(p, q, call[p], app[p], un, user)
  BY <1>1, PartsOf DEF None, PageFits, Screens
<1>5. n \in Names
  BY <1>4, WantedNames
<1>6. /\ un = Unset /\ No(q, Edits \cup {"putUser", "putUsername"}) /\ auth[p].there
      /\ app[p].page = "signUp"
  BY <1>1, <1>3 DEF PageAgrees
<1>7. No(q, Edits \cup {"loadChild"})
  BY <1>4, <1>6 DEF QueueFits, CallFits, No
<1>8. call'[p] = None
  BY <1>1, <1>3
<1>9. CASE /\ auth' = [auth EXCEPT ![p].display = d] /\ Sends(p, TakesName(p, n, DisplayAfter(p)))
           /\ app' = [app EXCEPT ![p].alert = TRUE]
  <2>1. queue'[p] = q \o calls
    BY <1>3, <1>9 DEF Sends, DisplayAfter
  <2>2. auth'[p].there /\ auth'[p].display = d /\ app'[p].page = "signUp"
    BY <1>1, <1>3, <1>6, <1>9 DEF Screens
  <2> HIDE DEF q, un, n, d
  <2>3. Says(q \o calls, un, user, d)
    BY <1>3, <1>4, <1>5, <1>7, NameSays
  <2>4. No(q \o calls, {"checkSetup"})
    <3>1. calls \in Seq(Calls) /\ NoAsks(calls)
      BY <1>4, <1>5, NameFits
    <3> QED
      BY <1>3, <1>4, <3>1, NoCases, SentNever
  <2> HIDE DEF calls
  <2>5. PageAgrees(q \o calls, None, app'[p], un, auth'[p].there)
    BY <2>2, <2>4 DEF PageAgrees, None
  <2> QED
    BY <1>1, <1>8, <2>1, <2>2, <2>3, <2>5, AgreeThen DEF database, un
<1>10. CASE UNCHANGED <<auth, queue, app>>
  <2> HIDE DEF q, un, n, d
  <2>1. PageAgrees(q, None, app[p], un, auth[p].there)
    BY <1>3, <1>6 DEF PageAgrees, None
  <2> QED
    BY <1>1, <1>3, <1>8, <1>10, <2>1, AgreeThen DEF database, q, un
<1> QED
  BY <1>9, <1>10 DEF CommitNew

LEMMA CommitUpdateAgrees ==
  ASSUME NamesInv, AgreeInv, NEW p \in People, CommitUpdate(p)
  PROVE  AgreesThen(p)
<1> SUFFICES ASSUME ~app'[p].ended PROVE AgreesThen(p)
  BY DEF AgreesThen
<1> DEFINE q == queue[p]
           un == username[p]
           v == Changes(p)
           x == [Call("editUsername") EXCEPT !.value = v]
           y == [Call("editUser") EXCEPT !.at = app[p].child, !.value = v]
           calls == <<x, y>>
<1>1. ~UpdateTraps(p)
  <2> SUFFICES ASSUME Restart(p) PROVE app'[p].ended
    BY DEF UpdateTraps
  <2> QED
    BY DEF Restart, Empty, NamesInv, Typed
<1>2. call[p] = "commitUpdate" /\ UNCHANGED database /\ call' = [call EXCEPT ![p] = None]
      /\ app \in [People -> Screens]
  BY <1>1 DEF CommitUpdate, NamesInv, Typed
<1>3. ~app[p].ended
  BY <1>1, <1>2 DEF CommitUpdate, Screens
<1>4. /\ q \in Seq(Calls) /\ Says(q, un, user, auth[p].display) /\ Ordered(q, un)
      /\ PageAgrees(q, call[p], app[p], un, auth[p].there) /\ DOMAIN queue = People
      /\ DOMAIN call = People
      /\ auth \in [People -> [there : BOOLEAN, display : Displays \cup {None}]]
  BY <1>3, AgreeParts
<1>5. NoAsks(q) /\ app[p].display \in Displays \cup {None} /\ app[p].child \in Names \cup {None}
  BY <1>2, PartsOf DEF None, Screens
<1>6. /\ app[p].page = "update" /\ auth[p].there /\ No(q, Edits) /\ Steady(q, un)
      /\ app[p].child # None => app[p].child = un.name
  BY <1>2, <1>4 DEF PageAgrees
<1>7. call'[p] = None
  BY <1>2, <1>4
<1>8. v \in Records /\ v.display = app[p].display
  BY <1>5 DEF Changes, Records, Free
<1> HIDE DEF v
<1>9. CASE /\ app[p].child # None /\ auth' = [auth EXCEPT ![p].display = app[p].display]
           /\ Sends(p, UpdateCalls(p)) /\ app' = [app EXCEPT ![p].alert = TRUE]
  <2>1. /\ x \in Calls /\ x.kind = "editUsername" /\ x.value = v
        /\ y \in Calls /\ y.kind = "editUser" /\ y.at = app[p].child /\ y.value = v
    BY <1>5, <1>8, <1>9 DEF Call, Calls, Reads
  <2>2. queue'[p] = q \o calls
    BY <1>4, <1>9 DEF Sends, UpdateCalls, v
  <2>3. auth'[p].there /\ auth'[p].display = v.display
    BY <1>4, <1>6, <1>8, <1>9
  <2>4. app'[p].page = "update" /\ app'[p].alert /\ app'[p].child = app[p].child
    BY <1>2, <1>6, <1>9 DEF Screens
  <2> HIDE DEF q, un, x, y
  <2>5. Says(q \o calls, un, user, v.display)
    BY <1>4, <1>5, <1>6, <1>8, <1>9, <2>1, UpdateSays
  <2>6. calls \in Seq(Calls) /\ \A i \in 1..Len(calls) : calls[i].kind \in Edits
    BY <2>1 DEF Edits
  <2> HIDE DEF calls
  <2>7. NoAsks(calls) /\ Steady(calls, un)
    BY <2>6 DEF NoAsks, Asks, Steady, Edits
  <2>8. No(q \o calls, {"checkNew"}) /\ No(q \o calls, {"checkSetup"}) /\ Steady(q \o calls, un)
    BY <1>4, <1>5, <1>6, <2>6, <2>7, NoCases, SentNever
  <2>9. PageAgrees(q \o calls, None, app'[p], un, auth'[p].there)
    BY <1>6, <2>3, <2>4, <2>8 DEF PageAgrees, None
  <2> QED
    BY <1>2, <1>7, <2>2, <2>3, <2>5, <2>9, AgreeThen DEF database, un
<1>10. CASE UNCHANGED <<auth, queue, app>>
  <2> HIDE DEF q, un
  <2>1. PageAgrees(q, None, app[p], un, auth[p].there)
    BY <1>4, <1>6 DEF PageAgrees, None
  <2> QED
    BY <1>2, <1>4, <1>7, <1>10, <2>1, AgreeThen DEF database, q, un
<1> QED
  BY <1>1, <1>9, <1>10 DEF CommitUpdate

\* The state before a call is dealt with.
LEMMA ServedParts ==
  ASSUME NamesInv, AgreeInv, NEW p \in People, queue[p] # <<>>, ~app[p].ended
  PROVE  LET q == queue[p]
             x == Head(q)
             un == username[p]
             t == Tail(q) IN
         /\ q \in Seq(Calls) /\ q # <<>> /\ x = q[1] /\ t \in Seq(Calls) /\ 1 \in 1..Len(q)
         /\ x.value \in Records /\ x.at \in Names \cup {None}
         /\ Says(q, un, user, auth[p].display) /\ Ordered(q, un)
         /\ PageAgrees(q, call[p], app[p], un, auth[p].there)
         /\ CallFits(p, x, call[p], app[p], un, user)
         /\ (x.kind \in Asks => NoAsks(t) /\ No(t, Edits \cup {"loadChild"}))
         /\ \A A : No(q, A) => No(t, A)
         /\ Steady(q, un) => Steady(t, un)
         /\ \A r : Makes(p, r) => queue'[p] = t \o r
         /\ t \o <<>> = t
<1> DEFINE q == queue[p]
           x == Head(q)
           un == username[p]
           t == Tail(q)
<1>1. /\ q \in Seq(Calls) /\ Says(q, un, user, auth[p].display) /\ Ordered(q, un)
      /\ PageAgrees(q, call[p], app[p], un, auth[p].there)
      /\ DOMAIN queue = People
  BY AgreeParts
<1>2. x = q[1] /\ t \in Seq(Calls) /\ 1 \in 1..Len(q)
  BY <1>1, TailOf
<1>3. CallFits(p, x, call[p], app[p], un, user) /\ x.value \in Records /\ x.at \in Names \cup {None}
  BY FirstFits
<1>4. ASSUME x.kind \in Asks PROVE NoAsks(t) /\ No(t, Edits \cup {"loadChild"})
  <2>1. QueueFits(p, q, call[p], app[p], un, user)
    BY PartsOf
  <2>2. x.kind # "putUser"
    BY <1>4 DEF Asks
  <2>3. NoAsks(t)
    BY <1>1, <1>2, <1>4, <2>1, <2>2, TailFits
  <2>4. Never(q, Asks, Edits \cup {"loadChild"})
    BY <1>1 DEF Ordered
  <2>5. No(t, Edits \cup {"loadChild"})
    BY <1>1, <1>2, <1>4, <2>4, HeadNever
  <2> QED
    BY <2>3, <2>5
<1>5. (\A A : No(q, A) => No(t, A)) /\ (Steady(q, un) => Steady(t, un))
  BY <1>1, TailLess
<1>6. \A r : Makes(p, r) => queue'[p] = t \o r
  BY <1>1 DEF Makes
<1>7. t \o <<>> = t
  BY <1>2, EmptyHasNone
<1> QED
  BY <1>1, <1>2, <1>3, <1>4, <1>5, <1>6, <1>7

\* A call that tells nothing is dealt with, and the page stays the same.
LEMMA QuietServes ==
  ASSUME NamesInv, AgreeInv, NEW p \in People, queue[p] # <<>>, Head(queue[p]).kind \notin Tells,
         Makes(p, <<>>), UNCHANGED <<auth, username, user, call>>, app'[p].page = app[p].page,
         app'[p].alert = app[p].alert, app'[p].ended = app[p].ended,
         app'[p].child = app[p].child \/ app'[p].child = username[p].name
  PROVE  AgreesThen(p)
<1> SUFFICES ASSUME ~app'[p].ended PROVE AgreesThen(p)
  BY DEF AgreesThen
<1> DEFINE q == queue[p]
           t == Tail(q)
           un == username[p]
<1>1. /\ q \in Seq(Calls) /\ Head(q) = q[1]
      /\ Says(q, un, user, auth[p].display)
      /\ PageAgrees(q, call[p], app[p], un, auth[p].there)
      /\ (\A A : No(q, A) => No(t, A)) /\ (Steady(q, un) => Steady(t, un))
      /\ queue'[p] = t
  BY ServedParts
<1>2. Says(t, un, user, auth[p].display)
  BY <1>1, TailSays
<1> HIDE DEF q, t, un
<1>3. PageAgrees(t, call[p], app'[p], un, auth[p].there)
  BY <1>1, PageSame DEF un
<1> QED
  BY <1>1, <1>2, <1>3, AgreeThen DEF un

LEMMA LooksAgree ==
  ASSUME NamesInv, AgreeInv, NEW p \in People,
         CheckNew(p) \/ CheckSetup(p) \/ ShowName(p) \/ LoadChild(p) \/ PutLists(p)
  PROVE  AgreesThen(p)
<1> SUFFICES ASSUME ~app'[p].ended PROVE AgreesThen(p)
  BY DEF AgreesThen
<1> DEFINE q == queue[p]
           x == Head(q)
           t == Tail(q)
           un == username[p]
<1>1. app \in [People -> Screens] /\ DOMAIN call = People
  BY DEF NamesInv, Typed
<1>2. q # <<>>
  BY DEF CheckNew, CheckSetup, ShowName, LoadChild, PutLists, First
<1>3. CASE PutLists(p)
  <2>1. x.kind \notin Tells /\ Makes(p, <<>>) /\ UNCHANGED <<auth, username, user, call, app>>
    BY <1>3 DEF PutLists, First, Tells, Edits
  <2> QED
    BY <1>2, <2>1, QuietServes
<1>4. CASE ShowName(p)
  <2>1. x.kind \notin Tells /\ Makes(p, <<>>) /\ UNCHANGED <<auth, username, user, call>>
    BY <1>4 DEF ShowName, First, Tells, Edits, database
  <2>2. app'[p].page = app[p].page /\ app'[p].alert = app[p].alert
        /\ app'[p].child = app[p].child /\ app'[p].ended = app[p].ended
    BY <1>1, <1>4 DEF ShowName, Screens
  <2> QED
    BY <1>2, <2>1, <2>2, QuietServes
<1>5. CASE LoadChild(p)
  <2>1. x.kind \notin Tells /\ Makes(p, <<>>) /\ UNCHANGED <<auth, username, user, call>>
    BY <1>5 DEF LoadChild, First, Tells, Edits, database
  <2>2. app'[p].page = app[p].page /\ app'[p].alert = app[p].alert
        /\ app'[p].child = username[p].name /\ app'[p].ended = app[p].ended
    BY <1>1, <1>5 DEF LoadChild, Screens
  <2> QED
    BY <1>2, <2>1, <2>2, QuietServes
<1>6. CASE CheckNew(p)
  <2>1. x.kind = "checkNew" /\ Makes(p, <<>>) /\ UNCHANGED <<auth, database, app>>
    BY <1>6 DEF CheckNew, First
  <2>2. x.kind \in Asks /\ x.kind \notin Tells
    BY <2>1 DEF Asks, Tells, Edits
  <2>3. /\ q \in Seq(Calls) /\ q # <<>> /\ x = q[1] /\ 1 \in 1..Len(q)
        /\ Says(q, un, user, auth[p].display)
        /\ PageAgrees(q, call[p], app[p], un, auth[p].there)
        /\ CallFits(p, x, call[p], app[p], un, user)
        /\ (\A A : No(q, A) => No(t, A)) /\ (Steady(q, un) => Steady(t, un))
        /\ queue'[p] = t
    BY <1>2, <2>1, ServedParts
  <2>4. call[p] = None
    BY <2>2, <2>3 DEF CallFits
  <2>5. Says(t, un, user, auth[p].display)
    BY <2>2, <2>3, TailSays
  <2>6. call'[p] \in {None, "create"}
    BY <1>1, <1>6, <2>4 DEF CheckNew
  <2>7. app[p].page = "signUp"
    BY <2>1, <2>3 DEF PageAgrees, No
  <2> HIDE DEF q, t, un
  <2>8. PageAgrees(t, call'[p], app[p], un, auth[p].there)
    BY <2>3, <2>4, <2>6, <2>7 DEF PageAgrees, None
  <2> QED
    BY <2>1, <2>3, <2>5, <2>8, AgreeThen DEF database, un
<1>7. CASE CheckSetup(p) /\ Makes(p, <<>>) /\ UNCHANGED app
  <2>1. x.kind \notin Tells /\ UNCHANGED <<auth, username, user, call>>
    BY <1>7 DEF CheckSetup, First, Tells, Edits, database
  <2> QED
    BY <1>2, <1>7, <2>1, QuietServes
<1>8. CASE /\ CheckSetup(p) /\ app' = [app EXCEPT ![p].alert = TRUE]
           /\ Makes(p, TakesName(p, app[p].name, auth[p].display))
  <2> DEFINE n == app[p].name
             d == auth[p].display
             calls == TakesName(p, n, d)
  <2>1. x.kind = "checkSetup" /\ UNCHANGED <<auth, database, call>>
    BY <1>8 DEF CheckSetup, First
  <2>2. x.kind \in Asks
    BY <2>1 DEF Asks
  <2>3. app'[p].page = app[p].page /\ ~app[p].ended
    BY <1>1, <1>8 DEF Screens
  <2>4. /\ q \in Seq(Calls) /\ q # <<>> /\ x = q[1] /\ 1 \in 1..Len(q) /\ t \in Seq(Calls)
        /\ Ordered(q, un)
        /\ PageAgrees(q, call[p], app[p], un, auth[p].there)
        /\ CallFits(p, x, call[p], app[p], un, user)
        /\ NoAsks(t) /\ No(t, Edits \cup {"loadChild"})
        /\ queue'[p] = t \o calls
    BY <1>2, <1>8, <2>2, <2>3, ServedParts
  <2>5. call[p] = None /\ <<p, n>> \in Wanted
    BY <2>1, <2>2, <2>4 DEF CallFits
  <2>6. n \in Names /\ d \in Displays \cup {None}
    BY <2>5, WantedNames, PartsOf
  <2>7. Ordered(t, un)
    BY <2>4, TailOrdered
  <2>8. app[p].page = "setup" /\ auth[p].there
    BY <2>1, <2>4 DEF PageAgrees, No
  <2> HIDE DEF q, t, un, n, d
  <2>9. Says(t \o calls, un, user, d)
    BY <2>4, <2>6, <2>7, NameSays
  <2>10. calls \in Seq(Calls) /\ NoAsks(calls)
    BY <2>5, <2>6, NameFits
  <2> HIDE DEF calls
  <2>11. No(t \o calls, {"checkNew"})
    BY <2>4, <2>10, NoCases, SentNever
  <2>12. PageAgrees(t \o calls, None, app'[p], un, auth[p].there)
    BY <2>3, <2>8, <2>11 DEF PageAgrees, None
  <2> QED
    BY <2>1, <2>4, <2>5, <2>9, <2>12, AgreeThen DEF database, un, d
<1> QED
  BY <1>3, <1>4, <1>5, <1>6, <1>7, <1>8 DEF CheckSetup

LEMMA OpenUpdateAgrees ==
  ASSUME NamesInv, AgreeInv, NEW p \in People, OpenUpdate(p)
  PROVE  AgreesThen(p)
<1> SUFFICES ASSUME ~app'[p].ended PROVE AgreesThen(p)
  BY DEF AgreesThen
<1> DEFINE q == queue[p]
           x == Head(q)
           t == Tail(q)
           un == username[p]
           y == Call("loadChild")
<1>1. q # <<>> /\ x.kind = "openUpdate" /\ UNCHANGED <<auth, database, call>>
      /\ app \in [People -> Screens]
  BY DEF OpenUpdate, First, NamesInv, Typed
<1>2. x.kind \in Asks /\ x.kind \notin Tells
  BY <1>1 DEF Asks, Tells, Edits
<1>3. CASE app' = [app EXCEPT ![p].mayName = TRUE] /\ Makes(p, <<>>)
  <2>1. app'[p].page = app[p].page /\ app'[p].alert = app[p].alert
        /\ app'[p].child = app[p].child /\ app'[p].ended = app[p].ended
    BY <1>1, <1>3 DEF Screens
  <2> QED
    BY <1>1, <1>2, <1>3, <2>1, QuietServes DEF database
<1>4. CASE HasName(p) /\ Goes(p, "update") /\ Makes(p, <<y>>)
  <2>1. app'[p].page = "update" /\ ~app'[p].alert /\ app'[p].child = None /\ ~app[p].ended
    BY <1>1, <1>4 DEF Goes, Empty
  <2>2. /\ q \in Seq(Calls) /\ q # <<>> /\ x = q[1] /\ t \in Seq(Calls)
        /\ Says(q, un, user, auth[p].display) /\ Ordered(q, un)
        /\ PageAgrees(q, call[p], app[p], un, auth[p].there)
        /\ CallFits(p, x, call[p], app[p], un, user)
        /\ NoAsks(t) /\ No(t, Edits \cup {"loadChild"})
        /\ (Steady(q, un) => Steady(t, un))
        /\ queue'[p] = t \o <<y>>
    BY <1>1, <1>2, <1>4, <2>1, ServedParts
  <2>3. call[p] = None
    BY <1>2, <2>2 DEF CallFits
  <2>4. Says(t, un, user, auth[p].display)
    BY <1>2, <2>2, TailSays
  <2>5. Steady(t, un)
    <3>1. CASE Never(q, {"openUpdate"}, {"putUsername"})
      <4>1. No(t, {"putUsername"})
        BY <1>1, <2>2, <3>1, HeadNever
      <4> QED
        BY <4>1, NoCases
    <3> QED
      BY <2>2, <3>1 DEF Ordered
  <2>6. y \in Calls /\ y.kind = "loadChild"
    BY ReadIsCall DEF Reads
  <2>7. auth[p].there
    BY <1>4, <2>2 DEF PageAgrees, HasName
  <2> HIDE DEF q, t, un, y
  <2>8. Says(t \o <<y>>, un, user, auth[p].display)
    <3>1. y.kind \notin Tells
      BY <2>6 DEF Tells, Edits
    <3> QED
      BY <2>2, <2>4, <2>5, <2>6, <3>1, ReadSays
  <2>9. (\A A : No(t, A) /\ "loadChild" \notin A => No(t \o <<y>>, A)) /\ Steady(t \o <<y>>, un)
    <3>1. <<y>> \in Seq(Calls) /\ t \in Seq(Calls) /\ \A A : No(<<y>>, A) <=> y.kind \notin A
      BY <2>2, <2>6, OneOf
    <3>2. Steady(<<y>>, un)
      BY <2>6, OneOf
    <3>3. \A A : No(t, A) /\ "loadChild" \notin A => No(t \o <<y>>, A)
      BY <2>6, <3>1, SentNever
    <3> QED
      BY <2>5, <3>1, <3>2, <3>3, SentNever
  <2>10. No(t \o <<y>>, Edits) /\ No(t \o <<y>>, {"checkNew"}) /\ No(t \o <<y>>, {"checkSetup"})
    <3>1. No(t, Edits) /\ No(t, {"checkNew"}) /\ No(t, {"checkSetup"}) /\ "loadChild" \notin Edits
      BY <2>2, NoCases DEF No, Edits
    <3> QED
      BY <2>9, <3>1
  <2>11. PageAgrees(t \o <<y>>, None, app'[p], un, auth[p].there)
    BY <2>1, <2>7, <2>9, <2>10 DEF PageAgrees, None
  <2> QED
    BY <1>1, <2>2, <2>3, <2>8, <2>11, AgreeThen DEF database, un
<1> QED
  BY <1>3, <1>4 DEF OpenUpdate

\* A call that tells something is dealt with: then there is an account, and
\* the page says nothing against it.
LEMMA TellsServed ==
  ASSUME NEW q \in Seq(Calls), q # <<>>, q[1].kind \in Tells, NEW c, NEW a, NEW un, NEW vn, NEW there,
         PageAgrees(q, c, a, un, there), Steady(q, un) => vn.name = un.name,
         NEW calls \in Seq(Calls), NoAsks(calls), No(calls, Edits),
         Steady(q, un) => Steady(calls, vn)
  PROVE  PageAgrees(Tail(q) \o calls, c, a, vn, there)
<1> DEFINE t == Tail(q)
           r == t \o calls
<1>1. (\A A : No(q, A) => No(t, A)) /\ (Steady(q, un) => Steady(t, un)) /\ 1 \in 1..Len(q)
      /\ t \in Seq(Calls)
  BY TailLess, TailOf
<1> HIDE DEF t
<1>2. Steady(q, un) => Steady(r, vn)
  <2>1. Steady(q, un) => Steady(t, vn)
    BY <1>1 DEF Steady
  <2> QED
    BY <1>1, <2>1, SentNever
<1>3. (No(q, Edits) => No(r, Edits)) /\ (No(q, {"checkNew"}) => No(r, {"checkNew"}))
      /\ (No(q, {"checkSetup"}) => No(r, {"checkSetup"}))
  BY <1>1, NoCases, SentNever
<1>4. ~No(q, Edits \cup {"putUser", "putUsername"})
  BY <1>1 DEF No, Tells
<1> HIDE DEF r
<1>5. PageAgrees(r, c, a, vn, there)
  BY <1>2, <1>3, <1>4 DEF PageAgrees
<1> QED
  BY <1>5 DEF r, t

LEMMA EditsAgree ==
  ASSUME NamesInv, AgreeInv, NEW p \in People, EditUsername(p) \/ EditUser(p)
  PROVE  AgreesThen(p)
<1> SUFFICES ASSUME ~app'[p].ended PROVE AgreesThen(p)
  BY DEF AgreesThen
<1> DEFINE q == queue[p]
           x == Head(q)
           t == Tail(q)
           un == username[p]
           d == auth[p].display
<1>1. q # <<>> /\ UNCHANGED <<auth, database, call, app>>
  BY DEF EditUsername, EditUser, First
<1>2. /\ q \in Seq(Calls) /\ x = q[1] /\ t \in Seq(Calls) /\ 1 \in 1..Len(q)
      /\ x.value \in Records /\ x.at \in Names \cup {None}
      /\ Says(q, un, user, d) /\ Ordered(q, un)
      /\ PageAgrees(q, call[p], app[p], un, auth[p].there)
      /\ CallFits(p, x, call[p], app[p], un, user)
      /\ \A r : Makes(p, r) => queue'[p] = t \o r
  BY <1>1, ServedParts
<1>3. username[p] # Unset => username[p].name \in Names
  BY PartsOf
<1>4. CASE EditUsername(p)
  <2> DEFINE y == [Call("putUsername") EXCEPT !.at = un.name, !.value = x.value]
  <2>1. x.kind = "editUsername" /\ Makes(p, <<y>>)
    BY <1>4 DEF EditUsername, First
  <2>2. un.name \in Names
    BY <1>2, <1>3, <2>1 DEF CallFits
  <2>3. y \in Calls /\ y.kind = "putUsername" /\ y.at = un.name /\ y.value = q[1].value
    BY <1>2, <2>2 DEF Call, Calls, Writes
  <2>4. queue'[p] = t \o <<y>>
    BY <1>2, <2>1
  <2>5. q[1].kind = "editUsername" /\ q[1].kind \in Tells
    BY <1>2, <2>1 DEF Tells, Edits
  <2> HIDE DEF q, x, un, d, y
  <2>6. Says(t \o <<y>>, un, user, d)
    BY <1>1, <1>2, <2>3, <2>5, EditUsernameSays
  <2>7. <<y>> \in Seq(Calls) /\ NoAsks(<<y>>) /\ No(<<y>>, Edits) /\ Steady(<<y>>, un)
    <3>1. /\ <<y>> \in Seq(Calls) /\ \A i \in 1..Len(<<y>>) : <<y>>[i] = y
          /\ \A A : No(<<y>>, A) <=> y.kind \notin A
          /\ Steady(<<y>>, un)
      BY <2>3, OneOf
    <3> QED
      BY <2>3, <3>1 DEF NoAsks, Asks, Edits
  <2>8. PageAgrees(t \o <<y>>, call[p], app[p], un, auth[p].there)
    BY <1>1, <1>2, <2>5, <2>7, TellsServed
  <2> QED
    BY <1>1, <2>4, <2>6, <2>8, AgreeThen DEF database, un, d
<1>5. CASE EditUser(p)
  <2> DEFINE n == x.at
             v == [user[n] EXCEPT !.display = x.value.display]
             y == [Call("putUser") EXCEPT !.at = n, !.value = v]
  <2>1. x.kind = "editUser" /\ Makes(p, <<y>>)
    BY <1>5 DEF EditUser, First
  <2>2. n \in Names /\ user[n] # Free
    BY <1>1, <1>2, <2>1, FirstFits, CallsAreTyped DEF CallFits
  <2>3. user[n] \in [uid : People, display : Displays \cup {None}]
    BY <2>2 DEF NamesInv, Typed
  <2>4. x.value.display \in Displays \cup {None}
    BY <1>2 DEF Records
  <2>5. v \in Records /\ v.display = x.value.display
    BY <2>3, <2>4 DEF Records
  <2> HIDE DEF v
  <2>6. y \in Calls /\ y.kind = "putUser" /\ y.at = n /\ y.value = v
    BY <2>2, <2>5 DEF Call, Calls, Writes
  <2>7. queue'[p] = t \o <<y>>
    BY <1>2, <2>1
  <2> HIDE DEF y
  <2>8. /\ q[1].kind = "editUser" /\ q[1].kind \in Tells
        /\ y.at = q[1].at /\ y.value.display = q[1].value.display
    BY <1>2, <2>1, <2>5, <2>6 DEF Tells, Edits
  <2> HIDE DEF q, x, un, d, n
  <2>9. Says(t \o <<y>>, un, user, d)
    BY <1>1, <1>2, <2>6, <2>8, EditUserSays
  <2>10. <<y>> \in Seq(Calls) /\ NoAsks(<<y>>) /\ No(<<y>>, Edits) /\ Steady(<<y>>, un)
    <3>1. /\ <<y>> \in Seq(Calls) /\ \A i \in 1..Len(<<y>>) : <<y>>[i] = y
          /\ \A A : No(<<y>>, A) <=> y.kind \notin A
          /\ Steady(<<y>>, un)
      BY <2>6, OneOf
    <3> QED
      BY <2>6, <3>1 DEF NoAsks, Asks, Edits
  <2>11. PageAgrees(t \o <<y>>, call[p], app[p], un, auth[p].there)
    BY <1>1, <1>2, <2>8, <2>10, TellsServed
  <2> QED
    BY <1>1, <2>7, <2>9, <2>11, AgreeThen DEF database, un, d
<1> QED
  BY <1>4, <1>5

LEMMA PutsAgree ==
  ASSUME NamesInv, AgreeInv, NEW p \in People, PutUser(p) \/ PutUsername(p)
  PROVE  AgreesThen(p)
<1> SUFFICES ASSUME ~app'[p].ended PROVE AgreesThen(p)
  BY DEF AgreesThen
<1> DEFINE q == queue[p]
           x == Head(q)
           t == Tail(q)
           un == username[p]
           d == auth[p].display
<1>1. q # <<>> /\ UNCHANGED <<auth, call, app>> /\ Makes(p, <<>>)
  BY DEF PutUser, PutUsername, First
<1>2. /\ q \in Seq(Calls) /\ x = q[1] /\ 1 \in 1..Len(q) /\ t \in Seq(Calls) /\ t \o <<>> = t
      /\ Says(q, un, user, d) /\ x.at \in Names \cup {None}
      /\ PageAgrees(q, call[p], app[p], un, auth[p].there)
      /\ CallFits(p, x, call[p], app[p], un, user)
      /\ queue'[p] = t
  BY <1>1, ServedParts
<1>3. <<>> \in Seq(Calls) /\ NoAsks(<<>>) /\ No(<<>>, Edits) /\ \A vn : Steady(<<>>, vn)
  BY DEF NoAsks, No, Steady
<1>4. DOMAIN user = Names /\ DOMAIN username = People
  BY DEF NamesInv, Typed
<1>5. CASE PutUser(p)
  <2>1. x.kind = "putUser" /\ user' = [user EXCEPT ![x.at] = x.value] /\ username' = username
    BY <1>5 DEF PutUser, First
  <2>2. q[1].kind = "putUser" /\ q[1].kind \in Tells /\ <<p, q[1].at>> \in Wanted
    BY <1>2, <2>1 DEF Tells, CallFits
  <2>3. q[1].at \in Names
    BY <2>2, WantedNames
  <2> HIDE DEF t, un, d
  <2>4. user'[q[1].at] = q[1].value /\ \A m \in Names : m # q[1].at => user'[m] = user[m]
    BY <1>2, <1>4, <2>1, <2>3
  <2> HIDE DEF q, x
  <2>5. Says(t, un, user', d)
    BY <1>1, <1>2, <2>2, <2>4, PutUserSays DEF t
  <2>6. PageAgrees(t \o <<>>, call[p], app[p], un, auth[p].there)
    BY <1>1, <1>2, <1>3, <2>2, TellsServed DEF t
  <2> QED
    BY <1>1, <1>2, <2>1, <2>5, <2>6, AgreeThen DEF un, d
<1>6. CASE PutUsername(p)
  <2> DEFINE vn == [name |-> x.at, display |-> x.value.display]
  <2>1. x.kind = "putUsername" /\ username' = [username EXCEPT ![p] = vn] /\ user' = user
    BY <1>6 DEF PutUsername, First
  <2>2. q[1].kind = "putUsername" /\ q[1].kind \in Tells
        /\ vn.name = q[1].at /\ vn.display = q[1].value.display /\ username'[p] = vn
    BY <1>2, <1>4, <2>1 DEF Tells
  <2> HIDE DEF vn, q, x, t, un, d
  <2>3. Says(t, vn, user, d)
    BY <1>1, <1>2, <2>2, PutUsernameSays DEF t
  <2>4. Steady(q, un) => vn.name = un.name
    BY <1>2, <2>2 DEF Steady
  <2>5. PageAgrees(t \o <<>>, call[p], app[p], vn, auth[p].there)
    BY <1>1, <1>2, <1>3, <2>2, <2>4, TellsServed DEF t
  <2> QED
    BY <1>1, <1>2, <2>1, <2>2, <2>3, <2>5, AgreeThen DEF d
<1> QED
  BY <1>5, <1>6

LEMMA RestartAgrees ==
  ASSUME NamesInv, NEW p \in People, Restart(p)
  PROVE  AgreesThen(p)
  BY DEF Restart, Empty, AgreesThen, NamesInv, Typed

LEMMA AgreeNext ==
  ASSUME OneWants, NamesInv, AgreeInv, [Next]_vars
  PROVE  AgreeInv'
<1>1. CASE UNCHANGED vars
  BY <1>1 DEF vars, AgreeInv
<1>2. ASSUME NEW n \in Names, UseLists(n) PROVE AgreeInv'
  BY <1>2 DEF UseLists, AgreeInv
<1>3. ASSUME NEW p \in People, Person(p) \/ Serve(p) \/ Auth(p) \/ Die(p) PROVE AgreeInv'
  <2>1. AgreesThen(p)
    <3>1. CASE Person(p)
      BY <3>1, MovesAgree, ElsewhereAgrees, FieldsAgree, TapsAgree DEF Person
    <3>2. CASE Serve(p)
      BY <3>2, LooksAgree, OpenUpdateAgrees, EditsAgree, PutsAgree DEF Serve
    <3>3. CASE Auth(p)
      BY <3>3, CreateAgrees, CommitNewAgrees, CommitUpdateAgrees, FieldsAgree DEF Auth
    <3>4. CASE Die(p)
      BY <3>4, RestartAgrees DEF Die
    <3> QED
      BY <1>3, <3>1, <3>2, <3>3, <3>4
  <2> QED
    BY <1>3, <2>1, AgreeOthers
<1> QED
  BY <1>1, <1>2, <1>3 DEF Next

LEMMA AgreeStart ==
  ASSUME Init
  PROVE  AgreeInv
<1> SUFFICES ASSUME NEW p \in People
             PROVE  Agrees(<<>>, None, Empty, Unset, user, NoAccount)
  BY DEF Init, AgreeInv
<1>1. \A n \in Names : Unset.name # n
  BY NoneIsNothing DEF Unset, None
<1>2. Says(<<>>, Unset, user, NoAccount.display)
  BY <1>1 DEF Says, Ordered, Never, No, Steady, ShowsUid, ShowsNames, Ends, Named
<1>3. PageAgrees(<<>>, None, Empty, Unset, NoAccount.there)
  BY DEF PageAgrees, No, Steady, None, Empty, NoAccount
<1> QED
  BY <1>2, <1>3 DEF Agrees

\* When nothing is under way, the account, username/<uid> and user/<name> of
\* everybody whose app has not ended in between say the same display name,
\* though didTapUpdate signs out before the two callbacks write.
THEOREM DisplaysDoAgree ==
  ASSUME OneWants
  PROVE  Spec => []DisplaysAgree
<1>1. NamesInv /\ AgreeInv => DisplaysAgree
  <2> SUFFICES ASSUME NamesInv, AgreeInv, NEW p \in People, HasName(p), queue[p] = <<>>,
                      call[p] = None, ~app[p].ended
               PROVE  /\ username[p].display = auth[p].display
                      /\ user[username[p].name].display = auth[p].display
    BY DEF DisplaysAgree
  <2> DEFINE un == username[p]
             d == auth[p].display
  <2>1. un # Unset /\ un.name \in Names
    BY PartsOf DEF HasName
  <2>2. Says(<<>>, un, user, d)
    BY AgreeParts
  <2> HIDE DEF un, d
  <2>3. Len(<<>>) = 0
    OBVIOUS
  <2>4. un.display = d
    BY <2>1, <2>2, <2>3 DEF Says, ShowsUid, Ends
  <2>5. Named(un.name, <<>>, un)
    BY <2>3 DEF Named, No
  <2>6. Ends(<<>>, NameCalls(un.name), Shown(d), user[un.name].display = d)
    BY <2>1, <2>2, <2>3, <2>5 DEF Says, ShowsNames
  <2>7. user[un.name].display = d
    BY <2>3, <2>6 DEF Ends
  <2> QED
    BY <2>4, <2>7 DEF un, d
<1>2. Init => AgreeInv
  BY AgreeStart
<1>3. NamesInv /\ AgreeInv /\ [Next]_vars => AgreeInv'
  BY AgreeNext
<1> QED
  BY <1>1, <1>2, <1>3, NamesHold, PTL DEF Spec
=============================================================================
