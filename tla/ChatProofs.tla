---------------------------- MODULE ChatProofs ----------------------------
(***************************************************************************)
(* That the window a page sees only moves on, whatever is lost, repeated   *)
(* or acknowledged in between, and that the page shows it right, for any   *)
(* window, any number of messages and any number of losses.                *)
(***************************************************************************)
EXTENDS Chat, SequenceProofs, TLAPS

\* Enough came after a key for a window over X to have passed it.
Passed(k, X) == Cardinality(Newer(k, X)) >= Window

\* B is later than A, as windows go: it has A's messages or has passed them.
Precedes(A, B) == \A j \in A : j \in B \/ Passed(j, B)

-----------------------------------------------------------------------------
(* Windows.                                                                *)

\* The numbers involved.
LEMMA Counts ==
  ASSUME NEW X \in SUBSET Keys, NEW k
  PROVE  /\ IsFiniteSet(X) /\ Cardinality(X) \in Nat
         /\ IsFiniteSet(Newer(k, X)) /\ Cardinality(Newer(k, X)) \in Nat
         /\ Window \in Nat \ {0} /\ MaxKey \in Nat /\ X \subseteq Int
<1>1. Window \in Nat \ {0} /\ MaxKey \in Nat
  BY Bounds
<1>2. IsFiniteSet(Keys) /\ Keys \subseteq Int
  BY <1>1, FS_Interval DEF Keys
<1>3. IsFiniteSet(X)
  BY <1>2, FS_Subset
<1>4. Newer(k, X) \in SUBSET X
  BY DEF Newer
<1>5. IsFiniteSet(Newer(k, X))
  BY <1>3, <1>4, FS_Subset
<1> QED
  BY <1>1, <1>2, <1>3, <1>5, FS_CardinalityType

LEMMA InWindow ==
  ASSUME NEW X \in SUBSET Keys, NEW k
  PROVE  k \in LastOf(X) <=> k \in X /\ ~Passed(k, X)
<1>1. Cardinality(Newer(k, X)) \in Int /\ Window \in Int
  BY Counts
<1> QED
  BY <1>1 DEF LastOf, Passed

\* More messages pass no fewer keys.
LEMMA PassedByMore ==
  ASSUME NEW X \in SUBSET Keys, NEW Y \in SUBSET Keys, NEW j, NEW k,
         Newer(j, X) \subseteq Newer(k, Y), Passed(j, X)
  PROVE  Passed(k, Y)
<1>1. Cardinality(Newer(j, X)) <= Cardinality(Newer(k, Y))
  <2>1. IsFiniteSet(Newer(k, Y)) /\ Newer(j, X) \in SUBSET Newer(k, Y)
    BY Counts
  <2> QED
    BY <2>1, FS_Subset
<1>2. /\ Cardinality(Newer(j, X)) \in Int /\ Cardinality(Newer(k, Y)) \in Int
      /\ Window \in Int
  BY Counts
<1> QED
  BY <1>1, <1>2 DEF Passed

LEMMA PassedBefore ==
  ASSUME NEW X \in SUBSET Keys, NEW j \in Keys, NEW k \in Keys, k < j, Passed(j, X)
  PROVE  Passed(k, X)
<1>1. Newer(j, X) \subseteq Newer(k, X)
  <2>1. j \in Int /\ k \in Int /\ \A x \in X : x \in Int
    BY Counts DEF Keys
  <2>2. \A x \in X : x > j => x > k
    BY <2>1
  <2> QED
    BY <2>2 DEF Newer
<1> QED
  BY <1>1, PassedByMore

LEMMA PassedBySuperset ==
  ASSUME NEW X \in SUBSET Keys, NEW Y \in SUBSET Keys, X \subseteq Y, NEW k, Passed(k, X)
  PROVE  Passed(k, Y)
<1>1. Newer(k, X) \subseteq Newer(k, Y)
  BY DEF Newer
<1> QED
  BY <1>1, PassedByMore

\* What is passed stays passed.
LEMMA PassedOn ==
  ASSUME NEW A \in SUBSET Keys, NEW B \in SUBSET Keys, NEW k \in Keys,
         Precedes(A, B), Passed(k, A)
  PROVE  Passed(k, B)
<1>1. CASE \E i \in Newer(k, A) : Passed(i, B)
  <2>1. PICK i \in Newer(k, A) : Passed(i, B)
    BY <1>1
  <2>2. i \in Keys /\ k < i
    BY Counts DEF Newer, Keys
  <2> QED
    BY <2>1, <2>2, PassedBefore
<1>2. CASE \A i \in Newer(k, A) : ~Passed(i, B)
  <2>1. Newer(k, A) \subseteq Newer(k, B)
    BY <1>2 DEF Newer, Precedes
  <2> QED
    BY <2>1, PassedByMore
<1> QED
  BY <1>1, <1>2

LEMMA PrecedesIsTransitive ==
  ASSUME NEW A \in SUBSET Keys, NEW B \in SUBSET Keys, NEW C \in SUBSET Keys,
         Precedes(A, B), Precedes(B, C)
  PROVE  Precedes(A, C)
<1> SUFFICES ASSUME NEW j \in A, j \notin C PROVE Passed(j, C)
  BY DEF Precedes
<1> QED
  BY PassedOn DEF Precedes

LEMMA PrecedesMore ==
  ASSUME NEW A, NEW B, A \subseteq B
  PROVE  Precedes(A, B)
  BY DEF Precedes

LEMMA GreatestExists ==
  ASSUME NEW S \in SUBSET Keys, S # {}
  PROVE  \E x \in S : \A y \in S : y <= x
<1> DEFINE T == {MaxKey - x : x \in S}
<1>1. MaxKey \in Nat /\ \A x \in S : x \in 1..MaxKey
  BY Counts DEF Keys
<1>2. T \in SUBSET Nat /\ T # {}
  BY <1>1
<1>3. PICK t \in T : \A u \in T : t <= u
  <2> HIDE DEF T
  <2> QED
    BY <1>2, LeastExists
<1>4. PICK x \in S : t = MaxKey - x
  OBVIOUS
<1>5. ASSUME NEW y \in S PROVE y <= x
  <2>1. MaxKey - x <= MaxKey - y
    BY <1>3, <1>4
  <2>2. x \in Int /\ y \in Int
    BY <1>1
  <2> QED
    BY <1>1, <2>1, <2>2
<1> QED
  BY <1>5

\* The window over a set has what it has not passed.
LEMMA WindowFollows ==
  ASSUME NEW X \in SUBSET Keys
  PROVE  LastOf(X) \in SUBSET X /\ Precedes(X, LastOf(X))
<1>1. LastOf(X) \in SUBSET X
  BY DEF LastOf
<1> DEFINE Q == {j \in X : Passed(j, X) /\ ~Passed(j, LastOf(X))}
<1>2. ASSUME Q # {} PROVE FALSE
  <2>1. PICK j \in Q : \A i \in Q : i <= j
    BY <1>2, GreatestExists
  <2>2. j \in Keys /\ Passed(j, X) /\ ~Passed(j, LastOf(X))
    OBVIOUS
  <2>3. ASSUME NEW i \in Newer(j, X) PROVE i \in LastOf(X)
    <3>1. i \in X /\ i \in Keys /\ j < i /\ i \in Int /\ j \in Int
      BY Counts DEF Newer
    <3>2. i \notin Q
      BY <2>1, <3>1
    <3>3. ~Passed(i, LastOf(X))
      BY <1>1, <2>2, <3>1, PassedBefore
    <3>4. ~Passed(i, X)
      BY <3>1, <3>2, <3>3
    <3> QED
      BY <3>1, <3>4, InWindow
  <2>4. Newer(j, X) \subseteq Newer(j, LastOf(X))
    BY <2>3 DEF Newer
  <2> QED
    BY <1>1, <2>2, <2>4, PassedByMore
<1>3. ASSUME NEW j \in X, j \notin LastOf(X) PROVE Passed(j, LastOf(X))
  <2>1. Passed(j, X)
    BY <1>3, InWindow
  <2> QED
    BY <1>2, <2>1
<1> QED
  BY <1>1, <1>3 DEF Precedes

\* A key that a window has passed is not in it.
LEMMA NotInWindow ==
  ASSUME NEW X \in SUBSET Keys, NEW k, Passed(k, LastOf(X))
  PROVE  k \notin LastOf(X)
<1>1. LastOf(X) \subseteq X
  BY DEF LastOf
<1> QED
  BY <1>1, PassedBySuperset, InWindow

LEMMA WindowIsSmall ==
  ASSUME NEW X \in SUBSET Keys
  PROVE  Cardinality(LastOf(X)) <= Window
<1> DEFINE W == LastOf(X)
<1>1. W \in SUBSET Keys /\ W \in SUBSET X
  BY DEF LastOf
<1>2. CASE W = {}
  BY <1>2, FS_EmptySet, Counts
<1>3. CASE W # {}
  <2>1. PICK m \in W : \A y \in W : m <= y
    <3>1. W \in SUBSET Nat
      BY <1>1, Counts DEF Keys
    <3> HIDE DEF W
    <3> QED
      BY <1>3, <3>1, LeastExists
  <2>2. W \ {m} \in SUBSET Newer(m, X)
    <3>1. \A y \in W : y \in Int
      BY <1>1, Counts
    <3>2. \A y \in W \ {m} : y > m /\ y \in X
      BY <1>1, <2>1, <3>1
    <3> QED
      BY <3>2 DEF Newer
  <2>3. Cardinality(W \ {m}) <= Cardinality(Newer(m, X))
    BY <2>2, Counts, FS_Subset
  <2>4. Cardinality(Newer(m, X)) < Window
    BY DEF LastOf
  <2>5. IsFiniteSet(W) /\ Cardinality(W) \in Nat
    BY <1>1, Counts
  <2>6. Cardinality(W \ {m}) = Cardinality(W) - 1
    <3> HIDE DEF W
    <3> QED
      BY <2>5, FS_RemoveElement
  <2>7. Cardinality(Newer(m, X)) \in Nat /\ Window \in Nat
    BY Counts
  <2> HIDE DEF W
  <2>8. Cardinality(W) <= Window
    BY <2>3, <2>4, <2>5, <2>6, <2>7
  <2> QED
    BY <2>8 DEF W
<1> QED
  BY <1>2, <1>3

LEMMA PrecedesWithMore ==
  ASSUME NEW A \in SUBSET Keys, NEW B \in SUBSET Keys, NEW P \in SUBSET Keys, Precedes(A, B)
  PROVE  Precedes(A \cup P, B \cup P)
<1>1. ASSUME NEW j \in A, j \notin B PROVE Passed(j, B \cup P)
  <2>1. Passed(j, B)
    BY <1>1 DEF Precedes
  <2> QED
    BY <2>1, PassedBySuperset
<1> QED
  BY <1>1 DEF Precedes

\* A later set has a later window.
LEMMA WindowsPrecede ==
  ASSUME NEW A \in SUBSET Keys, NEW B \in SUBSET Keys, Precedes(A, B)
  PROVE  Precedes(LastOf(A), LastOf(B))
<1>1. LastOf(A) \in SUBSET Keys /\ LastOf(B) \in SUBSET Keys
      /\ Precedes(LastOf(A), A) /\ Precedes(B, LastOf(B))
  BY WindowFollows, PrecedesMore
<1>2. Precedes(LastOf(A), B)
  BY <1>1, PrecedesIsTransitive
<1> QED
  BY <1>1, <1>2, PrecedesIsTransitive

\* A window needs no more than the window before and what is new.
LEMMA WindowOfWindow ==
  ASSUME NEW A \in SUBSET Keys, NEW B \in SUBSET Keys
  PROVE  LastOf(LastOf(A) \cup B) = LastOf(A \cup B)
<1> DEFINE X == A \cup B
           Y == LastOf(A) \cup B
<1>1. X \in SUBSET Keys /\ Y \in SUBSET X /\ LastOf(A) \in SUBSET A
  BY WindowFollows
<1>2. Precedes(X, Y)
  BY <1>1, WindowFollows, PrecedesWithMore
<1>3. ASSUME NEW k \in LastOf(X) PROVE k \in LastOf(Y)
  <2>1. k \in X /\ ~Passed(k, X)
    BY <1>1, InWindow
  <2>2. ~Passed(k, A) /\ ~Passed(k, Y)
    BY <1>1, <2>1, PassedBySuperset
  <2>3. k \in Y
    BY <2>1, <2>2, InWindow
  <2> HIDE DEF X, Y
  <2> QED
    BY <1>1, <2>2, <2>3, InWindow
<1>4. ASSUME NEW k \in LastOf(Y) PROVE k \in LastOf(X)
  <2> HIDE DEF X, Y
  <2>1. k \in Y /\ ~Passed(k, Y)
    BY <1>1, InWindow
  <2>2. k \in X /\ k \in Keys
    BY <1>1, <2>1
  <2>3. ~Passed(k, X)
    BY <1>1, <1>2, <2>1, <2>2, PassedOn
  <2> QED
    BY <1>1, <2>2, <2>3, InWindow
<1> QED
  BY <1>3, <1>4

\* A set with more than X has nothing of X in its window that X's has not.
LEMMA WindowOfMore ==
  ASSUME NEW X \in SUBSET Keys, NEW Y \in SUBSET Keys, X \subseteq Y
  PROVE  LastOf(Y) \cap X \subseteq LastOf(X)
<1> SUFFICES ASSUME NEW k \in LastOf(Y), k \in X PROVE k \in LastOf(X)
  OBVIOUS
<1>1. ~Passed(k, Y)
  BY InWindow
<1> QED
  BY <1>1, InWindow, PassedBySuperset

\* A message that does not come into the window leaves it as it is.
LEMMA NothingNew ==
  ASSUME NEW X \in SUBSET Keys, NEW k \in Keys, k \notin LastOf(X \cup {k})
  PROVE  LastOf(X \cup {k}) = LastOf(X)
<1> DEFINE Y == X \cup {k}
<1>1. Y \in SUBSET Keys /\ X \subseteq Y /\ Y \subseteq X \cup {k}
  OBVIOUS
<1>2. LastOf(Y) \subseteq LastOf(X)
  <2>1. LastOf(Y) \subseteq Y
    BY DEF LastOf
  <2> HIDE DEF Y
  <2> QED
    BY <1>1, <2>1, WindowOfMore DEF Y
<1>3. Passed(k, Y)
  BY <1>1, InWindow
<1>4. ASSUME NEW j \in LastOf(X) PROVE j \in LastOf(Y)
  <2>1. j \in X /\ j \in Keys /\ ~Passed(j, X)
    BY InWindow DEF LastOf
  <2>2. j \in Int /\ k \in Int /\ \A y \in Y : y \in Int
    BY <1>1, Counts, <2>1 DEF Keys
  <2>3. CASE j >= k
    <3>1. Newer(j, Y) \subseteq Newer(j, X)
      BY <2>2, <2>3 DEF Newer
    <3>2. ~Passed(j, Y)
      BY <1>1, <2>1, <3>1, PassedByMore
    <3> QED
      BY <1>1, <2>1, <3>2, InWindow
  <2>4. CASE j < k
    <3>1. \A y \in Y : y > k => y > j /\ y # k
      BY <2>2, <2>4
    <3>2. Newer(k, Y) \subseteq Newer(j, X)
      BY <1>1, <3>1 DEF Newer
    <3> QED
      BY <1>1, <1>3, <2>1, <3>2, PassedByMore
  <2> QED
    BY <2>2, <2>3, <2>4
<1> QED
  BY <1>2, <1>4

\* The keys of a set in order.
LEMMA OrderOfKeys ==
  ASSUME NEW S \in SUBSET Keys, NEW s, s = InOrder(S)
  PROVE  /\ s \in Seq(S) /\ Len(s) = Cardinality(S)
         /\ \A i, j \in DOMAIN s : i < j => s[i] < s[j]
         /\ Range(s) = S
<1>1. \A x \in S : x \in 1..MaxKey /\ Earlier[x] = 1..(x - 1)
  BY DEF Earlier, Keys
<1>2. MaxKey \in Nat /\ IsFiniteSet(S)
  BY Counts
<1>3. \A x, y \in S : x \in Earlier[y] <=> x < y
  BY <1>1, <1>2
<1>4. Orders(Earlier, S)
  <2>1. \A x, y, z \in S : (x # y => x < y \/ y < x) /\ ~(x < x) /\ (x < y /\ y < z => x < z)
    BY <1>1, <1>2
  <2> QED
    BY <1>3, <2>1 DEF Orders
<1>5. /\ s \in Seq(S) /\ Len(s) = Cardinality(S)
      /\ \A i, j \in 1..Len(s) : i < j => s[i] \in Earlier[s[j]]
      /\ \A x \in S : \E i \in 1..Len(s) : s[i] = x
  BY <1>2, <1>4, ArrangedInOrder DEF InOrder
<1>6. DOMAIN s = 1..Len(s) /\ \A i \in DOMAIN s : s[i] \in S
  BY <1>5
<1> QED
  BY <1>3, <1>5, <1>6 DEF Range

-----------------------------------------------------------------------------
(* The invariant.                                                          *)

Sent == {k \in Keys : sender[k] # "none"}
Mine == {k \in Keys : sender[k] = "me"}
Friends == {k \in Keys : sender[k] = "friend"}

\* What a window over X lacks of the friend's messages, among those it has, it
\* has passed.
Closed(X, F) == \A j \in X \cap F, k \in F : k < j => k \in X \/ Passed(k, X)

Typed ==
  /\ chats \in SUBSET Keys /\ pending \in SUBSET Keys /\ server \in SUBSET Keys
  /\ sender \in [Keys -> People \cup {"none"}]
  /\ {observed, open, up, watched} \subseteq BOOLEAN
  /\ toServer \in Seq(Requests) /\ toClient \in Seq(Events)
  /\ losses \in 0..MaxLosses /\ visits \in 0..MaxVisits

\* Where messages are, by who sends them.
WhoSends ==
  /\ chats \subseteq Sent /\ Friends \subseteq chats /\ pending \subseteq Mine
  /\ \A i \in DOMAIN toServer : toServer[i].type = "put" => toServer[i].key \in Mine

\* On a connection that is up, the database hears that the device listens
\* before it hears of any write.
Listens ==
  /\ watched => up /\ observed
  /\ open \/ pending # {} => observed
  /\ up /\ ~observed => toServer = <<>>
  /\ up /\ observed =>
       /\ watched \/ toServer # <<>>
       /\ \A i \in DOMAIN toServer : (toServer[i].type = "listen") <=> (i = 1 /\ ~watched)

\* What the device knows after an event.
After(known, event) ==
  IF event.type = "window" THEN event.keys
  ELSE IF event.type = "data" THEN LastOf(known \cup event.keys) ELSE known

\* What it will know after each event that is under way: f[i] after the i-th.
\* Each is later than the one before, and knows of the write it acknowledges.
Tells(f, q, stored, F) ==
  /\ f \in [0..Len(q) -> SUBSET stored]
  /\ \A i \in 1..Len(q) :
       /\ f[i] = After(f[i - 1], q[i]) /\ Precedes(f[i - 1], f[i])
       /\ q[i].type = "ack" => Precedes(q[i].keys, f[i])
  /\ \A i \in 0..Len(q) : Closed(f[i], F) /\ Cardinality(f[i]) <= Window

Told ==
  \E f : /\ Tells(f, toClient, chats, Friends) /\ f[0] = server
         /\ watched => f[Len(toClient)] = LastOf(chats)

\* What is shown has been in the view, and so has what the friend sent before,
\* or the view has passed it.
Page ==
  /\ messages \in Seq(Keys) /\ ShownOnce /\ FriendInOrder /\ WindowIsShown
  /\ Range(messages) \subseteq Conversation
  /\ Precedes(Range(messages), View)
  /\ \A j \in Range(messages) \cap Friends, k \in Friends :
       k < j => k \in Range(messages) \/ Passed(k, View)

ChatInv == Typed /\ WhoSends /\ Listens /\ Told /\ Page

-----------------------------------------------------------------------------
(* The view.                                                               *)

LEMMA ViewOfKeys ==
  ASSUME Typed
  PROVE  View \in SUBSET Keys /\ View \subseteq server \cup pending /\ View = LastOf(server \cup pending)
  BY DEF Typed, View, ViewOf, LastOf

\* What is stored in the database leaves no gap among the friend's messages.
LEMMA StoredIsClosed ==
  ASSUME NEW X \in SUBSET Keys, NEW F, F \subseteq X
  PROVE  Closed(LastOf(X), F)
  BY WindowFollows DEF Precedes, Closed

\* Nor do the device's own messages make one.
LEMMA OwnAreClosed ==
  ASSUME NEW A \in SUBSET Keys, NEW P \in SUBSET Keys, NEW F \in SUBSET Keys,
         F \cap P = {}, Closed(A, F)
  PROVE  Closed(LastOf(A \cup P), F)
<1> DEFINE V == LastOf(A \cup P)
<1> SUFFICES ASSUME NEW j \in V \cap F, NEW k \in F, k < j, k \notin V PROVE Passed(k, V)
  BY DEF Closed
<1>1. A \cup P \in SUBSET Keys /\ V \in SUBSET Keys /\ V \subseteq A \cup P /\ Precedes(A \cup P, V)
  BY WindowFollows
<1>2. j \in A
  BY <1>1
<1> HIDE DEF V
<1>3. Precedes(A, V)
  BY <1>1 DEF Precedes
<1>4. k \in A \/ Passed(k, A)
  BY <1>2 DEF Closed
<1> QED
  BY <1>1, <1>3, <1>4, PassedOn DEF Precedes

-----------------------------------------------------------------------------
(* The page.                                                               *)

\* The places of s \o t.
LEMMA Joins ==
  ASSUME NEW s \in Seq(Keys), NEW t \in Seq(Keys), NEW r, r = s \o t
  PROVE  /\ r \in Seq(Keys) /\ Range(r) = Range(s) \cup Range(t)
         /\ \A i \in DOMAIN r :
              \/ i \in DOMAIN s /\ r[i] = s[i]
              \/ \E j \in DOMAIN t : i = Len(s) + j /\ r[i] = t[j]
         /\ DOMAIN s = 1..Len(s) /\ DOMAIN t = 1..Len(t) /\ Len(s) \in Nat /\ Len(t) \in Nat
<1>1. /\ r \in Seq(Keys) /\ Len(r) = Len(s) + Len(t)
      /\ \A i \in 1..Len(s) : r[i] = s[i]
      /\ \A i \in 1..Len(t) : r[Len(s) + i] = t[i]
  BY Concatenation
<1>2. /\ DOMAIN s = 1..Len(s) /\ DOMAIN t = 1..Len(t) /\ DOMAIN r = 1..Len(r)
      /\ Len(s) \in Nat /\ Len(t) \in Nat
  BY <1>1
<1>3. ASSUME NEW i \in DOMAIN r
      PROVE  i \in DOMAIN s \/ \E j \in DOMAIN t : i = Len(s) + j
  <2>1. CASE i <= Len(s)
    BY <1>1, <1>2, <2>1
  <2>2. CASE i > Len(s)
    <3>1. PICK j : j = i - Len(s)
      OBVIOUS
    <3>2. j \in DOMAIN t /\ i = Len(s) + j
      BY <1>1, <1>2, <2>2, <3>1
    <3> QED
      BY <3>2
  <2> QED
    BY <1>1, <1>2, <2>1, <2>2
<1>4. \A i \in DOMAIN s : i \in DOMAIN r
  BY <1>1, <1>2
<1>5. \A j \in DOMAIN t : Len(s) + j \in DOMAIN r
  BY <1>1, <1>2
<1>6. \A i \in DOMAIN r :
        \/ i \in DOMAIN s /\ r[i] = s[i]
        \/ \E j \in DOMAIN t : i = Len(s) + j /\ r[i] = t[j]
  BY <1>1, <1>2, <1>3
<1>7. Range(r) = Range(s) \cup Range(t)
  <2>1. \A i \in DOMAIN s : r[i] = s[i] /\ i \in DOMAIN r
    BY <1>1, <1>2, <1>4
  <2>2. \A j \in DOMAIN t : r[Len(s) + j] = t[j] /\ Len(s) + j \in DOMAIN r
    BY <1>1, <1>2, <1>5
  <2>3. ASSUME NEW i \in DOMAIN r PROVE r[i] \in Range(s) \cup Range(t)
    BY <1>6 DEF Range
  <2>4. Range(r) \subseteq Range(s) \cup Range(t)
    BY <2>3 DEF Range
  <2>5. Range(s) \subseteq Range(r)
    BY <2>1 DEF Range
  <2>6. Range(t) \subseteq Range(r)
    BY <2>2 DEF Range
  <2> QED
    BY <2>4, <2>5, <2>6
<1> QED
  BY <1>1, <1>2, <1>6, <1>7

\* Senders are added, the friend's at the end.
SendersGrow ==
  /\ \A k \in Keys : sender[k] # "none" => sender'[k] = sender[k]
  /\ \A k \in Keys : sender[k] = "none" /\ sender'[k] = "friend" =>
       \A j \in Keys : sender[j] = "friend" => j < k

LEMMA PageMoves ==
  ASSUME Page, SendersGrow, View \in SUBSET Sent, View' \in SUBSET Keys,
         NEW X \in SUBSET Keys, View' = LastOf(X),
         Precedes(View, View'), Closed(View', Friends'), open' = open,
         NEW new \in Seq(Keys), messages' = messages \o new,
         Range(new) \subseteq (View' \ View) \cap Conversation',
         IF open THEN (View' \ View) \cap Conversation' \subseteq Range(new) ELSE Range(new) = {},
         \A i, j \in DOMAIN new : i < j => new[i] < new[j]
  PROVE  Page'
<1> DEFINE R == Range(messages)
           N == Range(new)
<1>1. /\ messages \in Seq(Keys) /\ R \in SUBSET Keys /\ N \in SUBSET Keys
      /\ R \subseteq Conversation /\ Precedes(R, View)
  BY DEF Page, Conversation, Range
<1>2. /\ messages' \in Seq(Keys) /\ Range(messages') = R \cup N
      /\ \A i \in DOMAIN messages' :
           \/ i \in DOMAIN messages /\ messages'[i] = messages[i]
           \/ \E j \in DOMAIN new : i = Len(messages) + j /\ messages'[i] = new[j]
      /\ DOMAIN messages = 1..Len(messages) /\ DOMAIN new = 1..Len(new)
      /\ Len(messages) \in Nat /\ Len(new) \in Nat
  <2> DEFINE r == messages'
             m == messages
  <2>1. r = m \o new /\ m \in Seq(Keys)
    BY <1>1
  <2> HIDE DEF r, m
  <2>2. r \in Seq(Keys) /\ Range(r) = Range(m) \cup Range(new)
    BY <2>1, Joins
  <2>3. \A i \in DOMAIN r :
          \/ i \in DOMAIN m /\ r[i] = m[i]
          \/ \E j \in DOMAIN new : i = Len(m) + j /\ r[i] = new[j]
    BY <2>1, Joins
  <2>4. /\ DOMAIN m = 1..Len(m) /\ DOMAIN new = 1..Len(new)
        /\ Len(m) \in Nat /\ Len(new) \in Nat
    BY <2>1
  <2> QED
    BY <2>2, <2>3, <2>4 DEF r, m
<1>3. \A i \in DOMAIN messages : messages[i] \in R
  BY DEF Range
<1>4. \A i \in DOMAIN new : new[i] \in N
  BY DEF Range
<1>5. View \in SUBSET Keys
  BY DEF Sent
<1> HIDE DEF R, N
<1>6. Precedes(R, View')
  BY <1>1, <1>5, PrecedesIsTransitive
<1>7. ASSUME NEW k \in Keys, Passed(k, View) PROVE Passed(k, View') /\ k \notin View'
  BY <1>5, <1>7, PassedOn, NotInWindow
<1>8. R \cap N = {}
  <2> SUFFICES ASSUME NEW k \in R, k \in N PROVE FALSE
    OBVIOUS
  <2>1. k \in View' /\ k \notin View /\ k \in Keys
    BY <1>1 DEF N
  <2>2. Passed(k, View)
    BY <1>1, <2>1 DEF Precedes
  <2> QED
    BY <1>7, <2>1, <2>2
<1>9. /\ \A k \in R : sender'[k] = sender[k]
      /\ \A k \in Keys : sender'[k] = "friend" =>
           sender[k] = "friend" \/ \A j \in Keys : sender[j] = "friend" => j < k
  BY <1>1 DEF Conversation, SendersGrow
<1>10. ASSUME NEW j \in R, sender'[j] = "friend", NEW k \in Keys, sender'[k] = "friend", k < j
       PROVE  k \in R \/ Passed(k, View)
  <2>1. sender[j] = "friend" /\ j \in Keys
    BY <1>1, <1>9, <1>10
  <2>2. ~(j < k)
    BY <1>1, <1>10 DEF Keys
  <2>3. sender[k] = "friend"
    BY <1>9, <1>10, <2>1, <2>2
  <2> QED
    BY <1>10, <2>1, <2>3 DEF Page, Friends, R
<1>11. ASSUME open, NEW k \in View', sender'[k] \in {"me", "friend"} PROVE k \in R \cup N
  <2>1. k \in Conversation'
    BY <1>11 DEF Conversation
  <2>2. CASE k \in View
    <3>1. sender[k] # "none" /\ k \in Keys
      BY <2>2 DEF Sent
    <3>2. k \in Conversation
      BY <1>11, <3>1 DEF SendersGrow, Conversation
    <3> QED
      BY <1>11, <2>2, <3>2 DEF Page, WindowIsShown, R
  <2>3. CASE k \notin View
    BY <1>11, <2>1, <2>3 DEF N
  <2> QED
    BY <2>2, <2>3
<1>12. ShownOnce'
  <2> SUFFICES ASSUME NEW i \in DOMAIN messages', NEW j \in DOMAIN messages',
                      messages'[i] = messages'[j]
               PROVE  i = j
    BY DEF ShownOnce
  <2>1. \A a, b \in DOMAIN messages : messages[a] = messages[b] => a = b
    BY DEF Page, ShownOnce
  <2>2. \A a, b \in DOMAIN new : new[a] = new[b] => a = b
    <3>1. \A a, b \in DOMAIN new : a < b \/ b < a \/ a = b
      BY <1>2
    <3>2. \A a \in DOMAIN new : ~(new[a] < new[a])
      <4>1. \A k \in Keys : ~(k < k)
        BY DEF Keys
      <4> QED
        BY <4>1
    <3> QED
      BY <3>1, <3>2
  <2> QED
    BY <1>2, <1>3, <1>4, <1>8, <2>1, <2>2
<1>13. FriendInOrder'
  <2> SUFFICES ASSUME NEW i \in DOMAIN messages', NEW j \in DOMAIN messages', i < j,
                      sender'[messages'[i]] = "friend", sender'[messages'[j]] = "friend"
               PROVE  messages'[i] < messages'[j]
    BY DEF FriendInOrder
  <2>1. CASE i \in DOMAIN messages /\ messages'[i] = messages[i]
             /\ j \in DOMAIN messages /\ messages'[j] = messages[j]
    <3>1. sender[messages[i]] = "friend" /\ sender[messages[j]] = "friend"
      BY <1>3, <1>9, <2>1
    <3> QED
      BY <2>1, <3>1 DEF Page, FriendInOrder
  <2>2. ASSUME i \in DOMAIN messages, messages'[i] = messages[i],
               NEW b \in DOMAIN new, messages'[j] = new[b]
        PROVE  messages'[i] < messages'[j]
    <3>1. messages[i] \in R /\ new[b] \in N /\ new[b] \in View'
      BY <1>3, <1>4, <2>2 DEF N
    <3>2. messages[i] \in Keys /\ new[b] \in Keys /\ new[b] \notin R
      BY <1>1, <1>8, <3>1
    <3>3. ~Passed(new[b], View)
      BY <1>7, <3>1, <3>2
    <3>4. ~(new[b] < messages[i])
      BY <1>10, <2>2, <3>1, <3>2, <3>3
    <3>5. messages[i] # new[b]
      BY <3>1, <3>2
    <3>6. messages[i] \in Int /\ new[b] \in Int
      BY <3>2 DEF Keys
    <3> QED
      BY <2>2, <3>4, <3>5, <3>6
  <2>3. ASSUME NEW a \in DOMAIN new, i = Len(messages) + a, messages'[i] = new[a],
               NEW b \in DOMAIN new, j = Len(messages) + b, messages'[j] = new[b]
        PROVE  messages'[i] < messages'[j]
    <3>1. a < b
      BY <1>2, <2>3
    <3> QED
      BY <2>3, <3>1
  <2>4. ASSUME j \in DOMAIN messages, NEW a \in DOMAIN new, i = Len(messages) + a
        PROVE  FALSE
    BY <1>2, <2>4
  <2> QED
    BY <1>2, <2>1, <2>2, <2>3, <2>4
<1>14. WindowIsShown'
  BY <1>2, <1>11 DEF WindowIsShown, Conversation
<1>15. Range(messages') \subseteq Conversation'
  BY <1>1, <1>2, <1>9 DEF Conversation, N
<1>16. Precedes(Range(messages'), View')
  BY <1>2, <1>6 DEF Precedes, N
<1>17. ASSUME NEW j \in R \cup N, NEW k \in Keys, sender'[j] = "friend", sender'[k] = "friend", k < j
       PROVE  k \in R \cup N \/ Passed(k, View')
  <2>1. CASE j \in R
    BY <1>7, <1>10, <1>17, <2>1
  <2>2. CASE j \in N
    <3>1. open /\ j \in View'
      BY <2>2 DEF N
    <3>2. j \in Friends' /\ k \in Friends'
      BY <1>17, <3>1 DEF Friends
    <3>3. k \in View' \/ Passed(k, View')
      BY <1>17, <3>1, <3>2 DEF Closed
    <3> QED
      BY <1>11, <1>17, <3>1, <3>3
  <2> QED
    BY <2>1, <2>2
<1> QED
  BY <1>2, <1>12, <1>13, <1>14, <1>15, <1>16, <1>17 DEF Page, Friends

-----------------------------------------------------------------------------
(* What is under way to the device.                                        *)

LEMMA EventAdded ==
  ASSUME NEW q \in Seq(Events), NEW e \in Events, NEW r, r = Append(q, e)
  PROVE  /\ r \in Seq(Events) /\ Len(r) = Len(q) + 1 /\ Len(q) \in Nat
         /\ \A i \in 1..Len(q) : r[i] = q[i]
         /\ r[Len(q) + 1] = e
  OBVIOUS

LEMMA EventGone ==
  ASSUME NEW q \in Seq(Events), q # <<>>, NEW r, r = Tail(q)
  PROVE  /\ r \in Seq(Events) /\ Len(r) = Len(q) - 1 /\ Len(q) \in Nat \ {0}
         /\ \A i \in 1..Len(r) : r[i] = q[i + 1]
         /\ Head(q) = q[1] /\ Head(q) \in Events
  OBVIOUS

LEMMA TellsMore ==
  ASSUME NEW q \in Seq(Events), NEW stored, NEW F, NEW f, Tells(f, q, stored, F),
         NEW e \in Events, NEW g \in SUBSET stored, g = After(f[Len(q)], e),
         Precedes(f[Len(q)], g), Closed(g, F), Cardinality(g) <= Window,
         e.type = "ack" => Precedes(e.keys, g)
  PROVE  \E h : Tells(h, Append(q, e), stored, F) /\ h[0] = f[0] /\ h[Len(q) + 1] = g
<1> DEFINE n == Len(q)
           r == Append(q, e)
           h == [i \in 0..(n + 1) |-> IF i = n + 1 THEN g ELSE f[i]]
<1>1. r \in Seq(Events) /\ Len(r) = n + 1 /\ n \in Nat /\ r[n + 1] = e
      /\ \A i \in 1..n : r[i] = q[i]
  BY EventAdded
<1>2. h[n + 1] = g /\ \A i \in 0..n : h[i] = f[i]
  BY <1>1
<1>3. f \in [0..n -> SUBSET stored]
  BY DEF Tells
<1>4. h \in [0..(n + 1) -> SUBSET stored]
  <2>1. \A i \in 0..(n + 1) : i # n + 1 => i \in 0..n
    BY <1>1
  <2> QED
    BY <1>3, <2>1
<1> HIDE DEF h, r, n
<1>5. ASSUME NEW i \in 1..(n + 1)
      PROVE  /\ h[i] = After(h[i - 1], r[i]) /\ Precedes(h[i - 1], h[i])
             /\ r[i].type = "ack" => Precedes(r[i].keys, h[i])
  <2>1. CASE i = n + 1
    <3>1. h[i - 1] = f[n] /\ h[i] = g /\ r[i] = e
      BY <1>1, <1>2, <2>1
    <3> QED
      BY <3>1 DEF n
  <2>2. CASE i # n + 1
    <3>1. i \in 1..n /\ i \in 0..n /\ i - 1 \in 0..n
      BY <1>1, <2>2
    <3>2. h[i - 1] = f[i - 1] /\ h[i] = f[i] /\ r[i] = q[i]
      BY <1>1, <1>2, <3>1
    <3>3. /\ f[i] = After(f[i - 1], q[i]) /\ Precedes(f[i - 1], f[i])
          /\ q[i].type = "ack" => Precedes(q[i].keys, f[i])
      BY <3>1 DEF Tells, n
    <3> QED
      BY <3>2, <3>3
  <2> QED
    BY <2>1, <2>2
<1>6. ASSUME NEW i \in 0..(n + 1) PROVE Closed(h[i], F) /\ Cardinality(h[i]) <= Window
  <2>1. CASE i = n + 1
    BY <1>2, <2>1
  <2>2. CASE i # n + 1
    <3>1. i \in 0..n
      BY <1>1, <2>2
    <3> QED
      BY <1>2, <3>1 DEF Tells, n
  <2> QED
    BY <2>1, <2>2
<1>7. Tells(h, r, stored, F)
  BY <1>1, <1>4, <1>5, <1>6 DEF Tells
<1>8. h[0] = f[0]
  BY <1>1, <1>2
<1> QED
  BY <1>2, <1>7, <1>8 DEF n, r

LEMMA TellsFewer ==
  ASSUME NEW q \in Seq(Events), q # <<>>, NEW stored, NEW F, NEW f, Tells(f, q, stored, F)
  PROVE  \E h : Tells(h, Tail(q), stored, F) /\ h[0] = f[1] /\ h[Len(Tail(q))] = f[Len(q)]
<1> DEFINE n == Len(q)
           r == Tail(q)
           h == [i \in 0..(n - 1) |-> f[i + 1]]
<1>1. /\ r \in Seq(Events) /\ Len(r) = n - 1 /\ n \in Nat \ {0}
      /\ \A i \in 1..(n - 1) : r[i] = q[i + 1]
  BY EventGone
<1>2. \A i \in 0..(n - 1) : h[i] = f[i + 1] /\ i + 1 \in 0..n
  BY <1>1
<1>3. f \in [0..n -> SUBSET stored]
  BY DEF Tells
<1>4. h \in [0..(n - 1) -> SUBSET stored]
  BY <1>2, <1>3
<1> HIDE DEF h, r, n
<1>5. ASSUME NEW i \in 1..(n - 1)
      PROVE  /\ h[i] = After(h[i - 1], r[i]) /\ Precedes(h[i - 1], h[i])
             /\ r[i].type = "ack" => Precedes(r[i].keys, h[i])
  <2>1. PICK j : j = i + 1
    OBVIOUS
  <2>2. i \in 0..(n - 1) /\ i - 1 \in 0..(n - 1) /\ j \in 1..n /\ i - 1 + 1 = j - 1
    BY <1>1, <2>1
  <2>3. h[i] = f[j] /\ h[i - 1] = f[j - 1] /\ r[i] = q[j]
    BY <1>1, <1>2, <2>1, <2>2
  <2>4. /\ f[j] = After(f[j - 1], q[j]) /\ Precedes(f[j - 1], f[j])
        /\ q[j].type = "ack" => Precedes(q[j].keys, f[j])
    BY <2>2 DEF Tells, n
  <2> QED
    BY <2>3, <2>4
<1>6. ASSUME NEW i \in 0..(n - 1) PROVE Closed(h[i], F) /\ Cardinality(h[i]) <= Window
  <2>1. i + 1 \in 0..n /\ h[i] = f[i + 1]
    BY <1>2
  <2> QED
    BY <2>1 DEF Tells, n
<1>7. Tells(h, r, stored, F)
  BY <1>1, <1>4, <1>5, <1>6 DEF Tells
<1>8. h[0] = f[1] /\ h[n - 1] = f[n]
  <2>1. 0 \in 0..(n - 1) /\ n - 1 \in 0..(n - 1) /\ n - 1 + 1 = n /\ 0 + 1 = 1
    BY <1>1
  <2> QED
    BY <1>2, <2>1
<1> QED
  BY <1>1, <1>7, <1>8 DEF n, r

LEMMA TellsNothing ==
  ASSUME NEW stored, NEW F, NEW g \in SUBSET stored, Closed(g, F), Cardinality(g) <= Window
  PROVE  \E h : Tells(h, <<>>, stored, F) /\ h[0] = g
<1> DEFINE h == [i \in 0..0 |-> g]
<1>1. h \in [0..0 -> SUBSET stored] /\ h[0] = g /\ \A i \in 0..0 : h[i] = g
  OBVIOUS
<1>2. Len(<<>>) = 0 /\ 1..0 = {}
  OBVIOUS
<1> HIDE DEF h
<1>3. Tells(h, <<>>, stored, F)
  BY <1>1, <1>2 DEF Tells
<1> QED
  BY <1>1, <1>3

\* Messages that the database gets leave what is under way as it is, also the
\* friend's, which come last.
LEMMA TellsOfMore ==
  ASSUME NEW q \in Seq(Events), NEW C, NEW D \in SUBSET Keys, C \subseteq D,
         NEW F \in SUBSET Keys, NEW G \in SUBSET Keys, F \subseteq G, C \cap G \subseteq F,
         \A k \in G \ F : \A j \in F : j < k,
         NEW f, Tells(f, q, C, F)
  PROVE  Tells(f, q, D, G)
<1>1. f \in [0..Len(q) -> SUBSET D] /\ \A i \in 0..Len(q) : f[i] \subseteq C
  BY DEF Tells
<1>2. ASSUME NEW i \in 0..Len(q) PROVE Closed(f[i], G)
  <2> SUFFICES ASSUME NEW j \in f[i] \cap G, NEW k \in G, k < j PROVE k \in f[i] \/ Passed(k, f[i])
    BY DEF Closed
  <2>1. j \in F /\ j \in Keys /\ k \in Keys
    BY <1>1
  <2>2. ~(j < k)
    BY <2>1 DEF Keys
  <2>3. k \in F
    BY <2>1, <2>2
  <2>4. Closed(f[i], F)
    BY DEF Tells
  <2> QED
    BY <2>1, <2>3, <2>4 DEF Closed
<1> QED
  BY <1>1, <1>2 DEF Tells

\* A message comes in while the device watches, and is told.
LEMMA MessageEnters ==
  ASSUME NEW q \in Seq(Events), NEW C \in SUBSET Keys,
         NEW e \in Events, e.type = "data", NEW D, D = C \cup e.keys,
         NEW F \in SUBSET D, NEW f, Tells(f, q, D, F), f[Len(q)] = LastOf(C)
  PROVE  \E h : Tells(h, Append(q, e), D, F) /\ h[0] = f[0] /\ h[Len(q) + 1] = LastOf(D)
<1> DEFINE g == LastOf(D)
<1>1. e.keys \in SUBSET Keys /\ D \in SUBSET Keys
  BY DEF Events
<1>2. g \in SUBSET D /\ Closed(g, F) /\ Cardinality(g) <= Window
  BY <1>1, WindowFollows, StoredIsClosed, WindowIsSmall
<1>3. g = After(f[Len(q)], e)
  BY <1>1, WindowOfWindow DEF After
<1>4. Precedes(f[Len(q)], g)
  <2>1. Precedes(C, D)
    BY PrecedesMore
  <2> QED
    BY <1>1, <2>1, WindowsPrecede
<1>5. e.type # "ack"
  OBVIOUS
<1> HIDE DEF g
<1>6. \E h : Tells(h, Append(q, e), D, F) /\ h[0] = f[0] /\ h[Len(q) + 1] = g
  BY <1>2, <1>3, <1>4, <1>5, TellsMore
<1> QED
  BY <1>6 DEF g

\* An acknowledgement comes after what it acknowledges.
LEMMA WriteAnswered ==
  ASSUME NEW q \in Seq(Events), NEW D, NEW F, NEW f, Tells(f, q, D, F),
         NEW e \in Events, e.type = "ack", Precedes(e.keys, f[Len(q)])
  PROVE  \E h : /\ Tells(h, Append(q, e), D, F)
                /\ h[0] = f[0] /\ h[Len(q) + 1] = f[Len(q)]
<1> DEFINE g == f[Len(q)]
<1>1. Len(q) \in 0..Len(q)
  OBVIOUS
<1>2. g \in SUBSET D /\ Closed(g, F) /\ Cardinality(g) <= Window
  BY <1>1 DEF Tells
<1>3. g = After(f[Len(q)], e) /\ Precedes(f[Len(q)], g)
  BY DEF After, Precedes
<1>4. Precedes(e.keys, g)
  OBVIOUS
<1> HIDE DEF g
<1>5. \E h : Tells(h, Append(q, e), D, F) /\ h[0] = f[0] /\ h[Len(q) + 1] = g
  BY <1>2, <1>3, <1>4, TellsMore
<1> QED
  BY <1>5 DEF g

-----------------------------------------------------------------------------
(* Requests.                                                               *)

LEMMA RequestAdded ==
  ASSUME NEW q \in Seq(Requests), NEW e \in Requests, NEW r, r = Append(q, e)
  PROVE  /\ r \in Seq(Requests) /\ DOMAIN q = 1..Len(q) /\ Len(q) \in Nat
         /\ DOMAIN r = 1..(Len(q) + 1) /\ r # <<>>
         /\ \A i \in 1..Len(q) : r[i] = q[i]
         /\ r[Len(q) + 1] = e
  OBVIOUS

LEMMA RequestGone ==
  ASSUME NEW q \in Seq(Requests), q # <<>>, NEW r, r = Tail(q)
  PROVE  /\ r \in Seq(Requests) /\ DOMAIN q = 1..Len(q) /\ Len(q) \in Nat \ {0}
         /\ DOMAIN r = 1..(Len(q) - 1)
         /\ \A i \in 1..(Len(q) - 1) : r[i] = q[i + 1]
         /\ Head(q) = q[1] /\ Head(q) \in Requests
  OBVIOUS

LEMMA RequestIsRequest ==
  /\ Request("listen", 0) \in Requests
  /\ \A k \in Keys : Request("put", k) \in Requests
  /\ Request("listen", 0).type = "listen"
  /\ \A k : Request("put", k).type = "put" /\ Request("put", k).key = k
<1>1. 0 \in 0..MaxKey /\ Keys \subseteq 0..MaxKey
  BY Bounds DEF Keys
<1> QED
  BY <1>1 DEF Request, Requests

LEMMA OneFirst ==
  ASSUME NEW e \in Requests, NEW p \in Seq(Requests), NEW r, r = <<e>> \o p
  PROVE  /\ r \in Seq(Requests) /\ Len(r) = 1 + Len(p) /\ r[1] = e
         /\ \A i \in 1..Len(p) : r[1 + i] = p[i]
<1>1. <<e>> \in Seq(Requests) /\ Len(<<e>>) = 1 /\ <<e>>[1] = e
  OBVIOUS
<1> QED
  BY <1>1, Concatenation

\* The listen comes first, and then the writes.
LEMMA WhatIsRestored ==
  ASSUME pending \in SUBSET Keys, NEW r, r = Restored
  PROVE  /\ r \in Seq(Requests)
         /\ \A i \in DOMAIN r : (r[i].type = "listen") <=> (i = 1 /\ observed)
         /\ \A i \in DOMAIN r : r[i].type = "put" => r[i].key \in pending
         /\ observed => r # <<>>
         /\ ~observed /\ pending = {} => r = <<>>
<1> DEFINE o == InOrder(pending)
           n == Cardinality(pending)
           p == PutsAgain
<1>1. n \in Nat /\ o \in Seq(pending) /\ Len(o) = n
  BY Counts, OrderOfKeys
<1>2. \A i \in 1..n : o[i] \in pending
  BY <1>1
<1>3. p = [i \in 1..n |-> Request("put", o[i])]
  BY DEF PutsAgain
<1> HIDE DEF o, n, p
<1>4. \A i \in 1..n : p[i] = Request("put", o[i]) /\ p[i] \in Requests
  BY <1>2, <1>3, RequestIsRequest
<1>5. p = [i \in 1..n |-> p[i]]
  <2> DEFINE at(i) == Request("put", o[i])
  <2>1. p = [i \in 1..n |-> at(i)]
    BY <1>3
  <2> HIDE DEF at
  <2> QED
    BY <2>1
<1>6. p \in Seq(Requests) /\ Len(p) = n
  BY <1>1, <1>4, <1>5
<1>7. \A i \in 1..n : p[i].type = "put" /\ p[i].key \in pending
  BY <1>2, <1>4, RequestIsRequest
<1>8. pending = {} => n = 0
  BY FS_EmptySet DEF n
<1>9. CASE observed
  <2> DEFINE e == Request("listen", 0)
  <2>1. e \in Requests /\ e.type = "listen"
    BY RequestIsRequest
  <2>2. r = <<e>> \o p
    BY <1>9 DEF Restored, ListensAgain, p
  <2> HIDE DEF e
  <2>3. /\ r \in Seq(Requests) /\ Len(r) = 1 + Len(p) /\ r[1] = e
        /\ \A i \in 1..Len(p) : r[1 + i] = p[i]
    BY <1>6, <2>1, <2>2, OneFirst
  <2>4. /\ r \in Seq(Requests) /\ Len(r) = 1 + n /\ r[1].type = "listen"
        /\ \A i \in 1..n : r[1 + i] = p[i]
    BY <1>6, <2>1, <2>3
  <2>5. ASSUME NEW i \in DOMAIN r, i # 1 PROVE r[i].type = "put" /\ r[i].key \in pending
    <3>1. PICK j : j = i - 1
      OBVIOUS
    <3>2. DOMAIN r = 1..(1 + n)
      BY <2>4
    <3>3. j \in 1..n /\ i = 1 + j
      BY <1>1, <2>5, <3>1, <3>2
    <3> QED
      BY <1>7, <2>4, <3>3
  <2>6. r # <<>>
    <3>1. Len(r) # 0
      BY <1>1, <2>4
    <3> QED
      BY <3>1
  <2> QED
    BY <1>9, <2>4, <2>5, <2>6
<1>10. CASE ~observed
  <2>1. r = p
    BY <1>6, <1>10 DEF Restored, ListensAgain, p
  <2>2. DOMAIN r = 1..n
    BY <1>6, <2>1
  <2>3. pending = {} => r = <<>>
    BY <1>6, <1>8, <2>1
  <2> QED
    BY <1>6, <1>7, <1>10, <2>1, <2>2, <2>3
<1> QED
  BY <1>9, <1>10

-----------------------------------------------------------------------------
(* A step, conjunct by conjunct.                                           *)

LEMMA PutOfMine ==
  ASSUME Typed, WhoSends, toServer # <<>>, Head(toServer).type = "put"
  PROVE  Head(toServer).key \in Mine
<1>1. 1 \in DOMAIN toServer /\ toServer[1] = Head(toServer)
  BY DEF Typed
<1> QED
  BY <1>1 DEF WhoSends

LEMMA TypedStep == Typed /\ WhoSends /\ [Next]_vars => Typed'
<1> SUFFICES ASSUME Typed, WhoSends, [Next]_vars PROVE Typed'
  OBVIOUS
<1> USE DEF Typed
<1>1. \A k \in Keys : Event("data", {k}) \in Events /\ Event("ack", {k}) \in Events
  BY DEF Event, Events
<1>2. ASSUME NEW k \in Keys, Enters(k) PROVE chats' \in SUBSET Keys /\ toClient' \in Seq(Events)
  BY <1>1, <1>2 DEF Enters
<1>3. ASSUME ServeListen PROVE Typed'
  <2>1. Event("window", LastOf(chats)) \in Events
    BY WindowFollows DEF Event, Events
  <2>2. toServer' \in Seq(Requests)
    BY <1>3, RequestGone DEF ServeListen
  <2>3. toClient' \in Seq(Events)
    BY <1>3, <2>1 DEF ServeListen
  <2> QED
    BY <1>3, <2>2, <2>3 DEF ServeListen, device, screen
<1>4. ASSUME ServePut PROVE Typed'
  <2> DEFINE k == Head(toServer).key
             told == IF watched /\ k \in LastOf(chats \cup {k}) /\ k \notin chats
                       THEN <<Event("data", {k})>> ELSE <<>>
  <2>1. toServer # <<>> /\ chats' = chats \cup {k} /\ UNCHANGED <<sender, device, screen, up, watched, losses>>
        /\ toClient' = IF up THEN toClient \o told \o <<Event("ack", {k})>> ELSE toClient
    BY <1>4 DEF ServePut
  <2>2. toServer' \in Seq(Requests)
    BY <1>4, RequestGone DEF ServePut
  <2>3. k \in Keys
    BY <1>4, PutOfMine DEF ServePut, Mine
  <2>4. told \in Seq(Events) /\ <<Event("ack", {k})>> \in Seq(Events)
    <3>1. Event("data", {k}) \in Events /\ Event("ack", {k}) \in Events
      BY <1>1, <2>3
    <3> HIDE DEF k
    <3> QED
      BY <3>1
  <2> HIDE DEF told, k
  <2>5. toClient' \in Seq(Events)
    BY <2>1, <2>4
  <2> QED
    BY <2>1, <2>2, <2>3, <2>5 DEF device, screen
<1>5. ASSUME Receive PROVE Typed'
  <2>1. Head(toClient) \in Events /\ toClient' \in Seq(Events)
    BY <1>5, EventGone DEF Receive
  <2>2. Head(toClient).keys \in SUBSET Keys
    BY <2>1 DEF Events
  <2>3. LastOf(server \cup Head(toClient).keys) \in SUBSET Keys
    BY <2>2 DEF LastOf
  <2>4. /\ server' \in SUBSET Keys /\ pending' \in SUBSET Keys
        /\ UNCHANGED <<chats, sender, open, observed, visits, up, watched, toServer, losses>>
    BY <1>5, <2>2, <2>3 DEF Receive, Sees, KnowsWith
  <2> QED
    BY <2>1, <2>4
<1>6. ASSUME Connect PROVE Typed'
  BY <1>6, WhatIsRestored DEF Connect, device, screen
<1>7. ASSUME Open PROVE Typed'
  <2>1. toServer' \in Seq(Requests)
    BY <1>7, RequestAdded, RequestIsRequest DEF Open
  <2>2. visits' \in 0..MaxVisits
    BY <1>7, Bounds DEF Open
  <2> QED
    BY <1>7, <2>1, <2>2 DEF Open, device
<1>8. ASSUME Close PROVE Typed'
  BY <1>8 DEF Close, device, link
<1>9. ASSUME Lose PROVE Typed'
  <2>1. losses' \in 0..MaxLosses
    BY <1>9, Bounds DEF Lose
  <2>2. up' \in BOOLEAN /\ watched' \in BOOLEAN
    BY <1>9 DEF Lose
  <2>3. toClient' \in Seq(Events) /\ UNCHANGED <<chats, sender, device, screen, toServer>>
    BY <1>9 DEF Lose
  <2> QED
    BY <2>1, <2>2, <2>3 DEF device, screen
<1>10. ASSUME NEW k \in Keys, Send(k) PROVE Typed'
  <2>1. toServer' \in Seq(Requests)
    BY <1>10, RequestAdded, RequestIsRequest DEF Send
  <2>2. sender' \in [Keys -> People \cup {"none"}]
    BY <1>10 DEF Send, People
  <2> QED
    BY <1>10, <2>1, <2>2 DEF Send
<1>11. ASSUME NEW k \in Keys, NEW p \in Others, Arrives(p, k) PROVE Typed'
  <2>1. sender' \in [Keys -> People \cup {"none"}]
    BY <1>11 DEF Arrives, People
  <2> QED
    BY <1>2, <1>11, <2>1 DEF Arrives, device, screen
<1>12. UNCHANGED vars => Typed'
  BY DEF vars, device, screen, link
<1> QED
  BY <1>3, <1>4, <1>5, <1>6, <1>7, <1>8, <1>9, <1>10, <1>11, <1>12 DEF Next, Progress

\* What a step adds to the senders.
LEMMA SendersStep ==
  ASSUME Typed, WhoSends, [Next]_vars
  PROVE  SendersGrow /\ Sent \subseteq Sent' /\ Mine \subseteq Mine'
<1>1. ASSUME NEW k \in Keys, NEW p \in People, NewKey(p, k), sender' = [sender EXCEPT ![k] = p]
      PROVE  SendersGrow
  <2>1. sender[k] = "none" /\ \A j \in Keys : sender[j] = p => j < k
    BY <1>1 DEF NewKey
  <2>2. sender'[k] = p /\ \A j \in Keys : j # k => sender'[j] = sender[j]
    BY <1>1 DEF Typed
  <2> QED
    BY <2>1, <2>2 DEF SendersGrow
<1>2. sender' = sender => SendersGrow
  BY DEF SendersGrow
<1>3. \A k \in Keys : Send(k) => SendersGrow
  BY <1>1 DEF Send, People
<1>4. \A k \in Keys : \A p \in Others : Arrives(p, k) => SendersGrow
  BY <1>1 DEF Arrives, People
<1>5. SendersGrow
  BY <1>2, <1>3, <1>4 DEF Next, Progress, ServeListen, ServePut, Receive, Connect, Open,
                          Close, Lose, vars
<1>6. Sent \subseteq Sent' /\ Mine \subseteq Mine'
  BY <1>5 DEF SendersGrow, Sent, Mine
<1> QED
  BY <1>5, <1>6

LEMMA WhoSendsStep == Typed /\ WhoSends /\ [Next]_vars => WhoSends'
<1> SUFFICES ASSUME Typed, WhoSends, [Next]_vars PROVE WhoSends'
  OBVIOUS
<1>1. Sent \subseteq Sent' /\ Mine \subseteq Mine' /\ Mine \subseteq Sent
  BY SendersStep DEF Mine, Sent
<1>2. ASSUME UNCHANGED sender PROVE Friends' = Friends
  BY <1>2 DEF Friends
<1>3. ASSUME UNCHANGED toServer
      PROVE  \A i \in DOMAIN toServer' : toServer'[i].type = "put" => toServer'[i].key \in Mine'
  BY <1>1, <1>3 DEF WhoSends
<1>4. ASSUME toServer # <<>>, toServer' = Tail(toServer)
      PROVE  /\ \A i \in DOMAIN toServer' : toServer'[i].type = "put" => toServer'[i].key \in Mine'
             /\ Head(toServer).type = "put" => Head(toServer).key \in Mine
  <2>1. toServer \in Seq(Requests)
    BY DEF Typed
  <2>2. /\ DOMAIN toServer = 1..Len(toServer) /\ Len(toServer) \in Nat \ {0}
        /\ DOMAIN toServer' = 1..(Len(toServer) - 1)
        /\ \A i \in 1..(Len(toServer) - 1) : toServer'[i] = toServer[i + 1]
        /\ Head(toServer) = toServer[1]
    <3> DEFINE r == toServer'
    <3>1. r = Tail(toServer)
      BY <1>4
    <3> HIDE DEF r
    <3>2. /\ DOMAIN toServer = 1..Len(toServer) /\ Len(toServer) \in Nat \ {0}
          /\ DOMAIN r = 1..(Len(toServer) - 1)
          /\ \A i \in 1..(Len(toServer) - 1) : r[i] = toServer[i + 1]
          /\ Head(toServer) = toServer[1]
      BY <1>4, <2>1, <3>1, RequestGone
    <3> QED
      BY <3>2 DEF r
  <2>3. 1 \in DOMAIN toServer /\ \A i \in DOMAIN toServer' : i + 1 \in DOMAIN toServer
    BY <2>2
  <2> QED
    BY <1>1, <2>2, <2>3 DEF WhoSends
<1>5. ASSUME NEW e \in Requests, toServer' = Append(toServer, e), e.type = "put" => e.key \in Mine'
      PROVE  \A i \in DOMAIN toServer' : toServer'[i].type = "put" => toServer'[i].key \in Mine'
  <2>1. toServer \in Seq(Requests)
    BY DEF Typed
  <2>2. /\ DOMAIN toServer = 1..Len(toServer) /\ Len(toServer) \in Nat
        /\ DOMAIN toServer' = 1..(Len(toServer) + 1)
        /\ \A i \in 1..Len(toServer) : toServer'[i] = toServer[i]
        /\ toServer'[Len(toServer) + 1] = e
    <3> DEFINE r == toServer'
    <3>1. r = Append(toServer, e)
      BY <1>5
    <3> HIDE DEF r
    <3>2. /\ DOMAIN toServer = 1..Len(toServer) /\ Len(toServer) \in Nat
          /\ DOMAIN r = 1..(Len(toServer) + 1)
          /\ \A i \in 1..Len(toServer) : r[i] = toServer[i]
          /\ r[Len(toServer) + 1] = e
      BY <2>1, <3>1, RequestAdded
    <3> QED
      BY <3>2 DEF r
  <2>3. \A i \in DOMAIN toServer' : i \in DOMAIN toServer \/ i = Len(toServer) + 1
    BY <2>2
  <2> QED
    BY <1>1, <1>5, <2>2, <2>3 DEF WhoSends
<1>6. CASE ServeListen
  BY <1>1, <1>2, <1>4, <1>6 DEF ServeListen, WhoSends, device
<1>7. CASE ServePut
  <2>1. chats' = chats \cup {Head(toServer).key} /\ Head(toServer).key \in Mine
    BY <1>4, <1>7 DEF ServePut
  <2> QED
    BY <1>1, <1>2, <1>4, <1>7, <2>1 DEF ServePut, WhoSends, device
<1>8. CASE Receive
  <2>1. pending' \subseteq pending /\ UNCHANGED <<chats, sender, toServer>>
    BY <1>8 DEF Receive, Sees
  <2> QED
    BY <1>1, <1>2, <1>3, <2>1 DEF WhoSends
<1>9. CASE Connect
  <2>1. toServer' = Restored /\ UNCHANGED <<chats, sender, pending>>
    BY <1>9 DEF Connect, device
  <2>2. \A i \in DOMAIN toServer' : toServer'[i].type = "put" => toServer'[i].key \in pending
    <3> DEFINE r == toServer'
    <3>1. r = Restored
      BY <2>1
    <3> HIDE DEF r
    <3>2. \A i \in DOMAIN r : r[i].type = "put" => r[i].key \in pending
      BY <3>1, WhatIsRestored DEF Typed
    <3> QED
      BY <3>2 DEF r
  <2> QED
    BY <1>1, <1>2, <2>1, <2>2 DEF WhoSends
<1>10. CASE Open
  <2>1. UNCHANGED <<chats, sender, pending>>
    BY <1>10 DEF Open, device
  <2>2. UNCHANGED toServer \/ toServer' = Append(toServer, Request("listen", 0))
    BY <1>10 DEF Open
  <2>3. Request("listen", 0).type # "put"
    BY RequestIsRequest
  <2> QED
    BY <1>1, <1>2, <1>3, <1>5, <2>1, <2>2, <2>3, RequestIsRequest DEF WhoSends
<1>11. CASE Close \/ Lose \/ UNCHANGED vars
  BY <1>1, <1>2, <1>3, <1>11 DEF Close, Lose, vars, device, link, WhoSends
<1>12. ASSUME NEW k \in Keys, Send(k) PROVE WhoSends'
  <2>1. k \in Mine' /\ Friends' = Friends
    <3>1. sender'[k] = "me" /\ sender[k] = "none" /\ \A j \in Keys : j # k => sender'[j] = sender[j]
      BY <1>12 DEF Send, NewKey, Typed
    <3> QED
      BY <3>1 DEF Mine, Friends
  <2>2. pending' = pending \cup {k} /\ UNCHANGED chats
    BY <1>12 DEF Send
  <2>3. UNCHANGED toServer \/ toServer' = Append(toServer, Request("put", k))
    BY <1>12 DEF Send
  <2>4. Request("put", k) \in Requests /\ Request("put", k).key \in Mine'
    BY <2>1, RequestIsRequest
  <2> QED
    BY <1>1, <1>3, <1>5, <2>1, <2>2, <2>3, <2>4 DEF WhoSends
<1>13. ASSUME NEW k \in Keys, NEW p \in Others, Arrives(p, k) PROVE WhoSends'
  <2>1. chats' = chats \cup {k} /\ UNCHANGED <<pending, toServer>>
    BY <1>13 DEF Arrives, Enters, device
  <2>2. sender'[k] = p /\ \A j \in Keys : j # k => sender'[j] = sender[j]
    BY <1>13 DEF Arrives, Typed
  <2>3. Friends' \subseteq Friends \cup {k}
    BY <2>2 DEF Friends
  <2>4. k \in Sent'
    BY <1>1, <1>13, <2>2 DEF Sent, Typed, Arrives, NewKey
  <2> QED
    BY <1>1, <1>3, <2>1, <2>3, <2>4 DEF WhoSends
<1> QED
  BY <1>6, <1>7, <1>8, <1>9, <1>10, <1>11, <1>12, <1>13 DEF Next, Progress

LEMMA ListensStep == Typed /\ Listens /\ [Next]_vars => Listens'
<1> SUFFICES ASSUME Typed, Listens, [Next]_vars PROVE Listens'
  OBVIOUS
<1> USE DEF Listens
<1>1. toServer \in Seq(Requests)
  BY DEF Typed
<1>2. ASSUME toServer # <<>>, toServer' = Tail(toServer)
      PROVE  /\ 1 \in DOMAIN toServer /\ toServer[1] = Head(toServer)
             /\ \A i \in DOMAIN toServer' :
                  \E j \in DOMAIN toServer : j # 1 /\ toServer'[i] = toServer[j]
  <2> DEFINE r == toServer'
             n == Len(toServer)
  <2>1. r = Tail(toServer)
    BY <1>2
  <2> HIDE DEF r
  <2>2. /\ DOMAIN toServer = 1..n /\ n \in Nat \ {0} /\ DOMAIN r = 1..(n - 1)
        /\ \A i \in 1..(n - 1) : r[i] = toServer[i + 1]
        /\ Head(toServer) = toServer[1]
    BY <1>1, <1>2, <2>1, RequestGone
  <2> HIDE DEF n
  <2>3. \A i \in 1..(n - 1) : i + 1 \in 1..n /\ i + 1 # 1
    BY <2>2
  <2>4. \A i \in DOMAIN r : \E j \in DOMAIN toServer : j # 1 /\ r[i] = toServer[j]
    BY <2>2, <2>3
  <2>5. 1 \in DOMAIN toServer
    BY <2>2
  <2> QED
    BY <2>2, <2>4, <2>5 DEF r
<1>3. CASE ServeListen
  <2>1. /\ toServer # <<>> /\ toServer' = Tail(toServer) /\ Head(toServer).type = "listen"
        /\ watched' = up /\ UNCHANGED <<pending, open, observed, up>>
    BY <1>3 DEF ServeListen, device, screen
  <2>2. up => observed /\ ~watched
    BY <1>2, <2>1
  <2>3. up => \A i \in DOMAIN toServer' : toServer'[i].type # "listen"
    BY <1>2, <2>1, <2>2
  <2> QED
    BY <2>1, <2>2, <2>3
<1>4. CASE ServePut
  <2>1. /\ toServer # <<>> /\ toServer' = Tail(toServer) /\ Head(toServer).type = "put"
        /\ UNCHANGED <<watched, pending, open, observed, up>>
    BY <1>4 DEF ServePut, device, screen
  <2>2. up => observed /\ watched
    BY <1>2, <2>1
  <2>3. up => \A i \in DOMAIN toServer' : toServer'[i].type # "listen"
    BY <1>2, <2>1, <2>2
  <2> QED
    BY <2>1, <2>2, <2>3
<1>5. CASE Receive
  <2>1. pending' \subseteq pending /\ UNCHANGED <<open, observed, up, watched, toServer>>
    BY <1>5 DEF Receive, Sees
  <2> QED
    BY <2>1
<1>6. CASE Connect
  <2>1. ~up /\ up' /\ toServer' = Restored /\ UNCHANGED <<pending, open, observed, watched>>
    BY <1>6 DEF Connect, device, screen
  <2> DEFINE r == toServer'
  <2>2. r = Restored
    BY <2>1
  <2> HIDE DEF r
  <2>3. /\ \A i \in DOMAIN r : (r[i].type = "listen") <=> (i = 1 /\ observed)
        /\ observed => r # <<>>
        /\ ~observed /\ pending = {} => r = <<>>
    BY <2>2, WhatIsRestored DEF Typed
  <2> QED
    BY <2>1, <2>3 DEF r
<1>7. CASE Open
  <2>1. open' /\ observed' /\ UNCHANGED <<pending, up, watched>>
        /\ toServer' = IF up /\ ~observed THEN Append(toServer, Request("listen", 0)) ELSE toServer
    BY <1>7 DEF Open, device
  <2>2. CASE up /\ ~observed
    <3> DEFINE r == toServer'
    <3>1. toServer = <<>> /\ r = <<Request("listen", 0)>> /\ ~watched
      BY <2>1, <2>2
    <3> HIDE DEF r
    <3>2. DOMAIN r = {1} /\ r[1].type = "listen" /\ r # <<>>
      BY <3>1, RequestIsRequest
    <3> QED
      BY <2>1, <3>1, <3>2 DEF r
  <2>3. CASE ~(up /\ ~observed)
    BY <2>1, <2>3
  <2> QED
    BY <2>2, <2>3
<1>8. CASE Close \/ Lose \/ UNCHANGED vars
  BY <1>8 DEF Close, Lose, vars, device, screen, link
<1>9. ASSUME NEW k \in Keys, Send(k) PROVE Listens'
  <2>1. open /\ UNCHANGED <<open, observed, up, watched>>
        /\ toServer' = IF up THEN Append(toServer, Request("put", k)) ELSE toServer
    BY <1>9 DEF Send
  <2>2. CASE up
    <3> DEFINE r == toServer'
               e == Request("put", k)
               n == Len(toServer)
    <3>1. r = Append(toServer, e) /\ e \in Requests /\ e.type # "listen" /\ observed
      BY <2>1, <2>2, RequestIsRequest
    <3> HIDE DEF r, e
    <3>2. /\ DOMAIN toServer = 1..n /\ n \in Nat /\ DOMAIN r = 1..(n + 1) /\ r # <<>>
          /\ \A i \in 1..n : r[i] = toServer[i]
          /\ r[n + 1] = e
      BY <1>1, <3>1, RequestAdded
    <3>3. n = 0 => watched
      <4>1. n = 0 => toServer = <<>>
        BY <1>1
      <4> QED
        BY <2>2, <3>1, <4>1
    <3> HIDE DEF n
    <3>4. \A i \in DOMAIN r : i \in DOMAIN toServer \/ (i = n + 1 /\ (i = 1 => watched))
      BY <3>2, <3>3
    <3>5. \A i \in DOMAIN r : (r[i].type = "listen") <=> (i = 1 /\ ~watched)
      BY <2>2, <3>1, <3>2, <3>4
    <3> QED
      BY <2>1, <2>2, <3>1, <3>2, <3>5 DEF r
  <2>3. CASE ~up
    BY <2>1, <2>3
  <2> QED
    BY <2>2, <2>3
<1>10. ASSUME NEW k \in Keys, NEW p \in Others, Arrives(p, k) PROVE Listens'
  BY <1>10 DEF Arrives, device, screen
<1> QED
  BY <1>3, <1>4, <1>5, <1>6, <1>7, <1>8, <1>9, <1>10 DEF Next, Progress

-----------------------------------------------------------------------------
\* What is sent to the device.
LEMMA ToldStep ==
  Typed /\ WhoSends /\ Listens /\ Told /\ [Next]_vars => Told'
<1> SUFFICES ASSUME Typed, WhoSends, Listens, Told, [Next]_vars PROVE Told'
  OBVIOUS
<1>0. Typed' /\ WhoSends'
  BY TypedStep, WhoSendsStep
<1>1. PICK f : /\ Tells(f, toClient, chats, Friends) /\ f[0] = server
               /\ watched => f[Len(toClient)] = LastOf(chats)
  BY DEF Told
<1> DEFINE q == toClient
           n == Len(toClient)
<1>2. /\ q \in Seq(Events) /\ n \in Nat /\ chats \in SUBSET Keys /\ chats' \in SUBSET Keys
      /\ Friends \in SUBSET chats /\ Friends' \in SUBSET chats'
  BY <1>0 DEF Typed, WhoSends
<1>3. ASSUME chats \subseteq chats', UNCHANGED sender PROVE Tells(f, q, chats', Friends')
  <2>1. Friends' = Friends
    BY <1>3 DEF Friends
  <2>2. /\ Friends \in SUBSET Keys /\ Friends \subseteq Friends /\ chats \cap Friends \subseteq Friends
        /\ \A k \in Friends \ Friends : \A j \in Friends : j < k
    BY <1>2
  <2>3. Tells(f, q, chats', Friends)
    BY <1>1, <1>2, <1>3, <2>2, TellsOfMore
  <2> QED
    BY <2>1, <2>3
<1>4. \* A message is stored, and told of if the device watches.
      ASSUME NEW k \in Keys, chats' = chats \cup {k}, Tells(f, q, chats', Friends'), watched
      PROVE  IF k \in LastOf(chats') /\ k \notin chats
               THEN \E h : /\ Tells(h, Append(q, Event("data", {k})), chats', Friends')
                           /\ h[0] = server /\ h[n + 1] = LastOf(chats')
               ELSE LastOf(chats') = LastOf(chats)
  <2>1. PICK D, G, C, r, e : D = chats' /\ G = Friends' /\ C = chats /\ r = q /\ e = Event("data", {k})
    OBVIOUS
  <2>2. D = C \cup e.keys /\ C \in SUBSET Keys /\ r \in Seq(Events) /\ G \in SUBSET D
        /\ e \in Events /\ e.type = "data" /\ e.keys = {k}
    BY <1>2, <1>4, <2>1 DEF Event, Events
  <2>3. Tells(f, r, D, G) /\ f[Len(r)] = LastOf(C)
    BY <1>1, <1>4, <2>1
  <2>4. \E h : Tells(h, Append(r, e), D, G) /\ h[0] = f[0] /\ h[Len(r) + 1] = LastOf(D)
    <3>1. /\ r \in Seq(Events) /\ C \in SUBSET Keys /\ e \in Events /\ e.type = "data"
          /\ D = C \cup e.keys /\ G \in SUBSET D
      BY <2>2
    <3> QED
      BY <2>3, <3>1, MessageEnters
  <2>5. k \in C => D = C
    BY <2>2
  <2>6. k \notin LastOf(D) => LastOf(D) = LastOf(C)
    <3>1. D = C \cup {k}
      BY <2>2
    <3> QED
      BY <2>2, <3>1, NothingNew
  <2> QED
    BY <1>1, <2>1, <2>4, <2>5, <2>6
<1>5. CASE ServeListen
  <2>1. UNCHANGED <<chats, sender, server>> /\ watched' = up
        /\ toClient' = IF up THEN Append(toClient, Event("window", LastOf(chats))) ELSE toClient
    BY <1>5 DEF ServeListen, device
  <2>2. Friends' = Friends
    BY <2>1 DEF Friends
  <2>3. CASE up
    <3> DEFINE g == LastOf(chats)
               e == Event("window", g)
    <3>1. g \in SUBSET chats /\ Closed(g, Friends) /\ Cardinality(g) <= Window /\ g \in SUBSET Keys
      BY <1>2, WindowFollows, StoredIsClosed, WindowIsSmall
    <3>2. e \in Events /\ e.type = "window" /\ e.keys = g
      BY <3>1 DEF Event, Events
    <3>3. f[n] \in SUBSET chats
      BY <1>1, <1>2 DEF Tells
    <3>4. Precedes(f[n], g)
      BY <1>2, <3>3, WindowFollows DEF Precedes
    <3>5. g = After(f[n], e) /\ e.type # "ack"
      BY <3>2 DEF After
    <3> HIDE DEF g, e, q, n
    <3>6. \E h : Tells(h, Append(q, e), chats, Friends) /\ h[0] = f[0] /\ h[n + 1] = g
      BY <1>1, <1>2, <3>1, <3>2, <3>4, <3>5, TellsMore DEF q, n
    <3>7. toClient' = Append(q, e) /\ Len(toClient') = n + 1
      <4>1. toClient' = Append(q, e)
        BY <2>1, <2>3 DEF q, e, g
      <4>2. Len(Append(q, e)) = n + 1
        BY <1>2, <3>2 DEF q, n
      <4> QED
        BY <4>1, <4>2
    <3> QED
      BY <1>1, <2>1, <2>2, <3>6, <3>7 DEF Told, g
  <2>4. CASE ~up
    BY <1>1, <2>1, <2>2, <2>4 DEF Told
  <2> QED
    BY <2>3, <2>4
<1>6. CASE ServePut
  <2> DEFINE k == Head(toServer).key
             D == chats'
             G == Friends'
             e == Event("ack", {k})
             d == Event("data", {k})
             b == watched /\ k \in LastOf(D) /\ k \notin chats
  <2>1. k \in Keys
    BY <1>6, PutOfMine DEF ServePut, Mine
  <2>2. /\ D = chats \cup {k} /\ UNCHANGED <<sender, server, up, watched>>
        /\ toClient' = IF up THEN q \o (IF b THEN <<d>> ELSE <<>>) \o <<e>> ELSE q
    BY <1>6 DEF ServePut, device
  <2>3. Tells(f, q, D, G)
    BY <1>3, <2>2
  <2>4. up => watched
    <3>1. 1 \in DOMAIN toServer /\ toServer[1].type = "put" /\ toServer # <<>>
      BY <1>6 DEF ServePut, Typed
    <3> QED
      BY <3>1 DEF Listens
  <2>5. CASE ~up
    BY <1>1, <2>2, <2>3, <2>5 DEF Told, Listens
  <2>6. CASE up
    <3>1. d \in Events /\ e \in Events /\ e.type = "ack" /\ e.keys = {k}
      BY <2>1 DEF Event, Events
    <3> DEFINE r == IF b THEN Append(q, d) ELSE q
    <3>2. toClient' = Append(r, e) /\ r \in Seq(Events)
      <4> HIDE DEF b, d, e
      <4>1. q \o <<d>> = Append(q, d) /\ q \o <<>> = q /\ Append(q, d) \in Seq(Events)
        BY <1>2, <3>1
      <4>2. r \in Seq(Events)
        BY <1>2, <4>1
      <4>3. toClient' = r \o <<e>>
        BY <2>2, <2>6, <4>1
      <4> HIDE DEF r, q
      <4>4. r \o <<e>> = Append(r, e)
        BY <3>1, <4>2
      <4> QED
        BY <4>2, <4>3, <4>4
    <3>3. PICK h : Tells(h, r, D, G) /\ h[0] = server /\ h[Len(r)] = LastOf(D)
      <4>1. CASE b
        <5>1. PICK h : Tells(h, Append(q, d), D, G) /\ h[0] = server /\ h[n + 1] = LastOf(D)
          BY <1>4, <2>1, <2>2, <2>3, <4>1
        <5>2. r = Append(q, d) /\ Len(r) = n + 1
          BY <1>2, <3>1, <4>1
        <5> QED
          BY <5>1, <5>2
      <4>2. CASE ~b
        <5>1. LastOf(D) = LastOf(chats)
          BY <1>4, <2>1, <2>2, <2>3, <2>4, <2>6, <4>2
        <5> QED
          BY <1>1, <2>3, <2>4, <2>6, <4>2, <5>1
      <4> QED
        BY <4>1, <4>2
    <3>4. Precedes({k}, h[Len(r)])
      <4>1. Precedes(D, LastOf(D)) /\ k \in D
        BY <1>2, <2>2, WindowFollows
      <4> QED
        BY <3>3, <4>1 DEF Precedes
    <3>5. \E i : Tells(i, Append(r, e), D, G) /\ i[0] = h[0] /\ i[Len(r) + 1] = h[Len(r)]
      <4>1. r \in Seq(Events) /\ Precedes(e.keys, h[Len(r)]) /\ e \in Events /\ e.type = "ack"
        BY <3>1, <3>2, <3>4
      <4>2. Tells(h, r, D, G)
        BY <3>3
      <4> HIDE DEF r, D, G, e
      <4> QED
        BY <4>1, <4>2, WriteAnswered
    <3>6. \E i : Tells(i, Append(r, e), D, G) /\ i[0] = server /\ i[Len(r) + 1] = LastOf(D)
      BY <3>3, <3>5
    <3>7. Len(toClient') = Len(r) + 1
      <4> HIDE DEF r, e
      <4>1. Len(Append(r, e)) = Len(r) + 1
        BY <3>1, <3>2
      <4> QED
        BY <3>2, <4>1
    <3> QED
      <4> HIDE DEF r, e
      <4> QED
        BY <2>2, <3>2, <3>6, <3>7 DEF Told
  <2> QED
    BY <2>5, <2>6
<1>7. CASE Receive
  <2>1. q # <<>> /\ toClient' = Tail(q) /\ UNCHANGED <<chats, sender, watched>>
    BY <1>7 DEF Receive
  <2>2. Friends' = Friends
    BY <2>1 DEF Friends
  <2>3. 1 \in 1..n /\ q[1] = Head(q) /\ 1 - 1 = 0
    BY <1>2, <2>1
  <2>4. f[1] = After(server, Head(q))
    BY <1>1, <2>3 DEF Tells
  <2>5. server' = f[1]
    <3>1. Head(q).type = "window" => After(server, Head(q)) = Head(q).keys
      BY DEF After
    <3>2. Head(q).type = "data" => After(server, Head(q)) = LastOf(server \cup Head(q).keys)
      BY DEF After
    <3>3. Head(q).type = "ack" => After(server, Head(q)) = server
      BY DEF After
    <3> QED
      BY <1>7, <2>4, <3>1, <3>2, <3>3 DEF Receive, Sees, KnowsWith
  <2>6. \E h : Tells(h, Tail(q), chats, Friends) /\ h[0] = f[1] /\ h[Len(Tail(q))] = f[n]
    BY <1>1, <1>2, <2>1, TellsFewer
  <2> QED
    BY <1>1, <2>1, <2>2, <2>5, <2>6 DEF Told
<1>8. CASE Lose
  <2>1. ~watched' /\ toClient' = <<>> /\ UNCHANGED <<chats, sender, server>>
    BY <1>8 DEF Lose, device
  <2>2. Friends' = Friends
    BY <2>1 DEF Friends
  <2>3. 0 \in 0..n
    BY <1>2
  <2>4. server \in SUBSET chats /\ Closed(server, Friends) /\ Cardinality(server) <= Window
    BY <1>1, <2>3 DEF Tells
  <2>5. \E h : Tells(h, <<>>, chats, Friends) /\ h[0] = server
    BY <2>4, TellsNothing
  <2> QED
    BY <2>1, <2>2, <2>5 DEF Told
<1>9. CASE Connect \/ Open \/ Close \/ UNCHANGED vars
  <2>1. UNCHANGED <<chats, sender, server, watched, toClient>>
    BY <1>9 DEF Connect, Open, Close, vars, device, link
  <2>2. Friends' = Friends
    BY <2>1 DEF Friends
  <2> QED
    BY <1>1, <2>1, <2>2 DEF Told
<1>10. ASSUME NEW k \in Keys, Send(k) PROVE Told'
  <2>1. UNCHANGED <<chats, server, watched, toClient>>
    BY <1>10 DEF Send
  <2>2. sender' = [sender EXCEPT ![k] = "me"] /\ sender[k] = "none"
    BY <1>10 DEF Send, NewKey
  <2>3. Friends' = Friends
    BY <2>2 DEF Friends, Typed
  <2> QED
    BY <1>1, <2>1, <2>3 DEF Told
<1>11. ASSUME NEW k \in Keys, NEW p \in Others, Arrives(p, k) PROVE Told'
  <2> DEFINE D == chats'
             G == Friends'
             b == watched /\ k \in LastOf(D) /\ k \notin chats
             d == Event("data", {k})
  <2>1. /\ D = chats \cup {k} /\ UNCHANGED <<server, watched>>
        /\ toClient' = IF b THEN Append(q, d) ELSE q
    BY <1>11 DEF Arrives, Enters, device
  <2>2. /\ sender[k] = "none" /\ \A j \in Keys : sender[j] = p => j < k
        /\ sender'[k] = p /\ \A j \in Keys : j # k => sender'[j] = sender[j]
    BY <1>11 DEF Arrives, NewKey, Typed
  <2>3. G = IF p = "friend" THEN Friends \cup {k} ELSE Friends
    BY <2>2 DEF Friends
  <2>4. k \notin chats
    BY <2>2 DEF WhoSends, Sent
  <2>5. \A a \in G \ Friends : \A j \in Friends : j < a
    <3>1. p = "friend" => \A j \in Friends : j < k
      BY <2>2 DEF Friends
    <3> QED
      BY <2>3, <3>1
  <2>6. Tells(f, q, D, G)
    <3>1. /\ D \in SUBSET Keys /\ chats \subseteq D /\ Friends \in SUBSET Keys /\ G \in SUBSET Keys
          /\ Friends \subseteq G /\ chats \cap G \subseteq Friends
      BY <1>2, <2>1, <2>3, <2>4
    <3> HIDE DEF D, G, q
    <3> QED
      BY <1>1, <1>2, <2>5, <3>1, TellsOfMore DEF q
  <2>7. d \in Events
    BY DEF Event, Events
  <2>8. CASE b
    <3>1. \E h : Tells(h, Append(q, d), D, G) /\ h[0] = server /\ h[n + 1] = LastOf(D)
      BY <1>4, <2>1, <2>6, <2>8
    <3>2. toClient' = Append(q, d) /\ Len(toClient') = n + 1
      BY <1>2, <2>1, <2>7, <2>8
    <3> QED
      BY <2>1, <3>1, <3>2 DEF Told
  <2>9. CASE ~b
    <3>1. watched => LastOf(D) = LastOf(chats)
      BY <1>4, <2>1, <2>6, <2>9
    <3> QED
      BY <1>1, <2>1, <2>6, <2>9, <3>1 DEF Told
  <2> QED
    BY <2>8, <2>9
<1> QED
  BY <1>5, <1>6, <1>7, <1>8, <1>9, <1>10, <1>11 DEF Next, Progress

-----------------------------------------------------------------------------
(* The view moves on, and the page with it.                                *)

\* The view, by who sends what is in it.
LEMMA ViewIsClosed ==
  ASSUME Typed, WhoSends, Told
  PROVE  Closed(View, Friends) /\ View \subseteq Sent /\ server \subseteq chats
         /\ Cardinality(server) <= Window
<1>1. PICK f : Tells(f, toClient, chats, Friends) /\ f[0] = server
  BY DEF Told
<1>2. 0 \in 0..Len(toClient)
  BY DEF Typed
<1>3. server \subseteq chats /\ Closed(server, Friends) /\ Cardinality(server) <= Window
  BY <1>1, <1>2 DEF Tells
<1>4. Friends \in SUBSET Keys /\ Friends \cap pending = {}
  BY DEF WhoSends, Mine, Friends
<1>5. Closed(LastOf(server \cup pending), Friends)
  BY <1>3, <1>4, OwnAreClosed DEF Typed
<1> QED
  BY <1>3, <1>5, ViewOfKeys DEF WhoSends, Mine, Sent

\* The same of the view that a step leads to.
LEMMA ViewWillBeClosed ==
  ASSUME Typed', WhoSends', Told'
  PROVE  Closed(View', Friends') /\ \E X \in SUBSET Keys : View' = LastOf(X)
<1> DEFINE V == View'
           F == Friends'
           A == server'
           P == pending'
<1>1. A \in SUBSET Keys /\ P \in SUBSET Keys /\ V = LastOf(A \cup P) /\ F \in SUBSET Keys
  BY DEF Typed, View, ViewOf, Friends
<1>2. F \cap P = {}
  BY DEF WhoSends, Mine, Friends
<1>3. PICK f : (Tells(f, toClient, chats, Friends))' /\ f[0] = A
  BY DEF Told
<1>4. 0 \in 0..Len(toClient')
  BY DEF Typed
<1>5. Closed(A, F)
  BY <1>3, <1>4 DEF Tells
<1> HIDE DEF V, F, A, P
<1>6. Closed(LastOf(A \cup P), F)
  BY <1>1, <1>2, <1>5, OwnAreClosed
<1>7. A \cup P \in SUBSET Keys
  BY <1>1
<1> QED
  BY <1>1, <1>6, <1>7 DEF V, F

\* A device is told of its message before it forgets that it is its own.
LEMMA AckIsLate ==
  ASSUME Typed, Told, toClient # <<>>
  PROVE  /\ Precedes(server, After(server, Head(toClient)))
         /\ After(server, Head(toClient)) \in SUBSET Keys
         /\ Head(toClient).type = "ack" => Precedes(Head(toClient).keys, server)
         /\ Head(toClient) \in Events
<1>1. PICK f : Tells(f, toClient, chats, Friends) /\ f[0] = server
  BY DEF Told
<1>2. 1 \in 1..Len(toClient) /\ 1 \in 0..Len(toClient) /\ toClient[1] = Head(toClient) /\ 1 - 1 = 0
      /\ Head(toClient) \in Events
  BY DEF Typed
<1>3. /\ f[1] = After(server, Head(toClient)) /\ Precedes(server, f[1])
      /\ Head(toClient).type = "ack" => Precedes(Head(toClient).keys, f[1])
      /\ f[1] \in SUBSET Keys
  BY <1>1, <1>2 DEF Tells, Typed
<1>4. Head(toClient).type = "ack" => f[1] = server
  BY <1>3 DEF After
<1> QED
  BY <1>2, <1>3, <1>4

LEMMA ViewStep ==
  ASSUME Typed, Told, Typed', [Next]_vars
  PROVE  Precedes(View, View')
<1> DEFINE X == server \cup pending
           Y == server' \cup pending'
<1>1. X \in SUBSET Keys /\ Y \in SUBSET Keys /\ View = LastOf(X) /\ View' = LastOf(Y)
  BY ViewOfKeys DEF Typed, View, ViewOf
<1>2. Precedes(X, Y) => Precedes(View, View')
  BY <1>1, WindowsPrecede
<1>3. CASE Receive
  <2> DEFINE e == Head(toClient)
             g == After(server, e)
  <2>1. /\ Precedes(server, g) /\ g \in SUBSET Keys
        /\ e.type = "ack" => Precedes(e.keys, server)
        /\ e \in Events
    BY <1>3, AckIsLate DEF Receive
  <2>2. CASE e.type = "ack"
    <3>1. server' = server /\ pending' = pending \ e.keys
      BY <1>3, <2>2 DEF Receive, Sees
    <3>2. Precedes(X, Y)
      <4>1. \A j \in e.keys : j \in server \/ Passed(j, server)
        BY <2>1, <2>2 DEF Precedes
      <4>2. \A j : Passed(j, server) => Passed(j, Y)
        <5>1. server \in SUBSET Keys /\ server \subseteq Y
          BY <3>1 DEF Typed
        <5> QED
          BY <1>1, <5>1, PassedBySuperset
      <4> QED
        BY <3>1, <4>1, <4>2 DEF Precedes
    <3> QED
      BY <1>2, <3>2
  <2>3. CASE e.type # "ack"
    <3>1. server' = g /\ pending' = pending
      BY <1>3, <2>3 DEF Receive, Sees, KnowsWith, After
    <3>2. Precedes(X, Y)
      <4> HIDE DEF g
      <4> QED
        BY <2>1, <3>1, PrecedesWithMore DEF Typed
    <3> QED
      BY <1>2, <3>2
  <2> QED
    BY <2>2, <2>3
<1>4. ASSUME NEW k \in Keys, Send(k) PROVE Precedes(View, View')
  <2>1. X \subseteq Y
    BY <1>4 DEF Send
  <2> QED
    BY <1>2, <2>1, PrecedesMore
<1>5. ASSUME UNCHANGED device PROVE Precedes(View, View')
  <2>1. X \subseteq Y
    BY <1>5 DEF device
  <2> QED
    BY <1>2, <2>1, PrecedesMore
<1>6. \/ Receive \/ UNCHANGED device
      \/ \E k \in Keys : Send(k)
  BY DEF Next, Progress, ServeListen, ServePut, Connect, Open, Close, Lose, Arrives, vars
<1> QED
  BY <1>3, <1>4, <1>5, <1>6

LEMMA PageStep ==
  ASSUME ChatInv, [Next]_vars, Typed', WhoSends', Told'
  PROVE  Page'
<1> USE DEF ChatInv
<1>1. SendersGrow /\ Precedes(View, View')
  BY SendersStep, ViewStep
<1>2. View \in SUBSET Sent /\ Closed(View', Friends') /\ View' \in SUBSET Keys /\ Closed(View, Friends)
  <2>1. Closed(View', Friends')
    BY ViewWillBeClosed
  <2>2. View \in SUBSET Sent /\ Closed(View, Friends)
    BY ViewIsClosed
  <2>3. PICK Y \in SUBSET Keys : View' = LastOf(Y)
    BY ViewWillBeClosed
  <2>4. View' \in SUBSET Keys
    BY <2>3 DEF LastOf
  <2> QED
    BY <2>1, <2>2, <2>4
<1>3. PICK X \in SUBSET Keys : View' = LastOf(X)
  BY ViewWillBeClosed
<1>4. \* As the lemma says, once for all.
      ASSUME open' = open, NEW new \in Seq(Keys), messages' = messages \o new,
             Range(new) \subseteq (View' \ View) \cap Conversation',
             IF open THEN (View' \ View) \cap Conversation' \subseteq Range(new) ELSE Range(new) = {},
             \A i, j \in DOMAIN new : i < j => new[i] < new[j]
      PROVE  Page'
  BY <1>1, <1>2, <1>3, <1>4, PageMoves
<1>5. messages \in Seq(Keys) /\ messages \o <<>> = messages /\ <<>> \in Seq(Keys)
      /\ Range(<<>>) = {} /\ \A i, j \in DOMAIN <<>> : i < j => <<>>[i] < <<>>[j]
  <2>1. messages \in Seq(Keys) /\ <<>> \in Seq(Keys)
    BY DEF Page
  <2>2. messages \o <<>> = messages
    BY <2>1
  <2>3. DOMAIN <<>> = {}
    OBVIOUS
  <2> QED
    BY <2>1, <2>2, <2>3 DEF Range
<1>6. ASSUME UNCHANGED <<open, messages, device>> PROVE Page'
  <2>1. View' = View
    BY <1>6 DEF View, ViewOf, device
  <2>2. PICK new : new = <<>>
    OBVIOUS
  <2>3. /\ new \in Seq(Keys) /\ messages' = messages \o new /\ Range(new) = {}
        /\ \A i, j \in DOMAIN new : i < j => new[i] < new[j]
    BY <1>5, <1>6, <2>2
  <2> QED
    BY <1>4, <1>6, <2>1, <2>3
<1>7. CASE Receive
  <2>1. /\ UNCHANGED <<open, sender>>
        /\ messages' = IF open THEN messages \o Added(View') ELSE messages
    BY <1>7 DEF Receive, Sees, View
  <2>2. Conversation' = Conversation
    BY <2>1 DEF Conversation
  <2>3. CASE open
    <3> DEFINE S == (View' \ View) \cap Conversation
    <3>1. PICK new : new = InOrder(S)
      OBVIOUS
    <3>2. S \in SUBSET Keys
      BY <1>2
    <3>3. /\ new \in Seq(S) /\ Range(new) = S
          /\ \A i, j \in DOMAIN new : i < j => new[i] < new[j]
      <4> HIDE DEF S
      <4> QED
        BY <3>1, <3>2, OrderOfKeys
    <3>4. messages' = messages \o new
      BY <2>1, <2>3, <3>1 DEF Added
    <3>5. new \in Seq(Keys)
      <4> HIDE DEF S
      <4> QED
        BY <3>2, <3>3
    <3> QED
      BY <1>4, <2>1, <2>2, <2>3, <3>3, <3>4, <3>5
  <2>4. CASE ~open
    <3>1. PICK new : new = <<>>
      OBVIOUS
    <3>2. /\ new \in Seq(Keys) /\ messages' = messages \o new /\ Range(new) = {}
          /\ \A i, j \in DOMAIN new : i < j => new[i] < new[j]
      BY <1>5, <2>1, <2>4, <3>1
    <3> QED
      BY <1>4, <2>1, <2>4, <3>2
  <2> QED
    BY <2>3, <2>4
<1>8. ASSUME NEW k \in Keys, Send(k) PROVE Page'
  <2>1. /\ open /\ open' = open /\ server' = server /\ pending' = pending \cup {k}
        /\ messages' = messages \o (IF k \in View' THEN <<k>> ELSE <<>>)
        /\ sender[k] = "none" /\ sender' = [sender EXCEPT ![k] = "me"]
    BY <1>8 DEF Send, NewKey, View
  <2>2. sender'[k] = "me" /\ k \in Conversation'
    BY <2>1 DEF Typed, Conversation
  <2>3. k \notin View
    BY <1>2, <2>1 DEF Sent
  <2>4. View' \subseteq View \cup {k}
    <3> DEFINE A == server \cup pending
    <3>1. A \in SUBSET Keys /\ View = LastOf(A) /\ View' = LastOf(A \cup {k})
      <4>1. server' \cup pending' = A \cup {k}
        BY <2>1
      <4> QED
        BY <4>1 DEF Typed, View, ViewOf
    <3>2. A \cup {k} \in SUBSET Keys /\ LastOf(A \cup {k}) \subseteq A \cup {k}
      BY <3>1, WindowFollows
    <3>3. LastOf(A \cup {k}) \cap A \subseteq LastOf(A)
      BY <3>1, <3>2, WindowOfMore
    <3> QED
      BY <3>1, <3>2, <3>3
  <2>5. PICK new : new = IF k \in View' THEN <<k>> ELSE <<>>
    OBVIOUS
  <2>6. /\ new \in Seq(Keys) /\ messages' = messages \o new
        /\ Range(new) = View' \cap {k}
        /\ \A i, j \in DOMAIN new : i < j => new[i] < new[j]
    <3>1. CASE k \in View'
      <4>1. new = <<k>>
        BY <2>5, <3>1
      <4>2. DOMAIN new = {1} /\ new[1] = k /\ new \in Seq(Keys)
        BY <4>1
      <4>3. Range(new) = {k}
        BY <4>2 DEF Range
      <4>4. messages' = messages \o new
        BY <2>1, <2>5
      <4> QED
        BY <3>1, <4>2, <4>3, <4>4
    <3>2. CASE k \notin View'
      <4>1. new = <<>>
        BY <2>5, <3>2
      <4>2. messages' = messages \o new
        BY <2>1, <2>5
      <4>3. Range(new) = {}
        BY <1>5, <4>1
      <4> QED
        BY <1>5, <3>2, <4>1, <4>2, <4>3
    <3> QED
      BY <3>1, <3>2
  <2> QED
    BY <1>4, <2>1, <2>2, <2>3, <2>4, <2>6
<1>9. CASE Open
  <2>1. /\ open' /\ UNCHANGED <<sender, server, pending>>
        /\ messages' = InOrder(View \cap Conversation)
    BY <1>9 DEF Open, device, StartsWith
  <2>2. View' = View /\ Conversation' = Conversation /\ Friends' = Friends
    BY <2>1 DEF View, ViewOf, Conversation, Friends
  <2> DEFINE S == View \cap Conversation
             m == messages'
  <2>3. S \in SUBSET Keys /\ m = InOrder(S)
    BY <2>1 DEF Conversation
  <2> HIDE DEF m
  <2>4. /\ m \in Seq(S) /\ Range(m) = S
        /\ \A i, j \in DOMAIN m : i < j => m[i] < m[j]
    <3> HIDE DEF S
    <3> QED
      BY <2>3, OrderOfKeys
  <2>5. m \in Seq(Keys) /\ DOMAIN m \subseteq Int /\ \A i \in DOMAIN m : m[i] \in Int
    <3>1. S \subseteq Int
      BY <2>3, Counts
    <3> HIDE DEF S
    <3>2. m \in Seq(Keys) /\ \A i \in DOMAIN m : m[i] \in S
      BY <2>3, <2>4
    <3>3. DOMAIN m = 1..Len(m) /\ Len(m) \in Nat
      BY <3>2
    <3>4. DOMAIN m \subseteq Int
      <4> SUFFICES 1..Len(m) \subseteq Int
        BY <3>3, Zenon
      <4> QED
        BY <3>3
    <3>5. \A i \in DOMAIN m : m[i] \in Int
      BY <3>1, <3>2, Zenon
    <3> QED
      BY <3>2, <3>4, <3>5, Zenon
  <2>6. \A i, j \in DOMAIN m : m[i] = m[j] => i = j
    <3> SUFFICES ASSUME NEW i \in DOMAIN m, NEW j \in DOMAIN m, m[i] = m[j], i # j PROVE FALSE
      OBVIOUS
    <3>1. i < j \/ j < i
      BY <2>5
    <3>2. m[i] < m[j] \/ m[j] < m[i]
      BY <2>4, <3>1
    <3> QED
      BY <2>5, <3>2
  <2>7. ShownOnce' /\ FriendInOrder'
    BY <2>4, <2>6 DEF ShownOnce, FriendInOrder, m
  <2>8. WindowIsShown' /\ Range(messages') \subseteq Conversation' /\ Precedes(Range(messages'), View')
    BY <2>2, <2>4 DEF WindowIsShown, Precedes, m
  <2>9. \A j \in S \cap Friends, k \in Friends : k < j => k \in S \/ Passed(k, View)
    BY <1>2 DEF Closed, Friends, Conversation
  <2> QED
    BY <2>2, <2>4, <2>5, <2>7, <2>8, <2>9 DEF Page, m
<1>10. CASE Close
  <2>1. ~open' /\ messages' = <<>>
    BY <1>10 DEF Close
  <2>2. Range(messages') = {} /\ messages' \in Seq(Keys) /\ DOMAIN messages' = {}
    BY <1>5, <2>1
  <2> QED
    BY <2>1, <2>2 DEF Page, ShownOnce, FriendInOrder, WindowIsShown, Precedes
<1>11. \/ UNCHANGED <<open, messages, device>> \/ Receive \/ Open \/ Close
       \/ \E k \in Keys : Send(k)
  BY DEF Next, Progress, ServeListen, ServePut, Connect, Lose, Arrives, vars, screen
<1> QED
  BY <1>6, <1>7, <1>8, <1>9, <1>10, <1>11

LEMMA ChatStep == ChatInv /\ [Next]_vars => ChatInv'
<1> SUFFICES ASSUME ChatInv, [Next]_vars PROVE ChatInv'
  OBVIOUS
<1>1. Typed' /\ WhoSends' /\ Listens' /\ Told'
  BY TypedStep, WhoSendsStep, ListensStep, ToldStep DEF ChatInv
<1> QED
  BY <1>1, PageStep DEF ChatInv

LEMMA ChatStarts == Init => ChatInv
<1> SUFFICES ASSUME Init PROVE ChatInv
  OBVIOUS
<1>1. Typed
  <2>1. losses \in 0..MaxLosses /\ visits \in 0..MaxVisits
    BY Bounds DEF Init
  <2>2. {observed, open, up, watched} \subseteq BOOLEAN
    BY DEF Init
  <2>3. sender \in [Keys -> People \cup {"none"}]
    BY DEF Init
  <2> QED
    BY <2>1, <2>2, <2>3 DEF Init, Typed
<1>2. Friends = {}
  BY DEF Init, Friends
<1>3. WhoSends /\ Listens
  BY <1>2 DEF Init, WhoSends, Listens
<1>4. Told
  <2>1. Closed({}, Friends) /\ Cardinality({}) <= Window /\ {} \in SUBSET chats
    BY Bounds, FS_EmptySet DEF Closed
  <2>2. \E h : Tells(h, <<>>, chats, Friends) /\ h[0] = {}
    BY <2>1, TellsNothing
  <2> QED
    BY <2>2 DEF Init, Told
<1>5. Page
  <2>1. messages \in Seq(Keys) /\ DOMAIN messages = {} /\ ~open
    BY DEF Init
  <2>2. Range(messages) = {}
    BY <2>1 DEF Range
  <2> QED
    BY <2>1, <2>2 DEF Page, ShownOnce, FriendInOrder, WindowIsShown, Precedes
<1> QED
  BY <1>1, <1>3, <1>4, <1>5 DEF ChatInv

LEMMA ChatInvSuffices == ChatInv => PageIsRight
<1> SUFFICES ASSUME ChatInv PROVE PageIsRight
  OBVIOUS
<1>1. Cardinality(server) <= Window
  BY ViewIsClosed DEF ChatInv
<1>2. TypeOK
  BY <1>1 DEF TypeOK, ChatInv, Typed, Page
<1> QED
  BY <1>2 DEF PageIsRight, ChatInv, Page

\* For any window, any number of messages, visits and losses: the page shows
\* every message of the conversation that the device sees, each once, and the
\* friend's in the order they were sent (ChatViewController's observer, over
\* FLimitedFilter and a link that loses, repeats and acknowledges).
THEOREM PageStaysRight == Spec => []PageIsRight
<1>1. QED
  BY ChatStarts, ChatStep, ChatInvSuffices, PTL DEF Spec

LEMMA ViewIsLater ==
  ChatInv /\ [Next]_vars => [\A k \in View \ View' : Cardinality(Newer(k, View')) >= Window]_vars
<1> SUFFICES ASSUME ChatInv, [Next]_vars
             PROVE  \A k \in View \ View' : Cardinality(Newer(k, View')) >= Window
  OBVIOUS
<1>1. Precedes(View, View')
  BY ChatStep, ViewStep DEF ChatInv
<1> QED
  BY <1>1 DEF Precedes, Passed

\* The view only moves on: whatever leaves it has a whole window of newer
\* messages in it after (the listen is repeated before the writes, and an
\* answer to a write comes after the message itself).
THEOREM ViewOnlyMovesOn == Spec => ViewMovesOn
<1>1. QED
  BY ChatStarts, ChatStep, ViewIsLater, PTL DEF Spec, ViewMovesOn
=============================================================================
