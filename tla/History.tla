------------------------------ MODULE History ------------------------------
(***************************************************************************)
(* The history of won games: GameViewController.showAlert records one, and *)
(* HomeViewController lists them.                                          *)
(*                                                                         *)
(* The database holds game/<uid>/single, a map from the second of the win  *)
(* to its result.  A device reads the map, adds to the copy, and writes    *)
(* all of it back.  Its calls are dealt with in order, each with its       *)
(* callback.  A key is text, with numbers of as many digits as they have,  *)
(* and the list is sorted as text.  What a result says is left out.        *)
(***************************************************************************)
EXTENDS Integers, Sequences, SequencesExt, FiniteSets, Arrangement

CONSTANTS
  Devices,   \* where the person is signed in
  Dates,     \* when games are won: numbers, as in <<month, day>>
  MaxVisits  \* a bound: loads of home pages

ASSUME DatesAreNumbers ==
  Dates \subseteq Seq(0..99) /\ \A s, t \in Dates : Len(s) = Len(t)
ASSUME VisitsAreCounted == MaxVisits \in Nat

VARIABLES
  single,    \* game/<uid>/single: the keys recorded
  won,       \* observed: the games won on a device, once the alert is answered
  hurried,   \* observed: a game was won while another one was being recorded
  queue,     \* the calls of a device that are not dealt with
  visible,   \* the home page is on the screen
  mode,      \* HomeViewController.mode: single player
  wheel, table, play,   \* whether indicator, table and Play are shown
  rows,      \* game, as the table lists it
  visits     \* of the bound

home == <<visible, mode, wheel, table, play, rows>>
vars == <<single, won, hurried, queue, home, visits>>

Call(kind, keys) == [kind |-> kind, keys |-> keys]
First(d, kind) == queue[d] # <<>> /\ Head(queue[d]).kind = kind
Makes(d, calls) == queue' = [queue EXCEPT ![d] = Tail(@) \o calls]

\* A result of d is on its way to the database.
Recording(d) == \E i \in DOMAIN queue[d] : queue[d][i].kind \in {"record", "put"}

Wins == UNION {won[d] : d \in Devices}

-----------------------------------------------------------------------------
(* Dates, and their text.                                                  *)

\* The first difference decides, for dates as for text.
Before(s, t) ==
  \E i \in DOMAIN s \cap DOMAIN t : s[i] < t[i] /\ \A j \in 1..(i - 1) : s[j] = t[j]

Digits(n) == IF n < 10 THEN <<n>> ELSE <<n \div 10, n % 10>>

\* dateTime and the "z" after it: an "x", after the digits, stands between the
\* numbers, and a "z" after all.
Text(date) == FlattenSeq([i \in DOMAIN date |->
                Append(Digits(date[i]), IF i = Len(date) THEN 11 ELSE 10)])

\* Keys with a later text, and with an earlier one.
Later == [s \in Dates |-> {t \in Dates : Before(Text(s), Text(t))}]
Earlier == [s \in Dates |-> {t \in Dates : Before(Text(t), Text(s))}]

\* Mutant: the oldest comes first.
SortedUpwards(keys) == Arranged(keys, Earlier)

\* game.sorted(by: { $0 > $1 })
Sorted(keys) == Arranged(keys, Later)

-----------------------------------------------------------------------------
(* GameViewController.showAlert: recording.                                *)

\* OK on "Checkmate!", at this second.
Win(d, now) ==
  /\ ~visible[d]
  /\ \A w \in Wins : Before(w, now)
  /\ won' = [won EXCEPT ![d] = @ \cup {now}]
  /\ hurried' = (hurried \/ \E e \in Devices : Recording(e))
  /\ queue' = [queue EXCEPT ![d] = Append(@, Call("record", {now}))]
  /\ UNCHANGED <<single, home, visits>>

\* Mutant: as for an empty history, always.
ThisOneOnly(new) == new

\* updateValue in a copy, or a new map where there is none.
Updated(new) == single \cup new

AnswerRecord(d) ==
  /\ First(d, "record")
  /\ Makes(d, <<Call("put", Updated(Head(queue[d]).keys))>>)
  /\ UNCHANGED <<single, won, hurried, home, visits>>

Put(d) ==
  /\ First(d, "put")
  /\ single' = Head(queue[d]).keys
  /\ Makes(d, <<>>)
  /\ UNCHANGED <<won, hurried, home, visits>>

-----------------------------------------------------------------------------
(* HomeViewController: listing.                                            *)

\* loadTable
LoadTable(d, forSingle) ==
  /\ visits < MaxVisits
  /\ visits' = visits + 1
  /\ wheel' = [wheel EXCEPT ![d] = TRUE]
  /\ play' = [play EXCEPT ![d] = FALSE]
  /\ queue' = IF forSingle
                THEN [queue EXCEPT ![d] = Append(@, Call("load", {}))] ELSE queue

\* viewDidAppear
Appear(d) ==
  /\ ~visible[d]
  /\ visible' = [visible EXCEPT ![d] = TRUE]
  /\ table' = [table EXCEPT ![d] = FALSE]
  /\ LoadTable(d, mode[d])
  /\ UNCHANGED <<single, won, hurried, mode, rows>>

\* segment, to the first one or to the other.
SegmentSingle(d) ==
  /\ visible[d] /\ ~mode[d]
  /\ mode' = [mode EXCEPT ![d] = TRUE]
  /\ LoadTable(d, TRUE)
  /\ UNCHANGED <<single, won, hurried, visible, table, rows>>

SegmentMulti(d) ==
  /\ visible[d] /\ mode[d]
  /\ mode' = [mode EXCEPT ![d] = FALSE]
  /\ table' = [table EXCEPT ![d] = FALSE]
  /\ play' = [play EXCEPT ![d] = TRUE]
  /\ UNCHANGED <<single, won, hurried, queue, visible, wheel, rows, visits>>

\* Mutants: the rows of before stay; the rows are listed once.
RowsAfter(keys, before) == Sorted(keys) \o before
RowsOnce(keys, before) == IF before = <<>> THEN Sorted(keys) ELSE before

\* reloadTableView
Rows(keys, before) == Sorted(keys)

\* Mutant: there is nothing to stop for.
TurnsWhenEmpty == single = {}

\* activityRunning(false), on either way.
TurnsWhenLoaded == FALSE

\* The callback in loadTable, whichever segment is chosen by now.
AnswerLoad(d) ==
  /\ First(d, "load")
  /\ wheel' = [wheel EXCEPT ![d] = TurnsWhenLoaded]
  /\ table' = [table EXCEPT ![d] = single # {}]
  /\ play' = [play EXCEPT ![d] = single = {}]
  /\ rows' = IF single = {} THEN rows ELSE [rows EXCEPT ![d] = Rows(single, @)]
  /\ Makes(d, <<>>)
  /\ UNCHANGED <<single, won, hurried, visible, mode, visits>>

\* To a game, or to another tab.
Leave(d) ==
  /\ visible[d]
  /\ visible' = [visible EXCEPT ![d] = FALSE]
  /\ UNCHANGED <<single, won, hurried, queue, mode, wheel, table, play, rows, visits>>

-----------------------------------------------------------------------------

\* The home page is the first to appear.
Init ==
  /\ single = {} /\ hurried = FALSE /\ visits = 0
  /\ won = [d \in Devices |-> {}]
  /\ rows = [d \in Devices |-> <<>>]
  /\ queue = [d \in Devices |-> <<Call("load", {})>>]
  /\ visible = [d \in Devices |-> TRUE]
  /\ mode = [d \in Devices |-> TRUE]
  /\ wheel = [d \in Devices |-> TRUE]
  /\ table = [d \in Devices |-> FALSE]
  /\ play = [d \in Devices |-> FALSE]

Answers(d) == AnswerRecord(d) \/ Put(d) \/ AnswerLoad(d)

Next == \E d \in Devices :
  \/ Answers(d) \/ Appear(d) \/ Leave(d) \/ SegmentSingle(d) \/ SegmentMulti(d)
  \/ \E now \in Dates : Win(d, now)

Spec == Init /\ [][Next]_vars

\* The database answers every device.
FairSpec == Spec /\ \A d \in Devices : WF_vars(Answers(d))

-----------------------------------------------------------------------------
(* Properties.                                                             *)

\* A map is written whole, and a game is on the list once.
TypeOK ==
  /\ single \in SUBSET Dates /\ hurried \in BOOLEAN
  /\ won \in [Devices -> SUBSET Dates]
  /\ \A d \in Devices :
       /\ queue[d] \in Seq([kind : {"record", "put", "load"}, keys : SUBSET Dates])
       /\ rows[d] \in Seq(Dates) /\ IsInjective(rows[d])
  /\ {visible, mode, wheel, table, play} \subseteq [Devices -> BOOLEAN]
  /\ visits \in 0..MaxVisits

\* No result is overwritten by the map another device, or the same one, read
\* before, as long as nobody wins while a result is being recorded anywhere.
ResultsAreKept ==
  ~hurried /\ (\A d \in Devices : ~Recording(d)) => single = Wins

Listed(d) == IF table[d] THEN ToSet(rows[d]) ELSE {}

\* A history that has been loaded lacks at most one of the device's own games:
\* the one still being recorded when the page was opened.  (Of another device's
\* games it lacks all that came after.)
OwnGamesAreListed ==
  \A d \in Devices :
    ~hurried /\ visible[d] /\ mode[d] /\ queue[d] = <<>> =>
      /\ Cardinality(won[d] \ Listed(d)) <= 1
      /\ Listed(d) \subseteq Wins

SameDigits(s, t) == \A i \in DOMAIN s : (s[i] < 10) = (t[i] < 10)

\* Although sorted as text, the later of two games comes first, when their
\* numbers have as many digits.  (October is listed after September.)
NewestFirst ==
  \A d \in Devices : \A i, j \in DOMAIN rows[d] :
    i < j /\ SameDigits(rows[d][i], rows[d][j]) => Before(rows[d][j], rows[d][i])

\* What the page lists.
ListsAreRight == TypeOK /\ OwnGamesAreListed /\ NewestFirst

\* A home page that loads ends showing either the table or Play, and no
\* indicator, unless it is left or another segment is chosen first.
PageSettles ==
  \A d \in Devices :
    visible[d] /\ mode[d] ~>
      (~wheel[d] /\ table[d] # play[d]) \/ ~visible[d] \/ ~mode[d]
=============================================================================
