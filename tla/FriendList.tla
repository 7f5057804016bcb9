----------------------------- MODULE FriendList -----------------------------
(***************************************************************************)
(* The tables of friends and of requests, as MessengerViewController and   *)
(* RequestViewController load and show them on one device.                 *)
(*                                                                         *)
(* A table has one row for every entry of a list, but what the rows say    *)
(* comes from arrays of names and user ids, which another read fills in    *)
(* the order of a dictionary.  The two pages are alike; Messenger reads    *)
(* two lists, fills the arrays after each, and is not left for good.       *)
(*                                                                         *)
(* Answers come in the order of the calls, each with its callback.  What   *)
(* becomes of the lists themselves is the subject of Friends.  The names   *)
(* in a list are those of users, and all rows fit on the screen.           *)
(***************************************************************************)
EXTENDS Integers, Sequences, SequencesExt, FiniteSets, Selection

CONSTANTS
  Pages,        \* the pages looked at: "messenger", "requests"
  People,       \* who may get on the list
  Nameless,     \* users whose record has no display name (see Accounts)
  Doubles,      \* somebody may be on the list twice (see Friends)
  Careful,      \* people leave a page only when it has been loaded
  MaxList, MaxAppearances   \* bounds: of the list, and how often the page appears

ASSUME PagesAreThese == Pages \subseteq {"messenger", "requests"}
ASSUME NamelessAreUsers == Nameless \subseteq People
ASSUME Switches == Doubles \in BOOLEAN /\ Careful \in BOOLEAN
ASSUME Bounds == MaxList \in Nat /\ MaxAppearances \in Nat

VARIABLES
  page,         \* which page this is
  named,        \* the person has a user name
  list,         \* the list in the database
  reads,        \* reads that are not answered
  onScreen,     \* the page is on the screen
  touch,        \* its table takes touches: the indicator is not running
  listed,       \* the list as it was read: friend, or request
  names, uids,  \* nameFriend, and uidFriend with imgFriend
  reload,       \* the table was told to reload, and has not laid out its rows
  shown,        \* the names on the rows
  acted,        \* observed: the last tap, by the name on its row, whom it was
                \* about, and among how many
  appearances,  \* of the bound
  trapped       \* an index was out of range

arrays == <<listed, names, uids>>
screen == <<touch, reload, shown>>
pageVars == <<page, named, list, reads, onScreen, arrays, screen, acted, appearances, trapped>>

Nothing == [shown |-> "none", person |-> "none", rows |-> 0]
Read(kind) == [kind |-> kind, row |-> 0]
IsNext(kind) == ~trapped /\ reads # <<>> /\ Head(reads).kind = kind
FollowedBy(calls) == reads' = Tail(reads) \o calls

-----------------------------------------------------------------------------
(* Loading.                                                                *)

\* cellForRowAt, for every row.
LaysOut ==
  /\ reload' = FALSE
  /\ IF Len(listed) <= Len(names) /\ Len(listed) <= Len(uids)
       THEN shown' = SubSeq(names, 1, Len(listed)) /\ UNCHANGED trapped
       ELSE trapped' = TRUE /\ UNCHANGED shown

\* Mutant: the indicator does not take the table's touches away.
TouchesAsBefore == touch

\* indicatorRunning(true)
TouchesWhileLoading == FALSE

\* viewDidAppear, after what is due is drawn.
PageAppears ==
  /\ ~trapped /\ ~onScreen /\ appearances < MaxAppearances
  /\ appearances' = appearances + 1
  /\ onScreen' = TRUE /\ touch' = TouchesWhileLoading
  /\ reads' = Append(reads, Read("name"))
  /\ IF reload THEN LaysOut ELSE UNCHANGED <<reload, shown, trapped>>
  /\ UNCHANGED <<page, named, list, arrays, acted>>

\* loadList
Lists == IF page = "messenger" THEN <<Read("list"), Read("requests")>> ELSE <<Read("list")>>

AnswerName ==
  /\ IsNext("name")
  /\ FollowedBy(IF named THEN Lists ELSE <<>>)
  /\ UNCHANGED <<page, named, list, onScreen, arrays, screen, acted, appearances, trapped>>

\* Mutant: the arrays are not emptied.
KeepsArrays == FollowedBy(<<Read("users")>>) /\ UNCHANGED <<names, uids>>

LoadFriend == FollowedBy(<<Read("users")>>) /\ names' = <<>> /\ uids' = <<>>

\* The list is the one to show.
AnswerList ==
  /\ IsNext("list")
  /\ listed' = list
  /\ LoadFriend
  /\ UNCHANGED <<page, named, list, onScreen, screen, acted, appearances, trapped>>

\* Messenger's read of the requests, which only a button shows.
AnswerRequests ==
  /\ IsNext("requests")
  /\ LoadFriend
  /\ UNCHANGED <<page, named, list, onScreen, listed, screen, acted, appearances, trapped>>

HasName(p) == p \notin Nameless

\* Mutant: names are taken in another order.
NamesBackwards(users) == Reverse(AtPlaces(users, {i \in DOMAIN users : HasName(users[i])}))

NamesOf(users) == AtPlaces(users, {i \in DOMAIN users : HasName(users[i])})

\* Mutant: the indicator goes on.
TouchesStay == touch

\* indicatorRunning(false)
TouchesWhenLoaded == TRUE

\* The callback in loadFriend: the users on the list, in any order, after what
\* the arrays hold.
AnswerUsers ==
  /\ IsNext("users")
  /\ \E users \in SetToSeqs(ToSet(listed)) :
       uids' = uids \o users /\ names' = names \o NamesOf(users)
  /\ reload' = TRUE /\ touch' = TouchesWhenLoaded
  /\ FollowedBy(<<>>)
  /\ UNCHANGED <<page, named, list, onScreen, listed, shown, acted, appearances, trapped>>

\* When the screen is drawn.
Layout ==
  /\ ~trapped /\ reload /\ onScreen
  /\ LaysOut
  /\ UNCHANGED <<page, named, list, reads, onScreen, arrays, touch, acted, appearances>>

-----------------------------------------------------------------------------
(* Taps, and what happens elsewhere.                                       *)

\* Two reads of the same place are answered together; nobody is so quick as to
\* tap in between, unless the answers are kept apart.
CanTap(i) ==
  /\ ~trapped /\ onScreen /\ touch /\ ~reload /\ i \in DOMAIN shown
  /\ Careful => ~IsNext("users")

\* didSelectRowAt: the chat with the one on the row.
OpenChat(i) ==
  /\ page = "messenger" /\ CanTap(i)
  /\ IF i <= Len(uids) /\ i <= Len(names)
       THEN /\ acted' = [shown |-> shown[i], person |-> uids[i], rows |-> Len(shown)]
            /\ onScreen' = FALSE /\ UNCHANGED trapped
       ELSE trapped' = TRUE /\ UNCHANGED <<acted, onScreen>>
  /\ UNCHANGED <<page, named, list, reads, arrays, screen, appearances>>

\* addReq and removeReq, on row i.
AnswerRequest(i) ==
  /\ page = "requests" /\ CanTap(i)
  /\ touch' = TouchesWhileLoading
  /\ reads' = Append(reads, [kind |-> "take", row |-> i])
  /\ UNCHANGED <<page, named, list, onScreen, arrays, reload, shown, acted, appearances, trapped>>

\* Their callback: the request at that place is taken off the list.
AnswerTake ==
  /\ IsNext("take")
  /\ LET i == Head(reads).row
     IN  IF i <= Len(listed) /\ listed[i] \in ToSet(list)
           THEN /\ acted' = [shown |-> shown[i], person |-> listed[i], rows |-> Len(shown)]
                /\ list' = RemoveFirst(list, listed[i])
                /\ UNCHANGED trapped
           ELSE trapped' = TRUE /\ UNCHANGED <<acted, list>>
  /\ FollowedBy(<<Read("list")>>)
  /\ UNCHANGED <<page, named, onScreen, arrays, screen, appearances>>

\* Another page, or another tab.  (The page of requests is left for good.)
LeavePage ==
  /\ ~trapped /\ page = "messenger" /\ onScreen
  /\ Careful => reads = <<>> /\ ~reload
  /\ onScreen' = FALSE
  /\ UNCHANGED <<page, named, list, reads, arrays, screen, acted, appearances, trapped>>

\* Friends are made on other pages; requests come at any time.
Grow(p) ==
  /\ ~trapped /\ Len(list) < MaxList
  /\ page = "messenger" => ~onScreen
  /\ Doubles \/ p \notin ToSet(list)
  /\ list' = Append(list, p)
  /\ UNCHANGED <<page, named, reads, onScreen, arrays, screen, acted, appearances, trapped>>

PageInit ==
  /\ page \in Pages /\ named \in BOOLEAN
  /\ list = <<>> /\ listed = <<>> /\ names = <<>> /\ uids = <<>>
  /\ reads = <<>> /\ onScreen = FALSE /\ touch = TRUE /\ reload = FALSE
  /\ shown = <<>> /\ acted = Nothing /\ appearances = 0 /\ trapped = FALSE

Loads == AnswerName \/ AnswerList \/ AnswerRequests \/ AnswerUsers \/ AnswerTake \/ Layout

PageNext ==
  \/ Loads \/ PageAppears \/ LeavePage
  \/ \E p \in People : Grow(p)
  \/ \E i \in DOMAIN shown : OpenChat(i) \/ AnswerRequest(i)

PageSpec == PageInit /\ [][PageNext]_pageVars

\* Answers come, and the screen is drawn.
FairPageSpec == PageSpec /\ WF_pageVars(Loads)

-----------------------------------------------------------------------------
(* Properties.                                                             *)

Kinds == {"name", "list", "requests", "users", "take"}

\* The arrays never hold more than two loads.
PageTypeOK ==
  /\ page \in Pages /\ named \in BOOLEAN /\ onScreen \in BOOLEAN
  /\ touch \in BOOLEAN /\ reload \in BOOLEAN /\ trapped \in BOOLEAN
  /\ list \in Seq(People) /\ listed \in Seq(People) /\ shown \in Seq(People)
  /\ names \in Seq(People) /\ uids \in Seq(People)
  /\ Len(names) <= 2 * MaxList /\ Len(uids) <= 2 * MaxList
  /\ reads \in Seq([kind : Kinds, row : 0..MaxList])
  /\ acted \in [shown : People, person : People, rows : 1..MaxList] \cup {Nothing}
  /\ appearances \in 0..MaxAppearances

\* Every row that is drawn or tapped is backed by the arrays, although they are
\* emptied and filled twice while the table is on the screen.
NeverTraps == ~trapped

\* A row acts on the person whose name is on it: in Messenger always; a page
\* of requests acts on the place in its list, which is that of the name only as
\* long as there is one request.
RowActsOnPersonShown ==
  acted.person = acted.shown \/ (page = "requests" /\ acted.rows > 1)

\* What a person may rely on, tapping on a row.
RowsAreRight == PageTypeOK /\ NeverTraps /\ RowActsOnPersonShown

\* When all is loaded, the table shows everybody on the list, once.
AllAreShown ==
  onScreen /\ named /\ reads = <<>> /\ ~reload =>
    /\ Len(shown) = Len(listed) /\ ToSet(shown) = ToSet(listed)
    /\ page = "messenger" => listed = list

\* A page that appears takes touches again, for somebody who has a user name.
TableWakesUp == onScreen /\ named ~> (touch /\ ~reload) \/ ~onScreen
=============================================================================
