------------------------------ MODULE Friends ------------------------------
(***************************************************************************)
(* Friend requests, as AddFriendViewController and RequestViewController   *)
(* keep them in the Firebase Realtime Database.                            *)
(*                                                                         *)
(* The database holds two lists for every user, friends/<u>/request and    *)
(* friends/<u>/friends.  The app changes a list by reading all of it,      *)
(* changing the copy in the callback, and writing all of it back, with no  *)
(* transaction.  (The empty string in slot 0 of every list is left out.)   *)
(*                                                                         *)
(* Each user runs the app on one device.  The calls of a device reach the  *)
(* database in the order they were made.  An answer and the callback that  *)
(* runs with it are one step here: the callback reads only the screen it   *)
(* belongs to, its answer, and nothing else of the database, and what it   *)
(* writes waits in the device's queue like any other call.                 *)
(***************************************************************************)
EXTENDS Integers, Sequences, SequencesExt, Selection

CONSTANTS
  Users,        \* users with a user name
  OtherTexts,   \* what else people type: "unknown" is nobody's name,
                \* "capitals" is somebody's name with a capital letter
  Careful,      \* people touch the screen only when nothing they started is
                \* pending, and submit the name they searched for
  MayDie,       \* whose app may be stopped with calls pending
  MaySearch,    \* a bound on who searches for whom: <<u, v>>
  MaxList,      \* a bound on the lists people make longer
  MaxPending    \* a bound on the calls pending when people are not careful

ASSUME CarefulIsBoolean == Careful \in BOOLEAN
ASSUME AppsMayDie == MayDie \subseteq Users
ASSUME OtherTextsAreNotUsers == OtherTexts \subseteq {"unknown", "capitals"} \ Users
ASSUME SearchesAreForUsers == MaySearch \subseteq Users \X Users
ASSUME NoneIsNoUser == "none" \notin Users

VARIABLES
  request,   \* friends/<u>/request in the database
  friends,   \* friends/<u>/friends in the database
  queue,     \* the calls of u's device the database has not dealt with
  app,       \* what u's screen holds
  asked,     \* <<u, v>>: u sent v a request (observed, not in the code)
  answered   \* <<u, v>>: v dealt with u's request (observed, not in the code)

vars == <<request, friends, queue, app, asked, answered>>
database == <<request, friends>>
observed == <<asked, answered>>

-----------------------------------------------------------------------------
None == "none"
Texts == Users \cup OtherTexts

\* The calls.  "put..." are updateChildValues, the others observeSingleEvent,
\* named for what their callback does.
PageKinds == {"loadAdd", "find", "checkFriends", "checkRequests",
              "loadName", "loadList", "loadNames"}
TapKinds  == {"openAdd", "openRequests"}
EditKinds == {"ask", "addAsked", "takeRequest", "takeFriend", "dropRequest"}
PutKinds  == {"putRequest", "putFriends"}
Calls == [kind : PageKinds \cup TapKinds \cup EditKinds \cup PutKinds,
          who : Texts \cup {None}, row : Nat, list : Seq(Texts)]

Call(kind) == [kind |-> kind, who |-> None, row |-> 0, list |-> <<>>]
Put(kind, who, list) == [Call(kind) EXCEPT !.who = who, !.list = list]

Home == [page |-> "messenger", enabled |-> FALSE, text |-> None,
         submit |-> FALSE, flag |-> TRUE, alert |-> FALSE, rows |-> <<>>]

\* u's taps make calls.
Sends(u, calls) == queue' = [queue EXCEPT ![u] = @ \o calls]

\* The database deals with u's first call; its callback makes more calls.
Next1(u, kind) == queue[u] # <<>> /\ Head(queue[u]).kind = kind
Makes(u, calls) == queue' = [queue EXCEPT ![u] = Tail(@) \o calls]

\* The app of u starts again: after a trap, or because it was stopped.
Restart(u) ==
  /\ app' = [app EXCEPT ![u] = Home]
  /\ queue' = [queue EXCEPT ![u] = <<>>]

\* A bound: lists do not grow for ever.
Bounded(u) ==
  Len(friends[u]) < MaxList /\ \A v \in Users : Len(request[v]) < MaxList

\* When a person touches the screen.
Ready(u) ==
  /\ ~app[u].alert
  /\ IF Careful THEN queue[u] = <<>> ELSE Len(queue[u]) < MaxPending

-----------------------------------------------------------------------------
(* MessengerViewController: the way in and out.                            *)

\* didTapAddFriend, didTapRequest: the page is pushed when the database has
\* said that there is a user name.  People tap once.
Tap(u, kind) ==
  /\ app[u].page = "messenger"
  /\ Ready(u)
  /\ \A i \in DOMAIN queue[u] : queue[u][i].kind \notin TapKinds
  /\ Sends(u, <<Call(kind)>>)
  /\ UNCHANGED <<database, app, observed>>

OpenAdd(u) ==
  /\ Next1(u, "openAdd")
  /\ app' = [app EXCEPT ![u] = [Home EXCEPT !.page = "add"]]
  /\ Makes(u, <<Call("loadAdd")>>)
  /\ UNCHANGED <<database, observed>>

OpenRequests(u) ==
  /\ Next1(u, "openRequests")
  /\ app' = [app EXCEPT ![u] = [Home EXCEPT !.page = "request"]]
  /\ Makes(u, <<Call("loadName")>>)
  /\ UNCHANGED <<database, observed>>

\* Mutant: what the page held goes with it.
Cleared(u) == Home

\* A page that is popped lives on for the callbacks under way that write.
Popped(u) == IF \E i \in DOMAIN queue[u] : queue[u][i].kind \in EditKinds
               THEN [app[u] EXCEPT !.page = "messenger"] ELSE Home

\* The Back button.  Callbacks that only change the page have no effect any
\* more; those that write lists still do, with the page's last contents.
Back(u) ==
  /\ app[u].page # "messenger"
  /\ Ready(u)
  /\ app' = [app EXCEPT ![u] = Popped(u)]
  /\ queue' = [queue EXCEPT ![u] =
                 OfKind(@, TapKinds \cup EditKinds \cup PutKinds)]
  /\ UNCHANGED <<database, observed>>

-----------------------------------------------------------------------------
(* AddFriendViewController.                                                *)

\* viewDidLoad: the person's own user name has come.
LoadAdd(u) ==
  /\ Next1(u, "loadAdd")
  /\ app' = [app EXCEPT ![u].enabled = TRUE]
  /\ Makes(u, <<>>)
  /\ UNCHANGED <<database, observed>>

\* didAddFriend, with the text typed before.
Search(u, x) ==
  /\ app[u].page = "add"
  /\ app[u].enabled
  /\ Ready(u)
  /\ <<u, x>> \in MaySearch \/ x \in OtherTexts
  /\ app' = [app EXCEPT ![u].text = x, ![u].submit = FALSE]
  /\ Sends(u, <<Call("find")>>)
  /\ UNCHANGED <<database, observed>>

\* The text field takes input all the time.
EditText(u, x) ==
  /\ ~Careful
  /\ app[u].page = "add"
  /\ Ready(u)
  /\ <<u, x>> \in MaySearch \/ x \in OtherTexts
  /\ app' = [app EXCEPT ![u].text = x]
  /\ UNCHANGED <<database, queue, observed>>

\* The callback that looks for the text among the users: it finds the name
\* whatever its capitals, then traps on reading it with them.
Find(u) ==
  /\ Next1(u, "find")
  /\ \/ /\ app[u].text \in Users
        /\ app' = [app EXCEPT ![u].submit = FALSE, ![u].flag = TRUE]
        /\ Makes(u, <<[Call("checkFriends") EXCEPT !.who = app[u].text],
                      Call("checkRequests")>>)
     \/ /\ app[u].text = "unknown"
        /\ app' = [app EXCEPT ![u].submit = FALSE]
        /\ Makes(u, <<>>)
     \/ /\ app[u].text = "capitals"
        /\ Restart(u)
  /\ UNCHANGED <<database, observed>>

\* Mutant: friends are not looked for.
KnowsOnlySelf(u, found) == found = u

\* "Have been added friend!" or "Cannot add your self!"
Knows(u, found) == app[u].text \in Range(friends[u]) \/ found = u

CheckFriends(u) ==
  /\ Next1(u, "checkFriends")
  /\ app' = IF Knows(u, Head(queue[u]).who)
              THEN [app EXCEPT ![u].submit = FALSE, ![u].flag = FALSE] ELSE app
  /\ Makes(u, <<>>)
  /\ UNCHANGED <<database, observed>>

\* "Have been added friend! Check your request!"
WasAskedBy(u) == app[u].text \in Range(request[u])

CheckRequests(u) ==
  /\ Next1(u, "checkRequests")
  /\ app' = [app EXCEPT ![u].submit = IF WasAskedBy(u) THEN FALSE
                                      ELSE app[u].flag \/ app[u].submit]
  /\ Makes(u, <<>>)
  /\ UNCHANGED <<database, observed>>

\* Mutant: only the request is sent.
AsksOnly == <<Call("ask")>>

\* The two reads of didSubmit.
SubmitCalls == <<Call("ask"), Call("addAsked")>>

\* didSubmit, and its "Success" alert.
Submit(u) ==
  /\ app[u].page = "add"
  /\ app[u].submit
  /\ Ready(u)
  /\ Bounded(u)
  /\ app' = [app EXCEPT ![u].alert = TRUE]
  /\ Sends(u, SubmitCalls)
  /\ UNCHANGED <<database, observed>>

\* "Done".
Done(u) ==
  /\ app[u].alert
  /\ app' = [app EXCEPT ![u].alert = FALSE, ![u].submit = FALSE]
  /\ UNCHANGED <<database, queue, observed>>

\* The name in the text field is asked, by a longer list of requests.
Ask(u) ==
  /\ Next1(u, "ask")
  /\ LET x == app[u].text IN
     \/ /\ x \in Users
        /\ Makes(u, <<Put("putRequest", x, Append(request[x], u))>>)
        /\ asked' = asked \cup {<<u, x>>}
        /\ UNCHANGED app
     \/ /\ x \notin Users
        /\ Restart(u)
        /\ UNCHANGED asked
  /\ UNCHANGED <<database, answered>>

\* Mutant: the list starts anew with the new friend.
FriendsAnew(u, x) == <<x>>

\* The list of friends of u with one more.
FriendsWith(u, x) == Append(friends[u], x)

\* The name in the text field becomes a friend.
AddAsked(u) ==
  /\ Next1(u, "addAsked")
  /\ Makes(u, <<Put("putFriends", u, FriendsWith(u, app[u].text))>>)
  /\ UNCHANGED <<database, app, observed>>

-----------------------------------------------------------------------------
(* RequestViewController.                                                  *)

\* viewDidAppear: the person's own user name has come.
LoadName(u) ==
  /\ Next1(u, "loadName")
  /\ Makes(u, <<Call("loadList")>>)
  /\ UNCHANGED <<database, app, observed>>

\* loadList: the requests, one row for each.
LoadList(u) ==
  /\ Next1(u, "loadList")
  /\ app' = [app EXCEPT ![u].rows = request[u]]
  /\ Makes(u, <<Call("loadNames")>>)
  /\ UNCHANGED <<database, observed>>

\* loadFriend: names for the rows, one for each user among them, so that a
\* user with two requests leaves a row without a name, and the table traps.
LoadNames(u) ==
  /\ Next1(u, "loadNames")
  /\ IF IsInjective(app[u].rows)
       THEN /\ app' = [app EXCEPT ![u].enabled = TRUE]
            /\ Makes(u, <<>>)
       ELSE Restart(u)
  /\ UNCHANGED <<database, observed>>

\* addReq, on row i.
AddReq(u, i) ==
  /\ app[u].page = "request"
  /\ app[u].enabled
  /\ Ready(u)
  /\ Bounded(u)
  /\ app' = [app EXCEPT ![u].enabled = FALSE]
  /\ Sends(u, <<[Call("takeRequest") EXCEPT !.row = i],
                [Call("takeFriend") EXCEPT !.row = i]>>)
  /\ UNCHANGED <<database, observed>>

\* removeReq, on row i.
RemoveReq(u, i) ==
  /\ app[u].page = "request"
  /\ app[u].enabled
  /\ Ready(u)
  /\ app' = [app EXCEPT ![u].enabled = FALSE]
  /\ Sends(u, <<[Call("dropRequest") EXCEPT !.row = i]>>)
  /\ UNCHANGED <<database, observed>>

Reloads(u) == IF app[u].page = "request" THEN <<Call("loadList")>> ELSE <<>>

\* A request is taken off the list, or the row's request is gone: a trap.
TakesOff(u, i, reloads) ==
  LET v == app[u].rows[i] IN
  \/ /\ v \in Range(request[u])
     /\ Makes(u, <<Put("putRequest", u, RemoveFirst(request[u], v))>> \o reloads)
     /\ answered' = answered \cup {<<v, u>>}
     /\ UNCHANGED app
  \/ /\ v \notin Range(request[u])
     /\ Restart(u)
     /\ UNCHANGED answered

TakeRequest(u) ==
  /\ Next1(u, "takeRequest")
  /\ TakesOff(u, Head(queue[u]).row, <<>>)
  /\ UNCHANGED <<database, asked>>

\* Mutant: the list is not loaded again.
NoReloads(u) == <<>>

\* What an answered request ends with: the list is loaded again.
ReloadsAfterTaking(u) == Reloads(u)

TakeFriend(u) ==
  /\ Next1(u, "takeFriend")
  /\ Makes(u, <<Put("putFriends", u,
                    FriendsWith(u, app[u].rows[Head(queue[u]).row]))>>
               \o ReloadsAfterTaking(u))
  /\ UNCHANGED <<database, app, observed>>

DropRequest(u) ==
  /\ Next1(u, "dropRequest")
  /\ TakesOff(u, Head(queue[u]).row, Reloads(u))
  /\ UNCHANGED <<database, asked>>

-----------------------------------------------------------------------------
(* The database, and the end of an app.                                    *)

PutRequest(u) ==
  /\ Next1(u, "putRequest")
  /\ request' = [request EXCEPT ![Head(queue[u]).who] = Head(queue[u]).list]
  /\ Makes(u, <<>>)
  /\ UNCHANGED <<friends, app, observed>>

PutFriends(u) ==
  /\ Next1(u, "putFriends")
  /\ friends' = [friends EXCEPT ![Head(queue[u]).who] = Head(queue[u]).list]
  /\ Makes(u, <<>>)
  /\ UNCHANGED <<request, app, observed>>

\* The app is stopped: calls that were not sent are lost.
Die(u) ==
  /\ u \in MayDie
  /\ Restart(u)
  /\ UNCHANGED <<database, observed>>

Person(u) ==
  \/ \E kind \in TapKinds : Tap(u, kind)
  \/ Back(u)
  \/ \E x \in Texts : Search(u, x) \/ EditText(u, x)
  \/ Submit(u) \/ Done(u)
  \/ \E i \in DOMAIN app[u].rows : AddReq(u, i) \/ RemoveReq(u, i)

Serve(u) ==
  \/ OpenAdd(u) \/ LoadAdd(u) \/ Find(u) \/ CheckFriends(u) \/ CheckRequests(u)
  \/ Ask(u) \/ AddAsked(u)
  \/ OpenRequests(u) \/ LoadName(u) \/ LoadList(u) \/ LoadNames(u)
  \/ TakeRequest(u) \/ TakeFriend(u) \/ DropRequest(u)
  \/ PutRequest(u) \/ PutFriends(u)

Next == \E u \in Users : Person(u) \/ Serve(u) \/ Die(u)

Init ==
  /\ request = [u \in Users |-> <<>>]
  /\ friends = [u \in Users |-> <<>>]
  /\ queue = [u \in Users |-> <<>>]
  /\ app = [u \in Users |-> Home]
  /\ asked = {}
  /\ answered = {}

Spec == Init /\ [][Next]_vars

\* The database deals with every call, and its callback runs.
LiveSpec == Spec /\ \A u \in Users : WF_vars(Serve(u))

-----------------------------------------------------------------------------
(* Properties.                                                             *)

\* Every variable has a value of its type, and a call knows what it is about.
TypeOK ==
  /\ request \in [Users -> Seq(Users)]
  /\ friends \in [Users -> Seq(Texts)]
  /\ queue \in [Users -> Seq(Calls)]
  /\ app \in [Users -> [page : {"messenger", "add", "request"},
                        enabled : BOOLEAN, text : Texts \cup {None},
                        submit : BOOLEAN, flag : BOOLEAN, alert : BOOLEAN,
                        rows : Seq(Users)]]
  /\ \A u \in Users : \A i \in DOMAIN queue[u] :
       LET call == queue[u][i] IN
       /\ call.kind \in {"takeRequest", "takeFriend", "dropRequest"}
            => call.row \in DOMAIN app[u].rows
       /\ call.kind \in PutKinds => call.who \in Users
       /\ call.kind = "putRequest" => call.list \in Seq(Users)
       /\ call.kind = "addAsked" => app[u].text # None
  /\ asked \subseteq Users \X Users
  /\ answered \subseteq Users \X Users

\* A list of friends is only ever made longer: no whole-list write of a
\* person's own device throws away what an earlier one added.
FriendsOnlyGrow ==
  [][\A u \in Users : IsPrefix(friends[u], friends'[u])]_friends

\* Nobody is in a list of requests twice.  A second entry would leave the
\* request page with a row it has no name for, and trap every time.
RequestsAreDistinct == \A u \in Users : IsInjective(request[u])

\* v is about to be put into u's list of friends by a call under way.
Adding(u, v) ==
  \E i \in DOMAIN queue[u] :
    LET call == queue[u][i] IN
    \/ call.kind = "addAsked" /\ app[u].text = v
    \/ call.kind = "takeFriend" /\ app[u].rows[call.row] = v
    \/ call.kind = "putFriends" /\ v \in Range(call.list)

\* Who is asked is a friend of the one who asks, at once or when the second
\* half of didSubmit is done: however the lists of requests are overwritten,
\* a request is never shown that accepting could not make mutual.
RequestsAreBacked ==
  \A u, v \in Users : v \in Range(request[u]) =>
                        u \in Range(friends[v]) \/ Adding(v, u)

\* When only one of two people has the other as a friend, it is the one who
\* asked: accepting always makes it mutual.
OnlyAskersAreOneSided ==
  \A u, v \in Users :
    v \in Range(friends[u]) /\ u \notin Range(friends[v]) /\ ~Adding(v, u)
      => <<u, v>> \in asked

\* A page that waits for its data gets it, and takes touches again.
PagesWakeUp ==
  \A u \in Users : (app[u].page # "messenger" /\ ~app[u].enabled)
                     ~> (app[u].page = "messenger" \/ app[u].enabled)

-----------------------------------------------------------------------------
(* What the pages say, and do not keep: no run checks these.               *)

\* "Add ... Success!": when nothing is under way, every request that was sent
\* has been dealt with or is in the list of the one it was sent to.
SuccessIsSuccess ==
  (\A u \in Users : queue[u] = <<>>) =>
     \A pair \in asked \ answered : pair[1] \in Range(request[pair[2]])

\* "Have been added friend! Check your request!": nobody asks a friend, or one
\* whose request is there to accept, so nobody becomes a friend twice.
FriendsAreDistinct == \A u \in Users : IsInjective(friends[u])
=============================================================================
