----------------------------- MODULE Accounts ------------------------------
(***************************************************************************)
(* Accounts, user names and profiles: signing up, setting a user name      *)
(* later, updating the profile, and signing out.                           *)
(*                                                                         *)
(* What belongs together is kept in four places: the account of Firebase   *)
(* Auth; username/<uid>; user/<name>; and friends/<name>, the lists that   *)
(* module Friends is about.  A name is taken by looking for it in user/    *)
(* and writing three places afterwards; a profile is updated in Auth and   *)
(* then, by two read-modify-writes, in username/ and user/.                *)
(*                                                                         *)
(* Each person has one device, one account, and one database connection    *)
(* whose calls keep their order.  Calls to Auth go another way.  Nobody    *)
(* touches a page before what was tapped there is answered; what a page    *)
(* loads by itself is not waited for, for nothing shows that it does.      *)
(***************************************************************************)
EXTENDS Integers, Sequences, Selection

CONSTANTS
  People, Names, Displays,
  Wanted,            \* a bound: <<p, n>> when p may take the name n
  MayDie             \* whose app may be stopped with calls pending

ASSUME WantedNames == Wanted \subseteq People \X Names
ASSUME SomeMayDie == MayDie \subseteq People
ASSUME NoneIsNothing == "none" \notin People \cup Names \cup Displays

VARIABLES
  auth,       \* the account of p: display name, or NoAccount
  username,   \* username/<uid of p>: name and display name, or Unset
  user,       \* user/<n>: owner and display name, or Free
  lists,      \* friends/<n>: "missing", "empty", or "used" by others
  signedIn,   \* Auth.auth().currentUser # nil
  queue,      \* the database calls of p not dealt with
  call,       \* the call to Auth p waits for
  app         \* what p's screen holds

vars == <<auth, username, user, lists, signedIn, queue, call, app>>
database == <<username, user, lists>>

-----------------------------------------------------------------------------
None == "none"
NoAccount == [there |-> FALSE, display |-> None]
Unset == [name |-> None, display |-> None]
Free == [uid |-> None, display |-> None]

Empty == [page |-> "out", name |-> None, display |-> None, picked |-> FALSE,
          uploading |-> FALSE, child |-> None, alert |-> FALSE, mayName |-> FALSE,
          ended |-> FALSE]

Writes == {"putUser", "putUsername", "putLists"}
Reads == {"checkNew", "checkSetup", "showName", "openUpdate", "loadChild",
          "editUsername", "editUser"}

Call(kind) == [kind |-> kind, at |-> None, value |-> Free]
Sends(p, calls) == queue' = [queue EXCEPT ![p] = @ \o calls]
First(p, kind) == queue[p] # <<>> /\ Head(queue[p]).kind = kind
Makes(p, calls) == queue' = [queue EXCEPT ![p] = Tail(@) \o calls]

\* The app starts again, on the tabs or on the sign-in page.  Of its calls
\* only writes already sent may still be dealt with.
Restart(p) ==
  LET writes == OfKind(queue[p], Writes)
  IN  /\ app' = [app EXCEPT ![p] = [Empty EXCEPT
                   !.page = IF signedIn[p] THEN "main" ELSE "out", !.ended = TRUE]]
      /\ \E sent \in 0..Len(writes) :
            queue' = [queue EXCEPT ![p] = SubSeq(writes, 1, sent)]
      /\ call' = [call EXCEPT ![p] = None]

\* A page is touched: it is on top, and what was tapped is answered.
On(p, page) ==
  /\ app[p].page = page
  /\ ~app[p].alert
  /\ call[p] = None
  /\ \A i \in 1..Len(queue[p]) :
       queue[p][i].kind \notin {"checkNew", "checkSetup", "openUpdate"}

\* What a page that is gone has asked for is shown nowhere.
Forgets(p, kind) ==
  queue' = [queue EXCEPT ![p] = OfKind(@, (Writes \cup Reads) \ {kind})]

\* Another page comes up, and what the one before it held is gone.
Goes(p, page) ==
  app' = [app EXCEPT ![p] = [Empty EXCEPT
           !.page = page, !.mayName = app[p].mayName /\ page # "out",
           !.ended = app[p].ended]]

-----------------------------------------------------------------------------
(* Taking a name.                                                          *)

\* Mutant: username/<uid> is written first.
UsernameFirst(p, n, display) ==
  <<[Call("putUsername") EXCEPT !.at = n, !.value = [uid |-> p, display |-> display]],
    [Call("putUser") EXCEPT !.at = n, !.value = [uid |-> p, display |-> display]],
    [Call("putLists") EXCEPT !.at = n]>>

\* Mutant: the lists are forgotten.
NameWithoutLists(p, n, display) ==
  <<[Call("putUser") EXCEPT !.at = n, !.value = [uid |-> p, display |-> display]],
    [Call("putUsername") EXCEPT !.at = n, !.value = [uid |-> p, display |-> display]]>>

\* The three writes: user/<n>, username/<uid>, friends/<n>.
TakesName(p, n, display) ==
  LET record == [uid |-> p, display |-> display] IN
  <<[Call("putUser") EXCEPT !.at = n, !.value = record],
    [Call("putUsername") EXCEPT !.at = n, !.value = record],
    [Call("putLists") EXCEPT !.at = n]>>

\* Mutant: names are given without looking.
AlwaysFree(n) == TRUE

\* snapshot.hasChild(name) is false.
IsFree(n) == user[n] = Free

OpenSignUp(p) ==
  /\ On(p, "out")
  /\ Goes(p, "signUp")
  /\ UNCHANGED <<auth, database, signedIn, queue, call>>

DismissSignUp(p) ==
  /\ On(p, "signUp")
  /\ Goes(p, "out")
  /\ UNCHANGED <<auth, database, signedIn, queue, call>>

\* didTapSignUp, with a password and a name it accepts.
TapSignUp(p, n, d) ==
  /\ On(p, "signUp")
  /\ app' = [app EXCEPT ![p].name = n, ![p].display = d]
  /\ Sends(p, <<Call("checkNew")>>)
  /\ UNCHANGED <<auth, database, signedIn, call>>

CheckNew(p) ==
  /\ First(p, "checkNew")
  /\ call' = IF IsFree(app[p].name) THEN [call EXCEPT ![p] = "create"] ELSE call
  /\ Makes(p, <<>>)
  /\ UNCHANGED <<auth, database, signedIn, app>>

\* createUser: a new account, and the person is signed in; or it fails, as it
\* must when the address has an account.
CreateUser(p) ==
  /\ call[p] = "create"
  /\ \/ /\ ~auth[p].there
        /\ call' = [call EXCEPT ![p] = "commitNew"]
        /\ auth' = [auth EXCEPT ![p].there = TRUE]
        /\ signedIn' = [signedIn EXCEPT ![p] = TRUE]
     \/ /\ call' = [call EXCEPT ![p] = None]
        /\ UNCHANGED <<auth, signedIn>>
  /\ UNCHANGED <<database, queue, app>>

\* Mutant: the display name the account had before.
DisplayBefore(p) == auth[p].display

\* user!.displayName, after the change was committed.
DisplayAfter(p) == app[p].display

\* commitChanges: the name is taken with what the fields say now, or the
\* account is left without a name.
CommitNew(p) ==
  /\ call[p] = "commitNew"
  /\ call' = [call EXCEPT ![p] = None]
  /\ \/ /\ auth' = [auth EXCEPT ![p].display = app[p].display]
        /\ Sends(p, TakesName(p, app[p].name, DisplayAfter(p)))
        /\ app' = [app EXCEPT ![p].alert = TRUE]
     \/ UNCHANGED <<auth, queue, app>>
  /\ UNCHANGED <<database, signedIn>>

\* The profile page appears and looks for a name; it finds none: the name's
\* button works from then on, and nothing switches it off.  (A bound: it does
\* not appear again before that is answered.)
OpenProfile(p) ==
  /\ On(p, "main")
  /\ \A i \in 1..Len(queue[p]) : queue[p][i].kind # "showName"
  /\ Sends(p, <<Call("showName")>>)
  /\ UNCHANGED <<auth, database, signedIn, call, app>>

ShowName(p) ==
  /\ First(p, "showName")
  /\ app' = IF username[p] = Unset THEN [app EXCEPT ![p].mayName = TRUE] ELSE app
  /\ Makes(p, <<>>)
  /\ UNCHANGED <<auth, database, signedIn, call>>

\* didTapUsername.
OpenSetup(p) ==
  /\ On(p, "main")
  /\ app[p].mayName
  /\ Goes(p, "setup")
  /\ UNCHANGED <<auth, database, signedIn, queue, call>>

DismissSetup(p) ==
  /\ On(p, "setup")
  /\ Goes(p, "main")
  /\ UNCHANGED <<auth, database, signedIn, queue, call>>

\* setupUsername.
TapSetup(p, n) ==
  /\ On(p, "setup")
  /\ app' = [app EXCEPT ![p].name = n]
  /\ Sends(p, <<Call("checkSetup")>>)
  /\ UNCHANGED <<auth, database, signedIn, call>>

CheckSetup(p) ==
  /\ First(p, "checkSetup")
  /\ \/ /\ IsFree(app[p].name)
        /\ Makes(p, TakesName(p, app[p].name, auth[p].display))
        /\ app' = [app EXCEPT ![p].alert = TRUE]
     \/ /\ ~IsFree(app[p].name)
        /\ Makes(p, <<>>)
        /\ UNCHANGED app
  /\ UNCHANGED <<auth, database, signedIn, call>>

-----------------------------------------------------------------------------
(* Signing in and out.                                                     *)

SignIn(p) ==
  /\ On(p, "out")
  /\ auth[p].there
  /\ signedIn' = [signedIn EXCEPT ![p] = TRUE]
  /\ Goes(p, "main")
  /\ UNCHANGED <<auth, database, queue, call>>

\* Google or Facebook: the account is made on the way, with no user name.
SignInElsewhere(p, d) ==
  /\ On(p, "out")
  /\ ~auth[p].there
  /\ auth' = [auth EXCEPT ![p].there = TRUE, ![p].display = d]
  /\ signedIn' = [signedIn EXCEPT ![p] = TRUE]
  /\ Goes(p, "main")
  /\ UNCHANGED <<database, queue, call>>

\* didLogout: the tabs are replaced by the sign-in page.
SignOut(p) ==
  /\ On(p, "main")
  /\ signedIn' = [signedIn EXCEPT ![p] = FALSE]
  /\ Goes(p, "out")
  /\ Forgets(p, "showName")
  /\ UNCHANGED <<auth, database, call>>

-----------------------------------------------------------------------------
(* UpdateProfileViewController.                                            *)

\* "Profile" in the table: only with a user name.
TapProfile(p) ==
  /\ On(p, "main")
  /\ Sends(p, <<Call("openUpdate")>>)
  /\ UNCHANGED <<auth, database, signedIn, call, app>>


\* snapshot.hasChild(user!).
HasName(p) == username[p] # Unset

\* The profile page, or the offer to set a name.
OpenUpdate(p) ==
  /\ First(p, "openUpdate")
  /\ \/ /\ HasName(p)
        /\ Goes(p, "update")
        /\ Makes(p, <<Call("loadChild")>>)
     \/ /\ ~HasName(p)
        /\ app' = [app EXCEPT ![p].mayName = TRUE]
        /\ Makes(p, <<>>)
  /\ UNCHANGED <<auth, database, signedIn, call>>

LoadChild(p) ==
  /\ First(p, "loadChild")
  /\ app' = [app EXCEPT ![p].child = username[p].name]
  /\ Makes(p, <<>>)
  /\ UNCHANGED <<auth, database, signedIn, call>>

\* A picture is chosen; its upload takes its time.  (Where the picture is kept
\* is left out: it matters here only that there is a new one.)
ChoosePicture(p) ==
  /\ On(p, "update")
  /\ app' = [app EXCEPT ![p].uploading = TRUE]
  /\ UNCHANGED <<auth, database, signedIn, queue, call>>

\* The upload ends, and the picture is committed to the account if there is
\* still somebody signed in; either may fail.
Uploaded(p) ==
  /\ app[p].uploading
  /\ \E done \in BOOLEAN :
       app' = [app EXCEPT ![p].uploading = FALSE, ![p].picked = @ \/ (done /\ signedIn[p])]
  /\ UNCHANGED <<auth, database, signedIn, queue, call>>

\* didTapUpdate, when there is something new.
TapUpdate(p, d) ==
  /\ On(p, "update")
  /\ d # auth[p].display \/ app[p].picked
  /\ app' = [app EXCEPT ![p].display = d]
  /\ call' = [call EXCEPT ![p] = "commitUpdate"]
  /\ UNCHANGED <<auth, database, signedIn, queue>>

\* What the two callbacks are to write.
Changes(p) == [Free EXCEPT !.display = app[p].display]

\* Mutant: user/<name> is forgotten.
UpdatesUsername(p) == <<[Call("editUsername") EXCEPT !.value = Changes(p)]>>

\* The two reads that follow a committed change; the second is of the name
\* that the page has loaded.
UpdateCalls(p) ==
  <<[Call("editUsername") EXCEPT !.value = Changes(p)],
    [Call("editUser") EXCEPT !.at = app[p].child, !.value = Changes(p)]>>

\* Mutant: child("") is taken, and all users are read for the one.
UpdateReadsAll(p) ==
  /\ app[p].child = None
  /\ Sends(p, UpdateCalls(p))
  /\ signedIn' = [signedIn EXCEPT ![p] = FALSE]
  /\ app' = [app EXCEPT ![p].alert = TRUE]
  /\ call' = [call EXCEPT ![p] = None]
\* child("") throws: the account has been changed, nothing is written, and the
\* person is still signed in when the app starts again.
UpdateTraps(p) == app[p].child = None /\ Restart(p) /\ UNCHANGED signedIn

\* commitChanges: the two reads are sent, and the person is signed out; unless
\* the page has not loaded the name, or the change has failed.
CommitUpdate(p) ==
  /\ call[p] = "commitUpdate"
  /\ \/ /\ app[p].child # None
        /\ auth' = [auth EXCEPT ![p].display = app[p].display]
        /\ Sends(p, UpdateCalls(p))
        /\ signedIn' = [signedIn EXCEPT ![p] = FALSE]
        /\ app' = [app EXCEPT ![p].alert = TRUE]
        /\ call' = [call EXCEPT ![p] = None]
     \/ /\ auth' = [auth EXCEPT ![p].display = app[p].display]
        /\ UpdateTraps(p)
     \/ /\ call' = [call EXCEPT ![p] = None]
        /\ UNCHANGED <<auth, queue, signedIn, app>>
  /\ UNCHANGED database

\* The callbacks of the two reads, which change what they have read.
EditUsername(p) ==
  /\ First(p, "editUsername")
  /\ Makes(p, <<[Call("putUsername") EXCEPT
                   !.at = username[p].name, !.value = Head(queue[p]).value]>>)
  /\ UNCHANGED <<auth, database, signedIn, call, app>>

EditUser(p) ==
  LET n == Head(queue[p]).at
  IN  /\ First(p, "editUser")
      /\ Makes(p, <<[Call("putUser") EXCEPT !.at = n, !.value =
                       [user[n] EXCEPT !.display = Head(queue[p]).value.display]]>>)
      /\ UNCHANGED <<auth, database, signedIn, call, app>>

BackFromUpdate(p) ==
  /\ On(p, "update")
  /\ Goes(p, "main")
  /\ Forgets(p, "loadChild")
  /\ UNCHANGED <<auth, database, signedIn, call>>

\* "Done": after a sign-up the tabs, after a name the page below, after an
\* update the sign-in page.
Done(p) ==
  /\ app[p].alert
  /\ Goes(p, IF app[p].page = "update" THEN "out" ELSE "main")
  /\ UNCHANGED <<auth, database, signedIn, queue, call>>

-----------------------------------------------------------------------------
(* The database, other people, and the end of an app.                      *)

PutUser(p) ==
  /\ First(p, "putUser")
  /\ user' = [user EXCEPT ![Head(queue[p]).at] = Head(queue[p]).value]
  /\ Makes(p, <<>>)
  /\ UNCHANGED <<auth, username, lists, signedIn, call, app>>

PutUsername(p) ==
  /\ First(p, "putUsername")
  /\ username' = [username EXCEPT ![p] = [name |-> Head(queue[p]).at,
                                          display |-> Head(queue[p]).value.display]]
  /\ Makes(p, <<>>)
  /\ UNCHANGED <<auth, user, lists, signedIn, call, app>>

PutLists(p) ==
  /\ First(p, "putLists")
  /\ lists' = [lists EXCEPT ![Head(queue[p]).at] = "empty"]
  /\ Makes(p, <<>>)
  /\ UNCHANGED <<auth, username, user, signedIn, call, app>>

\* Requests and friends come into a user's lists (module Friends).
UseLists(n) ==
  /\ lists[n] = "empty"
  /\ lists' = [lists EXCEPT ![n] = "used"]
  /\ UNCHANGED <<auth, username, user, signedIn, queue, call, app>>

Die(p) ==
  /\ p \in MayDie
  /\ Restart(p)
  /\ UNCHANGED <<auth, database, signedIn>>

Person(p) ==
  \/ OpenSignUp(p) \/ DismissSignUp(p)
  \/ \E n \in Names, d \in Displays : <<p, n>> \in Wanted /\ TapSignUp(p, n, d)
  \/ \E n \in Names : <<p, n>> \in Wanted /\ TapSetup(p, n)
  \/ OpenProfile(p) \/ OpenSetup(p) \/ DismissSetup(p)
  \/ SignIn(p) \/ (\E d \in Displays : SignInElsewhere(p, d)) \/ SignOut(p)
  \/ TapProfile(p) \/ ChoosePicture(p) \/ BackFromUpdate(p)
  \/ \E d \in Displays : TapUpdate(p, d)
  \/ Done(p)

Serve(p) ==
  \/ CheckNew(p) \/ CheckSetup(p) \/ ShowName(p)
  \/ OpenUpdate(p) \/ LoadChild(p) \/ EditUsername(p) \/ EditUser(p)
  \/ PutUser(p) \/ PutUsername(p) \/ PutLists(p)

Auth(p) == CreateUser(p) \/ CommitNew(p) \/ CommitUpdate(p) \/ Uploaded(p)

Next == \/ \E p \in People : Person(p) \/ Serve(p) \/ Auth(p) \/ Die(p)
        \/ \E n \in Names : UseLists(n)

Init ==
  /\ auth = [p \in People |-> NoAccount]
  /\ username = [p \in People |-> Unset]
  /\ user = [n \in Names |-> Free]
  /\ lists = [n \in Names |-> "missing"]
  /\ signedIn = [p \in People |-> FALSE]
  /\ queue = [p \in People |-> <<>>]
  /\ call = [p \in People |-> None]
  /\ app = [p \in People |-> Empty]

Spec == Init /\ [][Next]_vars

\* The database deals with the calls it was sent.
LiveSpec == Spec /\ \A p \in People : WF_vars(Serve(p))

-----------------------------------------------------------------------------
(* Properties.                                                             *)

Records == [uid : People \cup {None}, display : Displays \cup {None}]

Calls == [kind : Writes \cup {"editUser"}, at : Names, value : Records]
         \cup [kind : Reads \ {"editUser"}, at : {None}, value : Records]

\* Every variable has a value of its type; in particular every write names
\* the place it goes to, and so does the read of a user that leads to one.  A
\* user may have no display name: that of an account whose sign-up was not
\* completed is nil.
TypeOK ==
  /\ auth \in [People -> [there : BOOLEAN, display : Displays \cup {None}]]
  /\ username \in [People -> [name : Names, display : Displays \cup {None}] \cup {Unset}]
  /\ user \in [Names -> [uid : People, display : Displays \cup {None}] \cup {Free}]
  /\ lists \in [Names -> {"missing", "empty", "used"}]
  /\ signedIn \in [People -> BOOLEAN]
  /\ \A p \in People : queue[p] \in Seq(Calls)
  /\ call \in [People -> {None, "create", "commitNew", "commitUpdate"}]
  /\ app \in [People -> [page : {"out", "signUp", "main", "setup", "update"},
                         name : Names \cup {None}, display : Displays \cup {None},
                         picked : BOOLEAN, uploading : BOOLEAN,
                         child : Names \cup {None}, alert : BOOLEAN,
                         mayName : BOOLEAN, ended : BOOLEAN]]

\* The name somebody has leads back to that person: wherever the three writes
\* of taking a name are cut off, a page that finds the name finds the user.
NamesLeadBack ==
  \A p \in People : HasName(p) => user[username[p].name].uid = p

\* Lists that others have put requests or friends into are not emptied by
\* somebody taking the name again.
ListsAreNotEmptied ==
  [][\A n \in Names : lists[n] = "used" => lists'[n] = "used"]_lists

\* When nothing is under way, the display name is the same in the account,
\* under the uid and under the name, though the writes follow the sign-out;
\* except that of somebody whose app has ended in between.
DisplaysAgree ==
  \A p \in People :
    HasName(p) /\ queue[p] = <<>> /\ call[p] = None /\ ~app[p].ended =>
      /\ username[p].display = auth[p].display
      /\ user[username[p].name].display = auth[p].display

\* A user others can find gets the lists that asking it as a friend needs,
\* unless the app that was making it has ended.
UsersGetLists ==
  \A n \in Names : (user[n] # Free) ~>
    (lists[n] # "missing" \/ \E p \in People : user[n].uid = p /\ app[p].ended)

\* "Username does exists!": nobody takes a name that somebody has.
NamesStayTaken ==
  [][\A n \in Names : user[n] # Free => user'[n].uid = user[n].uid]_user
=============================================================================
