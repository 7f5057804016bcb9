-------------------------------- MODULE Chat --------------------------------
(***************************************************************************)
(* A conversation, as ChatViewController shows it on one device.           *)
(*                                                                         *)
(* All messages of the app are in one list, chats, by keys that grow with  *)
(* the time they were made at.  The page observes the last Window of them, *)
(* whoever they are from, and appends those of its own conversation as     *)
(* they come into the window.  What is sent from the device comes into the *)
(* window at once, and once more from the database, where it counts as     *)
(* known (FViewProcessor, FLimitedFilter).                                 *)
(*                                                                         *)
(* The link is that of Connection: requests and answers in order; when it  *)
(* is lost, answers are lost, what was sent may still arrive, and the next *)
(* connection asks for the window again and then repeats the writes.       *)
(***************************************************************************)
EXTENDS Integers, Sequences, SequencesExt, FiniteSets, Arrangement

CONSTANTS
  Others,       \* who else writes: "friend", and people this page is not about
  Window,       \* queryLimited(toLast: 10)
  MaxKey,       \* bounds: keys,
  MaxLosses,    \* losses of the connection,
  MaxVisits     \* and how often the page is opened

ASSUME SomebodyElse == "friend" \in Others /\ "me" \notin Others
ASSUME Bounds == Window \in Nat \ {0} /\ {MaxKey, MaxLosses, MaxVisits} \subseteq Nat

VARIABLES
  chats,        \* chats in the database: keys of messages
  sender,       \* who has made the message with a key, or "none"
  pending,      \* the device's messages that are not acknowledged
  server,       \* what the device knows to be in the database's window
  observed,     \* the window is observed; the page never stops it
  open,         \* the page is on the screen
  messages,     \* messages, by key
  up,           \* the connection is up
  watched,      \* the database sends changes of the window
  toServer, toClient,
  losses, visits   \* of the bounds

device == <<pending, server>>
screen == <<open, messages, observed, visits>>
link == <<up, watched, toServer, toClient, losses>>
vars == <<chats, sender, device, screen, link>>

Keys == 1..MaxKey
People == Others \cup {"me"}

\* The messages between the two, as the page tells them apart.
Conversation == {k \in Keys : sender[k] \in {"me", "friend"}}

Newer(k, S) == {j \in S : j > k}

\* The last Window of a set of messages.
LastOf(S) == {k \in S : Cardinality(Newer(k, S)) < Window}

\* What the observer sees: FLimitedFilter, over what the device wrote itself.
ViewOf(known, own) == LastOf(known \cup own)
View == ViewOf(server, pending)

Earlier == [k \in Keys |-> 1..(k - 1)]

InOrder(S) == Arranged(S, Earlier)

\* Mutant: all that is in the window is appended.
AppendsAll(new) == InOrder(new \cap Conversation)

\* What childAdded is called for, and appends, when the view becomes new.
Added(new) == InOrder((new \ View) \cap Conversation)

\* The view changes, with the page's events if it is open.
Sees(known, own) ==
  /\ server' = known /\ pending' = own
  /\ messages' = IF open THEN messages \o Added(ViewOf(known, own)) ELSE messages
  /\ UNCHANGED <<open, observed, visits>>

Request(type, key) == [type |-> type, key |-> key]
Event(type, keys) == [type |-> type, keys |-> keys]

-----------------------------------------------------------------------------
(* The page.                                                               *)

\* Mutant: the page waits for what comes next.
StartsEmpty == <<>>

\* A new observer is called for all that is in the view.
StartsWith == InOrder(View \cap Conversation)

\* viewDidLoad
Open ==
  /\ ~open /\ visits < MaxVisits
  /\ open' = TRUE /\ visits' = visits + 1
  /\ messages' = StartsWith
  /\ observed' = TRUE
  /\ toServer' = IF up /\ ~observed THEN Append(toServer, Request("listen", 0)) ELSE toServer
  /\ UNCHANGED <<chats, sender, device, up, watched, toClient, losses>>

\* The observer holds the page weakly.
Close ==
  /\ open
  /\ open' = FALSE /\ messages' = <<>>
  /\ UNCHANGED <<chats, sender, device, observed, visits, link>>

\* A key that somebody's device makes: later than its last one, but not than
\* everybody's, for the message may have waited.
NewKey(p, k) == sender[k] = "none" /\ \A j \in Keys : sender[j] = p => j < k

\* didPressSend
Send(k) ==
  /\ open /\ NewKey("me", k)
  /\ sender' = [sender EXCEPT ![k] = "me"]
  /\ server' = server /\ pending' = pending \cup {k}
  /\ messages' = messages \o (IF k \in ViewOf(server, pending') THEN <<k>> ELSE <<>>)
  /\ toServer' = IF up THEN Append(toServer, Request("put", k)) ELSE toServer
  /\ UNCHANGED <<chats, open, observed, visits, up, watched, toClient, losses>>

-----------------------------------------------------------------------------
(* The database and the link.                                              *)

\* A message comes into the database; a device that watches is told if it is in
\* the window.
Enters(k) ==
  /\ chats' = chats \cup {k}
  /\ toClient' = IF watched /\ k \in LastOf(chats') /\ k \notin chats
                   THEN Append(toClient, Event("data", {k})) ELSE toClient

\* A message of somebody else arrives.
Arrives(p, k) ==
  /\ NewKey(p, k)
  /\ sender' = [sender EXCEPT ![k] = p]
  /\ Enters(k)
  /\ UNCHANGED <<device, screen, up, watched, toServer, losses>>

ServeListen ==
  /\ toServer # <<>> /\ Head(toServer).type = "listen"
  /\ toServer' = Tail(toServer)
  /\ watched' = up
  /\ toClient' = IF up THEN Append(toClient, Event("window", LastOf(chats))) ELSE toClient
  /\ UNCHANGED <<chats, sender, device, screen, up, losses>>

ServePut ==
  /\ toServer # <<>> /\ Head(toServer).type = "put"
  /\ LET k == Head(toServer).key
         told == IF watched /\ k \in LastOf(chats \cup {k}) /\ k \notin chats
                   THEN <<Event("data", {k})>> ELSE <<>>
     IN  /\ chats' = chats \cup {k}
         /\ toClient' = IF up THEN toClient \o told \o <<Event("ack", {k})>> ELSE toClient
  /\ toServer' = Tail(toServer)
  /\ UNCHANGED <<sender, device, screen, up, watched, losses>>

\* Mutant: what moved out of the window is kept.
KnowsMore(keys) == server \cup keys

\* FLimitedFilter, over what came from the database.
KnowsWith(keys) == LastOf(server \cup keys)

\* The device hears of it.
Receive ==
  /\ toClient # <<>>
  /\ toClient' = Tail(toClient)
  /\ LET event == Head(toClient)
     IN  \/ event.type = "window" /\ Sees(event.keys, pending)
         \/ event.type = "data" /\ Sees(KnowsWith(event.keys), pending)
         \/ event.type = "ack" /\ Sees(server, pending \ event.keys)
  /\ UNCHANGED <<chats, sender, up, watched, toServer, losses>>

Lose ==
  /\ up /\ losses < MaxLosses
  /\ losses' = losses + 1
  /\ up' = FALSE /\ watched' = FALSE /\ toClient' = <<>>
  /\ UNCHANGED <<chats, sender, device, screen, toServer>>

ListensAgain == IF observed THEN <<Request("listen", 0)>> ELSE <<>>
PutsAgain == [i \in 1..Cardinality(pending) |-> Request("put", InOrder(pending)[i])]

\* Mutant: the writes first.
PutsFirst == PutsAgain \o ListensAgain

\* Mutant: the writes only.
PutsOnly == PutsAgain

\* Mutant: the listen only.
ListensOnly == ListensAgain

\* restoreState: the listen first, then the writes.
Restored == ListensAgain \o PutsAgain

Connect ==
  /\ ~up
  /\ up' = TRUE
  /\ toServer' = Restored
  /\ UNCHANGED <<chats, sender, device, screen, watched, toClient, losses>>

Init ==
  /\ chats = {} /\ sender = [k \in Keys |-> "none"]
  /\ pending = {} /\ server = {} /\ observed = FALSE
  /\ open = FALSE /\ messages = <<>>
  /\ up = FALSE /\ watched = FALSE /\ toServer = <<>> /\ toClient = <<>>
  /\ losses = 0 /\ visits = 0

Progress == ServeListen \/ ServePut \/ Receive \/ Connect

Next ==
  \/ Progress \/ Open \/ Close \/ Lose
  \/ \E k \in Keys : Send(k) \/ \E p \in Others : Arrives(p, k)

Spec == Init /\ [][Next]_vars

\* The device connects again, the database answers, and answers arrive.
FairSpec == Spec /\ WF_vars(Progress)

-----------------------------------------------------------------------------
(* Properties.                                                             *)

Requests == [type : {"listen", "put"}, key : 0..MaxKey]
Events == [type : {"window", "data", "ack"}, keys : SUBSET Keys]

TypeOK ==
  /\ chats \subseteq Keys /\ pending \subseteq Keys
  /\ server \subseteq Keys /\ Cardinality(server) <= Window
  /\ sender \in [Keys -> People \cup {"none"}]
  /\ {observed, open, up, watched} \subseteq BOOLEAN
  /\ messages \in Seq(Keys)
  /\ toServer \in Seq(Requests) /\ toClient \in Seq(Events)
  /\ losses \in 0..MaxLosses /\ visits \in 0..MaxVisits

\* A message is on the page once, though the device hears of its own twice or,
\* when a connection is lost, more often.
ShownOnce == \A i, j \in DOMAIN messages : messages[i] = messages[j] => i = j

\* The messages of the friend are in the order they were sent, whatever was
\* missed in between.
FriendInOrder ==
  \A i, j \in DOMAIN messages :
    i < j /\ sender[messages[i]] = "friend" /\ sender[messages[j]] = "friend" =>
      messages[i] < messages[j]

\* Everything of the conversation that the device sees is on the page.
WindowIsShown == open => View \cap Conversation \subseteq Range(messages)

\* What the page shows, at any time.
PageIsRight == TypeOK /\ ShownOnce /\ FriendInOrder /\ WindowIsShown

\* What was sent is not taken off the page: the view only moves on.
ViewMovesOn == [][\A k \in View \ View' : Cardinality(Newer(k, View')) >= Window]_vars

\* A message that is sent arrives in the database, and one that is there gets
\* onto the open page, unless newer ones of anybody push it out of the window
\* before, however often the connection is lost.
MessagesGetThrough ==
  \A k \in Keys :
    /\ k \in pending ~> k \in chats
    /\ open /\ k \in chats \cap Conversation ~>
         ~open \/ k \in Range(messages) \/ Cardinality(Newer(k, chats)) >= Window
=============================================================================
