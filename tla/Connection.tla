----------------------------- MODULE Connection -----------------------------
(***************************************************************************)
(* The connection that the database library keeps for a device:            *)
(* FPersistentConnection, with the retries of FIRRetryHelper and the life  *)
(* of an FConnection.  All of it runs on one queue, so that each callback  *)
(* is a step.                                                              *)
(*                                                                         *)
(* The link is a sequence of messages each way.  When it is lost, nothing  *)
(* more comes back, but the database may still take what was under way,    *)
(* until it hears of the next connection.  How long a retry waits, and     *)
(* what listens and writes are about, is left out; so are transactions,    *)
(* writes for the time of a disconnection, and purging, which the app does *)
(* not use.                                                                *)
(***************************************************************************)
EXTENDS Integers, Sequences, FiniteSets

CONSTANTS
  Queries,      \* what can be listened to
  Guarded,      \* queries that the database's rules may refuse
  MaxPuts,      \* bounds: writes made,
  MaxListens,   \* listens made,
  MaxTroubles   \* and losses, refusals, failures and interruptions

ASSUME Bounds == MaxPuts \in Nat /\ MaxListens \in Nat /\ MaxTroubles \in Nat
ASSUME GuardedQueries == IsFiniteSet(Queries) /\ Guarded \subseteq Queries

VARIABLES
  conn,         \* connectionState
  reasons,      \* interruptReasons
  retry,        \* the scheduled retry: "none", or the fetch it will start,
                \* "plain" or "forced"
  force,        \* forceAuthTokenRefresh
  fetch,        \* the latest attempt to fetch a token, if not answered yet
  token,        \* whether authToken # nil
  realtime,     \* the FConnection: none, connecting or up
  toServer,     \* requests under way
  toClient,     \* responses under way
  listens,      \* listens: for each query, the number of its listen, or 0
  unacked,      \* unackedListensCount
  outstanding,  \* outstandingPuts
  held,         \* putsToAck
  completed,    \* writes whose completion was called
  issued,       \* putCounter
  made,         \* listens made so far
  troubles,     \* troubles of the bound used up
  watched,      \* the database: queries it sends changes of,
  applied,      \* the last write that it dealt with: applied, or refused,
  reached,      \* the latest write that it dealt with,
  refused       \* observed: the database has refused a token, and no other was
                \* asked for since

session == <<conn, reasons, retry, force, fetch, token, realtime>>
link == <<toServer, toClient, unacked>>
writes == <<outstanding, held, completed, issued>>
server == <<watched, applied, reached>>
vars == <<session, link, listens, writes, made, troubles, server, refused>>

Reasons == {"waitingForOpen", "repoInterrupt", "serverKill"}
Fetches == {"plain", "forced"}
Interrupted == reasons # {}
Connected == conn \in {"authenticating", "connected"}
CanSendWrites == conn = "connected"

Request(type, id) == [type |-> type, id |-> id]
ListenTo(q, n) == [type |-> "listen", id |-> n, query |-> q]
Response(type, id, ok) == [type |-> type, id |-> id, ok |-> ok]

Troubled == troubles < MaxTroubles /\ troubles' = troubles + 1

-----------------------------------------------------------------------------
(* Connecting.                                                             *)

\* Mutant: a retry is scheduled though the connection is interrupted.
SchedulesRegardless(why, forced) ==
  retry' = (IF forced THEN "forced" ELSE "plain") /\ force' = FALSE

\* tryScheduleReconnect, which takes the flag with it.  A retry that is
\* scheduled already is cancelled (FIRRetryHelper.retry).
TryScheduleReconnect(why, forced) ==
  IF why = {}
    THEN retry' = (IF forced THEN "forced" ELSE "plain") /\ force' = FALSE
    ELSE retry' = retry /\ force' = forced

\* Mutant: the answers of the lost connection are still dealt with.
KeepsCallbacks(why, forced) ==
  /\ conn' = "disconnected" /\ realtime' = "none"
  /\ unacked' = 0
  /\ watched' = {}
  /\ TryScheduleReconnect(why, forced)
  /\ UNCHANGED <<toServer, toClient, fetch>>

\* onDisconnect.  What was sent and not answered stays in listens and in
\* outstandingPuts.
OnDisconnect(why, forced) ==
  /\ conn' = "disconnected" /\ realtime' = "none"
  /\ toClient' = <<>> /\ unacked' = 0
  /\ watched' = {}
  /\ TryScheduleReconnect(why, forced)
  /\ UNCHANGED <<toServer, fetch>>

\* interruptForReason: goOffline, and with onKill the database's shutdown.
Interrupt(reason) ==
  /\ Troubled
  /\ reasons' = reasons \cup {reason}
  /\ IF realtime # "none"
       THEN OnDisconnect(reasons', force)
       ELSE /\ retry' = "none" /\ conn' = "disconnected"
            /\ UNCHANGED <<force, fetch, realtime, link, watched>>
  /\ UNCHANGED <<token, listens, writes, made, applied, reached, refused>>

GoOffline == "repoInterrupt" \notin reasons /\ Interrupt("repoInterrupt")
OnKill == realtime = "up" /\ Interrupt("serverKill")

\* resumeForReason: open, and goOnline.
Resume(reason) ==
  /\ reason \in reasons /\ reason # "serverKill"
  /\ reasons' = reasons \ {reason}
  /\ IF conn = "disconnected" THEN TryScheduleReconnect(reasons', force)
                              ELSE UNCHANGED <<retry, force>>
  /\ UNCHANGED <<conn, fetch, token, realtime, link, listens, writes, made, troubles,
                 server, refused>>

\* reachabilityCallback and enteringForeground.
Reachable ==
  /\ conn = "disconnected"
  /\ TryScheduleReconnect(reasons, force)
  /\ UNCHANGED <<conn, reasons, fetch, token, realtime, link, listens, writes, made,
                 troubles, server, refused>>

\* The retry's block.  An answer to an earlier attempt will be ignored.
RetryFires ==
  /\ retry # "none"
  /\ retry' = "none" /\ fetch' = retry /\ conn' = "gettingToken"
  /\ UNCHANGED <<reasons, force, token, realtime, link, listens, writes, made, troubles,
                 server, refused>>

\* Mutant: a token opens a connection, whatever has happened meanwhile.
OpensRegardless == TRUE

\* Someone may have interrupted us while fetching the token.
StillWanted == conn = "gettingToken"

\* The fetch's callback: nobody, or somebody, is signed in.
TokenArrives(some) ==
  /\ fetch # "none"
  /\ fetch' = "none"
  /\ IF StillWanted
       THEN /\ token' = some
            /\ conn' = "connecting" /\ realtime' = "connecting"
            /\ refused' = (refused /\ fetch # "forced" /\ some)
       ELSE UNCHANGED <<token, conn, realtime, refused>>
  /\ UNCHANGED <<reasons, retry, force, link, listens, writes, made, troubles, server>>

TokenFails ==
  /\ fetch # "none" /\ Troubled
  /\ fetch' = "none" /\ conn' = "disconnected"
  /\ TryScheduleReconnect(reasons, force)
  /\ UNCHANGED <<reasons, token, realtime, link, listens, writes, made, server, refused>>

\* The link is lost, cannot be set up, or is reset by the database.
Drop ==
  /\ realtime # "none" /\ Troubled
  /\ OnDisconnect(reasons, force)
  /\ UNCHANGED <<reasons, token, listens, writes, made, applied, reached, refused>>

-----------------------------------------------------------------------------
(* Restoring what is wanted of the database, and its answers.              *)

Listening == {q \in Queries : listens[q] # 0}

Orders(S) == {s \in [1..Cardinality(S) -> S] : \A i, j \in DOMAIN s : s[i] = s[j] => i = j}

\* Mutant: writes are sent again in any order.
AnyOrder(S) == Orders(S)

Ascending(S) == {s \in Orders(S) : \A i, j \in DOMAIN s : i < j => s[i] < s[j]}

\* Mutant: a write that was sent before is not sent again.
NothingLeft == {}

ToSend == outstanding

\* restoreState: listens in any order, then the writes that have not been
\* acknowledged, in theirs.
RestoreState(sent) ==
  \E qs \in Orders(Listening), ps \in Ascending(ToSend) :
    /\ conn' = "connected"
    /\ toServer' = sent \o [i \in DOMAIN qs |-> ListenTo(qs[i], listens[qs[i]])]
                        \o [i \in DOMAIN ps |-> Request("put", ps[i])]
    /\ unacked' = unacked + Cardinality(Listening)

\* onReady, with restoreAuth.
OnReady ==
  /\ realtime = "connecting"
  /\ realtime' = "up"
  /\ IF token THEN /\ conn' = "authenticating"
                   /\ toServer' = <<Request("auth", 1)>>
                   /\ UNCHANGED unacked
              ELSE RestoreState(<<>>)
  /\ UNCHANGED <<reasons, retry, force, fetch, token, toClient, listens, writes, made,
                 troubles, server, refused>>

Answers(type) == toClient # <<>> /\ Head(toClient).type = type

\* The callback of sendAuthAndRestoreStateAfterComplete; its request has the
\* number 1 when the state is to be restored.
AuthAnswered ==
  /\ Answers("auth")
  /\ LET answer == Head(toClient)
     IN  \/ /\ answer.ok
            /\ toClient' = Tail(toClient)
            /\ IF answer.id = 1 THEN RestoreState(toServer)
                                ELSE conn' = "connected" /\ UNCHANGED <<toServer, unacked>>
            /\ UNCHANGED <<retry, force, fetch, token, realtime, watched, refused>>
         \/ /\ ~answer.ok
            /\ token' = FALSE /\ refused' = TRUE
            /\ OnDisconnect(reasons, TRUE)
  /\ UNCHANGED <<reasons, listens, writes, made, troubles, applied, reached>>

\* onAuthRevokedWithStatus
OnAuthRevoked ==
  /\ realtime = "up" /\ token /\ Troubled
  /\ token' = FALSE /\ refused' = TRUE
  /\ OnDisconnect(reasons, TRUE)
  /\ UNCHANGED <<reasons, listens, writes, made, applied, reached>>

\* refreshAuthToken: somebody signs in or out.
RefreshAuthToken(some) ==
  /\ Troubled
  /\ token' = some /\ refused' = FALSE
  /\ toServer' = IF ~Connected THEN toServer
                 ELSE Append(toServer, Request(IF some THEN "auth" ELSE "unauth", 0))
  /\ UNCHANGED <<conn, reasons, retry, force, fetch, realtime, toClient, unacked, listens,
                 writes, made, server>>

\* listen
Listen(q) ==
  /\ listens[q] = 0 /\ made < MaxListens
  /\ made' = made + 1
  /\ listens' = [listens EXCEPT ![q] = made']
  /\ IF Connected THEN /\ toServer' = Append(toServer, ListenTo(q, made'))
                       /\ unacked' = unacked + 1
                  ELSE UNCHANGED <<toServer, unacked>>
  /\ UNCHANGED <<session, toClient, writes, troubles, server, refused>>

\* unlisten: for observeSingleEvent as soon as there is a value.
Unlisten(q) ==
  /\ listens[q] # 0
  /\ listens' = [listens EXCEPT ![q] = 0]
  /\ toServer' = IF ~Connected THEN toServer
                 ELSE Append(toServer, [type |-> "unlisten", id |-> 0, query |-> q])
  /\ UNCHANGED <<session, toClient, unacked, writes, made, troubles, server, refused>>

NoListenPending == unacked = 0

\* Mutant: completions are called, and kept.
CallsOnly == completed' = completed \cup held /\ held' = held

AckPuts == completed' = completed \cup held /\ held' = {}

\* The callback of sendListen; ackPuts when it was the last.
ListenAnswered ==
  /\ Answers("listen")
  /\ LET answer == Head(toClient)
     IN  listens' = [q \in Queries |->
                       IF listens[q] = answer.id /\ ~answer.ok THEN 0 ELSE listens[q]]
  /\ toClient' = Tail(toClient)
  /\ unacked' = unacked - 1
  /\ IF unacked' = 0 THEN AckPuts ELSE UNCHANGED <<completed, held>>
  /\ UNCHANGED <<session, toServer, outstanding, issued, made, troubles, server, refused>>

PutIndex == issued + 1

\* putInternal
Put ==
  /\ issued < MaxPuts
  /\ issued' = issued + 1
  /\ outstanding' = outstanding \cup {PutIndex}
  /\ toServer' = IF CanSendWrites THEN Append(toServer, Request("put", PutIndex)) ELSE toServer
  /\ UNCHANGED <<session, toClient, unacked, listens, held, completed, made, troubles,
                 server, refused>>

\* The callback of sendPut: unless it has been removed, the write is done, but
\* while listens are not answered its completion waits.
PutAnswered ==
  /\ Answers("put")
  /\ LET i == Head(toClient).id
     IN  IF i \notin outstanding THEN UNCHANGED <<outstanding, held, completed>>
         ELSE /\ outstanding' = outstanding \ {i}
              /\ IF NoListenPending THEN completed' = completed \cup {i} /\ UNCHANGED held
                                    ELSE held' = held \cup {i} /\ UNCHANGED completed
  /\ toClient' = Tail(toClient)
  /\ UNCHANGED <<session, toServer, unacked, listens, issued, made, troubles, server, refused>>

\* The database deals with the next request; it answers on the connection that
\* brought it.  What a lost one brought may still be dealt with until the next
\* is up.
Serve ==
  /\ toServer # <<>>
  /\ LET m == Head(toServer)
         up == realtime = "up"
         answer(ok) == toClient' = IF up THEN Append(toClient, Response(m.type, m.id, ok))
                                         ELSE toClient
     IN  /\ toServer' = Tail(toServer)
         /\ \/ /\ m.type = "put"
               /\ applied' = m.id /\ reached' = (IF m.id > reached THEN m.id ELSE reached)
               /\ answer(TRUE) /\ UNCHANGED <<watched, troubles>>
            \/ /\ m.type = "listen"
               /\ watched' = (IF up THEN watched \cup {m.query} ELSE watched)
               /\ answer(TRUE) /\ UNCHANGED <<applied, reached, troubles>>
            \/ /\ m.type = "listen" /\ m.query \in Guarded
               /\ watched' = watched \ {m.query}
               /\ answer(FALSE) /\ UNCHANGED <<applied, reached, troubles>>
            \/ /\ m.type = "unlisten" /\ watched' = watched \ {m.query}
               /\ UNCHANGED <<toClient, applied, reached, troubles>>
            \/ /\ m.type = "auth" /\ answer(TRUE)
               /\ UNCHANGED <<server, troubles>>
            \/ /\ m.type = "auth" /\ up /\ Troubled
               /\ answer(FALSE) /\ UNCHANGED server
            \/ m.type = "unauth" /\ UNCHANGED <<toClient, server, troubles>>
  /\ UNCHANGED <<session, unacked, listens, writes, made, refused>>

-----------------------------------------------------------------------------
Init ==
  /\ conn = "disconnected" /\ reasons = {"waitingForOpen"}
  /\ retry = "none" /\ force = FALSE /\ fetch = "none" /\ token = FALSE
  /\ realtime = "none"
  /\ toServer = <<>> /\ toClient = <<>> /\ unacked = 0
  /\ listens = [q \in Queries |-> 0]
  /\ outstanding = {} /\ held = {} /\ completed = {} /\ issued = 0
  /\ made = 0 /\ troubles = 0
  /\ watched = {} /\ applied = 0 /\ reached = 0 /\ refused = FALSE

\* What goes on by itself.
Progress ==
  \/ RetryFires \/ OnReady \/ Serve
  \/ \E some \in BOOLEAN : TokenArrives(some)
  \/ AuthAnswered \/ ListenAnswered \/ PutAnswered

\* What people and the app do.
Use ==
  \/ \E q \in Queries : Listen(q) \/ Unlisten(q)
  \/ Put \/ \E some \in BOOLEAN : RefreshAuthToken(some)
  \/ GoOffline \/ \E reason \in Reasons : Resume(reason)

Trouble == Drop \/ OnKill \/ TokenFails \/ OnAuthRevoked

Next == Progress \/ Use \/ Trouble \/ Reachable

Spec == Init /\ [][Next]_vars

\* The queue runs what is scheduled on it, tokens arrive, and the database
\* answers.  Troubles are bounded: in the end the network is stable.
FairSpec == Spec /\ WF_vars(Progress)

-----------------------------------------------------------------------------
(* Properties.                                                             *)

Requests == [type : {"put", "auth", "unauth"}, id : Nat]
              \cup [type : {"listen", "unlisten"}, id : Nat, query : Queries]
Responses == [type : {"put", "auth", "listen"}, id : Nat, ok : BOOLEAN]

TypeOK ==
  /\ conn \in {"disconnected", "gettingToken", "connecting", "authenticating", "connected"}
  /\ reasons \subseteq Reasons
  /\ retry \in {"none"} \cup Fetches /\ fetch \in {"none"} \cup Fetches
  /\ force \in BOOLEAN /\ token \in BOOLEAN /\ refused \in BOOLEAN
  /\ realtime \in {"none", "connecting", "up"}
  /\ toServer \in Seq(Requests) /\ toClient \in Seq(Responses) /\ unacked \in Int
  /\ listens \in [Queries -> 0..MaxListens]
  /\ issued \in 0..MaxPuts /\ made \in 0..MaxListens /\ troubles \in 0..MaxTroubles
  /\ outstanding \subseteq 1..issued /\ held \subseteq 1..issued
  /\ completed \subseteq 1..issued
  /\ watched \subseteq Queries
  /\ applied \in 0..reached /\ reached \in 0..issued

\* The assertions in FPersistentConnection, however callbacks and
\* notifications interleave: a retry fires while disconnected; a token finds
\* the connection waiting for it, or disconnected; it gets ready only while
\* connecting; and nothing is sent but on a connection that is up.
AssertionsHold ==
  /\ retry # "none" => conn = "disconnected"
  /\ fetch # "none" => conn \in {"gettingToken", "disconnected"}
  /\ conn = "gettingToken" => fetch # "none"
  /\ realtime = "connecting" <=> conn = "connecting"
  /\ realtime = "up" <=> Connected

\* goOffline "shuts down our connection ... until goOnline is called", and a
\* shutdown by the database lasts: no retry, token or notification on its way
\* opens one meanwhile.
OfflineStaysOffline == Interrupted => conn = "disconnected" /\ retry = "none"

\* Once connected and with nothing under way, the database watches what the
\* device listens to, has dealt with all its writes, the last one last, each is
\* acknowledged, and no completion will wait for listens: whatever was lost, sent
\* twice or changed meanwhile.  (The database may watch more: a listen made while
\* authenticating is sent again by restoreState, and of the two the first may be
\* refused.)
QuietMeansInSync ==
  conn = "connected" /\ toServer = <<>> /\ toClient = <<>> =>
    /\ Listening \subseteq watched
    /\ outstanding = {} /\ applied = issued
    /\ NoListenPending

\* No write is lost or completed twice: each is waiting for its answer, or its
\* completion waits for listens, or it is completed; and an answered one has
\* reached the database.
EachWriteIsOnce ==
  /\ outstanding \cup held \cup completed = 1..issued
  /\ outstanding \cap (held \cup completed) = {} /\ held \cap completed = {}
  /\ \A i \in held \cup completed : i <= reached

\* What becomes of a device's writes.
Device == INSTANCE Delivery WITH done <- held \cup completed
WritesAreDelivered == Device!Spec

\* A write reaches the database and is acknowledged, unless the device is
\* offline or was shut out.
WritesGetThrough ==
  \A i \in 1..MaxPuts : i \in outstanding ~> i \notin outstanding \/ Interrupted

-----------------------------------------------------------------------------
(* What the library says of itself, and does not keep: no run checks these. *)

\* "The block to be called after the write has been committed."
WritesComplete ==
  \A i \in 1..MaxPuts : i \in held ~> i \in completed \/ Interrupted

\* "We will refresh the token later on reconnect": no connection is opened
\* with a token that was not asked for anew after the database refused one.
RefusedTokenIsRefreshed ==
  [][realtime = "none" /\ realtime' = "connecting" /\ token' => ~refused']_vars
=============================================================================
