-------------------------- MODULE ConnectionProofs --------------------------
(***************************************************************************)
(* What holds of every connection, for any number of writes, listens and   *)
(* troubles: the types, the assertions in FPersistentConnection, that an   *)
(* interruption lasts, that no write is lost or completed twice, that      *)
(* writes are delivered in order, and that both sides agree once all is    *)
(* quiet.                                                                  *)
(***************************************************************************)
EXTENDS Connection, FiniteSetTheorems, TLAPS

-----------------------------------------------------------------------------
(* Messages under way: requests name writes that were made, and answers    *)
(* name writes that the database has dealt with.                           *)

RequestsUpTo(n) == {m \in Requests : m.type = "put" => m.id \in 1..n}
ResponsesUpTo(n) == {m \in Responses : m.type = "put" => m.id \in 1..n}

MessagesOK == toServer \in Seq(RequestsUpTo(issued)) /\ toClient \in Seq(ResponsesUpTo(reached))

LEMMA MoreRequests ==
  ASSUME NEW n \in Nat, NEW k \in Nat, n <= k, NEW s \in Seq(RequestsUpTo(n))
  PROVE  s \in Seq(RequestsUpTo(k))
<1>1. RequestsUpTo(n) \subseteq RequestsUpTo(k)
  BY DEF RequestsUpTo
<1>2. QED
  BY <1>1

LEMMA MoreResponses ==
  ASSUME NEW n \in Nat, NEW k \in Nat, n <= k, NEW s \in Seq(ResponsesUpTo(n))
  PROVE  s \in Seq(ResponsesUpTo(k))
<1>1. ResponsesUpTo(n) \subseteq ResponsesUpTo(k)
  BY DEF ResponsesUpTo
<1>2. QED
  BY <1>1

LEMMA RequestTypes ==
  ASSUME NEW n \in Nat
  PROVE  /\ \A i \in 1..n : Request("put", i) \in RequestsUpTo(n)
         /\ \A i \in Nat, t \in {"auth", "unauth"} : Request(t, i) \in RequestsUpTo(n)
         /\ \A i \in Nat, q \in Queries :
              /\ ListenTo(q, i) \in RequestsUpTo(n)
              /\ [type |-> "unlisten", id |-> i, query |-> q] \in RequestsUpTo(n)
  BY DEF RequestsUpTo, Requests, Request, ListenTo

LEMMA ResponseTypes ==
  ASSUME NEW n \in Nat, NEW i \in Nat, NEW ok \in BOOLEAN
  PROVE  /\ i \in 1..n => Response("put", i, ok) \in ResponsesUpTo(n)
         /\ \A t \in {"auth", "listen"} : Response(t, i, ok) \in ResponsesUpTo(n)
  BY DEF ResponsesUpTo, Responses, Response

\* What restoreState sends is well formed, after anything that is.
LEMMA RestoreStateSends ==
  ASSUME TypeOK, NEW sent \in Seq(RequestsUpTo(issued)), RestoreState(sent)
  PROVE  /\ conn' = "connected"
         /\ toServer' \in Seq(RequestsUpTo(issued))
         /\ unacked' \in Int
<1>1. issued \in Nat /\ listens \in [Queries -> Nat] /\ outstanding \subseteq 1..issued
  BY Bounds DEF TypeOK
<1>2. IsFiniteSet(Listening) /\ IsFiniteSet(outstanding)
  <2>1. IsFiniteSet(1..issued)
    BY <1>1, FS_Interval
  <2>2. QED
    BY <1>1, <2>1, GuardedQueries, FS_Subset DEF Listening
<1>3. Cardinality(Listening) \in Nat /\ Cardinality(outstanding) \in Nat
  BY <1>2, FS_CardinalityType
<1>4. PICK qs \in Orders(Listening), ps \in Ascending(ToSend) :
        /\ conn' = "connected"
        /\ toServer' = sent \o [i \in DOMAIN qs |-> ListenTo(qs[i], listens[qs[i]])]
                            \o [i \in DOMAIN ps |-> Request("put", ps[i])]
        /\ unacked' = unacked + Cardinality(Listening)
  BY DEF RestoreState
<1>5. [i \in DOMAIN qs |-> ListenTo(qs[i], listens[qs[i]])] \in Seq(RequestsUpTo(issued))
  <2>1. qs \in [1..Cardinality(Listening) -> Listening] /\ Listening \subseteq Queries
    BY DEF Orders, Listening
  <2>2. \A i \in 1..Cardinality(Listening) :
           ListenTo(qs[i], listens[qs[i]]) \in RequestsUpTo(issued)
    BY <1>1, <2>1, RequestTypes
  <2>3. QED
    BY <1>3, <2>1, <2>2
<1>6. [i \in DOMAIN ps |-> Request("put", ps[i])] \in Seq(RequestsUpTo(issued))
  <2>1. ps \in [1..Cardinality(outstanding) -> outstanding]
    BY DEF Ascending, Orders, ToSend
  <2>2. \A i \in 1..Cardinality(outstanding) : Request("put", ps[i]) \in RequestsUpTo(issued)
    BY <1>1, <2>1, RequestTypes
  <2>3. QED
    BY <1>3, <2>1, <2>2
<1>7. toServer' \in Seq(RequestsUpTo(issued))
  <2>1. sent \o [i \in DOMAIN qs |-> ListenTo(qs[i], listens[qs[i]])] \in Seq(RequestsUpTo(issued))
    BY <1>5
  <2>2. QED
    BY <1>4, <1>6, <2>1
<1>8. unacked' \in Int
  BY <1>3, <1>4 DEF TypeOK
<1>9. QED
  BY <1>4, <1>7, <1>8
-----------------------------------------------------------------------------
(* Types.                                                                  *)

LEMMA ScheduleType ==
  ASSUME TypeOK, NEW why, NEW forced \in BOOLEAN, TryScheduleReconnect(why, forced)
  PROVE  retry' \in {"none"} \cup Fetches /\ force' \in BOOLEAN
  BY DEF TypeOK, TryScheduleReconnect, Fetches

LEMMA DisconnectType ==
  ASSUME TypeOK, MessagesOK, NEW why, NEW forced \in BOOLEAN, OnDisconnect(why, forced),
         issued' = issued, reached' = reached
  PROVE  /\ conn' = "disconnected" /\ realtime' = "none"
         /\ retry' \in {"none"} \cup Fetches /\ force' \in BOOLEAN
         /\ fetch' = fetch /\ watched' \subseteq Queries /\ unacked' \in Int
         /\ toServer' \in Seq(RequestsUpTo(issued)) /\ toClient' \in Seq(ResponsesUpTo(reached))
  BY ScheduleType DEF OnDisconnect, MessagesOK

\* Messages of these kinds have the types that TypeOK asks for.
LEMMA MessagesAreTyped ==
  ASSUME NEW n \in Nat
  PROVE  Seq(RequestsUpTo(n)) \subseteq Seq(Requests) /\ Seq(ResponsesUpTo(n)) \subseteq Seq(Responses)
<1>1. RequestsUpTo(n) \subseteq Requests /\ ResponsesUpTo(n) \subseteq Responses
  BY DEF RequestsUpTo, ResponsesUpTo
<1>2. QED
  BY <1>1

\* The types, with what is said of messages.
Typed == TypeOK /\ MessagesOK

LEMMA InitIsTyped == Init => Typed
<1> SUFFICES ASSUME Init PROVE Typed
  OBVIOUS
<1>1. MessagesOK
  BY DEF Init, MessagesOK
<1>2. toServer \in Seq(Requests) /\ toClient \in Seq(Responses)
  BY DEF Init
<1>3. 0 \in 0..MaxPuts /\ 0 \in 0..MaxListens /\ 0 \in 0..MaxTroubles
  BY Bounds
<1>4. TypeOK
  <2>1. conn = "disconnected" /\ realtime = "none"
    BY DEF Init
  <2>2. reasons \subseteq Reasons /\ watched \subseteq Queries /\ listens \in [Queries -> 0..MaxListens]
    BY <1>3 DEF Init, Reasons
  <2>3. issued \in 0..MaxPuts /\ made \in 0..MaxListens /\ troubles \in 0..MaxTroubles /\ unacked \in Int
    BY <1>3 DEF Init
  <2>4. /\ outstanding \subseteq 1..issued /\ held \subseteq 1..issued
        /\ completed \subseteq 1..issued
        /\ applied \in 0..reached /\ reached \in 0..issued
    BY DEF Init
  <2>5. retry = "none" /\ fetch = "none"
    BY DEF Init
  <2>6. force \in BOOLEAN /\ token \in BOOLEAN /\ refused \in BOOLEAN
    BY DEF Init
  <2>7. QED
    BY <1>2, <2>1, <2>2, <2>3, <2>4, <2>5, <2>6 DEF TypeOK
<1>5. QED
  BY <1>1, <1>4 DEF Typed

\* Interruptions, lost links, retries and tokens.
LEMMA ConnectingIsTyped ==
  ASSUME Typed,
         \/ GoOffline \/ OnKill \/ Drop \/ OnAuthRevoked \/ TokenFails
         \/ Reachable \/ RetryFires
         \/ \E r \in Reasons : Resume(r)
         \/ \E some \in BOOLEAN : TokenArrives(some)
  PROVE  Typed'
<1> USE DEF Typed
<1>1. issued \in Nat /\ reached \in Nat
  BY DEF TypeOK
<1>2. ASSUME NEW r \in Reasons, Interrupt(r) PROVE Typed'
  <2>1. CASE realtime # "none"
    <3>1. OnDisconnect(reasons', force) /\ UNCHANGED <<token, listens, writes, made, applied, reached, refused>>
      BY <1>2, <2>1 DEF Interrupt
    <3>2. MessagesOK'
      BY <3>1, DisconnectType DEF TypeOK, writes, MessagesOK
    <3>3. TypeOK'
      BY <1>1, <1>2, <3>1, <3>2, Bounds, DisconnectType, MessagesAreTyped
      DEF TypeOK, writes, Interrupt, Troubled, MessagesOK
    <3>4. QED
      BY <3>2, <3>3
  <2>2. CASE realtime = "none"
    BY <1>2, <2>2, Bounds DEF Interrupt, Troubled, TypeOK, MessagesOK, link, writes
  <2>3. QED
    BY <2>1, <2>2
<1>3. CASE GoOffline \/ OnKill
  BY <1>2, <1>3 DEF GoOffline, OnKill, Reasons
<1>4. CASE Drop
  <2>1. MessagesOK'
    BY <1>4, DisconnectType DEF Drop, TypeOK, writes, MessagesOK
  <2>2. TypeOK'
    BY <1>1, <1>4, <2>1, Bounds, DisconnectType, MessagesAreTyped DEF Drop, Troubled, TypeOK, writes, MessagesOK
  <2>3. QED
    BY <2>1, <2>2
<1>5. CASE OnAuthRevoked
  <2>1. MessagesOK'
    BY <1>5, DisconnectType DEF OnAuthRevoked, TypeOK, writes, MessagesOK
  <2>2. /\ conn' = "disconnected" /\ realtime' = "none"
        /\ retry' \in {"none"} \cup Fetches /\ force' \in BOOLEAN
        /\ fetch' = fetch /\ watched' \subseteq Queries /\ unacked' \in Int
    BY <1>5, DisconnectType DEF OnAuthRevoked, writes
  <2>3. toServer' \in Seq(Requests) /\ toClient' \in Seq(Responses)
    BY <1>1, <1>5, <2>1, MessagesAreTyped DEF OnAuthRevoked, writes, MessagesOK
  <2>4. troubles' \in 0..MaxTroubles
    BY <1>5, Bounds DEF OnAuthRevoked, Troubled, TypeOK
  <2>5. TypeOK'
    BY <1>5, <2>2, <2>3, <2>4 DEF OnAuthRevoked, TypeOK, writes
  <2>6. QED
    BY <2>1, <2>5
<1>6. CASE TokenFails
  <2>1. retry' \in {"none"} \cup Fetches /\ force' \in BOOLEAN
    BY <1>6, ScheduleType DEF TokenFails, TypeOK
  <2>2. QED
    BY <1>6, <2>1, Bounds DEF TokenFails, Troubled, TypeOK, MessagesOK, link, writes, server
<1>7. CASE Reachable
  <2>1. retry' \in {"none"} \cup Fetches /\ force' \in BOOLEAN
    BY <1>7, ScheduleType DEF Reachable, TypeOK
  <2>2. QED
    BY <1>7, <2>1 DEF Reachable, TypeOK, MessagesOK, link, writes, server
<1>8. CASE RetryFires
  BY <1>8 DEF RetryFires, TypeOK, MessagesOK, link, writes, server
<1>9. ASSUME NEW r \in Reasons, Resume(r) PROVE Typed'
  <2>1. retry' \in {"none"} \cup Fetches /\ force' \in BOOLEAN
    BY <1>9, ScheduleType DEF Resume, TypeOK
  <2>2. QED
    BY <1>9, <2>1 DEF Resume, TypeOK, MessagesOK, link, writes, server
<1>10. ASSUME NEW some \in BOOLEAN, TokenArrives(some) PROVE Typed'
  BY <1>10, ZenonT(30) DEF TokenArrives, TypeOK, MessagesOK, link, writes, server
<1>11. QED
  BY <1>3, <1>4, <1>5, <1>6, <1>7, <1>8, <1>9, <1>10
LEMMA HeadAndTail ==
  ASSUME NEW S, NEW s \in Seq(S), s # <<>>
  PROVE  Head(s) \in S /\ Tail(s) \in Seq(S)
  OBVIOUS

\* Answers.
LEMMA AnswersAreTyped ==
  ASSUME Typed, OnReady \/ AuthAnswered \/ ListenAnswered \/ PutAnswered
  PROVE  Typed'
<1> USE DEF Typed
<1>1. issued \in Nat /\ reached \in Nat /\ issued \in 0..MaxPuts
  BY Bounds DEF TypeOK
<1>2. Seq(RequestsUpTo(issued)) \subseteq Seq(Requests)
      /\ Seq(ResponsesUpTo(reached)) \subseteq Seq(Responses)
  BY <1>1, MessagesAreTyped
<1>3. CASE OnReady
  <2>1. toServer' \in Seq(RequestsUpTo(issued)) /\ unacked' \in Int
        /\ conn' \in {"authenticating", "connected"}
    <3>1. CASE token
      <4>1. Request("auth", 1) \in RequestsUpTo(issued)
        BY <1>1, RequestTypes
      <4>2. <<Request("auth", 1)>> \in Seq(RequestsUpTo(issued))
        BY <4>1
      <4>3. QED
        BY <1>3, <3>1, <4>2 DEF OnReady, TypeOK
    <3>2. CASE ~token
      <4>1. <<>> \in Seq(RequestsUpTo(issued))
        OBVIOUS
      <4>2. QED
        BY <1>3, <3>2, <4>1, RestoreStateSends DEF OnReady
    <3>3. QED
      BY <3>1, <3>2
  <2>2. MessagesOK'
    BY <1>3, <2>1 DEF OnReady, MessagesOK, writes, server
  <2>3. TypeOK'
    BY <1>2, <1>3, <2>1, <2>2 DEF OnReady, TypeOK, MessagesOK, writes, server
  <2>4. QED
    BY <2>2, <2>3
<1>4. CASE AuthAnswered
  <2>1. CASE Head(toClient).ok
    <3>1. Tail(toClient) \in Seq(ResponsesUpTo(reached))
      BY <1>4, HeadAndTail DEF AuthAnswered, Answers, MessagesOK
    <3>2. toServer' \in Seq(RequestsUpTo(issued)) /\ unacked' \in Int /\ conn' = "connected"
      <4>1. CASE Head(toClient).id = 1
        BY <1>4, <2>1, <4>1, RestoreStateSends DEF AuthAnswered, MessagesOK
      <4>2. CASE Head(toClient).id # 1
        BY <1>4, <2>1, <4>2 DEF AuthAnswered, TypeOK, MessagesOK
      <4>3. QED
        BY <4>1, <4>2
    <3>3. MessagesOK'
      BY <1>4, <2>1, <3>1, <3>2 DEF AuthAnswered, MessagesOK, writes
    <3>4. TypeOK'
      BY <1>2, <1>4, <2>1, <3>2, <3>3 DEF AuthAnswered, TypeOK, MessagesOK, writes
    <3>5. QED
      BY <3>3, <3>4
  <2>2. CASE ~Head(toClient).ok
    <3>1. /\ token' = FALSE /\ refused' = TRUE /\ OnDisconnect(reasons, TRUE)
          /\ UNCHANGED <<reasons, listens, writes, made, troubles, applied, reached>>
      BY <1>4, <2>2 DEF AuthAnswered
    <3>2. MessagesOK'
      BY <3>1, DisconnectType DEF MessagesOK, writes
    <3>3. /\ conn' = "disconnected" /\ realtime' = "none"
          /\ retry' \in {"none"} \cup Fetches /\ force' \in BOOLEAN
          /\ fetch' = fetch /\ watched' \subseteq Queries /\ unacked' \in Int
      BY <3>1, DisconnectType DEF writes
    <3>4. toServer' \in Seq(Requests) /\ toClient' \in Seq(Responses)
      BY <1>2, <3>1, <3>2 DEF MessagesOK, writes
    <3>5. TypeOK'
      BY <3>1, <3>3, <3>4 DEF TypeOK, writes
    <3>6. QED
      BY <3>2, <3>5
  <2>3. QED
    BY <2>1, <2>2
<1>5. CASE ListenAnswered
  <2>1. Tail(toClient) \in Seq(ResponsesUpTo(reached))
    BY <1>5, HeadAndTail DEF ListenAnswered, Answers, MessagesOK
  <2>2. MessagesOK'
    BY <1>5, <2>1 DEF ListenAnswered, MessagesOK, server
  <2>3. listens' \in [Queries -> 0..MaxListens]
    BY <1>5, Bounds DEF ListenAnswered, TypeOK
  <2>4. unacked' \in Int /\ completed' \subseteq 1..issued /\ held' \subseteq 1..issued
    <3>1. unacked' = unacked - 1
      BY <1>5 DEF ListenAnswered
    <3>2. unacked \in Int /\ completed \subseteq 1..issued /\ held \subseteq 1..issued
      BY DEF TypeOK
    <3>3. \/ completed' = completed \cup held /\ held' = {}
          \/ completed' = completed /\ held' = held
      BY <1>5 DEF ListenAnswered, AckPuts
    <3>4. unacked' \in Int
      BY <3>1, <3>2
    <3>5. completed' \subseteq 1..issued /\ held' \subseteq 1..issued
      BY <3>2, <3>3
    <3>6. QED
      BY <3>4, <3>5
  <2>5. TypeOK'
    BY <1>2, <1>5, <2>2, <2>3, <2>4 DEF ListenAnswered, TypeOK, MessagesOK, session, server
  <2>6. QED
    BY <2>2, <2>5
<1>6. CASE PutAnswered
  <2>1. Tail(toClient) \in Seq(ResponsesUpTo(reached))
    BY <1>6, HeadAndTail DEF PutAnswered, Answers, MessagesOK
  <2>2. MessagesOK'
    BY <1>6, <2>1 DEF PutAnswered, MessagesOK, server
  <2>3. /\ outstanding' \subseteq 1..issued
        /\ completed' \subseteq 1..issued /\ held' \subseteq 1..issued
    BY <1>6 DEF PutAnswered, TypeOK
  <2>4. TypeOK'
    BY <1>2, <1>6, <2>2, <2>3 DEF PutAnswered, TypeOK, MessagesOK, session, server
  <2>5. QED
    BY <2>2, <2>4
<1>7. QED
  BY <1>3, <1>4, <1>5, <1>6
\* What the app asks for.
LEMMA UseIsTyped ==
  ASSUME Typed,
         \/ \E q \in Queries : Listen(q) \/ Unlisten(q)
         \/ Put \/ \E some \in BOOLEAN : RefreshAuthToken(some)
  PROVE  Typed'
<1> USE DEF Typed
<1>1. issued \in Nat /\ reached \in Nat /\ issued + 1 \in Nat
  BY Bounds DEF TypeOK
<1>2. /\ Seq(RequestsUpTo(issued)) \subseteq Seq(Requests)
      /\ Seq(RequestsUpTo(issued + 1)) \subseteq Seq(Requests)
  BY <1>1, MessagesAreTyped
<1>3. ASSUME NEW q \in Queries, Listen(q) PROVE Typed'
  <2>1. made' \in 0..MaxListens /\ listens' \in [Queries -> 0..MaxListens] /\ made' \in Nat
    BY <1>3, Bounds DEF Listen, TypeOK
  <2>2. ListenTo(q, made') \in RequestsUpTo(issued)
    BY <1>1, <2>1, RequestTypes
  <2>3. toServer' \in Seq(RequestsUpTo(issued)) /\ unacked' \in Int
    <3>1. \/ toServer' = Append(toServer, ListenTo(q, made')) /\ unacked' = unacked + 1
          \/ toServer' = toServer /\ unacked' = unacked
      BY <1>3 DEF Listen
    <3>2. unacked \in Int /\ toServer \in Seq(RequestsUpTo(issued))
      BY DEF TypeOK, MessagesOK
    <3>3. QED
      BY <2>2, <3>1, <3>2
  <2>4. MessagesOK'
    BY <1>3, <2>3 DEF Listen, MessagesOK, writes, server
  <2>5. TypeOK'
    BY <1>2, <1>3, <2>1, <2>3 DEF Listen, TypeOK, session, writes, server
  <2>6. QED
    BY <2>4, <2>5
<1>4. ASSUME NEW q \in Queries, Unlisten(q) PROVE Typed'
  <2>1. listens' \in [Queries -> 0..MaxListens]
    BY <1>4, Bounds DEF Unlisten, TypeOK
  <2>2. [type |-> "unlisten", id |-> 0, query |-> q] \in RequestsUpTo(issued)
    BY <1>1, RequestTypes
  <2>3. toServer' \in Seq(RequestsUpTo(issued))
    BY <1>4, <2>2 DEF Unlisten, MessagesOK
  <2>4. MessagesOK'
    BY <1>4, <2>3 DEF Unlisten, MessagesOK, writes, server
  <2>5. TypeOK'
    BY <1>2, <1>4, <2>1, <2>3 DEF Unlisten, TypeOK, session, writes, server
  <2>6. QED
    BY <2>4, <2>5
<1>5. CASE Put
  <2>1. issued' = issued + 1 /\ issued' \in 0..MaxPuts
    BY <1>5, Bounds DEF Put, TypeOK
  <2>2. Request("put", issued + 1) \in RequestsUpTo(issued + 1)
    BY <1>1, RequestTypes
  <2>3. toServer \in Seq(RequestsUpTo(issued + 1))
    BY <1>1, MoreRequests DEF MessagesOK
  <2>4. toServer' \in Seq(RequestsUpTo(issued'))
    <3>1. \/ toServer' = Append(toServer, Request("put", issued + 1))
          \/ toServer' = toServer
      BY <1>5 DEF Put, PutIndex
    <3>2. QED
      BY <2>1, <2>2, <2>3, <3>1
  <2>5. MessagesOK'
    BY <1>5, <2>4 DEF Put, MessagesOK, server
  <2>6. outstanding' \subseteq 1..issued' /\ held' \subseteq 1..issued' /\ completed' \subseteq 1..issued'
    BY <1>5, <1>1 DEF Put, PutIndex, TypeOK
  <2>7. applied' \in 0..reached' /\ reached' \in 0..issued'
    BY <1>5, <1>1 DEF Put, TypeOK, server
  <2>8. toServer' \in Seq(Requests)
    BY <1>2, <2>1, <2>4
  <2>9. TypeOK'
    BY <1>5, <2>1, <2>6, <2>7, <2>8 DEF Put, TypeOK, session, server
  <2>10. QED
    BY <2>5, <2>9
<1>6. ASSUME NEW some \in BOOLEAN, RefreshAuthToken(some) PROVE Typed'
  <2>1. Request("auth", 0) \in RequestsUpTo(issued) /\ Request("unauth", 0) \in RequestsUpTo(issued)
    BY <1>1, RequestTypes
  <2>2. toServer' \in Seq(RequestsUpTo(issued))
    BY <1>6, <2>1 DEF RefreshAuthToken, MessagesOK
  <2>3. MessagesOK'
    BY <1>6, <2>2 DEF RefreshAuthToken, MessagesOK, writes, server
  <2>4. token' \in BOOLEAN /\ refused' \in BOOLEAN /\ troubles' \in 0..MaxTroubles
    <3>1. token' = some /\ refused' = FALSE /\ troubles' = troubles + 1 /\ troubles < MaxTroubles
      BY <1>6 DEF RefreshAuthToken, Troubled
    <3>2. troubles \in 0..MaxTroubles
      BY DEF TypeOK
    <3>3. troubles' \in 0..MaxTroubles
      BY <3>1, <3>2, Bounds
    <3>4. QED
      BY <3>1, <3>3
  <2>5. TypeOK'
    BY <1>2, <1>6, <2>2, <2>4 DEF RefreshAuthToken, TypeOK, writes, server
  <2>6. QED
    BY <2>3, <2>5
<1>7. QED
  BY <1>3, <1>4, <1>5, <1>6

\* The database.
LEMMA ServeIsTyped ==
  ASSUME Typed, Serve
  PROVE  Typed'
<1> USE DEF Typed
<1>1. issued \in Nat /\ reached \in Nat /\ reached \in 0..issued /\ applied \in 0..reached
  BY Bounds DEF TypeOK
<1> DEFINE m == Head(toServer)
<1>2. m \in RequestsUpTo(issued) /\ Tail(toServer) \in Seq(RequestsUpTo(issued))
  BY HeadAndTail DEF Serve, MessagesOK
<1>3. /\ m.id \in Nat
      /\ m.type = "put" => m.id \in 1..issued
      /\ m.type \in {"listen", "unlisten"} => m.query \in Queries
  BY <1>2 DEF RequestsUpTo, Requests
<1>4. applied' \in 0..reached' /\ reached' \in 0..issued /\ reached <= reached'
  <2>1. \/ m.type = "put" /\ applied' = m.id /\ reached' = (IF m.id > reached THEN m.id ELSE reached)
        \/ applied' = applied /\ reached' = reached
    BY DEF Serve, server
  <2>2. QED
    BY <1>1, <1>3, <2>1
<1>5. toClient' \in Seq(ResponsesUpTo(reached'))
  <2>1. toClient \in Seq(ResponsesUpTo(reached'))
    BY <1>1, <1>4, MoreResponses DEF MessagesOK
  <2>2. CASE UNCHANGED toClient
    BY <2>1, <2>2
  <2>3. ASSUME NEW ok \in BOOLEAN, m.type \in {"put", "auth", "listen"},
               toClient' = Append(toClient, Response(m.type, m.id, ok))
        PROVE  toClient' \in Seq(ResponsesUpTo(reached'))
    <3>1. m.type = "put" => m.id \in 1..reached'
      <4>1. m.type = "put" => reached' = (IF m.id > reached THEN m.id ELSE reached)
        BY DEF Serve
      <4>2. QED
        BY <1>1, <1>3, <4>1
    <3>2. reached' \in Nat
      BY <1>1, <1>4
    <3>3. Response(m.type, m.id, ok) \in ResponsesUpTo(reached')
      BY <1>3, <2>3, <3>1, <3>2, ResponseTypes
    <3>4. QED
      BY <2>1, <2>3, <3>3
  <2>4. \/ UNCHANGED toClient
        \/ \E ok \in BOOLEAN : /\ m.type \in {"put", "auth", "listen"}
                               /\ toClient' = Append(toClient, Response(m.type, m.id, ok))
    BY DEF Serve
  <2>5. QED
    BY <2>2, <2>3, <2>4
<1>6. toServer' \in Seq(RequestsUpTo(issued)) /\ issued' = issued
  BY <1>2 DEF Serve, writes
<1>7. watched' \subseteq Queries /\ troubles' \in 0..MaxTroubles
  <2>1. watched' \subseteq watched \cup (IF m.type = "listen" THEN {m.query} ELSE {})
    BY DEF Serve, server
  <2>2. troubles' = troubles \/ Troubled
    BY DEF Serve
  <2>3. QED
    BY <1>3, <2>1, <2>2, Bounds DEF TypeOK, Troubled
<1>8. MessagesOK'
  BY <1>5, <1>6 DEF MessagesOK
<1>9. toServer' \in Seq(Requests) /\ toClient' \in Seq(Responses)
  <2>1. reached' \in Nat
    BY <1>1, <1>4
  <2>2. QED
    BY <1>1, <1>5, <1>6, <2>1, MessagesAreTyped
<1>10. TypeOK'
  BY <1>4, <1>6, <1>7, <1>9 DEF Serve, TypeOK, session, writes
<1>11. QED
  BY <1>8, <1>10

LEMMA StepIsTyped ==
  ASSUME Typed, [Next]_vars
  PROVE  Typed'
<1>1. CASE Progress
  BY <1>1, ConnectingIsTyped, AnswersAreTyped, ServeIsTyped DEF Progress
<1>2. CASE Use
  BY <1>2, ConnectingIsTyped, UseIsTyped DEF Use
<1>3. CASE Trouble \/ Reachable
  BY <1>3, ConnectingIsTyped DEF Trouble
<1>4. CASE UNCHANGED vars
  BY <1>4 DEF vars, session, link, writes, server, Typed, TypeOK, MessagesOK
<1>5. QED
  BY <1>1, <1>2, <1>3, <1>4 DEF Next

\* Messages included.
THEOREM AlwaysTyped == Spec => []Typed
  BY InitIsTyped, StepIsTyped, PTL DEF Spec

\* Whatever is lost, refused or interrupted, the connection's state is well
\* typed: in particular a write that is being dealt with has been made.
THEOREM TypeCorrect == Spec => []TypeOK
<1>1. Typed => TypeOK
  BY DEF Typed
<1>2. QED
  BY <1>1, AlwaysTyped, PTL
-----------------------------------------------------------------------------
(* Assertions and interruptions.                                           *)

\* None can be kept without the others: an interruption finds no retry to
\* cancel on a connection that is up, no retry is scheduled while one lasts, and
\* an answer to a login would connect what is down.
AnswersAreOfThisLink == toClient # <<>> => realtime = "up"

Orderly == AssertionsHold /\ OfflineStaysOffline /\ AnswersAreOfThisLink

LEMMA InitIsOrderly == Init => Orderly
  BY DEF Init, Orderly, AssertionsHold, OfflineStaysOffline, AnswersAreOfThisLink, Connected,
         Interrupted

\* A connection that was up is closed in order.
LEMMA DisconnectIsOrderly ==
  ASSUME TypeOK, Orderly, realtime # "none",
         NEW forced \in BOOLEAN, OnDisconnect(reasons', forced)
  PROVE  Orderly'
<1>1. /\ conn' = "disconnected" /\ realtime' = "none" /\ fetch' = fetch /\ toClient' = <<>>
      /\ reasons' # {} => retry' = retry
  BY DEF OnDisconnect, TryScheduleReconnect
<1>2. conn # "disconnected" /\ retry = "none"
  BY DEF Orderly, AssertionsHold, Connected, TypeOK
<1>3. AssertionsHold'
  BY <1>1 DEF AssertionsHold, Connected
<1>4. OfflineStaysOffline'
  BY <1>1, <1>2 DEF OfflineStaysOffline, Interrupted
<1>5. QED
  BY <1>1, <1>3, <1>4 DEF Orderly, AnswersAreOfThisLink

\* A connection that is not up stays disconnected, with or without a retry.
LEMMA ScheduleIsOrderly ==
  ASSUME TypeOK, Orderly, conn \in {"disconnected", "gettingToken"},
         conn' = "disconnected", realtime' = realtime, toClient' = toClient,
         fetch' \in {fetch, "none"},
         reasons' # {} => reasons # {},
         NEW forced \in BOOLEAN, TryScheduleReconnect(reasons', forced)
  PROVE  Orderly'
<1>1. reasons' # {} => retry' = retry
  BY DEF TryScheduleReconnect
<1>2. realtime = "none" /\ (reasons # {} => retry = "none")
  BY DEF Orderly, AssertionsHold, OfflineStaysOffline, Interrupted, Connected, TypeOK
<1>3. AssertionsHold'
  BY <1>2 DEF AssertionsHold, Connected
<1>4. OfflineStaysOffline'
  BY <1>1, <1>2 DEF OfflineStaysOffline, Interrupted
<1>5. QED
  BY <1>3, <1>4 DEF Orderly, AnswersAreOfThisLink

LEMMA InterruptIsOrderly ==
  ASSUME TypeOK, Orderly, NEW r \in Reasons, Interrupt(r)
  PROVE  Orderly'
<1>1. CASE realtime # "none"
  <2>1. OnDisconnect(reasons', force) /\ force \in BOOLEAN
    BY <1>1 DEF Interrupt, TypeOK
  <2>2. QED
    BY <1>1, <2>1, DisconnectIsOrderly
<1>2. CASE realtime = "none"
  BY <1>2 DEF Interrupt, Orderly, AssertionsHold, OfflineStaysOffline, AnswersAreOfThisLink,
              Interrupted, Connected, link
<1>3. QED
  BY <1>1, <1>2

LEMMA StepIsOrderly ==
  ASSUME TypeOK, Orderly, [Next]_vars
  PROVE  Orderly'
<1> USE DEF Orderly
<1>1. ASSUME UNCHANGED <<conn, reasons, retry, fetch, realtime>>,
             toClient' # <<>> => toClient # <<>> \/ realtime = "up"
      PROVE  Orderly'
  BY <1>1 DEF AssertionsHold, OfflineStaysOffline, AnswersAreOfThisLink, Connected, Interrupted
<1>2. CASE GoOffline \/ OnKill
  BY <1>2, InterruptIsOrderly DEF GoOffline, OnKill, Reasons
<1>3. CASE Drop
  BY <1>3, DisconnectIsOrderly DEF Drop, TypeOK
<1>4. CASE OnAuthRevoked
  <2>1. realtime # "none" /\ OnDisconnect(reasons', TRUE)
    BY <1>4 DEF OnAuthRevoked
  <2>2. QED
    BY <2>1, DisconnectIsOrderly
<1>5. CASE TokenFails
  <2>1. conn \in {"disconnected", "gettingToken"}
    BY <1>5 DEF TokenFails, AssertionsHold
  <2>2. QED
    BY <1>5, <2>1, ScheduleIsOrderly DEF TokenFails, TypeOK, link
<1>6. CASE Reachable
  BY <1>6, ScheduleIsOrderly DEF Reachable, TypeOK, link
<1>7. ASSUME NEW r \in Reasons, Resume(r) PROVE Orderly'
  <2>1. conn = "disconnected" /\ reasons # {}
    BY <1>7 DEF Resume, OfflineStaysOffline, Interrupted
  <2>2. QED
    BY <1>7, <2>1, ScheduleIsOrderly DEF Resume, TypeOK, link
<1>8. CASE RetryFires
  BY <1>8 DEF RetryFires, AssertionsHold, OfflineStaysOffline, AnswersAreOfThisLink, Connected,
              Interrupted, TypeOK, link
<1>9. ASSUME NEW some \in BOOLEAN, TokenArrives(some) PROVE Orderly'
  BY <1>9 DEF TokenArrives, StillWanted, AssertionsHold, OfflineStaysOffline,
              AnswersAreOfThisLink, Connected, Interrupted, TypeOK, link
<1>10. CASE OnReady
  <2>1. conn' \in {"authenticating", "connected"} /\ realtime' = "up"
        /\ UNCHANGED <<reasons, retry, fetch>>
    BY <1>10 DEF OnReady, RestoreState
  <2>2. conn = "connecting" /\ reasons = {} /\ retry = "none" /\ fetch = "none"
    BY <1>10 DEF OnReady, AssertionsHold, OfflineStaysOffline, Interrupted, TypeOK
  <2>3. QED
    BY <2>1, <2>2 DEF AssertionsHold, OfflineStaysOffline, AnswersAreOfThisLink, Connected,
                      Interrupted
<1>11. CASE AuthAnswered
  <2>1. realtime = "up" /\ Connected /\ reasons = {} /\ retry = "none" /\ fetch = "none"
    BY <1>11 DEF AuthAnswered, Answers, AssertionsHold, OfflineStaysOffline,
                 AnswersAreOfThisLink, Interrupted, Connected
  <2>2. CASE Head(toClient).ok
    <3>1. conn' = "connected" /\ UNCHANGED <<reasons, retry, fetch, realtime>>
      BY <1>11, <2>2 DEF AuthAnswered, RestoreState
    <3>2. QED
      BY <2>1, <3>1 DEF AssertionsHold, OfflineStaysOffline, AnswersAreOfThisLink, Connected,
                        Interrupted
  <2>3. CASE ~Head(toClient).ok
    <3>1. realtime # "none" /\ OnDisconnect(reasons', TRUE)
      BY <1>11, <2>1, <2>3 DEF AuthAnswered
    <3>2. QED
      BY <3>1, DisconnectIsOrderly
  <2>4. QED
    BY <2>2, <2>3
<1>12. CASE Serve
  <2>1. UNCHANGED session /\ (toClient' = toClient \/ realtime = "up")
    BY <1>12 DEF Serve
  <2>2. QED
    BY <1>1, <2>1 DEF session
<1>13. CASE ListenAnswered \/ PutAnswered
  <2>1. UNCHANGED session /\ toClient # <<>>
    BY <1>13 DEF ListenAnswered, PutAnswered, Answers
  <2>2. QED
    BY <1>1, <2>1 DEF session
<1>14. ASSUME NEW q \in Queries, Listen(q) \/ Unlisten(q) PROVE Orderly'
  BY <1>1, <1>14 DEF Listen, Unlisten, session
<1>15. CASE Put
  BY <1>1, <1>15 DEF Put, session
<1>16. ASSUME NEW some \in BOOLEAN, RefreshAuthToken(some) PROVE Orderly'
  BY <1>1, <1>16 DEF RefreshAuthToken
<1>17. CASE UNCHANGED vars
  BY <1>1, <1>17 DEF vars, session, link
<1>18. QED
  BY <1>2, <1>3, <1>4, <1>5, <1>6, <1>7, <1>8, <1>9, <1>10, <1>11, <1>12, <1>13, <1>14, <1>15,
     <1>16, <1>17
  DEF Next, Progress, Use, Trouble

LEMMA AlwaysOrderly == Spec => []Orderly
  BY InitIsOrderly, StepIsOrderly, TypeCorrect, PTL DEF Spec

\* The assertions that FPersistentConnection makes of its own state hold,
\* however retries, tokens, answers and interruptions interleave.
THEOREM NoAssertionFails == Spec => []AssertionsHold
<1>1. Orderly => AssertionsHold
  BY DEF Orderly
<1>2. QED
  BY <1>1, AlwaysOrderly, PTL

\* While the connection is interrupted nothing opens it.
THEOREM InterruptionLasts == Spec => []OfflineStaysOffline
<1>1. Orderly => OfflineStaysOffline
  BY DEF Orderly
<1>2. QED
  BY <1>1, AlwaysOrderly, PTL
-----------------------------------------------------------------------------
(* Writes.                                                                 *)

Done == held \cup completed

\* Every step but that of a write and its answer leaves alone who waits for what.
LEMMA WritesElsewhere ==
  ASSUME TypeOK, [Next]_vars
  PROVE  \/ Put \/ PutAnswered
         \/ UNCHANGED <<issued, outstanding, held, completed>>
         \/ ListenAnswered /\ UNCHANGED <<issued, outstanding>> /\ AckPuts
<1>1. CASE ListenAnswered
  BY <1>1 DEF ListenAnswered
<1>2. CASE Use
  BY <1>2 DEF Use, Listen, Unlisten, RefreshAuthToken, GoOffline, Interrupt, Resume, writes
<1>3. CASE Trouble \/ Reachable
  BY <1>3 DEF Trouble, Reachable, Drop, OnKill, Interrupt, TokenFails, OnAuthRevoked, writes
<1>4. CASE RetryFires \/ OnReady \/ Serve \/ AuthAnswered \/ \E some \in BOOLEAN : TokenArrives(some)
  BY <1>4 DEF RetryFires, OnReady, Serve, AuthAnswered, TokenArrives, writes
<1>5. CASE UNCHANGED vars
  BY <1>5 DEF vars, writes
<1>6. QED
  BY <1>1, <1>2, <1>3, <1>4, <1>5 DEF Next, Progress

\* What the database has dealt with only grows, and only when it serves.
LEMMA ServerElsewhere ==
  ASSUME TypeOK, [Next]_vars
  PROVE  Serve \/ UNCHANGED <<applied, reached>>
<1>1. CASE Use
  BY <1>1 DEF Use, Listen, Unlisten, Put, RefreshAuthToken, GoOffline, Interrupt, Resume, server
<1>2. CASE Trouble \/ Reachable
  BY <1>2 DEF Trouble, Reachable, Drop, OnKill, Interrupt, TokenFails, OnAuthRevoked, server
<1>3. CASE Progress
  BY <1>3 DEF Progress, RetryFires, OnReady, AuthAnswered, ListenAnswered, PutAnswered,
              TokenArrives, server
<1>4. CASE UNCHANGED vars
  BY <1>4 DEF vars, server
<1>5. QED
  BY <1>1, <1>2, <1>3, <1>4 DEF Next

\* A request to write, served.
LEMMA ServesWrite ==
  ASSUME Typed, Serve
  PROVE  /\ toServer # <<>> /\ toServer' = Tail(toServer)
         /\ \/ /\ Head(toServer).type = "put" /\ Head(toServer).id \in 1..issued
               /\ applied' = Head(toServer).id
               /\ reached' = (IF Head(toServer).id > reached THEN Head(toServer).id ELSE reached)
            \/ Head(toServer).type # "put" /\ UNCHANGED <<applied, reached>>
         /\ \/ toClient' = toClient
            \/ \E ok \in BOOLEAN :
                 /\ realtime = "up"
                 /\ toClient' = Append(toClient,
                                  Response(Head(toServer).type, Head(toServer).id, ok))
<1>1. toServer # <<>> /\ toServer' = Tail(toServer)
  BY DEF Serve
<1>2. Head(toServer).type = "put" => Head(toServer).id \in 1..issued
  BY <1>1, HeadAndTail DEF Typed, MessagesOK, RequestsUpTo
<1>3. \/ /\ Head(toServer).type = "put"
         /\ applied' = Head(toServer).id
         /\ reached' = (IF Head(toServer).id > reached THEN Head(toServer).id ELSE reached)
      \/ Head(toServer).type # "put" /\ UNCHANGED <<applied, reached>>
  BY DEF Serve, server
<1>4. \/ toClient' = toClient
      \/ \E ok \in BOOLEAN :
           /\ realtime = "up"
           /\ toClient' = Append(toClient, Response(Head(toServer).type, Head(toServer).id, ok))
  BY DEF Serve
<1>5. QED
  BY <1>1, <1>2, <1>3, <1>4

LEMMA ReachedGrows ==
  ASSUME Typed, [Next]_vars
  PROVE  reached' \in Nat /\ reached <= reached'
<1>1. reached \in Nat /\ issued \in Nat
  BY Bounds DEF Typed, TypeOK
<1>2. CASE UNCHANGED <<applied, reached>>
  BY <1>1, <1>2
<1>3. CASE Serve
  BY <1>1, <1>3, ServesWrite
<1>4. QED
  BY <1>2, <1>3, ServerElsewhere DEF Typed

LEMMA InitWrites == Init => EachWriteIsOnce
  BY DEF Init, EachWriteIsOnce

LEMMA StepKeepsWrites ==
  ASSUME Typed, EachWriteIsOnce, [Next]_vars
  PROVE  EachWriteIsOnce'
<1>1. /\ issued \in Nat /\ reached \in Nat /\ reached' \in Nat /\ reached <= reached'
      /\ outstanding \subseteq 1..issued /\ held \subseteq 1..issued /\ completed \subseteq 1..issued
  BY ReachedGrows, Bounds DEF Typed, TypeOK
<1>2. \A i \in held \cup completed : i <= reached'
  BY <1>1 DEF EachWriteIsOnce
<1>3. CASE UNCHANGED <<issued, outstanding, held, completed>>
  BY <1>2, <1>3 DEF EachWriteIsOnce
<1>4. CASE ListenAnswered /\ UNCHANGED <<issued, outstanding>> /\ AckPuts
  BY <1>2, <1>4 DEF EachWriteIsOnce, AckPuts
<1>5. CASE Put
  <2>1. /\ issued' = issued + 1 /\ outstanding' = outstanding \cup {issued + 1}
        /\ held' = held /\ completed' = completed
    BY <1>5 DEF Put, PutIndex
  <2>2. 1..issued' = (1..issued) \cup {issued + 1}
    BY <1>1, <2>1
  <2>3. issued + 1 \notin held \cup completed
    BY <1>1
  <2>4. QED
    BY <1>2, <2>1, <2>2, <2>3 DEF EachWriteIsOnce
<1>6. CASE PutAnswered
  <2> DEFINE i == Head(toClient).id
  <2>1. i <= reached'
    <3>1. toClient # <<>> /\ Head(toClient).type = "put"
      BY <1>6 DEF PutAnswered, Answers
    <3>2. Head(toClient) \in ResponsesUpTo(reached)
      BY <3>1, HeadAndTail DEF Typed, MessagesOK
    <3>3. i \in 1..reached
      BY <3>1, <3>2 DEF ResponsesUpTo
    <3>4. QED
      BY <1>1, <3>3
  <2>2. issued' = issued
    BY <1>6 DEF PutAnswered
  <2>3. \/ outstanding' = outstanding /\ held' = held /\ completed' = completed
        \/ /\ i \in outstanding /\ outstanding' = outstanding \ {i}
           /\ \/ held' = held /\ completed' = completed \cup {i}
              \/ held' = held \cup {i} /\ completed' = completed
    <3>1. CASE i \notin outstanding
      BY <1>6, <3>1 DEF PutAnswered
    <3>2. CASE i \in outstanding
      <4>1. outstanding' = outstanding \ {i}
        BY <1>6, <3>2 DEF PutAnswered
      <4>2. \/ held' = held /\ completed' = completed \cup {i}
            \/ held' = held \cup {i} /\ completed' = completed
        BY <1>6, <3>2 DEF PutAnswered
      <4>3. QED
        BY <3>2, <4>1, <4>2
    <3>3. QED
      BY <3>1, <3>2
  <2>4. /\ outstanding' \cup held' \cup completed' = 1..issued'
        /\ outstanding' \cap (held' \cup completed') = {} /\ held' \cap completed' = {}
    BY <2>2, <2>3, Zenon DEF EachWriteIsOnce
  <2>5. \A j \in held' \cup completed' : j <= reached'
    BY <1>2, <2>1, <2>3
  <2>6. QED
    BY <2>4, <2>5 DEF EachWriteIsOnce
<1>7. QED
  BY <1>3, <1>4, <1>5, <1>6, WritesElsewhere DEF Typed

\* No write is lost, completed twice, or acknowledged before the database has
\* dealt with it.
THEOREM WritesAreKept == Spec => []EachWriteIsOnce
  BY InitWrites, StepKeepsWrites, AlwaysTyped, PTL DEF Spec
-----------------------------------------------------------------------------
(* The writes among messages, and their order.                             *)

IsPut(m) == m.type = "put"
IsLogin(m) == m.type = "auth" /\ m.id = 1

PutsOf(s) == {s[i].id : i \in {k \in DOMAIN s : IsPut(s[k])}}
AscendingPuts(s) ==
  \A i, j \in DOMAIN s : i < j /\ IsPut(s[i]) /\ IsPut(s[j]) => s[i].id < s[j].id
NoLogin(s) == \A i \in DOMAIN s : ~IsLogin(s[i])

LEMMA EmptyPuts == PutsOf(<<>>) = {} /\ AscendingPuts(<<>>) /\ NoLogin(<<>>)
  BY DEF PutsOf, AscendingPuts, NoLogin

LEMMA TailPuts ==
  ASSUME NEW S, NEW s \in Seq(S), s # <<>>
  PROVE  /\ IsPut(Head(s)) => Head(s).id \in PutsOf(s)
         /\ PutsOf(Tail(s)) \subseteq PutsOf(s)
         /\ PutsOf(s) \subseteq PutsOf(Tail(s)) \cup {Head(s).id}
         /\ ~IsPut(Head(s)) => PutsOf(Tail(s)) = PutsOf(s)
         /\ AscendingPuts(s) => AscendingPuts(Tail(s))
         /\ AscendingPuts(s) /\ IsPut(Head(s)) => \A i \in PutsOf(Tail(s)) : Head(s).id < i
         /\ NoLogin(s) => NoLogin(Tail(s)) /\ ~IsLogin(Head(s))
<1>1. /\ Len(s) \in Nat \ {0} /\ DOMAIN s = 1..Len(s) /\ Head(s) = s[1]
      /\ DOMAIN Tail(s) = 1..(Len(s) - 1)
      /\ \A i \in DOMAIN Tail(s) : Tail(s)[i] = s[i + 1] /\ i + 1 \in DOMAIN s
      /\ \A i \in DOMAIN s : i # 1 => i - 1 \in DOMAIN Tail(s) /\ Tail(s)[i - 1] = s[i]
  <2>1. Len(s) \in Nat \ {0} /\ DOMAIN s = 1..Len(s) /\ Head(s) = s[1]
    OBVIOUS
  <2>2. Tail(s) \in Seq(S) /\ Len(Tail(s)) = Len(s) - 1
    OBVIOUS
  <2>3. DOMAIN Tail(s) = 1..(Len(s) - 1)
    BY <2>1, <2>2
  <2>4. \A i \in 1..(Len(s) - 1) : Tail(s)[i] = s[i + 1]
    OBVIOUS
  <2>5. \A i \in 1..(Len(s) - 1) : i + 1 \in 1..Len(s)
    BY <2>1
  <2>6. ASSUME NEW i \in 1..Len(s), i # 1
        PROVE  i - 1 \in 1..(Len(s) - 1) /\ Tail(s)[i - 1] = s[i]
    <3>1. i - 1 \in 1..(Len(s) - 1) /\ (i - 1) + 1 = i
      BY <2>1, <2>6
    <3>2. QED
      BY <2>4, <3>1
  <2>7. \A i \in DOMAIN Tail(s) : Tail(s)[i] = s[i + 1] /\ i + 1 \in DOMAIN s
    BY <2>1, <2>3, <2>4, <2>5
  <2>8. \A i \in DOMAIN s : i # 1 => i - 1 \in DOMAIN Tail(s) /\ Tail(s)[i - 1] = s[i]
    BY <2>1, <2>3, <2>6
  <2>9. QED
    BY <2>1, <2>3, <2>7, <2>8
<1>2. IsPut(Head(s)) => Head(s).id \in PutsOf(s)
  BY <1>1 DEF PutsOf
<1>3. PutsOf(Tail(s)) \subseteq PutsOf(s)
  BY <1>1 DEF PutsOf
<1>4. \A i \in PutsOf(s) : i \in PutsOf(Tail(s)) \/ (IsPut(Head(s)) /\ i = Head(s).id)
  <2> SUFFICES ASSUME NEW k \in DOMAIN s, IsPut(s[k])
               PROVE  s[k].id \in PutsOf(Tail(s)) \/ (IsPut(Head(s)) /\ s[k].id = Head(s).id)
    BY DEF PutsOf
  <2>1. CASE k = 1
    BY <1>1, <2>1
  <2>2. CASE k # 1
    BY <1>1, <2>2 DEF PutsOf
  <2>3. QED
    BY <2>1, <2>2
<1>5. AscendingPuts(s) => AscendingPuts(Tail(s))
  <2> SUFFICES ASSUME AscendingPuts(s), NEW i \in DOMAIN Tail(s), NEW j \in DOMAIN Tail(s), i < j,
                      IsPut(Tail(s)[i]), IsPut(Tail(s)[j])
               PROVE  Tail(s)[i].id < Tail(s)[j].id
    BY DEF AscendingPuts
  <2>1. i + 1 < j + 1
    BY <1>1
  <2>2. QED
    BY <1>1, <2>1 DEF AscendingPuts
<1>6. AscendingPuts(s) /\ IsPut(Head(s)) => \A i \in PutsOf(Tail(s)) : Head(s).id < i
  <2> SUFFICES ASSUME AscendingPuts(s), IsPut(Head(s)), NEW k \in DOMAIN Tail(s), IsPut(Tail(s)[k])
               PROVE  Head(s).id < Tail(s)[k].id
    BY DEF PutsOf
  <2>1. 1 < k + 1 /\ 1 \in DOMAIN s
    BY <1>1
  <2>2. QED
    BY <1>1, <2>1 DEF AscendingPuts
<1>7. NoLogin(s) => NoLogin(Tail(s)) /\ ~IsLogin(Head(s))
  BY <1>1 DEF NoLogin
<1>8. QED
  BY <1>2, <1>3, <1>4, <1>5, <1>6, <1>7

LEMMA AppendPuts ==
  ASSUME NEW S, NEW s \in Seq(S), NEW m
  PROVE  /\ PutsOf(Append(s, m)) = PutsOf(s) \cup (IF IsPut(m) THEN {m.id} ELSE {})
         /\ AscendingPuts(s) /\ (IsPut(m) => \A i \in PutsOf(s) : i < m.id)
              => AscendingPuts(Append(s, m))
         /\ NoLogin(s) /\ ~IsLogin(m) => NoLogin(Append(s, m))
<1> DEFINE t == Append(s, m)
<1>1. /\ Len(s) \in Nat /\ DOMAIN s = 1..Len(s) /\ DOMAIN t = 1..(Len(s) + 1)
      /\ t[Len(s) + 1] = m
      /\ \A i \in DOMAIN s : t[i] = s[i] /\ i \in DOMAIN t
      /\ \A i \in DOMAIN t : i \in DOMAIN s \/ i = Len(s) + 1
  OBVIOUS
<1> HIDE DEF t
<1>2. PutsOf(t) = PutsOf(s) \cup (IF IsPut(m) THEN {m.id} ELSE {})
  BY <1>1 DEF PutsOf
<1>3. AscendingPuts(s) /\ (IsPut(m) => \A i \in PutsOf(s) : i < m.id) => AscendingPuts(t)
  <2> SUFFICES ASSUME AscendingPuts(s), IsPut(m) => \A i \in PutsOf(s) : i < m.id,
                      NEW i \in DOMAIN t, NEW j \in DOMAIN t, i < j, IsPut(t[i]), IsPut(t[j])
               PROVE  t[i].id < t[j].id
    BY DEF AscendingPuts
  <2>1. i \in DOMAIN s
    BY <1>1
  <2>2. CASE j \in DOMAIN s
    BY <1>1, <2>1, <2>2 DEF AscendingPuts
  <2>3. CASE j = Len(s) + 1
    BY <1>1, <2>1, <2>3 DEF PutsOf
  <2>4. QED
    BY <1>1, <2>2, <2>3
<1>4. NoLogin(s) /\ ~IsLogin(m) => NoLogin(t)
  BY <1>1 DEF NoLogin
<1>5. QED
  BY <1>2, <1>3, <1>4 DEF t

LEMMA ConcatPuts ==
  ASSUME NEW S, NEW s \in Seq(S), NEW T, NEW t \in Seq(T)
  PROVE  /\ PutsOf(s \o t) = PutsOf(s) \cup PutsOf(t)
         /\ PutsOf(s) = {} /\ AscendingPuts(t) => AscendingPuts(s \o t)
         /\ NoLogin(s) /\ NoLogin(t) => NoLogin(s \o t)
<1> DEFINE u == s \o t
<1>1. /\ Len(s) \in Nat /\ Len(t) \in Nat /\ DOMAIN s = 1..Len(s) /\ DOMAIN t = 1..Len(t)
      /\ DOMAIN u = 1..(Len(s) + Len(t))
      /\ \A i \in DOMAIN s : u[i] = s[i] /\ i \in DOMAIN u
      /\ \A i \in DOMAIN t : u[Len(s) + i] = t[i] /\ Len(s) + i \in DOMAIN u
      /\ \A i \in DOMAIN u : i \notin DOMAIN s => i - Len(s) \in DOMAIN t /\ u[i] = t[i - Len(s)]
  <2>1. Len(s) \in Nat /\ Len(t) \in Nat /\ DOMAIN s = 1..Len(s) /\ DOMAIN t = 1..Len(t)
    OBVIOUS
  <2>2. DOMAIN u = 1..(Len(s) + Len(t))
    OBVIOUS
  <2>3. \A i \in 1..(Len(s) + Len(t)) : u[i] = IF i <= Len(s) THEN s[i] ELSE t[i - Len(s)]
    OBVIOUS
  <2>4. \A i \in 1..Len(t) : Len(s) + i \in 1..(Len(s) + Len(t)) /\ u[Len(s) + i] = t[i]
    <3> SUFFICES ASSUME NEW i \in 1..Len(t)
                 PROVE  Len(s) + i \in 1..(Len(s) + Len(t)) /\ u[Len(s) + i] = t[i]
      OBVIOUS
    <3>1. /\ Len(s) + i \in 1..(Len(s) + Len(t)) /\ ~(Len(s) + i <= Len(s))
          /\ (Len(s) + i) - Len(s) = i
      BY <2>1
    <3>2. QED
      BY <2>3, <3>1
  <2>5. \A i \in 1..(Len(s) + Len(t)) :
          i \notin 1..Len(s) => i - Len(s) \in 1..Len(t) /\ u[i] = t[i - Len(s)]
    <3> SUFFICES ASSUME NEW i \in 1..(Len(s) + Len(t)), i \notin 1..Len(s)
                 PROVE  i - Len(s) \in 1..Len(t) /\ u[i] = t[i - Len(s)]
      OBVIOUS
    <3>1. i - Len(s) \in 1..Len(t) /\ ~(i <= Len(s))
      BY <2>1
    <3>2. QED
      BY <2>3, <3>1
  <2>6. \A i \in 1..Len(s) : u[i] = s[i] /\ i \in 1..(Len(s) + Len(t))
    BY <2>1, <2>3
  <2>7. QED
    BY <2>1, <2>2, <2>4, <2>5, <2>6
<1> HIDE DEF u
<1>2. PutsOf(u) = PutsOf(s) \cup PutsOf(t)
  <2>1. \A x \in PutsOf(u) : x \in PutsOf(s) \cup PutsOf(t)
    BY <1>1 DEF PutsOf
  <2>2. \A x \in PutsOf(s) \cup PutsOf(t) : x \in PutsOf(u)
    BY <1>1 DEF PutsOf
  <2>3. QED
    BY <2>1, <2>2
<1>3. PutsOf(s) = {} /\ AscendingPuts(t) => AscendingPuts(u)
  <2> SUFFICES ASSUME PutsOf(s) = {}, AscendingPuts(t),
                      NEW i \in DOMAIN u, NEW j \in DOMAIN u, i < j, IsPut(u[i]), IsPut(u[j])
               PROVE  u[i].id < u[j].id
    BY DEF AscendingPuts
  <2>1. i \notin DOMAIN s /\ j \notin DOMAIN s
    BY <1>1, ZenonT(30) DEF PutsOf
  <2>2. i - Len(s) < j - Len(s)
    BY <1>1
  <2>3. QED
    BY <1>1, <2>1, <2>2 DEF AscendingPuts
<1>4. NoLogin(s) /\ NoLogin(t) => NoLogin(u)
  BY <1>1 DEF NoLogin
<1>5. QED
  BY <1>2, <1>3, <1>4 DEF u
\* An enumeration of a finite set reaches all of it.
LEMMA OrdersAreComplete ==
  ASSUME NEW S, IsFiniteSet(S), NEW s \in Orders(S)
  PROVE  /\ Cardinality(S) \in Nat /\ DOMAIN s = 1..Cardinality(S)
         /\ \A i \in DOMAIN s : s[i] \in S
         /\ \A x \in S : \E i \in DOMAIN s : s[i] = x
<1>1. Cardinality(S) \in Nat
  BY FS_CardinalityType
<1>2. s \in [1..Cardinality(S) -> S] /\ DOMAIN s = 1..Cardinality(S)
  BY DEF Orders
<1>3. s \in Injection(1..Cardinality(S), S)
  BY <1>2 DEF Orders, Injection, IsInjective
<1>4. Cardinality(1..Cardinality(S)) = Cardinality(S)
  BY <1>1, FS_Interval
<1>5. s \in Surjection(1..Cardinality(S), S)
  BY <1>3, <1>4, FS_Injection
<1>6. QED
  BY <1>1, <1>2, <1>5 DEF Surjection

\* After messages without writes, restoreState sends every write that has not
\* been acknowledged, in order, and no login.
LEMMA RestoreStatePuts ==
  ASSUME TypeOK, NEW sent \in Seq(RequestsUpTo(issued)), PutsOf(sent) = {}, NoLogin(sent),
         RestoreState(sent)
  PROVE  /\ PutsOf(toServer') = outstanding
         /\ AscendingPuts(toServer') /\ NoLogin(toServer')
<1>1. issued \in Nat /\ listens \in [Queries -> Nat] /\ outstanding \subseteq 1..issued
  BY Bounds DEF TypeOK
<1>2. IsFiniteSet(Listening) /\ IsFiniteSet(outstanding)
  <2>1. IsFiniteSet(1..issued)
    BY <1>1, FS_Interval
  <2>2. QED
    BY <1>1, <2>1, GuardedQueries, FS_Subset DEF Listening
<1>3. PICK qs \in Orders(Listening), ps \in Ascending(ToSend) :
        toServer' = sent \o [i \in DOMAIN qs |-> ListenTo(qs[i], listens[qs[i]])]
                         \o [i \in DOMAIN ps |-> Request("put", ps[i])]
  BY DEF RestoreState
<1> DEFINE ls == [i \in DOMAIN qs |-> ListenTo(qs[i], listens[qs[i]])]
           us == [i \in DOMAIN ps |-> Request("put", ps[i])]
<1>4. /\ ls \in Seq(RequestsUpTo(issued))
      /\ PutsOf(ls) = {} /\ NoLogin(ls)
  <2>1. /\ Cardinality(Listening) \in Nat /\ DOMAIN qs = 1..Cardinality(Listening)
        /\ \A i \in DOMAIN qs : qs[i] \in Queries
    BY <1>2, OrdersAreComplete DEF Listening
  <2>2. \A i \in DOMAIN qs : ls[i] \in RequestsUpTo(issued) /\ ls[i].type = "listen"
    BY <1>1, <2>1, RequestTypes DEF ListenTo
  <2>3. QED
    BY <2>1, <2>2 DEF PutsOf, NoLogin, IsPut, IsLogin
<1>5. ps \in Orders(outstanding) /\ \A i, j \in DOMAIN ps : i < j => ps[i] < ps[j]
  BY DEF Ascending, ToSend
<1>6. /\ Cardinality(outstanding) \in Nat /\ DOMAIN ps = 1..Cardinality(outstanding)
      /\ \A i \in DOMAIN ps : ps[i] \in outstanding
      /\ \A x \in outstanding : \E i \in DOMAIN ps : ps[i] = x
  BY <1>2, <1>5, OrdersAreComplete
<1>7. \A i \in DOMAIN ps : /\ us[i] \in RequestsUpTo(issued) /\ us[i].type = "put"
                           /\ us[i].id = ps[i]
  BY <1>1, <1>6, RequestTypes DEF Request
<1>8. us \in Seq(RequestsUpTo(issued)) /\ DOMAIN us = DOMAIN ps
  BY <1>6, <1>7
<1> HIDE DEF ls, us
<1>9. PutsOf(us) = outstanding
  BY <1>6, <1>7, <1>8 DEF PutsOf, IsPut
<1>10. AscendingPuts(us)
  BY <1>5, <1>7, <1>8 DEF AscendingPuts
<1>11. NoLogin(us)
  BY <1>7, <1>8 DEF NoLogin, IsLogin
<1>12. /\ sent \o ls \in Seq(RequestsUpTo(issued))
       /\ PutsOf(sent \o ls) = {} /\ NoLogin(sent \o ls)
  BY <1>4, ConcatPuts
<1>13. toServer' = (sent \o ls) \o us
  BY <1>3 DEF ls, us
<1> DEFINE ws == sent \o ls
<1> HIDE DEF ws
<1>14. ws \in Seq(RequestsUpTo(issued)) /\ PutsOf(ws) = {} /\ NoLogin(ws) /\ toServer' = ws \o us
  BY <1>12, <1>13 DEF ws
<1>15. PutsOf(ws \o us) = {} \cup outstanding /\ AscendingPuts(ws \o us) /\ NoLogin(ws \o us)
  BY <1>8, <1>9, <1>10, <1>11, <1>14, ConcatPuts
<1>16. QED
  BY <1>14, <1>15
-----------------------------------------------------------------------------
(* The login of a connection comes first, and only it restores the state.  *)

LoginComesFirst ==
  /\ conn = "connected" => NoLogin(toServer) /\ NoLogin(toClient)
  /\ conn = "authenticating" =>
       \/ /\ toClient = <<>> /\ toServer # <<>>
          /\ IsLogin(Head(toServer)) /\ NoLogin(Tail(toServer))
       \/ /\ toClient # <<>> /\ IsLogin(Head(toClient))
          /\ NoLogin(Tail(toClient)) /\ NoLogin(toServer)

LEMMA TailOfAppend ==
  ASSUME NEW S, NEW s \in Seq(S), NEW m \in S
  PROVE  /\ Append(s, m) # <<>>
         /\ s # <<>> => Head(Append(s, m)) = Head(s) /\ Tail(Append(s, m)) = Append(Tail(s), m)
         /\ s = <<>> => Head(Append(s, m)) = m /\ Tail(Append(s, m)) = <<>>
  OBVIOUS

\* Anything but a login may be sent on an open connection.
LEMMA SendKeepsLogin ==
  ASSUME Typed, LoginComesFirst, conn' = conn, toClient' = toClient,
         NEW m \in RequestsUpTo(issued'), ~IsLogin(m), issued' \in {issued, issued + 1},
         toServer' = toServer \/ toServer' = Append(toServer, m)
  PROVE  LoginComesFirst'
<1>1. issued \in Nat /\ issued' \in Nat /\ issued <= issued'
  BY Bounds DEF Typed, TypeOK
<1>2. toServer \in Seq(RequestsUpTo(issued'))
  BY <1>1, MoreRequests DEF Typed, MessagesOK
<1>3. CASE toServer' = toServer
  BY <1>3 DEF LoginComesFirst
<1>4. CASE toServer' = Append(toServer, m)
  <2>1. NoLogin(toServer) => NoLogin(toServer')
    BY <1>2, <1>4, AppendPuts
  <2>2. ASSUME toServer # <<>>, IsLogin(Head(toServer)), NoLogin(Tail(toServer))
        PROVE  toServer' # <<>> /\ IsLogin(Head(toServer')) /\ NoLogin(Tail(toServer'))
    <3>1. Tail(toServer) \in Seq(RequestsUpTo(issued'))
      BY <1>2, <2>2, HeadAndTail
    <3>2. NoLogin(Append(Tail(toServer), m))
      BY <2>2, <3>1, AppendPuts
    <3>3. QED
      BY <1>2, <1>4, <2>2, <3>2, TailOfAppend, ZenonT(30)
  <2>3. QED
    BY <2>1, <2>2 DEF LoginComesFirst
<1>5. QED
  BY <1>3, <1>4

LEMMA AnswersWhenUp ==
  ASSUME Serve
  PROVE  /\ realtime = "up" /\ Head(toServer).type \in {"put", "auth"} =>
              \E ok \in BOOLEAN :
                toClient' = Append(toClient, Response(Head(toServer).type, Head(toServer).id, ok))
         /\ realtime # "up" => toClient' = toClient
  BY DEF Serve

LEMMA ServeKeepsLogin ==
  ASSUME Typed, Orderly, LoginComesFirst, Serve
  PROVE  LoginComesFirst'
<1>1. conn' = conn /\ toServer # <<>> /\ toServer' = Tail(toServer)
  BY DEF Serve, session
<1>2. toServer \in Seq(RequestsUpTo(issued)) /\ toClient \in Seq(ResponsesUpTo(reached))
  BY DEF Typed, MessagesOK
<1>3. NoLogin(toServer) => NoLogin(toServer') /\ ~IsLogin(Head(toServer))
  BY <1>1, <1>2, TailPuts
<1>4. ASSUME NEW ok \in BOOLEAN,
             toClient' = Append(toClient, Response(Head(toServer).type, Head(toServer).id, ok))
      PROVE  LoginComesFirst'
  <2> DEFINE a == Response(Head(toServer).type, Head(toServer).id, ok)
  <2>1. IsLogin(a) <=> IsLogin(Head(toServer))
    BY DEF IsLogin, Response
  <2> HIDE DEF a
  <2>2. NoLogin(toClient) /\ ~IsLogin(a) => NoLogin(toClient')
    BY <1>2, <1>4, AppendPuts DEF a
  <2>3. CASE conn = "connected"
    BY <1>1, <1>3, <2>1, <2>2, <2>3 DEF LoginComesFirst
  <2>4. CASE conn = "authenticating" /\ toClient = <<>>
    <3>1. toClient' = <<a>>
      BY <1>4, <2>4 DEF a
    <3>2. toClient' # <<>> /\ Head(toClient') = a /\ Tail(toClient') = <<>>
      BY <3>1
    <3>3. IsLogin(Head(toServer)) /\ NoLogin(toServer')
      BY <1>1, <2>4 DEF LoginComesFirst
    <3>4. IsLogin(Head(toClient')) /\ NoLogin(Tail(toClient'))
      BY <2>1, <3>2, <3>3, EmptyPuts
    <3>5. conn' = "authenticating"
      BY <1>1, <2>4
    <3>6. QED
      BY <3>2, <3>3, <3>4, <3>5 DEF LoginComesFirst
  <2>5. CASE conn = "authenticating" /\ toClient # <<>>
    <3>1. IsLogin(Head(toClient)) /\ NoLogin(Tail(toClient)) /\ NoLogin(toServer)
      BY <2>5 DEF LoginComesFirst
    <3>2. Tail(toClient) \in Seq(ResponsesUpTo(reached))
      BY <1>2, <2>5, HeadAndTail
    <3>3. NoLogin(Append(Tail(toClient), a))
      BY <1>3, <2>1, <3>1, <3>2, AppendPuts
    <3>4. toClient' # <<>> /\ Head(toClient') = Head(toClient)
          /\ Tail(toClient') = Append(Tail(toClient), a)
      BY <1>2, <1>4, <2>5 DEF a
    <3>5. conn' = "authenticating" /\ NoLogin(toServer')
      BY <1>1, <1>3, <2>5, <3>1
    <3>6. QED
      BY <3>1, <3>3, <3>4, <3>5 DEF LoginComesFirst
  <2>6. QED
    BY <1>1, <2>3, <2>4, <2>5 DEF LoginComesFirst
<1>5. CASE toClient' = toClient
  <2>1. ~(conn = "authenticating" /\ toClient = <<>>)
    <3> SUFFICES ASSUME conn = "authenticating", toClient = <<>> PROVE FALSE
      OBVIOUS
    <3>1. realtime = "up" /\ Head(toServer).type = "auth"
      BY DEF Orderly, AssertionsHold, Connected, LoginComesFirst, IsLogin
    <3>2. PICK ok \in BOOLEAN :
            toClient' = Append(toClient, Response(Head(toServer).type, Head(toServer).id, ok))
      BY <3>1, AnswersWhenUp
    <3>3. toClient' # <<>>
      BY <3>2
    <3>4. QED
      BY <1>5, <3>3
  <2>2. QED
    BY <1>1, <1>3, <1>5, <2>1 DEF LoginComesFirst
<1>6. QED
  BY <1>4, <1>5, ServesWrite
-----------------------------------------------------------------------------
(* The order of writes: in either direction, and across both, each is later *)
(* than the one before; all that are to be acknowledged are under way.     *)

PutsAreInOrder ==
  /\ AscendingPuts(toServer) /\ AscendingPuts(toClient)
  /\ \A i \in PutsOf(toClient) : i <= applied /\ \A j \in PutsOf(toServer) : i < j
  /\ \A i \in PutsOf(toServer) :
       /\ \A d \in Done : d < i
       /\ \A j \in 1..(i - 1) : j <= reached \/ j \in PutsOf(toServer)
  /\ \A d \in Done, o \in outstanding : d < o
  /\ conn = "connected" => outstanding \subseteq PutsOf(toClient) \cup PutsOf(toServer)
  /\ conn = "authenticating" => PutsOf(toServer) = {} /\ PutsOf(toClient) = {}

Ordered == LoginComesFirst /\ PutsAreInOrder

\* All that is known of a state.
Known == Typed /\ Orderly /\ EachWriteIsOnce /\ Ordered

LEMMA PutsAreNumbers ==
  ASSUME Typed
  PROVE  PutsOf(toServer) \subseteq 1..issued /\ PutsOf(toClient) \subseteq 1..reached
<1>1. issued \in Nat /\ reached \in Nat
  BY Bounds DEF Typed, TypeOK
<1>2. /\ \A i \in DOMAIN toServer : toServer[i] \in RequestsUpTo(issued)
      /\ \A i \in DOMAIN toClient : toClient[i] \in ResponsesUpTo(reached)
  BY DEF Typed, MessagesOK
<1>3. QED
  BY <1>2 DEF PutsOf, IsPut, RequestsUpTo, ResponsesUpTo

Quiet == UNCHANGED <<issued, outstanding, applied, reached>> /\ Done' = Done

\* A step that takes no write under way, and puts none.
LEMMA NothingMoves ==
  ASSUME PutsAreInOrder, Quiet,
         AscendingPuts(toServer'), PutsOf(toServer') = PutsOf(toServer),
         AscendingPuts(toClient'), PutsOf(toClient') = PutsOf(toClient),
         conn' \in {"connected", "authenticating"} => conn' = conn
  PROVE  PutsAreInOrder'
  BY DEF PutsAreInOrder, Quiet

\* The connection is lost.
LEMMA AnswersAreLost ==
  ASSUME PutsAreInOrder, Quiet, toServer' = toServer, toClient' = <<>>,
         conn' \notin {"connected", "authenticating"}
  PROVE  PutsAreInOrder'
  BY EmptyPuts DEF PutsAreInOrder, Quiet

\* The state is restored, or will be.
LEMMA StateIsRestored ==
  ASSUME Known, Quiet, PutsOf(toClient') = {}, AscendingPuts(toServer'), AscendingPuts(toClient'),
         \/ PutsOf(toServer') = outstanding /\ conn' = "connected"
         \/ PutsOf(toServer') = {} /\ conn' = "authenticating"
  PROVE  PutsAreInOrder'
<1>1. /\ issued \in Nat /\ outstanding \subseteq 1..issued
      /\ \A j \in 1..issued : j \in outstanding \/ j <= reached
      /\ \A d \in Done, o \in outstanding : d < o
  BY Bounds, SMTT(30) DEF Known, Typed, TypeOK, EachWriteIsOnce, Done, Ordered, PutsAreInOrder
<1>2. \A i \in outstanding : \A j \in 1..(i - 1) : j <= reached \/ j \in outstanding
  BY <1>1
<1>3. QED
  BY <1>1, <1>2 DEF PutsAreInOrder, Quiet

LEMMA PutKeepsOrder ==
  ASSUME Known, Put
  PROVE  PutsAreInOrder'
<1>1. /\ issued \in Nat /\ reached \in Nat /\ reached <= issued /\ applied \in Nat
      /\ outstanding \subseteq 1..issued /\ Done \subseteq 1..issued
      /\ \A j \in 1..issued : j \in outstanding \/ j <= reached
  BY Bounds DEF Known, Typed, TypeOK, EachWriteIsOnce, Done
<1>2. PutsOf(toServer) \subseteq 1..issued /\ PutsOf(toClient) \subseteq 1..reached
  BY PutsAreNumbers DEF Known
<1> DEFINE n == issued + 1
<1>3. /\ issued' = n /\ outstanding' = outstanding \cup {n} /\ Done' = Done
      /\ UNCHANGED <<conn, toClient, applied, reached>>
  BY DEF Put, PutIndex, Done, session, server
<1>4. \A d \in Done', o \in outstanding' : d < o
  BY <1>1, <1>3 DEF Known, Ordered, PutsAreInOrder
<1>5. CASE conn = "connected"
  <2>1. toServer' = Append(toServer, Request("put", n))
    BY <1>5 DEF Put, PutIndex, CanSendWrites
  <2>2. IsPut(Request("put", n)) /\ Request("put", n).id = n
    BY DEF IsPut, Request
  <2>3. AscendingPuts(toServer) /\ \A i \in PutsOf(toServer) : i < n
    BY <1>1, <1>2 DEF Known, Ordered, PutsAreInOrder
  <2>4. PutsOf(toServer') = PutsOf(toServer) \cup {n} /\ AscendingPuts(toServer')
    <3>1. toServer \in Seq(RequestsUpTo(issued))
      BY DEF Known, Typed, MessagesOK
    <3>2. QED
      BY <2>1, <2>2, <2>3, <3>1, AppendPuts
  <2>5. \A i \in PutsOf(toClient) : i <= applied /\ \A j \in PutsOf(toServer') : i < j
    BY <1>1, <1>2, <2>4 DEF Known, Ordered, PutsAreInOrder
  <2>6. \A d \in Done : d < n
    BY <1>1
  <2>7. \A j \in 1..(n - 1) : j <= reached \/ j \in PutsOf(toServer)
    <3> SUFFICES ASSUME NEW j \in 1..issued, j \in outstanding
                 PROVE  j <= reached \/ j \in PutsOf(toServer)
      BY <1>1
    <3>1. j \in PutsOf(toClient) \/ j \in PutsOf(toServer)
      BY <1>5 DEF Known, Ordered, PutsAreInOrder
    <3>2. QED
      BY <1>1, <1>2, <3>1
  <2>8. \A i \in PutsOf(toServer') :
          /\ \A d \in Done : d < i
          /\ \A j \in 1..(i - 1) : j <= reached \/ j \in PutsOf(toServer')
    BY <2>4, <2>6, <2>7 DEF Known, Ordered, PutsAreInOrder
  <2>9. outstanding' \subseteq PutsOf(toClient) \cup PutsOf(toServer')
    BY <1>3, <1>5, <2>4 DEF Known, Ordered, PutsAreInOrder
  <2>10. AscendingPuts(toClient)
    BY DEF Known, Ordered, PutsAreInOrder
  <2>11. QED
    BY <1>3, <1>4, <1>5, <2>4, <2>5, <2>8, <2>9, <2>10 DEF PutsAreInOrder
<1>6. CASE conn # "connected"
  <2>1. toServer' = toServer
    BY <1>6 DEF Put, CanSendWrites
  <2>2. QED
    BY <1>3, <1>4, <1>6, <2>1 DEF Known, Ordered, PutsAreInOrder
<1>7. QED
  BY <1>5, <1>6
\* The answer to a write is the one to the first of those that wait.
LEMMA FirstAnswered ==
  ASSUME Known, PutAnswered
  PROVE  LET i == Head(toClient).id
         IN  /\ conn = "connected" /\ conn' = conn /\ toServer' = toServer
             /\ UNCHANGED <<issued, applied, reached>>
             /\ AscendingPuts(toClient')
             /\ i \in PutsOf(toClient)
             /\ \A k \in PutsOf(toClient') : i < k
             /\ PutsOf(toClient') \subseteq PutsOf(toClient)
             /\ PutsOf(toClient) \subseteq PutsOf(toClient') \cup {i}
             /\ \A k \in outstanding : k # i => i < k
             /\ \/ i \notin outstanding /\ outstanding' = outstanding /\ Done' = Done
                \/ /\ i \in outstanding /\ outstanding' = outstanding \ {i}
                   /\ Done' = Done \cup {i}
<1> DEFINE i == Head(toClient).id
<1>1. toClient # <<>> /\ IsPut(Head(toClient)) /\ toClient' = Tail(toClient)
  BY DEF PutAnswered, Answers, IsPut
<1>2. toClient \in Seq(ResponsesUpTo(reached)) /\ AscendingPuts(toClient)
  BY DEF Known, Typed, MessagesOK, Ordered, PutsAreInOrder
<1>3. /\ i \in PutsOf(toClient) /\ AscendingPuts(toClient')
      /\ \A k \in PutsOf(toClient') : i < k
      /\ PutsOf(toClient') \subseteq PutsOf(toClient)
      /\ PutsOf(toClient) \subseteq PutsOf(toClient') \cup {i}
  BY <1>1, <1>2, TailPuts
<1>4. conn = "connected"
  <2>1. conn \in {"connected", "authenticating"}
    BY <1>1 DEF Known, Orderly, AnswersAreOfThisLink, AssertionsHold, Connected
  <2>2. conn # "authenticating"
    BY <1>3 DEF Known, Ordered, PutsAreInOrder
  <2>3. QED
    BY <2>1, <2>2
<1>5. /\ conn' = conn /\ toServer' = toServer /\ UNCHANGED <<issued, applied, reached>>
  BY DEF PutAnswered, session, server
<1>6. \A k \in outstanding : k # i => i < k
  <2>1. outstanding \subseteq PutsOf(toClient) \cup PutsOf(toServer)
    BY <1>4 DEF Known, Ordered, PutsAreInOrder
  <2>2. \A k \in PutsOf(toServer) : i < k
    BY <1>3 DEF Known, Ordered, PutsAreInOrder
  <2>3. QED
    BY <1>3, <2>1, <2>2
<1>7. CASE i \notin outstanding
  <2>1. outstanding' = outstanding /\ Done' = Done
    BY <1>7 DEF PutAnswered, Done
  <2>2. QED
    BY <1>3, <1>4, <1>5, <1>6, <1>7, <2>1
<1>8. CASE i \in outstanding
  <2>1. outstanding' = outstanding \ {i}
    BY <1>8 DEF PutAnswered
  <2>2. \/ held' = held /\ completed' = completed \cup {i}
        \/ held' = held \cup {i} /\ completed' = completed
    BY <1>8 DEF PutAnswered
  <2>3. Done' = Done \cup {i}
    BY <2>2 DEF Done
  <2>4. QED
    BY <1>3, <1>4, <1>5, <1>6, <1>8, <2>1, <2>3
<1>9. QED
  BY <1>7, <1>8

LEMMA AnswerKeepsOrder ==
  ASSUME Known, PutAnswered
  PROVE  PutsAreInOrder'
<1> DEFINE i == Head(toClient).id
<1>1. /\ conn = "connected" /\ conn' = conn /\ toServer' = toServer
      /\ UNCHANGED <<issued, applied, reached>>
      /\ AscendingPuts(toClient') /\ i \in PutsOf(toClient)
      /\ \A k \in PutsOf(toClient') : i < k
      /\ PutsOf(toClient') \subseteq PutsOf(toClient)
      /\ PutsOf(toClient) \subseteq PutsOf(toClient') \cup {i}
      /\ \A k \in outstanding : k # i => i < k
      /\ \/ i \notin outstanding /\ outstanding' = outstanding /\ Done' = Done
         \/ i \in outstanding /\ outstanding' = outstanding \ {i} /\ Done' = Done \cup {i}
  BY FirstAnswered
<1> HIDE DEF i
<1>2. PutsAreInOrder
  BY DEF Known, Ordered
<1>3. \A d \in Done', o \in outstanding' : d < o
  BY <1>1, <1>2 DEF PutsAreInOrder
<1>4. \A p \in PutsOf(toServer) : /\ \A d \in Done' : d < p
                                  /\ \A j \in 1..(p - 1) : j <= reached \/ j \in PutsOf(toServer)
  BY <1>1, <1>2 DEF PutsAreInOrder
<1>5. outstanding' \subseteq PutsOf(toClient') \cup PutsOf(toServer)
  BY <1>1, <1>2 DEF PutsAreInOrder
<1>6. \A k \in PutsOf(toClient') : k <= applied /\ \A j \in PutsOf(toServer) : k < j
  BY <1>1, <1>2 DEF PutsAreInOrder
<1>7. AscendingPuts(toServer)
  BY <1>2 DEF PutsAreInOrder
<1>8. QED
  BY <1>1, <1>3, <1>4, <1>5, <1>6, <1>7 DEF PutsAreInOrder

\* The write that the database deals with is the first under way, and the next
\* it has not dealt with, or one that it has.
LEMMA FirstServed ==
  ASSUME Known, Serve, IsPut(Head(toServer))
  PROVE  LET h == Head(toServer).id
         IN  /\ UNCHANGED <<conn, issued, outstanding, held, completed>>
             /\ applied' = h /\ reached' = (IF h > reached THEN h ELSE reached)
             /\ h \in 1..issued /\ h <= reached + 1 /\ h \in PutsOf(toServer)
             /\ AscendingPuts(toServer')
             /\ PutsOf(toServer') \subseteq PutsOf(toServer)
             /\ PutsOf(toServer) \subseteq PutsOf(toServer') \cup {h}
             /\ \A k \in PutsOf(toServer') : h < k
<1> DEFINE h == Head(toServer).id
<1>1. /\ toServer # <<>> /\ toServer' = Tail(toServer) /\ h \in 1..issued
      /\ applied' = h /\ reached' = (IF h > reached THEN h ELSE reached)
  BY ServesWrite DEF Known, IsPut
<1>2. toServer \in Seq(RequestsUpTo(issued)) /\ AscendingPuts(toServer)
  BY DEF Known, Typed, MessagesOK, Ordered, PutsAreInOrder
<1>3. /\ h \in PutsOf(toServer) /\ AscendingPuts(toServer')
      /\ PutsOf(toServer') \subseteq PutsOf(toServer)
      /\ PutsOf(toServer) \subseteq PutsOf(toServer') \cup {h}
      /\ \A k \in PutsOf(toServer') : h < k
  BY <1>1, <1>2, TailPuts
<1>4. h <= reached + 1
  <2>1. reached \in Nat /\ h \in Nat /\ h >= 1 /\ issued \in Nat
    BY <1>1, Bounds DEF Known, Typed, TypeOK
  <2>2. CASE h = 1
    BY <2>1, <2>2
  <2>3. CASE h # 1
    <3>1. h - 1 \in 1..(h - 1)
      BY <2>1, <2>3
    <3>2. h - 1 <= reached \/ h - 1 \in PutsOf(toServer)
      BY <1>3, <3>1 DEF Known, Ordered, PutsAreInOrder
    <3>3. h - 1 \notin PutsOf(toServer)
      BY <1>3, <2>1
    <3>4. QED
      BY <2>1, <3>2, <3>3
  <2>4. QED
    BY <2>2, <2>3
<1>5. UNCHANGED <<conn, issued, outstanding, held, completed>>
  BY DEF Serve, session, writes
<1>6. QED
  BY <1>1, <1>3, <1>4, <1>5

LEMMA ServeKeepsOrder ==
  ASSUME Known, Serve
  PROVE  PutsAreInOrder'
<1>1. toServer # <<>> /\ toServer' = Tail(toServer)
  BY DEF Serve
<1>2. toServer \in Seq(RequestsUpTo(issued)) /\ toClient \in Seq(ResponsesUpTo(reached))
  BY DEF Known, Typed, MessagesOK
<1>3. PutsAreInOrder
  BY DEF Known, Ordered
<1>4. CASE ~IsPut(Head(toServer))
  <2>1. PutsOf(toServer') = PutsOf(toServer) /\ AscendingPuts(toServer')
    BY <1>1, <1>2, <1>3, <1>4, TailPuts DEF PutsAreInOrder
  <2>2. PutsOf(toClient') = PutsOf(toClient) /\ AscendingPuts(toClient')
    <3>1. CASE toClient' = toClient
      BY <1>3, <3>1 DEF PutsAreInOrder
    <3>2. ASSUME NEW ok \in BOOLEAN,
                 toClient' = Append(toClient, Response(Head(toServer).type, Head(toServer).id, ok))
          PROVE  PutsOf(toClient') = PutsOf(toClient) /\ AscendingPuts(toClient')
      <4>1. ~IsPut(Response(Head(toServer).type, Head(toServer).id, ok))
        BY <1>4 DEF IsPut, Response
      <4>2. QED
        BY <1>2, <1>3, <3>2, <4>1, AppendPuts DEF PutsAreInOrder
    <3>3. QED
      BY <3>1, <3>2, ServesWrite DEF Known
  <2>3. Quiet /\ conn' = conn
    <3>1. UNCHANGED <<conn, issued, outstanding, held, completed>>
      BY DEF Serve, session, writes
    <3>2. UNCHANGED <<applied, reached>>
      BY <1>4, ServesWrite DEF Known, IsPut
    <3>3. QED
      BY <3>1, <3>2 DEF Quiet, Done
  <2>4. QED
    BY <1>3, <2>1, <2>2, <2>3, NothingMoves
<1>5. CASE IsPut(Head(toServer))
  <2> DEFINE h == Head(toServer).id
  <2>1. /\ UNCHANGED <<conn, issued, outstanding, held, completed>>
        /\ applied' = h /\ reached' = (IF h > reached THEN h ELSE reached)
        /\ h \in 1..issued /\ h \in PutsOf(toServer)
        /\ AscendingPuts(toServer')
        /\ PutsOf(toServer') \subseteq PutsOf(toServer)
        /\ PutsOf(toServer) \subseteq PutsOf(toServer') \cup {h}
        /\ \A k \in PutsOf(toServer') : h < k
    BY <1>5, FirstServed
  <2>2. /\ reached \in Nat /\ reached' \in Nat /\ h \in Nat /\ issued \in Nat
        /\ reached <= reached' /\ h <= reached'
    BY <2>1, Bounds DEF Known, Typed, TypeOK
  <2>3. /\ conn # "authenticating"
        /\ conn = "connected" => realtime = "up"
    BY <1>3, <2>1 DEF PutsAreInOrder, Known, Orderly, AssertionsHold, Connected
  <2>4. \/ toClient' = toClient /\ conn # "connected"
        \/ PutsOf(toClient') = PutsOf(toClient) \cup {h} /\ AscendingPuts(toClient')
    <3>1. CASE realtime # "up"
      BY <2>3, <3>1, AnswersWhenUp
    <3>2. CASE realtime = "up"
      <4>1. PICK ok \in BOOLEAN : toClient' = Append(toClient, Response("put", h, ok))
        BY <1>5, <3>2, AnswersWhenUp DEF IsPut
      <4>2. IsPut(Response("put", h, ok)) /\ Response("put", h, ok).id = h
        BY DEF IsPut, Response
      <4>3. \A i \in PutsOf(toClient) : i < h
        BY <1>3, <2>1 DEF PutsAreInOrder
      <4>4. QED
        BY <1>2, <1>3, <4>1, <4>2, <4>3, AppendPuts DEF PutsAreInOrder
    <3>3. QED
      BY <3>1, <3>2
  <2> HIDE DEF h
  <2>5. AscendingPuts(toClient') /\ PutsOf(toClient') \subseteq PutsOf(toClient) \cup {h}
    BY <1>3, <2>4 DEF PutsAreInOrder
  <2>6. \A i \in PutsOf(toClient') : i <= applied' /\ \A j \in PutsOf(toServer') : i < j
    <3>1. PutsOf(toClient) \subseteq Nat
      BY PutsAreNumbers, <2>2 DEF Known
    <3>2. \A i \in PutsOf(toClient) : i < h /\ \A j \in PutsOf(toServer') : i < j
      BY <1>3, <2>1 DEF PutsAreInOrder
    <3>3. QED
      BY <2>1, <2>2, <2>5, <3>1, <3>2
  <2>7. \A i \in PutsOf(toServer') :
          /\ \A d \in Done : d < i
          /\ \A j \in 1..(i - 1) : j <= reached' \/ j \in PutsOf(toServer')
    <3> SUFFICES ASSUME NEW i \in PutsOf(toServer')
                 PROVE  /\ \A d \in Done : d < i
                        /\ \A j \in 1..(i - 1) : j <= reached' \/ j \in PutsOf(toServer')
      OBVIOUS
    <3>1. \A d \in Done : d < i
      BY <1>3, <2>1 DEF PutsAreInOrder
    <3>2. \A j \in 1..(i - 1) : j <= reached \/ j \in PutsOf(toServer)
      BY <1>3, <2>1 DEF PutsAreInOrder
    <3>3. QED
      BY <2>1, <2>2, <3>1, <3>2
  <2>8. conn = "connected" => outstanding \subseteq PutsOf(toClient') \cup PutsOf(toServer')
    BY <1>3, <2>1, <2>4 DEF PutsAreInOrder
  <2>9. Done' = Done
    BY <2>1 DEF Done
  <2>10. \A d \in Done, o \in outstanding : d < o
    BY <1>3 DEF PutsAreInOrder
  <2>11. QED
    BY <2>1, <2>3, <2>5, <2>6, <2>7, <2>8, <2>9, <2>10 DEF PutsAreInOrder
<1>6. QED
  BY <1>4, <1>5
LEMMA InitIsOrdered == Init => Ordered
<1> SUFFICES ASSUME Init PROVE Ordered
  OBVIOUS
<1>1. LoginComesFirst
  BY DEF Init, LoginComesFirst
<1>2. /\ PutsOf(toServer) = {} /\ PutsOf(toClient) = {}
      /\ AscendingPuts(toServer) /\ AscendingPuts(toClient)
      /\ Done = {} /\ outstanding = {}
  BY EmptyPuts DEF Init, Done
<1>3. QED
  BY <1>1, <1>2 DEF Ordered, PutsAreInOrder

\* Steps after which the connection is down.
LEMMA DownIsOrdered ==
  ASSUME Known, Quiet, toServer' = toServer, toClient' = <<>>,
         conn' \notin {"connected", "authenticating"}
  PROVE  Ordered'
  BY AnswersAreLost DEF Known, Ordered, LoginComesFirst

LEMMA InterruptIsOrdered ==
  ASSUME Known, NEW r \in Reasons, Interrupt(r)
  PROVE  Ordered'
<1>1. Quiet
  BY DEF Interrupt, Quiet, writes, Done
<1>2. conn' = "disconnected" /\ toServer' = toServer /\ toClient' = <<>>
  <2>1. CASE realtime # "none"
    BY <2>1 DEF Interrupt, OnDisconnect
  <2>2. CASE realtime = "none"
    BY <2>2 DEF Interrupt, link, Known, Orderly, AnswersAreOfThisLink
  <2>3. QED
    BY <2>1, <2>2
<1>3. QED
  BY <1>1, <1>2, DownIsOrdered

\* What has not been heard of an old connection is forgotten with a new one.
LEMMA ReadyIsOrdered ==
  ASSUME Known, OnReady
  PROVE  Ordered'
<1>1. Quiet /\ toClient' = toClient /\ toClient = <<>> /\ TypeOK
  BY DEF OnReady, Quiet, writes, server, Done, Known, Typed, Orderly, AnswersAreOfThisLink
<1>2. PutsOf(toClient') = {} /\ AscendingPuts(toClient') /\ NoLogin(toClient')
  BY <1>1, EmptyPuts
<1>3. CASE token
  <2>1. toServer' = <<Request("auth", 1)>> /\ conn' = "authenticating"
    BY <1>3 DEF OnReady
  <2>2. /\ toServer' # <<>> /\ Head(toServer') = Request("auth", 1) /\ Tail(toServer') = <<>>
        /\ DOMAIN toServer' = {1} /\ toServer'[1] = Request("auth", 1)
    BY <2>1
  <2>3. IsLogin(Head(toServer')) /\ NoLogin(Tail(toServer'))
    <3>1. IsLogin(Request("auth", 1))
      BY DEF IsLogin, Request
    <3>2. NoLogin(<<>>)
      BY EmptyPuts
    <3>3. QED
      BY <2>2, <3>1, <3>2
  <2>4. PutsOf(toServer') = {} /\ AscendingPuts(toServer')
    BY <2>2 DEF PutsOf, AscendingPuts, IsPut, Request
  <2>5. PutsAreInOrder'
    BY <1>1, <1>2, <2>1, <2>4, StateIsRestored
  <2>6. LoginComesFirst'
    BY <1>1, <2>1, <2>2, <2>3 DEF LoginComesFirst
  <2>7. QED
    BY <2>5, <2>6 DEF Ordered
<1>4. CASE ~token
  <2>1. RestoreState(<<>>) /\ <<>> \in Seq(RequestsUpTo(issued))
    BY <1>4 DEF OnReady
  <2>2. PutsOf(toServer') = outstanding /\ AscendingPuts(toServer') /\ NoLogin(toServer')
    BY <1>1, <2>1, EmptyPuts, RestoreStatePuts
  <2>3. conn' = "connected"
    BY <2>1 DEF RestoreState
  <2>4. PutsAreInOrder'
    BY <1>1, <1>2, <2>2, <2>3, StateIsRestored
  <2>5. QED
    BY <1>2, <2>2, <2>3, <2>4 DEF Ordered, LoginComesFirst
<1>5. QED
  BY <1>3, <1>4

LEMMA AuthIsOrdered ==
  ASSUME Known, AuthAnswered
  PROVE  Ordered'
<1>1. Quiet /\ TypeOK
  BY DEF AuthAnswered, Quiet, writes, Done, Known, Typed
<1>2. toClient # <<>> /\ Head(toClient).type = "auth" /\ conn \in {"connected", "authenticating"}
  BY DEF AuthAnswered, Answers, Known, Orderly, AnswersAreOfThisLink, AssertionsHold, Connected
<1>3. toClient \in Seq(ResponsesUpTo(reached)) /\ toServer \in Seq(RequestsUpTo(issued))
  BY DEF Known, Typed, MessagesOK
<1>4. LoginComesFirst /\ PutsAreInOrder
  BY DEF Known, Ordered
<1>5. CASE ~Head(toClient).ok
  <2>1. OnDisconnect(reasons, TRUE)
    BY <1>5 DEF AuthAnswered
  <2>2. conn' = "disconnected" /\ toServer' = toServer /\ toClient' = <<>>
    BY <2>1 DEF OnDisconnect
  <2>3. QED
    BY <1>1, <2>2, DownIsOrdered
<1>6. CASE Head(toClient).ok
  <2>1. toClient' = Tail(toClient)
    BY <1>6 DEF AuthAnswered
  <2>2. PutsOf(toClient') = PutsOf(toClient) /\ AscendingPuts(toClient')
    BY <1>2, <1>3, <1>4, <2>1, TailPuts DEF PutsAreInOrder, IsPut
  <2>3. NoLogin(toClient) => NoLogin(toClient') /\ ~IsLogin(Head(toClient))
    BY <1>2, <1>3, <2>1, TailPuts
  <2>4. CASE Head(toClient).id = 1
    <3>1. conn = "authenticating" /\ NoLogin(toClient') /\ NoLogin(toServer)
      BY <1>2, <1>4, <2>1, <2>3, <2>4 DEF LoginComesFirst, IsLogin
    <3>2. PutsOf(toServer) = {} /\ PutsOf(toClient') = {}
      BY <1>4, <2>2, <3>1 DEF PutsAreInOrder
    <3>3. RestoreState(toServer)
      BY <1>6, <2>4 DEF AuthAnswered
    <3>4. PutsOf(toServer') = outstanding /\ AscendingPuts(toServer') /\ NoLogin(toServer')
      BY <1>1, <1>3, <3>1, <3>2, <3>3, RestoreStatePuts
    <3>5. conn' = "connected"
      BY <3>3 DEF RestoreState
    <3>6. PutsAreInOrder'
      BY <1>1, <2>2, <3>2, <3>4, <3>5, StateIsRestored
    <3>7. QED
      BY <3>1, <3>4, <3>5, <3>6 DEF Ordered, LoginComesFirst
  <2>5. CASE Head(toClient).id # 1
    <3>1. conn' = "connected" /\ toServer' = toServer
      BY <1>6, <2>5 DEF AuthAnswered
    <3>2. conn = "connected"
      BY <1>2, <1>4, <2>5 DEF LoginComesFirst, IsLogin
    <3>3. PutsAreInOrder'
      BY <1>1, <1>4, <2>2, <3>1, <3>2, NothingMoves DEF PutsAreInOrder
    <3>4. QED
      BY <1>4, <2>3, <3>1, <3>2, <3>3 DEF Ordered, LoginComesFirst
  <2>6. QED
    BY <2>4, <2>5
<1>7. QED
  BY <1>5, <1>6

\* The app's requests other than writes.
LEMMA RequestIsOrdered ==
  ASSUME Known, Quiet, conn' = conn, toClient' = toClient,
         NEW m \in RequestsUpTo(issued), ~IsLogin(m), ~IsPut(m),
         toServer' = toServer \/ toServer' = Append(toServer, m)
  PROVE  Ordered'
<1>1. issued' = issued /\ PutsAreInOrder /\ toServer \in Seq(RequestsUpTo(issued))
  BY DEF Quiet, Known, Ordered, Typed, MessagesOK
<1>2. LoginComesFirst'
  BY <1>1, SendKeepsLogin DEF Known, Ordered
<1>3. PutsOf(toServer') = PutsOf(toServer) /\ AscendingPuts(toServer')
  <2>1. CASE toServer' = toServer
    BY <1>1, <2>1 DEF PutsAreInOrder
  <2>2. CASE toServer' = Append(toServer, m)
    BY <1>1, <2>2, AppendPuts DEF PutsAreInOrder
  <2>3. QED
    BY <2>1, <2>2
<1>4. PutsAreInOrder'
  BY <1>1, <1>3, NothingMoves DEF PutsAreInOrder
<1>5. QED
  BY <1>2, <1>4 DEF Ordered

LEMMA UseIsOrdered ==
  ASSUME Known,
         \/ \E q \in Queries : Listen(q) \/ Unlisten(q)
         \/ Put \/ \E some \in BOOLEAN : RefreshAuthToken(some)
  PROVE  Ordered'
<1>1. issued \in Nat /\ made \in Nat /\ made + 1 \in Nat
  BY Bounds DEF Known, Typed, TypeOK
<1>2. ASSUME NEW q \in Queries, Listen(q) PROVE Ordered'
  <2> DEFINE m == ListenTo(q, made + 1)
  <2>1. m \in RequestsUpTo(issued) /\ ~IsLogin(m) /\ ~IsPut(m)
    <3>1. m \in RequestsUpTo(issued)
      BY <1>1, RequestTypes
    <3>2. m.type = "listen"
      BY DEF ListenTo
    <3>3. QED
      BY <3>1, <3>2 DEF IsLogin, IsPut
  <2>2. Quiet /\ conn' = conn /\ toClient' = toClient
    BY <1>2 DEF Listen, Quiet, session, writes, server, Done
  <2>3. toServer' = toServer \/ toServer' = Append(toServer, m)
    BY <1>2 DEF Listen
  <2> HIDE DEF m
  <2>4. QED
    BY <2>1, <2>2, <2>3, RequestIsOrdered
<1>3. ASSUME NEW q \in Queries, Unlisten(q) PROVE Ordered'
  <2> DEFINE m == [type |-> "unlisten", id |-> 0, query |-> q]
  <2>1. m \in RequestsUpTo(issued) /\ ~IsLogin(m) /\ ~IsPut(m)
    BY <1>1, RequestTypes DEF IsLogin, IsPut
  <2>2. Quiet /\ conn' = conn /\ toClient' = toClient
    BY <1>3 DEF Unlisten, Quiet, session, writes, server, Done
  <2>3. toServer' = toServer \/ toServer' = Append(toServer, m)
    BY <1>3 DEF Unlisten
  <2> HIDE DEF m
  <2>4. QED
    BY <2>1, <2>2, <2>3, RequestIsOrdered
<1>4. CASE Put
  <2> DEFINE m == Request("put", issued + 1)
  <2>1. m \in RequestsUpTo(issued + 1) /\ ~IsLogin(m)
    <3>1. m \in RequestsUpTo(issued + 1)
      BY <1>1, RequestTypes
    <3>2. m.type = "put"
      BY DEF Request
    <3>3. QED
      BY <3>1, <3>2 DEF IsLogin
  <2>2. issued' = issued + 1 /\ conn' = conn /\ toClient' = toClient
    BY <1>4 DEF Put, session
  <2>3. toServer' = toServer \/ toServer' = Append(toServer, m)
    BY <1>4 DEF Put, PutIndex
  <2> HIDE DEF m
  <2>4. LoginComesFirst'
    BY <2>1, <2>2, <2>3, SendKeepsLogin DEF Known, Ordered
  <2>5. QED
    BY <1>4, <2>4, PutKeepsOrder DEF Ordered
<1>5. ASSUME NEW some \in BOOLEAN, RefreshAuthToken(some) PROVE Ordered'
  <2> DEFINE m == Request(IF some THEN "auth" ELSE "unauth", 0)
  <2>1. m \in RequestsUpTo(issued) /\ ~IsLogin(m) /\ ~IsPut(m)
    <3>1. m \in RequestsUpTo(issued)
      BY <1>1, RequestTypes
    <3>2. m.id = 0 /\ m.type \in {"auth", "unauth"}
      BY DEF Request
    <3>3. QED
      BY <3>1, <3>2 DEF IsLogin, IsPut
  <2>2. Quiet /\ conn' = conn /\ toClient' = toClient
    BY <1>5 DEF RefreshAuthToken, Quiet, writes, server, Done
  <2>3. toServer' = toServer \/ toServer' = Append(toServer, m)
    BY <1>5 DEF RefreshAuthToken
  <2> HIDE DEF m
  <2>4. QED
    BY <2>1, <2>2, <2>3, RequestIsOrdered
<1>6. QED
  BY <1>2, <1>3, <1>4, <1>5
LEMMA StepIsOrdered ==
  ASSUME Known, [Next]_vars
  PROVE  Ordered'
<1> USE DEF Ordered
<1>1. TypeOK /\ LoginComesFirst /\ PutsAreInOrder
  BY DEF Known, Typed
<1>2. CASE GoOffline \/ OnKill
  BY <1>2, InterruptIsOrdered DEF GoOffline, OnKill, Reasons
<1>3. CASE Drop \/ OnAuthRevoked
  <2>1. Quiet
    BY <1>3 DEF Drop, OnAuthRevoked, Quiet, writes, Done
  <2>2. toServer' = toServer /\ toClient' = <<>> /\ conn' = "disconnected"
    BY <1>3 DEF Drop, OnAuthRevoked, OnDisconnect
  <2>3. QED
    BY <2>1, <2>2, DownIsOrdered DEF Ordered
<1>4. ASSUME Quiet, toServer' = toServer, toClient' = toClient,
             conn' \in {"connected", "authenticating"} => conn' = conn
      PROVE  Ordered'
  <2>1. PutsAreInOrder'
    BY <1>1, <1>4, NothingMoves DEF PutsAreInOrder
  <2>2. QED
    BY <1>1, <1>4, <2>1 DEF LoginComesFirst
<1>5. CASE TokenFails \/ Reachable \/ RetryFires
  <2>1. Quiet /\ toServer' = toServer /\ toClient' = toClient
    BY <1>5 DEF TokenFails, Reachable, RetryFires, Quiet, link, writes, server, Done
  <2>2. conn' \notin {"connected", "authenticating"} \/ conn' = conn
    BY <1>5 DEF TokenFails, Reachable, RetryFires
  <2>3. QED
    BY <1>4, <2>1, <2>2
<1>6. ASSUME NEW r \in Reasons, Resume(r) PROVE Ordered'
  BY <1>4, <1>6 DEF Resume, Quiet, link, writes, server, Done
<1>7. ASSUME NEW some \in BOOLEAN, TokenArrives(some) PROVE Ordered'
  <2>1. Quiet /\ toServer' = toServer /\ toClient' = toClient
    BY <1>7 DEF TokenArrives, Quiet, link, writes, server, Done
  <2>2. conn' = "connecting" \/ conn' = conn
    BY <1>7 DEF TokenArrives
  <2>3. QED
    BY <1>4, <2>1, <2>2
<1>8. CASE UNCHANGED vars
  BY <1>4, <1>8 DEF vars, session, link, writes, server, Quiet, Done
<1>9. CASE OnReady \/ AuthAnswered
  BY <1>9, ReadyIsOrdered, AuthIsOrdered
<1>10. CASE ListenAnswered \/ PutAnswered
  <2>1. toClient # <<>> /\ Head(toClient).type # "auth" /\ toClient' = Tail(toClient)
        /\ toServer' = toServer /\ conn' = conn
    BY <1>10 DEF ListenAnswered, PutAnswered, Answers, session
  <2>2. toClient \in Seq(ResponsesUpTo(reached))
    BY DEF Known, Typed, MessagesOK
  <2>3. LoginComesFirst'
    <3>1. conn # "authenticating"
      BY <1>1, <2>1 DEF LoginComesFirst, IsLogin
    <3>2. NoLogin(toClient) => NoLogin(toClient')
      BY <2>1, <2>2, TailPuts
    <3>3. QED
      BY <1>1, <2>1, <3>1, <3>2 DEF LoginComesFirst
  <2>4. PutsAreInOrder'
    <3>1. CASE PutAnswered
      BY <3>1, AnswerKeepsOrder
    <3>2. CASE ListenAnswered
      <4>1. Head(toClient).type = "listen"
        BY <3>2 DEF ListenAnswered, Answers
      <4>2. PutsOf(toClient') = PutsOf(toClient) /\ AscendingPuts(toClient')
        BY <1>1, <2>1, <2>2, <4>1, TailPuts DEF IsPut, PutsAreInOrder
      <4>3. Quiet
        <5>1. UNCHANGED <<issued, outstanding, applied, reached>>
          BY <3>2 DEF ListenAnswered, server
        <5>2. AckPuts \/ UNCHANGED <<completed, held>>
          BY <3>2 DEF ListenAnswered
        <5>3. QED
          BY <5>1, <5>2 DEF Quiet, Done, AckPuts
      <4>4. QED
        BY <1>1, <2>1, <4>2, <4>3, NothingMoves DEF PutsAreInOrder
    <3>3. QED
      BY <1>10, <3>1, <3>2
  <2>5. QED
    BY <2>3, <2>4
<1>11. CASE Serve
  BY <1>11, ServeKeepsLogin, ServeKeepsOrder DEF Known
<1>12. QED
  BY <1>2, <1>3, <1>5, <1>6, <1>7, <1>8, <1>9, <1>10, <1>11, UseIsOrdered
  DEF Next, Progress, Use, Trouble

LEMMA AlwaysKnown == Spec => []Known
<1>1. Init => Known
  BY InitIsTyped, InitIsOrderly, InitWrites, InitIsOrdered DEF Known
<1>2. Known /\ [Next]_vars => Known'
  BY StepIsTyped, StepIsOrderly, StepKeepsWrites, StepIsOrdered DEF Known, Typed
<1>3. QED
  BY <1>1, <1>2, PTL DEF Spec

-----------------------------------------------------------------------------
(* What becomes of a device's writes.                                      *)

LEMMA StepDelivers ==
  ASSUME Known, [Next]_vars
  PROVE  [Device!Next]_(Device!vars)
<1> USE DEF Done
<1>1. CASE UNCHANGED <<issued, reached, applied>> /\ Done' = Done
  BY <1>1 DEF Device!vars
<1>2. CASE Put
  <2>1. issued' = issued + 1 /\ Done' = Done /\ UNCHANGED <<reached, applied>>
    BY <1>2 DEF Put, server
  <2>2. Device!Issue
    BY <2>1 DEF Device!Issue
  <2>3. QED
    BY <2>2 DEF Device!Next
<1>3. CASE PutAnswered
  <2> DEFINE i == Head(toClient).id
  <2>1. /\ UNCHANGED <<issued, applied, reached>>
        /\ i \in PutsOf(toClient)
        /\ \A k \in outstanding : k # i => i < k
        /\ \/ i \notin outstanding /\ Done' = Done
           \/ i \in outstanding /\ Done' = Done \cup {i}
    BY <1>3, FirstAnswered
  <2> HIDE DEF i
  <2>2. CASE i \notin outstanding
    BY <1>1, <2>1, <2>2
  <2>3. CASE i \in outstanding
    <3>1. /\ issued \in Nat /\ outstanding \cup Done = 1..issued /\ outstanding \cap Done = {}
      BY Bounds DEF Known, Typed, TypeOK, EachWriteIsOnce
    <3>2. i \in 1..issued /\ i \notin Done
      BY <2>3, <3>1
    <3>3. \A j \in 1..(i - 1) : j \in Done
      <4> SUFFICES ASSUME NEW j \in 1..(i - 1) PROVE j \in Done
        OBVIOUS
      <4>1. j \in 1..issued /\ ~(i < j) /\ j # i
        BY <3>1, <3>2
      <4>2. j \notin outstanding
        BY <2>1, <4>1
      <4>3. QED
        BY <3>1, <4>1, <4>2
    <3>4. i <= applied
      BY <2>1 DEF Known, Ordered, PutsAreInOrder
    <3>5. Device!Acknowledge(i)
      BY <2>1, <2>3, <3>2, <3>3, <3>4 DEF Device!Acknowledge
    <3>6. QED
      BY <3>2, <3>5 DEF Device!Next
  <2>4. QED
    BY <2>2, <2>3
<1>4. CASE Serve
  <2>1. CASE ~IsPut(Head(toServer))
    <3>1. UNCHANGED <<applied, reached>>
      BY <1>4, <2>1, ServesWrite DEF Known, IsPut
    <3>2. UNCHANGED <<issued, held, completed>>
      BY <1>4 DEF Serve, writes
    <3>3. QED
      BY <1>1, <3>1, <3>2
  <2>2. CASE IsPut(Head(toServer))
    <3> DEFINE h == Head(toServer).id
    <3>1. /\ UNCHANGED <<issued, held, completed>>
          /\ applied' = h /\ reached' = (IF h > reached THEN h ELSE reached)
          /\ h \in 1..issued /\ h <= reached + 1 /\ h \in PutsOf(toServer)
      BY <1>4, <2>2, FirstServed
    <3> HIDE DEF h
    <3>2. \A d \in Done : d < h
      BY <3>1 DEF Known, Ordered, PutsAreInOrder
    <3>3. Device!Apply(h)
      BY <3>1, <3>2 DEF Device!Apply
    <3>4. QED
      BY <3>1, <3>3 DEF Device!Next
  <2>3. QED
    BY <2>1, <2>2
<1>5. CASE UNCHANGED <<issued, outstanding, held, completed>> /\ UNCHANGED <<applied, reached>>
  BY <1>1, <1>5
<1>6. CASE /\ ListenAnswered /\ UNCHANGED <<issued, outstanding>> /\ AckPuts
           /\ UNCHANGED <<applied, reached>>
  BY <1>1, <1>6 DEF AckPuts
<1>7. TypeOK
  BY DEF Known, Typed
<1>8. QED
  BY <1>2, <1>3, <1>4, <1>5, <1>6, <1>7, WritesElsewhere, ServerElsewhere

\* Whatever becomes of its connections, a device's writes reach the database in
\* order, none before the one before it; one may be applied again until it is
\* acknowledged, and acknowledgements come in order too.
THEOREM WritesAreDeliveredInOrder == Spec => WritesAreDelivered
<1>1. Init => Device!Init
  BY DEF Init, Device!Init
<1>2. Known /\ [Next]_vars => [Device!Next]_(Device!vars)
  BY StepDelivers
<1>3. QED
  BY <1>1, <1>2, AlwaysKnown, PTL DEF Spec, WritesAreDelivered, Device!Spec

-----------------------------------------------------------------------------
(* Listens, from the request to the answer.                                *)

\* What takes q from the database, or asks for it by another listen than n.
Other(m, q, n) ==
  m.type \in {"listen", "unlisten"} /\ m.query = q /\ (m.type = "listen" => m.id # n)

AsksFor(m, q, n) == m.type = "listen" /\ m.query = q /\ m.id = n

Refuses(m, n) == m.type = "listen" /\ m.id = n /\ ~m.ok

\* Listen n to q is on its way to the database, and is the last that it hears of q.
Pending(s, q, n) ==
  \E i \in 1..Len(s) : AsksFor(s[i], q, n) /\ \A j \in 1..Len(s) : j > i => ~Other(s[j], q, n)

\* The database has dealt with it, and will hear of no other.
Settled(s, t, w, q, n) ==
  /\ \A j \in 1..Len(s) : ~Other(s[j], q, n)
  /\ q \in w \/ \E k \in 1..Len(t) : Refuses(t[k], n)

Heard(s, t, w, q, n) == Pending(s, q, n) \/ Settled(s, t, w, q, n)

ListensAreHeard ==
  conn = "connected" => \A q \in Listening : Heard(toServer, toClient, watched, q, listens[q])

ListensIn(s) == {i \in DOMAIN s : s[i].type = "listen"}

\* unackedListensCount is what its name says.
ListensAreCounted ==
  unacked = IF Connected THEN Cardinality(ListensIn(toServer)) + Cardinality(ListensIn(toClient))
                         ELSE 0

\* What the database dealt with last is not older than what it has acknowledged.
DoneIsApplied == \A d \in held \cup completed : d <= applied

InSync == ListensAreHeard /\ ListensAreCounted /\ DoneIsApplied


LEMMA ConcatListens ==
  ASSUME NEW S, NEW s \in Seq(S), NEW T, NEW t \in Seq(T)
  PROVE  /\ Cardinality(ListensIn(s)) \in Nat /\ Cardinality(ListensIn(t)) \in Nat
         /\ Cardinality(ListensIn(s \o t)) = Cardinality(ListensIn(s)) + Cardinality(ListensIn(t))
<1> DEFINE u == s \o t
           n == Len(s)
           A == ListensIn(s)
           B == ListensIn(t)
           C == ListensIn(u) \ A
           f == [i \in B |-> n + i]
<1>1. /\ n \in Nat /\ Len(t) \in Nat /\ DOMAIN s = 1..n /\ DOMAIN t = 1..Len(t)
      /\ DOMAIN u = 1..(n + Len(t))
      /\ \A i \in 1..(n + Len(t)) : u[i] = IF i <= n THEN s[i] ELSE t[i - n]
  OBVIOUS
<1> HIDE DEF u, n
<1>2. A \subseteq 1..n /\ B \subseteq 1..Len(t)
  BY <1>1 DEF ListensIn
<1>3. IsFiniteSet(A) /\ IsFiniteSet(B)
  <2>1. IsFiniteSet(1..n) /\ IsFiniteSet(1..Len(t))
    BY <1>1, FS_Interval
  <2> QED
    BY <1>2, <2>1, FS_Subset
<1>4. A \subseteq ListensIn(u)
  <2> SUFFICES ASSUME NEW i \in 1..n, s[i].type = "listen" PROVE i \in DOMAIN u /\ u[i] = s[i]
    BY <1>1 DEF ListensIn
  <2> QED
    BY <1>1
<1>5. \A i \in C : i - n \in B /\ i \in Nat
  <2> SUFFICES ASSUME NEW i \in 1..(n + Len(t)), u[i].type = "listen", i \notin A
               PROVE  i - n \in 1..Len(t) /\ t[i - n].type = "listen" /\ i \in Nat
    BY <1>1 DEF ListensIn
  <2>1. ~(i <= n)
    BY <1>1 DEF ListensIn
  <2> QED
    BY <1>1, <2>1
<1>6. \A i \in B : n + i \in C
  <2> SUFFICES ASSUME NEW i \in 1..Len(t), t[i].type = "listen"
               PROVE  n + i \in 1..(n + Len(t)) /\ u[n + i] = t[i] /\ n + i \notin 1..n
    BY <1>1, <1>2 DEF ListensIn
  <2>1. n + i \in 1..(n + Len(t)) /\ ~(n + i <= n) /\ (n + i) - n = i
    BY <1>1
  <2> QED
    BY <1>1, <2>1
<1>7. f \in Bijection(B, C)
  <2>1. f \in [B -> C]
    BY <1>6
  <2>2. \A i, j \in B : f[i] = f[j] => i = j
    BY <1>1, <1>2
  <2>3. \A c \in C : \E i \in B : f[i] = c
    <3> SUFFICES ASSUME NEW c \in C PROVE c - n \in B /\ f[c - n] = c
      OBVIOUS
    <3> QED
      BY <1>1, <1>5
  <2> HIDE DEF f, B, C
  <2> QED
    BY <2>1, <2>2, <2>3 DEF Bijection, Injection, Surjection, IsInjective
<1> HIDE DEF A, B, C, f
<1>8. IsFiniteSet(C) /\ Cardinality(C) = Cardinality(B)
  BY <1>3, <1>7, FS_Bijection DEF ExistsBijection
<1>9. ListensIn(u) = A \cup C /\ A \cap C = {}
  BY <1>4 DEF C
<1>10. Cardinality(A) \in Nat /\ Cardinality(B) \in Nat /\ Cardinality(A \cap C) = 0
  BY <1>3, <1>9, FS_CardinalityType, FS_EmptySet
<1>11. Cardinality(ListensIn(u)) = Cardinality(A) + Cardinality(C) - Cardinality(A \cap C)
  BY <1>3, <1>8, <1>9, FS_Union
<1> QED
  BY <1>8, <1>10, <1>11 DEF u, A, B

LEMMA OneListen ==
  ASSUME NEW m
  PROVE  Cardinality(ListensIn(<<m>>)) = IF m.type = "listen" THEN 1 ELSE 0
<1>1. DOMAIN <<m>> = {1} /\ <<m>>[1] = m
  OBVIOUS
<1>2. ListensIn(<<m>>) = IF m.type = "listen" THEN {1} ELSE {}
  BY <1>1 DEF ListensIn
<1> QED
  BY <1>2, FS_Singleton, FS_EmptySet

\* Of a sequence: without its head, with one more message, and when it is empty.
LEMMA ListensChange ==
  ASSUME NEW S, NEW s \in Seq(S)
  PROVE  /\ Cardinality(ListensIn(s)) \in Nat
         /\ Cardinality(ListensIn(<<>>)) = 0
         /\ s # <<>> => Cardinality(ListensIn(s)) =
                          Cardinality(ListensIn(Tail(s))) + (IF Head(s).type = "listen" THEN 1 ELSE 0)
         /\ \A m : Cardinality(ListensIn(Append(s, m))) =
                     Cardinality(ListensIn(s)) + (IF m.type = "listen" THEN 1 ELSE 0)
<1>1. Cardinality(ListensIn(s)) \in Nat
  BY ConcatListens
<1>2. Cardinality(ListensIn(<<>>)) = 0
  BY FS_EmptySet DEF ListensIn
<1>3. ASSUME s # <<>>
      PROVE  Cardinality(ListensIn(s)) =
               Cardinality(ListensIn(Tail(s))) + (IF Head(s).type = "listen" THEN 1 ELSE 0)
  <2> DEFINE h == Head(s)
             t == Tail(s)
  <2>1. s = <<h>> \o t /\ h \in S /\ t \in Seq(S) /\ <<h>> \in Seq(S)
    BY <1>3
  <2> HIDE DEF h, t
  <2>2. /\ Cardinality(ListensIn(t)) \in Nat
        /\ Cardinality(ListensIn(s)) = Cardinality(ListensIn(<<h>>)) + Cardinality(ListensIn(t))
    BY <2>1, ConcatListens
  <2>3. Cardinality(ListensIn(s)) = Cardinality(ListensIn(t)) + (IF h.type = "listen" THEN 1 ELSE 0)
    BY <2>2, OneListen
  <2> QED
    BY <2>3 DEF h, t
<1>4. ASSUME NEW m
      PROVE  Cardinality(ListensIn(Append(s, m))) =
               Cardinality(ListensIn(s)) + (IF m.type = "listen" THEN 1 ELSE 0)
  <2>1. Append(s, m) = s \o <<m>> /\ <<m>> \in Seq({m})
    OBVIOUS
  <2>2. Cardinality(ListensIn(s \o <<m>>)) = Cardinality(ListensIn(s)) + Cardinality(ListensIn(<<m>>))
    BY <2>1, ConcatListens
  <2> QED
    BY <2>1, <2>2, OneListen
<1> QED
  BY <1>1, <1>2, <1>3, <1>4

\* One more request.
LEMMA AppendHeard ==
  ASSUME NEW S, NEW s \in Seq(S), NEW m, NEW t, NEW w, NEW q, NEW n
  PROVE  /\ AsksFor(m, q, n) => Pending(Append(s, m), q, n)
         /\ Heard(s, t, w, q, n) /\ ~Other(m, q, n) => Heard(Append(s, m), t, w, q, n)
<1> DEFINE r == Append(s, m)
           k == Len(s) + 1
<1>1. /\ Len(s) \in Nat /\ Len(r) = k /\ k \in 1..Len(r) /\ r[k] = m
      /\ \A i \in 1..Len(s) : i \in 1..Len(r) /\ r[i] = s[i]
      /\ \A i \in 1..Len(r) : i \in 1..Len(s) \/ i = k
  OBVIOUS
<1> HIDE DEF r
<1>2. ASSUME AsksFor(m, q, n) PROVE Pending(r, q, n)
  <2>1. \A j \in 1..Len(r) : ~(j > k)
    BY <1>1
  <2> QED
    BY <1>1, <1>2, <2>1 DEF Pending
<1> HIDE DEF k
<1>3. ASSUME Pending(s, q, n), ~Other(m, q, n) PROVE Pending(r, q, n)
  <2>1. PICK i \in 1..Len(s) : AsksFor(s[i], q, n) /\ \A j \in 1..Len(s) : j > i => ~Other(s[j], q, n)
    BY <1>3 DEF Pending
  <2>2. i \in 1..Len(r) /\ AsksFor(r[i], q, n)
    BY <1>1, <2>1
  <2>3. ASSUME NEW j \in 1..Len(r), j > i PROVE ~Other(r[j], q, n)
    <3>1. CASE j \in 1..Len(s)
      BY <1>1, <2>1, <2>3, <3>1
    <3>2. CASE j = k
      BY <1>1, <1>3, <3>2
    <3> QED
      BY <1>1, <3>1, <3>2
  <2> QED
    BY <2>2, <2>3 DEF Pending
<1>4. ASSUME Settled(s, t, w, q, n), ~Other(m, q, n) PROVE Settled(r, t, w, q, n)
  <2>1. ASSUME NEW j \in 1..Len(r) PROVE ~Other(r[j], q, n)
    <3>1. CASE j \in 1..Len(s)
      BY <1>1, <1>4, <3>1 DEF Settled
    <3>2. CASE j = k
      BY <1>1, <1>4, <3>2
    <3> QED
      BY <1>1, <3>1, <3>2
  <2> QED
    BY <1>4, <2>1 DEF Settled
<1> QED
  BY <1>2, <1>3, <1>4 DEF Heard, r

\* The first request is dealt with.
LEMMA TailHeard ==
  ASSUME NEW S, NEW s \in Seq(S), s # <<>>, NEW t, NEW w, NEW q, NEW n, Heard(s, t, w, q, n),
         NEW u, NEW v,
         (\E k \in 1..Len(t) : Refuses(t[k], n)) => (\E k \in 1..Len(u) : Refuses(u[k], n)),
         (q \in w /\ ~Other(s[1], q, n)) \/ AsksFor(s[1], q, n)
           => q \in v \/ \E k \in 1..Len(u) : Refuses(u[k], n)
  PROVE  Heard(Tail(s), u, v, q, n)
<1> DEFINE r == Tail(s)
<1>1. /\ Len(s) \in Nat /\ Len(s) > 0 /\ Len(r) = Len(s) - 1
      /\ 1 \in 1..Len(s)
      /\ \A i \in 1..Len(r) : r[i] = s[i + 1]
  OBVIOUS
<1>2. \A i \in 1..Len(r) : i + 1 \in 1..Len(s) /\ i + 1 > 1
  BY <1>1
<1>3. \A i \in 1..Len(s) : i # 1 => i - 1 \in 1..Len(r) /\ (i - 1) + 1 = i
  BY <1>1
<1> HIDE DEF r
<1>4. CASE Settled(s, t, w, q, n)
  <2>1. \A j \in 1..Len(r) : ~Other(r[j], q, n)
    BY <1>1, <1>2, <1>4 DEF Settled
  <2>2. q \in v \/ \E k \in 1..Len(u) : Refuses(u[k], n)
    BY <1>1, <1>4 DEF Settled
  <2> QED
    BY <2>1, <2>2 DEF Settled, Heard, r
<1>5. CASE Pending(s, q, n)
  <2>1. PICK i \in 1..Len(s) : AsksFor(s[i], q, n) /\ \A j \in 1..Len(s) : j > i => ~Other(s[j], q, n)
    BY <1>5 DEF Pending
  <2>2. CASE i = 1
    <3>1. \A j \in 1..Len(r) : ~Other(r[j], q, n)
      BY <1>1, <1>2, <2>1, <2>2
    <3> QED
      BY <2>1, <2>2, <3>1 DEF Settled, Heard, r
  <2>3. CASE i # 1
    <3>1. i - 1 \in 1..Len(r) /\ AsksFor(r[i - 1], q, n)
      BY <1>1, <1>3, <2>1, <2>3
    <3>2. ASSUME NEW j \in 1..Len(r), j > i - 1 PROVE ~Other(r[j], q, n)
      <4>1. j + 1 > i /\ j + 1 \in 1..Len(s)
        BY <1>1, <3>2
      <4> QED
        BY <1>1, <2>1, <4>1
    <3> QED
      BY <3>1, <3>2 DEF Pending, Heard, r
  <2> QED
    BY <2>2, <2>3
<1> QED
  BY <1>4, <1>5 DEF Heard

\* An answer is dealt with that does not refuse n.
LEMMA AnswerHeard ==
  ASSUME NEW S, NEW t \in Seq(S), t # <<>>, NEW s, NEW w, NEW q, NEW n, Heard(s, t, w, q, n),
         ~Refuses(Head(t), n)
  PROVE  Heard(s, Tail(t), w, q, n)
<1> DEFINE r == Tail(t)
<1>1. /\ Len(t) \in Nat /\ Len(t) > 0 /\ Len(r) = Len(t) - 1 /\ Head(t) = t[1]
      /\ \A i \in 1..Len(r) : r[i] = t[i + 1]
  OBVIOUS
<1>2. \A i \in 1..Len(t) : i # 1 => i - 1 \in 1..Len(r) /\ (i - 1) + 1 = i
  BY <1>1
<1> HIDE DEF r
<1>3. (\E k \in 1..Len(t) : Refuses(t[k], n)) => (\E k \in 1..Len(r) : Refuses(r[k], n))
  <2> SUFFICES ASSUME NEW k \in 1..Len(t), Refuses(t[k], n) PROVE \E i \in 1..Len(r) : Refuses(r[i], n)
    OBVIOUS
  <2>1. k # 1
    BY <1>1
  <2>2. k - 1 \in 1..Len(r) /\ r[k - 1] = t[k]
    BY <1>1, <1>2, <2>1
  <2> QED
    BY <2>2
<1> QED
  BY <1>3 DEF Heard, Settled, r

\* Answers that come after.
LEMMA MoreAnswers ==
  ASSUME NEW S, NEW t \in Seq(S), NEW a, NEW n
  PROVE  /\ (\E k \in 1..Len(t) : Refuses(t[k], n)) =>
              \E k \in 1..Len(Append(t, a)) : Refuses(Append(t, a)[k], n)
         /\ Refuses(a, n) => \E k \in 1..Len(Append(t, a)) : Refuses(Append(t, a)[k], n)
<1> DEFINE r == Append(t, a)
<1>1. /\ Len(t) \in Nat /\ Len(r) = Len(t) + 1 /\ Len(t) + 1 \in 1..Len(r) /\ r[Len(t) + 1] = a
      /\ \A i \in 1..Len(t) : i \in 1..Len(r) /\ r[i] = t[i]
  OBVIOUS
<1> HIDE DEF r
<1> QED
  BY <1>1 DEF r


\* Requests are put behind others.
LEMMA ConcatPending ==
  ASSUME NEW S, NEW s \in Seq(S), NEW T, NEW t \in Seq(T), NEW q, NEW n
  PROVE  /\ Pending(t, q, n) => Pending(s \o t, q, n)
         /\ Pending(s, q, n) /\ (\A j \in 1..Len(t) : ~Other(t[j], q, n)) => Pending(s \o t, q, n)
<1> DEFINE u == s \o t
           k == Len(s)
<1>1. /\ k \in Nat /\ Len(t) \in Nat /\ Len(u) = k + Len(t)
      /\ \A i \in 1..(k + Len(t)) : u[i] = IF i <= k THEN s[i] ELSE t[i - k]
  OBVIOUS
<1> HIDE DEF u, k
<1>2. /\ \A i \in 1..Len(t) : k + i \in 1..Len(u) /\ ~(k + i <= k) /\ (k + i) - k = i
      /\ \A i \in 1..Len(u) : i > k => i - k \in 1..Len(t)
  BY <1>1
<1>3. /\ \A i \in 1..Len(t) : u[k + i] = t[i]
      /\ \A i \in 1..Len(u) : i > k => u[i] = t[i - k]
  BY <1>1, <1>2
<1>4. ASSUME Pending(t, q, n) PROVE Pending(u, q, n)
  <2>1. PICK i \in 1..Len(t) : AsksFor(t[i], q, n) /\ \A j \in 1..Len(t) : j > i => ~Other(t[j], q, n)
    BY <1>4 DEF Pending
  <2>2. k + i \in 1..Len(u) /\ AsksFor(u[k + i], q, n)
    BY <1>2, <1>3, <2>1
  <2>3. ASSUME NEW j \in 1..Len(u), j > k + i PROVE ~Other(u[j], q, n)
    <3>1. j > k /\ j - k > i
      BY <1>1, <2>3
    <3> QED
      BY <1>2, <1>3, <2>1, <3>1
  <2> QED
    BY <2>2, <2>3 DEF Pending
<1>5. ASSUME Pending(s, q, n), \A j \in 1..Len(t) : ~Other(t[j], q, n) PROVE Pending(u, q, n)
  <2>1. PICK i \in 1..k : AsksFor(s[i], q, n) /\ \A j \in 1..k : j > i => ~Other(s[j], q, n)
    BY <1>5 DEF Pending, k
  <2>2. i \in 1..Len(u) /\ AsksFor(u[i], q, n)
    BY <1>1, <2>1
  <2>3. ASSUME NEW j \in 1..Len(u), j > i PROVE ~Other(u[j], q, n)
    <3>1. CASE j > k
      BY <1>2, <1>3, <1>5, <3>1
    <3>2. CASE ~(j > k)
      <4>1. j \in 1..k /\ u[j] = s[j]
        BY <1>1, <3>2
      <4> QED
        BY <2>1, <2>3, <4>1
    <3> QED
      BY <3>1, <3>2
  <2> QED
    BY <2>2, <2>3 DEF Pending
<1> QED
  BY <1>4, <1>5 DEF u

\* restoreState asks once for each query that is listened to, after all that
\* was sent before.
LEMMA RestoreStateAsks ==
  ASSUME TypeOK, NEW sent \in Seq(RequestsUpTo(issued)), RestoreState(sent)
  PROVE  /\ \A q \in Listening : Pending(toServer', q, listens[q])
         /\ Cardinality(ListensIn(toServer')) = Cardinality(ListensIn(sent)) + Cardinality(Listening)
         /\ Cardinality(Listening) \in Nat
         /\ unacked' = unacked + Cardinality(Listening)
<1>1. issued \in Nat /\ listens \in [Queries -> Nat] /\ outstanding \subseteq 1..issued
  BY Bounds DEF TypeOK
<1>2. IsFiniteSet(Listening) /\ IsFiniteSet(outstanding)
  <2>1. IsFiniteSet(1..issued)
    BY <1>1, FS_Interval
  <2>2. QED
    BY <1>1, <2>1, GuardedQueries, FS_Subset DEF Listening
<1>3. PICK qs \in Orders(Listening), ps \in Ascending(ToSend) :
        /\ toServer' = sent \o [i \in DOMAIN qs |-> ListenTo(qs[i], listens[qs[i]])]
                            \o [i \in DOMAIN ps |-> Request("put", ps[i])]
        /\ unacked' = unacked + Cardinality(Listening)
  BY DEF RestoreState
<1> DEFINE ls == [i \in DOMAIN qs |-> ListenTo(qs[i], listens[qs[i]])]
           us == [i \in DOMAIN ps |-> Request("put", ps[i])]
           n == Cardinality(Listening)
<1>4. /\ n \in Nat /\ DOMAIN qs = 1..n
      /\ \A i \in DOMAIN qs : qs[i] \in Listening /\ qs[i] \in Queries
      /\ \A q \in Listening : \E i \in DOMAIN qs : qs[i] = q
  BY <1>2, OrdersAreComplete DEF Listening
<1>5. \A i, j \in DOMAIN qs : qs[i] = qs[j] => i = j
  BY DEF Orders
<1>6. /\ ls \in Seq(RequestsUpTo(issued)) /\ DOMAIN ls = 1..n /\ Len(ls) = n
      /\ \A i \in 1..n : /\ ls[i].type = "listen" /\ ls[i].query = qs[i]
                         /\ ls[i].id = listens[qs[i]]
  <2>1. \A i \in 1..n : ls[i] = ListenTo(qs[i], listens[qs[i]]) /\ ls[i] \in RequestsUpTo(issued)
    BY <1>1, <1>4, RequestTypes
  <2> QED
    BY <1>4, <2>1 DEF ListenTo
<1>7. /\ us \in Seq(RequestsUpTo(issued)) /\ DOMAIN us = 1..Len(us)
      /\ \A i \in 1..Len(us) : us[i].type = "put"
  <2>1. ps \in Orders(outstanding)
    BY DEF Ascending, ToSend
  <2>2. /\ Cardinality(outstanding) \in Nat /\ DOMAIN ps = 1..Cardinality(outstanding)
        /\ \A i \in DOMAIN ps : ps[i] \in outstanding
    BY <1>2, <2>1, OrdersAreComplete
  <2>3. \A i \in DOMAIN ps : us[i] = Request("put", ps[i]) /\ us[i] \in RequestsUpTo(issued)
    BY <1>1, <2>2, RequestTypes
  <2> QED
    BY <2>2, <2>3 DEF Request
<1>8. toServer' = (sent \o ls) \o us
  BY <1>3
<1> HIDE DEF ls, us, n
<1>9. Cardinality(ListensIn(ls)) = n
  <2>1. ListensIn(ls) = 1..n
    BY <1>6 DEF ListensIn
  <2> QED
    BY <1>4, <2>1, FS_Interval
<1>10. Cardinality(ListensIn(us)) = 0
  <2>1. ListensIn(us) = {}
    BY <1>7 DEF ListensIn
  <2> QED
    BY <2>1, FS_EmptySet
<1> DEFINE ws == sent \o ls
<1>11. ws \in Seq(RequestsUpTo(issued))
  BY <1>6
<1>12. Cardinality(ListensIn(ws)) = Cardinality(ListensIn(sent)) + n
  BY <1>6, <1>9, ConcatListens
<1>13. \A q \in Listening : Pending(ws, q, listens[q])
  <2> SUFFICES ASSUME NEW q \in Listening PROVE Pending(ls, q, listens[q])
    BY <1>6, ConcatPending
  <2>1. PICK i \in 1..n : qs[i] = q
    BY <1>4
  <2>2. AsksFor(ls[i], q, listens[q])
    BY <1>6, <2>1 DEF AsksFor
  <2>3. \A j \in 1..n : j > i => ~Other(ls[j], q, listens[q])
    BY <1>4, <1>5, <1>6, <2>1 DEF Other
  <2> QED
    BY <1>6, <2>2, <2>3 DEF Pending
<1> HIDE DEF ws
<1>14. toServer' = ws \o us
  BY <1>8 DEF ws
<1>15. Cardinality(ListensIn(ws \o us)) = Cardinality(ListensIn(ws)) + 0
  BY <1>7, <1>10, <1>11, ConcatListens
<1>16. \A q \in Listening : Pending(ws \o us, q, listens[q])
  <2>1. \A q \in Listening : \A j \in 1..Len(us) : ~Other(us[j], q, listens[q])
    BY <1>7 DEF Other
  <2> QED
    BY <1>7, <1>11, <1>13, <2>1, ConcatPending
<1>17. Cardinality(ListensIn(sent)) \in Nat
  BY ListensChange
<1>18. Cardinality(ListensIn(toServer')) = Cardinality(ListensIn(sent)) + n
  BY <1>4, <1>12, <1>14, <1>15, <1>17
<1>19. \A q \in Listening : Pending(toServer', q, listens[q])
  BY <1>14, <1>16
<1>20. unacked' = unacked + n
  BY <1>3 DEF n
<1> QED
  BY <1>4, <1>18, <1>19, <1>20 DEF n


-----------------------------------------------------------------------------
(* Each step keeps InSync.                                                 *)

LEMMA SyncParts ==
  ASSUME Known, InSync
  PROVE  /\ toServer \in Seq(RequestsUpTo(issued)) /\ toClient \in Seq(ResponsesUpTo(reached))
         /\ unacked \in Int /\ listens \in [Queries -> 0..MaxListens] /\ TypeOK
         /\ ~Connected => unacked = 0
         /\ Connected => unacked = Cardinality(ListensIn(toServer)) + Cardinality(ListensIn(toClient))
         /\ Cardinality(ListensIn(toServer)) \in Nat /\ Cardinality(ListensIn(toClient)) \in Nat
         /\ conn = "connected" =>
              \A q \in Listening : Heard(toServer, toClient, watched, q, listens[q])
         /\ realtime = "up" <=> Connected
<1>1. toServer \in Seq(RequestsUpTo(issued)) /\ toClient \in Seq(ResponsesUpTo(reached)) /\ TypeOK
  BY DEF Known, Typed, MessagesOK
<1> QED
  BY <1>1, ListensChange
  DEF InSync, ListensAreCounted, ListensAreHeard, Known, Orderly, AssertionsHold, TypeOK

LEMMA InitIsInSync == Init => InSync
  BY DEF Init, InSync, ListensAreHeard, ListensAreCounted, DoneIsApplied, Connected

\* The connection is down.
LEMMA DownInSync ==
  ASSUME InSync, conn' \notin {"authenticating", "connected"}, unacked' = 0,
         UNCHANGED <<applied, held, completed>>
  PROVE  InSync'
  BY DEF InSync, ListensAreHeard, ListensAreCounted, DoneIsApplied, Connected

\* Nothing is sent, and nothing answered.
LEMMA StillInSync ==
  ASSUME InSync, UNCHANGED <<toServer, toClient, unacked, listens, watched, applied, held, completed>>,
         conn' = conn
  PROVE  InSync'
  BY DEF InSync, ListensAreHeard, ListensAreCounted, DoneIsApplied, Connected, Listening

LEMMA ConnectingInSync ==
  ASSUME Known, InSync,
         \/ GoOffline \/ OnKill \/ Drop \/ OnAuthRevoked \/ TokenFails
         \/ Reachable \/ RetryFires
         \/ \E r \in Reasons : Resume(r)
         \/ \E some \in BOOLEAN : TokenArrives(some)
  PROVE  InSync'
<1>1. ~Connected => unacked = 0
  BY SyncParts
<1>2. ASSUME NEW r \in Reasons, Interrupt(r) PROVE InSync'
  <2>1. conn' = "disconnected" /\ UNCHANGED <<applied, held, completed>>
    BY <1>2 DEF Interrupt, OnDisconnect, writes
  <2>2. unacked' = 0
    <3>1. CASE realtime # "none"
      BY <1>2, <3>1 DEF Interrupt, OnDisconnect
    <3>2. CASE realtime = "none"
      BY <1>1, <1>2, <3>2, SyncParts DEF Interrupt, link
    <3> QED
      BY <3>1, <3>2
  <2> QED
    BY <2>1, <2>2, DownInSync
<1>3. CASE GoOffline \/ OnKill
  BY <1>2, <1>3 DEF GoOffline, OnKill, Reasons
<1>4. CASE Drop \/ OnAuthRevoked
  <2>1. conn' = "disconnected" /\ unacked' = 0 /\ UNCHANGED <<applied, held, completed>>
    BY <1>4 DEF Drop, OnAuthRevoked, OnDisconnect, writes
  <2> QED
    BY <2>1, DownInSync
<1>5. CASE TokenFails \/ RetryFires
  <2>1. ~Connected
    BY <1>5 DEF TokenFails, RetryFires, Known, Orderly, AssertionsHold, Connected
  <2>2. /\ conn' \in {"disconnected", "gettingToken"} /\ unacked' = unacked
        /\ UNCHANGED <<applied, held, completed>>
    BY <1>5 DEF TokenFails, RetryFires, link, writes, server
  <2> QED
    BY <1>1, <2>1, <2>2, DownInSync
<1>6. CASE Reachable
  BY <1>6, StillInSync DEF Reachable, link, writes, server
<1>7. ASSUME NEW r \in Reasons, Resume(r) PROVE InSync'
  BY <1>7, StillInSync DEF Resume, link, writes, server
<1>8. ASSUME NEW some \in BOOLEAN, TokenArrives(some) PROVE InSync'
  <2>1. UNCHANGED <<toServer, toClient, unacked, listens, watched, applied, held, completed>>
    BY <1>8 DEF TokenArrives, link, writes, server
  <2>2. CASE conn' = conn
    BY <2>1, <2>2, StillInSync
  <2>3. CASE conn' = "connecting" /\ conn = "gettingToken"
    BY <1>1, <2>1, <2>3, DownInSync DEF Connected
  <2> QED
    BY <1>8, <2>2, <2>3 DEF TokenArrives, StillWanted
<1> QED
  BY <1>3, <1>4, <1>5, <1>6, <1>7, <1>8

\* The state is restored.
LEMMA RestoredInSync ==
  ASSUME Known, InSync, NEW sent \in Seq(RequestsUpTo(issued)), RestoreState(sent),
         UNCHANGED <<listens, applied, held, completed>>,
         toClient' \in Seq(ResponsesUpTo(reached)),
         unacked = Cardinality(ListensIn(sent)) + Cardinality(ListensIn(toClient'))
  PROVE  InSync'
<1>1. /\ \A q \in Listening : Pending(toServer', q, listens[q])
      /\ Cardinality(ListensIn(toServer')) = Cardinality(ListensIn(sent)) + Cardinality(Listening)
      /\ Cardinality(Listening) \in Nat
      /\ unacked' = unacked + Cardinality(Listening)
  BY SyncParts, RestoreStateAsks
<1>2. conn' = "connected"
  BY DEF RestoreState
<1>3. ListensAreHeard'
  BY <1>1 DEF ListensAreHeard, Heard, Listening
<1>4. ListensAreCounted'
  <2>1. Cardinality(ListensIn(sent)) \in Nat
    BY ListensChange
  <2>2. unacked \in Int
    BY SyncParts
  <2>3. Cardinality(ListensIn(toClient')) \in Nat
    BY ListensChange
  <2> QED
    BY <1>1, <1>2, <2>1, <2>2, <2>3 DEF ListensAreCounted, Connected
<1>5. DoneIsApplied'
  BY DEF InSync, DoneIsApplied
<1> QED
  BY <1>3, <1>4, <1>5 DEF InSync


LEMMA ReadyInSync ==
  ASSUME Known, InSync, OnReady
  PROVE  InSync'
<1>1. /\ UNCHANGED <<listens, applied, held, completed>> /\ toClient' = toClient
      /\ toClient = <<>> /\ conn = "connecting"
  BY DEF OnReady, writes, server, Known, Orderly, AnswersAreOfThisLink, AssertionsHold
<1>2. unacked = 0
  BY <1>1, SyncParts DEF Connected
<1>3. Cardinality(ListensIn(<<>>)) = 0
  BY ListensChange, SyncParts
<1>4. CASE token
  <2>1. conn' = "authenticating" /\ toServer' = <<Request("auth", 1)>> /\ unacked' = unacked
    BY <1>4 DEF OnReady
  <2>2. Cardinality(ListensIn(toServer')) = 0
    BY <2>1, OneListen DEF Request
  <2>3. Cardinality(ListensIn(toClient')) = 0
    BY <1>1, <1>3
  <2> QED
    BY <1>1, <1>2, <2>1, <2>2, <2>3
    DEF InSync, ListensAreHeard, ListensAreCounted, DoneIsApplied, Connected
<1>5. CASE ~token
  <2>1. RestoreState(<<>>) /\ <<>> \in Seq(RequestsUpTo(issued)) /\ toClient' = <<>>
    BY <1>1, <1>5 DEF OnReady
  <2>2. toClient' \in Seq(ResponsesUpTo(reached))
    BY <2>1
  <2>3. unacked = Cardinality(ListensIn(<<>>)) + Cardinality(ListensIn(toClient'))
    BY <1>2, <1>3, <2>1
  <2> QED
    BY <1>1, <2>1, <2>2, <2>3, RestoredInSync
<1> QED
  BY <1>4, <1>5

LEMMA AuthInSync ==
  ASSUME Known, InSync, AuthAnswered
  PROVE  InSync'
<1>1. /\ UNCHANGED <<listens, applied, held, completed>>
      /\ toClient # <<>> /\ Head(toClient).type = "auth" /\ realtime = "up"
  BY DEF AuthAnswered, Answers, writes, Known, Orderly, AnswersAreOfThisLink
<1>2. CASE ~Head(toClient).ok
  <2>1. conn' = "disconnected" /\ unacked' = 0
    BY <1>2 DEF AuthAnswered, OnDisconnect
  <2> QED
    BY <1>1, <2>1, DownInSync
<1>3. CASE Head(toClient).ok
  <2>1. toClient' = Tail(toClient) /\ watched' = watched
    BY <1>3 DEF AuthAnswered
  <2>2. toClient' \in Seq(ResponsesUpTo(reached))
    BY <1>1, <2>1, SyncParts
  <2>3. Cardinality(ListensIn(toClient)) = Cardinality(ListensIn(toClient'))
        /\ Cardinality(ListensIn(toClient)) \in Nat
    <3>1. Cardinality(ListensIn(toClient')) \in Nat
      BY <2>2, ListensChange
    <3>2. Cardinality(ListensIn(toClient)) = Cardinality(ListensIn(toClient')) + 0
      BY <1>1, <2>1, SyncParts, ListensChange
    <3> QED
      BY <3>1, <3>2
  <2>4. unacked = Cardinality(ListensIn(toServer)) + Cardinality(ListensIn(toClient'))
    BY <1>1, <2>3, SyncParts
  <2>5. CASE Head(toClient).id = 1
    <3>1. RestoreState(toServer)
      BY <1>3, <2>5 DEF AuthAnswered
    <3> QED
      BY <1>1, <2>2, <2>4, <3>1, SyncParts, RestoredInSync
  <2>6. CASE Head(toClient).id # 1
    <3>1. conn' = "connected" /\ UNCHANGED <<toServer, unacked>>
      BY <1>3, <2>6 DEF AuthAnswered
    <3>2. conn = "connected"
      BY <1>1, <2>6 DEF Known, Ordered, LoginComesFirst, IsLogin, Orderly, AssertionsHold, Connected
    <3>3. ASSUME NEW q \in Listening PROVE Heard(toServer, toClient', watched, q, listens[q])
      <4>1. ~Refuses(Head(toClient), listens[q])
        BY <1>1 DEF Refuses
      <4>2. Heard(toServer, toClient, watched, q, listens[q])
        BY <3>2, SyncParts
      <4> QED
        BY <1>1, <2>1, <4>1, <4>2, SyncParts, AnswerHeard
    <3>4. ListensAreHeard'
      BY <1>1, <2>1, <3>1, <3>3 DEF ListensAreHeard, Listening
    <3>5. ListensAreCounted'
      BY <2>4, <3>1 DEF ListensAreCounted, Connected
    <3> QED
      BY <1>1, <3>4, <3>5 DEF InSync, DoneIsApplied
  <2> QED
    BY <2>5, <2>6
<1> QED
  BY <1>2, <1>3

LEMMA ListenInSync ==
  ASSUME Known, InSync, ListenAnswered
  PROVE  InSync'
<1> DEFINE a == Head(toClient)
<1>1. /\ toClient # <<>> /\ a.type = "listen" /\ toClient' = Tail(toClient) /\ unacked' = unacked - 1
      /\ UNCHANGED <<conn, toServer, watched, applied>> /\ held' \cup completed' = held \cup completed
      /\ listens' = [q \in Queries |-> IF listens[q] = a.id /\ ~a.ok THEN 0 ELSE listens[q]]
      /\ realtime = "up"
  BY DEF ListenAnswered, Answers, session, server, AckPuts, Known, Orderly, AnswersAreOfThisLink
<1>2. toClient' \in Seq(ResponsesUpTo(reached))
  BY <1>1, SyncParts
<1>3. /\ Cardinality(ListensIn(toClient)) = Cardinality(ListensIn(toClient')) + 1
      /\ Cardinality(ListensIn(toClient')) \in Nat
  BY <1>1, <1>2, SyncParts, ListensChange
<1>4. ListensAreCounted'
  <2>1. unacked = Cardinality(ListensIn(toServer)) + Cardinality(ListensIn(toClient))
        /\ Cardinality(ListensIn(toServer)) \in Nat /\ Connected
    BY <1>1, SyncParts
  <2> QED
    BY <1>1, <1>3, <2>1 DEF ListensAreCounted, Connected
<1>5. ASSUME NEW q \in Listening', conn = "connected"
      PROVE  Heard(toServer, toClient', watched, q, listens'[q])
  <2>1. q \in Listening /\ listens'[q] = listens[q] /\ ~(listens[q] = a.id /\ ~a.ok)
    BY <1>1 DEF Listening
  <2>2. Heard(toServer, toClient, watched, q, listens[q])
    BY <1>5, <2>1, SyncParts
  <2>3. ~Refuses(Head(toClient), listens[q])
    BY <2>1 DEF Refuses
  <2>4. Heard(toServer, Tail(toClient), watched, q, listens[q])
    BY <1>1, <2>2, <2>3, SyncParts, AnswerHeard
  <2> QED
    BY <1>1, <2>1, <2>4
<1>6. ListensAreHeard'
  BY <1>1, <1>5 DEF ListensAreHeard
<1>7. DoneIsApplied'
  BY <1>1 DEF InSync, DoneIsApplied
<1> QED
  BY <1>4, <1>6, <1>7 DEF InSync

LEMMA PutInSync ==
  ASSUME Known, InSync, PutAnswered
  PROVE  InSync'
<1> DEFINE a == Head(toClient)
<1>1. /\ toClient # <<>> /\ a.type = "put" /\ toClient' = Tail(toClient)
      /\ UNCHANGED <<conn, toServer, watched, applied, unacked, listens>>
      /\ held' \cup completed' \subseteq (held \cup completed) \cup {a.id}
      /\ realtime = "up"
  <2>1. held' \cup completed' \subseteq (held \cup completed) \cup {a.id}
    BY DEF PutAnswered
  <2> QED
    BY <2>1 DEF PutAnswered, Answers, session, server, Known, Orderly, AnswersAreOfThisLink
<1>2. toClient' \in Seq(ResponsesUpTo(reached))
  BY <1>1, SyncParts
<1>3. Cardinality(ListensIn(toClient)) = Cardinality(ListensIn(toClient'))
  <2>1. Cardinality(ListensIn(toClient')) \in Nat
    BY <1>2, ListensChange
  <2>2. Cardinality(ListensIn(toClient)) = Cardinality(ListensIn(toClient')) + 0
    BY <1>1, SyncParts, ListensChange
  <2> QED
    BY <2>1, <2>2
<1>4. ListensAreCounted'
  <2>1. unacked = Cardinality(ListensIn(toServer)) + Cardinality(ListensIn(toClient)) /\ Connected
    BY <1>1, SyncParts
  <2> QED
    BY <1>1, <1>3, <2>1 DEF ListensAreCounted, Connected
<1>5. ASSUME NEW q \in Listening, conn = "connected"
      PROVE  Heard(toServer, toClient', watched, q, listens[q])
  <2>1. Heard(toServer, toClient, watched, q, listens[q])
    BY <1>5, SyncParts
  <2>2. ~Refuses(Head(toClient), listens[q])
    BY <1>1 DEF Refuses
  <2> QED
    BY <1>1, <2>1, <2>2, SyncParts, AnswerHeard
<1>6. ListensAreHeard'
  BY <1>1, <1>5 DEF ListensAreHeard, Listening
<1>7. a.id <= applied
  <2>1. a.id \in PutsOf(toClient)
    BY <1>1, SyncParts, TailPuts DEF IsPut
  <2> QED
    BY <2>1 DEF Known, Ordered, PutsAreInOrder
<1>8. DoneIsApplied'
  BY <1>1, <1>7 DEF InSync, DoneIsApplied
<1> QED
  BY <1>4, <1>6, <1>8 DEF InSync


\* A request is made, and sent if there is a connection to send it on.
LEMMA RequestInSync ==
  ASSUME Known, InSync, NEW m, UNCHANGED <<conn, toClient, watched, applied, held, completed>>,
         toServer' = toServer \/ toServer' = Append(toServer, m),
         unacked' = IF Connected /\ m.type = "listen" THEN unacked + 1 ELSE unacked,
         Connected /\ m.type = "listen" => toServer' = Append(toServer, m),
         \A q \in Listening' :
           \/ toServer' = Append(toServer, m) /\ AsksFor(m, q, listens'[q])
           \/ q \in Listening /\ listens'[q] = listens[q] /\ ~Other(m, q, listens[q])
           \/ conn # "connected"
  PROVE  InSync'
<1>1. ListensAreCounted'
  <2>1. CASE ~Connected
    BY <2>1, SyncParts DEF ListensAreCounted, Connected
  <2>2. CASE Connected
    <3>1. CASE toServer' = Append(toServer, m)
      <4>1. Cardinality(ListensIn(toServer')) =
              Cardinality(ListensIn(toServer)) + (IF m.type = "listen" THEN 1 ELSE 0)
        BY <3>1, SyncParts, ListensChange
      <4> QED
        BY <2>2, <4>1, SyncParts DEF ListensAreCounted, Connected
    <3>2. CASE toServer' = toServer /\ toServer' # Append(toServer, m)
      BY <2>2, <3>2, SyncParts DEF ListensAreCounted, Connected
    <3> QED
      BY <3>1, <3>2
  <2> QED
    BY <2>1, <2>2
<1>2. ASSUME NEW q \in Listening', conn = "connected"
      PROVE  Heard(toServer', toClient, watched, q, listens'[q])
  <2>1. CASE toServer' = Append(toServer, m) /\ AsksFor(m, q, listens'[q])
    BY <2>1, SyncParts, AppendHeard DEF Heard
  <2>2. CASE q \in Listening /\ listens'[q] = listens[q] /\ ~Other(m, q, listens[q])
    <3>1. Heard(toServer, toClient, watched, q, listens[q])
      BY <1>2, <2>2, SyncParts
    <3> QED
      BY <2>2, <3>1, SyncParts, AppendHeard
  <2> QED
    BY <1>2, <2>1, <2>2
<1>3. ListensAreHeard'
  BY <1>2 DEF ListensAreHeard
<1>4. DoneIsApplied'
  BY DEF InSync, DoneIsApplied
<1> QED
  BY <1>1, <1>3, <1>4 DEF InSync

LEMMA UseInSync ==
  ASSUME Known, InSync,
         \/ \E q \in Queries : Listen(q) \/ Unlisten(q)
         \/ Put \/ \E some \in BOOLEAN : RefreshAuthToken(some)
  PROVE  InSync'
<1>1. ASSUME NEW q \in Queries, Listen(q) PROVE InSync'
  <2> DEFINE m == ListenTo(q, made + 1)
  <2>1. m.type = "listen" /\ m.query = q /\ m.id = made + 1
    BY DEF ListenTo
  <2>2. /\ UNCHANGED <<conn, toClient, watched, applied, held, completed>>
        /\ listens[q] = 0 /\ listens' = [listens EXCEPT ![q] = made + 1]
    BY <1>1 DEF Listen, session, writes, server
  <2>3. IF Connected THEN toServer' = Append(toServer, m) /\ unacked' = unacked + 1
                     ELSE toServer' = toServer /\ unacked' = unacked
    BY <1>1 DEF Listen
  <2> HIDE DEF m
  <2>4. ASSUME NEW o \in Listening', conn = "connected"
        PROVE  \/ toServer' = Append(toServer, m) /\ AsksFor(m, o, listens'[o])
               \/ o \in Listening /\ listens'[o] = listens[o] /\ ~Other(m, o, listens[o])
    <3>1. CASE o = q
      BY <2>1, <2>2, <2>3, <2>4, <3>1, SyncParts DEF AsksFor, Connected, Listening
    <3>2. CASE o # q
      BY <2>1, <2>2, <3>2, SyncParts DEF Other, Listening
    <3> QED
      BY <3>1, <3>2
  <2> QED
    BY <2>1, <2>2, <2>3, <2>4, RequestInSync
<1>2. ASSUME NEW q \in Queries, Unlisten(q) PROVE InSync'
  <2> DEFINE m == [type |-> "unlisten", id |-> 0, query |-> q]
  <2>1. m.type = "unlisten" /\ m.query = q
    OBVIOUS
  <2>2. /\ UNCHANGED <<conn, toClient, watched, applied, held, completed, unacked>>
        /\ listens' = [listens EXCEPT ![q] = 0]
    BY <1>2 DEF Unlisten, session, writes, server
  <2>3. toServer' = toServer \/ toServer' = Append(toServer, m)
    BY <1>2 DEF Unlisten
  <2> HIDE DEF m
  <2>4. ASSUME NEW o \in Listening'
        PROVE  o \in Listening /\ listens'[o] = listens[o] /\ ~Other(m, o, listens[o])
    <3>1. o # q
      BY <2>2, SyncParts DEF Listening
    <3> QED
      BY <2>1, <2>2, <3>1, SyncParts DEF Other, Listening
  <2> QED
    BY <2>1, <2>2, <2>3, <2>4, RequestInSync
<1>3. ASSUME NEW m, m.type \notin {"listen", "unlisten"},
             UNCHANGED <<conn, toClient, watched, applied, held, completed, unacked, listens>>,
             toServer' = toServer \/ toServer' = Append(toServer, m)
      PROVE  InSync'
  <2>1. ASSUME NEW o \in Listening'
        PROVE  o \in Listening /\ listens'[o] = listens[o] /\ ~Other(m, o, listens[o])
    BY <1>3 DEF Other, Listening
  <2> QED
    BY <1>3, <2>1, RequestInSync
<1>4. CASE Put
  <2> DEFINE m == Request("put", PutIndex)
  <2>1. m.type \notin {"listen", "unlisten"}
    BY DEF Request
  <2>2. /\ UNCHANGED <<conn, toClient, watched, applied, held, completed, unacked, listens>>
        /\ toServer' = toServer \/ toServer' = Append(toServer, m)
    BY <1>4 DEF Put, session, server
  <2> HIDE DEF m
  <2> QED
    BY <1>3, <2>1, <2>2
<1>5. ASSUME NEW some \in BOOLEAN, RefreshAuthToken(some) PROVE InSync'
  <2> DEFINE m == Request(IF some THEN "auth" ELSE "unauth", 0)
  <2>1. m.type \notin {"listen", "unlisten"}
    BY DEF Request
  <2>2. /\ UNCHANGED <<conn, toClient, watched, applied, held, completed, unacked, listens>>
        /\ toServer' = toServer \/ toServer' = Append(toServer, m)
    BY <1>5 DEF RefreshAuthToken, writes, server
  <2> HIDE DEF m
  <2> QED
    BY <1>3, <2>1, <2>2
<1> QED
  BY <1>1, <1>2, <1>4, <1>5

LEMMA ServeInSync ==
  ASSUME Known, InSync, Serve
  PROVE  InSync'
<1> DEFINE h == Head(toServer)
<1>1. /\ toServer # <<>> /\ h = toServer[1] /\ toServer' = Tail(toServer)
      /\ UNCHANGED <<conn, unacked, listens, held, completed>>
  BY SyncParts DEF Serve, session, writes
<1>2. toServer' \in Seq(RequestsUpTo(issued))
  BY <1>1, SyncParts
<1>3. Cardinality(ListensIn(toServer')) \in Nat
      /\ Cardinality(ListensIn(toServer)) =
           Cardinality(ListensIn(toServer')) + (IF h.type = "listen" THEN 1 ELSE 0)
  BY <1>1, <1>2, SyncParts, ListensChange
<1>4. DoneIsApplied'
  <2>1. CASE h.type = "put"
    <3>1. applied' = h.id /\ h.id \in PutsOf(toServer)
      BY <2>1, FirstServed DEF IsPut
    <3>2. \A d \in held \cup completed : d < h.id
      BY <3>1 DEF Known, Ordered, PutsAreInOrder, Done
    <3>3. \A d \in held \cup completed : d \in Nat
      BY Bounds, SyncParts DEF TypeOK
    <3>4. h.id \in Nat
      BY <3>1, Bounds, PutsAreNumbers DEF Known, Typed, TypeOK
    <3> QED
      BY <1>1, <3>1, <3>2, <3>3, <3>4 DEF DoneIsApplied
  <2>2. CASE h.type # "put"
    <3>1. applied' = applied
      BY <2>2 DEF Serve, server
    <3> QED
      BY <1>1, <3>1 DEF InSync, DoneIsApplied
  <2> QED
    BY <2>1, <2>2
<1>5. CASE ~Connected
  BY <1>1, <1>4, <1>5, SyncParts DEF InSync, ListensAreHeard, ListensAreCounted, Connected
<1>6. CASE Connected
  <2>1. realtime = "up" /\ unacked = Cardinality(ListensIn(toServer)) + Cardinality(ListensIn(toClient))
    BY <1>6, SyncParts
  <2>2. CASE h.type = "listen"
    <3>1. PICK ok \in BOOLEAN :
            /\ toClient' = Append(toClient, Response("listen", h.id, ok))
            /\ watched' = IF ok THEN watched \cup {h.query} ELSE watched \ {h.query}
      BY <2>1, <2>2 DEF Serve
    <3> DEFINE a == Response("listen", h.id, ok)
    <3>2. a.type = "listen" /\ a.id = h.id /\ a.ok = ok
      BY DEF Response
    <3> HIDE DEF a
    <3>3. toClient' = Append(toClient, a)
      BY <3>1 DEF a
    <3>4. Cardinality(ListensIn(toClient')) = Cardinality(ListensIn(toClient)) + 1
      BY <3>2, <3>3, SyncParts, ListensChange
    <3>5. ListensAreCounted'
      BY <1>1, <1>3, <1>6, <2>1, <2>2, <3>4, SyncParts DEF ListensAreCounted, Connected
    <3>6. ASSUME NEW q \in Listening, conn = "connected"
          PROVE  Heard(toServer', toClient', watched', q, listens[q])
      <4> DEFINE n == listens[q]
      <4>1. Heard(toServer, toClient, watched, q, n)
        BY <3>6, SyncParts
      <4> HIDE DEF n
      <4>2. (\E k \in 1..Len(toClient) : Refuses(toClient[k], n))
              => \E k \in 1..Len(toClient') : Refuses(toClient'[k], n)
        BY <3>3, SyncParts, MoreAnswers
      <4>3. ~ok /\ h.id = n => \E k \in 1..Len(toClient') : Refuses(toClient'[k], n)
        <5>1. ~ok /\ h.id = n => Refuses(a, n)
          BY <3>2 DEF Refuses
        <5> QED
          BY <3>3, <5>1, SyncParts, MoreAnswers
      <4>4. q \in watched /\ ~Other(h, q, n) =>
              q \in watched' \/ \E k \in 1..Len(toClient') : Refuses(toClient'[k], n)
        BY <2>2, <3>1, <4>3 DEF Other
      <4>5. AsksFor(h, q, n) => q \in watched' \/ \E k \in 1..Len(toClient') : Refuses(toClient'[k], n)
        BY <3>1, <4>3 DEF AsksFor
      <4>6. Heard(Tail(toServer), toClient', watched', q, n)
        <5> DEFINE u == toClient'
                   v == watched'
        <5>1. /\ (\E k \in 1..Len(toClient) : Refuses(toClient[k], n))
                    => \E k \in 1..Len(u) : Refuses(u[k], n)
              /\ (q \in watched /\ ~Other(toServer[1], q, n)) \/ AsksFor(toServer[1], q, n)
                   => q \in v \/ \E k \in 1..Len(u) : Refuses(u[k], n)
          BY <1>1, <4>2, <4>4, <4>5
        <5> HIDE DEF u, v
        <5>2. Heard(Tail(toServer), u, v, q, n)
          BY <1>1, <4>1, <5>1, SyncParts, TailHeard
        <5> QED
          BY <5>2 DEF u, v
      <4> QED
        BY <1>1, <4>6 DEF n
    <3>7. ListensAreHeard'
      BY <1>1, <3>6 DEF ListensAreHeard, Listening
    <3> QED
      BY <1>4, <3>5, <3>7 DEF InSync
  <2>3. CASE h.type # "listen"
    <3>1. \/ toClient' = toClient
          \/ \E ok \in BOOLEAN : toClient' = Append(toClient, Response(h.type, h.id, ok))
      BY <2>3 DEF Serve
    <3>2. watched' = watched \/ (h.type = "unlisten" /\ watched' = watched \ {h.query})
      BY <2>3 DEF Serve, server
    <3>3. /\ Cardinality(ListensIn(toClient')) = Cardinality(ListensIn(toClient))
          /\ \A n : (\E k \in 1..Len(toClient) : Refuses(toClient[k], n))
                   => \E k \in 1..Len(toClient') : Refuses(toClient'[k], n)
      <4>1. CASE toClient' = toClient
        BY <4>1
      <4>2. ASSUME NEW ok \in BOOLEAN, toClient' = Append(toClient, Response(h.type, h.id, ok))
            PROVE  /\ Cardinality(ListensIn(toClient')) = Cardinality(ListensIn(toClient))
                   /\ \A n : (\E k \in 1..Len(toClient) : Refuses(toClient[k], n))
                            => \E k \in 1..Len(toClient') : Refuses(toClient'[k], n)
        <5> DEFINE a == Response(h.type, h.id, ok)
        <5>1. a.type # "listen"
          BY <2>3 DEF Response
        <5> HIDE DEF a
        <5>2. toClient' = Append(toClient, a)
          BY <4>2 DEF a
        <5>3. Cardinality(ListensIn(toClient')) = Cardinality(ListensIn(toClient)) + 0
          BY <5>1, <5>2, SyncParts, ListensChange
        <5>4. Cardinality(ListensIn(toClient')) = Cardinality(ListensIn(toClient))
          BY <5>3, SyncParts
        <5>5. \A n : (\E k \in 1..Len(toClient) : Refuses(toClient[k], n))
                 => \E k \in 1..Len(toClient') : Refuses(toClient'[k], n)
          BY <5>2, SyncParts, MoreAnswers
        <5> QED
          BY <5>4, <5>5
      <4> QED
        BY <3>1, <4>1, <4>2
    <3>4. ListensAreCounted'
      BY <1>1, <1>3, <1>6, <2>1, <2>3, <3>3, SyncParts DEF ListensAreCounted, Connected
    <3>5. ASSUME NEW q \in Listening, conn = "connected"
          PROVE  Heard(toServer', toClient', watched', q, listens[q])
      <4> DEFINE n == listens[q]
                 u == toClient'
                 v == watched'
      <4>1. Heard(toServer, toClient, watched, q, n)
        BY <3>5, SyncParts
      <4>2. ~AsksFor(h, q, n) /\ (q \in watched /\ ~Other(h, q, n) => q \in v)
        BY <2>3, <3>2 DEF AsksFor, Other
      <4>3. (\E k \in 1..Len(toClient) : Refuses(toClient[k], n)) => \E k \in 1..Len(u) : Refuses(u[k], n)
        BY <3>3
      <4> HIDE DEF n, u, v, h
      <4>4. Heard(Tail(toServer), u, v, q, n)
        BY <1>1, <4>1, <4>2, <4>3, SyncParts, TailHeard
      <4> QED
        BY <1>1, <4>4 DEF n, u, v
    <3>6. ListensAreHeard'
      BY <1>1, <3>5 DEF ListensAreHeard, Listening
    <3> QED
      BY <1>4, <3>4, <3>6 DEF InSync
  <2> QED
    BY <2>2, <2>3
<1> QED
  BY <1>5, <1>6

LEMMA StepInSync ==
  ASSUME Known, InSync, [Next]_vars
  PROVE  InSync'
<1>1. CASE UNCHANGED vars
  BY <1>1, StillInSync DEF vars, session, link, writes, server
<1> QED
  BY <1>1, ConnectingInSync, ReadyInSync, AuthInSync, ListenInSync, PutInSync, UseInSync, ServeInSync
  DEF Next, Progress, Use, Trouble

\* Once connected, with nothing under way, the database watches what is listened
\* to and has all the writes, each acknowledged; unackedListensCount is zero,
\* although onDisconnect resets it and restoreState asks again for what was
\* already asked for.
THEOREM QuietIsInSync == Spec => []QuietMeansInSync
<1>1. Known /\ InSync /\ [Next]_vars => InSync'
  BY StepInSync
<1>2. Known /\ InSync => QuietMeansInSync
  <2> SUFFICES ASSUME Known, InSync, conn = "connected", toServer = <<>>, toClient = <<>>
               PROVE  /\ Listening \subseteq watched
                      /\ outstanding = {} /\ applied = issued
                      /\ NoListenPending
    BY DEF QuietMeansInSync
  <2>1. Listening \subseteq watched
    BY SyncParts DEF Heard, Pending, Settled
  <2>2. outstanding = {}
    BY EmptyPuts DEF Known, Ordered, PutsAreInOrder
  <2>3. applied = issued
    <3>1. held \cup completed = 1..issued /\ \A d \in held \cup completed : d <= applied
      BY <2>2 DEF Known, EachWriteIsOnce, InSync, DoneIsApplied
    <3>2. issued \in Nat /\ reached \in 0..issued /\ applied \in 0..reached
      BY Bounds, SyncParts DEF TypeOK
    <3>3. CASE issued = 0
      BY <3>2, <3>3
    <3>4. CASE issued # 0
      <4>1. issued \in 1..issued
        BY <3>2, <3>4
      <4>2. issued <= applied
        BY <3>1, <4>1
      <4> QED
        BY <3>2, <4>2
    <3> QED
      BY <3>3, <3>4
  <2>4. NoListenPending
    <3>1. Cardinality(ListensIn(toServer)) = 0 /\ Cardinality(ListensIn(toClient)) = 0
      BY SyncParts, ListensChange
    <3>2. unacked = Cardinality(ListensIn(toServer)) + Cardinality(ListensIn(toClient))
      BY SyncParts DEF Connected
    <3> QED
      BY <3>1, <3>2 DEF NoListenPending
  <2> QED
    BY <2>1, <2>2, <2>3, <2>4
<1> QED
  BY <1>1, <1>2, InitIsInSync, AlwaysKnown, PTL DEF Spec
=============================================================================
