---------------------------- MODULE TableProofs ----------------------------
(***************************************************************************)
(* The tables that the app's pages load: of won games, and of people.      *)
(*                                                                         *)
(* Of History: that no result is overwritten while recordings do not       *)
(* overlap, for any number of devices and any dates, and however pages     *)
(* load in between; and that what a page lists is in order, was won, and   *)
(* lacks one own game at most.                                             *)
(*                                                                         *)
(* Of FriendList: that rows are backed by the arrays and about the person  *)
(* they name, and that a loaded table shows everybody, for lists of any    *)
(* length.                                                                 *)
(***************************************************************************)
EXTENDS History, FriendList, SequenceProofs, TLAPS

Calls == [kind : {"record", "put", "load"}, keys : SUBSET Dates]

Results(s) == {i \in DOMAIN s : s[i].kind \in {"record", "put"}}

\* What the invariant is about is well typed.
Typed ==
  /\ queue \in [Devices -> Seq(Calls)]
  /\ won \in [Devices -> SUBSET Dates]
  /\ single \subseteq Dates

\* While nobody hurries, one result at most is on its way.  Until its map has
\* been read, the database lacks only that one; then the map is complete.
OneAtATime ==
  ~hurried =>
    /\ (\A d \in Devices : ~Recording(d)) => single = Wins
    /\ \A d, e \in Devices : Recording(d) /\ Recording(e) => d = e
    /\ \A d \in Devices : \A i, j \in Results(queue[d]) : i = j
    /\ \A d \in Devices : \A i \in DOMAIN queue[d] :
         /\ queue[d][i].kind = "record" => single \cup queue[d][i].keys = Wins
         /\ queue[d][i].kind = "put" => queue[d][i].keys = Wins

IInv == Typed /\ OneAtATime

-----------------------------------------------------------------------------
(* Queues.                                                                 *)

LEMMA CallIsCall ==
  ASSUME NEW keys \in SUBSET Dates, NEW kind \in {"record", "put", "load"}
  PROVE  Call(kind, keys) \in Calls
  BY DEF Call, Calls

LEMMA Appended ==
  ASSUME NEW s \in Seq(Calls), NEW c \in Calls
  PROVE  /\ Append(s, c) \in Seq(Calls)
         /\ DOMAIN Append(s, c) = DOMAIN s \cup {Len(s) + 1}
         /\ \A i \in DOMAIN s : Append(s, c)[i] = s[i]
         /\ Append(s, c)[Len(s) + 1] = c
         /\ Len(s) + 1 \notin DOMAIN s
  OBVIOUS

LEMMA Shifted ==
  ASSUME NEW s \in Seq(Calls), s # <<>>
  PROVE  /\ Head(s) \in Calls /\ Tail(s) \in Seq(Calls)
         /\ 1 \in DOMAIN s /\ s[1] = Head(s)
         /\ DOMAIN Tail(s) = 1..(Len(s) - 1) /\ DOMAIN s = 1..Len(s) /\ Len(s) \in Nat
         /\ \A i \in DOMAIN Tail(s) : i + 1 \in DOMAIN s /\ Tail(s)[i] = s[i + 1]
  OBVIOUS

LEMMA TailAndOne ==
  ASSUME NEW s \in Seq(Calls), NEW c \in Calls
  PROVE  s \o <<c>> = Append(s, c) /\ s \o <<>> = s
  OBVIOUS

-----------------------------------------------------------------------------

LEMMA InitIsOne == Init => IInv
<1> SUFFICES ASSUME Init PROVE IInv
  OBVIOUS
<1>1. Typed
  <2>1. Call("load", {}) \in Calls
    BY CallIsCall
  <2>2. <<Call("load", {})>> \in Seq(Calls)
    BY <2>1
  <2> QED
    BY <2>2 DEF Init, Typed
<1>2. single = {} /\ Wins = {}
  BY DEF Init, Wins
<1>3. \A d \in Devices : \A i \in DOMAIN queue[d] : queue[d][i].kind = "load"
  BY DEF Init, Call
<1> QED
  BY <1>1, <1>2, <1>3 DEF IInv, OneAtATime, Recording, Results

\* A call that is no result comes to the end of a queue, or goes.
LEMMA OtherCalls ==
  ASSUME IInv, Typed',
         NEW d \in Devices,
         UNCHANGED <<single, won, hurried>>,
         \A e \in Devices : e # d => queue'[e] = queue[e],
         \/ \E c \in Calls : c.kind = "load" /\ queue'[d] = Append(queue[d], c)
         \/ queue[d] # <<>> /\ queue'[d] = Tail(queue[d]) /\ Head(queue[d]).kind = "load"
         \/ queue'[d] = queue[d]
  PROVE  OneAtATime'
<1> SUFFICES ASSUME ~hurried PROVE OneAtATime'
  BY DEF OneAtATime
<1> DEFINE s == queue[d]
           t == queue'[d]
<1>0. s \in Seq(Calls)
  BY DEF IInv, Typed
<1>1. \E shift \in {0, 1} :
        /\ DOMAIN s \subseteq Nat /\ DOMAIN t \subseteq Nat
        /\ \A i \in DOMAIN t : t[i].kind = "load" \/ (i + shift \in DOMAIN s /\ t[i] = s[i + shift])
        /\ \A i \in DOMAIN s : s[i].kind = "load" \/ (i - shift \in DOMAIN t /\ s[i] = t[i - shift])
  <2>1. CASE \E c \in Calls : c.kind = "load" /\ t = Append(s, c)
    BY <1>0, <2>1, Appended
  <2>2. CASE s # <<>> /\ t = Tail(s) /\ Head(s).kind = "load"
    <3>1. \A i \in DOMAIN s : i = 1 \/ (i - 1 \in DOMAIN t /\ t[i - 1] = s[i])
      BY <1>0, <2>2, Shifted
    <3> QED
      BY <1>0, <2>2, <3>1, Shifted
  <2>3. CASE t = s
    BY <1>0, <2>3
  <2> QED
    BY <2>1, <2>2, <2>3
<1> PICK shift \in {0, 1} :
        /\ DOMAIN s \subseteq Nat /\ DOMAIN t \subseteq Nat
        /\ \A i \in DOMAIN t : t[i].kind = "load" \/ (i + shift \in DOMAIN s /\ t[i] = s[i + shift])
        /\ \A i \in DOMAIN s : s[i].kind = "load" \/ (i - shift \in DOMAIN t /\ s[i] = t[i - shift])
  BY <1>1
<1>2. \A i \in Results(t) : i + shift \in Results(s) /\ t[i] = s[i + shift]
  BY DEF Results
<1>3. \A i \in Results(s) : i - shift \in Results(t)
  BY DEF Results
<1>4. \A e \in Devices : Recording(e)' <=> Recording(e)
  <2>1. Recording(d)' <=> Recording(d)
    BY <1>2, <1>3 DEF Recording, Results
  <2> QED
    BY <2>1 DEF Recording
<1>5. Wins' = Wins
  BY DEF Wins
<1>6. \A i, j \in Results(t) : i = j
  <2> SUFFICES ASSUME NEW i \in Results(t), NEW j \in Results(t) PROVE i = j
    OBVIOUS
  <2>1. i + shift = j + shift
    BY <1>2 DEF IInv, OneAtATime
  <2> QED
    BY <2>1 DEF Results
<1>7. \A i \in DOMAIN t : /\ t[i].kind = "record" => single \cup t[i].keys = Wins
                          /\ t[i].kind = "put" => t[i].keys = Wins
  BY DEF IInv, OneAtATime
<1>8. ((\A e \in Devices : ~Recording(e)) => single = Wins)'
  BY <1>4, <1>5 DEF IInv, OneAtATime
<1>9. \A e \in Devices : \A i, j \in Results(queue'[e]) : i = j
  BY <1>6 DEF IInv, OneAtATime
<1>10. \A e \in Devices : \A i \in DOMAIN queue'[e] :
         /\ queue'[e][i].kind = "record" => single' \cup queue'[e][i].keys = Wins'
         /\ queue'[e][i].kind = "put" => queue'[e][i].keys = Wins'
  BY <1>5, <1>7 DEF IInv, OneAtATime
<1> QED
  BY <1>4, <1>8, <1>9, <1>10 DEF IInv, OneAtATime, Results

LEMMA StepIsTyped == Typed /\ OneAtATime /\ [Next]_vars => Typed'
<1> SUFFICES ASSUME Typed, [Next]_vars PROVE Typed'
  OBVIOUS
<1>1. \A d \in Devices : queue[d] \in Seq(Calls) /\ won[d] \in SUBSET Dates
  BY DEF Typed
<1>2. ASSUME NEW d \in Devices, NEW s \in Seq(Calls), queue' = [queue EXCEPT ![d] = s],
             won' = won, single' \subseteq Dates
      PROVE  Typed'
  BY <1>2 DEF Typed
<1>3. \A d \in Devices, c \in Calls : Append(queue[d], c) \in Seq(Calls)
  BY <1>1
<1>4. ASSUME NEW d \in Devices, NEW b \in BOOLEAN, LoadTable(d, b), UNCHANGED <<won, single>>
      PROVE  Typed'
  <2>1. Call("load", {}) \in Calls
    BY CallIsCall
  <2>2. CASE b
    BY <1>2, <1>3, <1>4, <2>1, <2>2 DEF LoadTable, Typed
  <2>3. CASE ~b
    BY <1>4, <2>3 DEF LoadTable, Typed
  <2> QED
    BY <2>2, <2>3
<1>5. ASSUME NEW d \in Devices, queue[d] # <<>>, won' = won, single' \subseteq Dates,
             NEW rest \in Seq(Calls), Makes(d, rest)
      PROVE  Typed'
  <2>1. Tail(queue[d]) \o rest \in Seq(Calls)
    BY <1>1, <1>5, Shifted
  <2> QED
    BY <1>2, <1>5, <2>1 DEF Makes
<1>6. ASSUME NEW d \in Devices, AnswerRecord(d) PROVE Typed'
  <2>1. queue[d] # <<>> /\ UNCHANGED <<won, single>> /\ single \subseteq Dates
    BY <1>6 DEF AnswerRecord, First, Typed
  <2>2. Head(queue[d]) \in Calls
    BY <1>1, <2>1, Shifted
  <2>3. Call("put", Updated(Head(queue[d]).keys)) \in Calls
    <3>1. Head(queue[d]).keys \subseteq Dates
      BY <2>2 DEF Calls
    <3> QED
      BY <2>1, <3>1, CallIsCall DEF Updated
  <2>4. <<Call("put", Updated(Head(queue[d]).keys))>> \in Seq(Calls)
    BY <2>3
  <2> QED
    BY <1>5, <1>6, <2>1, <2>4 DEF AnswerRecord
<1>7. ASSUME NEW d \in Devices, Put(d) \/ AnswerLoad(d) PROVE Typed'
  <2>1. queue[d] # <<>> /\ won' = won /\ Makes(d, <<>>)
    BY <1>7 DEF Put, AnswerLoad, First
  <2>2. Head(queue[d]).keys \subseteq Dates
    BY <1>1, <2>1, Shifted DEF Calls
  <2>3. single' \subseteq Dates
    BY <1>7, <2>2 DEF Put, AnswerLoad, Typed
  <2>4. <<>> \in Seq(Calls)
    OBVIOUS
  <2> QED
    BY <1>5, <2>1, <2>3, <2>4
<1>8. ASSUME NEW d \in Devices, NEW now \in Dates, Win(d, now) PROVE Typed'
  <2>1. Call("record", {now}) \in Calls
    BY CallIsCall
  <2>2. Append(queue[d], Call("record", {now})) \in Seq(Calls)
    BY <1>3, <2>1
  <2>3. won' \in [Devices -> SUBSET Dates]
    BY <1>8 DEF Win, Typed
  <2> QED
    BY <1>8, <2>2, <2>3 DEF Win, Typed
<1>9. ASSUME NEW d \in Devices,
             Appear(d) \/ SegmentSingle(d) \/ SegmentMulti(d) \/ Leave(d)
      PROVE  Typed'
  <2>1. CASE Appear(d)
    <3>1. mode[d] \in BOOLEAN => Typed'
      BY <1>4, <2>1 DEF Appear
    <3> QED
      BY <1>2, <1>3, <2>1, <3>1, CallIsCall DEF Appear, LoadTable, Typed
  <2>2. CASE SegmentSingle(d)
    BY <1>4, <2>2 DEF SegmentSingle
  <2>3. CASE SegmentMulti(d) \/ Leave(d)
    BY <2>3 DEF SegmentMulti, Leave, Typed
  <2> QED
    BY <1>9, <2>1, <2>2, <2>3
<1>10. CASE UNCHANGED vars
  BY <1>10 DEF vars, Typed
<1> QED
  BY <1>6, <1>7, <1>8, <1>9, <1>10 DEF Next, Answers

LEMMA WinIsOne ==
  ASSUME IInv, NEW d \in Devices, NEW now \in Dates, Win(d, now)
  PROVE  OneAtATime'
<1> SUFFICES ASSUME ~hurried' PROVE OneAtATime'
  BY DEF OneAtATime
<1> DEFINE c == Call("record", {now})
<1>1. /\ ~hurried /\ \A e \in Devices : ~Recording(e)
      /\ queue' = [queue EXCEPT ![d] = Append(queue[d], c)]
      /\ single' = single
  BY DEF Win
<1>2. c \in Calls /\ c.kind = "record" /\ c.keys = {now}
  BY CallIsCall DEF Call
<1>3. queue[d] \in Seq(Calls) /\ queue \in [Devices -> Seq(Calls)]
  BY DEF IInv, Typed
<1>4. single = Wins
  BY <1>1 DEF IInv, OneAtATime
<1>5. Wins' = Wins \cup {now}
  BY DEF Win, IInv, Typed, Wins
<1>6. queue'[d] = Append(queue[d], c) /\ \A e \in Devices : e # d => queue'[e] = queue[e]
  BY <1>1, <1>3
<1>7. \A e \in Devices : Results(queue[e]) = {}
  BY <1>1 DEF Recording, Results
<1>8. Results(queue'[d]) = {Len(queue[d]) + 1}
  BY <1>2, <1>3, <1>6, <1>7, Appended DEF Results
<1>9. \A e \in Devices : e # d => Results(queue'[e]) = {}
  BY <1>6, <1>7
<1>10. \A e \in Devices : Recording(e)' <=> e = d
  <2>1. \A e \in Devices : Recording(e)' <=> Results(queue'[e]) # {}
    BY DEF Recording, Results
  <2> QED
    BY <1>8, <1>9, <2>1
<1>11. \A e \in Devices : \A i \in DOMAIN queue'[e] :
         i \in Results(queue'[e]) => queue'[e][i] = c
  <2>1. queue'[d][Len(queue[d]) + 1] = c
    BY <1>2, <1>3, <1>6, Appended
  <2>2. \A i \in Results(queue'[d]) : queue'[d][i] = c
    BY <1>8, <2>1
  <2> HIDE DEF c
  <2> QED
    BY <1>9, <2>2
<1>12. \A e \in Devices : \A i \in DOMAIN queue'[e] :
         /\ queue'[e][i].kind = "record" => single' \cup queue'[e][i].keys = Wins'
         /\ queue'[e][i].kind = "put" => queue'[e][i].keys = Wins'
  BY <1>1, <1>2, <1>4, <1>5, <1>11 DEF Results
<1>13. \A e \in Devices : \A i, j \in Results(queue'[e]) : i = j
  BY <1>8, <1>9
<1> QED
  BY <1>10, <1>12, <1>13 DEF OneAtATime, Results

\* The first call is the only result under way, and goes.
LEMMA ResultGoes ==
  ASSUME IInv, ~hurried, NEW d \in Devices, queue[d] # <<>>,
         Head(queue[d]).kind \in {"record", "put"}
  PROVE  /\ \A e \in Devices : e # d => Results(queue[e]) = {}
         /\ Tail(queue[d]) \in Seq(Calls) /\ Results(Tail(queue[d])) = {}
         /\ Head(queue[d]).kind = "record" => single \cup Head(queue[d]).keys = Wins
         /\ Head(queue[d]).kind = "put" => Head(queue[d]).keys = Wins
<1>1. queue[d] \in Seq(Calls)
  BY DEF IInv, Typed
<1>2. 1 \in Results(queue[d]) /\ queue[d][1] = Head(queue[d])
  BY <1>1, Shifted DEF Results
<1>3. Recording(d)
  BY <1>2 DEF Recording, Results
<1>4. \A e \in Devices : e # d => ~Recording(e)
  BY <1>3 DEF IInv, OneAtATime
<1>5. \A i \in Results(queue[d]) : i = 1
  BY <1>2 DEF IInv, OneAtATime
<1>6. Results(Tail(queue[d])) = {}
  <2> SUFFICES ASSUME NEW i \in Results(Tail(queue[d])) PROVE FALSE
    OBVIOUS
  <2>1. i \in Nat \ {0} /\ i + 1 \in Results(queue[d])
    BY <1>1, Shifted DEF Results
  <2> QED
    BY <1>5, <2>1
<1> QED
  BY <1>1, <1>2, <1>4, <1>6, Shifted DEF IInv, OneAtATime, Recording, Results

LEMMA AnswerIsOne ==
  ASSUME IInv, NEW d \in Devices, AnswerRecord(d)
  PROVE  OneAtATime'
<1> SUFFICES ASSUME ~hurried PROVE OneAtATime'
  BY DEF OneAtATime, AnswerRecord
<1> DEFINE s == Tail(queue[d])
           c == Call("put", single \cup Head(queue[d]).keys)
<1>1. queue[d] # <<>> /\ Head(queue[d]).kind = "record" /\ UNCHANGED <<single, won, hurried>>
  BY DEF AnswerRecord, First
<1>2. /\ \A e \in Devices : e # d => Results(queue[e]) = {}
      /\ s \in Seq(Calls) /\ Results(s) = {}
      /\ single \cup Head(queue[d]).keys = Wins
  BY <1>1, ResultGoes
<1>3. c.kind = "put" /\ c.keys = Wins /\ Wins' = Wins
  BY <1>1, <1>2 DEF Call, Wins
<1>4. c \in Calls
  BY <1>2, CallIsCall DEF IInv, Typed, Wins
<1>5. queue' = [queue EXCEPT ![d] = Append(s, c)]
  <2>1. queue' = [queue EXCEPT ![d] = s \o <<c>>]
    BY DEF AnswerRecord, Makes, Updated
  <2> QED
    BY <1>2, <1>4, <2>1, TailAndOne
<1>6. queue'[d] = Append(s, c) /\ \A e \in Devices : e # d => queue'[e] = queue[e]
  BY <1>5 DEF IInv, Typed
<1>7. Results(queue'[d]) = {Len(s) + 1}
  BY <1>2, <1>3, <1>4, <1>6, Appended DEF Results
<1>8. \A e \in Devices : e # d => Results(queue'[e]) = {}
  BY <1>2, <1>6
<1>9. \A e \in Devices : Recording(e)' <=> e = d
  <2>1. \A e \in Devices : Recording(e)' <=> Results(queue'[e]) # {}
    BY DEF Recording, Results
  <2> QED
    BY <1>7, <1>8, <2>1
<1>10. \A e \in Devices : \A i \in DOMAIN queue'[e] :
         i \in Results(queue'[e]) => queue'[e][i] = c
  <2>1. queue'[d][Len(s) + 1] = c
    BY <1>2, <1>4, <1>6, Appended
  <2>2. \A i \in Results(queue'[d]) : queue'[d][i] = c
    BY <1>7, <2>1
  <2> HIDE DEF c
  <2> QED
    BY <1>8, <2>2
<1>11. \A e \in Devices : \A i \in DOMAIN queue'[e] :
         /\ queue'[e][i].kind # "record"
         /\ queue'[e][i].kind = "put" => queue'[e][i].keys = Wins'
  BY <1>3, <1>10 DEF Results
<1>12. \A e \in Devices : \A i, j \in Results(queue'[e]) : i = j
  BY <1>7, <1>8
<1> QED
  BY <1>9, <1>11, <1>12 DEF OneAtATime, Results

LEMMA PutIsOne ==
  ASSUME IInv, NEW d \in Devices, Put(d)
  PROVE  OneAtATime'
<1> SUFFICES ASSUME ~hurried PROVE OneAtATime'
  BY DEF OneAtATime, Put
<1>1. queue[d] # <<>> /\ Head(queue[d]).kind = "put" /\ UNCHANGED <<won, hurried>>
  BY DEF Put, First
<1>2. /\ \A e \in Devices : e # d => Results(queue[e]) = {}
      /\ Tail(queue[d]) \in Seq(Calls) /\ Results(Tail(queue[d])) = {}
      /\ Head(queue[d]).keys = Wins
  BY <1>1, ResultGoes
<1>3. single' = Wins /\ Wins' = Wins
  BY <1>1, <1>2 DEF Put, Wins
<1>4. queue' = [queue EXCEPT ![d] = Tail(queue[d])]
  BY <1>2, TailAndOne DEF Put, Makes
<1>5. \A e \in Devices : Results(queue'[e]) = {}
  BY <1>2, <1>4 DEF IInv, Typed
<1>6. \A e \in Devices : ~Recording(e)'
  BY <1>5 DEF Recording, Results
<1>7. \A e \in Devices : \A i \in DOMAIN queue'[e] : queue'[e][i].kind \notin {"record", "put"}
  BY <1>5 DEF Results
<1> QED
  BY <1>3, <1>5, <1>6, <1>7 DEF OneAtATime, Results

LEMMA StepIsOne == IInv /\ [Next]_vars => IInv'
<1> SUFFICES ASSUME IInv, [Next]_vars PROVE IInv'
  OBVIOUS
<1>1. Typed'
  BY StepIsTyped DEF IInv
<1>2. queue \in [Devices -> Seq(Calls)]
  BY DEF IInv, Typed
<1>3. ASSUME NEW d \in Devices, NEW b \in BOOLEAN, LoadTable(d, b),
             UNCHANGED <<single, won, hurried>>
      PROVE  OneAtATime'
  <2>1. Call("load", {}) \in Calls /\ Call("load", {}).kind = "load"
    BY CallIsCall DEF Call
  <2>2. queue'[d] = queue[d] \/ queue'[d] = Append(queue[d], Call("load", {}))
    BY <1>2, <1>3 DEF LoadTable
  <2>3. \A e \in Devices : e # d => queue'[e] = queue[e]
    BY <1>2, <1>3 DEF LoadTable
  <2> QED
    BY <1>1, <1>3, <2>1, <2>2, <2>3, OtherCalls
<1>4. ASSUME NEW d \in Devices, AnswerLoad(d) PROVE OneAtATime'
  <2>1. queue[d] # <<>> /\ Head(queue[d]).kind = "load" /\ UNCHANGED <<single, won, hurried>>
    BY <1>4 DEF AnswerLoad, First
  <2>2. Tail(queue[d]) \in Seq(Calls)
    BY <1>2, <2>1, Shifted
  <2>3. queue' = [queue EXCEPT ![d] = Tail(queue[d])]
    BY <1>4, <2>2, TailAndOne DEF AnswerLoad, Makes
  <2> QED
    BY <1>1, <1>2, <2>1, <2>3, OtherCalls
<1>5. ASSUME NEW d \in Devices,
             Appear(d) \/ SegmentSingle(d) \/ SegmentMulti(d) \/ Leave(d)
      PROVE  OneAtATime'
  <2>1. CASE Appear(d)
    <3>1. LoadTable(d, mode[d]) /\ UNCHANGED <<single, won, hurried>>
      BY <2>1 DEF Appear
    <3>2. CASE mode[d]
      BY <1>3, <3>1, <3>2 DEF LoadTable
    <3>3. CASE ~mode[d]
      BY <1>3, <3>1, <3>3 DEF LoadTable
    <3> QED
      BY <3>2, <3>3
  <2>2. CASE SegmentSingle(d)
    BY <1>3, <2>2 DEF SegmentSingle
  <2>3. CASE SegmentMulti(d) \/ Leave(d)
    BY <1>1, <2>3, OtherCalls DEF SegmentMulti, Leave
  <2> QED
    BY <1>5, <2>1, <2>2, <2>3
<1>6. ASSUME UNCHANGED vars PROVE OneAtATime'
  BY <1>6 DEF vars, IInv, OneAtATime, Recording, Results, Wins
<1> QED
  BY <1>1, <1>4, <1>5, <1>6, WinIsOne, AnswerIsOne, PutIsOne DEF Next, Answers, IInv

-----------------------------------------------------------------------------
\* While nobody wins a game as another result is being recorded, on any device,
\* every win is in the database when no result is being recorded (a win reads
\* the whole history, adds itself and writes it back).
THEOREM ResultsStay == Spec => []ResultsAreKept
<1>1. IInv => ResultsAreKept
  BY DEF IInv, OneAtATime, ResultsAreKept
<1>2. QED
  BY <1>1, InitIsOne, StepIsOne, PTL DEF Spec
-----------------------------------------------------------------------------
(* Dates as text.                                                          *)

Part(date, i) == Append(Digits(date[i]), IF i = Len(date) THEN 11 ELSE 10)

LEMMA DigitsOfNumbers ==
  ASSUME NEW a \in 0..99
  PROVE  /\ a < 10 => Digits(a) = <<a>>
         /\ a >= 10 => \E q \in 1..9 : \E r \in 0..9 : a = 10 * q + r /\ Digits(a) = <<q, r>>
<1>1. a \div 10 \in 0..9 /\ a % 10 \in 0..9 /\ a = 10 * (a \div 10) + (a % 10)
  OBVIOUS
<1>2. a >= 10 => a \div 10 # 0
  BY <1>1
<1> QED
  BY <1>1, <1>2 DEF Digits

\* What a number and the letter after it look like.
IsPart(p, a, e) ==
  /\ p \in Seq(Nat)
  /\ a < 10 => Len(p) = 2 /\ p[1] = a /\ p[2] = e
  /\ a >= 10 => Len(p) = 3 /\ p[1] \in 1..9 /\ p[2] \in 0..9 /\ a = 10 * p[1] + p[2]

LEMMA PartsOfDates ==
  ASSUME NEW a \in 0..99, NEW e \in {10, 11}
  PROVE  IsPart(Append(Digits(a), e), a, e)
<1> SUFFICES ASSUME NEW p, p = Append(Digits(a), e) PROVE IsPart(p, a, e)
  OBVIOUS
<1> USE DEF IsPart
<1>1. CASE a < 10
  <2>1. p = Append(<<a>>, e)
    BY <1>1, DigitsOfNumbers
  <2> QED
    BY <1>1, <2>1
<1>2. CASE a >= 10
  <2>1. PICK q \in 1..9 : \E r \in 0..9 : a = 10 * q + r /\ Digits(a) = <<q, r>>
    BY <1>2, DigitsOfNumbers
  <2>2. PICK r \in 0..9 : a = 10 * q + r /\ Digits(a) = <<q, r>>
    BY <2>1
  <2>3. p = Append(<<q, r>>, e)
    BY <2>2
  <2>4. p \in Seq(Nat) /\ Len(p) = 3 /\ p[1] = q /\ p[2] = r
    BY <2>3
  <2>5. p[1] \in 1..9 /\ p[2] \in 0..9
    BY <2>4
  <2>6. a = 10 * p[1] + p[2]
    BY <2>2, <2>4, Zenon
  <2>7. ~(a < 10)
    BY <1>2
  <2> QED
    BY <2>4, <2>5, <2>6, <2>7, Zenon
<1> QED
  BY <1>1, <1>2

\* Numbers that differ are told apart by their text; with as many digits, the
\* smaller one comes first.
LEMMA PartsDiffer ==
  ASSUME NEW a \in 0..99, NEW b \in 0..99, a < b, NEW e \in {10, 11},
         NEW p, p = Append(Digits(a), e), NEW q, q = Append(Digits(b), e)
  PROVE  IF (a < 10) = (b < 10) THEN Before(p, q) ELSE Before(p, q) \/ Before(q, p)
<1>1. /\ p \in Seq(Nat)
      /\ a < 10 => Len(p) = 2 /\ p[1] = a /\ p[2] = e
      /\ a >= 10 => Len(p) = 3 /\ p[1] \in 1..9 /\ p[2] \in 0..9 /\ a = 10 * p[1] + p[2]
  <2>1. IsPart(p, a, e)
    BY PartsOfDates
  <2> QED
    BY <2>1 DEF IsPart
<1>2. /\ q \in Seq(Nat)
      /\ b < 10 => Len(q) = 2 /\ q[1] = b /\ q[2] = e
      /\ b >= 10 => Len(q) = 3 /\ q[1] \in 1..9 /\ q[2] \in 0..9 /\ b = 10 * q[1] + q[2]
  <2>1. IsPart(q, b, e)
    BY PartsOfDates
  <2> QED
    BY <2>1 DEF IsPart
<1>3. 1 \in DOMAIN p \cap DOMAIN q /\ 2 \in DOMAIN p \cap DOMAIN q
  BY <1>1, <1>2
<1>4. ASSUME p[1] < q[1] PROVE Before(p, q)
  BY <1>3, <1>4 DEF Before
<1>5. ASSUME q[1] < p[1] PROVE Before(q, p)
  BY <1>3, <1>5 DEF Before
<1>6. \A j \in 1..(2 - 1) : j = 1
  OBVIOUS
<1>7. ASSUME p[1] = q[1], p[2] < q[2] PROVE Before(p, q)
  BY <1>3, <1>6, <1>7 DEF Before
<1>8. ASSUME p[1] = q[1], q[2] < p[2] PROVE Before(q, p)
  BY <1>3, <1>6, <1>8 DEF Before
<1>9. CASE b < 10
  BY <1>1, <1>2, <1>4, <1>9
<1>10. CASE a >= 10
  <2>1. p[1] < q[1] \/ (p[1] = q[1] /\ p[2] < q[2])
    <3>1. /\ p[1] \in 1..9 /\ p[2] \in 0..9 /\ a = 10 * p[1] + p[2]
          /\ q[1] \in 1..9 /\ q[2] \in 0..9 /\ b = 10 * q[1] + q[2]
      BY <1>1, <1>2, <1>10
    <3>2. \A x, y \in 1..9 : \A z, w \in 0..9 :
            10 * x + z < 10 * y + w => x < y \/ (x = y /\ z < w)
      OBVIOUS
    <3>3. 10 * p[1] + p[2] < 10 * q[1] + q[2]
      BY <3>1
    <3> QED
      BY <3>1, <3>2, <3>3, Zenon
  <2> QED
    BY <1>4, <1>7, <1>10, <2>1
<1>11. CASE a < 10 /\ b >= 10
  <2>1. p[1] < q[1] \/ q[1] < p[1] \/ (p[1] = q[1] /\ q[2] < p[2])
    <3>1. p[1] = a /\ p[2] = e /\ q[1] \in 1..9 /\ q[2] \in 0..9
      BY <1>1, <1>2, <1>11, Zenon
    <3>2. p[1] \in 0..99 /\ p[2] \in 10..11
      BY <3>1
    <3>3. \A x \in 0..99, y \in 1..9 : x < y \/ y < x \/ x = y
      OBVIOUS
    <3>4. \A x \in 10..11, y \in 0..9 : y < x
      OBVIOUS
    <3> QED
      BY <3>1, <3>2, <3>3, <3>4, Zenon
  <2>2. ~((a < 10) = (b < 10))
    BY <1>11
  <2> QED
    BY <1>4, <1>5, <1>8, <2>1, <2>2
<1> QED
  BY <1>9, <1>10, <1>11

\* Where a difference is, the other sequence goes as far, and further.
LEMMA Inside ==
  /\ \A n \in Nat : \A i \in 1..n : \A j \in 1..(i - 1) : j \in 1..n
  /\ \A n \in Nat : \A j \in 1..n : \A i \in Nat \ {0} :
       i <= j => i \in 1..n /\ \A k \in 1..(i - 1) : k \in 1..(j - 1)
  /\ \A n \in Nat, m \in Nat : \A j \in (n + 1)..(n + m) : j - n \in 1..m /\ n + (j - n) = j
  OBVIOUS

LEMMA LongerTexts ==
  ASSUME NEW a \in Seq(Nat), NEW b \in Seq(Nat), NEW c \in Seq(Nat), NEW d \in Seq(Nat)
  PROVE  /\ Before(a, b) => Before(a \o c, b \o d)
         /\ Before(c, d) => Before(a \o c, a \o d)
<1>1. ASSUME Before(a, b) PROVE Before(a \o c, b \o d)
  <2>1. PICK i \in DOMAIN a \cap DOMAIN b : a[i] < b[i] /\ \A j \in 1..(i - 1) : a[j] = b[j]
    BY <1>1 DEF Before
  <2> DEFINE p == a \o c
             q == b \o d
  <2>2. /\ DOMAIN p = 1..(Len(a) + Len(c)) /\ \A j \in 1..Len(a) : p[j] = a[j]
        /\ DOMAIN q = 1..(Len(b) + Len(d)) /\ \A j \in 1..Len(b) : q[j] = b[j]
    OBVIOUS
  <2>3. /\ Len(a) \in Nat /\ Len(b) \in Nat /\ Len(c) \in Nat /\ Len(d) \in Nat
        /\ i \in 1..Len(a) /\ i \in 1..Len(b)
    BY <2>1
  <2> HIDE DEF p, q
  <2>4. i \in DOMAIN p \cap DOMAIN q /\ p[i] < q[i]
    BY <2>1, <2>2, <2>3
  <2>5. ASSUME NEW j \in 1..(i - 1) PROVE p[j] = q[j]
    <3>1. j \in 1..Len(a) /\ j \in 1..Len(b)
      BY <2>3, Inside, Zenon
    <3> QED
      BY <2>1, <2>2, <3>1
  <2>6. Before(p, q)
    BY <2>4, <2>5 DEF Before
  <2> QED
    BY <2>6 DEF p, q
<1>2. ASSUME Before(c, d) PROVE Before(a \o c, a \o d)
  <2>1. PICK i \in DOMAIN c \cap DOMAIN d : c[i] < d[i] /\ \A j \in 1..(i - 1) : c[j] = d[j]
    BY <1>2 DEF Before
  <2> DEFINE p == a \o c
             q == a \o d
             n == Len(a)
  <2>2. /\ DOMAIN p = 1..(n + Len(c)) /\ DOMAIN q = 1..(n + Len(d))
        /\ \A j \in 1..n : p[j] = a[j] /\ q[j] = a[j]
        /\ \A j \in (n + 1)..(n + Len(c)) : p[j] = c[j - n]
        /\ \A j \in (n + 1)..(n + Len(d)) : q[j] = d[j - n]
    <3>1. /\ DOMAIN p = 1..(n + Len(c)) /\ \A j \in 1..n : p[j] = a[j]
          /\ \A j \in 1..Len(c) : p[n + j] = c[j]
      BY Concatenation
    <3>2. /\ DOMAIN q = 1..(n + Len(d)) /\ \A j \in 1..n : q[j] = a[j]
          /\ \A j \in 1..Len(d) : q[n + j] = d[j]
      BY Concatenation
    <3>3. n \in Nat /\ Len(c) \in Nat /\ Len(d) \in Nat
      OBVIOUS
    <3> HIDE DEF n, p, q
    <3>4. ASSUME NEW j \in (n + 1)..(n + Len(c)) PROVE p[j] = c[j - n]
      <4>1. j - n \in 1..Len(c) /\ n + (j - n) = j
        BY <3>3, Inside, Zenon
      <4>2. p[n + (j - n)] = c[j - n]
        BY <3>1, <4>1, Zenon
      <4> QED
        BY <4>1, <4>2, Zenon
    <3>5. ASSUME NEW j \in (n + 1)..(n + Len(d)) PROVE q[j] = d[j - n]
      <4>1. j - n \in 1..Len(d) /\ n + (j - n) = j
        BY <3>3, Inside, Zenon
      <4>2. q[n + (j - n)] = d[j - n]
        BY <3>2, <4>1, Zenon
      <4> QED
        BY <4>1, <4>2, Zenon
    <3> QED
      BY <3>1, <3>2, <3>4, <3>5, Zenon
  <2>3. /\ n \in Nat /\ Len(c) \in Nat /\ Len(d) \in Nat
        /\ i \in 1..Len(c) /\ i \in 1..Len(d) /\ i \in Nat
    BY <2>1
  <2> HIDE DEF p, q, n
  <2>4. n + i \in DOMAIN p \cap DOMAIN q /\ p[n + i] < q[n + i]
    <3>1. n + i \in (n + 1)..(n + Len(c)) /\ n + i \in (n + 1)..(n + Len(d)) /\ n + i - n = i
      BY <2>3
    <3>2. p[n + i] = c[i] /\ q[n + i] = d[i]
      <4>1. PICK j : j = n + i
        OBVIOUS
      <4>2. j \in (n + 1)..(n + Len(c)) /\ j \in (n + 1)..(n + Len(d)) /\ j - n = i
        BY <2>3, <4>1
      <4>3. p[j] = c[i] /\ q[j] = d[i]
        BY <2>2, <4>2
      <4> QED
        BY <4>1, <4>3
    <3>3. n + i \in 1..(n + Len(c)) /\ n + i \in 1..(n + Len(d))
      BY <2>3
    <3> QED
      BY <2>1, <2>2, <3>2, <3>3
  <2>5. ASSUME NEW j \in 1..(n + i - 1) PROVE p[j] = q[j]
    <3>1. CASE j <= n
      BY <2>2, <2>3, <3>1
    <3>2. CASE j > n
      <4>1. j - n \in 1..(i - 1) /\ j \in (n + 1)..(n + Len(c)) /\ j \in (n + 1)..(n + Len(d))
        BY <2>3, <3>2
      <4> QED
        BY <2>1, <2>2, <4>1
    <3> QED
      BY <2>3, <3>1, <3>2
  <2>6. n + i - 1 = (n + i) - 1
    BY <2>3
  <2>7. Before(p, q)
    BY <2>4, <2>5, <2>6 DEF Before
  <2> QED
    BY <2>7 DEF p, q
<1> QED
  BY <1>1, <1>2

-----------------------------------------------------------------------------
(* FlattenSeq, unfolded.                                                   *)

Joined(f, p, n) == f = [i \in 1..n |-> IF i = 1 THEN p[i] ELSE f[i - 1] \o p[i]]

LEMMA JoinedExists ==
  ASSUME NEW p, NEW m \in Nat
  PROVE  \E f : Joined(f, p, m)
<1> DEFINE S == {k \in Nat : \E f : Joined(f, p, k)}
           at(f, i) == IF i = 1 THEN p[i] ELSE f[i - 1] \o p[i]
<1>1. 0 \in S
  <2>1. Joined([i \in 1..0 |-> i], p, 0)
    BY DEF Joined
  <2> QED
    BY <2>1
<1>2. ASSUME NEW k \in S PROVE k + 1 \in S
  <2>1. PICK f : Joined(f, p, k)
    OBVIOUS
  <2> DEFINE g == [i \in 1..(k + 1) |-> IF i = k + 1 THEN at(f, k + 1) ELSE f[i]]
  <2>2. k \in Nat /\ \A i \in 1..(k + 1) : i # k + 1 => i \in 1..k
    OBVIOUS
  <2>3. \A i \in 1..k : g[i] = f[i] /\ f[i] = at(f, i)
    <3>1. \A i \in 1..k : g[i] = f[i]
      BY <2>2
    <3>2. f = [i \in 1..k |-> at(f, i)]
      BY <2>1 DEF Joined
    <3> HIDE DEF at
    <3>3. \A i \in 1..k : f[i] = at(f, i)
      BY <3>2
    <3> QED
      BY <3>1, <3>3
  <2>4. g[k + 1] = at(f, k + 1)
    BY <2>2
  <2>5. g = [i \in 1..(k + 1) |-> g[i]]
    OBVIOUS
  <2> HIDE DEF g
  <2>6. ASSUME NEW i \in 1..(k + 1) PROVE g[i] = at(g, i)
    <3>1. i = 1 \/ g[i - 1] = f[i - 1]
      BY <2>2, <2>3
    <3> QED
      BY <2>2, <2>3, <2>4, <3>1
  <2>7. Joined(g, p, k + 1)
    BY <2>5, <2>6 DEF Joined
  <2> QED
    BY <2>2, <2>7
<1>3. S \in SUBSET Nat
  OBVIOUS
<1>4. m \in S => \E f : Joined(f, p, m)
  OBVIOUS
<1> HIDE DEF S
<1>5. S = Nat
  BY <1>1, <1>2, <1>3, Induction
<1> QED
  BY <1>4, <1>5

LEMMA TextUnfolds ==
  ASSUME NEW s \in Seq(0..99), Len(s) # 0
  PROVE  \E f : /\ Text(s) = f[Len(s)]
                /\ f[1] = Part(s, 1)
                /\ \A i \in 2..Len(s) : f[i] = f[i - 1] \o Part(s, i)
<1> DEFINE p == [i \in DOMAIN s |-> Part(s, i)]
           n == Len(s)
           f == CHOOSE f : Joined(f, p, n)
<1>1. n \in Nat \ {0} /\ DOMAIN s = 1..n
  OBVIOUS
<1>2. Joined(f, p, n)
  BY <1>1, JoinedExists
<1>3. Len(p) = n /\ \A i \in 1..n : p[i] = Part(s, i)
  BY <1>1
<1>4. Text(s) = FlattenSeq(p)
  BY DEF Text, Part
<1> HIDE DEF p, n
<1>5. FlattenSeq(p) = f[n]
  BY <1>1, <1>3 DEF FlattenSeq, Joined
<1> HIDE DEF f
<1>6. 1 \in 1..n /\ \A i \in 2..n : i \in 1..n /\ i # 1
  BY <1>1
<1>7. f[1] = p[1] /\ \A i \in 2..n : f[i] = f[i - 1] \o p[i]
  BY <1>2, <1>6 DEF Joined
<1>8. f[1] = Part(s, 1) /\ \A i \in 2..n : f[i] = f[i - 1] \o Part(s, i)
  BY <1>3, <1>6, <1>7
<1> QED
  BY <1>4, <1>5, <1>8 DEF n

LEMMA ElementsAreOf ==
  ASSUME NEW S, NEW s \in Seq(S), NEW k \in 1..Len(s)
  PROVE  s[k] \in S
  OBVIOUS

\* s is the smaller one where they first differ.
ComesFirst(s, t, i) ==
  /\ i \in 1..Len(s) /\ \A j \in 1..(i - 1) : s[j] = t[j]
  /\ Before(Part(s, i), Part(t, i))

\* The first number that differs decides between texts, too.
LEMMA TextsCompare ==
  ASSUME NEW s \in Seq(0..99), NEW t \in Seq(0..99), Len(s) = Len(t),
         NEW i, ComesFirst(s, t, i)
  PROVE  Before(Text(s), Text(t))
<1> DEFINE n == Len(s)
<1>1. n \in Nat \ {0} /\ i \in 1..n /\ n = Len(t)
  BY DEF ComesFirst
<1>2. ASSUME NEW k \in 1..n PROVE Part(s, k) \in Seq(Nat) /\ Part(t, k) \in Seq(Nat)
  <2>1. k \in 1..Len(s) /\ k \in 1..Len(t)
    BY <1>1
  <2>2. (IF k = Len(s) THEN 11 ELSE 10) \in {10, 11} /\ (IF k = Len(t) THEN 11 ELSE 10) \in {10, 11}
    OBVIOUS
  <2>3. s[k] \in 0..99 /\ t[k] \in 0..99
    BY <2>1, ElementsAreOf
  <2>4. /\ Part(s, k) = Append(Digits(s[k]), IF k = Len(s) THEN 11 ELSE 10)
        /\ Part(t, k) = Append(Digits(t[k]), IF k = Len(t) THEN 11 ELSE 10)
    BY DEF Part
  <2> QED
    BY <2>2, <2>3, <2>4, PartsOfDates DEF IsPart
<1>3. PICK f : /\ Text(s) = f[n]
               /\ f[1] = Part(s, 1)
               /\ \A k \in 2..n : f[k] = f[k - 1] \o Part(s, k)
  BY <1>1, TextUnfolds
<1>4. PICK g : /\ Text(t) = g[n]
               /\ g[1] = Part(t, 1)
               /\ \A k \in 2..n : g[k] = g[k - 1] \o Part(t, k)
  <2>1. PICK g : /\ Text(t) = g[Len(t)]
                 /\ g[1] = Part(t, 1)
                 /\ \A k \in 2..Len(t) : g[k] = g[k - 1] \o Part(t, k)
    <3>1. Len(t) # 0
      BY <1>1
    <3> QED
      BY <3>1, TextUnfolds
  <2> HIDE DEF n
  <2> QED
    BY <1>1, <2>1, Zenon
<1>5. ASSUME NEW j \in 1..(i - 1) PROVE Part(s, j) = Part(t, j)
  BY <1>1 DEF ComesFirst, Part
<1> HIDE DEF n
<1> DEFINE Good(k) == /\ f[k] \in Seq(Nat) /\ g[k] \in Seq(Nat)
                      /\ k < i => f[k] = g[k]
                      /\ i <= k => Before(f[k], g[k])
           G == {k \in Nat : k + 1 \in 1..n => Good(k + 1)}
<1>6. 0 \in G
  <2> SUFFICES 1 \in 1..n => Good(1)
    OBVIOUS
  <2>1. f[1] \in Seq(Nat) /\ g[1] \in Seq(Nat)
    BY <1>1, <1>2, <1>3, <1>4
  <2>2. 1 < i => f[1] = g[1]
    BY <1>1, <1>3, <1>4, <1>5
  <2>3. i <= 1 => Before(f[1], g[1])
    <3>1. i <= 1 => i = 1
      BY <1>1
    <3> QED
      BY <1>3, <1>4, <3>1 DEF ComesFirst
  <2> QED
    BY <2>1, <2>2, <2>3
<1>7. ASSUME NEW k \in G PROVE k + 1 \in G
  <2> DEFINE m == k + 1
  <2>0. k \in Nat /\ (m \in 1..n => Good(m))
    OBVIOUS
  <2> SUFFICES ASSUME m + 1 \in 1..n PROVE Good(m + 1)
    OBVIOUS
  <2>1. m \in 1..n /\ m + 1 \in 2..n /\ m + 1 - 1 = m
    BY <1>1, <2>0
  <2>2. Good(m)
    BY <2>0, <2>1
  <2> HIDE DEF m
  <2>3. f[m + 1] = f[m] \o Part(s, m + 1) /\ g[m + 1] = g[m] \o Part(t, m + 1)
    <3>1. PICK x \in 2..n : x = m + 1 /\ x - 1 = m
      BY <2>1
    <3>2. f[x] = f[x - 1] \o Part(s, x) /\ g[x] = g[x - 1] \o Part(t, x)
      BY <1>3, <1>4
    <3> QED
      BY <3>1, <3>2
  <2>4. Part(s, m + 1) \in Seq(Nat) /\ Part(t, m + 1) \in Seq(Nat)
    BY <1>2
  <2>5. m \in Int /\ i \in Int
    BY <1>1, <2>1
  <2>6. CASE i <= m
    <3>1. f[m] \in Seq(Nat) /\ g[m] \in Seq(Nat) /\ Before(f[m], g[m])
      BY <2>2, <2>6
    <3>2. f[m + 1] \in Seq(Nat) /\ g[m + 1] \in Seq(Nat)
      BY <2>3, <2>4, <3>1
    <3>3. Before(f[m + 1], g[m + 1])
      BY <2>3, <2>4, <3>1, LongerTexts
    <3>4. ~(m + 1 < i)
      BY <2>5, <2>6
    <3> QED
      BY <3>2, <3>3, <3>4
  <2>7. CASE i = m + 1
    <3>1. f[m] = g[m] /\ Before(Part(s, m + 1), Part(t, m + 1))
      BY <2>2, <2>5, <2>7 DEF ComesFirst
    <3>2. f[m] \in Seq(Nat)
      BY <2>2
    <3>3. f[m + 1] \in Seq(Nat) /\ g[m + 1] \in Seq(Nat)
      BY <2>3, <2>4, <3>1, <3>2
    <3>4. Before(f[m + 1], g[m + 1])
      BY <2>3, <2>4, <3>1, <3>2, LongerTexts
    <3>5. ~(m + 1 < i)
      BY <2>5, <2>7
    <3> QED
      BY <3>3, <3>4, <3>5
  <2>8. CASE m + 1 < i
    <3>1. m < i /\ m + 1 \in 1..(i - 1)
      BY <2>1, <2>5, <2>8
    <3>2. Part(s, m + 1) = Part(t, m + 1)
      BY <1>5, <3>1
    <3>3. f[m + 1] = g[m + 1]
      BY <2>2, <2>3, <3>1, <3>2
    <3>4. f[m + 1] \in Seq(Nat)
      BY <2>2, <2>3, <2>4
    <3>5. ~(i <= m + 1)
      BY <2>5, <2>8
    <3> QED
      BY <3>3, <3>4, <3>5
  <2> QED
    BY <2>5, <2>6, <2>7, <2>8
<1>8. G \in SUBSET Nat
  OBVIOUS
<1> HIDE DEF Good
<1>9. n - 1 \in G => Good(n)
  BY <1>1
<1> HIDE DEF G
<1>10. G = Nat
  BY <1>6, <1>7, <1>8, Induction
<1>11. Good(n)
  BY <1>1, <1>9, <1>10
<1> QED
  BY <1>1, <1>3, <1>4, <1>11 DEF Good

LEMMA Asymmetric ==
  ASSUME NEW s \in Seq(Nat), NEW t \in Seq(Nat), Before(s, t), Before(t, s)
  PROVE  FALSE
<1>1. PICK i \in DOMAIN s \cap DOMAIN t : s[i] < t[i] /\ \A k \in 1..(i - 1) : s[k] = t[k]
  BY DEF Before
<1>2. PICK j \in DOMAIN t \cap DOMAIN s : t[j] < s[j] /\ \A k \in 1..(j - 1) : t[k] = s[k]
  BY DEF Before
<1>3. i \in Nat \ {0} /\ j \in Nat \ {0} /\ s[i] \in Nat /\ t[i] \in Nat /\ s[j] \in Nat /\ t[j] \in Nat
  OBVIOUS
<1>4. i = j \/ i \in 1..(j - 1) \/ j \in 1..(i - 1)
  BY <1>3
<1>5. \A m, n \in Nat : m < n => m # n /\ ~(n < m)
  OBVIOUS
<1> QED
  BY <1>1, <1>2, <1>3, <1>4, <1>5, Zenon

LEMMA Transitive ==
  ASSUME NEW s \in Seq(Nat), NEW t \in Seq(Nat), NEW u \in Seq(Nat), Before(s, t), Before(t, u)
  PROVE  Before(s, u)
<1>1. PICK i \in DOMAIN s \cap DOMAIN t : s[i] < t[i] /\ \A k \in 1..(i - 1) : s[k] = t[k]
  BY DEF Before
<1>2. PICK j \in DOMAIN t \cap DOMAIN u : t[j] < u[j] /\ \A k \in 1..(j - 1) : t[k] = u[k]
  BY DEF Before
<1>4. DOMAIN s = 1..Len(s) /\ DOMAIN t = 1..Len(t) /\ DOMAIN u = 1..Len(u)
  OBVIOUS
<1>3. i \in 1..Len(s) /\ i \in 1..Len(t) /\ j \in 1..Len(t) /\ j \in 1..Len(u)
  BY <1>4, Zenon
<1>5. CASE i <= j
  <2>1. i \in 1..Len(u) /\ \A k \in 1..(i - 1) : k \in 1..(j - 1)
    <3>1. i \in Nat \ {0} /\ Len(u) \in Nat
      <4>1. \A m \in Nat : \A x \in 1..m : x \in Nat \ {0}
        OBVIOUS
      <4>2. Len(u) \in Nat /\ Len(s) \in Nat
        OBVIOUS
      <4> QED
        BY <1>3, <4>1, <4>2, Zenon
    <3> QED
      BY <1>3, <1>5, <3>1, Inside, Zenon
  <2>2. \A k \in 1..(i - 1) : s[k] = u[k]
    BY <1>1, <1>2, <2>1
  <2>3. i = j \/ i \in 1..(j - 1)
    BY <1>3, <1>5
  <2>4. s[i] \in Nat /\ t[i] \in Nat /\ u[i] \in Nat
    BY <1>3, <2>1, ElementsAreOf
  <2>5. s[i] < u[i]
    <3>1. CASE i = j
      <4>1. s[i] < t[i] /\ t[i] < u[i]
        BY <1>1, <1>2, <3>1, Zenon
      <4>2. \A l, m, n \in Nat : l < m /\ m < n => l < n
        OBVIOUS
      <4> QED
        BY <2>4, <4>1, <4>2, Zenon
    <3>2. CASE i \in 1..(j - 1)
      BY <1>1, <1>2, <3>2, Zenon
    <3> QED
      BY <2>3, <3>1, <3>2
  <2> QED
    BY <1>3, <1>4, <2>1, <2>2, <2>5 DEF Before
<1>6. CASE j < i
  <2>1. j \in 1..Len(s) /\ j \in 1..(i - 1) /\ \A k \in 1..(j - 1) : k \in 1..(i - 1)
    <3>1. \A m \in Nat : \A x, y \in 1..m : y < x => y \in Nat \ {0} /\ y <= x /\ y \in 1..(x - 1)
      OBVIOUS
    <3>2. Len(t) \in Nat /\ Len(s) \in Nat
      OBVIOUS
    <3>3. j \in Nat \ {0} /\ j <= i /\ j \in 1..(i - 1)
      BY <1>3, <1>6, <3>1, <3>2, Zenon
    <3> QED
      BY <1>3, <3>2, <3>3, Inside, Zenon
  <2>2. \A k \in 1..(j - 1) : s[k] = u[k]
    BY <1>1, <1>2, <2>1
  <2>3. s[j] < u[j]
    BY <1>1, <1>2, <2>1
  <2> QED
    BY <1>3, <1>4, <2>1, <2>2, <2>3 DEF Before
<1> QED
  BY <1>3, <1>5, <1>6

\* Texts are made of numbers.
LEMMA TextIsText ==
  ASSUME NEW s \in Dates
  PROVE  s \in Seq(0..99) /\ Text(s) \in Seq(Nat)
<1>1. s \in Seq(0..99)
  BY DatesAreNumbers
<1>2. CASE Len(s) = 0
  <2>1. DOMAIN s = 1..0
    BY <1>1, <1>2
  <2> DEFINE p == [i \in DOMAIN s |-> Part(s, i)]
  <2>2. p \in Seq(Seq(Nat)) /\ Len(p) = 0
    BY <2>1
  <2>3. Text(s) = p
    BY <2>2 DEF Text, Part, FlattenSeq
  <2>4. p \in Seq(Nat)
    BY <2>1
  <2> QED
    BY <1>1, <2>3, <2>4
<1>3. CASE Len(s) # 0
  <2> DEFINE n == Len(s)
  <2>1. n \in Nat \ {0}
    BY <1>1, <1>3
  <2>2. PICK f : /\ Text(s) = f[n]
                 /\ f[1] = Part(s, 1)
                 /\ \A k \in 2..n : f[k] = f[k - 1] \o Part(s, k)
    BY <1>1, <1>3, TextUnfolds
  <2>3. ASSUME NEW k \in 1..n PROVE Part(s, k) \in Seq(Nat)
    <3>1. s[k] \in 0..99
      BY <1>1, ElementsAreOf
    <3>2. (IF k = Len(s) THEN 11 ELSE 10) \in {10, 11}
      OBVIOUS
    <3> QED
      BY <3>1, <3>2, PartsOfDates DEF Part, IsPart
  <2> HIDE DEF n
  <2> DEFINE G == {k \in Nat : k + 1 \in 1..n => f[k + 1] \in Seq(Nat)}
  <2>4. 0 \in G
    BY <2>1, <2>2, <2>3
  <2>5. ASSUME NEW k \in G PROVE k + 1 \in G
    <3> SUFFICES ASSUME k + 2 \in 1..n PROVE f[k + 2] \in Seq(Nat)
      OBVIOUS
    <3>1. k \in Nat /\ f[k + 1] \in Seq(Nat)
      BY <2>1
    <3>2. PICK x \in 2..n : x = k + 2 /\ x - 1 = k + 1
      BY <2>1, <3>1
    <3>3. f[x] = f[x - 1] \o Part(s, x) /\ x \in 1..n
      BY <2>1, <2>2
    <3> QED
      BY <2>3, <3>1, <3>2, <3>3
  <2>6. G \in SUBSET Nat
    OBVIOUS
  <2>7. n - 1 \in G => f[n] \in Seq(Nat)
    BY <2>1
  <2> HIDE DEF G
  <2>8. G = Nat
    BY <2>4, <2>5, <2>6, Induction
  <2> QED
    BY <1>1, <2>1, <2>2, <2>7, <2>8
<1> QED
  BY <1>1, <1>2, <1>3

\* Where two dates first differ.
LEMMA DatesDiffer ==
  ASSUME NEW s \in Dates, NEW t \in Dates, s # t
  PROVE  \E i \in 1..Len(s) : s[i] # t[i] /\ \A j \in 1..(i - 1) : s[j] = t[j]
<1>1. s \in Seq(0..99) /\ t \in Seq(0..99) /\ Len(s) = Len(t)
  BY DatesAreNumbers
<1> DEFINE D == {i \in 1..Len(s) : s[i] # t[i]}
<1>2. D # {}
  <2>1. s = [i \in 1..Len(s) |-> s[i]] /\ t = [i \in 1..Len(s) |-> t[i]]
    BY <1>1
  <2> QED
    BY <2>1
<1>3. D \in SUBSET Nat
  BY <1>1
<1>4. PICK i \in D : \A j \in D : i <= j
  <2> HIDE DEF D
  <2> QED
    BY <1>2, <1>3, LeastExists
<1>5. \A j \in 1..(i - 1) : j \in 1..Len(s) /\ ~(i <= j)
  BY <1>1
<1> QED
  BY <1>4, <1>5

\* Any two dates are ordered by their texts, and, if their numbers have as many
\* digits, as dates.
LEMMA TextsAreOrdered ==
  ASSUME NEW s \in Dates, NEW t \in Dates, s # t
  PROVE  /\ Before(Text(s), Text(t)) \/ Before(Text(t), Text(s))
         /\ SameDigits(s, t) /\ Before(Text(s), Text(t)) => Before(s, t)
<1>1. s \in Seq(0..99) /\ t \in Seq(0..99) /\ Len(s) = Len(t)
  BY DatesAreNumbers
<1>2. PICK i \in 1..Len(s) : s[i] # t[i] /\ \A j \in 1..(i - 1) : s[j] = t[j]
  BY DatesDiffer
<1>3. s[i] \in 0..99 /\ t[i] \in 0..99 /\ i \in DOMAIN s /\ i \in DOMAIN t
  BY <1>1, ElementsAreOf
<1>4. (IF i = Len(s) THEN 11 ELSE 10) \in {10, 11}
  OBVIOUS
<1>5. /\ Part(s, i) = Append(Digits(s[i]), IF i = Len(s) THEN 11 ELSE 10)
      /\ Part(t, i) = Append(Digits(t[i]), IF i = Len(s) THEN 11 ELSE 10)
  BY <1>1 DEF Part
<1>6. CASE s[i] < t[i]
  <2>1. Before(s, t)
    BY <1>2, <1>3, <1>6 DEF Before
  <2>2. Before(Part(s, i), Part(t, i)) \/ Before(Part(t, i), Part(s, i))
    BY <1>3, <1>4, <1>5, <1>6, PartsDiffer
  <2>3. ComesFirst(s, t, i) \/ ComesFirst(t, s, i)
    BY <1>1, <1>2, <2>2 DEF ComesFirst
  <2> QED
    BY <1>1, <2>1, <2>3, TextsCompare
<1>7. CASE t[i] < s[i]
  <2>1. Before(Part(s, i), Part(t, i)) \/ Before(Part(t, i), Part(s, i))
    BY <1>3, <1>4, <1>5, <1>7, PartsDiffer
  <2>2. ComesFirst(s, t, i) \/ ComesFirst(t, s, i)
    BY <1>1, <1>2, <2>1 DEF ComesFirst
  <2>3. Before(Text(s), Text(t)) \/ Before(Text(t), Text(s))
    BY <1>1, <2>2, TextsCompare
  <2>4. ASSUME SameDigits(s, t), Before(Text(s), Text(t)) PROVE FALSE
    <3>1. (t[i] < 10) = (s[i] < 10)
      BY <1>3, <2>4 DEF SameDigits
    <3>2. Before(Part(t, i), Part(s, i))
      BY <1>3, <1>4, <1>5, <1>7, <3>1, PartsDiffer
    <3>3. ComesFirst(t, s, i)
      BY <1>1, <1>2, <3>2 DEF ComesFirst
    <3>4. Before(Text(t), Text(s))
      BY <1>1, <3>3, TextsCompare
    <3> QED
      BY <2>4, <3>4, Asymmetric, TextIsText
  <2> QED
    BY <2>3, <2>4
<1>8. s[i] < t[i] \/ t[i] < s[i]
  <2>1. \A x, y \in 0..99 : x # y => x < y \/ y < x
    OBVIOUS
  <2> QED
    BY <1>2, <1>3, <2>1, Zenon
<1> QED
  BY <1>6, <1>7, <1>8

LEMMA TextsOrderDates ==
  ASSUME NEW keys \in SUBSET Dates
  PROVE  Orders(Later, keys)
<1>1. \A s, t \in Dates : t \in Later[s] <=> Before(Text(s), Text(t))
  BY DEF Later
<1>2. \A s \in Dates : ~Before(Text(s), Text(s))
  BY Asymmetric, TextIsText
<1>3. \A s, t \in Dates : s # t => Before(Text(s), Text(t)) \/ Before(Text(t), Text(s))
  BY TextsAreOrdered
<1>4. \A s, t, u \in Dates : Before(Text(s), Text(t)) /\ Before(Text(t), Text(u)) => Before(Text(s), Text(u))
  BY Transitive, TextIsText
<1> QED
  BY <1>1, <1>2, <1>3, <1>4 DEF Orders

\* What the page lists: every key once, downwards.
LEMMA SortedIsRight ==
  ASSUME NEW keys \in SUBSET Dates, IsFiniteSet(keys)
  PROVE  /\ Sorted(keys) \in Seq(Dates) /\ IsInjective(Sorted(keys))
         /\ ToSet(Sorted(keys)) = keys
         /\ \A i, j \in DOMAIN Sorted(keys) :
              i < j /\ SameDigits(Sorted(keys)[i], Sorted(keys)[j])
                => Before(Sorted(keys)[j], Sorted(keys)[i])
<1> DEFINE r == Sorted(keys)
<1>1. /\ r \in Seq(keys)
      /\ \A i, j \in 1..Len(r) : i < j => r[i] \in Later[r[j]]
      /\ \A i, j \in 1..Len(r) : r[i] = r[j] => i = j
      /\ \A x \in keys : \E i \in 1..Len(r) : r[i] = x
  BY TextsOrderDates, ArrangedInOrder DEF Sorted
<1> HIDE DEF r
<1>2. DOMAIN r = 1..Len(r) /\ \A i \in DOMAIN r : r[i] \in keys
  BY <1>1, ElementsAreOf
<1>3. r \in Seq(Dates)
  BY <1>1
<1>4. ToSet(r) = keys
  BY <1>1, <1>2 DEF ToSet
<1>5. ASSUME NEW i \in DOMAIN r, NEW j \in DOMAIN r, i < j, SameDigits(r[i], r[j])
      PROVE  Before(r[j], r[i])
  <2>1. Before(Text(r[j]), Text(r[i])) /\ i # j
    <3>1. r[i] \in Later[r[j]] /\ i # j
      BY <1>1, <1>2, <1>5
    <3>2. r[j] \in Dates
      BY <1>2
    <3> QED
      BY <3>1, <3>2 DEF Later
  <2>2. r[j] # r[i]
    BY <1>1, <1>2, <2>1
  <2>3. SameDigits(r[j], r[i])
    <3>1. r[i] \in Seq(0..99) /\ r[j] \in Seq(0..99) /\ Len(r[i]) = Len(r[j])
      BY <1>2, DatesAreNumbers
    <3>2. DOMAIN r[i] = DOMAIN r[j]
      BY <3>1
    <3> QED
      BY <1>5, <3>2 DEF SameDigits
  <2> QED
    BY <1>2, <2>1, <2>2, <2>3, TextsAreOrdered
<1> QED
  BY <1>1, <1>2, <1>3, <1>4, <1>5 DEF IsInjective, r
-----------------------------------------------------------------------------
(* What the page lists.                                                    *)

AtMostOne(S) == \A x, y \in S : x = y

Screens ==
  /\ {visible, mode, wheel, table, play} \subseteq [Devices -> BOOLEAN]
  /\ hurried \in BOOLEAN /\ visits \in 0..MaxVisits

AllFinite ==
  /\ IsFiniteSet(single)
  /\ \A d \in Devices : \A c \in ToSet(queue[d]) : IsFiniteSet(c.keys)

RowsAreSorted ==
  /\ DOMAIN rows = Devices
  /\ \A d \in Devices : \E keys \in SUBSET Dates : IsFiniteSet(keys) /\ rows[d] = Sorted(keys)

\* Whatever is stored, or on its way, has been won.
OnlyWins ==
  single \subseteq Wins /\ \A d \in Devices : \A c \in ToSet(queue[d]) : c.keys \subseteq Wins

\* While nobody hurries, the database lacks one result at most.
OneIsMissing ==
  ~hurried =>
    \A d \in Devices : \A c \in ToSet(queue[d]) :
      /\ c.kind = "record" => AtMostOne(c.keys)
      /\ c.kind = "put" => AtMostOne(Wins \ single)

\* A page of one's own games is to be loaded, or lists them up to one.
OwnAreSeen ==
  ~hurried =>
    \A d \in Devices : visible[d] /\ mode[d] =>
      \/ \E c \in ToSet(queue[d]) : c.kind = "load"
      \/ Listed(d) \subseteq Wins /\ AtMostOne(won[d] \ Listed(d))

ListsInv ==
  /\ IInv /\ Screens /\ AllFinite /\ RowsAreSorted /\ OnlyWins /\ OneIsMissing /\ OwnAreSeen

-----------------------------------------------------------------------------
LEMMA CallsAfter ==
  ASSUME NEW s \in Seq(Calls)
  PROVE  /\ \A c \in Calls : ToSet(Append(s, c)) = ToSet(s) \cup {c}
         /\ s # <<>> => Head(s) \in ToSet(s) /\ ToSet(s) = {Head(s)} \cup ToSet(Tail(s))
<1>1. ASSUME NEW c \in Calls PROVE ToSet(Append(s, c)) = ToSet(s) \cup {c}
  <2> DEFINE t == Append(s, c)
  <2>1. /\ DOMAIN t = DOMAIN s \cup {Len(s) + 1} /\ t[Len(s) + 1] = c
        /\ \A i \in DOMAIN s : t[i] = s[i]
    BY Appended
  <2> HIDE DEF t
  <2>2. {t[i] : i \in DOMAIN t} = {s[i] : i \in DOMAIN s} \cup {c}
    BY <2>1
  <2> QED
    BY <2>2 DEF ToSet, t
<1>2. ASSUME s # <<>> PROVE Head(s) \in ToSet(s) /\ ToSet(s) = {Head(s)} \cup ToSet(Tail(s))
  <2> DEFINE t == Tail(s)
  <2>1. /\ 1 \in DOMAIN s /\ s[1] = Head(s)
        /\ \A i \in DOMAIN t : i + 1 \in DOMAIN s /\ t[i] = s[i + 1]
        /\ DOMAIN t = 1..(Len(s) - 1) /\ DOMAIN s = 1..Len(s) /\ Len(s) \in Nat
    BY <1>2, Shifted
  <2> HIDE DEF t
  <2>2. ASSUME NEW i \in DOMAIN s, i # 1 PROVE i - 1 \in DOMAIN t /\ t[i - 1] = s[i]
    <3>1. i - 1 \in DOMAIN t /\ i - 1 + 1 = i
      BY <2>1, <2>2
    <3> QED
      BY <2>1, <3>1
  <2>3. {s[i] : i \in DOMAIN s} = {s[1]} \cup {t[i] : i \in DOMAIN t}
    BY <2>1, <2>2
  <2> QED
    BY <2>1, <2>3 DEF ToSet, t
<1> QED
  BY <1>1, <1>2

\* The calls a step brings, at most.
Brings(C) == \A e \in Devices : ToSet(queue'[e]) \subseteq ToSet(queue[e]) \cup C

LEMMA QueueGrows ==
  ASSUME Typed, NEW d \in Devices, NEW c \in Calls,
         queue' = [queue EXCEPT ![d] = Append(@, c)]
  PROVE  Brings({c}) /\ ToSet(queue'[d]) = ToSet(queue[d]) \cup {c}
<1>1. queue[d] \in Seq(Calls) /\ queue'[d] = Append(queue[d], c)
      /\ \A e \in Devices : e # d => queue'[e] = queue[e]
  BY DEF Typed
<1>2. ToSet(queue'[d]) = ToSet(queue[d]) \cup {c}
  BY <1>1, CallsAfter
<1>3. ASSUME NEW e \in Devices PROVE ToSet(queue'[e]) \subseteq ToSet(queue[e]) \cup {c}
  BY <1>1, <1>2
<1> QED
  BY <1>2, <1>3 DEF Brings

LEMMA QueueMoves ==
  ASSUME Typed, NEW d \in Devices, queue[d] # <<>>, Makes(d, <<>>)
  PROVE  /\ Brings({}) /\ Head(queue[d]) \in ToSet(queue[d])
         /\ ToSet(queue[d]) = {Head(queue[d])} \cup ToSet(queue'[d])
<1>1. queue[d] \in Seq(Calls)
  BY DEF Typed
<1>2. queue'[d] = Tail(queue[d]) /\ \A e \in Devices : e # d => queue'[e] = queue[e]
  BY <1>1, Shifted, TailAndOne DEF Typed, Makes
<1>3. Head(queue[d]) \in ToSet(queue[d]) /\ ToSet(queue[d]) = {Head(queue[d])} \cup ToSet(queue'[d])
  BY <1>1, <1>2, CallsAfter
<1>4. ASSUME NEW e \in Devices PROVE ToSet(queue'[e]) \subseteq ToSet(queue[e]) \cup {}
  BY <1>2, <1>3
<1> QED
  BY <1>3, <1>4 DEF Brings

LEMMA QueueMovesOn ==
  ASSUME Typed, NEW d \in Devices, queue[d] # <<>>, NEW c \in Calls, Makes(d, <<c>>)
  PROVE  /\ Brings({c}) /\ Head(queue[d]) \in ToSet(queue[d])
         /\ ToSet(queue[d]) \cup {c} = {Head(queue[d])} \cup ToSet(queue'[d])
<1>1. queue[d] \in Seq(Calls)
  BY DEF Typed
<1>2. Tail(queue[d]) \in Seq(Calls)
  BY <1>1, Shifted
<1>3. queue'[d] = Append(Tail(queue[d]), c) /\ \A e \in Devices : e # d => queue'[e] = queue[e]
  BY <1>2, TailAndOne DEF Typed, Makes
<1>4. ToSet(queue'[d]) = ToSet(Tail(queue[d])) \cup {c}
  BY <1>2, <1>3, CallsAfter
<1>5. Head(queue[d]) \in ToSet(queue[d]) /\ ToSet(queue[d]) = {Head(queue[d])} \cup ToSet(Tail(queue[d]))
  BY <1>1, CallsAfter
<1>6. ASSUME NEW e \in Devices PROVE ToSet(queue'[e]) \subseteq ToSet(queue[e]) \cup {c}
  BY <1>3, <1>4, <1>5
<1> QED
  BY <1>4, <1>5, <1>6 DEF Brings

\* Every call in a queue is a call.
LEMMA CallsAreCalls ==
  ASSUME Typed, NEW d \in Devices, NEW c \in ToSet(queue[d])
  PROVE  c \in Calls
<1>1. queue[d] \in Seq(Calls)
  BY DEF Typed
<1>2. PICK i \in DOMAIN queue[d] : c = queue[d][i]
  BY DEF ToSet
<1> QED
  BY <1>1, <1>2

RecordCall(now) == Call("record", {now})
LoadCall == Call("load", {})
PutCall(d) == Call("put", single \cup Head(queue[d]).keys)

\* The calls that each action brings.
LEMMA WhatComes ==
  ASSUME Typed, NEW d \in Devices
  PROVE  /\ \A now \in Dates : Win(d, now) => Brings({RecordCall(now)}) /\ queue'[d] = Append(queue[d], RecordCall(now))
         /\ AnswerRecord(d) => /\ Brings({PutCall(d)}) /\ Head(queue[d]) \in ToSet(queue[d])
                               /\ ToSet(queue[d]) \cup {PutCall(d)} = {Head(queue[d])} \cup ToSet(queue'[d])
         /\ Put(d) \/ AnswerLoad(d) =>
              /\ Brings({}) /\ Head(queue[d]) \in ToSet(queue[d])
              /\ ToSet(queue[d]) = {Head(queue[d])} \cup ToSet(queue'[d])
         /\ Appear(d) => Brings({LoadCall}) /\ ToSet(queue'[d]) = ToSet(queue[d]) \cup (IF mode[d] THEN {LoadCall} ELSE {})
         /\ SegmentSingle(d) => Brings({LoadCall}) /\ ToSet(queue'[d]) = ToSet(queue[d]) \cup {LoadCall}
         /\ SegmentMulti(d) \/ Leave(d) => UNCHANGED queue
<1>1. ASSUME NEW now \in Dates, Win(d, now)
      PROVE  Brings({RecordCall(now)}) /\ queue'[d] = Append(queue[d], RecordCall(now))
  <2>1. RecordCall(now) \in Calls
    BY CallIsCall DEF RecordCall
  <2>2. queue' = [queue EXCEPT ![d] = Append(@, RecordCall(now))]
    BY <1>1 DEF Win, RecordCall
  <2>3. queue'[d] = Append(queue[d], RecordCall(now))
    BY <2>2 DEF Typed
  <2> QED
    BY <2>1, <2>2, <2>3, QueueGrows
<1>2. ASSUME AnswerRecord(d)
      PROVE  /\ Brings({PutCall(d)}) /\ Head(queue[d]) \in ToSet(queue[d])
             /\ ToSet(queue[d]) \cup {PutCall(d)} = {Head(queue[d])} \cup ToSet(queue'[d])
  <2>1. queue[d] # <<>> /\ Makes(d, <<PutCall(d)>>)
    BY <1>2 DEF AnswerRecord, First, PutCall, Updated
  <2>2. queue[d] \in Seq(Calls) /\ single \subseteq Dates
    BY DEF Typed
  <2>3. Head(queue[d]) \in Calls
    BY <2>1, <2>2, Shifted
  <2>4. Head(queue[d]).keys \subseteq Dates
    BY <2>3 DEF Calls
  <2>5. PutCall(d) \in Calls
    BY <2>2, <2>4, CallIsCall DEF PutCall
  <2> QED
    BY <2>1, <2>5, QueueMovesOn
<1>3. ASSUME Put(d) \/ AnswerLoad(d)
      PROVE  /\ Brings({}) /\ Head(queue[d]) \in ToSet(queue[d])
             /\ ToSet(queue[d]) = {Head(queue[d])} \cup ToSet(queue'[d])
  BY <1>3, QueueMoves DEF Put, AnswerLoad, First
<1>4. LoadCall \in Calls
  BY CallIsCall DEF LoadCall
<1>5. ASSUME NEW b, LoadTable(d, b)
      PROVE  Brings({LoadCall}) /\ ToSet(queue'[d]) = ToSet(queue[d]) \cup (IF b THEN {LoadCall} ELSE {})
  <2>1. CASE b
    <3>1. queue' = [queue EXCEPT ![d] = Append(@, LoadCall)]
      BY <1>5, <2>1 DEF LoadTable, LoadCall
    <3> QED
      BY <1>4, <2>1, <3>1, QueueGrows
  <2>2. CASE ~b
    <3>1. queue' = queue
      BY <1>5, <2>2 DEF LoadTable
    <3> QED
      BY <2>2, <3>1 DEF Brings
  <2> QED
    BY <2>1, <2>2
<1>6. Appear(d) => LoadTable(d, mode[d])
  BY DEF Appear
<1>7. SegmentSingle(d) => LoadTable(d, TRUE)
  BY DEF SegmentSingle
<1>8. SegmentMulti(d) \/ Leave(d) => UNCHANGED queue
  BY DEF SegmentMulti, Leave
<1> QED
  BY <1>1, <1>2, <1>3, <1>5, <1>6, <1>7, <1>8

\* A step that changes no queue.
LEMMA NothingComes ==
  ASSUME UNCHANGED queue
  PROVE  Brings({})
  BY DEF Brings

-----------------------------------------------------------------------------
(* A step, conjunct by conjunct.                                           *)

\* What a step does to the wins, and to what is stored.
LEMMA WinsGrow ==
  ASSUME Typed, [Next]_vars
  PROVE  Wins \subseteq Wins' /\ (hurried => hurried')
<1>1. ASSUME NEW d \in Devices, NEW now \in Dates, Win(d, now) PROVE Wins \subseteq Wins'
  <2>1. \A e \in Devices : won[e] \subseteq won'[e]
    BY <1>1 DEF Win, Typed
  <2> QED
    BY <2>1 DEF Wins
<1>2. \/ \E d \in Devices : \E now \in Dates : Win(d, now)
      \/ won' = won
  BY DEF Next, Answers, AnswerRecord, Put, AnswerLoad, Appear, Leave, SegmentSingle,
         SegmentMulti, vars
<1>3. hurried => hurried'
  BY DEF Next, Answers, AnswerRecord, Put, AnswerLoad, Appear, Leave, SegmentSingle,
         SegmentMulti, Win, vars
<1> QED
  BY <1>1, <1>2, <1>3 DEF Wins

\* A call after a step was there before, or is one that the step brings.
LEMMA WhereFrom ==
  ASSUME Typed, [Next]_vars, NEW e \in Devices, NEW c \in ToSet(queue'[e])
  PROVE  \/ c \in ToSet(queue[e])
         \/ \E d \in Devices, now \in Dates : Win(d, now) /\ c = RecordCall(now)
         \/ \E d \in Devices : AnswerRecord(d) /\ c = PutCall(d)
         \/ c = LoadCall /\ UNCHANGED <<single, won, hurried>>
<1>1. ASSUME NEW C, Brings(C) PROVE c \in ToSet(queue[e]) \/ c \in C
  BY <1>1 DEF Brings
<1>2. ASSUME NEW d \in Devices, NEW now \in Dates, Win(d, now)
      PROVE  c \in ToSet(queue[e]) \/ c = RecordCall(now)
  <2>1. Brings({RecordCall(now)})
    BY <1>2, WhatComes
  <2> QED
    BY <1>1, <2>1
<1>3. ASSUME NEW d \in Devices, AnswerRecord(d)
      PROVE  c \in ToSet(queue[e]) \/ c = PutCall(d)
  <2>1. Brings({PutCall(d)})
    BY <1>3, WhatComes
  <2> QED
    BY <1>1, <2>1
<1>4. ASSUME NEW d \in Devices, Put(d) \/ AnswerLoad(d) \/ SegmentMulti(d) \/ Leave(d)
      PROVE  c \in ToSet(queue[e])
  <2>1. Brings({})
    BY <1>4, WhatComes, NothingComes
  <2> QED
    BY <1>1, <2>1
<1>5. ASSUME NEW d \in Devices, Appear(d) \/ SegmentSingle(d)
      PROVE  c \in ToSet(queue[e]) \/ (c = LoadCall /\ UNCHANGED <<single, won, hurried>>)
  <2>1. Brings({LoadCall})
    BY <1>5, WhatComes
  <2>2. UNCHANGED <<single, won, hurried>>
    BY <1>5 DEF Appear, SegmentSingle
  <2> QED
    BY <1>1, <2>1, <2>2
<1>6. UNCHANGED vars => c \in ToSet(queue[e])
  BY DEF vars
<1> QED
  BY <1>2, <1>3, <1>4, <1>5, <1>6 DEF Next, Answers

\* What is stored stays so, but for a map that is put.
LEMMA WhatIsStored ==
  ASSUME Typed, [Next]_vars
  PROVE  \/ single' = single
         \/ \E d \in Devices : /\ Put(d) /\ Head(queue[d]) \in ToSet(queue[d])
                               /\ Head(queue[d]).kind = "put" /\ single' = Head(queue[d]).keys
<1>1. ASSUME NEW d \in Devices, Put(d)
      PROVE  /\ Head(queue[d]) \in ToSet(queue[d])
             /\ Head(queue[d]).kind = "put" /\ single' = Head(queue[d]).keys
  BY <1>1, WhatComes DEF Put, First
<1> QED
  BY <1>1 DEF Next, Answers, AnswerRecord, AnswerLoad, Appear, Leave, SegmentSingle,
              SegmentMulti, Win, vars

LEMMA NewCalls ==
  /\ \A now : RecordCall(now).kind = "record" /\ RecordCall(now).keys = {now}
  /\ LoadCall.kind = "load" /\ LoadCall.keys = {}
  /\ \A d : PutCall(d).kind = "put" /\ PutCall(d).keys = single \cup Head(queue[d]).keys
  BY DEF RecordCall, LoadCall, PutCall, Call

LEMMA StepScreens == Screens /\ [Next]_vars => Screens'
<1> SUFFICES ASSUME Screens, [Next]_vars PROVE Screens'
  OBVIOUS
<1> USE DEF Screens
<1>1. ASSUME NEW d \in Devices, NEW b, LoadTable(d, b), UNCHANGED hurried
      PROVE  {wheel', play'} \subseteq [Devices -> BOOLEAN] /\ visits' \in 0..MaxVisits
  <2>1. visits' \in 0..MaxVisits
    BY <1>1, VisitsAreCounted DEF LoadTable
  <2> QED
    BY <1>1, <2>1 DEF LoadTable
<1>2. ASSUME NEW d \in Devices, Appear(d) PROVE Screens'
  BY <1>1, <1>2 DEF Appear
<1>3. ASSUME NEW d \in Devices, SegmentSingle(d) PROVE Screens'
  <2>1. LoadTable(d, TRUE) /\ UNCHANGED <<hurried, visible, table>> /\ mode' = [mode EXCEPT ![d] = TRUE]
    BY <1>3 DEF SegmentSingle
  <2>2. mode' \in [Devices -> BOOLEAN]
    BY <2>1
  <2> QED
    BY <1>1, <2>1, <2>2
<1>4. ASSUME NEW d \in Devices, SegmentMulti(d) \/ Leave(d) PROVE Screens'
  <2>1. ASSUME SegmentMulti(d) PROVE Screens'
    BY <2>1 DEF SegmentMulti
  <2>2. ASSUME Leave(d) PROVE Screens'
    BY <2>2 DEF Leave
  <2> QED
    BY <1>4, <2>1, <2>2
<1>5. ASSUME NEW d \in Devices, AnswerLoad(d) PROVE Screens'
  <2>1. (single = {}) \in BOOLEAN /\ (single # {}) \in BOOLEAN /\ TurnsWhenLoaded \in BOOLEAN
    BY DEF TurnsWhenLoaded
  <2>2. {wheel', table', play'} \subseteq [Devices -> BOOLEAN]
    BY <1>5, <2>1 DEF AnswerLoad
  <2> QED
    BY <1>5, <2>2 DEF AnswerLoad
<1>6. ASSUME NEW d \in Devices, AnswerRecord(d) \/ Put(d) PROVE Screens'
  BY <1>6 DEF AnswerRecord, Put, home
<1>7. ASSUME NEW d \in Devices, NEW now \in Dates, Win(d, now) PROVE Screens'
  BY <1>7 DEF Win, home
<1>8. UNCHANGED vars => Screens'
  BY DEF vars, home
<1> QED
  BY <1>2, <1>3, <1>4, <1>5, <1>6, <1>7, <1>8 DEF Next, Answers

LEMMA StepFinite == Typed /\ AllFinite /\ [Next]_vars => AllFinite'
<1> SUFFICES ASSUME Typed, AllFinite, [Next]_vars PROVE AllFinite'
  OBVIOUS
<1>1. IsFiniteSet(single')
  BY WhatIsStored DEF AllFinite
<1>2. ASSUME NEW e \in Devices, NEW c \in ToSet(queue'[e]) PROVE IsFiniteSet(c.keys)
  <2>1. CASE c \in ToSet(queue[e])
    BY <2>1 DEF AllFinite
  <2>2. ASSUME NEW now, c = RecordCall(now) PROVE IsFiniteSet(c.keys)
    <3>1. c.keys = {now}
      BY <2>2, NewCalls
    <3> QED
      BY <3>1, FS_Singleton
  <2>3. ASSUME NEW d \in Devices, AnswerRecord(d), c = PutCall(d) PROVE IsFiniteSet(c.keys)
    <3>1. Head(queue[d]) \in ToSet(queue[d])
      BY <2>3, WhatComes
    <3>2. IsFiniteSet(single) /\ IsFiniteSet(Head(queue[d]).keys)
      BY <3>1 DEF AllFinite
    <3>3. c.keys = single \cup Head(queue[d]).keys
      BY <2>3, NewCalls
    <3> QED
      BY <3>2, <3>3, FS_Union
  <2>4. CASE c = LoadCall
    BY <2>4, NewCalls, FS_EmptySet
  <2> QED
    BY <2>1, <2>2, <2>3, <2>4, WhereFrom
<1> QED
  BY <1>1, <1>2 DEF AllFinite

LEMMA StepSorted == Typed /\ AllFinite /\ RowsAreSorted /\ [Next]_vars => RowsAreSorted'
<1> SUFFICES ASSUME Typed, AllFinite, RowsAreSorted, [Next]_vars PROVE RowsAreSorted'
  OBVIOUS
<1>1. \/ rows' = rows
      \/ \E d \in Devices : rows' = [rows EXCEPT ![d] = Sorted(single)]
  BY DEF Next, Answers, AnswerRecord, Put, AnswerLoad, Rows, Appear, Leave, SegmentSingle,
         SegmentMulti, Win, vars, home
<1>2. single \in SUBSET Dates /\ IsFiniteSet(single)
  BY DEF Typed, AllFinite
<1>3. ASSUME NEW d \in Devices, rows' = [rows EXCEPT ![d] = Sorted(single)] PROVE RowsAreSorted'
  <2>1. DOMAIN rows' = Devices /\ rows'[d] = Sorted(single)
        /\ \A e \in Devices : e # d => rows'[e] = rows[e]
    BY <1>3 DEF RowsAreSorted
  <2> QED
    BY <1>2, <2>1 DEF RowsAreSorted
<1> QED
  BY <1>1, <1>3 DEF RowsAreSorted

LEMMA StepWins == Typed /\ OnlyWins /\ [Next]_vars => OnlyWins'
<1> SUFFICES ASSUME Typed, OnlyWins, [Next]_vars PROVE OnlyWins'
  OBVIOUS
<1>1. Wins \subseteq Wins'
  BY WinsGrow
<1>2. single' \subseteq Wins'
  BY <1>1, WhatIsStored DEF OnlyWins
<1>3. ASSUME NEW e \in Devices, NEW c \in ToSet(queue'[e]) PROVE c.keys \subseteq Wins'
  <2>1. CASE c \in ToSet(queue[e])
    BY <1>1, <2>1 DEF OnlyWins
  <2>2. ASSUME NEW d \in Devices, NEW now \in Dates, Win(d, now), c = RecordCall(now)
        PROVE  c.keys \subseteq Wins'
    <3>1. now \in won'[d]
      BY <2>2 DEF Win, Typed
    <3> QED
      BY <2>2, <3>1, NewCalls DEF Wins
  <2>3. ASSUME NEW d \in Devices, AnswerRecord(d), c = PutCall(d) PROVE c.keys \subseteq Wins'
    <3>1. Head(queue[d]) \in ToSet(queue[d])
      BY <2>3, WhatComes
    <3> QED
      BY <1>1, <2>3, <3>1, NewCalls DEF OnlyWins
  <2>4. CASE c = LoadCall
    BY <2>4, NewCalls
  <2> QED
    BY <2>1, <2>2, <2>3, <2>4, WhereFrom
<1> QED
  BY <1>2, <1>3 DEF OnlyWins

\* Calls of one device that are results are under way.
LEMMA ResultsAreCalls ==
  ASSUME Typed, NEW d \in Devices
  PROVE  /\ Recording(d) <=> (\E c \in ToSet(queue[d]) : c.kind \in {"record", "put"})
         /\ (Results(queue[d]) = {}) <=> ~Recording(d)
  BY DEF Recording, Results, ToSet

LEMMA StepMissing == IInv /\ OneIsMissing /\ [Next]_vars => OneIsMissing'
<1> SUFFICES ASSUME IInv, OneIsMissing, [Next]_vars, ~hurried',
                    NEW e \in Devices, NEW c \in ToSet(queue'[e])
             PROVE  /\ c.kind = "record" => AtMostOne(c.keys)
                    /\ c.kind = "put" => AtMostOne(Wins' \ single')
  BY DEF OneIsMissing
<1> USE DEF IInv
<1>1. ~hurried
  BY WinsGrow
<1>2. CASE UNCHANGED <<single, won>>
  <2>1. Wins' = Wins
    BY <1>2 DEF Wins
  <2>2. CASE c \in ToSet(queue[e])
    BY <1>1, <1>2, <2>1, <2>2 DEF OneIsMissing
  <2>3. ASSUME NEW now, c = RecordCall(now)
        PROVE  c.kind = "record" /\ AtMostOne(c.keys)
    BY <2>3, NewCalls DEF AtMostOne
  <2>4. ASSUME NEW d \in Devices, AnswerRecord(d), c = PutCall(d)
        PROVE  AtMostOne(Wins \ single) /\ c.kind = "put"
    <3>1. Head(queue[d]) \in ToSet(queue[d])
      BY <2>4, WhatComes
    <3>2. queue[d] # <<>> /\ Head(queue[d]).kind = "record"
      BY <2>4 DEF AnswerRecord, First
    <3>3. AtMostOne(Head(queue[d]).keys)
      BY <1>1, <3>1, <3>2 DEF OneIsMissing
    <3>4. single \cup Head(queue[d]).keys = Wins
      BY <1>1, <3>2, ResultGoes
    <3> QED
      BY <2>4, <3>3, <3>4, NewCalls DEF AtMostOne
  <2>5. c = LoadCall => c.kind = "load"
    BY NewCalls
  <2> QED
    BY <1>2, <2>1, <2>2, <2>3, <2>4, <2>5, WhereFrom
<1>3. ASSUME NEW d \in Devices, NEW now \in Dates, Win(d, now)
      PROVE  /\ c.kind = "record" => AtMostOne(c.keys)
             /\ c.kind = "put" => AtMostOne(Wins' \ single')
  <2>1. ~Recording(e)
    BY <1>3 DEF Win
  <2>2. Brings({RecordCall(now)})
    BY <1>3, WhatComes
  <2>3. c \in ToSet(queue[e]) \/ c = RecordCall(now)
    BY <2>2 DEF Brings
  <2> QED
    BY <2>1, <2>3, ResultsAreCalls, NewCalls DEF AtMostOne
<1>4. ASSUME NEW d \in Devices, Put(d)
      PROVE  c.kind \notin {"record", "put"}
  <2>1. queue[d] # <<>> /\ Head(queue[d]).kind = "put"
    BY <1>4 DEF Put, First
  <2>2. /\ \A a \in Devices : a # d => Results(queue[a]) = {}
        /\ Tail(queue[d]) \in Seq(Calls) /\ Results(Tail(queue[d])) = {}
    BY <1>1, <2>1, ResultGoes
  <2>3. queue' = [queue EXCEPT ![d] = Tail(queue[d])]
    BY <1>4, <2>2, TailAndOne DEF Put, Makes
  <2>4. Results(queue'[e]) = {}
    BY <2>2, <2>3 DEF Typed
  <2> QED
    BY <2>4 DEF Results, ToSet
<1>5. \/ UNCHANGED <<single, won>> \/ (\E d \in Devices : Put(d))
      \/ (\E d \in Devices, now \in Dates : Win(d, now))
  BY DEF Next, Answers, AnswerRecord, AnswerLoad, Appear, Leave, SegmentSingle, SegmentMulti, vars
<1> QED
  BY <1>2, <1>3, <1>4, <1>5

\* What the database lacks when a page is loaded.
LEMMA LacksOne ==
  ASSUME IInv, OneIsMissing, ~hurried
  PROVE  AtMostOne(Wins \ single)
<1>1. CASE \A d \in Devices : ~Recording(d)
  BY <1>1 DEF IInv, OneAtATime, AtMostOne
<1>2. CASE ~ \A d \in Devices : ~Recording(d)
  <2> PICK d \in Devices : Recording(d)
    BY <1>2
  <2>1. PICK i \in DOMAIN queue[d] : queue[d][i].kind \in {"record", "put"}
    BY DEF Recording
  <2>2. queue[d][i] \in ToSet(queue[d])
    BY DEF ToSet
  <2>3. queue[d][i].kind = "record" =>
          AtMostOne(queue[d][i].keys) /\ single \cup queue[d][i].keys = Wins
    BY <2>2 DEF IInv, OneAtATime, OneIsMissing
  <2>4. queue[d][i].kind = "put" => AtMostOne(Wins \ single)
    BY <2>2 DEF OneIsMissing
  <2> QED
    BY <2>1, <2>3, <2>4 DEF AtMostOne
<1> QED
  BY <1>1, <1>2

\* What is seen of one's own games.
Seen(e) ==
  \/ \E c \in ToSet(queue[e]) : c.kind = "load"
  \/ Listed(e) \subseteq Wins /\ AtMostOne(won[e] \ Listed(e))

LEMMA Undisturbed ==
  ASSUME NEW e, Seen(e), Wins \subseteq Wins', won'[e] = won[e],
         table'[e] = table[e], rows'[e] = rows[e],
         \A c \in ToSet(queue[e]) : c.kind = "load" => c \in ToSet(queue'[e])
  PROVE  Seen(e)'
<1>1. Listed(e)' = Listed(e)
  BY DEF Listed
<1> QED
  BY <1>1 DEF Seen, AtMostOne

LEMMA StepSeen ==
  IInv /\ Screens /\ AllFinite /\ RowsAreSorted /\ OnlyWins /\ OneIsMissing /\ OwnAreSeen /\ [Next]_vars
    => OwnAreSeen'
<1> SUFFICES ASSUME IInv, Screens, AllFinite, RowsAreSorted, OnlyWins, OneIsMissing, OwnAreSeen,
                    [Next]_vars, ~hurried', NEW e \in Devices, visible'[e], mode'[e]
             PROVE  Seen(e)'
  BY DEF OwnAreSeen, Seen
<1>1. Typed /\ ~hurried /\ Wins \subseteq Wins'
  BY WinsGrow DEF IInv
<1>2. visible[e] /\ mode[e] => Seen(e)
  BY <1>1 DEF OwnAreSeen, Seen
<1>3. ASSUME NEW d \in Devices, NEW now \in Dates, Win(d, now) PROVE Seen(e)'
  <2>1. UNCHANGED <<visible, mode, table, rows>> /\ ~visible[d]
    BY <1>3 DEF Win, home
  <2>2. e # d
    BY <2>1
  <2>3. won'[e] = won[e] /\ queue'[e] = queue[e]
    BY <1>1, <1>3, <2>2 DEF Win, Typed
  <2> QED
    BY <1>1, <1>2, <2>1, <2>3, Undisturbed
<1>4. ASSUME NEW d \in Devices, AnswerRecord(d) \/ Put(d) PROVE Seen(e)'
  <2>1. UNCHANGED <<won, visible, mode, table, rows>>
    BY <1>4 DEF AnswerRecord, Put, home
  <2>2. Head(queue[d]).kind # "load"
    BY <1>4 DEF AnswerRecord, Put, First
  <2>3. ToSet(queue[d]) \subseteq {Head(queue[d])} \cup ToSet(queue'[d])
    BY <1>1, <1>4, WhatComes
  <2>4. e # d => queue'[e] = queue[e]
    BY <1>1, <1>4 DEF AnswerRecord, Put, Makes, Typed
  <2> QED
    BY <1>1, <1>2, <2>1, <2>2, <2>3, <2>4, Undisturbed
<1>5. ASSUME NEW d \in Devices, AnswerLoad(d) PROVE Seen(e)'
  <2>1. UNCHANGED <<single, won, visible, mode>>
    BY <1>5 DEF AnswerLoad
  <2>2. CASE e # d
    <3>1. queue'[e] = queue[e] /\ table'[e] = table[e] /\ rows'[e] = rows[e]
      BY <1>1, <1>5, <2>2 DEF AnswerLoad, Makes, Typed, Screens, RowsAreSorted
    <3> QED
      BY <1>1, <1>2, <2>1, <3>1, Undisturbed
  <2>3. CASE e = d
    <3>1. table'[d] = (single # {})
      BY <1>5 DEF AnswerLoad, Screens
    <3>2. single # {} => rows'[d] = Sorted(single)
      BY <1>5 DEF AnswerLoad, Rows, RowsAreSorted
    <3>3. ToSet(Sorted(single)) = single
      <4>1. single \in SUBSET Dates /\ IsFiniteSet(single)
        BY <1>1 DEF Typed, AllFinite
      <4> QED
        BY <4>1, SortedIsRight
    <3>4. Listed(d)' = single
      BY <3>1, <3>2, <3>3 DEF Listed
    <3>5. single \subseteq Wins /\ AtMostOne(Wins \ single) /\ won[d] \subseteq Wins
      BY <1>1, LacksOne DEF OnlyWins, Wins
    <3>6. Wins' = Wins
      BY <2>1 DEF Wins
    <3> QED
      BY <2>1, <2>3, <3>4, <3>5, <3>6 DEF Seen, AtMostOne
  <2> QED
    BY <2>2, <2>3
<1>6. ASSUME NEW d \in Devices, Appear(d) \/ SegmentSingle(d) PROVE Seen(e)'
  <2>1. CASE e = d
    <3>1. mode'[d] => LoadCall \in ToSet(queue'[d])
      <4>1. Appear(d) => mode' = mode
        BY DEF Appear
      <4> QED
        BY <1>1, <1>6, <4>1, WhatComes
    <3> QED
      BY <2>1, <3>1, NewCalls DEF Seen
  <2>2. CASE e # d
    <3>1. won' = won /\ rows' = rows
      BY <1>6 DEF Appear, SegmentSingle
    <3>2. visible'[e] = visible[e] /\ mode'[e] = mode[e] /\ table'[e] = table[e]
      BY <1>6, <2>2 DEF Appear, SegmentSingle, Screens
    <3>3. queue'[e] = queue[e]
      BY <1>1, <1>6, <2>2 DEF Appear, SegmentSingle, LoadTable, Typed
    <3> QED
      BY <1>1, <1>2, <3>1, <3>2, <3>3, Undisturbed
  <2> QED
    BY <2>1, <2>2
<1>7. ASSUME NEW d \in Devices, SegmentMulti(d) \/ Leave(d) PROVE Seen(e)'
  <2>1. won' = won /\ rows' = rows /\ queue' = queue
    BY <1>7 DEF SegmentMulti, Leave
  <2>2. ~(visible'[d] /\ mode'[d])
    BY <1>7 DEF SegmentMulti, Leave, Screens
  <2>3. e # d
    BY <2>2
  <2>4. visible'[e] = visible[e] /\ mode'[e] = mode[e] /\ table'[e] = table[e]
    BY <1>7, <2>3 DEF SegmentMulti, Leave, Screens
  <2> QED
    BY <1>1, <1>2, <2>1, <2>4, Undisturbed
<1>8. CASE UNCHANGED vars
  <2>1. UNCHANGED <<won, queue, visible, mode, table, rows>>
    BY <1>8 DEF vars, home
  <2> QED
    BY <1>1, <1>2, <2>1, Undisturbed
<1> QED
  BY <1>3, <1>4, <1>5, <1>6, <1>7, <1>8 DEF Next, Answers

LEMMA InitLists == Init => ListsInv
<1> SUFFICES ASSUME Init PROVE ListsInv
  OBVIOUS
<1>1. IInv
  BY InitIsOne
<1>2. Screens
  <2>1. {visible, mode, wheel, table, play} \subseteq [Devices -> BOOLEAN]
    BY DEF Init
  <2>2. hurried \in BOOLEAN
    BY DEF Init
  <2>3. visits = 0 /\ 0 \in 0..MaxVisits
    BY VisitsAreCounted DEF Init
  <2> QED
    BY <2>1, <2>2, <2>3 DEF Screens
<1>3. \A d \in Devices : ToSet(queue[d]) = {LoadCall}
  <2>1. \A d \in Devices : queue[d] = <<LoadCall>>
    BY DEF Init, LoadCall
  <2>2. ToSet(<<LoadCall>>) = {LoadCall}
    BY DEF ToSet
  <2> QED
    BY <2>1, <2>2
<1>4. AllFinite
  BY <1>3, NewCalls, FS_EmptySet DEF Init, AllFinite
<1>5. RowsAreSorted
  <2>1. {} \in SUBSET Dates /\ IsFiniteSet({})
    BY FS_EmptySet
  <2>2. Sorted({}) \in Seq(Dates) /\ ToSet(Sorted({})) = {}
    BY <2>1, SortedIsRight
  <2>3. Sorted({}) = <<>>
    <3>1. \A s \in Seq(Dates) : ToSet(s) = {} => s = <<>>
      <4> SUFFICES ASSUME NEW s \in Seq(Dates), s # <<>> PROVE s[1] \in ToSet(s)
        OBVIOUS
      <4> QED
        BY DEF ToSet
    <3> QED
      BY <2>2, <3>1
  <2> QED
    BY <2>1, <2>3 DEF Init, RowsAreSorted
<1>6. OnlyWins /\ OneIsMissing /\ OwnAreSeen
  BY <1>3, NewCalls DEF Init, OnlyWins, OneIsMissing, OwnAreSeen
<1> QED
  BY <1>1, <1>2, <1>4, <1>5, <1>6 DEF ListsInv

LEMMA StepLists == ListsInv /\ [Next]_vars => ListsInv'
  BY StepIsOne, StepScreens, StepFinite, StepSorted, StepWins, StepMissing, StepSeen
  DEF ListsInv, IInv

LEMMA OneOrNone ==
  ASSUME NEW S, AtMostOne(S)
  PROVE  Cardinality(S) <= 1
<1>1. CASE S = {}
  BY <1>1, FS_EmptySet
<1>2. CASE S # {}
  <2>1. PICK x \in S : S = {x}
    BY <1>2 DEF AtMostOne
  <2>2. Cardinality({x}) = 1
    BY FS_Singleton
  <2> QED
    BY <2>1, <2>2
<1> QED
  BY <1>1, <1>2

LEMMA ListsInvSuffices == ListsInv => ListsAreRight
<1> SUFFICES ASSUME ListsInv PROVE ListsAreRight
  OBVIOUS
<1>1. ASSUME NEW d \in Devices
      PROVE  /\ rows[d] \in Seq(Dates) /\ IsInjective(rows[d])
             /\ \A i, j \in DOMAIN rows[d] :
                  i < j /\ SameDigits(rows[d][i], rows[d][j]) => Before(rows[d][j], rows[d][i])
  <2>1. PICK keys \in SUBSET Dates : IsFiniteSet(keys) /\ rows[d] = Sorted(keys)
    BY DEF ListsInv, RowsAreSorted
  <2> QED
    BY <2>1, SortedIsRight
<1>2. TypeOK
  <2>1. \A d \in Devices : queue[d] \in Seq([kind : {"record", "put", "load"}, keys : SUBSET Dates])
    BY DEF ListsInv, IInv, Typed, Calls
  <2> QED
    BY <1>1, <2>1 DEF TypeOK, ListsInv, IInv, Typed, Screens
<1>3. OwnGamesAreListed
  <2> SUFFICES ASSUME NEW d \in Devices, ~hurried, visible[d], mode[d], queue[d] = <<>>
               PROVE  Cardinality(won[d] \ Listed(d)) <= 1 /\ Listed(d) \subseteq Wins
    BY DEF OwnGamesAreListed
  <2>1. ToSet(queue[d]) = {}
    BY DEF ToSet
  <2>2. Listed(d) \subseteq Wins /\ AtMostOne(won[d] \ Listed(d))
    BY <2>1 DEF ListsInv, OwnAreSeen
  <2> QED
    BY <2>2, OneOrNone
<1>4. NewestFirst
  BY <1>1 DEF NewestFirst
<1> QED
  BY <1>2, <1>3, <1>4 DEF ListsAreRight

\* For any number of devices and any dates: a home page that has loaded lists
\* only games that have been won, each once, the later first where dates have
\* as many digits, and lacks one of the device's own at most, while nobody wins
\* as another result is being recorded (reloadTableView's sort, and loads that
\* queue behind a recording).
THEOREM ListsAreTrue == Spec => []ListsAreRight
<1>1. QED
  BY InitLists, StepLists, ListsInvSuffices, PTL DEF Spec

-----------------------------------------------------------------------------
(* The tables of friends and of requests.                                  *)

\* The page as it is meant to be used: people wait for it, users have names, and
\* nobody is on a list twice.
Usual == Careful = TRUE /\ Doubles = FALSE /\ Nameless = {}

\* And what is assumed of the constants.
Given ==
  /\ Usual
  /\ Pages \subseteq {"messenger", "requests"} /\ MaxList \in Nat /\ MaxAppearances \in Nat

LEMMA GivenIs == Usual => Given
  BY PagesAreThese, Bounds DEF Given

Messenger == page = "messenger"

\* t is s in some order, when nobody is on it twice.
Same(s, t) == Len(s) = Len(t) /\ ToSet(s) = ToSet(t)

RowsTyped ==
  /\ page \in Pages /\ named \in BOOLEAN /\ onScreen \in BOOLEAN
  /\ touch \in BOOLEAN /\ reload \in BOOLEAN /\ trapped = FALSE
  /\ list \in Seq(People) /\ listed \in Seq(People) /\ shown \in Seq(People)
  /\ uids \in Seq(People) /\ names = uids
  /\ Len(list) <= MaxList /\ Len(listed) <= MaxList /\ Len(uids) <= 2 * MaxList
  /\ IsInjective(list) /\ IsInjective(listed)
  /\ appearances \in 0..MaxAppearances

\* What was acted on is what RowActsOnPersonShown says.
ActedRight ==
  \/ acted = Nothing
  \/ /\ acted \in [shown : People, person : People, rows : 1..MaxList]
     /\ acted.person = acted.shown \/ (page = "requests" /\ acted.rows > 1)

FirstRows == SubSeq(uids, 1, Len(listed))

\* Nobody else changes the list of friends while the page shows it; requests
\* may have been added.
Current == IF Messenger THEN listed = list ELSE ToSet(listed) \subseteq ToSet(list)

\* The arrays hold everybody first, perhaps twice, and so does the table.
Loaded ==
  /\ Current
  /\ Len(listed) <= Len(uids) /\ Same(FirstRows, listed)
  /\ reload \/ shown = FirstRows

\* Where the page is in its loading.
Away == onScreen = FALSE /\ reads = <<>> /\ reload = FALSE
Busy == onScreen = TRUE /\ reload = FALSE /\ touch = FALSE
Unnamed == Busy /\ named = FALSE /\ reads = <<>>
Asking == Busy /\ reads = <<Read("name")>>
Listing == Busy /\ named = TRUE /\ reads = Lists
Requesting == /\ Busy /\ named = TRUE /\ Messenger /\ Current
              /\ reads = <<Read("requests"), Read("users")>>
Filling == /\ Busy /\ named = TRUE /\ Current /\ uids = <<>>
           /\ reads = IF Messenger THEN <<Read("users"), Read("users")>>
                                   ELSE <<Read("users")>>
Again == /\ onScreen = TRUE /\ named = TRUE /\ Messenger /\ Current /\ Same(uids, listed)
         /\ reads = <<Read("users")>>
Ready == onScreen = TRUE /\ named = TRUE /\ reads = <<>> /\ Loaded
Takes(i) == [kind |-> "take", row |-> i]
Taking == Busy /\ named = TRUE /\ ~Messenger /\ Loaded /\ \E i \in DOMAIN listed : reads = <<Takes(i)>>

Stage == Away \/ Unnamed \/ Asking \/ Listing \/ Requesting \/ Filling \/ Again \/ Ready \/ Taking

RowsInv == RowsTyped /\ ActedRight /\ Stage

-----------------------------------------------------------------------------
(* Calls, one or two at a time.                                            *)

LEMMA OneCall ==
  ASSUME NEW a
  PROVE  <<a>> # <<>> /\ Head(<<a>>) = a /\ Tail(<<a>>) = <<>> /\ Append(<<>>, a) = <<a>>
  OBVIOUS

LEMMA TwoCalls ==
  ASSUME NEW a, NEW b
  PROVE  <<a, b>> # <<>> /\ Head(<<a, b>>) = a /\ Tail(<<a, b>>) = <<b>> /\ <<b>> \o <<a>> = <<b, a>>
<1>1. {a, b} = {a, b} /\ a \in {a, b} /\ b \in {a, b}
  OBVIOUS
<1>2. <<b>> \o <<a>> = <<b, a>>
  BY <1>1, Pair
<1> QED
  BY <1>2

LEMMA KindsDiffer ==
  /\ Read("name").kind = "name" /\ Read("list").kind = "list"
  /\ Read("requests").kind = "requests" /\ Read("users").kind = "users"
  /\ \A i : Takes(i).kind = "take" /\ Takes(i).row = i
  BY DEF Read, Takes

\* Which call comes first, by where the page is.
LEMMA FirstCalls ==
  ASSUME Stage
  PROVE  /\ IsNext("name") => Asking
         /\ IsNext("list") => Listing
         /\ IsNext("requests") => Requesting
         /\ IsNext("users") => Filling \/ Again
         /\ IsNext("take") => Taking
<1>1. Away \/ Unnamed \/ Ready => reads = <<>>
  BY DEF Away, Unnamed, Ready
<1>2. Asking => Head(reads).kind = "name"
  BY OneCall, KindsDiffer DEF Asking
<1>3. Listing => Head(reads).kind = "list"
  BY OneCall, TwoCalls, KindsDiffer DEF Listing, Lists
<1>4. Requesting => Head(reads).kind = "requests"
  BY TwoCalls, KindsDiffer DEF Requesting
<1>5. Filling \/ Again => Head(reads).kind = "users"
  BY OneCall, TwoCalls, KindsDiffer DEF Filling, Again
<1>6. Taking => Head(reads).kind = "take"
  BY OneCall, KindsDiffer DEF Taking
<1> QED
  BY <1>1, <1>2, <1>3, <1>4, <1>5, <1>6 DEF Stage, IsNext

-----------------------------------------------------------------------------
(* Lists of people.                                                        *)

\* The users of a list, in any order: as many, the same ones.
LEMMA AnyOrder ==
  ASSUME NEW s \in Seq(People), IsInjective(s), NEW t \in SetToSeqs(ToSet(s))
  PROVE  t \in Seq(People) /\ Same(t, s)
<1> DEFINE S == ToSet(s)
           n == Len(s)
<1>1. n \in Nat /\ IsFiniteSet(1..n) /\ Cardinality(1..n) = n /\ DOMAIN s = 1..n
  <2>1. n \in Nat /\ DOMAIN s = 1..n
    OBVIOUS
  <2> HIDE DEF n
  <2>2. IsFiniteSet(1..n) /\ Cardinality(1..n) = IF 1 > n THEN 0 ELSE n - 1 + 1
    BY <2>1, FS_Interval
  <2> QED
    BY <2>1, <2>2
<1>2. s \in Bijection(1..n, S)
  <2>1. s \in [1..n -> S] /\ \A x \in S : \E i \in 1..n : s[i] = x
    BY <1>1 DEF ToSet
  <2> QED
    BY <1>1, <2>1 DEF Bijection, Injection, Surjection, IsInjective
<1>3. IsFiniteSet(S) /\ Cardinality(S) = n
  BY <1>1, <1>2, FS_Bijection DEF ExistsBijection
<1>4. t \in Injection(1..n, S)
  BY <1>3 DEF SetToSeqs, Injection, IsInjective
<1>5. t \in Surjection(1..n, S)
  BY <1>1, <1>3, <1>4, FS_Injection
<1>6. S \subseteq People
  BY <1>1 DEF ToSet
<1>7. t \in [1..n -> People]
  BY <1>4, <1>6 DEF Injection
<1>8. t \in Seq(People) /\ Len(t) = n /\ DOMAIN t = 1..n
  BY <1>1, <1>7
<1>9. ToSet(t) = S
  BY <1>5, <1>8 DEF Surjection, ToSet
<1> QED
  BY <1>8, <1>9 DEF Same

\* What comes after the first rows changes nothing about them.
LEMMA FirstOfBoth ==
  ASSUME NEW s \in Seq(People), NEW t \in Seq(People)
  PROVE  /\ s \o t \in Seq(People) /\ Len(s \o t) = Len(s) + Len(t)
         /\ SubSeq(s \o t, 1, Len(s)) = s
         /\ SubSeq(s, 1, Len(s)) = s /\ <<>> \o s = s
<1>1. s \o t \in Seq(People) /\ Len(s \o t) = Len(s) + Len(t)
  OBVIOUS
<1>2. SubSeq(s, 1, Len(s)) = s /\ <<>> \o s = s
  OBVIOUS
<1> DEFINE r == SubSeq(s \o t, 1, Len(s))
<1>3. r \in Seq(People) /\ Len(r) = Len(s) /\ \A i \in 1..Len(s) : r[i] = s[i]
  BY <1>1
<1> HIDE DEF r
<1>4. r = s
  <2>1. r = [i \in 1..Len(s) |-> r[i]] /\ s = [i \in 1..Len(s) |-> s[i]]
    BY <1>3
  <2> QED
    BY <1>3, <2>1
<1> QED
  BY <1>1, <1>2, <1>4 DEF r

LEMMA BothParts ==
  ASSUME NEW s \in Seq(People), NEW t \in Seq(People)
  PROVE  /\ \A i \in 1..Len(s) : (s \o t)[i] = s[i]
         /\ \A i \in 1..Len(t) : (s \o t)[Len(s) + i] = t[i]
  OBVIOUS

\* A person is taken off a list, or put at its end.
LEMMA TakenFrom ==
  ASSUME NEW s \in Seq(People), IsInjective(s), NEW v \in ToSet(s)
  PROVE  LET r == RemoveFirst(s, v)
         IN  r \in Seq(People) /\ Len(r) <= Len(s) /\ IsInjective(r)
<1>1. \E i \in 1..Len(s) : s[i] = v
  BY DEF ToSet
<1> DEFINE I == {i \in 1..Len(s) : s[i] = v}
           k == SelectInSeq(s, LAMBDA x : x = v)
           r == RemoveAt(s, k)
<1>2. k \in 1..Len(s)
  <2>1. I # {} /\ I \in SUBSET Nat
    BY <1>1
  <2>2. k = Min(I)
    BY <2>1 DEF SelectInSeq, Min
  <2> HIDE DEF I
  <2>3. \E x \in I : \A y \in I : x <= y
    BY <2>1, LeastExists
  <2>4. Min(I) \in I
    BY <2>3 DEF Min
  <2> QED
    BY <2>2, <2>4 DEF I
<1>3. RemoveFirst(s, v) = r
  BY <1>1 DEF RemoveFirst
<1> HIDE DEF k
<1> DEFINE f == SubSeq(s, 1, k - 1)
           g == SubSeq(s, k + 1, Len(s))
<1>4. /\ f \in Seq(People) /\ Len(f) = k - 1 /\ \A i \in 1..(k - 1) : f[i] = s[i]
      /\ g \in Seq(People) /\ Len(g) = Len(s) - k /\ \A i \in 1..(Len(s) - k) : g[i] = s[k + i]
  BY <1>2
<1>5. r = f \o g
  BY DEF RemoveAt
<1> HIDE DEF f, g, r
<1>6. r \in Seq(People) /\ Len(r) = Len(s) - 1
  BY <1>2, <1>4, <1>5
<1>7. /\ \A i \in 1..(k - 1) : r[i] = s[i]
      /\ \A i \in k..(Len(s) - 1) : r[i] = s[i + 1]
  <2>1. /\ \A i \in 1..Len(f) : r[i] = f[i]
        /\ \A i \in 1..Len(g) : r[Len(f) + i] = g[i]
    BY <1>4, <1>5, BothParts
  <2>2. ASSUME NEW i \in k..(Len(s) - 1) PROVE r[i] = s[i + 1]
    <3> DEFINE j == i - (k - 1)
    <3>1. j \in 1..(Len(s) - k) /\ k + j = i + 1 /\ Len(f) + j = i
      BY <1>2, <1>4
    <3> HIDE DEF j
    <3>2. r[Len(f) + j] = g[j] /\ g[j] = s[k + j]
      BY <1>4, <2>1, <3>1
    <3> QED
      BY <3>1, <3>2
  <2>3. \A i \in 1..(k - 1) : r[i] = s[i]
    BY <1>4, <2>1
  <2> QED
    BY <2>2, <2>3
<1>8. IsInjective(r)
  <2> SUFFICES ASSUME NEW i \in 1..(Len(s) - 1), NEW j \in 1..(Len(s) - 1), r[i] = r[j]
               PROVE  i = j
    BY <1>6 DEF IsInjective
  <2>0. ASSUME NEW x \in 1..(Len(s) - 1)
        PROVE  \E y \in 1..Len(s) : r[x] = s[y] /\ y = IF x < k THEN x ELSE x + 1
    <3>1. CASE x < k
      <4>1. x \in 1..(k - 1) /\ x \in 1..Len(s)
        BY <1>2, <3>1
      <4> QED
        BY <1>7, <3>1, <4>1
    <3>2. CASE ~(x < k)
      <4>1. x \in k..(Len(s) - 1) /\ x + 1 \in 1..Len(s)
        BY <1>2, <3>2
      <4> QED
        BY <1>7, <3>2, <4>1
    <3> QED
      BY <3>1, <3>2
  <2>1. PICK a \in 1..Len(s) : r[i] = s[a] /\ a = IF i < k THEN i ELSE i + 1
    BY <2>0
  <2>2. PICK b \in 1..Len(s) : r[j] = s[b] /\ b = IF j < k THEN j ELSE j + 1
    BY <2>0
  <2>3. a = b
    <3>1. \A x, y \in 1..Len(s) : s[x] = s[y] => x = y
      BY DEF IsInjective
    <3>2. s[a] = s[b]
      BY <2>1, <2>2, Zenon
    <3> QED
      BY <3>1, <3>2, Zenon
  <2> HIDE DEF k
  <2>4. a = IF i < k THEN i ELSE i + 1
    BY <2>1
  <2>5. a = IF j < k THEN j ELSE j + 1
    BY <2>2, <2>3
  <2> QED
    BY <1>2, <2>4, <2>5
<1> QED
  BY <1>3, <1>6, <1>8

LEMMA PutOn ==
  ASSUME NEW s \in Seq(People), IsInjective(s), NEW p \in People \ ToSet(s)
  PROVE  /\ Append(s, p) \in Seq(People) /\ Len(Append(s, p)) = Len(s) + 1
         /\ IsInjective(Append(s, p)) /\ ToSet(s) \subseteq ToSet(Append(s, p))
<1> DEFINE r == Append(s, p)
<1>1. /\ r \in Seq(People) /\ Len(r) = Len(s) + 1 /\ r[Len(s) + 1] = p
      /\ \A i \in 1..Len(s) : r[i] = s[i]
  OBVIOUS
<1> HIDE DEF r
<1>2. \A i \in 1..Len(s) : r[i] # p
  BY <1>1 DEF ToSet
<1>3. IsInjective(r)
  <2>1. \A i \in 1..Len(r) : i \in 1..Len(s) \/ i = Len(s) + 1
    BY <1>1
  <2> QED
    BY <1>1, <1>2, <2>1 DEF IsInjective
<1>4. ToSet(s) \subseteq ToSet(r)
  BY <1>1 DEF ToSet
<1> QED
  BY <1>1, <1>3, <1>4 DEF r

-----------------------------------------------------------------------------
(* The steps.                                                              *)

\* The users on the list come, in some order, to the end of both arrays.
LEMMA UsersCome ==
  ASSUME Given, RowsTyped, AnswerUsers
  PROVE  /\ \E t \in Seq(People) : Same(t, listed) /\ uids' = uids \o t /\ names' = uids'
         /\ reload' = TRUE /\ touch' = TRUE /\ reads' = Tail(reads) \o <<>>
         /\ UNCHANGED <<page, named, list, onScreen, listed, shown, acted, appearances, trapped>>
<1>1. PICK t \in SetToSeqs(ToSet(listed)) : uids' = uids \o t /\ names' = names \o NamesOf(t)
  BY DEF AnswerUsers, SetToSeqs, ToSet, Cardinality
<1>2. t \in Seq(People) /\ Same(t, listed)
  BY AnyOrder DEF RowsTyped
<1>3. NamesOf(t) = t
  <2> DEFINE P == {i \in DOMAIN t : HasName(t[i])}
  <2>1. NamesOf(t) = AtPlaces(t, P)
    BY DEF NamesOf, AtPlaces
  <2>2. 1..Len(t) \subseteq P
    BY <1>2 DEF HasName, Given, Usual
  <2> HIDE DEF P
  <2> QED
    BY <1>2, <2>1, <2>2, AllPlaces
<1>4. uids' = uids \o t /\ names' = uids'
  BY <1>1, <1>3 DEF RowsTyped
<1>5. /\ reload' = TRUE /\ touch' = TRUE /\ reads' = Tail(reads) \o <<>>
      /\ UNCHANGED <<page, named, list, onScreen, listed, shown, acted, appearances, trapped>>
  BY DEF AnswerUsers, TouchesWhenLoaded, FollowedBy
<1> QED
  BY <1>2, <1>4, <1>5

LEMMA UsersKeepRows ==
  ASSUME Given, RowsInv, AnswerUsers
  PROVE  RowsInv'
<1>1. PICK t \in Seq(People) : Same(t, listed) /\ uids' = uids \o t /\ names' = uids'
  BY UsersCome DEF RowsInv
<1>2. /\ reload' = TRUE /\ touch' = TRUE /\ reads' = Tail(reads) \o <<>>
      /\ UNCHANGED <<page, named, list, onScreen, listed, shown, acted, appearances, trapped>>
  BY UsersCome DEF RowsInv
<1>3. Filling \/ Again
  BY FirstCalls DEF RowsInv, AnswerUsers
<1>4. /\ onScreen' = TRUE /\ named' = TRUE /\ Current' /\ Messenger' = Messenger
  BY <1>2, <1>3 DEF Filling, Again, Busy, Current, Messenger
<1>5. uids \in Seq(People) /\ Len(t) = Len(listed) /\ Len(listed) \in Nat /\ listed \in Seq(People)
      /\ Len(listed) <= MaxList /\ MaxList \in Nat
  BY <1>1 DEF RowsInv, RowsTyped, Same, Given
<1>6. CASE Filling
  <2>1. uids' = t
    BY <1>1, <1>6, FirstOfBoth DEF Filling
  <2>2. RowsTyped'
    BY <1>1, <1>2, <1>5, <2>1 DEF RowsInv, RowsTyped
  <2>3. Same(uids', listed')
    BY <1>1, <1>2, <2>1
  <2>4. CASE Messenger
    <3>1. reads' = <<Read("users")>>
      BY <1>2, <1>6, <2>4, TwoCalls DEF Filling
    <3>2. Again'
      BY <1>4, <2>3, <2>4, <3>1 DEF Again
    <3> QED
      BY <1>2, <2>2, <3>2 DEF RowsInv, Stage, ActedRight
  <2>5. CASE ~Messenger
    <3>1. reads' = <<>>
      BY <1>2, <1>6, <2>5, OneCall DEF Filling
    <3>2. FirstRows' = t
      BY <1>2, <1>5, <2>1, FirstOfBoth DEF FirstRows
    <3>3. Loaded'
      BY <1>1, <1>2, <1>4, <1>5, <2>1, <3>2 DEF Loaded
    <3>4. Ready'
      BY <1>4, <3>1, <3>3 DEF Ready
    <3> QED
      BY <1>2, <2>2, <3>4 DEF RowsInv, Stage, ActedRight
  <2> QED
    BY <2>4, <2>5
<1>7. CASE Again
  <2>1. Len(uids) = Len(listed) /\ Same(uids, listed)
    BY <1>7 DEF Again, Same
  <2>2. uids' \in Seq(People) /\ Len(uids') = Len(uids) + Len(t) /\ SubSeq(uids', 1, Len(uids)) = uids
    BY <1>1, <1>5, FirstOfBoth
  <2>3. FirstRows' = uids
    BY <1>2, <2>1, <2>2 DEF FirstRows
  <2>4. Loaded'
    BY <1>2, <1>4, <1>5, <2>1, <2>2, <2>3 DEF Loaded
  <2>5. RowsTyped'
    BY <1>1, <1>2, <1>5, <2>1, <2>2 DEF RowsInv, RowsTyped
  <2>6. reads' = <<>>
    BY <1>2, <1>7, OneCall DEF Again
  <2>7. Ready'
    BY <1>4, <2>4, <2>6 DEF Ready
  <2> QED
    BY <1>2, <2>5, <2>7 DEF RowsInv, Stage, ActedRight
<1> QED
  BY <1>3, <1>6, <1>7

\* Nothing that the acted-upon row says changes.
LEMMA ActedStays ==
  ASSUME ActedRight, UNCHANGED <<acted, page>>
  PROVE  ActedRight'
  BY DEF ActedRight, Nothing

LEMMA NameKeepsRows ==
  ASSUME Given, RowsInv, AnswerName
  PROVE  RowsInv'
<1>1. Asking
  BY FirstCalls DEF RowsInv, AnswerName
<1>2. /\ reads' = Tail(reads) \o (IF named THEN Lists ELSE <<>>)
      /\ UNCHANGED <<page, named, list, onScreen, listed, names, uids, touch, reload, shown, acted, appearances, trapped>>
  BY DEF AnswerName, FollowedBy, arrays, screen
<1>3. RowsTyped' /\ ActedRight' /\ Busy'
  BY <1>1, <1>2, ActedStays DEF RowsInv, RowsTyped, Asking, Busy
<1>4. CASE named = TRUE
  <2>1. reads' = Lists
    <3>1. <<>> \o <<Read("list")>> = <<Read("list")>>
      OBVIOUS
    <3>2. <<>> \o <<Read("list"), Read("requests")>> = <<Read("list"), Read("requests")>>
      OBVIOUS
    <3>3. reads' = <<>> \o Lists
      BY <1>1, <1>2, <1>4, OneCall DEF Asking
    <3> QED
      BY <3>1, <3>2, <3>3 DEF Lists
  <2>2. Lists' = Lists
    BY <1>2 DEF Lists
  <2>3. Listing'
    BY <1>2, <1>3, <1>4, <2>1, <2>2 DEF Listing
  <2> QED
    BY <1>3, <2>3 DEF RowsInv, Stage
<1>5. CASE named = FALSE
  <2>1. reads' = <<>>
    BY <1>1, <1>2, <1>5, OneCall DEF Asking
  <2>2. Unnamed'
    BY <1>2, <1>3, <1>5, <2>1 DEF Unnamed
  <2> QED
    BY <1>3, <2>2 DEF RowsInv, Stage
<1> QED
  BY <1>4, <1>5 DEF RowsInv, RowsTyped

LEMMA ListKeepsRows ==
  ASSUME Given, RowsInv, AnswerList
  PROVE  RowsInv'
<1>1. Listing
  BY FirstCalls DEF RowsInv, AnswerList
<1>2. /\ reads' = Tail(reads) \o <<Read("users")>> /\ names' = <<>> /\ uids' = <<>> /\ listed' = list
      /\ UNCHANGED <<page, named, list, onScreen, touch, reload, shown, acted, appearances, trapped>>
  BY DEF AnswerList, LoadFriend, FollowedBy, screen
<1>3. RowsTyped'
  <2>1. Len(uids') = 0 /\ uids' \in Seq(People) /\ MaxList \in Nat
    BY <1>2 DEF Given
  <2> QED
    BY <1>2, <2>1 DEF RowsInv, RowsTyped
<1>4. ActedRight' /\ Busy' /\ named' = TRUE
  BY <1>1, <1>2, ActedStays DEF RowsInv, Listing, Busy
<1>5. Current'
  BY <1>2 DEF Current
<1>6. CASE Messenger
  <2>1. reads' = <<Read("requests")>> \o <<Read("users")>>
    BY <1>1, <1>2, <1>6, TwoCalls DEF Listing, Lists, Messenger
  <2>2. reads' = <<Read("requests"), Read("users")>>
    BY <2>1, TwoCalls
  <2>3. Requesting'
    BY <1>2, <1>4, <1>5, <1>6, <2>2 DEF Requesting, Messenger
  <2> QED
    BY <1>3, <1>4, <2>3 DEF RowsInv, Stage
<1>7. CASE ~Messenger
  <2>1. reads' = <<>> \o <<Read("users")>>
    BY <1>1, <1>2, <1>7, OneCall DEF Listing, Lists, Messenger
  <2>2. reads' = <<Read("users")>>
    BY <2>1
  <2>3. Filling'
    BY <1>2, <1>4, <1>5, <1>7, <2>2 DEF Filling, Messenger
  <2> QED
    BY <1>3, <1>4, <2>3 DEF RowsInv, Stage
<1> QED
  BY <1>6, <1>7

LEMMA RequestsKeepRows ==
  ASSUME Given, RowsInv, AnswerRequests
  PROVE  RowsInv'
<1>1. Requesting
  BY FirstCalls DEF RowsInv, AnswerRequests
<1>2. /\ reads' = Tail(reads) \o <<Read("users")>> /\ names' = <<>> /\ uids' = <<>>
      /\ UNCHANGED <<page, named, list, onScreen, listed, touch, reload, shown, acted, appearances, trapped>>
  BY DEF AnswerRequests, LoadFriend, FollowedBy, screen
<1>3. RowsTyped'
  <2>1. Len(uids') = 0 /\ uids' \in Seq(People) /\ MaxList \in Nat
    BY <1>2 DEF Given
  <2> QED
    BY <1>2, <2>1 DEF RowsInv, RowsTyped
<1>4. ActedRight' /\ Busy' /\ named' = TRUE
  BY <1>1, <1>2, ActedStays DEF RowsInv, Requesting, Busy
<1>5. Current' /\ Messenger'
  BY <1>1, <1>2 DEF Requesting, Current, Messenger
<1>6. reads' = <<Read("users")>> \o <<Read("users")>>
  BY <1>1, <1>2, TwoCalls DEF Requesting
<1>7. reads' = <<Read("users"), Read("users")>>
  BY <1>6, TwoCalls
<1>8. Filling'
  BY <1>2, <1>4, <1>5, <1>7 DEF Filling
<1> QED
  BY <1>3, <1>4, <1>8 DEF RowsInv, Stage

\* Rows are laid out when the arrays have them.
LEMMA LayoutKeepsRows ==
  ASSUME Given, RowsInv, Layout
  PROVE  RowsInv'
<1>1. reload = TRUE /\ onScreen = TRUE
  BY DEF Layout, RowsInv, RowsTyped
<1>2. Again \/ Ready
  BY <1>1 DEF RowsInv, Stage, Away, Unnamed, Asking, Listing, Requesting, Filling, Taking, Busy
<1>3. Len(listed) <= Len(uids)
  <2>1. Again => Len(listed) = Len(uids)
    BY DEF Again, Same
  <2>2. Len(listed) \in Int /\ Len(uids) \in Int
    BY DEF RowsInv, RowsTyped
  <2> QED
    BY <1>2, <2>1, <2>2 DEF Ready, Loaded
<1>4. /\ reload' = FALSE /\ shown' = FirstRows
      /\ UNCHANGED <<page, named, list, reads, onScreen, listed, names, uids, touch, acted, appearances, trapped>>
  BY <1>3 DEF Layout, LaysOut, FirstRows, RowsInv, RowsTyped, arrays
<1>5. FirstRows \in Seq(People)
  BY <1>3 DEF RowsInv, RowsTyped, FirstRows
<1>6. RowsTyped' /\ ActedRight'
  BY <1>4, <1>5, ActedStays DEF RowsInv, RowsTyped
<1>7. Current' = Current /\ FirstRows' = FirstRows /\ Messenger' = Messenger
  BY <1>4 DEF Current, FirstRows, Messenger
<1>8. Again => Again'
  BY <1>4, <1>7 DEF Again, Same
<1>9. Ready => Ready'
  BY <1>4, <1>7 DEF Ready, Loaded, Same
<1> QED
  BY <1>2, <1>6, <1>8, <1>9 DEF RowsInv, Stage

LEMMA AppearKeepsRows ==
  ASSUME Given, RowsInv, PageAppears
  PROVE  RowsInv'
<1>1. Away
  BY DEF PageAppears, RowsInv, Stage, Unnamed, Asking, Listing, Requesting, Filling, Again, Ready, Taking, Busy
<1>2. /\ appearances' = appearances + 1 /\ appearances < MaxAppearances /\ onScreen' = TRUE /\ touch' = FALSE
      /\ reads' = Append(reads, Read("name"))
      /\ UNCHANGED <<page, named, list, listed, names, uids, reload, shown, acted, trapped>>
  BY <1>1 DEF PageAppears, TouchesWhileLoading, arrays, Away
<1>3. appearances' \in 0..MaxAppearances
  BY <1>2 DEF RowsInv, RowsTyped, Given
<1>4. RowsTyped' /\ ActedRight' /\ Busy'
  BY <1>1, <1>2, <1>3, ActedStays DEF RowsInv, RowsTyped, Away, Busy
<1>5. reads' = <<Read("name")>>
  BY <1>1, <1>2, OneCall DEF Away
<1> QED
  BY <1>4, <1>5 DEF RowsInv, Stage, Asking

\* A page is left when nothing is pending.
LEMMA LeaveKeepsRows ==
  ASSUME Given, RowsInv, LeavePage
  PROVE  RowsInv'
<1>1. /\ reads' = <<>> /\ reload' = FALSE /\ onScreen' = FALSE
      /\ UNCHANGED <<page, named, list, listed, names, uids, touch, shown, acted, appearances, trapped>>
  BY DEF LeavePage, Given, Usual, RowsInv, RowsTyped, arrays, screen
<1>2. RowsTyped' /\ ActedRight' /\ Away'
  BY <1>1, ActedStays DEF RowsInv, RowsTyped, Away
<1> QED
  BY <1>2 DEF RowsInv, Stage

\* Friends are added while the page is away; requests at any time, and they leave
\* what is loaded true.
LEMMA GrowKeepsRows ==
  ASSUME Given, RowsInv, NEW p \in People, Grow(p)
  PROVE  RowsInv'
<1>1. /\ p \notin ToSet(list) /\ Len(list) < MaxList /\ list' = Append(list, p)
      /\ Messenger => onScreen = FALSE
      /\ UNCHANGED <<page, named, reads, onScreen, listed, names, uids, touch, reload, shown, acted, appearances, trapped>>
  BY DEF Grow, Given, Usual, Messenger, ToSet, RowsInv, RowsTyped, arrays, screen
<1>2. /\ list' \in Seq(People) /\ Len(list') = Len(list) + 1 /\ IsInjective(list')
      /\ ToSet(list) \subseteq ToSet(list')
  BY <1>1, PutOn DEF RowsInv, RowsTyped
<1>3. Len(list') <= MaxList
  BY <1>1, <1>2 DEF RowsInv, RowsTyped, Given
<1>4. RowsTyped' /\ ActedRight'
  BY <1>1, <1>2, <1>3, ActedStays DEF RowsInv, RowsTyped
<1>5. /\ Messenger' = Messenger /\ Busy' = Busy /\ FirstRows' = FirstRows /\ Lists' = Lists
  BY <1>1 DEF Messenger, Busy, FirstRows, Lists
<1>6. ~Messenger /\ Current => Current'
  BY <1>1, <1>2, <1>5 DEF Current
<1>7. CASE Messenger
  <2>1. Away
    BY <1>1, <1>7 DEF RowsInv, Stage, Unnamed, Asking, Listing, Requesting, Filling, Again, Ready, Taking, Busy
  <2>2. Away'
    BY <1>1, <2>1 DEF Away
  <2> QED
    BY <1>4, <2>2 DEF RowsInv, Stage
<1>8. CASE ~Messenger
  <2>1. Loaded => Loaded'
    BY <1>1, <1>5, <1>6, <1>8 DEF Loaded, Same
  <2>2. (Away => Away') /\ (Unnamed => Unnamed') /\ (Asking => Asking') /\ (Listing => Listing')
    BY <1>1, <1>5 DEF Away, Unnamed, Asking, Listing
  <2>3. (Filling => Filling') /\ ~Requesting /\ ~Again
    BY <1>1, <1>5, <1>6, <1>8 DEF Filling, Requesting, Again
  <2>4. (Ready => Ready') /\ (Taking => Taking')
    BY <1>1, <1>5, <2>1 DEF Ready, Taking
  <2> QED
    BY <1>4, <2>2, <2>3, <2>4 DEF RowsInv, Stage
<1> QED
  BY <1>7, <1>8

-----------------------------------------------------------------------------
(* Taps.                                                                   *)

\* Who taps sees what is loaded.
LEMMA TapsAreOnLoaded ==
  ASSUME Given, RowsInv, NEW i, CanTap(i)
  PROVE  /\ Ready /\ reload = FALSE /\ shown = FirstRows
         /\ i \in 1..Len(listed) /\ Len(shown) = Len(listed) /\ Len(listed) <= Len(uids)
         /\ shown[i] = uids[i] /\ shown[i] \in People /\ 1 \in 1..MaxList /\ Len(shown) \in 1..MaxList
<1>1. onScreen = TRUE /\ touch = TRUE /\ reload = FALSE /\ i \in DOMAIN shown /\ ~IsNext("users")
  BY DEF CanTap, Given, Usual, RowsInv, RowsTyped
<1>2. ~Again
  BY <1>1, OneCall, KindsDiffer DEF Again, IsNext, RowsInv, RowsTyped
<1>3. Ready
  BY <1>1, <1>2 DEF RowsInv, Stage, Away, Unnamed, Asking, Listing, Requesting, Filling, Taking, Busy
<1>4. shown = FirstRows /\ Len(FirstRows) = Len(listed) /\ Len(listed) <= Len(uids)
  BY <1>1, <1>3 DEF Ready, Loaded, Same
<1>5. /\ listed \in Seq(People) /\ uids \in Seq(People) /\ Len(listed) <= MaxList /\ MaxList \in Nat
      /\ Len(listed) \in Nat /\ Len(uids) \in Nat
  BY DEF RowsInv, RowsTyped, Given
<1>6. DOMAIN FirstRows = 1..Len(listed) /\ \A j \in 1..Len(listed) : FirstRows[j] = uids[j] /\ uids[j] \in People
  BY <1>4, <1>5 DEF FirstRows
<1>7. i \in 1..Len(listed) /\ Len(shown) = Len(listed)
  BY <1>1, <1>4, <1>6
<1>8. shown[i] = uids[i] /\ shown[i] \in People
  BY <1>4, <1>6, <1>7
<1>9. 1 \in 1..MaxList /\ Len(shown) \in 1..MaxList
  BY <1>5, <1>7
<1> QED
  BY <1>1, <1>3, <1>4, <1>7, <1>8, <1>9

LEMMA ChatKeepsRows ==
  ASSUME Given, RowsInv, NEW i, OpenChat(i)
  PROVE  RowsInv'
<1>1. Ready /\ reload = FALSE /\ i \in 1..Len(listed) /\ Len(listed) <= Len(uids)
  BY TapsAreOnLoaded DEF OpenChat
<1>2. shown[i] = uids[i] /\ shown[i] \in People /\ Len(shown) \in 1..MaxList
  BY TapsAreOnLoaded DEF OpenChat
<1>3. i <= Len(uids) /\ i <= Len(names)
  BY <1>1 DEF RowsInv, RowsTyped
<1>4. /\ acted' = [shown |-> shown[i], person |-> uids[i], rows |-> Len(shown)] /\ onScreen' = FALSE
      /\ UNCHANGED <<page, named, list, reads, listed, names, uids, touch, reload, shown, appearances, trapped>>
  BY <1>3 DEF OpenChat, arrays, screen
<1>5. RowsTyped'
  BY <1>4 DEF RowsInv, RowsTyped
<1>6. ActedRight'
  BY <1>2, <1>4 DEF ActedRight
<1>7. Away'
  BY <1>1, <1>4 DEF Away, Ready
<1> QED
  BY <1>5, <1>6, <1>7 DEF RowsInv, Stage

LEMMA TapKeepsRows ==
  ASSUME Given, RowsInv, NEW i, AnswerRequest(i)
  PROVE  RowsInv'
<1>1. Ready /\ reload = FALSE /\ i \in 1..Len(listed)
  BY TapsAreOnLoaded DEF AnswerRequest
<1>2. /\ page = "requests" /\ touch' = FALSE /\ reads' = Append(reads, Takes(i))
      /\ UNCHANGED <<page, named, list, onScreen, listed, names, uids, reload, shown, acted, appearances, trapped>>
  BY DEF AnswerRequest, TouchesWhileLoading, Takes, arrays
<1>3. RowsTyped' /\ ActedRight'
  BY <1>2, ActedStays DEF RowsInv, RowsTyped
<1>4. reads' = <<Takes(i)>>
  BY <1>1, <1>2, OneCall DEF Ready
<1>5. Loaded' /\ Busy' /\ named' = TRUE /\ ~Messenger'
  BY <1>1, <1>2 DEF Ready, Loaded, Current, FirstRows, Same, Busy, Messenger
<1>6. i \in DOMAIN listed'
  BY <1>1, <1>2 DEF RowsInv, RowsTyped
<1>7. Taking'
  BY <1>4, <1>5, <1>6 DEF Taking
<1> QED
  BY <1>3, <1>7 DEF RowsInv, Stage

\* The request at the place of the row is still on the list.
LEMMA TakeKeepsRows ==
  ASSUME Given, RowsInv, AnswerTake
  PROVE  RowsInv'
<1>1. Taking
  BY FirstCalls DEF RowsInv, AnswerTake
<1>2. PICK i \in DOMAIN listed : reads = <<Takes(i)>>
  BY <1>1 DEF Taking
<1>3. Head(reads).row = i /\ Tail(reads) = <<>>
  BY <1>2, OneCall, KindsDiffer
<1>4. /\ ~Messenger /\ Current /\ Busy /\ named = TRUE /\ shown = FirstRows /\ Same(shown, listed)
      /\ Len(listed) <= Len(uids)
  BY <1>1 DEF Taking, Loaded, Busy
<1>5. /\ listed \in Seq(People) /\ list \in Seq(People) /\ shown \in Seq(People) /\ Len(listed) <= MaxList
      /\ MaxList \in Nat /\ Len(listed) \in Nat /\ DOMAIN listed = 1..Len(listed) /\ IsInjective(list)
      /\ DOMAIN shown = 1..Len(shown)
  BY DEF RowsInv, RowsTyped, Given
<1>6. i \in 1..Len(listed) /\ Len(shown) = Len(listed)
  BY <1>4, <1>5 DEF Same
<1>7. listed[i] \in ToSet(listed) /\ listed[i] \in ToSet(list) /\ listed[i] \in People
  BY <1>4, <1>5 DEF Current, ToSet
<1>8. /\ acted' = [shown |-> shown[i], person |-> listed[i], rows |-> Len(shown)]
      /\ list' = RemoveFirst(list, listed[i]) /\ trapped' = trapped
  <2>1. ToSet(list) = ToSet(list)
    BY DEF ToSet
  <2>2. i <= Len(listed)
    BY <1>5, <1>6
  <2> QED
    BY <1>3, <1>7, <2>1, <2>2 DEF AnswerTake
<1>9. /\ reads' = <<>> \o <<Read("list")>>
      /\ UNCHANGED <<page, named, onScreen, listed, names, uids, touch, reload, shown, appearances>>
  BY <1>3 DEF AnswerTake, FollowedBy, arrays, screen
<1>10. list' \in Seq(People) /\ Len(list') <= Len(list) /\ IsInjective(list')
  BY <1>5, <1>7, <1>8, TakenFrom
<1>11. Len(list') <= MaxList
  BY <1>5, <1>10 DEF RowsInv, RowsTyped
<1>12. RowsTyped'
  BY <1>8, <1>9, <1>10, <1>11 DEF RowsInv, RowsTyped
<1>13. ActedRight'
  <2>1. shown[i] \in People /\ Len(shown) \in 1..MaxList
    BY <1>5, <1>6
  <2>2. Len(shown) = 1 => shown[i] = listed[i]
    <3> SUFFICES ASSUME Len(shown) = 1 PROVE shown[i] = listed[i]
      OBVIOUS
    <3>1. shown[i] \in ToSet(shown) /\ ToSet(shown) = ToSet(listed)
      BY <1>4, <1>5, <1>6 DEF ToSet, Same
    <3>2. PICK j \in DOMAIN listed : shown[i] = listed[j]
      BY <3>1 DEF ToSet
    <3>3. Len(listed) = 1 /\ j \in 1..Len(listed)
      BY <1>5, <1>6, <3>2
    <3>4. j = 1 /\ i = 1
      BY <1>6, <3>3
    <3> QED
      BY <3>2, <3>4
  <2>3. page' = "requests"
    BY <1>4, <1>9 DEF RowsInv, RowsTyped, Given, Messenger
  <2> HIDE DEF Same
  <2>4. Len(shown) > 1 \/ Len(shown) = 1
    BY <2>1, <1>5
  <2> QED
    BY <1>7, <1>8, <2>1, <2>2, <2>3, <2>4 DEF ActedRight
<1>14. reads' = <<Read("list")>>
  BY <1>9
<1>15. Busy' /\ named' = TRUE /\ Lists' = <<Read("list")>>
  BY <1>4, <1>9 DEF Busy, Messenger, Lists
<1>16. Listing'
  BY <1>14, <1>15 DEF Listing
<1> QED
  BY <1>12, <1>13, <1>16 DEF RowsInv, Stage

LEMMA RowsKept == Given /\ RowsInv /\ [PageNext]_pageVars => RowsInv'
<1> SUFFICES ASSUME Given, RowsInv, [PageNext]_pageVars PROVE RowsInv'
  OBVIOUS
<1>1. CASE Loads
  BY <1>1, NameKeepsRows, ListKeepsRows, RequestsKeepRows, UsersKeepRows, TakeKeepsRows, LayoutKeepsRows
     DEF Loads
<1>2. CASE PageAppears \/ LeavePage
  BY <1>2, AppearKeepsRows, LeaveKeepsRows
<1>3. CASE \E p \in People : Grow(p)
  BY <1>3, GrowKeepsRows
<1>4. CASE \E i \in DOMAIN shown : OpenChat(i) \/ AnswerRequest(i)
  BY <1>4, ChatKeepsRows, TapKeepsRows
<1>5. CASE UNCHANGED pageVars
  <2>1. UNCHANGED <<page, named, list, reads, onScreen, listed, names, uids, touch, reload, shown, acted, appearances, trapped>>
    BY <1>5 DEF pageVars, arrays, screen
  <2>2. /\ RowsTyped' = RowsTyped /\ ActedRight' = ActedRight /\ Busy' = Busy /\ Current' = Current
        /\ Loaded' = Loaded /\ Messenger' = Messenger
    BY <2>1 DEF RowsTyped, ActedRight, Nothing, Busy, Current, Loaded, FirstRows, Same, Messenger
  <2>3. /\ Away' = Away /\ Unnamed' = Unnamed /\ Asking' = Asking /\ Listing' = Listing
        /\ Requesting' = Requesting /\ Filling' = Filling
    BY <2>1, <2>2 DEF Away, Unnamed, Asking, Listing, Lists, Requesting, Filling
  <2>4. Again' = Again /\ Ready' = Ready /\ Taking' = Taking
    BY <2>1, <2>2 DEF Again, Same, Ready, Taking
  <2> QED
    BY <2>2, <2>3, <2>4 DEF RowsInv, Stage
<1> QED
  BY <1>1, <1>2, <1>3, <1>4, <1>5 DEF PageNext

LEMMA RowsStart == Given /\ PageInit => RowsInv
<1> SUFFICES ASSUME Given, PageInit PROVE RowsInv
  OBVIOUS
<1>1. Away /\ ActedRight
  BY DEF PageInit, Away, ActedRight
<1>2. <<>> \in Seq(People) /\ Len(<<>>) = 0 /\ IsInjective(<<>>)
  BY DEF IsInjective
<1>3. /\ list = <<>> /\ listed = <<>> /\ names = <<>> /\ uids = <<>> /\ shown = <<>>
      /\ page \in Pages /\ named \in BOOLEAN /\ onScreen = FALSE /\ touch = TRUE /\ reload = FALSE
      /\ trapped = FALSE /\ appearances = 0
  BY DEF PageInit
<1>4. 0 <= MaxList /\ 0 <= 2 * MaxList /\ 0 \in 0..MaxAppearances
  BY DEF Given
<1>5. RowsTyped
  BY <1>2, <1>3, <1>4, Zenon DEF RowsTyped
<1> QED
  BY <1>1, <1>5 DEF RowsInv, Stage

LEMMA RowsInvSuffices == Given /\ RowsInv => RowsAreRight /\ AllAreShown
<1> SUFFICES ASSUME Given, RowsInv PROVE RowsAreRight /\ AllAreShown
  OBVIOUS
<1> DEFINE C == [kind : Kinds, row : 0..MaxList]
<1>1. /\ Read("name") \in C /\ Read("list") \in C /\ Read("requests") \in C
      /\ Read("users") \in C /\ \A i \in DOMAIN listed : Takes(i) \in C
  <2>1. 0 \in 0..MaxList /\ \A i \in DOMAIN listed : i \in 0..MaxList
    BY DEF RowsInv, RowsTyped, Given
  <2> QED
    BY <2>1 DEF Read, Takes, Kinds
<1> HIDE DEF C
<1>2. reads \in Seq(C)
  <2>1. <<>> \in Seq(C) /\ \A a, b \in C : <<a>> \in Seq(C) /\ <<a, b>> \in Seq(C)
    OBVIOUS
  <2>2. Away \/ Unnamed \/ Ready => reads \in Seq(C)
    BY <2>1 DEF Away, Unnamed, Ready
  <2>3. Asking \/ Again \/ Taking => reads \in Seq(C)
    BY <1>1, <2>1 DEF Asking, Again, Taking
  <2>4. Listing \/ Requesting => reads \in Seq(C)
    BY <1>1, <2>1 DEF Listing, Lists, Requesting
  <2>5. Filling => reads \in Seq(C)
    BY <1>1, <2>1 DEF Filling
  <2> QED
    BY <2>2, <2>3, <2>4, <2>5 DEF RowsInv, Stage
<1>3. acted \in [shown : People, person : People, rows : 1..MaxList] \cup {Nothing}
  BY DEF RowsInv, ActedRight
<1>4. PageTypeOK
  BY <1>2, <1>3 DEF PageTypeOK, RowsInv, RowsTyped, C
<1>5. RowActsOnPersonShown
  BY DEF RowsInv, ActedRight, RowActsOnPersonShown, Nothing
<1>6. NeverTraps
  BY DEF RowsInv, RowsTyped, NeverTraps
<1>7. AllAreShown
  <2> SUFFICES ASSUME onScreen, named, reads = <<>>, ~reload
               PROVE  /\ Len(shown) = Len(listed) /\ ToSet(shown) = ToSet(listed)
                      /\ page = "messenger" => listed = list
    BY DEF AllAreShown, ToSet
  <2>1. Ready
    BY OneCall, TwoCalls DEF RowsInv, Stage, Away, Unnamed, Asking, Listing, Lists, Requesting, Filling, Again, Taking
  <2> QED
    BY <2>1 DEF Ready, Loaded, Same, Current, Messenger
<1> QED
  BY <1>4, <1>5, <1>6, <1>7 DEF RowsAreRight

\* For any people, any length of the lists and any number of visits: as long as
\* people wait for the page, have names, and are on a list once, no row is drawn
\* or tapped without the arrays behind it, and a tap in Messenger is about the
\* person it names (MessengerViewController and RequestViewController, whose rows
\* are counted by one read and worded by another).
THEOREM RowsStayRight ==
  ASSUME Usual
  PROVE  PageSpec => []RowsAreRight
<1>1. PageInit => RowsInv
  BY GivenIs, RowsStart
<1>2. RowsInv /\ [PageNext]_pageVars => RowsInv'
  BY GivenIs, RowsKept
<1>3. RowsInv => RowsAreRight
  BY GivenIs, RowsInvSuffices
<1> QED
  BY <1>1, <1>2, <1>3, PTL DEF PageSpec

\* Under the same conditions, a table that is loaded shows everybody on the list,
\* once, although Messenger fills its arrays twice at every appearance.
THEOREM EverybodyIsShown ==
  ASSUME Usual
  PROVE  PageSpec => []AllAreShown
<1>1. PageInit => RowsInv
  BY GivenIs, RowsStart
<1>2. RowsInv /\ [PageNext]_pageVars => RowsInv'
  BY GivenIs, RowsKept
<1>3. RowsInv => AllAreShown
  BY GivenIs, RowsInvSuffices
<1> QED
  BY <1>1, <1>2, <1>3, PTL DEF PageSpec
=============================================================================
