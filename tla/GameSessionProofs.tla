------------------------- MODULE GameSessionProofs -------------------------
(***************************************************************************)
(* What holds of every game session, for any number of search blocks: the  *)
(* types, that an AI's turn is never forgotten, and, when nobody castles   *)
(* beside the promotion chooser, that there is one search at a time, that  *)
(* the right player takes the turn, that only leaving the game can trap    *)
(* and that a won game stays won.                                          *)
(***************************************************************************)
EXTENDS GameSession, TLAPS

-----------------------------------------------------------------------------
(* Facts about the operators.                                              *)

LEMMA OppositeType == \A c \in Colors : Opposite[c] \in Colors /\ Opposite[c] # c
  BY DEF Opposite, Colors

LEMMA NewGameIsABoard == NewGame \in Boards
  BY DEF NewGame, Boards, Colors

LEMMA MovesStayOnBoards ==
  ASSUME NEW c, NEW b, NEW how, NEW n,
         \/ n \in AfterMove(c, b) \/ n \in AfterCastle(c, b)
         \/ n \in AfterStaleMove(b, how) \/ n \in AfterTransform(c, b, how)
  PROVE  n \in Boards
  BY DEF AfterMove, AfterCastle, AfterStaleMove, AfterTransform

LEMMA ColorsAreNotNone == None \notin Colors
  BY DEF None, Colors

LEMMA AIIsBlack == AI \in Colors /\ (\A c : IsAI(c) => c = AI)
  BY DEF AI, Colors, IsAI

Pcs == {"idle", "queued", "thinking", "promoting", "applied", "posted"}
Sinces == {"nothing", "transform", "moves"}
TaskType == [pc : Pcs, since : Sinces, copy : Boards]

LEMMA AtType ==
  ASSUME NEW pc \in Pcs, NEW copy \in Boards
  PROVE  At(pc, copy) \in TaskType
  BY DEF At, TaskType, Sinces

LEMMA IdleType == Idle \in TaskType
  BY AtType, NewGameIsABoard DEF Idle, Pcs

LEMMA DisturbedType ==
  ASSUME task \in [Tasks -> TaskType], NEW how \in {"transform", "moves"}
  PROVE  Disturbed(how) \in [Tasks -> TaskType]
  BY DEF Disturbed, TaskType, Sinces

\* What playerDidMakeMove changes keeps its type.
LEMMA ReportType ==
  ASSUME TypeOK, NEW p \in Colors, NEW b \in Boards, PlayerDidMakeMove(p, b)
  PROVE  /\ state' \in States
         /\ currentPlayer' \in Colors
         /\ selected' \in Colors \cup {None}
         /\ timers' \in Nat
         /\ castleShown' \in Colors \cup {None}
         /\ alert' \in Colors \cup {None, "stop", "illegal", "stalemate"}
         /\ warned' \in BOOLEAN
<1>1. Opposite[p] \in Colors /\ Opposite[currentPlayer] \in Colors
  BY OppositeType DEF TypeOK
<1>2. Won[currentPlayer] \in States /\ Stale[Opposite[currentPlayer]] \in States
  BY <1>1 DEF TypeOK, States
<1>3. timers + 1 \in Nat
  BY DEF TypeOK
<1>4. QED
  BY <1>1, <1>2, <1>3 DEF PlayerDidMakeMove, Present, TimersAfter, TypeOK

-----------------------------------------------------------------------------
\* Every variable keeps the type TypeOK gives it, whatever the players do.
THEOREM TypeCorrect == Spec => []TypeOK
<1>1. Init => TypeOK
  <2> SUFFICES ASSUME Init PROVE TypeOK
    OBVIOUS
  <2>1. task \in [Tasks -> TaskType]
    BY IdleType DEF Init
  <2>2. promotion \in [color : Colors \cup {None}, pawn : {"there", "taken"}]
    BY DEF Init
  <2>3. QED
    BY <2>1, <2>2, NewGameIsABoard DEF Init, TypeOK, TaskType, Pcs, Sinces, States, Colors
<1>2. TypeOK /\ [Next]_vars => TypeOK'
  <2> SUFFICES ASSUME TypeOK, [Next]_vars PROVE TypeOK'
    OBVIOUS
  <2> USE DEF game, screen, chooser, search
  <2>a. task \in [Tasks -> TaskType]
    BY DEF TypeOK, TaskType, Pcs, Sinces
  <2>b. TypeOK' <=> /\ board' \in Boards /\ state' \in States
                    /\ currentPlayer' \in Colors /\ selected' \in Colors \cup {None}
                    /\ promotion' \in [color : Colors \cup {None}, pawn : {"there", "taken"}]
                    /\ chooserMade' \in BOOLEAN /\ timers' \in Nat
                    /\ task' \in [Tasks -> TaskType]
                    /\ castleShown' \in Colors \cup {None}
                    /\ alert' \in Colors \cup {None, "stop", "illegal", "stalemate"}
                    /\ onScreen' \in BOOLEAN /\ recorded' \in Colors \cup {None}
                    /\ warned' \in BOOLEAN
                    /\ crash' \in {"no", "noMove", "noKing", "noPiece", "noGame"}
    BY DEF TypeOK, TaskType, Pcs, Sinces
  <2>c. Disturbed("moves") \in [Tasks -> TaskType] /\ Disturbed("transform") \in [Tasks -> TaskType]
    BY <2>a, DisturbedType
  <2>1. CASE SelectPiece
    BY <2>1, <2>a, <2>b DEF SelectPiece, TypeOK
  <2>2. CASE DeselectPiece
    BY <2>2, <2>a, <2>b DEF DeselectPiece, TypeOK
  <2>3. CASE RefusedMove
    BY <2>3, <2>a, <2>b DEF RefusedMove, Present, TypeOK
  <2>4. CASE MovePiece
    BY <2>4, <2>b, <2>c, ReportType, MovesStayOnBoards DEF MovePiece, TypeOK
  <2>5. CASE MovePawnToLastRank
    BY <2>5, <2>b, <2>c, MovesStayOnBoards DEF MovePawnToLastRank, TypeOK
  <2>6. CASE ChoosePromotion
    <3>1. promotion.color \in Colors /\ board' \in Boards
      BY <2>6, MovesStayOnBoards DEF ChoosePromotion, TypeOK
    <3>2. QED
      BY <2>6, <3>1, <2>b, <2>c, ReportType DEF ChoosePromotion, TypeOK
  <2>7. CASE PerformCastle
    BY <2>7, <2>b, <2>c, ReportType, MovesStayOnBoards DEF PerformCastle, TypeOK
  <2>8. ASSUME NEW c \in Colors, InstanceWin(c) PROVE TypeOK'
    BY <2>8, <2>a, <2>b DEF InstanceWin, Present, TypeOK
  <2>9. CASE StopGame
    BY <2>9, <2>a, <2>b DEF StopGame, Present, TypeOK
  <2>10. CASE ConfirmAlert
    <3>1. recorded' \in Colors \cup {None}
      BY <2>10 DEF ConfirmAlert, WinnerInMessage, TypeOK, Colors
    <3>2. QED
      BY <2>10, <3>1, <2>a, <2>b DEF ConfirmAlert, TypeOK
  <2>11. CASE CancelAlert
    BY <2>11, <2>a, <2>b DEF CancelAlert, TypeOK
  <2>12. CASE TellAIToTakeGo
    <3>1. timers' \in Nat
      BY <2>12 DEF TellAIToTakeGo, TimerFires, TypeOK
    <3>2. At("queued", NewGame) \in TaskType
      BY AtType, NewGameIsABoard DEF Pcs
    <3>3. task' \in [Tasks -> TaskType]
      BY <2>12, <3>2, <2>a DEF TellAIToTakeGo
    <3>4. QED
      BY <2>12, <3>1, <3>3, <2>b DEF TellAIToTakeGo, TypeOK
  <2>13. ASSUME NEW t \in Tasks, Search(t) PROVE TypeOK'
    <3>1. /\ At("thinking", NewGame) \in TaskType
          /\ At("applied", NewGame) \in TaskType
          /\ At("posted", NewGame) \in TaskType
          /\ \A b \in Boards : At("promoting", b) \in TaskType
      BY AtType, NewGameIsABoard DEF Pcs
    <3>2. CASE StartSearch(t)
      BY <3>2, <3>1, IdleType, <2>a, <2>b DEF StartSearch, TypeOK
    <3>3. CASE SearchMoves(t)
      <4>1. board' \in Boards
        BY <3>3, MovesStayOnBoards DEF SearchMoves
      <4>2. task' \in [Tasks -> TaskType]
        BY <3>3, <4>1, <3>1, <2>c DEF SearchMoves
      <4>3. promotion' \in [color : Colors \cup {None}, pawn : {"there", "taken"}]
        BY <3>3 DEF SearchMoves, TypeOK
      <4>4. QED
        BY <3>3, <4>1, <4>2, <4>3, <2>b DEF SearchMoves, TypeOK
    <3>4. CASE SearchTraps(t)
      BY <3>4, <2>a, <2>b DEF SearchTraps, TypeOK
    <3>5. CASE SearchPromotes(t)
      <4>1. board' \in Boards
        BY <3>5, MovesStayOnBoards DEF SearchPromotes
      <4>2. QED
        BY <3>5, <4>1, <3>1, <2>b, <2>c DEF SearchPromotes, TypeOK
    <3>6. CASE PostMove(t)
      BY <3>6, <3>1, <2>a, <2>b DEF PostMove, TypeOK
    <3>7. CASE PostTraps(t)
      BY <3>7, <2>a, <2>b DEF PostTraps, TypeOK
    <3>8. CASE ReportMove(t)
      <4>1. task' \in [Tasks -> TaskType]
        BY <3>8, IdleType, <2>a DEF ReportMove
      <4>2. QED
        BY <3>8, <4>1, <2>b, ReportType, AIIsBlack DEF ReportMove, TypeOK
    <3>9. QED
      BY <2>13, <3>2, <3>3, <3>4, <3>5, <3>6, <3>7, <3>8 DEF Search
  <2>14. CASE UNCHANGED vars
    BY <2>14 DEF vars, TypeOK
  <2>15. QED
    BY <2>1, <2>2, <2>3, <2>4, <2>5, <2>6, <2>7, <2>8, <2>9, <2>10, <2>11,
       <2>12, <2>13, <2>14 DEF Next, Person
<1>3. QED
  BY <1>1, <1>2, PTL DEF Spec

-----------------------------------------------------------------------------
\* An AI's turn is never forgotten, even when players castle beside the
\* chooser: each change of player to the AI sets a timer, the timer starts a
\* search, and only the report of a search takes the search away.
THEOREM TurnNeverForgotten == Spec => []AITurnIsPending
<1>1. Init => AITurnIsPending
  BY DEF Init, AITurnIsPending, IsAI, AI
<1>2. TypeOK /\ AITurnIsPending /\ [Next]_vars => AITurnIsPending'
  <2> SUFFICES ASSUME TypeOK, AITurnIsPending, [Next]_vars,
                      IsAI(currentPlayer)', state' = InProgress, onScreen'
               PROVE  timers' > 0 \/ \E t \in Tasks : Busy(t)'
    BY DEF AITurnIsPending
  <2> USE DEF game, screen, chooser, search
  \* A report passes the turn to the AI with a timer, or ends the AI's turn.
  <2>a. ASSUME NEW p \in Colors, NEW b, PlayerDidMakeMove(p, b), onScreen
        PROVE  timers' > 0 /\ p # AI
    <3>1. Verdict(currentPlayer, b) = "free"
      BY <2>a DEF PlayerDidMakeMove, Won, Stale, InProgress, TypeOK, Colors, Opposite
    <3>2. currentPlayer' = Opposite[p] /\ timers' = TimersAfter(Opposite[p])
      BY <2>a, <3>1 DEF PlayerDidMakeMove, ScreenAlive
    <3>3. timers' = timers + 1
      BY <3>2 DEF TimersAfter, IsAI
    <3>4. p # AI
      BY <3>2, OppositeType DEF IsAI
    <3>5. QED
      BY <3>3, <3>4 DEF TypeOK
  <2>b. ASSUME currentPlayer' = currentPlayer, state' = state, onScreen,
               timers' = timers,
               \A t \in Tasks : Busy(t) => Busy(t)'
        PROVE  timers' > 0 \/ \E t \in Tasks : Busy(t)'
    BY <2>b DEF AITurnIsPending, IsAI
  <2>c. \A how : \A t \in Tasks : Disturbed(how)[t].pc = task[t].pc
    BY DEF Disturbed, TypeOK
  <2>1. CASE SelectPiece \/ DeselectPiece \/ RefusedMove \/ StopGame \/ CancelAlert
    BY <2>1, <2>b DEF SelectPiece, DeselectPiece, RefusedMove, StopGame, CancelAlert, Busy
  <2>2. CASE MovePiece
    BY <2>2, <2>a DEF MovePiece, MayMove, BoardTouchable, Touchable, TypeOK
  <2>3. CASE MovePawnToLastRank
    BY <2>3 DEF MovePawnToLastRank, MayMove, BoardTouchable, IsAI
  <2>4. CASE ChoosePromotion
    <3>1. promotion.color \in Colors
      BY <2>4 DEF ChoosePromotion, TypeOK
    <3>2. QED
      BY <2>4, <3>1, <2>a DEF ChoosePromotion, Touchable
  <2>5. CASE PerformCastle
    BY <2>5, <2>a DEF PerformCastle, Touchable, TypeOK
  <2>6. ASSUME NEW c \in Colors, InstanceWin(c)
        PROVE  timers' > 0 \/ \E t \in Tasks : Busy(t)'
    BY <2>6, <2>b DEF InstanceWin, Busy
  <2>7. CASE ConfirmAlert
    BY <2>7 DEF ConfirmAlert
  <2>8. CASE TellAIToTakeGo
    <3>1. PICK t \in Tasks : task' = [task EXCEPT ![t] = At("queued", NewGame)]
      BY <2>8 DEF TellAIToTakeGo, IsAI
    <3>2. Busy(t)'
      BY <3>1 DEF Busy, At, TypeOK
    <3>3. QED
      BY <3>2
  <2>9. ASSUME NEW t \in Tasks, Search(t)
        PROVE  timers' > 0 \/ \E u \in Tasks : Busy(u)'
    <3>1. CASE StartSearch(t)
      <4>1. task' = [task EXCEPT ![t] = At("thinking", NewGame)]
        BY <3>1 DEF StartSearch, GameAlive, ScreenAlive
      <4>2. Busy(t)'
        BY <4>1 DEF Busy, At, TypeOK
      <4>3. QED
        BY <4>2
    <3>2. CASE SearchMoves(t) \/ SearchPromotes(t)
      <4>1. \A x : [Disturbed("moves") EXCEPT ![t] = x][t] = x
        BY DEF Disturbed
      <4>2. \E copy : \E pc \in {"promoting", "applied"} :
               task' = [Disturbed("moves") EXCEPT ![t] = At(pc, copy)]
        BY <3>2 DEF SearchMoves, SearchPromotes
      <4>3. Busy(t)'
        BY <4>1, <4>2 DEF Busy, At
      <4>4. QED
        BY <4>3
    <3>3. CASE PostMove(t)
      BY <3>3 DEF PostMove, Busy, At, TypeOK
    <3>4. CASE SearchTraps(t) \/ PostTraps(t)
      BY <3>4, <2>b DEF SearchTraps, PostTraps, Busy
    <3>5. CASE ReportMove(t)
      BY <3>5, <2>a, AIIsBlack DEF ReportMove
    <3>6. QED
      BY <2>9, <3>1, <3>2, <3>3, <3>4, <3>5 DEF Search
  <2>10. CASE UNCHANGED vars
    BY <2>10, <2>b DEF vars, Busy
  <2>11. QED
    BY <2>1, <2>2, <2>3, <2>4, <2>5, <2>6, <2>7, <2>8, <2>9, <2>10 DEF Next, Person
<1>3. QED
  BY <1>1, <1>2, TypeCorrect, PTL DEF Spec

-----------------------------------------------------------------------------
(* With nobody castling beside the chooser.                                *)

LEMMA MovesKeepKings ==
  ASSUME NEW c \in Colors, NEW b \in Boards, NEW n,
         \/ n \in AfterMove(c, b) \/ n \in AfterCastle(c, b)
         \/ n \in AfterTransform(c, b, "there")
  PROVE  n \in Boards /\ n.kings = b.kings
  BY DEF AfterMove, AfterCastle, AfterTransform

LEMMA DisturbingIdleTasks ==
  ASSUME TypeOK, NEW how, NEW t \in Tasks, task[t].pc # "thinking"
  PROVE  Disturbed(how)[t] = task[t]
  BY DEF Disturbed

LEMMA StatesDiffer ==
  /\ \A c \in Colors : Won[c] # InProgress /\ Stale[c] # InProgress
  /\ \A c, d \in Colors : Won[c] # Stale[d] /\ (Won[c] = Won[d] => c = d)
  BY DEF Won, Stale, InProgress, None, Colors

\* A person completes a turn: no search is under way, and the AI is asked at
\* most once, with a move to make.
LEMMA PersonReports ==
  ASSUME TypeOK, SessionInv, NEW b \in Boards, b.kings = Colors,
         PlayerDidMakeMove(currentPlayer, b), board' = b,
         onScreen, onScreen' = onScreen, crash' = crash, crash = "no",
         timers = 0, \A t \in Tasks : ~Busy(t), task' = task,
         promotion'.color = None, alert = None,
         ~IsAI(currentPlayer), \A c \in Colors : state # Won[c]
  PROVE  SessionInv'
<1>. DEFINE o == Opposite[currentPlayer]
<1>1. o \in Colors /\ o # currentPlayer
  BY OppositeType DEF TypeOK
<1>2. ScreenAlive
  BY DEF ScreenAlive
<1>3. warned' = warned
  BY DEF PlayerDidMakeMove, TypeOK
<1>4. \A t \in Tasks : ~Busy(t)' /\ ~Searching(t)' /\ task'[t].pc \notin {"queued", "thinking"}
  BY DEF Busy, Searching
<1>5. CASE Verdict(currentPlayer, b) = "free"
  <2>1. /\ currentPlayer' = o /\ state' = state /\ alert' = alert
        /\ timers' = IF IsAI(o) THEN 1 ELSE 0
    BY <1>2, <1>5 DEF PlayerDidMakeMove, TimersAfter
  <2>2. OneSearchOnItsTurn'
    BY <2>1, <1>4 DEF OneSearchOnItsTurn, IsAI
  <2>3. timers' = 1 => board'.verdict[AI] = "free"
    BY <2>1, <1>5 DEF Verdict, IsAI
  <2>4. QED
    BY <2>1, <2>2, <2>3, <1>3, <1>4 DEF SessionInv, IsAI
<1>6. CASE Verdict(currentPlayer, b) \in {"mated", "stuck"}
  <2>1. /\ currentPlayer' = currentPlayer /\ timers' = 0
        /\ \/ state' = Won[currentPlayer] /\ alert' = currentPlayer
           \/ state' = Stale[o]
    BY <1>2, <1>6 DEF PlayerDidMakeMove, Present
  <2>2. OneSearchOnItsTurn'
    BY <2>1, <1>4 DEF OneSearchOnItsTurn
  <2>3. \A c \in Colors : state' = Won[c] => alert' \in Colors
    BY <2>1, <1>1, StatesDiffer DEF TypeOK
  <2>4. QED
    BY <2>1, <2>2, <2>3, <1>3, <1>4 DEF SessionInv
<1>7. QED
  <2>1. Verdict(currentPlayer, b) \in {"free", "mated", "stuck"}
    BY <1>1 DEF Verdict, Boards
  <2>2. QED
    BY <2>1, <1>5, <1>6

-----------------------------------------------------------------------------
(* The invariant.                                                          *)

\* On a person's turn nothing is under way, and before an alert is answered
\* a won game takes no move.
LEMMA PersonsTurn ==
  ASSUME TypeOK, SessionInv, onScreen, alert = None,
         ~IsAI(currentPlayer)
  PROVE  /\ timers = 0
         /\ \A t \in Tasks : ~Busy(t)
         /\ \A how : Disturbed(how) = task
         /\ \A c \in Colors : state # Won[c]
<1>1. timers = 0 /\ \A t \in Tasks : ~Busy(t)
  <2>1. OneSearchOnItsTurn /\ timers \in Nat
    BY DEF SessionInv, TypeOK
  <2>2. timers # 1 /\ ~ \E t \in Tasks : Busy(t)
    BY <2>1 DEF OneSearchOnItsTurn
  <2>3. timers <= 1
    BY <2>1 DEF OneSearchOnItsTurn
  <2>4. timers = 0
    BY <2>1, <2>2, <2>3, SMT
  <2>5. QED
    BY <2>2, <2>4
<1>2. \A how : Disturbed(how) = task
  <2>1. \A how : \A t \in Tasks : Disturbed(how)[t] = task[t]
    BY <1>1, DisturbingIdleTasks DEF Busy
  <2>2. \A how : Disturbed(how) = [t \in Tasks |-> task[t]]
    BY <2>1 DEF Disturbed
  <2>3. QED
    BY <2>2 DEF TypeOK
<1>3. \A c \in Colors : state # Won[c]
  BY ColorsAreNotNone DEF SessionInv
<1>4. QED
  BY <1>1, <1>2, <1>3

\* With nobody castling beside the chooser the session keeps SessionInv.
THEOREM SessionInvariant ==
  ASSUME ~CastleBesideChooser
  PROVE  Spec => []SessionInv
<1>1. Init => SessionInv
  <2> SUFFICES ASSUME Init PROVE SessionInv
    OBVIOUS
  <2>1. OneSearchOnItsTurn
    BY DEF Init, OneSearchOnItsTurn, Busy, Idle, At
  <2>2. \A t \in Tasks : /\ ~Searching(t) /\ task[t].pc = "idle"
                         /\ task[t].since = "nothing" /\ task[t].copy.kings = Colors
    BY DEF Init, Searching, Idle, At, NewGame
  <2>3. \A c \in Colors : state # Won[c]
    BY StatesDiffer DEF Init
  <2>4. QED
    BY <2>1, <2>2, <2>3 DEF Init, SessionInv, NewGame
<1>2. TypeOK /\ SessionInv /\ [Next]_vars => SessionInv'
  <2> SUFFICES ASSUME TypeOK, SessionInv, [Next]_vars PROVE SessionInv'
    OBVIOUS
  <2> USE DEF game, screen, chooser, search
  <2>1. CASE SelectPiece \/ DeselectPiece
    BY <2>1 DEF SelectPiece, DeselectPiece, SessionInv, OneSearchOnItsTurn, Busy, Searching
  <2>2. CASE RefusedMove \/ StopGame \/ CancelAlert
    <3>1. /\ UNCHANGED <<game, onScreen, chooser, search, warned, crash>>
          /\ alert \in Colors => alert' = alert
      BY <2>2, ColorsAreNotNone
      DEF RefusedMove, StopGame, CancelAlert, Present, OffersCancel
    <3>2. QED
      BY <3>1 DEF SessionInv, OneSearchOnItsTurn, Busy, Searching
  <2>3. ASSUME NEW c \in Colors, InstanceWin(c) PROVE SessionInv'
    <3>1. /\ UNCHANGED <<game, onScreen, chooser, search, warned, crash>>
          /\ alert' \in Colors
      BY <2>3 DEF InstanceWin, Present, Touchable
    <3>2. QED
      BY <3>1 DEF SessionInv, OneSearchOnItsTurn, Busy, Searching
  <2>4. CASE ConfirmAlert
    BY <2>4 DEF ConfirmAlert, SessionInv, OneSearchOnItsTurn, Busy, Searching
  <2>5. CASE MovePiece
    <3>1. board' \in Boards /\ board'.kings = Colors
      BY <2>5, MovesKeepKings DEF MovePiece, SessionInv, TypeOK
    <3>2. onScreen /\ alert = None /\ ~IsAI(currentPlayer) /\ promotion.color = None
      BY <2>5 DEF MovePiece, MayMove, BoardTouchable, Touchable
    <3>3. crash = "no"
      BY <3>2 DEF SessionInv
    <3>4. QED
      BY <2>5, <3>1, <3>2, <3>3, PersonsTurn, PersonReports DEF MovePiece
  <2>6. CASE PerformCastle
    <3>1. board' \in Boards /\ board'.kings = Colors
      BY <2>6, MovesKeepKings DEF PerformCastle, SessionInv, TypeOK
    <3>2. onScreen /\ alert = None /\ ~IsAI(currentPlayer) /\ promotion.color = None
      BY <2>6 DEF PerformCastle, Touchable
    <3>3. crash = "no"
      BY <2>6, <3>2 DEF PerformCastle, SessionInv
    <3>4. QED
      BY <2>6, <3>1, <3>2, <3>3, PersonsTurn, PersonReports DEF PerformCastle
  <2>7. CASE ChoosePromotion
    <3>1. /\ promotion.color = currentPlayer /\ promotion.pawn = "there"
          /\ state = InProgress /\ onScreen /\ alert = None /\ crash = "no"
      BY <2>7 DEF ChoosePromotion, Touchable, SessionInv
    <3>2. board' \in Boards /\ board'.kings = Colors
      BY <2>7, <3>1, MovesKeepKings DEF ChoosePromotion, SessionInv, TypeOK
    <3>3. ~IsAI(currentPlayer)
      BY <2>7 DEF ChoosePromotion, SessionInv
    <3>4. QED
      BY <2>7, <3>1, <3>2, <3>3, PersonsTurn, PersonReports DEF ChoosePromotion
  <2>8. CASE MovePawnToLastRank
    <3>1. onScreen /\ alert = None /\ ~IsAI(currentPlayer) /\ state = InProgress
      BY <2>8 DEF MovePawnToLastRank, MayMove, BoardTouchable, Touchable
    <3>2. board'.kings = Colors
      BY <2>8, MovesKeepKings DEF MovePawnToLastRank, SessionInv, TypeOK
    <3>3. task' = task /\ timers' = 0 /\ \A t \in Tasks : ~Busy(t)
      BY <2>8, <3>1, PersonsTurn DEF MovePawnToLastRank
    <3>4. OneSearchOnItsTurn'
      BY <3>3 DEF OneSearchOnItsTurn, Busy
    <3>5. QED
      BY <2>8, <3>1, <3>2, <3>3, <3>4 DEF MovePawnToLastRank, SessionInv, Busy, Searching
  <2>9. CASE TellAIToTakeGo
    <3>1. timers = 1 /\ timers' = 0 /\ IsAI(currentPlayer) /\ \A t \in Tasks : ~Busy(t)
      BY <2>9 DEF TellAIToTakeGo, TimerFires, SessionInv, OneSearchOnItsTurn, TypeOK
    <3>2. PICK t \in Tasks : task' = [task EXCEPT ![t] = At("queued", NewGame)]
      BY <2>9, <3>1 DEF TellAIToTakeGo
    <3>3. /\ \A u \in Tasks : u # t => task'[u] = task[u]
          /\ task'[t].pc = "queued" /\ task'[t].since = "nothing"
          /\ task'[t].copy.kings = Colors
      BY <3>2 DEF At, NewGame, TypeOK
    <3>4. OneSearchOnItsTurn'
      BY <2>9, <3>1, <3>3 DEF TellAIToTakeGo, OneSearchOnItsTurn, SessionInv, Busy, IsAI
    <3>5. \A u \in Tasks : Searching(u)' => Searching(u)
      BY <3>3 DEF Searching
    <3>6. QED
      BY <2>9, <3>1, <3>3, <3>4, <3>5 DEF TellAIToTakeGo, SessionInv, IsAI
  <2>10. ASSUME NEW t \in Tasks, Search(t) PROVE SessionInv'
    <3>1. /\ Busy(t) /\ timers = 0 /\ IsAI(currentPlayer) /\ promotion.color = None
          /\ \A u \in Tasks : u # t => ~Busy(u)
      <4>1. Busy(t)
        BY <2>10 DEF Search, StartSearch, SearchMoves, SearchTraps, SearchPromotes,
                     PostMove, PostTraps, ReportMove, Busy
      <4>2. QED
        BY <4>1 DEF SessionInv, OneSearchOnItsTurn, TypeOK
    <3>1a. \A pc, copy : /\ At(pc, copy).pc = pc /\ At(pc, copy).copy = copy
                         /\ At(pc, copy).since = "nothing" /\ NewGame.kings = Colors
      BY DEF At, NewGame
    \* What one step of the only search may change.
    <3>2. ASSUME NEW x, task' = [task EXCEPT ![t] = x],
                 x.pc # "idle", x.since = "nothing", x.copy.kings = Colors,
                 x.pc \in {"thinking", "promoting", "applied", "posted"} => state = InProgress,
                 x.pc \in {"queued", "thinking"} => board.verdict[AI] = "free" /\ board' = board,
                 board'.kings = Colors, promotion' = promotion,
                 UNCHANGED <<state, currentPlayer, screen, chooserMade, timers, warned, crash>>
          PROVE  SessionInv'
      <4>1. task'[t] = x /\ \A u \in Tasks : u # t => task'[u] = task[u] /\ ~Busy(u)'
        BY <3>1, <3>2 DEF TypeOK, Busy
      <4>2. OneSearchOnItsTurn'
        BY <3>1, <3>2, <4>1 DEF OneSearchOnItsTurn, IsAI
      <4>3. \A u \in Tasks : task'[u].pc # "idle" => u = t
        BY <4>1 DEF Busy
      <4>4. QED
        BY <3>1, <3>2, <4>1, <4>2, <4>3 DEF SessionInv, Searching, IsAI
    <3>3. \A x, how : [Disturbed(how) EXCEPT ![t] = x] = [task EXCEPT ![t] = x]
      <4>1. \A how : \A u \in Tasks : u # t => Disturbed(how)[u] = task[u]
        BY <3>1, DisturbingIdleTasks DEF Busy
      <4>2. \A how : /\ DOMAIN Disturbed(how) = Tasks
                     /\ Disturbed(how) = [u \in Tasks |-> Disturbed(how)[u]]
        BY DEF Disturbed
      <4>3. task = [u \in Tasks |-> task[u]]
        BY DEF TypeOK
      <4>4. QED
        BY <4>1, <4>2, <4>3
    <3>4. CASE StartSearch(t)
      <4>1. CASE GameAlive /\ state = InProgress
        <5>1. board.verdict[AI] = "free"
          BY <3>4, <4>1 DEF StartSearch, SessionInv
        <5>2. PICK x : x = At("thinking", NewGame)
          OBVIOUS
        <5>3. x.pc = "thinking" /\ x.since = "nothing" /\ x.copy.kings = Colors
          BY <3>1a, <5>2
        <5>4. task' = [task EXCEPT ![t] = x]
          BY <3>4, <4>1, <5>2 DEF StartSearch
        <5>5. board' = board /\ board'.kings = Colors
          BY <3>4 DEF StartSearch, SessionInv
        <5>6. QED
          BY <3>2, <3>4, <4>1, <5>1, <5>3, <5>4, <5>5 DEF StartSearch
      <4>2. CASE ~(GameAlive /\ state = InProgress)
        <5>1. task' = [task EXCEPT ![t] = Idle]
          BY <3>4, <4>2 DEF StartSearch
        <5>2. \A u \in Tasks : ~Busy(u)' /\ ~Searching(u)' /\ task'[u].since = "nothing"
                               /\ task'[u].copy.kings = Colors
                               /\ task'[u].pc \notin {"queued", "thinking"}
          BY <3>1, <5>1 DEF Idle, At, Busy, Searching, NewGame, TypeOK, SessionInv
        <5>3. OneSearchOnItsTurn'
          BY <3>1, <3>4, <5>2 DEF StartSearch, OneSearchOnItsTurn
        <5>4. QED
          BY <3>1, <3>4, <5>2, <5>3 DEF StartSearch, SessionInv, IsAI
      <4>3. QED
        BY <4>1, <4>2
    <3>5. CASE SearchMoves(t)
      <4>1. task[t].since = "nothing" /\ state = InProgress
        BY <3>5 DEF SearchMoves, SessionInv, Searching
      <4>2. board' \in AfterMove(AI, board) /\ board'.kings = Colors
        BY <3>5, <4>1, AIIsBlack, MovesKeepKings DEF SearchMoves, TypeOK
      <4>3. PICK x \in {At("promoting", board'), At("applied", NewGame)} :
              task' = [task EXCEPT ![t] = x]
        BY <3>3, <3>5 DEF SearchMoves
      <4>4. promotion' = promotion
        BY <3>1, <3>5 DEF SearchMoves
      <4>5. x.since = "nothing" /\ x.copy.kings = Colors /\ x.pc \in {"promoting", "applied"}
        BY <4>2 DEF At, NewGame
      <4>6. QED
        BY <3>2, <3>5, <4>1, <4>2, <4>3, <4>4, <4>5 DEF SearchMoves
    <3>6. CASE SearchTraps(t)
      <4>1. /\ task[t].since = "nothing" /\ board.kings = Colors
            /\ board.verdict[AI] = "free"
        BY <3>6 DEF SearchTraps, SessionInv, Searching
      <4>2. QED
        BY <3>6, <4>1 DEF SearchTraps
    <3>7. CASE SearchPromotes(t)
      <4>1. state = InProgress /\ task[t].copy.kings = Colors /\ task[t].copy \in Boards
        BY <3>7 DEF SearchPromotes, SessionInv, Searching, TypeOK
      <4>2. board'.kings = Colors
        BY <3>7, <4>1, AIIsBlack, MovesKeepKings DEF SearchPromotes
      <4>3. PICK x : x = At("applied", NewGame)
        OBVIOUS
      <4>4. x.pc = "applied" /\ x.since = "nothing" /\ x.copy.kings = Colors
        BY <3>1a, <4>3
      <4>5. task' = [task EXCEPT ![t] = x]
        BY <3>3, <3>7, <4>3 DEF SearchPromotes
      <4>6. QED
        BY <3>2, <3>7, <4>1, <4>2, <4>4, <4>5 DEF SearchPromotes
    <3>8. CASE PostMove(t)
      <4>1. state = InProgress
        BY <3>8 DEF PostMove, SessionInv, Searching
      <4>2. PICK x : x = At("posted", NewGame)
        OBVIOUS
      <4>3. x.pc = "posted" /\ x.since = "nothing" /\ x.copy.kings = Colors
        BY <3>1a, <4>2
      <4>4. task' = [task EXCEPT ![t] = x] /\ board'.kings = Colors
        BY <3>8, <4>2 DEF PostMove, SessionInv
      <4>5. QED
        BY <3>2, <3>8, <4>1, <4>3, <4>4 DEF PostMove
    <3>9. CASE PostTraps(t)
      BY <3>9 DEF PostTraps, GameAlive, ScreenAlive, SessionInv, OneSearchOnItsTurn,
                  Busy, Searching
    <3>10. CASE ReportMove(t)
      <4>1. state = InProgress /\ board.kings = Colors /\ currentPlayer = AI
        BY <3>1, <3>10, AIIsBlack DEF ReportMove, SessionInv, Searching
      <4>2. \A u \in Tasks : ~Busy(u)' /\ ~Searching(u)' /\ task'[u].since = "nothing"
                             /\ task'[u].copy.kings = Colors
                             /\ task'[u].pc \notin {"queued", "thinking"}
        BY <3>1, <3>10 DEF ReportMove, Idle, At, Busy, Searching, NewGame, TypeOK, SessionInv
      <4>3. /\ warned' = warned /\ timers' = 0
            /\ \/ currentPlayer' # AI /\ state' = state
               \/ currentPlayer' = currentPlayer
        <5>1. Opposite[AI] # AI
          BY OppositeType, AIIsBlack
        <5>2. TimersAfter(Opposite[AI]) = timers
          BY <5>1 DEF TimersAfter, IsAI
        <5>3. QED
          BY <3>1, <3>10, <4>1, <5>1, <5>2 DEF ReportMove, PlayerDidMakeMove, TypeOK
      <4>4. OneSearchOnItsTurn'
        BY <4>2, <4>3 DEF OneSearchOnItsTurn
      <4>5. \A c \in Colors : state' = Won[c] => IsAI(currentPlayer)'
        BY <3>1, <4>1, <4>3, StatesDiffer DEF IsAI
      <4>6. QED
        BY <3>1, <3>10, <4>1, <4>2, <4>3, <4>4, <4>5 DEF ReportMove, SessionInv, IsAI
    <3>11. QED
      BY <2>10, <3>4, <3>5, <3>6, <3>7, <3>8, <3>9, <3>10 DEF Search
  <2>11. CASE UNCHANGED vars
    BY <2>11 DEF vars, SessionInv, OneSearchOnItsTurn, Busy, Searching
  <2>12. QED
    BY <2>1, <2>2, <2>3, <2>4, <2>5, <2>6, <2>7, <2>8, <2>9, <2>10, <2>11 DEF Next, Person
<1>3. QED
  BY <1>1, <1>2, TypeCorrect, PTL DEF Spec

-----------------------------------------------------------------------------
(* What follows from it.                                                   *)

\* The AI is asked for one move at a time and only on its turn: a background
\* block writes the board without a lock, and nobody else does meanwhile.
THEOREM OneSearchAtATime ==
  ASSUME ~CastleBesideChooser
  PROVE  Spec => []OneSearchOnItsTurn
<1>1. SessionInv => OneSearchOnItsTurn
  BY DEF SessionInv
<1>2. QED
  BY <1>1, SessionInvariant, PTL

\* "Warning - Wrong player took turn" is never printed: whoever reports a move
\* to playerDidMakeMove is the current player.
THEOREM TurnsAreRight ==
  ASSUME ~CastleBesideChooser
  PROVE  Spec => []RightPlayerTakesTurn
<1>1. SessionInv => RightPlayerTakesTurn
  BY DEF SessionInv, RightPlayerTakesTurn
<1>2. QED
  BY <1>1, SessionInvariant, PTL

\* No king leaves the board, and nothing traps but a search that outlives the
\* game of somebody who has left.
THEOREM TrapsComeLate ==
  ASSUME ~CastleBesideChooser
  PROVE  Spec => [](KingsExist /\ TrapsOnlyAfterLeaving)
<1>1. SessionInv => KingsExist /\ TrapsOnlyAfterLeaving
  BY DEF SessionInv, KingsExist, TrapsOnlyAfterLeaving
<1>2. QED
  BY <1>1, SessionInvariant, PTL

\* The steps that may end or resume a game find it not won.
LEMMA WonGamesTakeNoMove ==
  ASSUME TypeOK, SessionInv, ~CastleBesideChooser,
         \/ MovePiece \/ ChoosePromotion \/ PerformCastle
         \/ \E t \in Tasks : ReportMove(t)
  PROVE  \A c \in Colors : state # Won[c]
<1>1. CASE MovePiece
  BY <1>1, StatesDiffer DEF MovePiece, MayMove
<1>2. CASE ChoosePromotion
  BY <1>2, StatesDiffer DEF ChoosePromotion, SessionInv
<1>3. CASE PerformCastle
  BY <1>3, PersonsTurn DEF PerformCastle, Touchable
<1>4. ASSUME NEW t \in Tasks, ReportMove(t) PROVE \A c \in Colors : state # Won[c]
  BY <1>4, StatesDiffer DEF ReportMove, SessionInv, Searching
<1>5. QED
  BY <1>1, <1>2, <1>3, <1>4

\* The other steps leave the state of the game alone.
LEMMA OtherStepsKeepState ==
  ASSUME [Next]_vars,
         ~MovePiece, ~ChoosePromotion, ~PerformCastle, \A t \in Tasks : ~ReportMove(t)
  PROVE  state' = state /\ currentPlayer' = currentPlayer
<1> USE DEF game
<1>1. CASE Person
  BY <1>1 DEF Person, SelectPiece, DeselectPiece, RefusedMove, MovePawnToLastRank,
              InstanceWin, StopGame, ConfirmAlert, CancelAlert
<1>2. CASE TellAIToTakeGo
  BY <1>2 DEF TellAIToTakeGo
<1>3. ASSUME NEW t \in Tasks, Search(t) PROVE state' = state /\ currentPlayer' = currentPlayer
  BY <1>3 DEF Search, StartSearch, SearchMoves, SearchTraps, SearchPromotes, PostMove, PostTraps
<1>4. CASE UNCHANGED vars
  BY <1>4 DEF vars
<1>5. QED
  BY <1>1, <1>2, <1>3, <1>4 DEF Next

\* A game that was won stays won by the same colour.
THEOREM WonStaysWon ==
  ASSUME ~CastleBesideChooser
  PROVE  Spec => WonIsFinal
<1>1. TypeOK /\ SessionInv /\ [Next]_vars =>
        [\A c \in Colors : state = Won[c] => state' = Won[c]]_vars
  BY WonGamesTakeNoMove, OtherStepsKeepState
<1>2. QED
  BY <1>1, TypeCorrect, SessionInvariant, PTL DEF Spec, WonIsFinal

-----------------------------------------------------------------------------
(* What the history says.                                                  *)

\* A person's win stays on screen until it is confirmed, and is then recorded;
\* nothing is recorded before.
WinIsTold ==
  /\ onScreen => recorded = None
  /\ \A c \in Colors : state = Won[c] /\ ~IsAI(c) =>
                         IF onScreen THEN alert = c ELSE recorded = c

\* A completed turn that wins the game for a person says so.
LEMMA WinsAreTold ==
  ASSUME TypeOK, WinIsTold, NEW b, PlayerDidMakeMove(currentPlayer, b),
         UNCHANGED <<onScreen, recorded>>,
         (onScreen /\ alert = None) \/ IsAI(currentPlayer),
         \A c \in Colors : state # Won[c]
  PROVE  WinIsTold'
<1>1. \/ state' = Won[currentPlayer] /\ (IF ScreenAlive THEN Present(currentPlayer)
                                                        ELSE UNCHANGED alert)
      \/ state' = Stale[Opposite[currentPlayer]] \/ state' = state
  BY DEF PlayerDidMakeMove
<1>2. currentPlayer \in Colors /\ Opposite[currentPlayer] \in Colors
  BY OppositeType DEF TypeOK
<1>3. ASSUME NEW c \in Colors, state' = Won[c], ~IsAI(c)
      PROVE  onScreen /\ alert' = c
  <2>1. c = currentPlayer /\ (IF ScreenAlive THEN Present(c) ELSE UNCHANGED alert)
    BY <1>1, <1>2, <1>3, StatesDiffer
  <2>2. onScreen /\ alert = None
    BY <1>3, <2>1
  <2>3. QED
    BY <2>1, <2>2 DEF ScreenAlive, Present
<1>4. QED
  BY <1>3 DEF WinIsTold, IsAI

\* The other steps at the screen cover no announcement and record it truly.
LEMMA TouchesKeepTheTale ==
  ASSUME TypeOK, WinIsTold, UNCHANGED <<state, currentPlayer>>,
         \/ SelectPiece \/ DeselectPiece \/ RefusedMove \/ MovePawnToLastRank
         \/ \E c \in Colors : InstanceWin(c)
         \/ StopGame \/ ConfirmAlert \/ CancelAlert
  PROVE  WinIsTold'
<1>1. CASE SelectPiece \/ DeselectPiece \/ MovePawnToLastRank
  BY <1>1 DEF SelectPiece, DeselectPiece, MovePawnToLastRank, screen, WinIsTold, IsAI
<1>2. CASE RefusedMove \/ StopGame \/ \E c \in Colors : InstanceWin(c)
  <2>1. UNCHANGED <<onScreen, recorded>> /\ onScreen /\ alert = None
    BY <1>2 DEF RefusedMove, StopGame, InstanceWin, BoardTouchable, Touchable
  <2>2. \A c \in Colors : state = Won[c] => IsAI(c)
    BY <2>1, ColorsAreNotNone DEF WinIsTold
  <2>3. QED
    BY <2>1, <2>2 DEF WinIsTold, IsAI
<1>3. CASE ConfirmAlert
  <2>1. onScreen /\ ~onScreen'
        /\ recorded' = IF alert \in Colors THEN WinnerInMessage(alert) ELSE recorded
    BY <1>3 DEF ConfirmAlert
  <2>2. \A c \in Colors : WinnerInMessage(c) = c
    BY DEF WinnerInMessage, Colors
  <2>3. QED
    BY <2>1, <2>2 DEF WinIsTold, IsAI
<1>4. CASE CancelAlert
  <2>1. onScreen /\ alert \notin Colors /\ UNCHANGED <<onScreen, recorded>>
    BY <1>4 DEF CancelAlert, OffersCancel
  <2>2. QED
    BY <2>1 DEF WinIsTold, IsAI
<1>5. QED
  BY <1>1, <1>2, <1>3, <1>4

LEMMA StepKeepsTheTale ==
  ASSUME TypeOK, SessionInv, WinIsTold, [Next]_vars, ~CastleBesideChooser
  PROVE  WinIsTold'
<1>1. CASE MovePiece \/ ChoosePromotion \/ PerformCastle
  <2>1. /\ onScreen /\ alert = None /\ UNCHANGED <<onScreen, recorded>>
        /\ PlayerDidMakeMove(currentPlayer, board')
    BY <1>1 DEF MovePiece, MayMove, BoardTouchable, ChoosePromotion, PerformCastle, Touchable,
                SessionInv
  <2>2. \A c \in Colors : state # Won[c]
    BY <1>1, WonGamesTakeNoMove
  <2>3. QED
    BY <2>1, <2>2, WinsAreTold
<1>2. ASSUME NEW t \in Tasks, ReportMove(t) PROVE WinIsTold'
  <2>1. PlayerDidMakeMove(AI, board) /\ UNCHANGED <<onScreen, recorded>> /\ Busy(t)
    BY <1>2 DEF ReportMove, Busy
  <2>2. IsAI(currentPlayer) /\ currentPlayer = AI
    BY <2>1, AIIsBlack DEF SessionInv, OneSearchOnItsTurn
  <2>3. \A c \in Colors : state # Won[c]
    BY <1>2, WonGamesTakeNoMove
  <2>4. QED
    BY <2>1, <2>2, <2>3, WinsAreTold
<1>3. CASE ~MovePiece /\ ~ChoosePromotion /\ ~PerformCastle /\ \A t \in Tasks : ~ReportMove(t)
  <2>1. UNCHANGED <<state, currentPlayer>>
    BY <1>3, OtherStepsKeepState
  <2>2. CASE Person
    BY <1>3, <2>1, <2>2, TouchesKeepTheTale DEF Person
  <2>3. ASSUME \/ TellAIToTakeGo \/ UNCHANGED vars \/ \E t \in Tasks : Search(t)
        PROVE  UNCHANGED <<onScreen, recorded, alert>>
    BY <1>3, <2>3 DEF vars, screen, TellAIToTakeGo, Search, StartSearch, SearchMoves,
                      SearchTraps, SearchPromotes, PostMove, PostTraps
  <2>4. QED
    BY <2>1, <2>2, <2>3 DEF Next, WinIsTold, IsAI
<1>4. QED
  BY <1>1, <1>2, <1>3

\* What goes into the history when the game is left is who has won it: showAlert
\* records the winner of the alert that is confirmed, and no other alert covers
\* that of a person's checkmate.
THEOREM HistoryIsTrue ==
  ASSUME ~CastleBesideChooser
  PROVE  Spec => []RecordAgreesWithBoard
<1>1. Init => WinIsTold
  BY StatesDiffer DEF Init, WinIsTold
<1>2. TypeOK /\ SessionInv /\ WinIsTold /\ [Next]_vars => WinIsTold'
  BY StepKeepsTheTale
<1>3. WinIsTold => RecordAgreesWithBoard
  BY DEF WinIsTold, RecordAgreesWithBoard
<1>4. QED
  BY <1>1, <1>2, <1>3, TypeCorrect, SessionInvariant, PTL DEF Spec

-----------------------------------------------------------------------------
(* The session implements TurnGame.                                        *)

\* The current player's report completes the turn.
LEMMA ReportCompletesTurn ==
  ASSUME TypeOK, NEW b \in Boards, PlayerDidMakeMove(currentPlayer, b), ~HalfDone'
  PROVE  Turns!Complete
  BY DEF PlayerDidMakeMove, Turns!Complete, HalfDone

\* When no task is past its search, a turn is half done while a pawn waits.
LEMMA HalfDoneByPromotion ==
  ASSUME \A t \in Tasks : task[t].pc \notin {"promoting", "applied", "posted"}
  PROVE  HalfDone <=> promotion.color # None
  BY DEF HalfDone

\* Every step of the session is a step of TurnGame, or none of its business.
LEMMA StepImplementsTurn ==
  ASSUME TypeOK, TypeOK', SessionInv, [Next]_vars, ~CastleBesideChooser
  PROVE  [Turns!Next]_(Turns!vars)
<1> USE DEF game, screen, chooser, search
<1>a. ASSUME UNCHANGED <<board, state, currentPlayer>>, HalfDone' <=> HalfDone
      PROVE  UNCHANGED Turns!vars
  <2>1. HalfDone' = HalfDone
    BY <1>a DEF HalfDone
  <2>2. QED
    BY <1>a, <2>1 DEF Turns!vars
<1>b. board' \in Boards
  BY DEF TypeOK
<1>1. CASE MovePiece
  <2>1. onScreen /\ alert = None /\ ~IsAI(currentPlayer) /\ promotion.color = None
        /\ state = InProgress
    BY <1>1 DEF MovePiece, MayMove, BoardTouchable, Touchable
  <2>2. task' = task /\ \A t \in Tasks : ~Busy(t)
    BY <1>1, <2>1, PersonsTurn DEF MovePiece
  <2>3. ~HalfDone /\ ~HalfDone'
    BY <1>1, <2>1, <2>2 DEF MovePiece, HalfDone, Busy
  <2>4. Turns!Complete
    BY <1>1, <1>b, <2>3, ReportCompletesTurn DEF MovePiece
  <2>5. QED
    BY <1>b, <2>1, <2>3, <2>4 DEF Turns!Next, Turns!Move
<1>2. CASE MovePawnToLastRank
  <2>1. onScreen /\ alert = None /\ ~IsAI(currentPlayer) /\ promotion.color = None
        /\ state = InProgress
    BY <1>2 DEF MovePawnToLastRank, MayMove, BoardTouchable, Touchable
  <2>2. ~HalfDone
    BY <2>1, PersonsTurn DEF HalfDone, Busy
  <2>3. HalfDone'
    <3>1. promotion'.color = currentPlayer /\ currentPlayer # None
      BY <1>2, ColorsAreNotNone DEF MovePawnToLastRank, TypeOK
    <3>2. QED
      BY <3>1 DEF HalfDone
  <2>4. HalfDone' = TRUE
    BY <2>3 DEF HalfDone
  <2>5. QED
    BY <1>2, <1>b, <2>1, <2>2, <2>4 DEF MovePawnToLastRank, Turns!Next, Turns!Move
<1>3. CASE ChoosePromotion
  <2>1. /\ promotion.color = currentPlayer /\ ~IsAI(currentPlayer)
        /\ onScreen /\ alert = None
    BY <1>3 DEF ChoosePromotion, Touchable, SessionInv
  <2>2. task' = task /\ \A t \in Tasks : ~Busy(t)
    BY <1>3, <2>1, PersonsTurn DEF ChoosePromotion
  <2>3. HalfDone /\ ~HalfDone'
    BY <1>3, <2>2 DEF ChoosePromotion, HalfDone, Busy
  <2>4. Turns!Complete
    BY <1>3, <1>b, <2>1, <2>3, ReportCompletesTurn DEF ChoosePromotion
  <2>5. QED
    BY <1>b, <2>3, <2>4 DEF Turns!Next, Turns!Finish
<1>4. CASE PerformCastle
  <2>1. onScreen /\ alert = None /\ ~IsAI(currentPlayer) /\ promotion.color = None
    BY <1>4 DEF PerformCastle, Touchable
  <2>2. task' = task /\ (\A t \in Tasks : ~Busy(t)) /\ \A c \in Colors : state # Won[c]
    BY <1>4, <2>1, PersonsTurn DEF PerformCastle
  <2>3. ~HalfDone /\ ~HalfDone'
    BY <1>4, <2>1, <2>2 DEF PerformCastle, HalfDone, Busy
  <2>4. Turns!Complete
    BY <1>4, <1>b, <2>3, ReportCompletesTurn DEF PerformCastle
  <2>5. state = InProgress \/ \E c \in Colors : state = Stale[c]
    BY <2>2 DEF TypeOK, States
  <2>6. QED
    BY <1>b, <2>3, <2>4, <2>5 DEF Turns!Next, Turns!Move, Turns!CastleAfterStalemate
<1>5. CASE SelectPiece \/ DeselectPiece \/ RefusedMove \/ StopGame \/ CancelAlert
           \/ ConfirmAlert \/ \E c \in Colors : InstanceWin(c)
  <2>1. UNCHANGED <<board, state, currentPlayer, promotion, task>>
    BY <1>5 DEF SelectPiece, DeselectPiece, RefusedMove, StopGame, CancelAlert,
                ConfirmAlert, InstanceWin
  <2>2. QED
    BY <2>1, <1>a DEF HalfDone
<1>6. CASE TellAIToTakeGo
  <2>1. \A t \in Tasks : ~Busy(t)
    BY <1>6 DEF TellAIToTakeGo, TimerFires, SessionInv, OneSearchOnItsTurn, TypeOK
  <2>2. \A t \in Tasks : task'[t].pc \in {"idle", "queued"}
    BY <1>6, <2>1 DEF TellAIToTakeGo, Busy, At, TypeOK
  <2>3. UNCHANGED <<board, state, currentPlayer, promotion>>
    BY <1>6 DEF TellAIToTakeGo
  <2>4. HalfDone' <=> HalfDone
    BY <2>1, <2>2, <2>3 DEF HalfDone, Busy
  <2>5. QED
    BY <2>3, <2>4, <1>a
<1>7. ASSUME NEW t \in Tasks, Search(t) PROVE [Turns!Next]_(Turns!vars)
  <2>1. /\ Busy(t) /\ promotion.color = None /\ IsAI(currentPlayer)
        /\ \A u \in Tasks : u # t => ~Busy(u)
    <3>1. Busy(t)
      BY <1>7 DEF Search, StartSearch, SearchMoves, SearchTraps, SearchPromotes,
                  PostMove, PostTraps, ReportMove, Busy
    <3>2. QED
      BY <3>1 DEF SessionInv, OneSearchOnItsTurn
  <2>2. HalfDone <=> task[t].pc \in {"promoting", "applied", "posted"}
    BY <2>1 DEF HalfDone, Busy
  <2>3. ASSUME promotion' = promotion, \A u \in Tasks : u # t => task'[u].pc = task[u].pc
        PROVE  HalfDone' <=> task'[t].pc \in {"promoting", "applied", "posted"}
    <3>1. \A u \in Tasks : u # t => task'[u].pc \notin {"promoting", "applied", "posted"}
      BY <2>1, <2>3 DEF Busy
    <3>2. promotion'.color = None
      BY <2>1, <2>3
    <3>3. QED
      BY <3>1, <3>2 DEF HalfDone
  <2>4. \A x : \A u \in Tasks : /\ [Disturbed("moves") EXCEPT ![t] = x][t] = x
                                /\ u # t => [Disturbed("moves") EXCEPT ![t] = x][u].pc = task[u].pc
    BY DEF Disturbed, TypeOK
  <2>5. \A x : \A u \in Tasks : /\ [task EXCEPT ![t] = x][t] = x
                                /\ u # t => [task EXCEPT ![t] = x][u] = task[u]
    BY DEF TypeOK
  <2>6. \A pc, copy : At(pc, copy).pc = pc
    BY DEF At
  <2>7. CASE StartSearch(t)
    <3>1. task'[t].pc \in {"thinking", "idle"} /\ \A u \in Tasks : u # t => task'[u] = task[u]
      BY <2>7, <2>5, <2>6 DEF StartSearch, Idle
    <3>2. UNCHANGED <<board, state, currentPlayer, promotion>> /\ task[t].pc = "queued"
      BY <2>7 DEF StartSearch
    <3>3. HalfDone' <=> HalfDone
      BY <2>2, <2>3, <3>1, <3>2
    <3>4. QED
      BY <3>2, <3>3, <1>a
  <2>8. CASE SearchMoves(t)
    <3>1. /\ task'[t].pc \in {"promoting", "applied"} /\ promotion' = promotion
          /\ \A u \in Tasks : u # t => task'[u].pc = task[u].pc
      BY <2>8, <2>1, <2>4, <2>6 DEF SearchMoves
    <3>2. HalfDone' /\ ~HalfDone
      BY <2>2, <2>3, <2>8, <3>1 DEF SearchMoves
    <3>2a. HalfDone' = TRUE
      BY <3>2 DEF HalfDone
    <3>3. state = InProgress /\ UNCHANGED <<state, currentPlayer>>
      BY <2>8 DEF SearchMoves, SessionInv, Searching
    <3>4. QED
      BY <1>b, <3>2, <3>2a, <3>3 DEF Turns!Next, Turns!Move
  <2>9. CASE SearchPromotes(t)
    <3>1. /\ task'[t].pc = "applied" /\ promotion' = promotion
          /\ \A u \in Tasks : u # t => task'[u].pc = task[u].pc
      BY <2>9, <2>4, <2>6 DEF SearchPromotes
    <3>2. HalfDone' /\ HalfDone
      BY <2>2, <2>3, <2>9, <3>1 DEF SearchPromotes
    <3>2a. HalfDone' = TRUE
      BY <3>2 DEF HalfDone
    <3>3. UNCHANGED <<state, currentPlayer>>
      BY <2>9 DEF SearchPromotes
    <3>4. QED
      BY <1>b, <3>2, <3>2a, <3>3 DEF Turns!Next, Turns!Finish
  <2>10. CASE PostMove(t)
    <3>1. task'[t].pc = "posted" /\ \A u \in Tasks : u # t => task'[u] = task[u]
      BY <2>10, <2>5, <2>6 DEF PostMove
    <3>2. UNCHANGED <<board, state, currentPlayer, promotion>> /\ task[t].pc = "applied"
      BY <2>10 DEF PostMove
    <3>3. HalfDone' <=> HalfDone
      BY <2>2, <2>3, <3>1, <3>2
    <3>4. QED
      BY <3>2, <3>3, <1>a
  <2>11. CASE SearchTraps(t) \/ PostTraps(t)
    <3>1. UNCHANGED <<board, state, currentPlayer, promotion, task>>
      BY <2>11 DEF SearchTraps, PostTraps
    <3>2. QED
      BY <3>1, <1>a DEF HalfDone
  <2>12. CASE ReportMove(t)
    <3>1. /\ task'[t].pc = "idle" /\ \A u \in Tasks : u # t => task'[u] = task[u]
          /\ promotion' = promotion /\ task[t].pc = "posted"
      BY <2>12, <2>5, <2>6 DEF ReportMove, Idle
    <3>2. HalfDone /\ ~HalfDone'
      BY <2>2, <2>3, <3>1
    <3>3. currentPlayer = AI
      BY <2>1, AIIsBlack
    <3>4. Turns!Complete
      BY <2>12, <3>2, <3>3, ReportCompletesTurn DEF ReportMove, TypeOK
    <3>5. QED
      BY <1>b, <3>2, <3>4 DEF Turns!Next, Turns!Finish
  <2>13. QED
    BY <1>7, <2>7, <2>8, <2>9, <2>10, <2>11, <2>12 DEF Search
<1>8. CASE UNCHANGED vars
  <2>1. UNCHANGED <<board, state, currentPlayer, promotion, task>>
    BY <1>8 DEF vars
  <2>2. QED
    BY <2>1, <1>a DEF HalfDone
<1>9. QED
  BY <1>1, <1>2, <1>3, <1>4, <1>5, <1>6, <1>7, <1>8 DEF Next, Person

\* To its players the session is TurnGame: moves alternate, each is completed
\* once, and none starts while another is half done.
THEOREM SessionPlaysInTurns ==
  ASSUME ~CastleBesideChooser
  PROVE  Spec => PlaysInTurns
<1>1. Init => Turns!Init
  <2> SUFFICES ASSUME Init PROVE Turns!Init
    OBVIOUS
  <2>1. HalfDone = FALSE
    BY DEF Init, HalfDone, Idle, At
  <2>2. QED
    BY <2>1, NewGameIsABoard DEF Init, Turns!Init, Colors
<1>2. TypeOK /\ TypeOK' /\ SessionInv /\ [Next]_vars => [Turns!Next]_(Turns!vars)
  BY StepImplementsTurn
<1>3. QED
  BY <1>1, <1>2, TypeCorrect, SessionInvariant, PTL DEF Spec, PlaysInTurns, Turns!Spec
=============================================================================
