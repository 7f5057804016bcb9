---------------------------- MODULE GameSession ----------------------------
(***************************************************************************)
(* One game of chess as GameViewController and SwiftChess play it.         *)
(*                                                                         *)
(* Two threads of control act on the same Game object:                     *)
(*   - the main thread: touches, castle buttons, the promotion chooser,    *)
(*     alerts, the timer that asks the AI for a move, and the block the    *)
(*     AI's search posts when it has moved;                                *)
(*   - background blocks, one for each AIPlayer.makeMoveAsync(), which     *)
(*     read the board, choose a move and write it into the same board.     *)
(*                                                                         *)
(* The rules of chess are abstracted to what this control flow asks of     *)
(* the board: whether a colour can move, is mated or is stuck; whether it  *)
(* can castle; and whether its king is on the board.  "white" is always a  *)
(* Human; "black" is a Human or the AI.                                    *)
(***************************************************************************)
EXTENDS Integers, FiniteSets

CONSTANTS
  VersusAI,            \* TRUE: "Player vs AI"; FALSE: "Player vs Player"
  Tasks,               \* slots for makeMoveSync() blocks in flight
  MaxTimers,           \* a bound on pending timers, so that runs are finite
  CastleBesideChooser  \* players do use the part of a castle button that
                       \* sticks out from under the promotion chooser

ASSUME ModesAreBoolean == VersusAI \in BOOLEAN /\ CastleBesideChooser \in BOOLEAN
ASSUME RoomForATimer == MaxTimers \in Nat \ {0}

VARIABLES
  board,          \* Game.board, abstracted
  state,          \* Game.state
  currentPlayer,  \* the colour of Game.currentPlayer
  selected,       \* the colour of the piece at selectedIndex, or None
  promotion,      \* the pawn waiting in the promotion chooser
  chooserMade,    \* promotionSelectionViewController # nil (keeps the screen)
  timers,         \* perform(tellAIToTakeGo, afterDelay: 1) not yet fired
  task,           \* the background blocks
  castleShown,    \* the colour whose castle buttons are visible, or None
  alert,          \* the alert on screen; a colour c is "Checkmate! c wins!"
  onScreen,       \* the game is the top of the navigation stack
  recorded,       \* the winner written to the game history, or None
  warned,         \* "Warning - Wrong player took turn" was printed
  crash           \* the trap that stopped the program, or "no"

game   == <<board, state, currentPlayer>>
screen == <<selected, castleShown, alert, onScreen>>
chooser == <<promotion, chooserMade>>
search == <<timers, task>>
vars == <<game, screen, chooser, search, recorded, warned, crash>>

-----------------------------------------------------------------------------
None == "none"
Colors == {"white", "black"}
Opposite == [c \in Colors |-> IF c = "white" THEN "black" ELSE "white"]
AI == "black"
IsAI(c) == VersusAI /\ c = AI

InProgress == [kind |-> "inProgress", color |-> None]
Won   == [c \in Colors |-> [kind |-> "won", color |-> c]]
Stale == [c \in Colors |-> [kind |-> "staleMate", color |-> c]]
States == {InProgress} \cup {Won[c] : c \in Colors} \cup {Stale[c] : c \in Colors}

(***************************************************************************)
(* Boards.  verdict[c] is "free" when c has a legal move, "mated" when     *)
(* isColorInCheckMate(c), "stuck" when isColorInStalemate(c).  castle      *)
(* holds the colours canColorCastle() is true for; rights, those whose     *)
(* king and a rook never moved; kings, those whose king is on the board.   *)
(***************************************************************************)
Boards ==
  {b \in [verdict : [Colors -> {"free", "mated", "stuck"}],
          castle : SUBSET Colors, rights : SUBSET Colors, kings : SUBSET Colors] :
     /\ b.castle \subseteq b.rights
     /\ b.rights \subseteq b.kings
     /\ \A c \in b.castle : b.verdict[c] = "free"
     /\ \A c \in Colors \ b.kings : b.verdict[c] # "mated"}

NewGame == [verdict |-> [c \in Colors |-> "free"],
            castle |-> {}, rights |-> Colors, kings |-> Colors]

\* The boards a legal move of colour c leads to.  It captures no king, gives
\* no castling right back and does not leave c in check.
AfterMove(c, b) ==
  {n \in Boards : n.kings = b.kings /\ n.rights \subseteq b.rights
                  /\ n.verdict[c] # "mated"}

AfterCastle(c, b) == {n \in AfterMove(c, b) : c \notin n.rights}

\* A move chosen before another piece changed its type, or before other moves:
\* it may leave its own king in check, or take the king on its target square.
AfterStaleMove(b, since) ==
  {n \in Boards : /\ n.rights \subseteq b.rights
                  /\ n.kings \subseteq b.kings
                  /\ Cardinality(b.kings \ n.kings) <= IF since = "moves" THEN 1 ELSE 0}

\* The piece at the promotion square changes its type.  When the pawn has
\* been taken, the piece there belongs to the opponent, and may be its king.
AfterTransform(c, b, pawn) ==
  {n \in Boards :
     IF pawn = "there"
       THEN /\ n.kings = b.kings
            /\ n.rights = b.rights
            /\ n.verdict[c] = "mated" => b.verdict[c] = "mated"
       ELSE /\ n.rights \subseteq b.rights
            /\ b.kings \ {Opposite[c]} \subseteq n.kings
            /\ n.kings \subseteq b.kings}

-----------------------------------------------------------------------------
(* Lifetimes.  The game is owned by the screen and by running searches;    *)
(* the screen by the navigation stack, by timers waiting to fire, and,     *)
(* once a pawn was promoted, by the chooser it never lets go of.           *)

ScreenAlive == onScreen \/ timers > 0 \/ chooserMade

\* Mutant: Player.game is not weak, so an idle AI player keeps its game.
HoldingWhenIdle == {"idle", "thinking", "promoting", "posted"}

Holding == {"thinking", "promoting", "posted"}
GameAlive == ScreenAlive \/ \E t \in Tasks : task[t].pc \in Holding

\* A block: where it is, what others did to the board since it copied it to
\* search, and the copy it promotes its pawn on.
At(pc, copy) == [pc |-> pc, since |-> "nothing", copy |-> copy]
Idle == At("idle", NewGame)

\* Others see the board change under their feet.
Disturbed(how) ==
  [t \in Tasks |->
     IF task[t].pc = "thinking" /\ task[t].since # "moves"
       THEN [task[t] EXCEPT !.since = how] ELSE task[t]]

\* UIKit drops a presentation while another alert is up, or off screen.
Present(a) == alert' = IF onScreen /\ alert = None THEN a ELSE alert

\* Mutant: the mover is tested for mate, not its opponent.
VerdictOnMover(c, b) == b.verdict[c]

\* What the board says of the opponent of c, whose turn it is.
Verdict(c, b) == b.verdict[Opposite[c]]

\* Mutant: a change of player forgets the AI.
TimersWithoutAI(next) == timers

\* gameDidChangeCurrentPlayer asks the AI for its move in a second.
TimersAfter(next) == IF IsAI(next) THEN timers + 1 ELSE timers

\* Game.playerDidMakeMove: player p reports that board b holds its move.
\* The caller leaves the outcome on the board and in the list of tasks.
PlayerDidMakeMove(p, b) ==
  LET c == currentPlayer
      next == Opposite[p]
  IN
  /\ warned' = (warned \/ p # c)
  /\ \/ /\ Verdict(c, b) = "mated"
        /\ state' = Won[c]
        /\ IF ScreenAlive THEN Present(c) ELSE UNCHANGED alert
        /\ UNCHANGED <<currentPlayer, selected, castleShown, timers>>
     \/ /\ Verdict(c, b) = "stuck"
        /\ state' = Stale[Opposite[c]]
        /\ IF ScreenAlive THEN Present("stalemate") ELSE UNCHANGED alert
        /\ UNCHANGED <<currentPlayer, selected, castleShown, timers>>
     \/ /\ Verdict(c, b) = "free"
        /\ currentPlayer' = next
        /\ UNCHANGED <<state, alert>>
        /\ IF ScreenAlive
             THEN /\ selected' = None
                  /\ IsAI(next) => timers < MaxTimers
                  /\ timers' = TimersAfter(next)
                  /\ castleShown' = IF ~IsAI(next) /\ next \in b.castle
                                      THEN next ELSE None
             ELSE UNCHANGED <<selected, castleShown, timers>>

-----------------------------------------------------------------------------
(* The main thread: the person at the screen.                              *)

Touchable == onScreen /\ alert = None

\* Mutant: the board takes touches while the chooser is up.
BoardTouchableUnderChooser == Touchable /\ ~IsAI(currentPlayer)

\* Mutant: the board takes touches in the AI's turn.
BoardTouchableInAITurn == Touchable /\ promotion.color = None

\* The board view takes touches, and the player to move is a Human.
BoardTouchable == Touchable /\ promotion.color = None /\ ~IsAI(currentPlayer)

\* touchedSquareAtIndex on a piece of the player's own.
SelectPiece ==
  /\ BoardTouchable
  /\ selected' = currentPlayer
  /\ UNCHANGED <<game, castleShown, alert, onScreen, chooser, search,
                 recorded, warned, crash>>

\* touchedSquareAtIndex on the selected square.
DeselectPiece ==
  /\ BoardTouchable
  /\ selected # None
  /\ selected' = None
  /\ UNCHANGED <<game, castleShown, alert, onScreen, chooser, search,
                 recorded, warned, crash>>

\* Human.movePiece throws playerMustMoveOutOfCheck or cannotMoveInToCheck.
RefusedMove ==
  /\ BoardTouchable
  /\ selected = currentPlayer
  /\ state = InProgress
  /\ currentPlayer \in board.kings
  /\ Present("illegal")
  /\ UNCHANGED <<game, selected, castleShown, onScreen, chooser, search,
                 recorded, warned, crash>>

\* Mutant: movePiece does not look at the game's state.
MayMoveInAnyState ==
  /\ BoardTouchable
  /\ selected = currentPlayer
  /\ board.verdict[currentPlayer] = "free"

\* The guards of Human.movePiece; the touch is on a square it accepts.
MayMove ==
  /\ BoardTouchable
  /\ selected = currentPlayer
  /\ state = InProgress
  /\ board.verdict[currentPlayer] = "free"

\* Human.movePiece without a promotion: the move is complete.
MovePiece ==
  /\ MayMove
  /\ board' \in AfterMove(currentPlayer, board)
  /\ task' = Disturbed("moves")
  /\ PlayerDidMakeMove(currentPlayer, board')
  /\ UNCHANGED <<onScreen, chooser, recorded, crash>>

\* Human.movePiece with a promotion: the board has moved, and the rest of the
\* turn waits in the chooser's callback.
MovePawnToLastRank ==
  /\ MayMove
  /\ board' \in AfterMove(currentPlayer, board)
  /\ task' = Disturbed("moves")
  /\ promotion' = [color |-> currentPlayer, pawn |-> "there"]
  /\ chooserMade' = TRUE
  /\ UNCHANGED <<state, currentPlayer, screen, timers, recorded, warned, crash>>

\* PromotionSelectionViewController.buttonPressed and the callbacks it runs.
ChoosePromotion ==
  /\ Touchable
  /\ promotion.color # None
  /\ board' \in AfterTransform(promotion.color, board, promotion.pawn)
  /\ task' = Disturbed("transform")
  /\ promotion' = [color |-> None, pawn |-> "there"]
  /\ PlayerDidMakeMove(promotion.color, board')
  /\ UNCHANGED <<onScreen, chooserMade, recorded, crash>>

\* Human.performCastleMove, from a castle button.  Unlike movePiece it does
\* not look at Game.state.
PerformCastle ==
  /\ Touchable
  /\ castleShown # None
  /\ promotion.color = None \/ CastleBesideChooser
  /\ ~IsAI(currentPlayer)
  /\ currentPlayer \in board.castle
  /\ board' \in AfterCastle(currentPlayer, board)
  /\ task' = Disturbed("moves")
  /\ PlayerDidMakeMove(currentPlayer, board')
  /\ UNCHANGED <<onScreen, chooser, recorded, crash>>

\* didTap (white) and, between two people, didTapAI (black).
InstanceWin(c) ==
  /\ Touchable
  /\ promotion.color = None
  /\ c = "white" \/ ~VersusAI
  /\ Present(c)
  /\ UNCHANGED <<game, selected, castleShown, onScreen, chooser, search,
                 recorded, warned, crash>>

\* didTapStopGame.  The button sticks out from under the chooser.
StopGame ==
  /\ Touchable
  /\ Present("stop")
  /\ UNCHANGED <<game, selected, castleShown, onScreen, chooser, search,
                 recorded, warned, crash>>

\* Mutant: the two messages are mixed up.
WinnerMixedUp(a) == IF a = "black" THEN "white" ELSE "black"

\* What the history says of the message of a checkmate.
WinnerInMessage(a) == IF a = "black" THEN "black" ELSE "white"

\* Mutant: every alert offers "Cancel".
AlwaysOffersCancel(a) == TRUE

\* A checkmate offers no "Cancel".
OffersCancel(a) == a \notin Colors

\* "Ok" of showAlert, and "Stop": every one of them leaves the game.
ConfirmAlert ==
  /\ onScreen
  /\ alert # None
  /\ recorded' = IF alert \in Colors THEN WinnerInMessage(alert) ELSE recorded
  /\ onScreen' = FALSE
  /\ alert' = None
  /\ UNCHANGED <<game, selected, castleShown, chooser, search, warned, crash>>

\* "Cancel".
CancelAlert ==
  /\ onScreen
  /\ alert # None
  /\ OffersCancel(alert)
  /\ alert' = None
  /\ UNCHANGED <<game, selected, castleShown, onScreen, chooser, search,
                 recorded, warned, crash>>

-----------------------------------------------------------------------------
(* The AI: a timer on the main thread, a block in the background, and a    *)
(* block back on the main thread.                                          *)

\* A pending timer fires.
TimerFires == timers > 0 /\ timers' = timers - 1

\* tellAIToTakeGo, a second after the turn passed to the AI.
TellAIToTakeGo ==
  /\ TimerFires
  /\ IF IsAI(currentPlayer)
       THEN \E t \in Tasks : /\ task[t].pc = "idle"
                             /\ task' = [task EXCEPT ![t] = At("queued", NewGame)]
       ELSE UNCHANGED task
  /\ UNCHANGED <<game, screen, chooser, recorded, warned, crash>>

\* makeMoveSync up to the copy of the board it searches.
StartSearch(t) ==
  /\ task[t].pc = "queued"
  /\ task' = [task EXCEPT ![t] = IF GameAlive /\ state = InProgress
                                   THEN At("thinking", NewGame) ELSE Idle]
  /\ UNCHANGED <<game, screen, chooser, timers, recorded, warned, crash>>

\* A move is found and written into game.board; a pawn it brought to the last
\* rank is still a pawn, to be promoted on a copy of the board.
SearchMoves(t) ==
  /\ task[t].pc = "thinking"
  /\ IF task[t].since = "nothing"
       THEN /\ board.verdict[AI] = "free"
            /\ board.kings = Colors
            /\ board' \in AfterMove(AI, board)
       ELSE board' \in AfterStaleMove(board, task[t].since)
  /\ \E pawn \in BOOLEAN :
       task' = [Disturbed("moves") EXCEPT
                  ![t] = IF pawn THEN At("promoting", board') ELSE At("applied", NewGame)]
  /\ promotion' \in IF promotion.color = None THEN {promotion}
                    ELSE {promotion, [promotion EXCEPT !.pawn = "taken"]}
  /\ UNCHANGED <<state, currentPlayer, screen, chooserMade, timers,
                 recorded, warned, crash>>

\* The search traps: there is no move to take the first of, a rater finds no
\* king, or the chosen piece is gone from its square.
SearchTraps(t) ==
  /\ task[t].pc = "thinking"
  /\ \/ /\ task[t].since = "moves" \/ board.verdict[AI] # "free"
        /\ crash' = "noMove"
     \/ /\ board.kings # Colors
        /\ task[t].since # "nothing" \/ board.verdict[AI] = "free"
        /\ crash' = "noKing"
     \/ /\ task[t].since = "moves"
        /\ crash' = "noPiece"
  /\ UNCHANGED <<game, screen, chooser, search, recorded, warned>>

\* game.board = promotePawns(on: game.board): the copy is changed and written
\* back over whatever was done to the board in the meantime.
SearchPromotes(t) ==
  /\ task[t].pc = "promoting"
  /\ board' \in AfterTransform(AI, task[t].copy, "there")
  /\ task' = [Disturbed("moves") EXCEPT ![t] = At("applied", NewGame)]
  /\ UNCHANGED <<state, currentPlayer, screen, chooser, timers,
                 recorded, warned, crash>>

\* let strongGame = self.game!, then the block for the main queue.
PostMove(t) ==
  /\ task[t].pc = "applied"
  /\ task' = [task EXCEPT ![t] = At("posted", NewGame)]
  /\ UNCHANGED <<game, screen, chooser, timers, recorded, warned, crash>>

\* The search's own reference ended with its last use of the game, so nobody
\* may own the game any more when self.game is read again.
PostTraps(t) ==
  /\ task[t].pc = "applied"
  /\ ~GameAlive
  /\ crash' = "noGame"
  /\ UNCHANGED <<game, screen, chooser, search, recorded, warned>>

\* The posted block runs on the main thread.
ReportMove(t) ==
  /\ task[t].pc = "posted"
  /\ task' = [task EXCEPT ![t] = Idle]
  /\ PlayerDidMakeMove(AI, board)
  /\ UNCHANGED <<board, onScreen, chooser, recorded, crash>>

-----------------------------------------------------------------------------
Person ==
  \/ SelectPiece \/ DeselectPiece \/ RefusedMove
  \/ MovePiece \/ MovePawnToLastRank \/ ChoosePromotion \/ PerformCastle
  \/ \E c \in Colors : InstanceWin(c)
  \/ StopGame \/ ConfirmAlert \/ CancelAlert

Search(t) ==
  \/ StartSearch(t) \/ SearchMoves(t) \/ SearchTraps(t) \/ SearchPromotes(t)
  \/ PostMove(t) \/ PostTraps(t) \/ ReportMove(t)

Next ==
  /\ crash = "no"
  /\ \/ Person
     \/ TellAIToTakeGo
     \/ \E t \in Tasks : Search(t)

Init ==
  /\ board = NewGame
  /\ state = InProgress
  /\ currentPlayer = "white"
  /\ selected = None
  /\ promotion = [color |-> None, pawn |-> "there"]
  /\ chooserMade = FALSE
  /\ timers = 0
  /\ task = [t \in Tasks |-> Idle]
  /\ castleShown = None
  /\ alert = None
  /\ onScreen = TRUE
  /\ recorded = None
  /\ warned = FALSE
  /\ crash = "no"

Spec == Init /\ [][Next]_vars

\* Timers fire, and queued blocks run.  Nobody at the screen has to do anything.
Fairness == /\ WF_vars(crash = "no" /\ TellAIToTakeGo)
            /\ \A t \in Tasks : WF_vars(crash = "no" /\ Search(t))
LiveSpec == Spec /\ Fairness

-----------------------------------------------------------------------------
(* Properties.                                                             *)

\* Every variable has a value of its Swift type, as abstracted here.
TypeOK ==
  /\ board \in Boards
  /\ state \in States
  /\ currentPlayer \in Colors
  /\ selected \in Colors \cup {None}
  /\ promotion \in [color : Colors \cup {None}, pawn : {"there", "taken"}]
  /\ chooserMade \in BOOLEAN
  /\ timers \in Nat
  /\ task \in [Tasks -> [pc : {"idle", "queued", "thinking", "promoting",
                                "applied", "posted"},
                         since : {"nothing", "transform", "moves"}, copy : Boards]]
  /\ castleShown \in Colors \cup {None}
  /\ alert \in Colors \cup {None, "stop", "illegal", "stalemate"}
  /\ onScreen \in BOOLEAN
  /\ recorded \in Colors \cup {None}
  /\ warned \in BOOLEAN
  /\ crash \in {"no", "noMove", "noKing", "noPiece", "noGame"}

Busy(t) == task[t].pc # "idle"

\* The AI is asked for one move at a time: there is one timer or one search,
\* never two, and only on the AI's turn, with no promotion half done.  The
\* background block may then write the board without a lock (AIPlayer:77, 86).
OneSearchOnItsTurn ==
  /\ timers <= 1
  /\ timers = 1 => \A t \in Tasks : ~Busy(t)
  /\ \A t, u \in Tasks : Busy(t) /\ Busy(u) => t = u
  /\ (timers = 1 \/ \E t \in Tasks : Busy(t)) =>
        IsAI(currentPlayer) /\ promotion.color = None

\* Why that is so when nobody castles beside the chooser: the inductive
\* invariant behind the properties below.
Searching(t) == task[t].pc \in {"thinking", "promoting", "applied", "posted"}

SessionInv ==
  /\ OneSearchOnItsTurn
  /\ ~warned
  /\ board.kings = Colors
  /\ crash \in {"no", "noGame"}
  /\ crash = "noGame" => ~onScreen
  \* a promotion is part of the current player's turn, and nobody takes the pawn
  /\ promotion.color # None =>
       /\ promotion.color = currentPlayer /\ ~IsAI(currentPlayer)
       /\ promotion.pawn = "there"
       /\ state = InProgress
  \* a search sees the board it copied, and has a move to find
  /\ \A t \in Tasks : /\ Searching(t) => state = InProgress
                      /\ task[t].since = "nothing"
                      /\ task[t].copy.kings = Colors
  /\ (timers = 1 \/ \E t \in Tasks : task[t].pc \in {"queued", "thinking"})
       /\ state = InProgress => board.verdict[AI] = "free"
  \* after a person's win there is nothing to touch but the alert
  /\ \A c \in Colors : state = Won[c] /\ onScreen =>
                         IsAI(currentPlayer) \/ alert \in Colors

\* "This shouldn't happen": a player reports a move in the other one's turn.
RightPlayerTakesTurn == ~warned

\* "This should never happen": the AI searches a position with no move in it.
\* (A castling move beside the chooser gets there; no run checks this.)
SearchFindsMove == crash # "noMove"

\* "Kings should always exist": no king leaves the board.
KingsExist == board.kings = Colors

\* The only trap left is the search reading a game that is gone, and it takes
\* somebody who left the game while the AI was moving.
TrapsOnlyAfterLeaving == crash # "no" => crash = "noGame" /\ ~onScreen

\* Nobody plays on in a game that was won: not by castling, which does not
\* look at the game's state, nor by a move that was under way.
WonIsFinal == [][\A c \in Colors : state = Won[c] => state' = Won[c]]_vars

\* The winner that goes into the history is the one on the board, unless the
\* AI's checkmate came while another alert was up and was never shown.
RecordAgreesWithBoard ==
  \A c \in Colors : recorded # None /\ state = Won[c] => recorded = c \/ IsAI(c)

\* The AI's turn is never forgotten, whatever else is under way: a timer or a
\* search is there to end it.
AITurnIsPending ==
  IsAI(currentPlayer) /\ state = InProgress /\ onScreen =>
    timers > 0 \/ \E t \in Tasks : Busy(t)

\* The AI's turn ends while the game is on screen: a timer, a block in the
\* background and one on the main thread are enough.
AITurnEnds ==
  (IsAI(currentPlayer) /\ state = InProgress) ~>
     (~IsAI(currentPlayer) \/ state # InProgress \/ ~onScreen \/ crash # "no")

\* A game that was left is released, unless the promotion chooser keeps it.
LeftGameIsReleased == (~onScreen /\ ~chooserMade) ~> ~GameAlive

\* What every player may rely on: TurnGame, where a turn is half done while a
\* pawn waits for its piece or the search's move waits to be reported.
HalfDone == \/ promotion.color # None
            \/ \E t \in Tasks : task[t].pc \in {"promoting", "applied", "posted"}
Turns == INSTANCE TurnGame WITH Positions <- Boards, turn <- currentPlayer,
                                result <- state, half <- HalfDone
PlaysInTurns == Turns!Spec
=============================================================================
