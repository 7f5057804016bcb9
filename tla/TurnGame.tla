------------------------------ MODULE TurnGame ------------------------------
(***************************************************************************)
(* What a game promises its players, whoever they are (people touching the *)
(* board, or a search running on another thread): the players move in      *)
(* turn, each turn changes the board for one move and is completed once,   *)
(* and a game that has been won stays won.                                 *)
(*                                                                         *)
(* A turn may be half done: the board already shows the move, but the game *)
(* has not been told of it yet (the player still picks the piece a pawn    *)
(* becomes, or the search still has to report to the main thread).  No     *)
(* other move may start in between.                                        *)
(***************************************************************************)
CONSTANTS Colors, Opposite, Positions, InProgress, Won, Stale

VARIABLES
  board,    \* the position
  turn,     \* whose turn it is
  result,   \* in progress, won by a colour, or stalemate of a colour
  half      \* the move of this turn is on the board but not completed

vars == <<board, turn, result, half>>

\* The move of this turn is completed: the game ends, or the turn passes.
Complete ==
  /\ half' = FALSE
  /\ \/ turn' = Opposite[turn] /\ result' = result
     \/ turn' = turn /\ result' = Won[turn]
     \/ turn' = turn /\ result' = Stale[Opposite[turn]]

\* A move is put on the board, and completed at once or later.
Move ==
  /\ ~half
  /\ result = InProgress
  /\ board' \in Positions
  /\ \/ Complete
     \/ half' = TRUE /\ UNCHANGED <<turn, result>>

\* The rest of a half-done move: a pawn may still change into another piece.
Finish ==
  /\ half
  /\ board' \in Positions
  /\ \/ Complete
     \/ half' = TRUE /\ UNCHANGED <<turn, result>>

\* A stalemate is an end the code does not enforce on castling moves.
CastleAfterStalemate ==
  /\ ~half
  /\ \E c \in Colors : result = Stale[c]
  /\ board' \in Positions
  /\ Complete

Next == Move \/ Finish \/ CastleAfterStalemate

Init ==
  /\ board \in Positions
  /\ turn \in Colors
  /\ result = InProgress
  /\ half = FALSE

Spec == Init /\ [][Next]_vars
=============================================================================
