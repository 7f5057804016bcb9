---------------------------- MODULE ChessBoard -----------------------------
(***************************************************************************)
(* SwiftChess's board: moves, check, mate, en passant, castling and        *)
(* promotion, square by square as Board, PieceMovement, Player and Game    *)
(* work them out.                                                          *)
(*                                                                         *)
(* A board is a function from the occupied squares, numbered as            *)
(* BoardLocation.index numbers them, to pieces.  Each piece carries two    *)
(* flags that the rules are read off: hasMoved, and enPassant              *)
(* (canBeTakenByEnPassant).  Tags, and the copy of its location that a     *)
(* piece keeps, are left out.  A promotion is one step with the move that  *)
(* leads to it; what may come in between is GameSession's.                 *)
(***************************************************************************)
EXTENDS Integers

CONSTANTS
  Starts,     \* boards to start from: whose turn it is, and how many moves
              \* of the bound are gone
  MaxMoves    \* a bound: how many moves are played

VARIABLES
  board,      \* Game.board
  turn,       \* the colour of Game.currentPlayer
  state,      \* Game.state: inProgress, won (by currentPlayer) or staleMate
  moves       \* how many moves were played

vars == <<board, turn, state, moves>>

-----------------------------------------------------------------------------
Colors == {"white", "black"}
Sides == {"kingSide", "queenSide"}
Promotions == {"queen", "knight", "rook", "bishop"}
Types == Promotions \cup {"pawn", "king"}
All == 0..63
Opposite(c) == IF c = "white" THEN "black" ELSE "white"

Piece(type, color) ==
  [type |-> type, color |-> color, hasMoved |-> FALSE, enPassant |-> FALSE]
Has(b, l, type, color) == l \in DOMAIN b /\ b[l].type = type /\ b[l].color = color

\* BoardLocation.  Squares are counted through from one row to the next, so
\* that a step over the edge comes in again on the other side.
X(l) == l % 8
Y(l) == l \div 8
At(x, y) == x + 8 * y
Incremented(l, stride) == l + stride[1] + 8 * stride[2]
CanIncrement(l, stride) == X(l) + stride[1] \in 0..7 /\ Y(l) + stride[2] \in 0..7

Direction(n) == IF n < 0 THEN -1 ELSE IF n > 0 THEN 1 ELSE 0

-----------------------------------------------------------------------------
(* PieceMovement: where a piece can go, whatever becomes of its king.      *)

StraightStrides == {<<0, -1>>, <<0, 1>>, <<-1, 0>>, <<1, 0>>}
DiagonalStrides == {<<1, -1>>, <<-1, -1>>, <<1, 1>>, <<-1, 1>>}
KnightOffsets == {<<1, 2>>, <<2, 1>>, <<2, -1>>, <<-2, 1>>,
                  <<-1, -2>>, <<-2, -1>>, <<1, -2>>, <<-1, 2>>}
KingOffsets == StraightStrides \cup DiagonalStrides

NotAKing(b, l) == l \in DOMAIN b => b[l].type # "king"
NotItsOwn(b, from, to) == to \in DOMAIN b => b[to].color # b[from].color

\* canPieceMove(from:to:board:stride:): the first piece met on the way by
\* stride stands on the target, and is the opponent's.
CanSlide(b, from, to, stride) ==
  LET step(k) == from + k * (stride[1] + 8 * stride[2])
  IN  /\ Direction(stride[1]) = Direction(X(to) - X(from))
      /\ Direction(stride[2]) = Direction(Y(to) - Y(from))
      /\ NotAKing(b, to) /\ NotItsOwn(b, from, to)
      /\ \E n \in 1..7 :
           /\ step(n) = to
           /\ \A k \in 0..(n - 1) : CanIncrement(step(k), stride)
           /\ \A k \in 1..(n - 1) : step(k) \notin DOMAIN b

CanSlideStraight(b, from, to) ==
  /\ X(from) = X(to) \/ Y(from) = Y(to)
  /\ \E stride \in StraightStrides : CanSlide(b, from, to, stride)

CanSlideDiagonally(b, from, to) ==
  /\ (from + Y(from)) % 2 = (to + Y(to)) % 2
  /\ \E stride \in DiagonalStrides : CanSlide(b, from, to, stride)

\* Mutant: a step over the edge is one to the other side.
StaysOnTheBoard(from, to, offset) == to \in All

\* A square is in bounds, and its row and column are those of the offset.
DoesNotWrap(from, to, offset) ==
  to \in All /\ X(to) - X(from) = offset[1] /\ Y(to) - Y(from) = offset[2]

CanJump(b, from, to, offsets) ==
  /\ NotAKing(b, to)
  /\ \E offset \in offsets :
       /\ to = Incremented(from, offset)
       /\ DoesNotWrap(from, to, offset) /\ NotItsOwn(b, from, to)

Forward(c) == IF c = "white" THEN 1 ELSE -1
PawnRow(c) == IF c = "white" THEN 1 ELSE 6
TwoAheadRow(c) == IF c = "white" THEN 3 ELSE 4

\* A pawn of the opponent stands beside the pawn on l and may be taken.
PassesBeside(b, l, dx, c) ==
  LET beside == Incremented(l, <<dx, 0>>)
  IN  beside \in DOMAIN b /\ b[beside].enPassant /\ b[beside].color = Opposite(c)

PawnCanMove(b, from, to) ==
  LET c == b[from].color
      ahead == Incremented(from, <<0, Forward(c)>>)
  IN  /\ Y(to) # (IF c = "white" THEN 0 ELSE 7)
      /\ NotAKing(b, to)
      /\ \/ /\ CanIncrement(from, <<0, Forward(c)>>)
            /\ to = ahead /\ ahead \notin DOMAIN b
         \/ /\ Y(from) = PawnRow(c) /\ ahead \notin DOMAIN b
            /\ to = Incremented(from, <<0, 2 * Forward(c)>>) /\ to \notin DOMAIN b
         \/ \E dx \in {-1, 1} :
              /\ CanIncrement(from, <<dx, Forward(c)>>)
              /\ to = Incremented(from, <<dx, Forward(c)>>)
              /\ (to \in DOMAIN b /\ b[to].color = Opposite(c)) \/ PassesBeside(b, from, dx, c)

\* canPieceMove(from:to:board:)
CanPieceMove(b, from, to) ==
  /\ from # to
  /\ CASE b[from].type = "pawn"   -> PawnCanMove(b, from, to)
       [] b[from].type = "rook"   -> CanSlideStraight(b, from, to)
       [] b[from].type = "bishop" -> CanSlideDiagonally(b, from, to)
       [] b[from].type = "queen"  -> CanSlideStraight(b, from, to)
                                       \/ CanSlideDiagonally(b, from, to)
       [] b[from].type = "knight" -> CanJump(b, from, to, KnightOffsets)
       [] b[from].type = "king"   -> CanJump(b, from, to, KingOffsets)

-----------------------------------------------------------------------------
(* Board: what a move does, and what it may not do.                        *)

\* Mutant: the flags of earlier moves stay.
FlagsStay(b, moving, from, to) ==
  [l \in DOMAIN b |-> [b[l] EXCEPT !.enPassant =
     @ \/ (l = to /\ moving.type = "pawn" /\ Y(from) = PawnRow(moving.color)
                  /\ Y(to) = TwoAheadRow(moving.color))]]

\* Only a pawn that has just moved two ahead may be taken en passant.
Flagged(b, moving, from, to) ==
  [l \in DOMAIN b |-> [b[l] EXCEPT !.enPassant =
     l = to /\ moving.type = "pawn" /\ Y(from) = PawnRow(moving.color)
            /\ Y(to) = TwoAheadRow(moving.color)]]

\* Mutant: a piece that has moved counts as one that has not.
Unmarked(piece) == piece

Marked(piece) == [piece EXCEPT !.hasMoved = TRUE]

\* Board.movePiece, which also takes a pawn en passant.
MovePiece(b, from, to) ==
  LET moving == b[from]
      moved == [l \in (DOMAIN b \ {from}) \cup {to} |->
                  IF l = to THEN Marked(moving) ELSE b[l]]
      dx == X(to) - X(from)
      taken == IF moving.type = "pawn" /\ PassesBeside(moved, from, dx, moving.color)
                 THEN {Incremented(from, <<dx, 0>>)} ELSE {}
  IN  Flagged([l \in DOMAIN moved \ taken |-> moved[l]], moving, from, to)

Locations(b, c) == {l \in DOMAIN b : b[l].color = c}

\* isColorInCheck: the king is looked at as if it were a pawn, since pieces
\* do not take kings.  Without a king there is no check.
IsColorInCheck(b, c) ==
  \E k \in All :
    /\ Has(b, k, "king", c)
    /\ LET noKing == [b EXCEPT ![k] = Piece("pawn", c)]
       IN  \E l \in Locations(b, Opposite(c)) : CanPieceMove(noKing, l, k)

\* isColorAbleToMove; also the loop of isColorInCheckMate.
IsColorAbleToMove(b, c) ==
  \E l \in Locations(b, c) : \E t \in All :
    CanPieceMove(b, l, t) /\ ~IsColorInCheck(MovePiece(b, l, t), c)

IsColorInCheckMate(b, c) == IsColorInCheck(b, c) /\ ~IsColorAbleToMove(b, c)
IsColorInStalemate(b, c) == ~IsColorAbleToMove(b, c) /\ ~IsColorInCheckMate(b, c)

\* CastleMove.
YPos(c) == IF c = "white" THEN 0 ELSE 7
KingStart(c) == At(4, YPos(c))
RookStart(c, side) == At(IF side = "kingSide" THEN 7 ELSE 0, YPos(c))
KingEnd(c, side) == At(IF side = "kingSide" THEN 6 ELSE 2, YPos(c))
RookEnd(c, side) == At(IF side = "kingSide" THEN 5 ELSE 3, YPos(c))

\* Mutant: castling out of check.
InCheckOrNot(b, c) == TRUE

NotInCheck(b, c) == ~IsColorInCheck(b, c)

\* canColorCastle.  Nobody asks whose rook it is.
CanColorCastle(b, c, side) ==
  LET king == KingStart(c)
      rook == RookStart(c, side)
      between == {l \in All : (king < l /\ l < rook) \/ (rook < l /\ l < king)}
      steps == {l \in All \ {king} : (king <= l /\ l <= KingEnd(c, side))
                                        \/ (KingEnd(c, side) <= l /\ l <= king)}
  IN  /\ {king, rook} \subseteq DOMAIN b
      /\ b[king].type = "king" /\ b[rook].type = "rook"
      /\ ~b[king].hasMoved /\ ~b[rook].hasMoved
      /\ between \cap DOMAIN b = {}
      /\ NotInCheck(b, c)
      /\ \A l \in steps : ~IsColorInCheck(MovePiece(b, king, l), c)

\* performCastle
PerformCastle(b, c, side) ==
  MovePiece(MovePiece(b, KingStart(c), KingEnd(c, side)), RookStart(c, side), RookEnd(c, side))

LastRow(c) == IF c = "white" THEN 7 ELSE 0
PromotablePawns(b, c) == {l \in All : Y(l) = LastRow(c) /\ Has(b, l, "pawn", c)}

\* byChangingType and setPiece: the piece there is made anew.
Promoted(b, l, type) == [b EXCEPT ![l] = Piece(type, b[l].color)]

Pieces == [type : Types, color : Colors, hasMoved : BOOLEAN, enPassant : BOOLEAN]

\* Board.getKing: "there should always be a king for each color on the board".
OneKing(b, c) == \E k \in All : \A l \in All : Has(b, l, "king", c) <=> l = k

BoardOK(b) ==
  /\ DOMAIN b \subseteq All
  /\ b \in [DOMAIN b -> Pieces]
  /\ \A c \in Colors : OneKing(b, c)
  /\ \A l \in DOMAIN b : b[l].enPassant => b[l].type = "pawn"
  /\ \A l, m \in DOMAIN b : b[l].enPassant /\ b[m].enPassant => l = m

ASSUME SomeMoves == MaxMoves \in Nat
ASSUME StartsAreBoards ==
  \A start \in Starts :
    BoardOK(start.board) /\ start.turn \in Colors /\ start.moves \in 0..MaxMoves

\* As in a new game, no pawn has just passed another, none waits to be promoted,
\* a king that has not moved is at home, and nobody could take one.
ASSUME StartsAreFair ==
  \A start \in Starts :
    /\ ~IsColorInCheck(start.board, Opposite(start.turn))
    /\ \A l \in DOMAIN start.board :
         LET piece == start.board[l]
         IN  /\ ~piece.enPassant
             /\ piece.type = "pawn" => Y(l) # LastRow(piece.color)
             /\ piece.type = "king" /\ ~piece.hasMoved => l = KingStart(piece.color)

-----------------------------------------------------------------------------
(* Player and Game.                                                        *)

\* Board.setupForNewGame
NewGame ==
  LET officers == <<"rook", "knight", "bishop", "queen", "king", "bishop", "knight", "rook">>
      color(l) == IF l < 16 THEN "white" ELSE "black"
  IN  [l \in 0..15 \cup 48..63 |->
         Piece(IF Y(l) \in {1, 6} THEN "pawn" ELSE officers[X(l) + 1], color(l))]

\* Player.canMovePiece
CanMovePiece(b, c, from, to) ==
  /\ from # to
  /\ from \in DOMAIN b /\ b[from].color = c
  /\ CanPieceMove(b, from, to)
  /\ ~IsColorInCheck(MovePiece(b, from, to), c)

\* Mutant: a stuck opponent is a beaten one.
StuckIsBeaten(b, c) == ~IsColorAbleToMove(b, c)

Beaten(b, c) == IsColorInCheckMate(b, c)

\* Game.playerDidMakeMove
PlayerDidMakeMove ==
  /\ state' = CASE Beaten(board', Opposite(turn)) -> "won"
                [] IsColorInStalemate(board', Opposite(turn)) -> "staleMate"
                [] OTHER -> "inProgress"
  /\ turn' = IF state' = "inProgress" THEN Opposite(turn) ELSE turn
  /\ moves' = moves + 1

\* Human.movePiece and AIPlayer.makeMoveSync, with the promotion.
Move(from, to) ==
  /\ CanMovePiece(board, turn, from, to)
  /\ LET moved == MovePiece(board, from, to)
         pawns == PromotablePawns(moved, turn)
     IN  \/ pawns = {} /\ board' = moved
         \/ \E l \in pawns, type \in Promotions : board' = Promoted(moved, l, type)
  /\ PlayerDidMakeMove

\* Human.performCastleMove, and the AI's castling.
Castle(side) ==
  /\ CanColorCastle(board, turn, side)
  /\ board' = PerformCastle(board, turn, side)
  /\ PlayerDidMakeMove

Next ==
  /\ state = "inProgress" /\ moves < MaxMoves
  /\ (\E from \in DOMAIN board, to \in All : Move(from, to)) \/ \E side \in Sides : Castle(side)

Init ==
  /\ \E start \in Starts : board = start.board /\ turn = start.turn
                             /\ moves = start.moves
  /\ state = "inProgress"

Spec == Init /\ [][Next]_vars

-----------------------------------------------------------------------------
(* Properties.                                                             *)

\* What the rules see of a board.
Seen == [l \in DOMAIN board |-> [type |-> board[l].type, color |-> board[l].color]]

RightsOf(b) == {r \in Colors \X Sides :
                  /\ Has(b, KingStart(r[1]), "king", r[1])
                  /\ Has(b, RookStart(r[1], r[2]), "rook", r[1])
                  /\ ~b[KingStart(r[1])].hasMoved /\ ~b[RookStart(r[1], r[2])].hasMoved}
Rights == RightsOf(board)

Passing == IF \E l \in DOMAIN board : board[l].enPassant
             THEN LET l == CHOOSE l \in DOMAIN board : board[l].enPassant
                  IN  Incremented(l, <<0, -Forward(board[l].color)>>)
             ELSE -1

Rules == INSTANCE Chess WITH
  squares <- Seen, turn <- turn, rights <- Rights, passing <- Passing,
  outcome <- state, moves <- moves

\* What GameSession sees of a board.
VerdictOf(b, c) ==
  CASE IsColorInCheckMate(b, c) -> "mated"
    [] IsColorInStalemate(b, c) -> "stuck"
    [] OTHER -> "free"

Abstracted(b) ==
  [verdict |-> [c \in Colors |-> VerdictOf(b, c)],
   castle |-> {c \in Colors : \E side \in Sides : CanColorCastle(b, c, side)},
   rights |-> {r[1] : r \in RightsOf(b)},
   kings |-> {c \in Colors : \E l \in All : Has(b, l, "king", c)}]

\* GameSession, for its AfterMove alone.
Session == INSTANCE GameSession WITH
  VersusAI <- FALSE, Tasks <- {}, MaxTimers <- 1, CastleBesideChooser <- FALSE,
  board <- Abstracted(board), state <- state, currentPlayer <- turn, selected <- "none",
  promotion <- "none", chooserMade <- FALSE, timers <- 0, task <- <<>>,
  castleShown <- "none", alert <- "none", onScreen <- TRUE, recorded <- "none",
  warned <- FALSE, crash <- "no"

\* Pieces of their type on the board; one king each; at most one pawn that may
\* be taken en passant, and pawns only.
TypeOK ==
  /\ BoardOK(board)
  /\ turn \in Colors
  /\ state \in {"inProgress", "won", "staleMate"}
  /\ moves \in 0..MaxMoves

\* Whatever the flags and the counting of squares, players may make exactly the
\* moves that the rules allow: none is missing, and none leaves the king in
\* check or goes over an edge.
MovesAreTheRules ==
  state = "inProgress" =>
    \A from \in DOMAIN board, to \in All :
      CanMovePiece(board, turn, from, to) <=>
        board[from].color = turn /\ Rules!Legal(Seen, Passing, from, to)

\* Castling is allowed exactly by right: although nobody asks whose rook it is,
\* or whether it is a promoted one that counts as never moved.
CastlingIsByRight ==
  \A side \in Sides :
    CanColorCastle(board, turn, side) <=> Rules!MayCastle(Seen, Rights, turn, side)

\* What GameSession takes for granted of a move, and its results rest on: it
\* takes no king, gives no castling right back, and does not mate its own side;
\* and who can castle has the right to, a king, and a move.
MovesAreAsAssumed ==
  [][Abstracted(board') \in Session!AfterMove(turn, Abstracted(board))]_board

\* Every game is a game of chess: moves do what the rules say, rights get lost,
\* pawns are taken in passing only at once, and games are won and stuck rightly.
IsChess == Rules!Spec
=============================================================================
