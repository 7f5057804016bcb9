------------------------- MODULE ChessBoardProofs --------------------------
(***************************************************************************)
(* Theorems about ChessBoard, for every set of starts and any number of    *)
(* moves: that boards stay boards and lost rights lost; and, from how      *)
(* strides and offsets go by columns and rows, what a move leaves behind   *)
(* and an invariant of the games played, that every game is one of chess.  *)
(***************************************************************************)
EXTENDS ChessBoard, TLAPS

\* Whoever moves, an opponent's piece has the other colour.
LEMMA OppositeColor ==
  \A c \in Colors : Opposite(c) \in Colors /\ Opposite(c) # c
BY DEF Colors, Opposite

\* A move of a piece to a square without a king keeps the board well formed:
\* both kings stay, and at most one pawn may be taken en passant.
LEMMA MoveKeepsBoard ==
  ASSUME NEW b, BoardOK(b),
         NEW from \in DOMAIN b, NEW to \in All, from # to, NotAKing(b, to)
  PROVE  BoardOK(MovePiece(b, from, to))
<1> DEFINE moving == b[from]
           moved == [l \in (DOMAIN b \ {from}) \cup {to} |->
                       IF l = to THEN Marked(moving) ELSE b[l]]
           dx == X(to) - X(from)
           beside == Incremented(from, <<dx, 0>>)
           taken == IF moving.type = "pawn" /\ PassesBeside(moved, from, dx, moving.color)
                      THEN {beside} ELSE {}
           left == [l \in DOMAIN moved \ taken |-> moved[l]]
           result == Flagged(left, moving, from, to)
<1>1. MovePiece(b, from, to) = result
  BY DEF MovePiece
<1>2. moving \in Pieces /\ Marked(moving) \in Pieces
        /\ Marked(moving).type = moving.type /\ Marked(moving).color = moving.color
  BY DEF BoardOK, Marked, Pieces
<1>3. DOMAIN moved = (DOMAIN b \ {from}) \cup {to} /\ moved[to] = Marked(moving)
        /\ \A l \in DOMAIN moved \ {to} : l \in DOMAIN b /\ l # from /\ moved[l] = b[l]
  OBVIOUS
<1>4. \A l \in DOMAIN moved : moved[l] \in Pieces
  BY <1>2, <1>3 DEF BoardOK
<1>5. \A l \in taken : l # to /\ l # from /\ l \in DOMAIN b /\ b[l].type = "pawn"
  <2> SUFFICES ASSUME NEW l \in taken
               PROVE  l # to /\ l # from /\ l \in DOMAIN b /\ b[l].type = "pawn"
    OBVIOUS
  <2>1. l = beside /\ PassesBeside(moved, from, dx, moving.color)
    OBVIOUS
  <2>2. l \in DOMAIN moved /\ moved[l].enPassant /\ moved[l].color = Opposite(moving.color)
    BY <2>1 DEF PassesBeside
  <2>3. l # to
    BY <2>2, <1>2, <1>3, OppositeColor DEF Pieces
  <2> QED
    BY <2>2, <2>3, <1>3 DEF BoardOK
<1>6. DOMAIN result = DOMAIN moved \ taken
  BY DEF Flagged
<1>7. ASSUME NEW l \in DOMAIN result
      PROVE  /\ result[l] \in Pieces
             /\ result[l].type = moved[l].type /\ result[l].color = moved[l].color
             /\ result[l].enPassant => l = to /\ moving.type = "pawn"
  <2>1. l \in DOMAIN left /\ left[l] = moved[l] /\ left[l] \in Pieces
    BY <1>4, <1>6
  <2>2. PICK f \in BOOLEAN : /\ result[l] = [left[l] EXCEPT !.enPassant = f]
                             /\ f => l = to /\ moving.type = "pawn"
    BY <2>1 DEF Flagged
  <2> QED
    BY <2>1, <2>2 DEF Pieces
<1>8. DOMAIN result \subseteq All /\ result \in [DOMAIN result -> Pieces]
  <2>1. DOMAIN result \subseteq All
    BY <1>3, <1>6 DEF BoardOK
  <2>2. result = [l \in DOMAIN result |-> result[l]]
    BY DEF Flagged
  <2> QED
    BY <2>1, <2>2, <1>7
<1>9. ASSUME NEW c \in Colors
      PROVE  OneKing(result, c)
  <2>1. PICK k \in All : \A l \in All : Has(b, l, "king", c) <=> l = k
    BY DEF BoardOK, OneKing
  <2>2. ASSUME NEW l \in All
        PROVE  Has(result, l, "king", c) <=>
                 \/ l = to /\ moving.type = "king" /\ moving.color = c
                 \/ l # to /\ l # from /\ l = k
    <3>1. CASE l = to
      BY <3>1, <1>2, <1>3, <1>5, <1>6, <1>7 DEF Has
    <3>2. CASE l = from
      BY <3>2, <1>3, <1>6 DEF Has
    <3>3. CASE l # to /\ l # from
      <4>1. l \in DOMAIN result <=> l \in DOMAIN b /\ l \notin taken
        BY <3>3, <1>3, <1>6
      <4>2. l \in DOMAIN result => result[l].type = b[l].type /\ result[l].color = b[l].color
        BY <3>3, <1>3, <1>6, <1>7
      <4>3. Has(result, l, "king", c) <=> Has(b, l, "king", c)
        BY <4>1, <4>2, <1>5 DEF Has
      <4> QED
        BY <4>3, <2>1, <3>3
    <3> QED
      BY <3>1, <3>2, <3>3
  <2>3. k # to
    BY <2>1 DEF NotAKing, Has
  <2>4. k = from <=> moving.type = "king" /\ moving.color = c
    BY <2>1 DEF Has, BoardOK
  <2>5. CASE k = from
    BY <2>2, <2>4, <2>5 DEF OneKing
  <2>6. CASE k # from
    BY <2>2, <2>3, <2>4, <2>6 DEF OneKing
  <2> QED
    BY <2>5, <2>6
<1>10. \A l \in DOMAIN result : result[l].enPassant => result[l].type = "pawn"
  BY <1>2, <1>3, <1>7
<1>11. \A l, m \in DOMAIN result : result[l].enPassant /\ result[m].enPassant => l = m
  BY <1>7
<1> HIDE DEF result
<1> QED
  BY <1>1, <1>8, <1>9, <1>10, <1>11 DEF BoardOK

\* No piece may go to the square of a king, nor stay where it is.
LEMMA MovesSpareKings ==
  ASSUME NEW b, BoardOK(b), NEW from \in DOMAIN b, NEW to \in All,
         CanPieceMove(b, from, to)
  PROVE  from # to /\ NotAKing(b, to)
<1>1. b[from].type \in Types
  BY DEF BoardOK, Pieces
<1>2. CASE b[from].type = "pawn"
  BY <1>2 DEF CanPieceMove, PawnCanMove
<1>3. CASE b[from].type = "rook"
  BY <1>3 DEF CanPieceMove, CanSlideStraight, CanSlide
<1>4. CASE b[from].type = "bishop"
  BY <1>4 DEF CanPieceMove, CanSlideDiagonally, CanSlide
<1>5. CASE b[from].type = "queen"
  BY <1>5 DEF CanPieceMove, CanSlideStraight, CanSlideDiagonally, CanSlide
<1>6. CASE b[from].type = "knight"
  BY <1>6 DEF CanPieceMove, CanJump
<1>7. CASE b[from].type = "king"
  BY <1>7 DEF CanPieceMove, CanJump
<1> QED
  BY <1>1, <1>2, <1>3, <1>4, <1>5, <1>6, <1>7 DEF Types, Promotions

\* A pawn on the last row becomes a piece of the same colour, and no king.
LEMMA PromotionKeepsBoard ==
  ASSUME NEW b, BoardOK(b), NEW c \in Colors,
         NEW l \in PromotablePawns(b, c), NEW type \in Promotions
  PROVE  BoardOK(Promoted(b, l, type))
<1> DEFINE result == Promoted(b, l, type)
<1>1. l \in DOMAIN b /\ b[l].type = "pawn" /\ b[l] \in Pieces
  BY DEF PromotablePawns, Has, BoardOK
<1>2. /\ DOMAIN result = DOMAIN b /\ result \in [DOMAIN result -> Pieces]
      /\ result[l] = Piece(type, b[l].color)
      /\ \A m \in DOMAIN b \ {l} : result[m] = b[m]
  BY <1>1 DEF Promoted, Piece, Pieces, BoardOK, Types
<1>3. result[l].type # "king" /\ result[l].enPassant = FALSE
  BY <1>2 DEF Piece, Promotions
<1>4. ASSUME NEW d \in Colors
      PROVE  OneKing(result, d)
  <2>1. \A m \in All : Has(result, m, "king", d) <=> Has(b, m, "king", d)
    BY <1>1, <1>2, <1>3 DEF Has
  <2> QED
    BY <2>1 DEF OneKing, BoardOK
<1> HIDE DEF result
<1>5. \A m \in DOMAIN result : result[m].enPassant => result[m].type = "pawn"
  BY <1>2, <1>3 DEF BoardOK
<1>6. \A m, n \in DOMAIN result : result[m].enPassant /\ result[n].enPassant => m = n
  BY <1>2, <1>3 DEF BoardOK
<1>7. DOMAIN result \subseteq All
  BY <1>2 DEF BoardOK
<1>8. BoardOK(result)
  BY <1>2, <1>4, <1>5, <1>6, <1>7 DEF BoardOK
<1> QED
  BY <1>8 DEF result

\* Where king and rook start and end, as numbers.
LEMMA CastleSquares ==
  ASSUME NEW c \in Colors, NEW side \in Sides
  PROVE  /\ {KingStart(c), RookStart(c, side), KingEnd(c, side), RookEnd(c, side)} \subseteq All
         /\ RookStart(c, side) \notin {KingStart(c), KingEnd(c, side), RookEnd(c, side)}
         /\ KingStart(c) # KingEnd(c, side)
         /\ RookEnd(c, side) # KingEnd(c, side)
         /\ \A l \in {KingEnd(c, side), RookEnd(c, side)} :
              \/ KingStart(c) < l /\ l < RookStart(c, side)
              \/ RookStart(c, side) < l /\ l < KingStart(c)
<1>1. CASE side = "kingSide"
  BY <1>1 DEF Colors, KingStart, RookStart, KingEnd, RookEnd, At, YPos, All
<1>2. CASE side # "kingSide"
  BY <1>2 DEF Colors, KingStart, RookStart, KingEnd, RookEnd, At, YPos, All
<1> QED
  BY <1>1, <1>2

\* The squares occupied after a move of anything but a pawn.
LEMMA MoveElsewhere ==
  ASSUME NEW b, NEW from \in DOMAIN b, NEW to, b[from].type # "pawn"
  PROVE  DOMAIN MovePiece(b, from, to) = (DOMAIN b \ {from}) \cup {to}
BY DEF MovePiece, Flagged

\* Castling is two moves to empty squares.
LEMMA CastleKeepsBoard ==
  ASSUME NEW b, BoardOK(b), NEW c \in Colors, NEW side \in Sides, CanColorCastle(b, c, side)
  PROVE  BoardOK(PerformCastle(b, c, side))
<1> DEFINE ks == KingStart(c)
           rs == RookStart(c, side)
           ke == KingEnd(c, side)
           re == RookEnd(c, side)
           once == MovePiece(b, ks, ke)
<1>1. /\ ks \in DOMAIN b /\ rs \in DOMAIN b
      /\ b[ks].type = "king" /\ b[rs].type = "rook"
      /\ ke \notin DOMAIN b /\ re \notin DOMAIN b
  BY CastleSquares DEF CanColorCastle
<1>2. BoardOK(once)
  <2>1. ks # ke /\ ke \in All /\ NotAKing(b, ke)
    BY <1>1, CastleSquares DEF NotAKing
  <2> HIDE DEF ks, ke
  <2> QED
    BY <1>1, <2>1, MoveKeepsBoard
<1>3. DOMAIN once = (DOMAIN b \ {ks}) \cup {ke}
  <2>1. b[ks].type # "pawn"
    BY <1>1
  <2> HIDE DEF ks, ke
  <2> QED
    BY <1>1, <2>1, MoveElsewhere
<1>4. rs \in DOMAIN once /\ re \notin DOMAIN once
  BY <1>1, <1>3, CastleSquares
<1>5. BoardOK(MovePiece(once, rs, re))
  <2>1. re \in All /\ rs # re
    BY CastleSquares
  <2>2. NotAKing(once, re)
    BY <1>4 DEF NotAKing
  <2> HIDE DEF once, rs, re
  <2> QED
    BY <1>2, <1>4, <2>1, <2>2, MoveKeepsBoard
<1> QED
  BY <1>5 DEF PerformCastle

\* The state and the turn after a move are of their type.
LEMMA TurnEndsWell ==
  ASSUME turn \in Colors, moves \in 0..MaxMoves, moves < MaxMoves, PlayerDidMakeMove
  PROVE  /\ turn' \in Colors
         /\ state' \in {"inProgress", "won", "staleMate"}
         /\ moves' \in 0..MaxMoves
<1>1. state' \in {"inProgress", "won", "staleMate"}
  BY DEF PlayerDidMakeMove
<1>2. turn' \in Colors
  BY OppositeColor DEF PlayerDidMakeMove
<1>3. moves' \in 0..MaxMoves
  BY SomeMoves DEF PlayerDidMakeMove
<1> QED
  BY <1>1, <1>2, <1>3

\* Whatever the start and whatever is played, the board stays a board: there is
\* always one king of each colour (Board.getKing's "there should always be a
\* king", when moves and promotions are whole), and at most one pawn that may
\* be taken en passant.
THEOREM BoardsStayBoards == Spec => []TypeOK
<1>1. Init => TypeOK
  BY StartsAreBoards DEF Init, TypeOK
<1>2. TypeOK /\ [Next]_vars => TypeOK'
  <2> SUFFICES ASSUME TypeOK, [Next]_vars
               PROVE  TypeOK'
    OBVIOUS
  <2>1. ASSUME moves < MaxMoves, NEW from \in DOMAIN board, NEW to \in All, Move(from, to)
        PROVE  TypeOK'
    <3> DEFINE moved == MovePiece(board, from, to)
    <3>1. BoardOK(board) /\ turn \in Colors
      BY DEF TypeOK
    <3>2. CanPieceMove(board, from, to)
      BY <2>1 DEF Move, CanMovePiece
    <3>3. BoardOK(moved)
      BY <3>1, <3>2, MovesSpareKings, MoveKeepsBoard
    <3>4. \/ board' = moved
          \/ \E l \in PromotablePawns(moved, turn), type \in Promotions :
               board' = Promoted(moved, l, type)
      BY <2>1 DEF Move
    <3> HIDE DEF moved
    <3>5. BoardOK(board')
      BY <3>1, <3>3, <3>4, PromotionKeepsBoard
    <3> QED
      BY <2>1, <3>5, TurnEndsWell DEF TypeOK, Move
  <2>2. ASSUME moves < MaxMoves, NEW side \in Sides, Castle(side)
        PROVE  TypeOK'
    <3>1. BoardOK(board')
      BY <2>2, CastleKeepsBoard DEF Castle, TypeOK
    <3> QED
      BY <2>2, <3>1, TurnEndsWell DEF TypeOK, Castle
  <2>3. CASE UNCHANGED vars
    BY <2>3 DEF vars, TypeOK
  <2> QED
    BY <2>1, <2>2, <2>3 DEF Next
<1> QED
  BY <1>1, <1>2, PTL DEF Spec

-----------------------------------------------------------------------------
(* Castling rights.                                                        *)

\* What stands on a square after a move and counts as never moved has stood
\* there before.
LEMMA UnmovedStoodThere ==
  ASSUME NEW b, BoardOK(b), NEW from \in DOMAIN b, NEW to \in All,
         NEW l \in DOMAIN MovePiece(b, from, to), ~MovePiece(b, from, to)[l].hasMoved
  PROVE  /\ l \in DOMAIN b /\ ~b[l].hasMoved
         /\ MovePiece(b, from, to)[l].type = b[l].type
         /\ MovePiece(b, from, to)[l].color = b[l].color
<1> DEFINE moving == b[from]
           moved == [m \in (DOMAIN b \ {from}) \cup {to} |->
                       IF m = to THEN Marked(moving) ELSE b[m]]
           dx == X(to) - X(from)
           taken == IF moving.type = "pawn" /\ PassesBeside(moved, from, dx, moving.color)
                      THEN {Incremented(from, <<dx, 0>>)} ELSE {}
           left == [m \in DOMAIN moved \ taken |-> moved[m]]
           result == Flagged(left, moving, from, to)
<1>1. MovePiece(b, from, to) = result
  BY DEF MovePiece
<1>2. l \in DOMAIN left /\ left[l] = moved[l]
  BY <1>1 DEF Flagged
<1>3. moved[l] \in Pieces
  BY <1>2 DEF BoardOK, Marked, Pieces
<1>4. PICK f : result[l] = [left[l] EXCEPT !.enPassant = f]
  BY <1>2 DEF Flagged
<1>5. /\ result[l].hasMoved = moved[l].hasMoved
      /\ result[l].type = moved[l].type /\ result[l].color = moved[l].color
  BY <1>2, <1>3, <1>4 DEF Pieces
<1>6. ~moved[l].hasMoved
  <2> HIDE DEF result, moved
  <2> QED
    BY <1>1, <1>5
<1>7. l # to
  BY <1>6, <1>2 DEF Marked, BoardOK, Pieces
<1>8. l \in DOMAIN b /\ moved[l] = b[l]
  BY <1>2, <1>7
<1> HIDE DEF result, moved
<1> QED
  BY <1>1, <1>5, <1>6, <1>8

LEMMA MoveGivesNoRight ==
  ASSUME NEW b, BoardOK(b), NEW from \in DOMAIN b, NEW to \in All
  PROVE  RightsOf(MovePiece(b, from, to)) \subseteq RightsOf(b)
<1> DEFINE result == MovePiece(b, from, to)
<1> SUFFICES ASSUME NEW r \in RightsOf(result)
             PROVE  r \in RightsOf(b)
  OBVIOUS
<1>1. r \in Colors \X Sides
  BY DEF RightsOf
<1>2. /\ Has(result, KingStart(r[1]), "king", r[1]) /\ ~result[KingStart(r[1])].hasMoved
      /\ Has(result, RookStart(r[1], r[2]), "rook", r[1])
      /\ ~result[RookStart(r[1], r[2])].hasMoved
  BY DEF RightsOf
<1>3. \A l, type, c : Has(result, l, type, c) /\ ~result[l].hasMoved =>
                       Has(b, l, type, c) /\ ~b[l].hasMoved
  BY UnmovedStoodThere DEF Has
<1> HIDE DEF result
<1> QED
  BY <1>1, <1>2, <1>3 DEF RightsOf

\* A promoted rook counts as never moved, but does not stand where a rook of
\* its colour has started.
LEMMA PromotionGivesNoRight ==
  ASSUME NEW b, BoardOK(b), NEW c \in Colors,
         NEW l \in PromotablePawns(b, c), NEW type \in Promotions
  PROVE  RightsOf(Promoted(b, l, type)) \subseteq RightsOf(b)
<1> DEFINE result == Promoted(b, l, type)
<1> SUFFICES ASSUME NEW r \in RightsOf(result)
             PROVE  r \in RightsOf(b)
  OBVIOUS
<1>1. r \in Colors \X Sides /\ r[1] \in Colors /\ r[2] \in Sides
  BY DEF RightsOf
<1>2. l \in DOMAIN b /\ b[l].color = c /\ Y(l) = (IF c = "white" THEN 7 ELSE 0)
  BY DEF PromotablePawns, Has, LastRow
<1>3. /\ DOMAIN result = DOMAIN b
      /\ result[l] = Piece(type, c)
      /\ \A m \in DOMAIN b \ {l} : result[m] = b[m]
  BY <1>2 DEF Promoted, BoardOK
<1>4. ASSUME NEW m, NEW t, Has(result, m, t, r[1]), Y(m) = YPos(r[1])
      PROVE  m # l
  BY <1>1, <1>2, <1>3, <1>4 DEF Has, Piece, YPos, Colors
<1>5. Y(KingStart(r[1])) = YPos(r[1]) /\ Y(RookStart(r[1], r[2])) = YPos(r[1])
  BY <1>1 DEF KingStart, RookStart, At, Y, YPos
<1>6. /\ Has(result, KingStart(r[1]), "king", r[1]) /\ ~result[KingStart(r[1])].hasMoved
      /\ Has(result, RookStart(r[1], r[2]), "rook", r[1])
      /\ ~result[RookStart(r[1], r[2])].hasMoved
  BY DEF RightsOf
<1>7. KingStart(r[1]) # l /\ RookStart(r[1], r[2]) # l
  BY <1>4, <1>5, <1>6
<1> HIDE DEF result
<1>8. /\ Has(b, KingStart(r[1]), "king", r[1]) /\ ~b[KingStart(r[1])].hasMoved
      /\ Has(b, RookStart(r[1], r[2]), "rook", r[1]) /\ ~b[RookStart(r[1], r[2])].hasMoved
  BY <1>3, <1>6, <1>7 DEF Has
<1> QED
  BY <1>1, <1>8 DEF RightsOf

LEMMA CastleGivesNoRight ==
  ASSUME NEW b, BoardOK(b), NEW c \in Colors, NEW side \in Sides, CanColorCastle(b, c, side)
  PROVE  RightsOf(PerformCastle(b, c, side)) \subseteq RightsOf(b)
<1> DEFINE ks == KingStart(c)
           rs == RookStart(c, side)
           ke == KingEnd(c, side)
           re == RookEnd(c, side)
           once == MovePiece(b, ks, ke)
<1>1. /\ ks \in DOMAIN b /\ rs \in DOMAIN b /\ b[ks].type # "pawn"
      /\ ke \notin DOMAIN b /\ ks # ke /\ rs # ks
      /\ ke \in All /\ re \in All /\ NotAKing(b, ke)
  BY CastleSquares DEF CanColorCastle, NotAKing
<1> HIDE DEF ks, rs, ke, re
<1>2. BoardOK(once) /\ RightsOf(once) \subseteq RightsOf(b)
  BY <1>1, MoveKeepsBoard, MoveGivesNoRight
<1>3. rs \in DOMAIN once
  <2>1. DOMAIN MovePiece(b, ks, ke) = (DOMAIN b \ {ks}) \cup {ke}
    BY <1>1, MoveElsewhere
  <2> QED
    BY <1>1, <2>1 DEF once
<1> HIDE DEF once
<1>4. RightsOf(MovePiece(once, rs, re)) \subseteq RightsOf(once)
  BY <1>1, <1>2, <1>3, MoveGivesNoRight
<1> QED
  BY <1>2, <1>4 DEF PerformCastle, ks, rs, ke, re, once

\* A castling right that is lost stays lost: not even a promoted rook, which
\* counts as one that has never moved, gives one back.
THEOREM LostRightsStayLost == Spec => [][RightsOf(board') \subseteq RightsOf(board)]_board
<1>1. TypeOK /\ [Next]_vars => [RightsOf(board') \subseteq RightsOf(board)]_board
  <2> SUFFICES ASSUME TypeOK, [Next]_vars, board' # board
               PROVE  RightsOf(board') \subseteq RightsOf(board)
    OBVIOUS
  <2>1. BoardOK(board) /\ turn \in Colors
    BY DEF TypeOK
  <2>2. ASSUME NEW from \in DOMAIN board, NEW to \in All, Move(from, to)
        PROVE  RightsOf(board') \subseteq RightsOf(board)
    <3> DEFINE moved == MovePiece(board, from, to)
    <3>1. CanPieceMove(board, from, to)
      BY <2>2 DEF Move, CanMovePiece
    <3>2. BoardOK(moved) /\ RightsOf(moved) \subseteq RightsOf(board)
      BY <2>1, <3>1, MovesSpareKings, MoveKeepsBoard, MoveGivesNoRight
    <3>3. \/ board' = moved
          \/ \E l \in PromotablePawns(moved, turn), type \in Promotions :
               board' = Promoted(moved, l, type)
      BY <2>2 DEF Move
    <3> HIDE DEF moved
    <3>4. CASE board' = moved
      BY <3>2, <3>4
    <3>5. ASSUME NEW l \in PromotablePawns(moved, turn), NEW type \in Promotions,
                 board' = Promoted(moved, l, type)
          PROVE  RightsOf(board') \subseteq RightsOf(board)
      BY <2>1, <3>2, <3>5, PromotionGivesNoRight
    <3> QED
      BY <3>3, <3>4, <3>5
  <2>3. ASSUME NEW side \in Sides, Castle(side)
        PROVE  RightsOf(board') \subseteq RightsOf(board)
    BY <2>1, <2>3, CastleGivesNoRight DEF Castle
  <2> QED
    BY <2>2, <2>3 DEF Next, vars
<1> QED
  BY <1>1, BoardsStayBoards, PTL DEF Spec

-----------------------------------------------------------------------------
(* The board, by columns and rows.                                         *)

\* A square is its column and its row.
LEMMA SquareIsPlace ==
  ASSUME NEW l \in All
  PROVE  X(l) \in 0..7 /\ Y(l) \in 0..7 /\ l = X(l) + 8 * Y(l)
  BY DEF All, X, Y

\* Every column and row make a square.
LEMMA PlaceIsSquare ==
  ASSUME NEW x \in 0..7, NEW y \in 0..7
  PROVE  x + 8 * y \in All /\ X(x + 8 * y) = x /\ Y(x + 8 * y) = y
  BY DEF All, X, Y

\* No two squares share column and row.
LEMMA SamePlaceSameSquare ==
  ASSUME NEW l \in All, NEW m \in All, X(l) = X(m), Y(l) = Y(m)
  PROVE  l = m
  BY SquareIsPlace

\* Going k times by one of the eight strides.
Units == {-1, 0, 1}

Along(k, d) == k * d

\* A product with a unit, without a product.
LEMMA AlongUnit ==
  ASSUME NEW k \in Int, NEW d \in Units
  PROVE  /\ d = -1 => Along(k, d) = -k
         /\ d = 0 => Along(k, d) = 0
         /\ d = 1 => Along(k, d) = k
         /\ Along(k, d) \in Int
  BY SMT DEF Units, Along

\* One step more.
LEMMA AlongNext ==
  ASSUME NEW k \in Int, NEW d \in Units
  PROVE  Along(k + 1, d) = Along(k, d) + d /\ Along(0, d) = 0 /\ d \in Int
  BY SMT DEF Units, Along

Walked(l, k, dx, dy) == l + Along(k, dx) + 8 * Along(k, dy)

\* step(k) of canPieceMove, in columns and rows.
LEMMA WalkIsMultiple ==
  ASSUME NEW l \in Int, NEW k \in Int, NEW dx \in Units, NEW dy \in Units
  PROVE  l + k * (dx + 8 * dy) = Walked(l, k, dx, dy) /\ dx + 8 * dy \in -9..9
<1>1. k * (dx + 8 * dy) = k * dx + 8 * (k * dy) /\ k * dx \in Int /\ k * dy \in Int
  BY SMT DEF Units
<1>2. l + (k * dx + 8 * (k * dy)) = l + k * dx + 8 * (k * dy)
  BY <1>1
<1>3. dx + 8 * dy \in -9..9
  BY DEF Units
<1> QED
  BY <1>1, <1>2, <1>3 DEF Walked, Along

\* Columns and rows add up apart.
LEMMA SumsRegroup ==
  ASSUME NEW x \in Int, NEW y \in Int, NEW p \in Int, NEW q \in Int
  PROVE  x + 8 * y + p + 8 * q = (x + p) + 8 * (y + q)
  OBVIOUS

\* A walk that stays on the board adds to column and row.
LEMMA WalkIsPlace ==
  ASSUME NEW l \in All, NEW k \in 0..7, NEW dx \in Units, NEW dy \in Units,
         X(l) + Along(k, dx) \in 0..7, Y(l) + Along(k, dy) \in 0..7
  PROVE  /\ Walked(l, k, dx, dy) \in All
         /\ X(Walked(l, k, dx, dy)) = X(l) + Along(k, dx)
         /\ Y(Walked(l, k, dx, dy)) = Y(l) + Along(k, dy)
<1>1. l = X(l) + 8 * Y(l) /\ X(l) \in 0..7 /\ Y(l) \in 0..7
  BY SquareIsPlace
<1>2. Along(k, dx) \in Int /\ Along(k, dy) \in Int
  BY AlongUnit
<1>3. X(l) \in Int /\ Y(l) \in Int
  BY <1>1
<1>4. Walked(l, k, dx, dy) = (X(l) + Along(k, dx)) + 8 * (Y(l) + Along(k, dy))
  <2> DEFINE x == X(l)
             y == Y(l)
  <2>1. x \in Int /\ y \in Int /\ l = x + 8 * y
    BY <1>1, <1>3
  <2> HIDE DEF x, y
  <2>2. Walked(l, k, dx, dy) = (x + Along(k, dx)) + 8 * (y + Along(k, dy))
    <3>1. Walked(l, k, dx, dy) = x + 8 * y + Along(k, dx) + 8 * Along(k, dy)
      BY <2>1, Zenon DEF Walked
    <3>2. x + 8 * y + Along(k, dx) + 8 * Along(k, dy) = (x + Along(k, dx)) + 8 * (y + Along(k, dy))
      BY <1>2, <2>1, SumsRegroup
    <3> QED
      BY <3>1, <3>2, Zenon
  <2> QED
    BY <2>2 DEF x, y
<1> QED
  BY <1>4, PlaceIsSquare

\* On a line from l to t, n squares away.
OnLine(l, t, n, dx, dy) == X(t) = X(l) + Along(n, dx) /\ Y(t) = Y(l) + Along(n, dy)

\* What lies on a line is walked to.
LEMMA LineIsWalk ==
  ASSUME NEW l \in All, NEW t \in All, NEW n \in 0..7, NEW dx \in Units, NEW dy \in Units,
         OnLine(l, t, n, dx, dy)
  PROVE  t = Walked(l, n, dx, dy)
<1>1. X(t) \in 0..7 /\ Y(t) \in 0..7
  BY SquareIsPlace
<1> QED
  BY <1>1, WalkIsPlace, SamePlaceSameSquare DEF OnLine

\* Halfway, too, one is on the board.
LEMMA HalfwayIsInside ==
  ASSUME NEW x \in 0..7, NEW n \in 0..7, NEW k \in 0..n, NEW d \in Units, x + Along(n, d) \in 0..7
  PROVE  x + Along(k, d) \in 0..7
<1> DEFINE p == Along(n, d)
           q == Along(k, d)
<1>1. k \in Int /\ n \in Int /\ 0 <= k /\ k <= n
  OBVIOUS
<1>2. \/ p = -n /\ q = -k
      \/ p = 0 /\ q = 0
      \/ p = n /\ q = k
  BY <1>1, AlongUnit DEF Units
<1>3. x + p \in 0..7
  OBVIOUS
<1> HIDE DEF p, q
<1>4. x + q \in 0..7
  <2>1. CASE p = -n /\ q = -k
    BY <1>1, <1>3, <2>1
  <2>2. CASE p = 0 /\ q = 0
    BY <1>1, <2>2
  <2>3. CASE p = n /\ q = k
    BY <1>1, <1>3, <2>3
  <2> QED
    BY <1>2, <2>1, <2>2, <2>3
<1> QED
  BY <1>4 DEF q

\* All that lies between two squares of the board is on it.
LEMMA LineStaysOn ==
  ASSUME NEW l \in All, NEW t \in All, NEW n \in 0..7, NEW dx \in Units, NEW dy \in Units,
         OnLine(l, t, n, dx, dy), NEW k \in 0..n
  PROVE  /\ X(l) + Along(k, dx) \in 0..7 /\ Y(l) + Along(k, dy) \in 0..7
         /\ Walked(l, k, dx, dy) \in All /\ OnLine(l, Walked(l, k, dx, dy), k, dx, dy)
<1>1. X(t) \in 0..7 /\ Y(t) \in 0..7 /\ X(l) \in 0..7 /\ Y(l) \in 0..7
  BY SquareIsPlace
<1>2. X(l) + Along(k, dx) \in 0..7 /\ Y(l) + Along(k, dy) \in 0..7
  BY <1>1, HalfwayIsInside DEF OnLine
<1>3. k \in 0..7
  OBVIOUS
<1> QED
  BY <1>2, <1>3, WalkIsPlace DEF OnLine

\* The rules' files, ranks and what lies between, on a line.
LEMMA FilesAndRanks ==
  ASSUME NEW a, NEW t
  PROVE  /\ Rules!Files(a, t) = Rules!AbsOf(X(t) - X(a))
         /\ Rules!Ranks(a, t) = Rules!AbsOf(Y(t) - Y(a))
  BY DEF Rules!Files, Rules!Ranks, Rules!File, Rules!Rank, X, Y

\* The step that Between takes is the stride.
LEMMA Divides ==
  ASSUME NEW n \in 1..7, NEW d \in -9..9
  PROVE  (n * d) \div n = d
<1>1. CASE n = 1
  BY <1>1
<1>2. CASE n = 2
  BY <1>2
<1>3. CASE n = 3
  BY <1>3
<1>4. CASE n = 4
  BY <1>4
<1>5. CASE n = 5
  BY <1>5
<1>6. CASE n = 6
  BY <1>6
<1>7. CASE n = 7
  BY <1>7
<1> QED
  BY <1>1, <1>2, <1>3, <1>4, <1>5, <1>6, <1>7

\* What the rules say of the squares of a line.
LEMMA LineIsSeen ==
  ASSUME NEW a \in All, NEW t \in All, NEW n \in 1..7, NEW dx \in Units, NEW dy \in Units,
         dx # 0 \/ dy # 0, OnLine(a, t, n, dx, dy)
  PROVE  /\ a # t
         /\ Rules!Between(a, t) = {Walked(a, k, dx, dy) : k \in 1..(n - 1)}
         /\ Rules!Straight(a, t) <=> dx = 0 \/ dy = 0
         /\ Rules!Diagonal(a, t) <=> dx # 0 /\ dy # 0
<1> DEFINE ex == Along(n, dx)
           ey == Along(n, dy)
<1>1. X(a) \in Int /\ Y(a) \in Int /\ n \in Int /\ n > 0
  BY SquareIsPlace
<1>2. ex \in Int /\ ey \in Int /\ X(t) - X(a) = ex /\ Y(t) - Y(a) = ey
  BY <1>1, AlongUnit DEF OnLine
<1>3. /\ (dx = -1 /\ ex = -n) \/ (dx = 0 /\ ex = 0) \/ (dx = 1 /\ ex = n)
      /\ (dy = -1 /\ ey = -n) \/ (dy = 0 /\ ey = 0) \/ (dy = 1 /\ ey = n)
  BY <1>1, AlongUnit DEF Units
<1>4. t - a = n * (dx + 8 * dy)
  <2>1. t = a + n * (dx + 8 * dy) /\ dx + 8 * dy \in -9..9
    <3>1. t = Walked(a, n, dx, dy)
      BY LineIsWalk
    <3>2. a \in Int /\ n \in Int
      BY DEF All
    <3>3. a + n * (dx + 8 * dy) = Walked(a, n, dx, dy) /\ dx + 8 * dy \in -9..9
      BY <3>2, WalkIsMultiple, Zenon
    <3> QED
      BY <3>1, <3>3, Zenon
  <2>2. n * (dx + 8 * dy) \in Int /\ a \in Int
    BY <2>1 DEF All
  <2> QED
    BY <2>1, <2>2
<1> HIDE DEF ex, ey
<1>5. /\ Rules!Files(a, t) = IF dx = 0 THEN 0 ELSE n
      /\ Rules!Ranks(a, t) = IF dy = 0 THEN 0 ELSE n
  <2>1. Rules!AbsOf(ex) = (IF dx = 0 THEN 0 ELSE n) /\ Rules!AbsOf(ey) = (IF dy = 0 THEN 0 ELSE n)
    BY <1>1, <1>3 DEF Rules!AbsOf
  <2> QED
    BY <1>2, <2>1, FilesAndRanks
<1>6. Rules!Distance(a, t) = n
  BY <1>1, <1>5 DEF Rules!Distance
<1>7. (t - a) \div n = dx + 8 * dy
  <2>1. dx + 8 * dy \in -9..9
    BY DEF Units
  <2> QED
    BY <1>4, <2>1, Divides
<1>8. Rules!Between(a, t) = {Walked(a, k, dx, dy) : k \in 1..(n - 1)}
  <2>1. \A k \in 1..(n - 1) : a + k * (dx + 8 * dy) = Walked(a, k, dx, dy)
    BY WalkIsMultiple DEF All
  <2> QED
    BY <1>6, <1>7, <2>1 DEF Rules!Between
<1>9. a # t
  BY <1>1, <1>2, <1>3
<1> QED
  BY <1>1, <1>5, <1>8, <1>9 DEF Rules!Straight, Rules!Diagonal

\* From one square to another in a row, in a column or on a diagonal.
LEMMA SeenIsLine ==
  ASSUME NEW a \in All, NEW t \in All, a # t, Rules!Straight(a, t) \/ Rules!Diagonal(a, t)
  PROVE  \E n \in 1..7, dx \in Units, dy \in Units :
           (dx # 0 \/ dy # 0) /\ OnLine(a, t, n, dx, dy)
<1>1. X(a) \in 0..7 /\ Y(a) \in 0..7 /\ X(t) \in 0..7 /\ Y(t) \in 0..7
  BY SquareIsPlace
<1> DEFINE ex == X(t) - X(a)
           ey == Y(t) - Y(a)
           dx == Direction(ex)
           dy == Direction(ey)
           n == IF ex # 0 THEN Rules!AbsOf(ex) ELSE Rules!AbsOf(ey)
<1>2. ex # 0 \/ ey # 0
  BY <1>1, SamePlaceSameSquare
<1>3. ex \in -7..7 /\ ey \in -7..7
  BY <1>1
<1>4. ex = 0 \/ ey = 0 \/ Rules!AbsOf(ex) = Rules!AbsOf(ey)
  BY <1>3, FilesAndRanks DEF Rules!Straight, Rules!Diagonal, Rules!AbsOf
<1>5. X(t) = X(a) + ex /\ Y(t) = Y(a) + ey
  BY <1>1
<1> HIDE DEF ex, ey
<1>6. dx \in Units /\ dy \in Units /\ (dx # 0 \/ dy # 0) /\ n \in 1..7
  BY <1>2, <1>3 DEF Direction, Units, Rules!AbsOf
<1>7. /\ (dx = -1 /\ ex = -n) \/ (dx = 0 /\ ex = 0) \/ (dx = 1 /\ ex = n)
      /\ (dy = -1 /\ ey = -n) \/ (dy = 0 /\ ey = 0) \/ (dy = 1 /\ ey = n)
  BY <1>2, <1>3, <1>4 DEF Direction, Rules!AbsOf
<1> HIDE DEF n, dx, dy
<1>8. ex = Along(n, dx) /\ ey = Along(n, dy)
  BY <1>6, <1>7, AlongUnit
<1> QED
  BY <1>5, <1>6, <1>8 DEF OnLine

-----------------------------------------------------------------------------
(* How pieces go, and how the rules say they go.                           *)

\* Nothing stands between l and t.
Free(b, l, n, dx, dy) == \A k \in 1..(n - 1) : Walked(l, k, dx, dy) \notin DOMAIN b

\* No line is longer than seven steps.
LEMMA SevenSteps ==
  ASSUME NEW S, NEW n \in 1..7, 0 \in S, \A k \in 0..(n - 1) : k \in S => k + 1 \in S
  PROVE  \A k \in 0..n : k \in S
<1>1. 1 \in S
  BY 0 + 1 = 1
<1>2. n > 1 => 2 \in S
  BY <1>1, 1 + 1 = 2
<1>3. n > 2 => 3 \in S
  BY <1>2, 2 + 1 = 3
<1>4. n > 3 => 4 \in S
  BY <1>3, 3 + 1 = 4
<1>5. n > 4 => 5 \in S
  BY <1>4, 4 + 1 = 5
<1>6. n > 5 => 6 \in S
  BY <1>5, 5 + 1 = 6
<1>7. n > 6 => 7 \in S
  BY <1>6, 6 + 1 = 7
<1> QED
  BY <1>1, <1>2, <1>3, <1>4, <1>5, <1>6, <1>7

\* As long as a piece stays on the board, it goes along its line.
LEMMA WalkStaysOn ==
  ASSUME NEW l \in All, NEW n \in 1..7, NEW dx \in Units, NEW dy \in Units,
         \A k \in 0..(n - 1) : CanIncrement(Walked(l, k, dx, dy), <<dx, dy>>)
  PROVE  Walked(l, n, dx, dy) \in All /\ OnLine(l, Walked(l, n, dx, dy), n, dx, dy)
<1> DEFINE S == {k \in 0..7 : X(l) + Along(k, dx) \in 0..7 /\ Y(l) + Along(k, dy) \in 0..7}
<1>1. X(l) \in 0..7 /\ Y(l) \in 0..7
  BY SquareIsPlace
<1>2. 0 \in S
  BY <1>1, AlongNext
<1>3. ASSUME NEW k \in 0..(n - 1), k \in S PROVE k + 1 \in S
  <2>1. k \in 0..7 /\ k + 1 \in 0..7 /\ k \in Int /\ k + 1 \in Int
    OBVIOUS
  <2>2. X(Walked(l, k, dx, dy)) = X(l) + Along(k, dx) /\ Y(Walked(l, k, dx, dy)) = Y(l) + Along(k, dy)
    BY <1>3, <2>1, WalkIsPlace
  <2>3. X(l) + Along(k, dx) + dx \in 0..7 /\ Y(l) + Along(k, dy) + dy \in 0..7
    BY <2>2 DEF CanIncrement
  <2>4. Along(k, dx) \in Int /\ Along(k, dy) \in Int /\ dx \in Int /\ dy \in Int
    BY <2>1, AlongUnit, AlongNext
  <2>5. Along(k + 1, dx) = Along(k, dx) + dx /\ Along(k + 1, dy) = Along(k, dy) + dy
    BY <2>1, AlongNext
  <2>6. X(l) + Along(k + 1, dx) \in 0..7 /\ Y(l) + Along(k + 1, dy) \in 0..7
    BY <1>1, <2>3, <2>4, <2>5
  <2> QED
    BY <2>1, <2>6
<1> HIDE DEF S
<1>4. n \in S
  BY <1>2, <1>3, SevenSteps
<1> QED
  BY <1>4, WalkIsPlace DEF S, OnLine

\* canPieceMove's walk, with canIncrement asked at each step, is a line.
LEMMA SlideIsLine ==
  ASSUME NEW b, NEW from \in All, NEW to \in All, NEW dx \in Units, NEW dy \in Units
  PROVE  CanSlide(b, from, to, <<dx, dy>>) <=>
           /\ NotAKing(b, to) /\ NotItsOwn(b, from, to)
           /\ \E n \in 1..7 : OnLine(from, to, n, dx, dy) /\ Free(b, from, n, dx, dy)
<1> DEFINE step(k) == from + k * (dx + 8 * dy)
           stride == <<dx, dy>>
<1>1. \A k \in Int : step(k) = Walked(from, k, dx, dy)
  BY WalkIsMultiple DEF All
<1>2. CanSlide(b, from, to, stride) <=>
        /\ Direction(dx) = Direction(X(to) - X(from)) /\ Direction(dy) = Direction(Y(to) - Y(from))
        /\ NotAKing(b, to) /\ NotItsOwn(b, from, to)
        /\ \E n \in 1..7 :
             /\ step(n) = to
             /\ \A k \in 0..(n - 1) : CanIncrement(step(k), stride)
             /\ \A k \in 1..(n - 1) : step(k) \notin DOMAIN b
  BY DEF CanSlide
<1> HIDE DEF step, stride
<1>3. ASSUME CanSlide(b, from, to, stride)
      PROVE  \E n \in 1..7 : OnLine(from, to, n, dx, dy) /\ Free(b, from, n, dx, dy)
  <2>1. PICK n \in 1..7 : /\ step(n) = to
                          /\ \A k \in 0..(n - 1) : CanIncrement(step(k), stride)
                          /\ \A k \in 1..(n - 1) : step(k) \notin DOMAIN b
    BY <1>2, <1>3
  <2>2. OnLine(from, to, n, dx, dy)
    BY <1>1, <2>1, WalkStaysOn DEF stride
  <2>3. Free(b, from, n, dx, dy)
    BY <1>1, <2>1 DEF Free
  <2> QED
    BY <2>2, <2>3
<1>4. ASSUME NotAKing(b, to), NotItsOwn(b, from, to),
             NEW n \in 1..7, OnLine(from, to, n, dx, dy), Free(b, from, n, dx, dy)
      PROVE  CanSlide(b, from, to, stride)
  <2>1. X(from) \in Int /\ Y(from) \in Int /\ n \in Int /\ n > 0
    BY SquareIsPlace
  <2>2. Direction(dx) = Direction(X(to) - X(from)) /\ Direction(dy) = Direction(Y(to) - Y(from))
    <3>1. Along(n, dx) \in Int /\ Along(n, dy) \in Int /\ X(to) - X(from) = Along(n, dx) /\ Y(to) - Y(from) = Along(n, dy)
      BY <1>4, <2>1, AlongUnit DEF OnLine
    <3>2. Direction(Along(n, dx)) = Direction(dx) /\ Direction(Along(n, dy)) = Direction(dy)
      BY <2>1, AlongUnit DEF Units, Direction
    <3> QED
      BY <3>1, <3>2
  <2>3. step(n) = to
    BY <1>1, <1>4, LineIsWalk
  <2>9. ASSUME NEW k \in 0..n
        PROVE  /\ X(from) + Along(k, dx) \in 0..7 /\ Y(from) + Along(k, dy) \in 0..7
               /\ OnLine(from, Walked(from, k, dx, dy), k, dx, dy)
    <3>1. n \in 0..7
      OBVIOUS
    <3> QED
      BY <1>4, <2>9, <3>1, LineStaysOn, Zenon
  <2>4. ASSUME NEW k \in 0..(n - 1) PROVE CanIncrement(step(k), stride)
    <3>1. k \in 0..n /\ k + 1 \in 0..n /\ k \in Int /\ k + 1 \in Int
      OBVIOUS
    <3>2. X(step(k)) = X(from) + Along(k, dx) /\ Y(step(k)) = Y(from) + Along(k, dy)
      BY <1>1, <2>9, <3>1 DEF OnLine
    <3>3. X(from) + Along(k + 1, dx) \in 0..7 /\ Y(from) + Along(k + 1, dy) \in 0..7
      BY <2>9, <3>1
    <3>4. Along(k, dx) \in Int /\ Along(k, dy) \in Int /\ dx \in Int /\ dy \in Int
      BY <3>1, AlongUnit, AlongNext
    <3>5. Along(k + 1, dx) = Along(k, dx) + dx /\ Along(k + 1, dy) = Along(k, dy) + dy
      BY <3>1, AlongNext
    <3>6. X(step(k)) + dx \in 0..7 /\ Y(step(k)) + dy \in 0..7
      BY <2>1, <3>2, <3>3, <3>4, <3>5
    <3> QED
      BY <3>6 DEF CanIncrement, stride
  <2>5. \A k \in 1..(n - 1) : step(k) \notin DOMAIN b
    BY <1>1, <1>4 DEF Free
  <2> QED
    BY <1>2, <1>4, <2>2, <2>3, <2>4, <2>5
<1> QED
  BY <1>2, <1>3, <1>4 DEF stride

NothingBetween(b, from, to) == Rules!Between(from, to) \cap DOMAIN b = {}

\* The squares it finds free are those the rules ask for.
LEMMA FreeIsNothingBetween ==
  ASSUME NEW b, NEW from \in All, NEW to \in All, NEW n \in 1..7,
         NEW dx \in Units, NEW dy \in Units, dx # 0 \/ dy # 0, OnLine(from, to, n, dx, dy)
  PROVE  Free(b, from, n, dx, dy) <=> NothingBetween(b, from, to)
<1>1. Rules!Between(from, to) = {Walked(from, k, dx, dy) : k \in 1..(n - 1)}
  BY LineIsSeen
<1> QED
  BY <1>1 DEF Free, NothingBetween

\* What canPieceMove allows, the rules see as a line ...
LEMMA SlideIsSeen ==
  ASSUME NEW b, NEW from \in All, NEW to \in All, NEW dx \in Units, NEW dy \in Units,
         dx # 0 \/ dy # 0, CanSlide(b, from, to, <<dx, dy>>)
  PROVE  /\ NotAKing(b, to) /\ NotItsOwn(b, from, to) /\ NothingBetween(b, from, to)
         /\ Rules!Straight(from, to) <=> dx = 0 \/ dy = 0
         /\ Rules!Diagonal(from, to) <=> dx # 0 /\ dy # 0
<1>1. PICK n \in 1..7 : OnLine(from, to, n, dx, dy) /\ Free(b, from, n, dx, dy)
  BY SlideIsLine
<1>2. NotAKing(b, to) /\ NotItsOwn(b, from, to)
  BY SlideIsLine
<1> QED
  BY <1>1, <1>2, LineIsSeen, FreeIsNothingBetween

\* ... and the other way round.
LEMMA SeenIsSlide ==
  ASSUME NEW b, NEW from \in All, NEW to \in All, from # to,
         NotAKing(b, to), NotItsOwn(b, from, to), NothingBetween(b, from, to),
         Rules!Straight(from, to) \/ Rules!Diagonal(from, to)
  PROVE  \E dx \in Units, dy \in Units :
           /\ dx # 0 \/ dy # 0
           /\ CanSlide(b, from, to, <<dx, dy>>)
           /\ Rules!Straight(from, to) <=> dx = 0 \/ dy = 0
           /\ Rules!Diagonal(from, to) <=> dx # 0 /\ dy # 0
<1>1. PICK n \in 1..7, dx \in Units, dy \in Units :
        (dx # 0 \/ dy # 0) /\ OnLine(from, to, n, dx, dy)
  BY SeenIsLine
<1>2. CanSlide(b, from, to, <<dx, dy>>)
  BY <1>1, FreeIsNothingBetween, SlideIsLine
<1> QED
  BY <1>1, <1>2, LineIsSeen

\* The strides, as units.
LEMMA Strides ==
  /\ \A stride \in StraightStrides : \E dx \in Units, dy \in Units :
       stride = <<dx, dy>> /\ (dx = 0 \/ dy = 0) /\ (dx # 0 \/ dy # 0)
  /\ \A stride \in DiagonalStrides : \E dx \in Units, dy \in Units :
       stride = <<dx, dy>> /\ dx # 0 /\ dy # 0
  /\ \A dx \in Units, dy \in Units :
       /\ (dx = 0 \/ dy = 0) /\ (dx # 0 \/ dy # 0) => <<dx, dy>> \in StraightStrides
       /\ dx # 0 /\ dy # 0 => <<dx, dy>> \in DiagonalStrides
<1>1. -1 \in Units /\ 0 \in Units /\ 1 \in Units /\ -1 # 0 /\ 1 # 0
  BY DEF Units
<1>2. \A dx \in Units : dx = -1 \/ dx = 0 \/ dx = 1
  BY DEF Units
<1> QED
  BY <1>1, <1>2, ZenonT(30) DEF StraightStrides, DiagonalStrides

\* Rooks go as the rules say.
LEMMA StraightIsSeen ==
  ASSUME NEW b, NEW from \in All, NEW to \in All, from # to
  PROVE  CanSlideStraight(b, from, to) <=>
           /\ NotAKing(b, to) /\ NotItsOwn(b, from, to)
           /\ Rules!Straight(from, to) /\ NothingBetween(b, from, to)
<1>1. ASSUME CanSlideStraight(b, from, to)
      PROVE  /\ NotAKing(b, to) /\ NotItsOwn(b, from, to)
             /\ Rules!Straight(from, to) /\ NothingBetween(b, from, to)
  <2>1. PICK dx \in Units, dy \in Units :
          (dx = 0 \/ dy = 0) /\ (dx # 0 \/ dy # 0) /\ CanSlide(b, from, to, <<dx, dy>>)
    BY <1>1, Strides DEF CanSlideStraight
  <2> QED
    BY <2>1, SlideIsSeen
<1>2. ASSUME NotAKing(b, to), NotItsOwn(b, from, to),
             Rules!Straight(from, to), NothingBetween(b, from, to)
      PROVE  CanSlideStraight(b, from, to)
  <2>1. PICK dx \in Units, dy \in Units :
          /\ dx # 0 \/ dy # 0
          /\ CanSlide(b, from, to, <<dx, dy>>)
          /\ dx = 0 \/ dy = 0
    BY <1>2, SeenIsSlide
  <2>2. <<dx, dy>> \in StraightStrides
    BY <2>1, Strides
  <2>3. X(from) = X(to) \/ Y(from) = Y(to)
    <3>1. X(from) \in Int /\ X(to) \in Int /\ Y(from) \in Int /\ Y(to) \in Int
      BY SquareIsPlace
    <3> QED
      BY <1>2, <3>1, FilesAndRanks DEF Rules!Straight, Rules!AbsOf
  <2> QED
    BY <2>1, <2>2, <2>3 DEF CanSlideStraight
<1> QED
  BY <1>1, <1>2

\* Squares on a diagonal are of one colour.
LEMMA DiagonalColor ==
  ASSUME NEW from \in All, NEW to \in All, Rules!Diagonal(from, to)
  PROVE  (from + Y(from)) % 2 = (to + Y(to)) % 2
<1> DEFINE xf == X(from)
           yf == Y(from)
           xt == X(to)
           yt == Y(to)
<1>1. xf \in 0..7 /\ yf \in 0..7 /\ xt \in 0..7 /\ yt \in 0..7
  BY SquareIsPlace
<1>2. from = xf + 8 * yf /\ to = xt + 8 * yt
  BY SquareIsPlace
<1>3. xt - xf = yt - yf \/ xt - xf = yf - yt
  BY <1>1, FilesAndRanks DEF Rules!Diagonal, Rules!AbsOf
<1> HIDE DEF xf, yf, xt, yt
<1>4. (xf + 8 * yf + yf) % 2 = (xt + 8 * yt + yt) % 2
  BY <1>1, <1>3
<1>5. (from + yf) % 2 = (to + yt) % 2
  BY <1>2, <1>4, Zenon
<1> QED
  BY <1>5 DEF yf, yt

\* So do bishops; the parity that is asked first holds on every diagonal.
LEMMA DiagonalIsSeen ==
  ASSUME NEW b, NEW from \in All, NEW to \in All, from # to
  PROVE  CanSlideDiagonally(b, from, to) <=>
           /\ NotAKing(b, to) /\ NotItsOwn(b, from, to)
           /\ Rules!Diagonal(from, to) /\ NothingBetween(b, from, to)
<1>1. ASSUME CanSlideDiagonally(b, from, to)
      PROVE  /\ NotAKing(b, to) /\ NotItsOwn(b, from, to)
             /\ Rules!Diagonal(from, to) /\ NothingBetween(b, from, to)
  <2>1. PICK dx \in Units, dy \in Units :
          dx # 0 /\ dy # 0 /\ CanSlide(b, from, to, <<dx, dy>>)
    BY <1>1, Strides DEF CanSlideDiagonally
  <2> QED
    BY <2>1, SlideIsSeen
<1>2. ASSUME NotAKing(b, to), NotItsOwn(b, from, to),
             Rules!Diagonal(from, to), NothingBetween(b, from, to)
      PROVE  CanSlideDiagonally(b, from, to)
  <2>1. PICK dx \in Units, dy \in Units :
          CanSlide(b, from, to, <<dx, dy>>) /\ dx # 0 /\ dy # 0
    BY <1>2, SeenIsSlide
  <2>2. <<dx, dy>> \in DiagonalStrides
    BY <2>1, Strides
  <2> QED
    BY <1>2, <2>1, <2>2, DiagonalColor DEF CanSlideDiagonally
<1> QED
  BY <1>1, <1>2

\* A jump that does not wrap adds its offset to column and row.
LEMMA JumpIsOffset ==
  ASSUME NEW b, NEW from \in All, NEW to \in All,
         NEW S \in SUBSET (Int \X Int)
  PROVE  CanJump(b, from, to, S) <=>
           /\ NotAKing(b, to) /\ NotItsOwn(b, from, to)
           /\ <<X(to) - X(from), Y(to) - Y(from)>> \in S
<1>1. ASSUME NEW offset \in S
      PROVE  /\ offset = <<offset[1], offset[2]>>
             /\ DoesNotWrap(from, to, offset) <=> <<X(to) - X(from), Y(to) - Y(from)>> = offset
             /\ DoesNotWrap(from, to, offset) => to = Incremented(from, offset)
  <2>1. offset = <<offset[1], offset[2]>> /\ offset[1] \in Int /\ offset[2] \in Int
    OBVIOUS
  <2> DEFINE xf == X(from)
             yf == Y(from)
             xt == X(to)
             yt == Y(to)
  <2>2. /\ xf \in Int /\ yf \in Int /\ xt \in Int /\ yt \in Int
        /\ from = xf + 8 * yf /\ to = xt + 8 * yt
    BY SquareIsPlace
  <2>3. DoesNotWrap(from, to, offset) <=> xt - xf = offset[1] /\ yt - yf = offset[2]
    BY DEF DoesNotWrap
  <2> HIDE DEF xf, yf, xt, yt
  <2>4. xt - xf = offset[1] /\ yt - yf = offset[2] => to = from + offset[1] + 8 * offset[2]
    BY <2>1, <2>2
  <2>5. DoesNotWrap(from, to, offset) <=> <<xt - xf, yt - yf>> = offset
    BY <2>1, <2>3
  <2> QED
    BY <2>1, <2>3, <2>4, <2>5 DEF Incremented, xf, yf, xt, yt
<1> QED
  BY <1>1 DEF CanJump

\* The eight offsets are the knight's moves.
LEMMA KnightIsSeen ==
  ASSUME NEW b, NEW from \in All, NEW to \in All
  PROVE  CanJump(b, from, to, KnightOffsets) <=>
           /\ NotAKing(b, to) /\ NotItsOwn(b, from, to)
           /\ {Rules!Files(from, to), Rules!Ranks(from, to)} = {1, 2}
<1> DEFINE ex == X(to) - X(from)
           ey == Y(to) - Y(from)
<1>1. KnightOffsets \in SUBSET (Int \X Int)
  BY DEF KnightOffsets
<1>2. ex \in Int /\ ey \in Int
  BY SquareIsPlace
<1>3. Rules!Files(from, to) = Rules!AbsOf(ex) /\ Rules!Ranks(from, to) = Rules!AbsOf(ey)
  BY FilesAndRanks
<1> HIDE DEF ex, ey
<1>4. <<ex, ey>> \in KnightOffsets <=> {Rules!AbsOf(ex), Rules!AbsOf(ey)} = {1, 2}
  <2>1. {Rules!AbsOf(ex), Rules!AbsOf(ey)} = {1, 2} <=>
          \/ Rules!AbsOf(ex) = 1 /\ Rules!AbsOf(ey) = 2
          \/ Rules!AbsOf(ex) = 2 /\ Rules!AbsOf(ey) = 1
    BY 1 # 2, Zenon
  <2>2. /\ Rules!AbsOf(ex) = 1 <=> ex = 1 \/ ex = -1
        /\ Rules!AbsOf(ex) = 2 <=> ex = 2 \/ ex = -2
        /\ Rules!AbsOf(ey) = 1 <=> ey = 1 \/ ey = -1
        /\ Rules!AbsOf(ey) = 2 <=> ey = 2 \/ ey = -2
    BY <1>2 DEF Rules!AbsOf
  <2>3. <<ex, ey>> \in KnightOffsets <=>
          \/ (ex = 1 \/ ex = -1) /\ (ey = 2 \/ ey = -2)
          \/ (ex = 2 \/ ex = -2) /\ (ey = 1 \/ ey = -1)
    BY <1>2 DEF KnightOffsets
  <2> QED
    BY <2>1, <2>2, <2>3
<1> QED
  BY <1>1, <1>3, <1>4, JumpIsOffset DEF ex, ey

\* The eight strides are the king's.
LEMMA KingIsSeen ==
  ASSUME NEW b, NEW from \in All, NEW to \in All
  PROVE  CanJump(b, from, to, KingOffsets) <=>
           /\ NotAKing(b, to) /\ NotItsOwn(b, from, to)
           /\ Rules!Distance(from, to) = 1
<1> DEFINE ex == X(to) - X(from)
           ey == Y(to) - Y(from)
<1>1. KingOffsets \in SUBSET (Int \X Int)
  BY DEF KingOffsets, StraightStrides, DiagonalStrides
<1>2. ex \in Int /\ ey \in Int
  BY SquareIsPlace
<1>3. Rules!Files(from, to) = Rules!AbsOf(ex) /\ Rules!Ranks(from, to) = Rules!AbsOf(ey)
  BY FilesAndRanks
<1> HIDE DEF ex, ey
<1>4. <<ex, ey>> \in KingOffsets <=>
        /\ ex \in {-1, 0, 1} /\ ey \in {-1, 0, 1}
        /\ ex # 0 \/ ey # 0
  BY <1>2 DEF KingOffsets, StraightStrides, DiagonalStrides
<1>5. Rules!Distance(from, to) = 1 <=>
        /\ ex \in {-1, 0, 1} /\ ey \in {-1, 0, 1}
        /\ ex # 0 \/ ey # 0
  BY <1>2, <1>3 DEF Rules!Distance, Rules!AbsOf
<1> QED
  BY <1>1, <1>4, <1>5, JumpIsOffset DEF ex, ey

\* What the rules see of a board.
SeenOf(b) == [l \in DOMAIN b |-> [type |-> b[l].type, color |-> b[l].color]]

IsBoard(b) == DOMAIN b \subseteq All /\ b \in [DOMAIN b -> Pieces]

\* Type and colour are seen as they are.
LEMMA SeenPiece ==
  ASSUME NEW b
  PROVE  /\ DOMAIN SeenOf(b) = DOMAIN b
         /\ \A l \in DOMAIN b : SeenOf(b)[l] = [type |-> b[l].type, color |-> b[l].color]
         /\ \A l \in DOMAIN b : SeenOf(b)[l].type = b[l].type /\ SeenOf(b)[l].color = b[l].color
  BY DEF SeenOf

\* What stands on a board is a piece of a colour.
LEMMA PieceIsOne ==
  ASSUME NEW b, IsBoard(b), NEW l \in DOMAIN b
  PROVE  /\ l \in All /\ b[l] \in Pieces /\ b[l].color \in Colors
         /\ b[l].type \in {"pawn", "knight", "king", "rook", "bishop", "queen"}
  BY DEF IsBoard, Pieces, Types, Promotions

\* All but pawns go where they attack, kings and their own pieces apart.
LEMMA OfficerMovesAreSeen ==
  ASSUME NEW b, IsBoard(b), NEW from \in DOMAIN b, NEW to \in All, b[from].type # "pawn"
  PROVE  CanPieceMove(b, from, to) <=>
           /\ NotAKing(b, to) /\ NotItsOwn(b, from, to)
           /\ Rules!Attacks(SeenOf(b), from, to)
<1> DEFINE p == SeenOf(b)
<1>1. /\ from \in All /\ p[from].type = b[from].type /\ DOMAIN p = DOMAIN b
      /\ b[from].type \in {"knight", "king", "rook", "bishop", "queen"}
  BY PieceIsOne, SeenPiece
<1>2. Rules!Between(from, to) \cap DOMAIN p = {} <=> NothingBetween(b, from, to)
  BY <1>1 DEF NothingBetween
<1> HIDE DEF p
<1>3. SUFFICES ASSUME from # to
               PROVE  CanPieceMove(b, from, to) <=>
                        NotAKing(b, to) /\ NotItsOwn(b, from, to) /\ Rules!Attacks(p, from, to)
  BY DEF CanPieceMove, Rules!Attacks, p
<1>4. CASE b[from].type = "knight"
  <2>1. CanPieceMove(b, from, to) <=> CanJump(b, from, to, KnightOffsets)
    BY <1>3, <1>4 DEF CanPieceMove
  <2>2. Rules!Attacks(p, from, to) <=> {Rules!Files(from, to), Rules!Ranks(from, to)} = {1, 2}
    BY <1>1, <1>3, <1>4 DEF Rules!Attacks
  <2> QED
    BY <1>1, <2>1, <2>2, KnightIsSeen
<1>5. CASE b[from].type = "king"
  <2>1. CanPieceMove(b, from, to) <=> CanJump(b, from, to, KingOffsets)
    BY <1>3, <1>5 DEF CanPieceMove
  <2>2. Rules!Attacks(p, from, to) <=> Rules!Distance(from, to) = 1
    BY <1>1, <1>3, <1>5 DEF Rules!Attacks
  <2> QED
    BY <1>1, <2>1, <2>2, KingIsSeen
<1>6. CASE b[from].type = "rook"
  <2>1. CanPieceMove(b, from, to) <=> CanSlideStraight(b, from, to)
    BY <1>3, <1>6 DEF CanPieceMove
  <2>2. Rules!Attacks(p, from, to) <=> Rules!Straight(from, to) /\ NothingBetween(b, from, to)
    BY <1>1, <1>2, <1>3, <1>6 DEF Rules!Attacks
  <2> QED
    BY <1>1, <1>3, <2>1, <2>2, StraightIsSeen
<1>7. CASE b[from].type = "bishop"
  <2>1. CanPieceMove(b, from, to) <=> CanSlideDiagonally(b, from, to)
    BY <1>3, <1>7 DEF CanPieceMove
  <2>2. Rules!Attacks(p, from, to) <=> Rules!Diagonal(from, to) /\ NothingBetween(b, from, to)
    BY <1>1, <1>2, <1>3, <1>7 DEF Rules!Attacks
  <2> QED
    BY <1>1, <1>3, <2>1, <2>2, DiagonalIsSeen
<1>8. CASE b[from].type = "queen"
  <2>1. CanPieceMove(b, from, to) <=>
          CanSlideStraight(b, from, to) \/ CanSlideDiagonally(b, from, to)
    BY <1>3, <1>8 DEF CanPieceMove
  <2>2. Rules!Attacks(p, from, to) <=>
          (Rules!Straight(from, to) \/ Rules!Diagonal(from, to)) /\ NothingBetween(b, from, to)
    BY <1>1, <1>2, <1>3, <1>8 DEF Rules!Attacks
  <2> QED
    BY <1>1, <1>3, <2>1, <2>2, StraightIsSeen, DiagonalIsSeen
<1> QED
  BY <1>1, <1>4, <1>5, <1>6, <1>7, <1>8

\* One to the side and one ahead.
AheadAside(from, to, dx, c) ==
  CanIncrement(from, <<dx, Forward(c)>>) /\ to = Incremented(from, <<dx, Forward(c)>>)

\* One ahead and dx to the side, by column and row.
LEMMA AsideIsPlace ==
  ASSUME NEW from \in All, NEW to \in All, NEW c \in Colors, NEW dx \in Units
  PROVE  AheadAside(from, to, dx, c) <=> X(to) = X(from) + dx /\ Y(to) = Y(from) + Forward(c)
<1> DEFINE xf == X(from)
           yf == Y(from)
           xt == X(to)
           yt == Y(to)
           dy == Forward(c)
<1>1. /\ xf \in 0..7 /\ yf \in 0..7 /\ xt \in 0..7 /\ yt \in 0..7
      /\ from = xf + 8 * yf /\ to = xt + 8 * yt
  BY SquareIsPlace
<1>2. dx \in Int /\ dy \in Int
  BY DEF Units, Forward
<1>3. AheadAside(from, to, dx, c) <=> xf + dx \in 0..7 /\ yf + dy \in 0..7 /\ to = from + dx + 8 * dy
  BY DEF AheadAside, CanIncrement, Incremented
<1>4. ASSUME xf + dx \in 0..7, yf + dy \in 0..7
      PROVE  /\ X((xf + dx) + 8 * (yf + dy)) = xf + dx
             /\ Y((xf + dx) + 8 * (yf + dy)) = yf + dy
  BY <1>4, PlaceIsSquare
<1> HIDE DEF xf, yf, dy
<1>5. from + dx + 8 * dy = (xf + dx) + 8 * (yf + dy)
  BY <1>1, <1>2
<1>6. xt = xf + dx /\ yt = yf + dy => to = (xf + dx) + 8 * (yf + dy)
  BY <1>1, Zenon
<1>7. AheadAside(from, to, dx, c) <=> xt = xf + dx /\ yt = yf + dy
  <2>1. ASSUME xf + dx \in 0..7, yf + dy \in 0..7, to = from + dx + 8 * dy
        PROVE  xt = xf + dx /\ yt = yf + dy
    BY <1>4, <1>5, <2>1
  <2>2. ASSUME xt = xf + dx, yt = yf + dy
        PROVE  xf + dx \in 0..7 /\ yf + dy \in 0..7 /\ to = from + dx + 8 * dy
    BY <1>1, <1>5, <1>6, <2>2
  <2> QED
    BY <1>3, <2>1, <2>2
<1> QED
  BY <1>7 DEF xf, yf, dy

\* Pawns attack ahead to both sides.
LEMMA PawnAttacksAside ==
  ASSUME NEW p, NEW from \in All, NEW to \in All, NEW c \in Colors,
         p[from].type = "pawn", p[from].color = c
  PROVE  Rules!Attacks(p, from, to) <=> \E dx \in {-1, 1} : AheadAside(from, to, dx, c)
<1> DEFINE xf == X(from)
           xt == X(to)
<1>1. xf \in Int /\ xt \in Int /\ Y(from) \in Int /\ Y(to) \in Int
  BY SquareIsPlace
<1>2. Rules!Attacks(p, from, to) <=>
        from # to /\ Rules!Files(from, to) = 1 /\ Y(to) - Y(from) = Forward(c)
  BY DEF Rules!Attacks, Rules!Rank, Rules!Forward, Y, Forward
<1>3. Rules!Files(from, to) = 1 <=> xt = xf - 1 \/ xt = xf + 1
  BY <1>1, FilesAndRanks DEF Rules!AbsOf
<1>4. Y(to) - Y(from) = Forward(c) <=> Y(to) = Y(from) + Forward(c)
  BY <1>1 DEF Forward
<1>5. \A dx \in {-1, 1} : AheadAside(from, to, dx, c) <=> xt = xf + dx /\ Y(to) = Y(from) + Forward(c)
  BY AsideIsPlace DEF Units
<1>6. (\E dx \in {-1, 1} : AheadAside(from, to, dx, c)) <=>
        (xt = xf + (-1) \/ xt = xf + 1) /\ Y(to) = Y(from) + Forward(c)
  BY <1>5, Zenon
<1>7. xf + (-1) = xf - 1
  BY <1>1
<1>8. from # to \/ ~(Y(to) = Y(from) + Forward(c))
  BY <1>1 DEF Forward
<1> QED
  BY <1>2, <1>3, <1>4, <1>6, <1>7, <1>8

\* Forward is away from the own row.
LEMMA AheadIsNotHome ==
  ASSUME NEW from \in All, NEW to \in All, NEW c \in Colors,
         \/ Y(to) = Y(from) + Forward(c)
         \/ Y(to) = Y(from) + 2 * Forward(c)
  PROVE  Y(to) # (IF c = "white" THEN 0 ELSE 7) /\ from # to /\ Y(from) # Y(to)
<1>1. Y(from) \in 0..7 /\ Y(to) \in 0..7
  BY SquareIsPlace
<1> QED
  BY <1>1 DEF Forward

\* A piece may take what it attacks.
LEMMA TakingIsAttack ==
  ASSUME NEW b, IsBoard(b), NEW from \in DOMAIN b, NEW to \in DOMAIN b,
         b[to].type # "king", b[to].color # b[from].color
  PROVE  CanPieceMove(b, from, to) <=> Rules!Attacks(SeenOf(b), from, to)
<1>1. NotAKing(b, to) /\ NotItsOwn(b, from, to) /\ from \in All /\ to \in All
  BY PieceIsOne DEF NotAKing, NotItsOwn
<1>2. CASE b[from].type # "pawn"
  BY <1>1, <1>2, OfficerMovesAreSeen
<1>3. CASE b[from].type = "pawn"
  <2> DEFINE c == b[from].color
  <2>1. c \in Colors /\ b[to].color = Opposite(c)
    BY PieceIsOne DEF Colors, Opposite
  <2>2. CanPieceMove(b, from, to) <=> from # to /\ PawnCanMove(b, from, to)
    BY <1>3 DEF CanPieceMove
  <2>3. SeenOf(b)[from].type = "pawn" /\ SeenOf(b)[from].color = c
    BY <1>3, SeenPiece
  <2> HIDE DEF c
  <2>4. Rules!Attacks(SeenOf(b), from, to) <=> \E dx \in {-1, 1} : AheadAside(from, to, dx, c)
    BY <1>1, <2>1, <2>3, PawnAttacksAside
  <2>5. ASSUME PawnCanMove(b, from, to) PROVE \E dx \in {-1, 1} : AheadAside(from, to, dx, c)
    BY <2>5 DEF PawnCanMove, AheadAside, c
  <2>6. ASSUME NEW dx \in {-1, 1}, AheadAside(from, to, dx, c)
        PROVE  from # to /\ PawnCanMove(b, from, to)
    <3>1. dx \in Units
      BY DEF Units
    <3>2. Y(to) = Y(from) + Forward(c)
      BY <1>1, <2>1, <2>6, <3>1, AsideIsPlace
    <3>3. Y(to) # (IF c = "white" THEN 0 ELSE 7) /\ from # to
      BY <1>1, <2>1, <3>2, AheadIsNotHome
    <3> QED
      BY <1>1, <2>1, <2>6, <3>3 DEF PawnCanMove, AheadAside, c
  <2> QED
    BY <2>2, <2>4, <2>5, <2>6
<1> QED
  BY <1>2, <1>3

\* What a piece attacks depends on it, and on where pieces stand.
LEMMA AttackDependsOn ==
  ASSUME NEW p, NEW q, NEW a, NEW t, DOMAIN p = DOMAIN q, p[a] = q[a]
  PROVE  Rules!Attacks(p, a, t) <=> Rules!Attacks(q, a, t)
  BY DEF Rules!Attacks

\* isColorInCheck finds exactly the kings that are attacked.
LEMMA CheckIsSeen ==
  ASSUME NEW b, IsBoard(b), NEW c \in Colors
  PROVE  IsColorInCheck(b, c) <=> Rules!InCheck(SeenOf(b), c)
<1> DEFINE p == SeenOf(b)
<1>1. ASSUME NEW k \in All, Has(b, k, "king", c), NEW l \in DOMAIN b, b[l].color = Opposite(c)
      PROVE  CanPieceMove([b EXCEPT ![k] = Piece("pawn", c)], l, k) <=> Rules!Attacks(p, l, k)
  <2> DEFINE n == [b EXCEPT ![k] = Piece("pawn", c)]
  <2>1. k \in DOMAIN b /\ l # k /\ Opposite(c) # c
    BY <1>1, OppositeColor DEF Has
  <2>2. b = [m \in DOMAIN b |-> b[m]] /\ DOMAIN b \subseteq All /\ \A m \in DOMAIN b : b[m] \in Pieces
    BY DEF IsBoard
  <2>3. DOMAIN n = DOMAIN b /\ n[k] = Piece("pawn", c) /\ n[l] = b[l]
          /\ \A m \in DOMAIN b : m # k => n[m] = b[m]
    BY <2>1, <2>2
  <2>4. Piece("pawn", c) \in Pieces /\ Piece("pawn", c).type = "pawn" /\ Piece("pawn", c).color = c
    BY DEF Piece, Pieces, Types, Promotions
  <2>5. IsBoard(n)
    <3>1. n = [m \in DOMAIN b |-> n[m]]
      OBVIOUS
    <3> HIDE DEF n
    <3>2. \A m \in DOMAIN b : n[m] \in Pieces
      BY <2>2, <2>3, <2>4
    <3> QED
      BY <2>2, <2>3, <3>1, <3>2 DEF IsBoard
  <2> HIDE DEF n
  <2>6. CanPieceMove(n, l, k) <=> Rules!Attacks(SeenOf(n), l, k)
    BY <1>1, <2>1, <2>3, <2>4, <2>5, TakingIsAttack
  <2>7. DOMAIN SeenOf(n) = DOMAIN p /\ SeenOf(n)[l] = p[l]
    BY <2>3 DEF SeenOf, p
  <2>8. Rules!Attacks(SeenOf(n), l, k) <=> Rules!Attacks(p, l, k)
    BY <2>7, AttackDependsOn
  <2> QED
    BY <2>6, <2>8 DEF n
<1>2. IsColorInCheck(b, c) <=>
        \E k \in All : Has(b, k, "king", c)
          /\ \E l \in Locations(b, Opposite(c)) : CanPieceMove([b EXCEPT ![k] = Piece("pawn", c)], l, k)
  BY DEF IsColorInCheck
<1>3. Rules!InCheck(p, c) <=>
        \E k \in DOMAIN p : /\ p[k].type = "king" /\ p[k].color = c
                            /\ \E a \in DOMAIN p : p[a].color # c /\ Rules!Attacks(p, a, k)
  BY DEF Rules!InCheck, Rules!Kings, Rules!Attacked
<1>4. \A l \in DOMAIN b : b[l].color # c <=> b[l].color = Opposite(c)
  BY PieceIsOne, OppositeColor DEF Colors, Opposite
<1>5. /\ DOMAIN p = DOMAIN b
      /\ \A l \in DOMAIN b : l \in All /\ p[l].type = b[l].type /\ p[l].color = b[l].color
  BY PieceIsOne, SeenPiece
<1> HIDE DEF p
<1>6. ASSUME IsColorInCheck(b, c) PROVE Rules!InCheck(p, c)
  BY <1>1, <1>2, <1>3, <1>4, <1>5, <1>6 DEF Locations, Has
<1>7. ASSUME Rules!InCheck(p, c) PROVE IsColorInCheck(b, c)
  BY <1>1, <1>2, <1>3, <1>4, <1>5, <1>7 DEF Locations, Has
<1> QED
  BY <1>6, <1>7 DEF p

-----------------------------------------------------------------------------
(* En passant.                                                             *)

PassingOf(b) ==
  IF \E l \in DOMAIN b : b[l].enPassant
    THEN LET l == CHOOSE l \in DOMAIN b : b[l].enPassant
         IN  Incremented(l, <<0, -Forward(b[l].color)>>)
    ELSE -1

\* When c is to move, the pawn that may be taken in passing is the opponent's,
\* has gone two ahead, and left nothing behind it.
PassingIsFair(b, c) ==
  \A l \in DOMAIN b : b[l].enPassant =>
    /\ b[l].color = Opposite(c)
    /\ Y(l) = TwoAheadRow(b[l].color)
    /\ Incremented(l, <<0, -Forward(b[l].color)>>) \notin DOMAIN b

\* The passed square is the one behind the pawn flagged, and is empty.
LEMMA OneIsPassed ==
  ASSUME NEW b, BoardOK(b), NEW c \in Colors, PassingIsFair(b, c)
  PROVE  /\ \A l \in DOMAIN b : b[l].enPassant =>
              PassingOf(b) = l + 8 * Forward(c) /\ Y(l) = TwoAheadRow(Opposite(c))
         /\ PassingOf(b) \in All =>
              \E l \in DOMAIN b : b[l].enPassant /\ PassingOf(b) = l + 8 * Forward(c)
         /\ PassingOf(b) \notin DOMAIN b
<1>1. Forward(Opposite(c)) = -Forward(c) /\ Forward(c) \in Int
  BY DEF Forward, Opposite, Colors
<1>2. ASSUME NEW l \in DOMAIN b, b[l].enPassant
      PROVE  /\ PassingOf(b) = l + 8 * Forward(c)
             /\ Y(l) = TwoAheadRow(Opposite(c))
             /\ PassingOf(b) \notin DOMAIN b
  <2>1. l = CHOOSE m \in DOMAIN b : b[m].enPassant
    BY <1>2 DEF BoardOK
  <2>2. PassingOf(b) = Incremented(l, <<0, -Forward(b[l].color)>>)
    BY <1>2, <2>1 DEF PassingOf
  <2>3. b[l].color = Opposite(c) /\ l \in Int
    <3>1. l \in All
      BY DEF BoardOK
    <3>2. l \in Int
      BY <3>1 DEF All
    <3> QED
      BY <1>2, <3>2, Zenon DEF PassingIsFair
  <2>4. Incremented(l, <<0, -Forward(b[l].color)>>) = l + 8 * Forward(c)
    BY <1>1, <2>3 DEF Incremented
  <2> QED
    BY <1>2, <2>2, <2>3, <2>4 DEF PassingIsFair
<1>3. CASE \E l \in DOMAIN b : b[l].enPassant
  BY <1>2, <1>3
<1>4. CASE ~\E l \in DOMAIN b : b[l].enPassant
  <2>1. PassingOf(b) = -1
    BY <1>4 DEF PassingOf
  <2>2. -1 \notin All /\ DOMAIN b \subseteq All
    BY DEF All, BoardOK
  <2> QED
    BY <1>4, <2>1, <2>2
<1> QED
  BY <1>3, <1>4

\* One to the side and one ahead is the passed square when the pawn there is
\* beside.
LEMMA BesideIsPassed ==
  ASSUME NEW b, BoardOK(b), NEW c \in Colors, PassingIsFair(b, c),
         NEW from \in All, NEW to \in All, NEW dx \in Units, AheadAside(from, to, dx, c)
  PROVE  PassesBeside(b, from, dx, c) <=> to = PassingOf(b)
<1> DEFINE beside == Incremented(from, <<dx, 0>>)
<1>1. from \in Int /\ dx \in Int /\ Forward(c) \in Int /\ beside \in Int
  BY DEF All, Units, Forward, Incremented
<1>2. to = beside + 8 * Forward(c)
  BY <1>1 DEF AheadAside, Incremented
<1>3. PassesBeside(b, from, dx, c) <=>
        beside \in DOMAIN b /\ b[beside].enPassant /\ b[beside].color = Opposite(c)
  BY DEF PassesBeside
<1> HIDE DEF beside
<1>4. ASSUME NEW l \in DOMAIN b, b[l].enPassant, PassingOf(b) = l + 8 * Forward(c), to = PassingOf(b)
      PROVE  beside = l /\ b[l].color = Opposite(c)
  <2>1. l \in All
    BY DEF BoardOK
  <2>2. beside = l
    BY <1>1, <1>2, <1>4, <2>1 DEF All
  <2> QED
    BY <1>4, <2>2 DEF PassingIsFair
<1> QED
  BY <1>2, <1>3, <1>4, OneIsPassed

-----------------------------------------------------------------------------
(* Pawns.                                                                  *)

TwoAhead(from, to, c) == to = Incremented(from, <<0, 2 * Forward(c)>>)

\* Two ahead, by column and row, and what lies between.
LEMMA TwoAheadIsPlace ==
  ASSUME NEW from \in All, NEW to \in All, NEW c \in Colors, Y(from) = PawnRow(c)
  PROVE  /\ TwoAhead(from, to, c) <=> X(to) = X(from) /\ Y(to) = Y(from) + 2 * Forward(c)
         /\ TwoAhead(from, to, c) =>
              Rules!Between(from, to) = {Incremented(from, <<0, Forward(c)>>)}
<1> DEFINE xf == X(from)
           yf == Y(from)
           xt == X(to)
           yt == Y(to)
           yn == yf + 2 * Forward(c)
<1>1. /\ xf \in 0..7 /\ yf \in 0..7 /\ xt \in 0..7 /\ yt \in 0..7
      /\ from = xf + 8 * yf /\ to = xt + 8 * yt
  BY SquareIsPlace
<1>2. Forward(c) \in {-1, 1} /\ yn \in 0..7
  BY DEF PawnRow, Forward
<1>3. X(xf + 8 * yn) = xf /\ Y(xf + 8 * yn) = yn
  BY <1>1, <1>2, PlaceIsSquare
<1>4. Incremented(from, <<0, 2 * Forward(c)>>) = xf + 8 * yn
  <2>1. Incremented(from, <<0, 2 * Forward(c)>>) = from + 0 + 8 * (2 * Forward(c))
    BY DEF Incremented
  <2> HIDE DEF xf, yf
  <2> QED
    BY <1>1, <1>2, <2>1
<1>5. TwoAhead(from, to, c) <=> X(to) = X(from) /\ Y(to) = Y(from) + 2 * Forward(c)
  <2>1. TwoAhead(from, to, c) => xt = xf /\ yt = yn
    BY <1>3, <1>4 DEF TwoAhead
  <2>2. xt = xf /\ yt = yn => TwoAhead(from, to, c)
    <3> HIDE DEF xf, yn, xt, yt
    <3> QED
      BY <1>1, <1>4 DEF TwoAhead
  <2> QED
    BY <2>1, <2>2
<1>6. ASSUME TwoAhead(from, to, c)
      PROVE  Rules!Between(from, to) = {Incremented(from, <<0, Forward(c)>>)}
  <2>1. 0 \in Units /\ Forward(c) \in Units /\ Forward(c) # 0 /\ 2 \in 1..7
    BY <1>2 DEF Units
  <2>2. Along(2, 0) = 0 /\ Along(2, Forward(c)) = 2 * Forward(c)
    BY <1>2 DEF Along
  <2>3. OnLine(from, to, 2, 0, Forward(c))
    BY <1>1, <1>5, <1>6, <2>2 DEF OnLine
  <2>4. Rules!Between(from, to) = {Walked(from, k, 0, Forward(c)) : k \in 1..(2 - 1)}
    BY <2>1, <2>3, LineIsSeen
  <2>5. 1..(2 - 1) = {1}
    OBVIOUS
  <2>6. Walked(from, 1, 0, Forward(c)) = Incremented(from, <<0, Forward(c)>>)
    BY <1>2 DEF Walked, Along, Incremented, All
  <2> QED
    BY <2>4, <2>5, <2>6
<1> QED
  BY <1>5, <1>6

\* Pawns go and take, also in passing, as the rules say.
LEMMA PawnMovesAreSeen ==
  ASSUME NEW b, BoardOK(b), NEW c \in Colors, PassingIsFair(b, c),
         NEW from \in DOMAIN b, NEW to \in All,
         b[from].type = "pawn", b[from].color = c, NotAKing(b, to)
  PROVE  CanPieceMove(b, from, to) <=> Rules!Reaches(SeenOf(b), PassingOf(b), from, to)
<1> DEFINE p == SeenOf(b)
           f == Forward(c)
           ahead == Incremented(from, <<0, f>>)
<1>1. /\ IsBoard(b) /\ from \in All /\ DOMAIN p = DOMAIN b
      /\ p[from].type = "pawn" /\ p[from].color = c
      /\ to \in DOMAIN b => p[to].color = b[to].color
  BY SeenPiece DEF BoardOK, IsBoard
<1>2. f \in {-1, 1} /\ Rules!Forward(c) = f /\ Rules!HomeRank(c) + f = PawnRow(c)
  BY DEF Forward, Rules!Forward, Rules!HomeRank, PawnRow
<1>3. X(from) \in Int /\ X(to) \in Int /\ Y(from) \in Int /\ Y(to) \in Int
  BY <1>1, SquareIsPlace
<1>4. Rules!Files(from, to) = 0 <=> X(to) = X(from)
  BY <1>3, FilesAndRanks DEF Rules!AbsOf
<1>5. Rules!Rank(from) = Y(from) /\ Rules!Rank(to) = Y(to)
  BY DEF Rules!Rank, Y
<1>6. to \in DOMAIN b => (b[to].color # c <=> b[to].color = Opposite(c))
  BY <1>1, PieceIsOne, OppositeColor DEF Colors, Opposite
<1> HIDE DEF p, f, ahead
<1>7. CanPieceMove(b, from, to) <=>
        /\ from # to
        /\ Y(to) # (IF c = "white" THEN 0 ELSE 7)
        /\ \/ AheadAside(from, to, 0, c) /\ to \notin DOMAIN b
           \/ Y(from) = PawnRow(c) /\ ahead \notin DOMAIN b /\ TwoAhead(from, to, c) /\ to \notin DOMAIN b
           \/ \E dx \in {-1, 1} :
                /\ AheadAside(from, to, dx, c)
                /\ (to \in DOMAIN b /\ b[to].color = Opposite(c)) \/ PassesBeside(b, from, dx, c)
  <2>1. CanPieceMove(b, from, to) <=> from # to /\ PawnCanMove(b, from, to)
    BY DEF CanPieceMove
  <2>2. PawnCanMove(b, from, to) <=>
          /\ Y(to) # (IF c = "white" THEN 0 ELSE 7)
          /\ \/ AheadAside(from, to, 0, c) /\ to \notin DOMAIN b
             \/ Y(from) = PawnRow(c) /\ ahead \notin DOMAIN b /\ TwoAhead(from, to, c) /\ to \notin DOMAIN b
             \/ \E dx \in {-1, 1} :
                  /\ AheadAside(from, to, dx, c)
                  /\ (to \in DOMAIN b /\ b[to].color = Opposite(c)) \/ PassesBeside(b, from, dx, c)
    BY Zenon DEF PawnCanMove, AheadAside, TwoAhead, ahead, f
  <2> QED
    BY <2>1, <2>2
<1>8. AheadAside(from, to, 0, c) <=> X(to) = X(from) /\ Y(to) = Y(from) + f
  BY <1>1, <1>3, AsideIsPlace DEF Units, f
<1>9. Y(from) = PawnRow(c) =>
        /\ TwoAhead(from, to, c) <=> X(to) = X(from) /\ Y(to) = Y(from) + 2 * f
        /\ TwoAhead(from, to, c) => Rules!Between(from, to) = {ahead}
  BY <1>1, TwoAheadIsPlace DEF f, ahead
<1>10. \A dx \in {-1, 1} : AheadAside(from, to, dx, c) =>
         /\ PassesBeside(b, from, dx, c) <=> to = PassingOf(b)
         /\ Y(to) = Y(from) + f
  BY <1>1, BesideIsPassed, AsideIsPlace DEF Units, f
<1>11. Rules!Attacks(p, from, to) <=> \E dx \in {-1, 1} : AheadAside(from, to, dx, c)
  BY <1>1, PawnAttacksAside
<1>12. Y(to) = Y(from) + f \/ Y(to) = Y(from) + 2 * f =>
         from # to /\ Y(to) # (IF c = "white" THEN 0 ELSE 7)
  BY <1>1, AheadIsNotHome DEF f
<1>13. PassingOf(b) \notin DOMAIN b
  BY OneIsPassed
<1>14. Rules!Reaches(p, PassingOf(b), from, to) <=>
         /\ to \in DOMAIN b => b[to].color # c
         /\ \/ Rules!Attacks(p, from, to) /\ (to \in DOMAIN b \/ to = PassingOf(b))
            \/ /\ X(to) = X(from) /\ to \notin DOMAIN b
               /\ \/ Y(to) - Y(from) = f
                  \/ /\ Y(from) = PawnRow(c) /\ Y(to) - Y(from) = 2 * f
                     /\ Rules!Between(from, to) \cap DOMAIN b = {}
  BY <1>1, <1>2, <1>4, <1>5 DEF Rules!Reaches
<1>15. /\ Y(to) - Y(from) = f <=> Y(to) = Y(from) + f
       /\ Y(to) - Y(from) = 2 * f <=> Y(to) = Y(from) + 2 * f
  BY <1>2, <1>3
<1> DEFINE aside == \E dx \in {-1, 1} : AheadAside(from, to, dx, c)
           two == Y(from) = PawnRow(c) /\ TwoAhead(from, to, c)
<1>16. CanPieceMove(b, from, to) <=>
         \/ AheadAside(from, to, 0, c) /\ to \notin DOMAIN b
         \/ two /\ ahead \notin DOMAIN b /\ to \notin DOMAIN b
         \/ aside /\ ((to \in DOMAIN b /\ b[to].color = Opposite(c)) \/ to = PassingOf(b))
  <2>1. AheadAside(from, to, 0, c) \/ two \/ aside => Y(to) = Y(from) + f \/ Y(to) = Y(from) + 2 * f
    BY <1>8, <1>9, <1>10
  <2> QED
    BY <1>7, <1>10, <1>12, <2>1, Zenon
<1>17. Rules!Reaches(p, PassingOf(b), from, to) <=>
         /\ to \in DOMAIN b => b[to].color # c
         /\ \/ aside /\ (to \in DOMAIN b \/ to = PassingOf(b))
            \/ AheadAside(from, to, 0, c) /\ to \notin DOMAIN b
            \/ two /\ ahead \notin DOMAIN b /\ to \notin DOMAIN b
  <2>1. two => (Rules!Between(from, to) \cap DOMAIN b = {} <=> ahead \notin DOMAIN b)
    BY <1>9
  <2>2. two <=> Y(from) = PawnRow(c) /\ X(to) = X(from) /\ Y(to) = Y(from) + 2 * f
    BY <1>9
  <2> HIDE DEF two
  <2> QED
    BY <1>8, <1>11, <1>14, <1>15, <2>1, <2>2, Zenon
<1> HIDE DEF aside, two
<1> QED
  BY <1>6, <1>13, <1>16, <1>17 DEF p

-----------------------------------------------------------------------------
(* What a move makes of what the rules see.                                *)

\* The piece on a goes to t.
Carried(p, a, t) == [s \in (DOMAIN p \ {a}) \cup {t} |-> IF s = t THEN p[a] ELSE p[s]]

\* A move of anything but a pawn.
LEMMA OfficerIsCarried ==
  ASSUME NEW b, IsBoard(b), NEW from \in DOMAIN b, NEW to, b[from].type # "pawn"
  PROVE  SeenOf(MovePiece(b, from, to)) = Carried(SeenOf(b), from, to)
<1> DEFINE moving == b[from]
           moved == [l \in (DOMAIN b \ {from}) \cup {to} |-> IF l = to THEN Marked(moving) ELSE b[l]]
           result == Flagged(moved, moving, from, to)
           q == Carried(SeenOf(b), from, to)
<1>1. MovePiece(b, from, to) = result
  <2>1. [l \in DOMAIN moved \ {} |-> moved[l]] = moved
    OBVIOUS
  <2> QED
    BY <2>1 DEF MovePiece
<1>2. Marked(moving) \in Pieces /\ Marked(moving).type = moving.type
        /\ Marked(moving).color = moving.color
  <2>1. moving \in Pieces
    BY PieceIsOne
  <2> HIDE DEF moving
  <2> QED
    BY <2>1 DEF Marked, Pieces
<1>3. DOMAIN moved = (DOMAIN b \ {from}) \cup {to} /\ DOMAIN result = DOMAIN moved
        /\ DOMAIN q = DOMAIN moved
  BY SeenPiece DEF Flagged, Carried
<1>4. ASSUME NEW l \in DOMAIN moved
      PROVE  SeenOf(result)[l] = q[l]
  <2>1. moved[l] \in Pieces
    BY <1>2, PieceIsOne
  <2>2. result[l].type = moved[l].type /\ result[l].color = moved[l].color
    <3>1. PICK g : result[l] = [moved[l] EXCEPT !.enPassant = g]
      BY DEF Flagged
    <3> HIDE DEF moved, result
    <3> QED
      BY <2>1, <3>1 DEF Pieces
  <2>3. SeenOf(result)[l] = [type |-> moved[l].type, color |-> moved[l].color]
    BY <1>3, <2>2, SeenPiece
  <2>4. q[l] = IF l = to THEN SeenOf(b)[from] ELSE SeenOf(b)[l]
    BY SeenPiece DEF Carried
  <2> QED
    BY <1>2, <2>3, <2>4, SeenPiece
<1>5. SeenOf(result) = [l \in DOMAIN moved |-> SeenOf(result)[l]] /\ q = [l \in DOMAIN moved |-> q[l]]
  BY <1>3 DEF SeenOf, Carried
<1> HIDE DEF moved, result, q
<1>6. SeenOf(result) = q
  BY <1>4, <1>5
<1> QED
  BY <1>1, <1>6 DEF q

\* The rules carry a piece that is no pawn.
LEMMA OfficerIsAfter ==
  ASSUME NEW p, NEW pass, NEW a \in DOMAIN p, NEW t, p[a].type # "pawn",
         p[a] = [type |-> p[a].type, color |-> p[a].color]
  PROVE  Rules!After(p, pass, a, t, p[a].type) = Carried(p, a, t)
  BY DEF Rules!After, Carried

\* A pawn's.  The one that it takes in passing goes.
LEMMA PawnIsAfter ==
  ASSUME NEW b, BoardOK(b), NEW c \in Colors, PassingIsFair(b, c),
         NEW from \in DOMAIN b, NEW to \in All,
         b[from].type = "pawn", b[from].color = c, CanPieceMove(b, from, to)
  PROVE  SeenOf(MovePiece(b, from, to)) =
           Rules!After(SeenOf(b), PassingOf(b), from, to, "pawn")
<1> DEFINE moving == b[from]
           moved == [l \in (DOMAIN b \ {from}) \cup {to} |-> IF l = to THEN Marked(moving) ELSE b[l]]
           dx == X(to) - X(from)
           beside == Incremented(from, <<dx, 0>>)
           taken == IF moving.type = "pawn" /\ PassesBeside(moved, from, dx, moving.color)
                      THEN {beside} ELSE {}
           left == [l \in DOMAIN moved \ taken |-> moved[l]]
           result == Flagged(left, moving, from, to)
           p == SeenOf(b)
           gone == IF to = PassingOf(b) THEN {beside} ELSE {}
           q == Rules!After(p, PassingOf(b), from, to, "pawn")
<1>1. MovePiece(b, from, to) = result
  BY DEF MovePiece
<1>2. IsBoard(b) /\ from \in All /\ from # to
  BY DEF BoardOK, IsBoard, CanPieceMove
<1>3. Marked(moving) \in Pieces /\ Marked(moving).type = moving.type
        /\ Marked(moving).color = moving.color
  BY <1>2, PieceIsOne DEF Marked, Pieces
<1>4. DOMAIN moved = (DOMAIN b \ {from}) \cup {to} /\ moved[to] = Marked(moving)
        /\ \A l \in DOMAIN moved : l # to => moved[l] = b[l]
  OBVIOUS
<1>5. /\ X(from) \in 0..7 /\ Y(from) \in 0..7 /\ X(to) \in 0..7 /\ Y(to) \in 0..7
      /\ from = X(from) + 8 * Y(from) /\ to = X(to) + 8 * Y(to)
  BY <1>2, SquareIsPlace
<1>6. beside = X(to) + 8 * Y(from)
  <2> DEFINE xf == X(from)
             xt == X(to)
             yf == Y(from)
  <2>1. beside = from + (xt - xf) + 8 * 0
    BY DEF Incremented
  <2>2. xf \in Int /\ xt \in Int /\ yf \in Int /\ from = xf + 8 * yf
    BY <1>2, SquareIsPlace
  <2> HIDE DEF xf, xt, yf, beside
  <2>3. beside = xt + 8 * yf
    BY <2>1, <2>2
  <2> QED
    BY <2>3 DEF xt, yf
<1>7. beside = 8 * Rules!Rank(from) + Rules!File(to)
  BY <1>5, <1>6 DEF Rules!Rank, Rules!File, X, Y
<1>8. \/ dx = 0 /\ Y(to) = Y(from) + Forward(c)
      \/ dx = 0 /\ Y(to) = Y(from) + 2 * Forward(c) /\ Y(from) = PawnRow(c)
      \/ dx \in {-1, 1} /\ AheadAside(from, to, dx, c)
  <2>1. \/ AheadAside(from, to, 0, c)
        \/ Y(from) = PawnRow(c) /\ TwoAhead(from, to, c)
        \/ \E d \in {-1, 1} : AheadAside(from, to, d, c)
    BY Zenon DEF CanPieceMove, PawnCanMove, AheadAside, TwoAhead
  <2>2. CASE AheadAside(from, to, 0, c)
    BY <1>2, <1>5, <2>2, AsideIsPlace DEF Units
  <2>3. CASE Y(from) = PawnRow(c) /\ TwoAhead(from, to, c)
    <3>1. X(to) = X(from) /\ Y(to) = Y(from) + 2 * Forward(c)
      BY <1>2, <2>3, TwoAheadIsPlace
    <3> QED
      BY <1>5, <2>3, <3>1
  <2>4. ASSUME NEW d \in {-1, 1}, AheadAside(from, to, d, c)
        PROVE  dx \in {-1, 1} /\ AheadAside(from, to, dx, c)
    <3>1. X(to) = X(from) + d
      BY <1>2, <2>4, AsideIsPlace DEF Units
    <3>2. dx = d
      BY <1>5, <3>1
    <3> QED
      BY <2>4, <3>2
  <2> QED
    BY <2>1, <2>2, <2>3, <2>4
<1>9. Y(to) # Y(from)
  <2>1. Forward(c) \in {-1, 1}
    BY DEF Forward
  <2>2. CASE dx \in {-1, 1} /\ AheadAside(from, to, dx, c)
    BY <1>2, <1>5, <2>1, <2>2, AsideIsPlace DEF Units
  <2> QED
    BY <1>5, <1>8, <2>1, <2>2
<1>10. beside # to
  BY <1>5, <1>6, <1>9
<1>11. taken = gone
  <2>1. moving.type = "pawn" /\ moving.color = c
    OBVIOUS
  <2>2. PassesBeside(moved, from, dx, c) <=>
          beside \in DOMAIN moved /\ moved[beside].enPassant /\ moved[beside].color = Opposite(c)
    BY DEF PassesBeside
  <2>3. CASE dx = 0
    <3>1. beside = from
      BY <1>5, <1>6, <2>3
    <3>2. ~PassesBeside(moved, from, dx, c)
      BY <1>2, <1>4, <2>2, <3>1
    <3>3. to # PassingOf(b)
      <4> SUFFICES ASSUME to = PassingOf(b) PROVE FALSE
        OBVIOUS
      <4>1. PICK l \in DOMAIN b : b[l].enPassant /\ PassingOf(b) = l + 8 * Forward(c)
        BY OneIsPassed
      <4>2. Y(l) = TwoAheadRow(Opposite(c)) /\ b[l].color = Opposite(c) /\ l \in All
        BY <1>2, <4>1, OneIsPassed, PieceIsOne DEF PassingIsFair
      <4>3. l # from
        BY <4>2, OppositeColor
      <4>4. Forward(c) \in Int
        BY DEF Forward
      <4>5. X(l) \in Int /\ Y(l) \in Int /\ l = X(l) + 8 * Y(l)
        BY <4>2, SquareIsPlace
      <4>6. to = X(l) + 8 * (Y(l) + Forward(c))
        BY <4>1, <4>4, <4>5
      <4>7. Y(l) \in 1..6 /\ Y(l) + Forward(c) \in 0..7 /\ X(l) \in 0..7
        BY <4>2, SquareIsPlace DEF TwoAheadRow, Forward, Opposite, Colors
      <4>8. X(to) = X(l) /\ Y(to) = Y(l) + Forward(c)
        BY <4>6, <4>7, PlaceIsSquare
      <4>9. Y(to) # Y(from) + Forward(c)
        <5>1. X(l) = X(from)
          BY <1>5, <2>3, <4>8
        <5>2. Y(l) # Y(from)
          BY <1>2, <4>2, <4>3, <5>1, SamePlaceSameSquare
        <5> QED
          <6>1. Y(from) \in Int /\ Y(l) \in Int /\ Y(to) = Y(l) + Forward(c)
            BY <1>5, <4>5, <4>8
          <6> QED
            BY <4>4, <5>2, <6>1
      <4>10. Y(to) = Y(from) + 2 * Forward(c) /\ Y(from) = PawnRow(c)
        BY <1>8, <2>3, <4>9
      <4> QED
        BY <4>2, <4>8, <4>10 DEF PawnRow, TwoAheadRow, Forward, Opposite, Colors
    <3> QED
      BY <2>1, <3>2, <3>3
  <2>4. CASE dx \in {-1, 1} /\ AheadAside(from, to, dx, c)
    <3>1. PassesBeside(b, from, dx, c) <=> to = PassingOf(b)
      BY <1>2, <2>4, BesideIsPassed DEF Units
    <3>2. beside # from
      BY <1>5, <1>6, <2>4
    <3>3. PassesBeside(b, from, dx, c) <=>
            beside \in DOMAIN b /\ b[beside].enPassant /\ b[beside].color = Opposite(c)
      BY DEF PassesBeside
    <3>4. PassesBeside(moved, from, dx, c) <=> PassesBeside(b, from, dx, c)
      <4> HIDE DEF moved, beside, dx
      <4> QED
        BY <1>4, <1>10, <2>2, <3>2, <3>3
    <3> QED
      BY <2>1, <3>1, <3>4
  <2> QED
    BY <1>8, <2>3, <2>4
<1> DEFINE D == (DOMAIN b \ ({from} \cup gone)) \cup {to}
<1>12. DOMAIN result = D
  <2>1. DOMAIN result = DOMAIN moved \ taken
    BY DEF Flagged
  <2>2. to \notin gone
    BY <1>10
  <2> QED
    BY <1>4, <1>11, <2>1, <2>2
<1>13. q = [s \in D |-> IF s = to THEN [type |-> "pawn", color |-> p[from].color] ELSE p[s]]
  <2>1. (IF p[from].type = "pawn" /\ to = PassingOf(b)
           THEN {8 * Rules!Rank(from) + Rules!File(to)} ELSE {}) = gone
    BY <1>7, SeenPiece
  <2>2. DOMAIN p = DOMAIN b
    BY SeenPiece
  <2> HIDE DEF p, gone
  <2> QED
    BY <2>1, <2>2 DEF Rules!After
<1>14. ASSUME NEW l \in D
       PROVE  SeenOf(result)[l] = q[l]
  <2>1. l \in DOMAIN moved /\ l \in DOMAIN left /\ left[l] = moved[l] /\ moved[l] \in Pieces
    BY <1>2, <1>3, <1>4, <1>11, <1>12, PieceIsOne DEF Flagged
  <2>2. result[l].type = moved[l].type /\ result[l].color = moved[l].color
    <3>1. PICK g : result[l] = [left[l] EXCEPT !.enPassant = g]
      BY <2>1 DEF Flagged
    <3> HIDE DEF moved, result, left
    <3> QED
      BY <2>1, <3>1 DEF Pieces
  <2>3. SeenOf(result)[l] = [type |-> moved[l].type, color |-> moved[l].color]
    BY <1>12, <2>2, SeenPiece
  <2>4. q[l] = IF l = to THEN [type |-> "pawn", color |-> c] ELSE p[l]
    BY <1>13, SeenPiece
  <2>5. l # to => l \in DOMAIN b /\ p[l] = [type |-> b[l].type, color |-> b[l].color]
    BY SeenPiece
  <2> HIDE DEF moved, result, left, q, p, D
  <2> QED
    BY <1>3, <1>4, <2>1, <2>3, <2>4, <2>5
<1>15. SeenOf(result) = [l \in D |-> SeenOf(result)[l]] /\ q = [l \in D |-> q[l]]
  BY <1>12, <1>13 DEF SeenOf
<1> HIDE DEF D, result, q
<1>16. SeenOf(result) = q
  BY <1>14, <1>15
<1> QED
  BY <1>1, <1>16 DEF q

\* BoardOK says of the pieces what IsBoard says.
LEMMA BoardIsBoard ==
  ASSUME NEW b, BoardOK(b)
  PROVE  IsBoard(b)
  BY DEF BoardOK, IsBoard

\* movePiece does what the rules say a move does.
LEMMA MoveIsAfter ==
  ASSUME NEW b, BoardOK(b), NEW c \in Colors, PassingIsFair(b, c),
         NEW from \in DOMAIN b, NEW to \in All, b[from].color = c, CanPieceMove(b, from, to)
  PROVE  SeenOf(MovePiece(b, from, to)) =
           Rules!After(SeenOf(b), PassingOf(b), from, to, b[from].type)
<1>1. CASE b[from].type = "pawn"
  BY <1>1, PawnIsAfter
<1>2. CASE b[from].type # "pawn"
  <2>1. SeenOf(MovePiece(b, from, to)) = Carried(SeenOf(b), from, to)
    BY <1>2, BoardIsBoard, OfficerIsCarried
  <2>2. /\ from \in DOMAIN SeenOf(b)
        /\ SeenOf(b)[from].type = b[from].type
        /\ SeenOf(b)[from] = [type |-> SeenOf(b)[from].type, color |-> SeenOf(b)[from].color]
    BY SeenPiece
  <2> QED
    BY <1>2, <2>1, <2>2, OfficerIsAfter
<1> QED
  BY <1>1, <1>2

\* Who may be taken is no king: it would have been in check.
LEMMA ReachesSpareKings ==
  ASSUME NEW b, BoardOK(b), NEW c \in Colors, ~IsColorInCheck(b, Opposite(c)),
         NEW pass, NEW from \in DOMAIN b, NEW to \in All, b[from].color = c,
         Rules!Reaches(SeenOf(b), pass, from, to)
  PROVE  NotAKing(b, to)
<1> DEFINE p == SeenOf(b)
<1>1. SUFFICES ASSUME to \in DOMAIN b, b[to].type = "king"
               PROVE  FALSE
  BY DEF NotAKing
<1>2. /\ DOMAIN p = DOMAIN b /\ p[from].color = c /\ p[from].type = b[from].type
      /\ p[to].type = "king" /\ p[to].color = b[to].color
  BY <1>1, SeenPiece
<1>3. b[to].color # c
  BY <1>1, <1>2 DEF Rules!Reaches
<1>4. b[to].color = Opposite(c) /\ Opposite(c) \in Colors /\ c # Opposite(c)
  BY <1>1, <1>3, BoardIsBoard, PieceIsOne, OppositeColor DEF Colors, Opposite
<1>5. Rules!Attacks(p, from, to)
  BY <1>1, <1>2 DEF Rules!Reaches
<1> HIDE DEF p
<1>6. Rules!InCheck(p, Opposite(c))
  BY <1>1, <1>2, <1>4, <1>5 DEF Rules!InCheck, Rules!Kings, Rules!Attacked
<1> QED
  BY <1>4, <1>6, BoardIsBoard, CheckIsSeen DEF p

\* A piece may go, its king's safety apart, where the rules let it.
LEMMA MovesAreSeen ==
  ASSUME NEW b, BoardOK(b), NEW c \in Colors, PassingIsFair(b, c),
         ~IsColorInCheck(b, Opposite(c)),
         NEW from \in DOMAIN b, NEW to \in All, b[from].color = c
  PROVE  CanPieceMove(b, from, to) <=> Rules!Reaches(SeenOf(b), PassingOf(b), from, to)
<1> DEFINE p == SeenOf(b)
<1>1. CanPieceMove(b, from, to) \/ Rules!Reaches(p, PassingOf(b), from, to) => NotAKing(b, to)
  BY MovesSpareKings, ReachesSpareKings
<1>2. CASE b[from].type = "pawn"
  BY <1>1, <1>2, PawnMovesAreSeen
<1>3. CASE b[from].type # "pawn"
  <2>1. CanPieceMove(b, from, to) <=>
          NotAKing(b, to) /\ NotItsOwn(b, from, to) /\ Rules!Attacks(p, from, to)
    BY <1>3, BoardIsBoard, OfficerMovesAreSeen
  <2>2. /\ DOMAIN p = DOMAIN b /\ p[from].color = b[from].color /\ p[from].type = b[from].type
        /\ to \in DOMAIN b => p[to].color = b[to].color
    BY SeenPiece
  <2> HIDE DEF p
  <2>3. Rules!Reaches(p, PassingOf(b), from, to) <=>
          NotItsOwn(b, from, to) /\ Rules!Attacks(p, from, to)
    BY <1>3, <2>2 DEF Rules!Reaches, NotItsOwn
  <2> QED
    BY <1>1, <2>1, <2>3 DEF p
<1> QED
  BY <1>2, <1>3

\* A player may make the moves that the rules allow.
LEMMA LegalIsSeen ==
  ASSUME NEW b, BoardOK(b), NEW c \in Colors, PassingIsFair(b, c),
         ~IsColorInCheck(b, Opposite(c)), NEW from \in DOMAIN b, NEW to \in All
  PROVE  CanMovePiece(b, c, from, to) <=>
           b[from].color = c /\ Rules!Legal(SeenOf(b), PassingOf(b), from, to)
<1> SUFFICES ASSUME b[from].color = c
             PROVE  CanMovePiece(b, c, from, to) <=> Rules!Legal(SeenOf(b), PassingOf(b), from, to)
  BY DEF CanMovePiece
<1> DEFINE p == SeenOf(b)
           moved == MovePiece(b, from, to)
<1>1. p[from].color = c /\ p[from].type = b[from].type
  BY SeenPiece
<1>2. CanMovePiece(b, c, from, to) <=> CanPieceMove(b, from, to) /\ ~IsColorInCheck(moved, c)
  BY DEF CanMovePiece, CanPieceMove
<1>3. ASSUME CanPieceMove(b, from, to)
      PROVE  IsColorInCheck(moved, c) <=>
               Rules!InCheck(Rules!After(p, PassingOf(b), from, to, b[from].type), c)
  <2>1. IsBoard(moved)
    BY <1>3, MovesSpareKings, MoveKeepsBoard, BoardIsBoard
  <2>2. IsColorInCheck(moved, c) <=> Rules!InCheck(SeenOf(moved), c)
    BY <2>1, CheckIsSeen
  <2> QED
    BY <1>3, <2>2, MoveIsAfter
<1>4. CanPieceMove(b, from, to) <=> Rules!Reaches(p, PassingOf(b), from, to)
  BY MovesAreSeen
<1> HIDE DEF p, moved
<1>5. Rules!Legal(p, PassingOf(b), from, to) <=>
        /\ Rules!Reaches(p, PassingOf(b), from, to)
        /\ ~Rules!InCheck(Rules!After(p, PassingOf(b), from, to, b[from].type), c)
  BY <1>1 DEF Rules!Legal
<1> QED
  BY <1>2, <1>3, <1>4, <1>5 DEF p

\* isColorAbleToMove finds a move when the rules allow one.
LEMMA AbleIsSeen ==
  ASSUME NEW b, BoardOK(b), NEW c \in Colors, PassingIsFair(b, c),
         ~IsColorInCheck(b, Opposite(c))
  PROVE  IsColorAbleToMove(b, c) <=> Rules!CanMove(SeenOf(b), PassingOf(b), c)
<1>1. IsColorAbleToMove(b, c) <=>
        \E l \in DOMAIN b : \E t \in All : CanMovePiece(b, c, l, t)
  BY DEF IsColorAbleToMove, Locations, CanMovePiece, CanPieceMove
<1>2. Rules!All = All
  BY DEF Rules!All, All
<1>3. Rules!CanMove(SeenOf(b), PassingOf(b), c) <=>
        \E l \in DOMAIN b : \E t \in All :
          b[l].color = c /\ Rules!Legal(SeenOf(b), PassingOf(b), l, t)
  BY <1>2, SeenPiece DEF Rules!CanMove
<1> QED
  BY <1>1, <1>3, LegalIsSeen

-----------------------------------------------------------------------------
(* Games.                                                                  *)

\* A king that has never moved is at home.
KingsAreAtHome(b) ==
  \A l \in DOMAIN b : b[l].type = "king" /\ ~b[l].hasMoved => l = KingStart(b[l].color)

NoPawnIsLeft(b) ==
  \A l \in DOMAIN b : b[l].type = "pawn" => Y(l) # LastRow(b[l].color)

\* c is to move: nothing but a pawn's passing needs an answer, and it could not
\* take the king.
IsFair(b, c) == PassingIsFair(b, c) /\ ~IsColorInCheck(b, Opposite(c))

\* The inductive invariant, with TypeOK.  That no pawn waits on its last row is
\* there for the promotion: the pawn that is promoted is the one that moved.
IsGame ==
  /\ KingsAreAtHome(board) /\ NoPawnIsLeft(board)
  /\ state = "inProgress" => IsFair(board, turn)

-----------------------------------------------------------------------------
(* Castling: squares of a row, and who looks along it.                     *)

InLine(a, t) == a # t /\ (Rules!Straight(a, t) \/ Rules!Diagonal(a, t))

\* Who attacks a square still does after others have gone elsewhere, if none
\* of them has come between.
LEMMA AttackLasts ==
  ASSUME NEW p, NEW q, NEW a, NEW t, p[a] = q[a], Rules!Attacks(p, a, t),
         p[a].type \in {"pawn", "knight", "king", "rook", "bishop", "queen"},
         /\ InLine(a, t)
         /\ p[a].type \in {"rook", "bishop", "queen"}
         /\ p[a].type = "rook" => Rules!Straight(a, t)
         /\ p[a].type = "bishop" => Rules!Diagonal(a, t)
         /\ Rules!Between(a, t) \cap DOMAIN p = {}
         => Rules!Between(a, t) \cap DOMAIN q = {}
  PROVE  Rules!Attacks(q, a, t)
<1>1. a # t
  BY DEF Rules!Attacks
<1>2. CASE p[a].type = "rook"
  BY <1>1, <1>2 DEF Rules!Attacks, InLine
<1>3. CASE p[a].type = "bishop"
  BY <1>1, <1>3 DEF Rules!Attacks, InLine
<1>4. CASE p[a].type = "queen"
  BY <1>1, <1>4 DEF Rules!Attacks, InLine
<1>5. CASE p[a].type = "pawn"
  BY <1>1, <1>5 DEF Rules!Attacks
<1>6. CASE p[a].type = "knight"
  BY <1>1, <1>6 DEF Rules!Attacks
<1>7. CASE p[a].type = "king"
  BY <1>1, <1>7 DEF Rules!Attacks
<1> QED
  BY <1>2, <1>3, <1>4, <1>5, <1>6, <1>7

\* What lies between two squares of a line is on the line.
LEMMA BetweenIsOnLine ==
  ASSUME NEW a \in All, NEW t \in All, InLine(a, t)
  PROVE  /\ a \notin Rules!Between(a, t) /\ t \notin Rules!Between(a, t)
         /\ \A k \in Rules!Between(a, t) :
              /\ k \in All /\ InLine(a, k)
              /\ Rules!Between(a, k) \subseteq Rules!Between(a, t)
              /\ Rules!Straight(a, k) <=> Rules!Straight(a, t)
              /\ Rules!Diagonal(a, k) <=> Rules!Diagonal(a, t)
              /\ \/ X(a) < X(k) /\ X(k) < X(t)
                 \/ X(a) = X(k) /\ X(k) = X(t)
                 \/ X(a) > X(k) /\ X(k) > X(t)
              /\ Y(k) = Y(t) => Y(a) = Y(t)
<1>1. PICK n \in 1..7, dx \in Units, dy \in Units :
        (dx # 0 \/ dy # 0) /\ OnLine(a, t, n, dx, dy)
  BY SeenIsLine DEF InLine
<1>2. Rules!Between(a, t) = {Walked(a, j, dx, dy) : j \in 1..(n - 1)}
  BY <1>1, LineIsSeen
<1>3. ASSUME NEW j \in 1..(n - 1), NEW k, k = Walked(a, j, dx, dy)
      PROVE  /\ k \in All /\ InLine(a, k) /\ k # a /\ k # t
             /\ Rules!Between(a, k) \subseteq Rules!Between(a, t)
             /\ Rules!Straight(a, k) <=> Rules!Straight(a, t)
             /\ Rules!Diagonal(a, k) <=> Rules!Diagonal(a, t)
             /\ \/ X(a) < X(k) /\ X(k) < X(t)
                \/ X(a) = X(k) /\ X(k) = X(t)
                \/ X(a) > X(k) /\ X(k) > X(t)
             /\ Y(k) = Y(t) => Y(a) = Y(t)
  <2>1. j \in 0..n /\ n \in 0..7 /\ j \in 1..7 /\ j \in Int /\ n \in Int /\ 0 < j /\ j < n
    OBVIOUS
  <2>2. k \in All /\ OnLine(a, k, j, dx, dy)
    BY <1>1, <1>3, <2>1, LineStaysOn, Zenon
  <2>3. /\ a # k /\ Rules!Between(a, k) = {Walked(a, i, dx, dy) : i \in 1..(j - 1)}
        /\ Rules!Straight(a, k) <=> dx = 0 \/ dy = 0
        /\ Rules!Diagonal(a, k) <=> dx # 0 /\ dy # 0
    BY <1>1, <2>1, <2>2, LineIsSeen
  <2>4. /\ Rules!Straight(a, t) <=> dx = 0 \/ dy = 0
        /\ Rules!Diagonal(a, t) <=> dx # 0 /\ dy # 0
    BY <1>1, LineIsSeen
  <2>5. Rules!Between(a, k) \subseteq Rules!Between(a, t)
    BY <1>2, <2>1, <2>3
  <2>6. InLine(a, k)
    BY <1>1, <2>3 DEF InLine
  <2> DEFINE jx == Along(j, dx)
             jy == Along(j, dy)
             nx == Along(n, dx)
             ny == Along(n, dy)
  <2>7. /\ (dx = -1 /\ jx = -j /\ nx = -n) \/ (dx = 0 /\ jx = 0 /\ nx = 0) \/ (dx = 1 /\ jx = j /\ nx = n)
        /\ (dy = -1 /\ jy = -j /\ ny = -n) \/ (dy = 0 /\ jy = 0 /\ ny = 0) \/ (dy = 1 /\ jy = j /\ ny = n)
    BY <2>1, AlongUnit DEF Units
  <2>8. /\ X(a) \in Int /\ Y(a) \in Int
        /\ X(k) = X(a) + jx /\ Y(k) = Y(a) + jy /\ X(t) = X(a) + nx /\ Y(t) = Y(a) + ny
    BY <1>1, <2>2, SquareIsPlace DEF OnLine
  <2> HIDE DEF jx, jy, nx, ny
  <2>9. \/ X(a) < X(k) /\ X(k) < X(t)
        \/ X(a) = X(k) /\ X(k) = X(t)
        \/ X(a) > X(k) /\ X(k) > X(t)
    BY <2>1, <2>7, <2>8
  <2>10. Y(k) = Y(t) => Y(a) = Y(t)
    BY <2>1, <2>7, <2>8
  <2>11. k # t
    BY <1>1, <2>1, <2>7, <2>8
  <2> QED
    BY <2>2, <2>3, <2>4, <2>5, <2>6, <2>9, <2>10, <2>11
<1> QED
  BY <1>2, <1>3

TypesSeen(p) ==
  \A l \in DOMAIN p :
    p[l].type \in {"pawn", "knight", "king", "rook", "bishop", "queen"}

\* What is seen of a board has the pieces' types.
LEMMA SeenTypes ==
  ASSUME NEW b, IsBoard(b)
  PROVE  TypesSeen(SeenOf(b)) /\ DOMAIN SeenOf(b) \subseteq All
  BY PieceIsOne, SeenPiece DEF TypesSeen

\* Whether a king that goes along its row comes to stand in check can be seen
\* before it goes: nobody looks through it who does not see it.
LEMMA KingStepsAside ==
  ASSUME NEW p, DOMAIN p \subseteq All, TypesSeen(p), NEW c,
         NEW k \in DOMAIN p, NEW s \in All \ DOMAIN p, Y(s) = Y(k), p[k].color = c,
         ~Rules!Attacked(p, c, k)
  PROVE  Rules!Attacked(Carried(p, k, s), c, s) <=> Rules!Attacked(p, c, s)
<1> DEFINE q == Carried(p, k, s)
<1>1. /\ DOMAIN q = (DOMAIN p \ {k}) \cup {s} /\ q[s] = p[k]
      /\ \A l \in DOMAIN p : l # k => l # s /\ q[l] = p[l]
  BY DEF Carried
<1> HIDE DEF q
<1>2. ASSUME Rules!Attacked(p, c, s) PROVE Rules!Attacked(q, c, s)
  <2>1. PICK a \in DOMAIN p : p[a].color # c /\ Rules!Attacks(p, a, s)
    BY <1>2 DEF Rules!Attacked
  <2>2. a # k /\ a \in DOMAIN q /\ q[a] = p[a] /\ a \in All
    BY <1>1, <2>1
  <2>3. InLine(a, s) /\ Rules!Between(a, s) \cap DOMAIN p = {} => Rules!Between(a, s) \cap DOMAIN q = {}
    BY <1>1, <2>2, BetweenIsOnLine
  <2>4. Rules!Attacks(q, a, s)
    BY <2>1, <2>2, <2>3, AttackLasts DEF TypesSeen
  <2> QED
    BY <2>1, <2>2, <2>4 DEF Rules!Attacked
<1>3. ASSUME Rules!Attacked(q, c, s) PROVE Rules!Attacked(p, c, s)
  <2>1. PICK a \in DOMAIN q : q[a].color # c /\ Rules!Attacks(q, a, s)
    BY <1>3 DEF Rules!Attacked
  <2>2. a # s /\ a # k /\ a \in DOMAIN p /\ q[a] = p[a] /\ a \in All
    BY <1>1, <2>1
  <2>3. ASSUME InLine(a, s), q[a].type \in {"rook", "bishop", "queen"},
               q[a].type = "rook" => Rules!Straight(a, s),
               q[a].type = "bishop" => Rules!Diagonal(a, s),
               Rules!Between(a, s) \cap DOMAIN q = {}
        PROVE  Rules!Between(a, s) \cap DOMAIN p = {}
    <3>1. SUFFICES ASSUME k \in Rules!Between(a, s) PROVE FALSE
      BY <1>1, <2>3
    <3>2. /\ k \in All /\ InLine(a, k)
          /\ Rules!Between(a, k) \subseteq Rules!Between(a, s)
          /\ Rules!Straight(a, k) <=> Rules!Straight(a, s)
          /\ Rules!Diagonal(a, k) <=> Rules!Diagonal(a, s)
      BY <2>2, <2>3, <3>1, BetweenIsOnLine
    <3>3. k \notin Rules!Between(a, k)
      BY <2>2, <3>2, BetweenIsOnLine
    <3>4. Rules!Between(a, k) \cap DOMAIN p = {}
      BY <1>1, <2>3, <3>2, <3>3
    <3>5. Rules!Attacks(p, a, k)
      <4>1. a # k /\ (Rules!Straight(a, k) \/ Rules!Diagonal(a, k))
        BY <3>2 DEF InLine
      <4>2. CASE p[a].type = "rook"
        BY <2>2, <2>3, <3>2, <3>4, <4>1, <4>2 DEF Rules!Attacks
      <4>3. CASE p[a].type = "bishop"
        BY <2>2, <2>3, <3>2, <3>4, <4>1, <4>3 DEF Rules!Attacks
      <4>4. CASE p[a].type = "queen"
        BY <3>4, <4>1, <4>4 DEF Rules!Attacks
      <4> QED
        BY <2>2, <2>3, <4>2, <4>3, <4>4
    <3> QED
      BY <2>1, <2>2, <3>5 DEF Rules!Attacked
  <2>4. Rules!Attacks(p, a, s)
    BY <2>1, <2>2, <2>3, AttackLasts DEF TypesSeen
  <2> QED
    BY <2>1, <2>2, <2>4 DEF Rules!Attacked
<1> QED
  BY <1>2, <1>3 DEF q

\* A rook that leaves the edge of a row uncovers nobody in it.
LEMMA RookStepsAside ==
  ASSUME NEW p, DOMAIN p \subseteq All, TypesSeen(p), NEW c,
         NEW r \in DOMAIN p, NEW e \in All, X(r) \in {0, 7}, p[r].color = c,
         NEW s \in All, Y(s) = Y(r), Rules!Attacked(Carried(p, r, e), c, s)
  PROVE  Rules!Attacked(p, c, s)
<1> DEFINE q == Carried(p, r, e)
<1>1. /\ DOMAIN q = (DOMAIN p \ {r}) \cup {e} /\ q[e] = p[r]
      /\ \A l \in DOMAIN q : l # e => l \in DOMAIN p /\ l # r /\ q[l] = p[l]
  BY DEF Carried
<1>2. PICK a \in DOMAIN q : q[a].color # c /\ Rules!Attacks(q, a, s)
  BY DEF Rules!Attacked
<1> HIDE DEF q
<1>3. a # e /\ a \in DOMAIN p /\ q[a] = p[a] /\ a \in All
  BY <1>1, <1>2
<1>4. ASSUME InLine(a, s), Rules!Between(a, s) \cap DOMAIN q = {}
      PROVE  Rules!Between(a, s) \cap DOMAIN p = {}
  <2>1. SUFFICES ASSUME r \in Rules!Between(a, s) PROVE FALSE
    BY <1>1, <1>4
  <2>2. /\ \/ X(a) < X(r) /\ X(r) < X(s)
           \/ X(a) = X(r) /\ X(r) = X(s)
           \/ X(a) > X(r) /\ X(r) > X(s)
        /\ Y(r) = Y(s) => Y(a) = Y(s)
    BY <1>3, <1>4, <2>1, BetweenIsOnLine
  <2>3. X(a) \in 0..7 /\ X(s) \in 0..7
    BY <1>3, SquareIsPlace
  <2>4. X(a) = X(s) /\ Y(a) = Y(s)
    BY <2>2, <2>3
  <2> QED
    BY <1>3, <1>4, <2>4, SamePlaceSameSquare DEF InLine
<1>5. Rules!Attacks(p, a, s)
  BY <1>2, <1>3, <1>4, AttackLasts DEF TypesSeen
<1> QED
  BY <1>2, <1>3, <1>5 DEF Rules!Attacked

Toward(side) == IF side = "kingSide" THEN 1 ELSE -1
Far(side) == IF side = "kingSide" THEN 3 ELSE 4

\* Where king and rook start and end, for both.
LEMMA CastlePlaces ==
  ASSUME NEW c \in Colors, NEW side \in Sides
  PROVE  /\ {KingStart(c), RookStart(c, side), KingEnd(c, side), RookEnd(c, side)} \subseteq All
         /\ Y(KingStart(c)) = YPos(c) /\ Y(RookStart(c, side)) = YPos(c)
         /\ Y(KingEnd(c, side)) = YPos(c) /\ Y(RookEnd(c, side)) = YPos(c)
         /\ X(RookStart(c, side)) \in {0, 7} /\ X(KingStart(c)) = 4
         /\ X(RookStart(c, side)) = 4 + Far(side) * Toward(side)
         /\ X(KingEnd(c, side)) = 4 + 2 * Toward(side)
         /\ KingEnd(c, side) = KingStart(c) + 2 * Toward(side)
         /\ RookEnd(c, side) = KingStart(c) + Toward(side)
         /\ Rules!KingHome(c) = KingStart(c) /\ Rules!RookHome(c, side) = RookStart(c, side)
         /\ Rules!KingCastled(c, side) = KingEnd(c, side)
         /\ Rules!RookCastled(c, side) = RookEnd(c, side)
<1> USE DEF KingStart, RookStart, KingEnd, RookEnd, At, YPos, All, X, Y, Toward, Far,
            Rules!KingHome, Rules!RookHome, Rules!KingCastled, Rules!RookCastled, Rules!HomeRank
<1>1. CASE c = "white" /\ side = "kingSide"
  BY <1>1
<1>2. CASE c = "white" /\ side = "queenSide"
  BY <1>2
<1>3. CASE c = "black" /\ side = "kingSide"
  BY <1>3
<1>4. CASE c = "black" /\ side = "queenSide"
  BY <1>4
<1> QED
  BY <1>1, <1>2, <1>3, <1>4 DEF Colors, Sides

\* The squares between them.
LEMMA CastleRow ==
  ASSUME NEW c \in Colors, NEW side \in Sides
  PROVE  LET ks == KingStart(c)
             rs == RookStart(c, side)
             ke == KingEnd(c, side)
             d == Toward(side) IN
         /\ Rules!Between(ks, rs) = {l \in All : (ks < l /\ l < rs) \/ (rs < l /\ l < ks)}
         /\ Rules!Between(rs, ks) = Rules!Between(ks, rs)
         /\ {ks + d, ks + 2 * d} \subseteq Rules!Between(ks, rs)
         /\ Rules!Between(ks, ke) = {ks + d} /\ ke = ks + 2 * d
         /\ {l \in All \ {ks} : (ks <= l /\ l <= ke) \/ (ke <= l /\ l <= ks)} = {ks + d, ks + 2 * d}
         /\ Y(ks + d) = YPos(c) /\ Y(ks + 2 * d) = YPos(c)
         /\ InLine(rs, ks) /\ Rules!Straight(rs, ks)
<1> DEFINE ks == KingStart(c)
           rs == RookStart(c, side)
           ke == KingEnd(c, side)
           d == Toward(side)
           m == Far(side)
<1>1. /\ ks \in All /\ rs \in All /\ ke \in All /\ ke = ks + 2 * d
      /\ Y(ks) = YPos(c) /\ Y(rs) = YPos(c) /\ Y(ke) = YPos(c) /\ YPos(c) \in Int
      /\ X(ks) = 4 /\ X(rs) = 4 + m * d /\ X(ke) = 4 + 2 * d
      /\ ks + d = RookEnd(c, side) /\ Y(RookEnd(c, side)) = YPos(c)
  BY CastlePlaces DEF YPos
<1>2. (d = 1 /\ m = 3) \/ (d = -1 /\ m = 4)
  BY DEF Toward, Far
<1> HIDE DEF ks, rs, ke, d, m
<1>3. d \in Units /\ 0 \in Units /\ -d \in Units /\ d # 0 /\ -d # 0 /\ m \in 1..7 /\ 2 \in 1..7
        /\ ks \in Int /\ rs \in Int
  BY <1>1, <1>2 DEF Units, All
<1>4. \A j \in Int : Along(j, 0) = 0
  BY AlongUnit, <1>3
<1>5. OnLine(ks, rs, m, d, 0)
  BY <1>1, <1>2, <1>4 DEF OnLine, Along
<1>6. OnLine(ks, ke, 2, d, 0)
  BY <1>1, <1>2, <1>4 DEF OnLine, Along
<1>7. OnLine(rs, ks, m, -d, 0)
  BY <1>1, <1>2, <1>4 DEF OnLine, Along
<1>8. Rules!Between(ks, rs) = {Walked(ks, j, d, 0) : j \in 1..(m - 1)}
  BY <1>1, <1>3, <1>5, LineIsSeen
<1>9. Rules!Between(ks, ke) = {Walked(ks, j, d, 0) : j \in 1..(2 - 1)}
  BY <1>1, <1>3, <1>6, LineIsSeen
<1>10. /\ Rules!Between(rs, ks) = {Walked(rs, j, -d, 0) : j \in 1..(m - 1)}
       /\ rs # ks /\ Rules!Straight(rs, ks)
  BY <1>1, <1>3, <1>7, LineIsSeen
<1>11. \A j \in Int : Walked(ks, j, d, 0) = ks + j * d /\ Walked(rs, j, -d, 0) = rs + j * (-d)
  BY <1>2, <1>3, <1>4 DEF Walked, Along
<1>12. rs = ks + m * d
  <2>1. rs = Walked(ks, m, d, 0)
    BY <1>1, <1>3, <1>5, LineIsWalk
  <2> QED
    BY <1>3, <1>11, <2>1
<1>13. Rules!Between(ks, ke) = {ks + d}
  BY <1>2, <1>3, <1>9, <1>11
<1>14. CASE d = 1 /\ m = 3
  <2>1. 1..(m - 1) = {1, 2}
    BY <1>14
  <2>2. Rules!Between(ks, rs) = {ks + 1, ks + 2}
    BY <1>3, <1>8, <1>11, <1>14, <2>1
  <2>3. Rules!Between(rs, ks) = {ks + 1, ks + 2}
    BY <1>3, <1>10, <1>11, <1>12, <1>14, <2>1
  <2>4. {l \in All : (ks < l /\ l < rs) \/ (rs < l /\ l < ks)} = {ks + 1, ks + 2}
    BY <1>1, <1>12, <1>14 DEF All
  <2>5. {l \in All \ {ks} : (ks <= l /\ l <= ke) \/ (ke <= l /\ l <= ks)} = {ks + d, ks + 2 * d}
    BY <1>1, <1>14 DEF All
  <2> QED
    BY <1>1, <1>10, <1>13, <1>14, <2>2, <2>3, <2>4, <2>5 DEF ks, rs, ke, d, InLine
<1>15. CASE d = -1 /\ m = 4
  <2>1. 1..(m - 1) = {1, 2, 3}
    BY <1>15
  <2>2. Rules!Between(ks, rs) = {ks - 1, ks - 2, ks - 3}
    BY <1>3, <1>8, <1>11, <1>15, <2>1
  <2>3. Rules!Between(rs, ks) = {ks - 1, ks - 2, ks - 3}
    BY <1>3, <1>10, <1>11, <1>12, <1>15, <2>1
  <2>4. {l \in All : (ks < l /\ l < rs) \/ (rs < l /\ l < ks)} = {ks - 1, ks - 2, ks - 3}
    BY <1>1, <1>12, <1>15 DEF All
  <2>5. {l \in All \ {ks} : (ks <= l /\ l <= ke) \/ (ke <= l /\ l <= ks)} = {ks + d, ks + 2 * d}
    BY <1>1, <1>15 DEF All
  <2> QED
    BY <1>1, <1>3, <1>10, <1>13, <1>15, <2>2, <2>3, <2>4, <2>5 DEF ks, rs, ke, d, InLine
<1> QED
  BY <1>2, <1>14, <1>15

\* A king is in check when its square is attacked.
LEMMA CheckIsAttack ==
  ASSUME NEW b, BoardOK(b), NEW c \in Colors, NEW k \in All, Has(b, k, "king", c)
  PROVE  IsColorInCheck(b, c) <=> Rules!Attacked(SeenOf(b), c, k)
<1> DEFINE p == SeenOf(b)
<1>1. IsColorInCheck(b, c) <=> Rules!InCheck(p, c)
  BY BoardIsBoard, CheckIsSeen
<1>2. \A l \in DOMAIN b : l \in All /\ (Has(b, l, "king", c) => l = k)
  BY DEF BoardOK, OneKing
<1>3. Rules!Kings(p, c) = {k}
  BY <1>2, SeenPiece DEF Rules!Kings, Has
<1> HIDE DEF p
<1> QED
  BY <1>1, <1>3 DEF Rules!InCheck, p

\* Nobody asks whose king and whose rook it is; but a king that has not moved
\* is at home, and the opponent's rook would give check.
LEMMA CastleIsOurs ==
  ASSUME NEW b, BoardOK(b), KingsAreAtHome(b), NEW c \in Colors, NEW side \in Sides,
         CanColorCastle(b, c, side)
  PROVE  Has(b, KingStart(c), "king", c) /\ Has(b, RookStart(c, side), "rook", c)
<1> DEFINE ks == KingStart(c)
           rs == RookStart(c, side)
           p == SeenOf(b)
<1>1. /\ ks \in DOMAIN b /\ rs \in DOMAIN b
      /\ b[ks].type = "king" /\ b[rs].type = "rook" /\ ~b[ks].hasMoved
      /\ {l \in All : (ks < l /\ l < rs) \/ (rs < l /\ l < ks)} \cap DOMAIN b = {}
      /\ ~IsColorInCheck(b, c)
  BY DEF CanColorCastle, NotInCheck
<1>2. b[ks].color = c
  <2>1. b[ks].color \in Colors /\ ks = KingStart(b[ks].color)
    BY <1>1, BoardIsBoard, PieceIsOne DEF KingsAreAtHome
  <2>2. \A e \in Colors : KingStart(e) = KingStart(c) => e = c
    BY DEF KingStart, At, YPos, Colors
  <2> QED
    BY <2>1, <2>2
<1>3. Has(b, ks, "king", c) /\ ks \in All
  BY <1>1, <1>2, CastlePlaces DEF Has
<1>4. ASSUME b[rs].color # c PROVE FALSE
  <2>1. InLine(rs, ks) /\ Rules!Straight(rs, ks) /\ Rules!Between(rs, ks) \cap DOMAIN b = {}
    BY <1>1, CastleRow
  <2>2. DOMAIN p = DOMAIN b /\ p[rs].type = "rook" /\ p[rs].color # c
    BY <1>1, <1>4, SeenPiece
  <2> HIDE DEF p, ks, rs
  <2>3. Rules!Attacks(p, rs, ks)
    BY <2>1, <2>2 DEF Rules!Attacks, InLine
  <2>4. Rules!Attacked(p, c, ks)
    BY <1>1, <2>2, <2>3 DEF Rules!Attacked
  <2> QED
    BY <1>1, <1>3, <2>4, CheckIsAttack DEF p
<1> QED
  BY <1>1, <1>3, <1>4 DEF Has

\* Castling tries the king's steps on a copy; the rules look at the squares.
LEMMA StepIsSeen ==
  ASSUME NEW b, BoardOK(b), NEW c \in Colors, NEW k \in All, Has(b, k, "king", c),
         NEW s \in All \ DOMAIN b, Y(s) = Y(k), ~Rules!Attacked(SeenOf(b), c, k)
  PROVE  IsColorInCheck(MovePiece(b, k, s), c) <=> Rules!Attacked(SeenOf(b), c, s)
<1> DEFINE moved == MovePiece(b, k, s)
           p == SeenOf(b)
<1>1. k \in DOMAIN b /\ k # s /\ b[k].type = "king" /\ b[k].color = c /\ NotAKing(b, s)
  BY DEF Has, NotAKing
<1>2. BoardOK(moved)
  BY <1>1, MoveKeepsBoard
<1>3. SeenOf(moved) = Carried(p, k, s)
  BY <1>1, BoardIsBoard, OfficerIsCarried
<1>4. /\ DOMAIN p = DOMAIN b /\ p[k].type = "king" /\ p[k].color = c
      /\ DOMAIN p \subseteq All /\ TypesSeen(p)
  BY <1>1, BoardIsBoard, SeenPiece, SeenTypes
<1>5. Has(moved, s, "king", c)
  <2>1. s \in DOMAIN SeenOf(moved) /\ SeenOf(moved)[s] = p[k]
    BY <1>3 DEF Carried
  <2>2. s \in DOMAIN moved /\ SeenOf(moved)[s].type = moved[s].type
          /\ SeenOf(moved)[s].color = moved[s].color
    BY <2>1, SeenPiece
  <2> QED
    BY <1>4, <2>1, <2>2 DEF Has
<1> HIDE DEF moved
<1>6. IsColorInCheck(moved, c) <=> Rules!Attacked(SeenOf(moved), c, s)
  BY <1>2, <1>5, CheckIsAttack
<1>7. Rules!Attacked(Carried(p, k, s), c, s) <=> Rules!Attacked(p, c, s)
  <2>1. ~Rules!Attacked(p, c, k) /\ k \in DOMAIN p /\ s \in All \ DOMAIN p
    BY <1>1, <1>4
  <2> HIDE DEF p
  <2> QED
    BY <1>4, <2>1, KingStepsAside
<1> QED
  BY <1>3, <1>6, <1>7 DEF moved

\* canColorCastle allows castling exactly by right.
LEMMA CastlingIsSeen ==
  ASSUME NEW b, BoardOK(b), KingsAreAtHome(b), NEW c \in Colors, NEW side \in Sides
  PROVE  CanColorCastle(b, c, side) <=> Rules!MayCastle(SeenOf(b), RightsOf(b), c, side)
<1> DEFINE ks == KingStart(c)
           rs == RookStart(c, side)
           ke == KingEnd(c, side)
           d == Toward(side)
           p == SeenOf(b)
           right == <<c, side>> \in RightsOf(b)
           empty == Rules!Between(ks, rs) \cap DOMAIN b = {}
<1>1. right <=> /\ Has(b, ks, "king", c) /\ Has(b, rs, "rook", c)
                /\ ~b[ks].hasMoved /\ ~b[rs].hasMoved
  BY DEF RightsOf
<1>2. /\ Rules!Between(ks, rs) = {l \in All : (ks < l /\ l < rs) \/ (rs < l /\ l < ks)}
      /\ {ks + d, ks + 2 * d} \subseteq Rules!Between(ks, rs)
      /\ Rules!Between(ks, ke) = {ks + d} /\ ke = ks + 2 * d
      /\ {l \in All \ {ks} : (ks <= l /\ l <= ke) \/ (ke <= l /\ l <= ks)} = {ks + d, ks + 2 * d}
      /\ Y(ks + d) = YPos(c) /\ Y(ks + 2 * d) = YPos(c)
  BY CastleRow
<1>3. ks \in All /\ Y(ks) = YPos(c) /\ Rules!KingHome(c) = ks /\ Rules!RookHome(c, side) = rs
        /\ Rules!KingCastled(c, side) = ke
  BY CastlePlaces
<1>4. DOMAIN p = DOMAIN b
  BY SeenPiece
<1>5. CanColorCastle(b, c, side) <=>
        /\ {ks, rs} \subseteq DOMAIN b
        /\ b[ks].type = "king" /\ b[rs].type = "rook"
        /\ ~b[ks].hasMoved /\ ~b[rs].hasMoved
        /\ empty
        /\ ~IsColorInCheck(b, c)
        /\ ~IsColorInCheck(MovePiece(b, ks, ks + d), c)
        /\ ~IsColorInCheck(MovePiece(b, ks, ks + 2 * d), c)
  <2>1. CanColorCastle(b, c, side) <=>
          /\ {ks, rs} \subseteq DOMAIN b
          /\ b[ks].type = "king" /\ b[rs].type = "rook"
          /\ ~b[ks].hasMoved /\ ~b[rs].hasMoved
          /\ {l \in All : (ks < l /\ l < rs) \/ (rs < l /\ l < ks)} \cap DOMAIN b = {}
          /\ ~IsColorInCheck(b, c)
          /\ \A l \in {l \in All \ {ks} : (ks <= l /\ l <= ke) \/ (ke <= l /\ l <= ks)} :
               ~IsColorInCheck(MovePiece(b, ks, l), c)
    BY DEF CanColorCastle, NotInCheck
  <2> HIDE DEF ks, rs, ke, d
  <2> QED
    BY <1>2, <2>1
<1>6. Rules!MayCastle(p, RightsOf(b), c, side) <=>
        /\ right /\ empty
        /\ ~Rules!Attacked(p, c, ks)
        /\ ~Rules!Attacked(p, c, ks + d)
        /\ ~Rules!Attacked(p, c, ks + 2 * d)
  <2>1. Rules!MayCastle(p, RightsOf(b), c, side) <=>
          /\ right /\ Rules!Between(ks, rs) \cap DOMAIN p = {}
          /\ \A s \in Rules!Between(ks, ke) \cup {ks, ke} : ~Rules!Attacked(p, c, s)
    BY <1>3 DEF Rules!MayCastle
  <2> HIDE DEF ks, rs, ke, d, p, right
  <2> QED
    BY <1>2, <1>4, <2>1
<1> HIDE DEF ks, rs, ke, d, p
<1>7. ASSUME right, empty
      PROVE  /\ IsColorInCheck(b, c) <=> Rules!Attacked(p, c, ks)
             /\ ~Rules!Attacked(p, c, ks) =>
                  /\ IsColorInCheck(MovePiece(b, ks, ks + d), c) <=> Rules!Attacked(p, c, ks + d)
                  /\ IsColorInCheck(MovePiece(b, ks, ks + 2 * d), c) <=>
                       Rules!Attacked(p, c, ks + 2 * d)
  <2>1. Has(b, ks, "king", c)
    BY <1>1, <1>7
  <2>2. \A s \in {ks + d, ks + 2 * d} : s \in All \ DOMAIN b /\ Y(s) = Y(ks)
    BY <1>2, <1>3, <1>7
  <2>3. IsColorInCheck(b, c) <=> Rules!Attacked(p, c, ks)
    BY <1>3, <2>1, CheckIsAttack DEF p
  <2>4. ~Rules!Attacked(p, c, ks) =>
          \A s \in {ks + d, ks + 2 * d} :
            IsColorInCheck(MovePiece(b, ks, s), c) <=> Rules!Attacked(p, c, s)
    BY <1>3, <2>1, <2>2, StepIsSeen DEF p
  <2> QED
    BY <2>3, <2>4
<1>8. CanColorCastle(b, c, side) => right
  BY <1>1, <1>5, CastleIsOurs DEF ks, rs
<1>9. right => {ks, rs} \subseteq DOMAIN b /\ b[ks].type = "king" /\ b[rs].type = "rook"
                 /\ ~b[ks].hasMoved /\ ~b[rs].hasMoved
  BY <1>1 DEF Has
<1> HIDE DEF right, empty
<1> QED
  BY <1>5, <1>6, <1>7, <1>8, <1>9 DEF p

-----------------------------------------------------------------------------
(* What a move leaves behind.                                              *)

\* The piece that moves has moved; the others stay what they were, except the
\* pawn taken in passing; and only the piece that moves may carry a flag.
LEMMA MovedPieces ==
  ASSUME NEW b, BoardOK(b), NEW from \in DOMAIN b, NEW to \in All, from # to,
         NEW after, after = MovePiece(b, from, to)
  PROVE  LET flag == /\ b[from].type = "pawn" /\ Y(from) = PawnRow(b[from].color)
                     /\ Y(to) = TwoAheadRow(b[from].color) IN
         /\ DOMAIN after \subseteq (DOMAIN b \ {from}) \cup {to} /\ to \in DOMAIN after
         /\ after[to].type = b[from].type /\ after[to].color = b[from].color
         /\ after[to].hasMoved /\ (after[to].enPassant <=> flag)
         /\ \A l \in DOMAIN after \ {to} :
              /\ l \in DOMAIN b /\ l # from /\ ~after[l].enPassant
              /\ after[l].type = b[l].type /\ after[l].color = b[l].color
              /\ after[l].hasMoved = b[l].hasMoved
         /\ \A l \in DOMAIN b \ {from, to} : b[l].type # "pawn" => l \in DOMAIN after
<1> DEFINE moving == b[from]
           moved == [l \in (DOMAIN b \ {from}) \cup {to} |->
                       IF l = to THEN Marked(moving) ELSE b[l]]
           dx == X(to) - X(from)
           beside == Incremented(from, <<dx, 0>>)
           taken == IF moving.type = "pawn" /\ PassesBeside(moved, from, dx, moving.color)
                      THEN {beside} ELSE {}
           left == [l \in DOMAIN moved \ taken |-> moved[l]]
           flag == /\ moving.type = "pawn" /\ Y(from) = PawnRow(moving.color)
                   /\ Y(to) = TwoAheadRow(moving.color)
           result == Flagged(left, moving, from, to)
<1>1. after = result
  BY DEF MovePiece
<1>2. /\ Marked(moving) \in Pieces /\ Marked(moving).hasMoved
      /\ Marked(moving).type = moving.type /\ Marked(moving).color = moving.color
  <2>1. moving \in Pieces
    BY DEF BoardOK
  <2> HIDE DEF moving
  <2> QED
    BY <2>1 DEF Marked, Pieces
<1>3. /\ DOMAIN moved = (DOMAIN b \ {from}) \cup {to} /\ moved[to] = Marked(moving)
      /\ \A l \in DOMAIN moved \ {to} : l \in DOMAIN b /\ l # from /\ moved[l] = b[l]
  OBVIOUS
<1>4. \A l \in DOMAIN moved : moved[l] \in Pieces
  BY <1>2, <1>3 DEF BoardOK
<1>5. \A l \in taken : l # to /\ (l \in DOMAIN b => b[l].type = "pawn")
  <2> SUFFICES ASSUME NEW l \in taken
               PROVE  l # to /\ (l \in DOMAIN b => b[l].type = "pawn")
    OBVIOUS
  <2>1. l = beside /\ PassesBeside(moved, from, dx, moving.color) /\ moving.type = "pawn"
    OBVIOUS
  <2>2. l \in DOMAIN moved /\ moved[l].enPassant /\ moved[l].color = Opposite(moving.color)
    BY <2>1 DEF PassesBeside
  <2>3. moving.color \in Colors
    BY DEF BoardOK, Pieces
  <2>4. l # to
    BY <2>2, <2>3, <1>2, <1>3, OppositeColor
  <2> QED
    BY <2>2, <2>4, <1>3 DEF BoardOK
<1>6. DOMAIN after = DOMAIN moved \ taken
  BY <1>1 DEF Flagged
<1> HIDE DEF taken, result
<1>7. ASSUME NEW l \in DOMAIN after
      PROVE  /\ after[l].type = moved[l].type /\ after[l].color = moved[l].color
             /\ after[l].hasMoved = moved[l].hasMoved
             /\ after[l].enPassant <=> l = to /\ flag
  <2>1. l \in DOMAIN left /\ left[l] = moved[l] /\ left[l] \in Pieces
    BY <1>4, <1>6
  <2>2. after[l] = [left[l] EXCEPT !.enPassant = l = to /\ flag]
    BY <1>1, <2>1 DEF Flagged, result
  <2> HIDE DEF left, flag
  <2> QED
    BY <2>1, <2>2 DEF Pieces
<1> HIDE DEF moved, flag
<1>8. DOMAIN after \subseteq (DOMAIN b \ {from}) \cup {to} /\ to \in DOMAIN after
  BY <1>3, <1>5, <1>6
<1>9. /\ after[to].type = moving.type /\ after[to].color = moving.color
      /\ after[to].hasMoved /\ (after[to].enPassant <=> flag)
  BY <1>2, <1>3, <1>7, <1>8
<1>10. ASSUME NEW l \in DOMAIN after \ {to}
       PROVE  /\ l \in DOMAIN b /\ l # from /\ ~after[l].enPassant
              /\ after[l].type = b[l].type /\ after[l].color = b[l].color
              /\ after[l].hasMoved = b[l].hasMoved
  BY <1>3, <1>6, <1>7
<1>11. ASSUME NEW l \in DOMAIN b \ {from, to}, b[l].type # "pawn"
       PROVE  l \in DOMAIN after
  BY <1>3, <1>5, <1>6, <1>11
<1> QED
  BY <1>8, <1>9, <1>10, <1>11 DEF flag

\* A move does not bring an unmoved king from home.
LEMMA MoveKeepsHomes ==
  ASSUME NEW b, BoardOK(b), KingsAreAtHome(b), NEW from \in DOMAIN b, NEW to \in All
  PROVE  KingsAreAtHome(MovePiece(b, from, to))
  BY UnmovedStoodThere DEF KingsAreAtHome

\* A pawn goes ahead by one row, or by two from its own.
LEMMA PawnGoesAhead ==
  ASSUME NEW b, BoardOK(b), NEW c \in Colors, NEW from \in DOMAIN b, NEW to \in All,
         b[from].type = "pawn", b[from].color = c, CanPieceMove(b, from, to)
  PROVE  /\ from \in All /\ Y(from) \in 0..7 /\ Y(to) \in 0..7
         /\ \/ Y(to) = Y(from) + Forward(c)
            \/ /\ Y(from) = PawnRow(c) /\ Y(to) = Y(from) + 2 * Forward(c)
               /\ TwoAhead(from, to, c) /\ Incremented(from, <<0, Forward(c)>>) \notin DOMAIN b
<1>1. from \in All /\ Y(from) \in 0..7 /\ Y(to) \in 0..7
  BY SquareIsPlace DEF BoardOK
<1>2. \/ AheadAside(from, to, 0, c)
      \/ /\ Y(from) = PawnRow(c) /\ TwoAhead(from, to, c)
         /\ Incremented(from, <<0, Forward(c)>>) \notin DOMAIN b
      \/ \E d \in {-1, 1} : AheadAside(from, to, d, c)
  BY Zenon DEF CanPieceMove, PawnCanMove, AheadAside, TwoAhead
<1>3. \A d \in Units : AheadAside(from, to, d, c) => Y(to) = Y(from) + Forward(c)
  BY <1>1, AsideIsPlace
<1>4. 0 \in Units /\ {-1, 1} \subseteq Units
  BY DEF Units
<1>5. Y(from) = PawnRow(c) /\ TwoAhead(from, to, c) => Y(to) = Y(from) + 2 * Forward(c)
  BY <1>1, TwoAheadIsPlace
<1> QED
  BY <1>1, <1>2, <1>3, <1>4, <1>5

\* Its rows tell a pawn's move by two.
LEMMA TwoRows ==
  ASSUME NEW c \in Colors, NEW y \in 0..7, NEW z \in 0..7,
         z = y + Forward(c) \/ (y = PawnRow(c) /\ z = y + 2 * Forward(c))
  PROVE  /\ y = PawnRow(c) /\ z = TwoAheadRow(c) <=> z = y + 2 * Forward(c)
         /\ z = TwoAheadRow(c) /\ y = PawnRow(c) => z # LastRow(c)
  BY DEF Forward, PawnRow, TwoAheadRow, LastRow

\* What has gone two ahead has left nothing behind it.
LEMMA MovePassesFairly ==
  ASSUME NEW b, BoardOK(b), NEW c \in Colors, NEW from \in DOMAIN b, NEW to \in All,
         b[from].color = c, CanPieceMove(b, from, to)
  PROVE  PassingIsFair(MovePiece(b, from, to), Opposite(c))
<1> DEFINE after == MovePiece(b, from, to)
           ahead == Incremented(from, <<0, Forward(c)>>)
<1>1. from # to
  BY DEF CanPieceMove
<1>2. /\ DOMAIN after \subseteq (DOMAIN b \ {from}) \cup {to} /\ to \in DOMAIN after
      /\ after[to].color = c
      /\ after[to].enPassant => /\ b[from].type = "pawn" /\ Y(from) = PawnRow(c)
                                /\ Y(to) = TwoAheadRow(c)
      /\ \A l \in DOMAIN after \ {to} : ~after[l].enPassant
  BY <1>1, MovedPieces
<1> HIDE DEF after
<1>3. SUFFICES ASSUME after[to].enPassant
               PROVE  /\ after[to].color = Opposite(Opposite(c))
                      /\ Y(to) = TwoAheadRow(after[to].color)
                      /\ Incremented(to, <<0, -Forward(after[to].color)>>) \notin DOMAIN after
  BY <1>2 DEF PassingIsFair, after
<1>4. c = Opposite(Opposite(c)) /\ Forward(c) \in {-1, 1}
  BY DEF Opposite, Colors, Forward
<1>5. TwoAhead(from, to, c) /\ ahead \notin DOMAIN b
  <2>1. b[from].type = "pawn" /\ Y(from) = PawnRow(c) /\ Y(to) = TwoAheadRow(c)
    BY <1>2, <1>3
  <2>2. Y(to) # Y(from) + Forward(c)
    BY <2>1 DEF PawnRow, TwoAheadRow, Forward
  <2> QED
    BY <2>1, <2>2, PawnGoesAhead
<1>6. Incremented(to, <<0, -Forward(c)>>) = ahead /\ ahead # to
  <2>1. from \in Int
    BY DEF BoardOK, All
  <2> QED
    BY <1>4, <1>5, <2>1 DEF TwoAhead, Incremented
<1> QED
  BY <1>2, <1>3, <1>4, <1>5, <1>6

\* Only a pawn that has just moved can be on its last row.
LEMMA OnlyTheMoverIsPromoted ==
  ASSUME NEW b, BoardOK(b), NoPawnIsLeft(b), NEW from \in DOMAIN b, NEW to \in All, from # to,
         NEW l \in DOMAIN MovePiece(b, from, to),
         MovePiece(b, from, to)[l].type = "pawn",
         Y(l) = LastRow(MovePiece(b, from, to)[l].color)
  PROVE  l = to /\ b[from].type = "pawn"
<1> DEFINE after == MovePiece(b, from, to)
<1>1. /\ after[to].type = b[from].type
      /\ \A m \in DOMAIN after \ {to} : /\ m \in DOMAIN b
                                        /\ after[m].type = b[m].type /\ after[m].color = b[m].color
  BY MovedPieces
<1> HIDE DEF after
<1> QED
  BY <1>1 DEF NoPawnIsLeft, after

\* After a move it is the opponent's turn, who could not have taken the king,
\* and may at most take in passing the pawn that has moved.
LEMMA MoveIsFair ==
  ASSUME NEW b, BoardOK(b), NEW c \in Colors, NEW from \in DOMAIN b, NEW to \in All,
         CanMovePiece(b, c, from, to)
  PROVE  /\ BoardOK(MovePiece(b, from, to))
         /\ IsFair(MovePiece(b, from, to), Opposite(c))
<1>1. CanPieceMove(b, from, to) /\ b[from].color = c /\ ~IsColorInCheck(MovePiece(b, from, to), c)
  BY DEF CanMovePiece
<1>2. Opposite(Opposite(c)) = c
  BY DEF Opposite, Colors
<1> QED
  BY <1>1, <1>2, MovesSpareKings, MoveKeepsBoard, MovePassesFairly DEF IsFair

\* What is promoted.
LEMMA PromotedPieces ==
  ASSUME NEW b, BoardOK(b), NEW c \in Colors, NEW l \in PromotablePawns(b, c),
         NEW type \in Promotions, NEW after, after = Promoted(b, l, type)
  PROVE  /\ l \in DOMAIN b /\ b[l].type = "pawn" /\ b[l].color = c /\ Y(l) = LastRow(c)
         /\ DOMAIN after = DOMAIN b /\ after[l] = Piece(type, c)
         /\ after[l].type = type /\ after[l].color = c /\ ~after[l].enPassant
         /\ type \notin {"king", "pawn"}
         /\ \A m \in DOMAIN b \ {l} : after[m] = b[m]
<1>1. l \in DOMAIN b /\ b[l].type = "pawn" /\ b[l].color = c /\ Y(l) = LastRow(c)
  BY DEF PromotablePawns, Has
<1>2. /\ DOMAIN after = DOMAIN b /\ after[l] = Piece(type, c)
      /\ \A m \in DOMAIN b \ {l} : after[m] = b[m]
  BY <1>1 DEF Promoted, BoardOK
<1>3. after[l].type = type /\ after[l].color = c /\ ~after[l].enPassant
  BY <1>2 DEF Piece
<1>4. type \notin {"king", "pawn"}
  BY DEF Promotions
<1> QED
  BY <1>1, <1>2, <1>3, <1>4

\* The piece promoted stands between the same pieces as the pawn did.
LEMMA PromotionIsFair ==
  ASSUME NEW b, BoardOK(b), NEW c \in Colors, IsFair(b, Opposite(c)),
         NEW l \in PromotablePawns(b, c), NEW type \in Promotions
  PROVE  IsFair(Promoted(b, l, type), Opposite(c))
<1> DEFINE after == Promoted(b, l, type)
           p == SeenOf(b)
           q == SeenOf(after)
<1>1. /\ l \in DOMAIN b /\ b[l].type = "pawn" /\ b[l].color = c
      /\ DOMAIN after = DOMAIN b /\ after[l].type = type /\ after[l].color = c
      /\ ~after[l].enPassant /\ type # "king"
      /\ \A m \in DOMAIN b \ {l} : after[m] = b[m]
  BY PromotedPieces
<1>2. BoardOK(after) /\ Opposite(Opposite(c)) = c
  BY PromotionKeepsBoard DEF Opposite, Colors
<1> HIDE DEF after
<1>3. PassingIsFair(after, Opposite(c))
  BY <1>1 DEF IsFair, PassingIsFair
<1>4. /\ DOMAIN p = DOMAIN b /\ DOMAIN q = DOMAIN b
      /\ p[l].type = "pawn" /\ q[l].type # "king" /\ p[l].color = c /\ q[l].color = c
      /\ \A m \in DOMAIN b \ {l} : q[m] = p[m]
  <2>1. DOMAIN p = DOMAIN b /\ p[l].type = "pawn" /\ p[l].color = c
    BY <1>1, SeenPiece
  <2>2. DOMAIN q = DOMAIN b /\ q[l].type # "king" /\ q[l].color = c
    BY <1>1, SeenPiece
  <2>3. \A m \in DOMAIN b \ {l} : q[m] = p[m]
    BY <1>1 DEF SeenOf
  <2> QED
    BY <2>1, <2>2, <2>3
<1> HIDE DEF p, q
<1>5. Rules!Kings(q, c) = Rules!Kings(p, c)
  BY <1>4 DEF Rules!Kings
<1>6. ASSUME NEW a \in DOMAIN p, p[a].color # c, NEW k
      PROVE  q[a].color # c /\ (Rules!Attacks(q, a, k) <=> Rules!Attacks(p, a, k))
  BY <1>4, <1>6, AttackDependsOn
<1>7. \A k : Rules!Attacked(q, c, k) => Rules!Attacked(p, c, k)
  BY <1>4, <1>6 DEF Rules!Attacked
<1>8. Rules!InCheck(q, c) => Rules!InCheck(p, c)
  BY <1>5, <1>7 DEF Rules!InCheck
<1>9. ~IsColorInCheck(after, c)
  BY <1>2, <1>8, BoardIsBoard, CheckIsSeen DEF IsFair, p, q
<1> QED
  BY <1>2, <1>3, <1>9 DEF IsFair, after

\* What Move makes of a board.
MadeBy(b, c, from, to, after) ==
  LET moved == MovePiece(b, from, to)
      pawns == PromotablePawns(moved, c)
  IN  \/ pawns = {} /\ after = moved
      \/ \E l \in pawns, type \in Promotions : after = Promoted(moved, l, type)

\* Moves keep the invariant.
LEMMA MoveKeepsGame ==
  ASSUME NEW b, BoardOK(b), KingsAreAtHome(b), NoPawnIsLeft(b), NEW c \in Colors,
         NEW from \in DOMAIN b, NEW to \in All, CanMovePiece(b, c, from, to),
         NEW after, MadeBy(b, c, from, to, after)
  PROVE  /\ BoardOK(after) /\ KingsAreAtHome(after) /\ NoPawnIsLeft(after)
         /\ IsFair(after, Opposite(c))
<1> DEFINE moved == MovePiece(b, from, to)
           pawns == PromotablePawns(moved, c)
<1>1. BoardOK(moved) /\ IsFair(moved, Opposite(c)) /\ KingsAreAtHome(moved)
  BY MoveIsFair, MoveKeepsHomes
<1>2. from # to /\ b[from].color = c
  BY DEF CanMovePiece
<1>3. ASSUME NEW l \in DOMAIN moved, moved[l].type = "pawn", Y(l) = LastRow(moved[l].color)
      PROVE  l = to /\ l \in pawns
  <2>1. l = to
    BY <1>2, <1>3, OnlyTheMoverIsPromoted
  <2>2. moved[l].color = c
    BY <1>2, <2>1, MovedPieces
  <2> HIDE DEF moved
  <2> QED
    BY <1>3, <2>1, <2>2 DEF PromotablePawns, Has
<1> HIDE DEF moved
<1>4. \/ pawns = {} /\ after = moved
      \/ \E l \in pawns, type \in Promotions : after = Promoted(moved, l, type)
  BY DEF MadeBy, moved
<1>5. CASE pawns = {} /\ after = moved
  BY <1>1, <1>3, <1>5 DEF NoPawnIsLeft
<1>6. ASSUME NEW l \in pawns, NEW type \in Promotions, after = Promoted(moved, l, type)
      PROVE  /\ BoardOK(after) /\ KingsAreAtHome(after) /\ NoPawnIsLeft(after)
             /\ IsFair(after, Opposite(c))
  <2>1. BoardOK(after) /\ IsFair(after, Opposite(c))
    BY <1>1, <1>6, PromotionKeepsBoard, PromotionIsFair
  <2>2. /\ l \in DOMAIN moved /\ moved[l].type = "pawn" /\ Y(l) = LastRow(moved[l].color)
        /\ DOMAIN after = DOMAIN moved /\ after[l].type \notin {"king", "pawn"}
        /\ \A m \in DOMAIN moved \ {l} : after[m] = moved[m]
    BY <1>1, <1>6, PromotedPieces
  <2>3. l = to
    BY <1>3, <2>2
  <2>4. KingsAreAtHome(after)
    BY <1>1, <2>2 DEF KingsAreAtHome
  <2>5. NoPawnIsLeft(after)
    BY <1>3, <2>2, <2>3 DEF NoPawnIsLeft
  <2> QED
    BY <2>1, <2>4, <2>5
<1> QED
  BY <1>4, <1>5, <1>6

\* Castling.
LEMMA CastleKeepsGame ==
  ASSUME NEW b, BoardOK(b), KingsAreAtHome(b), NoPawnIsLeft(b), NEW c \in Colors,
         NEW side \in Sides, CanColorCastle(b, c, side),
         NEW after, after = PerformCastle(b, c, side)
  PROVE  /\ BoardOK(after) /\ KingsAreAtHome(after) /\ NoPawnIsLeft(after)
         /\ IsFair(after, Opposite(c)) /\ \A l \in DOMAIN after : ~after[l].enPassant
<1> DEFINE ks == KingStart(c)
           rs == RookStart(c, side)
           ke == KingEnd(c, side)
           re == RookEnd(c, side)
           once == MovePiece(b, ks, ke)
           p == SeenOf(once)
<1>1. /\ Has(b, ks, "king", c) /\ Has(b, rs, "rook", c)
      /\ ks \in All /\ rs \in All /\ ke \in All /\ re \in All
      /\ ks # ke /\ rs \notin {ks, ke, re} /\ re # ke
      /\ X(rs) \in {0, 7} /\ Y(rs) = Y(ke)
  BY CastleIsOurs, CastleSquares, CastlePlaces
<1>2. ke \notin DOMAIN b /\ re \notin DOMAIN b
  BY CastleSquares DEF CanColorCastle
<1>3. ~IsColorInCheck(once, c)
  <2>1. ke \in {l \in All \ {ks} : (ks <= l /\ l <= ke) \/ (ke <= l /\ l <= ks)}
    BY <1>1 DEF All
  <2> QED
    BY <2>1 DEF CanColorCastle
<1>4. after = MovePiece(once, rs, re)
  BY DEF PerformCastle
<1> HIDE DEF ks, rs, ke, re
<1>5. ks \in DOMAIN b /\ b[ks].type = "king" /\ b[ks].color = c /\ rs \in DOMAIN b
        /\ b[rs].type = "rook" /\ b[rs].color = c
  BY <1>1 DEF Has
<1>6. BoardOK(once) /\ KingsAreAtHome(once)
  BY <1>1, <1>2, <1>5, MoveKeepsBoard, MoveKeepsHomes DEF NotAKing
<1>7. /\ DOMAIN once \subseteq (DOMAIN b \ {ks}) \cup {ke} /\ ke \in DOMAIN once
      /\ once[ke].type = "king" /\ once[ke].color = c
      /\ rs \in DOMAIN once /\ once[rs].type = "rook" /\ once[rs].color = c
      /\ \A l \in DOMAIN once \ {ke} :
           l \in DOMAIN b /\ once[l].type = b[l].type /\ once[l].color = b[l].color
  BY <1>1, <1>5, MovedPieces
<1> HIDE DEF once
<1>8. BoardOK(after) /\ KingsAreAtHome(after)
  <2>1. NotAKing(once, re)
    BY <1>1, <1>2, <1>7 DEF NotAKing
  <2> QED
    BY <1>1, <1>4, <1>6, <1>7, <2>1, MoveKeepsBoard, MoveKeepsHomes
<1>9. /\ re \in DOMAIN after /\ after[re].type = "rook" /\ ~after[re].enPassant
      /\ ke \in DOMAIN after
      /\ \A l \in DOMAIN after \ {re} :
           /\ l \in DOMAIN once /\ ~after[l].enPassant
           /\ after[l].type = once[l].type /\ after[l].color = once[l].color
  BY <1>1, <1>4, <1>6, <1>7, MovedPieces
<1>10. NoPawnIsLeft(after)
  BY <1>7, <1>9 DEF NoPawnIsLeft
<1>11. PassingIsFair(after, Opposite(c))
  BY <1>9 DEF PassingIsFair
<1>12. ASSUME IsColorInCheck(after, c) PROVE FALSE
  <2>1. Has(after, ke, "king", c) /\ Has(once, ke, "king", c)
    BY <1>1, <1>7, <1>9 DEF Has
  <2>2. SeenOf(after) = Carried(p, rs, re)
    BY <1>4, <1>6, <1>7, BoardIsBoard, OfficerIsCarried
  <2>3. Rules!Attacked(SeenOf(after), c, ke)
    BY <1>1, <1>8, <1>12, <2>1, CheckIsAttack
  <2>4. DOMAIN p \subseteq All /\ TypesSeen(p) /\ rs \in DOMAIN p /\ p[rs].color = c
    BY <1>6, <1>7, BoardIsBoard, SeenTypes, SeenPiece
  <2> HIDE DEF p
  <2>5. Rules!Attacked(p, c, ke)
    BY <1>1, <2>2, <2>3, <2>4, RookStepsAside
  <2> QED
    BY <1>1, <1>3, <1>6, <2>1, <2>5, CheckIsAttack DEF p
<1>13. IsFair(after, Opposite(c))
  BY <1>11, <1>12 DEF IsFair, Opposite, Colors
<1> QED
  BY <1>8, <1>9, <1>10, <1>13

-----------------------------------------------------------------------------
(* The games played.                                                       *)

\* It holds at the start, when nothing is flagged.
LEMMA StartIsGame == Init => TypeOK /\ IsGame /\ \A l \in DOMAIN board : ~board[l].enPassant
<1> SUFFICES ASSUME Init
             PROVE  TypeOK /\ IsGame /\ \A l \in DOMAIN board : ~board[l].enPassant
  OBVIOUS
<1>1. PICK start \in Starts :
        board = start.board /\ turn = start.turn /\ moves = start.moves
  BY DEF Init
<1>2. TypeOK
  BY <1>1, StartsAreBoards DEF Init, TypeOK
<1>3. /\ ~IsColorInCheck(board, Opposite(turn))
      /\ \A l \in DOMAIN board :
           /\ ~board[l].enPassant
           /\ board[l].type = "pawn" => Y(l) # LastRow(board[l].color)
           /\ board[l].type = "king" /\ ~board[l].hasMoved => l = KingStart(board[l].color)
  BY <1>1, StartsAreFair
<1> QED
  BY <1>2, <1>3 DEF IsGame, KingsAreAtHome, NoPawnIsLeft, IsFair, PassingIsFair

\* A step of the game, by what it makes of the board.
LEMMA StepKeepsGame ==
  ASSUME TypeOK, IsGame, Next
  PROVE  /\ BoardOK(board') /\ KingsAreAtHome(board') /\ NoPawnIsLeft(board')
         /\ IsFair(board', Opposite(turn))
<1>1. BoardOK(board) /\ KingsAreAtHome(board) /\ NoPawnIsLeft(board) /\ turn \in Colors
  BY DEF TypeOK, IsGame
<1>2. ASSUME NEW from \in DOMAIN board, NEW to \in All, Move(from, to)
      PROVE  /\ BoardOK(board') /\ KingsAreAtHome(board') /\ NoPawnIsLeft(board')
             /\ IsFair(board', Opposite(turn))
  <2>1. CanMovePiece(board, turn, from, to) /\ MadeBy(board, turn, from, to, board')
    BY <1>2 DEF Move, MadeBy
  <2> QED
    BY <1>1, <2>1, MoveKeepsGame
<1>3. ASSUME NEW side \in Sides, Castle(side)
      PROVE  /\ BoardOK(board') /\ KingsAreAtHome(board') /\ NoPawnIsLeft(board')
             /\ IsFair(board', Opposite(turn))
  BY <1>1, <1>3, CastleKeepsGame DEF Castle
<1> QED
  BY <1>2, <1>3 DEF Next

\* It holds always.
LEMMA GamesStayGames == Spec => [](TypeOK /\ IsGame)
<1>1. TypeOK /\ IsGame /\ [Next]_vars => IsGame'
  <2> SUFFICES ASSUME TypeOK, IsGame, [Next]_vars
               PROVE  IsGame'
    OBVIOUS
  <2>1. CASE Next
    <3>1. state' = "inProgress" => turn' = Opposite(turn)
      BY <2>1 DEF Next, Move, Castle, PlayerDidMakeMove
    <3> QED
      BY <2>1, <3>1, StepKeepsGame DEF IsGame
  <2>2. CASE UNCHANGED vars
    BY <2>2 DEF vars, IsGame
  <2> QED
    BY <2>1, <2>2
<1> QED
  BY <1>1, StartIsGame, BoardsStayBoards, PTL DEF Spec

\* The refinement mapping, of the board.
LEMMA WhatIsSeen ==
  Seen = SeenOf(board) /\ Passing = PassingOf(board) /\ Rights = RightsOf(board)
  BY DEF Seen, SeenOf, Passing, PassingOf, Rights

\* Whatever the start and whatever is played, players may make exactly the moves
\* that the rules of chess allow: PieceMovement's walks by strides over a board
\* that is numbered through, with the flags of passing pawns and the king that is
\* looked at as a pawn, miss no move and allow none too many.
THEOREM PlayersMoveByTheRules == Spec => []MovesAreTheRules
<1>1. TypeOK /\ IsGame => MovesAreTheRules
  <2> SUFFICES ASSUME TypeOK, IsGame, state = "inProgress",
                      NEW from \in DOMAIN board, NEW to \in All
               PROVE  CanMovePiece(board, turn, from, to) <=>
                        board[from].color = turn /\ Rules!Legal(Seen, Passing, from, to)
    BY DEF MovesAreTheRules
  <2>1. /\ BoardOK(board) /\ turn \in Colors /\ PassingIsFair(board, turn)
        /\ ~IsColorInCheck(board, Opposite(turn))
    BY DEF TypeOK, IsGame, IsFair
  <2> QED
    BY <2>1, WhatIsSeen, LegalIsSeen
<1> QED
  BY <1>1, GamesStayGames, PTL

\* Castling is always allowed exactly by right, although canColorCastle asks
\* neither whose king and rook stand there, nor whether the rook is one that a
\* pawn became: an unmoved king is always at home, and a strange rook checks it.
THEOREM CastlesAreByRight == Spec => []CastlingIsByRight
<1>1. TypeOK /\ IsGame => CastlingIsByRight
  BY WhatIsSeen, CastlingIsSeen DEF TypeOK, IsGame, CastlingIsByRight
<1> QED
  BY <1>1, GamesStayGames, PTL

-----------------------------------------------------------------------------
(* Every game is a game of chess.                                          *)

\* What a move, with the promotion, leaves behind.
LEMMA MadePieces ==
  ASSUME NEW b, BoardOK(b), NoPawnIsLeft(b), NEW c \in Colors,
         NEW from \in DOMAIN b, NEW to \in All, CanMovePiece(b, c, from, to),
         NEW after, MadeBy(b, c, from, to, after)
  PROVE  LET flag == /\ b[from].type = "pawn" /\ Y(from) = PawnRow(c)
                     /\ Y(to) = TwoAheadRow(c) IN
         /\ from # to /\ b[from].color = c
         /\ DOMAIN after \subseteq (DOMAIN b \ {from}) \cup {to} /\ to \in DOMAIN after
         /\ after[to].color = c /\ (after[to].enPassant <=> flag)
         /\ after[to].hasMoved \/ (Y(to) = LastRow(c) /\ after[to].type # "king")
         /\ \A l \in DOMAIN after \ {to} :
              /\ l \in DOMAIN b /\ l # from /\ ~after[l].enPassant
              /\ after[l].type = b[l].type /\ after[l].color = b[l].color
              /\ after[l].hasMoved = b[l].hasMoved
         /\ \A l \in DOMAIN b \ {from, to} : b[l].type # "pawn" => l \in DOMAIN after
<1> DEFINE moved == MovePiece(b, from, to)
           pawns == PromotablePawns(moved, c)
           flag == /\ b[from].type = "pawn" /\ Y(from) = PawnRow(c)
                   /\ Y(to) = TwoAheadRow(c)
<1>1. from # to /\ b[from].color = c
  BY DEF CanMovePiece
<1>2. /\ DOMAIN moved \subseteq (DOMAIN b \ {from}) \cup {to} /\ to \in DOMAIN moved
      /\ moved[to].type = b[from].type /\ moved[to].color = c
      /\ moved[to].hasMoved /\ (moved[to].enPassant <=> flag)
  BY <1>1, MovedPieces
<1>3. \A l \in DOMAIN moved \ {to} :
        /\ l \in DOMAIN b /\ l # from /\ ~moved[l].enPassant
        /\ moved[l].type = b[l].type /\ moved[l].color = b[l].color
        /\ moved[l].hasMoved = b[l].hasMoved
  BY <1>1, MovedPieces
<1>4. \A l \in DOMAIN b \ {from, to} : b[l].type # "pawn" => l \in DOMAIN moved
  BY <1>1, MovedPieces
<1>5. BoardOK(moved)
  BY MoveIsFair
<1>6. ASSUME NEW l \in pawns
      PROVE  l = to
  BY <1>1, OnlyTheMoverIsPromoted DEF PromotablePawns, Has
<1>7. \/ pawns = {} /\ after = moved
      \/ \E l \in pawns, type \in Promotions : after = Promoted(moved, l, type)
  BY DEF MadeBy
<1> HIDE DEF moved, flag
<1>8. CASE pawns = {} /\ after = moved
  BY <1>1, <1>2, <1>3, <1>4, <1>8 DEF flag
<1>9. ASSUME NEW l \in pawns, NEW type \in Promotions, after = Promoted(moved, l, type)
      PROVE  /\ DOMAIN after = DOMAIN moved /\ after[to].color = c
             /\ ~after[to].enPassant /\ ~flag
             /\ Y(to) = LastRow(c) /\ after[to].type # "king"
             /\ \A m \in DOMAIN after \ {to} : after[m] = moved[m]
  <2>1. l = to
    BY <1>6
  <2>2. /\ DOMAIN after = DOMAIN moved /\ after[l].color = c /\ ~after[l].enPassant
        /\ Y(l) = LastRow(c) /\ after[l].type # "king"
        /\ \A m \in DOMAIN moved \ {l} : after[m] = moved[m]
    BY <1>5, <1>9, PromotedPieces
  <2>3. LastRow(c) # TwoAheadRow(c)
    BY DEF LastRow, TwoAheadRow
  <2> QED
    BY <2>1, <2>2, <2>3 DEF flag
<1>10. ASSUME NEW l \in pawns, NEW type \in Promotions, after = Promoted(moved, l, type)
       PROVE  /\ DOMAIN after \subseteq (DOMAIN b \ {from}) \cup {to} /\ to \in DOMAIN after
              /\ after[to].color = c /\ (after[to].enPassant <=> flag)
              /\ Y(to) = LastRow(c) /\ after[to].type # "king"
              /\ \A m \in DOMAIN after \ {to} :
                   /\ m \in DOMAIN b /\ m # from /\ ~after[m].enPassant
                   /\ after[m].type = b[m].type /\ after[m].color = b[m].color
                   /\ after[m].hasMoved = b[m].hasMoved
              /\ \A m \in DOMAIN b \ {from, to} : b[m].type # "pawn" => m \in DOMAIN after
  BY <1>2, <1>3, <1>4, <1>9, <1>10
<1> QED
  BY <1>1, <1>7, <1>8, <1>10 DEF flag

\* It is what the rules make of the piece and of the position.
LEMMA MadeIsAfter ==
  ASSUME NEW b, BoardOK(b), NoPawnIsLeft(b), NEW c \in Colors, PassingIsFair(b, c),
         NEW from \in DOMAIN b, NEW to \in All, CanMovePiece(b, c, from, to),
         NEW after, MadeBy(b, c, from, to, after)
  PROVE  \E type \in Types :
           /\ type \in Rules!Becomes(SeenOf(b), from, to)
           /\ SeenOf(after) = Rules!After(SeenOf(b), PassingOf(b), from, to, type)
<1> DEFINE p == SeenOf(b)
           moved == MovePiece(b, from, to)
           pawns == PromotablePawns(moved, c)
           last == b[from].type = "pawn" /\ Y(to) = LastRow(c)
           After(type) == Rules!After(p, PassingOf(b), from, to, type)
<1>1. from # to /\ b[from].color = c /\ CanPieceMove(b, from, to) /\ b[from].type \in Types
  <2>1. b[from].type \in Types
    BY DEF BoardOK, Pieces
  <2> QED
    BY <2>1 DEF CanMovePiece
<1>2. BoardOK(moved)
  BY MoveIsFair
<1>3. SeenOf(moved) = After(b[from].type)
  BY <1>1, MoveIsAfter
<1>4. Rules!Becomes(p, from, to) = IF last THEN Promotions ELSE {b[from].type}
  <2>1. p[from].type = b[from].type /\ p[from].color = c
    BY <1>1, SeenPiece
  <2>2. Rules!HomeRank(Rules!Opposite(c)) = LastRow(c) /\ Rules!Rank(to) = Y(to)
    BY DEF Rules!HomeRank, Rules!Opposite, LastRow, Rules!Rank, Y, Colors
  <2>3. Rules!Promotions = Promotions
    BY DEF Rules!Promotions, Promotions
  <2> HIDE DEF p
  <2> QED
    BY <2>1, <2>2, <2>3 DEF Rules!Becomes
<1>5. \A l : l \in pawns <=> l = to /\ last
  <2>1. moved[to].type = b[from].type /\ moved[to].color = c /\ to \in DOMAIN moved
    BY <1>1, MovedPieces
  <2>2. last => to \in pawns
    BY <2>1 DEF PromotablePawns, Has
  <2>3. \A l \in pawns : l = to /\ b[from].type = "pawn" /\ Y(l) = LastRow(c)
    BY <1>1, OnlyTheMoverIsPromoted DEF PromotablePawns, Has
  <2> QED
    BY <2>2, <2>3
<1>6. \/ pawns = {} /\ after = moved
      \/ \E l \in pawns, type \in Promotions : after = Promoted(moved, l, type)
  BY DEF MadeBy
<1>7. CASE pawns = {} /\ after = moved
  <2>1. ~last
    BY <1>5, <1>7
  <2> HIDE DEF moved, After, pawns, last, p
  <2> QED
    BY <1>1, <1>3, <1>4, <1>7, <2>1 DEF After, p
<1>8. ASSUME NEW l \in pawns, NEW type \in Promotions, after = Promoted(moved, l, type)
      PROVE  type \in Types /\ type \in Rules!Becomes(p, from, to) /\ SeenOf(after) = After(type)
  <2>1. l = to /\ last
    BY <1>5
  <2>2. /\ to \in DOMAIN moved /\ DOMAIN after = DOMAIN moved
        /\ after[to].type = type /\ after[to].color = c
        /\ \A m \in DOMAIN moved \ {to} : after[m] = moved[m]
    BY <1>2, <1>8, <2>1, PromotedPieces
  <2> DEFINE q == SeenOf(moved)
             D == DOMAIN After(type)
  <2>3. /\ D = DOMAIN After(b[from].type)
        /\ \A s \in D : After(type)[s] = IF s = to THEN [type |-> type, color |-> c]
                                                   ELSE After(b[from].type)[s]
        /\ After(type) = [s \in D |-> After(type)[s]]
    <3>1. p[from].color = c
      BY <1>1, SeenPiece
    <3> HIDE DEF p
    <3> QED
      BY <3>1 DEF Rules!After
  <2>4. D = DOMAIN moved
    BY <1>3, <2>3, SeenPiece
  <2>5. SeenOf(after) = [s \in D |-> SeenOf(after)[s]]
    BY <2>2, <2>4 DEF SeenOf
  <2>6. \A s \in D : SeenOf(after)[s] = IF s = to THEN [type |-> type, color |-> c] ELSE q[s]
    BY <2>2, <2>4 DEF SeenOf
  <2>7. SeenOf(after) = After(type)
    <3> HIDE DEF After, moved, D
    <3> QED
      BY <1>3, <2>3, <2>5, <2>6
  <2> QED
    BY <1>4, <2>1, <2>7 DEF Types
<1> HIDE DEF After, pawns, moved, p
<1> QED
  BY <1>6, <1>7, <1>8 DEF After, p

\* A right is lost when its king or its rook goes, or is taken.
LEMMA MadeLosesRights ==
  ASSUME NEW b, BoardOK(b), NoPawnIsLeft(b), NEW c \in Colors,
         NEW from \in DOMAIN b, NEW to \in All, CanMovePiece(b, c, from, to),
         NEW after, MadeBy(b, c, from, to, after)
  PROVE  RightsOf(after) =
           {r \in RightsOf(b) :
              {from, to} \cap {Rules!KingHome(r[1]), Rules!RookHome(r[1], r[2])} = {}}
<1> DEFINE Unmoved(board_, l, type, e) == Has(board_, l, type, e) /\ ~board_[l].hasMoved
<1>1. /\ from # to /\ DOMAIN after \subseteq (DOMAIN b \ {from}) \cup {to} /\ to \in DOMAIN after
      /\ after[to].color = c
      /\ after[to].hasMoved \/ (Y(to) = LastRow(c) /\ after[to].type # "king")
      /\ \A l \in DOMAIN after \ {to} :
           /\ l \in DOMAIN b /\ l # from
           /\ after[l].type = b[l].type /\ after[l].color = b[l].color
           /\ after[l].hasMoved = b[l].hasMoved
      /\ \A l \in DOMAIN b \ {from, to} : b[l].type # "pawn" => l \in DOMAIN after
  BY MadePieces
<1>2. \A e \in Colors : YPos(e) # LastRow(e)
  BY DEF YPos, LastRow
<1>3. ASSUME NEW e \in Colors, NEW l \in All, Y(l) = YPos(e), NEW type \in {"king", "rook"}
      PROVE  Unmoved(after, l, type, e) <=> Unmoved(b, l, type, e) /\ l \notin {from, to}
  <2>1. CASE l = to
    BY <1>1, <1>2, <1>3, <2>1 DEF Has
  <2>2. CASE l = from
    BY <1>1, <2>2 DEF Has
  <2>3. CASE l \notin {from, to}
    BY <1>1, <1>3, <2>3 DEF Has
  <2> QED
    BY <2>1, <2>2, <2>3
<1>4. ASSUME NEW r \in Colors \X Sides
      PROVE  LET king == KingStart(r[1])
                 rook == RookStart(r[1], r[2]) IN
             /\ Rules!KingHome(r[1]) = king /\ Rules!RookHome(r[1], r[2]) = rook
             /\ Unmoved(after, king, "king", r[1]) /\ Unmoved(after, rook, "rook", r[1]) <=>
                  /\ Unmoved(b, king, "king", r[1]) /\ Unmoved(b, rook, "rook", r[1])
                  /\ {from, to} \cap {king, rook} = {}
  <2>1. r[1] \in Colors /\ r[2] \in Sides
    OBVIOUS
  <2> DEFINE king == KingStart(r[1])
             rook == RookStart(r[1], r[2])
  <2>2. /\ king \in All /\ Y(king) = YPos(r[1]) /\ Rules!KingHome(r[1]) = king
        /\ rook \in All /\ Y(rook) = YPos(r[1]) /\ Rules!RookHome(r[1], r[2]) = rook
    BY <2>1, CastlePlaces
  <2> HIDE DEF king, rook, Unmoved
  <2>3. Unmoved(after, king, "king", r[1]) <=> Unmoved(b, king, "king", r[1]) /\ king \notin {from, to}
    BY <1>3, <2>1, <2>2
  <2>4. Unmoved(after, rook, "rook", r[1]) <=> Unmoved(b, rook, "rook", r[1]) /\ rook \notin {from, to}
    BY <1>3, <2>1, <2>2
  <2>5. {from, to} \cap {king, rook} = {} <=> king \notin {from, to} /\ rook \notin {from, to}
    OBVIOUS
  <2> QED
    BY <2>2, <2>3, <2>4, <2>5 DEF king, rook
<1>5. \A d : RightsOf(d) = {r \in Colors \X Sides :
                              /\ Unmoved(d, KingStart(r[1]), "king", r[1])
                              /\ Unmoved(d, RookStart(r[1], r[2]), "rook", r[1])}
  BY DEF RightsOf
<1> HIDE DEF Unmoved
<1> QED
  BY <1>4, <1>5

\* The square that a pawn has just passed.
LEMMA MadePasses ==
  ASSUME NEW b, BoardOK(b), NoPawnIsLeft(b), NEW c \in Colors,
         NEW from \in DOMAIN b, NEW to \in All, CanMovePiece(b, c, from, to),
         NEW after, BoardOK(after), MadeBy(b, c, from, to, after)
  PROVE  PassingOf(after) =
           IF SeenOf(b)[from].type = "pawn" /\ Rules!Ranks(from, to) = 2
             THEN from + 8 * Rules!Forward(c) ELSE Rules!NoSquare
<1>1. /\ to \in DOMAIN after /\ after[to].color = c /\ b[from].color = c
      /\ after[to].enPassant <=> /\ b[from].type = "pawn" /\ Y(from) = PawnRow(c)
                                 /\ Y(to) = TwoAheadRow(c)
      /\ \A l \in DOMAIN after \ {to} : ~after[l].enPassant
  BY MadePieces
<1>2. CanPieceMove(b, from, to)
  BY DEF CanMovePiece
<1>3. SeenOf(b)[from].type = b[from].type /\ Rules!NoSquare = -1 /\ Rules!Forward(c) = Forward(c)
  BY SeenPiece DEF Rules!NoSquare, Rules!Forward, Forward
<1>4. CASE b[from].type = "pawn"
  <2>1. /\ from \in All /\ Y(from) \in 0..7 /\ Y(to) \in 0..7
        /\ \/ Y(to) = Y(from) + Forward(c)
           \/ Y(from) = PawnRow(c) /\ Y(to) = Y(from) + 2 * Forward(c) /\ TwoAhead(from, to, c)
    <3>1. b[from].color = c
      BY <1>1
    <3>2. /\ from \in All /\ Y(from) \in 0..7 /\ Y(to) \in 0..7
          /\ \/ Y(to) = Y(from) + Forward(c)
             \/ /\ Y(from) = PawnRow(c) /\ Y(to) = Y(from) + 2 * Forward(c)
                /\ TwoAhead(from, to, c) /\ Incremented(from, <<0, Forward(c)>>) \notin DOMAIN b
      BY <1>2, <1>4, <3>1, PawnGoesAhead
    <3> QED
      BY <3>2, Zenon
  <2>2. Rules!Ranks(from, to) = 2 <=> Y(to) = Y(from) + 2 * Forward(c)
    <3>1. Rules!Ranks(from, to) = IF Y(to) - Y(from) < 0 THEN -(Y(to) - Y(from)) ELSE Y(to) - Y(from)
      BY DEF Rules!Ranks, Rules!AbsOf, Rules!Rank, Y
    <3>2. Forward(c) \in {-1, 1}
      BY DEF Forward
    <3> QED
      BY <2>1, <3>1, <3>2
  <2>3. after[to].enPassant <=> Rules!Ranks(from, to) = 2
    BY <1>1, <1>4, <2>1, <2>2, TwoRows
  <2>4. CASE after[to].enPassant
    <3>1. to = CHOOSE m \in DOMAIN after : after[m].enPassant
      BY <1>1, <2>4
    <3>2. PassingOf(after) = Incremented(to, <<0, -Forward(c)>>)
      BY <1>1, <2>4, <3>1 DEF PassingOf
    <3>3. TwoAhead(from, to, c)
      <4>1. Forward(c) \in {-1, 1}
        BY DEF Forward
      <4> QED
        BY <2>1, <2>2, <2>3, <2>4, <4>1
    <3>4. Incremented(to, <<0, -Forward(c)>>) = from + 8 * Forward(c)
      BY <2>1, <3>3 DEF TwoAhead, Incremented, Forward, All
    <3> QED
      BY <1>3, <1>4, <2>3, <2>4, <3>2, <3>4
  <2>5. CASE ~after[to].enPassant
    <3>1. PassingOf(after) = -1
      BY <1>1, <2>5 DEF PassingOf
    <3> QED
      BY <1>3, <2>3, <2>5, <3>1
  <2> QED
    BY <2>4, <2>5
<1>5. CASE b[from].type # "pawn"
  <2>1. PassingOf(after) = -1
    BY <1>1, <1>5 DEF PassingOf
  <2> QED
    BY <1>3, <1>5, <2>1
<1> QED
  BY <1>4, <1>5

\* Games are won, and stuck, as the rules say.
LEMMA TurnEndsByTheRules ==
  ASSUME turn \in Colors, BoardOK(board'), IsFair(board', Opposite(turn)), PlayerDidMakeMove
  PROVE  Rules!EndTurn
<1> DEFINE other == Opposite(turn)
           able == IsColorAbleToMove(board', other)
           check == IsColorInCheck(board', other)
<1>1. Seen' = SeenOf(board') /\ Passing' = PassingOf(board') /\ Rules!Opposite(turn) = other
  BY DEF Seen, SeenOf, Passing, PassingOf, Rules!Opposite, Opposite
<1>2. other \in Colors
  BY OppositeColor
<1>3. /\ able <=> Rules!CanMove(SeenOf(board'), PassingOf(board'), other)
      /\ check <=> Rules!InCheck(SeenOf(board'), other)
  BY <1>2, AbleIsSeen, CheckIsSeen, BoardIsBoard DEF IsFair
<1>4. state' = IF able THEN "inProgress" ELSE IF check THEN "won" ELSE "staleMate"
  <2>1. Beaten(board', other) <=> check /\ ~able
    BY DEF Beaten, IsColorInCheckMate
  <2>2. IsColorInStalemate(board', other) <=> ~able /\ ~check
    BY DEF IsColorInStalemate, IsColorInCheckMate
  <2>3. state' = CASE Beaten(board', other) -> "won"
                   [] IsColorInStalemate(board', other) -> "staleMate"
                   [] OTHER -> "inProgress"
    BY DEF PlayerDidMakeMove
  <2> HIDE DEF able, check
  <2> QED
    BY <2>1, <2>2, <2>3
<1>5. state' = Rules!Verdict(Seen', Passing', turn)
  <2>1. Rules!Verdict(Seen', Passing', turn) =
          IF able THEN "inProgress" ELSE IF check THEN "won" ELSE "staleMate"
    BY <1>1, <1>3 DEF Rules!Verdict
  <2> HIDE DEF able, check
  <2> QED
    BY <1>4, <2>1
<1> QED
  BY <1>1, <1>5 DEF PlayerDidMakeMove, Rules!EndTurn

\* Castling carries king and rook, and ends both rights of its side.
LEMMA CastleIsCastled ==
  ASSUME NEW b, BoardOK(b), KingsAreAtHome(b), NoPawnIsLeft(b), NEW c \in Colors,
         NEW side \in Sides, CanColorCastle(b, c, side),
         NEW after, after = PerformCastle(b, c, side)
  PROVE  /\ SeenOf(after) = Rules!Castled(SeenOf(b), c, side)
         /\ RightsOf(after) = {r \in RightsOf(b) : r[1] # c}
         /\ PassingOf(after) = Rules!NoSquare
<1> DEFINE ks == KingStart(c)
           rs == RookStart(c, side)
           ke == KingEnd(c, side)
           re == RookEnd(c, side)
           once == MovePiece(b, ks, ke)
           p == SeenOf(b)
<1>1. /\ Has(b, ks, "king", c) /\ Has(b, rs, "rook", c)
      /\ ks \in All /\ rs \in All /\ ke \in All /\ re \in All
      /\ ks \notin {ke, re} /\ rs \notin {ks, ke, re} /\ re # ke
      /\ \A l \in {ks, rs, ke, re} : Y(l) = YPos(c)
      /\ Rules!KingHome(c) = ks /\ Rules!RookHome(c, side) = rs
      /\ Rules!KingCastled(c, side) = ke /\ Rules!RookCastled(c, side) = re
  <2>1. ks # re
    BY CastleSquares DEF All
  <2> QED
    BY <2>1, CastleIsOurs, CastleSquares, CastlePlaces
<1>2. ke \notin DOMAIN b /\ re \notin DOMAIN b
  BY CastleSquares DEF CanColorCastle
<1>3. after = MovePiece(once, rs, re)
  BY DEF PerformCastle
<1>4. RightsOf(after) \subseteq RightsOf(b)
  BY CastleGivesNoRight
<1>5. PassingOf(after) = Rules!NoSquare
  BY CastleKeepsGame DEF PassingOf, Rules!NoSquare
<1> HIDE DEF ks, rs, ke, re
<1>6. ks \in DOMAIN b /\ b[ks].type = "king" /\ rs \in DOMAIN b /\ b[rs].type = "rook"
  BY <1>1 DEF Has
<1>7. BoardOK(once)
  BY <1>1, <1>2, <1>6, MoveKeepsBoard DEF NotAKing
<1>8. /\ DOMAIN once \subseteq (DOMAIN b \ {ks}) \cup {ke}
      /\ \A l \in DOMAIN once \ {ke} :
           /\ l \in DOMAIN b /\ once[l].type = b[l].type /\ once[l].color = b[l].color
           /\ once[l].hasMoved = b[l].hasMoved
      /\ \A l \in DOMAIN b \ {ks, ke} : b[l].type # "pawn" => l \in DOMAIN once
  BY <1>1, <1>6, MovedPieces
<1>9. SeenOf(once) = Carried(p, ks, ke)
  BY <1>6, <1>7, BoardIsBoard, OfficerIsCarried
<1> HIDE DEF once
<1>10. rs \in DOMAIN once /\ once[rs].type = "rook"
  BY <1>1, <1>6, <1>8
<1>11. /\ DOMAIN after \subseteq (DOMAIN once \ {rs}) \cup {re}
       /\ \A l \in DOMAIN after \ {re} :
            /\ l \in DOMAIN once /\ after[l].type = once[l].type /\ after[l].color = once[l].color
            /\ after[l].hasMoved = once[l].hasMoved
       /\ \A l \in DOMAIN once \ {rs, re} : once[l].type # "pawn" => l \in DOMAIN after
  BY <1>1, <1>3, <1>7, <1>10, MovedPieces
<1>12. SeenOf(after) = Carried(Carried(p, ks, ke), rs, re)
  BY <1>3, <1>7, <1>9, <1>10, BoardIsBoard, OfficerIsCarried
<1>13. ks \in DOMAIN p /\ rs \in DOMAIN p
  BY <1>6, SeenPiece
<1> HIDE DEF p
<1>14. SeenOf(after) = Rules!Castled(p, c, side)
  <2>1. Rules!Castled(p, c, side) =
          [s \in (DOMAIN p \ {ks, rs}) \cup {ke, re} |->
             IF s = ke THEN p[ks] ELSE IF s = re THEN p[rs] ELSE p[s]]
    BY <1>1 DEF Rules!Castled
  <2>2. Carried(Carried(p, ks, ke), rs, re) =
          [s \in (DOMAIN p \ {ks, rs}) \cup {ke, re} |->
             IF s = ke THEN p[ks] ELSE IF s = re THEN p[rs] ELSE p[s]]
    BY <1>1, <1>13 DEF Carried
  <2> QED
    BY <1>12, <2>1, <2>2
<1>15. ASSUME NEW r \in RightsOf(after)
       PROVE  r[1] # c
  <2>1. KingStart(r[1]) \in DOMAIN after
    BY DEF RightsOf, Has
  <2>2. ks \notin DOMAIN after
    BY <1>1, <1>8, <1>11
  <2> QED
    BY <2>1, <2>2 DEF ks
<1>16. ASSUME NEW r \in RightsOf(b), r[1] # c
       PROVE  r \in RightsOf(after)
  <2>1. r \in Colors \X Sides /\ r[1] \in Colors /\ r[2] \in Sides
    BY DEF RightsOf
  <2> DEFINE king == KingStart(r[1])
             rook == RookStart(r[1], r[2])
  <2>2. /\ Has(b, king, "king", r[1]) /\ ~b[king].hasMoved
        /\ Has(b, rook, "rook", r[1]) /\ ~b[rook].hasMoved
    BY DEF RightsOf
  <2>3. Y(king) = YPos(r[1]) /\ Y(rook) = YPos(r[1])
    BY <2>1, CastlePlaces
  <2>4. YPos(r[1]) # YPos(c)
    BY <1>16, <2>1 DEF YPos, Colors
  <2>5. king \notin {ks, rs, ke, re} /\ rook \notin {ks, rs, ke, re}
    BY <1>1, <2>3, <2>4
  <2> HIDE DEF king, rook
  <2>6. ASSUME NEW l \in {king, rook}, NEW type \in {"king", "rook"},
               Has(b, l, type, r[1]), ~b[l].hasMoved
        PROVE  Has(after, l, type, r[1]) /\ ~after[l].hasMoved
    BY <1>8, <1>11, <2>5, <2>6 DEF Has
  <2> QED
    BY <2>1, <2>2, <2>6 DEF RightsOf, king, rook
<1>17. RightsOf(after) = {r \in RightsOf(b) : r[1] # c}
  BY <1>4, <1>15, <1>16
<1> QED
  BY <1>5, <1>14, <1>17 DEF p

\* A step of Move is a step of the rules' Move.
LEMMA MoveIsByTheRules ==
  ASSUME TypeOK, IsGame, state = "inProgress", moves < MaxMoves,
         NEW from \in DOMAIN board, NEW to \in All, Move(from, to)
  PROVE  Rules!Next
<1>1. /\ BoardOK(board) /\ KingsAreAtHome(board) /\ NoPawnIsLeft(board) /\ turn \in Colors
      /\ PassingIsFair(board, turn) /\ ~IsColorInCheck(board, Opposite(turn))
  BY DEF TypeOK, IsGame, IsFair
<1>2. CanMovePiece(board, turn, from, to) /\ MadeBy(board, turn, from, to, board')
  BY DEF Move, MadeBy
<1>3. BoardOK(board') /\ IsFair(board', Opposite(turn))
  BY <1>1, <1>2, MoveKeepsGame
<1>4. /\ Seen' = SeenOf(board') /\ Passing' = PassingOf(board') /\ Rights' = RightsOf(board')
  BY DEF Seen, SeenOf, Passing, PassingOf, Rights
<1>5. PICK type \in Types :
        /\ type \in Rules!Becomes(Seen, from, to)
        /\ Seen' = Rules!After(Seen, Passing, from, to, type)
  BY <1>1, <1>2, <1>4, WhatIsSeen, MadeIsAfter
<1>6. /\ board[from].color = turn /\ Rules!Legal(Seen, Passing, from, to)
      /\ Seen[from].color = turn /\ from \in DOMAIN Seen
  <2>1. board[from].color = turn /\ Rules!Legal(Seen, Passing, from, to)
    BY <1>1, <1>2, WhatIsSeen, LegalIsSeen
  <2> QED
    BY <2>1, WhatIsSeen, SeenPiece
<1>7. Rights' = {r \in Rights :
                   {from, to} \cap {Rules!KingHome(r[1]), Rules!RookHome(r[1], r[2])} = {}}
  BY <1>1, <1>2, <1>4, WhatIsSeen, MadeLosesRights
<1>8. Passing' = IF Seen[from].type = "pawn" /\ Rules!Ranks(from, to) = 2
                   THEN from + 8 * Rules!Forward(turn) ELSE Rules!NoSquare
  BY <1>1, <1>2, <1>3, <1>4, WhatIsSeen, MadePasses
<1>9. Rules!EndTurn
  BY <1>1, <1>3, TurnEndsByTheRules DEF Move
<1>10. Rules!Move(from, to, type)
  BY <1>5, <1>6, <1>7, <1>8, <1>9 DEF Rules!Move
<1>11. Rules!All = All /\ Rules!Types = Types
  BY DEF Rules!All, All, Rules!Types, Types, Rules!Promotions, Promotions
<1> QED
  BY <1>6, <1>10, <1>11 DEF Rules!Next

\* A step of Castle is one of the rules' Castle.
LEMMA CastleIsByTheRules ==
  ASSUME TypeOK, IsGame, state = "inProgress", moves < MaxMoves,
         NEW side \in Sides, Castle(side)
  PROVE  Rules!Next
<1>1. /\ BoardOK(board) /\ KingsAreAtHome(board) /\ NoPawnIsLeft(board) /\ turn \in Colors
  BY DEF TypeOK, IsGame
<1>2. CanColorCastle(board, turn, side) /\ board' = PerformCastle(board, turn, side)
  BY DEF Castle
<1>3. BoardOK(board') /\ IsFair(board', Opposite(turn))
  BY <1>1, <1>2, CastleKeepsGame
<1>4. /\ Seen' = SeenOf(board') /\ Passing' = PassingOf(board') /\ Rights' = RightsOf(board')
  BY DEF Seen, SeenOf, Passing, PassingOf, Rights
<1>5. Rules!MayCastle(Seen, Rights, turn, side)
  BY <1>1, <1>2, WhatIsSeen, CastlingIsSeen
<1>6. /\ Seen' = Rules!Castled(Seen, turn, side)
      /\ Rights' = {r \in Rights : r[1] # turn}
      /\ Passing' = Rules!NoSquare
  BY <1>1, <1>2, <1>4, WhatIsSeen, CastleIsCastled
<1>7. Rules!EndTurn
  BY <1>1, <1>3, TurnEndsByTheRules DEF Castle
<1>8. Rules!Castle(side)
  BY <1>5, <1>6, <1>7 DEF Rules!Castle
<1>9. Rules!Sides = Sides
  BY DEF Rules!Sides, Sides
<1> QED
  BY <1>8, <1>9 DEF Rules!Next

\* A start is a position that the rules take a game up from.
LEMMA StartIsByTheRules ==
  ASSUME Init
  PROVE  Rules!Init
<1> DEFINE b == board
           p == SeenOf(b)
<1>1. /\ BoardOK(b) /\ turn \in Colors /\ moves \in 0..MaxMoves
      /\ ~IsColorInCheck(b, Opposite(turn)) /\ \A l \in DOMAIN b : ~b[l].enPassant
  <2>1. state = "inProgress"
    BY DEF Init
  <2> QED
    BY <2>1, StartIsGame DEF TypeOK, IsGame, IsFair
<1>2. Seen = p /\ Rights = RightsOf(b)
  BY WhatIsSeen
<1>3. Passing = Rules!NoSquare
  BY <1>1 DEF Passing, Rules!NoSquare
<1>4. /\ Rules!Colors = Colors /\ Rules!All = All /\ Rules!Opposite(turn) = Opposite(turn)
      /\ Opposite(turn) \in Colors
  BY <1>1, OppositeColor DEF Rules!Colors, Colors, Rules!All, All, Rules!Opposite, Opposite
<1>5. ~Rules!InCheck(p, Opposite(turn))
  BY <1>1, <1>4, BoardIsBoard, CheckIsSeen
<1>6. DOMAIN p = DOMAIN b /\ DOMAIN b \subseteq All
  BY <1>1, SeenPiece DEF BoardOK
<1>7. \A l \in DOMAIN b : \A type, c : Has(b, l, type, c) <=> p[l] = [type |-> type, color |-> c]
  BY SeenPiece DEF Has
<1>8. \A l \in DOMAIN b : \A c : l \in Rules!Kings(p, c) <=> Has(b, l, "king", c)
  BY SeenPiece DEF Rules!Kings, Has
<1>9. \A c \in Colors : \E k \in All : Rules!Kings(p, c) = {k}
  <2> SUFFICES ASSUME NEW c \in Colors
               PROVE  \E k \in All : Rules!Kings(p, c) = {k}
    OBVIOUS
  <2>1. PICK k \in All : \A l \in All : Has(b, l, "king", c) <=> l = k
    BY <1>1 DEF BoardOK, OneKing
  <2>2. k \in DOMAIN b /\ Rules!Kings(p, c) \subseteq DOMAIN b
    BY <1>6, <2>1 DEF Has, Rules!Kings
  <2> HIDE DEF b, p
  <2> QED
    BY <1>6, <1>8, <2>1, <2>2
<1>10. \A r \in RightsOf(b) :
         /\ Rules!KingHome(r[1]) \in Rules!Kings(p, r[1])
         /\ Rules!RookHome(r[1], r[2]) \in DOMAIN p
         /\ p[Rules!RookHome(r[1], r[2])] = [type |-> "rook", color |-> r[1]]
  <2> SUFFICES ASSUME NEW r \in RightsOf(b)
               PROVE  /\ Rules!KingHome(r[1]) \in Rules!Kings(p, r[1])
                      /\ Rules!RookHome(r[1], r[2]) \in DOMAIN p
                      /\ p[Rules!RookHome(r[1], r[2])] = [type |-> "rook", color |-> r[1]]
    OBVIOUS
  <2>1. r[1] \in Colors /\ r[2] \in Sides /\ Has(b, KingStart(r[1]), "king", r[1])
          /\ Has(b, RookStart(r[1], r[2]), "rook", r[1])
    BY DEF RightsOf
  <2>2. Rules!KingHome(r[1]) = KingStart(r[1]) /\ Rules!RookHome(r[1], r[2]) = RookStart(r[1], r[2])
    BY <2>1, CastlePlaces
  <2>3. KingStart(r[1]) \in DOMAIN b /\ RookStart(r[1], r[2]) \in DOMAIN b
    BY <2>1 DEF Has
  <2> HIDE DEF b, p
  <2> QED
    BY <1>6, <1>7, <1>8, <2>1, <2>2, <2>3
<1> HIDE DEF b, p
<1> QED
  BY <1>1, <1>2, <1>3, <1>4, <1>5, <1>9, <1>10 DEF Init, Rules!Init

\* Every game SwiftChess plays is a game of chess, for every start and any number
\* of moves: each move and each castling does to the pieces what the rules say,
\* rights are lost and pawns may be taken in passing when they say, and
\* Game.playerDidMakeMove finds won and stuck what is won and stuck.
THEOREM GamesAreChess == Spec => IsChess
<1>1. Init => Rules!Init
  BY StartIsByTheRules
<1>2. TypeOK /\ IsGame /\ [Next]_vars => [Rules!Next]_(Rules!rulesVars)
  <2> SUFFICES ASSUME TypeOK, IsGame, [Next]_vars
               PROVE  [Rules!Next]_(Rules!rulesVars)
    OBVIOUS
  <2>1. CASE Next
    BY <2>1, MoveIsByTheRules, CastleIsByTheRules DEF Next
  <2>2. CASE UNCHANGED vars
    BY <2>2 DEF vars, Rules!rulesVars, Seen, Rights, RightsOf, Has, Passing
  <2> QED
    BY <2>1, <2>2
<1> QED
  BY <1>1, <1>2, GamesStayGames, PTL DEF Spec, IsChess, Rules!Spec

-----------------------------------------------------------------------------
(* What GameSession takes for granted.                                     *)

\* Who can castle can move the king by one instead.
LEMMA CastlersCanMove ==
  ASSUME NEW b, BoardOK(b), KingsAreAtHome(b), NEW c \in Colors, NEW side \in Sides,
         CanColorCastle(b, c, side)
  PROVE  IsColorAbleToMove(b, c)
<1> DEFINE ks == KingStart(c)
           step == ks + Toward(side)
<1>1. Has(b, ks, "king", c) /\ ks \in All /\ X(ks) = 4 /\ Y(ks) = YPos(c)
  BY CastleIsOurs, CastlePlaces
<1>2. step \in All /\ step \notin DOMAIN b /\ ~IsColorInCheck(MovePiece(b, ks, step), c)
  <2> DEFINE rs == RookStart(c, side)
             ke == KingEnd(c, side)
             between == {l \in All : (ks < l /\ l < rs) \/ (rs < l /\ l < ks)}
             steps == {l \in All \ {ks} : (ks <= l /\ l <= ke) \/ (ke <= l /\ l <= ks)}
  <2>1. between = Rules!Between(ks, rs) /\ step \in between /\ step \in steps
    <3>1. /\ Rules!Between(ks, rs) = between
          /\ {ks + Toward(side), ks + 2 * Toward(side)} \subseteq Rules!Between(ks, rs)
          /\ steps = {ks + Toward(side), ks + 2 * Toward(side)}
      BY CastleRow
    <3> HIDE DEF ks, rs, ke, between, steps
    <3> QED
      BY <3>1
  <2>2. between \cap DOMAIN b = {} /\ \A l \in steps : ~IsColorInCheck(MovePiece(b, ks, l), c)
    BY DEF CanColorCastle
  <2>3. step \in All
    BY <2>1
  <2> HIDE DEF ks, step, between, steps
  <2> QED
    BY <2>1, <2>2, <2>3
<1>3. X(step) \in {3, 5} /\ Y(step) = YPos(c)
  BY <1>1 DEF KingStart, At, X, Y, YPos, Toward
<1>4. Rules!Distance(ks, step) = 1 /\ ks # step
  BY <1>1, <1>3 DEF Rules!Distance, Rules!Files, Rules!Ranks, Rules!AbsOf,
                    Rules!File, Rules!Rank, X, Y, YPos
<1> HIDE DEF ks, step
<1>5. ks \in DOMAIN b /\ b[ks].type = "king" /\ b[ks].color = c
  BY <1>1 DEF Has
<1>6. Rules!Attacks(SeenOf(b), ks, step)
  <2>1. SeenOf(b)[ks].type = "king"
    BY <1>5, SeenPiece
  <2> QED
    BY <1>4, <2>1 DEF Rules!Attacks
<1>7. CanPieceMove(b, ks, step)
  BY <1>2, <1>5, <1>6, BoardIsBoard, OfficerMovesAreSeen DEF NotAKing, NotItsOwn
<1> QED
  BY <1>2, <1>5, <1>7 DEF IsColorAbleToMove, Locations

\* A board is, abstracted, one of GameSession's.
LEMMA BoardsAreBoards ==
  ASSUME NEW b, BoardOK(b), KingsAreAtHome(b)
  PROVE  Abstracted(b) \in Session!Boards /\ Abstracted(b).kings = Colors
<1> DEFINE verdict == [c \in Colors |-> VerdictOf(b, c)]
           castle == {c \in Colors : \E side \in Sides : CanColorCastle(b, c, side)}
           rights == {r[1] : r \in RightsOf(b)}
           kings == {c \in Colors : \E l \in All : Has(b, l, "king", c)}
<1>1. Abstracted(b) = [verdict |-> verdict, castle |-> castle, rights |-> rights, kings |-> kings]
  BY DEF Abstracted
<1>2. Session!Colors = Colors
  BY DEF Session!Colors, Colors
<1>3. verdict \in [Colors -> {"free", "mated", "stuck"}]
  BY DEF VerdictOf
<1>4. kings = Colors
  BY DEF BoardOK, OneKing
<1>5. rights \subseteq Colors
  <2>1. \A r \in RightsOf(b) : r[1] \in Colors
    BY DEF RightsOf
  <2> QED
    BY <2>1
<1>6. ASSUME NEW c \in Colors, NEW side \in Sides, CanColorCastle(b, c, side)
      PROVE  c \in rights /\ verdict[c] = "free"
  <2>1. Rules!MayCastle(SeenOf(b), RightsOf(b), c, side)
    BY <1>6, CastlingIsSeen
  <2>2. <<c, side>> \in RightsOf(b) /\ <<c, side>>[1] = c
    BY <2>1 DEF Rules!MayCastle
  <2>3. c \in rights
    BY <2>2
  <2>4. IsColorAbleToMove(b, c)
    BY <1>6, CastlersCanMove
  <2>5. VerdictOf(b, c) = "free"
    BY <2>4 DEF VerdictOf, IsColorInCheckMate, IsColorInStalemate
  <2> QED
    BY <2>3, <2>5
<1>7. castle \subseteq rights /\ \A c \in castle : verdict[c] = "free"
  BY <1>6
<1> HIDE DEF verdict, castle, rights, kings
<1> QED
  BY <1>1, <1>2, <1>3, <1>4, <1>5, <1>7 DEF Session!Boards

\* Every move does what GameSession's moves take for granted: it takes no king,
\* gives no castling right back and does not mate its own side; and who can
\* castle has the right to, a king, and a move.
THEOREM GamesAreAsAssumed == Spec => MovesAreAsAssumed
<1>1. TypeOK /\ IsGame /\ [RightsOf(board') \subseteq RightsOf(board)]_board /\ [Next]_vars
        => [Abstracted(board') \in Session!AfterMove(turn, Abstracted(board))]_board
  <2> SUFFICES ASSUME TypeOK, IsGame, RightsOf(board') \subseteq RightsOf(board), Next
               PROVE  Abstracted(board') \in Session!AfterMove(turn, Abstracted(board))
    BY DEF vars
  <2>1. BoardOK(board) /\ KingsAreAtHome(board) /\ turn \in Colors
    BY DEF TypeOK, IsGame
  <2>2. BoardOK(board') /\ KingsAreAtHome(board') /\ IsFair(board', Opposite(turn))
    BY StepKeepsGame
  <2>3. Abstracted(board') \in Session!Boards /\ Abstracted(board').kings = Abstracted(board).kings
    BY <2>1, <2>2, BoardsAreBoards
  <2>4. Abstracted(board').rights \subseteq Abstracted(board).rights
    BY DEF Abstracted
  <2>5. ~IsColorInCheck(board', turn)
    BY <2>1, <2>2 DEF IsFair, Opposite, Colors
  <2>6. Abstracted(board').verdict[turn] # "mated"
    <3>1. VerdictOf(board', turn) # "mated"
      BY <2>5 DEF VerdictOf, IsColorInCheckMate
    <3> QED
      BY <2>1, <3>1 DEF Abstracted
  <2> QED
    BY <2>3, <2>4, <2>6 DEF Session!AfterMove
<1> QED
  BY <1>1, GamesStayGames, LostRightsStayLost, PTL DEF Spec, MovesAreAsAssumed
=============================================================================
