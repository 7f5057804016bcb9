--------------------------- MODULE MCChessBoard ----------------------------
(* Positions to start ChessBoard from, for TLC. *)
EXTENDS ChessBoard

\* A square by its file "a".."h", 1..8, and its row, 1..8.
On(file, row) == At(file - 1, row - 1)

Man(square, type, color, hasMoved) ==
  <<square, [Piece(type, color) EXCEPT !.hasMoved = hasMoved]>>

Men(men) == [l \in {m[1] : m \in men} |-> (CHOOSE m \in men : m[1] = l)[2]]

\* Both may castle; a pawn may take the rook and become one in its place.
BothMayCastle == Men({
  Man(On(5, 1), "king", "white", FALSE), Man(On(1, 1), "rook", "white", FALSE),
  Man(On(5, 8), "king", "black", FALSE), Man(On(8, 8), "rook", "black", FALSE),
  Man(On(2, 2), "pawn", "black", TRUE)})

\* A pawn that goes two ahead may not be taken: the king behind its taker
\* would be in check.
Pinned == Men({
  Man(On(1, 5), "king", "white", TRUE), Man(On(2, 5), "pawn", "white", TRUE),
  Man(On(8, 5), "rook", "black", TRUE), Man(On(3, 7), "pawn", "black", FALSE),
  Man(On(1, 8), "king", "black", TRUE)})

\* Pawns that pass each other, on the edge and next to it, and a knight.
PassingBy == Men({
  Man(On(8, 1), "king", "white", TRUE), Man(On(7, 2), "pawn", "white", FALSE),
  Man(On(1, 5), "pawn", "white", TRUE), Man(On(8, 4), "pawn", "black", TRUE),
  Man(On(2, 7), "pawn", "black", FALSE), Man(On(8, 7), "king", "black", TRUE)})

\* A game about to be won, or to be stuck.
NearTheEnd == Men({
  Man(On(7, 6), "king", "white", TRUE), Man(On(6, 6), "pawn", "white", TRUE),
  Man(On(1, 7), "pawn", "white", TRUE), Man(On(8, 8), "king", "black", TRUE)})

\* A bishop and knights against a queen.
MinorsAgainstQueen == Men({
  Man(On(1, 1), "king", "white", TRUE), Man(On(2, 2), "bishop", "white", TRUE),
  Man(On(8, 4), "knight", "white", TRUE),
  Man(On(8, 8), "king", "black", TRUE), Man(On(4, 4), "queen", "black", TRUE)})

From(b, c, played) == [board |-> b, turn |-> c, moves |-> played]
Positions ==
  {From(BothMayCastle, "white", 1), From(BothMayCastle, "black", 1), From(Pinned, "black", 1),
   From(PassingBy, "white", 1), From(PassingBy, "black", 1), From(NearTheEnd, "white", 0),
   From(MinorsAgainstQueen, "white", 1), From(NewGame, "white", 2)}
=============================================================================
