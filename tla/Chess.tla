------------------------------- MODULE Chess -------------------------------
(***************************************************************************)
(* The rules of chess, by files and ranks and without any of SwiftChess's  *)
(* bookkeeping.  This is what ChessBoard is to implement.  Draws by        *)
(* repetition, by fifty moves and for want of pieces are not part of it:   *)
(* the program has none.                                                   *)
(***************************************************************************)
EXTENDS Integers

CONSTANT MaxMoves   \* a bound: how many moves are played

VARIABLES
  squares,   \* the occupied squares, and the type and colour of each piece
  turn,      \* whose turn it is
  rights,    \* <<c, side>> when neither king nor rook has moved or was taken
  passing,   \* the square a pawn has just passed over, or NoSquare
  outcome,   \* "inProgress", "won" by the one whose turn it was, "staleMate"
  moves      \* how many moves were played

rulesVars == <<squares, turn, rights, passing, outcome, moves>>

-----------------------------------------------------------------------------
Colors == {"white", "black"}
Sides == {"kingSide", "queenSide"}
Promotions == {"queen", "knight", "rook", "bishop"}
Types == Promotions \cup {"pawn", "king"}
All == 0..63
NoSquare == -1
Opposite(c) == IF c = "white" THEN "black" ELSE "white"

File(s) == s % 8
Rank(s) == s \div 8
Forward(c) == IF c = "white" THEN 1 ELSE -1
HomeRank(c) == IF c = "white" THEN 0 ELSE 7

AbsOf(n) == IF n < 0 THEN -n ELSE n
Files(a, t) == AbsOf(File(t) - File(a))
Ranks(a, t) == AbsOf(Rank(t) - Rank(a))
Distance(a, t) == IF Files(a, t) > Ranks(a, t) THEN Files(a, t) ELSE Ranks(a, t)

Between(a, t) ==
  {a + k * ((t - a) \div Distance(a, t)) : k \in 1..(Distance(a, t) - 1)}

Straight(a, t) == Files(a, t) = 0 \/ Ranks(a, t) = 0
Diagonal(a, t) == Files(a, t) = Ranks(a, t)

\* The piece on a attacks the square t.
Attacks(p, a, t) ==
  /\ a # t
  /\ CASE p[a].type = "pawn"   -> Files(a, t) = 1 /\ Rank(t) - Rank(a) = Forward(p[a].color)
       [] p[a].type = "knight" -> {Files(a, t), Ranks(a, t)} = {1, 2}
       [] p[a].type = "king"   -> Distance(a, t) = 1
       [] p[a].type = "rook"   -> Straight(a, t) /\ Between(a, t) \cap DOMAIN p = {}
       [] p[a].type = "bishop" -> Diagonal(a, t) /\ Between(a, t) \cap DOMAIN p = {}
       [] p[a].type = "queen"  -> (Straight(a, t) \/ Diagonal(a, t))
                                    /\ Between(a, t) \cap DOMAIN p = {}

\* Somebody else's piece attacks t.
Attacked(p, c, t) == \E a \in DOMAIN p : p[a].color # c /\ Attacks(p, a, t)

Kings(p, c) == {s \in DOMAIN p : p[s].type = "king" /\ p[s].color = c}
InCheck(p, c) == \E k \in Kings(p, c) : Attacked(p, c, k)

\* The piece on a may go to t, if that leaves its king safe.  pass is the
\* square a pawn has just passed over.
Reaches(p, pass, a, t) ==
  /\ t \in DOMAIN p => p[t].color # p[a].color
  /\ IF p[a].type # "pawn"
       THEN Attacks(p, a, t)
       ELSE \/ Attacks(p, a, t) /\ (t \in DOMAIN p \/ t = pass)
            \/ /\ Files(a, t) = 0
               /\ t \notin DOMAIN p
               /\ \/ Rank(t) - Rank(a) = Forward(p[a].color)
                  \/ /\ Rank(a) = HomeRank(p[a].color) + Forward(p[a].color)
                     /\ Rank(t) - Rank(a) = 2 * Forward(p[a].color)
                     /\ Between(a, t) \cap DOMAIN p = {}

\* The position after the piece on a has gone to t and become a `type'; a pawn
\* taken in passing stood beside a.
After(p, pass, a, t, type) ==
  LET beside == 8 * Rank(a) + File(t)
      taken == IF p[a].type = "pawn" /\ t = pass THEN {beside} ELSE {}
  IN  [s \in (DOMAIN p \ ({a} \cup taken)) \cup {t} |->
         IF s = t THEN [type |-> type, color |-> p[a].color] ELSE p[s]]

Legal(p, pass, a, t) ==
  Reaches(p, pass, a, t) /\ ~InCheck(After(p, pass, a, t, p[a].type), p[a].color)

\* What a piece is after it has gone to t.
Becomes(p, a, t) ==
  IF p[a].type = "pawn" /\ Rank(t) = HomeRank(Opposite(p[a].color))
    THEN Promotions ELSE {p[a].type}

KingHome(c) == 8 * HomeRank(c) + 4
RookHome(c, side) == 8 * HomeRank(c) + IF side = "kingSide" THEN 7 ELSE 0
KingCastled(c, side) == 8 * HomeRank(c) + IF side = "kingSide" THEN 6 ELSE 2
RookCastled(c, side) == 8 * HomeRank(c) + IF side = "kingSide" THEN 5 ELSE 3

\* Castling: by right, over empty squares, and neither out of check, through
\* it, nor into it.
MayCastle(p, r, c, side) ==
  /\ <<c, side>> \in r
  /\ Between(KingHome(c), RookHome(c, side)) \cap DOMAIN p = {}
  /\ \A s \in Between(KingHome(c), KingCastled(c, side))
               \cup {KingHome(c), KingCastled(c, side)} : ~Attacked(p, c, s)

Castled(p, c, side) ==
  [s \in (DOMAIN p \ {KingHome(c), RookHome(c, side)})
           \cup {KingCastled(c, side), RookCastled(c, side)} |->
     CASE s = KingCastled(c, side) -> p[KingHome(c)]
       [] s = RookCastled(c, side) -> p[RookHome(c, side)]
       [] OTHER -> p[s]]

CanMove(p, pass, c) ==
  \E a \in DOMAIN p : p[a].color = c /\ \E t \in All : Legal(p, pass, a, t)

\* What a position is worth to the one who has brought it about.
Verdict(p, pass, c) ==
  IF CanMove(p, pass, Opposite(c)) THEN "inProgress"
    ELSE IF InCheck(p, Opposite(c)) THEN "won" ELSE "staleMate"

-----------------------------------------------------------------------------
EndTurn ==
  /\ outcome' = Verdict(squares', passing', turn)
  /\ turn' = IF outcome' = "inProgress" THEN Opposite(turn) ELSE turn
  /\ moves' = moves + 1

Move(a, t, type) ==
  /\ squares[a].color = turn
  /\ type \in Becomes(squares, a, t)
  /\ squares' = After(squares, passing, a, t, type)
  /\ Legal(squares, passing, a, t)
  /\ rights' = {r \in rights : {a, t} \cap {KingHome(r[1]), RookHome(r[1], r[2])} = {}}
  /\ passing' = IF squares[a].type = "pawn" /\ Ranks(a, t) = 2
                  THEN a + 8 * Forward(turn) ELSE NoSquare
  /\ EndTurn

Castle(side) ==
  /\ MayCastle(squares, rights, turn, side)
  /\ squares' = Castled(squares, turn, side)
  /\ rights' = {r \in rights : r[1] # turn}
  /\ passing' = NoSquare
  /\ EndTurn

Next ==
  /\ outcome = "inProgress" /\ moves < MaxMoves
  /\ \/ \E a \in DOMAIN squares, t \in All, type \in Types : Move(a, t, type)
     \/ \E side \in Sides : Castle(side)

\* A position a game may be taken up from.
Init ==
  /\ turn \in Colors
  /\ \A c \in Colors : \E k \in All : Kings(squares, c) = {k}
  /\ ~InCheck(squares, Opposite(turn))
  /\ \A r \in rights :
       /\ KingHome(r[1]) \in Kings(squares, r[1])
       /\ RookHome(r[1], r[2]) \in DOMAIN squares
       /\ squares[RookHome(r[1], r[2])] = [type |-> "rook", color |-> r[1]]
  /\ passing = NoSquare
  /\ outcome = "inProgress"
  /\ moves \in 0..MaxMoves

Spec == Init /\ [][Next]_rulesVars
=============================================================================
