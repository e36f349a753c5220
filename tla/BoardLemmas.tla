------------------------------ MODULE BoardLemmas ------------------------------
(***************************************************************************)
(* What the operations of Board do, for every size of board; the proofs of *)
(* the modules that hold boards rest on these facts.                       *)
(*                                                                         *)
(* The bitset has no structure of its own: what a call does to the stones  *)
(* depends on Index sending different fields to different pairs of bits    *)
(* (IndexIsInjective).  From that, ApplyMove and RevertMove change what    *)
(* StoneAt says of one field only (StoneAfterApply, StoneAfterRevert).     *)
(***************************************************************************)
EXTENDS Board, FiniteSetTheorems, WellFoundedInduction, TLAPS

-------------------------------------------------------------------------------
(* A larger factor gives a larger product.                                 *)
LEMMA ProductMonotone ==
  ASSUME NEW a \in Nat, NEW b \in Nat, NEW h \in Nat, a < b
  PROVE  a * h + h <= b * h
<1>1. PICK d \in Nat : b = a + 1 + d
  <2>1. b - a - 1 \in Nat
    OBVIOUS
  <2>2. b = a + 1 + (b - a - 1)
    OBVIOUS
  <2> QED
    BY <2>1, <2>2
<1>2. b * h = a * h + h + d * h
  BY <1>1
<1>3. d * h \in Nat /\ a * h \in Nat
  BY <1>1
<1> QED
  BY <1>2, <1>3

(* Index numbers the fields column by column.                              *)
LEMMA IndexType ==
  ASSUME NEW p \in Positions
  PROVE  /\ Index(p) \in FieldsAllocated
         /\ Index(p) + 1 \in FieldsAllocated
<1> DEFINE x == p[1]
           y == p[2]
<1>1. x \in 0 .. Width - 1 /\ y \in 0 .. Height - 1
  BY DEF Positions
<1>2. Width \in Nat /\ Height \in Nat /\ x \in Nat /\ y \in Nat /\ x < Width
  BY <1>1, BoardAssumption
<1> HIDE DEF x, y
<1>3. x * Height + Height <= Width * Height
  BY <1>2, ProductMonotone
<1>4. x * Height \in Nat /\ Width * Height \in Nat
  BY <1>2
<1>5. x * Height + y <= Width * Height - 1
  BY <1>1, <1>2, <1>3, <1>4
<1>6. /\ (x * Height + y) * 2 \in 0 .. (Width * Height * 2 - 1)
      /\ (x * Height + y) * 2 + 1 \in 0 .. (Width * Height * 2 - 1)
  BY <1>2, <1>4, <1>5
<1> QED
  BY <1>6 DEF x, y, Index, FieldsAllocated

(* Different fields have different bits.                                   *)
LEMMA IndexIsInjective ==
  ASSUME NEW p \in Positions, NEW q \in Positions, Index(p) = Index(q)
  PROVE  p = q
<1> DEFINE x == p[1]
           y == p[2]
           u == q[1]
           v == q[2]
<1>1. /\ x \in 0 .. Width - 1 /\ y \in 0 .. Height - 1 /\ p = <<x, y>>
      /\ u \in 0 .. Width - 1 /\ v \in 0 .. Height - 1 /\ q = <<u, v>>
  BY DEF Positions
<1>2. Height \in Nat /\ x \in Nat /\ y \in Nat /\ u \in Nat /\ v \in Nat
  BY <1>1, BoardAssumption
<1>3. (x * Height + y) * 2 = (u * Height + v) * 2
  BY DEF Index
<1> HIDE DEF x, y, u, v
<1>4. x * Height \in Nat /\ u * Height \in Nat
  BY <1>2
<1>5. x * Height + y = u * Height + v
  BY <1>2, <1>3, <1>4
<1>6. y < Height /\ v < Height
  BY <1>1, <1>2
<1>7. ~(x < u)
  <2> SUFFICES ASSUME x < u PROVE FALSE
    OBVIOUS
  <2>1. x * Height + Height <= u * Height
    BY <1>2, ProductMonotone
  <2> QED
    BY <2>1, <1>2, <1>4, <1>5, <1>6
<1>8. ~(u < x)
  <2> SUFFICES ASSUME u < x PROVE FALSE
    OBVIOUS
  <2>1. u * Height + Height <= x * Height
    BY <1>2, ProductMonotone
  <2> QED
    BY <2>1, <1>2, <1>4, <1>5, <1>6
<1>9. x = u
  BY <1>2, <1>7, <1>8
<1>10. y = v
  BY <1>2, <1>4, <1>5, <1>9
<1> QED
  BY <1>1, <1>9, <1>10

(* The bits of FIRST are even and those of SECOND odd.                     *)
LEMMA IndexIsEven ==
  ASSUME NEW p \in Positions, NEW q \in Positions
  PROVE  Index(p) # Index(q) + 1 /\ Index(p) \in Nat
<1> DEFINE a == p[1] * Height + p[2]
           b == q[1] * Height + q[2]
<1>1. /\ p[1] \in 0 .. Width - 1 /\ p[2] \in 0 .. Height - 1
      /\ q[1] \in 0 .. Width - 1 /\ q[2] \in 0 .. Height - 1
  BY DEF Positions
<1>2. a \in Nat /\ b \in Nat
  BY <1>1, BoardAssumption
<1>3. Index(p) = a * 2 /\ Index(q) = b * 2
  BY DEF Index
<1> HIDE DEF a, b
<1> QED
  BY <1>2, <1>3

-------------------------------------------------------------------------------
(* ApplyMove puts a stone of the player to move on the field of the move   *)
(* and changes no other field.                                             *)
LEMMA StoneAfterApply ==
  ASSUME NEW b \in BoardType, NEW m \in Positions, NEW p \in Positions,
         ApplyMoveChecks(b, m)
  PROVE  StoneAt(ApplyMove(b, m), p) = IF p = m THEN b.current_player ELSE StoneAt(b, p)
<1> DEFINE bit == Index(m) + kPlayerOffset[b.current_player]
<1>1. ApplyMove(b, m).fields = b.fields \cup {bit}
  BY DEF ApplyMove
<1>2. Index(m) \in Nat /\ Index(p) \in Nat /\ Index(p) # Index(m) + 1 /\ Index(m) # Index(p) + 1
  BY IndexIsEven
<1>3. p # m => Index(p) # Index(m)
  BY IndexIsInjective
<1>4. Index(m) \notin b.fields /\ Index(m) + 1 \notin b.fields
  BY DEF ApplyMoveChecks
<1>5. CASE b.current_player = "FIRST"
  <2>1. bit = Index(m)
    BY <1>2, <1>5 DEF kPlayerOffset, kPlayers
  <2>2. CASE p = m
    BY <1>1, <1>5, <2>1, <2>2 DEF StoneAt
  <2>3. CASE p # m
    <3>1. Index(p) # bit /\ Index(p) + 1 # bit
      BY <1>2, <1>3, <2>1, <2>3
    <3> HIDE DEF bit
    <3> QED
      BY <1>1, <2>3, <3>1 DEF StoneAt
  <2> QED
    BY <2>2, <2>3
<1>6. CASE b.current_player = "SECOND"
  <2>1. bit = Index(m) + 1
    BY <1>2, <1>6 DEF kPlayerOffset, kPlayers
  <2>2. CASE p = m
    <3>1. Index(p) # bit
      BY <1>2, <2>1, <2>2
    <3> QED
      BY <1>1, <1>4, <1>6, <2>1, <2>2, <3>1 DEF StoneAt
  <2>3. CASE p # m
    <3>1. Index(p) # bit /\ Index(p) + 1 # bit
      BY <1>2, <1>3, <2>1, <2>3
    <3> HIDE DEF bit
    <3> QED
      BY <1>1, <2>3, <3>1 DEF StoneAt
  <2> QED
    BY <2>2, <2>3
<1> QED
  BY <1>5, <1>6 DEF BoardType, kPlayers

(* RevertMove frees the field of the move and changes no other field.      *)
LEMMA StoneAfterRevert ==
  ASSUME NEW b \in BoardType, OneStonePerField(b),
         NEW m \in Positions, NEW p \in Positions,
         RevertMoveChecks(b, m)
  PROVE  /\ StoneAt(b, m) = kOpponent[b.current_player]
         /\ StoneAt(RevertMove(b, m), p) = IF p = m THEN NONE ELSE StoneAt(b, p)
<1> DEFINE bit == Index(m) + kPlayerOffset[kOpponent[b.current_player]]
<1>1. RevertMove(b, m).fields = b.fields \ {bit}
  BY DEF RevertMove
<1>2. Index(m) \in Nat /\ Index(p) \in Nat /\ Index(p) # Index(m) + 1 /\ Index(m) # Index(p) + 1
  BY IndexIsEven
<1>3. p # m => Index(p) # Index(m)
  BY IndexIsInjective
<1>4. ~(Index(m) \in b.fields /\ Index(m) + 1 \in b.fields)
  BY DEF OneStonePerField
<1>5. bit \in b.fields
  BY DEF RevertMoveChecks
<1>6. CASE b.current_player = "SECOND"
  <2>1. bit = Index(m) /\ kOpponent[b.current_player] = "FIRST"
    BY <1>2, <1>6 DEF kPlayerOffset, kOpponent, kPlayers
  <2>2. CASE p = m
    <3>1. Index(p) + 1 # bit
      BY <1>2, <2>1, <2>2
    <3> QED
      BY <1>1, <1>4, <1>5, <2>1, <2>2, <3>1 DEF StoneAt
  <2>3. CASE p # m
    <3>1. Index(p) # bit /\ Index(p) + 1 # bit
      BY <1>2, <1>3, <2>1, <2>3
    <3> HIDE DEF bit
    <3> QED
      BY <1>1, <1>5, <2>1, <2>3, <3>1 DEF StoneAt
  <2> QED
    BY <2>2, <2>3
<1>7. CASE b.current_player = "FIRST"
  <2>1. bit = Index(m) + 1 /\ kOpponent[b.current_player] = "SECOND"
    BY <1>2, <1>7 DEF kPlayerOffset, kOpponent, kPlayers
  <2>2. CASE p = m
    <3>1. Index(p) # bit
      BY <1>2, <2>1, <2>2
    <3> QED
      BY <1>1, <1>4, <1>5, <2>1, <2>2, <3>1 DEF StoneAt
  <2>3. CASE p # m
    <3>1. Index(p) # bit /\ Index(p) + 1 # bit
      BY <1>2, <1>3, <2>1, <2>3
    <3> HIDE DEF bit
    <3> QED
      BY <1>1, <1>4, <1>5, <2>1, <2>3, <3>1 DEF StoneAt
  <2> QED
    BY <2>2, <2>3
<1> QED
  BY <1>6, <1>7 DEF BoardType, kPlayers

(* Both operations yield a board again; for RevertMove the counter must    *)
(* not have been 0.                                                        *)
LEMMA MovesKeepBoardType ==
  ASSUME NEW b \in BoardType, NEW m \in Positions
  PROVE  /\ ApplyMove(b, m) \in BoardType
         /\ b.moves_made > 0 => RevertMove(b, m) \in BoardType
<1>1. \A pl \in kPlayers : Index(m) + kPlayerOffset[pl] \in FieldsAllocated
  <2> SUFFICES ASSUME NEW pl \in kPlayers
               PROVE  Index(m) + kPlayerOffset[pl] \in FieldsAllocated
    OBVIOUS
  <2>1. Index(m) \in FieldsAllocated /\ Index(m) + 1 \in FieldsAllocated /\ Index(m) \in Nat
    BY IndexType, IndexIsEven
  <2>2. kPlayerOffset[pl] \in {0, 1}
    BY DEF kPlayerOffset
  <2>3. CASE kPlayerOffset[pl] = 0
    BY <2>1, <2>3
  <2>4. CASE kPlayerOffset[pl] = 1
    BY <2>1, <2>4
  <2> QED
    BY <2>2, <2>3, <2>4
<1>2. kOpponent[b.current_player] \in kPlayers
  BY DEF BoardType, kOpponent, kPlayers
<1>3. b.fields \in SUBSET FieldsAllocated /\ b.moves_made \in Nat /\ b.current_player \in kPlayers
  BY DEF BoardType
<1>4. ApplyMove(b, m) \in BoardType
  BY <1>1, <1>2, <1>3 DEF ApplyMove, BoardType
<1>5. ASSUME b.moves_made > 0 PROVE RevertMove(b, m) \in BoardType
  <2>1. b.moves_made - 1 \in Nat
    BY <1>3, <1>5
  <2> QED
    BY <1>2, <1>3, <2>1 DEF RevertMove, BoardType
<1> QED
  BY <1>4, <1>5

(* Neither operation sets the second bit of a field.                       *)
LEMMA MovesKeepOneStone ==
  ASSUME NEW b \in BoardType, OneStonePerField(b), NEW m \in Positions
  PROVE  /\ ApplyMoveChecks(b, m) => OneStonePerField(ApplyMove(b, m))
         /\ OneStonePerField(RevertMove(b, m))
<1>1. ASSUME ApplyMoveChecks(b, m) PROVE OneStonePerField(ApplyMove(b, m))
  <2> DEFINE bit == Index(m) + kPlayerOffset[b.current_player]
  <2> SUFFICES ASSUME NEW p \in Positions
               PROVE  ~(/\ Index(p) \in ApplyMove(b, m).fields
                        /\ Index(p) + 1 \in ApplyMove(b, m).fields)
    BY DEF OneStonePerField
  <2>1. ApplyMove(b, m).fields = b.fields \cup {bit}
    BY DEF ApplyMove
  <2>2. /\ Index(m) \in Nat /\ Index(p) \in Nat
        /\ Index(p) # Index(m) + 1 /\ Index(m) # Index(p) + 1
    BY IndexIsEven
  <2>3. p # m => Index(p) # Index(m)
    BY IndexIsInjective
  <2>4. bit = Index(m) \/ bit = Index(m) + 1
    BY <2>2 DEF BoardType, kPlayerOffset, kPlayers
  <2>5. Index(m) \notin b.fields /\ Index(m) + 1 \notin b.fields
    BY <1>1 DEF ApplyMoveChecks
  <2>6. ~(Index(p) \in b.fields /\ Index(p) + 1 \in b.fields)
    BY DEF OneStonePerField
  <2> HIDE DEF bit
  <2>7. CASE p = m
    <3>1. Index(m) # Index(m) + 1
      BY <2>2
    <3> QED
      BY <2>1, <2>4, <2>5, <2>7, <3>1
  <2>8. CASE p # m
    <3>1. Index(p) # bit /\ Index(p) + 1 # bit
      BY <2>2, <2>3, <2>4, <2>8
    <3> QED
      BY <2>1, <2>6, <3>1
  <2> QED
    BY <2>7, <2>8
<1>2. OneStonePerField(RevertMove(b, m))
  BY DEF RevertMove, OneStonePerField
<1> QED
  BY <1>1, <1>2

-------------------------------------------------------------------------------
(* The fields of the board, and the stones of a player, are finitely many. *)
LEMMA PositionsFinite ==
  /\ IsFiniteSet(Positions)
  /\ Cardinality(Positions) = Width * Height
<1>1. /\ IsFiniteSet(0 .. Width - 1) /\ Cardinality(0 .. Width - 1) = Width
      /\ IsFiniteSet(0 .. Height - 1) /\ Cardinality(0 .. Height - 1) = Height
  <2>1. Width - 1 \in Int /\ Height - 1 \in Int /\ ~(0 > Width - 1) /\ ~(0 > Height - 1)
    BY BoardAssumption
  <2>2. IsFiniteSet(0 .. Width - 1) /\ Cardinality(0 .. Width - 1) = (Width - 1) - 0 + 1
    BY <2>1, FS_Interval
  <2>3. IsFiniteSet(0 .. Height - 1) /\ Cardinality(0 .. Height - 1) = (Height - 1) - 0 + 1
    BY <2>1, FS_Interval
  <2> QED
    BY <2>2, <2>3, BoardAssumption
<1>2. \A S, T : IsFiniteSet(S) /\ IsFiniteSet(T)
                => /\ IsFiniteSet(S \X T)
                   /\ Cardinality(S \X T) = Cardinality(S) * Cardinality(T)
  BY FS_Product, Zenon
<1> DEFINE X == 0 .. Width - 1
           Y == 0 .. Height - 1
<1>3. IsFiniteSet(X) /\ IsFiniteSet(Y) /\ Cardinality(X) = Width /\ Cardinality(Y) = Height
  BY <1>1
<1>4. Positions = X \X Y
  BY DEF Positions
<1> HIDE DEF X, Y
<1>5. IsFiniteSet(X \X Y) /\ Cardinality(X \X Y) = Cardinality(X) * Cardinality(Y)
  BY <1>2, <1>3, Zenon
<1> QED
  BY <1>3, <1>4, <1>5, Zenon

LEMMA StonesFinite ==
  ASSUME NEW b, NEW player
  PROVE  /\ IsFiniteSet(StonesOf(b, player))
         /\ Cardinality(StonesOf(b, player)) \in Nat
<1>1. StonesOf(b, player) \in SUBSET Positions
  BY DEF StonesOf
<1>2. IsFiniteSet(StonesOf(b, player))
  BY <1>1, PositionsFinite, FS_Subset
<1> QED
  BY <1>2, FS_CardinalityType

(* What StonesMatchTurn says of a board, for a board that is not the       *)
(* variable.                                                               *)
Balanced(b) ==
  LET first == Cardinality(StonesOf(b, "FIRST"))
      second == Cardinality(StonesOf(b, "SECOND"))
  IN /\ OneStonePerField(b)
     /\ first = second + (IF b.current_player = "SECOND" THEN 1 ELSE 0)
     /\ b.moves_made = first + second

LEMMA ApplyKeepsBalance ==
  ASSUME NEW b \in BoardType, Balanced(b), NEW m \in Positions, ApplyMoveChecks(b, m)
  PROVE  Balanced(ApplyMove(b, m))
<1> DEFINE c == ApplyMove(b, m)
           me == b.current_player
           opp == kOpponent[b.current_player]
<1>1. me \in kPlayers /\ opp \in kPlayers /\ opp # me /\ b.moves_made \in Nat
  BY DEF BoardType, kPlayers, kOpponent
<1>2. c.current_player = opp /\ c.moves_made = b.moves_made + 1
  BY DEF ApplyMove
<1>3. \A p \in Positions : StoneAt(c, p) = IF p = m THEN me ELSE StoneAt(b, p)
  BY StoneAfterApply
<1>4. StoneAt(b, m) = NONE
  BY DEF ApplyMoveChecks, StoneAt
<1> SUFFICES Balanced(c)
  OBVIOUS
<1> HIDE DEF c
<1>5. StonesOf(c, me) = StonesOf(b, me) \cup {m} /\ m \notin StonesOf(b, me)
  BY <1>1, <1>3, <1>4 DEF StonesOf, NONE, kPlayers
<1>6. StonesOf(c, opp) = StonesOf(b, opp)
  BY <1>1, <1>3, <1>4 DEF StonesOf, NONE, kPlayers
<1>7. Cardinality(StonesOf(c, me)) = Cardinality(StonesOf(b, me)) + 1
  BY <1>5, StonesFinite, FS_AddElement
<1>8. OneStonePerField(c)
  BY MovesKeepOneStone DEF Balanced, c
<1>9. /\ Cardinality(StonesOf(b, "FIRST")) \in Nat
      /\ Cardinality(StonesOf(b, "SECOND")) \in Nat
  BY StonesFinite
<1>10. CASE me = "FIRST"
  <2>1. opp = "SECOND"
    BY <1>10 DEF kOpponent, kPlayers
  <2> QED
    BY <1>1, <1>2, <1>6, <1>7, <1>8, <1>9, <1>10, <2>1 DEF Balanced
<1>11. CASE me = "SECOND"
  <2>1. opp = "FIRST"
    BY <1>11 DEF kOpponent, kPlayers
  <2> QED
    BY <1>1, <1>2, <1>6, <1>7, <1>8, <1>9, <1>11, <2>1 DEF Balanced
<1> QED
  BY <1>1, <1>10, <1>11 DEF kPlayers

LEMMA RevertKeepsBalance ==
  ASSUME NEW b \in BoardType, Balanced(b), NEW m \in Positions, RevertMoveChecks(b, m)
  PROVE  /\ b.moves_made > 0
         /\ Balanced(RevertMove(b, m))
<1> DEFINE c == RevertMove(b, m)
           me == b.current_player
           opp == kOpponent[b.current_player]
<1>1. me \in kPlayers /\ opp \in kPlayers /\ opp # me /\ b.moves_made \in Nat
  BY DEF BoardType, kPlayers, kOpponent
<1>2. c.current_player = opp /\ c.moves_made = b.moves_made - 1
  BY DEF RevertMove
<1>3. /\ StoneAt(b, m) = opp
      /\ \A p \in Positions : StoneAt(c, p) = IF p = m THEN NONE ELSE StoneAt(b, p)
  BY StoneAfterRevert DEF Balanced
<1> SUFFICES b.moves_made > 0 /\ Balanced(c)
  OBVIOUS
<1> HIDE DEF c
<1>4. StonesOf(c, opp) = StonesOf(b, opp) \ {m} /\ m \in StonesOf(b, opp)
  BY <1>1, <1>3 DEF StonesOf, NONE, kPlayers
<1>5. StonesOf(c, me) = StonesOf(b, me)
  BY <1>1, <1>3 DEF StonesOf, NONE, kPlayers
<1>6. Cardinality(StonesOf(c, opp)) = Cardinality(StonesOf(b, opp)) - 1
  BY <1>4, StonesFinite, FS_RemoveElement
<1>7. OneStonePerField(c)
  BY MovesKeepOneStone DEF Balanced, c
<1>8. /\ Cardinality(StonesOf(b, "FIRST")) \in Nat
      /\ Cardinality(StonesOf(b, "SECOND")) \in Nat
      /\ Cardinality(StonesOf(c, opp)) \in Nat
  BY StonesFinite
<1>9. CASE me = "FIRST"
  <2>1. opp = "SECOND"
    BY <1>9 DEF kOpponent, kPlayers
  <2> QED
    BY <1>1, <1>2, <1>5, <1>6, <1>7, <1>8, <1>9, <2>1 DEF Balanced
<1>10. CASE me = "SECOND"
  <2>1. opp = "FIRST"
    BY <1>10 DEF kOpponent, kPlayers
  <2> QED
    BY <1>1, <1>2, <1>5, <1>6, <1>7, <1>8, <1>10, <2>1 DEF Balanced
<1> QED
  BY <1>1, <1>9, <1>10 DEF kPlayers

LEMMA StartBoardBalanced == StartBoard \in BoardType /\ Balanced(StartBoard)
<1>1. StonesOf(StartBoard, "FIRST") = {} /\ StonesOf(StartBoard, "SECOND") = {}
  BY DEF StonesOf, StoneAt, StartBoard, NONE
<1>2. Cardinality({}) = 0
  BY FS_EmptySet
<1>3. OneStonePerField(StartBoard)
  BY DEF OneStonePerField, StartBoard
<1>4. StartBoard.current_player = "FIRST" /\ StartBoard.moves_made = 0
  BY DEF StartBoard
<1>5. Balanced(StartBoard)
  BY <1>1, <1>2, <1>3, <1>4 DEF Balanced
<1>6. StartBoard \in BoardType
  BY DEF StartBoard, BoardType, kPlayers
<1> QED
  BY <1>5, <1>6

(* The move counter and the number of taken fields are the same number.    *)
LEMMA BalancedCountsFields ==
  ASSUME NEW b \in BoardType, Balanced(b)
  PROVE  NoMovePossible(b) <=> ~HasLegalMove(b)
<1> DEFINE F == StonesOf(b, "FIRST")
           S == StonesOf(b, "SECOND")
<1>1. F \cup S \in SUBSET Positions /\ F \cap S = {}
  BY DEF StonesOf
<1>2. \A p \in Positions : p \in F \cup S <=> StoneAt(b, p) # NONE
  BY DEF StonesOf, StoneAt, NONE
<1>3. IsFiniteSet(F) /\ IsFiniteSet(S) /\ Cardinality(F) \in Nat /\ Cardinality(S) \in Nat
  BY StonesFinite
<1>4. b.moves_made = Cardinality(F) + Cardinality(S)
  BY DEF Balanced
<1> HIDE DEF F, S
<1>5. Cardinality(F \cup S) = Cardinality(F) + Cardinality(S) - Cardinality(F \cap S)
  BY <1>3, FS_Union
<1>6. Cardinality(F \cup S) = b.moves_made
  <2>1. Cardinality(F \cap S) = 0
    BY <1>1, FS_EmptySet, Zenon
  <2> QED
    BY <1>3, <1>4, <1>5, <2>1
<1>7. Cardinality(F \cup S) = Width * Height <=> F \cup S = Positions
  <2>1. Cardinality(Positions) = Cardinality(F \cup S) => Positions = F \cup S
    BY <1>1, PositionsFinite, FS_Subset
  <2> QED
    BY <2>1, PositionsFinite
<1>8. F \cup S = Positions <=> ~HasLegalMove(b)
  BY <1>1, <1>2 DEF HasLegalMove
<1> QED
  BY <1>6, <1>7, <1>8 DEF NoMovePossible

(* Applying a move and taking it back restores the very same object.       *)
LEMMA RevertAfterApply ==
  ASSUME NEW b \in BoardType, NEW m \in Positions, ApplyMoveChecks(b, m)
  PROVE  /\ RevertMoveChecks(ApplyMove(b, m), m)
         /\ RevertMove(ApplyMove(b, m), m) = b
<1> DEFINE c == ApplyMove(b, m)
           bit == Index(m) + kPlayerOffset[b.current_player]
<1>1. c.fields = b.fields \cup {bit} /\ c.moves_made = b.moves_made + 1
  BY DEF ApplyMove
<1>2. kOpponent[c.current_player] = b.current_player
  BY DEF ApplyMove, BoardType, kOpponent, kPlayers
<1>3. bit \notin b.fields
  <2>1. bit = Index(m) \/ bit = Index(m) + 1
    BY IndexIsEven DEF BoardType, kPlayerOffset, kPlayers
  <2> QED
    BY <2>1 DEF ApplyMoveChecks
<1>4. b = [fields |-> b.fields, current_player |-> b.current_player, moves_made |-> b.moves_made]
  BY DEF BoardType
<1>5. b.moves_made \in Nat
  BY DEF BoardType
<1> HIDE DEF c
<1>6. RevertMove(c, m) = [fields |-> c.fields \ {bit}, current_player |-> b.current_player,
                          moves_made |-> c.moves_made - 1]
  BY <1>2 DEF RevertMove
<1>7. c.fields \ {bit} = b.fields /\ c.moves_made - 1 = b.moves_made
  BY <1>1, <1>3, <1>5
<1>8. RevertMove(c, m) = b
  BY <1>4, <1>6, <1>7
<1>9. RevertMoveChecks(c, m)
  BY <1>1, <1>2 DEF RevertMoveChecks
<1> QED
  BY <1>8, <1>9 DEF c

-------------------------------------------------------------------------------
(* A set of natural numbers that is not empty has a least element.         *)
LEMMA MinIsLeast ==
  ASSUME NEW S \in SUBSET Nat, S # {}
  PROVE  Min(S) \in S /\ \A n \in S : Min(S) <= n
<1> DEFINE Less == {ss \in Nat \X Nat : ss[1] < ss[2]}
<1>1. IsWellFoundedOn(Less, Nat)
  BY NatLessThanWellFounded DEF OpToRel
<1>2. PICK x \in S : \A y \in S : ~(<<y, x>> \in Less)
  <2> HIDE DEF Less
  <2> QED
    BY <1>1, WFMin
<1>3. ASSUME NEW y \in S
      PROVE  x <= y
  <2>1. <<y, x>> \in Nat \X Nat
    OBVIOUS
  <2>2. ~(y < x)
    BY <1>2, <2>1
  <2> QED
    BY <2>2
<1> QED
  BY <1>3 DEF Min

(* Quotient and remainder of a number that is given by them.               *)
LEMMA DivMod ==
  ASSUME NEW h \in Nat \ {0}, NEW q \in Nat, NEW r \in 0 .. (h - 1)
  PROVE  (q * h + r) \div h = q /\ (q * h + r) % h = r
  OBVIOUS

(* Shifting a coordinate with wrap-around reaches every coordinate.        *)
LEMMA ShiftReachesAll ==
  ASSUME NEW w \in Nat \ {0}, NEW o \in 0 .. (w - 1), NEW p \in 0 .. (w - 1)
  PROVE  \E x \in 0 .. (w - 1) : (x + o) % w = p
<1>1. CASE p >= o
  <2>1. (0 * w + p) % w = p
    BY DivMod
  <2>2. (p - o) \in 0 .. (w - 1) /\ (p - o) + o = 0 * w + p
    BY <1>1
  <2> QED
    BY <2>1, <2>2
<1>2. CASE p < o
  <2>1. (1 * w + p) % w = p
    BY DivMod
  <2>2. (p - o + w) \in 0 .. (w - 1) /\ (p - o + w) + o = 1 * w + p
    BY <1>2
  <2> QED
    BY <2>1, <2>2
<1> QED
  BY <1>1, <1>2

(* The scan of UniformlySampleLegalMove stays on the board and visits all  *)
(* of it, wherever it starts.                                              *)
LEMMA ScanStaysInside ==
  ASSUME NEW offset \in Offsets, NEW k \in Nat
  PROVE  ScanField(offset, k) \in Positions
<1>1. k \div Height \in Nat /\ k % Height \in Nat
  BY BoardAssumption
<1>2. offset[1] \in Nat /\ offset[2] \in Nat
  BY DEF Offsets
<1>3. ((k \div Height) + offset[1]) % Width \in 0 .. (Width - 1)
  BY <1>1, <1>2, BoardAssumption
<1>4. ((k % Height) + offset[2]) % Height \in 0 .. (Height - 1)
  BY <1>1, <1>2, BoardAssumption
<1> QED
  BY <1>3, <1>4 DEF ScanField, Positions

LEMMA ScanVisitsAll ==
  ASSUME NEW offset \in Offsets, NEW position \in Positions
  PROVE  \E k \in 0 .. (Width * Height - 1) : ScanField(offset, k) = position
<1>1. PICK x \in 0 .. (Width - 1) : (x + offset[1]) % Width = position[1]
  BY ShiftReachesAll, BoardAssumption DEF Offsets, Positions
<1>2. PICK y \in 0 .. (Height - 1) : (y + offset[2]) % Height = position[2]
  BY ShiftReachesAll, BoardAssumption DEF Offsets, Positions
<1>3. (x * Height + y) \div Height = x /\ (x * Height + y) % Height = y
  BY DivMod, BoardAssumption
<1>4. x * Height + y \in 0 .. (Width * Height - 1)
  <2>1. (x + 1) * Height <= Width * Height
    BY ProductMonotone, BoardAssumption
  <2>2. (x + 1) * Height = x * Height + Height /\ x * Height \in Nat
    BY BoardAssumption
  <2> QED
    BY <2>1, <2>2, BoardAssumption
<1>5. ScanField(offset, x * Height + y) = <<position[1], position[2]>>
  BY <1>1, <1>2, <1>3 DEF ScanField
<1> QED
  BY <1>4, <1>5 DEF Positions

(* On a board with a free field the scan finds one, whatever the offsets.  *)
LEMMA SampleIsLegal ==
  ASSUME NEW b, HasLegalMove(b), NEW offset \in Offsets
  PROVE  SampleLegalMove(b, offset) \in LegalMoves(b)
<1> DEFINE free == {k \in 0 .. (Width * Height - 1) : StoneAt(b, ScanField(offset, k)) = NONE}
<1>1. PICK position \in Positions : StoneAt(b, position) = NONE
  BY DEF HasLegalMove
<1>2. free # {}
  BY <1>1, ScanVisitsAll
<1>3. free \in SUBSET Nat
  BY BoardAssumption
<1>4. Min(free) \in free
  <2> HIDE DEF free
  <2> QED
    BY <1>2, <1>3, MinIsLeast
<1>5. Min(free) \in Nat /\ StoneAt(b, ScanField(offset, Min(free))) = NONE
  BY <1>4, BoardAssumption
<1>6. SampleLegalMove(b, offset) = ScanField(offset, Min(free))
  BY DEF SampleLegalMove
<1> QED
  <2> HIDE DEF free
  <2> QED
    BY <1>5, <1>6, ScanStaysInside DEF LegalMoves

(* A free field is what the scan that starts there returns.                *)
LEMMA EveryLegalMoveIsSampled ==
  ASSUME NEW b, NEW position \in LegalMoves(b)
  PROVE  position \in Offsets /\ SampleLegalMove(b, position) = position
<1> DEFINE free == {k \in 0 .. (Width * Height - 1) : StoneAt(b, ScanField(position, k)) = NONE}
<1>1. position \in Positions /\ StoneAt(b, position) = NONE
  BY DEF LegalMoves
<1>2. ScanField(position, 0) = position
  <2>1. 0 \div Height = 0 /\ 0 % Height = 0
    BY BoardAssumption
  <2>2. (0 + position[1]) % Width = position[1] /\ (0 + position[2]) % Height = position[2]
    BY <1>1, BoardAssumption DEF Positions
  <2> QED
    BY <1>1, <2>1, <2>2 DEF ScanField, Positions
<1>3. 0 \in 0 .. (Width * Height - 1)
  <2>1. 1 * Height <= Width * Height
    BY ProductMonotone, BoardAssumption
  <2> QED
    BY <2>1, BoardAssumption
<1>4. 0 \in free
  BY <1>1, <1>2, <1>3
<1>5. free \in SUBSET Nat
  BY BoardAssumption
<1>6. Min(free) = 0
  <2>1. Min(free) \in free /\ Min(free) <= 0
    <3> HIDE DEF free
    <3> QED
      BY <1>4, <1>5, MinIsLeast
  <2>2. Min(free) \in Nat
    <3> HIDE DEF free
    <3> QED
      BY <2>1, <1>5
  <2> QED
    BY <2>1, <2>2
<1>7. SampleLegalMove(b, position) = ScanField(position, Min(free))
  BY DEF SampleLegalMove
<1> QED
  <2> HIDE DEF free
  <2> QED
    BY <1>1, <1>2, <1>6, <1>7 DEF Offsets, Positions

-------------------------------------------------------------------------------
(* The directions DidWin casts its rays in.                                *)
RayDirections == Directions \cup {Negative(d) : d \in Directions}

(* Going on for Width + Height fields and one more leaves the board.       *)
LEMMA RaysLeaveTheBoard ==
  ASSUME NEW position \in Positions, NEW direction \in RayDirections
  PROVE  ~Inside(Step(position, Width + Height + 1, direction))
<1> USE BoardAssumption DEF Positions, Inside, Step
<1>1. CASE direction = <<0, 1>>
  BY <1>1
<1>2. CASE direction = <<1, 0>>
  BY <1>2
<1>3. CASE direction = <<1, 1>>
  BY <1>3
<1>4. CASE direction = <<1, -1>>
  BY <1>4
<1>5. CASE direction = <<-0, -1>>
  BY <1>5
<1>6. CASE direction = <<-1, -0>>
  BY <1>6
<1>7. CASE direction = <<-1, -1>>
  BY <1>7
<1>8. CASE direction = <<-1, -(-1)>>
  BY <1>8
<1> QED
  BY <1>1, <1>2, <1>3, <1>4, <1>5, <1>6, <1>7, <1>8 DEF RayDirections, Directions, Negative

(* CastRay counts the stones of the player up to the first field that is   *)
(* not theirs.                                                             *)
LEMMA RayIsMaximal ==
  ASSUME NEW b, NEW position \in Positions, NEW direction \in RayDirections,
         NEW player \in kPlayers
  PROVE  /\ CastRay(b, position, direction, player) \in 0 .. (Width + Height)
         /\ \A i \in 1 .. CastRay(b, position, direction, player) :
              StoneAtPadded(b, Step(position, i, direction)) = player
         /\ StoneAtPadded(b, Step(position, CastRay(b, position, direction, player) + 1,
                                  direction)) # player
<1> DEFINE stops == {n \in Nat : StoneAtPadded(b, Step(position, n + 1, direction)) # player}
<1>1. Width + Height \in stops
  <2>1. StoneAtPadded(b, Step(position, Width + Height + 1, direction)) = NONE
    BY RaysLeaveTheBoard DEF StoneAtPadded
  <2> QED
    BY <2>1, BoardAssumption DEF kPlayers, NONE
<1>2. Min(stops) \in stops /\ \A n \in stops : Min(stops) <= n
  <2>1. stops \in SUBSET Nat
    OBVIOUS
  <2> HIDE DEF stops
  <2> QED
    BY <1>1, <2>1, MinIsLeast
<1> DEFINE count == Min(stops)
<1>3. count \in 0 .. (Width + Height)
  BY <1>1, <1>2, BoardAssumption
<1>4. StoneAtPadded(b, Step(position, count + 1, direction)) # player
  BY <1>2
<1>5. ASSUME NEW i \in 1 .. count
      PROVE  StoneAtPadded(b, Step(position, i, direction)) = player
  <2> HIDE DEF count
  <2>1. i - 1 \in Nat /\ ~(count <= i - 1) /\ (i - 1) + 1 = i
    BY <1>3, BoardAssumption
  <2>2. i - 1 \notin stops
    BY <1>2, <2>1 DEF count
  <2> QED
    BY <2>1, <2>2
<1> HIDE DEF count
<1>6. \E n \in 0 .. (Width + Height) :
        /\ \A i \in 1 .. n : StoneAtPadded(b, Step(position, i, direction)) = player
        /\ StoneAtPadded(b, Step(position, n + 1, direction)) # player
  BY <1>3, <1>4, <1>5 DEF count
<1> QED
  BY <1>6 DEF CastRay

(* Going back in a direction is going on in the opposite one.              *)
LEMMA StepBack ==
  ASSUME NEW position \in Positions, NEW direction \in Directions, NEW i \in Int
  PROVE  /\ Negative(direction) \in RayDirections
         /\ direction \in RayDirections
         /\ Step(position, i, Negative(direction)) = Step(position, -i, direction)
         /\ Step(position, 0, direction) = position
<1>1. Negative(direction) \in RayDirections /\ direction \in RayDirections
  BY DEF RayDirections
<1>2. direction[1] \in Int /\ direction[2] \in Int
  BY DEF Directions
<1>3. position[1] \in Int /\ position[2] \in Int /\ position = <<position[1], position[2]>>
  BY BoardAssumption DEF Positions
<1>4. Step(position, i, Negative(direction)) = Step(position, -i, direction)
  <2>1. i * (-direction[1]) = (-i) * direction[1] /\ i * (-direction[2]) = (-i) * direction[2]
    BY <1>2
  <2> QED
    BY <2>1 DEF Step, Negative
<1>5. Step(position, 0, direction) = position
  BY <1>2, <1>3 DEF Step
<1> QED
  BY <1>1, <1>4, <1>5

(* DidWin finds exactly the lines through the stone just put down.         *)
LEMMA DidWinFindsLines ==
  ASSUME NEW b \in BoardType, NEW position \in StonesOf(b, kOpponent[b.current_player])
  PROVE  DidWin(b, position) <=> LineThrough(b, position, kOpponent[b.current_player])
<1> DEFINE player == kOpponent[b.current_player]
           Forward(d) == CastRay(b, position, d, player)
           Back(d) == CastRay(b, position, Negative(d), player)
           Owned(d, i) == StoneAtPadded(b, Step(position, i, d)) = player
<1>1. player \in kPlayers
  BY DEF BoardType, kOpponent, kPlayers
<1>2. position \in Positions /\ StoneAt(b, position) = player
  BY DEF StonesOf
<1>3. Inside(position)
  BY <1>2, BoardAssumption DEF Positions, Inside
<1>4. ASSUME NEW d \in Directions
      PROVE  /\ Forward(d) \in Nat /\ Back(d) \in Nat
             /\ \A i \in 1 .. Forward(d) : Owned(d, i)
             /\ ~Owned(d, Forward(d) + 1)
             /\ \A i \in 1 .. Back(d) : Owned(d, -i)
             /\ ~Owned(d, -(Back(d) + 1))
             /\ Owned(d, 0)
  <2> HIDE DEF player
  <2>1. /\ Forward(d) \in 0 .. (Width + Height) /\ Back(d) \in 0 .. (Width + Height)
        /\ \A i \in 1 .. Forward(d) : Owned(d, i)
        /\ ~Owned(d, Forward(d) + 1)
    BY <1>1, <1>2, StepBack, RayIsMaximal
  <2>2. Forward(d) \in Nat /\ Back(d) \in Nat
    BY <2>1, BoardAssumption
  <2>3. /\ \A i \in 1 .. Back(d) : StoneAtPadded(b, Step(position, i, Negative(d))) = player
        /\ StoneAtPadded(b, Step(position, Back(d) + 1, Negative(d))) # player
    BY <1>1, <1>2, StepBack, RayIsMaximal
  <2>4. \A i \in Int : Step(position, i, Negative(d)) = Step(position, -i, d)
    BY <1>2, StepBack
  <2>5. Owned(d, 0)
    BY <1>2, <1>3, StepBack DEF StoneAtPadded
  <2>6. ASSUME NEW i \in 1 .. Back(d) PROVE Owned(d, -i)
    BY <2>3, <2>4
  <2>7. ~Owned(d, -(Back(d) + 1))
    BY <2>2, <2>3, <2>4
  <2> QED
    BY <2>1, <2>2, <2>5, <2>6, <2>7
<1>5. ASSUME NEW d \in Directions, Forward(d) + Back(d) >= WinLength - 1
      PROVE  \E before \in 0 .. (WinLength - 1) :
               \A i \in 0 .. (WinLength - 1) : Owned(d, i - before)
  <2> DEFINE before == IF Back(d) <= WinLength - 1 THEN Back(d) ELSE WinLength - 1
             forward == Forward(d)
             back == Back(d)
  <2>1. /\ forward \in Nat /\ back \in Nat /\ forward + back >= WinLength - 1
        /\ \A i \in 1 .. forward : Owned(d, i)
        /\ \A i \in 1 .. back : Owned(d, -i)
        /\ Owned(d, 0)
    BY <1>4, <1>5
  <2> HIDE DEF Owned, Forward, Back, forward, back
  <2>2. before \in 0 .. (WinLength - 1) /\ before <= back /\ WinLength - 1 - before <= forward
    BY <2>1, BoardAssumption DEF forward, back
  <2>3. ASSUME NEW i \in 0 .. (WinLength - 1)
        PROVE  Owned(d, i - before)
    <3> HIDE DEF before
    <3>1. CASE i < before
      <4>1. before - i \in 1 .. back /\ i - before = -(before - i)
        BY <2>1, <2>2, <3>1, BoardAssumption
      <4> QED
        BY <2>1, <4>1
    <3>2. CASE i = before
      <4>1. i - before = 0
        BY <2>2, <3>2, BoardAssumption
      <4> QED
        BY <2>1, <4>1
    <3>3. CASE i > before
      <4>1. i - before \in 1 .. forward
        BY <2>1, <2>2, <3>3, BoardAssumption
      <4> QED
        BY <2>1, <4>1
    <3> QED
      BY <3>1, <3>2, <3>3, <2>2, BoardAssumption
  <2> QED
    BY <2>2, <2>3
<1>6. ASSUME NEW d \in Directions, NEW before \in 0 .. (WinLength - 1),
             \A i \in 0 .. (WinLength - 1) : Owned(d, i - before)
      PROVE  Forward(d) + Back(d) >= WinLength - 1
  <2> DEFINE forward == Forward(d)
             back == Back(d)
  <2>1. /\ forward \in Nat /\ back \in Nat
        /\ ~Owned(d, forward + 1)
        /\ ~Owned(d, -(back + 1))
    BY <1>4
  <2> HIDE DEF Owned, Forward, Back, forward, back
  <2>2. forward >= WinLength - 1 - before
    <3> SUFFICES ASSUME forward < WinLength - 1 - before
                 PROVE  FALSE
      BY <2>1, BoardAssumption
    <3>1. forward + 1 + before \in 0 .. (WinLength - 1)
      BY <2>1, BoardAssumption
    <3>2. (forward + 1 + before) - before = forward + 1
      BY <2>1, BoardAssumption
    <3> QED
      BY <1>6, <2>1, <3>1, <3>2
  <2>3. back >= before
    <3> SUFFICES ASSUME back < before
                 PROVE  FALSE
      BY <2>1, BoardAssumption
    <3>1. before - (back + 1) \in 0 .. (WinLength - 1)
      BY <2>1, BoardAssumption
    <3>2. (before - (back + 1)) - before = -(back + 1)
      BY <2>1, BoardAssumption
    <3> QED
      BY <1>6, <2>1, <3>1, <3>2
  <2> QED
    BY <2>1, <2>2, <2>3, BoardAssumption DEF forward, back
<1>7. \A d \in Directions : Forward(d) \in Nat /\ Back(d) \in Nat
  BY <1>4
<1>8. DidWin(b, position) <=> \E d \in Directions : Forward(d) + Back(d) >= WinLength - 1
  BY DEF DidWin
<1>9. LineThrough(b, position, player) <=>
        \E d \in Directions, before \in 0 .. (WinLength - 1) :
          \A i \in 0 .. (WinLength - 1) : Owned(d, i - before)
  BY DEF LineThrough
<1> QED
  <2> HIDE DEF Forward, Back, Owned
  <2> QED
    BY <1>5, <1>6, <1>8, <1>9
================================================================================
