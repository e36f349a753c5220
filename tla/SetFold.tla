-------------------------------- MODULE SetFold --------------------------------
(***************************************************************************)
(* Facts about the folds of the models: the sums of a ladder's statistics  *)
(* and the loops over a sequence.  Each is an instance of MapThenFoldSet   *)
(* with an operator of its own, so the operator and the order of the       *)
(* elements are constants here; a proof takes an INSTANCE of this module   *)
(* for the fold it is about.  base is the value for the empty set.         *)
(*                                                                         *)
(* Induction is by sets (NatSets): the set of the numbers for which a      *)
(* statement holds has 0 and the successors of its members.                *)
(***************************************************************************)
EXTENDS Integers, Folds, FiniteSetTheorems, WellFoundedInduction, TLAPS

CONSTANTS
  Op(_, _),     \* takes an element and what the others have given
  Choose(_)     \* the element of a set that is taken first

Fold(base, f, S) == MapThenFoldSet(Op, base, LAMBDA i : f[i], Choose, S)

Chooses(S) == \A T \in SUBSET S : T # {} => Choose(T) \in T

(* The equation of the fold of f at s, for a g that gives its values.      *)
Value(base, f, g, s) == IF s = {} THEN base ELSE Op(f[Choose(s)], g[s \ {Choose(s)}])

Solves(base, g, f, S) == \A s \in SUBSET S : g[s] = Value(base, f, g, s)

(* The operator keeps to a type, and does not mind the order of elements.  *)
Keeps(base, f, S, Typ) == base \in Typ /\ \A x \in S : \A y \in Typ : Op(f[x], y) \in Typ

Commutes(f, S, Typ) ==
  \A x, z \in S : \A y \in Typ : Op(f[x], Op(f[z], y)) = Op(f[z], Op(f[x], y))

(* The numbers n for which some g satisfies the equation up to sets of n.  *)
Reached(base, f, S) ==
  {n \in Nat : \E g : \A s \in SUBSET S : Cardinality(s) <= n => g[s] = Value(base, f, g, s)}
-------------------------------------------------------------------------------
LEMMA NatSets ==
  ASSUME NEW A, 0 \in A, \A n \in Nat : n \in A => n + 1 \in A
  PROVE  Nat \subseteq A
<1> DEFINE Less == {ss \in Nat \X Nat : ss[1] < ss[2]}
           Out == Nat \ A
<1> SUFFICES ASSUME Out # {} PROVE FALSE
  OBVIOUS
<1>1. IsWellFoundedOn(Less, Nat)
  BY NatLessThanWellFounded DEF OpToRel
<1>2. PICK x \in Out : \A y \in Out : ~(<<y, x>> \in Less)
  <2>1. Out \subseteq Nat
    OBVIOUS
  <2> HIDE DEF Less, Out
  <2> QED
    BY <1>1, <2>1, WFMin
<1>3. x - 1 \in Nat /\ (x - 1) + 1 = x
  OBVIOUS
<1>4. <<x - 1, x>> \in Less
  BY <1>3
<1>5. x - 1 \in A
  BY <1>2, <1>3, <1>4
<1> QED
  BY <1>3, <1>5

LEMMA SomeFoldExists ==
  ASSUME NEW base, NEW f, NEW S, IsFiniteSet(S), Chooses(S)
  PROVE  \E g : g = [s \in SUBSET S |-> Value(base, f, g, s)]
<1>1. 0 \in Reached(base, f, S)
  <2> DEFINE g == [s \in SUBSET S |-> base]
  <2>1. ASSUME NEW s \in SUBSET S, Cardinality(s) <= 0
        PROVE  g[s] = Value(base, f, g, s)
    <3>1. IsFiniteSet(s)
      BY FS_Subset
    <3>2. s = {}
      BY <2>1, <3>1, FS_CardinalityType, FS_EmptySet
    <3> QED
      BY <3>2 DEF Value
  <2> HIDE DEF g
  <2> QED
    BY <2>1 DEF Reached
<1>2. ASSUME NEW n \in Nat, n \in Reached(base, f, S)
      PROVE  n + 1 \in Reached(base, f, S)
  <2>1. PICK g : \A s \in SUBSET S : Cardinality(s) <= n => g[s] = Value(base, f, g, s)
    BY <1>2 DEF Reached
  <2> DEFINE h == [s \in SUBSET S |-> Value(base, f, g, s)]
  <2>2. ASSUME NEW s \in SUBSET S, Cardinality(s) <= n + 1
        PROVE  h[s] = Value(base, f, h, s)
    <3>1. CASE s = {}
      BY <3>1 DEF Value
    <3>2. CASE s # {}
      <4> DEFINE t == s \ {Choose(s)}
      <4>1. t \in SUBSET S /\ Choose(s) \in s
        BY <3>2 DEF Chooses
      <4>2. IsFiniteSet(s) /\ Cardinality(s) \in Nat
        BY FS_Subset, FS_CardinalityType
      <4>3. Cardinality(t) = Cardinality(s) - 1
        BY <4>1, <4>2, FS_RemoveElement
      <4>4. Cardinality(t) <= n
        BY <2>2, <4>2, <4>3
      <4>5. h[t] = g[t]
        BY <2>1, <4>1, <4>4
      <4> QED
        BY <3>2, <4>5 DEF Value
    <3> QED
      BY <3>1, <3>2
  <2> HIDE DEF h
  <2> QED
    BY <2>2 DEF Reached
<1>3. Cardinality(S) \in Reached(base, f, S)
  BY <1>1, <1>2, NatSets, FS_CardinalityType
<1>4. PICK g : \A s \in SUBSET S :
               Cardinality(s) <= Cardinality(S) => g[s] = Value(base, f, g, s)
  BY <1>3 DEF Reached
<1>5. ASSUME NEW s \in SUBSET S
      PROVE  g[s] = Value(base, f, g, s)
  BY <1>4, FS_Subset
<1> DEFINE h == [s \in SUBSET S |-> g[s]]
<1>6. ASSUME NEW s \in SUBSET S
      PROVE  h[s] = Value(base, f, h, s)
  <2>1. Choose(s) \in s => s \ {Choose(s)} \in SUBSET S
    OBVIOUS
  <2> QED
    BY <1>5, <2>1 DEF Value, Chooses
<1>7. h = [s \in SUBSET S |-> Value(base, f, h, s)]
  BY <1>6
<1> QED
  BY <1>7

(* Two solutions of the equation agree on the sets they both have, if the  *)
(* elements are the same.                                                  *)
LEMMA FoldsAgree ==
  ASSUME NEW S, IsFiniteSet(S), Chooses(S), NEW base, NEW f, NEW k, NEW g, NEW h,
         \A x \in S : f[x] = k[x],
         Solves(base, g, f, S), Solves(base, h, k, S)
  PROVE  g[S] = h[S]
<1> DEFINE A == {n \in Nat : \A s \in SUBSET S : Cardinality(s) = n => g[s] = h[s]}
<1>1. 0 \in A
  <2>1. ASSUME NEW s \in SUBSET S, Cardinality(s) = 0
        PROVE  g[s] = h[s]
    <3>1. s = {}
      BY <2>1, FS_Subset, FS_EmptySet
    <3> QED
      BY <3>1 DEF Solves, Value
  <2> QED
    BY <2>1
<1>2. ASSUME NEW n \in Nat, n \in A
      PROVE  n + 1 \in A
  <2>1. ASSUME NEW s \in SUBSET S, Cardinality(s) = n + 1
        PROVE  g[s] = h[s]
    <3>1. IsFiniteSet(s)
      BY FS_Subset
    <3>2. s # {}
      BY <2>1, <3>1, FS_EmptySet
    <3> DEFINE t == s \ {Choose(s)}
    <3>3. t \in SUBSET S /\ Choose(s) \in s
      BY <3>2 DEF Chooses
    <3>4. Cardinality(t) = n
      <4>1. Cardinality(t) = Cardinality(s) - 1
        BY <3>1, <3>3, FS_RemoveElement
      <4> QED
        BY <2>1, <4>1
    <3>5. g[t] = h[t]
      BY <1>2, <3>3, <3>4
    <3>6. g[s] = Op(f[Choose(s)], g[t]) /\ h[s] = Op(k[Choose(s)], h[t])
      BY <3>2 DEF Solves, Value
    <3> QED
      BY <3>3, <3>5, <3>6
  <2> QED
    BY <2>1
<1>3. Cardinality(S) \in A
  <2> HIDE DEF A
  <2> QED
    BY <1>1, <1>2, NatSets, FS_CardinalityType
<1> QED
  BY <1>3

(* The function that the definition of the fold chooses is a solution.     *)
LEMMA FoldHasValues ==
  ASSUME NEW base, NEW f, NEW S, IsFiniteSet(S), Chooses(S)
  PROVE  \E g : Fold(base, f, S) = g[S] /\ Solves(base, g, f, S)
<1> DEFINE iter == CHOOSE g : g = [s \in SUBSET S |-> Value(base, f, g, s)]
<1>1. iter = [s \in SUBSET S |-> Value(base, f, iter, s)]
  <2>1. \E g : g = [s \in SUBSET S |-> Value(base, f, g, s)]
    BY SomeFoldExists
  <2> QED
    BY <2>1, Zenon
<1>2. Fold(base, f, S) = iter[S]
  BY Zenon DEF Fold, MapThenFoldSet, Value
<1> HIDE DEF iter
<1>3. Solves(base, iter, f, S)
  BY <1>1, Zenon DEF Solves
<1> QED
  BY <1>2, <1>3
-------------------------------------------------------------------------------
LEMMA FoldEmpty == \A base, f : Fold(base, f, {}) = base
<1> SUFFICES ASSUME NEW base, NEW f PROVE Fold(base, f, {}) = base
  OBVIOUS
<1>1. IsFiniteSet({}) /\ Chooses({})
  BY FS_EmptySet DEF Chooses
<1> QED
  BY <1>1, FoldHasValues DEF Solves, Value

(* The element that is chosen first is applied to the fold of the others.  *)
LEMMA FoldStep ==
  ASSUME NEW base, NEW f, NEW S, IsFiniteSet(S), Chooses(S), S # {}
  PROVE  /\ Choose(S) \in S
         /\ Fold(base, f, S) = Op(f[Choose(S)], Fold(base, f, S \ {Choose(S)}))
<1> DEFINE T == S \ {Choose(S)}
<1>1. Choose(S) \in S
  BY DEF Chooses
<1>2. IsFiniteSet(T) /\ Chooses(T) /\ T \in SUBSET S
  BY FS_Subset DEF Chooses
<1>3. PICK g : Fold(base, f, S) = g[S] /\ Solves(base, g, f, S)
  BY FoldHasValues
<1> HIDE DEF T
<1>4. PICK h : Fold(base, f, T) = h[T] /\ Solves(base, h, f, T)
  BY <1>2, FoldHasValues
<1>5. g[T] = h[T]
  <2>1. Solves(base, g, f, T)
    BY <1>2, <1>3 DEF Solves
  <2> QED
    BY <1>2, <1>4, <2>1, FoldsAgree
<1>6. g[S] = Op(f[Choose(S)], g[T])
  BY <1>3 DEF Solves, Value, T
<1> QED
  BY <1>1, <1>3, <1>4, <1>5, <1>6 DEF T

(* The fold depends on the elements of the set only.                       *)
LEMMA FoldSame ==
  ASSUME NEW base, NEW f, NEW k, NEW S, IsFiniteSet(S), Chooses(S), \A x \in S : f[x] = k[x]
  PROVE  Fold(base, f, S) = Fold(base, k, S)
<1>1. PICK g : Fold(base, f, S) = g[S] /\ Solves(base, g, f, S)
  BY FoldHasValues
<1>2. PICK h : Fold(base, k, S) = h[S] /\ Solves(base, h, k, S)
  BY FoldHasValues
<1> QED
  BY <1>1, <1>2, FoldsAgree

(* Subsets of a set from which elements can be chosen.                     *)
LEMMA SubsetFolds ==
  ASSUME NEW S, IsFiniteSet(S), Chooses(S), NEW T \in SUBSET S
  PROVE  IsFiniteSet(T) /\ Chooses(T) /\ Cardinality(T) \in Nat
  BY FS_Subset, FS_CardinalityType DEF Chooses

(* A fold is of the type that its operator keeps.                          *)
LEMMA FoldType ==
  ASSUME NEW base, NEW f, NEW S, IsFiniteSet(S), Chooses(S), NEW Typ, Keeps(base, f, S, Typ)
  PROVE  Fold(base, f, S) \in Typ
<1> DEFINE A == {n \in Nat : \A T \in SUBSET S :
                                Cardinality(T) = n => Fold(base, f, T) \in Typ}
<1>1. 0 \in A
  <2>1. ASSUME NEW T \in SUBSET S, Cardinality(T) = 0
        PROVE  Fold(base, f, T) \in Typ
    <3>1. T = {}
      BY <2>1, FS_Subset, FS_EmptySet
    <3> QED
      BY <3>1, FoldEmpty DEF Keeps
  <2> QED
    BY <2>1
<1>2. ASSUME NEW n \in Nat, n \in A
      PROVE  n + 1 \in A
  <2>1. ASSUME NEW T \in SUBSET S, Cardinality(T) = n + 1
        PROVE  Fold(base, f, T) \in Typ
    <3>1. IsFiniteSet(T) /\ Chooses(T)
      BY SubsetFolds
    <3>2. T # {}
      BY <2>1, <3>1, FS_EmptySet
    <3> DEFINE U == T \ {Choose(T)}
    <3>3. Choose(T) \in T /\ Fold(base, f, T) = Op(f[Choose(T)], Fold(base, f, U))
      BY <3>1, <3>2, FoldStep
    <3>4. U \in SUBSET S /\ Cardinality(U) = Cardinality(T) - 1
      BY <3>1, <3>3, FS_RemoveElement
    <3>5. Cardinality(U) = n
      BY <2>1, <3>4
    <3>6. Fold(base, f, U) \in Typ
      BY <1>2, <3>4, <3>5
    <3> QED
      BY <3>3, <3>6 DEF Keeps
  <2> QED
    BY <2>1
<1>3. Cardinality(S) \in A
  <2> HIDE DEF A
  <2> QED
    BY <1>1, <1>2, NatSets, FS_CardinalityType
<1> QED
  BY <1>3

(* If the order of two elements does not matter, any may be taken first.   *)
LEMMA FoldAnyFirst ==
  ASSUME NEW base, NEW f, NEW S, IsFiniteSet(S), Chooses(S), NEW Typ, Keeps(base, f, S, Typ),
         Commutes(f, S, Typ), NEW e \in S
  PROVE  Fold(base, f, S) = Op(f[e], Fold(base, f, S \ {e}))
<1> DEFINE AnyFirst(T) == \A x \in T : Fold(base, f, T) = Op(f[x], Fold(base, f, T \ {x}))
           A == {n \in Nat : \A T \in SUBSET S : Cardinality(T) = n => AnyFirst(T)}
<1>1. 0 \in A
  <2>1. ASSUME NEW T \in SUBSET S, Cardinality(T) = 0
        PROVE  AnyFirst(T)
    <3>1. T = {}
      BY <2>1, FS_Subset, FS_EmptySet
    <3> QED
      BY <3>1
  <2> HIDE DEF AnyFirst
  <2> QED
    BY <2>1
<1>2. ASSUME NEW n \in Nat, n \in A
      PROVE  n + 1 \in A
  <2>1. ASSUME NEW T \in SUBSET S, Cardinality(T) = n + 1, NEW x \in T
        PROVE  Fold(base, f, T) = Op(f[x], Fold(base, f, T \ {x}))
    <3> DEFINE c == Choose(T)
    <3>1. IsFiniteSet(T) /\ Chooses(T)
      BY SubsetFolds
    <3>2. c \in T /\ Fold(base, f, T) = Op(f[c], Fold(base, f, T \ {c}))
      BY <3>1, FoldStep
    <3>3. CASE x = c
      BY <3>2, <3>3
    <3>4. CASE x # c
      <4> HIDE DEF c
      <4> DEFINE U == T \ {c}
                 V == T \ {x}
                 W == (T \ {c}) \ {x}
      <4>1. /\ U \in SUBSET S /\ V \in SUBSET S /\ W \in SUBSET S
            /\ x \in U /\ c \in V /\ V \ {c} = W
        BY <3>2, <3>4
      <4>2. Cardinality(U) = Cardinality(T) - 1 /\ Cardinality(V) = Cardinality(T) - 1
        BY <3>1, <3>2, FS_RemoveElement
      <4>3. Cardinality(U) = n /\ Cardinality(V) = n
        BY <2>1, <4>2
      <4>4. AnyFirst(U) /\ AnyFirst(V)
        <5> HIDE DEF AnyFirst, U, V
        <5> QED
          BY <1>2, <4>1, <4>3
      <4>5. Fold(base, f, U) = Op(f[x], Fold(base, f, W))
        BY <4>1, <4>4
      <4>6. Fold(base, f, V) = Op(f[c], Fold(base, f, W))
        BY <4>1, <4>4
      <4>7. Fold(base, f, W) \in Typ
        <5> HIDE DEF W
        <5>1. IsFiniteSet(W) /\ Chooses(W)
          BY <4>1, SubsetFolds
        <5>2. Keeps(base, f, W, Typ)
          BY <4>1 DEF Keeps
        <5> QED
          BY <5>1, <5>2, FoldType
      <4>8. c \in S /\ x \in S
        BY <3>2
      <4>9. Op(f[c], Op(f[x], Fold(base, f, W))) = Op(f[x], Op(f[c], Fold(base, f, W)))
        <5> HIDE DEF W
        <5> QED
          BY <4>7, <4>8 DEF Commutes
      <4> QED
        BY <3>2, <4>5, <4>6, <4>9
    <3> QED
      BY <3>3, <3>4
  <2> QED
    BY <2>1
<1>3. Cardinality(S) \in A
  <2> HIDE DEF A
  <2> QED
    BY <1>1, <1>2, NatSets, FS_CardinalityType
<1> QED
  BY <1>3

(* A fold that takes the greatest index first, as FoldLeft does: one more  *)
(* element is applied to the fold of those before it.                      *)
LEMMA FoldNext ==
  ASSUME NEW base, NEW f, NEW n \in Nat, NEW k, \A i \in 1 .. n : f[i] = k[i],
         Chooses(1 .. (n + 1)), Choose(1 .. (n + 1)) = n + 1
  PROVE  Fold(base, f, 1 .. (n + 1)) = Op(f[n + 1], Fold(base, k, 1 .. n))
<1> DEFINE D == 1 .. (n + 1)
           E == 1 .. n
<1>1. IsFiniteSet(D) /\ IsFiniteSet(E)
  BY FS_Interval
<1>2. D # {} /\ D \ {n + 1} = E
  <2>1. n + 1 \in D
    OBVIOUS
  <2>2. \A i : i \in D \ {n + 1} <=> i \in E
    OBVIOUS
  <2> QED
    BY <2>1, <2>2, Zenon
<1>3. Chooses(D) /\ Choose(D) = n + 1 /\ Chooses(E)
  <2>1. E \in SUBSET D
    BY <1>2
  <2> HIDE DEF D, E
  <2>2. Chooses(D) /\ Choose(D) = n + 1
    BY DEF D
  <2> QED
    BY <1>1, <2>1, <2>2, SubsetFolds
<1>4. Fold(base, f, D) = Op(f[n + 1], Fold(base, f, E))
  <2> HIDE DEF D, E
  <2> QED
    BY <1>1, <1>2, <1>3, FoldStep
<1>5. Fold(base, f, E) = Fold(base, k, E)
  BY <1>1, <1>3, FoldSame
<1> QED
  BY <1>4, <1>5
===============================================================================
