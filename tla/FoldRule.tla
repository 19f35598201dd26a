------------------------------ MODULE FoldRule ------------------------------
(***************************************************************************)
(* What a fold over a finite set preserves.  The operation, the order in   *)
(* which elements are taken and the invariant are parameters of the        *)
(* module: an instance of it proves the rule for operators of its own.     *)
(***************************************************************************)
EXTENDS FiniteInduction, Folds

CONSTANTS
    op(_, _, _),     \* of a context, an element and the result so far
    choose(_),       \* the element of a set that is taken last
    Inv(_, _, _)     \* of a context, the elements taken and the result

Fold(context, base, S) ==
    MapThenFoldSet(LAMBDA x, acc : op(context, x, acc), base, LAMBDA x : x, choose, S)

\* What the recursion makes of a set, from a function that has the smaller ones.
Unfold(context, base, f, s) ==
    IF s = {} THEN base ELSE op(context, choose(s), f[s \ {choose(s)}])

UpTo(S, n) == {s \in SUBSET S : Cardinality(s) <= n}

Defines(context, base, f, D) == f = [s \in D |-> Unfold(context, base, f, s)]

\* The recursion defines a function: one for the sets of at most n elements gives
\* one for those of at most n + 1.
LEMMA FoldExists ==
  ASSUME NEW context, NEW base, NEW S, IsFiniteSet(S),
         \A T \in SUBSET S : T # {} => choose(T) \in T
  PROVE  \E f : Defines(context, base, f, SUBSET S)
<1> DEFINE G == {n \in Nat : \E f : Defines(context, base, f, UpTo(S, n))}
<1>1. \A s \in SUBSET S : IsFiniteSet(s) /\ Cardinality(s) \in Nat
  BY FS_Subset, FS_CardinalityType
<1>2. 0 \in G
  <2> DEFINE f == [s \in UpTo(S, 0) |-> base]
  <2>1. \A s \in UpTo(S, 0) : s = {}
    BY <1>1, FS_EmptySet DEF UpTo
  <2>2. Defines(context, base, f, UpTo(S, 0))
    BY <2>1 DEF Defines, Unfold
  <2> QED BY <2>2
<1>3. ASSUME NEW n \in Nat, n \in G PROVE n + 1 \in G
  <2>1. PICK f : Defines(context, base, f, UpTo(S, n))
    BY <1>3
  <2> DEFINE g == [s \in UpTo(S, n + 1) |-> Unfold(context, base, f, s)]
  <2>2. \A s \in UpTo(S, n) : s \in UpTo(S, n + 1) /\ f[s] = Unfold(context, base, f, s)
    BY <1>1, <2>1 DEF UpTo, Defines
  <2>3. \A s \in UpTo(S, n) : g[s] = f[s]
    BY <2>2
  <2>4. ASSUME NEW s \in UpTo(S, n + 1), s # {} PROVE s \ {choose(s)} \in UpTo(S, n)
    BY <1>1, <2>4, FS_RemoveElement DEF UpTo
  <2>5. \A s \in UpTo(S, n + 1) : g[s] = Unfold(context, base, g, s)
    BY <2>3, <2>4 DEF Unfold
  <2>6. Defines(context, base, g, UpTo(S, n + 1))
    BY <2>5 DEF Defines
  <2> QED BY <2>6
<1>4. Nat \subseteq G
  <2> HIDE DEF G
  <2> QED BY <1>2, <1>3, NatSetInduction
<1>5. UpTo(S, Cardinality(S)) = SUBSET S
  BY <1>1, FS_Subset DEF UpTo
<1>6. PICK f : Defines(context, base, f, UpTo(S, Cardinality(S)))
  <2>1. Cardinality(S) \in G
    BY <1>1, <1>4
  <2> QED BY <2>1
<1> QED BY <1>5, <1>6

\* An invariant that one application of the operation preserves holds of the fold.
LEMMA FoldInvariant ==
  ASSUME NEW context, NEW base, NEW S, IsFiniteSet(S),
         \A T \in SUBSET S : T # {} => choose(T) \in T,
         Inv(context, {}, base),
         \A T \in SUBSET S : \A acc :
            T # {} /\ Inv(context, T \ {choose(T)}, acc)
              => Inv(context, T, op(context, choose(T), acc))
  PROVE  Inv(context, S, Fold(context, base, S))
<1> DEFINE iter == CHOOSE f : Defines(context, base, f, SUBSET S)
           G    == {T \in SUBSET S : Inv(context, T, iter[T])}
           UpToG == {n \in Nat : UpTo(S, n) \subseteq G}
<1>1. Fold(context, base, S) = iter[S]
  BY DEF Fold, MapThenFoldSet, Defines, Unfold
<1>2. Defines(context, base, iter, SUBSET S)
  BY FoldExists
<1> HIDE DEF iter
<1>3. \A T \in SUBSET S : iter[T] = Unfold(context, base, iter, T)
  BY <1>2 DEF Defines
<1>4. \A T \in SUBSET S : IsFiniteSet(T) /\ Cardinality(T) \in Nat
  BY FS_Subset, FS_CardinalityType
<1>5. {} \in G
  BY <1>3 DEF Unfold
<1>6. ASSUME NEW T \in SUBSET S, T # {}, T \ {choose(T)} \in G PROVE T \in G
  BY <1>3, <1>6 DEF Unfold
<1>7. 0 \in UpToG
  <2>1. \A T \in UpTo(S, 0) : T = {}
    BY <1>4, FS_EmptySet DEF UpTo
  <2> QED BY <1>5, <2>1
<1>8. ASSUME NEW n \in Nat, n \in UpToG PROVE n + 1 \in UpToG
  <2>1. ASSUME NEW T \in UpTo(S, n + 1), T # {} PROVE T \in G
    <3>1. T \ {choose(T)} \in UpTo(S, n)
      BY <1>4, <2>1, FS_RemoveElement DEF UpTo
    <3> QED BY <1>6, <1>8, <2>1, <3>1 DEF UpTo
  <2> QED BY <1>5, <2>1
<1>9. Nat \subseteq UpToG
  <2> HIDE DEF UpToG
  <2> QED BY <1>7, <1>8, NatSetInduction
<1>10. S \in UpTo(S, Cardinality(S)) /\ Cardinality(S) \in UpToG
  BY <1>4, <1>9 DEF UpTo
<1>11. S \in G
  BY <1>10
<1> QED BY <1>1, <1>11

\* Two functions that the recursion defines agree on the sets that both have ...
LEMMA FoldAgrees ==
  ASSUME NEW context, NEW base, NEW S, IsFiniteSet(S),
         \A T \in SUBSET S : T # {} => choose(T) \in T
  PROVE  \A f, g : \A R \in SUBSET S :
            Defines(context, base, f, SUBSET S) /\ Defines(context, base, g, SUBSET R)
              => f[R] = g[R]
<1> SUFFICES ASSUME NEW f, NEW g, NEW R \in SUBSET S,
                    Defines(context, base, f, SUBSET S), Defines(context, base, g, SUBSET R)
             PROVE  f[R] = g[R]
  OBVIOUS
<1> DEFINE G == {n \in Nat : \A T \in UpTo(R, n) : f[T] = g[T]}
<1>1. \A T \in SUBSET R : IsFiniteSet(T) /\ Cardinality(T) \in Nat
  BY FS_Subset, FS_CardinalityType
<1>2. \A T \in SUBSET R : /\ f[T] = Unfold(context, base, f, T)
                          /\ g[T] = Unfold(context, base, g, T)
  BY DEF Defines
<1>3. 0 \in G
  <2>1. \A T \in UpTo(R, 0) : T = {}
    BY <1>1, FS_EmptySet DEF UpTo
  <2> QED BY <1>2, <2>1 DEF Unfold
<1>4. ASSUME NEW n \in Nat, n \in G PROVE n + 1 \in G
  <2>1. ASSUME NEW T \in UpTo(R, n + 1) PROVE f[T] = g[T]
    <3>1. CASE T = {}
      BY <1>2, <3>1 DEF Unfold
    <3>2. CASE T # {}
      <4>1. T \ {choose(T)} \in UpTo(R, n) /\ T \in SUBSET R
        BY <1>1, <3>2, FS_RemoveElement DEF UpTo
      <4>2. f[T \ {choose(T)}] = g[T \ {choose(T)}]
        BY <1>4, <4>1
      <4> QED BY <1>2, <3>2, <4>1, <4>2 DEF Unfold
    <3> QED BY <3>1, <3>2
  <2> QED BY <2>1
<1>5. Nat \subseteq G
  <2> HIDE DEF G
  <2> QED BY <1>3, <1>4, NatSetInduction
<1>6. R \in UpTo(R, Cardinality(R)) /\ Cardinality(R) \in G
  BY <1>1, <1>5 DEF UpTo
<1> QED BY <1>6

\* ... so that a fold is one application to the fold of all elements but the last.
LEMMA FoldOfMore ==
  ASSUME NEW context, NEW base, NEW S, IsFiniteSet(S),
         \A T \in SUBSET S : T # {} => choose(T) \in T
  PROVE  Fold(context, base, S) =
            IF S = {} THEN base
            ELSE op(context, choose(S), Fold(context, base, S \ {choose(S)}))
<1> DEFINE iter(T) == CHOOSE f : Defines(context, base, f, SUBSET T)
<1>1. \A T : Fold(context, base, T) = iter(T)[T]
  BY DEF Fold, MapThenFoldSet, Defines, Unfold
<1>2. ASSUME NEW T \in SUBSET S PROVE Defines(context, base, iter(T), SUBSET T)
  <2>1. IsFiniteSet(T) /\ \A U \in SUBSET T : U # {} => choose(U) \in U
    BY FS_Subset
  <2>2. \E f : Defines(context, base, f, SUBSET T)
    BY <2>1, FoldExists
  <2> QED BY <2>2
<1> HIDE DEF iter
<1>3. ASSUME NEW T \in SUBSET S PROVE iter(S)[T] = iter(T)[T]
  <2>1. /\ Defines(context, base, iter(S), SUBSET S)
        /\ Defines(context, base, iter(T), SUBSET T)
    BY <1>2
  <2>2. \A f, g : \A R \in SUBSET S :
           Defines(context, base, f, SUBSET S) /\ Defines(context, base, g, SUBSET R)
             => f[R] = g[R]
    BY FoldAgrees
  <2> QED BY <2>1, <2>2
<1>4. iter(S)[S] = Unfold(context, base, iter(S), S)
  BY <1>2 DEF Defines
<1>5. S # {} => S \ {choose(S)} \in SUBSET S
  OBVIOUS
<1>6. CASE S = {}
  BY <1>1, <1>4, <1>6 DEF Unfold
<1>7. CASE S # {}
  <2> DEFINE R == S \ {choose(S)}
  <2>1. iter(S)[R] = iter(R)[R]
    BY <1>3, <1>5, <1>7
  <2>2. Fold(context, base, S) = op(context, choose(S), iter(S)[R])
    BY <1>1, <1>4, <1>7 DEF Unfold
  <2> HIDE DEF R
  <2>3. Fold(context, base, R) = iter(R)[R]
    BY <1>1
  <2>4. Fold(context, base, S) = op(context, choose(S), Fold(context, base, R))
    BY <2>1, <2>2, <2>3
  <2> QED BY <1>7, <2>4 DEF R
<1> QED BY <1>6, <1>7
=============================================================================
