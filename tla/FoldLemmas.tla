----------------------------- MODULE FoldLemmas -----------------------------
(***************************************************************************)
(* Facts about sums over finite sets, and about functions defined by       *)
(* recursion, that the proofs of the components share.                     *)
(*                                                                         *)
(* Induction is stated of a set of numbers, or of a set of subsets, and    *)
(* never of a predicate: it follows from the well-foundedness of < on Nat. *)
(* From it come functions that obey a recursion (FoldExists,               *)
(* IterationExists), from those the sums of FiniteSetsExt and how they     *)
(* change with one element.                                                *)
(***************************************************************************)
EXTENDS SequencesExt, FiniteSetTheorems, TLAPS

(* A set that has 0 and, with a number, the next one has them all.         *)
LEMMA SetInduction ==
    ASSUME NEW S, 0 \in S, \A n \in Nat : n \in S => n + 1 \in S
    PROVE  Nat \subseteq S
<1> SUFFICES ASSUME Nat \ S # {} PROVE FALSE
  OBVIOUS
<1> DEFINE T == Nat \ S
<1>1. PICK x \in T : \A y \in T : ~(<<y, x>> \in OpToRel(<, Nat))
  <2>1. T \subseteq Nat /\ T # {}
    OBVIOUS
  <2> HIDE DEF T
  <2> QED BY <2>1, NatLessThanWellFounded, WFMin
<1>2. x - 1 \in Nat /\ x - 1 < x
  OBVIOUS
<1>3. x - 1 \in S
  BY <1>1, <1>2 DEF OpToRel
<1> QED BY <1>2, <1>3

(* A set P that has {} and every subset whose parts without one element it *)
(* has, has all the subsets of a finite set.                               *)
LEMMA SubsetInduction ==
    ASSUME NEW S, IsFiniteSet(S), NEW P, {} \in P,
           \A T \in SUBSET S : T # {} /\ (\A x \in T : T \ {x} \in P) => T \in P
    PROVE  SUBSET S \subseteq P
<1> DEFINE N == {n \in Nat : \A T \in SUBSET S : Cardinality(T) = n => T \in P}
<1>1. \A T \in SUBSET S : IsFiniteSet(T) /\ Cardinality(T) \in Nat
  BY FS_Subset, FS_CardinalityType
<1>2. 0 \in N
  BY <1>1, FS_EmptySet
<1>3. ASSUME NEW n \in Nat, n \in N PROVE n + 1 \in N
  <2> SUFFICES ASSUME NEW T \in SUBSET S, Cardinality(T) = n + 1 PROVE T \in P
    OBVIOUS
  <2>1. T # {}
    <3>1. T = {} => Cardinality(T) = 0
      BY FS_EmptySet
    <3> QED BY <3>1
  <2>2. ASSUME NEW x \in T PROVE T \ {x} \in P
    <3>1. Cardinality(T \ {x}) = n
      BY <1>1, FS_RemoveElement
    <3> QED BY <1>3, <3>1
  <2> QED BY <2>1, <2>2
<1>4. Nat \subseteq N
  <2> HIDE DEF N
  <2> QED BY <1>2, <1>3, SetInduction
<1> QED BY <1>1, <1>4

-----------------------------------------------------------------------------
(* g folds step over the subsets of S, starting at base; pick chooses the  *)
(* element that is folded last.                                            *)
IsFold(g, S, base, pick, step) ==
    \A T \in SUBSET S :
        g[T] = IF T = {} THEN base ELSE step[pick[T]][g[T \ {pick[T]}]]

(* A fold over the subsets of a finite set exists: the functions that obey *)
(* its recursion on the subsets of at most n elements are extended one     *)
(* size at a time.                                                         *)
LEMMA FoldExists ==
    ASSUME NEW S, IsFiniteSet(S), NEW V, NEW base \in V,
           NEW pick, \A T \in SUBSET S : T # {} => pick[T] \in T,
           NEW step, \A x \in S, v \in V : step[x][v] \in V
    PROVE  \E g \in [SUBSET S -> V] : IsFold(g, S, base, pick, step)
<1> DEFINE Upto(n) == {T \in SUBSET S : Cardinality(T) <= n}
           Good(g, T) == g[T] = IF T = {} THEN base ELSE step[pick[T]][g[T \ {pick[T]}]]
           Fits(n) == \E g \in [SUBSET S -> V] : \A T \in Upto(n) : Good(g, T)
           N == {n \in Nat : Fits(n)}
<1>1. \A T \in SUBSET S : IsFiniteSet(T) /\ Cardinality(T) \in Nat
  BY FS_Subset, FS_CardinalityType
<1>2. \A T \in SUBSET S : \A x \in T :
         Cardinality(T \ {x}) = Cardinality(T) - 1 /\ T \ {x} \in SUBSET S
  BY <1>1, FS_RemoveElement
<1>3. Cardinality({}) = 0 /\ \A T \in SUBSET S : Cardinality(T) = 0 => T = {}
  BY <1>1, FS_EmptySet
<1>4. 0 \in N
  <2> DEFINE g == [T \in SUBSET S |-> base]
  <2>1. ASSUME NEW T \in Upto(0) PROVE Good(g, T)
    <3>1. T \in SUBSET S /\ Cardinality(T) \in Nat /\ Cardinality(T) <= 0
      BY <1>1
    <3>2. Cardinality(T) = 0
      <4> HIDE DEF Upto
      <4> QED BY <3>1
    <3>3. T = {}
      BY <1>3, <3>1, <3>2
    <3> QED BY <3>1, <3>3
  <2>2. g \in [SUBSET S -> V]
    OBVIOUS
  <2>3. Fits(0)
    <3> HIDE DEF g, Upto, Good
    <3> QED BY <2>1, <2>2
  <2> QED BY <2>3
<1>5. ASSUME NEW n \in Nat, n \in N PROVE n + 1 \in N
  <2>1. PICK g \in [SUBSET S -> V] : \A T \in Upto(n) : Good(g, T)
    BY <1>5 DEF N, Fits
  <2> DEFINE h == [T \in SUBSET S |->
                      IF T = {} THEN base
                      ELSE IF Cardinality(T) <= n THEN g[T]
                      ELSE step[pick[T]][g[T \ {pick[T]}]]]
  <2>2. ASSUME NEW T \in Upto(n + 1) PROVE Good(h, T)
    <3>1. CASE T = {}
      BY <3>1
    <3>2. CASE T # {}
      <4> DEFINE U == T \ {pick[T]}
      <4>1. pick[T] \in T /\ U \in SUBSET S /\ Cardinality(U) = Cardinality(T) - 1
        BY <3>2, <1>2
      <4>2. Cardinality(T) \in Nat /\ Cardinality(T) <= n + 1 /\ T \in SUBSET S
        BY <1>1
      <4>3. Cardinality(U) <= n /\ g[{}] = base /\ h[{}] = base
        <5>1. Cardinality(U) <= n
          <6> HIDE DEF U, Upto, h
          <6> QED BY <4>1, <4>2
        <5>2. {} \in SUBSET S /\ {} \in Upto(n)
          BY <1>3
        <5>3. Good(g, {})
          <6> HIDE DEF Good, Upto
          <6> QED BY <2>1, <5>2
        <5> QED BY <5>1, <5>2, <5>3
      <4>4. h[U] = g[U]
        BY <4>1, <4>3
      <4>5. h[T] = step[pick[T]][g[U]]
        <5>1. CASE Cardinality(T) <= n
          <6>1. Good(g, T) /\ h[T] = g[T]
            BY <2>1, <5>1, <3>2, <4>2
          <6> QED BY <6>1, <3>2
        <5>2. CASE ~(Cardinality(T) <= n)
          BY <5>2, <3>2, <4>2
        <5> QED BY <5>1, <5>2
      <4> QED BY <3>2, <4>4, <4>5
    <3> QED BY <3>1, <3>2
  <2>3. h \in [SUBSET S -> V]
    <3>1. ASSUME NEW T \in SUBSET S, T # {} PROVE step[pick[T]][g[T \ {pick[T]}]] \in V
      <4>1. pick[T] \in S /\ g[T \ {pick[T]}] \in V
        BY <3>1
      <4> QED BY <4>1
    <3> QED BY <3>1
  <2>4. Fits(n + 1)
    <3> HIDE DEF h, Upto, Good
    <3> QED BY <2>2, <2>3
  <2> HIDE DEF Fits
  <2> QED BY <2>4
<1>6. Cardinality(S) \in N
  <2>1. Nat \subseteq N
    <3> HIDE DEF N
    <3> QED BY <1>4, <1>5, SetInduction
  <2> QED BY <2>1, <1>1
<1>7. PICK g \in [SUBSET S -> V] : \A T \in Upto(Cardinality(S)) : Good(g, T)
  BY <1>6
<1>8. \A T \in SUBSET S : Cardinality(T) <= Cardinality(S)
  BY FS_Subset
<1> QED BY <1>7, <1>8 DEF IsFold

(* A sequence of values, each the step from the one before, exists.        *)
LEMMA IterationExists ==
    ASSUME NEW V, NEW base \in V, NEW step \in [V -> V]
    PROVE  \E f \in [Nat -> V] : f[0] = base /\ \A n \in Nat : f[n + 1] = step[f[n]]
<1> DEFINE Good(g, n) == g[0] = base /\ \A i \in Nat : i < n => g[i + 1] = step[g[i]]
           N == {n \in Nat : \E g \in [Nat -> V] : Good(g, n)}
<1>1. 0 \in N
  <2> DEFINE g == [i \in Nat |-> base]
  <2>1. g \in [Nat -> V] /\ Good(g, 0)
    OBVIOUS
  <2> QED BY <2>1
<1>2. ASSUME NEW n \in Nat, n \in N PROVE n + 1 \in N
  <2>1. PICK g \in [Nat -> V] : Good(g, n)
    BY <1>2
  <2> DEFINE h == [i \in Nat |-> IF i <= n THEN g[i] ELSE step[g[n]]]
  <2>2. h \in [Nat -> V]
    OBVIOUS
  <2>3. h[0] = base
    BY <2>1
  <2>4. ASSUME NEW i \in Nat, i < n + 1 PROVE h[i + 1] = step[h[i]]
    <3>1. h[i] = g[i]
      BY <2>4
    <3>2. CASE i < n
      BY <2>1, <3>1, <3>2
    <3>3. CASE i = n
      BY <3>1, <3>3
    <3> QED BY <2>4, <3>2, <3>3
  <2>5. Good(h, n + 1)
    BY <2>3, <2>4
  <2> HIDE DEF h, Good
  <2> QED BY <2>2, <2>5
<1>3. Nat \subseteq N
  <2> HIDE DEF N
  <2> QED BY <1>1, <1>2, SetInduction
<1>4. ASSUME NEW n \in Nat, NEW g, NEW h, Good(g, n), Good(h, n) PROVE g[n] = h[n]
  <2> DEFINE E == {i \in Nat : i <= n => g[i] = h[i]}
  <2>1. 0 \in E
    BY <1>4
  <2>2. ASSUME NEW i \in Nat, i \in E PROVE i + 1 \in E
    BY <1>4, <2>2
  <2>3. Nat \subseteq E
    <3> HIDE DEF E
    <3> QED BY <2>1, <2>2, SetInduction
  <2> QED BY <2>3
<1> DEFINE G(n) == CHOOSE g \in [Nat -> V] : Good(g, n)
           f == [n \in Nat |-> G(n)[n]]
<1>5. \A n \in Nat : G(n) \in [Nat -> V] /\ Good(G(n), n)
  <2> HIDE DEF Good
  <2> QED BY <1>3
<1>6. f \in [Nat -> V]
  <2> HIDE DEF G
  <2> QED BY <1>5
<1>7. f[0] = base
  <2>1. Good(G(0), 0)
    BY <1>5
  <2> HIDE DEF G
  <2> QED BY <2>1
<1>8. ASSUME NEW n \in Nat PROVE f[n + 1] = step[f[n]]
  <2> HIDE DEF G
  <2>1. Good(G(n + 1), n + 1) /\ Good(G(n), n)
    <3>1. n + 1 \in Nat
      OBVIOUS
    <3> HIDE DEF Good
    <3> QED BY <1>5, <3>1
  <2>2. G(n + 1)[n + 1] = step[G(n + 1)[n]] /\ Good(G(n + 1), n)
    BY <2>1
  <2>3. G(n + 1)[n] = G(n)[n]
    BY <1>4, <2>1, <2>2
  <2> QED BY <2>2, <2>3
<1> QED BY <1>6, <1>7, <1>8

-----------------------------------------------------------------------------
(* The recursion of a sum over the subsets of S.                           *)
Sums(f, S, g) ==
    g = [T \in SUBSET S |-> IF T = {} THEN 0
                            ELSE LET x == CHOOSE x \in T : TRUE
                                 IN f[x] + g[T \ {x}]]

(* A sum is what a function that obeys the recursion has at the set.       *)
LEMMA SumUnfolds == \A f, S : SumFunctionOnSet(f, S) = (CHOOSE g : Sums(f, S, g))[S]
BY DEF SumFunctionOnSet, FoldFunctionOnSet, MapThenFoldSet, Sums

(* There are functions that obey it.                                       *)
LEMMA SumsExist ==
    ASSUME NEW S, IsFiniteSet(S), NEW f, \A x \in S : f[x] \in Int
    PROVE  \E g : Sums(f, S, g)
<1> DEFINE pick == [T \in SUBSET S |-> CHOOSE x \in T : TRUE]
           step == [x \in S |-> [v \in Int |-> f[x] + v]]
<1>1. \A T \in SUBSET S : T # {} => pick[T] \in T
  OBVIOUS
<1>2. \A x \in S, v \in Int : step[x][v] = f[x] + v
  OBVIOUS
<1>3. 0 \in Int
  OBVIOUS
<1>4. PICK g \in [SUBSET S -> Int] : IsFold(g, S, 0, pick, step)
  <2>1. \A x \in S, v \in Int : step[x][v] \in Int
    OBVIOUS
  <2> HIDE DEF pick, step
  <2> QED BY <1>1, <2>1, <1>3, FoldExists
<1>5. \A T \in SUBSET S : g[T] = IF T = {} THEN 0 ELSE step[pick[T]][g[T \ {pick[T]}]]
  BY <1>4 DEF IsFold
<1>6. ASSUME NEW T \in SUBSET S, T # {}
      PROVE  g[T] = f[pick[T]] + g[T \ {pick[T]}]
  <2>1. pick[T] \in S /\ g[T \ {pick[T]}] \in Int
    BY <1>1, <1>6
  <2> HIDE DEF pick, step
  <2> QED BY <1>2, <1>5, <1>6, <2>1
<1>7. \A T \in SUBSET S : g[T] = IF T = {} THEN 0 ELSE f[pick[T]] + g[T \ {pick[T]}]
  BY <1>5, <1>6
<1>8. Sums(f, S, g)
  BY <1>7 DEF Sums
<1> QED BY <1>8

(* The sum obeys its recursion, and so does any part of the set: a sum     *)
(* does not depend on the set it is taken as a part of.                    *)
LEMMA SumsAgree ==
    ASSUME NEW S, IsFiniteSet(S), NEW R \in SUBSET S, NEW f, NEW e,
           \A x \in R : e[x] = f[x],
           NEW g, Sums(f, S, g), NEW h, Sums(e, R, h)
    PROVE  \A T \in SUBSET R : h[T] = g[T]
<1> DEFINE P == {T \in SUBSET R : h[T] = g[T]}
           Pick(T) == CHOOSE x \in T : TRUE
<1>1. /\ \A T \in SUBSET S : g[T] = IF T = {} THEN 0 ELSE f[Pick(T)] + g[T \ {Pick(T)}]
      /\ \A T \in SUBSET R : h[T] = IF T = {} THEN 0 ELSE e[Pick(T)] + h[T \ {Pick(T)}]
  BY DEF Sums
<1>2. \A T \in SUBSET R : T # {} => Pick(T) \in T
  OBVIOUS
<1> HIDE DEF Pick
<1>3. {} \in P
  BY <1>1
<1>4. ASSUME NEW T \in SUBSET R, T # {}, \A x \in T : T \ {x} \in P PROVE T \in P
  <2>1. Pick(T) \in T /\ Pick(T) \in R /\ T \in SUBSET S
    BY <1>2, <1>4
  <2>2. h[T \ {Pick(T)}] = g[T \ {Pick(T)}]
    BY <1>4, <2>1
  <2> QED BY <1>1, <1>4, <2>1, <2>2
<1>5. SUBSET R \subseteq P
  <2>1. IsFiniteSet(R)
    BY FS_Subset
  <2> HIDE DEF P
  <2> QED BY <1>3, <1>4, <2>1, SubsetInduction
<1> QED BY <1>5

(* One such function gives the sums over all the subsets.                  *)
LEMMA SumObeys ==
    ASSUME NEW S, IsFiniteSet(S), NEW f, \A x \in S : f[x] \in Int
    PROVE  \E g : Sums(f, S, g) /\ \A T \in SUBSET S : SumFunctionOnSet(f, T) = g[T]
<1> DEFINE Chosen(T) == CHOOSE g : Sums(f, T, g)
<1>1. \A T \in SUBSET S : IsFiniteSet(T) /\ T \in SUBSET T
  BY FS_Subset
<1>2. \A T \in SUBSET S : Sums(f, T, Chosen(T))
  BY <1>1, SumsExist
<1>3. \A T \in SUBSET S : SumFunctionOnSet(f, T) = Chosen(T)[T]
  BY SumUnfolds
<1>4. S \in SUBSET S /\ Sums(f, S, Chosen(S))
  BY <1>2
<1> HIDE DEF Chosen
<1>5. ASSUME NEW T \in SUBSET S PROVE Chosen(T)[T] = Chosen(S)[T]
  <2>1. \A U \in SUBSET T : Chosen(T)[U] = Chosen(S)[U]
    BY <1>2, <1>4, SumsAgree
  <2> QED BY <1>1, <2>1
<1> QED BY <1>3, <1>4, <1>5

-----------------------------------------------------------------------------
(* The sum over no element.                                                *)
LEMMA SumEmpty == \A f : SumFunctionOnSet(f, {}) = 0
<1> SUFFICES ASSUME NEW f PROVE SumFunctionOnSet(f, {}) = 0
  OBVIOUS
<1>1. IsFiniteSet({})
  BY FS_EmptySet
<1>2. PICK g : Sums(f, {}, g) /\ \A T \in SUBSET {} : SumFunctionOnSet(f, T) = g[T]
  BY <1>1, SumObeys
<1> QED BY <1>2 DEF Sums

(* A sum depends on the values at the elements only.                       *)
LEMMA SumSame ==
    ASSUME NEW S, IsFiniteSet(S), NEW f, \A x \in S : f[x] \in Int,
           NEW e, \A x \in S : e[x] = f[x]
    PROVE  SumFunctionOnSet(e, S) = SumFunctionOnSet(f, S)
<1>1. PICK g : Sums(f, S, g) /\ \A T \in SUBSET S : SumFunctionOnSet(f, T) = g[T]
  BY SumObeys
<1>2. PICK h : Sums(e, S, h) /\ \A T \in SUBSET S : SumFunctionOnSet(e, T) = h[T]
  BY SumObeys
<1>3. h[S] = g[S]
  BY <1>1, <1>2, SumsAgree
<1> QED BY <1>1, <1>2, <1>3

(* The sum is an integer, and any element may be taken off first.          *)
LEMMA SumTakeOff ==
    ASSUME NEW S, IsFiniteSet(S), NEW f, \A x \in S : f[x] \in Int
    PROVE  /\ SumFunctionOnSet(f, S) \in Int
           /\ \A x \in S : SumFunctionOnSet(f, S) = SumFunctionOnSet(f, S \ {x}) + f[x]
<1>1. PICK g : Sums(f, S, g) /\ \A T \in SUBSET S : SumFunctionOnSet(f, T) = g[T]
  BY SumObeys
<1> DEFINE Pick(T) == CHOOSE x \in T : TRUE
           Q == {T \in SUBSET S : g[T] \in Int}
           P == {T \in SUBSET S : \A x \in T : g[T] = g[T \ {x}] + f[x]}
<1>2. \A T \in SUBSET S : g[T] = IF T = {} THEN 0 ELSE f[Pick(T)] + g[T \ {Pick(T)}]
  BY <1>1 DEF Sums
<1>3. \A T \in SUBSET S : T # {} => Pick(T) \in T
  OBVIOUS
<1> HIDE DEF Pick
<1>4. SUBSET S \subseteq Q
  <2>1. {} \in Q
    <3>1. {} \in SUBSET S
      OBVIOUS
    <3>2. g[{}] = 0
      BY <1>2, <3>1, Zenon
    <3> QED BY <3>2
  <2>2. ASSUME NEW T \in SUBSET S, T # {}, \A x \in T : T \ {x} \in Q PROVE T \in Q
    <3> DEFINE y == Pick(T)
    <3>1. y \in T /\ g[T] = f[y] + g[T \ {y}]
      BY <1>2, <1>3, <2>2
    <3>2. T \ {y} \in Q
      BY <2>2, <3>1
    <3> QED BY <3>1, <3>2
  <2> HIDE DEF Q
  <2> QED BY <2>1, <2>2, SubsetInduction
<1>5. SUBSET S \subseteq P
  <2>1. {} \in P
    OBVIOUS
  <2>2. ASSUME NEW T \in SUBSET S, T # {}, \A x \in T : T \ {x} \in P,
               NEW x \in T
        PROVE  g[T] = g[T \ {x}] + f[x]
    <3> DEFINE y == Pick(T)  U == T \ {y}
    <3>1. y \in T /\ f[y] \in Int /\ f[x] \in Int /\ g[T] = f[y] + g[U] /\ g[U] \in Int
      BY <1>2, <1>3, <1>4, <2>2
    <3> HIDE DEF y
    <3>2. CASE x = y
      BY <3>1, <3>2
    <3>3. CASE x # y
      <4>1. /\ x \in U /\ y \in T \ {x} /\ U \ {x} = (T \ {x}) \ {y}
            /\ U \ {x} \in SUBSET S
        BY <3>1, <3>3
      <4>2. g[U] = g[U \ {x}] + f[x] /\ g[T \ {x}] = g[U \ {x}] + f[y]
        <5>1. U \in P /\ T \ {x} \in P
          BY <2>2, <3>1
        <5> QED BY <4>1, <5>1
      <4>3. g[U \ {x}] \in Int
        BY <1>4, <4>1
      <4> HIDE DEF U
      <4> QED BY <3>1, <4>2, <4>3
    <3> QED BY <3>2, <3>3
  <2>3. \A T \in SUBSET S : T # {} /\ (\A x \in T : T \ {x} \in P) => T \in P
    BY <2>2
  <2> HIDE DEF P
  <2> QED BY <2>1, <2>3, SubsetInduction
<1>6. g[S] \in Int /\ \A x \in S : g[S] = g[S \ {x}] + f[x]
  BY <1>4, <1>5
<1> QED BY <1>1, <1>6

(* One more element adds its value.                                        *)
LEMMA SumAdd ==
    ASSUME NEW S, IsFiniteSet(S), NEW x, x \notin S, NEW f,
           \A y \in S \cup {x} : f[y] \in Int
    PROVE  /\ SumFunctionOnSet(f, S) \in Int
           /\ SumFunctionOnSet(f, S \cup {x}) = SumFunctionOnSet(f, S) + f[x]
<1>1. IsFiniteSet(S \cup {x}) /\ (S \cup {x}) \ {x} = S
  BY FS_AddElement
<1>2. SumFunctionOnSet(f, S) \in Int
  BY SumTakeOff
<1>3. \A z \in S \cup {x} : SumFunctionOnSet(f, S \cup {x})
                             = SumFunctionOnSet(f, (S \cup {x}) \ {z}) + f[z]
  BY <1>1, SumTakeOff
<1> QED BY <1>1, <1>2, <1>3

(* A sum of naught is naught.                                              *)
LEMMA SumZero ==
    ASSUME NEW S, IsFiniteSet(S), NEW f, \A x \in S : f[x] = 0
    PROVE  SumFunctionOnSet(f, S) = 0
<1> DEFINE P == {T \in SUBSET S : SumFunctionOnSet(f, T) = 0}
<1>1. {} \in P
  BY SumEmpty
<1>2. ASSUME NEW T \in SUBSET S, T # {}, \A x \in T : T \ {x} \in P PROVE T \in P
  <2>1. PICK x \in T : SumFunctionOnSet(f, T \ {x}) = 0
    BY <1>2
  <2>2. IsFiniteSet(T) /\ \A y \in T : f[y] \in Int
    BY FS_Subset
  <2>3. SumFunctionOnSet(f, T) = SumFunctionOnSet(f, T \ {x}) + f[x]
    BY <2>2, SumTakeOff
  <2>4. SumFunctionOnSet(f, T) = 0
    BY <2>1, <2>3
  <2> QED BY <2>4
<1>3. \A T \in SUBSET S : T # {} /\ (\A x \in T : T \ {x} \in P) => T \in P
  BY <1>2
<1>4. SUBSET S \subseteq P
  <2> HIDE DEF P
  <2> QED BY <1>1, <1>3, SubsetInduction
<1> QED BY <1>4

(* What one element's value changes by, the sum changes by.                *)
LEMMA SumChange ==
    ASSUME NEW S, IsFiniteSet(S), NEW f, \A y \in S : f[y] \in Int,
           NEW e, NEW x \in S, e[x] \in Int, \A y \in S \ {x} : e[y] = f[y]
    PROVE  SumFunctionOnSet(e, S) = SumFunctionOnSet(f, S) + (e[x] - f[x])
<1>1. IsFiniteSet(S \ {x})
  BY FS_RemoveElement
<1>2. SumFunctionOnSet(e, S \ {x}) = SumFunctionOnSet(f, S \ {x})
  BY <1>1, SumSame
<1>3. \A y \in S : e[y] \in Int
  OBVIOUS
<1>4. SumFunctionOnSet(e, S) = SumFunctionOnSet(e, S \ {x}) + e[x]
  BY <1>3, SumTakeOff
<1>5. SumFunctionOnSet(f, S) = SumFunctionOnSet(f, S \ {x}) + f[x]
  BY SumTakeOff
<1>6. SumFunctionOnSet(f, S \ {x}) \in Int
  BY <1>1, SumTakeOff
<1> QED BY <1>2, <1>4, <1>5, <1>6

-----------------------------------------------------------------------------
(* Of a set of indices some is the last.                                   *)
LEMMA SomeLast ==
    ASSUME NEW n \in Nat, NEW I \in SUBSET (1 .. n), I # {}
    PROVE  /\ \E x \in I : \A y \in I : x >= y
           /\ Max(I) \in I /\ \A y \in I : Max(I) >= y
<1> DEFINE D == {n - x : x \in I}
<1>1. D \subseteq Nat /\ D # {}
  <2>1. \A x \in I : n - x \in Nat
    OBVIOUS
  <2>2. PICK x \in I : TRUE
    OBVIOUS
  <2>3. n - x \in D
    BY <2>2
  <2> QED BY <2>1, <2>3
<1>2. PICK d \in D : \A e \in D : ~(<<e, d>> \in OpToRel(<, Nat))
  <2> HIDE DEF D
  <2> QED BY <1>1, NatLessThanWellFounded, WFMin
<1>3. PICK x \in I : d = n - x
  OBVIOUS
<1>4. ASSUME NEW y \in I PROVE x >= y
  <2>1. n - y \in D /\ n - y \in Nat /\ d \in Nat
    BY <1>1
  <2>2. ~(n - y < d)
    BY <1>2, <2>1 DEF OpToRel
  <2> QED BY <1>3, <2>2
<1>5. \E z \in I : \A y \in I : z >= y
  BY <1>4
<1> QED BY <1>5 DEF Max
=============================================================================
