----------------------------- MODULE DataLemmas ------------------------------
(***************************************************************************)
(* Facts about data that the proofs share: least numbers, induction over   *)
(* the size of a set, sums over finite sets.                               *)
(***************************************************************************)
EXTENDS Sums, Sequences, SequenceTheorems, FiniteSetTheorems, TLAPS

(* A set of numbers has a least one.                                       *)
LEMMA LeastNumber ==
    ASSUME NEW S \in SUBSET Nat, S # {}
    PROVE  \E m \in S : \A n \in S : m <= n
<1> DEFINE Below == {ss \in Nat \X Nat : ss[1] < ss[2]}
<1>1. IsWellFoundedOn(Below, Nat)
  BY NatLessThanWellFounded DEF OpToRel
<1>2. PICK m \in S : \A n \in S : ~(<<n, m>> \in Below)
  BY <1>1, WFMin
<1>3. ASSUME NEW n \in S PROVE m <= n
  <2>1. ~(<<n, m>> \in Below) /\ n \in Nat /\ m \in Nat
    BY <1>2
  <2>2. n < m => <<n, m>> \in Below
    BY <2>1
  <2> QED
    BY <2>1, <2>2
<1> QED
  BY <1>3

(* A set without one of its members is smaller.                            *)
LEMMA OneLess ==
    ASSUME NEW S, IsFiniteSet(S), NEW x \in S
    PROVE  /\ IsFiniteSet(S \ {x})
           /\ Cardinality(S \ {x}) < Cardinality(S)
<1>1. Cardinality(S) \in Nat /\ Cardinality(S \ {x}) = Cardinality(S) - 1
  BY FS_CardinalityType, FS_RemoveElement
<1> QED
  BY <1>1, FS_RemoveElement

(* Strong induction over the sizes of the subsets of a finite set.         *)
LEMMA SizeInduction ==
    ASSUME NEW S, IsFiniteSet(S), NEW P,
           \A T \in SUBSET S :
                (\A U \in SUBSET S : Cardinality(U) < Cardinality(T) => U \in P) => T \in P
    PROVE  \A T \in SUBSET S : T \in P
<1> DEFINE Sizes == {Cardinality(T) : T \in {U \in SUBSET S : U \notin P}}
<1> SUFFICES ASSUME NEW T \in SUBSET S, T \notin P PROVE FALSE
  OBVIOUS
<1>1. \A U \in SUBSET S : Cardinality(U) \in Nat
  BY FS_Subset, FS_CardinalityType
<1>2. Sizes \in SUBSET Nat /\ Sizes # {}
  BY <1>1
<1> HIDE DEF Sizes
<1>3. PICK m \in Sizes : \A n \in Sizes : m <= n
  BY <1>2, LeastNumber
<1>4. PICK U \in SUBSET S : U \notin P /\ Cardinality(U) = m
  BY <1>3 DEF Sizes
<1>5. \A V \in SUBSET S : V \notin P => Cardinality(V) \in Sizes
  BY DEF Sizes
<1>6. \A V \in SUBSET S : Cardinality(V) < Cardinality(U) => V \in P
  BY <1>1, <1>3, <1>4, <1>5
<1> QED
  BY <1>4, <1>6

(* Induction over the numbers, over a set instead of a predicate.          *)
LEMMA NumberInduction ==
    ASSUME NEW N, 0 \in N, \A n \in Nat : n \in N => n + 1 \in N
    PROVE  \A n \in Nat : n \in N
<1> SUFFICES ASSUME Nat \ N # {} PROVE FALSE
  OBVIOUS
<1>1. PICK m \in Nat \ N : \A n \in Nat \ N : m <= n
  BY LeastNumber
<1>2. m # 0 /\ m - 1 \in Nat
  BY <1>1
<1>3. m - 1 \in N
  BY <1>1, <1>2
<1> QED
  BY <1>1, <1>2, <1>3

(* A part of the first n numbers has at most n elements.                   *)
LEMMA FrontBound ==
    ASSUME NEW n \in Nat, NEW S \in SUBSET (1..n)
    PROVE  IsFiniteSet(S) /\ Cardinality(S) \in 0..n
<1>1. IsFiniteSet(1..n) /\ Cardinality(1..n) = n
  BY FS_Interval
<1>2. IsFiniteSet(S) /\ Cardinality(S) <= n
  BY <1>1, FS_Subset
<1>3. Cardinality(S) \in Nat
  BY <1>2, FS_CardinalityType
<1> QED
  BY <1>2, <1>3

(* A part of 1..n with all that is below its elements is 1..m.             *)
LEMMA FrontOnly ==
    ASSUME NEW n \in Nat, NEW S \in SUBSET (1..n),
           \A i, j \in 1..n : i <= j /\ j \in S => i \in S
    PROVE  Cardinality(S) \in 0..n /\ S = 1..Cardinality(S)
<1> DEFINE Rest == (1..n) \ S
<1>1. \E m \in 0..n : S = 1..m
  <2>1. CASE Rest = {}
    <3>1. S = 1..n
      BY <2>1
    <3> QED
      BY <3>1
  <2>2. CASE Rest # {}
    <3>1. PICK y \in Rest : \A z \in Rest : y <= z
      <4>1. Rest \in SUBSET Nat
        OBVIOUS
      <4> HIDE DEF Rest
      <4> QED
        BY <2>2, <4>1, LeastNumber
    <3>2. \A i \in 1..n : i \in S <=> i \in 1..y - 1
      BY <3>1
    <3>3. y \in 1..n /\ y - 1 \in 0..n /\ \A i \in 1..y - 1 : i \in 1..n
      BY <3>1
    <3>4. \A i : i \in S <=> i \in 1..y - 1
      BY <3>2, <3>3
    <3>5. S = 1..y - 1
      BY <3>4, Zenon
    <3> QED
      BY <3>3, <3>5
  <2> QED
    BY <2>1, <2>2
<1>2. \A m \in Nat : Cardinality(1..m) = m
  <2> TAKE m \in Nat
  <2>1. Cardinality(1..m) = IF 1 > m THEN 0 ELSE m - 1 + 1
    BY FS_Interval
  <2> QED
    BY <2>1
<1>3. PICK m \in 0..n : S = 1..m
  BY <1>1
<1>4. Cardinality(S) = m
  <2>1. Cardinality(1..m) = m
    BY <1>2
  <2> QED
    BY <1>3, <2>1, Zenon
<1> QED
  BY <1>3, <1>4

-----------------------------------------------------------------------------
(* Sums.  The function that SumOver chooses exists, one that follows the   *)
(* equation of its recursion, so the sum follows it too.                   *)
Chosen(T) == CHOOSE x \in T : TRUE

Adds(f, S, g) ==
    g = [T \in SUBSET S |-> IF T = {} THEN 0 ELSE f[Chosen(T)] + g[T \ {Chosen(T)}]]

(* The member that the sum takes first.                                    *)
LEMMA ChosenOne ==
    ASSUME NEW T, T # {}
    PROVE  Chosen(T) \in T
BY DEF Chosen

(* By induction over the size of S.                                        *)
LEMMA AdderExists ==
    ASSUME NEW S, IsFiniteSet(S), NEW f
    PROVE  \E g : Adds(f, S, g)
<1> DEFINE Sub(n) == {T \in SUBSET S : Cardinality(T) <= n}
           Works(n, g) == g = [T \in Sub(n) |->
                    IF T = {} THEN 0 ELSE f[Chosen(T)] + g[T \ {Chosen(T)}]]
           N == {n \in Nat : \E g : Works(n, g)}
<1>1. \A T \in SUBSET S : IsFiniteSet(T) /\ Cardinality(T) \in Nat
  BY FS_Subset, FS_CardinalityType
<1>2. \A T \in SUBSET S : Cardinality(T) = 0 <=> T = {}
  BY <1>1, FS_EmptySet
<1>3. ASSUME NEW T \in SUBSET S, T # {}
      PROVE  /\ T \ {Chosen(T)} \in SUBSET S
             /\ Cardinality(T \ {Chosen(T)}) = Cardinality(T) - 1
  BY <1>1, <1>3, ChosenOne, FS_RemoveElement
<1>4. 0 \in N
  <2> DEFINE g == [T \in Sub(0) |-> 0]
  <2>1. \A T \in Sub(0) : T = {}
    BY <1>1, <1>2
  <2>2. Works(0, g)
    BY <2>1
  <2> QED
    BY <2>2
<1>5. ASSUME NEW n \in Nat, n \in N PROVE n + 1 \in N
  <2>1. PICK g : Works(n, g)
    BY <1>5
  <2> DEFINE h == [T \in Sub(n + 1) |->
                    IF T = {} THEN 0 ELSE f[Chosen(T)] + g[T \ {Chosen(T)}]]
  <2>2. ASSUME NEW T \in Sub(n) PROVE h[T] = g[T]
    <3>1. T \in Sub(n + 1)
      BY <1>1
    <3> QED
      BY <2>1, <3>1
  <2>3. ASSUME NEW T \in Sub(n + 1), T # {} PROVE T \ {Chosen(T)} \in Sub(n)
    BY <1>1, <1>3, <2>3
  <2>4. Works(n + 1, h)
    <3>1. \A T \in Sub(n + 1) :
            h[T] = IF T = {} THEN 0 ELSE f[Chosen(T)] + h[T \ {Chosen(T)}]
      BY <2>2, <2>3
    <3> QED
      BY <3>1
  <2> HIDE DEF h
  <2>5. \E k : Works(n + 1, k)
    BY <2>4
  <2>6. n + 1 \in Nat
    OBVIOUS
  <2> HIDE DEF Works
  <2> QED
    BY <2>5, <2>6
<1> HIDE DEF N
<1>6. Cardinality(S) \in N
  BY <1>1, <1>4, <1>5, NumberInduction
<1>7. PICK g : Works(Cardinality(S), g)
  BY <1>6 DEF N
<1>8. Sub(Cardinality(S)) = SUBSET S
  BY FS_Subset, FS_CardinalityType
<1> QED
  BY <1>7, <1>8 DEF Adds

(* The sum is the value of such a function.                                *)
LEMMA SumIsAdder ==
    ASSUME NEW S, IsFiniteSet(S), NEW f
    PROVE  \E g : Adds(f, S, g) /\ SumOver(f, S) = g[S]
<1> DEFINE iter == CHOOSE g : Adds(f, S, g)
<1>1. Adds(f, S, iter)
  BY AdderExists
<1>2. SumOver(f, S) = iter[S]
  BY DEF SumOver, MapThenSumSet, MapThenFoldSet, Adds, Chosen
<1> QED
  BY <1>1, <1>2

(* Two such functions agree on the sets that both are defined for.         *)
LEMMA AddersAgree ==
    ASSUME NEW S, IsFiniteSet(S), NEW T \in SUBSET S, NEW f, NEW g, NEW h,
           Adds(f, S, g), Adds(f, T, h)
    PROVE  \A U \in SUBSET T : g[U] = h[U]
<1> DEFINE P == {U \in SUBSET T : g[U] = h[U]}
<1>1. IsFiniteSet(T)
  BY FS_Subset
<1>2. ASSUME NEW U \in SUBSET T,
             \A V \in SUBSET T : Cardinality(V) < Cardinality(U) => V \in P
      PROVE  U \in P
  <2>1. CASE U = {}
    BY <2>1 DEF Adds
  <2>2. CASE U # {}
    <3> DEFINE V == U \ {Chosen(U)}
    <3>1. V \in SUBSET T /\ Cardinality(V) < Cardinality(U)
      <4>1. IsFiniteSet(U) /\ Chosen(U) \in U
        BY <1>1, <2>2, ChosenOne, FS_Subset
      <4> QED
        BY <4>1, OneLess
    <3>2. g[V] = h[V]
      BY <1>2, <3>1
    <3>3. g[U] = f[Chosen(U)] + g[V] /\ h[U] = f[Chosen(U)] + h[V]
      BY <2>2 DEF Adds
    <3> QED
      BY <3>2, <3>3
  <2> QED
    BY <2>1, <2>2
<1> HIDE DEF P
<1>3. \A U \in SUBSET T : U \in P
  BY <1>1, <1>2, SizeInduction
<1> QED
  BY <1>3 DEF P

(* The sum over no members.                                                *)
LEMMA SumEmpty == \A f : SumOver(f, {}) = 0
<1> SUFFICES ASSUME NEW f PROVE SumOver(f, {}) = 0
  OBVIOUS
<1>1. PICK g : Adds(f, {}, g) /\ SumOver(f, {}) = g[{}]
  BY FS_EmptySet, SumIsAdder
<1> QED
  BY <1>1 DEF Adds

(* The equation of the recursion.                                          *)
LEMMA SumOfChosen ==
    ASSUME NEW S, IsFiniteSet(S), S # {}, NEW f
    PROVE  SumOver(f, S) = f[Chosen(S)] + SumOver(f, S \ {Chosen(S)})
<1> DEFINE T == S \ {Chosen(S)}
<1>1. IsFiniteSet(T)
  BY FS_RemoveElement
<1>2. PICK g : Adds(f, S, g) /\ SumOver(f, S) = g[S]
  BY SumIsAdder
<1>3. PICK h : Adds(f, T, h) /\ SumOver(f, T) = h[T]
  BY <1>1, SumIsAdder
<1>4. g[T] = h[T]
  BY <1>2, <1>3, AddersAgree
<1>5. g[S] = f[Chosen(S)] + g[T]
  BY <1>2 DEF Adds
<1> QED
  BY <1>2, <1>3, <1>4, <1>5

(* A sum of integers is one, and of natural numbers one of those.          *)
LEMMA SumType ==
    ASSUME NEW S, IsFiniteSet(S), NEW f, NEW R \in {Nat, Int}, \A x \in S : f[x] \in R
    PROVE  SumOver(f, S) \in R
<1> DEFINE P == {T \in SUBSET S : SumOver(f, T) \in R}
<1>1. ASSUME NEW T \in SUBSET S,
             \A U \in SUBSET S : Cardinality(U) < Cardinality(T) => U \in P
      PROVE  T \in P
  <2>1. CASE T = {}
    BY <2>1, SumEmpty
  <2>2. CASE T # {}
    <3> DEFINE U == T \ {Chosen(T)}
    <3>1. U \in SUBSET S /\ Cardinality(U) < Cardinality(T)
      BY <2>2, ChosenOne, FS_Subset, OneLess
    <3>2. SumOver(f, U) \in R /\ f[Chosen(T)] \in R
      BY <1>1, <2>2, <3>1, ChosenOne
    <3>3. SumOver(f, T) = f[Chosen(T)] + SumOver(f, U)
      BY <2>2, SumOfChosen, FS_Subset
    <3> QED
      BY <3>2, <3>3
  <2> QED
    BY <2>1, <2>2
<1> HIDE DEF P
<1>2. \A T \in SUBSET S : T \in P
  BY <1>1, SizeInduction
<1> QED
  BY <1>2 DEF P

(* The order of the summands does not matter.                              *)
LEMMA SumOfAny ==
    ASSUME NEW S, IsFiniteSet(S), NEW f, \A x \in S : f[x] \in Int, NEW y \in S
    PROVE  SumOver(f, S) = f[y] + SumOver(f, S \ {y})
<1> DEFINE P == {T \in SUBSET S : \A x \in T : SumOver(f, T) = f[x] + SumOver(f, T \ {x})}
<1>1. ASSUME NEW T \in SUBSET S,
             \A U \in SUBSET S : Cardinality(U) < Cardinality(T) => U \in P
      PROVE  T \in P
  <2> SUFFICES ASSUME NEW x \in T PROVE SumOver(f, T) = f[x] + SumOver(f, T \ {x})
    OBVIOUS
  <2> DEFINE c == Chosen(T)
  <2>1. IsFiniteSet(T) /\ c \in T /\ SumOver(f, T) = f[c] + SumOver(f, T \ {c})
    BY ChosenOne, SumOfChosen, FS_Subset
  <2>2. CASE c = x
    BY <2>1, <2>2
  <2>3. CASE c # x
    <3> HIDE DEF c
    <3> DEFINE B == (T \ {c}) \ {x}
    <3>1. ASSUME NEW z \in T
          PROVE  /\ T \ {z} \in SUBSET S
                 /\ Cardinality(T \ {z}) < Cardinality(T)
                 /\ IsFiniteSet(T \ {z})
      BY <2>1, OneLess
    <3>2. SumOver(f, T \ {c}) = f[x] + SumOver(f, B)
      BY <1>1, <2>1, <2>3, <3>1
    <3>3. SumOver(f, T \ {x}) = f[c] + SumOver(f, B)
      <4>1. (T \ {x}) \ {c} = B /\ c \in T \ {x}
        BY <2>1, <2>3
      <4>2. T \ {x} \in P
        BY <1>1, <3>1
      <4> QED
        BY <4>1, <4>2
    <3>4. SumOver(f, B) \in Int /\ f[x] \in Int /\ f[c] \in Int
      BY <2>1, FS_RemoveElement, SumType
    <3> QED
      BY <2>1, <3>2, <3>3, <3>4
  <2> QED
    BY <2>2, <2>3
<1> HIDE DEF P
<1>2. \A T \in SUBSET S : T \in P
  BY <1>1, SizeInduction
<1> QED
  BY <1>2 DEF P

(* Functions that agree on a set have the same sum over it.                *)
LEMMA SumSame ==
    ASSUME NEW S, IsFiniteSet(S), NEW f, NEW g, \A x \in S : f[x] = g[x]
    PROVE  SumOver(f, S) = SumOver(g, S)
<1> DEFINE P == {T \in SUBSET S : SumOver(f, T) = SumOver(g, T)}
<1>1. ASSUME NEW T \in SUBSET S,
             \A U \in SUBSET S : Cardinality(U) < Cardinality(T) => U \in P
      PROVE  T \in P
  <2>1. CASE T = {}
    BY <2>1, SumEmpty
  <2>2. CASE T # {}
    <3> DEFINE U == T \ {Chosen(T)}
    <3>1. U \in SUBSET S /\ Cardinality(U) < Cardinality(T)
      BY <2>2, ChosenOne, FS_Subset, OneLess
    <3>2. SumOver(f, U) = SumOver(g, U) /\ f[Chosen(T)] = g[Chosen(T)]
      BY <1>1, <2>2, <3>1, ChosenOne
    <3>3. /\ SumOver(f, T) = f[Chosen(T)] + SumOver(f, U)
          /\ SumOver(g, T) = g[Chosen(T)] + SumOver(g, U)
      BY <2>2, SumOfChosen, FS_Subset
    <3> QED
      BY <3>2, <3>3
  <2> QED
    BY <2>1, <2>2
<1> HIDE DEF P
<1>2. \A T \in SUBSET S : T \in P
  BY <1>1, SizeInduction
<1> QED
  BY <1>2 DEF P

(* A sum of zeros.                                                         *)
LEMMA SumZero ==
    ASSUME NEW S, IsFiniteSet(S), NEW f, \A x \in S : f[x] = 0
    PROVE  SumOver(f, S) = 0
<1> DEFINE P == {T \in SUBSET S : SumOver(f, T) = 0}
<1>1. ASSUME NEW T \in SUBSET S,
             \A U \in SUBSET S : Cardinality(U) < Cardinality(T) => U \in P
      PROVE  T \in P
  <2>1. CASE T = {}
    BY <2>1, SumEmpty
  <2>2. CASE T # {}
    <3> DEFINE U == T \ {Chosen(T)}
    <3>1. U \in SUBSET S /\ Cardinality(U) < Cardinality(T)
      BY <2>2, ChosenOne, FS_Subset, OneLess
    <3>2. SumOver(f, U) = 0 /\ f[Chosen(T)] = 0
      BY <1>1, <2>2, <3>1, ChosenOne
    <3>3. SumOver(f, T) = f[Chosen(T)] + SumOver(f, U)
      BY <2>2, SumOfChosen, FS_Subset
    <3> QED
      BY <3>2, <3>3
  <2> QED
    BY <2>1, <2>2
<1> HIDE DEF P
<1>2. \A T \in SUBSET S : T \in P
  BY <1>1, SizeInduction
<1> QED
  BY <1>2 DEF P

(* The sum over a part is no more than the sum over the whole.             *)
LEMMA SumPart ==
    ASSUME NEW S, IsFiniteSet(S), NEW T \in SUBSET S, NEW f, \A x \in S : f[x] \in Nat
    PROVE  SumOver(f, T) <= SumOver(f, S)
<1> DEFINE P == {U \in SUBSET S : SumOver(f, U \cap T) <= SumOver(f, U)}
<1>1. ASSUME NEW U \in SUBSET S,
             \A V \in SUBSET S : Cardinality(V) < Cardinality(U) => V \in P
      PROVE  U \in P
  <2>1. CASE U = {}
    <3>1. U \cap T = {}
      BY <2>1
    <3> QED
      BY <2>1, <3>1, SumEmpty
  <2>2. CASE U # {}
    <3>1. PICK x \in U : TRUE
      BY <2>2
    <3> DEFINE V == U \ {x}
    <3>2. /\ IsFiniteSet(U) /\ IsFiniteSet(V) /\ V \in SUBSET S
          /\ IsFiniteSet(U \cap T) /\ IsFiniteSet(V \cap T) /\ Cardinality(V) < Cardinality(U)
      BY <3>1, FS_Subset, OneLess
    <3>3. SumOver(f, V \cap T) <= SumOver(f, V)
      BY <1>1, <3>2
    <3>4. /\ f[x] \in Nat /\ SumOver(f, V) \in Nat /\ SumOver(f, V \cap T) \in Nat
          /\ \A y \in U : f[y] \in Int
      BY <3>1, <3>2, SumType
    <3>5. SumOver(f, U) = f[x] + SumOver(f, V)
      BY <3>1, <3>2, <3>4, SumOfAny
    <3>6. CASE x \in T
      <4>1. (U \cap T) \ {x} = V \cap T
        OBVIOUS
      <4>2. x \in U \cap T /\ \A y \in U \cap T : f[y] \in Int
        BY <3>1, <3>4, <3>6
      <4>3. SumOver(f, U \cap T) = f[x] + SumOver(f, V \cap T)
        BY <3>2, <4>1, <4>2, SumOfAny
      <4> HIDE DEF V
      <4> QED
        BY <3>3, <3>4, <3>5, <4>3
    <3>7. CASE x \notin T
      <4>1. U \cap T = V \cap T
        BY <3>7
      <4>2. SumOver(f, U \cap T) = SumOver(f, V \cap T)
        BY <4>1
      <4>3. SumOver(f, V) <= SumOver(f, U)
        BY <3>4, <3>5
      <4> QED
        BY <3>2, <3>3, <3>4, <3>5, <4>2, <4>3
    <3> QED
      BY <3>6, <3>7
  <2> QED
    BY <2>1, <2>2
<1>2. \A U \in SUBSET S : U \in P
  <2> HIDE DEF P
  <2> QED
    BY <1>1, SizeInduction
<1>3. S \in P /\ S \cap T = T
  BY <1>2
<1> QED
  BY <1>3

(* What one more element, and what a change at one element, add to a sum.  *)
LEMMA SumAdd ==
    ASSUME NEW S, IsFiniteSet(S), NEW y, y \notin S, NEW f, \A x \in S \cup {y} : f[x] \in Int
    PROVE  SumOver(f, S \cup {y}) = SumOver(f, S) + f[y]
<1>1. IsFiniteSet(S \cup {y}) /\ (S \cup {y}) \ {y} = S
  BY FS_AddElement
<1>2. SumOver(f, S) \in Int
  BY SumType
<1> QED
  BY <1>1, <1>2, SumOfAny

(* A sum after one of its terms has changed.                               *)
LEMMA SumChange ==
    ASSUME NEW S, IsFiniteSet(S), NEW y \in S, NEW f, NEW g,
           \A x \in S : f[x] \in Int, g[y] \in Int,
           \A x \in S \ {y} : g[x] = f[x]
    PROVE  SumOver(g, S) = SumOver(f, S) - f[y] + g[y]
<1> DEFINE T == S \ {y}
<1>1. IsFiniteSet(T)
  BY FS_RemoveElement
<1>2. SumOver(f, T) = SumOver(g, T) /\ SumOver(f, T) \in Int
  BY <1>1, SumSame, SumType
<1>3. SumOver(f, S) = f[y] + SumOver(f, T) /\ SumOver(g, S) = g[y] + SumOver(g, T)
  BY SumOfAny
<1> QED
  BY <1>2, <1>3

-----------------------------------------------------------------------------
(* Fronts and remainders of sequences.                                     *)

(* What is left of a sequence when its first n elements are removed.       *)
LEMMA TailFacts ==
    ASSUME NEW S, NEW s \in Seq(S), NEW n \in 0..Len(s)
    PROVE  LET t == SubSeq(s, n + 1, Len(s)) IN
           /\ t \in Seq(S)
           /\ Len(t) = Len(s) - n
           /\ \A i \in 1..Len(t) : t[i] = s[n + i]
<1> DEFINE t == SubSeq(s, n + 1, Len(s))
<1>1. Len(s) \in Nat
  BY LenProperties
<1>2. \A i \in (n + 1)..Len(s) : s[i] \in S
  BY <1>1, ElementOfSeq
<1>3. /\ t \in Seq(S)
      /\ Len(t) = IF n + 1 <= Len(s) THEN Len(s) - (n + 1) + 1 ELSE 0
      /\ \A i \in 1..(Len(s) - (n + 1) + 1) : t[i] = s[(n + 1) + i - 1]
  BY <1>1, <1>2, SubSeqProperties
<1>4. Len(t) = Len(s) - n
  BY <1>1, <1>3
<1>5. ASSUME NEW i \in 1..Len(t)
      PROVE  t[i] = s[n + i]
  BY <1>1, <1>3, <1>4, <1>5
<1> QED
  BY <1>3, <1>4, <1>5

(* The first n elements of a sequence.                                     *)
LEMMA FrontFacts ==
    ASSUME NEW S, NEW s \in Seq(S), NEW n \in 0..Len(s)
    PROVE  LET t == SubSeq(s, 1, n) IN
           /\ t \in Seq(S)
           /\ Len(t) = n
           /\ \A i \in 1..n : t[i] = s[i]
<1> DEFINE t == SubSeq(s, 1, n)
<1>1. Len(s) \in Nat
  BY LenProperties
<1>2. \A i \in 1..n : s[i] \in S
  BY <1>1, ElementOfSeq
<1>3. /\ t \in Seq(S)
      /\ Len(t) = IF 1 <= n THEN n - 1 + 1 ELSE 0
      /\ \A i \in 1..(n - 1 + 1) : t[i] = s[1 + i - 1]
  BY <1>1, <1>2, SubSeqProperties
<1> QED
  BY <1>1, <1>3

(* A sequence is a front of itself.                                        *)
LEMMA WholeSubSeq ==
    ASSUME NEW S, NEW s \in Seq(S)
    PROVE  s = SubSeq(s, 1, Len(s))
<1>1. Len(s) \in Nat
  BY LenProperties
<1>2. Len(s) \in 0..Len(s)
  BY <1>1
<1>3. /\ SubSeq(s, 1, Len(s)) \in Seq(S)
      /\ Len(SubSeq(s, 1, Len(s))) = Len(s)
      /\ \A i \in 1..Len(s) : SubSeq(s, 1, Len(s))[i] = s[i]
  BY <1>2, FrontFacts
<1> QED
  BY <1>3, SeqEqual

-----------------------------------------------------------------------------
(* How many of the values of a function, or of a sequence, are in R.       *)
CountIn(f, R) == Cardinality({x \in DOMAIN f : f[x] \in R})

(* How many members of a finite function or sequence are in R.             *)
LEMMA CountFacts ==
    ASSUME NEW f, IsFiniteSet(DOMAIN f), NEW R
    PROVE  /\ IsFiniteSet({x \in DOMAIN f : f[x] \in R})
           /\ CountIn(f, R) \in Nat /\ CountIn(f, R) <= Cardinality(DOMAIN f)
           /\ CountIn(f, R) = 0 <=> \A x \in DOMAIN f : f[x] \notin R
<1> DEFINE X == {x \in DOMAIN f : f[x] \in R}
<1>1. IsFiniteSet(X) /\ Cardinality(X) \in Nat /\ Cardinality(X) <= Cardinality(DOMAIN f)
  BY FS_Subset, FS_CardinalityType
<1>2. Cardinality(X) = 0 <=> X = {}
  BY <1>1, FS_EmptySet
<1> QED
  BY <1>1, <1>2 DEF CountIn

(* A function that changes at one place.                                   *)
LEMMA CountChange ==
    ASSUME NEW f, IsFiniteSet(DOMAIN f), NEW y \in DOMAIN f, NEW v, NEW R
    PROVE  CountIn([f EXCEPT ![y] = v], R)
              = CountIn(f, R) - (IF f[y] \in R THEN 1 ELSE 0) + (IF v \in R THEN 1 ELSE 0)
<1> DEFINE g == [f EXCEPT ![y] = v]
           X == {x \in DOMAIN f : f[x] \in R}
           Y == {x \in DOMAIN g : g[x] \in R}
           Z == {x \in DOMAIN f \ {y} : f[x] \in R}
<1>1. IsFiniteSet(Z) /\ y \notin Z /\ Cardinality(Z) \in Nat
  <2>1. Z \subseteq DOMAIN f
    OBVIOUS
  <2> QED
    BY <2>1, FS_Subset, FS_CardinalityType
<1>2. Cardinality(Z \cup {y}) = Cardinality(Z) + 1
  BY <1>1, FS_AddElement
<1>3. X = IF f[y] \in R THEN Z \cup {y} ELSE Z
  OBVIOUS
<1>4. Y = IF v \in R THEN Z \cup {y} ELSE Z
  OBVIOUS
<1>5. Cardinality(X) = Cardinality(Z) + (IF f[y] \in R THEN 1 ELSE 0)
  BY <1>1, <1>2, <1>3
<1>6. Cardinality(Y) = Cardinality(Z) + (IF v \in R THEN 1 ELSE 0)
  BY <1>1, <1>2, <1>4
<1> QED
  BY <1>1, <1>5, <1>6 DEF CountIn

(* A sequence with one more element.                                       *)
LEMMA CountAppend ==
    ASSUME NEW S, NEW s \in Seq(S), NEW e \in S, NEW R
    PROVE  /\ CountIn(s, R) \in Nat
           /\ CountIn(Append(s, e), R) = CountIn(s, R) + (IF e \in R THEN 1 ELSE 0)
<1> DEFINE z == Append(s, e)  n == Len(s) + 1
           X == {x \in DOMAIN s : s[x] \in R}
           Y == {x \in DOMAIN z : z[x] \in R}
<1>1. /\ Len(s) \in Nat /\ DOMAIN s = 1..Len(s) /\ z \in Seq(S) /\ Len(z) = n
      /\ \A i \in 1..Len(s) : z[i] = s[i]
      /\ z[n] = e
  BY AppendProperties, LenProperties
<1>2. DOMAIN z = 1..n
  BY <1>1, LenProperties
<1> HIDE DEF z
<1>3. IsFiniteSet(X) /\ Cardinality(X) \in Nat /\ n \notin X
  <2>1. X \subseteq 1..Len(s) /\ IsFiniteSet(1..Len(s))
    BY <1>1, FS_Interval
  <2> QED
    BY <1>1, <2>1, FS_Subset, FS_CardinalityType
<1>4. \A i : i \in DOMAIN z <=> i \in DOMAIN s \/ i = n
  BY <1>1, <1>2
<1>5. n \notin DOMAIN s /\ \A i \in DOMAIN s : z[i] = s[i]
  BY <1>1
<1> HIDE DEF n
<1>6. Y = IF e \in R THEN X \cup {n} ELSE X
  BY <1>1, <1>4, <1>5
<1>7. Cardinality(X \cup {n}) = Cardinality(X) + 1
  BY <1>3, FS_AddElement
<1>8. Cardinality(Y) = Cardinality(X) + (IF e \in R THEN 1 ELSE 0)
  <2> HIDE DEF X, Y
  <2> QED
    BY <1>3, <1>6, <1>7
<1> QED
  BY <1>3, <1>8 DEF CountIn, z

(* A sequence without its first elements.                                  *)
LEMMA CountTail ==
    ASSUME NEW S, NEW s \in Seq(S), NEW n \in 0..Len(s), NEW R
    PROVE  /\ CountIn(SubSeq(s, n + 1, Len(s)), R) \in Nat
           /\ CountIn(SubSeq(s, n + 1, Len(s)), R) <= CountIn(s, R)
<1> DEFINE z == SubSeq(s, n + 1, Len(s))
           X == {x \in DOMAIN s : s[x] \in R}
           Y == {x \in DOMAIN z : z[x] \in R}
           shift == [y \in Y |-> n + y]
<1>1. /\ z \in Seq(S) /\ Len(z) = Len(s) - n /\ \A i \in 1..Len(z) : z[i] = s[n + i]
      /\ Len(s) \in Nat /\ DOMAIN s = 1..Len(s)
  BY TailFacts, LenProperties
<1>2. DOMAIN z = 1..Len(z)
  BY <1>1, LenProperties
<1> HIDE DEF z
<1>3. IsFiniteSet(X) /\ Cardinality(X) \in Nat
  <2>1. X \subseteq 1..Len(s) /\ IsFiniteSet(1..Len(s))
    BY <1>1, FS_Interval
  <2> QED
    BY <2>1, FS_Subset, FS_CardinalityType
<1>4. \A y \in Y : n + y \in X
  BY <1>1, <1>2
<1>5. \A y \in Y : y \in Nat
  BY <1>1, <1>2
<1>6. shift \in Injection(Y, X)
  <2>1. shift \in [Y -> X]
    BY <1>4
  <2>2. \A a, b \in Y : shift[a] = shift[b] => a = b
    BY <1>5
  <2> QED
    BY <2>1, <2>2 DEF Injection, IsInjective
<1> HIDE DEF shift
<1>7. IsFiniteSet(Y) /\ Cardinality(Y) <= Cardinality(X)
  BY <1>3, <1>6, FS_Injection
<1> QED
  BY <1>7, FS_CardinalityType DEF CountIn, z
=============================================================================
