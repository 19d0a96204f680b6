------------------------ MODULE ClaimCapacityProofs ------------------------
(***************************************************************************)
(* The claims that have a card: what the driver makes of them is within    *)
(* the card, for every number of claims and all requests. The sums are     *)
(* those of the community module, on which the lemmas come first.          *)
(***************************************************************************)
EXTENDS ClaimDataProofs

-----------------------------------------------------------------------------
(* Sums over finite sets                                                   *)

(* A set of numbers that has 0 and with each number the next has them all. *)
LEMMA NatSet ==
    ASSUME NEW B, 0 \in B, \A n \in Nat : n \in B => n + 1 \in B
    PROVE  \A n \in Nat : n \in B
  <1> DEFINE R == {ss \in Nat \X Nat : ss[1] < ss[2]}
             T == Nat \ B
  <1>0. IsWellFoundedOn(R, Nat)
    BY NatLessThanWellFounded DEF OpToRel
  <1>1. \A j \in Nat, k \in Nat : j < k => <<j, k>> \in R
    <2> SUFFICES ASSUME NEW j \in Nat, NEW k \in Nat, j < k PROVE <<j, k>> \in R
      OBVIOUS
    <2>1. <<j, k>> \in Nat \X Nat
      OBVIOUS
    <2>2. <<j, k>>[1] < <<j, k>>[2]
      OBVIOUS
    <2> QED
      BY <2>1, <2>2, Zenon DEF R
  <1> HIDE DEF R
  <1>2. SUFFICES ASSUME T # {} PROVE FALSE
    BY <1>2
  <1>3. T \subseteq Nat
    OBVIOUS
  <1> HIDE DEF T
  <1>4. PICK n \in T : \A m \in T : ~(<<m, n>> \in R)
    BY <1>0, <1>2, <1>3, WFMin
  <1>5. n \in Nat /\ n \notin B /\ n # 0
    BY <1>4 DEF T
  <1>6. n - 1 \in Nat /\ n - 1 < n /\ (n - 1) + 1 = n
    BY <1>5
  <1>7. n - 1 \notin T
    BY <1>1, <1>4, <1>5, <1>6, Zenon
  <1>8. n - 1 \in B
    BY <1>6, <1>7 DEF T
  <1> QED
    BY <1>5, <1>6, <1>8

(* The function that the sum over S is defined by.                         *)
Step(f, T, g) ==
    IF T = {} THEN 0 ELSE f[CHOOSE x \in T : TRUE] + g[T \ {CHOOSE x \in T : TRUE}]

LEMMA SumIs ==
    ASSUME NEW f, NEW S
    PROVE  SumFunctionOnSet(f, S) = (CHOOSE g : g = [T \in SUBSET S |-> Step(f, T, g)])[S]
  BY DEF SumFunctionOnSet, FoldFunctionOnSet, MapThenFoldSet, Step

(* A family of subsets that has a set whenever it has those with one       *)
(* element less has them all.                                              *)
LEMMA SetInduct ==
    ASSUME NEW S, IsFiniteSet(S), NEW F,
           \A T \in SUBSET S : (\A x \in T : T \ {x} \in F) => T \in F
    PROVE  \A T \in SUBSET S : T \in F
  <1> DEFINE B == {n \in Nat : \A T \in SUBSET S : Cardinality(T) = n => T \in F}
  <1>1. \A T \in SUBSET S : IsFiniteSet(T) /\ Cardinality(T) \in Nat
    BY FS_Subset, FS_CardinalityType
  <1>2. 0 \in B
    BY <1>1, FS_EmptySet
  <1>3. ASSUME NEW n \in Nat, n \in B PROVE n + 1 \in B
    <2> SUFFICES ASSUME NEW T \in SUBSET S, Cardinality(T) = n + 1 PROVE T \in F
      OBVIOUS
    <2>1. ASSUME NEW x \in T PROVE T \ {x} \in F
      <3>1. Cardinality(T \ {x}) = n
        BY <1>1, <2>1, FS_RemoveElement
      <3> QED
        BY <1>3, <3>1
    <2> QED
      BY <2>1
  <1> HIDE DEF B
  <1>4. \A n \in Nat : n \in B
    BY <1>2, <1>3, NatSet
  <1> QED
    BY <1>1, <1>4 DEF B

LEMMA SumExists ==
    ASSUME NEW f, NEW S, IsFiniteSet(S)
    PROVE  \E g : g = [T \in SUBSET S |-> Step(f, T, g)]
  <1> DEFINE Low(n) == {T \in SUBSET S : Cardinality(T) <= n}
             B == {n \in Nat : \E g : g = [T \in Low(n) |-> Step(f, T, g)]}
  <1>1. \A T \in SUBSET S : /\ IsFiniteSet(T) /\ Cardinality(T) \in Nat
                            /\ Cardinality(T) <= Cardinality(S)
    BY FS_Subset, FS_CardinalityType
  <1>2. 0 \in B
    <2> DEFINE g == [T \in Low(0) |-> 0]
    <2>1. \A T \in Low(0) : T = {}
      BY <1>1, FS_EmptySet
    <2>2. \A T \in Low(0) : Step(f, T, g) = 0
      BY <2>1 DEF Step
    <2>3. g = [T \in Low(0) |-> Step(f, T, g)]
      BY <2>2
    <2> QED
      BY <2>3
  <1>3. ASSUME NEW n \in Nat, n \in B PROVE n + 1 \in B
    <2>1. PICK g : g = [T \in Low(n) |-> Step(f, T, g)]
      BY <1>3
    <2> DEFINE h == [T \in Low(n + 1) |-> Step(f, T, g)]
    <2>2. \A T \in Low(n) : T \in Low(n + 1) /\ g[T] = h[T]
      <3> SUFFICES ASSUME NEW T \in Low(n) PROVE T \in Low(n + 1) /\ g[T] = h[T]
        OBVIOUS
      <3>1. T \in Low(n + 1)
        BY <1>1
      <3>2. g[T] = Step(f, T, g)
        BY <2>1, Zenon
      <3> QED
        BY <3>1, <3>2, Zenon
    <2>3. \A T \in Low(n + 1) : \A x \in T : T \ {x} \in Low(n)
      <3> SUFFICES ASSUME NEW T \in Low(n + 1), NEW x \in T PROVE T \ {x} \in Low(n)
        OBVIOUS
      <3>1. IsFiniteSet(T) /\ Cardinality(T) \in Nat /\ Cardinality(T) <= n + 1
        BY <1>1
      <3>2. Cardinality(T \ {x}) = Cardinality(T) - 1
        BY <3>1, FS_RemoveElement
      <3>3. T \ {x} \in SUBSET S
        OBVIOUS
      <3> QED
        BY <3>1, <3>2, <3>3
    <2> HIDE DEF h, Low
    <2>4. \A T \in Low(n + 1) : Step(f, T, g) = Step(f, T, h)
      <3> SUFFICES ASSUME NEW T \in Low(n + 1), T # {} PROVE Step(f, T, g) = Step(f, T, h)
        BY Zenon DEF Step
      <3> DEFINE x == CHOOSE y \in T : TRUE
      <3>1. x \in T
        OBVIOUS
      <3> HIDE DEF x
      <3>2. g[T \ {x}] = h[T \ {x}]
        BY <2>2, <2>3, <3>1, Zenon
      <3> QED
        BY <3>2, Zenon DEF Step, x
    <2>5. h = [T \in Low(n + 1) |-> Step(f, T, h)]
      BY <2>4, Zenon DEF h
    <2> QED
      BY <2>5
  <1>4. \A n \in Nat : n \in B
    <2> HIDE DEF B
    <2> QED
      BY <1>2, <1>3, NatSet
  <1>5. Low(Cardinality(S)) = SUBSET S
    BY <1>1
  <1>6. Cardinality(S) \in Nat
    BY FS_CardinalityType
  <1>7. \E g : g = [T \in Low(Cardinality(S)) |-> Step(f, T, g)]
    BY <1>4, <1>6, Zenon
  <1> HIDE DEF Low
  <1> QED
    BY <1>5, <1>7, Zenon

(* The sum takes one element after the other.                              *)
LEMMA SumStep ==
    ASSUME NEW f, NEW S, IsFiniteSet(S)
    PROVE  SumFunctionOnSet(f, S) =
             IF S = {} THEN 0
             ELSE f[CHOOSE x \in S : TRUE]
                    + SumFunctionOnSet(f, S \ {CHOOSE x \in S : TRUE})
  <1> DEFINE Rec(g, U) == g = [T \in SUBSET U |-> Step(f, T, g)]
             G(U) == CHOOSE g : Rec(g, U)
             x == CHOOSE y \in S : TRUE
             U == S \ {x}
  <1>1. \A V : SumFunctionOnSet(f, V) = G(V)[V]
    BY SumIs
  <1>2. IsFiniteSet(U)
    BY FS_RemoveElement
  <1>3. Rec(G(S), S)
    <2>1. \E g : Rec(g, S)
      BY SumExists
    <2> QED
      BY <2>1, Zenon
  <1>4. Rec(G(U), U)
    <2>1. \E g : Rec(g, U)
      <3> HIDE DEF U
      <3> QED
        BY <1>2, SumExists, Zenon
    <2> QED
      BY <2>1, Zenon
  <1> HIDE DEF G
  <1>5. \A T \in SUBSET S : G(S)[T] = Step(f, T, G(S))
    BY <1>3, Zenon
  <1>6. \A T \in SUBSET U : G(U)[T] = Step(f, T, G(U))
    BY <1>4, Zenon
  <1>7. G(S)[U] = G(U)[U]
    <2> DEFINE F == {T \in SUBSET U : G(S)[T] = G(U)[T]}
    <2>1. ASSUME NEW T \in SUBSET U, \A y \in T : T \ {y} \in F PROVE T \in F
      <3>1. T \in SUBSET S
        OBVIOUS
      <3>2. T # {} => G(S)[T \ {CHOOSE y \in T : TRUE}] = G(U)[T \ {CHOOSE y \in T : TRUE}]
        BY <2>1
      <3>3. Step(f, T, G(S)) = Step(f, T, G(U))
        BY <3>2, Zenon DEF Step
      <3> QED
        BY <1>5, <1>6, <3>1, <3>3, Zenon
    <2>2. \A T \in SUBSET U : T \in F
      <3> HIDE DEF F, U
      <3> QED
        BY <1>2, <2>1, SetInduct
    <2> QED
      BY <2>2
  <1>8. S \in SUBSET S
    OBVIOUS
  <1> HIDE DEF U
  <1>9. G(S)[S] = IF S = {} THEN 0 ELSE f[x] + G(S)[U]
    BY <1>5, <1>8, Zenon DEF Step, U
  <1> QED
    BY <1>1, <1>7, <1>9, Zenon DEF U

LEMMA SumEmpty == \A f : SumFunctionOnSet(f, {}) = 0
  BY SumStep, FS_EmptySet

(* The function counts on the set only.                                    *)
LEMMA SumSame ==
    ASSUME NEW S, IsFiniteSet(S), NEW f, NEW g, \A x \in S : f[x] = g[x]
    PROVE  SumFunctionOnSet(f, S) = SumFunctionOnSet(g, S)
  <1> DEFINE F == {T \in SUBSET S : SumFunctionOnSet(f, T) = SumFunctionOnSet(g, T)}
  <1>1. ASSUME NEW T \in SUBSET S, \A x \in T : T \ {x} \in F PROVE T \in F
    <2>1. IsFiniteSet(T)
      BY FS_Subset
    <2>2. CASE T = {}
      BY <2>2, SumEmpty
    <2>3. CASE T # {}
      <3> DEFINE x == CHOOSE y \in T : TRUE
      <3>1. x \in T
        BY <2>3
      <3>2. /\ SumFunctionOnSet(f, T) = f[x] + SumFunctionOnSet(f, T \ {x})
            /\ SumFunctionOnSet(g, T) = g[x] + SumFunctionOnSet(g, T \ {x})
        BY <2>1, <2>3, SumStep, Zenon
      <3> HIDE DEF x
      <3>3. SumFunctionOnSet(f, T \ {x}) = SumFunctionOnSet(g, T \ {x}) /\ f[x] = g[x]
        BY <1>1, <3>1
      <3> QED
        BY <3>2, <3>3, Zenon
    <2> QED
      BY <2>2, <2>3
  <1>2. \A T \in SUBSET S : T \in F
    <2> HIDE DEF F
    <2> QED
      BY <1>1, SetInduct
  <1> QED
    BY <1>2

LEMMA SumType ==
    ASSUME NEW S, IsFiniteSet(S), NEW f, \A x \in S : f[x] \in Nat
    PROVE  SumFunctionOnSet(f, S) \in Nat
  <1> DEFINE F == {T \in SUBSET S : SumFunctionOnSet(f, T) \in Nat}
  <1>1. ASSUME NEW T \in SUBSET S, \A x \in T : T \ {x} \in F PROVE T \in F
    <2>1. IsFiniteSet(T)
      BY FS_Subset
    <2>2. CASE T = {}
      BY <2>2, SumEmpty
    <2>3. CASE T # {}
      <3> DEFINE x == CHOOSE y \in T : TRUE
      <3>1. x \in T
        BY <2>3
      <3>2. SumFunctionOnSet(f, T) = f[x] + SumFunctionOnSet(f, T \ {x})
        BY <2>1, <2>3, SumStep, Zenon
      <3> HIDE DEF x
      <3>3. SumFunctionOnSet(f, T \ {x}) \in Nat /\ f[x] \in Nat
        BY <1>1, <3>1
      <3> QED
        BY <3>2, <3>3
    <2> QED
      BY <2>2, <2>3
  <1>2. \A T \in SUBSET S : T \in F
    <2> HIDE DEF F
    <2> QED
      BY <1>1, SetInduct
  <1> QED
    BY <1>2

(* Any element may be taken first.                                         *)
LEMMA SumTake ==
    ASSUME NEW S, IsFiniteSet(S), NEW f, \A x \in S : f[x] \in Nat
    PROVE  \A x \in S : /\ SumFunctionOnSet(f, S \ {x}) \in Nat
                        /\ SumFunctionOnSet(f, S) = f[x] + SumFunctionOnSet(f, S \ {x})
  <1> DEFINE Sum(T) == SumFunctionOnSet(f, T)
             F == {T \in SUBSET S : \A x \in T : Sum(T) = f[x] + Sum(T \ {x})}
  <1>1. \A T \in SUBSET S : IsFiniteSet(T) /\ Sum(T) \in Nat
    BY FS_Subset, SumType
  <1>2. ASSUME NEW T \in SUBSET S, \A x \in T : T \ {x} \in F PROVE T \in F
    <2> SUFFICES ASSUME NEW x \in T PROVE Sum(T) = f[x] + Sum(T \ {x})
      OBVIOUS
    <2> DEFINE c == CHOOSE y \in T : TRUE
    <2>1. c \in T
      OBVIOUS
    <2>2. IsFiniteSet(T)
      BY <1>1
    <2>3. Sum(T) = f[c] + Sum(T \ {c})
      BY <2>2, SumStep, Zenon
    <2> HIDE DEF c
    <2>4. CASE x # c
      <3>1. Sum(T \ {c}) = f[x] + Sum((T \ {c}) \ {x})
        BY <1>2, <2>1, <2>4
      <3>2. Sum(T \ {x}) = f[c] + Sum((T \ {x}) \ {c})
        BY <1>2, <2>1, <2>4
      <3>3. (T \ {c}) \ {x} = (T \ {x}) \ {c}
        OBVIOUS
      <3>4. /\ Sum(T) \in Nat /\ Sum(T \ {c}) \in Nat /\ Sum(T \ {x}) \in Nat
            /\ Sum((T \ {x}) \ {c}) \in Nat /\ f[x] \in Nat /\ f[c] \in Nat
        BY <1>1, <2>1
      <3> HIDE DEF Sum
      <3> QED
        BY <2>3, <3>1, <3>2, <3>3, <3>4
    <2> QED
      BY <2>3, <2>4
  <1>3. \A T \in SUBSET S : T \in F
    <2> HIDE DEF F
    <2> QED
      BY <1>2, SetInduct
  <1> QED
    BY <1>1, <1>3

(* A part of the set has no larger sum.                                    *)
LEMMA SumPart ==
    ASSUME NEW S, IsFiniteSet(S), NEW f, \A x \in S : f[x] \in Nat, NEW V \in SUBSET S
    PROVE  SumFunctionOnSet(f, V) <= SumFunctionOnSet(f, S)
  <1> DEFINE Sum(T) == SumFunctionOnSet(f, T)
             F == {T \in SUBSET S : \A U \in SUBSET T : Sum(U) <= Sum(T)}
  <1>1. \A T \in SUBSET S : IsFiniteSet(T) /\ Sum(T) \in Nat
    BY FS_Subset, SumType
  <1>2. ASSUME NEW T \in SUBSET S, \A x \in T : T \ {x} \in F PROVE T \in F
    <2> SUFFICES ASSUME NEW U \in SUBSET T PROVE Sum(U) <= Sum(T)
      OBVIOUS
    <2>1. Sum(T) \in Nat /\ Sum(U) \in Nat
      BY <1>1
    <2>2. CASE U = T
      BY <2>1, <2>2
    <2>3. CASE U # T
      <3>1. PICK x \in T : x \notin U
        BY <2>3
      <3>2. Sum(U) <= Sum(T \ {x})
        BY <1>2, <3>1
      <3>3. f[x] \in Nat /\ Sum(T \ {x}) \in Nat /\ Sum(T) = f[x] + Sum(T \ {x})
        BY <1>1, SumTake
      <3> HIDE DEF Sum
      <3> QED
        BY <2>1, <3>2, <3>3
    <2> QED
      BY <2>2, <2>3
  <1>3. \A T \in SUBSET S : T \in F
    <2> HIDE DEF F
    <2> QED
      BY <1>2, SetInduct
  <1> QED
    BY <1>3

LEMMA Distribute ==
    ASSUME NEW a \in Nat, NEW b \in Nat, NEW k \in Nat
    PROVE  (a + b) * k = a * k + b * k /\ a * k \in Nat
  OBVIOUS

(* What holds of each element, but for one unit on some, holds of the sum, *)
(* but for as many units.                                                  *)
LEMMA SumBound ==
    ASSUME NEW S, IsFiniteSet(S), NEW f, NEW g, \A x \in S : f[x] \in Nat /\ g[x] \in Nat,
           NEW Z \in SUBSET S, NEW k \in Nat,
           \A x \in S : f[x] * k <= g[x] + (IF x \in Z THEN k ELSE 0)
    PROVE  SumFunctionOnSet(f, S) * k <= SumFunctionOnSet(g, S) + Cardinality(Z) * k
  <1> DEFINE Sum(h, T) == SumFunctionOnSet(h, T)
             Free(T) == Cardinality(Z \cap T)
             F == {T \in SUBSET S : Sum(f, T) * k <= Sum(g, T) + Free(T) * k}
  <1>1. \A T \in SUBSET S : /\ IsFiniteSet(T) /\ Sum(f, T) \in Nat /\ Sum(g, T) \in Nat
                            /\ IsFiniteSet(Z \cap T) /\ Free(T) \in Nat
    <2> SUFFICES ASSUME NEW T \in SUBSET S
                 PROVE  /\ IsFiniteSet(T) /\ Sum(f, T) \in Nat /\ Sum(g, T) \in Nat
                        /\ IsFiniteSet(Z \cap T) /\ Free(T) \in Nat
      OBVIOUS
    <2>1. IsFiniteSet(T) /\ IsFiniteSet(Z \cap T)
      BY FS_Subset
    <2> QED
      BY <2>1, SumType, FS_CardinalityType
  <1>2. ASSUME NEW T \in SUBSET S, \A x \in T : T \ {x} \in F PROVE T \in F
    <2>1. CASE T = {}
      <3>1. Sum(f, T) = 0 /\ Sum(g, T) = 0 /\ Free(T) \in Nat
        BY <1>1, <2>1, SumEmpty
      <3> HIDE DEF Sum, Free
      <3> QED
        BY <3>1
    <2>2. CASE T # {}
      <3>1. PICK x \in T : TRUE
        BY <2>2
      <3> DEFINE U == T \ {x}
                 one == IF x \in Z THEN 1 ELSE 0
      <3>2. /\ Sum(f, T) = f[x] + Sum(f, U) /\ f[x] \in Nat /\ Sum(f, U) \in Nat
            /\ Sum(g, T) = g[x] + Sum(g, U) /\ g[x] \in Nat /\ Sum(g, U) \in Nat
        BY <1>1, SumTake
      <3>3. Sum(f, U) * k <= Sum(g, U) + Free(U) * k
        BY <1>2
      <3>4. Free(T) = one + Free(U) /\ Free(U) \in Nat /\ one \in Nat
        <4>1. Z \cap U = (Z \cap T) \ {x}
          OBVIOUS
        <4>2. Free(U) = IF x \in Z THEN Free(T) - 1 ELSE Free(T)
          BY <1>1, <4>1, FS_RemoveElement
        <4>3. Free(U) \in Nat /\ Free(T) \in Nat
          BY <1>1
        <4> HIDE DEF Free, U
        <4> QED
          BY <4>2, <4>3
      <3>5. f[x] * k <= g[x] + one * k
        BY <3>2
      <3> HIDE DEF Sum, Free, U, one
      <3>6. /\ Sum(f, T) * k = f[x] * k + Sum(f, U) * k
            /\ f[x] * k \in Nat /\ Sum(f, U) * k \in Nat
        BY <3>2, Distribute
      <3>7. /\ Free(T) * k = one * k + Free(U) * k
            /\ one * k \in Nat /\ Free(U) * k \in Nat
        BY <3>4, Distribute
      <3>8. Sum(f, T) * k <= Sum(g, T) + Free(T) * k
        <4> DEFINE a == f[x] * k
                   b == Sum(f, U) * k
                   c == one * k
                   d == Free(U) * k
        <4>1. a \in Nat /\ b \in Nat /\ c \in Nat /\ d \in Nat
          BY <3>6, <3>7
        <4>2. a <= g[x] + c /\ b <= Sum(g, U) + d
          BY <3>3, <3>5
        <4>3. Sum(f, T) * k = a + b /\ Free(T) * k = c + d
          BY <3>6, <3>7
        <4> HIDE DEF a, b, c, d
        <4> QED
          BY <3>2, <4>1, <4>2, <4>3
      <3> QED
        BY <3>8
    <2> QED
      BY <2>1, <2>2
  <1>3. \A T \in SUBSET S : T \in F
    <2> HIDE DEF F
    <2> QED
      BY <1>2, SetInduct
  <1>4. Z \cap S = Z
    OBVIOUS
  <1> QED
    BY <1>3, <1>4

-----------------------------------------------------------------------------
(* One claim                                                               *)

LEMMA AccountedLemma ==
    ASSUME NEW a \in Ask
    PROVE  /\ Accounted(a).cores = (IF a.cores = Unset THEN ComputeUnits ELSE Value(a.cores))
           /\ Accounted(a).memory = (IF a.memory = Unset THEN MemoryBytes
                                     ELSE RoundUp(a.memory, MiB))
           /\ \A k \in Capacities : Accounted(a)[k] \in Nat
  <1>1. a.cores \in Nat \/ a.cores = Unset
    BY DEF Ask, Quantity
  <1>2. a.memory \in Nat \/ a.memory = Unset
    BY DEF Ask, Quantity
  <1>3. /\ Accounted(a).cores = (IF a.cores = Unset THEN ComputeUnits ELSE Value(a.cores))
        /\ Accounted(a).cores \in Nat
    <2>1. CASE a.cores = Unset
      BY <2>1, CapacityAssumption DEF Accounted, Consumed, GetDevice, Policy
    <2>2. CASE a.cores \in Nat
      <3>1. a.cores # Unset /\ Value(a.cores) \in Nat /\ Value(a.cores) # Unset
        BY <2>2, CoresLemma DEF Unset
      <3>2. Accounted(a).cores = 0 + RoundUp(Value(a.cores) - 0, 1)
        BY <3>1 DEF Accounted, Consumed, GetDevice, Policy
      <3> QED
        BY <2>2, <3>1, <3>2, CoresLemma
    <2> QED
      BY <1>1, <2>1, <2>2
  <1>4. /\ Accounted(a).memory = (IF a.memory = Unset THEN MemoryBytes
                                  ELSE RoundUp(a.memory, MiB))
        /\ Accounted(a).memory \in Nat
    <2>1. CASE a.memory = Unset
      BY <2>1, CapacityAssumption DEF Accounted, Consumed, GetDevice, Policy
    <2>2. CASE a.memory \in Nat
      <3>1. a.memory # Unset /\ ~(a.memory < 0)
        BY <2>2 DEF Unset
      <3>2. Accounted(a).memory = 0 + RoundUp(a.memory - 0, MiB)
        BY <3>1 DEF Accounted, Consumed, GetDevice, Policy
      <3>3. RoundUp(a.memory, MiB) \in Nat /\ a.memory - 0 = a.memory
        BY <2>2 DEF RoundUp, MiB
      <3> QED
        BY <3>1, <3>2, <3>3
    <2> QED
      BY <1>2, <2>1, <2>2
  <1>5. Accounted(a).slices = 1
    BY DEF Accounted, Consumed, GetDevice, Policy
  <1>6. ASSUME NEW k \in Capacities PROVE Accounted(a)[k] \in Nat
    BY <1>3, <1>4, <1>5 DEF Capacities
  <1> QED
    BY <1>3, <1>4, <1>6

(* What the driver makes of a claim is what the scheduler charges at most, *)
(* but for the one core and the one MiB of a claim that is charged none.   *)
LEMMA GotLemma ==
    ASSUME NEW a \in Ask
    PROVE  LET got == requestCapacityFor(a)  paid == Accounted(a) IN
           /\ got.cores * 1 <= paid.cores + (IF paid.cores = 0 THEN 1 ELSE 0)
           /\ got.memMiB * MiB <= paid.memory + (IF paid.memory = 0 THEN MiB ELSE 0)
  <1> DEFINE got == requestCapacityFor(a)
             paid == Accounted(a)
  <1>1. got \in [whole : BOOLEAN, cores : Nat \ {0}, memMiB : Nat \ {0}]
    BY RequestType
  <1>2. paid.cores \in Nat /\ paid.memory \in Nat
    BY AccountedLemma DEF Capacities
  <1>3. CASE a.cores = Unset /\ a.memory = Unset
    <2>1. got.cores = ComputeUnits /\ got.memMiB = MemoryBytes \div MiB
      BY <1>3 DEF requestCapacityFor, WholeCard
    <2>2. paid.cores = ComputeUnits /\ paid.memory = MemoryBytes
      BY <1>3, AccountedLemma
    <2>3. (MemoryBytes \div MiB) * MiB = MemoryBytes
      BY CapacityAssumption DEF MiB
    <2> QED
      BY <2>1, <2>2, <2>3, CapacityAssumption DEF MiB
  <1>4. CASE ~(a.cores = Unset /\ a.memory = Unset)
    <2>1. ~got.whole
      BY <1>4 DEF requestCapacityFor
    <2>2. /\ got.cores = paid.cores \/ (got.cores = 1 /\ paid.cores = 0)
          /\ got.memMiB * MiB <= paid.memory \/ got.memMiB = 1
      BY <2>1, WorthLemma
    <2>3. paid.memory = 0 \/ MiB <= paid.memory
      <3>1. CASE a.memory = Unset
        BY <3>1, AccountedLemma, CapacityAssumption DEF MiB
      <3>2. CASE a.memory # Unset
        <4>1. a.memory \in Nat
          BY <3>2 DEF Ask, Quantity
        <4> QED
          BY <3>2, <4>1, AccountedLemma DEF RoundUp, MiB
      <3> QED
        BY <3>1, <3>2
    <2> HIDE DEF got, paid
    <2>4. MiB \in Nat /\ got.cores \in Nat /\ got.memMiB \in Nat
      BY <1>1 DEF MiB
    <2>5. got.cores * 1 <= paid.cores + (IF paid.cores = 0 THEN 1 ELSE 0)
      BY <1>2, <2>2, <2>4
    <2>6. ASSUME got.memMiB = 1
          PROVE  got.memMiB * MiB <= paid.memory + (IF paid.memory = 0 THEN MiB ELSE 0)
      <3>1. got.memMiB * MiB = MiB
        BY <2>4, <2>6
      <3> QED
        BY <1>2, <2>3, <2>4, <3>1
    <2>7. ASSUME got.memMiB * MiB <= paid.memory
          PROVE  got.memMiB * MiB <= paid.memory + (IF paid.memory = 0 THEN MiB ELSE 0)
      <3>1. got.memMiB * MiB \in Nat
        BY <2>4
      <3> QED
        BY <1>2, <2>4, <2>7, <3>1
    <2> QED
      BY <2>2, <2>5, <2>6, <2>7, Zenon DEF got, paid
  <1> QED
    BY <1>3, <1>4

-----------------------------------------------------------------------------
(* The claims of the card: the scheduler charges no more than there is.    *)
ChargedWithin == \A k \in Capacities : Used(k) <= GetDevice[k].value

CapInv == GivenAsAsked /\ ChargedWithin

(* What is charged for the claims of S: by claim, and together.            *)
Charges(S, a, k) == [c \in S |-> Accounted(a[c])[k]]
Together(S, a, k) == SumFunctionOnSet(Charges(S, a, k), S)

LEMMA UsedIs ==
    /\ \A k : Used(k) = Together(Charged, ask, k)
    /\ \A k : Used(k)' = Together(Charged', ask', k)
  <1>1. \A k : Used(k) = SumFunctionOnSet([c \in Charged |-> Accounted(ask[c])[k]], Charged)
    BY DEF Used, SumFunction
  <1>2. \A k : Used(k)' = SumFunctionOnSet([c \in Charged' |-> Accounted(ask'[c])[k]], Charged')
    BY DEF Used, SumFunction
  <1> QED
    BY <1>1, <1>2, Zenon DEF Together, Charges

LEMMA ChargesType ==
    ASSUME NEW S \in SUBSET Claims, NEW a, \A c \in S : a[c] \in Ask, NEW k \in Capacities
    PROVE  /\ IsFiniteSet(S) /\ \A c \in S : Charges(S, a, k)[c] \in Nat
           /\ Together(S, a, k) \in Nat
  <1>1. IsFiniteSet(S)
    BY DataAssumption, FS_Subset
  <1>2. \A c \in S : Charges(S, a, k)[c] \in Nat
    BY AccountedLemma DEF Charges
  <1> QED
    BY <1>1, <1>2, SumType DEF Together

(* One claim more is charged.                                              *)
LEMMA OneCharge ==
    ASSUME NEW S \in SUBSET Claims, NEW c \in Claims \ S, NEW a,
           \A d \in S \cup {c} : a[d] \in Ask, NEW k \in Capacities
    PROVE  Together(S \cup {c}, a, k) = Together(S, a, k) + Accounted(a[c])[k]
  <1> DEFINE T == S \cup {c}
             f == Charges(T, a, k)
  <1>1. T \in SUBSET Claims /\ c \in T /\ T \ {c} = S
    OBVIOUS
  <1>2. IsFiniteSet(T) /\ IsFiniteSet(S) /\ \A d \in T : f[d] \in Nat
    BY <1>1, ChargesType
  <1>3. f[c] = Accounted(a[c])[k] /\ \A d \in S : Charges(S, a, k)[d] = f[d]
    BY DEF Charges
  <1> HIDE DEF T, f
  <1>4. /\ SumFunctionOnSet(f, S) \in Nat
        /\ SumFunctionOnSet(f, T) = f[c] + SumFunctionOnSet(f, S)
    BY <1>1, <1>2, SumTake
  <1>5. Together(S, a, k) = SumFunctionOnSet(f, S)
    BY <1>2, <1>3, SumSame DEF Together
  <1>6. Together(T, a, k) = SumFunctionOnSet(f, T)
    BY DEF Together, f
  <1>7. f[c] \in Nat
    BY <1>1, <1>2
  <1> QED
    BY <1>3, <1>4, <1>5, <1>6, <1>7 DEF T

LEMMA ValueType == \A k \in Capacities : GetDevice[k].value \in Nat
  BY CapacityAssumption DEF Capacities, GetDevice, Policy

LEMMA CapInitial == Init => CapInv
  <1> SUFFICES ASSUME Init PROVE ChargedWithin
    BY GivenInitial DEF CapInv
  <1>1. Charged = {}
    BY DEF Init, Charged
  <1>2. \A k \in Capacities : Used(k) = 0
    BY <1>1, UsedIs, SumEmpty DEF Together
  <1> QED
    BY <1>2, ValueType DEF ChargedWithin

(* The request of a claim that is charged is known.                        *)
LEMMA ChargedAsk ==
    ASSUME GivenAsAsked
    PROVE  /\ Charged \in SUBSET Claims /\ IsFiniteSet(Charged)
           /\ \A c \in Claims : status[c] # "none" => ask[c] \in Ask
           /\ \A c \in Charged : ask[c] \in Ask
  <1>1. Charged \in SUBSET Claims /\ IsFiniteSet(Charged)
    BY DataAssumption, FS_Subset DEF Charged
  <1>2. \A c \in Claims : status[c] # "none" => ask[c] \in Ask
    BY DataAssumption DEF GivenAsAsked
  <1> QED
    BY <1>1, <1>2 DEF Charged

(* The scheduler charges a claim only what fits, and what is left when a   *)
(* claim loses its allocation was charged before.                          *)
LEMMA CapInductive == CapInv /\ [Next]_vars => CapInv'
  <1> SUFFICES ASSUME CapInv, [Next]_vars PROVE CapInv'
    OBVIOUS
  <1>1. GivenAsAsked /\ GivenAsAsked'
    BY GivenInductive DEF CapInv
  <1>2. \A k \in Capacities : Together(Charged, ask, k) <= GetDevice[k].value
    BY UsedIs DEF CapInv, ChargedWithin
  <1>3. SUFFICES \A k \in Capacities : Together(Charged', ask', k) <= GetDevice[k].value
    <2>1. ChargedWithin' <=> \A k \in Capacities : Used(k)' <= GetDevice[k].value
      BY DEF ChargedWithin, Capacities
    <2> QED
      BY <1>1, <1>3, <2>1, UsedIs DEF CapInv
  <1>4. ASSUME NEW c \in Claims, Allocate(c), NEW k \in Capacities
        PROVE  Together(Charged', ask', k) <= GetDevice[k].value
    <2>1. /\ status[c] = "pending" /\ Fits(ask[c]) /\ ask' = ask
          /\ status' = [status EXCEPT ![c] = "allocated"]
      BY <1>4 DEF Allocate
    <2>2. Charged' = Charged \cup {c} /\ c \notin Charged
      BY <1>1, <2>1 DEF Charged, GivenAsAsked
    <2>3. \A d \in Charged \cup {c} : ask[d] \in Ask
      BY <1>1, <2>1, ChargedAsk
    <2>4. Together(Charged', ask', k) = Together(Charged, ask, k) + Accounted(ask[c])[k]
      BY <1>1, <2>1, <2>2, <2>3, ChargedAsk, OneCharge
    <2>5. Together(Charged, ask, k) + Accounted(ask[c])[k] <= GetDevice[k].value
      BY <2>1, UsedIs DEF Fits
    <2> QED
      BY <2>4, <2>5
  <1>5. ASSUME NEW c \in Claims, Deallocate(c), NEW k \in Capacities
        PROVE  Together(Charged', ask', k) <= GetDevice[k].value
    <2>1. /\ status[c] = "allocated" /\ ask' = ask
          /\ status' = [status EXCEPT ![c] = "pending"]
      BY <1>5 DEF Deallocate
    <2>2. Charged = Charged' \cup {c} /\ c \notin Charged' /\ Charged' \in SUBSET Claims
      BY <1>1, <2>1 DEF Charged, GivenAsAsked
    <2>3. \A d \in Charged' \cup {c} : ask[d] \in Ask
      BY <1>1, <2>2, ChargedAsk
    <2>4. Together(Charged, ask, k) = Together(Charged', ask, k) + Accounted(ask[c])[k]
      BY <2>2, <2>3, OneCharge
    <2>5. Accounted(ask[c])[k] \in Nat
      BY <2>3, AccountedLemma
    <2>6. Together(Charged', ask, k) \in Nat /\ GetDevice[k].value \in Nat
      BY <2>2, <2>3, ChargesType, ValueType
    <2>7. Together(Charged, ask, k) <= GetDevice[k].value
      BY <1>2
    <2> QED
      BY <2>1, <2>4, <2>5, <2>6, <2>7
  <1>6. ASSUME Charged' = Charged, \A c \in Charged : ask'[c] = ask[c], NEW k \in Capacities
        PROVE  Together(Charged', ask', k) <= GetDevice[k].value
    <2>1. \A c \in Charged : Charges(Charged, ask', k)[c] = Charges(Charged, ask, k)[c]
      BY <1>6 DEF Charges
    <2>2. Together(Charged, ask', k) = Together(Charged, ask, k)
      BY <1>1, <2>1, ChargedAsk, SumSame DEF Together
    <2> QED
      BY <1>2, <1>6, <2>2
  <1>7. \/ \E c \in Claims : Allocate(c) \/ Deallocate(c)
        \/ Charged' = Charged /\ \A c \in Charged : ask'[c] = ask[c]
    <2>1. ASSUME NEW c \in Claims, CreateClaim(c) \/ DeleteClaim(c)
          PROVE  Charged' = Charged /\ \A d \in Charged : ask'[d] = ask[d]
      BY <1>1, <2>1 DEF CreateClaim, DeleteClaim, Charged, GivenAsAsked
    <2>2. ASSUME NEW c \in Claims, Release(c)
          PROVE  Charged' = Charged /\ \A d \in Charged : ask'[d] = ask[d]
      BY <1>1, <2>2 DEF Release, Charged, GivenAsAsked
    <2>3. ASSUME status' = status, ask' = ask
          PROVE  Charged' = Charged /\ \A d \in Charged : ask'[d] = ask[d]
      BY <2>3 DEF Charged
    <2>4. ASSUME NEW c \in Claims, prepareAllocatedDevices(c)
          PROVE  status' = status /\ ask' = ask
      BY <2>4 DEF prepareAllocatedDevices
    <2>5. CASE \E p \in Pods : PodChanges(p)
      BY <2>3, <2>5 DEF PodChanges, capVars
    <2>6. CASE Refresh \/ finalizePreparedClaim \/ UNCHANGED vars
      BY <2>3, <2>6 DEF Refresh, finalizePreparedClaim, vars, capVars
    <2>7. CASE GetPod
      BY <2>3, <2>7 DEF GetPod, capVars
    <2>8. CASE EndOfRefs \/ ListPods
      BY <2>3, <2>8 DEF EndOfRefs, ListPods, capVars
    <2> QED
      BY <2>1, <2>2, <2>3, <2>4, <2>5, <2>6, <2>7, <2>8, Zenon
         DEF Next, nodeUnprepareResource, CleanupOrphanPreparedClaims
  <1> QED
    BY <1>4, <1>5, <1>6, <1>7, Zenon

-----------------------------------------------------------------------------
(* What was made of a claim that has the card is what its request is       *)
(* charged for.                                                            *)
LEMMA HeldCharged ==
    ASSUME GivenAsAsked
    PROVE  /\ Held \in SUBSET Charged /\ IsFiniteSet(Held)
           /\ \A c \in Held : /\ ask[c] \in Ask
                              /\ given[c] = requestCapacityFor(ask[c])
                              /\ \A k : Charges(Charged, ask, k)[c] = Accounted(ask[c])[k]
  <1>1. Held \in SUBSET Charged /\ Held \in SUBSET Prepared
    BY DEF Held
  <1>2. \A c \in Held : given[c] = requestCapacityFor(ask[c])
    BY <1>1 DEF GivenAsAsked, Prepared
  <1>3. IsFiniteSet(Held)
    BY <1>1, ChargedAsk, FS_Subset
  <1> QED
    BY <1>1, <1>2, <1>3, ChargedAsk DEF Charges

(* What is made of the claims together.                                    *)
LEMMA HeldWithin ==
    ASSUME CapInv, NEW k \in {"cores", "memory"}, NEW unit \in Nat,
           NEW got, \A c \in Held : got[c] \in Nat,
           \A c \in Held : got[c] * unit <= Accounted(ask[c])[k]
                                 + (IF Accounted(ask[c])[k] = 0 THEN unit ELSE 0)
    PROVE  /\ SumFunctionOnSet(got, Held) \in Nat /\ Cardinality(FreeOf(k)) \in Nat
           /\ SumFunctionOnSet(got, Held) * unit
                <= GetDevice[k].value + Cardinality(FreeOf(k)) * unit
  <1> DEFINE f == Charges(Charged, ask, k)
             free == Cardinality(FreeOf(k))
  <1>1. k \in Capacities /\ GivenAsAsked
    BY DEF Capacities, CapInv
  <1>2. /\ Held \subseteq Charged /\ IsFiniteSet(Held)
        /\ \A c \in Held : f[c] = Accounted(ask[c])[k]
    BY <1>1, HeldCharged
  <1>3. IsFiniteSet(Charged) /\ (\A c \in Charged : f[c] \in Nat)
        /\ Together(Charged, ask, k) \in Nat
    BY <1>1, ChargedAsk, ChargesType
  <1>4. FreeOf(k) \in SUBSET Held
    BY DEF FreeOf
  <1>5. \A c \in Held : got[c] * unit <= f[c] + (IF c \in FreeOf(k) THEN unit ELSE 0)
    BY <1>2 DEF FreeOf
  <1>6. free \in Nat
    BY <1>2, <1>4, FS_Subset, FS_CardinalityType
  <1>7. SumFunctionOnSet(got, Held) \in Nat /\ SumFunctionOnSet(f, Held) \in Nat
    BY <1>2, <1>3, SumType
  <1>8. \A c \in Held : got[c] \in Nat /\ f[c] \in Nat
    BY <1>2, <1>3
  <1> HIDE DEF f
  <1>9. SumFunctionOnSet(got, Held) * unit <= SumFunctionOnSet(f, Held) + free * unit
    BY <1>2, <1>4, <1>5, <1>8, SumBound
  <1>10. SumFunctionOnSet(f, Held) <= Together(Charged, ask, k)
    BY <1>2, <1>3, SumPart DEF Together, f
  <1>11. Together(Charged, ask, k) <= GetDevice[k].value /\ GetDevice[k].value \in Nat
    BY <1>1, UsedIs, ValueType DEF CapInv, ChargedWithin
  <1> DEFINE got1 == SumFunctionOnSet(got, Held) * unit
             free1 == free * unit
  <1>12. got1 \in Nat /\ free1 \in Nat
    BY <1>6, <1>7
  <1> HIDE DEF got1, free1
  <1>13. got1 <= GetDevice[k].value + free1
    BY <1>3, <1>7, <1>9, <1>10, <1>11, <1>12 DEF got1, free1
  <1> QED
    BY <1>6, <1>7, <1>13 DEF got1, free1

LEMMA NotOvercommitted == CapInv => CardNotOvercommitted
  <1> SUFFICES ASSUME CapInv PROVE CardNotOvercommitted
    OBVIOUS
  <1> DEFINE cores == [c \in Held |-> given[c].cores]
             mem == [c \in Held |-> given[c].memMiB]
  <1>1. GivenAsAsked
    BY DEF CapInv
  <1>2. ASSUME NEW c \in Held
        PROVE  /\ cores[c] \in Nat /\ mem[c] \in Nat
               /\ cores[c] * 1 <= Accounted(ask[c])["cores"]
                    + (IF Accounted(ask[c])["cores"] = 0 THEN 1 ELSE 0)
               /\ mem[c] * MiB <= Accounted(ask[c])["memory"]
                    + (IF Accounted(ask[c])["memory"] = 0 THEN MiB ELSE 0)
    <2>1. ask[c] \in Ask /\ given[c] = requestCapacityFor(ask[c])
      BY <1>1, HeldCharged
    <2>2. /\ given[c].cores \in Nat /\ given[c].memMiB \in Nat
      BY <2>1, RequestType
    <2> QED
      BY <2>1, <2>2, GotLemma
  <1>3. /\ GetDevice["cores"].value = ComputeUnits /\ GetDevice["memory"].value = MemoryBytes
    BY DEF GetDevice, Policy
  <1>4. MiB \in Nat /\ 1 \in Nat
    BY DEF MiB
  <1> HIDE DEF cores, mem
  <1>5. SumFunctionOnSet(cores, Held) <= ComputeUnits + Cardinality(FreeOf("cores"))
    <2>1. /\ SumFunctionOnSet(cores, Held) \in Nat /\ Cardinality(FreeOf("cores")) \in Nat
          /\ SumFunctionOnSet(cores, Held) * 1
               <= GetDevice["cores"].value + Cardinality(FreeOf("cores")) * 1
      BY <1>2, <1>4, HeldWithin
    <2> QED
      BY <1>3, <2>1
  <1>6. SumFunctionOnSet(mem, Held)
          <= MemoryBytes \div MiB + Cardinality(FreeOf("memory"))
    <2>1. /\ SumFunctionOnSet(mem, Held) \in Nat /\ Cardinality(FreeOf("memory")) \in Nat
          /\ SumFunctionOnSet(mem, Held) * MiB
               <= GetDevice["memory"].value + Cardinality(FreeOf("memory")) * MiB
      BY <1>2, <1>4, HeldWithin
    <2>2. (MemoryBytes \div MiB) * MiB = MemoryBytes /\ MemoryBytes \div MiB \in Nat
      BY CapacityAssumption DEF MiB
    <2> QED
      BY <1>3, <2>1, <2>2 DEF MiB
  <1>7. /\ SumFunction([c \in Held |-> given[c].cores]) = SumFunctionOnSet(cores, Held)
        /\ SumFunction([c \in Held |-> given[c].memMiB]) = SumFunctionOnSet(mem, Held)
    BY DEF SumFunction, cores, mem
  <1> QED
    BY <1>5, <1>6, <1>7 DEF CardNotOvercommitted

(* However many claims are allocated a card, whatever they ask for and in  *)
(* whatever order they come and go, what the driver has made of them is    *)
(* within the card in cores and memory, but for one core and one MiB for   *)
(* each claim that is charged none. What is still prepared for claims that *)
(* have lost the card, or have been deleted, comes on top of it until it   *)
(* is released (requestCapacityFor, driver.go:106-154; GetDevice,          *)
(* allocatable_device.go; cleanupOrphanPreparedClaims, device_state.go).   *)
THEOREM CardsNotOvercommitted == Spec => []CardNotOvercommitted
  <1>1. Spec => []CapInv
    BY CapInitial, CapInductive, PTL DEF Spec
  <1> QED
    BY <1>1, NotOvercommitted, PTL

=============================================================================
