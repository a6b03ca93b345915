----------------------------- MODULE FiniteTheorems -----------------------------
(****************************************************************************)
(* Facts about finite sets that the other proofs rest on: induction, the    *)
(* sum of finitely many integers, greatest and least members, places in an  *)
(* order, and the loops of the models.                                      *)
(*                                                                          *)
(* The library's induction theorems have an operator as a parameter, which  *)
(* the provers here cannot instantiate; that < is well founded on the       *)
(* natural numbers has not, and gives induction over sets of numbers.       *)
(****************************************************************************)
EXTENDS Integers, FiniteSets, FiniteSetsExt, Functions, Sequences,
        FiniteSetTheorems, WellFoundedInduction, TLAPS

----------------------------------------------------------------------------
\* Induction.

\* A set with 0 that contains the successor of every member has every number.
LEMMA NatSetInduction ==
    ASSUME NEW S, 0 \in S, \A n \in Nat : n \in S => n + 1 \in S
    PROVE  Nat \subseteq S
<1> DEFINE R == {p \in Nat \X Nat : p[1] < p[2]}
<1>1. IsWellFoundedOn(R, Nat)
  BY NatLessThanWellFounded DEF OpToRel
<1> SUFFICES ASSUME Nat \ S # {} PROVE FALSE
  OBVIOUS
<1>2. PICK x \in Nat \ S : \A y \in Nat \ S : ~(<<y, x>> \in R)
  BY <1>1, WFMin
<1>3. x # 0 /\ x - 1 \in Nat /\ x - 1 \notin S
  BY <1>2
<1>4. <<x - 1, x>> \in R
  BY <1>2, <1>3
<1> QED
  BY <1>2, <1>3, <1>4

\* What holds of the empty set and survives adding an element holds of a finite set.
LEMMA FiniteSetInduction ==
    ASSUME NEW S, IsFiniteSet(S), NEW F, {} \in F,
           \A T \in SUBSET S : \A x \in S \ T : T \in F => T \union {x} \in F
    PROVE  S \in F
<1> DEFINE N == {n \in Nat : \A T \in SUBSET S : Cardinality(T) = n => T \in F}
<1>1. \A T \in SUBSET S : IsFiniteSet(T) /\ Cardinality(T) \in Nat
  BY FS_Subset, FS_CardinalityType
<1>2. 0 \in N
  BY <1>1, FS_EmptySet
<1>3. ASSUME NEW n \in Nat, n \in N PROVE n + 1 \in N
  <2>1. ASSUME NEW T \in SUBSET S, Cardinality(T) = n + 1 PROVE T \in F
    <3>1. PICK x : x \in T
      BY <1>1, <2>1, FS_EmptySet
    <3>2. Cardinality(T \ {x}) = n
      <4>1. IsFiniteSet(T)
        BY <1>1
      <4>2. Cardinality(T \ {x}) = Cardinality(T) - 1
        BY <3>1, <4>1, FS_RemoveElement
      <4> QED
        BY <2>1, <4>2
    <3>3. T \ {x} \in F
      BY <1>3, <3>2
    <3>4. T = (T \ {x}) \union {x}
      BY <3>1
    <3> QED
      BY <3>1, <3>3, <3>4
  <2> QED
    BY <2>1
<1>4. Nat \subseteq N
  <2> HIDE DEF N
  <2> QED
    BY <1>2, <1>3, NatSetInduction
<1> QED
  BY <1>1, <1>4

----------------------------------------------------------------------------
\* Greatest and least members.
LEMMA GreatestMember ==
    ASSUME NEW S, IsFiniteSet(S), S \subseteq Int, S # {}
    PROVE  Max(S) \in S /\ \A y \in S : y <= Max(S)
<1> DEFINE F == {T \in SUBSET S : T # {} => \E x \in T : \A y \in T : x >= y}
<1>1. {} \in F
  OBVIOUS
<1>2. ASSUME NEW T \in SUBSET S, NEW x \in S \ T, T \in F PROVE T \union {x} \in F
  <2>1. \E m \in T \union {x} : \A y \in T \union {x} : m >= y
    <3>1. CASE T = {}
      BY <3>1
    <3>2. CASE T # {}
      <4>1. PICK m \in T : \A y \in T : m >= y
        BY <1>2, <3>2
      <4>2. CASE m >= x
        BY <4>1, <4>2
      <4>3. CASE ~(m >= x)
        <5>1. \A y \in T \union {x} : x >= y
          BY <4>1, <4>3
        <5> QED
          BY <5>1
      <4> QED
        BY <4>2, <4>3
    <3> QED
      BY <3>1, <3>2
  <2> QED
    BY <2>1
<1>3. S \in F
  <2> HIDE DEF F
  <2> QED
    BY <1>1, <1>2, FiniteSetInduction
<1>4. \E x \in S : \A y \in S : x >= y
  BY <1>3
<1>5. Max(S) \in S /\ \A y \in S : Max(S) >= y
  BY <1>4 DEF Max
<1> QED
  BY <1>5

LEMMA LeastMember ==
    ASSUME NEW S, IsFiniteSet(S), S \subseteq Int, S # {}
    PROVE  Min(S) \in S /\ \A y \in S : Min(S) <= y
<1> DEFINE F == {T \in SUBSET S : T # {} => \E x \in T : \A y \in T : x <= y}
<1>1. {} \in F
  OBVIOUS
<1>2. ASSUME NEW T \in SUBSET S, NEW x \in S \ T, T \in F PROVE T \union {x} \in F
  <2>1. \E m \in T \union {x} : \A y \in T \union {x} : m <= y
    <3>1. CASE T = {}
      BY <3>1
    <3>2. CASE T # {}
      <4>1. PICK m \in T : \A y \in T : m <= y
        BY <1>2, <3>2
      <4>2. CASE m <= x
        BY <4>1, <4>2
      <4>3. CASE ~(m <= x)
        <5>1. \A y \in T \union {x} : x <= y
          BY <4>1, <4>3
        <5> QED
          BY <5>1
      <4> QED
        BY <4>2, <4>3
    <3> QED
      BY <3>1, <3>2
  <2> QED
    BY <2>1
<1>3. S \in F
  <2> HIDE DEF F
  <2> QED
    BY <1>1, <1>2, FiniteSetInduction
<1>4. \E x \in S : \A y \in S : x <= y
  BY <1>3
<1>5. Min(S) \in S /\ \A y \in S : Min(S) <= y
  BY <1>4 DEF Min
<1> QED
  BY <1>5

\* The ends of a set of positions.
LEMMA Ends ==
    ASSUME NEW n \in Nat, NEW S \in SUBSET (1..n), S # {}
    PROVE  /\ Min(S) \in S /\ Max(S) \in S
           /\ \A y \in S : Min(S) <= y /\ y <= Max(S)
<1>1. IsFiniteSet(S) /\ S \subseteq Int
  <2>1. IsFiniteSet(1..n)
    BY FS_Interval
  <2>2. IsFiniteSet(S)
    BY <2>1, FS_Subset
  <2>3. S \subseteq Int
    OBVIOUS
  <2> QED
    BY <2>2, <2>3
<1> QED
  BY <1>1, LeastMember, GreatestMember

\* The image of a finite set is finite.
LEMMA ImageIsFinite ==
    ASSUME NEW f, NEW S, IsFiniteSet(S)
    PROVE  IsFiniteSet({f[x] : x \in S})
<1> DEFINE Image(T) == {f[x] : x \in T}
           F == {T \in SUBSET S : IsFiniteSet(Image(T))}
<1>1. {} \in F
  <2>1. Image({}) = {}
    OBVIOUS
  <2> QED
    BY <2>1, FS_EmptySet
<1>2. ASSUME NEW T \in SUBSET S, NEW x \in S \ T, T \in F PROVE T \union {x} \in F
  <2>1. Image(T \union {x}) = Image(T) \union {f[x]}
    OBVIOUS
  <2>2. IsFiniteSet(Image(T))
    BY <1>2
  <2> HIDE DEF Image
  <2>3. IsFiniteSet(Image(T) \union {f[x]})
    BY <2>2, FS_AddElement
  <2> QED
    BY <1>2, <2>1, <2>3
<1>3. S \in F
  <2> HIDE DEF F
  <2> QED
    BY <1>1, <1>2, FiniteSetInduction
<1> QED
  BY <1>3

----------------------------------------------------------------------------
\* Sums.  The community modules' sum is the choice of a function that satisfies a
\* recursion over the subsets of a set, picking an element at a time.

Pick(s) == CHOOSE x \in s : TRUE

IsSum(sum, f, D) ==
    sum = [s \in D |-> IF s = {} THEN 0 ELSE f[Pick(s)] + sum[s \ {Pick(s)}]]

SumsOver(f, S) == CHOOSE sum : IsSum(sum, f, SUBSET S)

LEMMA SumUnfold ==
    ASSUME NEW f, NEW S
    PROVE  SumFunctionOnSet(f, S) = SumsOver(f, S)[S]
BY DEF SumFunctionOnSet, FoldFunctionOnSet, MapThenFoldSet, SumsOver, IsSum, Pick

\* The recursion that defines a sum has a solution.
LEMMA SumsExist ==
    ASSUME NEW f, NEW S, IsFiniteSet(S)
    PROVE  \E sum : IsSum(sum, f, SUBSET S)
<1> DEFINE Small(n) == {s \in SUBSET S : Cardinality(s) <= n}
           N == {n \in Nat : \E sum : IsSum(sum, f, Small(n))}
<1>1. \A s \in SUBSET S : IsFiniteSet(s) /\ Cardinality(s) \in Nat
  BY FS_Subset, FS_CardinalityType
<1>2. ASSUME NEW s \in SUBSET S, s # {}
      PROVE  Pick(s) \in s /\ s \ {Pick(s)} \in SUBSET S /\ Cardinality(s \ {Pick(s)}) = Cardinality(s) - 1
  <2>1. Pick(s) \in s
    BY <1>2 DEF Pick
  <2>2. IsFiniteSet(s)
    BY <1>1
  <2> QED
    BY <2>1, <2>2, FS_RemoveElement
<1>3. 0 \in N
  <2>1. \A s \in Small(0) : s = {}
    BY <1>1, FS_EmptySet
  <2>2. IsSum([s \in Small(0) |-> 0], f, Small(0))
    BY <2>1 DEF IsSum
  <2> QED
    BY <2>2
<1>4. ASSUME NEW n \in Nat, n \in N PROVE n + 1 \in N
  <2>1. PICK sum : IsSum(sum, f, Small(n))
    BY <1>4
  <2> DEFINE next == [s \in Small(n + 1) |-> IF s = {} THEN 0 ELSE f[Pick(s)] + sum[s \ {Pick(s)}]]
  <2>2. ASSUME NEW s \in Small(n + 1), s # {}
        PROVE  s \ {Pick(s)} \in Small(n) /\ s \ {Pick(s)} \in Small(n + 1)
    BY <1>1, <1>2, <2>2
  <2>3. \A s \in Small(n) : s \in Small(n + 1)
    BY <1>1
  <2>4. \A s \in Small(n) : next[s] = sum[s]
    BY <2>1, <2>3 DEF IsSum
  <2>5. IsSum(next, f, Small(n + 1))
    BY <2>2, <2>4 DEF IsSum
  <2>6. \E g : IsSum(g, f, Small(n + 1))
    BY <2>5
  <2>7. n + 1 \in Nat
    OBVIOUS
  <2> HIDE DEF Small, next
  <2> QED
    BY <2>6, <2>7
<1>5. Nat \subseteq N
  <2> HIDE DEF N
  <2> QED
    BY <1>3, <1>4, NatSetInduction
<1>6. Cardinality(S) \in N
  BY <1>1, <1>5
<1>7. Small(Cardinality(S)) = SUBSET S
  BY FS_Subset
<1> QED
  BY <1>6, <1>7

LEMMA SumsOverEquation ==
    ASSUME NEW f, NEW S, IsFiniteSet(S), NEW s \in SUBSET S
    PROVE  SumsOver(f, S)[s] = IF s = {} THEN 0 ELSE f[Pick(s)] + SumsOver(f, S)[s \ {Pick(s)}]
<1>1. IsSum(SumsOver(f, S), f, SUBSET S)
  BY SumsExist DEF SumsOver
<1> QED
  BY <1>1 DEF IsSum

\* The sum of a part does not depend on the whole it is computed in.
LEMMA SumsOverRestrict ==
    ASSUME NEW f, NEW g, NEW S, IsFiniteSet(S), NEW T \in SUBSET S,
           \A x \in T : f[x] = g[x]
    PROVE  SumsOver(f, S)[T] = SumsOver(g, T)[T]
<1> DEFINE N == {n \in Nat : \A s \in SUBSET T : Cardinality(s) = n => SumsOver(f, S)[s] = SumsOver(g, T)[s]}
<1>1. IsFiniteSet(T) /\ \A s \in SUBSET T : IsFiniteSet(s) /\ Cardinality(s) \in Nat
  BY FS_Subset, FS_CardinalityType
<1>2. ASSUME NEW s \in SUBSET T
      PROVE  /\ SumsOver(f, S)[s] = IF s = {} THEN 0 ELSE f[Pick(s)] + SumsOver(f, S)[s \ {Pick(s)}]
             /\ SumsOver(g, T)[s] = IF s = {} THEN 0 ELSE g[Pick(s)] + SumsOver(g, T)[s \ {Pick(s)}]
  <2>1. s \in SUBSET S
    OBVIOUS
  <2>2. SumsOver(f, S)[s] = IF s = {} THEN 0 ELSE f[Pick(s)] + SumsOver(f, S)[s \ {Pick(s)}]
    BY <2>1, SumsOverEquation
  <2>3. SumsOver(g, T)[s] = IF s = {} THEN 0 ELSE g[Pick(s)] + SumsOver(g, T)[s \ {Pick(s)}]
    BY <1>1, SumsOverEquation
  <2> QED
    BY <2>2, <2>3
<1>3. 0 \in N
  BY <1>1, <1>2, FS_EmptySet
<1>4. ASSUME NEW n \in Nat, n \in N PROVE n + 1 \in N
  <2>1. ASSUME NEW s \in SUBSET T, Cardinality(s) = n + 1
        PROVE  SumsOver(f, S)[s] = SumsOver(g, T)[s]
    <3>1. IsFiniteSet(s) /\ s # {}
      BY <1>1, <2>1, FS_EmptySet
    <3>2. Pick(s) \in s
      BY <3>1 DEF Pick
    <3>3. Cardinality(s \ {Pick(s)}) = n
      <4>1. Cardinality(s \ {Pick(s)}) = Cardinality(s) - 1
        BY <3>1, <3>2, FS_RemoveElement
      <4> QED
        BY <2>1, <4>1
    <3>4. SumsOver(f, S)[s \ {Pick(s)}] = SumsOver(g, T)[s \ {Pick(s)}]
      BY <1>4, <3>3
    <3>5. f[Pick(s)] = g[Pick(s)]
      BY <3>2
    <3> QED
      BY <1>2, <3>1, <3>4, <3>5
  <2> QED
    BY <2>1
<1>5. Nat \subseteq N
  <2> HIDE DEF N
  <2> QED
    BY <1>3, <1>4, NatSetInduction
<1> QED
  BY <1>1, <1>5

LEMMA SumsOverType ==
    ASSUME NEW f, NEW S, IsFiniteSet(S), \A x \in S : f[x] \in Int
    PROVE  \A s \in SUBSET S : SumsOver(f, S)[s] \in Int
<1> DEFINE sum == SumsOver(f, S)
           N == {n \in Nat : \A s \in SUBSET S : Cardinality(s) = n => sum[s] \in Int}
<1>1. \A s \in SUBSET S : IsFiniteSet(s) /\ Cardinality(s) \in Nat
  BY FS_Subset, FS_CardinalityType
<1>2. \A s \in SUBSET S : sum[s] = IF s = {} THEN 0 ELSE f[Pick(s)] + sum[s \ {Pick(s)}]
  BY SumsOverEquation
<1> HIDE DEF sum
<1>3. 0 \in N
  BY <1>1, <1>2, FS_EmptySet, SMTT(20)
<1>4. ASSUME NEW n \in Nat, n \in N PROVE n + 1 \in N
  <2>1. ASSUME NEW s \in SUBSET S, Cardinality(s) = n + 1 PROVE sum[s] \in Int
    <3>1. IsFiniteSet(s) /\ s # {}
      BY <1>1, <2>1, FS_EmptySet
    <3>2. Pick(s) \in s
      BY <3>1 DEF Pick
    <3>3. Cardinality(s \ {Pick(s)}) = Cardinality(s) - 1
      BY <3>1, <3>2, FS_RemoveElement
    <3>4. sum[s \ {Pick(s)}] \in Int
      BY <1>4, <2>1, <3>3
    <3>5. f[Pick(s)] \in Int
      BY <3>2
    <3> QED
      BY <1>2, <3>1, <3>4, <3>5
  <2> QED
    BY <2>1
<1>5. Nat \subseteq N
  <2> HIDE DEF N
  <2> QED
    BY <1>3, <1>4, NatSetInduction
<1> QED
  BY <1>1, <1>5 DEF sum

\* A sum takes its terms in any order.
LEMMA SumsOverAnyOrder ==
    ASSUME NEW f, NEW S, IsFiniteSet(S), \A x \in S : f[x] \in Int
    PROVE  \A s \in SUBSET S : \A x \in s : SumsOver(f, S)[s] = f[x] + SumsOver(f, S)[s \ {x}]
<1> DEFINE sum == SumsOver(f, S)
           N == {n \in Nat : \A s \in SUBSET S : Cardinality(s) = n =>
                    \A x \in s : sum[s] = f[x] + sum[s \ {x}]}
<1>1. \A s \in SUBSET S : IsFiniteSet(s) /\ Cardinality(s) \in Nat
  BY FS_Subset, FS_CardinalityType
<1>2. \A s \in SUBSET S : sum[s] = IF s = {} THEN 0 ELSE f[Pick(s)] + sum[s \ {Pick(s)}]
  BY SumsOverEquation
<1>3. \A s \in SUBSET S : sum[s] \in Int
  BY SumsOverType
<1> HIDE DEF sum
<1>4. 0 \in N
  BY <1>1, FS_EmptySet
<1>5. ASSUME NEW n \in Nat, n \in N PROVE n + 1 \in N
  <2>1. ASSUME NEW s \in SUBSET S, Cardinality(s) = n + 1, NEW x \in s
        PROVE  sum[s] = f[x] + sum[s \ {x}]
    <3>1. PICK c \in s : sum[s] = f[c] + sum[s \ {c}]
      <4>1. Pick(s) \in s
        BY DEF Pick
      <4> QED
        BY <1>2, <4>1
    <3>2. CASE x = c
      BY <3>1, <3>2
    <3>3. CASE x # c
      <4>1. \A y \in s : Cardinality(s \ {y}) = n
        BY <1>1, <2>1, FS_RemoveElement
      <4>2. sum[s \ {c}] = f[x] + sum[(s \ {c}) \ {x}]
        BY <1>5, <3>3, <4>1
      <4>3. sum[s \ {x}] = f[c] + sum[(s \ {x}) \ {c}]
        BY <1>5, <3>3, <4>1
      <4>4. (s \ {c}) \ {x} = (s \ {x}) \ {c}
        OBVIOUS
      <4>5. f[x] \in Int /\ f[c] \in Int /\ sum[(s \ {x}) \ {c}] \in Int
        BY <1>3
      <4>6. sum[s] = f[c] + (f[x] + sum[(s \ {x}) \ {c}])
        BY <3>1, <4>2, <4>4
      <4> QED
        BY <4>3, <4>5, <4>6
    <3> QED
      BY <3>2, <3>3
  <2> QED
    BY <2>1
<1>6. Nat \subseteq N
  <2> HIDE DEF N
  <2> QED
    BY <1>4, <1>5, NatSetInduction
<1> QED
  BY <1>1, <1>6 DEF sum

\* Nothing sums to nothing.
LEMMA SumEmpty == ASSUME NEW f PROVE SumFunctionOnSet(f, {}) = 0
<1>1. IsFiniteSet({})
  BY FS_EmptySet
<1>2. SumsOver(f, {})[{}] = 0
  BY <1>1, SumsOverEquation
<1> QED
  BY <1>2, SumUnfold

\* Integers sum to an integer.
LEMMA SumType ==
    ASSUME NEW f, NEW S, IsFiniteSet(S), \A x \in S : f[x] \in Int
    PROVE  SumFunctionOnSet(f, S) \in Int
BY SumsOverType, SumUnfold

\* Equal terms have equal sums.
LEMMA SumCongruent ==
    ASSUME NEW f, NEW g, NEW S, IsFiniteSet(S), \A x \in S : f[x] = g[x]
    PROVE  SumFunctionOnSet(f, S) = SumFunctionOnSet(g, S)
BY SumsOverRestrict, SumUnfold

\* Any term can be taken out.
LEMMA SumWithout ==
    ASSUME NEW f, NEW S, IsFiniteSet(S), \A y \in S : f[y] \in Int, NEW x \in S
    PROVE  SumFunctionOnSet(f, S) = f[x] + SumFunctionOnSet(f, S \ {x})
<1>1. SumsOver(f, S)[S] = f[x] + SumsOver(f, S)[S \ {x}]
  BY SumsOverAnyOrder
<1>2. SumsOver(f, S)[S \ {x}] = SumsOver(f, S \ {x})[S \ {x}]
  BY SumsOverRestrict
<1> QED
  BY <1>1, <1>2, SumUnfold

\* Changing one term changes the sum by as much.
LEMMA SumChange ==
    ASSUME NEW f, NEW g, NEW S, IsFiniteSet(S), NEW x \in S,
           \A y \in S : f[y] \in Int /\ g[y] \in Int,
           \A y \in S \ {x} : g[y] = f[y]
    PROVE  SumFunctionOnSet(g, S) = SumFunctionOnSet(f, S) + g[x] - f[x]
<1> DEFINE rest == SumFunctionOnSet(f, S \ {x})
<1>1. IsFiniteSet(S \ {x})
  BY FS_Subset
<1>2. SumFunctionOnSet(g, S \ {x}) = rest /\ rest \in Int
  BY <1>1, SumCongruent, SumType
<1>3. SumFunctionOnSet(f, S) = f[x] + rest
  BY SumWithout
<1>4. SumFunctionOnSet(g, S) = g[x] + rest
  BY <1>2, SumWithout
<1> HIDE DEF rest
<1> QED
  BY <1>2, <1>3, <1>4

\* Zeros sum to zero.
LEMMA SumOfZeros ==
    ASSUME NEW f, NEW S, IsFiniteSet(S), \A x \in S : f[x] = 0
    PROVE  SumFunctionOnSet(f, S) = 0
<1> DEFINE F == {T \in SUBSET S : SumFunctionOnSet(f, T) = 0}
<1>1. {} \in F
  BY SumEmpty
<1>2. ASSUME NEW T \in SUBSET S, NEW x \in S \ T, T \in F PROVE T \union {x} \in F
  <2>1. /\ IsFiniteSet(T \union {x}) /\ IsFiniteSet(T) /\ (T \union {x}) \ {x} = T
        /\ T \union {x} \in SUBSET S /\ x \in T \union {x}
    BY FS_Subset
  <2>2. \A y \in T \union {x} : f[y] \in Int
    OBVIOUS
  <2>3. SumFunctionOnSet(f, T \union {x}) = f[x] + SumFunctionOnSet(f, (T \union {x}) \ {x})
    BY <2>1, <2>2, SumWithout
  <2>4. SumFunctionOnSet(f, T \union {x}) = f[x] + SumFunctionOnSet(f, T)
    BY <2>1, <2>3, Zenon
  <2>5. SumFunctionOnSet(f, T) \in Int
    BY <2>1, SumType
  <2>6. SumFunctionOnSet(f, T \union {x}) = 0
    BY <1>2, <2>4, <2>5
  <2> QED
    BY <2>1, <2>6
<1>3. S \in F
  <2> HIDE DEF F
  <2> QED
    BY <1>1, <1>2, FiniteSetInduction
<1> QED
  BY <1>3

\* Losses sum to no gain.
LEMMA SumOfLosses ==
    ASSUME NEW f, NEW S, IsFiniteSet(S), \A x \in S : f[x] \in {n \in Int : n <= 0}
    PROVE  SumFunctionOnSet(f, S) <= 0
<1> DEFINE F == {T \in SUBSET S : SumFunctionOnSet(f, T) <= 0}
<1>1. {} \in F
  BY SumEmpty
<1>2. ASSUME NEW T \in SUBSET S, NEW x \in S \ T, T \in F PROVE T \union {x} \in F
  <2>1. /\ IsFiniteSet(T \union {x}) /\ IsFiniteSet(T) /\ (T \union {x}) \ {x} = T
        /\ T \union {x} \in SUBSET S /\ x \in T \union {x}
    BY FS_Subset
  <2>2. \A y \in T \union {x} : f[y] \in Int
    OBVIOUS
  <2>3. SumFunctionOnSet(f, T \union {x}) = f[x] + SumFunctionOnSet(f, (T \union {x}) \ {x})
    BY <2>1, <2>2, SumWithout
  <2>4. SumFunctionOnSet(f, T \union {x}) = f[x] + SumFunctionOnSet(f, T)
    BY <2>1, <2>3, Zenon
  <2>5. SumFunctionOnSet(f, T) \in Int
    BY <2>1, SumType
  <2>6. SumFunctionOnSet(f, T \union {x}) <= 0
    BY <1>2, <2>4, <2>5
  <2> QED
    BY <2>1, <2>6
<1>3. S \in F
  <2> HIDE DEF F
  <2> QED
    BY <1>1, <1>2, FiniteSetInduction
<1> QED
  BY <1>3

\* A set is summed in two parts.
LEMMA SumSplit ==
    ASSUME NEW f, NEW S, IsFiniteSet(S), \A x \in S : f[x] \in Int,
           NEW P, NEW Q, S = P \union Q, P \cap Q = {}
    PROVE  SumFunctionOnSet(f, S) = SumFunctionOnSet(f, P) + SumFunctionOnSet(f, Q)
<1> DEFINE Sum(T) == SumFunctionOnSet(f, T)
           F == {T \in SUBSET S : Sum(T) = Sum(T \cap P) + Sum(T \ P)}
<1>1. \A T \in SUBSET S : IsFiniteSet(T) /\ Sum(T) \in Int
  <2>1. \A T \in SUBSET S : IsFiniteSet(T)
    BY FS_Subset
  <2> QED
    BY <2>1, SumType
<1>2. \A T \in SUBSET S : \A x \in S \ T : Sum(T \union {x}) = f[x] + Sum(T)
  <2> SUFFICES ASSUME NEW T \in SUBSET S, NEW x \in S \ T
               PROVE  Sum(T \union {x}) = f[x] + Sum(T)
    OBVIOUS
  <2>1. IsFiniteSet(T \union {x}) /\ (T \union {x}) \ {x} = T
    BY <1>1
  <2>2. Sum(T \union {x}) = f[x] + Sum((T \union {x}) \ {x})
    BY <2>1, SumWithout
  <2> QED
    BY <2>1, <2>2
<1>3. {} \in F
  <2>1. {} \cap P = {} /\ {} \ P = {} /\ Sum({}) = 0
    BY SumEmpty
  <2> QED
    BY <2>1
<1>4. ASSUME NEW T \in SUBSET S, NEW x \in S \ T, T \in F PROVE T \union {x} \in F
  <2>1. T \cap P \in SUBSET S /\ T \ P \in SUBSET S /\ f[x] \in Int
        /\ T \union {x} \in SUBSET S
    OBVIOUS
  <2>2. /\ Sum(T) \in Int /\ Sum(T \cap P) \in Int /\ Sum(T \ P) \in Int
        /\ Sum(T \union {x}) = f[x] + Sum(T)
        /\ Sum(T) = Sum(T \cap P) + Sum(T \ P)
    BY <1>1, <1>2, <1>4, <2>1
  <2>3. CASE x \in P
    <3>1. (T \union {x}) \cap P = (T \cap P) \union {x} /\ (T \union {x}) \ P = T \ P
      BY <2>3
    <3>2. Sum((T \cap P) \union {x}) = f[x] + Sum(T \cap P)
      BY <1>2, <2>1
    <3>3. /\ Sum((T \union {x}) \cap P) = f[x] + Sum(T \cap P)
          /\ Sum((T \union {x}) \ P) = Sum(T \ P)
      BY <3>1, <3>2, Zenon
    <3>4. Sum(T \union {x}) = Sum((T \union {x}) \cap P) + Sum((T \union {x}) \ P)
      BY <2>1, <2>2, <3>3
    <3> QED
      BY <2>1, <3>4
  <2>4. CASE x \notin P
    <3>1. (T \union {x}) \cap P = T \cap P /\ (T \union {x}) \ P = (T \ P) \union {x}
      BY <2>4
    <3>2. Sum((T \ P) \union {x}) = f[x] + Sum(T \ P)
      BY <1>2, <2>1
    <3>3. /\ Sum((T \union {x}) \cap P) = Sum(T \cap P)
          /\ Sum((T \union {x}) \ P) = f[x] + Sum(T \ P)
      BY <3>1, <3>2, Zenon
    <3>4. Sum(T \union {x}) = Sum((T \union {x}) \cap P) + Sum((T \union {x}) \ P)
      BY <2>1, <2>2, <3>3
    <3> QED
      BY <2>1, <3>4
  <2> QED
    BY <2>3, <2>4
<1>5. S \in F
  <2> HIDE DEF F
  <2> QED
    BY <1>3, <1>4, FiniteSetInduction
<1>6. S \cap P = P /\ S \ P = Q
  OBVIOUS
<1>7. Sum(S) = Sum(S \cap P) + Sum(S \ P)
  BY <1>5
<1> QED
  BY <1>6, <1>7, Zenon

\* The last term of a run of indices.
LEMMA SumLast ==
    ASSUME NEW f, NEW n \in Nat, \A i \in 1..n+1 : f[i] \in Int
    PROVE  SumFunctionOnSet(f, 1..n+1) = SumFunctionOnSet(f, 1..n) + f[n+1]
<1>1. IsFiniteSet(1..n+1) /\ IsFiniteSet(1..n)
  BY FS_Interval
<1>2. (1..n+1) \ {n+1} = 1..n /\ n+1 \in 1..n+1
  OBVIOUS
<1>3. SumFunctionOnSet(f, 1..n+1) = f[n+1] + SumFunctionOnSet(f, (1..n+1) \ {n+1})
  BY <1>1, <1>2, SumWithout
<1>4. SumFunctionOnSet(f, 1..n) \in Int
  <2>1. \A i \in 1..n : f[i] \in Int
    OBVIOUS
  <2> QED
    BY <1>1, <2>1, SumType
<1>5. f[n+1] \in Int
  BY <1>2
<1>6. SumFunctionOnSet(f, 1..n+1) = f[n+1] + SumFunctionOnSet(f, 1..n)
  BY <1>2, <1>3, Zenon
<1> QED
  BY <1>4, <1>5, <1>6

\* The first term of a run of indices, the others moved down by one.
LEMMA SumFirst ==
    ASSUME NEW f, NEW g, NEW m \in Nat,
           \A i \in 1..m+1 : f[i] \in Int, \A i \in 1..m : g[i] = f[i+1]
    PROVE  SumFunctionOnSet(f, 1..m+1) = f[1] + SumFunctionOnSet(g, 1..m)
<1> DEFINE N == {n \in Nat : n <= m => SumFunctionOnSet(f, 1..n+1)
                                          = f[1] + SumFunctionOnSet(g, 1..n)}
<1>1. 0 \in N
  <2>1. SumFunctionOnSet(f, 1..0+1) = SumFunctionOnSet(f, 1..0) + f[0+1]
    <3>1. 0 \in Nat /\ \A i \in 1..0+1 : f[i] \in Int
      OBVIOUS
    <3> QED
      BY <3>1, SumLast
  <2>2. 1..0 = {} /\ SumFunctionOnSet(f, {}) = 0 /\ SumFunctionOnSet(g, {}) = 0
    BY SumEmpty
  <2>3. 0 + 1 = 1 /\ f[1] \in Int
    OBVIOUS
  <2> QED
    BY <2>1, <2>2, <2>3
<1>2. ASSUME NEW n \in Nat, n \in N PROVE n + 1 \in N
  <2>1. ASSUME n + 1 <= m
        PROVE  SumFunctionOnSet(f, 1..(n+1)+1) = f[1] + SumFunctionOnSet(g, 1..n+1)
    <3>1. /\ \A i \in 1..(n+1)+1 : f[i] \in Int
          /\ \A i \in 1..n+1 : g[i] \in Int
          /\ g[n+1] = f[(n+1)+1] /\ f[1] \in Int
      BY <2>1
    <3>2. SumFunctionOnSet(f, 1..(n+1)+1) = SumFunctionOnSet(f, 1..n+1) + f[(n+1)+1]
      BY <3>1, SumLast
    <3>3. SumFunctionOnSet(g, 1..n+1) = SumFunctionOnSet(g, 1..n) + g[n+1]
      BY <3>1, SumLast
    <3>4. SumFunctionOnSet(f, 1..n+1) = f[1] + SumFunctionOnSet(g, 1..n)
      BY <1>2, <2>1
    <3>5. SumFunctionOnSet(g, 1..n) \in Int
      <4>1. IsFiniteSet(1..n)
        BY FS_Interval
      <4> QED
        BY <3>1, <4>1, SumType
    <3>6. f[(n+1)+1] \in Int
      BY <3>1
    <3> QED
      BY <3>1, <3>2, <3>3, <3>4, <3>5, <3>6
  <2> QED
    BY <2>1
<1>3. Nat \subseteq N
  <2> HIDE DEF N
  <2> QED
    BY <1>1, <1>2, NatSetInduction
<1> QED
  BY <1>3

----------------------------------------------------------------------------
\* Places.  R orders S strictly; the place of a member is the number before it.

StrictlyOrders(R, S) ==
    /\ \A x \in S : <<x, x>> \notin R
    /\ \A x, y \in S : x # y => <<x, y>> \in R \/ <<y, x>> \in R
    /\ \A x, y, z \in S : <<x, y>> \in R /\ <<y, z>> \in R => <<x, z>> \in R

AheadOf(R, S, x) == {y \in S : <<y, x>> \in R}

\* Members in order have places in order, and with as many places as members each is taken.
LEMMA PlacesTaken ==
    ASSUME NEW S, IsFiniteSet(S), NEW R, StrictlyOrders(R, S)
    PROVE  /\ \A x \in S : IsFiniteSet(AheadOf(R, S, x)) /\ Cardinality(AheadOf(R, S, x)) \in 0..(Cardinality(S) - 1)
           /\ \A x, y \in S : <<x, y>> \in R <=>
                 Cardinality(AheadOf(R, S, x)) < Cardinality(AheadOf(R, S, y))
           /\ \A x, y \in S : Cardinality(AheadOf(R, S, x)) = Cardinality(AheadOf(R, S, y)) => x = y
           /\ \A i \in 0..(Cardinality(S) - 1) : \E x \in S : Cardinality(AheadOf(R, S, x)) = i
<1> DEFINE n == Cardinality(S)
           place == [x \in S |-> Cardinality(AheadOf(R, S, x))]
<1>1. n \in Nat
  BY FS_CardinalityType
<1>2. ASSUME NEW x \in S
      PROVE  IsFiniteSet(AheadOf(R, S, x)) /\ place[x] \in 0..(n - 1)
  <2>1. AheadOf(R, S, x) \subseteq S /\ x \notin AheadOf(R, S, x)
    BY DEF AheadOf, StrictlyOrders
  <2>2. /\ IsFiniteSet(AheadOf(R, S, x)) /\ Cardinality(AheadOf(R, S, x)) <= n
        /\ Cardinality(AheadOf(R, S, x)) # n
    BY <2>1, FS_Subset
  <2>3. Cardinality(AheadOf(R, S, x)) \in Nat
    BY <2>2, FS_CardinalityType
  <2> QED
    BY <1>1, <2>2, <2>3
<1>3. ASSUME NEW x \in S, NEW y \in S, <<x, y>> \in R PROVE place[x] < place[y]
  <2>1. AheadOf(R, S, x) \subseteq AheadOf(R, S, y)
    BY <1>3 DEF AheadOf, StrictlyOrders
  <2>2. x \in AheadOf(R, S, y) /\ x \notin AheadOf(R, S, x)
    BY <1>3 DEF AheadOf, StrictlyOrders
  <2>3. /\ Cardinality(AheadOf(R, S, x)) <= Cardinality(AheadOf(R, S, y))
        /\ Cardinality(AheadOf(R, S, x)) # Cardinality(AheadOf(R, S, y))
    BY <1>2, <2>1, <2>2, FS_Subset
  <2> QED
    BY <1>2, <2>3
<1>4. \A x \in S : place[x] \in Int /\ place[x] \in 0..(n - 1)
  BY <1>1, <1>2
<1>5. \A x, y \in S : place[x] = place[y] => x = y
  <2>1. ASSUME NEW x \in S, NEW y \in S, place[x] = place[y], x # y PROVE FALSE
    <3>1. <<x, y>> \in R \/ <<y, x>> \in R
      BY <2>1 DEF StrictlyOrders
    <3>2. place[x] < place[y] \/ place[y] < place[x]
      BY <1>3, <3>1
    <3> HIDE DEF place
    <3> QED
      BY <1>4, <2>1, <3>2
  <2> QED
    BY <2>1
<1>6. \A x, y \in S : <<x, y>> \in R <=> place[x] < place[y]
  <2>1. ASSUME NEW x \in S, NEW y \in S, place[x] < place[y] PROVE <<x, y>> \in R
    <3>1. x # y
      BY <1>4, <2>1
    <3>2. <<x, y>> \in R \/ <<y, x>> \in R
      BY <3>1 DEF StrictlyOrders
    <3>3. <<y, x>> \in R => place[y] < place[x]
      BY <1>3
    <3> HIDE DEF place
    <3> QED
      BY <1>4, <2>1, <3>2, <3>3
  <2> QED
    BY <1>3, <2>1
<1>7. \A i \in 0..(n - 1) : \E x \in S : place[x] = i
  <2>1. IsFiniteSet(0..(n - 1)) /\ Cardinality(0..(n - 1)) = n
    <3> HIDE DEF n
    <3>1. n - 1 \in Int /\ (0 > n - 1 => n = 0) /\ (n - 1) - 0 + 1 = n
      BY <1>1
    <3> QED
      BY <3>1, FS_Interval
  <2>2. place \in [S -> 0..(n - 1)]
    BY <1>4
  <2> HIDE DEF place
  <2>3. place \in Injection(S, 0..(n - 1))
    BY <1>5, <2>2 DEF Injection, IsInjective
  <2>4. place \in Surjection(S, 0..(n - 1))
    BY <2>1, <2>3, FS_Injection
  <2> QED
    BY <2>4 DEF Surjection
<1> QED
  BY <1>2, <1>5, <1>6, <1>7

\* As many different things as places: a list without repetition of all members.
LEMMA ListsAll ==
    ASSUME NEW S, IsFiniteSet(S), NEW list \in [1..Cardinality(S) -> S],
           \A i, j \in 1..Cardinality(S) : list[i] = list[j] => i = j
    PROVE  \A x \in S : \E i \in 1..Cardinality(S) : list[i] = x
<1> DEFINE n == Cardinality(S)
<1>1. n \in Nat
  BY FS_CardinalityType
<1>2. IsFiniteSet(1..n) /\ Cardinality(1..n) = n
  <2> HIDE DEF n
  <2>1. (1 > n => n = 0) /\ n - 1 + 1 = n
    BY <1>1
  <2> QED
    BY <1>1, <2>1, FS_Interval
<1>3. list \in Injection(1..n, S)
  BY DEF Injection, IsInjective
<1>4. list \in Surjection(1..n, S)
  BY <1>2, <1>3, FS_Injection
<1> QED
  BY <1>4 DEF Surjection

\* Different members with different images: as many images as members.
LEMMA AsManyImages ==
    ASSUME NEW S, IsFiniteSet(S), NEW f, \A x, y \in S : f[x] = f[y] => x = y
    PROVE  IsFiniteSet({f[x] : x \in S}) /\ Cardinality({f[x] : x \in S}) = Cardinality(S)
<1> DEFINE T == {f[x] : x \in S}
           g == [x \in S |-> f[x]]
<1>1. g \in Bijection(S, T)
  BY DEF Bijection, Injection, Surjection, IsInjective
<1>2. IsFiniteSet(T)
  BY ImageIsFinite
<1> HIDE DEF T, g
<1>3. Cardinality(S) = Cardinality(T)
  <2>1. ExistsBijection(S, T)
    BY <1>1 DEF ExistsBijection
  <2> QED
    BY <2>1, FS_Bijection
<1> QED
  BY <1>2, <1>3 DEF T

----------------------------------------------------------------------------
\* Loops.  A recursive function on 0..n is the choice of one that satisfies its
\* equation; there is one, and it stays where its steps stay.

StepsIn(V, step, n) == \A k \in 1..n : \A v \in V : step[<<k, v>>] \in V

IsLoop(f, base, step, n) == \A k \in 0..n : f[k] = IF k = 0 THEN base ELSE step[<<k, f[k - 1]>>]

LEMMA LoopExists ==
    ASSUME NEW n \in Nat, NEW V, NEW base \in V, NEW step, StepsIn(V, step, n)
    PROVE  \E f \in [0..n -> V] : IsLoop(f, base, step, n)
<1> DEFINE Runs(f, m) == \A k \in 0..m : f[k] = IF k = 0 THEN base ELSE step[<<k, f[k - 1]>>]
           N == {m \in Nat : m <= n => \E f \in [0..m -> V] : Runs(f, m)}
<1>1. 0 \in N
  <2>1. [k \in 0..0 |-> base] \in [0..0 -> V] /\ Runs([k \in 0..0 |-> base], 0)
    OBVIOUS
  <2> QED
    BY <2>1
<1>2. ASSUME NEW m \in Nat, m \in N PROVE m + 1 \in N
  <2> SUFFICES ASSUME m + 1 <= n PROVE \E f \in [0..(m + 1) -> V] : Runs(f, m + 1)
    OBVIOUS
  <2>1. PICK f \in [0..m -> V] : Runs(f, m)
    BY <1>2
  <2> DEFINE g == [k \in 0..(m + 1) |-> IF k = m + 1 THEN step[<<k, f[m]>>] ELSE f[k]]
  <2>2. f[m] \in V /\ m + 1 \in 1..n
    OBVIOUS
  <2>3. g \in [0..(m + 1) -> V]
    BY <2>2 DEF StepsIn
  <2>4. Runs(g, m + 1)
    <3>1. ASSUME NEW k \in 0..(m + 1) PROVE g[k] = IF k = 0 THEN base ELSE step[<<k, g[k - 1]>>]
      <4>1. CASE k = m + 1
        <5>1. k # 0 /\ k - 1 = m /\ m # m + 1 /\ m \in 0..(m + 1)
          BY <4>1
        <5>2. g[k - 1] = f[m]
          BY <5>1
        <5> QED
          BY <4>1, <5>1, <5>2
      <4>2. CASE k # m + 1
        <5>1. k \in 0..m /\ g[k] = f[k]
          BY <4>2
        <5>2. k # 0 => g[k - 1] = f[k - 1]
          BY <5>1
        <5> QED
          BY <2>1, <5>1, <5>2
      <4> QED
        BY <4>1, <4>2
    <3> HIDE DEF g
    <3> QED
      BY <3>1
  <2> HIDE DEF g, Runs
  <2> QED
    BY <2>3, <2>4
<1>3. n \in N
  <2> HIDE DEF N
  <2> QED
    BY <1>1, <1>2, NatSetInduction
<1> QED
  BY <1>3 DEF IsLoop

\* What holds before the first step and survives each step holds after every one.
LEMMA LoopKeeps ==
    ASSUME NEW n \in Nat, NEW I, 0 \in I, \A k \in 1..n : k - 1 \in I => k \in I
    PROVE  \A k \in 0..n : k \in I
<1> DEFINE N == {k \in Nat : k <= n => k \in I}
<1>1. 0 \in N
  OBVIOUS
<1>2. ASSUME NEW k \in Nat, k \in N PROVE k + 1 \in N
  <2>1. k + 1 <= n => k + 1 \in 1..n /\ (k + 1) - 1 = k
    OBVIOUS
  <2> QED
    BY <1>2, <2>1
<1>3. Nat \subseteq N
  <2> HIDE DEF N
  <2> QED
    BY <1>1, <1>2, NatSetInduction
<1> QED
  BY <1>3
=================================================================================
