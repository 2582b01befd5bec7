------------------------------ MODULE SumLemmas ------------------------------
(***************************************************************************)
(* What the models need to know of finite sums and maxima.  SumFunction is *)
(* a fold, a function recursive in the set summed over.  The prover cannot *)
(* use the library's principles of induction, whose parameter is an        *)
(* operator; each induction here looks instead for a smallest set that     *)
(* breaks the claim (SmallestSet) and finds that there is none.            *)
(***************************************************************************)
EXTENDS Integers, FiniteSets, FiniteSetsExt, Functions, FiniteSetTheorems,
        WellFoundedInduction, TLAPS

\* Among the subsets of a finite set some are smallest.
HasSmallest(T) == \E s \in T : \A t \in T : t \subseteq s => t = s

LEMMA SmallestSet ==
    ASSUME NEW S, IsFiniteSet(S), NEW T \in SUBSET (SUBSET S), T # {}
    PROVE  HasSmallest(T)
  <1>1. IsWellFoundedOn(StrictSubsetOrdering(S), SUBSET S)
    BY FS_StrictSubsetOrderingWellFounded, FS_FiniteSubsetsOfFinite
  <1>2. PICK s \in T : \A t \in T : ~(<<t, s>> \in StrictSubsetOrdering(S))
    BY <1>1, WFMin
  <1> QED
    BY <1>2 DEF StrictSubsetOrdering, HasSmallest

\* The image of a finite set is finite, with the map as a function.
LEMMA ImageIsFinite ==
    ASSUME NEW S, IsFiniteSet(S), NEW T, NEW f \in [S -> T], \A t \in T : \E s \in S : f[s] = t
    PROVE  IsFiniteSet(T)
  <1>1. f \in Surjection(S, T)
    BY DEF Surjection
  <1> QED
    BY <1>1, FS_Surjection

-----------------------------------------------------------------------------
(* The recursive function behind a sum                                     *)

Pick(s) == CHOOSE x \in s : TRUE
LEMMA PickIn == ASSUME NEW s, s # {} PROVE Pick(s) \in s
  BY DEF Pick

PartialSums(f, S, g) ==
    g = [s \in SUBSET S |-> IF s = {} THEN 0 ELSE f[Pick(s)] + g[s \ {Pick(s)}]]

LEMMA PartialSumsAgree ==
    ASSUME NEW f, NEW S, IsFiniteSet(S), NEW T \in SUBSET S, NEW g, NEW h,
           PartialSums(f, S, g), PartialSums(f, T, h)
    PROVE  \A s \in SUBSET T : g[s] = h[s]
  <1> DEFINE Wrong == {s \in SUBSET T : g[s] # h[s]}
  <1> SUFFICES ASSUME Wrong # {} PROVE FALSE
    OBVIOUS
  <1>1. PICK s \in Wrong : \A t \in Wrong : t \subseteq s => t = s
    <2>1. IsFiniteSet(T) /\ Wrong \in SUBSET (SUBSET T)
      BY FS_Subset
    <2> HIDE DEF Wrong
    <2> QED
      BY <2>1, SmallestSet DEF HasSmallest
  <1>2. s \in SUBSET S /\ s \in SUBSET T
    OBVIOUS
  <1>3. /\ g[s] = IF s = {} THEN 0 ELSE f[Pick(s)] + g[s \ {Pick(s)}]
        /\ h[s] = IF s = {} THEN 0 ELSE f[Pick(s)] + h[s \ {Pick(s)}]
    BY <1>2 DEF PartialSums
  <1>4. s # {}
    BY <1>3
  <1>5. g[s \ {Pick(s)}] = h[s \ {Pick(s)}]
    BY <1>1, <1>4, PickIn
  <1> QED
    BY <1>3, <1>4, <1>5

LEMMA PartialSumsExist ==
    ASSUME NEW S, IsFiniteSet(S), NEW f \in [S -> Int]
    PROVE  \E g \in [SUBSET S -> Int] : PartialSums(f, S, g)
  <1> DEFINE Has(T) == \E g \in [SUBSET T -> Int] : PartialSums(f, T, g)
             None == {T \in SUBSET S : ~Has(T)}
  <1> SUFFICES ASSUME None # {} PROVE FALSE
    OBVIOUS
  <1>1. PICK T \in None : \A U \in None : U \subseteq T => U = T
    <2>1. None \in SUBSET (SUBSET S)
      OBVIOUS
    <2> HIDE DEF None
    <2> QED
      BY <2>1, SmallestSet DEF HasSmallest
  <1> DEFINE below(U) == CHOOSE g \in [SUBSET U -> Int] : PartialSums(f, U, g)
  <1>2. \A U \in SUBSET T : U # T =>
            below(U) \in [SUBSET U -> Int] /\ PartialSums(f, U, below(U))
    BY <1>1
  <1> DEFINE g == [s \in SUBSET T |->
                      IF s = {} THEN 0
                      ELSE f[Pick(s)] + below(s \ {Pick(s)})[s \ {Pick(s)}]]
  <1>3. \A s \in SUBSET T : s # {} => /\ Pick(s) \in S
                                      /\ s \ {Pick(s)} \in SUBSET T
                                      /\ s \ {Pick(s)} # T
    BY PickIn
  <1>4. \A s \in SUBSET T : s # T => g[s] = below(s)[s]
    <2> SUFFICES ASSUME NEW s \in SUBSET T, s # T PROVE g[s] = below(s)[s]
      OBVIOUS
    <2>1. below(s)[s] = IF s = {} THEN 0 ELSE f[Pick(s)] + below(s)[s \ {Pick(s)}]
      <3>1. PartialSums(f, s, below(s)) /\ s \in SUBSET s
        BY <1>2
      <3> HIDE DEF below
      <3> QED
        BY <3>1 DEF PartialSums
    <2>2. CASE s = {}
      BY <2>1, <2>2
    <2>3. CASE s # {}
      <3> DEFINE r == s \ {Pick(s)}
      <3>1. r \in SUBSET s /\ r \in SUBSET r /\ r # T /\ r \in SUBSET T
        BY <1>3, <2>3
      <3>2. IsFiniteSet(s)
        BY FS_Subset
      <3>3. below(s)[r] = below(r)[r]
        <4>1. PartialSums(f, s, below(s)) /\ PartialSums(f, r, below(r))
          BY <1>2, <3>1
        <4> HIDE DEF below, r
        <4> QED
          BY <3>1, <3>2, <4>1, PartialSumsAgree
      <3> QED
        BY <2>1, <2>3, <3>3
    <2> QED
      BY <2>2, <2>3
  <1>5. g \in [SUBSET T -> Int]
    <2>1. ASSUME NEW s \in SUBSET T, s # {}
          PROVE  f[Pick(s)] + below(s \ {Pick(s)})[s \ {Pick(s)}] \in Int
      <3> DEFINE r == s \ {Pick(s)}
      <3>1. r \in SUBSET T /\ r # T /\ r \in SUBSET r
        BY <1>3, <2>1
      <3>2. below(r) \in [SUBSET r -> Int]
        BY <1>2, <3>1
      <3>3. below(r)[r] \in Int
        <4> HIDE DEF below, r
        <4> QED
          BY <3>1, <3>2
      <3> QED
        BY <1>3, <2>1, <3>3
    <2> HIDE DEF below
    <2> QED
      BY <2>1
  <1>6. PartialSums(f, T, g)
    <2> HIDE DEF below
    <2>1. \A s \in SUBSET T : g[s] = IF s = {} THEN 0 ELSE f[Pick(s)] + g[s \ {Pick(s)}]
      BY <1>3, <1>4
    <2> QED
      BY <2>1 DEF PartialSums
  <1> QED
    BY <1>1, <1>5, <1>6

LEMMA SumIsPartialSum ==
    ASSUME NEW S, IsFiniteSet(S), NEW f \in [S -> Int]
    PROVE  \E g \in [SUBSET S -> Int] : PartialSums(f, S, g) /\ SumFunction(f) = g[S]
  <1> DEFINE iter == CHOOSE g : PartialSums(f, S, g)
  <1>1. SumFunction(f) = iter[S]
    BY DEF SumFunction, SumFunctionOnSet, FoldFunctionOnSet, MapThenFoldSet, PartialSums, Pick
  <1>2. PICK g \in [SUBSET S -> Int] : PartialSums(f, S, g)
    BY PartialSumsExist
  <1>3. PartialSums(f, S, iter)
    BY <1>2
  <1>4. \A s \in SUBSET S : iter[s] = g[s]
    <2> HIDE DEF iter
    <2> QED
      BY <1>2, <1>3, PartialSumsAgree
  <1> QED
    BY <1>1, <1>2, <1>4

\* The sum over a part is the whole function's partial sum.
LEMMA SumOfPart ==
    ASSUME NEW S, IsFiniteSet(S), NEW f \in [S -> Int], NEW T \in SUBSET S, NEW g,
           PartialSums(f, S, g)
    PROVE  SumFunction([x \in T |-> f[x]]) = g[T]
  <1> DEFINE part == [x \in T |-> f[x]]
  <1>1. IsFiniteSet(T) /\ part \in [T -> Int]
    BY FS_Subset
  <1>2. PICK h : PartialSums(part, T, h) /\ SumFunction(part) = h[T]
    <2> HIDE DEF part
    <2> QED
      BY <1>1, SumIsPartialSum
  <1>3. \A s \in SUBSET T : s # {} => part[Pick(s)] = f[Pick(s)]
    BY PickIn
  <1>4. PartialSums(f, T, h)
    BY <1>2, <1>3 DEF PartialSums
  <1>5. T \in SUBSET T
    OBVIOUS
  <1>6. g[T] = h[T]
    <2> HIDE DEF part
    <2> QED
      BY <1>4, <1>5, PartialSumsAgree
  <1> QED
    BY <1>2, <1>6

\* Any element may be the first.
AnyFirst(f, S, g) == \A s \in SUBSET S : \A x \in s : g[s] = f[x] + g[s \ {x}]

LEMMA PartialSumsAnyFirst ==
    ASSUME NEW S, IsFiniteSet(S), NEW f \in [S -> Int], NEW g \in [SUBSET S -> Int],
           PartialSums(f, S, g)
    PROVE  AnyFirst(f, S, g)
  <1> DEFINE Wrong == {s \in SUBSET S : ~\A x \in s : g[s] = f[x] + g[s \ {x}]}
  <1> SUFFICES ASSUME Wrong # {} PROVE FALSE
    BY DEF AnyFirst
  <1>1. PICK s \in Wrong : \A t \in Wrong : t \subseteq s => t = s
    <2>1. Wrong \in SUBSET (SUBSET S)
      OBVIOUS
    <2> HIDE DEF Wrong
    <2> QED
      BY <2>1, SmallestSet DEF HasSmallest
  <1>2. PICK x \in s : g[s] # f[x] + g[s \ {x}]
    BY <1>1
  <1>a. \A y \in s : \A w \in s \ {y} : g[s \ {y}] = f[w] + g[(s \ {y}) \ {w}]
    <2> SUFFICES ASSUME NEW y \in s PROVE s \ {y} \notin Wrong
      OBVIOUS
    <2>1. s \ {y} \subseteq s /\ s \ {y} # s
      OBVIOUS
    <2> QED
      BY <1>1, <2>1
  <1> DEFINE p == Pick(s)
  <1>3. p \in s /\ p \in S /\ x \in S
    BY PickIn
  <1>4. g[s] = f[p] + g[s \ {p}]
    BY <1>3 DEF PartialSums
  <1>5. p # x
    BY <1>2, <1>4
  <1> HIDE DEF p
  <1>6. g[s \ {p}] = f[x] + g[(s \ {p}) \ {x}]
    BY <1>2, <1>3, <1>5, <1>a
  <1>7. g[s \ {x}] = f[p] + g[(s \ {x}) \ {p}]
    BY <1>2, <1>3, <1>5, <1>a
  <1>8. (s \ {p}) \ {x} = (s \ {x}) \ {p}
    OBVIOUS
  <1>9. f[p] \in Int /\ f[x] \in Int /\ g[(s \ {x}) \ {p}] \in Int
    <2>1. (s \ {x}) \ {p} \in SUBSET S
      OBVIOUS
    <2> QED
      BY <1>3, <2>1
  <1> HIDE DEF Wrong
  <1>b. g[s] = f[p] + (f[x] + g[(s \ {x}) \ {p}])
    BY <1>4, <1>6, <1>8
  <1>c. f[x] + g[s \ {x}] = f[x] + (f[p] + g[(s \ {x}) \ {p}])
    BY <1>7
  <1> QED
    BY <1>2, <1>9, <1>b, <1>c

-----------------------------------------------------------------------------
(* Sums                                                                    *)

LEMMA SumEmpty == ASSUME NEW f \in [{} -> Int] PROVE SumFunction(f) = 0
  <1>1. PICK g : PartialSums(f, {}, g) /\ SumFunction(f) = g[{}]
    BY SumIsPartialSum, FS_EmptySet
  <1> QED
    BY <1>1 DEF PartialSums

LEMMA SumInt ==
    ASSUME NEW S, IsFiniteSet(S), NEW f \in [S -> Int]
    PROVE  SumFunction(f) \in Int
  <1>1. PICK g \in [SUBSET S -> Int] : SumFunction(f) = g[S]
    BY SumIsPartialSum
  <1> QED
    BY <1>1

LEMMA SumRemove ==
    ASSUME NEW S, IsFiniteSet(S), NEW f \in [S -> Int], NEW x \in S
    PROVE  SumFunction(f) = f[x] + SumFunction([y \in S \ {x} |-> f[y]])
  <1>1. PICK g \in [SUBSET S -> Int] : PartialSums(f, S, g) /\ SumFunction(f) = g[S]
    BY SumIsPartialSum
  <1>2. SumFunction([y \in S \ {x} |-> f[y]]) = g[S \ {x}]
    BY <1>1, SumOfPart
  <1>3. AnyFirst(f, S, g)
    BY <1>1, PartialSumsAnyFirst
  <1>4. g[S] = f[x] + g[S \ {x}]
    BY <1>3 DEF AnyFirst
  <1> QED
    BY <1>1, <1>2, <1>4

LEMMA SumSingleton ==
    ASSUME NEW x, NEW f \in [{x} -> Int]
    PROVE  SumFunction(f) = f[x]
  <1> DEFINE rest == [y \in {x} \ {x} |-> f[y]]
  <1>1. SumFunction(f) = f[x] + SumFunction(rest)
    <2>1. IsFiniteSet({x}) /\ x \in {x}
      BY FS_Singleton
    <2> QED
      BY <2>1, SumRemove
  <1>2. rest \in [{} -> Int]
    OBVIOUS
  <1>3. SumFunction(rest) = 0 /\ f[x] \in Int
    <2> HIDE DEF rest
    <2> QED
      BY <1>2, SumEmpty
  <1> QED
    BY <1>1, <1>3

LEMMA SumNat ==
    ASSUME NEW S, IsFiniteSet(S), NEW f \in [S -> Nat]
    PROVE  SumFunction(f) \in Nat
  <1>1. PICK g \in [SUBSET S -> Int] : PartialSums(f, S, g) /\ SumFunction(f) = g[S]
    <2>1. f \in [S -> Int]
      OBVIOUS
    <2> QED
      BY <2>1, SumIsPartialSum
  <1> DEFINE Wrong == {s \in SUBSET S : g[s] \notin Nat}
  <1> SUFFICES ASSUME Wrong # {} PROVE FALSE
    BY <1>1
  <1>2. PICK s \in Wrong : \A t \in Wrong : t \subseteq s => t = s
    <2>1. Wrong \in SUBSET (SUBSET S)
      OBVIOUS
    <2> HIDE DEF Wrong
    <2> QED
      BY <2>1, SmallestSet DEF HasSmallest
  <1>3. g[s] = IF s = {} THEN 0 ELSE f[Pick(s)] + g[s \ {Pick(s)}]
    BY <1>1 DEF PartialSums
  <1>4. s # {} /\ Pick(s) \in S
    BY <1>3, PickIn
  <1>5. g[s \ {Pick(s)}] \in Nat
    BY <1>2, <1>4, PickIn
  <1> QED
    BY <1>3, <1>4, <1>5

LEMMA SumUnion ==
    ASSUME NEW S, IsFiniteSet(S), NEW T, IsFiniteSet(T), S \cap T = {},
           NEW U, U = S \cup T, NEW f \in [U -> Int],
           NEW p, p = [x \in S |-> f[x]], NEW q, q = [x \in T |-> f[x]]
    PROVE  SumFunction(f) = SumFunction(p) + SumFunction(q)
  <1>1. IsFiniteSet(U)
    BY FS_Union
  <1>2. PICK g \in [SUBSET U -> Int] : PartialSums(f, U, g) /\ SumFunction(f) = g[U]
    BY <1>1, SumIsPartialSum
  <1>3. SumFunction(p) = g[S] /\ SumFunction(q) = g[T]
    BY <1>1, <1>2, SumOfPart
  <1>4. AnyFirst(f, U, g)
    <2> QED
      BY <1>1, <1>2, PartialSumsAnyFirst
  <1> DEFINE Wrong == {s \in SUBSET S : g[s \cup T] # g[s] + g[T]}
  <1> SUFFICES ASSUME Wrong # {} PROVE FALSE
    <2>1. S \notin Wrong
      OBVIOUS
    <2>2. g[U] = g[S] + g[T]
      BY <2>1
    <2> QED
      BY <1>2, <1>3, <2>2
  <1>5. PICK s \in Wrong : \A t \in Wrong : t \subseteq s => t = s
    <2>1. Wrong \in SUBSET (SUBSET S)
      OBVIOUS
    <2> HIDE DEF Wrong
    <2> QED
      BY <2>1, SmallestSet DEF HasSmallest
  <1>6. CASE s = {}
    <2>1. g[{}] = 0
      BY <1>2 DEF PartialSums
    <2>2. s \cup T = T /\ g[T] \in Int
      BY <1>6
    <2> QED
      BY <1>5, <1>6, <2>1, <2>2
  <1>7. CASE s # {}
    <2>1. PICK x \in s : TRUE
      BY <1>7
    <2>2. /\ g[s \cup T] = f[x] + g[(s \cup T) \ {x}]
          /\ g[s] = f[x] + g[s \ {x}]
      BY <1>4, <2>1 DEF AnyFirst
    <2>3. (s \cup T) \ {x} = (s \ {x}) \cup T
      BY <2>1
    <2>4. g[(s \ {x}) \cup T] = g[s \ {x}] + g[T]
      BY <1>5, <2>1
    <2>5. f[x] \in Int /\ g[s \ {x}] \in Int /\ g[T] \in Int
      BY <2>1
    <2>6. g[s \cup T] = f[x] + (g[s \ {x}] + g[T])
      BY <2>2, <2>3, <2>4
    <2>7. g[s] + g[T] = (f[x] + g[s \ {x}]) + g[T]
      BY <2>2
    <2>8. g[s \cup T] # g[s] + g[T]
      BY <1>5
    <2> QED
      BY <2>5, <2>6, <2>7, <2>8
  <1> QED
    BY <1>6, <1>7

-----------------------------------------------------------------------------
(* Maxima and quotients                                                    *)

LEMMA MaxIsGreatest ==
    ASSUME NEW S, S \subseteq Int, IsFiniteSet(S), S # {}
    PROVE  Max(S) \in S /\ \A n \in S : n <= Max(S)
  <1> DEFINE HasMax(T) == \E m \in T : \A n \in T : m >= n
             Wrong == {T \in SUBSET S : T # {} /\ ~HasMax(T)}
  <1> SUFFICES ASSUME Wrong # {} PROVE FALSE
    BY DEF Max
  <1>2. PICK T \in Wrong : \A U \in Wrong : U \subseteq T => U = T
    <2>1. Wrong \in SUBSET (SUBSET S)
      OBVIOUS
    <2> HIDE DEF Wrong
    <2>2. HasSmallest(Wrong)
      BY <2>1, SmallestSet
    <2> QED
      BY <2>2 DEF HasSmallest
  <1>3. PICK x \in T : TRUE
    BY <1>2
  <1>4. CASE T \ {x} = {}
    BY <1>2, <1>3, <1>4
  <1>5. CASE T \ {x} # {}
    <2>1. PICK m \in T \ {x} : \A n \in T \ {x} : m >= n
      <3>1. T \ {x} \subseteq T /\ T \ {x} # T /\ T \ {x} \in SUBSET S
        BY <1>3
      <3>2. T \ {x} \notin Wrong
        BY <1>2, <3>1
      <3> QED
        BY <1>5, <3>1, <3>2
    <2>2. m \in Int /\ x \in Int /\ \A n \in T : n \in Int
      BY <1>3, <2>1
    <2>3. CASE m >= x
      BY <1>2, <2>1, <2>3
    <2>4. CASE ~(m >= x)
      BY <1>2, <1>3, <2>1, <2>2, <2>4
    <2> QED
      BY <2>3, <2>4
  <1> QED
    BY <1>4, <1>5

LEMMA MaxOfTwo ==
    ASSUME NEW a \in Int, NEW b \in Int
    PROVE  /\ Max({a, b}) \in Int
           /\ Max({a, b}) >= a /\ Max({a, b}) >= b
           /\ Max({a, b}) = a \/ Max({a, b}) = b
  <1> DEFINE S == {a, b}
  <1>1. IsFiniteSet(S)
    <2>1. IsFiniteSet({a} \cup {b})
      BY FS_Singleton, FS_AddElement
    <2>2. S = {a} \cup {b}
      OBVIOUS
    <2> HIDE DEF S
    <2> QED
      BY <2>1, <2>2
  <1>2. S \subseteq Int /\ S # {}
    OBVIOUS
  <1>3. Max(S) \in S /\ \A n \in S : n <= Max(S)
    <2> HIDE DEF S
    <2> QED
      BY <1>1, <1>2, MaxIsGreatest
  <1> QED
    BY <1>3

LEMMA Quotient ==
    ASSUME NEW a \in Int, NEW b \in Int, b > 0
    PROVE  /\ a \div b \in Int
           /\ (a \div b) * b <= a
           /\ a < (a \div b) * b + b
           /\ a >= 0 => a \div b >= 0
  OBVIOUS

\* A part of k, in the proportion of x to y, is at most k.
LEMMA PartOf ==
    ASSUME NEW k \in Nat, NEW x \in Int, NEW y \in Int, 0 <= x, x <= y, 0 < y
    PROVE  (k * x) \div y \in 0..k
  <1> DEFINE q == (k * x) \div y
  <1>1. k * x \in Int /\ k * x >= 0 /\ k * x <= k * y /\ k * y \in Int
    OBVIOUS
  <1>2. q \in Int /\ q >= 0 /\ q * y <= k * x
    <2> DEFINE n == k * x
    <2>1. n \in Int /\ n >= 0
      BY <1>1
    <2> HIDE DEF n
    <2>2. n \div y \in Int /\ (n \div y) * y <= n /\ n \div y >= 0
      BY <2>1, Quotient
    <2> QED
      BY <2>2 DEF n
  <1> HIDE DEF q
  <1>3. q <= k
    <2> SUFFICES ASSUME k + 1 <= q PROVE FALSE
      BY <1>2
    <2>1. (k + 1) * y <= q * y
      BY <1>2
    <2>2. (k + 1) * y = k * y + y
      OBVIOUS
    <2> QED
      BY <1>1, <1>2, <2>1, <2>2
  <1>4. q \in 0..k
    BY <1>2, <1>3
  <1> QED
    BY <1>4 DEF q
=============================================================================
