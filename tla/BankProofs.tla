------------------------------ MODULE BankProofs ------------------------------
(***************************************************************************)
(* Theorems about Bank and Market together, for every set of players,      *)
(* amounts, prices, offers and crashes.                                    *)
(*                                                                         *)
(* The totals are sums over players and offers, and the community modules  *)
(* have no theorems about their sums: the first two parts derive from the  *)
(* definition of SumFunction what the rest needs, by an induction over the *)
(* subsets of a finite set.  The invariant follows money and items by the  *)
(* same lemmas: Val and In count a record or an offer in either kind.      *)
(***************************************************************************)
EXTENDS Bank, SequenceTheorems, FiniteSetTheorems, WellFoundedInduction, TLAPS

-----------------------------------------------------------------------------
(* Induction.                                                              *)

\* Every set of natural numbers has a least one: the order of Nat is well founded.
LEMMA Least ==
  ASSUME NEW T \in SUBSET Nat, T # {}
  PROVE  \E x \in T : \A y \in T : x <= y
  <1>1. PICK R : /\ IsWellFoundedOn(R, Nat)
                 /\ \A x, y \in Nat : x < y => <<x, y>> \in R
    BY NatLessThanWellFounded DEF OpToRel
  <1>2. IsWellFoundedOn(R, Nat) /\ T \subseteq Nat
    BY <1>1
  <1>3. PICK x \in T : \A y \in T : ~ (<<y, x>> \in R)
    BY <1>2, WFMin
  <1>4. \A y \in T : x \in Nat /\ y \in Nat /\ ~ (y < x)
    BY <1>1, <1>3
  <1> QED
    BY <1>4

\* Induction up to K, over the set of the numbers that have the property.
LEMMA InductionTo ==
  ASSUME NEW K \in Nat, NEW S, 0 \in S, \A n \in 0 .. K : n \in S /\ n + 1 <= K => n + 1 \in S
  PROVE  \A n \in 0 .. K : n \in S
  <1> DEFINE T == {n \in 0 .. K : n \notin S}
  <1> SUFFICES ASSUME T # {} PROVE FALSE
    OBVIOUS
  <1>1. PICK x \in T : \A y \in T : x <= y
    <2>1. T \in SUBSET Nat
      OBVIOUS
    <2> HIDE DEF T
    <2> QED
      BY <2>1, Least
  <1>2. x - 1 \in 0 .. K /\ x - 1 \notin T /\ (x - 1) + 1 = x /\ x <= K
    BY <1>1
  <1> QED
    BY <1>1, <1>2

\* Induction over the subsets of a finite set, from the empty one, an element at a time.
LEMMA SubsetInduction ==
  ASSUME NEW S, IsFiniteSet(S), NEW Q, {} \in Q,
         \A s \in SUBSET S, x \in S : s \in Q /\ x \notin s => s \union {x} \in Q
  PROVE  S \in Q
  <1> DEFINE R == {s \in SUBSET S : s \in Q}
             T == {Cardinality(S \ s) : s \in R}
  <1>1. \A s \in R : IsFiniteSet(S \ s) /\ Cardinality(S \ s) \in Nat
    BY FS_Difference, FS_CardinalityType
  <1>2. T \in SUBSET Nat /\ T # {}
    BY <1>1
  <1>3. PICK n \in T : \A m \in T : n <= m
    <2> HIDE DEF T
    <2> QED
      BY <1>2, Least
  <1>4. PICK s \in R : n = Cardinality(S \ s)
    BY <1>3
  <1>5. CASE S \ s = {}
    <2>1. s = S
      BY <1>4, <1>5
    <2> QED
      BY <1>4, <2>1
  <1>6. CASE S \ s # {}
    <2>1. PICK x : x \in S \ s
      BY <1>6
    <2>2. s \union {x} \in R
      BY <1>4, <2>1
    <2>3. S \ (s \union {x}) = (S \ s) \ {x}
      OBVIOUS
    <2>4. Cardinality((S \ s) \ {x}) = Cardinality(S \ s) - 1
      BY <1>1, <1>4, <2>1, FS_RemoveElement
    <2>5. n \in Nat /\ Cardinality(S \ (s \union {x})) = n - 1
      BY <1>1, <1>4, <2>3, <2>4
    <2>6. n - 1 \in T
      BY <2>2, <2>5
    <2> HIDE DEF T
    <2>7. n <= n - 1
      BY <1>3, <2>6
    <2> QED
      BY <2>5, <2>7
  <1> QED
    BY <1>5, <1>6

-----------------------------------------------------------------------------
(* Sums.  SumFunction takes the elements in an order of its choice.        *)

Some(s) == CHOOSE x \in s : TRUE

\* g gives the sums of f over the subsets of S, as SumFunction computes them.
Sums(g, f, S) ==
  \A s \in SUBSET S : g[s] = IF s = {} THEN 0 ELSE f[Some(s)] + g[s \ {Some(s)}]

LEMMA SumsExist ==
  ASSUME NEW S, IsFiniteSet(S), NEW f \in [S -> Nat]
  PROVE  \E g \in [SUBSET S -> Nat] : Sums(g, f, S)
  <1> DEFINE K == Cardinality(S)
             UpTo(g, n) == \A s \in SUBSET S : Cardinality(s) <= n =>
                             g[s] = IF s = {} THEN 0 ELSE f[Some(s)] + g[s \ {Some(s)}]
             Q == {n \in 0 .. K : \E g \in [SUBSET S -> Nat] : UpTo(g, n)}
  <1>1. K \in Nat /\ 0 \in 0 .. K /\ K \in 0 .. K
    BY FS_CardinalityType
  <1>2. \A s \in SUBSET S : IsFiniteSet(s) /\ Cardinality(s) \in Nat /\ Cardinality(s) <= K
    BY FS_Subset, FS_CardinalityType
  <1>3. \A s \in SUBSET S : s # {} => /\ Some(s) \in s /\ s \ {Some(s)} \in SUBSET S
                                      /\ Cardinality(s \ {Some(s)}) = Cardinality(s) - 1
    BY <1>2, FS_RemoveElement DEF Some
  <1>4. 0 \in Q
    <2> DEFINE g == [s \in SUBSET S |-> 0]
    <2>1. g \in [SUBSET S -> Nat]
      OBVIOUS
    <2>2. \A s \in SUBSET S : Cardinality(s) <= 0 => s = {}
      BY <1>2, FS_EmptySet
    <2>3. UpTo(g, 0)
      BY <2>2
    <2> QED
      BY <1>1, <2>1, <2>3
  <1> HIDE DEF K
  <1>5. ASSUME NEW n \in 0 .. K, n \in Q, n + 1 <= K PROVE n + 1 \in Q
    <2>0. n \in Nat
      BY <1>1, <1>5
    <2>1. PICK g \in [SUBSET S -> Nat] : UpTo(g, n)
      BY <1>5
    <2> DEFINE h == [s \in SUBSET S |-> IF Cardinality(s) = n + 1 THEN f[Some(s)] + g[s \ {Some(s)}] ELSE g[s]]
    <2>2. ASSUME NEW s \in SUBSET S, Cardinality(s) = n + 1
          PROVE  s # {} /\ f[Some(s)] \in Nat /\ g[s \ {Some(s)}] \in Nat
      <3>1. s # {}
        <4>1. Cardinality({}) = 0 /\ n + 1 # 0
          BY <2>0, FS_EmptySet
        <4> QED
          BY <2>2, <4>1
      <3> QED
        BY <1>3, <2>1, <3>1
    <2>3. h \in [SUBSET S -> Nat]
      BY <2>1, <2>2
    <2>4. \A s \in SUBSET S : h[s] = IF Cardinality(s) = n + 1 THEN f[Some(s)] + g[s \ {Some(s)}] ELSE g[s]
      OBVIOUS
    <2> HIDE DEF h
    <2>5. ASSUME NEW s \in SUBSET S, Cardinality(s) <= n + 1
          PROVE  h[s] = IF s = {} THEN 0 ELSE f[Some(s)] + h[s \ {Some(s)}]
      <3>1. CASE s = {}
        <4>1. Cardinality(s) = 0
          BY <3>1, FS_EmptySet
        <4> QED
          BY <2>0, <2>1, <2>4, <3>1, <4>1
      <3>2. CASE s # {}
        <4>1. h[s \ {Some(s)}] = g[s \ {Some(s)}]
          <5>1. /\ s \ {Some(s)} \in SUBSET S /\ Cardinality(s) \in Nat
                /\ Cardinality(s \ {Some(s)}) = Cardinality(s) - 1
            BY <1>2, <1>3, <3>2
          <5>2. Cardinality(s \ {Some(s)}) # n + 1
            BY <2>0, <2>5, <5>1
          <5> QED
            BY <2>4, <5>1, <5>2
        <4>2. CASE Cardinality(s) = n + 1
          BY <2>4, <3>2, <4>1, <4>2
        <4>3. CASE Cardinality(s) # n + 1
          <5>1. Cardinality(s) <= n
            BY <1>2, <2>0, <2>5, <4>3
          <5> QED
            BY <2>1, <2>4, <3>2, <4>1, <4>3, <5>1
        <4> QED
          BY <4>2, <4>3
      <3> QED
        BY <3>1, <3>2
    <2>6. UpTo(h, n + 1)
      BY <2>5
    <2>7. n + 1 \in 0 .. K
      BY <1>1, <1>5
    <2> HIDE DEF UpTo, K
    <2> QED
      BY <2>3, <2>6, <2>7
  <1>6. K \in Q
    <2> HIDE DEF Q
    <2> QED
      BY <1>1, <1>4, <1>5, InductionTo
  <1>7. PICK g \in [SUBSET S -> Nat] : UpTo(g, K)
    BY <1>6
  <1>8. Sums(g, f, S)
    BY <1>2, <1>7 DEF Sums
  <1> QED
    BY <1>8

LEMMA SumIsOne ==
  ASSUME NEW S, IsFiniteSet(S), NEW f \in [S -> Nat]
  PROVE  \E g : Sums(g, f, S) /\ SumFunction(f) = g[S]
  <1> DEFINE Body(g) == [s \in SUBSET S |-> IF s = {} THEN 0 ELSE f[Some(s)] + g[s \ {Some(s)}]]
             iter == CHOOSE g : g = Body(g)
  <1>1. DOMAIN f = S
    OBVIOUS
  <1>2. SumFunction(f) = iter[S]
    BY <1>1 DEF SumFunction, SumFunctionOnSet, FoldFunctionOnSet, MapThenFoldSet, Some
  <1>3. PICK g \in [SUBSET S -> Nat] : Sums(g, f, S)
    BY SumsExist
  <1>4. g = Body(g)
    BY <1>3 DEF Sums
  <1>5. iter = Body(iter)
    BY <1>4
  <1> HIDE DEF iter
  <1>6. Sums(iter, f, S)
    BY <1>5 DEF Sums
  <1> QED
    BY <1>2, <1>6

\* Any element may be the first.
AnyFirst(g, f, S) ==
  \A s \in SUBSET S : /\ g[s] \in Nat
                     /\ \A x \in s : g[s] = f[x] + g[s \ {x}]

LEMMA SumsTake ==
  ASSUME NEW S, IsFiniteSet(S), NEW f \in [S -> Nat], NEW g, Sums(g, f, S)
  PROVE  AnyFirst(g, f, S)
  <1> DEFINE K == Cardinality(S)
             Good(s) == g[s] \in Nat /\ \A x \in s : g[s] = f[x] + g[s \ {x}]
             Q == {n \in 0 .. K : \A s \in SUBSET S : Cardinality(s) <= n => Good(s)}
  <1>1. K \in Nat /\ 0 \in 0 .. K /\ K \in 0 .. K
    BY FS_CardinalityType
  <1>2. \A s \in SUBSET S : IsFiniteSet(s) /\ Cardinality(s) \in Nat /\ Cardinality(s) <= K
    BY FS_Subset, FS_CardinalityType
  <1>3. \A s \in SUBSET S : \A x \in s : s \ {x} \in SUBSET S /\ Cardinality(s \ {x}) = Cardinality(s) - 1
    BY <1>2, FS_RemoveElement
  <1> HIDE DEF K
  <1>4. 0 \in Q
    <2>1. \A s \in SUBSET S : Cardinality(s) <= 0 => s = {}
      BY <1>2, FS_EmptySet
    <2>2. Good({})
      BY DEF Sums
    <2> QED
      BY <1>1, <2>1, <2>2
  <1>5. ASSUME NEW n \in 0 .. K, n \in Q, n + 1 <= K PROVE n + 1 \in Q
    <2>1. n \in Nat /\ n + 1 \in 0 .. K
      BY <1>1, <1>5
    <2>2. \A s \in SUBSET S : Cardinality(s) <= n => Good(s)
      BY <1>5
    <2>3. ASSUME NEW s \in SUBSET S, Cardinality(s) <= n + 1 PROVE Good(s)
      <3>1. CASE s = {}
        BY <3>1 DEF Sums
      <3>2. CASE s # {}
        <4> DEFINE c == Some(s)
        <4>1. c \in s
          BY <3>2 DEF Some
        <4>2. g[s] = f[c] + g[s \ {c}]
          BY <3>2 DEF Sums
        <4> HIDE DEF c
        <4>3. \A x \in s : s \ {x} \in SUBSET S /\ Good(s \ {x})
          <5> TAKE x \in s
          <5>1. s \ {x} \in SUBSET S /\ Cardinality(s \ {x}) <= n
            BY <1>2, <1>3, <2>1, <2>3
          <5> HIDE DEF Good
          <5> QED
            BY <2>2, <5>1
        <4>4. g[s] \in Nat
          BY <4>1, <4>2, <4>3
        <4>5. ASSUME NEW x \in s PROVE g[s] = f[x] + g[s \ {x}]
          <5>1. CASE x = c
            BY <4>2, <5>1
          <5>2. CASE x # c
            <6>1. g[s \ {c}] = f[x] + g[(s \ {c}) \ {x}] /\ g[s \ {x}] = f[c] + g[(s \ {x}) \ {c}]
              BY <4>1, <4>3, <5>2
            <6>2. (s \ {c}) \ {x} = (s \ {x}) \ {c}
              OBVIOUS
            <6>3. f[x] \in Nat /\ f[c] \in Nat /\ g[(s \ {x}) \ {c}] \in Nat
              <7>1. Cardinality((s \ {x}) \ {c}) <= n /\ (s \ {x}) \ {c} \in SUBSET S
                <8>1. c \in s \ {x} /\ s \ {x} \in SUBSET S
                  BY <4>1, <5>2
                <8>2. Cardinality((s \ {x}) \ {c}) = Cardinality(s \ {x}) - 1
                  BY <1>3, <8>1
                <8>3. Cardinality(s \ {x}) = Cardinality(s) - 1 /\ Cardinality(s) \in Nat
                  BY <1>2, <1>3
                <8> QED
                  BY <2>1, <2>3, <8>1, <8>2, <8>3
              <7> QED
                BY <2>2, <4>1, <7>1
            <6>4. PICK m \in Nat : m = g[(s \ {x}) \ {c}]
              BY <6>3
            <6>5. g[s \ {c}] = f[x] + m /\ g[s \ {x}] = f[c] + m
              BY <6>1, <6>2, <6>4
            <6>6. f[x] + (f[c] + m) = f[c] + (f[x] + m)
              BY <6>3
            <6> QED
              BY <4>2, <6>5, <6>6
          <5> QED
            BY <5>1, <5>2
        <4> QED
          BY <4>4, <4>5
      <3> QED
        BY <3>1, <3>2
    <2> HIDE DEF Good
    <2> QED
      BY <2>1, <2>3
  <1>6. K \in Q
    <2> HIDE DEF Q
    <2> QED
      BY <1>1, <1>4, <1>5, InductionTo
  <1> QED
    BY <1>2, <1>6 DEF AnyFirst

\* Two ways to sum the same numbers agree.
LEMMA SumsAgree ==
  ASSUME NEW S, IsFiniteSet(S), NEW f \in [S -> Nat], NEW g, Sums(g, f, S),
         NEW T \in SUBSET S, NEW e \in [T -> Nat], \A x \in T : e[x] = f[x], NEW h, Sums(h, e, T)
  PROVE  h[T] = g[T]
  <1> DEFINE Q == {s \in SUBSET T : h[s] = g[s]}
  <1>1. IsFiniteSet(T)
    BY FS_Subset
  <1>2. \A s \in SUBSET S : \A x \in s : g[s] = f[x] + g[s \ {x}]
    <2>1. AnyFirst(g, f, S)
      BY SumsTake
    <2> QED
      BY <2>1 DEF AnyFirst
  <1>3. \A s \in SUBSET T : \A x \in s : h[s] = e[x] + h[s \ {x}]
    <2>1. AnyFirst(h, e, T)
      BY <1>1, SumsTake
    <2> QED
      BY <2>1 DEF AnyFirst
  <1>4. {} \in Q
    BY DEF Sums
  <1>5. ASSUME NEW s \in SUBSET T, NEW x \in T, s \in Q, x \notin s PROVE s \union {x} \in Q
    <2>1. (s \union {x}) \ {x} = s /\ x \in s \union {x}
      BY <1>5
    <2>2. s \union {x} \in SUBSET T /\ s \union {x} \in SUBSET S
      OBVIOUS
    <2>3. g[s \union {x}] = f[x] + g[s] /\ h[s \union {x}] = e[x] + h[s]
      BY <1>2, <1>3, <2>1, <2>2
    <2> QED
      BY <1>5, <2>2, <2>3
  <1> HIDE DEF Q
  <1>6. T \in Q
    BY <1>1, <1>4, <1>5, SubsetInduction
  <1> QED
    BY <1>6 DEF Q

LEMMA SumEmpty ==
  ASSUME NEW f \in [{} -> Nat] PROVE SumFunction(f) = 0
  <1>1. PICK g : Sums(g, f, {}) /\ SumFunction(f) = g[{}]
    BY FS_EmptySet, SumIsOne
  <1> QED
    BY <1>1 DEF Sums

LEMMA SumNat ==
  ASSUME NEW S, IsFiniteSet(S), NEW f \in [S -> Nat] PROVE SumFunction(f) \in Nat
  <1>1. PICK g : Sums(g, f, S) /\ SumFunction(f) = g[S]
    BY SumIsOne
  <1>2. g[S] \in Nat
    BY <1>1, SumsTake DEF AnyFirst
  <1> QED
    BY <1>1, <1>2

\* One element taken out of a sum.
LEMMA SumTake ==
  ASSUME NEW S, IsFiniteSet(S), NEW f \in [S -> Nat], NEW x \in S,
         NEW e \in [S \ {x} -> Nat], \A y \in S \ {x} : e[y] = f[y]
  PROVE  SumFunction(f) = f[x] + SumFunction(e)
  <1>1. PICK g : Sums(g, f, S) /\ SumFunction(f) = g[S]
    BY SumIsOne
  <1>2. IsFiniteSet(S \ {x})
    BY FS_RemoveElement
  <1>3. PICK h : Sums(h, e, S \ {x}) /\ SumFunction(e) = h[S \ {x}]
    BY <1>2, SumIsOne
  <1>4. g[S] = f[x] + g[S \ {x}]
    BY <1>1, SumsTake DEF AnyFirst
  <1>5. h[S \ {x}] = g[S \ {x}]
    <2>1. S \ {x} \in SUBSET S
      OBVIOUS
    <2> QED
      BY <1>1, <1>3, <2>1, SumsAgree
  <1> QED
    BY <1>1, <1>3, <1>4, <1>5

\* g has the sums of all parts of f.
Summed(g, f, S) ==
  /\ \A s \in SUBSET S : g[s] \in Nat
  /\ \A s \in SUBSET S : \A x \in S \ s : g[s \union {x}] = f[x] + g[s]
  /\ g[{}] = 0
  /\ \A T \in SUBSET S : g[T] = SumFunction([x \in T |-> f[x]])
  /\ g[S] = SumFunction(f)

LEMMA SumOfParts ==
  ASSUME NEW S, IsFiniteSet(S), NEW f \in [S -> Nat]
  PROVE  \E g : Summed(g, f, S)
  <1>1. PICK g : Sums(g, f, S) /\ SumFunction(f) = g[S]
    BY SumIsOne
  <1>2. AnyFirst(g, f, S)
    BY <1>1, SumsTake
  <1>5. \A s \in SUBSET S : g[s] \in Nat
    BY <1>2 DEF AnyFirst
  <1>6. ASSUME NEW s \in SUBSET S, NEW x \in S \ s PROVE g[s \union {x}] = f[x] + g[s]
    <2>1. (s \union {x}) \ {x} = s /\ x \in s \union {x} /\ s \union {x} \in SUBSET S
      OBVIOUS
    <2> QED
      BY <1>2, <2>1 DEF AnyFirst
  <1>3. g[{}] = 0
    BY <1>1 DEF Sums
  <1>4. ASSUME NEW T \in SUBSET S PROVE g[T] = SumFunction([x \in T |-> f[x]])
    <2> DEFINE e == [x \in T |-> f[x]]
    <2>1. e \in [T -> Nat] /\ \A x \in T : e[x] = f[x]
      OBVIOUS
    <2>2. IsFiniteSet(T)
      BY FS_Subset
    <2> HIDE DEF e
    <2>3. PICK h : Sums(h, e, T) /\ SumFunction(e) = h[T]
      BY <2>1, <2>2, SumIsOne
    <2>4. h[T] = g[T]
      BY <1>1, <2>1, <2>3, SumsAgree
    <2> QED
      BY <2>3, <2>4 DEF e
  <1> QED
    BY <1>1, <1>3, <1>4, <1>5, <1>6 DEF Summed

LEMMA SumMono ==
  ASSUME NEW S, IsFiniteSet(S), NEW f \in [S -> Nat], NEW h \in [S -> Nat],
         \A x \in S : h[x] <= f[x]
  PROVE  SumFunction(h) <= SumFunction(f)
  <1>1. PICK a : Summed(a, f, S)
    BY SumOfParts
  <1>2. PICK b : Summed(b, h, S)
    BY SumOfParts
  <1> DEFINE Q == {s \in SUBSET S : b[s] <= a[s]}
  <1>3. {} \in Q
    BY <1>1, <1>2 DEF Summed
  <1>4. ASSUME NEW s \in SUBSET S, NEW x \in S, s \in Q, x \notin s PROVE s \union {x} \in Q
    <2>1. x \in S \ s /\ s \union {x} \in SUBSET S
      BY <1>4
    <2>2. /\ a[s \union {x}] = f[x] + a[s] /\ b[s \union {x}] = h[x] + b[s]
          /\ a[s] \in Nat /\ b[s] \in Nat
      BY <1>1, <1>2, <2>1 DEF Summed
    <2>3. h[x] <= f[x] /\ h[x] \in Nat /\ f[x] \in Nat /\ b[s] <= a[s]
      BY <1>4
    <2>4. h[x] + b[s] <= f[x] + a[s]
      BY <2>2, <2>3
    <2> QED
      BY <2>1, <2>2, <2>4
  <1> HIDE DEF Q
  <1>5. S \in Q
    BY <1>3, <1>4, SubsetInduction
  <1> QED
    BY <1>1, <1>2, <1>5 DEF Q, Summed

\* Where f and h differ at one element, or h is less.
LEMMA SumOne ==
  ASSUME NEW S, IsFiniteSet(S), NEW f \in [S -> Nat], NEW h \in [S -> Nat], NEW p \in S,
         \A x \in S \ {p} : h[x] <= f[x]
  PROVE  SumFunction(h) + f[p] <= SumFunction(f) + h[p]
  <1> DEFINE T == S \ {p}
             e == [x \in T |-> f[x]]
             d == [x \in T |-> h[x]]
  <1>1. IsFiniteSet(T)
    BY FS_RemoveElement
  <1>2. e \in [T -> Nat] /\ d \in [T -> Nat] /\ \A x \in T : e[x] = f[x] /\ d[x] = h[x] /\ d[x] <= e[x]
    OBVIOUS
  <1> HIDE DEF e, d
  <1>3. SumFunction(f) = f[p] + SumFunction(e) /\ SumFunction(h) = h[p] + SumFunction(d)
    BY <1>2, SumTake
  <1> HIDE DEF T
  <1>4. SumFunction(d) <= SumFunction(e)
    BY <1>1, <1>2, SumMono
  <1>5. SumFunction(d) \in Nat /\ SumFunction(e) \in Nat
    BY <1>1, <1>2, SumNat
  <1>6. f[p] \in Nat /\ h[p] \in Nat
    OBVIOUS
  <1>7. PICK m \in Nat, n \in Nat : m = SumFunction(d) /\ n = SumFunction(e)
    BY <1>5
  <1> QED
    BY <1>3, <1>4, <1>6, <1>7

LEMMA SumTwo ==
  ASSUME NEW S, IsFiniteSet(S), NEW f \in [S -> Nat], NEW h \in [S -> Nat], NEW p \in S, NEW q \in S, p # q,
         \A x \in S \ {p, q} : h[x] <= f[x]
  PROVE  SumFunction(h) + f[p] + f[q] <= SumFunction(f) + h[p] + h[q]
  <1> DEFINE e == [h EXCEPT ![q] = f[q]]
  <1>1. /\ e \in [S -> Nat] /\ e[q] = f[q] /\ e[p] = h[p]
        /\ \A x \in S \ {q} : h[x] <= e[x]
        /\ \A x \in S \ {p} : e[x] <= f[x]
    OBVIOUS
  <1> HIDE DEF e
  <1>2. SumFunction(h) + e[q] <= SumFunction(e) + h[q]
    BY <1>1, SumOne
  <1>3. SumFunction(e) + f[p] <= SumFunction(f) + e[p]
    BY <1>1, SumOne
  <1>4. PICK m \in Nat, n \in Nat, k \in Nat :
           m = SumFunction(h) /\ n = SumFunction(e) /\ k = SumFunction(f)
    BY <1>1, SumNat
  <1>5. f[p] \in Nat /\ f[q] \in Nat /\ h[p] \in Nat /\ h[q] \in Nat
    OBVIOUS
  <1> QED
    BY <1>1, <1>2, <1>3, <1>4, <1>5

\* A sum of sums.
LEMMA SumAdd ==
  ASSUME NEW S, IsFiniteSet(S), NEW f \in [S -> Nat], NEW d \in [S -> Nat], NEW h \in [S -> Nat],
         \A x \in S : h[x] = f[x] + d[x]
  PROVE  SumFunction(h) = SumFunction(f) + SumFunction(d)
  <1>1. PICK a : Summed(a, f, S)
    BY SumOfParts
  <1>2. PICK b : Summed(b, d, S)
    BY SumOfParts
  <1>3. PICK c : Summed(c, h, S)
    BY SumOfParts
  <1> DEFINE Q == {s \in SUBSET S : c[s] = a[s] + b[s]}
  <1>4. {} \in Q
    BY <1>1, <1>2, <1>3 DEF Summed
  <1>5. ASSUME NEW s \in SUBSET S, NEW x \in S, s \in Q, x \notin s PROVE s \union {x} \in Q
    <2>1. x \in S \ s /\ s \union {x} \in SUBSET S
      BY <1>5
    <2>2. /\ a[s \union {x}] = f[x] + a[s] /\ b[s \union {x}] = d[x] + b[s]
          /\ c[s \union {x}] = h[x] + c[s]
          /\ a[s] \in Nat /\ b[s] \in Nat /\ c[s] \in Nat
      BY <1>1, <1>2, <1>3, <2>1 DEF Summed
    <2>3. h[x] = f[x] + d[x] /\ d[x] \in Nat /\ f[x] \in Nat /\ c[s] = a[s] + b[s]
      BY <1>5
    <2>4. h[x] + c[s] = (f[x] + a[s]) + (d[x] + b[s])
      BY <2>2, <2>3
    <2> QED
      BY <2>1, <2>2, <2>4
  <1> HIDE DEF Q
  <1>6. S \in Q
    BY <1>4, <1>5, SubsetInduction
  <1> QED
    BY <1>1, <1>2, <1>3, <1>6 DEF Q, Summed

LEMMA SumOfZeros ==
  ASSUME NEW S, IsFiniteSet(S), NEW f \in [S -> Nat], \A x \in S : f[x] = 0 PROVE SumFunction(f) = 0
  <1>1. \A x \in S : f[x] = f[x] + f[x]
    OBVIOUS
  <1>2. SumFunction(f) = SumFunction(f) + SumFunction(f)
    BY <1>1, SumAdd
  <1>3. PICK n \in Nat : n = SumFunction(f)
    BY SumNat
  <1>4. n = n + n
    BY <1>2, <1>3
  <1>5. n = 0
    BY <1>4
  <1> QED
    BY <1>3, <1>5

\* The two halves of a sum.
LEMMA SumSplit ==
  ASSUME NEW S, IsFiniteSet(S), NEW f \in [S -> Nat], NEW T \in SUBSET S
  PROVE  SumFunction(f) = SumFunction([x \in T |-> f[x]]) + SumFunction([x \in S \ T |-> f[x]])
  <1>1. PICK a : Summed(a, f, S)
    BY SumOfParts
  <1> DEFINE Q == {s \in SUBSET T : a[S] = a[s] + a[S \ s]}
  <1>2. {} \in Q
    <2>1. a[S] \in Nat /\ a[{}] = 0 /\ S \ {} = S
      BY <1>1 DEF Summed
    <2> QED
      BY <2>1
  <1>3. ASSUME NEW s \in SUBSET T, NEW x \in T, s \in Q, x \notin s PROVE s \union {x} \in Q
    <2> DEFINE u == S \ (s \union {x})
    <2>1. /\ x \in S \ s /\ s \in SUBSET S
          /\ x \in S \ u /\ u \in SUBSET S /\ u \union {x} = S \ s
      BY <1>3
    <2> HIDE DEF u
    <2>2. /\ a[s \union {x}] = f[x] + a[s] /\ a[S \ s] = f[x] + a[u] /\ a[s] \in Nat /\ a[u] \in Nat
      BY <1>1, <2>1 DEF Summed
    <2>3. a[S] = a[s] + a[S \ s] /\ f[x] \in Nat
      BY <1>3
    <2>4. a[S] = a[s \union {x}] + a[u]
      BY <2>2, <2>3
    <2> QED
      BY <2>4 DEF u
  <1>4. IsFiniteSet(T)
    BY FS_Subset
  <1> HIDE DEF Q
  <1>5. T \in Q
    BY <1>2, <1>3, <1>4, SubsetInduction
  <1>6. a[S] = a[T] + a[S \ T]
    BY <1>5 DEF Q
  <1> QED
    BY <1>1, <1>6 DEF Summed

\* Elements matched with others, each with as much at least.
LEMMA SumMatched ==
  ASSUME NEW A, NEW B, IsFiniteSet(A), IsFiniteSet(B), NEW f \in [A -> Nat], NEW d \in [B -> Nat],
         NEW m \in [A -> B], \A x, y \in A : m[x] = m[y] => x = y, \A x \in A : f[x] <= d[m[x]]
  PROVE  SumFunction(f) <= SumFunction(d)
  <1>1. PICK a : Summed(a, f, A)
    BY SumOfParts
  <1>2. PICK b : Summed(b, d, B)
    BY SumOfParts
  <1> DEFINE Im(s) == {m[x] : x \in s}
             Q == {s \in SUBSET A : a[s] <= b[Im(s)]}
  <1>3. {} \in Q
    <2>1. Im({}) = {}
      OBVIOUS
    <2> HIDE DEF Im
    <2> QED
      BY <1>1, <1>2, <2>1 DEF Summed
  <1>4. ASSUME NEW s \in SUBSET A, NEW x \in A, s \in Q, x \notin s PROVE s \union {x} \in Q
    <2>1. x \in A \ s /\ s \union {x} \in SUBSET A
      BY <1>4
    <2>2. Im(s \union {x}) = Im(s) \union {m[x]} /\ m[x] \in B /\ m[x] \notin Im(s) /\ Im(s) \in SUBSET B
      BY <1>4
    <2>3. a[s] <= b[Im(s)]
      BY <1>4
    <2> HIDE DEF Im
    <2>4. m[x] \in B \ Im(s) /\ Im(s) \in SUBSET B
      BY <2>2
    <2>5. a[s \union {x}] = f[x] + a[s] /\ a[s] \in Nat
      BY <1>1, <2>1 DEF Summed
    <2>6. b[Im(s) \union {m[x]}] = d[m[x]] + b[Im(s)] /\ b[Im(s)] \in Nat
      BY <1>2, <2>2, <2>4 DEF Summed
    <2>7. f[x] <= d[m[x]] /\ f[x] \in Nat /\ d[m[x]] \in Nat
      BY <2>2
    <2>8. f[x] + a[s] <= d[m[x]] + b[Im(s)]
      BY <2>3, <2>5, <2>6, <2>7
    <2>9. a[s \union {x}] <= b[Im(s \union {x})]
      BY <2>2, <2>5, <2>6, <2>8
    <2> QED
      BY <2>1, <2>9
  <1> HIDE DEF Q
  <1>5. A \in Q
    BY <1>3, <1>4, SubsetInduction
  <1>6. a[A] <= b[Im(A)] /\ Im(A) \in SUBSET B
    BY <1>5 DEF Q
  <1> HIDE DEF Im
  <1>7. SumFunction(f) = a[A] /\ b[Im(A)] = SumFunction([x \in Im(A) |-> d[x]]) /\ b[B] = SumFunction(d)
    BY <1>1, <1>2, <1>6 DEF Summed
  <1>8. SumFunction(d) = SumFunction([x \in Im(A) |-> d[x]]) + SumFunction([x \in B \ Im(A) |-> d[x]])
    <2>1. PICK I \in SUBSET B : I = Im(A)
      BY <1>6
    <2>2. SumFunction(d) = SumFunction([x \in I |-> d[x]]) + SumFunction([x \in B \ I |-> d[x]])
      BY SumSplit
    <2> QED
      BY <2>1, <2>2
  <1>9. B \ Im(A) \in SUBSET B
    OBVIOUS
  <1>10. SumFunction([x \in B \ Im(A) |-> d[x]]) = b[B \ Im(A)] /\ b[B \ Im(A)] \in Nat /\ b[Im(A)] \in Nat
    BY <1>2, <1>6, <1>9 DEF Summed
  <1>11. a[A] \in Nat
    BY <1>1 DEF Summed
  <1>12. PICK x \in Nat, y \in Nat, z \in Nat : x = a[A] /\ y = b[Im(A)] /\ z = b[B \ Im(A)]
    BY <1>10, <1>11
  <1> QED
    BY <1>6, <1>7, <1>8, <1>10, <1>12

\* The sum of the part of R that belongs to p.
PartSum(f, owner, R, p) == SumFunction([r \in {x \in R : owner[x] = p} |-> f[r]])

LEMMA SumPartition ==
  ASSUME NEW R, NEW P, IsFiniteSet(R), IsFiniteSet(P), NEW f \in [R -> Nat], NEW owner \in [R -> P]
  PROVE  SumFunction([p \in P |-> PartSum(f, owner, R, p)]) = SumFunction(f)
  <1>1. PICK a : Summed(a, f, R)
    BY SumOfParts
  <1> DEFINE Of(p, s) == {x \in s : owner[x] = p}
             Parts(s) == [p \in P |-> a[Of(p, s)]]
             Q == {s \in SUBSET R : SumFunction(Parts(s)) = a[s]}
  <1>2. \A s \in SUBSET R : Parts(s) \in [P -> Nat]
    <2>1. \A s \in SUBSET R : \A p \in P : Of(p, s) \in SUBSET R
      OBVIOUS
    <2> HIDE DEF Of
    <2> QED
      BY <1>1, <2>1 DEF Summed
  <1>3. {} \in Q
    <2>1. \A p \in P : Parts({})[p] = 0
      <3>1. \A p \in P : Of(p, {}) = {}
        OBVIOUS
      <3> HIDE DEF Of
      <3> QED
        BY <1>1, <3>1 DEF Summed
    <2>2. SumFunction(Parts({})) = 0
      <3> HIDE DEF Parts
      <3> QED
        BY <1>2, <2>1, SumOfZeros
    <2> QED
      BY <1>1, <2>2 DEF Summed
  <1>4. ASSUME NEW s \in SUBSET R, NEW x \in R, s \in Q, x \notin s PROVE s \union {x} \in Q
    <2> DEFINE t == s \union {x}
               p == owner[x]
    <2>1. t = s \union {x} /\ x \in R \ s /\ t \in SUBSET R
      BY <1>4
    <2>2. p \in P /\ \A q \in P \ {p} : Of(q, t) = Of(q, s)
      OBVIOUS
    <2>3. Of(p, s) \in SUBSET R /\ x \in R \ Of(p, s) /\ Of(p, t) = Of(p, s) \union {x}
      BY <1>4
    <2>4. Parts(t) \in [P -> Nat] /\ Parts(s) \in [P -> Nat]
      BY <1>2, <2>1
    <2>5. SumFunction(Parts(s)) = a[s]
      BY <1>4
    <2> HIDE DEF Of, t, p
    <2>6. \A q \in P \ {p} : Parts(t)[q] <= Parts(s)[q] /\ Parts(s)[q] <= Parts(t)[q]
      <3>1. \A q \in P \ {p} : Parts(t)[q] = Parts(s)[q]
        BY <2>2
      <3>2. \A q \in P : Parts(t)[q] \in Nat
        BY <2>4
      <3> HIDE DEF Parts
      <3> QED
        BY <3>1, <3>2
    <2>7. a[Of(p, t)] = f[x] + a[Of(p, s)] /\ a[t] = f[x] + a[s] /\ a[s] \in Nat
      BY <1>1, <2>1, <2>3 DEF Summed
    <2>8. Parts(t)[p] = f[x] + Parts(s)[p] /\ Parts(s)[p] \in Nat /\ f[x] \in Nat
      BY <2>2, <2>4, <2>7
    <2> HIDE DEF Parts
    <2>9. /\ SumFunction(Parts(t)) + Parts(s)[p] <= SumFunction(Parts(s)) + Parts(t)[p]
          /\ SumFunction(Parts(s)) + Parts(t)[p] <= SumFunction(Parts(t)) + Parts(s)[p]
      BY <2>2, <2>4, <2>6, SumOne
    <2>10. SumFunction(Parts(t)) \in Nat
      BY <2>4, SumNat
    <2>11. SumFunction(Parts(t)) = a[t]
      <3>1. PICK i \in Nat, j \in Nat, k \in Nat, l \in Nat :
              i = SumFunction(Parts(t)) /\ j = a[s] /\ k = Parts(s)[p] /\ l = f[x]
        BY <2>7, <2>8, <2>10
      <3>2. i + k <= j + (l + k) /\ j + (l + k) <= i + k
        BY <2>5, <2>8, <2>9, <3>1
      <3>3. i = l + j
        BY <3>2
      <3> QED
        BY <2>7, <3>1, <3>3
    <2> QED
      BY <2>1, <2>11 DEF t
  <1> HIDE DEF Q
  <1>5. R \in Q
    BY <1>3, <1>4, SubsetInduction
  <1>6. SumFunction(Parts(R)) = a[R]
    BY <1>5 DEF Q
  <1>7. \A p \in P : a[Of(p, R)] = SumFunction([r \in Of(p, R) |-> f[r]])
    <2>1. \A p \in P : Of(p, R) \in SUBSET R
      OBVIOUS
    <2> HIDE DEF Of
    <2> QED
      BY <1>1, <2>1 DEF Summed
  <1>8. a[R] = SumFunction(f)
    BY <1>1 DEF Summed
  <1>9. Parts(R) = [p \in P |-> PartSum(f, owner, R, p)]
    BY <1>7 DEF PartSum
  <1> QED
    BY <1>6, <1>8, <1>9

-----------------------------------------------------------------------------
(* Records and offers, by kind.                                            *)

Kinds == {"items", "money"}

\* So many items, so much money.
Units(k, items, money) == IF k = "items" THEN items ELSE money

Larger(i, j) == IF i <= j THEN j ELSE i

Val(k, r) == Units(k, ItemsOf(r), r.money)
In(k, o) == Units(k, ItemsIn(o), MoneyIn(o))
Offered(k, s) == Units(k, ItemsOffered(s), MoneyOffered(s))

LEMMA MinOfTwo ==
  ASSUME NEW i \in Nat, NEW j \in Nat PROVE Min({i, j}) = IF i <= j THEN i ELSE j
  BY DEF Min

LEMMA ValNat == \A r \in Record, k \in Kinds : Val(k, r) \in Nat
  BY DEF Record, Kinds, Val, Units, ItemsOf

\* The operators on records are what they are named for.
LEMMA PaysGives ==
  ASSUME NEW r \in Record, NEW n \in Nat, n <= r.money
  PROVE  Pays(r, n) \in Record /\ ItemsOf(Pays(r, n)) = ItemsOf(r) /\ Pays(r, n).money = r.money - n
  BY DEF Record, Pays, ItemsOf

LEMMA EarnsGets ==
  ASSUME NEW r \in Record, NEW n \in Nat
  PROVE  Earns(r, n) \in Record /\ ItemsOf(Earns(r, n)) = ItemsOf(r) /\ Earns(r, n).money = r.money + n
  BY DEF Record, Earns, ItemsOf

LEMMA ReceivesGets ==
  ASSUME NEW r \in Record, NEW n \in Nat
  PROVE  Receives(r, n) \in Record /\ ItemsOf(Receives(r, n)) = ItemsOf(r) + n /\ Receives(r, n).money = r.money
  BY DEF Record, Receives, ItemsOf

LEMMA GivesTakes ==
  ASSUME NEW r \in Record, NEW n \in Nat
  PROVE  /\ Gives(r, n) \in Record /\ Gives(r, n).money = r.money
         /\ ItemsOf(Gives(r, n)) = IF Has(r, n) THEN ItemsOf(r) - n ELSE 0
  <1>1. r.stash \in Nat /\ r.locker \in Nat /\ r.money \in Nat
    BY DEF Record
  <1>2. PICK m \in Nat : m = Min({n, r.stash}) /\ m <= n /\ m <= r.stash /\ (m = n \/ m = r.stash)
    BY <1>1, MinOfTwo
  <1>3. CASE Has(r, n)
    <2>1. Gives(r, n) = [r EXCEPT !.stash = @ - m, !.locker = @ - (n - m)]
      BY <1>2, <1>3 DEF Gives
    <2>2. n - m <= r.locker /\ n - m \in Nat
      BY <1>1, <1>2, <1>3 DEF Has
    <2>3. r.stash - m \in Nat /\ r.locker - (n - m) \in Nat
      BY <1>1, <1>2, <2>2
    <2>4. /\ Gives(r, n) \in Record /\ Gives(r, n).money = r.money
          /\ Gives(r, n).stash = r.stash - m /\ Gives(r, n).locker = r.locker - (n - m)
      BY <2>1, <2>3 DEF Record
    <2> QED
      BY <1>1, <1>2, <1>3, <2>4 DEF ItemsOf
  <1>4. CASE ~Has(r, n)
    <2>1. PICK z \in Nat : z = 0
      OBVIOUS
    <2>2. Gives(r, n) = [r EXCEPT !.stash = z, !.locker = z]
      BY <1>4, <2>1 DEF Gives
    <2>3. /\ Gives(r, n) \in Record /\ Gives(r, n).money = r.money
          /\ Gives(r, n).stash = z /\ Gives(r, n).locker = z
      BY <2>2 DEF Record
    <2> QED
      BY <1>4, <2>1, <2>3 DEF ItemsOf
  <1> QED
    BY <1>3, <1>4

\* The rows of the table of offers.
OfferType == [id : Nat, player : Players, sale : BOOLEAN, amount : Nat \ {0}, price : Prices]

LEMMA InNat ==
  ASSUME NEW o \in OfferType, NEW k \in Kinds PROVE In(k, o) \in Nat
  <1>1. o.amount \in Nat /\ o.price \in Nat
    BY MarketAssumption DEF OfferType
  <1>2. o.price * o.amount \in Nat
    BY <1>1
  <1> QED
    BY <1>1, <1>2 DEF In, Units, ItemsIn, MoneyIn, Kinds

LEMMA OfferedIsSum ==
  ASSUME NEW s, IsFiniteSet(s), s \subseteq OfferType, NEW k \in Kinds
  PROVE  /\ Offered(k, s) = SumFunction([o \in s |-> In(k, o)])
         /\ [o \in s |-> In(k, o)] \in [s -> Nat]
         /\ Offered(k, s) \in Nat
  <1>1. [o \in s |-> In(k, o)] \in [s -> Nat]
    BY InNat
  <1>2. SumFunction([o \in s |-> In(k, o)]) \in Nat
    BY <1>1, SumNat
  <1>3. Offered(k, s) = SumFunction([o \in s |-> In(k, o)])
    <2>1. CASE k = "items"
      <3>1. [o \in s |-> In(k, o)] = [o \in s |-> ItemsIn(o)]
        BY <2>1 DEF In, Units
      <3> QED
        BY <2>1, <3>1 DEF Offered, Units, ItemsOffered
    <2>2. CASE k = "money"
      <3>1. [o \in s |-> In(k, o)] = [o \in s |-> MoneyIn(o)]
        BY <2>2 DEF In, Units
      <3> QED
        BY <2>2, <3>1 DEF Offered, Units, MoneyOffered
    <2> QED
      BY <2>1, <2>2 DEF Kinds
  <1> QED
    BY <1>1, <1>2, <1>3

LEMMA OfferedNone == ASSUME NEW k \in Kinds PROVE Offered(k, {}) = 0
  <1>1. IsFiniteSet({}) /\ {} \subseteq OfferType
    BY FS_EmptySet
  <1>2. Offered(k, {}) = SumFunction([o \in {} |-> In(k, o)]) /\ [o \in {} |-> In(k, o)] \in [{} -> Nat]
    BY <1>1, OfferedIsSum
  <1> QED
    BY <1>2, SumEmpty

\* One offer is added to others.
LEMMA OfferedWith ==
  ASSUME NEW s, IsFiniteSet(s), s \subseteq OfferType, NEW k \in Kinds, NEW o \in OfferType, o \notin s
  PROVE  Offered(k, s \union {o}) = Offered(k, s) + In(k, o)
  <1> DEFINE f == [x \in s \union {o} |-> In(k, x)]
             e == [x \in s |-> In(k, x)]
  <1>1. IsFiniteSet(s \union {o}) /\ s \union {o} \subseteq OfferType
    BY FS_AddElement
  <1>2. Offered(k, s \union {o}) = SumFunction(f) /\ f \in [s \union {o} -> Nat]
    BY <1>1, OfferedIsSum
  <1>3. Offered(k, s) = SumFunction(e) /\ e \in [s -> Nat]
    BY OfferedIsSum
  <1>4. f[o] = In(k, o) /\ \A y \in s : e[y] = f[y]
    OBVIOUS
  <1> HIDE DEF f, e
  <1>5. PICK S : S = s \union {o}
    OBVIOUS
  <1>6. S \ {o} = s /\ o \in S
    BY <1>5
  <1>7. SumFunction(f) = f[o] + SumFunction(e)
    BY <1>1, <1>2, <1>3, <1>4, <1>5, <1>6, SumTake
  <1>8. SumFunction(e) \in Nat /\ In(k, o) \in Nat
    BY <1>3, SumNat, InNat
  <1> QED
    BY <1>2, <1>3, <1>4, <1>7, <1>8

LEMMA OfferedOne ==
  ASSUME NEW k \in Kinds, NEW o \in OfferType
  PROVE  Offered(k, {o}) = In(k, o)
  <1>1. IsFiniteSet({}) /\ {} \subseteq OfferType /\ o \notin {} /\ {o} = {} \union {o}
    BY FS_EmptySet
  <1>2. Offered(k, {} \union {o}) = Offered(k, {}) + In(k, o)
    BY <1>1, OfferedWith
  <1> QED
    BY <1>1, <1>2, OfferedNone, InNat

\* Offers are taken away.
LEMMA OfferedWithout ==
  ASSUME NEW s, IsFiniteSet(s), s \subseteq OfferType, NEW k \in Kinds, NEW t \in SUBSET s
  PROVE  Offered(k, s) = Offered(k, t) + Offered(k, s \ t)
  <1> DEFINE f == [x \in s |-> In(k, x)]
  <1>1. Offered(k, s) = SumFunction(f) /\ f \in [s -> Nat]
    BY OfferedIsSum
  <1>2. IsFiniteSet(t) /\ IsFiniteSet(s \ t) /\ t \subseteq OfferType /\ s \ t \subseteq OfferType
    BY FS_Subset, FS_Difference
  <1>3. Offered(k, t) = SumFunction([x \in t |-> In(k, x)])
    BY <1>2, OfferedIsSum
  <1>4. Offered(k, s \ t) = SumFunction([x \in s \ t |-> In(k, x)])
    BY <1>2, OfferedIsSum
  <1>5. /\ [x \in t |-> In(k, x)] = [x \in t |-> f[x]]
        /\ [x \in s \ t |-> In(k, x)] = [x \in s \ t |-> f[x]]
    OBVIOUS
  <1> HIDE DEF f
  <1>6. SumFunction(f) = SumFunction([x \in t |-> f[x]]) + SumFunction([x \in s \ t |-> f[x]])
    BY <1>1, SumSplit
  <1> QED
    BY <1>1, <1>3, <1>4, <1>5, <1>6

\* What is left in offers goes to their creator, but for items that are lost.
LEMMA Refunds ==
  ASSUME NEW r \in Record, NEW s, IsFiniteSet(s), s \subseteq OfferType,
         NEW lost \in Nat, lost <= ItemsOffered(s)
  PROVE  /\ Refund(r, s, lost) \in Record
         /\ \A k \in Kinds : Val(k, Refund(r, s, lost)) + Units(k, lost, 0) = Val(k, r) + Offered(k, s)
  <1>1. "items" \in Kinds /\ "money" \in Kinds
    BY DEF Kinds
  <1>2. Offered("items", s) \in Nat /\ Offered("money", s) \in Nat
    BY <1>1, OfferedIsSum
  <1>3. PICK i \in Nat, m \in Nat : i = ItemsOffered(s) - lost /\ i + lost = ItemsOffered(s) /\ m = MoneyOffered(s)
    BY <1>2 DEF Offered, Units
  <1>4. /\ Receives(r, i) \in Record /\ ItemsOf(Receives(r, i)) = ItemsOf(r) + i
        /\ Receives(r, i).money = r.money
    BY ReceivesGets
  <1>5. /\ Earns(Receives(r, i), m) \in Record
        /\ ItemsOf(Earns(Receives(r, i), m)) = ItemsOf(r) + i
        /\ Earns(Receives(r, i), m).money = r.money + m
    BY <1>4, EarnsGets
  <1>6. Refund(r, s, lost) = Earns(Receives(r, i), m)
    BY <1>3 DEF Refund
  <1>7. ItemsOf(r) \in Nat /\ r.money \in Nat
    BY DEF Record, ItemsOf
  <1>8. /\ Offered("items", s) = i + lost /\ Offered("money", s) = m
        /\ Units("items", lost, 0) = lost /\ Units("money", lost, 0) = 0
    BY <1>3 DEF Offered, Units
  <1>9. /\ Val("items", r) = ItemsOf(r) /\ Val("items", Refund(r, s, lost)) = ItemsOf(r) + i
        /\ Val("money", r) = r.money /\ Val("money", Refund(r, s, lost)) = r.money + m
    BY <1>5, <1>6 DEF Val, Units
  <1>10. /\ ItemsOf(r) + i + lost = ItemsOf(r) + (i + lost)
         /\ r.money + m + 0 = r.money + m
    BY <1>7
  <1> QED
    BY <1>5, <1>6, <1>8, <1>9, <1>10 DEF Kinds

-----------------------------------------------------------------------------
(* The sums of what the players have.                                      *)

Held(k) == [p \in Players |-> Val(k, Found(p))]

\* The more that the game or the database knows of.
Most(k) == [p \in Players |-> Larger(Val(k, Found(p)), Val(k, row[p]))]

RecordsOK ==
  /\ status \in [Players -> {"online", "dead", "offline"}]
  /\ memory \in [Players -> Record]
  /\ row \in [Players -> Record]
  /\ \A p \in Players : status[p] = "offline" => memory[p] = Nothing
  /\ \A p \in Players : status[p] = "dead" => \A k \in Kinds : Val(k, memory[p]) <= Val(k, row[p])

\* A step where the players paid before and get after; what they may have kept of
\* an older save is no more.
Shift(k, before, after) ==
  /\ SumFunction(Held(k)') + before = SumFunction(Held(k)) + after
  /\ SumFunction(Most(k)') + before <= SumFunction(Most(k)) + after

LEMMA OneDiffers ==
  ASSUME NEW S, IsFiniteSet(S), NEW f \in [S -> Nat], NEW g \in [S -> Nat], NEW p \in S,
         \A x \in S \ {p} : g[x] = f[x]
  PROVE  SumFunction(g) + f[p] = SumFunction(f) + g[p]
  <1>1. \A x \in S \ {p} : g[x] <= f[x] /\ f[x] <= g[x]
    OBVIOUS
  <1>2. SumFunction(g) + f[p] <= SumFunction(f) + g[p]
    BY <1>1, SumOne
  <1>3. SumFunction(f) + g[p] <= SumFunction(g) + f[p]
    BY <1>1, SumOne
  <1>4. SumFunction(f) \in Nat /\ SumFunction(g) \in Nat /\ f[p] \in Nat /\ g[p] \in Nat
    BY SumNat
  <1> QED
    BY <1>2, <1>3, <1>4

LEMMA TwoDiffer ==
  ASSUME NEW S, IsFiniteSet(S), NEW f \in [S -> Nat], NEW g \in [S -> Nat], NEW p \in S, NEW q \in S, p # q,
         \A x \in S \ {p, q} : g[x] = f[x]
  PROVE  SumFunction(g) + f[p] + f[q] = SumFunction(f) + g[p] + g[q]
  <1>1. \A x \in S \ {p, q} : g[x] <= f[x] /\ f[x] <= g[x]
    OBVIOUS
  <1>2. SumFunction(g) + f[p] + f[q] <= SumFunction(f) + g[p] + g[q]
    BY <1>1, SumTwo
  <1>3. SumFunction(f) + g[p] + g[q] <= SumFunction(g) + f[p] + f[q]
    BY <1>1, SumTwo
  <1>4. /\ SumFunction(f) \in Nat /\ SumFunction(g) \in Nat
        /\ f[p] \in Nat /\ g[p] \in Nat /\ f[q] \in Nat /\ g[q] \in Nat
    BY SumNat
  <1> QED
    BY <1>2, <1>3, <1>4

LEMMA HeldNat ==
  ASSUME RecordsOK, NEW k \in Kinds
  PROVE  /\ Held(k) \in [Players -> Nat] /\ Most(k) \in [Players -> Nat]
         /\ SumFunction(Held(k)) \in Nat /\ SumFunction(Most(k)) \in Nat
  <1>1. \A p \in Players : Val(k, Found(p)) \in Nat /\ Val(k, row[p]) \in Nat
    BY ValNat DEF RecordsOK, Found
  <1>2. Held(k) \in [Players -> Nat] /\ Most(k) \in [Players -> Nat]
    BY <1>1 DEF Held, Most, Larger
  <1> QED
    BY <1>2, MarketAssumption, SumNat

LEMMA HeldNatNext ==
  ASSUME RecordsOK', NEW k \in Kinds
  PROVE  /\ Held(k)' \in [Players -> Nat] /\ Most(k)' \in [Players -> Nat]
         /\ SumFunction(Held(k)') \in Nat /\ SumFunction(Most(k)') \in Nat
  <1>1. \A p \in Players : Val(k, Found(p)') \in Nat /\ Val(k, row'[p]) \in Nat
    BY ValNat DEF RecordsOK, Found, Online
  <1>2. Held(k)' \in [Players -> Nat] /\ Most(k)' \in [Players -> Nat]
    BY <1>1 DEF Held, Most, Larger
  <1> QED
    BY <1>2, MarketAssumption, SumNat

\* What is held of p after a step where the others keep what they have.
OthersKeep(s) ==
  \A x \in Players \ s : status'[x] = status[x] /\ memory'[x] = memory[x] /\ row'[x] = row[x]

LEMMA OneMoves ==
  ASSUME RecordsOK, RecordsOK', NEW k \in Kinds, NEW p \in Players, OthersKeep({p})
  PROVE  /\ SumFunction(Held(k)') + Held(k)[p] = SumFunction(Held(k)) + Held(k)'[p]
         /\ SumFunction(Most(k)') + Most(k)[p] = SumFunction(Most(k)) + Most(k)'[p]
  <1>1. Held(k) \in [Players -> Nat] /\ Most(k) \in [Players -> Nat]
    BY HeldNat
  <1>2. Held(k)' \in [Players -> Nat] /\ Most(k)' \in [Players -> Nat]
    BY HeldNatNext
  <1>3. \A x \in Players \ {p} : Held(k)'[x] = Held(k)[x] /\ Most(k)'[x] = Most(k)[x]
    BY DEF OthersKeep, Held, Most, Found, Online
  <1> QED
    BY <1>1, <1>2, <1>3, MarketAssumption, OneDiffers

LEMMA TwoMove ==
  ASSUME RecordsOK, RecordsOK', NEW k \in Kinds, NEW p \in Players, NEW q \in Players, p # q, OthersKeep({p, q})
  PROVE  /\ SumFunction(Held(k)') + Held(k)[p] + Held(k)[q] = SumFunction(Held(k)) + Held(k)'[p] + Held(k)'[q]
         /\ SumFunction(Most(k)') + Most(k)[p] + Most(k)[q] = SumFunction(Most(k)) + Most(k)'[p] + Most(k)'[q]
  <1>1. Held(k) \in [Players -> Nat] /\ Most(k) \in [Players -> Nat]
    BY HeldNat
  <1>2. Held(k)' \in [Players -> Nat] /\ Most(k)' \in [Players -> Nat]
    BY HeldNatNext
  <1>3. \A x \in Players \ {p, q} : Held(k)'[x] = Held(k)[x] /\ Most(k)'[x] = Most(k)[x]
    BY DEF OthersKeep, Held, Most, Found, Online
  <1>4. IsFiniteSet(Players)
    BY MarketAssumption
  <1>5. SumFunction(Held(k)') + Held(k)[p] + Held(k)[q] = SumFunction(Held(k)) + Held(k)'[p] + Held(k)'[q]
    <2>1. PICK f \in [Players -> Nat], g \in [Players -> Nat] : f = Held(k) /\ g = Held(k)'
      BY <1>1, <1>2
    <2>2. \A x \in Players \ {p, q} : g[x] = f[x]
      BY <1>3, <2>1
    <2>3. SumFunction(g) + f[p] + f[q] = SumFunction(f) + g[p] + g[q]
      BY <1>4, <2>2, TwoDiffer
    <2> QED
      BY <2>1, <2>3
  <1>6. SumFunction(Most(k)') + Most(k)[p] + Most(k)[q] = SumFunction(Most(k)) + Most(k)'[p] + Most(k)'[q]
    <2>1. PICK f \in [Players -> Nat], g \in [Players -> Nat] : f = Most(k) /\ g = Most(k)'
      BY <1>1, <1>2
    <2>2. \A x \in Players \ {p, q} : g[x] = f[x]
      BY <1>3, <2>1
    <2>3. SumFunction(g) + f[p] + f[q] = SumFunction(f) + g[p] + g[q]
      BY <1>4, <2>2, TwoDiffer
    <2> QED
      BY <2>1, <2>3
  <1> QED
    BY <1>5, <1>6

\* The handler's player alone.
LEMMA SavedShifts ==
  ASSUME RecordsOK, NEW p \in Players, Online(p), NEW r \in Record, SavedAs(p, r), status' = status
  PROVE  RecordsOK' /\ \A k \in Kinds : Shift(k, Val(k, memory[p]), Val(k, r))
  <1>1. RecordsOK'
    BY DEF RecordsOK, SavedAs, Online
  <1>2. OthersKeep({p}) /\ memory'[p] = r /\ row'[p] = r
    BY DEF OthersKeep, SavedAs, RecordsOK
  <1>3. ASSUME NEW k \in Kinds PROVE Shift(k, Val(k, memory[p]), Val(k, r))
    <2>1. /\ SumFunction(Held(k)') + Held(k)[p] = SumFunction(Held(k)) + Held(k)'[p]
          /\ SumFunction(Most(k)') + Most(k)[p] = SumFunction(Most(k)) + Most(k)'[p]
      BY <1>1, <1>2, OneMoves
    <2>2. /\ Held(k)[p] = Val(k, memory[p]) /\ Held(k)'[p] = Val(k, r)
          /\ Most(k)[p] = Larger(Val(k, memory[p]), Val(k, row[p])) /\ Most(k)'[p] = Larger(Val(k, r), Val(k, r))
      BY <1>2 DEF Held, Most, Found, Online
    <2>3. Val(k, memory[p]) \in Nat /\ Val(k, r) \in Nat /\ Val(k, row[p]) \in Nat
      BY ValNat DEF RecordsOK
    <2>4. SumFunction(Most(k)) \in Nat /\ SumFunction(Most(k)') \in Nat
      BY <1>1, HeldNat, HeldNatNext
    <2>5. SumFunction(Most(k)') + Val(k, memory[p]) <= SumFunction(Most(k)) + Val(k, r)
      BY <2>1, <2>2, <2>3, <2>4 DEF Larger
    <2> QED
      BY <2>1, <2>2, <2>5 DEF Shift
  <1> QED
    BY <1>1, <1>3

\* The handler's player and the other side, who gets something.
LEMMA BothShift ==
  ASSUME RecordsOK, NEW p \in Players, NEW q \in Players, p # q, Online(p),
         NEW r \in Record, NEW s \in Record, BothAs(p, r, q, s), status' = status,
         \A k \in Kinds : Val(k, Found(q)) <= Val(k, s)
  PROVE  /\ RecordsOK'
         /\ \A k \in Kinds : Shift(k, Val(k, memory[p]) + Val(k, Found(q)), Val(k, r) + Val(k, s))
  <1>1. /\ memory' \in [Players -> Record] /\ row' \in [Players -> Record]
        /\ memory'[p] = r /\ row'[p] = r
        /\ OthersKeep({p, q})
        /\ Online(q) => memory'[q] = s /\ row'[q] = row[q]
        /\ ~Online(q) => memory'[q] = memory[q] /\ row'[q] = s
    BY DEF OthersKeep, BothAs, RecordsOK
  <1>2. RecordsOK'
    <2>1. ASSUME NEW x \in Players, status'[x] = "offline" PROVE memory'[x] = Nothing
      BY <1>1, <2>1 DEF RecordsOK, OthersKeep, Online
    <2>2. ASSUME NEW x \in Players, status'[x] = "dead", NEW k \in Kinds PROVE Val(k, memory'[x]) <= Val(k, row'[x])
      <3>1. CASE x = q
        <4>1. ~Online(q) /\ Found(q) = row[q] /\ Val(k, memory[q]) <= Val(k, row[q])
          BY <2>2, <3>1 DEF RecordsOK, Online, Found
        <4>2. memory[q] \in Record /\ row[q] \in Record
          BY DEF RecordsOK
        <4>3. Val(k, memory[q]) \in Nat /\ Val(k, row[q]) \in Nat /\ Val(k, s) \in Nat
          BY <4>2, ValNat
        <4> QED
          BY <1>1, <3>1, <4>1, <4>3
      <3>2. CASE x # q
        <4>1. x # p
          BY <2>2 DEF Online
        <4> QED
          BY <1>1, <2>2, <3>2, <4>1 DEF RecordsOK, OthersKeep
      <3> QED
        BY <3>1, <3>2
    <2> QED
      BY <1>1, <2>1, <2>2 DEF RecordsOK
  <1>3. ASSUME NEW k \in Kinds PROVE Shift(k, Val(k, memory[p]) + Val(k, Found(q)), Val(k, r) + Val(k, s))
    <2>1. /\ SumFunction(Held(k)') + Held(k)[p] + Held(k)[q] = SumFunction(Held(k)) + Held(k)'[p] + Held(k)'[q]
          /\ SumFunction(Most(k)') + Most(k)[p] + Most(k)[q] = SumFunction(Most(k)) + Most(k)'[p] + Most(k)'[q]
      BY <1>1, <1>2, TwoMove
    <2>2. /\ Held(k)[p] = Val(k, memory[p]) /\ Held(k)'[p] = Val(k, r)
          /\ Most(k)[p] = Larger(Val(k, memory[p]), Val(k, row[p])) /\ Most(k)'[p] = Larger(Val(k, r), Val(k, r))
      BY <1>1 DEF Held, Most, Found, Online
    <2>3. Held(k)[q] = Val(k, Found(q)) /\ Held(k)'[q] = Val(k, s)
      BY <1>1 DEF Held, Found, Online
    <2>4. /\ Most(k)[q] = Larger(Val(k, Found(q)), Val(k, row[q]))
          /\ \/ Most(k)'[q] = Larger(Val(k, s), Val(k, row[q]))
             \/ Most(k)'[q] = Larger(Val(k, s), Val(k, s))
      BY <1>1 DEF Most, Found, Online
    <2>5. /\ Val(k, memory[p]) \in Nat /\ Val(k, r) \in Nat /\ Val(k, row[p]) \in Nat
          /\ Val(k, Found(q)) \in Nat /\ Val(k, s) \in Nat /\ Val(k, row[q]) \in Nat
      BY ValNat DEF RecordsOK, Found
    <2>6. /\ SumFunction(Most(k)) \in Nat /\ SumFunction(Most(k)') \in Nat
          /\ SumFunction(Held(k)) \in Nat /\ SumFunction(Held(k)') \in Nat
      BY <1>2, HeldNat, HeldNatNext
    <2>7. Most(k)'[p] + Val(k, memory[p]) <= Most(k)[p] + Val(k, r) /\ Most(k)'[p] \in Nat /\ Most(k)[p] \in Nat
      BY <2>2, <2>5 DEF Larger
    <2>8. Val(k, Found(q)) <= Val(k, s)
      OBVIOUS
    <2>9. Most(k)'[q] + Val(k, Found(q)) <= Most(k)[q] + Val(k, s) /\ Most(k)'[q] \in Nat /\ Most(k)[q] \in Nat
      BY <2>4, <2>5, <2>8 DEF Larger
    <2>10. SumFunction(Most(k)') + (Val(k, memory[p]) + Val(k, Found(q))) <= SumFunction(Most(k)) + (Val(k, r) + Val(k, s))
      BY <2>1, <2>5, <2>6, <2>7, <2>9
    <2>11. SumFunction(Held(k)') + (Val(k, memory[p]) + Val(k, Found(q))) = SumFunction(Held(k)) + (Val(k, r) + Val(k, s))
      BY <2>1, <2>2, <2>3, <2>5, <2>6
    <2> QED
      BY <2>10, <2>11 DEF Shift
  <1> QED
    BY <1>2, <1>3

-----------------------------------------------------------------------------
(* The table of offers and the results that were read from it.             *)

Table(s) ==
  /\ IsFiniteSet(s)
  /\ s \subseteq OfferType
  /\ \A o1, o2 \in s : o1.id = o2.id => o1 = o2
  /\ \A o \in s : o.id \in 1 .. nextId - 1

\* x is what is left of the offer o.
LeftOf(x, o) ==
  x.id = o.id /\ x.player = o.player /\ x.sale = o.sale /\ x.price = o.price /\ x.amount <= o.amount

\* A row says at least what there is.
Behind(s) == \A o \in s : \A x \in offers : o.id = x.id => LeftOf(x, o)

OffersOK ==
  /\ Table(offers)
  /\ nextId \in 1 .. MaxId + 1
  /\ old \in 0 .. nextId - 1
  /\ results \in Seq(SUBSET OfferType) /\ Len(results) <= MaxChecks
  /\ \A i \in 1 .. Len(results) : Table(results[i]) /\ Behind(results[i])

\* What n of the offer o are.
Part(k, o, n) == Units(k, IF o.sale THEN n ELSE 0, IF o.sale THEN 0 ELSE o.price * n)

\* Of the offers after a step, those that there were are left of them.
Follows == \A x \in offers' : x.id < nextId => \E o \in offers : LeftOf(x, o)

LEMMA ResultsKeep ==
  ASSUME OffersOK, Follows, offers' \subseteq OfferType, nextId' \in Nat, nextId' >= nextId, NEW s, Table(s), Behind(s)
  PROVE  Table(s)' /\ Behind(s)'
  <1>1. nextId \in Nat
    BY DEF OffersOK
  <1>2. \A o \in s : o.id \in Nat /\ o.id < nextId /\ o.id \in 1 .. nextId' - 1
    BY <1>1 DEF Table
  <1>3. Table(s)'
    BY <1>2 DEF Table
  <1>4. ASSUME NEW o \in s, NEW x \in offers', o.id = x.id PROVE LeftOf(x, o)
    <2>1. PICK y \in offers : LeftOf(x, y)
      BY <1>2, <1>4 DEF Follows
    <2>2. LeftOf(y, o)
      BY <1>4, <2>1 DEF LeftOf, Behind
    <2>3. o \in OfferType /\ y \in OfferType /\ x \in OfferType
      BY DEF Table, OffersOK
    <2>4. o.amount \in Nat /\ y.amount \in Nat /\ x.amount \in Nat
      BY <2>3 DEF OfferType
    <2> QED
      BY <1>4, <2>1, <2>2, <2>4 DEF LeftOf
  <1> QED
    BY <1>3, <1>4 DEF Behind

\* One offer more.
LEMMA InsertKeeps ==
  ASSUME OffersOK, nextId <= MaxId, NEW o \in OfferType, o.id = nextId, Insert(o), UNCHANGED <<old, results>>
  PROVE  OffersOK' /\ \A k \in Kinds : Offered(k, offers') = Offered(k, offers) + In(k, o)
  <1>1. /\ nextId \in 1 .. MaxId + 1 /\ MaxId \in Nat /\ nextId' = nextId + 1
        /\ offers' = offers \union {o} /\ Table(offers)
    BY MarketAssumption DEF OffersOK, Insert
  <1>2. \A x \in offers : x.id \in Nat /\ x.id < nextId
    BY <1>1 DEF Table
  <1>3. o \notin offers
    BY <1>1, <1>2
  <1>4. Table(offers)'
    <2>1. IsFiniteSet(offers')
      BY <1>1, FS_AddElement DEF Table
    <2>2. offers' \subseteq OfferType
      BY <1>1 DEF Table
    <2>3. \A x \in offers' : x.id \in 1 .. nextId' - 1
      BY <1>1, <1>2 DEF Table
    <2>4. \A x, y \in offers' : x.id = y.id => x = y
      BY <1>1, <1>2 DEF Table
    <2> QED
      BY <2>1, <2>2, <2>3, <2>4 DEF Table
  <1>5. Follows
    <2>1. ASSUME NEW x \in offers', x.id < nextId PROVE LeftOf(x, x) /\ x \in offers
      <3>1. x \in offers
        BY <1>1, <2>1
      <3>2. x.amount \in Nat
        BY <1>1, <3>1 DEF Table, OfferType
      <3> QED
        BY <3>1, <3>2 DEF LeftOf
    <2> QED
      BY <2>1 DEF Follows
  <1>6. \A i \in 1 .. Len(results) : Table(results[i])' /\ Behind(results[i])'
    <2>1. ASSUME NEW i \in 1 .. Len(results) PROVE Table(results[i])' /\ Behind(results[i])'
      <3>1. PICK s : s = results[i] /\ Table(s) /\ Behind(s)
        BY DEF OffersOK
      <3>2. Table(s)' /\ Behind(s)'
        BY <1>1, <1>4, <1>5, <3>1, ResultsKeep DEF Table
      <3>3. results'[i] = s
        BY <3>1
      <3> QED
        BY <3>2, <3>3
    <2> QED
      BY <2>1
  <1>7. OffersOK'
    BY <1>1, <1>4, <1>6 DEF OffersOK
  <1>8. \A k \in Kinds : Offered(k, offers') = Offered(k, offers) + In(k, o)
    BY <1>1, <1>3, OfferedWith DEF Table
  <1> QED
    BY <1>7, <1>8

\* Some offers are gone, or less is left of them.
LEMMA LessKeeps ==
  ASSUME OffersOK, Table(offers)', Follows, nextId' = nextId, old' \in 0 .. nextId - 1, results' = results
  PROVE  OffersOK'
  <1>1. /\ nextId \in 1 .. MaxId + 1 /\ nextId' \in Nat /\ nextId' >= nextId
        /\ offers' \subseteq OfferType
    BY MarketAssumption DEF OffersOK, Table
  <1>2. ASSUME NEW i \in 1 .. Len(results) PROVE Table(results[i])' /\ Behind(results[i])'
    <2>1. PICK s : s = results[i] /\ Table(s) /\ Behind(s)
      BY DEF OffersOK
    <2>2. Table(s)' /\ Behind(s)'
      BY <1>1, <2>1, ResultsKeep
    <2>3. results'[i] = s
      BY <2>1
    <2> QED
      BY <2>2, <2>3
  <1> QED
    BY <1>1, <1>2 DEF OffersOK

LEMMA SameFollows ==
  ASSUME OffersOK, offers' \subseteq offers, nextId' = nextId
  PROVE  Table(offers)' /\ Follows
  <1>1. Table(offers)'
    BY FS_Subset DEF OffersOK, Table
  <1>2. \A x \in offers' : x \in offers /\ x.amount \in Nat
    BY DEF OffersOK, Table, OfferType
  <1>3. \A x \in offers' : LeftOf(x, x)
    BY <1>2 DEF LeftOf
  <1> QED
    BY <1>1, <1>2, <1>3 DEF Follows

LEMMA OffersSame ==
  ASSUME OffersOK, UNCHANGED <<offers, nextId, old, results>>
  PROVE  OffersOK'
  BY DEF OffersOK, Table, Behind

LEMMA RemoveKeeps ==
  ASSUME OffersOK, NEW o \in offers, offers' = offers \ {o}, UNCHANGED <<nextId, old, results>>
  PROVE  OffersOK' /\ \A k \in Kinds : Offered(k, offers') + In(k, o) = Offered(k, offers)
  <1>1. Table(offers)' /\ Follows
    BY SameFollows
  <1>2. OffersOK'
    BY <1>1, LessKeeps DEF OffersOK
  <1>3. ASSUME NEW k \in Kinds PROVE Offered(k, offers') + In(k, o) = Offered(k, offers)
    <2>1. IsFiniteSet(offers) /\ offers \subseteq OfferType /\ {o} \in SUBSET offers /\ o \in OfferType
      BY DEF OffersOK, Table
    <2>2. Offered(k, offers) = Offered(k, {o}) + Offered(k, offers \ {o})
      BY <2>1, OfferedWithout
    <2>3. Offered(k, {o}) = In(k, o) /\ In(k, o) \in Nat
      BY <2>1, OfferedOne, InNat
    <2>4. Offered(k, offers') \in Nat
      BY <1>1, OfferedIsSum DEF Table
    <2> QED
      BY <2>2, <2>3, <2>4
  <1> QED
    BY <1>2, <1>3

LEMMA PartTaken ==
  ASSUME NEW o \in OfferType, NEW n \in Nat, n <= o.amount, NEW k \in Kinds
  PROVE  /\ Part(k, o, n) \in Nat
         /\ In(k, [o EXCEPT !.amount = @ - n]) + Part(k, o, n) = In(k, o)
         /\ n = o.amount => In(k, o) = Part(k, o, n)
  <1>1. PICK a \in Nat, c \in Nat : a = o.amount /\ c = o.price
    BY MarketAssumption DEF OfferType
  <1>2. a - n \in Nat /\ c * n \in Nat /\ c * (a - n) \in Nat /\ c * (a - n) + c * n = c * a
    BY <1>1
  <1>3. PICK x : x = [o EXCEPT !.amount = @ - n]
    OBVIOUS
  <1>4. x.sale = o.sale /\ x.price = c /\ x.amount = a - n
    BY <1>1, <1>3 DEF OfferType
  <1>5. CASE o.sale
    BY <1>1, <1>2, <1>3, <1>4, <1>5 DEF Kinds, Part, In, Units, ItemsIn, MoneyIn
  <1>6. CASE ~o.sale
    BY <1>1, <1>2, <1>3, <1>4, <1>6 DEF Kinds, Part, In, Units, ItemsIn, MoneyIn
  <1> QED
    BY <1>5, <1>6

\* n of an offer are taken.
LEMMA ReduceKeeps ==
  ASSUME OffersOK, NEW o \in offers, NEW n \in Nat \ {0}, n <= o.amount, Reduce(o, n),
         UNCHANGED <<nextId, old, results>>
  PROVE  OffersOK' /\ \A k \in Kinds : Offered(k, offers') + Part(k, o, n) = Offered(k, offers)
  <1>1. o \in OfferType /\ o.amount \in Nat
    BY DEF OffersOK, Table, OfferType
  <1>2. CASE n = o.amount
    <2>1. offers' = offers \ {o}
      BY <1>2 DEF Reduce
    <2>2. OffersOK' /\ \A k \in Kinds : Offered(k, offers') + In(k, o) = Offered(k, offers)
      BY <2>1, RemoveKeeps
    <2>3. \A k \in Kinds : In(k, o) = Part(k, o, n)
      BY <1>1, <1>2, PartTaken
    <2> QED
      BY <2>2, <2>3
  <1>3. CASE n # o.amount
    <2>1. PICK x : x = [o EXCEPT !.amount = @ - n]
      OBVIOUS
    <2>2. offers' = (offers \ {o}) \union {x}
      BY <1>3, <2>1 DEF Reduce
    <2>3. x \in OfferType /\ LeftOf(x, o)
      BY <1>1, <1>3, <2>1 DEF OfferType, LeftOf
    <2>4. \A y \in offers \ {o} : y.id # x.id
      BY <2>3 DEF OffersOK, Table, LeftOf
    <2>5. IsFiniteSet(offers \ {o}) /\ offers \ {o} \subseteq OfferType /\ x \notin offers \ {o}
      BY <2>4, FS_RemoveElement DEF OffersOK, Table
    <2>6. Table(offers)'
      <3>1. IsFiniteSet(offers')
        BY <2>2, <2>5, FS_AddElement
      <3>2. offers' \subseteq OfferType
        BY <2>2, <2>3, <2>5
      <3>3. \A y, z \in offers' : y.id = z.id => y = z
        BY <2>2, <2>4 DEF OffersOK, Table
      <3>4. \A y \in offers' : y.id \in 1 .. nextId' - 1
        BY <2>2, <2>3 DEF OffersOK, Table, LeftOf
      <3> QED
        BY <3>1, <3>2, <3>3, <3>4 DEF Table
    <2>7. Follows
      <3>1. ASSUME NEW y \in offers', y # x PROVE y \in offers /\ LeftOf(y, y)
        <4>1. y \in offers
          BY <2>2, <3>1
        <4>2. y.amount \in Nat
          BY <4>1 DEF OffersOK, Table, OfferType
        <4> QED
          BY <4>1, <4>2 DEF LeftOf
      <3> QED
        BY <2>3, <3>1 DEF Follows
    <2>8. OffersOK'
      BY <2>6, <2>7, LessKeeps DEF OffersOK
    <2>9. ASSUME NEW k \in Kinds PROVE Offered(k, offers') + Part(k, o, n) = Offered(k, offers)
      <3>1. Offered(k, offers') = Offered(k, offers \ {o}) + In(k, x)
        BY <2>2, <2>3, <2>5, OfferedWith
      <3>2. IsFiniteSet(offers) /\ offers \subseteq OfferType /\ {o} \in SUBSET offers
        BY DEF OffersOK, Table
      <3>3. Offered(k, offers) = Offered(k, {o}) + Offered(k, offers \ {o})
        BY <3>2, OfferedWithout
      <3>4. Offered(k, {o}) = In(k, o) /\ In(k, o) \in Nat /\ In(k, x) \in Nat
        BY <1>1, <2>3, OfferedOne, InNat
      <3>5. Offered(k, offers \ {o}) \in Nat
        BY <2>5, OfferedIsSum
      <3>6. Part(k, o, n) \in Nat /\ In(k, x) + Part(k, o, n) = In(k, o)
        BY <1>1, <2>1, PartTaken
      <3> QED
        BY <3>1, <3>3, <3>4, <3>5, <3>6
    <2> QED
      BY <2>8, <2>9
  <1> QED
    BY <1>2, <1>3

LEMMA AgeKeeps ==
  ASSUME OffersOK, Age PROVE OffersOK'
  <1>1. old' \in 0 .. nextId - 1
    BY DEF OffersOK, Age
  <1>2. Table(offers)' /\ Follows
    BY SameFollows DEF Age
  <1> QED
    BY <1>1, <1>2, LessKeeps DEF Age

\* The check reads what there is.
LEMMA QueryKeeps ==
  ASSUME OffersOK, QueryExpired PROVE OffersOK'
  <1>1. Table(Expired) /\ Behind(Expired)
    <2>1. Expired \subseteq offers
      BY DEF Expired
    <2>2. \A o \in offers : LeftOf(o, o)
      <3>1. \A o \in offers : o.amount \in Nat
        BY DEF OffersOK, Table, OfferType
      <3> QED
        BY <3>1 DEF LeftOf
    <2>3. Table(Expired)
      BY <2>1, FS_Subset DEF OffersOK, Table
    <2> QED
      BY <2>1, <2>2, <2>3 DEF OffersOK, Table, Behind
  <1>2. PICK e \in SUBSET OfferType : e = Expired /\ results' = Append(results, e)
    BY <1>1 DEF Table, QueryExpired
  <1>3. PICK n \in Nat : n = Len(results) /\ n < MaxChecks
    BY DEF OffersOK, QueryExpired
  <1>4. /\ results' \in Seq(SUBSET OfferType) /\ Len(results') = n + 1
        /\ \A i \in 1 .. n : results'[i] = results[i]
        /\ results'[n + 1] = e
    BY <1>2, <1>3 DEF OffersOK
  <1>5. MaxChecks \in Nat
    BY MarketAssumption
  <1>6. ASSUME NEW i \in 1 .. Len(results') PROVE Table(results'[i]) /\ Behind(results'[i])
    <2>1. CASE i \in 1 .. n
      <3>1. results'[i] = results[i]
        BY <1>4, <2>1
      <3> QED
        BY <1>3, <2>1, <3>1 DEF OffersOK
    <2>2. CASE i = n + 1
      BY <1>1, <1>2, <1>4, <2>2
    <2> QED
      BY <1>3, <1>4, <2>1, <2>2
  <1>7. UNCHANGED <<offers, nextId, old>>
    BY DEF QueryExpired
  <1>8. \A i \in 1 .. Len(results') : Table(results[i])' /\ Behind(results[i])'
    BY <1>6, <1>7 DEF Table, Behind
  <1>9. Len(results') <= MaxChecks
    BY <1>3, <1>4, <1>5
  <1> QED
    BY <1>4, <1>7, <1>8, <1>9 DEF OffersOK, Table

\* The offers t of the oldest result are gone.
LEMMA ProcessKeeps ==
  ASSUME OffersOK, results # <<>>, results' = Tail(results), NEW t \in SUBSET offers, offers' = offers \ t,
         UNCHANGED <<nextId, old>>
  PROVE  OffersOK' /\ \A k \in Kinds : Offered(k, offers') + Offered(k, t) = Offered(k, offers)
  <1>1. Table(offers)' /\ Follows
    BY SameFollows
  <1>2. PICK n \in Nat : Len(results) = n + 1 /\ n + 1 <= MaxChecks
    <2>1. Len(results) \in Nat /\ Len(results) # 0 /\ Len(results) <= MaxChecks
      BY EmptySeq DEF OffersOK
    <2>2. Len(results) - 1 \in Nat /\ Len(results) = (Len(results) - 1) + 1
      BY <2>1
    <2> QED
      BY <2>1, <2>2
  <1>3. /\ results' \in Seq(SUBSET OfferType) /\ Len(results') = n
        /\ \A i \in 1 .. n : results'[i] = results[i + 1]
    BY <1>2 DEF OffersOK
  <1>4. ASSUME NEW i \in 1 .. n PROVE Table(results[i])' /\ Behind(results[i])'
    <2>1. i + 1 \in 1 .. Len(results) /\ results'[i] = results[i + 1]
      BY <1>2, <1>3
    <2>2. PICK s : s = results[i + 1] /\ Table(s) /\ Behind(s)
      BY <2>1 DEF OffersOK
    <2>3. offers' \subseteq OfferType /\ nextId' \in Nat /\ nextId' >= nextId
      BY <1>1 DEF Table, OffersOK
    <2>4. Table(s)' /\ Behind(s)'
      BY <1>1, <2>2, <2>3, ResultsKeep
    <2> QED
      BY <2>1, <2>2, <2>4
  <1>5. n <= MaxChecks
    BY <1>2, MarketAssumption
  <1>6. OffersOK'
    BY <1>1, <1>3, <1>4, <1>5 DEF OffersOK
  <1>7. ASSUME NEW k \in Kinds PROVE Offered(k, offers') + Offered(k, t) = Offered(k, offers)
    <2>1. IsFiniteSet(offers) /\ offers \subseteq OfferType /\ IsFiniteSet(t) /\ t \subseteq OfferType
      BY FS_Subset DEF OffersOK, Table
    <2>2. Offered(k, offers) = Offered(k, t) + Offered(k, offers \ t)
      BY <2>1, OfferedWithout
    <2>3. Offered(k, t) \in Nat /\ Offered(k, offers') \in Nat
      BY <1>1, <2>1, OfferedIsSum DEF Table
    <2> QED
      BY <2>2, <2>3
  <1> QED
    BY <1>6, <1>7

-----------------------------------------------------------------------------
(* The guild and the totals.                                               *)

GuildOK ==
  /\ guild \in [inGame : BOOLEAN, membersOnline : SUBSET (GuildMembers \union {Forgotten}),
                balance : Nat, row : Nat]
  /\ guild.membersOnline # {} => guild.inGame
  /\ ~guild.inGame => guild.balance = 0
  /\ \A p \in Players : p \in Members /\ status[p] # "offline" => p \in guild.membersOnline

HouseOK == house \in [items : [Players -> Nat], row : [Players -> Nat]]

CountsOK ==
  /\ scope \in Scopes
  /\ crashes \in 0 .. MaxCrashes
  /\ cloned \in [items : Nat, money : Nat]
  /\ refused \in [times : 0 .. MaxRefusals, lost : Nat]
  /\ unsaved \in [money : Nat, items : Nat]
  /\ unmade \in [money : Nat, items : Nat]

Shape == RecordsOK /\ OffersOK /\ GuildOK /\ HouseOK /\ CountsOK

\* The treasury is what it was, and its row too, or it was saved.
GuildKept == GuildBalance' = GuildBalance /\ guild'.row \in {guild.row, GuildBalance}

LEMMA GuildSame ==
  ASSUME GuildOK, SameGuild, scope' = scope, \A p \in Players : status[p] = "offline" => status'[p] = "offline"
  PROVE  GuildOK' /\ GuildKept
  BY DEF GuildOK, SameGuild, GuildKept, GuildBalance, Members

LEMMA LoadsKeeps ==
  ASSUME GuildOK, NEW ps, guild' = Loads(ps), scope' = scope, status' = status
  PROVE  GuildOK' /\ GuildKept
  <1>1. CASE guild.inGame \/ ps \intersect Members = {}
    BY <1>1 DEF GuildOK, Loads, GuildKept, GuildBalance, Members
  <1>2. CASE ~(guild.inGame \/ ps \intersect Members = {})
    <2>1. guild' = [guild EXCEPT !.inGame = TRUE, !.balance = guild.balance + guild.row]
      BY <1>2 DEF Loads
    <2>2. guild.balance = 0 /\ guild.row \in Nat /\ guild.balance + guild.row = guild.row
      BY <1>2 DEF GuildOK
    <2>3. /\ guild' \in [inGame : BOOLEAN, membersOnline : SUBSET (GuildMembers \union {Forgotten}),
                         balance : Nat, row : Nat]
          /\ guild'.inGame /\ guild'.balance = guild.row /\ guild'.row = guild.row
          /\ guild'.membersOnline = guild.membersOnline
      BY <2>1, <2>2 DEF GuildOK
    <2> QED
      BY <1>2, <2>3 DEF GuildOK, GuildKept, GuildBalance, Members
  <1> QED
    BY <1>1, <1>2

LEMMA LoginGuild ==
  ASSUME GuildOK, RecordsOK, NEW p \in Players, Become(p, "online"), scope' = scope,
         guild' = AddMember(Loads({p}), p)
  PROVE  GuildOK' /\ GuildKept
  <1>1. PICK g : g = Loads({p})
    OBVIOUS
  <1>2. /\ g \in [inGame : BOOLEAN, membersOnline : SUBSET (GuildMembers \union {Forgotten}),
                  balance : Nat, row : Nat]
        /\ g.membersOnline = guild.membersOnline /\ g.row = guild.row
        /\ guild.inGame => g.inGame
        /\ p \in Members => g.inGame
        /\ ~g.inGame => g.balance = 0
        /\ (IF g.inGame THEN g.balance ELSE g.row) = GuildBalance
    <2>1. CASE guild.inGame \/ {p} \intersect Members = {}
      BY <1>1, <2>1 DEF GuildOK, Loads, GuildBalance
    <2>2. CASE ~(guild.inGame \/ {p} \intersect Members = {})
      <3>1. g = [guild EXCEPT !.inGame = TRUE, !.balance = guild.balance + guild.row]
        BY <1>1, <2>2 DEF Loads
      <3>2. guild.balance = 0 /\ guild.row \in Nat /\ guild.balance + guild.row = guild.row
        BY <2>2 DEF GuildOK
      <3> QED
        BY <2>2, <3>1, <3>2 DEF GuildOK, GuildBalance
    <2> QED
      BY <2>1, <2>2
  <1>3. \A x \in Players : status'[x] = IF x = p THEN "online" ELSE status[x]
    BY DEF Become, RecordsOK
  <1>4. CASE p \in Members
    <2>1. guild' = [g EXCEPT !.membersOnline = g.membersOnline \union {p}]
      BY <1>1, <1>4 DEF AddMember
    <2>2. p \in GuildMembers
      BY <1>4 DEF Members
    <2>3. /\ guild' \in [inGame : BOOLEAN, membersOnline : SUBSET (GuildMembers \union {Forgotten}),
                         balance : Nat, row : Nat]
          /\ guild'.inGame = g.inGame /\ guild'.balance = g.balance /\ guild'.row = g.row
          /\ guild'.membersOnline = g.membersOnline \union {p}
      BY <1>2, <2>1, <2>2
    <2> QED
      BY <1>2, <1>3, <1>4, <2>3 DEF GuildOK, GuildKept, GuildBalance, Members
  <1>5. CASE p \notin Members
    <2>1. guild' = g
      BY <1>1, <1>5 DEF AddMember
    <2> QED
      BY <1>2, <1>3, <1>5, <2>1 DEF GuildOK, GuildKept, GuildBalance, Members
  <1> QED
    BY <1>4, <1>5

LEMMA LogoutGuild ==
  ASSUME GuildOK, RecordsOK, NEW p \in Players, Become(p, "offline"), scope' = scope,
         guild' = RemoveMember(guild, p)
  PROVE  GuildOK' /\ GuildKept
  <1>1. PICK left : left = [guild EXCEPT !.membersOnline = guild.membersOnline \ {p}]
    OBVIOUS
  <1>2. /\ left \in [inGame : BOOLEAN, membersOnline : SUBSET (GuildMembers \union {Forgotten}),
                     balance : Nat, row : Nat]
        /\ left.inGame = guild.inGame /\ left.balance = guild.balance /\ left.row = guild.row
        /\ left.membersOnline = guild.membersOnline \ {p}
    BY <1>1 DEF GuildOK
  <1>3. \A x \in Players : status'[x] = IF x = p THEN "offline" ELSE status[x]
    BY DEF Become, RecordsOK
  <1>4. CASE p \in guild.membersOnline /\ left.membersOnline = {}
    <2>1. guild' = Unknown(guild.balance)
      BY <1>1, <1>4 DEF RemoveMember
    <2>2. guild.inGame /\ guild.balance \in Nat
      BY <1>4 DEF GuildOK
    <2>3. /\ guild' \in [inGame : BOOLEAN, membersOnline : SUBSET (GuildMembers \union {Forgotten}),
                         balance : Nat, row : Nat]
          /\ ~guild'.inGame /\ guild'.balance = 0 /\ guild'.row = guild.balance /\ guild'.membersOnline = {}
      BY <2>1, <2>2 DEF Unknown
    <2> QED
      BY <1>2, <1>3, <1>4, <2>2, <2>3 DEF GuildOK, GuildKept, GuildBalance, Members
  <1>5. CASE ~(p \in guild.membersOnline /\ left.membersOnline = {})
    <2>1. guild' = left
      BY <1>1, <1>5 DEF RemoveMember
    <2> QED
      BY <1>2, <1>3, <1>5, <2>1 DEF GuildOK, GuildKept, GuildBalance, Members
  <1> QED
    BY <1>4, <1>5

LEMMA ReleaseGuild ==
  ASSUME GuildOK, RecordsOK, NEW p \in Players, Become(p, "offline"), scope' = scope,
         guild' = IF p \in guild.membersOnline
                  THEN [guild EXCEPT !.membersOnline = (@ \ {p}) \union {Forgotten}]
                  ELSE guild
  PROVE  GuildOK' /\ GuildKept
  <1>1. \A x \in Players : status'[x] = IF x = p THEN "offline" ELSE status[x]
    BY DEF Become, RecordsOK
  <1>2. CASE p \in guild.membersOnline
    <2>1. guild' = [guild EXCEPT !.membersOnline = (guild.membersOnline \ {p}) \union {Forgotten}]
      BY <1>2
    <2>2. /\ guild' \in [inGame : BOOLEAN, membersOnline : SUBSET (GuildMembers \union {Forgotten}),
                         balance : Nat, row : Nat]
          /\ guild'.inGame = guild.inGame /\ guild'.balance = guild.balance /\ guild'.row = guild.row
          /\ guild'.membersOnline = (guild.membersOnline \ {p}) \union {Forgotten}
      BY <2>1 DEF GuildOK
    <2> QED
      BY <1>1, <1>2, <2>2 DEF GuildOK, GuildKept, GuildBalance, Members
  <1>3. CASE p \notin guild.membersOnline
    BY <1>1, <1>3 DEF GuildOK, GuildKept, GuildBalance, Members
  <1> QED
    BY <1>2, <1>3

LEMMA RespawnGuild ==
  ASSUME GuildOK, RecordsOK, NEW p \in Players, status[p] = "dead", Become(p, "online"), scope' = scope,
         guild' = AddMember(guild, p)
  PROVE  GuildOK' /\ GuildKept
  <1>1. \A x \in Players : status'[x] = IF x = p THEN "online" ELSE status[x]
    BY DEF Become, RecordsOK
  <1>2. guild' = guild
    <2>1. CASE p \in Members
      <3>1. p \in guild.membersOnline
        BY <2>1 DEF GuildOK
      <3>2. guild.membersOnline \union {p} = guild.membersOnline
        BY <3>1
      <3>3. guild' = [guild EXCEPT !.membersOnline = guild.membersOnline]
        BY <2>1, <3>2 DEF AddMember
      <3> QED
        BY <3>3 DEF GuildOK
    <2>2. CASE p \notin Members
      BY <2>2 DEF AddMember
    <2> QED
      BY <2>1, <2>2
  <1> QED
    BY <1>1, <1>2 DEF GuildOK, GuildKept, GuildBalance, Members

-----------------------------------------------------------------------------

\* What is not in a player's hands or in an offer, now and after a restart.
Vault(k) == Units(k, SumFunction(house.items), GuildBalance)
Saved(k) == Units(k, SumFunction(house.row), guild.row)

Total(k) == SumFunction(Held(k)) + Offered(k, offers) + Vault(k)

\* The most there may be after a restart.
Top(k) == SumFunction(Most(k)) + Offered(k, offers) + Larger(Vault(k), Saved(k))

LEMMA VaultNat ==
  ASSUME GuildOK, HouseOK, NEW k \in Kinds
  PROVE  Vault(k) \in Nat /\ Saved(k) \in Nat
  <1>1. SumFunction(house.items) \in Nat /\ SumFunction(house.row) \in Nat
    BY MarketAssumption, SumNat DEF HouseOK
  <1> QED
    BY <1>1 DEF GuildOK, Kinds, Vault, Saved, Units, GuildBalance

LEMMA VaultNatNext ==
  ASSUME GuildOK', HouseOK', NEW k \in Kinds
  PROVE  Vault(k)' \in Nat /\ Saved(k)' \in Nat
  <1>1. SumFunction(house'.items) \in Nat /\ SumFunction(house'.row) \in Nat
    BY MarketAssumption, SumNat DEF HouseOK
  <1> QED
    BY <1>1 DEF GuildOK, Kinds, Vault, Saved, Units, GuildBalance

LEMMA VaultKept ==
  ASSUME GuildOK, HouseOK, GuildKept, house' = house, NEW k \in Kinds
  PROVE  /\ Vault(k)' = Vault(k) /\ Vault(k) \in Nat
         /\ Larger(Vault(k), Saved(k))' <= Larger(Vault(k), Saved(k))
         /\ Larger(Vault(k), Saved(k)) \in Nat /\ Larger(Vault(k), Saved(k))' \in Nat
  <1>1. Vault(k) \in Nat /\ Saved(k) \in Nat
    BY VaultNat
  <1>2. Vault(k)' = Vault(k) /\ Saved(k)' \in {Saved(k), Vault(k)}
    BY DEF Kinds, GuildKept, Vault, Saved, Units
  <1> QED
    BY <1>1, <1>2 DEF Larger

LEMMA OfferedNat ==
  ASSUME OffersOK, NEW k \in Kinds PROVE Offered(k, offers) \in Nat
  BY OfferedIsSum DEF OffersOK, Table

\* What the players paid, the offers took, and what the offers paid, the players:
\* but for a loss, the totals are what they were.
Even(k, loss) == Total(k)' + loss = Total(k) /\ Top(k)' + loss <= Top(k)

LEMMA EvenStep ==
  ASSUME Shape, RecordsOK', OffersOK', GuildKept, house' = house, NEW k \in Kinds,
         NEW a \in Nat, NEW b \in Nat, NEW c \in Nat, NEW d \in Nat, NEW loss \in Nat,
         Shift(k, a, b), Offered(k, offers') + c = Offered(k, offers) + d, b + d + loss = a + c
  PROVE  Even(k, loss)
  <1>1. PICK h \in Nat, m \in Nat, h1 \in Nat, m1 \in Nat :
          h = SumFunction(Held(k)) /\ m = SumFunction(Most(k)) /\ h1 = SumFunction(Held(k)') /\ m1 = SumFunction(Most(k)')
    BY HeldNat, HeldNatNext DEF Shape
  <1>2. PICK o \in Nat, o1 \in Nat : o = Offered(k, offers) /\ o1 = Offered(k, offers')
    <2>1. Offered(k, offers) \in Nat
      BY OfferedNat DEF Shape
    <2>2. Offered(k, offers') \in Nat
      BY OfferedIsSum DEF OffersOK, Table
    <2> QED
      BY <2>1, <2>2
  <1>3. PICK v \in Nat, w \in Nat, w1 \in Nat :
          /\ v = Vault(k) /\ Vault(k)' = v
          /\ w = Larger(Vault(k), Saved(k)) /\ w1 = Larger(Vault(k), Saved(k))' /\ w1 <= w
    BY VaultKept DEF Shape
  <1>4. h1 + a = h + b /\ m1 + a <= m + b /\ o1 + c = o + d
    BY <1>1, <1>2 DEF Shift
  <1>5. Total(k) = h + o + v /\ Total(k)' = h1 + o1 + v /\ Top(k) = m + o + w /\ Top(k)' = m1 + o1 + w1
    BY <1>1, <1>2, <1>3 DEF Total, Top
  <1>6. h1 + o1 + v + loss = h + o + v /\ m1 + o1 + w1 + loss <= m + o + w
    BY <1>3, <1>4
  <1> QED
    BY <1>5, <1>6 DEF Even

\* A step that clones nothing.
Falls(k) == Total(k)' <= Total(k) /\ Top(k)' <= Top(k)

LEMMA FallStep ==
  ASSUME Shape, RecordsOK', GuildKept, UNCHANGED <<offers, house>>, NEW k \in Kinds,
         SumFunction(Held(k)') <= SumFunction(Held(k)), SumFunction(Most(k)') <= SumFunction(Most(k))
  PROVE  Falls(k)
  <1>1. PICK h \in Nat, m \in Nat, h1 \in Nat, m1 \in Nat :
          h = SumFunction(Held(k)) /\ m = SumFunction(Most(k)) /\ h1 = SumFunction(Held(k)') /\ m1 = SumFunction(Most(k)')
    BY HeldNat, HeldNatNext DEF Shape
  <1>2. PICK o \in Nat : o = Offered(k, offers) /\ o = Offered(k, offers')
    BY OfferedNat DEF Shape
  <1>3. PICK v \in Nat, w \in Nat, w1 \in Nat :
          /\ v = Vault(k) /\ Vault(k)' = v
          /\ w = Larger(Vault(k), Saved(k)) /\ w1 = Larger(Vault(k), Saved(k))' /\ w1 <= w
    BY VaultKept DEF Shape
  <1>4. Total(k) = h + o + v /\ Total(k)' = h1 + o + v /\ Top(k) = m + o + w /\ Top(k)' = m1 + o + w1
    BY <1>1, <1>2, <1>3 DEF Total, Top
  <1>5. h1 <= h /\ m1 <= m
    BY <1>1
  <1> QED
    BY <1>3, <1>4, <1>5 DEF Falls

LEMMA TotalNat ==
  ASSUME Shape, NEW k \in Kinds
  PROVE  Total(k) \in Nat /\ Top(k) \in Nat
  <1>1. SumFunction(Held(k)) \in Nat /\ SumFunction(Most(k)) \in Nat
    BY HeldNat DEF Shape
  <1>2. Offered(k, offers) \in Nat
    BY OfferedNat DEF Shape
  <1>3. Vault(k) \in Nat /\ Larger(Vault(k), Saved(k)) \in Nat
    BY VaultNat DEF Shape, Larger
  <1> QED
    BY <1>1, <1>2, <1>3 DEF Total, Top

LEMMA TotalNatNext ==
  ASSUME Shape', NEW k \in Kinds
  PROVE  Total(k)' \in Nat /\ Top(k)' \in Nat
  <1>1. SumFunction(Held(k)') \in Nat /\ SumFunction(Most(k)') \in Nat
    BY HeldNatNext DEF Shape
  <1>2. Offered(k, offers') \in Nat
    BY OfferedIsSum DEF Shape, OffersOK, Table
  <1>3. Vault(k)' \in Nat /\ Larger(Vault(k), Saved(k))' \in Nat
    BY VaultNatNext DEF Shape, Larger
  <1> QED
    BY <1>1, <1>2, <1>3 DEF Total, Top

LEMMA EvenFalls ==
  ASSUME Shape, Shape', NEW k \in Kinds, NEW loss \in Nat, Even(k, loss)
  PROVE  Falls(k)
  <1>1. Total(k) \in Nat /\ Top(k) \in Nat /\ Total(k)' \in Nat /\ Top(k)' \in Nat
    BY TotalNat, TotalNatNext
  <1> QED
    BY <1>1 DEF Even, Falls

-----------------------------------------------------------------------------
(* The steps of the market.                                                *)

\* A step that loses nothing but the fee of a new offer, and the items that it says.
Lossless ==
  \E fee \in Fees \union {0}, lost \in Nat :
    /\ nextId' = nextId => fee = 0
    /\ refused'.lost = refused.lost + lost
    /\ Even("items", lost) /\ Even("money", fee)

\* An inbox may have refused something, and that many items are lost.
Losing(lost) ==
  /\ refused' \in [times : 0 .. MaxRefusals, lost : Nat]
  /\ refused'.lost = refused.lost + lost

LEMMA RefusesLoses ==
  ASSUME CountsOK, NEW lost \in Nat, Refuses(lost) PROVE Losing(lost)
  <1>1. /\ refused.times \in 0 .. MaxRefusals /\ refused.times < MaxRefusals /\ refused.lost \in Nat
        /\ refused' = [times |-> refused.times + 1, lost |-> refused.lost + lost]
        /\ MaxRefusals \in Nat
    BY MarketAssumption DEF CountsOK, Refuses
  <1> QED
    BY <1>1 DEF Losing

LEMMA SameLoses ==
  ASSUME CountsOK, UNCHANGED refused PROVE Losing(0)
  <1>1. refused.lost \in Nat /\ refused' = refused /\ refused \in [times : 0 .. MaxRefusals, lost : Nat]
    BY DEF CountsOK
  <1> QED
    BY <1>1 DEF Losing

\* The step of a handler that returns when it could not remove the items of p.
Fails(p) ==
  /\ Online(p) /\ UNCHANGED <<status, row, offers, nextId, house>>
  /\ ItemsOf(memory'[p]) = 0
  /\ Even("money", 0)
  /\ Falls("items")

LEMMA KindsAre == "items" \in Kinds /\ "money" \in Kinds
  BY DEF Kinds

LEMMA RestKeeps ==
  ASSUME HouseOK, CountsOK, RestSame, UNCHANGED <<crashes, cloned, refused>>
  PROVE  HouseOK' /\ CountsOK'
  BY DEF HouseOK, CountsOK, RestSame

LEMMA LosingKeeps ==
  ASSUME HouseOK, CountsOK, RestSame, UNCHANGED <<crashes, cloned>>, NEW lost, Losing(lost)
  PROVE  HouseOK' /\ CountsOK'
  BY DEF HouseOK, CountsOK, RestSame, Losing

LEMMA RecordsSame ==
  ASSUME RecordsOK, UNCHANGED <<status, memory, row>>
  PROVE  RecordsOK' /\ \A k \in Kinds : Shift(k, 0, 0)
  <1>1. RecordsOK'
    BY DEF RecordsOK
  <1>2. ASSUME NEW k \in Kinds PROVE Shift(k, 0, 0)
    <2>1. Held(k)' = Held(k) /\ Most(k)' = Most(k)
      BY DEF Held, Most, Found, Online
    <2>2. SumFunction(Held(k)) \in Nat /\ SumFunction(Most(k)) \in Nat
      BY HeldNat
    <2> QED
      BY <2>1, <2>2 DEF Shift
  <1> QED
    BY <1>1, <1>2

LEMMA RemovalFailsKeeps ==
  ASSUME Shape, NEW p \in Players, Online(p), NEW n \in Nat, RemovalFails(p, n), GuildOK', GuildKept, RestSame,
         UNCHANGED <<status, old, results, crashes, cloned, refused>>
  PROVE  Shape' /\ Fails(p)
  <1>1. PICK r \in Record : r = memory[p]
    BY DEF Shape, RecordsOK
  <1>2. PICK s \in Record : s = Gives(r, n) /\ s.money = r.money /\ ItemsOf(s) = 0
    BY <1>1, GivesTakes DEF RemovalFails
  <1>3. /\ memory' = [memory EXCEPT ![p] = s] /\ UNCHANGED <<row, offers, nextId>>
        /\ memory'[p] = s /\ OthersKeep({p})
    BY <1>1, <1>2 DEF RemovalFails, OthersKeep, Shape, RecordsOK
  <1>4. RecordsOK'
    BY <1>3 DEF Shape, RecordsOK, Online
  <1>5. OffersOK'
    BY <1>3, OffersSame DEF Shape
  <1>6. GuildOK' /\ GuildKept
    OBVIOUS
  <1>7. HouseOK' /\ CountsOK' /\ house' = house
    BY RestKeeps DEF Shape, RestSame
  <1>8. Shape'
    BY <1>4, <1>5, <1>6, <1>7 DEF Shape
  <1>9. ASSUME NEW k \in Kinds
        PROVE  /\ Held(k)[p] = Val(k, r) /\ Held(k)'[p] = Val(k, s)
               /\ Most(k)[p] = Larger(Val(k, r), Val(k, row[p])) /\ Most(k)'[p] = Larger(Val(k, s), Val(k, row[p]))
               /\ Val(k, r) \in Nat /\ Val(k, s) \in Nat /\ Val(k, row[p]) \in Nat
    BY <1>1, <1>3, ValNat DEF Held, Most, Found, Online, Shape, RecordsOK
  <1>10. ASSUME NEW k \in Kinds, Val(k, s) <= Val(k, r)
         PROVE  /\ SumFunction(Held(k)') + Val(k, r) = SumFunction(Held(k)) + Val(k, s)
                /\ SumFunction(Most(k)') <= SumFunction(Most(k))
    <2>1. /\ SumFunction(Held(k)') + Held(k)[p] = SumFunction(Held(k)) + Held(k)'[p]
          /\ SumFunction(Most(k)') + Most(k)[p] = SumFunction(Most(k)) + Most(k)'[p]
      BY <1>3, <1>4, OneMoves DEF Shape
    <2>2. SumFunction(Most(k)) \in Nat /\ SumFunction(Most(k)') \in Nat
      BY <1>4, HeldNat, HeldNatNext DEF Shape
    <2>3. Most(k)[p] \in Nat /\ Most(k)'[p] \in Nat /\ Most(k)'[p] <= Most(k)[p]
      BY <1>9, <1>10 DEF Larger
    <2> QED
      BY <1>9, <2>1, <2>2, <2>3
  <1>11. Val("items", s) = 0 /\ Val("money", s) = Val("money", r)
    BY <1>2 DEF Val, Units
  <1>12. Even("money", 0)
    <2>1. Val("money", r) \in Nat /\ Val("money", s) <= Val("money", r)
      BY <1>9, <1>11, KindsAre
    <2>2. PICK x \in Nat : x = Val("money", r)
      BY <2>1
    <2>3. /\ SumFunction(Held("money")') + x = SumFunction(Held("money")) + x
          /\ SumFunction(Most("money")') <= SumFunction(Most("money"))
      BY <1>10, <1>11, <2>1, <2>2, KindsAre
    <2>4. /\ SumFunction(Held("money")) \in Nat /\ SumFunction(Held("money")') \in Nat
          /\ SumFunction(Most("money")) \in Nat /\ SumFunction(Most("money")') \in Nat
      BY <1>4, HeldNat, HeldNatNext, KindsAre DEF Shape
    <2>5. Shift("money", 0, 0)
      BY <2>3, <2>4 DEF Shift
    <2>6. Offered("money", offers') + 0 = Offered("money", offers) + 0
      BY <1>3
    <2> QED
      BY <1>4, <1>5, <1>6, <1>7, <2>5, <2>6, EvenStep, KindsAre
  <1>13. Falls("items")
    <2>1. Val("items", r) \in Nat /\ Val("items", s) <= Val("items", r)
      BY <1>9, <1>11, KindsAre
    <2>2. /\ SumFunction(Held("items")') + Val("items", r) = SumFunction(Held("items")) + 0
          /\ SumFunction(Most("items")') <= SumFunction(Most("items"))
      BY <1>10, <1>11, <2>1, KindsAre
    <2>3. SumFunction(Held("items")) \in Nat /\ SumFunction(Held("items")') \in Nat
      BY <1>4, HeldNat, HeldNatNext, KindsAre DEF Shape
    <2>4. SumFunction(Held("items")') <= SumFunction(Held("items"))
      BY <2>1, <2>2, <2>3
    <2> QED
      BY <1>3, <1>4, <1>6, <1>7, <2>2, <2>4, FallStep, KindsAre
  <1>14. Fails(p)
    BY <1>2, <1>3, <1>7, <1>12, <1>13 DEF Fails
  <1> QED
    BY <1>8, <1>14

\* An offer is created, with its fee.
LEMMA CreatesKeeps ==
  ASSUME Shape, NEW p \in Players, Online(p), NEW r \in Record, SavedAs(p, r), nextId <= MaxId,
         NEW o \in OfferType, o.id = nextId, Insert(o), NEW fee \in Fees,
         Val("items", r) + In("items", o) = Val("items", memory[p]),
         Val("money", r) + In("money", o) + fee = Val("money", memory[p]),
         SameGuild, RestSame, UNCHANGED <<status, old, results, crashes, cloned, refused>>
  PROVE  Shape' /\ Lossless
  <1>1. RecordsOK' /\ \A k \in Kinds : Shift(k, Val(k, memory[p]), Val(k, r))
    BY SavedShifts DEF Shape
  <1>2. OffersOK' /\ \A k \in Kinds : Offered(k, offers') = Offered(k, offers) + In(k, o)
    BY InsertKeeps DEF Shape
  <1>3. GuildOK' /\ GuildKept
    BY GuildSame DEF Shape, RestSame
  <1>4. HouseOK' /\ CountsOK' /\ house' = house
    BY RestKeeps DEF Shape, RestSame
  <1>5. Shape'
    BY <1>1, <1>2, <1>3, <1>4 DEF Shape
  <1>6. \A k \in Kinds : /\ Val(k, r) \in Nat /\ Val(k, memory[p]) \in Nat /\ In(k, o) \in Nat
                         /\ Offered(k, offers) \in Nat
    BY ValNat, InNat, OfferedNat DEF Shape, RecordsOK
  <1>7. ASSUME NEW k \in Kinds, NEW loss \in Nat, Val(k, r) + In(k, o) + loss = Val(k, memory[p])
        PROVE  Even(k, loss)
    <2>1. PICK a \in Nat, b \in Nat, d \in Nat, z \in Nat :
            a = Val(k, memory[p]) /\ b = Val(k, r) /\ d = In(k, o) /\ z = 0
      BY <1>6
    <2>2. Shift(k, a, b) /\ b + d + loss = a + z
      BY <1>1, <1>7, <2>1
    <2>3. Offered(k, offers') + z = Offered(k, offers) + d
      BY <1>2, <1>6, <2>1
    <2> QED
      BY <1>1, <1>2, <1>3, <1>4, <2>2, <2>3, EvenStep
  <1>8. Even("items", 0)
    <2>1. Val("items", r) + In("items", o) + 0 = Val("items", memory[p])
      BY <1>6, KindsAre
    <2> QED
      BY <1>7, <2>1, KindsAre
  <1>9. fee \in Nat /\ Even("money", fee)
    BY <1>7, KindsAre, MarketAssumption
  <1>10. nextId' # nextId
    BY DEF Insert, Shape, OffersOK
  <1>11. refused'.lost = refused.lost + 0 /\ 0 \in Nat
    BY SameLoses DEF Shape, Losing
  <1> QED
    BY <1>5, <1>8, <1>9, <1>10, <1>11 DEF Lossless

LEMMA CreateSellKeeps ==
  ASSUME Shape, NEW p \in Players, NEW n \in Amounts, NEW price \in Prices, CreateSell(p, n, price),
         SameGuild, RestSame
  PROVE  Shape' /\ (Lossless \/ Fails(p))
  <1>1. PICK fee \in Fees :
          /\ fee <= memory[p].money
          /\ \/ RemovalFails(p, n)
             \/ /\ Has(memory[p], n)
                /\ SavedAs(p, Pays(Gives(memory[p], n), fee))
                /\ Insert(Offer(p, TRUE, n, price))
    BY DEF CreateSell
  <1>2. Online(p) /\ nextId <= MaxId /\ UNCHANGED <<status, old, results, crashes, cloned, refused>>
    BY DEF CreateSell, CanCreate
  <1>3. n \in Nat \ {0} /\ fee \in Nat /\ price \in Nat
    BY MarketAssumption
  <1>4. CASE RemovalFails(p, n)
    <2>1. GuildOK' /\ GuildKept
      BY <1>2, GuildSame DEF Shape, RestSame
    <2> QED
      BY <1>2, <1>3, <1>4, <2>1, RemovalFailsKeeps
  <1>5. CASE ~RemovalFails(p, n)
    <2>1. PICK m \in Record : m = memory[p]
      BY DEF Shape, RecordsOK
    <2>2. PICK g \in Record : g = Gives(m, n) /\ g.money = m.money /\ ItemsOf(g) = ItemsOf(m) - n
      BY <1>1, <1>3, <1>5, <2>1, GivesTakes
    <2>3. PICK r \in Record : r = Pays(g, fee) /\ ItemsOf(r) = ItemsOf(g) /\ r.money = g.money - fee
      BY <1>1, <1>3, <2>1, <2>2, PaysGives
    <2>4. PICK o : o = Offer(p, TRUE, n, price)
      OBVIOUS
    <2>5. o \in OfferType /\ o.id = nextId /\ ItemsIn(o) = n /\ MoneyIn(o) = 0
      BY <1>3, <2>4 DEF Offer, OfferType, ItemsIn, MoneyIn, Shape, OffersOK
    <2>6. ItemsOf(m) \in Nat /\ m.money \in Nat
      BY DEF Record, ItemsOf
    <2>7. /\ Val("items", r) + In("items", o) = Val("items", m)
          /\ Val("money", r) + In("money", o) + fee = Val("money", m)
      BY <1>3, <2>2, <2>3, <2>5, <2>6 DEF Val, In, Units
    <2>8. SavedAs(p, r) /\ Insert(o)
      BY <1>1, <1>5, <2>1, <2>2, <2>3, <2>4
    <2> QED
      BY <1>2, <2>1, <2>5, <2>7, <2>8, CreatesKeeps
  <1> QED
    BY <1>4, <1>5

LEMMA CreateBuyKeeps ==
  ASSUME Shape, NEW p \in Players, NEW n \in Amounts, NEW price \in Prices, CreateBuy(p, n, price),
         SameGuild, RestSame
  PROVE  Shape' /\ Lossless
  <1>1. PICK fee \in Fees : /\ n * price + fee <= memory[p].money
                            /\ SavedAs(p, Pays(memory[p], n * price + fee))
    BY DEF CreateBuy
  <1>2. /\ Online(p) /\ nextId <= MaxId /\ UNCHANGED <<status, old, results, crashes, cloned, refused>>
        /\ Insert(Offer(p, FALSE, n, price))
    BY DEF CreateBuy, CanCreate
  <1>3. n \in Nat \ {0} /\ fee \in Nat /\ price \in Nat
    BY MarketAssumption
  <1>4. PICK x \in Nat : x = n * price /\ x = price * n
    BY <1>3
  <1>5. PICK m \in Record : m = memory[p]
    BY DEF Shape, RecordsOK
  <1>6. PICK r \in Record : r = Pays(m, x + fee) /\ ItemsOf(r) = ItemsOf(m) /\ r.money = m.money - (x + fee)
    BY <1>1, <1>3, <1>4, <1>5, PaysGives
  <1>7. PICK o : o = Offer(p, FALSE, n, price)
    OBVIOUS
  <1>8. o \in OfferType /\ o.id = nextId /\ ItemsIn(o) = 0 /\ MoneyIn(o) = x
    BY <1>3, <1>4, <1>7 DEF Offer, OfferType, ItemsIn, MoneyIn, Shape, OffersOK
  <1>9. ItemsOf(m) \in Nat /\ m.money \in Nat
    BY DEF Record, ItemsOf
  <1>10. /\ Val("items", r) + In("items", o) = Val("items", m)
         /\ Val("money", r) + In("money", o) + fee = Val("money", m)
    BY <1>3, <1>6, <1>8, <1>9 DEF Val, In, Units
  <1>11. SavedAs(p, r) /\ Insert(o)
    BY <1>1, <1>2, <1>4, <1>5, <1>6, <1>7
  <1> QED
    BY <1>2, <1>5, <1>8, <1>10, <1>11, CreatesKeeps

\* A handler's player, and maybe its other side, settles with an offer; items may
\* be lost.
LEMMA SettleLoses ==
  ASSUME Shape, RecordsOK', OffersOK', GuildOK', GuildKept, RestSame, UNCHANGED <<nextId, crashes, cloned>>,
         NEW lost \in Nat, Losing(lost),
         NEW a, NEW b, NEW c, NEW d,
         \A k \in Kinds : /\ a[k] \in Nat /\ b[k] \in Nat /\ c[k] \in Nat /\ d[k] \in Nat
                          /\ Shift(k, a[k], b[k])
                          /\ Offered(k, offers') + c[k] = Offered(k, offers) + d[k]
                          /\ b[k] + d[k] + Units(k, lost, 0) = a[k] + c[k]
  PROVE  Shape' /\ Lossless
  <1>1. HouseOK' /\ CountsOK' /\ house' = house
    BY LosingKeeps DEF Shape, RestSame
  <1>2. Shape'
    BY <1>1 DEF Shape
  <1>3. ASSUME NEW k \in Kinds PROVE Even(k, Units(k, lost, 0))
    <2>1. PICK a1 \in Nat, b1 \in Nat, c1 \in Nat, d1 \in Nat, l \in Nat :
            a1 = a[k] /\ b1 = b[k] /\ c1 = c[k] /\ d1 = d[k] /\ l = Units(k, lost, 0)
      BY DEF Units
    <2>2. /\ Shift(k, a1, b1) /\ Offered(k, offers') + c1 = Offered(k, offers) + d1
          /\ b1 + d1 + l = a1 + c1
      BY <2>1
    <2>3. Even(k, l)
      BY <1>1, <2>2, EvenStep
    <2> QED
      BY <2>1, <2>3
  <1>4. Even("items", lost) /\ Even("money", 0)
    <2>1. Units("items", lost, 0) = lost /\ Units("money", lost, 0) = 0
      BY DEF Units
    <2>2. Even("items", Units("items", lost, 0)) /\ Even("money", Units("money", lost, 0))
      BY <1>3, KindsAre
    <2> QED
      BY <2>1, <2>2
  <1>5. refused'.lost = refused.lost + lost
    BY DEF Losing
  <1> QED
    BY <1>2, <1>4, <1>5 DEF Lossless

\* The same, when nothing is.
LEMMA SettleKeeps ==
  ASSUME Shape, RecordsOK', OffersOK', GuildOK', GuildKept, RestSame, UNCHANGED <<nextId, crashes, cloned, refused>>,
         NEW a, NEW b, NEW c, NEW d,
         \A k \in Kinds : /\ a[k] \in Nat /\ b[k] \in Nat /\ c[k] \in Nat /\ d[k] \in Nat
                          /\ Shift(k, a[k], b[k])
                          /\ Offered(k, offers') + c[k] = Offered(k, offers) + d[k]
                          /\ b[k] + d[k] = a[k] + c[k]
  PROVE  Shape' /\ Lossless
  <1>1. PICK lost \in Nat : lost = 0 /\ Losing(lost)
    BY SameLoses DEF Shape
  <1>2. \A k \in Kinds : /\ a[k] \in Nat /\ b[k] \in Nat /\ c[k] \in Nat /\ d[k] \in Nat
                         /\ Shift(k, a[k], b[k])
                         /\ Offered(k, offers') + c[k] = Offered(k, offers) + d[k]
                         /\ b[k] + d[k] + Units(k, lost, 0) = a[k] + c[k]
    BY <1>1 DEF Units
  <1>3. UNCHANGED <<nextId, crashes, cloned>>
    OBVIOUS
  <1> QED
    BY <1>1, <1>2, <1>3, SettleLoses

LEMMA CancelKeeps ==
  ASSUME Shape, NEW o \in offers, Cancel(o), SameGuild, RestSame
  PROVE  Shape' /\ Lossless
  <1>1. o \in OfferType
    BY DEF Shape, OffersOK, Table
  <1>2. PICK p \in Players : p = o.player
    BY <1>1 DEF OfferType
  <1>3. PICK m \in Record : m = memory[p]
    BY DEF Shape, RecordsOK
  <1>4. PICK lost \in 0 .. ItemsIn(o) :
          /\ IF lost = 0 THEN UNCHANGED refused ELSE Refuses(lost)
          /\ SavedAs(p, Refund(m, {o}, lost))
    BY <1>2, <1>3 DEF Cancel
  <1>5. Online(p) /\ offers' = offers \ {o} /\ UNCHANGED <<status, nextId, old, results, crashes, cloned>>
    BY <1>2 DEF Cancel
  <1>6. IsFiniteSet({o}) /\ {o} \subseteq OfferType
    BY <1>1, FS_Singleton
  <1>7. Offered("items", {o}) = ItemsIn(o) /\ ItemsIn(o) \in Nat
    <2>1. Offered("items", {o}) = In("items", o) /\ In("items", o) \in Nat
      BY <1>1, KindsAre, OfferedOne, InNat
    <2> QED
      BY <2>1 DEF In, Units
  <1>8. lost \in Nat /\ lost <= ItemsOffered({o})
    BY <1>7 DEF Offered, Units
  <1>9. Losing(lost)
    BY <1>4, <1>8, RefusesLoses, SameLoses DEF Shape
  <1>10. PICK r \in Record : /\ r = Refund(m, {o}, lost)
                            /\ \A k \in Kinds : Val(k, r) + Units(k, lost, 0) = Val(k, m) + Offered(k, {o})
    BY <1>6, <1>8, Refunds
  <1>11. \A k \in Kinds : /\ Val(k, r) + Units(k, lost, 0) = Val(k, m) + In(k, o)
                          /\ Val(k, r) \in Nat /\ Val(k, m) \in Nat /\ In(k, o) \in Nat
    BY <1>1, <1>10, OfferedOne, ValNat, InNat
  <1>12. RecordsOK' /\ \A k \in Kinds : Shift(k, Val(k, m), Val(k, r))
    BY <1>3, <1>4, <1>5, <1>10, SavedShifts DEF Shape
  <1>13. OffersOK' /\ \A k \in Kinds : Offered(k, offers') + In(k, o) = Offered(k, offers)
    BY <1>5, RemoveKeeps DEF Shape
  <1>14. GuildOK' /\ GuildKept
    BY <1>5, GuildSame DEF Shape, RestSame
  <1>15. \A k \in Kinds : Offered(k, offers) \in Nat
    BY OfferedNat DEF Shape
  <1> DEFINE a == [k \in Kinds |-> Val(k, m)]
             b == [k \in Kinds |-> Val(k, r)]
             c == [k \in Kinds |-> In(k, o)]
             d == [k \in Kinds |-> 0]
  <1>16. PICK a1, b1, c1, d1 :
           \A k \in Kinds : /\ a1[k] = Val(k, m) /\ b1[k] = Val(k, r) /\ c1[k] = In(k, o) /\ d1[k] = 0
    <2>1. \A k \in Kinds : /\ a[k] = Val(k, m) /\ b[k] = Val(k, r) /\ c[k] = In(k, o) /\ d[k] = 0
      OBVIOUS
    <2> HIDE DEF a, b, c, d
    <2> QED
      BY <2>1
  <1> HIDE DEF a, b, c, d
  <1>17. \A k \in Kinds : Units(k, lost, 0) \in Nat
    BY <1>8 DEF Units
  <1>18. \A k \in Kinds : /\ a1[k] \in Nat /\ b1[k] \in Nat /\ c1[k] \in Nat /\ d1[k] \in Nat
                          /\ Shift(k, a1[k], b1[k])
                          /\ Offered(k, offers') + c1[k] = Offered(k, offers) + d1[k]
                          /\ b1[k] + d1[k] + Units(k, lost, 0) = a1[k] + c1[k]
    BY <1>11, <1>12, <1>13, <1>15, <1>16, <1>17
  <1>19. UNCHANGED <<nextId, crashes, cloned>>
    BY <1>5
  <1> QED
    BY <1>8, <1>9, <1>12, <1>13, <1>14, <1>18, <1>19, SettleLoses

LEMMA AcceptKeeps ==
  ASSUME Shape, NEW p \in Players, Online(p), NEW o \in offers, o.player # p,
         NEW n \in Nat \ {0}, n <= o.amount,
         NEW r \in Record, NEW s \in Record, BothAs(p, r, o.player, s), Reduce(o, n),
         \A k \in Kinds : /\ Val(k, Found(o.player)) <= Val(k, s)
                          /\ Val(k, r) + Val(k, s) = Val(k, memory[p]) + Val(k, Found(o.player)) + Part(k, o, n),
         LoadsCopies({o.player}), RestSame, UNCHANGED <<status, nextId, old, results, crashes, cloned, refused>>
  PROVE  Shape' /\ Lossless
  <1>1. o \in OfferType
    BY DEF Shape, OffersOK, Table
  <1>2. PICK q \in Players : q = o.player
    BY <1>1 DEF OfferType
  <1>3. /\ RecordsOK'
        /\ \A k \in Kinds : Shift(k, Val(k, memory[p]) + Val(k, Found(q)), Val(k, r) + Val(k, s))
    BY <1>2, BothShift DEF Shape
  <1>4. OffersOK' /\ \A k \in Kinds : Offered(k, offers') + Part(k, o, n) = Offered(k, offers)
    BY ReduceKeeps DEF Shape
  <1>5. GuildOK' /\ GuildKept
    BY LoadsKeeps DEF LoadsCopies, Shape, RestSame
  <1>6. memory[p] \in Record /\ Found(q) \in Record
    BY DEF Shape, RecordsOK, Found
  <1>7. \A k \in Kinds : /\ Val(k, memory[p]) \in Nat /\ Val(k, Found(q)) \in Nat
                         /\ Val(k, r) \in Nat /\ Val(k, s) \in Nat
                         /\ Part(k, o, n) \in Nat /\ Offered(k, offers) \in Nat
    <2>1. \A k \in Kinds : Part(k, o, n) \in Nat
      BY <1>1, PartTaken
    <2>2. \A k \in Kinds : Offered(k, offers) \in Nat
      BY OfferedNat DEF Shape
    <2> QED
      BY <1>6, <2>1, <2>2, ValNat
  <1> DEFINE a == [k \in Kinds |-> Val(k, memory[p]) + Val(k, Found(q))]
             b == [k \in Kinds |-> Val(k, r) + Val(k, s)]
             c == [k \in Kinds |-> Part(k, o, n)]
             d == [k \in Kinds |-> 0]
  <1>8. PICK a1, b1, c1, d1 :
          \A k \in Kinds : /\ a1[k] = Val(k, memory[p]) + Val(k, Found(q)) /\ b1[k] = Val(k, r) + Val(k, s)
                           /\ c1[k] = Part(k, o, n) /\ d1[k] = 0
    <2>1. \A k \in Kinds : /\ a[k] = Val(k, memory[p]) + Val(k, Found(q)) /\ b[k] = Val(k, r) + Val(k, s)
                           /\ c[k] = Part(k, o, n) /\ d[k] = 0
      OBVIOUS
    <2> HIDE DEF a, b, c, d
    <2> QED
      BY <2>1
  <1> HIDE DEF a, b, c, d
  <1>9. \A k \in Kinds : b1[k] = a1[k] + c1[k]
    BY <1>2, <1>8
  <1>10. \A k \in Kinds : /\ a1[k] \in Nat /\ b1[k] \in Nat /\ c1[k] \in Nat /\ d1[k] \in Nat
                          /\ Shift(k, a1[k], b1[k])
                          /\ Offered(k, offers') + c1[k] = Offered(k, offers) + d1[k]
                          /\ b1[k] + d1[k] = a1[k] + c1[k]
    BY <1>3, <1>4, <1>7, <1>8, <1>9
  <1> QED
    BY <1>3, <1>4, <1>5, <1>10, SettleKeeps

LEMMA AcceptBuyKeeps ==
  ASSUME Shape, NEW p \in Players, NEW n \in Amounts, NEW o \in offers, AcceptBuy(p, o, n),
         LoadsCopies({o.player}), RestSame
  PROVE  Shape' /\ (Lossless \/ Fails(p))
  <1>1. /\ Online(p) /\ n <= o.amount /\ o.player # p /\ ~o.sale
        /\ UNCHANGED <<status, old, results, crashes, cloned, refused>>
    BY DEF AcceptBuy, Acceptable
  <1>2. n \in Nat \ {0} /\ o \in OfferType
    BY MarketAssumption DEF Shape, OffersOK, Table
  <1>3. CASE RemovalFails(p, n)
    <2>1. GuildOK' /\ GuildKept
      BY <1>1, LoadsKeeps DEF LoadsCopies, Shape, RestSame
    <2> QED
      BY <1>1, <1>2, <1>3, <2>1, RemovalFailsKeeps
  <1>4. CASE ~RemovalFails(p, n)
    <2>1. /\ Has(memory[p], n)
          /\ BothAs(p, Earns(Gives(memory[p], n), o.price * n), o.player, Receives(Found(o.player), n))
          /\ Reduce(o, n) /\ UNCHANGED nextId
      BY <1>4 DEF AcceptBuy
    <2>2. PICK q \in Players : q = o.player
      BY <1>2 DEF OfferType
    <2>3. PICK m \in Record, f \in Record : m = memory[p] /\ f = Found(q)
      BY DEF Shape, RecordsOK, Found
    <2>4. PICK x \in Nat : x = o.price * n
      <3>1. o.price \in Nat /\ n \in Nat
        BY <1>2, MarketAssumption DEF OfferType
      <3>2. o.price * n \in Nat
        BY <3>1
      <3> QED
        BY <3>2
    <2>5. PICK g \in Record : g = Gives(m, n) /\ g.money = m.money /\ ItemsOf(g) = ItemsOf(m) - n
      BY <1>2, <2>1, <2>3, GivesTakes
    <2>6. PICK r \in Record : r = Earns(g, x) /\ ItemsOf(r) = ItemsOf(g) /\ r.money = g.money + x
      BY EarnsGets
    <2>7. PICK s \in Record : s = Receives(f, n) /\ ItemsOf(s) = ItemsOf(f) + n /\ s.money = f.money
      BY <1>2, ReceivesGets
    <2>8. ItemsOf(m) \in Nat /\ m.money \in Nat /\ ItemsOf(f) \in Nat /\ f.money \in Nat
      BY DEF Record, ItemsOf
    <2>9. Part("items", o, n) = 0 /\ Part("money", o, n) = x
      BY <1>1, <2>4 DEF Part, Units
    <2>10. \A k \in Kinds : /\ Val(k, f) <= Val(k, s)
                            /\ Val(k, r) + Val(k, s) = Val(k, m) + Val(k, f) + Part(k, o, n)
      <3>1. ASSUME NEW k \in Kinds, k = "items"
            PROVE  /\ Val(k, f) <= Val(k, s)
                   /\ Val(k, r) + Val(k, s) = Val(k, m) + Val(k, f) + Part(k, o, n)
        BY <1>2, <2>5, <2>6, <2>7, <2>8, <2>9, <3>1 DEF Val, Units
      <3>2. ASSUME NEW k \in Kinds, k = "money"
            PROVE  /\ Val(k, f) <= Val(k, s)
                   /\ Val(k, r) + Val(k, s) = Val(k, m) + Val(k, f) + Part(k, o, n)
        BY <2>5, <2>6, <2>7, <2>8, <2>9, <3>2 DEF Val, Units
      <3> QED
        BY <3>1, <3>2 DEF Kinds
    <2>11. BothAs(p, r, o.player, s)
      BY <2>1, <2>2, <2>3, <2>4, <2>5, <2>6, <2>7
    <2> QED
      BY <1>1, <1>2, <2>1, <2>2, <2>3, <2>10, <2>11, AcceptKeeps
  <1> QED
    BY <1>3, <1>4

LEMMA AcceptSellKeeps ==
  ASSUME Shape, NEW p \in Players, NEW n \in Amounts, NEW o \in offers, AcceptSell(p, o, n),
         LoadsCopies({o.player}), RestSame
  PROVE  Shape' /\ Lossless
  <1>1. /\ Online(p) /\ n <= o.amount /\ o.player # p /\ o.sale
        /\ o.price * n <= memory[p].money
        /\ BothAs(p, Receives(Pays(memory[p], o.price * n), n), o.player, Earns(Found(o.player), o.price * n))
        /\ Reduce(o, n)
        /\ UNCHANGED <<status, nextId, old, results, crashes, cloned, refused>>
    BY DEF AcceptSell, Acceptable
  <1>2. n \in Nat \ {0} /\ o \in OfferType
    BY MarketAssumption DEF Shape, OffersOK, Table
  <1>3. PICK q \in Players : q = o.player
    BY <1>2 DEF OfferType
  <1>4. PICK m \in Record, f \in Record : m = memory[p] /\ f = Found(q)
    BY DEF Shape, RecordsOK, Found
  <1>5. PICK x \in Nat : x = o.price * n
    <2>1. o.price \in Nat /\ n \in Nat
      BY <1>2, MarketAssumption DEF OfferType
    <2>2. o.price * n \in Nat
      BY <2>1
    <2> QED
      BY <2>2
  <1>6. PICK g \in Record : g = Pays(m, x) /\ g.money = m.money - x /\ ItemsOf(g) = ItemsOf(m)
    BY <1>1, <1>4, <1>5, PaysGives
  <1>7. PICK r \in Record : r = Receives(g, n) /\ ItemsOf(r) = ItemsOf(g) + n /\ r.money = g.money
    BY <1>2, ReceivesGets
  <1>8. PICK s \in Record : s = Earns(f, x) /\ ItemsOf(s) = ItemsOf(f) /\ s.money = f.money + x
    BY EarnsGets
  <1>9. ItemsOf(m) \in Nat /\ m.money \in Nat /\ ItemsOf(f) \in Nat /\ f.money \in Nat
    BY DEF Record, ItemsOf
  <1>10. Part("items", o, n) = n /\ Part("money", o, n) = 0
    BY <1>1 DEF Part, Units
  <1>11. \A k \in Kinds : /\ Val(k, f) <= Val(k, s)
                          /\ Val(k, r) + Val(k, s) = Val(k, m) + Val(k, f) + Part(k, o, n)
    <2>1. ASSUME NEW k \in Kinds, k = "items"
          PROVE  /\ Val(k, f) <= Val(k, s)
                 /\ Val(k, r) + Val(k, s) = Val(k, m) + Val(k, f) + Part(k, o, n)
      BY <1>2, <1>6, <1>7, <1>8, <1>9, <1>10, <2>1 DEF Val, Units
    <2>2. ASSUME NEW k \in Kinds, k = "money"
          PROVE  /\ Val(k, f) <= Val(k, s)
                 /\ Val(k, r) + Val(k, s) = Val(k, m) + Val(k, f) + Part(k, o, n)
      BY <1>6, <1>7, <1>8, <1>9, <1>10, <2>2 DEF Val, Units
    <2> QED
      BY <2>1, <2>2 DEF Kinds
  <1>12. BothAs(p, r, o.player, s)
    BY <1>1, <1>3, <1>4, <1>5, <1>6, <1>7, <1>8
  <1> QED
    BY <1>1, <1>2, <1>3, <1>4, <1>11, <1>12, AcceptKeeps

LEMMA AgeStepKeeps ==
  ASSUME Shape, Age, SameGuild, RestSame
  PROVE  Shape' /\ Lossless
  <1>1. RecordsOK' /\ \A k \in Kinds : Shift(k, 0, 0)
    BY RecordsSame DEF Shape, Age
  <1>2. OffersOK' /\ offers' = offers /\ UNCHANGED <<status, nextId, crashes, cloned, refused>>
    BY AgeKeeps DEF Shape, Age
  <1>3. GuildOK' /\ GuildKept
    BY <1>2, GuildSame DEF Shape, RestSame
  <1>4. \A k \in Kinds : Offered(k, offers) \in Nat
    BY OfferedNat DEF Shape
  <1> DEFINE z == [k \in Kinds |-> 0]
  <1>5. \A k \in Kinds : z[k] = 0
    OBVIOUS
  <1> HIDE DEF z
  <1>6. \A k \in Kinds : /\ z[k] \in Nat /\ z[k] \in Nat /\ z[k] \in Nat /\ z[k] \in Nat
                         /\ Shift(k, z[k], z[k])
                         /\ Offered(k, offers') + z[k] = Offered(k, offers) + z[k]
                         /\ z[k] + z[k] = z[k] + z[k]
    BY <1>1, <1>2, <1>4, <1>5
  <1> QED
    BY <1>1, <1>2, <1>3, <1>6, SettleKeeps

\* Every step of the market.
LEMMA MarketKeeps ==
  ASSUME Shape, MarketStep, RestSame
  PROVE  /\ Shape' /\ UNCHANGED <<crashes, cloned>>
         /\ Lossless \/ \E p \in Players : Fails(p)
  <1>1. ASSUME NEW p \in Players, NEW n \in Amounts, NEW price \in Prices, CreateSell(p, n, price), SameGuild
        PROVE  Shape' /\ UNCHANGED <<crashes, cloned>> /\ (Lossless \/ Fails(p))
    BY <1>1, CreateSellKeeps DEF CreateSell
  <1>2. ASSUME NEW p \in Players, NEW n \in Amounts, NEW price \in Prices, CreateBuy(p, n, price), SameGuild
        PROVE  Shape' /\ UNCHANGED <<crashes, cloned>> /\ Lossless
    BY <1>2, CreateBuyKeeps DEF CreateBuy
  <1>3. ASSUME NEW p \in Players, NEW n \in Amounts, NEW o \in offers, AcceptSell(p, o, n), LoadsCopies({o.player})
        PROVE  Shape' /\ UNCHANGED <<crashes, cloned>> /\ Lossless
    BY <1>3, AcceptSellKeeps DEF AcceptSell
  <1>4. ASSUME NEW p \in Players, NEW n \in Amounts, NEW o \in offers, AcceptBuy(p, o, n), LoadsCopies({o.player})
        PROVE  Shape' /\ UNCHANGED <<crashes, cloned>> /\ (Lossless \/ Fails(p))
    BY <1>4, AcceptBuyKeeps DEF AcceptBuy
  <1>5. ASSUME NEW o \in offers, Cancel(o), SameGuild
        PROVE  Shape' /\ UNCHANGED <<crashes, cloned>> /\ Lossless
    BY <1>5, CancelKeeps DEF Cancel
  <1>6. ASSUME Age, SameGuild
        PROVE  Shape' /\ UNCHANGED <<crashes, cloned>> /\ Lossless
    BY <1>6, AgeStepKeeps DEF Age
  <1> QED
    BY <1>1, <1>2, <1>3, <1>4, <1>5, <1>6 DEF MarketStep

-----------------------------------------------------------------------------
(* The steps of the players.                                               *)

LEMMA OneKeeps ==
  ASSUME RecordsOK, RecordsOK', NEW p \in Players, OthersKeep({p}),
         Found(p)' = Found(p), row'[p] \in {row[p], Found(p)}
  PROVE  \A k \in Kinds : Shift(k, 0, 0)
  <1> TAKE k \in Kinds
  <1>1. /\ SumFunction(Held(k)') + Held(k)[p] = SumFunction(Held(k)) + Held(k)'[p]
        /\ SumFunction(Most(k)') + Most(k)[p] = SumFunction(Most(k)) + Most(k)'[p]
    BY OneMoves
  <1>2. Val(k, Found(p)) \in Nat /\ Val(k, row[p]) \in Nat
    BY ValNat DEF RecordsOK, Found
  <1>3. /\ Held(k)[p] = Val(k, Found(p)) /\ Held(k)'[p] = Val(k, Found(p))
        /\ Most(k)[p] = Larger(Val(k, Found(p)), Val(k, row[p]))
        /\ Most(k)'[p] = Larger(Val(k, Found(p)), Val(k, row'[p]))
    BY DEF Held, Most
  <1>4. Most(k)[p] \in Nat /\ Most(k)'[p] \in Nat /\ Most(k)'[p] <= Most(k)[p]
    BY <1>2, <1>3 DEF Larger
  <1>5. /\ SumFunction(Held(k)) \in Nat /\ SumFunction(Held(k)') \in Nat
        /\ SumFunction(Most(k)) \in Nat /\ SumFunction(Most(k)') \in Nat
    BY HeldNat, HeldNatNext
  <1> QED
    BY <1>1, <1>2, <1>3, <1>4, <1>5 DEF Shift

LEMMA LoginRecords ==
  ASSUME RecordsOK, NEW p \in Players, Login(p)
  PROVE  RecordsOK' /\ \A k \in Kinds : Shift(k, 0, 0)
  <1>1. /\ status' = [status EXCEPT ![p] = "online"] /\ memory' = [memory EXCEPT ![p] = row[p]] /\ row' = row
        /\ status[p] = "offline"
    BY DEF Login, Become
  <1>2. RecordsOK'
    BY <1>1 DEF RecordsOK
  <1>3. OthersKeep({p}) /\ Found(p)' = Found(p) /\ row'[p] = row[p]
    BY <1>1 DEF OthersKeep, Found, Online, RecordsOK
  <1> QED
    BY <1>2, <1>3, OneKeeps

LEMMA NothingCounts == Nothing \in Record
  BY DEF Nothing, Record

LEMMA LogoutRecords ==
  ASSUME RecordsOK, NEW p \in Players, Logout(p)
  PROVE  RecordsOK' /\ \A k \in Kinds : Shift(k, 0, 0)
  <1>1. /\ status' = [status EXCEPT ![p] = "offline"] /\ memory' = [memory EXCEPT ![p] = Nothing]
        /\ row' = [row EXCEPT ![p] = memory[p]] /\ status[p] = "online"
    BY DEF Logout, Become, Online
  <1>2. RecordsOK'
    BY <1>1, NothingCounts DEF RecordsOK
  <1>3. OthersKeep({p}) /\ Found(p)' = Found(p) /\ row'[p] = Found(p)
    BY <1>1 DEF OthersKeep, Found, Online, RecordsOK
  <1> QED
    BY <1>2, <1>3, OneKeeps

LEMMA DieRecords ==
  ASSUME RecordsOK, NEW p \in Players, Die(p)
  PROVE  RecordsOK' /\ \A k \in Kinds : Shift(k, 0, 0)
  <1>1. /\ status' = [status EXCEPT ![p] = "dead"] /\ memory' = [memory EXCEPT ![p] = memory[p]]
        /\ row' = [row EXCEPT ![p] = memory[p]] /\ status[p] = "online"
    BY DEF Die, Become, Online, SavedAs
  <1>2. /\ status' \in [Players -> {"online", "dead", "offline"}] /\ memory' = memory
        /\ row' \in [Players -> Record]
    BY <1>1 DEF RecordsOK
  <1>3. ASSUME NEW x \in Players, status'[x] = "dead", NEW k \in Kinds PROVE Val(k, memory'[x]) <= Val(k, row'[x])
    <2>1. CASE x = p
      <3>1. memory'[x] = row'[x] /\ row'[x] \in Record
        BY <1>1, <1>2, <2>1 DEF RecordsOK
      <3>2. Val(k, row'[x]) \in Nat
        BY <3>1, ValNat
      <3> QED
        BY <3>1, <3>2
    <2>2. CASE x # p
      BY <1>1, <1>2, <1>3, <2>2 DEF RecordsOK
    <2> QED
      BY <2>1, <2>2
  <1>4. RecordsOK'
    BY <1>1, <1>2, <1>3 DEF RecordsOK
  <1>5. OthersKeep({p}) /\ Found(p)' = Found(p) /\ row'[p] = Found(p)
    BY <1>1, <1>2 DEF OthersKeep, Found, Online, RecordsOK
  <1> QED
    BY <1>4, <1>5, OneKeeps

LEMMA ReleaseRecords ==
  ASSUME RecordsOK, NEW p \in Players, Release(p)
  PROVE  RecordsOK' /\ \A k \in Kinds : Shift(k, 0, 0)
  <1>1. /\ status' = [status EXCEPT ![p] = "offline"] /\ memory' = [memory EXCEPT ![p] = Nothing] /\ row' = row
        /\ status[p] = "dead"
    BY DEF Release, Become
  <1>2. RecordsOK'
    BY <1>1, NothingCounts DEF RecordsOK
  <1>3. OthersKeep({p}) /\ Found(p)' = Found(p) /\ row'[p] = row[p]
    BY <1>1 DEF OthersKeep, Found, Online, RecordsOK
  <1> QED
    BY <1>2, <1>3, OneKeeps

\* A dead player comes back with no more than its row has.
LEMMA RespawnRecords ==
  ASSUME RecordsOK, NEW p \in Players, Respawn(p)
  PROVE  /\ RecordsOK'
         /\ memory[p] = row[p] => \A k \in Kinds : Shift(k, 0, 0)
         /\ \A k \in Kinds : /\ SumFunction(Held(k)') <= SumFunction(Held(k))
                             /\ SumFunction(Most(k)') <= SumFunction(Most(k))
  <1>1. /\ status' = [status EXCEPT ![p] = "online"] /\ memory' = memory /\ row' = row
        /\ status[p] = "dead"
    BY DEF Respawn, Become
  <1>2. RecordsOK'
    BY <1>1 DEF RecordsOK
  <1>3. OthersKeep({p}) /\ Found(p)' = memory[p] /\ Found(p) = row[p] /\ row'[p] = row[p]
    BY <1>1 DEF OthersKeep, Found, Online, RecordsOK
  <1>4. memory[p] = row[p] => \A k \in Kinds : Shift(k, 0, 0)
    BY <1>2, <1>3, OneKeeps
  <1>5. ASSUME NEW k \in Kinds PROVE /\ SumFunction(Held(k)') <= SumFunction(Held(k))
                                     /\ SumFunction(Most(k)') <= SumFunction(Most(k))
    <2>1. /\ SumFunction(Held(k)') + Held(k)[p] = SumFunction(Held(k)) + Held(k)'[p]
          /\ SumFunction(Most(k)') + Most(k)[p] = SumFunction(Most(k)) + Most(k)'[p]
      BY <1>2, <1>3, OneMoves
    <2>2. Val(k, memory[p]) \in Nat /\ Val(k, row[p]) \in Nat /\ Val(k, memory[p]) <= Val(k, row[p])
      BY <1>1, ValNat DEF RecordsOK
    <2>3. /\ Held(k)[p] = Val(k, row[p]) /\ Held(k)'[p] = Val(k, memory[p])
          /\ Most(k)[p] = Larger(Val(k, row[p]), Val(k, row[p]))
          /\ Most(k)'[p] = Larger(Val(k, memory[p]), Val(k, row[p]))
      BY <1>3 DEF Held, Most
    <2>4. Most(k)[p] = Val(k, row[p]) /\ Most(k)'[p] = Val(k, row[p])
      BY <2>2, <2>3 DEF Larger
    <2>5. /\ SumFunction(Held(k)) \in Nat /\ SumFunction(Held(k)') \in Nat
          /\ SumFunction(Most(k)) \in Nat /\ SumFunction(Most(k)') \in Nat
      BY <1>2, HeldNat, HeldNatNext
    <2> QED
      BY <2>1, <2>2, <2>3, <2>4, <2>5
  <1> QED
    BY <1>2, <1>4, <1>5

\* A player's step that shifts nothing.
LEMMA ComesAndGoes ==
  ASSUME Shape, RecordsOK', \A k \in Kinds : Shift(k, 0, 0), GuildOK', GuildKept, RestSame,
         UNCHANGED <<offers, nextId, old, results, crashes, cloned, refused>>
  PROVE  Shape' /\ Lossless
  <1>1. OffersOK'
    BY OffersSame DEF Shape
  <1>2. \A k \in Kinds : Offered(k, offers) \in Nat
    BY OfferedNat DEF Shape
  <1>3. PICK z : \A k \in Kinds : z[k] = 0
    <2> DEFINE z == [k \in Kinds |-> 0]
    <2>1. \A k \in Kinds : z[k] = 0
      OBVIOUS
    <2> HIDE DEF z
    <2> QED
      BY <2>1
  <1>4. \A k \in Kinds : /\ z[k] \in Nat /\ z[k] \in Nat /\ z[k] \in Nat /\ z[k] \in Nat
                         /\ Shift(k, z[k], z[k])
                         /\ Offered(k, offers') + z[k] = Offered(k, offers) + z[k]
                         /\ z[k] + z[k] = z[k] + z[k]
    BY <1>2, <1>3
  <1>5. UNCHANGED <<nextId, crashes, cloned, refused>>
    OBVIOUS
  <1> QED
    BY <1>1, <1>4, <1>5, SettleKeeps

\* A dead player comes back without what it got meanwhile.
Returns(p) == status[p] = "dead" /\ Online(p)' /\ memory[p] # row[p] /\ \A k \in Kinds : Falls(k)

LEMMA PlayerKeeps ==
  ASSUME Shape, PlayerStep, RestSame
  PROVE  /\ Shape' /\ UNCHANGED <<crashes, cloned, refused>>
         /\ Lossless \/ \E p \in Players : Returns(p)
  <1>1. PICK p \in Players :
          \/ Login(p) /\ guild' = AddMember(Loads({p}), p)
          \/ Logout(p) /\ guild' = RemoveMember(guild, p)
          \/ Die(p) /\ SameGuild
          \/ Respawn(p) /\ guild' = AddMember(guild, p)
          \/ Release(p) /\ guild' = IF p \in guild.membersOnline
                                    THEN [guild EXCEPT !.membersOnline = (@ \ {p}) \union {Forgotten}]
                                    ELSE guild
    BY DEF PlayerStep
  <1>2. UNCHANGED <<offers, nextId, old, results, crashes, cloned, refused>> /\ scope' = scope
    BY <1>1 DEF Login, Logout, Die, Respawn, Release, RestSame
  <1>3. CASE Login(p) /\ guild' = AddMember(Loads({p}), p)
    <2>1. Become(p, "online") /\ RecordsOK /\ GuildOK
      BY <1>3 DEF Login, Shape
    <2>2. GuildOK' /\ GuildKept
      BY <1>2, <1>3, <2>1, LoginGuild
    <2>3. RecordsOK' /\ \A k \in Kinds : Shift(k, 0, 0)
      BY <1>3, <2>1, LoginRecords
    <2> QED
      BY <1>2, <2>2, <2>3, ComesAndGoes
  <1>4. CASE Logout(p) /\ guild' = RemoveMember(guild, p)
    <2>1. Become(p, "offline") /\ RecordsOK /\ GuildOK
      BY <1>4 DEF Logout, Shape
    <2>2. GuildOK' /\ GuildKept
      BY <1>2, <1>4, <2>1, LogoutGuild
    <2>3. RecordsOK' /\ \A k \in Kinds : Shift(k, 0, 0)
      BY <1>4, <2>1, LogoutRecords
    <2> QED
      BY <1>2, <2>2, <2>3, ComesAndGoes
  <1>5. CASE Die(p) /\ SameGuild
    <2>1. \A x \in Players : status[x] = "offline" => status'[x] = "offline"
      BY <1>5 DEF Die, Become, Online, Shape, RecordsOK
    <2>2. GuildOK' /\ GuildKept
      BY <1>2, <1>5, <2>1, GuildSame DEF Shape
    <2>3. RecordsOK' /\ \A k \in Kinds : Shift(k, 0, 0)
      BY <1>5, DieRecords DEF Shape
    <2> QED
      BY <1>2, <2>2, <2>3, ComesAndGoes
  <1>6. CASE Respawn(p) /\ guild' = AddMember(guild, p)
    <2>1. Become(p, "online") /\ RecordsOK /\ GuildOK /\ status[p] = "dead"
      BY <1>6 DEF Respawn, Shape
    <2>2. GuildOK' /\ GuildKept
      BY <1>2, <1>6, <2>1, RespawnGuild
    <2>3. /\ RecordsOK'
          /\ memory[p] = row[p] => \A k \in Kinds : Shift(k, 0, 0)
          /\ \A k \in Kinds : /\ SumFunction(Held(k)') <= SumFunction(Held(k))
                              /\ SumFunction(Most(k)') <= SumFunction(Most(k))
      BY <1>6, <2>1, RespawnRecords
    <2>4. CASE memory[p] = row[p]
      BY <1>2, <2>2, <2>3, <2>4, ComesAndGoes
    <2>5. CASE memory[p] # row[p]
      <3>1. OffersOK' /\ HouseOK' /\ CountsOK' /\ UNCHANGED <<offers, house>>
        BY <1>2, OffersSame, RestKeeps DEF Shape, RestSame
      <3>2. \A k \in Kinds : Falls(k)
        BY <2>2, <2>3, <3>1, FallStep
      <3>3. Online(p)'
        BY <2>1 DEF Become, Online, RecordsOK
      <3> QED
        BY <1>2, <2>1, <2>2, <2>3, <2>5, <3>1, <3>2, <3>3 DEF Shape, Returns
    <2> QED
      BY <2>4, <2>5
  <1>7. CASE Release(p) /\ guild' = IF p \in guild.membersOnline
                                    THEN [guild EXCEPT !.membersOnline = (@ \ {p}) \union {Forgotten}]
                                    ELSE guild
    <2>1. Become(p, "offline") /\ RecordsOK /\ GuildOK
      BY <1>7 DEF Release, Shape
    <2>2. GuildOK' /\ GuildKept
      BY <1>2, <1>7, <2>1, ReleaseGuild
    <2>3. RecordsOK' /\ \A k \in Kinds : Shift(k, 0, 0)
      BY <1>7, <2>1, ReleaseRecords
    <2> QED
      BY <1>2, <2>2, <2>3, ComesAndGoes
  <1> QED
    BY <1>1, <1>3, <1>4, <1>5, <1>6, <1>7

-----------------------------------------------------------------------------
(* Saves and crashes of the server.                                        *)

\* All have what they had, and all of it is saved.
LEMMA SaveAllKeeps ==
  ASSUME Shape, SaveAll
  PROVE  /\ Shape' /\ UNCHANGED <<crashes, cloned, refused, unmade, nextId>>
         /\ \A k \in Kinds : Total(k)' = Total(k) /\ Top(k)' = Total(k) /\ unsaved'[k] = 0
  <1>1. /\ row' = [p \in Players |-> Found(p)]
        /\ guild' = [guild EXCEPT !.row = GuildBalance]
        /\ house' = [house EXCEPT !.row = house.items]
        /\ unsaved' = [money |-> 0, items |-> 0]
        /\ UNCHANGED <<status, memory, offers, nextId, old, results, crashes, cloned, refused, scope, unmade>>
    BY DEF SaveAll
  <1>2. RecordsOK'
    <2>1. row' \in [Players -> Record]
      BY <1>1 DEF Shape, RecordsOK, Found
    <2>2. \A p \in Players : status[p] = "dead" => row'[p] = row[p]
      BY <1>1 DEF Found, Online
    <2> QED
      BY <1>1, <2>1, <2>2 DEF Shape, RecordsOK
  <1>3. OffersOK'
    BY <1>1, OffersSame DEF Shape
  <1>4. GuildBalance \in Nat
    BY DEF Shape, GuildOK, GuildBalance
  <1>5. GuildOK' /\ GuildBalance' = GuildBalance /\ guild'.row = GuildBalance
    <2>1. PICK b \in Nat : b = GuildBalance /\ b = IF guild.inGame THEN guild.balance ELSE guild.row
      BY <1>4 DEF GuildBalance
    <2>2. /\ guild' \in [inGame : BOOLEAN, membersOnline : SUBSET (GuildMembers \union {Forgotten}),
                         balance : Nat, row : Nat]
          /\ guild'.inGame = guild.inGame /\ guild'.balance = guild.balance /\ guild'.row = b
          /\ guild'.membersOnline = guild.membersOnline
      BY <1>1, <2>1 DEF Shape, GuildOK
    <2> QED
      BY <1>1, <2>1, <2>2 DEF Shape, GuildOK, GuildBalance, Members
  <1>6. HouseOK' /\ house'.items = house.items /\ house'.row = house.items
    BY <1>1 DEF Shape, HouseOK
  <1>7. CountsOK'
    BY <1>1, BankAssumption DEF Shape, CountsOK
  <1>8. Shape'
    BY <1>2, <1>3, <1>5, <1>6, <1>7 DEF Shape
  <1>9. ASSUME NEW k \in Kinds PROVE Total(k)' = Total(k) /\ Top(k)' = Total(k) /\ unsaved'[k] = 0
    <2>1. Held(k)' = Held(k)
      BY <1>1 DEF Held, Found, Online
    <2>2. Most(k)' = Held(k)
      <3>1. ASSUME NEW p \in Players PROVE Most(k)'[p] = Held(k)[p]
        <4>1. Found(p)' = Found(p) /\ row'[p] = Found(p)
          BY <1>1 DEF Found, Online
        <4> QED
          BY <4>1 DEF Most, Held, Larger
      <3> QED
        BY <3>1 DEF Most, Held
    <2>3. Vault(k)' = Vault(k) /\ Saved(k)' = Vault(k)
      BY <1>5, <1>6 DEF Vault, Saved, Units
    <2>4. Offered(k, offers') = Offered(k, offers)
      BY <1>1
    <2>5. unsaved'[k] = 0
      BY <1>1 DEF Kinds
    <2> QED
      BY <2>1, <2>2, <2>3, <2>4, <2>5 DEF Total, Top, Larger
  <1> QED
    BY <1>1, <1>8, <1>9

\* What there is after a restart was there before, or in the database.
LEMMA CrashKeeps ==
  ASSUME Shape, CrashAll
  PROVE  /\ Shape' /\ UNCHANGED <<cloned, nextId>> /\ crashes' # crashes
         /\ \A k \in Kinds : /\ Total(k)' <= Top(k) /\ Top(k)' <= Top(k)
                             /\ unsaved'[k] = 0 /\ unmade'[k] = unmade[k] + unsaved[k]
  <1>1. /\ crashes < MaxCrashes /\ crashes' = crashes + 1
        /\ status' = [p \in Players |-> "offline"] /\ memory' = [p \in Players |-> Nothing]
        /\ results' = <<>> /\ UNCHANGED <<row, offers, nextId, old, cloned, refused>>
        /\ guild' = Unknown(guild.row)
        /\ house' = [house EXCEPT !.items = house.row]
        /\ unmade' = [money |-> unmade.money + unsaved.money, items |-> unmade.items + unsaved.items]
        /\ unsaved' = [money |-> 0, items |-> 0]
        /\ UNCHANGED scope
    BY DEF CrashAll, Crash
  <1>2. RecordsOK'
    BY <1>1, NothingCounts DEF Shape, RecordsOK
  <1>3. OffersOK'
    <2>1. results' \in Seq(SUBSET OfferType) /\ Len(results') = 0
      BY <1>1
    <2>2. MaxChecks \in Nat
      BY MarketAssumption
    <2> QED
      BY <1>1, <2>1, <2>2 DEF Shape, OffersOK, Table
  <1>4. /\ GuildOK' /\ GuildBalance' = guild.row /\ guild'.row = guild.row
    BY <1>1 DEF Shape, GuildOK, GuildBalance, Unknown
  <1>5. HouseOK' /\ house'.items = house.row /\ house'.row = house.row
    BY <1>1 DEF Shape, HouseOK
  <1>6. CountsOK' /\ crashes' # crashes
    <2>1. unsaved.money \in Nat /\ unsaved.items \in Nat /\ unmade.money \in Nat /\ unmade.items \in Nat
      BY BankAssumption DEF Shape, CountsOK
    <2>2. unmade' \in [money : Nat, items : Nat]
      BY <1>1, <2>1
    <2>3. unsaved' \in [money : Nat, items : Nat]
      BY <1>1, BankAssumption
    <2>4. crashes' \in 0 .. MaxCrashes /\ crashes' # crashes
      BY <1>1, MarketAssumption DEF Shape, CountsOK
    <2> QED
      BY <1>1, <2>2, <2>3, <2>4 DEF Shape, CountsOK
  <1>7. Shape'
    BY <1>2, <1>3, <1>4, <1>5, <1>6 DEF Shape
  <1>8. ASSUME NEW k \in Kinds
        PROVE  /\ Total(k)' <= Top(k) /\ Top(k)' <= Top(k)
               /\ unsaved'[k] = 0 /\ unmade'[k] = unmade[k] + unsaved[k]
    <2>1. /\ Most(k)' = Held(k)'
          /\ \A p \in Players : Held(k)'[p] <= Most(k)[p]
      <3>1. ASSUME NEW p \in Players PROVE Most(k)'[p] = Held(k)'[p] /\ Held(k)'[p] <= Most(k)[p]
        <4>1. Found(p)' = row[p] /\ row'[p] = row[p]
          BY <1>1 DEF Found, Online
        <4>2. Val(k, row[p]) \in Nat /\ Val(k, Found(p)) \in Nat
          BY ValNat DEF Shape, RecordsOK, Found
        <4>3. /\ Held(k)'[p] = Val(k, row[p]) /\ Most(k)'[p] = Larger(Val(k, row[p]), Val(k, row[p]))
              /\ Most(k)[p] = Larger(Val(k, Found(p)), Val(k, row[p]))
          BY <4>1 DEF Held, Most
        <4> QED
          BY <4>2, <4>3 DEF Larger
      <3> QED
        BY <3>1 DEF Most, Held
    <2>2. Held(k)' \in [Players -> Nat] /\ Most(k) \in [Players -> Nat]
      BY <1>2, HeldNat, HeldNatNext DEF Shape
    <2>3. SumFunction(Held(k)') <= SumFunction(Most(k))
      BY <2>1, <2>2, MarketAssumption, SumMono
    <2>4. PICK h \in Nat, m \in Nat : h = SumFunction(Held(k)') /\ m = SumFunction(Most(k))
      BY <1>2, HeldNat, HeldNatNext DEF Shape
    <2>5. PICK o \in Nat : o = Offered(k, offers) /\ o = Offered(k, offers')
      BY <1>1, OfferedNat DEF Shape
    <2>6. PICK v \in Nat, w \in Nat : v = Vault(k) /\ w = Saved(k)
      BY VaultNat DEF Shape
    <2>7. Vault(k)' = w /\ Saved(k)' = w
      BY <1>4, <1>5, <2>6 DEF Vault, Saved, Units
    <2>8. Total(k)' = h + o + w /\ Top(k)' = h + o + Larger(w, w) /\ Top(k) = m + o + Larger(v, w)
      BY <2>1, <2>4, <2>5, <2>6, <2>7 DEF Total, Top
    <2>9. Total(k)' <= Top(k) /\ Top(k)' <= Top(k)
      BY <2>3, <2>4, <2>8 DEF Larger
    <2>10. unsaved'[k] = 0 /\ unmade'[k] = unmade[k] + unsaved[k]
      BY <1>1 DEF Kinds
    <2> QED
      BY <2>9, <2>10
  <1> QED
    BY <1>1, <1>6, <1>7, <1>8

-----------------------------------------------------------------------------
(* Transfers.                                                              *)

LEMMA MovesCounts ==
  ASSUME Shape, NEW n \in Nat, Moves(n), scope' = scope
  PROVE  /\ HouseOK' /\ CountsOK' /\ OffersOK' /\ UNCHANGED <<status, offers, house, crashes, cloned, refused, unmade, nextId>>
         /\ unsaved'["money"] = unsaved["money"] + n /\ unsaved'["items"] = unsaved["items"]
  <1>1. /\ unsaved.money + n <= MaxUnsaved /\ unsaved' = [unsaved EXCEPT !.money = unsaved.money + n]
        /\ UNCHANGED <<status, offers, nextId, old, results, crashes, cloned, refused, house, unmade>>
    BY DEF Moves
  <1>2. /\ unsaved'.money = unsaved.money + n /\ unsaved'.items = unsaved.items
        /\ unsaved' \in [money : Nat, items : Nat]
    BY <1>1, BankAssumption DEF Shape, CountsOK
  <1>3. HouseOK' /\ CountsOK' /\ OffersOK'
    BY <1>1, <1>2, OffersSame DEF Shape, HouseOK, CountsOK
  <1> QED
    BY <1>1, <1>2, <1>3

\* A step where only a row changes of those that are not online, and for more.
Touches ==
  /\ status' = status
  /\ memory' \in [Players -> Record] /\ row' \in [Players -> Record]
  /\ \A x \in Players : ~Online(x) => /\ memory'[x] = memory[x]
                                      /\ \A k \in Kinds : Val(k, row[x]) <= Val(k, row'[x])

LEMMA TouchesKeeps ==
  ASSUME RecordsOK, Touches PROVE RecordsOK'
  <1>1. ASSUME NEW x \in Players, status'[x] = "offline" PROVE memory'[x] = Nothing
    BY <1>1 DEF RecordsOK, Touches, Online
  <1>2. ASSUME NEW x \in Players, status'[x] = "dead", NEW k \in Kinds PROVE Val(k, memory'[x]) <= Val(k, row'[x])
    <2>1. /\ ~Online(x) /\ memory'[x] = memory[x] /\ Val(k, memory[x]) <= Val(k, row[x])
          /\ Val(k, row[x]) <= Val(k, row'[x])
      BY <1>2 DEF RecordsOK, Touches, Online
    <2>2. Val(k, memory[x]) \in Nat /\ Val(k, row[x]) \in Nat /\ Val(k, row'[x]) \in Nat
      BY ValNat DEF RecordsOK, Touches
    <2> QED
      BY <2>1, <2>2
  <1> QED
    BY <1>1, <1>2 DEF RecordsOK, Touches

LEMMA MostGains ==
  ASSUME RecordsOK, RecordsOK', NEW x \in Players, row'[x] \in {row[x], Found(x)'}, NEW k \in Kinds, NEW n \in Nat,
         Val(k, Found(x)') <= Val(k, Found(x)) + n
  PROVE  Most(k)'[x] <= Most(k)[x] + n
  <1>1. Val(k, Found(x)) \in Nat /\ Val(k, row[x]) \in Nat
    BY ValNat DEF RecordsOK, Found
  <1>2. Val(k, Found(x)') \in Nat /\ Val(k, row'[x]) \in Nat
    BY ValNat DEF RecordsOK, Found, Online
  <1>3. /\ Most(k)[x] = Larger(Val(k, Found(x)), Val(k, row[x]))
        /\ Most(k)'[x] = Larger(Val(k, Found(x)'), Val(k, row'[x]))
    BY DEF Most
  <1>4. row'[x] = row[x] \/ Val(k, row'[x]) = Val(k, Found(x)')
    OBVIOUS
  <1> QED
    BY <1>1, <1>2, <1>3, <1>4 DEF Larger

\* The totals, when the players have a less and b more, and the vault c less and d more.
LEMMA Transferred ==
  ASSUME Shape, Shape', offers' = offers, NEW k \in Kinds,
         NEW a \in Nat, NEW b \in Nat, NEW c \in Nat, NEW d \in Nat, NEW e \in Nat, NEW f \in Nat,
         SumFunction(Held(k)') + a = SumFunction(Held(k)) + b, SumFunction(Most(k)') <= SumFunction(Most(k)) + e,
         Vault(k)' + c = Vault(k) + d, Larger(Vault(k), Saved(k))' <= Larger(Vault(k), Saved(k)) + f
  PROVE  Total(k)' + a + c = Total(k) + b + d /\ Top(k)' <= Top(k) + e + f
  <1>1. PICK h \in Nat, m \in Nat, h1 \in Nat, m1 \in Nat :
          h = SumFunction(Held(k)) /\ m = SumFunction(Most(k)) /\ h1 = SumFunction(Held(k)') /\ m1 = SumFunction(Most(k)')
    BY HeldNat, HeldNatNext DEF Shape
  <1>2. PICK o \in Nat : o = Offered(k, offers) /\ o = Offered(k, offers')
    BY OfferedNat DEF Shape
  <1>3. PICK v \in Nat, w \in Nat : v = Vault(k) /\ w = Larger(Vault(k), Saved(k))
    BY VaultNat DEF Shape, Larger
  <1>4. PICK v1 \in Nat, w1 \in Nat : v1 = Vault(k)' /\ w1 = Larger(Vault(k), Saved(k))'
    BY VaultNatNext DEF Shape, Larger
  <1>5. /\ Total(k) = h + o + v /\ Total(k)' = h1 + o + v1
        /\ Top(k) = m + o + w /\ Top(k)' = m1 + o + w1
    BY <1>1, <1>2, <1>3, <1>4 DEF Total, Top
  <1>6. h1 + a = h + b /\ m1 <= m + e /\ v1 + c = v + d /\ w1 <= w + f
    BY <1>1, <1>3, <1>4
  <1> QED
    BY <1>5, <1>6

LEMMA TransferKeeps ==
  ASSUME Shape, NEW p \in Players, NEW q \in Players, NEW n \in Nat, Transfer(p, q, n), UNCHANGED scope
  PROVE  /\ Shape' /\ Moves(n)
         /\ \A k \in Kinds : Total(k)' = Total(k) /\ Top(k)' <= Top(k) + Units(k, 0, n)
  <1>1. Online(p) /\ p # q /\ n <= memory[p].money /\ Moves(n)
    BY DEF Transfer
  <1>2. /\ HouseOK' /\ CountsOK' /\ OffersOK' /\ UNCHANGED <<status, offers, house>>
    BY <1>1, MovesCounts
  <1>3. PICK m \in Record, f \in Record : m = memory[p] /\ f = Found(q)
    BY DEF Shape, RecordsOK, Found
  <1>4. PICK r \in Record : r = Pays(m, n) /\ r.money = m.money - n /\ ItemsOf(r) = ItemsOf(m)
    BY <1>1, <1>3, PaysGives
  <1>5. PICK s \in Record : s = Earns(f, n) /\ s.money = f.money + n /\ ItemsOf(s) = ItemsOf(f)
    BY EarnsGets
  <1>6. /\ memory' \in [Players -> Record] /\ row' \in [Players -> Record]
        /\ memory'[p] = r /\ row'[p] = row[p]
        /\ Found(p) = m /\ Found(p)' = r /\ Found(q)' = s
        /\ ~Online(q) => memory'[q] = memory[q] /\ row'[q] = s /\ f = row[q]
        /\ Online(q) => row'[q] = row[q]
        /\ OthersKeep({p, q})
    <2>1. CASE Online(q)
      <3>1. memory' = [memory EXCEPT ![p] = r, ![q] = s] /\ row' = row
        BY <1>3, <1>4, <1>5, <2>1 DEF Transfer, Found
      <3> QED
        BY <1>1, <1>2, <1>3, <2>1, <3>1 DEF OthersKeep, Found, Online, Shape, RecordsOK
    <2>2. CASE ~Online(q)
      <3>1. memory' = [memory EXCEPT ![p] = r] /\ row' = [row EXCEPT ![q] = s]
        BY <1>3, <1>4, <1>5, <2>2 DEF Transfer, Found
      <3> QED
        BY <1>1, <1>2, <1>3, <2>2, <3>1 DEF OthersKeep, Found, Online, Shape, RecordsOK
    <2> QED
      BY <2>1, <2>2
  <1>7. ItemsOf(m) \in Nat /\ m.money \in Nat /\ ItemsOf(f) \in Nat /\ f.money \in Nat
    BY DEF Record, ItemsOf
  <1>8. ASSUME NEW k \in Kinds
        PROVE  /\ Val(k, r) + Units(k, 0, n) = Val(k, m) /\ Val(k, s) = Val(k, f) + Units(k, 0, n)
               /\ Val(k, m) \in Nat /\ Val(k, r) \in Nat /\ Val(k, f) \in Nat /\ Val(k, s) \in Nat
               /\ Units(k, 0, n) \in Nat
    BY <1>1, <1>3, <1>4, <1>5, <1>7 DEF Kinds, Val, Units
  <1>9. RecordsOK'
    <2>1. ASSUME NEW x \in Players, ~Online(x)
          PROVE  memory'[x] = memory[x] /\ \A k \in Kinds : Val(k, row[x]) <= Val(k, row'[x])
      <3>1. CASE x = q
        BY <1>6, <1>8, <2>1, <3>1
      <3>2. CASE x # q
        <4>1. memory'[x] = memory[x] /\ row'[x] = row[x] /\ row[x] \in Record
          BY <1>1, <1>6, <2>1, <3>2 DEF OthersKeep, Shape, RecordsOK
        <4>2. \A k \in Kinds : Val(k, row[x]) \in Nat
          BY <4>1, ValNat
        <4> QED
          BY <4>1, <4>2
      <3> QED
        BY <3>1, <3>2
    <2>2. Touches
      BY <1>2, <1>6, <2>1 DEF Touches
    <2> QED
      BY <2>2, TouchesKeeps DEF Shape
  <1>10. GuildOK' /\ GuildKept
    <2>1. CASE Online(q)
      <3>1. SameGuild
        BY <2>1 DEF Transfer, SameGuild
      <3> QED
        BY <1>2, <3>1, GuildSame DEF Shape
    <2>2. CASE ~Online(q)
      <3>1. guild' = Loads({q})
        BY <2>2 DEF Transfer
      <3> QED
        BY <1>2, <3>1, LoadsKeeps DEF Shape
    <2> QED
      BY <2>1, <2>2
  <1>11. Shape'
    BY <1>2, <1>9, <1>10 DEF Shape
  <1>12. ASSUME NEW k \in Kinds PROVE Total(k)' = Total(k) /\ Top(k)' <= Top(k) + Units(k, 0, n)
    <2>1. PICK g \in Nat, z \in Nat : g = Units(k, 0, n) /\ z = 0
      BY <1>8
    <2>2. /\ SumFunction(Held(k)') + Held(k)[p] + Held(k)[q] = SumFunction(Held(k)) + Held(k)'[p] + Held(k)'[q]
          /\ SumFunction(Most(k)') + Most(k)[p] + Most(k)[q] = SumFunction(Most(k)) + Most(k)'[p] + Most(k)'[q]
      BY <1>1, <1>6, <1>9, TwoMove DEF Shape
    <2>3. /\ Held(k)[p] = Val(k, m) /\ Held(k)'[p] = Val(k, r)
          /\ Held(k)[q] = Val(k, f) /\ Held(k)'[q] = Val(k, s)
      BY <1>3, <1>6 DEF Held
    <2>4. Most(k)'[p] <= Most(k)[p] + z
      <3>1. Val(k, Found(p)') <= Val(k, Found(p)) + z
        BY <1>6, <1>8, <2>1
      <3>2. row'[p] \in {row[p], Found(p)'}
        BY <1>6
      <3> QED
        BY <1>9, <3>1, <3>2, MostGains DEF Shape
    <2>5. Most(k)'[q] <= Most(k)[q] + g
      <3>1. Val(k, Found(q)') <= Val(k, Found(q)) + g
        BY <1>3, <1>6, <1>8, <2>1
      <3>2. row'[q] \in {row[q], Found(q)'}
        BY <1>6
      <3> QED
        BY <1>9, <3>1, <3>2, MostGains DEF Shape
    <2>6. /\ Held(k) \in [Players -> Nat] /\ Most(k) \in [Players -> Nat]
          /\ SumFunction(Held(k)) \in Nat /\ SumFunction(Most(k)) \in Nat
      BY HeldNat DEF Shape
    <2>7. /\ Held(k)' \in [Players -> Nat] /\ Most(k)' \in [Players -> Nat]
          /\ SumFunction(Held(k)') \in Nat /\ SumFunction(Most(k)') \in Nat
      BY <1>9, HeldNatNext
    <2>8. SumFunction(Held(k)') + z = SumFunction(Held(k)) + z
      <3>1. PICK h \in Nat, h1 \in Nat : h = SumFunction(Held(k)) /\ h1 = SumFunction(Held(k)')
        BY <2>6, <2>7
      <3>2. PICK vm \in Nat, vr \in Nat, vf \in Nat, vs \in Nat :
              vm = Val(k, m) /\ vr = Val(k, r) /\ vf = Val(k, f) /\ vs = Val(k, s)
        BY <1>8
      <3>3. vr + g = vm /\ vs = vf + g
        BY <1>8, <2>1, <3>2
      <3>4. h1 + vm + vf = h + vr + vs
        BY <2>2, <2>3, <3>1, <3>2
      <3>5. h1 = h
        BY <3>3, <3>4
      <3> QED
        BY <3>1, <3>5
    <2>9. SumFunction(Most(k)') <= SumFunction(Most(k)) + g
      <3>1. /\ Most(k)[p] \in Nat /\ Most(k)[q] \in Nat /\ Most(k)'[p] \in Nat /\ Most(k)'[q] \in Nat
        BY <2>6, <2>7
      <3> QED
        BY <2>1, <2>2, <2>4, <2>5, <2>6, <2>7, <3>1
    <2>10. /\ Vault(k)' + z = Vault(k) + z
           /\ Larger(Vault(k), Saved(k))' <= Larger(Vault(k), Saved(k)) + z
      BY <1>2, <1>10, <2>1, VaultKept DEF Shape
    <2>11. Total(k)' + z + z = Total(k) + z + z /\ Top(k)' <= Top(k) + g + z
      BY <1>2, <1>11, <2>8, <2>9, <2>10, Transferred
    <2>12. Total(k) \in Nat /\ Total(k)' \in Nat /\ Top(k) \in Nat
      BY <1>11, TotalNat, TotalNatNext
    <2> QED
      BY <2>1, <2>11, <2>12
  <1> QED
    BY <1>1, <1>11, <1>12

\* A player pays; the save of another time is not changed.
LEMMA PaidRecords ==
  ASSUME RecordsOK, NEW p \in Players, Online(p), NEW n \in Nat, n <= memory[p].money,
         memory' = [memory EXCEPT ![p] = Pays(@, n)], UNCHANGED <<row, status>>
  PROVE  /\ RecordsOK'
         /\ \A k \in Kinds : /\ SumFunction(Held(k)') + Units(k, 0, n) = SumFunction(Held(k))
                             /\ SumFunction(Most(k)') <= SumFunction(Most(k))
  <1>1. PICK m \in Record : m = memory[p]
    BY DEF RecordsOK
  <1>2. PICK r \in Record : r = Pays(m, n) /\ r.money = m.money - n /\ ItemsOf(r) = ItemsOf(m)
    BY <1>1, PaysGives
  <1>3. /\ memory' \in [Players -> Record] /\ row' \in [Players -> Record]
        /\ Found(p) = m /\ Found(p)' = r /\ row'[p] = row[p]
        /\ OthersKeep({p})
    BY <1>1, <1>2 DEF RecordsOK, OthersKeep, Found, Online
  <1>4. RecordsOK'
    <2>1. ASSUME NEW x \in Players, ~Online(x)
          PROVE  memory'[x] = memory[x] /\ \A k \in Kinds : Val(k, row[x]) <= Val(k, row'[x])
      <3>1. memory'[x] = memory[x] /\ row'[x] = row[x] /\ row[x] \in Record
        BY <1>3, <2>1 DEF OthersKeep, RecordsOK
      <3>2. \A k \in Kinds : Val(k, row[x]) \in Nat
        BY <3>1, ValNat
      <3> QED
        BY <3>1, <3>2
    <2>2. Touches
      BY <1>3, <2>1 DEF Touches
    <2> QED
      BY <2>2, TouchesKeeps
  <1>5. ASSUME NEW k \in Kinds
        PROVE  /\ SumFunction(Held(k)') + Units(k, 0, n) = SumFunction(Held(k))
               /\ SumFunction(Most(k)') <= SumFunction(Most(k))
    <2>1. PICK g \in Nat, vm \in Nat, vr \in Nat, z \in Nat :
            g = Units(k, 0, n) /\ vm = Val(k, m) /\ vr = Val(k, r) /\ z = 0
      BY ValNat DEF Units
    <2>2. vr + g = vm
      <3>1. ItemsOf(m) \in Nat /\ m.money \in Nat
        BY DEF Record, ItemsOf
      <3> QED
        BY <1>1, <1>2, <2>1, <3>1 DEF Kinds, Val, Units
    <2>3. Held(k)[p] = vm /\ Held(k)'[p] = vr
      BY <1>3, <2>1 DEF Held
    <2>4. /\ SumFunction(Held(k)') + Held(k)[p] = SumFunction(Held(k)) + Held(k)'[p]
          /\ SumFunction(Most(k)') + Most(k)[p] = SumFunction(Most(k)) + Most(k)'[p]
      BY <1>3, <1>4, OneMoves
    <2>5. Most(k)'[p] <= Most(k)[p] + z
      <3>1. Val(k, Found(p)') <= Val(k, Found(p)) + z
        BY <1>3, <2>1, <2>2
      <3>2. row'[p] \in {row[p], Found(p)'}
        BY <1>3
      <3> QED
        BY <1>4, <3>1, <3>2, MostGains
    <2>6. PICK h \in Nat, h1 \in Nat, t \in Nat, t1 \in Nat, mp \in Nat, mp1 \in Nat :
            /\ h = SumFunction(Held(k)) /\ h1 = SumFunction(Held(k)')
            /\ t = SumFunction(Most(k)) /\ t1 = SumFunction(Most(k)')
            /\ mp = Most(k)[p] /\ mp1 = Most(k)'[p]
      <3>1. SumFunction(Held(k)) \in Nat /\ SumFunction(Most(k)) \in Nat /\ Most(k)[p] \in Nat
        BY HeldNat
      <3>2. SumFunction(Held(k)') \in Nat /\ SumFunction(Most(k)') \in Nat /\ Most(k)'[p] \in Nat
        BY <1>4, HeldNatNext
      <3> QED
        BY <3>1, <3>2
    <2>7. h1 + vm = h + vr /\ t1 + mp = t + mp1 /\ mp1 <= mp + z
      BY <2>3, <2>4, <2>5, <2>6
    <2>8. h1 + g = h /\ t1 <= t
      BY <2>1, <2>2, <2>7
    <2> QED
      BY <2>1, <2>6, <2>8
  <1> QED
    BY <1>4, <1>5

\* A player gets money, in the game or in the database.
LEMMA CreditedRecords ==
  ASSUME RecordsOK, NEW p \in Players, NEW n \in Nat, Credited(p, n), UNCHANGED status
  PROVE  /\ RecordsOK'
         /\ \A k \in Kinds : /\ SumFunction(Held(k)') = SumFunction(Held(k)) + Units(k, 0, n)
                             /\ SumFunction(Most(k)') <= SumFunction(Most(k)) + Units(k, 0, n)
  <1>1. PICK m \in Record : m = Found(p)
    BY DEF RecordsOK, Found
  <1>2. PICK r \in Record : r = Earns(m, n) /\ r.money = m.money + n /\ ItemsOf(r) = ItemsOf(m)
    BY <1>1, EarnsGets
  <1>3. /\ memory' \in [Players -> Record] /\ row' \in [Players -> Record]
        /\ Found(p)' = r /\ row'[p] \in {row[p], r}
        /\ ~Online(p) => memory'[p] = memory[p] /\ row'[p] = r /\ m = row[p]
        /\ OthersKeep({p})
    <2>1. CASE Online(p)
      <3>1. memory' = [memory EXCEPT ![p] = r] /\ row' = row
        BY <1>1, <1>2, <2>1 DEF Credited, Found
      <3> QED
        BY <1>1, <1>2, <2>1, <3>1 DEF RecordsOK, OthersKeep, Found, Online
    <2>2. CASE ~Online(p)
      <3>1. row' = [row EXCEPT ![p] = r] /\ memory' = memory
        BY <1>1, <1>2, <2>2 DEF Credited, Found
      <3> QED
        BY <1>1, <1>2, <2>2, <3>1 DEF RecordsOK, OthersKeep, Found, Online
    <2> QED
      BY <2>1, <2>2
  <1>4. ASSUME NEW k \in Kinds
        PROVE  /\ Val(k, r) = Val(k, m) + Units(k, 0, n)
               /\ Val(k, r) \in Nat /\ Val(k, m) \in Nat /\ Units(k, 0, n) \in Nat
    <2>1. ItemsOf(m) \in Nat /\ m.money \in Nat
      BY DEF Record, ItemsOf
    <2> QED
      BY <1>2, <2>1 DEF Kinds, Val, Units
  <1>5. RecordsOK'
    <2>1. ASSUME NEW x \in Players, ~Online(x)
          PROVE  memory'[x] = memory[x] /\ \A k \in Kinds : Val(k, row[x]) <= Val(k, row'[x])
      <3>1. CASE x = p
        BY <1>3, <1>4, <2>1, <3>1
      <3>2. CASE x # p
        <4>1. memory'[x] = memory[x] /\ row'[x] = row[x] /\ row[x] \in Record
          BY <1>3, <3>2 DEF OthersKeep, RecordsOK
        <4>2. \A k \in Kinds : Val(k, row[x]) \in Nat
          BY <4>1, ValNat
        <4> QED
          BY <4>1, <4>2
      <3> QED
        BY <3>1, <3>2
    <2>2. Touches
      BY <1>3, <2>1 DEF Touches
    <2> QED
      BY <2>2, TouchesKeeps
  <1>6. ASSUME NEW k \in Kinds
        PROVE  /\ SumFunction(Held(k)') = SumFunction(Held(k)) + Units(k, 0, n)
               /\ SumFunction(Most(k)') <= SumFunction(Most(k)) + Units(k, 0, n)
    <2>1. PICK g \in Nat, vm \in Nat, vr \in Nat : g = Units(k, 0, n) /\ vm = Val(k, m) /\ vr = Val(k, r)
      BY <1>4
    <2>2. vr = vm + g
      BY <1>4, <2>1
    <2>3. Held(k)[p] = vm /\ Held(k)'[p] = vr
      BY <1>1, <1>3, <2>1 DEF Held
    <2>4. /\ SumFunction(Held(k)') + Held(k)[p] = SumFunction(Held(k)) + Held(k)'[p]
          /\ SumFunction(Most(k)') + Most(k)[p] = SumFunction(Most(k)) + Most(k)'[p]
      BY <1>3, <1>5, OneMoves
    <2>5. Most(k)'[p] <= Most(k)[p] + g
      <3>1. Val(k, Found(p)') <= Val(k, Found(p)) + g
        BY <1>1, <1>3, <2>1, <2>2
      <3>2. row'[p] \in {row[p], Found(p)'}
        BY <1>3
      <3> QED
        BY <1>5, <3>1, <3>2, MostGains
    <2>6. PICK h \in Nat, h1 \in Nat, t \in Nat, t1 \in Nat, mp \in Nat, mp1 \in Nat :
            /\ h = SumFunction(Held(k)) /\ h1 = SumFunction(Held(k)')
            /\ t = SumFunction(Most(k)) /\ t1 = SumFunction(Most(k)')
            /\ mp = Most(k)[p] /\ mp1 = Most(k)'[p]
      <3>1. SumFunction(Held(k)) \in Nat /\ SumFunction(Most(k)) \in Nat /\ Most(k)[p] \in Nat
        BY HeldNat
      <3>2. SumFunction(Held(k)') \in Nat /\ SumFunction(Most(k)') \in Nat /\ Most(k)'[p] \in Nat
        BY <1>5, HeldNatNext
      <3> QED
        BY <3>1, <3>2
    <2>7. h1 + vm = h + vr /\ t1 + mp = t + mp1 /\ mp1 <= mp + g
      BY <2>3, <2>4, <2>5, <2>6
    <2>8. h1 = h + g /\ t1 <= t + g
      BY <2>2, <2>7
    <2> QED
      BY <2>1, <2>6, <2>8
  <1> QED
    BY <1>5, <1>6

\* The treasury has a less and b more, and its row is what it was.
LEMMA TreasuryMoves ==
  ASSUME GuildOK, GuildOK', HouseOK, house' = house, guild'.row = guild.row,
         NEW a \in Nat, NEW b \in Nat, GuildBalance' + a = GuildBalance + b, NEW k \in Kinds
  PROVE  /\ Vault(k)' + Units(k, 0, a) = Vault(k) + Units(k, 0, b)
         /\ Larger(Vault(k), Saved(k))' <= Larger(Vault(k), Saved(k)) + Units(k, 0, b)
  <1>1. PICK v \in Nat, w \in Nat : v = Vault(k) /\ w = Saved(k)
    BY VaultNat
  <1>2. PICK v1 \in Nat : v1 = Vault(k)'
    BY VaultNatNext DEF HouseOK
  <1>3. Saved(k)' = w
    BY <1>1 DEF Saved, Units
  <1>4. PICK ua \in Nat, ub \in Nat : ua = Units(k, 0, a) /\ ub = Units(k, 0, b)
    BY DEF Units
  <1>5. v1 + ua = v + ub
    <2>1. CASE k = "items"
      BY <1>1, <1>2, <1>4, <2>1 DEF Vault, Units
    <2>2. CASE k = "money"
      BY <1>1, <1>2, <1>4, <2>2 DEF Vault, Units
    <2> QED
      BY <2>1, <2>2 DEF Kinds
  <1>6. Larger(v1, w) <= Larger(v, w) + ub
    BY <1>5 DEF Larger
  <1> QED
    BY <1>1, <1>2, <1>3, <1>4, <1>5, <1>6

LEMMA TransferToGuildKeeps ==
  ASSUME Shape, NEW p \in Players, NEW n \in Nat, TransferToGuild(p, n), UNCHANGED scope
  PROVE  /\ Shape' /\ Moves(n)
         /\ \A k \in Kinds : Total(k)' <= Total(k) /\ Top(k)' <= Top(k) + Units(k, 0, n)
         /\ guild.inGame => \A k \in Kinds : Total(k)' = Total(k)
         /\ Total("items")' = Total("items") /\ UNCHANGED <<row, status>>
  <1>1. /\ Online(p) /\ n <= memory[p].money /\ Moves(n) /\ row' = row
        /\ memory' = [memory EXCEPT ![p] = Pays(@, n)]
        /\ guild' = IF guild.inGame THEN [guild EXCEPT !.balance = @ + n] ELSE guild
    BY DEF TransferToGuild
  <1>2. /\ HouseOK' /\ CountsOK' /\ OffersOK' /\ UNCHANGED <<status, offers, house>>
    BY <1>1, MovesCounts
  <1>3. /\ RecordsOK'
        /\ \A k \in Kinds : /\ SumFunction(Held(k)') + Units(k, 0, n) = SumFunction(Held(k))
                            /\ SumFunction(Most(k)') <= SumFunction(Most(k))
    <2>1. UNCHANGED <<row, status>>
      BY <1>1, <1>2
    <2> QED
      BY <1>1, <2>1, PaidRecords DEF Shape
  <1>4. PICK e \in Nat : e = IF guild.inGame THEN n ELSE 0
    OBVIOUS
  <1>5. GuildOK' /\ guild'.row = guild.row /\ GuildBalance' = GuildBalance + e /\ GuildBalance \in Nat
    <2>1. CASE guild.inGame
      <3>1. guild' = [guild EXCEPT !.balance = guild.balance + n] /\ e = n
        BY <1>1, <1>4, <2>1
      <3>2. /\ guild' \in [inGame : BOOLEAN, membersOnline : SUBSET (GuildMembers \union {Forgotten}),
                           balance : Nat, row : Nat]
            /\ guild'.inGame = guild.inGame /\ guild'.balance = guild.balance + n /\ guild'.row = guild.row
            /\ guild'.membersOnline = guild.membersOnline
        BY <3>1 DEF Shape, GuildOK
      <3> QED
        BY <1>2, <2>1, <3>1, <3>2 DEF Shape, GuildOK, GuildBalance, Members
    <2>2. CASE ~guild.inGame
      <3>1. guild' = guild /\ e = 0
        BY <1>1, <1>4, <2>2
      <3> QED
        BY <1>2, <3>1 DEF Shape, GuildOK, GuildBalance, Members
    <2> QED
      BY <2>1, <2>2
  <1>6. Shape'
    BY <1>2, <1>3, <1>5 DEF Shape
  <1>7. ASSUME NEW k \in Kinds
        PROVE  /\ Total(k)' + Units(k, 0, n) = Total(k) + Units(k, 0, e) /\ Top(k)' <= Top(k) + Units(k, 0, e)
               /\ Total(k) \in Nat /\ Total(k)' \in Nat /\ Top(k) \in Nat /\ Top(k)' \in Nat
               /\ Units(k, 0, n) \in Nat /\ Units(k, 0, e) \in Nat /\ Units(k, 0, e) <= Units(k, 0, n)
    <2>1. PICK g \in Nat, d \in Nat, z \in Nat : g = Units(k, 0, n) /\ d = Units(k, 0, e) /\ z = 0 /\ d <= g
      BY <1>4 DEF Units
    <2>2. /\ Vault(k)' + Units(k, 0, z) = Vault(k) + Units(k, 0, e)
          /\ Larger(Vault(k), Saved(k))' <= Larger(Vault(k), Saved(k)) + Units(k, 0, e)
      <3>1. GuildBalance' + z = GuildBalance + e
        BY <1>5, <2>1
      <3> QED
        BY <1>2, <1>5, <3>1, TreasuryMoves DEF Shape
    <2>3. Vault(k)' + z = Vault(k) + d /\ Larger(Vault(k), Saved(k))' <= Larger(Vault(k), Saved(k)) + d
      BY <2>1, <2>2 DEF Units
    <2>4. SumFunction(Held(k)') + g = SumFunction(Held(k)) + z /\ SumFunction(Most(k)') <= SumFunction(Most(k)) + z
      <3>1. SumFunction(Held(k)) \in Nat /\ SumFunction(Most(k)) \in Nat
        BY HeldNat DEF Shape
      <3> QED
        BY <1>3, <2>1, <3>1
    <2>5. Total(k)' + g + z = Total(k) + z + d /\ Top(k)' <= Top(k) + z + d
      BY <1>2, <1>6, <2>3, <2>4, Transferred
    <2>6. Total(k) \in Nat /\ Total(k)' \in Nat /\ Top(k) \in Nat /\ Top(k)' \in Nat
      BY <1>6, TotalNat, TotalNatNext
    <2> QED
      BY <2>1, <2>5, <2>6
  <1>8. \A k \in Kinds : Total(k)' <= Total(k) /\ Top(k)' <= Top(k) + Units(k, 0, n)
    BY <1>7
  <1>9. ASSUME guild.inGame, NEW k \in Kinds PROVE Total(k)' = Total(k)
    <2>1. e = n
      BY <1>4, <1>9
    <2> QED
      BY <1>7, <2>1
  <1>10. Total("items")' = Total("items")
    <2>1. "items" \in Kinds /\ Units("items", 0, n) = 0 /\ Units("items", 0, e) = 0
      BY DEF Kinds, Units
    <2> QED
      BY <1>7, <2>1
  <1> QED
    BY <1>1, <1>2, <1>6, <1>8, <1>9, <1>10

LEMMA TransferFromGuildKeeps ==
  ASSUME Shape, NEW p \in Players, NEW q \in Players, NEW n \in Nat, TransferFromGuild(p, q, n), UNCHANGED scope
  PROVE  /\ Shape' /\ Moves(n)
         /\ \A k \in Kinds : Total(k)' = Total(k) /\ Top(k)' <= Top(k) + Units(k, 0, n)
  <1>1. /\ p \in guild.membersOnline /\ n <= guild.balance /\ Moves(n) /\ Credited(q, n)
        /\ guild' = [guild EXCEPT !.balance = @ - n]
    BY DEF TransferFromGuild
  <1>2. /\ HouseOK' /\ CountsOK' /\ OffersOK' /\ UNCHANGED <<status, offers, house>>
    BY <1>1, MovesCounts
  <1>3. /\ RecordsOK'
        /\ \A k \in Kinds : /\ SumFunction(Held(k)') = SumFunction(Held(k)) + Units(k, 0, n)
                            /\ SumFunction(Most(k)') <= SumFunction(Most(k)) + Units(k, 0, n)
    <2>1. UNCHANGED status
      BY <1>2
    <2> QED
      BY <1>1, <2>1, CreditedRecords DEF Shape
  <1>4. GuildOK' /\ guild'.row = guild.row /\ GuildBalance' + n = GuildBalance /\ GuildBalance \in Nat
    <2>1. guild.inGame /\ guild.balance \in Nat /\ guild.balance - n \in Nat
      BY <1>1 DEF Shape, GuildOK
    <2>2. /\ guild' \in [inGame : BOOLEAN, membersOnline : SUBSET (GuildMembers \union {Forgotten}),
                         balance : Nat, row : Nat]
          /\ guild'.inGame = guild.inGame /\ guild'.balance = guild.balance - n /\ guild'.row = guild.row
          /\ guild'.membersOnline = guild.membersOnline
      BY <1>1, <2>1 DEF Shape, GuildOK
    <2> QED
      BY <1>2, <2>1, <2>2 DEF Shape, GuildOK, GuildBalance, Members
  <1>5. Shape'
    BY <1>2, <1>3, <1>4 DEF Shape
  <1>6. ASSUME NEW k \in Kinds PROVE Total(k)' = Total(k) /\ Top(k)' <= Top(k) + Units(k, 0, n)
    <2>1. PICK g \in Nat, z \in Nat : g = Units(k, 0, n) /\ z = 0
      BY DEF Units
    <2>2. /\ Vault(k)' + Units(k, 0, n) = Vault(k) + Units(k, 0, z)
          /\ Larger(Vault(k), Saved(k))' <= Larger(Vault(k), Saved(k)) + Units(k, 0, z)
      <3>1. GuildBalance' + n = GuildBalance + z
        BY <1>4, <2>1
      <3> QED
        BY <1>2, <1>4, <3>1, TreasuryMoves DEF Shape
    <2>3. Vault(k)' + g = Vault(k) + z /\ Larger(Vault(k), Saved(k))' <= Larger(Vault(k), Saved(k)) + z
      BY <2>1, <2>2 DEF Units
    <2>4. SumFunction(Held(k)') + z = SumFunction(Held(k)) + g /\ SumFunction(Most(k)') <= SumFunction(Most(k)) + g
      <3>1. SumFunction(Held(k)) \in Nat /\ SumFunction(Most(k)) \in Nat
        BY HeldNat DEF Shape
      <3> QED
        BY <1>3, <2>1, <3>1
    <2>5. Total(k)' + z + g = Total(k) + g + z /\ Top(k)' <= Top(k) + g + z
      BY <1>2, <1>5, <2>3, <2>4, Transferred
    <2>6. Total(k) \in Nat /\ Total(k)' \in Nat /\ Top(k) \in Nat
      BY <1>5, TotalNat, TotalNatNext
    <2> QED
      BY <2>1, <2>5, <2>6
  <1> QED
    BY <1>1, <1>5, <1>6

-----------------------------------------------------------------------------
(* The eviction of the house.                                              *)

\* No more is delivered than there is, and all of it but for the items that one
\* copy after the other would have received.
LEMMA DeliveredIs ==
  ASSUME NEW q \in Players, NEW n \in Nat
  PROVE  /\ Delivered(q, n) \in Nat /\ Delivered(q, n) <= n
         /\ ~(n > 1 /\ q # HouseOwner /\ ~Online(q)) => Delivered(q, n) = n
  <1>1. Min({1, n}) = IF 1 <= n THEN 1 ELSE n
    BY MinOfTwo
  <1> QED
    BY <1>1 DEF Delivered

\* What all players have together, when each of them gets its part d of something.
LEMMA AllGain ==
  ASSUME RecordsOK, RecordsOK', NEW k \in Kinds, NEW d \in [Players -> Nat],
         \A q \in Players : Val(k, Found(q)') = Val(k, Found(q)) + d[q] /\ row'[q] \in {row[q], Found(q)'}
  PROVE  /\ SumFunction(Held(k)') = SumFunction(Held(k)) + SumFunction(d)
         /\ SumFunction(Most(k)') <= SumFunction(Most(k)) + SumFunction(d)
  <1>1. PICK h \in [Players -> Nat], m \in [Players -> Nat] : h = Held(k) /\ m = Most(k)
    BY HeldNat
  <1>2. PICK h1 \in [Players -> Nat], m1 \in [Players -> Nat] : h1 = Held(k)' /\ m1 = Most(k)'
    BY HeldNatNext
  <1>3. ASSUME NEW q \in Players PROVE h1[q] = h[q] + d[q] /\ m1[q] <= m[q] + d[q]
    <2>1. h1[q] = Val(k, Found(q)') /\ h[q] = Val(k, Found(q))
      BY <1>1, <1>2 DEF Held
    <2>2. PICK n \in Nat : n = d[q] /\ Val(k, Found(q)') = Val(k, Found(q)) + n
      OBVIOUS
    <2>3. Val(k, Found(q)') <= Val(k, Found(q)) + n
      BY <2>1, <2>2
    <2>4. Most(k)'[q] <= Most(k)[q] + n
      BY <2>3, MostGains
    <2> QED
      BY <1>1, <1>2, <2>1, <2>2, <2>4
  <1>4. SumFunction(h1) = SumFunction(h) + SumFunction(d)
    BY <1>3, MarketAssumption, SumAdd
  <1>5. PICK t \in [Players -> Nat] : \A q \in Players : t[q] = m[q] + d[q]
    <2>1. [q \in Players |-> m[q] + d[q]] \in [Players -> Nat]
      OBVIOUS
    <2> QED
      BY <2>1
  <1>6. SumFunction(t) = SumFunction(m) + SumFunction(d)
    BY <1>5, MarketAssumption, SumAdd
  <1>7. SumFunction(m1) <= SumFunction(t)
    BY <1>3, <1>5, MarketAssumption, SumMono
  <1> QED
    BY <1>1, <1>2, <1>4, <1>6, <1>7

\* Of every player so many items and no money.
LEMMA UnitsAdd ==
  ASSUME NEW d \in [Players -> Nat], NEW k \in Kinds
  PROVE  \E e \in [Players -> Nat] : /\ \A q \in Players : e[q] = Units(k, d[q], 0)
                                    /\ SumFunction(e) = Units(k, SumFunction(d), 0)
  <1>1. PICK e \in [Players -> Nat] : \A q \in Players : e[q] = Units(k, d[q], 0)
    <2>1. [q \in Players |-> Units(k, d[q], 0)] \in [Players -> Nat]
      BY DEF Units
    <2> QED
      BY <2>1
  <1>2. CASE k = "items"
    <2>1. e = d
      BY <1>1, <1>2 DEF Units
    <2> QED
      BY <1>1, <1>2, <2>1 DEF Units
  <1>3. CASE k # "items"
    <2>1. \A q \in Players : e[q] = 0
      BY <1>1, <1>3 DEF Units
    <2>2. SumFunction(e) = 0
      BY <2>1, MarketAssumption, SumOfZeros
    <2> QED
      BY <1>1, <1>3, <2>2 DEF Units
  <1> QED
    BY <1>2, <1>3

\* What is sent when the items s stay in the house.
Sent(s) == [q \in Players |-> Delivered(q, house.items[q] - s[q])]

Receivers == {q \in Players : house.items[q] > 0} \union {HouseOwner}

Evicts(s) ==
  /\ s \in [Players -> Nat] /\ \A q \in Players : s[q] <= house.items[q]
  /\ Losing(0)
  /\ memory' = [q \in Players |-> IF Online(q) THEN Receives(Found(q), Sent(s)[q]) ELSE memory[q]]
  /\ row' = [q \in Players |-> IF q \in Receivers THEN Receives(Found(q), Sent(s)[q]) ELSE row[q]]
  /\ house' = [house EXCEPT !.items = s]
  /\ unsaved' = [unsaved EXCEPT !.items = @ + SumFunction(Sent(s))]
  /\ guild' = Loads({q \in Receivers : ~Online(q)})
  /\ UNCHANGED <<status, offers, nextId, old, results, crashes, cloned, unmade>>

LEMMA EvictSends ==
  ASSUME Shape, Evict PROVE \E s : Evicts(s)
  <1>1. PICK s \in [Players -> UNION {0 .. house.items[q] : q \in Players}] :
          /\ \A q \in Players : s[q] \in MayStay(q)
          /\ IF \A q \in Players : s[q] = 0 THEN UNCHANGED refused ELSE Refuses(0)
          /\ memory' = [q \in Players |-> IF Online(q) THEN [x \in Players |-> Receives(Found(x), Sent(s)[x])][q] ELSE memory[q]]
          /\ row' = [q \in Players |-> IF q \in Receivers THEN [x \in Players |-> Receives(Found(x), Sent(s)[x])][q] ELSE row[q]]
          /\ house' = [house EXCEPT !.items = s]
          /\ unsaved' = [unsaved EXCEPT !.items = @ + SumFunction(Sent(s))]
    BY DEF Evict, Receivers, Sent
  <1>2. /\ guild' = Loads({q \in Receivers : ~Online(q)})
        /\ UNCHANGED <<status, offers, nextId, old, results, crashes, cloned, unmade>>
    BY DEF Evict, Receivers
  <1>3. ASSUME NEW q \in Players PROVE s[q] \in Nat /\ s[q] <= house.items[q]
    <2>1. house.items[q] \in Nat /\ s[q] \in MayStay(q)
      BY <1>1 DEF Shape, HouseOK
    <2> QED
      BY <2>1 DEF MayStay
  <1>4. s \in [Players -> Nat]
    BY <1>3
  <1>5. Losing(0)
    BY <1>1, RefusesLoses, SameLoses DEF Shape
  <1>6. /\ memory' = [q \in Players |-> IF Online(q) THEN Receives(Found(q), Sent(s)[q]) ELSE memory[q]]
        /\ row' = [q \in Players |-> IF q \in Receivers THEN Receives(Found(q), Sent(s)[q]) ELSE row[q]]
    BY <1>1
  <1> QED
    BY <1>1, <1>2, <1>3, <1>4, <1>5, <1>6 DEF Evicts

LEMMA SentIs ==
  ASSUME HouseOK, NEW s, Evicts(s)
  PROVE  /\ Sent(s) \in [Players -> Nat]
         /\ \A q \in Players :
              /\ Sent(s)[q] + s[q] <= house.items[q]
              /\ ~(house.items[q] > house'.items[q] + 1 /\ q # HouseOwner /\ ~Online(q))
                   => Sent(s)[q] + s[q] = house.items[q]
  <1>1. ASSUME NEW q \in Players
        PROVE  /\ Sent(s)[q] \in Nat /\ Sent(s)[q] + s[q] <= house.items[q]
               /\ ~(house.items[q] > house'.items[q] + 1 /\ q # HouseOwner /\ ~Online(q))
                    => Sent(s)[q] + s[q] = house.items[q]
    <2>1. PICK i \in Nat, j \in Nat : i = house.items[q] /\ j = s[q] /\ j <= i
      BY DEF HouseOK, Evicts
    <2>2. i - j \in Nat /\ house'.items[q] = j
      BY <2>1 DEF HouseOK, Evicts
    <2>3. Sent(s)[q] = Delivered(q, i - j)
      BY <2>1 DEF Sent
    <2>4. /\ Delivered(q, i - j) \in Nat /\ Delivered(q, i - j) <= i - j
          /\ ~(i - j > 1 /\ q # HouseOwner /\ ~Online(q)) => Delivered(q, i - j) = i - j
      BY <2>2, DeliveredIs
    <2> QED
      BY <2>1, <2>2, <2>3, <2>4
  <1>2. Sent(s) \in [Players -> Nat]
    BY <1>1 DEF Sent
  <1> QED
    BY <1>1, <1>2

LEMMA ReceivesNothing ==
  ASSUME NEW r \in Record PROVE Receives(r, 0) = r
  <1>1. r.locker + 0 = r.locker
    BY DEF Record
  <1>2. Receives(r, 0) = [r EXCEPT !.locker = r.locker]
    BY <1>1 DEF Receives
  <1> QED
    BY <1>2 DEF Record

\* Those who are not in the game are saved with what they get.
LEMMA EvictRecords ==
  ASSUME RecordsOK, HouseOK, NEW s, Evicts(s)
  PROVE  /\ RecordsOK'
         /\ \A q \in Players : /\ row'[q] \in {row[q], Found(q)'}
                               /\ \A k \in Kinds : Val(k, Found(q)') = Val(k, Found(q)) + Units(k, Sent(s)[q], 0)
  <1> DEFINE got == [q \in Players |-> Receives(Found(q), Sent(s)[q])]
  <1>1. /\ status' = status
        /\ memory' = [q \in Players |-> IF Online(q) THEN got[q] ELSE memory[q]]
        /\ row' = [q \in Players |-> IF q \in Receivers THEN got[q] ELSE row[q]]
    BY DEF Evicts
  <1>2. ASSUME NEW q \in Players
        PROVE  /\ got[q] \in Record
               /\ \A k \in Kinds : /\ Val(k, got[q]) = Val(k, Found(q)) + Units(k, Sent(s)[q], 0)
                                   /\ Val(k, got[q]) \in Nat /\ Val(k, Found(q)) \in Nat
                                   /\ Val(k, Found(q)) <= Val(k, got[q])
               /\ q \notin Receivers => got[q] = Found(q)
    <2>1. PICK f \in Record : f = Found(q)
      BY DEF RecordsOK, Found
    <2>2. PICK n \in Nat : n = Sent(s)[q] /\ n + s[q] <= house.items[q]
      BY SentIs
    <2>3. ItemsOf(f) \in Nat /\ f.money \in Nat
      BY DEF Record, ItemsOf
    <2>4. PICK g \in Record : g = Receives(f, n) /\ ItemsOf(g) = ItemsOf(f) + n /\ g.money = f.money
      BY ReceivesGets
    <2>5. got[q] = g
      BY <2>1, <2>2, <2>4
    <2>6. \A k \in Kinds : /\ Val(k, g) = Val(k, f) + Units(k, n, 0)
                           /\ Val(k, g) \in Nat /\ Val(k, f) \in Nat /\ Val(k, f) <= Val(k, g)
      BY <2>3, <2>4 DEF Kinds, Val, Units
    <2>7. ASSUME q \notin Receivers PROVE g = f
      <3>1. house.items[q] \in Nat /\ ~(house.items[q] > 0) /\ s[q] \in Nat
        BY <2>7 DEF Receivers, HouseOK, Evicts
      <3>2. n = 0
        BY <2>2, <3>1
      <3> QED
        BY <2>4, <3>2, ReceivesNothing
    <2> QED
      BY <2>1, <2>2, <2>5, <2>6, <2>7
  <1> HIDE DEF got
  <1>3. ASSUME NEW q \in Players
        PROVE  /\ memory'[q] \in Record /\ row'[q] \in Record
               /\ Found(q)' = got[q] /\ row'[q] \in {row[q], got[q]}
               /\ ~Online(q) => memory'[q] = memory[q] /\ row'[q] = got[q] /\ Found(q) = row[q]
    BY <1>1, <1>2 DEF RecordsOK, Found, Online
  <1>4. memory' \in [Players -> Record] /\ row' \in [Players -> Record]
    BY <1>1, <1>3
  <1>5. Touches
    BY <1>1, <1>2, <1>3, <1>4 DEF Touches
  <1>6. RecordsOK'
    BY <1>5, TouchesKeeps
  <1> QED
    BY <1>2, <1>3, <1>6

LEMMA EvictKeeps ==
  ASSUME Shape, NEW s, Evicts(s), UNCHANGED scope
  PROVE  /\ Shape' /\ SumFunction(Sent(s)) \in Nat
         /\ \A k \in Kinds : /\ Total(k)' <= Total(k) /\ Top(k)' <= Top(k) + Units(k, SumFunction(Sent(s)), 0)
                             /\ unsaved'[k] = unsaved[k] + Units(k, SumFunction(Sent(s)), 0)
         /\ Total("money")' = Total("money")
         /\ (\A q \in Players : ~(house.items[q] > house'.items[q] + 1 /\ q # HouseOwner /\ ~Online(q)))
              => Total("items")' = Total("items")
  <1>1. /\ house' = [house EXCEPT !.items = s] /\ s \in [Players -> Nat]
        /\ guild' = Loads({q \in Receivers : ~Online(q)})
        /\ unsaved' = [unsaved EXCEPT !.items = @ + SumFunction(Sent(s))]
        /\ Losing(0)
        /\ UNCHANGED <<status, offers, nextId, old, results, crashes, cloned, unmade>>
    BY DEF Evicts
  <1>2. PICK d \in [Players -> Nat] : d = Sent(s)
    BY SentIs DEF Shape
  <1>3. PICK i \in [Players -> Nat], w \in [Players -> Nat] : i = house.items /\ w = house.row
    BY DEF Shape, HouseOK
  <1>4. PICK t \in [Players -> Nat] : \A q \in Players : t[q] = d[q] + s[q]
    <2>1. [q \in Players |-> d[q] + s[q]] \in [Players -> Nat]
      BY <1>1
    <2> QED
      BY <2>1
  <1>5. \A q \in Players :
          /\ t[q] <= i[q]
          /\ ~(i[q] > house'.items[q] + 1 /\ q # HouseOwner /\ ~Online(q)) => t[q] = i[q]
    BY <1>2, <1>3, <1>4, SentIs DEF Shape
  <1>6. PICK u \in Nat, v \in Nat, c \in Nat, w0 \in Nat :
          u = SumFunction(d) /\ v = SumFunction(s) /\ c = SumFunction(i) /\ w0 = SumFunction(w)
    BY <1>1, MarketAssumption, SumNat
  <1>7. SumFunction(t) = u + v
    <2>1. IsFiniteSet(Players) /\ s \in [Players -> Nat]
      BY <1>1, MarketAssumption
    <2>2. SumFunction(t) = SumFunction(d) + SumFunction(s)
      BY <1>4, <2>1, SumAdd
    <2> QED
      BY <1>6, <2>2
  <1>8. u + v <= c
    <2>1. SumFunction(t) <= SumFunction(i)
      BY <1>5, MarketAssumption, SumMono
    <2> QED
      BY <1>6, <1>7, <2>1
  <1>9. /\ RecordsOK'
        /\ \A q \in Players : /\ row'[q] \in {row[q], Found(q)'}
                              /\ \A k \in Kinds : Val(k, Found(q)') = Val(k, Found(q)) + Units(k, d[q], 0)
    BY <1>2, EvictRecords DEF Shape
  <1>10. OffersOK'
    BY <1>1, OffersSame DEF Shape
  <1>11. GuildOK' /\ GuildKept
    BY <1>1, LoadsKeeps DEF Shape
  <1>12. house'.items = s /\ house'.row = w /\ HouseOK'
    BY <1>1, <1>3 DEF Shape, HouseOK
  <1>13. /\ CountsOK' /\ \A k \in Kinds : unsaved'[k] = unsaved[k] + Units(k, u, 0)
    <2>1. /\ unsaved'.money = unsaved.money /\ unsaved'.items = unsaved.items + u
          /\ unsaved' \in [money : Nat, items : Nat]
          /\ unsaved.money \in Nat /\ unsaved.items \in Nat
      BY <1>1, <1>2, <1>6 DEF Shape, CountsOK
    <2>2. CountsOK'
      BY <1>1, <2>1 DEF Shape, CountsOK, Losing
    <2>3. \A k \in Kinds : unsaved'[k] = unsaved[k] + Units(k, u, 0)
      BY <2>1 DEF Kinds, Units
    <2> QED
      BY <2>2, <2>3
  <1>14. Shape'
    BY <1>9, <1>10, <1>11, <1>12, <1>13 DEF Shape
  <1>15. ASSUME NEW k \in Kinds
         PROVE  /\ Total(k)' + Units(k, c, 0) = Total(k) + Units(k, u + v, 0) /\ Top(k)' <= Top(k) + Units(k, u, 0)
                /\ Total(k) \in Nat /\ Total(k)' \in Nat
    <2>1. PICK x \in Nat, y \in Nat, z \in Nat, z0 \in Nat :
            x = Units(k, u, 0) /\ y = Units(k, c, 0) /\ z = Units(k, v, 0) /\ z0 = 0
      BY DEF Units
    <2>2. PICK e \in [Players -> Nat] : /\ \A q \in Players : e[q] = Units(k, d[q], 0)
                                       /\ SumFunction(e) = Units(k, SumFunction(d), 0)
      BY UnitsAdd
    <2>3. SumFunction(e) = x
      BY <1>6, <2>1, <2>2
    <2>4. \A q \in Players : Val(k, Found(q)') = Val(k, Found(q)) + e[q] /\ row'[q] \in {row[q], Found(q)'}
      BY <1>9, <2>2
    <2>5. SumFunction(Held(k)') + z0 = SumFunction(Held(k)) + x /\ SumFunction(Most(k)') <= SumFunction(Most(k)) + x
      <3>1. /\ SumFunction(Held(k)') = SumFunction(Held(k)) + SumFunction(e)
            /\ SumFunction(Most(k)') <= SumFunction(Most(k)) + SumFunction(e)
        BY <1>9, <2>4, AllGain DEF Shape
      <3>2. SumFunction(Held(k)') \in Nat
        BY <1>9, HeldNatNext
      <3> QED
        BY <2>1, <2>3, <3>1, <3>2
    <2>6. Vault(k)' + y = Vault(k) + z /\ Larger(Vault(k), Saved(k))' <= Larger(Vault(k), Saved(k)) + z0
      <3>1. Vault(k) \in Nat /\ Saved(k) \in Nat
        BY VaultNat DEF Shape
      <3>2. Vault(k)' \in Nat /\ Saved(k)' \in Nat
        BY <1>11, <1>12, VaultNatNext
      <3>3. CASE k = "items"
        <4>1. Vault(k) = c /\ Saved(k) = w0 /\ Vault(k)' = v /\ Saved(k)' = w0 /\ y = c /\ z = v
          BY <1>3, <1>6, <1>12, <2>1, <3>3 DEF Vault, Saved, Units
        <4>2. v <= c
          BY <1>8
        <4> QED
          BY <2>1, <4>1, <4>2 DEF Larger
      <3>4. CASE k # "items"
        <4>1. Vault(k)' = Vault(k) /\ Saved(k)' \in {Saved(k), Vault(k)} /\ y = 0 /\ z = 0
          BY <1>11, <2>1, <3>4 DEF Vault, Saved, Units, GuildKept
        <4> QED
          BY <2>1, <3>1, <3>2, <4>1 DEF Larger
      <3> QED
        BY <3>3, <3>4
    <2>7. Total(k)' + z0 + y = Total(k) + x + z /\ Top(k)' <= Top(k) + x + z0
      <3>1. offers' = offers
        BY <1>1
      <3> QED
        BY <1>14, <2>5, <2>6, <3>1, Transferred
    <2>8. Total(k) \in Nat /\ Total(k)' \in Nat /\ Top(k) \in Nat
      BY <1>14, TotalNat, TotalNatNext
    <2>9. Units(k, u + v, 0) = x + z
      BY <2>1 DEF Units
    <2> QED
      BY <2>1, <2>7, <2>8, <2>9
  <1>16. \A k \in Kinds : Total(k)' <= Total(k) /\ Top(k)' <= Top(k) + Units(k, u, 0)
    BY <1>8, <1>15 DEF Units
  <1>17. Total("money")' = Total("money")
    BY <1>15 DEF Kinds, Units
  <1>18. ASSUME \A q \in Players : ~(house.items[q] > house'.items[q] + 1 /\ q # HouseOwner /\ ~Online(q))
         PROVE  Total("items")' = Total("items")
    <2>1. t = i
      BY <1>3, <1>4, <1>5, <1>18
    <2>2. u + v = c
      BY <1>6, <1>7, <2>1
    <2> QED
      BY <1>15, <2>2 DEF Kinds, Units
  <1> QED
    BY <1>2, <1>6, <1>13, <1>14, <1>16, <1>17, <1>18

-----------------------------------------------------------------------------
(* Acceptances that end with an error.                                     *)

\* The handler's player has e more than before at most, and is not saved; the other
\* side gets g.
LEMMA HalfShift ==
  ASSUME RecordsOK, NEW p \in Players, NEW q \in Players, p # q, Online(p),
         NEW r \in Record, NEW s \in Record, HalfAs(p, r, q, s), status' = status,
         \A k \in Kinds : Val(k, Found(q)) <= Val(k, s)
  PROVE  /\ RecordsOK'
         /\ \A k \in Kinds, e, g \in Nat :
              Val(k, r) <= Val(k, memory[p]) + e /\ Val(k, s) = Val(k, Found(q)) + g
              => /\ SumFunction(Held(k)') + Val(k, memory[p]) = SumFunction(Held(k)) + (Val(k, r) + g)
                 /\ SumFunction(Most(k)') <= SumFunction(Most(k)) + (e + g)
  <1>1. /\ memory' \in [Players -> Record] /\ row' \in [Players -> Record]
        /\ memory'[p] = r /\ row'[p] = row[p]
        /\ OthersKeep({p, q})
        /\ Online(q) => memory'[q] = s /\ row'[q] = row[q]
        /\ ~Online(q) => memory'[q] = memory[q] /\ row'[q] = s /\ Found(q) = row[q]
    BY DEF OthersKeep, HalfAs, RecordsOK, Found
  <1>2. Found(p) = memory[p] /\ Found(p)' = r /\ Found(q)' = s /\ row'[q] \in {row[q], Found(q)'}
    BY <1>1 DEF Found, Online
  <1>3. RecordsOK'
    <2>1. ASSUME NEW x \in Players, ~Online(x)
          PROVE  memory'[x] = memory[x] /\ \A k \in Kinds : Val(k, row[x]) <= Val(k, row'[x])
      <3>1. CASE x = q
        BY <1>1, <2>1, <3>1
      <3>2. CASE x # q
        <4>1. memory'[x] = memory[x] /\ row'[x] = row[x] /\ row[x] \in Record
          BY <1>1, <2>1, <3>2 DEF OthersKeep, RecordsOK
        <4>2. \A k \in Kinds : Val(k, row[x]) \in Nat
          BY <4>1, ValNat
        <4> QED
          BY <4>1, <4>2
      <3> QED
        BY <3>1, <3>2
    <2>2. Touches
      BY <1>1, <2>1 DEF Touches
    <2> QED
      BY <2>2, TouchesKeeps
  <1>4. ASSUME NEW k \in Kinds, NEW e \in Nat, NEW g \in Nat,
               Val(k, r) <= Val(k, memory[p]) + e, Val(k, s) = Val(k, Found(q)) + g
        PROVE  /\ SumFunction(Held(k)') + Val(k, memory[p]) = SumFunction(Held(k)) + (Val(k, r) + g)
               /\ SumFunction(Most(k)') <= SumFunction(Most(k)) + (e + g)
    <2>1. /\ SumFunction(Held(k)') + Held(k)[p] + Held(k)[q] = SumFunction(Held(k)) + Held(k)'[p] + Held(k)'[q]
          /\ SumFunction(Most(k)') + Most(k)[p] + Most(k)[q] = SumFunction(Most(k)) + Most(k)'[p] + Most(k)'[q]
      BY <1>1, <1>3, TwoMove
    <2>2. /\ Held(k)[p] = Val(k, memory[p]) /\ Held(k)'[p] = Val(k, r)
          /\ Held(k)[q] = Val(k, Found(q)) /\ Held(k)'[q] = Val(k, s)
      BY <1>2 DEF Held
    <2>3. Most(k)'[p] <= Most(k)[p] + e
      <3>1. Val(k, Found(p)') <= Val(k, Found(p)) + e
        BY <1>2, <1>4
      <3>2. row'[p] \in {row[p], Found(p)'}
        BY <1>1
      <3> QED
        BY <1>3, <3>1, <3>2, MostGains
    <2>4. Most(k)'[q] <= Most(k)[q] + g
      <3>1. Val(k, Found(q)) \in Nat
        BY ValNat DEF RecordsOK, Found
      <3>2. Val(k, Found(q)') <= Val(k, Found(q)) + g
        BY <1>2, <1>4, <3>1
      <3> QED
        BY <1>2, <1>3, <3>2, MostGains
    <2>5. /\ Held(k) \in [Players -> Nat] /\ Most(k) \in [Players -> Nat]
          /\ SumFunction(Held(k)) \in Nat /\ SumFunction(Most(k)) \in Nat
      BY HeldNat
    <2>6. /\ Held(k)' \in [Players -> Nat] /\ Most(k)' \in [Players -> Nat]
          /\ SumFunction(Held(k)') \in Nat /\ SumFunction(Most(k)') \in Nat
      BY <1>3, HeldNatNext
    <2>7. SumFunction(Held(k)') + Val(k, memory[p]) = SumFunction(Held(k)) + (Val(k, r) + g)
      <3>1. PICK h \in Nat, h1 \in Nat, vm \in Nat, vr \in Nat, vf \in Nat :
              /\ h = SumFunction(Held(k)) /\ h1 = SumFunction(Held(k)')
              /\ vm = Val(k, memory[p]) /\ vr = Val(k, r) /\ vf = Val(k, Found(q))
        BY <2>5, <2>6, ValNat DEF RecordsOK, Found
      <3>2. h1 + vm + vf = h + vr + (vf + g)
        BY <1>4, <2>1, <2>2, <3>1
      <3>3. h1 + vm = h + (vr + g)
        BY <3>2
      <3> QED
        BY <3>1, <3>3
    <2>8. SumFunction(Most(k)') <= SumFunction(Most(k)) + (e + g)
      <3>1. Most(k)[p] \in Nat /\ Most(k)[q] \in Nat /\ Most(k)'[p] \in Nat /\ Most(k)'[q] \in Nat
        BY <2>5, <2>6
      <3> QED
        BY <2>1, <2>3, <2>4, <2>5, <2>6, <3>1
    <2> QED
      BY <2>7, <2>8
  <1> QED
    BY <1>3, <1>4

\* The totals, after either of them.
LEMMA RefusedKeeps ==
  ASSUME Shape, NEW p \in Players, Online(p), NEW o \in offers, o.player # p,
         NEW r \in Record, NEW s \in Record, HalfAs(p, r, o.player, s),
         \A k \in Kinds : Val(k, Found(o.player)) <= Val(k, s),
         LoadsCopies({o.player}), UNCHANGED <<status, offers, nextId, old, results, scope, house>>, CountsOK'
  PROVE  /\ Shape'
         /\ \A k \in Kinds, e, g \in Nat :
              Val(k, r) <= Val(k, memory[p]) + e /\ Val(k, s) = Val(k, Found(o.player)) + g
              => /\ Total(k)' + Val(k, memory[p]) = Total(k) + (Val(k, r) + g)
                 /\ Top(k)' <= Top(k) + (e + g)
  <1>1. PICK q \in Players : q = o.player
    BY DEF Shape, OffersOK, Table, OfferType
  <1>2. /\ RecordsOK'
        /\ \A k \in Kinds, e, g \in Nat :
             Val(k, r) <= Val(k, memory[p]) + e /\ Val(k, s) = Val(k, Found(q)) + g
             => /\ SumFunction(Held(k)') + Val(k, memory[p]) = SumFunction(Held(k)) + (Val(k, r) + g)
                /\ SumFunction(Most(k)') <= SumFunction(Most(k)) + (e + g)
    <2>1. RecordsOK /\ status' = status /\ HalfAs(p, r, q, s) /\ p # q
      BY <1>1 DEF Shape
    <2>2. \A k \in Kinds : Val(k, Found(q)) <= Val(k, s)
      BY <1>1
    <2> QED
      BY <2>1, <2>2, HalfShift
  <1>3. OffersOK' /\ HouseOK' /\ house' = house
    BY OffersSame DEF Shape, HouseOK
  <1>4. GuildOK' /\ GuildKept
    BY LoadsKeeps DEF LoadsCopies, Shape
  <1>5. Shape'
    BY <1>2, <1>3, <1>4 DEF Shape
  <1>6. ASSUME NEW k \in Kinds, NEW e \in Nat, NEW g \in Nat,
               Val(k, r) <= Val(k, memory[p]) + e, Val(k, s) = Val(k, Found(q)) + g
        PROVE  /\ Total(k)' + Val(k, memory[p]) = Total(k) + (Val(k, r) + g)
               /\ Top(k)' <= Top(k) + (e + g)
    <2>1. PICK a \in Nat, b \in Nat, c \in Nat, z \in Nat :
            a = Val(k, memory[p]) /\ b = Val(k, r) + g /\ c = e + g /\ z = 0
      BY ValNat DEF Shape, RecordsOK
    <2>2. SumFunction(Held(k)') + a = SumFunction(Held(k)) + b /\ SumFunction(Most(k)') <= SumFunction(Most(k)) + c
      BY <1>2, <1>6, <2>1
    <2>3. /\ Vault(k)' + z = Vault(k) + z
          /\ Larger(Vault(k), Saved(k))' <= Larger(Vault(k), Saved(k)) + z
      BY <1>3, <1>4, <2>1, VaultKept DEF Shape
    <2>4. Total(k)' + a + z = Total(k) + b + z /\ Top(k)' <= Top(k) + c + z
      BY <1>5, <2>2, <2>3, Transferred
    <2>5. PICK t \in Nat, t1 \in Nat, u \in Nat, u1 \in Nat :
            t = Total(k) /\ t1 = Total(k)' /\ u = Top(k) /\ u1 = Top(k)'
      BY <1>5, TotalNat, TotalNatNext
    <2>6. t1 + a = t + b /\ u1 <= u + c
      BY <2>1, <2>4, <2>5
    <2> QED
      BY <2>1, <2>5, <2>6
  <1> QED
    BY <1>1, <1>5, <1>6

-----------------------------------------------------------------------------
(* Expiry.                                                                 *)

\* What the rows say is returned to their creators, in the game or to what is saved,
\* but for what is lost.
LEMMA ReturnedRecords ==
  ASSUME RecordsOK, NEW R, IsFiniteSet(R), R \subseteq OfferType, status' = status,
         NEW lost \in [Players -> Nat], \A p \in Players : lost[p] <= ItemsOffered({o \in R : o.player = p}),
         memory' = [p \in Players |-> IF Online(p) THEN Refund(memory[p], {o \in R : o.player = p}, lost[p]) ELSE memory[p]],
         row' = [p \in Players |-> IF Online(p) THEN row[p] ELSE Refund(row[p], {o \in R : o.player = p}, lost[p])]
  PROVE  /\ RecordsOK'
         /\ \A k \in Kinds :
              /\ SumFunction(Held(k)') + Units(k, SumFunction(lost), 0) = SumFunction(Held(k)) + Offered(k, R)
              /\ SumFunction(Most(k)') + Units(k, SumFunction(lost), 0) <= SumFunction(Most(k)) + Offered(k, R)
  <1> DEFINE Of(p) == {o \in R : o.player = p}
  <1>1. ASSUME NEW p \in Players PROVE IsFiniteSet(Of(p)) /\ Of(p) \subseteq OfferType
    BY FS_Subset
  <1>2. ASSUME NEW p \in Players
        PROVE  /\ memory'[p] \in Record /\ row'[p] \in Record
               /\ row'[p] \in {row[p], Found(p)'}
               /\ ~Online(p) => memory'[p] = memory[p] /\ row'[p] = Found(p)' /\ Found(p) = row[p]
               /\ \A k \in Kinds : \E d \in Nat : /\ Val(k, Found(p)') = Val(k, Found(p)) + d
                                                  /\ d + Units(k, lost[p], 0) = Offered(k, Of(p))
               /\ \A k \in Kinds : Offered(k, Of(p)) \in Nat /\ Val(k, Found(p)) \in Nat
    <2>1. PICK r \in Record : r = Found(p)
      BY DEF RecordsOK, Found
    <2>2. PICK s : s = Of(p) /\ IsFiniteSet(s) /\ s \subseteq OfferType
      BY <1>1
    <2>3. PICK l \in Nat : l = lost[p] /\ l <= ItemsOffered(s)
      BY <2>2
    <2>4. /\ Refund(r, s, l) \in Record
          /\ \A k \in Kinds : Val(k, Refund(r, s, l)) + Units(k, l, 0) = Val(k, r) + Offered(k, s)
      BY <2>2, <2>3, Refunds
    <2>5. \A k \in Kinds : Offered(k, s) \in Nat /\ Val(k, r) \in Nat
      BY <2>2, OfferedIsSum, ValNat
    <2>6. /\ memory'[p] = IF Online(p) THEN Refund(memory[p], s, l) ELSE memory[p]
          /\ row'[p] = IF Online(p) THEN row[p] ELSE Refund(row[p], s, l)
      BY <2>2, <2>3
    <2>7. /\ memory'[p] \in Record /\ row'[p] \in Record
          /\ Found(p)' = Refund(r, s, l) /\ row'[p] \in {row[p], Refund(r, s, l)}
          /\ ~Online(p) => memory'[p] = memory[p] /\ row'[p] = Refund(r, s, l) /\ Found(p) = row[p]
      BY <2>1, <2>4, <2>6 DEF RecordsOK, Found, Online
    <2>8. ASSUME NEW k \in Kinds
          PROVE  \E d \in Nat : Val(k, Refund(r, s, l)) = Val(k, r) + d /\ d + Units(k, l, 0) = Offered(k, s)
      <3>1. PICK u \in Nat, f \in Nat : u = Units(k, l, 0) /\ f = Offered(k, s)
        BY <2>5 DEF Units
      <3>2. u <= f
        <4>1. CASE k = "items"
          BY <2>3, <3>1, <4>1 DEF Offered, Units
        <4>2. CASE k # "items"
          BY <3>1, <4>2 DEF Units
        <4> QED
          BY <4>1, <4>2
      <3>3. PICK i \in Nat, j \in Nat : i = Val(k, r) /\ j = Val(k, Refund(r, s, l)) /\ j + u = i + f
        BY <2>4, <2>5, <3>1, ValNat
      <3>4. f - u \in Nat /\ j = i + (f - u) /\ (f - u) + u = f
        BY <3>2, <3>3
      <3> QED
        BY <3>1, <3>3, <3>4
    <2> QED
      BY <2>1, <2>2, <2>3, <2>5, <2>7, <2>8
  <1> HIDE DEF Of
  <1>3. RecordsOK'
    <2>1. memory' \in [Players -> Record] /\ row' \in [Players -> Record]
      BY <1>2
    <2>2. ASSUME NEW p \in Players, ~Online(p), NEW k \in Kinds PROVE Val(k, row[p]) <= Val(k, row'[p])
      <3>1. PICK i \in Nat, j \in Nat : i = Val(k, Found(p)) /\ Val(k, Found(p)') = i + j
        BY <1>2
      <3>2. row'[p] = Found(p)' /\ row[p] = Found(p)
        BY <1>2, <2>2
      <3>3. Val(k, row'[p]) = i + j /\ Val(k, row[p]) = i
        BY <3>1, <3>2
      <3> QED
        BY <3>3
    <2>3. Touches
      BY <1>2, <2>1, <2>2 DEF Touches
    <2> QED
      BY <2>3, TouchesKeeps
  <1>4. ASSUME NEW k \in Kinds
        PROVE  /\ SumFunction(Held(k)') + Units(k, SumFunction(lost), 0) = SumFunction(Held(k)) + Offered(k, R)
               /\ SumFunction(Most(k)') + Units(k, SumFunction(lost), 0) <= SumFunction(Most(k)) + Offered(k, R)
    <2>1. PICK f \in [R -> Nat] : f = [o \in R |-> In(k, o)] /\ SumFunction(f) = Offered(k, R)
      BY OfferedIsSum
    <2>2. PICK owner \in [R -> Players] : \A o \in R : owner[o] = o.player
      <3>1. [o \in R |-> o.player] \in [R -> Players]
        BY DEF OfferType
      <3> QED
        BY <3>1
    <2>3. PICK t \in [Players -> Nat] : t = [p \in Players |-> Offered(k, Of(p))]
      BY <1>2
    <2>4. SumFunction(t) = SumFunction(f)
      <3>1. SumFunction([p \in Players |-> PartSum(f, owner, R, p)]) = SumFunction(f)
        <4>1. IsFiniteSet(Players)
          BY MarketAssumption
        <4> QED
          BY <4>1, SumPartition
      <3>2. ASSUME NEW p \in Players PROVE PartSum(f, owner, R, p) = Offered(k, Of(p))
        <4>1. {x \in R : owner[x] = p} = Of(p)
          BY <2>2 DEF Of
        <4>2. [o \in {x \in R : owner[x] = p} |-> f[o]] = [o \in Of(p) |-> In(k, o)]
          BY <2>1, <4>1 DEF Of
        <4>3. Offered(k, Of(p)) = SumFunction([o \in Of(p) |-> In(k, o)])
          BY <1>1, OfferedIsSum
        <4> QED
          BY <4>2, <4>3 DEF PartSum
      <3>3. [p \in Players |-> PartSum(f, owner, R, p)] = t
        BY <2>3, <3>2
      <3> QED
        BY <3>1, <3>3
    <2>5. PICK u \in [Players -> Nat] : /\ \A p \in Players : u[p] = Units(k, lost[p], 0)
                                       /\ SumFunction(u) = Units(k, SumFunction(lost), 0)
      BY UnitsAdd
    <2>6. PICK d \in [Players -> Nat] :
            \A p \in Players : Val(k, Found(p)') = Val(k, Found(p)) + d[p] /\ t[p] = d[p] + u[p]
      <3> DEFINE D(p) == CHOOSE n \in Nat : /\ Val(k, Found(p)') = Val(k, Found(p)) + n
                                            /\ n + Units(k, lost[p], 0) = Offered(k, Of(p))
      <3>1. ASSUME NEW p \in Players
            PROVE  /\ D(p) \in Nat /\ Val(k, Found(p)') = Val(k, Found(p)) + D(p)
                   /\ D(p) + Units(k, lost[p], 0) = Offered(k, Of(p))
        BY <1>2
      <3> HIDE DEF D
      <3>2. [p \in Players |-> D(p)] \in [Players -> Nat]
        BY <3>1
      <3> QED
        BY <2>3, <2>5, <3>1, <3>2
    <2>7. /\ SumFunction(Held(k)') = SumFunction(Held(k)) + SumFunction(d)
          /\ SumFunction(Most(k)') <= SumFunction(Most(k)) + SumFunction(d)
      <3>1. \A p \in Players : row'[p] \in {row[p], Found(p)'}
        BY <1>2
      <3> QED
        BY <1>3, <2>6, <3>1, AllGain
    <2>8. SumFunction(t) = SumFunction(d) + SumFunction(u)
      BY <2>6, MarketAssumption, SumAdd
    <2>9. PICK x \in Nat, y \in Nat : x = SumFunction(d) /\ y = SumFunction(u)
      BY MarketAssumption, SumNat
    <2>10. PICK h \in Nat, m \in Nat, h1 \in Nat, m1 \in Nat :
             h = SumFunction(Held(k)) /\ m = SumFunction(Most(k)) /\ h1 = SumFunction(Held(k)') /\ m1 = SumFunction(Most(k)')
      BY <1>3, HeldNat, HeldNatNext
    <2>11. h1 + y = h + (x + y) /\ m1 + y <= m + (x + y)
      BY <2>7, <2>9, <2>10
    <2> QED
      BY <2>1, <2>4, <2>5, <2>8, <2>9, <2>10, <2>11
  <1> QED
    BY <1>3, <1>4

LEMMA LeftOfHolds ==
  ASSUME NEW x \in OfferType, NEW o \in OfferType, LeftOf(x, o), NEW k \in Kinds
  PROVE  In(k, x) <= In(k, o)
  <1>1. PICK a \in Nat, b \in Nat, c \in Nat : a = x.amount /\ b = o.amount /\ c = x.price /\ c = o.price /\ a <= b
    <2>1. x.amount \in Nat /\ o.amount \in Nat /\ x.price \in Nat
      BY MarketAssumption DEF OfferType
    <2> QED
      BY <2>1 DEF LeftOf
  <1>2. c * a <= c * b
    <2>1. PICK e \in Nat : b = a + e
      <3>1. b - a \in Nat /\ b = a + (b - a)
        BY <1>1
      <3> QED
        BY <3>1
    <2>2. c * b = c * a + c * e
      BY <2>1
    <2>3. c * e \in Nat /\ c * a \in Nat
      OBVIOUS
    <2> QED
      BY <2>2, <2>3
  <1> QED
    BY <1>1, <1>2 DEF LeftOf, In, Units, ItemsIn, MoneyIn

\* What goes to the history held no more than its rows say.
LEMMA GoneHeldLess ==
  ASSUME OffersOK, NEW R, Table(R), Behind(R), NEW G, G = {x \in offers : \E o \in R : o.id = x.id}, NEW k \in Kinds
  PROVE  Offered(k, G) <= Offered(k, R)
  <1>1. IsFiniteSet(G) /\ G \subseteq OfferType /\ IsFiniteSet(R) /\ R \subseteq OfferType
    BY FS_Subset DEF OffersOK, Table
  <1>2. PICK f \in [G -> Nat] : f = [x \in G |-> In(k, x)] /\ SumFunction(f) = Offered(k, G)
    BY <1>1, OfferedIsSum
  <1>3. PICK d \in [R -> Nat] : d = [o \in R |-> In(k, o)] /\ SumFunction(d) = Offered(k, R)
    BY <1>1, OfferedIsSum
  <1>4. PICK m \in [G -> R] : \A x \in G : m[x].id = x.id
    <2>1. \A x \in G : (CHOOSE o \in R : o.id = x.id) \in R /\ (CHOOSE o \in R : o.id = x.id).id = x.id
      OBVIOUS
    <2>2. [x \in G |-> CHOOSE o \in R : o.id = x.id] \in [G -> R]
      BY <2>1
    <2> QED
      BY <2>1, <2>2
  <1>5. \A x, y \in G : m[x] = m[y] => x = y
    BY <1>4 DEF OffersOK, Table
  <1>6. ASSUME NEW x \in G PROVE f[x] <= d[m[x]]
    <2>1. PICK o \in R : o = m[x] /\ LeftOf(x, o)
      BY <1>4 DEF Behind
    <2>2. In(k, x) <= In(k, o)
      BY <1>1, <2>1, LeftOfHolds
    <2> QED
      BY <1>2, <1>3, <2>1, <2>2
  <1>7. SumFunction(f) <= SumFunction(d)
    <2>1. IsFiniteSet(G) /\ IsFiniteSet(R)
      BY <1>1
    <2>2. \A x \in G : f[x] <= d[m[x]]
      BY <1>6
    <2> QED
      BY <1>5, <2>1, <2>2, SumMatched
  <1> QED
    BY <1>2, <1>3, <1>7

\* What the result returns beyond what the offers hold is counted, and so is what
\* an inbox refuses.
LEMMA ReturnKeeps ==
  ASSUME Shape, ReturnOffers
  PROVE  /\ Shape' /\ UNCHANGED <<crashes, unsaved, unmade, nextId>>
         /\ \E lost \in Nat :
              /\ refused'.lost = refused.lost + lost
              /\ \A k \in Kinds : \E e \in Nat : /\ cloned'[k] = cloned[k] + e
                                                 /\ Total(k)' + Units(k, lost, 0) = Total(k) + e
                                                 /\ Top(k)' <= Top(k) + e
  <1> DEFINE rows == {o \in Head(results) : \E now \in offers : now.id = o.id}
             gone == {now \in offers : \E o \in rows : o.id = now.id}
  <1>1. /\ results # <<>> /\ results' = Tail(results) /\ offers' = offers \ gone
        /\ \E lost \in [Players -> 0 .. ItemsOffered(rows)] :
             /\ \A p \in Players : lost[p] <= ItemsOffered({o \in rows : o.player = p})
             /\ IF SumFunction(lost) = 0 THEN UNCHANGED refused ELSE Refuses(SumFunction(lost))
             /\ memory' = [p \in Players |-> IF Online(p) THEN Refund(memory[p], {o \in rows : o.player = p}, lost[p]) ELSE memory[p]]
             /\ row' = [p \in Players |-> IF Online(p) THEN row[p] ELSE Refund(row[p], {o \in rows : o.player = p}, lost[p])]
        /\ cloned' = [items |-> cloned.items + ItemsOffered(rows) - ItemsOffered(gone),
                      money |-> cloned.money + MoneyOffered(rows) - MoneyOffered(gone)]
        /\ UNCHANGED <<status, nextId, old, crashes>>
    BY DEF ReturnOffers, ProcessExpired
  <1>2. /\ \E ps : guild' = Loads(ps)
        /\ UNCHANGED <<scope, house, unsaved, unmade>>
    BY DEF ReturnOffers, LoadsCopies, RestSame
  <1>3. PICK s : s = Head(results) /\ Table(s) /\ Behind(s)
    <2>1. results \in Seq(SUBSET OfferType) /\ 1 \in 1 .. Len(results) /\ Head(results) = results[1]
      BY <1>1 DEF Shape, OffersOK
    <2> QED
      BY <2>1 DEF Shape, OffersOK
  <1>4. PICK R : R = rows
    OBVIOUS
  <1>5. PICK G : G = gone
    OBVIOUS
  <1>6. Table(R) /\ Behind(R) /\ G = {x \in offers : \E o \in R : o.id = x.id}
    <2>1. R \subseteq s
      BY <1>3, <1>4
    <2>2. IsFiniteSet(R)
      BY <1>3, <2>1, FS_Subset DEF Table
    <2> QED
      BY <1>3, <1>4, <1>5, <2>1, <2>2 DEF Table, Behind
  <1>7. /\ offers' = offers \ G /\ G \in SUBSET offers
        /\ \E lost \in [Players -> 0 .. ItemsOffered(R)] :
             /\ \A p \in Players : lost[p] <= ItemsOffered({o \in R : o.player = p})
             /\ IF SumFunction(lost) = 0 THEN UNCHANGED refused ELSE Refuses(SumFunction(lost))
             /\ memory' = [p \in Players |-> IF Online(p) THEN Refund(memory[p], {o \in R : o.player = p}, lost[p]) ELSE memory[p]]
             /\ row' = [p \in Players |-> IF Online(p) THEN row[p] ELSE Refund(row[p], {o \in R : o.player = p}, lost[p])]
        /\ cloned' = [items |-> cloned.items + ItemsOffered(R) - ItemsOffered(G),
                      money |-> cloned.money + MoneyOffered(R) - MoneyOffered(G)]
    BY <1>1, <1>4, <1>5
  <1> HIDE DEF rows, gone
  <1>8. IsFiniteSet(R) /\ R \subseteq OfferType /\ IsFiniteSet(G) /\ G \subseteq OfferType
    BY <1>6, <1>7, FS_Subset DEF Shape, OffersOK, Table
  <1>9. PICK lost \in [Players -> 0 .. ItemsOffered(R)] :
          /\ \A p \in Players : lost[p] <= ItemsOffered({o \in R : o.player = p})
          /\ IF SumFunction(lost) = 0 THEN UNCHANGED refused ELSE Refuses(SumFunction(lost))
          /\ memory' = [p \in Players |-> IF Online(p) THEN Refund(memory[p], {o \in R : o.player = p}, lost[p]) ELSE memory[p]]
          /\ row' = [p \in Players |-> IF Online(p) THEN row[p] ELSE Refund(row[p], {o \in R : o.player = p}, lost[p])]
    BY <1>7
  <1>10. lost \in [Players -> Nat]
    <2>1. ItemsOffered(R) \in Nat
      <3>1. Offered("items", R) \in Nat
        BY <1>8, KindsAre, OfferedIsSum
      <3> QED
        BY <3>1 DEF Offered, Units
    <2> QED
      BY <2>1
  <1>11. PICK L \in Nat : L = SumFunction(lost) /\ Losing(L)
    <2>1. SumFunction(lost) \in Nat
      BY <1>10, MarketAssumption, SumNat
    <2> QED
      BY <1>9, <2>1, RefusesLoses, SameLoses DEF Shape
  <1>12. /\ RecordsOK'
         /\ \A k \in Kinds : /\ SumFunction(Held(k)') + Units(k, L, 0) = SumFunction(Held(k)) + Offered(k, R)
                             /\ SumFunction(Most(k)') + Units(k, L, 0) <= SumFunction(Most(k)) + Offered(k, R)
    <2>1. status' = status
      BY <1>1
    <2> QED
      BY <1>8, <1>9, <1>10, <1>11, <2>1, ReturnedRecords DEF Shape
  <1>13. OffersOK' /\ \A k \in Kinds : Offered(k, offers') + Offered(k, G) = Offered(k, offers)
    <2>1. UNCHANGED <<nextId, old>>
      BY <1>1
    <2> QED
      BY <1>1, <1>7, <2>1, ProcessKeeps DEF Shape
  <1>14. GuildOK' /\ GuildKept
    <2>1. PICK ps : guild' = Loads(ps)
      BY <1>2
    <2>2. scope' = scope /\ status' = status
      BY <1>1, <1>2
    <2> QED
      BY <2>1, <2>2, LoadsKeeps DEF Shape
  <1>15. HouseOK'
    BY <1>2 DEF Shape, HouseOK
  <1>16. ASSUME NEW k \in Kinds PROVE \E e \in Nat : cloned'[k] = cloned[k] + e /\ Offered(k, R) = Offered(k, G) + e
    <2>1. Offered(k, G) <= Offered(k, R)
      BY <1>6, GoneHeldLess DEF Shape
    <2>2. PICK i \in Nat, j \in Nat : i = Offered(k, G) /\ j = Offered(k, R) /\ i <= j
      BY <1>8, <2>1, OfferedIsSum
    <2>3. cloned'[k] = cloned[k] + j - i /\ cloned[k] \in Nat
      <3>1. CASE k = "items"
        BY <1>7, <2>2, <3>1 DEF Offered, Units, Shape, CountsOK
      <3>2. CASE k = "money"
        BY <1>7, <2>2, <3>2 DEF Offered, Units, Shape, CountsOK
      <3> QED
        BY <3>1, <3>2 DEF Kinds
    <2>4. j - i \in Nat /\ j = i + (j - i) /\ cloned'[k] = cloned[k] + (j - i)
      BY <2>2, <2>3
    <2> QED
      BY <2>2, <2>4
  <1>17. CountsOK'
    <2>1. ASSUME NEW k \in Kinds PROVE cloned'[k] \in Nat
      <3>1. PICK e \in Nat : cloned'[k] = cloned[k] + e
        BY <1>16
      <3>2. cloned[k] \in Nat
        BY DEF Shape, CountsOK, Kinds
      <3> QED
        BY <3>1, <3>2
    <2>2. cloned'["items"] \in Nat /\ cloned'["money"] \in Nat
      BY <2>1 DEF Kinds
    <2>3. cloned' \in [items : Nat, money : Nat]
      BY <1>7, <2>2
    <2> QED
      BY <1>1, <1>2, <1>11, <2>3 DEF Shape, CountsOK, Losing
  <1>18. Shape'
    BY <1>12, <1>13, <1>14, <1>15, <1>17 DEF Shape
  <1>19. ASSUME NEW k \in Kinds
         PROVE  \E e \in Nat : /\ cloned'[k] = cloned[k] + e
                              /\ Total(k)' + Units(k, L, 0) = Total(k) + e /\ Top(k)' <= Top(k) + e
    <2>1. PICK e \in Nat : cloned'[k] = cloned[k] + e /\ Offered(k, R) = Offered(k, G) + e
      BY <1>16
    <2>2. PICK i \in Nat, j \in Nat : i = Offered(k, G) /\ j = Offered(k, R) /\ j = i + e
      BY <1>8, <2>1, OfferedIsSum
    <2>3. PICK h \in Nat, m \in Nat, h1 \in Nat, m1 \in Nat :
            h = SumFunction(Held(k)) /\ m = SumFunction(Most(k)) /\ h1 = SumFunction(Held(k)') /\ m1 = SumFunction(Most(k)')
      BY <1>12, HeldNat, HeldNatNext DEF Shape
    <2>4. PICK o \in Nat, o1 \in Nat : o = Offered(k, offers) /\ o1 = Offered(k, offers')
      <3>1. Offered(k, offers) \in Nat
        BY OfferedNat DEF Shape
      <3>2. Offered(k, offers') \in Nat
        BY <1>13, OfferedIsSum DEF OffersOK, Table
      <3> QED
        BY <3>1, <3>2
    <2>5. PICK v \in Nat, w \in Nat, w1 \in Nat :
            /\ v = Vault(k) /\ Vault(k)' = v
            /\ w = Larger(Vault(k), Saved(k)) /\ w1 = Larger(Vault(k), Saved(k))' /\ w1 <= w
      <3>1. house' = house
        BY <1>2
      <3> QED
        BY <1>14, <3>1, VaultKept DEF Shape
    <2>6. PICK l \in Nat : l = Units(k, L, 0)
      BY DEF Units
    <2>7. h1 + l = h + j /\ m1 + l <= m + j /\ o1 + i = o
      <3>1. /\ SumFunction(Held(k)') + l = SumFunction(Held(k)) + Offered(k, R)
            /\ SumFunction(Most(k)') + l <= SumFunction(Most(k)) + Offered(k, R)
            /\ Offered(k, offers') + Offered(k, G) = Offered(k, offers)
        BY <1>12, <1>13, <2>6
      <3> QED
        BY <2>2, <2>3, <2>4, <3>1
    <2>8. Total(k) = h + o + v /\ Total(k)' = h1 + o1 + v /\ Top(k) = m + o + w /\ Top(k)' = m1 + o1 + w1
      BY <2>3, <2>4, <2>5 DEF Total, Top
    <2>9. h1 + o1 + v + l = h + o + v + e /\ m1 + o1 + w1 <= m + o + w + e
      <3>1. j = i + e /\ w1 <= w
        BY <2>2, <2>5
      <3>2. h1 + l = h + (i + e) /\ m1 + l <= m + (i + e) /\ o = o1 + i
        BY <2>7, <3>1
      <3>3. h1 + o1 + v + l = h + (o1 + i) + v + e
        BY <3>2
      <3>4. m1 + o1 + w1 <= m + (o1 + i) + w + e
        BY <3>1, <3>2
      <3> QED
        BY <3>2, <3>3, <3>4
    <2>10. Total(k)' + l = Total(k) + e /\ Top(k)' <= Top(k) + e
      BY <2>8, <2>9
    <2> QED
      BY <2>1, <2>6, <2>10
  <1>20. refused'.lost = refused.lost + L
    BY <1>11 DEF Losing
  <1> QED
    BY <1>1, <1>2, <1>18, <1>19, <1>20

\* A step that leaves players, offers and guild alone.
LEMMA StillKeeps ==
  ASSUME Shape, OffersOK', UNCHANGED <<status, memory, row, offers, nextId, crashes, cloned, refused>>, SameGuild, RestSame
  PROVE  Shape' /\ Lossless
  <1>1. RecordsOK' /\ \A k \in Kinds : Shift(k, 0, 0)
    <2>1. UNCHANGED <<status, memory, row>>
      OBVIOUS
    <2> QED
      BY <2>1, RecordsSame DEF Shape
  <1>2. GuildOK' /\ GuildKept
    <2>1. scope' = scope /\ \A p \in Players : status[p] = "offline" => status'[p] = "offline"
      BY DEF RestSame
    <2> QED
      BY <2>1, GuildSame DEF Shape
  <1>3. PICK z : z = [k \in Kinds |-> 0]
    OBVIOUS
  <1>4. \A k \in Kinds : /\ z[k] \in Nat
                         /\ Shift(k, z[k], z[k])
                         /\ Offered(k, offers') + z[k] = Offered(k, offers) + z[k]
                         /\ z[k] + z[k] = z[k] + z[k]
    <2>1. \A k \in Kinds : z[k] = 0
      BY <1>3
    <2> QED
      BY <1>1, <2>1
  <1>5. UNCHANGED <<nextId, crashes, cloned, refused>>
    OBVIOUS
  <1> QED
    BY <1>1, <1>2, <1>4, <1>5, SettleKeeps

LEMMA CheckKeeps ==
  ASSUME Shape, CheckOffers
  PROVE  /\ Shape' /\ UNCHANGED <<crashes, cloned, refused, unsaved, unmade, nextId>> /\ Lossless
  <1>1. /\ QueryExpired /\ SameGuild /\ RestSame
        /\ UNCHANGED <<status, memory, row, offers, nextId, crashes, cloned, refused>>
        /\ UNCHANGED <<unsaved, unmade>>
    BY DEF CheckOffers, QueryExpired, RestSame
  <1>2. OffersOK'
    BY <1>1, QueryKeeps DEF Shape
  <1>3. Shape' /\ Lossless
    BY <1>1, <1>2, StillKeeps
  <1> QED
    BY <1>1, <1>3

\* Nothing happens.
LEMMA StutterKeeps ==
  ASSUME Shape, UNCHANGED allVars
  PROVE  /\ Shape' /\ UNCHANGED <<crashes, cloned, refused, unsaved, unmade, nextId>> /\ Lossless
  <1>1. /\ UNCHANGED <<status, memory, row, offers, nextId, crashes, cloned, refused>> /\ UNCHANGED <<unsaved, unmade>>
        /\ SameGuild /\ RestSame /\ UNCHANGED <<offers, nextId, old, results>>
    BY DEF allVars, vars, bankVars, SameGuild, RestSame
  <1>2. OffersOK'
    BY <1>1, OffersSame DEF Shape
  <1>3. Shape' /\ Lossless
    BY <1>1, <1>2, StillKeeps
  <1> QED
    BY <1>1, <1>3

-----------------------------------------------------------------------------
(* The inductive invariant.                                                *)

Start(k) ==
  Units(k, SumFunction([p \in Players |-> ItemsOf(Wealth[p]) + HouseItems[p]]),
           SumFunction([p \in Players |-> Wealth[p].money]) + Treasury)

\* There is no more than at the start, but for what was cloned and what a crash
\* has unmade; and after a crash now, no more than what was moved since the save.
Bounded(k) ==
  /\ Total(k) <= Start(k) + cloned[k] + unmade[k]
  /\ Top(k) <= Start(k) + cloned[k] + unmade[k] + unsaved[k]

IInv == Shape /\ \A k \in Kinds : Bounded(k)

\* What a step may do to the bounds.
Gains(k, e, u) ==
  /\ Total(k)' <= Total(k) + e /\ Top(k)' <= Top(k) + e + u
  /\ cloned'[k] = cloned[k] + e /\ unsaved'[k] = unsaved[k] + u /\ unmade'[k] = unmade[k]

Saves(k) ==
  /\ Total(k)' <= Total(k) /\ Top(k)' <= Total(k)
  /\ cloned'[k] = cloned[k] /\ unsaved'[k] = 0 /\ unmade'[k] = unmade[k]

Unmakes(k) ==
  /\ Total(k)' <= Top(k) /\ Top(k)' <= Top(k)
  /\ cloned'[k] = cloned[k] /\ unsaved'[k] = 0 /\ unmade'[k] = unmade[k] + unsaved[k]

Steps(k) == Saves(k) \/ Unmakes(k) \/ \E e, u \in Nat : Gains(k, e, u)

\* What a step may lose.
Kept ==
  /\ Items' + refused'.lost >= Items + refused.lost
  /\ \E fee \in Fees \union {0} : Money' >= Money - fee /\ (nextId' = nextId => fee = 0)

LEMMA StartNat == ASSUME NEW k \in Kinds PROVE Start(k) \in Nat
  <1>1. [p \in Players |-> ItemsOf(Wealth[p]) + HouseItems[p]] \in [Players -> Nat]
    BY MarketAssumption, BankAssumption DEF Record, ItemsOf
  <1>2. [p \in Players |-> Wealth[p].money] \in [Players -> Nat]
    BY MarketAssumption DEF Record
  <1>3. /\ SumFunction([p \in Players |-> ItemsOf(Wealth[p]) + HouseItems[p]]) \in Nat
        /\ SumFunction([p \in Players |-> Wealth[p].money]) \in Nat
    BY <1>1, <1>2, MarketAssumption, SumNat
  <1> QED
    BY <1>3, BankAssumption DEF Start, Units

LEMMA CountsNat ==
  ASSUME Shape, NEW k \in Kinds PROVE cloned[k] \in Nat /\ unsaved[k] \in Nat /\ unmade[k] \in Nat
  BY BankAssumption DEF Shape, CountsOK, Kinds

LEMMA StepsKeep ==
  ASSUME Shape, Shape', NEW k \in Kinds, Bounded(k), Steps(k)
  PROVE  Bounded(k)'
  <1>1. PICK s \in Nat, c \in Nat, v \in Nat, m \in Nat : s = Start(k) /\ c = cloned[k] /\ v = unsaved[k] /\ m = unmade[k]
    BY StartNat, CountsNat
  <1>2. PICK t \in Nat, p \in Nat : t = Total(k) /\ p = Top(k)
    BY TotalNat
  <1>3. PICK t1 \in Nat, p1 \in Nat : t1 = Total(k)' /\ p1 = Top(k)'
    BY TotalNatNext
  <1>4. t <= s + c + m /\ p <= s + c + m + v
    BY <1>1, <1>2 DEF Bounded
  <1>5. CASE Saves(k)
    <2>1. t1 <= t /\ p1 <= t /\ cloned'[k] = c /\ unsaved'[k] = 0 /\ unmade'[k] = m
      BY <1>1, <1>2, <1>3, <1>5 DEF Saves
    <2>2. t1 <= s + c + m /\ p1 <= s + c + m + 0
      BY <1>4, <2>1
    <2> QED
      BY <1>1, <1>3, <2>1, <2>2 DEF Bounded
  <1>6. CASE Unmakes(k)
    <2>1. t1 <= p /\ p1 <= p /\ cloned'[k] = c /\ unsaved'[k] = 0 /\ unmade'[k] = m + v
      BY <1>1, <1>2, <1>3, <1>6 DEF Unmakes
    <2>2. t1 <= s + c + (m + v) /\ p1 <= s + c + (m + v) + 0
      BY <1>4, <2>1
    <2> QED
      BY <1>1, <1>3, <2>1, <2>2 DEF Bounded
  <1>7. CASE \E e, u \in Nat : Gains(k, e, u)
    <2>1. PICK e \in Nat, u \in Nat :
            t1 <= t + e /\ p1 <= p + e + u /\ cloned'[k] = c + e /\ unsaved'[k] = v + u /\ unmade'[k] = m
      BY <1>1, <1>2, <1>3, <1>7 DEF Gains
    <2>2. t1 <= s + (c + e) + m /\ p1 <= s + (c + e) + m + (v + u)
      BY <1>4, <2>1
    <2> QED
      BY <1>1, <1>3, <2>1, <2>2 DEF Bounded
  <1> QED
    BY <1>5, <1>6, <1>7 DEF Steps

\* A step that gains nothing, and that moves nothing past the save of the server.
LEMMA FallsSteps ==
  ASSUME Shape, NEW k \in Kinds, Falls(k), UNCHANGED <<cloned, unsaved, unmade>>
  PROVE  Steps(k)
  <1>1. PICK t \in Nat, p \in Nat, z \in Nat : t = Total(k) /\ p = Top(k) /\ z = 0
    BY TotalNat
  <1>2. PICK c \in Nat, v \in Nat : c = cloned[k] /\ v = unsaved[k]
    BY CountsNat
  <1>3. /\ Total(k)' <= t + z /\ Top(k)' <= p + z + z
        /\ cloned'[k] = c + z /\ unsaved'[k] = v + z /\ unmade'[k] = unmade[k]
    BY <1>1, <1>2 DEF Falls
  <1>4. Gains(k, z, z)
    BY <1>1, <1>2, <1>3 DEF Gains
  <1> QED
    BY <1>4 DEF Steps

LEMMA TotalsAre ==
  /\ Items = Total("items") /\ Money = Total("money")
  /\ Items' = Total("items")' /\ Money' = Total("money")'
  <1>1. Items = Total("items") /\ Items' = Total("items")'
    <2>1. Held("items") = [p \in Players |-> ItemsOf(Found(p))]
      BY DEF Held, Val, Units
    <2>2. Offered("items", offers) = ItemsOffered(offers) /\ Vault("items") = SumFunction(house.items)
      BY DEF Offered, Vault, Units
    <2>3. Held("items")' = [p \in Players |-> ItemsOf(Found(p))]'
      BY DEF Held, Val, Units
    <2>4. Offered("items", offers)' = ItemsOffered(offers)' /\ Vault("items")' = SumFunction(house.items)'
      BY DEF Offered, Vault, Units
    <2> QED
      BY <2>1, <2>2, <2>3, <2>4 DEF Items, AllItems, Total
  <1>2. Money = Total("money") /\ Money' = Total("money")'
    <2>1. Held("money") = [p \in Players |-> Found(p).money]
      BY DEF Held, Val, Units
    <2>2. Offered("money", offers) = MoneyOffered(offers) /\ Vault("money") = GuildBalance
      BY DEF Offered, Vault, Units
    <2>3. Held("money")' = [p \in Players |-> Found(p).money]'
      BY DEF Held, Val, Units
    <2>4. Offered("money", offers)' = MoneyOffered(offers)' /\ Vault("money")' = GuildBalance'
      BY DEF Offered, Vault, Units
    <2> QED
      BY <2>1, <2>2, <2>3, <2>4 DEF Money, AllMoney, Total
  <1> QED
    BY <1>1, <1>2

LEMMA EqualKept ==
  ASSUME Shape, Shape', Total("items")' = Total("items"), Total("money")' = Total("money"), Losing(0)
  PROVE  Kept
  <1>1. PICK i \in Nat, m \in Nat : i = Total("items") /\ m = Total("money")
    BY KindsAre, TotalNat
  <1>2. Items' = i /\ Items = i /\ Money' = m /\ Money = m
    BY <1>1, TotalsAre
  <1>3. PICK l \in Nat : refused.lost = l /\ refused'.lost = l
    BY DEF Losing, Shape, CountsOK
  <1>4. i + l >= i + l /\ m >= m - 0
    OBVIOUS
  <1> QED
    BY <1>2, <1>3, <1>4 DEF Kept

LEMMA LosslessKept ==
  ASSUME Shape, Shape', Lossless
  PROVE  Kept /\ \A k \in Kinds : Falls(k)
  <1>1. PICK fee \in Fees \union {0}, lost \in Nat :
          /\ (nextId' = nextId => fee = 0) /\ Even("items", lost) /\ Even("money", fee)
          /\ refused'.lost = refused.lost + lost
    BY DEF Lossless
  <1>2. fee \in Nat
    BY MarketAssumption
  <1>3. \A k \in Kinds : Falls(k)
    <2>2. Falls("items")
      BY <1>1, KindsAre, EvenFalls
    <2>3. Falls("money")
      BY <1>1, <1>2, KindsAre, EvenFalls
    <2> QED
      BY <2>2, <2>3 DEF Kinds
  <1>4. Kept
    <2>1. PICK i \in Nat, m \in Nat : i = Total("items") /\ m = Total("money")
      BY KindsAre, TotalNat
    <2>2. PICK i1 \in Nat, m1 \in Nat : i1 = Total("items")' /\ m1 = Total("money")'
      BY KindsAre, TotalNatNext
    <2>3. i1 + lost = i /\ m1 + fee = m
      BY <1>1, <2>1, <2>2 DEF Even
    <2>4. /\ Items' = i1 /\ Items = i /\ Money' = m1 /\ Money = m
          /\ refused.lost \in Nat
      BY <2>1, <2>2, TotalsAre DEF Shape, CountsOK
    <2>5. i1 + (refused.lost + lost) >= i + refused.lost /\ m1 >= m - fee
      BY <1>2, <2>3, <2>4
    <2> QED
      BY <1>1, <2>4, <2>5 DEF Kept
  <1> QED
    BY <1>3, <1>4

\* A step that keeps the invariant, and loses nothing but as it says.
Good == Shape' /\ (\A k \in Kinds : Steps(k)) /\ (Loses \/ Kept)

LEMMA LosslessGood ==
  ASSUME Shape, Shape', Lossless, UNCHANGED <<cloned, unsaved, unmade>> PROVE Good
  <1>1. Kept /\ \A k \in Kinds : Falls(k)
    BY LosslessKept
  <1>2. \A k \in Kinds : Steps(k)
    BY <1>1, FallsSteps
  <1> QED
    BY <1>1, <1>2 DEF Good

LEMMA MarketGood ==
  ASSUME Shape, MarketStep, RestSame PROVE Good
  <1>1. Shape' /\ UNCHANGED <<cloned, unsaved, unmade>>
    BY MarketKeeps DEF RestSame
  <1>2. CASE Lossless
    BY <1>1, <1>2, LosslessGood
  <1>3. ASSUME NEW p \in Players, Fails(p) PROVE Good
    <2>1. Falls("items") /\ Falls("money")
      <3>1. 0 \in Nat
        OBVIOUS
      <3> QED
        BY <1>1, <1>3, <3>1, KindsAre, EvenFalls DEF Fails
    <2>2. \A k \in Kinds : Steps(k)
      BY <1>1, <2>1, FallsSteps DEF Kinds
    <2>3. Money' = Money
      <3>1. PICK m \in Nat, m1 \in Nat : m = Total("money") /\ m1 = Total("money")'
        BY <1>1, KindsAre, TotalNat, TotalNatNext
      <3>2. m1 + 0 = m
        BY <1>3, <3>1 DEF Fails, Even
      <3> QED
        BY <3>1, <3>2, TotalsAre
    <2>4. Loses
      <3>1. Online(p) /\ UNCHANGED <<status, row, offers, house>> /\ ItemsOf(memory'[p]) = 0 /\ Money' = Money
        BY <1>3, <2>3 DEF Fails
      <3> QED
        BY <3>1 DEF Loses
    <2> QED
      BY <1>1, <2>2, <2>4 DEF Good
  <1> QED
    BY <1>2, <1>3, MarketKeeps

LEMMA PlayerGood ==
  ASSUME Shape, PlayerStep, RestSame PROVE Good
  <1>1. Shape' /\ UNCHANGED <<cloned, unsaved, unmade>>
    BY PlayerKeeps DEF RestSame
  <1>2. CASE Lossless
    BY <1>1, <1>2, LosslessGood
  <1>3. ASSUME NEW p \in Players, Returns(p) PROVE Good
    <2>1. \A k \in Kinds : Falls(k)
      BY <1>3 DEF Returns
    <2>2. \A k \in Kinds : Steps(k)
      BY <1>1, <2>1, FallsSteps
    <2>3. Loses
      <3>1. status[p] = "dead" /\ Online(p)' /\ memory[p] # row[p]
        BY <1>3 DEF Returns
      <3> QED
        BY <3>1 DEF Loses
    <2> QED
      BY <1>1, <2>2, <2>3 DEF Good
  <1> QED
    BY <1>2, <1>3, PlayerKeeps

LEMMA SaveGood ==
  ASSUME Shape, SaveAll PROVE Good
  <1>1. /\ Shape' /\ UNCHANGED <<cloned, refused, unmade>>
        /\ \A k \in Kinds : Total(k)' = Total(k) /\ Top(k)' = Total(k) /\ unsaved'[k] = 0
    BY SaveAllKeeps
  <1>2. ASSUME NEW k \in Kinds PROVE Steps(k)
    <2>1. Total(k) \in Nat
      BY TotalNat
    <2>2. Saves(k)
      BY <1>1, <2>1 DEF Saves
    <2> QED
      BY <2>2 DEF Steps
  <1>3. Losing(0)
    BY <1>1, SameLoses DEF Shape
  <1>4. Kept
    BY <1>1, <1>3, KindsAre, EqualKept
  <1> QED
    BY <1>1, <1>2, <1>4 DEF Good

LEMMA CrashGood ==
  ASSUME Shape, CrashAll PROVE Good
  <1>1. /\ Shape' /\ UNCHANGED cloned /\ crashes' # crashes
        /\ \A k \in Kinds : /\ Total(k)' <= Top(k) /\ Top(k)' <= Top(k)
                            /\ unsaved'[k] = 0 /\ unmade'[k] = unmade[k] + unsaved[k]
    BY CrashKeeps
  <1>2. \A k \in Kinds : Steps(k)
    BY <1>1 DEF Steps, Unmakes
  <1>3. Loses
    BY <1>1 DEF Loses
  <1> QED
    BY <1>1, <1>2, <1>3 DEF Good

LEMMA ReturnGood ==
  ASSUME Shape, ReturnOffers PROVE Good
  <1>1. Shape' /\ UNCHANGED <<unsaved, unmade, nextId>>
    BY ReturnKeeps
  <1>2. PICK lost \in Nat :
          /\ refused'.lost = refused.lost + lost
          /\ \A k \in Kinds : \E e \in Nat : /\ cloned'[k] = cloned[k] + e
                                             /\ Total(k)' + Units(k, lost, 0) = Total(k) + e
                                             /\ Top(k)' <= Top(k) + e
    BY ReturnKeeps
  <1>3. ASSUME NEW k \in Kinds PROVE Steps(k) /\ Total(k)' + Units(k, lost, 0) >= Total(k)
    <2>1. PICK e \in Nat : /\ cloned'[k] = cloned[k] + e
                           /\ Total(k)' + Units(k, lost, 0) = Total(k) + e /\ Top(k)' <= Top(k) + e
      BY <1>2
    <2>2. PICK t \in Nat, p \in Nat, z \in Nat, v \in Nat : t = Total(k) /\ p = Top(k) /\ z = 0 /\ v = unsaved[k]
      BY TotalNat, CountsNat
    <2>3. PICK t1 \in Nat, p1 \in Nat, l \in Nat : t1 = Total(k)' /\ p1 = Top(k)' /\ l = Units(k, lost, 0)
      BY <1>1, TotalNatNext DEF Units
    <2>4. t1 + l = t + e /\ p1 <= p + e
      BY <2>1, <2>2, <2>3
    <2>5. t1 <= t + e /\ p1 <= p + e + z /\ v = v + z /\ t1 + l >= t
      BY <2>2, <2>4
    <2>6. Gains(k, e, z)
      BY <1>1, <2>1, <2>2, <2>3, <2>5 DEF Gains
    <2> QED
      BY <2>2, <2>3, <2>5, <2>6 DEF Steps
  <1>4. Kept
    <2>1. PICK i \in Nat, m \in Nat : i = Total("items") /\ m = Total("money")
      BY KindsAre, TotalNat
    <2>2. PICK i1 \in Nat, m1 \in Nat : i1 = Total("items")' /\ m1 = Total("money")'
      BY <1>1, KindsAre, TotalNatNext
    <2>3. Units("items", lost, 0) = lost /\ Units("money", lost, 0) = 0
      BY DEF Units
    <2>4. i1 + lost >= i /\ m1 + 0 >= m
      BY <1>3, <2>1, <2>2, <2>3, KindsAre
    <2>5. PICK l \in Nat : l = refused.lost /\ refused'.lost = l + lost
      BY <1>2 DEF Shape, CountsOK
    <2>6. i1 + (l + lost) >= i + l /\ m1 >= m - 0
      BY <2>4
    <2>7. Items' = i1 /\ Items = i /\ Money' = m1 /\ Money = m
      BY <2>1, <2>2, TotalsAre
    <2> QED
      BY <2>5, <2>6, <2>7 DEF Kept
  <1> QED
    BY <1>1, <1>3, <1>4 DEF Good

\* Something is moved that the server's save does not know of yet.
LEMMA MovedSteps ==
  ASSUME Shape, NEW k \in Kinds, NEW u \in Nat, Total(k)' <= Total(k), Top(k)' <= Top(k) + u,
         unsaved'[k] = unsaved[k] + u, UNCHANGED <<cloned, unmade>>
  PROVE  Steps(k)
  <1>1. PICK t \in Nat, p \in Nat, z \in Nat, c \in Nat : t = Total(k) /\ p = Top(k) /\ z = 0 /\ c = cloned[k]
    BY TotalNat, CountsNat
  <1>2. Total(k)' <= t + z /\ Top(k)' <= p + z + u /\ cloned'[k] = c + z
    BY <1>1
  <1>3. Gains(k, z, u)
    BY <1>1, <1>2 DEF Gains
  <1> QED
    BY <1>3 DEF Steps

LEMMA EvictGood ==
  ASSUME Shape, Evict, UNCHANGED scope PROVE Good
  <1>1. PICK s : Evicts(s)
    BY EvictSends
  <1>2. PICK u \in Nat : u = SumFunction(Sent(s))
    BY <1>1, EvictKeeps
  <1>3. /\ Shape' /\ UNCHANGED <<cloned, unmade>> /\ Losing(0)
        /\ \A k \in Kinds : /\ Total(k)' <= Total(k) /\ Top(k)' <= Top(k) + Units(k, u, 0)
                            /\ unsaved'[k] = unsaved[k] + Units(k, u, 0)
        /\ Total("money")' = Total("money")
        /\ (\A q \in Players : ~(house.items[q] > house'.items[q] + 1 /\ q # HouseOwner /\ ~Online(q)))
             => Total("items")' = Total("items")
    BY <1>1, <1>2, EvictKeeps DEF Evicts
  <1>4. ASSUME NEW k \in Kinds PROVE Steps(k)
    <2>1. Units(k, u, 0) \in Nat
      BY DEF Units
    <2> QED
      BY <1>3, <2>1, MovedSteps
  <1>5. CASE \E q \in Players : house.items[q] > house'.items[q] + 1 /\ q # HouseOwner /\ ~Online(q)
    <2>1. Loses
      BY <1>5 DEF Loses
    <2> QED
      BY <1>3, <1>4, <2>1 DEF Good
  <1>6. CASE \A q \in Players : ~(house.items[q] > house'.items[q] + 1 /\ q # HouseOwner /\ ~Online(q))
    <2>1. Kept
      BY <1>3, <1>6, EqualKept
    <2> QED
      BY <1>3, <1>4, <2>1 DEF Good
  <1> QED
    BY <1>5, <1>6

\* The seller was paid and the offer stays; what the buyer's inbox took of the items
\* is not saved on the seller's side.
LEMMA RefusedBuyGood ==
  ASSUME Shape, NEW p \in Players, NEW n \in Amounts, NEW o \in offers, NEW m \in {0} \union Amounts,
         AcceptBuyFull(p, o, n, m), unsaved' = [unsaved EXCEPT !.items = @ + m],
         LoadsCopies({o.player}), UNCHANGED <<scope, house, unmade>>
  PROVE  Good
  <1>1. /\ Online(p) /\ o.player # p /\ Has(memory[p], n) /\ m < n /\ Refuses(n - m)
        /\ HalfAs(p, Earns(Gives(memory[p], n), o.price * n), o.player, Receives(Found(o.player), m))
        /\ cloned' = [cloned EXCEPT !.money = @ + o.price * n]
        /\ UNCHANGED <<status, offers, nextId, old, results, crashes>>
    BY DEF AcceptBuyFull, Acceptable
  <1>2. n \in Nat /\ m \in Nat /\ o \in OfferType
    BY MarketAssumption DEF Shape, OffersOK, Table
  <1>3. PICK q \in Players, x \in Nat : q = o.player /\ x = o.price * n
    <2>1. o.price \in Nat /\ o.player \in Players
      BY <1>2, MarketAssumption DEF OfferType
    <2>2. o.price * n \in Nat
      BY <1>2, <2>1
    <2> QED
      BY <2>1, <2>2
  <1>4. PICK b \in Record, f \in Record : b = memory[p] /\ f = Found(q)
    BY DEF Shape, RecordsOK, Found
  <1>5. ItemsOf(b) \in Nat /\ b.money \in Nat /\ ItemsOf(f) \in Nat /\ f.money \in Nat /\ n <= ItemsOf(b)
    BY <1>1, <1>2, <1>4 DEF Record, ItemsOf, Has
  <1>6. PICK g \in Record : g = Gives(b, n) /\ g.money = b.money /\ ItemsOf(g) = ItemsOf(b) - n
    BY <1>1, <1>2, <1>4, GivesTakes
  <1>7. PICK r \in Record : r = Earns(g, x) /\ ItemsOf(r) = ItemsOf(b) - n /\ r.money = b.money + x
    BY <1>6, EarnsGets
  <1>8. PICK s \in Record : s = Receives(f, m) /\ ItemsOf(s) = ItemsOf(f) + m /\ s.money = f.money
    BY <1>2, ReceivesGets
  <1>9. HalfAs(p, r, o.player, s)
    BY <1>1, <1>3, <1>4, <1>6, <1>7, <1>8
  <1>10. /\ Val("items", b) = ItemsOf(b) /\ Val("items", r) = ItemsOf(b) - n
         /\ Val("items", f) = ItemsOf(f) /\ Val("items", s) = ItemsOf(f) + m
         /\ Val("money", b) = b.money /\ Val("money", r) = b.money + x
         /\ Val("money", f) = f.money /\ Val("money", s) = f.money
    BY <1>7, <1>8 DEF Val, Units
  <1>11. \A k \in Kinds : Val(k, Found(o.player)) <= Val(k, s)
    BY <1>2, <1>3, <1>4, <1>5, <1>10 DEF Kinds
  <1>12. PICK l \in Nat : l = n - m /\ Losing(l)
    <2>1. n - m \in Nat
      BY <1>1, <1>2
    <2> QED
      BY <1>1, <2>1, RefusesLoses DEF Shape
  <1>13. /\ cloned' = [cloned EXCEPT !.money = @ + x]
         /\ cloned \in [items : Nat, money : Nat] /\ unsaved \in [money : Nat, items : Nat]
    BY <1>1, <1>3 DEF Shape, CountsOK
  <1>14. CountsOK'
    BY <1>1, <1>2, <1>12, <1>13 DEF Shape, CountsOK, Losing
  <1>15. /\ Shape'
         /\ \A k \in Kinds, e, u \in Nat :
              Val(k, r) <= Val(k, b) + e /\ Val(k, s) = Val(k, f) + u
              => Total(k)' + Val(k, b) = Total(k) + (Val(k, r) + u) /\ Top(k)' <= Top(k) + (e + u)
    BY <1>1, <1>3, <1>4, <1>9, <1>11, <1>14, RefusedKeeps
  <1>16. PICK i \in Nat, i1 \in Nat, t \in Nat, t1 \in Nat :
           i = Total("items") /\ i1 = Total("items")' /\ t = Top("items") /\ t1 = Top("items")'
    BY <1>15, KindsAre, TotalNat, TotalNatNext
  <1>17. PICK y \in Nat, y1 \in Nat, w \in Nat, w1 \in Nat :
           y = Total("money") /\ y1 = Total("money")' /\ w = Top("money") /\ w1 = Top("money")'
    BY <1>15, KindsAre, TotalNat, TotalNatNext
  <1>18. i1 + l = i /\ t1 <= t + m
    <2>1. PICK z \in Nat : z = 0
      OBVIOUS
    <2>2. Val("items", r) <= Val("items", b) + z /\ Val("items", s) = Val("items", f) + m
      BY <1>2, <1>5, <1>10, <2>1
    <2>3. i1 + ItemsOf(b) = i + (ItemsOf(b) - n + m) /\ t1 <= t + (z + m)
      BY <1>2, <1>10, <1>15, <1>16, <2>2, KindsAre
    <2> QED
      BY <1>2, <1>5, <1>12, <2>1, <2>3
  <1>19. y1 = y + x /\ w1 <= w + x
    <2>1. PICK z \in Nat : z = 0
      OBVIOUS
    <2>2. Val("money", r) <= Val("money", b) + x /\ Val("money", s) = Val("money", f) + z
      BY <1>5, <1>10, <2>1
    <2>3. y1 + b.money = y + (b.money + x + z) /\ w1 <= w + (x + z)
      BY <1>10, <1>15, <1>17, <2>2, KindsAre
    <2> QED
      BY <1>5, <2>1, <2>3
  <1>20. Gains("items", 0, m) /\ Gains("money", x, 0)
    <2>1. /\ cloned'["items"] = cloned["items"] + 0 /\ cloned'["money"] = cloned["money"] + x
          /\ unsaved'["items"] = unsaved["items"] + m /\ unsaved'["money"] = unsaved["money"] + 0
      BY <1>2, <1>13
    <2>2. i1 <= i + 0 /\ t1 <= t + 0 + m /\ y1 <= y + x /\ w1 <= w + x + 0
      BY <1>2, <1>18, <1>19
    <2> QED
      BY <1>16, <1>17, <2>1, <2>2 DEF Gains
  <1>21. \A k \in Kinds : Steps(k)
    <2>1. 0 \in Nat
      OBVIOUS
    <2> QED
      BY <1>2, <1>20, <2>1 DEF Kinds, Steps
  <1>22. Kept
    <2>1. PICK c \in Nat : c = refused.lost /\ refused'.lost = c + l
      BY <1>12 DEF Losing, Shape, CountsOK
    <2>2. i1 + (c + l) >= i + c /\ y1 >= y - 0
      BY <1>18, <1>19
    <2>3. Items' = i1 /\ Items = i /\ Money' = y1 /\ Money = y
      BY <1>16, <1>17, TotalsAre
    <2> QED
      BY <2>1, <2>2, <2>3 DEF Kept
  <1> QED
    BY <1>15, <1>21, <1>22 DEF Good

\* The buyer has the items its inbox took, and the offer stays; the seller's money is
\* not saved on the buyer's side.
LEMMA RefusedSellGood ==
  ASSUME Shape, NEW p \in Players, NEW n \in Amounts, NEW o \in offers, NEW m \in {0} \union Amounts,
         AcceptSellFull(p, o, n, m), unsaved' = [unsaved EXCEPT !.money = @ + o.price * n],
         LoadsCopies({o.player}), UNCHANGED <<scope, house, unmade>>
  PROVE  Good
  <1>1. /\ Online(p) /\ o.player # p /\ o.price * n <= memory[p].money /\ m < n /\ Refuses(0)
        /\ HalfAs(p, Receives(Pays(memory[p], o.price * n), m), o.player, Earns(Found(o.player), o.price * n))
        /\ cloned' = [cloned EXCEPT !.items = @ + m]
        /\ UNCHANGED <<status, offers, nextId, old, results, crashes>>
    BY DEF AcceptSellFull, Acceptable
  <1>2. n \in Nat /\ m \in Nat /\ o \in OfferType
    BY MarketAssumption DEF Shape, OffersOK, Table
  <1>3. PICK q \in Players, x \in Nat : q = o.player /\ x = o.price * n
    <2>1. o.price \in Nat /\ o.player \in Players
      BY <1>2, MarketAssumption DEF OfferType
    <2>2. o.price * n \in Nat
      BY <1>2, <2>1
    <2> QED
      BY <2>1, <2>2
  <1>4. PICK b \in Record, f \in Record : b = memory[p] /\ f = Found(q)
    BY DEF Shape, RecordsOK, Found
  <1>5. ItemsOf(b) \in Nat /\ b.money \in Nat /\ ItemsOf(f) \in Nat /\ f.money \in Nat /\ x <= b.money
    BY <1>1, <1>3, <1>4 DEF Record, ItemsOf
  <1>6. PICK g \in Record : g = Pays(b, x) /\ g.money = b.money - x /\ ItemsOf(g) = ItemsOf(b)
    BY <1>5, PaysGives
  <1>7. PICK r \in Record : r = Receives(g, m) /\ ItemsOf(r) = ItemsOf(b) + m /\ r.money = b.money - x
    <2>1. Receives(g, m) \in Record /\ ItemsOf(Receives(g, m)) = ItemsOf(g) + m /\ Receives(g, m).money = g.money
      BY <1>2, ReceivesGets
    <2> QED
      BY <1>6, <2>1
  <1>8. PICK s \in Record : s = Earns(f, x) /\ ItemsOf(s) = ItemsOf(f) /\ s.money = f.money + x
    BY EarnsGets
  <1>9. HalfAs(p, r, o.player, s)
    BY <1>1, <1>3, <1>4, <1>6, <1>7, <1>8
  <1>10. /\ Val("items", b) = ItemsOf(b) /\ Val("items", r) = ItemsOf(b) + m
         /\ Val("items", f) = ItemsOf(f) /\ Val("items", s) = ItemsOf(f)
         /\ Val("money", b) = b.money /\ Val("money", r) = b.money - x
         /\ Val("money", f) = f.money /\ Val("money", s) = f.money + x
    BY <1>7, <1>8 DEF Val, Units
  <1>11. \A k \in Kinds : Val(k, Found(o.player)) <= Val(k, s)
    BY <1>3, <1>4, <1>5, <1>10 DEF Kinds
  <1>12. Losing(0)
    BY <1>1, RefusesLoses DEF Shape
  <1>13. /\ unsaved' = [unsaved EXCEPT !.money = @ + x]
         /\ cloned \in [items : Nat, money : Nat] /\ unsaved \in [money : Nat, items : Nat]
    BY <1>3 DEF Shape, CountsOK
  <1>14. CountsOK'
    BY <1>1, <1>2, <1>12, <1>13 DEF Shape, CountsOK, Losing
  <1>15. /\ Shape'
         /\ \A k \in Kinds, e, u \in Nat :
              Val(k, r) <= Val(k, b) + e /\ Val(k, s) = Val(k, f) + u
              => Total(k)' + Val(k, b) = Total(k) + (Val(k, r) + u) /\ Top(k)' <= Top(k) + (e + u)
    BY <1>1, <1>3, <1>4, <1>9, <1>11, <1>14, RefusedKeeps
  <1>16. PICK i \in Nat, i1 \in Nat, t \in Nat, t1 \in Nat :
           i = Total("items") /\ i1 = Total("items")' /\ t = Top("items") /\ t1 = Top("items")'
    BY <1>15, KindsAre, TotalNat, TotalNatNext
  <1>17. PICK y \in Nat, y1 \in Nat, w \in Nat, w1 \in Nat :
           y = Total("money") /\ y1 = Total("money")' /\ w = Top("money") /\ w1 = Top("money")'
    BY <1>15, KindsAre, TotalNat, TotalNatNext
  <1>18. i1 = i + m /\ t1 <= t + m
    <2>1. PICK z \in Nat : z = 0
      OBVIOUS
    <2>2. Val("items", r) <= Val("items", b) + m /\ Val("items", s) = Val("items", f) + z
      BY <1>2, <1>5, <1>10, <2>1
    <2>3. i1 + ItemsOf(b) = i + (ItemsOf(b) + m + z) /\ t1 <= t + (m + z)
      BY <1>2, <1>10, <1>15, <1>16, <2>2, KindsAre
    <2> QED
      BY <1>2, <1>5, <2>1, <2>3
  <1>19. y1 = y /\ w1 <= w + x
    <2>1. PICK z \in Nat : z = 0
      OBVIOUS
    <2>2. Val("money", r) <= Val("money", b) + z /\ Val("money", s) = Val("money", f) + x
      BY <1>5, <1>10, <2>1
    <2>3. y1 + b.money = y + (b.money - x + x) /\ w1 <= w + (z + x)
      BY <1>10, <1>15, <1>17, <2>2, KindsAre
    <2> QED
      BY <1>5, <2>1, <2>3
  <1>20. Gains("items", m, 0) /\ Gains("money", 0, x)
    <2>1. /\ cloned'["items"] = cloned["items"] + m /\ cloned'["money"] = cloned["money"] + 0
          /\ unsaved'["items"] = unsaved["items"] + 0 /\ unsaved'["money"] = unsaved["money"] + x
      BY <1>1, <1>2, <1>13
    <2>2. i1 <= i + m /\ t1 <= t + m + 0 /\ y1 <= y + 0 /\ w1 <= w + 0 + x
      BY <1>2, <1>18, <1>19
    <2> QED
      BY <1>16, <1>17, <2>1, <2>2 DEF Gains
  <1>21. \A k \in Kinds : Steps(k)
    <2>1. 0 \in Nat
      OBVIOUS
    <2> QED
      BY <1>2, <1>20, <2>1 DEF Kinds, Steps
  <1>22. Kept
    <2>1. PICK c \in Nat : c = refused.lost /\ refused'.lost = c
      BY <1>12 DEF Losing, Shape, CountsOK
    <2>2. i1 + c >= i + c /\ y1 >= y - 0
      BY <1>2, <1>18, <1>19
    <2>3. Items' = i1 /\ Items = i /\ Money' = y1 /\ Money = y
      BY <1>16, <1>17, TotalsAre
    <2> QED
      BY <2>1, <2>2, <2>3 DEF Kept
  <1> QED
    BY <1>15, <1>21, <1>22 DEF Good

LEMMA MovesSteps ==
  ASSUME Shape, NEW n \in Nat, Moves(n), UNCHANGED scope,
         \A k \in Kinds : Total(k)' <= Total(k) /\ Top(k)' <= Top(k) + Units(k, 0, n)
  PROVE  \A k \in Kinds : Steps(k)
  <1>1. /\ UNCHANGED <<cloned, unmade>>
        /\ unsaved'["money"] = unsaved["money"] + n /\ unsaved'["items"] = unsaved["items"]
    BY MovesCounts
  <1>2. ASSUME NEW k \in Kinds PROVE Steps(k)
    <2>1. PICK u \in Nat : u = Units(k, 0, n)
      BY DEF Units
    <2>2. unsaved'[k] = unsaved[k] + u
      <3>1. unsaved["items"] \in Nat
        BY CountsNat, KindsAre
      <3> QED
        BY <1>1, <2>1, <3>1 DEF Kinds, Units
    <2> QED
      BY <1>1, <2>1, <2>2, MovedSteps
  <1> QED
    BY <1>2

LEMMA BankGood ==
  ASSUME Shape, NEW p \in Players, NEW q \in Players, NEW n \in Amounts, UNCHANGED scope,
         Transfer(p, q, n) \/ TransferFromGuild(p, q, n)
  PROVE  Good
  <1>1. n \in Nat
    BY MarketAssumption
  <1>2. /\ Shape' /\ Moves(n)
        /\ \A k \in Kinds : Total(k)' = Total(k) /\ Top(k)' <= Top(k) + Units(k, 0, n)
    BY <1>1, TransferKeeps, TransferFromGuildKeeps
  <1>3. \A k \in Kinds : Total(k)' <= Total(k)
    <2>1. \A k \in Kinds : Total(k) \in Nat
      BY TotalNat
    <2> QED
      BY <1>2, <2>1
  <1>4. \A k \in Kinds : Steps(k)
    BY <1>1, <1>2, <1>3, MovesSteps
  <1>5. Losing(0)
    BY <1>1, <1>2, MovesCounts, SameLoses DEF Shape
  <1>6. Kept
    BY <1>2, <1>5, KindsAre, EqualKept
  <1> QED
    BY <1>2, <1>4, <1>6 DEF Good

LEMMA ToGuildGood ==
  ASSUME Shape, NEW p \in Players, NEW n \in Amounts, UNCHANGED scope, TransferToGuild(p, n)
  PROVE  Good
  <1>1. n \in Nat /\ n > 0
    BY MarketAssumption
  <1>2. /\ Shape' /\ Moves(n)
        /\ \A k \in Kinds : Total(k)' <= Total(k) /\ Top(k)' <= Top(k) + Units(k, 0, n)
        /\ guild.inGame => \A k \in Kinds : Total(k)' = Total(k)
        /\ UNCHANGED <<row, status>>
    BY <1>1, TransferToGuildKeeps
  <1>3. \A k \in Kinds : Steps(k)
    BY <1>1, <1>2, MovesSteps
  <1>4. CASE guild.inGame
    <2>1. Losing(0)
      BY <1>1, <1>2, MovesCounts, SameLoses DEF Shape
    <2>2. Kept
      BY <1>2, <1>4, <2>1, KindsAre, EqualKept
    <2> QED
      BY <1>2, <1>3, <2>2 DEF Good
  <1>5. CASE ~guild.inGame
    <2>1. PICK u \in Nat : u = unsaved.money /\ unsaved'.money = u + n
      <3>1. unsaved'["money"] = unsaved["money"] + n
        BY <1>1, <1>2, MovesCounts
      <3>2. unsaved["money"] \in Nat
        BY CountsNat, KindsAre
      <3> QED
        BY <3>1, <3>2
    <2>2. unsaved'.money > unsaved.money
      BY <1>1, <2>1
    <2>3. Loses
      BY <1>2, <1>5, <2>2 DEF Loses
    <2> QED
      BY <1>2, <1>3, <2>3 DEF Good
  <1> QED
    BY <1>4, <1>5

\* Every step.
LEMMA NextGood ==
  ASSUME Shape, BankNext PROVE Good
  <1>1. CASE \E p, q \in Players, n \in Amounts :
               (Transfer(p, q, n) \/ TransferFromGuild(p, q, n)) /\ UNCHANGED scope
    BY <1>1, BankGood
  <1>2. CASE \E p \in Players, n \in Amounts : TransferToGuild(p, n) /\ UNCHANGED scope
    BY <1>2, ToGuildGood
  <1>3. CASE Evict /\ UNCHANGED scope
    BY <1>3, EvictGood
  <1>4. CASE MarketStep /\ RestSame
    BY <1>4, MarketGood
  <1>5. CASE CheckOffers
    BY <1>5, CheckKeeps, LosslessGood
  <1>6. CASE ReturnOffers
    BY <1>6, ReturnGood
  <1>7. CASE PlayerStep /\ RestSame
    BY <1>7, PlayerGood
  <1>8. CASE SaveAll
    BY <1>8, SaveGood
  <1>9. CASE CrashAll
    BY <1>9, CrashGood
  <1>10. CASE RefusedStep
    <2>1. UNCHANGED <<scope, house, unmade>>
      BY <1>10 DEF RefusedStep
    <2>2. PICK p \in Players, n \in Amounts, o \in offers, m \in {0} \union Amounts :
            /\ \/ AcceptBuyFull(p, o, n, m) /\ unsaved' = [unsaved EXCEPT !.items = @ + m]
               \/ AcceptSellFull(p, o, n, m) /\ unsaved' = [unsaved EXCEPT !.money = @ + o.price * n]
            /\ LoadsCopies({o.player})
      BY <1>10 DEF RefusedStep
    <2> QED
      BY <2>1, <2>2, RefusedBuyGood, RefusedSellGood
  <1> QED
    BY <1>1, <1>2, <1>3, <1>4, <1>5, <1>6, <1>7, <1>8, <1>9, <1>10 DEF BankNext

LEMMA IInvInductive ==
  ASSUME IInv, [BankNext]_allVars PROVE IInv'
  <1>1. Good
    <2>1. CASE BankNext
      BY <2>1, NextGood DEF IInv
    <2>2. CASE UNCHANGED allVars
      BY <2>2, StutterKeeps, LosslessGood DEF IInv
    <2> QED
      BY <2>1, <2>2
  <1> QED
    BY <1>1, StepsKeep DEF IInv, Good

LEMMA IInvInitially ==
  ASSUME BankInit PROVE IInv
  <1>1. /\ status = [p \in Players |-> "offline"] /\ memory = [p \in Players |-> Nothing] /\ row = Wealth
        /\ offers = {} /\ nextId = 1 /\ old = 0 /\ results = <<>> /\ crashes = 0
        /\ cloned = [items |-> 0, money |-> 0] /\ refused = [times |-> 0, lost |-> 0] /\ scope \in Scopes /\ guild = Unknown(Treasury)
        /\ house = [items |-> HouseItems, row |-> HouseItems]
        /\ unsaved = [money |-> 0, items |-> 0] /\ unmade = [money |-> 0, items |-> 0]
    BY DEF BankInit, Init
  <1>2. RecordsOK
    BY <1>1, MarketAssumption, NothingCounts DEF RecordsOK
  <1>3. OffersOK
    <2>1. results \in Seq(SUBSET OfferType) /\ Len(results) = 0
      BY <1>1
    <2>2. Table(offers)
      BY <1>1, FS_EmptySet DEF Table
    <2> QED
      BY <1>1, <2>1, <2>2, MarketAssumption DEF OffersOK
  <1>4. GuildOK
    BY <1>1, BankAssumption DEF GuildOK, Unknown
  <1>5. HouseOK
    BY <1>1, BankAssumption DEF HouseOK
  <1>6. CountsOK
    BY <1>1, MarketAssumption, BankAssumption DEF CountsOK
  <1>7. Shape
    BY <1>2, <1>3, <1>4, <1>5, <1>6 DEF Shape
  <1>8. ASSUME NEW k \in Kinds PROVE Bounded(k)
    <2>1. \A p \in Players : Found(p) = Wealth[p] /\ row[p] = Wealth[p]
      BY <1>1 DEF Found, Online
    <2>2. Held(k) = [p \in Players |-> Val(k, Wealth[p])]
      BY <2>1 DEF Held
    <2>3. Most(k) = Held(k)
      BY <2>1 DEF Most, Held, Larger
    <2>4. Offered(k, offers) = 0
      BY <1>1, OfferedNone
    <2>5. /\ Vault(k) = Units(k, SumFunction(HouseItems), Treasury)
          /\ Saved(k) = Units(k, SumFunction(HouseItems), Treasury)
      BY <1>1 DEF Vault, Saved, GuildBalance, Unknown
    <2>6. SumFunction(Held(k)) + Vault(k) = Start(k)
      <3>1. CASE k = "items"
        <4>1. PICK f \in [Players -> Nat] : f = [p \in Players |-> ItemsOf(Wealth[p])] /\ f = Held(k)
          BY <2>2, <3>1, MarketAssumption DEF Val, Units, Record, ItemsOf
        <4>2. PICK h \in [Players -> Nat] : h = [p \in Players |-> ItemsOf(Wealth[p]) + HouseItems[p]]
          <5>1. [p \in Players |-> ItemsOf(Wealth[p]) + HouseItems[p]] \in [Players -> Nat]
            BY MarketAssumption, BankAssumption DEF Record, ItemsOf
          <5> QED
            BY <5>1
        <4>3. \A p \in Players : h[p] = f[p] + HouseItems[p]
          BY <4>1, <4>2
        <4>4. SumFunction(h) = SumFunction(f) + SumFunction(HouseItems)
          BY <4>3, MarketAssumption, BankAssumption, SumAdd
        <4> QED
          BY <2>5, <3>1, <4>1, <4>2, <4>4 DEF Start, Units
      <3>2. CASE k = "money"
        <4>1. Held(k) = [p \in Players |-> Wealth[p].money]
          BY <2>2, <3>2 DEF Val, Units
        <4> QED
          BY <2>5, <3>2, <4>1 DEF Start, Units
      <3> QED
        BY <3>1, <3>2 DEF Kinds
    <2>7. PICK h \in Nat, v \in Nat, s \in Nat : h = SumFunction(Held(k)) /\ v = Vault(k) /\ s = Start(k)
      BY <1>7, HeldNat, VaultNat, StartNat DEF Shape
    <2>8. h + v = s /\ Total(k) = h + 0 + v /\ Top(k) = h + 0 + Larger(v, v)
      BY <2>3, <2>4, <2>5, <2>6, <2>7 DEF Total, Top
    <2>9. cloned[k] = 0 /\ unsaved[k] = 0 /\ unmade[k] = 0
      BY <1>1 DEF Kinds
    <2>10. Total(k) <= s + 0 + 0 /\ Top(k) <= s + 0 + 0 + 0
      BY <2>7, <2>8 DEF Larger
    <2> QED
      BY <2>7, <2>9, <2>10 DEF Bounded
  <1> QED
    BY <1>7, <1>8 DEF IInv

-----------------------------------------------------------------------------
(* The theorems.                                                           *)

\* The inductive invariant holds of every behaviour: the records are records, an
\* old object of a dead player has no more than its row, the results of the checks
\* say at least what the offers hold, a guild is in the game when a player that may
\* come back belongs to it, and there is no more than was moved.
THEOREM BankInvariant == BankSpec => []IInv
  <1>1. BankInit => IInv
    BY IInvInitially
  <1>2. IInv /\ [BankNext]_allVars => IInv'
    BY IInvInductive
  <1> QED
    BY <1>1, <1>2, PTL DEF BankSpec

LEMMA ShapeTypes ==
  ASSUME Shape PROVE BankTypeOK
  <1>1. TypeOK
    <2>1. offers \subseteq [id : 1 .. nextId - 1, player : Players, sale : BOOLEAN, amount : Nat \ {0}, price : Prices]
      <3>1. ASSUME NEW o \in offers
            PROVE  o \in [id : 1 .. nextId - 1, player : Players, sale : BOOLEAN, amount : Nat \ {0}, price : Prices]
        BY DEF Shape, OffersOK, Table, OfferType
      <3> QED
        BY <3>1
    <2>2. \A o1, o2 \in offers : o1.id = o2.id => o1 = o2
      BY DEF Shape, OffersOK, Table
    <2> QED
      BY <2>1, <2>2 DEF TypeOK, Shape, RecordsOK, OffersOK, CountsOK
  <1>2. Members \intersect {p \in Players : Online(p)} \subseteq guild.membersOnline
    BY DEF Shape, GuildOK, Online
  <1> QED
    BY <1>1, <1>2 DEF BankTypeOK, Shape, GuildOK, HouseOK, CountsOK

\* Every variable of the market, the bank and the house has its type in every
\* behaviour: no money and no item is ever taken that is not there, and a guild
\* stays in the game while a member of it is.
THEOREM BankTypeCorrect == BankSpec => []BankTypeOK
  <1>1. IInv => BankTypeOK
    BY ShapeTypes DEF IInv
  <1> QED
    BY <1>1, BankInvariant, PTL

\* However the steps of the market, the bank, the house and the players, the saves
\* and the crashes follow each other, there is never more than at the start, but
\* for what a check returned of offers that were accepted in part after it read
\* them, for what an acceptance that a full inbox ended in the middle had moved while
\* its offer stayed, and for what such acceptances, the bank and the house had moved
\* after the last save before a crash.
THEOREM NothingIsCloned == BankSpec => []NothingCloned
  <1>1. IInv => NothingCloned
    <2>1. SUFFICES ASSUME IInv PROVE NothingCloned
      OBVIOUS
    <2>2. /\ Total("items") <= Start("items") + cloned["items"] + unmade["items"]
          /\ Total("money") <= Start("money") + cloned["money"] + unmade["money"]
      BY <2>1, KindsAre DEF IInv, Bounded
    <2>3. /\ Start("items") = SumFunction([p \in Players |-> ItemsOf(Wealth[p]) + HouseItems[p]])
          /\ Start("money") = SumFunction([p \in Players |-> Wealth[p].money]) + Treasury
      BY DEF Start, Units
    <2> QED
      BY <2>2, <2>3, TotalsAre DEF NothingCloned
  <1> QED
    BY <1>1, BankInvariant, PTL

\* Every step but the five that lose something keeps all money but for the fee of a
\* new offer, and all items but for those that it counts because an inbox was full
\* when an offer was accepted, cancelled or expired.
THEOREM NothingIsLost == BankSpec => NothingLost
  <1>1. IInv /\ [BankNext]_allVars => [Loses \/ Kept]_allVars
    <2>1. ASSUME IInv, BankNext PROVE Loses \/ Kept
      BY <2>1, NextGood DEF IInv, Good
    <2> QED
      BY <2>1
  <1>2. [][Loses \/ Kept]_allVars => NothingLost
    <2>1. [Loses \/ Kept]_allVars =>
            [\/ Loses
             \/ /\ Items' + refused'.lost >= Items + refused.lost
                /\ \E fee \in Fees \union {0} :
                     Money' >= Money - fee /\ (nextId' = nextId => fee = 0)]_allVars
      BY DEF Kept
    <2> QED
      BY <2>1, PTL DEF NothingLost
  <1> QED
    BY <1>1, <1>2, BankInvariant, PTL DEF BankSpec
=============================================================================
