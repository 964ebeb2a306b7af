--------------------------- MODULE RmDecoderProofs ---------------------------
(***************************************************************************)
(* Theorems about RmDecoder, for every length, number of copies and number *)
(* of inverted bits.                                                       *)
(***************************************************************************)
EXTENDS RmDecoder, FiniteSetTheorems, WellFoundedInduction, TLAPS

-----------------------------------------------------------------------------
(* Induction over numbers and over finite sets.                            *)

\* A set that holds 0 and every successor of a member holds every number.
LEMMA NatSetInduction ==
    ASSUME NEW S, 0 \in S, \A n \in Nat : n \in S => n + 1 \in S
    PROVE  Nat \subseteq S
  <1> SUFFICES ASSUME Nat \ S # {} PROVE FALSE
    OBVIOUS
  <1> DEFINE R == OpToRel(<, Nat)
  <1>1. IsWellFoundedOn(R, Nat)
    BY NatLessThanWellFounded
  <1> HIDE DEF R
  <1>2. PICK m \in Nat \ S : \A n \in Nat \ S : ~ (<<n, m>> \in R)
    <2>1. Nat \ S \subseteq Nat
      OBVIOUS
    <2> QED BY <1>1, <2>1, WFMin
  <1>3. m - 1 \in Nat /\ m - 1 \notin S
    <2>1. m # 0 /\ m \in Nat
      BY <1>2
    <2>2. m - 1 \in Nat /\ (m - 1) + 1 = m
      BY <2>1
    <2>3. m \notin S
      BY <1>2
    <2> QED BY <2>2, <2>3
  <1>4. <<m - 1, m>> \in R
    BY <1>2, <1>3 DEF R, OpToRel
  <1> QED BY <1>2, <1>3, <1>4


\* What holds of the empty set and survives one more element holds of every
\* subset; F collects the subsets it holds of.
LEMMA SubsetInduction ==
    ASSUME NEW X, IsFiniteSet(X), NEW F, {} \in F,
           \A A \in SUBSET X, p \in X : A \in F /\ p \notin A => A \cup {p} \in F
    PROVE  SUBSET X \subseteq F
  <1> DEFINE Good == {n \in Nat : \A A \in SUBSET X : Cardinality(A) = n => A \in F}
  <1>1. \A A \in SUBSET X : IsFiniteSet(A) /\ Cardinality(A) \in Nat
    BY FS_Subset, FS_CardinalityType
  <1>2. 0 \in Good
    <2>1. \A A \in SUBSET X : Cardinality(A) = 0 => A = {}
      BY <1>1, FS_EmptySet
    <2> QED BY <2>1
  <1>3. ASSUME NEW n \in Nat, n \in Good PROVE n + 1 \in Good
    <2>1. ASSUME NEW A \in SUBSET X, Cardinality(A) = n + 1 PROVE A \in F
      <3>1. A # {}
        <4>1. n + 1 # 0
          OBVIOUS
        <4> QED BY <2>1, <4>1, FS_EmptySet, Zenon
      <3>2. PICK p \in A : TRUE
        BY <3>1
      <3>3. Cardinality(A \ {p}) = Cardinality(A) - 1
        BY <1>1, FS_RemoveElement
      <3>4. Cardinality(A \ {p}) = n
        BY <2>1, <3>3
      <3>5. A \ {p} \in F
        BY <1>3, <3>4
      <3>6. (A \ {p}) \cup {p} \in F
        BY <3>2, <3>5
      <3>7. (A \ {p}) \cup {p} = A
        BY <3>2
      <3> QED BY <3>6, <3>7
    <2> QED BY <2>1
  <1> HIDE DEF Good
  <1>4. Nat \subseteq Good
    BY <1>2, <1>3, NatSetInduction
  <1> QED BY <1>1, <1>4 DEF Good

-----------------------------------------------------------------------------
(* Sums.                                                                   *)

Any(s) == CHOOSE x \in s : TRUE

\* The function SumFunctionOnSet is defined by.
SumsUp(g, fun, S) ==
    g = [s \in SUBSET S |-> IF s = {} THEN 0 ELSE fun[Any(s)] + g[s \ {Any(s)}]]

LEMMA SmallerByOne ==
    ASSUME NEW S, IsFiniteSet(S), NEW A \in SUBSET S
    PROVE  /\ IsFiniteSet(A) /\ Cardinality(A) \in Nat /\ (Cardinality(A) = 0 <=> A = {})
           /\ \A p \in A : Cardinality(A \ {p}) = Cardinality(A) - 1
           /\ A # {} => Any(A) \in A
  <1>1. IsFiniteSet(A)
    BY FS_Subset
  <1>2. Cardinality(A) \in Nat /\ (Cardinality(A) = 0 <=> A = {})
    BY <1>1, FS_CardinalityType, FS_EmptySet
  <1>3. \A p \in A : Cardinality(A \ {p}) = Cardinality(A) - 1
    BY <1>1, FS_RemoveElement
  <1>4. A # {} => Any(A) \in A
    BY DEF Any
  <1> QED BY <1>1, <1>2, <1>3, <1>4

\* There is such a function, of integers: it is built up by the size of its argument.
LEMMA SumsExist ==
    ASSUME NEW S, IsFiniteSet(S), NEW fun \in [S -> Int]
    PROVE  \E g \in [SUBSET S -> Int] : SumsUp(g, fun, S)
  <1> DEFINE Upto(n) == {s \in SUBSET S : Cardinality(s) <= n}
             Eq(g, n) == \A s \in Upto(n) : g[s] = IF s = {} THEN 0 ELSE fun[Any(s)] + g[s \ {Any(s)}]
             Good == {n \in Nat : \E g \in [Upto(n) -> Int] : Eq(g, n)}
  <1>1. 0 \in Good
    <2> DEFINE g == [s \in Upto(0) |-> 0]
    <2>1. \A s \in Upto(0) : s = {}
      BY SmallerByOne
    <2>2. g \in [Upto(0) -> Int] /\ Eq(g, 0)
      BY <2>1
    <2> HIDE DEF g
    <2> QED BY <2>2
  <1>2. ASSUME NEW n \in Nat, n \in Good PROVE n + 1 \in Good
    <2>1. PICK g \in [Upto(n) -> Int] : Eq(g, n)
      BY <1>2
    <2> DEFINE b == [s \in Upto(n + 1) |-> IF Cardinality(s) <= n THEN g[s]
                                           ELSE fun[Any(s)] + g[s \ {Any(s)}]]
    <2>2. ASSUME NEW s \in Upto(n + 1)
          PROVE  /\ b[s] \in Int
                 /\ b[s] = IF s = {} THEN 0 ELSE fun[Any(s)] + b[s \ {Any(s)}]
      <3>1. s \in SUBSET S /\ Cardinality(s) \in Nat /\ Cardinality(s) <= n + 1
            /\ (Cardinality(s) = 0 <=> s = {})
        BY SmallerByOne
      <3>2. CASE s = {}
        <4>1. s \in Upto(n) /\ Cardinality(s) <= n
          BY <3>1, <3>2
        <4>2. g[s] = 0
          BY <2>1, <3>2, <4>1
        <4>3. b[s] = g[s]
          BY <4>1
        <4> HIDE DEF b
        <4> QED BY <3>2, <4>2, <4>3
      <3>3. CASE s # {}
        <4> DEFINE x == Any(s)
                   r == s \ {x}
        <4>1. x \in s /\ x \in S /\ r \in SUBSET S /\ Cardinality(r) = Cardinality(s) - 1
          BY <3>1, <3>3, SmallerByOne
        <4>2. Cardinality(r) <= n /\ r \in Upto(n) /\ r \in Upto(n + 1)
          BY <3>1, <4>1
        <4>3. b[r] = g[r] /\ g[r] \in Int /\ fun[x] \in Int
          BY <4>1, <4>2
        <4>4. CASE Cardinality(s) <= n
          <5>1. s \in Upto(n)
            BY <3>1, <4>4
          <5>2. b[s] = g[s]
            BY <4>4
          <5>3. g[s] = fun[x] + g[r] /\ g[s] \in Int
            BY <2>1, <3>3, <5>1
          <5> HIDE DEF b
          <5> QED BY <3>3, <4>3, <5>2, <5>3
        <4>5. CASE ~(Cardinality(s) <= n)
          <5>1. b[s] = fun[x] + g[r]
            BY <4>5
          <5> HIDE DEF b
          <5> QED BY <3>3, <4>3, <5>1
        <4> QED BY <4>4, <4>5
      <3> QED BY <3>2, <3>3
    <2>3. b \in [Upto(n + 1) -> Int]
      <3>1. \A s \in Upto(n + 1) : b[s] \in Int
        BY <2>2
      <3>2. b = [s \in Upto(n + 1) |-> b[s]]
        OBVIOUS
      <3> HIDE DEF b
      <3> QED BY <3>1, <3>2
    <2>4. Eq(b, n + 1)
      BY <2>2
    <2> HIDE DEF b, Eq
    <2>5. \E a \in [Upto(n + 1) -> Int] : Eq(a, n + 1)
      BY <2>3, <2>4, Zenon
    <2>6. n + 1 \in Nat
      OBVIOUS
    <2> QED BY <2>5, <2>6
  <1> HIDE DEF Good
  <1>3. Nat \subseteq Good
    BY <1>1, <1>2, NatSetInduction
  <1> DEFINE m == Cardinality(S)
  <1>4. m \in Nat /\ Upto(m) = SUBSET S
    <2>1. m \in Nat
      BY FS_CardinalityType
    <2>2. \A s \in SUBSET S : Cardinality(s) <= m
      BY FS_Subset
    <2> QED BY <2>1, <2>2
  <1>5. \E g \in [Upto(m) -> Int] : Eq(g, m)
    BY <1>3, <1>4 DEF Good
  <1>6. PICK g \in [SUBSET S -> Int] : \A s \in SUBSET S : g[s] = IF s = {} THEN 0 ELSE fun[Any(s)] + g[s \ {Any(s)}]
    BY <1>4, <1>5
  <1>7. g = [s \in SUBSET S |-> g[s]]
    OBVIOUS
  <1>8. SumsUp(g, fun, S)
    BY <1>6, <1>7 DEF SumsUp
  <1> QED BY <1>8

\* Two such functions agree where both are defined.
LEMMA SumsAreUnique ==
    ASSUME NEW S, IsFiniteSet(S), NEW T, S \subseteq T, NEW fun, NEW g, NEW b,
           SumsUp(g, fun, S), SumsUp(b, fun, T)
    PROVE  \A A \in SUBSET S : g[A] = b[A]
  <1> DEFINE Good == {n \in Nat : \A A \in SUBSET S : Cardinality(A) = n => g[A] = b[A]}
  <1>0. /\ \A A \in SUBSET S : g[A] = IF A = {} THEN 0 ELSE fun[Any(A)] + g[A \ {Any(A)}]
        /\ \A A \in SUBSET S : b[A] = IF A = {} THEN 0 ELSE fun[Any(A)] + b[A \ {Any(A)}]
    <2>1. \A A \in SUBSET S : g[A] = IF A = {} THEN 0 ELSE fun[Any(A)] + g[A \ {Any(A)}]
      BY DEF SumsUp
    <2>2. \A A \in SUBSET T : b[A] = IF A = {} THEN 0 ELSE fun[Any(A)] + b[A \ {Any(A)}]
      BY DEF SumsUp
    <2>3. \A A \in SUBSET S : A \in SUBSET T
      OBVIOUS
    <2> QED BY <2>1, <2>2, <2>3
  <1>1. 0 \in Good
    BY <1>0, SmallerByOne
  <1>2. ASSUME NEW n \in Nat, n \in Good PROVE n + 1 \in Good
    <2> SUFFICES ASSUME NEW A \in SUBSET S, Cardinality(A) = n + 1 PROVE g[A] = b[A]
      OBVIOUS
    <2>1. A # {}
      BY SmallerByOne
    <2> DEFINE r == A \ {Any(A)}
    <2>2. r \in SUBSET S /\ Cardinality(r) = n
      BY <2>1, SmallerByOne
    <2>3. g[r] = b[r]
      BY <1>2, <2>2
    <2> QED BY <1>0, <2>1, <2>3
  <1> HIDE DEF Good
  <1>3. Nat \subseteq Good
    BY <1>1, <1>2, NatSetInduction
  <1> QED BY <1>3, SmallerByOne DEF Good

\* The order of summation does not matter.
TakesAny(g, fun, S) == \A A \in SUBSET S : \A p \in A : g[A] = fun[p] + g[A \ {p}]
LEMMA SumsTakeAny ==
    ASSUME NEW S, IsFiniteSet(S), NEW fun \in [S -> Int], NEW g \in [SUBSET S -> Int],
           SumsUp(g, fun, S)
    PROVE  TakesAny(g, fun, S)
  <1> DEFINE Good == {n \in Nat : \A A \in SUBSET S : Cardinality(A) = n =>
                                     \A p \in A : g[A] = fun[p] + g[A \ {p}]}
  <1>0. \A A \in SUBSET S : A # {} => g[A] = fun[Any(A)] + g[A \ {Any(A)}]
    BY DEF SumsUp
  <1>1. 0 \in Good
    BY SmallerByOne
  <1>2. ASSUME NEW n \in Nat, n \in Good PROVE n + 1 \in Good
    <2> SUFFICES ASSUME NEW A \in SUBSET S, Cardinality(A) = n + 1, NEW p \in A
                 PROVE  g[A] = fun[p] + g[A \ {p}]
      OBVIOUS
    <2> DEFINE x == Any(A)
    <2>1. x \in A /\ g[A] = fun[x] + g[A \ {x}]
      BY <1>0, SmallerByOne
    <2>2. CASE x = p
      BY <2>1, <2>2
    <2>3. CASE x # p
      <3> HIDE DEF x
      <3>1. /\ A \ {x} \in SUBSET S /\ A \ {p} \in SUBSET S
            /\ Cardinality(A \ {x}) = n /\ Cardinality(A \ {p}) = n
            /\ p \in A \ {x} /\ x \in A \ {p}
        BY <2>1, <2>3, SmallerByOne
      <3>2. g[A \ {x}] = fun[p] + g[(A \ {x}) \ {p}]
        BY <1>2, <3>1
      <3>3. g[A \ {p}] = fun[x] + g[(A \ {p}) \ {x}]
        BY <1>2, <3>1
      <3>4. (A \ {x}) \ {p} = (A \ {p}) \ {x} /\ (A \ {x}) \ {p} \in SUBSET S
        OBVIOUS
      <3> DEFINE r == (A \ {x}) \ {p}
      <3>5. fun[p] \in Int /\ fun[x] \in Int /\ g[r] \in Int
        BY <2>1, <3>4
      <3>6. g[A \ {p}] = fun[x] + g[r] /\ g[A \ {x}] = fun[p] + g[r]
        BY <3>2, <3>3, <3>4
      <3> HIDE DEF r
      <3> QED BY <2>1, <3>5, <3>6
    <2> QED BY <2>2, <2>3
  <1> HIDE DEF Good
  <1>3. Nat \subseteq Good
    BY <1>1, <1>2, NatSetInduction
  <1> QED BY <1>3, SmallerByOne DEF Good, TakesAny

\* SumFunctionOnSet over the subsets of a finite set.
LEMMA SumLaws ==
    ASSUME NEW S, IsFiniteSet(S), NEW fun \in [S -> Int]
    PROVE  /\ SumFunctionOnSet(fun, {}) = 0
           /\ \A A \in SUBSET S : SumFunctionOnSet(fun, A) \in Int
           /\ \A A \in SUBSET S : \A p \in S \ A :
                 SumFunctionOnSet(fun, A \cup {p}) = fun[p] + SumFunctionOnSet(fun, A)
  <1>1. PICK g \in [SUBSET S -> Int] : SumsUp(g, fun, S)
    BY SumsExist
  <1>2. ASSUME NEW A \in SUBSET S PROVE SumFunctionOnSet(fun, A) = g[A]
    <2> DEFINE iter == CHOOSE b : SumsUp(b, fun, A)
               part == [s \in SUBSET A |-> g[s]]
    <2>1. SumFunctionOnSet(fun, A) = iter[A]
      BY DEF SumFunctionOnSet, FoldFunctionOnSet, MapThenFoldSet, SumsUp, Any
    <2>2. SumsUp(part, fun, A)
      <3>1. \A s \in SUBSET A : g[s] = IF s = {} THEN 0 ELSE fun[Any(s)] + g[s \ {Any(s)}]
        BY <1>1 DEF SumsUp
      <3>2. \A s \in SUBSET A : s \ {Any(s)} \in SUBSET A
        OBVIOUS
      <3> QED BY <3>1, <3>2 DEF SumsUp
    <2>3. SumsUp(iter, fun, A)
      BY <2>2, Zenon
    <2> HIDE DEF iter, part
    <2>4. IsFiniteSet(A) /\ A \subseteq S /\ A \in SUBSET A
      BY FS_Subset
    <2>5. \A B \in SUBSET A : iter[B] = g[B]
      BY <1>1, <2>3, <2>4, SumsAreUnique
    <2>6. iter[A] = g[A]
      BY <2>4, <2>5
    <2> QED BY <2>1, <2>6
  <1>3. g[{}] = 0
    BY <1>1 DEF SumsUp
  <1>y. TakesAny(g, fun, S)
    BY <1>1, SumsTakeAny
  <1>4. ASSUME NEW A \in SUBSET S, NEW p \in S \ A PROVE g[A \cup {p}] = fun[p] + g[A]
    <2>1. A \cup {p} \in SUBSET S /\ p \in A \cup {p} /\ (A \cup {p}) \ {p} = A
      OBVIOUS
    <2>3. g[A \cup {p}] = fun[p] + g[(A \cup {p}) \ {p}]
      BY <2>1, <1>y DEF TakesAny
    <2> QED BY <2>1, <2>3
  <1>5. {} \in SUBSET S /\ \A A \in SUBSET S : \A p \in S \ A : A \cup {p} \in SUBSET S
    OBVIOUS
  <1> QED BY <1>2, <1>3, <1>4, <1>5

\* Disjoint parts add up.
LEMMA SumUnion ==
    ASSUME NEW S, IsFiniteSet(S), NEW fun \in [S -> Int],
           NEW A \in SUBSET S, NEW B \in SUBSET S, A \cap B = {}
    PROVE  SumFunctionOnSet(fun, A \cup B) = SumFunctionOnSet(fun, A) + SumFunctionOnSet(fun, B)
  <1> DEFINE Sum(D) == SumFunctionOnSet(fun, D)
             Good == {D \in SUBSET S : D \subseteq B => Sum(A \cup D) = Sum(A) + Sum(D)}
  <1>1. {} \in Good
    <2>1. Sum({}) = 0 /\ Sum(A) \in Int /\ A \cup {} = A
      BY SumLaws
    <2> QED BY <2>1
  <1>2. ASSUME NEW D \in SUBSET S, NEW p \in S, D \in Good, p \notin D
        PROVE  D \cup {p} \in Good
    <2> SUFFICES ASSUME D \cup {p} \subseteq B
                 PROVE  Sum(A \cup (D \cup {p})) = Sum(A) + Sum(D \cup {p})
      OBVIOUS
    <2>1. A \cup D \in SUBSET S /\ p \in S \ (A \cup D) /\ p \in S \ D
          /\ A \cup (D \cup {p}) = (A \cup D) \cup {p}
      BY <1>2
    <2>2. \A E \in SUBSET S : p \in S \ E => Sum(E \cup {p}) = fun[p] + Sum(E)
      BY SumLaws
    <2>3. Sum(D \cup {p}) = fun[p] + Sum(D) /\ Sum((A \cup D) \cup {p}) = fun[p] + Sum(A \cup D)
      BY <2>1, <2>2
    <2>4. Sum(A \cup D) = Sum(A) + Sum(D)
      BY <1>2
    <2>5. Sum(A) \in Int /\ Sum(D) \in Int /\ fun[p] \in Int
      BY SumLaws
    <2>6. Sum(A \cup (D \cup {p})) = Sum((A \cup D) \cup {p})
      BY <2>1
    <2> HIDE DEF Sum
    <2> QED BY <2>3, <2>4, <2>5, <2>6
  <1> HIDE DEF Good
  <1>3. SUBSET S \subseteq Good
    BY <1>1, <1>2, SubsetInduction
  <1> QED BY <1>3 DEF Good

-----------------------------------------------------------------------------
(* Quotients and the powers of two.                                        *)

LEMMA Division ==
    ASSUME NEW x \in Nat, NEW w \in Nat \ {0}
    PROVE  /\ x \div w \in Nat /\ x % w \in Nat /\ x % w < w
           /\ x = w * (x \div w) + (x % w)
  <1>1. \A y, z \in Nat : z > 0 => /\ y \div z \in Nat /\ y % z \in 0..z-1
                                   /\ y = z * (y \div z) + (y % z)
    BY Z3
  <1> QED BY <1>1

LEMMA Divides ==
    ASSUME NEW x \in Nat, NEW w \in Nat \ {0}, x % w = 0
    PROVE  x \div w \in Nat /\ x = w * (x \div w)
  <1>1. \A y, z \in Nat : z > 0 /\ y % z = 0 => y \div z \in Nat /\ y = z * (y \div z)
    BY Z3
  <1> QED BY <1>1

LEMMA QuotientIsUnique ==
    ASSUME NEW w \in Nat \ {0}, NEW q \in Nat, NEW r \in 0..w-1
    PROVE  (w * q + r) \div w = q /\ (w * q + r) % w = r
  <1> DEFINE t == w * q + r
             p == t \div w
             s == t % w
  <1>1. w \in Nat /\ w > 0 /\ r \in Nat /\ r < w
    OBVIOUS
  <1>2. t \in Nat
    BY <1>1
  <1>3. p \in Nat /\ s \in Nat /\ s < w /\ t = w * p + s
    BY <1>1, <1>2, Division
  <1>4. w * q + r = w * p + s
    BY <1>3
  <1> HIDE DEF t, p, s
  <1>5. \A x, y, z \in Nat : x < y => z * x + z <= z * y
    <2> SUFFICES ASSUME NEW x \in Nat, NEW y \in Nat, NEW z \in Nat, x < y
                 PROVE  z * x + z <= z * y
      OBVIOUS
    <2>1. z * (x + 1) <= z * y
      BY Z3
    <2>2. z * (x + 1) = z * x + z
      BY Z3
    <2> QED BY <2>1, <2>2
  <1>6. w * q \in Nat /\ w * p \in Nat
    BY <1>1, <1>3
  <1>7. ~(q < p) /\ ~(p < q)
    <2>1. q < p => w * q + w <= w * p
      BY <1>1, <1>3, <1>5
    <2>2. p < q => w * p + w <= w * q
      BY <1>1, <1>3, <1>5
    <2> QED BY <1>1, <1>3, <1>4, <1>6, <2>1, <2>2
  <1>8. p = q
    BY <1>3, <1>7
  <1>9. s = r
    BY <1>1, <1>3, <1>4, <1>6, <1>8
  <1> QED BY <1>8, <1>9 DEF t, p, s

LEMMA QuotientIs ==
    ASSUME NEW x \in Nat, NEW w \in Nat \ {0}, NEW q \in Nat, NEW r \in 0..w-1,
           x = w * q + r
    PROVE  x \div w = q /\ x % w = r
  BY QuotientIsUnique

Levels == Steps \cup {Len}

LEMMA LevelTypes ==
    /\ Len \in Nat \ {0}
    /\ \A s \in Levels : s \in Nat \ {0} /\ s <= Len
    /\ \A s \in Steps : s \in Nat \ {0} /\ 2 * s \in Levels /\ s < Len
    /\ 1 \in Levels
  BY RmAssumption DEF Levels

\* The levels are powers of two: twice a smaller one divides a larger one.
LEMMA LevelsDivide ==
    ASSUME NEW s \in Levels, NEW t \in Levels, t < s
    PROVE  s % (2 * t) = 0
  <1> DEFINE Good == {n \in Nat : \A x, y \in Levels : Len - x <= n /\ y < x => x % (2 * y) = 0}
  <1>1. 0 \in Good
    BY LevelTypes, RmAssumption DEF Levels
  <1>2. ASSUME NEW n \in Nat, n \in Good PROVE n + 1 \in Good
    <2> SUFFICES ASSUME NEW x \in Levels, NEW y \in Levels, Len - x <= n + 1, y < x
                 PROVE  x % (2 * y) = 0
      OBVIOUS
    <2>1. CASE x = Len
      <3>1. y \in Steps
        BY <2>1, LevelTypes DEF Levels
      <3> QED BY <2>1, <3>1, RmAssumption
    <2>2. CASE x # Len
      <3>1. x \in Steps /\ y \in Steps
        BY <2>2, LevelTypes DEF Levels
      <3>2. 2 * x \in Levels /\ 2 * y \in Levels /\ 2 * y < 2 * x /\ Len - 2 * x <= n
        BY <3>1, LevelTypes
      <3>3. (2 * x) % (2 * (2 * y)) = 0
        BY <1>2, <3>2
      <3> DEFINE a == 2 * y
                 q == (2 * x) \div (2 * a)
      <3>4. a \in Nat \ {0} /\ x \in Nat /\ 2 * a \in Nat \ {0} /\ 2 * x \in Nat
        BY <3>1, LevelTypes
      <3>5. q \in Nat /\ 2 * x = (2 * a) * q
        <4>1. (2 * x) % (2 * a) = 0
          BY <3>3
        <4> HIDE DEF a
        <4> QED BY <3>4, <4>1, Divides
      <3> HIDE DEF a, q
      <3>6. (2 * a) * q = 2 * (a * q) /\ a * q \in Nat
        <4>1. \A u, v \in Nat : (2 * u) * v = 2 * (u * v) /\ u * v \in Nat
          BY Z3
        <4> QED BY <3>4, <3>5, <4>1
      <3>7. x = a * q + 0
        BY <3>4, <3>5, <3>6
      <3>8. 0 \in 0..a-1
        BY <3>4
      <3>9. x % a = 0
        BY <3>4, <3>5, <3>7, <3>8, QuotientIsUnique
      <3> QED BY <3>9 DEF a
    <2> QED BY <2>1, <2>2
  <1> HIDE DEF Good
  <1>3. Nat \subseteq Good
    BY <1>1, <1>2, NatSetInduction
  <1>4. Len - s \in Nat
    BY LevelTypes
  <1> QED BY <1>3, <1>4 DEF Good

\* Every level but 1 is twice another one.
LEMMA LevelIsDouble ==
    ASSUME NEW s \in Levels, s # 1
    PROVE  \E t \in Steps : s = 2 * t
  <1> DEFINE Good == {n \in Nat : n + 1 < Len => \E t \in Steps : t <= n + 1 /\ n + 1 < 2 * t}
  <1>1. 0 \in Good
    <2>1. Len # 1 => 1 \in Steps
      BY RmAssumption
    <2> QED BY <2>1
  <1>2. ASSUME NEW n \in Nat, n \in Good PROVE n + 1 \in Good
    <2> SUFFICES ASSUME (n + 1) + 1 < Len
                 PROVE  \E t \in Steps : t <= (n + 1) + 1 /\ (n + 1) + 1 < 2 * t
      OBVIOUS
    <2>1. PICK t \in Steps : t <= n + 1 /\ n + 1 < 2 * t
      BY <1>2, LevelTypes
    <2>2. CASE (n + 1) + 1 < 2 * t
      BY <2>1, <2>2, LevelTypes
    <2>3. CASE ~((n + 1) + 1 < 2 * t)
      <3>1. 2 * t = (n + 1) + 1
        BY <2>1, <2>3, LevelTypes
      <3>2. 2 * t \in Steps
        BY <3>1, LevelTypes DEF Levels
      <3> QED BY <3>1, <3>2
    <2> QED BY <2>2, <2>3
  <1> HIDE DEF Good
  <1>3. Nat \subseteq Good
    BY <1>1, <1>2, NatSetInduction
  <1>4. s - 2 \in Nat /\ (s - 2) + 1 < Len
    BY LevelTypes
  <1>5. PICK t \in Steps : t <= (s - 2) + 1 /\ (s - 2) + 1 < 2 * t
    BY <1>3, <1>4 DEF Good
  <1>6. t < s /\ s <= 2 * t /\ t \in Levels
    BY <1>5, LevelTypes DEF Levels
  <1>7. s % (2 * t) = 0
    BY <1>6, LevelsDivide
  <1>8. s = (2 * t) * (s \div (2 * t)) /\ s \div (2 * t) \in Nat /\ 2 * t \in Nat \ {0}
    BY <1>7, LevelTypes, Divides
  <1>9. s = 2 * t
    <2>1. CASE s < 2 * t
      <3>1. s \in 0..(2*t)-1 /\ (2 * t) * 0 + s = s
        BY <2>1, LevelTypes
      <3>2. s % (2 * t) = s
        BY <1>8, <3>1, QuotientIsUnique
      <3> QED BY <1>7, <3>2, LevelTypes
    <2> QED BY <1>6, <2>1, LevelTypes
  <1> QED BY <1>9

LEMMA BitTypes ==
    ASSUME NEW x \in Nat, NEW s \in Levels
    PROVE  Bit(x, s) \in {0, 1} /\ x % s \in Nat /\ x % s < s
           /\ x \div s \in Nat /\ x = s * (x \div s) + (x % s)
  <1>1. x \div s \in Nat /\ x % s \in Nat /\ x % s < s /\ x = s * (x \div s) + (x % s)
    BY LevelTypes, Division
  <1> QED BY <1>1 DEF Bit

\* The bits of the low part of a number.
LEMMA LowBits ==
    ASSUME NEW x \in Nat, NEW s \in Levels, NEW t \in Steps
    PROVE  Bit(x % s, t) = IF t < s THEN Bit(x, t) ELSE 0
  <1> DEFINE r == x % s
             q == x \div s
  <1>1. /\ r \in Nat /\ r < s /\ q \in Nat /\ x = s * q + r
        /\ s \in Nat \ {0} /\ t \in Nat \ {0} /\ t \in Levels
    BY BitTypes, LevelTypes DEF Levels
  <1> HIDE DEF r, q
  <1>2. CASE t < s
    <2> DEFINE c == s \div (2 * t)
               d == r \div t
               e == r % t
    <2>1. s % (2 * t) = 0
      BY <1>1, <1>2, LevelsDivide
    <2>2. c \in Nat /\ s = (2 * t) * c
      BY <1>1, <2>1, Division
    <2>3. d \in Nat /\ e \in 0..t-1 /\ r = t * d + e
      BY <1>1, Division
    <2> HIDE DEF c, d, e
    <2>4. s * q + r = t * (2 * (c * q) + d) + e /\ c * q \in Nat
      <3>1. \A u, v, w, y \in Nat : ((2 * u) * v) * w = u * (2 * (v * w)) /\ v * w \in Nat
        BY Z3
      <3>2. \A u, v, w \in Nat : u * (v + w) = u * v + u * w
        BY Z3
      <3>3. s * q = t * (2 * (c * q)) /\ c * q \in Nat
        BY <1>1, <2>2, <3>1
      <3>4. t * (2 * (c * q) + d) = t * (2 * (c * q)) + t * d
        BY <1>1, <2>3, <3>2, <3>3
      <3> DEFINE z == 2 * (c * q)
      <3>5. t * z \in Nat /\ t * d \in Nat
        <4>1. \A u, v \in Nat : u * v \in Nat
          BY Z3
        <4> QED BY <1>1, <2>3, <3>3, <4>1
      <3>6. s * q + r = t * z + (t * d + e) /\ t * (z + d) = t * z + t * d
        BY <2>3, <3>3, <3>4
      <3>7. s * q + r = t * (z + d) + e
        <4> HIDE DEF z
        <4> QED BY <2>3, <3>5, <3>6
      <3> QED BY <3>3, <3>7
    <2>5. x \div t = 2 * (c * q) + d
      <3>1. 2 * (c * q) + d \in Nat
        BY <2>3, <2>4
      <3> QED BY <1>1, <2>3, <2>4, <3>1, QuotientIsUnique
    <2>6. (2 * (c * q) + d) % 2 = d % 2
      <3>1. \A u, v \in Nat : (2 * u + v) % 2 = v % 2
        BY Z3
      <3> QED BY <2>3, <2>4, <3>1
    <2> QED BY <1>2, <2>5, <2>6 DEF Bit, d, r
  <1>3. CASE ~(t < s)
    <2>1. r \in 0..t-1 /\ t * 0 + r = r
      BY <1>1, <1>3
    <2>2. r \div t = 0
      BY <1>1, <2>1, QuotientIsUnique
    <2> QED BY <1>3, <2>2 DEF Bit, r
  <1> QED BY <1>2, <1>3

-----------------------------------------------------------------------------
(* Signs and blocks of the transform.                                      *)

LEMMA LevelsFinite == IsFiniteSet(Steps) /\ IsFiniteSet(Index)
  <1>1. 0 \in Int /\ 1 \in Int /\ Len \in Int /\ Len - 1 \in Int
    BY LevelTypes
  <1>2. IsFiniteSet(1..Len) /\ IsFiniteSet(0..Len-1)
    BY <1>1, FS_Interval
  <1>3. Steps \subseteq 1..Len
    BY LevelTypes
  <1> QED BY <1>2, <1>3, FS_Subset DEF Index

Agree(fun, g, B) == \A v \in B : fun[v] = g[v]
Opposite(fun, g, B) == \A v \in B : fun[v] = -g[v]

\* Functions that agree on a set, or differ there in sign, have sums that do.
LEMMA SumAgrees ==
    ASSUME NEW fun \in [Index -> Int], NEW g \in [Index -> Int], NEW B \in SUBSET Index
    PROVE  /\ Agree(fun, g, B) => SumFunctionOnSet(fun, B) = SumFunctionOnSet(g, B)
           /\ Opposite(fun, g, B) => SumFunctionOnSet(fun, B) = -SumFunctionOnSet(g, B)
  <1> DEFINE Sum(D) == SumFunctionOnSet(fun, D)
             Other(D) == SumFunctionOnSet(g, D)
             Good == {D \in SUBSET Index : D \subseteq B =>
                         /\ Agree(fun, g, B) => Sum(D) = Other(D)
                         /\ Opposite(fun, g, B) => Sum(D) = -Other(D)}
  <1>1. {} \in Good
    <2>1. Sum({}) = 0 /\ Other({}) = 0
      BY SumLaws, LevelsFinite
    <2> HIDE DEF Sum, Other
    <2> QED BY <2>1
  <1>2. ASSUME NEW D \in SUBSET Index, NEW p \in Index, D \in Good, p \notin D
        PROVE  D \cup {p} \in Good
    <2>1. Sum(D \cup {p}) = fun[p] + Sum(D) /\ Sum(D) \in Int
      BY <1>2, SumLaws, LevelsFinite
    <2>2. Other(D \cup {p}) = g[p] + Other(D) /\ Other(D) \in Int
      BY <1>2, SumLaws, LevelsFinite
    <2>3. fun[p] \in Int /\ g[p] \in Int
      OBVIOUS
    <2> HIDE DEF Sum, Other
    <2>4. ASSUME D \cup {p} \subseteq B, Agree(fun, g, B)
          PROVE  Sum(D \cup {p}) = Other(D \cup {p})
      BY <1>2, <2>1, <2>2, <2>3, <2>4 DEF Agree
    <2>5. ASSUME D \cup {p} \subseteq B, Opposite(fun, g, B)
          PROVE  Sum(D \cup {p}) = -Other(D \cup {p})
      BY <1>2, <2>1, <2>2, <2>3, <2>5 DEF Opposite
    <2> QED BY <2>4, <2>5
  <1> HIDE DEF Good
  <1>3. SUBSET Index \subseteq Good
    BY <1>1, <1>2, SubsetInduction, LevelsFinite
  <1> QED BY <1>3 DEF Good

\* The bits below s that both numbers have.
Common(x, y, s) == {t \in Steps : t < s /\ Bit(x, t) = 1 /\ Bit(y, t) = 1}

LEMMA SignOfLowBits ==
    ASSUME NEW x \in Nat, NEW y \in Nat, NEW s \in Levels
    PROVE  InnerProduct(x % s, y % s) = Cardinality(Common(x, y, s)) % 2
  <1>1. \A t \in Steps : /\ Bit(x % s, t) = IF t < s THEN Bit(x, t) ELSE 0
                         /\ Bit(y % s, t) = IF t < s THEN Bit(y, t) ELSE 0
    BY LowBits
  <1>2. {t \in Steps : Bit(x % s, t) = 1 /\ Bit(y % s, t) = 1} = Common(x, y, s)
    BY <1>1 DEF Common
  <1> QED BY <1>2 DEF InnerProduct

\* A sign is 0 or 1, none at the first level, the whole inner product at the last,
\* and from one level to the next it turns where both numbers have the bit.
LEMMA SignDoubles ==
    ASSUME NEW x \in Nat, NEW y \in Nat, NEW s \in Steps
    PROVE  InnerProduct(x % (2 * s), y % (2 * s)) =
              IF Bit(x, s) = 1 /\ Bit(y, s) = 1 THEN 1 - InnerProduct(x % s, y % s)
              ELSE InnerProduct(x % s, y % s)
  <1>1. s \in Levels /\ 2 * s \in Levels /\ s \in Nat \ {0}
    BY LevelTypes DEF Levels
  <1>2. ASSUME NEW t \in Steps PROVE t < 2 * s <=> t < s \/ t = s
    <2>1. t \in Nat \ {0} /\ t \in Levels
      BY LevelTypes DEF Levels
    <2>2. ASSUME s < t PROVE ~(t < 2 * s)
      <3>1. t % (2 * s) = 0
        BY <1>1, <2>1, <2>2, LevelsDivide
      <3>2. ASSUME t < 2 * s PROVE FALSE
        <4>1. t \in 0..(2*s)-1 /\ (2 * s) * 0 + t = t /\ 2 * s \in Nat \ {0}
          BY <1>1, <2>1, <3>2
        <4>2. t % (2 * s) = t
          BY <4>1, QuotientIsUnique
        <4> QED BY <2>1, <3>1, <4>2
      <3> QED BY <3>2
    <2> QED BY <1>1, <2>1, <2>2
  <1> DEFINE a == Common(x, y, s)
             b == Common(x, y, 2 * s)
  <1>3. s \notin a /\ b = IF Bit(x, s) = 1 /\ Bit(y, s) = 1 THEN a \cup {s} ELSE a
    <2>1. s \notin a
      BY <1>1 DEF Common
    <2>2. CASE Bit(x, s) = 1 /\ Bit(y, s) = 1
      <3>1. b = a \cup {s}
        BY <1>2, <2>2 DEF Common
      <3> QED BY <2>1, <2>2, <3>1
    <2>3. CASE ~(Bit(x, s) = 1 /\ Bit(y, s) = 1)
      <3>1. b = a
        BY <1>2, <2>3 DEF Common
      <3> QED BY <2>1, <2>3, <3>1
    <2> QED BY <2>2, <2>3
  <1>4. IsFiniteSet(a) /\ Cardinality(a) \in Nat
    <2>1. a \subseteq Steps
      BY DEF Common
    <2> QED BY <2>1, LevelsFinite, FS_Subset, FS_CardinalityType
  <1>5. InnerProduct(x % s, y % s) = Cardinality(a) % 2
        /\ InnerProduct(x % (2 * s), y % (2 * s)) = Cardinality(b) % 2
    BY <1>1, SignOfLowBits
  <1> HIDE DEF a, b
  <1>6. Cardinality(a \cup {s}) = Cardinality(a) + 1
    BY <1>3, <1>4, FS_AddElement
  <1>7. \A n \in Nat : (n + 1) % 2 = 1 - (n % 2)
    OBVIOUS
  <1> QED BY <1>3, <1>4, <1>5, <1>6, <1>7

LEMMA SignAtEnds ==
    ASSUME NEW x \in Nat, NEW y \in Nat
    PROVE  InnerProduct(x % 1, y % 1) = 0 /\ InnerProduct(x, y) \in {0, 1}
  <1>1. Common(x, y, 1) = {}
    BY LevelTypes DEF Common
  <1>2. InnerProduct(x % 1, y % 1) = 0
    <2>1. InnerProduct(x % 1, y % 1) = Cardinality(Common(x, y, 1)) % 2
      BY LevelTypes, SignOfLowBits
    <2>2. Cardinality(Common(x, y, 1)) = 0
      BY <1>1, FS_EmptySet
    <2> QED BY <2>1, <2>2
  <1> DEFINE a == {t \in Steps : Bit(x, t) = 1 /\ Bit(y, t) = 1}
  <1>3. Cardinality(a) \in Nat
    BY LevelsFinite, FS_Subset, FS_CardinalityType
  <1>4. InnerProduct(x, y) = Cardinality(a) % 2
    BY DEF InnerProduct
  <1> HIDE DEF a
  <1> QED BY <1>2, <1>3, <1>4

LEMMA Halves ==
    ASSUME NEW x \in Nat, NEW s \in Nat \ {0}
    PROVE  /\ Bit(x, s) \in {0, 1} /\ x \div (2 * s) \in Nat
           /\ x \div s = 2 * (x \div (2 * s)) + Bit(x, s)
           /\ x % (2 * s) = s * Bit(x, s) + (x % s)
  <1> DEFINE d == x \div s
             e == x % s
             p == d \div 2
             b == d % 2
  <1>1. d \in Nat /\ e \in 0..s-1 /\ x = s * d + e
    BY Division
  <1>2. p \in Nat /\ b \in {0, 1} /\ d = 2 * p + b
    BY <1>1
  <1>3. b = Bit(x, s)
    BY DEF Bit
  <1> HIDE DEF d, e, p, b
  <1>4. s * d = (2 * s) * p + s * b
    <2>1. \A u, v \in Nat : u * (2 * v + 1) = (2 * u) * v + u * 1 /\ u * (2 * v) = (2 * u) * v + u * 0
      BY Z3
    <2> QED BY <1>2, <2>1
  <1>5. s * b + e \in 0..(2*s)-1
    BY <1>1, <1>2
  <1>6. x = (2 * s) * p + (s * b + e)
    <2>1. (2 * s) * p \in Nat
      <3>1. \A u, v \in Nat : u * v \in Nat
        BY Z3
      <3> QED BY <1>2, <3>1
    <2>2. s * b \in Nat
      BY <1>2
    <2> QED BY <1>1, <1>4, <2>1, <2>2
  <1>7. x \div (2 * s) = p /\ x % (2 * s) = s * b + e
    <2>1. 2 * s \in Nat \ {0}
      OBVIOUS
    <2> DEFINE w == 2 * s
               r == s * b + e
    <2> HIDE DEF w, r
    <2>2. w \in Nat \ {0} /\ r \in 0..w-1 /\ x = w * p + r
      BY <1>5, <1>6, <2>1 DEF w, r
    <2>3. x \div w = p /\ x % w = r
      BY <1>2, <2>2, QuotientIs
    <2> QED BY <2>3 DEF w, r
  <1> QED BY <1>2, <1>3, <1>7 DEF d, e

\* The other end of a pair.
LEMMA Partner ==
    ASSUME NEW x \in Nat, NEW s \in Nat \ {0}
    PROVE  (x + s) \div s = (x \div s) + 1 /\ (x + s) % s = x % s
  <1>1. x \div s \in Nat /\ x % s \in 0..s-1 /\ x = s * (x \div s) + (x % s)
    BY Division
  <1> DEFINE d == x \div s
             e == x % s
  <1> HIDE DEF d, e
  <1>2. d \in Nat /\ e \in 0..s-1 /\ x = s * d + e
    BY <1>1 DEF d, e
  <1>3. s * (d + 1) = s * d + s /\ s * d \in Nat
    <2>1. \A u, v \in Nat : u * (v + 1) = u * v + u /\ u * v \in Nat
      BY Z3
    <2> QED BY <1>2, <2>1
  <1>4. x + s = s * (d + 1) + e
    BY <1>2, <1>3
  <1>5. x + s \in Nat /\ d + 1 \in Nat
    BY <1>2
  <1>6. (x + s) \div s = d + 1 /\ (x + s) % s = e
    BY <1>2, <1>4, <1>5, QuotientIs
  <1> QED BY <1>6 DEF d, e

\* The indices that agree with i from bit s up.
Block(i, s) == {v \in Index : v \div s = i \div s}

\* The votes w with the sign of the bits below s, and their sum over the block of i.
Signed(w, i, s) ==
    [v \in Index |-> IF InnerProduct(i % s, v % s) = 0 THEN w[v] ELSE -w[v]]
Transform(w, i, s) == SumFunctionOnSet(Signed(w, i, s), Block(i, s))

\* A block of the next level is the block of i and that of its partner, which have
\* the bit clear and set.
LEMMA BlocksJoin ==
    ASSUME NEW s \in Steps, NEW i \in Index, Bit(i, s) = 0, i + s \in Index
    PROVE  /\ Block(i, 2 * s) = Block(i, s) \cup Block(i + s, s)
           /\ Block(i, s) \cap Block(i + s, s) = {}
           /\ \A v \in Block(i, s) : Bit(v, s) = 0
           /\ \A v \in Block(i + s, s) : Bit(v, s) = 1
           /\ Bit(i + s, s) = 1 /\ Block(i + s, 2 * s) = Block(i, 2 * s)
  <1>1. s \in Nat \ {0} /\ i \in Nat /\ Index \subseteq Nat
    BY LevelTypes DEF Index
  <1>2. \A v \in Index : /\ Bit(v, s) \in {0, 1} /\ v \div (2 * s) \in Nat
                         /\ v \div s = 2 * (v \div (2 * s)) + Bit(v, s)
    BY <1>1, Halves
  <1>3. (i + s) \div s = (i \div s) + 1
    BY <1>1, Partner
  <1>4. (i + s) \div (2 * s) = i \div (2 * s) /\ Bit(i + s, s) = 1
    BY <1>2, <1>3
  <1>5. /\ Block(i, s) = {v \in Index : v \div (2 * s) = i \div (2 * s) /\ Bit(v, s) = 0}
        /\ Block(i + s, s) = {v \in Index : v \div (2 * s) = i \div (2 * s) /\ Bit(v, s) = 1}
    <2>1. ASSUME NEW v \in Index
          PROVE  /\ v \div s = i \div s <=> v \div (2 * s) = i \div (2 * s) /\ Bit(v, s) = 0
                 /\ v \div s = (i + s) \div s <=> v \div (2 * s) = i \div (2 * s) /\ Bit(v, s) = 1
      BY <1>2, <1>3
    <2> QED BY <2>1 DEF Block
  <1>6. Block(i, 2 * s) = Block(i, s) \cup Block(i + s, s)
    BY <1>2, <1>5 DEF Block
  <1>7. Block(i, s) \cap Block(i + s, s) = {}
    BY <1>5
  <1>8. Block(i + s, 2 * s) = Block(i, 2 * s)
    BY <1>4 DEF Block
  <1> QED BY <1>4, <1>5, <1>6, <1>7, <1>8

LEMMA SignedTypes ==
    ASSUME NEW w \in [Index -> Int], NEW i \in Index, NEW s \in Levels
    PROVE  Signed(w, i, s) \in [Index -> Int] /\ Transform(w, i, s) \in Int
           /\ Block(i, s) \in SUBSET Index
  <1>1. Block(i, s) \in SUBSET Index
    BY DEF Block
  <1>2. Signed(w, i, s) \in [Index -> Int]
    BY DEF Signed
  <1> QED BY <1>1, <1>2, LevelsFinite, SumLaws DEF Transform

\* One stage of butterflies takes the transform from one level to the next.
LEMMA ButterflyTransforms ==
    ASSUME NEW w \in [Index -> Int], NEW s \in Steps, NEW i \in Index,
           NEW j \in Index, j = i + s, Bit(i, s) = 0
    PROVE  /\ Transform(w, i, 2 * s) = Transform(w, i, s) + Transform(w, j, s)
           /\ Transform(w, j, 2 * s) = Transform(w, i, s) - Transform(w, j, s)
  <1> DEFINE A == Block(i, s)
             B == Block(j, s)
  <1>1. /\ s \in Levels /\ 2 * s \in Levels /\ s \in Nat \ {0} /\ i \in Nat
        /\ IsFiniteSet(Index) /\ Index \subseteq Nat
    BY LevelTypes, LevelsFinite DEF Levels, Index
  <1>2. /\ Block(i, 2 * s) = A \cup B /\ Block(j, 2 * s) = A \cup B /\ A \cap B = {}
        /\ \A v \in A : Bit(v, s) = 0
        /\ \A v \in B : Bit(v, s) = 1
        /\ Bit(j, s) = 1
    BY BlocksJoin
  <1>3. A \in SUBSET Index /\ B \in SUBSET Index
    BY DEF Block
  <1>4. j % s = i % s
    BY <1>1, Partner
  <1> DEFINE e == Signed(w, i, s)
             p == Signed(w, i, 2 * s)
             q == Signed(w, j, 2 * s)
  <1>5. /\ e \in [Index -> Int] /\ p \in [Index -> Int] /\ q \in [Index -> Int]
        /\ Signed(w, j, s) = e
    BY <1>1, <1>4, SignedTypes DEF Signed
  <1>6. ASSUME NEW v \in Index
        PROVE  /\ InnerProduct(i % (2 * s), v % (2 * s)) = InnerProduct(i % s, v % s)
               /\ InnerProduct(j % (2 * s), v % (2 * s)) =
                    IF Bit(v, s) = 1 THEN 1 - InnerProduct(i % s, v % s)
                    ELSE InnerProduct(i % s, v % s)
               /\ InnerProduct(i % s, v % s) \in {0, 1}
    <2>1. v \in Nat /\ j \in Nat /\ i % s \in Nat /\ v % s \in Nat
      BY <1>1, BitTypes
    <2>2. InnerProduct(i % s, v % s) \in {0, 1}
      BY <2>1, SignAtEnds
    <2>3. InnerProduct(i % (2 * s), v % (2 * s)) = InnerProduct(i % s, v % s)
      BY <1>1, <2>1, SignDoubles
    <2>4. InnerProduct(j % (2 * s), v % (2 * s)) =
             IF Bit(v, s) = 1 THEN 1 - InnerProduct(j % s, v % s) ELSE InnerProduct(j % s, v % s)
      BY <1>2, <2>1, SignDoubles
    <2> QED BY <1>4, <2>2, <2>3, <2>4
  <1>7. /\ \A v \in A \cup B : p[v] = e[v]
        /\ \A v \in A : q[v] = e[v]
        /\ \A v \in B : q[v] = -e[v]
    <2> SUFFICES ASSUME NEW v \in A \cup B
                 PROVE  /\ p[v] = e[v]
                        /\ v \in A => q[v] = e[v]
                        /\ v \in B => q[v] = -e[v]
      OBVIOUS
    <2>1. v \in Index /\ w[v] \in Int
      BY <1>3
    <2>2. /\ e[v] = IF InnerProduct(i % s, v % s) = 0 THEN w[v] ELSE -w[v]
          /\ p[v] = IF InnerProduct(i % (2 * s), v % (2 * s)) = 0 THEN w[v] ELSE -w[v]
          /\ q[v] = IF InnerProduct(j % (2 * s), v % (2 * s)) = 0 THEN w[v] ELSE -w[v]
      BY <2>1 DEF Signed
    <2>3. p[v] = e[v]
      BY <1>6, <2>1, <2>2
    <2>4. v \in A => q[v] = e[v]
      BY <1>2, <1>6, <2>1, <2>2
    <2>5. ASSUME v \in B PROVE q[v] = -e[v]
      <3>1. Bit(v, s) = 1
        BY <1>2, <2>5
      <3> DEFINE n == InnerProduct(i % s, v % s)
      <3>2. InnerProduct(j % (2 * s), v % (2 * s)) = 1 - n /\ n \in {0, 1}
        BY <1>6, <2>1, <3>1
      <3>3. e[v] = (IF n = 0 THEN w[v] ELSE -w[v]) /\ q[v] = IF 1 - n = 0 THEN w[v] ELSE -w[v]
        BY <2>2, <3>2
      <3> HIDE DEF e, q, n
      <3> QED BY <2>1, <3>2, <3>3
    <2> QED BY <2>3, <2>4, <2>5
  <1> HIDE DEF e, p, q, A, B
  <1> DEFINE Sum(g, D) == SumFunctionOnSet(g, D)
  <1>8. /\ Sum(p, A) = Sum(e, A) /\ Sum(p, B) = Sum(e, B)
        /\ Sum(q, A) = Sum(e, A) /\ Sum(q, B) = -Sum(e, B)
    <2>1. Agree(p, e, A) /\ Agree(p, e, B) /\ Agree(q, e, A) /\ Opposite(q, e, B)
      BY <1>7 DEF Agree, Opposite
    <2> HIDE DEF Agree, Opposite
    <2>0. IsFiniteSet(Index)
      BY <1>1
    <2>2. SumFunctionOnSet(p, A) = SumFunctionOnSet(e, A)
      <3>1. p \in [Index -> Int] /\ e \in [Index -> Int] /\ A \in SUBSET Index /\ Agree(p, e, A)
        BY <1>3, <1>5, <2>1
      <3> QED BY <2>0, <3>1, SumAgrees, Zenon
    <2>3. Sum(p, B) = Sum(e, B)
      BY <2>0, <1>3, <1>5, <2>1, SumAgrees
    <2>4. Sum(q, A) = Sum(e, A)
      BY <2>0, <1>3, <1>5, <2>1, SumAgrees
    <2>5. Sum(q, B) = -Sum(e, B)
      BY <2>0, <1>3, <1>5, <2>1, SumAgrees
    <2> QED BY <2>2, <2>3, <2>4, <2>5
  <1>9. Sum(p, A \cup B) = Sum(p, A) + Sum(p, B) /\ Sum(q, A \cup B) = Sum(q, A) + Sum(q, B)
    <2>1. \A C, D \in SUBSET Index : C \cap D = {} => Sum(p, C \cup D) = Sum(p, C) + Sum(p, D)
      BY <1>1, <1>5, SumUnion
    <2>2. \A C, D \in SUBSET Index : C \cap D = {} => Sum(q, C \cup D) = Sum(q, C) + Sum(q, D)
      BY <1>1, <1>5, SumUnion
    <2> QED BY <1>2, <1>3, <2>1, <2>2, Zenon
  <1>10. Sum(e, A) \in Int /\ Sum(e, B) \in Int
    BY <1>1, <1>3, <1>5, SumLaws
  <1>11. /\ Transform(w, i, s) = Sum(e, A) /\ Transform(w, j, s) = Sum(e, B)
         /\ Transform(w, i, 2 * s) = Sum(p, A \cup B) /\ Transform(w, j, 2 * s) = Sum(q, A \cup B)
    BY <1>2, <1>5 DEF Transform, A, B, e, p, q
  <1> HIDE DEF Sum
  <1>12. /\ Transform(w, i, 2 * s) = Sum(e, A) + Sum(e, B)
         /\ Transform(w, j, 2 * s) = Sum(e, A) + (-Sum(e, B))
    BY <1>8, <1>9, <1>11
  <1> QED BY <1>10, <1>11, <1>12

\* At the first level the transform is the vote itself.
LEMMA TransformStarts ==
    ASSUME NEW w \in [Index -> Int], NEW i \in Index
    PROVE  Transform(w, i, 1) = w[i]
  <1>1. 1 \in Levels /\ i \in Nat /\ Index \subseteq Nat
    BY LevelTypes DEF Index
  <1>2. Block(i, 1) = {i}
    <2>1. \A n \in Nat : n \div 1 = n
      OBVIOUS
    <2> QED BY <1>1, <2>1 DEF Block
  <1>3. Signed(w, i, 1)[i] = w[i]
    BY <1>1, SignAtEnds DEF Signed
  <1> DEFINE e == Signed(w, i, 1)
  <1>4. e \in [Index -> Int]
    BY <1>1, SignedTypes
  <1> HIDE DEF e
  <1>5. SumFunctionOnSet(e, {}) = 0
    BY <1>4, LevelsFinite, SumLaws
  <1>6. SumFunctionOnSet(e, {} \cup {i}) = e[i] + SumFunctionOnSet(e, {})
    <2>1. {} \in SUBSET Index /\ i \in Index \ {}
      OBVIOUS
    <2> QED BY <1>4, <2>1, LevelsFinite, SumLaws
  <1>7. {} \cup {i} = {i} /\ w[i] \in Int
    OBVIOUS
  <1> QED BY <1>2, <1>3, <1>5, <1>6, <1>7 DEF Transform, e

-----------------------------------------------------------------------------
(* The code.                                                               *)

\* A message is its top bit and its low bits, which the levels below spell out.
LEMMA MessageParts ==
    ASSUME NEW m \in Messages
    PROVE  /\ m \in Nat /\ Bit(m, Len) \in {0, 1} /\ m % Len \in Index
           /\ m = Bit(m, Len) * Len + (m % Len)
  <1>1. Len \in Nat \ {0} /\ Len \in Levels /\ m \in Nat /\ m < 2 * Len
    BY LevelTypes DEF Levels, Messages
  <1>2. m \div Len \in Nat /\ m % Len \in Nat /\ m % Len < Len
        /\ m = Len * (m \div Len) + (m % Len)
    BY <1>1, Division
  <1> DEFINE q == m \div Len
             r == m % Len
  <1> HIDE DEF q, r
  <1>3. q \in Nat /\ r \in Nat /\ r < Len /\ m = Len * q + r
    BY <1>2 DEF q, r
  <1>4. q \in {0, 1}
    <2>1. q >= 2 => Len * q >= Len * 2
      <3>1. \A u, v \in Nat : v >= 2 => u * v >= u * 2
        BY Z3
      <3> QED BY <1>1, <1>3, <3>1
    <2>2. Len * q \in Nat
      <3>1. \A u, v \in Nat : u * v \in Nat
        BY Z3
      <3> QED BY <1>1, <1>3, <3>1
    <2> QED BY <1>1, <1>3, <2>1, <2>2
  <1>5. Bit(m, Len) = q
    BY <1>4 DEF Bit, q
  <1>6. r \in Index
    BY <1>1, <1>3 DEF Index
  <1>7. m = q * Len + r
    BY <1>1, <1>3, <1>4
  <1> QED BY <1>1, <1>4, <1>5, <1>6, <1>7 DEF r

LEMMA BitsDecide ==
    ASSUME NEW x \in Messages, NEW y \in Messages, \A s \in Levels : Bit(x, s) = Bit(y, s)
    PROVE  x = y
  <1> DEFINE Good == {n \in Nat : \A s \in Levels : s <= n => x % s = y % s}
  <1>1. x \in Nat /\ y \in Nat
    BY MessageParts
  <1>2. 0 \in Good
    BY LevelTypes
  <1>3. ASSUME NEW n \in Nat, n \in Good PROVE n + 1 \in Good
    <2> SUFFICES ASSUME NEW s \in Levels, s <= n + 1 PROVE x % s = y % s
      OBVIOUS
    <2>1. CASE s = 1
      <3>1. \A z \in Nat : z % 1 = 0
        OBVIOUS
      <3> QED BY <1>1, <2>1, <3>1
    <2>2. CASE s # 1
      <3>1. PICK t \in Steps : s = 2 * t
        BY <2>2, LevelIsDouble
      <3>2. t \in Nat \ {0} /\ t \in Levels /\ t <= n
        BY <3>1, LevelTypes DEF Levels
      <3>3. x % t = y % t /\ Bit(x, t) = Bit(y, t)
        BY <1>3, <3>2
      <3>4. x % (2 * t) = t * Bit(x, t) + (x % t) /\ y % (2 * t) = t * Bit(y, t) + (y % t)
        BY <1>1, <3>2, Halves
      <3> QED BY <3>1, <3>3, <3>4
    <2> QED BY <2>1, <2>2
  <1> HIDE DEF Good
  <1>4. Nat \subseteq Good
    BY <1>2, <1>3, NatSetInduction
  <1>5. Len \in Levels /\ Len \in Nat
    BY LevelTypes DEF Levels
  <1>6. x % Len = y % Len
    BY <1>4, <1>5 DEF Good
  <1>7. Bit(x, Len) = Bit(y, Len)
    BY <1>5
  <1>8. x = Bit(x, Len) * Len + (x % Len) /\ y = Bit(y, Len) * Len + (y % Len)
    BY MessageParts
  <1> QED BY <1>6, <1>7, <1>8

LEMMA NestedDivision ==
    ASSUME NEW x \in Nat, NEW a \in Nat \ {0}, NEW c \in Nat \ {0}
    PROVE  x \div (a * c) = (x \div a) \div c
  <1> DEFINE d == x \div a
             e == x % a
             p == d \div c
             u == d % c
  <1>1. d \in Nat /\ e \in 0..a-1 /\ x = a * d + e
    BY Division
  <1> HIDE DEF d, e
  <1>2. p \in Nat /\ u \in Nat /\ u + 1 <= c /\ d = c * p + u
    BY <1>1, Division
  <1> HIDE DEF p, u
  <1>3. \A v, w, y \in Nat : v * (w * y) = (v * w) * y /\ v * w \in Nat
    BY Z3
  <1>4. \A v, w, y \in Nat : v * (w + y) = v * w + v * y
    BY Z3
  <1>5. \A v, w, y \in Nat : w <= y => v * w <= v * y
    BY Z3
  <1> DEFINE b == a * c
             z == a * u
             cp == c * p
  <1>6. b \in Nat /\ z \in Nat /\ cp \in Nat
    BY <1>1, <1>2, <1>3
  <1>7. a * d = b * p + z /\ b * p \in Nat
    <2>1. a * (cp + u) = a * cp + z
      BY <1>2, <1>4, <1>6
    <2>2. a * cp = b * p
      BY <1>2, <1>3
    <2>3. b * p \in Nat
      BY <1>2, <1>3, <1>6
    <2> QED BY <1>2, <2>1, <2>2, <2>3
  <1>8. z + a <= b
    <2>1. a * (u + 1) <= a * c
      BY <1>2, <1>5
    <2>2. a * (u + 1) = a * u + a * 1
      BY <1>2, <1>4
    <2> QED BY <2>1, <2>2
  <1> HIDE DEF b, z, cp
  <1>9. b \in Nat \ {0} /\ z + e \in 0..b-1 /\ x = b * p + (z + e)
    BY <1>1, <1>6, <1>7, <1>8
  <1>10. x \div b = p
    BY <1>2, <1>9, QuotientIs
  <1> QED BY <1>10 DEF b, d, p

\* Turning the bit s of an index over.
Toggled(i, s) == IF Bit(i, s) = 0 THEN i + s ELSE i - s

LEMMA ToggleSetsOneBit ==
    ASSUME NEW x \in Nat, NEW s \in Steps, NEW t \in Steps, t # s, Bit(x, s) = 0
    PROVE  Bit(x + s, t) = Bit(x, t)
  <1>1. /\ s \in Nat \ {0} /\ t \in Nat \ {0} /\ s \in Levels /\ t \in Levels
        /\ x + s \in Nat
    BY LevelTypes DEF Levels
  <1>2. CASE t < s
    <2>1. (x + s) % s = x % s
      BY <1>1, Partner
    <2>2. Bit((x + s) % s, t) = Bit(x + s, t) /\ Bit(x % s, t) = Bit(x, t)
      BY <1>1, <1>2, LowBits
    <2> QED BY <2>1, <2>2
  <1>3. CASE s < t
    <2> DEFINE a == 2 * s
               c == t \div a
    <2>1. a \in Nat \ {0} /\ t % a = 0
      BY <1>1, <1>3, LevelsDivide
    <2>2. c \in Nat /\ t = a * c
      BY <1>1, <2>1, Divides
    <2>3. c # 0
      BY <1>1, <2>1, <2>2
    <2>4. (x + s) \div a = x \div a
      <3>1. /\ x \div s = 2 * (x \div a) + Bit(x, s) /\ x \div a \in Nat
            /\ (x + s) \div s = 2 * ((x + s) \div a) + Bit(x + s, s) /\ (x + s) \div a \in Nat
            /\ Bit(x + s, s) \in {0, 1}
        BY <1>1, Halves
      <3>2. (x + s) \div s = (x \div s) + 1
        BY <1>1, Partner
      <3> DEFINE y == x \div a
                 z == (x + s) \div a
      <3> HIDE DEF y, z
      <3>3. 2 * z + Bit(x + s, s) = (2 * y + 0) + 1 /\ y \in Nat /\ z \in Nat
        BY <3>1, <3>2 DEF y, z
      <3>4. z = y
        BY <3>1, <3>3
      <3> QED BY <3>4 DEF y, z
    <2> HIDE DEF a, c
    <2>5. x \div t = (x \div a) \div c /\ (x + s) \div t = ((x + s) \div a) \div c
      <3>1. c \in Nat \ {0}
        BY <2>2, <2>3
      <3>2. \A y \in Nat : y \div (a * c) = (y \div a) \div c
        BY <2>1, <3>1, NestedDivision
      <3> QED BY <1>1, <2>2, <3>2
    <2> QED BY <2>4, <2>5 DEF Bit
  <1> QED BY <1>1, <1>2, <1>3

-----------------------------------------------------------------------------
USE RmAssumption

-----------------------------------------------------------------------------
(* The butterfly stays within the block.                                   *)

\* The other end of a butterfly lies in the array: wht never indexes outside it.
LEMMA PartnerInBlock ==
    ASSUME NEW s \in Steps, NEW i \in Index
    PROVE  /\ Bit(i, s) \in {0, 1}
           /\ Bit(i, s) = 0 => i + s \in Index
           /\ Bit(i, s) = 1 => i - s \in Index
  <1> DEFINE q == i \div s
             r == i % s
             c == Len \div (2 * s)
  <1>1. s \in Nat /\ s > 0 /\ i \in Nat /\ i < Len /\ Len \in Nat
    BY DEF Index
  <1>2. q \in Nat /\ r \in 0..s-1 /\ i = s * q + r
    <2>1. \A x, y \in Nat : y > 0 => /\ x \div y \in Nat /\ x % y \in 0..y-1
                                     /\ x = y * (x \div y) + (x % y)
      BY Z3
    <2> QED BY ONLY <1>1, <2>1, Zenon DEF q, r
  <1>3. c \in Nat /\ Len = (2 * s) * c
    <2>1. \A x, y \in Nat : (y > 0 /\ x % y = 0) => x \div y \in Nat /\ x = y * (x \div y)
      BY Z3
    <2>2. 2 * s \in Nat /\ 2 * s > 0 /\ Len % (2 * s) = 0
      BY <1>1
    <2> QED BY ONLY <1>1, <2>1, <2>2, Zenon DEF c
  <1> HIDE DEF q, r, c
  <1>4. Bit(i, s) = q % 2
    BY DEF Bit, q
  <1>5. CASE q % 2 = 0
    <2>1. PICK p \in Nat : q = 2 * p
      <3>1. \A x \in Nat : x % 2 = 0 => \E y \in Nat : x = 2 * y
        BY Z3
      <3> QED BY <1>2, <1>5, <3>1
    <2>2. s * q = (2 * s) * p
      <3>1. \A a, b \in Nat : a * (2 * b) = (2 * a) * b
        BY Z3
      <3> QED BY <1>1, <2>1, <3>1
    <2>3. p < c
      <3>1. \A a, x, y \in Nat : x >= y => a * x >= a * y /\ a * x \in Nat /\ a * y \in Nat
        BY Z3
      <3>2. CASE p >= c
        <4>1. (2 * s) * p >= (2 * s) * c /\ (2 * s) * p \in Nat /\ (2 * s) * c \in Nat
          BY <1>1, <1>3, <3>1, <3>2
        <4> QED BY <1>1, <1>2, <1>3, <2>2, <4>1
      <3> QED BY <1>3, <3>2
    <2>4. (2 * s) * p + 2 * s <= (2 * s) * c
      <3>1. \A a, x, y \in Nat : x < y => a * x + a <= a * y
        BY Z3
      <3> QED BY <1>1, <1>3, <2>3, <3>1
    <2>5. i + s < Len
      <3>1. (2 * s) * p \in Nat /\ (2 * s) * c \in Nat
        <4>1. \A a, x \in Nat : a * x \in Nat
          BY Z3
        <4> QED BY <1>1, <1>3, <4>1
      <3> QED BY <1>1, <1>2, <1>3, <2>2, <2>4, <3>1
    <2> QED BY <1>1, <1>4, <1>5, <2>5 DEF Index
  <1>6. CASE q % 2 = 1
    <2>1. q >= 1
      BY <1>2, <1>6
    <2>2. s * q >= s /\ s * q \in Nat
      <3>1. \A a, x \in Nat : x >= 1 => a * x >= a /\ a * x \in Nat
        BY Z3
      <3> QED BY <1>1, <1>2, <2>1, <3>1
    <2>3. i - s >= 0
      BY <1>1, <1>2, <2>2
    <2> QED BY <1>1, <1>4, <1>6, <2>3 DEF Index
  <1> QED BY <1>2, <1>4, <1>5, <1>6

\* One stage at most doubles the magnitudes.
LEMMA ButterflyGrowth ==
    ASSUME NEW g \in [Index -> Int], NEW s \in Steps, NEW b \in Nat,
           \A i \in Index : Magnitude(g[i]) <= b
    PROVE  /\ Butterfly(g, s) \in [Index -> Int]
           /\ \A i \in Index : Magnitude(Butterfly(g, s)[i]) <= 2 * b
  <1>1. ASSUME NEW i \in Index
        PROVE  Butterfly(g, s)[i] \in Int /\ Magnitude(Butterfly(g, s)[i]) <= 2 * b
    <2>1. CASE Bit(i, s) = 0
      <3>1. i + s \in Index /\ Butterfly(g, s)[i] = g[i] + g[i + s]
        BY <2>1, PartnerInBlock DEF Butterfly
      <3>2. g[i] \in Int /\ g[i + s] \in Int /\ Magnitude(g[i]) <= b /\ Magnitude(g[i + s]) <= b
        BY <3>1
      <3> HIDE DEF Butterfly
      <3> QED BY <3>1, <3>2 DEF Magnitude
    <2>2. CASE Bit(i, s) = 1
      <3>1. i - s \in Index /\ Butterfly(g, s)[i] = g[i - s] - g[i]
        BY <2>2, PartnerInBlock DEF Butterfly
      <3>2. g[i] \in Int /\ g[i - s] \in Int /\ Magnitude(g[i]) <= b /\ Magnitude(g[i - s]) <= b
        BY <3>1
      <3> HIDE DEF Butterfly
      <3> QED BY <3>1, <3>2 DEF Magnitude
    <2> QED BY <2>1, <2>2, PartnerInBlock
  <1> QED BY <1>1 DEF Butterfly

-----------------------------------------------------------------------------
(* Type correctness.                                                       *)

LEMMA TypeInit == Init => TypeOK
  <1>1. 0 \in Index /\ 0 \in Copies /\ 1 \in Steps \cup {Len}
    BY DEF Index, Copies
  <1> QED BY <1>1 DEF Init, TypeOK, Zeros

LEMMA TypeNext == TypeOK /\ [Next]_vars => TypeOK'
  <1> SUFFICES ASSUME TypeOK, [Next]_vars
               PROVE  TypeOK'
    OBVIOUS
  <1>1. CASE EncodeCopy
    <2>1. word' \subseteq Copies \X Index
      BY <1>1 DEF EncodeCopy, TypeOK, rm_encode_byte
    <2>2. rep' \in Copies
      BY <1>1 DEF EncodeCopy, TypeOK, Copies
    <2> QED BY <1>1, <2>1, <2>2 DEF EncodeCopy, TypeOK
  <1>2. CASE Disturb
    BY <1>2 DEF Disturb, TypeOK
  <1>3. CASE TallyCopy
    <2>1. f' \in [Index -> Int]
      BY <1>3 DEF TallyCopy, TypeOK, Vote
    <2>2. rep' \in Copies
      BY <1>3 DEF TallyCopy, TypeOK, Copies
    <2> QED BY <1>3, <2>1, <2>2 DEF TallyCopy, TypeOK
  <1>4. CASE WhtStage
    <2>1. step \in Steps /\ (2 * step \in Steps \/ 2 * step = Len)
      BY <1>4 DEF WhtStage, TypeOK
    <2>2. Butterfly(f, step) \in [Index -> Int]
      <3>1. \A i \in Index : Bit(i, step) = 0 => i + step \in Index
        BY <2>1, PartnerInBlock
      <3>2. \A i \in Index : Bit(i, step) # 0 => i - step \in Index
        BY <2>1, PartnerInBlock
      <3> QED BY <3>1, <3>2 DEF Butterfly, TypeOK
    <2> QED BY <1>4, <2>1, <2>2 DEF WhtStage, TypeOK
  <1>5. CASE WhtEnd
    BY <1>5 DEF WhtEnd, TypeOK
  <1>6. CASE ScanStep
    <2>1. k \in Index
      BY <1>6 DEF ScanStep, TypeOK, Index
    <2>2. f[k] \in Int /\ Magnitude(f[k]) \in Nat
      BY <2>1 DEF TypeOK, Magnitude
    <2>3. k' \in 0..Len /\ k' = k + 1 /\ (pc' = "scan" => k' < Len) /\ pc' \in {"scan", "done"}
      BY <1>6, <2>1 DEF ScanStep, Index
    <2>4. best_abs' \in Nat /\ best_idx' \in Index /\ best_neg' \in {0, 1}
      BY <1>6, <2>1, <2>2 DEF ScanStep, TypeOK
    <2> QED BY <1>6, <2>3, <2>4 DEF ScanStep, TypeOK
  <1>7. CASE UNCHANGED vars
    BY <1>7 DEF vars, TypeOK
  <1> QED BY <1>1, <1>2, <1>3, <1>4, <1>5, <1>6, <1>7 DEF Next

\* No index of the butterfly, the tally or the scan leaves the block (wht, rm_decode).
THEOREM TypeCorrect == Spec => []TypeOK
  BY TypeInit, TypeNext, PTL DEF Spec

-----------------------------------------------------------------------------
(* The magnitudes.                                                         *)

FInv ==
    /\ TypeOK
    /\ NoOverflow
    /\ pc \in {"encode", "channel"} => rep = 0 \/ pc = "encode"
    /\ pc \in {"encode", "channel", "tally"} => step = 1

LEMMA FInit == Init => FInv
  BY TypeInit DEF Init, FInv, NoOverflow, MagnitudeBound, Magnitude, Zeros

LEMMA FNext == FInv /\ [Next]_vars => FInv'
  <1> SUFFICES ASSUME FInv, [Next]_vars
               PROVE  FInv'
    OBVIOUS
  <1>t. TypeOK /\ TypeOK'
    BY TypeNext DEF FInv
  <1>1. CASE EncodeCopy
    BY <1>1, <1>t DEF EncodeCopy, FInv, NoOverflow, MagnitudeBound
  <1>2. CASE Disturb
    BY <1>2, <1>t DEF Disturb, FInv, NoOverflow, MagnitudeBound, TypeOK, Copies
  <1>3. CASE TallyCopy
    <2>1. \A i \in Index : f'[i] \in Int /\ Magnitude(f'[i]) <= rep + 1
      <3> SUFFICES ASSUME NEW i \in Index
                   PROVE  f'[i] \in Int /\ Magnitude(f'[i]) <= rep + 1
        OBVIOUS
      <3>1. f'[i] = f[i] + Vote(word, i) /\ Vote(word, i) \in {-1, 1}
        BY <1>3 DEF TallyCopy, Vote
      <3>2. f[i] \in Int /\ Magnitude(f[i]) <= rep /\ rep \in Nat
        BY <1>3, <1>t DEF TallyCopy, FInv, NoOverflow, MagnitudeBound, TypeOK, Copies
      <3> QED BY <3>1, <3>2 DEF Magnitude
    <2>2. CASE rep + 1 < Multiplicity
      <3>1. pc' = "tally" /\ rep' = rep + 1 /\ step' = 1
        BY <1>3, <2>2 DEF TallyCopy, FInv
      <3> QED BY <1>t, <2>1, <3>1 DEF FInv, NoOverflow, MagnitudeBound
    <2>3. CASE ~(rep + 1 < Multiplicity)
      <3>1. pc' = "wht" /\ step' = 1 /\ rep + 1 = Multiplicity
        BY <1>3, <1>t, <2>3 DEF TallyCopy, FInv, TypeOK, Copies
      <3>2. Multiplicity * 1 = Multiplicity
        OBVIOUS
      <3> QED BY <1>t, <2>1, <3>1, <3>2 DEF FInv, NoOverflow, MagnitudeBound
    <2> QED BY <2>2, <2>3
  <1>4. CASE WhtStage
    <2>1. step \in Steps /\ step \in Nat /\ Multiplicity \in Nat
      BY <1>4, <1>t DEF WhtStage, TypeOK
    <2> DEFINE b == Multiplicity * step
    <2>2. b \in Nat /\ Multiplicity * (2 * step) = 2 * b
      <3>1. \A x, y \in Nat : x * y \in Nat /\ x * (2 * y) = 2 * (x * y)
        BY Z3
      <3> QED BY <2>1, <3>1
    <2>3. \A i \in Index : Magnitude(f[i]) <= b
      BY <1>4 DEF WhtStage, FInv, NoOverflow, MagnitudeBound
    <2>4. f' = Butterfly(f, step) /\ step' = 2 * step /\ pc' = "wht"
      BY <1>4 DEF WhtStage
    <2> HIDE DEF b
    <2>5. \A i \in Index : Magnitude(f'[i]) <= 2 * b
      BY <1>t, <2>1, <2>2, <2>3, <2>4, ButterflyGrowth DEF TypeOK
    <2> QED BY <1>t, <2>2, <2>4, <2>5 DEF FInv, NoOverflow, MagnitudeBound
  <1>5. CASE WhtEnd
    BY <1>5, <1>t DEF WhtEnd, FInv, NoOverflow, MagnitudeBound
  <1>6. CASE ScanStep
    BY <1>6, <1>t DEF ScanStep, FInv, NoOverflow, MagnitudeBound
  <1>7. CASE UNCHANGED vars
    BY <1>7, <1>t DEF vars, FInv, NoOverflow, MagnitudeBound
  <1> QED BY <1>1, <1>2, <1>3, <1>4, <1>5, <1>6, <1>7 DEF Next

\* The magnitudes stay within the copies times the step reached: with 5 copies of 128
\* bits an i16 never overflows (the argument of wht's comment).
THEOREM MagnitudesBounded == Spec => []NoOverflow
  <1>1. FInv => NoOverflow
    BY DEF FInv
  <1> QED BY <1>1, FInit, FNext, PTL DEF Spec

-----------------------------------------------------------------------------
(* The scan.                                                               *)

SInv ==
    /\ TypeOK
    /\ ScanKeepsFirstPeak
    /\ k = 0 => best_abs = 0 /\ best_idx = 0 /\ best_neg = 0

LEMMA SInit == Init => SInv
  BY TypeInit DEF Init, SInv, ScanKeepsFirstPeak

LEMMA SNext == SInv /\ [Next]_vars => SInv'
  <1> SUFFICES ASSUME SInv, [Next]_vars
               PROVE  SInv'
    OBVIOUS
  <1>t. TypeOK /\ TypeOK'
    BY TypeNext DEF SInv
  <1>1. CASE ScanStep
    <2>1. /\ k \in Nat /\ k \in Index /\ k' = k + 1 /\ UNCHANGED f
          /\ best_abs' = IF Better(f[k]) THEN Magnitude(f[k]) ELSE best_abs
          /\ best_idx' = IF Better(f[k]) THEN k ELSE best_idx
          /\ best_neg' = IF Better(f[k]) THEN (IF f[k] < 0 THEN 1 ELSE 0) ELSE best_neg
      BY <1>1, <1>t DEF ScanStep, TypeOK, Index
    <2>2. \A i \in 0..k : f[i] \in Int /\ Magnitude(f[i]) \in Nat
      BY <1>t, <2>1 DEF TypeOK, Index, Magnitude
    <2>3. /\ \A i \in 0..k-1 : Magnitude(f[i]) <= best_abs
                               /\ (i < best_idx => Magnitude(f[i]) < best_abs)
          /\ k > 0 => /\ best_idx < k /\ Magnitude(f[best_idx]) = best_abs
                      /\ (best_neg = 1 <=> f[best_idx] < 0)
          /\ k = 0 => best_abs = 0 /\ best_idx = 0 /\ best_neg = 0
      BY DEF SInv, ScanKeepsFirstPeak
    <2>4. best_abs \in Nat /\ best_idx \in Nat
      BY <1>t DEF TypeOK, Index
    <2>5. CASE Better(f[k])
      <3>1. /\ best_abs' = Magnitude(f[k]) /\ best_idx' = k
            /\ best_neg' = IF f[k] < 0 THEN 1 ELSE 0
            /\ Magnitude(f[k]) > best_abs
        BY <2>1, <2>5 DEF Better
      <3>2. \A i \in 0..k'-1 : /\ Magnitude(f[i]) <= best_abs'
                               /\ (i < best_idx' => Magnitude(f[i]) < best_abs')
        BY <2>1, <2>2, <2>3, <2>4, <3>1
      <3>j. k \in Nat /\ k' = k + 1 /\ f' = f /\ best_idx' = k
        BY <2>1, <3>1
      <3>m. f'[best_idx'] = f[k] /\ k' > 0 /\ best_idx' < k'
        BY ONLY <3>j
      <3>n. best_neg' = 1 <=> f[k] < 0
        BY <3>1
      <3>3. k' > 0 /\ best_idx' < k' /\ (best_neg' = 1 <=> f'[best_idx'] < 0)
            /\ Magnitude(f'[best_idx']) = best_abs'
        BY <3>1, <3>m, <3>n, Zenon
      <3>4. ScanKeepsFirstPeak'
        BY <2>1, <3>2, <3>3 DEF ScanKeepsFirstPeak
      <3> QED BY <1>t, <3>3, <3>4 DEF SInv
    <2>6. CASE ~Better(f[k])
      <3>1. /\ best_abs' = best_abs /\ best_idx' = best_idx /\ best_neg' = best_neg
            /\ Magnitude(f[k]) <= best_abs
        BY <2>1, <2>2, <2>4, <2>6 DEF Better
      <3>2. \A i \in 0..k'-1 : /\ Magnitude(f[i]) <= best_abs'
                               /\ (i < best_idx' => Magnitude(f[i]) < best_abs')
        BY <2>1, <2>2, <2>3, <2>4, <3>1
      <3>3. best_idx < k' /\ Magnitude(f[best_idx]) = best_abs
            /\ (best_neg = 1 <=> f[best_idx] < 0)
        <4>1. CASE k = 0
          BY <2>1, <2>2, <2>3, <3>1, <4>1 DEF Magnitude
        <4>2. CASE k > 0
          BY <2>1, <2>3, <2>4, <4>2
        <4> QED BY <2>1, <4>1, <4>2
      <3> QED BY <1>t, <2>1, <3>1, <3>2, <3>3 DEF SInv, ScanKeepsFirstPeak
    <2> QED BY <2>5, <2>6
  <1>2. CASE EncodeCopy \/ Disturb \/ TallyCopy \/ WhtStage
    <2>1. k = 0 /\ UNCHANGED <<k, best_abs, best_idx, best_neg>>
      BY <1>2, <1>t DEF EncodeCopy, Disturb, TallyCopy, WhtStage, TypeOK
    <2> QED BY <1>t, <2>1 DEF SInv, ScanKeepsFirstPeak
  <1>3. CASE WhtEnd
    BY <1>3, <1>t DEF WhtEnd, SInv, ScanKeepsFirstPeak
  <1>4. CASE UNCHANGED vars
    BY <1>4, <1>t DEF vars, SInv, ScanKeepsFirstPeak
  <1> QED BY <1>1, <1>2, <1>3, <1>4 DEF Next

\* The branch-free scan returns the first position of the largest magnitude, with the
\* sign it has there.
THEOREM FirstPeak == Spec => []ScanKeepsFirstPeak
  <1>1. SInv => ScanKeepsFirstPeak
    BY DEF SInv
  <1> QED BY <1>1, SInit, SNext, PTL DEF Spec

-----------------------------------------------------------------------------
(* One bit of an index turned over.                                        *)

LEMMA Toggling ==
    ASSUME NEW i \in Index, NEW s \in Steps
    PROVE  /\ Toggled(i, s) \in Index /\ Toggled(Toggled(i, s), s) = i
           /\ Bit(i, s) \in {0, 1} /\ Bit(Toggled(i, s), s) = 1 - Bit(i, s)
           /\ \A t \in Steps : t # s => Bit(Toggled(i, s), t) = Bit(i, t)
  <1>1. s \in Nat \ {0} /\ i \in Nat /\ s \in Levels /\ Index \subseteq Nat
    BY LevelTypes DEF Levels, Index
  <1>2. ASSUME NEW x \in Nat, Bit(x, s) = 0 PROVE Bit(x + s, s) = 1
    <2>1. (x + s) \div s = (x \div s) + 1 /\ x \div s \in Nat
      BY <1>1, Partner, BitTypes
    <2>2. \A n \in Nat : n % 2 = 0 => (n + 1) % 2 = 1
      OBVIOUS
    <2> QED BY <1>2, <2>1, <2>2 DEF Bit
  <1>3. CASE Bit(i, s) = 0
    <2>1. i + s \in Index /\ Toggled(i, s) = i + s
      BY <1>3, PartnerInBlock DEF Toggled
    <2>2. Bit(i + s, s) = 1
      BY <1>1, <1>2, <1>3
    <2>3. Toggled(i + s, s) = i
      BY <1>1, <2>2 DEF Toggled
    <2>4. \A t \in Steps : t # s => Bit(i + s, t) = Bit(i, t)
      BY <1>1, <1>3, ToggleSetsOneBit
    <2> QED BY <1>3, <2>1, <2>2, <2>3, <2>4
  <1>4. CASE Bit(i, s) = 1
    <2> DEFINE j == i - s
    <2>1. j \in Index /\ Toggled(i, s) = j /\ j + s = i
      BY <1>1, <1>4, PartnerInBlock DEF Toggled
    <2> HIDE DEF j
    <2>2. Bit(j, s) = 0
      <3>1. (j + s) \div s = (j \div s) + 1 /\ j \div s \in Nat
        BY <1>1, <2>1, Partner, BitTypes
      <3>2. \A n \in Nat : (n + 1) % 2 = 1 => n % 2 = 0
        OBVIOUS
      <3>3. ((j \div s) + 1) % 2 = 1
        BY <1>4, <2>1, <3>1 DEF Bit
      <3>4. (j \div s) % 2 = 0
        BY <3>1, <3>2, <3>3
      <3> QED BY <3>4 DEF Bit
    <2>3. Toggled(j, s) = i
      BY <2>1, <2>2 DEF Toggled
    <2>4. \A t \in Steps : t # s => Bit(j + s, t) = Bit(j, t)
      BY <1>1, <2>1, <2>2, ToggleSetsOneBit
    <2> QED BY <1>4, <2>1, <2>2, <2>3, <2>4
  <1> QED BY <1>3, <1>4, PartnerInBlock

\* Turning bit s over changes the inner product with the messages that have it.
LEMMA ProductToggles ==
    ASSUME NEW m \in Nat, NEW i \in Index, NEW s \in Steps
    PROVE  InnerProduct(m, Toggled(i, s)) =
              IF Bit(m, s) = 1 THEN 1 - InnerProduct(m, i) ELSE InnerProduct(m, i)
  <1> DEFINE j == Toggled(i, s)
             Both(y) == {t \in Steps : Bit(m, t) = 1 /\ Bit(y, t) = 1}
  <1>1. /\ j \in Index /\ Bit(i, s) \in {0, 1} /\ Bit(j, s) = 1 - Bit(i, s)
        /\ \A t \in Steps : t # s => Bit(j, t) = Bit(i, t)
    BY Toggling
  <1>2. \A y : IsFiniteSet(Both(y)) /\ Cardinality(Both(y)) \in Nat
    <2> TAKE y
    <2>1. Both(y) \subseteq Steps
      OBVIOUS
    <2> HIDE DEF Both
    <2> QED BY <2>1, LevelsFinite, FS_Subset, FS_CardinalityType
  <1>3. InnerProduct(m, i) = Cardinality(Both(i)) % 2 /\ InnerProduct(m, j) = Cardinality(Both(j)) % 2
    BY DEF InnerProduct
  <1>4. \A n \in Nat : (n + 1) % 2 = 1 - (n % 2)
    OBVIOUS
  <1> HIDE DEF j
  <1>5. CASE Bit(m, s) # 1
    <2>1. Both(j) = Both(i)
      BY <1>1, <1>5
    <2> HIDE DEF Both
    <2> QED BY <1>3, <1>5, <2>1 DEF j
  <1>6. CASE Bit(m, s) = 1 /\ Bit(i, s) = 0
    <2>1. Both(j) = Both(i) \cup {s} /\ s \notin Both(i)
      <3>1. \A t \in Steps : /\ t # s => Bit(j, t) = Bit(i, t)
                             /\ t = s => Bit(m, t) = 1 /\ Bit(j, t) = 1 /\ Bit(i, t) # 1
        BY <1>1, <1>6
      <3>2. \A t \in Steps : Bit(m, t) = 1 /\ Bit(j, t) = 1 <=>
                              (Bit(m, t) = 1 /\ Bit(i, t) = 1) \/ t = s
        BY <3>1
      <3> QED BY <3>1, <3>2, Zenon
    <2> HIDE DEF Both
    <2>2. Cardinality(Both(j)) = Cardinality(Both(i)) + 1
      <3>1. IsFiniteSet(Both(i))
        BY <1>2
      <3>2. Cardinality(Both(i) \cup {s}) = Cardinality(Both(i)) + 1
        BY <2>1, <3>1, FS_AddElement
      <3> QED BY <2>1, <3>2
    <2> QED BY <1>2, <1>3, <1>4, <1>6, <2>2 DEF j
  <1>7. CASE Bit(m, s) = 1 /\ Bit(i, s) = 1
    <2>1. Both(i) = Both(j) \cup {s} /\ s \notin Both(j)
      <3>1. \A t \in Steps : /\ t # s => Bit(j, t) = Bit(i, t)
                             /\ t = s => Bit(m, t) = 1 /\ Bit(i, t) = 1 /\ Bit(j, t) # 1
        BY <1>1, <1>7
      <3>2. \A t \in Steps : Bit(m, t) = 1 /\ Bit(i, t) = 1 <=>
                              (Bit(m, t) = 1 /\ Bit(j, t) = 1) \/ t = s
        BY <3>1
      <3> QED BY <3>1, <3>2, Zenon
    <2> HIDE DEF Both
    <2>2. Cardinality(Both(i)) = Cardinality(Both(j)) + 1
      <3>1. IsFiniteSet(Both(j))
        BY <1>2
      <3>2. Cardinality(Both(j) \cup {s}) = Cardinality(Both(j)) + 1
        BY <2>1, <3>1, FS_AddElement
      <3> QED BY <2>1, <3>2
    <2>3. Cardinality(Both(i)) % 2 = 1 - (Cardinality(Both(j)) % 2)
      BY <1>2, <1>4, <2>2
    <2>4. Cardinality(Both(j)) % 2 \in {0, 1}
      BY <1>2
    <2> QED BY <1>3, <1>7, <2>3, <2>4 DEF j
  <1> QED BY <1>1, <1>5, <1>6, <1>7

LEMMA InCodeword ==
    ASSUME NEW m \in Messages, NEW i \in Index
    PROVE  /\ i \in rm_encode_byte(m) <=> Bit(m, Len) # InnerProduct(m, i)
           /\ Bit(m, Len) \in {0, 1} /\ InnerProduct(m, i) \in {0, 1}
  <1>1. m \in Nat /\ i \in Nat /\ Bit(m, Len) \in {0, 1}
    BY MessageParts DEF Index
  <1>2. InnerProduct(m, i) \in {0, 1}
    BY <1>1, SignAtEnds
  <1>3. i \in rm_encode_byte(m) <=> (Bit(m, Len) + InnerProduct(m, i)) % 2 = 1
    BY DEF rm_encode_byte
  <1>4. \A a, b \in {0, 1} : (a + b) % 2 = 1 <=> a # b
    OBVIOUS
  <1> QED BY <1>1, <1>2, <1>3, <1>4

\* The bits two codewords differ in: at least half of them.
Differing(m, n) == {i \in Index : ~(i \in rm_encode_byte(m) <=> i \in rm_encode_byte(n))}

LEMMA CodewordsDiffer ==
    ASSUME NEW m \in Messages, NEW n \in Messages, m # n
    PROVE  Len <= 2 * Cardinality(Differing(m, n))
  <1> DEFINE D == Differing(m, n)
             E == Index \ D
  <1>1. /\ IsFiniteSet(Index) /\ D \subseteq Index /\ IsFiniteSet(D) /\ IsFiniteSet(E)
        /\ Cardinality(D) \in Nat /\ Cardinality(E) \in Nat
    <2>1. IsFiniteSet(Index) /\ D \subseteq Index /\ E \subseteq Index
      BY LevelsFinite DEF Differing
    <2> HIDE DEF D, E
    <2> QED BY <2>1, FS_Subset, FS_CardinalityType
  <1>2. Cardinality(Index) = Len
    <2>1. 0 \in Int /\ Len - 1 \in Int /\ ~(0 > Len - 1) /\ (Len - 1) - 0 + 1 = Len
      BY LevelTypes
    <2> QED BY <2>1, FS_Interval DEF Index
  <1>3. Cardinality(E) = Len - Cardinality(D)
    <2>1. Cardinality(Index \ D) = Cardinality(Index) - Cardinality(Index \cap D)
      BY <1>1, FS_Difference
    <2>2. Index \cap D = D
      BY <1>1
    <2> QED BY <1>2, <2>1, <2>2
  <1>4. CASE \E s \in Steps : Bit(m, s) # Bit(n, s)
    <2>1. PICK s \in Steps : Bit(m, s) # Bit(n, s)
      BY <1>4
    <2>2. m \in Nat /\ n \in Nat /\ s \in Levels
      BY MessageParts DEF Levels
    <2>3. Bit(m, s) \in {0, 1} /\ Bit(n, s) \in {0, 1}
      BY <2>2, BitTypes
    <2>4. ASSUME NEW i \in E PROVE Toggled(i, s) \in D
      <3>1. i \in Index /\ Toggled(i, s) \in Index
        BY Toggling
      <3>2. /\ InnerProduct(m, Toggled(i, s)) =
                  IF Bit(m, s) = 1 THEN 1 - InnerProduct(m, i) ELSE InnerProduct(m, i)
            /\ InnerProduct(n, Toggled(i, s)) =
                  IF Bit(n, s) = 1 THEN 1 - InnerProduct(n, i) ELSE InnerProduct(n, i)
        BY <2>2, <3>1, ProductToggles
      <3>3. \A y \in Index : /\ y \in rm_encode_byte(m) <=> Bit(m, Len) # InnerProduct(m, y)
                             /\ y \in rm_encode_byte(n) <=> Bit(n, Len) # InnerProduct(n, y)
                             /\ InnerProduct(m, y) \in {0, 1} /\ InnerProduct(n, y) \in {0, 1}
                             /\ Bit(m, Len) \in {0, 1} /\ Bit(n, Len) \in {0, 1}
        BY InCodeword
      <3>4. i \in rm_encode_byte(m) <=> i \in rm_encode_byte(n)
        BY <3>1 DEF Differing
      <3> DEFINE j == Toggled(i, s)
      <3>5. ~(j \in rm_encode_byte(m) <=> j \in rm_encode_byte(n))
        <4> HIDE DEF j
        <4>1. j \in Index
          BY <3>1 DEF j
        <4>2. /\ InnerProduct(m, j) = IF Bit(m, s) = 1 THEN 1 - InnerProduct(m, i) ELSE InnerProduct(m, i)
              /\ InnerProduct(n, j) = IF Bit(n, s) = 1 THEN 1 - InnerProduct(n, i) ELSE InnerProduct(n, i)
          BY <3>2 DEF j
        <4> QED BY <2>1, <2>3, <3>1, <3>3, <3>4, <4>1, <4>2
      <3> QED BY <3>1, <3>5 DEF Differing
    <2> DEFINE g == [i \in E |-> Toggled(i, s)]
    <2>5. g \in Injection(E, D)
      <3>1. g \in [E -> D]
        BY <2>4
      <3>2. ASSUME NEW a \in E, NEW b \in E, g[a] = g[b] PROVE a = b
        <4>1. Toggled(a, s) = Toggled(b, s) /\ a \in Index /\ b \in Index
          BY <3>2
        <4>2. Toggled(Toggled(a, s), s) = a /\ Toggled(Toggled(b, s), s) = b
          BY <4>1, Toggling
        <4> QED BY <4>1, <4>2
      <3> HIDE DEF g
      <3> QED BY <3>1, <3>2 DEF Injection, IsInjective
    <2>6. Cardinality(E) <= Cardinality(D)
      <3> HIDE DEF g, D, E
      <3> QED BY <1>1, <2>5, FS_Injection
    <2> QED BY <1>1, <1>3, <2>6, LevelTypes
  <1>5. CASE \A s \in Steps : Bit(m, s) = Bit(n, s)
    <2>1. Bit(m, Len) # Bit(n, Len)
      BY <1>5, BitsDecide DEF Levels
    <2>2. \A i : InnerProduct(m, i) = InnerProduct(n, i)
      <3> TAKE i
      <3>1. {s \in Steps : Bit(m, s) = 1 /\ Bit(i, s) = 1} = {s \in Steps : Bit(n, s) = 1 /\ Bit(i, s) = 1}
        BY <1>5
      <3> QED BY <3>1 DEF InnerProduct
    <2>3. ASSUME NEW i \in Index PROVE ~(i \in rm_encode_byte(m) <=> i \in rm_encode_byte(n))
      <3>1. /\ i \in rm_encode_byte(m) <=> Bit(m, Len) # InnerProduct(m, i)
            /\ i \in rm_encode_byte(n) <=> Bit(n, Len) # InnerProduct(n, i)
            /\ InnerProduct(m, i) \in {0, 1} /\ Bit(m, Len) \in {0, 1} /\ Bit(n, Len) \in {0, 1}
        BY InCodeword
      <3> QED BY <2>1, <2>2, <3>1
    <2>4. D = Index
      BY <2>3 DEF Differing
    <2> HIDE DEF D
    <2> QED BY <1>2, <2>4, LevelTypes DEF D
  <1> QED BY <1>4, <1>5

SymDiff(A, B) == (A \ B) \cup (B \ A)
Buffer == Copies \X Index

LEMMA BufferFinite ==
    /\ IsFiniteSet(Copies) /\ IsFiniteSet(Buffer)
    /\ Cardinality(Copies) = Multiplicity /\ Cardinality(Index) = Len
    /\ Cardinality(Buffer) = Multiplicity * Len
    /\ \A A \in SUBSET Buffer : IsFiniteSet(A) /\ Cardinality(A) \in Nat
  <1>1. \A n \in Nat \ {0} : IsFiniteSet(0..n-1) /\ Cardinality(0..n-1) = n
    <2> TAKE n \in Nat \ {0}
    <2>1. 0 \in Int /\ n - 1 \in Int /\ ~(0 > n - 1) /\ (n - 1) - 0 + 1 = n
      OBVIOUS
    <2> QED BY <2>1, FS_Interval
  <1>2. /\ IsFiniteSet(Copies) /\ IsFiniteSet(Index)
        /\ Cardinality(Copies) = Multiplicity /\ Cardinality(Index) = Len
    BY <1>1, RmAssumption DEF Copies, Index
  <1>3. IsFiniteSet(Buffer) /\ Cardinality(Buffer) = Multiplicity * Len
    BY <1>2, FS_Product DEF Buffer
  <1> QED BY <1>2, <1>3, FS_Subset, FS_CardinalityType

\* The distance between the copies of two codewords: the code's minimum distance.
LEMMA CopiesDiffer ==
    ASSUME NEW m \in Messages, NEW n \in Messages, m # n
    PROVE  Multiplicity * Len <= 2 * Cardinality(SymDiff(Copied(m), Copied(n)))
  <1> DEFINE D == Differing(m, n)
  <1>1. SymDiff(Copied(m), Copied(n)) = Copies \X D
    <2>1. rm_encode_byte(m) \subseteq Index /\ rm_encode_byte(n) \subseteq Index
      BY DEF rm_encode_byte
    <2> QED BY <2>1 DEF SymDiff, Copied, Differing
  <1>2. IsFiniteSet(D) /\ Cardinality(D) \in Nat /\ Len <= 2 * Cardinality(D)
    <2>1. D \subseteq Index
      BY DEF Differing
    <2> HIDE DEF D
    <2>2. IsFiniteSet(D) /\ Cardinality(D) \in Nat
      BY <2>1, LevelsFinite, FS_Subset, FS_CardinalityType
    <2> QED BY <2>2, CodewordsDiffer DEF D
  <1> HIDE DEF D
  <1>3. Cardinality(Copies \X D) = Multiplicity * Cardinality(D)
    BY <1>2, BufferFinite, FS_Product
  <1> DEFINE c == Cardinality(D)
  <1>4. Multiplicity * Len <= 2 * (Multiplicity * c)
    <2>1. \A u, v, w \in Nat : v <= w => u * v <= u * w
      BY Z3
    <2>2. \A u, v \in Nat : u * (2 * v) = 2 * (u * v)
      BY Z3
    <2>3. Multiplicity \in Nat /\ Len \in Nat /\ c \in Nat /\ 2 * c \in Nat /\ Len <= 2 * c
      BY <1>2, RmAssumption
    <2> HIDE DEF c
    <2> QED BY <2>1, <2>2, <2>3
  <1> QED BY <1>1, <1>3, <1>4

LEMMA Triangle ==
    ASSUME NEW A \in SUBSET Buffer, NEW B \in SUBSET Buffer, NEW C \in SUBSET Buffer
    PROVE  Cardinality(SymDiff(A, C)) <= Cardinality(SymDiff(B, A)) + Cardinality(SymDiff(B, C))
  <1> DEFINE p == SymDiff(B, A)
             q == SymDiff(B, C)
             r == SymDiff(A, C)
  <1>1. p \in SUBSET Buffer /\ q \in SUBSET Buffer /\ r \in SUBSET (p \cup q)
    BY DEF SymDiff
  <1> HIDE DEF p, q, r
  <1>2. /\ IsFiniteSet(p) /\ IsFiniteSet(q) /\ Cardinality(p) \in Nat /\ Cardinality(q) \in Nat
        /\ Cardinality(p \cap q) \in Nat
    <2>1. p \cap q \in SUBSET Buffer
      BY <1>1
    <2> QED BY <1>1, <2>1, BufferFinite
  <1>3. IsFiniteSet(p \cup q) /\ Cardinality(p \cup q) = Cardinality(p) + Cardinality(q) - Cardinality(p \cap q)
    BY <1>2, FS_Union
  <1>4. IsFiniteSet(r) /\ Cardinality(r) \in Nat /\ Cardinality(r) <= Cardinality(p \cup q)
    BY <1>1, <1>3, FS_Subset, FS_CardinalityType
  <1>5. Cardinality(r) <= Cardinality(p) + Cardinality(q)
    BY <1>2, <1>3, <1>4
  <1> QED BY <1>5 DEF p, q, r

-----------------------------------------------------------------------------
(* The transform counts the bits that differ.                              *)

LEMMA DisjointUnion ==
    ASSUME NEW S, IsFiniteSet(S), NEW T, IsFiniteSet(T), S \cap T = {}
    PROVE  Cardinality(S \cup T) = Cardinality(S) + Cardinality(T)
  <1>1. Cardinality(S \cup T) = Cardinality(S) + Cardinality(T) - Cardinality(S \cap T)
    BY FS_Union
  <1>2. Cardinality(S \cap T) = 0 /\ Cardinality(S) \in Nat /\ Cardinality(T) \in Nat
    BY FS_EmptySet, FS_CardinalityType
  <1> QED BY <1>1, <1>2

Column(E, i) == {c \in Copies : <<c, i>> \in E}
Part(E, D) == {p \in E : p[2] \in D}

LEMMA ColumnCount ==
    ASSUME NEW E \in SUBSET Buffer, NEW i \in Index
    PROVE  /\ IsFiniteSet(Column(E, i)) /\ Cardinality(Column(E, i)) \in Nat
           /\ Cardinality(Part(E, {i})) = Cardinality(Column(E, i))
  <1> DEFINE S == Column(E, i)
             T == Part(E, {i})
             g == [c \in S |-> <<c, i>>]
  <1>1. IsFiniteSet(S) /\ Cardinality(S) \in Nat
    <2>1. S \subseteq Copies
      BY DEF Column
    <2> HIDE DEF S
    <2> QED BY <2>1, BufferFinite, FS_Subset, FS_CardinalityType
  <1>2. g \in [S -> T]
    BY DEF Column, Part
  <1>3. ASSUME NEW p \in T PROVE \E c \in S : g[c] = p
    <2>1. p \in E /\ p[2] = i /\ p \in Copies \X Index
      BY DEF Part, Buffer
    <2>2. p = <<p[1], i>> /\ p[1] \in Copies
      BY <2>1
    <2>3. p[1] \in S
      BY <2>1, <2>2 DEF Column
    <2>4. g[p[1]] = p
      BY <2>2, <2>3
    <2> QED BY <2>3, <2>4
  <1>4. \A a, b \in S : g[a] = g[b] => a = b
    OBVIOUS
  <1> HIDE DEF g, S, T
  <1>5. g \in Bijection(S, T)
    BY <1>2, <1>3, <1>4 DEF Bijection, Injection, IsInjective, Surjection
  <1>6. ExistsBijection(S, T)
    BY <1>5 DEF ExistsBijection
  <1>7. Cardinality(T) = Cardinality(S)
    BY <1>1, <1>6, FS_Bijection
  <1> QED BY <1>1, <1>7 DEF S, T

\* A sum of votes is the number of bits voted on less twice the ones among them.
LEMMA SumOfVotes ==
    ASSUME NEW E \in SUBSET Buffer, NEW w \in [Index -> Int],
           \A i \in Index : w[i] = Multiplicity - 2 * Cardinality(Column(E, i))
    PROVE  SumFunctionOnSet(w, Index) = Multiplicity * Len - 2 * Cardinality(E)
  <1> DEFINE Sum(D) == SumFunctionOnSet(w, D)
             Good == {D \in SUBSET Index :
                        Sum(D) = Multiplicity * Cardinality(D) - 2 * Cardinality(Part(E, D))}
  <1>1. {} \in Good
    <2>1. Sum({}) = 0
      BY LevelsFinite, SumLaws
    <2>2. Part(E, {}) = {} /\ Cardinality({}) = 0
      BY FS_EmptySet DEF Part
    <2>3. Multiplicity * 0 - 2 * 0 = 0
      BY RmAssumption
    <2>4. Sum({}) = Multiplicity * Cardinality({}) - 2 * Cardinality(Part(E, {}))
      <3> HIDE DEF Sum
      <3> QED BY <2>1, <2>2, <2>3, Zenon
    <2> HIDE DEF Sum
    <2> QED BY <2>4
  <1>2. ASSUME NEW D \in SUBSET Index, NEW q \in Index, D \in Good, q \notin D
        PROVE  D \cup {q} \in Good
    <2>1. Sum(D \cup {q}) = w[q] + Sum(D) /\ Sum(D) \in Int
      BY <1>2, LevelsFinite, SumLaws
    <2>2. IsFiniteSet(D) /\ Cardinality(D) \in Nat /\ Cardinality(D \cup {q}) = Cardinality(D) + 1
      BY <1>2, LevelsFinite, FS_Subset, FS_CardinalityType, FS_AddElement
    <2>3. Part(E, D \cup {q}) = Part(E, D) \cup Part(E, {q}) /\ Part(E, D) \cap Part(E, {q}) = {}
          /\ Part(E, D) \in SUBSET Buffer /\ Part(E, {q}) \in SUBSET Buffer
      BY <1>2 DEF Part
    <2>4. /\ IsFiniteSet(Part(E, D)) /\ IsFiniteSet(Part(E, {q}))
          /\ Cardinality(Part(E, D)) \in Nat /\ Cardinality(Part(E, {q})) \in Nat
      BY <2>3, BufferFinite
    <2>5. Cardinality(Part(E, D \cup {q})) = Cardinality(Part(E, D)) + Cardinality(Part(E, {q}))
      <3>1. Cardinality(Part(E, D) \cup Part(E, {q})) =
               Cardinality(Part(E, D)) + Cardinality(Part(E, {q}))
        BY <2>3, <2>4, DisjointUnion
      <3> QED BY <2>3, <3>1, Zenon
    <2>6. w[q] = Multiplicity - 2 * Cardinality(Part(E, {q}))
      BY ColumnCount
    <2> DEFINE a == Cardinality(D)
               b == Cardinality(Part(E, D))
               c == Cardinality(Part(E, {q}))
    <2>7. Sum(D) = Multiplicity * a - 2 * b
      BY <1>2
    <2>8. Multiplicity * (a + 1) = Multiplicity * a + Multiplicity /\ Multiplicity * a \in Nat
      <3>1. \A u, v \in Nat : u * (v + 1) = u * v + u /\ u * v \in Nat
        BY Z3
      <3> QED BY <2>2, <3>1, RmAssumption
    <2>9. Sum(D \cup {q}) = Multiplicity * (a + 1) - 2 * (b + c)
      <3>1. a \in Nat /\ b \in Nat /\ c \in Nat /\ Multiplicity \in Nat
        BY <2>2, <2>4, RmAssumption
      <3>2. Sum(D \cup {q}) = (Multiplicity - 2 * c) + (Multiplicity * a - 2 * b)
        BY <2>1, <2>6, <2>7
      <3> HIDE DEF Sum, a, b, c
      <3> QED BY <2>8, <3>1, <3>2
    <2>10. Cardinality(D \cup {q}) = a + 1 /\ Cardinality(Part(E, D \cup {q})) = b + c
      BY <2>2, <2>5
    <2> HIDE DEF Sum, a, b, c
    <2> QED BY <2>9, <2>10
  <1> HIDE DEF Good
  <1>3. SUBSET Index \subseteq Good
    BY <1>1, <1>2, LevelsFinite, SubsetInduction
  <1>4. Sum(Index) = Multiplicity * Cardinality(Index) - 2 * Cardinality(Part(E, Index))
    BY <1>3 DEF Good
  <1>5. Part(E, Index) = E
    BY DEF Part, Buffer
  <1> QED BY <1>4, <1>5, BufferFinite

LEMMA InCopied ==
    ASSUME NEW m \in Messages
    PROVE  /\ Copied(m) \in SUBSET Buffer
           /\ \A c \in Copies, i \in Index : <<c, i>> \in Copied(m) <=> i \in rm_encode_byte(m)
  BY DEF Copied, Buffer, rm_encode_byte

\* The top bit complements the codeword.
LEMMA TopBitComplements ==
    ASSUME NEW b \in Index
    PROVE  /\ b \in Messages /\ Len + b \in Messages /\ (Len + b) % Len = b /\ b % Len = b
           /\ \A i \in Index : /\ i \in rm_encode_byte(b) <=> InnerProduct(b, i) = 1
                               /\ i \in rm_encode_byte(Len + b) <=> InnerProduct(b, i) = 0
  <1>1. b \in Nat /\ b < Len /\ Len \in Nat \ {0} /\ Len \in Levels /\ b \in 0..Len-1
    BY LevelTypes DEF Index, Levels
  <1>2. b \in Messages /\ Len + b \in Messages
    BY <1>1 DEF Messages
  <1>3. b \div Len = 0 /\ b % Len = b /\ (Len + b) \div Len = 1 /\ (Len + b) % Len = b
    <2>1. b = Len * 0 + b /\ Len + b = Len * 1 + b /\ Len + b \in Nat
      BY <1>1
    <2> QED BY <1>1, <2>1, QuotientIs
  <1>4. Bit(b, Len) = 0 /\ Bit(Len + b, Len) = 1
    BY <1>3 DEF Bit
  <1>5. \A s \in Steps : Bit(Len + b, s) = Bit(b, s)
    <2> TAKE s \in Steps
    <2>1. s < Len /\ Len + b \in Nat
      BY <1>1, LevelTypes
    <2>2. Bit((Len + b) % Len, s) = Bit(Len + b, s)
      BY <1>1, <2>1, LowBits
    <2> QED BY <1>3, <2>2
  <1>6. \A i : InnerProduct(Len + b, i) = InnerProduct(b, i)
    <2> TAKE i
    <2>1. {s \in Steps : Bit(Len + b, s) = 1 /\ Bit(i, s) = 1} = {s \in Steps : Bit(b, s) = 1 /\ Bit(i, s) = 1}
      BY <1>5
    <2> QED BY <2>1 DEF InnerProduct
  <1>7. ASSUME NEW i \in Index
        PROVE  /\ i \in rm_encode_byte(b) <=> InnerProduct(b, i) = 1
               /\ i \in rm_encode_byte(Len + b) <=> InnerProduct(b, i) = 0
    <2>1. /\ i \in rm_encode_byte(b) <=> Bit(b, Len) # InnerProduct(b, i)
          /\ i \in rm_encode_byte(Len + b) <=> Bit(Len + b, Len) # InnerProduct(Len + b, i)
          /\ InnerProduct(b, i) \in {0, 1}
      BY <1>2, InCodeword
    <2> QED BY <1>4, <1>6, <2>1
  <1> QED BY <1>2, <1>3, <1>7

VotesOf(wd) == [i \in Index |-> Multiplicity - 2 * Cardinality(Column(wd, i))]

\* The transformed vote at b is the votes for the codeword of b less those against.
LEMMA TransformMeasures ==
    ASSUME NEW wd \in SUBSET Buffer, NEW b \in Index
    PROVE  /\ VotesOf(wd) \in [Index -> Int]
           /\ Transform(VotesOf(wd), b, Len) =
                 Multiplicity * Len - 2 * Cardinality(SymDiff(wd, Copied(b)))
           /\ Cardinality(SymDiff(wd, Copied(Len + b))) =
                 Multiplicity * Len - Cardinality(SymDiff(wd, Copied(b)))
  <1> DEFINE w == VotesOf(wd)
             e == Signed(w, b, Len)
             E == SymDiff(wd, Copied(b))
  <1>1. /\ Len \in Levels /\ b \in Nat /\ b \in Messages /\ Len + b \in Messages /\ b % Len = b
        /\ \A i \in Index : /\ i \in Nat /\ i % Len = i /\ i \div Len = 0
                            /\ i \in rm_encode_byte(b) <=> InnerProduct(b, i) = 1
                            /\ i \in rm_encode_byte(Len + b) <=> InnerProduct(b, i) = 0
                            /\ InnerProduct(b, i) \in {0, 1}
    <2>1. \A i \in Index : i % Len = i /\ i \in Nat
      BY TopBitComplements DEF Index
    <2>2. \A i \in Index : i \div Len = 0
      <3> TAKE i \in Index
      <3>1. i = Len * 0 + i /\ i \in 0..Len-1 /\ i \in Nat /\ Len \in Nat \ {0}
        BY LevelTypes DEF Index
      <3> QED BY <3>1, QuotientIs
    <2> QED BY <2>1, <2>2, TopBitComplements, SignAtEnds DEF Levels
  <1>2. \A i \in Index : IsFiniteSet(Column(wd, i)) /\ Cardinality(Column(wd, i)) \in Nat
    BY ColumnCount
  <1>3. w \in [Index -> Int]
    BY <1>2, RmAssumption DEF VotesOf
  <1>4. E \in SUBSET Buffer /\ Copied(b) \in SUBSET Buffer /\ Copied(Len + b) \in SUBSET Buffer
    BY <1>1, InCopied DEF SymDiff
  <1>5. ASSUME NEW i \in Index
        PROVE  e[i] = Multiplicity - 2 * Cardinality(Column(E, i))
    <2>1. e[i] = IF InnerProduct(b, i) = 0 THEN w[i] ELSE -w[i]
      BY <1>1 DEF Signed
    <2>2. w[i] = Multiplicity - 2 * Cardinality(Column(wd, i))
      BY DEF VotesOf
    <2>3. \A c \in Copies : <<c, i>> \in Copied(b) <=> InnerProduct(b, i) = 1
      BY <1>1, InCopied
    <2>4. CASE InnerProduct(b, i) = 0
      <3>1. Column(E, i) = Column(wd, i)
        BY <2>3, <2>4 DEF Column, SymDiff
      <3> QED BY <2>1, <2>2, <2>4, <3>1
    <2>5. CASE InnerProduct(b, i) = 1
      <3>1. Column(E, i) = Copies \ Column(wd, i)
        BY <2>3, <2>5 DEF Column, SymDiff
      <3>2. Cardinality(Copies \ Column(wd, i)) = Cardinality(Copies) - Cardinality(Copies \cap Column(wd, i))
        BY BufferFinite, FS_Difference
      <3>3. Copies \cap Column(wd, i) = Column(wd, i)
        BY DEF Column
      <3>4. Cardinality(Column(E, i)) = Multiplicity - Cardinality(Column(wd, i))
        BY <3>1, <3>2, <3>3, BufferFinite
      <3>5. Multiplicity \in Nat /\ Cardinality(Column(wd, i)) \in Nat
        BY <1>2, RmAssumption
      <3>6. e[i] = -w[i]
        BY <2>1, <2>5
      <3> HIDE DEF e, w, E
      <3> QED BY <2>2, <3>4, <3>5, <3>6
    <2> QED BY <1>1, <2>4, <2>5
  <1>6. e \in [Index -> Int]
    BY <1>1, <1>3, SignedTypes
  <1>7. SumFunctionOnSet(e, Index) = Multiplicity * Len - 2 * Cardinality(E)
    <2> HIDE DEF e, E
    <2> QED BY <1>4, <1>5, <1>6, SumOfVotes
  <1>8. Block(b, Len) = Index
    BY <1>1 DEF Block
  <1>9. SymDiff(wd, Copied(Len + b)) = Buffer \ E
    <2>1. ASSUME NEW p \in Buffer PROVE p \in Copied(Len + b) <=> p \notin Copied(b)
      <3>1. PICK c \in Copies, i \in Index : p = <<c, i>>
        BY DEF Buffer
      <3>2. /\ <<c, i>> \in Copied(b) <=> i \in rm_encode_byte(b)
            /\ <<c, i>> \in Copied(Len + b) <=> i \in rm_encode_byte(Len + b)
        BY <1>1, InCopied
      <3>3. i \in rm_encode_byte(Len + b) <=> ~(i \in rm_encode_byte(b))
        <4>1. /\ i \in rm_encode_byte(b) <=> InnerProduct(b, i) = 1
              /\ i \in rm_encode_byte(Len + b) <=> InnerProduct(b, i) = 0
              /\ InnerProduct(b, i) \in {0, 1}
          BY <1>1
        <4> QED BY <4>1
      <3> QED BY <3>1, <3>2, <3>3
    <2> QED BY <1>4, <2>1 DEF SymDiff
  <1>10. Cardinality(Buffer \ E) = Multiplicity * Len - Cardinality(E)
    <2>1. Cardinality(Buffer \ E) = Cardinality(Buffer) - Cardinality(Buffer \cap E)
      BY BufferFinite, FS_Difference
    <2>2. Buffer \cap E = E
      BY <1>4
    <2> QED BY <2>1, <2>2, BufferFinite
  <1> QED BY <1>3, <1>7, <1>8, <1>9, <1>10 DEF Transform

-----------------------------------------------------------------------------
(* The state of the codec.                                                 *)

\* What every state holds: the copies written, disturbed as recorded, the votes
\* tallied and the level the transform is at.
CodeInv ==
    /\ TypeOK
    /\ pc = "encode" => word = (0..rep-1) \X rm_encode_byte(sent)
    /\ pc = "channel" => word = Copied(sent) /\ rep = 0
    /\ pc \in {"encode", "channel"} => f = Zeros
    /\ pc \in {"encode", "channel", "tally"} => step = 1
    /\ pc \notin {"encode", "channel"} => word = SymDiff(Copied(sent), flipped)
    /\ pc = "tally" =>
          \A i \in Index : f[i] = rep - 2 * Cardinality({c \in 0..rep-1 : <<c, i>> \in word})
    /\ pc \in {"wht", "scan", "done"} => \A i \in Index : f[i] = Transform(VotesOf(word), i, step)
    /\ pc \in {"scan", "done"} => step = Len
    /\ pc = "done" => k = Len

LEMMA CodeInit == Init => CodeInv
  <1> SUFFICES ASSUME Init PROVE CodeInv
    OBVIOUS
  <1>1. 0..(0-1) = {}
    OBVIOUS
  <1>2. word = (0..rep-1) \X rm_encode_byte(sent)
    BY <1>1 DEF Init
  <1> QED BY <1>2, TypeInit DEF Init, CodeInv

LEMMA EncodeKeepsCode == CodeInv /\ EncodeCopy => CodeInv'
  <1> SUFFICES ASSUME CodeInv, EncodeCopy PROVE CodeInv'
    OBVIOUS
  <1>t. TypeOK /\ TypeOK'
    BY TypeNext DEF CodeInv, Next
  <1>1. rep \in Copies /\ rep \in Nat /\ sent' = sent /\ f' = f /\ step' = step /\ pc = "encode"
    BY <1>t DEF EncodeCopy, TypeOK, Copies
  <1>2. word' = (0..rep) \X rm_encode_byte(sent)
    <2>1. word' = word \cup {<<rep, i>> : i \in rm_encode_byte(sent)}
      BY DEF EncodeCopy
    <2>2. 0..rep = (0..rep-1) \cup {rep}
      BY <1>1
    <2>3. word = (0..rep-1) \X rm_encode_byte(sent)
      BY <1>1 DEF CodeInv
    <2> QED BY <2>1, <2>2, <2>3
  <1>3. f = Zeros /\ step = 1
    BY <1>1 DEF CodeInv
  <1>4. CASE rep + 1 < Multiplicity
    <2>1. rep' = rep + 1 /\ pc' = "encode"
      BY <1>4 DEF EncodeCopy
    <2>2. rep' - 1 = rep
      BY <1>1, <2>1
    <2> QED BY <1>t, <1>1, <1>2, <1>3, <2>1, <2>2 DEF CodeInv, Zeros
  <1>5. CASE ~(rep + 1 < Multiplicity)
    <2>1. rep' = 0 /\ pc' = "channel"
      BY <1>5 DEF EncodeCopy
    <2>2. 0..rep = Copies
      BY <1>1, <1>5 DEF Copies
    <2>3. word' = Copied(sent)'
      BY <1>1, <1>2, <2>2 DEF Copied
    <2> QED BY <1>t, <1>1, <1>3, <2>1, <2>3 DEF CodeInv, Zeros
  <1> QED BY <1>4, <1>5

LEMMA DisturbKeepsCode == CodeInv /\ Disturb => CodeInv'
  <1> SUFFICES ASSUME CodeInv, Disturb PROVE CodeInv'
    OBVIOUS
  <1>t. TypeOK /\ TypeOK'
    BY TypeNext DEF CodeInv, Next
  <1>1. /\ sent' = sent /\ f' = f /\ step' = step /\ rep' = rep /\ pc = "channel" /\ pc' = "tally"
        /\ word = Copied(sent) /\ rep = 0 /\ f = Zeros /\ step = 1
    BY DEF Disturb, CodeInv
  <1>2. word' = SymDiff(Copied(sent), flipped)'
    BY <1>1 DEF Disturb, SymDiff, Copied
  <1>3. ASSUME NEW i \in Index
        PROVE  f'[i] = rep' - 2 * Cardinality({c \in 0..rep'-1 : <<c, i>> \in word'})
    <2>1. {c \in 0..rep'-1 : <<c, i>> \in word'} = {}
      BY <1>1
    <2>2. f'[i] = 0 /\ 0 - 2 * 0 = 0
      BY <1>1 DEF Zeros
    <2> QED BY <1>1, <2>1, <2>2, FS_EmptySet
  <1> QED BY <1>t, <1>1, <1>2, <1>3 DEF CodeInv

LEMMA TallyKeepsCode == CodeInv /\ TallyCopy => CodeInv'
  <1> SUFFICES ASSUME CodeInv, TallyCopy PROVE CodeInv'
    OBVIOUS
  <1>t. TypeOK /\ TypeOK'
    BY TypeNext DEF CodeInv, Next
  <1>1. /\ sent' = sent /\ word' = word /\ flipped' = flipped /\ step' = step /\ pc = "tally"
        /\ rep \in Nat /\ rep \in Copies /\ step = 1 /\ word = SymDiff(Copied(sent), flipped)
    BY <1>t DEF TallyCopy, CodeInv, TypeOK, Copies
  <1> DEFINE Ones(n, i) == {c \in 0..n-1 : <<c, i>> \in word}
  <1>2. ASSUME NEW i \in Index
        PROVE  f'[i] = (rep + 1) - 2 * Cardinality(Ones(rep + 1, i))
    <2>1. f'[i] = f[i] + Vote(word, i) /\ f[i] = rep - 2 * Cardinality(Ones(rep, i))
      BY <1>1 DEF TallyCopy, CodeInv
    <2>2. IsFiniteSet(Ones(rep, i)) /\ Cardinality(Ones(rep, i)) \in Nat
      <3>1. 0 \in Int /\ rep - 1 \in Int
        BY <1>1
      <3>2. IsFiniteSet(0..rep-1) /\ Ones(rep, i) \subseteq 0..rep-1
        BY <3>1, FS_Interval
      <3> HIDE DEF Ones
      <3> QED BY <3>2, FS_Subset, FS_CardinalityType
    <2>3. 0..(rep+1)-1 = (0..rep-1) \cup {rep} /\ rep \notin 0..rep-1
      BY <1>1
    <2>4. CASE <<rep, i>> \in word
      <3>1. Ones(rep + 1, i) = Ones(rep, i) \cup {rep} /\ rep \notin Ones(rep, i)
        BY <2>3, <2>4
      <3>2. Vote(word, i) = -1
        BY <2>4 DEF Vote
      <3> HIDE DEF Ones
      <3>3. Cardinality(Ones(rep + 1, i)) = Cardinality(Ones(rep, i)) + 1
        BY <2>2, <3>1, FS_AddElement
      <3> QED BY <1>1, <2>1, <2>2, <3>2, <3>3
    <2>5. CASE <<rep, i>> \notin word
      <3>1. Ones(rep + 1, i) = Ones(rep, i)
        BY <2>3, <2>5
      <3>2. Vote(word, i) = 1
        BY <2>5 DEF Vote
      <3> HIDE DEF Ones
      <3> QED BY <1>1, <2>1, <2>2, <3>1, <3>2
    <2> QED BY <2>4, <2>5
  <1>3. CASE rep + 1 < Multiplicity
    <2>1. rep' = rep + 1 /\ pc' = "tally"
      BY <1>3 DEF TallyCopy
    <2>2. \A i \in Index : f'[i] = rep' - 2 * Cardinality({c \in 0..rep'-1 : <<c, i>> \in word'})
      BY <1>1, <1>2, <2>1
    <2>3. SymDiff(Copied(sent), flipped)' = SymDiff(Copied(sent), flipped)
      BY <1>1 DEF SymDiff, Copied
    <2> QED BY <1>t, <1>1, <2>1, <2>2, <2>3 DEF CodeInv
  <1>4. CASE ~(rep + 1 < Multiplicity)
    <2>1. rep' = 0 /\ pc' = "wht" /\ rep + 1 = Multiplicity
      BY <1>1, <1>4 DEF TallyCopy, Copies
    <2>2. VotesOf(word) \in [Index -> Int]
      BY <1>t, TransformMeasures DEF TypeOK, Buffer, VotesOf
    <2>3. ASSUME NEW i \in Index PROVE f'[i] = Transform(VotesOf(word), i, 1)
      <3>1. Transform(VotesOf(word), i, 1) = VotesOf(word)[i]
        BY <2>2, TransformStarts
      <3>2. Ones(rep + 1, i) = Column(word, i)
        BY <2>1 DEF Column, Copies
      <3>3. VotesOf(word)[i] = Multiplicity - 2 * Cardinality(Column(word, i))
        BY DEF VotesOf
      <3> HIDE DEF Ones
      <3> QED BY <1>2, <2>1, <3>1, <3>2, <3>3
    <2>4. SymDiff(Copied(sent), flipped)' = SymDiff(Copied(sent), flipped)
      BY <1>1 DEF SymDiff, Copied
    <2>5. \A i \in Index : f'[i] = Transform(VotesOf(word'), i, step')
      BY <1>1, <2>3
    <2> QED BY <1>t, <1>1, <2>1, <2>4, <2>5 DEF CodeInv
  <1> QED BY <1>3, <1>4

LEMMA WhtKeepsCode == CodeInv /\ WhtStage => CodeInv'
  <1> SUFFICES ASSUME CodeInv, WhtStage PROVE CodeInv'
    OBVIOUS
  <1>t. TypeOK /\ TypeOK'
    BY TypeNext DEF CodeInv, Next
  <1>1. /\ sent' = sent /\ word' = word /\ flipped' = flipped /\ rep' = rep /\ pc = "wht" /\ pc' = "wht"
        /\ f' = Butterfly(f, step) /\ step' = 2 * step
        /\ step \in Steps /\ word = SymDiff(Copied(sent), flipped)
        /\ \A i \in Index : f[i] = Transform(VotesOf(word), i, step)
    BY <1>t DEF WhtStage, CodeInv, TypeOK
  <1> DEFINE w == VotesOf(word)
  <1>2. w \in [Index -> Int]
    <2>1. 0 \in Index /\ word \in SUBSET Buffer
      BY <1>t DEF Index, TypeOK, Buffer
    <2> QED BY <2>1, TransformMeasures
  <1> HIDE DEF w
  <1>3. ASSUME NEW i \in Index PROVE f'[i] = Transform(w, i, 2 * step)
    <2>1. CASE Bit(i, step) = 0
      <3>1. i + step \in Index /\ f'[i] = f[i] + f[i + step]
        BY <1>1, <2>1, PartnerInBlock DEF Butterfly
      <3>2. Transform(w, i, 2 * step) = Transform(w, i, step) + Transform(w, i + step, step)
        BY <1>1, <1>2, <2>1, <3>1, ButterflyTransforms
      <3> QED BY <1>1, <3>1, <3>2 DEF w
    <2>2. CASE Bit(i, step) = 1
      <3> DEFINE j == i - step
      <3>1. j \in Index /\ f'[i] = f[j] - f[i]
        BY <1>1, <2>2, PartnerInBlock DEF Butterfly
      <3>2. Toggled(i, step) = j
        BY <2>2 DEF Toggled
      <3>3. Bit(j, step) = 0 /\ i = j + step
        <4>1. Bit(j, step) = 1 - Bit(i, step)
          BY <1>1, <3>2, Toggling
        <4>2. step \in Nat /\ i \in Nat
          BY <1>1 DEF Index
        <4> QED BY <2>2, <4>1, <4>2
      <3> HIDE DEF j
      <3>4. Transform(w, i, 2 * step) = Transform(w, j, step) - Transform(w, i, step)
        BY <1>1, <1>2, <3>1, <3>3, ButterflyTransforms
      <3> QED BY <1>1, <3>1, <3>4 DEF w
    <2> QED BY <1>1, <2>1, <2>2, PartnerInBlock
  <1>4. \A i \in Index : f'[i] = Transform(VotesOf(word'), i, step')
    BY <1>1, <1>3 DEF w
  <1>5. SymDiff(Copied(sent), flipped)' = SymDiff(Copied(sent), flipped)
    BY <1>1 DEF SymDiff, Copied
  <1> QED BY <1>t, <1>1, <1>4, <1>5 DEF CodeInv

LEMMA CodeNext == CodeInv /\ [Next]_vars => CodeInv'
  <1> SUFFICES ASSUME CodeInv, [Next]_vars PROVE CodeInv'
    OBVIOUS
  <1>t. TypeOK /\ TypeOK'
    BY TypeNext DEF CodeInv
  <1>1. CASE WhtEnd
    <2>1. /\ UNCHANGED <<sent, word, flipped, rep, f, step, k>> /\ pc = "wht" /\ pc' = "scan"
          /\ step >= Len
      BY <1>1 DEF WhtEnd
    <2>2. step = Len
      BY <1>t, <2>1 DEF TypeOK
    <2> QED BY <1>t, <2>1, <2>2 DEF CodeInv, SymDiff, Copied, VotesOf, Column
  <1>2. CASE ScanStep
    <2>1. /\ UNCHANGED <<sent, word, flipped, rep, f, step>> /\ pc = "scan" /\ pc' \in {"scan", "done"}
          /\ k' = k + 1 /\ (pc' = "done" => ~(k + 1 < Len))
      BY <1>2 DEF ScanStep
    <2>2. pc' = "done" => k' = Len
      BY <1>t, <2>1 DEF TypeOK
    <2> QED BY <1>t, <2>1, <2>2 DEF CodeInv, SymDiff, Copied, VotesOf, Column
  <1>3. CASE UNCHANGED vars
    <2>1. UNCHANGED <<pc, sent, word, flipped, rep, f, step, k>>
      BY <1>3 DEF vars
    <2> QED BY <1>t, <2>1 DEF CodeInv, SymDiff, Copied, VotesOf, Column, Zeros
  <1> QED BY <1>1, <1>2, <1>3, EncodeKeepsCode, DisturbKeepsCode, TallyKeepsCode, WhtKeepsCode DEF Next

LEMMA CodeInvHolds == Spec => []CodeInv
  BY CodeInit, CodeNext, PTL DEF Spec

\* After every stage of wht the array is the Walsh-Hadamard transform over the bits
\* below the stage's distance.
THEOREM WhtIsTransform == Spec => []TransformedSoFar
  <1>1. CodeInv => TransformedSoFar
    <2> SUFFICES ASSUME CodeInv, pc \in {"wht", "scan", "done"}, NEW i \in Index
                 PROVE  f[i] = SumFunctionOnSet(SignedVotes(i), {v \in Index : v \div step = i \div step})
      BY DEF TransformedSoFar
    <2>1. f[i] = Transform(VotesOf(word), i, step)
      BY DEF CodeInv
    <2>2. VotesOf(word) = Votes
      BY DEF VotesOf, Votes, Column
    <2>3. Signed(Votes, i, step) = SignedVotes(i)
      BY DEF Signed, SignedVotes
    <2> QED BY <2>1, <2>2, <2>3 DEF Transform, Block
  <1> QED BY <1>1, CodeInvHolds, PTL

\* The transform gives the distance of every codeword, a peak the least of them.
LEMMA DistancesFromTransform ==
    ASSUME CodeInv, pc = "done", NEW m \in Messages
    PROVE  /\ Distance(m) \in Nat /\ m % Len \in Index /\ f[m % Len] \in Int
           /\ 2 * Distance(m) = IF Bit(m, Len) = 0 THEN Multiplicity * Len - f[m % Len]
                                ELSE Multiplicity * Len + f[m % Len]
           /\ Bit(m, Len) \in {0, 1} /\ m = Bit(m, Len) * Len + (m % Len)
  <1> DEFINE b == m % Len
             ML == Multiplicity * Len
             d == Cardinality(SymDiff(word, Copied(b)))
  <1>1. /\ b \in Index /\ Bit(m, Len) \in {0, 1} /\ m = Bit(m, Len) * Len + b
        /\ word \in SUBSET Buffer /\ f[b] \in Int /\ b \in Messages /\ Len + b \in Messages
    BY MessageParts, TopBitComplements DEF CodeInv, TypeOK, Buffer
  <1>2. f[b] = Transform(VotesOf(word), b, Len)
    BY <1>1 DEF CodeInv
  <1>3. f[b] = ML - 2 * d /\ Cardinality(SymDiff(word, Copied(Len + b))) = ML - d
    BY <1>1, <1>2, TransformMeasures
  <1>4. \A n \in Messages : /\ Distance(n) = Cardinality(SymDiff(word, Copied(n)))
                            /\ Cardinality(SymDiff(word, Copied(n))) \in Nat
    <2> TAKE n \in Messages
    <2>1. SymDiff(word, Copied(n)) \in SUBSET Buffer
      BY <1>1, InCopied DEF SymDiff
    <2> QED BY <2>1, BufferFinite DEF Distance, SymDiff
  <1>5. d \in Nat /\ ML \in Nat
    <2>1. \A u, v \in Nat : u * v \in Nat
      BY Z3
    <2> QED BY <1>1, <1>4, <2>1
  <1>6. Distance(b) = d /\ Distance(Len + b) = ML - d /\ Distance(m) \in Nat
    BY <1>1, <1>3, <1>4
  <1> HIDE DEF b, ML, d
  <1>7. CASE Bit(m, Len) = 0
    <2>1. m = b
      BY <1>1, <1>7 DEF Index
    <2>2. 2 * Distance(m) = ML - f[b]
      BY <1>3, <1>5, <1>6, <2>1
    <2> QED BY <1>1, <1>6, <1>7, <2>2 DEF b, ML
  <1>8. CASE Bit(m, Len) = 1
    <2>1. m = Len + b
      BY <1>1, <1>8 DEF Index
    <2>2. Distance(m) = ML - d
      BY <1>6, <2>1
    <2>3. 2 * Distance(m) = ML + f[b]
      BY <1>3, <1>5, <2>2
    <2> QED BY <1>1, <1>6, <1>8, <2>3 DEF b, ML
  <1> QED BY <1>1, <1>7, <1>8

LEMMA PeakIsNearest ==
    ASSUME CodeInv, ScanKeepsFirstPeak, pc = "done"
    PROVE  /\ decoded_byte \in Messages
           /\ \A m \in Messages :
                \/ Distance(decoded_byte) < Distance(m)
                \/ Distance(decoded_byte) = Distance(m) /\ decoded_byte % Len <= m % Len
  <1> DEFINE ML == Multiplicity * Len
             B == best_idx
             x == decoded_byte
  <1>1. /\ k = Len /\ Len \in Nat \ {0} /\ B \in Index /\ best_neg \in {0, 1} /\ best_abs \in Nat
        /\ f \in [Index -> Int] /\ ML \in Int
    BY LevelTypes DEF CodeInv, TypeOK
  <1>2. /\ \A i \in Index : Magnitude(f[i]) <= best_abs /\ (i < B => Magnitude(f[i]) < best_abs)
        /\ Magnitude(f[B]) = best_abs /\ (best_neg = 1 <=> f[B] < 0)
    BY <1>1 DEF ScanKeepsFirstPeak, Index
  <1>3. /\ x \in Messages /\ x % Len = B /\ Bit(x, Len) = best_neg
    <2>1. x = best_neg * Len + B
      BY DEF decoded_byte
    <2>2. B \in Messages /\ Len + B \in Messages /\ (Len + B) % Len = B /\ B % Len = B
      BY <1>1, TopBitComplements
    <2>3. /\ Bit(B, Len) \in {0, 1} /\ B = Bit(B, Len) * Len + (B % Len)
          /\ Bit(Len + B, Len) \in {0, 1} /\ Len + B = Bit(Len + B, Len) * Len + ((Len + B) % Len)
      BY <2>2, MessageParts
    <2>4. Bit(B, Len) = 0 /\ Bit(Len + B, Len) = 1
      BY <1>1, <2>2, <2>3 DEF Index
    <2>5. CASE best_neg = 0
      <3>1. x = B
        BY <1>1, <2>1, <2>5 DEF Index
      <3> QED BY <2>2, <2>4, <2>5, <3>1
    <2>6. CASE best_neg = 1
      <3>1. x = Len + B
        BY <1>1, <2>1, <2>6 DEF Index
      <3> QED BY <2>2, <2>4, <2>6, <3>1
    <2> QED BY <1>1, <2>5, <2>6
  <1> HIDE DEF x
  <1>4. Distance(x) \in Nat /\ 2 * Distance(x) = ML - best_abs
    <2>1. /\ Distance(x) \in Nat /\ f[B] \in Int
          /\ 2 * Distance(x) = IF best_neg = 0 THEN ML - f[B] ELSE ML + f[B]
      BY <1>3, DistancesFromTransform
    <2> HIDE DEF ML
    <2> QED BY <1>1, <1>2, <2>1 DEF Magnitude
  <1>5. ASSUME NEW m \in Messages
        PROVE  \/ Distance(x) < Distance(m)
               \/ Distance(x) = Distance(m) /\ x % Len <= m % Len
    <2> DEFINE b == m % Len
    <2>1. /\ Distance(m) \in Nat /\ b \in Index /\ f[b] \in Int
          /\ 2 * Distance(m) = IF Bit(m, Len) = 0 THEN ML - f[b] ELSE ML + f[b]
      BY DistancesFromTransform
    <2> HIDE DEF ML, b
    <2>2. 2 * Distance(m) >= ML - Magnitude(f[b])
      BY <1>1, <2>1 DEF Magnitude
    <2>3. Magnitude(f[b]) \in Int /\ Magnitude(f[b]) <= best_abs /\ (b < B => Magnitude(f[b]) < best_abs)
      BY <1>2, <2>1 DEF Magnitude
    <2>4. CASE b < B
      <3>1. Distance(x) < Distance(m)
        BY <1>1, <1>4, <2>1, <2>2, <2>3, <2>4
      <3> QED BY <3>1
    <2>5. CASE B <= b
      <3>1. Distance(x) <= Distance(m)
        BY <1>1, <1>4, <2>1, <2>2, <2>3
      <3>2. x % Len <= m % Len
        BY <1>3, <2>5 DEF b
      <3> QED BY <1>4, <2>1, <3>1, <3>2
    <2> QED BY <1>1, <2>1, <2>4, <2>5 DEF Index
  <1> QED BY <1>3, <1>5 DEF x

LEMMA NoiseIsDistance ==
    ASSUME CodeInv, pc = "done"
    PROVE  sent \in Messages /\ Distance(sent) = Cardinality(flipped) /\ Distance(sent) \in Nat
  <1>1. sent \in Messages /\ flipped \in SUBSET Buffer /\ word = SymDiff(Copied(sent), flipped)
    BY DEF CodeInv, TypeOK, Buffer
  <1>2. (word \ Copied(sent)) \cup (Copied(sent) \ word) = flipped
    BY <1>1 DEF SymDiff
  <1>3. Distance(sent) = Cardinality(flipped)
    BY <1>2 DEF Distance
  <1> QED BY <1>1, <1>3, BufferFinite

\* The inner decoder is maximum likelihood with the tie-break of the header, and it
\* removes every noise below half the minimum distance of the copied code.
THEOREM DecodesToNearest == Spec => []NearestCodeword
  <1>1. CodeInv /\ ScanKeepsFirstPeak => NearestCodeword
    <2> SUFFICES ASSUME CodeInv, ScanKeepsFirstPeak, pc = "done"
                 PROVE  /\ \A m \in Messages :
                             \/ Distance(decoded_byte) < Distance(m)
                             \/ Distance(decoded_byte) = Distance(m) /\ decoded_byte % Len <= m % Len
                        /\ 4 * Cardinality(flipped) < Multiplicity * Len => decoded_byte = sent
      BY DEF NearestCodeword
    <2>1. /\ decoded_byte \in Messages
          /\ \A m \in Messages :
                \/ Distance(decoded_byte) < Distance(m)
                \/ Distance(decoded_byte) = Distance(m) /\ decoded_byte % Len <= m % Len
      BY PeakIsNearest
    <2>2. ASSUME 4 * Cardinality(flipped) < Multiplicity * Len, decoded_byte # sent PROVE FALSE
      <3> DEFINE x == decoded_byte
                 A == Copied(x)
                 B == Copied(sent)
      <3>1. sent \in Messages /\ Distance(sent) = Cardinality(flipped) /\ Distance(sent) \in Nat
        BY NoiseIsDistance
      <3>2. Distance(x) <= Distance(sent) /\ Distance(x) \in Nat
        BY <2>1, <3>1, DistancesFromTransform
      <3>3. Multiplicity * Len <= 2 * Cardinality(SymDiff(A, B))
        BY <2>1, <2>2, <3>1, CopiesDiffer
      <3>4. A \in SUBSET Buffer /\ B \in SUBSET Buffer /\ word \in SUBSET Buffer
        BY <2>1, <3>1, InCopied DEF CodeInv, TypeOK, Buffer
      <3>5. Cardinality(SymDiff(A, B)) <= Cardinality(SymDiff(word, A)) + Cardinality(SymDiff(word, B))
        BY <3>4, Triangle
      <3>6. Distance(x) = Cardinality(SymDiff(word, A)) /\ Distance(sent) = Cardinality(SymDiff(word, B))
        BY DEF Distance, SymDiff
      <3>7. Cardinality(SymDiff(A, B)) \in Nat
        <4>1. SymDiff(A, B) \in SUBSET Buffer
          BY <3>4 DEF SymDiff
        <4> QED BY <4>1, BufferFinite
      <3>8. Multiplicity * Len \in Nat
        <4>1. \A u, v \in Nat : u * v \in Nat
          BY Z3
        <4> QED BY <4>1
      <3> DEFINE ML == Multiplicity * Len
                 s == Cardinality(SymDiff(A, B))
                 d == Distance(x)
                 e == Distance(sent)
      <3>9. ML \in Nat /\ s \in Nat /\ d \in Nat /\ e \in Nat /\ d <= e /\ s <= d + e /\ ML <= 2 * s /\ 4 * e < ML
        BY <2>2, <3>1, <3>2, <3>3, <3>5, <3>6, <3>7, <3>8
      <3> HIDE DEF ML, s, d, e
      <3> QED BY <3>9
    <2> QED BY <2>1, <2>2
  <1> QED BY <1>1, CodeInvHolds, FirstPeak, PTL
-----------------------------------------------------------------------------
(* The promise the concatenated code takes from this decoder.              *)

\* Where a block keeps a bit of the buffer: one copy after the other.
Place(p) == p[1] * Len + p[2]
Places == 0..Multiplicity * Len - 1
\* The bits rm_encode writes into a block, and a block as the decoder reads it.
Written(m) == {c * Len + i : c \in Copies, i \in rm_encode_byte(m)}
AsRead(block) == {p \in Buffer : Place(p) \in block}
Apart(w, m) == Cardinality(SymDiff(w, Copied(m)))

LEMMA PlaceOfBit ==
    /\ \A p \in Buffer : Place(p) \in Places
    /\ \A p, q \in Buffer : Place(p) = Place(q) => p = q
  <1>1. \A a, b, n \in Nat : /\ a * n \in Nat /\ (a + 1) * n = a * n + n
                             /\ a <= b => a * n <= b * n
    <2>1. \A a, b, n \in Nat : a * n \in Nat /\ (a + 1) * n = a * n + n
      BY Z3
    <2>2. \A a, b, n \in Nat : a <= b => a * n <= b * n
      BY Z3
    <2> QED BY <2>1, <2>2
  <1>2. Len \in Nat \ {0} /\ Multiplicity \in Nat \ {0}
    BY RmAssumption
  <1>3. \A p \in Buffer : /\ p[1] \in Nat /\ p[1] + 1 <= Multiplicity /\ p[2] \in 0..Len-1
                          /\ p = <<p[1], p[2]>>
    BY <1>2 DEF Buffer, Copies, Index
  <1>4. ASSUME NEW p \in Buffer PROVE Place(p) \in Places
    <2>1. (p[1] + 1) * Len = p[1] * Len + Len /\ (p[1] + 1) * Len <= Multiplicity * Len
          /\ p[1] * Len \in Nat /\ Multiplicity * Len \in Nat
      BY <1>1, <1>2, <1>3
    <2> DEFINE u == p[1] * Len
               v == Multiplicity * Len
    <2>2. u \in Nat /\ v \in Nat /\ u + Len <= v
      BY <2>1
    <2> HIDE DEF u, v
    <2>3. u + p[2] \in 0..v-1
      BY <1>2, <1>3, <2>2
    <2> QED BY <2>3 DEF u, v, Place, Places
  <1>5. ASSUME NEW p \in Buffer, NEW q \in Buffer, Place(p) = Place(q) PROVE p[1] >= q[1]
    <2> SUFFICES ASSUME p[1] < q[1] PROVE FALSE
      BY <1>3
    <2>1. (p[1] + 1) * Len = p[1] * Len + Len /\ (p[1] + 1) * Len <= q[1] * Len
          /\ p[1] * Len \in Nat /\ q[1] * Len \in Nat
      BY <1>1, <1>2, <1>3
    <2> DEFINE u == p[1] * Len
               v == q[1] * Len
    <2>2. u \in Nat /\ v \in Nat /\ u + Len <= v /\ u + p[2] = v + q[2]
      BY <1>5, <2>1 DEF Place
    <2> HIDE DEF u, v
    <2> QED BY <1>2, <1>3, <2>2
  <1>6. ASSUME NEW p \in Buffer, NEW q \in Buffer, Place(p) = Place(q) PROVE p = q
    <2>1. p[1] = q[1]
      BY <1>3, <1>5, <1>6
    <2>2. p[1] * Len \in Nat
      BY <1>1, <1>2, <1>3
    <2>3. p[2] = q[2]
      <3> DEFINE u == p[1] * Len
      <3>1. u \in Nat /\ u + p[2] = u + q[2]
        BY <1>6, <2>1, <2>2 DEF Place
      <3> HIDE DEF u
      <3> QED BY <1>3, <3>1
    <2> QED BY <1>3, <2>1, <2>3
  <1> QED BY <1>4, <1>6

\* Laid out in a block, a codeword is read back as its copies.
LEMMA WrittenIsRead ==
    ASSUME NEW m \in Messages
    PROVE  /\ Written(m) \subseteq Places
           /\ \A p \in Buffer : Place(p) \in Written(m) <=> p \in Copied(m)
  <1>1. rm_encode_byte(m) \subseteq Index
    BY DEF rm_encode_byte
  <1>2. \A x : x \in Written(m) <=> \E c \in Copies, i \in rm_encode_byte(m) : x = c * Len + i
    BY DEF Written
  <1>3. ASSUME NEW c \in Copies, NEW i \in rm_encode_byte(m)
        PROVE  <<c, i>> \in Buffer /\ <<c, i>> \in Copied(m) /\ Place(<<c, i>>) = c * Len + i
    <2>1. <<c, i>> \in Buffer /\ <<c, i>> \in Copied(m)
      BY <1>1 DEF Buffer, Copied
    <2>2. <<c, i>>[1] = c /\ <<c, i>>[2] = i
      OBVIOUS
    <2> QED BY <2>1, <2>2 DEF Place
  <1>4. ASSUME NEW x \in Written(m) PROVE \E q \in Copied(m) : q \in Buffer /\ x = Place(q)
    <2>1. PICK c \in Copies, i \in rm_encode_byte(m) : x = c * Len + i
      BY <1>2
    <2>2. <<c, i>> \in Buffer /\ <<c, i>> \in Copied(m) /\ x = Place(<<c, i>>)
      BY <1>3, <2>1
    <2> QED BY <2>2
  <1>5. \A q \in Copied(m) : Place(q) \in Written(m)
    BY <1>2 DEF Copied, Place
  <1>6. \A x \in Written(m) : x \in Places
    BY <1>4, PlaceOfBit
  <1>7. ASSUME NEW p \in Buffer, Place(p) \in Written(m) PROVE p \in Copied(m)
    <2>1. PICK q \in Copied(m) : q \in Buffer /\ Place(p) = Place(q)
      BY <1>4, <1>7
    <2>2. p = q
      BY <2>1, PlaceOfBit
    <2> QED BY <2>1, <2>2
  <1> QED BY <1>5, <1>6, <1>7

\* What is read is no farther from a codeword's copies than the block from what was
\* written.
LEMMA ReadingKeepsDistance ==
    ASSUME NEW block \in SUBSET Places, NEW m \in Messages
    PROVE  /\ Cardinality(SymDiff(block, Written(m))) \in Nat
           /\ Apart(AsRead(block), m) <= Cardinality(SymDiff(block, Written(m)))
  <1> DEFINE S == SymDiff(AsRead(block), Copied(m))
             T == SymDiff(block, Written(m))
             g == [p \in S |-> Place(p)]
  <1>1. Copied(m) \subseteq Buffer /\ Written(m) \subseteq Places
    BY InCopied, WrittenIsRead DEF Copied, Buffer, rm_encode_byte
  <1>2. S \subseteq Buffer /\ T \subseteq Places
    BY <1>1 DEF SymDiff, AsRead
  <1>3. \A p \in S : Place(p) \in T
    BY <1>2, WrittenIsRead DEF SymDiff, AsRead
  <1>4. IsFiniteSet(T) /\ Cardinality(T) \in Nat
    <2>1. \A u, v \in Nat : u * v \in Nat
      BY Z3
    <2>2. Multiplicity * Len \in Nat
      BY <2>1, RmAssumption
    <2>3. IsFiniteSet(Places)
      BY <2>2, FS_Interval DEF Places
    <2> HIDE DEF T
    <2> QED BY <1>2, <2>3, FS_Subset, FS_CardinalityType
  <1> HIDE DEF S, T
  <1>5. g \in Injection(S, T)
    <2>1. g \in [S -> T]
      BY <1>3
    <2>2. \A p, q \in S : g[p] = g[q] => p = q
      BY <1>2, PlaceOfBit
    <2> HIDE DEF g
    <2> QED BY <2>1, <2>2 DEF Injection, IsInjective
  <1> HIDE DEF g
  <1>6. Cardinality(S) <= Cardinality(T)
    BY <1>4, <1>5, FS_Injection
  <1> QED BY <1>4, <1>6 DEF S, T, Apart

\* What Codec!CodesPromise says of the inner code (rm_encode and rm_decode as called
\* from codes/mod.rs): whoever answers every buffer with a nearest byte, as
\* DecodesToNearest shows rm_decode to do, answers every block that differs in less
\* than a quarter of its bits from what rm_encode wrote with the byte it wrote.
THEOREM InnerPromise ==
    ASSUME NEW decode \in [SUBSET Buffer -> Messages],
           \A w \in SUBSET Buffer : \A m \in Messages : Apart(w, decode[w]) <= Apart(w, m)
    PROVE  \A block \in SUBSET Places : \A c \in Messages :
              4 * Cardinality(SymDiff(block, Written(c))) < Multiplicity * Len
                  => decode[AsRead(block)] = c
  <1> SUFFICES ASSUME NEW block \in SUBSET Places, NEW c \in Messages,
                      4 * Cardinality(SymDiff(block, Written(c))) < Multiplicity * Len,
                      decode[AsRead(block)] # c
               PROVE  FALSE
    OBVIOUS
  <1> DEFINE w == AsRead(block)
             x == decode[w]
             ML == Multiplicity * Len
             s == Cardinality(SymDiff(Copied(x), Copied(c)))
             d == Apart(w, x)
             e == Apart(w, c)
             n == Cardinality(SymDiff(block, Written(c)))
  <1>1. w \in SUBSET Buffer /\ x \in Messages /\ x # c
    BY DEF AsRead
  <1>2. Copied(x) \in SUBSET Buffer /\ Copied(c) \in SUBSET Buffer
    BY <1>1 DEF Copied, Buffer, rm_encode_byte
  <1>3. d <= e
    BY <1>1
  <1>4. n \in Nat /\ e <= n
    BY ReadingKeepsDistance
  <1> HIDE DEF w, x
  <1>5. ML <= 2 * s
    BY <1>1, CopiesDiffer
  <1>6. s <= d + e
    BY <1>1, <1>2, Triangle DEF Apart
  <1>7. s \in Nat /\ d \in Nat /\ e \in Nat
    <2>1. SymDiff(Copied(x), Copied(c)) \in SUBSET Buffer /\ SymDiff(w, Copied(x)) \in SUBSET Buffer
          /\ SymDiff(w, Copied(c)) \in SUBSET Buffer
      BY <1>1, <1>2 DEF SymDiff
    <2> QED BY <2>1, BufferFinite DEF Apart
  <1>8. ML \in Nat
    <2>1. \A u, v \in Nat : u * v \in Nat
      BY Z3
    <2> QED BY <2>1, RmAssumption
  <1>9. 4 * n < ML
    OBVIOUS
  <1> HIDE DEF ML, s, d, e, n
  <1> QED BY <1>3, <1>4, <1>5, <1>6, <1>7, <1>8, <1>9
=============================================================================
