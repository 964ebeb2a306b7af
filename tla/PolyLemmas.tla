----------------------------- MODULE PolyLemmas -----------------------------
(***************************************************************************)
(* Theorems about ring elements and their bytes, for every word size, byte *)
(* size and dimension: what the operations of Poly and BitPacking do to    *)
(* the set of exponents an array of words stands for, and the laws of the  *)
(* ring these sets form.                                                   *)
(***************************************************************************)
EXTENDS BitPacking, FiniteSetTheorems, WellFoundedInduction, TLAPS

(* Induction, over a set of numbers and over the subsets of a finite set. *)

\* A set that holds 0 and every successor of a member holds every number.
LEMMA NatSetInduction ==
    ASSUME NEW S, 0 \in S, \A n \in Nat : n \in S => n + 1 \in S
    PROVE  Nat \subseteq S
  <1> SUFFICES ASSUME Nat \ S # {} PROVE FALSE
    OBVIOUS
  <1> DEFINE R == OpToRel(<, Nat)
  <1>1. IsWellFoundedOn(R, Nat)
    BY NatLessThanWellFounded
  <1> HIDE DEF R
  <1>2. PICK m \in Nat \ S : \A k \in Nat \ S : ~ (<<k, m>> \in R)
    <2>1. Nat \ S \subseteq Nat
      OBVIOUS
    <2> QED BY <1>1, <2>1, WFMin
  <1>3. m - 1 \in Nat /\ m - 1 \notin S
    <2>1. m # 0 /\ m \in Nat
      BY <1>2
    <2>2. m - 1 \in Nat /\ (m - 1) + 1 = m
      BY <2>1
    <2>3. m \notin S
      BY <1>2
    <2> QED BY <2>2, <2>3
  <1>4. <<m - 1, m>> \in R
    BY <1>2, <1>3 DEF R, OpToRel
  <1> QED BY <1>2, <1>3, <1>4


\* What holds of the empty set and survives one more element holds of every
\* subset; F collects the subsets it holds of.
LEMMA SubsetInduction ==
    ASSUME NEW X, IsFiniteSet(X), NEW F, {} \in F,
           \A A \in SUBSET X, p \in X : A \in F /\ p \notin A => A \cup {p} \in F
    PROVE  SUBSET X \subseteq F
  <1> DEFINE Good == {n \in Nat : \A A \in SUBSET X : Cardinality(A) = n => A \in F}
  <1>1. \A A \in SUBSET X : IsFiniteSet(A) /\ Cardinality(A) \in Nat
    BY FS_Subset, FS_CardinalityType
  <1>2. 0 \in Good
    <2>1. \A A \in SUBSET X : Cardinality(A) = 0 => A = {}
      BY <1>1, FS_EmptySet
    <2> QED BY <2>1
  <1>3. ASSUME NEW n \in Nat, n \in Good PROVE n + 1 \in Good
    <2>1. ASSUME NEW A \in SUBSET X, Cardinality(A) = n + 1 PROVE A \in F
      <3>1. A # {}
        <4>1. n + 1 # 0
          OBVIOUS
        <4> QED BY <2>1, <4>1, FS_EmptySet, Zenon
      <3>2. PICK p \in A : TRUE
        BY <3>1
      <3>3. Cardinality(A \ {p}) = Cardinality(A) - 1
        BY <1>1, FS_RemoveElement
      <3>4. Cardinality(A \ {p}) = n
        BY <2>1, <3>3
      <3>5. A \ {p} \in F
        BY <1>3, <3>4
      <3>6. (A \ {p}) \cup {p} \in F
        BY <3>2, <3>5
      <3>7. (A \ {p}) \cup {p} = A
        BY <3>2
      <3> QED BY <3>6, <3>7
    <2> QED BY <2>1
  <1> HIDE DEF Good
  <1>4. Nat \subseteq Good
    BY <1>2, <1>3, NatSetInduction
  <1> QED BY <1>1, <1>4 DEF Good

-----------------------------------------------------------------------------
(* Parity. *)

LEMMA EmptyIsEven == ~Odd({})
  BY FS_EmptySet DEF Odd

LEMMA OddAdd ==
    ASSUME NEW S, IsFiniteSet(S), NEW x, x \notin S
    PROVE  Odd(S \cup {x}) <=> ~Odd(S)
  <1>1. Cardinality(S) \in Nat /\ Cardinality(S \cup {x}) = Cardinality(S) + 1
    BY FS_AddElement, FS_CardinalityType
  <1>2. \A n \in Nat : (n + 1) % 2 = 1 <=> ~(n % 2 = 1)
    OBVIOUS
  <1> QED BY <1>1, <1>2 DEF Odd

LEMMA OddUnion ==
    ASSUME NEW S, IsFiniteSet(S), NEW T, IsFiniteSet(T), S \cap T = {}
    PROVE  Odd(S \cup T) <=> ~(Odd(S) <=> Odd(T))
  <1>1. Cardinality(S) \in Nat /\ Cardinality(T) \in Nat
        /\ Cardinality(S \cup T) = Cardinality(S) + Cardinality(T)
    <2>1. Cardinality(S \cap T) = 0
      BY FS_EmptySet
    <2>2. Cardinality(S) \in Nat /\ Cardinality(T) \in Nat
      BY FS_CardinalityType
    <2>3. Cardinality(S \cup T) = Cardinality(S) + Cardinality(T) - Cardinality(S \cap T)
      BY FS_Union
    <2> QED BY <2>1, <2>2, <2>3
  <1>2. \A m, n \in Nat : (m + n) % 2 = 1 <=> ~(m % 2 = 1 <=> n % 2 = 1)
    OBVIOUS
  <1> QED BY <1>1, <1>2 DEF Odd


LEMMA OddXor ==
    ASSUME NEW S, IsFiniteSet(S), NEW T, IsFiniteSet(T)
    PROVE  Odd(xor(S, T)) <=> ~(Odd(S) <=> Odd(T))
  <1>1. IsFiniteSet(S \ T) /\ IsFiniteSet(T \ S) /\ IsFiniteSet(S \cap T)
    BY FS_Difference, FS_Intersection
  <1>2. Odd((S \ T) \cup (T \ S)) <=> ~(Odd(S \ T) <=> Odd(T \ S))
    BY <1>1, OddUnion
  <1>3. Odd((S \ T) \cup (S \cap T)) <=> ~(Odd(S \ T) <=> Odd(S \cap T))
    <2>1. (S \ T) \cap (S \cap T) = {}
      OBVIOUS
    <2> QED BY <1>1, <2>1, OddUnion
  <1>4. Odd((T \ S) \cup (S \cap T)) <=> ~(Odd(T \ S) <=> Odd(S \cap T))
    <2>1. (T \ S) \cap (S \cap T) = {}
      OBVIOUS
    <2> QED BY <1>1, <2>1, OddUnion
  <1>5. (S \ T) \cup (S \cap T) = S /\ (T \ S) \cup (S \cap T) = T
    OBVIOUS
  <1> QED BY <1>2, <1>3, <1>4, <1>5 DEF xor

\* Sets that a function f maps onto each other one to one have the same parity.
LEMMA OddBijection ==
    ASSUME NEW S, IsFiniteSet(S), NEW T, NEW f \in [S -> T],
           \A a, b \in S : f[a] = f[b] => a = b,
           \A t \in T : \E s \in S : f[s] = t
    PROVE  Odd(S) <=> Odd(T)
  <1>1. f \in Bijection(S, T)
    BY DEF Bijection, Injection, IsInjective, Surjection
  <1>2. ExistsBijection(S, T)
    BY <1>1 DEF ExistsBijection
  <1>3. Cardinality(T) = Cardinality(S)
    BY <1>2, FS_Bijection
  <1> QED BY <1>3 DEF Odd

-----------------------------------------------------------------------------
(* The ring F2[X]/(X^N - 1).  An element is the set of its exponents. *)

Ring(n) == SUBSET (0..n-1)

\* A difference or a sum of two exponents is reduced by one addition or
\* subtraction of n.
LEMMA Residue ==
    ASSUME NEW n \in Nat \ {0}, NEW p \in 0..n-1, NEW q \in 0..n-1
    PROVE  /\ (p - q) % n = IF q <= p THEN p - q ELSE (p - q) + n
           /\ (p + q) % n = IF p + q < n THEN p + q ELSE (p + q) - n
  <1>1. \A y, m \in Nat : y < m => y % m = y
    BY Z3
  <1>2. \A y \in Int, m \in Nat : (y < 0 /\ y + m >= 0 /\ m > 0) => y % m = y + m
    BY Z3
  <1>3. \A y, m \in Nat : (m <= y /\ y < 2*m) => y % m = y - m
    BY Z3
  <1>4. (p - q) % n = IF q <= p THEN p - q ELSE (p - q) + n
    <2>1. CASE q <= p
      BY <1>1, <2>1
    <2>2. CASE q > p
      <3>1. p - q \in Int /\ p - q < 0 /\ (p - q) + n >= 0 /\ n \in Nat /\ n > 0
        BY <2>2
      <3>2. (p - q) % n = (p - q) + n
        BY <1>2, <3>1
      <3> QED BY <2>2, <3>2
    <2> QED BY <2>1, <2>2
  <1>5. (p + q) % n = IF p + q < n THEN p + q ELSE (p + q) - n
    <2>1. CASE p + q < n
      BY <1>1, <2>1
    <2>2. CASE p + q >= n
      <3>1. p + q \in Nat /\ n \in Nat /\ n <= p + q /\ p + q < 2*n
        BY <2>2
      <3>2. (p + q) % n = (p + q) - n
        BY <1>3, <3>1
      <3> QED BY <2>2, <3>2
    <2> QED BY <2>1, <2>2
  <1> QED BY <1>4, <1>5

LEMMA RingIsFinite ==
    ASSUME NEW n \in Nat \ {0}, NEW A \in Ring(n)
    PROVE  IsFiniteSet(A)
  <1>1. IsFiniteSet(0..n-1)
    BY FS_Interval
  <1> QED BY <1>1, FS_Subset DEF Ring

LEMMA ProductInRing ==
    ASSUME NEW n, NEW A, NEW B
    PROVE  CyclicProduct(A, B, n) \in Ring(n)
  BY DEF CyclicProduct, Ring

LEMMA XorInRing ==
    ASSUME NEW n, NEW A \in Ring(n), NEW B \in Ring(n)
    PROVE  xor(A, B) \in Ring(n)
  BY DEF Ring, xor

\* The product distributes over the sum.
LEMMA ProductDistributes ==
    ASSUME NEW n \in Nat \ {0}, NEW A \in Ring(n), NEW B \in Ring(n), NEW C \in Ring(n)
    PROVE  /\ CyclicProduct(xor(A, B), C, n)
                = xor(CyclicProduct(A, C, n), CyclicProduct(B, C, n))
           /\ CyclicProduct(C, xor(A, B), n)
                = xor(CyclicProduct(C, A, n), CyclicProduct(C, B, n))
  <1> DEFINE L(D, t) == {p \in D : (t - p) % n \in C}
             R(D, t) == {p \in C : (t - p) % n \in D}
  <1>1. ASSUME NEW t \in 0..n-1
        PROVE  /\ Odd(L(xor(A, B), t)) <=> ~(Odd(L(A, t)) <=> Odd(L(B, t)))
               /\ Odd(R(xor(A, B), t)) <=> ~(Odd(R(A, t)) <=> Odd(R(B, t)))
    <2>1. L(xor(A, B), t) = xor(L(A, t), L(B, t)) /\ R(xor(A, B), t) = xor(R(A, t), R(B, t))
      BY DEF xor
    <2>2. \A D \in {A, B} : IsFiniteSet(L(D, t)) /\ IsFiniteSet(R(D, t))
      <3>1. ASSUME NEW D \in {A, B} PROVE L(D, t) \in SUBSET D /\ R(D, t) \in SUBSET C
        OBVIOUS
      <3> QED BY <3>1, RingIsFinite, FS_Subset
    <2> HIDE DEF L, R
    <2> QED BY <2>1, <2>2, OddXor
  <1> HIDE DEF L, R
  <1>2. \A D : /\ CyclicProduct(D, C, n) = {t \in 0..n-1 : Odd(L(D, t))}
               /\ CyclicProduct(C, D, n) = {t \in 0..n-1 : Odd(R(D, t))}
    BY DEF CyclicProduct, L, R
  <1>3. ASSUME NEW t
        PROVE  /\ t \in CyclicProduct(xor(A, B), C, n)
                     <=> t \in xor(CyclicProduct(A, C, n), CyclicProduct(B, C, n))
               /\ t \in CyclicProduct(C, xor(A, B), n)
                     <=> t \in xor(CyclicProduct(C, A, n), CyclicProduct(C, B, n))
    <2>1. \A D : /\ t \in CyclicProduct(D, C, n) <=> t \in 0..n-1 /\ Odd(L(D, t))
                 /\ t \in CyclicProduct(C, D, n) <=> t \in 0..n-1 /\ Odd(R(D, t))
      BY <1>2
    <2>2. \A S, T : t \in xor(S, T) <=> ~(t \in S <=> t \in T)
      BY DEF xor
    <2> QED BY <1>1, <2>1, <2>2, Zenon
  <1> QED BY <1>3

\* The product commutes.
LEMMA ProductCommutes ==
    ASSUME NEW n \in Nat \ {0}, NEW A \in Ring(n), NEW B \in Ring(n)
    PROVE  CyclicProduct(A, B, n) = CyclicProduct(B, A, n)
  <1> SUFFICES ASSUME NEW t \in 0..n-1
               PROVE  Odd({p \in A : (t - p) % n \in B}) <=> Odd({q \in B : (t - q) % n \in A})
    BY DEF CyclicProduct
  <1> DEFINE S == {p \in A : (t - p) % n \in B}
             T == {q \in B : (t - q) % n \in A}
             f == [p \in S |-> (t - p) % n]
  <1>1. \A p \in 0..n-1 : (t - p) % n \in 0..n-1 /\ (t - ((t - p) % n)) % n = p
    <2>1. ASSUME NEW p \in 0..n-1 PROVE (t - p) % n = IF p <= t THEN t - p ELSE (t - p) + n
      BY Residue
    <2>2. ASSUME NEW p \in 0..n-1 PROVE (t - p) % n \in 0..n-1
      BY <2>1
    <2>3. ASSUME NEW p \in 0..n-1 PROVE (t - ((t - p) % n)) % n = p
      BY <2>1, <2>2
    <2> QED BY <2>2, <2>3
  <1>2. A \subseteq 0..n-1 /\ B \subseteq 0..n-1
    BY DEF Ring
  <1>3. f \in [S -> T]
    BY <1>1, <1>2
  <1>4. \A a, b \in S : f[a] = f[b] => a = b
    BY <1>1, <1>2
  <1>5. \A q \in T : \E p \in S : f[p] = q
    <2>1. ASSUME NEW q \in T PROVE (t - q) % n \in S /\ f[(t - q) % n] = q
      BY <1>1, <1>2
    <2> QED BY <2>1
  <1>6. IsFiniteSet(S)
    <2>1. S \in SUBSET A
      OBVIOUS
    <2> QED BY <2>1, RingIsFinite, FS_Subset
  <1> HIDE DEF f, S, T
  <1>7. Odd(S) <=> Odd(T)
    BY <1>3, <1>4, <1>5, <1>6, OddBijection
  <1> QED BY <1>7 DEF S, T

\* A monomial shifts.
LEMMA MonomialProduct ==
    ASSUME NEW n \in Nat \ {0}, NEW p \in 0..n-1, NEW B
    PROVE  CyclicProduct({p}, B, n) = {t \in 0..n-1 : (t - p) % n \in B}
  <1> SUFFICES ASSUME NEW t \in 0..n-1
               PROVE  Odd({q \in {p} : (t - q) % n \in B}) <=> (t - p) % n \in B
    BY DEF CyclicProduct
  <1>1. CASE (t - p) % n \in B
    <2>1. {q \in {p} : (t - q) % n \in B} = {p}
      BY <1>1
    <2>2. Odd({p})
      <3>1. Cardinality({p}) = 1
        BY FS_Singleton
      <3> QED BY <3>1 DEF Odd
    <2> QED BY <1>1, <2>1, <2>2
  <1>2. CASE (t - p) % n \notin B
    <2>1. {q \in {p} : (t - q) % n \in B} = {}
      BY <1>2
    <2> QED BY <1>2, <2>1, EmptyIsEven
  <1> QED BY <1>1, <1>2

LEMMA MonomialAssociates ==
    ASSUME NEW n \in Nat \ {0}, NEW p \in 0..n-1, NEW B \in Ring(n), NEW C \in Ring(n)
    PROVE  CyclicProduct(CyclicProduct({p}, B, n), C, n)
             = CyclicProduct({p}, CyclicProduct(B, C, n), n)
  <1> DEFINE PB == {s \in 0..n-1 : (s - p) % n \in B}
             u(t) == (t - p) % n
  <1>1. B \subseteq 0..n-1 /\ C \subseteq 0..n-1
    BY DEF Ring
  <1>2. \A t \in 0..n-1 : u(t) = IF p <= t THEN t - p ELSE (t - p) + n
    BY Residue
  <1>3. ASSUME NEW t \in 0..n-1
        PROVE  Odd({s \in PB : (t - s) % n \in C}) <=> Odd({q \in B : (u(t) - q) % n \in C})
    <2> DEFINE S == {q \in B : (u(t) - q) % n \in C}
               T == {s \in PB : (t - s) % n \in C}
               f == [q \in S |-> (q + p) % n]
    <2>1. \A q \in 0..n-1 : (q + p) % n = IF q + p < n THEN q + p ELSE (q + p) - n
      BY Residue
    <2>2. \A q \in 0..n-1 : /\ (q + p) % n \in 0..n-1 /\ u((q + p) % n) = q
      BY <1>2, <2>1
    <2>3. \A s \in 0..n-1 : u(s) \in 0..n-1 /\ (u(s) + p) % n = s
      BY <1>2, <2>1
    <2>4. \A s \in 0..n-1 : (t - s) % n = IF s <= t THEN t - s ELSE (t - s) + n
      BY Residue
    <2>5. \A q \in 0..n-1 : (u(t) - q) % n = IF q <= u(t) THEN u(t) - q ELSE (u(t) - q) + n
      <3>1. u(t) \in 0..n-1
        BY <2>3
      <3> HIDE DEF u
      <3> QED BY <3>1, Residue
    <2>6. ASSUME NEW q \in 0..n-1 PROVE (t - ((q + p) % n)) % n = (u(t) - q) % n
      <3> DEFINE s == (q + p) % n
      <3>1. s \in 0..n-1 /\ s = IF q + p < n THEN q + p ELSE (q + p) - n
        BY <2>1, <2>2
      <3>2. (t - s) % n = IF s <= t THEN t - s ELSE (t - s) + n
        BY <2>4, <3>1
      <3>3. u(t) = IF p <= t THEN t - p ELSE (t - p) + n
        BY <1>2
      <3>4. (u(t) - q) % n = IF q <= u(t) THEN u(t) - q ELSE (u(t) - q) + n
        BY <2>5
      <3> HIDE DEF s, u
      <3>5. (t - s) % n = (u(t) - q) % n
        BY <3>1, <3>2, <3>3, <3>4
      <3> QED BY <3>5 DEF s
    <2>7. f \in [S -> T]
      BY <1>1, <2>2, <2>6
    <2>8. \A a, b \in S : f[a] = f[b] => a = b
      BY <1>1, <2>2
    <2>9. ASSUME NEW s \in T PROVE \E q \in S : f[q] = s
      <3>1. u(s) \in B /\ s \in 0..n-1 /\ (t - s) % n \in C
        OBVIOUS
      <3>2. (u(t) - u(s)) % n \in C
        BY <1>1, <2>3, <2>6, <3>1
      <3> QED BY <2>3, <3>1, <3>2
    <2>10. IsFiniteSet(S)
      <3>1. S \in SUBSET B
        OBVIOUS
      <3> QED BY <3>1, RingIsFinite, FS_Subset
    <2> HIDE DEF f, S, T
    <2>11. Odd(S) <=> Odd(T)
      BY <2>7, <2>8, <2>9, <2>10, OddBijection
    <2> QED BY <2>11 DEF S, T
  <1>4. \A t \in 0..n-1 : u(t) \in 0..n-1
    BY <1>2
  <1>5. CyclicProduct({p}, B, n) = PB
    BY MonomialProduct
  <1> HIDE DEF u, PB
  <1>6. CyclicProduct(PB, C, n) = {t \in 0..n-1 : Odd({s \in PB : (t - s) % n \in C})}
    BY DEF CyclicProduct
  <1>7. CyclicProduct({p}, CyclicProduct(B, C, n), n)
          = {t \in 0..n-1 : u(t) \in CyclicProduct(B, C, n)}
    BY MonomialProduct DEF u
  <1>8. \A t \in 0..n-1 : u(t) \in CyclicProduct(B, C, n)
                            <=> Odd({q \in B : (u(t) - q) % n \in C})
    BY <1>4 DEF CyclicProduct
  <1> QED BY <1>3, <1>5, <1>6, <1>7, <1>8

\* The product associates.
LEMMA ProductAssociates ==
    ASSUME NEW n \in Nat \ {0}, NEW A \in Ring(n), NEW B \in Ring(n), NEW C \in Ring(n)
    PROVE  CyclicProduct(CyclicProduct(A, B, n), C, n)
             = CyclicProduct(A, CyclicProduct(B, C, n), n)
  <1> DEFINE P(D, E) == CyclicProduct(D, E, n)
             F == {D \in Ring(n) : P(P(D, B), C) = P(D, P(B, C))}
  <1>1. \A D, E : P(D, E) \in Ring(n)
    BY ProductInRing
  <1>2. {} \in F
    <2>1. \A D : P({}, D) = {}
      <3>1. ASSUME NEW D, NEW t \in 0..n-1 PROVE ~Odd({p \in {} : (t - p) % n \in D})
        <4>1. {p \in {} : (t - p) % n \in D} = {}
          OBVIOUS
        <4> QED BY <4>1, EmptyIsEven
      <3> QED BY <3>1 DEF CyclicProduct
    <2> HIDE DEF P
    <2> QED BY <2>1 DEF Ring
  <1>3. ASSUME NEW D \in SUBSET (0..n-1), NEW p \in 0..n-1, D \in F, p \notin D
        PROVE  D \cup {p} \in F
    <2>1. D \in Ring(n) /\ {p} \in Ring(n) /\ D \cup {p} = xor(D, {p})
      BY <1>3 DEF Ring, xor
    <2>2. \A X, Y, Z \in Ring(n) : P(xor(X, Y), Z) = xor(P(X, Z), P(Y, Z))
      BY ProductDistributes
    <2>3. P(P({p}, B), C) = P({p}, P(B, C))
      BY MonomialAssociates
    <2>4. P(P(D, B), C) = P(D, P(B, C))
      BY <1>3
    <2>5. xor(D, {p}) \in Ring(n)
      BY <2>1, XorInRing
    <2> HIDE DEF P
    <2>6. P(P(xor(D, {p}), B), C) = P(xor(D, {p}), P(B, C))
      BY <1>1, <2>1, <2>2, <2>3, <2>4
    <2> QED BY <2>1, <2>5, <2>6
  <1>4. IsFiniteSet(0..n-1)
    BY FS_Interval
  <1> HIDE DEF F
  <1>5. SUBSET (0..n-1) \subseteq F
    <2> DEFINE X == 0..n-1
    <2>1. \A D \in SUBSET X, p \in X : D \in F /\ p \notin D => D \cup {p} \in F
      BY <1>3
    <2>2. IsFiniteSet(X)
      BY <1>4
    <2> HIDE DEF X
    <2>3. SUBSET X \subseteq F
      BY <1>2, <2>1, <2>2, SubsetInduction
    <2> QED BY <2>3 DEF X
  <1> QED BY <1>5 DEF F, Ring

-----------------------------------------------------------------------------
(* Positions and words. *)

LEMMA WordCount ==
    ASSUME NEW n \in Nat \ {0}
    PROVE  /\ NWords(n) \in Nat \ {0}
           /\ n <= W * NWords(n) /\ W * (NWords(n) - 1) < n
  <1>1. \A x, w \in Nat : w > 0 =>
           LET q == (x + w - 1) \div w
           IN  q \in Nat /\ w * q <= x + w - 1 /\ x + w - 1 < w * q + w
    BY Z3
  <1>2. W \in Nat /\ W > 0
    BY PolyAssumption
  <1> DEFINE q == (n + W - 1) \div W
  <1>3. q \in Nat /\ W * q <= n + W - 1 /\ n + W - 1 < W * q + W
    BY <1>1, <1>2
  <1> HIDE DEF q
  <1>4. q # 0
    BY <1>2, <1>3
  <1>5. W * (q - 1) = W * q - W
    BY <1>2, <1>3
  <1>6. NWords(n) = q
    BY DEF NWords, q
  <1> QED BY <1>2, <1>3, <1>4, <1>5, <1>6

LEMMA Division ==
    ASSUME NEW t \in Nat
    PROVE  /\ t \div W \in Nat /\ t % W \in 0..W-1
           /\ t = W * (t \div W) + (t % W)
  <1>1. \A x, y \in Nat : y > 0 => /\ x \div y \in Nat /\ x % y \in 0..y-1
                                   /\ x = y * (x \div y) + (x % y)
    BY Z3
  <1> QED BY <1>1, PolyAssumption

LEMMA QuotientIsUnique ==
    ASSUME NEW w \in Nat \ {0}, NEW q \in Nat, NEW r \in 0..w-1
    PROVE  (w * q + r) \div w = q /\ (w * q + r) % w = r
  <1> DEFINE t == w * q + r
             p == t \div w
             s == t % w
  <1>1. w \in Nat /\ w > 0 /\ r \in Nat /\ r < w
    OBVIOUS
  <1>2. t \in Nat
    BY <1>1
  <1>3. p \in Nat /\ s \in Nat /\ s < w /\ t = w * p + s
    <2>1. \A x, y \in Nat : y > 0 => /\ x \div y \in Nat /\ x % y \in 0..y-1
                                     /\ x = y * (x \div y) + (x % y)
      BY Z3
    <2> QED BY <1>1, <1>2, <2>1
  <1>4. w * q + r = w * p + s
    BY <1>3
  <1> HIDE DEF t, p, s
  <1>5. \A x, y, z \in Nat : x < y => z * x + z <= z * y
    <2> SUFFICES ASSUME NEW x \in Nat, NEW y \in Nat, NEW z \in Nat, x < y
                 PROVE  z * x + z <= z * y
      OBVIOUS
    <2>1. z * (x + 1) <= z * y
      BY Z3
    <2>2. z * (x + 1) = z * x + z
      BY Z3
    <2> QED BY <2>1, <2>2
  <1>6. w * q \in Nat /\ w * p \in Nat
    BY <1>1, <1>3
  <1>7. ~(q < p)
    BY <1>1, <1>3, <1>4, <1>5, <1>6
  <1>8. ~(p < q)
    BY <1>1, <1>3, <1>4, <1>5, <1>6
  <1>9. p = q
    BY <1>3, <1>7, <1>8
  <1>10. r = s
    BY <1>1, <1>3, <1>4, <1>6, <1>9
  <1> QED BY <1>9, <1>10 DEF p, s, t

\* A position determines its word and its bit.
LEMMA DivisionIsUnique ==
    ASSUME NEW q \in Nat, NEW r \in 0..W-1
    PROVE  (W * q + r) \div W = q /\ (W * q + r) % W = r
  BY QuotientIsUnique, PolyAssumption

LEMMA InExponents ==
    ASSUME NEW size \in Nat, NEW ws \in Array(size), NEW t \in Int
    PROVE  t \in Exponents(ws) <=>
             t >= 0 /\ t \div W < size /\ t % W \in ws[t \div W]
  <1>1. DOMAIN ws = 0..size-1 /\ \A i \in 0..size-1 : ws[i] \subseteq 0..W-1
    BY DEF Array, Word
  <1>2. t \in Exponents(ws) <=> \E i \in 0..size-1 : \E b \in ws[i] : t = W*i + b
    BY <1>1 DEF Exponents
  <1>3. ASSUME NEW i \in 0..size-1, NEW b \in ws[i], t = W*i + b
        PROVE  t >= 0 /\ t \div W < size /\ t % W \in ws[t \div W]
    <2>1. b \in 0..W-1 /\ i \in Nat
      BY <1>1
    <2>2. t \div W = i /\ t % W = b
      BY <1>3, <2>1, DivisionIsUnique
    <2>3. W * i \in Nat
      BY <2>1, PolyAssumption
    <2> QED BY <1>3, <2>1, <2>2, <2>3
  <1>4. ASSUME t >= 0, t \div W < size, t % W \in ws[t \div W]
        PROVE  \E i \in 0..size-1 : \E b \in ws[i] : t = W*i + b
    <2>1. t \in Nat
      BY <1>4
    <2>2. t \div W \in 0..size-1 /\ t = W * (t \div W) + (t % W)
      BY <1>4, <2>1, Division
    <2> QED BY <1>4, <2>2
  <1> QED BY <1>2, <1>3, <1>4

\* The same for a position given by its word and its bit.
LEMMA InExponentsAt ==
    ASSUME NEW size \in Nat, NEW ws \in Array(size), NEW i \in Int, NEW b \in 0..W-1
    PROVE  W*i + b \in Exponents(ws) <=> i \in 0..size-1 /\ b \in ws[i]
  <1>1. W \in Nat /\ W > 0 /\ W*i + b \in Int
    BY PolyAssumption
  <1>2. CASE i >= 0
    <2>1. (W*i + b) \div W = i /\ (W*i + b) % W = b
      BY <1>2, DivisionIsUnique
    <2>2. W*i + b >= 0
      BY <1>1, <1>2
    <2>3. W*i + b \in Exponents(ws) <=> i < size /\ b \in ws[i]
      BY <1>1, <2>1, <2>2, InExponents
    <2> QED BY <1>2, <2>3
  <1>3. CASE i < 0
    <2>1. \A x \in Int, w \in Nat : x < 0 => w * x <= -w
      BY Z3
    <2>2. W*i + b < 0
      BY <1>1, <1>3, <2>1
    <2> QED BY <1>1, <1>3, <2>2, InExponents
  <1> QED BY <1>2, <1>3

LEMMA PolyOfExponents ==
    ASSUME NEW N \in Nat \ {0}, NWords(N) <= MaxWords, NEW S \in SUBSET (0..N-1)
    PROVE  /\ PolyOf(S) \in Array(MaxWords)
           /\ Exponents(PolyOf(S)) = S
           /\ \A i \in NWords(N)..MaxWords-1 : PolyOf(S)[i] = {}
  <1> DEFINE p == PolyOf(S)
  <1>1. p \in Array(MaxWords)
    BY DEF PolyOf, Array, Word
  <1>2. N \in Nat \ {0} /\ W \in Nat /\ W > 0 /\ NWords(N) \in Nat /\ MaxWords \in Nat
        /\ NWords(N) <= MaxWords /\ N <= W * NWords(N)
    BY PolyAssumption, WordCount
  <1>3. ASSUME NEW t \in Int
        PROVE  t \in Exponents(p) <=> t \in S
    <2>1. t \in Exponents(p) <=> t >= 0 /\ t \div W < MaxWords /\ t % W \in p[t \div W]
      BY <1>1, <1>2, <1>3, InExponents
    <2>2. CASE t >= 0
      <3>1. t \div W \in Nat /\ t % W \in 0..W-1 /\ t = W * (t \div W) + (t % W)
        BY <2>2, Division
      <3>2. t \div W < MaxWords => (t % W \in p[t \div W] <=> t \in S)
        BY <1>2, <3>1 DEF PolyOf
      <3>3. t \in S => t \div W < MaxWords
        <4> SUFFICES ASSUME t \in S, ~(t \div W < MaxWords) PROVE FALSE
          OBVIOUS
        <4>1. \A x, y, w \in Nat : x <= y => w * x <= w * y
          BY Z3
        <4>2. W * NWords(N) <= W * (t \div W)
          BY <1>2, <3>1, <4>1
        <4>3. W * (t \div W) \in Nat /\ W * NWords(N) \in Nat /\ t < N
          BY <1>2, <3>1
        <4> QED BY <1>2, <3>1, <4>2, <4>3
      <3> QED BY <2>1, <2>2, <3>2, <3>3
    <2>3. CASE t < 0
      BY <2>1, <2>3, <1>2
    <2> QED BY <2>2, <2>3
  <1>4. Exponents(p) \subseteq Int
    <2>1. DOMAIN p = 0..MaxWords-1 /\ \A i \in 0..MaxWords-1 : p[i] \subseteq 0..W-1
      BY <1>1 DEF Array, Word
    <2> HIDE DEF p
    <2> QED BY <1>2, <2>1 DEF Exponents
  <1>5. \A i \in NWords(N)..MaxWords-1 : p[i] = {}
    <2>0. \A i \in NWords(N)..MaxWords-1 : p[i] = {b \in 0..W-1 : W*i + b \in S}
      BY <1>2 DEF PolyOf
    <2> SUFFICES ASSUME NEW i \in NWords(N)..MaxWords-1, NEW b \in 0..W-1, W*i + b \in S
                 PROVE  FALSE
      BY <2>0, Zenon
    <2>1. \A x, y, w \in Nat : x <= y => w * x <= w * y
      BY Z3
    <2>2. W * NWords(N) <= W * i /\ W * i \in Nat /\ W * NWords(N) \in Nat /\ W*i + b < N
      BY <1>2, <2>1
    <2> QED BY <1>2, <2>2
  <1>6. Exponents(p) = S
    <2>1. S \subseteq Int
      BY <1>2
    <2> HIDE DEF p
    <2> QED BY <1>3, <1>4, <2>1
  <1> QED BY <1>1, <1>5, <1>6

LEMMA PositionInArray ==
    ASSUME NEW size \in Nat, NEW t \in 0..W*size-1
    PROVE  t \div W \in 0..size-1 /\ t % W \in 0..W-1 /\ t = W * (t \div W) + (t % W)
  <1>1. W \in Nat /\ W > 0 /\ W * size \in Nat /\ t \in Nat
    BY PolyAssumption
  <1>2. t \div W \in Nat /\ t % W \in 0..W-1 /\ t = W * (t \div W) + (t % W)
    BY <1>1, Division
  <1>3. \A x, y, w \in Nat : x <= y => w * x <= w * y
    BY Z3
  <1>4. ~(size <= t \div W)
    <2> SUFFICES ASSUME size <= t \div W PROVE FALSE
      OBVIOUS
    <2>1. W * size <= W * (t \div W) /\ W * (t \div W) \in Nat
      BY <1>1, <1>2, <1>3
    <2> QED BY <1>1, <1>2, <2>1
  <1> QED BY <1>2, <1>4

\* An element without bits at and above N is not changed by reduce.
LEMMA ReduceKeepsCanonical ==
    ASSUME NEW N \in Nat \ {0}, NWords(N) <= MaxWords, NEW S \in SUBSET (0..N-1)
    PROVE  reduce(PolyOf(S), N) = PolyOf(S)
  <1> DEFINE p == PolyOf(S)
             off == N % W
             last == NWords(N) - 1
  <1>1. /\ W \in Nat /\ W > 0 /\ MaxWords \in Nat \ {0} /\ last \in 0..MaxWords-1
        /\ N \in Nat /\ N > 0 /\ off \in 0..W-1
    <2>1. W \in Nat /\ W > 0 /\ MaxWords \in Nat \ {0} /\ NWords(N) \in Nat \ {0}
      BY PolyAssumption, WordCount
    <2>2. off \in 0..W-1
      BY Division
    <2> HIDE DEF off
    <2> QED BY <2>1, <2>2
  <1>2. p \in [0..MaxWords-1 -> SUBSET (0..W-1)]
    BY PolyOfExponents DEF Array, Word
  <1>3. CASE off = 0
    BY <1>3 DEF reduce
  <1>4. CASE off # 0
    <2>1. \A b \in p[last] : b \in 0..off-1
      <3> SUFFICES ASSUME NEW b \in 0..W-1, W*last + b \in S PROVE b < off
        BY <1>1, <1>2 DEF PolyOf
      <3>1. W*last + b < N
        BY <1>1
      <3>2. N = W * (N \div W) + off /\ N \div W \in Nat
        BY <1>1, Division
      <3>3. W * last = W * (NWords(N) - 1) /\ N <= W * NWords(N) /\ W * last < N
        BY <1>1, WordCount
      <3> DEFINE q == N \div W
      <3> HIDE DEF q, off, last
      <3>4. W * (last + 1) >= W * q + off
        <4>1. last + 1 = NWords(N)
          BY <1>1, WordCount DEF last
        <4>2. W * q + off <= W * NWords(N)
          BY <3>2, <3>3 DEF q
        <4>3. W * q + off \in Int /\ W * NWords(N) \in Int
          BY <1>1, <3>2, WordCount DEF q
        <4> QED BY <4>1, <4>2, <4>3
      <3>5. last >= q
        <4> SUFFICES ASSUME last + 1 <= q PROVE FALSE
          BY <1>1, <3>2 DEF q
        <4>1. \A x, y, w \in Nat : x <= y => w * x <= w * y
          BY Z3
        <4>2. W * (last + 1) <= W * q
          BY <1>1, <3>2, <4>1 DEF q
        <4>3. W * q \in Nat /\ W * (last + 1) \in Nat
          BY <1>1, <3>2 DEF q
        <4> QED BY <1>1, <1>4, <3>4, <4>2, <4>3
      <3>6. W * q <= W * last
        <4>1. \A x, y, w \in Nat : x <= y => w * x <= w * y
          BY Z3
        <4>2. q \in Nat /\ last \in Nat
          BY <1>1, <3>2 DEF q
        <4> QED BY <1>1, <3>5, <4>1, <4>2
      <3>7. W * q \in Nat /\ W * last \in Nat
        BY <1>1, <3>2 DEF q
      <3> QED BY <1>1, <3>1, <3>2, <3>6, <3>7 DEF q
    <2> HIDE DEF p, off, last
    <2>2. mask(p[last], off) = p[last] /\ shr(p[last], off) = {}
      BY <1>1, <1>2, <2>1 DEF mask, shr
    <2>3. [p EXCEPT ![last] = mask(@, off)] = p
      BY <1>1, <1>2, <2>2
    <2>4. xor(p[0], {}) = p[0]
      BY DEF xor
    <2>5. [p EXCEPT ![0] = xor(@, shr(p[last], off))] = p
      BY <1>1, <1>2, <2>2, <2>4
    <2> QED BY <1>4, <2>3, <2>5 DEF reduce, p, off, last
  <1> QED BY <1>3, <1>4
-----------------------------------------------------------------------------
(* Elements by their exponents. *)

LEMMA SameExponents ==
    ASSUME NEW p \in Array(MaxWords), NEW q \in Array(MaxWords),
           \A t \in Nat : t \in Exponents(p) <=> t \in Exponents(q)
    PROVE  p = q
  <1>1. MaxWords \in Nat /\ W \in Nat /\ W > 0
    BY PolyAssumption
  <1>2. ASSUME NEW i \in 0..MaxWords-1 PROVE p[i] = q[i]
    <2>1. p[i] \subseteq 0..W-1 /\ q[i] \subseteq 0..W-1
      BY DEF Array, Word
    <2>2. ASSUME NEW b \in 0..W-1 PROVE b \in p[i] <=> b \in q[i]
      <3>1. W*i + b \in Nat
        BY <1>1
      <3>2. W*i + b \in Exponents(p) <=> b \in p[i]
        BY <1>1, InExponentsAt
      <3>3. W*i + b \in Exponents(q) <=> b \in q[i]
        BY <1>1, InExponentsAt
      <3> QED BY <3>1, <3>2, <3>3
    <2> QED BY <2>1, <2>2
  <1>3. /\ p = [i \in 0..MaxWords-1 |-> p[i]]
        /\ q = [i \in 0..MaxWords-1 |-> q[i]]
    BY DEF Array
  <1>4. [i \in 0..MaxWords-1 |-> p[i]] = [i \in 0..MaxWords-1 |-> q[i]]
    BY <1>2, Zenon
  <1> QED BY <1>3, <1>4, Zenon

LEMMA ExponentsAreNat ==
    ASSUME NEW p \in Array(MaxWords)
    PROVE  Exponents(p) \subseteq Nat
  <1>1. MaxWords \in Nat /\ W \in Nat /\ W > 0
    BY PolyAssumption
  <1>2. DOMAIN p = 0..MaxWords-1 /\ \A i \in 0..MaxWords-1 : p[i] \subseteq 0..W-1
    BY DEF Array, Word
  <1> QED BY <1>1, <1>2 DEF Exponents

-----------------------------------------------------------------------------
(* Positions and bytes. *)

LEMMA BytePosition ==
    ASSUME NEW k \in Nat, NEW c \in 0..ByteBits-1
    PROVE  /\ k \div PerWord \in Nat /\ k % PerWord \in 0..PerWord-1
           /\ k = PerWord * (k \div PerWord) + (k % PerWord)
           /\ ByteBits * k + c \in Nat
           /\ (ByteBits * k + c) \div W = k \div PerWord
           /\ (ByteBits * k + c) % W = ByteBits * (k % PerWord) + c
           /\ ByteBits * (k % PerWord) + c \in 0..W-1
  <1> DEFINE q == k \div PerWord
             r == k % PerWord
  <1>1. /\ ByteBits \in Nat /\ ByteBits > 0 /\ PerWord \in Nat /\ PerWord > 0
        /\ W = ByteBits * PerWord /\ W \in Nat /\ c \in Nat /\ c <= ByteBits - 1
    BY PackingAssumption, PolyAssumption
  <1>2. q \in Nat /\ r \in 0..PerWord-1 /\ k = PerWord * q + r
    <2>1. \A x, y \in Nat : y > 0 => /\ x \div y \in Nat /\ x % y \in 0..y-1
                                     /\ x = y * (x \div y) + (x % y)
      BY Z3
    <2> QED BY <1>1, <2>1
  <1> HIDE DEF q, r
  <1>3. ByteBits * k = W * q + ByteBits * r
    <2>1. \A b, m, x, y \in Nat : b * (m * x + y) = (b * m) * x + b * y
      BY Z3
    <2> QED BY <1>1, <1>2, <2>1
  <1>4. ByteBits * r + c \in 0..W-1
    <2>1. \A b, x, y \in Nat : x < y => b * x + b <= b * y
      <3>1. \A b, x, y \in Nat : x < y => b * (x + 1) <= b * y
        BY Z3
      <3>2. \A b, x \in Nat : b * (x + 1) = b * x + b
        BY Z3
      <3> QED BY <3>1, <3>2, Zenon
    <2>2. ByteBits * r + ByteBits <= W
      BY <1>1, <1>2, <2>1
    <2>3. ByteBits * r \in Nat
      BY <1>1, <1>2
    <2> QED BY <1>1, <2>2, <2>3
  <1>5. ByteBits * k + c = W * q + (ByteBits * r + c)
    <2>1. ByteBits * r \in Nat /\ W * q \in Nat
      BY <1>1, <1>2
    <2>2. \A x, y, z \in Nat : x = y + z => x + c = y + (z + c)
      OBVIOUS
    <2>3. ByteBits * k \in Nat
      BY <1>1
    <2> QED BY <1>3, <2>1, <2>2, <2>3
  <1>6. (W * q + (ByteBits * r + c)) \div W = q
        /\ (W * q + (ByteBits * r + c)) % W = ByteBits * r + c
    BY <1>2, <1>4, DivisionIsUnique
  <1>7. ByteBits * k + c \in Nat
    BY <1>1
  <1> QED BY <1>2, <1>4, <1>5, <1>6, <1>7 DEF q, r

LEMMA ByteDivision ==
    ASSUME NEW t \in Nat
    PROVE  /\ t \div ByteBits \in Nat /\ t % ByteBits \in 0..ByteBits-1
           /\ t = ByteBits * (t \div ByteBits) + (t % ByteBits)
  <1>1. \A x, y \in Nat : y > 0 => /\ x \div y \in Nat /\ x % y \in 0..y-1
                                   /\ x = y * (x \div y) + (x % y)
    BY Z3
  <1>2. ByteBits \in Nat /\ ByteBits > 0
    BY PackingAssumption
  <1> QED BY <1>1, <1>2

LEMMA InByte ==
    ASSUME NEW p \in Array(MaxWords), NEW k \in Nat, k \div PerWord < MaxWords,
           NEW c \in 0..ByteBits-1
    PROVE  c \in ByteOf(p, k) <=> ByteBits * k + c \in Exponents(p)
  <1> DEFINE q == k \div PerWord
             s == ByteBits * (k % PerWord)
             t == ByteBits * k + c
  <1>1. /\ q \in Nat /\ t \in Nat /\ t \div W = q /\ t % W = s + c /\ s + c \in 0..W-1
    BY BytePosition
  <1>2. s \in Nat /\ MaxWords \in Nat /\ c \in Nat /\ W \in Nat
    <2>1. ByteBits \in Nat /\ PerWord \in Nat /\ MaxWords \in Nat /\ W \in Nat
      BY PackingAssumption, PolyAssumption
    <2>2. k % PerWord \in 0..PerWord-1
      BY BytePosition
    <2>3. k % PerWord \in Nat
      BY <2>1, <2>2
    <2>4. \A x, y \in Nat : x * y \in Nat
      OBVIOUS
    <2> QED BY <2>1, <2>3, <2>4
  <1>3. t \in Exponents(p) <=> s + c \in p[q]
    BY <1>1, <1>2, InExponents
  <1>4. c \in ByteOf(p, k) <=> c \in {b \in 0..W-1 : b + s \in p[q]}
    BY DEF ByteOf, mask, shr
  <1> HIDE DEF q, s, t
  <1>5. c \in 0..W-1 /\ c + s = s + c
    BY <1>1, <1>2
  <1> QED BY <1>3, <1>4, <1>5 DEF t

LEMMA InBytesToPoly ==
    ASSUME NEW len \in Nat, NEW bytes \in Bytes(len), len <= PerWord * MaxWords
    PROVE  /\ bytes_to_poly(bytes) \in Array(MaxWords)
           /\ \A k \in Nat, c \in 0..ByteBits-1 :
                 ByteBits * k + c \in Exponents(bytes_to_poly(bytes))
                   <=> k < len /\ c \in bytes[k + 1]
  <1> DEFINE p == bytes_to_poly(bytes)
  <1>1. /\ ByteBits \in Nat /\ ByteBits > 0 /\ PerWord \in Nat /\ PerWord > 0
        /\ W \in Nat /\ W > 0 /\ MaxWords \in Nat
    BY PackingAssumption, PolyAssumption
  <1>2. DOMAIN bytes = 1..len /\ \A l \in 1..len : bytes[l] \subseteq 0..ByteBits-1
    BY DEF Bytes, Byte
  <1>3. p \in Array(MaxWords)
    <2>1. \A w, n : shl(w, n) \subseteq 0..W-1
      BY DEF shl
    <2>2. \A i \in 0..MaxWords-1 : p[i] \in SUBSET (0..W-1)
      BY <2>1 DEF bytes_to_poly
    <2>3. p = [i \in 0..MaxWords-1 |-> p[i]]
      BY DEF bytes_to_poly
    <2> HIDE DEF p
    <2> QED BY <2>2, <2>3 DEF Array, Word
  <1>4. \A i \in 0..MaxWords-1, b \in 0..W-1 :
           b \in p[i] <=> \E l \in 1..len : /\ (l - 1) \div PerWord = i
                                            /\ b - ByteBits * ((l - 1) % PerWord) \in bytes[l]
    BY <1>2 DEF bytes_to_poly, shl
  <1> HIDE DEF p
  <1>5. ASSUME NEW k \in Nat, NEW c \in 0..ByteBits-1
        PROVE  ByteBits * k + c \in Exponents(p) <=> k < len /\ c \in bytes[k + 1]
    <2> DEFINE q == k \div PerWord
               r == k % PerWord
    <2>1. /\ q \in Nat /\ r \in Nat /\ k = PerWord * q + r /\ ByteBits * k + c \in Nat
          /\ (ByteBits * k + c) \div W = q /\ (ByteBits * k + c) % W = ByteBits * r + c
          /\ ByteBits * r + c \in 0..W-1
      <3>1. r \in 0..PerWord-1 => r \in Nat
        BY <1>1
      <3>2. /\ q \in Nat /\ r \in 0..PerWord-1 /\ k = PerWord * q + r
            /\ ByteBits * k + c \in Nat
            /\ (ByteBits * k + c) \div W = q /\ (ByteBits * k + c) % W = ByteBits * r + c
            /\ ByteBits * r + c \in 0..W-1
        BY BytePosition
      <3> HIDE DEF q, r
      <3> QED BY <3>1, <3>2, Zenon
    <2>2. ByteBits * k + c \in Exponents(p) <=> q < MaxWords /\ ByteBits * r + c \in p[q]
      <3>1. \A t \in Nat : t \in Exponents(p) <=> t \div W < MaxWords /\ t % W \in p[t \div W]
        BY <1>1, <1>3, InExponents
      <3> HIDE DEF q, r
      <3> QED BY <2>1, <3>1, Zenon
    <2>5. ASSUME q \in 0..MaxWords-1
          PROVE  ByteBits * r + c \in p[q]
                   <=> \E l \in 1..len :
                          /\ (l - 1) \div PerWord = q
                          /\ (ByteBits * r + c) - ByteBits * ((l - 1) % PerWord) \in bytes[l]
      <3>1. ByteBits * r + c \in 0..W-1
        BY <2>1
      <3> HIDE DEF q, r
      <3> QED BY <1>4, <2>5, <3>1, Zenon
    <2>3. ASSUME k < len, c \in bytes[k + 1] PROVE q < MaxWords /\ ByteBits * r + c \in p[q]
      <3>1. q < MaxWords
        <4> SUFFICES ASSUME MaxWords <= q PROVE FALSE
          BY <1>1, <2>1
        <4>1. \A x, y, z \in Nat : x <= y => z * x <= z * y
          BY Z3
        <4>2. PerWord * MaxWords <= PerWord * q
          BY <1>1, <2>1, <4>1
        <4>3. PerWord * MaxWords \in Nat /\ PerWord * q \in Nat
          BY <1>1, <2>1
        <4>4. PerWord * q <= k
          <5>1. \A x, y \in Nat : x <= x + y
            OBVIOUS
          <5>2. r \in Nat /\ k = PerWord * q + r
            BY <2>1
          <5> QED BY <4>3, <5>1, <5>2
        <4>5. \A x, y, z \in Nat : x <= y /\ y <= z /\ z <= k /\ k < x => FALSE
          OBVIOUS
        <4> QED BY <2>3, <4>2, <4>3, <4>4, <4>5
      <3>2. /\ k + 1 \in 1..len /\ (k + 1) - 1 = k
            /\ (ByteBits * r + c) - ByteBits * r = c
        <4>1. k + 1 \in 1..len /\ (k + 1) - 1 = k
          BY <2>3
        <4>2. ByteBits * r \in Nat
          <5>1. \A x, y \in Nat : x * y \in Nat
            OBVIOUS
          <5> QED BY <1>1, <2>1, <5>1
        <4>3. \A x \in Nat : (x + c) - x = c
          OBVIOUS
        <4> QED BY <4>1, <4>2, <4>3
      <3>3. \E l \in 1..len : /\ (l - 1) \div PerWord = q
                              /\ (ByteBits * r + c) - ByteBits * ((l - 1) % PerWord) \in bytes[l]
        BY <2>3, <3>2
      <3>4. q \in 0..MaxWords-1
        BY <1>1, <2>1, <3>1
      <3> QED BY <2>5, <3>1, <3>3, <3>4, Zenon
    <2>4. ASSUME q < MaxWords, ByteBits * r + c \in p[q] PROVE k < len /\ c \in bytes[k + 1]
      <3>1. q \in 0..MaxWords-1
        BY <1>1, <2>1, <2>4
      <3>2. PICK l \in 1..len : /\ (l - 1) \div PerWord = q
                                /\ (ByteBits * r + c) - ByteBits * ((l - 1) % PerWord) \in bytes[l]
        BY <2>4, <2>5, <3>1, Zenon
      <3> DEFINE m == (l - 1) % PerWord
                 d == (ByteBits * r + c) - ByteBits * m
      <3>3. l - 1 \in Nat /\ m \in Nat /\ l - 1 = PerWord * q + m
        <4>1. l - 1 \in Nat
          OBVIOUS
        <4>2. 0 \in 0..ByteBits-1
          BY <1>1
        <4> QED BY <3>2, <4>1, <4>2, BytePosition
      <3>4. d \in 0..ByteBits-1
        BY <1>2, <3>2
      <3>5. ByteBits * r + c = ByteBits * m + d
        <4>1. ByteBits * r + c \in Int /\ ByteBits * m \in Int
          BY <1>1, <2>1, <3>3
        <4> HIDE DEF m, r
        <4> QED BY <4>1
      <3>6. r = (ByteBits * r + c) \div ByteBits /\ c = (ByteBits * r + c) % ByteBits
        BY <1>1, <2>1, QuotientIsUnique
      <3> HIDE DEF d, m, r
      <3>7. m = (ByteBits * m + d) \div ByteBits /\ d = (ByteBits * m + d) % ByteBits
        BY <1>1, <3>3, <3>4, QuotientIsUnique
      <3>8. r = m /\ c = d
        BY <3>5, <3>6, <3>7
      <3>9. l - 1 = k
        BY <2>1, <3>3, <3>8 DEF r
      <3>10. k < len /\ k + 1 = l
        BY <3>9
      <3>11. c \in bytes[l]
        BY <3>2, <3>8 DEF d, m
      <3> QED BY <3>10, <3>11
    <2> QED BY <2>2, <2>3, <2>4
  <1> QED BY <1>3, <1>5 DEF p

LEMMA ByteCount ==
    ASSUME NEW n \in Nat \ {0}
    PROVE  /\ ByteLen(n) \in Nat \ {0}
           /\ n <= ByteBits * ByteLen(n)
           /\ ByteBits * (ByteLen(n) - 1) < n
           /\ NWords(n) <= MaxWords => ByteLen(n) <= PerWord * MaxWords
  <1> DEFINE len == ByteLen(n)
  <1>1. /\ ByteBits \in Nat /\ ByteBits > 0 /\ PerWord \in Nat /\ MaxWords \in Nat
        /\ W = ByteBits * PerWord
    BY PackingAssumption, PolyAssumption
  <1>2. len \in Nat /\ n <= ByteBits * len /\ ByteBits * len < n + ByteBits
    <2>1. \A x, y \in Nat : y > 0 =>
             LET q == (x + y - 1) \div y
             IN  q \in Nat /\ x <= y * q /\ y * q < x + y
      BY Z3
    <2> QED BY <1>1, <2>1 DEF ByteLen
  <1> HIDE DEF len
  <1>3. len # 0
    BY <1>1, <1>2
  <1>4. ByteBits * (len - 1) < n
    <2>1. \A x, y \in Int : y * (x - 1) = y * x - y
      BY Z3
    <2>2. ByteBits * len \in Int
      BY <1>1, <1>2
    <2> QED BY <1>1, <1>2, <2>1, <2>2
  <1>5. ASSUME NWords(n) <= MaxWords PROVE len <= PerWord * MaxWords
    <2> DEFINE most == PerWord * MaxWords
    <2>1. most \in Nat
      <3>1. \A x, y \in Nat : x * y \in Nat
        OBVIOUS
      <3> QED BY <1>1, <3>1
    <2>2. n <= ByteBits * most
      <3>1. NWords(n) \in Nat /\ n <= W * NWords(n)
        BY WordCount
      <3>2. \A x, y, w \in Nat : x <= y => w * x <= w * y
        BY Z3
      <3>3. W * NWords(n) <= W * MaxWords
        BY <1>1, <1>5, <3>1, <3>2, PolyAssumption
      <3>4. W * MaxWords = ByteBits * most
        <4>1. \A x, y, z \in Nat : (x * y) * z = x * (y * z)
          BY Z3
        <4> QED BY <1>1, <4>1
      <3>5. \A x, y \in Nat : x * y \in Nat
        OBVIOUS
      <3>6. W * NWords(n) \in Nat /\ W * MaxWords \in Nat
        BY <1>1, <3>1, <3>5, PolyAssumption
      <3> HIDE DEF most
      <3> QED BY <3>1, <3>3, <3>4, <3>6
    <2> HIDE DEF most
    <2>3. ~(most <= len - 1)
      <3>1. \A x, y, w \in Nat : x <= y => w * x <= w * y
        BY Z3
      <3>2. len - 1 \in Nat
        BY <1>2, <1>3
      <3>3. most <= len - 1 => ByteBits * most <= ByteBits * (len - 1)
        BY <1>1, <2>1, <3>1, <3>2
      <3>4. ByteBits * most \in Int /\ ByteBits * (len - 1) \in Int
        BY <1>1, <2>1, <3>2
      <3> QED BY <1>4, <2>2, <3>3, <3>4
    <2> QED BY <1>2, <1>3, <2>1, <2>3 DEF most
  <1> QED BY <1>2, <1>3, <1>4, <1>5 DEF len

\* What KeptBits keeps of byte k is what lies below n.
LEMMA InKeptBits ==
    ASSUME NEW n \in Nat \ {0}, NEW k \in 0..ByteLen(n)-1, NEW c \in 0..ByteBits-1
    PROVE  c \in 0..KeptBits(n, k)-1 <=> ByteBits * k + c < n
  <1> DEFINE last == ByteLen(n) - 1
             base == ByteBits * last
             e == n - base
  <1>1. ByteBits \in Nat /\ ByteBits > 0 /\ k \in Nat /\ k <= last /\ last \in Nat
        /\ c \in Nat /\ c < ByteBits
    BY ByteCount, PackingAssumption
  <1>2. base \in Nat
    <2>1. \A x, y \in Nat : x * y \in Nat
      OBVIOUS
    <2> QED BY <1>1, <2>1
  <1>3. e \in 1..ByteBits /\ n = base + e
    <2>1. n <= ByteBits * ByteLen(n) /\ base < n
      BY ByteCount
    <2>2. ByteBits * ByteLen(n) = base + ByteBits
      <3>1. \A x, y \in Int : y * x = y * (x - 1) + y
        BY Z3
      <3>2. ByteLen(n) \in Int
        BY ByteCount
      <3> QED BY <1>1, <3>1, <3>2
    <2> HIDE DEF base
    <2> QED BY <1>1, <1>2, <2>1, <2>2
  <1>4. n % ByteBits = IF e = ByteBits THEN 0 ELSE e
    <2>1. CASE e = ByteBits
      <3>1. n = ByteBits * (last + 1) + 0
        <4>1. \A x, y \in Nat : y * (x + 1) + 0 = y * x + y
          BY Z3
        <4>2. n = base + ByteBits
          BY <1>3, <2>1
        <4> QED BY <1>1, <4>1, <4>2
      <3>2. last + 1 \in Nat /\ 0 \in 0..ByteBits-1
        BY <1>1
      <3>3. (ByteBits * (last + 1) + 0) % ByteBits = 0
        BY <1>1, <3>2, QuotientIsUnique
      <3> QED BY <2>1, <3>1, <3>3
    <2>2. CASE e # ByteBits
      <3> HIDE DEF e, last
      <3>1. e \in 0..ByteBits-1
        BY <1>1, <1>3, <2>2
      <3>2. (ByteBits * last + e) % ByteBits = e
        BY <1>1, <3>1, QuotientIsUnique
      <3>3. n = ByteBits * last + e
        BY <1>3
      <3> QED BY <2>2, <3>2, <3>3
    <2> QED BY <2>1, <2>2
  <1>5. KeptBits(n, k) = IF k = last THEN e ELSE ByteBits
    <2>1. e \in Nat /\ e # 0
      BY <1>1, <1>3
    <2>2. KeptBits(n, k) = IF n % ByteBits # 0 /\ k = last THEN n % ByteBits ELSE ByteBits
      BY DEF KeptBits
    <2> HIDE DEF e, last
    <2> QED BY <1>4, <2>1, <2>2
  <1>6. CASE k = last
    <2>1. ByteBits * k = base
      BY <1>6
    <2>2. KeptBits(n, k) = e
      BY <1>5, <1>6
    <2> HIDE DEF base, e, last
    <2> QED BY <1>1, <1>2, <1>3, <2>1, <2>2
  <1>7. CASE k # last
    <2>1. KeptBits(n, k) = ByteBits
      BY <1>5, <1>7
    <2>2. ByteBits * k + ByteBits <= base
      <3>1. \A x, y, z \in Nat : x < y => z * (x + 1) <= z * y
        BY Z3
      <3>2. \A x, z \in Nat : z * (x + 1) = z * x + z
        BY Z3
      <3>3. k < last
        BY <1>1, <1>7
      <3>4. ByteBits * (k + 1) <= base
        BY <1>1, <3>1, <3>3
      <3>5. ByteBits * (k + 1) = ByteBits * k + ByteBits
        BY <1>1, <3>2
      <3> QED BY <3>4, <3>5
    <2>3. ByteBits * k \in Nat
      <3>1. \A x, y \in Nat : x * y \in Nat
        OBVIOUS
      <3> QED BY <1>1, <3>1
    <2>4. \A x \in Nat : x + ByteBits <= base => x + c < n
      <3> HIDE DEF base, e, last
      <3> QED BY <1>1, <1>2, <1>3
    <2>5. ByteBits * k + c < n
      BY <2>2, <2>3, <2>4
    <2> QED BY <1>1, <2>1, <2>5
  <1> QED BY <1>6, <1>7

LEMMA WordOfByte ==
    ASSUME NEW k \in 0..PerWord*MaxWords-1
    PROVE  k \in Nat /\ k \div PerWord < MaxWords
  <1>1. /\ PerWord \in Nat /\ PerWord > 0 /\ MaxWords \in Nat /\ PerWord * MaxWords \in Nat
        /\ ByteBits \in Nat /\ ByteBits > 0
    BY PackingAssumption, PolyAssumption
  <1>2. k \in Nat /\ k < PerWord * MaxWords
    BY <1>1
  <1> DEFINE q == k \div PerWord
             r == k % PerWord
  <1>3. q \in Nat /\ r \in Nat /\ k = PerWord * q + r
    <2>1. \A x, y \in Nat : y > 0 => /\ x \div y \in Nat /\ x % y \in 0..y-1
                                     /\ x = y * (x \div y) + (x % y)
      BY Z3
    <2>2. q \in Nat /\ r \in 0..PerWord-1 /\ k = PerWord * q + r
      BY <1>1, <1>2, <2>1
    <2> QED BY <1>1, <2>2
  <1> HIDE DEF q, r
  <1>4. MaxWords <= q => PerWord * MaxWords <= PerWord * q
    <2>1. \A x, y, z \in Nat : x <= y => z * x <= z * y
      BY Z3
    <2> QED BY <1>1, <1>3, <2>1
  <1>5. PerWord * q \in Nat
    <2>1. \A x, y \in Nat : x * y \in Nat
      OBVIOUS
    <2> QED BY <1>1, <1>3, <2>1
  <1>6. ~(MaxWords <= q)
    BY <1>1, <1>2, <1>3, <1>4, <1>5
  <1> QED BY <1>1, <1>2, <1>3, <1>6 DEF q

LEMMA ByteOfPosition ==
    ASSUME NEW n \in Nat \ {0}, NEW t \in Nat, t < n
    PROVE  t \div ByteBits \in 0..ByteLen(n)-1
  <1> DEFINE k == t \div ByteBits
             c == t % ByteBits
             len == ByteLen(n)
  <1>1. k \in Nat /\ c \in 0..ByteBits-1 /\ t = ByteBits * k + c
    BY ByteDivision
  <1>2. len \in Nat /\ n <= ByteBits * len /\ ByteBits \in Nat /\ ByteBits > 0
    BY ByteCount, PackingAssumption
  <1> HIDE DEF k, c, len
  <1>3. len <= k => ByteBits * len <= ByteBits * k
    <2>1. \A x, y, z \in Nat : x <= y => z * x <= z * y
      BY Z3
    <2> QED BY <1>1, <1>2, <2>1
  <1>4. ByteBits * len \in Nat /\ ByteBits * k \in Nat /\ c \in Nat
    <2>1. \A x, y \in Nat : x * y \in Nat
      OBVIOUS
    <2> QED BY <1>1, <1>2, <2>1
  <1>5. k < len
    BY <1>1, <1>2, <1>3, <1>4
  <1> QED BY <1>1, <1>2, <1>5 DEF k, len

LEMMA ByteIsByte ==
    ASSUME NEW p, NEW k
    PROVE  ByteOf(p, k) \in Byte
  BY DEF ByteOf, mask, Byte

-----------------------------------------------------------------------------
(* The conversions. *)

\* Packing (parsing.rs, pack): byte k holds the coefficients ByteBits*k and up
\* of the element, and no bit at or above n.
THEOREM PackedBits ==
    ASSUME NEW n \in Nat \ {0}, NWords(n) <= MaxWords, NEW p \in Array(MaxWords)
    PROVE  /\ pack(p, n) \in Bytes(ByteLen(n))
           /\ \A k \in 0..ByteLen(n)-1, c \in 0..ByteBits-1 :
                 c \in pack(p, n)[k + 1]
                   <=> ByteBits * k + c < n /\ ByteBits * k + c \in Exponents(p)
  <1> DEFINE len == ByteLen(n)
  <1>1. len \in Nat \ {0} /\ len <= PerWord * MaxWords /\ PerWord * MaxWords \in Int
    BY ByteCount, PackingAssumption, PolyAssumption
  <1>2. pack(p, n) = [l \in 1..len |-> mask(ByteOf(p, l - 1), KeptBits(n, l - 1))]
    BY DEF pack, poly_to_bytes
  <1>3. pack(p, n) \in Bytes(len)
    <2>1. \A l \in 1..len : mask(ByteOf(p, l - 1), KeptBits(n, l - 1)) \in Byte
      BY ByteIsByte DEF mask, Byte
    <2> HIDE DEF len
    <2> QED BY <1>2, <2>1 DEF Bytes
  <1>4. ASSUME NEW k \in 0..len-1, NEW c \in 0..ByteBits-1
        PROVE  c \in pack(p, n)[k + 1]
                 <=> ByteBits * k + c < n /\ ByteBits * k + c \in Exponents(p)
    <2>1. k + 1 \in 1..len /\ (k + 1) - 1 = k /\ k \in 0..PerWord*MaxWords-1
      <3> HIDE DEF len
      <3> QED BY <1>1
    <2>2. k \in Nat /\ k \div PerWord < MaxWords
      BY <2>1, WordOfByte
    <2>3. c \in ByteOf(p, k) <=> ByteBits * k + c \in Exponents(p)
      BY <2>2, InByte
    <2>4. pack(p, n)[k + 1] = mask(ByteOf(p, k), KeptBits(n, k))
      BY <1>2, <2>1
    <2>5. c \in 0..KeptBits(n, k)-1 <=> ByteBits * k + c < n
      BY InKeptBits
    <2> QED BY <2>3, <2>4, <2>5 DEF mask
  <1> QED BY <1>3, <1>4

\* Parsing (parsing.rs, unpack): coefficient t is bit t of the bytes when t lies
\* below n and 0 otherwise, whatever the bits at and above n are.
THEOREM UnpackedBits ==
    ASSUME NEW n \in Nat \ {0}, NWords(n) <= MaxWords, NEW bytes \in Bytes(ByteLen(n))
    PROVE  /\ unpack(bytes, n) \in Array(MaxWords)
           /\ \A t \in Nat : t \in Exponents(unpack(bytes, n))
                               <=> t < n /\ t % ByteBits \in bytes[(t \div ByteBits) + 1]
  <1> DEFINE len == ByteLen(n)
             cut == [l \in 1..len |-> mask(bytes[l], KeptBits(n, l - 1))]
  <1>1. len \in Nat \ {0} /\ len <= PerWord * MaxWords /\ n <= ByteBits * len
        /\ ByteBits \in Nat /\ ByteBits > 0
    BY ByteCount, PackingAssumption
  <1>2. DOMAIN bytes = 1..len /\ \A l \in 1..len : bytes[l] \in Byte
    BY DEF Bytes
  <1>3. unpack(bytes, n) = bytes_to_poly(cut)
    BY <1>2 DEF unpack
  <1>4. cut \in Bytes(len)
    <2>1. \A l \in 1..len : mask(bytes[l], KeptBits(n, l - 1)) \in Byte
      BY <1>2 DEF mask, Byte
    <2> HIDE DEF len
    <2> QED BY <2>1 DEF Bytes
  <1> HIDE DEF cut
  <1>5. /\ bytes_to_poly(cut) \in Array(MaxWords)
        /\ \A k \in Nat, c \in 0..ByteBits-1 :
              ByteBits * k + c \in Exponents(bytes_to_poly(cut)) <=> k < len /\ c \in cut[k + 1]
    <2> HIDE DEF len
    <2> QED BY <1>1, <1>4, InBytesToPoly
  <1>6. ASSUME NEW t \in Nat
        PROVE  t \in Exponents(bytes_to_poly(cut))
                 <=> t < n /\ t % ByteBits \in bytes[(t \div ByteBits) + 1]
    <2> DEFINE k == t \div ByteBits
               c == t % ByteBits
    <2>1. k \in Nat /\ c \in 0..ByteBits-1 /\ t = ByteBits * k + c
      BY ByteDivision
    <2>2. t \in Exponents(bytes_to_poly(cut)) <=> k < len /\ c \in cut[k + 1]
      <3> HIDE DEF k, c, len
      <3> QED BY <1>5, <2>1
    <2>3. t < n => k < len
      <3>1. t < n => k \in 0..len-1
        BY ByteOfPosition
      <3> HIDE DEF k, len
      <3> QED BY <1>1, <2>1, <3>1
    <2>4. ASSUME k < len PROVE c \in cut[k + 1] <=> t < n /\ c \in bytes[k + 1]
      <3> HIDE DEF k, c
      <3>1. k \in 0..len-1 /\ k + 1 \in 1..len /\ (k + 1) - 1 = k
        <4> HIDE DEF len
        <4> QED BY <1>1, <2>1, <2>4
      <3>2. c \in 0..KeptBits(n, k)-1 <=> t < n
        BY <2>1, <3>1, InKeptBits
      <3>3. cut[k + 1] = mask(bytes[k + 1], KeptBits(n, k))
        BY <3>1 DEF cut
      <3> QED BY <3>2, <3>3 DEF mask
    <2> HIDE DEF k, c, len
    <2>5. t \in Exponents(bytes_to_poly(cut)) <=> t < n /\ c \in bytes[k + 1]
      BY <2>2, <2>3, <2>4
    <2> QED BY <2>5 DEF k, c
  <1> QED BY <1>3, <1>5, <1>6

\* No operation behind the parsers meets a bit at or above n: what unpack
\* returns is canonical whatever arrived.
THEOREM UnpackedIsCanonical ==
    ASSUME NEW n \in Nat \ {0}, NWords(n) <= MaxWords, NEW bytes \in Bytes(ByteLen(n))
    PROVE  Exponents(unpack(bytes, n)) \subseteq 0..n-1
  <1>1. Exponents(unpack(bytes, n)) \subseteq Nat
    BY UnpackedBits, ExponentsAreNat
  <1>2. \A t \in Nat : t \in Exponents(unpack(bytes, n)) => t < n
    BY UnpackedBits
  <1> QED BY <1>1, <1>2

\* Parsing inverts packing on the elements the scheme produces (canonical ones).
THEOREM UnpackInvertsPack ==
    ASSUME NEW n \in Nat \ {0}, NWords(n) <= MaxWords, NEW p \in Array(MaxWords),
           Exponents(p) \subseteq 0..n-1
    PROVE  unpack(pack(p, n), n) = p
  <1> DEFINE bytes == pack(p, n)
  <1>1. bytes \in Bytes(ByteLen(n))
    BY PackedBits
  <1>2. \A k \in 0..ByteLen(n)-1, c \in 0..ByteBits-1 :
           c \in bytes[k + 1] <=> ByteBits * k + c < n /\ ByteBits * k + c \in Exponents(p)
    BY PackedBits
  <1> HIDE DEF bytes
  <1>3. ASSUME NEW t \in Nat PROVE t \in Exponents(unpack(bytes, n)) <=> t \in Exponents(p)
    <2> DEFINE k == t \div ByteBits
               c == t % ByteBits
    <2>1. k \in Nat /\ c \in 0..ByteBits-1 /\ t = ByteBits * k + c
      BY ByteDivision
    <2>2. t \in Exponents(unpack(bytes, n)) <=> t < n /\ c \in bytes[k + 1]
      BY <1>1, UnpackedBits
    <2>3. t < n => k \in 0..ByteLen(n)-1
      BY ByteOfPosition
    <2>4. t \in Exponents(p) => t < n
      OBVIOUS
    <2> HIDE DEF k, c
    <2>5. t < n => (c \in bytes[k + 1] <=> t \in Exponents(p))
      BY <1>2, <2>1, <2>3
    <2> QED BY <2>2, <2>4, <2>5
  <1>4. unpack(bytes, n) \in Array(MaxWords)
    BY <1>1, UnpackedBits
  <1>5. unpack(bytes, n) = p
    BY <1>3, <1>4, SameExponents
  <1> QED BY <1>5 DEF bytes

\* What the comparison in decaps relies on: packing what was parsed gives the
\* bytes received, but for the bits at and above n, which it clears.
THEOREM ReserializedBytes ==
    ASSUME NEW n \in Nat \ {0}, NWords(n) <= MaxWords, NEW bytes \in Bytes(ByteLen(n))
    PROVE  \A k \in 0..ByteLen(n)-1, c \in 0..ByteBits-1 :
              c \in pack(unpack(bytes, n), n)[k + 1]
                <=> ByteBits * k + c < n /\ c \in bytes[k + 1]
  <1> TAKE k \in 0..ByteLen(n)-1, c \in 0..ByteBits-1
  <1>1. unpack(bytes, n) \in Array(MaxWords)
    BY UnpackedBits
  <1>2. c \in pack(unpack(bytes, n), n)[k + 1]
          <=> ByteBits * k + c < n /\ ByteBits * k + c \in Exponents(unpack(bytes, n))
    BY <1>1, PackedBits
  <1>3. k \in Nat /\ ByteBits * k + c \in Nat
    <2>1. k \in Nat
      BY ByteCount
    <2> QED BY <2>1, BytePosition
  <1>4. (ByteBits * k + c) \div ByteBits = k /\ (ByteBits * k + c) % ByteBits = c
    BY <1>3, QuotientIsUnique, PackingAssumption
  <1>5. ByteBits * k + c \in Exponents(unpack(bytes, n))
          <=> ByteBits * k + c < n /\ c \in bytes[k + 1]
    <2> DEFINE t == ByteBits * k + c
    <2>1. t \in Exponents(unpack(bytes, n)) <=> t < n /\ t % ByteBits \in bytes[(t \div ByteBits) + 1]
      BY <1>3, UnpackedBits
    <2> QED BY <1>4, <2>1
  <1> QED BY <1>2, <1>5

-----------------------------------------------------------------------------
(* Cutting and adding. *)

\* Positions compare as their words do, and within a word as their bits do.
LEMMA CompareByWord ==
    ASSUME NEW i \in Nat, NEW q \in Nat, NEW b \in 0..W-1, NEW r \in 0..W-1
    PROVE  W*i + b < W*q + r <=> i < q \/ (i = q /\ b < r)
  <1>1. W \in Nat /\ W > 0 /\ b \in Nat /\ b < W /\ r \in Nat /\ r < W
    BY PolyAssumption
  <1>2. \A x, y \in Nat : x < y => W*x + W <= W*y
    <2>1. \A x, y, z \in Nat : x < y => z * (x + 1) <= z * y
      BY Z3
    <2>2. \A x, z \in Nat : z * (x + 1) = z * x + z
      BY Z3
    <2> QED BY <1>1, <2>1, <2>2, Zenon
  <1>3. W*i \in Nat /\ W*q \in Nat
    <2>1. \A x, y \in Nat : x * y \in Nat
      OBVIOUS
    <2> QED BY <1>1, <2>1
  <1>4. CASE i < q
    <2>1. W*i + W <= W*q
      BY <1>2, <1>4
    <2> QED BY <1>1, <1>3, <1>4, <2>1
  <1>5. CASE q < i
    <2>1. W*q + W <= W*i
      BY <1>2, <1>5
    <2> QED BY <1>1, <1>3, <1>5, <2>1
  <1>6. CASE i = q
    BY <1>1, <1>3, <1>6
  <1> QED BY <1>4, <1>5, <1>6

LEMMA LastWord ==
    ASSUME NEW N \in Nat
    PROVE  NWords(N) = IF N % W = 0 THEN N \div W ELSE (N \div W) + 1
  <1> DEFINE q == N \div W
             r == N % W
  <1>1. q \in Nat /\ r \in 0..W-1 /\ N = W*q + r
    BY Division
  <1>2. W \in Nat /\ W > 0
    BY PolyAssumption
  <1>3. W*q \in Nat
    <2>1. \A x, y \in Nat : x * y \in Nat
      OBVIOUS
    <2> QED BY <1>1, <1>2, <2>1
  <1> HIDE DEF q, r
  <1>4. CASE r = 0
    <2>1. N + W - 1 = W*q + (W - 1) /\ W - 1 \in 0..W-1
      BY <1>1, <1>2, <1>3, <1>4
    <2>2. (W*q + (W - 1)) \div W = q
      BY <1>1, <2>1, DivisionIsUnique
    <2> QED BY <1>4, <2>1, <2>2 DEF NWords, q, r
  <1>5. CASE r # 0
    <2>1. W*(q + 1) = W*q + W
      <3>1. \A x, z \in Nat : z * (x + 1) = z * x + z
        BY Z3
      <3> QED BY <1>1, <1>2, <3>1
    <2>2. N + W - 1 = W*(q + 1) + (r - 1) /\ r - 1 \in 0..W-1 /\ q + 1 \in Nat
      BY <1>1, <1>2, <1>3, <1>5, <2>1
    <2>3. (W*(q + 1) + (r - 1)) \div W = q + 1
      BY <2>2, DivisionIsUnique
    <2> QED BY <1>5, <2>2, <2>3 DEF NWords, q, r
  <1> QED BY <1>4, <1>5

\* An array with the bits of another that lie below n stands for its exponents
\* below n.
LEMMA CutExponents ==
    ASSUME NEW size \in Nat, NEW n \in Nat, NEW ws \in Array(size), NEW cut \in Array(MaxWords),
           \A i \in 0..MaxWords-1, b \in 0..W-1 :
              b \in cut[i] <=> i < size /\ b \in ws[i] /\ W*i + b < n,
           size <= MaxWords
    PROVE  Exponents(cut) = Exponents(ws) \cap 0..n-1
  <1>1. W \in Nat /\ W > 0 /\ MaxWords \in Nat
    BY PolyAssumption
  <1>2. ASSUME NEW t \in Nat PROVE t \in Exponents(cut) <=> t \in Exponents(ws) /\ t < n
    <2> DEFINE i == t \div W
               b == t % W
    <2>1. i \in Nat /\ b \in 0..W-1 /\ t = W*i + b
      BY Division
    <2>2. t \in Exponents(cut) <=> i < MaxWords /\ b \in cut[i]
      BY <1>1, InExponents
    <2>3. t \in Exponents(ws) <=> i < size /\ b \in ws[i]
      BY <1>1, InExponents
    <2> HIDE DEF i, b
    <2>4. i < MaxWords => (b \in cut[i] <=> i < size /\ b \in ws[i] /\ t < n)
      <3>1. i < MaxWords => i \in 0..MaxWords-1
        BY <1>1, <2>1
      <3> QED BY <2>1, <3>1
    <2>5. i < size => i < MaxWords
      BY <1>1, <2>1
    <2> QED BY <2>2, <2>3, <2>4, <2>5
  <1>3. Exponents(cut) \subseteq Nat
    BY ExponentsAreNat
  <1> QED BY <1>2, <1>3

\* truncate_to_bits (pke.rs) clears the coefficients at and above nbits, those of
\* the partial word included, and no other.
THEOREM TruncateIsExact ==
    ASSUME NEW N \in Nat \ {0}, NWords(N) <= MaxWords, NEW nbits \in 0..N,
           NEW p \in Array(MaxWords), Exponents(p) \subseteq 0..N-1
    PROVE  /\ truncate_to_bits(p, N, nbits) \in Array(MaxWords)
           /\ Exponents(truncate_to_bits(p, N, nbits)) = Exponents(p) \cap 0..nbits-1
  <1> DEFINE cut == truncate_to_bits(p, N, nbits)
             q == nbits \div W
             r == nbits % W
  <1>1. W \in Nat /\ W > 0 /\ MaxWords \in Nat /\ NWords(N) \in Nat /\ nbits \in Nat
        /\ N <= W * NWords(N)
    BY PolyAssumption, WordCount
  <1>2. DOMAIN p = 0..MaxWords-1 /\ \A i \in 0..MaxWords-1 : p[i] \in SUBSET (0..W-1)
    BY DEF Array, Word
  <1>3. q \in Nat /\ r \in 0..W-1 /\ nbits = W*q + r
    BY <1>1, Division
  <1>4. cut = [i \in 0..MaxWords-1 |->
                  IF r # 0 /\ i = q THEN mask(p[i], r)
                  ELSE IF q <= i /\ i < NWords(N) THEN {} ELSE p[i]]
    BY <1>2 DEF truncate_to_bits
  <1> HIDE DEF cut, q, r
  <1>5. cut \in Array(MaxWords)
    <2>1. \A i \in 0..MaxWords-1 :
             (IF r # 0 /\ i = q THEN mask(p[i], r)
              ELSE IF q <= i /\ i < NWords(N) THEN {} ELSE p[i]) \in SUBSET (0..W-1)
      BY <1>2 DEF mask
    <2> QED BY <1>4, <2>1 DEF Array, Word
  <1>6. ASSUME NEW i \in 0..MaxWords-1, NEW b \in 0..W-1
        PROVE  b \in cut[i] <=> i < MaxWords /\ b \in p[i] /\ W*i + b < nbits
    <2>1. i \in Nat /\ i < MaxWords
      BY <1>1
    <2>2. W*i + b < nbits <=> i < q \/ (i = q /\ b < r)
      BY <1>3, <2>1, CompareByWord
    <2>3. b \in p[i] => i < NWords(N)
      <3> SUFFICES ASSUME b \in p[i], NWords(N) <= i PROVE FALSE
        BY <1>1, <2>1
      <3>1. W*i + b \in Exponents(p)
        BY <1>1, <2>1, InExponentsAt
      <3>2. W*i + b < N
        BY <3>1
      <3>3. \A x, y, w \in Nat : x <= y => w * x <= w * y
        BY Z3
      <3>4. W * NWords(N) <= W * i
        BY <1>1, <2>1, <3>3
      <3>5. W * NWords(N) \in Nat /\ W * i \in Nat
        <4>1. \A x, y \in Nat : x * y \in Nat
          OBVIOUS
        <4> QED BY <1>1, <2>1, <4>1
      <3> QED BY <1>1, <3>2, <3>4, <3>5
    <2>4. cut[i] = IF r # 0 /\ i = q THEN mask(p[i], r)
                   ELSE IF q <= i /\ i < NWords(N) THEN {} ELSE p[i]
      BY <1>4
    <2>5. CASE r # 0 /\ i = q
      <3>1. b \in cut[i] <=> b \in p[i] /\ b < r
        <4>1. b \in 0..r-1 <=> b < r
          BY <1>1, <1>3
        <4>2. cut[i] = p[i] \cap 0..r-1
          BY <2>4, <2>5 DEF mask
        <4> QED BY <4>1, <4>2
      <3>2. ~(i < q)
        BY <1>3, <2>1, <2>5
      <3> QED BY <2>1, <2>2, <2>5, <3>1, <3>2
    <2>6. CASE ~(r # 0 /\ i = q) /\ q <= i
      <3>1. b \notin cut[i]
        BY <2>3, <2>4, <2>6
      <3>2. ~(i < q) /\ ~(i = q /\ b < r)
        BY <1>1, <1>3, <2>1, <2>6
      <3> QED BY <2>2, <3>1, <3>2
    <2>7. CASE ~(q <= i)
      <3>1. i < q /\ i # q
        BY <1>3, <2>1, <2>7
      <3>2. cut[i] = p[i]
        BY <2>4, <2>7, <3>1
      <3> QED BY <2>1, <2>2, <3>1, <3>2
    <2> QED BY <2>5, <2>6, <2>7
  <1>7. Exponents(cut) = Exponents(p) \cap 0..nbits-1
    <2>1. MaxWords <= MaxWords
      BY <1>1
    <2> QED BY <1>1, <1>5, <1>6, <2>1, CutExponents
  <1> QED BY <1>5, <1>7 DEF cut

\* sample_uniform (sampling.rs) keeps exactly the bits below N of the words read.
THEOREM UniformIsCut ==
    ASSUME NEW N \in Nat \ {0}, NWords(N) <= MaxWords, NEW raw \in Array(NWords(N))
    PROVE  /\ sample_uniform(raw, N) \in Array(MaxWords)
           /\ Exponents(sample_uniform(raw, N)) = Exponents(raw) \cap 0..N-1
  <1> DEFINE cut == sample_uniform(raw, N)
             size == NWords(N)
             q == N \div W
             r == N % W
  <1>1. W \in Nat /\ W > 0 /\ MaxWords \in Nat /\ size \in Nat \ {0} /\ size <= MaxWords
    BY PolyAssumption, WordCount
  <1>2. \A i \in 0..size-1 : raw[i] \in SUBSET (0..W-1)
    BY DEF Array, Word
  <1>3. q \in Nat /\ r \in 0..W-1 /\ N = W*q + r
    BY Division
  <1>4. size = IF r = 0 THEN q ELSE q + 1
    BY LastWord
  <1>5. cut = [i \in 0..MaxWords-1 |->
                  IF i >= size THEN {}
                  ELSE IF r # 0 /\ i = size - 1 THEN mask(raw[i], r) ELSE raw[i]]
    BY DEF sample_uniform
  <1> HIDE DEF cut, q, r, size
  <1>6. cut \in Array(MaxWords)
    <2>1. ASSUME NEW i \in 0..MaxWords-1
          PROVE  (IF i >= size THEN {}
                  ELSE IF r # 0 /\ i = size - 1 THEN mask(raw[i], r) ELSE raw[i]) \in SUBSET (0..W-1)
      <3>1. ~(i >= size) => i \in 0..size-1
        BY <1>1
      <3> QED BY <1>2, <3>1 DEF mask
    <2> QED BY <1>5, <2>1 DEF Array, Word
  <1>7. ASSUME NEW i \in 0..MaxWords-1, NEW b \in 0..W-1
        PROVE  b \in cut[i] <=> i < size /\ b \in raw[i] /\ W*i + b < N
    <2>1. i \in Nat
      OBVIOUS
    <2>2. W*i + b < N <=> i < q \/ (i = q /\ b < r)
      BY <1>3, <2>1, CompareByWord
    <2>3. cut[i] = IF i >= size THEN {}
                   ELSE IF r # 0 /\ i = size - 1 THEN mask(raw[i], r) ELSE raw[i]
      BY <1>5
    <2>4. CASE i >= size
      BY <1>1, <2>1, <2>3, <2>4
    <2>5. CASE i < size /\ r # 0 /\ i = size - 1
      <3>1. i = q /\ ~(i < q) /\ ~(i >= size)
        BY <1>1, <1>3, <1>4, <2>1, <2>5
      <3>2. cut[i] = raw[i] \cap 0..r-1
        BY <2>3, <2>5, <3>1 DEF mask
      <3>3. b \in 0..r-1 <=> b < r
        BY <1>1, <1>3
      <3> QED BY <2>2, <2>5, <3>1, <3>2, <3>3
    <2>6. CASE i < size /\ ~(r # 0 /\ i = size - 1)
      <3>1. i < q /\ ~(i >= size)
        BY <1>1, <1>3, <1>4, <2>1, <2>6
      <3>2. cut[i] = raw[i]
        BY <2>3, <2>6, <3>1
      <3> QED BY <2>2, <2>6, <3>1, <3>2
    <2> QED BY <1>1, <2>1, <2>4, <2>5, <2>6
  <1>8. Exponents(cut) = Exponents(raw) \cap 0..N-1
    <2>1. raw \in Array(size) /\ size \in Nat
      BY <1>1 DEF size
    <2> QED BY <1>1, <1>6, <1>7, <2>1, CutExponents
  <1> QED BY <1>6, <1>8 DEF cut

\* get_bit, set_bit and clear_bit (poly/mod.rs) touch the coefficient they are
\* given and no other, whatever word it lies in; clear leaves no coefficient.
THEOREM BitOperations ==
    ASSUME NEW p \in Array(MaxWords), NEW n \in Nat, n \div W < MaxWords
    PROVE  /\ get_bit(p, n) <=> n \in Exponents(p)
           /\ set_bit(p, n) \in Array(MaxWords) /\ clear_bit(p, n) \in Array(MaxWords)
           /\ Exponents(set_bit(p, n)) = Exponents(p) \cup {n}
           /\ Exponents(clear_bit(p, n)) = Exponents(p) \ {n}
           /\ clear(p) \in Array(MaxWords) /\ Exponents(clear(p)) = {}
  <1> DEFINE q == n \div W
             r == n % W
             set == set_bit(p, n)
             cleared == clear_bit(p, n)
  <1>1. q \in 0..MaxWords-1 /\ r \in 0..W-1 /\ n = W*q + r /\ MaxWords \in Nat
    BY Division, PolyAssumption
  <1>2. DOMAIN p = 0..MaxWords-1 /\ \A i \in 0..MaxWords-1 : p[i] \in SUBSET (0..W-1)
    BY DEF Array, Word
  <1>3. set = [p EXCEPT ![q] = p[q] \cup {r}] /\ cleared = [p EXCEPT ![q] = p[q] \ {r}]
    BY DEF set_bit, clear_bit
  <1>4. get_bit(p, n) <=> r \in p[q]
    BY DEF get_bit
  <1> HIDE DEF q, r, set, cleared
  <1>5. set \in Array(MaxWords) /\ cleared \in Array(MaxWords)
    <2>1. p[q] \cup {r} \in SUBSET (0..W-1) /\ p[q] \ {r} \in SUBSET (0..W-1)
      BY <1>1, <1>2
    <2> QED BY <1>3, <2>1 DEF Array, Word
  <1>6. \A i \in 0..MaxWords-1, b \in 0..W-1 :
           /\ b \in set[i] <=> b \in p[i] \/ (i = q /\ b = r)
           /\ b \in cleared[i] <=> b \in p[i] /\ ~(i = q /\ b = r)
    BY <1>1, <1>2, <1>3
  <1>7. ASSUME NEW t \in Nat
        PROVE  /\ t \in Exponents(set) <=> t \in Exponents(p) \/ t = n
               /\ t \in Exponents(cleared) <=> t \in Exponents(p) /\ t # n
    <2> DEFINE i == t \div W
               b == t % W
    <2>1. i \in Nat /\ b \in 0..W-1 /\ t = W*i + b
      BY Division
    <2>2. \A ws \in Array(MaxWords) : t \in Exponents(ws) <=> i < MaxWords /\ b \in ws[i]
      BY <1>1, InExponents
    <2>3. t = n <=> i = q /\ b = r
      <3>1. t = n => i = q /\ b = r
        BY DEF q, r
      <3>2. i = q /\ b = r => t = n
        BY <1>1, <2>1
      <3> QED BY <3>1, <3>2
    <2> HIDE DEF i, b
    <2>4. CASE i < MaxWords
      <3>1. i \in 0..MaxWords-1
        BY <1>1, <2>1, <2>4
      <3>2. /\ b \in set[i] <=> b \in p[i] \/ (i = q /\ b = r)
            /\ b \in cleared[i] <=> b \in p[i] /\ ~(i = q /\ b = r)
        BY <1>6, <2>1, <3>1
      <3> QED BY <1>5, <2>2, <2>3, <2>4, <3>2
    <2>5. CASE ~(i < MaxWords)
      <3>1. i # q
        BY <1>1, <2>1, <2>5
      <3> QED BY <1>5, <2>2, <2>3, <2>5, <3>1
    <2> QED BY <2>4, <2>5
  <1>8. /\ Exponents(p) \subseteq Nat
        /\ Exponents(set) \subseteq Nat /\ Exponents(cleared) \subseteq Nat
    BY <1>5, ExponentsAreNat
  <1>9. get_bit(p, n) <=> n \in Exponents(p)
    BY <1>1, <1>4, InExponents DEF q, r
  <1>10. clear(p) \in Array(MaxWords) /\ Exponents(clear(p)) = {}
    <2>1. clear(p) = [i \in 0..MaxWords-1 |-> {}]
      BY <1>2 DEF clear
    <2> QED BY <2>1 DEF Array, Word, Exponents
  <1>11. /\ Exponents(set) = Exponents(p) \cup {n}
         /\ Exponents(cleared) = Exponents(p) \ {n}
    BY <1>7, <1>8
  <1> QED BY <1>5, <1>9, <1>10, <1>11 DEF set, cleared

\* add and add_assign (poly/mod.rs) are the sum over F2, and the sum of canonical
\* elements is canonical: what they leave out lies above the last word in use.
THEOREM AddIsSum ==
    ASSUME NEW N \in Nat \ {0}, NWords(N) <= MaxWords,
           NEW p \in Array(MaxWords), Exponents(p) \subseteq 0..N-1,
           NEW q \in Array(MaxWords), Exponents(q) \subseteq 0..N-1
    PROVE  /\ add(p, q, N) \in Array(MaxWords)
           /\ Exponents(add(p, q, N)) = xor(Exponents(p), Exponents(q))
           /\ Exponents(add(p, q, N)) \subseteq 0..N-1
           /\ add_assign(p, q, N) = add(p, q, N)
  <1> DEFINE sum == add(p, q, N)
  <1>1. MaxWords \in Nat /\ W \in Nat /\ W > 0 /\ NWords(N) \in Nat /\ N <= W * NWords(N)
    BY PolyAssumption, WordCount
  <1>2. /\ DOMAIN p = 0..MaxWords-1 /\ \A i \in 0..MaxWords-1 : p[i] \in SUBSET (0..W-1)
        /\ DOMAIN q = 0..MaxWords-1 /\ \A i \in 0..MaxWords-1 : q[i] \in SUBSET (0..W-1)
    BY DEF Array, Word
  <1>3. \A ws \in Array(MaxWords) : Exponents(ws) \subseteq 0..N-1 =>
           \A i \in 0..MaxWords-1 : i >= NWords(N) => ws[i] = {}
    <2> SUFFICES ASSUME NEW ws \in Array(MaxWords), Exponents(ws) \subseteq 0..N-1,
                        NEW i \in 0..MaxWords-1, i >= NWords(N), NEW b \in ws[i]
                 PROVE  FALSE
      OBVIOUS
    <2>1. b \in 0..W-1
      BY DEF Array, Word
    <2>2. W*i + b \in Exponents(ws)
      BY <1>1, <2>1, InExponentsAt
    <2>3. W*i + b < N
      BY <2>2
    <2>4. \A x, y, w \in Nat : x <= y => w * x <= w * y
      BY Z3
    <2>5. W * NWords(N) <= W * i
      BY <1>1, <2>4
    <2>6. W * NWords(N) \in Nat /\ W * i \in Nat
      <3>1. \A x, y \in Nat : x * y \in Nat
        OBVIOUS
      <3> QED BY <1>1, <3>1
    <2> QED BY <1>1, <2>1, <2>3, <2>5, <2>6
  <1>4. sum = [i \in 0..MaxWords-1 |-> xor(p[i], q[i])]
    <2>1. \A i \in 0..MaxWords-1 : ~(i < NWords(N)) => xor(p[i], q[i]) = {}
      BY <1>1, <1>3 DEF xor
    <2> QED BY <1>2, <2>1 DEF add
  <1>5. add_assign(p, q, N) = [i \in 0..MaxWords-1 |-> xor(p[i], q[i])]
    <2>1. \A i \in 0..MaxWords-1 : ~(i < NWords(N)) => xor(p[i], q[i]) = p[i]
      BY <1>1, <1>3 DEF xor
    <2> QED BY <1>2, <2>1 DEF add_assign
  <1> HIDE DEF sum
  <1>6. sum \in Array(MaxWords)
    <2>1. \A i \in 0..MaxWords-1 : xor(p[i], q[i]) \in SUBSET (0..W-1)
      BY <1>2 DEF xor
    <2> QED BY <1>4, <2>1 DEF Array, Word
  <1>7. ASSUME NEW t \in Nat
        PROVE  t \in Exponents(sum) <=> t \in xor(Exponents(p), Exponents(q))
    <2> DEFINE i == t \div W
               b == t % W
    <2>1. i \in Nat
      BY Division
    <2>2. \A ws \in Array(MaxWords) : t \in Exponents(ws) <=> i < MaxWords /\ b \in ws[i]
      BY <1>1, InExponents
    <2> HIDE DEF i, b
    <2>3. i < MaxWords => sum[i] = xor(p[i], q[i])
      BY <1>1, <1>4, <2>1
    <2> QED BY <1>6, <2>2, <2>3 DEF xor
  <1>8. /\ Exponents(p) \subseteq Nat /\ Exponents(q) \subseteq Nat
        /\ Exponents(sum) \subseteq Nat
    BY <1>6, ExponentsAreNat
  <1>9. Exponents(sum) = xor(Exponents(p), Exponents(q))
    BY <1>7, <1>8 DEF xor
  <1>10. Exponents(sum) \subseteq 0..N-1
    BY <1>9 DEF xor
  <1> QED BY <1>4, <1>5, <1>6, <1>9, <1>10 DEF sum

=============================================================================
