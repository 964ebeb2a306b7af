--------------------------- MODULE RsDecoderProofs ---------------------------
(***************************************************************************)
(* Theorems about the outer code's decoder, for every Delta, every field,  *)
(* every code length and every word, and about the field of gf.rs.         *)
(*   berlekamp_massey: the wrapped counters steer it as integers would,    *)
(* the register it ends with reproduces the syndromes, and no shorter one  *)
(* does (Massey's lemma).                                                  *)
(*   rs_decode: encoding is systematic with zero syndromes; up to Delta    *)
(* errors are found and undone (linear maps of polynomials, roots of a     *)
(* register, Forney's formula); the final checks agree; and the decoder    *)
(* implements BoundedDistance.                                             *)
(*   gf.rs: shift, carry-less product, reduction and addition chain obey   *)
(* the laws of a field for every modulus alpha generates it with, and the  *)
(* tables hold its powers: what the theorems above assume of the field.    *)
(***************************************************************************)
EXTENDS RsDecoder, GfTables, FiniteSetTheorems, WellFoundedInduction, TLAPS

-----------------------------------------------------------------------------
(* The counters of berlekamp_massey.                                       *)

\* The u16 counters.  Before the first length change pp is "-1" and both lengths are
\* 0; afterwards the two lengths add up to the step after the change.
Counters ==
    /\ mu \in Syndromes
    /\ deg_sigma \in 0..mu
    /\ \/ pp = PpStart /\ deg_sigma = 0 /\ deg_sigma_p = 0
       \/ /\ pp \in 0..2*Delta-1 /\ pp < mu
          /\ deg_sigma_p \in Nat
          /\ deg_sigma + deg_sigma_p = pp + 1

LengthInv ==
    /\ running \in BOOLEAN
    /\ running => Counters
    /\ d_p # 0

\* What the proofs use of the width: Half is where the sign bit starts.
Half == U16 \div 2

\* Both fit the code's u16 with room for the sums, by BmAssumption.
LEMMA Width ==
    /\ U16 \in Nat /\ Half \in Nat /\ U16 = 2 * Half
    /\ Delta \in Nat \ {0} /\ 4 * Delta < Half
    /\ PpStart = U16 - 1
  BY BmAssumption, SMT DEF U16, Half, PpStart

\* Reduction modulo a width of a number less than one period away from the range,
\* and the sign bit of what is left.
LEMMA Wrap ==
    /\ \A w, x \in Nat : x < w => x % w = x
    /\ \A w, x \in Nat : (0 < x /\ x <= w) => (0 - x) % w = w - x
    /\ \A h, x \in Nat : x < h => x \div h = 0
    /\ \A h, x \in Nat : (h <= x /\ x < 2 * h) => x \div h = 1
  <1>1. \A w, x \in Nat : x < w => x % w = x
    BY Z3
  <1>2. \A w, x \in Nat : (0 < x /\ x <= w) => (0 - x) % w = w - x
    BY Z3
  <1>3. \A h, x \in Nat : x < h => x \div h = 0
    BY Z3
  <1>4. \A h, x \in Nat : (h <= x /\ x < 2 * h) => x \div h = 1
    BY Z3
  <1> QED BY <1>1, <1>2, <1>3, <1>4

\* The wrapped difference is the true shift, and the sum does not overflow.
LEMMA ShiftedLength ==
    ASSUME Counters
    PROVE  deg_x_sigma_p = mu + 1 - deg_sigma
  <1>1. /\ U16 \in Nat /\ PpStart = U16 - 1
        /\ Delta \in Nat /\ 8 * Delta < U16 /\ mu \in Nat /\ mu < 2 * Delta
    BY Width DEF Counters, Syndromes
  <1>2. deg_sigma \in Nat /\ deg_sigma <= mu
    BY <1>1 DEF Counters
  <1>3. (mu + 1 - deg_sigma) % U16 = mu + 1 - deg_sigma
    <2>1. mu + 1 - deg_sigma \in Nat /\ mu + 1 - deg_sigma < U16
      BY <1>1, <1>2
    <2> QED BY <1>1, <2>1, Wrap
  <1>4. CASE pp = PpStart /\ deg_sigma = 0 /\ deg_sigma_p = 0
    <2>1. U16 - 1 - mu \in Nat /\ 0 < U16 - 1 - mu /\ U16 - 1 - mu <= U16
      BY <1>1
    <2>2. (0 - (U16 - 1 - mu)) % U16 = U16 - (U16 - 1 - mu)
      BY <1>1, <2>1, Wrap
    <2>3. 0 - (U16 - 1 - mu) = mu - pp
      BY <1>1, <1>4
    <2>4. (mu - pp) % U16 = mu + 1
      BY <1>1, <2>2, <2>3
    <2>5. ((mu - pp) % U16) + deg_sigma_p = mu + 1 - deg_sigma
      BY <1>1, <1>4, <2>4
    <2> QED BY <1>3, <2>5 DEF deg_x_sigma_p
  <1>5. CASE /\ pp \in 0..2*Delta-1 /\ pp < mu
             /\ deg_sigma_p \in Nat
             /\ deg_sigma + deg_sigma_p = pp + 1
    <2>1. mu - pp \in Nat /\ mu - pp < U16
      BY <1>1, <1>5
    <2>2. (mu - pp) % U16 = mu - pp
      BY <1>1, <2>1, Wrap
    <2>3. ((mu - pp) % U16) + deg_sigma_p = mu + 1 - deg_sigma
      BY <1>1, <1>2, <1>5, <2>2
    <2> QED BY <1>3, <2>3 DEF deg_x_sigma_p
  <1> QED BY <1>4, <1>5 DEF Counters

\* The sign bit of a wrapped difference of small numbers is their comparison.
LEMMA SignBitCompares ==
    ASSUME NEW a \in Nat, NEW b \in Nat, a < Half, b < Half
    PROVE  SignBit(a - b) <=> a < b
  <1>1. U16 \in Nat /\ Half \in Nat /\ U16 = 2 * Half
    BY Width
  <1>2. CASE a < b
    <2>1. b - a \in Nat /\ 0 < b - a /\ b - a <= U16
      BY <1>1, <1>2
    <2>2. (0 - (b - a)) % U16 = U16 - (b - a)
      BY <1>1, <2>1, Wrap
    <2>3. 0 - (b - a) = a - b
      OBVIOUS
    <2>4. U16 - (b - a) \in Nat /\ Half <= U16 - (b - a) /\ U16 - (b - a) < 2 * Half
      BY <1>1, <1>2
    <2>5. (U16 - (b - a)) \div Half = 1
      BY <1>1, <2>4, Wrap
    <2>6. ((a - b) % U16) \div Half = 1
      BY <2>2, <2>3, <2>5
    <2> QED BY <1>2, <2>6 DEF SignBit, Half
  <1>3. CASE ~(a < b)
    <2>1. a - b \in Nat /\ a - b < U16 /\ a - b < Half
      BY <1>1, <1>3
    <2>2. (a - b) % U16 = a - b
      BY <1>1, <2>1, Wrap
    <2>3. (a - b) \div Half = 0
      BY <1>1, <2>1, Wrap
    <2>4. ((a - b) % U16) \div Half = 0
      BY <2>2, <2>3
    <2> QED BY <1>3, <2>4 DEF SignBit, Half
  <1> QED BY <1>2, <1>3

\* The invariant gives the property: the lengths and the comparison.
LEMMA CountersAddUp ==
    ASSUME Counters
    PROVE  /\ deg_sigma + deg_x_sigma_p = mu + 1
           /\ SignBit(deg_sigma - deg_x_sigma_p) <=> 2 * deg_sigma <= mu
  <1>1. /\ Half \in Nat /\ Delta \in Nat /\ 4 * Delta < Half
        /\ mu \in Nat /\ mu < 2 * Delta
        /\ deg_sigma \in Nat /\ deg_sigma <= mu
    BY Width DEF Counters, Syndromes
  <1>2. deg_x_sigma_p = mu + 1 - deg_sigma
    BY ShiftedLength
  <1>3. /\ deg_sigma < Half
        /\ deg_x_sigma_p \in Nat /\ deg_x_sigma_p < Half
    BY <1>1, <1>2
  <1>4. SignBit(deg_sigma - deg_x_sigma_p) <=> deg_sigma < deg_x_sigma_p
    BY <1>1, <1>3, SignBitCompares
  <1> QED BY <1>1, <1>2, <1>4

\* LengthInv is inductive.
LEMMA LengthInit == BmInit => LengthInv
  <1> SUFFICES ASSUME BmInit PROVE LengthInv
    OBVIOUS
  <1>1. running = FALSE /\ d_p = 1
    BY DEF BmInit
  <1>2. d_p # 0
    BY <1>1
  <1> QED BY <1>1, <1>2 DEF LengthInv

\* No step breaks the invariant: a length change swaps the two lengths.
LEMMA LengthNext == LengthInv /\ [BmNext]_bmvars => LengthInv'
  <1> SUFFICES ASSUME LengthInv, [BmNext]_bmvars PROVE LengthInv'
    OBVIOUS
  <1>1. ASSUME NEW synd \in [Syndromes -> Symbols], Call(synd)
        PROVE  LengthInv'
    <2>1. 0 \in Syndromes
      BY BmAssumption DEF Syndromes
    <2> QED BY <1>1, <2>1 DEF Call, LengthInv, Counters
  <1>2. CASE Iterate
    <2>1. Counters /\ running' = TRUE /\ mu' = mu + 1 /\ mu < 2*Delta - 1
      BY <1>2 DEF Iterate, LengthInv
    <2>2. /\ Delta \in Nat /\ mu \in Nat
          /\ deg_sigma \in Nat /\ deg_sigma <= mu
      BY <2>1, BmAssumption DEF Counters, Syndromes
    <2>3. mu' \in Syndromes
      BY <2>1, <2>2 DEF Syndromes
    <2>4. CASE Grew
      <3>1. /\ deg_sigma' = deg_x_sigma_p /\ pp' = mu
            /\ d_p' = d /\ deg_sigma_p' = deg_sigma /\ d # 0
        BY <1>2, <2>4 DEF Iterate, Grew
      <3>2. deg_x_sigma_p = mu + 1 - deg_sigma
        BY <2>1, ShiftedLength
      <3>3. Counters'
        BY <2>1, <2>2, <2>3, <3>1, <3>2 DEF Counters
      <3> QED BY <2>1, <3>1, <3>3 DEF LengthInv
    <2>5. CASE ~Grew
      <3>1. /\ deg_sigma' = deg_sigma /\ pp' = pp
            /\ d_p' = d_p /\ deg_sigma_p' = deg_sigma_p
        BY <1>2, <2>5 DEF Iterate
      <3>2. Counters'
        BY <2>1, <2>2, <2>3, <3>1 DEF Counters, PpStart, U16
      <3> QED BY <2>1, <3>1, <3>2 DEF LengthInv
    <2> QED BY <2>4, <2>5
  <1>3. CASE Finish
    BY <1>3 DEF Finish, LengthInv
  <1>4. CASE UNCHANGED bmvars
    BY <1>4 DEF bmvars, LengthInv, Counters
  <1> QED BY <1>1, <1>2, <1>3, <1>4 DEF BmNext

\* LengthInv holds in every reachable state.
LEMMA LengthInvariant == BmSpec => []LengthInv
  BY LengthInit, LengthNext, PTL DEF BmSpec

\* The wrapped counters of berlekamp_massey steer the loop as the algorithm over the
\* integers would, for every Delta the counters have room for.
THEOREM LengthsAlwaysAddUp == BmSpec => []LengthsAddUp
  <1>1. LengthInv => LengthsAddUp
    BY CountersAddUp DEF LengthInv, LengthsAddUp
  <1> QED BY <1>1, LengthInvariant, PTL

\* berlekamp_massey never divides by a zero discrepancy.
THEOREM NeverDividesByZero == BmSpec => []EarlierDiscrepancyIsNonzero
  <1>1. LengthInv => EarlierDiscrepancyIsNonzero
    BY DEF LengthInv, EarlierDiscrepancyIsNonzero
  <1> QED BY <1>1, LengthInvariant, PTL

\* A set that holds 0 and every successor of a member holds every number.
LEMMA NatSetInduction ==
    ASSUME NEW S, 0 \in S, \A n \in Nat : n \in S => n + 1 \in S
    PROVE  Nat \subseteq S
  <1> SUFFICES ASSUME Nat \ S # {} PROVE FALSE
    OBVIOUS
  <1> DEFINE R == OpToRel(<, Nat)
  <1>1. IsWellFoundedOn(R, Nat)
    BY NatLessThanWellFounded
  <1> HIDE DEF R
  <1>2. PICK m \in Nat \ S : \A k \in Nat \ S : ~ (<<k, m>> \in R)
    <2>1. Nat \ S \subseteq Nat
      OBVIOUS
    <2> QED BY <1>1, <2>1, WFMin
  <1>3. m - 1 \in Nat /\ m - 1 \notin S
    <2>1. m # 0 /\ m \in Nat
      BY <1>2
    <2>2. m - 1 \in Nat /\ (m - 1) + 1 = m
      BY <2>1
    <2>3. m \notin S
      BY <1>2
    <2> QED BY <2>2, <2>3
  <1>4. <<m - 1, m>> \in R
    BY <1>2, <1>3 DEF R, OpToRel
  <1> QED BY <1>2, <1>3, <1>4

-----------------------------------------------------------------------------
(* Sums over the coefficients.  FoldFunctionOnSet takes the members of a   *)
(* set in an order nobody knows; Running(f)[S] is its value on the part S. *)

\* The member the fold takes first.
Pick(S) == CHOOSE c \in S : TRUE

\* The recursion FoldFunctionOnSet is defined by.
Running(f) ==
    CHOOSE h : h = [S \in SUBSET Coefficients |->
                       IF S = {} THEN 0 ELSE plus(f[Pick(S)], h[S \ {Pick(S)}])]

\* The sum the code's loops compute.
Total(f) == FoldFunctionOnSet(plus, 0, f, Coefficients)

\* What is summed, and what a register is.
Terms == [Coefficients -> Symbols]

\* The sum of all coefficients is the last of the running sums.
LEMMA TotalIsRunning == ASSUME NEW f PROVE Total(f) = Running(f)[Coefficients]
  BY Zenon DEF Total, FoldFunctionOnSet, MapThenFoldSet, Running, Pick

\* So inductions on the size of a set of coefficients are possible.
LEMMA CoefficientsFinite ==
    /\ IsFiniteSet(Coefficients)
    /\ \A S \in SUBSET Coefficients : IsFiniteSet(S) /\ Cardinality(S) \in Nat
  <1>1. IsFiniteSet(Coefficients)
    BY BmAssumption, FS_Interval DEF Coefficients
  <1> QED BY <1>1, FS_Subset, FS_CardinalityType

\* The member taken is one of the set.
LEMMA Picked == ASSUME NEW S, S # {} PROVE Pick(S) \in S
  BY DEF Pick

\* The recursion has a solution: one that is right up to n members gives one
\* that is right up to n + 1.
LEMMA RunningUnfolds ==
    ASSUME NEW f \in Terms
    PROVE  /\ Running(f) \in [SUBSET Coefficients -> Symbols]
           /\ \A S \in SUBSET Coefficients :
                Running(f)[S] = IF S = {} THEN 0
                                ELSE plus(f[Pick(S)], Running(f)[S \ {Pick(S)}])
  <1> DEFINE H == [SUBSET Coefficients -> Symbols]
             Step(h) == [S \in SUBSET Coefficients |->
                            IF S = {} THEN 0 ELSE plus(f[Pick(S)], h[S \ {Pick(S)}])]
             Good == {n \in Nat : \E h \in H : \A S \in SUBSET Coefficients :
                                     Cardinality(S) <= n => h[S] = Step(h)[S]}
  <1>1. \A h \in H : Step(h) \in H
    <2> SUFFICES ASSUME NEW h \in H, NEW S \in SUBSET Coefficients
                 PROVE  (IF S = {} THEN 0 ELSE plus(f[Pick(S)], h[S \ {Pick(S)}])) \in Symbols
      OBVIOUS
    <2>1. 0 \in Symbols
      BY BmAssumption
    <2>2. CASE S # {}
      <3>1. Pick(S) \in Coefficients /\ S \ {Pick(S)} \in SUBSET Coefficients
        BY <2>2, Picked
      <3>2. f[Pick(S)] \in Symbols /\ h[S \ {Pick(S)}] \in Symbols
        BY <3>1 DEF Terms
      <3> QED BY <2>2, <3>2, BmAssumption
    <2> QED BY <2>1, <2>2
  <1>2. 0 \in Good
    <2> DEFINE h == [S \in SUBSET Coefficients |-> 0]
    <2>1. h \in H
      BY BmAssumption
    <2>2. ASSUME NEW S \in SUBSET Coefficients, Cardinality(S) <= 0 PROVE h[S] = Step(h)[S]
      <3>1. S = {}
        BY <2>2, CoefficientsFinite, FS_EmptySet
      <3> QED BY <3>1
    <2> QED BY <2>1, <2>2
  <1>3. ASSUME NEW n \in Nat, n \in Good PROVE n + 1 \in Good
    <2>1. PICK h \in H : \A S \in SUBSET Coefficients :
                            Cardinality(S) <= n => h[S] = Step(h)[S]
      BY <1>3
    <2> DEFINE g == Step(h)
    <2>2. ASSUME NEW S \in SUBSET Coefficients, Cardinality(S) <= n + 1
          PROVE  g[S] = Step(g)[S]
      <3>1. CASE S = {}
        BY <3>1
      <3>2. CASE S # {}
        <4> DEFINE r == S \ {Pick(S)}
        <4>1. r \in SUBSET Coefficients /\ Pick(S) \in S
          BY <3>2, Picked
        <4>2. Cardinality(r) = Cardinality(S) - 1
          BY <4>1, CoefficientsFinite, FS_RemoveElement
        <4>3. Cardinality(r) <= n
          BY <2>2, <4>2, CoefficientsFinite
        <4>4. h[r] = g[r]
          BY <2>1, <4>1, <4>3
        <4> HIDE DEF r
        <4>5. g[S] = plus(f[Pick(S)], h[r])
          BY <3>2 DEF r
        <4>6. Step(g)[S] = plus(f[Pick(S)], g[r])
          <5> HIDE DEF g
          <5> QED BY <3>2 DEF r
        <4> HIDE DEF Step, g
        <4> QED BY <4>4, <4>5, <4>6
      <3> QED BY <3>1, <3>2
    <2>3. g \in H
      BY <1>1
    <2> HIDE DEF g, Step, H
    <2> QED BY <2>2, <2>3
  <1>4. Nat \subseteq Good
    <2> HIDE DEF Good
    <2> QED BY <1>2, <1>3, NatSetInduction
  <1>5. PICK h \in H : \A S \in SUBSET Coefficients : h[S] = Step(h)[S]
    <2> DEFINE n == Cardinality(Coefficients)
    <2>1. n \in Nat /\ \A S \in SUBSET Coefficients : Cardinality(S) <= n
      BY CoefficientsFinite, FS_Subset
    <2>2. n \in Good
      BY <1>4, <2>1
    <2> HIDE DEF n, Step, H
    <2> QED BY <2>1, <2>2
  <1>6. h = Step(h)
    <2>1. Step(h) \in H
      BY <1>1
    <2> HIDE DEF Step
    <2> QED BY <1>5, <2>1
  <1>7. Running(f) = Step(Running(f))
    BY <1>6, Zenon DEF Running
  <1>8. \A S \in SUBSET Coefficients :
           Running(f)[S] = IF S = {} THEN 0 ELSE plus(f[Pick(S)], Running(f)[S \ {Pick(S)}])
    BY <1>7, Zenon
  <1> HIDE DEF Step
  <1>9. Running(f) \in H
    <2> DEFINE Fine == {n \in Nat : \A S \in SUBSET Coefficients :
                                       Cardinality(S) = n => Running(f)[S] \in Symbols}
    <2>1. 0 \in Fine
      <3>1. \A S \in SUBSET Coefficients : Cardinality(S) = 0 => S = {}
        BY CoefficientsFinite, FS_EmptySet
      <3> QED BY <1>8, <3>1, BmAssumption
    <2>2. ASSUME NEW n \in Nat, n \in Fine PROVE n + 1 \in Fine
      <3> SUFFICES ASSUME NEW S \in SUBSET Coefficients, Cardinality(S) = n + 1
                   PROVE  Running(f)[S] \in Symbols
        OBVIOUS
      <3>1. S # {}
        <4>1. n + 1 # 0
          OBVIOUS
        <4> QED BY <4>1, FS_EmptySet, Zenon
      <3> DEFINE r == S \ {Pick(S)}
      <3>2. r \in SUBSET Coefficients /\ Pick(S) \in S
        BY <3>1, Picked
      <3>3. Cardinality(r) = n
        BY <3>2, CoefficientsFinite, FS_RemoveElement
      <3>4. Running(f)[r] \in Symbols
        BY <2>2, <3>2, <3>3
      <3>5. f[Pick(S)] \in Symbols
        BY <3>2 DEF Terms
      <3>6. Running(f)[S] = plus(f[Pick(S)], Running(f)[r])
        BY <1>8, <3>1
      <3> QED BY <3>4, <3>5, <3>6, BmAssumption
    <2>3. Nat \subseteq Fine
      <3> HIDE DEF Fine
      <3> QED BY <2>1, <2>2, NatSetInduction
    <2>4. \A S \in SUBSET Coefficients : Running(f)[S] \in Symbols
      BY <2>3, CoefficientsFinite
    <2>5. Running(f) = [S \in SUBSET Coefficients |-> Running(f)[S]]
      BY <1>7 DEF Step
    <2> QED BY <2>4, <2>5
  <1> QED BY <1>8, <1>9

\* So the order does not matter.
LEMMA RunningAdds ==
    ASSUME NEW f \in Terms, NEW S \in SUBSET Coefficients, NEW c \in Coefficients \ S
    PROVE  Running(f)[S \cup {c}] = plus(f[c], Running(f)[S])
  <1> DEFINE R == Running(f)
             Good == {n \in Nat : \A T \in SUBSET Coefficients : \A x \in Coefficients \ T :
                                     Cardinality(T) = n => R[T \cup {x}] = plus(f[x], R[T])}
  <1>1. /\ \A T \in SUBSET Coefficients : R[T] \in Symbols
        /\ \A T \in SUBSET Coefficients : T # {} => R[T] = plus(f[Pick(T)], R[T \ {Pick(T)}])
        /\ \A x \in Coefficients : f[x] \in Symbols
    BY RunningUnfolds DEF Terms
  <1> HIDE DEF R
  <1>2. ASSUME NEW n \in Nat, \A k \in Nat : k < n => k \in Good
        PROVE  n \in Good
    <2> SUFFICES ASSUME NEW T \in SUBSET Coefficients, NEW x \in Coefficients \ T,
                        Cardinality(T) = n
                 PROVE  R[T \cup {x}] = plus(f[x], R[T])
      OBVIOUS
    <2> DEFINE U == T \cup {x}
               y == Pick(U)
    <2>1. U \in SUBSET Coefficients /\ U # {} /\ y \in U
      BY Picked
    <2>2. R[U] = plus(f[y], R[U \ {y}])
      BY <1>1, <2>1
    <2> HIDE DEF y
    <2>3. CASE y = x
      <3>1. U \ {y} = T
        BY <2>3
      <3> QED BY <2>2, <2>3, <3>1
    <2>4. CASE y # x
      <3> DEFINE r == T \ {y}
      <3>1. /\ y \in T /\ r \in SUBSET Coefficients /\ x \in Coefficients \ r
            /\ y \in Coefficients \ r /\ U \ {y} = r \cup {x} /\ T = r \cup {y}
        BY <2>1, <2>4
      <3>2. Cardinality(r) = n - 1 /\ n - 1 \in Nat
        <4>1. Cardinality(r) = Cardinality(T) - 1
          BY <3>1, CoefficientsFinite, FS_RemoveElement
        <4>2. Cardinality(r) \in Nat
          BY <3>1, CoefficientsFinite
        <4> QED BY <4>1, <4>2
      <3>3. n - 1 \in Good
        BY <1>2, <3>2
      <3> HIDE DEF r
      <3>4. R[r \cup {x}] = plus(f[x], R[r]) /\ R[r \cup {y}] = plus(f[y], R[r])
        BY <3>1, <3>2, <3>3
      <3>5. R[U] = plus(f[y], plus(f[x], R[r])) /\ R[T] = plus(f[y], R[r])
        BY <2>2, <3>1, <3>4
      <3>6. f[y] \in Symbols /\ f[x] \in Symbols /\ R[r] \in Symbols
        BY <1>1, <3>1
      <3>7. plus(f[y], plus(f[x], R[r])) = plus(f[x], plus(f[y], R[r]))
        <4>1. plus(plus(f[y], f[x]), R[r]) = plus(f[y], plus(f[x], R[r]))
          BY <3>6, FieldAssumption
        <4>2. plus(plus(f[x], f[y]), R[r]) = plus(f[x], plus(f[y], R[r]))
          BY <3>6, FieldAssumption
        <4>3. plus(f[x], f[y]) = plus(f[y], f[x])
          BY <3>6, FieldAssumption
        <4> QED BY <4>1, <4>2, <4>3
      <3> QED BY <3>5, <3>7
    <2> QED BY <2>3, <2>4
  <1> HIDE DEF Good
  <1>3. \A n \in Nat : n \in Good
    <2> DEFINE Upto == {n \in Nat : \A k \in Nat : k < n => k \in Good}
    <2>1. 0 \in Upto
      OBVIOUS
    <2>2. \A n \in Nat : n \in Upto => n + 1 \in Upto
      <3> SUFFICES ASSUME NEW n \in Nat, n \in Upto, NEW k \in Nat, k < n + 1
                   PROVE  k \in Good
        OBVIOUS
      <3>1. k < n \/ k = n
        OBVIOUS
      <3> QED BY <1>2, <3>1
    <2>3. Nat \subseteq Upto
      <3> HIDE DEF Upto
      <3> QED BY <2>1, <2>2, NatSetInduction
    <2>4. \A n \in Nat : n + 1 \in Upto /\ n < n + 1
      BY <2>3
    <2> QED BY <2>4
  <1>4. Cardinality(S) \in Good
    BY <1>3, CoefficientsFinite
  <1> QED BY <1>4 DEF Good, R

\* Sums of field elements are field elements.
LEMMA RunningType ==
    ASSUME NEW f \in Terms
    PROVE  /\ \A S \in SUBSET Coefficients : Running(f)[S] \in Symbols
           /\ Running(f)[{}] = 0 /\ Total(f) \in Symbols
  BY RunningUnfolds, TotalIsRunning

\* What follows from the field's laws.
LEMMA FieldLaws ==
    /\ {0, 1} \subseteq Symbols
    /\ \A a, b \in Symbols : plus(a, b) \in Symbols /\ times(a, b) \in Symbols
    /\ \A a \in Symbols :
          /\ plus(a, 0) = a /\ plus(0, a) = a /\ plus(a, a) = 0
          /\ times(a, 0) = 0 /\ times(0, a) = 0 /\ times(1, a) = a
    /\ \A a, b \in Symbols : plus(a, b) = 0 <=> a = b
    /\ \A a, b, c, e \in Symbols :
          plus(plus(a, b), plus(c, e)) = plus(plus(a, c), plus(b, e))
  <1>1. {0, 1} \subseteq Symbols /\ 0 \in Symbols /\ 1 \in Symbols
    BY BmAssumption
  <1>2. \A a, b \in Symbols : plus(a, b) \in Symbols /\ times(a, b) \in Symbols
    BY BmAssumption
  <1>3. /\ \A a \in Symbols : plus(a, 0) = a /\ plus(a, a) = 0 /\ times(a, 1) = a
        /\ \A a, b \in Symbols : plus(a, b) = plus(b, a) /\ times(a, b) = times(b, a)
        /\ \A a, b, c \in Symbols : plus(plus(a, b), c) = plus(a, plus(b, c))
        /\ \A a, b, c \in Symbols : times(a, plus(b, c)) = plus(times(a, b), times(a, c))
    BY FieldAssumption
  <1>4. \A a \in Symbols : times(a, 0) = 0
    <2> SUFFICES ASSUME NEW a \in Symbols PROVE times(a, 0) = 0
      OBVIOUS
    <2>1. times(a, plus(0, 0)) = plus(times(a, 0), times(a, 0))
      BY <1>1, <1>3
    <2> QED BY <1>1, <1>2, <1>3, <2>1
  <1>5. \A a, b \in Symbols : plus(a, b) = 0 => a = b
    <2> SUFFICES ASSUME NEW a \in Symbols, NEW b \in Symbols, plus(a, b) = 0 PROVE a = b
      OBVIOUS
    <2>1. plus(plus(a, b), b) = plus(a, plus(b, b))
      BY <1>3
    <2>2. plus(b, b) = 0 /\ plus(a, 0) = a /\ plus(b, 0) = b /\ plus(0, b) = plus(b, 0)
      BY <1>1, <1>3
    <2> QED BY <2>1, <2>2
  <1>6. ASSUME NEW a \in Symbols, NEW b \in Symbols, NEW c \in Symbols, NEW e \in Symbols
        PROVE  plus(plus(a, b), plus(c, e)) = plus(plus(a, c), plus(b, e))
    <2>1. plus(plus(a, b), plus(c, e)) = plus(a, plus(b, plus(c, e)))
      BY <1>2, <1>3
    <2>2. plus(plus(a, c), plus(b, e)) = plus(a, plus(c, plus(b, e)))
      BY <1>2, <1>3
    <2>3. plus(b, plus(c, e)) = plus(plus(b, c), e) /\ plus(c, plus(b, e)) = plus(plus(c, b), e)
      BY <1>3
    <2>4. plus(b, c) = plus(c, b)
      BY <1>3
    <2> QED BY <2>1, <2>2, <2>3, <2>4
  <1>7. \A a \in Symbols : plus(0, a) = a /\ times(0, a) = 0 /\ times(1, a) = a
    BY <1>1, <1>3, <1>4
  <1>8. \A a, b \in Symbols : plus(a, b) = 0 <=> a = b
    BY <1>3, <1>5
  <1> QED BY <1>1, <1>2, <1>3, <1>4, <1>6, <1>7, <1>8

\* What holds of no coefficients and survives one more holds of every set.
LEMMA SetInduction ==
    ASSUME NEW F, {} \in F,
           \A S \in SUBSET Coefficients, c \in Coefficients :
              S \in F /\ c \notin S => S \cup {c} \in F
    PROVE  SUBSET Coefficients \subseteq F
  <1> DEFINE Good == {n \in Nat : \A S \in SUBSET Coefficients : Cardinality(S) = n => S \in F}
  <1>1. 0 \in Good
    <2>1. \A S \in SUBSET Coefficients : Cardinality(S) = 0 => S = {}
      BY CoefficientsFinite, FS_EmptySet
    <2> QED BY <2>1
  <1>2. ASSUME NEW n \in Nat, n \in Good PROVE n + 1 \in Good
    <2>1. ASSUME NEW S \in SUBSET Coefficients, Cardinality(S) = n + 1 PROVE S \in F
      <3>1. S # {}
        <4>1. n + 1 # 0
          OBVIOUS
        <4> QED BY <2>1, <4>1, FS_EmptySet, Zenon
      <3>2. PICK c \in S : TRUE
        BY <3>1
      <3>3. Cardinality(S \ {c}) = Cardinality(S) - 1
        BY CoefficientsFinite, FS_RemoveElement
      <3>4. S \ {c} \in F
        BY <1>2, <2>1, <3>3
      <3>5. (S \ {c}) \cup {c} \in F
        BY <3>2, <3>4
      <3>6. (S \ {c}) \cup {c} = S
        BY <3>2
      <3> QED BY <3>5, <3>6
    <2> QED BY <2>1
  <1> HIDE DEF Good
  <1>3. Nat \subseteq Good
    BY <1>1, <1>2, NatSetInduction
  <1> QED BY <1>3, CoefficientsFinite DEF Good

\* Sums are linear.
LEMMA SumLinear ==
    ASSUME NEW f \in Terms, NEW g \in Terms, NEW h \in Terms, NEW k \in Symbols,
           \A c \in Coefficients : h[c] = plus(f[c], times(k, g[c]))
    PROVE  /\ \A S \in SUBSET Coefficients :
                Running(h)[S] = plus(Running(f)[S], times(k, Running(g)[S]))
           /\ Total(h) = plus(Total(f), times(k, Total(g)))
  <1> DEFINE F == {S \in SUBSET Coefficients :
                      Running(h)[S] = plus(Running(f)[S], times(k, Running(g)[S]))}
  <1>1. {} \in F
    <2>1. Running(h)[{}] = 0 /\ Running(f)[{}] = 0 /\ Running(g)[{}] = 0
      BY RunningType
    <2>2. times(k, 0) = 0 /\ plus(0, 0) = 0
      BY FieldLaws
    <2> QED BY <2>1, <2>2
  <1>2. ASSUME NEW S \in SUBSET Coefficients, NEW c \in Coefficients, S \in F, c \notin S
        PROVE  S \cup {c} \in F
    <2> DEFINE rf == Running(f)[S]
               rg == Running(g)[S]
    <2>1. /\ rf \in Symbols /\ rg \in Symbols /\ f[c] \in Symbols /\ g[c] \in Symbols
      BY RunningType DEF Terms
    <2>2. Running(h)[S] = plus(rf, times(k, rg))
      BY <1>2
    <2>3. /\ Running(f)[S \cup {c}] = plus(f[c], rf)
          /\ Running(g)[S \cup {c}] = plus(g[c], rg)
          /\ Running(h)[S \cup {c}] = plus(h[c], Running(h)[S])
      BY <1>2, RunningAdds
    <2> HIDE DEF rf, rg
    <2>4. times(k, plus(g[c], rg)) = plus(times(k, g[c]), times(k, rg))
      BY <2>1, FieldAssumption
    <2>5. times(k, g[c]) \in Symbols /\ times(k, rg) \in Symbols
      BY <2>1, FieldLaws
    <2>6. plus(plus(f[c], times(k, g[c])), plus(rf, times(k, rg)))
             = plus(plus(f[c], rf), plus(times(k, g[c]), times(k, rg)))
      <3> DEFINE fc == f[c]
                 kg == times(k, g[c])
                 kr == times(k, rg)
      <3>1. fc \in Symbols /\ kg \in Symbols /\ kr \in Symbols
        BY <2>1, <2>5
      <3> HIDE DEF fc, kg, kr
      <3>2. plus(plus(fc, kg), plus(rf, kr)) = plus(plus(fc, rf), plus(kg, kr))
        BY <2>1, <3>1, FieldLaws
      <3> QED BY <3>2 DEF fc, kg, kr
    <2>7. Running(h)[S \cup {c}] = plus(plus(f[c], times(k, g[c])), plus(rf, times(k, rg)))
      <3>1. h[c] = plus(f[c], times(k, g[c]))
        OBVIOUS
      <3>2. Running(h)[S \cup {c}] = plus(h[c], Running(h)[S])
        BY <2>3
      <3> QED BY <2>2, <3>1, <3>2, Zenon
    <2>8. Running(h)[S \cup {c}]
             = plus(Running(f)[S \cup {c}], times(k, Running(g)[S \cup {c}]))
      BY <2>3, <2>4, <2>6, <2>7
    <2> QED BY <2>8
  <1> HIDE DEF F
  <1>3. SUBSET Coefficients \subseteq F
    BY <1>1, <1>2, SetInduction
  <1>4. \A S \in SUBSET Coefficients :
           Running(h)[S] = plus(Running(f)[S], times(k, Running(g)[S]))
    BY <1>3 DEF F
  <1> QED BY <1>4, TotalIsRunning

\* Terms that are 0 add up to 0.
LEMMA SumOfZeros ==
    ASSUME NEW f \in Terms, NEW S \in SUBSET Coefficients, \A c \in S : f[c] = 0
    PROVE  Running(f)[S] = 0
  <1> DEFINE F == {T \in SUBSET Coefficients : T \subseteq S => Running(f)[T] = 0}
  <1>1. {} \in F
    BY RunningType
  <1>2. ASSUME NEW T \in SUBSET Coefficients, NEW c \in Coefficients, T \in F, c \notin T
        PROVE  T \cup {c} \in F
    <2>1. Running(f)[T \cup {c}] = plus(f[c], Running(f)[T])
      BY <1>2, RunningAdds
    <2> QED BY <1>2, <2>1, FieldLaws
  <1> HIDE DEF F
  <1>3. SUBSET Coefficients \subseteq F
    BY <1>1, <1>2, SetInduction
  <1> QED BY <1>3 DEF F

\* A sum with one term that is not 0.
LEMMA SumOfOne ==
    ASSUME NEW f \in Terms, NEW c \in Coefficients, \A e \in Coefficients \ {c} : f[e] = 0
    PROVE  Total(f) = f[c]
  <1> DEFINE S == Coefficients \ {c}
  <1>1. S \in SUBSET Coefficients /\ c \in Coefficients \ S /\ S \cup {c} = Coefficients
    OBVIOUS
  <1>2. Running(f)[S] = 0
    BY <1>1, SumOfZeros
  <1> HIDE DEF S
  <1>3. Running(f)[S \cup {c}] = plus(f[c], Running(f)[S])
    BY <1>1, RunningAdds
  <1>4. f[c] \in Symbols
    BY DEF Terms
  <1> QED BY <1>1, <1>2, <1>3, <1>4, FieldLaws, TotalIsRunning

\* The same for the whole sum.
LEMMA SumOfNone ==
    ASSUME NEW f \in Terms, \A c \in Coefficients : f[c] = 0
    PROVE  Total(f) = 0
  BY SumOfZeros, TotalIsRunning

\* Moving every term one place up; what falls off is 0.
LEMMA SumShifts ==
    ASSUME NEW f \in Terms, NEW g \in Terms, f[0] = 0, g[Delta] = 0,
           \A c \in 0..Delta-1 : f[c + 1] = g[c]
    PROVE  Total(f) = Total(g)
  <1>1. Delta \in Nat \ {0} /\ Coefficients = 0..Delta
    BY BmAssumption DEF Coefficients
  <1> DEFINE Upto == {n \in Nat : n < Delta => Running(f)[0..n+1] = Running(g)[0..n]}
  <1>2. \A n \in Nat, q \in Terms : n <= Delta /\ n > 0 =>
           Running(q)[0..n] = plus(q[n], Running(q)[0..n-1])
    <2> SUFFICES ASSUME NEW n \in Nat, NEW q \in Terms, n <= Delta, n > 0
                 PROVE  Running(q)[0..n] = plus(q[n], Running(q)[0..n-1])
      OBVIOUS
    <2>1. 0..n-1 \in SUBSET Coefficients /\ n \in Coefficients \ (0..n-1)
      BY <1>1
    <2>2. (0..n-1) \cup {n} = 0..n
      OBVIOUS
    <2>3. Running(q)[(0..n-1) \cup {n}] = plus(q[n], Running(q)[0..n-1])
      BY <2>1, RunningAdds
    <2> QED BY <2>2, <2>3, Zenon
  <1>3. \A q \in Terms : Running(q)[0..0] = q[0]
    <2> SUFFICES ASSUME NEW q \in Terms PROVE Running(q)[0..0] = q[0]
      OBVIOUS
    <2>1. {} \in SUBSET Coefficients /\ 0 \in Coefficients \ {}
      BY <1>1
    <2>4. {} \cup {0} = 0..0
      OBVIOUS
    <2>2. Running(q)[{} \cup {0}] = plus(q[0], Running(q)[{}])
      BY <2>1, RunningAdds
    <2>3. q[0] \in Symbols
      BY <2>1 DEF Terms
    <2>5. Running(q)[{}] = 0
      BY RunningType
    <2>6. plus(q[0], 0) = q[0]
      BY <2>3, FieldLaws
    <2> QED BY <2>2, <2>4, <2>5, <2>6
  <1>4. 0 \in Upto
    <2>1. Running(f)[0..1] = plus(f[1], Running(f)[0..0])
      <3>1. ASSUME NEW n \in Nat, n = 1
            PROVE  Running(f)[0..n] = plus(f[n], Running(f)[0..n-1])
        <4>1. n <= Delta /\ n > 0
          BY <1>1, <3>1
        <4> QED BY <1>2, <4>1
      <3>2. 1 - 1 = 0 /\ 1 \in Nat
        OBVIOUS
      <3>3. Running(f)[0..1] = plus(f[1], Running(f)[0..1-1])
        BY <3>1, <3>2, Zenon
      <3> QED BY <3>2, <3>3, Zenon
    <2>2. f[0 + 1] = g[0] /\ f[1] \in Symbols
      BY <1>1 DEF Terms
    <2>3. Running(f)[0..0] = 0 /\ Running(g)[0..0] = g[0]
      <3>1. Running(f)[0..0] = f[0] /\ Running(g)[0..0] = g[0]
        BY <1>3
      <3> QED BY <3>1
    <2>4. plus(f[1], 0) = f[1]
      BY <2>2, FieldLaws
    <2> QED BY <2>1, <2>2, <2>3, <2>4
  <1>5. ASSUME NEW n \in Nat, n \in Upto PROVE n + 1 \in Upto
    <2> SUFFICES ASSUME n + 1 < Delta
                 PROVE  Running(f)[0..(n+1)+1] = Running(g)[0..n+1]
      OBVIOUS
    <2>1. Running(f)[0..n+1] = Running(g)[0..n]
      BY <1>1, <1>5
    <2>2. Running(f)[0..(n+1)+1] = plus(f[(n+1)+1], Running(f)[0..((n+1)+1)-1])
      BY <1>1, <1>2
    <2>3. Running(g)[0..n+1] = plus(g[n+1], Running(g)[0..(n+1)-1])
      BY <1>1, <1>2
    <2>4. ((n+1)+1)-1 = n + 1 /\ (n+1)-1 = n
      OBVIOUS
    <2>5. f[(n+1)+1] = g[n+1]
      BY <1>1
    <2> QED BY <2>1, <2>2, <2>3, <2>4, <2>5
  <1> HIDE DEF Upto
  <1>6. Nat \subseteq Upto
    BY <1>4, <1>5, NatSetInduction
  <1> DEFINE m == Delta - 1
  <1>7. m \in Nat /\ m < Delta /\ Delta = m + 1
    BY <1>1
  <1> HIDE DEF m
  <1>8. Running(f)[0..Delta] = Running(g)[0..m]
    BY <1>6, <1>7 DEF Upto
  <1>9. Running(g)[0..Delta] = plus(g[Delta], Running(g)[0..m])
    <2>1. Running(g)[0..Delta] = plus(g[Delta], Running(g)[0..Delta-1])
      BY <1>1, <1>2
    <2> QED BY <1>7, <2>1
  <1>10. Running(g)[0..m] \in Symbols
    <2>1. 0..m \in SUBSET Coefficients
      BY <1>1, <1>7
    <2> QED BY <2>1, RunningType
  <1>11. Running(g)[0..Delta] = Running(g)[0..m]
    BY <1>9, <1>10, FieldLaws
  <1> QED BY <1>1, <1>8, <1>11, TotalIsRunning

\* A table of terms adds up to the same by rows and by columns.
LEMMA SumsExchange ==
    ASSUME NEW m \in [Coefficients -> Terms]
    PROVE  Total([c \in Coefficients |-> Total(m[c])])
             = Total([e \in Coefficients |-> Total([c \in Coefficients |-> m[c][e]])])
  <1> DEFINE rows == [c \in Coefficients |-> Total(m[c])]
             col(e) == [c \in Coefficients |-> m[c][e]]
             part(S) == [e \in Coefficients |-> Running(col(e))[S]]
             F == {S \in SUBSET Coefficients : Running(rows)[S] = Total(part(S))}
  <1>1. /\ rows \in Terms
        /\ \A e \in Coefficients : col(e) \in Terms
        /\ \A c \in Coefficients : m[c] \in Terms
        /\ \A c, e \in Coefficients : m[c][e] \in Symbols
    BY RunningType DEF Terms
  <1>2. \A S \in SUBSET Coefficients : part(S) \in Terms
    BY <1>1, RunningType DEF Terms
  <1>3. {} \in F
    <2>1. \A e \in Coefficients : part({})[e] = 0
      BY <1>1, RunningType
    <2>2. Total(part({})) = 0
      <3> HIDE DEF part
      <3> QED BY <1>2, <2>1, SumOfNone
    <2> QED BY <1>1, <2>2, RunningType
  <1>4. ASSUME NEW S \in SUBSET Coefficients, NEW c \in Coefficients, S \in F, c \notin S
        PROVE  S \cup {c} \in F
    <2> DEFINE U == S \cup {c}
    <2>1. U \in SUBSET Coefficients
      OBVIOUS
    <2>2. Running(rows)[U] = plus(Total(m[c]), Running(rows)[S])
      <3>1. Running(rows)[U] = plus(rows[c], Running(rows)[S])
        <4> HIDE DEF rows
        <4> QED BY <1>1, <1>4, RunningAdds
      <3> QED BY <3>1
    <2>3. \A e \in Coefficients : part(U)[e] = plus(m[c][e], times(1, part(S)[e]))
      <3> SUFFICES ASSUME NEW e \in Coefficients
                   PROVE  part(U)[e] = plus(m[c][e], times(1, part(S)[e]))
        OBVIOUS
      <3>1. Running(col(e))[U] = plus(col(e)[c], Running(col(e))[S])
        <4>1. col(e) \in Terms
          BY <1>1
        <4> HIDE DEF col
        <4> QED BY <1>4, <4>1, RunningAdds
      <3>2. part(S)[e] \in Symbols
        BY <1>2 DEF Terms
      <3>3. times(1, part(S)[e]) = part(S)[e]
        <4> HIDE DEF part
        <4> QED BY <3>2, FieldLaws
      <3> QED BY <3>1, <3>3
    <2>4. Total(part(U)) = plus(Total(m[c]), times(1, Total(part(S))))
      <3>1. part(U) \in Terms /\ part(S) \in Terms /\ m[c] \in Terms /\ 1 \in Symbols
        BY <1>1, <1>2, <2>1, FieldLaws
      <3> HIDE DEF part, U
      <3> QED BY <2>3, <3>1, SumLinear
    <2>5. times(1, Total(part(S))) = Total(part(S))
      <3>1. Total(part(S)) \in Symbols
        <4>1. part(S) \in Terms
          BY <1>2
        <4> HIDE DEF part
        <4> QED BY <4>1, RunningType
      <3> HIDE DEF part
      <3> QED BY <3>1, FieldLaws
    <2>6. Running(rows)[S] = Total(part(S))
      BY <1>4
    <2> HIDE DEF rows, part
    <2> QED BY <2>1, <2>2, <2>4, <2>5, <2>6
  <1>5. SUBSET Coefficients \subseteq F
    <2> HIDE DEF F
    <2> QED BY <1>3, <1>4, SetInduction
  <1>6. Running(rows)[Coefficients] = Total(part(Coefficients))
    BY <1>5
  <1>7. part(Coefficients) = [e \in Coefficients |-> Total(col(e))]
    <2>1. \A e \in Coefficients : Running(col(e))[Coefficients] = Total(col(e))
      BY TotalIsRunning
    <2> HIDE DEF col
    <2> QED BY <2>1
  <1> HIDE DEF rows, part
  <1>8. Total(rows) = Total([e \in Coefficients |-> Total(col(e))])
    BY <1>6, <1>7, TotalIsRunning
  <1> QED BY <1>8 DEF rows

-----------------------------------------------------------------------------
(* Registers as polynomials: a register reproduces s[t] when coefficient t *)
(* of its product with the syndromes is 0.                                 *)

\* Coefficient t of the product of a register and the syndromes.
ConvTerms(ss, p, t) ==
    [c \in Coefficients |-> IF c <= t THEN times(p[c], ss[t - c]) ELSE 0]
Conv(ss, p, t) == Total(ConvTerms(ss, p, t))

\* Syndromes of a received word.
Words == [Syndromes -> Symbols]

\* No coefficient above L.
ZeroAbove(p, L) == \A c \in Coefficients : c > L => p[c] = 0

\* Products of a register and syndromes stay in the field.
LEMMA ConvType ==
    ASSUME NEW ss \in Words, NEW p \in Terms, NEW t \in Syndromes
    PROVE  /\ ConvTerms(ss, p, t) \in Terms
           /\ Conv(ss, p, t) \in Symbols
           /\ \A c \in Coefficients : c <= t => t - c \in Syndromes /\ ss[t - c] \in Symbols
  <1>1. \A c \in Coefficients : c <= t => t - c \in Syndromes
    BY BmAssumption DEF Coefficients, Syndromes
  <1>2. \A c \in Coefficients : c <= t => ss[t - c] \in Symbols
    BY <1>1 DEF Words
  <1>3. ASSUME NEW c \in Coefficients
        PROVE  (IF c <= t THEN times(p[c], ss[t - c]) ELSE 0) \in Symbols
    <2>1. p[c] \in Symbols
      BY DEF Terms
    <2> QED BY <1>2, <2>1, FieldLaws
  <1>4. ConvTerms(ss, p, t) \in Terms
    BY <1>3 DEF ConvTerms, Terms
  <1> QED BY <1>1, <1>2, <1>4, RunningType DEF Conv

\* The discrepancy of a combination of two registers.
LEMMA ConvUpdate ==
    ASSUME NEW ss \in Words, NEW t \in Syndromes,
           NEW p \in Terms, NEW x \in Terms, NEW q \in Terms, NEW k \in Symbols,
           \A c \in Coefficients : q[c] = plus(p[c], times(k, x[c]))
    PROVE  Conv(ss, q, t) = plus(Conv(ss, p, t), times(k, Conv(ss, x, t)))
  <1> DEFINE f == ConvTerms(ss, p, t)
             g == ConvTerms(ss, x, t)
             h == ConvTerms(ss, q, t)
  <1>1. f \in Terms /\ g \in Terms /\ h \in Terms
    BY ConvType
  <1>2. ASSUME NEW c \in Coefficients PROVE h[c] = plus(f[c], times(k, g[c]))
    <2>1. CASE c <= t
      <3> DEFINE a == p[c]
                 b == x[c]
                 e == ss[t - c]
      <3>1. f[c] = times(a, e) /\ g[c] = times(b, e) /\ h[c] = times(q[c], e)
        BY <2>1 DEF ConvTerms
      <3>2. a \in Symbols /\ b \in Symbols /\ e \in Symbols
        BY <2>1, ConvType DEF Terms
      <3>3. q[c] = plus(a, times(k, b))
        OBVIOUS
      <3> HIDE DEF a, b, e
      <3>4. times(k, b) \in Symbols /\ plus(a, times(k, b)) \in Symbols
        BY <3>2, FieldLaws
      <3>5. times(plus(a, times(k, b)), e) = times(e, plus(a, times(k, b)))
        BY <3>2, <3>4, FieldAssumption
      <3>6. times(e, plus(a, times(k, b))) = plus(times(e, a), times(e, times(k, b)))
        BY <3>2, <3>4, FieldAssumption
      <3>7. times(e, a) = times(a, e) /\ times(e, times(k, b)) = times(times(k, b), e)
        BY <3>2, <3>4, FieldAssumption
      <3>8. times(times(k, b), e) = times(k, times(b, e))
        BY <3>2, FieldAssumption
      <3> HIDE DEF f, g, h
      <3> QED BY <3>1, <3>3, <3>5, <3>6, <3>7, <3>8
    <2>2. CASE ~(c <= t)
      <3>1. f[c] = 0 /\ g[c] = 0 /\ h[c] = 0
        BY <2>2 DEF ConvTerms
      <3>2. times(k, 0) = 0 /\ plus(0, 0) = 0
        BY FieldLaws
      <3> HIDE DEF f, g, h
      <3> QED BY <3>1, <3>2
    <2> QED BY <2>1, <2>2
  <1> HIDE DEF f, g, h
  <1>3. Total(h) = plus(Total(f), times(k, Total(g)))
    BY <1>1, <1>2, SumLinear
  <1> QED BY <1>3 DEF Conv, f, g, h

\* X times a register is one syndrome late.
LEMMA ConvShift ==
    ASSUME NEW ss \in Words, NEW p \in Terms, p[Delta] = 0,
           NEW t \in Syndromes, t + 1 \in Syndromes
    PROVE  Conv(ss, ShiftUp(p), t + 1) = Conv(ss, p, t)
  <1> DEFINE q == ShiftUp(p)
             f == ConvTerms(ss, q, t + 1)
             g == ConvTerms(ss, p, t)
  <1>1. Delta \in Nat \ {0} /\ Coefficients = 0..Delta /\ t \in Nat
    BY BmAssumption DEF Coefficients, Syndromes
  <1>2. q \in Terms
    <2>1. ASSUME NEW c \in Coefficients PROVE (IF c = 0 THEN 0 ELSE p[c - 1]) \in Symbols
      <3>1. CASE c = 0
        BY <3>1, FieldLaws
      <3>2. CASE c # 0
        <4>1. c - 1 \in Coefficients
          BY <1>1, <3>2
        <4> QED BY <3>2, <4>1 DEF Terms
      <3> QED BY <3>1, <3>2
    <2> QED BY <2>1 DEF ShiftUp, Terms
  <1>3. f \in Terms /\ g \in Terms
    BY <1>2, ConvType
  <1>4. f[0] = 0
    <2>1. q[0] = 0 /\ 0 \in Coefficients
      BY <1>1 DEF ShiftUp
    <2>2. f[0] = IF 0 <= t + 1 THEN times(q[0], ss[(t + 1) - 0]) ELSE 0
      BY <2>1, Zenon DEF ConvTerms
    <2>3. 0 <= t + 1 /\ (t + 1) - 0 = t + 1
      BY <1>1
    <2>4. ss[t + 1] \in Symbols
      BY DEF Words
    <2>5. times(0, ss[t + 1]) = 0
      BY <2>4, FieldLaws
    <2> QED BY <2>1, <2>2, <2>3, <2>5, Zenon
  <1>5. g[Delta] = 0
    <2>1. Delta \in Coefficients
      BY <1>1
    <2>2. CASE Delta <= t
      <3>1. g[Delta] = times(p[Delta], ss[t - Delta])
        BY <2>1, <2>2 DEF ConvTerms
      <3>2. ss[t - Delta] \in Symbols
        BY <2>1, <2>2, ConvType
      <3>3. times(0, ss[t - Delta]) = 0
        BY <3>2, FieldLaws
      <3> HIDE DEF g
      <3> QED BY <3>1, <3>3
    <2>3. CASE ~(Delta <= t)
      BY <2>1, <2>3 DEF ConvTerms
    <2> QED BY <2>2, <2>3
  <1>6. ASSUME NEW c \in 0..Delta-1 PROVE f[c + 1] = g[c]
    <2>1. c \in Coefficients /\ c + 1 \in Coefficients /\ c + 1 # 0 /\ (c + 1) - 1 = c
      BY <1>1
    <2>2. q[c + 1] = p[c]
      BY <2>1 DEF ShiftUp
    <2>3. (c + 1 <= t + 1) = (c <= t) /\ (t + 1) - (c + 1) = t - c
      BY <1>1
    <2>4. f[c + 1] = IF c + 1 <= t + 1 THEN times(q[c + 1], ss[(t + 1) - (c + 1)]) ELSE 0
      BY <2>1 DEF ConvTerms
    <2>5. g[c] = IF c <= t THEN times(p[c], ss[t - c]) ELSE 0
      BY <2>1 DEF ConvTerms
    <2> HIDE DEF f, g, q
    <2> QED BY <2>2, <2>3, <2>4, <2>5
  <1> HIDE DEF f, g, q
  <1>7. Total(f) = Total(g)
    BY <1>3, <1>4, <1>5, <1>6, SumShifts
  <1> QED BY <1>7 DEF Conv, f, g, q

\* The term of coefficient 0, which is 1, taken out of the sum.
LEMMA ConvSplits ==
    ASSUME NEW ss \in Words, NEW p \in Terms, p[0] = 1, NEW t \in Syndromes,
           NEW b \in Terms, b[0] = 0,
           \A c \in Coefficients \ {0} : b[c] = ConvTerms(ss, p, t)[c]
    PROVE  Conv(ss, p, t) = plus(ss[t], Total(b))
  <1> DEFINE u == [c \in Coefficients |-> IF c = 0 THEN ss[t] ELSE 0]
             h == ConvTerms(ss, p, t)
  <1>1. t \in Nat /\ 0 \in Coefficients /\ ss[t] \in Symbols /\ t - 0 = t /\ 0 <= t
    BY BmAssumption DEF Coefficients, Syndromes, Words
  <1>2. u \in Terms
    BY <1>1, FieldLaws DEF Terms
  <1>3. h \in Terms
    BY ConvType
  <1>4. Total(u) = ss[t]
    <2>1. u[0] = ss[t] /\ \A c \in Coefficients \ {0} : u[c] = 0
      BY <1>1
    <2> HIDE DEF u
    <2> QED BY <1>1, <1>2, <2>1, SumOfOne
  <1>5. ASSUME NEW c \in Coefficients PROVE h[c] = plus(u[c], times(1, b[c]))
    <2>1. b[c] \in Symbols /\ h[c] \in Symbols
      BY <1>3 DEF Terms
    <2>2. times(1, b[c]) = b[c]
      BY <2>1, FieldLaws
    <2>3. CASE c = 0
      <3>1. h[0] = times(p[0], ss[t])
        BY <1>1 DEF ConvTerms
      <3>2. times(1, ss[t]) = ss[t] /\ plus(ss[t], 0) = ss[t]
        BY <1>1, FieldLaws
      <3>3. u[0] = ss[t]
        BY <1>1
      <3> HIDE DEF h, u
      <3> QED BY <2>2, <2>3, <3>1, <3>2, <3>3
    <2>4. CASE c # 0
      <3>1. u[c] = 0 /\ b[c] = h[c]
        BY <2>4
      <3>2. plus(0, h[c]) = h[c]
        BY <2>1, FieldLaws
      <3> HIDE DEF h, u
      <3> QED BY <2>2, <3>1, <3>2
    <2> QED BY <2>3, <2>4
  <1> HIDE DEF h, u
  <1>6. Total(h) = plus(Total(u), times(1, Total(b)))
    BY <1>2, <1>3, <1>5, FieldLaws, SumLinear
  <1>7. times(1, Total(b)) = Total(b)
    BY RunningType, FieldLaws
  <1> QED BY <1>4, <1>6, <1>7 DEF Conv, h

\* What the properties say with a sum over a register's own coefficients.
LEMMA ReproducesIsConv ==
    ASSUME s \in Words, NEW p \in Terms, p[0] = 1, NEW len \in Nat, ZeroAbove(p, len),
           NEW t \in Syndromes, len <= t
    PROVE  Reproduces(p, len, t) <=> Conv(s, p, t) = 0
  <1> DEFINE b == [c \in Coefficients |-> IF c \in 1..len THEN times(p[c], s[t - c]) ELSE 0]
  <1>1. Coefficients \subseteq Nat /\ 0 \in Coefficients /\ t \in Nat
    BY BmAssumption DEF Coefficients, Syndromes
  <1>2. ASSUME NEW c \in Coefficients, c # 0
        PROVE  b[c] = ConvTerms(s, p, t)[c]
    <2>1. ConvTerms(s, p, t)[c] = IF c <= t THEN times(p[c], s[t - c]) ELSE 0
      BY DEF ConvTerms
    <2>2. CASE c <= len
      <3>1. c \in 1..len /\ c <= t
        BY <1>1, <1>2, <2>2
      <3> QED BY <2>1, <3>1
    <2>3. CASE ~(c <= len)
      <3>1. c \notin 1..len /\ p[c] = 0
        BY <1>1, <2>3 DEF ZeroAbove
      <3>2. c <= t => times(0, s[t - c]) = 0
        BY ConvType, FieldLaws
      <3> QED BY <2>1, <3>1, <3>2
    <2> QED BY <2>2, <2>3
  <1>3. b[0] = 0
    BY <1>1
  <1>4. b \in Terms
    <2>1. ASSUME NEW c \in Coefficients
          PROVE (IF c \in 1..len THEN times(p[c], s[t - c]) ELSE 0) \in Symbols
      <3>1. CASE c \in 1..len
        <4>1. c <= t
          BY <1>1, <3>1
        <4>2. s[t - c] \in Symbols /\ p[c] \in Symbols
          BY <4>1, ConvType DEF Terms
        <4> QED BY <3>1, <4>2, FieldLaws
      <3>2. CASE c \notin 1..len
        BY <3>2, FieldLaws
      <3> QED BY <3>1, <3>2
    <2> QED BY <2>1 DEF Terms
  <1>5. Reproduces(p, len, t) <=> s[t] = Total(b)
    BY Zenon DEF Reproduces, Total
  <1> HIDE DEF b
  <1>6. Conv(s, p, t) = plus(s[t], Total(b))
    BY <1>2, <1>3, <1>4, ConvSplits
  <1>7. s[t] \in Symbols /\ Total(b) \in Symbols
    BY <1>4, RunningType DEF Words
  <1>8. plus(s[t], Total(b)) = 0 <=> s[t] = Total(b)
    BY <1>7, FieldLaws
  <1> QED BY <1>5, <1>6, <1>8

\* What Iterate computes for the next step.
LEMMA NextIsConv ==
    ASSUME s \in Words, NEW p \in Terms, p[0] = 1, mu \in Syndromes, mu + 1 \in Syndromes
    PROVE  NextDiscrepancy(p) = Conv(s, p, mu + 1)
  <1> DEFINE b == [c \in Coefficients |->
                     IF c \in 1..Upper THEN times(p[c], s[mu + 1 - c]) ELSE 0]
             t == mu + 1
  <1>1. /\ Delta \in Nat /\ Coefficients = 0..Delta /\ mu \in Nat
    BY BmAssumption DEF Coefficients, Syndromes
  <1>2. ASSUME NEW c \in Coefficients
        PROVE  c \in 1..Upper <=> c # 0 /\ c <= t
    BY <1>1 DEF Upper
  <1>3. ASSUME NEW c \in Coefficients, c # 0
        PROVE  b[c] = ConvTerms(s, p, t)[c]
    <2>1. ConvTerms(s, p, t)[c] = IF c <= t THEN times(p[c], s[t - c]) ELSE 0
      BY Zenon DEF ConvTerms
    <2>2. b[c] = IF c \in 1..Upper THEN times(p[c], s[mu + 1 - c]) ELSE 0
      OBVIOUS
    <2>3. t - c = mu + 1 - c
      BY <1>1
    <2> HIDE DEF b, t
    <2> QED BY <1>2, <1>3, <2>1, <2>2, <2>3
  <1>4. b[0] = 0
    BY <1>1
  <1>5. b \in Terms
    <2>1. ASSUME NEW c \in Coefficients
          PROVE (IF c \in 1..Upper THEN times(p[c], s[mu + 1 - c]) ELSE 0) \in Symbols
      <3>1. CASE c \in 1..Upper
        <4>1. c <= t
          BY <1>2, <3>1
        <4>2. s[t - c] \in Symbols /\ p[c] \in Symbols
          <5> HIDE DEF t
          <5>1. t \in Syndromes
            BY DEF t
          <5> QED BY <4>1, <5>1, ConvType DEF Terms
        <4>3. times(p[c], s[t - c]) \in Symbols
          <5> HIDE DEF t
          <5> QED BY <4>2, FieldLaws
        <4>4. t - c = mu + 1 - c
          BY <1>1
        <4> HIDE DEF t
        <4> QED BY <3>1, <4>3, <4>4
      <3>2. CASE c \notin 1..Upper
        BY <3>2, FieldLaws
      <3> QED BY <3>1, <3>2
    <2> QED BY <2>1 DEF Terms
  <1>6. NextDiscrepancy(p) = plus(s[t], Total(b))
    BY Zenon DEF NextDiscrepancy, Total
  <1>7. t \in Syndromes
    OBVIOUS
  <1> HIDE DEF b, t
  <1>8. Conv(s, p, t) = plus(s[t], Total(b))
    BY <1>3, <1>4, <1>5, <1>7, ConvSplits
  <1> QED BY <1>6, <1>8 DEF t

\* Massey: two registers whose lengths add up to at most n, and which both reproduce
\* everything before s[n], agree about s[n].
LEMMA RegistersAgree ==
    ASSUME NEW ss \in Words, NEW p \in Terms, NEW q \in Terms, p[0] = 1, q[0] = 1,
           NEW L \in Coefficients, NEW l \in Coefficients, NEW n \in Syndromes, L + l <= n,
           ZeroAbove(p, L), ZeroAbove(q, l),
           \A t \in L..n-1 : Conv(ss, p, t) = 0,
           \A t \in l..n : Conv(ss, q, t) = 0
    PROVE  Conv(ss, p, n) = 0
  <1> DEFINE m == [a \in Coefficients |-> [j \in Coefficients |->
                     IF a <= l /\ j <= L THEN times(q[a], times(p[j], ss[n - a - j])) ELSE 0]]
             row(a) == [j \in Coefficients |-> m[a][j]]
             col(j) == [a \in Coefficients |-> m[a][j]]
             rows == [a \in Coefficients |-> Total(m[a])]
             cols == [j \in Coefficients |-> Total(col(j))]
             zero == [c \in Coefficients |-> 0]
  <1>1. /\ Coefficients \subseteq Nat /\ 0 \in Coefficients /\ Syndromes \subseteq Nat
        /\ \A t \in Nat : t <= n => t \in Syndromes
    BY BmAssumption DEF Coefficients, Syndromes
  <1>2. zero \in Terms /\ Total(zero) = 0
    <2>1. zero \in Terms
      BY FieldLaws DEF Terms
    <2>2. \A c \in Coefficients : zero[c] = 0
      OBVIOUS
    <2> HIDE DEF zero
    <2> QED BY <2>1, <2>2, SumOfNone
  <1>3. \A a, j \in Coefficients : a <= l /\ j <= L =>
           /\ n - a \in Syndromes /\ n - j \in Syndromes /\ n - a - j \in Syndromes
           /\ n - a - j = (n - a) - j /\ n - a - j = (n - j) - a
           /\ a <= n - j /\ j <= n - a
           /\ q[a] \in Symbols /\ p[j] \in Symbols /\ ss[n - a - j] \in Symbols
    <2> SUFFICES ASSUME NEW a \in Coefficients, NEW j \in Coefficients, a <= l, j <= L
                 PROVE  /\ n - a \in Syndromes /\ n - j \in Syndromes /\ n - a - j \in Syndromes
                        /\ n - a - j = (n - a) - j /\ n - a - j = (n - j) - a
                        /\ a <= n - j /\ j <= n - a
                        /\ q[a] \in Symbols /\ p[j] \in Symbols /\ ss[n - a - j] \in Symbols
      OBVIOUS
    <2>1. a \in Nat /\ j \in Nat /\ l \in Nat /\ L \in Nat /\ n \in Nat
      BY <1>1
    <2>2. /\ n - a \in Nat /\ n - j \in Nat /\ n - a - j \in Nat
          /\ n - a <= n /\ n - j <= n /\ n - a - j <= n
          /\ n - a - j = (n - a) - j /\ n - a - j = (n - j) - a
          /\ a <= n - j /\ j <= n - a
      BY <2>1
    <2>3. n - a \in Syndromes /\ n - j \in Syndromes /\ n - a - j \in Syndromes
      BY <1>1, <2>2
    <2>4. q[a] \in Symbols /\ p[j] \in Symbols /\ ss[n - a - j] \in Symbols
      BY <2>3 DEF Terms, Words
    <2> QED BY <2>2, <2>3, <2>4
  <1>4. m \in [Coefficients -> Terms]
    <2>1. ASSUME NEW a \in Coefficients, NEW j \in Coefficients
          PROVE  (IF a <= l /\ j <= L THEN times(q[a], times(p[j], ss[n - a - j])) ELSE 0)
                    \in Symbols
      <3>1. CASE a <= l /\ j <= L
        <4>1. q[a] \in Symbols /\ p[j] \in Symbols /\ ss[n - a - j] \in Symbols
          BY <1>3, <3>1
        <4> QED BY <3>1, <4>1, FieldLaws
      <3>2. CASE ~(a <= l /\ j <= L)
        BY <3>2, FieldLaws
      <3> QED BY <3>1, <3>2
    <2> QED BY <2>1 DEF Terms
  <1>5. \A a, j \in Coefficients :
           m[a][j] = IF a <= l /\ j <= L THEN times(q[a], times(p[j], ss[n - a - j])) ELSE 0
    OBVIOUS
  <1>6. /\ \A a \in Coefficients : m[a] \in Terms
        /\ rows \in Terms /\ cols \in Terms /\ \A j \in Coefficients : col(j) \in Terms
    <2>1. \A a \in Coefficients : m[a] \in Terms
      BY <1>4
    <2>2. rows \in Terms
      BY <2>1, RunningType DEF Terms
    <2>3. \A a, j \in Coefficients : m[a][j] \in Symbols
      BY <2>1 DEF Terms
    <2> HIDE DEF m
    <2>4. \A j \in Coefficients : col(j) \in Terms
      BY <2>3 DEF Terms
    <2>5. cols \in Terms
      BY <2>4, RunningType DEF Terms
    <2> QED BY <2>1, <2>2, <2>4, <2>5
  <1>7. Total(rows) = Total(cols)
    <2> HIDE DEF m
    <2> QED BY <1>4, SumsExchange
  <1> HIDE DEF m, zero
  <1>8. ASSUME NEW a \in Coefficients, a <= l
        PROVE  Total(m[a]) = times(q[a], Conv(ss, p, n - a))
    <2> DEFINE g == ConvTerms(ss, p, n - a)
    <2>1. 0 <= L /\ L \in Nat /\ n - a \in Syndromes /\ q[a] \in Symbols
      BY <1>1, <1>3, <1>8
    <2>2. g \in Terms /\ Total(g) \in Symbols
      BY <2>1, ConvType DEF Conv
    <2>3. ASSUME NEW j \in Coefficients
          PROVE  m[a][j] = plus(zero[j], times(q[a], g[j]))
      <3>1. zero[j] = 0 /\ g[j] \in Symbols
        BY <2>2 DEF zero, Terms
      <3>2. plus(zero[j], times(q[a], g[j])) = times(q[a], g[j])
        BY <2>1, <3>1, FieldLaws
      <3>3. CASE j <= L
        <4>1. g[j] = times(p[j], ss[n - a - j])
          BY <1>3, <1>8, <3>3 DEF ConvTerms
        <4>2. m[a][j] = times(q[a], times(p[j], ss[n - a - j]))
          BY <1>5, <1>8, <3>3
        <4> HIDE DEF g
        <4> QED BY <3>2, <4>1, <4>2
      <3>4. CASE ~(j <= L)
        <4>1. p[j] = 0
          BY <1>1, <3>4 DEF ZeroAbove
        <4>2. g[j] = 0
          <5>1. g[j] = IF j <= n - a THEN times(p[j], ss[(n - a) - j]) ELSE 0
            BY DEF ConvTerms
          <5>2. j <= n - a => times(0, ss[(n - a) - j]) = 0
            <6> SUFFICES ASSUME j <= n - a PROVE times(0, ss[(n - a) - j]) = 0
              OBVIOUS
            <6>1. ss[(n - a) - j] \in Symbols
              BY <2>1, ConvType
            <6> QED BY <6>1, FieldLaws
          <5> HIDE DEF g
          <5> QED BY <4>1, <5>1, <5>2
        <4>3. m[a][j] = 0
          BY <1>5, <3>4
        <4>4. times(q[a], 0) = 0
          BY <2>1, FieldLaws
        <4> HIDE DEF g
        <4> QED BY <3>2, <4>2, <4>3, <4>4
      <3> QED BY <3>3, <3>4
    <2> HIDE DEF g
    <2>4. Total(m[a]) = plus(Total(zero), times(q[a], Total(g)))
      <3> DEFINE h == m[a]
                 k == q[a]
      <3>1. /\ h \in Terms /\ k \in Symbols
            /\ \A j \in Coefficients : h[j] = plus(zero[j], times(k, g[j]))
        BY <1>6, <2>1, <2>3
      <3> HIDE DEF h, k
      <3>2. Total(h) = plus(Total(zero), times(k, Total(g)))
        BY <1>2, <2>2, <3>1, SumLinear
      <3> QED BY <3>2 DEF h, k
    <2>5. times(q[a], Total(g)) \in Symbols
      BY <2>1, <2>2, FieldLaws
    <2>6. Total(m[a]) = times(q[a], Total(g))
      BY <1>2, <2>4, <2>5, FieldLaws
    <2> QED BY <2>6 DEF g, Conv
  <1>9. Total(rows) = Conv(ss, p, n)
    <2>1. ASSUME NEW a \in Coefficients \ {0} PROVE rows[a] = 0
      <3>1. CASE a <= l
        <4>1. n - a \in L..n-1
          BY <1>1, <3>1
        <4>2. Conv(ss, p, n - a) = 0
          BY <4>1
        <4>3. Total(m[a]) = times(q[a], 0)
          BY <1>8, <3>1, <4>2
        <4>4. q[a] \in Symbols
          BY DEF Terms
        <4> QED BY <4>3, <4>4, FieldLaws
      <3>2. CASE ~(a <= l)
        <4>1. \A j \in Coefficients : m[a][j] = 0
          BY <1>5, <3>2
        <4>2. Total(m[a]) = 0
          BY <1>6, <4>1, SumOfNone
        <4> QED BY <4>2
      <3> QED BY <3>1, <3>2
    <2>2. rows[0] = Conv(ss, p, n)
      <3>1. n - 0 = n /\ 0 <= l
        BY <1>1
      <3>2. Total(m[0]) = times(1, Conv(ss, p, n))
        BY <1>1, <1>8, <3>1
      <3>3. times(1, Conv(ss, p, n)) = Conv(ss, p, n)
        BY ConvType, FieldLaws
      <3>4. rows[0] = Total(m[0])
        BY <1>1
      <3> HIDE DEF rows
      <3> QED BY <3>2, <3>3, <3>4
    <2> HIDE DEF rows
    <2>3. Total(rows) = rows[0]
      BY <1>1, <1>6, <2>1, SumOfOne
    <2> QED BY <2>2, <2>3
  <1>10. Total(cols) = 0
    <2>1. ASSUME NEW j \in Coefficients PROVE cols[j] = 0
      <3> DEFINE g == ConvTerms(ss, q, n - j)
      <3>1. CASE j <= L
        <4>1. n - j \in Syndromes /\ n - j \in l..n /\ p[j] \in Symbols
          <5>1. n - j \in l..n
            BY <1>1, <3>1
          <5>2. 0 <= l
            BY <1>1
          <5> QED BY <1>1, <1>3, <3>1, <5>1, <5>2
        <4>2. g \in Terms /\ Total(g) = 0
          BY <4>1, ConvType DEF Conv
        <4>3. ASSUME NEW a \in Coefficients
              PROVE  col(j)[a] = plus(zero[a], times(p[j], g[a]))
          <5>1. zero[a] = 0 /\ g[a] \in Symbols
            BY <4>2 DEF zero, Terms
          <5>2. plus(zero[a], times(p[j], g[a])) = times(p[j], g[a])
            BY <4>1, <5>1, FieldLaws
          <5>3. CASE a <= l
            <6> DEFINE e == ss[n - a - j]
            <6>1. g[a] = times(q[a], e)
              BY <1>3, <3>1, <5>3 DEF ConvTerms
            <6>2. m[a][j] = times(q[a], times(p[j], e))
              BY <1>5, <3>1, <5>3
            <6>3. q[a] \in Symbols /\ p[j] \in Symbols /\ e \in Symbols
              BY <1>3, <3>1, <5>3
            <6> HIDE DEF e, g
            <6>4. times(q[a], times(p[j], e)) = times(times(q[a], p[j]), e)
              BY <6>3, FieldAssumption
            <6>5. times(p[j], times(q[a], e)) = times(times(p[j], q[a]), e)
              BY <6>3, FieldAssumption
            <6>6. times(p[j], q[a]) = times(q[a], p[j])
              BY <6>3, FieldAssumption
            <6>7. m[a][j] = times(p[j], g[a])
              BY <6>1, <6>2, <6>4, <6>5, <6>6
            <6> QED BY <5>2, <6>7
          <5>4. CASE ~(a <= l)
            <6>1. q[a] = 0
              BY <1>1, <5>4 DEF ZeroAbove
            <6>2. g[a] = 0
              <7>1. g[a] = IF a <= n - j THEN times(q[a], ss[(n - j) - a]) ELSE 0
                BY DEF ConvTerms
              <7>2. a <= n - j => times(0, ss[(n - j) - a]) = 0
                <8> SUFFICES ASSUME a <= n - j PROVE times(0, ss[(n - j) - a]) = 0
                  OBVIOUS
                <8>1. ss[(n - j) - a] \in Symbols
                  BY <4>1, ConvType
                <8> QED BY <8>1, FieldLaws
              <7> HIDE DEF g
              <7> QED BY <6>1, <7>1, <7>2
            <6>3. m[a][j] = 0
              BY <1>5, <5>4
            <6>4. times(p[j], 0) = 0
              BY <4>1, FieldLaws
            <6> HIDE DEF g
            <6> QED BY <5>2, <6>2, <6>3, <6>4
          <5> QED BY <5>3, <5>4
        <4> HIDE DEF g, col
        <4>4. Total(col(j)) = plus(Total(zero), times(p[j], Total(g)))
          BY <1>2, <1>6, <4>1, <4>2, <4>3, SumLinear
        <4>5. plus(0, times(p[j], 0)) = 0
          BY <4>1, FieldLaws
        <4> QED BY <1>2, <4>2, <4>4, <4>5
      <3>2. CASE ~(j <= L)
        <4>1. \A a \in Coefficients : col(j)[a] = 0
          BY <1>5, <3>2
        <4> HIDE DEF col
        <4>2. Total(col(j)) = 0
          BY <1>6, <4>1, SumOfNone
        <4> QED BY <4>2
      <3> QED BY <3>1, <3>2
    <2> HIDE DEF cols
    <2> QED BY <1>6, <2>1, SumOfNone
  <1> QED BY <1>7, <1>9, <1>10

-----------------------------------------------------------------------------
(* The invariant of the register.                                          *)

\* No register of a length below L, which fits Delta coefficients, gives n syndromes.
NoShorter(ss, L, n) ==
    \A l \in Coefficients : l < L =>
        ~ \E q \in Terms : q[0] = 1 /\ ZeroAbove(q, l) /\ \A t \in l..n-1 : Conv(ss, q, t) = 0

\* p is a shortest register of n syndromes; longer than Delta, p is not looked at.
Locates(ss, p, L, n) ==
    /\ p \in Terms /\ p[0] = 1 /\ ZeroAbove(p, L)
    /\ L <= Delta => \A t \in L..n-1 : Conv(ss, p, t) = 0
    /\ NoShorter(ss, L, n)

\* X times the register before the last length change: once there was one, it
\* reproduces what is before syndrome n and misses that one by e.
Misses(ss, x, L, n, e) ==
    /\ \A t \in L..n-1 : Conv(ss, x, t) = 0
    /\ Conv(ss, x, n) = e

\* Between two iterations.
Working ==
    /\ s \in Words
    /\ Locates(s, sigma, deg_sigma, mu)
    /\ d = Conv(s, sigma, mu)
    /\ d_p \in Symbols
    /\ x_sigma_p \in Terms /\ x_sigma_p[0] = 0
    /\ ZeroAbove(x_sigma_p, mu + 1 - deg_sigma)
    /\ (pp # PpStart /\ mu + 1 - deg_sigma <= Delta) =>
          Misses(s, x_sigma_p, mu + 1 - deg_sigma, mu, d_p)

\* And before and after a call.
RegisterInv ==
    /\ running => Working
    /\ ~running => \/ mu = 0 /\ deg_sigma = 0
                   \/ /\ mu > 0 /\ deg_sigma \in Nat /\ s \in Words
                      /\ Locates(s, sigma, deg_sigma, 2*Delta)

\* The length after the step.
NewLength == IF Grew THEN deg_x_sigma_p ELSE deg_sigma

\* The state before a step, in the integers.
LEMMA Lengths ==
    ASSUME Counters
    PROVE  /\ Delta \in Nat \ {0} /\ mu \in Nat /\ mu < 2 * Delta /\ mu \in Syndromes
           /\ deg_sigma \in Nat /\ deg_sigma <= mu
           /\ deg_x_sigma_p = mu + 1 - deg_sigma
           /\ mu + 1 - deg_sigma \in Nat
           /\ Grew <=> d # 0 /\ 2 * deg_sigma <= mu
           /\ pp = PpStart => deg_sigma = 0
           /\ NewLength \in Nat /\ deg_sigma <= NewLength
  <1>1. Delta \in Nat \ {0} /\ mu \in Nat /\ mu < 2 * Delta /\ mu \in Syndromes
    BY BmAssumption DEF Counters, Syndromes
  <1>2. deg_sigma \in Nat /\ deg_sigma <= mu
    BY <1>1 DEF Counters
  <1>3. deg_x_sigma_p = mu + 1 - deg_sigma
    BY ShiftedLength
  <1>4. Grew <=> d # 0 /\ 2 * deg_sigma <= mu
    BY CountersAddUp DEF Grew
  <1>5. pp = PpStart => deg_sigma = 0
    <2>1. PpStart \notin 0..2*Delta-1
      BY <1>1, Width
    <2> QED BY <2>1 DEF Counters
  <1>6. mu + 1 - deg_sigma \in Nat
    BY <1>1, <1>2
  <1>7. NewLength \in Nat /\ deg_sigma <= NewLength
    BY <1>1, <1>2, <1>3, <1>4 DEF NewLength
  <1> QED BY <1>1, <1>2, <1>3, <1>4, <1>5, <1>6, <1>7

\* The masked correction is sigma + (d / d_p) X sigma_p, and d / d_p is a division.
LEMMA UpdatedAdds ==
    ASSUME Counters, Working, d_p # 0
    PROVE  LET k == times(d, inverse(d_p))
           IN  /\ k \in Symbols /\ times(k, d_p) = d /\ (d = 0 => k = 0) /\ d \in Symbols
               /\ Updated \in Terms /\ Updated[0] = 1
               /\ \A c \in Coefficients : Updated[c] = plus(sigma[c], times(k, x_sigma_p[c]))
  <1> DEFINE k == times(d, inverse(d_p))
  <1>1. /\ s \in Words /\ sigma \in Terms /\ sigma[0] = 1 /\ x_sigma_p \in Terms
        /\ x_sigma_p[0] = 0 /\ d_p \in Symbols /\ d = Conv(s, sigma, mu)
        /\ ZeroAbove(x_sigma_p, mu + 1 - deg_sigma)
    BY DEF Working, Locates
  <1>2. d \in Symbols
    BY <1>1, Lengths, ConvType
  <1>3. inverse(d_p) \in Symbols
    BY <1>1, BmAssumption
  <1>4. k \in Symbols
    BY <1>2, <1>3, FieldLaws
  <1>5. times(k, d_p) = d
    <2> DEFINE v == inverse(d_p)
    <2>1. v \in Symbols /\ times(d_p, v) = 1
      BY <1>1, <1>3, FieldAssumption
    <2> HIDE DEF v
    <2>2. times(times(d, v), d_p) = times(d, times(v, d_p))
      BY <1>1, <1>2, <2>1, FieldAssumption
    <2>3. times(v, d_p) = times(d_p, v)
      BY <1>1, <2>1, FieldAssumption
    <2>4. times(d, 1) = d
      BY <1>2, FieldAssumption
    <2> QED BY <2>1, <2>2, <2>3, <2>4 DEF v
  <1>6. d = 0 => k = 0
    <2>1. times(0, inverse(d_p)) = 0
      BY <1>3, FieldLaws
    <2> QED BY <2>1
  <1>7. /\ Coefficients = 0..Delta /\ Delta \in Nat /\ mu \in Nat /\ deg_sigma \in Nat
        /\ deg_sigma <= mu
    BY Lengths DEF Coefficients
  <1> HIDE DEF k
  <1>8. ASSUME NEW c \in Coefficients
        PROVE  Updated[c] = plus(sigma[c], times(k, x_sigma_p[c]))
    <2>1. Updated[c] = IF c \in 1..Upper THEN plus(sigma[c], times(k, x_sigma_p[c])) ELSE sigma[c]
      BY DEF Updated, k
    <2>2. CASE c \in 1..Upper
      BY <2>1, <2>2
    <2>3. CASE c \notin 1..Upper
      <3>1. x_sigma_p[c] = 0
        <4>1. c = 0 \/ c > mu + 1 - deg_sigma
          BY <1>7, <2>3 DEF Upper
        <4> QED BY <1>1, <4>1 DEF ZeroAbove
      <3>2. sigma[c] \in Symbols
        BY <1>1 DEF Terms
      <3>3. plus(sigma[c], times(k, 0)) = sigma[c]
        <4>1. times(k, 0) = 0
          BY <1>4, FieldLaws
        <4>2. plus(sigma[c], 0) = sigma[c]
          BY <3>2, FieldLaws
        <4> QED BY <4>1, <4>2
      <3> QED BY <2>1, <2>3, <3>1, <3>3
    <2> QED BY <2>2, <2>3
  <1>9. Updated \in Terms
    <2>1. ASSUME NEW c \in Coefficients PROVE plus(sigma[c], times(k, x_sigma_p[c])) \in Symbols
      <3>1. sigma[c] \in Symbols /\ x_sigma_p[c] \in Symbols
        BY <1>1 DEF Terms
      <3>2. times(k, x_sigma_p[c]) \in Symbols
        BY <1>4, <3>1, FieldLaws
      <3> QED BY <3>1, <3>2, FieldLaws
    <2>2. Updated = [c \in Coefficients |-> Updated[c]]
      BY Zenon DEF Updated
    <2>3. \A c \in Coefficients : Updated[c] \in Symbols
      BY <1>8, <2>1
    <2> QED BY <2>2, <2>3 DEF Terms
  <1>10. Updated[0] = 1
    <2>1. 0 \in Coefficients /\ 0 \notin 1..Upper
      BY <1>7
    <2> QED BY <1>1, <2>1 DEF Updated
  <1> QED BY <1>2, <1>4, <1>5, <1>6, <1>8, <1>9, <1>10 DEF k

\* One step of the algorithm: the corrected register reproduces one syndrome more,
\* its coefficients end at its length, and Massey's lemma keeps it shortest.
LEMMA StepLocates ==
    ASSUME Counters, Working, d_p # 0
    PROVE  Locates(s, Updated, NewLength, mu + 1)
  <1> DEFINE k == times(d, inverse(d_p))
             x == x_sigma_p
             dx == mu + 1 - deg_sigma
             L == NewLength
  <1>1. /\ Delta \in Nat \ {0} /\ mu \in Nat /\ mu < 2 * Delta /\ mu \in Syndromes
        /\ deg_sigma \in Nat /\ deg_sigma <= mu
        /\ deg_x_sigma_p = dx /\ dx \in Nat
        /\ Grew <=> d # 0 /\ 2 * deg_sigma <= mu
        /\ pp = PpStart => deg_sigma = 0
        /\ L \in Nat /\ deg_sigma <= L
    BY Lengths
  <1>2. /\ k \in Symbols /\ times(k, d_p) = d /\ (d = 0 => k = 0) /\ d \in Symbols
        /\ Updated \in Terms /\ Updated[0] = 1
        /\ \A c \in Coefficients : Updated[c] = plus(sigma[c], times(k, x[c]))
    BY UpdatedAdds
  <1>3. /\ s \in Words /\ sigma \in Terms /\ sigma[0] = 1 /\ ZeroAbove(sigma, deg_sigma)
        /\ deg_sigma <= Delta => \A t \in deg_sigma..mu-1 : Conv(s, sigma, t) = 0
        /\ NoShorter(s, deg_sigma, mu)
        /\ d = Conv(s, sigma, mu)
        /\ x \in Terms /\ ZeroAbove(x, dx) /\ d_p \in Symbols
        /\ (pp # PpStart /\ dx <= Delta) => Misses(s, x, dx, mu, d_p)
    BY DEF Working, Locates
  <1>4. Coefficients = 0..Delta /\ Coefficients \subseteq Nat /\ Syndromes = 0..2*Delta-1
    BY <1>1 DEF Coefficients, Syndromes
  <1>5. L = IF Grew THEN dx ELSE deg_sigma
    BY <1>1 DEF NewLength
  <1>6. d # 0 => /\ dx <= L
                 /\ pp = PpStart => L = mu + 1
    BY <1>1, <1>5
  <1> HIDE DEF k, x, L, dx
  <1>7. ZeroAbove(Updated, L)
    <2> SUFFICES ASSUME NEW c \in Coefficients, c > L PROVE Updated[c] = 0
      BY DEF ZeroAbove
    <2>1. sigma[c] = 0
      BY <1>1, <1>3, <1>4 DEF ZeroAbove
    <2>2. times(k, x[c]) = 0
      <3>1. x[c] \in Symbols
        BY <1>3 DEF Terms
      <3>2. CASE d = 0
        <4>1. k = 0
          BY <1>2, <3>2
        <4>2. times(0, x[c]) = 0
          BY <3>1, FieldLaws
        <4> QED BY <4>1, <4>2
      <3>3. CASE d # 0
        <4>1. x[c] = 0
          BY <1>1, <1>3, <1>4, <1>6, <3>3 DEF ZeroAbove
        <4> QED BY <1>2, <4>1, FieldLaws
      <3> QED BY <3>2, <3>3
    <2>3. plus(0, 0) = 0
      BY FieldLaws
    <2> QED BY <1>2, <2>1, <2>2, <2>3
  <1>8. ASSUME L <= Delta, NEW t \in L..mu PROVE Conv(s, Updated, t) = 0
    <2>1. t \in Syndromes /\ t \in Nat /\ deg_sigma <= t /\ deg_sigma <= Delta
      BY <1>1, <1>4, <1>8
    <2>2. Conv(s, Updated, t) = plus(Conv(s, sigma, t), times(k, Conv(s, x, t)))
      BY <1>2, <1>3, <2>1, ConvUpdate
    <2>3. Conv(s, x, t) \in Symbols /\ plus(0, 0) = 0 /\ times(k, 0) = 0
      BY <1>2, <1>3, <2>1, ConvType, FieldLaws
    <2>4. t = mu \/ t \in deg_sigma..mu-1
      BY <1>1, <2>1
    <2>5. t = mu => Conv(s, sigma, t) = d
      BY <1>3
    <2>6. t # mu => Conv(s, sigma, t) = 0
      BY <1>3, <2>1, <2>4
    <2>7. CASE d = 0
      <3>1. times(k, Conv(s, x, t)) = 0
        <4>1. times(0, Conv(s, x, t)) = 0
          BY <2>3, FieldLaws
        <4> QED BY <1>2, <2>7, <4>1
      <3>2. Conv(s, sigma, t) = 0
        BY <2>5, <2>6, <2>7
      <3> QED BY <2>2, <2>3, <3>1, <3>2
    <2>8. CASE d # 0
      <3>1. pp # PpStart /\ dx <= Delta /\ dx <= t
        BY <1>1, <1>6, <1>8, <2>1, <2>8
      <3>2. Misses(s, x, dx, mu, d_p)
        BY <1>3, <3>1
      <3>3. CASE t = mu
        <4>1. Conv(s, x, t) = d_p
          BY <3>2, <3>3 DEF Misses
        <4>2. plus(d, d) = 0
          BY <1>2, FieldLaws
        <4> QED BY <1>2, <2>2, <2>5, <3>3, <4>1, <4>2
      <3>4. CASE t # mu
        <4>1. t \in dx..mu-1
          BY <1>1, <2>1, <2>4, <3>1, <3>4
        <4>2. Conv(s, x, t) = 0
          BY <3>2, <4>1 DEF Misses
        <4> QED BY <2>2, <2>3, <2>6, <3>4, <4>2
      <3> QED BY <3>3, <3>4
    <2> QED BY <2>7, <2>8
  <1>9. NoShorter(s, L, mu + 1)
    <2> SUFFICES ASSUME NEW l \in Coefficients, l < L,
                        NEW q \in Terms, q[0] = 1, ZeroAbove(q, l),
                        \A t \in l..(mu+1)-1 : Conv(s, q, t) = 0
                 PROVE  FALSE
      BY DEF NoShorter
    <2>1. \A t \in l..mu : Conv(s, q, t) = 0
      <3>1. (mu + 1) - 1 = mu
        BY <1>1
      <3> QED BY <3>1
    <2>2. CASE l < deg_sigma
      <3>1. \A t \in l..mu-1 : Conv(s, q, t) = 0
        <4>1. \A t \in l..mu-1 : t \in l..mu
          BY <1>1, <1>4
        <4> QED BY <2>1, <4>1
      <3> QED BY <1>3, <2>2, <3>1 DEF NoShorter
    <2>3. CASE ~(l < deg_sigma)
      <3>1. Grew /\ d # 0 /\ 2 * deg_sigma <= mu /\ L = dx
        BY <1>1, <1>4, <1>5, <2>3
      <3>2. deg_sigma \in Coefficients /\ deg_sigma + l <= mu /\ deg_sigma <= Delta
        BY <1>1, <1>4, <3>1 DEF dx
      <3>3. \A t \in deg_sigma..mu-1 : Conv(s, sigma, t) = 0
        BY <1>3, <3>2
      <3>4. Conv(s, sigma, mu) = 0
        BY <1>1, <1>3, <2>1, <3>2, <3>3, RegistersAgree
      <3> QED BY <1>3, <3>1, <3>4
    <2> QED BY <2>2, <2>3
  <1>10. L <= Delta => \A t \in L..(mu+1)-1 : Conv(s, Updated, t) = 0
    <2>1. (mu + 1) - 1 = mu
      BY <1>1
    <2> QED BY <1>8, <2>1
  <1> QED BY <1>2, <1>7, <1>9, <1>10 DEF Locates, L

\* What the registers start as.
LEMMA MonomialType ==
    ASSUME NEW e \in Nat
    PROVE  Monomial(e) \in Terms /\ ZeroAbove(Monomial(e), e)
  <1>1. \A c \in Coefficients : (IF c = e THEN 1 ELSE 0) \in Symbols
    BY BmAssumption
  <1>2. Monomial(e) \in Terms
    BY <1>1 DEF Monomial, Terms
  <1>3. Coefficients \subseteq Nat
    BY BmAssumption DEF Coefficients
  <1> QED BY <1>2, <1>3 DEF Monomial, ZeroAbove

\* Shifting keeps the type and moves the degree up.
LEMMA ShiftUpType ==
    ASSUME NEW p \in Terms
    PROVE  /\ ShiftUp(p) \in Terms /\ ShiftUp(p)[0] = 0
           /\ \A L \in Nat : ZeroAbove(p, L) => ZeroAbove(ShiftUp(p), L + 1)
  <1>1. Coefficients = 0..Delta /\ Delta \in Nat
    BY BmAssumption DEF Coefficients
  <1>2. ASSUME NEW c \in Coefficients PROVE (IF c = 0 THEN 0 ELSE p[c - 1]) \in Symbols
    <2>1. CASE c = 0
      BY <2>1, FieldLaws
    <2>2. CASE c # 0
      <3>1. c - 1 \in Coefficients
        BY <1>1, <2>2
      <3> QED BY <2>2, <3>1 DEF Terms
    <2> QED BY <2>1, <2>2
  <1>3. ShiftUp(p) \in Terms
    BY <1>2 DEF ShiftUp, Terms
  <1>4. ShiftUp(p)[0] = 0
    BY <1>1 DEF ShiftUp
  <1>5. ASSUME NEW L \in Nat, ZeroAbove(p, L), NEW c \in Coefficients, c > L + 1
        PROVE  ShiftUp(p)[c] = 0
    <2>1. c # 0 /\ c - 1 \in Coefficients /\ c - 1 > L
      BY <1>1, <1>5
    <2> QED BY <1>5, <2>1 DEF ShiftUp, ZeroAbove
  <1> QED BY <1>3, <1>4, <1>5 DEF ZeroAbove

\* The shifted copy of a register that misses syndrome n misses the next one.
LEMMA ShiftMisses ==
    ASSUME NEW ss \in Words, NEW p \in Terms, NEW L \in Nat, L < Delta, ZeroAbove(p, L),
           NEW n \in Syndromes, n + 1 \in Syndromes, NEW e, Misses(ss, p, L, n, e)
    PROVE  Misses(ss, ShiftUp(p), L + 1, n + 1, e)
  <1>1. /\ Delta \in Nat /\ Coefficients = 0..Delta /\ n \in Nat
        /\ Syndromes = 0..2*Delta-1
    BY BmAssumption DEF Coefficients, Syndromes
  <1>2. p[Delta] = 0
    BY <1>1 DEF ZeroAbove
  <1>3. Conv(ss, ShiftUp(p), n + 1) = e
    BY <1>2, ConvShift DEF Misses
  <1>4. ASSUME NEW t \in L+1..(n+1)-1 PROVE Conv(ss, ShiftUp(p), t) = 0
    <2> DEFINE r == t - 1
    <2>1. r \in L..n-1 /\ r \in Syndromes /\ r + 1 = t /\ r + 1 \in Syndromes
      BY <1>1
    <2> HIDE DEF r
    <2>2. Conv(ss, ShiftUp(p), r + 1) = Conv(ss, p, r)
      BY <1>2, <2>1, ConvShift
    <2>3. Conv(ss, p, r) = 0
      BY <2>1 DEF Misses
    <2> QED BY <2>1, <2>2, <2>3
  <1> QED BY <1>3, <1>4 DEF Misses

\* What a call starts with: 1 reproduces no syndrome, and X is its shifted copy.
LEMMA CallLocates ==
    ASSUME NEW synd \in Words
    PROVE  /\ Locates(synd, Monomial(0), 0, 0)
           /\ synd[0] = Conv(synd, Monomial(0), 0)
           /\ Monomial(1) \in Terms /\ Monomial(1)[0] = 0
           /\ ZeroAbove(Monomial(1), 1)
  <1>1. /\ 0 \in Coefficients /\ Coefficients \subseteq Nat /\ 0 \in Syndromes
        /\ Delta \in Nat \ {0} /\ synd[0] \in Symbols
    BY BmAssumption DEF Coefficients, Syndromes, Words
  <1> DEFINE p == Monomial(0)
             f == ConvTerms(synd, p, 0)
  <1>2. p \in Terms /\ p[0] = 1 /\ ZeroAbove(p, 0)
    <2>1. p[0] = 1
      BY <1>1 DEF Monomial
    <2> QED BY <2>1, MonomialType
  <1>3. Monomial(1) \in Terms /\ Monomial(1)[0] = 0 /\ ZeroAbove(Monomial(1), 1)
    <2>1. Monomial(1)[0] = 0
      BY <1>1 DEF Monomial
    <2> QED BY <2>1, MonomialType
  <1> HIDE DEF p
  <1>4. f \in Terms
    BY <1>1, <1>2, ConvType
  <1>5. f[0] = synd[0]
    <2>1. f[0] = times(p[0], synd[0])
      <3>1. f[0] = IF 0 <= 0 THEN times(p[0], synd[0 - 0]) ELSE 0
        BY <1>1, Zenon DEF ConvTerms
      <3>2. 0 <= 0 /\ 0 - 0 = 0
        OBVIOUS
      <3> QED BY <3>1, <3>2, Zenon
    <2>2. times(1, synd[0]) = synd[0]
      BY <1>1, FieldLaws
    <2> QED BY <1>2, <2>1, <2>2, Zenon
  <1>6. ASSUME NEW c \in Coefficients \ {0} PROVE f[c] = 0
    <2>1. ~(c <= 0)
      BY <1>1
    <2> QED BY <2>1 DEF ConvTerms
  <1> HIDE DEF f
  <1>7. Total(f) = f[0]
    BY <1>1, <1>4, <1>6, SumOfOne
  <1>8. synd[0] = Conv(synd, p, 0)
    BY <1>5, <1>7 DEF Conv, f
  <1>9. NoShorter(synd, 0, 0)
    BY <1>1 DEF NoShorter
  <1>10. Locates(synd, p, 0, 0)
    BY <1>2, <1>9 DEF Locates
  <1> QED BY <1>3, <1>8, <1>10 DEF p

\* RegisterInv is inductive: it holds before any call,
LEMMA RegisterInit == BmInit => RegisterInv
  BY DEF BmInit, RegisterInv

\* after the call set its locals,
LEMMA RegisterCall ==
    ASSUME NEW synd \in Words, Call(synd)
    PROVE  RegisterInv'
  <1>1. /\ running' = TRUE /\ s' = synd
        /\ sigma' = Monomial(0) /\ x_sigma_p' = Monomial(1)
        /\ deg_sigma' = 0 /\ pp' = PpStart /\ d_p' = 1 /\ d' = synd[0] /\ mu' = 0
    BY DEF Call
  <1>2. 0 + 1 - 0 = 1
    OBVIOUS
  <1>3. 1 \in Symbols
    BY FieldLaws
  <1>4. Working'
    BY <1>1, <1>2, <1>3, CallLocates DEF Working
  <1> QED BY <1>1, <1>4 DEF RegisterInv

\* after an iteration, whose next discrepancy is that of the corrected register,
LEMMA RegisterIterate ==
    ASSUME LengthInv, RegisterInv, Iterate
    PROVE  RegisterInv'
  <1>1. Counters /\ Working /\ d_p # 0 /\ running' = TRUE
    BY DEF Iterate, LengthInv, RegisterInv
  <1>2. /\ sigma' = Updated /\ deg_sigma' = NewLength
        /\ pp' = (IF Grew THEN mu ELSE pp)
        /\ d_p' = (IF Grew THEN d ELSE d_p)
        /\ x_sigma_p' = ShiftUp(IF Grew THEN sigma ELSE x_sigma_p)
        /\ d' = NextDiscrepancy(sigma')
        /\ mu' = mu + 1 /\ s' = s
    BY DEF Iterate, NewLength
  <1>3. /\ Delta \in Nat \ {0} /\ mu \in Nat /\ mu \in Syndromes
        /\ deg_sigma \in Nat /\ deg_sigma <= mu
        /\ deg_x_sigma_p = mu + 1 - deg_sigma /\ mu + 1 - deg_sigma \in Nat
        /\ Grew <=> d # 0 /\ 2 * deg_sigma <= mu
        /\ mu < 2 * Delta - 1
    BY <1>1, Lengths DEF Iterate
  <1>4. mu + 1 \in Syndromes
    BY <1>3 DEF Syndromes
  <1>5. Locates(s, Updated, NewLength, mu + 1)
    BY <1>1, StepLocates
  <1>6. NextDiscrepancy(Updated) = Conv(s, Updated, mu + 1)
    <2>1. s \in Words /\ Updated \in Terms /\ Updated[0] = 1
      BY <1>1, <1>5 DEF Working, Locates
    <2> QED BY <1>3, <1>4, <2>1, NextIsConv
  <1>7. /\ s \in Words /\ sigma \in Terms /\ ZeroAbove(sigma, deg_sigma)
        /\ deg_sigma <= Delta => \A t \in deg_sigma..mu-1 : Conv(s, sigma, t) = 0
        /\ d = Conv(s, sigma, mu) /\ d_p \in Symbols
        /\ x_sigma_p \in Terms
        /\ ZeroAbove(x_sigma_p, mu + 1 - deg_sigma)
        /\ (pp # PpStart /\ mu + 1 - deg_sigma <= Delta) =>
              Misses(s, x_sigma_p, mu + 1 - deg_sigma, mu, d_p)
    BY <1>1 DEF Working, Locates
  <1>8. d \in Symbols
    BY <1>1, UpdatedAdds
  <1> DEFINE dx == (mu + 1) + 1 - NewLength
  <1>9. /\ d_p' \in Symbols /\ x_sigma_p' \in Terms /\ x_sigma_p'[0] = 0
        /\ ZeroAbove(x_sigma_p', dx)
        /\ (pp' # PpStart /\ dx <= Delta) => Misses(s, x_sigma_p', dx, mu + 1, d_p')
    <2>1. CASE Grew
      <3>1. /\ pp' = mu /\ d_p' = d /\ x_sigma_p' = ShiftUp(sigma)
            /\ dx = deg_sigma + 1 /\ deg_sigma < Delta
        BY <1>2, <1>3, <2>1 DEF NewLength
      <3>2. Misses(s, sigma, deg_sigma, mu, d)
        BY <1>7, <3>1, <1>3 DEF Misses
      <3>3. Misses(s, ShiftUp(sigma), deg_sigma + 1, mu + 1, d)
        BY <1>3, <1>4, <1>7, <3>1, <3>2, ShiftMisses
      <3> QED BY <1>3, <1>7, <1>8, <3>1, <3>3, ShiftUpType
    <2>2. CASE ~Grew
      <3> DEFINE e == mu + 1 - deg_sigma
      <3>1. /\ pp' = pp /\ d_p' = d_p /\ x_sigma_p' = ShiftUp(x_sigma_p)
            /\ dx = e + 1 /\ e \in Nat
        BY <1>2, <1>3, <2>2 DEF NewLength
      <3>2. ASSUME pp # PpStart, dx <= Delta
            PROVE  Misses(s, ShiftUp(x_sigma_p), e + 1, mu + 1, d_p)
        <4>1. e < Delta
          BY <1>3, <3>1, <3>2
        <4>2. Misses(s, x_sigma_p, e, mu, d_p) /\ ZeroAbove(x_sigma_p, e)
          BY <1>3, <1>7, <3>1, <3>2, <4>1
        <4> HIDE DEF e
        <4> QED BY <1>3, <1>4, <1>7, <3>1, <4>1, <4>2, ShiftMisses
      <3>3. ZeroAbove(x_sigma_p, e)
        BY <1>7
      <3> HIDE DEF e, dx
      <3> QED BY <1>7, <3>1, <3>2, <3>3, ShiftUpType
    <2> QED BY <2>1, <2>2
  <1> HIDE DEF dx
  <1>10. Working'
    <2>1. Locates(s', sigma', deg_sigma', mu')
      BY <1>2, <1>5
    <2>2. d' = Conv(s', sigma', mu')
      BY <1>2, <1>6
    <2>3. mu' + 1 - deg_sigma' = dx
      BY <1>2 DEF dx
    <2>4. s' \in Words
      BY <1>2, <1>7
    <2>5. ZeroAbove(x_sigma_p', mu' + 1 - deg_sigma')
      BY <1>9, <2>3
    <2>6. (pp' # PpStart /\ mu' + 1 - deg_sigma' <= Delta) =>
             Misses(s', x_sigma_p', mu' + 1 - deg_sigma', mu', d_p')
      BY <1>2, <1>9, <2>3
    <2> QED BY <1>9, <2>1, <2>2, <2>4, <2>5, <2>6 DEF Working
  <1> QED BY <1>1, <1>10 DEF RegisterInv

\* and after the last one, which only corrects.
LEMMA RegisterFinish ==
    ASSUME LengthInv, RegisterInv, Finish
    PROVE  RegisterInv'
  <1>1. Counters /\ Working /\ d_p # 0
    BY DEF Finish, LengthInv, RegisterInv
  <1>2. /\ sigma' = Updated /\ deg_sigma' = NewLength /\ running' = FALSE
        /\ mu' = mu /\ s' = s /\ mu = 2*Delta - 1
    BY DEF Finish, NewLength
  <1>3. Delta \in Nat \ {0} /\ NewLength \in Nat
    BY <1>1, Lengths
  <1>4. mu' > 0 /\ mu + 1 = 2*Delta
    BY <1>2, <1>3
  <1>5. Locates(s, Updated, NewLength, 2*Delta)
    BY <1>1, <1>4, StepLocates
  <1>6. s \in Words
    BY <1>1 DEF Working
  <1>7. Locates(s', sigma', deg_sigma', 2*Delta)
    BY <1>2, <1>5
  <1> QED BY <1>2, <1>3, <1>4, <1>6, <1>7 DEF RegisterInv

\* No step breaks the invariant.
LEMMA RegisterNext == LengthInv /\ RegisterInv /\ [BmNext]_bmvars => RegisterInv'
  <1> SUFFICES ASSUME LengthInv, RegisterInv, [BmNext]_bmvars PROVE RegisterInv'
    OBVIOUS
  <1>1. ASSUME NEW synd \in [Syndromes -> Symbols], Call(synd) PROVE RegisterInv'
    BY <1>1, RegisterCall DEF Words
  <1>2. CASE Iterate
    BY <1>2, RegisterIterate
  <1>3. CASE Finish
    BY <1>3, RegisterFinish
  <1>4. CASE UNCHANGED bmvars
    BY <1>4 DEF bmvars, RegisterInv, Working
  <1> QED BY <1>1, <1>2, <1>3, <1>4 DEF BmNext

\* RegisterInv holds in every reachable state.
LEMMA RegisterInvariant == BmSpec => []RegisterInv
  <1>1. BmSpec => [](LengthInv /\ RegisterInv)
    BY LengthInit, LengthNext, RegisterInit, RegisterNext, PTL DEF BmSpec
  <1> QED BY <1>1, PTL

\* Before every iteration of berlekamp_massey sigma, as long as it fits, reproduces the
\* syndromes seen so far and d is its discrepancy at the next; at the end it
\* reproduces all 2*Delta of them.
THEOREM RegisterAlwaysReproduces == BmSpec => []RegisterReproduces
  <1>1. LengthInv /\ RegisterInv => RegisterReproduces
    <2> SUFFICES ASSUME LengthInv, RegisterInv, deg_sigma <= Delta, running \/ mu > 0
                 PROVE  /\ \A c \in Coefficients : c > deg_sigma => sigma[c] = 0
                        /\ \A t \in deg_sigma..Seen-1 : Reproduces(sigma, deg_sigma, t)
                        /\ (running /\ mu >= deg_sigma) =>
                              (Reproduces(sigma, deg_sigma, mu) <=> d = 0)
      BY DEF RegisterReproduces
    <2>1. /\ s \in Words /\ deg_sigma \in Nat /\ Locates(s, sigma, deg_sigma, Seen)
          /\ Seen \in Nat /\ Seen <= 2 * Delta
          /\ running => mu \in Syndromes /\ d = Conv(s, sigma, mu)
      <3>1. CASE running
        <4>1. Counters /\ Working
          BY <3>1 DEF LengthInv, RegisterInv
        <4> QED BY <3>1, <4>1, Lengths DEF Working, Seen
      <3>2. CASE ~running
        <4>1. 2 * Delta \in Nat /\ ~(mu = 0)
          BY <3>2, BmAssumption
        <4> QED BY <3>2, <4>1 DEF RegisterInv, Seen
      <3> QED BY <3>1, <3>2
    <2>2. /\ sigma \in Terms /\ sigma[0] = 1 /\ ZeroAbove(sigma, deg_sigma)
          /\ \A t \in deg_sigma..Seen-1 : Conv(s, sigma, t) = 0
      BY <2>1 DEF Locates
    <2>3. ASSUME NEW t \in deg_sigma..Seen-1 PROVE Reproduces(sigma, deg_sigma, t)
      <3>1. t \in Syndromes /\ deg_sigma <= t
        BY <2>1, BmAssumption DEF Syndromes
      <3> QED BY <2>1, <2>2, <3>1, ReproducesIsConv
    <2>4. ASSUME running, mu >= deg_sigma
          PROVE  Reproduces(sigma, deg_sigma, mu) <=> d = 0
      <3>1. mu \in Syndromes /\ deg_sigma <= mu
        BY <2>1, <2>4, BmAssumption DEF Syndromes
      <3> QED BY <2>1, <2>2, <2>4, <3>1, ReproducesIsConv
    <2> QED BY <2>2, <2>3, <2>4 DEF ZeroAbove
  <1> QED BY <1>1, LengthInvariant, RegisterInvariant, PTL

\* No register shorter than the degree berlekamp_massey returns, and of length up to
\* Delta, reproduces the syndromes, whatever the received word was: a degree up to Delta
\* is their linear complexity, and after one above it no locator fits.
THEOREM RegisterIsShortest == BmSpec => []IsShortest
  <1>1. RegisterInv => IsShortest
    <2> SUFFICES ASSUME RegisterInv, ~running, NEW len \in 0..Delta, len < deg_sigma,
                        NEW sig \in [1..len -> Symbols],
                        \A t \in len..2*Delta-1 : Reproduces(sig, len, t)
                 PROVE  FALSE
      BY DEF IsShortest
    <2>1. Delta \in Nat \ {0} /\ Coefficients = 0..Delta /\ len \in Nat
      BY BmAssumption DEF Coefficients
    <2>2. s \in Words /\ NoShorter(s, deg_sigma, 2*Delta)
      <3>1. ~(deg_sigma = 0)
        BY <2>1
      <3> QED BY <3>1 DEF RegisterInv, Locates
    <2> DEFINE q == [c \in Coefficients |->
                       IF c = 0 THEN 1 ELSE IF c <= len THEN sig[c] ELSE 0]
    <2>3. q \in Terms
      <3>1. ASSUME NEW c \in Coefficients
            PROVE  (IF c = 0 THEN 1 ELSE IF c <= len THEN sig[c] ELSE 0) \in Symbols
        <4>1. CASE c # 0 /\ c <= len
          <5>1. c \in 1..len
            BY <2>1, <4>1
          <5> QED BY <4>1, <5>1
        <4>2. CASE ~(c # 0 /\ c <= len)
          BY <4>2, FieldLaws
        <4> QED BY <4>1, <4>2
      <3> QED BY <3>1 DEF Terms
    <2>4. q[0] = 1 /\ ZeroAbove(q, len)
      BY <2>1 DEF ZeroAbove
    <2>5. \A c \in 1..len : q[c] = sig[c]
      BY <2>1
    <2> HIDE DEF q
    <2>6. ASSUME NEW t \in len..2*Delta-1 PROVE Conv(s, q, t) = 0
      <3>1. t \in Syndromes /\ len <= t
        BY <2>1 DEF Syndromes
      <3>2. [c \in Coefficients |-> IF c \in 1..len THEN times(q[c], s[t - c]) ELSE 0]
              = [c \in Coefficients |-> IF c \in 1..len THEN times(sig[c], s[t - c]) ELSE 0]
        BY <2>5
      <3>3. Reproduces(q, len, t) <=> Reproduces(sig, len, t)
        BY <3>2, Zenon DEF Reproduces
      <3>4. Reproduces(q, len, t)
        BY <3>3
      <3> QED BY <2>1, <2>2, <2>3, <2>4, <3>1, <3>4, ReproducesIsConv
    <2>7. len \in Coefficients
      BY <2>1
    <2> QED BY <2>2, <2>3, <2>4, <2>6, <2>7 DEF NoShorter
  <1> QED BY <1>1, RegisterInvariant, PTL

-----------------------------------------------------------------------------
(* Recursive functions.                                                    *)

\* The sequences that start with v0 and go on by the steps.
Sequences(V, v0, step) ==
    {h \in [Nat -> V] : h[0] = v0 /\ \A k \in Nat : h[k + 1] = step[k][h[k]]}

\* A value and a step define a sequence.
LEMMA PrimitiveRecursion ==
    ASSUME NEW V, NEW v0 \in V, NEW step \in [Nat -> [V -> V]]
    PROVE  \E h : h \in Sequences(V, v0, step)
  <1> DEFINE Begun(h, n) == h[0] = v0 /\ \A k \in Nat : k < n => h[k + 1] = step[k][h[k]]
             Good == {n \in Nat : \E h \in [Nat -> V] : Begun(h, n)}
  <1>1. 0 \in Good
    <2> DEFINE h == [k \in Nat |-> v0]
    <2>1. h \in [Nat -> V] /\ Begun(h, 0)
      OBVIOUS
    <2> QED BY <2>1
  <1>2. ASSUME NEW n \in Nat, n \in Good PROVE n + 1 \in Good
    <2>1. PICK h \in [Nat -> V] : Begun(h, n)
      BY <1>2
    <2> DEFINE g == [k \in Nat |-> IF k = n + 1 THEN step[n][h[n]] ELSE h[k]]
    <2>2. g \in [Nat -> V]
      OBVIOUS
    <2>3. g[0] = v0
      BY <2>1
    <2>4. ASSUME NEW k \in Nat, k < n + 1 PROVE g[k + 1] = step[k][g[k]]
      <3>1. k + 1 \in Nat /\ g[k] = h[k]
        BY <2>4
      <3>2. CASE k = n
        BY <3>1, <3>2
      <3>3. CASE k # n
        <4>1. k < n /\ k + 1 # n + 1
          BY <2>4, <3>3
        <4>2. h[k + 1] = step[k][h[k]]
          BY <2>1, <4>1
        <4>3. g[k + 1] = h[k + 1]
          BY <3>1, <4>1
        <4> HIDE DEF g
        <4> QED BY <3>1, <4>2, <4>3
      <3> QED BY <3>2, <3>3
    <2>5. Begun(g, n + 1)
      BY <2>3, <2>4
    <2> HIDE DEF g, Begun
    <2> QED BY <2>2, <2>5
  <1> HIDE DEF Good
  <1>3. \A n \in Nat : n \in Good
    BY <1>1, <1>2, NatSetInduction
  <1> DEFINE start(n) == CHOOSE h \in [Nat -> V] : Begun(h, n)
             r == [n \in Nat |-> start(n)[n]]
  <1>4. ASSUME NEW n \in Nat PROVE start(n) \in [Nat -> V] /\ Begun(start(n), n)
    <2>1. \E h \in [Nat -> V] : Begun(h, n)
      BY <1>3 DEF Good
    <2> HIDE DEF Begun
    <2> QED BY <2>1
  <1>5. ASSUME NEW n \in Nat, NEW h \in [Nat -> V], NEW g \in [Nat -> V],
               Begun(h, n), Begun(g, n + 1)
        PROVE  h[n] = g[n]
    <2> DEFINE Same == {k \in Nat : k <= n => h[k] = g[k]}
    <2>1. 0 \in Same
      BY <1>5
    <2>2. ASSUME NEW k \in Nat, k \in Same PROVE k + 1 \in Same
      <3> SUFFICES ASSUME k + 1 <= n PROVE h[k + 1] = g[k + 1]
        OBVIOUS
      <3>1. k < n /\ k < n + 1 /\ h[k] = g[k]
        BY <2>2
      <3>2. h[k + 1] = step[k][h[k]] /\ g[k + 1] = step[k][g[k]]
        BY <1>5, <3>1
      <3> QED BY <3>1, <3>2
    <2> HIDE DEF Same
    <2>3. \A k \in Nat : k \in Same
      BY <2>1, <2>2, NatSetInduction
    <2> QED BY <2>3 DEF Same
  <1>6. r \in [Nat -> V]
    BY <1>4
  <1>7. r[0] = v0
    BY <1>4
  <1>8. ASSUME NEW n \in Nat PROVE r[n + 1] = step[n][r[n]]
    <2>1. n + 1 \in Nat /\ n < n + 1
      OBVIOUS
    <2> DEFINE h == start(n)
               g == start(n + 1)
    <2>2. h \in [Nat -> V] /\ g \in [Nat -> V] /\ Begun(h, n) /\ Begun(g, n + 1)
      BY <1>4, <2>1
    <2>3. r[n] = h[n] /\ r[n + 1] = g[n + 1]
      BY <2>1
    <2> HIDE DEF h, g, r
    <2>4. h[n] = g[n]
      <3> HIDE DEF Begun
      <3> QED BY <1>5, <2>2
    <2>5. g[n + 1] = step[n][g[n]]
      BY <2>1, <2>2
    <2> QED BY <2>3, <2>4, <2>5
  <1> HIDE DEF r
  <1>9. r \in Sequences(V, v0, step)
    BY <1>6, <1>7, <1>8 DEF Sequences
  <1> QED BY <1>9

-----------------------------------------------------------------------------
(* Powers.                                                                 *)

\* 1, a, a^2, ...
IsPowers(h, a) ==
    h \in [Nat -> Symbols] /\ h[0] = 1 /\ \A k \in Nat : h[k + 1] = times(a, h[k])
Power(a, n) == (CHOOSE h : IsPowers(h, a))[n]

\* The recursion has a solution.
LEMMA PowerUnfolds ==
    ASSUME NEW a \in Symbols
    PROVE  /\ \A n \in Nat : Power(a, n) \in Symbols
           /\ Power(a, 0) = 1
           /\ \A n \in Nat : Power(a, n + 1) = times(a, Power(a, n))
  <1> DEFINE step == [k \in Nat |-> [v \in Symbols |-> times(a, v)]]
  <1>1. step \in [Nat -> [Symbols -> Symbols]]
    BY FieldLaws
  <1>2. \A k \in Nat, v \in Symbols : step[k][v] = times(a, v)
    OBVIOUS
  <1> HIDE DEF step
  <1>3. 1 \in Symbols
    BY FieldLaws
  <1>4. PICK h : h \in Sequences(Symbols, 1, step)
    BY <1>1, <1>3, PrimitiveRecursion
  <1>10. h \in [Nat -> Symbols] /\ h[0] = 1 /\ \A k \in Nat : h[k + 1] = step[k][h[k]]
    BY <1>4 DEF Sequences
  <1>5. IsPowers(h, a)
    BY <1>2, <1>10 DEF IsPowers
  <1> DEFINE g == CHOOSE f : IsPowers(f, a)
  <1>6. IsPowers(g, a)
    BY <1>5, Zenon
  <1>7. \A n : Power(a, n) = g[n]
    BY Zenon DEF Power
  <1> HIDE DEF g
  <1>8. g \in [Nat -> Symbols] /\ g[0] = 1 /\ \A k \in Nat : g[k + 1] = times(a, g[k])
    BY <1>6 DEF IsPowers
  <1>9. \A n \in Nat : n + 1 \in Nat /\ g[n] \in Symbols
    BY <1>8
  <1>11. 0 \in Nat
    OBVIOUS
  <1> QED BY <1>7, <1>8, <1>9, <1>11, Zenon

\* What is 0 in a product, in a field.
LEMMA NoZeroDivisors ==
    ASSUME NEW a \in Symbols, NEW b \in Symbols, times(a, b) = 0, a # 0
    PROVE  b = 0
  <1> DEFINE v == inverse(a)
  <1>1. v \in Symbols /\ times(a, v) = 1
    BY BmAssumption, FieldAssumption
  <1> HIDE DEF v
  <1>2. times(times(v, a), b) = times(v, times(a, b))
    BY <1>1, FieldAssumption
  <1>3. times(v, a) = 1
    BY <1>1, FieldAssumption
  <1>4. times(v, 0) = 0 /\ times(1, b) = b
    BY <1>1, FieldLaws
  <1> QED BY <1>2, <1>3, <1>4

\* (a + b) + (c + e) = (a + c) + (b + e), and the same for products.
LEMMA PlusSwaps ==
    ASSUME NEW a \in Symbols, NEW b \in Symbols, NEW c \in Symbols, NEW e \in Symbols
    PROVE  plus(plus(a, b), plus(c, e)) = plus(plus(a, c), plus(b, e))
  BY FieldLaws

LEMMA TimesSwaps ==
    ASSUME NEW a \in Symbols, NEW b \in Symbols, NEW c \in Symbols, NEW e \in Symbols
    PROVE  times(times(a, b), times(c, e)) = times(times(a, c), times(b, e))
  <1>1. times(b, c) \in Symbols /\ times(c, e) \in Symbols /\ times(b, e) \in Symbols
        /\ times(c, b) = times(b, c)
    BY FieldLaws, FieldAssumption
  <1>2. times(times(a, b), times(c, e)) = times(a, times(b, times(c, e)))
    BY <1>1, FieldAssumption
  <1>3. times(times(a, c), times(b, e)) = times(a, times(c, times(b, e)))
    BY <1>1, FieldAssumption
  <1>4. times(b, times(c, e)) = times(times(b, c), e) /\ times(c, times(b, e)) = times(times(c, b), e)
    BY FieldAssumption
  <1> QED BY <1>1, <1>2, <1>3, <1>4

\* The laws of powers.
LEMMA PowerLaws ==
    ASSUME NEW a \in Symbols, NEW b \in Symbols
    PROVE  /\ Power(a, 1) = a
           /\ \A n \in Nat : Power(1, n) = 1
           /\ \A n \in Nat : a # 0 => Power(a, n) # 0
           /\ \A n \in Nat : Power(times(a, b), n) = times(Power(a, n), Power(b, n))
           /\ \A m, n \in Nat : Power(a, m + n) = times(Power(a, m), Power(a, n))
  <1>1. 1 \in Symbols /\ 0 \in Symbols /\ times(a, b) \in Symbols
    BY FieldLaws
  <1>2. Power(a, 1) = a
    <2>1. Power(a, 0 + 1) = times(a, 1) /\ times(a, 1) = a /\ 0 + 1 = 1
      BY PowerUnfolds, FieldAssumption
    <2> QED BY <2>1
  <1>3. \A n \in Nat : Power(1, n) = 1
    <2> DEFINE G == {n \in Nat : Power(1, n) = 1}
    <2>1. 0 \in G
      BY <1>1, PowerUnfolds
    <2>2. ASSUME NEW n \in Nat, n \in G PROVE n + 1 \in G
      <3>1. Power(1, n + 1) = times(1, 1) /\ times(1, 1) = 1
        BY <1>1, <2>2, PowerUnfolds, FieldAssumption
      <3> QED BY <3>1
    <2> HIDE DEF G
    <2>3. Nat \subseteq G
      BY <2>1, <2>2, NatSetInduction
    <2> QED BY <2>3 DEF G
  <1>4. ASSUME a # 0 PROVE \A n \in Nat : Power(a, n) # 0
    <2> DEFINE G == {n \in Nat : Power(a, n) # 0}
    <2>1. 0 \in G
      BY PowerUnfolds
    <2>2. ASSUME NEW n \in Nat, n \in G PROVE n + 1 \in G
      <3>1. Power(a, n) \in Symbols /\ Power(a, n) # 0 /\ Power(a, n + 1) = times(a, Power(a, n))
        BY <2>2, PowerUnfolds
      <3> QED BY <1>4, <3>1, NoZeroDivisors
    <2> HIDE DEF G
    <2>3. Nat \subseteq G
      BY <2>1, <2>2, NatSetInduction
    <2> QED BY <2>3 DEF G
  <1>5. \A n \in Nat : Power(times(a, b), n) = times(Power(a, n), Power(b, n))
    <2> DEFINE G == {n \in Nat : Power(times(a, b), n) = times(Power(a, n), Power(b, n))}
    <2>1. 0 \in G
      <3>1. Power(times(a, b), 0) = 1 /\ Power(a, 0) = 1 /\ Power(b, 0) = 1 /\ times(1, 1) = 1
        BY <1>1, PowerUnfolds, FieldLaws
      <3> QED BY <3>1
    <2>2. ASSUME NEW n \in Nat, n \in G PROVE n + 1 \in G
      <3> DEFINE x == Power(a, n)
                 y == Power(b, n)
      <3>1. x \in Symbols /\ y \in Symbols
        BY PowerUnfolds
      <3>2. Power(times(a, b), n + 1) = times(times(a, b), times(x, y))
        BY <1>1, <2>2, PowerUnfolds
      <3>3. Power(a, n + 1) = times(a, x) /\ Power(b, n + 1) = times(b, y)
        BY PowerUnfolds
      <3> HIDE DEF x, y
      <3> QED BY <3>1, <3>2, <3>3, TimesSwaps
    <2> HIDE DEF G
    <2>3. Nat \subseteq G
      BY <2>1, <2>2, NatSetInduction
    <2> QED BY <2>3 DEF G
  <1>6. ASSUME NEW m \in Nat PROVE \A n \in Nat : Power(a, m + n) = times(Power(a, m), Power(a, n))
    <2> DEFINE x == Power(a, m)
               G == {n \in Nat : Power(a, m + n) = times(x, Power(a, n))}
    <2>1. x \in Symbols
      BY PowerUnfolds
    <2>2. 0 \in G
      <3>1. Power(a, 0) = 1 /\ m + 0 = m /\ times(x, 1) = x
        BY <2>1, PowerUnfolds, FieldAssumption
      <3> QED BY <3>1
    <2>3. ASSUME NEW n \in Nat, n \in G PROVE n + 1 \in G
      <3> DEFINE y == Power(a, n)
      <3>1. y \in Symbols /\ Power(a, n + 1) = times(a, y)
        BY PowerUnfolds
      <3>2. m + (n + 1) = (m + n) + 1 /\ m + n \in Nat
        OBVIOUS
      <3>3. Power(a, m + (n + 1)) = times(a, Power(a, m + n))
        BY <3>2, PowerUnfolds
      <3>4. Power(a, m + n) = times(x, y)
        BY <2>3
      <3> HIDE DEF x, y
      <3>5. times(a, times(x, y)) = times(times(a, x), y)
        BY <2>1, <3>1, FieldAssumption
      <3>6. times(x, times(a, y)) = times(times(x, a), y) /\ times(x, a) = times(a, x)
        BY <2>1, <3>1, FieldAssumption
      <3>7. Power(a, m + (n + 1)) = times(x, Power(a, n + 1))
        BY <3>1, <3>3, <3>4, <3>5, <3>6
      <3> QED BY <3>7 DEF x
    <2> HIDE DEF G
    <2>4. Nat \subseteq G
      BY <2>2, <2>3, NatSetInduction
    <2> QED BY <2>4 DEF G, x
  <1> QED BY <1>2, <1>3, <1>4, <1>5, <1>6

-----------------------------------------------------------------------------
(* Linear maps of words, registers and syndromes, and polynomial values.   *)

\* Functions of a set of positions, degrees or times.
Family(D) == [D -> Symbols]
Unit(D, p) == [c \in D |-> IF c = p THEN 1 ELSE 0]
Combo(D, f, k, g) == [c \in D |-> plus(f[c], times(k, g[c]))]
ZeroOn(D) == [c \in D |-> 0]

\* What respects sums and multiples.
Linear(D, L) ==
    /\ L \in [Family(D) -> Symbols]
    /\ \A f, g \in Family(D), k \in Symbols :
          L[Combo(D, f, k, g)] = plus(L[f], times(k, L[g]))

\* The families are closed under all of these.
LEMMA FamilyClosed ==
    ASSUME NEW D
    PROVE  /\ ZeroOn(D) \in Family(D)
           /\ \A p : Unit(D, p) \in Family(D)
           /\ \A f, g \in Family(D), k \in Symbols : Combo(D, f, k, g) \in Family(D)
  <1>1. ZeroOn(D) \in Family(D)
    BY FieldLaws DEF ZeroOn, Family
  <1>2. ASSUME NEW p PROVE Unit(D, p) \in Family(D)
    BY FieldLaws DEF Unit, Family
  <1>3. ASSUME NEW f \in Family(D), NEW g \in Family(D), NEW k \in Symbols
        PROVE  Combo(D, f, k, g) \in Family(D)
    <2>1. \A c \in D : f[c] \in Symbols /\ g[c] \in Symbols
      BY DEF Family
    <2>2. \A c \in D : times(k, g[c]) \in Symbols
      BY <2>1, FieldLaws
    <2>3. \A c \in D : plus(f[c], times(k, g[c])) \in Symbols
      BY <2>1, <2>2, FieldLaws
    <2> QED BY <2>3 DEF Combo, Family
  <1> QED BY <1>1, <1>2, <1>3

\* A linear map is 0 at 0.
LEMMA LinearAtZero ==
    ASSUME NEW D, NEW L, Linear(D, L)
    PROVE  L[ZeroOn(D)] = 0
  <1> DEFINE z == ZeroOn(D)
  <1>1. z \in Family(D) /\ 1 \in Symbols /\ 0 \in Symbols
    BY FamilyClosed, FieldLaws
  <1>2. Combo(D, z, 1, z) = z
    <2>1. times(1, 0) = 0 /\ plus(0, 0) = 0
      BY <1>1, FieldLaws
    <2> QED BY <2>1 DEF Combo, ZeroOn
  <1> HIDE DEF z
  <1>3. L[Combo(D, z, 1, z)] = plus(L[z], times(1, L[z])) /\ L[z] \in Symbols
    BY <1>1 DEF Linear
  <1>4. times(1, L[z]) = L[z] /\ plus(L[z], L[z]) = 0
    BY <1>3, FieldLaws
  <1> QED BY <1>2, <1>3, <1>4 DEF z

\* What is true of no member and stays true with one more is true of a finite set.
LEMMA SubsetInduction ==
    ASSUME NEW D, IsFiniteSet(D), NEW F, {} \in F,
           \A S \in SUBSET D, c \in D : S \in F /\ c \notin S => S \cup {c} \in F
    PROVE  SUBSET D \subseteq F
  <1> DEFINE Good == {n \in Nat : \A S \in SUBSET D : Cardinality(S) = n => S \in F}
  <1>0. \A S \in SUBSET D : IsFiniteSet(S) /\ Cardinality(S) \in Nat
    BY FS_Subset, FS_CardinalityType
  <1>1. 0 \in Good
    <2>1. \A S \in SUBSET D : Cardinality(S) = 0 => S = {}
      BY <1>0, FS_EmptySet
    <2> QED BY <2>1
  <1>2. ASSUME NEW n \in Nat, n \in Good PROVE n + 1 \in Good
    <2>1. ASSUME NEW S \in SUBSET D, Cardinality(S) = n + 1 PROVE S \in F
      <3>1. S # {}
        <4>1. n + 1 # 0
          OBVIOUS
        <4> QED BY <2>1, <4>1, FS_EmptySet, Zenon
      <3>2. PICK c \in S : TRUE
        BY <3>1
      <3>3. Cardinality(S \ {c}) = Cardinality(S) - 1
        BY <1>0, FS_RemoveElement
      <3>4. S \ {c} \in F
        BY <1>2, <2>1, <3>3
      <3>5. (S \ {c}) \cup {c} \in F
        BY <3>2, <3>4
      <3>6. (S \ {c}) \cup {c} = S
        BY <3>2
      <3> QED BY <3>5, <3>6
    <2> QED BY <2>1
  <1> HIDE DEF Good
  <1>3. Nat \subseteq Good
    BY <1>1, <1>2, NatSetInduction
  <1> QED BY <1>0, <1>3 DEF Good

\* Two linear maps that agree on the units of a set agree on all that is 0 elsewhere.
LEMMA LinearAgree ==
    ASSUME NEW D, IsFiniteSet(D), NEW T \in SUBSET D,
           NEW L, NEW M, Linear(D, L), Linear(D, M),
           \A p \in T : L[Unit(D, p)] = M[Unit(D, p)],
           NEW w \in Family(D), \A c \in D \ T : w[c] = 0
    PROVE  L[w] = M[w]
  <1> DEFINE Part(S) == [c \in D |-> IF c \in S THEN w[c] ELSE 0]
             F == {S \in SUBSET T : L[Part(S)] = M[Part(S)]}
  <1>1. \A S \in SUBSET T : Part(S) \in Family(D)
    BY FieldLaws DEF Family
  <1>2. {} \in F
    <2>1. Part({}) = ZeroOn(D)
      BY DEF ZeroOn
    <2> HIDE DEF Part
    <2> QED BY <2>1, LinearAtZero
  <1>3. ASSUME NEW S \in SUBSET T, NEW c \in T, S \in F, c \notin S PROVE S \cup {c} \in F
    <2>1. /\ Part(S) \in Family(D) /\ Unit(D, c) \in Family(D) /\ w[c] \in Symbols
          /\ L[Part(S)] = M[Part(S)]
      BY <1>1, <1>3, FamilyClosed DEF Family
    <2>2. Part(S \cup {c}) = Combo(D, Part(S), w[c], Unit(D, c))
      <3>1. ASSUME NEW e \in D
            PROVE  Part(S \cup {c})[e] = Combo(D, Part(S), w[c], Unit(D, c))[e]
        <4>1. w[e] \in Symbols
          BY DEF Family
        <4>2. Combo(D, Part(S), w[c], Unit(D, c))[e]
                = plus(Part(S)[e], times(w[c], IF e = c THEN 1 ELSE 0))
          BY DEF Combo, Unit
        <4>3. CASE e = c
          <5>1. Part(S)[e] = 0 /\ Part(S \cup {c})[e] = w[c]
            BY <1>3, <4>3
          <5>2. times(w[c], 1) = w[c] /\ plus(0, w[c]) = w[c]
            BY <2>1, FieldLaws, FieldAssumption
          <5> QED BY <4>2, <4>3, <5>1, <5>2
        <4>4. CASE e # c
          <5>1. Part(S \cup {c})[e] = Part(S)[e] /\ Part(S)[e] \in Symbols
            BY <1>1, <4>4 DEF Family
          <5>2. times(w[c], 0) = 0 /\ plus(Part(S)[e], 0) = Part(S)[e]
            BY <2>1, <5>1, FieldLaws
          <5> QED BY <4>2, <4>4, <5>1, <5>2
        <4> QED BY <4>3, <4>4
      <3>2. /\ Part(S \cup {c}) = [e \in D |-> Part(S \cup {c})[e]]
            /\ Combo(D, Part(S), w[c], Unit(D, c))
                 = [e \in D |-> Combo(D, Part(S), w[c], Unit(D, c))[e]]
        BY DEF Combo
      <3> HIDE DEF Part
      <3> QED BY <3>1, <3>2
    <2> HIDE DEF Part
    <2>3. L[Combo(D, Part(S), w[c], Unit(D, c))] = M[Combo(D, Part(S), w[c], Unit(D, c))]
      BY <2>1 DEF Linear
    <2> QED BY <2>2, <2>3
  <1> HIDE DEF F
  <1>4. SUBSET T \subseteq F
    <2>1. IsFiniteSet(T)
      BY FS_Subset
    <2> QED BY <1>2, <1>3, <2>1, SubsetInduction
  <1>5. L[Part(T)] = M[Part(T)]
    BY <1>4 DEF F
  <1>6. Part(T) = w
    BY DEF Family
  <1> QED BY <1>5, <1>6

\* Multiples of a linear map are linear.
LEMMA LinearTimes ==
    ASSUME NEW D, NEW L, Linear(D, L), NEW a \in Symbols
    PROVE  Linear(D, [f \in Family(D) |-> times(a, L[f])])
  <1> DEFINE M == [f \in Family(D) |-> times(a, L[f])]
  <1>1. \A f \in Family(D) : L[f] \in Symbols
    BY DEF Linear
  <1>2. M \in [Family(D) -> Symbols]
    BY <1>1, FieldLaws
  <1>3. ASSUME NEW f \in Family(D), NEW g \in Family(D), NEW k \in Symbols
        PROVE  M[Combo(D, f, k, g)] = plus(M[f], times(k, M[g]))
    <2> DEFINE x == L[f]
               y == L[g]
    <2>1. x \in Symbols /\ y \in Symbols /\ Combo(D, f, k, g) \in Family(D)
      BY <1>1, FamilyClosed
    <2>2. L[Combo(D, f, k, g)] = plus(x, times(k, y))
      BY DEF Linear
    <2>3. M[Combo(D, f, k, g)] = times(a, plus(x, times(k, y))) /\ M[f] = times(a, x) /\ M[g] = times(a, y)
      BY <2>1, <2>2
    <2> HIDE DEF x, y, M
    <2>4. times(k, y) \in Symbols
      BY <2>1, FieldLaws
    <2>5. times(a, plus(x, times(k, y))) = plus(times(a, x), times(a, times(k, y)))
      BY <2>1, <2>4, FieldAssumption
    <2>6. times(a, times(k, y)) = times(times(a, k), y) /\ times(k, times(a, y)) = times(times(k, a), y)
      BY <2>1, FieldAssumption
    <2>7. times(a, k) = times(k, a)
      BY FieldAssumption
    <2> QED BY <2>3, <2>5, <2>6, <2>7
  <1> HIDE DEF M
  <1>4. Linear(D, M)
    BY <1>2, <1>3 DEF Linear
  <1> QED BY <1>4 DEF M

\* Horner's accumulator.
IsHorner(acc, p, n, at) ==
    /\ acc \in [0..n+1 -> Symbols]
    /\ acc[n + 1] = 0
    /\ \A c \in 0..n : acc[c] = plus(times(acc[c + 1], at), p[c])

\* It is what gf_poly_eval computes,
LEMMA HornerIs ==
    ASSUME NEW n \in Nat, NEW p, NEW at, NEW acc, IsHorner(acc, p, n, at)
    PROVE  gf_poly_eval(p, n, at) = acc[0] /\ acc[0] \in Symbols
  <1> DEFINE Step(h) == [c \in 0..n+1 |-> IF c = n + 1 THEN 0 ELSE plus(times(h[c + 1], at), p[c])]
             A == CHOOSE h : h = Step(h)
  <1>1. gf_poly_eval(p, n, at) = A[0]
    BY Zenon DEF gf_poly_eval
  <1>2. acc = Step(acc)
    <2>1. \A c \in 0..n+1 : c # n + 1 => c \in 0..n
      OBVIOUS
    <2> QED BY <2>1 DEF IsHorner
  <1>3. A = Step(A)
    <2> HIDE DEF Step
    <2> QED BY <1>2, Zenon
  <1> HIDE DEF A
  <1> DEFINE Same == {k \in Nat : k <= n + 1 => A[n + 1 - k] = acc[n + 1 - k]}
  <1>4. 0 \in Same
    <2>1. n + 1 \in 0..n+1 /\ n + 1 - 0 = n + 1
      OBVIOUS
    <2>2. A[n + 1] = 0
      BY <1>3, <2>1
    <2>3. acc[n + 1] = 0
      BY DEF IsHorner
    <2> QED BY <2>1, <2>2, <2>3
  <1>5. ASSUME NEW k \in Nat, k \in Same PROVE k + 1 \in Same
    <2> SUFFICES ASSUME k + 1 <= n + 1 PROVE A[n + 1 - (k + 1)] = acc[n + 1 - (k + 1)]
      OBVIOUS
    <2> DEFINE c == n + 1 - (k + 1)
    <2>1. c \in 0..n /\ c + 1 = n + 1 - k /\ c \in 0..n+1 /\ c # n + 1
      OBVIOUS
    <2>2. A[c + 1] = acc[c + 1]
      BY <1>5, <2>1
    <2> HIDE DEF c
    <2>3. A[c] = plus(times(A[c + 1], at), p[c])
      BY <1>3, <2>1
    <2>4. acc[c] = plus(times(acc[c + 1], at), p[c])
      BY <2>1 DEF IsHorner
    <2>5. A[c] = acc[c]
      BY <2>2, <2>3, <2>4
    <2> QED BY <2>5 DEF c
  <1> HIDE DEF Same
  <1>6. Nat \subseteq Same
    BY <1>4, <1>5, NatSetInduction
  <1>7. A[0] = acc[0]
    <2>1. n + 1 \in Nat /\ n + 1 - (n + 1) = 0 /\ n + 1 <= n + 1
      OBVIOUS
    <2> QED BY <1>6, <2>1 DEF Same
  <1>8. acc[0] \in Symbols
    BY DEF IsHorner
  <1> QED BY <1>1, <1>7, <1>8

\* and there is one.
LEMMA HornerExists ==
    ASSUME NEW n \in Nat, NEW p \in Family(0..n), NEW at \in Symbols
    PROVE  \E acc : IsHorner(acc, p, n, at)
  <1> DEFINE coeff(k) == IF k <= n THEN p[n - k] ELSE 0
             step == [k \in Nat |-> [v \in Symbols |-> plus(times(v, at), coeff(k))]]
  <1>1. \A k \in Nat : coeff(k) \in Symbols
    <2>1. \A k \in Nat : k <= n => n - k \in 0..n
      OBVIOUS
    <2> QED BY <2>1, FieldLaws DEF Family
  <1>2. step \in [Nat -> [Symbols -> Symbols]]
    <2> HIDE DEF coeff
    <2> QED BY <1>1, FieldLaws
  <1>3. \A k \in Nat, v \in Symbols : step[k][v] = plus(times(v, at), coeff(k))
    <2> HIDE DEF coeff
    <2> QED OBVIOUS
  <1> HIDE DEF step
  <1>4. PICK h : h \in Sequences(Symbols, 0, step)
    BY <1>2, FieldLaws, PrimitiveRecursion
  <1>5. h \in [Nat -> Symbols] /\ h[0] = 0 /\ \A k \in Nat : h[k + 1] = step[k][h[k]]
    BY <1>4 DEF Sequences
  <1> DEFINE acc == [c \in 0..n+1 |-> h[n + 1 - c]]
  <1>6. acc \in [0..n+1 -> Symbols]
    <2>1. \A c \in 0..n+1 : n + 1 - c \in Nat
      OBVIOUS
    <2> QED BY <1>5, <2>1
  <1>7. acc[n + 1] = 0
    <2>1. n + 1 \in 0..n+1 /\ n + 1 - (n + 1) = 0
      OBVIOUS
    <2> QED BY <1>5, <2>1
  <1>8. ASSUME NEW c \in 0..n PROVE acc[c] = plus(times(acc[c + 1], at), p[c])
    <2> DEFINE k == n - c
    <2>1. k \in Nat /\ k + 1 = n + 1 - c /\ k = n + 1 - (c + 1) /\ k <= n /\ n - k = c
          /\ c \in 0..n+1 /\ c + 1 \in 0..n+1
      OBVIOUS
    <2>2. acc[c] = h[k + 1] /\ acc[c + 1] = h[k]
      BY <2>1
    <2>3. coeff(k) = p[c]
      BY <2>1
    <2> HIDE DEF k, acc, coeff
    <2>4. h[k + 1] = step[k][h[k]] /\ h[k] \in Symbols
      BY <1>5, <2>1
    <2>5. h[k + 1] = plus(times(h[k], at), coeff(k))
      BY <1>3, <2>1, <2>4
    <2> QED BY <2>2, <2>3, <2>5
  <1> HIDE DEF acc
  <1>9. IsHorner(acc, p, n, at)
    BY <1>6, <1>7, <1>8 DEF IsHorner
  <1> QED BY <1>9

\* The value at a point, as a map of the polynomials of degree at most n.
EvalMap(n, at) == [p \in Family(0..n) |-> gf_poly_eval(p, n, at)]

\* Evaluation is linear and takes a monomial to a power.
LEMMA EvalLinear ==
    ASSUME NEW n \in Nat, NEW at \in Symbols
    PROVE  /\ Linear(0..n, EvalMap(n, at))
           /\ \A c \in 0..n : EvalMap(n, at)[Unit(0..n, c)] = Power(at, c)
           /\ \A p \in Family(0..n) : EvalMap(n, at)[p] = gf_poly_eval(p, n, at)
  <1> DEFINE D == 0..n
             L == EvalMap(n, at)
  <1>1. \A p \in Family(D) : L[p] = gf_poly_eval(p, n, at)
    BY DEF EvalMap
  <1>2. ASSUME NEW p \in Family(D), NEW acc, IsHorner(acc, p, n, at)
        PROVE  L[p] = acc[0] /\ L[p] \in Symbols
    BY <1>1, <1>2, HornerIs
  <1>3. \A p \in Family(D) : \E acc : IsHorner(acc, p, n, at)
    BY HornerExists
  <1>4. L = [p \in Family(D) |-> L[p]] /\ \A p \in Family(D) : L[p] \in Symbols
    BY <1>2, <1>3 DEF EvalMap
  <1>5. L \in [Family(D) -> Symbols]
    <2> HIDE DEF L
    <2> QED BY <1>4
  <1> HIDE DEF L
  <1>6. ASSUME NEW f \in Family(D), NEW g \in Family(D), NEW k \in Symbols
        PROVE  L[Combo(D, f, k, g)] = plus(L[f], times(k, L[g]))
    <2>1. PICK a : IsHorner(a, f, n, at)
      BY <1>3
    <2>2. PICK b : IsHorner(b, g, n, at)
      BY <1>3
    <2> DEFINE q == Combo(D, f, k, g)
               e == [c \in 0..n+1 |-> plus(a[c], times(k, b[c]))]
    <2>3. \A c \in 0..n+1 : a[c] \in Symbols /\ b[c] \in Symbols /\ times(k, b[c]) \in Symbols
      BY <2>1, <2>2, FieldLaws DEF IsHorner
    <2>4. e \in [0..n+1 -> Symbols]
      BY <2>3, FieldLaws
    <2>5. e[n + 1] = 0
      <3>1. n + 1 \in 0..n+1 /\ a[n + 1] = 0 /\ b[n + 1] = 0
        BY <2>1, <2>2 DEF IsHorner
      <3>2. times(k, 0) = 0 /\ plus(0, 0) = 0
        BY FieldLaws
      <3> QED BY <3>1, <3>2
    <2>6. ASSUME NEW c \in 0..n PROVE e[c] = plus(times(e[c + 1], at), q[c])
      <3> DEFINE x == a[c + 1]
                 y == b[c + 1]
                 u == f[c]
                 v == g[c]
      <3>1. c \in 0..n+1 /\ c + 1 \in 0..n+1
        OBVIOUS
      <3>2. x \in Symbols /\ y \in Symbols /\ u \in Symbols /\ v \in Symbols
        BY <2>3, <3>1 DEF Family
      <3>3. e[c] = plus(a[c], times(k, b[c])) /\ e[c + 1] = plus(x, times(k, y))
            /\ q[c] = plus(u, times(k, v))
        BY <3>1 DEF Combo
      <3>4. a[c] = plus(times(x, at), u) /\ b[c] = plus(times(y, at), v)
        BY <2>1, <2>2 DEF IsHorner
      <3> HIDE DEF x, y, u, v, e, q
      <3>5. times(k, y) \in Symbols /\ times(k, v) \in Symbols /\ times(x, at) \in Symbols
            /\ times(y, at) \in Symbols
        BY <3>2, FieldLaws
      <3>6. times(k, plus(times(y, at), v)) = plus(times(k, times(y, at)), times(k, v))
        BY <3>2, <3>5, FieldAssumption
      <3>7. times(plus(x, times(k, y)), at) = plus(times(x, at), times(k, times(y, at)))
        <4>1. plus(x, times(k, y)) \in Symbols
          BY <3>2, <3>5, FieldLaws
        <4>2. times(plus(x, times(k, y)), at) = times(at, plus(x, times(k, y)))
          BY <4>1, FieldAssumption
        <4>3. times(at, plus(x, times(k, y))) = plus(times(at, x), times(at, times(k, y)))
          BY <3>2, <3>5, FieldAssumption
        <4>4. times(at, x) = times(x, at) /\ times(at, times(k, y)) = times(times(k, y), at)
          BY <3>2, <3>5, FieldAssumption
        <4>5. times(times(k, y), at) = times(k, times(y, at))
          BY <3>2, FieldAssumption
        <4> QED BY <4>2, <4>3, <4>4, <4>5
      <3> DEFINE r == times(k, times(y, at))
                 t == times(k, v)
                 z == times(x, at)
      <3>8. r \in Symbols /\ t \in Symbols /\ z \in Symbols
        BY <3>5, FieldLaws
      <3>9. e[c] = plus(plus(z, u), plus(r, t))
        BY <3>3, <3>4, <3>6
      <3>10. plus(times(e[c + 1], at), q[c]) = plus(plus(z, r), plus(u, t))
        BY <3>3, <3>7
      <3> HIDE DEF r, t, z
      <3>11. plus(plus(z, u), plus(r, t)) = plus(plus(z, r), plus(u, t))
        BY <3>2, <3>8, PlusSwaps
      <3> QED BY <3>9, <3>10, <3>11
    <2>7. q \in Family(D)
      BY FamilyClosed
    <2>8. e[0] = plus(a[0], times(k, b[0]))
      OBVIOUS
    <2> HIDE DEF e, q
    <2>9. IsHorner(e, q, n, at)
      BY <2>4, <2>5, <2>6 DEF IsHorner
    <2>10. L[q] = e[0] /\ L[f] = a[0] /\ L[g] = b[0]
      BY <1>2, <2>1, <2>2, <2>7, <2>9
    <2> QED BY <2>8, <2>10 DEF q
  <1>7. ASSUME NEW c \in 0..n PROVE L[Unit(D, c)] = Power(at, c)
    <2> DEFINE q == Unit(D, c)
               e == [j \in 0..n+1 |-> IF j <= c THEN Power(at, c - j) ELSE 0]
    <2>1. e \in [0..n+1 -> Symbols]
      <3>1. \A j \in 0..n+1 : j <= c => c - j \in Nat
        OBVIOUS
      <3>2. \A k \in Nat : Power(at, k) \in Symbols
        BY PowerUnfolds
      <3> QED BY <3>1, <3>2, FieldLaws
    <2>2. e[n + 1] = 0
      OBVIOUS
    <2>3. ASSUME NEW j \in 0..n PROVE e[j] = plus(times(e[j + 1], at), q[j])
      <3>1. j \in 0..n+1 /\ j + 1 \in 0..n+1 /\ q[j] = IF j = c THEN 1 ELSE 0
        BY DEF Unit
      <3>2. CASE j < c
        <4> DEFINE k == c - (j + 1)
        <4>1. k \in Nat /\ c - j = k + 1 /\ j + 1 <= c /\ j <= c /\ j # c
          BY <3>2
        <4>2. e[j] = Power(at, k + 1) /\ e[j + 1] = Power(at, k)
          BY <3>1, <4>1
        <4> HIDE DEF k, e, q
        <4>3. Power(at, k + 1) = times(at, Power(at, k)) /\ Power(at, k) \in Symbols
          BY <4>1, PowerUnfolds
        <4>4. times(at, Power(at, k)) = times(Power(at, k), at) /\ times(Power(at, k), at) \in Symbols
          BY <4>3, FieldAssumption, FieldLaws
        <4>5. plus(times(Power(at, k), at), 0) = times(Power(at, k), at)
          BY <4>4, FieldLaws
        <4> QED BY <3>1, <4>1, <4>2, <4>3, <4>4, <4>5
      <3>3. CASE ~(j < c)
        <4>1. e[j + 1] = 0
          BY <3>1, <3>3
        <4>2. times(0, at) = 0
          BY FieldLaws
        <4>3. e[j] = q[j]
          <5>1. c - c = 0
            OBVIOUS
          <5>2. Power(at, 0) = 1
            BY PowerUnfolds
          <5>3. CASE j = c
            BY <3>1, <5>1, <5>2, <5>3
          <5>4. CASE j # c
            BY <3>1, <3>3, <5>4
          <5> QED BY <5>3, <5>4
        <4>4. q[j] \in Symbols
          BY <3>1, FieldLaws
        <4>5. plus(0, q[j]) = q[j]
          BY <4>4, FieldLaws
        <4> HIDE DEF e, q
        <4> QED BY <4>1, <4>2, <4>3, <4>5
      <3> QED BY <3>2, <3>3
    <2>4. e[0] = Power(at, c)
      <3>1. 0 \in 0..n+1 /\ 0 <= c /\ c - 0 = c
        OBVIOUS
      <3> QED BY <3>1
    <2>5. q \in Family(D)
      BY FamilyClosed
    <2> HIDE DEF e, q
    <2>6. IsHorner(e, q, n, at)
      BY <2>1, <2>2, <2>3 DEF IsHorner
    <2>7. L[q] = e[0]
      BY <1>2, <2>5, <2>6
    <2> QED BY <2>4, <2>7 DEF q
  <1>8. Linear(D, L)
    BY <1>5, <1>6 DEF Linear
  <1> QED BY <1>1, <1>7, <1>8 DEF L

-----------------------------------------------------------------------------
(* Locators of positions and syndromes of words.                           *)

\* The locator of a position, and what an error of 1 there adds to the syndromes.
X(p) == GF_EXP[p]
Z(p) == [t \in Syndromes |-> Power(X(p), t + 1)]

\* The ranges.
LEMMA Sizes ==
    /\ Delta \in Nat \ {0} /\ K \in Nat \ {0} /\ GroupOrder \in Nat
    /\ N1 \in Nat /\ NK \in Nat /\ N1 = K + NK /\ NK = 2*Delta /\ N1 <= GroupOrder
    /\ N1 - 1 \in Nat /\ NK - 1 \in Nat
    /\ Positions = 0..N1-1 /\ Syndromes = 0..NK-1 /\ Coefficients = 0..Delta
    /\ IsFiniteSet(Positions) /\ IsFiniteSet(Syndromes) /\ IsFiniteSet(Coefficients)
  <1>1. /\ Delta \in Nat \ {0} /\ K \in Nat \ {0} /\ GroupOrder \in Nat
        /\ N1 \in Nat /\ NK \in Nat /\ N1 = K + NK /\ NK = 2*Delta /\ N1 <= GroupOrder
        /\ N1 - 1 \in Nat /\ NK - 1 \in Nat
    BY BmAssumption, RsAssumption DEF N1, NK
  <1>2. Positions = 0..N1-1 /\ Syndromes = 0..NK-1 /\ Coefficients = 0..Delta
    BY DEF Positions, Syndromes, Coefficients, NK
  <1>3. N1 - 1 \in Int /\ NK - 1 \in Int /\ Delta \in Int
    BY <1>1
  <1> QED BY <1>1, <1>2, <1>3, FS_Interval

\* The powers of alpha as far as the code uses them.
LEMMA LocatorLaws ==
    /\ \A n \in 0..GroupOrder-1 : GF_EXP[n] \in Symbols /\ GF_EXP[n] # 0
    /\ \A n \in 0..GroupOrder-1 : GF_EXP[n] = Power(GF_EXP[1], n)
    /\ GF_EXP[1] \in Symbols
    /\ \A p \in Positions :
          /\ p \in 0..GroupOrder-1 /\ X(p) \in Symbols /\ X(p) # 0
          /\ InverseLocator(p) \in Symbols
          /\ times(X(p), InverseLocator(p)) = 1
    /\ \A p, q \in Positions : p # q => X(p) # X(q)
    /\ \A t \in Syndromes : t + 1 \in 0..GroupOrder-1 /\ GF_EXP[t + 1] \in Symbols
  <1>1. \A n \in 0..GroupOrder-1 : GF_EXP[n] \in Symbols /\ GF_EXP[n] # 0
    BY PowersAssumption
  <1>2. 1 \in 0..GroupOrder-1 /\ 0 \in 0..GroupOrder-1
    BY Sizes
  <1>3. GF_EXP[1] \in Symbols
    BY <1>1, <1>2
  <1>4. \A n \in 0..GroupOrder-1 : GF_EXP[n] = Power(GF_EXP[1], n)
    <2> DEFINE G == {n \in Nat : n < GroupOrder => GF_EXP[n] = Power(GF_EXP[1], n)}
    <2>1. 0 \in G
      BY <1>3, PowerUnfolds, PowersAssumption
    <2>2. ASSUME NEW n \in Nat, n \in G PROVE n + 1 \in G
      <3> SUFFICES ASSUME n + 1 < GroupOrder PROVE GF_EXP[n + 1] = Power(GF_EXP[1], n + 1)
        OBVIOUS
      <3>1. n \in 0..GroupOrder-1 /\ 1 + n = n + 1
        BY Sizes
      <3>2. GF_EXP[n] = Power(GF_EXP[1], n)
        BY <2>2, <3>1, Sizes
      <3>3. GF_EXP[1 + n] = times(GF_EXP[1], GF_EXP[n])
        BY <1>2, <3>1, PowersAssumption
      <3>4. Power(GF_EXP[1], n + 1) = times(GF_EXP[1], Power(GF_EXP[1], n))
        BY <1>3, PowerUnfolds
      <3> QED BY <3>1, <3>2, <3>3, <3>4
    <2> HIDE DEF G
    <2>3. Nat \subseteq G
      BY <2>1, <2>2, NatSetInduction
    <2> QED BY <2>3, Sizes DEF G
  <1>5. ASSUME NEW p \in Positions
        PROVE  /\ p \in 0..GroupOrder-1 /\ X(p) \in Symbols /\ X(p) # 0
               /\ InverseLocator(p) \in Symbols
               /\ times(X(p), InverseLocator(p)) = 1
    <2>1. p \in 0..GroupOrder-1
      BY Sizes
    <2>2. X(p) \in Symbols /\ X(p) # 0
      BY <1>1, <2>1 DEF X
    <2>3. CASE p = 0
      <3>1. GF_EXP[0] = 1 /\ times(1, 1) = 1 /\ 1 \in Symbols
        BY FieldLaws, FieldAssumption, PowersAssumption
      <3> QED BY <2>1, <2>2, <2>3, <3>1 DEF InverseLocator, X
    <2>4. CASE p # 0
      <3> DEFINE r == GroupOrder - p
      <3>1. r \in 0..GroupOrder-1 /\ p + r = 0 + GroupOrder
        BY <2>1, <2>4, Sizes
      <3>2. InverseLocator(p) = GF_EXP[r]
        BY <2>4 DEF InverseLocator
      <3> HIDE DEF r
      <3>3. GF_EXP[p + r] = times(GF_EXP[p], GF_EXP[r])
        BY <2>1, <3>1, PowersAssumption
      <3>4. GF_EXP[0 + GroupOrder] = 1
        BY <1>2, PowersAssumption
      <3>5. GF_EXP[r] \in Symbols
        BY <1>1, <3>1
      <3> QED BY <2>1, <2>2, <3>1, <3>2, <3>3, <3>4, <3>5 DEF X
    <2> QED BY <2>3, <2>4
  <1>6. \A p, q \in Positions : p # q => X(p) # X(q)
    BY <1>5, PowersAssumption DEF X
  <1>7. \A t \in Syndromes : t + 1 \in 0..GroupOrder-1 /\ GF_EXP[t + 1] \in Symbols
    <2>1. \A t \in Syndromes : t + 1 \in 0..GroupOrder-1
      BY Sizes
    <2> QED BY <1>1, <2>1
  <1> QED BY <1>1, <1>3, <1>4, <1>5, <1>6, <1>7

\* (alpha^m)^p = (alpha^p)^m.
LEMMA PowersSwap ==
    ASSUME NEW p \in Positions, NEW t \in Syndromes
    PROVE  Power(GF_EXP[t + 1], p) = Power(X(p), t + 1)
  <1> DEFINE a == GF_EXP[1]
             x == Power(a, p)
             G == {m \in Nat : Power(Power(a, m), p) = Power(x, m)}
  <1>1. a \in Symbols /\ p \in Nat
    BY LocatorLaws, Sizes
  <1>2. x \in Symbols
    BY <1>1, PowerUnfolds
  <1> HIDE DEF a, x
  <1>3. 0 \in G
    <2>1. Power(a, 0) = 1 /\ Power(1, p) = 1 /\ Power(x, 0) = 1
      BY <1>1, <1>2, PowerUnfolds, PowerLaws
    <2> QED BY <2>1
  <1>4. ASSUME NEW m \in Nat, m \in G PROVE m + 1 \in G
    <2>1. Power(a, m) \in Symbols /\ Power(a, m + 1) = times(a, Power(a, m))
      BY <1>1, PowerUnfolds
    <2>2. Power(times(a, Power(a, m)), p) = times(Power(a, p), Power(Power(a, m), p))
      BY <1>1, <2>1, PowerLaws
    <2>3. Power(x, m + 1) = times(x, Power(x, m))
      BY <1>2, PowerUnfolds
    <2>4. Power(Power(a, m), p) = Power(x, m)
      BY <1>4
    <2> QED BY <2>1, <2>2, <2>3, <2>4 DEF x
  <1> HIDE DEF G
  <1>5. Nat \subseteq G
    BY <1>3, <1>4, NatSetInduction
  <1>6. t + 1 \in Nat
    BY Sizes
  <1>7. Power(Power(a, t + 1), p) = Power(x, t + 1)
    BY <1>5, <1>6 DEF G
  <1>8. GF_EXP[t + 1] = Power(a, t + 1) /\ X(p) = Power(a, p)
    BY LocatorLaws DEF X, a
  <1> QED BY <1>7, <1>8 DEF x

\* The syndromes of an error of 1 are a geometric sequence.
LEMMA GeometricType ==
    ASSUME NEW p \in Positions
    PROVE  /\ Z(p) \in Words
           /\ \A t \in Syndromes : Z(p)[t] \in Symbols /\ Z(p)[t] # 0
           /\ Z(p)[0] = X(p)
           /\ \A t \in Syndromes : t + 1 \in Syndromes => Z(p)[t + 1] = times(X(p), Z(p)[t])
  <1>1. X(p) \in Symbols /\ X(p) # 0 /\ \A t \in Syndromes : t + 1 \in Nat
    BY LocatorLaws, Sizes
  <1>2. \A t \in Syndromes : Power(X(p), t + 1) \in Symbols /\ Power(X(p), t + 1) # 0
    BY <1>1, PowerUnfolds, PowerLaws
  <1>3. Z(p) \in Words /\ \A t \in Syndromes : Z(p)[t] \in Symbols /\ Z(p)[t] # 0
    BY <1>2 DEF Z, Words
  <1>4. Z(p)[0] = X(p)
    <2>1. 0 \in Syndromes /\ 0 + 1 = 1 /\ Power(X(p), 1) = X(p)
      BY <1>1, Sizes, PowerLaws
    <2> QED BY <2>1 DEF Z
  <1>5. ASSUME NEW t \in Syndromes, t + 1 \in Syndromes PROVE Z(p)[t + 1] = times(X(p), Z(p)[t])
    <2>1. Z(p)[t + 1] = Power(X(p), (t + 1) + 1) /\ Z(p)[t] = Power(X(p), t + 1)
      BY <1>5 DEF Z
    <2> QED BY <1>1, <2>1, PowerUnfolds
  <1> QED BY <1>3, <1>4, <1>5

\* Syndromes are linear in the word.
LEMMA SyndromesLinear ==
    /\ \A w \in Family(Positions) : syndromes(w) \in Words
    /\ \A f, g \in Family(Positions), k \in Symbols :
          syndromes(Combo(Positions, f, k, g)) = Combo(Syndromes, syndromes(f), k, syndromes(g))
    /\ \A p \in Positions : syndromes(Unit(Positions, p)) = Z(p)
    /\ syndromes(ZeroOn(Positions)) = ZeroOn(Syndromes)
  <1> DEFINE n == N1 - 1
             L(t) == EvalMap(n, GF_EXP[t + 1])
  <1>1. n \in Nat /\ Positions = 0..n
    BY Sizes
  <1>2. \A w : syndromes(w) = [t \in Syndromes |-> gf_poly_eval(w, n, GF_EXP[t + 1])]
    BY Sizes DEF syndromes
  <1> HIDE DEF n
  <1>3. ASSUME NEW t \in Syndromes
        PROVE  /\ Linear(Positions, L(t))
               /\ \A w \in Family(Positions) : L(t)[w] = syndromes(w)[t]
               /\ \A p \in Positions : L(t)[Unit(Positions, p)] = Power(GF_EXP[t + 1], p)
    <2>1. GF_EXP[t + 1] \in Symbols
      BY LocatorLaws
    <2> QED BY <1>1, <1>2, <2>1, EvalLinear
  <1> HIDE DEF L
  <1>4. ASSUME NEW w \in Family(Positions) PROVE syndromes(w) \in Words
    <2>1. \A t \in Syndromes : syndromes(w)[t] \in Symbols
      BY <1>3 DEF Linear
    <2> QED BY <1>2, <2>1 DEF Words
  <1>5. ASSUME NEW f \in Family(Positions), NEW g \in Family(Positions), NEW k \in Symbols
        PROVE  syndromes(Combo(Positions, f, k, g))
                 = Combo(Syndromes, syndromes(f), k, syndromes(g))
    <2> DEFINE h == Combo(Positions, f, k, g)
               u == Combo(Syndromes, syndromes(f), k, syndromes(g))
    <2>1. h \in Family(Positions)
      BY FamilyClosed
    <2>2. ASSUME NEW t \in Syndromes PROVE syndromes(h)[t] = u[t]
      <3>1. L(t)[h] = plus(L(t)[f], times(k, L(t)[g]))
        BY <1>3 DEF Linear
      <3>2. u[t] = plus(syndromes(f)[t], times(k, syndromes(g)[t]))
        BY DEF Combo
      <3> HIDE DEF h, u
      <3> QED BY <1>3, <2>1, <3>1, <3>2
    <2>3. u = [t \in Syndromes |-> u[t]]
      BY DEF Combo
    <2>4. syndromes(h) = [t \in Syndromes |-> syndromes(h)[t]]
      BY <1>2
    <2> HIDE DEF h, u
    <2>5. syndromes(h) = u
      BY <2>2, <2>3, <2>4
    <2> QED BY <2>5 DEF h, u
  <1>6. ASSUME NEW p \in Positions PROVE syndromes(Unit(Positions, p)) = Z(p)
    <2>1. Unit(Positions, p) \in Family(Positions)
      BY FamilyClosed
    <2>2. \A t \in Syndromes : syndromes(Unit(Positions, p))[t] = Power(X(p), t + 1)
      BY <1>3, <2>1, PowersSwap
    <2> QED BY <1>2, <2>2 DEF Z
  <1>7. syndromes(ZeroOn(Positions)) = ZeroOn(Syndromes)
    <2>1. ZeroOn(Positions) \in Family(Positions)
      BY FamilyClosed
    <2>2. \A t \in Syndromes : syndromes(ZeroOn(Positions))[t] = 0
      BY <1>3, <2>1, LinearAtZero
    <2> QED BY <1>2, <2>2 DEF ZeroOn
  <1> QED BY <1>4, <1>5, <1>6, <1>7

-----------------------------------------------------------------------------
(* Products of registers and syndromes.                                    *)

\* The product is linear in the syndromes too.
LEMMA ConvCombo ==
    ASSUME NEW q \in Terms, NEW t \in Syndromes, NEW f \in Words, NEW g \in Words, NEW k \in Symbols
    PROVE  /\ Combo(Syndromes, f, k, g) \in Words
           /\ Conv(Combo(Syndromes, f, k, g), q, t) = plus(Conv(f, q, t), times(k, Conv(g, q, t)))
  <1> DEFINE h == Combo(Syndromes, f, k, g)
             a == ConvTerms(f, q, t)
             b == ConvTerms(g, q, t)
             e == ConvTerms(h, q, t)
  <1>1. h \in Words
    BY FamilyClosed DEF Family, Words
  <1>2. a \in Terms /\ b \in Terms
    BY ConvType
  <1>3. e \in Terms
    <2> HIDE DEF h
    <2> QED BY <1>1, ConvType
  <1>4. ASSUME NEW c \in Coefficients PROVE e[c] = plus(a[c], times(k, b[c]))
    <2>1. CASE c <= t
      <3> DEFINE r == t - c
                 x == f[r]
                 y == g[r]
                 z == q[c]
      <3>1. r \in Syndromes /\ x \in Symbols /\ y \in Symbols
        BY <2>1, ConvType
      <3>2. z \in Symbols
        BY DEF Terms
      <3>3. h[r] = plus(x, times(k, y))
        BY <3>1 DEF Combo
      <3>4. a[c] = times(z, x) /\ b[c] = times(z, y) /\ e[c] = times(z, h[r])
        BY <2>1 DEF ConvTerms
      <3> HIDE DEF r, x, y, z, a, b, e, h
      <3>5. times(k, y) \in Symbols
        BY <3>1, FieldLaws
      <3>6. times(z, plus(x, times(k, y))) = plus(times(z, x), times(z, times(k, y)))
        BY <3>1, <3>2, <3>5, FieldAssumption
      <3>7. times(z, times(k, y)) = times(times(z, k), y) /\ times(k, times(z, y)) = times(times(k, z), y)
        BY <3>1, <3>2, FieldAssumption
      <3>8. times(z, k) = times(k, z)
        BY <3>2, FieldAssumption
      <3> QED BY <3>3, <3>4, <3>6, <3>7, <3>8
    <2>2. CASE ~(c <= t)
      <3>1. a[c] = 0 /\ b[c] = 0 /\ e[c] = 0
        BY <2>2 DEF ConvTerms
      <3>2. times(k, 0) = 0 /\ plus(0, 0) = 0
        BY FieldLaws
      <3> HIDE DEF a, b, e
      <3> QED BY <3>1, <3>2
    <2> QED BY <2>1, <2>2
  <1> HIDE DEF a, b, e, h
  <1>5. Total(e) = plus(Total(a), times(k, Total(b)))
    BY <1>2, <1>3, <1>4, SumLinear
  <1>6. Conv(h, q, t) = plus(Conv(f, q, t), times(k, Conv(g, q, t)))
    BY <1>5 DEF Conv, a, b, e
  <1> QED BY <1>1, <1>6 DEF h

\* The coefficient of a register at any degree.
Coef(q, t) == IF t \in Coefficients THEN q[t] ELSE 0

\* What one error makes of a register: (1 + X x) times the product is X times the register.
LEMMA ConvGeometric ==
    ASSUME NEW p \in Positions, NEW q \in Terms
    PROVE  /\ \A t \in Syndromes : Conv(Z(p), q, t) \in Symbols
           /\ Conv(Z(p), q, 0) = times(X(p), q[0])
           /\ \A t \in Syndromes : t + 1 \in Syndromes =>
                 Conv(Z(p), q, t + 1) = times(X(p), plus(Conv(Z(p), q, t), Coef(q, t + 1)))
  <1> DEFINE z == Z(p)
             x == X(p)
  <1>1. z \in Words /\ x \in Symbols /\ z[0] = x
        /\ \A t \in Syndromes : t + 1 \in Syndromes => z[t + 1] = times(x, z[t])
    BY GeometricType, LocatorLaws
  <1> HIDE DEF z, x
  <1>2. \A t \in Syndromes : Conv(z, q, t) \in Symbols
    BY <1>1, ConvType
  <1>3. Conv(z, q, 0) = times(x, q[0])
    <2> DEFINE f == ConvTerms(z, q, 0)
    <2>1. 0 \in Syndromes /\ 0 \in Coefficients
      BY Sizes
    <2>2. f \in Terms
      BY <1>1, <2>1, ConvType
    <2>3. f[0] = times(q[0], z[0])
      <3>1. f[0] = IF 0 <= 0 THEN times(q[0], z[0 - 0]) ELSE 0
        BY <2>1, Zenon DEF ConvTerms
      <3>2. 0 <= 0 /\ 0 - 0 = 0
        OBVIOUS
      <3> QED BY <3>1, <3>2, Zenon
    <2>4. \A c \in Coefficients \ {0} : f[c] = 0
      <3>1. \A c \in Coefficients \ {0} : ~(c <= 0)
        BY Sizes
      <3> QED BY <3>1 DEF ConvTerms
    <2> HIDE DEF f
    <2>5. Total(f) = f[0]
      BY <2>1, <2>2, <2>4, SumOfOne
    <2>6. q[0] \in Symbols
      BY <2>1 DEF Terms
    <2>7. times(q[0], x) = times(x, q[0])
      BY <1>1, <2>6, FieldAssumption
    <2> QED BY <1>1, <2>3, <2>5, <2>7 DEF Conv, f
  <1>4. ASSUME NEW t \in Syndromes, t + 1 \in Syndromes
        PROVE  Conv(z, q, t + 1) = times(x, plus(Conv(z, q, t), Coef(q, t + 1)))
    <2> DEFINE h == ConvTerms(z, q, t + 1)
               g == ConvTerms(z, q, t)
               v == times(x, Coef(q, t + 1))
               u == [c \in Coefficients |-> IF c = t + 1 THEN v ELSE 0]
    <2>1. h \in Terms /\ g \in Terms
      BY <1>1, <1>4, ConvType
    <2>2. Coef(q, t + 1) \in Symbols /\ t \in Nat /\ Coefficients \subseteq Nat
      BY FieldLaws, Sizes DEF Coef, Terms
    <2>3. v \in Symbols
      BY <1>1, <2>2, FieldLaws
    <2>4. u \in Terms
      <3> HIDE DEF v
      <3> QED BY <2>3, FieldLaws DEF Terms
    <2>5. Total(u) = v
      <3> HIDE DEF v
      <3>1. CASE t + 1 \in Coefficients
        <4>1. u[t + 1] = v /\ \A c \in Coefficients \ {t + 1} : u[c] = 0
          BY <3>1
        <4> HIDE DEF u
        <4> QED BY <2>4, <3>1, <4>1, SumOfOne
      <3>2. CASE t + 1 \notin Coefficients
        <4>1. \A c \in Coefficients : u[c] = 0
          BY <3>2
        <4>2. v = 0
          BY <1>1, <3>2, FieldLaws DEF v, Coef
        <4> HIDE DEF u
        <4> QED BY <2>4, <4>1, <4>2, SumOfNone
      <3> QED BY <3>1, <3>2
    <2>6. ASSUME NEW c \in Coefficients PROVE h[c] = plus(u[c], times(x, g[c]))
      <3>1. h[c] = IF c <= t + 1 THEN times(q[c], z[(t + 1) - c]) ELSE 0
        BY Zenon DEF ConvTerms
      <3>2. g[c] = IF c <= t THEN times(q[c], z[t - c]) ELSE 0
        BY Zenon DEF ConvTerms
      <3>3. u[c] = IF c = t + 1 THEN v ELSE 0
        OBVIOUS
      <3>4. q[c] \in Symbols /\ c \in Nat
        BY <2>2 DEF Terms
      <3> HIDE DEF h, g, u, v
      <3>5. CASE c <= t
        <4> DEFINE r == t - c
                   y == z[r]
        <4>1. r \in Syndromes /\ y \in Symbols /\ r + 1 = (t + 1) - c /\ c <= t + 1 /\ c # t + 1
          BY <1>1, <2>2, <3>4, <3>5, ConvType
        <4>2. r + 1 \in Syndromes
          <5>1. r \in Nat /\ r + 1 <= t + 1
            BY <2>2, <3>4, <3>5
          <5>2. Syndromes = 0..NK-1 /\ NK - 1 \in Nat
            BY Sizes
          <5> HIDE DEF r
          <5> QED BY <1>4, <2>2, <5>1, <5>2
        <4>3. z[r + 1] = times(x, y)
          BY <1>1, <4>1, <4>2
        <4>4. h[c] = times(q[c], z[r + 1]) /\ g[c] = times(q[c], y) /\ u[c] = 0
          BY <3>1, <3>2, <3>3, <3>5, <4>1
        <4> HIDE DEF r, y
        <4>5. times(q[c], times(x, y)) = times(times(q[c], x), y)
              /\ times(x, times(q[c], y)) = times(times(x, q[c]), y)
          BY <1>1, <3>4, <4>1, FieldAssumption
        <4>6. times(q[c], x) = times(x, q[c])
          BY <1>1, <3>4, FieldAssumption
        <4>7. times(x, g[c]) \in Symbols
          BY <1>1, <2>1, FieldLaws DEF Terms
        <4>8. plus(0, times(x, g[c])) = times(x, g[c])
          BY <4>7, FieldLaws
        <4> QED BY <4>3, <4>4, <4>5, <4>6, <4>8
      <3>6. CASE c = t + 1
        <4>1. (t + 1) - c = 0 /\ ~(c <= t) /\ c <= t + 1
          BY <2>2, <3>6
        <4>2. h[c] = times(q[c], x) /\ g[c] = 0 /\ u[c] = v
          BY <1>1, <3>1, <3>2, <3>3, <3>6, <4>1
        <4>3. v = times(x, q[c])
          BY <3>6 DEF v, Coef
        <4>4. times(x, 0) = 0 /\ plus(v, 0) = v /\ times(q[c], x) = times(x, q[c])
          BY <1>1, <2>3, <3>4, FieldLaws, FieldAssumption
        <4> QED BY <4>2, <4>3, <4>4
      <3>7. CASE c > t + 1
        <4>1. ~(c <= t) /\ ~(c <= t + 1) /\ c # t + 1
          BY <2>2, <3>4, <3>7
        <4>2. times(x, 0) = 0 /\ plus(0, 0) = 0
          BY <1>1, FieldLaws
        <4> QED BY <3>1, <3>2, <3>3, <4>1, <4>2
      <3> QED BY <2>2, <3>4, <3>5, <3>6, <3>7
    <2> HIDE DEF h, g, u, v
    <2>7. Total(h) = plus(Total(u), times(x, Total(g)))
      BY <1>1, <2>1, <2>4, <2>6, SumLinear
    <2>8. Conv(z, q, t + 1) = Total(h) /\ Conv(z, q, t) = Total(g)
      BY DEF Conv, h, g
    <2> DEFINE y == Conv(z, q, t)
               k == Coef(q, t + 1)
    <2>9. y \in Symbols
      BY <1>2
    <2>10. times(x, plus(y, k)) = plus(times(x, y), times(x, k))
      BY <1>1, <2>2, <2>9, FieldAssumption
    <2>11. plus(times(x, k), times(x, y)) = plus(times(x, y), times(x, k))
      <3>1. times(x, k) \in Symbols /\ times(x, y) \in Symbols
        BY <1>1, <2>2, <2>9, FieldLaws
      <3> QED BY <3>1, FieldAssumption
    <2> QED BY <2>5, <2>7, <2>8, <2>10, <2>11 DEF v
  <1> QED BY <1>2, <1>3, <1>4 DEF x, z

\* Sums, multiples and rescalings of linear maps.
Sum(D, L, k, M) == [f \in Family(D) |-> plus(L[f], times(k, M[f]))]
Scaled(D, a, f) == [c \in D |-> times(a[c], f[c])]
Rescaled(D, L, a) == [f \in Family(D) |-> L[Scaled(D, a, f)]]

\* They are linear.
LEMMA LinearSum ==
    ASSUME NEW D, NEW L, NEW M, Linear(D, L), Linear(D, M), NEW k \in Symbols
    PROVE  /\ Linear(D, Sum(D, L, k, M))
           /\ \A f \in Family(D) : Sum(D, L, k, M)[f] = plus(L[f], times(k, M[f]))
  <1> DEFINE N == Sum(D, L, k, M)
  <1>1. \A f \in Family(D) : L[f] \in Symbols /\ M[f] \in Symbols
    BY DEF Linear
  <1>2. \A f \in Family(D) : N[f] = plus(L[f], times(k, M[f]))
    BY DEF Sum
  <1>3. N \in [Family(D) -> Symbols]
    <2>1. \A f \in Family(D) : plus(L[f], times(k, M[f])) \in Symbols
      BY <1>1, FieldLaws
    <2> QED BY <2>1 DEF Sum
  <1>4. ASSUME NEW f \in Family(D), NEW g \in Family(D), NEW a \in Symbols
        PROVE  N[Combo(D, f, a, g)] = plus(N[f], times(a, N[g]))
    <2> DEFINE h == Combo(D, f, a, g)
               lf == L[f]
               lg == L[g]
               mf == M[f]
               mg == M[g]
    <2>1. h \in Family(D) /\ lf \in Symbols /\ lg \in Symbols /\ mf \in Symbols /\ mg \in Symbols
      BY <1>1, FamilyClosed
    <2>2. L[h] = plus(lf, times(a, lg)) /\ M[h] = plus(mf, times(a, mg))
      BY DEF Linear
    <2>3. N[h] = plus(L[h], times(k, M[h])) /\ N[f] = plus(lf, times(k, mf))
          /\ N[g] = plus(lg, times(k, mg))
      BY <1>2, <2>1
    <2> HIDE DEF h, lf, lg, mf, mg, N
    <2>4. times(a, lg) \in Symbols /\ times(a, mg) \in Symbols /\ times(k, mf) \in Symbols
          /\ times(k, mg) \in Symbols
      BY <2>1, FieldLaws
    <2>5. times(k, plus(mf, times(a, mg))) = plus(times(k, mf), times(k, times(a, mg)))
          /\ times(a, plus(lg, times(k, mg))) = plus(times(a, lg), times(a, times(k, mg)))
      BY <2>1, <2>4, FieldAssumption
    <2>6. times(k, times(a, mg)) = times(a, times(k, mg)) /\ times(k, times(a, mg)) \in Symbols
      <3>1. times(times(k, a), mg) = times(k, times(a, mg))
            /\ times(times(a, k), mg) = times(a, times(k, mg)) /\ times(k, a) = times(a, k)
        BY <2>1, FieldAssumption
      <3> QED BY <2>4, <3>1, FieldLaws
    <2> DEFINE x == times(a, lg)
               y == times(k, mf)
               z == times(k, times(a, mg))
    <2>7. x \in Symbols /\ y \in Symbols /\ z \in Symbols
      BY <2>4, <2>6
    <2>8. N[h] = plus(plus(lf, x), plus(y, z)) /\ plus(N[f], times(a, N[g])) = plus(plus(lf, y), plus(x, z))
      BY <2>2, <2>3, <2>5, <2>6
    <2> HIDE DEF x, y, z
    <2>9. N[h] = plus(N[f], times(a, N[g]))
      BY <2>1, <2>7, <2>8, PlusSwaps
    <2> QED BY <2>9 DEF h
  <1> HIDE DEF N
  <1>5. Linear(D, N)
    BY <1>3, <1>4 DEF Linear
  <1> QED BY <1>2, <1>5 DEF N

\* The map that is 0 everywhere is linear.
LEMMA LinearNull ==
    ASSUME NEW D
    PROVE  Linear(D, [f \in Family(D) |-> 0])
  <1> DEFINE N == [f \in Family(D) |-> 0]
  <1>1. N \in [Family(D) -> Symbols]
    BY FieldLaws
  <1>2. ASSUME NEW f \in Family(D), NEW g \in Family(D), NEW k \in Symbols
        PROVE  N[Combo(D, f, k, g)] = plus(N[f], times(k, N[g]))
    <2>1. Combo(D, f, k, g) \in Family(D)
      BY FamilyClosed
    <2>2. times(k, 0) = 0 /\ plus(0, 0) = 0
      BY FieldLaws
    <2> QED BY <2>1, <2>2
  <1> HIDE DEF N
  <1>3. Linear(D, N)
    BY <1>1, <1>2 DEF Linear
  <1> QED BY <1>3 DEF N

\* Rescaling first is linear, and takes a unit to its multiple.
LEMMA LinearRescaled ==
    ASSUME NEW D, NEW L, Linear(D, L), NEW a \in Family(D)
    PROVE  /\ Linear(D, Rescaled(D, L, a))
           /\ \A f \in Family(D) : Scaled(D, a, f) \in Family(D) /\ Rescaled(D, L, a)[f] = L[Scaled(D, a, f)]
           /\ \A p \in D : Rescaled(D, L, a)[Unit(D, p)] = times(a[p], L[Unit(D, p)])
  <1> DEFINE N == Rescaled(D, L, a)
  <1>1. ASSUME NEW f \in Family(D) PROVE Scaled(D, a, f) \in Family(D)
    <2>1. \A c \in D : times(a[c], f[c]) \in Symbols
      BY FieldLaws DEF Family
    <2> QED BY <2>1 DEF Scaled, Family
  <1>2. \A f \in Family(D) : N[f] = L[Scaled(D, a, f)]
    BY DEF Rescaled
  <1>3. N \in [Family(D) -> Symbols]
    <2>1. \A f \in Family(D) : L[Scaled(D, a, f)] \in Symbols
      BY <1>1 DEF Linear
    <2> QED BY <2>1 DEF Rescaled
  <1>4. ASSUME NEW f \in Family(D), NEW g \in Family(D), NEW k \in Symbols
        PROVE  Scaled(D, a, Combo(D, f, k, g)) = Combo(D, Scaled(D, a, f), k, Scaled(D, a, g))
    <2>1. ASSUME NEW c \in D
          PROVE  times(a[c], plus(f[c], times(k, g[c]))) = plus(times(a[c], f[c]), times(k, times(a[c], g[c])))
      <3> DEFINE x == a[c]
                 y == f[c]
                 z == g[c]
      <3>1. x \in Symbols /\ y \in Symbols /\ z \in Symbols
        BY DEF Family
      <3> HIDE DEF x, y, z
      <3>2. times(k, z) \in Symbols
        BY <3>1, FieldLaws
      <3>3. times(x, plus(y, times(k, z))) = plus(times(x, y), times(x, times(k, z)))
        BY <3>1, <3>2, FieldAssumption
      <3>4. times(times(x, k), z) = times(x, times(k, z))
            /\ times(times(k, x), z) = times(k, times(x, z)) /\ times(k, x) = times(x, k)
        BY <3>1, FieldAssumption
      <3>5. times(x, plus(y, times(k, z))) = plus(times(x, y), times(k, times(x, z)))
        BY <3>3, <3>4
      <3> QED BY <3>5 DEF x, y, z
    <2> QED BY <2>1 DEF Scaled, Combo
  <1>5. ASSUME NEW f \in Family(D), NEW g \in Family(D), NEW k \in Symbols
        PROVE  N[Combo(D, f, k, g)] = plus(N[f], times(k, N[g]))
    <2>1. Combo(D, f, k, g) \in Family(D) /\ Scaled(D, a, f) \in Family(D) /\ Scaled(D, a, g) \in Family(D)
      BY <1>1, FamilyClosed
    <2>2. L[Combo(D, Scaled(D, a, f), k, Scaled(D, a, g))]
            = plus(L[Scaled(D, a, f)], times(k, L[Scaled(D, a, g)]))
      BY <2>1 DEF Linear
    <2> HIDE DEF N
    <2> QED BY <1>2, <1>4, <2>1, <2>2
  <1>6. ASSUME NEW p \in D PROVE N[Unit(D, p)] = times(a[p], L[Unit(D, p)])
    <2> DEFINE u == Unit(D, p)
               x == a[p]
    <2>1. u \in Family(D) /\ ZeroOn(D) \in Family(D) /\ x \in Symbols
      BY FamilyClosed DEF Family
    <2>2. Scaled(D, a, u) = Combo(D, ZeroOn(D), x, u)
      <3>1. ASSUME NEW c \in D PROVE times(a[c], IF c = p THEN 1 ELSE 0) = plus(0, times(x, IF c = p THEN 1 ELSE 0))
        <4>1. a[c] \in Symbols
          BY DEF Family
        <4>2. times(a[c], 0) = 0 /\ times(x, 0) = 0 /\ plus(0, 0) = 0 /\ times(x, 1) \in Symbols
          BY <2>1, <4>1, FieldLaws
        <4>3. plus(0, times(x, 1)) = times(x, 1)
          BY <4>2, FieldLaws
        <4> HIDE DEF x
        <4>4. c = p => a[c] = x
          BY DEF x
        <4> QED BY <4>2, <4>3, <4>4
      <3> HIDE DEF x
      <3> QED BY <3>1 DEF Scaled, Combo, Unit, ZeroOn
    <2>3. L[Combo(D, ZeroOn(D), x, u)] = plus(L[ZeroOn(D)], times(x, L[u]))
      BY <2>1 DEF Linear
    <2>4. L[ZeroOn(D)] = 0 /\ L[u] \in Symbols
      BY <2>1, LinearAtZero DEF Linear
    <2> HIDE DEF u, x
    <2>5. times(x, L[u]) \in Symbols
      BY <2>1, <2>4, FieldLaws
    <2>6. plus(0, times(x, L[u])) = times(x, L[u])
      BY <2>5, FieldLaws
    <2>7. N[u] = times(x, L[u])
      BY <1>2, <2>1, <2>2, <2>3, <2>4, <2>6
    <2> QED BY <2>7 DEF u, x
  <1> HIDE DEF N
  <1>7. Linear(D, N)
    BY <1>3, <1>5 DEF Linear
  <1> QED BY <1>1, <1>2, <1>6, <1>7 DEF N

\* The product of a register and a word's syndromes, as a map of the word.
WordConv(q, t) == [w \in Family(Positions) |-> Conv(syndromes(w), q, t)]

\* It is linear, and a unit makes a geometric sequence of it.
LEMMA WordConvLinear ==
    ASSUME NEW q \in Terms, NEW t \in Syndromes
    PROVE  /\ Linear(Positions, WordConv(q, t))
           /\ \A w \in Family(Positions) : WordConv(q, t)[w] = Conv(syndromes(w), q, t)
           /\ \A p \in Positions : WordConv(q, t)[Unit(Positions, p)] = Conv(Z(p), q, t)
  <1> DEFINE L == WordConv(q, t)
  <1>1. \A w \in Family(Positions) : L[w] = Conv(syndromes(w), q, t)
    BY DEF WordConv
  <1>2. \A w \in Family(Positions) : Conv(syndromes(w), q, t) \in Symbols
    BY SyndromesLinear, ConvType
  <1>3. L \in [Family(Positions) -> Symbols]
    BY <1>2 DEF WordConv
  <1> HIDE DEF L
  <1>4. ASSUME NEW f \in Family(Positions), NEW g \in Family(Positions), NEW k \in Symbols
        PROVE  L[Combo(Positions, f, k, g)] = plus(L[f], times(k, L[g]))
    <2> DEFINE h == Combo(Positions, f, k, g)
    <2>1. h \in Family(Positions) /\ syndromes(f) \in Words /\ syndromes(g) \in Words
      BY FamilyClosed, SyndromesLinear
    <2>2. syndromes(h) = Combo(Syndromes, syndromes(f), k, syndromes(g))
      BY SyndromesLinear
    <2> HIDE DEF h
    <2>3. Conv(syndromes(h), q, t) = plus(Conv(syndromes(f), q, t), times(k, Conv(syndromes(g), q, t)))
      BY <2>1, <2>2, ConvCombo
    <2>4. L[h] = plus(L[f], times(k, L[g]))
      BY <1>1, <2>1, <2>3
    <2> QED BY <2>4 DEF h
  <1>5. ASSUME NEW p \in Positions PROVE L[Unit(Positions, p)] = Conv(Z(p), q, t)
    <2>1. Unit(Positions, p) \in Family(Positions)
      BY FamilyClosed
    <2> QED BY <1>1, <2>1, SyndromesLinear
  <1>6. Linear(Positions, L)
    BY <1>3, <1>4 DEF Linear
  <1> QED BY <1>1, <1>5, <1>6 DEF L

\* From its length on, a register sees a geometric sequence.
LEMMA Beyond ==
    ASSUME NEW p \in Positions, NEW q \in Terms, NEW L \in Nat, ZeroAbove(q, L)
    PROVE  /\ \A t \in Syndromes : (t + 1 \in Syndromes /\ L <= t) =>
                 Conv(Z(p), q, t + 1) = times(X(p), Conv(Z(p), q, t))
           /\ \A t, r \in Syndromes : (L <= t /\ L <= r) =>
                 (Conv(Z(p), q, t) = 0 <=> Conv(Z(p), q, r) = 0)
  <1> DEFINE C(t) == Conv(Z(p), q, t)
  <1>1. X(p) \in Symbols /\ X(p) # 0 /\ \A t \in Syndromes : C(t) \in Symbols
    BY LocatorLaws, ConvGeometric
  <1>2. ASSUME NEW t \in Syndromes, t + 1 \in Syndromes, L <= t
        PROVE  C(t + 1) = times(X(p), C(t))
    <2>1. Coef(q, t + 1) = 0
      <3>1. t + 1 \in Coefficients => q[t + 1] = 0
        BY <1>2, Sizes DEF ZeroAbove
      <3> QED BY <3>1 DEF Coef
    <2>2. C(t + 1) = times(X(p), plus(C(t), Coef(q, t + 1)))
      BY <1>2, ConvGeometric
    <2>3. plus(C(t), 0) = C(t)
      BY <1>1, FieldLaws
    <2> HIDE DEF C
    <2> QED BY <2>1, <2>2, <2>3
  <1> HIDE DEF C
  <1>3. ASSUME NEW t \in Syndromes, t + 1 \in Syndromes, L <= t
        PROVE  C(t + 1) = 0 <=> C(t) = 0
    <2>1. times(X(p), 0) = 0
      BY <1>1, FieldLaws
    <2>2. C(t + 1) = times(X(p), C(t)) /\ C(t) \in Symbols
      BY <1>1, <1>2, <1>3
    <2> QED BY <1>1, <2>1, <2>2, NoZeroDivisors
  <1>4. ASSUME L \in Syndromes PROVE \A t \in Syndromes : L <= t => (C(t) = 0 <=> C(L) = 0)
    <2> DEFINE G == {n \in Nat : (L + n) \in Syndromes => (C(L + n) = 0 <=> C(L) = 0)}
    <2>1. 0 \in G
      BY <1>4
    <2>2. ASSUME NEW n \in Nat, n \in G PROVE n + 1 \in G
      <3> SUFFICES ASSUME L + (n + 1) \in Syndromes PROVE C(L + (n + 1)) = 0 <=> C(L) = 0
        OBVIOUS
      <3>1. L + (n + 1) = (L + n) + 1 /\ L + n \in Syndromes /\ L <= L + n
        BY Sizes
      <3> QED BY <1>3, <2>2, <3>1
    <2> HIDE DEF G
    <2>3. Nat \subseteq G
      BY <2>1, <2>2, NatSetInduction
    <2>4. \A t \in Syndromes : L <= t => t - L \in Nat /\ L + (t - L) = t
      BY Sizes
    <2> QED BY <2>3, <2>4 DEF G
  <1>5. ASSUME NEW t \in Syndromes, NEW r \in Syndromes, L <= t, L <= r
        PROVE  C(t) = 0 <=> C(r) = 0
    <2>1. L \in Syndromes
      BY <1>5, Sizes
    <2> QED BY <1>4, <1>5, <2>1
  <1> QED BY <1>2, <1>5 DEF C

-----------------------------------------------------------------------------
(* Registers that locate a set of positions.                               *)

\* A register that reproduces the syndromes of every word with errors in T only.
LocatesSet(q, T) ==
    /\ q \in Terms /\ q[0] = 1 /\ ZeroAbove(q, Cardinality(T))
    /\ \A t \in Syndromes, p \in T : Cardinality(T) <= t => Conv(Z(p), q, t) = 0

\* There is one, as long as it fits: the product of the (1 + X_p x).
LEMMA LocatorExists ==
    ASSUME NEW T \in SUBSET Positions, Cardinality(T) <= Delta
    PROVE  \E q : LocatesSet(q, T)
  <1> DEFINE F == {S \in SUBSET Positions : Cardinality(S) <= Delta => \E q : LocatesSet(q, S)}
  <1>1. {} \in F
    <2>1. Monomial(0) \in Terms /\ ZeroAbove(Monomial(0), 0) /\ Cardinality({}) = 0
      BY MonomialType, FS_EmptySet
    <2>2. Monomial(0)[0] = 1
      BY Sizes DEF Monomial
    <2>3. LocatesSet(Monomial(0), {})
      BY <2>1, <2>2 DEF LocatesSet
    <2> QED BY <2>3
  <1>2. ASSUME NEW S \in SUBSET Positions, NEW r \in Positions, S \in F, r \notin S
        PROVE  S \cup {r} \in F
    <2> SUFFICES ASSUME Cardinality(S \cup {r}) <= Delta
                 PROVE  \E q : LocatesSet(q, S \cup {r})
      OBVIOUS
    <2> DEFINE n == Cardinality(S)
    <2>1. /\ n \in Nat /\ Cardinality(S \cup {r}) = n + 1 /\ n < Delta
      <3>1. IsFiniteSet(S)
        BY Sizes, FS_Subset
      <3>2. n \in Nat /\ Cardinality(S \cup {r}) = n + 1
        BY <1>2, <3>1, FS_CardinalityType, FS_AddElement
      <3> QED BY <3>2, Sizes
    <2>2. PICK q : LocatesSet(q, S)
      BY <1>2, <2>1, Sizes
    <2> DEFINE u == ShiftUp(q)
               k == X(r)
               h == Combo(Coefficients, q, k, u)
    <2>3. /\ q \in Terms /\ q[0] = 1 /\ ZeroAbove(q, n)
          /\ u \in Terms /\ u[0] = 0 /\ ZeroAbove(u, n + 1)
          /\ k \in Symbols
      BY <2>1, <2>2, ShiftUpType, LocatorLaws DEF LocatesSet
    <2>4. q[Delta] = 0
      BY <2>1, <2>3, Sizes DEF ZeroAbove
    <2>5. h \in Terms /\ \A c \in Coefficients : h[c] = plus(q[c], times(k, u[c]))
      <3> HIDE DEF u, k
      <3>1. h \in Terms
        BY <2>3, FamilyClosed DEF Family, Terms
      <3> QED BY <3>1 DEF Combo
    <2> HIDE DEF h
    <2>6. h[0] = 1
      <3>1. 0 \in Coefficients /\ times(k, 0) = 0 /\ plus(1, 0) = 1
        BY <2>3, Sizes, FieldLaws
      <3> HIDE DEF u, k
      <3> QED BY <2>3, <2>5, <3>1
    <2>7. ZeroAbove(h, n + 1)
      <3> HIDE DEF u, k
      <3>1. ASSUME NEW c \in Coefficients, c > n + 1 PROVE h[c] = 0
        <4>1. q[c] = 0 /\ u[c] = 0
          BY <2>1, <2>3, <3>1, Sizes DEF ZeroAbove
        <4>2. times(k, 0) = 0 /\ plus(0, 0) = 0
          BY <2>3, FieldLaws
        <4> QED BY <2>5, <4>1, <4>2
      <3> QED BY <3>1 DEF ZeroAbove
    <2>8. ASSUME NEW t \in Syndromes, NEW p \in S \cup {r}, n + 1 <= t PROVE Conv(Z(p), h, t) = 0
      <3> DEFINE m == t - 1
                 C == Conv(Z(p), q, m)
      <3>1. m \in Syndromes /\ m + 1 = t /\ n <= m /\ n <= t /\ p \in Positions /\ Z(p) \in Words
        BY <2>1, <2>8, Sizes, GeometricType
      <3>2. Conv(Z(p), h, t) = plus(Conv(Z(p), q, t), times(k, Conv(Z(p), u, t)))
        <4> HIDE DEF u, k, m
        <4> QED BY <2>3, <2>5, <3>1, ConvUpdate
      <3>3. Conv(Z(p), u, m + 1) = C
        <4> HIDE DEF m
        <4> QED BY <2>3, <2>4, <3>1, ConvShift
      <3>4. Conv(Z(p), q, m + 1) = times(X(p), C) /\ C \in Symbols
        <4> HIDE DEF m
        <4> QED BY <2>1, <2>3, <3>1, Beyond, ConvGeometric
      <3> HIDE DEF m, u
      <3>5. Conv(Z(p), h, t) = plus(times(X(p), C), times(k, C))
        BY <3>1, <3>2, <3>3, <3>4
      <3>6. X(p) \in Symbols /\ times(k, C) \in Symbols
        BY <2>3, <3>1, <3>4, LocatorLaws, FieldLaws
      <3>7. CASE p = r
        <4>1. plus(times(k, C), times(k, C)) = 0
          BY <3>6, FieldLaws
        <4> QED BY <3>5, <3>7, <4>1
      <3>8. CASE p \in S
        <4>1. C = 0
          BY <2>2, <3>1, <3>8 DEF LocatesSet
        <4>2. times(X(p), 0) = 0 /\ times(k, 0) = 0 /\ plus(0, 0) = 0
          BY <2>3, <3>6, FieldLaws
        <4> HIDE DEF k, C
        <4> QED BY <3>5, <4>1, <4>2
      <3> QED BY <3>7, <3>8
    <2> HIDE DEF n
    <2>9. LocatesSet(h, S \cup {r})
      BY <2>1, <2>5, <2>6, <2>7, <2>8 DEF LocatesSet
    <2> QED BY <2>9
  <1> HIDE DEF F
  <1>3. SUBSET Positions \subseteq F
    <2>1. IsFiniteSet(Positions)
      BY Sizes
    <2> QED BY <1>1, <1>2, <2>1, SubsetInduction
  <1> QED BY <1>3 DEF F

\* The positions where a word is not 0.
Support(e) == {p \in Positions : e[p] # 0}

\* A register that kills the geometric sequences of a word's errors reproduces its syndromes.
LEMMA KillsWord ==
    ASSUME NEW q \in Terms, NEW t \in Syndromes, NEW e \in Family(Positions),
           \A p \in Support(e) : Conv(Z(p), q, t) = 0
    PROVE  Conv(syndromes(e), q, t) = 0
  <1> DEFINE L == WordConv(q, t)
             M == [w \in Family(Positions) |-> 0]
             T == Support(e)
  <1>1. Linear(Positions, L) /\ Linear(Positions, M)
    BY WordConvLinear, LinearNull
  <1>2. T \in SUBSET Positions /\ \A c \in Positions \ T : e[c] = 0
    BY DEF Support
  <1>3. \A p \in T : M[Unit(Positions, p)] = 0
    BY FamilyClosed
  <1>4. \A p \in T : L[Unit(Positions, p)] = Conv(Z(p), q, t)
    BY <1>2, WordConvLinear
  <1>5. L[e] = Conv(syndromes(e), q, t) /\ M[e] = 0
    BY WordConvLinear
  <1>6. \A p \in T : Conv(Z(p), q, t) = 0
    OBVIOUS
  <1> HIDE DEF L, M, T
  <1>7. L[e] = M[e]
    <2>1. \A p \in T : L[Unit(Positions, p)] = M[Unit(Positions, p)]
      BY <1>3, <1>4, <1>6
    <2>2. IsFiniteSet(Positions)
      BY Sizes
    <2> QED BY <1>1, <1>2, <2>1, <2>2, LinearAgree
  <1> QED BY <1>5, <1>7

\* Conversely, a register that reproduces as many syndromes in a row as a word has
\* errors kills the geometric sequence of each of them.
LEMMA KillsErrors ==
    ASSUME NEW q \in Terms, NEW L \in Nat, ZeroAbove(q, L), NEW e \in Family(Positions),
           L + Cardinality(Support(e)) <= NK,
           \A t \in Syndromes : (L <= t /\ t < L + Cardinality(Support(e))) => Conv(syndromes(e), q, t) = 0
    PROVE  \A p \in Support(e), t \in Syndromes : L <= t => Conv(Z(p), q, t) = 0
  <1> DEFINE Killed(w, n) == \A t \in Syndromes : (L <= t /\ t < L + n) => Conv(syndromes(w), q, t) = 0
             G == {n \in Nat : \A w \in Family(Positions) :
                     (Cardinality(Support(w)) = n /\ L + n <= NK /\ Killed(w, n)) =>
                        \A p \in Support(w), t \in Syndromes : L <= t => Conv(Z(p), q, t) = 0}
  <1>1. \A w : Support(w) \in SUBSET Positions /\ IsFiniteSet(Support(w)) /\ Cardinality(Support(w)) \in Nat
    <2>1. \A w : Support(w) \in SUBSET Positions
      BY DEF Support
    <2> QED BY <2>1, Sizes, FS_Subset, FS_CardinalityType
  <1>2. 0 \in G
    <2>1. \A w : Cardinality(Support(w)) = 0 => Support(w) = {}
      BY <1>1, FS_EmptySet
    <2> HIDE DEF Killed
    <2> QED BY <2>1
  <1>3. ASSUME NEW n \in Nat, n \in G PROVE n + 1 \in G
    <2> SUFFICES ASSUME NEW w \in Family(Positions), Cardinality(Support(w)) = n + 1,
                        L + (n + 1) <= NK, Killed(w, n + 1), NEW p \in Support(w),
                        NEW t \in Syndromes, L <= t
                 PROVE  Conv(Z(p), q, t) = 0
      OBVIOUS
    <2>1. p \in Positions /\ w[p] \in Symbols /\ w[p] # 0
      BY DEF Support, Family
    <2>2. CASE \E r \in Support(w) : r # p
      <3>1. PICK r \in Support(w) : r # p
        BY <2>2
      <3> DEFINE a == [c \in Positions |-> plus(X(c), X(r))]
                 v == Scaled(Positions, a, w)
      <3>2. r \in Positions /\ X(r) \in Symbols /\ \A c \in Positions : X(c) \in Symbols
        BY <3>1, LocatorLaws DEF Support
      <3>3. a \in Family(Positions)
        BY <3>2, FieldLaws DEF Family
      <3>4. \A c \in Positions : a[c] = 0 <=> c = r
        <4>1. ASSUME NEW c \in Positions PROVE plus(X(c), X(r)) = 0 <=> c = r
          <5>1. plus(X(c), X(r)) = 0 <=> X(c) = X(r)
            BY <3>2, FieldLaws
          <5> QED BY <3>2, <5>1, LocatorLaws
        <4> QED BY <4>1
      <3>5. \A c \in Positions : a[c] = plus(X(c), X(r))
        OBVIOUS
      <3> HIDE DEF a
      <3>6. v \in Family(Positions)
        <4>1. Linear(Positions, [f \in Family(Positions) |-> 0])
          BY LinearNull
        <4> QED BY <3>3, <4>1, LinearRescaled
      <3>7. Support(v) = Support(w) \ {r}
        <4>1. ASSUME NEW c \in Positions PROVE v[c] # 0 <=> (w[c] # 0 /\ c # r)
          <5>1. v[c] = times(a[c], w[c]) /\ a[c] \in Symbols /\ w[c] \in Symbols
            BY <3>3 DEF Scaled, Family
          <5>2. times(0, w[c]) = 0 /\ times(a[c], 0) = 0
            BY <5>1, FieldLaws
          <5> HIDE DEF v
          <5>3. (a[c] # 0 /\ times(a[c], w[c]) = 0) => w[c] = 0
            BY <5>1, NoZeroDivisors
          <5>4. a[c] = 0 <=> c = r
            BY <3>4
          <5> QED BY <5>1, <5>2, <5>3, <5>4
        <4> HIDE DEF v
        <4> QED BY <4>1 DEF Support
      <3>8. Cardinality(Support(v)) = n
        <4>1. Cardinality(Support(w) \ {r}) = Cardinality(Support(w)) - 1
          BY <1>1, <3>1, FS_RemoveElement
        <4> QED BY <3>7, <4>1
      <3>9. Killed(v, n)
        <4> SUFFICES ASSUME NEW m \in Syndromes, L <= m, m < L + n
                     PROVE  Conv(syndromes(v), q, m) = 0
          BY DEF Killed
        <4>1. m + 1 \in Syndromes /\ L <= m + 1 /\ m + 1 < L + (n + 1) /\ m < L + (n + 1)
          BY Sizes
        <4> DEFINE A == WordConv(q, m)
                   B == WordConv(q, m + 1)
                   M == Rescaled(Positions, A, a)
                   N == Sum(Positions, B, X(r), A)
        <4>2. Linear(Positions, A) /\ Linear(Positions, B)
          BY <4>1, WordConvLinear
        <4>3. A[w] = Conv(syndromes(w), q, m) /\ B[w] = Conv(syndromes(w), q, m + 1)
              /\ A[v] = Conv(syndromes(v), q, m)
          BY <3>6, <4>1, WordConvLinear
        <4>4. \A c \in Positions : A[Unit(Positions, c)] = Conv(Z(c), q, m)
                                   /\ B[Unit(Positions, c)] = Conv(Z(c), q, m + 1)
          BY <4>1, WordConvLinear
        <4> HIDE DEF A, B
        <4>5. /\ Linear(Positions, M) /\ M[w] = A[v]
              /\ \A c \in Positions : M[Unit(Positions, c)] = times(a[c], A[Unit(Positions, c)])
          BY <3>3, <4>2, LinearRescaled
        <4>6. /\ Linear(Positions, N)
              /\ \A f \in Family(Positions) : N[f] = plus(B[f], times(X(r), A[f]))
          BY <3>2, <4>2, LinearSum
        <4> HIDE DEF M, N
        <4>7. ASSUME NEW c \in Positions PROVE M[Unit(Positions, c)] = N[Unit(Positions, c)]
          <5> DEFINE C == Conv(Z(c), q, m)
          <5>1. C \in Symbols /\ X(c) \in Symbols /\ X(r) \in Symbols
            BY <3>2, ConvGeometric
          <5>2. Conv(Z(c), q, m + 1) = times(X(c), C)
            BY <4>1, Beyond
          <5>3. Unit(Positions, c) \in Family(Positions)
            BY FamilyClosed
          <5>4. M[Unit(Positions, c)] = times(plus(X(c), X(r)), C)
            BY <3>5, <4>4, <4>5
          <5>5. N[Unit(Positions, c)] = plus(times(X(c), C), times(X(r), C))
            BY <4>4, <4>6, <5>2, <5>3
          <5> HIDE DEF C
          <5>6. plus(X(c), X(r)) \in Symbols
            BY <5>1, FieldLaws
          <5>7. times(plus(X(c), X(r)), C) = times(C, plus(X(c), X(r)))
            BY <5>1, <5>6, FieldAssumption
          <5>8. times(C, plus(X(c), X(r))) = plus(times(C, X(c)), times(C, X(r)))
            BY <5>1, FieldAssumption
          <5>9. times(C, X(c)) = times(X(c), C) /\ times(C, X(r)) = times(X(r), C)
            BY <5>1, FieldAssumption
          <5> QED BY <5>4, <5>5, <5>7, <5>8, <5>9
        <4>8. M[w] = N[w]
          <5>1. Positions \in SUBSET Positions /\ \A c \in Positions \ Positions : w[c] = 0
            OBVIOUS
          <5>2. IsFiniteSet(Positions)
            BY Sizes
          <5>3. \A c \in Positions : M[Unit(Positions, c)] = N[Unit(Positions, c)]
            BY <4>7
          <5> QED BY <4>5, <4>6, <5>1, <5>2, <5>3, LinearAgree
        <4>9. A[w] = 0 /\ B[w] = 0
          BY <4>1, <4>3 DEF Killed
        <4>10. times(X(r), 0) = 0 /\ plus(0, 0) = 0
          BY <3>2, FieldLaws
        <4>11. N[w] = 0
          BY <4>6, <4>9, <4>10
        <4> QED BY <4>3, <4>5, <4>8, <4>11
      <3>10. p \in Support(v)
        BY <3>1, <3>7
      <3>11. L + n <= NK
        BY Sizes
      <3> HIDE DEF v, Killed
      <3> QED BY <1>3, <3>6, <3>8, <3>9, <3>10, <3>11
    <2>3. CASE ~\E r \in Support(w) : r # p
      <3>1. \A c \in Positions : c # p => w[c] = 0
        BY <2>3 DEF Support
      <3>2. L \in Syndromes /\ L <= L /\ L < L + (n + 1)
        BY Sizes
      <3>3. Conv(syndromes(w), q, L) = 0
        BY <3>2 DEF Killed
      <3> DEFINE C == Conv(Z(p), q, L)
                 A == WordConv(q, L)
                 u == Unit(Positions, p)
                 z == ZeroOn(Positions)
      <3>4. Linear(Positions, A) /\ A[w] = Conv(syndromes(w), q, L) /\ A[u] = C
        BY <2>1, <3>2, WordConvLinear
      <3>5. w = Combo(Positions, z, w[p], u)
        <4>1. ASSUME NEW c \in Positions PROVE w[c] = plus(0, times(w[p], IF c = p THEN 1 ELSE 0))
          <5>1. times(w[p], 1) = w[p] /\ plus(0, w[p]) = w[p] /\ times(w[p], 0) = 0 /\ plus(0, 0) = 0
            BY <2>1, FieldLaws, FieldAssumption
          <5> QED BY <3>1, <5>1
        <4>2. Combo(Positions, z, w[p], u)
                = [c \in Positions |-> plus(0, times(w[p], IF c = p THEN 1 ELSE 0))]
          BY DEF Combo, ZeroOn, Unit
        <4>3. w = [c \in Positions |-> w[c]]
          BY DEF Family
        <4> HIDE DEF z, u
        <4> QED BY <4>1, <4>2, <4>3
      <3>6. z \in Family(Positions) /\ u \in Family(Positions) /\ A[z] = 0
        BY <3>4, FamilyClosed, LinearAtZero
      <3>7. C \in Symbols
        BY <2>1, <3>2, ConvGeometric
      <3> HIDE DEF A, C, u, z
      <3>8. A[w] = plus(A[z], times(w[p], A[u]))
        <4>1. A[Combo(Positions, z, w[p], u)] = plus(A[z], times(w[p], A[u]))
          BY <2>1, <3>4, <3>6 DEF Linear
        <4> QED BY <3>5, <4>1
      <3>9. times(w[p], C) = 0
        <4>1. times(w[p], C) \in Symbols
          BY <2>1, <3>7, FieldLaws
        <4>2. plus(0, times(w[p], C)) = times(w[p], C)
          BY <4>1, FieldLaws
        <4> QED BY <3>3, <3>4, <3>6, <3>8, <4>2
      <3>10. C = 0
        BY <2>1, <3>7, <3>9, NoZeroDivisors
      <3> QED BY <2>1, <3>2, <3>10, Beyond DEF C
    <2> QED BY <2>2, <2>3
  <1> HIDE DEF G
  <1>4. Nat \subseteq G
    BY <1>2, <1>3, NatSetInduction
  <1>5. Cardinality(Support(e)) \in G
    BY <1>1, <1>4
  <1>6. Killed(e, Cardinality(Support(e)))
    BY DEF Killed
  <1> HIDE DEF Killed
  <1> QED BY <1>5, <1>6 DEF G

\* A word with at most 2*Delta errors and no syndromes has no errors.
LEMMA NoSyndromesNoErrors ==
    ASSUME NEW e \in Family(Positions), Cardinality(Support(e)) <= NK,
           syndromes(e) = ZeroOn(Syndromes)
    PROVE  Support(e) = {}
  <1> DEFINE q == Monomial(0)
  <1>1. q \in Terms /\ ZeroAbove(q, 0)
    BY MonomialType
  <1>2. q[0] = 1 /\ 0 \in Syndromes
    BY Sizes DEF Monomial
  <1> HIDE DEF q
  <1>3. Cardinality(Support(e)) \in Nat
    <2>1. Support(e) \in SUBSET Positions
      BY DEF Support
    <2> QED BY <2>1, Sizes, FS_Subset, FS_CardinalityType
  <1>4. ASSUME NEW t \in Syndromes PROVE Conv(ZeroOn(Syndromes), q, t) = 0
    <2> DEFINE f == ConvTerms(ZeroOn(Syndromes), q, t)
    <2>1. ZeroOn(Syndromes) \in Words
      BY FamilyClosed DEF Family, Words
    <2>2. f \in Terms
      BY <1>1, <2>1, ConvType
    <2>3. ASSUME NEW c \in Coefficients PROVE f[c] = 0
      <3>1. f[c] = IF c <= t THEN times(q[c], ZeroOn(Syndromes)[t - c]) ELSE 0
        BY Zenon DEF ConvTerms
      <3>2. c <= t => ZeroOn(Syndromes)[t - c] = 0
        <4>1. c <= t => t - c \in Syndromes
          BY <1>1, <2>1, ConvType
        <4> QED BY <4>1 DEF ZeroOn
      <3>3. times(q[c], 0) = 0
        BY <1>1, FieldLaws DEF Terms
      <3> HIDE DEF f
      <3> QED BY <3>1, <3>2, <3>3
    <2> HIDE DEF f
    <2>4. Total(f) = 0
      BY <2>2, <2>3, SumOfNone
    <2> QED BY <2>4 DEF Conv, f
  <1>5. \A p \in Support(e) : Conv(Z(p), q, 0) = 0
    <2>1. 0 + Cardinality(Support(e)) <= NK /\ 0 \in Nat
      BY <1>3
    <2>2. \A t \in Syndromes : Conv(syndromes(e), q, t) = 0
      BY <1>4
    <2>3. \A p \in Support(e), t \in Syndromes : 0 <= t => Conv(Z(p), q, t) = 0
      BY <1>1, <2>1, <2>2, KillsErrors
    <2> QED BY <1>2, <2>3
  <1>6. ASSUME NEW p \in Support(e) PROVE FALSE
    <2>1. p \in Positions
      BY DEF Support
    <2>2. Conv(Z(p), q, 0) = times(X(p), q[0])
      BY <1>1, <2>1, ConvGeometric
    <2>3. times(X(p), 1) = X(p) /\ X(p) # 0
      BY <2>1, LocatorLaws, FieldAssumption
    <2> QED BY <1>2, <1>5, <2>2, <2>3
  <1> QED BY <1>6

-----------------------------------------------------------------------------
(* Roots.                                                                  *)

\* The positions a register kills.
Roots(q) == {p \in Positions : Conv(Z(p), q, Delta) = 0}

\* q divided by 1 + X_p x, times X_p.
Quotient(p, q) == [c \in Coefficients |-> Conv(Z(p), q, c)]

\* A register divides by the factor of a root, and the quotient is shorter.
LEMMA Divides ==
    ASSUME NEW p \in Positions, NEW q \in Terms, NEW L \in Nat, L < Delta, ZeroAbove(q, L + 1),
           p \in Roots(q)
    PROVE  /\ Quotient(p, q) \in Terms /\ ZeroAbove(Quotient(p, q), L)
           /\ Quotient(p, q)[Delta] = 0
           /\ Quotient(p, q)[0] = times(X(p), q[0])
           /\ q = Combo(Coefficients, ShiftUp(Quotient(p, q)), InverseLocator(p), Quotient(p, q))
  <1> DEFINE Q == Quotient(p, q)
             x == X(p)
             y == InverseLocator(p)
             u == ShiftUp(Q)
  <1>1. /\ Delta \in Nat \ {0} /\ Coefficients = 0..Delta /\ Coefficients \subseteq Syndromes
        /\ Delta \in Syndromes
    BY Sizes
  <1>2. x \in Symbols /\ y \in Symbols /\ times(x, y) = 1
    BY LocatorLaws
  <1>3. \A c \in Coefficients : Q[c] = Conv(Z(p), q, c)
    BY DEF Quotient
  <1>4. Q \in Terms
    <2>1. \A c \in Coefficients : Conv(Z(p), q, c) \in Symbols
      BY <1>1, ConvGeometric
    <2> QED BY <2>1 DEF Quotient, Terms
  <1>5. u \in Terms /\ \A c \in Coefficients : u[c] = IF c = 0 THEN 0 ELSE Q[c - 1]
    <2>1. u \in Terms
      <3> HIDE DEF Q
      <3> QED BY <1>4, ShiftUpType
    <2> QED BY <2>1 DEF ShiftUp
  <1> HIDE DEF Q, u, x, y
  <1>6. ASSUME NEW c \in Coefficients, c > L PROVE Q[c] = 0
    <2>1. c \in Syndromes /\ L + 1 <= c /\ L + 1 <= Delta /\ L + 1 \in Nat
      BY <1>1, <1>6
    <2>2. Conv(Z(p), q, Delta) = 0
      BY DEF Roots
    <2>3. Conv(Z(p), q, c) = 0
      BY <1>1, <2>1, <2>2, Beyond
    <2> QED BY <1>3, <2>3
  <1>7. ZeroAbove(Q, L) /\ Q[Delta] = 0
    BY <1>1, <1>6 DEF ZeroAbove
  <1>8. Q[0] = times(x, q[0])
    <2>1. 0 \in Coefficients
      BY <1>1
    <2> QED BY <1>3, <2>1, ConvGeometric DEF x
  <1>9. ASSUME NEW c \in Coefficients PROVE q[c] = plus(u[c], times(y, Q[c]))
    <2>1. q[c] \in Symbols /\ u[c] \in Symbols /\ Q[c] \in Symbols
      BY <1>4, <1>5 DEF Terms
    <2>2. ASSUME NEW v \in Symbols PROVE times(y, times(x, v)) = v
      <3>1. times(times(y, x), v) = times(y, times(x, v)) /\ times(y, x) = times(x, y)
        BY <1>2, FieldAssumption
      <3>2. times(1, v) = v
        BY FieldLaws
      <3> QED BY <1>2, <3>1, <3>2
    <2>3. CASE c = 0
      <3>1. u[c] = 0 /\ times(y, Q[c]) = q[c]
        BY <1>5, <1>8, <2>1, <2>2, <2>3
      <3>2. plus(0, q[c]) = q[c]
        BY <2>1, FieldLaws
      <3> QED BY <3>1, <3>2
    <2>4. CASE c # 0
      <3> DEFINE t == c - 1
      <3>1. t \in Coefficients /\ t \in Syndromes /\ t + 1 \in Syndromes /\ t + 1 = c
        BY <1>1, <2>4
      <3>2. u[c] = Q[t] /\ Q[t] \in Symbols
        BY <1>4, <1>5, <2>4, <3>1 DEF Terms
      <3> HIDE DEF t
      <3>3. Conv(Z(p), q, t + 1) = times(x, plus(Conv(Z(p), q, t), Coef(q, t + 1)))
        BY <3>1, ConvGeometric DEF x
      <3>4. Coef(q, t + 1) = q[c]
        BY <3>1 DEF Coef
      <3>5. Q[c] = times(x, plus(Q[t], q[c]))
        BY <1>3, <3>1, <3>3, <3>4
      <3>6. plus(Q[t], q[c]) \in Symbols
        BY <2>1, <3>2, FieldLaws
      <3>7. times(y, Q[c]) = plus(Q[t], q[c])
        BY <2>2, <3>5, <3>6
      <3>8. plus(Q[t], plus(Q[t], q[c])) = q[c]
        <4>1. plus(plus(Q[t], Q[t]), q[c]) = plus(Q[t], plus(Q[t], q[c]))
          BY <2>1, <3>2, FieldAssumption
        <4>2. plus(Q[t], Q[t]) = 0 /\ plus(0, q[c]) = q[c]
          BY <2>1, <3>2, FieldLaws
        <4> QED BY <4>1, <4>2
      <3> QED BY <3>2, <3>7, <3>8
    <2> QED BY <2>3, <2>4
  <1>10. q = Combo(Coefficients, u, y, Q)
    <2>1. q = [c \in Coefficients |-> q[c]]
      BY DEF Terms
    <2> QED BY <1>9, <2>1 DEF Combo
  <1> QED BY <1>4, <1>7, <1>8, <1>10 DEF Q, u, x, y

\* The other roots of the register are roots of the quotient.
LEMMA RootsOfQuotient ==
    ASSUME NEW p \in Positions, NEW q \in Terms, NEW L \in Nat, L < Delta, ZeroAbove(q, L + 1),
           p \in Roots(q)
    PROVE  Roots(q) \ {p} \subseteq Roots(Quotient(p, q))
  <1> DEFINE Q == Quotient(p, q)
             y == InverseLocator(p)
             u == ShiftUp(Q)
  <1>1. /\ Q \in Terms /\ ZeroAbove(Q, L) /\ Q[Delta] = 0
        /\ q = Combo(Coefficients, u, y, Q)
    BY Divides
  <1>2. u \in Terms
    <2> HIDE DEF Q
    <2> QED BY <1>1, ShiftUpType
  <1> HIDE DEF Q
  <1>3. \A c \in Coefficients : q[c] = plus(u[c], times(y, Q[c]))
    <2> HIDE DEF u, y
    <2> QED BY <1>1 DEF Combo
  <1> SUFFICES ASSUME NEW r \in Roots(q), r # p PROVE r \in Roots(Q)
    BY DEF Q
  <1>4. r \in Positions /\ Conv(Z(r), q, Delta) = 0 /\ Z(r) \in Words
    BY GeometricType DEF Roots
  <1> DEFINE t == Delta - 1
             C == Conv(Z(r), Q, t)
  <1>5. t \in Syndromes /\ t + 1 = Delta /\ Delta \in Syndromes /\ L <= t /\ L <= Delta
    BY Sizes
  <1> HIDE DEF t
  <1>6. C \in Symbols /\ X(r) \in Symbols /\ y \in Symbols /\ X(p) \in Symbols /\ times(X(p), y) = 1
        /\ X(p) # X(r)
    BY <1>1, <1>4, <1>5, ConvGeometric, LocatorLaws
  <1>7. Conv(Z(r), u, t + 1) = C
    BY <1>1, <1>4, <1>5, ConvShift
  <1>8. Conv(Z(r), Q, t + 1) = times(X(r), C)
    BY <1>1, <1>4, <1>5, Beyond
  <1> HIDE DEF u, y, C
  <1>9. Conv(Z(r), q, Delta) = plus(Conv(Z(r), u, Delta), times(y, Conv(Z(r), Q, Delta)))
    BY <1>1, <1>2, <1>3, <1>4, <1>5, <1>6, ConvUpdate
  <1>10. plus(C, times(y, times(X(r), C))) = 0
    BY <1>4, <1>5, <1>7, <1>8, <1>9
  <1>11. C = 0
    <2> SUFFICES ASSUME C # 0 PROVE FALSE
      OBVIOUS
    <2> DEFINE v == times(y, X(r))
               k == inverse(C)
    <2>1. k \in Symbols /\ times(C, k) = 1
      BY <1>6, BmAssumption, FieldAssumption
    <2>2. v \in Symbols /\ times(v, C) = times(y, times(X(r), C)) /\ times(v, C) \in Symbols
      BY <1>6, FieldLaws, FieldAssumption
    <2>3. C = times(v, C)
      BY <1>6, <1>10, <2>2, FieldLaws
    <2>4. times(times(v, C), k) = times(v, times(C, k)) /\ times(v, 1) = v
      BY <1>6, <2>1, <2>2, FieldAssumption
    <2>5. v = 1
      BY <2>1, <2>3, <2>4
    <2>6. times(X(p), v) = X(p)
      BY <1>6, <2>5, FieldAssumption
    <2>7. times(X(p), times(y, X(r))) = times(times(X(p), y), X(r)) /\ times(1, X(r)) = X(r)
      BY <1>6, FieldAssumption, FieldLaws
    <2> QED BY <1>6, <2>6, <2>7
  <1>12. Conv(Z(r), Q, Delta) = 0
    <2>1. times(X(r), 0) = 0
      BY <1>6, FieldLaws
    <2> QED BY <1>5, <1>8, <1>11, <2>1
  <1> QED BY <1>4, <1>12 DEF Roots

\* A register of length L that is not 0 has at most L roots.
LEMMA RootCount ==
    ASSUME NEW q \in Terms, NEW L \in Nat, L <= Delta, ZeroAbove(q, L),
           NEW b \in Coefficients, q[b] # 0
    PROVE  /\ IsFiniteSet(Roots(q)) /\ Cardinality(Roots(q)) \in Nat
           /\ Cardinality(Roots(q)) <= L
  <1> DEFINE G == {n \in Nat : n <= Delta => \A f \in Terms :
                     (ZeroAbove(f, n) /\ \E c \in Coefficients : f[c] # 0) =>
                        Cardinality(Roots(f)) <= n}
  <1>1. \A f : IsFiniteSet(Roots(f)) /\ Cardinality(Roots(f)) \in Nat
    <2>1. \A f : Roots(f) \in SUBSET Positions
      BY DEF Roots
    <2> QED BY <2>1, Sizes, FS_Subset, FS_CardinalityType
  <1>2. 0 \in G
    <2> SUFFICES ASSUME NEW f \in Terms, ZeroAbove(f, 0), NEW c \in Coefficients, f[c] # 0
                 PROVE  Cardinality(Roots(f)) <= 0
      OBVIOUS
    <2>1. f[0] # 0 /\ 0 \in Coefficients /\ 0 \in Syndromes /\ Delta \in Syndromes /\ 0 <= Delta
      BY Sizes DEF ZeroAbove
    <2>2. ASSUME NEW p \in Roots(f) PROVE FALSE
      <3>1. p \in Positions /\ Conv(Z(p), f, Delta) = 0
        BY DEF Roots
      <3>2. Conv(Z(p), f, 0) = 0
        BY <2>1, <3>1, Beyond
      <3>3. times(X(p), f[0]) = 0
        BY <3>1, <3>2, ConvGeometric
      <3>4. X(p) \in Symbols /\ X(p) # 0 /\ f[0] \in Symbols
        BY <2>1, <3>1, LocatorLaws DEF Terms
      <3> QED BY <2>1, <3>3, <3>4, NoZeroDivisors
    <2>3. Roots(f) = {}
      BY <2>2
    <2>4. Cardinality(Roots(f)) = 0
      BY <2>3, FS_EmptySet
    <2> QED BY <2>4
  <1>3. ASSUME NEW n \in Nat, n \in G PROVE n + 1 \in G
    <2> SUFFICES ASSUME n + 1 <= Delta, NEW f \in Terms, ZeroAbove(f, n + 1),
                        NEW c \in Coefficients, f[c] # 0
                 PROVE  Cardinality(Roots(f)) <= n + 1
      OBVIOUS
    <2>1. CASE Roots(f) = {}
      <3>1. Cardinality(Roots(f)) = 0
        BY <2>1, FS_EmptySet
      <3> QED BY <3>1
    <2>2. CASE Roots(f) # {}
      <3>1. PICK p \in Roots(f) : TRUE
        BY <2>2
      <3> DEFINE Q == Quotient(p, f)
                 u == ShiftUp(Q)
                 y == InverseLocator(p)
      <3>2. p \in Positions /\ n < Delta /\ n <= Delta
        BY Sizes DEF Roots
      <3>3. Q \in Terms /\ ZeroAbove(Q, n) /\ f = Combo(Coefficients, u, y, Q)
        BY <3>1, <3>2, Divides
      <3>4. Roots(f) \ {p} \subseteq Roots(Q)
        BY <3>1, <3>2, RootsOfQuotient
      <3> HIDE DEF Q
      <3>5. \E e \in Coefficients : Q[e] # 0
        <4> SUFFICES ASSUME \A e \in Coefficients : Q[e] = 0 PROVE FALSE
          OBVIOUS
        <4>1. u[c] = 0
          <5>1. c # 0 => c - 1 \in Coefficients
            BY Sizes
          <5> QED BY <5>1 DEF ShiftUp
        <4>2. Q[c] = 0 /\ y \in Symbols
          BY <3>2, LocatorLaws
        <4>3. times(y, 0) = 0 /\ plus(0, 0) = 0
          BY <4>2, FieldLaws
        <4> HIDE DEF u, y
        <4>4. f[c] = plus(u[c], times(y, Q[c]))
          BY <3>3 DEF Combo
        <4> QED BY <4>1, <4>2, <4>3, <4>4
      <3>6. Cardinality(Roots(Q)) <= n
        BY <1>3, <3>2, <3>3, <3>5
      <3>7. Cardinality(Roots(f) \ {p}) <= Cardinality(Roots(Q))
        BY <1>1, <3>4, FS_Subset
      <3>8. Cardinality(Roots(f) \ {p}) = Cardinality(Roots(f)) - 1
        BY <1>1, <3>1, FS_RemoveElement
      <3> QED BY <1>1, <3>6, <3>7, <3>8
    <2> QED BY <2>1, <2>2
  <1> HIDE DEF G
  <1>4. L \in G
    BY <1>2, <1>3, NatSetInduction
  <1> QED BY <1>1, <1>4 DEF G

-----------------------------------------------------------------------------
(* Values of polynomials at the inverse locators.                          *)

\* A linear map after one that respects sums and multiples.
After(D, L, A) == [f \in Family(D) |-> L[A[f]]]
Respects(D, B, A) ==
    /\ A \in [Family(D) -> Family(B)]
    /\ \A f, g \in Family(D), k \in Symbols : A[Combo(D, f, k, g)] = Combo(B, A[f], k, A[g])

\* It is linear.
LEMMA LinearAfter ==
    ASSUME NEW D, NEW B, NEW A, Respects(D, B, A), NEW L, Linear(B, L)
    PROVE  /\ Linear(D, After(D, L, A))
           /\ \A f \in Family(D) : After(D, L, A)[f] = L[A[f]]
  <1> DEFINE N == After(D, L, A)
  <1>1. \A f \in Family(D) : N[f] = L[A[f]]
    BY DEF After
  <1>2. \A f \in Family(D) : A[f] \in Family(B)
    BY DEF Respects
  <1>3. N \in [Family(D) -> Symbols]
    <2>1. \A f \in Family(D) : L[A[f]] \in Symbols
      BY <1>2 DEF Linear
    <2> QED BY <2>1 DEF After
  <1> HIDE DEF N
  <1>4. ASSUME NEW f \in Family(D), NEW g \in Family(D), NEW k \in Symbols
        PROVE  N[Combo(D, f, k, g)] = plus(N[f], times(k, N[g]))
    <2>1. Combo(D, f, k, g) \in Family(D)
      BY FamilyClosed
    <2>2. A[Combo(D, f, k, g)] = Combo(B, A[f], k, A[g])
      BY DEF Respects
    <2>3. L[Combo(B, A[f], k, A[g])] = plus(L[A[f]], times(k, L[A[g]]))
      BY <1>2 DEF Linear
    <2> QED BY <1>1, <2>1, <2>2, <2>3
  <1>5. Linear(D, N)
    BY <1>3, <1>4 DEF Linear
  <1> QED BY <1>1, <1>5 DEF N

\* The product of a register with a fixed sequence is linear in the register.
RegisterConv(ss, t) == [f \in Family(Coefficients) |-> Conv(ss, f, t)]

\* A unit picks one member of the sequence.
LEMMA RegisterConvLinear ==
    ASSUME NEW ss \in Words, NEW t \in Syndromes
    PROVE  /\ Linear(Coefficients, RegisterConv(ss, t))
           /\ \A f \in Terms : RegisterConv(ss, t)[f] = Conv(ss, f, t)
           /\ \A c \in Coefficients : c <= t =>
                 RegisterConv(ss, t)[Unit(Coefficients, c)] = ss[t - c]
  <1> DEFINE L == RegisterConv(ss, t)
             D == Coefficients
  <1>1. Terms = Family(D)
    BY DEF Terms, Family
  <1>2. \A f \in Family(D) : L[f] = Conv(ss, f, t)
    BY DEF RegisterConv
  <1>3. L \in [Family(D) -> Symbols]
    <2>1. \A f \in Family(D) : Conv(ss, f, t) \in Symbols
      BY <1>1, ConvType
    <2> QED BY <2>1 DEF RegisterConv
  <1> HIDE DEF L, D
  <1>4. ASSUME NEW f \in Family(D), NEW g \in Family(D), NEW k \in Symbols
        PROVE  L[Combo(D, f, k, g)] = plus(L[f], times(k, L[g]))
    <2> DEFINE h == Combo(D, f, k, g)
    <2>1. h \in Family(D) /\ \A c \in D : h[c] = plus(f[c], times(k, g[c]))
      BY FamilyClosed DEF Combo
    <2> HIDE DEF h
    <2>2. Conv(ss, h, t) = plus(Conv(ss, f, t), times(k, Conv(ss, g, t)))
      <3>1. \A c \in Coefficients : h[c] = plus(f[c], times(k, g[c]))
        BY <2>1 DEF D
      <3> QED BY <1>1, <2>1, <3>1, ConvUpdate
    <2>3. L[h] = plus(L[f], times(k, L[g]))
      BY <1>2, <2>1, <2>2
    <2> QED BY <2>3 DEF h
  <1>5. ASSUME NEW c \in Coefficients, c <= t PROVE L[Unit(D, c)] = ss[t - c]
    <2> DEFINE u == Unit(D, c)
               f == ConvTerms(ss, u, t)
    <2>1. u \in Family(D) /\ \A e \in Coefficients : u[e] = IF e = c THEN 1 ELSE 0
      BY FamilyClosed DEF Unit, D
    <2> HIDE DEF u
    <2>2. f \in Terms
      BY <1>1, <2>1, ConvType
    <2>3. \A e \in Coefficients : f[e] = IF e <= t THEN times(u[e], ss[t - e]) ELSE 0
      BY Zenon DEF ConvTerms
    <2> HIDE DEF f
    <2>4. f[c] = ss[t - c]
      <3>1. ss[t - c] \in Symbols
        BY <1>1, <1>5, <2>1, ConvType
      <3>2. times(1, ss[t - c]) = ss[t - c]
        BY <3>1, FieldLaws
      <3> QED BY <1>5, <2>1, <2>3, <3>2
    <2>5. ASSUME NEW e \in Coefficients \ {c} PROVE f[e] = 0
      <3>1. CASE e <= t
        <4>1. ss[t - e] \in Symbols
          BY <1>1, <2>1, <3>1, ConvType
        <4>2. times(0, ss[t - e]) = 0
          BY <4>1, FieldLaws
        <4> QED BY <2>1, <2>3, <3>1, <4>2
      <3>2. CASE ~(e <= t)
        BY <2>3, <3>2
      <3> QED BY <3>1, <3>2
    <2>6. Total(f) = f[c]
      BY <2>2, <2>5, SumOfOne
    <2>7. Conv(ss, u, t) = f[c]
      BY <2>6 DEF Conv, f
    <2> QED BY <1>2, <2>1, <2>4, <2>7 DEF u
  <1>6. Linear(D, L)
    BY <1>3, <1>4 DEF Linear
  <1> QED BY <1>1, <1>2, <1>5, <1>6 DEF L, D

\* A position is killed exactly when its inverse locator is a root.
LEMMA RootIsKilled ==
    ASSUME NEW p \in Positions, NEW q \in Terms
    PROVE  gf_poly_eval(q, Delta, InverseLocator(p)) = 0 <=> p \in Roots(q)
  <1> DEFINE x == X(p)
             y == InverseLocator(p)
             k == Power(x, Delta + 1)
             L == RegisterConv(Z(p), Delta)
             V == EvalMap(Delta, y)
             M == [f \in Family(Coefficients) |-> times(k, V[f])]
  <1>1. /\ x \in Symbols /\ x # 0 /\ y \in Symbols /\ times(x, y) = 1
        /\ Delta \in Nat /\ Delta + 1 \in Nat /\ Coefficients = 0..Delta /\ Delta \in Syndromes
        /\ Z(p) \in Words
    BY LocatorLaws, Sizes, GeometricType
  <1>2. Terms = Family(Coefficients)
    BY DEF Terms, Family
  <1>3. k \in Symbols /\ k # 0
    BY <1>1, PowerUnfolds, PowerLaws
  <1>4. /\ Linear(Coefficients, L)
        /\ \A f \in Terms : L[f] = Conv(Z(p), f, Delta)
        /\ \A c \in Coefficients : L[Unit(Coefficients, c)] = Z(p)[Delta - c]
    <2>1. \A c \in Coefficients : c <= Delta
      BY <1>1
    <2> QED BY <1>1, <2>1, RegisterConvLinear
  <1>5. /\ Linear(Coefficients, V)
        /\ \A f \in Terms : V[f] = gf_poly_eval(f, Delta, y)
        /\ \A c \in Coefficients : V[Unit(Coefficients, c)] = Power(y, c)
    BY <1>1, <1>2, EvalLinear
  <1> HIDE DEF k, L, V, x, y
  <1>6. Linear(Coefficients, M)
    BY <1>3, <1>5, LinearTimes
  <1>7. \A f \in Terms : M[f] = times(k, V[f])
    BY <1>2
  <1> HIDE DEF M
  <1>8. ASSUME NEW c \in Coefficients
        PROVE  L[Unit(Coefficients, c)] = M[Unit(Coefficients, c)]
    <2> DEFINE r == Delta - c + 1
               a == Power(x, r)
               b == Power(x, c)
               e == Power(y, c)
    <2>1. r \in Nat /\ c \in Nat /\ r + c = Delta + 1 /\ Delta - c \in Syndromes
      <3>1. (Delta - c) + 1 \in Nat /\ c \in Nat /\ ((Delta - c) + 1) + c = Delta + 1
        BY <1>1
      <3>2. Delta - c \in Syndromes
        BY <1>1, Sizes
      <3> QED BY <3>1, <3>2
    <2> HIDE DEF r
    <2>2. a \in Symbols /\ b \in Symbols /\ e \in Symbols
      BY <1>1, <2>1, PowerUnfolds
    <2>3. k = times(a, b)
      BY <1>1, <2>1, PowerLaws DEF k
    <2>4. times(b, e) = 1
      <3>1. Power(times(x, y), c) = times(b, e)
        BY <1>1, <2>1, PowerLaws
      <3>2. Power(1, c) = 1
        BY <1>1, <2>1, PowerLaws
      <3>3. times(x, y) = 1
        BY <1>1
      <3> HIDE DEF b, e
      <3> QED BY <3>1, <3>2, <3>3
    <2>5. Z(p)[Delta - c] = a
      <3>1. Z(p)[Delta - c] = Power(X(p), (Delta - c) + 1)
        BY <2>1 DEF Z
      <3> QED BY <3>1 DEF r, x
    <2>6. Unit(Coefficients, c) \in Terms
      BY <1>2, FamilyClosed
    <2>7. M[Unit(Coefficients, c)] = times(times(a, b), e)
      BY <1>5, <1>7, <2>3, <2>6
    <2> HIDE DEF a, b, e
    <2>8. times(times(a, b), e) = times(a, times(b, e)) /\ times(a, 1) = a
      BY <2>2, FieldAssumption
    <2> QED BY <1>4, <2>4, <2>5, <2>7, <2>8
  <1>9. L[q] = M[q]
    <2>1. IsFiniteSet(Coefficients)
      BY Sizes
    <2>2. q \in Family(Coefficients) /\ \A c \in Coefficients \ Coefficients : q[c] = 0
      BY <1>2
    <2>3. Coefficients \in SUBSET Coefficients
      OBVIOUS
    <2> QED BY <1>4, <1>6, <1>8, <2>1, <2>2, <2>3, LinearAgree
  <1>10. Conv(Z(p), q, Delta) = times(k, V[q])
    BY <1>4, <1>7, <1>9
  <1>11. V[q] \in Symbols
    BY <1>2, <1>5 DEF Linear
  <1>12. times(k, 0) = 0
    BY <1>3, FieldLaws
  <1>13. Conv(Z(p), q, Delta) = 0 <=> V[q] = 0
    BY <1>3, <1>10, <1>11, <1>12, NoZeroDivisors
  <1> QED BY <1>5, <1>13 DEF Roots, y

-----------------------------------------------------------------------------
(* The error evaluator and the derivative of the locator.                  *)

\* What error_evaluator computes: the product modulo x^(2 Delta).
LEMMA EvaluatorIs ==
    ASSUME NEW ss \in Words, NEW q \in Terms
    PROVE  error_evaluator(ss, q) = [n \in Syndromes |-> Conv(ss, q, n)]
  <1>1. ASSUME NEW n \in Syndromes
        PROVE  FoldFunctionOnSet(plus, 0,
                  [c \in 0..Delta |-> IF c <= n THEN times(ss[n - c], q[c]) ELSE 0], 0..Delta)
                 = Conv(ss, q, n)
    <2> DEFINE f == [c \in 0..Delta |-> IF c <= n THEN times(ss[n - c], q[c]) ELSE 0]
    <2>1. Coefficients = 0..Delta
      BY Sizes
    <2>2. ASSUME NEW c \in Coefficients
          PROVE  (IF c <= n THEN times(ss[n - c], q[c]) ELSE 0)
                   = (IF c <= n THEN times(q[c], ss[n - c]) ELSE 0)
      <3>1. c <= n => ss[n - c] \in Symbols
        BY ConvType
      <3>2. q[c] \in Symbols
        BY DEF Terms
      <3> QED BY <3>1, <3>2, FieldAssumption
    <2>3. f = ConvTerms(ss, q, n)
      BY <2>1, <2>2 DEF ConvTerms
    <2> HIDE DEF f
    <2>4. FoldFunctionOnSet(plus, 0, f, 0..Delta) = Conv(ss, q, n)
      BY <2>1, <2>3, Zenon DEF Conv, Total
    <2> QED BY <2>4 DEF f
  <1>2. 0..NK-1 = Syndromes
    BY Sizes
  <1> QED BY <1>1, <1>2 DEF error_evaluator

\* A polynomial of degree at most Delta among those of degree below 2 Delta.
Extended(f) == [n \in Syndromes |-> Coef(f, n)]

\* Its values are the same.
LEMMA ExtendedValue ==
    ASSUME NEW f \in Terms, NEW y \in Symbols
    PROVE  /\ Extended(f) \in Words
           /\ gf_poly_eval(Extended(f), NK - 1, y) = gf_poly_eval(f, Delta, y)
  <1> DEFINE D == Coefficients
             A == [g \in Family(D) |-> Extended(g)]
             V == EvalMap(NK - 1, y)
             L == EvalMap(Delta, y)
             M == After(D, V, A)
  <1>1. /\ Delta \in Nat /\ NK - 1 \in Nat /\ D = 0..Delta /\ Syndromes = 0..NK-1
        /\ D \subseteq Syndromes
    BY Sizes
  <1>2. Terms = Family(D) /\ Words = Family(Syndromes)
    BY DEF Terms, Words, Family
  <1>3. \A g \in Family(D) : Extended(g) \in Family(Syndromes)
    <2>1. \A g \in Family(D), n \in Syndromes : Coef(g, n) \in Symbols
      BY FieldLaws DEF Coef, Family
    <2> QED BY <2>1 DEF Extended, Family
  <1>4. \A g \in Family(D) : A[g] = Extended(g)
    OBVIOUS
  <1>5. A \in [Family(D) -> Family(Syndromes)]
    BY <1>3
  <1> HIDE DEF A
  <1>6. ASSUME NEW g \in Family(D), NEW h \in Family(D), NEW k \in Symbols
        PROVE  A[Combo(D, g, k, h)] = Combo(Syndromes, A[g], k, A[h])
    <2>1. Combo(D, g, k, h) \in Family(D)
      BY FamilyClosed
    <2>2. ASSUME NEW n \in Syndromes
          PROVE  Coef(Combo(D, g, k, h), n) = plus(Coef(g, n), times(k, Coef(h, n)))
      <3>1. CASE n \in D
        BY <3>1 DEF Coef, Combo
      <3>2. CASE n \notin D
        <4>1. times(k, 0) = 0 /\ plus(0, 0) = 0
          BY FieldLaws
        <4> QED BY <3>2, <4>1 DEF Coef
      <3> QED BY <3>1, <3>2
    <2>3. Extended(Combo(D, g, k, h)) = Combo(Syndromes, Extended(g), k, Extended(h))
      <3>1. Extended(Combo(D, g, k, h)) = [n \in Syndromes |-> plus(Coef(g, n), times(k, Coef(h, n)))]
        BY <2>2 DEF Extended
      <3>2. Combo(Syndromes, Extended(g), k, Extended(h))
              = [n \in Syndromes |-> plus(Coef(g, n), times(k, Coef(h, n)))]
        BY DEF Combo, Extended
      <3> QED BY <3>1, <3>2
    <2> QED BY <1>4, <2>1, <2>3
  <1>7. Respects(D, Syndromes, A)
    BY <1>5, <1>6 DEF Respects
  <1>8. /\ Linear(Syndromes, V)
        /\ \A c \in Syndromes : V[Unit(Syndromes, c)] = Power(y, c)
        /\ \A g \in Family(Syndromes) : V[g] = gf_poly_eval(g, NK - 1, y)
    BY <1>1, EvalLinear
  <1>9. /\ Linear(D, L)
        /\ \A c \in D : L[Unit(D, c)] = Power(y, c)
        /\ \A g \in Family(D) : L[g] = gf_poly_eval(g, Delta, y)
    BY <1>1, EvalLinear
  <1> HIDE DEF V, L
  <1>10. Linear(D, M) /\ \A g \in Family(D) : M[g] = V[A[g]]
    BY <1>7, <1>8, LinearAfter
  <1> HIDE DEF M, D
  <1>11. ASSUME NEW c \in D PROVE L[Unit(D, c)] = M[Unit(D, c)]
    <2>1. Unit(D, c) \in Family(D)
      BY FamilyClosed
    <2>2. Extended(Unit(D, c)) = Unit(Syndromes, c)
      <3>1. \A n \in Syndromes : Coef(Unit(D, c), n) = IF n = c THEN 1 ELSE 0
        BY DEF Coef, Unit, D
      <3> QED BY <3>1 DEF Extended, Unit
    <2>3. c \in Syndromes
      BY <1>1
    <2> QED BY <1>4, <1>8, <1>9, <1>10, <2>1, <2>2, <2>3
  <1>12. L[f] = M[f]
    <2>1. IsFiniteSet(D)
      BY Sizes DEF D
    <2>2. f \in Family(D) /\ (\A c \in D \ D : f[c] = 0) /\ D \in SUBSET D
      BY <1>2
    <2> QED BY <1>9, <1>10, <1>11, <2>1, <2>2, LinearAgree
  <1> QED BY <1>2, <1>3, <1>4, <1>8, <1>9, <1>10, <1>12

\* The derivative of (y + x) f, up to terms that are 0 at y.
Paired(y, f) ==
    [c \in Coefficients |->
        IF c % 2 = 0 /\ c < Delta THEN plus(f[c], times(y, f[c + 1])) ELSE 0]

\* Its value at y is f's: every odd term is added to the even one before it.
LEMMA PairedValue ==
    ASSUME NEW y \in Symbols, NEW f \in Terms, f[Delta] = 0
    PROVE  gf_poly_eval(Paired(y, f), Delta, y) = gf_poly_eval(f, Delta, y)
  <1> DEFINE D == Coefficients
             A == [g \in Family(D) |-> Paired(y, g)]
             L == EvalMap(Delta, y)
             M == After(D, L, A)
             T == D \ {Delta}
  <1>1. Delta \in Nat /\ D = 0..Delta
    BY Sizes
  <1>2. Terms = Family(D)
    BY DEF Terms, Family
  <1>3. \A c \in D : c < Delta => c + 1 \in D
    BY <1>1
  <1>4. \A g \in Family(D) : Paired(y, g) \in Family(D)
    <2>1. ASSUME NEW g \in Family(D), NEW c \in D, c < Delta
          PROVE  plus(g[c], times(y, g[c + 1])) \in Symbols
      <3>1. g[c] \in Symbols /\ g[c + 1] \in Symbols
        BY <1>3, <2>1 DEF Family
      <3>2. times(y, g[c + 1]) \in Symbols
        BY <3>1, FieldLaws
      <3> QED BY <3>1, <3>2, FieldLaws
    <2> QED BY <2>1, FieldLaws DEF Paired, Family
  <1>5. \A g \in Family(D) : A[g] = Paired(y, g)
    OBVIOUS
  <1>6. A \in [Family(D) -> Family(D)]
    BY <1>4
  <1> HIDE DEF A
  <1>7. ASSUME NEW g \in Family(D), NEW h \in Family(D), NEW k \in Symbols
        PROVE  A[Combo(D, g, k, h)] = Combo(D, A[g], k, A[h])
    <2> DEFINE w == Combo(D, g, k, h)
    <2>1. w \in Family(D) /\ \A c \in D : w[c] = plus(g[c], times(k, h[c]))
      BY FamilyClosed DEF Combo
    <2> HIDE DEF w
    <2>2. ASSUME NEW c \in D
          PROVE  Paired(y, w)[c] = plus(Paired(y, g)[c], times(k, Paired(y, h)[c]))
      <3>1. CASE c % 2 = 0 /\ c < Delta
        <4> DEFINE a == g[c]
                   b == g[c + 1]
                   e == h[c]
                   z == h[c + 1]
        <4>1. c + 1 \in D
          BY <1>3, <3>1
        <4>2. a \in Symbols /\ b \in Symbols /\ e \in Symbols /\ z \in Symbols
          BY <4>1 DEF Family
        <4>3. Paired(y, g)[c] = plus(a, times(y, b)) /\ Paired(y, h)[c] = plus(e, times(y, z))
              /\ Paired(y, w)[c] = plus(w[c], times(y, w[c + 1]))
          BY <3>1 DEF Paired
        <4>4. w[c] = plus(a, times(k, e)) /\ w[c + 1] = plus(b, times(k, z))
          BY <2>1, <4>1
        <4> HIDE DEF a, b, e, z, D
        <4> DEFINE ke == times(k, e)
                   yb == times(y, b)
                   kz == times(k, z)
                   yz == times(y, z)
                   ykz == times(y, kz)
        <4>5. ke \in Symbols /\ yb \in Symbols /\ kz \in Symbols /\ yz \in Symbols
          BY <4>2, FieldLaws
        <4>6. ykz \in Symbols
          BY <4>5, FieldLaws
        <4>7. times(k, yz) = ykz
          <5>1. times(times(k, y), z) = times(k, times(y, z)) /\ times(times(y, k), z) = times(y, times(k, z))
                /\ times(k, y) = times(y, k)
            BY <4>2, FieldAssumption
          <5> QED BY <5>1
        <4>8. times(k, plus(e, yz)) = plus(ke, times(k, yz)) /\ times(y, plus(b, kz)) = plus(yb, ykz)
          BY <4>2, <4>5, FieldAssumption
        <4>9. Paired(y, w)[c] = plus(plus(a, ke), plus(yb, ykz))
          BY <4>3, <4>4, <4>8
        <4>10. plus(Paired(y, g)[c], times(k, Paired(y, h)[c])) = plus(plus(a, yb), plus(ke, ykz))
          BY <4>3, <4>7, <4>8
        <4> HIDE DEF ke, yb, kz, yz, ykz
        <4> QED BY <4>2, <4>5, <4>6, <4>9, <4>10, PlusSwaps
      <3>2. CASE ~(c % 2 = 0 /\ c < Delta)
        <4>1. Paired(y, g)[c] = 0 /\ Paired(y, h)[c] = 0 /\ Paired(y, w)[c] = 0
          BY <3>2 DEF Paired
        <4>2. times(k, 0) = 0 /\ plus(0, 0) = 0
          BY FieldLaws
        <4> QED BY <4>1, <4>2
      <3> QED BY <3>1, <3>2
    <2>3. Paired(y, w) = Combo(D, Paired(y, g), k, Paired(y, h))
      <3>1. Paired(y, w) = [c \in D |-> Paired(y, w)[c]]
        BY DEF Paired
      <3> QED BY <2>2, <3>1 DEF Combo
    <2> QED BY <1>5, <2>1, <2>3 DEF w
  <1>8. Respects(D, D, A)
    BY <1>6, <1>7 DEF Respects
  <1>9. /\ Linear(D, L)
        /\ \A c \in D : L[Unit(D, c)] = Power(y, c)
        /\ \A g \in Family(D) : L[g] = gf_poly_eval(g, Delta, y)
    BY <1>1, EvalLinear
  <1> HIDE DEF L
  <1>10. Linear(D, M) /\ \A g \in Family(D) : M[g] = L[A[g]]
    BY <1>8, <1>9, LinearAfter
  <1> HIDE DEF M
  <1>11. ASSUME NEW c \in T PROVE L[Unit(D, c)] = M[Unit(D, c)]
    <2> DEFINE u == Unit(D, c)
    <2>1. u \in Family(D) /\ \A e \in D : u[e] = IF e = c THEN 1 ELSE 0
      BY FamilyClosed DEF Unit
    <2>2. c \in Nat /\ c < Delta /\ c \in D
      BY <1>1
    <2> HIDE DEF u
    <2>3. \A e \in D : Paired(y, u)[e] = IF e % 2 = 0 /\ e < Delta THEN plus(u[e], times(y, u[e + 1])) ELSE 0
      BY DEF Paired
    <2>4. times(y, 0) = 0 /\ plus(1, 0) = 1 /\ plus(0, 0) = 0 /\ times(y, 1) = y /\ plus(0, y) = y
      BY FieldLaws, FieldAssumption
    <2>5. CASE c % 2 = 0
      <3>1. ASSUME NEW e \in D PROVE Paired(y, u)[e] = u[e]
        <4>1. CASE e = c
          <5>1. u[e + 1] = 0 /\ u[e] = 1
            BY <1>1, <2>1, <2>2, <4>1
          <5> QED BY <2>2, <2>3, <2>4, <2>5, <4>1, <5>1
        <4>2. CASE e # c
          <5>1. u[e] = 0
            BY <2>1, <4>2
          <5>2. (e % 2 = 0 /\ e < Delta) => u[e + 1] = 0
            <6>1. e % 2 = 0 => e + 1 # c
              BY <1>1, <2>2, <2>5
            <6> QED BY <1>3, <2>1, <6>1
          <5> QED BY <2>3, <2>4, <5>1, <5>2
        <4> QED BY <4>1, <4>2
      <3>2. Paired(y, u) = u
        <4>1. Paired(y, u) = [e \in D |-> Paired(y, u)[e]] /\ u = [e \in D |-> u[e]]
          BY <2>1 DEF Paired, Family
        <4> QED BY <3>1, <4>1
      <3> QED BY <1>5, <1>10, <2>1, <3>2 DEF u
    <2>6. CASE c % 2 # 0
      <3> DEFINE b == c - 1
                 v == Unit(D, b)
                 z == ZeroOn(D)
      <3>1. b \in Nat /\ b + 1 = c /\ b < Delta /\ b \in D /\ b % 2 = 0
        BY <1>1, <2>2, <2>6
      <3> HIDE DEF b
      <3>2. v \in Family(D) /\ z \in Family(D) /\ \A e \in D : v[e] = (IF e = b THEN 1 ELSE 0) /\ z[e] = 0
        BY FamilyClosed DEF Unit, ZeroOn
      <3> HIDE DEF v, z
      <3>3. ASSUME NEW e \in D PROVE Paired(y, u)[e] = plus(z[e], times(y, v[e]))
        <4>1. CASE e = b
          <5>1. u[e] = 0 /\ u[e + 1] = 1
            BY <2>1, <2>2, <3>1, <4>1
          <5> QED BY <2>3, <2>4, <3>1, <3>2, <4>1, <5>1
        <4>2. CASE e # b
          <5>1. (e % 2 = 0 /\ e < Delta) => (u[e] = 0 /\ u[e + 1] = 0)
            <6>1. e % 2 = 0 => e # c
              BY <2>6
            <6>2. e + 1 # c
              BY <1>1, <2>2, <3>1, <4>2
            <6> QED BY <1>3, <2>1, <6>1, <6>2
          <5> QED BY <2>3, <2>4, <3>2, <4>2, <5>1
        <4> QED BY <4>1, <4>2
      <3>4. Paired(y, u) = Combo(D, z, y, v)
        <4>1. Paired(y, u) = [e \in D |-> Paired(y, u)[e]]
          BY DEF Paired
        <4> QED BY <3>3, <4>1 DEF Combo
      <3>5. L[Combo(D, z, y, v)] = plus(L[z], times(y, L[v])) /\ L[v] \in Symbols
        BY <1>9, <3>2 DEF Linear
      <3>6. L[z] = 0
        BY <1>9, LinearAtZero DEF z
      <3>7. L[v] = Power(y, b)
        BY <1>9, <3>1 DEF v
      <3>8. L[u] = times(y, Power(y, b))
        <4>1. Power(y, b + 1) = times(y, Power(y, b))
          BY <3>1, PowerUnfolds
        <4> QED BY <1>9, <2>2, <3>1, <4>1 DEF u
      <3>9. plus(0, times(y, L[v])) = times(y, L[v])
        <4>1. times(y, L[v]) \in Symbols
          BY <3>5, FieldLaws
        <4> QED BY <4>1, FieldLaws
      <3>10. M[u] = L[Paired(y, u)]
        BY <1>5, <1>10, <2>1
      <3>11. L[u] = M[u]
        BY <3>4, <3>5, <3>6, <3>7, <3>8, <3>9, <3>10
      <3> QED BY <3>11 DEF u
    <2> QED BY <2>5, <2>6
  <1>12. L[f] = M[f]
    <2>1. IsFiniteSet(D)
      BY Sizes
    <2>2. f \in Family(D) /\ (\A c \in D \ T : f[c] = 0) /\ T \in SUBSET D
      BY <1>2
    <2> HIDE DEF D, T
    <2> QED BY <1>9, <1>10, <1>11, <2>1, <2>2, LinearAgree
  <1> QED BY <1>2, <1>4, <1>5, <1>9, <1>10, <1>12

-----------------------------------------------------------------------------
(* Error values.                                                           *)

\* At a root, the derivative of a register has the value of the quotient by its factor.
LEMMA DerivativeAtRoot ==
    ASSUME NEW p \in Positions, NEW q \in Terms, NEW L \in Nat, L < Delta, ZeroAbove(q, L + 1),
           p \in Roots(q)
    PROVE  gf_poly_eval(formal_derivative(q), Delta, InverseLocator(p))
             = gf_poly_eval(Quotient(p, q), Delta, InverseLocator(p))
  <1> DEFINE Q == Quotient(p, q)
             y == InverseLocator(p)
             u == ShiftUp(Q)
  <1>1. /\ Q \in Terms /\ Q[Delta] = 0
        /\ q = Combo(Coefficients, u, y, Q)
    BY Divides
  <1>2. y \in Symbols /\ Coefficients = 0..Delta /\ Delta \in Nat
    BY LocatorLaws, Sizes
  <1> HIDE DEF Q, y
  <1>3. ASSUME NEW c \in Coefficients, c < Delta
        PROVE  q[c + 1] = plus(Q[c], times(y, Q[c + 1]))
    <2>1. c + 1 \in Coefficients /\ c + 1 # 0 /\ (c + 1) - 1 = c
      BY <1>2, <1>3
    <2>2. u[c + 1] = Q[c]
      BY <2>1 DEF ShiftUp
    <2> HIDE DEF u
    <2>3. q[c + 1] = plus(u[c + 1], times(y, Q[c + 1]))
      BY <1>1, <2>1 DEF Combo
    <2> QED BY <2>2, <2>3
  <1>4. formal_derivative(q) = Paired(y, Q)
    BY <1>2, <1>3 DEF formal_derivative, Paired
  <1>5. gf_poly_eval(Paired(y, Q), Delta, y) = gf_poly_eval(Q, Delta, y)
    BY <1>1, <1>2, PairedValue
  <1> QED BY <1>4, <1>5 DEF Q, y

\* The evaluator of a single error of 1 at a root is the quotient by its factor.
LEMMA EvaluatorOfRoot ==
    ASSUME NEW p \in Positions, NEW q \in Terms, NEW L \in Nat, L < Delta, ZeroAbove(q, L + 1),
           p \in Roots(q)
    PROVE  error_evaluator(Z(p), q) = Extended(Quotient(p, q))
  <1>1. ASSUME NEW n \in Syndromes PROVE Conv(Z(p), q, n) = Coef(Quotient(p, q), n)
    <2>1. CASE n \in Coefficients
      BY <2>1 DEF Coef, Quotient
    <2>2. CASE n \notin Coefficients
      <3>1. L + 1 \in Nat /\ Delta \in Syndromes /\ L + 1 <= Delta /\ L + 1 <= n
        BY <2>2, Sizes
      <3>2. Conv(Z(p), q, Delta) = 0
        BY DEF Roots
      <3>3. Conv(Z(p), q, n) = 0
        BY <3>1, <3>2, Beyond
      <3> QED BY <2>2, <3>3 DEF Coef
    <2> QED BY <2>1, <2>2
  <1>2. error_evaluator(Z(p), q) = [n \in Syndromes |-> Conv(Z(p), q, n)]
    BY GeometricType, EvaluatorIs
  <1> QED BY <1>1, <1>2 DEF Extended

\* Picking one member is linear.
LEMMA LinearAt ==
    ASSUME NEW D, NEW r \in D
    PROVE  Linear(D, [f \in Family(D) |-> f[r]])
  <1> DEFINE N == [f \in Family(D) |-> f[r]]
  <1>1. N \in [Family(D) -> Symbols]
    BY DEF Family
  <1>2. ASSUME NEW f \in Family(D), NEW g \in Family(D), NEW k \in Symbols
        PROVE  N[Combo(D, f, k, g)] = plus(N[f], times(k, N[g]))
    <2>1. Combo(D, f, k, g) \in Family(D)
      BY FamilyClosed
    <2>2. Combo(D, f, k, g)[r] = plus(f[r], times(k, g[r]))
      BY DEF Combo
    <2> QED BY <2>1, <2>2
  <1> HIDE DEF N
  <1>3. Linear(D, N)
    BY <1>1, <1>2 DEF Linear
  <1> QED BY <1>3 DEF N

\* Evaluating the evaluator of a word's syndromes at a fixed place.
EvaluatorAt(q, y) == [w \in Family(Positions) |-> gf_poly_eval(error_evaluator(syndromes(w), q), NK - 1, y)]

\* It is linear in the word.
LEMMA EvaluatorAtLinear ==
    ASSUME NEW q \in Terms, NEW y \in Symbols
    PROVE  /\ Linear(Positions, EvaluatorAt(q, y))
           /\ \A w \in Family(Positions) : EvaluatorAt(q, y)[w]
                 = gf_poly_eval(error_evaluator(syndromes(w), q), NK - 1, y)
           /\ \A p \in Positions : EvaluatorAt(q, y)[Unit(Positions, p)]
                 = gf_poly_eval(error_evaluator(Z(p), q), NK - 1, y)
  <1> DEFINE A == [w \in Family(Positions) |-> error_evaluator(syndromes(w), q)]
             V == EvalMap(NK - 1, y)
             M == After(Positions, V, A)
  <1>1. NK - 1 \in Nat /\ Syndromes = 0..NK-1
    BY Sizes
  <1>2. \A w \in Family(Positions) : A[w] = error_evaluator(syndromes(w), q)
    OBVIOUS
  <1>3. \A w \in Family(Positions) :
          error_evaluator(syndromes(w), q) = [n \in Syndromes |-> Conv(syndromes(w), q, n)]
    BY SyndromesLinear, EvaluatorIs
  <1>4. ASSUME NEW w \in Family(Positions) PROVE error_evaluator(syndromes(w), q) \in Family(Syndromes)
    <2>1. \A n \in Syndromes : Conv(syndromes(w), q, n) \in Symbols
      BY SyndromesLinear, ConvType
    <2> QED BY <1>3, <2>1 DEF Family
  <1>5. A \in [Family(Positions) -> Family(Syndromes)]
    BY <1>4
  <1> HIDE DEF A
  <1>6. ASSUME NEW f \in Family(Positions), NEW g \in Family(Positions), NEW k \in Symbols
        PROVE  A[Combo(Positions, f, k, g)] = Combo(Syndromes, A[f], k, A[g])
    <2> DEFINE h == Combo(Positions, f, k, g)
    <2>1. h \in Family(Positions)
      BY FamilyClosed
    <2>2. ASSUME NEW n \in Syndromes
          PROVE  Conv(syndromes(h), q, n) = plus(Conv(syndromes(f), q, n), times(k, Conv(syndromes(g), q, n)))
      <3>1. Linear(Positions, WordConv(q, n))
            /\ \A w \in Family(Positions) : WordConv(q, n)[w] = Conv(syndromes(w), q, n)
        BY WordConvLinear
      <3>2. WordConv(q, n)[h] = plus(WordConv(q, n)[f], times(k, WordConv(q, n)[g]))
        BY <3>1 DEF Linear
      <3> QED BY <2>1, <3>1, <3>2
    <2> HIDE DEF h
    <2>3. A[h] = [n \in Syndromes |-> Conv(syndromes(h), q, n)]
          /\ A[f] = [n \in Syndromes |-> Conv(syndromes(f), q, n)]
          /\ A[g] = [n \in Syndromes |-> Conv(syndromes(g), q, n)]
      BY <1>2, <1>3, <2>1
    <2>4. A[h] = Combo(Syndromes, A[f], k, A[g])
      BY <2>2, <2>3 DEF Combo
    <2> QED BY <2>4 DEF h
  <1>7. Respects(Positions, Syndromes, A)
    BY <1>5, <1>6 DEF Respects
  <1>8. Linear(Syndromes, V) /\ \A g \in Family(Syndromes) : V[g] = gf_poly_eval(g, NK - 1, y)
    BY <1>1, EvalLinear
  <1> HIDE DEF V
  <1>9. Linear(Positions, M) /\ \A w \in Family(Positions) : M[w] = V[A[w]]
    BY <1>7, <1>8, LinearAfter
  <1>10. M = EvaluatorAt(q, y)
    <2>1. \A w \in Family(Positions) :
             V[A[w]] = gf_poly_eval(error_evaluator(syndromes(w), q), NK - 1, y)
      BY <1>2, <1>4, <1>8
    <2> QED BY <2>1 DEF EvaluatorAt, After
  <1>11. \A p \in Positions : EvaluatorAt(q, y)[Unit(Positions, p)]
                 = gf_poly_eval(error_evaluator(Z(p), q), NK - 1, y)
    <2>1. \A p \in Positions : Unit(Positions, p) \in Family(Positions)
      BY FamilyClosed
    <2>2. \A p \in Positions : syndromes(Unit(Positions, p)) = Z(p)
      BY SyndromesLinear
    <2> QED BY <2>1, <2>2 DEF EvaluatorAt
  <1>12. \A w \in Family(Positions) : EvaluatorAt(q, y)[w]
                 = gf_poly_eval(error_evaluator(syndromes(w), q), NK - 1, y)
    BY DEF EvaluatorAt
  <1> QED BY <1>9, <1>10, <1>11, <1>12

\* Forney's formula: for a word whose errors are all roots of the register, the
\* evaluator at a root is the error there times the derivative.
LEMMA ForneyHolds ==
    ASSUME NEW q \in Terms, NEW L \in Nat, L < Delta, ZeroAbove(q, L + 1),
           NEW e \in Family(Positions), Support(e) \subseteq Roots(q), NEW r \in Roots(q)
    PROVE  gf_poly_eval(error_evaluator(syndromes(e), q), NK - 1, InverseLocator(r))
             = times(gf_poly_eval(formal_derivative(q), Delta, InverseLocator(r)), e[r])
  <1> DEFINE y == InverseLocator(r)
             a == gf_poly_eval(formal_derivative(q), Delta, y)
             E == EvaluatorAt(q, y)
             I == [w \in Family(Positions) |-> w[r]]
             M == [w \in Family(Positions) |-> times(a, I[w])]
  <1>1. r \in Positions /\ Roots(q) \in SUBSET Positions
    BY DEF Roots
  <1>2. y \in Symbols
    BY <1>1, LocatorLaws
  <1>3. Quotient(r, q) \in Terms /\ a = gf_poly_eval(Quotient(r, q), Delta, y)
    BY <1>1, Divides, DerivativeAtRoot
  <1>4. a \in Symbols
    <2>1. Delta \in Nat /\ Terms = Family(0..Delta)
      BY Sizes DEF Terms, Family
    <2>2. Linear(0..Delta, EvalMap(Delta, y))
          /\ EvalMap(Delta, y)[Quotient(r, q)] = gf_poly_eval(Quotient(r, q), Delta, y)
      BY <1>2, <1>3, <2>1, EvalLinear
    <2>3. EvalMap(Delta, y)[Quotient(r, q)] \in Symbols
      BY <1>3, <2>1, <2>2 DEF Linear
    <2> QED BY <1>3, <2>2, <2>3
  <1>5. \A p \in Positions : E[Unit(Positions, p)] = gf_poly_eval(error_evaluator(Z(p), q), NK - 1, y)
    BY <1>2, EvaluatorAtLinear
  <1>6. Linear(Positions, E)
        /\ \A w \in Family(Positions) : E[w] = gf_poly_eval(error_evaluator(syndromes(w), q), NK - 1, y)
    BY <1>2, EvaluatorAtLinear
  <1>7. Linear(Positions, I)
    BY <1>1, LinearAt
  <1>8. \A w \in Family(Positions) : I[w] = w[r]
    OBVIOUS
  <1> HIDE DEF a, E, I
  <1>9. Linear(Positions, M) /\ \A w \in Family(Positions) : M[w] = times(a, w[r])
    <2>1. Linear(Positions, M)
      BY <1>4, <1>7, LinearTimes
    <2> QED BY <1>8, <2>1
  <1> HIDE DEF M
  <1>10. ASSUME NEW p \in Roots(q) PROVE E[Unit(Positions, p)] = M[Unit(Positions, p)]
    <2>1. p \in Positions /\ Quotient(p, q) \in Terms
      BY <1>1, Divides
    <2>2. error_evaluator(Z(p), q) = Extended(Quotient(p, q))
      BY <2>1, EvaluatorOfRoot
    <2>3. gf_poly_eval(Extended(Quotient(p, q)), NK - 1, y) = gf_poly_eval(Quotient(p, q), Delta, y)
      BY <1>2, <2>1, ExtendedValue
    <2>4. E[Unit(Positions, p)] = gf_poly_eval(Quotient(p, q), Delta, y)
      BY <1>5, <2>1, <2>2, <2>3
    <2>5. M[Unit(Positions, p)] = times(a, IF r = p THEN 1 ELSE 0)
      <3>1. Unit(Positions, p) \in Family(Positions) /\ Unit(Positions, p)[r] = IF r = p THEN 1 ELSE 0
        BY <1>1, FamilyClosed DEF Unit
      <3> QED BY <1>9, <3>1
    <2>6. CASE p = r
      <3>1. times(a, 1) = a
        BY <1>4, FieldAssumption
      <3> QED BY <1>3, <2>4, <2>5, <2>6, <3>1
    <2>7. CASE p # r
      <3>1. r \in Roots(Quotient(p, q))
        BY <2>1, <2>7, RootsOfQuotient
      <3>2. gf_poly_eval(Quotient(p, q), Delta, y) = 0
        BY <1>1, <2>1, <3>1, RootIsKilled
      <3>3. times(a, 0) = 0
        BY <1>4, FieldLaws
      <3> QED BY <2>4, <2>5, <2>7, <3>2, <3>3
    <2> QED BY <2>6, <2>7
  <1>11. E[e] = M[e]
    <2>1. IsFiniteSet(Positions)
      BY Sizes
    <2>2. \A c \in Positions \ Roots(q) : e[c] = 0
      BY DEF Support
    <2> HIDE DEF y
    <2> QED BY <1>1, <1>6, <1>9, <1>10, <2>1, <2>2, LinearAgree
  <1> QED BY <1>6, <1>9, <1>11 DEF a, y

\* When a register of length L has L roots, its derivative is not 0 at any of them.
LEMMA RootsAreSimple ==
    ASSUME NEW q \in Terms, NEW L \in Nat, L < Delta, ZeroAbove(q, L + 1),
           Cardinality(Roots(q)) = L + 1, q[0] # 0, NEW r \in Roots(q)
    PROVE  /\ gf_poly_eval(formal_derivative(q), Delta, InverseLocator(r)) \in Symbols
           /\ gf_poly_eval(formal_derivative(q), Delta, InverseLocator(r)) # 0
  <1> DEFINE y == InverseLocator(r)
             Q == Quotient(r, q)
             a == gf_poly_eval(Q, Delta, y)
  <1>1. r \in Positions /\ 0 \in Coefficients /\ Delta \in Nat
    BY Sizes DEF Roots
  <1>2. X(r) \in Symbols /\ X(r) # 0 /\ y \in Symbols /\ q[0] \in Symbols
    BY <1>1, LocatorLaws DEF Terms
  <1>3. Q \in Terms /\ ZeroAbove(Q, L) /\ Q[0] = times(X(r), q[0])
        /\ a = gf_poly_eval(formal_derivative(q), Delta, y)
    BY <1>1, Divides, DerivativeAtRoot
  <1>4. Q[0] # 0
    BY <1>2, <1>3, NoZeroDivisors
  <1> HIDE DEF Q
  <1>5. a \in Symbols
    <2>1. Terms = Family(0..Delta)
      BY Sizes DEF Terms, Family
    <2>2. Linear(0..Delta, EvalMap(Delta, y)) /\ EvalMap(Delta, y)[Q] = a
      BY <1>1, <1>2, <1>3, <2>1, EvalLinear
    <2>3. EvalMap(Delta, y)[Q] \in Symbols
      BY <1>3, <2>1, <2>2 DEF Linear
    <2> QED BY <2>2, <2>3
  <1>6. a # 0
    <2> SUFFICES ASSUME a = 0 PROVE FALSE
      OBVIOUS
    <2>1. r \in Roots(Q)
      BY <1>1, <1>3, RootIsKilled
    <2>2. Roots(q) \ {r} \subseteq Roots(Q)
      BY <1>1, RootsOfQuotient DEF Q
    <2>3. Roots(q) \subseteq Roots(Q)
      BY <2>1, <2>2
    <2>4. IsFiniteSet(Roots(Q)) /\ Cardinality(Roots(Q)) \in Nat /\ Cardinality(Roots(Q)) <= L
      BY <1>1, <1>3, <1>4, RootCount
    <2>5. Cardinality(Roots(q)) <= Cardinality(Roots(Q))
      BY <2>3, <2>4, FS_Subset
    <2> QED BY <2>4, <2>5
  <1> QED BY <1>3, <1>5, <1>6

\* The error value the scan computes at a root.
ErrorValue(ss, q, p) ==
    times(gf_poly_eval(error_evaluator(ss, q), NK - 1, InverseLocator(p)),
          inverse(gf_poly_eval(formal_derivative(q), Delta, InverseLocator(p))))

\* Values of polynomials are symbols.
LEMMA ValueType ==
    ASSUME NEW y \in Symbols
    PROVE  /\ \A f \in Terms : gf_poly_eval(f, Delta, y) \in Symbols
           /\ \A f \in Words : gf_poly_eval(f, NK - 1, y) \in Symbols
           /\ \A f \in Family(Positions) : gf_poly_eval(f, N1 - 1, y) \in Symbols
  <1>1. ASSUME NEW n \in Nat, NEW f \in Family(0..n) PROVE gf_poly_eval(f, n, y) \in Symbols
    <2>1. Linear(0..n, EvalMap(n, y)) /\ EvalMap(n, y)[f] = gf_poly_eval(f, n, y)
      BY EvalLinear
    <2>2. EvalMap(n, y)[f] \in Symbols
      BY <2>1 DEF Linear
    <2> QED BY <2>1, <2>2
  <1>2. Delta \in Nat /\ NK - 1 \in Nat /\ N1 - 1 \in Nat
        /\ Terms = Family(0..Delta) /\ Words = Family(0..NK-1) /\ Positions = 0..N1-1
    BY Sizes DEF Terms, Words, Family
  <1> QED BY <1>1, <1>2

\* The derivative and the evaluator are polynomials over the field.
LEMMA EvaluatorType ==
    ASSUME NEW q \in Terms
    PROVE  /\ formal_derivative(q) \in Terms
           /\ \A ss \in Words : error_evaluator(ss, q) \in Words
  <1>1. formal_derivative(q) \in Terms
    <2>1. \A c \in Coefficients : c < Delta => c + 1 \in Coefficients
      BY Sizes
    <2>2. \A c \in Coefficients : (IF c % 2 = 0 /\ c < Delta THEN q[c + 1] ELSE 0) \in Symbols
      BY <2>1, FieldLaws DEF Terms
    <2>3. Coefficients = 0..Delta
      BY Sizes
    <2> QED BY <2>2, <2>3 DEF formal_derivative, Terms
  <1>2. ASSUME NEW ss \in Words PROVE error_evaluator(ss, q) \in Words
    <2>1. \A n \in Syndromes : Conv(ss, q, n) \in Symbols
      BY ConvType
    <2>2. error_evaluator(ss, q) = [n \in Syndromes |-> Conv(ss, q, n)]
      BY EvaluatorIs
    <2> QED BY <2>1, <2>2 DEF Words
  <1> QED BY <1>1, <1>2

\* For a word whose errors are all roots of a register of length L with L roots, it is
\* the error there.
LEMMA ErrorValueIs ==
    ASSUME NEW q \in Terms, NEW L \in Nat, L <= Delta, ZeroAbove(q, L), q[0] = 1,
           Cardinality(Roots(q)) = L,
           NEW e \in Family(Positions), Support(e) \subseteq Roots(q), NEW r \in Roots(q)
    PROVE  ErrorValue(syndromes(e), q, r) = e[r]
  <1> DEFINE a == gf_poly_eval(formal_derivative(q), Delta, InverseLocator(r))
             k == L - 1
  <1>1. r \in Positions /\ Delta \in Nat /\ IsFiniteSet(Roots(q))
    <2>1. Roots(q) \in SUBSET Positions
      BY DEF Roots
    <2>2. IsFiniteSet(Roots(q))
      BY <2>1, Sizes, FS_Subset
    <2> QED BY <2>1, <2>2, Sizes
  <1>2. k \in Nat /\ k + 1 = L /\ k < Delta
    <2>1. L # 0
      BY <1>1, FS_EmptySet
    <2> QED BY <1>1, <2>1
  <1> HIDE DEF k
  <1>3. a \in Symbols /\ a # 0
    BY <1>2, RootsAreSimple
  <1>4. gf_poly_eval(error_evaluator(syndromes(e), q), NK - 1, InverseLocator(r)) = times(a, e[r])
    BY <1>2, ForneyHolds
  <1>5. e[r] \in Symbols
    BY <1>1 DEF Family
  <1> HIDE DEF a
  <1>6. inverse(a) \in Symbols /\ times(a, inverse(a)) = 1
    BY <1>3, BmAssumption, FieldAssumption
  <1>7. times(times(a, e[r]), inverse(a)) = e[r]
    <2>1. times(a, e[r]) = times(e[r], a)
      BY <1>3, <1>5, FieldAssumption
    <2>2. times(times(e[r], a), inverse(a)) = times(e[r], times(a, inverse(a))) /\ times(e[r], 1) = e[r]
      BY <1>3, <1>5, <1>6, FieldAssumption
    <2> QED BY <1>6, <2>1, <2>2
  <1> QED BY <1>4, <1>7 DEF ErrorValue, a

-----------------------------------------------------------------------------
(* What a shortest register says of the errors.                            *)

\* For a word with few errors the register is no longer than their number, ...
LEMMA ShortEnough ==
    ASSUME NEW e \in Family(Positions), Cardinality(Support(e)) <= Delta,
           NEW q, NEW L \in Nat, Locates(syndromes(e), q, L, 2*Delta)
    PROVE  L <= Cardinality(Support(e))
  <1> DEFINE n == Cardinality(Support(e))
  <1>1. Support(e) \in SUBSET Positions /\ n \in Nat
    <2>1. Support(e) \in SUBSET Positions
      BY DEF Support
    <2> QED BY <2>1, Sizes, FS_Subset, FS_CardinalityType
  <1>2. PICK u : LocatesSet(u, Support(e))
    BY <1>1, LocatorExists
  <1>3. /\ u \in Terms /\ u[0] = 1 /\ ZeroAbove(u, n)
        /\ \A t \in Syndromes, p \in Support(e) : n <= t => Conv(Z(p), u, t) = 0
    BY <1>2 DEF LocatesSet
  <1>4. n \in Coefficients /\ \A t \in n..2*Delta-1 : t \in Syndromes /\ n <= t
    BY <1>1, Sizes
  <1> HIDE DEF n
  <1>5. \A t \in n..2*Delta-1 : Conv(syndromes(e), u, t) = 0
    BY <1>3, <1>4, KillsWord
  <1>6. ~(n < L)
    BY <1>3, <1>4, <1>5 DEF Locates, NoShorter
  <1> QED BY <1>1, <1>6 DEF n

\* ... and its roots are exactly the errors' positions.
LEMMA ErrorsFound ==
    ASSUME NEW e \in Family(Positions), Cardinality(Support(e)) <= Delta,
           NEW q, NEW L \in Nat, Locates(syndromes(e), q, L, 2*Delta)
    PROVE  L = Cardinality(Support(e)) /\ Roots(q) = Support(e)
  <1> DEFINE n == Cardinality(Support(e))
  <1>1. Support(e) \in SUBSET Positions /\ IsFiniteSet(Support(e)) /\ n \in Nat
    <2>1. Support(e) \in SUBSET Positions
      BY DEF Support
    <2> QED BY <2>1, Sizes, FS_Subset, FS_CardinalityType
  <1>2. L <= n
    BY ShortEnough
  <1>3. /\ Delta \in Syndromes /\ Delta \in Nat /\ L <= Delta /\ L + n <= NK /\ 0 \in Coefficients
        /\ \A t \in Syndromes : L <= t => t \in L..2*Delta-1
    BY <1>1, <1>2, Sizes
  <1>4. /\ q \in Terms /\ q[0] = 1 /\ ZeroAbove(q, L)
        /\ \A t \in L..2*Delta-1 : Conv(syndromes(e), q, t) = 0
    BY <1>3 DEF Locates
  <1>5. \A p \in Support(e), t \in Syndromes : L <= t => Conv(Z(p), q, t) = 0
    <2>1. \A t \in Syndromes : (L <= t /\ t < L + n) => Conv(syndromes(e), q, t) = 0
      BY <1>3, <1>4
    <2> QED BY <1>3, <1>4, <2>1, KillsErrors
  <1>6. Support(e) \subseteq Roots(q)
    BY <1>1, <1>3, <1>5 DEF Roots
  <1>7. IsFiniteSet(Roots(q)) /\ Cardinality(Roots(q)) \in Nat /\ Cardinality(Roots(q)) <= L
    BY <1>3, <1>4, RootCount
  <1>8. n <= Cardinality(Roots(q)) /\ (n = Cardinality(Roots(q)) => Support(e) = Roots(q))
    BY <1>6, <1>7, FS_Subset
  <1> QED BY <1>1, <1>2, <1>7, <1>8

\* A sequence that a register starting with 1 turns into zeros is 0.
LEMMA Deconvolves ==
    ASSUME NEW g \in Words, NEW q \in Terms, q[0] = 1,
           \A t \in Syndromes : Conv(g, q, t) = 0
    PROVE  \A t \in Syndromes : g[t] = 0
  <1> DEFINE G == {n \in Nat : \A t \in Syndromes : t < n => g[t] = 0}
  <1>1. 0 \in G
    BY Sizes
  <1>2. ASSUME NEW n \in Nat, n \in G PROVE n + 1 \in G
    <2> SUFFICES ASSUME n \in Syndromes PROVE g[n] = 0
      BY <1>2, Sizes
    <2> DEFINE f == ConvTerms(g, q, n)
    <2>1. f \in Terms /\ 0 \in Coefficients /\ 0 <= n /\ n - 0 = n
      BY ConvType, Sizes
    <2>2. \A c \in Coefficients : f[c] = IF c <= n THEN times(q[c], g[n - c]) ELSE 0
      BY Zenon DEF ConvTerms
    <2> HIDE DEF f
    <2>3. ASSUME NEW c \in Coefficients \ {0} PROVE f[c] = 0
      <3>1. CASE c <= n
        <4>1. n - c \in Syndromes /\ n - c < n
          BY <3>1, Sizes
        <4>2. g[n - c] = 0
          BY <1>2, <4>1
        <4>3. times(q[c], 0) = 0
          BY FieldLaws DEF Terms
        <4> QED BY <2>2, <3>1, <4>2, <4>3
      <3>2. CASE ~(c <= n)
        BY <2>2, <3>2
      <3> QED BY <3>1, <3>2
    <2>4. Total(f) = f[0]
      BY <2>1, <2>3, SumOfOne
    <2>5. Conv(g, q, n) = f[0]
      BY <2>4 DEF Conv, f
    <2>6. g[n] \in Symbols
      BY DEF Words
    <2>7. f[0] = g[n]
      BY <2>1, <2>2, <2>6, FieldLaws
    <2> QED BY <2>5, <2>7
  <1> HIDE DEF G
  <1>3. Nat \subseteq G
    BY <1>1, <1>2, NatSetInduction
  <1> QED BY <1>3, Sizes DEF G

\* The correction the scan makes.
Corrects(f, ss, q) ==
    /\ f \in Family(Positions)
    /\ \A p \in Positions : f[p] = IF p \in Roots(q) THEN ErrorValue(ss, q, p) ELSE 0

\* When a register of length L at most Delta reproduces the syndromes and has L roots,
\* the correction has these syndromes, whatever word they came from.
LEMMA CorrectionExplains ==
    ASSUME NEW ss \in Words, NEW q \in Terms, NEW L \in Nat, L <= Delta, ZeroAbove(q, L), q[0] = 1,
           \A t \in L..2*Delta-1 : Conv(ss, q, t) = 0,
           Cardinality(Roots(q)) = L, NEW f, Corrects(f, ss, q)
    PROVE  syndromes(f) = ss
  <1> DEFINE sf == syndromes(f)
             g == Combo(Syndromes, ss, 1, sf)
             R == [c \in Coefficients |-> Conv(g, q, c)]
  <1>1. f \in Family(Positions) /\ Support(f) \subseteq Roots(q)
        /\ \A p \in Roots(q) : f[p] = ErrorValue(ss, q, p)
    BY DEF Corrects, Support, Roots
  <1>2. sf \in Words /\ 1 \in Symbols
    BY <1>1, SyndromesLinear, FieldLaws
  <1> HIDE DEF sf
  <1>3. g \in Words /\ \A t \in Syndromes : Conv(g, q, t) = plus(Conv(ss, q, t), times(1, Conv(sf, q, t)))
    <2>1. 0 \in Syndromes
      BY Sizes
    <2> QED BY <1>2, <2>1, ConvCombo
  <1>4. \A t \in Syndromes : Conv(g, q, t) \in Symbols
    BY <1>3, ConvType
  <1>5. ASSUME NEW t \in Syndromes, L <= t PROVE Conv(g, q, t) = 0
    <2>1. t \in L..2*Delta-1
      BY <1>5, Sizes
    <2>2. Conv(ss, q, t) = 0
      BY <2>1
    <2>3. \A p \in Support(f) : Conv(Z(p), q, t) = 0
      <3>1. Delta \in Syndromes
        BY Sizes
      <3>2. \A p \in Support(f) : p \in Positions /\ Conv(Z(p), q, Delta) = 0
        BY <1>1 DEF Roots
      <3> QED BY <1>5, <3>1, <3>2, Beyond
    <2>4. Conv(sf, q, t) = 0
      BY <1>1, <2>3, KillsWord DEF sf
    <2>5. times(1, 0) = 0 /\ plus(0, 0) = 0
      BY FieldLaws
    <2> QED BY <1>3, <2>2, <2>4, <2>5
  <1>6. R \in Terms /\ \A c \in Coefficients : R[c] = Conv(g, q, c)
    <2>1. Coefficients \subseteq Syndromes
      BY Sizes
    <2> QED BY <1>4, <2>1 DEF Terms
  <1> HIDE DEF R
  <1>7. \A t \in Syndromes : Conv(g, q, t) = 0
    <2>1. CASE L = 0
      BY <1>5, <2>1, Sizes
    <2>2. CASE L # 0
      <3> DEFINE k == L - 1
      <3>1. k \in Nat /\ k + 1 = L /\ k <= Delta /\ k < Delta
        BY <2>2, Sizes
      <3> HIDE DEF k
      <3>2. ZeroAbove(R, k)
        <4>1. \A c \in Coefficients : c > k => c \in Syndromes /\ L <= c
          BY <3>1, Sizes
        <4> QED BY <1>5, <1>6, <4>1 DEF ZeroAbove
      <3>3. Extended(R) = error_evaluator(g, q)
        <4>1. ASSUME NEW n \in Syndromes PROVE Coef(R, n) = Conv(g, q, n)
          <5>1. CASE n \in Coefficients
            BY <1>6, <5>1 DEF Coef
          <5>2. CASE n \notin Coefficients
            <6>1. L <= n
              BY <5>2, Sizes
            <6> QED BY <1>5, <5>2, <6>1 DEF Coef
          <5> QED BY <5>1, <5>2
        <4> HIDE DEF g
        <4>2. error_evaluator(g, q) = [n \in Syndromes |-> Conv(g, q, n)]
          BY <1>3, EvaluatorIs
        <4> QED BY <4>1, <4>2 DEF Extended
      <3>4. error_evaluator(g, q) = Combo(Syndromes, error_evaluator(ss, q), 1, error_evaluator(sf, q))
        <4> HIDE DEF g
        <4>1. /\ error_evaluator(g, q) = [n \in Syndromes |-> Conv(g, q, n)]
              /\ error_evaluator(ss, q) = [n \in Syndromes |-> Conv(ss, q, n)]
              /\ error_evaluator(sf, q) = [n \in Syndromes |-> Conv(sf, q, n)]
          BY <1>2, <1>3, EvaluatorIs
        <4> QED BY <1>3, <4>1 DEF Combo
      <3>5. ASSUME NEW r \in Roots(q) PROVE r \in Roots(R)
        <4> DEFINE y == InverseLocator(r)
                   V == EvalMap(NK - 1, y)
                   w == error_evaluator(ss, q)
                   v == error_evaluator(sf, q)
                   a == gf_poly_eval(formal_derivative(q), Delta, y)
                   b == gf_poly_eval(w, NK - 1, y)
        <4>1. r \in Positions
          BY DEF Roots
        <4>2. y \in Symbols /\ NK - 1 \in Nat /\ Words = Family(0..NK-1) /\ Syndromes = 0..NK-1
          BY <4>1, LocatorLaws, Sizes DEF Words, Family
        <4>3. w \in Words /\ v \in Words
          BY <1>2, EvaluatorType
        <4>4. a \in Symbols /\ a # 0
          BY <3>1, RootsAreSimple
        <4>5. b \in Symbols
          BY <4>2, <4>3, ValueType
        <4>6. gf_poly_eval(v, NK - 1, y) = times(a, f[r])
          BY <1>1, <3>1, ForneyHolds DEF sf
        <4>7. f[r] = times(b, inverse(a))
          BY <1>1 DEF ErrorValue
        <4> HIDE DEF y, w, v, a, b
        <4>8. inverse(a) \in Symbols /\ times(a, inverse(a)) = 1
          BY <4>4, BmAssumption, FieldAssumption
        <4>9. times(a, times(b, inverse(a))) = b
          <5>1. times(times(a, b), inverse(a)) = times(a, times(b, inverse(a)))
                /\ times(times(b, a), inverse(a)) = times(b, times(a, inverse(a)))
                /\ times(a, b) = times(b, a) /\ times(b, 1) = b
            BY <4>4, <4>5, <4>8, FieldAssumption
          <5> QED BY <4>8, <5>1
        <4>10. Linear(Syndromes, V) /\ \A h \in Words : V[h] = gf_poly_eval(h, NK - 1, y)
          BY <4>2, EvalLinear
        <4> HIDE DEF V
        <4>11. V[Combo(Syndromes, w, 1, v)] = plus(V[w], times(1, V[v]))
          <5>1. w \in Family(Syndromes) /\ v \in Family(Syndromes)
            BY <4>2, <4>3
          <5> QED BY <1>2, <4>10, <5>1 DEF Linear
        <4>12. V[w] = b /\ V[v] = b
          BY <4>3, <4>6, <4>7, <4>9, <4>10 DEF b
        <4>13. plus(b, times(1, b)) = 0
          BY <4>5, FieldLaws, FieldAssumption
        <4>14. V[Extended(R)] = 0
          BY <3>3, <3>4, <4>11, <4>12, <4>13 DEF w, v
        <4>15. Extended(R) \in Words /\ gf_poly_eval(Extended(R), NK - 1, y) = gf_poly_eval(R, Delta, y)
          BY <1>6, <4>2, ExtendedValue
        <4>16. gf_poly_eval(R, Delta, y) = 0
          BY <4>10, <4>14, <4>15
        <4> QED BY <1>6, <4>1, <4>16, RootIsKilled DEF y
      <3>6. ASSUME NEW b \in Coefficients, R[b] # 0 PROVE FALSE
        <4>1. IsFiniteSet(Roots(R)) /\ Cardinality(Roots(R)) \in Nat /\ Cardinality(Roots(R)) <= k
          BY <1>6, <3>1, <3>2, <3>6, RootCount
        <4>2. Roots(q) \subseteq Roots(R)
          BY <3>5
        <4>3. Cardinality(Roots(q)) <= Cardinality(Roots(R))
          BY <4>1, <4>2, FS_Subset
        <4> QED BY <3>1, <4>1, <4>3
      <3> QED
        <4>1. \A t \in Syndromes : t \in Coefficients \/ L <= t
          BY Sizes
        <4> QED BY <1>5, <1>6, <3>6, <4>1
    <2> QED BY <2>1, <2>2
  <1>8. \A t \in Syndromes : g[t] = 0
    BY <1>3, <1>7, Deconvolves
  <1>9. ASSUME NEW t \in Syndromes PROVE sf[t] = ss[t]
    <2>1. ss[t] \in Symbols /\ sf[t] \in Symbols
      BY <1>2 DEF Words
    <2>2. plus(ss[t], times(1, sf[t])) = 0
      BY <1>8 DEF Combo
    <2>3. plus(ss[t], sf[t]) = 0
      BY <2>1, <2>2, FieldLaws
    <2>4. plus(plus(ss[t], ss[t]), sf[t]) = plus(ss[t], plus(ss[t], sf[t])) /\ plus(ss[t], ss[t]) = 0
      BY <2>1, FieldAssumption
    <2>5. plus(0, sf[t]) = sf[t] /\ plus(ss[t], 0) = ss[t]
      BY <2>1, FieldLaws
    <2> QED BY <2>3, <2>4, <2>5
  <1>10. sf = ss
    BY <1>2, <1>9 DEF Words
  <1> QED BY <1>10 DEF sf

\* The three final checks agree, for any syndromes.
LEMMA CorrectionsAgree ==
    ASSUME NEW ss \in Words, NEW q, NEW L \in Nat, Locates(ss, q, L, 2*Delta),
           NEW f, Corrects(f, ss, q)
    PROVE  syndromes(f) = ss <=> (L <= Delta /\ Cardinality(Roots(q)) = L)
  <1>1. q \in Terms /\ q[0] = 1 /\ ZeroAbove(q, L) /\ f \in Family(Positions)
    BY DEF Locates, Corrects
  <1>2. ASSUME L <= Delta, Cardinality(Roots(q)) = L PROVE syndromes(f) = ss
    <2>1. \A t \in L..2*Delta-1 : Conv(ss, q, t) = 0
      BY <1>2 DEF Locates
    <2> QED BY <1>1, <1>2, <2>1, CorrectionExplains
  <1>3. ASSUME syndromes(f) = ss PROVE L <= Delta /\ Cardinality(Roots(q)) = L
    <2>1. Delta \in Nat /\ 0 \in Coefficients /\ ZeroAbove(q, Delta)
      BY Sizes DEF ZeroAbove
    <2>2. IsFiniteSet(Roots(q)) /\ Cardinality(Roots(q)) \in Nat /\ Cardinality(Roots(q)) <= Delta
      BY <1>1, <2>1, RootCount
    <2>3. Support(f) \subseteq Roots(q)
      BY DEF Support, Corrects
    <2>4. IsFiniteSet(Support(f)) /\ Cardinality(Support(f)) <= Cardinality(Roots(q))
      BY <2>2, <2>3, FS_Subset
    <2>5. Cardinality(Support(f)) <= Delta
      BY <2>1, <2>2, <2>4, FS_CardinalityType
    <2>6. L = Cardinality(Support(f)) /\ Roots(q) = Support(f)
      BY <1>1, <1>3, <2>5, ErrorsFound
    <2> QED BY <2>5, <2>6
  <1> QED BY <1>2, <1>3

-----------------------------------------------------------------------------
(* The generator polynomial.                                               *)

\* A polynomial of degree at most m times x^j, among those of degree at most n.
Placed(m, n, j, f) == [p \in 0..n |-> IF p - j \in 0..m THEN f[p - j] ELSE 0]

\* Its value, as long as nothing falls off.
LEMMA PlacedValue ==
    ASSUME NEW m \in Nat, NEW n \in Nat, NEW j \in Nat, NEW y \in Symbols, NEW f \in Family(0..m),
           \A c \in 0..m : c + j > n => f[c] = 0
    PROVE  /\ Placed(m, n, j, f) \in Family(0..n)
           /\ gf_poly_eval(Placed(m, n, j, f), n, y) = times(Power(y, j), gf_poly_eval(f, m, y))
  <1> DEFINE D == 0..m
             B == 0..n
             T == {c \in D : c + j <= n}
             k == Power(y, j)
             A == [g \in Family(D) |-> Placed(m, n, j, g)]
             V == EvalMap(n, y)
             L == EvalMap(m, y)
             M == After(D, V, A)
             N == [g \in Family(D) |-> times(k, L[g])]
  <1>1. k \in Symbols
    BY PowerUnfolds
  <1>2. \A g \in Family(D) : Placed(m, n, j, g) \in Family(B)
    <2>1. \A g \in Family(D), p \in B : (IF p - j \in D THEN g[p - j] ELSE 0) \in Symbols
      BY FieldLaws DEF Family
    <2> QED BY <2>1 DEF Placed, Family
  <1>3. (\A g \in Family(D) : A[g] = Placed(m, n, j, g)) /\ A \in [Family(D) -> Family(B)]
    BY <1>2
  <1> HIDE DEF A, k
  <1>4. ASSUME NEW g \in Family(D), NEW h \in Family(D), NEW a \in Symbols
        PROVE  A[Combo(D, g, a, h)] = Combo(B, A[g], a, A[h])
    <2> DEFINE w == Combo(D, g, a, h)
    <2>1. w \in Family(D) /\ \A c \in D : w[c] = plus(g[c], times(a, h[c]))
      BY FamilyClosed DEF Combo
    <2> HIDE DEF w
    <2>2. \A e \in Family(D), p \in B : Placed(m, n, j, e)[p] = IF p - j \in D THEN e[p - j] ELSE 0
      BY DEF Placed
    <2>3. times(a, 0) = 0 /\ plus(0, 0) = 0
      BY FieldLaws
    <2>4. \A p \in B : Placed(m, n, j, w)[p] = plus(Placed(m, n, j, g)[p], times(a, Placed(m, n, j, h)[p]))
      BY <2>1, <2>2, <2>3
    <2>5. Placed(m, n, j, w) = [p \in B |-> Placed(m, n, j, w)[p]]
      BY DEF Placed
    <2>6. Placed(m, n, j, w) = Combo(B, Placed(m, n, j, g), a, Placed(m, n, j, h))
      BY <2>4, <2>5 DEF Combo
    <2> QED BY <1>3, <2>1, <2>6 DEF w
  <1>5. Respects(D, B, A)
    BY <1>3, <1>4 DEF Respects
  <1>6. /\ Linear(B, V)
        /\ \A c \in B : V[Unit(B, c)] = Power(y, c)
        /\ \A g \in Family(B) : V[g] = gf_poly_eval(g, n, y)
    BY EvalLinear
  <1>7. /\ Linear(D, L)
        /\ \A c \in D : L[Unit(D, c)] = Power(y, c)
        /\ \A g \in Family(D) : L[g] = gf_poly_eval(g, m, y)
    BY EvalLinear
  <1> HIDE DEF V, L
  <1>8. Linear(D, M) /\ \A g \in Family(D) : M[g] = V[A[g]]
    BY <1>5, <1>6, LinearAfter
  <1>9. Linear(D, N) /\ \A g \in Family(D) : N[g] = times(k, L[g])
    <2>1. Linear(D, N)
      BY <1>1, <1>7, LinearTimes
    <2> QED BY <2>1
  <1> HIDE DEF M, N
  <1>10. ASSUME NEW c \in T PROVE M[Unit(D, c)] = N[Unit(D, c)]
    <2>1. c \in D /\ c \in Nat /\ c + j \in B /\ j + c = c + j
      OBVIOUS
    <2>2. Unit(D, c) \in Family(D)
      BY FamilyClosed
    <2>3. Placed(m, n, j, Unit(D, c)) = Unit(B, c + j)
      <3>1. \A p \in B : (IF p - j \in D THEN Unit(D, c)[p - j] ELSE 0) = IF p = c + j THEN 1 ELSE 0
        <4>1. \A p \in B : p - j = c <=> p = c + j
          BY <2>1
        <4>2. \A x \in D : Unit(D, c)[x] = IF x = c THEN 1 ELSE 0
          BY DEF Unit
        <4> QED BY <2>1, <4>1, <4>2
      <3> QED BY <3>1 DEF Placed, Unit
    <2>4. V[Unit(B, c + j)] = Power(y, j + c)
      BY <1>6, <2>1
    <2>5. Power(y, j + c) = times(k, Power(y, c))
      BY <2>1, PowerLaws DEF k
    <2>6. L[Unit(D, c)] = Power(y, c)
      BY <1>7, <2>1
    <2> HIDE DEF D, B
    <2> QED BY <1>3, <1>8, <1>9, <2>2, <2>3, <2>4, <2>5, <2>6
  <1>11. M[f] = N[f]
    <2>1. IsFiniteSet(D)
      BY FS_Interval
    <2>2. (\A c \in D \ T : f[c] = 0) /\ T \in SUBSET D
      OBVIOUS
    <2> HIDE DEF D, T
    <2>3. f \in Family(D)
      BY DEF D
    <2>4. Linear(D, M) /\ Linear(D, N)
      BY <1>8, <1>9
    <2>5. \A c \in T : M[Unit(D, c)] = N[Unit(D, c)]
      BY <1>10
    <2> QED BY <2>1, <2>2, <2>3, <2>4, <2>5, LinearAgree
  <1>12. V[A[f]] = gf_poly_eval(Placed(m, n, j, f), n, y)
    BY <1>2, <1>3, <1>6
  <1>13. M[f] = V[A[f]] /\ N[f] = times(k, gf_poly_eval(f, m, y))
    BY <1>7, <1>8, <1>9
  <1> QED BY <1>2, <1>11, <1>12, <1>13 DEF k

\* The polynomials of the generator's degree at most.
Generators == [0..NK -> Symbols]

\* One more root.
WithRoot(deg, h) ==
    [c \in 0..NK |->
        IF c > deg THEN h[c]
        ELSE plus(IF c = 0 THEN 0 ELSE h[c - 1], times(GF_EXP[deg], h[c]))]

\* The products of the first factors.
IsGenerated(g) ==
    /\ g \in [0..NK -> Generators]
    /\ g[0] = Unit(0..NK, 0)
    /\ \A deg \in 1..NK : g[deg] = WithRoot(deg, g[deg - 1])

\* They are what rs_generator computes,
LEMMA GeneratorIs ==
    ASSUME NEW g, IsGenerated(g)
    PROVE  rs_generator = g[NK]
  <1> DEFINE Step(h) == [deg \in 0..NK |->
                IF deg = 0 THEN [c \in 0..NK |-> IF c = 0 THEN 1 ELSE 0]
                ELSE [c \in 0..NK |->
                         IF c > deg THEN h[deg - 1][c]
                         ELSE plus(IF c = 0 THEN 0 ELSE h[deg - 1][c - 1], times(GF_EXP[deg], h[deg - 1][c]))]]
             A == CHOOSE h : h = Step(h)
  <1>1. rs_generator = A[NK]
    BY Zenon DEF rs_generator
  <1>2. g = Step(g)
    <2>1. g = [deg \in 0..NK |-> g[deg]]
      BY DEF IsGenerated
    <2>2. ASSUME NEW deg \in 0..NK PROVE g[deg] = Step(g)[deg]
      <3>1. CASE deg = 0
        BY <3>1 DEF IsGenerated, Unit
      <3>2. CASE deg # 0
        <4>1. deg \in 1..NK
          BY <3>2, Sizes
        <4>2. g[deg] = WithRoot(deg, g[deg - 1])
          BY <4>1 DEF IsGenerated
        <4> QED BY <3>2, <4>2 DEF WithRoot
      <3> QED BY <3>1, <3>2
    <2>3. Step(g) = [deg \in 0..NK |-> Step(g)[deg]]
      OBVIOUS
    <2> HIDE DEF Step
    <2> QED BY <2>1, <2>2, <2>3, Zenon
  <1>3. A = Step(A)
    <2> HIDE DEF Step
    <2> QED BY <1>2, Zenon
  <1> HIDE DEF A
  <1>4. A[0] = g[0]
    <2>1. 0 \in 0..NK
      BY Sizes
    <2>2. A[0] = [c \in 0..NK |-> IF c = 0 THEN 1 ELSE 0]
      BY <1>3, <2>1
    <2> QED BY <2>2 DEF IsGenerated, Unit
  <1>5. ASSUME NEW deg \in 1..NK PROVE A[deg] = WithRoot(deg, A[deg - 1])
    <2>1. deg \in 0..NK /\ deg # 0
      BY Sizes
    <2> QED BY <1>3, <2>1 DEF WithRoot
  <1> HIDE DEF Step
  <1> DEFINE Same == {n \in Nat : n <= NK => A[n] = g[n]}
  <1>6. 0 \in Same
    BY <1>4
  <1>7. ASSUME NEW n \in Nat, n \in Same PROVE n + 1 \in Same
    <2> SUFFICES ASSUME n + 1 <= NK PROVE A[n + 1] = g[n + 1]
      OBVIOUS
    <2>1. n + 1 \in 1..NK /\ (n + 1) - 1 = n /\ n <= NK
      BY Sizes
    <2>2. A[n] = g[n]
      BY <1>7, <2>1
    <2>3. g[n + 1] = WithRoot(n + 1, g[n])
      BY <2>1 DEF IsGenerated
    <2>4. A[n + 1] = WithRoot(n + 1, A[n])
      BY <1>5, <2>1
    <2> QED BY <2>2, <2>3, <2>4
  <1> HIDE DEF Same
  <1>8. Nat \subseteq Same
    BY <1>6, <1>7, NatSetInduction
  <1>9. A[NK] = g[NK]
    BY <1>8, Sizes DEF Same
  <1> QED BY <1>1, <1>9

\* and there are some.
LEMMA GeneratorExists == \E g : IsGenerated(g)
  <1> DEFINE V == Generators
             w(k, h) == IF k < NK THEN WithRoot(k + 1, h) ELSE h
             step == [k \in Nat |-> [h \in V |-> w(k, h)]]
  <1>1. ASSUME NEW k \in Nat, NEW h \in V PROVE w(k, h) \in V
    <2>1. CASE k < NK
      <3>1. k + 1 \in 1..NK
        BY <2>1, Sizes
      <3>2. GF_EXP[k + 1] \in Symbols
        <4>1. k \in Syndromes
          BY <2>1, Sizes
        <4> QED BY <4>1, LocatorLaws
      <3>3. ASSUME NEW c \in 0..NK
            PROVE  plus(IF c = 0 THEN 0 ELSE h[c - 1], times(GF_EXP[k + 1], h[c])) \in Symbols
        <4>1. h[c] \in Symbols /\ (c # 0 => h[c - 1] \in Symbols)
          BY Sizes DEF Generators, V
        <4>2. times(GF_EXP[k + 1], h[c]) \in Symbols
          BY <3>2, <4>1, FieldLaws
        <4> QED BY <4>1, <4>2, FieldLaws
      <3>4. \A c \in 0..NK : h[c] \in Symbols
        BY DEF Generators, V
      <3>5. WithRoot(k + 1, h) \in V
        BY <3>3, <3>4 DEF WithRoot, Generators
      <3> QED BY <2>1, <3>5
    <2>2. CASE ~(k < NK)
      BY <2>2
    <2> QED BY <2>1, <2>2
  <1> HIDE DEF w, V
  <1>2. step \in [Nat -> [V -> V]] /\ \A k \in Nat, h \in V : step[k][h] = w(k, h)
    BY <1>1
  <1>3. Unit(0..NK, 0) \in V
    BY FamilyClosed DEF V, Generators, Family
  <1> HIDE DEF step
  <1>4. PICK x : x \in Sequences(V, Unit(0..NK, 0), step)
    BY <1>2, <1>3, PrimitiveRecursion
  <1>5. x \in [Nat -> V] /\ x[0] = Unit(0..NK, 0) /\ \A k \in Nat : x[k + 1] = step[k][x[k]]
    BY <1>4 DEF Sequences
  <1> DEFINE g == [deg \in 0..NK |-> x[deg]]
  <1>6. g \in [0..NK -> V] /\ g[0] = Unit(0..NK, 0)
    BY <1>5, Sizes
  <1>7. ASSUME NEW deg \in 1..NK PROVE g[deg] = WithRoot(deg, g[deg - 1])
    <2> DEFINE k == deg - 1
    <2>1. k \in Nat /\ k + 1 = deg /\ k < NK /\ deg \in 0..NK /\ k \in 0..NK
      BY Sizes
    <2> HIDE DEF k
    <2>2. g[deg] = x[k + 1] /\ g[k] = x[k] /\ x[k] \in V
      BY <1>5, <2>1
    <2>3. x[k + 1] = w(k, x[k])
      BY <1>2, <1>5, <2>1, <2>2
    <2>4. w(k, x[k]) = WithRoot(k + 1, x[k])
      BY <2>1 DEF w
    <2> HIDE DEF g
    <2> QED BY <2>1, <2>2, <2>3, <2>4 DEF k
  <1> HIDE DEF g
  <1>8. IsGenerated(g)
    BY <1>6, <1>7 DEF IsGenerated, V
  <1> QED BY <1>8

\* Multiplied out so far: monic, and 0 at the powers already multiplied in.
Vanishes(h, n) ==
    /\ h[n] = 1 /\ \A c \in 0..NK : c > n => h[c] = 0
    /\ \A k \in 1..n : gf_poly_eval(h, NK, GF_EXP[k]) = 0

\* One more root.
LEMMA RootAdded ==
    ASSUME NEW h \in Generators, NEW n \in Nat, n < NK, Vanishes(h, n),
           WithRoot(n + 1, h) \in Generators
    PROVE  Vanishes(WithRoot(n + 1, h), n + 1)
  <1> DEFINE deg == n + 1
             a == GF_EXP[deg]
             u == Placed(NK, NK, 1, h)
             w == WithRoot(deg, h)
  <1>1. /\ NK \in Nat /\ deg \in 0..NK /\ deg \in 1..NK /\ deg - 1 = n /\ n \in 0..NK
        /\ Generators = Family(0..NK)
    BY Sizes DEF Generators, Family
  <1>2. \A k \in 1..NK : GF_EXP[k] \in Symbols
    <2>1. \A k \in 1..NK : k - 1 \in Syndromes /\ (k - 1) + 1 = k
      BY Sizes
    <2> QED BY <2>1, LocatorLaws
  <1>3. \A c \in 0..NK : h[c] \in Symbols
    BY DEF Generators
  <1>4. \A c \in 0..NK : c > n => h[c] = 0
    BY DEF Vanishes
  <1>5. \A c \in 0..NK : w[c] = IF c > deg THEN h[c] ELSE plus(IF c = 0 THEN 0 ELSE h[c - 1], times(a, h[c]))
    BY DEF WithRoot
  <1>6. \A c \in 0..NK : u[c] = IF c = 0 THEN 0 ELSE h[c - 1]
    <2>1. \A c \in 0..NK : c - 1 \in 0..NK <=> c # 0
      BY <1>1
    <2> QED BY <2>1 DEF Placed
  <1>7. a \in Symbols
    BY <1>1, <1>2
  <1> HIDE DEF w, u, a
  <1>8. w[deg] = 1
    <2>1. deg # 0 /\ ~(deg > deg) /\ deg > n
      BY <1>1
    <2>2. w[deg] = plus(h[n], times(a, h[deg]))
      BY <1>1, <1>5, <2>1
    <2>3. h[n] = 1 /\ h[deg] = 0
      BY <1>1, <1>4, <2>1 DEF Vanishes
    <2>4. times(a, 0) = 0 /\ plus(1, 0) = 1
      BY <1>7, FieldLaws
    <2> QED BY <2>2, <2>3, <2>4
  <1>9. ASSUME NEW c \in 0..NK, c > deg PROVE w[c] = 0
    <2>1. c > n
      BY <1>9
    <2> QED BY <1>4, <1>5, <1>9, <2>1
  <1>10. w = Combo(0..NK, u, a, h)
    <2>1. ASSUME NEW c \in 0..NK PROVE w[c] = plus(u[c], times(a, h[c]))
      <3>1. CASE c > deg
        <4>1. c # 0 /\ c - 1 \in 0..NK /\ c - 1 > n /\ c > n
          BY <1>1, <3>1
        <4>2. h[c] = 0 /\ h[c - 1] = 0
          BY <1>4, <4>1
        <4>3. times(a, 0) = 0 /\ plus(0, 0) = 0
          BY <1>7, FieldLaws
        <4> QED BY <1>5, <1>6, <3>1, <4>1, <4>2, <4>3
      <3>2. CASE ~(c > deg)
        BY <1>5, <1>6, <3>2
      <3> QED BY <3>1, <3>2
    <2>2. w = [c \in 0..NK |-> w[c]]
      BY DEF w, WithRoot
    <2> QED BY <2>1, <2>2 DEF Combo
  <1>11. \A c \in 0..NK : c + 1 > NK => h[c] = 0
    BY <1>1, <1>4
  <1>12. ASSUME NEW k \in 1..deg PROVE gf_poly_eval(w, NK, GF_EXP[k]) = 0
    <2> DEFINE y == GF_EXP[k]
               V == EvalMap(NK, y)
               b == gf_poly_eval(h, NK, y)
    <2>1. y \in Symbols
      <3>1. k \in 1..NK
        BY <1>1
      <3> QED BY <1>2, <3>1
    <2> HIDE DEF y
    <2>2. u \in Family(0..NK) /\ gf_poly_eval(u, NK, y) = times(Power(y, 1), b)
      BY <1>1, <1>11, <2>1, PlacedValue DEF u
    <2>3. Power(y, 1) = y
      BY <2>1, PowerLaws
    <2>4. Linear(0..NK, V) /\ \A f \in Family(0..NK) : V[f] = gf_poly_eval(f, NK, y)
      BY <1>1, <2>1, EvalLinear
    <2> HIDE DEF V, b
    <2>5. V[w] = plus(V[u], times(a, V[h])) /\ V[h] \in Symbols
      BY <1>1, <1>7, <1>10, <2>2, <2>4 DEF Linear
    <2>6. w \in Family(0..NK)
      BY <1>1 DEF w
    <2>7. V[w] = plus(times(y, b), times(a, b)) /\ b \in Symbols
      BY <1>1, <2>2, <2>3, <2>4, <2>5 DEF b
    <2>8. CASE k = deg
      <3>1. y = a
        BY <2>8 DEF y, a
      <3>2. times(a, b) \in Symbols
        BY <1>7, <2>7, FieldLaws
      <3>3. plus(times(a, b), times(a, b)) = 0
        BY <3>2, FieldLaws
      <3>4. V[w] = 0
        BY <2>7, <3>1, <3>3
      <3>5. V[w] = gf_poly_eval(w, NK, y)
        BY <2>4, <2>6
      <3> QED BY <3>4, <3>5 DEF y
    <2>9. CASE k # deg
      <3>1. k \in 1..n
        BY <1>1, <2>9
      <3>2. b = 0
        BY <3>1 DEF Vanishes, b, y
      <3>3. times(y, 0) = 0 /\ times(a, 0) = 0 /\ plus(0, 0) = 0
        BY <1>7, <2>1, FieldLaws
      <3> QED BY <2>4, <2>6, <2>7, <3>2, <3>3 DEF y
    <2> QED BY <2>8, <2>9
  <1> QED BY <1>8, <1>9, <1>12 DEF Vanishes, w

\* The generator is monic of degree 2 Delta and vanishes at alpha .. alpha^(2 Delta).
LEMMA GeneratorVanishes == rs_generator \in Generators /\ Vanishes(rs_generator, NK)
  <1>1. PICK g : IsGenerated(g)
    BY GeneratorExists
  <1>2. /\ g \in [0..NK -> Generators] /\ g[0] = Unit(0..NK, 0)
        /\ \A deg \in 1..NK : g[deg] = WithRoot(deg, g[deg - 1])
    BY <1>1 DEF IsGenerated
  <1> DEFINE G == {n \in Nat : n <= NK => Vanishes(g[n], n)}
  <1>3. 0 \in G
    <2>1. g[0][0] = 1 /\ \A c \in 0..NK : c > 0 => g[0][c] = 0
      BY <1>2, Sizes DEF Unit
    <2> QED BY <2>1 DEF Vanishes
  <1>4. ASSUME NEW n \in Nat, n \in G PROVE n + 1 \in G
    <2> SUFFICES ASSUME n + 1 <= NK PROVE Vanishes(g[n + 1], n + 1)
      OBVIOUS
    <2>1. n + 1 \in 1..NK /\ (n + 1) - 1 = n /\ n <= NK /\ n < NK /\ n \in 0..NK /\ n + 1 \in 0..NK
      BY Sizes
    <2>2. Vanishes(g[n], n)
      BY <1>4, <2>1
    <2>3. g[n] \in Generators /\ g[n + 1] \in Generators /\ g[n + 1] = WithRoot(n + 1, g[n])
      BY <1>2, <2>1
    <2> QED BY <2>1, <2>2, <2>3, RootAdded
  <1> HIDE DEF G
  <1>5. Nat \subseteq G
    BY <1>3, <1>4, NatSetInduction
  <1>6. NK \in Nat /\ NK \in 0..NK
    BY Sizes
  <1>7. Vanishes(g[NK], NK)
    BY <1>5, <1>6 DEF G
  <1>8. rs_generator = g[NK]
    BY <1>1, GeneratorIs
  <1> QED BY <1>2, <1>6, <1>7, <1>8

-----------------------------------------------------------------------------
(* Encoding.                                                               *)

\* M(x) x^(2 Delta), and one step of the division.
Raised(m) == [p \in Positions |-> IF p >= NK THEN m[p - NK] ELSE 0]
Subtract(n, above) ==
    [p \in Positions |->
        IF p \in n-NK..n
        THEN plus(above[p], times(above[n], rs_generator[p - (n - NK)]))
        ELSE above[p]]

\* The polynomials the division goes through.
IsDivision(h, m) ==
    /\ h \in [NK..N1 -> Family(Positions)]
    /\ h[N1] = Raised(m)
    /\ \A n \in NK..N1-1 : h[n] = Subtract(n, h[n + 1])

\* They are what Remainder computes,
LEMMA RemainderIs ==
    ASSUME NEW m, NEW h, IsDivision(h, m)
    PROVE  Remainder(m) = h[NK]
  <1> DEFINE Step(f) == [n \in NK..N1 |->
                IF n = N1
                THEN [p \in Positions |-> IF p >= NK THEN m[p - NK] ELSE 0]
                ELSE [p \in Positions |->
                         IF p \in n-NK..n
                         THEN plus(f[n + 1][p], times(f[n + 1][n], rs_generator[p - (n - NK)]))
                         ELSE f[n + 1][p]]]
             A == CHOOSE f : f = Step(f)
  <1>1. Remainder(m) = A[NK]
    BY Zenon DEF Remainder
  <1>2. h = Step(h)
    <2>1. h = [n \in NK..N1 |-> h[n]]
      BY DEF IsDivision
    <2>2. ASSUME NEW n \in NK..N1 PROVE h[n] = Step(h)[n]
      <3>1. CASE n = N1
        BY <3>1 DEF IsDivision, Raised
      <3>2. CASE n # N1
        <4>1. n \in NK..N1-1
          BY <3>2, Sizes
        <4>2. h[n] = Subtract(n, h[n + 1])
          BY <4>1 DEF IsDivision
        <4> QED BY <3>2, <4>2 DEF Subtract
      <3> QED BY <3>1, <3>2
    <2>3. Step(h) = [n \in NK..N1 |-> Step(h)[n]]
      OBVIOUS
    <2> HIDE DEF Step
    <2> QED BY <2>1, <2>2, <2>3, Zenon
  <1>3. A = Step(A)
    <2> HIDE DEF Step
    <2> QED BY <1>2, Zenon
  <1> HIDE DEF A
  <1>4. A[N1] = h[N1]
    <2>1. N1 \in NK..N1
      BY Sizes
    <2> QED BY <1>3, <2>1 DEF IsDivision, Raised
  <1>5. ASSUME NEW n \in NK..N1-1 PROVE A[n] = Subtract(n, A[n + 1])
    <2>1. n \in NK..N1 /\ n # N1
      BY Sizes
    <2> QED BY <1>3, <2>1 DEF Subtract
  <1> HIDE DEF Step
  <1> DEFINE Same == {k \in Nat : k <= K => A[N1 - k] = h[N1 - k]}
  <1>6. 0 \in Same
    BY <1>4, Sizes
  <1>7. ASSUME NEW k \in Nat, k \in Same PROVE k + 1 \in Same
    <2> SUFFICES ASSUME k + 1 <= K PROVE A[N1 - (k + 1)] = h[N1 - (k + 1)]
      OBVIOUS
    <2> DEFINE n == N1 - (k + 1)
    <2>1. n \in NK..N1-1 /\ n + 1 = N1 - k /\ k <= K
      BY Sizes
    <2>2. A[n + 1] = h[n + 1]
      BY <1>7, <2>1
    <2> HIDE DEF n
    <2>3. h[n] = Subtract(n, h[n + 1])
      BY <2>1 DEF IsDivision
    <2>4. A[n] = Subtract(n, A[n + 1])
      BY <1>5, <2>1
    <2>5. A[n] = h[n]
      BY <2>2, <2>3, <2>4
    <2> QED BY <2>5 DEF n
  <1> HIDE DEF Same
  <1>8. Nat \subseteq Same
    BY <1>6, <1>7, NatSetInduction
  <1>9. A[NK] = h[NK]
    <2>1. K \in Nat /\ N1 - K = NK /\ K <= K
      BY Sizes
    <2>2. A[N1 - K] = h[N1 - K]
      BY <1>8, <2>1 DEF Same
    <2> QED BY <2>1, <2>2
  <1> QED BY <1>1, <1>9

\* One step takes a multiple of the generator off.
LEMMA SubtractIs ==
    ASSUME NEW h \in Family(Positions), NEW n \in NK..N1-1
    PROVE  /\ Placed(NK, N1 - 1, n - NK, rs_generator) \in Family(Positions)
           /\ Subtract(n, h) = Combo(Positions, h, h[n], Placed(NK, N1 - 1, n - NK, rs_generator))
           /\ Subtract(n, h) \in Family(Positions)
  <1> DEFINE j == n - NK
             gen == rs_generator
             u == Placed(NK, N1 - 1, j, gen)
  <1>1. /\ NK \in Nat /\ N1 - 1 \in Nat /\ n \in Positions /\ n \in Nat /\ Positions = 0..N1-1
        /\ j \in Nat /\ \A c \in 0..NK : ~(c + j > N1 - 1)
        /\ \A p \in Positions : p - j \in 0..NK <=> p \in n-NK..n
        /\ \A p \in Positions : p - j = p - (n - NK)
    BY Sizes
  <1>2. gen \in Family(0..NK)
    BY GeneratorVanishes DEF Generators, Family
  <1> HIDE DEF gen, j
  <1>3. u \in Family(Positions)
    <2>1. 1 \in Symbols
      BY FieldLaws
    <2> QED BY <1>1, <1>2, <2>1, PlacedValue
  <1>4. \A p \in Positions : u[p] = IF p \in n-NK..n THEN gen[p - (n - NK)] ELSE 0
    BY <1>1 DEF Placed
  <1> HIDE DEF u
  <1>5. ASSUME NEW p \in Positions PROVE Subtract(n, h)[p] = plus(h[p], times(h[n], u[p]))
    <2>1. h[p] \in Symbols /\ h[n] \in Symbols
      BY <1>1 DEF Family
    <2>2. times(h[n], 0) = 0 /\ plus(h[p], 0) = h[p]
      BY <2>1, FieldLaws
    <2> QED BY <1>4, <2>2 DEF Subtract, gen
  <1>6. Subtract(n, h) = Combo(Positions, h, h[n], u)
    <2>1. Subtract(n, h) = [p \in Positions |-> Subtract(n, h)[p]]
      BY DEF Subtract
    <2> QED BY <1>5, <2>1 DEF Combo
  <1>7. h[n] \in Symbols
    BY <1>1 DEF Family
  <1> QED BY <1>3, <1>6, <1>7, FamilyClosed DEF u, j, gen

\* There is a division.
LEMMA DivisionExists ==
    ASSUME NEW m \in [0..K-1 -> Symbols]
    PROVE  \E h : IsDivision(h, m)
  <1> DEFINE V == Family(Positions)
             v0 == Raised(m)
             w(k, f) == IF k < K THEN Subtract(N1 - (k + 1), f) ELSE f
             step == [k \in Nat |-> [f \in V |-> w(k, f)]]
  <1>1. v0 \in V
    <2>1. \A p \in Positions : p >= NK => p - NK \in 0..K-1
      BY Sizes
    <2>2. \A p \in Positions : (IF p >= NK THEN m[p - NK] ELSE 0) \in Symbols
      BY <2>1, FieldLaws
    <2> QED BY <2>2 DEF Raised, Family
  <1>2. ASSUME NEW k \in Nat, NEW f \in V PROVE w(k, f) \in V
    <2>1. CASE k < K
      <3>1. N1 - (k + 1) \in NK..N1-1
        BY <2>1, Sizes
      <3> QED BY <2>1, <3>1, SubtractIs
    <2>2. CASE ~(k < K)
      BY <2>2
    <2> QED BY <2>1, <2>2
  <1> HIDE DEF w, V, v0
  <1>3. step \in [Nat -> [V -> V]] /\ \A k \in Nat, f \in V : step[k][f] = w(k, f)
    BY <1>2
  <1> HIDE DEF step
  <1>4. PICK x : x \in Sequences(V, v0, step)
    BY <1>1, <1>3, PrimitiveRecursion
  <1>5. x \in [Nat -> V] /\ x[0] = v0 /\ \A k \in Nat : x[k + 1] = step[k][x[k]]
    BY <1>4 DEF Sequences
  <1> DEFINE h == [n \in NK..N1 |-> x[N1 - n]]
  <1>6. h \in [NK..N1 -> V] /\ h[N1] = v0
    <2>1. N1 \in NK..N1 /\ N1 - N1 = 0 /\ \A n \in NK..N1 : N1 - n \in Nat
      BY Sizes
    <2> QED BY <1>5, <2>1
  <1>7. ASSUME NEW n \in NK..N1-1 PROVE h[n] = Subtract(n, h[n + 1])
    <2> DEFINE k == N1 - (n + 1)
    <2>1. k \in Nat /\ k + 1 = N1 - n /\ N1 - (k + 1) = n /\ k < K /\ n \in NK..N1 /\ n + 1 \in NK..N1
      BY Sizes
    <2>2. h[n] = x[k + 1] /\ h[n + 1] = x[k]
      BY <2>1
    <2> HIDE DEF k, h
    <2>3. x[k + 1] = w(k, x[k])
      BY <1>3, <1>5, <2>1
    <2>4. w(k, x[k]) = Subtract(n, x[k])
      BY <2>1 DEF w
    <2> QED BY <2>2, <2>3, <2>4
  <1> HIDE DEF h
  <1>8. IsDivision(h, m)
    BY <1>6, <1>7 DEF IsDivision, V, v0
  <1> QED BY <1>8

\* The remainder has degree below 2 Delta and the syndromes of what is divided.
LEMMA RemainderAgrees ==
    ASSUME NEW m \in [0..K-1 -> Symbols]
    PROVE  /\ Remainder(m) \in Family(Positions) /\ Raised(m) \in Family(Positions)
           /\ \A p \in Positions : p >= NK => Remainder(m)[p] = 0
           /\ syndromes(Remainder(m)) = syndromes(Raised(m))
  <1>1. PICK h : IsDivision(h, m)
    BY DivisionExists
  <1>2. /\ h \in [NK..N1 -> Family(Positions)] /\ h[N1] = Raised(m)
        /\ \A n \in NK..N1-1 : h[n] = Subtract(n, h[n + 1])
    BY <1>1 DEF IsDivision
  <1> DEFINE Reduced(n) ==
                /\ \A p \in Positions : p >= n => h[n][p] = 0
                /\ syndromes(h[n]) = syndromes(Raised(m))
             G == {k \in Nat : k <= K => Reduced(N1 - k)}
  <1>3. 0 \in G
    <2>1. N1 - 0 = N1 /\ \A p \in Positions : ~(p >= N1)
      BY Sizes
    <2> QED BY <1>2, <2>1
  <1>4. ASSUME NEW k \in Nat, k \in G PROVE k + 1 \in G
    <2> DEFINE n == N1 - (k + 1)
               f == h[n + 1]
               gen == rs_generator
               u == Placed(NK, N1 - 1, n - NK, gen)
    <2> SUFFICES ASSUME k + 1 <= K PROVE Reduced(n)
      OBVIOUS
    <2>1. /\ n \in NK..N1-1 /\ n + 1 = N1 - k /\ k <= K /\ n + 1 \in NK..N1 /\ n \in Positions
          /\ n \in Nat /\ N1 - 1 \in Nat /\ NK \in Nat /\ n - NK \in Nat /\ Positions = 0..N1-1
          /\ \A c \in 0..NK : ~(c + (n - NK) > N1 - 1)
      BY Sizes
    <2>2. Reduced(n + 1)
      BY <1>4, <2>1
    <2> HIDE DEF n
    <2>3. (\A p \in Positions : p >= n + 1 => f[p] = 0) /\ syndromes(f) = syndromes(Raised(m))
      BY <2>2
    <2>4. f \in Family(Positions) /\ h[n] = Subtract(n, f)
      BY <1>2, <2>1
    <2> HIDE DEF f
    <2>5. u \in Family(Positions) /\ Subtract(n, f) = Combo(Positions, f, f[n], u) /\ f[n] \in Symbols
      <3>1. f[n] \in Symbols
        BY <2>1, <2>4 DEF Family
      <3> QED BY <2>1, <2>4, <3>1, SubtractIs
    <2>6. gen \in Family(0..NK) /\ gen[NK] = 1
          /\ \A e \in 1..NK : gf_poly_eval(gen, NK, GF_EXP[e]) = 0
      BY GeneratorVanishes DEF Generators, Family, Vanishes
    <2> HIDE DEF gen
    <2>7. ASSUME NEW p \in Positions, p >= n PROVE h[n][p] = 0
      <3>1. h[n][p] = plus(f[p], times(f[n], u[p]))
        BY <2>4, <2>5 DEF Combo
      <3>2. CASE p = n
        <4>1. n - (n - NK) = NK /\ NK \in 0..NK
          BY <2>1
        <4>2. u[p] = 1
          BY <2>1, <2>6, <3>2, <4>1 DEF Placed
        <4>3. times(f[n], 1) = f[n] /\ plus(f[n], f[n]) = 0
          BY <2>5, FieldAssumption
        <4> QED BY <3>1, <3>2, <4>2, <4>3
      <3>3. CASE p # n
        <4>1. p >= n + 1 /\ p - (n - NK) \notin 0..NK
          BY <2>1, <2>7, <3>3
        <4>2. u[p] = 0
          BY <2>1, <4>1 DEF Placed
        <4>3. f[p] = 0
          BY <2>3, <4>1
        <4>4. times(f[n], 0) = 0 /\ plus(0, 0) = 0
          BY <2>5, FieldLaws
        <4> QED BY <3>1, <4>2, <4>3, <4>4
      <3> QED BY <3>2, <3>3
    <2>8. syndromes(u) = ZeroOn(Syndromes)
      <3>1. ASSUME NEW t \in Syndromes PROVE gf_poly_eval(u, N1 - 1, GF_EXP[t + 1]) = 0
        <4> DEFINE y == GF_EXP[t + 1]
        <4>1. y \in Symbols /\ t + 1 \in 1..NK
          BY LocatorLaws, Sizes
        <4>2. gf_poly_eval(gen, NK, y) = 0
          BY <2>6, <4>1
        <4> HIDE DEF y
        <4>3. gf_poly_eval(u, N1 - 1, y) = times(Power(y, n - NK), gf_poly_eval(gen, NK, y))
          BY <2>1, <2>6, <4>1, PlacedValue
        <4>4. times(Power(y, n - NK), 0) = 0
          BY <2>1, <4>1, PowerUnfolds, FieldLaws
        <4> QED BY <4>2, <4>3, <4>4 DEF y
      <3>2. Syndromes = 0..NK-1
        BY Sizes
      <3> HIDE DEF u
      <3> QED BY <3>1, <3>2 DEF syndromes, ZeroOn
    <2> HIDE DEF u
    <2>9. syndromes(Combo(Positions, f, f[n], u)) = Combo(Syndromes, syndromes(f), f[n], syndromes(u))
      BY <2>4, <2>5, SyndromesLinear
    <2>10. Combo(Syndromes, syndromes(f), f[n], ZeroOn(Syndromes)) = syndromes(f)
      <3>1. syndromes(f) \in Words
        BY <2>4, SyndromesLinear
      <3>2. ASSUME NEW t \in Syndromes PROVE plus(syndromes(f)[t], times(f[n], ZeroOn(Syndromes)[t])) = syndromes(f)[t]
        <4>1. syndromes(f)[t] \in Symbols /\ ZeroOn(Syndromes)[t] = 0
          BY <3>1 DEF Words, ZeroOn
        <4>2. times(f[n], 0) = 0 /\ plus(syndromes(f)[t], 0) = syndromes(f)[t]
          BY <2>5, <4>1, FieldLaws
        <4> QED BY <4>1, <4>2
      <3>3. syndromes(f) = [t \in Syndromes |-> syndromes(f)[t]]
        BY <3>1 DEF Words
      <3> QED BY <3>2, <3>3 DEF Combo
    <2>11. syndromes(h[n]) = syndromes(Raised(m))
      BY <2>3, <2>4, <2>5, <2>8, <2>9, <2>10
    <2> QED BY <2>7, <2>11
  <1> HIDE DEF G
  <1>5. Nat \subseteq G
    BY <1>3, <1>4, NatSetInduction
  <1>6. K \in Nat /\ K <= K /\ N1 - K = NK /\ NK \in NK..N1 /\ N1 \in NK..N1
    BY Sizes
  <1>7. Reduced(NK)
    <2>1. Reduced(N1 - K)
      BY <1>5, <1>6 DEF G
    <2> QED BY <1>6, <2>1
  <1>8. Remainder(m) = h[NK]
    BY <1>1, RemainderIs
  <1> QED BY <1>2, <1>6, <1>7, <1>8

\* rs_encode is systematic, and its words have zero syndromes.
LEMMA Encoded ==
    ASSUME NEW m \in [0..K-1 -> Symbols]
    PROVE  /\ rs_encode(m) \in Family(Positions)
           /\ \A t \in 0..K-1 : NK + t \in Positions /\ rs_encode(m)[NK + t] = m[t]
           /\ syndromes(rs_encode(m)) = ZeroOn(Syndromes)
           /\ HasZeroSyndromes(rs_encode(m))
  <1> DEFINE r == Remainder(m)
             u == Raised(m)
             e == rs_encode(m)
  <1>1. /\ r \in Family(Positions) /\ u \in Family(Positions)
        /\ \A p \in Positions : p >= NK => r[p] = 0
        /\ syndromes(r) = syndromes(u)
    BY RemainderAgrees
  <1>2. /\ NK \in Nat /\ Positions = 0..N1-1 /\ Syndromes = 0..NK-1
        /\ \A p \in Positions : p >= NK => p - NK \in 0..K-1
        /\ \A t \in 0..K-1 : NK + t \in Positions /\ ~(NK + t < NK) /\ (NK + t) - NK = t
    BY Sizes
  <1>3. \A p \in Positions : e[p] = IF p < NK THEN r[p] ELSE m[p - NK]
    BY DEF rs_encode
  <1>4. \A p \in Positions : u[p] = IF p >= NK THEN m[p - NK] ELSE 0
    BY DEF Raised
  <1>5. e = [p \in Positions |-> e[p]]
    BY DEF rs_encode
  <1> HIDE DEF r, u, e
  <1>6. ASSUME NEW p \in Positions PROVE e[p] = plus(r[p], times(1, u[p]))
    <2>1. r[p] \in Symbols /\ u[p] \in Symbols /\ p \in Nat
      BY <1>1, <1>2 DEF Family
    <2>2. times(1, u[p]) = u[p] /\ plus(r[p], 0) = r[p] /\ plus(0, u[p]) = u[p]
      BY <2>1, FieldLaws
    <2>3. CASE p < NK
      <3>1. u[p] = 0
        BY <1>2, <1>4, <2>1, <2>3
      <3> QED BY <1>3, <2>2, <2>3, <3>1
    <2>4. CASE ~(p < NK)
      <3>1. r[p] = 0 /\ u[p] = m[p - NK]
        BY <1>1, <1>2, <1>4, <2>1, <2>4
      <3> QED BY <1>3, <2>2, <2>4, <3>1
    <2> QED BY <2>3, <2>4
  <1>7. e = Combo(Positions, r, 1, u)
    BY <1>5, <1>6 DEF Combo
  <1>8. 1 \in Symbols
    BY FieldLaws
  <1>9. e \in Family(Positions)
    BY <1>1, <1>7, <1>8, FamilyClosed
  <1>10. syndromes(e) = ZeroOn(Syndromes)
    <2>1. syndromes(e) = Combo(Syndromes, syndromes(r), 1, syndromes(u))
      BY <1>1, <1>7, <1>8, SyndromesLinear
    <2>2. syndromes(u) \in Words
      BY <1>1, SyndromesLinear
    <2>3. ASSUME NEW t \in Syndromes PROVE plus(syndromes(u)[t], times(1, syndromes(u)[t])) = 0
      <3>1. syndromes(u)[t] \in Symbols
        BY <2>2 DEF Words
      <3> QED BY <3>1, FieldLaws
    <2> QED BY <1>1, <2>1, <2>3 DEF Combo, ZeroOn
  <1>11. HasZeroSyndromes(e)
    BY <1>2, <1>10 DEF HasZeroSyndromes, ZeroOn
  <1>12. \A t \in 0..K-1 : NK + t \in Positions /\ e[NK + t] = m[t]
    BY <1>2, <1>3
  <1> QED BY <1>9, <1>10, <1>11, <1>12 DEF e

-----------------------------------------------------------------------------
(* Received words and codewords.                                           *)

\* Sums of words, and where two words differ.
Added(a, b) == [p \in Positions |-> plus(a[p], b[p])]
Differing(a, b) == {p \in Positions : a[p] # b[p]}

\* Their syndromes add up as well.
LEMMA AddedSyndromes ==
    ASSUME NEW a \in Family(Positions), NEW b \in Family(Positions)
    PROVE  /\ Added(a, b) \in Family(Positions)
           /\ Support(Added(a, b)) = Differing(a, b)
           /\ syndromes(a) \in Words /\ syndromes(b) \in Words
           /\ \A t \in Syndromes : syndromes(Added(a, b))[t] = plus(syndromes(a)[t], syndromes(b)[t])
           /\ syndromes(Added(a, b)) = ZeroOn(Syndromes) <=> syndromes(a) = syndromes(b)
           /\ syndromes(b) = ZeroOn(Syndromes) => syndromes(Added(a, b)) = syndromes(a)
  <1> DEFINE e == Added(a, b)
  <1>1. \A p \in Positions : a[p] \in Symbols /\ b[p] \in Symbols
    BY DEF Family
  <1>2. 1 \in Symbols
    BY FieldLaws
  <1>3. e = Combo(Positions, a, 1, b)
    <2>1. \A p \in Positions : times(1, b[p]) = b[p]
      BY <1>1, FieldLaws
    <2> QED BY <2>1 DEF Added, Combo
  <1>4. e \in Family(Positions)
    BY <1>2, <1>3, FamilyClosed
  <1>5. Support(e) = Differing(a, b)
    <2>1. \A p \in Positions : e[p] = plus(a[p], b[p])
      BY DEF Added
    <2>2. ASSUME NEW p \in Positions PROVE e[p] = 0 <=> a[p] = b[p]
      <3>1. plus(a[p], b[p]) = 0 <=> a[p] = b[p]
        BY <1>1, FieldLaws
      <3> QED BY <2>1, <3>1
    <2> QED BY <2>2 DEF Support, Differing
  <1>6. syndromes(a) \in Words /\ syndromes(b) \in Words
    BY SyndromesLinear
  <1>7. \A t \in Syndromes : syndromes(a)[t] \in Symbols /\ syndromes(b)[t] \in Symbols
    BY <1>6 DEF Words
  <1>8. syndromes(e) = Combo(Syndromes, syndromes(a), 1, syndromes(b))
    BY <1>2, <1>3, SyndromesLinear
  <1> HIDE DEF e
  <1>9. ASSUME NEW t \in Syndromes PROVE syndromes(e)[t] = plus(syndromes(a)[t], syndromes(b)[t])
    <2>1. times(1, syndromes(b)[t]) = syndromes(b)[t]
      BY <1>7, FieldLaws
    <2> QED BY <1>8, <2>1 DEF Combo
  <1>10. syndromes(e) = [t \in Syndromes |-> syndromes(e)[t]] /\ syndromes(a) = [t \in Syndromes |-> syndromes(a)[t]]
         /\ syndromes(b) = [t \in Syndromes |-> syndromes(b)[t]]
    BY <1>6, <1>8 DEF Words, Combo
  <1>11. syndromes(e) = ZeroOn(Syndromes) <=> syndromes(a) = syndromes(b)
    <2>1. ASSUME NEW t \in Syndromes PROVE syndromes(e)[t] = 0 <=> syndromes(a)[t] = syndromes(b)[t]
      <3>1. plus(syndromes(a)[t], syndromes(b)[t]) = 0 <=> syndromes(a)[t] = syndromes(b)[t]
        BY <1>7, FieldLaws
      <3> QED BY <1>9, <3>1
    <2>2. ASSUME syndromes(e) = ZeroOn(Syndromes) PROVE syndromes(a) = syndromes(b)
      <3>1. \A t \in Syndromes : syndromes(e)[t] = 0
        BY <2>2 DEF ZeroOn
      <3> QED BY <1>10, <2>1, <3>1
    <2>3. ASSUME syndromes(a) = syndromes(b) PROVE syndromes(e) = ZeroOn(Syndromes)
      <3>1. \A t \in Syndromes : syndromes(e)[t] = 0
        BY <2>1, <2>3
      <3> QED BY <1>10, <3>1 DEF ZeroOn
    <2> QED BY <2>2, <2>3
  <1>12. ASSUME syndromes(b) = ZeroOn(Syndromes) PROVE syndromes(e) = syndromes(a)
    <2>1. \A t \in Syndromes : syndromes(e)[t] = syndromes(a)[t]
      <3>1. \A t \in Syndromes : syndromes(b)[t] = 0
        BY <1>12 DEF ZeroOn
      <3> QED BY <1>7, <1>9, <3>1, FieldLaws
    <2> QED BY <1>10, <2>1
  <1> QED BY <1>4, <1>5, <1>6, <1>9, <1>11, <1>12 DEF e

\* Near a codeword, a shortest register of the syndromes finds the differences and the
\* scan's error values undo them.
LEMMA NearCodeword ==
    ASSUME NEW r \in Family(Positions), NEW c \in Family(Positions),
           syndromes(c) = ZeroOn(Syndromes), Cardinality(Differing(r, c)) <= Delta,
           NEW q, NEW L \in Nat, Locates(syndromes(r), q, L, 2*Delta)
    PROVE  /\ L = Cardinality(Differing(r, c)) /\ Roots(q) = Differing(r, c)
           /\ \A p \in Roots(q) : plus(r[p], ErrorValue(syndromes(r), q, p)) = c[p]
  <1> DEFINE e == Added(r, c)
  <1>1. e \in Family(Positions) /\ Support(e) = Differing(r, c) /\ syndromes(e) = syndromes(r)
    BY AddedSyndromes
  <1>2. \A p \in Positions : e[p] = plus(r[p], c[p])
    BY DEF Added
  <1> HIDE DEF e
  <1>3. L = Cardinality(Support(e)) /\ Roots(q) = Support(e)
    BY <1>1, ErrorsFound
  <1>4. q \in Terms /\ q[0] = 1 /\ ZeroAbove(q, L) /\ L <= Delta
    BY <1>1, <1>3 DEF Locates
  <1>5. ASSUME NEW p \in Roots(q) PROVE plus(r[p], ErrorValue(syndromes(r), q, p)) = c[p]
    <2>1. ErrorValue(syndromes(r), q, p) = e[p]
      BY <1>1, <1>3, <1>4, ErrorValueIs
    <2>2. p \in Positions
      BY DEF Roots
    <2>3. r[p] \in Symbols /\ c[p] \in Symbols
      BY <2>2 DEF Family
    <2>4. plus(r[p], plus(r[p], c[p])) = c[p]
      <3>1. plus(plus(r[p], r[p]), c[p]) = plus(r[p], plus(r[p], c[p]))
        BY <2>3, FieldAssumption
      <3>2. plus(r[p], r[p]) = 0 /\ plus(0, c[p]) = c[p]
        BY <2>3, FieldLaws
      <3> QED BY <3>1, <3>2
    <2> QED BY <1>2, <2>1, <2>2, <2>4
  <1> QED BY <1>1, <1>3, <1>5

\* A word with zero syndromes is the encoding of its high symbols.
LEMMA IsEncoded ==
    ASSUME NEW w \in Family(Positions), syndromes(w) = ZeroOn(Syndromes),
           NEW m \in [0..K-1 -> Symbols], \A t \in 0..K-1 : w[NK + t] = m[t]
    PROVE  w = rs_encode(m)
  <1> DEFINE c == rs_encode(m)
             e == Added(w, c)
  <1>1. c \in Family(Positions) /\ syndromes(c) = ZeroOn(Syndromes) /\ \A t \in 0..K-1 : c[NK + t] = m[t]
    BY Encoded
  <1> HIDE DEF c
  <1>2. e \in Family(Positions) /\ Support(e) = Differing(w, c) /\ syndromes(e) = ZeroOn(Syndromes)
    BY <1>1, AddedSyndromes
  <1> HIDE DEF e
  <1>3. Support(e) \subseteq 0..NK-1
    <2> SUFFICES ASSUME NEW p \in Positions, w[p] # c[p] PROVE p \in 0..NK-1
      BY <1>2 DEF Differing
    <2> SUFFICES ASSUME p >= NK PROVE FALSE
      BY Sizes
    <2>1. p - NK \in 0..K-1 /\ NK + (p - NK) = p
      BY Sizes
    <2>2. w[NK + (p - NK)] = c[NK + (p - NK)]
      BY <1>1, <2>1
    <2> QED BY <2>1, <2>2
  <1>4. Cardinality(Support(e)) <= NK
    <2>1. NK \in Nat /\ IsFiniteSet(0..NK-1) /\ Cardinality(0..NK-1) = NK
      <3>1. NK \in Nat /\ NK - 1 \in Int /\ 0 \in Int /\ ~(0 > NK - 1) /\ (NK - 1) - 0 + 1 = NK
        BY Sizes
      <3> QED BY <3>1, FS_Interval
    <2> QED BY <1>3, <2>1, FS_Subset
  <1>5. Support(e) = {}
    BY <1>2, <1>4, NoSyndromesNoErrors
  <1>6. \A p \in Positions : w[p] = c[p]
    BY <1>2, <1>5 DEF Differing
  <1>7. w = [p \in Positions |-> w[p]] /\ c = [p \in Positions |-> c[p]]
    BY <1>1 DEF Family
  <1>8. w = c
    BY <1>6, <1>7
  <1> QED BY <1>8 DEF c

-----------------------------------------------------------------------------
(* The decoder's invariant.                                                *)

\* What the encoder and the channel made, and the word rs_decode is given.
WordsInv ==
    /\ pc \in {"encode", "channel", "syndromes", "locate", "evaluate", "scan", "verify", "done"}
    /\ msg \in [0..K-1 -> Symbols]
    /\ word = IF pc = "encode" THEN Pending ELSE rs_encode(msg)
    /\ IF pc \in {"encode", "channel"} THEN received = Pending ELSE received \in Family(Positions)

\* berlekamp_massey is called once, with the syndromes of the word.
CallInv ==
    /\ pc \in {"encode", "channel", "syndromes"} => ~running /\ mu = 0
    /\ pc = "locate" => running
    /\ pc \in {"evaluate", "scan", "verify", "done"} => ~running /\ mu > 0
    /\ pc \notin {"encode", "channel", "syndromes"} => s = syndromes(received)

\* The scan has corrected the positions before i that are roots, and counted them.
Scanned(p) == IF p < i /\ p \in Roots(sigma) THEN plus(received[p], ErrorValue(s, sigma, p)) ELSE received[p]
ScanInv ==
    /\ pc \notin {"scan", "verify", "done"} => i = 0 /\ num_roots = 0
    /\ pc \in {"scan", "verify", "done"} =>
          /\ omega = error_evaluator(s, sigma)
          /\ sigma_prime = formal_derivative(sigma)
          /\ i \in 0..N1
          /\ IF pc = "scan" THEN i < N1 ELSE i = N1
          /\ corrected = [p \in Positions |-> Scanned(p)]
          /\ num_roots = Cardinality({p \in Roots(sigma) : p < i})

ResultInv == result = IF pc # "done" THEN Pending
                      ELSE IF Valid THEN [t \in 0..K-1 |-> corrected[NK + t]] ELSE Nothing

DecoderInv == LengthInv /\ RegisterInv /\ WordsInv /\ CallInv /\ ScanInv /\ ResultInv

\* After locating, the register is a shortest one for the word's syndromes.
LEMMA Located ==
    ASSUME DecoderInv, pc \in {"evaluate", "scan", "verify", "done"}
    PROVE  /\ received \in Family(Positions) /\ s = syndromes(received) /\ s \in Words
           /\ deg_sigma \in Nat /\ Locates(s, sigma, deg_sigma, 2*Delta)
           /\ sigma \in Terms
  <1>1. ~running /\ mu > 0 /\ s = syndromes(received)
    BY DEF DecoderInv, CallInv
  <1>2. received \in Family(Positions)
    BY DEF DecoderInv, WordsInv
  <1>3. deg_sigma \in Nat /\ s \in Words /\ Locates(s, sigma, deg_sigma, 2*Delta)
    BY <1>1 DEF DecoderInv, RegisterInv
  <1> QED BY <1>1, <1>2, <1>3 DEF Locates

\* Every step of the decoder is a step of berlekamp_massey or leaves it alone.
LEMMA StepOfRegister ==
    ASSUME DecoderInv, [Next]_vars
    PROVE  [BmNext]_bmvars
  <1>1. CASE ComputeSyndromes
    <2>1. received \in Family(Positions) /\ mu = 0 /\ Call(syndromes(received))
      BY <1>1 DEF ComputeSyndromes, DecoderInv, WordsInv, CallInv
    <2>2. syndromes(received) \in [Syndromes -> Symbols]
      BY <2>1, SyndromesLinear DEF Words
    <2> QED BY <2>1, <2>2 DEF BmNext
  <1>2. CASE Locate
    BY <1>2 DEF Locate, BmNext
  <1>3. CASE Encode \/ Disturb \/ Evaluate \/ ScanPosition \/ Verify \/ UNCHANGED vars
    BY <1>3 DEF Encode, Disturb, Evaluate, ScanPosition, Verify, vars
  <1> QED BY <1>1, <1>2, <1>3 DEF Next

\* What is computed at a position of the scan.
LEMMA ScannedPosition ==
    ASSUME DecoderInv, pc = "scan"
    PROVE  /\ i \in Positions /\ i \in Nat
           /\ IsRoot(InverseLocator(i)) <=> i \in Roots(sigma)
           /\ Forney(InverseLocator(i)) = ErrorValue(s, sigma, i)
           /\ corrected[i] = received[i]
  <1>1. i \in Positions /\ i \in Nat
    BY Sizes DEF DecoderInv, ScanInv
  <1>2. sigma \in Terms
    BY Located
  <1>3. IsRoot(InverseLocator(i)) <=> i \in Roots(sigma)
    BY <1>1, <1>2, RootIsKilled DEF IsRoot
  <1>4. Forney(InverseLocator(i)) = ErrorValue(s, sigma, i)
    BY DEF Forney, ErrorValue, DecoderInv, ScanInv
  <1>5. corrected = [p \in Positions |-> Scanned(p)]
    BY DEF DecoderInv, ScanInv
  <1>6. Scanned(i) = received[i]
    BY <1>1 DEF Scanned
  <1> QED BY <1>1, <1>3, <1>4, <1>5, <1>6

\* The invariant holds at the start,
LEMMA DecoderInit == Init => DecoderInv
  <1> SUFFICES ASSUME Init PROVE DecoderInv
    OBVIOUS
  <1>1. LengthInv /\ RegisterInv
    BY LengthInit, RegisterInit DEF Init
  <1>2. WordsInv
    BY RsAssumption DEF Init, WordsInv
  <1>3. CallInv /\ ScanInv /\ ResultInv
    BY DEF Init, BmInit, CallInv, ScanInv, ResultInv
  <1> QED BY <1>1, <1>2, <1>3 DEF DecoderInv

\* every step keeps what it says of the words,
LEMMA WordsNext ==
    ASSUME DecoderInv, [Next]_vars
    PROVE  WordsInv'
  <1>1. WordsInv
    BY DEF DecoderInv
  <1>2. CASE Encode
    BY <1>1, <1>2 DEF Encode, WordsInv
  <1>3. CASE Disturb
    <2>1. PICK e \in Errors : received' = [p \in Positions |-> plus(word[p], e[p])]
      BY <1>3 DEF Disturb
    <2>2. word = rs_encode(msg) /\ msg \in [0..K-1 -> Symbols]
      BY <1>1, <1>3 DEF Disturb, WordsInv
    <2>3. word \in Family(Positions)
      BY <2>2, Encoded
    <2>4. e \in [Positions -> Symbols]
      BY RsAssumption
    <2>5. \A p \in Positions : plus(word[p], e[p]) \in Symbols
      BY <2>3, <2>4, FieldLaws DEF Family
    <2>6. received' \in Family(Positions)
      BY <2>1, <2>5 DEF Family
    <2> QED BY <1>3, <2>2, <2>6 DEF Disturb, WordsInv
  <1>4. CASE ComputeSyndromes
    BY <1>1, <1>4 DEF ComputeSyndromes, WordsInv
  <1>5. CASE Locate
    BY <1>1, <1>5 DEF Locate, WordsInv
  <1>6. CASE Evaluate
    BY <1>1, <1>6 DEF Evaluate, WordsInv
  <1>7. CASE ScanPosition
    BY <1>1, <1>7 DEF ScanPosition, WordsInv
  <1>8. CASE Verify
    BY <1>1, <1>8 DEF Verify, WordsInv
  <1>9. CASE UNCHANGED vars
    BY <1>1, <1>9 DEF vars, WordsInv
  <1> QED BY <1>2, <1>3, <1>4, <1>5, <1>6, <1>7, <1>8, <1>9 DEF Next

\* of the call,
LEMMA CallNext ==
    ASSUME DecoderInv, [Next]_vars
    PROVE  CallInv'
  <1>1. CallInv /\ WordsInv /\ LengthInv
    BY DEF DecoderInv
  <1>2. CASE Encode
    BY <1>1, <1>2 DEF Encode, CallInv, bmvars
  <1>3. CASE Disturb
    BY <1>1, <1>3 DEF Disturb, CallInv, bmvars
  <1>4. CASE ComputeSyndromes
    BY <1>1, <1>4 DEF ComputeSyndromes, CallInv, Call
  <1>5. CASE Locate
    <2>1. running /\ s = syndromes(received) /\ pc = "locate" /\ received' = received
      BY <1>1, <1>5 DEF Locate, CallInv
    <2>2. CASE Iterate
      BY <1>5, <2>1, <2>2 DEF Locate, Iterate, CallInv
    <2>3. CASE Finish
      <3>1. running' = FALSE /\ mu' = 2*Delta - 1 /\ s' = s
        BY <2>3 DEF Finish
      <3>2. 2*Delta - 1 > 0
        BY Sizes
      <3> QED BY <1>5, <2>1, <3>1, <3>2 DEF Locate, CallInv
    <2> QED BY <1>5, <2>2, <2>3 DEF Locate
  <1>6. CASE Evaluate
    BY <1>1, <1>6 DEF Evaluate, CallInv, bmvars
  <1>7. CASE ScanPosition
    BY <1>1, <1>7 DEF ScanPosition, CallInv, bmvars
  <1>8. CASE Verify
    BY <1>1, <1>8 DEF Verify, CallInv, bmvars
  <1>9. CASE UNCHANGED vars
    BY <1>1, <1>9 DEF vars, CallInv, bmvars
  <1> QED BY <1>2, <1>3, <1>4, <1>5, <1>6, <1>7, <1>8, <1>9 DEF Next

\* of the scan,
LEMMA ScanNext ==
    ASSUME DecoderInv, [Next]_vars
    PROVE  ScanInv'
  <1>1. ScanInv
    BY DEF DecoderInv
  <1>2. CASE Encode
    BY <1>1, <1>2 DEF Encode, ScanInv, bmvars
  <1>3. CASE Disturb
    BY <1>1, <1>3 DEF Disturb, ScanInv, bmvars
  <1>4. CASE ComputeSyndromes
    BY <1>1, <1>4 DEF ComputeSyndromes, ScanInv
  <1>5. CASE Locate
    BY <1>1, <1>5 DEF Locate, ScanInv
  <1>6. CASE Evaluate
    <2>1. /\ pc = "evaluate" /\ pc' = "scan" /\ i = 0 /\ i' = 0 /\ num_roots' = 0
          /\ s' = s /\ sigma' = sigma /\ received' = received /\ corrected' = received
          /\ omega' = error_evaluator(s, sigma) /\ sigma_prime' = formal_derivative(sigma)
      BY <1>1, <1>6 DEF Evaluate, ScanInv, bmvars
    <2>2. received \in Family(Positions)
      BY <2>1, Located
    <2>3. 0 \in 0..N1 /\ 0 < N1 /\ \A p \in Positions : ~(p < 0)
      BY Sizes
    <2>4. received = [p \in Positions |-> Scanned(p)']
      <3>1. \A p \in Positions : Scanned(p)' = received[p]
        BY <2>1, <2>3 DEF Scanned
      <3> QED BY <2>2, <3>1 DEF Family
    <2>5. Cardinality({p \in Roots(sigma) : p < 0}) = 0
      <3>1. {p \in Roots(sigma) : p < 0} = {}
        BY <2>3 DEF Roots
      <3> QED BY <3>1, FS_EmptySet
    <2> QED BY <2>1, <2>3, <2>4, <2>5 DEF ScanInv
  <1>7. CASE ScanPosition
    <2> DEFINE at == InverseLocator(i)
    <2>1. /\ pc = "scan" /\ i' = i + 1 /\ pc' = (IF i + 1 < N1 THEN "scan" ELSE "verify")
          /\ s' = s /\ sigma' = sigma /\ received' = received
          /\ omega' = omega /\ sigma_prime' = sigma_prime
          /\ corrected' = [corrected EXCEPT ![i] =
                              IF IsRoot(at) THEN plus(@, Forney(at)) ELSE @]
          /\ num_roots' = IF IsRoot(at) THEN num_roots + 1 ELSE num_roots
      BY <1>7 DEF ScanPosition, bmvars
    <2>2. /\ i \in Positions /\ i \in Nat
          /\ IsRoot(at) <=> i \in Roots(sigma)
          /\ Forney(at) = ErrorValue(s, sigma, i)
          /\ corrected[i] = received[i]
      BY <2>1, ScannedPosition
    <2> HIDE DEF at
    <2>3. /\ omega = error_evaluator(s, sigma) /\ sigma_prime = formal_derivative(sigma)
          /\ i < N1 /\ corrected = [p \in Positions |-> Scanned(p)]
          /\ num_roots = Cardinality({p \in Roots(sigma) : p < i})
      BY <1>1, <2>1 DEF ScanInv
    <2>4. /\ \A p \in Positions : p < i + 1 <=> (p < i \/ p = i)
          /\ ~(i < i) /\ i + 1 \in 0..N1 /\ (~(i + 1 < N1) => i + 1 = N1)
      BY <2>2, <2>3, Sizes
    <2>5. corrected' = [p \in Positions |-> Scanned(p)']
      <3>1. ASSUME NEW p \in Positions PROVE corrected'[p] = Scanned(p)'
        <4>1. CASE p = i
          <5>1. corrected'[p] = IF IsRoot(at) THEN plus(received[p], ErrorValue(s, sigma, p)) ELSE received[p]
            BY <2>1, <2>2, <2>3, <4>1
          <5>2. Scanned(p)' = IF p \in Roots(sigma) THEN plus(received[p], ErrorValue(s, sigma, p)) ELSE received[p]
            BY <2>1, <2>4, <4>1 DEF Scanned
          <5> QED BY <2>2, <4>1, <5>1, <5>2
        <4>2. CASE p # i
          <5>1. corrected'[p] = Scanned(p)
            BY <2>1, <2>3, <4>2
          <5>2. Scanned(p)' = Scanned(p)
            BY <2>1, <2>4, <4>2 DEF Scanned
          <5> QED BY <5>1, <5>2
        <4> QED BY <4>1, <4>2
      <3>2. corrected' = [p \in Positions |-> corrected'[p]]
        BY <2>1, <2>3
      <3> QED BY <3>1, <3>2
    <2>6. num_roots' = Cardinality({p \in Roots(sigma) : p < i + 1})
      <3> DEFINE S == {p \in Roots(sigma) : p < i}
      <3>1. Roots(sigma) \subseteq Positions
        BY DEF Roots
      <3>2. IsFiniteSet(S) /\ i \notin S
        <4>1. S \subseteq Positions
          BY <3>1
        <4>2. IsFiniteSet(S)
          BY <4>1, Sizes, FS_Subset
        <4> QED BY <2>4, <4>2
      <3>3. {p \in Roots(sigma) : p < i + 1} = IF i \in Roots(sigma) THEN S \cup {i} ELSE S
        BY <2>4, <3>1
      <3>4. Cardinality(S \cup {i}) = Cardinality(S) + 1
        BY <3>2, FS_AddElement
      <3> HIDE DEF S
      <3> QED BY <2>1, <2>2, <2>3, <3>3, <3>4 DEF S
    <2> QED BY <2>1, <2>3, <2>4, <2>5, <2>6 DEF ScanInv
  <1>8. CASE Verify
    BY <1>1, <1>8 DEF Verify, ScanInv, Scanned, bmvars
  <1>9. CASE UNCHANGED vars
    BY <1>1, <1>9 DEF vars, ScanInv, Scanned, bmvars
  <1> QED BY <1>2, <1>3, <1>4, <1>5, <1>6, <1>7, <1>8, <1>9 DEF Next

\* and of the answer.
LEMMA ResultNext ==
    ASSUME DecoderInv, [Next]_vars
    PROVE  ResultInv'
  <1>1. ResultInv
    BY DEF DecoderInv
  <1>2. CASE Verify
    <2>1. /\ pc' = "done" /\ corrected' = corrected /\ num_roots' = num_roots /\ deg_sigma' = deg_sigma
          /\ result' = IF Valid THEN [t \in 0..K-1 |-> corrected[NK + t]] ELSE Nothing
      BY <1>2 DEF Verify, bmvars
    <2>2. Valid' <=> Valid
      BY <2>1 DEF Valid
    <2> QED BY <2>1, <2>2 DEF ResultInv
  <1>3. CASE Encode
    BY <1>1, <1>3 DEF Encode, ResultInv
  <1>4. CASE Disturb
    BY <1>1, <1>4 DEF Disturb, ResultInv
  <1>5. CASE ComputeSyndromes
    BY <1>1, <1>5 DEF ComputeSyndromes, ResultInv
  <1>6. CASE Locate
    BY <1>1, <1>6 DEF Locate, ResultInv
  <1>7. CASE Evaluate
    BY <1>1, <1>7 DEF Evaluate, ResultInv
  <1>8. CASE ScanPosition
    BY <1>1, <1>8 DEF ScanPosition, ResultInv
  <1>9. CASE UNCHANGED vars
    BY <1>1, <1>9 DEF vars, bmvars, ResultInv, Valid
  <1> QED BY <1>2, <1>3, <1>4, <1>5, <1>6, <1>7, <1>8, <1>9 DEF Next

\* It holds in every reachable state.
LEMMA DecoderInvariant == Spec => []DecoderInv
  <1>1. DecoderInv /\ [Next]_vars => DecoderInv'
    <2> SUFFICES ASSUME DecoderInv, [Next]_vars PROVE DecoderInv'
      OBVIOUS
    <2>1. [BmNext]_bmvars
      BY StepOfRegister
    <2>2. LengthInv' /\ RegisterInv'
      BY <2>1, LengthNext, RegisterNext DEF DecoderInv
    <2> QED BY <2>2, WordsNext, CallNext, ScanNext, ResultNext DEF DecoderInv
  <1> QED BY <1>1, DecoderInit, PTL DEF Spec

-----------------------------------------------------------------------------
(* The theorems.                                                           *)

\* rs_encode is systematic and what it returns has zero syndromes, for every code and
\* every message.
THEOREM EncodingIsSystematic == Spec => []EncodesSystematically
  <1>1. DecoderInv => EncodesSystematically
    <2> SUFFICES ASSUME DecoderInv, word # Pending
                 PROVE  (\A t \in 0..K-1 : word[NK + t] = msg[t]) /\ HasZeroSyndromes(word)
      BY DEF EncodesSystematically
    <2>1. word = rs_encode(msg) /\ msg \in [0..K-1 -> Symbols]
      BY DEF DecoderInv, WordsInv
    <2> QED BY <2>1, Encoded
  <1> QED BY <1>1, DecoderInvariant, PTL

\* The codeword that was sent.
LEMMA Sent ==
    ASSUME DecoderInv, pc # "encode"
    PROVE  word \in Family(Positions) /\ syndromes(word) = ZeroOn(Syndromes) /\ word = rs_encode(msg)
           /\ msg \in [0..K-1 -> Symbols]
  BY Encoded DEF DecoderInv, WordsInv

\* With at most Delta errors, whatever they are, the register's length is their number,
\* its roots are their positions, and the scan puts every position right.
THEOREM ScanAlwaysCorrects == Spec => []ScanCorrects
  <1>1. DecoderInv => ScanCorrects
    <2> SUFFICES ASSUME DecoderInv, pc \in {"scan", "verify", "done"},
                        Cardinality(ErrorPositions) <= Delta
                 PROVE  /\ deg_sigma = Cardinality(ErrorPositions)
                        /\ \A p \in Positions : IsRoot(InverseLocator(p)) <=> p \in ErrorPositions
                        /\ num_roots = Cardinality({p \in ErrorPositions : p < i})
                        /\ \A p \in 0..i-1 : corrected[p] = word[p]
      BY DEF ScanCorrects
    <2>1. /\ received \in Family(Positions) /\ s = syndromes(received)
          /\ deg_sigma \in Nat /\ Locates(s, sigma, deg_sigma, 2*Delta) /\ sigma \in Terms
      BY Located
    <2>2. word \in Family(Positions) /\ syndromes(word) = ZeroOn(Syndromes)
      BY Sent
    <2>3. ErrorPositions = Differing(received, word)
      BY DEF ErrorPositions, Differing
    <2>4. /\ deg_sigma = Cardinality(ErrorPositions) /\ Roots(sigma) = ErrorPositions
          /\ \A p \in Roots(sigma) : plus(received[p], ErrorValue(s, sigma, p)) = word[p]
      BY <2>1, <2>2, <2>3, NearCodeword
    <2>5. \A p \in Positions : IsRoot(InverseLocator(p)) <=> p \in ErrorPositions
      BY <2>1, <2>4, RootIsKilled DEF IsRoot
    <2>6. /\ i \in 0..N1 /\ corrected = [p \in Positions |-> Scanned(p)]
          /\ num_roots = Cardinality({p \in Roots(sigma) : p < i})
      BY DEF DecoderInv, ScanInv
    <2>7. ASSUME NEW p \in 0..i-1 PROVE corrected[p] = word[p]
      <3>1. p \in Positions /\ p < i
        BY <2>6, Sizes
      <3>2. CASE p \in Roots(sigma)
        BY <2>4, <2>6, <3>1, <3>2 DEF Scanned
      <3>3. CASE p \notin Roots(sigma)
        <4>1. received[p] = word[p]
          BY <2>4, <3>1, <3>3 DEF ErrorPositions
        <4> QED BY <2>6, <3>1, <3>3, <4>1 DEF Scanned
      <3> QED BY <3>2, <3>3
    <2> QED BY <2>4, <2>5, <2>6, <2>7
  <1> QED BY <1>1, DecoderInvariant, PTL

\* After the scan, the word was changed by the error values at the roots.
LEMMA ScanDone ==
    ASSUME DecoderInv, pc \in {"verify", "done"}
    PROVE  \E f : /\ Corrects(f, s, sigma) /\ f \in Family(Positions)
                  /\ corrected = Added(received, f)
                  /\ num_roots = Cardinality(Roots(sigma))
  <1> DEFINE f == [p \in Positions |-> IF p \in Roots(sigma) THEN ErrorValue(s, sigma, p) ELSE 0]
  <1>1. received \in Family(Positions) /\ s \in Words /\ sigma \in Terms
    BY Located
  <1>2. /\ i = N1 /\ corrected = [p \in Positions |-> Scanned(p)]
        /\ num_roots = Cardinality({p \in Roots(sigma) : p < i})
    BY DEF DecoderInv, ScanInv
  <1>3. \A p \in Positions : p < i
    BY <1>2, Sizes
  <1>4. \A p \in Positions : ErrorValue(s, sigma, p) \in Symbols
    <2> SUFFICES ASSUME NEW p \in Positions PROVE ErrorValue(s, sigma, p) \in Symbols
      OBVIOUS
    <2>1. InverseLocator(p) \in Symbols
      BY LocatorLaws
    <2>2. error_evaluator(s, sigma) \in Words /\ formal_derivative(sigma) \in Terms
      BY <1>1, EvaluatorType
    <2> DEFINE a == gf_poly_eval(error_evaluator(s, sigma), NK - 1, InverseLocator(p))
               b == gf_poly_eval(formal_derivative(sigma), Delta, InverseLocator(p))
    <2>3. a \in Symbols /\ b \in Symbols
      BY <2>1, <2>2, ValueType
    <2> HIDE DEF a, b
    <2>4. times(a, inverse(b)) \in Symbols
      BY <2>3, BmAssumption
    <2> QED BY <2>4 DEF ErrorValue, a, b
  <1>5. f \in Family(Positions)
    BY <1>4, FieldLaws DEF Family
  <1>6. \A p \in Positions : f[p] = IF p \in Roots(sigma) THEN ErrorValue(s, sigma, p) ELSE 0
    OBVIOUS
  <1> HIDE DEF f
  <1>7. Corrects(f, s, sigma)
    BY <1>5, <1>6 DEF Corrects
  <1>8. ASSUME NEW p \in Positions PROVE Scanned(p) = plus(received[p], f[p])
    <2>1. received[p] \in Symbols
      BY <1>1 DEF Family
    <2>2. plus(received[p], 0) = received[p]
      BY <2>1, FieldLaws
    <2> QED BY <1>3, <1>6, <2>2 DEF Scanned
  <1>9. corrected = Added(received, f)
    BY <1>2, <1>8 DEF Added
  <1>10. {p \in Roots(sigma) : p < i} = Roots(sigma)
    BY <1>3 DEF Roots
  <1> QED BY <1>2, <1>5, <1>7, <1>9, <1>10

\* The syndromes of the corrected word are zero exactly when the locator's degree and
\* the number of its roots say so, for every word whatsoever.
LEMMA Agree ==
    ASSUME DecoderInv, pc \in {"verify", "done"}
    PROVE  /\ corrected \in Family(Positions)
           /\ HasZeroSyndromes(corrected) <=> syndromes(corrected) = ZeroOn(Syndromes)
           /\ HasZeroSyndromes(corrected) <=> deg_sigma <= Delta /\ num_roots = deg_sigma
  <1>1. /\ received \in Family(Positions) /\ s = syndromes(received) /\ s \in Words
        /\ deg_sigma \in Nat /\ Locates(s, sigma, deg_sigma, 2*Delta)
    BY Located
  <1>2. PICK f : /\ Corrects(f, s, sigma) /\ f \in Family(Positions)
                 /\ corrected = Added(received, f)
                 /\ num_roots = Cardinality(Roots(sigma))
    BY ScanDone
  <1>3. /\ corrected \in Family(Positions)
        /\ syndromes(corrected) = ZeroOn(Syndromes) <=> s = syndromes(f)
    BY <1>1, <1>2, AddedSyndromes
  <1>4. syndromes(f) = s <=> (deg_sigma <= Delta /\ Cardinality(Roots(sigma)) = deg_sigma)
    BY <1>1, <1>2, CorrectionsAgree
  <1>5. HasZeroSyndromes(corrected) <=> syndromes(corrected) = ZeroOn(Syndromes)
    <2>1. Syndromes = 0..NK-1
      BY Sizes
    <2> QED BY <2>1 DEF HasZeroSyndromes, ZeroOn
  <1> QED BY <1>2, <1>3, <1>4, <1>5

\* rs_decode's three final checks are one: no word passes one of them and fails another.
THEOREM ChecksAlwaysAgree == Spec => []ChecksAgree
  <1>1. DecoderInv => ChecksAgree
    BY Agree DEF ChecksAgree
  <1> QED BY <1>1, DecoderInvariant, PTL

-----------------------------------------------------------------------------
(* Refinement: rs_decode implements BoundedDistance.                       *)

\* The number of positions two words differ at.
LEMMA DifferencesAre ==
    ASSUME NEW a \in Family(Positions), NEW b
    PROVE  Bounded!Differences(a, b) = Cardinality(Differing(a, b))
  <1>1. \A S : Bounded!Cardinality(S) = Cardinality(S)
    BY Zenon DEF Bounded!Cardinality, Cardinality
  <1>2. DOMAIN a = Positions
    BY DEF Family
  <1> QED BY <1>1, <1>2 DEF Bounded!Differences, Differing

\* What is answered is near, and when nothing is answered nothing is.
LEMMA AnswerIsNear ==
    ASSUME DecoderInv, pc = "verify"
    PROVE  /\ Valid => [t \in 0..K-1 |-> corrected[NK + t]] \in Bounded!Near
           /\ ~Valid => Bounded!Near = {}
           /\ [t \in 0..K-1 |-> corrected[NK + t]] # Pending
  <1> DEFINE m == [t \in 0..K-1 |-> corrected[NK + t]]
  <1>1. /\ received \in Family(Positions) /\ s = syndromes(received) /\ s \in Words
        /\ deg_sigma \in Nat /\ Locates(s, sigma, deg_sigma, 2*Delta)
    BY Located
  <1>2. PICK f : /\ Corrects(f, s, sigma) /\ f \in Family(Positions)
                 /\ corrected = Added(received, f)
                 /\ num_roots = Cardinality(Roots(sigma))
    BY ScanDone
  <1>3. /\ corrected \in Family(Positions)
        /\ HasZeroSyndromes(corrected) <=> syndromes(corrected) = ZeroOn(Syndromes)
        /\ Valid <=> HasZeroSyndromes(corrected)
        /\ Valid => deg_sigma <= Delta /\ num_roots = deg_sigma
    BY Agree DEF Valid
  <1>4. m \in [0..K-1 -> Symbols] /\ \A t \in 0..K-1 : corrected[NK + t] = m[t]
    <2>1. \A t \in 0..K-1 : NK + t \in Positions
      BY Sizes
    <2> QED BY <1>3, <2>1 DEF Family
  <1>5. m # Pending
    BY <1>4, RsAssumption
  <1> HIDE DEF m
  <1>6. ASSUME Valid PROVE m \in Bounded!Near
    <2>1. corrected = rs_encode(m)
      BY <1>3, <1>4, <1>6, IsEncoded
    <2>2. <<corrected, m>> \in Code
      BY <1>4, <2>1 DEF Code
    <2>3. Differing(corrected, received) \subseteq Roots(sigma)
      <3> SUFFICES ASSUME NEW p \in Positions, p \notin Roots(sigma) PROVE corrected[p] = received[p]
        BY DEF Differing
      <3>1. f[p] = 0 /\ received[p] \in Symbols
        BY <1>1, <1>2 DEF Corrects, Family
      <3>2. plus(received[p], 0) = received[p]
        BY <3>1, FieldLaws
      <3> QED BY <1>2, <3>1, <3>2 DEF Added
    <2>4. IsFiniteSet(Roots(sigma)) /\ Cardinality(Roots(sigma)) \in Nat
      <3>1. Roots(sigma) \in SUBSET Positions
        BY DEF Roots
      <3> QED BY <3>1, Sizes, FS_Subset, FS_CardinalityType
    <2>5. IsFiniteSet(Differing(corrected, received))
          /\ Cardinality(Differing(corrected, received)) <= Cardinality(Roots(sigma))
      BY <2>3, <2>4, FS_Subset
    <2>6. Cardinality(Differing(corrected, received)) <= Delta
      <3>1. Cardinality(Differing(corrected, received)) \in Nat /\ Delta \in Nat
        BY <2>5, Sizes, FS_CardinalityType
      <3> QED BY <1>2, <1>3, <1>6, <2>4, <2>5, <3>1
    <2>7. Bounded!Differences(corrected, received) <= Delta
      BY <1>3, <2>6, DifferencesAre
    <2>8. <<corrected, m>>[1] = corrected /\ <<corrected, m>>[2] = m
      OBVIOUS
    <2> QED BY <2>2, <2>7, <2>8 DEF Bounded!Near
  <1>7. ASSUME ~Valid, NEW x \in Bounded!Near PROVE FALSE
    <2>1. PICK c \in Code : Bounded!Differences(c[1], received) <= Delta
      BY <1>7 DEF Bounded!Near
    <2>2. PICK u \in [0..K-1 -> Symbols] : c = <<rs_encode(u), u>>
      BY DEF Code
    <2> DEFINE w == rs_encode(u)
    <2>3. w \in Family(Positions) /\ syndromes(w) = ZeroOn(Syndromes)
      BY Encoded
    <2>4. c[1] = w
      BY <2>2
    <2> HIDE DEF w
    <2>5. Differing(received, w) = Differing(w, received)
      BY DEF Differing
    <2>6. Cardinality(Differing(received, w)) <= Delta
      BY <2>1, <2>3, <2>4, <2>5, DifferencesAre
    <2>7. /\ deg_sigma = Cardinality(Differing(received, w)) /\ Roots(sigma) = Differing(received, w)
          /\ \A p \in Roots(sigma) : plus(received[p], ErrorValue(s, sigma, p)) = w[p]
      BY <1>1, <2>3, <2>6, NearCodeword
    <2>8. deg_sigma <= Delta /\ num_roots = deg_sigma
      BY <1>2, <2>6, <2>7
    <2>9. HasZeroSyndromes(corrected)
      BY <2>8, Agree
    <2> QED BY <1>3, <1>7, <2>9
  <1> QED BY <1>5, <1>6, <1>7 DEF m

\* Every step of the decoder asks, answers or does nothing that is seen.
LEMMA RefinementNext == DecoderInv /\ [Next]_vars => [Bounded!Ask \/ Bounded!Answer]_(Bounded!vars)
  <1> SUFFICES ASSUME DecoderInv, [Next]_vars
               PROVE  Bounded!Ask \/ Bounded!Answer \/ UNCHANGED <<received, result>>
    BY DEF Bounded!vars
  <1>1. CASE Disturb
    <2>1. received = Pending /\ result = Pending /\ result' = result
      BY <1>1 DEF Disturb, DecoderInv, WordsInv, ResultInv
    <2>2. WordsInv' /\ pc' = "syndromes"
      BY <1>1, WordsNext DEF Disturb
    <2>3. received' \in [Positions -> Symbols]
      BY <2>2 DEF WordsInv, Family
    <2>4. received' # Pending
      BY <2>3, RsAssumption
    <2> QED BY <2>1, <2>4 DEF Bounded!Ask
  <1>2. CASE Verify
    <2>1. /\ pc = "verify" /\ received' = received
          /\ result' = IF Valid THEN [t \in 0..K-1 |-> corrected[NK + t]] ELSE Nothing
      BY <1>2 DEF Verify
    <2>2. result = Pending
      BY <2>1 DEF DecoderInv, ResultInv
    <2>3. received \in [Positions -> Symbols]
      BY <2>1, Located DEF Family
    <2>4. received # Pending /\ Nothing # Pending
      BY <2>3, RsAssumption
    <2>5. CASE Valid
      <3>1. result' \in Bounded!Near /\ result' # Pending
        BY <2>1, <2>5, AnswerIsNear
      <3>2. Bounded!Near # {}
        BY <3>1
      <3> QED BY <2>1, <2>2, <2>4, <3>1, <3>2 DEF Bounded!Answer
    <2>6. CASE ~Valid
      <3>1. result' = Nothing /\ Bounded!Near = {}
        BY <2>1, <2>6, AnswerIsNear
      <3> QED BY <2>1, <2>2, <2>4, <3>1 DEF Bounded!Answer
    <2> QED BY <2>5, <2>6
  <1>3. CASE Encode \/ ComputeSyndromes \/ Locate \/ Evaluate \/ ScanPosition \/ UNCHANGED vars
    BY <1>3 DEF Encode, ComputeSyndromes, Locate, Evaluate, ScanPosition, vars
  <1> QED BY <1>1, <1>2, <1>3 DEF Next

\* rs_decode is a bounded-distance decoder, for every field, code and word: it answers
\* with the message of the codeword within Delta symbols when there is one, and with
\* nothing when there is none.
THEOREM DecodesWithinDelta == Spec => IsBoundedDistanceDecoder
  <1>1. Init => Bounded!Init
    BY DEF Init, Bounded!Init
  <1> QED BY <1>1, RefinementNext, DecoderInvariant, PTL
          DEF Spec, IsBoundedDistanceDecoder, Bounded!Spec

-----------------------------------------------------------------------------
(* The promise the concatenated code takes from this decoder.              *)

\* The messages Bounded!Near holds, for any word.
Answers(w) == {m \in [0..K-1 -> Symbols] : Cardinality(Differing(rs_encode(m), w)) <= Delta}

\* Within Delta symbols of a word there is one codeword at most.
LEMMA OneAnswer ==
    ASSUME NEW w \in Family(Positions), NEW m \in Answers(w), NEW n \in Answers(w)
    PROVE  m = n
  <1> DEFINE a == rs_encode(m)
             b == rs_encode(n)
  <1>1. m \in [0..K-1 -> Symbols] /\ n \in [0..K-1 -> Symbols]
        /\ Cardinality(Differing(a, w)) <= Delta /\ Cardinality(Differing(b, w)) <= Delta
    BY DEF Answers
  <1>2. /\ a \in Family(Positions) /\ syndromes(a) = ZeroOn(Syndromes)
        /\ \A t \in 0..K-1 : NK + t \in Positions /\ a[NK + t] = m[t]
    BY <1>1, Encoded
  <1>3. /\ b \in Family(Positions) /\ syndromes(b) = ZeroOn(Syndromes)
        /\ \A t \in 0..K-1 : NK + t \in Positions /\ b[NK + t] = n[t]
    BY <1>1, Encoded
  <1> HIDE DEF a, b
  <1> DEFINE e == Added(a, b)
             P == Differing(a, w)
             Q == Differing(b, w)
  <1>4. e \in Family(Positions) /\ Support(e) = Differing(a, b) /\ syndromes(e) = ZeroOn(Syndromes)
    BY <1>2, <1>3, AddedSyndromes
  <1> HIDE DEF e
  <1>5. /\ IsFiniteSet(P) /\ IsFiniteSet(Q) /\ Cardinality(P) \in Nat /\ Cardinality(Q) \in Nat
        /\ Cardinality(P \cap Q) \in Nat
    <2>1. P \in SUBSET Positions /\ Q \in SUBSET Positions /\ P \cap Q \in SUBSET Positions
      BY DEF Differing
    <2> HIDE DEF P, Q
    <2> QED BY <2>1, Sizes, FS_Subset, FS_CardinalityType
  <1>6. Support(e) \subseteq P \cup Q
    BY <1>4 DEF Differing
  <1> HIDE DEF P, Q
  <1>7. IsFiniteSet(P \cup Q) /\ Cardinality(P \cup Q) = Cardinality(P) + Cardinality(Q) - Cardinality(P \cap Q)
    BY <1>5, FS_Union
  <1>8. Cardinality(Support(e)) \in Nat /\ Cardinality(Support(e)) <= Cardinality(P \cup Q)
    BY <1>6, <1>7, FS_Subset, FS_CardinalityType
  <1>9. Cardinality(Support(e)) <= NK
    <2>1. Delta \in Nat /\ NK = 2 * Delta
      BY Sizes DEF NK
    <2>2. Cardinality(P) <= Delta /\ Cardinality(Q) <= Delta
      BY <1>1 DEF P, Q
    <2> QED BY <1>5, <1>7, <1>8, <2>1, <2>2
  <1>10. Support(e) = {}
    BY <1>4, <1>9, NoSyndromesNoErrors
  <1>11. \A p \in Positions : a[p] = b[p]
    BY <1>4, <1>10 DEF Differing
  <1>12. \A t \in 0..K-1 : m[t] = n[t]
    BY <1>2, <1>3, <1>11
  <1>13. m = [t \in 0..K-1 |-> m[t]] /\ n = [t \in 0..K-1 |-> n[t]]
    BY <1>1
  <1>14. [t \in 0..K-1 |-> m[t]] = [t \in 0..K-1 |-> n[t]]
    BY <1>12
  <1> QED BY <1>13, <1>14

\* What Codec!CodesPromise says of the outer code (rs_encode and rs_decode as called
\* from codes/mod.rs): whoever answers every word as BoundedDistance does, which
\* DecodesWithinDelta shows of rs_decode, answers every word that differs in at most
\* Delta symbols from what rs_encode made of a message with that message.
THEOREM OuterPromise ==
    ASSUME NEW decode,
           \A w \in Family(Positions) :
               decode[w] \in IF Answers(w) = {} THEN {Nothing} ELSE Answers(w)
    PROVE  \A m \in [0..K-1 -> Symbols] :
              /\ rs_encode(m) \in [Positions -> Symbols]
              /\ \A w \in [Positions -> Symbols] :
                    Cardinality({p \in Positions : w[p] # rs_encode(m)[p]}) <= Delta
                        => decode[w] = m
  <1> SUFFICES ASSUME NEW m \in [0..K-1 -> Symbols]
               PROVE  /\ rs_encode(m) \in [Positions -> Symbols]
                      /\ \A w \in [Positions -> Symbols] :
                            Cardinality({p \in Positions : w[p] # rs_encode(m)[p]}) <= Delta
                                => decode[w] = m
    OBVIOUS
  <1>1. rs_encode(m) \in [Positions -> Symbols]
    BY Encoded DEF Family
  <1>2. ASSUME NEW w \in [Positions -> Symbols],
               Cardinality({p \in Positions : w[p] # rs_encode(m)[p]}) <= Delta
        PROVE  decode[w] = m
    <2>1. {p \in Positions : w[p] # rs_encode(m)[p]} = Differing(rs_encode(m), w)
      BY DEF Differing
    <2>2. m \in Answers(w) /\ w \in Family(Positions)
      BY <1>2, <2>1 DEF Answers, Family
    <2>3. decode[w] \in Answers(w)
      BY <2>2
    <2> QED BY <2>2, <2>3, OneAnswer
  <1> QED BY <1>1, <1>2

-----------------------------------------------------------------------------
(* The field of gf.rs.  Sets of bits under XOR.                            *)

\* XOR is a commutative group in which everything is its own inverse.
LEMMA XorLaws ==
    /\ \A a, b : gf_add(a, b) = gf_add(b, a)
    /\ \A a, b, c : gf_add(gf_add(a, b), c) = gf_add(a, gf_add(b, c))
    /\ \A a : gf_add(a, {}) = a /\ gf_add({}, a) = a /\ gf_add(a, a) = {}
    /\ \A a, b : gf_add(a, b) = {} => a = b
    /\ \A a, b, D : a \in SUBSET D /\ b \in SUBSET D => gf_add(a, b) \in SUBSET D
    /\ \A a, b, p : p \in gf_add(a, b) <=> ~(p \in a <=> p \in b)
  BY DEF gf_add, SymDiff

\* Shifting commutes with XOR and with shifting.
LEMMA ShiftLaws ==
    /\ \A a, b \in SUBSET Nat : \A n \in Nat :
          Shift(gf_add(a, b), n) = gf_add(Shift(a, n), Shift(b, n))
    /\ \A a \in SUBSET Nat : Shift(a, 0) = a
    /\ \A a \in SUBSET Nat : \A m, n \in Nat : Shift(Shift(a, m), n) = Shift(a, m + n)
    /\ \A m, n \in Nat : \A a \in SUBSET (0..m-1) : Shift(a, n) \in SUBSET (0..m+n-1)
    /\ \A a \in SUBSET Nat : \A n \in Nat : Shift(a, n) \in SUBSET Nat
    /\ \A n : Shift({}, n) = {}
    /\ \A m, n : Shift({m}, n) = {m + n}
    /\ \A a, n, p : p \in Shift(a, n) <=> \E b \in a : p = b + n
  <1>1. \A a, n, p : p \in Shift(a, n) <=> \E b \in a : p = b + n
    BY DEF Shift
  <1>2. ASSUME NEW a \in SUBSET Nat, NEW n \in Nat, NEW p \in Nat
        PROVE  p \in Shift(a, n) <=> p >= n /\ p - n \in a
    <2>1. ASSUME NEW b \in a, p = b + n PROVE p >= n /\ p - n \in a
      <3>1. b \in Nat
        OBVIOUS
      <3>2. p >= n /\ p - n = b
        BY <2>1, <3>1
      <3> QED BY <3>2
    <2>2. ASSUME p \in Shift(a, n) PROVE p >= n /\ p - n \in a
      <3>1. PICK b \in a : p = b + n
        BY <2>2 DEF Shift
      <3> QED BY <2>1, <3>1
    <2>3. ASSUME p - n \in a PROVE p \in Shift(a, n)
      <3>1. p = (p - n) + n
        OBVIOUS
      <3> QED BY <1>1, <2>3, <3>1, Zenon
    <2> QED BY <2>2, <2>3
  <1>3. ASSUME NEW a \in SUBSET Nat, NEW n \in Nat PROVE Shift(a, n) \in SUBSET Nat
    <2>1. ASSUME NEW p \in Shift(a, n) PROVE p \in Nat
      <3>1. PICK b \in a : p = b + n
        BY DEF Shift
      <3>2. b \in Nat
        OBVIOUS
      <3> QED BY <3>1, <3>2
    <2> QED BY <2>1
  <1>4. \A a, b \in SUBSET Nat : gf_add(a, b) \in SUBSET Nat
    BY XorLaws
  <1>5. ASSUME NEW a \in SUBSET Nat, NEW b \in SUBSET Nat, NEW n \in Nat
        PROVE  Shift(gf_add(a, b), n) = gf_add(Shift(a, n), Shift(b, n))
    <2>1. /\ Shift(gf_add(a, b), n) \in SUBSET Nat
          /\ gf_add(Shift(a, n), Shift(b, n)) \in SUBSET Nat
      BY <1>3, <1>4
    <2>2. ASSUME NEW p \in Nat
          PROVE  p \in Shift(gf_add(a, b), n) <=> p \in gf_add(Shift(a, n), Shift(b, n))
      BY <1>2, <1>4, XorLaws
    <2> QED BY <2>1, <2>2
  <1>6. ASSUME NEW a \in SUBSET Nat PROVE Shift(a, 0) = a
    <2>1. ASSUME NEW p \in Nat PROVE p \in Shift(a, 0) <=> p \in a
      <3>1. p \in Shift(a, 0) <=> p >= 0 /\ p - 0 \in a
        BY <1>2
      <3>2. p >= 0 /\ p - 0 = p
        OBVIOUS
      <3> QED BY <3>1, <3>2
    <2>2. Shift(a, 0) \in SUBSET Nat
      BY <1>3
    <2> QED BY <2>1, <2>2
  <1>7. ASSUME NEW a \in SUBSET Nat, NEW m \in Nat, NEW n \in Nat
        PROVE  Shift(Shift(a, m), n) = Shift(a, m + n)
    <2>1. Shift(a, m) \in SUBSET Nat /\ m + n \in Nat
      BY <1>3
    <2>2. Shift(Shift(a, m), n) \in SUBSET Nat /\ Shift(a, m + n) \in SUBSET Nat
      BY <1>3, <2>1
    <2>3. ASSUME NEW p \in Nat PROVE p \in Shift(Shift(a, m), n) <=> p \in Shift(a, m + n)
      <3>1. p \in Shift(Shift(a, m), n) <=> p >= n /\ p - n \in Shift(a, m)
        BY <1>2, <2>1
      <3>2. p \in Shift(a, m + n) <=> p >= m + n /\ p - (m + n) \in a
        BY <1>2, <2>1
      <3>3. p >= n => p - n \in Nat /\ (p - n \in Shift(a, m) <=> p - n >= m /\ (p - n) - m \in a)
        BY <1>2
      <3>4. (p - n) - m = p - (m + n)
        OBVIOUS
      <3> QED BY <3>1, <3>2, <3>3, <3>4
    <2> QED BY <2>2, <2>3
  <1>8. ASSUME NEW m \in Nat, NEW n \in Nat, NEW a \in SUBSET (0..m-1)
        PROVE  Shift(a, n) \in SUBSET (0..m+n-1)
    <2>1. ASSUME NEW p \in Shift(a, n) PROVE p \in 0..m+n-1
      <3>1. PICK b \in a : p = b + n
        BY DEF Shift
      <3>2. b \in 0..m-1
        OBVIOUS
      <3> QED BY <3>1, <3>2
    <2> QED BY <2>1
  <1>9. /\ \A n : Shift({}, n) = {}
        /\ \A m, n : Shift({m}, n) = {m + n}
    BY DEF Shift
  <1> QED BY <1>1, <1>3, <1>5, <1>6, <1>7, <1>8, <1>9

LEMMA XorSubset ==
    ASSUME NEW D, NEW a \in SUBSET D, NEW b \in SUBSET D
    PROVE  gf_add(a, b) \in SUBSET D
  BY DEF gf_add, SymDiff

LEMMA ShiftBounds ==
    ASSUME NEW m \in Nat, NEW n \in Nat, NEW a \in SUBSET (0..m-1)
    PROVE  Shift(a, n) \in SUBSET (0..m+n-1)
  BY ShiftLaws

\* The numbers of bits.
LEMMA GfSizes ==
    /\ Bits \in Nat /\ Bits >= 1
    /\ Bits \in Modulus /\ Modulus \in SUBSET Nat /\ Modulus \in SUBSET (0..Bits+1-1)
    /\ Field \in SUBSET SUBSET Nat
    /\ Zero \in Field /\ One \in Field
  BY GfAssumption DEF Field, Zero, One

\* XOR of field elements is one.
LEMMA FieldAdd == \A a, b \in Field : gf_add(a, b) \in Field
  BY XorLaws DEF Field

\* A map that commutes with XOR.
Additive(D, F) ==
    \A a, b \in SUBSET D : F[gf_add(a, b)] = gf_add(F[a], F[b])

\* Maps that agree on the single bits, and on all sets of them.
SameOnBits(D, F, G) == \A p \in D : F[{p}] = G[{p}]
SameOnSets(D, F, G) == \A a \in SUBSET D : F[a] = G[a]

\* For maps that commute with XOR the first is enough.
LEMMA AdditiveEqual ==
    ASSUME NEW D, IsFiniteSet(D), NEW F, NEW G, Additive(D, F), Additive(D, G),
           SameOnBits(D, F, G)
    PROVE  SameOnSets(D, F, G)
  <1> DEFINE Same == {a \in SUBSET D : F[a] = G[a]}
  <1>1. {} \in Same
    <2>1. gf_add({}, {}) = {} /\ {} \in SUBSET D
      BY XorLaws
    <2>2. F[{}] = gf_add(F[{}], F[{}]) /\ G[{}] = gf_add(G[{}], G[{}])
      BY <2>1 DEF Additive
    <2>3. F[{}] = {} /\ G[{}] = {}
      BY <2>2, XorLaws
    <2> QED BY <2>3
  <1>2. ASSUME NEW a \in SUBSET D, NEW p \in D, a \in Same, p \notin a
        PROVE  a \cup {p} \in Same
    <2>1. a \cup {p} = gf_add(a, {p})
      BY <1>2 DEF gf_add, SymDiff
    <2>2. {p} \in SUBSET D /\ a \cup {p} \in SUBSET D
      OBVIOUS
    <2>3. /\ F[gf_add(a, {p})] = gf_add(F[a], F[{p}])
          /\ G[gf_add(a, {p})] = gf_add(G[a], G[{p}])
      BY <2>2 DEF Additive
    <2>4. F[a] = G[a] /\ F[{p}] = G[{p}]
      BY <1>2 DEF SameOnBits
    <2> QED BY <2>1, <2>2, <2>3, <2>4
  <1> HIDE DEF Same
  <1>3. SUBSET D \subseteq Same
    BY <1>1, <1>2, SubsetInduction
  <1> QED BY <1>3 DEF Same, SameOnSets

-----------------------------------------------------------------------------
(* The reduction.                                                          *)

\* The words it passes through, from the highest bit down.
IsReduction(r, x) ==
    /\ r \in [Bits..2*Bits-1 -> SUBSET Nat]
    /\ r[2*Bits - 1] = x
    /\ \A p \in Bits..2*Bits-2 :
          r[p] = IF p \in r[p + 1] THEN gf_add(r[p + 1], Shift(Modulus, p - Bits))
                 ELSE r[p + 1]

\* They are what gf_reduce computes,
LEMMA ReductionIs ==
    ASSUME NEW x, NEW r, IsReduction(r, x)
    PROVE  gf_reduce(x) = r[Bits]
  <1> DEFINE Step(h) == [p \in Bits..2*Bits-1 |->
                 IF p = 2*Bits-1 THEN x
                 ELSE IF p \in h[p + 1] THEN gf_add(h[p + 1], Shift(Modulus, p - Bits))
                 ELSE h[p + 1]]
             R == CHOOSE h : h = Step(h)
             top == 2*Bits - 1
  <1>1. gf_reduce(x) = R[Bits]
    BY Zenon DEF gf_reduce
  <1>2. r = Step(r)
    <2>1. \A p \in Bits..2*Bits-1 : p # 2*Bits-1 => p \in Bits..2*Bits-2
      BY GfSizes
    <2> QED BY <2>1 DEF IsReduction
  <1>3. R = Step(R)
    <2> HIDE DEF Step
    <2> QED BY <1>2, Zenon
  <1> HIDE DEF R
  <1> DEFINE Same == {k \in Nat : k <= Bits - 1 => R[top - k] = r[top - k]}
  <1>4. 0 \in Same
    <2>1. top \in Bits..2*Bits-1 /\ top - 0 = top
      BY GfSizes
    <2>2. R[top] = x
      BY <1>3, <2>1
    <2>3. r[top] = x
      BY DEF IsReduction
    <2> QED BY <2>1, <2>2, <2>3
  <1>5. ASSUME NEW k \in Nat, k \in Same PROVE k + 1 \in Same
    <2> SUFFICES ASSUME k + 1 <= Bits - 1 PROVE R[top - (k + 1)] = r[top - (k + 1)]
      OBVIOUS
    <2> DEFINE p == top - (k + 1)
    <2>1. p \in Bits..2*Bits-1 /\ p \in Bits..2*Bits-2 /\ p + 1 = top - k /\ p # 2*Bits-1
      BY GfSizes
    <2>2. R[p + 1] = r[p + 1]
      BY <1>5, <2>1, GfSizes
    <2> HIDE DEF p
    <2>3. R[p] = IF p \in R[p + 1] THEN gf_add(R[p + 1], Shift(Modulus, p - Bits)) ELSE R[p + 1]
      BY <1>3, <2>1
    <2>4. r[p] = IF p \in r[p + 1] THEN gf_add(r[p + 1], Shift(Modulus, p - Bits)) ELSE r[p + 1]
      BY <2>1 DEF IsReduction
    <2>5. R[p] = r[p]
      BY <2>2, <2>3, <2>4
    <2> QED BY <2>5 DEF p
  <1> HIDE DEF Same
  <1>6. Nat \subseteq Same
    BY <1>4, <1>5, NatSetInduction
  <1>7. R[Bits] = r[Bits]
    <2>1. Bits - 1 \in Nat /\ top - (Bits - 1) = Bits /\ Bits - 1 <= Bits - 1
      BY GfSizes
    <2> QED BY <1>6, <2>1 DEF Same
  <1> QED BY <1>1, <1>7

\* and they exist.
LEMMA ReductionExists ==
    ASSUME NEW x \in SUBSET Nat
    PROVE  \E r : IsReduction(r, x)
  <1> DEFINE top == 2*Bits - 1
             cleared(p, y) == IF p \in y THEN gf_add(y, Shift(Modulus, p - Bits)) ELSE y
             step == [k \in Nat |-> [y \in SUBSET Nat |->
                         IF k <= Bits - 2 THEN cleared(top - (k + 1), y) ELSE y]]
  <1>1. ASSUME NEW k \in Nat, k <= Bits - 2, NEW y \in SUBSET Nat
        PROVE  cleared(top - (k + 1), y) \in SUBSET Nat
    <2>1. top - (k + 1) - Bits \in Nat
      BY <1>1, GfSizes
    <2>2. Shift(Modulus, top - (k + 1) - Bits) \in SUBSET Nat
      BY <2>1, GfSizes, ShiftLaws
    <2>3. gf_add(y, Shift(Modulus, top - (k + 1) - Bits)) \in SUBSET Nat
      BY <2>2 DEF gf_add, SymDiff
    <2> QED BY <2>3
  <1>2. step \in [Nat -> [SUBSET Nat -> SUBSET Nat]]
    <2> HIDE DEF cleared
    <2> QED BY <1>1
  <1>3. \A k \in Nat : k <= Bits - 2 =>
            \A y \in SUBSET Nat : step[k][y] = cleared(top - (k + 1), y)
    <2> HIDE DEF cleared, top
    <2> QED OBVIOUS
  <1> HIDE DEF step
  <1>4. PICK h : h \in Sequences(SUBSET Nat, x, step)
    BY <1>2, PrimitiveRecursion
  <1>5. h \in [Nat -> SUBSET Nat] /\ h[0] = x /\ \A k \in Nat : h[k + 1] = step[k][h[k]]
    BY <1>4 DEF Sequences
  <1> DEFINE r == [p \in Bits..2*Bits-1 |-> h[top - p]]
  <1>6. r \in [Bits..2*Bits-1 -> SUBSET Nat]
    <2>1. \A p \in Bits..2*Bits-1 : top - p \in Nat
      BY GfSizes
    <2> QED BY <1>5, <2>1
  <1>7. r[2*Bits - 1] = x
    <2>1. 2*Bits-1 \in Bits..2*Bits-1 /\ top - (2*Bits - 1) = 0
      BY GfSizes
    <2> QED BY <1>5, <2>1
  <1>8. ASSUME NEW p \in Bits..2*Bits-2 PROVE r[p] = cleared(p, r[p + 1])
    <2> DEFINE k == top - (p + 1)
    <2>1. /\ k \in Nat /\ k <= Bits - 2 /\ top - (k + 1) = p /\ k + 1 = top - p
          /\ p \in Bits..2*Bits-1 /\ p + 1 \in Bits..2*Bits-1
      BY GfSizes
    <2>2. r[p] = h[k + 1] /\ r[p + 1] = h[k]
      BY <2>1
    <2> HIDE DEF k, r, cleared, top
    <2>3. h[k + 1] = step[k][h[k]] /\ h[k] \in SUBSET Nat
      BY <1>5, <2>1
    <2>4. step[k][h[k]] = cleared(p, h[k])
      BY <1>3, <2>1, <2>3
    <2> QED BY <2>2, <2>3, <2>4
  <1> HIDE DEF r
  <1>9. IsReduction(r, x)
    BY <1>6, <1>7, <1>8 DEF IsReduction
  <1> QED BY <1>9

\* The words below 2*Bits-1 bits, which is what is ever reduced.
Wide == SUBSET (0..2*Bits-1-1)

\* Each word has lost another bit, and the result is in the field.
LEMMA ReductionBounded ==
    ASSUME NEW x \in Wide, NEW r, IsReduction(r, x)
    PROVE  r[Bits] \in Field
  <1> DEFINE top == 2*Bits - 1
             Low == {k \in Nat : k <= Bits - 1 => r[top - k] \in SUBSET (0..top-k-1)}
  <1>1. 0 \in Low
    <2>1. top - 0 = top /\ r[top] = x
      BY GfSizes DEF IsReduction
    <2> QED BY <2>1, GfSizes DEF Wide
  <1>2. ASSUME NEW k \in Nat, k \in Low PROVE k + 1 \in Low
    <2> SUFFICES ASSUME k + 1 <= Bits - 1
                 PROVE  r[top - (k + 1)] \in SUBSET (0..top-(k+1)-1)
      OBVIOUS
    <2> DEFINE p == top - (k + 1)
    <2>1. /\ p \in Bits..2*Bits-2 /\ p + 1 = top - k /\ p - Bits \in Nat /\ p \in Nat
          /\ 0..top-k-1 = 0..p /\ 0..Bits+1+(p-Bits)-1 = 0..p
      BY GfSizes
    <2>2. r[p + 1] \in SUBSET (0..p)
      <3>1. k <= Bits - 1
        BY GfSizes
      <3> QED BY <1>2, <2>1, <3>1
    <2> HIDE DEF p
    <2>3. r[p] = IF p \in r[p + 1] THEN gf_add(r[p + 1], Shift(Modulus, p - Bits)) ELSE r[p + 1]
      BY <2>1 DEF IsReduction
    <2>4. Shift(Modulus, p - Bits) \in SUBSET (0..p)
      <3>1. Bits + 1 \in Nat
        BY GfSizes
      <3>2. Shift(Modulus, p - Bits) \in SUBSET (0..Bits+1+(p-Bits)-1)
        BY <2>1, <3>1, GfSizes, ShiftLaws
      <3> QED BY <2>1, <3>2
    <2>5. p \in Shift(Modulus, p - Bits)
      <3>1. p = Bits + (p - Bits)
        BY <2>1, GfSizes
      <3> QED BY <3>1, GfSizes, ShiftLaws
    <2>6. r[p] \in SUBSET (0..p) /\ p \notin r[p]
      <3>1. CASE p \in r[p + 1]
        <4>1. r[p] = gf_add(r[p + 1], Shift(Modulus, p - Bits))
          BY <2>3, <3>1
        <4>2. gf_add(r[p + 1], Shift(Modulus, p - Bits)) \in SUBSET (0..p)
          BY <2>2, <2>4, XorLaws
        <4>3. p \notin gf_add(r[p + 1], Shift(Modulus, p - Bits))
          BY <2>5, <3>1, XorLaws
        <4> QED BY <4>1, <4>2, <4>3
      <3>2. CASE p \notin r[p + 1]
        BY <2>2, <2>3, <3>2
      <3> QED BY <3>1, <3>2
    <2>7. r[p] \in SUBSET (0..p-1)
      <3>1. \A q \in 0..p : q # p => q \in 0..p-1
        BY <2>1
      <3> QED BY <2>6, <3>1
    <2> QED BY <2>7 DEF p
  <1> HIDE DEF Low
  <1>3. Nat \subseteq Low
    BY <1>1, <1>2, NatSetInduction
  <1>4. Bits - 1 \in Nat /\ top - (Bits - 1) = Bits /\ Bits - 1 <= Bits - 1
    BY GfSizes
  <1>5. r[Bits] \in SUBSET (0..Bits-1)
    BY <1>3, <1>4 DEF Low
  <1> QED BY <1>5 DEF Field

\* gf_reduce returns an element, commutes with XOR, leaves an element alone and takes
\* every multiple of the modulus to 0.
LEMMA ReduceLaws ==
    /\ \A x \in Wide : gf_reduce(x) \in Field
    /\ \A x, y \in Wide : gf_reduce(gf_add(x, y)) = gf_add(gf_reduce(x), gf_reduce(y))
    /\ \A a \in Field : gf_reduce(a) = a
    /\ \A k \in Nat : k <= Bits - 2 => gf_reduce(Shift(Modulus, k)) = {}
  <1>1. Wide \in SUBSET SUBSET Nat /\ Field \in SUBSET Wide
    BY GfSizes DEF Wide, Field
  <1>2. ASSUME NEW x \in Wide PROVE gf_reduce(x) \in Field
    <2>1. PICK r : IsReduction(r, x)
      BY <1>1, ReductionExists
    <2> QED BY <2>1, ReductionIs, ReductionBounded
  <1>3. ASSUME NEW x \in Wide, NEW y \in Wide
        PROVE  gf_reduce(gf_add(x, y)) = gf_add(gf_reduce(x), gf_reduce(y))
    <2>1. PICK r : IsReduction(r, x)
      BY <1>1, ReductionExists
    <2>2. PICK q : IsReduction(q, y)
      BY <1>1, ReductionExists
    <2> DEFINE t == [p \in Bits..2*Bits-1 |-> gf_add(r[p], q[p])]
    <2>3. /\ r \in [Bits..2*Bits-1 -> SUBSET Nat] /\ r[2*Bits - 1] = x
          /\ q \in [Bits..2*Bits-1 -> SUBSET Nat] /\ q[2*Bits - 1] = y
      BY <2>1, <2>2 DEF IsReduction
    <2>4. t \in [Bits..2*Bits-1 -> SUBSET Nat]
      BY <2>3, XorLaws
    <2>5. t[2*Bits - 1] = gf_add(x, y)
      <3>1. 2*Bits - 1 \in Bits..2*Bits-1
        BY GfSizes
      <3> QED BY <2>3, <3>1
    <2>6. ASSUME NEW p \in Bits..2*Bits-2
          PROVE  t[p] = IF p \in t[p + 1] THEN gf_add(t[p + 1], Shift(Modulus, p - Bits)) ELSE t[p + 1]
      <3> DEFINE M == Shift(Modulus, p - Bits)
      <3>1. p \in Bits..2*Bits-1 /\ p + 1 \in Bits..2*Bits-1
        BY GfSizes
      <3>2. t[p] = gf_add(r[p], q[p]) /\ t[p + 1] = gf_add(r[p + 1], q[p + 1])
        BY <3>1
      <3>3. r[p] = IF p \in r[p + 1] THEN gf_add(r[p + 1], M) ELSE r[p + 1]
        BY <2>1 DEF IsReduction
      <3>4. q[p] = IF p \in q[p + 1] THEN gf_add(q[p + 1], M) ELSE q[p + 1]
        BY <2>2 DEF IsReduction
      <3> HIDE DEF t, M
      <3>5. p \in t[p + 1] <=> ~(p \in r[p + 1] <=> p \in q[p + 1])
        BY <3>2, XorLaws
      <3>6. /\ gf_add(gf_add(r[p + 1], M), q[p + 1]) = gf_add(gf_add(r[p + 1], q[p + 1]), M)
            /\ gf_add(r[p + 1], gf_add(q[p + 1], M)) = gf_add(gf_add(r[p + 1], q[p + 1]), M)
            /\ gf_add(gf_add(r[p + 1], M), gf_add(q[p + 1], M)) = gf_add(r[p + 1], q[p + 1])
        BY DEF gf_add, SymDiff
      <3>7. t[p] = IF p \in t[p + 1] THEN gf_add(t[p + 1], M) ELSE t[p + 1]
        BY <3>2, <3>3, <3>4, <3>5, <3>6
      <3> QED BY <3>7 DEF M
    <2> HIDE DEF t
    <2>7. IsReduction(t, gf_add(x, y))
      BY <2>4, <2>5, <2>6 DEF IsReduction
    <2>8. gf_reduce(gf_add(x, y)) = t[Bits] /\ gf_reduce(x) = r[Bits] /\ gf_reduce(y) = q[Bits]
      BY <2>1, <2>2, <2>7, ReductionIs
    <2>9. Bits \in Bits..2*Bits-1
      BY GfSizes
    <2> QED BY <2>8, <2>9 DEF t
  <1>4. ASSUME NEW a \in Field PROVE gf_reduce(a) = a
    <2> DEFINE r == [p \in Bits..2*Bits-1 |-> a]
    <2>1. r \in [Bits..2*Bits-1 -> SUBSET Nat]
      BY GfSizes
    <2>2. 2*Bits - 1 \in Bits..2*Bits-1 /\ Bits \in Bits..2*Bits-1
      BY GfSizes
    <2>3. \A p \in Bits..2*Bits-2 :
              p \in Bits..2*Bits-1 /\ p + 1 \in Bits..2*Bits-1 /\ p \notin 0..Bits-1
      BY GfSizes
    <2>4. \A p \in Bits..2*Bits-2 : r[p] = a /\ r[p + 1] = a /\ p \notin a
      BY <2>3 DEF Field
    <2>5. r[2*Bits - 1] = a /\ r[Bits] = a
      BY <2>2
    <2> HIDE DEF r
    <2>6. IsReduction(r, a)
      BY <2>1, <2>4, <2>5 DEF IsReduction
    <2> QED BY <2>5, <2>6, ReductionIs
  <1>5. ASSUME NEW k \in Nat, k <= Bits - 2 PROVE gf_reduce(Shift(Modulus, k)) = {}
    <2> DEFINE M == Shift(Modulus, k)
               r == [p \in Bits..2*Bits-1 |-> IF p > Bits + k THEN M ELSE {}]
    <2>1. M \in SUBSET Nat /\ M \in SUBSET (0..Bits+1+k-1) /\ Bits + k \in M
      <3>1. Bits + 1 \in Nat
        BY GfSizes
      <3> QED BY <3>1, GfSizes, ShiftLaws
    <2> HIDE DEF M
    <2>2. r \in [Bits..2*Bits-1 -> SUBSET Nat]
      BY <2>1
    <2>3. r[2*Bits - 1] = M
      <3>1. 2*Bits - 1 \in Bits..2*Bits-1 /\ 2*Bits - 1 > Bits + k
        BY <1>5, GfSizes
      <3> QED BY <3>1
    <2>4. r[Bits] = {}
      <3>1. Bits \in Bits..2*Bits-1 /\ ~(Bits > Bits + k)
        BY GfSizes
      <3> QED BY <3>1
    <2>5. ASSUME NEW p \in Bits..2*Bits-2
          PROVE  r[p] = IF p \in r[p + 1] THEN gf_add(r[p + 1], Shift(Modulus, p - Bits)) ELSE r[p + 1]
      <3>1. p \in Bits..2*Bits-1 /\ p + 1 \in Bits..2*Bits-1 /\ p \in Nat
        BY GfSizes
      <3>2. r[p] = (IF p > Bits + k THEN M ELSE {}) /\ r[p + 1] = (IF p + 1 > Bits + k THEN M ELSE {})
        BY <3>1
      <3> HIDE DEF r
      <3>3. CASE p > Bits + k
        <4>1. p + 1 > Bits + k /\ p \notin 0..Bits+1+k-1
          BY <3>1, <3>3, GfSizes
        <4>2. p \notin M
          BY <2>1, <4>1
        <4> QED BY <3>2, <3>3, <4>1, <4>2
      <3>4. CASE p = Bits + k
        <4>1. p + 1 > Bits + k /\ ~(p > Bits + k) /\ p - Bits = k
          BY <3>1, <3>4, GfSizes
        <4>2. Shift(Modulus, p - Bits) = M
          BY <4>1 DEF M
        <4>3. r[p + 1] = M /\ r[p] = {} /\ p \in M
          BY <2>1, <3>2, <3>4, <4>1
        <4>4. gf_add(M, M) = {}
          BY XorLaws
        <4> QED BY <4>2, <4>3, <4>4
      <3>5. CASE p < Bits + k
        <4>1. ~(p + 1 > Bits + k) /\ ~(p > Bits + k)
          BY <3>1, <3>5, GfSizes
        <4>2. r[p + 1] = {} /\ r[p] = {}
          BY <3>2, <4>1
        <4> QED BY <4>2
      <3>6. p > Bits + k \/ p = Bits + k \/ p < Bits + k
        BY <3>1, GfSizes
      <3> QED BY <3>3, <3>4, <3>5, <3>6
    <2> HIDE DEF r
    <2>6. IsReduction(r, M)
      BY <2>2, <2>3, <2>5 DEF IsReduction
    <2>7. gf_reduce(M) = {}
      BY <2>4, <2>6, ReductionIs
    <2> QED BY <2>7 DEF M
  <1> QED BY <1>2, <1>3, <1>4, <1>5

-----------------------------------------------------------------------------
(* Multiplying by alpha.                                                   *)

\* TimesAlpha as a sum: what overflows is the modulus.
LEMMA TimesAlphaIs ==
    ASSUME NEW a \in Field
    PROVE  TimesAlpha(a) = gf_add(Shift(a, 1), IF Bits - 1 \in a THEN Modulus ELSE {})
  <1>1. a \in SUBSET Nat
    BY GfSizes
  <1>2. Bits \in Shift(a, 1) <=> Bits - 1 \in a
    <2>1. ASSUME NEW b \in a, Bits = b + 1 PROVE Bits - 1 \in a
      <3>1. b \in Nat
        BY <1>1
      <3>2. Bits - 1 = b
        BY <2>1, <3>1, GfSizes
      <3> QED BY <3>2
    <2>2. Bits = (Bits - 1) + 1
      BY GfSizes
    <2>3. Bits \in Shift(a, 1) <=> \E b \in a : Bits = b + 1
      BY ShiftLaws
    <2> QED BY <2>1, <2>2, <2>3
  <1> QED BY <1>2, XorLaws DEF TimesAlpha

\* It stays in the field and commutes with XOR.
LEMMA TimesAlphaLaws ==
    /\ \A a \in Field : TimesAlpha(a) \in Field
    /\ \A a, b \in Field : TimesAlpha(gf_add(a, b)) = gf_add(TimesAlpha(a), TimesAlpha(b))
    /\ TimesAlpha({}) = {}
  <1>1. ASSUME NEW a \in Field PROVE TimesAlpha(a) \in Field
    <2>1. Bits \in Nat /\ 0..Bits+1-1 = 0..Bits
      BY GfSizes
    <2>2. Shift(a, 1) \in SUBSET (0..Bits)
      <3>1. Shift(a, 1) \in SUBSET (0..Bits+1-1)
        BY <2>1, ShiftLaws DEF Field
      <3> QED BY <2>1, <3>1
    <2>3. Modulus \in SUBSET (0..Bits)
      BY <2>1, GfSizes
    <2>4. \A q \in 0..Bits : q # Bits => q \in 0..Bits-1
      BY <2>1
    <2>5. CASE Bits \in Shift(a, 1)
      <3>1. TimesAlpha(a) = gf_add(Shift(a, 1), Modulus)
        BY <2>5 DEF TimesAlpha
      <3>2. gf_add(Shift(a, 1), Modulus) \in SUBSET (0..Bits)
        BY <2>2, <2>3, XorSubset
      <3>3. Bits \notin gf_add(Shift(a, 1), Modulus)
        BY <2>5, GfSizes, XorLaws
      <3> QED BY <2>4, <3>1, <3>2, <3>3 DEF Field
    <2>6. CASE Bits \notin Shift(a, 1)
      <3>1. TimesAlpha(a) = Shift(a, 1)
        BY <2>6 DEF TimesAlpha
      <3> QED BY <2>2, <2>4, <2>6, <3>1 DEF Field
    <2> QED BY <2>5, <2>6
  <1>2. ASSUME NEW a \in Field, NEW b \in Field
        PROVE  TimesAlpha(gf_add(a, b)) = gf_add(TimesAlpha(a), TimesAlpha(b))
    <2> DEFINE over(c) == IF Bits - 1 \in c THEN Modulus ELSE {}
    <2>1. gf_add(a, b) \in Field /\ a \in SUBSET Nat /\ b \in SUBSET Nat
      BY FieldAdd, GfSizes
    <2>2. /\ TimesAlpha(a) = gf_add(Shift(a, 1), over(a))
          /\ TimesAlpha(b) = gf_add(Shift(b, 1), over(b))
          /\ TimesAlpha(gf_add(a, b)) = gf_add(Shift(gf_add(a, b), 1), over(gf_add(a, b)))
      BY <2>1, TimesAlphaIs
    <2>3. over(gf_add(a, b)) = gf_add(over(a), over(b))
      <3>1. Bits - 1 \in gf_add(a, b) <=> ~(Bits - 1 \in a <=> Bits - 1 \in b)
        BY XorLaws
      <3>2. gf_add(Modulus, Modulus) = {} /\ gf_add(Modulus, {}) = Modulus
            /\ gf_add({}, Modulus) = Modulus /\ gf_add({}, {}) = {}
        BY XorLaws
      <3> QED BY <3>1, <3>2
    <2> HIDE DEF over
    <2>4. Shift(gf_add(a, b), 1) = gf_add(Shift(a, 1), Shift(b, 1))
      BY <2>1, ShiftLaws
    <2>5. \A u, v, x, y : gf_add(gf_add(u, v), gf_add(x, y)) = gf_add(gf_add(u, x), gf_add(v, y))
      BY DEF gf_add, SymDiff
    <2> QED BY <2>2, <2>3, <2>4, <2>5
  <1>3. TimesAlpha({}) = {}
    <2>1. {} \in Field /\ Bits - 1 \notin {}
      BY GfSizes DEF Zero
    <2>2. Shift({}, 1) = {} /\ gf_add({}, {}) = {}
      BY ShiftLaws, XorLaws
    <2> QED BY <2>1, <2>2, TimesAlphaIs
  <1> QED BY <1>1, <1>2, <1>3

\* The words with room for one more shift.
Room == SUBSET (0..2*Bits-2-1)

LEMMA RoomWide ==
    /\ \A y \in Room : y \in Wide /\ Shift(y, 1) \in Wide /\ y \in SUBSET Nat
    /\ \A y, z \in Room : gf_add(y, z) \in Room
    /\ Field \in SUBSET Wide
  <1>1. /\ 2*Bits - 2 \in Nat /\ 2*Bits-2+1-1 = 2*Bits-1-1
        /\ 0..2*Bits-2-1 \in SUBSET (0..2*Bits-1-1) /\ 0..2*Bits-2-1 \in SUBSET Nat
    BY GfSizes
  <1>2. \A y \in Room : y \in Wide /\ y \in SUBSET Nat
    BY <1>1 DEF Room, Wide
  <1>3. ASSUME NEW y \in Room PROVE Shift(y, 1) \in Wide
    <2>1. Shift(y, 1) \in SUBSET (0..2*Bits-2+1-1)
      BY <1>1, ShiftLaws DEF Room
    <2> QED BY <1>1, <2>1 DEF Wide
  <1>4. \A y, z \in Room : gf_add(y, z) \in Room
    BY XorLaws DEF Room
  <1>5. Field \in SUBSET Wide
    <2>1. 0..Bits-1 \in SUBSET (0..2*Bits-1-1)
      BY GfSizes
    <2> QED BY <2>1 DEF Field, Wide
  <1> QED BY <1>2, <1>3, <1>4, <1>5

\* Shifting before the reduction is multiplying by alpha after it.
LEMMA ReduceShift == \A y \in Room : gf_reduce(Shift(y, 1)) = TimesAlpha(gf_reduce(y))
  <1> DEFINE F == [y \in Room |-> gf_reduce(Shift(y, 1))]
             G == [y \in Room |-> TimesAlpha(gf_reduce(y))]
  <1>0. \A y \in Room : F[y] = gf_reduce(Shift(y, 1)) /\ G[y] = TimesAlpha(gf_reduce(y))
    OBVIOUS
  <1> HIDE DEF F, G
  <1>1. ASSUME NEW y \in Room, NEW z \in Room
        PROVE  F[gf_add(y, z)] = gf_add(F[y], F[z]) /\ G[gf_add(y, z)] = gf_add(G[y], G[z])
    <2>1. gf_add(y, z) \in Room /\ y \in Wide /\ z \in Wide
          /\ y \in SUBSET Nat /\ z \in SUBSET Nat
          /\ Shift(y, 1) \in Wide /\ Shift(z, 1) \in Wide
      BY RoomWide
    <2>2. Shift(gf_add(y, z), 1) = gf_add(Shift(y, 1), Shift(z, 1))
      BY <2>1, ShiftLaws
    <2>3. gf_reduce(gf_add(Shift(y, 1), Shift(z, 1)))
             = gf_add(gf_reduce(Shift(y, 1)), gf_reduce(Shift(z, 1)))
      BY <2>1, ReduceLaws
    <2>4. gf_reduce(gf_add(y, z)) = gf_add(gf_reduce(y), gf_reduce(z))
          /\ gf_reduce(y) \in Field /\ gf_reduce(z) \in Field
      BY <2>1, ReduceLaws
    <2>5. TimesAlpha(gf_add(gf_reduce(y), gf_reduce(z)))
             = gf_add(TimesAlpha(gf_reduce(y)), TimesAlpha(gf_reduce(z)))
      BY <2>4, TimesAlphaLaws
    <2> QED BY <1>0, <2>1, <2>2, <2>3, <2>4, <2>5
  <1> DEFINE Rest == Modulus \ {Bits}
             Good == {n \in Nat : n <= 2*Bits - 2 => \A y \in SUBSET (0..n-1) : F[y] = G[y]}
  <1>2. ASSUME NEW n \in Nat, n <= 2*Bits - 2 PROVE SUBSET (0..n-1) \subseteq Room
    <2>1. 0..n-1 \subseteq 0..2*Bits-2-1
      BY <1>2, GfSizes
    <2> QED BY <2>1 DEF Room
  <1>3. 0 \in Good
    <2>1. {} \in Room /\ gf_add({}, {}) = {}
      BY XorLaws DEF Room
    <2>2. F[{}] = gf_add(F[{}], F[{}]) /\ G[{}] = gf_add(G[{}], G[{}])
      BY <1>1, <2>1
    <2>3. F[{}] = {} /\ G[{}] = {}
      BY <2>2, XorLaws
    <2>4. SUBSET (0..0-1) = {{}}
      OBVIOUS
    <2> QED BY <2>3, <2>4
  <1>4. ASSUME NEW n \in Nat, n \in Good PROVE n + 1 \in Good
    <2> SUFFICES ASSUME n + 1 <= 2*Bits - 2, NEW y \in SUBSET (0..n+1-1)
                 PROVE  F[y] = G[y]
      OBVIOUS
    <2>1. n <= 2*Bits - 2 /\ 0..n+1-1 = 0..n /\ IsFiniteSet(0..n) /\ n + 1 \in Nat
      BY GfSizes, FS_Interval
    <2>2. \A z \in SUBSET (0..n-1) : F[z] = G[z]
      BY <1>4, <2>1
    <2> HIDE DEF Good
    <2>3. Additive(0..n, F) /\ Additive(0..n, G)
      <3>1. SUBSET (0..n) \subseteq Room
        BY <1>2, <2>1
      <3> QED BY <1>1, <3>1 DEF Additive
    <2>4. ASSUME NEW p \in 0..n PROVE F[{p}] = G[{p}]
      <3>1. CASE p # n
        <4>1. {p} \in SUBSET (0..n-1)
          BY <3>1
        <4> QED BY <2>2, <4>1
      <3>2. CASE p = n /\ n < Bits - 1
        <4>1. {n} \in Field /\ {n + 1} \in Field /\ Bits - 1 \notin {n}
          BY <3>2, GfSizes DEF Field
        <4>2. {n} \in Room
          BY <1>2, <2>1
        <4>3. Shift({n}, 1) = {n + 1}
          BY ShiftLaws
        <4>4. gf_reduce({n}) = {n} /\ gf_reduce({n + 1}) = {n + 1}
          BY <4>1, ReduceLaws
        <4>5. TimesAlpha({n}) = {n + 1}
          <5>1. TimesAlpha({n}) = gf_add(Shift({n}, 1), {})
            BY <4>1, TimesAlphaIs
          <5> QED BY <4>3, <5>1, XorLaws
        <4> QED BY <1>0, <3>2, <4>2, <4>3, <4>4, <4>5
      <3>3. CASE p = n /\ n = Bits - 1
        <4>1. {n} \in Field /\ Bits - 1 \in {n} /\ n + 1 = Bits
          BY <3>3, GfSizes DEF Field
        <4>2. {n} \in Room
          BY <1>2, <2>1
        <4>3. Shift({n}, 1) = {Bits}
          BY <4>1, ShiftLaws
        <4>4. gf_reduce({n}) = {n}
          BY <4>1, ReduceLaws
        <4>5. TimesAlpha({n}) = gf_add({Bits}, Modulus)
          BY <4>1, <4>3, TimesAlphaIs
        <4>6. {Bits} = gf_add(Modulus, Rest) /\ gf_add({Bits}, Modulus) = Rest
          BY GfSizes DEF gf_add, SymDiff
        <4>7. Rest \in Field
          BY GfSizes DEF Field
        <4>8. Modulus \in Wide /\ Rest \in Wide /\ 0 <= Bits - 2 /\ Shift(Modulus, 0) = Modulus
          <5>1. Bits >= 2 /\ Bits + 1 - 1 <= 2*Bits-1-1
            BY <2>1, <3>3, GfSizes
          <5>2. 0..Bits+1-1 \subseteq 0..2*Bits-1-1
            BY <5>1, GfSizes
          <5>3. Modulus \in Wide /\ Rest \in Wide
            BY <5>2, GfSizes DEF Wide
          <5> QED BY <5>1, <5>3, GfSizes, ShiftLaws
        <4>9. gf_reduce(gf_add(Modulus, Rest)) = gf_add(gf_reduce(Modulus), gf_reduce(Rest))
          BY <4>8, ReduceLaws
        <4>10. gf_reduce(Modulus) = {} /\ gf_reduce(Rest) = Rest
          BY <4>7, <4>8, ReduceLaws
        <4>11. gf_reduce({Bits}) = Rest
          BY <4>6, <4>9, <4>10, XorLaws
        <4> QED BY <1>0, <3>3, <4>2, <4>3, <4>4, <4>5, <4>6, <4>11
      <3>4. CASE p = n /\ n > Bits - 1
        <4> DEFINE k == n - Bits
                   M == Shift(Modulus, k)
                   L == Shift(Rest, k)
        <4>1. k \in Nat /\ k <= Bits - 2 /\ k + 1 <= Bits - 2 /\ k + 1 \in Nat /\ Bits + k = n
          BY <2>1, <3>4, GfSizes
        <4>2. Rest \in SUBSET Nat /\ Rest \in SUBSET (0..Bits-1)
          BY GfSizes
        <4>3. L \in SUBSET (0..n-1)
          <5>1. Shift(Rest, k) \in SUBSET (0..Bits+k-1)
            BY <4>1, <4>2, GfSizes, ShiftBounds
          <5>2. 0..Bits+k-1 = 0..n-1
            BY <4>1, GfSizes
          <5> QED BY <5>1, <5>2
        <4>4. {n} = gf_add(M, L)
          <5>1. {Bits} \in SUBSET Nat /\ {Bits} = gf_add(Modulus, Rest)
            BY GfSizes DEF gf_add, SymDiff
          <5>2. Shift(gf_add(Modulus, Rest), k) = gf_add(Shift(Modulus, k), Shift(Rest, k))
            BY <4>1, <4>2, GfSizes, ShiftLaws
          <5>3. Shift({Bits}, k) = {n}
            BY <4>1, ShiftLaws
          <5> QED BY <5>1, <5>2, <5>3
        <4>5. L \in Room /\ {n} \in Room
          <5>1. SUBSET (0..n) \subseteq Room /\ SUBSET (0..n-1) \subseteq Room
            BY <1>2, <2>1
          <5>2. {n} \in SUBSET (0..n)
            OBVIOUS
          <5> QED BY <4>3, <5>1, <5>2
        <4>6. M \in Room
          <5>1. gf_add(gf_add(M, L), L) = M
            BY DEF gf_add, SymDiff
          <5> QED BY <4>4, <4>5, <5>1, RoomWide
        <4>7. Shift(M, 1) = Shift(Modulus, k + 1)
          BY <4>1, GfSizes, ShiftLaws
        <4>8. gf_reduce(M) = {} /\ gf_reduce(Shift(M, 1)) = {}
          BY <4>1, <4>7, ReduceLaws
        <4>9. F[M] = {} /\ G[M] = {}
          BY <1>0, <4>6, <4>8, TimesAlphaLaws
        <4>10. F[L] = G[L]
          BY <2>2, <4>3
        <4> HIDE DEF M, L
        <4>11. F[{n}] = gf_add(F[M], F[L]) /\ G[{n}] = gf_add(G[M], G[L])
          BY <1>1, <4>4, <4>5, <4>6
        <4> QED BY <3>4, <4>9, <4>10, <4>11
      <3>5. n < Bits - 1 \/ n = Bits - 1 \/ n > Bits - 1
        BY GfSizes
      <3> QED BY <3>1, <3>2, <3>3, <3>4, <3>5
    <2> DEFINE D == 0..n
    <2>6. IsFiniteSet(D) /\ Additive(D, F) /\ Additive(D, G)
      BY <2>1, <2>3
    <2>7. SameOnBits(D, F, G)
      BY <2>4 DEF SameOnBits
    <2> HIDE DEF D
    <2>8. SameOnSets(D, F, G)
      BY <2>6, <2>7, AdditiveEqual
    <2>5. \A z \in SUBSET (0..n) : F[z] = G[z]
      BY <2>8 DEF D, SameOnSets
    <2> QED BY <2>1, <2>5
  <1> HIDE DEF Good
  <1>5. Nat \subseteq Good
    BY <1>3, <1>4, NatSetInduction
  <1>6. 2*Bits - 2 \in Nat /\ 2*Bits - 2 <= 2*Bits - 2
    BY GfSizes
  <1>7. \A y \in Room : F[y] = G[y]
    BY <1>5, <1>6 DEF Good, Room
  <1> QED BY <1>0, <1>7

-----------------------------------------------------------------------------
(* The product.                                                            *)

OddMany(S) == Cardinality(S) % 2 = 1

\* Parity is additive for XOR.
LEMMA OddManyXor ==
    ASSUME NEW S, IsFiniteSet(S), NEW T, IsFiniteSet(T)
    PROVE  OddMany(gf_add(S, T)) <=> ~(OddMany(S) <=> OddMany(T))
  <1> DEFINE C == S \cap T
             A == S \ T
             B == T \ S
  <1>1. IsFiniteSet(A) /\ IsFiniteSet(B) /\ IsFiniteSet(C)
    BY FS_Difference, FS_Intersection
  <1>2. A \cap B = {} /\ A \cap C = {} /\ B \cap C = {} /\ Cardinality({}) = 0
    BY FS_EmptySet
  <1>3. A \cup C = S /\ B \cup C = T /\ A \cup B = gf_add(S, T)
    BY DEF gf_add, SymDiff
  <1> HIDE DEF A, B, C
  <1>4. /\ Cardinality(A \cup B) = Cardinality(A) + Cardinality(B) - Cardinality(A \cap B)
        /\ Cardinality(A \cup C) = Cardinality(A) + Cardinality(C) - Cardinality(A \cap C)
        /\ Cardinality(B \cup C) = Cardinality(B) + Cardinality(C) - Cardinality(B \cap C)
    BY <1>1, FS_Union
  <1>5. Cardinality(A) \in Nat /\ Cardinality(B) \in Nat /\ Cardinality(C) \in Nat
    BY <1>1, FS_CardinalityType
  <1>6. /\ Cardinality(gf_add(S, T)) = Cardinality(A) + Cardinality(B)
        /\ Cardinality(S) = Cardinality(A) + Cardinality(C)
        /\ Cardinality(T) = Cardinality(B) + Cardinality(C)
    <2>1. Cardinality(A \cap B) = 0 /\ Cardinality(A \cap C) = 0 /\ Cardinality(B \cap C) = 0
      BY <1>2
    <2>2. /\ Cardinality(A \cup B) = Cardinality(A) + Cardinality(B)
          /\ Cardinality(A \cup C) = Cardinality(A) + Cardinality(C)
          /\ Cardinality(B \cup C) = Cardinality(B) + Cardinality(C)
      BY <1>4, <1>5, <2>1
    <2> QED BY <1>3, <2>2
  <1>7. \A k, l, m \in Nat :
            (k + l) % 2 = 1 <=> ~((k + m) % 2 = 1 <=> (l + m) % 2 = 1)
    OBVIOUS
  <1> QED BY <1>5, <1>6, <1>7 DEF OddMany

\* What gf_mul reduces: the pairs of bits that add up to n, counted modulo 2.
Pairs(a, b, n) == {bit \in a : n - bit \in b}
Product(a, b) == {n \in 0..2*Bits-2 : OddMany(Pairs(a, b, n))}

LEMMA ProductIs ==
    /\ \A a, b : gf_mul(a, b) = gf_reduce(Product(a, b))
    /\ \A a, b : Product(a, b) \in Wide
    /\ \A a, b, n : n \in Product(a, b) <=> n \in 0..2*Bits-2 /\ OddMany(Pairs(a, b, n))
  <1>1. \A a, b : gf_mul(a, b) = gf_reduce(Product(a, b))
    BY Zenon DEF gf_mul, Product, OddMany, Pairs
  <1>2. 0..2*Bits-1-1 = 0..2*Bits-2
    BY GfSizes
  <1>3. \A a, b : Product(a, b) \in Wide
    BY <1>2 DEF Product, Wide
  <1>4. \A a, b, n : n \in Product(a, b) <=> n \in 0..2*Bits-2 /\ OddMany(Pairs(a, b, n))
    BY DEF Product
  <1> QED BY <1>1, <1>3, <1>4

\* It is linear in both factors,
LEMMA ProductAdditive ==
    ASSUME NEW a \in Field, NEW b \in Field, NEW c \in Field
    PROVE  /\ Product(gf_add(a, b), c) = gf_add(Product(a, c), Product(b, c))
           /\ Product(c, gf_add(a, b)) = gf_add(Product(c, a), Product(c, b))
  <1>1. IsFiniteSet(a) /\ IsFiniteSet(b) /\ IsFiniteSet(c)
    <2>1. IsFiniteSet(0..Bits-1)
      BY GfSizes, FS_Interval
    <2> QED BY <2>1, FS_Subset DEF Field
  <1>2. ASSUME NEW n, NEW u \in Field, NEW v
        PROVE  IsFiniteSet(Pairs(u, v, n))
    <2>1. IsFiniteSet(0..Bits-1)
      BY GfSizes, FS_Interval
    <2>2. Pairs(u, v, n) \in SUBSET (0..Bits-1)
      BY DEF Pairs, Field
    <2> QED BY <2>1, <2>2, FS_Subset
  <1>3. ASSUME NEW n
        PROVE  /\ Pairs(gf_add(a, b), c, n) = gf_add(Pairs(a, c, n), Pairs(b, c, n))
               /\ Pairs(c, gf_add(a, b), n) = gf_add(Pairs(c, a, n), Pairs(c, b, n))
    BY DEF Pairs, gf_add, SymDiff
  <1>4. ASSUME NEW n
        PROVE  /\ OddMany(Pairs(gf_add(a, b), c, n))
                     <=> ~(OddMany(Pairs(a, c, n)) <=> OddMany(Pairs(b, c, n)))
               /\ OddMany(Pairs(c, gf_add(a, b), n))
                     <=> ~(OddMany(Pairs(c, a, n)) <=> OddMany(Pairs(c, b, n)))
    <2>1. /\ IsFiniteSet(Pairs(a, c, n)) /\ IsFiniteSet(Pairs(b, c, n))
          /\ IsFiniteSet(Pairs(c, a, n)) /\ IsFiniteSet(Pairs(c, b, n))
      BY <1>2
    <2> QED BY <1>3, <2>1, OddManyXor
  <1>5. ASSUME NEW n
        PROVE  /\ n \in Product(gf_add(a, b), c) <=> n \in gf_add(Product(a, c), Product(b, c))
               /\ n \in Product(c, gf_add(a, b)) <=> n \in gf_add(Product(c, a), Product(c, b))
    BY <1>4, ProductIs, XorLaws
  <1> QED BY <1>5

\* and a single bit shifts the other factor.
LEMMA ProductSingle ==
    ASSUME NEW bit \in 0..Bits-1, NEW b \in Field
    PROVE  Product({bit}, b) = Shift(b, bit) /\ Product(b, {bit}) = Shift(b, bit)
  <1>1. bit \in Nat /\ bit <= Bits - 1 /\ b \in SUBSET Nat /\ \A j \in b : j <= Bits - 1
    BY GfSizes DEF Field
  <1>2. OddMany({}) <=> FALSE
    <2>1. Cardinality({}) = 0 /\ 0 % 2 = 0
      BY FS_EmptySet
    <2> QED BY <2>1 DEF OddMany
  <1>3. \A x : OddMany({x})
    <2>1. \A x : Cardinality({x}) = 1
      BY FS_Singleton
    <2>2. 1 % 2 = 1
      OBVIOUS
    <2> QED BY <2>1, <2>2 DEF OddMany
  <1>4. ASSUME NEW n \in Nat
        PROVE  /\ OddMany(Pairs({bit}, b, n)) <=> n - bit \in b
               /\ OddMany(Pairs(b, {bit}, n)) <=> n - bit \in b
    <2>1. CASE n - bit \in b
      <3>1. Pairs({bit}, b, n) = {bit}
        BY <2>1 DEF Pairs
      <3>2. Pairs(b, {bit}, n) = {n - bit}
        <4>1. \A j \in b : n - j = bit <=> j = n - bit
          BY <1>1
        <4> QED BY <2>1, <4>1 DEF Pairs
      <3> QED BY <1>3, <2>1, <3>1, <3>2
    <2>2. CASE n - bit \notin b
      <3>1. Pairs({bit}, b, n) = {}
        BY <2>2 DEF Pairs
      <3>2. Pairs(b, {bit}, n) = {}
        <4>1. \A j \in b : n - j = bit => j = n - bit
          BY <1>1
        <4> QED BY <2>2, <4>1 DEF Pairs
      <3> QED BY <1>2, <2>2, <3>1, <3>2
    <2> QED BY <2>1, <2>2
  <1>5. ASSUME NEW n PROVE n \in Shift(b, bit) <=> n \in 0..2*Bits-2 /\ n - bit \in b
    <2>1. ASSUME n \in Shift(b, bit) PROVE n \in 0..2*Bits-2 /\ n - bit \in b
      <3>1. PICK j \in b : n = j + bit
        BY <2>1 DEF Shift
      <3>2. j \in Nat /\ j <= Bits - 1
        BY <1>1
      <3>3. n - bit = j /\ n \in 0..2*Bits-2
        BY <1>1, <3>1, <3>2, GfSizes
      <3> QED BY <3>3
    <2>2. ASSUME n \in 0..2*Bits-2, n - bit \in b PROVE n \in Shift(b, bit)
      <3>1. n = (n - bit) + bit
        BY <1>1, <2>2
      <3> QED BY <2>2, <3>1 DEF Shift
    <2> QED BY <2>1, <2>2
  <1>6. \A n \in 0..2*Bits-2 : n \in Nat
    BY GfSizes
  <1>7. ASSUME NEW n
        PROVE  (n \in Product({bit}, b) <=> n \in Shift(b, bit))
               /\ (n \in Product(b, {bit}) <=> n \in Shift(b, bit))
    BY <1>4, <1>5, <1>6, ProductIs
  <1> QED BY <1>7

\* gf_mul commutes with XOR on both sides; a single bit shifts.
LEMMA MulAdditive ==
    ASSUME NEW a \in Field, NEW b \in Field, NEW c \in Field
    PROVE  /\ gf_mul(a, b) \in Field
           /\ gf_mul(gf_add(a, b), c) = gf_add(gf_mul(a, c), gf_mul(b, c))
           /\ gf_mul(c, gf_add(a, b)) = gf_add(gf_mul(c, a), gf_mul(c, b))
  BY ProductIs, ProductAdditive, ReduceLaws

LEMMA MulSingle ==
    ASSUME NEW bit \in 0..Bits-1, NEW b \in Field
    PROVE  /\ gf_mul({bit}, b) = gf_reduce(Shift(b, bit))
           /\ gf_mul(b, {bit}) = gf_reduce(Shift(b, bit))
  BY ProductIs, ProductSingle

\* The bits, as elements, and as where the inductions run.
LEMMA SingleBits ==
    /\ \A bit \in 0..Bits-1 : {bit} \in Field
    /\ Field = SUBSET (0..Bits-1) /\ IsFiniteSet(0..Bits-1)
    /\ 0 \in 0..Bits-1 /\ One = {0} /\ Zero = {}
  BY GfSizes, FS_Interval DEF Field, One, Zero

\* The next bit multiplies by alpha once more.
LEMMA MulNextBit ==
    ASSUME NEW bit \in Nat, bit + 1 \in 0..Bits-1, NEW b \in Field
    PROVE  gf_mul({bit + 1}, b) = TimesAlpha(gf_mul({bit}, b))
  <1>1. bit \in 0..Bits-1 /\ b \in SUBSET Nat /\ b \in SUBSET (0..Bits-1) /\ Bits \in Nat
    BY GfSizes DEF Field
  <1>2. Shift(b, bit + 1) = Shift(Shift(b, bit), 1)
    BY <1>1, ShiftLaws
  <1>3. Shift(b, bit) \in Room
    <2>1. Shift(b, bit) \in SUBSET (0..Bits+bit-1)
      BY <1>1, ShiftBounds
    <2>2. 0..Bits+bit-1 \subseteq 0..2*Bits-2-1
      BY <1>1
    <2> QED BY <2>1, <2>2 DEF Room
  <1> QED BY <1>1, <1>2, <1>3, MulSingle, ReduceShift

\* Maps between elements that commute with XOR and agree on the bits are equal.
XorMap(F) == \A a, b \in Field : F[gf_add(a, b)] = gf_add(F[a], F[b])

LEMMA FieldMaps ==
    ASSUME NEW F, NEW G, XorMap(F), XorMap(G), \A bit \in 0..Bits-1 : F[{bit}] = G[{bit}]
    PROVE  \A a \in Field : F[a] = G[a]
  <1> DEFINE D == 0..Bits-1
  <1>1. IsFiniteSet(D) /\ SameOnBits(D, F, G)
    BY SingleBits DEF SameOnBits
  <1>2. Field = SUBSET D
    BY SingleBits
  <1> HIDE DEF D
  <1>3. Additive(D, F) /\ Additive(D, G)
    BY <1>2 DEF Additive, XorMap
  <1>4. SameOnSets(D, F, G)
    BY <1>1, <1>3, AdditiveEqual
  <1> QED BY <1>2, <1>4 DEF SameOnSets

-----------------------------------------------------------------------------
(* The laws of the ring.                                                   *)

\* 1 is neutral and 0 absorbs.
LEMMA MulUnits ==
    ASSUME NEW a \in Field
    PROVE  /\ gf_mul(a, One) = a /\ gf_mul(One, a) = a
           /\ gf_mul(a, Zero) = Zero /\ gf_mul(Zero, a) = Zero
  <1>1. Shift(a, 0) = a /\ gf_reduce(a) = a /\ a \in SUBSET Nat
    BY GfSizes, ShiftLaws, ReduceLaws
  <1>2. gf_mul({0}, a) = a /\ gf_mul(a, {0}) = a
    BY <1>1, SingleBits, MulSingle
  <1>3. gf_add(a, a) = Zero
    BY XorLaws DEF Zero
  <1>4. gf_mul(gf_add(a, a), a) = gf_add(gf_mul(a, a), gf_mul(a, a))
        /\ gf_mul(a, gf_add(a, a)) = gf_add(gf_mul(a, a), gf_mul(a, a))
    BY MulAdditive
  <1>5. gf_add(gf_mul(a, a), gf_mul(a, a)) = Zero
    BY XorLaws DEF Zero
  <1> QED BY <1>2, <1>3, <1>4, <1>5, SingleBits

LEMMA MulCommutes == \A a, b \in Field : gf_mul(a, b) = gf_mul(b, a)
  <1> SUFFICES ASSUME NEW b \in Field PROVE \A a \in Field : gf_mul(a, b) = gf_mul(b, a)
    OBVIOUS
  <1> DEFINE F == [a \in Field |-> gf_mul(a, b)]
             G == [a \in Field |-> gf_mul(b, a)]
  <1>1. \A a \in Field : F[a] = gf_mul(a, b) /\ G[a] = gf_mul(b, a)
    OBVIOUS
  <1> HIDE DEF F, G
  <1>2. ASSUME NEW a \in Field, NEW c \in Field
        PROVE  F[gf_add(a, c)] = gf_add(F[a], F[c]) /\ G[gf_add(a, c)] = gf_add(G[a], G[c])
    <2>1. gf_add(a, c) \in Field
      BY FieldAdd
    <2>2. gf_mul(gf_add(a, c), b) = gf_add(gf_mul(a, b), gf_mul(c, b))
          /\ gf_mul(b, gf_add(a, c)) = gf_add(gf_mul(b, a), gf_mul(b, c))
      BY MulAdditive
    <2> QED BY <1>1, <2>1, <2>2
  <1>3. ASSUME NEW bit \in 0..Bits-1 PROVE F[{bit}] = G[{bit}]
    <2>1. {bit} \in Field
      BY SingleBits
    <2>2. gf_mul({bit}, b) = gf_mul(b, {bit})
      BY MulSingle
    <2> QED BY <1>1, <2>1, <2>2
  <1>5. XorMap(F) /\ XorMap(G)
    BY <1>2 DEF XorMap
  <1>4. \A a \in Field : F[a] = G[a]
    BY <1>3, <1>5, FieldMaps
  <1> QED BY <1>1, <1>4

\* alpha may be multiplied into either factor.
LEMMA MulTimesAlpha ==
    \A a, b \in Field : /\ gf_mul(a, TimesAlpha(b)) = TimesAlpha(gf_mul(a, b))
                        /\ gf_mul(TimesAlpha(a), b) = TimesAlpha(gf_mul(a, b))
  <1>1. ASSUME NEW b \in Field
        PROVE  \A a \in Field : gf_mul(a, TimesAlpha(b)) = TimesAlpha(gf_mul(a, b))
    <2> DEFINE F == [a \in Field |-> gf_mul(a, TimesAlpha(b))]
               G == [a \in Field |-> TimesAlpha(gf_mul(a, b))]
    <2>1. \A a \in Field : F[a] = gf_mul(a, TimesAlpha(b)) /\ G[a] = TimesAlpha(gf_mul(a, b))
      OBVIOUS
    <2> HIDE DEF F, G
    <2>2. TimesAlpha(b) \in Field
      BY TimesAlphaLaws
    <2>3. ASSUME NEW a \in Field, NEW c \in Field
          PROVE  F[gf_add(a, c)] = gf_add(F[a], F[c]) /\ G[gf_add(a, c)] = gf_add(G[a], G[c])
      <3>1. gf_add(a, c) \in Field /\ gf_mul(a, b) \in Field /\ gf_mul(c, b) \in Field
        BY FieldAdd, MulAdditive
      <3>2. F[gf_add(a, c)] = gf_add(F[a], F[c])
        <4>1. gf_mul(gf_add(a, c), TimesAlpha(b))
                 = gf_add(gf_mul(a, TimesAlpha(b)), gf_mul(c, TimesAlpha(b)))
          BY <2>2, MulAdditive
        <4> QED BY <2>1, <3>1, <4>1
      <3>3. gf_mul(gf_add(a, c), b) = gf_add(gf_mul(a, b), gf_mul(c, b))
        BY MulAdditive
      <3>4. G[gf_add(a, c)] = gf_add(G[a], G[c])
        BY <2>1, <3>1, <3>3, TimesAlphaLaws
      <3> QED BY <3>2, <3>4
    <2> DEFINE Good == {bit \in Nat : bit <= Bits - 1 => F[{bit}] = G[{bit}]}
    <2>4. 0 \in Good
      <3>1. gf_mul({0}, TimesAlpha(b)) = TimesAlpha(b) /\ gf_mul({0}, b) = b
        BY <2>2, MulUnits, SingleBits
      <3> QED BY <2>1, <3>1, SingleBits
    <2>5. ASSUME NEW bit \in Nat, bit \in Good PROVE bit + 1 \in Good
      <3> SUFFICES ASSUME bit + 1 <= Bits - 1 PROVE F[{bit + 1}] = G[{bit + 1}]
        OBVIOUS
      <3>1. bit <= Bits - 1 /\ bit \in 0..Bits-1 /\ bit + 1 \in 0..Bits-1
        BY GfSizes
      <3>2. F[{bit}] = G[{bit}]
        BY <2>5, <3>1
      <3>3. {bit} \in Field /\ {bit + 1} \in Field
        BY <3>1, SingleBits
      <3>4. gf_mul({bit + 1}, TimesAlpha(b)) = TimesAlpha(gf_mul({bit}, TimesAlpha(b)))
            /\ gf_mul({bit + 1}, b) = TimesAlpha(gf_mul({bit}, b))
        BY <2>2, <3>1, MulNextBit
      <3> QED BY <2>1, <3>2, <3>3, <3>4
    <2> HIDE DEF Good
    <2>6. Nat \subseteq Good
      BY <2>4, <2>5, NatSetInduction
    <2>7. \A bit \in 0..Bits-1 : F[{bit}] = G[{bit}]
      BY <2>6, GfSizes DEF Good
    <2>9. XorMap(F) /\ XorMap(G)
      BY <2>3 DEF XorMap
    <2>8. \A a \in Field : F[a] = G[a]
      BY <2>7, <2>9, FieldMaps
    <2> QED BY <2>1, <2>8
  <1>2. ASSUME NEW a \in Field, NEW b \in Field
        PROVE  gf_mul(TimesAlpha(a), b) = TimesAlpha(gf_mul(a, b))
    <2>1. TimesAlpha(a) \in Field
      BY TimesAlphaLaws
    <2>2. gf_mul(TimesAlpha(a), b) = gf_mul(b, TimesAlpha(a)) /\ gf_mul(a, b) = gf_mul(b, a)
      BY <2>1, MulCommutes
    <2> QED BY <1>1, <2>2
  <1> QED BY <1>1, <1>2

LEMMA MulAssociates ==
    \A a, b, c \in Field : gf_mul(gf_mul(a, b), c) = gf_mul(a, gf_mul(b, c))
  <1> SUFFICES ASSUME NEW b \in Field, NEW c \in Field
               PROVE  \A a \in Field : gf_mul(gf_mul(a, b), c) = gf_mul(a, gf_mul(b, c))
    OBVIOUS
  <1> DEFINE F == [a \in Field |-> gf_mul(gf_mul(a, b), c)]
             G == [a \in Field |-> gf_mul(a, gf_mul(b, c))]
  <1>1. \A a \in Field : F[a] = gf_mul(gf_mul(a, b), c) /\ G[a] = gf_mul(a, gf_mul(b, c))
    OBVIOUS
  <1> HIDE DEF F, G
  <1>2. \A x, y \in Field : gf_mul(x, y) \in Field
    BY MulAdditive
  <1>3. ASSUME NEW x \in Field, NEW y \in Field
        PROVE  F[gf_add(x, y)] = gf_add(F[x], F[y]) /\ G[gf_add(x, y)] = gf_add(G[x], G[y])
    <2>1. gf_add(x, y) \in Field
      BY FieldAdd
    <2>2. gf_mul(gf_add(x, y), b) = gf_add(gf_mul(x, b), gf_mul(y, b))
      BY MulAdditive
    <2>3. gf_mul(gf_add(gf_mul(x, b), gf_mul(y, b)), c)
             = gf_add(gf_mul(gf_mul(x, b), c), gf_mul(gf_mul(y, b), c))
      BY <1>2, MulAdditive
    <2>4. gf_mul(gf_add(x, y), gf_mul(b, c)) = gf_add(gf_mul(x, gf_mul(b, c)), gf_mul(y, gf_mul(b, c)))
      BY <1>2, MulAdditive
    <2> QED BY <1>1, <2>1, <2>2, <2>3, <2>4
  <1> DEFINE Good == {bit \in Nat : bit <= Bits - 1 => F[{bit}] = G[{bit}]}
  <1>4. 0 \in Good
    <2>1. gf_mul({0}, b) = b /\ gf_mul({0}, gf_mul(b, c)) = gf_mul(b, c)
      BY <1>2, MulUnits, SingleBits
    <2> QED BY <1>1, <2>1, SingleBits
  <1>5. ASSUME NEW bit \in Nat, bit \in Good PROVE bit + 1 \in Good
    <2> SUFFICES ASSUME bit + 1 <= Bits - 1 PROVE F[{bit + 1}] = G[{bit + 1}]
      OBVIOUS
    <2>1. bit <= Bits - 1 /\ bit \in 0..Bits-1 /\ bit + 1 \in 0..Bits-1
      BY GfSizes
    <2>2. F[{bit}] = G[{bit}]
      BY <1>5, <2>1
    <2>3. {bit} \in Field /\ {bit + 1} \in Field
      BY <2>1, SingleBits
    <2>4. gf_mul({bit + 1}, b) = TimesAlpha(gf_mul({bit}, b))
          /\ gf_mul({bit + 1}, gf_mul(b, c)) = TimesAlpha(gf_mul({bit}, gf_mul(b, c)))
      BY <1>2, <2>1, MulNextBit
    <2>5. gf_mul(TimesAlpha(gf_mul({bit}, b)), c) = TimesAlpha(gf_mul(gf_mul({bit}, b), c))
      BY <1>2, <2>3, MulTimesAlpha
    <2> QED BY <1>1, <2>2, <2>3, <2>4, <2>5
  <1> HIDE DEF Good
  <1>6. Nat \subseteq Good
    BY <1>4, <1>5, NatSetInduction
  <1>7. \A bit \in 0..Bits-1 : F[{bit}] = G[{bit}]
    BY <1>6, GfSizes DEF Good
  <1>9. XorMap(F) /\ XorMap(G)
    BY <1>3 DEF XorMap
  <1>8. \A a \in Field : F[a] = G[a]
    BY <1>7, <1>9, FieldMaps
  <1> QED BY <1>1, <1>8

\* gf_sq spreads the bits; that is the product with itself.
LEMMA SquareIs == \A a \in Field : gf_sq(a) = gf_mul(a, a)
  <1> DEFINE spread(a) == {2 * b : b \in a}
             F == [a \in Field |-> gf_sq(a)]
             G == [a \in Field |-> gf_mul(a, a)]
  <1>1. \A a \in Field : F[a] = gf_reduce(spread(a)) /\ G[a] = gf_mul(a, a)
    BY DEF gf_sq
  <1>2. ASSUME NEW a \in Field PROVE spread(a) \in Wide
    <2>1. \A b \in 0..Bits-1 : 2 * b \in 0..2*Bits-1-1
      BY GfSizes
    <2> QED BY <2>1 DEF Wide, Field
  <1>3. ASSUME NEW a \in Field, NEW b \in Field
        PROVE  spread(gf_add(a, b)) = gf_add(spread(a), spread(b))
    <2>1. \A k, l \in Nat : 2 * k = 2 * l => k = l
      OBVIOUS
    <2>2. a \in SUBSET Nat /\ b \in SUBSET Nat
      BY GfSizes
    <2>3. ASSUME NEW p PROVE p \in spread(gf_add(a, b)) <=> p \in gf_add(spread(a), spread(b))
      <3>1. /\ p \in spread(a) <=> \E k \in a : p = 2 * k
            /\ p \in spread(b) <=> \E k \in b : p = 2 * k
            /\ p \in spread(gf_add(a, b)) <=> \E k \in gf_add(a, b) : p = 2 * k
        OBVIOUS
      <3>2. p \in gf_add(spread(a), spread(b)) <=> ~(p \in spread(a) <=> p \in spread(b))
        BY XorLaws
      <3> HIDE DEF spread
      <3>3. \A k : k \in gf_add(a, b) <=> ~(k \in a <=> k \in b)
        BY XorLaws
      <3>4. CASE \E k \in Nat : p = 2 * k
        <4>1. PICK k \in Nat : p = 2 * k
          BY <3>4
        <4>2. /\ p \in spread(a) <=> k \in a
              /\ p \in spread(b) <=> k \in b
              /\ p \in spread(gf_add(a, b)) <=> k \in gf_add(a, b)
          <5>1. gf_add(a, b) \in SUBSET Nat
            BY <2>2, XorSubset
          <5> QED BY <2>1, <2>2, <3>1, <4>1, <5>1
        <4> QED BY <3>2, <3>3, <4>2
      <3>5. CASE ~ \E k \in Nat : p = 2 * k
        <4>1. gf_add(a, b) \in SUBSET Nat
          BY <2>2, XorSubset
        <4>2. p \notin spread(a) /\ p \notin spread(b) /\ p \notin spread(gf_add(a, b))
          BY <2>2, <3>1, <3>5, <4>1
        <4> QED BY <3>2, <4>2
      <3> QED BY <3>4, <3>5
    <2> HIDE DEF spread
    <2> QED BY <2>3
  <1>4. ASSUME NEW bit \in 0..Bits-1 PROVE F[{bit}] = G[{bit}]
    <2>1. spread({bit}) = {2 * bit} /\ Shift({bit}, bit) = {bit + bit}
      BY DEF Shift
    <2>2. 2 * bit = bit + bit
      BY GfSizes
    <2>3. gf_mul({bit}, {bit}) = gf_reduce(Shift({bit}, bit))
      BY MulSingle, SingleBits
    <2> HIDE DEF F, G, spread
    <2> QED BY <1>1, <2>1, <2>2, <2>3, SingleBits
  <1> HIDE DEF F, G, spread
  <1>5. ASSUME NEW a \in Field, NEW b \in Field
        PROVE  F[gf_add(a, b)] = gf_add(F[a], F[b]) /\ G[gf_add(a, b)] = gf_add(G[a], G[b])
    <2>1. gf_add(a, b) \in Field
      BY FieldAdd
    <2>2. F[gf_add(a, b)] = gf_add(F[a], F[b])
      BY <1>1, <1>2, <1>3, <2>1, ReduceLaws
    <2>3. /\ gf_mul(gf_add(a, b), gf_add(a, b))
                = gf_add(gf_mul(a, gf_add(a, b)), gf_mul(b, gf_add(a, b)))
          /\ gf_mul(a, gf_add(a, b)) = gf_add(gf_mul(a, a), gf_mul(a, b))
          /\ gf_mul(b, gf_add(a, b)) = gf_add(gf_mul(b, a), gf_mul(b, b))
          /\ gf_mul(b, a) = gf_mul(a, b)
      BY <2>1, MulAdditive, MulCommutes
    <2>4. \A x, y, z : gf_add(gf_add(x, y), gf_add(y, z)) = gf_add(x, z)
      BY DEF gf_add, SymDiff
    <2>5. G[gf_add(a, b)] = gf_add(G[a], G[b])
      BY <1>1, <2>1, <2>3, <2>4
    <2> QED BY <2>2, <2>5
  <1>8. XorMap(F) /\ XorMap(G)
    BY <1>5 DEF XorMap
  <1>6. \A a \in Field : F[a] = G[a]
    BY <1>4, <1>8, FieldMaps
  <1>7. \A a \in Field : F[a] = gf_sq(a)
    BY DEF F
  <1> QED BY <1>1, <1>6, <1>7

-----------------------------------------------------------------------------
(* The powers of alpha.                                                    *)

\* Rounds are one after the other.
IsRounds(h) ==
    /\ h \in [Nat -> [Field -> Field]]
    /\ \A a \in Field : h[0][a] = a
    /\ \A n \in Nat : \A a \in Field : h[n + 1][a] = h[n][TimesAlpha(a)]

LEMMA RoundsAre == IsRounds(Rounds)
  <1> DEFINE Maps == [Field -> Field]
             none == [a \in Field |-> a]
             more(f) == [a \in Field |-> f[TimesAlpha(a)]]
             step == [n \in Nat |-> [f \in Maps |-> more(f)]]
             Step(h) == [n \in Nat |->
                 [x \in Field |-> IF n = 0 THEN x ELSE h[n - 1][TimesAlpha(x)]]]
  <1>1. none \in Maps /\ \A f \in Maps : more(f) \in Maps
    BY TimesAlphaLaws
  <1>2. step \in [Nat -> [Maps -> Maps]] /\ \A n \in Nat, f \in Maps : step[n][f] = more(f)
    <2> HIDE DEF Maps, more
    <2> QED BY <1>1
  <1>3. \A f : \A a \in Field : more(f)[a] = f[TimesAlpha(a)]
    OBVIOUS
  <1>4. \A a \in Field : none[a] = a
    OBVIOUS
  <1> HIDE DEF step, none, Maps, more
  <1>5. PICK h : h \in Sequences(Maps, none, step)
    BY <1>1, <1>2, PrimitiveRecursion
  <1>6. h \in [Nat -> Maps] /\ h[0] = none /\ \A n \in Nat : h[n + 1] = more(h[n])
    <2>1. h \in [Nat -> Maps] /\ h[0] = none /\ \A n \in Nat : h[n + 1] = step[n][h[n]]
      BY <1>5 DEF Sequences
    <2> QED BY <1>2, <2>1
  <1>7. h = Step(h)
    <2>1. Step(h) \in [Nat -> [Field -> Field]]
      <3>1. ASSUME NEW n \in Nat, NEW x \in Field
            PROVE  (IF n = 0 THEN x ELSE h[n - 1][TimesAlpha(x)]) \in Field
        <4>1. CASE n = 0
          BY <4>1
        <4>2. CASE n # 0
          <5>1. n - 1 \in Nat /\ TimesAlpha(x) \in Field
            BY <4>2, TimesAlphaLaws
          <5>2. h[n - 1] \in [Field -> Field]
            BY <1>6, <5>1 DEF Maps
          <5> QED BY <4>2, <5>1, <5>2
        <4> QED BY <4>1, <4>2
      <3> QED BY <3>1
    <2>2. h \in [Nat -> [Field -> Field]]
      BY <1>6 DEF Maps
    <2>3. ASSUME NEW n \in Nat, NEW x \in Field PROVE h[n][x] = Step(h)[n][x]
      <3>1. Step(h)[n][x] = IF n = 0 THEN x ELSE h[n - 1][TimesAlpha(x)]
        OBVIOUS
      <3> HIDE DEF Step
      <3>2. CASE n = 0
        BY <1>4, <1>6, <3>1, <3>2
      <3>3. CASE n # 0
        <4>1. n - 1 \in Nat /\ n = (n - 1) + 1
          BY <3>3
        <4>2. h[n] = more(h[n - 1])
          BY <1>6, <4>1
        <4> QED BY <1>3, <3>1, <3>3, <4>2
      <3> QED BY <3>2, <3>3
    <2> HIDE DEF Step
    <2>4. \A n \in Nat : h[n] = Step(h)[n]
      BY <2>1, <2>2, <2>3
    <2> QED BY <2>1, <2>2, <2>4
  <1>8. Rounds = CHOOSE g : g = Step(g)
    BY Zenon DEF Rounds
  <1>9. Rounds = Step(Rounds)
    <2> HIDE DEF Step
    <2> QED BY <1>7, <1>8, Zenon
  <1>10. /\ \A a \in Field : Rounds[0][a] = a
         /\ \A n \in Nat : \A a \in Field : Rounds[n + 1][a] = Rounds[n][TimesAlpha(a)]
    <2>1. ASSUME NEW n \in Nat, NEW a \in Field
          PROVE  Step(Rounds)[n][a] = IF n = 0 THEN a ELSE Rounds[n - 1][TimesAlpha(a)]
      OBVIOUS
    <2> HIDE DEF Step
    <2>2. ASSUME NEW n \in Nat, NEW a \in Field
          PROVE  Rounds[n][a] = IF n = 0 THEN a ELSE Rounds[n - 1][TimesAlpha(a)]
      BY <1>9, <2>1
    <2>3. \A n \in Nat : n + 1 \in Nat /\ n + 1 # 0 /\ (n + 1) - 1 = n
      OBVIOUS
    <2> QED BY <2>2, <2>3
  <1> DEFINE Good == {n \in Nat : \A a \in Field : Rounds[n][a] \in Field}
  <1>11. 0 \in Good
    BY <1>10
  <1>14. ASSUME NEW n \in Nat, n \in Good PROVE n + 1 \in Good
    <2>1. \A a \in Field : Rounds[n][TimesAlpha(a)] \in Field
      BY <1>14, TimesAlphaLaws
    <2>2. \A a \in Field : Rounds[n + 1][a] = Rounds[n][TimesAlpha(a)]
      BY <1>10
    <2> QED BY <2>1, <2>2
  <1> HIDE DEF Good
  <1>12. Nat \subseteq Good
    BY <1>11, <1>14, NatSetInduction
  <1>13. Rounds \in [Nat -> [Field -> Field]]
    <2>1. Step(Rounds) = [n \in Nat |-> [x \in Field |-> Step(Rounds)[n][x]]]
      OBVIOUS
    <2> HIDE DEF Step
    <2>2. Rounds = [n \in Nat |-> [x \in Field |-> Rounds[n][x]]]
      BY <1>9, <2>1
    <2>3. \A n \in Nat : \A x \in Field : Rounds[n][x] \in Field
      BY <1>12 DEF Good
    <2> QED BY <2>2, <2>3
  <1> QED BY <1>10, <1>13 DEF IsRounds

\* alpha^0 is 1 and every power is the one before it times alpha.
LEMMA Powers ==
    /\ AlphaPower(0) = One
    /\ \A n \in Nat : AlphaPower(n) \in Field
    /\ \A n \in Nat : AlphaPower(n + 1) = TimesAlpha(AlphaPower(n))
  <1> DEFINE Good == {n \in Nat : \A a \in Field : Rounds[n][TimesAlpha(a)] = TimesAlpha(Rounds[n][a])}
  <1>1. 0 \in Good
    BY RoundsAre, TimesAlphaLaws DEF IsRounds
  <1>2. ASSUME NEW n \in Nat, n \in Good PROVE n + 1 \in Good
    <2> SUFFICES ASSUME NEW a \in Field
                 PROVE  Rounds[n + 1][TimesAlpha(a)] = TimesAlpha(Rounds[n + 1][a])
      OBVIOUS
    <2>1. TimesAlpha(a) \in Field
      BY TimesAlphaLaws
    <2>2. /\ Rounds[n + 1][TimesAlpha(a)] = Rounds[n][TimesAlpha(TimesAlpha(a))]
          /\ Rounds[n + 1][a] = Rounds[n][TimesAlpha(a)]
      BY <2>1, RoundsAre DEF IsRounds
    <2>3. Rounds[n][TimesAlpha(TimesAlpha(a))] = TimesAlpha(Rounds[n][TimesAlpha(a)])
      BY <1>2, <2>1
    <2> QED BY <2>2, <2>3
  <1> HIDE DEF Good
  <1>3. Nat \subseteq Good
    BY <1>1, <1>2, NatSetInduction
  <1>4. One \in Field
    BY GfSizes
  <1>5. \A n \in Nat : AlphaPower(n) \in Field
    BY <1>4, RoundsAre DEF IsRounds, AlphaPower
  <1>6. AlphaPower(0) = One
    BY <1>4, RoundsAre DEF IsRounds, AlphaPower
  <1>7. ASSUME NEW n \in Nat PROVE AlphaPower(n + 1) = TimesAlpha(AlphaPower(n))
    <2>1. Rounds[n + 1][One] = Rounds[n][TimesAlpha(One)]
      BY <1>4, RoundsAre DEF IsRounds
    <2>2. Rounds[n][TimesAlpha(One)] = TimesAlpha(Rounds[n][One])
      BY <1>3, <1>4 DEF Good
    <2> QED BY <2>1, <2>2 DEF AlphaPower
  <1> QED BY <1>5, <1>6, <1>7

\* The product of powers is the power of the sum.
LEMMA PowersMultiply ==
    \A m, n \in Nat : gf_mul(AlphaPower(m), AlphaPower(n)) = AlphaPower(m + n)
  <1> SUFFICES ASSUME NEW m \in Nat
               PROVE  \A n \in Nat : gf_mul(AlphaPower(m), AlphaPower(n)) = AlphaPower(m + n)
    OBVIOUS
  <1> DEFINE Good == {n \in Nat : gf_mul(AlphaPower(m), AlphaPower(n)) = AlphaPower(m + n)}
  <1>1. 0 \in Good
    <2>1. m + 0 = m
      OBVIOUS
    <2> QED BY <2>1, Powers, MulUnits
  <1>2. ASSUME NEW n \in Nat, n \in Good PROVE n + 1 \in Good
    <2>1. m + (n + 1) = (m + n) + 1 /\ m + n \in Nat /\ n + 1 \in Nat
      OBVIOUS
    <2>2. gf_mul(AlphaPower(m), TimesAlpha(AlphaPower(n)))
             = TimesAlpha(gf_mul(AlphaPower(m), AlphaPower(n)))
      BY Powers, MulTimesAlpha
    <2>3. AlphaPower(n + 1) = TimesAlpha(AlphaPower(n))
          /\ AlphaPower((m + n) + 1) = TimesAlpha(AlphaPower(m + n))
      BY <2>1, Powers
    <2> QED BY <1>2, <2>1, <2>2, <2>3
  <1> HIDE DEF Good
  <1>3. Nat \subseteq Good
    BY <1>1, <1>2, NatSetInduction
  <1> QED BY <1>3 DEF Good

-----------------------------------------------------------------------------
(* alpha generates the multiplicative group.                               *)

\* The lowest bit of the modulus makes multiplying by alpha reversible.
LEMMA TimesAlphaInjective ==
    \A a, b \in Field : TimesAlpha(a) = TimesAlpha(b) => a = b
  <1>1. ASSUME NEW c \in Field, TimesAlpha(c) = {} PROVE c = {}
    <2>1. c \in SUBSET Nat
      BY GfSizes
    <2>2. 0 \notin Shift(c, 1)
      <3>1. \A b \in c : b \in Nat /\ 0 # b + 1
        BY <2>1
      <3> QED BY <3>1, ShiftLaws
    <2>3. CASE Bits - 1 \in c
      <3>1. TimesAlpha(c) = gf_add(Shift(c, 1), Modulus)
        BY <2>3, TimesAlphaIs
      <3>2. 0 \in gf_add(Shift(c, 1), Modulus)
        BY <2>2, GeneratorAssumption, XorLaws
      <3> QED BY <1>1, <3>1, <3>2
    <2>4. CASE Bits - 1 \notin c
      <3>1. TimesAlpha(c) = gf_add(Shift(c, 1), {})
        BY <2>4, TimesAlphaIs
      <3>2. Shift(c, 1) = {}
        BY <1>1, <3>1, XorLaws
      <3> QED BY <3>2 DEF Shift
    <2> QED BY <2>3, <2>4
  <1>2. ASSUME NEW a \in Field, NEW b \in Field, TimesAlpha(a) = TimesAlpha(b) PROVE a = b
    <2>1. gf_add(a, b) \in Field
      BY FieldAdd
    <2>2. TimesAlpha(gf_add(a, b)) = gf_add(TimesAlpha(a), TimesAlpha(b))
      BY TimesAlphaLaws
    <2>3. gf_add(TimesAlpha(a), TimesAlpha(b)) = {}
      BY <1>2, XorLaws
    <2>4. gf_add(a, b) = {}
      BY <1>1, <2>1, <2>2, <2>3
    <2> QED BY <2>4, XorLaws
  <1> QED BY <1>2

\* Elements other than 0, and how many there are.
NonZero == Field \ {Zero}

LEMMA CountNonZero ==
    /\ IsFiniteSet(Field) /\ IsFiniteSet(NonZero)
    /\ Order \in Nat /\ Order >= 1
    /\ Cardinality(NonZero) = Order
  <1> DEFINE B == 0..Bits-1
             power == 2^Bits
  <1>1. IsFiniteSet(B) /\ Cardinality(B) = Bits
    BY GfSizes, FS_Interval
  <1>2. Field = SUBSET B
    BY DEF Field
  <1> HIDE DEF B
  <1>3. IsFiniteSet(Field) /\ Cardinality(Field) = power
    BY <1>1, <1>2, FS_SUBSET
  <1>4. Cardinality(Field) \in Nat
    BY <1>3, FS_CardinalityType
  <1>5. Zero \in Field
    BY GfSizes
  <1>6. IsFiniteSet(NonZero) /\ Cardinality(NonZero) = Cardinality(Field) - 1
    BY <1>3, <1>5, FS_RemoveElement DEF NonZero
  <1>7. Order = power - 1
    BY DEF Order
  <1> HIDE DEF power
  <1>8. power \in Nat /\ Cardinality(NonZero) = Order
    BY <1>3, <1>4, <1>6, <1>7
  <1>9. Order >= 1
    <2>1. {One} \in SUBSET NonZero
      BY GfSizes DEF NonZero, One, Zero
    <2>2. Cardinality({One}) = 1
      BY FS_Singleton
    <2>3. Cardinality({One}) <= Cardinality(NonZero)
      BY <1>6, <2>1, FS_Subset
    <2> QED BY <1>8, <2>2, <2>3
  <1>10. Order \in Nat
    BY <1>7, <1>8, <1>9
  <1> QED BY <1>3, <1>6, <1>8, <1>9, <1>10

\* No power is 0, a power that repeats repeats 1, and none does too early.
LEMMA PowersDiffer ==
    /\ \A n \in Nat : AlphaPower(n) # Zero
    /\ \A m, gap \in Nat : AlphaPower(m + gap) = AlphaPower(m) => AlphaPower(gap) = One
    /\ \A m, n \in 0..Order-1 : AlphaPower(m) = AlphaPower(n) => m = n
  <1> DEFINE Good == {n \in Nat : AlphaPower(n) # Zero}
  <1>1. 0 \in Good
    <2>1. One # Zero
      BY DEF One, Zero
    <2> QED BY <2>1, Powers
  <1>2. ASSUME NEW n \in Nat, n \in Good PROVE n + 1 \in Good
    <2>1. Zero \in Field /\ AlphaPower(n) \in Field
      BY GfSizes, Powers
    <2>2. TimesAlpha(Zero) = Zero
      BY TimesAlphaLaws DEF Zero
    <2>3. TimesAlpha(AlphaPower(n)) = TimesAlpha(Zero) => AlphaPower(n) = Zero
      BY <2>1, TimesAlphaInjective
    <2> QED BY <1>2, <2>2, <2>3, Powers
  <1> HIDE DEF Good
  <1>3. Nat \subseteq Good
    BY <1>1, <1>2, NatSetInduction
  <1>4. \A n \in Nat : AlphaPower(n) # Zero
    BY <1>3 DEF Good
  <1>5. ASSUME NEW gap \in Nat
        PROVE  \A m \in Nat : AlphaPower(m + gap) = AlphaPower(m) => AlphaPower(gap) = One
    <2> DEFINE Back == {m \in Nat : AlphaPower(m + gap) = AlphaPower(m) => AlphaPower(gap) = One}
    <2>1. 0 \in Back
      <3>1. 0 + gap = gap
        OBVIOUS
      <3> QED BY <3>1, Powers
    <2>2. ASSUME NEW m \in Nat, m \in Back PROVE m + 1 \in Back
      <3> SUFFICES ASSUME AlphaPower((m + 1) + gap) = AlphaPower(m + 1) PROVE AlphaPower(gap) = One
        OBVIOUS
      <3>1. (m + 1) + gap = (m + gap) + 1 /\ m + gap \in Nat
        OBVIOUS
      <3>2. TimesAlpha(AlphaPower(m + gap)) = TimesAlpha(AlphaPower(m))
        BY <3>1, Powers
      <3>3. AlphaPower(m + gap) = AlphaPower(m)
        BY <3>1, <3>2, Powers, TimesAlphaInjective
      <3> QED BY <2>2, <3>3
    <2> HIDE DEF Back
    <2>3. Nat \subseteq Back
      BY <2>1, <2>2, NatSetInduction
    <2> QED BY <2>3 DEF Back
  <1>6. ASSUME NEW m \in 0..Order-1, NEW n \in 0..Order-1, m < n
        PROVE  AlphaPower(m) # AlphaPower(n)
    <2>1. n - m \in 1..Order-1 /\ m \in Nat /\ n - m \in Nat /\ m + (n - m) = n
      BY <1>6, CountNonZero
    <2>2. AlphaPower(n - m) # One
      BY <2>1, GeneratorAssumption
    <2> QED BY <1>5, <2>1, <2>2
  <1>7. ASSUME NEW m \in 0..Order-1, NEW n \in 0..Order-1, AlphaPower(m) = AlphaPower(n)
        PROVE  m = n
    BY <1>6, <1>7, CountNonZero
  <1> QED BY <1>4, <1>5, <1>7

\* So the powers below the order are all elements but 0, and the next one is 1 again.
LEMMA EveryElementIsAPower ==
    /\ \A a \in NonZero : \E n \in 0..Order-1 : a = AlphaPower(n)
    /\ AlphaPower(Order) = One
    /\ \A n \in Nat : AlphaPower(n + Order) = AlphaPower(n)
  <1> DEFINE D == 0..Order-1
             f == [n \in D |-> AlphaPower(n)]
  <1>1. D \in SUBSET Nat /\ IsFiniteSet(D) /\ Cardinality(D) = Order
    BY CountNonZero, FS_Interval
  <1>2. \A m, n \in D : AlphaPower(m) = AlphaPower(n) => m = n
    BY PowersDiffer
  <1>3. \A n \in Nat : AlphaPower(n) \in NonZero
    BY Powers, PowersDiffer DEF NonZero
  <1> HIDE DEF D
  <1>4. f \in Injection(D, NonZero)
    <2>1. f \in [D -> NonZero] /\ \A m, n \in D : f[m] = f[n] => m = n
      BY <1>1, <1>2, <1>3
    <2> QED BY <2>1 DEF Injection, IsInjective
  <1>5. f \in Surjection(D, NonZero)
    <2> HIDE DEF f
    <2>1. Cardinality(D) = Cardinality(NonZero) /\ IsFiniteSet(NonZero)
      BY <1>1, CountNonZero
    <2> QED BY <1>4, <2>1, FS_Injection
  <1>6. \A a \in NonZero : \E n \in D : a = AlphaPower(n)
    <2>1. \A a \in NonZero : \E n \in D : f[n] = a
      BY <1>5 DEF Surjection
    <2> QED BY <2>1
  <1>7. AlphaPower(Order) = One
    <2>1. Order \in Nat
      BY CountNonZero
    <2>2. PICK n \in D : AlphaPower(Order) = AlphaPower(n)
      BY <1>3, <1>6, <2>1
    <2>3. n \in Nat /\ Order - n \in Nat /\ n + (Order - n) = Order /\ Order - n \in 1..Order
      BY CountNonZero DEF D
    <2>4. AlphaPower(Order - n) = One
      BY <2>2, <2>3, PowersDiffer
    <2>5. Order - n \notin 1..Order-1
      BY <2>4, GeneratorAssumption
    <2>6. Order - n = Order
      BY <2>1, <2>3, <2>5
    <2> QED BY <2>4, <2>6
  <1>8. ASSUME NEW n \in Nat PROVE AlphaPower(n + Order) = AlphaPower(n)
    <2>1. gf_mul(AlphaPower(n), AlphaPower(Order)) = AlphaPower(n + Order)
      BY CountNonZero, PowersMultiply
    <2> QED BY <1>7, <2>1, Powers, MulUnits
  <1> QED BY <1>6, <1>7, <1>8 DEF D

\* a^255 is 1.
LEMMA ChainPower == \A n \in Nat : AlphaPower(255 * n) = One
  <1>1. \A k \in Nat : AlphaPower(Order * k) = One
    <2> DEFINE Good == {k \in Nat : AlphaPower(Order * k) = One}
    <2>1. 0 \in Good
      <3>1. Order * 0 = 0
        BY CountNonZero
      <3> QED BY <3>1, Powers
    <2>2. ASSUME NEW k \in Nat, k \in Good PROVE k + 1 \in Good
      <3>1. Order * (k + 1) = Order * k + Order /\ Order * k \in Nat
        BY CountNonZero
      <3> QED BY <2>2, <3>1, EveryElementIsAPower
    <2> HIDE DEF Good
    <2>3. Nat \subseteq Good
      BY <2>1, <2>2, NatSetInduction
    <2> QED BY <2>3 DEF Good
  <1>2. PICK q \in Nat : 255 = Order * q
    <2>1. 255 \div Order \in Nat /\ 255 = Order * (255 \div Order)
      BY ChainAssumption, CountNonZero
    <2> QED BY <2>1
  <1>3. ASSUME NEW n \in Nat PROVE AlphaPower(255 * n) = One
    <2>1. 255 * n = Order * (q * n) /\ q * n \in Nat
      BY <1>2, CountNonZero
    <2> QED BY <1>1, <2>1
  <1> QED BY <1>3

\* What the addition chain computes.
LEMMA InverseIs ==
    /\ \A n \in Nat : gf_inv(AlphaPower(n)) = AlphaPower(254 * n)
    /\ gf_inv(Zero) = Zero
  <1>1. ASSUME NEW n \in Nat PROVE gf_sq(AlphaPower(n)) = AlphaPower(2 * n)
    <2>1. gf_sq(AlphaPower(n)) = gf_mul(AlphaPower(n), AlphaPower(n))
      BY Powers, SquareIs
    <2>2. n + n = 2 * n
      OBVIOUS
    <2> QED BY <2>1, <2>2, PowersMultiply
  <1>2. ASSUME NEW n \in Nat PROVE gf_inv(AlphaPower(n)) = AlphaPower(254 * n)
    <2> DEFINE P(k) == AlphaPower(k * n)
    <2>1. \A k \in Nat : k * n \in Nat
      OBVIOUS
    <2>2. ASSUME NEW k \in Nat PROVE gf_sq(P(k)) = P(2 * k)
      <3>1. 2 * (k * n) = (2 * k) * n
        OBVIOUS
      <3> QED BY <1>1, <2>1, <3>1
    <2>3. ASSUME NEW k \in Nat, NEW l \in Nat PROVE gf_mul(P(k), P(l)) = P(k + l)
      <3>1. k * n + l * n = (k + l) * n
        OBVIOUS
      <3> QED BY <2>1, <3>1, PowersMultiply
    <2>4. P(1) = AlphaPower(n)
      OBVIOUS
    <2> HIDE DEF P
    <2>5. gf_sq(P(1)) = P(2) /\ gf_mul(P(2), P(1)) = P(3) /\ gf_sq(P(2)) = P(4)
      BY <2>2, <2>3
    <2>6. gf_mul(P(4), P(3)) = P(7) /\ gf_mul(P(4), P(7)) = P(11) /\ gf_mul(P(11), P(4)) = P(15)
      <3>1. 4 + 3 = 7 /\ 4 + 7 = 11 /\ 11 + 4 = 15
        OBVIOUS
      <3>2. gf_mul(P(4), P(3)) = P(4 + 3) /\ gf_mul(P(4), P(7)) = P(4 + 7)
            /\ gf_mul(P(11), P(4)) = P(11 + 4)
        BY <2>3
      <3> QED BY <3>1, <3>2
    <2>7. gf_sq(P(15)) = P(30) /\ gf_sq(P(30)) = P(60) /\ gf_sq(P(60)) = P(120)
      BY <2>2
    <2>8. gf_mul(P(120), P(7)) = P(127) /\ gf_sq(P(127)) = P(254)
      BY <2>2, <2>3
    <2>9. gf_inv(P(1)) = P(254)
      BY <2>5, <2>6, <2>7, <2>8 DEF gf_inv
    <2> QED BY <2>4, <2>9 DEF P
  <1>3. gf_inv(Zero) = Zero
    <2>1. Zero \in Field /\ gf_mul(Zero, Zero) = Zero
      BY GfSizes, MulUnits
    <2>2. gf_sq(Zero) = Zero
      BY <2>1, SquareIs
    <2> QED BY <2>1, <2>2 DEF gf_inv
  <1> QED BY <1>2, <1>3

LEMMA Inverts ==
    /\ \A n \in Nat : gf_mul(AlphaPower(n), gf_inv(AlphaPower(n))) = One
    /\ \A a \in NonZero : gf_mul(a, gf_inv(a)) = One
    /\ \A a \in Field : gf_inv(a) \in Field
  <1>1. ASSUME NEW n \in Nat PROVE gf_mul(AlphaPower(n), gf_inv(AlphaPower(n))) = One
    <2>1. 254 * n \in Nat /\ n + 254 * n = 255 * n
      OBVIOUS
    <2>2. gf_mul(AlphaPower(n), AlphaPower(254 * n)) = AlphaPower(n + 254 * n)
      BY <2>1, PowersMultiply
    <2> QED BY <2>1, <2>2, InverseIs, ChainPower
  <1>2. \A n \in 0..Order-1 : n \in Nat
    BY CountNonZero
  <1>3. \A a \in NonZero : gf_mul(a, gf_inv(a)) = One
    BY <1>1, <1>2, EveryElementIsAPower
  <1>4. ASSUME NEW a \in Field PROVE gf_inv(a) \in Field
    <2>1. CASE a = Zero
      BY <2>1, InverseIs
    <2>2. CASE a # Zero
      <3>1. PICK n \in Nat : a = AlphaPower(n)
        BY <1>2, <2>2, EveryElementIsAPower DEF NonZero
      <3>2. 254 * n \in Nat
        OBVIOUS
      <3> QED BY <3>1, <3>2, InverseIs, Powers
    <2> QED BY <2>1, <2>2
  <1> QED BY <1>1, <1>3, <1>4

-----------------------------------------------------------------------------
(* build_tables.                                                           *)

\* The tables after some rounds: powers twice over, and their logarithms.
TablesInv ==
    /\ entry \in 0..Order
    /\ x_i = AlphaPower(entry)
    /\ DOMAIN exp = 0..2*Order+1 /\ exp = [n \in 0..2*Order+1 |-> exp[n]]
    /\ DOMAIN log = Field /\ log = [a \in Field |-> log[a]]
    /\ \A n \in 0..entry-1 :
          /\ exp[n] = AlphaPower(n) /\ exp[n + Order] = AlphaPower(n)
          /\ log[AlphaPower(n)] = n

LEMMA TablesInvariant == BuildSpec => []TablesInv
  <1>1. BuildInit => TablesInv
    <2> SUFFICES ASSUME BuildInit PROVE TablesInv
      OBVIOUS
    <2>1. 0 \in 0..Order /\ 0..0-1 = {}
      BY CountNonZero
    <2>2. x_i = AlphaPower(entry)
      BY Powers DEF BuildInit
    <2> QED BY <2>1, <2>2 DEF BuildInit, TablesInv
  <1>2. ASSUME TablesInv, Store PROVE TablesInv'
    <2>1. /\ entry \in Nat /\ entry + 1 \in 0..Order /\ entry \in 0..Order-1
          /\ entry \in 0..2*Order+1 /\ entry + Order \in 0..2*Order+1 /\ Order \in Nat
          /\ \A n \in 0..(entry+1)-1 : n # entry => n \in 0..entry-1
      BY <1>2, CountNonZero DEF TablesInv, Store
    <2>2. /\ x_i = AlphaPower(entry) /\ entry' = entry + 1 /\ x_i' = TimesAlpha(x_i)
          /\ exp' = [exp EXCEPT ![entry] = x_i, ![entry + Order] = x_i]
          /\ log' = [log EXCEPT ![x_i] = entry]
      BY <1>2 DEF TablesInv, Store
    <2>3. x_i' = AlphaPower(entry')
      BY <2>1, <2>2, Powers
    <2>4. /\ DOMAIN exp = 0..2*Order+1 /\ exp = [n \in 0..2*Order+1 |-> exp[n]]
          /\ DOMAIN log = Field /\ log = [a \in Field |-> log[a]]
      BY <1>2 DEF TablesInv
    <2>5. /\ DOMAIN exp' = 0..2*Order+1 /\ exp' = [n \in 0..2*Order+1 |-> exp'[n]]
          /\ DOMAIN log' = Field /\ log' = [a \in Field |-> log'[a]]
      BY <2>2, <2>4
    <2>6. ASSUME NEW n \in 0..(entry+1)-1
          PROVE  /\ exp'[n] = AlphaPower(n) /\ exp'[n + Order] = AlphaPower(n)
                 /\ log'[AlphaPower(n)] = n
      <3>0. /\ n \in Nat /\ n \in 0..2*Order+1 /\ n + Order \in 0..2*Order+1
            /\ n \in 0..Order-1 /\ n # entry + Order /\ AlphaPower(n) \in Field
        BY <2>1, Powers
      <3>1. CASE n = entry
        <4>1. entry # entry + Order
          BY <2>1, CountNonZero
        <4>2. exp'[entry] = x_i /\ exp'[entry + Order] = x_i
          BY <2>1, <2>2, <2>4, <4>1
        <4>3. log'[x_i] = entry
          BY <2>2, <2>4, <3>0, <3>1
        <4> QED BY <2>2, <3>1, <4>2, <4>3
      <3>2. CASE n # entry
        <4>1. n \in 0..entry-1
          BY <2>1, <3>2
        <4>2. /\ exp[n] = AlphaPower(n) /\ exp[n + Order] = AlphaPower(n)
              /\ log[AlphaPower(n)] = n
          BY <1>2, <4>1 DEF TablesInv
        <4>3. n + Order # entry /\ n + Order # entry + Order
          BY <2>1, <3>0, <3>2
        <4>4. exp'[n] = exp[n] /\ exp'[n + Order] = exp[n + Order]
          BY <2>2, <2>4, <3>0, <3>2, <4>3
        <4>5. AlphaPower(n) # x_i
          BY <2>1, <2>2, <3>0, <3>2, PowersDiffer
        <4>6. log'[AlphaPower(n)] = log[AlphaPower(n)]
          BY <2>2, <2>4, <3>0, <4>5
        <4> QED BY <4>2, <4>4, <4>6
      <3> QED BY <3>1, <3>2
    <2> QED BY <2>1, <2>2, <2>3, <2>5, <2>6 DEF TablesInv
  <1>3. ASSUME TablesInv, UNCHANGED tables PROVE TablesInv'
    BY <1>3 DEF TablesInv, tables
  <1> QED BY <1>1, <1>2, <1>3, PTL DEF BuildSpec

\* The tables hold distinct powers of alpha and their logarithms; after the last round
\* the next power is 1 again (PowersAreDistinct, of build_tables).
THEOREM TablesHoldThePowers == BuildSpec => []PowersAreDistinct
  <1>1. ASSUME TablesInv PROVE PowersAreDistinct
    <2>1. entry \in 0..Order /\ x_i = AlphaPower(entry) /\ Order \in Nat
      BY <1>1, CountNonZero DEF TablesInv
    <2>2. \A n \in 0..entry-1 : n \in Nat /\ exp[n] = AlphaPower(n) /\ log[AlphaPower(n)] = n
      <3>1. \A n \in 0..entry-1 : n \in Nat
        BY <2>1
      <3>2. \A n \in 0..entry-1 : exp[n] = AlphaPower(n) /\ log[AlphaPower(n)] = n
        BY <1>1 DEF TablesInv
      <3> QED BY <3>1, <3>2
    <2>3. \A n \in 0..entry-1 : exp[n] # Zero /\ log[exp[n]] = n
      BY <2>2, PowersDiffer
    <2>4. ASSUME entry > 0 PROVE x_i = gf_mul(exp[entry - 1], {1})
      <3>1. entry - 1 \in 0..entry-1 /\ entry - 1 \in Nat /\ (entry - 1) + 1 = entry
        BY <2>1, <2>4
      <3>2. exp[entry - 1] = AlphaPower(entry - 1)
        BY <2>2, <3>1
      <3>3. x_i = TimesAlpha(AlphaPower(entry - 1))
        BY <2>1, <3>1, Powers
      <3>4. One \in Field /\ 0 \in Nat /\ 0 + 1 = 1 /\ 1 \in 0..Bits-1
        BY GfSizes, GeneratorAssumption
      <3>5. gf_mul({1}, AlphaPower(entry - 1)) = TimesAlpha(gf_mul({0}, AlphaPower(entry - 1)))
        BY <3>1, <3>4, Powers, MulNextBit
      <3>6. gf_mul({0}, AlphaPower(entry - 1)) = AlphaPower(entry - 1)
        BY <3>1, Powers, MulUnits, SingleBits
      <3>7. gf_mul({1}, AlphaPower(entry - 1)) = gf_mul(AlphaPower(entry - 1), {1})
        BY <3>1, <3>4, Powers, SingleBits, MulCommutes
      <3> QED BY <3>2, <3>3, <3>5, <3>6, <3>7
    <2>5. ASSUME entry < Order PROVE \A n \in 0..entry-1 : exp[n] # x_i
      <3>1. entry \in 0..Order-1 /\ \A n \in 0..entry-1 : n \in 0..Order-1 /\ n # entry
        BY <2>1, <2>5
      <3> QED BY <2>1, <2>2, <3>1, PowersDiffer
    <2>6. entry = Order => x_i = One
      BY <2>1, EveryElementIsAPower
    <2> QED BY <2>3, <2>4, <2>5, <2>6 DEF PowersAreDistinct
  <1> QED BY <1>1, TablesInvariant, PTL

\* The addition chain inverts, and the squaring squares, every element the loop meets
\* (InversionIsRight, of gf_inv and gf_sq).
THEOREM ChainInverts == BuildSpec => []InversionIsRight
  <1>1. ASSUME TablesInv PROVE InversionIsRight
    <2>1. entry \in Nat /\ x_i = AlphaPower(entry)
      BY <1>1, CountNonZero DEF TablesInv
    <2>2. x_i \in Field
      BY <2>1, Powers
    <2>3. gf_mul(x_i, gf_inv(x_i)) = One
      BY <2>1, Inverts
    <2>4. gf_sq(x_i) = gf_mul(x_i, x_i)
      BY <2>2, SquareIs
    <2> QED BY <2>3, <2>4, InverseIs DEF InversionIsRight
  <1> QED BY <1>1, TablesInvariant, PTL

\* The finished tables multiply as the branch-free product does, with no reduction of
\* the sum of the logarithms (ProductMatchesTables, of build_tables and gf_mul).
THEOREM TablesMultiply == BuildSpec => []ProductMatchesTables
  <1>1. ASSUME TablesInv PROVE ProductMatchesTables
    <2> SUFFICES ASSUME entry = Order, NEW a \in NonZero, NEW b \in NonZero
                 PROVE  gf_mul(a, b) = exp[log[a] + log[b]]
      BY DEF ProductMatchesTables, NonZero
    <2>1. PICK m \in 0..Order-1 : a = AlphaPower(m)
      BY EveryElementIsAPower
    <2>2. PICK n \in 0..Order-1 : b = AlphaPower(n)
      BY EveryElementIsAPower
    <2>3. \A k \in 0..Order-1 :
              /\ exp[k] = AlphaPower(k) /\ exp[k + Order] = AlphaPower(k)
              /\ log[AlphaPower(k)] = k
      BY <1>1 DEF TablesInv
    <2>4. gf_mul(a, b) = AlphaPower(m + n) /\ log[a] = m /\ log[b] = n /\ m + n \in Nat
          /\ Order \in Nat
      <3>1. m \in Nat /\ n \in Nat /\ Order \in Nat /\ m + n \in Nat
        BY CountNonZero
      <3>2. gf_mul(a, b) = AlphaPower(m + n)
        BY <2>1, <2>2, <3>1, PowersMultiply
      <3>3. log[a] = m /\ log[b] = n
        BY <2>1, <2>2, <2>3
      <3> QED BY <3>1, <3>2, <3>3
    <2>5. CASE m + n < Order
      <3>1. m + n \in 0..Order-1
        BY <2>4, <2>5
      <3> QED BY <2>3, <2>4, <3>1
    <2>6. CASE m + n >= Order
      <3>1. (m + n) - Order \in 0..Order-1 /\ ((m + n) - Order) + Order = m + n
            /\ (m + n) - Order \in Nat
        BY <2>4, <2>6
      <3>2. exp[m + n] = AlphaPower((m + n) - Order)
        BY <2>3, <3>1
      <3>3. AlphaPower(m + n) = AlphaPower((m + n) - Order)
        BY <3>1, EveryElementIsAPower
      <3> QED BY <2>4, <3>2, <3>3
    <2> QED BY <2>4, <2>5, <2>6
  <1> QED BY <1>1, TablesInvariant, PTL

\* The operations of gf.rs are those of a field in which adding is XOR: every law the
\* outer code is proved from (FieldAssumption).
THEOREM GfIsAField ==
    /\ \A a, b \in Field : gf_add(a, b) \in Field /\ gf_mul(a, b) \in Field
    /\ \A a \in Field : gf_inv(a) \in Field
    /\ \A a \in Field : gf_add(a, Zero) = a /\ gf_add(a, a) = Zero /\ gf_mul(a, One) = a
    /\ \A a, b \in Field : gf_add(a, b) = gf_add(b, a) /\ gf_mul(a, b) = gf_mul(b, a)
    /\ \A a, b, c \in Field :
          /\ gf_add(gf_add(a, b), c) = gf_add(a, gf_add(b, c))
          /\ gf_mul(gf_mul(a, b), c) = gf_mul(a, gf_mul(b, c))
          /\ gf_mul(a, gf_add(b, c)) = gf_add(gf_mul(a, b), gf_mul(a, c))
    /\ \A a \in Field \ {Zero} : gf_mul(a, gf_inv(a)) = One
  <1>1. \A a, b \in Field : gf_add(a, b) \in Field /\ gf_mul(a, b) \in Field
    BY FieldAdd, MulAdditive
  <1>2. \A a \in Field : gf_inv(a) \in Field
    BY Inverts
  <1>3. \A a \in Field : gf_add(a, Zero) = a /\ gf_add(a, a) = Zero /\ gf_mul(a, One) = a
    BY XorLaws, MulUnits DEF Zero
  <1>4. \A a, b \in Field : gf_add(a, b) = gf_add(b, a) /\ gf_mul(a, b) = gf_mul(b, a)
    BY XorLaws, MulCommutes
  <1>5. ASSUME NEW a \in Field, NEW b \in Field, NEW c \in Field
        PROVE  /\ gf_add(gf_add(a, b), c) = gf_add(a, gf_add(b, c))
               /\ gf_mul(gf_mul(a, b), c) = gf_mul(a, gf_mul(b, c))
               /\ gf_mul(a, gf_add(b, c)) = gf_add(gf_mul(a, b), gf_mul(a, c))
    BY XorLaws, MulAssociates, MulAdditive
  <1>6. \A a \in Field \ {Zero} : gf_mul(a, gf_inv(a)) = One
    BY Inverts DEF NonZero
  <1> QED BY <1>1, <1>2, <1>3, <1>4, <1>5, <1>6

\* And the finished table is what the outer code is proved to need of GF_EXP
\* (PowersAssumption): distinct powers, none of them 0, twice over.
THEOREM TablesServeTheOuterCode ==
    BuildSpec => [](entry = Order =>
        /\ exp[0] = One
        /\ \A n \in 0..Order-1 : exp[n] \in NonZero /\ exp[n + Order] = exp[n]
        /\ \A m, n \in 0..Order-1 :
              /\ exp[m + n] = gf_mul(exp[m], exp[n])
              /\ m # n => exp[m] # exp[n])
  <1> DEFINE Served ==
        entry = Order =>
        /\ exp[0] = One
        /\ \A n \in 0..Order-1 : exp[n] \in NonZero /\ exp[n + Order] = exp[n]
        /\ \A m, n \in 0..Order-1 :
              /\ exp[m + n] = gf_mul(exp[m], exp[n])
              /\ m # n => exp[m] # exp[n]
  <1>1. ASSUME TablesInv PROVE Served
    <2> SUFFICES ASSUME entry = Order
                 PROVE  /\ exp[0] = One
                        /\ \A n \in 0..Order-1 : exp[n] \in NonZero /\ exp[n + Order] = exp[n]
                        /\ \A m, n \in 0..Order-1 :
                              /\ exp[m + n] = gf_mul(exp[m], exp[n])
                              /\ m # n => exp[m] # exp[n]
      OBVIOUS
    <2>1. \A k \in 0..Order-1 :
              k \in Nat /\ exp[k] = AlphaPower(k) /\ exp[k + Order] = AlphaPower(k)
      <3>1. \A k \in 0..Order-1 : k \in Nat
        BY CountNonZero
      <3>2. \A k \in 0..Order-1 : exp[k] = AlphaPower(k) /\ exp[k + Order] = AlphaPower(k)
        BY <1>1 DEF TablesInv
      <3> QED BY <3>1, <3>2
    <2>2. Order \in Nat /\ 0 \in 0..Order-1
      BY CountNonZero
    <2>3. exp[0] = One
      BY <2>1, <2>2, Powers
    <2>4. \A n \in 0..Order-1 : exp[n] \in NonZero /\ exp[n + Order] = exp[n]
      BY <2>1, Powers, PowersDiffer DEF NonZero
    <2>5. ASSUME NEW m \in 0..Order-1, NEW n \in 0..Order-1
          PROVE  exp[m + n] = gf_mul(exp[m], exp[n]) /\ (m # n => exp[m] # exp[n])
      <3>1. gf_mul(exp[m], exp[n]) = AlphaPower(m + n)
        BY <2>1, PowersMultiply
      <3>2. exp[m + n] = AlphaPower(m + n)
        <4>1. CASE m + n < Order
          <5>1. m + n \in 0..Order-1
            BY <2>2, <4>1
          <5> QED BY <2>1, <5>1
        <4>2. CASE m + n >= Order
          <5>1. (m + n) - Order \in 0..Order-1 /\ ((m + n) - Order) + Order = m + n
                /\ (m + n) - Order \in Nat
            BY <2>2, <4>2
          <5>2. exp[m + n] = AlphaPower((m + n) - Order)
            BY <2>1, <5>1
          <5>3. AlphaPower(m + n) = AlphaPower((m + n) - Order)
            BY <5>1, EveryElementIsAPower
          <5> QED BY <5>2, <5>3
        <4> QED BY <2>2, <4>1, <4>2
      <3>3. m # n => exp[m] # exp[n]
        BY <2>1, PowersDiffer
      <3> QED BY <3>1, <3>2, <3>3
    <2> QED BY <2>3, <2>4, <2>5
  <1> HIDE DEF Served
  <1>2. BuildSpec => []Served
    BY <1>1, TablesInvariant, PTL
  <1> QED BY <1>2 DEF Served

=============================================================================
