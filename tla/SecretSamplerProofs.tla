------------------------- MODULE SecretSamplerProofs -------------------------
(***************************************************************************)
(* Theorems about SecretSampler, for every ring dimension, weight and byte *)
(* range.                                                                  *)
(***************************************************************************)
EXTENDS SecretSampler, FiniteSetTheorems, TLAPS

(* Counting, and the position in the stream.                               *)

\* The image of an injective table of n entries has n elements.
LEMMA ImageCardinality ==
    ASSUME NEW n \in Nat, NEW f,
           \A k, l \in 0..n-1 : k # l => f[k] # f[l]
    PROVE  Cardinality({f[k] : k \in 0..n-1}) = n
  <1> DEFINE S == 0..n-1
             T == {f[k] : k \in S}
             g == [k \in S |-> f[k]]
  <1>1. IsFiniteSet(S) /\ Cardinality(S) = n
    BY FS_Interval
  <1>2. g \in Bijection(S, T)
    <2>1. g \in [S -> T]
      OBVIOUS
    <2>2. \A a, b \in S : g[a] = g[b] => a = b
      OBVIOUS
    <2>3. \A t \in T : \E s \in S : g[s] = t
      OBVIOUS
    <2> QED BY <2>1, <2>2, <2>3 DEF Bijection, Injection, IsInjective, Surjection
  <1>3. ExistsBijection(S, T)
    BY <1>2 DEF ExistsBijection
  <1> HIDE DEF S, T, g
  <1>4. Cardinality(T) = Cardinality(S)
    BY <1>1, <1>3, FS_Bijection
  <1> QED BY <1>1, <1>4 DEF T, S

\* The next multiple of Unit: a read leaves the stream at a whole unit.
LEMMA ReadAligns ==
    ASSUME NEW offset \in Nat, NEW len \in Nat, offset % Unit = 0
    PROVE  /\ xof_get_bytes(offset, len) \in Nat
           /\ xof_get_bytes(offset, len) % Unit = 0
  <1> USE UnitAssumption
  <1>1. \A x \in Nat : /\ x \div Unit \in Nat /\ x % Unit \in 0..Unit-1
                        /\ x = Unit * (x \div Unit) + (x % Unit)
    BY Z3
  <1>2. \A a \in Nat : (Unit * a) % Unit = 0
    BY Z3
  <1> DEFINE a == offset \div Unit
             b == len \div Unit
             r == len % Unit
  <1>3. a \in Nat /\ b \in Nat /\ r \in 0..Unit-1
    BY <1>1
  <1>4. offset = Unit * a /\ len = Unit * b + r
    BY <1>1
  <1>5. CASE r = 0
    <2>1. Pad(len) = 0
      BY <1>5, Z3 DEF Pad
    <2> HIDE DEF a, b, r
    <2>2. xof_get_bytes(offset, len) = Unit * (a + b)
      BY <1>3, <1>4, <1>5, <2>1, Z3 DEF xof_get_bytes
    <2> QED BY <1>2, <1>3, <2>2
  <1>6. CASE r # 0
    <2>1. Pad(len) = Unit - r
      BY <1>3, <1>6, Z3 DEF Pad
    <2> HIDE DEF a, b, r
    <2>2. xof_get_bytes(offset, len) = Unit * (a + b + 1)
      BY <1>3, <1>4, <1>6, <2>1, Z3 DEF xof_get_bytes
    <2> QED BY <1>2, <1>3, <2>2
  <1> QED BY <1>5, <1>6

-----------------------------------------------------------------------------

USE SamplerAssumption, UnitAssumption

-----------------------------------------------------------------------------
(* Type correctness.                                                       *)

\* A position is below N, whatever the candidate.
LEMMA PositionRange == ASSUME NEW c \in Nat PROVE Position(c) \in 0..N-1
  <1>1. \A x, y \in Nat : y > 0 => x % y \in 0..y-1
    BY Z3
  <1>2. N \in Nat /\ N > 0
    OBVIOUS
  <1> QED BY ONLY <1>1, <1>2, c \in Nat, Zenon DEF Position

\* The three bytes of a candidate lie within the batch.
LEMMA CandidateInBatch ==
    ASSUME TypeOK, j # Batch
    PROVE  /\ {j, j + 1, j + 2} \subseteq 0..Batch-1
           /\ j + 3 \in {3 * k : k \in 0..Weight}
           /\ Candidate(buf, j) \in Nat
  <1>1. PICK k \in 0..Weight : j = 3 * k
    BY DEF TypeOK
  <1>2. k < Weight
    BY <1>1 DEF Batch
  <1>3. {j, j + 1, j + 2} \subseteq 0..Batch-1
    BY <1>1, <1>2 DEF Batch
  <1>4. j + 3 = 3 * (k + 1) /\ k + 1 \in 0..Weight
    BY <1>1, <1>2
  <1>5. /\ buf[j] \in Nat /\ buf[j+1] \in Nat /\ buf[j+2] \in Nat
    BY <1>3 DEF TypeOK
  <1>6. \A x, y \in Nat : x * y \in Nat
    BY Z3
  <1>7. Candidate(buf, j) \in Nat
    <2>1. ByteRange \in Nat
      OBVIOUS
    <2>2. buf[j] * ByteRange + buf[j+1] \in Nat
      BY <1>5, <1>6, <2>1
    <2> DEFINE high == buf[j] * ByteRange + buf[j+1]
    <2>3. high * ByteRange \in Nat
      BY <1>6, <2>1, <2>2
    <2>4. Candidate(buf, j) = high * ByteRange + buf[j+2]
      BY DEF Candidate
    <2> HIDE DEF high
    <2> QED BY <1>5, <2>3, <2>4
  <1> QED BY <1>3, <1>4, <1>7

\* A full batch and an empty one are whole candidates.
LEMMA BatchType ==
    Batch \in {3 * k : k \in 0..Weight} /\ 0 \in {3 * k : k \in 0..Weight}
  <1>1. Batch = 3 * Weight /\ 0 = 3 * 0 /\ Weight \in 0..Weight /\ 0 \in 0..Weight
    BY DEF Batch
  <1> QED BY <1>1

\* The initial buffers are well typed.
LEMMA ConstantTypes ==
    /\ Batch \in Nat
    /\ NoBatch \in [0..Batch-1 -> 0..ByteRange-1]
    /\ NoPositions \in [0..Weight-1 -> 0..N-1]
  <1>1. Batch \in Nat
    BY DEF Batch
  <1>2. 0 \in 0..ByteRange-1 /\ 0 \in 0..N-1
    OBVIOUS
  <1> QED BY <1>1, <1>2 DEF NoBatch, NoPositions

LEMMA TypeInit == Init => TypeOK
  <1> SUFFICES ASSUME Init
               PROVE  TypeOK
    OBVIOUS
  <1>1. j \in {3 * k : k \in 0..Weight}
    BY BatchType DEF Init
  <1>2. buf \in [0..Batch-1 -> 0..ByteRange-1] /\ positions \in [0..Weight-1 -> 0..N-1]
    BY ConstantTypes DEF Init
  <1>3. filled \in 0..Weight /\ delivered \in 0..MaxCalls
    BY DEF Init
  <1> QED BY <1>1, <1>2, <1>3 DEF Init, TypeOK

LEMMA TypeNext == TypeOK /\ [Next]_vars => TypeOK'
  <1> SUFFICES ASSUME TypeOK, [Next]_vars
               PROVE  TypeOK'
    OBVIOUS
  <1>1. CASE Call
    BY <1>1, BatchType DEF Call, TypeOK
  <1>2. CASE Refill
    <2>1. xof' \in Nat
      <3>1. \A l \in Nat : Pad(l) \in Nat
        BY Z3 DEF Pad
      <3>2. Batch \in Nat /\ Pad(Batch) \in Nat
        BY <3>1, ConstantTypes
      <3> QED BY <1>2, <3>2 DEF Refill, TypeOK, xof_get_bytes
    <2> QED BY <1>2, <2>1, BatchType DEF Refill, TypeOK
  <1>3. CASE Reject
    BY <1>3, CandidateInBatch DEF Reject, TypeOK
  <1>4. CASE Take
    <2>1. Position(Candidate(buf, j)) \in 0..N-1
      BY <1>4, CandidateInBatch, PositionRange DEF Take
    <2>2. positions' \in [0..Weight-1 -> 0..N-1]
      BY <1>4, <2>1 DEF Take, TypeOK
    <2>3. filled' \in 0..Weight
      BY <1>4 DEF Take, TypeOK
    <2> QED BY <1>4, <2>2, <2>3, CandidateInBatch DEF Take, TypeOK
  <1>5. CASE Return
    <2>1. poly' \subseteq 0..N-1
      BY <1>5 DEF Return, TypeOK
    <2>2. j' \in {3 * k : k \in 0..Weight}
      BY <1>5, BatchType DEF Return
    <2>3. /\ buf' \in [0..Batch-1 -> 0..ByteRange-1]
          /\ positions' \in [0..Weight-1 -> 0..N-1]
      BY <1>5, ConstantTypes DEF Return
    <2>4. filled' \in 0..Weight /\ delivered' \in 0..MaxCalls
      BY <1>5 DEF Return, TypeOK
    <2> QED BY <1>5, <2>1, <2>2, <2>3, <2>4 DEF Return, TypeOK
  <1>6. CASE UNCHANGED vars
    BY <1>6 DEF vars, TypeOK
  <1> QED BY <1>1, <1>2, <1>3, <1>4, <1>5, <1>6 DEF Next

\* The three bytes of every candidate lie within the batch, every position is below
\* N and no entry beyond the Weight-th is written (sample_fixed_weight).
THEOREM TypeCorrect == Spec => []TypeOK
  BY TypeInit, TypeNext, PTL DEF Spec

-----------------------------------------------------------------------------
(* Distinct positions and an aligned stream.                               *)

IInv ==
    /\ TypeOK
    /\ AcceptedAreDistinct
    /\ ReadsStartAligned

LEMMA InvInit == Init => IInv
  <1>1. 0 % Unit = 0
    BY Z3
  <1> QED BY <1>1, TypeInit DEF Init, IInv, AcceptedAreDistinct, ReadsStartAligned

LEMMA InvNext == IInv /\ [Next]_vars => IInv'
  <1> SUFFICES ASSUME IInv, [Next]_vars
               PROVE  IInv'
    OBVIOUS
  <1>t. TypeOK /\ TypeOK'
    BY TypeNext DEF IInv
  <1>1. CASE Call
    BY <1>1, <1>t DEF Call, IInv, AcceptedAreDistinct, ReadsStartAligned
  <1>2. CASE Refill
    <2>1. xof' % Unit = 0
      <3>1. Batch \in Nat
        BY DEF Batch
      <3> QED BY <1>2, <1>t, <3>1, ReadAligns DEF Refill, IInv, ReadsStartAligned, TypeOK
    <2>2. UNCHANGED <<positions, filled>>
      BY <1>2 DEF Refill
    <2> QED BY <1>t, <2>1, <2>2 DEF IInv, AcceptedAreDistinct, ReadsStartAligned
  <1>3. CASE Reject
    BY <1>3, <1>t DEF Reject, IInv, AcceptedAreDistinct, ReadsStartAligned
  <1>4. CASE Take
    <2> DEFINE pos == Position(Candidate(buf, j))
    <2>1. /\ positions' = [positions EXCEPT ![filled] = pos]
          /\ filled' = IF IsDuplicate(pos) THEN filled ELSE filled + 1
          /\ filled \in 0..Weight-1 /\ UNCHANGED xof
      BY <1>4, <1>t DEF Take, TypeOK
    <2> HIDE DEF pos
    <2>2. /\ positions'[filled] = pos
          /\ \A k \in 0..filled-1 : positions'[k] = positions[k]
      BY <1>t, <2>1 DEF TypeOK
    <2>3. AcceptedAreDistinct'
      <3>1. CASE IsDuplicate(pos)
        BY <2>1, <2>2, <3>1 DEF IInv, AcceptedAreDistinct
      <3>2. CASE ~IsDuplicate(pos)
        <4>1. \A k \in 0..filled-1 : positions[k] # pos
          BY <3>2 DEF IsDuplicate
        <4>2. filled' - 1 = filled
          BY <2>1, <3>2
        <4> SUFFICES ASSUME NEW k \in 0..filled, NEW l \in 0..filled, k # l
                     PROVE  positions'[k] # positions'[l]
          BY <4>2 DEF AcceptedAreDistinct
        <4>3. CASE k = filled
          BY <2>1, <2>2, <4>1, <4>3
        <4>4. CASE l = filled
          BY <2>1, <2>2, <4>1, <4>4
        <4>5. CASE k # filled /\ l # filled
          BY <2>1, <2>2, <4>5 DEF IInv, AcceptedAreDistinct
        <4> QED BY <4>3, <4>4, <4>5
      <3> QED BY <3>1, <3>2
    <2> QED BY <1>t, <2>1, <2>3 DEF IInv, ReadsStartAligned
  <1>5. CASE Return
    BY <1>5, <1>t DEF Return, IInv, AcceptedAreDistinct, ReadsStartAligned
  <1>6. CASE UNCHANGED vars
    BY <1>6, <1>t DEF vars, IInv, AcceptedAreDistinct, ReadsStartAligned
  <1> QED BY <1>1, <1>2, <1>3, <1>4, <1>5, <1>6 DEF Next

LEMMA Invariant == Spec => []IInv
  BY InvInit, InvNext, PTL DEF Spec

\* The write-before-scan order never leaves a repeated position in the prefix.
THEOREM PrefixIsDistinct == Spec => []AcceptedAreDistinct
  <1>1. IInv => AcceptedAreDistinct
    BY DEF IInv
  <1> QED BY <1>1, Invariant, PTL

\* The stream stands at a whole unit whatever was rejected or repeated.
THEOREM ReadsAlign == Spec => []ReadsStartAligned
  <1>1. IInv => ReadsStartAligned
    BY DEF IInv
  <1> QED BY <1>1, Invariant, PTL

-----------------------------------------------------------------------------
(* Refinement.                                                             *)

LEMMA RefinementNext == IInv /\ [Next]_vars => [Fixed!Deliver]_(Fixed!vars)
  <1> SUFFICES ASSUME IInv, [Next]_vars
               PROVE  Fixed!Deliver \/ UNCHANGED Fixed!vars
    OBVIOUS
  <1>1. CASE Return
    <2> DEFINE image == {positions[k] : k \in 0..Weight-1}
    <2>1. filled = Weight /\ poly' = image /\ delivered' = delivered + 1
      BY <1>1 DEF Return
    <2>2. \A k, l \in 0..Weight-1 : k # l => positions[k] # positions[l]
      BY <2>1 DEF IInv, AcceptedAreDistinct
    <2>3. image \subseteq 0..N-1
      BY DEF IInv, TypeOK
    <2>4. Weight \in Nat
      OBVIOUS
    <2>5. Cardinality(image) = Weight
      BY <2>2, <2>4, ImageCardinality
    <2> HIDE DEF image
    <2>6. Fixed!Cardinality(image) = Cardinality(image)
      BY DEF Fixed!Cardinality, Cardinality
    <2> QED BY <2>1, <2>3, <2>5, <2>6 DEF Fixed!Deliver
  <1>2. CASE Call \/ Refill \/ Reject \/ Take \/ UNCHANGED vars
    BY <1>2 DEF Call, Refill, Reject, Take, vars, Fixed!vars
  <1> QED BY <1>1, <1>2 DEF Next

\* Each call of sample_fixed_weight that returns delivers a polynomial of the ring
\* with exactly Weight coefficients equal to 1, whatever bytes it reads.
THEOREM WeightIsExact == Spec => DeliversFixedWeight
  <1>1. Init => Fixed!Init
    BY DEF Init, Fixed!Init
  <1> QED BY <1>1, RefinementNext, Invariant, PTL
          DEF Spec, DeliversFixedWeight, Fixed!Spec

-----------------------------------------------------------------------------
(* The draw.                                                               *)

\* Below the threshold every position has the same number of candidates.
LEMMA BackingIsUniform ==
    ASSUME NEW p \in 0..N-1
    PROVE  Backing(p) = CandidateRange \div N
  <1> DEFINE Q == CandidateRange \div N
             S == 0..Q-1
             T == {c \in 0..CandidateRange-1 : Accepted(c) /\ Position(c) = p}
             g == [q \in S |-> N * q + p]
  <1>1. \A x, y \in Nat : y > 0 => /\ x \div y \in Nat /\ x % y \in 0..y-1
                                   /\ x = y * (x \div y) + (x % y)
    BY Z3
  <1>2. N \in Nat \ {0} /\ CandidateRange \in Nat
    <2>1. \A x, y \in Nat : x * y \in Nat
      BY Z3
    <2> QED BY <2>1 DEF CandidateRange
  <1>3. Q \in Nat /\ N * Q \in Nat /\ N * Q <= CandidateRange /\ Threshold = N * Q
    <2>1. Q \in Nat /\ CandidateRange % N \in Nat /\ CandidateRange = N * Q + (CandidateRange % N)
      BY <1>1, <1>2
    <2>2. \A x, y \in Nat : x * y \in Nat /\ x * y = y * x
      BY Z3
    <2> QED BY <1>2, <2>1, <2>2 DEF Threshold
  <1> HIDE DEF Q
  <1>4. ASSUME NEW q \in S
        PROVE  N * q + p \in T
    <2>1. N * q \in Nat /\ N * q + N <= N * Q
      <3>1. \A x, y, z \in Nat : x < y => z * x + z <= z * y /\ z * x \in Nat
        BY Z3
      <3> QED BY <1>2, <1>3, <3>1
    <2>2. (N * q + p) % N = p
      <3>1. \A x, y, z \in Nat : z < x => (x * y + z) % x = z
        BY Z3
      <3> QED BY <1>2, <1>3, <3>1
    <2>3. N * q + p \in 0..CandidateRange-1 /\ N * q + p < Threshold
      BY <1>2, <1>3, <2>1
    <2> QED BY <2>2, <2>3 DEF Accepted, Position
  <1>5. ASSUME NEW c \in T
        PROVE  \E q \in S : N * q + p = c
    <2>1. c \in Nat /\ c < N * Q /\ c % N = p
      BY <1>2, <1>3 DEF Accepted, Position
    <2>2. c \div N \in Nat /\ c = N * (c \div N) + p
      BY <1>1, <1>2, <2>1
    <2>3. c \div N < Q
      <3>1. \A x, y, z \in Nat : x >= y => z * x >= z * y /\ z * x \in Nat
        BY Z3
      <3>2. c \div N >= Q => N * (c \div N) >= N * Q /\ N * (c \div N) \in Nat
        BY <1>2, <1>3, <2>2, <3>1
      <3> QED BY <1>2, <1>3, <2>1, <2>2, <3>2
    <2> QED BY <1>3, <2>2, <2>3
  <1>6. ASSUME NEW a \in S, NEW b \in S, N * a + p = N * b + p
        PROVE  a = b
    <2>1. \A x, y, z \in Nat : x < y => z * x + z <= z * y
      BY Z3
    <2>2. \A x, z \in Nat : z * x \in Nat
      BY Z3
    <2>3. a \in Nat /\ b \in Nat /\ N * a \in Nat /\ N * b \in Nat /\ N * a = N * b
      BY <1>2, <1>3, <1>6, <2>2
    <2>4. (a < b => N * a + N <= N * b) /\ (b < a => N * b + N <= N * a)
      BY <1>2, <2>1, <2>3
    <2> QED BY <1>2, <2>3, <2>4
  <1>7. g \in Bijection(S, T)
    <2>1. g \in [S -> T]
      BY <1>4
    <2>2. \A a, b \in S : g[a] = g[b] => a = b
      BY <1>6
    <2>3. \A t \in T : \E s \in S : g[s] = t
      BY <1>5
    <2> QED BY <2>1, <2>2, <2>3 DEF Bijection, Injection, IsInjective, Surjection
  <1>8. IsFiniteSet(S) /\ Cardinality(S) = Q
    <2>1. 0 \in Int /\ Q - 1 \in Int
      BY <1>3
    <2>2. IsFiniteSet(0..Q-1) /\ Cardinality(0..Q-1) = IF 0 > Q - 1 THEN 0 ELSE (Q - 1) - 0 + 1
      BY <2>1, FS_Interval
    <2> QED BY <1>3, <2>2
  <1> HIDE DEF S, T, g
  <1>9. Cardinality(T) = Cardinality(S)
    BY <1>7, <1>8, FS_Bijection DEF ExistsBijection
  <1> QED BY <1>8, <1>9 DEF Backing, T, Q

\* Fewer accepted positions than the ring has leave one free.
LEMMA SomePositionIsFree ==
    ASSUME TypeOK, filled < Weight
    PROVE  Free # {}
  <1> SUFFICES ASSUME Free = {} PROVE FALSE
    OBVIOUS
  <1> DEFINE S == 0..filled-1
             T == {positions[k] : k \in S}
             g == [k \in S |-> positions[k]]
  <1>1. filled \in Nat /\ filled < N
    BY DEF TypeOK
  <1>2. IsFiniteSet(S) /\ Cardinality(S) = filled
    <2>1. 0 \in Int /\ filled - 1 \in Int
      BY <1>1
    <2>2. IsFiniteSet(0..filled-1)
          /\ Cardinality(0..filled-1) = IF 0 > filled - 1 THEN 0 ELSE (filled - 1) - 0 + 1
      BY <2>1, FS_Interval
    <2> QED BY <1>1, <2>2
  <1>3. g \in Surjection(S, T)
    BY DEF Surjection
  <1>4. 0..N-1 \subseteq T
    BY DEF Free, IsDuplicate
  <1> HIDE DEF S, T, g
  <1>5. IsFiniteSet(T) /\ Cardinality(T) <= filled /\ Cardinality(T) \in Nat
    BY <1>2, <1>3, FS_Surjection, FS_CardinalityType
  <1>6. Cardinality(0..N-1) <= Cardinality(T) /\ Cardinality(0..N-1) = N
    <2>1. 0 \in Int /\ N - 1 \in Int /\ ~(0 > N - 1) /\ (N - 1) - 0 + 1 = N
      OBVIOUS
    <2>2. Cardinality(0..N-1) = N
      BY <2>1, FS_Interval
    <2> QED BY <1>4, <1>5, <2>2, FS_Subset
  <1> QED BY <1>1, <1>5, <1>6

\* Whatever was accepted, every position still free is backed by the same number of
\* candidates, and one is: the rejection threshold of sample_fixed_weight makes the
\* draw uniform.
THEOREM DrawIsUniform == Spec => []FreePositionsAreEquallyLikely
  <1>1. TypeOK => FreePositionsAreEquallyLikely
    <2> SUFFICES ASSUME TypeOK, running, filled < Weight
                 PROVE  Free # {} /\ \E n \in 1..CandidateRange : \A p \in Free : Backing(p) = n
      BY DEF FreePositionsAreEquallyLikely
    <2> DEFINE n == CandidateRange \div N
    <2>1. n \in 1..CandidateRange
      <3>1. \A x, y \in Nat : y > 0 /\ y <= x => x \div y \in Nat /\ x \div y >= 1 /\ x \div y <= x
        BY Z3
      <3>2. CandidateRange \in Nat /\ N <= CandidateRange
        <4>1. \A x, y \in Nat : x * y \in Nat
          BY Z3
        <4> QED BY <4>1 DEF CandidateRange
      <3> QED BY <3>1, <3>2
    <2>2. \A p \in Free : Backing(p) = n
      BY BackingIsUniform DEF Free
    <2> HIDE DEF n
    <2> QED BY <2>1, <2>2, SomePositionIsFree
  <1> QED BY <1>1, TypeCorrect, PTL
=============================================================================
