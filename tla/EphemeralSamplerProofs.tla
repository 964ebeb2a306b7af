----------------------- MODULE EphemeralSamplerProofs -----------------------
(***************************************************************************)
(* Theorems about EphemeralSampler, for every ring dimension, weight, word *)
(* size and range of the numbers read.                                     *)
(***************************************************************************)
EXTENDS EphemeralSampler, FiniteSetTheorems, TLAPS

(* Counting, and the position in the stream.                               *)

\* The image of an injective table of n entries has n elements.
LEMMA ImageCardinality ==
    ASSUME NEW n \in Nat, NEW f,
           \A k, l \in 0..n-1 : k # l => f[k] # f[l]
    PROVE  Cardinality({f[k] : k \in 0..n-1}) = n
  <1> DEFINE S == 0..n-1
             T == {f[k] : k \in S}
             g == [k \in S |-> f[k]]
  <1>1. IsFiniteSet(S) /\ Cardinality(S) = n
    BY FS_Interval
  <1>2. g \in Bijection(S, T)
    <2>1. g \in [S -> T]
      OBVIOUS
    <2>2. \A a, b \in S : g[a] = g[b] => a = b
      OBVIOUS
    <2>3. \A t \in T : \E s \in S : g[s] = t
      OBVIOUS
    <2> QED BY <2>1, <2>2, <2>3 DEF Bijection, Injection, IsInjective, Surjection
  <1>3. ExistsBijection(S, T)
    BY <1>2 DEF ExistsBijection
  <1> HIDE DEF S, T, g
  <1>4. Cardinality(T) = Cardinality(S)
    BY <1>1, <1>3, FS_Bijection
  <1> QED BY <1>1, <1>4 DEF T, S

\* The next multiple of Unit: a read leaves the stream at a whole unit.
LEMMA ReadAligns ==
    ASSUME NEW offset \in Nat, NEW len \in Nat, offset % Unit = 0
    PROVE  /\ xof_get_bytes(offset, len) \in Nat
           /\ xof_get_bytes(offset, len) % Unit = 0
  <1> USE UnitAssumption
  <1>1. \A x \in Nat : /\ x \div Unit \in Nat /\ x % Unit \in 0..Unit-1
                        /\ x = Unit * (x \div Unit) + (x % Unit)
    BY Z3
  <1>2. \A a \in Nat : (Unit * a) % Unit = 0
    BY Z3
  <1> DEFINE a == offset \div Unit
             b == len \div Unit
             r == len % Unit
  <1>3. a \in Nat /\ b \in Nat /\ r \in 0..Unit-1
    BY <1>1
  <1>4. offset = Unit * a /\ len = Unit * b + r
    BY <1>1
  <1>5. CASE r = 0
    <2>1. Pad(len) = 0
      BY <1>5, Z3 DEF Pad
    <2> HIDE DEF a, b, r
    <2>2. xof_get_bytes(offset, len) = Unit * (a + b)
      BY <1>3, <1>4, <1>5, <2>1, Z3 DEF xof_get_bytes
    <2> QED BY <1>2, <1>3, <2>2
  <1>6. CASE r # 0
    <2>1. Pad(len) = Unit - r
      BY <1>3, <1>6, Z3 DEF Pad
    <2> HIDE DEF a, b, r
    <2>2. xof_get_bytes(offset, len) = Unit * (a + b + 1)
      BY <1>3, <1>4, <1>6, <2>1, Z3 DEF xof_get_bytes
    <2> QED BY <1>2, <1>3, <2>2
  <1> QED BY <1>5, <1>6

-----------------------------------------------------------------------------

USE SamplerAssumption, UnitAssumption

-----------------------------------------------------------------------------
(* Arithmetic.                                                             *)

\* i + ((rand * (N - i)) >> 32) lies in i..N-1.
LEMMA ScaledRange ==
    ASSUME NEW k \in 0..N-1, NEW r \in 0..RandRange-1
    PROVE  Scaled(k, r) \in k..N-1
  <1> DEFINE a == N - k
             q == (r * a) \div RandRange
  <1>1. a \in Nat /\ a > 0 /\ RandRange \in Nat /\ RandRange > 0
    OBVIOUS
  <1>2. r * a \in Nat /\ r * a < RandRange * a
    <2>1. \A x, y \in Nat : x < y => x * a < y * a
      BY <1>1, Z3
    <2> QED BY <1>1, <2>1
  <1>3. q \in Nat /\ RandRange * q <= r * a
    <2>1. \A x \in Nat : x \div RandRange \in Nat /\ RandRange * (x \div RandRange) <= x
      BY <1>1, Z3
    <2> QED BY <1>2, <2>1
  <1>4. q < a
    <2>1. \A x \in Nat : x >= a => RandRange * x >= RandRange * a
      BY <1>1, Z3
    <2>2. RandRange * a \in Nat /\ RandRange * q \in Nat
      BY <1>1, <1>3
    <2> HIDE DEF q, a
    <2> QED BY <1>1, <1>2, <1>3, <2>1, <2>2
  <1> HIDE DEF q
  <1>5. k + q \in k..N-1
    BY <1>1, <1>3, <1>4
  <1> QED BY <1>5 DEF Scaled, q

\* The words hold all N bits.
LEMMA WordsCoverRing == NWords \in Nat /\ NWords * WordBits >= N
  <1>1. \A x, y \in Nat : y > 0 => (x + y - 1) \div y \in Nat
                                   /\ ((x + y - 1) \div y) * y >= x
    BY Z3
  <1> QED BY <1>1 DEF NWords

\* A position is its word and its bit.
LEMMA WordAndBit ==
    ASSUME NEW p \in Nat
    PROVE  /\ p \div WordBits \in Nat /\ p % WordBits \in 0..WordBits-1
           /\ p = (p \div WordBits) * WordBits + (p % WordBits)
  <1>1. \A x, y \in Nat : y > 0 => /\ x \div y \in Nat /\ x % y \in 0..y-1
                                   /\ x = (x \div y) * y + (x % y)
    BY Z3
  <1>2. WordBits \in Nat /\ WordBits > 0
    OBVIOUS
  <1> QED BY ONLY <1>1, <1>2, p \in Nat, Zenon

-----------------------------------------------------------------------------
(* Type correctness.                                                       *)

LEMMA TypeInit == Init => TypeOK
  <1> SUFFICES ASSUME Init
               PROVE  TypeOK
    OBVIOUS
  <1>1. NoBits \in Words
    BY DEF NoBits, Words
  <1>2. i \in 0..(NWords + Weight) /\ 0 \in 0..N-1 /\ 0 \in 0..RandRange-1
    BY WordsCoverRing DEF Init
  <1> QED BY <1>1, <1>2 DEF Init, TypeOK

LEMMA TypeNext == TypeOK /\ [Next]_vars => TypeOK'
  <1> SUFFICES ASSUME TypeOK, [Next]_vars
               PROVE  TypeOK'
    OBVIOUS
  <1>w. NWords \in Nat
    BY WordsCoverRing
  <1>z. /\ NoBits \in Words
        /\ [k \in Index |-> 0] \in [Index -> 0..N-1]
        /\ [k \in Index |-> 0] \in [Index -> 0..RandRange-1]
    BY DEF NoBits, Words
  <1>1. CASE Read
    <2>1. xof' \in Nat
      <3>1. \A l \in Nat : Pad(l) \in Nat
        BY Z3 DEF Pad
      <3> QED BY <1>1, <3>1 DEF Read, TypeOK, xof_get_bytes
    <2> QED BY <1>1, <1>w, <1>z, <2>1 DEF Read, TypeOK, Index
  <1>2. CASE Draw
    <2>1. i \in Index /\ i \in 0..N-1
      BY <1>2 DEF Draw, TypeOK, Index
    <2>2. Scaled(i, rand[i]) \in 0..N-1
      <3>1. rand[i] \in 0..RandRange-1
        BY <2>1 DEF TypeOK
      <3>2. Scaled(i, rand[i]) \in i..N-1
        BY <2>1, <3>1, ScaledRange
      <3> QED BY <2>1, <3>2
    <2>3. support' \in [Index -> 0..N-1]
      BY <1>2, <2>2 DEF Draw, TypeOK
    <2>4. i' \in Index /\ phase' \in {"draw", "dedup"}
      BY <1>2, <2>1 DEF Draw, Index
    <2> QED BY <1>2, <1>w, <2>3, <2>4 DEF Draw, TypeOK, Index
  <1>3. CASE Dedup
    <2>1. i \in Index /\ i \in 0..N-1
      BY <1>3 DEF Dedup, TypeOK, Index
    <2>2. support' \in [Index -> 0..N-1]
      BY <1>3, <2>1 DEF Dedup, TypeOK, Resolved
    <2>3. /\ phase' \in {"dedup", "words"}
          /\ phase' = "dedup" => i' \in Index
          /\ phase' = "words" => i' = 0
          /\ i' \in Index
      BY <1>3, <2>1 DEF Dedup, Index
    <2> QED BY <1>3, <1>w, <2>2, <2>3 DEF Dedup, TypeOK, Index
  <1>4. CASE SetWord
    <2>1. BitsOfWord(support, i) \subseteq 0..WordBits-1
      <3>1. \A k \in Index : support[k] \in Nat
        BY DEF TypeOK
      <3> QED BY <3>1, WordAndBit DEF BitsOfWord
    <2>2. words' \in Words
      BY <1>4, <2>1 DEF SetWord, TypeOK, Words
    <2>3. i' \in 0..NWords /\ i' \in 0..(NWords + Weight)
      BY <1>4, <1>w DEF SetWord, TypeOK
    <2> QED BY <1>4, <2>2, <2>3 DEF SetWord, TypeOK
  <1>5. CASE Return
    <2>1. delivered' \in 0..MaxCalls
      BY <1>5 DEF Return, TypeOK
    <2> QED BY <1>5, <1>w, <1>z, <2>1 DEF Return, TypeOK
  <1>6. CASE UNCHANGED vars
    BY <1>6 DEF vars, TypeOK, Index
  <1> QED BY <1>1, <1>2, <1>3, <1>4, <1>5, <1>6 DEF Next

\* Every entry, index and word of the sampler stays in range: no array is read or
\* written out of bounds and no position is N or more (sample_fixed_weight_mod).
THEOREM TypeCorrect == Spec => []TypeOK
  BY TypeInit, TypeNext, PTL DEF Spec

-----------------------------------------------------------------------------
(* The invariant behind the weight: settled entries are distinct, and the  *)
(* words filled so far hold the positions below the word reached.          *)

Aligned == xof % Unit = 0

IInv ==
    /\ TypeOK
    /\ SettledAreDistinct
    /\ FilledWordsHoldSupport
    /\ phase # "words" => words = NoBits
    /\ Aligned

\* Before the first word the polynomial is zero.
LEMMA NoExponents == Exponents(NoBits) = {}
  <1> SUFFICES ASSUME NEW p \in 0..NWords*WordBits-1, p % WordBits \in NoBits[p \div WordBits]
               PROVE  FALSE
    BY DEF Exponents
  <1>1. p \in Nat /\ p < NWords * WordBits
    BY WordsCoverRing
  <1>2. p \div WordBits \in 0..NWords-1
    <2>1. \A x, y, n \in Nat : (y > 0 /\ x < n * y) => x \div y < n /\ x \div y \in Nat
      BY Z3
    <2>2. WordBits \in Nat /\ WordBits > 0 /\ NWords \in Nat
      BY WordsCoverRing
    <2>3. p \div WordBits < NWords /\ p \div WordBits \in Nat
      BY <1>1, <2>1, <2>2
    <2> QED BY <2>2, <2>3
  <1> QED BY <1>2 DEF NoBits

LEMMA InvInit == Init => IInv
  <1> SUFFICES ASSUME Init
               PROVE  IInv
    OBVIOUS
  <1>1. TypeOK
    BY TypeInit
  <1>2. SettledAreDistinct
    BY DEF Init, SettledAreDistinct, Drawn, Settled, Index
  <1>3. Aligned
    BY Z3 DEF Init, Aligned
  <1> QED BY <1>1, <1>2, <1>3 DEF Init, IInv, FilledWordsHoldSupport

LEMMA DrawKeepsInv == IInv /\ Draw => IInv'
  <1> SUFFICES ASSUME IInv, Draw
               PROVE  IInv'
    OBVIOUS
  <1>1. TypeOK /\ TypeOK'
    BY TypeNext DEF IInv, Next
  <1>2. i \in Index /\ phase = "draw"
    BY <1>1 DEF Draw, TypeOK
  <1>3. support'[i] >= i /\ support' \in [Index -> 0..N-1]
        /\ \A k \in Index : k # i => support'[k] = support[k]
    <2>1. support' = [support EXCEPT ![i] = Scaled(i, rand[i])]
      BY DEF Draw
    <2>2. Scaled(i, rand[i]) >= i
      <3>1. i \in 0..N-1 /\ rand[i] \in 0..RandRange-1
        BY <1>1, <1>2 DEF Index, TypeOK
      <3> QED BY <3>1, ScaledRange
    <2> QED BY <1>1, <1>2, <2>1, <2>2 DEF TypeOK
  <1>4. \A k \in Index : Drawn(k)' => support'[k] >= k
    <2>1. \A k \in Index : k < i => support[k] >= k
      BY <1>2 DEF IInv, SettledAreDistinct, Drawn
    <2>2. \A k \in Index : Drawn(k)' => k <= i
      BY <1>2 DEF Draw, Drawn, Index
    <2> QED BY <1>2, <1>3, <2>1, <2>2 DEF Index
  <1>5. \A k \in Index : ~Settled(k)'
    BY <1>2 DEF Draw, Settled, Index
  <1>6. UNCHANGED <<xof, words>> /\ phase' # "words"
    BY DEF Draw
  <1> QED BY <1>1, <1>2, <1>4, <1>5, <1>6
          DEF IInv, SettledAreDistinct, FilledWordsHoldSupport, Aligned

\* The backward pass: entry i, when it repeats a settled entry, takes the value i,
\* which no settled entry has since entry l is at least l > i.
LEMMA DedupKeepsInv == IInv /\ Dedup => IInv'
  <1> SUFFICES ASSUME IInv, Dedup
               PROVE  IInv'
    OBVIOUS
  <1>1. TypeOK /\ TypeOK'
    BY TypeNext DEF IInv, Next
  <1>2. i \in Index /\ phase = "dedup" /\ words = NoBits
    BY <1>1 DEF Dedup, TypeOK, IInv
  <1>3. /\ support'[i] = Resolved(support, i)
        /\ \A k \in Index : k # i => support'[k] = support[k]
    BY <1>1, <1>2 DEF Dedup, TypeOK
  <1>4. \A k \in Index : support[k] >= k /\ support[k] \in Nat
    BY <1>1, <1>2 DEF IInv, SettledAreDistinct, Drawn, TypeOK
  <1>5. \A k, l \in Index : (k > i /\ l > i /\ k # l) => support[k] # support[l]
    BY <1>2 DEF IInv, SettledAreDistinct, Settled
  <1>6. \A l \in Index : l > i => support'[i] # support[l]
    <2> SUFFICES ASSUME NEW l \in Index, l > i
                 PROVE  support'[i] # support[l]
      OBVIOUS
    <2>1. l \in i+1..Weight-1
      BY <1>2 DEF Index
    <2>2. CASE \E j \in i+1..Weight-1 : support[j] = support[i]
      <3>1. support'[i] = i
        BY <1>3, <2>2 DEF Resolved
      <3> QED BY <3>1, <1>2, <1>4 DEF Index
    <2>3. CASE ~\E j \in i+1..Weight-1 : support[j] = support[i]
      BY <1>3, <2>1, <2>3 DEF Resolved
    <2> QED BY <2>2, <2>3
  <1>7. \A k \in Index : support'[k] >= k
    BY <1>2, <1>3, <1>4 DEF Resolved, Index
  <1>8. \A k \in Index : Settled(k)' => k >= i
    BY <1>2 DEF Dedup, Settled, Index
  <1>9. \A k, l \in Index :
           (Settled(k)' /\ Settled(l)' /\ k # l) => support'[k] # support'[l]
    <2> SUFFICES ASSUME NEW k \in Index, NEW l \in Index, k >= i, l >= i, k # l
                 PROVE  support'[k] # support'[l]
      BY <1>8
    <2>1. CASE k = i
      BY <1>2, <1>3, <1>6, <2>1 DEF Index
    <2>2. CASE l = i
      BY <1>2, <1>3, <1>6, <2>2 DEF Index
    <2>3. CASE k > i /\ l > i
      BY <1>2, <1>3, <1>5, <2>3 DEF Index
    <2> QED BY <1>2, <2>1, <2>2, <2>3 DEF Index
  <1>10. FilledWordsHoldSupport' /\ UNCHANGED <<xof, words>>
    <2>1. UNCHANGED <<xof, words>> /\ (phase' = "words" => i' = 0)
      BY <1>2 DEF Dedup
    <2>2. \A k \in Index : ~(support'[k] < 0 * WordBits)
      <3>1. 0 * WordBits = 0
        BY Z3
      <3>2. \A k \in Index : support'[k] \in Nat
        BY <1>1 DEF TypeOK
      <3> QED BY <3>1, <3>2
    <2> QED BY <1>2, <2>1, <2>2, NoExponents DEF FilledWordsHoldSupport
  <1>11. /\ SettledAreDistinct' /\ Aligned'
         /\ (phase' # "words" => words' = NoBits)
    BY <1>2, <1>7, <1>9, <1>10 DEF SettledAreDistinct, IInv, Aligned
  <1> QED BY <1>1, <1>10, <1>11 DEF IInv

\* Word p \div WordBits is below n exactly when p is below n words.
LEMMA WordBelow ==
    ASSUME NEW p \in Nat, NEW n \in Nat
    PROVE  p \div WordBits < n <=> p < n * WordBits
  <1>1. \A x, y, m \in Nat : y > 0 => (x \div y < m <=> x < m * y)
    BY Z3
  <1>2. WordBits \in Nat /\ WordBits > 0
    OBVIOUS
  <1> QED BY ONLY <1>1, <1>2, p \in Nat, n \in Nat, Zenon

\* Filling word i adds exactly the positions that fall into it.
LEMMA SetWordKeepsInv == IInv /\ SetWord => IInv'
  <1> SUFFICES ASSUME IInv, SetWord
               PROVE  IInv'
    OBVIOUS
  <1>1. TypeOK /\ TypeOK'
    BY TypeNext DEF IInv, Next
  <1>2. /\ phase = "words" /\ i \in Nat /\ i < NWords /\ NWords \in Nat
        /\ i' = i + 1 /\ UNCHANGED <<phase, xof, support>>
    BY <1>1, WordsCoverRing DEF SetWord, TypeOK
  <1>3. /\ words'[i] = BitsOfWord(support, i)
        /\ \A w \in 0..NWords-1 : w # i => words'[w] = words[w]
    BY <1>1, <1>2 DEF SetWord, TypeOK, Words
  <1>4. \A k \in Index : support[k] \in Nat
    BY <1>1 DEF TypeOK
  <1> DEFINE Below(n) == {support[k] : k \in {l \in Index : support[l] < n * WordBits}}
  <1>5. Exponents(words) = Below(i)
    BY <1>2 DEF IInv, FilledWordsHoldSupport
  <1>6. WordBits \in Nat /\ NWords * WordBits \in Nat /\ (i+1) * WordBits <= NWords * WordBits
    <2>1. \A x, y, m \in Nat : x < y => x * m \in Nat /\ y * m \in Nat /\ (x+1) * m <= y * m
      BY Z3
    <2>2. WordBits \in Nat
      OBVIOUS
    <2> QED BY <1>2, <2>1, <2>2
  <1>7. ASSUME NEW p \in Nat
        PROVE  p \in Exponents(words') <=> p \in Below(i + 1)
    <2>1. /\ p \div WordBits \in Nat /\ p % WordBits \in 0..WordBits-1
          /\ p = (p \div WordBits) * WordBits + (p % WordBits)
      BY WordAndBit
    <2>2. /\ p \div WordBits < i <=> p < i * WordBits
          /\ p \div WordBits < i + 1 <=> p < (i + 1) * WordBits
          /\ p \div WordBits < NWords <=> p < NWords * WordBits
      BY <1>2, WordBelow
    <2>3. p \in Exponents(words') <=>
             p \div WordBits < NWords /\ p % WordBits \in words'[p \div WordBits]
      BY <1>6, <2>2 DEF Exponents
    <2>4. p \in Exponents(words) <=>
             p \div WordBits < NWords /\ p % WordBits \in words[p \div WordBits]
      BY <1>6, <2>2 DEF Exponents
    <2>5. CASE p \div WordBits < i
      <3>1. p \in Below(i) <=> p \in Below(i + 1)
        BY <2>2, <2>5, <2>1, <1>2
      <3>2. words'[p \div WordBits] = words[p \div WordBits]
        BY <1>2, <1>3, <2>1, <2>5
      <3> QED BY <1>5, <2>3, <2>4, <3>1, <3>2
    <2>6. CASE p \div WordBits = i
      <3>1. p \in Exponents(words') <=> p % WordBits \in BitsOfWord(support, i)
        BY <1>2, <1>3, <2>3, <2>6
      <3>2. p % WordBits \in BitsOfWord(support, i) <=> \E k \in Index : support[k] = p
        <4>1. ASSUME NEW k \in Index, support[k] \div WordBits = i,
                     support[k] % WordBits = p % WordBits
              PROVE  support[k] = p
          <5>1. support[k] = (support[k] \div WordBits) * WordBits
                               + (support[k] % WordBits)
            BY <1>4, WordAndBit
          <5> QED BY <4>1, <5>1, <2>1, <2>6
        <4> QED BY <4>1, <2>6 DEF BitsOfWord
      <3>3. p \in Below(i + 1) <=> \E k \in Index : support[k] = p
        BY <1>2, <2>2, <2>6
      <3> QED BY <3>1, <3>2, <3>3
    <2>7. CASE p \div WordBits > i
      <3>1. p \notin Below(i + 1) /\ p \notin Below(i)
        <4>1. ~(p < i * WordBits) /\ ~(p < (i + 1) * WordBits)
          <5>1. ~(p \div WordBits < i) /\ ~(p \div WordBits < i + 1)
            BY <1>2, <2>1, <2>7
          <5> QED BY <2>2, <5>1
        <4> QED BY <4>1, Zenon
      <3>2. p \div WordBits < NWords => words'[p \div WordBits] = words[p \div WordBits]
        <4>1. p \div WordBits < NWords =>
                 p \div WordBits \in 0..NWords-1 /\ p \div WordBits # i
          BY <1>2, <2>1, <2>7
        <4> QED BY <1>3, <4>1, Zenon
      <3> QED BY <1>5, <2>3, <2>4, <3>1, <3>2
    <2> QED BY <1>2, <2>1, <2>5, <2>6, <2>7
  <1>8. Exponents(words') = Below(i + 1)
    <2>1. Exponents(words') \subseteq Nat
      BY <1>6 DEF Exponents
    <2>2. Below(i + 1) \subseteq Nat
      BY <1>4
    <2> HIDE DEF Below
    <2> QED BY <1>7, <2>1, <2>2
  <1>9. FilledWordsHoldSupport'
    BY <1>2, <1>8 DEF FilledWordsHoldSupport, Index
  <1>10. SettledAreDistinct' /\ Aligned' /\ phase' = "words"
    BY <1>2 DEF IInv, SettledAreDistinct, Settled, Drawn, Aligned
  <1> QED BY <1>1, <1>9, <1>10 DEF IInv

LEMMA InvNext == IInv /\ [Next]_vars => IInv'
  <1> SUFFICES ASSUME IInv, [Next]_vars
               PROVE  IInv'
    OBVIOUS
  <1>t. TypeOK /\ TypeOK'
    BY TypeNext DEF IInv
  <1>1. CASE Read
    <2>1. /\ phase' = "draw" /\ i' = 0 /\ words' = NoBits
          /\ xof' = xof_get_bytes(xof, 4 * Weight)
      BY <1>1 DEF Read, IInv
    <2>2. Aligned'
      <3>1. 4 * Weight \in Nat
        OBVIOUS
      <3> QED BY <2>1, <3>1, ReadAligns DEF IInv, TypeOK, Aligned
    <2>3. SettledAreDistinct'
      BY <2>1 DEF SettledAreDistinct, Drawn, Settled, Index
    <2> QED BY <1>t, <2>1, <2>2, <2>3 DEF IInv, FilledWordsHoldSupport
  <1>2. CASE Draw
    BY <1>2, DrawKeepsInv
  <1>3. CASE Dedup
    BY <1>3, DedupKeepsInv
  <1>4. CASE SetWord
    BY <1>4, SetWordKeepsInv
  <1>5. CASE Return
    <2>1. phase' = "read" /\ words' = NoBits /\ UNCHANGED xof
      BY <1>5 DEF Return
    <2>2. SettledAreDistinct'
      BY <2>1 DEF SettledAreDistinct, Drawn, Settled
    <2> QED BY <1>t, <2>1, <2>2 DEF IInv, FilledWordsHoldSupport, Aligned
  <1>6. CASE UNCHANGED vars
    BY <1>6, <1>t DEF vars, IInv, SettledAreDistinct, Drawn, Settled,
                      FilledWordsHoldSupport, Exponents, Index, Aligned
  <1> QED BY <1>1, <1>2, <1>3, <1>4, <1>5, <1>6 DEF Next

LEMMA Invariant == Spec => []IInv
  BY InvInit, InvNext, PTL DEF Spec

\* The backward pass leaves pairwise different positions.
THEOREM DedupIsCorrect == Spec => []SettledAreDistinct
  <1>1. IInv => SettledAreDistinct
    BY DEF IInv
  <1> QED BY <1>1, Invariant, PTL

\* Filling the words loses and moves no position.
THEOREM WordsAreCorrect == Spec => []FilledWordsHoldSupport
  <1>1. IInv => FilledWordsHoldSupport
    BY DEF IInv
  <1> QED BY <1>1, Invariant, PTL

\* Every call starts at a whole unit of the stream, whatever the weight.
THEOREM CallsAlign == Spec => []CallsStartAligned
  <1>1. IInv => CallsStartAligned
    BY DEF IInv, CallsStartAligned, Aligned
  <1> QED BY <1>1, Invariant, PTL

-----------------------------------------------------------------------------
(* Refinement: what is returned has exactly the weight asked for.          *)

\* When the last word is filled, the polynomial has the weight asked for.
LEMMA ReturnedWeight ==
    ASSUME IInv, phase = "words", i = NWords
    PROVE  Exponents(words) \subseteq 0..N-1 /\ Cardinality(Exponents(words)) = Weight
  <1>1. \A k \in Index : support[k] \in 0..N-1
    BY DEF IInv, TypeOK
  <1>2. \A k \in Index : support[k] < NWords * WordBits
    <2>1. NWords * WordBits \in Int
      BY WordsCoverRing
    <2> QED BY <1>1, <2>1, WordsCoverRing
  <1>3. Exponents(words) = {support[k] : k \in Index}
    BY <1>2 DEF IInv, FilledWordsHoldSupport
  <1>4. \A k, l \in 0..Weight-1 : k # l => support[k] # support[l]
    BY DEF IInv, SettledAreDistinct, Settled, Index
  <1>5. Weight \in Nat
    OBVIOUS
  <1>6. Cardinality({support[k] : k \in 0..Weight-1}) = Weight
    BY <1>4, <1>5, ImageCardinality
  <1> QED BY <1>1, <1>3, <1>6 DEF Index

LEMMA RefinementInit == Init => Fixed!Init
  BY NoExponents DEF Init, Fixed!Init

LEMMA RefinementNext == IInv /\ [Next]_vars => [Fixed!Deliver]_(Fixed!vars)
  <1> SUFFICES ASSUME IInv, [Next]_vars
               PROVE  Fixed!Deliver \/ UNCHANGED Fixed!vars
    OBVIOUS
  <1>1. CASE Return
    <2>1. phase = "words" /\ i = NWords /\ poly' = words /\ delivered' = delivered + 1
      BY <1>1 DEF Return
    <2>2. Exponents(poly)' = Exponents(words)
      BY <2>1 DEF Exponents
    <2>3. Fixed!Cardinality(Exponents(words)) = Cardinality(Exponents(words))
      BY DEF Fixed!Cardinality, Cardinality
    <2> QED BY <2>1, <2>2, <2>3, ReturnedWeight DEF Fixed!Deliver
  <1>2. CASE Read \/ Draw \/ Dedup \/ SetWord \/ UNCHANGED vars
    <2>1. UNCHANGED <<poly, delivered>>
      BY <1>2 DEF Read, Draw, Dedup, SetWord, vars
    <2> QED BY <2>1 DEF Fixed!vars, Exponents
  <1> QED BY <1>1, <1>2 DEF Next

\* Each call of sample_fixed_weight_mod returns a polynomial of the ring with
\* exactly Weight coefficients equal to 1, whatever numbers it reads.
THEOREM WeightIsExact == Spec => DeliversFixedWeight
  BY RefinementInit, RefinementNext, Invariant, PTL
     DEF Spec, DeliversFixedWeight, Fixed!Spec

-----------------------------------------------------------------------------
(* The draw.                                                               *)

\* The least multiple of a at or above z.
LEMMA Ceiling ==
    ASSUME NEW z \in Nat, NEW a \in Nat \ {0}
    PROVE  \E x \in Nat : z <= a * x /\ a * x < z + a
  <1>1. \A u, v \in Nat : v > 0 => /\ u \div v \in Nat /\ u % v \in 0..v-1
                                   /\ u = v * (u \div v) + (u % v)
    BY Z3
  <1> DEFINE x == (z + a - 1) \div a
  <1>2. z + a - 1 \in Nat /\ a > 0 /\ a \in Nat
    OBVIOUS
  <1>3. x \in Nat /\ (z + a - 1) % a \in 0..a-1 /\ z + a - 1 = a * x + ((z + a - 1) % a)
    BY <1>1, <1>2
  <1>4. a * x \in Nat
    <2>1. \A u, v \in Nat : u * v \in Nat
      BY Z3
    <2> QED BY <1>2, <1>3, <2>1
  <1> HIDE DEF x
  <1>5. z <= a * x /\ a * x < z + a
    BY <1>2, <1>3, <1>4
  <1> QED BY <1>3, <1>5

\* The numbers that fall on a position are an interval, within one of the even share.
LEMMA ShareIsEven ==
    ASSUME NEW k \in Index, NEW p \in k..N-1
    PROVE  /\ Preimages(k, p) \in Nat
           /\ RandRange - (N - k) < (N - k) * Preimages(k, p)
           /\ (N - k) * Preimages(k, p) < RandRange + (N - k)
  <1> DEFINE a == N - k
             d == p - k
             R == RandRange
  <1>1. a \in Nat \ {0} /\ d \in Nat /\ d < a /\ R \in Nat \ {0} /\ k \in Nat /\ p = k + d
    BY DEF Index
  <1> HIDE DEF a, d, R
  <1>2. \A u, v \in Nat : u * v \in Nat
    BY Z3
  <1>3. \A u, v, w \in Nat : u < v => w * u + w <= w * v
    BY Z3
  <1>4. \A u, v, w \in Nat : u <= v => w * u <= w * v
    BY Z3
  <1> DEFINE low == R * d
             high == R * (d + 1)
  <1>5. low \in Nat /\ high \in Nat /\ high = low + R /\ high <= R * a
    <2>1. \A u, v \in Nat : u * (v + 1) = u * v + u
      BY Z3
    <2>2. d + 1 <= a /\ d + 1 \in Nat
      BY <1>1
    <2> QED BY <1>1, <1>2, <1>4, <2>1, <2>2
  <1> HIDE DEF low, high
  <1>6. PICK x \in Nat : low <= a * x /\ a * x < low + a
    BY <1>1, <1>5, Ceiling
  <1>7. PICK y \in Nat : high <= a * y /\ a * y < high + a
    BY <1>1, <1>5, Ceiling
  <1>8. a * x \in Nat /\ a * y \in Nat
    BY <1>1, <1>2
  <1>9. x <= y
    <2>1. y < x => a * y + a <= a * x
      BY <1>1, <1>3
    <2> QED BY <1>1, <1>5, <1>6, <1>7, <1>8, <2>1
  <1>10. y <= R
    <2>1. R < y => a * R + a <= a * y
      BY <1>1, <1>3
    <2>2. a * R = R * a /\ a * R \in Nat
      <3>1. \A u, v \in Nat : u * v = v * u
        BY Z3
      <3> QED BY <1>1, <1>2, <3>1
    <2> QED BY <1>1, <1>5, <1>7, <1>8, <2>1, <2>2
  <1>11. ASSUME NEW r \in 0..R-1
         PROVE  Scaled(k, r) = p <=> x <= r /\ r < y
    <2> DEFINE z == a * r
               q == z \div R
    <2>1. z \in Nat /\ r \in Nat /\ r * a = z
      <3>1. \A u, v \in Nat : u * v = v * u
        BY Z3
      <3> QED BY <1>1, <1>2, <3>1
    <2>2. q \in Nat /\ R * q <= z /\ z < R * q + R
      <3>1. \A u, v \in Nat : v > 0 => /\ u \div v \in Nat /\ v * (u \div v) <= u
                                       /\ u < v * (u \div v) + v
        BY Z3
      <3> HIDE DEF z
      <3> QED BY <1>1, <2>1, <3>1
    <2>3. Scaled(k, r) = k + q
      BY <2>1 DEF Scaled, a, R
    <2> HIDE DEF q
    <2>4. q = d <=> low <= z /\ z < high
      <3>1. CASE q < d
        <4>1. R * q + R <= low /\ R * q \in Nat
          BY <1>1, <1>2, <1>3, <2>2, <3>1 DEF low
        <4> QED BY <1>1, <1>5, <2>1, <2>2, <3>1, <4>1
      <3>2. CASE d < q
        <4>1. low + R <= R * q /\ R * q \in Nat
          BY <1>1, <1>2, <1>3, <2>2, <3>2 DEF low
        <4> QED BY <1>1, <1>5, <2>1, <2>2, <3>2, <4>1
      <3>3. CASE q = d
        BY <1>1, <1>5, <2>1, <2>2, <3>3 DEF low
      <3> QED BY <1>1, <2>2, <3>1, <3>2, <3>3
    <2>5. low <= z <=> x <= r
      <3>1. r < x => a * r + a <= a * x
        BY <1>1, <1>3, <2>1
      <3>2. x <= r => a * x <= a * r
        BY <1>1, <1>4, <2>1
      <3> QED BY <1>1, <1>5, <1>6, <1>8, <2>1, <3>1, <3>2
    <2>6. z < high <=> r < y
      <3>1. r < y => a * r + a <= a * y
        BY <1>1, <1>3, <2>1
      <3>2. y <= r => a * y <= a * r
        BY <1>1, <1>4, <2>1
      <3> QED BY <1>1, <1>5, <1>7, <1>8, <2>1, <3>1, <3>2
    <2> QED BY <1>1, <2>2, <2>3, <2>4, <2>5, <2>6
  <1>12. {r \in 0..R-1 : Scaled(k, r) = p} = x..y-1
    <2>1. \A r \in 0..R-1 : Scaled(k, r) = p <=> x <= r /\ r < y
      BY <1>11
    <2>2. \A r : r \in x..y-1 => r \in 0..R-1
      BY <1>1, <1>10
    <2>3. \A r \in 0..R-1 : x <= r /\ r < y <=> r \in x..y-1
      BY <1>1
    <2> QED BY <2>1, <2>2, <2>3
  <1>13. Preimages(k, p) = y - x
    <2>1. Cardinality(x..y-1) = y - x
      <3>1. x \in Int /\ y - 1 \in Int
        OBVIOUS
      <3>2. Cardinality(x..y-1) = IF x > y - 1 THEN 0 ELSE (y - 1) - x + 1
        BY <3>1, FS_Interval
      <3> QED BY <1>9, <3>2
    <2> QED BY <1>12, <2>1 DEF Preimages, R
  <1>14. a * (y - x) = a * y - a * x
    <2>1. \A u, v, w \in Nat : u <= v => w * (v - u) = w * v - w * u
      BY Z3
    <2> QED BY <1>1, <1>9, <2>1
  <1>15. y - x \in Nat /\ R - a < a * y - a * x /\ a * y - a * x < R + a
    BY <1>1, <1>5, <1>6, <1>7, <1>8, <1>9
  <1> QED BY <1>13, <1>14, <1>15 DEF a, R

\* No position gets two numbers more than another: the bias of the scaling is the
\* least a division without rejection can have.
THEOREM DrawsEvenly == Spec => []DrawIsBalanced
  <1>1. TypeOK => DrawIsBalanced
    <2> SUFFICES ASSUME TypeOK, phase = "draw", NEW p \in i..N-1, NEW q \in i..N-1
                 PROVE  Preimages(i, p) <= Preimages(i, q) + 1
      BY DEF DrawIsBalanced
    <2> DEFINE a == N - i
               m == Preimages(i, p)
               n == Preimages(i, q)
    <2>1. i \in Index /\ a \in Nat \ {0}
      BY DEF TypeOK, Index
    <2>2. /\ m \in Nat /\ n \in Nat /\ a * m < RandRange + a /\ RandRange - a < a * n
      BY <2>1, ShareIsEven
    <2> HIDE DEF a, m, n
    <2>3. m >= n + 2 => a * m >= a * n + 2 * a
      <3>1. \A u, v \in Nat : u <= v => a * u <= a * v
        BY <2>1, Z3
      <3>2. \A u \in Nat : a * (u + 2) = a * u + 2 * a
        BY <2>1, Z3
      <3>3. n + 2 \in Nat /\ (n + 2 <= m => a * (n + 2) <= a * m)
        BY <2>2, <3>1
      <3> QED BY <2>1, <2>2, <3>2, <3>3
    <2>4. a * m \in Nat /\ a * n \in Nat
      <3>1. \A u, v \in Nat : u * v \in Nat
        BY Z3
      <3> QED BY <2>1, <2>2, <3>1
    <2>5. m <= n + 1
      BY <2>1, <2>2, <2>3, <2>4
    <2> QED BY <2>5 DEF m, n
  <1> QED BY <1>1, TypeCorrect, PTL
=============================================================================
