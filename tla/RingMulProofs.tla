--------------------------- MODULE RingMulProofs ---------------------------
(***************************************************************************)
(* Theorems about RingMul, for every word size, every ring and every pair  *)
(* of operands: both multiplications return the product modulo X^N - 1,    *)
(* karatsuba's arena never runs out, and what a call still needs outlives  *)
(* the calls it makes.                                                     *)
(***************************************************************************)
EXTENDS RingMul, PolyLemmas

(* The sizes. *)

LEMMA RingWords ==
    ASSUME N \in Sizes
    PROVE  /\ NWords(N) \in Nat \ {0} /\ NWords(N) <= MaxWords
           /\ MaxWords \in Nat \ {0}
  BY WordCount, RingMulAssumption, PolyAssumption

LEMMA RingPolyOf ==
    ASSUME N \in Sizes, NEW S \in SUBSET (0..N-1)
    PROVE  /\ PolyOf(S) \in Array(MaxWords)
           /\ Exponents(PolyOf(S)) = S
           /\ \A i \in NWords(N)..MaxWords-1 : PolyOf(S)[i] = {}
  BY PolyOfExponents, RingMulAssumption

-----------------------------------------------------------------------------
(* The arena.  A call at depth k works on at most 1 + (n - 1)/k words, so  *)
(* a call that still splits is not deep; and what the calls above it have  *)
(* taken is at most 4 words per level more than 4 words per word halved.   *)

Slice == [of : {"a", "b", "acc", "scratch"}, at : Nat]
CallSet == [out : Slice, a : Slice, b : Slice, n : Nat \ {0}, arena : Nat,
            next : {"start", "high", "middle", "combine"}]

Fits(c) ==
    /\ c.out.at + 2*c.n <= Size(c.out.of)
    /\ c.a.at + c.n <= Size(c.a.of)
    /\ c.b.at + c.n <= Size(c.b.of)

CallInv(c, k) ==
    /\ (c.n - 1) * k <= NWords(N) - 1
    /\ c.arena + 4*c.n <= 4*NWords(N) + 4*(k - 1)
    /\ c.next # "start" => c.n > Threshold
    /\ Fits(c)

CallsInv ==
    /\ N \in Sizes
    /\ calls \in Seq(CallSet)
    /\ \A k \in 1..Len(calls) : CallInv(calls[k], k)

LEMMA HalfFacts ==
    ASSUME NEW c \in CallSet, c.n > Threshold
    PROVE  /\ Half(c) \in Nat \ {0}
           /\ c.n - Half(c) \in Nat \ {0} /\ c.n - Half(c) <= Half(c)
           /\ c.n <= 2*Half(c) /\ 2*Half(c) <= c.n + 1
           /\ 3*Half(c) <= 2*c.n
  BY RingMulAssumption DEF CallSet, Half

\* A call that splits finds room for its sums and its middle product.
LEMMA ArenaRoom ==
    ASSUME N \in Sizes, NEW c \in CallSet, NEW k \in Nat \ {0},
           CallInv(c, k), c.n > Threshold
    PROVE  c.arena + 4*Half(c) <= ScratchWords
  <1> DEFINE n == c.n
             h == Half(c)
             s == Slack \div 4
             nw == NWords(N)
  <1>1. n \in Nat /\ h \in Nat /\ c.arena \in Nat /\ 2*h <= n + 1 /\ n >= Threshold + 1
    BY HalfFacts, RingMulAssumption DEF CallSet
  <1>2. Threshold \in Nat /\ Threshold >= 1 /\ s \in Nat /\ 4*s <= Slack /\ Slack \in Nat
    BY RingMulAssumption
  <1>3. nw \in Nat /\ MaxWords \in Nat /\ nw <= MaxWords
        /\ MaxWords <= Threshold * (s + 1)
    BY RingWords, RingMulAssumption
  <1>4. (n - 1) * k <= nw - 1 /\ c.arena + 4*n <= 4*nw + 4*(k - 1)
    BY DEF CallInv
  <1> HIDE DEF n, h, s, nw
  <1>5. Threshold * k <= (n - 1) * k
    <2>1. \A x, y, z \in Nat : x <= y => x * z <= y * z
      BY Z3
    <2> QED BY <1>1, <1>2, <2>1
  <1>6. Threshold * k < Threshold * (s + 1)
    BY <1>1, <1>2, <1>3, <1>4, <1>5, Z3
  <1>7. k < s + 1
    <2>1. \A x, y, z \in Nat : x * y < x * z => y < z
      BY Z3
    <2> QED BY <1>2, <1>6, <2>1
  <1>8. c.arena + 4*h <= 4*MaxWords + Slack
    BY <1>1, <1>2, <1>3, <1>4, <1>7, Z3
  <1> QED BY <1>8 DEF h, ScratchWords

\* The three calls a call makes satisfy the invariant one level down.
LEMMA CalleeInv ==
    ASSUME N \in Sizes, NEW c \in CallSet, NEW k \in Nat \ {0},
           CallInv(c, k), c.n > Threshold,
           NEW d \in {Low(c), High(c), Middle(c)}
    PROVE  d \in CallSet /\ CallInv(d, k + 1)
  <1>1. /\ Half(c) \in Nat \ {0} /\ c.n - Half(c) \in Nat \ {0}
        /\ c.n - Half(c) <= Half(c) /\ c.n <= 2*Half(c) /\ 2*Half(c) <= c.n + 1
    BY HalfFacts
  <1>2. c.arena + 4*Half(c) <= ScratchWords
    BY ArenaRoom
  <1>3. c.n \in Nat \ {0} /\ c.arena \in Nat /\ c.out \in Slice /\ c.a \in Slice /\ c.b \in Slice
    BY DEF CallSet
  <1>4. d \in CallSet
    BY <1>1, <1>3 DEF CallSet, Slice, Low, High, Middle, Call, From, At, Sub, SumA, SumB, Mid
  <1>5. d.n <= Half(c) /\ d.n \in Nat \ {0} /\ d.arena = c.arena + 4*Half(c) /\ d.next = "start"
    BY <1>1 DEF Low, High, Middle, Call, Sub
  <1>6. (d.n - 1) * (k + 1) <= NWords(N) - 1
    <2>1. \A x, y, z \in Nat : (2*x <= y /\ z >= 1) => x * (z + 1) <= y * z
      <3>1. SUFFICES ASSUME NEW x \in Nat, NEW y \in Nat, NEW z \in Nat, 2*x <= y, z >= 1
                     PROVE  x * (z + 1) <= y * z
        OBVIOUS
      <3>2. x * (z + 1) <= (2*x) * z
        BY <3>1, Z3
      <3>3. (2*x) * z <= y * z
        BY <3>1, Z3
      <3>4. x * (z + 1) \in Nat /\ (2*x) * z \in Nat /\ y * z \in Nat
        OBVIOUS
      <3> QED BY <3>2, <3>3, <3>4
    <2>2. 2*(d.n - 1) <= c.n - 1 /\ d.n - 1 \in Nat /\ c.n - 1 \in Nat
      BY <1>1, <1>3, <1>5
    <2>3. (d.n - 1) * (k + 1) <= (c.n - 1) * k
      BY <2>1, <2>2
    <2>4. (c.n - 1) * k <= NWords(N) - 1
      BY DEF CallInv
    <2>5. (d.n - 1) * (k + 1) \in Int /\ (c.n - 1) * k \in Int /\ NWords(N) - 1 \in Int
      BY <2>2, RingWords
    <2> QED BY <2>3, <2>4, <2>5
  <1>7. d.arena + 4*d.n <= 4*NWords(N) + 4*((k + 1) - 1)
    <2>1. c.arena + 4*c.n <= 4*NWords(N) + 4*(k - 1)
      BY DEF CallInv
    <2> QED BY <1>1, <1>3, <1>5, <2>1, RingWords
  <1>8. Fits(d)
    <2>1. /\ c.out.at + 2*c.n <= Size(c.out.of)
          /\ c.a.at + c.n <= Size(c.a.of)
          /\ c.b.at + c.n <= Size(c.b.of)
      BY DEF CallInv, Fits
    <2>2. Size(c.out.of) \in Int /\ Size(c.a.of) \in Int /\ Size(c.b.of) \in Int
      BY RingWords, RingMulAssumption DEF Size, WideWords, ScratchWords
    <2>3. c.out.at \in Nat /\ c.a.at \in Nat /\ c.b.at \in Nat
      BY <1>3 DEF Slice
    <2>4. CASE d = Low(c)
      BY <1>1, <1>3, <2>1, <2>2, <2>3, <2>4 DEF Fits, Low, Call
    <2>5. CASE d = High(c)
      BY <1>1, <1>3, <2>1, <2>2, <2>3, <2>5 DEF Fits, High, Call, From, At
    <2>6. CASE d = Middle(c)
      BY <1>1, <1>2, <1>3, <2>6, RingMulAssumption, PolyAssumption
         DEF Fits, Middle, Call, Mid, SumA, SumB, At, Size, ScratchWords
    <2> QED BY <2>4, <2>5, <2>6
  <1> QED BY <1>4, <1>5, <1>6, <1>7, <1>8 DEF CallInv

LEMMA CallsInit == Init => CallsInv
  <1> SUFFICES ASSUME Init PROVE CallsInv
    OBVIOUS
  <1>1. N \in Sizes
    BY DEF Init
  <1>2. CASE mode = "sparse"
    BY <1>1, <1>2 DEF Init, CallsInv
  <1>3. CASE mode # "sparse"
    <2> DEFINE c == Call(At("acc", 0), At("a", 0), At("b", 0), NWords(N), 0)
    <2>1. calls = <<c>>
      BY <1>3 DEF Init
    <2>2. c \in CallSet
      BY <1>1, RingWords DEF CallSet, Slice, Call, At
    <2>3. CallInv(c, 1)
      BY <1>1, RingWords DEF CallInv, Fits, Call, At, Size, WideWords
    <2> HIDE DEF c
    <2> QED BY <1>1, <2>1, <2>2, <2>3 DEF CallsInv
  <1> QED BY <1>2, <1>3

\* Pushing a callee of the innermost call, which notes what comes after it.
LEMMA CallsDescend ==
    ASSUME CallsInv, N' = N, calls # <<>>, Top.n > Threshold,
           NEW d \in {Low(Top), High(Top), Middle(Top)},
           NEW after \in {"high", "middle", "combine"},
           calls' = Append([calls EXCEPT ![Depth].next = after], d)
    PROVE  CallsInv'
  <1>1. Depth \in Nat \ {0} /\ Depth = Len(calls) /\ Top \in CallSet /\ CallInv(Top, Depth)
        /\ calls \in Seq(CallSet) /\ N \in Sizes
    BY DEF CallsInv, Depth, Top
  <1>2. d \in CallSet /\ CallInv(d, Depth + 1)
    BY <1>1, CalleeInv
  <1> DEFINE c == [Top EXCEPT !.next = after]
             rest == [calls EXCEPT ![Depth] = c]
  <1>3. c \in CallSet
    BY <1>1 DEF CallSet
  <1>4. CallInv(c, Depth)
    BY <1>1 DEF CallInv, Fits, CallSet
  <1>5. calls' = Append(rest, d) /\ rest \in Seq(CallSet) /\ Len(rest) = Depth
    BY <1>1, <1>3 DEF Top
  <1>6. calls' \in Seq(CallSet) /\ Len(calls') = Depth + 1
    BY <1>1, <1>2, <1>5
  <1>7. ASSUME NEW k \in 1..Len(calls')
        PROVE  CallInv(calls'[k], k)
    <2>1. CASE k = Depth + 1
      BY <1>1, <1>2, <1>5, <2>1
    <2>2. CASE k = Depth
      <3>1. calls'[k] = c
        BY <1>1, <1>5, <2>2
      <3> QED BY <1>4, <2>2, <3>1
    <2>3. CASE k < Depth
      <3>1. calls'[k] = calls[k]
        BY <1>1, <1>5, <2>3
      <3> QED BY <1>1, <2>3, <3>1 DEF CallsInv
    <2> QED BY <1>1, <1>6, <2>1, <2>2, <2>3
  <1>8. (\A k \in 1..Len(calls) : CallInv(calls[k], k))'
    BY <1>7 DEF CallInv, Fits, Size
  <1> QED BY <1>1, <1>6, <1>8 DEF CallsInv

LEMMA SubSeqOfCalls ==
    ASSUME NEW s \in Seq(CallSet), NEW n \in Nat, n <= Len(s)
    PROVE  /\ SubSeq(s, 1, n) \in Seq(CallSet) /\ Len(SubSeq(s, 1, n)) = n
           /\ \A k \in 1..n : SubSeq(s, 1, n)[k] = s[k]
  OBVIOUS

LEMMA CallsReturn ==
    ASSUME CallsInv, N' = N, calls # <<>>,
           calls' = SubSeq(calls, 1, Depth - 1)
    PROVE  CallsInv'
  <1> DEFINE L == Len(calls) - 1
  <1>0. L \in Nat /\ calls' = SubSeq(calls, 1, L) /\ N \in Sizes
    BY DEF CallsInv, Depth
  <1>1. calls' \in Seq(CallSet) /\ Len(calls') = L
        /\ \A k \in 1..L : calls'[k] = calls[k] /\ k \in 1..Len(calls)
    <2>1. calls \in Seq(CallSet) /\ L <= Len(calls) /\ Len(calls) = L + 1
      BY <1>0 DEF CallsInv
    <2> HIDE DEF L
    <2>2. /\ SubSeq(calls, 1, L) \in Seq(CallSet) /\ Len(SubSeq(calls, 1, L)) = L
          /\ \A k \in 1..L : SubSeq(calls, 1, L)[k] = calls[k]
      BY <1>0, <2>1, SubSeqOfCalls
    <2>3. \A k \in 1..L : k \in 1..Len(calls)
      BY <1>0, <2>1
    <2> QED BY <1>0, <2>2, <2>3, Zenon
  <1>2. \A k \in 1..Len(calls') : CallInv(calls'[k], k)
    BY <1>1 DEF CallsInv
  <1>3. (\A k \in 1..Len(calls) : CallInv(calls[k], k))'
    BY <1>2 DEF CallInv, Fits, Size
  <1> QED BY <1>0, <1>1, <1>3 DEF CallsInv

LEMMA CallsStep == CallsInv /\ [Next]_vars => CallsInv'
  <1> SUFFICES ASSUME CallsInv, [Next]_vars PROVE CallsInv'
    OBVIOUS
  <1>1. ASSUME calls # <<>>, Top.next # "start" PROVE Top.n > Threshold
    <2>1. Depth \in 1..Len(calls)
      BY <1>1 DEF CallsInv, Depth
    <2> QED BY <1>1, <2>1 DEF CallsInv, CallInv, Top
  <1>2. CASE Leaf
    BY <1>2, CallsReturn DEF Leaf
  <1>3. CASE Split
    BY <1>3, CallsDescend DEF Split, Descend
  <1>4. CASE MultiplyHigh
    BY <1>1, <1>4, CallsDescend DEF MultiplyHigh, Descend
  <1>5. CASE MultiplyMiddle
    BY <1>1, <1>5, CallsDescend DEF MultiplyMiddle, Descend
  <1>6. CASE Combine
    BY <1>6, CallsReturn DEF Combine
  <1>7. CASE UNCHANGED <<N, calls>>
    BY <1>7 DEF CallsInv, CallInv, Fits, Size
  <1> QED BY <1>2, <1>3, <1>4, <1>5, <1>6, <1>7
          DEF Next, ShiftStep, NextWord, Fold, vars

\* Whatever the ring, the threshold and the number of levels, no call of
\* karatsuba reaches past the arena or past an array: the size of the arena
\* (mul.rs:215) is enough, which the code only argues as an estimate.
THEOREM ArenaSuffices == Spec => []SlicesFit
  <1>1. CallsInv => SlicesFit
    <2> SUFFICES ASSUME CallsInv, NEW k \in 1..Depth,
                        calls[k].n > Threshold
                 PROVE  calls[k].arena + 4*Half(calls[k]) <= ScratchWords
      BY DEF CallsInv, SlicesFit, CallInv, Fits, Depth
    <2> QED BY ArenaRoom DEF CallsInv, Depth
  <1> QED BY <1>1, CallsInit, CallsStep, PTL DEF Spec
-----------------------------------------------------------------------------
(* The wide accumulator. *)

\* Adding src shifted by rot adds bit t - rot of src to bit t, for every t,
\* whether or not rot is a multiple of the word size.
LEMMA ShiftIsExact ==
    ASSUME N \in Sizes, NEW acc \in Array(WideWords), NEW src \in Array(MaxWords),
           \A i \in NWords(N)..MaxWords-1 : src[i] = {},
           NEW rot \in Nat
    PROVE  /\ shift_xor_wide(acc, src, rot, N) \in Array(WideWords)
           /\ \A t \in 0..W*WideWords-1 :
                t \in Exponents(shift_xor_wide(acc, src, rot, N))
                  <=> ~(t \in Exponents(acc) <=> t - rot \in Exponents(src))
  <1> DEFINE s == rot \div W
             r == rot % W
             nw == NWords(N)
             low(i) == IF i - s \in 0..nw-1 THEN shl(src[i - s], r) ELSE {}
             spill(i) == IF r # 0 /\ i - s - 1 \in 0..nw-1
                         THEN shr(src[i - s - 1], W - r) ELSE {}
             new == shift_xor_wide(acc, src, rot, N)
  <1>1. /\ W \in Nat /\ W > 0 /\ WideWords \in Nat /\ MaxWords \in Nat
        /\ nw \in Nat /\ nw <= MaxWords
    BY PolyAssumption, RingWords DEF WideWords
  <1>2. s \in Nat /\ r \in 0..W-1 /\ rot = W * s + r
    BY Division
  <1>3. DOMAIN acc = 0..WideWords-1 /\ \A i \in 0..WideWords-1 : acc[i] \subseteq 0..W-1
    BY DEF Array, Word
  <1>4. \A i \in 0..WideWords-1 : new[i] = xor(xor(acc[i], low(i)), spill(i))
    BY <1>3 DEF shift_xor_wide
  <1>5. new \in Array(WideWords)
    <2>1. \A i : low(i) \subseteq 0..W-1 /\ spill(i) \subseteq 0..W-1
      BY DEF shl, shr
    <2>2. new = [i \in 0..WideWords-1 |-> xor(xor(acc[i], low(i)), spill(i))]
      BY <1>3 DEF shift_xor_wide
    <2> HIDE DEF low, spill, new
    <2>3. \A i \in 0..WideWords-1 : xor(xor(acc[i], low(i)), spill(i)) \in Word
      BY <1>3, <2>1 DEF xor, Word
    <2> QED BY <2>2, <2>3 DEF Array
  <1>6. \A i \in 0..MaxWords-1 : src[i] \subseteq 0..W-1
    BY DEF Array, Word
  <1>7. ASSUME NEW i \in 0..WideWords-1, NEW b \in 0..W-1
        PROVE  W*i + b \in Exponents(new)
                 <=> ~(W*i + b \in Exponents(acc) <=> (W*i + b) - rot \in Exponents(src))
    <2> HIDE DEF s, r, nw, new
    <2>1. W*i + b \in Exponents(new) <=> b \in new[i]
      BY <1>1, <1>5, InExponentsAt
    <2>2. W*i + b \in Exponents(acc) <=> b \in acc[i]
      BY <1>1, InExponentsAt
    <2>3. CASE r <= b
      <3>1. b - r \in 0..W-1 /\ i - s \in Int
        BY <1>1, <1>2, <2>3
      <3>2. (W*i + b) - rot = W*(i - s) + (b - r)
        <4>1. W*(i - s) = W*i - W*s /\ W*i \in Nat /\ W*s \in Nat
          BY <1>1, <1>2
        <4> QED BY <1>1, <1>2, <4>1
      <3>3. (W*i + b) - rot \in Exponents(src)
              <=> i - s \in 0..MaxWords-1 /\ b - r \in src[i - s]
        BY <1>1, <3>1, <3>2, InExponentsAt
      <3>4. b \in low(i) <=> i - s \in 0..nw-1 /\ b - r \in src[i - s]
        BY DEF shl
      <3>5. (i - s \in 0..MaxWords-1 /\ b - r \in src[i - s])
              <=> (i - s \in 0..nw-1 /\ b - r \in src[i - s])
        BY <1>1, <3>1 DEF nw
      <3>6. b \notin spill(i)
        <4> SUFFICES ASSUME i - s - 1 \in 0..nw-1, b + (W - r) \in src[i - s - 1]
                     PROVE  FALSE
          BY DEF shr
        <4>1. b + (W - r) \in 0..W-1
          BY <1>1, <1>6
        <4> QED BY <1>1, <1>2, <2>3, <4>1
      <3>7. b \in new[i] <=> ~(b \in acc[i] <=> b \in low(i))
        <4> HIDE DEF low, spill
        <4> QED BY <1>4, <3>6 DEF xor
      <3> QED BY <2>1, <2>2, <3>3, <3>4, <3>5, <3>7
    <2>4. CASE b < r
      <3>1. b + (W - r) \in 0..W-1 /\ i - s - 1 \in Int /\ r # 0
        BY <1>1, <1>2, <2>4
      <3>2. (W*i + b) - rot = W*(i - s - 1) + (b + (W - r))
        <4>1. W*(i - s - 1) = W*i - W*s - W /\ W*i \in Nat /\ W*s \in Nat
          <5>1. \A x, y \in Int, w \in Nat : w*(x - y - 1) = w*x - w*y - w
            BY Z3
          <5> QED BY <1>1, <1>2, <5>1
        <4> QED BY <1>1, <1>2, <4>1
      <3>3. (W*i + b) - rot \in Exponents(src)
              <=> i - s - 1 \in 0..MaxWords-1 /\ b + (W - r) \in src[i - s - 1]
        BY <1>1, <3>1, <3>2, InExponentsAt
      <3>4. b \in spill(i) <=> i - s - 1 \in 0..nw-1 /\ b + (W - r) \in src[i - s - 1]
        BY <3>1 DEF shr
      <3>5. (i - s - 1 \in 0..MaxWords-1 /\ b + (W - r) \in src[i - s - 1])
              <=> (i - s - 1 \in 0..nw-1 /\ b + (W - r) \in src[i - s - 1])
        BY <1>1, <3>1 DEF nw
      <3>6. b \notin low(i)
        <4> SUFFICES ASSUME i - s \in 0..nw-1, b - r \in src[i - s]
                     PROVE  FALSE
          BY DEF shl
        <4>1. b - r \in 0..W-1
          BY <1>1, <1>6
        <4> QED BY <1>1, <1>2, <2>4, <4>1
      <3>7. b \in new[i] <=> ~(b \in acc[i] <=> b \in spill(i))
        <4> HIDE DEF low, spill
        <4> QED BY <1>4, <3>6 DEF xor
      <3> QED BY <2>1, <2>2, <3>3, <3>4, <3>5, <3>7
    <2> QED BY <1>1, <1>2, <2>3, <2>4
  <1>8. \A t \in 0..W*WideWords-1 :
          t \in Exponents(new) <=> ~(t \in Exponents(acc) <=> t - rot \in Exponents(src))
    <2> SUFFICES ASSUME NEW t \in 0..W*WideWords-1
                 PROVE  t \in Exponents(new)
                          <=> ~(t \in Exponents(acc) <=> t - rot \in Exponents(src))
      OBVIOUS
    <2> HIDE DEF new
    <2>1. t \div W \in 0..WideWords-1 /\ t % W \in 0..W-1 /\ t = W * (t \div W) + (t % W)
      BY <1>1, PositionInArray
    <2> QED BY <1>7, <2>1
  <1> QED BY <1>5, <1>8
\* The fold adds bit t + N to bit t for t below N and leaves nothing above,
\* whether or not N is a multiple of the word size.
LEMMA FoldIsExact ==
    ASSUME N \in Sizes, NEW acc \in Array(WideWords)
    PROVE  reduce_wide(acc, N) =
             PolyOf({t \in 0..N-1 : ~(t \in Exponents(acc) <=> t + N \in Exponents(acc))})
  <1> DEFINE nw == NWords(N)
             from == N \div W
             off == N % W
             folded(w) == IF off = 0 THEN acc[from + w]
                          ELSE shr(acc[from + w], off) \cup shl(acc[from + w + 1], W - off)
             out(w) == xor(acc[w], folded(w))
             E == Exponents(acc)
             T == {t \in 0..N-1 : ~(t \in E <=> t + N \in E)}
  <1>1. /\ W \in Nat /\ W > 0 /\ WideWords \in Nat /\ MaxWords \in Nat
        /\ nw \in Nat /\ nw >= 1 /\ nw <= MaxWords /\ WideWords = 2*MaxWords + 2
        /\ N \in Nat /\ N > 0
    BY PolyAssumption, RingMulAssumption, RingWords DEF WideWords
  <1>2. from \in Nat /\ off \in 0..W-1 /\ N = W * from + off
    BY <1>1, Division
  <1>3. \A i \in 0..WideWords-1 : acc[i] \subseteq 0..W-1
    BY DEF Array, Word
  <1>4. nw = IF off = 0 THEN from ELSE from + 1
    <2>1. N <= W * nw /\ W * (nw - 1) < N
      BY <1>1, WordCount
    <2>2. \A x, y, w \in Nat : w * x < w * y => x < y
      BY Z3
    <2>3. W * (nw - 1) \in Nat /\ W * nw \in Nat /\ W * from \in Nat
          /\ W * (from + 1) = W * from + W /\ W * (nw - 1) = W * nw - W
      BY <1>1, <1>2
    <2> HIDE DEF nw, from, off
    <2>4. W * nw < W * (from + 2)
      <3>1. W * (from + 2) = W * from + 2*W
        BY <1>1, <1>2
      <3> QED BY <1>1, <1>2, <2>1, <2>3, <3>1
    <2>5. nw < from + 2
      BY <1>1, <1>2, <2>2, <2>4
    <2>6. CASE off = 0
      <3>1. W * (nw - 1) < W * from /\ W * from <= W * nw
        BY <1>1, <1>2, <2>1, <2>3, <2>6
      <3>2. nw - 1 < from
        BY <1>1, <1>2, <2>2, <3>1
      <3>3. ~(nw < from)
        <4>1. \A x, y, w \in Nat : (x < y /\ w > 0) => w * x < w * y
          BY Z3
        <4> QED BY <1>1, <1>2, <3>1, <4>1, <2>3
      <3> QED BY <1>1, <1>2, <2>6, <3>2, <3>3
    <2>7. CASE off # 0
      <3>1. W * from < W * nw
        BY <1>1, <1>2, <2>1, <2>3, <2>7
      <3>2. from < nw
        BY <1>1, <1>2, <2>2, <3>1
      <3> QED BY <1>1, <1>2, <2>5, <2>7, <3>2
    <2> QED BY <2>6, <2>7
  \* Bit b of word w lies below N exactly when the cut keeps it.
  <1>5. ASSUME NEW w \in 0..MaxWords-1, NEW b \in 0..W-1
        PROVE  W*w + b < N <=> w < nw /\ ~(w = nw - 1 /\ off # 0 /\ b >= off)
    <2> HIDE DEF nw, from, off
    <2>1. \A x, y, z \in Nat : x < y => z * x + z <= z * y
      <3>1. \A x, y, z \in Nat : x < y => z * (x + 1) <= z * y
        BY Z3
      <3>2. \A x, z \in Nat : z * (x + 1) = z * x + z
        BY Z3
      <3> QED BY <3>1, <3>2, Zenon
    <2>2. W*w \in Nat /\ W*from \in Nat /\ w \in Nat /\ b \in Nat
      BY <1>1, <1>2
    <2>3. CASE w < from
      <3>1. W*w + W <= W*from
        BY <1>1, <1>2, <2>1, <2>2, <2>3
      <3> QED BY <1>1, <1>2, <1>4, <2>2, <2>3, <3>1
    <2>4. CASE w = from
      BY <1>1, <1>2, <1>4, <2>2, <2>4
    <2>5. CASE w > from
      <3>1. W*from + W <= W*w
        BY <1>1, <1>2, <2>1, <2>2, <2>5
      <3> QED BY <1>1, <1>2, <1>4, <2>2, <2>5, <3>1
    <2> QED BY <1>2, <2>2, <2>3, <2>4, <2>5
  \* The word that is folded holds the bits from N on.
  <1>6. ASSUME NEW w \in 0..nw-1, NEW b \in 0..W-1
        PROVE  b \in folded(w) <=> (W*w + b) + N \in E
    <2> HIDE DEF nw, from, off
    <2>1. W*(from + w) = W*w + W*from /\ W*(from + w + 1) = W*w + W*from + W
          /\ W*w \in Nat /\ W*from \in Nat
      BY <1>1, <1>2
    <2>2. from + w \in 0..WideWords-1 /\ from + w + 1 \in 0..WideWords-1 /\ w \in Nat
      BY <1>1, <1>2, <1>4
    <2>9. \A i \in 0..WideWords-1, c \in 0..W-1 : W*i + c \in E <=> c \in acc[i]
      BY <1>1, InExponentsAt
    <2> HIDE DEF E
    <2>3. CASE b + off < W
      <3>1. (W*w + b) + N = W*(from + w) + (b + off) /\ b + off \in 0..W-1
        BY <1>1, <1>2, <2>1, <2>3
      <3>2. (W*w + b) + N \in E <=> b + off \in acc[from + w]
        BY <2>2, <2>9, <3>1
      <3>3. b \notin shl(acc[from + w + 1], W - off)
        <4>1. acc[from + w + 1] \subseteq 0..W-1
          BY <1>3, <2>2
        <4> QED BY <1>1, <1>2, <2>3, <4>1 DEF shl
      <3>4. b \in shr(acc[from + w], off) <=> b + off \in acc[from + w]
        BY DEF shr
      <3>5. CASE off = 0
        BY <1>1, <3>2, <3>5
      <3>6. CASE off # 0
        BY <3>2, <3>3, <3>4, <3>6
      <3> QED BY <3>5, <3>6
    <2>4. CASE b + off >= W
      <3>1. (W*w + b) + N = W*(from + w + 1) + (b - (W - off)) /\ b - (W - off) \in 0..W-1
            /\ off # 0
        BY <1>1, <1>2, <2>1, <2>4
      <3>2. (W*w + b) + N \in E <=> b - (W - off) \in acc[from + w + 1]
        BY <2>2, <2>9, <3>1
      <3>3. b \notin shr(acc[from + w], off)
        <4>1. acc[from + w] \subseteq 0..W-1
          BY <1>3, <2>2
        <4> QED BY <1>1, <1>2, <2>4, <4>1 DEF shr
      <3>4. b \in shl(acc[from + w + 1], W - off) <=> b - (W - off) \in acc[from + w + 1]
        BY DEF shl
      <3> QED BY <3>1, <3>2, <3>3, <3>4
    <2> QED BY <1>1, <1>2, <2>3, <2>4
  <1>7. \A w \in 0..nw-1 : acc[w] \subseteq 0..W-1 /\ folded(w) \subseteq 0..W-1
    <2> SUFFICES ASSUME NEW w \in 0..nw-1
                 PROVE  acc[w] \subseteq 0..W-1 /\ folded(w) \subseteq 0..W-1
      OBVIOUS
    <2>1. w \in 0..WideWords-1 /\ from + w \in 0..WideWords-1
      BY <1>1, <1>2, <1>4
    <2> HIDE DEF nw, from, off
    <2>2. acc[w] \subseteq 0..W-1 /\ acc[from + w] \subseteq 0..W-1
      BY <1>3, <2>1
    <2>3. CASE off = 0
      BY <2>2, <2>3
    <2>4. CASE off # 0
      BY <2>2, <2>4 DEF shr, shl
    <2> QED BY <2>3, <2>4
  <1>8. ASSUME NEW w \in 0..MaxWords-1
        PROVE  reduce_wide(acc, N)[w] = {b \in 0..W-1 : W*w + b \in T}
    <2>1. reduce_wide(acc, N)[w] = IF w >= nw THEN {}
                                   ELSE IF w = nw - 1 /\ off # 0 THEN mask(out(w), off)
                                   ELSE out(w)
      BY DEF reduce_wide
    <2>2. ASSUME NEW b \in 0..W-1
          PROVE  W*w + b \in T <=> /\ W*w + b < N
                                   /\ ~(W*w + b \in E <=> (W*w + b) + N \in E)
      BY <1>1
    <2> HIDE DEF nw, from, off, folded, T
    <2>3. CASE w >= nw
      BY <1>1, <1>5, <2>1, <2>2, <2>3
    <2>4. CASE w < nw
      <3>1. \A b \in 0..W-1 : b \in out(w) <=> ~(W*w + b \in E <=> (W*w + b) + N \in E)
        <4> SUFFICES ASSUME NEW b \in 0..W-1
                     PROVE  b \in out(w) <=> ~(W*w + b \in E <=> (W*w + b) + N \in E)
          OBVIOUS
        <4>1. W*w + b \in E <=> b \in acc[w]
          BY <1>1, InExponentsAt
        <4>2. b \in folded(w) <=> (W*w + b) + N \in E
          BY <1>1, <1>6, <2>4
        <4> HIDE DEF E
        <4> QED BY <4>1, <4>2 DEF xor
      <3>2. out(w) \subseteq 0..W-1
        BY <1>1, <1>7, <2>4 DEF xor
      <3> HIDE DEF out, E
      <3>3. CASE w = nw - 1 /\ off # 0
        <4>1. \A b \in 0..W-1 : b \in mask(out(w), off) <=> b \in out(w) /\ b < off
          BY <1>1, <1>2 DEF mask
        <4>2. mask(out(w), off) \subseteq 0..W-1
          BY <3>2 DEF mask
        <4>3. \A b \in 0..W-1 : W*w + b < N <=> b < off
          BY <1>1, <1>2, <1>5, <2>4, <3>3
        <4>4. \A b \in 0..W-1 : b \in mask(out(w), off) <=> W*w + b \in T
          BY <2>2, <3>1, <4>1, <4>3, Zenon
        <4>5. reduce_wide(acc, N)[w] = mask(out(w), off)
          BY <1>1, <2>1, <2>4, <3>3
        <4> QED BY <4>2, <4>4, <4>5
      <3>4. CASE ~(w = nw - 1 /\ off # 0)
        <4>1. \A b \in 0..W-1 : W*w + b < N
          BY <1>5, <2>4, <3>4
        <4>2. \A b \in 0..W-1 : b \in out(w) <=> W*w + b \in T
          BY <2>2, <3>1, <4>1, Zenon
        <4>3. reduce_wide(acc, N)[w] = out(w)
          BY <1>1, <2>1, <2>4, <3>4
        <4> QED BY <3>2, <4>2, <4>3
      <3> QED BY <3>3, <3>4
    <2> QED BY <1>1, <2>3, <2>4
  <1>9. reduce_wide(acc, N) = [w \in 0..MaxWords-1 |-> reduce_wide(acc, N)[w]]
    BY DEF reduce_wide
  <1> HIDE DEF T
  <1>10. reduce_wide(acc, N) = PolyOf(T)
    BY <1>8, <1>9, Zenon DEF PolyOf
  <1> QED BY <1>10 DEF T
\* Folding a product that did not wrap gives the cyclic product.
LEMMA FoldedProduct ==
    ASSUME NEW n \in Nat, n > 0, NEW A \in SUBSET (0..n-1), NEW B \in SUBSET (0..n-1)
    PROVE  CyclicProduct(A, B, n) =
             {t \in 0..n-1 : ~(Coefficient(A, B, t) <=> Coefficient(A, B, t + n))}
  <1> SUFFICES ASSUME NEW t \in 0..n-1
               PROVE  Odd({p \in A : (t - p) % n \in B})
                        <=> ~(Coefficient(A, B, t) <=> Coefficient(A, B, t + n))
    BY DEF CyclicProduct
  <1> DEFINE S == {p \in A : t - p \in B}
             T == {p \in A : (t + n) - p \in B}
             U == {p \in A : (t - p) % n \in B}
  <1>1. IsFiniteSet(A)
    <2>1. IsFiniteSet(0..n-1)
      BY FS_Interval
    <2> QED BY <2>1, FS_Subset
  <1>2. IsFiniteSet(S) /\ IsFiniteSet(T)
    BY <1>1, FS_Subset
  <1>3. S \cap T = {}
    <2>1. \A p \in A : ~(t - p \in 0..n-1 /\ (t + n) - p \in 0..n-1)
      OBVIOUS
    <2> QED BY <2>1
  <1>4. U = S \cup T
    <2>1. ASSUME NEW p \in A PROVE (t - p) % n \in B <=> (t - p \in B \/ (t + n) - p \in B)
      <3>1. \A x, m \in Nat : x < m => x % m = x
        BY Z3
      <3>2. \A x \in Int, m \in Nat : (x < 0 /\ x + m > 0) => x % m = x + m
        BY Z3
      <3>3. CASE p <= t
        <4>1. (t - p) % n = t - p
          BY <3>1, <3>3
        <4> QED BY <4>1
      <3>4. CASE p > t
        <4>1. (t - p) % n = (t - p) + n
          BY <3>2, <3>4
        <4>2. (t - p) + n = (t + n) - p /\ t - p \notin B
          BY <3>4
        <4> QED BY <4>1, <4>2
      <3> QED BY <3>3, <3>4
    <2> QED BY <2>1
  <1> HIDE DEF S, T, U
  <1>5. Odd(U) <=> ~(Odd(S) <=> Odd(T))
    BY <1>2, <1>3, <1>4, OddUnion
  <1>6. (Coefficient(A, B, t) <=> Odd(S)) /\ (Coefficient(A, B, t + n) <=> Odd(T))
    BY DEF Coefficient, S, T
  <1> QED BY <1>5, <1>6 DEF U
-----------------------------------------------------------------------------
(* mul_sparse_dense. *)

SparseInv ==
    mode = "sparse" =>
        /\ N \in Sizes /\ calls = <<>>
        /\ mem \in [a : Array(MaxWords), b : Array(MaxWords),
                    acc : Array(WideWords), scratch : Array(ScratchWords)]
        /\ Exponents(mem.a) \subseteq 0..N-1 /\ Exponents(mem.b) \subseteq 0..N-1
        /\ \A i \in NWords(N)..MaxWords-1 : mem.b[i] = {}
        /\ word_idx \in 0..NWords(N)-1 /\ word \subseteq mem.a[word_idx]
        /\ AccumulatedSoFar
        /\ IsCyclicProduct

LEMMA SparseInit == Init => SparseInv
  <1> SUFFICES ASSUME Init, mode = "sparse" PROVE SparseInv
    BY DEF SparseInv
  <1>1. N \in Sizes /\ calls = <<>> /\ word_idx = 0 /\ word = mem.a[0] /\ product = Pending
    BY DEF Init
  <1>2. PICK A \in SUBSET (0..N-1), B \in SUBSET (0..N-1) :
           mem = [a |-> PolyOf(A), b |-> PolyOf(B),
                  acc |-> Zeros(WideWords), scratch |-> Zeros(ScratchWords)]
    BY DEF Init
  <1>3. /\ mem.a = PolyOf(A) /\ mem.b = PolyOf(B)
        /\ mem.acc = Zeros(WideWords) /\ mem.scratch = Zeros(ScratchWords)
    BY <1>2
  <1>4. \A n : Zeros(n) \in Array(n)
    BY DEF Zeros, Array, Word
  <1>5. mem \in [a : Array(MaxWords), b : Array(MaxWords),
                 acc : Array(WideWords), scratch : Array(ScratchWords)]
    BY <1>1, <1>2, <1>4, RingPolyOf
  <1>6. Exponents(mem.a) = A /\ Exponents(mem.b) = B
        /\ \A i \in NWords(N)..MaxWords-1 : mem.b[i] = {}
    BY <1>1, <1>3, RingPolyOf
  <1>7. word_idx \in 0..NWords(N)-1 /\ word \subseteq mem.a[word_idx]
    BY <1>1, RingWords
  <1>8. Taken = {}
    <2> SUFFICES ASSUME NEW p \in Exponents(mem.a),
                        p \div W < 0 \/ (p \div W = 0 /\ p % W \notin mem.a[0])
                 PROVE  FALSE
      BY <1>1 DEF Taken
    <2>1. p \in Nat /\ MaxWords \in Nat
      <3>1. N \in Nat /\ A \subseteq 0..N-1 /\ p \in A
        BY <1>1, <1>6, RingMulAssumption
      <3> QED BY <1>1, <3>1, RingWords
    <2>2. mem.a \in Array(MaxWords)
      BY <1>5
    <2>3. p % W \in mem.a[p \div W] /\ p \div W \in Nat
      BY <2>1, <2>2, InExponents, Division
    <2> QED BY <2>3
  <1>9. AccumulatedSoFar
    <2>1. Exponents(mem.acc) = {}
      BY <1>3 DEF Exponents, Zeros
    <2>2. \A t : ~Coefficient({}, Exponents(mem.b), t)
      <3>1. Cardinality({}) = 0 /\ 0 % 2 # 1
        BY FS_EmptySet
      <3> SUFFICES ASSUME NEW t PROVE {p \in {} : t - p \in Exponents(mem.b)} = {}
        BY <3>1, Zenon DEF Coefficient, Odd
      <3> QED OBVIOUS
    <2> QED BY <1>8, <2>1, <2>2 DEF AccumulatedSoFar
  <1>10. IsCyclicProduct
    BY <1>1 DEF IsCyclicProduct
  <1> QED BY <1>1, <1>5, <1>6, <1>7, <1>9, <1>10 DEF SparseInv

\* Consuming one more bit of the sparse operand.
LEMMA TakenGrows ==
    ASSUME SparseInv, mode = "sparse", NEW lsb \in word,
           mem'.a = mem.a, word_idx' = word_idx, word' = word \ {lsb}
    PROVE  LET pos == word_idx * W + lsb
           IN  /\ pos \in 0..N-1 /\ pos \notin Taken
               /\ Taken' = Taken \cup {pos}
  <1> DEFINE pos == word_idx * W + lsb
             A == Exponents(mem.a)
  <1>1. /\ W \in Nat /\ W > 0 /\ word_idx \in Nat /\ MaxWords \in Nat
        /\ mem.a \in Array(MaxWords) /\ word_idx < MaxWords /\ A \subseteq 0..N-1
        /\ lsb \in mem.a[word_idx] /\ N \in Nat
    <2>1. N \in Sizes /\ A \subseteq 0..N-1 /\ word_idx \in 0..NWords(N)-1
          /\ word \subseteq mem.a[word_idx]
      BY DEF SparseInv
    <2>2. mem.a \in Array(MaxWords)
      BY DEF SparseInv
    <2>3. W \in Nat /\ W > 0 /\ N \in Nat /\ NWords(N) \in Nat /\ MaxWords \in Nat
          /\ NWords(N) <= MaxWords
      BY <2>1, PolyAssumption, RingMulAssumption, RingWords
    <2> HIDE DEF A
    <2> QED BY <2>1, <2>2, <2>3
  <1>2. lsb \in 0..W-1
    BY <1>1 DEF Array, Word
  <1>3. pos = W * word_idx + lsb
    BY <1>1, <1>2
  <1>4. pos \div W = word_idx /\ pos % W = lsb
    BY <1>1, <1>2, <1>3, DivisionIsUnique
  <1>5. pos \in A
    BY <1>1, <1>2, <1>3, InExponentsAt
  <1>6. \A p \in A : (p \div W = word_idx /\ p % W = lsb) => p = pos
    BY <1>1, <1>3, Division
  <1> HIDE DEF pos, A
  <1>7. Taken = {p \in A : p \div W < word_idx \/ (p \div W = word_idx /\ p % W \notin word)}
    BY DEF Taken, A
  <1>8. Taken' = {p \in A : p \div W < word_idx
                            \/ (p \div W = word_idx /\ p % W \notin word \ {lsb})}
    BY DEF Taken, A
  <1>9. pos \notin Taken
    BY <1>1, <1>4, <1>7
  <1>10. Taken' = Taken \cup {pos}
    <2>1. \A p \in A : p \div W = word_idx =>
             (p % W \notin word \ {lsb} <=> (p % W \notin word \/ p = pos))
      BY <1>4, <1>6
    <2> QED BY <1>1, <1>4, <1>5, <1>7, <1>8, <2>1
  <1> QED BY <1>1, <1>5, <1>9, <1>10 DEF pos

LEMMA CoefficientAdd ==
    ASSUME NEW n \in Nat, NEW A \in SUBSET (0..n-1), NEW B,
           NEW x \in 0..n-1, x \notin A, NEW t
    PROVE  Coefficient(A \cup {x}, B, t) <=> ~(Coefficient(A, B, t) <=> t - x \in B)
  <1> DEFINE S == {p \in A : t - p \in B}
  <1>1. IsFiniteSet(S)
    <2>1. IsFiniteSet(0..n-1)
      BY FS_Interval
    <2>2. S \in SUBSET (0..n-1)
      OBVIOUS
    <2> QED BY <2>1, <2>2, FS_Subset
  <1>2. CASE t - x \in B
    <2>1. {p \in A \cup {x} : t - p \in B} = S \cup {x} /\ x \notin S
      BY <1>2
    <2> HIDE DEF S
    <2>2. Odd(S \cup {x}) <=> ~Odd(S)
      BY <1>1, <2>1, OddAdd
    <2> QED BY <1>2, <2>1, <2>2 DEF Coefficient, S
  <1>3. CASE t - x \notin B
    <2>1. {p \in A \cup {x} : t - p \in B} = S
      BY <1>3
    <2> QED BY <1>3, <2>1 DEF Coefficient
  <1> QED BY <1>2, <1>3

LEMMA SparseShift ==
    ASSUME SparseInv, mode = "sparse", ShiftStep
    PROVE  SparseInv'
  <1> DEFINE B == Exponents(mem.b)
  <1>1. /\ N' = N /\ mode' = mode /\ word_idx' = word_idx /\ calls' = calls
        /\ product' = product
    BY DEF ShiftStep
  <1>2. PICK lsb \in word :
           /\ mem' = IF word_idx * W + lsb < N
                     THEN [mem EXCEPT !.acc = shift_xor_wide(@, mem.b, word_idx * W + lsb, N)]
                     ELSE mem
           /\ word' = word \ {lsb}
    BY DEF ShiftStep
  <1> DEFINE pos == word_idx * W + lsb
  <1>3. /\ N \in Sizes /\ calls = <<>>
        /\ mem \in [a : Array(MaxWords), b : Array(MaxWords),
                    acc : Array(WideWords), scratch : Array(ScratchWords)]
        /\ Exponents(mem.a) \subseteq 0..N-1 /\ B \subseteq 0..N-1
        /\ \A i \in NWords(N)..MaxWords-1 : mem.b[i] = {}
        /\ word_idx \in 0..NWords(N)-1 /\ word \subseteq mem.a[word_idx]
        /\ AccumulatedSoFar /\ IsCyclicProduct
    BY DEF SparseInv
  <1>4. mem'.a = mem.a
    BY <1>2, <1>3
  <1>5. pos \in 0..N-1 /\ pos \notin Taken /\ Taken' = Taken \cup {pos}
    BY <1>1, <1>2, <1>4, TakenGrows
  <1>6. N \in Nat
    BY <1>3, RingMulAssumption
  <1>7. pos < N /\ pos \in Nat
    BY <1>5, <1>6
  <1> HIDE DEF pos
  <1>8. mem' = [mem EXCEPT !.acc = shift_xor_wide(@, mem.b, pos, N)]
    BY <1>2, <1>7 DEF pos
  <1>9. mem'.b = mem.b /\ mem'.acc = shift_xor_wide(mem.acc, mem.b, pos, N)
        /\ mem'.scratch = mem.scratch
    BY <1>3, <1>8
  <1>10. mem.acc \in Array(WideWords) /\ mem.b \in Array(MaxWords)
    BY <1>3
  <1>11. /\ mem'.acc \in Array(WideWords)
         /\ \A t \in 0..W*WideWords-1 :
              t \in Exponents(mem'.acc) <=> ~(t \in Exponents(mem.acc) <=> t - pos \in B)
    BY <1>3, <1>7, <1>9, <1>10, ShiftIsExact
  <1>12. mem' \in [a : Array(MaxWords), b : Array(MaxWords),
                   acc : Array(WideWords), scratch : Array(ScratchWords)]
    BY <1>3, <1>8, <1>9, <1>11
  <1>13. \A t \in 0..W*WideWords-1 :
            t \in Exponents(mem.acc) <=> Coefficient(Taken, B, t)
    BY <1>3 DEF AccumulatedSoFar
  <1>14. Taken \subseteq 0..N-1
    BY <1>3 DEF Taken
  <1> HIDE DEF B
  <1>15. \A t : Coefficient(Taken \cup {pos}, B, t)
                  <=> ~(Coefficient(Taken, B, t) <=> t - pos \in B)
    BY <1>5, <1>6, <1>14, CoefficientAdd
  <1>16. \A t \in 0..W*WideWords-1 :
            t \in Exponents(mem'.acc) <=> Coefficient(Taken', B, t)
    BY <1>5, <1>11, <1>13, <1>15, Zenon
  <1>17. AccumulatedSoFar'
    BY <1>9, <1>16 DEF AccumulatedSoFar, B
  <1>18. IsCyclicProduct'
    BY <1>1, <1>3, <1>4, <1>9 DEF IsCyclicProduct
  <1>19. word' \subseteq mem'.a[word_idx']
    BY <1>1, <1>2, <1>3, <1>4
  <1>20. Exponents(mem'.a) \subseteq 0..N'-1 /\ Exponents(mem'.b) \subseteq 0..N'-1
    BY <1>1, <1>3, <1>4, <1>9 DEF B
  <1>21. \A i \in NWords(N')..MaxWords-1 : mem'.b[i] = {}
    BY <1>1, <1>3, <1>9
  <1> QED BY <1>1, <1>3, <1>12, <1>17, <1>18, <1>19, <1>20, <1>21 DEF SparseInv

LEMMA SparseNextWord ==
    ASSUME SparseInv, mode = "sparse", NextWord
    PROVE  SparseInv'
  <1>1. /\ N' = N /\ mode' = mode /\ mem' = mem /\ calls' = calls /\ product' = product
        /\ word = {} /\ word_idx < NWords(N) - 1
        /\ word_idx' = word_idx + 1 /\ word' = mem.a[word_idx + 1]
    BY DEF NextWord
  <1>2. /\ N \in Sizes /\ Exponents(mem.a) \subseteq 0..N-1
        /\ word_idx \in 0..NWords(N)-1 /\ AccumulatedSoFar /\ IsCyclicProduct
    BY DEF SparseInv
  <1>3. mem.a \in Array(MaxWords)
    BY DEF SparseInv
  <1>4. /\ MaxWords \in Nat /\ NWords(N) \in Nat /\ word_idx' \in 0..NWords(N)-1
        /\ N \in Nat
    BY <1>1, <1>2, RingWords, RingMulAssumption
  <1> DEFINE A == Exponents(mem.a)
  <1>5. ASSUME NEW p \in A
        PROVE  (p \div W < word_idx + 1
                  \/ (p \div W = word_idx + 1 /\ p % W \notin mem.a[word_idx + 1]))
               <=> (p \div W < word_idx \/ (p \div W = word_idx /\ p % W \notin word))
    <2>1. p \in Nat
      BY <1>2, <1>4
    <2>2. p \div W \in Nat /\ p % W \in mem.a[p \div W]
      BY <1>3, <1>4, <2>1, InExponents, Division
    <2> HIDE DEF A
    <2>3. (p \div W = word_idx + 1) => p % W \in mem.a[word_idx + 1]
      BY <2>2
    <2>4. p \div W < word_idx + 1 <=> (p \div W < word_idx \/ p \div W = word_idx)
      BY <1>2, <2>2
    <2> QED BY <1>1, <2>3, <2>4
  <1>6. Taken' = Taken
    <2>1. Taken' = {p \in A : p \div W < word_idx + 1
                       \/ (p \div W = word_idx + 1 /\ p % W \notin mem.a[word_idx + 1])}
      BY <1>1 DEF Taken
    <2>2. Taken = {p \in A : p \div W < word_idx
                       \/ (p \div W = word_idx /\ p % W \notin word)}
      BY DEF Taken
    <2> HIDE DEF A
    <2> QED BY <1>5, <2>1, <2>2
  <1>7. AccumulatedSoFar' /\ IsCyclicProduct'
    BY <1>1, <1>2, <1>6 DEF AccumulatedSoFar, IsCyclicProduct
  <1>8. word' \subseteq mem'.a[word_idx']
    BY <1>1
  <1> QED BY <1>1, <1>2, <1>4, <1>7, <1>8 DEF SparseInv

\* When the last word is used up, every bit of the sparse operand is taken.
LEMMA AllTaken ==
    ASSUME SparseInv, mode = "sparse", word = {}, word_idx = NWords(N) - 1
    PROVE  Taken = Exponents(mem.a)
  <1>1. N \in Sizes /\ Exponents(mem.a) \subseteq 0..N-1
    BY DEF SparseInv
  <1>2. /\ W \in Nat /\ W > 0 /\ N \in Nat /\ NWords(N) \in Nat /\ N <= W * NWords(N)
    BY <1>1, RingMulAssumption, PolyAssumption, RingWords, WordCount
  <1> SUFFICES ASSUME NEW p \in Exponents(mem.a)
               PROVE  p \div W < word_idx \/ p \div W = word_idx
    BY DEF Taken
  <1>3. W * NWords(N) \in Nat /\ p \in 0..W*NWords(N)-1
    BY <1>1, <1>2
  <1>4. p \div W \in 0..NWords(N)-1
    BY <1>2, <1>3, PositionInArray
  <1> QED BY <1>2, <1>4

LEMMA SparseFold ==
    ASSUME SparseInv, mode = "sparse", Fold
    PROVE  SparseInv'
  <1> DEFINE A == Exponents(mem.a)
             B == Exponents(mem.b)
             E == Exponents(mem.acc)
  <1>1. /\ N' = N /\ mode' = mode /\ mem' = mem /\ calls' = calls
        /\ word_idx' = word_idx /\ word' = word /\ product' = reduce_wide(mem.acc, N)
        /\ word = {} /\ word_idx = NWords(N) - 1
    BY DEF Fold
  <1>2. N \in Sizes /\ A \subseteq 0..N-1 /\ B \subseteq 0..N-1 /\ AccumulatedSoFar
    BY DEF SparseInv
  <1>3. mem.acc \in Array(WideWords)
    BY DEF SparseInv
  <1>4. /\ W \in Nat /\ W > 0 /\ N \in Nat /\ N > 0 /\ NWords(N) \in Nat /\ MaxWords \in Nat
        /\ NWords(N) <= MaxWords /\ N <= W * NWords(N)
    BY <1>2, RingMulAssumption, PolyAssumption, RingWords, WordCount
  <1>5. \A t \in 0..N-1 : t \in 0..W*WideWords-1 /\ t + N \in 0..W*WideWords-1
    <2>1. \A x, y, w \in Nat : x <= y => w * x <= w * y
      BY Z3
    <2>2. W * NWords(N) <= W * MaxWords
      BY <1>4, <2>1
    <2>3. W * (2*MaxWords + 2) = W * MaxWords + W * MaxWords + W + W
          /\ W * NWords(N) \in Nat /\ W * MaxWords \in Nat
      BY <1>4
    <2> DEFINE u == W * NWords(N)
               v == W * MaxWords
               z == W * WideWords
    <2>4. z = v + v + W + W /\ u <= v /\ N <= u /\ u \in Nat /\ v \in Nat
      BY <1>4, <2>2, <2>3 DEF WideWords
    <2> HIDE DEF u, v, z
    <2>5. \A t \in 0..N-1 : t \in 0..z-1 /\ t + N \in 0..z-1
      BY <1>4, <2>4
    <2> QED BY <2>5 DEF z
  <1>6. \A t \in 0..W*WideWords-1 : t \in E <=> Coefficient(A, B, t)
    <2>1. Taken = A
      BY <1>1, AllTaken
    <2> HIDE DEF A
    <2> QED BY <1>2, <2>1 DEF AccumulatedSoFar
  <1> HIDE DEF A, B, E
  <1>7. \A t \in 0..N-1 : (t \in E <=> Coefficient(A, B, t))
                          /\ (t + N \in E <=> Coefficient(A, B, t + N))
    BY <1>5, <1>6
  <1>8. CyclicProduct(A, B, N) = {t \in 0..N-1 : ~(t \in E <=> t + N \in E)}
    <2>1. CyclicProduct(A, B, N) =
            {t \in 0..N-1 : ~(Coefficient(A, B, t) <=> Coefficient(A, B, t + N))}
      BY <1>2, <1>4, FoldedProduct
    <2> QED BY <1>7, <2>1, Zenon
  <1>9. product' = PolyOf(CyclicProduct(A, B, N))
    BY <1>1, <1>2, <1>3, <1>8, FoldIsExact DEF E
  <1>10. CyclicProduct(A, B, N) \in SUBSET (0..N-1)
    BY <1>8
  <1>11. reduce(product', N) = product'
    BY <1>2, <1>4, <1>9, <1>10, ReduceKeepsCanonical
  <1>12. IsCyclicProduct'
    BY <1>1, <1>9, <1>11 DEF IsCyclicProduct, A, B
  <1>13. Taken' = Taken
    BY <1>1 DEF Taken
  <1>14. AccumulatedSoFar'
    BY <1>1, <1>2, <1>13 DEF AccumulatedSoFar
  <1> QED BY <1>1, <1>12, <1>14 DEF SparseInv

LEMMA SparseStep == SparseInv /\ [Next]_vars => SparseInv'
  <1> SUFFICES ASSUME SparseInv, [Next]_vars PROVE SparseInv'
    OBVIOUS
  <1>1. CASE mode # "sparse"
    <2>1. mode' = mode
      BY DEF Next, vars, ShiftStep, NextWord, Leaf, Split, MultiplyHigh, MultiplyMiddle,
             Combine, Descend, Fold
    <2> QED BY <1>1, <2>1 DEF SparseInv
  <1>2. CASE mode = "sparse"
    <2>1. calls = <<>>
      BY <1>2 DEF SparseInv
    <2>2. CASE ShiftStep
      BY <1>2, <2>2, SparseShift
    <2>3. CASE NextWord
      BY <1>2, <2>3, SparseNextWord
    <2>4. CASE Fold
      BY <1>2, <2>4, SparseFold
    <2>5. CASE UNCHANGED vars
      BY <2>5 DEF vars, SparseInv, AccumulatedSoFar, Taken, IsCyclicProduct
    <2>6. ~(Leaf \/ Split \/ MultiplyHigh \/ MultiplyMiddle \/ Combine)
      BY <2>1 DEF Leaf, Split, MultiplyHigh, MultiplyMiddle, Combine
    <2> QED BY <2>2, <2>3, <2>4, <2>5, <2>6 DEF Next
  <1> QED BY <1>1, <1>2

\* mul_sparse_dense: at every step the accumulator is the product, over F2[X],
\* of the bits of the sparse operand consumed so far and the dense operand.
THEOREM SparseAccumulates == Spec => []AccumulatedSoFar
  <1>1. SparseInv => AccumulatedSoFar
    BY DEF SparseInv, AccumulatedSoFar
  <1> QED BY <1>1, SparseInit, SparseStep, PTL DEF Spec

-----------------------------------------------------------------------------
(* Products of finite sets of exponents. *)

Shifted(A, k) == {p + k : p \in A}

\* A product is linear in its first operand ...
LEMMA CoefficientXorLeft ==
    ASSUME NEW A, IsFiniteSet(A), NEW A2, IsFiniteSet(A2), NEW B, NEW t
    PROVE  Coefficient(xor(A, A2), B, t) <=> ~(Coefficient(A, B, t) <=> Coefficient(A2, B, t))
  <1> DEFINE S == {p \in A : t - p \in B}
             T == {p \in A2 : t - p \in B}
             U == {p \in xor(A, A2) : t - p \in B}
  <1>1. IsFiniteSet(S) /\ IsFiniteSet(T)
    BY FS_Subset
  <1>2. U = xor(S, T)
    BY DEF xor
  <1> HIDE DEF S, T, U
  <1>3. Odd(U) <=> ~(Odd(S) <=> Odd(T))
    BY <1>1, <1>2, OddXor
  <1> QED BY <1>3 DEF Coefficient, S, T, U

\* ... and in its second.
LEMMA CoefficientXorRight ==
    ASSUME NEW A, IsFiniteSet(A), NEW B, NEW B2, NEW t
    PROVE  Coefficient(A, xor(B, B2), t) <=> ~(Coefficient(A, B, t) <=> Coefficient(A, B2, t))
  <1> DEFINE S == {p \in A : t - p \in B}
             T == {p \in A : t - p \in B2}
             U == {p \in A : t - p \in xor(B, B2)}
  <1>1. IsFiniteSet(S) /\ IsFiniteSet(T)
    BY FS_Subset
  <1>2. U = xor(S, T)
    BY DEF xor
  <1> HIDE DEF S, T, U
  <1>3. Odd(U) <=> ~(Odd(S) <=> Odd(T))
    BY <1>1, <1>2, OddXor
  <1> QED BY <1>3 DEF Coefficient, S, T, U

\* Multiplying an operand by X^k multiplies the product by it.
LEMMA CoefficientShiftLeft ==
    ASSUME NEW A \in SUBSET Int, IsFiniteSet(A), NEW B, NEW k \in Int, NEW t \in Int
    PROVE  Coefficient(Shifted(A, k), B, t) <=> Coefficient(A, B, t - k)
  <1> DEFINE S == {p \in A : (t - k) - p \in B}
             T == {p \in Shifted(A, k) : t - p \in B}
             f == [p \in S |-> p + k]
  <1>1. IsFiniteSet(S)
    BY FS_Subset
  <1>2. \A p \in A : t - (p + k) = (t - k) - p
    OBVIOUS
  <1>3. f \in [S -> T]
    BY <1>2 DEF Shifted
  <1>4. \A a, b \in S : f[a] = f[b] => a = b
    OBVIOUS
  <1>5. \A q \in T : \E p \in S : f[p] = q
    <2> SUFFICES ASSUME NEW q \in T PROVE \E p \in S : f[p] = q
      OBVIOUS
    <2>1. PICK p \in A : q = p + k
      BY DEF Shifted
    <2>2. p \in S
      BY <1>2, <2>1
    <2> QED BY <2>1, <2>2
  <1> HIDE DEF S, T, f
  <1>6. Odd(S) <=> Odd(T)
    BY <1>1, <1>3, <1>4, <1>5, OddBijection
  <1> QED BY <1>6 DEF Coefficient, S, T

LEMMA CoefficientShiftRight ==
    ASSUME NEW A \in SUBSET Int, NEW B \in SUBSET Int, NEW k \in Int, NEW t \in Int
    PROVE  Coefficient(A, Shifted(B, k), t) <=> Coefficient(A, B, t - k)
  <1>1. ASSUME NEW p \in A PROVE t - p \in Shifted(B, k) <=> (t - k) - p \in B
    <2>1. \A q \in B : q + k = t - p <=> q = (t - k) - p
      OBVIOUS
    <2> QED BY <2>1 DEF Shifted
  <1>2. {p \in A : t - p \in Shifted(B, k)} = {p \in A : (t - k) - p \in B}
    BY <1>1
  <1> QED BY <1>2 DEF Coefficient

\* A product has no exponent below 0 and none above those of its operands.
LEMMA CoefficientDegree ==
    ASSUME NEW n \in Nat, NEW m \in Nat, NEW A \in SUBSET (0..n-1), NEW B \in SUBSET (0..m-1),
           NEW t \in Int, t < 0 \/ t >= n + m
    PROVE  ~Coefficient(A, B, t)
  <1>1. \A p \in A : t - p \notin B
    <2> SUFFICES ASSUME NEW p \in A, t - p \in B PROVE FALSE
      OBVIOUS
    <2>1. p \in 0..n-1 /\ t - p \in 0..m-1
      OBVIOUS
    <2> QED BY <2>1
  <1>2. {p \in A : t - p \in B} = {}
    BY <1>1
  <1> QED BY <1>2, EmptyIsEven DEF Coefficient

\* Karatsuba's identity: the product of two operands that are cut at H from
\* the products of their halves and of the sums of their halves.
LEMMA KaratsubaIdentity ==
    ASSUME NEW H \in Nat, NEW m \in Nat,
           NEW A0 \in SUBSET (0..m-1), NEW A1 \in SUBSET (0..m-1),
           NEW B0 \in SUBSET (0..m-1), NEW B1 \in SUBSET (0..m-1),
           NEW t \in Int
    PROVE  Coefficient(xor(A0, Shifted(A1, H)), xor(B0, Shifted(B1, H)), t)
             <=> ~(~(Coefficient(A0, B0, t) <=> Coefficient(A1, B1, t - 2*H))
                   <=> ~(~(Coefficient(xor(A0, A1), xor(B0, B1), t - H)
                             <=> Coefficient(A0, B0, t - H))
                         <=> Coefficient(A1, B1, t - H)))
  <1> DEFINE A == xor(A0, Shifted(A1, H))
             B == xor(B0, Shifted(B1, H))
  <1>1. IsFiniteSet(0..m-1)
    BY FS_Interval
  <1>2. IsFiniteSet(A0) /\ IsFiniteSet(A1) /\ IsFiniteSet(B0) /\ IsFiniteSet(B1)
    BY <1>1, FS_Subset
  <1>3. IsFiniteSet(Shifted(A1, H))
    <2>1. Shifted(A1, H) \in SUBSET (0..m+H-1)
      BY DEF Shifted
    <2>2. IsFiniteSet(0..m+H-1)
      BY FS_Interval
    <2> QED BY <2>1, <2>2, FS_Subset
  <1>4. /\ A0 \in SUBSET Int /\ A1 \in SUBSET Int /\ B0 \in SUBSET Int /\ B1 \in SUBSET Int
        /\ Shifted(A1, H) \in SUBSET Int
        /\ t - H \in Int /\ (t - H) - H = t - 2*H
    BY DEF Shifted
  <1>5. Coefficient(A, B, t) <=> ~(Coefficient(A0, B, t) <=> Coefficient(Shifted(A1, H), B, t))
    BY <1>2, <1>3, CoefficientXorLeft
  <1>6. Coefficient(A0, B, t) <=> ~(Coefficient(A0, B0, t) <=> Coefficient(A0, B1, t - H))
    <2>1. Coefficient(A0, B, t) <=> ~(Coefficient(A0, B0, t) <=> Coefficient(A0, Shifted(B1, H), t))
      BY <1>2, CoefficientXorRight
    <2>2. Coefficient(A0, Shifted(B1, H), t) <=> Coefficient(A0, B1, t - H)
      BY <1>4, CoefficientShiftRight
    <2> QED BY <2>1, <2>2
  <1>7. Coefficient(Shifted(A1, H), B, t)
          <=> ~(Coefficient(A1, B0, t - H) <=> Coefficient(A1, B1, t - 2*H))
    <2>1. Coefficient(Shifted(A1, H), B, t)
            <=> ~(Coefficient(Shifted(A1, H), B0, t)
                  <=> Coefficient(Shifted(A1, H), Shifted(B1, H), t))
      BY <1>3, CoefficientXorRight
    <2>2. Coefficient(Shifted(A1, H), B0, t) <=> Coefficient(A1, B0, t - H)
      BY <1>2, <1>4, CoefficientShiftLeft
    <2>3. Coefficient(Shifted(A1, H), Shifted(B1, H), t) <=> Coefficient(A1, Shifted(B1, H), t - H)
      BY <1>2, <1>4, CoefficientShiftLeft
    <2>4. Coefficient(A1, Shifted(B1, H), t - H) <=> Coefficient(A1, B1, t - 2*H)
      BY <1>4, CoefficientShiftRight
    <2> QED BY <2>1, <2>2, <2>3, <2>4
  <1>8. Coefficient(xor(A0, A1), xor(B0, B1), t - H)
          <=> ~(~(Coefficient(A0, B0, t - H) <=> Coefficient(A0, B1, t - H))
                <=> ~(Coefficient(A1, B0, t - H) <=> Coefficient(A1, B1, t - H)))
    <2>1. Coefficient(xor(A0, A1), xor(B0, B1), t - H)
            <=> ~(Coefficient(A0, xor(B0, B1), t - H) <=> Coefficient(A1, xor(B0, B1), t - H))
      BY <1>2, CoefficientXorLeft
    <2>2. \A u : Coefficient(A0, xor(B0, B1), u)
                   <=> ~(Coefficient(A0, B0, u) <=> Coefficient(A0, B1, u))
      BY <1>2, CoefficientXorRight
    <2>3. \A u : Coefficient(A1, xor(B0, B1), u)
                   <=> ~(Coefficient(A1, B0, u) <=> Coefficient(A1, B1, u))
      BY <1>2, CoefficientXorRight
    <2> QED BY <2>1, <2>2, <2>3
  <1> HIDE DEF A, B
  <1>9. Coefficient(A, B, t)
          <=> ~(~(Coefficient(A0, B0, t) <=> Coefficient(A0, B1, t - H))
                <=> ~(Coefficient(A1, B0, t - H) <=> Coefficient(A1, B1, t - 2*H)))
    BY <1>5, <1>6, <1>7
  <1> DEFINE c00 == Coefficient(A0, B0, t)
             c01 == Coefficient(A0, B1, t - H)
             c10 == Coefficient(A1, B0, t - H)
             c11 == Coefficient(A1, B1, t - 2*H)
             d00 == Coefficient(A0, B0, t - H)
             d11 == Coefficient(A1, B1, t - H)
             sm == Coefficient(xor(A0, A1), xor(B0, B1), t - H)
             all == Coefficient(A, B, t)
  <1> HIDE DEF c00, c01, c10, c11, d00, d11, sm, all
  <1>10. all <=> ~(~(c00 <=> c01) <=> ~(c10 <=> c11))
    BY <1>9 DEF all, c00, c01, c10, c11
  <1>11. sm <=> ~(~(d00 <=> c01) <=> ~(c10 <=> d11))
    BY <1>8 DEF sm, d00, c01, c10, d11
  <1>12. all <=> ~(~(c00 <=> c11) <=> ~(~(sm <=> d00) <=> d11))
    BY <1>10, <1>11
  <1> QED BY <1>12 DEF all, c00, c11, sm, d00, d11, A, B

-----------------------------------------------------------------------------
(* The leaf. *)

\* A set has the parity of the number of its classes that are odd.
LEMMA OddByClass ==
    ASSUME NEW S, IsFiniteSet(S), NEW I, IsFiniteSet(I), NEW f \in [S -> I]
    PROVE  Odd(S) <=> Odd({i \in I : Odd({p \in S : f[p] = i})})
  <1> DEFINE Class(T, i) == {p \in T : f[p] = i}
             Classes(T) == {i \in I : Odd(Class(T, i))}
             F == {T \in SUBSET S : Odd(T) <=> Odd(Classes(T))}
  <1>1. {} \in F
    <2>1. Classes({}) = {}
      <3>1. \A i : Class({}, i) = {}
        OBVIOUS
      <3> HIDE DEF Class
      <3> QED BY <3>1, EmptyIsEven
    <2> QED BY <2>1
  <1>2. ASSUME NEW T \in SUBSET S, NEW q \in S, T \in F, q \notin T
        PROVE  T \cup {q} \in F
    <2>1. IsFiniteSet(T) /\ f[q] \in I
      BY FS_Subset
    <2>2. \A i \in I : i # f[q] => Class(T \cup {q}, i) = Class(T, i)
      OBVIOUS
    <2>3. Class(T \cup {q}, f[q]) = Class(T, f[q]) \cup {q} /\ q \notin Class(T, f[q])
      BY <1>2
    <2>4. IsFiniteSet(Class(T, f[q]))
      BY <2>1, FS_Subset
    <2> HIDE DEF Class
    <2>5. Odd(Class(T \cup {q}, f[q])) <=> ~Odd(Class(T, f[q]))
      BY <2>3, <2>4, OddAdd
    <2>6. IsFiniteSet(Classes(T)) /\ IsFiniteSet(Classes(T \cup {q}))
      BY FS_Subset
    <2>7. \A i \in I : i # f[q] => (i \in Classes(T \cup {q}) <=> i \in Classes(T))
      BY <2>2
    <2>8. f[q] \in Classes(T \cup {q}) <=> f[q] \notin Classes(T)
      BY <2>1, <2>5
    <2>9. Classes(T) \subseteq I /\ Classes(T \cup {q}) \subseteq I
      OBVIOUS
    <2> HIDE DEF Classes
    <2>10. Odd(Classes(T \cup {q})) <=> ~Odd(Classes(T))
      <3>1. CASE f[q] \notin Classes(T)
        <4>1. Classes(T \cup {q}) = Classes(T) \cup {f[q]}
          BY <2>1, <2>7, <2>8, <2>9, <3>1
        <4> QED BY <2>6, <3>1, <4>1, OddAdd
      <3>2. CASE f[q] \in Classes(T)
        <4>1. Classes(T) = Classes(T \cup {q}) \cup {f[q]} /\ f[q] \notin Classes(T \cup {q})
          BY <2>1, <2>7, <2>8, <2>9, <3>2
        <4>2. Odd(Classes(T \cup {q}) \cup {f[q]}) <=> ~Odd(Classes(T \cup {q}))
          BY <2>6, <4>1, OddAdd
        <4> QED BY <4>1, <4>2
      <3> QED BY <3>1, <3>2
    <2>11. Odd(T \cup {q}) <=> ~Odd(T)
      BY <1>2, <2>1, OddAdd
    <2> QED BY <1>2, <2>10, <2>11
  <1> HIDE DEF F
  <1>3. SUBSET S \subseteq F
    <2>1. \A A \in SUBSET S, p \in S : A \in F /\ p \notin A => A \cup {p} \in F
      BY <1>2
    <2> QED BY <1>1, <2>1, SubsetInduction
  <1>4. S \in F
    BY <1>3
  <1> QED BY <1>4 DEF F

\* The pairs of words whose product lies at word t.
PairsAt(n, t) == {ij \in (0..n-1) \X (0..n-1) : ij[1] + ij[2] = t}

LEMMA PairsFinite == ASSUME NEW n \in Nat, NEW t PROVE IsFiniteSet(PairsAt(n, t))
  <1>1. IsFiniteSet(0..n-1)
    BY FS_Interval
  <1>2. IsFiniteSet((0..n-1) \X (0..n-1))
    BY <1>1, FS_Product
  <1> QED BY <1>2, FS_Subset DEF PairsAt

\* The bits of w that meet one of v at bit e of their product.
MetAt(v, w, e) == {y \in w : e - y \in v}

LEMMA WordProduct ==
    ASSUME NEW v \in Word, NEW w \in Word, NEW b \in 0..W-1
    PROVE  /\ b \in clmul64(v, w).lo <=> Odd(MetAt(v, w, b))
           /\ b \in clmul64(v, w).hi <=> Odd(MetAt(v, w, b + W))
  <1>1. v \subseteq 0..W-1 /\ w \subseteq 0..W-1 /\ W \in Nat /\ W > 0
    BY PolyAssumption DEF Word
  <1>2. b \in clmul64(v, w).lo <=> Odd({y \in w : b \in shl(v, y)})
    BY DEF clmul64, XorOver
  <1>3. b \in clmul64(v, w).hi <=> Odd({y \in w \ {0} : b \in shr(v, W - y)})
    BY DEF clmul64, XorOver
  <1>4. {y \in w : b \in shl(v, y)} = {y \in w : b - y \in v}
    BY DEF shl
  <1>5. {y \in w \ {0} : b \in shr(v, W - y)} = {y \in w : (b + W) - y \in v}
    <2>1. ASSUME NEW y \in w PROVE (y # 0 /\ b \in shr(v, W - y)) <=> (b + W) - y \in v
      <3>1. y \in 0..W-1 /\ b + (W - y) = (b + W) - y
        BY <1>1
      <3>2. y = 0 => (b + W) - y \notin v
        BY <1>1, <3>1
      <3> QED BY <3>1, <3>2 DEF shr
    <2> QED BY <2>1
  <1> QED BY <1>2, <1>3, <1>4, <1>5 DEF MetAt

LEMMA SchoolbookBit ==
    ASSUME NEW n \in Nat, NEW v, NEW w, NEW s \in 0..2*n-1, NEW b \in 0..W-1
    PROVE  b \in Schoolbook(v, w, n)[s] <=>
             ~(Odd({ij \in PairsAt(n, s) : b \in clmul64(v[ij[1]], w[ij[2]]).lo})
               <=> Odd({ij \in PairsAt(n, s - 1) : b \in clmul64(v[ij[1]], w[ij[2]]).hi}))
  BY DEF Schoolbook, XorOver, PairsAt, xor

LEMMA ExponentsOfArray ==
    ASSUME NEW size \in Nat, NEW ws \in Array(size)
    PROVE  /\ Exponents(ws) \subseteq 0..W*size-1
           /\ Exponents(ws) \subseteq Nat
           /\ IsFiniteSet(Exponents(ws))
  <1>1. W \in Nat /\ W > 0 /\ W*size \in Nat
    BY PolyAssumption
  <1>2. DOMAIN ws = 0..size-1 /\ \A i \in 0..size-1 : ws[i] \subseteq 0..W-1
    BY DEF Array, Word
  <1>3. ASSUME NEW i \in 0..size-1, NEW b \in ws[i] PROVE W*i + b \in 0..W*size-1
    <2>1. b \in 0..W-1 /\ W*i \in Nat /\ i + 1 \in Nat
      BY <1>1, <1>2
    <2>2. \A x, y, z \in Nat : x <= y => z * x <= z * y
      BY Z3
    <2>3. W*(i + 1) <= W*size
      BY <1>1, <2>1, <2>2
    <2>4. W*(i + 1) = W*i + W
      BY <1>1
    <2> QED BY <1>1, <2>1, <2>3, <2>4
  <1>4. Exponents(ws) \subseteq 0..W*size-1
    BY <1>2, <1>3 DEF Exponents
  <1>5. IsFiniteSet(0..W*size-1)
    <2>1. 0 \in Int /\ W*size-1 \in Int
      BY <1>1
    <2> QED BY <2>1, FS_Interval
  <1> QED BY <1>1, <1>4, <1>5, FS_Subset

\* The exponents of one operand that meet the other at W*r + e, with bit e of
\* the product of two words.
MeetsAt(v, w, r, e) ==
    {p \in Exponents(v) : e - (p % W) \in 0..W-1 /\ (W*r + e) - p \in Exponents(w)}

\* They are counted pair of words by pair of words.
LEMMA PairByPair ==
    ASSUME NEW n \in Nat, NEW v \in Array(n), NEW w \in Array(n), NEW r \in Int, NEW e \in Int,
           IsFiniteSet(MeetsAt(v, w, r, e))
    PROVE  Odd(MeetsAt(v, w, r, e))
             <=> Odd({ij \in PairsAt(n, r) : Odd(MetAt(v[ij[1]], w[ij[2]], e))})
  <1> DEFINE S == MeetsAt(v, w, r, e)
             A == Exponents(v)
             B == Exponents(w)
             f == [p \in S |-> <<p \div W, r - (p \div W)>>]
             Class(ij) == {p \in S : f[p] = ij}
             Met(ij) == MetAt(v[ij[1]], w[ij[2]], e)
  <1>1. /\ W \in Nat /\ W > 0
        /\ \A i \in 0..n-1 : v[i] \in Word /\ v[i] \subseteq 0..W-1
                             /\ w[i] \in Word /\ w[i] \subseteq 0..W-1
    BY PolyAssumption DEF Array, Word
  <1>9. W*r + e \in Int
    BY <1>1
  <1>2. ASSUME NEW p \in A
        PROVE  /\ p \in Nat /\ p \div W \in 0..n-1 /\ p % W \in v[p \div W] /\ p % W \in 0..W-1
               /\ p = W * (p \div W) + (p % W)
    <2>1. p \in Nat
      BY ExponentsOfArray
    <2>2. p \div W \in Nat /\ p % W \in 0..W-1 /\ p = W * (p \div W) + (p % W)
      BY <2>1, Division
    <2>3. p \div W < n /\ p % W \in v[p \div W]
      BY <2>1, InExponents
    <2> QED BY <2>1, <2>2, <2>3
  <1>3. ASSUME NEW p \in A, e - (p % W) \in 0..W-1
        PROVE  (W*r + e) - p \in B
                 <=> r - (p \div W) \in 0..n-1 /\ e - (p % W) \in w[r - (p \div W)]
    <2>1. /\ p \in Nat /\ p \div W \in Nat /\ p % W \in 0..W-1 /\ p = W * (p \div W) + (p % W)
      BY <1>2
    <2>2. e - (p % W) \in 0..W-1 /\ r - (p \div W) \in Int
      BY <1>1, <1>3, <2>1
    <2>3. W * (r - (p \div W)) = W*r - W * (p \div W)
      <3>1. \A x, y \in Int, z \in Nat : z*(x - y) = z*x - z*y
        BY Z3
      <3> QED BY <1>1, <2>1, <3>1
    <2>4. W*r \in Int /\ W * (p \div W) \in Int
      BY <1>1, <2>1
    <2>5. (W*r + e) - p = W * (r - (p \div W)) + (e - (p % W))
      BY <2>1, <2>3, <2>4
    <2> QED BY <2>2, <2>5, InExponentsAt
  <1> HIDE DEF A, B
  <1>4. \A p : p \in S <=> p \in A /\ e - (p % W) \in 0..W-1 /\ (W*r + e) - p \in B
    BY DEF MeetsAt, A, B
  <1> HIDE DEF S
  <1>5. f \in [S -> PairsAt(n, r)]
    <2>1. ASSUME NEW p \in S PROVE <<p \div W, r - (p \div W)>> \in PairsAt(n, r)
      <3>1. p \in A /\ p \div W \in 0..n-1 /\ r - (p \div W) \in 0..n-1
        BY <1>2, <1>3, <1>4
      <3>2. (p \div W) + (r - (p \div W)) = r
        BY <3>1
      <3> QED BY <3>1, <3>2 DEF PairsAt
    <2> QED BY <2>1
  <1>6. ASSUME NEW ij \in PairsAt(n, r)
        PROVE  Odd(Class(ij)) <=> Odd(MetAt(v[ij[1]], w[ij[2]], e))
    <2> DEFINE i == ij[1]
               j == ij[2]
               g == [y \in Met(ij) |-> W*i + (e - y)]
    <2>1. i \in 0..n-1 /\ j \in 0..n-1 /\ i + j = r /\ ij = <<i, j>> /\ i \in Nat /\ j \in Nat
      BY DEF PairsAt
    <2> HIDE DEF i, j
    <2>2. Met(ij) = {y \in w[j] : e - y \in v[i]} /\ Met(ij) = MetAt(v[i], w[j], e)
      BY DEF i, j, MetAt
    <2>3. \A p : p \in Class(ij) <=> p \in S /\ p \div W = i
      <3> SUFFICES ASSUME NEW p \in S
                   PROVE  <<p \div W, r - (p \div W)>> = ij <=> p \div W = i
        OBVIOUS
      <3>1. p \div W \in Nat
        BY <1>2, <1>4
      <3>2. (p \div W = i) => r - (p \div W) = j
        BY <2>1
      <3> QED BY <2>1, <3>2
    <2>4. ASSUME NEW y \in w[j], e - y \in v[i]
          PROVE  W*i + (e - y) \in Class(ij)
      <3>1. y \in 0..W-1 /\ e - y \in 0..W-1
        BY <1>1, <2>1, <2>4
      <3>2. (W*i + (e - y)) \div W = i /\ (W*i + (e - y)) % W = e - y
        BY <2>1, <3>1, DivisionIsUnique
      <3>3. W*i + (e - y) \in A
        BY <2>1, <2>4, <3>1, InExponentsAt DEF A
      <3>4. e - (e - y) \in 0..W-1 /\ e - (e - y) = y /\ r - i = j
        BY <1>1, <2>1, <3>1
      <3>5. (W*r + e) - (W*i + (e - y)) \in B
        BY <1>3, <2>1, <3>2, <3>3, <3>4
      <3> QED BY <1>4, <2>3, <3>2, <3>3, <3>4, <3>5
    <2>5. ASSUME NEW p \in Class(ij)
          PROVE  \E y \in Met(ij) : W*i + (e - y) = p
      <3>1. p \in S /\ p \div W = i /\ p \in A /\ e - (p % W) \in 0..W-1 /\ (W*r + e) - p \in B
        BY <1>4, <2>3
      <3>2. p % W \in v[i] /\ p % W \in 0..W-1 /\ p = W * i + (p % W)
        BY <1>2, <3>1
      <3>3. e - (p % W) \in w[r - i]
        BY <1>3, <3>1
      <3>4. r - i = j /\ e - (e - (p % W)) = p % W
        BY <2>1, <3>2
      <3>5. e - (p % W) \in Met(ij)
        BY <2>2, <3>2, <3>3, <3>4
      <3> QED BY <3>2, <3>4, <3>5
    <2> HIDE DEF Class
    <2>6. g \in [Met(ij) -> Class(ij)]
      BY <2>2, <2>4
    <2>7. \A x, y \in Met(ij) : g[x] = g[y] => x = y
      <3> SUFFICES ASSUME NEW x \in Met(ij), NEW y \in Met(ij), W*i + (e - x) = W*i + (e - y)
                   PROVE  x = y
        OBVIOUS
      <3>1. x \in 0..W-1 /\ y \in 0..W-1 /\ W*i \in Int
        BY <1>1, <2>1, <2>2
      <3> QED BY <3>1
    <2>8. \A p \in Class(ij) : \E y \in Met(ij) : g[y] = p
      BY <2>5
    <2>9. IsFiniteSet(Met(ij))
      <3>1. IsFiniteSet(0..W-1)
        BY <1>1, FS_Interval
      <3>2. Met(ij) \in SUBSET (0..W-1)
        BY <1>1, <2>1, <2>2
      <3> QED BY <3>1, <3>2, FS_Subset
    <2> HIDE DEF g, Met
    <2>10. Odd(Met(ij)) <=> Odd(Class(ij))
      BY <2>6, <2>7, <2>8, <2>9, OddBijection
    <2> QED BY <2>2, <2>10 DEF i, j
  <1>7. Odd(S) <=> Odd({ij \in PairsAt(n, r) : Odd({p \in S : f[p] = ij})})
    <2>1. IsFiniteSet(S)
      BY DEF S
    <2> HIDE DEF f
    <2> QED BY <1>5, <2>1, PairsFinite, OddByClass
  <1>8. {ij \in PairsAt(n, r) : Odd({p \in S : f[p] = ij})}
          = {ij \in PairsAt(n, r) : Odd(MetAt(v[ij[1]], w[ij[2]], e))}
    BY <1>6
  <1> QED BY <1>7, <1>8 DEF S

\* The n words at v times the n words at w.
IsProduct(out, v, w) ==
    \A t \in Int : t \in Exponents(out) <=> Coefficient(Exponents(v), Exponents(w), t)

\* The leaf computes the product, over F2[X], of its operands.
LEMMA LeafProduct ==
    ASSUME NEW n \in Nat \ {0}, NEW v \in Array(n), NEW w \in Array(n)
    PROVE  Schoolbook(v, w, n) \in Array(2*n) /\ IsProduct(Schoolbook(v, w, n), v, w)
  <1> DEFINE out == Schoolbook(v, w, n)
             A == Exponents(v)
             B == Exponents(w)
  <1>1. W \in Nat /\ W > 0 /\ n \in Nat
    BY PolyAssumption
  <1>2. out \in Array(2*n)
    <2>1. \A x, y \in Word : xor(x, y) \in Word
      BY DEF xor, Word
    <2> QED BY <2>1 DEF Schoolbook, XorOver, Array, Word
  <1>3. /\ A \subseteq 0..W*n-1 /\ B \subseteq 0..W*n-1 /\ W*n \in Nat
        /\ A \subseteq Nat /\ IsFiniteSet(A)
    BY <1>1, ExponentsOfArray
  <1>4. ASSUME NEW s \in 0..2*n-1, NEW b \in 0..W-1
        PROVE  b \in out[s] <=> Coefficient(A, B, W*s + b)
    <2> DEFINE L == MeetsAt(v, w, s, b)
               H == MeetsAt(v, w, s - 1, b + W)
    <2>1. W*(s - 1) + (b + W) = W*s + b
      BY <1>1
    <2>2. {p \in A : (W*s + b) - p \in B} = L \cup H /\ L \cap H = {}
      <3>1. ASSUME NEW p \in A
            PROVE  \/ b - (p % W) \in 0..W-1 /\ (b + W) - (p % W) \notin 0..W-1
                   \/ b - (p % W) \notin 0..W-1 /\ (b + W) - (p % W) \in 0..W-1
        <4>1. p % W \in 0..W-1
          BY <1>3, Division
        <4> QED BY <1>1, <4>1
      <3> QED BY <2>1, <3>1 DEF MeetsAt
    <2>3. IsFiniteSet(L) /\ IsFiniteSet(H)
      <3>1. L \in SUBSET A /\ H \in SUBSET A
        BY DEF MeetsAt
      <3> QED BY <1>3, <3>1, FS_Subset
    <2> DEFINE PL == {ij \in PairsAt(n, s) : b \in clmul64(v[ij[1]], w[ij[2]]).lo}
               PH == {ij \in PairsAt(n, s - 1) : b \in clmul64(v[ij[1]], w[ij[2]]).hi}
    <2>4. \A ij \in (0..n-1) \X (0..n-1) :
             /\ b \in clmul64(v[ij[1]], w[ij[2]]).lo <=> Odd(MetAt(v[ij[1]], w[ij[2]], b))
             /\ b \in clmul64(v[ij[1]], w[ij[2]]).hi <=> Odd(MetAt(v[ij[1]], w[ij[2]], b + W))
      <3> SUFFICES ASSUME NEW i \in 0..n-1, NEW j \in 0..n-1
                   PROVE  /\ b \in clmul64(v[i], w[j]).lo <=> Odd(MetAt(v[i], w[j], b))
                          /\ b \in clmul64(v[i], w[j]).hi <=> Odd(MetAt(v[i], w[j], b + W))
        OBVIOUS
      <3>1. v[i] \in Word /\ w[j] \in Word
        BY DEF Array
      <3> QED BY <3>1, WordProduct
    <2>5. /\ PL = {ij \in PairsAt(n, s) : Odd(MetAt(v[ij[1]], w[ij[2]], b))}
          /\ PH = {ij \in PairsAt(n, s - 1) : Odd(MetAt(v[ij[1]], w[ij[2]], b + W))}
      <3>1. \A r : PairsAt(n, r) \subseteq (0..n-1) \X (0..n-1)
        BY DEF PairsAt
      <3> HIDE DEF L, H
      <3>2. \A ij \in PairsAt(n, s) :
               b \in clmul64(v[ij[1]], w[ij[2]]).lo <=> Odd(MetAt(v[ij[1]], w[ij[2]], b))
        BY <2>4, <3>1
      <3>3. \A ij \in PairsAt(n, s - 1) :
               b \in clmul64(v[ij[1]], w[ij[2]]).hi <=> Odd(MetAt(v[ij[1]], w[ij[2]], b + W))
        BY <2>4, <3>1
      <3> QED BY <3>2, <3>3
    <2>6. b \in out[s] <=> ~(Odd(PL) <=> Odd(PH))
      BY <1>1, SchoolbookBit
    <2> HIDE DEF L, H, PL, PH, out, A, B
    <2>7. Odd(L) <=> Odd(PL)
      <3>1. s \in Int /\ b \in Int
        BY <1>1
      <3> QED BY <1>1, <2>3, <2>5, <3>1, PairByPair DEF L
    <2>8. Odd(H) <=> Odd(PH)
      <3>1. s - 1 \in Int /\ b + W \in Int
        BY <1>1
      <3> QED BY <1>1, <2>3, <2>5, <3>1, PairByPair DEF H
    <2>9. Odd(L \cup H) <=> ~(Odd(L) <=> Odd(H))
      BY <2>2, <2>3, OddUnion
    <2>10. Coefficient(A, B, W*s + b) <=> Odd(L \cup H)
      BY <2>2 DEF Coefficient
    <2> QED BY <2>6, <2>7, <2>8, <2>9, <2>10
  <1> HIDE DEF out, A, B
  <1>5. ASSUME NEW t \in Int PROVE t \in Exponents(out) <=> Coefficient(A, B, t)
    <2>0. W*(2*n) \in Nat /\ W*(2*n) = W*n + W*n /\ 2*n \in Nat
      BY <1>1
    <2>1. CASE t \in 0..W*(2*n)-1
      <3>1. t \div W \in 0..2*n-1 /\ t % W \in 0..W-1 /\ t = W * (t \div W) + (t % W)
        BY <1>1, <2>0, <2>1, PositionInArray
      <3>2. t \in Exponents(out) <=> t % W \in out[t \div W]
        <4> DEFINE size == 2*n
        <4>1. size \in Nat /\ out \in Array(size) /\ t \div W < size /\ t >= 0
          BY <1>2, <2>0, <2>1, <3>1
        <4> HIDE DEF size
        <4> QED BY <4>1, InExponents
      <3> QED BY <1>4, <3>1, <3>2
    <2>2. CASE t \notin 0..W*(2*n)-1
      <3>1. t \notin Exponents(out)
        BY <1>2, <2>0, <2>2, ExponentsOfArray
      <3>2. t < 0 \/ t >= W*n + W*n
        BY <2>0, <2>2, <1>3
      <3>3. ~Coefficient(A, B, t)
        BY <1>3, <3>2, CoefficientDegree
      <3> QED BY <3>1, <3>3
    <2> QED BY <2>1, <2>2
  <1> QED BY <1>2, <1>5 DEF IsProduct, out, A, B

-----------------------------------------------------------------------------
(* One level of the recursion. *)

\* v0 and v1 are the two halves of the n words v, vs is their sum.
Halved(v, n, h, v0, v1, vs) ==
    /\ v \in Array(n) /\ v0 \in Array(h) /\ v1 \in Array(n - h) /\ vs \in Array(h)
    /\ \A i \in 0..h-1 : v0[i] = v[i]
    /\ \A i \in 0..n-h-1 : v1[i] = v[h + i]
    /\ \A i \in 0..h-1 : vs[i] = IF i < n - h THEN xor(v[i], v[h + i]) ELSE v[i]

\* In terms of exponents: v is v0 + X^(W h) v1, vs is v0 + v1.
LEMMA HalvesOfOperand ==
    ASSUME NEW n \in Nat, NEW h \in Nat, h <= n, n - h <= h,
           NEW v, NEW v0, NEW v1, NEW vs, Halved(v, n, h, v0, v1, vs)
    PROVE  /\ Exponents(v) = xor(Exponents(v0), Shifted(Exponents(v1), W*h))
           /\ Exponents(vs) = xor(Exponents(v0), Exponents(v1))
  <1>1. /\ W \in Nat /\ W > 0 /\ W*h \in Nat /\ n - h \in Nat
        /\ v \in Array(n) /\ v0 \in Array(h) /\ v1 \in Array(n - h) /\ vs \in Array(h)
    BY PolyAssumption DEF Halved
  <1>2. /\ \A i \in 0..h-1 : v0[i] = v[i]
        /\ \A i \in 0..n-h-1 : v1[i] = v[h + i]
        /\ \A i \in 0..h-1 : vs[i] = IF i < n - h THEN xor(v[i], v[h + i]) ELSE v[i]
    BY DEF Halved
  <1>3. /\ Exponents(v) \subseteq Nat /\ Exponents(v0) \subseteq Nat
        /\ Exponents(v1) \subseteq Nat /\ Exponents(vs) \subseteq Nat
    BY <1>1, ExponentsOfArray
  <1>4. Shifted(Exponents(v1), W*h) \subseteq Nat
    BY <1>1, <1>3 DEF Shifted
  <1>5. ASSUME NEW i \in Nat, NEW b \in 0..W-1
        PROVE  /\ W*i + b \in Exponents(v) <=> i \in 0..n-1 /\ b \in v[i]
               /\ W*i + b \in Exponents(v0) <=> i \in 0..h-1 /\ b \in v0[i]
               /\ W*i + b \in Exponents(v1) <=> i \in 0..n-h-1 /\ b \in v1[i]
               /\ W*i + b \in Exponents(vs) <=> i \in 0..h-1 /\ b \in vs[i]
               /\ W*i + b \in Shifted(Exponents(v1), W*h) <=> i - h \in 0..n-h-1 /\ b \in v1[i - h]
    <2>1. /\ W*i + b \in Exponents(v) <=> i \in 0..n-1 /\ b \in v[i]
          /\ W*i + b \in Exponents(v0) <=> i \in 0..h-1 /\ b \in v0[i]
          /\ W*i + b \in Exponents(vs) <=> i \in 0..h-1 /\ b \in vs[i]
      <3>1. i \in Int
        OBVIOUS
      <3>2. W*i + b \in Exponents(v) <=> i \in 0..n-1 /\ b \in v[i]
        BY <1>1, <3>1, InExponentsAt
      <3>3. W*i + b \in Exponents(v0) <=> i \in 0..h-1 /\ b \in v0[i]
        BY <1>1, <3>1, InExponentsAt
      <3>4. W*i + b \in Exponents(vs) <=> i \in 0..h-1 /\ b \in vs[i]
        BY <1>1, <3>1, InExponentsAt
      <3> QED BY <3>2, <3>3, <3>4
    <2>2. \A k \in Int : W*k + b \in Exponents(v1) <=> k \in 0..n-h-1 /\ b \in v1[k]
      BY <1>1, InExponentsAt
    <2>3. W*i + b \in Shifted(Exponents(v1), W*h) <=> (W*i + b) - W*h \in Exponents(v1)
      <3>1. W*i + b \in Int
        BY <1>1
      <3>2. \A q \in Exponents(v1) : q + W*h = W*i + b <=> q = (W*i + b) - W*h
        BY <1>1, <1>3, <3>1
      <3> QED BY <3>2 DEF Shifted
    <2>4. (W*i + b) - W*h = W*(i - h) + b /\ i - h \in Int
      <3>1. \A x, y, z \in Int : z*(x - y) = z*x - z*y
        BY Z3
      <3>2. W*(i - h) = W*i - W*h /\ W*i \in Int
        BY <1>1, <3>1
      <3> QED BY <1>1, <3>2
    <2> QED BY <2>1, <2>2, <2>3, <2>4
  <1>6. ASSUME NEW t \in Nat
        PROVE  /\ t \in Exponents(v) <=> ~(t \in Exponents(v0)
                                            <=> t \in Shifted(Exponents(v1), W*h))
               /\ t \in Exponents(vs) <=> ~(t \in Exponents(v0) <=> t \in Exponents(v1))
    <2> DEFINE i == t \div W
               b == t % W
    <2>1. i \in Nat /\ b \in 0..W-1 /\ t = W*i + b
      BY Division
    <2> HIDE DEF i, b
    <2>2. CASE i < h
      <3>1. i \in 0..h-1 /\ i \in 0..n-1 /\ i - h \notin 0..n-h-1 /\ v0[i] = v[i]
        BY <1>2, <2>1, <2>2
      <3>2. b \in vs[i] <=> ~(b \in v0[i] <=> i \in 0..n-h-1 /\ b \in v1[i])
        <4>1. CASE i < n - h
          <5>1. vs[i] = xor(v0[i], v1[i]) /\ i \in 0..n-h-1
            BY <1>1, <1>2, <2>1, <3>1, <4>1
          <5> QED BY <5>1 DEF xor
        <4>2. CASE ~(i < n - h)
          BY <1>1, <1>2, <2>1, <3>1, <4>2
        <4> QED BY <4>1, <4>2
      <3> QED BY <1>5, <2>1, <3>1, <3>2
    <2>3. CASE i >= h
      <3>1. i \notin 0..h-1 /\ i \notin 0..n-h-1
        BY <1>1, <2>1, <2>3
      <3>2. i \in 0..n-1 <=> i - h \in 0..n-h-1
        BY <1>1, <2>1, <2>3
      <3>3. i - h \in 0..n-h-1 => v1[i - h] = v[i]
        BY <1>1, <1>2, <2>1, <2>3
      <3> QED BY <1>5, <2>1, <3>1, <3>2, <3>3
    <2> QED BY <2>1, <2>2, <2>3
  <1> QED BY <1>3, <1>4, <1>6 DEF xor

\* What Combine makes of the three products is the product of the operands.
LEMMA CombinedProduct ==
    ASSUME NEW n \in Nat, NEW h \in Nat, h <= n, n - h <= h, 3*h <= 2*n,
           NEW v, NEW v0, NEW v1, NEW vs, Halved(v, n, h, v0, v1, vs),
           NEW w, NEW w0, NEW w1, NEW ws, Halved(w, n, h, w0, w1, ws),
           NEW out \in Array(2*n), NEW lo \in Array(2*h), NEW hi \in Array(2*(n - h)),
           NEW mid \in Array(2*h), NEW mid2 \in Array(2*h), NEW new \in Array(2*n),
           \A i \in 0..2*h-1 : lo[i] = out[i],
           \A i \in 0..2*(n - h)-1 : hi[i] = out[2*h + i],
           IsProduct(lo, v0, w0), IsProduct(hi, v1, w1), IsProduct(mid, vs, ws),
           \A i \in 0..2*h-1 : mid2[i] = IF i < 2*(n - h) THEN xor(xor(mid[i], out[i]), out[2*h + i])
                                         ELSE xor(mid[i], out[i]),
           \A i \in 0..2*n-1 : new[i] = IF i - h \in 0..2*h-1 THEN xor(out[i], mid2[i - h])
                                        ELSE out[i]
    PROVE  IsProduct(new, v, w)
  <1> DEFINE A == Exponents(v)
             B == Exponents(w)
             A0 == Exponents(v0)
             A1 == Exponents(v1)
             B0 == Exponents(w0)
             B1 == Exponents(w1)
             H == W*h
             m == W*n
             L == Exponents(lo)
             M == Exponents(mid)
             U == Exponents(hi)
  <1>1. /\ W \in Nat /\ W > 0 /\ H \in Nat /\ m \in Nat /\ n - h \in Nat
    BY PolyAssumption
  <1>2. /\ v \in Array(n) /\ w \in Array(n) /\ v0 \in Array(h) /\ w0 \in Array(h)
        /\ v1 \in Array(n - h) /\ w1 \in Array(n - h)
    BY DEF Halved
  <1>3. /\ A \in SUBSET (0..m-1) /\ B \in SUBSET (0..m-1)
        /\ A0 \in SUBSET (0..m-1) /\ B0 \in SUBSET (0..m-1)
        /\ A1 \in SUBSET (0..m-1) /\ B1 \in SUBSET (0..m-1)
    <2>1. \A k \in Nat : k <= n => W*k <= m
      <3>1. \A x, y, z \in Nat : x <= y => z * x <= z * y
        BY Z3
      <3> QED BY <1>1, <3>1
    <2>2. W*h \in Nat /\ W*(n - h) \in Nat /\ W*h <= m /\ W*(n - h) <= m
      BY <1>1, <2>1
    <2>3. A0 \subseteq 0..W*h-1 /\ B0 \subseteq 0..W*h-1
      BY <1>2, ExponentsOfArray
    <2>4. A1 \subseteq 0..W*(n-h)-1 /\ B1 \subseteq 0..W*(n-h)-1
      BY <1>1, <1>2, ExponentsOfArray
    <2>5. A \subseteq 0..m-1 /\ B \subseteq 0..m-1
      BY <1>2, ExponentsOfArray
    <2> HIDE DEF A, B, A0, A1, B0, B1, m
    <2> QED BY <1>1, <2>2, <2>3, <2>4, <2>5
  <1>4. /\ A = xor(A0, Shifted(A1, H)) /\ Exponents(vs) = xor(A0, A1)
        /\ B = xor(B0, Shifted(B1, H)) /\ Exponents(ws) = xor(B0, B1)
    BY HalvesOfOperand
  <1>5. \A t \in Int : /\ t \in L <=> Coefficient(A0, B0, t)
                       /\ t \in U <=> Coefficient(A1, B1, t)
                       /\ t \in M <=> Coefficient(xor(A0, A1), xor(B0, B1), t)
    BY <1>4 DEF IsProduct
  <1> HIDE DEF A, B, A0, A1, B0, B1
  <1>6. ASSUME NEW t \in Int
        PROVE  Coefficient(A, B, t)
                 <=> ~(~(t \in L <=> t - 2*H \in U)
                       <=> ~(~(t - H \in M <=> t - H \in L) <=> t - H \in U))
    <2>1. t - H \in Int /\ t - 2*H \in Int
      BY <1>1
    <2>2. Coefficient(A, B, t)
            <=> ~(~(Coefficient(A0, B0, t) <=> Coefficient(A1, B1, t - 2*H))
                  <=> ~(~(Coefficient(xor(A0, A1), xor(B0, B1), t - H)
                            <=> Coefficient(A0, B0, t - H))
                        <=> Coefficient(A1, B1, t - H)))
      <3>1. H \in Nat /\ m \in Nat
        BY <1>1
      <3> HIDE DEF H, m, L, U, M
      <3>2. Coefficient(xor(A0, Shifted(A1, H)), xor(B0, Shifted(B1, H)), t)
              <=> ~(~(Coefficient(A0, B0, t) <=> Coefficient(A1, B1, t - 2*H))
                    <=> ~(~(Coefficient(xor(A0, A1), xor(B0, B1), t - H)
                              <=> Coefficient(A0, B0, t - H))
                          <=> Coefficient(A1, B1, t - H)))
        BY <1>3, <3>1, KaratsubaIdentity
      <3> QED BY <1>4, <3>2
    <2> HIDE DEF H, L, U, M
    <2> QED BY <1>5, <2>1, <2>2
  <1>7. ASSUME NEW k \in Int, NEW b \in 0..W-1
        PROVE  /\ W*k + b \in L <=> k \in 0..2*h-1 /\ b \in lo[k]
               /\ W*k + b \in M <=> k \in 0..2*h-1 /\ b \in mid[k]
               /\ W*k + b \in U <=> k \in 0..2*(n - h)-1 /\ b \in hi[k]
    <2>1. 2*h \in Nat /\ 2*(n - h) \in Nat
      BY <1>1
    <2> QED BY <2>1, InExponentsAt
  <1>8. ASSUME NEW s \in 0..2*n-1, NEW b \in 0..W-1
        PROVE  b \in new[s] <=> Coefficient(A, B, W*s + b)
    <2> DEFINE t == W*s + b
    <2>1. t \in Int /\ t - H = W*(s - h) + b /\ t - 2*H = W*(s - 2*h) + b
          /\ s - h \in Int /\ s - 2*h \in Int
      <3>1. \A x, y, z \in Int : z*(x - y) = z*x - z*y /\ z*(x - 2*y) = z*x - 2*(z*y)
        BY Z3
      <3>2. s \in Int /\ h \in Int /\ W \in Int /\ W*s \in Int /\ W*h \in Int
        BY <1>1
      <3>3. W*(s - h) = W*s - W*h /\ W*(s - 2*h) = W*s - 2*(W*h)
        BY <3>1, <3>2
      <3> QED BY <1>1, <3>2, <3>3
    <2> HIDE DEF t, H, L, U, M
    <2>2. /\ t \in L <=> s \in 0..2*h-1 /\ b \in lo[s]
          /\ t - 2*H \in U <=> s - 2*h \in 0..2*(n - h)-1 /\ b \in hi[s - 2*h]
          /\ t - H \in M <=> s - h \in 0..2*h-1 /\ b \in mid[s - h]
          /\ t - H \in L <=> s - h \in 0..2*h-1 /\ b \in lo[s - h]
          /\ t - H \in U <=> s - h \in 0..2*(n - h)-1 /\ b \in hi[s - h]
      BY <1>7, <2>1 DEF t
    <2>3. b \in out[s] <=> ~(t \in L <=> t - 2*H \in U)
      <3>1. CASE s < 2*h
        <4>1. s \in 0..2*h-1 /\ s - 2*h \notin 0..2*(n - h)-1 /\ lo[s] = out[s]
          BY <1>1, <3>1
        <4> QED BY <2>2, <4>1
      <3>2. CASE s >= 2*h
        <4>1. s \notin 0..2*h-1 /\ s - 2*h \in 0..2*(n - h)-1 /\ 2*h + (s - 2*h) = s
          BY <1>1, <3>2
        <4>2. hi[s - 2*h] = out[s]
          BY <4>1
        <4> QED BY <2>2, <4>1, <4>2
      <3> QED BY <3>1, <3>2
    <2>4. CASE s - h \in 0..2*h-1
      <3> DEFINE j == s - h
      <3>1. j \in 0..2*h-1 /\ lo[j] = out[j] /\ new[s] = xor(out[s], mid2[j])
        BY <2>4
      <3> HIDE DEF j
      <3>2. b \in mid2[j] <=>
               ~(~(b \in mid[j] <=> b \in lo[j]) <=> (j \in 0..2*(n - h)-1 /\ b \in hi[j]))
        <4>1. CASE j < 2*(n - h)
          <5>1. j \in 0..2*(n - h)-1 /\ hi[j] = out[2*h + j]
            BY <1>1, <3>1, <4>1
          <5>2. mid2[j] = xor(xor(mid[j], lo[j]), hi[j])
            BY <3>1, <4>1, <5>1
          <5> QED BY <5>1, <5>2 DEF xor
        <4>2. CASE ~(j < 2*(n - h))
          <5>1. j \notin 0..2*(n - h)-1 /\ mid2[j] = xor(mid[j], lo[j])
            BY <1>1, <3>1, <4>2
          <5> QED BY <5>1 DEF xor
        <4> QED BY <4>1, <4>2
      <3>3. b \in mid2[j] <=> ~(~(t - H \in M <=> t - H \in L) <=> t - H \in U)
        BY <2>2, <3>1, <3>2 DEF j
      <3>4. b \in new[s] <=> ~(b \in out[s] <=> b \in mid2[j])
        BY <3>1 DEF xor
      <3>5. b \in new[s] <=> ~(~(t \in L <=> t - 2*H \in U)
                               <=> ~(~(t - H \in M <=> t - H \in L) <=> t - H \in U))
        BY <2>3, <3>3, <3>4
      <3> QED BY <1>6, <2>1, <3>5 DEF t
    <2>5. CASE s - h \notin 0..2*h-1
      <3>1. new[s] = out[s] /\ s - h \notin 0..2*(n - h)-1
        BY <1>1, <2>5
      <3>2. t - H \notin M /\ t - H \notin L /\ t - H \notin U
        BY <2>2, <2>5, <3>1
      <3> QED BY <1>6, <2>1, <2>3, <3>1, <3>2 DEF t
    <2> QED BY <2>4, <2>5
  <1>9. ASSUME NEW t \in Int PROVE t \in Exponents(new) <=> Coefficient(A, B, t)
    <2> DEFINE size == 2*n
    <2>0. size \in Nat /\ new \in Array(size) /\ W*size \in Nat /\ W*size = m + m /\ size = 2*n
      BY <1>1
    <2> HIDE DEF size
    <2>1. CASE t \in 0..W*size-1
      <3>1. t \div W \in 0..size-1 /\ t % W \in 0..W-1 /\ t = W * (t \div W) + (t % W)
        BY <2>0, <2>1, PositionInArray
      <3>2. t \in Exponents(new) <=> t % W \in new[t \div W]
        <4>1. t \div W < size /\ t >= 0
          BY <2>0, <2>1, <3>1
        <4> QED BY <2>0, <4>1, InExponents
      <3> QED BY <1>8, <2>0, <3>1, <3>2
    <2>2. CASE t \notin 0..W*size-1
      <3>1. t \notin Exponents(new)
        BY <2>0, <2>2, ExponentsOfArray
      <3>2. t < 0 \/ t >= m + m
        BY <2>0, <2>2
      <3>3. ~Coefficient(A, B, t)
        <4> HIDE DEF m
        <4> QED BY <1>1, <1>3, <3>2, CoefficientDegree
      <3> QED BY <3>1, <3>3
    <2> QED BY <2>1, <2>2
  <1> QED BY <1>9 DEF IsProduct, A, B

-----------------------------------------------------------------------------
(* Slices of a memory. *)

Memory == [a : Array(MaxWords), b : Array(MaxWords),
           acc : Array(WideWords), scratch : Array(ScratchWords)]

Room(of) == CASE of = "acc" -> WideWords
              [] of = "scratch" -> ScratchWords
              [] OTHER -> MaxWords

Inside(s, n) == s.at + n <= Room(s.of)

\* Words(s, n) of the memory m.
WordsIn(m, s, n) == [i \in 0..n-1 |-> m[s.of][s.at + i]]

Disjoint(s, n, r, k) == s.of # r.of \/ s.at + n <= r.at \/ r.at + k <= s.at

LEMMA RoomTypes ==
    /\ WideWords \in Nat /\ ScratchWords \in Nat /\ MaxWords \in Nat
    /\ \A of : Room(of) \in Nat
  BY PolyAssumption, RingMulAssumption DEF Room, WideWords, ScratchWords

LEMMA MemoryEntries ==
    ASSUME NEW m \in Memory, NEW of \in {"a", "b", "acc", "scratch"}
    PROVE  m[of] \in Array(Room(of))
  BY DEF Memory, Room

LEMMA WordsInType ==
    ASSUME NEW m \in Memory, NEW s \in Slice, NEW n \in Nat, Inside(s, n)
    PROVE  WordsIn(m, s, n) \in Array(n)
  <1>1. m[s.of] \in [0..Room(s.of)-1 -> Word]
    BY MemoryEntries DEF Slice, Array
  <1>2. Room(s.of) \in Nat /\ s.at \in Nat
    BY RoomTypes DEF Slice
  <1>3. ASSUME NEW i \in 0..n-1 PROVE m[s.of][s.at + i] \in Word
    <2>1. s.at + i \in 0..Room(s.of)-1
      BY <1>2 DEF Inside
    <2> QED BY <1>1, <2>1
  <1> QED BY <1>3 DEF WordsIn, Array

\* What a write changes.
LEMMA StoredEntries ==
    ASSUME NEW m \in Memory, NEW s \in Slice, NEW n \in Nat, Inside(s, n), NEW ws \in Array(n)
    PROVE  /\ Stored(m, s, ws) \in Memory
           /\ \A of \in {"a", "b", "acc", "scratch"}, at \in Nat :
                at < Room(of) =>
                    Stored(m, s, ws)[of][at] =
                        IF of = s.of /\ at - s.at \in 0..n-1 THEN ws[at - s.at] ELSE m[of][at]
  <1> DEFINE new == [i \in DOMAIN m[s.of] |->
                        IF i - s.at \in DOMAIN ws THEN ws[i - s.at] ELSE m[s.of][i]]
  <1>1. /\ s.of \in {"a", "b", "acc", "scratch"} /\ s.at \in Nat /\ DOMAIN ws = 0..n-1
        /\ \A i \in 0..n-1 : ws[i] \in Word
    BY DEF Slice, Array
  <1>2. \A of \in {"a", "b", "acc", "scratch"} :
           m[of] \in [0..Room(of)-1 -> Word] /\ DOMAIN m[of] = 0..Room(of)-1
    BY MemoryEntries DEF Array
  <1>3. Stored(m, s, ws) = [m EXCEPT ![s.of] = new]
    BY DEF Stored
  <1>4. new \in Array(Room(s.of))
    <2>1. DOMAIN m[s.of] = 0..Room(s.of)-1 /\ \A i \in 0..Room(s.of)-1 : m[s.of][i] \in Word
      BY <1>1, <1>2
    <2>2. \A i \in 0..Room(s.of)-1 :
             (IF i - s.at \in DOMAIN ws THEN ws[i - s.at] ELSE m[s.of][i]) \in Word
      BY <1>1, <2>1
    <2> QED BY <2>1, <2>2 DEF Array
  <1>5. \A at \in 0..Room(s.of)-1 :
           new[at] = IF at - s.at \in 0..n-1 THEN ws[at - s.at] ELSE m[s.of][at]
    BY <1>1, <1>2
  <1> HIDE DEF new
  <1>6. [m EXCEPT ![s.of] = new] \in Memory
    <2>1. CASE s.of = "a"
      BY <1>4, <2>1 DEF Memory, Room
    <2>2. CASE s.of = "b"
      BY <1>4, <2>2 DEF Memory, Room
    <2>3. CASE s.of = "acc"
      BY <1>4, <2>3 DEF Memory, Room
    <2>4. CASE s.of = "scratch"
      BY <1>4, <2>4 DEF Memory, Room
    <2> QED BY <1>1, <2>1, <2>2, <2>3, <2>4
  <1>7. DOMAIN m = {"a", "b", "acc", "scratch"}
    BY DEF Memory
  <1>8. \A of \in {"a", "b", "acc", "scratch"} :
           [m EXCEPT ![s.of] = new][of] = IF of = s.of THEN new ELSE m[of]
    BY <1>1, <1>7
  <1>9. ASSUME NEW of \in {"a", "b", "acc", "scratch"}, NEW at \in Nat, at < Room(of)
        PROVE  Stored(m, s, ws)[of][at] =
                   IF of = s.of /\ at - s.at \in 0..n-1 THEN ws[at - s.at] ELSE m[of][at]
    <2>1. at \in 0..Room(of)-1
      BY <1>9, RoomTypes
    <2>2. CASE of = s.of
      BY <1>3, <1>5, <1>8, <2>1, <2>2
    <2>3. CASE of # s.of
      BY <1>3, <1>8, <2>3
    <2> QED BY <2>2, <2>3
  <1> QED BY <1>3, <1>6, <1>9

\* A slice that a write does not meet reads as before; the slice written
\* reads as what was written.
LEMMA ReadOther ==
    ASSUME NEW m \in Memory, NEW s \in Slice, NEW n \in Nat, Inside(s, n), NEW ws \in Array(n),
           NEW r \in Slice, NEW k \in Nat, Inside(r, k), Disjoint(r, k, s, n)
    PROVE  WordsIn(Stored(m, s, ws), r, k) = WordsIn(m, r, k)
  <1> SUFFICES ASSUME NEW i \in 0..k-1
               PROVE  Stored(m, s, ws)[r.of][r.at + i] = m[r.of][r.at + i]
    BY DEF WordsIn
  <1>1. /\ r.of \in {"a", "b", "acc", "scratch"} /\ r.at \in Nat /\ s.at \in Nat
        /\ Room(r.of) \in Nat
    BY RoomTypes DEF Slice
  <1>2. r.at + i \in Nat /\ r.at + i < Room(r.of)
    BY <1>1 DEF Inside
  <1>3. ~(r.of = s.of /\ (r.at + i) - s.at \in 0..n-1)
    BY <1>1 DEF Disjoint
  <1>4. Stored(m, s, ws)[r.of][r.at + i] =
           IF r.of = s.of /\ (r.at + i) - s.at \in 0..n-1 THEN ws[(r.at + i) - s.at]
           ELSE m[r.of][r.at + i]
    BY <1>1, <1>2, StoredEntries
  <1> QED BY <1>3, <1>4

LEMMA ReadBack ==
    ASSUME NEW m \in Memory, NEW s \in Slice, NEW n \in Nat, Inside(s, n), NEW ws \in Array(n)
    PROVE  WordsIn(Stored(m, s, ws), s, n) = ws
  <1>1. /\ s.of \in {"a", "b", "acc", "scratch"} /\ s.at \in Nat /\ Room(s.of) \in Nat
        /\ ws = [i \in 0..n-1 |-> ws[i]]
    BY RoomTypes DEF Slice, Array
  <1>2. ASSUME NEW i \in 0..n-1 PROVE Stored(m, s, ws)[s.of][s.at + i] = ws[i]
    <2>1. s.at + i \in Nat /\ s.at + i < Room(s.of) /\ (s.at + i) - s.at = i
      BY <1>1 DEF Inside
    <2>2. Stored(m, s, ws)[s.of][s.at + i] =
             IF s.of = s.of /\ (s.at + i) - s.at \in 0..n-1 THEN ws[(s.at + i) - s.at]
             ELSE m[s.of][s.at + i]
      <3>1. s.of \in {"a", "b", "acc", "scratch"}
        BY <1>1
      <3> QED BY <2>1, <3>1, StoredEntries
    <2> QED BY <2>1, <2>2
  <1> QED BY <1>1, <1>2 DEF WordsIn

\* A part of a slice.
LEMMA ReadPart ==
    ASSUME NEW m, NEW s \in Slice, NEW n \in Nat, NEW j \in Nat, NEW k \in Nat, j + k <= n
    PROVE  /\ From(s, j) \in Slice
           /\ Inside(s, n) => Inside(From(s, j), k)
           /\ \A i \in 0..k-1 : WordsIn(m, From(s, j), k)[i] = WordsIn(m, s, n)[j + i]
  <1>1. /\ s.of \in {"a", "b", "acc", "scratch"} /\ s.at \in Nat /\ Room(s.of) \in Nat
        /\ From(s, j).of = s.of /\ From(s, j).at = s.at + j
    BY RoomTypes DEF Slice, From, At
  <1>2. From(s, j) \in Slice
    BY <1>1 DEF Slice, From, At
  <1>3. Inside(s, n) => Inside(From(s, j), k)
    BY <1>1 DEF Inside
  <1>4. ASSUME NEW i \in 0..k-1 PROVE WordsIn(m, From(s, j), k)[i] = WordsIn(m, s, n)[j + i]
    <2>1. WordsIn(m, From(s, j), k)[i] = m[s.of][(s.at + j) + i]
      BY <1>1 DEF WordsIn
    <2>2. WordsIn(m, s, n)[j + i] = m[s.of][s.at + (j + i)]
      BY DEF WordsIn
    <2>3. (s.at + j) + i = s.at + (j + i)
      BY <1>1
    <2> QED BY <2>1, <2>2, <2>3
  <1> QED BY <1>2, <1>3, <1>4

-----------------------------------------------------------------------------
(* What a call may write, and what it leaves alone. *)

\* A call writes its output and the arena from its mark on; the n words at s
\* lie elsewhere.
Outside(s, n, c) ==
    /\ Disjoint(s, n, c.out, 2*c.n)
    /\ s.of = "scratch" => s.at + n <= c.arena

Within(d, c) == \A s \in Slice, n \in Nat : Outside(s, n, c) => Outside(s, n, d)

\* A call does not write its own operands, and its output is not in the part
\* of the arena it may use.
Placed(c) ==
    /\ Outside(c.a, c.n, c) /\ Outside(c.b, c.n, c)
    /\ c.out.of = "scratch" => c.out.at + 2*c.n <= c.arena

Sized(c) ==
    /\ c \in CallSet
    /\ Inside(c.out, 2*c.n) /\ Inside(c.a, c.n) /\ Inside(c.b, c.n)

\* A call that may split: it is above the threshold and has room for it.
Roomy(c) == Sized(c) /\ c.n > Threshold /\ c.arena + 4*Half(c) <= ScratchWords

\* The slices of a call, in numbers.
LEMMA CallNumbers ==
    ASSUME NEW c, Roomy(c)
    PROVE  /\ c \in CallSet /\ Half(c) \in Nat \ {0} /\ c.n \in Nat \ {0} /\ c.arena \in Nat
           /\ c.n - Half(c) \in Nat \ {0} /\ c.n - Half(c) <= Half(c) /\ Half(c) <= c.n
           /\ c.n <= 2*Half(c) /\ 2*Half(c) <= c.n + 1 /\ 3*Half(c) <= 2*c.n
           /\ c.out \in Slice /\ c.a \in Slice /\ c.b \in Slice
           /\ SumA(c) \in Slice /\ SumB(c) \in Slice /\ Mid(c) \in Slice
           /\ SumA(c).of = "scratch" /\ SumB(c).of = "scratch" /\ Mid(c).of = "scratch"
           /\ SumA(c).at = c.arena /\ SumB(c).at = c.arena + Half(c)
           /\ Mid(c).at = c.arena + 2*Half(c) /\ Sub(c) = c.arena + 4*Half(c)
           /\ Inside(SumA(c), Half(c)) /\ Inside(SumB(c), Half(c)) /\ Inside(Mid(c), 2*Half(c))
  <1>1. c \in CallSet /\ c.n > Threshold /\ c.arena + 4*Half(c) <= ScratchWords
    BY DEF Roomy, Sized
  <1>2. /\ Half(c) \in Nat \ {0} /\ c.n - Half(c) \in Nat \ {0} /\ c.n - Half(c) <= Half(c)
        /\ c.n <= 2*Half(c) /\ 2*Half(c) <= c.n + 1 /\ 3*Half(c) <= 2*c.n
    BY <1>1, HalfFacts
  <1>3. /\ c.out \in Slice /\ c.a \in Slice /\ c.b \in Slice /\ c.n \in Nat \ {0} /\ c.arena \in Nat
    BY <1>1 DEF CallSet
  <1>4. /\ SumA(c).of = "scratch" /\ SumB(c).of = "scratch" /\ Mid(c).of = "scratch"
        /\ SumA(c).at = c.arena /\ SumB(c).at = c.arena + Half(c)
        /\ Mid(c).at = c.arena + 2*Half(c) /\ Sub(c) = c.arena + 4*Half(c)
    BY DEF SumA, SumB, Mid, Sub, At
  <1>5. SumA(c) \in Slice /\ SumB(c) \in Slice /\ Mid(c) \in Slice
    BY <1>2, <1>3 DEF SumA, SumB, Mid, At, Slice
  <1>6. Room("scratch") = ScratchWords
    BY DEF Room
  <1>7. Inside(SumA(c), Half(c)) /\ Inside(SumB(c), Half(c)) /\ Inside(Mid(c), 2*Half(c))
    BY <1>1, <1>2, <1>3, <1>4, <1>6, RoomTypes DEF Inside
  <1>8. Half(c) <= c.n
    BY <1>2, <1>3
  <1> QED BY <1>1, <1>2, <1>3, <1>4, <1>5, <1>7, <1>8

LEMMA WithinItself == ASSUME NEW c PROVE Within(c, c)
  BY DEF Within

\* A part of a slice outside a call is outside it.
LEMMA PartOutside ==
    ASSUME NEW c \in CallSet, NEW s \in Slice, NEW n \in Nat, Outside(s, n, c),
           NEW j \in Nat, NEW k \in Nat, j + k <= n
    PROVE  Outside(From(s, j), k, c)
  <1>1. /\ s.at \in Nat /\ c.out.at \in Nat /\ c.n \in Nat /\ c.arena \in Nat
        /\ From(s, j).of = s.of /\ From(s, j).at = s.at + j
    BY DEF Slice, CallSet, From, At
  <1> QED BY <1>1 DEF Outside, Disjoint

\* The callees of a call write no more than it may, and leave their own
\* operands alone.
LEMMA CalleeWithin ==
    ASSUME NEW c, Roomy(c), Placed(c), NEW d \in {Low(c), High(c), Middle(c)}
    PROVE  Within(d, c) /\ Placed(d)
  <1> DEFINE h == Half(c)
  <1>1. /\ c \in CallSet /\ h \in Nat \ {0} /\ c.n \in Nat \ {0} /\ c.arena \in Nat
        /\ c.n - h \in Nat \ {0} /\ c.n - h <= h /\ h <= c.n
        /\ SumA(c) \in Slice /\ SumB(c) \in Slice /\ Mid(c) \in Slice
        /\ SumA(c).of = "scratch" /\ SumB(c).of = "scratch" /\ Mid(c).of = "scratch"
        /\ SumA(c).at = c.arena /\ SumB(c).at = c.arena + h
        /\ Mid(c).at = c.arena + 2*h /\ Sub(c) = c.arena + 4*h
    BY CallNumbers
  <1>2. c.out.at \in Nat /\ c.a.at \in Nat /\ c.b.at \in Nat
    BY <1>1 DEF CallSet, Slice
  <1>3. Outside(c.a, c.n, c) /\ Outside(c.b, c.n, c)
        /\ (c.out.of = "scratch" => c.out.at + 2*c.n <= c.arena)
    BY DEF Placed
  <1>4. Within(d, c)
    <2> SUFFICES ASSUME NEW s \in Slice, NEW n \in Nat, Outside(s, n, c)
                 PROVE  Outside(s, n, d)
      BY DEF Within
    <2>1. s.at \in Nat
      BY DEF Slice
    <2> HIDE DEF h
    <2>2. CASE d = Low(c)
      <3>1. d.out = c.out /\ d.n = h /\ d.arena = c.arena + 4*h
        BY <1>1, <2>2 DEF Low, Call, h
      <3> QED BY <1>1, <1>2, <2>1, <3>1 DEF Outside, Disjoint
    <2>3. CASE d = High(c)
      <3>1. d.out.of = c.out.of /\ d.out.at = c.out.at + 2*h /\ d.n = c.n - h
            /\ d.arena = c.arena + 4*h
        BY <1>1, <2>3 DEF High, Call, From, At, h
      <3> QED BY <1>1, <1>2, <2>1, <3>1 DEF Outside, Disjoint
    <2>4. CASE d = Middle(c)
      <3>1. d.out = Mid(c) /\ d.n = h /\ d.arena = c.arena + 4*h
        BY <1>1, <2>4 DEF Middle, Call, h
      <3> QED BY <1>1, <1>2, <2>1, <3>1 DEF Outside, Disjoint
    <2> QED BY <2>2, <2>3, <2>4
  <1>5. Placed(d)
    <2> HIDE DEF h
    <2>1. CASE d = Low(c)
      <3>1. d.out = c.out /\ d.a = c.a /\ d.b = c.b /\ d.n = h /\ d.arena = c.arena + 4*h
        BY <1>1, <2>1 DEF Low, Call, h
      <3> QED BY <1>1, <1>2, <1>3, <3>1 DEF Placed, Outside, Disjoint
    <2>2. CASE d = High(c)
      <3>1. /\ d.out.of = c.out.of /\ d.out.at = c.out.at + 2*h /\ d.n = c.n - h
            /\ d.a.of = c.a.of /\ d.a.at = c.a.at + h /\ d.b.of = c.b.of /\ d.b.at = c.b.at + h
            /\ d.arena = c.arena + 4*h
        BY <1>1, <2>2 DEF High, Call, From, At, h
      <3> QED BY <1>1, <1>2, <1>3, <3>1 DEF Placed, Outside, Disjoint
    <2>3. CASE d = Middle(c)
      <3>1. d.out = Mid(c) /\ d.a = SumA(c) /\ d.b = SumB(c) /\ d.n = h /\ d.arena = c.arena + 4*h
        BY <1>1, <2>3 DEF Middle, Call, h
      <3> QED BY <1>1, <1>2, <1>3, <3>1 DEF Placed, Outside, Disjoint
    <2> QED BY <2>1, <2>2, <2>3
  <1> QED BY <1>4, <1>5

-----------------------------------------------------------------------------
(* What a call has computed. *)

HoldsIn(m, out, a, b, n) == IsProduct(WordsIn(m, out, 2*n), WordsIn(m, a, n), WordsIn(m, b, n))

Returned(m, d) == HoldsIn(m, d.out, d.a, d.b, d.n)

SumIn(m, s, c) ==
    [i \in 0..Half(c)-1 |->
        IF i < c.n - Half(c) THEN xor(WordsIn(m, s, c.n)[i], WordsIn(m, s, c.n)[Half(c) + i])
        ELSE WordsIn(m, s, c.n)[i]]

SumsHold(m, c) ==
    /\ WordsIn(m, SumA(c), Half(c)) = SumIn(m, c.a, c)
    /\ WordsIn(m, SumB(c), Half(c)) = SumIn(m, c.b, c)

\* What a call must find again while the callee that "next" follows runs ...
Kept(m, c) ==
    /\ c.next # "start" => SumsHold(m, c)
    /\ c.next \in {"middle", "combine"} => Returned(m, Low(c))
    /\ c.next = "combine" => Returned(m, High(c))

Callee(c) == CASE c.next = "high" -> Low(c)
               [] c.next = "middle" -> High(c)
               [] OTHER -> Middle(c)

\* m2 is m but for what the call c may have written.
Frame(m, m2, c) ==
    \A s \in Slice, n \in Nat :
        Inside(s, n) /\ Outside(s, n, c) => WordsIn(m2, s, n) = WordsIn(m, s, n)

LEMMA FrameWithin ==
    ASSUME NEW m, NEW m2, NEW c, NEW d, Frame(m, m2, d), Within(d, c)
    PROVE  Frame(m, m2, c)
  BY DEF Frame, Within

\* ... and finds again.
LEMMA KeptSurvives ==
    ASSUME NEW m, NEW m2, NEW c, Roomy(c), Placed(c), c.next # "start",
           Frame(m, m2, Callee(c)), Kept(m, c)
    PROVE  Kept(m2, c)
  <1> DEFINE h == Half(c)
             d == Callee(c)
  <1>1. /\ c \in CallSet /\ h \in Nat \ {0} /\ c.n \in Nat \ {0} /\ c.arena \in Nat
        /\ c.n - h \in Nat \ {0} /\ c.n - h <= h /\ h <= c.n
        /\ c.out \in Slice /\ c.a \in Slice /\ c.b \in Slice
        /\ SumA(c) \in Slice /\ SumB(c) \in Slice /\ Mid(c) \in Slice
        /\ SumA(c).of = "scratch" /\ SumB(c).of = "scratch" /\ Mid(c).of = "scratch"
        /\ SumA(c).at = c.arena /\ SumB(c).at = c.arena + h
        /\ Mid(c).at = c.arena + 2*h /\ Sub(c) = c.arena + 4*h
        /\ Inside(SumA(c), h) /\ Inside(SumB(c), h) /\ Inside(Mid(c), 2*h)
    BY CallNumbers
  <1>2. Inside(c.out, 2*c.n) /\ Inside(c.a, c.n) /\ Inside(c.b, c.n)
    BY DEF Roomy, Sized
  <1>3. c.out.at \in Nat /\ c.a.at \in Nat /\ c.b.at \in Nat
    BY <1>1 DEF Slice
  <1>4. d \in {Low(c), High(c), Middle(c)}
    BY DEF Callee
  <1>5. Within(d, c)
    BY <1>4, CalleeWithin
  <1>6. \A s \in Slice, n \in Nat :
           Inside(s, n) /\ Outside(s, n, d) => WordsIn(m2, s, n) = WordsIn(m, s, n)
    BY DEF Frame
  <1>7. Outside(c.a, c.n, d) /\ Outside(c.b, c.n, d)
    BY <1>1, <1>5 DEF Within, Placed
  <1>8. WordsIn(m2, c.a, c.n) = WordsIn(m, c.a, c.n) /\ WordsIn(m2, c.b, c.n) = WordsIn(m, c.b, c.n)
    BY <1>1, <1>2, <1>6, <1>7
  <1>9. Outside(SumA(c), h, d) /\ Outside(SumB(c), h, d)
    <2> HIDE DEF h
    <2>1. c.out.of = "scratch" => c.out.at + 2*c.n <= c.arena
      BY DEF Placed
    <2>2. d.arena = c.arena + 4*h
      BY <1>1, <1>4 DEF Low, High, Middle, Call
    <2>3. \/ d.out = c.out /\ d.n = h
          \/ d.out.of = c.out.of /\ d.out.at = c.out.at + 2*h /\ d.n = c.n - h
          \/ d.out = Mid(c) /\ d.n = h
      BY <1>4 DEF Low, High, Middle, Call, From, At, h
    <2> HIDE DEF d
    <2> QED BY <1>1, <1>3, <2>1, <2>2, <2>3 DEF Outside, Disjoint
  <1>10. WordsIn(m2, SumA(c), h) = WordsIn(m, SumA(c), h)
         /\ WordsIn(m2, SumB(c), h) = WordsIn(m, SumB(c), h)
    <2> HIDE DEF h, d
    <2> QED BY <1>1, <1>6, <1>9
  <1>11. SumsHold(m2, c)
    <2>1. SumsHold(m, c)
      BY DEF Kept
    <2>2. SumIn(m2, c.a, c) = SumIn(m, c.a, c) /\ SumIn(m2, c.b, c) = SumIn(m, c.b, c)
      BY <1>8 DEF SumIn
    <2> QED BY <1>10, <2>1, <2>2 DEF SumsHold
  \* The parts of the operands.
  <1>12. /\ WordsIn(m2, c.a, h) = WordsIn(m, c.a, h) /\ WordsIn(m2, c.b, h) = WordsIn(m, c.b, h)
         /\ WordsIn(m2, From(c.a, h), c.n - h) = WordsIn(m, From(c.a, h), c.n - h)
         /\ WordsIn(m2, From(c.b, h), c.n - h) = WordsIn(m, From(c.b, h), c.n - h)
    <2> SUFFICES ASSUME NEW s \in {c.a, c.b}
                 PROVE  /\ WordsIn(m2, s, h) = WordsIn(m, s, h)
                        /\ WordsIn(m2, From(s, h), c.n - h) = WordsIn(m, From(s, h), c.n - h)
      BY Zenon
    <2> HIDE DEF h, d
    <2>0. s \in Slice /\ WordsIn(m2, s, c.n) = WordsIn(m, s, c.n)
      BY <1>1, <1>8
    <2>1. ASSUME NEW i \in 0..c.n-1 PROVE m2[s.of][s.at + i] = m[s.of][s.at + i]
      BY <2>0, <2>1 DEF WordsIn
    <2>2. s.at \in Nat
      BY <2>0 DEF Slice
    <2>3. \A i \in 0..h-1 : i \in 0..c.n-1
      BY <1>1
    <2>4. \A i \in 0..c.n-h-1 : h + i \in 0..c.n-1 /\ (s.at + h) + i = s.at + (h + i)
      BY <1>1, <2>2
    <2>5. WordsIn(m2, s, h) = WordsIn(m, s, h)
      BY <2>1, <2>3 DEF WordsIn
    <2>6. From(s, h).of = s.of /\ From(s, h).at = s.at + h
      BY DEF From, At
    <2>7. WordsIn(m2, From(s, h), c.n - h) = WordsIn(m, From(s, h), c.n - h)
      BY <2>1, <2>4, <2>6 DEF WordsIn
    <2> QED BY <2>5, <2>7
  <1>13. c.next \in {"middle", "combine"} => Returned(m2, Low(c))
    <2> SUFFICES ASSUME c.next \in {"middle", "combine"} PROVE Returned(m2, Low(c))
      OBVIOUS
    <2>1. Returned(m, Low(c))
      BY DEF Kept
    <2>2. d = High(c) \/ d = Middle(c)
      BY DEF Callee
    <2> HIDE DEF h
    <2>3. Inside(c.out, 2*h)
      BY <1>1, <1>2, <1>3, RoomTypes DEF Inside
    <2>4. Outside(c.out, 2*h, d)
      <3>1. c.out.of = "scratch" => c.out.at + 2*c.n <= c.arena
        BY DEF Placed
      <3>2. d.arena = c.arena + 4*h
        BY <1>1, <1>4 DEF Low, High, Middle, Call
      <3>3. \/ d.out.of = c.out.of /\ d.out.at = c.out.at + 2*h /\ d.n = c.n - h
            \/ d.out = Mid(c) /\ d.n = h
        BY <2>2 DEF High, Middle, Call, From, At, h
      <3> HIDE DEF d
      <3> QED BY <1>1, <1>3, <3>1, <3>2, <3>3 DEF Outside, Disjoint
    <2>5. WordsIn(m2, c.out, 2*h) = WordsIn(m, c.out, 2*h)
      <3>1. 2*h \in Nat
        BY <1>1
      <3> HIDE DEF d
      <3> QED BY <1>1, <1>6, <2>3, <2>4, <3>1
    <2>6. Low(c).out = c.out /\ Low(c).a = c.a /\ Low(c).b = c.b /\ Low(c).n = h
      BY DEF Low, Call, h
    <2> QED BY <1>12, <2>1, <2>5, <2>6 DEF Returned, HoldsIn
  <1>14. c.next = "combine" => Returned(m2, High(c))
    <2> SUFFICES ASSUME c.next = "combine" PROVE Returned(m2, High(c))
      OBVIOUS
    <2>1. Returned(m, High(c))
      BY DEF Kept
    <2>2. d = Middle(c)
      BY DEF Callee
    <2> HIDE DEF h
    <2> DEFINE o == From(c.out, 2*h)
               k == c.n - h
    <2>3. o.of = c.out.of /\ o.at = c.out.at + 2*h /\ o \in Slice
      BY <1>1 DEF From, At, Slice
    <2>4. Inside(o, 2*k)
      BY <1>1, <1>2, <1>3, <2>3, RoomTypes DEF Inside
    <2>5. Outside(o, 2*k, d)
      <3>1. c.out.of = "scratch" => c.out.at + 2*c.n <= c.arena
        BY DEF Placed
      <3>2. d.arena = c.arena + 4*h /\ d.out = Mid(c) /\ d.n = h
        BY <1>1, <2>2 DEF Middle, Call, h
      <3> HIDE DEF d, o
      <3> QED BY <1>1, <1>3, <2>3, <3>1, <3>2 DEF Outside, Disjoint
    <2>6. WordsIn(m2, o, 2*k) = WordsIn(m, o, 2*k)
      <3>1. 2*k \in Nat
        BY <1>1
      <3> HIDE DEF d, o, k
      <3> QED BY <1>6, <2>3, <2>4, <2>5, <3>1
    <2>7. High(c).out = o /\ High(c).a = From(c.a, h) /\ High(c).b = From(c.b, h) /\ High(c).n = k
      BY DEF High, Call, h
    <2> HIDE DEF o
    <2> QED BY <1>12, <2>1, <2>6, <2>7 DEF Returned, HoldsIn
  <1> QED BY <1>11, <1>13, <1>14 DEF Kept

-----------------------------------------------------------------------------
(* What the steps do to the memory. *)

\* A write to a slice that a call may write changes nothing outside the call.
LEMMA WriteFrame ==
    ASSUME NEW m \in Memory, NEW c, NEW s \in Slice, NEW n \in Nat, Inside(s, n),
           NEW ws \in Array(n),
           \A r \in Slice, k \in Nat : Outside(r, k, c) => Disjoint(r, k, s, n)
    PROVE  Stored(m, s, ws) \in Memory /\ Frame(m, Stored(m, s, ws), c)
  BY StoredEntries, ReadOther DEF Frame

LEMMA FrameTwice ==
    ASSUME NEW m, NEW m1, NEW m2, NEW c, Frame(m, m1, c), Frame(m1, m2, c)
    PROVE  Frame(m, m2, c)
  BY DEF Frame

LEMMA LeafReturns ==
    ASSUME NEW m \in Memory, NEW c, Sized(c), Placed(c)
    PROVE  LET m2 == Stored(m, c.out, Schoolbook(WordsIn(m, c.a, c.n), WordsIn(m, c.b, c.n), c.n))
           IN  m2 \in Memory /\ Frame(m, m2, c) /\ Returned(m2, c)
  <1> DEFINE v == WordsIn(m, c.a, c.n)
             w == WordsIn(m, c.b, c.n)
             ws == Schoolbook(v, w, c.n)
             m2 == Stored(m, c.out, ws)
  <1>1. /\ c.out \in Slice /\ c.a \in Slice /\ c.b \in Slice /\ c.n \in Nat \ {0} /\ 2*c.n \in Nat
        /\ Inside(c.out, 2*c.n) /\ Inside(c.a, c.n) /\ Inside(c.b, c.n)
    BY DEF Sized, CallSet
  <1>2. v \in Array(c.n) /\ w \in Array(c.n)
    BY <1>1, WordsInType
  <1> HIDE DEF v, w
  <1>3. ws \in Array(2*c.n) /\ IsProduct(ws, v, w)
    BY <1>1, <1>2, LeafProduct
  <1> HIDE DEF ws
  <1>4. m2 \in Memory /\ Frame(m, m2, c)
    <2>1. \A r \in Slice, k \in Nat : Outside(r, k, c) => Disjoint(r, k, c.out, 2*c.n)
      BY DEF Outside
    <2> QED BY <1>1, <1>3, <2>1, WriteFrame
  <1>5. WordsIn(m2, c.out, 2*c.n) = ws
    BY <1>1, <1>3, ReadBack
  <1>6. WordsIn(m2, c.a, c.n) = v /\ WordsIn(m2, c.b, c.n) = w
    <2>1. Outside(c.a, c.n, c) /\ Outside(c.b, c.n, c) /\ c.n \in Nat
      BY <1>1 DEF Placed
    <2> HIDE DEF m2
    <2> QED BY <1>1, <1>4, <2>1 DEF Frame, v, w
  <1>7. Returned(m2, c)
    <2> HIDE DEF m2
    <2> QED BY <1>3, <1>5, <1>6 DEF Returned, HoldsIn
  <1> QED BY <1>4, <1>7 DEF v, w, ws

LEMMA SumInType ==
    ASSUME NEW m \in Memory, NEW c, Roomy(c), NEW s \in Slice, Inside(s, c.n)
    PROVE  SumIn(m, s, c) \in Array(Half(c))
  <1> DEFINE h == Half(c)
             v == WordsIn(m, s, c.n)
  <1>1. h \in Nat /\ c.n \in Nat /\ h <= c.n
    BY CallNumbers
  <1>2. v \in Array(c.n)
    BY <1>1, WordsInType
  <1> HIDE DEF h, v
  <1>3. \A x, y \in Word : xor(x, y) \in Word
    BY DEF xor, Word
  <1>4. ASSUME NEW i \in 0..h-1
        PROVE  (IF i < c.n - h THEN xor(v[i], v[h + i]) ELSE v[i]) \in Word
    <2>1. \A j \in 0..c.n-1 : v[j] \in Word
      BY <1>2 DEF Array
    <2>2. i \in 0..c.n-1 /\ (i < c.n - h => h + i \in 0..c.n-1)
      BY <1>1
    <2> QED BY <1>3, <2>1, <2>2
  <1>5. SumIn(m, s, c) = [i \in 0..h-1 |-> IF i < c.n - h THEN xor(v[i], v[h + i]) ELSE v[i]]
    BY DEF SumIn, h, v
  <1>6. SumIn(m, s, c) \in Array(h)
    BY <1>4, <1>5 DEF Array
  <1> QED BY <1>6 DEF h

LEMMA SplitKeeps ==
    ASSUME NEW m \in Memory, NEW c, Roomy(c), Placed(c)
    PROVE  LET m2 == Stored(Stored(m, SumA(c), SumIn(m, c.a, c)), SumB(c), SumIn(m, c.b, c))
           IN  m2 \in Memory /\ Frame(m, m2, c) /\ SumsHold(m2, c)
  <1> DEFINE h == Half(c)
             sa == SumIn(m, c.a, c)
             sb == SumIn(m, c.b, c)
             m1 == Stored(m, SumA(c), sa)
             m2 == Stored(m1, SumB(c), sb)
  <1>1. /\ c \in CallSet /\ h \in Nat \ {0} /\ c.n \in Nat \ {0} /\ c.arena \in Nat
        /\ SumA(c) \in Slice /\ SumB(c) \in Slice
        /\ SumA(c).of = "scratch" /\ SumB(c).of = "scratch"
        /\ SumA(c).at = c.arena /\ SumB(c).at = c.arena + h
        /\ Inside(SumA(c), h) /\ Inside(SumB(c), h)
        /\ c.a \in Slice /\ c.b \in Slice /\ c.out \in Slice
    BY CallNumbers
  <1>2. Inside(c.a, c.n) /\ Inside(c.b, c.n)
    BY DEF Roomy, Sized
  <1>3. sa \in Array(h) /\ sb \in Array(h)
    BY <1>1, <1>2, SumInType
  <1> HIDE DEF h, sa, sb
  <1>4. \A r \in Slice, k \in Nat :
           Outside(r, k, c) => Disjoint(r, k, SumA(c), h) /\ Disjoint(r, k, SumB(c), h)
    <2> SUFFICES ASSUME NEW r \in Slice, NEW k \in Nat, Outside(r, k, c)
                 PROVE  Disjoint(r, k, SumA(c), h) /\ Disjoint(r, k, SumB(c), h)
      OBVIOUS
    <2>1. r.at \in Nat
      BY DEF Slice
    <2> QED BY <1>1, <2>1 DEF Outside, Disjoint
  <1>5. m1 \in Memory /\ Frame(m, m1, c)
    BY <1>1, <1>3, <1>4, WriteFrame
  <1>6. WordsIn(m1, SumA(c), h) = sa
    BY <1>1, <1>3, ReadBack
  <1> HIDE DEF m1
  <1>7. m2 \in Memory /\ Frame(m1, m2, c)
    BY <1>1, <1>3, <1>4, <1>5, WriteFrame
  <1>8. WordsIn(m2, SumB(c), h) = sb
    BY <1>1, <1>3, <1>5, ReadBack
  <1>9. WordsIn(m2, SumA(c), h) = sa
    <2>1. Disjoint(SumA(c), h, SumB(c), h)
      BY <1>1 DEF Disjoint
    <2> QED BY <1>1, <1>3, <1>5, <1>6, <2>1, ReadOther
  <1> HIDE DEF m2
  <1>10. Frame(m, m2, c)
    BY <1>5, <1>7, FrameTwice
  <1>11. SumIn(m2, c.a, c) = sa /\ SumIn(m2, c.b, c) = sb
    <2>1. Outside(c.a, c.n, c) /\ Outside(c.b, c.n, c) /\ c.n \in Nat
      BY <1>1 DEF Placed
    <2>2. /\ WordsIn(m2, c.a, c.n) = WordsIn(m, c.a, c.n)
          /\ WordsIn(m2, c.b, c.n) = WordsIn(m, c.b, c.n)
      BY <1>1, <1>2, <1>10, <2>1 DEF Frame
    <2> QED BY <2>2 DEF SumIn, sa, sb
  <1>12. SumsHold(m2, c)
    BY <1>8, <1>9, <1>11 DEF SumsHold, h
  <1> QED BY <1>7, <1>10, <1>12 DEF m1, m2, sa, sb

\* The halves of an operand and their sum, as Combine finds them.
LEMMA OperandHalved ==
    ASSUME NEW m \in Memory, NEW c, Roomy(c), NEW s \in Slice, Inside(s, c.n),
           NEW t \in Slice, WordsIn(m, t, Half(c)) = SumIn(m, s, c)
    PROVE  Halved(WordsIn(m, s, c.n), c.n, Half(c), WordsIn(m, s, Half(c)),
                  WordsIn(m, From(s, Half(c)), c.n - Half(c)), WordsIn(m, t, Half(c)))
  <1> DEFINE h == Half(c)
             n == c.n
  <1>1. h \in Nat /\ n \in Nat /\ h <= n /\ n - h \in Nat
    BY CallNumbers
  <1>2. s.at \in Nat /\ Room(s.of) \in Nat
    BY RoomTypes DEF Slice
  <1> HIDE DEF h, n
  <1>3. Inside(s, n)
    BY DEF n
  <1>4. Inside(s, h)
    BY <1>1, <1>2, <1>3 DEF Inside
  <1>5. /\ From(s, h) \in Slice /\ Inside(From(s, h), n - h)
        /\ \A i \in 0..n-h-1 : WordsIn(m, From(s, h), n - h)[i] = WordsIn(m, s, n)[h + i]
    <2> DEFINE k == n - h
    <2>1. k \in Nat /\ h + k <= n
      BY <1>1
    <2> HIDE DEF k
    <2>2. From(s, h) \in Slice
      BY <1>1, <2>1, ReadPart
    <2>3. Inside(From(s, h), k)
      BY <1>1, <1>3, <2>1, ReadPart
    <2>4. \A i \in 0..k-1 : WordsIn(m, From(s, h), k)[i] = WordsIn(m, s, n)[h + i]
      BY <1>1, <2>1, ReadPart
    <2> QED BY <2>2, <2>3, <2>4 DEF k
  <1>6. /\ WordsIn(m, s, n) \in Array(n) /\ WordsIn(m, s, h) \in Array(h)
        /\ WordsIn(m, From(s, h), n - h) \in Array(n - h)
    BY <1>1, <1>3, <1>4, <1>5, WordsInType
  <1>7. WordsIn(m, t, h) \in Array(h)
    BY <1>3, SumInType DEF h, n
  <1>8. \A i \in 0..h-1 : WordsIn(m, s, h)[i] = WordsIn(m, s, n)[i]
    <2>1. \A i \in 0..h-1 : i \in 0..n-1
      BY <1>1
    <2> QED BY <2>1 DEF WordsIn
  <1>9. \A i \in 0..h-1 : WordsIn(m, t, h)[i] =
            IF i < n - h THEN xor(WordsIn(m, s, n)[i], WordsIn(m, s, n)[h + i])
            ELSE WordsIn(m, s, n)[i]
    BY DEF SumIn, h, n
  <1> QED BY <1>5, <1>6, <1>7, <1>8, <1>9 DEF Halved, h, n

MidIn(m, c) ==
    [i \in 0..2*Half(c)-1 |->
        IF i < 2*(c.n - Half(c))
        THEN xor(xor(WordsIn(m, Mid(c), 2*Half(c))[i], WordsIn(m, c.out, 2*c.n)[i]),
                 WordsIn(m, c.out, 2*c.n)[2*Half(c) + i])
        ELSE xor(WordsIn(m, Mid(c), 2*Half(c))[i], WordsIn(m, c.out, 2*c.n)[i])]

CombinedIn(m, c) ==
    Stored(Stored(m, Mid(c), MidIn(m, c)), From(c.out, Half(c)),
           [i \in 0..2*Half(c)-1 |-> xor(WordsIn(m, c.out, 2*c.n)[Half(c) + i], MidIn(m, c)[i])])

LEMMA CombineReturns ==
    ASSUME NEW m \in Memory, NEW c, Roomy(c), Placed(c), c.next = "combine",
           Kept(m, c), Returned(m, Middle(c))
    PROVE  /\ CombinedIn(m, c) \in Memory
           /\ Frame(m, CombinedIn(m, c), c)
           /\ Returned(CombinedIn(m, c), c)
  <1> DEFINE h == Half(c)
             n == c.n
             out == WordsIn(m, c.out, 2*n)
             mid == WordsIn(m, Mid(c), 2*h)
             mid2 == MidIn(m, c)
             o == From(c.out, h)
             part == [i \in 0..2*h-1 |-> xor(out[h + i], mid2[i])]
             m1 == Stored(m, Mid(c), mid2)
             m2 == Stored(m1, o, part)
  <1>1. /\ c \in CallSet /\ h \in Nat \ {0} /\ n \in Nat \ {0} /\ c.arena \in Nat
        /\ n - h \in Nat \ {0} /\ n - h <= h /\ h <= n /\ 3*h <= 2*n
        /\ c.out \in Slice /\ c.a \in Slice /\ c.b \in Slice
        /\ SumA(c) \in Slice /\ SumB(c) \in Slice /\ Mid(c) \in Slice
        /\ Mid(c).of = "scratch" /\ Mid(c).at = c.arena + 2*h
        /\ Inside(Mid(c), 2*h)
    BY CallNumbers
  <1>2. Inside(c.out, 2*n) /\ Inside(c.a, n) /\ Inside(c.b, n)
    BY DEF Roomy, Sized
  <1>3. Outside(c.a, n, c) /\ Outside(c.b, n, c)
        /\ (c.out.of = "scratch" => c.out.at + 2*n <= c.arena)
    BY DEF Placed
  <1>4. CombinedIn(m, c) = m2
    BY DEF CombinedIn
  <1>5. mid2 = [i \in 0..2*h-1 |-> IF i < 2*(n - h) THEN xor(xor(mid[i], out[i]), out[2*h + i])
                                   ELSE xor(mid[i], out[i])]
    BY DEF MidIn
  <1>6. SumsHold(m, c) /\ Returned(m, Low(c)) /\ Returned(m, High(c))
    BY DEF Kept
  <1> HIDE DEF h, n, mid2
  <1>7. c.out.at \in Nat /\ Room(c.out.of) \in Nat /\ 2*n \in Nat /\ 2*h \in Nat /\ n \in Nat
        /\ h \in Nat
    BY <1>1, RoomTypes DEF Slice
  <1>8. out \in Array(2*n) /\ mid \in Array(2*h)
    BY <1>1, <1>2, <1>7, WordsInType
  <1> HIDE DEF out, mid
  <1>9. mid2 \in Array(2*h) /\ part \in Array(2*h)
    <2>1. \A x, y \in Word : xor(x, y) \in Word
      BY DEF xor, Word
    <2>2. \A i \in 0..2*n-1 : out[i] \in Word
      BY <1>8 DEF Array
    <2>3. \A i \in 0..2*h-1 : mid[i] \in Word
      BY <1>8 DEF Array
    <2>4. \A i \in 0..2*h-1 : i \in 0..2*n-1 /\ h + i \in 0..2*n-1
             /\ (i < 2*(n - h) => 2*h + i \in 0..2*n-1)
      BY <1>1
    <2>5. \A i \in 0..2*h-1 : (IF i < 2*(n - h) THEN xor(xor(mid[i], out[i]), out[2*h + i])
                               ELSE xor(mid[i], out[i])) \in Word
      BY <2>1, <2>2, <2>3, <2>4
    <2>6. mid2 \in Array(2*h)
      BY <1>5, <2>5 DEF Array
    <2>7. \A i \in 0..2*h-1 : xor(out[h + i], mid2[i]) \in Word
      BY <2>1, <2>2, <2>4, <2>6 DEF Array
    <2> QED BY <2>6, <2>7 DEF Array
  <1>10. o \in Slice /\ o.of = c.out.of /\ o.at = c.out.at + h /\ Inside(o, 2*h)
    <2>1. o \in Slice /\ o.of = c.out.of /\ o.at = c.out.at + h
      BY <1>1, <1>7 DEF From, At, Slice
    <2> HIDE DEF o
    <2> QED BY <1>1, <1>2, <1>7, <2>1 DEF Inside
  <1> HIDE DEF o, part
  <1>11. \A r \in Slice, k \in Nat :
            Outside(r, k, c) => Disjoint(r, k, Mid(c), 2*h) /\ Disjoint(r, k, o, 2*h)
    <2> SUFFICES ASSUME NEW r \in Slice, NEW k \in Nat, Outside(r, k, c)
                 PROVE  Disjoint(r, k, Mid(c), 2*h) /\ Disjoint(r, k, o, 2*h)
      OBVIOUS
    <2>1. r.at \in Nat
      BY DEF Slice
    <2>2. Disjoint(r, k, c.out, 2*n) /\ (r.of = "scratch" => r.at + k <= c.arena)
      BY DEF Outside, n
    <2> QED BY <1>1, <1>7, <1>10, <2>1, <2>2 DEF Disjoint
  <1>12. m1 \in Memory /\ Frame(m, m1, c)
    BY <1>1, <1>7, <1>9, <1>11, WriteFrame
  <1>13. WordsIn(m1, c.out, 2*n) = out
    <2>1. Disjoint(c.out, 2*n, Mid(c), 2*h)
      BY <1>1, <1>3, <1>7 DEF Disjoint
    <2> QED BY <1>1, <1>2, <1>7, <1>9, <2>1, ReadOther DEF out
  <1> HIDE DEF m1
  <1>14. m2 \in Memory /\ Frame(m1, m2, c)
    BY <1>7, <1>9, <1>10, <1>11, <1>12, WriteFrame
  <1>15. Frame(m, m2, c)
    <2> HIDE DEF m2
    <2> QED BY <1>12, <1>14, FrameTwice
  <1> DEFINE new == WordsIn(m2, c.out, 2*n)
  <1>16. \A i \in 0..2*n-1 :
            new[i] = IF i - h \in 0..2*h-1 THEN xor(out[i], mid2[i - h]) ELSE out[i]
    <2> SUFFICES ASSUME NEW i \in 0..2*n-1
                 PROVE  m2[c.out.of][c.out.at + i]
                           = IF i - h \in 0..2*h-1 THEN xor(out[i], mid2[i - h]) ELSE out[i]
      BY DEF WordsIn
    <2>1. c.out.of \in {"a", "b", "acc", "scratch"} /\ c.out.at + i \in Nat
          /\ c.out.at + i < Room(c.out.of)
      BY <1>1, <1>2, <1>7 DEF Slice, Inside
    <2>2. m2[c.out.of][c.out.at + i] =
             IF c.out.of = o.of /\ (c.out.at + i) - o.at \in 0..2*h-1
             THEN part[(c.out.at + i) - o.at] ELSE m1[c.out.of][c.out.at + i]
      <3> DEFINE l == 2*h
      <3>1. l \in Nat /\ o \in Slice /\ Inside(o, l) /\ part \in Array(l) /\ m1 \in Memory
        BY <1>7, <1>9, <1>10, <1>12
      <3> HIDE DEF l
      <3>2. \A of \in {"a", "b", "acc", "scratch"}, at \in Nat :
               at < Room(of) =>
                   Stored(m1, o, part)[of][at] =
                       IF of = o.of /\ at - o.at \in 0..l-1 THEN part[at - o.at] ELSE m1[of][at]
        <4> HIDE DEF m2
        <4> QED BY <3>1, StoredEntries
      <3> QED BY <2>1, <3>2 DEF l
    <2>3. (c.out.at + i) - o.at = i - h
      BY <1>7, <1>10
    <2>4. m1[c.out.of][c.out.at + i] = out[i]
      BY <1>13 DEF WordsIn
    <2>5. i - h \in 0..2*h-1 => part[i - h] = xor(out[i], mid2[i - h])
      <3>1. h + (i - h) = i
        BY <1>7
      <3> QED BY <3>1 DEF part
    <2> HIDE DEF m2
    <2> QED BY <1>10, <2>2, <2>3, <2>4, <2>5
  <1> HIDE DEF m2
  <1>17. new \in Array(2*n)
    BY <1>1, <1>2, <1>7, <1>14, WordsInType
  <1> HIDE DEF new
  <1> DEFINE v == WordsIn(m, c.a, n)
             v0 == WordsIn(m, c.a, h)
             v1 == WordsIn(m, From(c.a, h), n - h)
             vs == WordsIn(m, SumA(c), h)
             w == WordsIn(m, c.b, n)
             w0 == WordsIn(m, c.b, h)
             w1 == WordsIn(m, From(c.b, h), n - h)
             ws == WordsIn(m, SumB(c), h)
             lo == WordsIn(m, c.out, 2*h)
             hi == WordsIn(m, From(c.out, 2*h), 2*(n - h))
  <1>18. Halved(v, n, h, v0, v1, vs) /\ Halved(w, n, h, w0, w1, ws)
    <2>1. /\ WordsIn(m, SumA(c), Half(c)) = SumIn(m, c.a, c)
          /\ WordsIn(m, SumB(c), Half(c)) = SumIn(m, c.b, c)
      BY <1>6 DEF SumsHold
    <2>2. Inside(c.a, c.n) /\ Inside(c.b, c.n)
      BY <1>2 DEF n
    <2>3. Halved(WordsIn(m, c.a, c.n), c.n, Half(c), WordsIn(m, c.a, Half(c)),
                 WordsIn(m, From(c.a, Half(c)), c.n - Half(c)), WordsIn(m, SumA(c), Half(c)))
      BY <1>1, <2>1, <2>2, OperandHalved
    <2>4. Halved(WordsIn(m, c.b, c.n), c.n, Half(c), WordsIn(m, c.b, Half(c)),
                 WordsIn(m, From(c.b, Half(c)), c.n - Half(c)), WordsIn(m, SumB(c), Half(c)))
      BY <1>1, <2>1, <2>2, OperandHalved
    <2> QED BY <2>3, <2>4 DEF n, h
  <1>19. IsProduct(lo, v0, w0) /\ IsProduct(hi, v1, w1) /\ IsProduct(mid, vs, ws)
    <2>1. IsProduct(lo, v0, w0)
      BY <1>6 DEF Returned, HoldsIn, Low, Call, h
    <2>2. IsProduct(hi, v1, w1)
      BY <1>6 DEF Returned, HoldsIn, High, Call, h, n
    <2>3. IsProduct(mid, vs, ws)
      BY DEF Returned, HoldsIn, Middle, Call, h, mid
    <2> QED BY <2>1, <2>2, <2>3
  <1>20. lo \in Array(2*h) /\ hi \in Array(2*(n - h))
         /\ (\A i \in 0..2*h-1 : lo[i] = out[i])
         /\ (\A i \in 0..2*(n - h)-1 : hi[i] = out[2*h + i])
    <2>1. Inside(c.out, 2*h) /\ 2*(n - h) \in Nat /\ 2*h + 2*(n - h) <= 2*n
      BY <1>1, <1>2, <1>7 DEF Inside
    <2>2. lo \in Array(2*h)
      BY <1>1, <1>7, <2>1, WordsInType
    <2>3. /\ From(c.out, 2*h) \in Slice /\ Inside(From(c.out, 2*h), 2*(n - h))
          /\ \A i \in 0..2*(n - h)-1 : hi[i] = WordsIn(m, c.out, 2*n)[2*h + i]
      <3> DEFINE j == 2*h
                 k == 2*(n - h)
                 l == 2*n
      <3>1. j \in Nat /\ k \in Nat /\ l \in Nat /\ j + k <= l
        BY <1>7, <2>1
      <3> HIDE DEF j, k, l
      <3>2. From(c.out, j) \in Slice
        BY <1>1, <3>1, ReadPart
      <3>3. Inside(From(c.out, j), k)
        <4>1. Inside(c.out, l)
          BY <1>2 DEF l
        <4> QED BY <1>1, <3>1, <4>1, ReadPart
      <3>4. \A i \in 0..k-1 : WordsIn(m, From(c.out, j), k)[i] = WordsIn(m, c.out, l)[j + i]
        BY <1>1, <3>1, ReadPart
      <3> QED BY <3>2, <3>3, <3>4 DEF j, k, l, hi
    <2>4. hi \in Array(2*(n - h))
      BY <2>1, <2>3, WordsInType
    <2>5. \A i \in 0..2*h-1 : i \in 0..2*n-1
      BY <1>1
    <2>6. \A i \in 0..2*h-1 : lo[i] = out[i]
      BY <2>5 DEF WordsIn, out
    <2> QED BY <2>2, <2>3, <2>4, <2>6 DEF out
  <1> HIDE DEF v, v0, v1, vs, w, w0, w1, ws, lo, hi
  <1>21. \A i \in 0..2*h-1 : mid2[i] = IF i < 2*(n - h) THEN xor(xor(mid[i], out[i]), out[2*h + i])
                                       ELSE xor(mid[i], out[i])
    BY <1>5
  <1>22. IsProduct(new, v, w)
    <2>1. n \in Nat /\ h \in Nat /\ h <= n /\ n - h <= h /\ 3*h <= 2*n
      BY <1>1
    <2> QED BY <1>8, <1>9, <1>16, <1>17, <1>18, <1>19, <1>20, <1>21, <2>1, CombinedProduct
  <1>23. WordsIn(m2, c.a, n) = v /\ WordsIn(m2, c.b, n) = w
    BY <1>1, <1>2, <1>3, <1>7, <1>15 DEF Frame, v, w
  <1>24. Returned(m2, c)
    BY <1>22, <1>23 DEF Returned, HoldsIn, n, new
  <1> QED BY <1>4, <1>14, <1>15, <1>24

-----------------------------------------------------------------------------
(* The stack of calls. *)

\* The calls agree in all but the step they are at.
SameCall(c, d) ==
    c.out = d.out /\ c.a = d.a /\ c.b = d.b /\ c.n = d.n /\ c.arena = d.arena

LEMMA SameCallSame ==
    ASSUME NEW c, NEW d, SameCall(c, d)
    PROVE  /\ \A s, n : Outside(s, n, c) <=> Outside(s, n, d)
           /\ Placed(c) <=> Placed(d)
           /\ \A e : Within(e, c) <=> Within(e, d)
           /\ \A e : Within(c, e) <=> Within(d, e)
           /\ \A m, m2 : Frame(m, m2, c) <=> Frame(m, m2, d)
           /\ \A m : Returned(m, c) <=> Returned(m, d)
  <1>1. \A s, n : Outside(s, n, c) <=> Outside(s, n, d)
    BY DEF SameCall, Outside
  <1>2. Placed(c) <=> Placed(d)
    BY <1>1 DEF SameCall, Placed
  <1>3. \A m : Returned(m, c) <=> Returned(m, d)
    BY DEF SameCall, Returned
  <1> QED BY <1>1, <1>2, <1>3 DEF Within, Frame

\* What CallsInv says of the calls of a stack s.
Ready(s) ==
    \A k \in 1..Len(s) :
        /\ s[k] \in CallSet /\ Sized(s[k])
        /\ s[k].n > Threshold => Roomy(s[k])
        /\ s[k].next # "start" => s[k].n > Threshold

\* Every call leaves alone what the calls below it may not write, and finds
\* what it still needs.
StackInv(m, s) ==
    /\ m \in Memory /\ s \in Seq(CallSet)
    /\ \A k \in 1..Len(s) : Placed(s[k]) /\ Kept(m, s[k])
    /\ \A k \in 1..Len(s) : \A j \in 1..k : Within(s[k], s[j])
    /\ \A k \in 1..Len(s)-1 : s[k].next # "start" /\ SameCall(s[k + 1], Callee(s[k]))

\* The innermost call, once it has called, has got its callee's product back;
\* when no call is left the product of the outermost one is there.
TopInv(m, s, root) ==
    IF s = <<>> THEN Returned(m, root)
    ELSE /\ SameCall(s[1], root)
         /\ s[Len(s)].next # "start" => Returned(m, Callee(s[Len(s)]))

\* What the innermost call writes is the callers' to expect.
LEMMA CallersKeep ==
    ASSUME NEW m, NEW s, StackInv(m, s), Ready(s), s # <<>>,
           NEW m2 \in Memory, Frame(m, m2, s[Len(s)]), NEW j \in 1..Len(s)-1
    PROVE  Kept(m2, s[j])
  <1>1. s \in Seq(CallSet) /\ Len(s) \in Nat /\ j \in 1..Len(s) /\ j + 1 \in 1..Len(s)
        /\ Len(s) \in 1..Len(s) /\ m \in Memory
    BY DEF StackInv
  <1>2. Within(s[Len(s)], s[j + 1])
    BY <1>1 DEF StackInv
  <1>3. Frame(m, m2, s[j + 1])
    BY <1>2, FrameWithin
  <1>4. s[j].next # "start" /\ SameCall(s[j + 1], Callee(s[j]))
    BY DEF StackInv
  <1>5. Frame(m, m2, Callee(s[j]))
    BY <1>3, <1>4, SameCallSame
  <1>6. Placed(s[j]) /\ Kept(m, s[j])
    BY <1>1 DEF StackInv
  <1>7. Roomy(s[j])
    BY <1>1, <1>4 DEF Ready
  <1> HIDE DEF StackInv, Ready
  <1> QED BY <1>1, <1>4, <1>5, <1>6, <1>7, KeptSurvives

LEMMA SubSeqOfStack ==
    ASSUME NEW s \in Seq(CallSet), NEW L \in Nat, Len(s) = L + 1
    PROVE  /\ SubSeq(s, 1, L) \in Seq(CallSet) /\ Len(SubSeq(s, 1, L)) = L
           /\ \A k \in 1..L : SubSeq(s, 1, L)[k] = s[k]
           /\ SubSeq(s, 1, L) = <<>> <=> L = 0
  <1>1. L <= Len(s)
    OBVIOUS
  <1>2. /\ SubSeq(s, 1, L) \in Seq(CallSet) /\ Len(SubSeq(s, 1, L)) = L
        /\ \A k \in 1..L : SubSeq(s, 1, L)[k] = s[k]
    BY <1>1, SubSeqOfCalls
  <1>3. \A r \in Seq(CallSet) : r = <<>> <=> Len(r) = 0
    OBVIOUS
  <1> HIDE <1>1
  <1> QED BY <1>2, <1>3, Zenon

\* The innermost call returns.
LEMMA StackReturns ==
    ASSUME NEW m, NEW s, StackInv(m, s), Ready(s), NEW root, TopInv(m, s, root), s # <<>>,
           NEW m2 \in Memory, Frame(m, m2, s[Len(s)]), Returned(m2, s[Len(s)])
    PROVE  LET s2 == SubSeq(s, 1, Len(s) - 1)
           IN  StackInv(m2, s2) /\ TopInv(m2, s2, root)
  <1> DEFINE L == Len(s) - 1
             s2 == SubSeq(s, 1, L)
  <1>1. s \in Seq(CallSet) /\ L \in Nat /\ Len(s) = L + 1
    BY DEF StackInv
  <1> HIDE DEF L
  <1>2. /\ s2 \in Seq(CallSet) /\ Len(s2) = L
        /\ \A k \in 1..L : s2[k] = s[k]
        /\ s2 = <<>> <=> L = 0
    BY <1>1, SubSeqOfStack
  <1> HIDE DEF s2
  <1>3. \A k \in 1..L : Kept(m2, s2[k])
    <2>1. \A k \in 1..L : k \in 1..Len(s)-1
      BY <1>1
    <2>2. \A k \in 1..L : Kept(m2, s[k])
      BY <2>1, CallersKeep
    <2> QED BY <1>2, <2>2
  <1>4. \A k \in 1..L : Placed(s2[k])
    <2>1. \A k \in 1..L : k \in 1..Len(s)
      BY <1>1
    <2>2. \A k \in 1..Len(s) : Placed(s[k])
      BY DEF StackInv
    <2> QED BY <1>2, <2>1, <2>2
  <1>5. ASSUME NEW k \in 1..L, NEW j \in 1..k PROVE Within(s2[k], s2[j])
    <2>1. k \in 1..Len(s) /\ j \in 1..L
      BY <1>1
    <2>2. Within(s[k], s[j])
      BY <2>1 DEF StackInv
    <2> QED BY <1>2, <2>1, <2>2
  <1>6. ASSUME NEW k \in 1..L-1 PROVE s2[k].next # "start" /\ SameCall(s2[k + 1], Callee(s2[k]))
    <2>1. k \in 1..Len(s)-1 /\ k \in 1..L /\ k + 1 \in 1..L
      BY <1>1
    <2>2. s[k].next # "start" /\ SameCall(s[k + 1], Callee(s[k]))
      BY <2>1 DEF StackInv
    <2>3. s2[k] = s[k] /\ s2[k + 1] = s[k + 1]
      BY <1>2, <2>1
    <2> QED BY <2>2, <2>3
  <1>7. StackInv(m2, s2)
    BY <1>2, <1>3, <1>4, <1>5, <1>6 DEF StackInv
  <1>8. TopInv(m2, s2, root)
    <2>1. SameCall(s[1], root)
      BY DEF TopInv
    <2>2. CASE L = 0
      <3>1. Returned(m2, s[1]) /\ s2 = <<>>
        BY <1>1, <1>2, <2>2
      <3>2. Returned(m2, root)
        BY <2>1, <3>1, SameCallSame
      <3> QED BY <3>1, <3>2 DEF TopInv
    <2>3. CASE L # 0
      <3>1. L \in 1..Len(s)-1 /\ 1 \in 1..L /\ L \in 1..L /\ L + 1 = Len(s)
        BY <1>1, <2>3
      <3>2. SameCall(s[Len(s)], Callee(s[L]))
        BY <3>1 DEF StackInv
      <3>3. Returned(m2, Callee(s[L]))
        BY <3>2, SameCallSame
      <3>4. s2[1] = s[1] /\ s2[Len(s2)] = s[L] /\ s2 # <<>>
        BY <1>2, <2>3, <3>1
      <3> QED BY <2>1, <3>3, <3>4 DEF TopInv
    <2> QED BY <2>2, <2>3
  <1> QED BY <1>7, <1>8 DEF s2, L

\* The innermost call calls.
LEMMA StackDescends ==
    ASSUME NEW m, NEW s, StackInv(m, s), Ready(s), NEW root, TopInv(m, s, root), s # <<>>,
           NEW m2 \in Memory, Frame(m, m2, s[Len(s)]), Roomy(s[Len(s)]),
           NEW after \in {"high", "middle", "combine"},
           NEW c, c = [s[Len(s)] EXCEPT !.next = after], Kept(m2, c),
           NEW d \in CallSet, d = Callee(c), d.next = "start"
    PROVE  LET s2 == Append([s EXCEPT ![Len(s)] = c], d)
           IN  StackInv(m2, s2) /\ TopInv(m2, s2, root)
  <1> DEFINE L == Len(s)
             top == s[L]
             r == [s EXCEPT ![L] = c]
             s2 == Append(r, d)
  <1>1. s \in Seq(CallSet) /\ L \in Nat \ {0} /\ L \in 1..L /\ top \in CallSet
    BY DEF StackInv
  <1>2. c \in CallSet /\ c.next = after /\ SameCall(c, top)
    BY <1>1 DEF CallSet, SameCall
  <1>3. r \in Seq(CallSet) /\ Len(r) = L /\ r[L] = c /\ \A k \in 1..L-1 : r[k] = s[k]
    BY <1>1, <1>2
  <1> HIDE DEF r
  <1>4. s2 \in Seq(CallSet) /\ Len(s2) = L + 1 /\ s2[L + 1] = d
        /\ \A k \in 1..L : s2[k] = r[k]
    BY <1>1, <1>3
  <1> HIDE DEF s2
  <1>5. s2[L] = c /\ \A k \in 1..L-1 : s2[k] = s[k]
    <2>1. \A k \in 1..L-1 : k \in 1..L
      BY <1>1
    <2> QED BY <1>1, <1>3, <1>4, <2>1
  <1>6. Placed(top) /\ Placed(c)
    <2>1. Placed(top)
      BY <1>1 DEF StackInv
    <2> QED BY <1>2, <2>1, SameCallSame
  <1>7. Placed(d) /\ Within(d, c)
    <2>1. Roomy(c)
      BY <1>1, <1>2 DEF Roomy, Sized, SameCall, Half
    <2>2. d \in {Low(c), High(c), Middle(c)}
      BY DEF Callee
    <2> HIDE DEF top, L
    <2> QED BY <1>6, <2>1, <2>2, CalleeWithin
  <1>8. \A k \in 1..L+1 : k = L + 1 \/ k = L \/ k \in 1..L-1
    BY <1>1
  <1>9. \A k \in 1..L+1 : Placed(s2[k]) /\ Kept(m2, s2[k])
    <2>1. Kept(m2, d)
      BY DEF Kept
    <2>2. ASSUME NEW k \in 1..L-1 PROVE Placed(s[k]) /\ Kept(m2, s[k])
      <3>1. k \in 1..Len(s) /\ k \in 1..Len(s)-1
        BY <1>1
      <3>2. Placed(s[k])
        BY <3>1 DEF StackInv
      <3>3. Kept(m2, s[k])
        BY <3>1, CallersKeep
      <3> QED BY <3>2, <3>3
    <2> QED BY <1>4, <1>5, <1>6, <1>7, <1>8, <2>1, <2>2
  <1>10. \A j \in 1..L : Within(c, s2[j])
    <2> SUFFICES ASSUME NEW j \in 1..L PROVE Within(c, s2[j])
      OBVIOUS
    <2>1. CASE j = L
      BY <1>5, <2>1, WithinItself
    <2>2. CASE j # L
      <3>1. j \in 1..L-1
        BY <1>1, <2>2
      <3>2. Within(top, s[j])
        BY <1>1 DEF StackInv
      <3> QED BY <1>2, <1>5, <3>1, <3>2, SameCallSame
    <2> QED BY <2>1, <2>2
  <1>11. ASSUME NEW k \in 1..L+1, NEW j \in 1..k PROVE Within(s2[k], s2[j])
    <2>1. CASE k = L + 1
      <3>1. CASE j = L + 1
        BY <1>4, <2>1, <3>1, WithinItself
      <3>2. CASE j # L + 1
        <4>1. j \in 1..L
          BY <1>1, <2>1, <3>2
        <4>2. Within(c, s2[j])
          BY <1>10, <4>1
        <4>3. Within(d, s2[j])
          BY <1>7, <4>2 DEF Within
        <4> QED BY <1>4, <2>1, <4>3
      <3> QED BY <3>1, <3>2
    <2>2. CASE k = L
      BY <1>5, <1>10, <2>2
    <2>3. CASE k \in 1..L-1
      <3>1. k \in 1..Len(s) /\ j \in 1..L-1
        BY <1>1, <2>3
      <3>2. Within(s[k], s[j])
        BY <3>1 DEF StackInv
      <3> QED BY <1>5, <2>3, <3>1, <3>2
    <2> QED BY <1>8, <2>1, <2>2, <2>3
  <1>12. ASSUME NEW k \in 1..L PROVE s2[k].next # "start" /\ SameCall(s2[k + 1], Callee(s2[k]))
    <2>1. CASE k = L
      <3>1. SameCall(d, Callee(c))
        BY DEF SameCall
      <3> QED BY <1>2, <1>4, <1>5, <2>1, <3>1
    <2>2. CASE k # L
      <3>1. k \in 1..Len(s)-1 /\ k \in 1..L-1
        BY <1>1, <2>2
      <3>2. s[k].next # "start" /\ SameCall(s[k + 1], Callee(s[k]))
        BY <3>1 DEF StackInv
      <3>3. SameCall(s2[k + 1], s[k + 1])
        <4>1. CASE k + 1 = L
          BY <1>2, <1>5, <4>1 DEF SameCall
        <4>2. CASE k + 1 # L
          <5>1. k + 1 \in 1..L-1
            BY <1>1, <3>1, <4>2
          <5> QED BY <1>5, <5>1 DEF SameCall
        <4> QED BY <4>1, <4>2
      <3>4. SameCall(s2[k + 1], Callee(s[k]))
        BY <3>2, <3>3 DEF SameCall
      <3> QED BY <1>5, <3>1, <3>2, <3>4
    <2> QED BY <2>1, <2>2
  <1> HIDE DEF top
  <1>13. StackInv(m2, s2)
    <2>1. \A k \in 1..Len(s2)-1 : k \in 1..L
      BY <1>1, <1>4
    <2>2. Len(s2) = L + 1
      BY <1>4
    <2> HIDE DEF L
    <2> QED BY <1>4, <1>9, <1>11, <1>12, <2>1, <2>2 DEF StackInv
  <1>14. TopInv(m2, s2, root)
    <2>1. SameCall(s2[1], s[1])
      <3>1. CASE L = 1
        BY <1>2, <1>5, <3>1 DEF SameCall, top
      <3>2. CASE L # 1
        <4>1. 1 \in 1..L-1
          BY <1>1, <3>2
        <4> QED BY <1>5, <4>1 DEF SameCall
      <3> QED BY <3>1, <3>2
    <2>2. SameCall(s[1], root)
      BY DEF TopInv
    <2>3. SameCall(s2[1], root)
      BY <2>1, <2>2 DEF SameCall
    <2>4. s2 # <<>> /\ s2[Len(s2)] = d
      BY <1>1, <1>4
    <2> QED BY <2>3, <2>4 DEF TopInv
  <1> QED BY <1>13, <1>14 DEF s2, r, L

-----------------------------------------------------------------------------
(* mul_dense_ct. *)

LEMMA CallsReady == CallsInv => Ready(calls)
  <1> SUFFICES ASSUME CallsInv, NEW k \in 1..Len(calls)
               PROVE  /\ calls[k] \in CallSet /\ Sized(calls[k])
                      /\ calls[k].n > Threshold => Roomy(calls[k])
                      /\ calls[k].next # "start" => calls[k].n > Threshold
    BY DEF Ready
  <1> DEFINE c == calls[k]
  <1>1. N \in Sizes /\ c \in CallSet /\ CallInv(c, k) /\ k \in Nat \ {0}
    BY DEF CallsInv
  <1> HIDE DEF c
  <1>2. c.out \in Slice /\ c.a \in Slice /\ c.b \in Slice /\ c.n \in Nat
    BY <1>1 DEF CallSet
  <1>3. \A s \in Slice, n \in Nat : s.at + n <= Size(s.of) => Inside(s, n)
    <2>1. NWords(N) \in Nat /\ MaxWords \in Nat /\ NWords(N) <= MaxWords
      BY <1>1, RingWords
    <2>2. \A s \in Slice : Size(s.of) <= Room(s.of) /\ Size(s.of) \in Nat /\ Room(s.of) \in Nat
      BY <2>1, RoomTypes DEF Size, Room, Slice
    <2>3. \A s \in Slice : s.at \in Nat
      BY DEF Slice
    <2> QED BY <2>2, <2>3 DEF Inside
  <1>4. /\ c.out.at + 2*c.n <= Size(c.out.of)
        /\ c.a.at + c.n <= Size(c.a.of) /\ c.b.at + c.n <= Size(c.b.of)
    BY <1>1 DEF CallInv, Fits
  <1>5. Inside(c.out, 2*c.n) /\ Inside(c.a, c.n) /\ Inside(c.b, c.n)
    <2>1. 2*c.n \in Nat
      BY <1>2
    <2> QED BY <1>2, <1>3, <1>4, <2>1
  <1>6. Sized(c)
    BY <1>1, <1>5 DEF Sized
  <1>7. c.n > Threshold => c.arena + 4*Half(c) <= ScratchWords
    BY <1>1, ArenaRoom
  <1>8. c.next # "start" => c.n > Threshold
    BY <1>1 DEF CallInv
  <1> QED BY <1>1, <1>6, <1>7, <1>8 DEF Roomy, c

Root == Call(At("acc", 0), At("a", 0), At("b", 0), NWords(N), 0)

\* The outermost call leaves the operands alone.
LEMMA OperandsStay ==
    ASSUME NEW m \in Memory, NEW m2 \in Memory, Frame(m, m2, Root)
    PROVE  m2.a = m.a /\ m2.b = m.b
  <1> SUFFICES ASSUME NEW of \in {"a", "b"} PROVE m2[of] = m[of]
    OBVIOUS
  <1> DEFINE s == At(of, 0)
  <1>1. s.of = of /\ s.at = 0 /\ s \in Slice /\ MaxWords \in Nat /\ Room(of) = MaxWords
    BY RoomTypes DEF At, Slice, Room
  <1>2. Inside(s, MaxWords)
    BY <1>1 DEF Inside
  <1>3. Outside(s, MaxWords, Root)
    BY <1>1 DEF Outside, Disjoint, Root, Call, At
  <1> HIDE DEF s
  <1>4. WordsIn(m2, s, MaxWords) = WordsIn(m, s, MaxWords)
    BY <1>1, <1>2, <1>3 DEF Frame
  <1>5. \A i \in 0..MaxWords-1 : m2[of][i] = m[of][i]
    <2> SUFFICES ASSUME NEW i \in 0..MaxWords-1 PROVE m2[of][i] = m[of][i]
      OBVIOUS
    <2>1. WordsIn(m2, s, MaxWords)[i] = m2[of][0 + i] /\ WordsIn(m, s, MaxWords)[i] = m[of][0 + i]
      BY <1>1 DEF WordsIn
    <2>2. 0 + i = i
      OBVIOUS
    <2> QED BY <1>4, <2>1, <2>2
  <1>6. m[of] \in Array(MaxWords) /\ m2[of] \in Array(MaxWords)
    BY <1>1, MemoryEntries
  <1>7. /\ m[of] = [i \in 0..MaxWords-1 |-> m[of][i]]
        /\ m2[of] = [i \in 0..MaxWords-1 |-> m2[of][i]]
    BY <1>6 DEF Array
  <1>8. [i \in 0..MaxWords-1 |-> m[of][i]] = [i \in 0..MaxWords-1 |-> m2[of][i]]
    BY <1>5
  <1> QED BY <1>7, <1>8

LEMMA BottomFrame ==
    ASSUME NEW m, NEW s, StackInv(m, s), NEW root, TopInv(m, s, root), s # <<>>,
           NEW m2, Frame(m, m2, s[Len(s)])
    PROVE  Frame(m, m2, root)
  <1>1. Len(s) \in 1..Len(s) /\ 1 \in 1..Len(s)
    BY DEF StackInv
  <1>2. Within(s[Len(s)], s[1]) /\ SameCall(s[1], root)
    BY <1>1 DEF StackInv, TopInv
  <1>3. Frame(m, m2, s[1])
    BY <1>2, FrameWithin
  <1> QED BY <1>2, <1>3, SameCallSame

DenseInv ==
    mode # "sparse" =>
        /\ StackInv(mem, calls)
        /\ TopInv(mem, calls, Root)
        /\ Exponents(mem.a) \subseteq 0..N-1 /\ Exponents(mem.b) \subseteq 0..N-1
        /\ IsCyclicProduct

LEMMA DenseInit == Init => DenseInv
  <1> SUFFICES ASSUME Init, mode # "sparse" PROVE DenseInv
    BY DEF DenseInv
  <1>1. N \in Sizes /\ calls = <<Root>> /\ product = Pending
    BY DEF Init, Root
  <1>2. PICK A \in SUBSET (0..N-1), B \in SUBSET (0..N-1) :
           mem = [a |-> PolyOf(A), b |-> PolyOf(B),
                  acc |-> Zeros(WideWords), scratch |-> Zeros(ScratchWords)]
    BY DEF Init
  <1>3. \A n : Zeros(n) \in Array(n)
    BY DEF Zeros, Array, Word
  <1>4. mem \in Memory
    BY <1>1, <1>2, <1>3, RingPolyOf DEF Memory
  <1>5. Exponents(mem.a) \subseteq 0..N-1 /\ Exponents(mem.b) \subseteq 0..N-1
    BY <1>1, <1>2, RingPolyOf
  <1>6. Root \in CallSet /\ Root.next = "start"
    BY <1>1, RingWords DEF Root, CallSet, Slice, Call, At
  <1>7. Placed(Root)
    BY DEF Placed, Outside, Disjoint, Root, Call, At
  <1>8. Kept(mem, Root)
    BY <1>6 DEF Kept
  <1> HIDE DEF Root
  <1>9. calls \in Seq(CallSet) /\ Len(calls) = 1 /\ calls[1] = Root /\ calls # <<>>
    BY <1>1, <1>6
  <1>10. StackInv(mem, calls)
    <2>1. \A k \in 1..Len(calls) : k = 1 /\ \A j \in 1..k : j = 1
      BY <1>9
    <2>2. \A k \in 1..Len(calls) : Placed(calls[k]) /\ Kept(mem, calls[k])
      BY <1>7, <1>8, <1>9, <2>1
    <2>3. \A k \in 1..Len(calls) : \A j \in 1..k : Within(calls[k], calls[j])
      BY <2>1, WithinItself
    <2>4. \A k \in 1..Len(calls)-1 : FALSE
      BY <1>9
    <2> QED BY <1>4, <1>9, <2>2, <2>3, <2>4 DEF StackInv
  <1>11. TopInv(mem, calls, Root)
    BY <1>6, <1>9 DEF TopInv, SameCall
  <1>12. IsCyclicProduct
    BY <1>1 DEF IsCyclicProduct
  <1> QED BY <1>5, <1>10, <1>11, <1>12 DEF DenseInv

\* What every step of the recursion has to show.
LEMMA DenseKeeps ==
    ASSUME DenseInv, mode # "sparse", calls # <<>>, N' = N, product' = product,
           mem' \in Memory, Frame(mem, mem', Top),
           StackInv(mem', calls'), TopInv(mem', calls', Root)
    PROVE  DenseInv'
  <1>1. /\ StackInv(mem, calls) /\ TopInv(mem, calls, Root)
        /\ Exponents(mem.a) \subseteq 0..N-1 /\ Exponents(mem.b) \subseteq 0..N-1
        /\ IsCyclicProduct
    BY DEF DenseInv
  <1>2. mem \in Memory
    BY <1>1 DEF StackInv
  <1>3. Frame(mem, mem', calls[Len(calls)])
    BY DEF Top, Depth
  <1>4. Frame(mem, mem', Root)
    BY <1>1, <1>3, BottomFrame
  <1>5. mem'.a = mem.a /\ mem'.b = mem.b
    BY <1>2, <1>4, OperandsStay
  <1>6. Root' = Root
    BY DEF Root
  <1>7. TopInv(mem', calls', Root')
    BY <1>6
  <1>8. IsCyclicProduct'
    BY <1>1, <1>5 DEF IsCyclicProduct
  <1>9. (StackInv(mem, calls))' /\ (TopInv(mem, calls, Root))'
    BY <1>7
  <1> QED BY <1>1, <1>5, <1>8, <1>9 DEF DenseInv

LEMMA DenseReturns ==
    ASSUME CallsInv, DenseInv, mode # "sparse", calls # <<>>, N' = N, product' = product,
           calls' = SubSeq(calls, 1, Depth - 1),
           mem' \in Memory, Frame(mem, mem', Top), Returned(mem', Top)
    PROVE  DenseInv'
  <1>1. StackInv(mem, calls) /\ TopInv(mem, calls, Root) /\ Ready(calls)
    BY CallsReady DEF DenseInv
  <1>2. StackInv(mem', calls') /\ TopInv(mem', calls', Root)
    BY <1>1, StackReturns DEF Depth, Top
  <1> QED BY <1>2, DenseKeeps

LEMMA DenseDescends ==
    ASSUME CallsInv, DenseInv, mode # "sparse", calls # <<>>, N' = N, product' = product,
           mem' \in Memory, Frame(mem, mem', Top), Top.n > Threshold,
           NEW after \in {"high", "middle", "combine"},
           NEW c, c = [Top EXCEPT !.next = after], Kept(mem', c),
           NEW d, d = Callee(c),
           calls' = Append([calls EXCEPT ![Depth].next = after], d)
    PROVE  DenseInv'
  <1>1. StackInv(mem, calls) /\ TopInv(mem, calls, Root) /\ Ready(calls)
    BY CallsReady DEF DenseInv
  <1>2. /\ Depth = Len(calls) /\ Top = calls[Len(calls)] /\ Depth \in 1..Len(calls)
        /\ N \in Sizes /\ Top \in CallSet /\ CallInv(Top, Depth)
    BY DEF CallsInv, Depth, Top
  <1>3. Roomy(Top)
    BY <1>1, <1>2 DEF Ready
  <1>4. SameCall(c, Top) /\ c \in CallSet /\ c.n > Threshold /\ CallInv(c, Depth)
    BY <1>2 DEF SameCall, CallSet, CallInv, Fits
  <1>5. d \in CallSet
    <2>1. d \in {Low(c), High(c), Middle(c)}
      BY DEF Callee
    <2>2. Depth \in Nat \ {0}
      BY <1>2 DEF CallsInv
    <2> HIDE DEF Depth
    <2> QED BY <1>2, <1>4, <2>1, <2>2, CalleeInv
  <1>6. d.next = "start"
    BY DEF Callee, Low, High, Middle, Call
  <1>7. calls' = Append([calls EXCEPT ![Len(calls)] = c], d)
    BY <1>2
  <1>8. /\ Frame(mem, mem', calls[Len(calls)]) /\ Roomy(calls[Len(calls)])
        /\ c = [calls[Len(calls)] EXCEPT !.next = after]
    BY <1>2, <1>3
  <1> DEFINE s2 == Append([calls EXCEPT ![Len(calls)] = c], d)
  <1>9. StackInv(mem', s2) /\ TopInv(mem', s2, Root)
    BY <1>1, <1>5, <1>6, <1>8, StackDescends
  <1> QED BY <1>7, <1>9, DenseKeeps

LEMMA FrameItself == ASSUME NEW m, NEW c PROVE Frame(m, m, c)
  BY DEF Frame

\* The innermost call, as the invariants describe it.
LEMMA TopFacts ==
    ASSUME CallsInv, DenseInv, mode # "sparse", calls # <<>>
    PROVE  /\ mem \in Memory /\ Top \in CallSet /\ Sized(Top) /\ Placed(Top) /\ Kept(mem, Top)
           /\ Top.n > Threshold => Roomy(Top)
           /\ Top.next # "start" => Top.n > Threshold /\ Returned(mem, Callee(Top))
  <1>1. StackInv(mem, calls) /\ TopInv(mem, calls, Root) /\ Ready(calls)
    BY CallsReady DEF DenseInv
  <1>2. Top = calls[Len(calls)] /\ Len(calls) \in 1..Len(calls)
    BY DEF CallsInv, Depth, Top
  <1>3. mem \in Memory /\ Placed(Top) /\ Kept(mem, Top)
    BY <1>1, <1>2 DEF StackInv
  <1>4. /\ Top \in CallSet /\ Sized(Top) /\ (Top.n > Threshold => Roomy(Top))
        /\ (Top.next # "start" => Top.n > Threshold)
    BY <1>1, <1>2 DEF Ready
  <1>5. Top.next # "start" => Returned(mem, Callee(Top))
    BY <1>1, <1>2 DEF TopInv
  <1> QED BY <1>3, <1>4, <1>5

LEMMA DenseLeaf ==
    ASSUME CallsInv, DenseInv, mode # "sparse", Leaf
    PROVE  DenseInv'
  <1>1. calls # <<>> /\ calls' = SubSeq(calls, 1, Depth - 1) /\ N' = N /\ product' = product
    BY DEF Leaf
  <1>2. mem \in Memory /\ Sized(Top) /\ Placed(Top)
    BY <1>1, TopFacts
  <1>3. mem' = Stored(mem, Top.out,
                      Schoolbook(WordsIn(mem, Top.a, Top.n), WordsIn(mem, Top.b, Top.n), Top.n))
    BY DEF Leaf, Words, WordsIn
  <1> HIDE DEF Top
  <1>4. mem' \in Memory /\ Frame(mem, mem', Top) /\ Returned(mem', Top)
    BY <1>2, <1>3, LeafReturns
  <1> QED BY <1>1, <1>4, DenseReturns

LEMMA DenseCombine ==
    ASSUME CallsInv, DenseInv, mode # "sparse", Combine
    PROVE  DenseInv'
  <1>1. /\ calls # <<>> /\ calls' = SubSeq(calls, 1, Depth - 1) /\ N' = N /\ product' = product
        /\ Top.next = "combine"
    BY DEF Combine
  <1>2. /\ mem \in Memory /\ Placed(Top) /\ Roomy(Top) /\ Kept(mem, Top)
        /\ Returned(mem, Middle(Top))
    BY <1>1, TopFacts DEF Callee
  <1>3. mem' = CombinedIn(mem, Top)
    <2>1. MidReduced(Top) = MidIn(mem, Top)
      BY DEF MidReduced, MidIn, Words, WordsIn
    <2>2. Words(Top.out, 2*Top.n) = WordsIn(mem, Top.out, 2*Top.n)
      BY DEF Words, WordsIn
    <2>3. mem' = Stored(Stored(mem, Mid(Top), MidReduced(Top)), From(Top.out, Half(Top)),
                        [i \in 0..2*Half(Top)-1 |->
                            xor(Words(Top.out, 2*Top.n)[Half(Top) + i], MidReduced(Top)[i])])
      BY DEF Combine
    <2> QED BY <2>1, <2>2, <2>3 DEF CombinedIn
  <1>4. mem' \in Memory /\ Frame(mem, mem', Top) /\ Returned(mem', Top)
    BY <1>1, <1>2, <1>3, CombineReturns
  <1> QED BY <1>1, <1>4, DenseReturns

LEMMA DenseSplit ==
    ASSUME CallsInv, DenseInv, mode # "sparse", Split
    PROVE  DenseInv'
  <1> DEFINE c == [Top EXCEPT !.next = "high"]
  <1>1. /\ calls # <<>> /\ N' = N /\ product' = product /\ Top.n > Threshold
        /\ calls' = Append([calls EXCEPT ![Depth].next = "high"], Low(Top))
    BY DEF Split, Descend
  <1>2. mem \in Memory /\ Top \in CallSet /\ Placed(Top) /\ Roomy(Top)
    BY <1>1, TopFacts
  <1>3. mem' = Stored(Stored(mem, SumA(Top), SumIn(mem, Top.a, Top)),
                      SumB(Top), SumIn(mem, Top.b, Top))
    <2>1. \A s : Sum(s, Top) = SumIn(mem, s, Top)
      BY DEF Sum, SumIn, Words, WordsIn
    <2>2. mem' = Stored(Stored(mem, SumA(Top), Sum(Top.a, Top)), SumB(Top), Sum(Top.b, Top))
      BY DEF Split
    <2> QED BY <2>1, <2>2
  <1>4. mem' \in Memory /\ Frame(mem, mem', Top) /\ SumsHold(mem', Top)
    <2> HIDE DEF Top
    <2> QED BY <1>2, <1>3, SplitKeeps
  <1>5. c.next = "high" /\ SameCall(c, Top)
    BY <1>2 DEF CallSet, SameCall
  <1> HIDE DEF Top
  <1>6. Low(c) = Low(Top) /\ Callee(c) = Low(c)
    BY <1>5 DEF Low, Callee, Sub, Half, SameCall
  <1>7. SumsHold(mem', c)
    BY <1>4, <1>5 DEF SumsHold, SumA, SumB, SumIn, Half, SameCall
  <1>8. Kept(mem', c)
    BY <1>5, <1>7 DEF Kept
  <1> HIDE DEF c
  <1> QED BY <1>1, <1>4, <1>6, <1>8, DenseDescends DEF c

\* A step that changes no memory.
LEMMA DenseGoesOn ==
    ASSUME CallsInv, DenseInv, mode # "sparse", calls # <<>>,
           N' = N, product' = product, mem' = mem, Top.next # "start",
           NEW after \in {"high", "middle", "combine"}, NEW d,
           calls' = Append([calls EXCEPT ![Depth].next = after], d),
           NEW c, c = [Top EXCEPT !.next = after], Kept(mem, c), d = Callee(c)
    PROVE  DenseInv'
  <1>1. mem \in Memory /\ Top.n > Threshold
    BY TopFacts
  <1>2. mem' \in Memory /\ Frame(mem, mem', Top) /\ Kept(mem', c)
    BY <1>1, FrameItself
  <1> HIDE DEF Top, Depth
  <1> QED BY <1>1, <1>2, DenseDescends

LEMMA SameParts ==
    ASSUME NEW c, NEW d, SameCall(c, d)
    PROVE  /\ Low(c) = Low(d) /\ High(c) = High(d) /\ Middle(c) = Middle(d)
           /\ \A m : SumsHold(m, c) <=> SumsHold(m, d)
  BY DEF SameCall, Low, High, Middle, Call, Sub, Half, Mid, SumA, SumB, SumsHold, SumIn

LEMMA DenseHigh ==
    ASSUME CallsInv, DenseInv, mode # "sparse", MultiplyHigh
    PROVE  DenseInv'
  <1> DEFINE c == [Top EXCEPT !.next = "middle"]
  <1>1. /\ calls # <<>> /\ N' = N /\ product' = product /\ mem' = mem /\ Top.next = "high"
        /\ calls' = Append([calls EXCEPT ![Depth].next = "middle"], High(Top))
    BY DEF MultiplyHigh, Descend
  <1>2. /\ Top \in CallSet /\ Kept(mem, Top) /\ Returned(mem, Low(Top))
    BY <1>1, TopFacts DEF Callee
  <1>3. c.next = "middle" /\ SameCall(c, Top)
    BY <1>2 DEF CallSet, SameCall
  <1>4. Kept(mem, c)
    BY <1>1, <1>2, <1>3, SameParts DEF Kept
  <1>5. High(Top) = Callee(c)
    BY <1>3, SameParts DEF Callee
  <1> HIDE DEF c
  <1> QED BY <1>1, <1>4, <1>5, DenseGoesOn DEF c

LEMMA DenseMiddle ==
    ASSUME CallsInv, DenseInv, mode # "sparse", MultiplyMiddle
    PROVE  DenseInv'
  <1> DEFINE c == [Top EXCEPT !.next = "combine"]
  <1>1. /\ calls # <<>> /\ N' = N /\ product' = product /\ mem' = mem /\ Top.next = "middle"
        /\ calls' = Append([calls EXCEPT ![Depth].next = "combine"], Middle(Top))
    BY DEF MultiplyMiddle, Descend
  <1>2. /\ Top \in CallSet /\ Kept(mem, Top) /\ Returned(mem, High(Top))
    BY <1>1, TopFacts DEF Callee
  <1>3. c.next = "combine" /\ SameCall(c, Top)
    BY <1>2 DEF CallSet, SameCall
  <1>4. Kept(mem, c)
    BY <1>1, <1>2, <1>3, SameParts DEF Kept
  <1>5. Middle(Top) = Callee(c)
    BY <1>3, SameParts DEF Callee
  <1> HIDE DEF c
  <1> QED BY <1>1, <1>4, <1>5, DenseGoesOn DEF c

\* Reading the first words of an array.
LEMMA PrefixExponents ==
    ASSUME NEW size \in Nat, NEW ws \in Array(size), NEW n \in Nat, n <= size,
           NEW v \in Array(n), \A i \in 0..n-1 : v[i] = ws[i]
    PROVE  \A t \in 0..W*n-1 : t \in Exponents(v) <=> t \in Exponents(ws)
  <1> SUFFICES ASSUME NEW t \in 0..W*n-1
               PROVE  t \in Exponents(v) <=> t \in Exponents(ws)
    OBVIOUS
  <1>1. t \in Int /\ W*n \in Nat
    BY PolyAssumption
  <1>2. t \div W \in 0..n-1
    BY PositionInArray
  <1>3. t \in Exponents(v) <=> t >= 0 /\ t \div W < n /\ t % W \in v[t \div W]
    BY <1>1, InExponents
  <1>4. t \in Exponents(ws) <=> t >= 0 /\ t \div W < size /\ t % W \in ws[t \div W]
    BY <1>1, InExponents
  <1>5. t \div W < n /\ t \div W < size
    BY <1>2
  <1> QED BY <1>2, <1>3, <1>4, <1>5

\* The first words of an array of the memory.
LEMMA PrefixInMemory ==
    ASSUME NEW m \in Memory, NEW of \in {"a", "b", "acc", "scratch"},
           NEW n \in Nat, n <= Room(of)
    PROVE  /\ WordsIn(m, At(of, 0), n) \in Array(n)
           /\ \A t \in 0..W*n-1 :
                t \in Exponents(WordsIn(m, At(of, 0), n)) <=> t \in Exponents(m[of])
  <1> DEFINE s == At(of, 0)
             v == WordsIn(m, s, n)
  <1>1. s.of = of /\ s.at = 0 /\ s \in Slice /\ Room(of) \in Nat
    BY RoomTypes DEF At, Slice
  <1>2. m[of] \in Array(Room(of))
    BY MemoryEntries
  <1>3. v \in Array(n)
    <2>1. Inside(s, n)
      BY <1>1 DEF Inside
    <2> QED BY <1>1, <2>1, WordsInType
  <1>4. \A i \in 0..n-1 : v[i] = m[of][i]
    <2>1. \A i \in 0..n-1 : 0 + i = i
      OBVIOUS
    <2> QED BY <1>1, <2>1 DEF WordsIn
  <1> HIDE DEF v
  <1>5. \A t \in 0..W*n-1 : t \in Exponents(v) <=> t \in Exponents(m[of])
    BY <1>1, <1>2, <1>3, <1>4, PrefixExponents
  <1> QED BY <1>3, <1>5 DEF v, s

LEMMA DenseFold ==
    ASSUME CallsInv, DenseInv, mode # "sparse", Fold
    PROVE  DenseInv'
  <1> DEFINE A == Exponents(mem.a)
             B == Exponents(mem.b)
             E == Exponents(mem.acc)
             nw == NWords(N)
  <1>1. /\ N' = N /\ mode' = mode /\ mem' = mem /\ calls' = calls
        /\ product' = reduce_wide(mem.acc, N) /\ calls = <<>>
    BY DEF Fold
  <1>2. /\ N \in Sizes /\ A \subseteq 0..N-1 /\ B \subseteq 0..N-1
        /\ StackInv(mem, calls) /\ TopInv(mem, calls, Root)
    BY DEF DenseInv, CallsInv
  <1>3. mem \in Memory /\ mem.acc \in Array(WideWords) /\ Returned(mem, Root)
    BY <1>1, <1>2 DEF StackInv, Memory, TopInv
  <1>4. /\ W \in Nat /\ W > 0 /\ N \in Nat /\ N > 0 /\ nw \in Nat /\ MaxWords \in Nat
        /\ nw <= MaxWords /\ N <= W * nw
        /\ W * nw \in Nat /\ W * (2*nw) = W * nw + W * nw /\ 2*nw \in Nat
    BY <1>2, RingMulAssumption, PolyAssumption, RingWords, WordCount
  <1>5. nw <= Room("a") /\ nw <= Room("b") /\ 2*nw <= Room("acc")
    BY <1>4 DEF Room, WideWords
  <1> DEFINE va == WordsIn(mem, At("a", 0), nw)
             vb == WordsIn(mem, At("b", 0), nw)
             vo == WordsIn(mem, At("acc", 0), 2*nw)
  <1>6. \A t \in Int : t \in Exponents(vo) <=> Coefficient(Exponents(va), Exponents(vb), t)
    BY <1>3 DEF Returned, HoldsIn, IsProduct, Root, Call
  <1> HIDE DEF nw
  <1>7. /\ va \in Array(nw) /\ \A t \in 0..W*nw-1 : t \in Exponents(va) <=> t \in A
    BY <1>3, <1>4, <1>5, PrefixInMemory
  <1>8. /\ vb \in Array(nw) /\ \A t \in 0..W*nw-1 : t \in Exponents(vb) <=> t \in B
    BY <1>3, <1>4, <1>5, PrefixInMemory
  <1>9. \A t \in 0..W*(2*nw)-1 : t \in Exponents(vo) <=> t \in E
    BY <1>3, <1>4, <1>5, PrefixInMemory
  <1> HIDE DEF va, vb, vo, A, B, E
  <1>10. Exponents(va) = A /\ Exponents(vb) = B
    <2>1. Exponents(va) \subseteq 0..W*nw-1 /\ Exponents(vb) \subseteq 0..W*nw-1
      BY <1>4, <1>7, <1>8, ExponentsOfArray
    <2>2. 0..N-1 \subseteq 0..W*nw-1
      BY <1>4
    <2> QED BY <1>2, <1>7, <1>8, <2>1, <2>2
  <1>11. \A t \in 0..N-1 : t \in 0..W*(2*nw)-1 /\ t + N \in 0..W*(2*nw)-1
                           /\ t \in Int /\ t + N \in Int
    BY <1>4
  <1>12. \A t \in 0..N-1 : (t \in E <=> Coefficient(A, B, t))
                           /\ (t + N \in E <=> Coefficient(A, B, t + N))
    BY <1>6, <1>9, <1>10, <1>11
  <1>13. CyclicProduct(A, B, N) = {t \in 0..N-1 : ~(t \in E <=> t + N \in E)}
    <2>1. CyclicProduct(A, B, N) =
            {t \in 0..N-1 : ~(Coefficient(A, B, t) <=> Coefficient(A, B, t + N))}
      BY <1>2, <1>4, FoldedProduct
    <2> QED BY <1>12, <2>1, Zenon
  <1>14. product' = PolyOf(CyclicProduct(A, B, N))
    BY <1>1, <1>2, <1>3, <1>13, FoldIsExact DEF E
  <1>15. reduce(product', N) = product'
    <2>1. CyclicProduct(A, B, N) \in SUBSET (0..N-1)
      BY <1>13
    <2>2. NWords(N) <= MaxWords
      BY <1>2, RingWords
    <2> QED BY <1>4, <1>14, <2>1, <2>2, ReduceKeepsCanonical
  <1>16. IsCyclicProduct'
    BY <1>1, <1>14, <1>15 DEF IsCyclicProduct, A, B
  <1>17. Root' = Root
    BY <1>1 DEF Root
  <1>18. (StackInv(mem, calls))' /\ (TopInv(mem, calls, Root))'
    BY <1>1, <1>2, <1>17
  <1> QED BY <1>1, <1>2, <1>16, <1>18 DEF DenseInv, A, B

LEMMA DenseStep == CallsInv /\ DenseInv /\ [Next]_vars => DenseInv'
  <1> SUFFICES ASSUME CallsInv, DenseInv, [Next]_vars PROVE DenseInv'
    OBVIOUS
  <1>1. CASE mode = "sparse"
    <2>1. mode' = mode
      BY DEF Next, vars, ShiftStep, NextWord, Leaf, Split, MultiplyHigh, MultiplyMiddle,
             Combine, Descend, Fold
    <2> QED BY <1>1, <2>1 DEF DenseInv
  <1>2. CASE mode # "sparse"
    <2>1. ~(ShiftStep \/ NextWord)
      BY <1>2 DEF ShiftStep, NextWord
    <2>2. CASE UNCHANGED vars
      <3>1. /\ mem' = mem /\ calls' = calls /\ N' = N /\ product' = product /\ mode' = mode
            /\ Root' = Root
        BY <2>2 DEF vars, Root
      <3>2. (StackInv(mem, calls))' = StackInv(mem, calls)
            /\ (TopInv(mem, calls, Root))' = TopInv(mem, calls, Root)
        BY <3>1
      <3> QED BY <3>1, <3>2 DEF DenseInv, IsCyclicProduct
    <2> QED BY <1>2, <2>1, <2>2, DenseLeaf, DenseSplit, DenseHigh, DenseMiddle, DenseCombine,
               DenseFold DEF Next
  <1> QED BY <1>1, <1>2

\* A product is read off as far as the property looks.
LEMMA HeldProduct ==
    ASSUME NEW out, NEW a, NEW b, NEW n \in Nat, HoldsIn(mem, out, a, b, n)
    PROVE  Holds(out, a, b, n)
  <1>1. \A t \in 0..2*n*W-1 : t \in Int
    OBVIOUS
  <1> QED BY <1>1 DEF HoldsIn, IsProduct, Holds, Words, WordsIn

LEMMA DensePending ==
    ASSUME CallsInv, DenseInv, mode # "sparse"
    PROVE  PendingProductsSurvive
  <1> SUFFICES ASSUME NEW k \in 1..Len(calls)
               PROVE  LET c == calls[k]
                          h == Half(c)
                      IN  /\ c.next # "start" =>
                                Words(SumA(c), h) = Sum(c.a, c) /\ Words(SumB(c), h) = Sum(c.b, c)
                          /\ c.next \in {"middle", "combine"} \/ (c.next = "high" /\ k = Depth)
                                => Holds(c.out, c.a, c.b, h)
                          /\ c.next = "combine" \/ (c.next = "middle" /\ k = Depth)
                                => Holds(From(c.out, 2*h), From(c.a, h), From(c.b, h), c.n - h)
                          /\ c.next = "combine" /\ k = Depth => Holds(Mid(c), SumA(c), SumB(c), h)
    BY DEF PendingProductsSurvive, Depth
  <1> DEFINE c == calls[k]
             h == Half(c)
  <1>1. StackInv(mem, calls) /\ TopInv(mem, calls, Root) /\ Ready(calls)
    BY CallsReady DEF DenseInv
  <1>2. Kept(mem, c)
    BY <1>1 DEF StackInv
  <1>3. k = Depth /\ c.next # "start" => Returned(mem, Callee(c))
    <2>1. calls # <<>>
      BY <1>1 DEF StackInv
    <2> QED BY <1>1, <2>1 DEF TopInv, Depth
  <1>4. c.next # "start" => h \in Nat /\ c.n - h \in Nat
    BY <1>1, CallNumbers DEF Ready
  <1> HIDE DEF h, c
  <1>5. c.next # "start" => Words(SumA(c), h) = Sum(c.a, c) /\ Words(SumB(c), h) = Sum(c.b, c)
    <2>1. \A s : Sum(s, c) = SumIn(mem, s, c)
      BY DEF Sum, SumIn, Words, WordsIn
    <2>2. \A s : Words(s, h) = WordsIn(mem, s, Half(c))
      BY DEF Words, WordsIn, h
    <2> QED BY <1>2, <2>1, <2>2 DEF Kept, SumsHold
  <1>6. ASSUME c.next \in {"middle", "combine"} \/ (c.next = "high" /\ k = Depth)
        PROVE  Holds(c.out, c.a, c.b, h)
    <2>1. Returned(mem, Low(c))
      BY <1>2, <1>3, <1>6 DEF Kept, Callee
    <2>2. HoldsIn(mem, c.out, c.a, c.b, h)
      BY <2>1 DEF Returned, Low, Call, h
    <2> QED BY <1>4, <1>6, <2>2, HeldProduct
  <1>7. ASSUME c.next = "combine" \/ (c.next = "middle" /\ k = Depth)
        PROVE  Holds(From(c.out, 2*h), From(c.a, h), From(c.b, h), c.n - h)
    <2>1. Returned(mem, High(c))
      BY <1>2, <1>3, <1>7 DEF Kept, Callee
    <2>2. HoldsIn(mem, From(c.out, 2*h), From(c.a, h), From(c.b, h), c.n - h)
      BY <2>1 DEF Returned, High, Call, h
    <2> QED BY <1>4, <1>7, <2>2, HeldProduct
  <1>8. ASSUME c.next = "combine", k = Depth
        PROVE  Holds(Mid(c), SumA(c), SumB(c), h)
    <2>1. Returned(mem, Middle(c))
      BY <1>3, <1>8 DEF Callee
    <2>2. HoldsIn(mem, Mid(c), SumA(c), SumB(c), h)
      BY <2>1 DEF Returned, Middle, Call, h
    <2> QED BY <1>4, <1>8, <2>2, HeldProduct
  <1> QED BY <1>5, <1>6, <1>7, <1>8 DEF c, h

\* karatsuba: the sums and the products that a call still needs are intact
\* while its callees use the arena and the output again, whatever the word
\* size, the ring, the threshold and the depth.
THEOREM PendingSurvives == Spec => []PendingProductsSurvive
  <1>1. CallsInv /\ SparseInv /\ DenseInv => PendingProductsSurvive
    <2>1. CASE mode = "sparse"
      BY <2>1 DEF SparseInv, PendingProductsSurvive, Depth
    <2>2. CASE mode # "sparse"
      BY <2>2, DensePending
    <2> QED BY <2>1, <2>2
  <1> QED BY <1>1, CallsInit, CallsStep, SparseInit, SparseStep, DenseInit, DenseStep, PTL DEF Spec

\* Both multiplications return the product in F2[X]/(X^N - 1), without a bit
\* at or above N, for every word size, every ring, every threshold of the
\* recursion and every two operands.
THEOREM ProductIsCyclic == Spec => []IsCyclicProduct
  <1>1. SparseInv /\ DenseInv => IsCyclicProduct
    BY DEF SparseInv, DenseInv
  <1> QED BY <1>1, CallsInit, CallsStep, SparseInit, SparseStep, DenseInit, DenseStep, PTL DEF Spec
=============================================================================
