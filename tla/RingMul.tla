------------------------------- MODULE RingMul -------------------------------
(***************************************************************************)
(* Ring multiplication (poly/mul.rs).  Both modes add shifted words into a *)
(* wide accumulator that does not wrap and fold it at bit N at the end.    *)
(*                                                                         *)
(* mul_sparse_dense walks over the set bits of one operand, one bit per    *)
(* step.  mul_dense_ct runs Karatsuba's recursion on the words; its calls  *)
(* are an explicit stack, and every slice it is handed is a place in one   *)
(* of four arrays, so that the arena it cuts its scratch space from can    *)
(* be seen to fill up and to be used again.                                *)
(***************************************************************************)
EXTENDS Poly, Sequences

CONSTANTS Sizes,       \* the N of the parameter sets
          Lefts,       \* exponents of the first operands ...
          Rights,      \* ... and of the second
          Threshold,   \* KARATSUBA_THRESHOLD: 16 in the code
          Slack,       \* what KARATSUBA_SCRATCH_WORDS adds: 256 in the code
          Pending

ASSUME RingMulAssumption ==
    /\ Sizes \subseteq Nat \ {0}
    /\ \A n \in Sizes : NWords(n) <= MaxWords
    /\ Threshold \in Nat \ {0} /\ Slack \in Nat
    /\ MaxWords <= Threshold * ((Slack \div 4) + 1)
    /\ Pending \notin Array(MaxWords)

WideWords == 2*MaxWords + 2
\* Mutant: the arena is sized for the sums of a level only.
ScratchForSums == 2*MaxWords + Slack
ScratchWords == 4*MaxWords + Slack

VARIABLES N, mode,
          mem,            \* the arrays "a", "b", "acc" and "scratch"
          word_idx, word, \* mul_sparse_dense: the word and what is left of it
          calls,          \* mul_dense_ct: the calls of karatsuba, innermost last
          product         \* what the multiplication returned, or Pending

vars == <<N, mode, mem, word_idx, word, calls, product>>

-----------------------------------------------------------------------------
(* The wide accumulator.                                                   *)

\* Mutant: the bits that leave a word at the top are lost.
shift_without_spill(acc, src, rot, n) ==
    LET word_shift == rot \div W
        low(i) == IF i - word_shift \in 0..NWords(n)-1
                  THEN shl(src[i - word_shift], rot % W) ELSE {}
    IN  [i \in DOMAIN acc |-> xor(acc[i], low(i))]

\* src, shifted left by rot, is added at its true place.
shift_xor_wide(acc, src, rot, n) ==
    LET word_shift == rot \div W
        bit_shift  == rot % W
        low(i) == IF i - word_shift \in 0..NWords(n)-1
                  THEN shl(src[i - word_shift], bit_shift) ELSE {}
        spill(i) == IF bit_shift # 0 /\ i - word_shift - 1 \in 0..NWords(n)-1
                    THEN shr(src[i - word_shift - 1], W - bit_shift) ELSE {}
    IN  [i \in DOMAIN acc |-> xor(xor(acc[i], low(i)), spill(i))]

\* Mutant: the junk above N stays in the top word.
reduce_unmasked(acc, n) ==
    LET from == n \div W
        off  == n % W
        folded(w) == IF off = 0 THEN acc[from + w]
                     ELSE shr(acc[from + w], off) \cup shl(acc[from + w + 1], W - off)
    IN  [w \in 0..MaxWords-1 |-> IF w < NWords(n) THEN xor(acc[w], folded(w)) ELSE {}]

\* Bit t + N is added to bit t; the top word is cut at N.
reduce_wide(acc, n) ==
    LET from == n \div W
        off  == n % W
        folded(w) == IF off = 0 THEN acc[from + w]
                     ELSE shr(acc[from + w], off) \cup shl(acc[from + w + 1], W - off)
        out(w) == xor(acc[w], folded(w))
    IN  [w \in 0..MaxWords-1 |->
            IF w >= NWords(n) THEN {}
            ELSE IF w = NWords(n) - 1 /\ off # 0 THEN mask(out(w), off)
            ELSE out(w)]

-----------------------------------------------------------------------------
(* Slices of the arrays.                                                   *)

Size(of) == CASE of = "acc" -> WideWords
              [] of = "scratch" -> ScratchWords
              [] OTHER -> NWords(N)

At(of, at) == [of |-> of, at |-> at]
From(s, k) == At(s.of, s.at + k)
Words(s, n) == [i \in 0..n-1 |-> mem[s.of][s.at + i]]

\* The memory m with ws written from s on.
Stored(m, s, ws) ==
    [m EXCEPT ![s.of] =
        [i \in DOMAIN @ |-> IF i - s.at \in DOMAIN ws THEN ws[i - s.at] ELSE @[i]]]

-----------------------------------------------------------------------------
(* The leaf of the recursion.                                              *)

\* The sum over F2 of the words F(i), i in S.
XorOver(S, F(_)) == {b \in 0..W-1 : Odd({i \in S : b \in F(i)})}

clmul64(v, w) ==
    [lo |-> XorOver(w, LAMBDA i : shl(v, i)),
     hi |-> XorOver(w \ {0}, LAMBDA i : shr(v, W - i))]

Schoolbook(v, w, n) ==
    LET Pairs(t) == {ij \in (0..n-1) \X (0..n-1) : ij[1] + ij[2] = t}
    IN  [t \in 0..2*n-1 |->
            xor(XorOver(Pairs(t), LAMBDA ij : clmul64(v[ij[1]], w[ij[2]]).lo),
                XorOver(Pairs(t - 1), LAMBDA ij : clmul64(v[ij[1]], w[ij[2]]).hi))]

-----------------------------------------------------------------------------
(* karatsuba.  A call multiplies the n words at a and b into the 2n words  *)
(* at out and may use the arena from word "arena" on; "next" is what it    *)
(* does when it is (again) the innermost call.                             *)

Call(out, a, b, n, arena) ==
    [out |-> out, a |-> a, b |-> b, n |-> n, arena |-> arena, next |-> "start"]

Half(c) == (c.n + 1) \div 2
SumA(c) == At("scratch", c.arena)
SumB(c) == At("scratch", c.arena + Half(c))
Mid(c)  == At("scratch", c.arena + 2*Half(c))

\* Mutant: the recursion may use the words the middle product goes to.
SubSharesMid(c) == c.arena + 2*Half(c)
Sub(c) == c.arena + 4*Half(c)

Low(c)    == Call(c.out, c.a, c.b, Half(c), Sub(c))
High(c)   == Call(From(c.out, 2*Half(c)), From(c.a, Half(c)), From(c.b, Half(c)),
                  c.n - Half(c), Sub(c))
Middle(c) == Call(Mid(c), SumA(c), SumB(c), Half(c), Sub(c))

\* The low half of an operand plus its (possibly shorter) high half.
Sum(s, c) ==
    LET h == Half(c)
    IN  [i \in 0..h-1 |-> IF i < c.n - h THEN xor(Words(s, c.n)[i], Words(s, c.n)[h + i])
                          ELSE Words(s, c.n)[i]]

Depth == Len(calls)
Top == calls[Depth]

Leaf ==
    /\ calls # <<>> /\ Top.next = "start" /\ Top.n <= Threshold
    /\ mem' = Stored(mem, Top.out,
                     Schoolbook(Words(Top.a, Top.n), Words(Top.b, Top.n), Top.n))
    /\ calls' = SubSeq(calls, 1, Depth - 1)
    /\ UNCHANGED <<N, mode, word_idx, word, product>>

\* The innermost call goes on with step "after" once "callee" has returned.
Descend(after, callee) ==
    /\ calls' = Append([calls EXCEPT ![Depth].next = after], callee)
    /\ UNCHANGED <<N, mode, word_idx, word, product>>

Split ==
    /\ calls # <<>> /\ Top.next = "start" /\ Top.n > Threshold
    /\ mem' = Stored(Stored(mem, SumA(Top), Sum(Top.a, Top)), SumB(Top), Sum(Top.b, Top))
    /\ Descend("high", Low(Top))

MultiplyHigh ==
    /\ calls # <<>> /\ Top.next = "high"
    /\ Descend("middle", High(Top))
    /\ UNCHANGED mem

MultiplyMiddle ==
    /\ calls # <<>> /\ Top.next = "middle"
    /\ Descend("combine", Middle(Top))
    /\ UNCHANGED mem

\* Mutant: the product of the high halves is not subtracted.
MidKeepingHigh(c) ==
    [i \in 0..2*Half(c)-1 |-> xor(Words(Mid(c), 2*Half(c))[i], Words(c.out, 2*c.n)[i])]

\* The middle product minus the two others, which are still in out.
MidReduced(c) ==
    LET h   == Half(c)
        out == Words(c.out, 2*c.n)
        mid == Words(Mid(c), 2*h)
    IN  [i \in 0..2*h-1 |->
            IF i < 2*(c.n - h) THEN xor(xor(mid[i], out[i]), out[2*h + i])
            ELSE xor(mid[i], out[i])]

\* It is added across the boundary of the two others.
Combine ==
    /\ calls # <<>> /\ Top.next = "combine"
    /\ LET h   == Half(Top)
           out == Words(Top.out, 2*Top.n)
           mid == MidReduced(Top)
       IN  mem' = Stored(Stored(mem, Mid(Top), mid), From(Top.out, h),
                         [i \in 0..2*h-1 |-> xor(out[h + i], mid[i])])
    /\ calls' = SubSeq(calls, 1, Depth - 1)
    /\ UNCHANGED <<N, mode, word_idx, word, product>>

-----------------------------------------------------------------------------

Init ==
    /\ N \in Sizes
    /\ mode \in {"sparse", "dense"}
    /\ \E A \in Lefts, B \in Rights :
          /\ A \subseteq 0..N-1 /\ B \subseteq 0..N-1
          /\ mem = [a |-> PolyOf(A), b |-> PolyOf(B),
                    acc |-> Zeros(WideWords), scratch |-> Zeros(ScratchWords)]
    /\ word_idx = 0
    /\ word = IF mode = "sparse" THEN mem.a[0] ELSE {}
    /\ calls = IF mode = "sparse" THEN <<>>
               ELSE <<Call(At("acc", 0), At("a", 0), At("b", 0), NWords(N), 0)>>
    /\ product = Pending

\* mul_sparse_dense: the lowest set bit of the word.
ShiftStep ==
    /\ mode = "sparse" /\ word # {}
    /\ \E lsb \in word :
          /\ \A b \in word : lsb <= b
          /\ LET pos == word_idx * W + lsb
             IN  mem' = IF pos < N
                        THEN [mem EXCEPT !.acc = shift_xor_wide(@, mem.b, pos, N)]
                        ELSE mem
          /\ word' = word \ {lsb}
    /\ UNCHANGED <<N, mode, word_idx, calls, product>>

NextWord ==
    /\ mode = "sparse" /\ word = {} /\ word_idx < NWords(N) - 1
    /\ word_idx' = word_idx + 1
    /\ word' = mem.a[word_idx + 1]
    /\ UNCHANGED <<N, mode, mem, calls, product>>

Fold ==
    /\ product = Pending
    /\ \/ mode = "sparse" /\ word = {} /\ word_idx = NWords(N) - 1
       \/ mode = "dense" /\ calls = <<>>
    /\ product' = reduce_wide(mem.acc, N)
    /\ UNCHANGED <<N, mode, mem, word_idx, word, calls>>

Next ==
    \/ ShiftStep \/ NextWord
    \/ Leaf \/ Split \/ MultiplyHigh \/ MultiplyMiddle \/ Combine
    \/ Fold

Spec == Init /\ [][Next]_vars
-----------------------------------------------------------------------------
(* Properties.                                                             *)

\* The exponents of the sparse operand that ShiftStep has consumed.
Taken == {p \in Exponents(mem.a) :
            p \div W < word_idx \/ (p \div W = word_idx /\ p % W \notin word)}

\* mul_sparse_dense: the wide accumulator holds, at its true place and in no
\* other bit, the product of the bits consumed so far and the dense operand
\* (shift_xor_wide across word boundaries and at shifts of whole words).
AccumulatedSoFar ==
    mode = "sparse" =>
        \A t \in 0..W*WideWords-1 :
            t \in Exponents(mem.acc) <=> Coefficient(Taken, Exponents(mem.b), t)

\* Do the 2n words at out hold the product of the n words at a and at b?
Holds(out, a, b, n) ==
    LET A == Exponents(Words(a, n))
        B == Exponents(Words(b, n))
        P == Exponents(Words(out, 2*n))
    IN  \A t \in 0..2*n*W-1 : t \in P <=> Coefficient(A, B, t)

\* karatsuba: whatever a call has computed and still needs, the two sums and
\* the products of the low, the high and the added halves, is intact while
\* later calls use the arena and the output again.
PendingProductsSurvive ==
    \A k \in 1..Depth :
        LET c == calls[k]
            h == Half(c)
            returned == k = Depth
            lowDone  == c.next \in {"middle", "combine"} \/ (c.next = "high" /\ returned)
            highDone == c.next = "combine" \/ (c.next = "middle" /\ returned)
        IN  /\ c.next # "start" =>
                  Words(SumA(c), h) = Sum(c.a, c) /\ Words(SumB(c), h) = Sum(c.b, c)
            /\ lowDone => Holds(c.out, c.a, c.b, h)
            /\ highDone => Holds(From(c.out, 2*h), From(c.a, h), From(c.b, h), c.n - h)
            /\ c.next = "combine" /\ returned => Holds(Mid(c), SumA(c), SumB(c), h)

\* karatsuba: a call that splits finds its sums and its middle product in the
\* arena, and no operand or result reaches past the array it lies in, so no
\* split_at_mut and no slice of the code can panic.
SlicesFit ==
    \A k \in 1..Depth :
        LET c == calls[k]
        IN  /\ c.out.at + 2*c.n <= Size(c.out.of)
            /\ c.a.at + c.n <= Size(c.a.of)
            /\ c.b.at + c.n <= Size(c.b.of)
            /\ c.n > Threshold => c.arena + 4*Half(c) <= ScratchWords

\* Both modes return the product in F2[X]/(X^N - 1), with every bit at and
\* above N zero, so that the reduce() the file's header asks for changes
\* nothing.
IsCyclicProduct ==
    product # Pending =>
        /\ product = PolyOf(CyclicProduct(Exponents(mem.a), Exponents(mem.b), N))
        /\ reduce(product, N) = product
=============================================================================
