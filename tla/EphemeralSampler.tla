-------------------------- MODULE EphemeralSampler --------------------------
(***************************************************************************)
(* sample_fixed_weight_mod (sampling.rs): the sampler of r2, e and r1.     *)
(* One read of 4*Weight bytes gives Weight numbers; number i becomes a     *)
(* position in i..N-1; a backward pass replaces a position that a later    *)
(* entry already has by its own index; then the words of the polynomial    *)
(* are filled one by one.  Calls follow each other on the same stream.     *)
(***************************************************************************)
EXTENDS XofReader, FiniteSets

CONSTANTS N,          \* the ring dimension
          Weight,
          RandRange,  \* the numbers a read yields: 2^32 in the code
          WordBits,   \* bits of a word of the polynomial: 64 in the code
          MaxCalls    \* bound: calls on one stream

ASSUME SamplerAssumption ==
    /\ {N, Weight, RandRange, WordBits} \subseteq Nat \ {0}
    /\ Weight <= N
    /\ MaxCalls \in Nat

VARIABLES
    phase,      \* what the running call does next
    xof,        \* bytes squeezed from the stream so far
    rand,       \* the numbers read
    support,    \* the positions
    i,          \* the index of the running loop
    words,      \* the polynomial under construction: the bits set in each word
    poly,       \* the polynomial the last call returned
    delivered   \* the number of calls that have returned

vars == <<phase, xof, rand, support, i, words, poly, delivered>>

Index == 0..Weight-1
NWords == (N + WordBits - 1) \div WordBits
NoBits == [w \in 0..NWords-1 |-> {}]

Init ==
    /\ phase = "read"
    /\ xof = 0
    /\ rand = [k \in Index |-> 0]
    /\ support = [k \in Index |-> 0]
    /\ i = 0
    /\ words = NoBits
    /\ poly = NoBits
    /\ delivered = 0

-----------------------------------------------------------------------------

\* All the bytes of a call, in one read.
Read ==
    /\ phase = "read"
    /\ delivered < MaxCalls
    /\ rand' \in [Index -> 0..RandRange-1]
    /\ xof' = xof_get_bytes(xof, 4 * Weight)
    /\ phase' = "draw"
    /\ i' = 0
    /\ support' = [k \in Index |-> 0]
    /\ UNCHANGED <<words, poly, delivered>>

\* Mutant: the range is one short of N - i.
ScaledOneShort(k, r) == k + (r * (N - k - 1)) \div RandRange

\* i + ((rand * (N - i)) >> 32)
Scaled(k, r) == k + (r * (N - k)) \div RandRange

Draw ==
    /\ phase = "draw"
    /\ support' = [support EXCEPT ![i] = Scaled(i, rand[i])]
    /\ IF i + 1 < Weight
       THEN phase' = "draw" /\ i' = i + 1
       ELSE phase' = "dedup" /\ i' = Weight - 1
    /\ UNCHANGED <<xof, rand, words, poly, delivered>>

\* Mutants: the scan starts one entry late; there is no backward pass.
ResolvedLate(s, k) == IF \E j \in k+2..Weight-1 : s[j] = s[k] THEN k ELSE s[k]
ResolvedNever(s, k) == s[k]

\* Entry k as the backward pass leaves it.
Resolved(s, k) == IF \E j \in k+1..Weight-1 : s[j] = s[k] THEN k ELSE s[k]

\* Mutant: the index wraps at 0 and the pass starts over.
DedupWrapping ==
    /\ phase = "dedup"
    /\ support' = [support EXCEPT ![i] = Resolved(support, i)]
    /\ i' = IF i > 0 THEN i - 1 ELSE Weight - 1
    /\ UNCHANGED <<phase, xof, rand, words, poly, delivered>>

Dedup ==
    /\ phase = "dedup"
    /\ support' = [support EXCEPT ![i] = Resolved(support, i)]
    /\ IF i > 0
       THEN phase' = "dedup" /\ i' = i - 1
       ELSE phase' = "words" /\ i' = 0
    /\ UNCHANGED <<xof, rand, words, poly, delivered>>

\* Mutant: the last entry is left out.
BitsOfWordShort(s, w) ==
    {s[k] % WordBits : k \in {l \in 0..Weight-2 : s[l] \div WordBits = w}}

\* The bits of the positions that fall into word w.
BitsOfWord(s, w) ==
    {s[k] % WordBits : k \in {l \in Index : s[l] \div WordBits = w}}

SetWord ==
    /\ phase = "words"
    /\ i < NWords
    /\ words' = [words EXCEPT ![i] = BitsOfWord(support, i)]
    /\ i' = i + 1
    /\ UNCHANGED <<phase, xof, rand, support, poly, delivered>>

\* The polynomial goes to the caller; the call's locals go out of scope.
Return ==
    /\ phase = "words"
    /\ i = NWords
    /\ poly' = words
    /\ delivered' = delivered + 1
    /\ phase' = "read"
    /\ i' = 0
    /\ words' = NoBits
    /\ rand' = [k \in Index |-> 0]
    /\ support' = [k \in Index |-> 0]
    /\ UNCHANGED xof

Next == Read \/ Draw \/ Dedup \/ SetWord \/ Return

Spec == Init /\ [][Next]_vars /\ WF_vars(Next)

-----------------------------------------------------------------------------
(* Properties.                                                             *)

Words == [0..NWords-1 -> SUBSET (0..WordBits-1)]

TypeOK ==
    /\ phase \in {"read", "draw", "dedup", "words"}
    /\ xof \in Nat
    /\ rand \in [Index -> 0..RandRange-1]
    /\ support \in [Index -> 0..N-1]
    /\ i \in 0..(NWords + Weight)
    /\ phase \in {"draw", "dedup"} => i \in Index
    /\ phase = "words" => i \in 0..NWords
    /\ words \in Words /\ poly \in Words
    /\ delivered \in 0..MaxCalls
    /\ phase # "read" => delivered < MaxCalls

\* The argument of the source's step 2: entry k is never below k, so once the
\* entries after i are settled none of them is i, and i is free to stand in for a
\* duplicate.  Settled entries stay pairwise different (sample_fixed_weight_mod).
Settled(k) == (phase = "dedup" /\ k > i) \/ phase = "words"
Drawn(k) == phase \in {"dedup", "words"} \/ (phase = "draw" /\ k < i)

SettledAreDistinct ==
    /\ \A k \in Index : Drawn(k) => support[k] >= k
    /\ \A k, l \in Index :
           (Settled(k) /\ Settled(l) /\ k # l) => support[k] # support[l]

\* The exponents of a polynomial held in words.
Exponents(ws) == {p \in 0..NWords*WordBits-1 : p % WordBits \in ws[p \div WordBits]}

\* The words filled so far hold exactly the positions below the word reached: no
\* position is lost, moved or set at or above N.
FilledWordsHoldSupport ==
    phase = "words" =>
        Exponents(words) = {support[k] : k \in {l \in Index : support[l] < i*WordBits}}

\* The next call on the stream starts at a whole unit, as the reference reads it
\* (xof_get_bytes: what keeps e and r1, drawn after r2, in step).
CallsStartAligned == phase = "read" => xof % Unit = 0

\* The doc comment of the function ("no rejection — exactly `4·weight` bytes consumed
\* from `xof`", sampling.rs) read as a count of bytes taken from the stream.
ConsumesFourPerPosition == phase = "read" => xof = delivered * 4 * Weight

\* As even as RandRange numbers can fall on the N - i positions an entry may take:
\* no position gets two numbers more than another (when drawing entry i).
Preimages(k, p) == Cardinality({r \in 0..RandRange-1 : Scaled(k, r) = p})
DrawIsBalanced ==
    phase = "draw" =>
        \A p, q \in i..N-1 : Preimages(i, p) <= Preimages(i, q) + 1

Fixed == INSTANCE FixedWeight WITH poly <- Exponents(poly)

\* Every call delivers a ring polynomial of exactly the weight asked for.
DeliversFixedWeight == Fixed!Spec

\* No rejection: every call returns.
AllCallsReturn == <>(delivered = MaxCalls)
=============================================================================
