------------------------------ MODULE RmDecoder ------------------------------
(***************************************************************************)
(* The inner code (reed_muller.rs): a byte is encoded into a first-order   *)
(* Reed-Muller codeword of Len bits, written Multiplicity times, disturbed *)
(* on the way, and decoded by a Walsh-Hadamard transform of the votes and  *)
(* a scan for the largest magnitude.  The code has Len = 128; the top bit  *)
(* of a message (bit 7 there) is the one of weight Len.                    *)
(***************************************************************************)
EXTENDS Integers, FiniteSets, Functions

CONSTANTS Len,           \* bits of a codeword
          Steps,         \* the butterfly distances 1, 2, 4, ..., Len / 2
          Multiplicity,  \* copies: 3 or 5 in the code
          MaxFlips       \* bound: bits the channel inverts

ASSUME RmAssumption ==
    /\ Len \in Nat \ {0} /\ Multiplicity \in Nat \ {0} /\ MaxFlips \in Nat
    /\ Steps \subseteq Nat \ {0}
    /\ 1 \in Steps \/ Len = 1
    /\ \A s \in Steps : 2 * s <= Len /\ Len % (2 * s) = 0
                        /\ (2 * s \in Steps \/ 2 * s = Len)

VARIABLES
    pc,         \* what runs next
    sent,       \* the byte encoded
    word,       \* the bits of the buffer that are 1, as <<copy, bit>>
    flipped,    \* the bits the channel inverted
    rep,        \* the copy the running loop is at
    f,          \* the votes, then their transform
    step,       \* the distance of the next butterfly stage
    k,          \* the position the scan is at
    best_abs, best_idx, best_neg  \* the scan's running maximum

vars == <<pc, sent, word, flipped, rep, f, step, k, best_abs, best_idx, best_neg>>

Index == 0..Len-1
Copies == 0..Multiplicity-1
Messages == 0..2*Len-1
Zeros == [i \in Index |-> 0]

Init ==
    /\ pc = "encode"
    /\ sent \in Messages
    /\ word = {} /\ flipped = {}
    /\ rep = 0
    /\ f = Zeros
    /\ step = 1
    /\ k = 0
    /\ best_abs = 0 /\ best_idx = 0 /\ best_neg = 0

-----------------------------------------------------------------------------
(* Encoding.                                                               *)

Bit(x, s) == (x \div s) % 2

InnerProduct(x, y) == Cardinality({s \in Steps : Bit(x, s) = 1 /\ Bit(y, s) = 1}) % 2

\* The bits of the codeword of m: all ones when the top bit is set, and one stripe
\* for each lower bit.
rm_encode_byte(m) == {i \in Index : (Bit(m, Len) + InnerProduct(m, i)) % 2 = 1}

EncodeCopy ==
    /\ pc = "encode"
    /\ word' = word \cup {<<rep, i>> : i \in rm_encode_byte(sent)}
    /\ IF rep + 1 < Multiplicity
       THEN rep' = rep + 1 /\ pc' = "encode"
       ELSE rep' = 0 /\ pc' = "channel"
    /\ UNCHANGED <<sent, flipped, f, step, k, best_abs, best_idx, best_neg>>

Disturb ==
    /\ pc = "channel"
    /\ \E e \in SUBSET (Copies \X Index) :
           /\ Cardinality(e) <= MaxFlips
           /\ flipped' = e
           /\ word' = (word \ e) \cup (e \ word)
    /\ pc' = "tally"
    /\ UNCHANGED <<sent, rep, f, step, k, best_abs, best_idx, best_neg>>

-----------------------------------------------------------------------------
(* Decoding.                                                               *)

\* Mutant: 1 - 4 * bit.
VoteShifted(w, i) == IF <<rep, i>> \in w THEN -3 ELSE 1

\* 1 - 2 * bit
Vote(w, i) == IF <<rep, i>> \in w THEN -1 ELSE 1

TallyCopy ==
    /\ pc = "tally"
    /\ f' = [i \in Index |-> f[i] + Vote(word, i)]
    /\ IF rep + 1 < Multiplicity
       THEN rep' = rep + 1 /\ pc' = "tally"
       ELSE rep' = 0 /\ pc' = "wht"
    /\ UNCHANGED <<sent, word, flipped, step, k, best_abs, best_idx, best_neg>>

\* Mutant: the difference is taken the other way round.
ButterflySwapped(g, s) ==
    [i \in Index |-> IF Bit(i, s) = 0 THEN g[i] + g[i + s] ELSE g[i] - g[i - s]]

\* One stage of wht: (a, b) -> (a + b, a - b) for every pair at distance s.
Butterfly(g, s) ==
    [i \in Index |-> IF Bit(i, s) = 0 THEN g[i] + g[i + s] ELSE g[i - s] - g[i]]

WhtStage ==
    /\ pc = "wht"
    /\ step < Len
    /\ f' = Butterfly(f, step)
    /\ step' = 2 * step
    /\ UNCHANGED <<pc, sent, word, flipped, rep, k, best_abs, best_idx, best_neg>>

WhtEnd ==
    /\ pc = "wht"
    /\ step >= Len
    /\ pc' = "scan"
    /\ UNCHANGED <<sent, word, flipped, rep, f, step, k, best_abs, best_idx, best_neg>>

Magnitude(x) == IF x < 0 THEN -x ELSE x

\* Mutant: a later position of equal magnitude wins.
BetterOrEqual(val) == Magnitude(val) >= best_abs

Better(val) == Magnitude(val) > best_abs

ScanStep ==
    LET val == f[k]
    IN  /\ pc = "scan"
        /\ best_abs' = IF Better(val) THEN Magnitude(val) ELSE best_abs
        /\ best_idx' = IF Better(val) THEN k ELSE best_idx
        /\ best_neg' = IF Better(val) THEN (IF val < 0 THEN 1 ELSE 0) ELSE best_neg
        /\ k' = k + 1
        /\ pc' = IF k + 1 < Len THEN "scan" ELSE "done"
        /\ UNCHANGED <<sent, word, flipped, rep, f, step>>

Next == EncodeCopy \/ Disturb \/ TallyCopy \/ WhtStage \/ WhtEnd \/ ScanStep

Spec == Init /\ [][Next]_vars

\* Mutant: the sign is read the other way round.
decoded_byte_inverted == (1 - best_neg) * Len + best_idx

\* (best_neg << 7) | best_idx
decoded_byte == best_neg * Len + best_idx

-----------------------------------------------------------------------------
(* Properties.                                                             *)

TypeOK ==
    /\ pc \in {"encode", "channel", "tally", "wht", "scan", "done"}
    /\ sent \in Messages
    /\ word \subseteq Copies \X Index /\ flipped \subseteq Copies \X Index
    /\ rep \in Copies
    /\ f \in [Index -> Int]
    /\ step \in Steps \cup {Len}
    /\ k \in 0..Len
    /\ pc = "scan" => k < Len
    /\ k # 0 => pc \in {"scan", "done"}
    /\ best_abs \in Nat /\ best_idx \in Index /\ best_neg \in {0, 1}

\* The bound the comment of wht argues from ("after 7 stages the maximum absolute
\* value is 5 * 128 = 640, which fits comfortably in i16"): a vote is at most the
\* number of copies tallied, and each stage at most doubles it.
MagnitudeBound ==
    IF pc \in {"encode", "channel"} THEN 0
    ELSE IF pc = "tally" THEN rep
    ELSE Multiplicity * step
NoOverflow == \A i \in Index : Magnitude(f[i]) <= MagnitudeBound

\* The votes as they were before the transform.
Votes ==
    [i \in Index |-> Multiplicity - 2 * Cardinality({c \in Copies : <<c, i>> \in word})]

\* Between the stages of wht the array is the transform over the bits below step:
\* entry i sums the votes of the indices that agree with i from those bits up, each
\* with the sign of the inner product of the bits below.
SignedVotes(i) ==
    [v \in Index |-> IF InnerProduct(i % step, v % step) = 0 THEN Votes[v] ELSE -Votes[v]]
TransformedSoFar ==
    pc \in {"wht", "scan", "done"} =>
        \A i \in Index :
            f[i] = SumFunctionOnSet(SignedVotes(i), {v \in Index : v \div step = i \div step})

\* The scan keeps the first position of the largest magnitude seen and its sign (the
\* tie-break the header asks for: "choose the one with the smallest value in the low
\* 7 bits").
ScanKeepsFirstPeak ==
    /\ \A i \in 0..k-1 : Magnitude(f[i]) <= best_abs /\ (i < best_idx => Magnitude(f[i]) < best_abs)
    /\ k > 0 =>
          best_idx < k /\ Magnitude(f[best_idx]) = best_abs /\ (best_neg = 1 <=> f[best_idx] < 0)

\* Maximum likelihood: the byte returned is one whose copies lie nearest to the
\* buffer, and of several the one with the smallest low bits, whatever the noise;
\* so noise below half the minimum distance of the copied code is removed.
Copied(m) == Copies \X rm_encode_byte(m)
Distance(m) == Cardinality((word \ Copied(m)) \cup (Copied(m) \ word))
NearestCodeword ==
    pc = "done" =>
        /\ \A m \in Messages :
              \/ Distance(decoded_byte) < Distance(m)
              \/ Distance(decoded_byte) = Distance(m) /\ decoded_byte % Len <= m % Len
        /\ 4 * Cardinality(flipped) < Multiplicity * Len => decoded_byte = sent

\* The header's words ("Equivalently: codeword[i] = parity of (m AND i)").
RowIsParity ==
    pc = "channel" => \A i \in Index : <<0, i>> \in word <=> InnerProduct(sent, i) = 1
=============================================================================
