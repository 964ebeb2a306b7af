---------------------------- MODULE SecretSampler ----------------------------
(***************************************************************************)
(* sample_fixed_weight (sampling.rs): the sampler of the secret y and x.   *)
(* Candidates of three bytes are cut from batches of 3*Weight bytes; one   *)
(* at or above the largest multiple of N is rejected, one whose position   *)
(* is already there is drawn again.  A batch's unused tail is dropped when *)
(* the call returns.  Calls follow each other on the same stream.          *)
(***************************************************************************)
EXTENDS XofReader, FiniteSets

CONSTANTS N,           \* the ring dimension
          Weight,
          ByteRange,   \* the values of a byte: 256 in the code
          MaxCalls,    \* bound: calls on one stream
          MaxSqueezed  \* bound: bytes squeezed, for a stream that keeps repeating

ASSUME SamplerAssumption ==
    /\ {N, Weight, ByteRange} \subseteq Nat \ {0}
    /\ Weight <= N
    /\ N <= ByteRange * ByteRange * ByteRange
    /\ {MaxCalls, MaxSqueezed} \subseteq Nat

VARIABLES
    running,    \* is a call running?
    xof,        \* bytes squeezed from the stream so far
    buf,        \* the current batch
    j,          \* where the next candidate starts in it
    positions,  \* the positions written
    filled,     \* how many of them are accepted
    poly,       \* the polynomial the last call returned: its exponents
    delivered   \* the number of calls that have returned

vars == <<running, xof, buf, j, positions, filled, poly, delivered>>

Batch == 3 * Weight
CandidateRange == ByteRange * ByteRange * ByteRange
\* Mutant: every candidate is accepted.
ThresholdFull == CandidateRange

Threshold == (CandidateRange \div N) * N
NoBatch == [b \in 0..Batch-1 |-> 0]
NoPositions == [k \in 0..Weight-1 |-> 0]

Init ==
    /\ running = FALSE
    /\ xof = 0
    /\ buf = NoBatch
    /\ j = Batch
    /\ positions = NoPositions
    /\ filled = 0
    /\ poly = {}
    /\ delivered = 0

-----------------------------------------------------------------------------

\* j = batch makes the first candidate read a fresh batch.
Call ==
    /\ ~running
    /\ delivered < MaxCalls
    /\ running' = TRUE
    /\ j' = Batch
    /\ filled' = 0
    /\ UNCHANGED <<xof, buf, positions, poly, delivered>>

Refill ==
    /\ running /\ filled < Weight
    /\ j = Batch
    /\ xof + Batch <= MaxSqueezed
    /\ buf' \in [0..Batch-1 -> 0..ByteRange-1]
    /\ xof' = xof_get_bytes(xof, Batch)
    /\ j' = 0
    /\ UNCHANGED <<running, positions, filled, poly, delivered>>

\* A candidate is a big-endian number of three bytes.
Candidate(b, k) ==
    (b[k] * ByteRange + b[k + 1]) * ByteRange + b[k + 2]

Accepted(cand) == cand < Threshold

Position(cand) == cand % N

Reject ==
    /\ running /\ filled < Weight
    /\ j # Batch
    /\ ~Accepted(Candidate(buf, j))
    /\ j' = j + 3
    /\ UNCHANGED <<running, xof, buf, positions, filled, poly, delivered>>

\* Mutant: the scan stops one entry early.
IsDuplicateShort(pos) == \E k \in 0..filled-2 : positions[k] = pos

IsDuplicate(pos) == \E k \in 0..filled-1 : positions[k] = pos

\* Mutant: a repeated position counts as accepted.
TakeUnchecked ==
    LET pos == Position(Candidate(buf, j))
    IN  /\ running /\ filled < Weight
        /\ j # Batch
        /\ Accepted(Candidate(buf, j))
        /\ j' = j + 3
        /\ positions' = [positions EXCEPT ![filled] = pos]
        /\ filled' = filled + 1
        /\ UNCHANGED <<running, xof, buf, poly, delivered>>

\* The position is written first and kept only when it is new.
Take ==
    LET pos == Position(Candidate(buf, j))
    IN  /\ running /\ filled < Weight
        /\ j # Batch
        /\ Accepted(Candidate(buf, j))
        /\ j' = j + 3
        /\ positions' = [positions EXCEPT ![filled] = pos]
        /\ filled' = IF IsDuplicate(pos) THEN filled ELSE filled + 1
        /\ UNCHANGED <<running, xof, buf, poly, delivered>>

Return ==
    /\ running /\ filled = Weight
    /\ poly' = {positions[k] : k \in 0..Weight-1}
    /\ delivered' = delivered + 1
    /\ running' = FALSE
    /\ buf' = NoBatch
    /\ j' = Batch
    /\ positions' = NoPositions
    /\ filled' = 0
    /\ UNCHANGED xof

Next == Call \/ Refill \/ Reject \/ Take \/ Return

Spec == Init /\ [][Next]_vars

-----------------------------------------------------------------------------
(* Properties.                                                             *)

TypeOK ==
    /\ running \in BOOLEAN
    /\ xof \in Nat
    /\ buf \in [0..Batch-1 -> 0..ByteRange-1]
    /\ j \in {3 * k : k \in 0..Weight}
    /\ positions \in [0..Weight-1 -> 0..N-1]
    /\ filled \in 0..Weight
    /\ poly \subseteq 0..N-1
    /\ delivered \in 0..MaxCalls
    /\ running => delivered < MaxCalls

\* The accepted prefix holds no position twice, although the entry after it may
\* hold one the prefix already has (written before the duplicate scan).
AcceptedAreDistinct ==
    \A k, l \in 0..filled-1 : k # l => positions[k] # positions[l]

\* Every position that is still free is backed by equally many candidates, and by
\* at least one: the draw is uniform given what was accepted, and it can always go
\* on (this is what the threshold is for).
Backing(p) == Cardinality({c \in 0..CandidateRange-1 : Accepted(c) /\ Position(c) = p})
Free == {p \in 0..N-1 : ~IsDuplicate(p)}
FreePositionsAreEquallyLikely ==
    (running /\ filled < Weight) =>
        /\ Free # {}
        /\ \E n \in 1..CandidateRange : \A p \in Free : Backing(p) = n

\* Whatever was rejected or repeated, the stream stands at a whole unit between the
\* reads, so x, drawn after y, starts where the reference's x starts.
ReadsStartAligned == xof % Unit = 0

Fixed == INSTANCE FixedWeight

\* Every call that returns delivers a ring polynomial of exactly the weight asked.
DeliversFixedWeight == Fixed!Spec
=============================================================================
