# hqcr in TLA+

A verification development for `hqcr`, a pure-Rust implementation of HQC, the
code-based key-encapsulation mechanism (parameter sets HQC-128, HQC-192 and
HQC-256). Source paths below are relative to `src/src/` of this tree.

The library is sequential: no threads, no callbacks, no I/O of its own. What makes it
hard is elsewhere: functions that must reproduce one stream of pseudo-random bytes in
the right order and to the byte; a decapsulation that must give away nothing about
forged, damaged or replayed ciphertexts; a key that is kept as 32 bytes and derived
again; in-place transforms and masked loops written for constant time, whose control
is hidden in arithmetic; and error-correcting decoders that act before they know
whether the word can be corrected.

## Inventory

| Part | State it keeps | Operations | Talks to | What is hard | What makes it correct |
|---|---|---|---|---|---|
| `kem.rs` key encapsulation | decapsulation key (`seed_kem`, sigma, PKE key, public key), compressed to 32 bytes | `keygen`, `keygen_from_seed`, `to_bytes`, `from_bytes`, `encaps`, `encaps_deterministic`, `decaps` | `pke.rs`, `hash.rs`, `parsing.rs` | restarts; altered, spliced, replayed, truncated bytes; a decode that fails half-way | same key on both sides; a key comes out for exactly one byte string; rejection keys are a function of key and bytes |
| `pke.rs` public-key encryption | none (`DecryptionKey` is a seed) | `keygen`, `encrypt`, `decrypt`, `truncate_to_bits` | samplers, `mul.rs`, `codes/` | order of the draws from one stream; noise beyond the code's reach; junk above bit N | decrypt inverts encrypt while the noise is small; both sides compute on the same elements |
| `parsing.rs` wire formats | none | pack and unpack of keys and ciphertexts | `kem.rs`, `pke.rs` | stray bits in a last byte; wrong lengths; bytes against 64-bit words | round trips; nothing non-canonical survives a re-serialisation |
| `hash.rs` | none | `h_ek`, `g`, `j`, `xof`, `i_pke_seed` | all above | which inputs go into which role, and which domain byte | separation of the roles |
| `poly/sampling.rs` | position in the XOF stream, batch buffer, support array | `sample_fixed_weight`, `sample_fixed_weight_mod`, `sample_uniform` | `hash.rs`, `pke.rs` | alignment of successive reads; rejection; duplicates resolved in place | exact weight, uniformity, alignment |
| `codes/reed_muller.rs` inner code | vote array, running maximum | `rm_encode`, `wht`, `rm_decode` | `codes/mod.rs` | in-place butterflies, i16 range, ties | a nearest codeword is found |
| `codes/reed_solomon.rs` outer code | locator and its predecessor, wrapping u16 counters, corrected word | `rs_encode`, `rs_decode` with `berlekamp_massey` and helpers | `gf.rs`, `codes/mod.rs` | masked updates, shortened code, validity known only at the end | a bounded-distance decoder, no more and no less |
| `gf.rs` field | two constant tables | `gf_add` ... `gf_poly_eval` | `reed_solomon.rs` | reduction at the top bit, inversion chain | agrees with the tables for all arguments |
| `codes/mod.rs` concatenated code | none | `encode`, `decode` | `pke.rs`, both codes | block layout; words against bytes; bits above the codeword | the composition corrects what its parts promise |
| `poly/mod.rs` ring elements | words of a polynomial, in an array larger than its ring | `add`, `add_assign`, `reduce`, bit access | everything | every operation leaves the words above its own alone and relies on them being zero | the sum over F2; canonical stays canonical |
| `poly/mul.rs` ring multiplication | wide accumulator, scratch arena, stack of calls | `mul_sparse_dense`, `mul_dense_ct`, `shift_xor_wide`, `reduce_wide`, `karatsuba` | `pke.rs` | word boundaries, the fold at bit N, the size and the reuse of the arena, products added in place across each other | product modulo X^N - 1; no slice out of range |
| `params.rs` parameter sets | constants | compile-time assertions | all | sizes that must fit each other | the assumptions of all other parts hold of the real sets |
| `lib.rs` | none | re-exports | all | | |

The hazards, each with its line and the properties aimed at it, are listed in
`PROJECT.json`.

## Modules

| Module | Models | How state and actions correspond to the code |
|---|---|---|
| `Params` | `params.rs` | The three real parameter sets and their derived sizes. Its assumptions are the compile-time assertions of the file, and that the real values satisfy what the other modules (and the theorems about them) assume; TLC evaluates them in the run `ring_mul`. |
| `Hash` | `hash.rs` | A hash output is a record of the Keccak function, the domain byte and the parts absorbed in their order, as each wrapper builds it. It is injective in these, which is the assumption the code makes of Keccak; that the roles are separated is not assumed, it follows from the domain bytes and the lists of parts. |
| `SymbolicPke` | `pke.rs` as seen from `kem.rs` | A polynomial is named by the stream and the draw it came from. `pke_decrypt` finds the message when the `h`, `y` and `r2` that meet are the same polynomials (`Cancels`) and the constant `Correctable` accepts the noise; otherwise it returns whatever the constant `Unrelated` says. `Pke` below is the same scheme bit by bit: `NoiseIdentity` is what `Cancels` stands for. |
| `KemWire` | `parsing.rs` as seen from `kem.rs` | A byte string is a record of components, with `size` ("exact" or "other") and `stray` (bits above N in the last byte of a ring element). Packing clears stray bits, unpacking drops them or fails on the length; `ReserializesExactly` of `Pke` shows this of the bits. |
| `Kem` | `kem.rs` in use | `dk` is the key in memory, `saved` the compressed key the owner kept, `board` and `net` the byte strings in circulation, `sent` and `answers` the history. `Keygen`, `Encaps`, `Decaps`, `Restore` are calls; `Save`, `Stop`, `AlterKey`, `AlterCiphertext`, `AlterSaved` are the surroundings. |
| `IdealKem` | abstract | A ciphertext established with a key is answered with that key, every other with its rejection key. |
| `XofReader` | `xof_get_bytes` | The stream is the number of bytes taken from it. |
| `EphemeralSampler` | `sample_fixed_weight_mod` | One action per iteration of each loop: `Read`, `Draw`, `Dedup`, `SetWord`, `Return`. |
| `SecretSampler` | `sample_fixed_weight` | `Refill`, `Reject`, `Take` (which writes the candidate and only then looks for a duplicate), `Return`. |
| `FixedWeight` | abstract | Each call delivers a polynomial of the ring with exactly `Weight` coefficients. |
| `Poly` | `poly/mod.rs` | An element is an array of `MaxWords` words, a word the set of its bits that are 1. `Exponents` reads an array as a polynomial; `Coefficient` and `CyclicProduct` are the reference definitions of a product. |
| `RingMul` | `poly/mul.rs` | `mem` is the two operands, the accumulator and the arena. `ShiftStep`, `NextWord` are the loops of `mul_sparse_dense`; `Split`, `MultiplyHigh`, `MultiplyMiddle`, `Combine` and `Leaf` are what happens between two recursive calls of `karatsuba`, on an explicit stack `calls` whose slices are places in `mem`; `Fold` is `reduce_wide`. |
| `BitPacking` | `pack`, `unpack`, the byte conversions of `codes/mod.rs`, `truncate_to_bits`, `sample_uniform` | Pure operators on arrays of words and sequences of bytes. |
| `Codec` | `codes/mod.rs` | The composition of the two codes, which are parameters, down to the bytes and words. |
| `Pke` | `pke.rs` with the four formats of `parsing.rs` | `Keygen`, `Encrypt`, `Decrypt` are calls; `DamageKey` and `DamageCiphertext` shorten or invert bits of what travels between the owner and a sender. What a seed expands to is chosen at the start, in the order the samplers deliver it. |
| `RmDecoder` | `reed_muller.rs` | `EncodeCopy` per copy, `Disturb`, `TallyCopy` per copy, `WhtStage` per stage (the butterflies of a stage are disjoint), `ScanStep` per position. |
| `Gf`, `GfTables`, `MCField` | `gf.rs` | A byte is the set of its bits. `GfTables` runs the table loop. `MCField` tabulates a small field as numbers for the modules that need one. |
| `BerlekampMassey` | `berlekamp_massey` | One action per iteration; `pp` is the u16 that starts at 65535 and the growth test reads the sign bit of the wrapped difference. |
| `RsDecoder` | `rs_encode`, `rs_decode` | The fixed pipeline; it extends `BerlekampMassey`, whose actions are the steps of its locating phase, and scans one position per step. |
| `BoundedDistance` | abstract | A word within `Delta` symbols of a codeword is answered with that codeword's message, every other with nothing. |
| `KemProofs`, `PkeProofs`, `EphemeralSamplerProofs`, `SecretSamplerProofs`, `RmDecoderProofs`, `RsDecoderProofs`, `RingMulProofs`, `PolyLemmas` | | Theorems; see below. |

How they fit: `Kem` works on names and needs three facts about them. That equal streams
give equal polynomials is by construction; that what decrypts is exactly what was
encrypted is `Pke`; that packing is lossless is `BitPacking`. `Pke` in turn uses the
product that `RingMul` is shown to compute, and the decoders at their promise:
`RmDecoder!NearestCodeword` through `MCInnerCode`, `BoundedDistance` (which `RsDecoder`
implements) through `MCPke`, both on top of the encoders of those modules.

`MCKem`, `MCPke` (with `MCInnerCode`), `MCRingMul`, `MCBerlekampMassey` and
`MCRsDecoder` give the constants their values for TLC.
Definitions marked "Mutant" are slips that a plausible bug would make; each one breaks
a property, which shows that the property depends on that line of the code.

## Runs and bounds

Every cfg sets `CHECK_DEADLOCK FALSE`: each model has a bounded number of calls, after
which it rightly stops (a decoder that has answered, an owner without further
questions).

| Run | Instance | What it shows |
|---|---|---|
| `kem` | 2 seeds (symmetric), 2 messages, one of them the zero message that stands in for a failed decode, 2 salts, one of which draws noise out of reach; up to 2 encapsulations, 2 decapsulations, 2 alterations, 3 of these events in all (`MaxEvents`); up to 2 error patterns each on u and v | Agreement, one key per ciphertext and key across restarts, a sender's key only for the sender's exact bytes, refinement of `IdealKem`. Splicing needs two encapsulations, a damaged public key meeting a damaged ciphertext or kept key needs two alterations; both leave room for the decapsulation that would show it. |
| `pke` | words of 6 bits in 3 bytes of 2, N = 19 (3 words and 1 bit), 3 blocks of 3 copies of 2 bits over GF(4), one correctable symbol; 3 key streams, 2 uniform streams, 42 noise streams, 2 messages; a key or a ciphertext shortened, one bit of the key inverted above N, one of u (two of them at the edge and above N) or of v | As in the real sets the codeword fills whole words and N is a few bits longer. Noise of weight up to 6 in the products and streams that concentrate it in one block, spread it, or exceed what the code corrects. |
| `ring_mul` | words of 3 bits; N = 6 (full words), 8 and 13 (partial last words); recursion threshold 2, so 5 words recurse twice with unequal halves; slack 8; on one side all operands of up to two coefficients and four dense patterns, on the other seven positions around word boundaries, zero, and the patterns | Every call of the recursion intact while later ones reuse the arena; no slice out of range; both modes return the reduced product. |
| `ephemeral_sampler` | N = 6, weight 3, 8 random values, words of 4 bits, 2 calls | All 512 reads of each of two calls on one stream. Weight 3 leaves room for a chain of two duplicates, 6 positions span a full and a partial word, 12 bytes are not a multiple of 8. Random values do not divide evenly into the ranges, so balance is a real question. |
| `ephemeral_bytes` | as above | Expected violation: the doc comment's byte count. |
| `secret_sampler` | N = 5, weight 2, bytes of 3 values (27 candidates, 25 accepted), up to 24 bytes | Rejections, duplicates and refills in the middle of a polynomial, a second call after each. |
| `rm_decoder` | codewords of 4 bits in 3 copies, up to 4 of 12 bits inverted | Beyond half the distance, so that ties and wrong answers occur as well. |
| `rm_encoder_doc` | as above without noise | Expected violation: the header's formula for a codeword bit. |
| `gf_tables` | the code's own field | All 256 table steps, all products, all inverses. No bound is involved. |
| `berlekamp_massey` | GF(4), Delta = 3, all 4096 syndrome sequences | Including those no error pattern produces, where the register outgrows the buffer. |
| `rs_decoder` | GF(16), Delta = 2, 2 message symbols (a shortened code of length 6), 2 messages, all errors of weight up to 3 with values from {2, 13} | A bounded-distance decoder; the three final checks of `rs_decode` never disagree, so each is a safeguard of the others. The values are chosen so that some errors of weight 3 land within 2 of another codeword and others do not. `gf_inv`'s chain computes a^254, which inverts in GF(16) and GF(4) as well. |
| `rs_beyond_delta` | as above | Expected violation: such a word is decoded. |

The sampler and inner-code modules have a `TypeOK` that is proved and not also run.

`AllCallsReturn` is the only liveness property. Its fairness is weak fairness of the
next step, which a sequential function has by running. The rejection sampler has no
such property: it ends with probability one only.

## What is proved

The theorems hold for every value of the constants under the `ASSUME`s of the modules.

* `KemProofs`. The inductive invariant is `KemInv`: types, the published key, and the
  fact that every ciphertext in circulation, altered or not, carries the ephemeral `r2`
  of some encapsulation that happened. The last part is what makes `IdealKem` provable:
  without it a decapsulation could have answered a byte string before the sender made
  it. From it follow type correctness, exactness, one key per ciphertext, agreement,
  and the refinement. Agreement is stated about the noise, not about what `pke_decrypt`
  answers; that noise within reach decodes is a lemma about the draws in `pke.rs`. They
  rest on `Hash` being injective in what it absorbs, which is the model of Keccak, and
  on no assumption about `Correctable` or `Unrelated`.
* `PolyLemmas`. Theorems about the operators of `Poly` and `BitPacking` for every word
  size, byte size and N: packing and parsing bit by bit, that parsing returns canonical
  elements whatever arrived, that it inverts packing, that packing what was parsed
  clears exactly the bits at and above N (the comparison in `decaps`), that the cut of
  `truncate_to_bits` and of `sample_uniform` is exact, that `add` is the sum over F2.
  Everything reduces to one coordinate, the pair of word and bit of an exponent. Its
  lemmas about `CyclicProduct` are the laws of the ring F2[X]/(X^N - 1): the product
  distributes over the sum, commutes and associates. They are proved by induction over
  finite sets of exponents (`SubsetInduction`), one exponent added at a time.
* `PkeProofs`. All five properties of `Pke`, for every word and byte size, every N, every
  shape of the codeword that fits the ring, and whatever is damaged on the way. The
  inductive invariant (`Inv`) says how each value came about from the ones before it: the
  streams were expanded from what the samplers may deliver; the key in use is the one
  generated or one damage away from it; what is on the wire is the packing of what was
  encrypted under it, damaged at most as the model damages it; what was read is the
  parse, and the result the decoding, of exactly those bytes. Each property is then a
  statement about the operators: canonical operands and the two about re-serialising
  follow from `PolyLemmas`; `NoiseIdentity` is the cancellation of `h y r2` between the
  two sides, by the laws of the ring; `RecoversMessage` counts the blocks the noise
  spoils. The last rests on `CodesPromise` of `Codec`, an assumption on the component
  codes that the two decoders' modules discharge: that the inner decoder answers correctly
  when less than a quarter of a block's bits are wrong is `InnerPromise`, of every decoder
  with the property `NearestCodeword` of `RmDecoder`; that the outer decoder corrects up to
  `Delta` symbols is `OuterPromise`, of every decoder that answers as `BoundedDistance`.
* `RingMulProofs`. `ArenaSuffices`: the source gives the size of the arena as an
  estimate over all levels. The invariant (`CallInv`) says of the call at depth k, on n
  words with its scratch from word a on, that (n - 1) k is at most `NWords(N) - 1` and
  that a + 4 n is at most 4 `NWords(N)` + 4 (k - 1). A call that still splits has n above
  the threshold, so k is small, so the 4 (k - 1) words that rounding up has cost fit into
  the slack.
  `RingMulAssumption` (`MaxWords <= Threshold * (Slack \div 4 + 1)`) is all it needs, and
  `Params` shows it of 901 words, threshold 16, slack 256. `SparseAccumulates`: the wide
  accumulator is at every step the product, over F2[X], of the exponents consumed so
  far; the step adds one exponent, and a parity argument turns that into one symmetric
  difference. The invariant (`SparseInv`) adds that the fold makes the product in the ring
  of it, which is the sparse half of `ProductIsCyclic`.
  For the dense multiplication three things come together. The algebra: products of
  single words add up to the product of arrays (`PairByPair`, `LeafProduct`), and
  Karatsuba's three half-size products, folded in at their places, to that of the
  whole (`KaratsubaIdentity`, `CombinedProduct`), for uneven halves too. The frame: a
  call writes only its output and its arena from its own mark on, so what an active
  call still needs is outside what the calls below it may write (`Placed`, `Within`,
  `Frame`, `KeptSurvives`). The stack: `DenseInv` says that every call is `Within` its
  callers, that each has `Kept` what its `next` step requires (the sums of the halves,
  the product of the low ones, then of the high ones), that neighbours on the stack are
  caller and callee, and that a callee which returned left its product. One lemma per
  kind of step (`StackDescends`, `StackReturns` and the leaf, combine and fold lemmas)
  keeps it; `PendingSurvives` and `ProductIsCyclic` follow.
* `EphemeralSamplerProofs`. `SettledAreDistinct` needs the lower bound support[k] >= k,
  which is the argument of the source's comment; the exact weight needs in addition that
  the words hold the image of the support, and that an injective image of `Weight`
  indices has `Weight` members. `DrawsEvenly` counts the random values scaled to a
  position: they are an interval between two ceilings, and neighbouring ceilings of an
  even share differ by the share rounded down or up.
* `SecretSamplerProofs`. The prefix is distinct because an entry joins it only after the
  comparison; alignment because a read ends on a unit for every length (`ReadAligns`).
  `DrawIsUniform`: the candidates below the bound that reduce to a position are one per
  full turn of N, and the bound is a whole number of turns.
* `RmDecoderProofs`. A stage doubles the bound on the magnitudes, so the last one is
  below `Multiplicity * Len`; the scan keeps the first of the largest magnitudes.
  `WhtIsTransform`: the invariant (`CodeInv`) says that the buffer is the sent codeword
  in every copy but for the bits flipped, that the tally so far counts the copies read,
  and that after each stage an entry is the signed sum over its block; `BlocksJoin` and
  `SignDoubles` show that a butterfly turns two sums over half a block into two over the
  whole. `DecodesToNearest` connects this with distances: an entry of the finished
  transform is the number of agreeing bits minus the number of disagreeing ones
  (`TransformMeasures`), so the first largest magnitude is a nearest codeword; two
  codewords differ in half of their bits or more (`CodewordsDiffer`), so less than a
  quarter of wrong bits leaves only one. `InnerPromise` says the same of blocks, in which
  `rm_encode` writes one copy after the other.
* `RsDecoderProofs`, first part: `BerlekampMassey`. For the counters, `LengthInv` says
  that before the first length change `pp` is 65535 and both lengths are 0, and that
  afterwards the two lengths add up to the step after the change. With `4 * Delta` below
  32768 the wrapped differences are then the true ones and the sign bit is the
  comparison. For the register, `RegisterInv` says that `sigma` locates the first `mu` syndromes: it has
  constant term 1 and no coefficient above its degree, its product with the syndromes
  (`Conv`) is 0 at every coefficient from its degree to `mu`, and no shorter register has
  that; that `d` is coefficient `mu`; and that, once the length has changed, X times the
  earlier register misses coefficient `mu` by exactly `d_p`. All claims about products
  are conditional on degrees up to `Delta`, because the buffers hold no more and what is
  shifted beyond is lost; the proof shows that nothing lost is used again. A step then
  cancels the discrepancy (`StepLocates`), and a longer register is the shortest by
  Massey's lemma (`RegistersAgree`), which adds a table of products by rows and by
  columns (`SumsExchange`). `FieldAssumption` is used: the laws of a field in which
  adding is XOR. The sums are folds over a set in an order that is not specified; that
  the order does not matter is `RunningAdds`.
* `RsDecoderProofs`, second part: `RsDecoder`. The theorems are the four properties of
  its run: `EncodingIsSystematic`, `ScanAlwaysCorrects`, `ChecksAlwaysAgree` and the
  refinement `DecodesWithinDelta`, for every field, `Delta`, `K` and received word. They
  assume the laws of the field (`FieldAssumption`) and of the table of powers
  (`PowersAssumption`: products, and at least as many distinct powers as the code has
  positions), which the third part proves of `gf.rs`; in GF(4) and GF(16) TLC also
  evaluates them, for numbers in place of sets of bits.
  - The invariant (`DecoderInv`) adds to `LengthInv` and `RegisterInv` what each stage
    leaves: the word is the encoding of the message, `berlekamp_massey` ran on the
    syndromes of the received word, the positions scanned are corrected exactly at the
    roots and by the error value, and the roots are counted.
  - Most facts are equations between linear maps (`Linear`), and two linear maps that
    agree on unit vectors agree everywhere (`LinearAgree`). So a claim about all words or
    all polynomials is shown of one position or one power of X. Horner's rule and the
    syndromes are such maps (`EvalLinear`, `SyndromesLinear`).
  - Finding the errors: the product of the (1 + X_p x) over the errors' positions
    reproduces the syndromes (`LocatorExists`), so the shortest register is no longer
    (`ShortEnough`); and a register that reproduces enough of them cancels the geometric
    sequence of each single error (`KillsErrors`), so every error's inverse locator is a
    root. A register of length L has at most L roots (`RootCount`). So length and roots
    are those of the errors (`ErrorsFound`).
  - Correcting them: at a root, evaluator and derivative differ by the factor the error
    value (`ForneyHolds`), and the derivative is not 0 there since the roots are simple
    (`RootsAreSimple`).
  - The checks: when the register has as many roots as its length, the corrections have
    the received word's syndromes whatever that word was (`CorrectionExplains`, from
    the same formula read backwards and `Deconvolves`); when they have, `ErrorsFound`
    applies to them. Two codewords never differ in 2 `Delta` places or fewer
    (`NoSyndromesNoErrors`), so the answer is the only message near enough.
  - Encoding: the generator vanishes at its powers of alpha (`GeneratorVanishes`), each
    step of the division subtracts a multiple of it (`SubtractIs`), and what is left is
    the parity (`Encoded`).

* `RsDecoderProofs`, third part: `Gf` and `GfTables`, the field of the other two. The
  theorems hold for every width and every modulus that meet two assumptions, which TLC
  evaluates for the real ones: no power of alpha before the last is 1
  (`GeneratorAssumption`, which the tests of `gf.rs` check as well), and the order of the
  group divides 255 (`ChainAssumption`, without which the addition chain inverts nothing).
  That the modulus is irreducible is not assumed; it follows.
  - `gf_reduce` clears one bit at a time from the top. It is XOR-linear, leaves field
    elements alone and keeps within the field (`ReduceLaws`), and shifting before it is
    multiplying by alpha after it (`ReduceShift`).
  - The product is XOR-linear in each factor (`ProductAdditive`), and a factor of one bit
    shifts (`ProductSingle`). Two XOR-linear maps that agree on single bits agree
    (`FieldMaps`). So the product commutes, takes alpha out of a factor (`MulTimesAlpha`)
    and associates, and `gf_sq`, which only spreads bits, squares (`SquareIs`).
  - Multiplying by alpha is injective since the modulus has bit 0, so the powers of alpha
    before the first that is 1 differ (`PowersDiffer`), and there are as many of them as
    elements other than 0: each is one of them (`EveryElementIsAPower`). With a^255 = 1
    the chain's a^254 inverts (`Inverts`).
  - The invariant of the loop (`TablesInv`) says that `x_i` is the power due next and that
    the entries so far hold the powers and their logarithms. The three properties of the
    run follow (`TablesHoldThePowers`, `ChainInverts`, `TablesMultiply`).
  - `GfIsAField` and `TablesServeTheOuterCode` state the laws of `FieldAssumption` and of
    `PowersAssumption`, one by one, of `gf_add`, `gf_mul`, `gf_inv` and of the finished
    `exp`.

Where a proof needs induction, over the members of a finite set or over a number, it
does not cite the library's induction theorems, which take an operator, but a lemma
about sets: a set of numbers that holds 0 and every successor of a member is `Nat`
(`NatSetInduction`, from well-foundedness), a set of subsets that holds {} and survives
one more member holds them all (`SubsetInduction`, `SetInduction`). What is to be shown
is the set's defining condition.

Recursive functions (`gf_poly_eval`, `rs_generator`, the division) are unfolded by
`PrimitiveRecursion`, which shows that a function with the defining equation exists, so
that the `CHOOSE` behind the definition picks one.

`gf_reduce` and the rounds of the table loop are shown to exist in the same way
(`ReductionExists`, `RoundsAre`).

Only model-checked: `AllCallsReturn`, since liveness is outside the prover's reach.

## Where comments and code differ

Three runs end in a violation of something a comment says; `PROJECT.json` quotes the
lines. None of them is a fault in the code's results: the byte count in the comment of
`sample_fixed_weight_mod` ignores the padding, the header of `reed_muller.rs` leaves
out bit 7, and two test comments take "more than Delta errors" to be the same as
"uncorrectable".

## The plan from here

Every safety property and every refinement that a run checks is also a theorem. What the proofs still connect by words only:

1. `CodesPromise` is assumed of the operators that are the parameters of `Codec`;
   `InnerPromise` and `OuterPromise` state its parts of functions from words to answers.
2. `Pke` calls `CyclicProduct` where the code calls `mul_dense_ct`; `ProductIsCyclic` shows
   of the code's steps that they return it.
3. `MCField` tabulates a field as numbers for the small instances, while `GfIsAField` is
   about sets of bits.

## Not modelled

* `lib.rs` re-exports names and holds no logic. Zeroization on drop and constant-time
  behaviour are not visible in a state model.
* Inside the modelled files: the `pclmulqdq` intrinsics, which compute what the portable
  `clmul64` computes; Hamming weights, `Debug`, `PartialEq` and `Clone`, which no operation
  of the scheme's control uses; the traits that pass a parameter set around (their
  constants are in `Params`); Keccak itself, modelled from how `hash.rs` calls it.
* Benchmarks, examples, tests and the known-answer harness drive the library from outside.
