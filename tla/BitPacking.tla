----------------------------- MODULE BitPacking -----------------------------
(***************************************************************************)
(* Ring elements as bytes (parsing.rs, codes/mod.rs) and cut at a bit      *)
(* (pke.rs, sampling.rs).  A byte is the set of its bits that are 1; byte  *)
(* strings are sequences.  The code has ByteBits = 8 and PerWord = 8.      *)
(***************************************************************************)
EXTENDS Poly, Sequences

CONSTANTS ByteBits, PerWord

ASSUME PackingAssumption ==
    {ByteBits, PerWord} \subseteq Nat \ {0} /\ W = ByteBits * PerWord

Byte == SUBSET (0..ByteBits-1)
ByteLen(n_bits) == (n_bits + ByteBits - 1) \div ByteBits
Bytes(len) == [1..len -> Byte]

\* Byte k of p: the word it lies in, shifted down and cut to a byte.
ByteOf(p, k) == mask(shr(p[k \div PerWord], ByteBits * (k % PerWord)), ByteBits)

\* Byte k keeps only the bits below n_bits.
KeptBits(n_bits, k) ==
    LET rem == n_bits % ByteBits
    IN  IF rem # 0 /\ k = ByteLen(n_bits) - 1 THEN rem ELSE ByteBits

-----------------------------------------------------------------------------
(* codes/mod.rs *)

poly_to_bytes(len, p) == [k \in 1..len |-> ByteOf(p, k - 1)]

bytes_to_poly(bytes) ==
    [i \in 0..MaxWords-1 |->
        UNION {shl(bytes[k], ByteBits * ((k - 1) % PerWord)) :
                  k \in {l \in DOMAIN bytes : (l - 1) \div PerWord = i}}]

-----------------------------------------------------------------------------
(* parsing.rs *)

\* Mutant: a byte is taken from the low end of its word.
pack_low_byte(p, n_bits) ==
    [k \in 1..ByteLen(n_bits) |->
        mask(mask(p[(k - 1) \div PerWord], ByteBits), KeptBits(n_bits, k - 1))]

pack(p, n_bits) ==
    LET out == poly_to_bytes(ByteLen(n_bits), p)
    IN  [k \in DOMAIN out |-> mask(out[k], KeptBits(n_bits, k - 1))]

\* Mutant: the bits above n_bits of the last byte are kept.
unpack_unmasked(bytes, n_bits) == bytes_to_poly(bytes)

unpack(bytes, n_bits) ==
    bytes_to_poly([k \in DOMAIN bytes |-> mask(bytes[k], KeptBits(n_bits, k - 1))])

-----------------------------------------------------------------------------
(* Cutting an element. *)

\* Mutant: the word that holds bit nbits is left alone.
truncate_later_words(p, N, nbits) ==
    [i \in DOMAIN p |->
        IF nbits \div W < i /\ i < NWords(N) THEN {} ELSE p[i]]

\* truncate_to_bits of pke.rs
truncate_to_bits(p, N, nbits) ==
    LET full_words == nbits \div W
        rem == nbits % W
    IN  [i \in DOMAIN p |->
            IF rem # 0 /\ i = full_words THEN mask(p[i], rem)
            ELSE IF full_words <= i /\ i < NWords(N) THEN {}
            ELSE p[i]]

\* Mutant: the last word is taken as it is read.
uniform_unmasked(raw, N) == [i \in 0..MaxWords-1 |-> IF i < NWords(N) THEN raw[i] ELSE {}]

\* sample_uniform of sampling.rs: NWords words read from the XOF, the last one cut.
sample_uniform(raw, N) ==
    LET last_bit == N % W
    IN  [i \in 0..MaxWords-1 |->
            IF i >= NWords(N) THEN {}
            ELSE IF last_bit # 0 /\ i = NWords(N) - 1 THEN mask(raw[i], last_bit)
            ELSE raw[i]]
=============================================================================
