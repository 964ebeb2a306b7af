--------------------------------- MODULE Pke ---------------------------------
(***************************************************************************)
(* HQC-PKE (pke.rs) down to the bits, with the wire between the owner of   *)
(* a key and a sender (parsing.rs): key generation, the public key on its  *)
(* way, encryption, the ciphertext on its way, decryption.                 *)
(*                                                                         *)
(* What a seed expands to is chosen at the start: the supports that the    *)
(* fixed-weight samplers deliver one after the other, and the words        *)
(* sample_uniform reads.  A product is the one RingMul!IsCyclicProduct     *)
(* says mul.rs computes for operands without bits at and above N.          *)
(***************************************************************************)
EXTENDS Codec

CONSTANTS N,
          KeyStreams,      \* what XOF(seed_dk) may deliver: pairs of supports
          UniformStreams,  \* what XOF(seed_ek) may deliver: NWords(N) words
          ThetaStreams,    \* what XOF(theta) may deliver: triples of supports
          SeedEk, Salt,    \* the bytes that travel with s and with (u, v)
          UFlips, VFlips,  \* bits of u and of v that the channel may invert
          Pending, None

ASSUME PkeAssumption ==
    /\ N \in Nat \ {0} /\ NWords(N) <= MaxWords /\ OuterLen * N2 <= N
    /\ KeyStreams \subseteq (SUBSET (0..N-1)) \X (SUBSET (0..N-1))
    /\ ThetaStreams \subseteq (SUBSET (0..N-1)) \X (SUBSET (0..N-1)) \X (SUBSET (0..N-1))
    /\ UniformStreams \subseteq Array(NWords(N))
    /\ {SeedEk, Salt} \subseteq Seq(Byte)
    /\ Pending \notin [u : Array(MaxWords), v : Array(MaxWords)]
    /\ UFlips \subseteq 0..ByteBits*ByteLen(N)-1 /\ VFlips \subseteq 0..OuterLen*N2-1

VARIABLES
    xof_dk, xof_ek, xof_th,  \* what the three seeds expand to
    msg,
    key,      \* the public-key bytes on their way, or Pending
    sent,     \* what encrypt returned, or Pending; None: the key was refused
    wire,     \* the ciphertext bytes on their way
    parsed,   \* what the owner's parser made of them
    tmp,      \* the word handed to codes::decode
    result    \* what decrypt returned, or Pending

vars == <<xof_dk, xof_ek, xof_th, msg, key, sent, wire, parsed, tmp, result>>

-----------------------------------------------------------------------------
(* The wire formats.                                                       *)

ring_bytes == ByteLen(N)
v_bytes == ByteLen(OuterLen * N2)

pack_public_key(s) == SeedEk \o pack(s, N)

unpack_public_key(bytes) ==
    IF Len(bytes) # Len(SeedEk) + ring_bytes THEN None
    ELSE unpack(SubSeq(bytes, Len(SeedEk) + 1, Len(bytes)), N)

pack_ciphertext(u, v) == pack(u, N) \o pack(v, OuterLen * N2) \o Salt

unpack_ciphertext(bytes) ==
    IF Len(bytes) # ring_bytes + v_bytes + Len(Salt) THEN None
    ELSE [u |-> unpack(SubSeq(bytes, 1, ring_bytes), N),
          v |-> unpack(SubSeq(bytes, ring_bytes + 1, ring_bytes + v_bytes), OuterLen * N2)]

-----------------------------------------------------------------------------
(* The scheme.                                                             *)

mul(p, q) == PolyOf(CyclicProduct(Exponents(p), Exponents(q), N))

\* The n-th polynomial a fixed-weight sampler delivers from a stream.
sample_fixed_weight(xof, n) == PolyOf(xof[n])

h == sample_uniform(xof_ek, N)

Init ==
    /\ xof_dk \in KeyStreams /\ xof_ek \in UniformStreams /\ xof_th \in ThetaStreams
    /\ msg \in Plaintexts
    /\ key = Pending /\ sent = Pending /\ wire = Pending /\ parsed = Pending
    /\ tmp = Pending /\ result = Pending

\* Mutant: x is sampled before y.
keygen_x_first ==
    LET x == sample_fixed_weight(xof_dk, 1)
        y == sample_fixed_weight(xof_dk, 2)
    IN  add(x, mul(y, h), N)

\* y and then x from one stream; s = x + h*y.
keygen ==
    LET y == sample_fixed_weight(xof_dk, 1)
        x == sample_fixed_weight(xof_dk, 2)
    IN  add(x, mul(y, h), N)

Keygen ==
    /\ key = Pending
    /\ key' = pack_public_key(keygen)
    /\ UNCHANGED <<xof_dk, xof_ek, xof_th, msg, sent, wire, parsed, tmp, result>>

\* r2, e and r1 from one stream; u = r1 + h*r2, v = Encode(m) + s*r2 + e.
encrypt(s) ==
    LET r2 == sample_fixed_weight(xof_th, 1)
        e  == sample_fixed_weight(xof_th, 2)
        r1 == sample_fixed_weight(xof_th, 3)
        v  == add_assign(add(encode(msg), mul(r2, s), N), e, N)
    IN  [u |-> add(r1, mul(r2, h), N), v |-> truncate_to_bits(v, N, OuterLen * N2)]

Encrypt ==
    /\ key # Pending /\ sent = Pending
    /\ LET s == unpack_public_key(key)
       IN  IF s = None THEN sent' = None /\ wire' = wire
           ELSE /\ sent' = encrypt(s)
                /\ wire' = pack_ciphertext(sent'.u, sent'.v)
    /\ UNCHANGED <<xof_dk, xof_ek, xof_th, msg, key, parsed, tmp, result>>

\* y again, from a fresh reader; v + u*y is left to the decoder.
decrypt(u, v) ==
    LET y == sample_fixed_weight(xof_dk, 1)
    IN  add(v, mul(u, y), N)

Decrypt ==
    /\ wire # Pending /\ result = Pending
    /\ parsed' = unpack_ciphertext(wire)
    /\ IF parsed' = None THEN tmp' = tmp /\ result' = None
       ELSE /\ tmp' = decrypt(parsed'.u, parsed'.v)
            /\ result' = decode(tmp')
    /\ UNCHANGED <<xof_dk, xof_ek, xof_th, msg, key, sent, wire>>

-----------------------------------------------------------------------------
(* The channels: a byte string loses its last byte, or bits change.        *)

Flip(bytes, at) ==
    [bytes EXCEPT ![at \div ByteBits + 1] = xor(@, {at % ByteBits})]

\* Mostly the bits above N of the last byte of s: another s is another key.
DamageKey ==
    /\ key = pack_public_key(keygen) /\ sent = Pending
    /\ \/ key' = SubSeq(key, 1, Len(key) - 1)
       \/ \E at \in N..ByteBits*ring_bytes-1 : key' = Flip(key, ByteBits * Len(SeedEk) + at)
    /\ UNCHANGED <<xof_dk, xof_ek, xof_th, msg, sent, wire, parsed, tmp, result>>

DamageCiphertext ==
    /\ wire # Pending /\ result = Pending
    /\ wire = pack_ciphertext(sent.u, sent.v)
    /\ \/ wire' = SubSeq(wire, 1, Len(wire) - 1)
       \/ \E at \in UFlips : wire' = Flip(wire, at)
       \/ \E at \in VFlips : wire' = Flip(wire, ByteBits * ring_bytes + at)
    /\ UNCHANGED <<xof_dk, xof_ek, xof_th, msg, key, sent, parsed, tmp, result>>

Next == Keygen \/ DamageKey \/ Encrypt \/ DamageCiphertext \/ Decrypt

Spec == Init /\ [][Next]_vars

-----------------------------------------------------------------------------
(* Properties.                                                             *)

Read == result # Pending /\ parsed # None

Canonical(p) == Exponents(p) \subseteq 0..N-1

\* Whatever arrives over the wire and whatever the XOF delivers, no operand of
\* a multiplication has a bit at or above N (the debug assertion of
\* mul_dense_ct; mul_sparse_dense and reduce_wide rely on it silently).
OperandsAreCanonical ==
    /\ Canonical(h)
    /\ key # Pending /\ unpack_public_key(key) # None => Canonical(unpack_public_key(key))
    /\ Read => Canonical(parsed.u)

\* A ciphertext that is not altered on its way parses into the very elements
\* that encrypt returned: the place where truncate_to_bits cuts v is the one
\* where pack stops and unpack fills up with zeros.
SentIsParsed ==
    Read /\ wire = pack_ciphertext(sent.u, sent.v) => parsed = sent

\* decaps compares a re-serialised ciphertext with the bytes received: parsing
\* and packing again gives the bytes received exactly when they have no bit
\* above the N bits of u; in any other position nothing is lost or moved.
ReserializesExactly ==
    Read =>
        (pack_ciphertext(parsed.u, parsed.v) = wire
            <=> \A at \in BitsOf(SubSeq(wire, 1, ring_bytes)) : at < N)

\* The noise in the sense of the file's header, and what the channel added.
Noise ==
    LET y  == xof_dk[1]   x == xof_dk[2]
        r2 == xof_th[1]   e == xof_th[2]   r1 == xof_th[3]
        product(a, b) == CyclicProduct(a, b, N)
        du == xor(Exponents(sent.u), Exponents(parsed.u))
        dv == xor(Exponents(sent.v), Exponents(parsed.v))
        all == xor(xor(xor(product(x, r2), product(r1, y)), e), xor(product(du, y), dv))
    IN  all \cap (0..OuterLen*N2-1)

\* The identity decryption rests on: h, s and the dense products cancel, and on
\* the bits of the codeword v + u*y is Encode(m) plus the sparse noise.
NoiseIdentity ==
    Read => Exponents(tmp) \cap (0..OuterLen*N2-1) = xor(Exponents(encode(msg)), Noise)

BlockNoise(j) == {t \in Noise : t \div N2 = j}

\* Decryption returns the message when at most Delta blocks carry noise on a
\* quarter of their bits or more, whatever the noise is.
RecoversMessage ==
    Read /\ Cardinality({j \in 0..OuterLen-1 : 4 * Cardinality(BlockNoise(j)) >= N2}) <= Delta
        => result = msg
=============================================================================
