-------------------------------- MODULE Codec --------------------------------
(***************************************************************************)
(* The concatenated code (codes/mod.rs): the symbols of an outer codeword  *)
(* are encoded into OuterLen (N1) blocks of N2 bits, one copy of the inner *)
(* codeword after the other, in the low bits of a ring element.  The outer *)
(* and the inner code are parameters: what reed_solomon.rs and             *)
(* reed_muller.rs promise (BoundedDistance, RmDecoder!NearestCodeword).    *)
(***************************************************************************)
EXTENDS BitPacking

CONSTANTS Symbols,          \* the field both codes work over
          OuterLen,         \* symbols of an outer codeword: N1 in the code
          InnerLen,         \* bits of an inner codeword: 128 in the code
          Multiplicity,     \* its copies in a block
          outer_encode(_),  \* message -> symbols, a function of 0..OuterLen-1
          outer_decode(_),  \* symbols -> message, or NoMessage
          inner_encode(_),  \* symbol -> the bits of its codeword that are 1
          inner_decode(_),  \* the bits of a block that are 1 -> symbol
          Plaintexts,       \* messages
          Delta,            \* symbols the outer code corrects
          NoMessage

N2 == InnerLen * Multiplicity

ASSUME CodecAssumption ==
    /\ {OuterLen, InnerLen, Multiplicity} \subseteq Nat \ {0} /\ Delta \in Nat
    /\ InnerLen % ByteBits = 0

codeword_bytes == (OuterLen * N2) \div ByteBits
block_bytes == N2 \div ByteBits

\* The bits a byte string has, from bit 0 of its first byte on, and back.
BitsOf(bytes) == UNION {{ByteBits * (k - 1) + b : b \in bytes[k]} : k \in DOMAIN bytes}
BytesOf(bits, len) ==
    [k \in 1..len |-> {b \in 0..ByteBits-1 : ByteBits * (k - 1) + b \in bits}]

\* What rm_encode writes from bit_offset on.
rm_encode(symbol, bit_offset) ==
    {bit_offset + rep * InnerLen + i : rep \in 0..Multiplicity-1, i \in inner_encode(symbol)}

encode(msg) ==
    LET rs_cw == outer_encode(msg)
        buf == UNION {rm_encode(rs_cw[j], j * N2) : j \in 0..OuterLen-1}
    IN  bytes_to_poly(BytesOf(buf, codeword_bytes))

\* Mutant: a block starts where it would without the copies.
BlockUnduplicated(buf, j) ==
    SubSeq(buf, j * (InnerLen \div ByteBits) + 1, j * (InnerLen \div ByteBits) + block_bytes)

Block(buf, j) == SubSeq(buf, j * block_bytes + 1, (j + 1) * block_bytes)

decode(poly) ==
    LET buf == poly_to_bytes(codeword_bytes, poly)
    IN  outer_decode([j \in 0..OuterLen-1 |-> inner_decode(BitsOf(Block(buf, j)))])

-----------------------------------------------------------------------------

\* What the component codes promise: RmDecoder!NearestCodeword a byte of the
\* field, and the right one when less than a quarter of the bits are wrong;
\* BoundedDistance the message when at most Delta symbols are.
ASSUME CodesPromise ==
    /\ \A c \in Symbols : inner_encode(c) \subseteq 0..InnerLen-1
    /\ \A bits \in SUBSET (0..N2-1) :
          /\ inner_decode(bits) \in Symbols
          /\ \A c \in Symbols :
                4 * Cardinality(xor(bits, rm_encode(c, 0))) < N2 => inner_decode(bits) = c
    /\ \A m \in Plaintexts :
          /\ outer_encode(m) \in [0..OuterLen-1 -> Symbols]
          /\ \A w \in [0..OuterLen-1 -> Symbols] :
                Cardinality({j \in 0..OuterLen-1 : w[j] # outer_encode(m)[j]}) <= Delta
                    => outer_decode(w) = m
=============================================================================
