-------------------------------- MODULE Params --------------------------------
(***************************************************************************)
(* The parameter sets of params.rs, with their derived sizes.  The other   *)
(* modules take what they need as CONSTANTS and are checked for small      *)
(* values; the assumptions below say that the real values satisfy what     *)
(* those modules, and the proofs about them, assume.                       *)
(***************************************************************************)
EXTENDS Integers

SEED_BYTES == 32
SALT_BYTES == 16
SHARED_KEY_BYTES == 32

Hqc128 == [N |-> 17669, N1 |-> 46, N2 |-> 384, K |-> 16, OMEGA |-> 66,
           OMEGA_R |-> 75, DELTA |-> 15, MULTIPLICITY |-> 3]
Hqc192 == [N |-> 35851, N1 |-> 56, N2 |-> 640, K |-> 24, OMEGA |-> 100,
           OMEGA_R |-> 114, DELTA |-> 16, MULTIPLICITY |-> 5]
Hqc256 == [N |-> 57637, N1 |-> 90, N2 |-> 640, K |-> 32, OMEGA |-> 131,
           OMEGA_R |-> 149, DELTA |-> 29, MULTIPLICITY |-> 5]
Sets == {Hqc128, Hqc192, Hqc256}

div_ceil(a, b) == (a + b - 1) \div b

N_WORDS(p)  == div_ceil(p.N, 64)
PK_BYTES(p) == SEED_BYTES + div_ceil(p.N, 8)
CT_BYTES(p) == div_ceil(p.N, 8) + div_ceil(p.N1 * p.N2, 8) + SALT_BYTES

-----------------------------------------------------------------------------

\* The compile-time assertions of params.rs.
ASSUME CompileTimeChecks ==
    \A s \in {<<Hqc128, 2241, 4433, 277>>, <<Hqc192, 4514, 8978, 561>>,
              <<Hqc256, 7237, 14421, 901>>} :
        PK_BYTES(s[1]) = s[2] /\ CT_BYTES(s[1]) = s[3] /\ N_WORDS(s[1]) = s[4]

\* Poly and RingMul: the fixed arrays have room (MAX_N_WORDS), the last word of an
\* element is a partial one, and the arena of karatsuba is the one the proof
\* of SlicesFit needs (threshold 16, slack 256).
ASSUME RingAssumptions ==
    /\ \A p \in Sets : N_WORDS(p) <= 901 /\ p.N % 64 # 0
    /\ 901 <= 16 * ((256 \div 4) + 1)

\* Codec and Pke: the codeword fits into the ring and fills whole words, so the
\* partial word of truncate_to_bits never occurs, and blocks start at a byte.
ASSUME CodeAssumptions ==
    \A p \in Sets :
        /\ p.N2 = 128 * p.MULTIPLICITY /\ p.N2 % 8 = 0
        /\ p.N1 * p.N2 <= p.N /\ (p.N1 * p.N2) % 64 = 0
        /\ p.N1 = p.K + 2 * p.DELTA /\ p.N1 <= 255
        /\ p.MULTIPLICITY * 128 < 2^15 /\ 4 * p.DELTA < 2^15

\* The samplers: the tables have room for 256 positions, a candidate of 24 bits
\* covers the ring, and a product of two 32-bit numbers fits into 64.
ASSUME SamplerAssumptions ==
    \A p \in Sets :
        /\ {p.OMEGA, p.OMEGA_R} \subseteq 1..256
        /\ p.OMEGA <= p.N /\ p.OMEGA_R <= p.N /\ p.N < 2^24
=============================================================================
