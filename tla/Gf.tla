--------------------------------- MODULE Gf ---------------------------------
(***************************************************************************)
(* The field arithmetic of gf.rs: binary polynomials modulo Modulus.  A    *)
(* byte is the set of its bits, so XOR is the symmetric difference and a   *)
(* shift adds to every member.  The code has Bits = 8 and the modulus      *)
(* x^8 + x^4 + x^3 + x^2 + 1; its inversion chain also inverts in every    *)
(* smaller field whose order divides 255.                                  *)
(***************************************************************************)
EXTENDS Integers, FiniteSetsExt

CONSTANTS Bits, Modulus

ASSUME GfAssumption == Bits \in Nat \ {0} /\ Bits \in Modulus /\ Modulus \subseteq 0..Bits

Field == SUBSET (0..Bits-1)
Order == 2^Bits - 1
Zero == {}
One == {0}

-----------------------------------------------------------------------------
(* Arithmetic.                                                             *)

gf_add(a, b) == SymDiff(a, b)
Shift(a, n) == {b + n : b \in a}

\* Mutant: the loop stops one bit early.
gf_reduce_short(x) ==
    LET r[p \in Bits..2*Bits-1] ==
          IF p = 2*Bits-1 THEN x
          ELSE IF p \in r[p + 1] /\ p > Bits THEN gf_add(r[p + 1], Shift(Modulus, p - Bits))
          ELSE r[p + 1]
    IN  r[Bits]

\* Clears the bits from 2*Bits-2 down to Bits.
gf_reduce(x) ==
    LET r[p \in Bits..2*Bits-1] ==
          IF p = 2*Bits-1 THEN x
          ELSE IF p \in r[p + 1] THEN gf_add(r[p + 1], Shift(Modulus, p - Bits))
          ELSE r[p + 1]
    IN  r[Bits]

gf_sq(a) == gf_reduce({2 * b : b \in a})

\* The carry-less product: bit n is the parity of the pairs of bits that add up to n.
gf_mul(a, b) ==
    gf_reduce({n \in 0..2*Bits-2 : Cardinality({i \in a : n - i \in b}) % 2 = 1})

\* Mutant: a^11 is multiplied by a^3, not a^4.
gf_inv_slip(a) ==
    LET a2 == gf_sq(a)            a3 == gf_mul(a2, a)
        a4 == gf_sq(a2)           a7 == gf_mul(a4, a3)
        a11 == gf_mul(a4, a7)     a15 == gf_mul(a11, a3)
        a120 == gf_sq(gf_sq(gf_sq(a15)))
    IN  gf_sq(gf_mul(a120, a7))

\* The chain 2, 3, 4, 7, 11, 15, 30, 60, 120, 127, 254.
gf_inv(a) ==
    LET a2 == gf_sq(a)            a3 == gf_mul(a2, a)
        a4 == gf_sq(a2)           a7 == gf_mul(a4, a3)
        a11 == gf_mul(a4, a7)     a15 == gf_mul(a11, a4)
        a120 == gf_sq(gf_sq(gf_sq(a15)))
    IN  gf_sq(gf_mul(a120, a7))

gf_div(a, b) == gf_mul(a, gf_inv(b))

\* x <<= 1, and the modulus is added when the top bit appears.
TimesAlpha(a) ==
    IF Bits \in Shift(a, 1) THEN gf_add(Shift(a, 1), Modulus) ELSE Shift(a, 1)

\* What n rounds of the loop of build_tables make of x, and alpha^n.
Rounds[n \in Nat] ==
    [x \in Field |-> IF n = 0 THEN x ELSE Rounds[n - 1][TimesAlpha(x)]]
AlphaPower(n) == Rounds[n][One]
=============================================================================
