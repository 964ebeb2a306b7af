------------------------------- MODULE MCKem -------------------------------
(* Instances of Kem: two seeds, two messages, two salts.  The noise an      *)
(* encapsulation with weakSalt draws is out of the code's reach (a decoding *)
(* failure), and so are more than Radius error patterns.                    *)
EXTENDS Kem, TLC
CONSTANTS seed1, seed2, zero, msg, salt, weakSalt

MCSeeds == {seed1, seed2}
MCSymmetry == Permutations(MCSeeds)
MCMessages == {zero, msg}
MCSalts == {salt, weakSalt}
Radius == 1

\* e is drawn from theta, and theta is a half of G(H(ek), m, salt).
SaltOf(e) == e.absorbed[1].absorbed[3]

MCCorrectable(n) == n.uflips + n.vflips <= Radius /\ SaltOf(n.e) # weakSalt

\* Beyond reach the decoder finds nothing, or some other message.
MCUnrelated(tmp) ==
    IF tmp.u.flips + tmp.v.flips > Radius + 1 \/ tmp.v.m = zero
    THEN NoMessage ELSE zero
=============================================================================
