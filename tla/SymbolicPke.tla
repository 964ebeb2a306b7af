----------------------------- MODULE SymbolicPke -----------------------------
(***************************************************************************)
(* HQC-PKE (pke.rs) over a term algebra, as kem.rs uses it.  A sampled     *)
(* polynomial is the XOF value it was read from; a ring expression is the  *)
(* record of its terms.  decrypt rests on the identity                     *)
(*    v + u*y  =  Encode(m) + (x*r2 + r1*y + e) + flips,                   *)
(* which holds exactly when the h, the y and the r2 that meet in it are    *)
(* the same polynomials; the decoder sees an unrelated word otherwise.     *)
(* A channel that inverts bits of u or v is seen through "flips" (0: none).*)
(***************************************************************************)
EXTENDS Hash

CONSTANTS Messages,       \* the K-byte messages
          NoMessage,      \* decode's None
          Correctable(_), \* is this noise within the reach of codes::decode?
          Unrelated(_)    \* what codes::decode makes of any other word

ASSUME NoMessageAssumption == NoMessage \notin Messages

-----------------------------------------------------------------------------
(* x and y come from one reader over seed_dk (y first), h from seed_ek.    *)

SecretY(seed_dk) == xof(seed_dk, 1)
SecretX(seed_dk) == xof(seed_dk, 2)
PublicH(seed_ek) == xof(seed_ek, 1)

pke_keygen(seed_pke) ==
    LET seeds == i_pke_seed(seed_pke)
        s == [x |-> SecretX(seeds.seed_dk),
              h |-> PublicH(seeds.seed_ek),
              y |-> SecretY(seeds.seed_dk)]
    IN  [ek |-> [seed_ek |-> seeds.seed_ek, s |-> s],
         seed_dk |-> seeds.seed_dk]

\* r2, e and r1 come from one reader over theta, in this order.
pke_encrypt(ek, m, theta) ==
    LET r2 == xof(theta, 1)
        e  == xof(theta, 2)
        r1 == xof(theta, 3)
    IN  [u |-> [r1 |-> r1, h |-> PublicH(ek.seed_ek), r2 |-> r2, flips |-> 0],
         v |-> [m |-> m, s |-> ek.s, r2 |-> r2, e |-> e, flips |-> 0]]

\* s*r2 and u*y cancel up to a sparse remainder.
Cancels(y, u, v) == v.s.h = u.h /\ v.s.y = y /\ v.r2 = u.r2

Noise(y, u, v) == [x |-> v.s.x, r2 |-> v.r2, r1 |-> u.r1, y |-> y, e |-> v.e,
                   uflips |-> u.flips, vflips |-> v.flips]

\* Mutant: the reader is read past y, so x is taken for it.
pke_decrypt_with_x(seed_dk, u, v) ==
    LET y == SecretX(seed_dk)
    IN  IF Cancels(y, u, v) /\ Correctable(Noise(y, u, v))
        THEN v.m
        ELSE Unrelated([y |-> y, u |-> u, v |-> v])

pke_decrypt(seed_dk, u, v) ==
    LET y == SecretY(seed_dk)
    IN  IF Cancels(y, u, v) /\ Correctable(Noise(y, u, v))
        THEN v.m
        ELSE Unrelated([y |-> y, u |-> u, v |-> v])
=============================================================================
