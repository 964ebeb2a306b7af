-------------------------------- MODULE Hash --------------------------------
(***************************************************************************)
(* The Keccak roles of hash.rs as free constructors: a digest is the       *)
(* record of the function, the parts it absorbed and the domain byte (the  *)
(* random-oracle reading of the crate's header comment).  Parts are not    *)
(* concatenated: in every role all of them but the last have a fixed       *)
(* length, so their concatenation determines them.                         *)
(***************************************************************************)
EXTENDS Naturals

DOMAIN_XOF == 1
DOMAIN_H   == 1
DOMAIN_I   == 2
DOMAIN_G   == 0
DOMAIN_J   == 3

sha3_256_ds(parts, domain) ==
    [fn |-> "SHA3-256", domain |-> domain, absorbed |-> parts]

\* The halves of the 64 bytes.
sha3_512_ds(parts, domain) ==
    [half \in 1..2 |->
        [fn |-> "SHA3-512", half |-> half, domain |-> domain, absorbed |-> parts]]

\* The part-th value read from SHAKE256(seed); a reader only advances.
xof(seed, part) ==
    [fn |-> "SHAKE256", part |-> part, domain |-> DOMAIN_XOF, absorbed |-> <<seed>>]

-----------------------------------------------------------------------------

\* H over the packed encapsulation key.
h_ek(ek) == sha3_256_ds(<<ek>>, DOMAIN_H)

\* G: the shared key and the encryption seed.
g(ek_hash, m, salt) ==
    LET digest == sha3_512_ds(<<ek_hash, m, salt>>, DOMAIN_G)
    IN  [key |-> digest[1], theta |-> digest[2]]

\* Mutant: the salt at the end of the ciphertext is not absorbed.
j_without_salt(ek_hash, sigma, c) ==
    sha3_256_ds(<<ek_hash, sigma, [c EXCEPT !.salt = "none"]>>, DOMAIN_J)

\* J: the ek hash, sigma and the ciphertext bytes as received.
j(ek_hash, sigma, c) == sha3_256_ds(<<ek_hash, sigma, c>>, DOMAIN_J)

\* I: the secret half first.
i_pke_seed(seed_pke) ==
    LET digest == sha3_512_ds(<<seed_pke>>, DOMAIN_I)
    IN  [seed_dk |-> digest[1], seed_ek |-> digest[2]]
=============================================================================
