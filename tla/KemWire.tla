------------------------------- MODULE KemWire -------------------------------
(***************************************************************************)
(* The wire formats of parsing.rs at the grain kem.rs sees them.  A byte   *)
(* string is the record of the fields it is cut into, of whether its       *)
(* length is the one the parameter set fixes, and of the bits a byte has   *)
(* above the N-th bit of a ring element ("stray": N is odd, so the last    *)
(* byte of s and of u is partial; v fills its bytes).                      *)
(***************************************************************************)

Sizes == {"exact", "other"}

\* Option: every parser answers None when the length is wrong.
None == [some |-> FALSE]
Some(x) == [some |-> TRUE, value |-> x]

pack_public_key(ek) ==
    [size |-> "exact", seed_ek |-> ek.seed_ek, s |-> ek.s, stray |-> FALSE]

unpack_public_key(b) ==
    IF b.size # "exact" THEN None ELSE Some([seed_ek |-> b.seed_ek, s |-> b.s])

pack_ciphertext(u, v, salt) ==
    [size |-> "exact", u |-> u, stray |-> FALSE, v |-> v, salt |-> salt]

unpack_ciphertext(c) ==
    IF c.size # "exact" THEN None
    ELSE Some([u |-> c.u, v |-> c.v, salt |-> c.salt])
=============================================================================
