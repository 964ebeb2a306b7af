-------------------------------- MODULE Poly --------------------------------
(***************************************************************************)
(* Ring elements (poly/mod.rs): N coefficients packed into words, least    *)
(* significant first.  A word is the set of its bits that are 1, an array  *)
(* of words a function from 0; W is the word size (64 in the code), and an *)
(* element always has room for MaxWords words (901), whatever its N.       *)
(***************************************************************************)
EXTENDS Integers, FiniteSets

CONSTANTS W, MaxWords

ASSUME PolyAssumption == W \in Nat \ {0} /\ MaxWords \in Nat \ {0}

NWords(N) == (N + W - 1) \div W

Word == SUBSET (0..W-1)
Array(size) == [0..size-1 -> Word]

-----------------------------------------------------------------------------
(* Words.                                                                  *)

xor(v, w) == (v \ w) \cup (w \ v)
shl(w, k) == {b \in 0..W-1 : b - k \in w}
shr(w, k) == {b \in 0..W-1 : b + k \in w}
mask(w, k) == w \cap (0..k-1)

-----------------------------------------------------------------------------
(* Elements.                                                               *)

Zeros(size) == [i \in 0..size-1 |-> {}]
zero == Zeros(MaxWords)

get_bit(p, i) == i % W \in p[i \div W]
set_bit(p, i) == [p EXCEPT ![i \div W] = @ \cup {i % W}]
clear_bit(p, i) == [p EXCEPT ![i \div W] = @ \ {i % W}]
clear(p) == [i \in DOMAIN p |-> {}]

add(p, q, N) ==
    [i \in DOMAIN p |-> IF i < NWords(N) THEN xor(p[i], q[i]) ELSE {}]

add_assign(p, q, N) ==
    [i \in DOMAIN p |-> IF i < NWords(N) THEN xor(p[i], q[i]) ELSE p[i]]

\* The bits of the last word at and above N are folded onto the first word.
reduce(p, N) ==
    LET last_bit == N % W
        last_idx == NWords(N) - 1
        cut      == [p EXCEPT ![last_idx] = mask(@, last_bit)]
    IN  IF last_bit = 0 THEN p
        ELSE [cut EXCEPT ![0] = xor(@, shr(p[last_idx], last_bit))]

-----------------------------------------------------------------------------
(* What an array of words stands for.                                      *)

\* The exponents whose coefficient is 1.
Exponents(ws) == UNION {{W*i + b : b \in ws[i]} : i \in DOMAIN ws}

\* The element with these exponents.
PolyOf(S) == [i \in 0..MaxWords-1 |-> {b \in 0..W-1 : W*i + b \in S}]

Odd(S) == Cardinality(S) % 2 = 1

\* Coefficient t of the product of A and B in F2[X].
Coefficient(A, B, t) == Odd({p \in A : t - p \in B})

\* The product of A and B in F2[X]/(X^N - 1): the reference for poly/mul.rs.
CyclicProduct(A, B, N) == {t \in 0..N-1 : Odd({p \in A : (t - p) % N \in B})}
=============================================================================
