----------------------------- MODULE MCRsDecoder -----------------------------
(* RsDecoder over the field of 16 elements, where the inversion chain of    *)
(* the code inverts as well, for errors of up to Delta + 1 symbols.         *)
EXTENDS RsDecoder, FiniteSetsExt
CONSTANT Values  \* the values an error may have
Gf16 == INSTANCE MCField WITH Bits <- 4, Modulus <- {0, 1, 4}

MCField16 == Gf16!Elements
MCAddTable == Gf16!AddTable
MCAdd(a, b) == MCAddTable[a][b]
MCMulTable == Gf16!MulTable
MCMul(a, b) == MCMulTable[a][b]
MCInvTable == Gf16!InvTable
MCInv(a) == MCInvTable[a]
MCExp == Gf16!ExpTable
MCOrder == Gf16!Order

MCMessages == {[t \in 0..K-1 |-> 0], [t \in 0..K-1 |-> t + 6]}
ErrorsAt(S) == {[p \in Positions |-> IF p \in S THEN v[p] ELSE 0] : v \in [S -> Values]}
MCErrors == UNION {ErrorsAt(S) : S \in UNION {kSubset(w, Positions) : w \in 0..Delta+1}}
=============================================================================
