-------------------------- MODULE MCBerlekampMassey --------------------------
(* BerlekampMassey over the field of four elements, for every sequence of   *)
(* syndromes.                                                               *)
EXTENDS BerlekampMassey
Gf4 == INSTANCE MCField WITH Bits <- 2, Modulus <- {0, 1, 2}

MCField4 == Gf4!Elements
MCAddTable == Gf4!AddTable
MCAdd(a, b) == MCAddTable[a][b]
MCMulTable == Gf4!MulTable
MCMul(a, b) == MCMulTable[a][b]
MCInvTable == Gf4!InvTable
MCInv(a) == MCInvTable[a]
=============================================================================
