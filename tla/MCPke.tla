-------------------------------- MODULE MCPke --------------------------------
(* Pke over GF(4) and blocks of three copies of two bits, in the ring of    *)
(* dimension 19: like the real sets, the codeword fills whole words and N   *)
(* is a few bits longer.  The component codes are their own encoders and    *)
(* what their decoders are shown to promise.                                *)
EXTENDS Pke, TLC

Gf4 == INSTANCE MCField WITH Bits <- 2, Modulus <- {0, 1, 2}
AddTable == Gf4!AddTable
MulTable == Gf4!MulTable
Plus(a, b) == AddTable[a][b]
Times(a, b) == MulTable[a][b]

\* The encoder of RsDecoder; its states play no part here.
Rs == INSTANCE RsDecoder WITH
    Symbols <- Gf4!Elements, plus <- Plus, times <- Times, inverse <- LAMBDA a : a,
    GF_EXP <- Gf4!ExpTable, GroupOrder <- Gf4!Order, K <- 1,
    Messages <- Plaintexts, Errors <- {}, Nothing <- NoMessage,
    pc <- 0, msg <- 0, word <- 0, received <- 0, omega <- 0, sigma_prime <- 0,
    corrected <- 0, i <- 0, num_roots <- 0, result <- 0, running <- 0, s <- 0,
    sigma <- 0, x_sigma_p <- 0, deg_sigma <- 0, deg_sigma_p <- 0, pp <- 0, d_p <- 0,
    d <- 0, mu <- 0
Inner == INSTANCE MCInnerCode WITH Steps <- {1}

AllMessages == [0..0 -> Gf4!Elements]
Codewords == [m \in AllMessages |-> Rs!rs_encode(m)] @@ <<>>

MCSymbols == Gf4!Elements
MCRsEncode(m) == Codewords[m]
MCRsDecode(w) ==
    LET Near == {m \in AllMessages : Cardinality({j \in 0..OuterLen-1 : Codewords[m][j] # w[j]}) <= Delta}
    IN  IF Near = {} THEN NoMessage ELSE CHOOSE m \in Near : TRUE

MCRmEncodeByte(m) == Inner!Encoded[m]
MCRmDecode(block) == Inner!Decoded(block)

MCMessages == {[t \in 0..0 |-> 0], [t \in 0..0 |-> 2]}
MCKeyStreams == {<<{4}, {11}>>, <<{18}, {0}>>, <<{7, 12}, {5, 18}>>}
MCUniformStreams ==
    {<<{0, 3, 5}, {1, 2}, {0, 4, 5}, {0}>>, <<{1, 5}, {0, 5}, {2}, {0, 1, 3}>>}
MCUniform == {[w \in 0..3 |-> raw[w + 1]] : raw \in MCUniformStreams}
MCThetaStreams ==
    {<<r2, e, r1>> : r2 \in {{0, 1}, {6, 18}},
                     e \in {{t, t + 1} : t \in {0, 2, 5, 11, 17}} \cup {{0, 6}, {3, 15}},
                     r1 \in {{0, 18}, {2, 9}, {13, 14}}}
MCSeedEk == <<{1}>>
MCSalt == <<{0}>>
=============================================================================
