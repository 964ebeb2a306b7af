----------------------------- MODULE MCInnerCode -----------------------------
(* The inner code of RmDecoder as operators: its encoder, and its decoder as *)
(* RmDecoder!NearestCodeword describes it.                                   *)
EXTENDS Integers, FiniteSets, TLC
CONSTANTS InnerLen, Multiplicity, Steps

Rm == INSTANCE RmDecoder WITH
    Len <- InnerLen, MaxFlips <- 0,
    pc <- 0, sent <- 0, word <- 0, flipped <- 0, rep <- 0, f <- 0, step <- 0, k <- 0,
    best_abs <- 0, best_idx <- 0, best_neg <- 0

Encoded == [m \in Rm!Messages |-> Rm!rm_encode_byte(m)] @@ <<>>

Distance(block, m) ==
    LET copies == {rep * InnerLen + i : rep \in 0..Multiplicity-1, i \in Encoded[m]}
    IN  Cardinality((block \ copies) \cup (copies \ block))

Decoded(block) ==
    LET Nearest == {m \in Rm!Messages :
                      \A o \in Rm!Messages : Distance(block, m) <= Distance(block, o)}
    IN  CHOOSE m \in Nearest : \A o \in Nearest : m % InnerLen <= o % InnerLen
=============================================================================
