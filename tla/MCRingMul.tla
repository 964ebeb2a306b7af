----------------------------- MODULE MCRingMul -----------------------------
(***************************************************************************)
(* RingMul with words of 3 bits.  13 coefficients take 5 words with a      *)
(* partial last one and two levels of recursion, 8 take 3 words, 6 fill    *)
(* their 2 words.                                                          *)
(***************************************************************************)
EXTENDS RingMul, FiniteSetsExt, Params

MCSizes == {6, 8, 13}
Below == 0..12

Patterns == {0..5, 0..7, 0..12, {1, 3, 4, 7, 9, 12}}

\* At most two coefficients, or a pattern across the words, on one side; on
\* the other at most one near a word boundary, or a pattern.
MCLefts == kSubset(0, Below) \cup kSubset(1, Below) \cup kSubset(2, Below) \cup Patterns
MCRights == {{}, {0}, {2}, {3}, {5}, {7}, {12}} \cup Patterns
=============================================================================
