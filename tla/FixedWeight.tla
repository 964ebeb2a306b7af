---------------------------- MODULE FixedWeight ----------------------------
(***************************************************************************)
(* What both fixed-weight samplers of sampling.rs promise their callers:   *)
(* each call delivers a polynomial of the ring with exactly Weight         *)
(* coefficients equal to 1, whatever the stream it is drawn from.  A       *)
(* polynomial is the set of the exponents it has.                          *)
(***************************************************************************)
EXTENDS Integers, FiniteSets

CONSTANTS N, Weight
VARIABLES poly,      \* the polynomial delivered last
          delivered  \* how many have been delivered

vars == <<poly, delivered>>

Init == poly = {} /\ delivered = 0

Deliver ==
    /\ poly' \in SUBSET (0..N-1)
    /\ Cardinality(poly') = Weight
    /\ delivered' = delivered + 1

Spec == Init /\ [][Deliver]_vars
=============================================================================
