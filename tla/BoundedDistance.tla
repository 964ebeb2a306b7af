-------------------------- MODULE BoundedDistance --------------------------
(***************************************************************************)
(* What the outer decoder promises kem.rs: a word within Delta symbols of  *)
(* a codeword is answered with that codeword's message, and a word that is *)
(* farther from all of them with nothing.                                  *)
(***************************************************************************)
EXTENDS Integers, FiniteSets

CONSTANTS Code,          \* the codewords with their messages
          Delta,
          Pending, Nothing
VARIABLES received,      \* the word asked about, or Pending
          result

vars == <<received, result>>

Differences(a, b) == Cardinality({p \in DOMAIN a : a[p] # b[p]})
Near == {c[2] : c \in {e \in Code : Differences(e[1], received) <= Delta}}

Init == received = Pending /\ result = Pending

Ask ==
    /\ received = Pending
    /\ received' # Pending
    /\ result' = Pending

Answer ==
    /\ received # Pending /\ result = Pending /\ result' # Pending
    /\ result' \in IF Near = {} THEN {Nothing} ELSE Near
    /\ UNCHANGED received

Spec == Init /\ [][Ask \/ Answer]_vars
=============================================================================
