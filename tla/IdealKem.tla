------------------------------ MODULE IdealKem ------------------------------
(***************************************************************************)
(* What a key-encapsulation mechanism with implicit rejection promises.    *)
(* A sender establishes a key for one ciphertext of one key owner.  Asked  *)
(* about any ciphertext whatever, the owner answers with the established   *)
(* key when the ciphertext is, byte for byte, one that was established for *)
(* it, and otherwise with a key that belongs to this owner and ciphertext  *)
(* alone.  Nothing is forgotten and no answer ever changes.                *)
(***************************************************************************)
CONSTANTS RejectKey(_, _)     \* the rejection key of an owner and ciphertext

VARIABLES established,        \* records [owner, c, key]
          answered            \* records [owner, c, key]

vars == <<established, answered>>

Entries(o, c) == {e \in established : e.owner = o /\ e.c = c}

Init == established = {} /\ answered = {}

\* A fresh ciphertext gets a fresh key: no other ciphertext has it, and the
\* owner has not been asked about this one before.
Establish(o, c, key) ==
    /\ Entries(o, c) = {}
    /\ \A e \in established \cup answered : e.key # key
    /\ \A a \in answered : ~(a.owner = o /\ a.c = c)
    /\ established' = established \cup {[owner |-> o, c |-> c, key |-> key]}
    /\ UNCHANGED answered

AnswerOf(o, c) == IF Entries(o, c) # {} THEN (CHOOSE e \in Entries(o, c) : TRUE).key
                  ELSE RejectKey(o, c)

Answer(o, c) ==
    /\ answered' = answered \cup {[owner |-> o, c |-> c, key |-> AnswerOf(o, c)]}
    /\ UNCHANGED established

Next ==
    \/ \E e \in established' : Establish(e.owner, e.c, e.key)
    \/ \E a \in answered' : Answer(a.owner, a.c)

Spec == Init /\ [][Next]_vars
=============================================================================
