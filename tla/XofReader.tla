------------------------------ MODULE XofReader ------------------------------
(***************************************************************************)
(* How far a sampler's reads move the XOF (sampling.rs, xof_get_bytes): a  *)
(* read of len bytes squeezes whole units of Unit bytes and drops the tail *)
(* of the last one.  Positions count bytes from the start of the stream.   *)
(***************************************************************************)
EXTENDS Integers

CONSTANT Unit       \* size_of::<u64>()
ASSUME UnitAssumption == Unit \in Nat \ {0}

\* Mutant: the tail of the last unit is kept for the next read.
PadNothing(len) == 0

Pad(len) == (Unit - (len % Unit)) % Unit
xof_get_bytes(offset, len) == offset + len + Pad(len)
=============================================================================
