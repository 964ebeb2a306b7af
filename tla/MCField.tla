------------------------------ MODULE MCField ------------------------------
(* A field of Gf as numbers with its operations tabulated, so that the      *)
(* instances that compute in it need not work with sets of bits.            *)
EXTENDS Gf, TLC

Number(a) ==
    LET from[b \in 0..Bits] ==
          IF b = Bits THEN 0 ELSE (IF b \in a THEN 1 ELSE 0) + 2 * from[b + 1]
    IN  from[0]
BitsOf(n) == {b \in 0..Bits-1 : (n \div 2^b) % 2 = 1}

Elements == 0..Order
\* alpha^e, over the indices GF_EXP has: AlphaPower under an INSTANCE that gives Bits a value.
Power[e \in 0..2*Order] == IF e = 0 THEN One ELSE TimesAlpha(Power[e - 1])

\* f @@ <<>> is f, evaluated once at every argument.
AddTable ==
    [m \in Elements |-> [n \in Elements |-> Number(gf_add(BitsOf(m), BitsOf(n)))]] @@ <<>>
MulTable ==
    [m \in Elements |-> [n \in Elements |-> Number(gf_mul(BitsOf(m), BitsOf(n)))]] @@ <<>>
InvTable == [n \in Elements |-> Number(gf_inv(BitsOf(n)))] @@ <<>>
ExpTable == [e \in 0..2*Order |-> Number(Power[e])] @@ <<>>
=============================================================================
