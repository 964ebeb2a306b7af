------------------------------ MODULE GfTables ------------------------------
(***************************************************************************)
(* build_tables (gf.rs): the loop that fills the tables of powers and      *)
(* logarithms of alpha, against the branch-free arithmetic of Gf.          *)
(***************************************************************************)
EXTENDS Gf

\* What the module says of p(x): alpha generates the multiplicative group, so that no
\* lower power is 1 (the test generator_order_is_255).
ASSUME GeneratorAssumption ==
    /\ Bits > 1 /\ 0 \in Modulus
    /\ \A n \in 1..Order-1 : AlphaPower(n) # One

\* a^254 inverts because a^255 = 1.
ASSUME ChainAssumption == 255 % Order = 0

VARIABLES
    exp, log,
    x_i,      \* x of the code, the power of alpha to be stored next
    entry     \* i of the code

tables == <<exp, log, x_i, entry>>

BuildInit ==
    /\ exp = [n \in 0..2*Order+1 |-> Zero]
    /\ log = [a \in Field |-> 0]
    /\ x_i = One
    /\ entry = 0

\* Mutant: the second copy starts one entry late.
StoreLate ==
    /\ entry < Order
    /\ exp' = [exp EXCEPT ![entry] = x_i, ![entry + Order + 1] = x_i]
    /\ log' = [log EXCEPT ![x_i] = entry]
    /\ x_i' = TimesAlpha(x_i)
    /\ entry' = entry + 1

Store ==
    /\ entry < Order
    /\ exp' = [exp EXCEPT ![entry] = x_i, ![entry + Order] = x_i]
    /\ log' = [log EXCEPT ![x_i] = entry]
    /\ x_i' = TimesAlpha(x_i)
    /\ entry' = entry + 1

BuildSpec == BuildInit /\ [][Store]_tables

-----------------------------------------------------------------------------
(* Properties.                                                             *)

\* The powers stored so far are all different and none is zero, log is their inverse,
\* and the next one is reached by multiplying with alpha in the branch-free arithmetic
\* as well: alpha generates the whole multiplicative group.
PowersAreDistinct ==
    /\ \A n \in 0..entry-1 : exp[n] # Zero /\ log[exp[n]] = n
    /\ entry > 0 => x_i = gf_mul(exp[entry - 1], {1})
    /\ entry < Order => \A n \in 0..entry-1 : exp[n] # x_i
    /\ entry = Order => x_i = One

\* gf_inv inverts every element met, and gf_sq squares it (0 goes to 0).
InversionIsRight ==
    /\ gf_mul(x_i, gf_inv(x_i)) = One
    /\ gf_sq(x_i) = gf_mul(x_i, x_i)
    /\ gf_inv(Zero) = Zero

\* The branch-free product is the table product for every pair, without reducing the
\* sum of the logarithms (the doubled table).
ProductMatchesTables ==
    entry = Order =>
        \A a, b \in Field \ {Zero} : gf_mul(a, b) = exp[log[a] + log[b]]
=============================================================================
