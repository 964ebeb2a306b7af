--------------------------- MODULE BerlekampMassey ---------------------------
(***************************************************************************)
(* berlekamp_massey (reed_solomon.rs): from 2*Delta syndromes, the masked  *)
(* loop that finds the error locator sigma and its degree.  The counters   *)
(* are the code's u16s and wrap as they do: pp starts at -1, and the test  *)
(* "did the register grow" reads the sign bit of a wrapped difference.     *)
(***************************************************************************)
EXTENDS Integers, Functions

CONSTANTS Symbols,                               \* the field, with 0 and 1
          plus(_, _), times(_, _), inverse(_),   \* gf_add, gf_mul and gf_inv
          Delta                                  \* the errors the code corrects

U16 == 65536

ASSUME BmAssumption ==
    /\ Delta \in Nat \ {0} /\ 4 * Delta < U16 \div 2
    /\ {0, 1} \subseteq Symbols
    /\ \A a, b \in Symbols : plus(a, b) \in Symbols /\ times(a, b) \in Symbols
    /\ \A a \in Symbols : inverse(a) \in Symbols

\* What gf.rs is: a field in which adding is XOR.
ASSUME FieldAssumption ==
    /\ \A a \in Symbols : plus(a, 0) = a /\ plus(a, a) = 0 /\ times(a, 1) = a
    /\ \A a, b \in Symbols : plus(a, b) = plus(b, a) /\ times(a, b) = times(b, a)
    /\ \A a, b, c \in Symbols :
          /\ plus(plus(a, b), c) = plus(a, plus(b, c))
          /\ times(times(a, b), c) = times(a, times(b, c))
          /\ times(a, plus(b, c)) = plus(times(a, b), times(a, c))
    /\ \A a \in Symbols \ {0} : times(a, inverse(a)) = 1

VARIABLES
    running,      \* is a call running?
    s,            \* the syndromes
    sigma,        \* the locator, coefficients 0..Delta
    x_sigma_p,    \* X times the locator before the last length change
    deg_sigma, deg_sigma_p,
    pp,           \* the step of the last length change
    d_p,          \* the discrepancy then
    d,            \* the discrepancy of sigma at syndrome mu
    mu            \* the step

bmvars == <<running, s, sigma, x_sigma_p, deg_sigma, deg_sigma_p, pp, d_p, d, mu>>

Coefficients == 0..Delta
Syndromes == 0..2*Delta-1
Monomial(e) == [c \in Coefficients |-> IF c = e THEN 1 ELSE 0]

\* Mutant: the last length change is taken to be at step 0.
PpZero == 0

\* u16::MAX, which is -1 in the differences with mu.
PpStart == U16 - 1

BmInit ==
    /\ running = FALSE
    /\ s = [t \in Syndromes |-> 0]
    /\ sigma = Monomial(0) /\ x_sigma_p = Monomial(1)
    /\ deg_sigma = 0 /\ deg_sigma_p = 0
    /\ pp = PpStart
    /\ d_p = 1 /\ d = 0
    /\ mu = 0

\* The locals at the start of a call.
Call(synd) ==
    /\ ~running
    /\ running' = TRUE
    /\ s' = synd
    /\ sigma' = Monomial(0) /\ x_sigma_p' = Monomial(1)
    /\ deg_sigma' = 0 /\ deg_sigma_p' = 0
    /\ pp' = PpStart
    /\ d_p' = 1 /\ d' = synd[0]
    /\ mu' = 0

\* min(mu + 1, delta)
Upper == IF mu + 1 < Delta THEN mu + 1 ELSE Delta

\* Mutant: the correction is not divided by the earlier discrepancy.
UpdatedUnscaled ==
    [c \in Coefficients |->
        IF c \in 1..Upper THEN plus(sigma[c], times(d, x_sigma_p[c])) ELSE sigma[c]]

\* sigma - (d / d_p) * X sigma_p
Updated ==
    LET dd == times(d, inverse(d_p))
    IN  [c \in Coefficients |->
            IF c \in 1..Upper THEN plus(sigma[c], times(dd, x_sigma_p[c])) ELSE sigma[c]]

deg_x_sigma_p == (((mu - pp) % U16) + deg_sigma_p) % U16
SignBit(n) == (n % U16) \div (U16 \div 2) = 1

\* Mutant: the discrepancy is not looked at.
GrewAnyway == SignBit(deg_sigma - deg_x_sigma_p)

\* mask12: the discrepancy is not 0 and the register has to become longer.
Grew == d # 0 /\ SignBit(deg_sigma - deg_x_sigma_p)

\* X times the polynomial; what would get degree Delta + 1 falls off.
ShiftUp(p) == [c \in Coefficients |-> IF c = 0 THEN 0 ELSE p[c - 1]]

\* S_(mu+2) + the sum of sigma_i S_(mu+2-i), the syndromes being s[0] = S_1, ...
NextDiscrepancy(sig) ==
    plus(s[mu + 1],
           FoldFunctionOnSet(plus, 0, [c \in Coefficients |->
                                IF c \in 1..Upper THEN times(sig[c], s[mu + 1 - c]) ELSE 0],
                             Coefficients))

\* One iteration; the last one only settles sigma and its degree.
Iterate ==
    /\ running
    /\ mu < 2*Delta - 1
    /\ sigma' = Updated
    /\ deg_sigma' = IF Grew THEN deg_x_sigma_p ELSE deg_sigma
    /\ pp' = IF Grew THEN mu ELSE pp
    /\ d_p' = IF Grew THEN d ELSE d_p
    /\ x_sigma_p' = ShiftUp(IF Grew THEN sigma ELSE x_sigma_p)
    /\ deg_sigma_p' = IF Grew THEN deg_sigma ELSE deg_sigma_p
    /\ d' = NextDiscrepancy(sigma')
    /\ mu' = mu + 1
    /\ UNCHANGED <<running, s>>

Finish ==
    /\ running
    /\ mu = 2*Delta - 1
    /\ sigma' = Updated
    /\ deg_sigma' = IF Grew THEN deg_x_sigma_p ELSE deg_sigma
    /\ running' = FALSE
    /\ UNCHANGED <<s, x_sigma_p, deg_sigma_p, pp, d_p, d, mu>>

BmNext == (\E synd \in [Syndromes -> Symbols] : mu = 0 /\ Call(synd)) \/ Iterate \/ Finish

BmSpec == BmInit /\ [][BmNext]_bmvars

-----------------------------------------------------------------------------
(* Properties.                                                             *)

\* Before every iteration the lengths of the two registers add up to mu + 1, in the
\* wrapped arithmetic of the code: the shift counted from pp = -1 is right, no sum
\* overflows, the sign bit is the comparison it stands for ("degrees are tiny so the
\* signed interpretation is valid"), and the register grows exactly when 2L <= mu.
LengthsAddUp ==
    running =>
        /\ deg_sigma + deg_x_sigma_p = mu + 1
        /\ SignBit(deg_sigma - deg_x_sigma_p) <=> 2 * deg_sigma <= mu

\* The division by d_p is never a division by 0 (gf_inv(0) = 0 is never relied on).
EarlierDiscrepancyIsNonzero == d_p # 0

\* A register of the given length and coefficients reproduces s[t].
Reproduces(sig, len, t) ==
    s[t] = FoldFunctionOnSet(plus, 0, [c \in Coefficients |->
               IF c \in 1..len THEN times(sig[c], s[t - c]) ELSE 0], Coefficients)

\* As long as it fits Delta coefficients, the register has no coefficient above its
\* length, reproduces every syndrome before mu and misses s[mu] by exactly d.
Seen == IF running THEN mu ELSE 2*Delta
RegisterReproduces ==
    (deg_sigma <= Delta /\ (running \/ mu > 0)) =>
        /\ \A c \in Coefficients : c > deg_sigma => sigma[c] = 0
        /\ \A t \in deg_sigma..Seen-1 : Reproduces(sigma, deg_sigma, t)
        /\ (running /\ mu >= deg_sigma) => (Reproduces(sigma, deg_sigma, mu) <=> d = 0)

\* No register shorter than deg_sigma and short enough for the buffer reproduces the
\* syndromes: a degree up to Delta is their linear complexity, and one above Delta is
\* proof that no locator of up to Delta errors exists.
IsShortest ==
    ~running =>
        \A len \in 0..Delta : len < deg_sigma =>
            ~\E sig \in [1..len -> Symbols] :
                \A t \in len..2*Delta-1 : Reproduces(sig, len, t)
=============================================================================
