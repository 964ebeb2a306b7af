------------------------------ MODULE RsDecoder ------------------------------
(***************************************************************************)
(* The outer code (reed_solomon.rs): a message is encoded systematically,  *)
(* symbols of the codeword are changed on the way, and rs_decode runs its  *)
(* fixed pipeline: syndromes, Berlekamp-Massey, the scan that finds and    *)
(* corrects the errors position by position, and the final check.          *)
(* Polynomials are functions from degrees, lowest first.                   *)
(***************************************************************************)
EXTENDS BerlekampMassey, FiniteSets

CONSTANTS GF_EXP,       \* the powers of alpha, doubled
          GroupOrder,   \* of the multiplicative group: 255 in the code
          K,            \* message symbols
          Messages,     \* the messages sent
          Errors,       \* what is added on the way: functions of the positions
          Pending, Nothing

N1 == K + 2*Delta
NK == 2*Delta
Positions == 0..N1-1

ASSUME RsAssumption ==
    /\ K \in Nat \ {0} /\ GroupOrder \in Nat /\ N1 <= GroupOrder
    /\ Messages \subseteq [0..K-1 -> Symbols]
    /\ Errors \subseteq [Positions -> Symbols]
    /\ {Pending, Nothing} \cap ([0..K-1 -> Symbols] \cup [Positions -> Symbols]) = {}
    /\ Pending # Nothing

\* What build_tables stores: distinct powers, none of them 0, twice over.
ASSUME PowersAssumption ==
    /\ GF_EXP[0] = 1
    /\ \A n \in 0..GroupOrder-1 :
          GF_EXP[n] \in Symbols \ {0} /\ GF_EXP[n + GroupOrder] = GF_EXP[n]
    /\ \A m, n \in 0..GroupOrder-1 :
          /\ GF_EXP[m + n] = times(GF_EXP[m], GF_EXP[n])
          /\ m # n => GF_EXP[m] # GF_EXP[n]

VARIABLES
    pc,            \* what runs next
    msg, word,     \* the message and the codeword it was encoded into
    received,      \* the word handed to rs_decode, or Pending
    omega, sigma_prime,
    corrected,     \* the word being corrected
    i,             \* the position the scan is at
    num_roots,     \* roots of the locator found so far
    result         \* what rs_decode returned, or Pending

vars == <<pc, msg, word, received, omega, sigma_prime, corrected, i, num_roots,
          result, bmvars>>

-----------------------------------------------------------------------------
(* Polynomials.                                                            *)

\* Horner's rule over a polynomial of the given degree.
gf_poly_eval(p, degree, at) ==
    LET acc[c \in 0..degree+1] ==
          IF c = degree + 1 THEN 0 ELSE plus(times(acc[c + 1], at), p[c])
    IN  acc[0]

\* (x - alpha) ... (x - alpha^(2 Delta)), one root at a time.
rs_generator ==
    LET g[deg \in 0..NK] ==
          IF deg = 0 THEN [c \in 0..NK |-> IF c = 0 THEN 1 ELSE 0]
          ELSE LET h == g[deg - 1]
               IN  [c \in 0..NK |->
                      IF c > deg THEN h[c]
                      ELSE plus(IF c = 0 THEN 0 ELSE h[c - 1], times(GF_EXP[deg], h[c]))]
    IN  g[NK]

\* Long division of M(x) x^NK by the generator, from the top coefficient down.
Remainder(m) ==
    LET gen == rs_generator
        div[n \in NK..N1] ==
          IF n = N1
          THEN [p \in Positions |-> IF p >= NK THEN m[p - NK] ELSE 0]
          ELSE LET above == div[n + 1]
               IN  [p \in Positions |->
                      IF p \in n-NK..n
                      THEN plus(above[p], times(above[n], gen[p - (n - NK)]))
                      ELSE above[p]]
    IN  div[NK]

\* Mutant: the message goes to the low positions.
encode_message_first(m) ==
    LET parity == Remainder(m)
    IN  [p \in Positions |-> IF p < K THEN m[p] ELSE parity[p - K]]

\* Parity in the low positions, the message in the high ones.
rs_encode(m) ==
    LET parity == Remainder(m)
    IN  [p \in Positions |-> IF p < NK THEN parity[p] ELSE m[p - NK]]

\* Mutant: the roots are alpha^0, alpha^1, ...
syndromes_from_one(w) == [t \in 0..NK-1 |-> gf_poly_eval(w, N1 - 1, GF_EXP[t])]

syndromes(w) == [t \in 0..NK-1 |-> gf_poly_eval(w, N1 - 1, GF_EXP[t + 1])]

HasZeroSyndromes(w) == syndromes(w) = [t \in 0..NK-1 |-> 0]

\* S(x) sigma(x) mod x^(2 Delta)
error_evaluator(synd, sig) ==
    [n \in 0..NK-1 |->
        FoldFunctionOnSet(plus, 0,
            [c \in 0..Delta |-> IF c <= n THEN times(synd[n - c], sig[c]) ELSE 0],
            0..Delta)]

\* Mutant: the factors of the even degrees are forgotten.
plain_derivative(sig) == [c \in 0..Delta |-> IF c < Delta THEN sig[c + 1] ELSE 0]

\* Only odd degrees survive in characteristic 2.
formal_derivative(sig) ==
    [c \in 0..Delta |-> IF c % 2 = 0 /\ c < Delta THEN sig[c + 1] ELSE 0]

-----------------------------------------------------------------------------

Init ==
    /\ pc = "encode"
    /\ msg \in Messages
    /\ word = Pending /\ received = Pending
    /\ omega = Pending /\ sigma_prime = Pending
    /\ corrected = Pending
    /\ i = 0 /\ num_roots = 0
    /\ result = Pending
    /\ BmInit

Encode ==
    /\ pc = "encode"
    /\ word' = rs_encode(msg)
    /\ pc' = "channel"
    /\ UNCHANGED <<msg, received, omega, sigma_prime, corrected, i, num_roots,
                   result, bmvars>>

Disturb ==
    /\ pc = "channel"
    /\ \E e \in Errors : received' = [p \in Positions |-> plus(word[p], e[p])]
    /\ pc' = "syndromes"
    /\ UNCHANGED <<msg, word, omega, sigma_prime, corrected, i, num_roots,
                   result, bmvars>>

\* Step 1, and the call of berlekamp_massey.
ComputeSyndromes ==
    /\ pc = "syndromes"
    /\ Call(syndromes(received))
    /\ pc' = "locate"
    /\ UNCHANGED <<msg, word, received, omega, sigma_prime, corrected, i, num_roots,
                   result>>

\* Step 2.
Locate ==
    /\ pc = "locate"
    /\ Iterate \/ Finish
    /\ pc' = IF running' THEN "locate" ELSE "evaluate"
    /\ UNCHANGED <<msg, word, received, omega, sigma_prime, corrected, i, num_roots,
                   result>>

\* Step 3.
Evaluate ==
    /\ pc = "evaluate"
    /\ omega' = error_evaluator(s, sigma)
    /\ sigma_prime' = formal_derivative(sigma)
    /\ corrected' = received
    /\ pc' = "scan"
    /\ UNCHANGED <<msg, word, received, i, num_roots, result, bmvars>>

\* Mutant: the locators themselves are tried, not their inverses.
LocatorOf(p) == GF_EXP[p]

\* alpha^-p
InverseLocator(p) == IF p = 0 THEN GF_EXP[0] ELSE GF_EXP[GroupOrder - p]

IsRoot(at) == gf_poly_eval(sigma, Delta, at) = 0

\* Mutant: the error value is the evaluator alone.
ForneyUndivided(at) == gf_poly_eval(omega, NK - 1, at)

Forney(at) ==
    times(gf_poly_eval(omega, NK - 1, at), inverse(gf_poly_eval(sigma_prime, Delta, at)))

\* Step 4, one position.
ScanPosition ==
    LET at == InverseLocator(i)
    IN  /\ pc = "scan"
        /\ corrected' = [corrected EXCEPT ![i] =
                            IF IsRoot(at) THEN plus(@, Forney(at)) ELSE @]
        /\ num_roots' = IF IsRoot(at) THEN num_roots + 1 ELSE num_roots
        /\ i' = i + 1
        /\ pc' = IF i + 1 < N1 THEN "scan" ELSE "verify"
        /\ UNCHANGED <<msg, word, received, omega, sigma_prime, result, bmvars>>

Valid ==
    /\ HasZeroSyndromes(corrected)
    /\ deg_sigma <= Delta
    /\ num_roots = deg_sigma

\* Step 5.
Verify ==
    /\ pc = "verify"
    /\ result' = IF Valid THEN [t \in 0..K-1 |-> corrected[NK + t]] ELSE Nothing
    /\ pc' = "done"
    /\ UNCHANGED <<msg, word, received, omega, sigma_prime, corrected, i, num_roots, bmvars>>

Next ==
    \/ Encode \/ Disturb \/ ComputeSyndromes \/ Locate \/ Evaluate
    \/ ScanPosition \/ Verify

Spec == Init /\ [][Next]_vars

-----------------------------------------------------------------------------
(* Properties.                                                             *)

\* Encoding is systematic and every codeword has zero syndromes ("codeword[nk .. n1] =
\* message", "its syndromes are zero").
EncodesSystematically ==
    word # Pending =>
        /\ \A t \in 0..K-1 : word[NK + t] = msg[t]
        /\ HasZeroSyndromes(word)

\* With at most Delta errors the locator's degree is their number, its roots are the
\* errors' positions and nothing else, and the positions scanned are put right.
ErrorPositions == {p \in Positions : received[p] # word[p]}
ScanCorrects ==
    (pc \in {"scan", "verify", "done"} /\ Cardinality(ErrorPositions) <= Delta) =>
        /\ deg_sigma = Cardinality(ErrorPositions)
        /\ \A p \in Positions : IsRoot(InverseLocator(p)) <=> p \in ErrorPositions
        /\ num_roots = Cardinality({p \in ErrorPositions : p < i})
        /\ \A p \in 0..i-1 : corrected[p] = word[p]

\* The three final checks never disagree: a word corrected to a codeword always had a
\* locator of degree at most Delta with all its roots, and such a locator always
\* corrects to a codeword.
ChecksAgree ==
    pc = "verify" =>
        (HasZeroSyndromes(corrected) <=> deg_sigma <= Delta /\ num_roots = deg_sigma)

Code == {<<rs_encode(m), m>> : m \in [0..K-1 -> Symbols]}

Bounded == INSTANCE BoundedDistance

\* rs_decode is exactly a bounded-distance decoder: never a wrong message within the
\* radius, never an answer beyond it, whatever the word.
IsBoundedDistanceDecoder == Bounded!Spec

\* The comment of the test on more than Delta errors ("must be uncorrectable").
BeyondDeltaFails ==
    (pc = "done" /\ Cardinality(ErrorPositions) = Delta + 1) => result = Nothing
=============================================================================
