--------------------------------- MODULE Kem ---------------------------------
(***************************************************************************)
(* The key-encapsulation mechanism of kem.rs in use.  A key owner          *)
(* generates keys, publishes the packed encapsulation key, keeps the       *)
(* compressed decapsulation key (the 32-byte seed) across a restart and    *)
(* decapsulates whatever it is handed; senders encapsulate to whatever     *)
(* public-key bytes reach them; channels alter both kinds of bytes.        *)
(***************************************************************************)
EXTENDS SymbolicPke, KemWire, FiniteSets

CONSTANTS Seeds,          \* the seeds seed_KEM
          ZeroMessage,    \* vec![0; K], stands in for a failed decode
          Salts,
          NoKey,          \* no key in memory; from_bytes' None
          NoBytes,        \* nothing has been saved
          MaxFlips,       \* bound: distinct error patterns on u and on v
          MaxSessions,    \* bound: encapsulations
          MaxAnswers,     \* bound: distinct decapsulations
          MaxAlterations, \* bound: alterations by the channels
          MaxEvents       \* bound: encapsulations and alterations together

ASSUME KemAssumption ==
    /\ ZeroMessage \in Messages
    /\ {MaxFlips, MaxSessions, MaxAnswers, MaxAlterations, MaxEvents} \subseteq Nat

VARIABLES
    dk,          \* the owner's decapsulation key in memory, or NoKey
    saved,       \* the compressed key it has kept, or NoBytes
    board,       \* the public-key byte strings in circulation
    sent,        \* every encapsulation: [ek, m, salt, key, c]
    net,         \* the ciphertext byte strings in circulation
    answers,     \* every decapsulation: [ek, c, key], ek naming the owner's key
    alterations  \* how often the channels have altered something

vars == <<dk, saved, board, sent, net, answers, alterations>>

-----------------------------------------------------------------------------
(* The functions of kem.rs.                                                *)

\* One reader over seed_KEM: seed_pke, then sigma.
keygen_from_seed(seed_kem) ==
    LET pke == pke_keygen(xof(seed_kem, 1))
    IN  [seed_kem |-> seed_kem, sigma |-> xof(seed_kem, 2),
         seed_dk |-> pke.seed_dk, ek |-> pke.ek]

\* Mutants: the wrong secret is kept; the kept seed is used unexpanded.
to_bytes_sigma(k) == [size |-> "exact", seed |-> k.sigma]
from_bytes_unexpanded(b) ==
    LET pke == pke_keygen(b.seed)
    IN  IF b.size # "exact" THEN NoKey
        ELSE [seed_kem |-> b.seed, sigma |-> xof(b.seed, 2),
              seed_dk |-> pke.seed_dk, ek |-> pke.ek]

to_bytes(k) == [size |-> "exact", seed |-> k.seed_kem]
from_bytes(b) == IF b.size # "exact" THEN NoKey ELSE keygen_from_seed(b.seed)

EkHash(ek) == h_ek(pack_public_key(ek))

encaps_deterministic(ek, m, salt) ==
    LET kt == g(EkHash(ek), m, salt)
        uv == pke_encrypt(ek, m, kt.theta)
    IN  [key |-> kt.key, c |-> pack_ciphertext(uv.u, uv.v, salt)]

\* What a sender remembers of an encapsulation, with the ciphertext it sends.
Session(ek, m, salt) ==
    LET out == encaps_deterministic(ek, m, salt)
    IN  [ek |-> ek, m |-> m, salt |-> salt, key |-> out.key, c |-> out.c]

\* Mutants: the re-encryption is compared field by field after parsing; a failed
\* decode does not invalidate the ciphertext.
decaps_comparing_fields(k, c) ==
    LET k_bar == j(EkHash(k.ek), k.sigma, c)
        parts == unpack_ciphertext(c).value
        m_prime == pke_decrypt(k.seed_dk, parts.u, parts.v)
        again == encaps_deterministic(k.ek, m_prime, parts.salt)
    IN  IF ~unpack_ciphertext(c).some \/ m_prime = NoMessage THEN k_bar
        ELSE IF unpack_ciphertext(again.c).value = parts THEN again.key ELSE k_bar

decaps_ignoring_decode(k, c) ==
    LET k_bar == j(EkHash(k.ek), k.sigma, c)
        parts == unpack_ciphertext(c).value
        m_prime == pke_decrypt(k.seed_dk, parts.u, parts.v)
        m_bytes == IF m_prime # NoMessage THEN m_prime ELSE ZeroMessage
        again == encaps_deterministic(k.ek, m_bytes, parts.salt)
    IN  IF ~unpack_ciphertext(c).some THEN k_bar
        ELSE IF again.c = c THEN again.key ELSE k_bar

decaps(k, c) ==
    LET k_bar == j(EkHash(k.ek), k.sigma, c)
        unpacked == unpack_ciphertext(c)
        parts == unpacked.value
        m_prime == pke_decrypt(k.seed_dk, parts.u, parts.v)
        decode_ok == m_prime # NoMessage
        m_bytes == IF decode_ok THEN m_prime ELSE ZeroMessage
        again == encaps_deterministic(k.ek, m_bytes, parts.salt)
    IN  IF ~unpacked.some THEN k_bar
        ELSE IF decode_ok /\ again.c = c THEN again.key ELSE k_bar

-----------------------------------------------------------------------------

WithinBounds == Cardinality(sent) + alterations < MaxEvents

Init ==
    /\ dk = NoKey
    /\ saved = NoBytes
    /\ board = {}
    /\ sent = {}
    /\ net = {}
    /\ answers = {}
    /\ alterations = 0

\* keygen: a seed drawn from the generator, and the public half handed out.
Keygen(seed) ==
    /\ dk' = keygen_from_seed(seed)
    /\ board' = board \cup {pack_public_key(dk'.ek)}
    /\ UNCHANGED <<saved, sent, net, answers, alterations>>

\* The owner keeps the compressed key.
Save ==
    /\ dk # NoKey
    /\ saved' = to_bytes(dk)
    /\ UNCHANGED <<dk, board, sent, net, answers, alterations>>

\* The owner's process ends; what was not saved is gone (and zeroized).
Stop ==
    /\ dk # NoKey
    /\ dk' = NoKey
    /\ UNCHANGED <<saved, board, sent, net, answers, alterations>>

\* The owner starts again from the bytes it kept.
Restore ==
    /\ dk = NoKey
    /\ saved # NoBytes
    /\ dk' = from_bytes(saved)
    /\ UNCHANGED <<saved, board, sent, net, answers, alterations>>

\* A sender parses the public-key bytes it has and encapsulates to them.
Encaps(b, m, salt) ==
    LET parsed == unpack_public_key(b)
        session == Session(parsed.value, m, salt)
    IN  /\ Cardinality(sent) < MaxSessions /\ WithinBounds
        /\ parsed.some
        /\ sent' = sent \cup {session}
        /\ net' = net \cup {session.c}
        /\ UNCHANGED <<dk, saved, board, answers, alterations>>

Decaps(c) ==
    /\ Cardinality(answers) < MaxAnswers
    /\ dk # NoKey
    /\ answers' = answers \cup {[ek |-> dk.ek, c |-> c, key |-> decaps(dk, c)]}
    /\ UNCHANGED <<dk, saved, board, sent, net, alterations>>

-----------------------------------------------------------------------------
(* What the channels do to bytes on the way.                               *)

AlteredKeys(b) ==
    {[b EXCEPT !.size = "other"], [b EXCEPT !.stray = TRUE]}
      \cup {[b EXCEPT !.s = d.s] : d \in board}

AlteredCiphertexts(c) ==
    {[c EXCEPT !.size = "other"], [c EXCEPT !.stray = TRUE]}
      \cup {[c EXCEPT !.u.flips = f] : f \in 0..MaxFlips}
      \cup {[c EXCEPT !.v.flips = f] : f \in 0..MaxFlips}
      \cup {[c EXCEPT !.salt = s] : s \in Salts}
      \cup {[c EXCEPT !.v = d.v] : d \in net}

AlterKey(b) ==
    /\ alterations < MaxAlterations /\ WithinBounds
    /\ \E a \in AlteredKeys(b) : board' = board \cup {a}
    /\ alterations' = alterations + 1
    /\ UNCHANGED <<dk, saved, sent, net, answers>>

AlterCiphertext(c) ==
    /\ alterations < MaxAlterations /\ WithinBounds
    /\ \E a \in AlteredCiphertexts(c) : net' = net \cup {a}
    /\ alterations' = alterations + 1
    /\ UNCHANGED <<dk, saved, board, sent, answers>>

\* The kept bytes come back with another length (a truncated file).
AlterSaved ==
    /\ alterations < MaxAlterations /\ WithinBounds
    /\ saved # NoBytes
    /\ saved' = [saved EXCEPT !.size = "other"]
    /\ alterations' = alterations + 1
    /\ UNCHANGED <<dk, board, sent, net, answers>>

Next ==
    \/ \E seed \in Seeds : Keygen(seed)
    \/ Save \/ Stop \/ Restore \/ AlterSaved
    \/ \E b \in board, m \in Messages, salt \in Salts : Encaps(b, m, salt)
    \/ \E b \in board : AlterKey(b)
    \/ \E c \in net : AlterCiphertext(c) \/ Decaps(c)

Spec == Init /\ [][Next]_vars

-----------------------------------------------------------------------------
(* Properties.                                                             *)

Keys == {keygen_from_seed(seed) : seed \in Seeds}
SeedEks == {k.ek.seed_ek : k \in Keys}
Syndromes == {k.ek.s : k \in Keys}
PublicKeys == [seed_ek : SeedEks, s : Syndromes]
SigmaOf(ek) == (CHOOSE k \in Keys : k.ek = ek).sigma

\* Type correctness of the owner's key, the kept bytes and the public-key bytes
\* in circulation; every session is the outcome of some encapsulation and every
\* answer the outcome of some key's decapsulation (encaps, decaps in kem.rs).
TypeOK ==
    /\ dk \in Keys \cup {NoKey}
    /\ saved \in [size : Sizes, seed : Seeds] \cup {NoBytes}
    /\ board \subseteq [size : Sizes, stray : BOOLEAN,
                       seed_ek : SeedEks, s : Syndromes]
    /\ \A e \in sent :
           /\ e.ek \in PublicKeys /\ e.m \in Messages /\ e.salt \in Salts
           /\ e = Session(e.ek, e.m, e.salt)
    /\ \A a \in answers : \E k \in Keys :
           a = [ek |-> k.ek, c |-> a.c, key |-> decaps(k, a.c)]
    /\ alterations \in 0..MaxAlterations

\* The noise of an encapsulation is one the inner code removes: a statement about the
\* owner's secret and the encapsulation's randomness, not about what decrypt does.
WithinReach(e) ==
    \E k \in Keys :
        k.ek = e.ek /\ Correctable(Noise(SecretY(k.seed_dk), e.c.u, e.c.v))

\* Agreement (kem.rs decaps, header "return ct_select(valid, K', K_bar)"): when the
\* owner of the key a sender encapsulated to is asked about that sender's
\* ciphertext, it answers with the sender's key, also after a restart from the
\* compressed key, also when the sender's copy of the public key carried stray
\* bits, provided the noise is within the code's reach.
Agreement ==
    \A e \in sent, a \in answers :
        (a.ek = e.ek /\ a.c = e.c /\ WithinReach(e)) => a.key = e.key

\* A sender's key comes out of decaps only for the sender's own ciphertext, byte
\* for byte, under the key it was made for: nothing that was altered, cut,
\* spliced or given stray bits (bits the parser drops) opens to it.
OnlyTheExactCiphertext ==
    \A e \in sent, a \in answers :
        a.key = e.key => a.ek = e.ek /\ a.c = e.c

\* Two answers are the same key exactly when they answer the same bytes under the
\* same key: decaps is a function that a restart does not change (sigma is derived
\* again from the seed), and no two ciphertexts, accepted or rejected, share a key.
OneKeyPerCiphertext ==
    \A a, b \in answers :
        a.key = b.key <=> (a.ek = b.ek /\ a.c = b.c)

\* What a restart brings back is one of the owner's keys, and the public half of
\* it is what was handed out: senders who hold those bytes can still be answered.
KeyInMemoryIsPublished == dk # NoKey => pack_public_key(dk.ek) \in board

\* The strengthening the refinement rests on.  A kept key is one whose public half
\* was handed out; and every ciphertext in circulation, altered or not, carries in
\* its first component the ephemeral r2 of some encapsulation that happened, so the
\* bytes of an encapsulation are never around before it is made.
KeptKeyIsPublished ==
    saved # NoBytes => pack_public_key(keygen_from_seed(saved.seed).ek) \in board

IsCiphertext(c) ==
    /\ c = [size |-> c.size, u |-> c.u, stray |-> c.stray,
            v |-> c.v, salt |-> c.salt]
    /\ c.u = [r1 |-> c.u.r1, h |-> c.u.h, r2 |-> c.u.r2, flips |-> c.u.flips]

Origin(c) == \E e \in sent : c.u.r2 = e.c.u.r2

KemInv ==
    /\ TypeOK
    /\ KeyInMemoryIsPublished
    /\ KeptKeyIsPublished
    /\ \A c \in net : IsCiphertext(c) /\ Origin(c)
    /\ \A a \in answers : a.c \in net

\* Decryption gives the encapsulated message back.
Decodes(e) ==
    \E k \in Keys : k.ek = e.ek /\ pke_decrypt(k.seed_dk, e.c.u, e.c.v) = e.m

Established ==
    {[owner |-> e.ek, c |-> e.c, key |-> e.key] : e \in {x \in sent : Decodes(x)}}
Answered == {[owner |-> a.ek, c |-> a.c, key |-> a.key] : a \in answers}

RejectionKey(o, c) == j(EkHash(o), SigmaOf(o), c)

Ideal == INSTANCE IdealKem WITH
    established <- Established,
    answered <- Answered,
    RejectKey <- RejectionKey

\* The mechanism is a KEM with implicit rejection in the sense of IdealKem.
IsIdealKem == Ideal!Spec
=============================================================================
