----------------------------- MODULE KemProofs -----------------------------
(***************************************************************************)
(* Theorems about Kem, for every set of seeds, messages and salts, every   *)
(* notion of what noise the inner code removes, and every bound.           *)
(***************************************************************************)
EXTENDS Kem, TLAPS

-----------------------------------------------------------------------------
(* Facts about the functions of kem.rs.                                    *)

\* keygen_from_seed is injective: the public half determines the key, because
\* seed_ek is a digest of the seed.
LEMMA PublicHalfDeterminesKey ==
    ASSUME NEW k1 \in Keys, NEW k2 \in Keys, k1.ek = k2.ek
    PROVE  k1 = k2
  <1>1. PICK s1 \in Seeds : k1 = keygen_from_seed(s1)
    BY DEF Keys
  <1>2. PICK s2 \in Seeds : k2 = keygen_from_seed(s2)
    BY DEF Keys
  <1>3. xof(s1, 1) = xof(s2, 1)
    BY <1>1, <1>2 DEF keygen_from_seed, pke_keygen, i_pke_seed, sha3_512_ds
  <1>4. s1 = s2
    BY <1>3 DEF xof
  <1> QED BY <1>1, <1>2, <1>4

\* Every key's public half is a public key.
LEMMA PublicHalfType ==
    ASSUME NEW k \in Keys
    PROVE  k.ek \in PublicKeys
  <1>1. PICK s \in Seeds : k = keygen_from_seed(s)
    BY DEF Keys
  <1>2. k.ek = [seed_ek |-> k.ek.seed_ek, s |-> k.ek.s]
    BY <1>1 DEF keygen_from_seed, pke_keygen
  <1> QED BY <1>2 DEF PublicKeys, SeedEks, Syndromes

\* H(ek) determines ek: the packed form loses nothing of a parsed key.
LEMMA EkHashInjective ==
    ASSUME NEW ek1 \in PublicKeys, NEW ek2 \in PublicKeys,
           EkHash(ek1) = EkHash(ek2)
    PROVE  ek1 = ek2
  <1>1. pack_public_key(ek1) = pack_public_key(ek2)
    BY DEF EkHash, h_ek, sha3_256_ds
  <1>2. ek1.seed_ek = ek2.seed_ek /\ ek1.s = ek2.s
    BY <1>1 DEF pack_public_key
  <1> QED BY <1>2 DEF PublicKeys

\* What decaps answers: the key of an encapsulation that is exactly c, or the
\* rejection key over the bytes of c.
LEMMA DecapsCases ==
    ASSUME NEW k, NEW c
    PROVE  \/ decaps(k, c) = j(EkHash(k.ek), k.sigma, c)
           \/ \E m, salt : /\ c = Session(k.ek, m, salt).c
                           /\ pke_decrypt(k.seed_dk, c.u, c.v) = m
                           /\ decaps(k, c) = Session(k.ek, m, salt).key
  <1> DEFINE parts == unpack_ciphertext(c).value
             m_prime == pke_decrypt(k.seed_dk, parts.u, parts.v)
             m_bytes == IF m_prime # NoMessage THEN m_prime ELSE ZeroMessage
             again == encaps_deterministic(k.ek, m_bytes, parts.salt)
  <1>1. CASE ~unpack_ciphertext(c).some
    BY <1>1 DEF decaps
  <1>2. CASE unpack_ciphertext(c).some /\ m_prime # NoMessage /\ again.c = c
    <2>1. decaps(k, c) = again.key
      BY <1>2 DEF decaps
    <2>2. /\ Session(k.ek, m_bytes, parts.salt).c = again.c
          /\ Session(k.ek, m_bytes, parts.salt).key = again.key
      BY DEF Session
    <2>3. parts.u = c.u /\ parts.v = c.v
      BY <1>2 DEF unpack_ciphertext, None, Some
    <2>4. m_bytes = m_prime /\ pke_decrypt(k.seed_dk, c.u, c.v) = m_bytes
      BY <1>2, <2>3
    <2> QED BY <2>1, <2>2, <2>4, <1>2
  <1>3. CASE unpack_ciphertext(c).some /\ ~(m_prime # NoMessage /\ again.c = c)
    BY <1>3 DEF decaps
  <1> QED BY <1>1, <1>2, <1>3

\* A shared key names the public key, message and salt it was derived from.
LEMMA SessionKeyInjective ==
    ASSUME NEW ek1 \in PublicKeys, NEW m1, NEW salt1,
           NEW ek2 \in PublicKeys, NEW m2, NEW salt2,
           Session(ek1, m1, salt1).key = Session(ek2, m2, salt2).key
    PROVE  ek1 = ek2 /\ m1 = m2 /\ salt1 = salt2
  <1>1. g(EkHash(ek1), m1, salt1).key = g(EkHash(ek2), m2, salt2).key
    BY DEF Session, encaps_deterministic
  <1>2. EkHash(ek1) = EkHash(ek2) /\ m1 = m2 /\ salt1 = salt2
    BY <1>1 DEF g, sha3_512_ds
  <1> QED BY <1>2, EkHashInjective

\* No rejection key is a shared key: G and J are different roles.
LEMMA RejectionIsNoSessionKey ==
    ASSUME NEW h, NEW sigma, NEW c, NEW ek, NEW m, NEW salt
    PROVE  j(h, sigma, c) # Session(ek, m, salt).key
  BY DEF j, g, sha3_256_ds, sha3_512_ds, Session, encaps_deterministic

\* The heart of decaps: for two keys of the scheme, equal answers mean the same
\* key and the same bytes.
LEMMA DecapsInjective ==
    ASSUME NEW k1 \in Keys, NEW c1, NEW k2 \in Keys, NEW c2,
           decaps(k1, c1) = decaps(k2, c2)
    PROVE  k1.ek = k2.ek /\ c1 = c2
  <1>1. k1.ek \in PublicKeys /\ k2.ek \in PublicKeys
    BY PublicHalfType
  <1> DEFINE Rejects(k, c) == decaps(k, c) = j(EkHash(k.ek), k.sigma, c)
             Opens(k, c) == \E m, salt :
                                /\ c = Session(k.ek, m, salt).c
                                /\ decaps(k, c) = Session(k.ek, m, salt).key
  <1>2. /\ Rejects(k1, c1) \/ Opens(k1, c1)
        /\ Rejects(k2, c2) \/ Opens(k2, c2)
    BY DecapsCases
  <1>3. CASE Rejects(k1, c1) /\ Rejects(k2, c2)
    <2>1. j(EkHash(k1.ek), k1.sigma, c1) = j(EkHash(k2.ek), k2.sigma, c2)
      BY <1>3
    <2>2. EkHash(k1.ek) = EkHash(k2.ek) /\ c1 = c2
      BY ONLY <2>1 DEF j, sha3_256_ds
    <2> QED BY <2>2, <1>1, EkHashInjective
  <1>4. CASE Rejects(k1, c1) /\ Opens(k2, c2)
    BY <1>4, RejectionIsNoSessionKey
  <1>5. CASE Opens(k1, c1) /\ Rejects(k2, c2)
    BY <1>5, RejectionIsNoSessionKey
  <1>6. CASE Opens(k1, c1) /\ Opens(k2, c2)
    <2>1. PICK m1, salt1 : /\ c1 = Session(k1.ek, m1, salt1).c
                           /\ decaps(k1, c1) = Session(k1.ek, m1, salt1).key
      BY <1>6
    <2>2. PICK m2, salt2 : /\ c2 = Session(k2.ek, m2, salt2).c
                           /\ decaps(k2, c2) = Session(k2.ek, m2, salt2).key
      BY <1>6
    <2>3. k1.ek = k2.ek /\ m1 = m2 /\ salt1 = salt2
      BY <2>1, <2>2, <1>1, SessionKeyInjective
    <2> QED BY <2>1, <2>2, <2>3
  <1> QED BY <1>2, <1>3, <1>4, <1>5, <1>6

-----------------------------------------------------------------------------
(* Type correctness.                                                       *)

LEMMA TypeInit == Init => TypeOK
  BY KemAssumption DEF Init, TypeOK

\* A parsed public key is a public key.
LEMMA ParsedKeyType ==
    ASSUME TypeOK, NEW b \in board, unpack_public_key(b).some
    PROVE  unpack_public_key(b).value \in PublicKeys
  <1>1. b.seed_ek \in SeedEks /\ b.s \in Syndromes
    BY DEF TypeOK
  <1>2. unpack_public_key(b) = Some([seed_ek |-> b.seed_ek, s |-> b.s])
    BY DEF unpack_public_key, None
  <1> QED BY <1>1, <1>2 DEF Some, PublicKeys

LEMMA TypeNext == TypeOK /\ [Next]_vars => TypeOK'
  <1> SUFFICES ASSUME TypeOK, [Next]_vars
               PROVE  TypeOK'
    OBVIOUS
  <1> USE DEF TypeOK
  <1>1. ASSUME NEW seed \in Seeds, Keygen(seed)
        PROVE  TypeOK'
    <2>1. dk' \in Keys
      BY <1>1 DEF Keygen, Keys
    <2>2. pack_public_key(dk'.ek) \in [size : Sizes, stray : BOOLEAN,
                                      seed_ek : SeedEks, s : Syndromes]
      BY <2>1 DEF pack_public_key, Sizes, SeedEks, Syndromes
    <2> QED BY <1>1, <2>1, <2>2 DEF Keygen
  <1>2. CASE Save
    <2>1. PICK seed \in Seeds : dk = keygen_from_seed(seed)
      BY <1>2 DEF Save, Keys
    <2>2. dk.seed_kem \in Seeds
      BY <2>1 DEF keygen_from_seed
    <2> QED BY <1>2, <2>2 DEF Save, to_bytes, Sizes
  <1>3. CASE Stop
    BY <1>3 DEF Stop
  <1>4. CASE Restore
    BY <1>4 DEF Restore, from_bytes, Keys
  <1>5. CASE AlterSaved
    BY <1>5, KemAssumption DEF AlterSaved, Sizes
  <1>6. ASSUME NEW b \in board, NEW m \in Messages, NEW salt \in Salts,
               Encaps(b, m, salt)
        PROVE  TypeOK'
    <2> DEFINE ek == unpack_public_key(b).value
               new == Session(ek, m, salt)
    <2>1. ek \in PublicKeys
      BY <1>6, ParsedKeyType DEF Encaps
    <2>2. new.ek = ek /\ new.m = m /\ new.salt = salt
      BY DEF Session
    <2>3. sent' = sent \cup {new}
      BY <1>6 DEF Encaps
    <2> HIDE DEF new, ek
    <2>4. \A e \in sent' : /\ e.ek \in PublicKeys /\ e.m \in Messages
                           /\ e.salt \in Salts /\ e = Session(e.ek, e.m, e.salt)
      BY <2>1, <2>2, <2>3 DEF new
    <2> QED BY <1>6, <2>4 DEF Encaps
  <1>7. ASSUME NEW b \in board, AlterKey(b)
        PROVE  TypeOK'
    <2>1. AlteredKeys(b) \subseteq [size : Sizes, stray : BOOLEAN,
                                   seed_ek : SeedEks, s : Syndromes]
      BY DEF AlteredKeys, Sizes
    <2> QED BY <1>7, <2>1, KemAssumption DEF AlterKey
  <1>8. ASSUME NEW c \in net, AlterCiphertext(c)
        PROVE  TypeOK'
    BY <1>8, KemAssumption DEF AlterCiphertext
  <1>9. ASSUME NEW c \in net, Decaps(c)
        PROVE  TypeOK'
    <2>1. dk \in Keys
      BY <1>9 DEF Decaps
    <2>2. answers' = answers \cup {[ek |-> dk.ek, c |-> c, key |-> decaps(dk, c)]}
      BY <1>9 DEF Decaps
    <2>3. \A a \in answers' : \E k \in Keys :
             a = [ek |-> k.ek, c |-> a.c, key |-> decaps(k, a.c)]
      BY <2>1, <2>2
    <2> QED BY <1>9, <2>3 DEF Decaps
  <1>10. CASE UNCHANGED vars
    BY <1>10 DEF vars
  <1> QED BY <1>1, <1>2, <1>3, <1>4, <1>5, <1>6, <1>7, <1>8, <1>9, <1>10 DEF Next

\* Every reachable state of the mechanism in use is well typed; in particular the
\* key in memory is always one keygen_from_seed makes (kem.rs keygen, from_bytes).
THEOREM TypeCorrect == Spec => []TypeOK
  BY TypeInit, TypeNext, PTL DEF Spec

-----------------------------------------------------------------------------
(* Safety.                                                                 *)

\* decaps recovers the key of an encapsulation whose noise the code removes.
LEMMA DecapsRecovers ==
    ASSUME NEW k \in Keys, NEW m \in Messages, NEW salt,
           Decodes(Session(k.ek, m, salt))
    PROVE  decaps(k, Session(k.ek, m, salt).c) = Session(k.ek, m, salt).key
  <1> DEFINE e == Session(k.ek, m, salt)
             out == encaps_deterministic(k.ek, m, salt)
  <1>1. e.ek = k.ek /\ e.m = m /\ e.c = out.c /\ e.key = out.key
    BY DEF Session
  <1>2. pke_decrypt(k.seed_dk, e.c.u, e.c.v) = m
    <2>1. PICK k2 \in Keys : /\ k2.ek = k.ek
                             /\ pke_decrypt(k2.seed_dk, e.c.u, e.c.v) = m
      BY <1>1 DEF Decodes
    <2>2. k2 = k
      BY <2>1, PublicHalfDeterminesKey
    <2> QED BY <2>1, <2>2
  <1>3. e.c.size = "exact" /\ e.c.salt = salt
    BY <1>1 DEF encaps_deterministic, pack_ciphertext
  <1> HIDE DEF e
  <1>4. unpack_ciphertext(e.c) = Some([u |-> e.c.u, v |-> e.c.v, salt |-> salt])
    BY <1>3 DEF unpack_ciphertext
  <1>5. /\ unpack_ciphertext(e.c).some
        /\ unpack_ciphertext(e.c).value.u = e.c.u
        /\ unpack_ciphertext(e.c).value.v = e.c.v
        /\ unpack_ciphertext(e.c).value.salt = salt
    BY <1>4 DEF Some
  <1>6. m # NoMessage
    BY NoMessageAssumption
  <1>7. decaps(k, e.c) = out.key
    BY <1>1, <1>2, <1>5, <1>6 DEF decaps
  <1> QED BY <1>1, <1>7 DEF e

\* An answer equal to a session's key is an answer to the session's ciphertext.
LEMMA OpenedMeansExact ==
    ASSUME NEW k \in Keys, NEW c, NEW ek \in PublicKeys, NEW m, NEW salt,
           decaps(k, c) = Session(ek, m, salt).key
    PROVE  k.ek = ek /\ c = Session(ek, m, salt).c
  <1>1. k.ek \in PublicKeys
    BY PublicHalfType
  <1>2. PICK m2, salt2 : /\ c = Session(k.ek, m2, salt2).c
                         /\ decaps(k, c) = Session(k.ek, m2, salt2).key
    BY DecapsCases, RejectionIsNoSessionKey
  <1>3. k.ek = ek /\ m2 = m /\ salt2 = salt
    BY <1>1, <1>2, SessionKeyInjective
  <1> QED BY <1>2, <1>3

LEMMA TypeImpliesExact == TypeOK => OnlyTheExactCiphertext
  <1> SUFFICES ASSUME TypeOK, NEW e \in sent, NEW a \in answers, a.key = e.key
               PROVE  a.ek = e.ek /\ a.c = e.c
    BY DEF OnlyTheExactCiphertext
  <1>1. e.ek \in PublicKeys /\ e = Session(e.ek, e.m, e.salt)
    BY DEF TypeOK
  <1>2. PICK k \in Keys : a = [ek |-> k.ek, c |-> a.c, key |-> decaps(k, a.c)]
    BY DEF TypeOK
  <1>3. a.ek = k.ek /\ a.key = decaps(k, a.c)
    BY <1>2
  <1>4. decaps(k, a.c) = Session(e.ek, e.m, e.salt).key
    BY <1>1, <1>3
  <1>5. k.ek = e.ek /\ a.c = Session(e.ek, e.m, e.salt).c
    BY ONLY <1>1, <1>4, OpenedMeansExact
  <1> QED BY <1>1, <1>3, <1>5

\* A sender's key comes out of decaps only for its own ciphertext, byte for byte.
THEOREM ExactCiphertext == Spec => []OnlyTheExactCiphertext
  BY TypeCorrect, TypeImpliesExact, PTL

LEMMA TypeImpliesOneKey == TypeOK => OneKeyPerCiphertext
  <1> SUFFICES ASSUME TypeOK, NEW a \in answers, NEW b \in answers
               PROVE  a.key = b.key <=> (a.ek = b.ek /\ a.c = b.c)
    BY DEF OneKeyPerCiphertext
  <1>1. PICK k1 \in Keys : a = [ek |-> k1.ek, c |-> a.c, key |-> decaps(k1, a.c)]
    BY DEF TypeOK
  <1>2. PICK k2 \in Keys : b = [ek |-> k2.ek, c |-> b.c, key |-> decaps(k2, b.c)]
    BY DEF TypeOK
  <1>3. /\ a.ek = k1.ek /\ a.key = decaps(k1, a.c)
        /\ b.ek = k2.ek /\ b.key = decaps(k2, b.c)
    BY <1>1, <1>2
  <1>4. ASSUME a.key = b.key
        PROVE  a.ek = b.ek /\ a.c = b.c
    <2>1. decaps(k1, a.c) = decaps(k2, b.c)
      BY <1>3, <1>4
    <2>2. k1.ek = k2.ek /\ a.c = b.c
      BY ONLY <2>1, k1 \in Keys, k2 \in Keys, DecapsInjective
    <2> QED BY <1>3, <2>2
  <1>5. a.ek = b.ek => k1 = k2
    BY <1>3, PublicHalfDeterminesKey
  <1> QED BY <1>3, <1>4, <1>5

\* Answers are equal exactly when they answer the same bytes under the same key,
\* whatever restarts lie between them.
THEOREM OneKey == Spec => []OneKeyPerCiphertext
  BY TypeCorrect, TypeImpliesOneKey, PTL

\* An encapsulation whose noise is within reach decodes: the h and the r2 that meet in
\* decrypt are the ones encrypt used, and its y is the one keygen put into s.
LEMMA WithinReachDecodes ==
    ASSUME TypeOK, NEW e \in sent, WithinReach(e)
    PROVE  Decodes(e)
  <1>1. e = Session(e.ek, e.m, e.salt)
    BY DEF TypeOK
  <1>2. PICK k \in Keys :
           k.ek = e.ek /\ Correctable(Noise(SecretY(k.seed_dk), e.c.u, e.c.v))
    BY DEF WithinReach
  <1>3. PICK seed \in Seeds : k = keygen_from_seed(seed)
    BY <1>2 DEF Keys
  <1>4. /\ k.ek.s.y = SecretY(k.seed_dk)
        /\ k.ek.s.h = PublicH(k.ek.seed_ek)
    BY <1>3 DEF keygen_from_seed, pke_keygen
  <1> DEFINE uv == pke_encrypt(e.ek, e.m, g(EkHash(e.ek), e.m, e.salt).theta)
  <1>5. e.c = pack_ciphertext(uv.u, uv.v, e.salt)
    BY <1>1 DEF Session, encaps_deterministic
  <1>6. e.c.u = uv.u /\ e.c.v = uv.v
    BY ONLY <1>5 DEF pack_ciphertext
  <1>7. /\ e.c.v.m = e.m /\ e.c.v.s = e.ek.s
        /\ e.c.u.h = PublicH(e.ek.seed_ek)
        /\ e.c.v.r2 = e.c.u.r2
    BY <1>6 DEF pke_encrypt
  <1>8. Cancels(SecretY(k.seed_dk), e.c.u, e.c.v)
    BY <1>2, <1>4, <1>7 DEF Cancels
  <1>9. pke_decrypt(k.seed_dk, e.c.u, e.c.v) = e.m
    BY <1>2, <1>7, <1>8 DEF pke_decrypt
  <1> QED BY <1>2, <1>9 DEF Decodes

LEMMA TypeImpliesAgreement == TypeOK => Agreement
  <1> SUFFICES ASSUME TypeOK, NEW e \in sent, NEW a \in answers,
                      a.ek = e.ek, a.c = e.c, WithinReach(e)
               PROVE  a.key = e.key
    BY DEF Agreement
  <1>0. Decodes(e)
    BY WithinReachDecodes
  <1>1. e.m \in Messages /\ e = Session(e.ek, e.m, e.salt)
    BY DEF TypeOK
  <1>2. PICK k \in Keys : a = [ek |-> k.ek, c |-> a.c, key |-> decaps(k, a.c)]
    BY DEF TypeOK
  <1>3. a.ek = k.ek /\ a.key = decaps(k, a.c)
    BY <1>2
  <1>4. e = Session(k.ek, e.m, e.salt)
    BY <1>1, <1>3
  <1>5. decaps(k, e.c) = e.key
    BY <1>0, <1>1, <1>4, DecapsRecovers
  <1> QED BY <1>3, <1>5

\* The owner and the sender end with the same key whenever the noise is one the
\* code removes.
THEOREM KeysAgree == Spec => []Agreement
  BY TypeCorrect, TypeImpliesAgreement, PTL

-----------------------------------------------------------------------------
(* The inductive invariant.                                                *)

\* A key is the one its own kept seed expands to.
LEMMA KeyOfItsSeed ==
    ASSUME NEW k \in Keys
    PROVE  k.seed_kem \in Seeds /\ keygen_from_seed(k.seed_kem) = k
  <1>1. PICK s \in Seeds : k = keygen_from_seed(s)
    BY DEF Keys
  <1>2. k.seed_kem = s
    BY <1>1 DEF keygen_from_seed
  <1> QED BY <1>1, <1>2

\* No alteration touches the r2 a ciphertext was made with.
LEMMA AlterationKeepsOrigin ==
    ASSUME NEW c, IsCiphertext(c), NEW a \in AlteredCiphertexts(c)
    PROVE  IsCiphertext(a) /\ a.u.r2 = c.u.r2
  <1> DEFINE With(size, u, stray, v, salt) ==
        [size |-> size, u |-> u, stray |-> stray, v |-> v, salt |-> salt]
             SameOrigin == \E size, u, stray, v, salt :
                /\ a = With(size, u, stray, v, salt)
                /\ u = [r1 |-> u.r1, h |-> u.h, r2 |-> u.r2, flips |-> u.flips]
                /\ u.r2 = c.u.r2
  <1>1. c = With(c.size, c.u, c.stray, c.v, c.salt)
    BY DEF IsCiphertext
  <1>2. SameOrigin
    <2>1. CASE a = [c EXCEPT !.size = "other"]
      <3>1. a = With("other", c.u, c.stray, c.v, c.salt)
        BY <2>1, <1>1
      <3> QED BY <3>1 DEF IsCiphertext
    <2>2. CASE a = [c EXCEPT !.stray = TRUE]
      <3>1. a = With(c.size, c.u, TRUE, c.v, c.salt)
        BY <2>2, <1>1
      <3> QED BY <3>1 DEF IsCiphertext
    <2>3. ASSUME NEW f \in 0..MaxFlips, a = [c EXCEPT !.u.flips = f]
          PROVE  SameOrigin
      <3>1. a = With(c.size, [c.u EXCEPT !.flips = f], c.stray, c.v, c.salt)
        BY <2>3, <1>1
      <3>2. [c.u EXCEPT !.flips = f] =
               [r1 |-> c.u.r1, h |-> c.u.h, r2 |-> c.u.r2, flips |-> f]
        BY DEF IsCiphertext
      <3> QED BY <3>1, <3>2
    <2>4. ASSUME NEW f \in 0..MaxFlips, a = [c EXCEPT !.v.flips = f]
          PROVE  SameOrigin
      <3>1. a = With(c.size, c.u, c.stray, [c.v EXCEPT !.flips = f], c.salt)
        BY <2>4, <1>1
      <3> QED BY <3>1 DEF IsCiphertext
    <2>5. ASSUME NEW s \in Salts, a = [c EXCEPT !.salt = s]
          PROVE  SameOrigin
      <3>1. a = With(c.size, c.u, c.stray, c.v, s)
        BY <2>5, <1>1
      <3> QED BY <3>1 DEF IsCiphertext
    <2>6. ASSUME NEW d \in net, a = [c EXCEPT !.v = d.v]
          PROVE  SameOrigin
      <3>1. a = With(c.size, c.u, c.stray, d.v, c.salt)
        BY <2>6, <1>1
      <3> QED BY <3>1 DEF IsCiphertext
    <2> QED BY <2>1, <2>2, <2>3, <2>4, <2>5, <2>6 DEF AlteredCiphertexts
  <1> QED BY <1>2 DEF IsCiphertext

\* The r2 of a ciphertext names the public key, message and salt it was made from.
LEMMA SessionR2Injective ==
    ASSUME NEW ek1 \in PublicKeys, NEW m1, NEW salt1,
           NEW ek2 \in PublicKeys, NEW m2, NEW salt2,
           Session(ek1, m1, salt1).c.u.r2 = Session(ek2, m2, salt2).c.u.r2
    PROVE  ek1 = ek2 /\ m1 = m2 /\ salt1 = salt2
  <1>1. \A ek, m, salt : Session(ek, m, salt).c.u.r2
                            = xof(g(EkHash(ek), m, salt).theta, 1)
    BY DEF Session, encaps_deterministic, pke_encrypt, pack_ciphertext
  <1>2. xof(g(EkHash(ek1), m1, salt1).theta, 1)
          = xof(g(EkHash(ek2), m2, salt2).theta, 1)
    BY <1>1
  <1>3. g(EkHash(ek1), m1, salt1).theta = g(EkHash(ek2), m2, salt2).theta
    BY ONLY <1>2 DEF xof
  <1>4. EkHash(ek1) = EkHash(ek2) /\ m1 = m2 /\ salt1 = salt2
    BY <1>3 DEF g, sha3_512_ds
  <1> QED BY <1>4, EkHashInjective

\* An honest ciphertext in circulation was sent by the session it encodes.
LEMMA HonestWasSent ==
    ASSUME KemInv, NEW c \in net, NEW ek \in PublicKeys, NEW m, NEW salt,
           c = Session(ek, m, salt).c
    PROVE  Session(ek, m, salt) \in sent
  <1>1. PICK e \in sent : c.u.r2 = e.c.u.r2
    BY DEF KemInv, Origin
  <1>2. e.ek \in PublicKeys /\ e = Session(e.ek, e.m, e.salt)
    BY DEF KemInv, TypeOK
  <1>3. Session(ek, m, salt).c.u.r2 = Session(e.ek, e.m, e.salt).c.u.r2
    BY <1>1, <1>2
  <1>4. ek = e.ek /\ m = e.m /\ salt = e.salt
    BY ONLY <1>2, <1>3, ek \in PublicKeys, SessionR2Injective
  <1> QED BY <1>2, <1>4

LEMMA InvInit == Init => KemInv
  BY TypeInit DEF Init, KemInv, KeyInMemoryIsPublished, KeptKeyIsPublished

LEMMA InvNext == KemInv /\ [Next]_vars => KemInv'
  <1> SUFFICES ASSUME KemInv, [Next]_vars
               PROVE  KemInv'
    OBVIOUS
  <1>t. TypeOK /\ TypeOK'
    BY TypeNext DEF KemInv
  <1> DEFINE NetInv == \A c \in net : IsCiphertext(c) /\ Origin(c)
             AnswersInv == \A a \in answers : a.c \in net
             KeysInv == KeyInMemoryIsPublished /\ KeptKeyIsPublished
  <1>i. KeysInv /\ NetInv /\ AnswersInv
    BY DEF KemInv
  <1> SUFFICES KeysInv' /\ NetInv' /\ AnswersInv'
    BY <1>t DEF KemInv
  <1>n. UNCHANGED <<sent, net>> => NetInv'
    BY <1>i DEF Origin
  <1>k. UNCHANGED <<dk, saved>> /\ board \subseteq board' => KeysInv'
    BY <1>i DEF KeyInMemoryIsPublished, KeptKeyIsPublished
  <1>a. UNCHANGED answers /\ net \subseteq net' => AnswersInv'
    BY <1>i
  <1> USE DEF KeyInMemoryIsPublished, KeptKeyIsPublished
  <1>1. ASSUME NEW seed \in Seeds, Keygen(seed)
        PROVE  KeysInv' /\ NetInv' /\ AnswersInv'
    BY <1>1, <1>i, <1>n, <1>a DEF Keygen
  <1>2. CASE Save
    <2>1. UNCHANGED <<dk, board, sent, net, answers>>
      BY <1>2 DEF Save
    <2>2. dk # NoKey /\ dk \in Keys
      BY <1>2, <1>t DEF Save, TypeOK
    <2>3. saved'.seed = dk.seed_kem
      BY <1>2 DEF Save, to_bytes
    <2>4. keygen_from_seed(saved'.seed) = dk
      BY <2>2, <2>3, KeyOfItsSeed
    <2>5. KeysInv'
      BY <1>i, <2>1, <2>2, <2>4
    <2> QED BY <2>1, <2>5, <1>n, <1>a
  <1>3. CASE Stop
    BY <1>3, <1>i, <1>n, <1>a DEF Stop
  <1>4. CASE Restore
    BY <1>4, <1>i, <1>n, <1>a DEF Restore, from_bytes
  <1>5. CASE AlterSaved
    <2>1. UNCHANGED <<dk, board, sent, net, answers>> /\ saved # NoBytes
      BY <1>5 DEF AlterSaved
    <2>2. saved' = [saved EXCEPT !.size = "other"] /\ saved \in [size : Sizes, seed : Seeds]
      BY <1>5, <1>t DEF AlterSaved, TypeOK
    <2>3. saved'.seed = saved.seed
      BY <2>2
    <2>4. KeysInv'
      BY <1>i, <2>1, <2>3
    <2> QED BY <2>1, <2>4, <1>n, <1>a
  <1>6. ASSUME NEW b \in board, NEW m \in Messages, NEW salt \in Salts,
               Encaps(b, m, salt)
        PROVE  KeysInv' /\ NetInv' /\ AnswersInv'
    <2> DEFINE new == Session(unpack_public_key(b).value, m, salt)
    <2>1. /\ sent' = sent \cup {new} /\ net' = net \cup {new.c}
          /\ UNCHANGED <<dk, saved, board, answers>>
      BY <1>6 DEF Encaps
    <2>2. IsCiphertext(new.c)
      BY DEF IsCiphertext, Session, encaps_deterministic, pack_ciphertext,
             pke_encrypt
    <2> HIDE DEF new
    <2>3. NetInv'
      BY <2>1, <2>2, <1>i DEF Origin
    <2> QED BY <2>1, <2>3, <1>k, <1>a
  <1>7. ASSUME NEW b \in board, AlterKey(b)
        PROVE  KeysInv' /\ NetInv' /\ AnswersInv'
    BY <1>7, <1>n, <1>k, <1>a DEF AlterKey
  <1>8. ASSUME NEW c \in net, AlterCiphertext(c)
        PROVE  KeysInv' /\ NetInv' /\ AnswersInv'
    <2>1. PICK a \in AlteredCiphertexts(c) : net' = net \cup {a}
      BY <1>8 DEF AlterCiphertext
    <2>2. UNCHANGED <<dk, saved, board, sent, answers>>
      BY <1>8 DEF AlterCiphertext
    <2>3. IsCiphertext(a) /\ a.u.r2 = c.u.r2
      BY <1>i, AlterationKeepsOrigin
    <2>4. Origin(a)
      BY <1>i, <2>3 DEF Origin
    <2>5. NetInv'
      BY <1>i, <2>1, <2>2, <2>3, <2>4 DEF Origin
    <2> QED BY <2>1, <2>2, <2>5, <1>k, <1>a
  <1>9. ASSUME NEW c \in net, Decaps(c)
        PROVE  KeysInv' /\ NetInv' /\ AnswersInv'
    BY <1>9, <1>i, <1>n, <1>k DEF Decaps
  <1>10. CASE UNCHANGED vars
    BY <1>10, <1>n, <1>k, <1>a DEF vars
  <1> QED BY <1>1, <1>2, <1>3, <1>4, <1>5, <1>6, <1>7, <1>8, <1>9, <1>10 DEF Next

LEMMA Invariant == Spec => []KemInv
  BY InvInit, InvNext, PTL DEF Spec

\* A key that a restart brings back is one whose public half was handed out.
THEOREM RestoredKeyIsPublished == Spec => []KeyInMemoryIsPublished
  <1>1. KemInv => KeyInMemoryIsPublished
    BY DEF KemInv
  <1> QED BY <1>1, Invariant, PTL

-----------------------------------------------------------------------------
(* Refinement: Kem implements IdealKem.                                    *)

LEMMA RefinementInit == Init => Ideal!Init
  BY DEF Init, Ideal!Init, Established, Answered

\* SigmaOf finds the sigma of the key whose public half it is given.
LEMMA SigmaOfKey ==
    ASSUME NEW k \in Keys
    PROVE  SigmaOf(k.ek) = k.sigma
  <1>1. (CHOOSE k2 \in Keys : k2.ek = k.ek) = k
    BY PublicHalfDeterminesKey
  <1> QED BY <1>1 DEF SigmaOf

\* What the owner answers is what the ideal mechanism answers.
LEMMA AnswersAsIdeal ==
    ASSUME KemInv, NEW k \in Keys, NEW c \in net
    PROVE  decaps(k, c) = Ideal!AnswerOf(k.ek, c)
  <1>1. CASE Ideal!Entries(k.ek, c) # {}
    <2>1. PICK i \in Ideal!Entries(k.ek, c) :
             i = (CHOOSE e \in Ideal!Entries(k.ek, c) : TRUE)
      BY <1>1
    <2>2. PICK e \in sent : /\ Decodes(e)
                            /\ i = [owner |-> e.ek, c |-> e.c, key |-> e.key]
                            /\ i.owner = k.ek /\ i.c = c
      BY DEF Ideal!Entries, Established
    <2>3. e.ek = k.ek /\ e.c = c /\ i.key = e.key
      BY <2>2
    <2>4. e.m \in Messages /\ e = Session(k.ek, e.m, e.salt)
      BY <2>3 DEF KemInv, TypeOK
    <2>5. decaps(k, e.c) = e.key
      BY <2>2, <2>4, DecapsRecovers
    <2> QED BY <1>1, <2>1, <2>3, <2>5 DEF Ideal!AnswerOf
  <1>2. CASE Ideal!Entries(k.ek, c) = {}
    <2>1. Ideal!AnswerOf(k.ek, c) = j(EkHash(k.ek), k.sigma, c)
      BY <1>2, SigmaOfKey DEF Ideal!AnswerOf, RejectionKey
    <2>2. ASSUME NEW m, NEW salt, c = Session(k.ek, m, salt).c,
                 pke_decrypt(k.seed_dk, c.u, c.v) = m
          PROVE  FALSE
      <3> DEFINE e == Session(k.ek, m, salt)
      <3>1. e \in sent
        BY <2>2, HonestWasSent, PublicHalfType
      <3>2. e.ek = k.ek /\ e.m = m
        BY DEF Session
      <3>3. Decodes(e)
        BY <2>2, <3>2 DEF Decodes
      <3> HIDE DEF e
      <3>4. [owner |-> e.ek, c |-> e.c, key |-> e.key] \in Established
        BY <3>1, <3>3 DEF Established
      <3> QED BY <1>2, <2>2, <3>2, <3>4 DEF Ideal!Entries, e
    <2> QED BY <2>1, <2>2, DecapsCases
  <1> QED BY <1>1, <1>2

\* An encapsulation establishes a fresh key for a fresh ciphertext, unless it
\* repeats an earlier one or its noise is beyond the code.
LEMMA EncapsRefines ==
    ASSUME KemInv, NEW b \in board, NEW m \in Messages, NEW salt \in Salts,
           Encaps(b, m, salt)
    PROVE  Ideal!Next \/ UNCHANGED Ideal!vars
  <1> DEFINE new == Session(unpack_public_key(b).value, m, salt)
             entry == [owner |-> new.ek, c |-> new.c, key |-> new.key]
  <1>1. sent' = sent \cup {new} /\ UNCHANGED answers
    BY DEF Encaps
  <1>2. new.ek \in PublicKeys /\ new = Session(new.ek, new.m, new.salt)
    BY ParsedKeyType DEF Encaps, KemInv, Session
  <1>3. Answered' = Answered
    BY <1>1 DEF Answered
  <1> HIDE DEF new
  <1>4. CASE new \in sent \/ ~Decodes(new)
    <2>1. Established' = Established
      BY <1>1, <1>4 DEF Established
    <2> QED BY <2>1, <1>3 DEF Ideal!vars
  <1>5. CASE new \notin sent /\ Decodes(new)
    <2>1. Established' = Established \cup {entry}
      BY <1>1, <1>5 DEF Established
    <2>2. \A e \in sent : e.key # new.key
      <3> SUFFICES ASSUME NEW e \in sent, e.key = new.key
                   PROVE  FALSE
        OBVIOUS
      <3>1. e.ek \in PublicKeys /\ e = Session(e.ek, e.m, e.salt)
        BY DEF KemInv, TypeOK
      <3>2. Session(e.ek, e.m, e.salt).key = Session(new.ek, new.m, new.salt).key
        BY <3>1, <1>2
      <3>3. e.ek = new.ek /\ e.m = new.m /\ e.salt = new.salt
        BY <1>2, <3>1, <3>2, SessionKeyInjective
      <3> QED BY <1>2, <1>5, <3>1, <3>3
    <2>3. new.c \notin net
      BY <1>2, <1>5, HonestWasSent
    <2>4. \A a \in answers : a.c # new.c /\ a.key # new.key
      <3> SUFFICES ASSUME NEW a \in answers
                   PROVE  a.c # new.c /\ a.key # new.key
        OBVIOUS
      <3>1. a.c # new.c
        BY <2>3 DEF KemInv
      <3>2. PICK k \in Keys : a = [ek |-> k.ek, c |-> a.c, key |-> decaps(k, a.c)]
        BY DEF KemInv, TypeOK
      <3>3. a.key = decaps(k, a.c)
        BY <3>2
      <3>4. ASSUME a.key = new.key
            PROVE  FALSE
        <4>1. decaps(k, a.c) = Session(new.ek, new.m, new.salt).key
          BY <1>2, <3>3, <3>4
        <4>2. a.c = Session(new.ek, new.m, new.salt).c
          BY <1>2, <4>1, OpenedMeansExact
        <4> QED BY <1>2, <3>1, <4>2
      <3> QED BY <3>1, <3>4
    <2>5. Ideal!Entries(new.ek, new.c) = {}
      <3> SUFFICES ASSUME NEW i \in Established, i.c = new.c
                   PROVE  FALSE
        BY DEF Ideal!Entries
      <3>1. PICK e \in sent : i = [owner |-> e.ek, c |-> e.c, key |-> e.key]
        BY DEF Established
      <3>2. e.c = new.c
        BY <3>1
      <3>3. e.ek \in PublicKeys /\ e = Session(e.ek, e.m, e.salt)
        BY DEF KemInv, TypeOK
      <3>4. e.m = new.m /\ e.salt = new.salt /\ e.key = new.key
        <4>1. Session(e.ek, e.m, e.salt).c.u.r2
                = Session(new.ek, new.m, new.salt).c.u.r2
          BY <1>2, <3>2, <3>3
        <4>2. e.ek = new.ek /\ e.m = new.m /\ e.salt = new.salt
          BY ONLY <1>2, <3>3, <4>1, SessionR2Injective
        <4> QED BY <1>2, <3>3, <4>2
      <3> QED BY <2>2, <3>4
    <2>6. Ideal!Establish(new.ek, new.c, new.key)
      <3>1. \A e \in Established \cup Answered : e.key # new.key
        BY <2>2, <2>4 DEF Established, Answered
      <3>2. \A a \in Answered : a.c # new.c
        BY <2>4 DEF Answered
      <3> QED BY <2>1, <2>5, <3>1, <3>2, <1>3 DEF Ideal!Establish
    <2>7. /\ entry \in Established'
          /\ entry.owner = new.ek /\ entry.c = new.c /\ entry.key = new.key
      BY <2>1
    <2> HIDE DEF entry
    <2> QED BY <2>6, <2>7 DEF Ideal!Next
  <1> QED BY <1>4, <1>5

\* A decapsulation is an answer of the ideal mechanism.
LEMMA DecapsRefines ==
    ASSUME KemInv, NEW c \in net, Decaps(c)
    PROVE  Ideal!Next
  <1> DEFINE a == [ek |-> dk.ek, c |-> c, key |-> decaps(dk, c)]
             i == [owner |-> dk.ek, c |-> c, key |-> decaps(dk, c)]
  <1>1. dk \in Keys
    BY DEF Decaps, KemInv, TypeOK
  <1>2. answers' = answers \cup {a} /\ UNCHANGED sent
    BY DEF Decaps
  <1>3. Answered' = Answered \cup {i} /\ Established' = Established
    <2>1. a.ek = dk.ek /\ a.c = c /\ a.key = decaps(dk, c)
      OBVIOUS
    <2> HIDE DEF a
    <2>2. Answered' = Answered \cup {i}
      BY <1>2, <2>1 DEF Answered
    <2>3. Established' = Established
      BY <1>2 DEF Established
    <2> QED BY <2>2, <2>3
  <1>4. Ideal!Answer(dk.ek, c)
    BY <1>1, <1>3, AnswersAsIdeal DEF Ideal!Answer
  <1>5. i \in Answered' /\ i.owner = dk.ek /\ i.c = c
    BY <1>3
  <1> HIDE DEF i
  <1> QED BY <1>4, <1>5 DEF Ideal!Next

LEMMA RefinementNext == KemInv /\ [Next]_vars => [Ideal!Next]_(Ideal!vars)
  <1> SUFFICES ASSUME KemInv, [Next]_vars
               PROVE  Ideal!Next \/ UNCHANGED Ideal!vars
    OBVIOUS
  <1>u. UNCHANGED <<sent, answers>> => UNCHANGED Ideal!vars
    BY DEF Established, Answered, Ideal!vars
  <1>1. ASSUME NEW seed \in Seeds, Keygen(seed)
        PROVE  UNCHANGED Ideal!vars
    BY <1>1, <1>u DEF Keygen
  <1>2. CASE Save \/ Stop \/ Restore \/ AlterSaved
    BY <1>2, <1>u DEF Save, Stop, Restore, AlterSaved
  <1>3. ASSUME NEW b \in board, NEW m \in Messages, NEW salt \in Salts,
               Encaps(b, m, salt)
        PROVE  Ideal!Next \/ UNCHANGED Ideal!vars
    BY <1>3, EncapsRefines
  <1>4. ASSUME NEW b \in board, AlterKey(b)
        PROVE  UNCHANGED Ideal!vars
    BY <1>4, <1>u DEF AlterKey
  <1>5. ASSUME NEW c \in net, AlterCiphertext(c)
        PROVE  UNCHANGED Ideal!vars
    BY <1>5, <1>u DEF AlterCiphertext
  <1>6. ASSUME NEW c \in net, Decaps(c)
        PROVE  Ideal!Next
    BY <1>6, DecapsRefines
  <1>7. CASE UNCHANGED vars
    BY <1>7, <1>u DEF vars
  <1> QED BY <1>1, <1>2, <1>3, <1>4, <1>5, <1>6, <1>7 DEF Next

\* The mechanism in use, with restarts, damaged keys and damaged ciphertexts, is a
\* KEM with implicit rejection: every step of it is a step of IdealKem or none.
THEOREM Refinement == Spec => IsIdealKem
  BY RefinementInit, RefinementNext, Invariant, PTL
     DEF Spec, IsIdealKem, Ideal!Spec
=============================================================================
