------------------------------ MODULE PkeProofs ------------------------------
(***************************************************************************)
(* Theorems about Pke, for every dimension, code and seed expansion its    *)
(* assumptions allow: what crosses the wire, the identity decryption rests *)
(* on, and the message it returns.                                         *)
(***************************************************************************)
EXTENDS Pke, PolyLemmas, SequenceTheorems

CodeBits == OuterLen * N2

-----------------------------------------------------------------------------
(* Dimensions. *)

LEMMA Multiplication ==
    /\ \A x, y \in Nat : x * y \in Nat
    /\ \A x, y, z \in Nat : x <= y => z * x <= z * y
    /\ \A x, y, z \in Nat : z * (x + y) = z * x + z * y
    /\ \A x, y, z \in Nat : x * (y * z) = (x * y) * z
    /\ \A x, y \in Nat : x * y = y * x
    /\ \A x, y \in Nat \ {0} : x * y # 0
  <1>1. \A x, y \in Nat : x * y \in Nat
    OBVIOUS
  <1>2. \A x, y, z \in Nat : x <= y => z * x <= z * y
    BY Z3
  <1>3. \A x, y, z \in Nat : z * (x + y) = z * x + z * y
    BY Z3
  <1>4. \A x, y, z \in Nat : x * (y * z) = (x * y) * z
    BY Z3
  <1>5. \A x, y \in Nat : x * y = y * x
    BY Z3
  <1>6. \A x, y \in Nat \ {0} : x * y # 0
    BY Z3
  <1> QED BY <1>1, <1>2, <1>3, <1>4, <1>5, <1>6

\* Row a of m rows of n entries lies below m * n.
LEMMA RowEntry ==
    ASSUME NEW m \in Nat, NEW n \in Nat, NEW a \in 0..m-1, NEW b \in 0..n-1
    PROVE  /\ a * n \in Nat /\ m * n \in Nat /\ a * n + n <= m * n
           /\ a * n + b \in 0..m*n-1
  <1>1. a \in Nat /\ a + 1 \in Nat /\ a + 1 <= m /\ b \in Nat
    OBVIOUS
  <1>2. n * (a + 1) <= n * m /\ n * (a + 1) = n * a + n * 1
    BY <1>1, Multiplication
  <1>3. n * a = a * n /\ n * m = m * n /\ n * 1 = n /\ a * n \in Nat /\ m * n \in Nat
    BY <1>1, Multiplication
  <1> QED BY <1>1, <1>2, <1>3

\* A block is a whole number of bytes, and so is a codeword.
LEMMA WholeBytes ==
    /\ ByteBits \in Nat \ {0} /\ OuterLen \in Nat \ {0}
    /\ block_bytes \in Nat \ {0} /\ codeword_bytes \in Nat \ {0}
    /\ N2 = ByteBits * block_bytes /\ CodeBits = ByteBits * codeword_bytes
    /\ codeword_bytes = OuterLen * block_bytes
  <1> DEFINE q == InnerLen \div ByteBits
  <1>1. /\ {OuterLen, InnerLen, Multiplicity, ByteBits} \subseteq Nat \ {0}
        /\ InnerLen % ByteBits = 0
    BY CodecAssumption, PackingAssumption
  <1>2. q \in Nat /\ InnerLen = ByteBits * q
    BY <1>1, ByteDivision
  <1> HIDE DEF q
  <1>3. q # 0
    BY <1>1, <1>2
  <1> DEFINE b == q * Multiplicity
             c == OuterLen * b
  <1>4. b \in Nat \ {0} /\ c \in Nat \ {0}
    BY <1>1, <1>2, <1>3, Multiplication
  <1>5. N2 = ByteBits * b
    BY <1>1, <1>2, Multiplication DEF N2
  <1> HIDE DEF b
  <1>6. CodeBits = ByteBits * c
    <2>1. OuterLen * (ByteBits * b) = (OuterLen * ByteBits) * b
          /\ OuterLen * ByteBits = ByteBits * OuterLen
          /\ (ByteBits * OuterLen) * b = ByteBits * (OuterLen * b)
      BY <1>1, <1>4, Multiplication
    <2> QED BY <1>5, <2>1 DEF CodeBits
  <1> HIDE DEF c
  <1>7. \A n \in Nat : (ByteBits * n) \div ByteBits = n
    <2> TAKE n \in Nat
    <2>1. 0 \in 0..ByteBits-1 /\ ByteBits * n \in Nat
      BY <1>1, Multiplication
    <2>2. (ByteBits * n + 0) \div ByteBits = n
      BY <1>1, <2>1, QuotientIsUnique
    <2> QED BY <2>1, <2>2
  <1>8. block_bytes = b /\ codeword_bytes = c
    BY <1>4, <1>5, <1>6, <1>7 DEF block_bytes, codeword_bytes, CodeBits
  <1> QED BY <1>1, <1>4, <1>5, <1>6, <1>8 DEF c

\* v takes codeword_bytes bytes, none of them partly used.
LEMMA CodewordOnTheWire ==
    /\ CodeBits \in Nat \ {0} /\ CodeBits <= N
    /\ v_bytes = codeword_bytes /\ v_bytes = ByteLen(CodeBits)
    /\ NWords(CodeBits) <= MaxWords
    /\ v_bytes <= PerWord * MaxWords
  <1>1. /\ N \in Nat \ {0} /\ NWords(N) <= MaxWords /\ CodeBits <= N
        /\ ByteBits \in Nat \ {0} /\ codeword_bytes \in Nat \ {0}
        /\ CodeBits = ByteBits * codeword_bytes
    BY PkeAssumption, WholeBytes DEF CodeBits
  <1>2. CodeBits \in Nat \ {0}
    BY <1>1, Multiplication
  <1>3. v_bytes = ByteLen(CodeBits)
    BY DEF v_bytes, CodeBits
  <1>4. ByteLen(CodeBits) = codeword_bytes
    <2>1. ByteBits - 1 \in 0..ByteBits-1
      BY <1>1
    <2>2. (ByteBits * codeword_bytes + (ByteBits - 1)) \div ByteBits = codeword_bytes
      BY <1>1, <2>1, QuotientIsUnique
    <2>3. CodeBits + ByteBits - 1 = ByteBits * codeword_bytes + (ByteBits - 1)
      BY <1>1, <1>2
    <2> QED BY <2>2, <2>3 DEF ByteLen
  <1>5. NWords(CodeBits) <= MaxWords
    <2> DEFINE p == NWords(CodeBits)
               q == NWords(N)
    <2>1. /\ W \in Nat /\ p \in Nat \ {0} /\ q \in Nat \ {0}
          /\ W * (p - 1) < CodeBits /\ N <= W * q
      BY <1>1, <1>2, WordCount, PolyAssumption
    <2> HIDE DEF p, q
    <2>2. q <= p - 1 => W * q <= W * (p - 1)
      BY <2>1, Multiplication
    <2>3. W * q \in Nat /\ W * (p - 1) \in Nat
      BY <2>1, Multiplication
    <2>4. p <= q
      BY <1>1, <1>2, <2>1, <2>2, <2>3
    <2>5. MaxWords \in Nat
      BY PolyAssumption
    <2> QED BY <1>1, <2>1, <2>4, <2>5 DEF p, q
  <1>6. v_bytes <= PerWord * MaxWords
    BY <1>2, <1>3, <1>5, ByteCount
  <1> QED BY <1>1, <1>2, <1>3, <1>4, <1>5, <1>6

\* The dimensions of the two packed elements.
LEMMA WireDimensions ==
    /\ ring_bytes \in Nat \ {0} /\ v_bytes \in Nat \ {0}
    /\ ring_bytes = ByteLen(N) /\ N \in Nat \ {0} /\ NWords(N) <= MaxWords
    /\ N <= ByteBits * ring_bytes
    /\ SeedEk \in Seq(Byte) /\ Salt \in Seq(Byte)
    /\ Len(SeedEk) \in Nat /\ Len(Salt) \in Nat
  <1>1. N \in Nat \ {0} /\ NWords(N) <= MaxWords /\ SeedEk \in Seq(Byte) /\ Salt \in Seq(Byte)
    BY PkeAssumption
  <1>2. ring_bytes \in Nat \ {0} /\ ring_bytes = ByteLen(N) /\ N <= ByteBits * ring_bytes
    BY <1>1, ByteCount DEF ring_bytes
  <1> QED BY <1>1, <1>2, CodewordOnTheWire, WholeBytes, LenProperties

-----------------------------------------------------------------------------
(* Byte strings and their parts. *)

LEMMA BytesAreSequences ==
    ASSUME NEW n \in Nat, NEW bytes
    PROVE  bytes \in Bytes(n) <=> bytes \in Seq(Byte) /\ Len(bytes) = n
  <1>1. ASSUME bytes \in Bytes(n) PROVE bytes \in Seq(Byte) /\ Len(bytes) = n
    <2>1. bytes \in [1..n -> Byte]
      BY <1>1 DEF Bytes
    <2>2. bytes \in Seq(Byte)
      BY <2>1, SeqDef
    <2>3. DOMAIN bytes = 1..Len(bytes) /\ Len(bytes) \in Nat
      BY <2>2, LenProperties
    <2>4. DOMAIN bytes = 1..n
      BY <2>1
    <2>5. 1..n = 1..Len(bytes)
      BY <2>3, <2>4
    <2>6. \A m, l \in Nat : 1..m = 1..l => m = l
      <3> SUFFICES ASSUME NEW m \in Nat, NEW l \in Nat, 1..m = 1..l PROVE m = l
        OBVIOUS
      <3>1. m \in 1..m <=> m \in 1..l
        OBVIOUS
      <3>2. l \in 1..m <=> l \in 1..l
        OBVIOUS
      <3> QED BY <3>1, <3>2
    <2> QED BY <2>2, <2>3, <2>5, <2>6
  <1>2. ASSUME bytes \in Seq(Byte), Len(bytes) = n PROVE bytes \in Bytes(n)
    BY <1>2, LenProperties DEF Bytes
  <1> QED BY <1>1, <1>2

LEMMA SameBytes ==
    ASSUME NEW n \in Nat, NEW a \in Bytes(n), NEW b \in Bytes(n), \A k \in 1..n : a[k] = b[k]
    PROVE  a = b
  BY DEF Bytes

\* n bytes of a string, from position a on.
LEMMA Slice ==
    ASSUME NEW s \in Seq(Byte), NEW a \in Nat, NEW n \in Nat, a + n <= Len(s)
    PROVE  /\ SubSeq(s, a + 1, a + n) \in Bytes(n)
           /\ \A k \in 1..n : SubSeq(s, a + 1, a + n)[k] = s[a + k]
  <1>1. s \in [1..Len(s) -> Byte] /\ Len(s) \in Nat
    BY LenProperties
  <1>2. SubSeq(s, a + 1, a + n) = [k \in 1..n |-> s[a + k]]
    <2>1. SubSeq(s, a + 1, a + n) = [k \in 1..(a + n) - (a + 1) + 1 |-> s[k + (a + 1) - 1]]
      OBVIOUS
    <2>2. (a + n) - (a + 1) + 1 = n
      OBVIOUS
    <2>3. \A k \in 1..n : k + (a + 1) - 1 = a + k
      OBVIOUS
    <2> QED BY <2>1, <2>2, <2>3
  <1>3. \A k \in 1..n : s[a + k] \in Byte
    BY <1>1
  <1> QED BY <1>2, <1>3 DEF Bytes

\* A ciphertext is the bytes of u, the bytes of v and the salt.
LEMMA CiphertextParts ==
    ASSUME NEW ub \in Bytes(ring_bytes), NEW vb \in Bytes(v_bytes)
    PROVE  /\ ub \o vb \o Salt \in Seq(Byte)
           /\ Len(ub \o vb \o Salt) = ring_bytes + v_bytes + Len(Salt)
           /\ \A k \in 1..ring_bytes : (ub \o vb \o Salt)[k] = ub[k]
           /\ \A k \in 1..v_bytes : (ub \o vb \o Salt)[ring_bytes + k] = vb[k]
           /\ \A k \in 1..Len(Salt) : (ub \o vb \o Salt)[ring_bytes + v_bytes + k] = Salt[k]
  <1>1. /\ ring_bytes \in Nat /\ v_bytes \in Nat /\ Len(Salt) \in Nat /\ Salt \in Seq(Byte)
        /\ ub \in Seq(Byte) /\ Len(ub) = ring_bytes
        /\ vb \in Seq(Byte) /\ Len(vb) = v_bytes
    BY WireDimensions, BytesAreSequences
  <1>2. /\ ub \o vb \in Seq(Byte) /\ Len(ub \o vb) = ring_bytes + v_bytes
        /\ \A k \in 1..ring_bytes+v_bytes :
              (ub \o vb)[k] = IF k <= ring_bytes THEN ub[k] ELSE vb[k - ring_bytes]
    BY <1>1, ConcatProperties
  <1> DEFINE head == ub \o vb
  <1> HIDE DEF head
  <1>3. /\ head \o Salt \in Seq(Byte) /\ Len(head \o Salt) = ring_bytes + v_bytes + Len(Salt)
        /\ \A k \in 1..ring_bytes+v_bytes+Len(Salt) :
              (head \o Salt)[k] = IF k <= ring_bytes + v_bytes THEN head[k]
                                  ELSE Salt[k - (ring_bytes + v_bytes)]
    <2>1. head \in Seq(Byte) /\ Len(head) = ring_bytes + v_bytes /\ Salt \in Seq(Byte)
      BY <1>1, <1>2 DEF head
    <2>2. /\ head \o Salt \in Seq(Byte) /\ Len(head \o Salt) = Len(head) + Len(Salt)
          /\ \A k \in 1..Len(head)+Len(Salt) :
                (head \o Salt)[k] = IF k <= Len(head) THEN head[k] ELSE Salt[k - Len(head)]
      BY <2>1, ConcatProperties
    <2> QED BY <2>1, <2>2
  <1>4. \A k \in 1..ring_bytes : (head \o Salt)[k] = ub[k]
    BY <1>1, <1>2, <1>3 DEF head
  <1>5. \A k \in 1..v_bytes : (head \o Salt)[ring_bytes + k] = vb[k]
    <2> SUFFICES ASSUME NEW k \in 1..v_bytes PROVE (head \o Salt)[ring_bytes + k] = vb[k]
      OBVIOUS
    <2>1. /\ ring_bytes + k \in 1..ring_bytes+v_bytes+Len(Salt) /\ ring_bytes + k \in 1..ring_bytes+v_bytes
          /\ ~(ring_bytes + k <= ring_bytes) /\ ring_bytes + k <= ring_bytes + v_bytes
          /\ (ring_bytes + k) - ring_bytes = k
      BY <1>1
    <2> QED BY <1>2, <1>3, <2>1 DEF head
  <1>6. \A k \in 1..Len(Salt) : (head \o Salt)[ring_bytes + v_bytes + k] = Salt[k]
    <2> SUFFICES ASSUME NEW k \in 1..Len(Salt)
                 PROVE  (head \o Salt)[ring_bytes + v_bytes + k] = Salt[k]
      OBVIOUS
    <2>1. /\ ring_bytes + v_bytes + k \in 1..ring_bytes+v_bytes+Len(Salt)
          /\ ~(ring_bytes + v_bytes + k <= ring_bytes + v_bytes)
          /\ (ring_bytes + v_bytes + k) - (ring_bytes + v_bytes) = k
      BY <1>1
    <2> QED BY <1>3, <2>1
  <1> QED BY <1>3, <1>4, <1>5, <1>6 DEF head

\* A public key is the bytes of its seed and the bytes of s.
LEMMA KeyParts ==
    ASSUME NEW sb \in Bytes(ring_bytes)
    PROVE  /\ SeedEk \o sb \in Seq(Byte)
           /\ Len(SeedEk \o sb) = Len(SeedEk) + ring_bytes
           /\ SubSeq(SeedEk \o sb, Len(SeedEk) + 1, Len(SeedEk \o sb)) = sb
  <1>1. /\ ring_bytes \in Nat /\ Len(SeedEk) \in Nat /\ SeedEk \in Seq(Byte)
        /\ sb \in Seq(Byte) /\ Len(sb) = ring_bytes
    BY WireDimensions, BytesAreSequences
  <1>2. /\ SeedEk \o sb \in Seq(Byte) /\ Len(SeedEk \o sb) = Len(SeedEk) + ring_bytes
        /\ \A k \in 1..Len(SeedEk)+ring_bytes :
              (SeedEk \o sb)[k] = IF k <= Len(SeedEk) THEN SeedEk[k] ELSE sb[k - Len(SeedEk)]
    BY <1>1, ConcatProperties
  <1> DEFINE whole == SeedEk \o sb
             part == SubSeq(whole, Len(SeedEk) + 1, Len(SeedEk) + ring_bytes)
  <1> HIDE DEF whole
  <1>3. part \in Bytes(ring_bytes) /\ \A k \in 1..ring_bytes : part[k] = whole[Len(SeedEk) + k]
    <2>1. whole \in Seq(Byte) /\ Len(SeedEk) + ring_bytes <= Len(whole)
      BY <1>1, <1>2 DEF whole
    <2> QED BY <1>1, <2>1, Slice
  <1>4. \A k \in 1..ring_bytes : whole[Len(SeedEk) + k] = sb[k]
    <2> SUFFICES ASSUME NEW k \in 1..ring_bytes PROVE whole[Len(SeedEk) + k] = sb[k]
      OBVIOUS
    <2>1. /\ Len(SeedEk) + k \in 1..Len(SeedEk)+ring_bytes /\ ~(Len(SeedEk) + k <= Len(SeedEk))
          /\ (Len(SeedEk) + k) - Len(SeedEk) = k
      BY <1>1
    <2> QED BY <1>2, <2>1 DEF whole
  <1> HIDE DEF part
  <1>5. part = sb
    <2>1. \A k \in 1..ring_bytes : part[k] = sb[k]
      BY <1>3, <1>4
    <2> QED BY <1>1, <1>3, <2>1, SameBytes
  <1>6. Len(whole) = Len(SeedEk) + ring_bytes
    BY <1>2 DEF whole
  <1>7. SubSeq(whole, Len(SeedEk) + 1, Len(whole)) = sb
    BY <1>5, <1>6 DEF part
  <1> QED BY <1>2, <1>7 DEF whole

\* The bits a byte string has.
LEMMA InBitsOf ==
    ASSUME NEW n \in Nat, NEW bytes \in Bytes(n)
    PROVE  /\ BitsOf(bytes) \subseteq 0..ByteBits*n-1
           /\ \A k \in Nat, c \in 0..ByteBits-1 :
                 ByteBits * k + c \in BitsOf(bytes) <=> k < n /\ c \in bytes[k + 1]
  <1>1. ByteBits \in Nat \ {0} /\ ByteBits * n \in Nat
    BY PackingAssumption, Multiplication
  <1>2. DOMAIN bytes = 1..n /\ \A l \in 1..n : bytes[l] \subseteq 0..ByteBits-1
    BY DEF Bytes, Byte
  <1>3. \A t : t \in BitsOf(bytes) <=> \E l \in 1..n : \E c \in bytes[l] : t = ByteBits * (l - 1) + c
    BY <1>2 DEF BitsOf
  <1>4. \A l \in 1..n, c \in 0..ByteBits-1 : ByteBits * (l - 1) + c \in 0..ByteBits*n-1
    <2> SUFFICES ASSUME NEW l \in 1..n, NEW c \in 0..ByteBits-1
                 PROVE  ByteBits * (l - 1) + c \in 0..ByteBits*n-1
      OBVIOUS
    <2>1. l - 1 \in 0..n-1 /\ l - 1 \in Nat
      OBVIOUS
    <2>2. (l - 1) * ByteBits + c \in 0..n*ByteBits-1
      BY <1>1, <2>1, RowEntry
    <2>3. (l - 1) * ByteBits = ByteBits * (l - 1) /\ n * ByteBits = ByteBits * n
      BY <1>1, <2>1, Multiplication
    <2> QED BY <2>2, <2>3
  <1>5. BitsOf(bytes) \subseteq 0..ByteBits*n-1
    BY <1>2, <1>3, <1>4
  <1>6. ASSUME NEW k \in Nat, NEW c \in 0..ByteBits-1
        PROVE  ByteBits * k + c \in BitsOf(bytes) <=> k < n /\ c \in bytes[k + 1]
    <2>1. ASSUME NEW l \in 1..n, NEW d \in bytes[l], ByteBits * k + c = ByteBits * (l - 1) + d
          PROVE  k + 1 = l /\ c = d
      <3>1. d \in 0..ByteBits-1 /\ l - 1 \in Nat
        BY <1>2
      <3>2. /\ (ByteBits * k + c) \div ByteBits = k /\ (ByteBits * k + c) % ByteBits = c
            /\ (ByteBits * (l - 1) + d) \div ByteBits = l - 1
            /\ (ByteBits * (l - 1) + d) % ByteBits = d
        BY <1>1, <3>1, QuotientIsUnique
      <3>3. k = l - 1 /\ c = d
        BY <2>1, <3>2
      <3> QED BY <3>3
    <2>2. ASSUME k < n, c \in bytes[k + 1] PROVE ByteBits * k + c \in BitsOf(bytes)
      <3>1. k + 1 \in 1..n /\ (k + 1) - 1 = k
        BY <2>2
      <3> QED BY <1>3, <2>2, <3>1
    <2>3. ASSUME ByteBits * k + c \in BitsOf(bytes) PROVE k < n /\ c \in bytes[k + 1]
      <3>1. PICK l \in 1..n : \E d \in bytes[l] : ByteBits * k + c = ByteBits * (l - 1) + d
        BY <1>3, <2>3
      <3>2. PICK d \in bytes[l] : ByteBits * k + c = ByteBits * (l - 1) + d
        BY <3>1
      <3>3. k + 1 = l /\ c = d
        BY <2>1, <3>2
      <3> QED BY <3>3
    <2> QED BY <2>2, <2>3
  <1> QED BY <1>5, <1>6

-----------------------------------------------------------------------------
(* Ring elements and the codeword. *)

\* Elements without bits at and above N.
RingElements == {p \in Array(MaxWords) : Exponents(p) \subseteq 0..N-1}

LEMMA SampledElement ==
    ASSUME NEW S \in Ring(N)
    PROVE  PolyOf(S) \in RingElements /\ Exponents(PolyOf(S)) = S
  <1>1. S \in SUBSET (0..N-1) /\ N \in Nat \ {0} /\ NWords(N) <= MaxWords
    BY WireDimensions DEF Ring
  <1>2. PolyOf(S) \in Array(MaxWords) /\ Exponents(PolyOf(S)) = S
    BY <1>1, PolyOfExponents
  <1> QED BY <1>1, <1>2 DEF RingElements

LEMMA ProductElement ==
    ASSUME NEW p, NEW q
    PROVE  /\ mul(p, q) \in RingElements
           /\ Exponents(mul(p, q)) = CyclicProduct(Exponents(p), Exponents(q), N)
  BY ProductInRing, SampledElement DEF mul

LEMMA SumElement ==
    ASSUME NEW p \in RingElements, NEW q \in RingElements
    PROVE  /\ add(p, q, N) \in RingElements
           /\ Exponents(add(p, q, N)) = xor(Exponents(p), Exponents(q))
           /\ add_assign(p, q, N) = add(p, q, N)
  BY WireDimensions, AddIsSum DEF RingElements

\* A block holds copies of an inner codeword and nothing above.
LEMMA BlockBits ==
    ASSUME NEW c \in Symbols, NEW off \in Nat
    PROVE  /\ rm_encode(c, 0) \subseteq 0..N2-1
           /\ \A t : t \in rm_encode(c, off) <=> \E b \in rm_encode(c, 0) : t = off + b
  <1>1. /\ InnerLen \in Nat /\ Multiplicity \in Nat /\ inner_encode(c) \subseteq 0..InnerLen-1
        /\ N2 = InnerLen * Multiplicity /\ N2 = Multiplicity * InnerLen
    BY CodecAssumption, CodesPromise, Multiplication DEF N2
  <1>2. \A rep \in 0..Multiplicity-1, i \in inner_encode(c) :
           /\ rep * InnerLen \in Nat /\ i \in Nat
           /\ rep * InnerLen + i \in 0..N2-1
    BY <1>1, RowEntry
  <1> DEFINE places == {rep * InnerLen + i : rep \in 0..Multiplicity-1, i \in inner_encode(c)}
  <1>3. places \subseteq 0..N2-1 /\ places \subseteq Nat
    BY <1>2
  <1>4. ASSUME NEW k \in Nat, NEW t
        PROVE  t \in rm_encode(c, k) <=> \E b \in places : t = k + b
    <2>1. t \in rm_encode(c, k) <=>
            \E rep \in 0..Multiplicity-1, i \in inner_encode(c) : t = k + rep * InnerLen + i
      BY DEF rm_encode
    <2>2. ASSUME NEW rep \in 0..Multiplicity-1, NEW i \in inner_encode(c)
          PROVE  k + rep * InnerLen + i = k + (rep * InnerLen + i) /\ rep * InnerLen + i \in places
      <3>1. rep * InnerLen \in Nat /\ i \in Nat
        BY <1>2
      <3>2. \A x, y, z \in Nat : x + y + z = x + (y + z)
        OBVIOUS
      <3>3. rep * InnerLen + i \in places
        OBVIOUS
      <3> HIDE DEF places
      <3> QED BY <3>1, <3>2, <3>3
    <2>3. ASSUME NEW b \in places
          PROVE  \E rep \in 0..Multiplicity-1, i \in inner_encode(c) : b = rep * InnerLen + i
      OBVIOUS
    <2> HIDE DEF places
    <2>4. ASSUME t \in rm_encode(c, k) PROVE \E b \in places : t = k + b
      <3>1. PICK rep \in 0..Multiplicity-1, i \in inner_encode(c) : t = k + rep * InnerLen + i
        BY <2>1, <2>4
      <3> QED BY <2>2, <3>1
    <2>5. ASSUME NEW b \in places, t = k + b PROVE t \in rm_encode(c, k)
      <3>1. PICK rep \in 0..Multiplicity-1, i \in inner_encode(c) : b = rep * InnerLen + i
        BY <2>3
      <3>2. t = k + rep * InnerLen + i
        BY <2>2, <2>5, <3>1
      <3> QED BY <2>1, <3>2
    <2> QED BY <2>4, <2>5
  <1> HIDE DEF places
  <1>5. rm_encode(c, 0) = places
    <2>1. \A t : t \in rm_encode(c, 0) <=> \E b \in places : t = 0 + b
      BY <1>4
    <2>2. \A b \in places : 0 + b = b
      BY <1>3
    <2> QED BY <2>1, <2>2
  <1> QED BY <1>3, <1>4, <1>5

\* A position of a codeword determines its block and its place in it.
LEMMA BlockPosition ==
    ASSUME NEW j \in Nat, NEW b \in 0..N2-1
    PROVE  /\ N2 \in Nat \ {0} /\ j * N2 \in Nat /\ j * N2 + b \in Nat
           /\ (j * N2 + b) \div N2 = j /\ (j * N2 + b) % N2 = b
           /\ j \in 0..OuterLen-1 => j * N2 + b \in 0..CodeBits-1
  <1>1. N2 \in Nat \ {0} /\ OuterLen \in Nat \ {0}
    <2>1. N2 = ByteBits * block_bytes /\ {ByteBits, block_bytes, OuterLen} \subseteq Nat \ {0}
      BY WholeBytes
    <2> QED BY <2>1, Multiplication
  <1>2. j * N2 = N2 * j /\ j * N2 \in Nat
    BY <1>1, Multiplication
  <1>3. (N2 * j + b) \div N2 = j /\ (N2 * j + b) % N2 = b
    BY <1>1, QuotientIsUnique
  <1>4. j \in 0..OuterLen-1 => j * N2 + b \in 0..CodeBits-1
    BY <1>1, RowEntry DEF CodeBits
  <1> QED BY <1>1, <1>2, <1>3, <1>4

LEMMA EveryPositionHasABlock ==
    ASSUME NEW t \in 0..CodeBits-1
    PROVE  \E j \in 0..OuterLen-1, b \in 0..N2-1 : t = j * N2 + b
  <1>1. N2 \in Nat \ {0} /\ OuterLen \in Nat \ {0} /\ CodeBits \in Nat /\ t \in Nat /\ t < OuterLen * N2
    <2>1. N2 = ByteBits * block_bytes /\ {ByteBits, block_bytes, OuterLen} \subseteq Nat \ {0}
      BY WholeBytes
    <2> QED BY <2>1, Multiplication DEF CodeBits
  <1> DEFINE j == t \div N2
             b == t % N2
  <1>2. j \in Nat /\ b \in 0..N2-1 /\ t = N2 * j + b
    <2>1. \A x, y \in Nat : y > 0 => /\ x \div y \in Nat /\ x % y \in 0..y-1
                                     /\ x = y * (x \div y) + (x % y)
      BY Z3
    <2> QED BY <1>1, <2>1
  <1> HIDE DEF j, b
  <1>3. N2 * j = j * N2 /\ j * N2 \in Nat /\ OuterLen * N2 = N2 * OuterLen /\ OuterLen * N2 \in Nat
        /\ (OuterLen <= j => N2 * OuterLen <= N2 * j)
    BY <1>1, <1>2, Multiplication
  <1>4. j < OuterLen
    BY <1>1, <1>2, <1>3
  <1> QED BY <1>1, <1>2, <1>3, <1>4

\* The encoder (codes/mod.rs): a canonical element below the codeword's length;
\* block j holds the codeword of symbol j.
LEMMA CodewordElement ==
    ASSUME NEW m \in Plaintexts
    PROVE  /\ encode(m) \in RingElements
           /\ Exponents(encode(m)) \subseteq 0..CodeBits-1
           /\ \A j \in 0..OuterLen-1, b \in 0..N2-1 :
                 j * N2 + b \in Exponents(encode(m)) <=> b \in rm_encode(outer_encode(m)[j], 0)
  <1> DEFINE cw == outer_encode(m)
             buf == UNION {rm_encode(cw[j], j * N2) : j \in 0..OuterLen-1}
             bytes == BytesOf(buf, codeword_bytes)
  <1>1. \A j \in 0..OuterLen-1 : cw[j] \in Symbols /\ j \in Nat /\ j * N2 \in Nat
    <2>1. cw \in [0..OuterLen-1 -> Symbols]
      BY CodesPromise
    <2>2. N2 \in Nat
      BY WholeBytes, Multiplication
    <2> QED BY <2>1, <2>2, WholeBytes, Multiplication
  <1> HIDE DEF cw
  <1>2. \A t : t \in buf <=> \E j \in 0..OuterLen-1 : \E b \in rm_encode(cw[j], 0) : t = j * N2 + b
    BY <1>1, BlockBits
  <1>3. \A j \in 0..OuterLen-1 : rm_encode(cw[j], 0) \subseteq 0..N2-1
    BY <1>1, BlockBits
  <1> HIDE DEF buf
  <1>4. buf \subseteq 0..CodeBits-1
    BY <1>1, <1>2, <1>3, BlockPosition
  <1>5. \A j \in 0..OuterLen-1, b \in 0..N2-1 : j * N2 + b \in buf <=> b \in rm_encode(cw[j], 0)
    <2> SUFFICES ASSUME NEW j \in 0..OuterLen-1, NEW b \in 0..N2-1, j * N2 + b \in buf
                 PROVE  b \in rm_encode(cw[j], 0)
      BY <1>2
    <2>0. PICK l \in 0..OuterLen-1 : \E d \in rm_encode(cw[l], 0) : j * N2 + b = l * N2 + d
      BY <1>2
    <2>1. PICK d \in rm_encode(cw[l], 0) : j * N2 + b = l * N2 + d
      BY <2>0
    <2>2. d \in 0..N2-1 /\ l \in Nat /\ j \in Nat
      BY <1>1, <1>3
    <2>3. j = l /\ b = d
      BY <2>1, <2>2, BlockPosition
    <2> QED BY <2>3
  <1>6. /\ codeword_bytes \in Nat /\ codeword_bytes <= PerWord * MaxWords
        /\ ByteBits \in Nat \ {0} /\ CodeBits = ByteBits * codeword_bytes
        /\ CodeBits \in Nat /\ N \in Nat /\ CodeBits <= N
    BY WholeBytes, CodewordOnTheWire, WireDimensions
  <1>7. bytes \in Bytes(codeword_bytes)
    BY DEF BytesOf, Bytes, Byte
  <1>8. \A k \in 1..codeword_bytes, c \in 0..ByteBits-1 :
           c \in bytes[k] <=> ByteBits * (k - 1) + c \in buf
    BY DEF BytesOf
  <1>9. encode(m) = bytes_to_poly(bytes)
    BY DEF encode, buf, cw
  <1> HIDE DEF bytes
  <1>10. /\ encode(m) \in Array(MaxWords)
         /\ \A k \in Nat, c \in 0..ByteBits-1 :
               ByteBits * k + c \in Exponents(encode(m)) <=> k < codeword_bytes /\ c \in bytes[k + 1]
    BY <1>6, <1>7, <1>9, InBytesToPoly
  <1>11. \A t \in Nat : t \in Exponents(encode(m)) <=> t \in buf
    <2> SUFFICES ASSUME NEW t \in Nat PROVE t \in Exponents(encode(m)) <=> t \in buf
      OBVIOUS
    <2> DEFINE k == t \div ByteBits
               c == t % ByteBits
    <2>1. k \in Nat /\ c \in 0..ByteBits-1 /\ t = ByteBits * k + c
      BY ByteDivision
    <2> HIDE DEF k, c
    <2>2. t \in Exponents(encode(m)) <=> k < codeword_bytes /\ c \in bytes[k + 1]
      BY <1>10, <2>1
    <2>3. k < codeword_bytes => (c \in bytes[k + 1] <=> t \in buf)
      <3>1. k < codeword_bytes => k + 1 \in 1..codeword_bytes /\ (k + 1) - 1 = k
        BY <1>6, <2>1
      <3> QED BY <1>8, <2>1, <3>1
    <2>4. t \in buf => k < codeword_bytes
      <3>1. codeword_bytes <= k => ByteBits * codeword_bytes <= ByteBits * k
        BY <1>6, <2>1, Multiplication
      <3>2. ByteBits * k \in Nat
        BY <1>6, <2>1, Multiplication
      <3>3. t \in buf => t < CodeBits
        BY <1>4, <1>6
      <3> QED BY <1>6, <2>1, <3>1, <3>2, <3>3
    <2> QED BY <2>2, <2>3, <2>4
  <1>12. Exponents(encode(m)) = buf
    <2>1. Exponents(encode(m)) \subseteq Nat
      BY <1>10, ExponentsAreNat
    <2>2. buf \subseteq Nat
      BY <1>4, <1>6
    <2> QED BY <1>11, <2>1, <2>2
  <1>13. buf \subseteq 0..N-1
    BY <1>4, <1>6
  <1> QED BY <1>4, <1>5, <1>10, <1>12, <1>13 DEF RingElements, cw

\* The bits of an element that lie in block j.
BlockOf(S, j) == {b \in 0..N2-1 : j * N2 + b \in S}

\* The decoder (codes/mod.rs) hands each inner decoder the bits of its block.
LEMMA DecodedBlocks ==
    ASSUME NEW p \in Array(MaxWords)
    PROVE  decode(p) = outer_decode([j \in 0..OuterLen-1 |-> inner_decode(BlockOf(Exponents(p), j))])
  <1> DEFINE buf == poly_to_bytes(codeword_bytes, p)
  <1>1. /\ codeword_bytes \in Nat \ {0} /\ block_bytes \in Nat \ {0} /\ OuterLen \in Nat \ {0}
        /\ ByteBits \in Nat \ {0} /\ codeword_bytes <= PerWord * MaxWords
        /\ codeword_bytes = OuterLen * block_bytes /\ N2 = ByteBits * block_bytes
    BY WholeBytes, CodewordOnTheWire
  <1>2. buf \in Bytes(codeword_bytes) /\ \A k \in 1..codeword_bytes : buf[k] = ByteOf(p, k - 1)
    BY ByteIsByte DEF poly_to_bytes, Bytes
  <1>3. buf \in Seq(Byte) /\ Len(buf) = codeword_bytes
    BY <1>1, <1>2, BytesAreSequences
  <1> HIDE DEF buf
  <1>4. ASSUME NEW j \in 0..OuterLen-1
        PROVE  BitsOf(Block(buf, j)) = BlockOf(Exponents(p), j)
    <2> DEFINE block == Block(buf, j)
               first == j * block_bytes
    <2>1. first \in Nat /\ first + block_bytes <= codeword_bytes
          /\ \A k \in 0..block_bytes-1 : first + k \in 0..codeword_bytes-1
      BY <1>1, RowEntry
    <2>2. (j + 1) * block_bytes = first + block_bytes
      <3>1. j \in Nat /\ 1 \in Nat /\ block_bytes \in Nat
        BY <1>1
      <3>2. block_bytes * (j + 1) = block_bytes * j + block_bytes * 1
        BY <3>1, Multiplication
      <3>3. block_bytes * (j + 1) = (j + 1) * block_bytes /\ block_bytes * j = first
            /\ block_bytes * 1 = block_bytes
        BY <3>1, Multiplication
      <3> QED BY <3>2, <3>3
    <2> HIDE DEF first
    <2>3. block = SubSeq(buf, first + 1, first + block_bytes)
      BY <2>2 DEF Block, first
    <2>4. block \in Bytes(block_bytes) /\ \A k \in 1..block_bytes : block[k] = buf[first + k]
      BY <1>1, <1>3, <2>1, <2>3, Slice
    <2> HIDE DEF block
    <2>5. \A k \in 0..block_bytes-1 : block[k + 1] = ByteOf(p, first + k)
      <3> SUFFICES ASSUME NEW k \in 0..block_bytes-1 PROVE block[k + 1] = ByteOf(p, first + k)
        OBVIOUS
      <3>1. k + 1 \in 1..block_bytes /\ first + (k + 1) \in 1..codeword_bytes
            /\ (first + (k + 1)) - 1 = first + k
        BY <1>1, <2>1
      <3> QED BY <1>2, <2>4, <3>1
    <2>6. ASSUME NEW k \in 0..block_bytes-1, NEW c \in 0..ByteBits-1
          PROVE  ByteBits * k + c \in BitsOf(block) <=> ByteBits * k + c \in BlockOf(Exponents(p), j)
      <3>1. k \in Nat /\ k < block_bytes /\ block_bytes \in Nat /\ k + 1 \in 1..block_bytes
        BY <1>1
      <3>2. ByteBits * k + c \in BitsOf(block) <=> c \in block[k + 1]
        BY <2>4, <3>1, InBitsOf
      <3>3. first + k \in 0..PerWord*MaxWords-1
        BY <1>1, <2>1, PackingAssumption, PolyAssumption, Multiplication
      <3>4. c \in ByteOf(p, first + k) <=> ByteBits * (first + k) + c \in Exponents(p)
        BY <3>3, WordOfByte, InByte
      <3>5. ByteBits * (first + k) + c = j * N2 + (ByteBits * k + c)
        <4>1. ByteBits * (first + k) = ByteBits * first + ByteBits * k
          BY <1>1, <2>1, <3>1, Multiplication
        <4>2. ByteBits * first = j * N2
          <5>1. j \in Nat /\ ByteBits \in Nat /\ block_bytes \in Nat
            BY <1>1
          <5>2. ByteBits * (j * block_bytes) = (ByteBits * j) * block_bytes
                /\ ByteBits * j = j * ByteBits /\ j * (ByteBits * block_bytes) = (j * ByteBits) * block_bytes
            BY <5>1, Multiplication
          <5> QED BY <1>1, <5>2 DEF first
        <4>3. ByteBits * first \in Nat /\ ByteBits * k \in Nat
          BY <1>1, <2>1, <3>1, Multiplication
        <4> QED BY <4>1, <4>2, <4>3
      <3>6. ByteBits * k + c \in 0..N2-1
        <4>1. k * ByteBits + c \in 0..block_bytes*ByteBits-1
          BY <1>1, <3>1, RowEntry
        <4>2. k * ByteBits = ByteBits * k /\ block_bytes * ByteBits = N2
          BY <1>1, <3>1, Multiplication
        <4> QED BY <4>1, <4>2
      <3> QED BY <2>5, <3>2, <3>4, <3>5, <3>6 DEF BlockOf
    <2>7. BitsOf(block) \subseteq 0..N2-1
      BY <1>1, <2>4, InBitsOf
    <2>8. BlockOf(Exponents(p), j) \subseteq 0..N2-1
      BY DEF BlockOf
    <2>9. \A t \in 0..N2-1 : \E k \in 0..block_bytes-1, c \in 0..ByteBits-1 : t = ByteBits * k + c
      <3> SUFFICES ASSUME NEW t \in 0..N2-1
                   PROVE  \E k \in 0..block_bytes-1, c \in 0..ByteBits-1 : t = ByteBits * k + c
        OBVIOUS
      <3> DEFINE k == t \div ByteBits
                 c == t % ByteBits
      <3>1. k \in Nat /\ c \in 0..ByteBits-1 /\ t = ByteBits * k + c
        BY ByteDivision
      <3> HIDE DEF k, c
      <3>2. block_bytes <= k => ByteBits * block_bytes <= ByteBits * k
        BY <1>1, <3>1, Multiplication
      <3>3. ByteBits * block_bytes \in Nat /\ ByteBits * k \in Nat
        BY <1>1, <3>1, Multiplication
      <3>4. k < block_bytes
        BY <1>1, <3>1, <3>2, <3>3
      <3> QED BY <1>1, <3>1, <3>4
    <2> QED BY <2>6, <2>7, <2>8, <2>9 DEF block
  <1>5. [j \in 0..OuterLen-1 |-> inner_decode(BitsOf(Block(buf, j)))]
          = [j \in 0..OuterLen-1 |-> inner_decode(BlockOf(Exponents(p), j))]
    BY <1>4
  <1> QED BY <1>5 DEF decode, buf

-----------------------------------------------------------------------------
(* The scheme. *)

\* What the seeds expand to, and the message.
Expanded ==
    /\ xof_dk \in KeyStreams /\ xof_ek \in UniformStreams /\ xof_th \in ThetaStreams
    /\ msg \in Plaintexts

LEMMA SampledPolynomials ==
    ASSUME Expanded
    PROVE  /\ \A n \in 1..2 : xof_dk[n] \in Ring(N)
           /\ \A n \in 1..3 : xof_th[n] \in Ring(N)
           /\ \A n \in 1..2 : /\ sample_fixed_weight(xof_dk, n) \in RingElements
                              /\ Exponents(sample_fixed_weight(xof_dk, n)) = xof_dk[n]
           /\ \A n \in 1..3 : /\ sample_fixed_weight(xof_th, n) \in RingElements
                              /\ Exponents(sample_fixed_weight(xof_th, n)) = xof_th[n]
  <1>1. /\ xof_dk \in (SUBSET (0..N-1)) \X (SUBSET (0..N-1))
        /\ xof_th \in (SUBSET (0..N-1)) \X (SUBSET (0..N-1)) \X (SUBSET (0..N-1))
    BY PkeAssumption DEF Expanded
  <1>2. \A n \in 1..2 : xof_dk[n] \in Ring(N)
    <2>1. xof_dk[1] \in Ring(N) /\ xof_dk[2] \in Ring(N)
      BY <1>1 DEF Ring
    <2>2. \A n \in 1..2 : n = 1 \/ n = 2
      OBVIOUS
    <2> QED BY <2>1, <2>2
  <1>3. \A n \in 1..3 : xof_th[n] \in Ring(N)
    <2>1. xof_th[1] \in Ring(N) /\ xof_th[2] \in Ring(N) /\ xof_th[3] \in Ring(N)
      BY <1>1 DEF Ring
    <2>2. \A n \in 1..3 : n = 1 \/ n = 2 \/ n = 3
      OBVIOUS
    <2> QED BY <2>1, <2>2
  <1> QED BY <1>2, <1>3, SampledElement DEF sample_fixed_weight

\* h is cut to the N bits of a ring element.
LEMMA PublicElement ==
    ASSUME Expanded
    PROVE  h \in RingElements
  <1>1. xof_ek \in Array(NWords(N))
    BY PkeAssumption DEF Expanded
  <1>2. h \in Array(MaxWords) /\ Exponents(h) = Exponents(xof_ek) \cap 0..N-1
    BY <1>1, WireDimensions, UniformIsCut DEF h
  <1> QED BY <1>2 DEF RingElements

\* s = x + h*y
LEMMA KeygenElement ==
    ASSUME Expanded
    PROVE  /\ keygen \in RingElements
           /\ Exponents(keygen) = xor(xof_dk[2], CyclicProduct(xof_dk[1], Exponents(h), N))
  <1> DEFINE y == sample_fixed_weight(xof_dk, 1)
             x == sample_fixed_weight(xof_dk, 2)
  <1>1. /\ y \in RingElements /\ Exponents(y) = xof_dk[1]
        /\ x \in RingElements /\ Exponents(x) = xof_dk[2]
    <2>1. 1 \in 1..2 /\ 2 \in 1..2
      OBVIOUS
    <2> QED BY <2>1, SampledPolynomials
  <1>2. keygen = add(x, mul(y, h), N)
    BY DEF keygen
  <1> HIDE DEF x, y
  <1>3. mul(y, h) \in RingElements /\ Exponents(mul(y, h)) = CyclicProduct(Exponents(y), Exponents(h), N)
    BY ProductElement
  <1> QED BY <1>1, <1>2, <1>3, SumElement

\* u = r1 + h*r2 and, on the bits of the codeword, v = Encode(m) + s*r2 + e
LEMMA EncryptElements ==
    ASSUME Expanded, NEW s \in RingElements
    PROVE  /\ encrypt(s) \in [u : Array(MaxWords), v : Array(MaxWords)]
           /\ encrypt(s).u \in RingElements /\ encrypt(s).v \in RingElements
           /\ Exponents(encrypt(s).u) = xor(xof_th[3], CyclicProduct(xof_th[1], Exponents(h), N))
           /\ Exponents(encrypt(s).v) =
                xor(xor(Exponents(encode(msg)), CyclicProduct(xof_th[1], Exponents(s), N)), xof_th[2])
                  \cap 0..CodeBits-1
  <1> DEFINE r2 == sample_fixed_weight(xof_th, 1)
             e  == sample_fixed_weight(xof_th, 2)
             r1 == sample_fixed_weight(xof_th, 3)
             u == add(r1, mul(r2, h), N)
             w == add(encode(msg), mul(r2, s), N)
             v == add_assign(w, e, N)
             cut == truncate_to_bits(v, N, CodeBits)
  <1>1. /\ r2 \in RingElements /\ Exponents(r2) = xof_th[1]
        /\ e \in RingElements /\ Exponents(e) = xof_th[2]
        /\ r1 \in RingElements /\ Exponents(r1) = xof_th[3]
    <2>1. 1 \in 1..3 /\ 2 \in 1..3 /\ 3 \in 1..3
      OBVIOUS
    <2> QED BY <2>1, SampledPolynomials
  <1>2. encrypt(s) = [u |-> u, v |-> cut]
    BY DEF encrypt, CodeBits
  <1> HIDE DEF r1, r2, e
  <1>3. u \in RingElements /\ Exponents(u) = xor(xof_th[3], CyclicProduct(xof_th[1], Exponents(h), N))
    BY <1>1, ProductElement, SumElement
  <1>4. /\ w \in RingElements
        /\ Exponents(w) = xor(Exponents(encode(msg)), CyclicProduct(xof_th[1], Exponents(s), N))
    <2>1. encode(msg) \in RingElements
      BY CodewordElement DEF Expanded
    <2> QED BY <1>1, <2>1, ProductElement, SumElement
  <1> HIDE DEF u, w
  <1>5. v \in RingElements /\ Exponents(v) = xor(Exponents(w), xof_th[2])
    BY <1>1, <1>4, SumElement
  <1> HIDE DEF v
  <1>6. cut \in Array(MaxWords) /\ Exponents(cut) = Exponents(v) \cap 0..CodeBits-1
    <2>1. /\ v \in Array(MaxWords) /\ Exponents(v) \subseteq 0..N-1
          /\ CodeBits \in 0..N /\ N \in Nat \ {0} /\ NWords(N) <= MaxWords
      BY <1>5, WireDimensions, CodewordOnTheWire DEF RingElements
    <2> QED BY <2>1, TruncateIsExact
  <1> HIDE DEF cut
  <1>7. cut \in RingElements
    BY <1>5, <1>6 DEF RingElements
  <1> QED BY <1>2, <1>3, <1>4, <1>5, <1>6, <1>7 DEF RingElements

-----------------------------------------------------------------------------
(* The wire. *)

KeyLen == Len(SeedEk) + ring_bytes
CiphertextLen == ring_bytes + v_bytes + Len(Salt)

\* A public key of the right length yields the s that was sent.
KeyArrives(bytes) ==
    /\ bytes \in Seq(Byte)
    /\ Len(bytes) = KeyLen => unpack_public_key(bytes) = keygen

\* The channel does not touch the salt.
SaltArrives(bytes) ==
    /\ bytes \in Seq(Byte)
    /\ Len(bytes) = CiphertextLen =>
          \A k \in 1..Len(Salt) : bytes[ring_bytes + v_bytes + k] = Salt[k]

\* The owner's parser, on a ciphertext of the right length.
LEMMA ParsedCiphertext ==
    ASSUME NEW bytes \in Seq(Byte), Len(bytes) = CiphertextLen
    PROVE  LET ub == SubSeq(bytes, 1, ring_bytes)
               vb == SubSeq(bytes, ring_bytes + 1, ring_bytes + v_bytes)
           IN  /\ ub \in Bytes(ring_bytes) /\ vb \in Bytes(v_bytes)
               /\ \A k \in 1..ring_bytes : ub[k] = bytes[k]
               /\ \A k \in 1..v_bytes : vb[k] = bytes[ring_bytes + k]
               /\ unpack_ciphertext(bytes) = [u |-> unpack(ub, N), v |-> unpack(vb, CodeBits)]
               /\ unpack(ub, N) \in RingElements
               /\ unpack(vb, CodeBits) \in RingElements
               /\ Exponents(unpack(vb, CodeBits)) \subseteq 0..CodeBits-1
  <1> DEFINE ub == SubSeq(bytes, 1, ring_bytes)
             vb == SubSeq(bytes, ring_bytes + 1, ring_bytes + v_bytes)
  <1>1. /\ ring_bytes \in Nat \ {0} /\ v_bytes \in Nat \ {0} /\ Len(Salt) \in Nat
        /\ ring_bytes = ByteLen(N) /\ v_bytes = ByteLen(CodeBits)
        /\ N \in Nat \ {0} /\ CodeBits \in Nat \ {0} /\ CodeBits <= N
        /\ NWords(N) <= MaxWords /\ NWords(CodeBits) <= MaxWords
    BY WireDimensions, CodewordOnTheWire
  <1>2. Len(bytes) = ring_bytes + v_bytes + Len(Salt)
    BY DEF CiphertextLen
  <1>3. ub \in Bytes(ring_bytes) /\ \A k \in 1..ring_bytes : ub[k] = bytes[k]
    <2>1. 0 \in Nat /\ 0 + ring_bytes <= Len(bytes) /\ ring_bytes \in Nat
      BY <1>1, <1>2
    <2>2. /\ SubSeq(bytes, 0 + 1, 0 + ring_bytes) \in Bytes(ring_bytes)
          /\ \A k \in 1..ring_bytes : SubSeq(bytes, 0 + 1, 0 + ring_bytes)[k] = bytes[0 + k]
      BY <2>1, Slice
    <2>3. 0 + 1 = 1 /\ 0 + ring_bytes = ring_bytes /\ \A k \in 1..ring_bytes : 0 + k = k
      BY <1>1
    <2> QED BY <2>2, <2>3
  <1>4. vb \in Bytes(v_bytes) /\ \A k \in 1..v_bytes : vb[k] = bytes[ring_bytes + k]
    <2>1. ring_bytes \in Nat /\ v_bytes \in Nat /\ ring_bytes + v_bytes <= Len(bytes)
      BY <1>1, <1>2
    <2> QED BY <2>1, Slice
  <1>5. unpack_ciphertext(bytes) = [u |-> unpack(ub, N), v |-> unpack(vb, CodeBits)]
    BY <1>2 DEF unpack_ciphertext, CodeBits
  <1> HIDE DEF ub, vb
  <1>6. unpack(ub, N) \in RingElements
    BY <1>1, <1>3, UnpackedBits, UnpackedIsCanonical DEF RingElements
  <1>7. unpack(vb, CodeBits) \in Array(MaxWords) /\ Exponents(unpack(vb, CodeBits)) \subseteq 0..CodeBits-1
    BY <1>1, <1>4, UnpackedBits, UnpackedIsCanonical
  <1>8. unpack(vb, CodeBits) \in RingElements
    BY <1>1, <1>7 DEF RingElements
  <1> QED BY <1>3, <1>4, <1>5, <1>6, <1>7, <1>8 DEF ub, vb

\* What the sender packs.
LEMMA PackedCiphertext ==
    ASSUME NEW u \in RingElements, NEW v \in RingElements
    PROVE  /\ pack(u, N) \in Bytes(ring_bytes) /\ pack(v, CodeBits) \in Bytes(v_bytes)
           /\ pack_ciphertext(u, v) = pack(u, N) \o pack(v, CodeBits) \o Salt
  <1>1. u \in Array(MaxWords) /\ v \in Array(MaxWords)
    BY DEF RingElements
  <1>2. pack(u, N) \in Bytes(ring_bytes)
    BY <1>1, WireDimensions, PackedBits
  <1>3. pack(v, CodeBits) \in Bytes(v_bytes)
    BY <1>1, CodewordOnTheWire, PackedBits
  <1> QED BY <1>2, <1>3 DEF pack_ciphertext, CodeBits

\* Inverting a bit changes one byte and no length.
LEMMA Flipped ==
    ASSUME NEW bytes \in Seq(Byte), NEW at \in Nat, at < ByteBits * Len(bytes)
    PROVE  /\ Flip(bytes, at) \in Seq(Byte) /\ Len(Flip(bytes, at)) = Len(bytes)
           /\ at \div ByteBits + 1 \in 1..Len(bytes)
           /\ \A k \in 1..Len(bytes) : k # at \div ByteBits + 1 => Flip(bytes, at)[k] = bytes[k]
           /\ Flip(bytes, at)[at \div ByteBits + 1] = xor(bytes[at \div ByteBits + 1], {at % ByteBits})
  <1> DEFINE q == at \div ByteBits
             i == q + 1
  <1>1. q \in Nat /\ at % ByteBits \in 0..ByteBits-1 /\ at = ByteBits * q + (at % ByteBits)
        /\ ByteBits \in Nat \ {0} /\ Len(bytes) \in Nat
    BY ByteDivision, PackingAssumption, LenProperties
  <1>2. Flip(bytes, at) = [bytes EXCEPT ![i] = xor(bytes[i], {at % ByteBits})]
    BY DEF Flip
  <1> HIDE DEF q
  <1>3. i \in 1..Len(bytes)
    <2>1. Len(bytes) <= q => ByteBits * Len(bytes) <= ByteBits * q
      BY <1>1, Multiplication
    <2>2. ByteBits * Len(bytes) \in Nat /\ ByteBits * q \in Nat
      BY <1>1, Multiplication
    <2>3. q < Len(bytes)
      BY <1>1, <2>1, <2>2
    <2> QED BY <1>1, <2>3
  <1> HIDE DEF i
  <1>4. xor(bytes[i], {at % ByteBits}) \in Byte
    <2>1. bytes[i] \in Byte
      BY <1>3, ElementOfSeq
    <2> QED BY <1>1, <2>1 DEF xor, Byte
  <1>5. /\ Flip(bytes, at) \in Seq(Byte) /\ Len(Flip(bytes, at)) = Len(bytes)
        /\ \A k \in 1..Len(bytes) :
              Flip(bytes, at)[k] = IF k = i THEN xor(bytes[i], {at % ByteBits}) ELSE bytes[k]
    BY <1>2, <1>3, <1>4, ExceptSeq
  <1> QED BY <1>3, <1>5 DEF i, q

\* The last byte is lost.
LEMMA Shortened ==
    ASSUME NEW bytes \in Seq(Byte), Len(bytes) # 0
    PROVE  /\ SubSeq(bytes, 1, Len(bytes) - 1) \in Seq(Byte)
           /\ Len(SubSeq(bytes, 1, Len(bytes) - 1)) = Len(bytes) - 1
  <1> DEFINE n == Len(bytes) - 1
  <1>1. n \in Nat /\ 0 + n <= Len(bytes) /\ 0 \in Nat /\ 0 + 1 = 1 /\ 0 + n = n
    BY LenProperties
  <1>2. SubSeq(bytes, 0 + 1, 0 + n) \in Bytes(n)
    BY <1>1, Slice
  <1> HIDE DEF n
  <1>3. SubSeq(bytes, 1, n) \in Bytes(n)
    BY <1>1, <1>2
  <1> QED BY <1>1, <1>3, BytesAreSequences DEF n

\* The public key arrives if nothing is damaged.
LEMMA SentKeyArrives ==
    ASSUME Expanded
    PROVE  KeyArrives(pack_public_key(keygen)) /\ Len(pack_public_key(keygen)) = KeyLen
  <1> DEFINE sb == pack(keygen, N)
             bytes == pack_public_key(keygen)
  <1>1. /\ N \in Nat \ {0} /\ NWords(N) <= MaxWords /\ ring_bytes = ByteLen(N)
        /\ keygen \in Array(MaxWords) /\ Exponents(keygen) \subseteq 0..N-1
    BY WireDimensions, KeygenElement DEF RingElements
  <1>2. sb \in Bytes(ring_bytes) /\ unpack(sb, N) = keygen
    BY <1>1, PackedBits, UnpackInvertsPack
  <1>3. bytes = SeedEk \o sb
    BY DEF pack_public_key
  <1> HIDE DEF sb, bytes
  <1>4. /\ bytes \in Seq(Byte) /\ Len(bytes) = KeyLen
        /\ SubSeq(bytes, Len(SeedEk) + 1, Len(bytes)) = sb
    BY <1>2, <1>3, KeyParts DEF KeyLen
  <1>5. unpack_public_key(bytes) = keygen
    BY <1>2, <1>4 DEF unpack_public_key, KeyLen
  <1> QED BY <1>4, <1>5 DEF KeyArrives, bytes

\* A bit above the N bits of s is masked by the parser.
LEMMA DamagedKeyArrives ==
    ASSUME Expanded, NEW at \in N..ByteBits*ring_bytes-1
    PROVE  KeyArrives(Flip(pack_public_key(keygen), ByteBits * Len(SeedEk) + at))
  <1> DEFINE sb == pack(keygen, N)
             bytes == pack_public_key(keygen)
             pos == ByteBits * Len(SeedEk) + at
             flipped == Flip(bytes, pos)
             q == at \div ByteBits
             c == at % ByteBits
             fb == [sb EXCEPT ![q + 1] = xor(sb[q + 1], {c})]
  <1>1. /\ N \in Nat \ {0} /\ NWords(N) <= MaxWords /\ ring_bytes = ByteLen(N)
        /\ ring_bytes \in Nat \ {0} /\ Len(SeedEk) \in Nat /\ ByteBits \in Nat \ {0}
        /\ keygen \in Array(MaxWords) /\ Exponents(keygen) \subseteq 0..N-1
    BY WireDimensions, KeygenElement, PackingAssumption DEF RingElements
  <1>2. sb \in Bytes(ring_bytes) /\ unpack(sb, N) = keygen
    BY <1>1, PackedBits, UnpackInvertsPack
  <1>3. bytes = SeedEk \o sb
    BY DEF pack_public_key
  <1> HIDE DEF sb, bytes
  <1>4. /\ at \in Nat /\ N <= at /\ q \in Nat /\ c \in 0..ByteBits-1 /\ at = ByteBits * q + c
        /\ at < ByteBits * ring_bytes
    <2>1. at \in Nat /\ N <= at
      BY <1>1
    <2>2. ByteBits * ring_bytes \in Nat
      BY <1>1, Multiplication
    <2> QED BY <2>1, <2>2, ByteDivision
  <1> HIDE DEF q, c
  <1>5. q \in 0..ring_bytes-1
    <2>1. ring_bytes <= q => ByteBits * ring_bytes <= ByteBits * q
      BY <1>1, <1>4, Multiplication
    <2>2. ByteBits * ring_bytes \in Nat /\ ByteBits * q \in Nat
      BY <1>1, <1>4, Multiplication
    <2> QED BY <1>1, <1>4, <2>1, <2>2
  <1>6. pos \div ByteBits = Len(SeedEk) + q /\ pos % ByteBits = c /\ pos \in Nat
    <2>1. ByteBits * (Len(SeedEk) + q) = ByteBits * Len(SeedEk) + ByteBits * q
          /\ ByteBits * Len(SeedEk) \in Nat /\ ByteBits * q \in Nat
      BY <1>1, <1>4, Multiplication
    <2>2. pos = ByteBits * (Len(SeedEk) + q) + c
      BY <1>4, <2>1
    <2>3. Len(SeedEk) + q \in Nat
      BY <1>1, <1>4
    <2>4. pos \in Nat
      BY <1>4, <2>1
    <2> HIDE DEF pos
    <2> QED BY <1>1, <1>4, <2>2, <2>3, <2>4, QuotientIsUnique
  <1> HIDE DEF pos
  <1>7. fb \in Bytes(ring_bytes)
    <2>1. q + 1 \in 1..ring_bytes
      BY <1>1, <1>5
    <2>2. xor(sb[q + 1], {c}) \in Byte
      <3>1. sb[q + 1] \in Byte
        BY <1>2, <2>1 DEF Bytes
      <3> QED BY <1>4, <3>1 DEF xor, Byte
    <2> QED BY <1>2, <2>1, <2>2 DEF Bytes
  <1>8. flipped = SeedEk \o fb
    <2>1. /\ SeedEk \in Seq(Byte) /\ sb \in Seq(Byte) /\ Len(sb) = ring_bytes
          /\ fb \in Seq(Byte) /\ Len(fb) = ring_bytes
      BY <1>1, <1>2, <1>7, WireDimensions, BytesAreSequences
    <2>2. /\ bytes \in Seq(Byte) /\ Len(bytes) = Len(SeedEk) + ring_bytes
          /\ \A k \in 1..Len(SeedEk)+ring_bytes :
                bytes[k] = IF k <= Len(SeedEk) THEN SeedEk[k] ELSE sb[k - Len(SeedEk)]
      <3>1. /\ SeedEk \o sb \in Seq(Byte) /\ Len(SeedEk \o sb) = Len(SeedEk) + Len(sb)
            /\ \A k \in 1..Len(SeedEk)+Len(sb) :
                  (SeedEk \o sb)[k] = IF k <= Len(SeedEk) THEN SeedEk[k] ELSE sb[k - Len(SeedEk)]
        BY <2>1, ConcatProperties
      <3> QED BY <1>3, <2>1, <3>1
    <2> DEFINE whole == SeedEk \o fb
    <2>3. /\ whole \in Seq(Byte) /\ Len(whole) = Len(SeedEk) + ring_bytes
          /\ \A k \in 1..Len(SeedEk)+ring_bytes :
                whole[k] = IF k <= Len(SeedEk) THEN SeedEk[k] ELSE fb[k - Len(SeedEk)]
      <3> HIDE DEF fb
      <3>1. /\ SeedEk \o fb \in Seq(Byte) /\ Len(SeedEk \o fb) = Len(SeedEk) + Len(fb)
            /\ \A k \in 1..Len(SeedEk)+Len(fb) :
                  (SeedEk \o fb)[k] = IF k <= Len(SeedEk) THEN SeedEk[k] ELSE fb[k - Len(SeedEk)]
        BY <2>1, ConcatProperties
      <3> QED BY <2>1, <3>1
    <2> HIDE DEF whole
    <2>4. pos < ByteBits * Len(bytes)
      <3>1. ByteBits * (Len(SeedEk) + ring_bytes) = ByteBits * Len(SeedEk) + ByteBits * ring_bytes
            /\ ByteBits * Len(SeedEk) \in Nat /\ ByteBits * ring_bytes \in Nat
        BY <1>1, Multiplication
      <3> QED BY <1>4, <2>2, <3>1 DEF pos
    <2>5. /\ flipped \in Seq(Byte) /\ Len(flipped) = Len(bytes)
          /\ \A k \in 1..Len(bytes) : k # Len(SeedEk) + q + 1 => flipped[k] = bytes[k]
          /\ flipped[Len(SeedEk) + q + 1] = xor(bytes[Len(SeedEk) + q + 1], {c})
      BY <1>6, <2>2, <2>4, Flipped
    <2> HIDE DEF flipped
    <2>6. \A l \in 1..ring_bytes : fb[l] = IF l = q + 1 THEN xor(sb[q + 1], {c}) ELSE sb[l]
      <3>1. DOMAIN sb = 1..ring_bytes
        BY <1>2 DEF Bytes
      <3> QED BY <3>1
    <2> HIDE DEF fb
    <2>7. ASSUME NEW k \in 1..Len(SeedEk)+ring_bytes PROVE flipped[k] = whole[k]
      <3>1. CASE k <= Len(SeedEk)
        <4>1. k # Len(SeedEk) + q + 1
          BY <1>1, <1>4, <3>1
        <4> QED BY <2>2, <2>3, <2>5, <3>1, <4>1
      <3>2. CASE ~(k <= Len(SeedEk))
        <4>1. k - Len(SeedEk) \in 1..ring_bytes
              /\ (k = Len(SeedEk) + q + 1 <=> k - Len(SeedEk) = q + 1)
          BY <1>1, <1>4, <3>2
        <4>2. bytes[k] = sb[k - Len(SeedEk)] /\ whole[k] = fb[k - Len(SeedEk)]
          BY <2>2, <2>3, <3>2
        <4>3. CASE k = Len(SeedEk) + q + 1
          <5>1. k - Len(SeedEk) = q + 1
            BY <4>1, <4>3
          <5>2. flipped[k] = xor(sb[q + 1], {c})
            BY <2>5, <4>2, <4>3, <5>1
          <5> QED BY <2>6, <4>1, <4>2, <5>1, <5>2
        <4>4. CASE k # Len(SeedEk) + q + 1
          <5>1. flipped[k] = bytes[k]
            BY <2>2, <2>5, <4>4
          <5> QED BY <2>6, <4>1, <4>2, <4>4, <5>1
        <4> QED BY <4>3, <4>4
      <3> QED BY <3>1, <3>2
    <2>8. flipped = whole
      BY <2>2, <2>3, <2>5, <2>7, SeqEqual
    <2> QED BY <2>8 DEF whole
  <1>9. \A l \in 1..ring_bytes : fb[l] = IF l = q + 1 THEN xor(sb[q + 1], {c}) ELSE sb[l]
    <2>1. DOMAIN sb = 1..ring_bytes
      BY <1>2 DEF Bytes
    <2> QED BY <2>1
  <1> HIDE DEF flipped, fb
  <1>10. ASSUME NEW t \in Nat
         PROVE  t \in Exponents(unpack(fb, N)) <=> t \in Exponents(unpack(sb, N))
    <2>1. t \div ByteBits \in Nat /\ t % ByteBits \in 0..ByteBits-1
          /\ t = ByteBits * (t \div ByteBits) + (t % ByteBits)
      BY ByteDivision
    <2>2. /\ t \in Exponents(unpack(fb, N)) <=> t < N /\ t % ByteBits \in fb[(t \div ByteBits) + 1]
          /\ t \in Exponents(unpack(sb, N)) <=> t < N /\ t % ByteBits \in sb[(t \div ByteBits) + 1]
      BY <1>1, <1>2, <1>7, UnpackedBits
    <2>3. ASSUME t < N
          PROVE  t % ByteBits \in fb[(t \div ByteBits) + 1] <=> t % ByteBits \in sb[(t \div ByteBits) + 1]
      <3>1. t \div ByteBits \in 0..ring_bytes-1
        BY <1>1, <2>3, ByteOfPosition
      <3>2. (t \div ByteBits) + 1 \in 1..ring_bytes
        BY <1>1, <3>1
      <3>3. (t \div ByteBits) + 1 = q + 1 => t % ByteBits # c
        <4> SUFFICES ASSUME (t \div ByteBits) + 1 = q + 1, t % ByteBits = c PROVE FALSE
          OBVIOUS
        <4>1. t \div ByteBits = q
          BY <1>4, <2>1
        <4>2. t = at
          BY <1>4, <2>1, <4>1
        <4> QED BY <1>1, <1>4, <2>3, <4>2
      <3> QED BY <1>9, <3>2, <3>3 DEF xor
    <2> QED BY <2>2, <2>3
  <1>11. unpack(fb, N) = keygen
    <2>1. unpack(fb, N) \in Array(MaxWords) /\ unpack(sb, N) \in Array(MaxWords)
      BY <1>1, <1>2, <1>7, UnpackedBits
    <2> QED BY <1>2, <1>10, <2>1, SameExponents
  <1>12. /\ flipped \in Seq(Byte) /\ Len(flipped) = KeyLen
         /\ SubSeq(flipped, Len(SeedEk) + 1, Len(flipped)) = fb
    BY <1>7, <1>8, KeyParts DEF KeyLen
  <1>13. unpack_public_key(flipped) = keygen
    BY <1>11, <1>12 DEF unpack_public_key, KeyLen
  <1> QED BY <1>12, <1>13 DEF KeyArrives, flipped, bytes, pos

\* Bits inverted in u and v leave the salt alone.
LEMMA FlippedSalt ==
    ASSUME NEW bytes, SaltArrives(bytes), Len(bytes) = CiphertextLen,
           NEW at \in Nat, at < ByteBits * (ring_bytes + v_bytes)
    PROVE  SaltArrives(Flip(bytes, at))
  <1> DEFINE q == at \div ByteBits
  <1>1. /\ ring_bytes \in Nat /\ v_bytes \in Nat /\ Len(Salt) \in Nat /\ ByteBits \in Nat \ {0}
        /\ bytes \in Seq(Byte) /\ Len(bytes) = ring_bytes + v_bytes + Len(Salt)
    BY WireDimensions, PackingAssumption DEF SaltArrives, CiphertextLen
  <1>2. q \in Nat /\ at % ByteBits \in 0..ByteBits-1 /\ at = ByteBits * q + (at % ByteBits)
    BY <1>1, ByteDivision
  <1> HIDE DEF q
  <1>3. q < ring_bytes + v_bytes
    <2>1. ring_bytes + v_bytes <= q => ByteBits * (ring_bytes + v_bytes) <= ByteBits * q
      BY <1>1, <1>2, Multiplication
    <2>2. ByteBits * (ring_bytes + v_bytes) \in Nat /\ ByteBits * q \in Nat
      BY <1>1, <1>2, Multiplication
    <2> QED BY <1>1, <1>2, <2>1, <2>2
  <1>4. at < ByteBits * Len(bytes)
    <2>1. ByteBits * (ring_bytes + v_bytes) <= ByteBits * Len(bytes)
      <3>1. /\ ring_bytes + v_bytes \in Nat /\ Len(bytes) \in Nat /\ ByteBits \in Nat
            /\ ring_bytes + v_bytes <= Len(bytes)
        BY <1>1
      <3> QED BY <3>1, Multiplication
    <2>2. ByteBits * (ring_bytes + v_bytes) \in Nat /\ ByteBits * Len(bytes) \in Nat
      BY <1>1, Multiplication
    <2> QED BY <2>1, <2>2
  <1>5. /\ Flip(bytes, at) \in Seq(Byte) /\ Len(Flip(bytes, at)) = Len(bytes)
        /\ \A k \in 1..Len(bytes) : k # q + 1 => Flip(bytes, at)[k] = bytes[k]
    BY <1>1, <1>4, Flipped DEF q
  <1>6. ASSUME NEW k \in 1..Len(Salt)
        PROVE  Flip(bytes, at)[ring_bytes + v_bytes + k] = Salt[k]
    <2>1. ring_bytes + v_bytes + k \in 1..Len(bytes) /\ ring_bytes + v_bytes + k # q + 1
      BY <1>1, <1>2, <1>3
    <2>2. bytes[ring_bytes + v_bytes + k] = Salt[k]
      BY DEF SaltArrives
    <2> QED BY <1>5, <2>1, <2>2
  <1> QED BY <1>5, <1>6 DEF SaltArrives

-----------------------------------------------------------------------------
(* The inductive invariant. *)

Inv ==
    /\ Expanded
    /\ key # Pending => KeyArrives(key)
    /\ sent = Pending => wire = Pending
    /\ wire # Pending => sent = encrypt(keygen) /\ SaltArrives(wire)
    /\ Read => /\ wire # Pending
               /\ parsed = unpack_ciphertext(wire)
               /\ tmp = decrypt(parsed.u, parsed.v)
               /\ result = decode(tmp)

LEMMA InitInv == Init => Inv
  BY DEF Init, Inv, Expanded, Read

\* What encrypt returns, packed.
LEMMA SentCiphertext ==
    ASSUME Expanded
    PROVE  LET c == encrypt(keygen)
               bytes == pack_ciphertext(c.u, c.v)
           IN  /\ c # Pending /\ c = [u |-> c.u, v |-> c.v]
               /\ SaltArrives(bytes) /\ Len(bytes) = CiphertextLen
  <1> DEFINE c == encrypt(keygen)
             bytes == pack_ciphertext(c.u, c.v)
  <1>1. c \in [u : Array(MaxWords), v : Array(MaxWords)] /\ c.u \in RingElements /\ c.v \in RingElements
    BY KeygenElement, EncryptElements
  <1> HIDE DEF c
  <1>2. c # Pending /\ c = [u |-> c.u, v |-> c.v]
    BY <1>1, PkeAssumption
  <1>3. /\ pack(c.u, N) \in Bytes(ring_bytes) /\ pack(c.v, CodeBits) \in Bytes(v_bytes)
        /\ bytes = pack(c.u, N) \o pack(c.v, CodeBits) \o Salt
    BY <1>1, PackedCiphertext
  <1> HIDE DEF bytes
  <1>4. SaltArrives(bytes) /\ Len(bytes) = CiphertextLen
    BY <1>3, CiphertextParts DEF SaltArrives, CiphertextLen
  <1> QED BY <1>2, <1>4 DEF c, bytes

LEMMA NextInv ==
    ASSUME Inv, [Next]_vars
    PROVE  Inv'
  <1> USE DEF Inv
  <1>1. /\ UNCHANGED <<xof_dk, xof_ek, xof_th, msg>>
        /\ Expanded' /\ keygen' = keygen /\ encrypt(keygen)' = encrypt(keygen)
    <2>1. UNCHANGED <<xof_dk, xof_ek, xof_th, msg>>
      BY DEF Next, vars, Keygen, DamageKey, Encrypt, DamageCiphertext, Decrypt
    <2>2. Expanded'
      BY <2>1 DEF Expanded
    <2>3. keygen' = keygen
      BY <2>1 DEF keygen, h
    <2>4. encrypt(keygen)' = encrypt(keygen)
      BY <2>1, <2>3 DEF encrypt, h
    <2> QED BY <2>1, <2>2, <2>3, <2>4
  <1>2. CASE Keygen
    <2>1. KeyArrives(key')
      BY <1>2, SentKeyArrives DEF Keygen
    <2>2. KeyArrives(key)'
      BY <1>1, <2>1 DEF KeyArrives
    <2>3. UNCHANGED <<sent, wire, parsed, tmp, result>>
      BY <1>2 DEF Keygen
    <2>4. SaltArrives(wire)' <=> SaltArrives(wire)
      BY <2>3 DEF SaltArrives
    <2> QED BY <1>1, <2>2, <2>3, <2>4 DEF Read, decrypt
  <1>3. CASE DamageKey
    <2>1. KeyArrives(key')
      <3>1. CASE key' = SubSeq(key, 1, Len(key) - 1)
        <4>1. /\ key \in Seq(Byte) /\ Len(key) = KeyLen /\ KeyLen \in Nat \ {0}
          BY <1>3, SentKeyArrives, WireDimensions DEF DamageKey, KeyArrives, KeyLen
        <4>2. key' \in Seq(Byte) /\ Len(key') # KeyLen
          BY <3>1, <4>1, Shortened
        <4> QED BY <4>2 DEF KeyArrives
      <3>2. CASE \E at \in N..ByteBits*ring_bytes-1 : key' = Flip(key, ByteBits * Len(SeedEk) + at)
        BY <1>3, <3>2, DamagedKeyArrives DEF DamageKey
      <3> QED BY <1>3, <3>1, <3>2 DEF DamageKey
    <2>2. KeyArrives(key)'
      BY <1>1, <2>1 DEF KeyArrives
    <2>3. UNCHANGED <<sent, wire, parsed, tmp, result>>
      BY <1>3 DEF DamageKey
    <2>4. SaltArrives(wire)' <=> SaltArrives(wire)
      BY <2>3 DEF SaltArrives
    <2> QED BY <1>1, <2>2, <2>3, <2>4 DEF Read, decrypt
  <1>4. CASE Encrypt
    <2>1. /\ key # Pending /\ wire = Pending /\ ~Read /\ KeyArrives(key)
          /\ UNCHANGED <<key, parsed, tmp, result>>
      BY <1>4 DEF Encrypt
    <2>2. KeyArrives(key)' /\ ~Read'
      BY <1>1, <2>1 DEF KeyArrives, Read
    <2>3. CASE unpack_public_key(key) = None
      <3>1. wire' = Pending
        BY <1>4, <2>1, <2>3 DEF Encrypt
      <3> QED BY <1>1, <2>2, <3>1
    <2>4. CASE unpack_public_key(key) # None
      <3>1. unpack_public_key(key) = keygen
        BY <2>1, <2>4 DEF KeyArrives, unpack_public_key, KeyLen
      <3>2. sent' = encrypt(keygen) /\ wire' = pack_ciphertext(sent'.u, sent'.v)
        BY <1>4, <2>4, <3>1 DEF Encrypt
      <3>3. sent' # Pending /\ SaltArrives(wire')
        BY <3>2, SentCiphertext
      <3>4. SaltArrives(wire)'
        BY <3>3 DEF SaltArrives
      <3> QED BY <1>1, <2>2, <3>2, <3>3, <3>4
    <2> QED BY <2>3, <2>4
  <1>5. CASE DamageCiphertext
    <2>1. /\ wire # Pending /\ ~Read /\ sent = encrypt(keygen)
          /\ wire = pack_ciphertext(sent.u, sent.v)
          /\ UNCHANGED <<key, sent, parsed, tmp, result>>
      BY <1>5 DEF DamageCiphertext, Read
    <2>2. wire \in Seq(Byte) /\ Len(wire) = CiphertextLen /\ SaltArrives(wire)
      BY <2>1, SentCiphertext DEF SaltArrives
    <2>3. /\ ring_bytes \in Nat \ {0} /\ v_bytes \in Nat \ {0} /\ Len(Salt) \in Nat
          /\ ByteBits \in Nat \ {0} /\ ring_bytes = ByteLen(N) /\ CodeBits = ByteBits * v_bytes
          /\ CiphertextLen = ring_bytes + v_bytes + Len(Salt)
      BY WireDimensions, WholeBytes, CodewordOnTheWire DEF CiphertextLen
    <2>4. /\ ByteBits * (ring_bytes + v_bytes) = ByteBits * ring_bytes + ByteBits * v_bytes
          /\ ByteBits * ring_bytes \in Nat /\ ByteBits * v_bytes \in Nat
      BY <2>3, Multiplication
    <2>5. SaltArrives(wire')
      <3>1. CASE wire' = SubSeq(wire, 1, Len(wire) - 1)
        <4>1. wire' \in Seq(Byte) /\ Len(wire') # CiphertextLen
          BY <2>2, <2>3, <3>1, Shortened
        <4> QED BY <4>1 DEF SaltArrives
      <3>2. CASE \E at \in UFlips : wire' = Flip(wire, at)
        <4>1. PICK at \in UFlips : wire' = Flip(wire, at)
          BY <3>2
        <4>2. at \in 0..ByteBits*ring_bytes-1
          BY <2>3, PkeAssumption
        <4>3. at \in Nat /\ at < ByteBits * (ring_bytes + v_bytes)
          BY <2>4, <4>2
        <4> QED BY <2>2, <4>1, <4>3, FlippedSalt
      <3>3. CASE \E at \in VFlips : wire' = Flip(wire, ByteBits * ring_bytes + at)
        <4>1. PICK at \in VFlips : wire' = Flip(wire, ByteBits * ring_bytes + at)
          BY <3>3
        <4>2. at \in 0..ByteBits*v_bytes-1
          BY <2>3, PkeAssumption DEF CodeBits
        <4>3. /\ ByteBits * ring_bytes + at \in Nat
              /\ ByteBits * ring_bytes + at < ByteBits * (ring_bytes + v_bytes)
          BY <2>4, <4>2
        <4> QED BY <2>2, <4>1, <4>3, FlippedSalt
      <3> QED BY <1>5, <3>1, <3>2, <3>3 DEF DamageCiphertext
    <2>6. SaltArrives(wire)' /\ ~Read'
      BY <2>1, <2>5 DEF SaltArrives, Read
    <2>7. KeyArrives(key)' <=> KeyArrives(key)
      BY <1>1, <2>1 DEF KeyArrives
    <2> QED BY <1>1, <2>1, <2>6, <2>7
  <1>6. CASE Decrypt
    <2>1. /\ wire # Pending /\ UNCHANGED <<key, sent, wire>>
          /\ parsed' = unpack_ciphertext(wire)
          /\ parsed' = None => result' = None
          /\ parsed' # None => tmp' = decrypt(parsed'.u, parsed'.v) /\ result' = decode(tmp')
      BY <1>6 DEF Decrypt
    <2>2. \A u, v : decrypt(u, v)' = decrypt(u, v)
      BY <1>1 DEF decrypt
    <2>3. Read' => /\ parsed' = unpack_ciphertext(wire')
                   /\ tmp' = decrypt(parsed.u, parsed.v)'
                   /\ result' = decode(tmp')
      BY <1>1, <2>1 DEF Read, decrypt
    <2>4. (KeyArrives(key)' <=> KeyArrives(key)) /\ (SaltArrives(wire)' <=> SaltArrives(wire))
      BY <1>1, <2>1 DEF KeyArrives, SaltArrives
    <2> QED BY <1>1, <2>1, <2>3, <2>4
  <1>7. CASE UNCHANGED vars
    <2>1. UNCHANGED <<key, sent, wire, parsed, tmp, result>>
      BY <1>7 DEF vars
    <2>2. (KeyArrives(key)' <=> KeyArrives(key)) /\ (SaltArrives(wire)' <=> SaltArrives(wire))
      BY <1>1, <2>1 DEF KeyArrives, SaltArrives
    <2> QED BY <1>1, <2>1, <2>2 DEF Read, decrypt
  <1> QED BY <1>2, <1>3, <1>4, <1>5, <1>6, <1>7 DEF Next

THEOREM InvHolds == Spec => []Inv
  <1>1. Inv /\ [Next]_vars => Inv'
    BY NextInv
  <1> QED BY InitInv, <1>1, PTL DEF Spec

-----------------------------------------------------------------------------
(* What the owner reads. *)

\* What the owner has in hand when decryption has answered.
LEMMA ReadState ==
    ASSUME Inv, Read
    PROVE  /\ wire \in Seq(Byte) /\ Len(wire) = CiphertextLen /\ SaltArrives(wire)
           /\ sent = encrypt(keygen)
           /\ parsed = unpack_ciphertext(wire)
           /\ parsed.u \in RingElements /\ parsed.v \in RingElements
           /\ Exponents(parsed.v) \subseteq 0..CodeBits-1
           /\ tmp = decrypt(parsed.u, parsed.v) /\ result = decode(tmp)
  <1>1. /\ wire # Pending /\ SaltArrives(wire) /\ wire \in Seq(Byte) /\ sent = encrypt(keygen)
        /\ parsed = unpack_ciphertext(wire) /\ parsed # None
        /\ tmp = decrypt(parsed.u, parsed.v) /\ result = decode(tmp)
    BY DEF Inv, Read, SaltArrives
  <1>2. Len(wire) = CiphertextLen
    BY <1>1 DEF unpack_ciphertext, CiphertextLen
  <1> DEFINE ub == SubSeq(wire, 1, ring_bytes)
             vb == SubSeq(wire, ring_bytes + 1, ring_bytes + v_bytes)
  <1>3. /\ parsed = [u |-> unpack(ub, N), v |-> unpack(vb, CodeBits)]
        /\ unpack(ub, N) \in RingElements
        /\ unpack(vb, CodeBits) \in RingElements
        /\ Exponents(unpack(vb, CodeBits)) \subseteq 0..CodeBits-1
    BY <1>1, <1>2, ParsedCiphertext
  <1> HIDE DEF ub, vb
  <1>4. parsed.u = unpack(ub, N) /\ parsed.v = unpack(vb, CodeBits)
    BY <1>3
  <1> QED BY <1>1, <1>2, <1>3, <1>4

\* No operand of a multiplication has a bit at or above N.
THEOREM CanonicalOperands == Spec => []OperandsAreCanonical
  <1>1. Inv => OperandsAreCanonical
    <2> SUFFICES ASSUME Inv PROVE OperandsAreCanonical
      OBVIOUS
    <2>1. Canonical(h)
      BY PublicElement DEF Inv, Canonical, RingElements
    <2>2. ASSUME key # Pending, unpack_public_key(key) # None
          PROVE  Canonical(unpack_public_key(key))
      <3>1. unpack_public_key(key) = keygen
        BY <2>2 DEF Inv, KeyArrives, unpack_public_key, KeyLen
      <3> QED BY <3>1, KeygenElement DEF Inv, Canonical, RingElements
    <2>3. Read => Canonical(parsed.u)
      BY ReadState DEF Canonical, RingElements
    <2> QED BY <2>1, <2>2, <2>3 DEF OperandsAreCanonical
  <1> QED BY <1>1, InvHolds, PTL

\* An unaltered ciphertext parses into what encrypt returned.
THEOREM ParsedIsSent == Spec => []SentIsParsed
  <1>1. Inv => SentIsParsed
    <2> SUFFICES ASSUME Inv, Read, wire = pack_ciphertext(sent.u, sent.v)
                 PROVE  parsed = sent
      BY DEF SentIsParsed
    <2> DEFINE ub == SubSeq(wire, 1, ring_bytes)
               vb == SubSeq(wire, ring_bytes + 1, ring_bytes + v_bytes)
               pu == pack(sent.u, N)
               pv == pack(sent.v, CodeBits)
    <2>1. /\ wire \in Seq(Byte) /\ Len(wire) = CiphertextLen /\ sent = encrypt(keygen)
          /\ parsed = unpack_ciphertext(wire)
      BY ReadState
    <2>2. /\ ub \in Bytes(ring_bytes) /\ vb \in Bytes(v_bytes)
          /\ \A k \in 1..ring_bytes : ub[k] = wire[k]
          /\ \A k \in 1..v_bytes : vb[k] = wire[ring_bytes + k]
          /\ parsed = [u |-> unpack(ub, N), v |-> unpack(vb, CodeBits)]
      BY <2>1, ParsedCiphertext
    <2>3. /\ sent \in [u : Array(MaxWords), v : Array(MaxWords)]
          /\ sent.u \in RingElements /\ sent.v \in RingElements
          /\ Exponents(sent.v) \subseteq 0..CodeBits-1
      <3>1. Expanded
        BY DEF Inv
      <3> QED BY <2>1, <3>1, KeygenElement, EncryptElements
    <2>4. /\ pu \in Bytes(ring_bytes) /\ pv \in Bytes(v_bytes) /\ wire = pu \o pv \o Salt
      BY <2>3, PackedCiphertext
    <2> HIDE DEF ub, vb, pu, pv
    <2>5. /\ \A k \in 1..ring_bytes : wire[k] = pu[k]
          /\ \A k \in 1..v_bytes : wire[ring_bytes + k] = pv[k]
      <3>1. pu \in Bytes(ring_bytes) /\ pv \in Bytes(v_bytes)
        BY <2>4
      <3>2. /\ \A k \in 1..ring_bytes : (pu \o pv \o Salt)[k] = pu[k]
            /\ \A k \in 1..v_bytes : (pu \o pv \o Salt)[ring_bytes + k] = pv[k]
        BY <3>1, CiphertextParts, Zenon
      <3>3. wire = pu \o pv \o Salt
        BY <2>4
      <3> QED BY <3>2, <3>3, Zenon
    <2>6. ub = pu /\ vb = pv
      <3>1. \A k \in 1..ring_bytes : ub[k] = pu[k]
        BY <2>2, <2>5
      <3>2. \A k \in 1..v_bytes : vb[k] = pv[k]
        BY <2>2, <2>5
      <3>3. ring_bytes \in Nat /\ v_bytes \in Nat
        BY WireDimensions
      <3> QED BY <2>2, <2>4, <3>1, <3>2, <3>3, SameBytes
    <2>7. unpack(pu, N) = sent.u
      BY <2>3, WireDimensions, UnpackInvertsPack DEF pu, RingElements
    <2>8. unpack(pv, CodeBits) = sent.v
      BY <2>3, CodewordOnTheWire, UnpackInvertsPack DEF pv, RingElements
    <2>9. sent = [u |-> sent.u, v |-> sent.v]
      BY <2>3
    <2> QED BY <2>2, <2>6, <2>7, <2>8, <2>9
  <1> QED BY <1>1, InvHolds, PTL

\* Parsing and packing again gives the bytes received exactly when u has no bit
\* above N.
THEOREM ReserializedExactly == Spec => []ReserializesExactly
  <1>1. Inv => ReserializesExactly
    <2> DEFINE ub == SubSeq(wire, 1, ring_bytes)
               vb == SubSeq(wire, ring_bytes + 1, ring_bytes + v_bytes)
               pu == pack(parsed.u, N)
               pv == pack(parsed.v, CodeBits)
    <2> SUFFICES ASSUME Inv, Read
                 PROVE  pack_ciphertext(parsed.u, parsed.v) = wire <=> \A at \in BitsOf(ub) : at < N
      BY DEF ReserializesExactly
    <2>1. /\ wire \in Seq(Byte) /\ Len(wire) = CiphertextLen /\ SaltArrives(wire)
          /\ parsed = unpack_ciphertext(wire)
          /\ parsed.u \in RingElements /\ parsed.v \in RingElements
      BY ReadState
    <2>2. /\ ub \in Bytes(ring_bytes) /\ vb \in Bytes(v_bytes)
          /\ \A k \in 1..ring_bytes : ub[k] = wire[k]
          /\ \A k \in 1..v_bytes : vb[k] = wire[ring_bytes + k]
          /\ parsed = [u |-> unpack(ub, N), v |-> unpack(vb, CodeBits)]
      BY <2>1, ParsedCiphertext
    <2> HIDE DEF ub, vb
    <2>3. pu = pack(unpack(ub, N), N) /\ pv = pack(unpack(vb, CodeBits), CodeBits)
      BY <2>2
    <2>4. pu \in Bytes(ring_bytes) /\ pv \in Bytes(v_bytes)
          /\ pack_ciphertext(parsed.u, parsed.v) = pu \o pv \o Salt
      BY <2>1, PackedCiphertext
    <2> HIDE DEF pu, pv
    <2>5. /\ N \in Nat \ {0} /\ NWords(N) <= MaxWords /\ ring_bytes = ByteLen(N)
          /\ CodeBits \in Nat \ {0} /\ NWords(CodeBits) <= MaxWords /\ v_bytes = ByteLen(CodeBits)
          /\ CodeBits = ByteBits * v_bytes /\ ring_bytes \in Nat /\ v_bytes \in Nat
          /\ ByteBits \in Nat /\ Len(Salt) \in Nat
      BY WireDimensions, WholeBytes, CodewordOnTheWire
    <2>6. /\ \A k \in 0..ring_bytes-1, c \in 0..ByteBits-1 :
                c \in pu[k + 1] <=> ByteBits * k + c < N /\ c \in ub[k + 1]
          /\ \A k \in 0..v_bytes-1, c \in 0..ByteBits-1 :
                c \in pv[k + 1] <=> ByteBits * k + c < CodeBits /\ c \in vb[k + 1]
      BY <2>2, <2>3, <2>5, ReserializedBytes
    <2>7. \A k \in 0..v_bytes-1, c \in 0..ByteBits-1 : ByteBits * k + c < CodeBits
      <3> SUFFICES ASSUME NEW k \in 0..v_bytes-1, NEW c \in 0..ByteBits-1
                   PROVE  ByteBits * k + c < CodeBits
        OBVIOUS
      <3>1. k * ByteBits + c \in 0..v_bytes*ByteBits-1
        BY <2>5, RowEntry
      <3>2. k * ByteBits = ByteBits * k /\ v_bytes * ByteBits = CodeBits
        BY <2>5, Multiplication
      <3> QED BY <2>5, <3>1, <3>2
    <2>8. \A n \in Nat : \A a \in Bytes(n), b \in Bytes(n) :
             (\A k \in 0..n-1, c \in 0..ByteBits-1 : c \in a[k + 1] <=> c \in b[k + 1]) => a = b
      <3> SUFFICES ASSUME NEW n \in Nat, NEW a \in Bytes(n), NEW b \in Bytes(n),
                          \A k \in 0..n-1, c \in 0..ByteBits-1 : c \in a[k + 1] <=> c \in b[k + 1]
                   PROVE  a = b
        OBVIOUS
      <3>1. ASSUME NEW l \in 1..n PROVE a[l] = b[l]
        <4>1. l - 1 \in 0..n-1 /\ (l - 1) + 1 = l
          OBVIOUS
        <4>2. \A c \in 0..ByteBits-1 : c \in a[l] <=> c \in b[l]
          BY <4>1
        <4>3. a[l] \subseteq 0..ByteBits-1 /\ b[l] \subseteq 0..ByteBits-1
          BY DEF Bytes, Byte
        <4> QED BY <4>2, <4>3
      <3> QED BY <3>1, SameBytes
    <2>9. pv = vb
      BY <2>2, <2>4, <2>5, <2>6, <2>7, <2>8
    <2>10. pu \o pv \o Salt = wire <=> pu = ub
      <3>1. /\ pu \o pv \o Salt \in Seq(Byte) /\ Len(pu \o pv \o Salt) = CiphertextLen
            /\ \A k \in 1..ring_bytes : (pu \o pv \o Salt)[k] = pu[k]
            /\ \A k \in 1..v_bytes : (pu \o pv \o Salt)[ring_bytes + k] = pv[k]
            /\ \A k \in 1..Len(Salt) : (pu \o pv \o Salt)[ring_bytes + v_bytes + k] = Salt[k]
        BY <2>4, CiphertextParts DEF CiphertextLen
      <3> DEFINE again == pu \o pv \o Salt
      <3> HIDE DEF again
      <3>2. ASSUME again = wire PROVE pu = ub
        <4>1. \A k \in 1..ring_bytes : pu[k] = ub[k]
          BY <2>2, <3>1, <3>2 DEF again
        <4> QED BY <2>2, <2>4, <2>5, <4>1, SameBytes
      <3>3. ASSUME pu = ub PROVE again = wire
        <4>1. ASSUME NEW i \in 1..CiphertextLen PROVE again[i] = wire[i]
          <5>1. i \in Int /\ 1 <= i /\ i <= ring_bytes + v_bytes + Len(Salt)
            BY <2>5 DEF CiphertextLen
          <5>2. CASE i <= ring_bytes
            <6>1. i \in 1..ring_bytes
              BY <2>5, <5>1, <5>2
            <6> QED BY <2>2, <3>1, <3>3, <6>1 DEF again
          <5>3. CASE ring_bytes < i /\ i <= ring_bytes + v_bytes
            <6> DEFINE k == i - ring_bytes
            <6>1. k \in 1..v_bytes /\ ring_bytes + k = i
              BY <2>5, <5>1, <5>3
            <6> HIDE DEF k
            <6> QED BY <2>2, <2>9, <3>1, <6>1 DEF again
          <5>4. CASE ring_bytes + v_bytes < i
            <6> DEFINE k == i - (ring_bytes + v_bytes)
            <6>1. k \in 1..Len(Salt) /\ ring_bytes + v_bytes + k = i
              <7>1. \A x, y, z \in Nat, l \in Int :
                       l <= x + y + z /\ x + y < l =>
                          l - (x + y) \in 1..z /\ x + y + (l - (x + y)) = l
                OBVIOUS
              <7>2. ring_bytes \in Nat /\ v_bytes \in Nat /\ Len(Salt) \in Nat
                BY <2>5
              <7> QED BY <5>1, <5>4, <7>1, <7>2
            <6> HIDE DEF k
            <6> QED BY <2>1, <3>1, <6>1 DEF again, SaltArrives
          <5> QED BY <2>5, <5>1, <5>2, <5>3, <5>4
        <4>2. again \in Seq(Byte) /\ Len(again) = Len(wire)
          BY <2>1, <3>1 DEF again
        <4> QED BY <2>1, <4>1, <4>2, SeqEqual
      <3> QED BY <3>2, <3>3 DEF again
    <2>11. pu = ub <=> \A at \in BitsOf(ub) : at < N
      <3>1. /\ BitsOf(ub) \subseteq 0..ByteBits*ring_bytes-1
            /\ \A k \in Nat, c \in 0..ByteBits-1 :
                  ByteBits * k + c \in BitsOf(ub) <=> k < ring_bytes /\ c \in ub[k + 1]
        BY <2>2, <2>5, InBitsOf
      <3>2. ASSUME pu = ub, NEW at \in BitsOf(ub) PROVE at < N
        <4> DEFINE k == at \div ByteBits
                   c == at % ByteBits
        <4>1. at \in Nat
          BY <2>5, <3>1
        <4>2. k \in Nat /\ c \in 0..ByteBits-1 /\ at = ByteBits * k + c
          BY <4>1, ByteDivision
        <4> HIDE DEF k, c
        <4>3. k < ring_bytes /\ c \in ub[k + 1]
          BY <3>1, <4>2
        <4>4. k \in 0..ring_bytes-1
          BY <2>5, <4>2, <4>3
        <4> QED BY <2>6, <3>2, <4>2, <4>3, <4>4
      <3>3. ASSUME \A at \in BitsOf(ub) : at < N PROVE pu = ub
        <4>1. ASSUME NEW k \in 0..ring_bytes-1, NEW c \in 0..ByteBits-1
              PROVE  c \in pu[k + 1] <=> c \in ub[k + 1]
          <5>1. k \in Nat /\ k < ring_bytes
            BY <2>5
          <5>2. c \in ub[k + 1] => ByteBits * k + c < N
            BY <3>1, <3>3, <5>1
          <5> QED BY <2>6, <5>2
        <4> QED BY <2>2, <2>4, <2>5, <2>8, <4>1
      <3> QED BY <3>2, <3>3
    <2> QED BY <2>4, <2>10, <2>11
  <1> QED BY <1>1, InvHolds, PTL

\* h, s and the dense products cancel.
LEMMA Cancellation ==
    ASSUME NEW bits, NEW m, m \subseteq bits, NEW v,
           NEW x_r2, NEW r2_y_h, NEW e, NEW r1_y, NEW du_y,
           NEW sv, sv = xor(xor(m, xor(x_r2, r2_y_h)), e) \cap bits
    PROVE  xor(v, xor(xor(r1_y, r2_y_h), du_y)) \cap bits
             = xor(m, xor(xor(xor(x_r2, r1_y), e), xor(du_y, xor(sv, v))) \cap bits)
  BY DEF xor

\* What the decoder is handed.
LEMMA ReadWord ==
    ASSUME Inv, Read
    PROVE  /\ tmp \in Array(MaxWords)
           /\ Exponents(tmp) \cap 0..CodeBits-1 = xor(Exponents(encode(msg)), Noise)
  <1> DEFINE product(a, b) == CyclicProduct(a, b, N)
             y  == xof_dk[1]
             x  == xof_dk[2]
             r2 == xof_th[1]
             e  == xof_th[2]
             r1 == xof_th[3]
             H  == Exponents(h)
             S  == Exponents(keygen)
             SU == Exponents(sent.u)
             SV == Exponents(sent.v)
             U  == Exponents(parsed.u)
             V  == Exponents(parsed.v)
             M  == Exponents(encode(msg))
             du == xor(SU, U)
             Z  == product(r2, product(y, H))
             bits == 0..CodeBits-1
  <1>1. /\ Expanded /\ sent = encrypt(keygen) /\ tmp = decrypt(parsed.u, parsed.v)
        /\ parsed.u \in RingElements /\ parsed.v \in RingElements
        /\ N \in Nat \ {0}
    BY ReadState, WireDimensions DEF Inv
  <1>2. y \in Ring(N) /\ x \in Ring(N) /\ r2 \in Ring(N) /\ e \in Ring(N) /\ r1 \in Ring(N)
    <2>1. 1 \in 1..2 /\ 2 \in 1..2 /\ 1 \in 1..3 /\ 2 \in 1..3 /\ 3 \in 1..3
      OBVIOUS
    <2> QED BY <1>1, <2>1, SampledPolynomials
  <1>3. H \in Ring(N) /\ U \in Ring(N) /\ V \in Ring(N)
    BY <1>1, PublicElement DEF RingElements, Ring
  <1>4. S = xor(x, product(y, H)) /\ keygen \in RingElements
    BY <1>1, KeygenElement
  <1>5. /\ SU = xor(r1, product(r2, H))
        /\ SV = xor(xor(M, product(r2, S)), e) \cap bits
    BY <1>1, <1>4, EncryptElements
  <1>6. M \subseteq bits
    BY <1>1, CodewordElement DEF Expanded
  <1>7. tmp \in RingElements /\ Exponents(tmp) = xor(V, product(U, y))
    <2> DEFINE py == sample_fixed_weight(xof_dk, 1)
               p == mul(parsed.u, py)
    <2>1. py \in RingElements /\ Exponents(py) = y
      <3>1. 1 \in 1..2
        OBVIOUS
      <3> QED BY <1>1, <3>1, SampledPolynomials
    <2>2. tmp = add(parsed.v, p, N)
      BY <1>1 DEF decrypt
    <2>3. p \in RingElements /\ Exponents(p) = product(U, y)
      BY <2>1, ProductElement
    <2> QED BY <1>1, <2>2, <2>3, SumElement
  <1> HIDE DEF H, S, SU, SV, U, V, M, y, x, r2, e, r1
  <1>8. \A a \in Ring(N), b \in Ring(N), c \in Ring(N) :
           /\ product(a, b) \in Ring(N) /\ product(a, b) = product(b, a) /\ xor(a, b) \in Ring(N)
           /\ product(xor(a, b), c) = xor(product(a, c), product(b, c))
           /\ product(c, xor(a, b)) = xor(product(c, a), product(c, b))
           /\ product(product(a, b), c) = product(a, product(b, c))
    BY <1>1, ProductInRing, XorInRing, ProductDistributes, ProductCommutes, ProductAssociates
  <1> HIDE DEF product
  <1>9. SU \in Ring(N) /\ du \in Ring(N) /\ U = xor(SU, du)
    <2>1. SU \in Ring(N)
      BY <1>2, <1>3, <1>5, <1>8
    <2>2. U = xor(SU, du)
      BY DEF xor
    <2> QED BY <1>3, <1>8, <2>1, <2>2
  <1>10. product(U, y) = xor(xor(product(r1, y), Z), product(du, y))
    <2> HIDE DEF du
    <2>1. product(U, y) = xor(product(SU, y), product(du, y))
      <3>1. product(xor(SU, du), y) = xor(product(SU, y), product(du, y))
        BY <1>2, <1>8, <1>9
      <3> QED BY <1>9, <3>1
    <2>2. product(SU, y) = xor(product(r1, y), product(product(r2, H), y))
      <3> DEFINE r2h == product(r2, H)
      <3>1. r2h \in Ring(N)
        BY <1>2, <1>3, <1>8
      <3> HIDE DEF r2h
      <3>2. product(xor(r1, r2h), y) = xor(product(r1, y), product(r2h, y))
        BY <1>2, <1>8, <3>1
      <3> QED BY <1>5, <3>2 DEF r2h
    <2>3. product(product(r2, H), y) = Z
      BY <1>2, <1>3, <1>8
    <2> QED BY <2>1, <2>2, <2>3
  <1>11. product(r2, S) = xor(product(x, r2), Z)
    <2>1. product(r2, S) = xor(product(r2, x), Z)
      BY <1>2, <1>3, <1>4, <1>8
    <2>2. product(r2, x) = product(x, r2)
      BY <1>2, <1>8
    <2> QED BY <2>1, <2>2
  <1> DEFINE all == xor(xor(xor(product(x, r2), product(r1, y)), e), xor(product(du, y), xor(SV, V)))
  <1>12. Noise = all \cap bits
    BY DEF Noise, CodeBits, product, y, x, r2, e, r1, SU, SV, U, V
  <1>13. xor(V, product(U, y)) \cap bits = xor(M, all \cap bits)
    <2>1. SV = xor(xor(M, xor(product(x, r2), Z)), e) \cap bits
      BY <1>5, <1>11
    <2> HIDE DEF bits, Z, du
    <2> QED BY <1>6, <1>10, <2>1, Cancellation
  <1>14. Exponents(tmp) \cap bits = xor(M, Noise)
    BY <1>7, <1>12, <1>13
  <1> QED BY <1>7, <1>14 DEF M, RingElements

\* The identity decryption rests on.
THEOREM DecryptionIdentity == Spec => []NoiseIdentity
  <1>1. Inv => NoiseIdentity
    BY ReadWord DEF NoiseIdentity, CodeBits
  <1> QED BY <1>1, InvHolds, PTL

\* The bits of block j, counted from the start of the block or of the codeword.
LEMMA NoiseOfBlock ==
    ASSUME NEW j \in 0..OuterLen-1
    PROVE  Cardinality(BlockOf(Noise, j)) = Cardinality(BlockNoise(j))
  <1> DEFINE f == [b \in BlockOf(Noise, j) |-> j * N2 + b]
  <1>1. Noise \subseteq 0..CodeBits-1
    BY DEF Noise, CodeBits
  <1>2. BlockOf(Noise, j) \subseteq 0..N2-1 /\ IsFiniteSet(BlockOf(Noise, j))
    <2>1. N2 \in Nat
      BY WholeBytes, Multiplication
    <2>2. IsFiniteSet(0..N2-1) /\ BlockOf(Noise, j) \subseteq 0..N2-1
      BY <2>1, FS_Interval DEF BlockOf
    <2> QED BY <2>2, FS_Subset
  <1>3. j \in Nat
    OBVIOUS
  <1>4. \A b \in BlockOf(Noise, j) : f[b] \in BlockNoise(j)
    BY <1>2, <1>3, BlockPosition DEF BlockOf, BlockNoise
  <1>5. \A a, b \in BlockOf(Noise, j) : f[a] = f[b] => a = b
    <2> SUFFICES ASSUME NEW a \in BlockOf(Noise, j), NEW b \in BlockOf(Noise, j),
                        j * N2 + a = j * N2 + b
                 PROVE  a = b
      OBVIOUS
    <2>1. (j * N2 + a) % N2 = a /\ (j * N2 + b) % N2 = b
      BY <1>2, <1>3, BlockPosition
    <2> QED BY <2>1
  <1>6. \A t \in BlockNoise(j) : \E b \in BlockOf(Noise, j) : f[b] = t
    <2> SUFFICES ASSUME NEW t \in BlockNoise(j) PROVE \E b \in BlockOf(Noise, j) : f[b] = t
      OBVIOUS
    <2>1. t \in Noise /\ t \div N2 = j /\ t \in 0..CodeBits-1
      BY <1>1 DEF BlockNoise
    <2>2. PICK i \in 0..OuterLen-1, b \in 0..N2-1 : t = i * N2 + b
      BY <2>1, EveryPositionHasABlock
    <2>3. i = j
      BY <2>1, <2>2, BlockPosition
    <2>4. b \in BlockOf(Noise, j)
      BY <2>1, <2>2, <2>3 DEF BlockOf
    <2> QED BY <2>2, <2>3, <2>4
  <1> HIDE DEF f
  <1>7. f \in Bijection(BlockOf(Noise, j), BlockNoise(j))
    <2>1. f \in [BlockOf(Noise, j) -> BlockNoise(j)]
      BY <1>4 DEF f
    <2> QED BY <1>5, <1>6, <2>1 DEF Bijection, Injection, IsInjective, Surjection
  <1>8. ExistsBijection(BlockOf(Noise, j), BlockNoise(j))
    BY <1>7 DEF ExistsBijection
  <1> QED BY <1>2, <1>8, FS_Bijection

\* A block less than a quarter of whose bits are noise yields its symbol.
LEMMA QuietBlock ==
    ASSUME Inv, Read, NEW j \in 0..OuterLen-1, 4 * Cardinality(BlockNoise(j)) < N2
    PROVE  inner_decode(BlockOf(Exponents(tmp), j)) = outer_encode(msg)[j]
  <1> DEFINE T == Exponents(tmp)
             c == outer_encode(msg)[j]
             bits == 0..CodeBits-1
  <1>1. msg \in Plaintexts
    BY DEF Inv, Expanded
  <1>2. c \in Symbols
    BY <1>1, CodesPromise
  <1>3. T \cap bits = xor(Exponents(encode(msg)), Noise)
    BY ReadWord
  <1>4. \A b \in 0..N2-1 : b \in rm_encode(c, 0) <=> j * N2 + b \in Exponents(encode(msg))
    BY <1>1, CodewordElement
  <1>5. \A b \in 0..N2-1 : j * N2 + b \in bits
    BY BlockPosition
  <1>6. rm_encode(c, 0) \subseteq 0..N2-1
    <2>1. 0 \in Nat
      OBVIOUS
    <2> QED BY <1>2, <2>1, BlockBits
  <1> HIDE DEF T, c, bits
  <1>7. xor(BlockOf(T, j), rm_encode(c, 0)) = BlockOf(Noise, j)
    <2>1. ASSUME NEW b \in 0..N2-1
          PROVE  b \in xor(BlockOf(T, j), rm_encode(c, 0)) <=> b \in BlockOf(Noise, j)
      <3>1. j * N2 + b \in T <=> j * N2 + b \in xor(Exponents(encode(msg)), Noise)
        BY <1>3, <1>5
      <3>2. b \in BlockOf(T, j) <=> j * N2 + b \in T
        BY DEF BlockOf
      <3>3. b \in BlockOf(Noise, j) <=> j * N2 + b \in Noise
        BY DEF BlockOf
      <3>4. b \in rm_encode(c, 0) <=> j * N2 + b \in Exponents(encode(msg))
        BY <1>4
      <3>5. b \in xor(BlockOf(T, j), rm_encode(c, 0)) <=> ~(b \in BlockOf(T, j) <=> b \in rm_encode(c, 0))
        BY DEF xor
      <3>6. j * N2 + b \in xor(Exponents(encode(msg)), Noise)
              <=> ~(j * N2 + b \in Exponents(encode(msg)) <=> j * N2 + b \in Noise)
        BY DEF xor
      <3> QED BY <3>1, <3>2, <3>3, <3>4, <3>5, <3>6
    <2>2. xor(BlockOf(T, j), rm_encode(c, 0)) \subseteq 0..N2-1 /\ BlockOf(Noise, j) \subseteq 0..N2-1
      BY <1>6 DEF xor, BlockOf
    <2> QED BY <2>1, <2>2
  <1>8. 4 * Cardinality(xor(BlockOf(T, j), rm_encode(c, 0))) < N2
    BY <1>7, NoiseOfBlock
  <1>9. BlockOf(T, j) \in SUBSET (0..N2-1)
    BY DEF BlockOf
  <1>10. inner_decode(BlockOf(T, j)) = c
    BY <1>2, <1>8, <1>9, CodesPromise
  <1> QED BY <1>10 DEF T, c

\* Decryption returns the message unless more than Delta blocks are noisy.
THEOREM MessageRecovered == Spec => []RecoversMessage
  <1>1. Inv => RecoversMessage
    <2> DEFINE noisy == {j \in 0..OuterLen-1 : 4 * Cardinality(BlockNoise(j)) >= N2}
               cw == outer_encode(msg)
               w == [j \in 0..OuterLen-1 |-> inner_decode(BlockOf(Exponents(tmp), j))]
               wrong == {j \in 0..OuterLen-1 : w[j] # cw[j]}
    <2> SUFFICES ASSUME Inv, Read, Cardinality(noisy) <= Delta PROVE result = msg
      BY DEF RecoversMessage
    <2>1. msg \in Plaintexts
      BY DEF Inv, Expanded
    <2>2. result = outer_decode(w)
      BY ReadState, ReadWord, DecodedBlocks
    <2>3. w \in [0..OuterLen-1 -> Symbols]
      <3>1. \A j : BlockOf(Exponents(tmp), j) \in SUBSET (0..N2-1)
        BY DEF BlockOf
      <3> QED BY <3>1, CodesPromise
    <2>4. \A j \in 0..OuterLen-1 : Cardinality(BlockNoise(j)) \in Nat
      <3> SUFFICES ASSUME NEW j \in 0..OuterLen-1 PROVE Cardinality(BlockNoise(j)) \in Nat
        OBVIOUS
      <3>1. Noise \subseteq 0..CodeBits-1 /\ CodeBits \in Nat
        BY CodewordOnTheWire DEF Noise, CodeBits
      <3>2. IsFiniteSet(0..CodeBits-1)
        BY <3>1, FS_Interval
      <3>3. IsFiniteSet(BlockNoise(j))
        BY <3>1, <3>2, FS_Subset DEF BlockNoise
      <3> QED BY <3>3, FS_CardinalityType
    <2>5. wrong \subseteq noisy
      <3> SUFFICES ASSUME NEW j \in 0..OuterLen-1, w[j] # cw[j]
                   PROVE  4 * Cardinality(BlockNoise(j)) >= N2
        OBVIOUS
      <3>1. w[j] = inner_decode(BlockOf(Exponents(tmp), j))
        OBVIOUS
      <3>2. ~(4 * Cardinality(BlockNoise(j)) < N2)
        BY <3>1, QuietBlock
      <3>3. N2 \in Nat
        BY WholeBytes, Multiplication
      <3> QED BY <2>4, <3>2, <3>3
    <2>6. Cardinality(wrong) <= Delta
      <3>1. OuterLen \in Nat /\ Delta \in Nat
        BY CodecAssumption
      <3>2. IsFiniteSet(0..OuterLen-1) /\ noisy \subseteq 0..OuterLen-1
        BY <3>1, FS_Interval
      <3>3. IsFiniteSet(noisy)
        BY <3>2, FS_Subset
      <3>4. Cardinality(wrong) <= Cardinality(noisy) /\ IsFiniteSet(wrong)
        BY <2>5, <3>3, FS_Subset
      <3>5. Cardinality(wrong) \in Nat /\ Cardinality(noisy) \in Nat
        BY <3>3, <3>4, FS_CardinalityType
      <3> HIDE DEF wrong, noisy
      <3> QED BY <3>1, <3>4, <3>5
    <2> HIDE DEF w
    <2>7. outer_decode(w) = msg
      BY <2>1, <2>3, <2>6, CodesPromise
    <2> QED BY <2>2, <2>7
  <1> QED BY <1>1, InvHolds, PTL
=============================================================================
