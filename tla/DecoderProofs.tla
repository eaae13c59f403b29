--------------------------- MODULE DecoderProofs ----------------------------
(***************************************************************************)
(* Proofs about the two frame decoders, for every set of streams and every *)
(* payload limit: they read a stream as its grammar does, and deliver the  *)
(* frames that were encoded into it.                                       *)
(***************************************************************************)
EXTENDS Decoder, Telem, SequenceTheorems, WellFoundedInduction, TLAPS

-----------------------------------------------------------------------------
\* Recursion over data, without an operator as a parameter.

\* A set of naturals has a least element.
LEMMA Least ==
    ASSUME NEW T, T \subseteq Nat, T # {}
    PROVE  \E x \in T : \A y \in T : x <= y
  <1>1. PICK x \in T : \A y \in T : ~(<<y, x>> \in OpToRel(<, Nat))
    BY NatLessThanWellFounded, WFMin
  <1>2. \A y \in T : ~(y < x) /\ x \in Nat /\ y \in Nat
    BY <1>1 DEF OpToRel
  <1>3. \A y \in T : x <= y
    BY <1>2
  <1> QED
    BY <1>3

\* A set of naturals that holds 0 and with each number the next one holds them all.
LEMMA Induction ==
    ASSUME NEW T, 0 \in T, \A n \in Nat : n \in T => n + 1 \in T
    PROVE  Nat \subseteq T
  <1> SUFFICES ASSUME Nat \ T # {} PROVE FALSE
    OBVIOUS
  <1>1. PICK x \in Nat \ T : \A y \in Nat \ T : x <= y
    BY Least, Nat \ T \subseteq Nat
  <1>2. x # 0 /\ x \in Nat
    BY <1>1
  <1>3. x - 1 \in Nat /\ ~(x <= x - 1) /\ (x - 1) + 1 = x
    BY <1>2
  <1>4. x - 1 \in T
    BY <1>1, <1>3
  <1> QED
    BY <1>1, <1>3, <1>4

\* What a recursive definition asks of a function: its value is given where stop
\* holds, and elsewhere made out of the value at the next argument.
Solves(g, S, stop, base, nxt, step, i) ==
    g[i] = IF stop[i] THEN base[i] ELSE step[<<i, g[nxt[i]]>>]

\* There is such a function if the next arguments go down some rank.
LEMMA Recursion ==
    ASSUME NEW S, NEW V, NEW M \in Nat,
           NEW stop \in [S -> BOOLEAN], NEW base \in [S -> V],
           NEW nxt \in [S -> S], NEW step \in [S \X V -> V],
           NEW rank \in [S -> 0 .. M],
           \A i \in S : ~stop[i] => rank[nxt[i]] < rank[i]
    PROVE  \E g \in [S -> V] : \A i \in S : Solves(g, S, stop, base, nxt, step, i)
  <1> DEFINE Upto(g, k) ==
                \A i \in S : rank[i] < k => Solves(g, S, stop, base, nxt, step, i)
             T == {k \in Nat : \E g \in [S -> V] : Upto(g, k)}
  <1>1. 0 \in T
    <2>1. \A i \in S : ~(rank[i] < 0)
      OBVIOUS
    <2> QED
      BY <2>1
  <1>2. ASSUME NEW k \in Nat, k \in T
        PROVE  k + 1 \in T
    <2>1. PICK g \in [S -> V] : Upto(g, k)
      BY <1>2
    <2> DEFINE val(i) == IF stop[i] THEN base[i] ELSE step[<<i, g[nxt[i]]>>]
               f == [i \in S |-> IF rank[i] = k THEN val(i) ELSE g[i]]
    <2>2. \A i \in S : val(i) \in V
      OBVIOUS
    <2>3. f \in [S -> V]
      BY <2>2
    <2>4. ASSUME NEW i \in S, rank[i] < k + 1
          PROVE  Solves(f, S, stop, base, nxt, step, i)
      <3>1. rank[i] \in 0 .. M /\ nxt[i] \in S /\ rank[nxt[i]] \in 0 .. M
        OBVIOUS
      <3>2. rank[i] <= k
        BY <2>4, <3>1
      <3>3. ~stop[i] => rank[nxt[i]] < k
        BY <3>1, <3>2
      <3>4. ~stop[i] => f[nxt[i]] = g[nxt[i]]
        BY <3>1, <3>3
      <3>5. f[i] = val(i)
        <4>1. CASE rank[i] = k
          BY <4>1
        <4>2. CASE rank[i] < k
          BY <2>1, <4>2 DEF Solves
        <4> QED
          BY <3>1, <3>2, <4>1, <4>2
      <3> HIDE DEF f
      <3> QED
        BY <3>4, <3>5 DEF Solves
    <2> HIDE DEF f
    <2> QED
      BY <2>3, <2>4
  <1>3. M + 1 \in T
    <2> HIDE DEF T
    <2> QED
      BY <1>1, <1>2, Induction
  <1>4. PICK g \in [S -> V] : Upto(g, M + 1)
    BY <1>3
  <1>5. \A i \in S : rank[i] < M + 1
    OBVIOUS
  <1> QED
    BY <1>4, <1>5

\* The same for a value built up from 0 to N.
Iterates(g, N, V, first, on) ==
    /\ g \in [0 .. N -> V]
    /\ g[0] = first /\ \A k \in 1 .. N : g[k] = on[<<k, g[k - 1]>>]

LEMMA Iteration ==
    ASSUME NEW N \in Nat, NEW V, NEW first \in V,
           NEW D, D = (1 .. N) \X V, NEW on \in [D -> V]
    PROVE  \E g : Iterates(g, N, V, first, on)
  <1> DEFINE S == 0 .. N
             stop == [n \in S |-> n = 0]
             base == [n \in S |-> first]
             nxt == [n \in S |-> IF n = 0 THEN 0 ELSE n - 1]
             step == [p \in S \X V |-> IF p[1] = 0 THEN first ELSE on[p]]
             rank == [n \in S |-> n]
  <1>1. \A n \in S : n = 0 \/ n \in 1 .. N
    OBVIOUS
  <1>2. step \in [S \X V -> V]
    <2> SUFFICES ASSUME NEW n \in S, NEW b \in V
                 PROVE  (IF n = 0 THEN first ELSE on[<<n, b>>]) \in V
      OBVIOUS
    <2>1. CASE n = 0
      BY <2>1
    <2>2. CASE n # 0
      <3>1. <<n, b>> \in (1 .. N) \X V
        BY <1>1, <2>2
      <3> QED
        BY <2>2, <3>1
    <2> QED
      BY <2>1, <2>2
  <1>3. stop \in [S -> BOOLEAN] /\ base \in [S -> V] /\ rank \in [S -> 0 .. N]
    OBVIOUS
  <1>4. \A n \in S : n # 0 => n - 1 \in S /\ n - 1 < n
    OBVIOUS
  <1>5. nxt \in [S -> S] /\ 0 \in S
    BY <1>4
  <1>6. \A i \in S : ~stop[i] => rank[nxt[i]] < rank[i]
    <2> SUFFICES ASSUME NEW i \in S, i # 0 PROVE rank[nxt[i]] < rank[i]
      OBVIOUS
    <2>1. nxt[i] = i - 1 /\ i - 1 \in S /\ i - 1 < i
      BY <1>4
    <2> QED
      BY <2>1
  <1>7. \E g \in [S -> V] : \A i \in S : Solves(g, S, stop, base, nxt, step, i)
    <2> HIDE DEF S, stop, base, nxt, step, rank
    <2> QED
      BY <1>2, <1>3, <1>5, <1>6, Recursion
  <1>8. PICK g \in [S -> V] : \A i \in S : Solves(g, S, stop, base, nxt, step, i)
    BY <1>7
  <1>9. g[0] = first
    BY <1>5, <1>8 DEF Solves
  <1>10. ASSUME NEW k \in 1 .. N PROVE g[k] = on[<<k, g[k - 1]>>]
    <2>1. k \in S /\ k # 0 /\ k - 1 \in S
      OBVIOUS
    <2>2. nxt[k] = k - 1 /\ ~stop[k] /\ g[k - 1] \in V
      BY <1>8, <2>1
    <2>3. g[k] = step[<<k, g[k - 1]>>]
      BY <1>8, <2>1, <2>2 DEF Solves
    <2>4. step[<<k, g[k - 1]>>] = on[<<k, g[k - 1]>>]
      BY <2>1, <2>2
    <2> QED
      BY <2>3, <2>4
  <1> QED
    BY <1>8, <1>9, <1>10 DEF Iterates

-----------------------------------------------------------------------------
\* Parts of a stream.

LEMMA PartTyped ==
    ASSUME NEW s \in Seq(Byte), NEW a \in Nat, NEW n \in Nat, a <= n, n <= Len(s)
    PROVE  /\ Part(s, a, n) \in Seq(Byte) /\ Len(Part(s, a, n)) = n - a
           /\ \A k \in 1 .. n - a : Part(s, a, n)[k] = s[a + k]
  <1>1. Len(s) \in Nat
    OBVIOUS
  <1>2. a + 1 \in 1 .. Len(s) + 1 /\ n \in (a + 1) - 1 .. Len(s)
    BY <1>1
  <1>3. n - (a + 1) + 1 = n - a
    OBVIOUS
  <1>4. \A k \in Nat : (a + 1) + k - 1 = a + k
    OBVIOUS
  <1>5. /\ Part(s, a, n) \in Seq(Byte) /\ Len(Part(s, a, n)) = n - (a + 1) + 1
        /\ \A k \in 1 .. n - (a + 1) + 1 : Part(s, a, n)[k] = s[(a + 1) + k - 1]
    BY <1>2, SubSeqProperties DEF Part
  <1> DEFINE p == Part(s, a, n)
  <1>6. /\ p \in Seq(Byte) /\ Len(p) = n - a
        /\ \A k \in 1 .. n - a : p[k] = s[(a + 1) + k - 1]
    BY <1>3, <1>5
  <1> HIDE DEF p
  <1>7. ASSUME NEW k \in 1 .. n - a PROVE p[k] = s[a + k]
    <2>1. (a + 1) + k - 1 = a + k
      BY <1>4
    <2> QED
      BY <1>6, <2>1
  <1> QED
    BY <1>6, <1>7 DEF p

LEMMA ByteOf ==
    ASSUME NEW s \in Seq(Byte), NEW n \in Nat, n < Len(s)
    PROVE  s[n + 1] \in Byte
  <1>1. Len(s) \in Nat
    OBVIOUS
  <1>2. n + 1 \in 1 .. Len(s)
    BY <1>1
  <1> QED
    BY <1>2, ElementOfSeq

\* A part that grows by a byte.
LEMMA PartGrows ==
    ASSUME NEW s \in Seq(Byte), NEW a \in Nat, NEW n \in Nat, a <= n, n < Len(s)
    PROVE  Part(s, a, n + 1) = Append(Part(s, a, n), s[n + 1])
  <1> DEFINE p == Part(s, a, n)
             q == Part(s, a, n + 1)
             r == Append(p, s[n + 1])
  <1>0. Len(s) \in Nat /\ n <= Len(s) /\ n + 1 <= Len(s) /\ a <= n + 1 /\ n + 1 \in Nat
    OBVIOUS
  <1>1. p \in Seq(Byte) /\ Len(p) = n - a /\ \A k \in 1 .. n - a : p[k] = s[a + k]
    BY <1>0, PartTyped
  <1>2. /\ q \in Seq(Byte) /\ Len(q) = (n + 1) - a
        /\ \A k \in 1 .. (n + 1) - a : q[k] = s[a + k]
    BY <1>0, PartTyped
  <1>3. s[n + 1] \in Byte
    BY ByteOf
  <1> HIDE DEF p, q
  <1> DEFINE m == n - a
  <1>4. m \in Nat /\ (n + 1) - a = m + 1 /\ a + (m + 1) = n + 1
    BY <1>0
  <1> HIDE DEF m
  <1>5. /\ r \in Seq(Byte) /\ Len(r) = m + 1 /\ r[m + 1] = s[n + 1]
        /\ \A k \in 1 .. m : r[k] = p[k]
    BY <1>1, <1>3, <1>4, AppendProperties DEF m
  <1>6. \A k \in 1 .. m + 1 : q[k] = r[k]
    <2> SUFFICES ASSUME NEW k \in 1 .. m + 1 PROVE q[k] = r[k]
      OBVIOUS
    <2>1. q[k] = s[a + k]
      BY <1>2, <1>4
    <2>2. CASE k = m + 1
      BY <1>4, <1>5, <2>1, <2>2
    <2>3. CASE k # m + 1
      <3>1. k \in 1 .. m
        BY <1>4, <2>3
      <3> QED
        BY <1>1, <1>5, <2>1, <3>1 DEF m
    <2> QED
      BY <2>2, <2>3
  <1> HIDE DEF r
  <1>7. Len(q) = Len(r) /\ \A k \in 1 .. Len(q) : q[k] = r[k]
    BY <1>2, <1>4, <1>5, <1>6
  <1> QED
    BY <1>2, <1>5, <1>7, SeqEqual DEF p, q, r

LEMMA PartEmpty ==
    ASSUME NEW s \in Seq(Byte), NEW a \in Nat, a <= Len(s)
    PROVE  Part(s, a, a) = <<>>
  <1>1. Part(s, a, a) \in Seq(Byte) /\ Len(Part(s, a, a)) = a - a
    BY PartTyped
  <1>2. a - a = 0
    OBVIOUS
  <1> QED
    BY <1>1, <1>2, EmptySeq

LEMMA PartOne ==
    ASSUME NEW s \in Seq(Byte), NEW a \in Nat, a < Len(s)
    PROVE  Part(s, a, a + 1) = <<s[a + 1]>>
  <1>1. Part(s, a, a + 1) = Append(Part(s, a, a), s[a + 1])
    BY PartGrows
  <1>2. Part(s, a, a) = <<>>
    BY PartEmpty
  <1> QED
    BY <1>1, <1>2

\* Two parts side by side.
LEMMA PartsJoin ==
    ASSUME NEW s \in Seq(Byte), NEW a \in Nat, NEW m \in Nat, NEW n \in Nat,
           a <= m, m <= n, n <= Len(s)
    PROVE  Part(s, a, m) \o Part(s, m, n) = Part(s, a, n)
  <1>1. Len(s) \in Nat
    OBVIOUS
  <1>2. a + 1 \in 1 .. Len(s) + 1 /\ m \in (a + 1) - 1 .. Len(s) /\ n \in m .. Len(s)
    BY <1>1
  <1> QED
    BY <1>2, ConcatAdjacentSubSeq DEF Part

-----------------------------------------------------------------------------
\* The CRC register.

\* Bytes and 16-bit words as numbers.
LEMMA ByteRange ==
    ASSUME NEW n
    PROVE  n \in Byte <=> n \in Nat /\ n < 256
  BY DEF Byte

LEMMA WordRange ==
    ASSUME NEW hi \in Byte, NEW lo \in Byte
    PROVE  256 * hi + lo \in Uint16
  <1>1. hi \in Nat /\ hi < 256 /\ lo \in Nat /\ lo < 256
    BY ByteRange
  <1> QED
    BY <1>1 DEF Uint16

\* Exclusive or stays inside 16 bits.
LEMMA XorTyped ==
    ASSUME NEW a, NEW b
    PROVE  Xor(a, b) \in Uint16
  <1> DEFINE Bit(w) == IF (a \div w) % 2 = (b \div w) % 2 THEN 0 ELSE w
  <1>1. /\ Bit(1) \in {0, 1} /\ Bit(2) \in {0, 2} /\ Bit(4) \in {0, 4}
        /\ Bit(8) \in {0, 8} /\ Bit(16) \in {0, 16} /\ Bit(32) \in {0, 32}
        /\ Bit(64) \in {0, 64} /\ Bit(128) \in {0, 128}
    OBVIOUS
  <1>2. /\ Bit(256) \in {0, 256} /\ Bit(512) \in {0, 512}
        /\ Bit(1024) \in {0, 1024} /\ Bit(2048) \in {0, 2048}
        /\ Bit(4096) \in {0, 4096} /\ Bit(8192) \in {0, 8192}
        /\ Bit(16384) \in {0, 16384} /\ Bit(32768) \in {0, 32768}
    OBVIOUS
  <1> DEFINE low == Bit(1) + Bit(2) + Bit(4) + Bit(8) + Bit(16) + Bit(32) + Bit(64) +
                    Bit(128)
             high == Bit(256) + Bit(512) + Bit(1024) + Bit(2048) + Bit(4096) +
                     Bit(8192) + Bit(16384) + Bit(32768)
  <1>3. Xor(a, b) = low + high
    BY DEF Xor
  <1> HIDE DEF Bit
  <1>4. low \in Nat /\ low <= 255
    BY <1>1
  <1>5. high \in Nat /\ high <= 65280
    BY <1>2
  <1> HIDE DEF low, high
  <1> QED
    BY <1>3, <1>4, <1>5 DEF Uint16

\* One bit, and one byte, into the register.
LEMMA CrcBitTyped ==
    ASSUME NEW crc \in Uint16
    PROVE  CrcBit(crc) \in Uint16
  <1>1. CASE crc >= 32768
    BY <1>1, XorTyped DEF CrcBit
  <1>2. CASE ~(crc >= 32768)
    <2>1. crc \in Nat /\ crc <= 32767
      BY <1>2 DEF Uint16
    <2> QED
      BY <1>2, <2>1 DEF CrcBit, Uint16
  <1> QED
    BY <1>1, <1>2

LEMMA CrcByteTyped ==
    ASSUME NEW crc, NEW byte
    PROVE  CrcByte(crc, byte) \in Uint16
  <1> DEFINE Two(c) == CrcBit(CrcBit(c))
             Four(c) == Two(Two(c))
  <1>1. \A c \in Uint16 : Two(c) \in Uint16
    BY CrcBitTyped
  <1> HIDE DEF Two
  <1>2. \A c \in Uint16 : Four(c) \in Uint16
    BY <1>1
  <1>3. \A c \in Nat : CrcBits[c] = Four(Four(c))
    BY DEF CrcBits, Two
  <1> HIDE DEF Four
  <1>4. \A c \in Uint16 : Four(Four(c)) \in Uint16
    BY <1>2
  <1>5. Xor(crc, 256 * byte) \in Uint16
    BY XorTyped
  <1>6. Uint16 \subseteq Nat
    BY DEF Uint16
  <1> QED
    BY <1>3, <1>4, <1>5, <1>6 DEF CrcByte

\* The register after n bytes.
IsRegister(reg, seed, data) ==
    /\ reg \in [0 .. Len(data) -> Uint16]
    /\ reg[0] = seed
    /\ \A n \in 1 .. Len(data) : reg[n] = CrcByte(reg[n - 1], data[n])

LEMMA RegisterUnfolds ==
    ASSUME NEW seed \in Uint16, NEW data \in Seq(Byte)
    PROVE  IsRegister(CrcRegister(seed, data), seed, data)
  <1> DEFINE N == Len(data)
             S == 0 .. N
             stop == [n \in S |-> n = 0]
             base == [n \in S |-> seed]
             nxt == [n \in S |-> IF n = 0 THEN 0 ELSE n - 1]
             step == [p \in S \X Uint16 |-> CrcByte(p[2], data[p[1]])]
             rank == [n \in S |-> n]
             F(f) == f = [n \in S |-> IF n = 0 THEN seed ELSE CrcByte(f[n - 1], data[n])]
  <1>0. N \in Nat
    OBVIOUS
  <1>1. \E g \in [S -> Uint16] : \A i \in S : Solves(g, S, stop, base, nxt, step, i)
    <2>1. stop \in [S -> BOOLEAN] /\ base \in [S -> Uint16]
      OBVIOUS
    <2>2. nxt \in [S -> S] /\ rank \in [S -> 0 .. N]
      BY <1>0
    <2>3. step \in [S \X Uint16 -> Uint16]
      BY CrcByteTyped
    <2>4. \A i \in S : ~stop[i] => rank[nxt[i]] < rank[i]
      BY <1>0
    <2> HIDE DEF N, S, stop, base, nxt, step, rank
    <2> QED
      BY <1>0, <2>1, <2>2, <2>3, <2>4, Recursion
  <1>2. PICK g \in [S -> Uint16] : \A i \in S : Solves(g, S, stop, base, nxt, step, i)
    BY <1>1
  <1>3. ASSUME NEW i \in S
        PROVE  g[i] = IF i = 0 THEN seed ELSE CrcByte(g[i - 1], data[i])
    <2>1. CASE i = 0
      BY <1>2, <2>1 DEF Solves
    <2>2. CASE i # 0
      <3>1. nxt[i] = i - 1 /\ i - 1 \in S /\ ~stop[i] /\ g[i - 1] \in Uint16
        BY <1>0, <1>2, <2>2
      <3>2. g[i] = step[<<i, g[i - 1]>>]
        BY <1>2, <3>1 DEF Solves
      <3> QED
        BY <2>2, <3>1, <3>2
    <2> QED
      BY <2>1, <2>2
  <1>4. F(g)
    BY <1>2, <1>3
  <1>5. CrcRegister(seed, data) = CHOOSE f : F(f)
    BY DEF CrcRegister
  <1> DEFINE r == CrcRegister(seed, data)
  <1>6. F(r)
    <2> HIDE DEF F
    <2> QED
      BY <1>4, <1>5
  <1> HIDE DEF r
  <1>7. /\ r[0] = seed
        /\ \A n \in 1 .. N : n \in S /\ r[n] = CrcByte(r[n - 1], data[n])
    BY <1>0, <1>6
  <1>8. \A n \in S : r[n] \in Uint16
    BY <1>0, <1>6, CrcByteTyped
  <1>9. r \in [S -> Uint16]
    BY <1>6, <1>8
  <1> QED
    BY <1>7, <1>9 DEF IsRegister, r

LEMMA CrcTyped ==
    ASSUME NEW seed \in Uint16, NEW data \in Seq(Byte)
    PROVE  gov_crc16_ccitt(seed, data) \in Uint16
  <1>1. Len(data) \in 0 .. Len(data)
    OBVIOUS
  <1> QED
    BY <1>1, RegisterUnfolds DEF IsRegister, gov_crc16_ccitt

LEMMA CrcEmpty ==
    ASSUME NEW seed \in Uint16
    PROVE  gov_crc16_ccitt(seed, <<>>) = seed
  <1>1. <<>> \in Seq(Byte) /\ Len(<<>>) = 0
    OBVIOUS
  <1> QED
    BY <1>1, RegisterUnfolds DEF IsRegister, gov_crc16_ccitt

\* Feeding bytes one at a time (crc_feed) computes the CRC of all of them.
LEMMA CrcAppend ==
    ASSUME NEW seed \in Uint16, NEW data \in Seq(Byte), NEW b \in Byte
    PROVE  gov_crc16_ccitt(seed, Append(data, b)) =
              CrcByte(gov_crc16_ccitt(seed, data), b)
  <1> DEFINE N == Len(data)
             more == Append(data, b)
             r == CrcRegister(seed, data)
             q == CrcRegister(seed, more)
  <1>1. /\ N \in Nat /\ more \in Seq(Byte) /\ Len(more) = N + 1
        /\ more[N + 1] = b /\ \A n \in 1 .. N : more[n] = data[n]
    OBVIOUS
  <1>2. IsRegister(r, seed, data) /\ IsRegister(q, seed, more)
    BY <1>1, RegisterUnfolds
  <1> HIDE DEF r, q, more
  <1> DEFINE T == {n \in Nat : n <= N => q[n] = r[n]}
  <1>3. 0 \in T
    BY <1>2 DEF IsRegister
  <1>4. ASSUME NEW n \in Nat, n \in T
        PROVE  n + 1 \in T
    <2>1. SUFFICES ASSUME n + 1 <= N PROVE q[n + 1] = r[n + 1]
      OBVIOUS
    <2>2. n + 1 \in 1 .. N /\ n + 1 \in 1 .. N + 1 /\ n <= N /\ (n + 1) - 1 = n
      BY <1>1, <2>1
    <2>3. q[n] = r[n]
      BY <1>4, <2>2
    <2>4. r[n + 1] = CrcByte(r[(n + 1) - 1], data[n + 1])
      BY <1>2, <2>2 DEF IsRegister
    <2>5. q[n + 1] = CrcByte(q[(n + 1) - 1], more[n + 1])
      BY <1>1, <1>2, <2>2 DEF IsRegister
    <2> QED
      BY <1>1, <2>2, <2>3, <2>4, <2>5
  <1>5. N \in T
    <2> HIDE DEF T
    <2> QED
      BY <1>1, <1>3, <1>4, Induction
  <1>6. q[N] = r[N]
    BY <1>1, <1>5
  <1>7. q[N + 1] = CrcByte(q[(N + 1) - 1], more[N + 1])
    <2>1. N + 1 \in 1 .. Len(more)
      BY <1>1
    <2> QED
      BY <1>2, <2>1 DEF IsRegister
  <1> QED
    BY <1>1, <1>6, <1>7 DEF gov_crc16_ccitt, r, q, more

-----------------------------------------------------------------------------
\* The grammar.

\* The length in a header.
LEMMA LenAtTyped ==
    ASSUME NEW s \in Seq(Byte), NEW i \in Nat, Len(s) - i >= 6
    PROVE  LenAt(s, i) \in Nat
  <1>1. Len(s) \in Nat /\ i + 5 \in 1 .. Len(s) /\ i + 6 \in 1 .. Len(s)
    OBVIOUS
  <1>2. s[i + 5] \in Byte /\ s[i + 6] \in Byte
    BY <1>1, ElementOfSeq
  <1> QED
    BY <1>2, ByteRange DEF LenAt

\* What a token can be: the end, or something read before going on further right.
Kind == {"noise", "ver_err", "len_err", "crc_err", "unknown_type", "frame"}

LEMMA TokenCases ==
    ASSUME NEW s \in Seq(Byte), NEW i \in 0 .. Len(s)
    PROVE  \/ Token(s, i).kind = "end"
           \/ Token(s, i).kind \in Kind /\ Token(s, i).next \in i + 1 .. Len(s)
  <1> DEFINE left == Len(s) - i
             t == Token(s, i)
  <1>0. Len(s) \in Nat /\ i \in Nat /\ left \in Nat /\ i + left = Len(s)
    OBVIOUS
  <1> HIDE DEF left
  <1>on. ASSUME NEW k \in Kind, NEW n \in Nat, n # 0, n <= left, t.kind = k, t.next = i + n
         PROVE  t.kind \in Kind /\ t.next \in i + 1 .. Len(s)
    <2>1. i + n \in i + 1 .. Len(s)
      BY <1>0, <1>on
    <2> QED
      BY <1>on, <2>1
  <1>1. CASE left = 0
    BY <1>0, <1>1 DEF Token, left
  <1>2. CASE left # 0 /\ s[i + 1] # SOF
    <2>1. t.kind = "noise" /\ t.next = i + 1
      BY <1>2 DEF Token, left
    <2>2. "noise" \in Kind /\ 1 \in Nat /\ 1 # 0 /\ 1 <= left
      BY <1>0, <1>2 DEF Kind
    <2> QED
      BY <1>on, <2>1, <2>2
  <1>3. CASE left = 1 /\ s[i + 1] = SOF
    BY <1>3 DEF Token, left
  <1>4. CASE left # 0 /\ left # 1 /\ s[i + 1] = SOF /\ s[i + 2] = SOF
    <2>1. t.kind = "noise" /\ t.next = i + 1
      BY <1>4 DEF Token, left
    <2>2. "noise" \in Kind /\ 1 \in Nat /\ 1 # 0 /\ 1 <= left
      BY <1>0, <1>4 DEF Kind
    <2> QED
      BY <1>on, <2>1, <2>2
  <1>5. CASE left # 0 /\ left # 1 /\ s[i + 1] = SOF /\ s[i + 2] # SOF /\ s[i + 2] # VER
    <2>1. t.kind = "ver_err" /\ t.next = i + 2
      BY <1>5 DEF Token, left
    <2>2. "ver_err" \in Kind /\ 2 \in Nat /\ 2 # 0 /\ 2 <= left
      BY <1>0, <1>5 DEF Kind
    <2> QED
      BY <1>on, <2>1, <2>2
  <1> DEFINE start == /\ left # 0 /\ left # 1 /\ s[i + 1] = SOF
                      /\ s[i + 2] # SOF /\ s[i + 2] = VER
             len == LenAt(s, i)
  <1>6. CASE start /\ left < 6
    BY <1>6 DEF Token, left
  <1>7. CASE start /\ ~(left < 6)
    <2>1. len \in Nat
      <3>1. left >= 6
        BY <1>0, <1>7
      <3> QED
        BY <1>0, <3>1, LenAtTyped DEF left
    <2>2. CASE len > GOV_MAX_PAYLOAD
      <3>1. t.kind = "len_err" /\ t.next = i + 6
        BY <1>7, <2>2 DEF Token, left
      <3>2. "len_err" \in Kind /\ 6 \in Nat /\ 6 # 0 /\ 6 <= left
        BY <1>0, <1>7 DEF Kind
      <3> QED
        BY <1>on, <3>1, <3>2
    <2>3. CASE ~(len > GOV_MAX_PAYLOAD) /\ left < 8 + len
      BY <1>7, <2>3 DEF Token, left
    <2>4. CASE ~(len > GOV_MAX_PAYLOAD) /\ ~(left < 8 + len)
      <3>1. t.kind = Verdict(s, i) /\ t.next = i + (8 + len)
        BY <1>7, <2>4 DEF Token, left
      <3>2. Verdict(s, i) \in Kind
        BY DEF Verdict, Kind
      <3>3. i + (8 + len) \in i + 1 .. Len(s)
        BY <1>0, <2>1, <2>4
      <3> QED
        BY <3>1, <3>2, <3>3
    <2> QED
      BY <2>2, <2>3, <2>4
  <1> QED
    BY <1>1, <1>2, <1>3, <1>4, <1>5, <1>6, <1>7

\* A token that is more than a start: it is a whole frame.
LEMMA TokenFrame ==
    ASSUME NEW s \in Seq(Byte), NEW i \in 0 .. Len(s),
           Token(s, i).kind = "frame"
    PROVE  /\ Len(s) - i >= 6 /\ ~(LenAt(s, i) > GOV_MAX_PAYLOAD)
           /\ ~(Len(s) - i < 8 + LenAt(s, i))
           /\ s[i + 1] = SOF /\ s[i + 2] = VER
           /\ Verdict(s, i) = "frame" /\ Token(s, i).next = i + (8 + LenAt(s, i))
  <1> DEFINE left == Len(s) - i
             t == Token(s, i)
  <1>0. Len(s) \in Nat /\ i \in Nat /\ left \in Nat
    OBVIOUS
  <1>1. left # 0 /\ s[i + 1] = SOF /\ left # 1 /\ s[i + 2] # SOF /\ s[i + 2] = VER
    BY DEF Token
  <1>2. ~(left < 6) /\ ~(LenAt(s, i) > GOV_MAX_PAYLOAD) /\ ~(left < 8 + LenAt(s, i))
    BY <1>1 DEF Token
  <1>3. t.kind = Verdict(s, i) /\ t.next = i + (8 + LenAt(s, i))
    BY <1>1, <1>2 DEF Token
  <1> QED
    BY <1>0, <1>1, <1>2, <1>3

\* The frame that stands there.
LEMMA FrameAtTyped ==
    ASSUME NEW s \in Seq(Byte), NEW i \in Nat, Len(s) - i >= 6,
           ~(LenAt(s, i) > GOV_MAX_PAYLOAD), ~(Len(s) - i < 8 + LenAt(s, i))
    PROVE  FrameAt(s, i) \in Frames
  <1> DEFINE len == LenAt(s, i)
             p == Part(s, i + 6, i + 6 + len)
  <1>1. len \in Nat
    BY LenAtTyped
  <1> HIDE DEF len
  <1>2. Len(s) \in Nat /\ i + 3 \in 1 .. Len(s) /\ i + 4 \in 1 .. Len(s)
    OBVIOUS
  <1>3. s[i + 3] \in Byte /\ s[i + 4] \in Byte
    BY <1>2, ElementOfSeq
  <1>6. p \in Seq(Byte) /\ Len(p) = len
    <2>1. /\ i + 6 \in Nat /\ i + 6 + len \in Nat /\ i + 6 <= i + 6 + len
          /\ i + 6 + len <= Len(s) /\ (i + 6 + len) - (i + 6) = len
      BY <1>1, <1>2 DEF len
    <2> QED
      BY <2>1, PartTyped
  <1>7. len <= GOV_MAX_PAYLOAD
    BY <1>1, FrameAssumption DEF len
  <1>8. FrameAt(s, i) = [type |-> s[i + 3], seq |-> s[i + 4], payload |-> p]
    BY DEF FrameAt, len
  <1> HIDE DEF p
  <1> QED
    BY <1>3, <1>6, <1>7, <1>8 DEF Frames

\* What can be read from a stream.
Reading == [frames : Seq(Frames), errors : [Error -> Nat]]

LEMMA BeforeTyped ==
    ASSUME NEW s \in Seq(Byte), NEW i \in 0 .. Len(s), NEW rest \in Reading
    PROVE  Before(s, i, rest) \in Reading
  <1>1. rest.frames \in Seq(Frames) /\ rest.errors \in [Error -> Nat]
    BY DEF Reading
  <1> DEFINE fs == IF Token(s, i).kind = "frame" THEN <<FrameAt(s, i)>> \o rest.frames
                   ELSE rest.frames
             es == [e \in Error |-> IF e = Token(s, i).kind THEN rest.errors[e] + 1
                                    ELSE rest.errors[e]]
  <1>2. fs \in Seq(Frames)
    <2>1. CASE Token(s, i).kind = "frame"
      <3>1. FrameAt(s, i) \in Frames
        BY <2>1, TokenFrame, FrameAtTyped
      <3>2. <<FrameAt(s, i)>> \in Seq(Frames)
        BY <3>1
      <3> QED
        BY <1>1, <2>1, <3>2, ConcatProperties
    <2>2. CASE Token(s, i).kind # "frame"
      BY <1>1, <2>2
    <2> QED
      BY <2>1, <2>2
  <1>3. es \in [Error -> Nat]
    BY <1>1
  <1>4. Before(s, i, rest) = [frames |-> fs, errors |-> es]
    BY DEF Before
  <1> HIDE DEF fs, es
  <1> QED
    BY <1>2, <1>3, <1>4 DEF Reading

LEMMA NothingTyped == Nothing \in Reading
  <1>1. <<>> \in Seq(Frames) /\ [e \in Error |-> 0] \in [Error -> Nat]
    OBVIOUS
  <1> QED
    BY <1>1 DEF Nothing, Reading

\* The grammar satisfies its recursive definition.
LEMMA GrammarUnfolds ==
    ASSUME NEW s \in Seq(Byte)
    PROVE  /\ Grammar(s) \in [0 .. Len(s) -> Reading]
           /\ \A i \in 0 .. Len(s) :
                 Grammar(s)[i] = IF Token(s, i).kind = "end" THEN Nothing
                                 ELSE Before(s, i, Grammar(s)[Token(s, i).next])
  <1> DEFINE N == Len(s)
             S == 0 .. N
             stop == [i \in S |-> Token(s, i).kind = "end"]
             base == [i \in S |-> Nothing]
             nxt == [i \in S |-> IF Token(s, i).kind = "end" THEN i ELSE Token(s, i).next]
             step == [p \in S \X Reading |-> Before(s, p[1], p[2])]
             rank == [i \in S |-> N - i]
             F(f) == f = [i \in S |-> IF Token(s, i).kind = "end" THEN Nothing
                                      ELSE Before(s, i, f[Token(s, i).next])]
  <1>0. N \in Nat
    OBVIOUS
  <1>on. \A i \in S : Token(s, i).kind # "end" =>
            Token(s, i).next \in S /\ N - Token(s, i).next < N - i
    <2> SUFFICES ASSUME NEW i \in S, Token(s, i).kind # "end"
                 PROVE  Token(s, i).next \in S /\ N - Token(s, i).next < N - i
      OBVIOUS
    <2>1. Token(s, i).next \in i + 1 .. N
      BY TokenCases
    <2> DEFINE k == Token(s, i).next
    <2> HIDE DEF k, N
    <2>2. k \in i + 1 .. N
      BY <2>1 DEF k
    <2>3. k \in S /\ N - k < N - i
      BY <1>0, <2>2
    <2> QED
      BY <2>3 DEF k
  <1>1. \E g \in [S -> Reading] : \A i \in S : Solves(g, S, stop, base, nxt, step, i)
    <2>1. stop \in [S -> BOOLEAN] /\ base \in [S -> Reading]
      BY NothingTyped
    <2>2. nxt \in [S -> S]
      BY <1>on
    <2>3. rank \in [S -> 0 .. N]
      BY <1>0
    <2>4. step \in [S \X Reading -> Reading]
      BY BeforeTyped
    <2>5. \A i \in S : ~stop[i] => rank[nxt[i]] < rank[i]
      BY <1>on
    <2> HIDE DEF N, S, stop, base, nxt, step, rank
    <2> QED
      BY <1>0, <2>1, <2>2, <2>3, <2>4, <2>5, Recursion
  <1>2. PICK g \in [S -> Reading] : \A i \in S : Solves(g, S, stop, base, nxt, step, i)
    BY <1>1
  <1>3. ASSUME NEW i \in S
        PROVE  g[i] = IF Token(s, i).kind = "end" THEN Nothing
                      ELSE Before(s, i, g[Token(s, i).next])
    <2>0. g[i] = IF stop[i] THEN base[i] ELSE step[<<i, g[nxt[i]]>>]
      BY <1>2 DEF Solves
    <2>1. CASE Token(s, i).kind = "end"
      BY <2>0, <2>1
    <2>2. CASE Token(s, i).kind # "end"
      <3>1. nxt[i] = Token(s, i).next /\ ~stop[i] /\ nxt[i] \in S
        BY <1>on, <2>2
      <3>2. g[nxt[i]] \in Reading
        BY <1>2, <3>1
      <3>3. step[<<i, g[nxt[i]]>>] = Before(s, i, g[nxt[i]])
        BY <3>2
      <3> QED
        BY <2>0, <2>2, <3>1, <3>3
    <2> QED
      BY <2>1, <2>2
  <1>4. F(g)
    BY <1>2, <1>3
  <1>5. Grammar(s) = CHOOSE f : F(f)
    BY DEF Grammar
  <1> DEFINE r == Grammar(s)
  <1>6. F(r)
    <2> HIDE DEF F
    <2> QED
      BY <1>4, <1>5
  <1> HIDE DEF r
  <1>7. \A i \in S : r[i] = IF Token(s, i).kind = "end" THEN Nothing
                            ELSE Before(s, i, r[Token(s, i).next])
    BY <1>6
  <1>8. r = [i \in S |-> r[i]]
    BY <1>6
  <1> DEFINE T == {n \in Nat : \A i \in S : N - i < n => r[i] \in Reading}
  <1>9. 0 \in T
    BY <1>0
  <1>10. ASSUME NEW n \in Nat, n \in T
         PROVE  n + 1 \in T
    <2> SUFFICES ASSUME NEW i \in S, N - i < n + 1
                 PROVE  r[i] \in Reading
      OBVIOUS
    <2>1. CASE Token(s, i).kind = "end"
      BY <1>7, <2>1, NothingTyped
    <2>2. CASE Token(s, i).kind # "end"
      <3> DEFINE k == Token(s, i).next
      <3>1. k \in S /\ N - k < N - i
        BY <1>on, <2>2
      <3>2. r[i] = Before(s, i, r[k])
        BY <1>7, <2>2
      <3> HIDE DEF k, N
      <3>3. N - k < n
        BY <1>0, <3>1
      <3>4. r[k] \in Reading
        BY <1>10, <3>1, <3>3
      <3> QED
        BY <3>2, <3>4, BeforeTyped DEF N
    <2> QED
      BY <2>1, <2>2
  <1>11. N + 1 \in T
    <2> HIDE DEF T
    <2> QED
      BY <1>0, <1>9, <1>10, Induction
  <1>12. \A i \in S : r[i] \in Reading
    BY <1>0, <1>11
  <1>13. r \in [S -> Reading]
    BY <1>8, <1>12
  <1> QED
    BY <1>7, <1>13 DEF r

-----------------------------------------------------------------------------
\* The inductive invariant: both decoders stand in a token of the grammar.

\* The first six bytes behind at are an accepted header.
Header(s, at) ==
    /\ s[at + 1] = SOF /\ s[at + 2] = VER
    /\ LenAt(s, at) <= GOV_MAX_PAYLOAD

NodeError == {"crc_err", "len_err", "unknown_type"}

\* The firmware's decoder q after n bytes of s, in the token that begins at at.

NodeState == {"HUNT_SOF", "VER", "HDR", "PAYLOAD", "CRC"}
HdrIdx == 0 .. 4
CrcIdx == 0 .. 2
Bytes == Seq(Byte)
NodeStats == [crc_err : Nat, len_err : Nat, unknown_type : Nat]

gov_decoder_t ==
    [state : NodeState, type : Byte, seq : Byte, len : Uint16, payload : Bytes,
     hdr_idx : HdrIdx, crc_idx : CrcIdx, crc_calc : Uint16, crc_rx : Uint16,
     stats : NodeStats]

NodeTyped(q) == q \in gov_decoder_t /\ Len(q.payload) <= GOV_MAX_PAYLOAD

NodeInVer(s, at, n, q) ==
    /\ n = at + 1 /\ s[at + 1] = SOF
    /\ q.crc_calc = GOV_CRC_INIT /\ q.hdr_idx = 0 /\ q.crc_idx = 0
    /\ q.payload = <<>>

NodeInHdr(s, at, n, q) ==
    /\ q.hdr_idx \in 0 .. 3 /\ n = at + 2 + q.hdr_idx
    /\ s[at + 1] = SOF /\ s[at + 2] = VER
    /\ q.crc_calc = gov_crc16_ccitt(GOV_CRC_INIT, Part(s, at + 1, n))
    /\ q.crc_idx = 0 /\ q.payload = <<>>
    /\ q.hdr_idx > 0 => q.type = s[at + 3]
    /\ q.hdr_idx > 1 => q.seq = s[at + 4]
    /\ q.hdr_idx > 2 => q.len = 256 * s[at + 5]

NodeHasHeader(s, at, q) ==
    /\ Header(s, at)
    /\ q.type = s[at + 3] /\ q.seq = s[at + 4] /\ q.len = LenAt(s, at)

NodeInPayload(s, at, n, q) ==
    /\ NodeHasHeader(s, at, q)
    /\ n = at + 6 + Len(q.payload) /\ Len(q.payload) < q.len
    /\ q.payload = Part(s, at + 6, n)
    /\ q.crc_calc = gov_crc16_ccitt(GOV_CRC_INIT, Part(s, at + 1, n))
    /\ q.crc_idx = 0

NodeInCrc(s, at, n, q) ==
    /\ NodeHasHeader(s, at, q)
    /\ q.crc_idx \in 0 .. 1 /\ n = at + 6 + q.len + q.crc_idx
    /\ q.payload = Part(s, at + 6, at + 6 + q.len)
    /\ q.crc_calc = gov_crc16_ccitt(GOV_CRC_INIT, Part(s, at + 1, at + 6 + q.len))
    /\ q.crc_idx = 1 => q.crc_rx = s[n]

NodeAt(s, at, n, q) ==
    /\ NodeTyped(q)
    /\ q.state = "HUNT_SOF" => at = n
    /\ q.state = "VER"      => NodeInVer(s, at, n, q)
    /\ q.state = "HDR"      => NodeInHdr(s, at, n, q)
    /\ q.state = "PAYLOAD"  => NodeInPayload(s, at, n, q)
    /\ q.state = "CRC"      => NodeInCrc(s, at, n, q)

\* The ground station's decoder q.

Empty == <<>>
HostState == {"HUNT_SOF", "GOT_SOF", "HDR", "PAYLOAD", "CRC"}
Hunts == [state : HostState, hdr : Bytes, payload : Bytes, crc : Bytes]
HostStats == [crc_err : Nat, len_err : Nat, unknown_type : Nat, ver_err : Nat]

HostTyped(q) == q \in [hunt : Hunts, stats : HostStats]

HostInHdr(s, at, n, u) ==
    /\ s[at + 1] = SOF /\ s[at + 2] = VER
    /\ n = at + 2 + Len(u.hdr) /\ Len(u.hdr) <= 3
    /\ u.hdr = Part(s, at + 2, n) /\ u.payload = Empty /\ u.crc = Empty

HostInPayload(s, at, n, u) ==
    /\ Header(s, at) /\ u.hdr = Part(s, at + 2, at + 6)
    /\ n = at + 6 + Len(u.payload) /\ Len(u.payload) < LenAt(s, at)
    /\ u.payload = Part(s, at + 6, n) /\ u.crc = Empty

HostInCrc(s, at, n, u) ==
    /\ Header(s, at) /\ u.hdr = Part(s, at + 2, at + 6)
    /\ u.payload = Part(s, at + 6, at + 6 + LenAt(s, at))
    /\ n = at + 6 + LenAt(s, at) + Len(u.crc) /\ Len(u.crc) <= 1 /\ at + 6 <= n
    /\ u.crc = Part(s, at + 6 + LenAt(s, at), n)

HostAt(s, at, n, q) ==
    /\ HostTyped(q)
    /\ q.hunt.state = "HUNT_SOF" => at = n /\ q.hunt = Hunting
    /\ q.hunt.state = "GOT_SOF"  =>
          /\ n = at + 1 /\ s[at + 1] = SOF
          /\ q.hunt = [Hunting EXCEPT !.state = "GOT_SOF"]
    /\ q.hunt.state = "HDR"      => HostInHdr(s, at, n, q.hunt)
    /\ q.hunt.state = "PAYLOAD"  => HostInPayload(s, at, n, q.hunt)
    /\ q.hunt.state = "CRC"      => HostInCrc(s, at, n, q.hunt)

\* What was delivered and counted so far, and what the grammar reads from at on,
\* make what the grammar reads in the whole stream.
Follows(s, at, out, stats, kinds) ==
    LET R == Grammar(s)
    IN  /\ out \in Seq(Frames) /\ out \o R[at].frames = R[0].frames
        /\ \A e \in kinds : stats[e] + R[at].errors[e] = R[0].errors[e]

NodeReads ==
    \E at \in 0 .. pos :
        /\ NodeAt(line.bytes, at, pos, d)
        /\ Follows(line.bytes, at, delivered, d.stats, NodeError)

HostReads ==
    \E at \in 0 .. pos :
        /\ HostAt(line.bytes, at, pos, h)
        /\ Follows(line.bytes, at, received, h.stats, Error)

Inv ==
    /\ line \in Lines /\ pos \in 0 .. Len(line.bytes)
    /\ NodeReads /\ HostReads

-----------------------------------------------------------------------------
\* Reading on.

\* The token at at is complete: what is delivered and counted is what it is.
Advances(s, at, out, st, st2, kinds) ==
    /\ Token(s, at).kind # "end"
    /\ out = IF Token(s, at).kind = "frame" THEN <<FrameAt(s, at)>> ELSE <<>>
    /\ \A e \in kinds :
          st2[e] = IF e = Token(s, at).kind THEN st[e] + 1 ELSE st[e]

LEMMA FollowsOn ==
    ASSUME NEW s \in Seq(Byte), NEW at \in 0 .. Len(s), NEW kinds \in SUBSET Error,
           NEW out, NEW new, NEW st, NEW st2, \A e \in kinds : st[e] \in Nat,
           Follows(s, at, out, st, kinds), Advances(s, at, new, st, st2, kinds)
    PROVE  /\ Token(s, at).next \in 0 .. Len(s)
           /\ Follows(s, Token(s, at).next, out \o new, st2, kinds)
  <1> DEFINE R == Grammar(s)
             k == Token(s, at).next
             kind == Token(s, at).kind
  <1>1. kind # "end" /\ k \in at + 1 .. Len(s)
    BY TokenCases DEF Advances
  <1>2. k \in 0 .. Len(s)
    BY <1>1
  <1>3. R[at] = Before(s, at, R[k]) /\ R[k] \in Reading
    BY <1>1, <1>2, GrammarUnfolds
  <1>4. new \in Seq(Frames)
    <2>1. CASE kind = "frame"
      <3>1. FrameAt(s, at) \in Frames
        BY <2>1, TokenFrame, FrameAtTyped
      <3> QED
        BY <2>1, <3>1 DEF Advances
    <2>2. CASE kind # "frame"
      BY <2>2 DEF Advances
    <2> QED
      BY <2>1, <2>2
  <1>5. R[k].frames \in Seq(Frames) /\ R[k].errors \in [Error -> Nat]
    BY <1>3 DEF Reading
  <1>6. out \in Seq(Frames) /\ out \o R[at].frames = R[0].frames
    BY DEF Follows
  <1>7. R[at].frames = new \o R[k].frames
    <2>1. CASE kind = "frame"
      BY <1>3, <2>1 DEF Before, Advances
    <2>2. CASE kind # "frame"
      <3>1. new = <<>> /\ R[at].frames = R[k].frames
        BY <1>3, <2>2 DEF Before, Advances
      <3> QED
        BY <1>5, <3>1, ConcatEmptySeq
    <2> QED
      BY <2>1, <2>2
  <1>8. \A e \in Error : R[at].errors[e] = IF e = kind THEN R[k].errors[e] + 1
                                           ELSE R[k].errors[e]
    BY <1>3 DEF Before
  <1>9. \A e \in kinds : st[e] + R[at].errors[e] = R[0].errors[e]
    BY DEF Follows
  <1>10. \A e \in kinds : st2[e] = IF e = kind THEN st[e] + 1 ELSE st[e]
    BY DEF Advances
  <1> HIDE DEF R, k, kind
  <1>11. (out \o new) \o R[k].frames = R[0].frames /\ out \o new \in Seq(Frames)
    <2>1. out \o new \in Seq(Frames)
      BY <1>4, <1>6, ConcatProperties
    <2> DEFINE rest == R[k].frames
    <2>2. rest \in Seq(Frames) /\ out \in Seq(Frames)
      BY <1>5, <1>6
    <2> HIDE DEF rest
    <2>3. (out \o new) \o rest = out \o (new \o rest)
      BY <1>4, <2>2, ConcatAssociative
    <2> QED
      BY <1>6, <1>7, <2>1, <2>3 DEF rest
  <1>12. ASSUME NEW e \in kinds
         PROVE  st2[e] + R[k].errors[e] = R[0].errors[e]
    <2>1. e \in Error /\ st[e] \in Nat /\ R[k].errors[e] \in Nat
      BY <1>5
    <2> DEFINE a == R[at].errors[e]
               b == R[k].errors[e]
               c == R[0].errors[e]
    <2>2. /\ a = IF e = kind THEN b + 1 ELSE b
          /\ st[e] + a = c /\ st2[e] = IF e = kind THEN st[e] + 1 ELSE st[e]
      BY <1>8, <1>9, <1>10, <2>1
    <2>3. b \in Nat
      BY <2>1
    <2> HIDE DEF a, b, c
    <2>4. st2[e] + b = c
      BY <2>1, <2>2, <2>3
    <2> QED
      BY <2>4 DEF b, c
  <1> QED
    BY <1>2, <1>11, <1>12 DEF Follows, R, k

\* The tokens, by what stands at i.
LEMMA TokenNoise ==
    ASSUME NEW s, NEW i, Len(s) - i # 0, s[i + 1] # SOF
    PROVE  Token(s, i) = [kind |-> "noise", next |-> i + 1]
  BY DEF Token

LEMMA TokenSofSof ==
    ASSUME NEW s, NEW i, Len(s) - i # 0, Len(s) - i # 1,
           s[i + 1] = SOF, s[i + 2] = SOF
    PROVE  Token(s, i) = [kind |-> "noise", next |-> i + 1]
  BY DEF Token

LEMMA TokenVersion ==
    ASSUME NEW s, NEW i, Len(s) - i # 0, Len(s) - i # 1,
           s[i + 1] = SOF, s[i + 2] # SOF, s[i + 2] # VER
    PROVE  Token(s, i) = [kind |-> "ver_err", next |-> i + 2]
  BY DEF Token

LEMMA TokenLength ==
    ASSUME NEW s, NEW i, Len(s) - i # 0, Len(s) - i # 1, ~(Len(s) - i < 6),
           s[i + 1] = SOF, s[i + 2] = VER, LenAt(s, i) > GOV_MAX_PAYLOAD
    PROVE  Token(s, i) = [kind |-> "len_err", next |-> i + 6]
  <1>1. s[i + 2] # SOF
    BY DEF SOF, VER
  <1> QED
    BY <1>1 DEF Token

LEMMA TokenWhole ==
    ASSUME NEW s, NEW i, Len(s) - i # 0, Len(s) - i # 1, ~(Len(s) - i < 6),
           s[i + 1] = SOF, s[i + 2] = VER, ~(LenAt(s, i) > GOV_MAX_PAYLOAD),
           ~(Len(s) - i < 8 + LenAt(s, i))
    PROVE  Token(s, i) = [kind |-> Verdict(s, i), next |-> i + (8 + LenAt(s, i))]
  <1>1. s[i + 2] # SOF
    BY DEF SOF, VER
  <1> QED
    BY <1>1 DEF Token

LEMMA TokenEnd ==
    ASSUME NEW s, NEW i,
           \/ Len(s) - i = 0
           \/ Len(s) - i = 1 /\ s[i + 1] = SOF
           \/ /\ Len(s) - i < 6 /\ Len(s) - i # 0 /\ Len(s) - i # 1
              /\ s[i + 1] = SOF /\ s[i + 2] = VER
           \/ /\ Len(s) - i # 0 /\ Len(s) - i # 1 /\ Len(s) - i < 8 + LenAt(s, i)
              /\ s[i + 1] = SOF /\ s[i + 2] = VER /\ ~(LenAt(s, i) > GOV_MAX_PAYLOAD)
    PROVE  Token(s, i).kind = "end"
  <1>1. SOF # VER /\ 1 # 0
    BY DEF SOF, VER
  <1>2. CASE Len(s) - i = 0
    BY <1>2 DEF Token
  <1>3. CASE Len(s) - i = 1 /\ s[i + 1] = SOF
    BY <1>1, <1>3 DEF Token
  <1>4. CASE /\ Len(s) - i < 6 /\ Len(s) - i # 0 /\ Len(s) - i # 1
             /\ s[i + 1] = SOF /\ s[i + 2] = VER
    BY <1>1, <1>4 DEF Token
  <1>5. CASE /\ Len(s) - i # 0 /\ Len(s) - i # 1 /\ Len(s) - i < 8 + LenAt(s, i)
             /\ s[i + 1] = SOF /\ s[i + 2] = VER /\ ~(LenAt(s, i) > GOV_MAX_PAYLOAD)
    BY <1>1, <1>5 DEF Token
  <1> QED
    BY <1>2, <1>3, <1>4, <1>5

-----------------------------------------------------------------------------
\* One byte into the firmware's decoder.

\* It goes on inside the token, or completes it.
NodeGoes(s, at, n, q) ==
    LET q2 == gov_decoder_push(q, s[n + 1])
        out == Deliveries(q, s[n + 1])
    IN  \/ NodeAt(s, at, n + 1, q2) /\ out = <<>> /\ q2.stats = q.stats
        \/ /\ NodeAt(s, Token(s, at).next, n + 1, q2)
           /\ Advances(s, at, out, q.stats, q2.stats, NodeError)

LEMMA NoDelivery ==
    ASSUME NEW q, NEW b, q.state # "CRC"
    PROVE  Deliveries(q, b) = <<>>
  BY DEF Deliveries, Complete

\* The counters after a token that is no frame, and none of the node's errors.
LEMMA NodeUncounted ==
    ASSUME NEW s, NEW at, NEW st, NEW k, Token(s, at).kind \in {"noise", "ver_err"}
    PROVE  Advances(s, at, <<>>, st, st, NodeError)
  BY DEF Advances, NodeError

\* An assignment to the fields start_frame resets keeps the decoder typed.
Assign(q, crc_calc, hdr_idx, payload, crc_idx, crc_rx, len, state) ==
    [q EXCEPT !.crc_calc = crc_calc, !.hdr_idx = hdr_idx, !.payload = payload,
              !.crc_idx = crc_idx, !.crc_rx = crc_rx, !.len = len, !.state = state]

LEMMA Assigned ==
    ASSUME NEW q \in gov_decoder_t, NEW crc_calc \in Uint16, NEW hdr_idx \in HdrIdx,
           NEW payload \in Bytes, NEW crc_idx \in CrcIdx, NEW crc_rx \in Uint16,
           NEW len \in Uint16, NEW state \in NodeState,
           NEW q2, q2 = Assign(q, crc_calc, hdr_idx, payload, crc_idx, crc_rx, len, state)
    PROVE  /\ q2 \in gov_decoder_t /\ q2.stats = q.stats
           /\ q2.payload = payload /\ q2.state = state /\ q2.crc_calc = crc_calc
           /\ q2.hdr_idx = hdr_idx /\ q2.crc_idx = crc_idx
  BY DEF gov_decoder_t, Assign

LEMMA StartFrame ==
    ASSUME NEW q, NodeTyped(q), NEW q2, q2 = start_frame(q)
    PROVE  /\ NodeTyped(q2) /\ q2.state = "VER" /\ q2.stats = q.stats
           /\ q2.crc_calc = GOV_CRC_INIT /\ q2.hdr_idx = 0 /\ q2.crc_idx = 0
           /\ q2.payload = <<>>
  <1>1. GOV_CRC_INIT \in Uint16 /\ 0 \in Uint16
    BY DEF Uint16, GOV_CRC_INIT
  <1>2. <<>> \in Bytes /\ Len(<<>>) <= GOV_MAX_PAYLOAD
    BY FrameAssumption DEF Bytes
  <1>3. 0 \in HdrIdx /\ 0 \in CrcIdx /\ "VER" \in NodeState
    BY DEF HdrIdx, CrcIdx, NodeState
  <1>4. q2 = Assign(q, GOV_CRC_INIT, 0, <<>>, 0, 0, 0, "VER")
    BY DEF start_frame, Assign
  <1>5. q \in gov_decoder_t
    BY DEF NodeTyped
  <1>6. /\ q2 \in gov_decoder_t
        /\ q2.payload = <<>> /\ q2.state = "VER" /\ q2.stats = q.stats
        /\ q2.crc_calc = GOV_CRC_INIT /\ q2.hdr_idx = 0 /\ q2.crc_idx = 0
    BY <1>1, <1>2, <1>3, <1>4, <1>5, Assigned
  <1> QED
    BY <1>2, <1>6 DEF NodeTyped

LEMMA NodeHunt ==
    ASSUME NEW s \in Seq(Byte), NEW n \in Nat, n < Len(s), NEW at \in 0 .. n,
           NEW q, NodeAt(s, at, n, q), q.state = "HUNT_SOF"
    PROVE  NodeGoes(s, at, n, q)
  <1> DEFINE b == s[n + 1]
             q2 == gov_decoder_push(q, b)
  <1>0. NodeTyped(q) /\ at = n
    BY DEF NodeAt
  <1>1. Deliveries(q, b) = <<>>
    BY NoDelivery
  <1>2. CASE b # SOF
    <2>1. q2 = q
      BY <1>2 DEF gov_decoder_push
    <2>2. Len(s) - n # 0
      OBVIOUS
    <2>3. Token(s, n) = [kind |-> "noise", next |-> n + 1]
      BY <1>2, <2>2, TokenNoise
    <2>4. Token(s, n).kind \in {"noise", "ver_err"} /\ Token(s, n).next = n + 1
      BY <2>3
    <2>5. NodeAt(s, n + 1, n + 1, q)
      BY <1>0 DEF NodeAt
    <2>6. Advances(s, n, <<>>, q.stats, q.stats, NodeError)
      BY <2>4, NodeUncounted
    <2> QED
      BY <1>0, <1>1, <2>1, <2>4, <2>5, <2>6 DEF NodeGoes
  <1>3. CASE b = SOF
    <2>1. q2 = start_frame(q)
      BY <1>3 DEF gov_decoder_push
    <2>2. /\ NodeTyped(q2) /\ q2.state = "VER" /\ q2.stats = q.stats
          /\ q2.crc_calc = GOV_CRC_INIT /\ q2.hdr_idx = 0 /\ q2.crc_idx = 0
          /\ q2.payload = <<>>
      BY <1>0, <2>1, StartFrame
    <2> HIDE DEF q2
    <2>3. NodeAt(s, n, n + 1, q2)
      BY <1>3, <2>2 DEF NodeAt, NodeInVer
    <2> QED
      BY <1>0, <1>1, <2>2, <2>3 DEF NodeGoes, q2
  <1> QED
    BY <1>2, <1>3

LEMMA NodeVer ==
    ASSUME NEW s \in Seq(Byte), NEW n \in Nat, n < Len(s), NEW at \in 0 .. n,
           NEW q, NodeAt(s, at, n, q), q.state = "VER"
    PROVE  NodeGoes(s, at, n, q)
  <1> DEFINE b == s[n + 1]
             q2 == gov_decoder_push(q, b)
  <1>0. NodeTyped(q) /\ NodeInVer(s, at, n, q)
    BY DEF NodeAt
  <1>1. Deliveries(q, b) = <<>>
    BY NoDelivery
  <1>2. n = at + 1 /\ s[at + 1] = SOF /\ b = s[at + 2] /\ q2 = OnVer(q, b)
    <2>1. n = at + 1 /\ s[at + 1] = SOF
      BY <1>0 DEF NodeInVer
    <2>2. n + 1 = at + 2
      BY <2>1
    <2> QED
      BY <2>1, <2>2 DEF gov_decoder_push
  <1>3. Len(s) - at # 0 /\ Len(s) - at # 1
    <2>1. Len(s) \in Nat /\ at \in Nat /\ at + 1 < Len(s)
      BY <1>2
    <2> QED
      BY <2>1
  <1>4. CASE b = VER
    <2>0. b # SOF
      BY <1>4 DEF SOF, VER
    <2>1. q2 = [q EXCEPT !.crc_calc = CrcByte(@, b), !.state = "HDR"]
      BY <1>2, <1>4, <2>0 DEF OnVer
    <2>2. CrcByte(q.crc_calc, b) \in Uint16
      BY CrcByteTyped
    <2>3. NodeTyped(q2)
      <3>1. "HDR" \in NodeState
        BY DEF NodeState
      <3>2. q2 \in gov_decoder_t /\ q2.payload = q.payload
        BY <1>0, <2>1, <2>2, <3>1 DEF NodeTyped, gov_decoder_t
      <3> QED
        BY <1>0, <3>2 DEF NodeTyped
    <2>4. /\ q2.state = "HDR" /\ q2.crc_calc = CrcByte(q.crc_calc, b)
          /\ q2.hdr_idx = q.hdr_idx /\ q2.crc_idx = q.crc_idx
          /\ q2.payload = q.payload /\ q2.stats = q.stats
      BY <1>0, <2>1 DEF NodeTyped, gov_decoder_t
    <2>5. q2.crc_calc = gov_crc16_ccitt(GOV_CRC_INIT, Part(s, at + 1, n + 1))
      <3>1. Part(s, n, n + 1) = <<b>>
        BY PartOne
      <3>2. <<b>> = Append(<<>>, b) /\ b \in Byte /\ <<>> \in Seq(Byte)
        BY ByteOf
      <3>3. GOV_CRC_INIT \in Uint16
        BY DEF Uint16, GOV_CRC_INIT
      <3> HIDE DEF b
      <3>4. gov_crc16_ccitt(GOV_CRC_INIT, Append(<<>>, b)) =
              CrcByte(gov_crc16_ccitt(GOV_CRC_INIT, <<>>), b)
        <4> DEFINE e == <<>>
        <4>1. e \in Seq(Byte)
          OBVIOUS
        <4> HIDE DEF e
        <4>2. gov_crc16_ccitt(GOV_CRC_INIT, Append(e, b)) = CrcByte(gov_crc16_ccitt(GOV_CRC_INIT, e), b)
          BY <3>2, <3>3, <4>1, CrcAppend
        <4> QED
          BY <4>2 DEF e
      <3>5. gov_crc16_ccitt(GOV_CRC_INIT, <<>>) = GOV_CRC_INIT
        BY <3>3, CrcEmpty
      <3>6. q.crc_calc = GOV_CRC_INIT
        BY <1>0 DEF NodeInVer
      <3> QED
        BY <1>2, <2>4, <3>1, <3>2, <3>4, <3>5, <3>6 DEF b
    <2>6. NodeInHdr(s, at, n + 1, q2)
      <3>1. q2.hdr_idx = 0 /\ q2.crc_idx = 0 /\ q2.payload = <<>>
        BY <1>0, <2>4 DEF NodeInVer
      <3>2. n + 1 = at + 2 + 0 /\ 0 \in 0 .. 3 /\ ~(0 > 0) /\ ~(0 > 1) /\ ~(0 > 2)
        BY <1>2
      <3> HIDE DEF q2
      <3> QED
        BY <1>2, <1>4, <2>5, <3>1, <3>2 DEF NodeInHdr
    <2> HIDE DEF q2
    <2>7. NodeAt(s, at, n + 1, q2)
      BY <2>3, <2>4, <2>6 DEF NodeAt
    <2> QED
      BY <1>1, <2>4, <2>7 DEF NodeGoes, q2
  <1>5. CASE b = SOF
    <2>0. b # VER
      BY <1>5 DEF SOF, VER
    <2>1. q2 = start_frame(q)
      BY <1>2, <1>5, <2>0 DEF OnVer
    <2>2. /\ NodeTyped(q2) /\ q2.state = "VER" /\ q2.stats = q.stats
          /\ q2.crc_calc = GOV_CRC_INIT /\ q2.hdr_idx = 0 /\ q2.crc_idx = 0
          /\ q2.payload = <<>>
      BY <1>0, <2>1, StartFrame
    <2>3. Token(s, at) = [kind |-> "noise", next |-> at + 1]
      BY <1>2, <1>3, <1>5, TokenSofSof
    <2>4. Token(s, at).kind \in {"noise", "ver_err"} /\ Token(s, at).next = n
      BY <1>2, <2>3
    <2> HIDE DEF q2
    <2>5. NodeAt(s, n, n + 1, q2)
      BY <1>5, <2>2 DEF NodeAt, NodeInVer
    <2>6. Advances(s, at, <<>>, q.stats, q.stats, NodeError)
      BY <2>4, NodeUncounted
    <2> QED
      BY <1>1, <2>2, <2>4, <2>5, <2>6 DEF NodeGoes, q2
  <1>6. CASE b # VER /\ b # SOF
    <2>1. q2 = [q EXCEPT !.state = "HUNT_SOF"]
      BY <1>2, <1>6 DEF OnVer
    <2>2. NodeTyped(q2) /\ q2.state = "HUNT_SOF" /\ q2.stats = q.stats
      <3>1. "HUNT_SOF" \in NodeState
        BY DEF NodeState
      <3> QED
        BY <1>0, <2>1, <3>1 DEF NodeTyped, gov_decoder_t
    <2>3. Token(s, at) = [kind |-> "ver_err", next |-> at + 2]
      BY <1>2, <1>3, <1>6, TokenVersion
    <2>4. Token(s, at).kind \in {"noise", "ver_err"} /\ Token(s, at).next = n + 1
      BY <1>2, <2>3
    <2> HIDE DEF q2
    <2>5. NodeAt(s, n + 1, n + 1, q2)
      BY <2>2 DEF NodeAt
    <2>6. Advances(s, at, <<>>, q.stats, q.stats, NodeError)
      BY <2>4, NodeUncounted
    <2> QED
      BY <1>1, <2>2, <2>4, <2>5, <2>6 DEF NodeGoes, q2
  <1> QED
    BY <1>4, <1>5, <1>6

\* The register after one more byte.
LEMMA CrcGrows ==
    ASSUME NEW s \in Seq(Byte), NEW a \in Nat, NEW n \in Nat, a <= n, n < Len(s)
    PROVE  CrcByte(gov_crc16_ccitt(GOV_CRC_INIT, Part(s, a, n)), s[n + 1]) =
              gov_crc16_ccitt(GOV_CRC_INIT, Part(s, a, n + 1))
  <1>1. Part(s, a, n + 1) = Append(Part(s, a, n), s[n + 1])
    BY PartGrows
  <1>2. s[n + 1] \in Byte
    BY ByteOf
  <1>3. Part(s, a, n) \in Seq(Byte)
    <2>1. n <= Len(s)
      OBVIOUS
    <2> QED
      BY <2>1, PartTyped
  <1>4. GOV_CRC_INIT \in Uint16
    BY DEF Uint16, GOV_CRC_INIT
  <1> QED
    BY <1>1, <1>2, <1>3, <1>4, CrcAppend

\* The fields after a header byte.
Fed(q, b) == [q EXCEPT !.crc_calc = CrcByte(@, b), !.hdr_idx = @ + 1]
WithLenHigh(q, l) == [q EXCEPT !.len = l]
WithLen(q, l, st) == [q EXCEPT !.len = l, !.state = st]
WithLenErr(q, l) == [q EXCEPT !.len = l, !.stats.len_err = @ + 1, !.state = "HUNT_SOF"]

LEMMA HdrFed ==
    ASSUME NEW q \in gov_decoder_t, NEW b \in Byte, NEW f,
           q.hdr_idx + 1 \in HdrIdx,
           f = Fed(q, b)
    PROVE  /\ f \in gov_decoder_t
           /\ f.crc_calc = CrcByte(q.crc_calc, b) /\ f.hdr_idx = q.hdr_idx + 1
           /\ f.state = q.state /\ f.type = q.type /\ f.seq = q.seq /\ f.len = q.len
           /\ f.payload = q.payload /\ f.crc_idx = q.crc_idx /\ f.stats = q.stats
  <1>1. CrcByte(q.crc_calc, b) \in Uint16
    BY CrcByteTyped
  <1> QED
    BY <1>1 DEF gov_decoder_t, Fed

LEMMA SetType ==
    ASSUME NEW f \in gov_decoder_t, NEW b \in Byte, NEW q2, q2 = [f EXCEPT !.type = b]
    PROVE  /\ q2 \in gov_decoder_t /\ q2.type = b
           /\ q2.crc_calc = f.crc_calc /\ q2.hdr_idx = f.hdr_idx /\ q2.state = f.state
           /\ q2.payload = f.payload /\ q2.crc_idx = f.crc_idx /\ q2.stats = f.stats
  BY DEF gov_decoder_t

LEMMA SetSeq ==
    ASSUME NEW f \in gov_decoder_t, NEW b \in Byte, NEW q2, q2 = [f EXCEPT !.seq = b]
    PROVE  /\ q2 \in gov_decoder_t /\ q2.seq = b /\ q2.type = f.type
           /\ q2.crc_calc = f.crc_calc /\ q2.hdr_idx = f.hdr_idx /\ q2.state = f.state
           /\ q2.payload = f.payload /\ q2.crc_idx = f.crc_idx /\ q2.stats = f.stats
  BY DEF gov_decoder_t

LEMMA SetLen ==
    ASSUME NEW f \in gov_decoder_t, NEW l \in Uint16, NEW st \in NodeState, NEW q2,
           q2 = WithLen(f, l, st)
    PROVE  /\ q2 \in gov_decoder_t /\ q2.len = l /\ q2.state = st
           /\ q2.type = f.type /\ q2.seq = f.seq
           /\ q2.crc_calc = f.crc_calc /\ q2.hdr_idx = f.hdr_idx
           /\ q2.payload = f.payload /\ q2.crc_idx = f.crc_idx /\ q2.stats = f.stats
  BY DEF gov_decoder_t, WithLen

LEMMA SetLenHigh ==
    ASSUME NEW f \in gov_decoder_t, NEW l \in Uint16, NEW q2, q2 = WithLenHigh(f, l)
    PROVE  /\ q2 \in gov_decoder_t /\ q2.len = l /\ q2.state = f.state
           /\ q2.type = f.type /\ q2.seq = f.seq
           /\ q2.crc_calc = f.crc_calc /\ q2.hdr_idx = f.hdr_idx
           /\ q2.payload = f.payload /\ q2.crc_idx = f.crc_idx /\ q2.stats = f.stats
  BY DEF gov_decoder_t, WithLenHigh

LEMMA CountLen ==
    ASSUME NEW f \in gov_decoder_t, NEW l \in Uint16, NEW q2,
           q2 = WithLenErr(f, l)
    PROVE  /\ q2 \in gov_decoder_t /\ q2.state = "HUNT_SOF" /\ q2.payload = f.payload
           /\ q2.stats = [f.stats EXCEPT !.len_err = @ + 1]
  <1>1. f.stats \in NodeStats
    BY DEF gov_decoder_t
  <1> DEFINE st == [f.stats EXCEPT !.len_err = @ + 1]
  <1>2. st \in NodeStats
    BY <1>1 DEF NodeStats
  <1>3. q2 = [f EXCEPT !.len = l, !.stats = st, !.state = "HUNT_SOF"]
    BY DEF gov_decoder_t, WithLenErr
  <1>4. "HUNT_SOF" \in NodeState
    BY DEF NodeState
  <1>5. q2.stats = st /\ q2.state = "HUNT_SOF" /\ q2.payload = f.payload
    BY DEF gov_decoder_t, WithLenErr
  <1> HIDE DEF st
  <1>6. q2 \in gov_decoder_t
    BY <1>2, <1>3, <1>4 DEF gov_decoder_t
  <1> QED
    BY <1>5, <1>6 DEF st

\* The counters after a length error.
LEMMA NodeCountsLen ==
    ASSUME NEW s, NEW at, NEW st \in NodeStats, NEW st2,
           st2 = [st EXCEPT !.len_err = @ + 1], Token(s, at).kind = "len_err"
    PROVE  Advances(s, at, <<>>, st, st2, NodeError)
  <1>1. \A e \in NodeError : st2[e] = IF e = "len_err" THEN st[e] + 1 ELSE st[e]
    BY DEF NodeStats, NodeError
  <1> QED
    BY <1>1 DEF Advances

\* A position inside the stream, as numbers.
LEMMA Room ==
    ASSUME NEW s \in Seq(Byte), NEW n \in Nat, n < Len(s), NEW at \in Nat,
           NEW k \in Nat, n = at + k, k > 0
    PROVE  /\ Len(s) \in Nat /\ Len(s) - at # 0 /\ Len(s) - at # 1
           /\ Len(s) - at > k
  OBVIOUS

\* The places of the CRC of a frame with len payload bytes at at.
CrcPlace(at, len, a) ==
    /\ a \in Nat /\ at + 8 + len \in Nat /\ a <= at + 8 + len
    /\ (at + 8 + len) - a = 2 /\ a + 1 = at + 7 + len /\ a + 2 = at + 8 + len

LEMMA CrcPlaces ==
    ASSUME NEW at \in Nat, NEW len \in Nat
    PROVE  CrcPlace(at, len, at + 6 + len)
  BY DEF CrcPlace

LEMMA CrcFits ==
    ASSUME NEW at \in Nat, NEW len \in Nat, NEW z \in Nat, at + 8 + len <= z
    PROVE  z - at # 0 /\ z - at # 1 /\ ~(z - at < 6) /\ ~(z - at < 8 + len)
  OBVIOUS

LEMMA CrcShort ==
    ASSUME NEW len \in Nat, NEW idx \in 0 .. 1, NEW left, left = 6 + len + idx
    PROVE  left # 0 /\ left # 1 /\ left < 8 + len
  OBVIOUS

LEMMA Previous ==
    ASSUME NEW n \in Nat, NEW z \in Nat, n < z, n # 0
    PROVE  n - 1 \in Nat /\ n - 1 < z /\ (n - 1) + 1 = n
  OBVIOUS

LEMMA NodeHdr ==
    ASSUME NEW s \in Seq(Byte), NEW n \in Nat, n < Len(s), NEW at \in 0 .. n,
           NEW q, NodeAt(s, at, n, q), q.state = "HDR"
    PROVE  NodeGoes(s, at, n, q)
  <1> DEFINE b == s[n + 1]
             q2 == gov_decoder_push(q, b)
             f == Fed(q, b)
             k == q.hdr_idx
  <1>0. NodeTyped(q) /\ NodeInHdr(s, at, n, q) /\ q \in gov_decoder_t
    BY DEF NodeAt, NodeTyped
  <1>1. Deliveries(q, b) = <<>>
    BY NoDelivery
  <1>2. q2 = OnHdr(q, b)
    BY DEF gov_decoder_push
  <1>3. b \in Byte
    BY ByteOf
  <1>4. /\ k \in 0 .. 3 /\ n = at + 2 + k /\ s[at + 1] = SOF /\ s[at + 2] = VER
        /\ q.crc_calc = gov_crc16_ccitt(GOV_CRC_INIT, Part(s, at + 1, n))
        /\ q.crc_idx = 0 /\ q.payload = <<>>
        /\ k > 0 => q.type = s[at + 3]
        /\ k > 1 => q.seq = s[at + 4]
        /\ k > 2 => q.len = 256 * s[at + 5]
    BY <1>0 DEF NodeInHdr
  <1>5. at \in Nat /\ at + 1 \in Nat /\ at + 1 <= n
    BY <1>4
  <1>6. CrcByte(q.crc_calc, b) = gov_crc16_ccitt(GOV_CRC_INIT, Part(s, at + 1, n + 1))
    BY <1>4, <1>5, CrcGrows
  <1>7. k + 1 \in HdrIdx
    BY <1>4 DEF HdrIdx
  <1>8. /\ f \in gov_decoder_t
        /\ f.crc_calc = gov_crc16_ccitt(GOV_CRC_INIT, Part(s, at + 1, n + 1))
        /\ f.hdr_idx = k + 1
        /\ f.state = "HDR" /\ f.type = q.type /\ f.seq = q.seq /\ f.len = q.len
        /\ f.payload = <<>> /\ f.crc_idx = 0 /\ f.stats = q.stats
    BY <1>0, <1>3, <1>4, <1>6, <1>7, HdrFed
  <1>9. Len(<<>>) <= GOV_MAX_PAYLOAD
    BY FrameAssumption
  <1> DEFINE cs == gov_crc16_ccitt(GOV_CRC_INIT, Part(s, at + 1, n + 1))
  <1>10. CASE k = 0
    <2>1. q2 = [f EXCEPT !.type = b]
      BY <1>2, <1>10 DEF OnHdr, Fed
    <2>2. n + 1 = at + 3 /\ n + 1 = at + 2 + 1 /\ b = s[at + 3]
      BY <1>4, <1>5, <1>10
    <2> HIDE DEF f, q2
    <2>3. /\ q2 \in gov_decoder_t /\ q2.type = b /\ q2.crc_calc = cs /\ q2.hdr_idx = 1
          /\ q2.state = "HDR" /\ q2.payload = <<>> /\ q2.crc_idx = 0
          /\ q2.stats = q.stats
      BY <1>3, <1>8, <1>10, <2>1, SetType
    <2>4. NodeInHdr(s, at, n + 1, q2)
      BY <1>4, <2>2, <2>3 DEF NodeInHdr
    <2>5. NodeAt(s, at, n + 1, q2)
      BY <1>9, <2>3, <2>4 DEF NodeAt, NodeTyped
    <2> QED
      BY <1>1, <2>3, <2>5 DEF NodeGoes, q2
  <1>11. CASE k = 1
    <2>1. q2 = [f EXCEPT !.seq = b]
      BY <1>2, <1>11 DEF OnHdr, Fed
    <2>2. n + 1 = at + 4 /\ n + 1 = at + 2 + 2 /\ b = s[at + 4] /\ q.type = s[at + 3]
      BY <1>4, <1>5, <1>11
    <2> HIDE DEF f, q2
    <2>3. /\ q2 \in gov_decoder_t /\ q2.seq = b /\ q2.type = q.type
          /\ q2.crc_calc = cs /\ q2.hdr_idx = 2
          /\ q2.state = "HDR" /\ q2.payload = <<>> /\ q2.crc_idx = 0
          /\ q2.stats = q.stats
      BY <1>3, <1>8, <1>11, <2>1, SetSeq
    <2>4. NodeInHdr(s, at, n + 1, q2)
      BY <1>4, <2>2, <2>3 DEF NodeInHdr
    <2>5. NodeAt(s, at, n + 1, q2)
      BY <1>9, <2>3, <2>4 DEF NodeAt, NodeTyped
    <2> QED
      BY <1>1, <2>3, <2>5 DEF NodeGoes, q2
  <1>12. CASE k = 2
    <2>1. q2 = WithLenHigh(f, 256 * b)
      BY <1>2, <1>12 DEF OnHdr, Fed, WithLenHigh
    <2>2. /\ n + 1 = at + 5 /\ n + 1 = at + 2 + 3 /\ b = s[at + 5]
          /\ q.type = s[at + 3] /\ q.seq = s[at + 4]
      BY <1>4, <1>5, <1>12
    <2>3. 256 * b \in Uint16
      BY <1>3, ByteRange DEF Uint16
    <2> HIDE DEF f, q2
    <2>4. /\ q2 \in gov_decoder_t /\ q2.len = 256 * b /\ q2.seq = q.seq
          /\ q2.type = q.type /\ q2.crc_calc = cs /\ q2.hdr_idx = 3
          /\ q2.state = "HDR" /\ q2.payload = <<>> /\ q2.crc_idx = 0
          /\ q2.stats = q.stats
      BY <1>8, <1>12, <2>1, <2>3, SetLenHigh
    <2>5. NodeInHdr(s, at, n + 1, q2)
      BY <1>4, <2>2, <2>4 DEF NodeInHdr
    <2>6. NodeAt(s, at, n + 1, q2)
      BY <1>9, <2>4, <2>5 DEF NodeAt, NodeTyped
    <2> QED
      BY <1>1, <2>4, <2>6 DEF NodeGoes, q2
  <1>13. CASE k = 3
    <2> DEFINE len == q.len + b
    <2>1. /\ n + 1 = at + 6 /\ n = at + 5 /\ b = s[at + 6]
          /\ q.type = s[at + 3] /\ q.seq = s[at + 4] /\ q.len = 256 * s[at + 5]
      BY <1>4, <1>5, <1>13
    <2>2. len = LenAt(s, at)
      BY <2>1 DEF LenAt
    <2>3. len \in Uint16
      <3>1. at + 4 \in Nat /\ at + 4 < Len(s) /\ (at + 4) + 1 = at + 5
        BY <1>5, <2>1
      <3>2. s[at + 5] \in Byte
        BY <3>1, ByteOf
      <3> QED
        BY <1>3, <2>1, <3>2, WordRange
    <2>4. /\ Len(s) - at # 0 /\ Len(s) - at # 1 /\ ~(Len(s) - at < 6)
      BY <1>5, <2>1
    <2>5. CASE LenTooLong(len)
      <3>1. q2 = WithLenErr(f, len)
        BY <1>2, <1>13, <2>5 DEF OnHdr, Fed, WithLenErr
      <3>2. Token(s, at) = [kind |-> "len_err", next |-> at + 6]
        BY <1>4, <2>2, <2>4, <2>5, TokenLength DEF LenTooLong
      <3>3. Token(s, at).kind = "len_err" /\ Token(s, at).next = n + 1
        BY <2>1, <3>2
      <3> HIDE DEF f, q2, len
      <3>4. /\ q2 \in gov_decoder_t /\ q2.state = "HUNT_SOF" /\ q2.payload = <<>>
            /\ q2.stats = [q.stats EXCEPT !.len_err = @ + 1]
        BY <1>8, <2>3, <3>1, CountLen
      <3>5. q.stats \in NodeStats
        BY <1>0 DEF gov_decoder_t
      <3>6. Advances(s, at, <<>>, q.stats, q2.stats, NodeError)
        BY <3>3, <3>4, <3>5, NodeCountsLen
      <3>7. NodeAt(s, n + 1, n + 1, q2)
        BY <1>9, <3>4 DEF NodeAt, NodeTyped
      <3> QED
        BY <1>1, <3>3, <3>6, <3>7 DEF NodeGoes, q2
    <2>6. CASE ~LenTooLong(len)
      <3> DEFINE st == IF len = 0 THEN "CRC" ELSE "PAYLOAD"
      <3>1. q2 = WithLen(f, len, st)
        BY <1>2, <1>13, <2>6 DEF OnHdr, Fed, WithLen
      <3>2. st \in NodeState
        BY DEF NodeState
      <3> HIDE DEF f, q2, len, st
      <3>3. /\ q2 \in gov_decoder_t /\ q2.len = len /\ q2.state = st
            /\ q2.type = q.type /\ q2.seq = q.seq /\ q2.crc_calc = cs
            /\ q2.payload = <<>> /\ q2.crc_idx = 0 /\ q2.stats = q.stats
        BY <1>8, <2>3, <3>1, <3>2, SetLen
      <3>4. len \in Nat /\ len <= GOV_MAX_PAYLOAD
        BY <2>3, <2>6, FrameAssumption DEF Uint16, LenTooLong
      <3>5. NodeHasHeader(s, at, q2)
        BY <1>4, <2>1, <2>2, <3>3, <3>4 DEF NodeHasHeader, Header
      <3>6. Part(s, at + 6, at + 6) = <<>>
        <4>1. at + 6 \in Nat /\ at + 6 <= Len(s)
          BY <1>5, <2>1
        <4> QED
          BY <4>1, PartEmpty
      <3>7. ASSUME len = 0 PROVE NodeAt(s, at, n + 1, q2)
        <4>1. q2.state = "CRC"
          BY <3>3, <3>7 DEF st
        <4>2. q2.len = 0 /\ at + 6 + 0 = at + 6 /\ n + 1 = at + 6 + 0 + 0
          BY <1>5, <2>1, <3>3, <3>7
        <4>3. NodeInCrc(s, at, n + 1, q2)
          BY <2>1, <3>3, <3>5, <3>6, <4>2 DEF NodeInCrc
        <4> QED
          BY <1>9, <3>3, <4>1, <4>3 DEF NodeAt, NodeTyped
      <3>8. ASSUME len # 0 PROVE NodeAt(s, at, n + 1, q2)
        <4>1. q2.state = "PAYLOAD"
          BY <3>3, <3>8 DEF st
        <4>2. Len(<<>>) < q2.len /\ n + 1 = at + 6 + Len(<<>>)
          BY <1>5, <2>1, <3>3, <3>4, <3>8
        <4>3. NodeInPayload(s, at, n + 1, q2)
          BY <2>1, <3>3, <3>5, <3>6, <4>2 DEF NodeInPayload
        <4> QED
          BY <1>9, <3>3, <4>1, <4>3 DEF NodeAt, NodeTyped
      <3>9. NodeAt(s, at, n + 1, q2)
        BY <3>7, <3>8
      <3> QED
        BY <1>1, <3>3, <3>9 DEF NodeGoes, q2
    <2> QED
      BY <2>5, <2>6
  <1>14. k = 0 \/ k = 1 \/ k = 2 \/ k = 3
    BY <1>4
  <1> QED
    BY <1>10, <1>11, <1>12, <1>13, <1>14

\* The fields after a payload byte.
WithPayload(q, b, st) ==
    [q EXCEPT !.crc_calc = CrcByte(@, b), !.payload = Append(@, b), !.state = st]

LEMMA PayloadFed ==
    ASSUME NEW q \in gov_decoder_t, NEW b \in Byte, NEW st \in NodeState, NEW q2,
           q2 = WithPayload(q, b, st)
    PROVE  /\ q2 \in gov_decoder_t
           /\ q2.crc_calc = CrcByte(q.crc_calc, b) /\ q2.payload = Append(q.payload, b)
           /\ q2.state = st /\ q2.type = q.type /\ q2.seq = q.seq /\ q2.len = q.len
           /\ q2.crc_idx = q.crc_idx /\ q2.stats = q.stats
  <1> DEFINE c == CrcByte(q.crc_calc, b)
             p == Append(q.payload, b)
  <1>1. c \in Uint16
    BY CrcByteTyped
  <1>2. q.payload \in Seq(Byte)
    BY DEF gov_decoder_t, Bytes
  <1>3. p \in Bytes
    BY <1>2 DEF Bytes
  <1>4. q2 = [q EXCEPT !.crc_calc = c, !.payload = p, !.state = st]
    BY DEF WithPayload
  <1> HIDE DEF c, p
  <1>5. /\ q2 \in gov_decoder_t /\ q2.crc_calc = c /\ q2.payload = p
        /\ q2.state = st /\ q2.type = q.type /\ q2.seq = q.seq /\ q2.len = q.len
        /\ q2.crc_idx = q.crc_idx /\ q2.stats = q.stats
    BY <1>1, <1>3, <1>4 DEF gov_decoder_t
  <1> QED
    BY <1>5 DEF c, p

LEMMA NodePayload ==
    ASSUME NEW s \in Seq(Byte), NEW n \in Nat, n < Len(s), NEW at \in 0 .. n,
           NEW q, NodeAt(s, at, n, q), q.state = "PAYLOAD"
    PROVE  NodeGoes(s, at, n, q)
  <1> DEFINE b == s[n + 1]
             q2 == gov_decoder_push(q, b)
             L == Len(q.payload)
             st == IF L + 1 >= q.len THEN "CRC" ELSE "PAYLOAD"
  <1>0. NodeTyped(q) /\ NodeInPayload(s, at, n, q) /\ q \in gov_decoder_t
    BY DEF NodeAt, NodeTyped
  <1>1. Deliveries(q, b) = <<>>
    BY NoDelivery
  <1>2. q2 = WithPayload(q, b, st)
    BY DEF gov_decoder_push, OnPayload, WithPayload
  <1>3. b \in Byte
    BY ByteOf
  <1>4. /\ NodeHasHeader(s, at, q) /\ q.crc_idx = 0
        /\ q.payload = Part(s, at + 6, n)
        /\ q.crc_calc = gov_crc16_ccitt(GOV_CRC_INIT, Part(s, at + 1, n))
    BY <1>0 DEF NodeInPayload
  <1>5. /\ L \in Nat /\ q.len \in Nat /\ n = at + 6 + L /\ L < q.len
    BY <1>0 DEF gov_decoder_t, Bytes, Uint16, NodeInPayload
  <1>10. q.payload \in Seq(Byte)
    BY <1>0 DEF gov_decoder_t, Bytes
  <1>11. Len(Append(q.payload, b)) = L + 1
    BY <1>3, <1>10
  <1>9. st \in NodeState
    BY DEF NodeState
  <1> HIDE DEF q2, st, L
  <1>6. /\ at \in Nat /\ at + 1 \in Nat /\ at + 1 <= n /\ at + 6 \in Nat /\ at + 6 <= n
    BY <1>5
  <1>7. CrcByte(q.crc_calc, b) = gov_crc16_ccitt(GOV_CRC_INIT, Part(s, at + 1, n + 1))
    <2>1. CrcByte(gov_crc16_ccitt(GOV_CRC_INIT, Part(s, at + 1, n)), b) =
            gov_crc16_ccitt(GOV_CRC_INIT, Part(s, at + 1, n + 1))
      BY <1>6, CrcGrows
    <2> QED
      BY <1>4, <2>1
  <1>8. Append(q.payload, b) = Part(s, at + 6, n + 1)
    <2>1. Append(Part(s, at + 6, n), b) = Part(s, at + 6, n + 1)
      BY <1>6, PartGrows
    <2> QED
      BY <1>4, <2>1
  <1> DEFINE cs == gov_crc16_ccitt(GOV_CRC_INIT, Part(s, at + 1, n + 1))
             pl == Part(s, at + 6, n + 1)
  <1>12. /\ q2 \in gov_decoder_t /\ q2.crc_calc = cs /\ q2.payload = pl
         /\ q2.state = st /\ q2.type = q.type /\ q2.seq = q.seq /\ q2.len = q.len
         /\ q2.crc_idx = 0 /\ q2.stats = q.stats
    <2>1. /\ q2 \in gov_decoder_t /\ q2.crc_calc = CrcByte(q.crc_calc, b)
          /\ q2.payload = Append(q.payload, b)
          /\ q2.state = st /\ q2.type = q.type /\ q2.seq = q.seq /\ q2.len = q.len
          /\ q2.crc_idx = q.crc_idx /\ q2.stats = q.stats
      BY <1>0, <1>2, <1>3, <1>9, PayloadFed
    <2>2. q.crc_idx = 0
      BY <1>4
    <2> QED
      BY <1>7, <1>8, <2>1, <2>2
  <1>13. Len(pl) = L + 1
    BY <1>8, <1>11
  <1>14. q.len <= GOV_MAX_PAYLOAD
    <2>1. NodeHasHeader(s, at, q)
      BY <1>4
    <2> QED
      BY <2>1 DEF NodeHasHeader, Header
  <1>15. L + 1 <= GOV_MAX_PAYLOAD
    BY <1>5, <1>14, FrameAssumption
  <1>16. NodeTyped(q2)
    BY <1>12, <1>13, <1>15 DEF NodeTyped
  <1>17. NodeHasHeader(s, at, q2)
    <2>1. NodeHasHeader(s, at, q)
      BY <1>4
    <2> QED
      BY <1>12, <2>1 DEF NodeHasHeader
  <1> HIDE DEF cs, pl
  <1>18. ASSUME L + 1 >= q.len PROVE NodeAt(s, at, n + 1, q2)
    <2>1. q2.state = "CRC"
      BY <1>12, <1>18 DEF st
    <2>2. L + 1 = q.len /\ n + 1 = at + 6 + q.len + 0 /\ n + 1 = at + 6 + q.len
      BY <1>5, <1>6, <1>18
    <2>3. NodeInCrc(s, at, n + 1, q2)
      BY <1>12, <1>17, <2>2 DEF NodeInCrc, cs, pl
    <2> QED
      BY <1>16, <2>1, <2>3 DEF NodeAt
  <1>19. ASSUME ~(L + 1 >= q.len) PROVE NodeAt(s, at, n + 1, q2)
    <2>1. q2.state = "PAYLOAD"
      BY <1>12, <1>19 DEF st
    <2>2. L + 1 < q.len /\ n + 1 = at + 6 + (L + 1)
      BY <1>5, <1>6, <1>19
    <2>3. NodeInPayload(s, at, n + 1, q2)
      BY <1>12, <1>13, <1>17, <2>2 DEF NodeInPayload, cs, pl
    <2> QED
      BY <1>16, <2>1, <2>3 DEF NodeAt
  <1>20. NodeAt(s, at, n + 1, q2)
    BY <1>18, <1>19
  <1> QED
    BY <1>1, <1>12, <1>20 DEF NodeGoes, q2

\* The fields after the CRC's bytes.
WithCrcHigh(q, b) == [q EXCEPT !.crc_rx = b, !.crc_idx = 1]
WithCrcLow(q, rx, st) ==
    [q EXCEPT !.crc_rx = rx, !.crc_idx = 2, !.state = "HUNT_SOF", !.stats = st]
Judged(st, matches, known) ==
    [st EXCEPT !.crc_err = IF matches THEN @ ELSE @ + 1,
               !.unknown_type = IF matches /\ ~known THEN @ + 1 ELSE @]

LEMMA CrcHighFed ==
    ASSUME NEW q \in gov_decoder_t, NEW b \in Uint16, NEW q2, q2 = WithCrcHigh(q, b)
    PROVE  /\ q2 \in gov_decoder_t /\ q2.crc_rx = b /\ q2.crc_idx = 1
           /\ q2.crc_calc = q.crc_calc /\ q2.payload = q.payload
           /\ q2.state = q.state /\ q2.type = q.type /\ q2.seq = q.seq
           /\ q2.len = q.len /\ q2.stats = q.stats
  <1>1. 1 \in CrcIdx
    BY DEF CrcIdx
  <1> QED
    BY <1>1 DEF gov_decoder_t, WithCrcHigh

LEMMA CrcLowFed ==
    ASSUME NEW q \in gov_decoder_t, NEW rx \in Uint16, NEW st \in NodeStats, NEW q2,
           q2 = WithCrcLow(q, rx, st)
    PROVE  /\ q2 \in gov_decoder_t /\ q2.state = "HUNT_SOF" /\ q2.stats = st
           /\ q2.payload = q.payload
  <1>1. 2 \in CrcIdx /\ "HUNT_SOF" \in NodeState
    BY DEF CrcIdx, NodeState
  <1> QED
    BY <1>1 DEF gov_decoder_t, WithCrcLow

LEMMA JudgedFields ==
    ASSUME NEW st \in NodeStats, NEW matches \in BOOLEAN, NEW known \in BOOLEAN,
           NEW st2, st2 = Judged(st, matches, known)
    PROVE  /\ st2 \in NodeStats
           /\ st2.crc_err = IF matches THEN st.crc_err ELSE st.crc_err + 1
           /\ st2.unknown_type = IF matches /\ ~known THEN st.unknown_type + 1
                                 ELSE st.unknown_type
           /\ st2.len_err = st.len_err
  <1> DEFINE c == IF matches THEN st.crc_err ELSE st.crc_err + 1
             u == IF matches /\ ~known THEN st.unknown_type + 1 ELSE st.unknown_type
  <1>1. st2 = [st EXCEPT !.crc_err = c, !.unknown_type = u]
    BY DEF NodeStats, Judged
  <1>2. c \in Nat /\ u \in Nat
    BY DEF NodeStats
  <1> HIDE DEF c, u
  <1>3. /\ st2 \in NodeStats /\ st2.crc_err = c /\ st2.unknown_type = u
        /\ st2.len_err = st.len_err
    BY <1>1, <1>2 DEF NodeStats
  <1> QED
    BY <1>3 DEF c, u

With(st, a, c) == [st EXCEPT !.crc_err = a, !.unknown_type = c]
Counted(q, rx, a, c) ==
    [q EXCEPT !.crc_rx = rx, !.crc_idx = 2, !.state = "HUNT_SOF",
              !.stats.crc_err = a, !.stats.unknown_type = c]

LEMMA CountersNested ==
    ASSUME NEW q \in gov_decoder_t, NEW rx, NEW a, NEW c, NEW st,
           st = With(q.stats, a, c)
    PROVE  Counted(q, rx, a, c) = WithCrcLow(q, rx, st)
  BY DEF gov_decoder_t, WithCrcLow, Counted, With

\* A whole frame is judged as the grammar does.
LEMMA NodeCountsFrame ==
    ASSUME NEW s, NEW at, NEW st \in NodeStats, NEW st2, NEW matches \in BOOLEAN,
           NEW known \in BOOLEAN, NEW out, NEW f, f = FrameAt(s, at),
           st2 = Judged(st, matches, known),
           out = IF matches /\ known THEN <<f>> ELSE <<>>,
           Token(s, at).kind = IF ~matches THEN "crc_err"
                               ELSE IF ~known THEN "unknown_type" ELSE "frame"
    PROVE  Advances(s, at, out, st, st2, NodeError)
  <1> DEFINE kind == Token(s, at).kind
  <1>1. /\ st2.crc_err = IF matches THEN st.crc_err ELSE st.crc_err + 1
        /\ st2.unknown_type = IF matches /\ ~known THEN st.unknown_type + 1
                              ELSE st.unknown_type
        /\ st2.len_err = st.len_err
    BY JudgedFields
  <1>2. kind # "end" /\ out = IF kind = "frame" THEN <<f>> ELSE <<>>
    OBVIOUS
  <1>3. /\ st2["crc_err"] = IF "crc_err" = kind THEN st["crc_err"] + 1 ELSE st["crc_err"]
        /\ st2["len_err"] = IF "len_err" = kind THEN st["len_err"] + 1 ELSE st["len_err"]
        /\ st2["unknown_type"] = IF "unknown_type" = kind THEN st["unknown_type"] + 1
                                 ELSE st["unknown_type"]
    BY <1>1
  <1> HIDE DEF kind
  <1>4. \A e \in NodeError : st2[e] = IF e = kind THEN st[e] + 1 ELSE st[e]
    BY <1>3 DEF NodeError
  <1> QED
    BY <1>2, <1>4 DEF Advances, kind

LEMMA NodeCrc ==
    ASSUME NEW s \in Seq(Byte), NEW n \in Nat, n < Len(s), NEW at \in 0 .. n,
           NEW q, NodeAt(s, at, n, q), q.state = "CRC"
    PROVE  NodeGoes(s, at, n, q)
  <1> DEFINE b == s[n + 1]
             q2 == gov_decoder_push(q, b)
             out == Deliveries(q, b)
             len == LenAt(s, at)
  <1>0. NodeTyped(q) /\ NodeInCrc(s, at, n, q) /\ q \in gov_decoder_t
    BY DEF NodeAt, NodeTyped
  <1>2. q2 = OnCrc(q, b)
    BY DEF gov_decoder_push
  <1>3. b \in Byte /\ b \in Uint16
    <2>1. b \in Byte
      BY ByteOf
    <2> QED
      BY <2>1, ByteRange DEF Uint16
  <1>4. /\ NodeHasHeader(s, at, q) /\ q.payload = Part(s, at + 6, at + 6 + q.len)
        /\ q.crc_calc = gov_crc16_ccitt(GOV_CRC_INIT, Part(s, at + 1, at + 6 + q.len))
        /\ q.crc_idx = 1 => q.crc_rx = s[n]
    BY <1>0 DEF NodeInCrc
  <1>5. q.crc_idx \in 0 .. 1 /\ n = at + 6 + q.len + q.crc_idx
    BY <1>0 DEF NodeInCrc
  <1>6. q.len = len /\ q.len \in Nat /\ at \in Nat /\ len <= GOV_MAX_PAYLOAD
        /\ s[at + 1] = SOF /\ s[at + 2] = VER /\ q.type = s[at + 3] /\ q.seq = s[at + 4]
    BY <1>0, <1>4 DEF NodeHasHeader, Header, gov_decoder_t, Uint16
  <1> HIDE DEF len
  <1>7. CASE q.crc_idx = 0
    <2>0. ~Complete(q, b)
      BY <1>7 DEF Complete
    <2>1. out = <<>>
      BY <2>0 DEF Deliveries
    <2>2. q2 = WithCrcHigh(q, b)
      BY <1>2, <2>0 DEF OnCrc, WithCrcHigh
    <2> HIDE DEF q2, out
    <2>3. /\ q2 \in gov_decoder_t /\ q2.crc_rx = b /\ q2.crc_idx = 1
          /\ q2.crc_calc = q.crc_calc /\ q2.payload = q.payload
          /\ q2.state = "CRC" /\ q2.type = q.type /\ q2.seq = q.seq
          /\ q2.len = q.len /\ q2.stats = q.stats
      BY <1>0, <1>3, <2>2, CrcHighFed
    <2>4. n + 1 = at + 6 + q.len + 1
      BY <1>5, <1>6, <1>7
    <2>5. NodeTyped(q2)
      BY <1>0, <2>3 DEF NodeTyped
    <2>6. NodeHasHeader(s, at, q2)
      BY <1>4, <2>3 DEF NodeHasHeader
    <2>7. NodeInCrc(s, at, n + 1, q2)
      BY <1>4, <2>3, <2>4, <2>6 DEF NodeInCrc
    <2>8. NodeAt(s, at, n + 1, q2)
      BY <2>3, <2>5, <2>7 DEF NodeAt
    <2> QED
      BY <2>1, <2>3, <2>8 DEF NodeGoes, q2, out
  <1>8. CASE q.crc_idx = 1
    <2>0. Complete(q, b)
      BY <1>8 DEF Complete
    <2> DEFINE m == CrcMatches(q, b)
               known == q.type \in KnownType
               st == Judged(q.stats, m, known)
               rx == 256 * q.crc_rx + b
    <2>1. q2 = WithCrcLow(q, rx, st)
      <3> DEFINE a == IF m THEN q.stats.crc_err ELSE q.stats.crc_err + 1
                 c == IF m /\ ~known THEN q.stats.unknown_type + 1
                      ELSE q.stats.unknown_type
      <3>1. q.stats \in NodeStats
        BY <1>0 DEF gov_decoder_t
      <3>2. st = With(q.stats, a, c)
        BY <3>1 DEF Judged, NodeStats, With
      <3> HIDE DEF m
      <3>3. q2 = Counted(q, rx, a, c)
        BY <1>0, <1>2, <2>0, <3>1 DEF OnCrc, Counted, gov_decoder_t, NodeStats, m
      <3> HIDE DEF a, c, rx, st
      <3>4. q \in gov_decoder_t
        BY <1>0
      <3> QED
        BY <3>2, <3>3, <3>4, CountersNested
    <2>2. n = at + 7 + len /\ n + 1 = at + 8 + len /\ n + 1 = at + (8 + len)
      BY <1>5, <1>6, <1>8
    <2>3. q.crc_rx = s[at + 7 + len] /\ b = s[at + 8 + len] /\ q.crc_rx \in Byte
      <3>0. n # 0 /\ Len(s) \in Nat
        BY <1>6, <2>2, LenProperties
      <3>1. n - 1 \in Nat /\ n - 1 < Len(s) /\ (n - 1) + 1 = n
        BY <3>0, Previous
      <3>2. s[n] \in Byte
        BY <3>1, ByteOf
      <3> QED
        BY <1>4, <1>8, <2>2, <3>2
    <2>4. rx \in Uint16
      BY <1>3, <2>3, WordRange
    <2>5. q.stats \in NodeStats
      BY <1>0 DEF gov_decoder_t
    <2>6. m <=> CrcAt(s, at)
      <3>1. m <=> (256 * s[at + 7 + len] + s[at + 8 + len] =
                     gov_crc16_ccitt(GOV_CRC_INIT, Part(s, at + 1, at + 6 + len)))
        BY <1>4, <1>6, <2>3 DEF CrcMatches
      <3>2. CrcAt(s, at) <=> (gov_crc16_ccitt(GOV_CRC_INIT, Part(s, at + 1, at + 6 + len)) =
                     256 * s[at + 7 + len] + s[at + 8 + len])
        BY DEF CrcAt, len
      <3> HIDE DEF m
      <3> QED
        BY <3>1, <3>2
    <2>7. m \in BOOLEAN /\ known \in BOOLEAN
      BY DEF CrcMatches
    <2>8. FrameAt(s, at) = [type |-> q.type, seq |-> q.seq, payload |-> q.payload]
      BY <1>4, <1>6 DEF FrameAt, len
    <2>9. out = IF m /\ known THEN <<FrameAt(s, at)>> ELSE <<>>
      BY <2>0, <2>8 DEF Deliveries
    <2>10. /\ Len(s) - at # 0 /\ Len(s) - at # 1 /\ ~(Len(s) - at < 6)
           /\ ~(Len(s) - at < 8 + len) /\ ~(len > GOV_MAX_PAYLOAD)
      <3>1. Len(s) \in Nat /\ len \in Nat
        BY <1>6, LenProperties
      <3>2. at + 8 + len <= Len(s)
        BY <2>2, <3>1
      <3>3. ~(len > GOV_MAX_PAYLOAD)
        BY <1>6, <3>1, FrameAssumption
      <3> QED
        BY <1>6, <3>1, <3>2, <3>3, CrcFits
    <2>11. Token(s, at) = [kind |-> Verdict(s, at), next |-> at + (8 + len)]
      BY <1>6, <2>10, TokenWhole DEF len
    <2>12. Token(s, at).next = n + 1 /\ Token(s, at).kind = Verdict(s, at)
      BY <2>2, <2>11
    <2> HIDE DEF q2, out, m, known, rx
    <2>13. Verdict(s, at) = IF ~m THEN "crc_err"
                            ELSE IF ~known THEN "unknown_type" ELSE "frame"
      BY <1>6, <2>6 DEF Verdict, known
    <2>14. Advances(s, at, out, q.stats, st, NodeError)
      <3> HIDE DEF st
      <3>1. st = Judged(q.stats, m, known)
        BY DEF st
      <3>2. Token(s, at).kind = IF ~m THEN "crc_err"
                                ELSE IF ~known THEN "unknown_type" ELSE "frame"
        BY <2>12, <2>13
      <3> QED
        BY <2>5, <2>7, <2>9, <3>1, <3>2, NodeCountsFrame
    <2>15. st \in NodeStats
      BY <2>5, <2>7, JudgedFields
    <2> HIDE DEF st
    <2>16. /\ q2 \in gov_decoder_t /\ q2.state = "HUNT_SOF" /\ q2.stats = st
           /\ q2.payload = q.payload
      BY <1>0, <2>1, <2>4, <2>15, CrcLowFed
    <2>17. NodeAt(s, n + 1, n + 1, q2)
      BY <1>0, <2>16 DEF NodeAt, NodeTyped
    <2> QED
      BY <2>12, <2>14, <2>16, <2>17 DEF NodeGoes, q2, out
  <1> QED
    BY <1>5, <1>7, <1>8

LEMMA NodeStep ==
    ASSUME NEW s \in Seq(Byte), NEW n \in Nat, n < Len(s), NEW at \in 0 .. n,
           NEW q, NodeAt(s, at, n, q)
    PROVE  NodeGoes(s, at, n, q)
  <1>1. q.state \in NodeState
    BY DEF NodeAt, NodeTyped, gov_decoder_t
  <1> QED
    BY <1>1, NodeHunt, NodeVer, NodeHdr, NodePayload, NodeCrc DEF NodeState

\* When everything is read the token the decoder stands in is incomplete.
LEMMA NodeEnd ==
    ASSUME NEW s \in Seq(Byte), NEW at \in 0 .. Len(s), NEW q,
           NodeAt(s, at, Len(s), q)
    PROVE  Token(s, at).kind = "end"
  <1> DEFINE n == Len(s)
  <1>0. n \in Nat /\ at \in Nat /\ q \in gov_decoder_t /\ q.state \in NodeState
    BY DEF NodeAt, NodeTyped, gov_decoder_t
  <1>1. CASE q.state = "HUNT_SOF"
    <2>1. at = n
      BY <1>1 DEF NodeAt
    <2>2. n - at = 0
      BY <1>0, <2>1
    <2> QED
      BY <2>2, TokenEnd
  <1>2. CASE q.state = "VER"
    <2>1. n = at + 1 /\ s[at + 1] = SOF
      BY <1>2 DEF NodeAt, NodeInVer
    <2>2. n - at = 1
      BY <1>0, <2>1
    <2> QED
      BY <2>1, <2>2, TokenEnd
  <1>3. CASE q.state = "HDR"
    <2>1. /\ q.hdr_idx \in 0 .. 3 /\ n = at + 2 + q.hdr_idx
          /\ s[at + 1] = SOF /\ s[at + 2] = VER
      BY <1>3 DEF NodeAt, NodeInHdr
    <2>2. n - at < 6 /\ n - at # 0 /\ n - at # 1
      BY <1>0, <2>1
    <2> QED
      BY <2>1, <2>2, TokenEnd
  <1>4. CASE q.state = "PAYLOAD"
    <2>1. NodeInPayload(s, at, n, q)
      BY <1>4 DEF NodeAt
    <2>2. /\ Len(q.payload) \in Nat /\ q.len \in Nat
          /\ n = at + 6 + Len(q.payload) /\ Len(q.payload) < q.len
      BY <1>0, <2>1 DEF NodeInPayload, gov_decoder_t, Bytes, Uint16
    <2>3. /\ s[at + 1] = SOF /\ s[at + 2] = VER /\ q.len = LenAt(s, at)
          /\ LenAt(s, at) <= GOV_MAX_PAYLOAD
      BY <2>1 DEF NodeInPayload, NodeHasHeader, Header
    <2>4. /\ n - at # 0 /\ n - at # 1 /\ n - at < 8 + LenAt(s, at)
          /\ ~(LenAt(s, at) > GOV_MAX_PAYLOAD)
      <3> DEFINE l == Len(q.payload)
      <3> HIDE DEF l
      <3>1. l \in Nat /\ n = at + 6 + l /\ l < q.len /\ q.len \in Nat
        BY <2>2 DEF l
      <3>2. n - at = 6 + l
        BY <1>0, <3>1
      <3> QED
        BY <2>3, <3>1, <3>2, FrameAssumption
    <2> QED
      BY <2>3, <2>4, TokenEnd
  <1>5. CASE q.state = "CRC"
    <2>1. NodeInCrc(s, at, n, q)
      BY <1>5 DEF NodeAt
    <2>2. q.len \in Nat /\ q.crc_idx \in 0 .. 1 /\ n = at + 6 + q.len + q.crc_idx
      BY <1>0, <2>1 DEF NodeInCrc, gov_decoder_t, Uint16
    <2>3. /\ s[at + 1] = SOF /\ s[at + 2] = VER /\ q.len = LenAt(s, at)
          /\ LenAt(s, at) <= GOV_MAX_PAYLOAD
      BY <2>1 DEF NodeInCrc, NodeHasHeader, Header
    <2>4. /\ n - at # 0 /\ n - at # 1 /\ n - at < 8 + LenAt(s, at)
          /\ ~(LenAt(s, at) > GOV_MAX_PAYLOAD)
      <3>1. n - at = 6 + q.len + q.crc_idx
        BY <1>0, <2>2
      <3>2. n - at # 0 /\ n - at # 1 /\ n - at < 8 + q.len
        BY <2>2, <3>1, CrcShort
      <3>3. ~(q.len > GOV_MAX_PAYLOAD)
        BY <2>2, <2>3, FrameAssumption
      <3> QED
        BY <2>3, <3>2, <3>3
    <2> QED
      BY <2>3, <2>4, TokenEnd
  <1> QED
    BY <1>0, <1>1, <1>2, <1>3, <1>4, <1>5 DEF NodeState

-----------------------------------------------------------------------------
\* One byte into the ground station's decoder.

HostGoes(s, at, n, q) ==
    LET q2 == FrameDecoder_push(q, s[n + 1])
        out == HostDeliveries(q, s[n + 1])
    IN  \/ HostAt(s, at, n + 1, q2) /\ out = <<>> /\ q2.stats = q.stats
        \/ /\ HostAt(s, Token(s, at).next, n + 1, q2)
           /\ Advances(s, at, out, q.stats, q2.stats, Error)

\* The decoder out of its parts.
Station(u, st) == [hunt |-> u, stats |-> st]
Hunt(state, hdr, payload, crc) ==
    [state |-> state, hdr |-> hdr, payload |-> payload, crc |-> crc]

LEMMA StationOf ==
    ASSUME NEW q, HostTyped(q)
    PROVE  /\ q = Station(q.hunt, q.stats) /\ q.hunt \in Hunts /\ q.stats \in HostStats
           /\ q.hunt = Hunt(q.hunt.state, q.hunt.hdr, q.hunt.payload, q.hunt.crc)
           /\ q.hunt.state \in HostState /\ q.hunt.hdr \in Seq(Byte)
           /\ q.hunt.payload \in Seq(Byte) /\ q.hunt.crc \in Seq(Byte)
  <1>1. q = Station(q.hunt, q.stats) /\ q.hunt \in Hunts /\ q.stats \in HostStats
    BY DEF HostTyped, Station
  <1> DEFINE u == q.hunt
  <1>2. u \in Hunts
    BY <1>1
  <1> HIDE DEF u
  <1>3. /\ u = Hunt(u.state, u.hdr, u.payload, u.crc)
        /\ u.state \in HostState /\ u.hdr \in Bytes
        /\ u.payload \in Bytes /\ u.crc \in Bytes
    BY <1>2 DEF Hunts, Hunt
  <1> QED
    BY <1>1, <1>3 DEF u, Bytes

LEMMA StationTyped ==
    ASSUME NEW state \in HostState, NEW hdr \in Seq(Byte), NEW payload \in Seq(Byte),
           NEW crc \in Seq(Byte), NEW st \in HostStats, NEW q,
           q = Station(Hunt(state, hdr, payload, crc), st)
    PROVE  /\ HostTyped(q) /\ q.stats = st /\ q.hunt = Hunt(state, hdr, payload, crc)
           /\ q.hunt.state = state /\ q.hunt.hdr = hdr /\ q.hunt.payload = payload
           /\ q.hunt.crc = crc
  <1> DEFINE u == Hunt(state, hdr, payload, crc)
  <1>1. /\ u \in Hunts /\ u.state = state /\ u.hdr = hdr /\ u.payload = payload
        /\ u.crc = crc
    BY DEF Hunt, Hunts, Bytes
  <1> HIDE DEF u
  <1>2. q.hunt = u /\ q.stats = st
    BY DEF Station, u
  <1>3. HostTyped(q)
    BY <1>1 DEF HostTyped, Station, u
  <1> QED
    BY <1>1, <1>2, <1>3 DEF u

LEMMA EmptyIs == Empty \in Seq(Byte) /\ Len(Empty) = 0
  BY DEF Empty

\* With a header and nothing else.
LEMMA StationFilled ==
    ASSUME NEW hdr \in Seq(Byte), NEW st \in HostStats, NEW state \in HostState, NEW q,
           q = Station(Hunt(state, hdr, Empty, Empty), st)
    PROVE  /\ HostTyped(q) /\ q.stats = st /\ q.hunt.state = state
           /\ q.hunt.hdr = hdr /\ q.hunt.payload = Empty /\ q.hunt.crc = Empty
  <1>1. Empty \in Seq(Byte)
    BY EmptyIs
  <1> QED
    BY <1>1, StationTyped

LEMMA HuntingIs ==
    /\ Hunting = Hunt("HUNT_SOF", Empty, Empty, Empty)
    /\ [Hunting EXCEPT !.state = "GOT_SOF"] = Hunt("GOT_SOF", Empty, Empty, Empty)
    /\ [Hunting EXCEPT !.state = "HDR"] = Hunt("HDR", Empty, Empty, Empty)
  BY DEF Hunting, Hunt, Empty

\* The assignments of push, on the parts.
PutState(q, x) == [q EXCEPT !.hunt.state = x]
PutHdr(q, b) == [q EXCEPT !.hunt.hdr = Append(@, b)]
PutPayload(q, b) == [q EXCEPT !.hunt.payload = Append(@, b)]

LEMMA HostAssign ==
    ASSUME NEW state, NEW hdr, NEW payload, NEW crc, NEW st, NEW q,
           q = Station(Hunt(state, hdr, payload, crc), st)
    PROVE  /\ \A x : PutState(q, x) = Station(Hunt(x, hdr, payload, crc), st)
           /\ \A b : PutHdr(q, b) = Station(Hunt(state, Append(hdr, b), payload, crc), st)
           /\ \A b : PutPayload(q, b) =
                        Station(Hunt(state, hdr, Append(payload, b), crc), st)
           /\ \A b : WithCrc(q, b) = Station(Hunt(state, hdr, payload, Append(crc, b)), st)
           /\ reset_hunt(q) = Station(Hunt("HUNT_SOF", Empty, Empty, Empty), st)
  <1>1. ASSUME NEW x PROVE PutState(q, x) = Station(Hunt(x, hdr, payload, crc), st)
    BY DEF Station, Hunt, PutState
  <1>2. ASSUME NEW b
        PROVE  PutHdr(q, b) = Station(Hunt(state, Append(hdr, b), payload, crc), st)
    <2> DEFINE x == Append(hdr, b)
    <2>1. q.hunt.hdr = hdr
      BY DEF Station, Hunt
    <2>2. PutHdr(q, b) = [q EXCEPT !.hunt.hdr = x]
      BY <2>1 DEF PutHdr
    <2> HIDE DEF x
    <2>3. [q EXCEPT !.hunt.hdr = x] = Station(Hunt(state, x, payload, crc), st)
      BY DEF Station, Hunt
    <2> QED
      BY <2>2, <2>3 DEF x
  <1>3. ASSUME NEW b
        PROVE  PutPayload(q, b) = Station(Hunt(state, hdr, Append(payload, b), crc), st)
    <2> DEFINE x == Append(payload, b)
    <2>1. q.hunt.payload = payload
      BY DEF Station, Hunt
    <2>2. PutPayload(q, b) = [q EXCEPT !.hunt.payload = x]
      BY <2>1 DEF PutPayload
    <2> HIDE DEF x
    <2>3. [q EXCEPT !.hunt.payload = x] = Station(Hunt(state, hdr, x, crc), st)
      BY DEF Station, Hunt
    <2> QED
      BY <2>2, <2>3 DEF x
  <1>4. ASSUME NEW b
        PROVE  WithCrc(q, b) = Station(Hunt(state, hdr, payload, Append(crc, b)), st)
    <2> DEFINE x == Append(crc, b)
    <2>1. q.hunt.crc = crc
      BY DEF Station, Hunt
    <2>2. WithCrc(q, b) = [q EXCEPT !.hunt.crc = x]
      BY <2>1 DEF WithCrc
    <2> HIDE DEF x
    <2>3. [q EXCEPT !.hunt.crc = x] = Station(Hunt(state, hdr, payload, x), st)
      BY DEF Station, Hunt
    <2> QED
      BY <2>2, <2>3 DEF x
  <1>5. reset_hunt(q) = Station(Hunt("HUNT_SOF", Empty, Empty, Empty), st)
    BY DEF Station, Hunt, reset_hunt, Hunting, Empty
  <1> QED
    BY <1>1, <1>2, <1>3, <1>4, <1>5

\* Counting an error.
OneMore(st, e) == [st EXCEPT ![e] = @ + 1]
CountOne(q, e) == [q EXCEPT !.stats[e] = @ + 1]

LEMMA HostCount ==
    ASSUME NEW u, NEW st \in HostStats, NEW e \in Error, NEW q, q = Station(u, st)
    PROVE  /\ CountOne(q, e) = Station(u, OneMore(st, e))
           /\ OneMore(st, e) \in HostStats
           /\ \A k \in Error : OneMore(st, e)[k] = IF k = e THEN st[k] + 1 ELSE st[k]
  <1>1. CountOne(q, e) = Station(u, OneMore(st, e))
    BY DEF Station, OneMore, CountOne
  <1>2. CASE e = "crc_err"
    BY <1>1, <1>2 DEF HostStats, Error, OneMore
  <1>3. CASE e = "len_err"
    BY <1>1, <1>3 DEF HostStats, Error, OneMore
  <1>4. CASE e = "unknown_type"
    BY <1>1, <1>4 DEF HostStats, Error, OneMore
  <1>5. CASE e = "ver_err"
    BY <1>1, <1>5 DEF HostStats, Error, OneMore
  <1> QED
    BY <1>2, <1>3, <1>4, <1>5 DEF Error

LEMMA HostUncounted ==
    ASSUME NEW s, NEW at, NEW st, Token(s, at).kind = "noise"
    PROVE  Advances(s, at, <<>>, st, st, Error)
  BY DEF Advances, Error

LEMMA HostCounted ==
    ASSUME NEW s, NEW at, NEW st \in HostStats, NEW e \in Error, Token(s, at).kind = e
    PROVE  Advances(s, at, <<>>, st, OneMore(st, e), Error)
  <1>1. \A k \in Error : OneMore(st, e)[k] = IF k = e THEN st[k] + 1 ELSE st[k]
    BY HostCount
  <1>2. e # "end" /\ e # "frame"
    BY DEF Error
  <1> QED
    BY <1>1, <1>2 DEF Advances

LEMMA HostNoDelivery ==
    ASSUME NEW q, NEW b, q.hunt.state # "CRC"
    PROVE  HostDeliveries(q, b) = <<>>
  BY DEF HostDeliveries, HostCrcDone

\* Hunting again, at the next byte.
LEMMA HostHunts ==
    ASSUME NEW s, NEW n, NEW st \in HostStats, NEW q,
           q = Station(Hunt("HUNT_SOF", Empty, Empty, Empty), st)
    PROVE  HostAt(s, n, n, q) /\ q.stats = st
  <1>1. "HUNT_SOF" \in HostState /\ Empty \in Seq(Byte)
    BY EmptyIs DEF HostState
  <1>2. HostTyped(q) /\ q.stats = st /\ q.hunt.state = "HUNT_SOF"
        /\ q.hunt = Hunt("HUNT_SOF", Empty, Empty, Empty)
    BY <1>1, StationTyped
  <1> QED
    BY <1>2, HuntingIs DEF HostAt

\* After a SOF.
LEMMA HostGot ==
    ASSUME NEW s, NEW at, NEW n, n = at + 1, s[at + 1] = SOF,
           NEW st \in HostStats, NEW q,
           q = Station(Hunt("GOT_SOF", Empty, Empty, Empty), st)
    PROVE  HostAt(s, at, n, q) /\ q.stats = st
  <1>1. "GOT_SOF" \in HostState /\ Empty \in Seq(Byte)
    BY EmptyIs DEF HostState
  <1>2. HostTyped(q) /\ q.stats = st /\ q.hunt.state = "GOT_SOF"
        /\ q.hunt = Hunt("GOT_SOF", Empty, Empty, Empty)
    BY <1>1, StationTyped
  <1> QED
    BY <1>2, HuntingIs DEF HostAt

LEMMA HostHunt ==
    ASSUME NEW s \in Seq(Byte), NEW n \in Nat, n < Len(s), NEW at \in 0 .. n,
           NEW q, HostAt(s, at, n, q), q.hunt.state = "HUNT_SOF"
    PROVE  HostGoes(s, at, n, q)
  <1> DEFINE b == s[n + 1]
             q2 == FrameDecoder_push(q, b)
  <1>0. HostTyped(q) /\ at = n /\ q.hunt = Hunt("HUNT_SOF", Empty, Empty, Empty)
    BY HuntingIs DEF HostAt
  <1>1. /\ q = Station(Hunt("HUNT_SOF", Empty, Empty, Empty), q.stats)
        /\ q.stats \in HostStats
    BY <1>0, StationOf
  <1>2. HostDeliveries(q, b) = <<>>
    BY HostNoDelivery
  <1>3. CASE b # SOF
    <2>1. q2 = q
      BY <1>3 DEF FrameDecoder_push
    <2>2. Len(s) - n # 0
      OBVIOUS
    <2>3. Token(s, n) = [kind |-> "noise", next |-> n + 1]
      BY <1>3, <2>2, TokenNoise
    <2>4. Token(s, n).kind = "noise" /\ Token(s, n).next = n + 1
      BY <2>3
    <2>5. HostAt(s, n + 1, n + 1, q)
      BY <1>1, HostHunts
    <2>6. Advances(s, n, <<>>, q.stats, q.stats, Error)
      BY <2>4, HostUncounted
    <2> QED
      BY <1>0, <1>2, <2>1, <2>4, <2>5, <2>6 DEF HostGoes
  <1>4. CASE b = SOF
    <2>1. q2 = PutState(q, "GOT_SOF")
      BY <1>4 DEF FrameDecoder_push, PutState
    <2>2. q2 = Station(Hunt("GOT_SOF", Empty, Empty, Empty), q.stats)
      BY <1>1, <2>1, HostAssign
    <2> HIDE DEF q2
    <2>3. HostAt(s, at, n + 1, q2) /\ q2.stats = q.stats
      BY <1>0, <1>1, <1>4, <2>2, HostGot
    <2> QED
      BY <1>2, <2>3 DEF HostGoes, q2
  <1> QED
    BY <1>3, <1>4

LEMMA HostVersion ==
    ASSUME NEW s \in Seq(Byte), NEW n \in Nat, n < Len(s), NEW at \in 0 .. n,
           NEW q, HostAt(s, at, n, q), q.hunt.state = "GOT_SOF"
    PROVE  HostGoes(s, at, n, q)
  <1> DEFINE b == s[n + 1]
             q2 == FrameDecoder_push(q, b)
  <1>0. /\ HostTyped(q) /\ n = at + 1 /\ s[at + 1] = SOF
        /\ q.hunt = Hunt("GOT_SOF", Empty, Empty, Empty)
    BY HuntingIs DEF HostAt
  <1>1. /\ q = Station(Hunt("GOT_SOF", Empty, Empty, Empty), q.stats)
        /\ q.stats \in HostStats
    BY <1>0, StationOf
  <1>2. HostDeliveries(q, b) = <<>>
    BY HostNoDelivery
  <1>3. b = s[at + 2] /\ n + 1 = at + 2 /\ at \in Nat
    BY <1>0
  <1>4. Len(s) - at # 0 /\ Len(s) - at # 1
    <2>1. Len(s) \in Nat /\ at \in Nat /\ at + 1 < Len(s)
      BY <1>0
    <2> QED
      BY <2>1
  <1>5. CASE b = VER
    <2>0. b # SOF
      BY <1>5 DEF SOF, VER
    <2>1. q2 = PutState(q, "HDR")
      BY <1>5, <2>0 DEF FrameDecoder_push, PutState
    <2>2. q2 = Station(Hunt("HDR", Empty, Empty, Empty), q.stats)
      BY <1>1, <2>1, HostAssign
    <2>3. "HDR" \in HostState /\ Empty \in Seq(Byte)
      BY EmptyIs DEF HostState
    <2> HIDE DEF q2
    <2>4. /\ HostTyped(q2) /\ q2.stats = q.stats /\ q2.hunt.state = "HDR"
          /\ q2.hunt.hdr = Empty /\ q2.hunt.payload = Empty /\ q2.hunt.crc = Empty
      BY <1>1, <2>2, <2>3, StationTyped
    <2>5. Part(s, at + 2, n + 1) = Empty
      <3>1. at + 2 \in Nat /\ at + 2 <= Len(s)
        BY <1>3
      <3> QED
        BY <1>3, <3>1, PartEmpty DEF Empty
    <2>6. Len(Empty) = 0 /\ n + 1 = at + 2 + Len(Empty) /\ Len(Empty) <= 3
      BY <1>3, EmptyIs
    <2>7. HostInHdr(s, at, n + 1, q2.hunt)
      BY <1>0, <1>3, <1>5, <2>4, <2>5, <2>6 DEF HostInHdr
    <2>8. HostAt(s, at, n + 1, q2)
      BY <2>4, <2>7 DEF HostAt
    <2> QED
      BY <1>2, <2>4, <2>8 DEF HostGoes, q2
  <1>6. CASE b = SOF
    <2>0. b # VER
      BY <1>6 DEF SOF, VER
    <2>1. q2 = q
      BY <1>6, <2>0 DEF FrameDecoder_push
    <2>2. Token(s, at) = [kind |-> "noise", next |-> at + 1]
      BY <1>0, <1>3, <1>4, <1>6, TokenSofSof
    <2>3. Token(s, at).kind = "noise" /\ Token(s, at).next = n
      BY <1>0, <2>2
    <2>4. HostAt(s, n, n + 1, q)
      BY <1>1, <1>6, HostGot
    <2>5. Advances(s, at, <<>>, q.stats, q.stats, Error)
      BY <2>3, HostUncounted
    <2> QED
      BY <1>2, <2>1, <2>3, <2>4, <2>5 DEF HostGoes
  <1>7. CASE b # VER /\ b # SOF
    <2> DEFINE c == CountOne(q, "ver_err")
               st == OneMore(q.stats, "ver_err")
    <2>1. q2 = reset_hunt(c)
      BY <1>7 DEF FrameDecoder_push, CountOne
    <2>2. "ver_err" \in Error
      BY DEF Error
    <2>3. c = Station(Hunt("GOT_SOF", Empty, Empty, Empty), st) /\ st \in HostStats
      BY <1>1, <2>2, HostCount
    <2>4. q2 = Station(Hunt("HUNT_SOF", Empty, Empty, Empty), st)
      BY <2>1, <2>3, HostAssign
    <2>5. Token(s, at) = [kind |-> "ver_err", next |-> at + 2]
      BY <1>0, <1>3, <1>4, <1>7, TokenVersion
    <2>6. Token(s, at).kind = "ver_err" /\ Token(s, at).next = n + 1
      BY <1>3, <2>5
    <2> HIDE DEF q2
    <2>7. HostAt(s, n + 1, n + 1, q2) /\ q2.stats = st
      BY <2>3, <2>4, HostHunts
    <2>8. Advances(s, at, <<>>, q.stats, st, Error)
      BY <1>1, <2>2, <2>6, HostCounted
    <2> QED
      BY <1>2, <2>6, <2>7, <2>8 DEF HostGoes, q2
  <1> QED
    BY <1>5, <1>6, <1>7

\* The length in the header that was collected.
LEMMA HostLenIs ==
    ASSUME NEW s \in Seq(Byte), NEW at \in Nat, at + 6 <= Len(s), NEW q,
           q.hunt.hdr = Part(s, at + 2, at + 6)
    PROVE  /\ HostLen(q) = LenAt(s, at) /\ LenAt(s, at) \in Nat
           /\ q.hunt.hdr[1] = s[at + 3] /\ q.hunt.hdr[2] = s[at + 4]
  <1> DEFINE p == Part(s, at + 2, at + 6)
  <1>1. at + 2 \in Nat /\ at + 6 \in Nat /\ at + 2 <= at + 6 /\ (at + 6) - (at + 2) = 4
    OBVIOUS
  <1>2. \A k \in 1 .. 4 : p[k] = s[(at + 2) + k]
    <2>1. \A k \in 1 .. (at + 6) - (at + 2) : p[k] = s[(at + 2) + k]
      BY <1>1, PartTyped
    <2> QED
      BY <1>1, <2>1
  <1>3. /\ (at + 2) + 1 = at + 3 /\ (at + 2) + 2 = at + 4
        /\ (at + 2) + 3 = at + 5 /\ (at + 2) + 4 = at + 6
    OBVIOUS
  <1> HIDE DEF p
  <1>4. p[1] = s[at + 3] /\ p[2] = s[at + 4] /\ p[3] = s[at + 5] /\ p[4] = s[at + 6]
    BY <1>2, <1>3
  <1>5. HostLen(q) = LenAt(s, at)
    BY <1>4 DEF HostLen, LenAt, p
  <1>6. LenAt(s, at) \in Nat
    <2>1. Len(s) - at >= 6
      OBVIOUS
    <2> QED
      BY <2>1, LenAtTyped
  <1> QED
    BY <1>4, <1>5, <1>6 DEF p

LEMMA HostHdr ==
    ASSUME NEW s \in Seq(Byte), NEW n \in Nat, n < Len(s), NEW at \in 0 .. n,
           NEW q, HostAt(s, at, n, q), q.hunt.state = "HDR"
    PROVE  HostGoes(s, at, n, q)
  <1> DEFINE b == s[n + 1]
             q2 == FrameDecoder_push(q, b)
             hdr == q.hunt.hdr
             H == Append(hdr, b)
             more == PutHdr(q, b)
  <1>0. HostTyped(q) /\ HostInHdr(s, at, n, q.hunt)
    BY DEF HostAt
  <1>1. /\ s[at + 1] = SOF /\ s[at + 2] = VER
        /\ hdr = Part(s, at + 2, n) /\ q.hunt.payload = Empty /\ q.hunt.crc = Empty
    BY <1>0 DEF HostInHdr
  <1>2. /\ q.hunt = Hunt("HDR", hdr, Empty, Empty) /\ hdr \in Seq(Byte)
        /\ q = Station(q.hunt, q.stats) /\ q.stats \in HostStats
    BY <1>0, <1>1, StationOf
  <1>3. Len(hdr) \in Nat /\ n = at + 2 + Len(hdr) /\ Len(hdr) <= 3
    <2>1. Len(hdr) \in Nat
      BY <1>2, LenProperties
    <2>2. n = at + 2 + Len(hdr) /\ Len(hdr) <= 3
      BY <1>0 DEF HostInHdr
    <2> QED
      BY <2>1, <2>2
  <1>4. b \in Byte
    BY ByteOf
  <1>5. HostDeliveries(q, b) = <<>>
    BY HostNoDelivery
  <1>6. H \in Seq(Byte) /\ Len(H) = Len(hdr) + 1
    BY <1>2, <1>4
  <1> DEFINE l == Len(hdr)
  <1>7. more = Station(Hunt("HDR", H, Empty, Empty), q.stats)
    <2> HIDE DEF hdr, H, more
    <2>1. q = Station(Hunt("HDR", hdr, Empty, Empty), q.stats)
      BY <1>2
    <2> QED
      BY <2>1, HostAssign DEF more, H
  <1>8. q2 = IF Len(more.hunt.hdr) = 4 THEN HostHeaderDone(more) ELSE more
    BY DEF FrameDecoder_push, HostOnHdr, PutHdr
  <1>9. at \in Nat /\ at + 2 \in Nat /\ at + 2 <= n
    <2> HIDE DEF hdr
    <2> QED
      BY <1>3
  <1>10. H = Part(s, at + 2, n + 1)
    BY <1>1, <1>9, PartGrows
  <1>11. Len(Empty) = 0
    BY EmptyIs
  <1>12. l \in Nat /\ n = at + 2 + l /\ l <= 3 /\ Len(H) = l + 1
    BY <1>3, <1>6
  <1>t. H \in Seq(Byte) /\ q.stats \in HostStats
    BY <1>2, <1>6
  <1> HIDE DEF hdr, H, more, q2, l
  <1>13. /\ HostTyped(more) /\ more.stats = q.stats /\ more.hunt.state = "HDR"
         /\ more.hunt.hdr = H /\ more.hunt.payload = Empty /\ more.hunt.crc = Empty
    BY <1>t, <1>7, StationFilled DEF HostState
  <1>14. CASE l # 3
    <2>1. q2 = more
      <3>1. Len(H) # 4
        BY <1>12, <1>14
      <3> QED
        BY <1>8, <1>13, <3>1
    <2>2. n + 1 = at + 2 + Len(H) /\ Len(H) <= 3
      BY <1>9, <1>12, <1>14
    <2>3. HostInHdr(s, at, n + 1, more.hunt)
      BY <1>1, <1>10, <1>13, <2>2 DEF HostInHdr
    <2>4. HostAt(s, at, n + 1, more)
      BY <1>13, <2>3 DEF HostAt
    <2> QED
      BY <1>5, <1>13, <2>1, <2>4 DEF HostGoes, q2
  <1>15. CASE l = 3
    <2>1. n + 1 = at + 6 /\ at + 6 <= Len(s) /\ Len(H) = 4
      BY <1>9, <1>12, <1>15
    <2>2. q2 = HostHeaderDone(more)
      BY <1>8, <1>13, <2>1
    <2>3. H = Part(s, at + 2, at + 6)
      BY <1>10, <2>1
    <2>4. HostLen(more) = LenAt(s, at) /\ LenAt(s, at) \in Nat
      BY <1>9, <1>13, <2>1, <2>3, HostLenIs
    <2>5. Len(s) - at # 0 /\ Len(s) - at # 1 /\ ~(Len(s) - at < 6)
      BY <1>9, <2>1
    <2>6. CASE LenAt(s, at) > GOV_MAX_PAYLOAD
      <3> DEFINE c == CountOne(more, "len_err")
                 st == OneMore(q.stats, "len_err")
      <3>0. LenAt(s, at) # 0
        BY <2>4, <2>6, FrameAssumption
      <3>1. q2 = reset_hunt(c)
        BY <2>2, <2>4, <2>6, <3>0 DEF HostHeaderDone, CountOne
      <3>2. "len_err" \in Error
        BY DEF Error
      <3>3. c = Station(Hunt("HDR", H, Empty, Empty), st) /\ st \in HostStats
        BY <1>2, <1>7, <3>2, HostCount
      <3>4. q2 = Station(Hunt("HUNT_SOF", Empty, Empty, Empty), st)
        BY <3>1, <3>3, HostAssign
      <3>5. Token(s, at) = [kind |-> "len_err", next |-> at + 6]
        BY <1>1, <2>5, <2>6, TokenLength
      <3>6. Token(s, at).kind = "len_err" /\ Token(s, at).next = n + 1
        BY <2>1, <3>5
      <3>7. HostAt(s, n + 1, n + 1, q2) /\ q2.stats = st
        BY <3>3, <3>4, HostHunts
      <3>8. Advances(s, at, <<>>, q.stats, st, Error)
        BY <1>2, <3>2, <3>6, HostCounted
      <3> QED
        BY <1>5, <3>6, <3>7, <3>8 DEF HostGoes, q2
    <2>7. CASE ~(LenAt(s, at) > GOV_MAX_PAYLOAD)
      <3>1. LenAt(s, at) <= GOV_MAX_PAYLOAD
        BY <2>4, <2>7, FrameAssumption
      <3>2. Header(s, at)
        BY <1>1, <3>1 DEF Header
      <3>3. Part(s, at + 6, at + 6) = Empty
        <4>1. at + 6 \in Nat
          BY <1>9
        <4> QED
          BY <2>1, <4>1, PartEmpty DEF Empty
      <3>4. ASSUME LenAt(s, at) = 0
            PROVE  HostAt(s, at, n + 1, q2) /\ q2.stats = q.stats
        <4>1. q2 = PutState(more, "CRC")
          BY <2>2, <2>4, <2>7, <3>4 DEF HostHeaderDone, PutState
        <4>2. q2 = Station(Hunt("CRC", H, Empty, Empty), q.stats)
          BY <1>7, <4>1, HostAssign
        <4>3. /\ HostTyped(q2) /\ q2.stats = q.stats /\ q2.hunt.state = "CRC"
              /\ q2.hunt.hdr = H /\ q2.hunt.payload = Empty /\ q2.hunt.crc = Empty
          BY <1>t, <4>2, StationFilled DEF HostState
        <4>4. /\ at + 6 + LenAt(s, at) = at + 6 /\ n + 1 = at + 6 + LenAt(s, at) + Len(Empty)
              /\ Len(Empty) <= 1 /\ at + 6 <= n + 1
          BY <1>9, <1>11, <2>1, <3>4
        <4>5. HostInCrc(s, at, n + 1, q2.hunt)
          BY <2>1, <2>3, <3>2, <3>3, <4>3, <4>4 DEF HostInCrc
        <4> QED
          BY <4>3, <4>5 DEF HostAt
      <3>5. ASSUME LenAt(s, at) # 0
            PROVE  HostAt(s, at, n + 1, q2) /\ q2.stats = q.stats
        <4>1. q2 = PutState(more, "PAYLOAD")
          BY <2>2, <2>4, <2>7, <3>5 DEF HostHeaderDone, PutState
        <4>2. q2 = Station(Hunt("PAYLOAD", H, Empty, Empty), q.stats)
          BY <1>7, <4>1, HostAssign
        <4>3. /\ HostTyped(q2) /\ q2.stats = q.stats /\ q2.hunt.state = "PAYLOAD"
              /\ q2.hunt.hdr = H /\ q2.hunt.payload = Empty /\ q2.hunt.crc = Empty
          BY <1>t, <4>2, StationFilled DEF HostState
        <4>4. n + 1 = at + 6 + Len(Empty) /\ Len(Empty) < LenAt(s, at)
          BY <1>9, <1>11, <2>1, <2>4, <3>5
        <4>5. HostInPayload(s, at, n + 1, q2.hunt)
          BY <2>1, <2>3, <3>2, <3>3, <4>3, <4>4 DEF HostInPayload
        <4> QED
          BY <4>3, <4>5 DEF HostAt
      <3>6. HostAt(s, at, n + 1, q2) /\ q2.stats = q.stats
        BY <3>4, <3>5
      <3> QED
        BY <1>5, <3>6 DEF HostGoes, q2
    <2> QED
      BY <2>6, <2>7
  <1> QED
    BY <1>14, <1>15

LEMMA HostPayload ==
    ASSUME NEW s \in Seq(Byte), NEW n \in Nat, n < Len(s), NEW at \in 0 .. n,
           NEW q, HostAt(s, at, n, q), q.hunt.state = "PAYLOAD"
    PROVE  HostGoes(s, at, n, q)
  <1> DEFINE b == s[n + 1]
             q2 == FrameDecoder_push(q, b)
             hdr == q.hunt.hdr
             pay == q.hunt.payload
             P == Append(pay, b)
             more == PutPayload(q, b)
             len == LenAt(s, at)
             l == Len(pay)
             st == q.stats
  <1>0. HostTyped(q) /\ HostInPayload(s, at, n, q.hunt)
    BY DEF HostAt
  <1>1. /\ Header(s, at) /\ hdr = Part(s, at + 2, at + 6) /\ n = at + 6 + l /\ l < len
        /\ pay = Part(s, at + 6, n) /\ q.hunt.crc = Empty
    BY <1>0 DEF HostInPayload
  <1>2. /\ q.hunt = Hunt("PAYLOAD", hdr, pay, Empty) /\ hdr \in Seq(Byte)
        /\ pay \in Seq(Byte) /\ q = Station(q.hunt, st) /\ st \in HostStats
    BY <1>0, <1>1, StationOf
  <1>3. b \in Byte
    BY ByteOf
  <1>4. HostDeliveries(q, b) = <<>>
    BY HostNoDelivery
  <1>5. P \in Seq(Byte) /\ Len(P) = l + 1 /\ l \in Nat
    BY <1>2, <1>3
  <1>6. at \in Nat /\ at + 6 \in Nat /\ at + 6 <= n /\ at + 6 <= Len(s)
    <2> HIDE DEF pay, l, len
    <2> QED
      BY <1>1, <1>5
  <1>7. HostLen(q) = len /\ len \in Nat
    BY <1>1, <1>6, HostLenIs
  <1>8. P = Part(s, at + 6, n + 1)
    BY <1>1, <1>6, PartGrows
  <1>9. q2 = IF Len(more.hunt.payload) = HostLen(q) THEN PutState(more, "CRC") ELSE more
    BY DEF FrameDecoder_push, HostOnPayload, PutPayload, PutState
  <1>10. Empty \in Seq(Byte) /\ Len(Empty) = 0
    BY EmptyIs
  <1>11. "PAYLOAD" \in HostState /\ "CRC" \in HostState
    BY DEF HostState
  <1>12. n + 1 <= Len(s)
    OBVIOUS
  <1>13. q = Station(Hunt("PAYLOAD", hdr, pay, Empty), st)
    <2> HIDE DEF hdr, pay, st
    <2> QED
      BY <1>2
  <1>14. more = Station(Hunt("PAYLOAD", hdr, P, Empty), st)
    <2> HIDE DEF hdr, pay, st, P, more
    <2> QED
      BY <1>13, HostAssign DEF more, P
  <1>15. \A x : PutState(more, x) = Station(Hunt(x, hdr, P, Empty), st)
    <2> HIDE DEF hdr, P, st, more
    <2> QED
      BY <1>14, HostAssign
  <1>t. hdr \in Seq(Byte) /\ P \in Seq(Byte) /\ st \in HostStats /\ Empty \in Seq(Byte)
    BY <1>2, <1>5, <1>10
  <1> HIDE DEF hdr, pay, P, more, q2, len, l, st
  <1>16. /\ HostTyped(more) /\ more.stats = st /\ more.hunt.state = "PAYLOAD"
         /\ more.hunt.hdr = hdr /\ more.hunt.payload = P /\ more.hunt.crc = Empty
    BY <1>t, <1>11, <1>14, StationTyped
  <1>17. CASE l + 1 = len
    <2>1. q2 = PutState(more, "CRC")
      BY <1>5, <1>7, <1>9, <1>16, <1>17
    <2>2. q2 = Station(Hunt("CRC", hdr, P, Empty), st)
      BY <1>15, <2>1
    <2>3. /\ HostTyped(q2) /\ q2.stats = st /\ q2.hunt.state = "CRC"
          /\ q2.hunt.hdr = hdr /\ q2.hunt.payload = P /\ q2.hunt.crc = Empty
      BY <1>t, <1>11, <2>2, StationTyped
    <2>4. n + 1 = at + 6 + len /\ n + 1 = at + 6 + len + Len(Empty) /\ Len(Empty) <= 1
      <3>1. n = at + 6 + l
        BY <1>1
      <3> QED
        BY <1>5, <1>6, <1>7, <1>10, <1>17, <3>1
    <2>5. Part(s, at + 6 + len, n + 1) = Empty
      <3>1. n + 1 \in Nat
        OBVIOUS
      <3>2. Part(s, n + 1, n + 1) = Empty
        BY <1>12, <3>1, PartEmpty DEF Empty
      <3> QED
        BY <2>4, <3>2
    <2>6. HostInCrc(s, at, n + 1, q2.hunt)
      <3>1. at + 6 <= n + 1
        BY <1>6
      <3> QED
        BY <1>1, <1>8, <1>10, <2>3, <2>4, <2>5, <3>1 DEF HostInCrc, len
    <2>7. HostAt(s, at, n + 1, q2)
      BY <2>3, <2>6 DEF HostAt
    <2> QED
      BY <1>4, <2>3, <2>7 DEF HostGoes, q2, st
  <1>18. CASE l + 1 # len
    <2>1. q2 = more
      BY <1>5, <1>7, <1>9, <1>16, <1>18
    <2>2. n + 1 = at + 6 + Len(P) /\ Len(P) < len
      BY <1>1, <1>5, <1>6, <1>7, <1>18
    <2>3. HostInPayload(s, at, n + 1, more.hunt)
      BY <1>1, <1>8, <1>16, <2>2 DEF HostInPayload, len
    <2>4. HostAt(s, at, n + 1, more)
      BY <1>16, <2>3 DEF HostAt
    <2> QED
      BY <1>4, <1>16, <2>1, <2>4 DEF HostGoes, q2, st
  <1> QED
    BY <1>17, <1>18

\* What the CRC of a complete frame is computed over.
LEMMA HostCovers ==
    ASSUME NEW s \in Seq(Byte), NEW at \in Nat, NEW len \in Nat, at + 6 + len <= Len(s),
           s[at + 2] = VER
    PROVE  <<VER>> \o Part(s, at + 2, at + 6) \o Part(s, at + 6, at + 6 + len) =
              Part(s, at + 1, at + 6 + len)
  <1>0. Len(s) \in Nat
    OBVIOUS
  <1>1. /\ at + 1 \in Nat /\ at + 1 < Len(s) /\ (at + 1) + 1 = at + 2
        /\ at + 2 \in Nat /\ at + 6 \in Nat /\ at + 6 + len \in Nat
        /\ at + 1 <= at + 2 /\ at + 2 <= at + 6 /\ at + 1 <= at + 6
        /\ at + 6 <= at + 6 + len /\ at + 6 <= Len(s)
    BY <1>0
  <1>2. Part(s, at + 1, at + 2) = <<VER>>
    BY <1>1, PartOne
  <1> DEFINE w == at + 1
             x == at + 2
             y == at + 6
             z == at + 6 + len
  <1>3. /\ w \in Nat /\ x \in Nat /\ y \in Nat /\ z \in Nat
        /\ w <= x /\ x <= y /\ w <= y /\ y <= z /\ y <= Len(s) /\ z <= Len(s)
    BY <1>1
  <1>4. Part(s, w, x) = <<VER>>
    BY <1>2
  <1> HIDE DEF w, x, y, z
  <1>5. Part(s, w, x) \o Part(s, x, y) = Part(s, w, y)
    BY <1>3, PartsJoin
  <1>6. Part(s, w, y) \o Part(s, y, z) = Part(s, w, z)
    BY <1>3, PartsJoin
  <1>7. <<VER>> \o Part(s, x, y) \o Part(s, y, z) = Part(s, w, z)
    BY <1>4, <1>5, <1>6
  <1> QED
    BY <1>7 DEF w, x, y, z

\* _finish_frame judges a complete frame as the grammar does.
LEMMA HostJudges ==
    ASSUME NEW s \in Seq(Byte), NEW at \in Nat, NEW len \in Nat, len = LenAt(s, at),
           at + 8 + len <= Len(s), Header(s, at), NEW q,
           q.hunt.hdr = Part(s, at + 2, at + 6), q.hunt.hdr[1] = s[at + 3],
           q.hunt.payload = Part(s, at + 6, at + 6 + len),
           q.hunt.crc = Part(s, at + 6 + len, at + 8 + len)
    PROVE  HostVerdict(q) = IF Verdict(s, at) = "frame" THEN "delivered"
                            ELSE Verdict(s, at)
  <1> DEFINE a == at + 6 + len
             hdr == q.hunt.hdr
             pay == q.hunt.payload
             crc == q.hunt.crc
             covered == <<VER>> \o hdr \o pay
             computed == gov_crc16_ccitt(GOV_CRC_INIT, covered)
             sent == 256 * s[at + 7 + len] + s[at + 8 + len]
  <1>0. Len(s) \in Nat
    OBVIOUS
  <1>1. /\ a \in Nat /\ at + 8 + len \in Nat /\ a <= at + 8 + len
        /\ (at + 8 + len) - a = 2 /\ a + 1 = at + 7 + len /\ a + 2 = at + 8 + len
        /\ a <= Len(s)
    <2> DEFINE z == Len(s)
    <2>1. z \in Nat /\ at + 8 + len <= z
      BY <1>0
    <2>0. a = at + 6 + len
      OBVIOUS
    <2>p. CrcPlace(at, len, a)
      BY CrcPlaces, Zenon
    <2> HIDE DEF z, a
    <2>2. /\ a \in Nat /\ at + 8 + len \in Nat /\ a <= at + 8 + len
          /\ (at + 8 + len) - a = 2 /\ a + 1 = at + 7 + len /\ a + 2 = at + 8 + len
      BY <2>p, Zenon DEF CrcPlace
    <2>3. a <= z
      BY <2>0, <2>1
    <2> QED
      BY <2>2, <2>3 DEF z
  <1>2. crc[1] = s[at + 7 + len] /\ crc[2] = s[at + 8 + len]
    <2>1. \A k \in 1 .. (at + 8 + len) - a : crc[k] = s[a + k]
      <3> HIDE DEF a
      <3>1. crc = Part(s, a, at + 8 + len)
        BY DEF a
      <3>2. \A k \in 1 .. (at + 8 + len) - a : Part(s, a, at + 8 + len)[k] = s[a + k]
        <4> DEFINE z == at + 8 + len
        <4>1. a \in Nat /\ z \in Nat /\ a <= z /\ z <= Len(s)
          BY <1>1
        <4> HIDE DEF z
        <4>2. \A k \in 1 .. z - a : Part(s, a, z)[k] = s[a + k]
          BY <4>1, PartTyped
        <4> QED
          BY <4>2 DEF z
      <3> QED
        BY <3>1, <3>2
    <2> HIDE DEF a, crc
    <2>2. \A k \in 1 .. 2 : crc[k] = s[a + k]
      BY <1>1, <2>1
    <2> QED
      BY <1>1, <2>2
  <1>3. covered = Part(s, at + 1, a)
    <2>1. s[at + 2] = VER
      BY DEF Header
    <2>2. <<VER>> \o Part(s, at + 2, at + 6) \o Part(s, at + 6, at + 6 + len) =
             Part(s, at + 1, at + 6 + len)
      <3>1. at + 6 + len <= Len(s)
        BY <1>1
      <3> HIDE DEF a
      <3> QED
        BY <2>1, <3>1, HostCovers
    <2> QED
      BY <2>2
  <1>4. hdr[1] = s[at + 3]
    OBVIOUS
  <1>5. CrcAt(s, at) <=> computed = sent
    BY <1>3 DEF CrcAt
  <1>6. HostVerdict(q) = IF computed # 256 * crc[1] + crc[2] THEN "crc_err"
                         ELSE IF hdr[1] \notin KnownType THEN "unknown_type"
                         ELSE "delivered"
    BY DEF HostVerdict
  <1>7. 256 * crc[1] + crc[2] = sent
    BY <1>2
  <1>8. Verdict(s, at) = IF ~CrcAt(s, at) THEN "crc_err"
                         ELSE IF s[at + 3] \notin KnownType THEN "unknown_type" ELSE "frame"
    BY DEF Verdict
  <1> HIDE DEF computed, sent, crc, hdr
  <1> QED
    BY <1>4, <1>5, <1>6, <1>7, <1>8

LEMMA HostCrc ==
    ASSUME NEW s \in Seq(Byte), NEW n \in Nat, n < Len(s), NEW at \in 0 .. n,
           NEW q, HostAt(s, at, n, q), q.hunt.state = "CRC"
    PROVE  HostGoes(s, at, n, q)
  <1> DEFINE b == s[n + 1]
             q2 == FrameDecoder_push(q, b)
             hdr == q.hunt.hdr
             pay == q.hunt.payload
             crc == q.hunt.crc
             C == Append(crc, b)
             w == WithCrc(q, b)
             len == LenAt(s, at)
             c == Len(crc)
             st == q.stats
  <1>0. HostTyped(q) /\ HostInCrc(s, at, n, q.hunt)
    BY DEF HostAt
  <1>1. /\ Header(s, at) /\ hdr = Part(s, at + 2, at + 6)
        /\ pay = Part(s, at + 6, at + 6 + len)
        /\ crc = Part(s, at + 6 + len, n)
    BY <1>0 DEF HostInCrc
  <1>2. /\ q.hunt = Hunt("CRC", hdr, pay, crc) /\ hdr \in Seq(Byte)
        /\ pay \in Seq(Byte) /\ crc \in Seq(Byte) /\ q = Station(q.hunt, st)
        /\ st \in HostStats
    BY <1>0, StationOf
  <1>3. n = at + 6 + len + c /\ c <= 1 /\ c \in Nat
    <2>1. n = at + 6 + len + c /\ c <= 1
      BY <1>0 DEF HostInCrc
    <2>2. c \in Nat
      BY <1>2, LenProperties
    <2> QED
      BY <2>1, <2>2
  <1>4. b \in Byte
    BY ByteOf
  <1>5. at \in Nat /\ len \in Nat /\ ~(len > GOV_MAX_PAYLOAD) /\ at + 6 <= Len(s)
    <2>1. at + 6 <= n
      BY <1>0 DEF HostInCrc
    <2>2. at \in Nat /\ Len(s) \in Nat /\ Len(s) - at >= 6 /\ at + 6 <= Len(s)
      BY <2>1
    <2>3. len \in Nat
      BY <2>2, LenAtTyped
    <2>4. len <= GOV_MAX_PAYLOAD
      BY <1>1 DEF Header
    <2> HIDE DEF len
    <2>5. ~(len > GOV_MAX_PAYLOAD)
      BY <2>3, <2>4, FrameAssumption
    <2> QED
      BY <2>2, <2>3, <2>5
  <1>6. C \in Seq(Byte) /\ Len(C) = c + 1
    BY <1>2, <1>4
  <1>7. w = Station(Hunt("CRC", hdr, pay, C), st)
    <2> HIDE DEF hdr, pay, crc, st, C, w
    <2>1. q = Station(Hunt("CRC", hdr, pay, crc), st)
      BY <1>2
    <2> QED
      BY <2>1, HostAssign DEF w, C
  <1> DEFINE a == at + 6 + len
  <1>8. a \in Nat /\ a <= n /\ n = a + c
    <2> HIDE DEF len, c
    <2> QED
      BY <1>3, <1>5
  <1>9. C = Part(s, a, n + 1)
    <2> HIDE DEF a
    <2>1. crc = Part(s, a, n)
      BY <1>1 DEF a
    <2> QED
      BY <1>8, <2>1, PartGrows
  <1>10. q2 = IF c = 1 THEN finish_frame(w) ELSE w
    BY DEF FrameDecoder_push, HostCrcDone
  <1>t. hdr \in Seq(Byte) /\ pay \in Seq(Byte) /\ C \in Seq(Byte) /\ st \in HostStats
    BY <1>2, <1>6
  <1>11. "CRC" \in HostState
    BY DEF HostState
  <1>12. /\ HostTyped(w) /\ w.stats = st /\ w.hunt.state = "CRC"
         /\ w.hunt.hdr = hdr /\ w.hunt.payload = pay /\ w.hunt.crc = C
    <2> HIDE DEF hdr, pay, C, st, w
    <2> QED
      BY <1>t, <1>7, <1>11, StationTyped
  <1>13. CASE c = 0
    <2>0. c # 1
      BY <1>13
    <2>1. q2 = w
      BY <1>10, <2>0
    <2>2. HostDeliveries(q, b) = <<>>
      BY <2>0 DEF HostDeliveries, HostCrcDone
    <2>3. n + 1 = at + 6 + len + Len(C) /\ Len(C) <= 1 /\ at + 6 <= n + 1
      <3> HIDE DEF len, c, C
      <3> QED
        BY <1>3, <1>5, <1>6, <1>13
    <2> HIDE DEF w, hdr, pay, crc, C, c
    <2>4. HostInCrc(s, at, n + 1, w.hunt)
      BY <1>1, <1>9, <1>12, <2>3 DEF HostInCrc
    <2>5. HostAt(s, at, n + 1, w)
      BY <1>12, <2>4 DEF HostAt
    <2> HIDE DEF q2
    <2> QED
      BY <1>12, <2>1, <2>2, <2>5 DEF HostGoes, q2, st
  <1>14. CASE c = 1
    <2>1. /\ n + 1 = at + 8 + len /\ at + 8 + len <= Len(s) /\ n + 1 = at + (8 + len)
          /\ Len(s) - at # 0 /\ Len(s) - at # 1
          /\ ~(Len(s) - at < 6) /\ ~(Len(s) - at < 8 + len)
      <3> HIDE DEF len, c
      <3>1. Len(s) \in Nat
        OBVIOUS
      <3> QED
        BY <1>5, <1>8, <1>14, <3>1
    <2>2. q2 = finish_frame(w)
      BY <1>10, <1>14
    <2>3. Token(s, at) = [kind |-> Verdict(s, at), next |-> at + (8 + len)]
      <3>1. s[at + 1] = SOF /\ s[at + 2] = VER
        BY <1>1 DEF Header
      <3> QED
        BY <1>5, <2>1, <3>1, TokenWhole
    <2>4. Token(s, at).kind = Verdict(s, at) /\ Token(s, at).next = n + 1
      BY <2>1, <2>3
    <2>5. hdr[1] = s[at + 3] /\ hdr[2] = s[at + 4]
      BY <1>1, <1>5, HostLenIs
    <2> HIDE DEF w, hdr, pay, crc, C, c, q2
    <2>6. HostVerdict(w) = IF Verdict(s, at) = "frame" THEN "delivered"
                           ELSE Verdict(s, at)
      <3>1. w.hunt.crc = Part(s, at + 6 + len, at + 8 + len)
        BY <1>9, <1>12, <2>1
      <3>2. w.hunt.hdr = Part(s, at + 2, at + 6) /\ w.hunt.hdr[1] = s[at + 3]
            /\ w.hunt.payload = Part(s, at + 6, at + 6 + len)
        BY <1>1, <1>12, <2>5
      <3> DEFINE k == len
      <3>3. k \in Nat /\ k = LenAt(s, at)
        BY <1>5
      <3>4. /\ w.hunt.crc = Part(s, at + 6 + k, at + 8 + k)
            /\ w.hunt.payload = Part(s, at + 6, at + 6 + k) /\ at + 8 + k <= Len(s)
        BY <2>1, <3>1, <3>2
      <3> HIDE DEF k
      <3> QED
        BY <1>1, <1>5, <3>2, <3>3, <3>4, HostJudges
    <2>7. HostDeliveries(q, b) = IF HostVerdict(w) = "delivered" THEN <<HostFrame(q)>>
                                 ELSE <<>>
      BY <1>14 DEF HostDeliveries, HostCrcDone, w, c, crc
    <2>8. HostFrame(q) = FrameAt(s, at)
      BY <1>1, <2>5 DEF HostFrame, FrameAt, hdr, pay
    <2>9. CASE Verdict(s, at) = "frame"
      <3>1. q2 = reset_hunt(w)
        BY <2>2, <2>6, <2>9 DEF finish_frame
      <3>2. q2 = Station(Hunt("HUNT_SOF", Empty, Empty, Empty), st)
        BY <1>7, <3>1, HostAssign
      <3>3. HostAt(s, n + 1, n + 1, q2) /\ q2.stats = st
        BY <1>t, <3>2, HostHunts
      <3>4. Advances(s, at, <<FrameAt(s, at)>>, st, st, Error)
        BY <2>4, <2>9 DEF Advances, Error
      <3>5. HostDeliveries(q, b) = <<FrameAt(s, at)>>
        BY <2>6, <2>7, <2>8, <2>9
      <3> QED
        BY <2>4, <3>3, <3>4, <3>5 DEF HostGoes, q2, st
    <2>10. CASE Verdict(s, at) # "frame"
      <3> DEFINE e == Verdict(s, at)
                 more == OneMore(st, e)
                 k == CountOne(w, e)
      <3>1. e \in Error /\ e # "delivered"
        BY <2>10 DEF Verdict, Error
      <3>2. HostVerdict(w) = e
        BY <2>6, <2>10
      <3> HIDE DEF e
      <3>3. q2 = reset_hunt(k)
        BY <2>2, <3>1, <3>2 DEF finish_frame, CountOne
      <3>4. k = Station(Hunt("CRC", hdr, pay, C), more) /\ more \in HostStats
        BY <1>t, <1>7, <3>1, HostCount
      <3> HIDE DEF k, more
      <3>5. q2 = Station(Hunt("HUNT_SOF", Empty, Empty, Empty), more)
        BY <3>3, <3>4, HostAssign
      <3>6. HostAt(s, n + 1, n + 1, q2) /\ q2.stats = more
        BY <3>4, <3>5, HostHunts
      <3>7. Token(s, at).kind = e
        BY <2>4 DEF e
      <3>8. Advances(s, at, <<>>, st, more, Error)
        BY <1>t, <3>1, <3>7, HostCounted DEF more
      <3>9. HostDeliveries(q, b) = <<>>
        BY <2>7, <3>1, <3>2
      <3> QED
        BY <2>4, <3>6, <3>8, <3>9 DEF HostGoes, q2, st
    <2> QED
      BY <2>9, <2>10
  <1>15. c = 0 \/ c = 1
    <2>1. c \in Nat /\ c <= 1
      BY <1>3
    <2> HIDE DEF c
    <2> QED
      BY <2>1
  <1> QED
    BY <1>13, <1>14, <1>15

LEMMA HostStep ==
    ASSUME NEW s \in Seq(Byte), NEW n \in Nat, n < Len(s), NEW at \in 0 .. n,
           NEW q, HostAt(s, at, n, q)
    PROVE  HostGoes(s, at, n, q)
  <1>1. q.hunt.state \in HostState
    BY StationOf DEF HostAt
  <1> QED
    BY <1>1, HostHunt, HostVersion, HostHdr, HostPayload, HostCrc DEF HostState

LEMMA HostEnd ==
    ASSUME NEW s \in Seq(Byte), NEW at \in 0 .. Len(s), NEW q,
           HostAt(s, at, Len(s), q)
    PROVE  Token(s, at).kind = "end"
  <1> DEFINE n == Len(s)
             u == q.hunt
  <1>0. /\ n \in Nat /\ at \in Nat /\ u.state \in HostState
        /\ u.hdr \in Seq(Byte) /\ u.payload \in Seq(Byte) /\ u.crc \in Seq(Byte)
    BY StationOf DEF HostAt
  <1>l. Len(u.hdr) \in Nat /\ Len(u.payload) \in Nat /\ Len(u.crc) \in Nat
    BY <1>0, LenProperties
  <1>1. CASE u.state = "HUNT_SOF"
    <2>1. at = n
      BY <1>1 DEF HostAt
    <2>2. n - at = 0
      BY <1>0, <2>1
    <2> QED
      BY <2>2, TokenEnd
  <1>2. CASE u.state = "GOT_SOF"
    <2>1. n = at + 1 /\ s[at + 1] = SOF
      BY <1>2 DEF HostAt
    <2>2. n - at = 1
      BY <1>0, <2>1
    <2> QED
      BY <2>1, <2>2, TokenEnd
  <1>3. CASE u.state = "HDR"
    <2> DEFINE l == Len(u.hdr)
    <2>1. n = at + 2 + l /\ l <= 3 /\ s[at + 1] = SOF /\ s[at + 2] = VER
      BY <1>3 DEF HostAt, HostInHdr
    <2>2. l \in Nat
      BY <1>l
    <2> HIDE DEF l
    <2>3. n - at = 2 + l
      BY <1>0, <2>1, <2>2
    <2>4. n - at < 6 /\ n - at # 0 /\ n - at # 1
      BY <2>1, <2>2, <2>3
    <2> QED
      BY <2>1, <2>4, TokenEnd
  <1>4. CASE u.state = "PAYLOAD"
    <2> DEFINE l == Len(u.payload)
               len == LenAt(s, at)
    <2>1. n = at + 6 + l /\ l < len /\ Header(s, at)
      BY <1>4 DEF HostAt, HostInPayload
    <2>2. l \in Nat
      BY <1>l
    <2>3. s[at + 1] = SOF /\ s[at + 2] = VER /\ len <= GOV_MAX_PAYLOAD
      BY <2>1 DEF Header
    <2> HIDE DEF l
    <2>4. n - at = 6 + l /\ n - at >= 6
      BY <1>0, <2>1, <2>2
    <2>5. len \in Nat
      BY <1>0, <2>4, LenAtTyped
    <2> HIDE DEF len
    <2>6. n - at # 0 /\ n - at # 1 /\ n - at < 8 + len /\ ~(len > GOV_MAX_PAYLOAD)
      BY <2>1, <2>2, <2>3, <2>4, <2>5, FrameAssumption
    <2> QED
      BY <2>3, <2>6, TokenEnd DEF len
  <1>5. CASE u.state = "CRC"
    <2> DEFINE c == Len(u.crc)
               len == LenAt(s, at)
    <2>1. n = at + 6 + len + c /\ c <= 1 /\ at + 6 <= n /\ Header(s, at)
      BY <1>5 DEF HostAt, HostInCrc
    <2>2. c \in Nat
      BY <1>l
    <2>3. s[at + 1] = SOF /\ s[at + 2] = VER /\ len <= GOV_MAX_PAYLOAD
      BY <2>1 DEF Header
    <2> HIDE DEF c
    <2>4. n - at >= 6
      BY <1>0, <2>1
    <2>5. len \in Nat
      BY <1>0, <2>4, LenAtTyped
    <2> HIDE DEF len
    <2>6. n - at = 6 + len + c
      BY <1>0, <2>1, <2>2, <2>5
    <2>7. n - at # 0 /\ n - at # 1 /\ n - at < 8 + len /\ ~(len > GOV_MAX_PAYLOAD)
      BY <2>1, <2>2, <2>3, <2>5, <2>6, FrameAssumption
    <2> QED
      BY <2>3, <2>7, TokenEnd DEF len
  <1> QED
    BY <1>0, <1>1, <1>2, <1>3, <1>4, <1>5 DEF HostState

-----------------------------------------------------------------------------
\* The invariant holds.

LEMMA FollowsStart ==
    ASSUME NEW s \in Seq(Byte), NEW kinds \in SUBSET Error, NEW st,
           \A e \in kinds : st[e] = 0
    PROVE  Follows(s, 0, <<>>, st, kinds)
  <1> DEFINE r == Grammar(s)[0]
  <1>1. 0 \in 0 .. Len(s)
    OBVIOUS
  <1>2. r \in Reading
    BY <1>1, GrammarUnfolds
  <1> HIDE DEF r
  <1>3. r.frames \in Seq(Frames) /\ \A e \in Error : r.errors[e] \in Nat
    BY <1>2 DEF Reading
  <1>4. <<>> \o r.frames = r.frames /\ <<>> \in Seq(Frames)
    BY <1>3, ConcatEmptySeq
  <1>5. \A e \in kinds : st[e] + r.errors[e] = r.errors[e]
    BY <1>3
  <1> QED
    BY <1>4, <1>5 DEF Follows, r

Counters(st, kinds) == \A e \in kinds : st[e] \in Nat

Finished(s, out, st, kinds) ==
    /\ out = Grammar(s)[0].frames
    /\ \A e \in kinds : st[e] = Grammar(s)[0].errors[e]

LEMMA FollowsEnd ==
    ASSUME NEW s \in Seq(Byte), NEW at \in 0 .. Len(s), NEW kinds \in SUBSET Error,
           NEW out, NEW st, Counters(st, kinds),
           Follows(s, at, out, st, kinds), Token(s, at).kind = "end"
    PROVE  Finished(s, out, st, kinds)
  <1>1. Grammar(s)[at] = Nothing
    BY GrammarUnfolds
  <1> DEFINE r == Grammar(s)[0]
  <1>2. /\ out \in Seq(Frames) /\ out \o Nothing.frames = r.frames
        /\ \A e \in kinds : st[e] + Nothing.errors[e] = r.errors[e]
    BY <1>1 DEF Follows
  <1> HIDE DEF r
  <1>3. Nothing.frames = <<>> /\ \A e \in Error : Nothing.errors[e] = 0
    BY DEF Nothing
  <1>4. out = r.frames
    BY <1>2, <1>3, ConcatEmptySeq
  <1>5. \A e \in kinds : st[e] = r.errors[e]
    BY <1>2, <1>3 DEF Counters
  <1> QED
    BY <1>4, <1>5 DEF r, Finished

LEMMA BytesTyped ==
    ASSUME NEW l \in Lines
    PROVE  l.bytes \in Seq(Byte) /\ l.written \in Seq(Frames) /\ Len(l.bytes) \in Nat
  <1>1. l \in [written : Seq(Frames), damaged : BOOLEAN, bytes : Seq(Byte)]
    BY LinesAssumption
  <1>2. l.bytes \in Seq(Byte) /\ l.written \in Seq(Frames)
    BY <1>1
  <1> QED
    BY <1>2, LenProperties

\* The counters are naturals.
LEMMA NodeCounters ==
    ASSUME NEW s, NEW at, NEW n, NEW q, NodeAt(s, at, n, q)
    PROVE  \A e \in NodeError : q.stats[e] \in Nat
  <1>1. q.stats \in NodeStats
    BY DEF NodeAt, NodeTyped, gov_decoder_t
  <1> QED
    BY <1>1 DEF NodeStats, NodeError

LEMMA HostCounters ==
    ASSUME NEW s, NEW at, NEW n, NEW q, HostAt(s, at, n, q)
    PROVE  \A e \in Error : q.stats[e] \in Nat
  <1>1. q.stats \in HostStats
    BY StationOf DEF HostAt
  <1> QED
    BY <1>1 DEF HostStats, Error

\* The token begins in what was read.
LEMMA NodeBehind ==
    ASSUME NEW s, NEW at \in Nat, NEW n \in Nat, NEW q, NodeAt(s, at, n, q)
    PROVE  at <= n
  <1>0. /\ q.state \in NodeState /\ q.len \in Nat /\ q.payload \in Seq(Byte)
        /\ q.hdr_idx \in Nat /\ q.crc_idx \in Nat
    BY DEF NodeAt, NodeTyped, gov_decoder_t, Uint16, HdrIdx, CrcIdx, Bytes
  <1>1. Len(q.payload) \in Nat
    BY <1>0, LenProperties
  <1>2. \/ n = at \/ n = at + 1 \/ n = at + 2 + q.hdr_idx \/ n = at + 6 + Len(q.payload)
        \/ n = at + 6 + q.len + q.crc_idx
    BY <1>0 DEF NodeAt, NodeState, NodeInVer, NodeInHdr, NodeInPayload, NodeInCrc
  <1> DEFINE l == Len(q.payload)
  <1> HIDE DEF l
  <1>3. \/ n = at \/ n = at + 1 \/ n = at + 2 + q.hdr_idx \/ n = at + 6 + l
        \/ n = at + 6 + q.len + q.crc_idx
    BY <1>2 DEF l
  <1>4. l \in Nat
    BY <1>1 DEF l
  <1> QED
    BY <1>0, <1>3, <1>4

LEMMA HostBehind ==
    ASSUME NEW s, NEW at \in Nat, NEW n \in Nat, NEW q, HostAt(s, at, n, q)
    PROVE  at <= n
  <1> DEFINE u == q.hunt
  <1>0. u.state \in HostState /\ u.hdr \in Seq(Byte) /\ u.payload \in Seq(Byte)
    BY StationOf DEF HostAt
  <1> DEFINE a == Len(u.hdr)
             b == Len(u.payload)
  <1>1. a \in Nat /\ b \in Nat
    BY <1>0, LenProperties
  <1>2. n = at \/ n = at + 1 \/ n = at + 2 + a \/ n = at + 6 + b \/ at + 6 <= n
    BY <1>0 DEF HostAt, HostState, HostInHdr, HostInPayload, HostInCrc
  <1> HIDE DEF a, b
  <1> QED
    BY <1>1, <1>2

\* When everything is read.
LEMMA NodeFinishes ==
    ASSUME NEW s \in Seq(Byte), NEW q, NEW out,
           \E at \in 0 .. Len(s) :
              NodeAt(s, at, Len(s), q) /\ Follows(s, at, out, q.stats, NodeError)
    PROVE  Finished(s, out, q.stats, NodeError)
  <1> DEFINE st == q.stats
  <1>1. PICK at \in 0 .. Len(s) : NodeAt(s, at, Len(s), q) /\ Follows(s, at, out, st, NodeError)
    OBVIOUS
  <1>2. Token(s, at).kind = "end"
    BY <1>1, NodeEnd
  <1>3. Counters(st, NodeError)
    BY <1>1, NodeCounters DEF Counters
  <1>4. NodeError \in SUBSET Error
    BY DEF NodeError, Error
  <1>5. Follows(s, at, out, st, NodeError)
    BY <1>1
  <1> HIDE DEF st
  <1>6. Finished(s, out, st, NodeError)
    BY <1>2, <1>3, <1>4, <1>5, FollowsEnd
  <1> QED
    BY <1>6 DEF st

LEMMA HostFinishes ==
    ASSUME NEW s \in Seq(Byte), NEW q, NEW out,
           \E at \in 0 .. Len(s) :
              HostAt(s, at, Len(s), q) /\ Follows(s, at, out, q.stats, Error)
    PROVE  Finished(s, out, q.stats, Error)
  <1> DEFINE st == q.stats
  <1>1. PICK at \in 0 .. Len(s) : HostAt(s, at, Len(s), q) /\ Follows(s, at, out, st, Error)
    OBVIOUS
  <1>2. Token(s, at).kind = "end"
    BY <1>1, HostEnd
  <1>3. Counters(st, Error)
    BY <1>1, HostCounters DEF Counters
  <1>4. Error \in SUBSET Error
    OBVIOUS
  <1>5. Follows(s, at, out, st, Error)
    BY <1>1
  <1> HIDE DEF st
  <1>6. Finished(s, out, st, Error)
    BY <1>2, <1>3, <1>4, <1>5, FollowsEnd
  <1> QED
    BY <1>6 DEF st

LEMMA InvInit == Init => Inv
  <1> SUFFICES ASSUME Init PROVE Inv
    OBVIOUS
  <1> DEFINE s == line.bytes
  <1>1. /\ line \in Lines /\ pos = 0 /\ d = gov_decoder_init /\ h = FrameDecoder_init
        /\ delivered = <<>> /\ received = <<>>
    BY DEF Init
  <1>2. s \in Seq(Byte) /\ Len(s) \in Nat
    BY <1>1, BytesTyped
  <1> HIDE DEF s
  <1>3. pos \in 0 .. Len(s) /\ 0 \in 0 .. pos
    BY <1>1, <1>2
  <1>4. NodeAt(s, 0, 0, d)
    <2>1. /\ 0 \in Byte /\ 0 \in Uint16 /\ 0 \in HdrIdx /\ 0 \in CrcIdx /\ <<>> \in Bytes
          /\ "HUNT_SOF" \in NodeState
      BY DEF Byte, Uint16, HdrIdx, CrcIdx, Bytes, NodeState
    <2>2. [crc_err |-> 0, len_err |-> 0, unknown_type |-> 0] \in NodeStats
      BY DEF NodeStats
    <2>3. d \in gov_decoder_t
      BY <1>1, <2>1, <2>2 DEF gov_decoder_init, gov_decoder_t
    <2>4. d.state = "HUNT_SOF" /\ d.payload = <<>>
      BY <1>1 DEF gov_decoder_init
    <2>5. Len(<<>>) <= GOV_MAX_PAYLOAD
      BY FrameAssumption
    <2> QED
      BY <2>3, <2>4, <2>5 DEF NodeAt, NodeTyped
  <1>5. Follows(s, 0, delivered, d.stats, NodeError)
    <2>1. \A e \in NodeError : d.stats[e] = 0
      BY <1>1 DEF gov_decoder_init, NodeError
    <2>2. NodeError \in SUBSET Error
      BY DEF NodeError, Error
    <2> QED
      BY <1>1, <1>2, <2>1, <2>2, FollowsStart
  <1>6. HostAt(s, 0, 0, h)
    <2> DEFINE st == [crc_err |-> 0, len_err |-> 0, unknown_type |-> 0, ver_err |-> 0]
    <2>1. st \in HostStats
      BY DEF HostStats
    <2>2. h = Station(Hunt("HUNT_SOF", Empty, Empty, Empty), st)
      BY <1>1, HuntingIs DEF FrameDecoder_init, Station
    <2> HIDE DEF st
    <2> QED
      BY <2>1, <2>2, HostHunts
  <1>7. Follows(s, 0, received, h.stats, Error)
    <2>1. \A e \in Error : h.stats[e] = 0
      BY <1>1 DEF FrameDecoder_init, Error
    <2> QED
      BY <1>1, <1>2, <2>1, FollowsStart
  <1>8. NodeReads
    BY <1>1, <1>3, <1>4, <1>5 DEF NodeReads, s
  <1>9. HostReads
    BY <1>1, <1>3, <1>6, <1>7 DEF HostReads, s
  <1> QED
    BY <1>1, <1>3, <1>8, <1>9 DEF Inv, s

\* Reading a byte: the decoder stays in its token, or the next token begins.
LEMMA NodePushes ==
    ASSUME NEW s \in Seq(Byte), NEW n \in Nat, n < Len(s), NEW q, NEW out,
           \E at \in 0 .. n : NodeAt(s, at, n, q) /\ Follows(s, at, out, q.stats, NodeError)
    PROVE  LET q2 == gov_decoder_push(q, s[n + 1])
               out2 == out \o Deliveries(q, s[n + 1])
           IN  \E at \in 0 .. n + 1 :
                  NodeAt(s, at, n + 1, q2) /\ Follows(s, at, out2, q2.stats, NodeError)
  <1> DEFINE q2 == gov_decoder_push(q, s[n + 1])
             new == Deliveries(q, s[n + 1])
  <1>1. PICK at \in 0 .. n : NodeAt(s, at, n, q) /\ Follows(s, at, out, q.stats, NodeError)
    OBVIOUS
  <1>2. NodeGoes(s, at, n, q)
    BY <1>1, NodeStep
  <1>3. \/ NodeAt(s, at, n + 1, q2) /\ new = <<>> /\ q2.stats = q.stats
        \/ /\ NodeAt(s, Token(s, at).next, n + 1, q2)
           /\ Advances(s, at, new, q.stats, q2.stats, NodeError)
    BY <1>2 DEF NodeGoes
  <1> HIDE DEF q2, new
  <1>4. \E k \in 0 .. n + 1 :
           NodeAt(s, k, n + 1, q2) /\ Follows(s, k, out \o new, q2.stats, NodeError)
    <2>1. CASE NodeAt(s, at, n + 1, q2) /\ new = <<>> /\ q2.stats = q.stats
      <3>1. out \o new = out
        BY <1>1, <2>1, ConcatEmptySeq DEF Follows
      <3>2. at \in 0 .. n + 1
        OBVIOUS
      <3> QED
        BY <1>1, <2>1, <3>1, <3>2
    <2>2. CASE /\ NodeAt(s, Token(s, at).next, n + 1, q2)
               /\ Advances(s, at, new, q.stats, q2.stats, NodeError)
      <3> DEFINE k == Token(s, at).next
      <3>1. at \in 0 .. Len(s) /\ NodeError \in SUBSET Error
        BY DEF NodeError, Error
      <3>2. \A e \in NodeError : q.stats[e] \in Nat
        BY <1>1, NodeCounters
      <3>3. k \in 0 .. Len(s) /\ Follows(s, k, out \o new, q2.stats, NodeError)
        BY <1>1, <2>2, <3>1, <3>2, FollowsOn
      <3>4. k \in 0 .. n + 1
        <4>1. k \in Nat /\ n + 1 \in Nat /\ NodeAt(s, k, n + 1, q2)
          BY <2>2, <3>3
        <4> HIDE DEF k
        <4>2. k <= n + 1
          BY <4>1, NodeBehind
        <4> QED
          BY <4>1, <4>2
      <3> QED
        BY <2>2, <3>3, <3>4
    <2> QED
      BY <1>3, <2>1, <2>2
  <1> QED
    BY <1>4 DEF q2, new

LEMMA HostPushes ==
    ASSUME NEW s \in Seq(Byte), NEW n \in Nat, n < Len(s), NEW q, NEW out,
           \E at \in 0 .. n : HostAt(s, at, n, q) /\ Follows(s, at, out, q.stats, Error)
    PROVE  LET q2 == FrameDecoder_push(q, s[n + 1])
               out2 == out \o HostDeliveries(q, s[n + 1])
           IN  \E at \in 0 .. n + 1 :
                  HostAt(s, at, n + 1, q2) /\ Follows(s, at, out2, q2.stats, Error)
  <1> DEFINE q2 == FrameDecoder_push(q, s[n + 1])
             new == HostDeliveries(q, s[n + 1])
  <1>1. PICK at \in 0 .. n : HostAt(s, at, n, q) /\ Follows(s, at, out, q.stats, Error)
    OBVIOUS
  <1>2. HostGoes(s, at, n, q)
    BY <1>1, HostStep
  <1>3. \/ HostAt(s, at, n + 1, q2) /\ new = <<>> /\ q2.stats = q.stats
        \/ /\ HostAt(s, Token(s, at).next, n + 1, q2)
           /\ Advances(s, at, new, q.stats, q2.stats, Error)
    BY <1>2 DEF HostGoes
  <1> HIDE DEF q2, new
  <1>4. \E k \in 0 .. n + 1 :
           HostAt(s, k, n + 1, q2) /\ Follows(s, k, out \o new, q2.stats, Error)
    <2>1. CASE HostAt(s, at, n + 1, q2) /\ new = <<>> /\ q2.stats = q.stats
      <3>1. out \o new = out
        BY <1>1, <2>1, ConcatEmptySeq DEF Follows
      <3>2. at \in 0 .. n + 1
        OBVIOUS
      <3> QED
        BY <1>1, <2>1, <3>1, <3>2
    <2>2. CASE /\ HostAt(s, Token(s, at).next, n + 1, q2)
               /\ Advances(s, at, new, q.stats, q2.stats, Error)
      <3> DEFINE k == Token(s, at).next
      <3>1. at \in 0 .. Len(s) /\ Error \in SUBSET Error
        OBVIOUS
      <3>2. \A e \in Error : q.stats[e] \in Nat
        BY <1>1, HostCounters
      <3>3. k \in 0 .. Len(s) /\ Follows(s, k, out \o new, q2.stats, Error)
        BY <1>1, <2>2, <3>1, <3>2, FollowsOn
      <3>4. k \in 0 .. n + 1
        <4>1. k \in Nat /\ n + 1 \in Nat /\ HostAt(s, k, n + 1, q2)
          BY <2>2, <3>3
        <4> HIDE DEF k
        <4>2. k <= n + 1
          BY <4>1, HostBehind
        <4> QED
          BY <4>1, <4>2
      <3> QED
        BY <2>2, <3>3, <3>4
    <2> QED
      BY <1>3, <2>1, <2>2
  <1> QED
    BY <1>4 DEF q2, new

LEMMA InvStep == Inv /\ [Push]_vars => Inv'
  <1> SUFFICES ASSUME Inv, [Push]_vars PROVE Inv'
    OBVIOUS
  <1> DEFINE s == line.bytes
  <1>0. line \in Lines /\ pos \in 0 .. Len(s) /\ NodeReads /\ HostReads
    BY DEF Inv
  <1>1. CASE UNCHANGED vars
    <2>1. /\ line' = line /\ pos' = pos /\ d' = d /\ h' = h
          /\ delivered' = delivered /\ received' = received
      BY <1>1 DEF vars
    <2>2. NodeReads'
      BY <1>0, <2>1 DEF NodeReads
    <2>3. HostReads'
      BY <1>0, <2>1 DEF HostReads
    <2> QED
      BY <1>0, <2>1, <2>2, <2>3 DEF Inv
  <1>2. CASE Push
    <2> DEFINE b == s[pos + 1]
    <2>1. /\ pos < Len(s) /\ pos' = pos + 1 /\ line' = line
          /\ d' = gov_decoder_push(d, b) /\ delivered' = delivered \o Deliveries(d, b)
          /\ h' = FrameDecoder_push(h, b) /\ received' = received \o HostDeliveries(h, b)
      BY <1>2 DEF Push
    <2>2. s \in Seq(Byte) /\ Len(s) \in Nat
      BY <1>0, BytesTyped
    <2>3. s' = s
      BY <2>1
    <2>4. \E at \in 0 .. pos : NodeAt(s, at, pos, d) /\ Follows(s, at, delivered, d.stats, NodeError)
      BY <1>0 DEF NodeReads
    <2>5. \E at \in 0 .. pos : HostAt(s, at, pos, h) /\ Follows(s, at, received, h.stats, Error)
      BY <1>0 DEF HostReads
    <2> HIDE DEF s
    <2>6. pos \in Nat /\ pos < Len(s) /\ pos + 1 \in 0 .. Len(s)
      BY <1>0, <2>1, <2>2
    <2>7. \E at \in 0 .. pos + 1 :
             NodeAt(s, at, pos + 1, d') /\ Follows(s, at, delivered', d'.stats, NodeError)
      BY <2>1, <2>2, <2>4, <2>6, NodePushes
    <2>8. \E at \in 0 .. pos + 1 :
             HostAt(s, at, pos + 1, h') /\ Follows(s, at, received', h'.stats, Error)
      BY <2>1, <2>2, <2>5, <2>6, HostPushes
    <2>9. NodeReads'
      BY <2>1, <2>3, <2>7 DEF NodeReads, s
    <2>10. HostReads'
      BY <2>1, <2>3, <2>8 DEF HostReads, s
    <2> QED
      BY <1>0, <2>1, <2>3, <2>6, <2>9, <2>10 DEF Inv, s
  <1> QED
    BY <1>1, <1>2

\* The inductive invariant of the two decoders: whatever the stream, each stands in
\* a token of the grammar, and what it has delivered and counted followed by what the
\* grammar reads from that token on is what the grammar reads in the whole stream.
THEOREM DecoderInvariant == Spec => []Inv
  BY InvInit, InvStep, PTL DEF Spec

\* The decoders' fields keep their types (decoder TypeOK), for every stream.
THEOREM DecoderTypeCorrect == Spec => []TypeOK
  <1>1. Inv => TypeOK
    <2> SUFFICES ASSUME Inv PROVE TypeOK
      OBVIOUS
    <2>1. d \in gov_decoder_t
      BY DEF Inv, NodeReads, NodeAt, NodeTyped
    <2>2. HostTyped(h)
      BY DEF Inv, HostReads, HostAt
    <2>3. /\ d.state \in NodeState /\ d.type \in Byte /\ d.seq \in Byte
          /\ d.len \in Uint16 /\ d.hdr_idx \in HdrIdx /\ d.crc_idx \in CrcIdx
          /\ d.crc_calc \in Uint16 /\ d.crc_rx \in Uint16 /\ d.payload \in Bytes
      BY <2>1 DEF gov_decoder_t
    <2>4. /\ h.hunt.state \in HostState /\ h.hunt.hdr \in Seq(Byte)
          /\ h.hunt.payload \in Seq(Byte) /\ h.hunt.crc \in Seq(Byte)
      BY <2>2, StationOf
    <2> QED
      BY <2>3, <2>4 DEF TypeOK, NodeState, HostState, HdrIdx, CrcIdx, Bytes
  <1> QED
    BY <1>1, DecoderInvariant, PTL

\* PROTOCOL_SPEC section 4: whatever the stream, gov_decoder_push writes a payload
\* byte inside the declared length, and that is inside the static buffer.
THEOREM DecoderNoOverrun == Spec => []NoOverrun
  <1>1. Inv => NoOverrun
    <2> SUFFICES ASSUME Inv PROVE NoOverrun
      OBVIOUS
    <2>1. PICK at \in 0 .. pos : NodeAt(line.bytes, at, pos, d)
      BY DEF Inv, NodeReads
    <2>2. Len(d.payload) <= GOV_MAX_PAYLOAD
      BY <2>1 DEF NodeAt, NodeTyped
    <2>3. ASSUME d.state = "PAYLOAD"
          PROVE  Len(d.payload) < d.len /\ d.len <= GOV_MAX_PAYLOAD
      <3>1. NodeInPayload(line.bytes, at, pos, d)
        BY <2>1, <2>3 DEF NodeAt
      <3> QED
        BY <3>1 DEF NodeInPayload, NodeHasHeader, Header
    <2> QED
      BY <2>2, <2>3 DEF NoOverrun
  <1> QED
    BY <1>1, DecoderInvariant, PTL

\* For every stream of bytes, damaged or not, the firmware's gov_decoder_push and the
\* ground station's push, fed byte by byte, deliver exactly the frames and count
\* exactly the errors that the grammar reads in the stream.
THEOREM DecodersMatchGrammar == Spec => []MatchesGrammar
  <1>1. Inv => MatchesGrammar
    <2> SUFFICES ASSUME Inv, AllRead PROVE MatchesGrammar
      BY DEF MatchesGrammar
    <2> DEFINE s == line.bytes
    <2>1. s \in Seq(Byte) /\ pos = Len(s)
      BY BytesTyped DEF Inv, AllRead
    <2>2. \E at \in 0 .. Len(s) : /\ NodeAt(s, at, Len(s), d)
                                  /\ Follows(s, at, delivered, d.stats, NodeError)
      BY <2>1 DEF Inv, NodeReads
    <2>3. \E at \in 0 .. Len(s) : /\ HostAt(s, at, Len(s), h)
                                  /\ Follows(s, at, received, h.stats, Error)
      BY <2>1 DEF Inv, HostReads
    <2> HIDE DEF s
    <2>4. /\ delivered = Grammar(s)[0].frames
          /\ \A e \in NodeError : d.stats[e] = Grammar(s)[0].errors[e]
      BY <2>1, <2>2, NodeFinishes DEF Finished
    <2>5. /\ received = Grammar(s)[0].frames
          /\ \A e \in Error : h.stats[e] = Grammar(s)[0].errors[e]
      BY <2>1, <2>3, HostFinishes DEF Finished
    <2>6. Error \ {"ver_err"} = NodeError
      BY DEF NodeError, Error
    <2> QED
      BY <2>4, <2>5, <2>6 DEF MatchesGrammar, s
  <1> QED
    BY <1>1, DecoderInvariant, PTL

-----------------------------------------------------------------------------
\* What gov_frame_encode writes is one token of the grammar.

LEMMA Halves ==
    ASSUME NEW n \in Uint16
    PROVE  n \div 256 \in Byte /\ n % 256 \in Byte /\ 256 * (n \div 256) + (n % 256) = n
  BY DEF Byte, Uint16

\* The bytes under the CRC.
Covered(f) ==
    <<VER, f.type, f.seq, Len(f.payload) \div 256, Len(f.payload) % 256>> \o f.payload

FrameCrc(f) == gov_crc16_ccitt(GOV_CRC_INIT, Covered(f))

LEMMA FrameFields ==
    ASSUME NEW f \in Frames
    PROVE  /\ f.type \in Byte /\ f.seq \in Byte /\ f.payload \in Seq(Byte)
           /\ Len(f.payload) \in Nat /\ Len(f.payload) <= GOV_MAX_PAYLOAD
           /\ Len(f.payload) \in Uint16
           /\ f = [type |-> f.type, seq |-> f.seq, payload |-> f.payload]
  <1>1. f \in [type : Byte, seq : Byte, payload : Seq(Byte)]
    BY DEF Frames
  <1>2. f.type \in Byte /\ f.seq \in Byte /\ f.payload \in Seq(Byte)
    BY <1>1
  <1>3. f = [type |-> f.type, seq |-> f.seq, payload |-> f.payload]
    BY <1>1
  <1>4. Len(f.payload) <= GOV_MAX_PAYLOAD
    BY DEF Frames
  <1> DEFINE l == Len(f.payload)
  <1>5. l \in Nat
    BY <1>2, LenProperties
  <1> HIDE DEF l
  <1>6. l \in Uint16
    <2>1. l <= GOV_MAX_PAYLOAD
      BY <1>4 DEF l
    <2> QED
      BY <1>5, <2>1, FrameAssumption DEF Uint16
  <1> QED
    BY <1>2, <1>3, <1>4, <1>5, <1>6 DEF l

\* The bytes of a frame that its CRC covers.
IsCovered(c, f, l) ==
    /\ c \in Seq(Byte) /\ Len(c) = 5 + l
    /\ c[1] = VER /\ c[2] = f.type /\ c[3] = f.seq
    /\ c[4] = l \div 256 /\ c[5] = l % 256
    /\ \A j \in 1 .. l : c[5 + j] = f.payload[j]

LEMMA CoveredIs ==
    ASSUME NEW f \in Frames, NEW l, l = Len(f.payload)
    PROVE  IsCovered(Covered(f), f, l)
  <1> DEFINE hi == l \div 256
             lo == l % 256
             hd == <<VER, f.type, f.seq, hi, lo>>
             pay == f.payload
             c == Covered(f)
  <1>1. /\ f.type \in Byte /\ f.seq \in Byte /\ pay \in Seq(Byte) /\ l \in Nat
        /\ l \in Uint16 /\ l = Len(pay)
    BY FrameFields
  <1>2. VER \in Byte /\ hi \in Byte /\ lo \in Byte
    <2>1. VER \in Byte
      BY DEF VER, Byte
    <2>2. hi \in Byte /\ lo \in Byte
      BY <1>1, Halves
    <2> QED
      BY <2>1, <2>2
  <1>5. c = hd \o pay
    BY DEF Covered
  <1> HIDE DEF hi, lo
  <1>3. hd \in Seq(Byte) /\ Len(hd) = 5
    BY <1>1, <1>2
  <1>4. hd[1] = VER /\ hd[2] = f.type /\ hd[3] = f.seq /\ hd[4] = hi /\ hd[5] = lo
    OBVIOUS
  <1> HIDE DEF hd, pay, c
  <1>6. /\ c \in Seq(Byte) /\ Len(c) = Len(hd) + Len(pay)
        /\ \A i \in 1 .. Len(hd) + Len(pay) :
              c[i] = IF i <= Len(hd) THEN hd[i] ELSE pay[i - Len(hd)]
    BY <1>1, <1>3, <1>5, ConcatProperties
  <1>7. /\ Len(c) = 5 + l
        /\ \A i \in 1 .. 5 + l : c[i] = IF i <= 5 THEN hd[i] ELSE pay[i - 5]
    BY <1>1, <1>3, <1>6
  <1>8. \A i \in 1 .. 5 : c[i] = hd[i]
    BY <1>1, <1>7
  <1>9. \A j \in 1 .. l : c[5 + j] = pay[j]
    <2> SUFFICES ASSUME NEW j \in 1 .. l PROVE c[5 + j] = pay[j]
      OBVIOUS
    <2>1. 5 + j \in 1 .. 5 + l /\ ~(5 + j <= 5) /\ (5 + j) - 5 = j
      BY <1>1
    <2> QED
      BY <1>7, <2>1
  <1>10. c[1] = VER /\ c[2] = f.type /\ c[3] = f.seq /\ c[4] = hi /\ c[5] = lo
    <2>1. 1 \in 1 .. 5 /\ 2 \in 1 .. 5 /\ 3 \in 1 .. 5 /\ 4 \in 1 .. 5 /\ 5 \in 1 .. 5
      OBVIOUS
    <2> QED
      BY <1>4, <1>8, <2>1
  <1>11. IsCovered(c, f, l)
    BY <1>6, <1>7, <1>9, <1>10 DEF IsCovered, pay, hi, lo
  <1> QED
    BY <1>11 DEF c

\* Behind the first byte of e stand the first n of c.
BehindFirst(e, c, n) == \A j \in 1 .. n : e[1 + j] = c[j]

\* The bytes of a frame.
IsEncoded(e, c, crc, l) ==
    /\ e \in Seq(Byte) /\ Len(e) = 8 + l /\ e[1] = SOF /\ BehindFirst(e, c, 5 + l)
    /\ e[7 + l] = crc \div 256 /\ e[8 + l] = crc % 256 /\ crc \in Uint16

LEMMA EncodedIs ==
    ASSUME NEW f \in Frames, NEW l, l = Len(f.payload)
    PROVE  IsEncoded(gov_frame_encode(f), Covered(f), FrameCrc(f), l)
  <1> DEFINE c == Covered(f)
             crc == FrameCrc(f)
             sof == <<SOF>>
             tail == <<crc \div 256, crc % 256>>
             front == sof \o c
             e == gov_frame_encode(f)
  <1>1. l \in Nat /\ c \in Seq(Byte) /\ Len(c) = 5 + l
    BY FrameFields, CoveredIs DEF IsCovered
  <1>2. crc \in Uint16
    <2>1. GOV_CRC_INIT \in Uint16
      BY DEF GOV_CRC_INIT, Uint16
    <2> QED
      BY <1>1, <2>1, CrcTyped DEF FrameCrc
  <1> HIDE DEF crc
  <1>3. crc \div 256 \in Byte /\ crc % 256 \in Byte /\ SOF \in Byte
    BY <1>2, Halves DEF SOF, Byte
  <1>4. /\ sof \in Seq(Byte) /\ Len(sof) = 1 /\ sof[1] = SOF
        /\ tail \in Seq(Byte) /\ Len(tail) = 2
        /\ tail[1] = crc \div 256 /\ tail[2] = crc % 256
    BY <1>3
  <1>5. e = front \o tail
    BY DEF gov_frame_encode, Covered, FrameCrc, crc
  <1>f. front = sof \o c
    OBVIOUS
  <1> HIDE DEF c, sof, tail, e, front
  <1>6. /\ front \in Seq(Byte) /\ Len(front) = Len(sof) + Len(c)
        /\ \A i \in 1 .. Len(sof) + Len(c) :
              front[i] = IF i <= Len(sof) THEN sof[i] ELSE c[i - Len(sof)]
    <2>1. sof \in Seq(Byte) /\ c \in Seq(Byte)
      BY <1>1, <1>4
    <2> QED
      BY <1>f, <2>1, ConcatProperties
  <1>7. /\ Len(front) = 6 + l
        /\ \A i \in 1 .. 6 + l : front[i] = IF i <= 1 THEN sof[i] ELSE c[i - 1]
    <2>1. Len(sof) + Len(c) = 6 + l
      BY <1>1, <1>4
    <2> QED
      BY <1>4, <1>6, <2>1
  <1>s. front \in Seq(Byte) /\ tail \in Seq(Byte)
    BY <1>4, <1>6
  <1>8. /\ e \in Seq(Byte) /\ Len(e) = Len(front) + Len(tail)
        /\ \A i \in 1 .. Len(front) + Len(tail) :
              e[i] = IF i <= Len(front) THEN front[i] ELSE tail[i - Len(front)]
    BY <1>5, <1>s, ConcatProperties
  <1>9. /\ Len(e) = 8 + l
        /\ \A i \in 1 .. 8 + l : e[i] = IF i <= 6 + l THEN front[i] ELSE tail[i - (6 + l)]
    <2>1. Len(front) + Len(tail) = 8 + l
      BY <1>1, <1>4, <1>7
    <2> QED
      BY <1>7, <1>8, <2>1
  <1>10. e[1] = SOF
    <2>1. 1 \in 1 .. 8 + l /\ 1 <= 6 + l /\ 1 \in 1 .. 6 + l /\ 1 <= 1
      BY <1>1
    <2>2. e[1] = front[1]
      BY <1>9, <2>1
    <2>3. front[1] = sof[1]
      BY <1>7, <2>1
    <2> QED
      BY <1>4, <2>2, <2>3
  <1>11. ASSUME NEW j \in 1 .. 5 + l PROVE e[1 + j] = c[j]
    <2>1. 1 + j \in 1 .. 8 + l /\ 1 + j \in 1 .. 6 + l /\ 1 + j <= 6 + l
          /\ ~(1 + j <= 1) /\ (1 + j) - 1 = j
      BY <1>1
    <2> QED
      BY <1>7, <1>9, <2>1
  <1>12. e[7 + l] = crc \div 256 /\ e[8 + l] = crc % 256
    <2>1. /\ 7 + l \in 1 .. 8 + l /\ ~(7 + l <= 6 + l) /\ (7 + l) - (6 + l) = 1
          /\ 8 + l \in 1 .. 8 + l /\ ~(8 + l <= 6 + l) /\ (8 + l) - (6 + l) = 2
      BY <1>1
    <2>2. e[7 + l] = tail[1] /\ e[8 + l] = tail[2]
      BY <1>9, <2>1
    <2> QED
      BY <1>4, <2>2
  <1>13. BehindFirst(e, c, 5 + l)
    BY <1>11 DEF BehindFirst
  <1>14. IsEncoded(e, c, crc, l)
    BY <1>2, <1>8, <1>9, <1>10, <1>12, <1>13 DEF IsEncoded
  <1> QED
    BY <1>14 DEF c, crc, e

\* The code of a frame is a sequence of bytes.
LEMMA EncodedBytes ==
    ASSUME NEW f \in Frames
    PROVE  gov_frame_encode(f) \in Seq(Byte)
  BY EncodedIs DEF IsEncoded

\* The bytes e stand in s behind its first p bytes.
Holds(s, p, e) == p + Len(e) <= Len(s) /\ \A j \in 1 .. Len(e) : s[p + j] = e[j]

\* Frames already delivered, the next one, and the others.
LEMMA Regroup ==
    ASSUME NEW x \in Seq(Frames), NEW y \in Seq(Frames), NEW z \in Seq(Frames)
    PROVE  (x \o y) \o z = x \o (y \o z)
  BY ConcatAssociative

\* An encoded frame in a stream is read back as that frame.
LEMMA EncodedToken ==
    ASSUME NEW s \in Seq(Byte), NEW p \in Nat, NEW f \in Frames,
           Holds(s, p, gov_frame_encode(f))
    PROVE  /\ Token(s, p).next = p + Len(gov_frame_encode(f))
           /\ Token(s, p).kind = IF f.type \in KnownType THEN "frame" ELSE "unknown_type"
           /\ FrameAt(s, p) = f
  <1> DEFINE l == Len(f.payload)
             e == gov_frame_encode(f)
             c == Covered(f)
             crc == FrameCrc(f)
  <1>1. l \in Nat /\ l \in Uint16 /\ l <= GOV_MAX_PAYLOAD
    BY FrameFields
  <1>2. /\ e \in Seq(Byte) /\ Len(e) = 8 + l /\ e[1] = SOF
        /\ \A j \in 1 .. 5 + l : e[1 + j] = c[j]
        /\ e[7 + l] = crc \div 256 /\ e[8 + l] = crc % 256 /\ crc \in Uint16
    <2>1. IsEncoded(e, c, crc, l)
      BY EncodedIs
    <2> HIDE DEF l, e, c, crc
    <2> QED
      BY <2>1 DEF IsEncoded, BehindFirst
  <1>3. /\ c \in Seq(Byte) /\ Len(c) = 5 + l
        /\ c[1] = VER /\ c[2] = f.type /\ c[3] = f.seq
        /\ c[4] = l \div 256 /\ c[5] = l % 256
        /\ \A j \in 1 .. l : c[5 + j] = f.payload[j]
    <2>1. IsCovered(c, f, l)
      BY CoveredIs
    <2> HIDE DEF l, c
    <2> QED
      BY <2>1 DEF IsCovered
  <1>4. p + (8 + l) <= Len(s) /\ \A j \in 1 .. 8 + l : s[p + j] = e[j]
    <2>1. p + Len(e) <= Len(s) /\ \A j \in 1 .. Len(e) : s[p + j] = e[j]
      BY DEF Holds
    <2> HIDE DEF l, e
    <2> QED
      BY <1>2, <2>1
  <1>5. Len(s) \in Nat
    OBVIOUS
  <1> HIDE DEF l, e, c, crc
  <1>6. ASSUME NEW j \in 1 .. 5 + l PROVE s[p + (1 + j)] = c[j]
    <2>1. 1 + j \in 1 .. 8 + l
      BY <1>1
    <2>2. s[p + (1 + j)] = e[1 + j]
      BY <1>4, <2>1
    <2> QED
      BY <1>2, <2>2
  <1>7. /\ s[p + 1] = SOF /\ s[p + 7 + l] = crc \div 256 /\ s[p + 8 + l] = crc % 256
    <2>1. /\ 1 \in 1 .. 8 + l /\ 7 + l \in 1 .. 8 + l /\ 8 + l \in 1 .. 8 + l
          /\ p + (7 + l) = p + 7 + l /\ p + (8 + l) = p + 8 + l
      BY <1>1
    <2>2. s[p + 1] = e[1] /\ s[p + (7 + l)] = e[7 + l] /\ s[p + (8 + l)] = e[8 + l]
      BY <1>4, <2>1
    <2> QED
      BY <1>2, <2>1, <2>2
  <1>8. /\ s[p + 2] = VER /\ s[p + 3] = f.type /\ s[p + 4] = f.seq
        /\ s[p + 5] = l \div 256 /\ s[p + 6] = l % 256
    <2>1. /\ 1 \in 1 .. 5 + l /\ 2 \in 1 .. 5 + l /\ 3 \in 1 .. 5 + l
          /\ 4 \in 1 .. 5 + l /\ 5 \in 1 .. 5 + l
      BY <1>1
    <2>2. /\ s[p + (1 + 1)] = c[1] /\ s[p + (1 + 2)] = c[2] /\ s[p + (1 + 3)] = c[3]
          /\ s[p + (1 + 4)] = c[4] /\ s[p + (1 + 5)] = c[5]
      BY <1>6, <2>1
    <2>3. 1 + 1 = 2 /\ 1 + 2 = 3 /\ 1 + 3 = 4 /\ 1 + 4 = 5 /\ 1 + 5 = 6
      OBVIOUS
    <2> QED
      BY <1>3, <2>2, <2>3
  <1>9. LenAt(s, p) = l
    <2>1. 256 * (l \div 256) + (l % 256) = l
      BY <1>1, Halves
    <2> QED
      BY <1>8, <2>1 DEF LenAt
  <1>10. Part(s, p + 6, p + 6 + l) = f.payload
    <2> DEFINE a == p + 6
               z == p + 6 + l
               x == Part(s, a, z)
               y == f.payload
    <2>1. a \in Nat /\ z \in Nat /\ a <= z /\ z <= Len(s) /\ z - a = l
      BY <1>1, <1>4, <1>5
    <2>2. y \in Seq(Byte) /\ Len(y) = l
      BY FrameFields DEF l
    <2>a. \A j \in 1 .. l : a + j = p + (1 + (5 + j))
      BY <1>1
    <2> HIDE DEF a, z, y
    <2>3. x \in Seq(Byte) /\ Len(x) = l /\ \A k \in 1 .. l : x[k] = s[a + k]
      BY <2>1, PartTyped
    <2> HIDE DEF x
    <2>4. ASSUME NEW j \in 1 .. l PROVE x[j] = y[j]
      <3>1. 5 + j \in 1 .. 5 + l
        BY <1>1
      <3>2. s[p + (1 + (5 + j))] = c[5 + j]
        BY <1>6, <3>1
      <3>3. c[5 + j] = y[j]
        BY <1>3 DEF y
      <3> QED
        BY <2>3, <2>a, <3>2, <3>3
    <2>5. Len(x) = Len(y) /\ \A j \in 1 .. Len(x) : x[j] = y[j]
      BY <2>2, <2>3, <2>4
    <2>6. x = y
      BY <2>2, <2>3, <2>5, SeqEqual
    <2> QED
      BY <2>6 DEF x, y, a, z
  <1>11. Part(s, p + 1, p + 6 + l) = c
    <2> DEFINE a == p + 1
               z == p + 6 + l
               x == Part(s, a, z)
    <2>1. a \in Nat /\ z \in Nat /\ a <= z /\ z <= Len(s) /\ z - a = 5 + l
      BY <1>1, <1>4, <1>5
    <2>a. \A j \in 1 .. 5 + l : a + j = p + (1 + j)
      BY <1>1
    <2> HIDE DEF a, z
    <2>3. x \in Seq(Byte) /\ Len(x) = 5 + l /\ \A k \in 1 .. 5 + l : x[k] = s[a + k]
      <3>1. x \in Seq(Byte) /\ Len(x) = z - a /\ \A k \in 1 .. z - a : x[k] = s[a + k]
        BY <2>1, PartTyped
      <3> HIDE DEF x
      <3> QED
        BY <2>1, <3>1
    <2> HIDE DEF x
    <2>4. ASSUME NEW j \in 1 .. 5 + l PROVE x[j] = c[j]
      BY <1>6, <2>3, <2>a
    <2>5. Len(x) = Len(c) /\ \A j \in 1 .. Len(x) : x[j] = c[j]
      BY <1>3, <2>3, <2>4
    <2>6. x = c
      BY <1>3, <2>3, <2>5, SeqEqual
    <2> QED
      BY <2>6 DEF x, a, z
  <1>12. CrcAt(s, p)
    <2>1. 256 * (crc \div 256) + (crc % 256) = crc
      BY <1>2, Halves
    <2>2. gov_crc16_ccitt(GOV_CRC_INIT, Part(s, p + 1, p + 6 + l)) = crc
      BY <1>11 DEF crc, c, FrameCrc
    <2>3. 256 * s[p + 7 + l] + s[p + 8 + l] = crc
      BY <1>7, <2>1
    <2> QED
      BY <1>9, <2>2, <2>3 DEF CrcAt
  <1>13. FrameAt(s, p) = f
    <2>1. FrameAt(s, p) = [type |-> f.type, seq |-> f.seq, payload |-> f.payload]
      BY <1>8, <1>9, <1>10 DEF FrameAt
    <2> QED
      BY <2>1, FrameFields
  <1>14. Verdict(s, p) = IF f.type \in KnownType THEN "frame" ELSE "unknown_type"
    BY <1>8, <1>12 DEF Verdict
  <1>15. /\ Len(s) - p # 0 /\ Len(s) - p # 1 /\ ~(Len(s) - p < 6) /\ ~(l > GOV_MAX_PAYLOAD)
         /\ ~(Len(s) - p < 8 + l)
    <2> DEFINE z == Len(s)
    <2>1. z \in Nat /\ p + (8 + l) <= z
      BY <1>4, <1>5
    <2> HIDE DEF z
    <2>2. z - p # 0 /\ z - p # 1 /\ ~(z - p < 6) /\ ~(z - p < 8 + l)
      BY <1>1, <2>1
    <2>3. ~(l > GOV_MAX_PAYLOAD)
      BY <1>1, FrameAssumption
    <2> QED
      BY <2>2, <2>3 DEF z
  <1>16. Token(s, p) = [kind |-> Verdict(s, p), next |-> p + (8 + l)]
    <2>1. /\ ~(LenAt(s, p) > GOV_MAX_PAYLOAD) /\ ~(Len(s) - p < 8 + LenAt(s, p))
          /\ Len(s) - p # 0 /\ Len(s) - p # 1 /\ ~(Len(s) - p < 6)
      BY <1>9, <1>15
    <2>2. s[p + 1] = SOF /\ s[p + 2] = VER
      BY <1>7, <1>8
    <2>3. Token(s, p) = [kind |-> Verdict(s, p), next |-> p + (8 + LenAt(s, p))]
      BY <2>1, <2>2, TokenWhole
    <2> QED
      BY <1>9, <2>3
  <1> QED
    BY <1>2, <1>13, <1>14, <1>16 DEF e

-----------------------------------------------------------------------------
\* Frames one after the other.

\* B[k] is the noise and the bytes of the first k frames.
IsEncoding(B, noise, fs) ==
    /\ B \in [0 .. Len(fs) -> Seq(Byte)]
    /\ B[0] = noise
    /\ \A k \in 1 .. Len(fs) : B[k] = B[k - 1] \o gov_frame_encode(fs[k])

LEMMA EncodedUnfolds ==
    ASSUME NEW noise \in Seq(Byte), NEW fs \in Seq(Frames)
    PROVE  \E B : IsEncoding(B, noise, fs) /\ Encoded(noise, fs) = B[Len(fs)]
  <1> DEFINE N == Len(fs)
             S == 0 .. N
             V == Seq(Byte)
             on(b, k) == b \o gov_frame_encode(fs[k])
             step == [p \in (1 .. N) \X V |-> on(p[2], p[1])]
             F(f) == f = [k \in S |-> IF k = 0 THEN noise ELSE f[k - 1] \o gov_frame_encode(fs[k])]
  <1>0. N \in Nat
    BY LenProperties
  <1>on. \A b \in V : \A k \in 1 .. N : on(b, k) \in V
    <2> SUFFICES ASSUME NEW b \in V, NEW k \in 1 .. N PROVE on(b, k) \in V
      OBVIOUS
    <2>1. fs[k] \in Frames
      BY ElementOfSeq
    <2>2. gov_frame_encode(fs[k]) \in Seq(Byte)
      BY <2>1, EncodedBytes
    <2> QED
      BY <2>2, ConcatProperties
  <1> HIDE DEF on
  <1>1. PICK g \in [S -> V] :
           g[0] = noise /\ \A k \in 1 .. N : g[k] = step[<<k, g[k - 1]>>]
    <2>1. step \in [(1 .. N) \X V -> V] /\ noise \in V
      BY <1>on
    <2> DEFINE D == (1 .. N) \X V
    <2>2. D = (1 .. N) \X V /\ step \in [D -> V]
      BY <2>1
    <2> HIDE DEF N, V, D, step
    <2>3. PICK g : Iterates(g, N, V, noise, step)
      BY <1>0, <2>1, <2>2, Iteration
    <2> QED
      BY <2>3 DEF Iterates
  <1>2. \A i \in S : i = 0 \/ i \in 1 .. N
    BY <1>0
  <1>3. ASSUME NEW i \in S
        PROVE  g[i] = IF i = 0 THEN noise ELSE on(g[i - 1], i)
    <2>1. CASE i = 0
      BY <1>1, <2>1
    <2>2. CASE i # 0
      <3>1. i \in 1 .. N /\ i - 1 \in S
        BY <1>0, <1>2, <2>2
      <3>2. g[i] = step[<<i, g[i - 1]>>] /\ g[i - 1] \in V
        BY <1>1, <3>1
      <3>3. step[<<i, g[i - 1]>>] = on(g[i - 1], i)
        BY <3>1, <3>2
      <3> QED
        BY <2>2, <3>2, <3>3
    <2> QED
      BY <2>1, <2>2
  <1>4. F(g)
    <2>1. g = [i \in S |-> g[i]]
      BY <1>1
    <2> QED
      BY <1>3, <2>1 DEF on
  <1> DEFINE B == CHOOSE f : F(f)
  <1>5. Encoded(noise, fs) = B[N]
    BY DEF Encoded
  <1>6. F(B)
    <2> HIDE DEF F
    <2> QED
      BY <1>4
  <1> HIDE DEF B
  <1>7. \A k \in S : B[k] = IF k = 0 THEN noise ELSE on(B[k - 1], k)
    BY <1>6 DEF on
  <1>8. B[0] = noise /\ \A k \in 1 .. N : B[k] = on(B[k - 1], k)
    BY <1>0, <1>7
  <1> DEFINE T == {n \in Nat : n <= N => B[n] \in V}
  <1>9. 0 \in T
    BY <1>8
  <1>10. ASSUME NEW n \in Nat, n \in T PROVE n + 1 \in T
    <2> SUFFICES ASSUME n + 1 <= N PROVE B[n + 1] \in V
      OBVIOUS
    <2>1. n + 1 \in 1 .. N /\ (n + 1) - 1 = n /\ n <= N
      BY <1>0
    <2>2. B[n] \in V
      BY <1>10, <2>1
    <2>3. B[n + 1] = on(B[n], n + 1)
      BY <1>8, <2>1
    <2> QED
      BY <1>on, <2>1, <2>2, <2>3
  <1>11. Nat \subseteq T
    <2> HIDE DEF T
    <2> QED
      BY <1>9, <1>10, Induction
  <1>12. \A n \in S : B[n] \in V
    BY <1>0, <1>11
  <1>13. B \in [S -> V]
    BY <1>6, <1>12
  <1>14. IsEncoding(B, noise, fs)
    BY <1>8, <1>13 DEF IsEncoding, on
  <1> QED
    BY <1>5, <1>14

\* K[k] is the frames of a known type among the first k.
IsDeliverable(K, fs) ==
    /\ K \in [0 .. Len(fs) -> Seq(Frames)]
    /\ K[0] = <<>>
    /\ \A k \in 1 .. Len(fs) :
          K[k] = IF fs[k].type \in KnownType THEN Append(K[k - 1], fs[k]) ELSE K[k - 1]

LEMMA DeliverableUnfolds ==
    ASSUME NEW fs \in Seq(Frames)
    PROVE  \E K : IsDeliverable(K, fs) /\ Deliverable(fs) = K[Len(fs)]
  <1> DEFINE N == Len(fs)
             S == 0 .. N
             V == Seq(Frames)
             on(b, k) == IF fs[k].type \in KnownType THEN Append(b, fs[k]) ELSE b
             step == [p \in (1 .. N) \X V |-> on(p[2], p[1])]
             F(f) == f = [k \in S |-> IF k = 0 THEN <<>>
                                      ELSE IF fs[k].type \in KnownType
                                           THEN Append(f[k - 1], fs[k]) ELSE f[k - 1]]
  <1>0. N \in Nat
    BY LenProperties
  <1>e. Empty \in V
    BY DEF Empty
  <1>on. \A b \in V : \A k \in 1 .. N : on(b, k) \in V
    <2> SUFFICES ASSUME NEW b \in V, NEW k \in 1 .. N PROVE on(b, k) \in V
      OBVIOUS
    <2>1. fs[k] \in Frames
      BY ElementOfSeq
    <2>2. Append(b, fs[k]) \in V
      BY <2>1, AppendProperties
    <2> QED
      BY <2>2
  <1> HIDE DEF on
  <1>1. PICK g \in [S -> V] :
           g[0] = Empty /\ \A k \in 1 .. N : g[k] = step[<<k, g[k - 1]>>]
    <2>1. step \in [(1 .. N) \X V -> V] /\ Empty \in V
      BY <1>on, <1>e
    <2> DEFINE D == (1 .. N) \X V
    <2>2. D = (1 .. N) \X V /\ step \in [D -> V]
      BY <2>1
    <2> HIDE DEF N, V, D, step
    <2>3. PICK g : Iterates(g, N, V, Empty, step)
      BY <1>0, <2>1, <2>2, Iteration
    <2> QED
      BY <2>3 DEF Iterates
  <1>2. \A i \in S : i = 0 \/ i \in 1 .. N
    BY <1>0
  <1>3. ASSUME NEW i \in S
        PROVE  g[i] = IF i = 0 THEN Empty ELSE on(g[i - 1], i)
    <2>1. CASE i = 0
      BY <1>1, <2>1
    <2>2. CASE i # 0
      <3>1. i \in 1 .. N /\ i - 1 \in S
        BY <1>0, <1>2, <2>2
      <3>2. g[i] = step[<<i, g[i - 1]>>] /\ g[i - 1] \in V
        BY <1>1, <3>1
      <3>3. step[<<i, g[i - 1]>>] = on(g[i - 1], i)
        BY <3>1, <3>2
      <3> QED
        BY <2>2, <3>2, <3>3
    <2> QED
      BY <2>1, <2>2
  <1>4. F(g)
    <2>1. g = [i \in S |-> g[i]]
      BY <1>1
    <2> QED
      BY <1>3, <2>1 DEF on, Empty
  <1> DEFINE K == CHOOSE f : F(f)
  <1>5. Deliverable(fs) = K[N]
    BY DEF Deliverable
  <1>6. F(K)
    <2> HIDE DEF F
    <2> QED
      BY <1>4
  <1> HIDE DEF K
  <1>7. \A k \in S : K[k] = IF k = 0 THEN Empty ELSE on(K[k - 1], k)
    BY <1>6 DEF on, Empty
  <1>8. K[0] = Empty /\ \A k \in 1 .. N : K[k] = on(K[k - 1], k)
    BY <1>0, <1>7
  <1> DEFINE T == {n \in Nat : n <= N => K[n] \in V}
  <1>9. 0 \in T
    BY <1>8, <1>e
  <1>10. ASSUME NEW n \in Nat, n \in T PROVE n + 1 \in T
    <2> SUFFICES ASSUME n + 1 <= N PROVE K[n + 1] \in V
      OBVIOUS
    <2>1. n + 1 \in 1 .. N /\ (n + 1) - 1 = n /\ n <= N
      BY <1>0
    <2>2. K[n] \in V
      BY <1>10, <2>1
    <2>3. K[n + 1] = on(K[n], n + 1)
      BY <1>8, <2>1
    <2> QED
      BY <1>on, <2>1, <2>2, <2>3
  <1>11. Nat \subseteq T
    <2> HIDE DEF T
    <2> QED
      BY <1>9, <1>10, Induction
  <1>12. \A n \in S : K[n] \in V
    BY <1>0, <1>11
  <1>13. K \in [S -> V]
    BY <1>6, <1>12
  <1>14. IsDeliverable(K, fs)
    BY <1>8, <1>13 DEF IsDeliverable, on, Empty
  <1> QED
    BY <1>5, <1>14

\* s begins with e.
Starts(s, e) == Len(e) <= Len(s) /\ \A j \in 1 .. Len(e) : s[j] = e[j]

LEMMA StartsConcat ==
    ASSUME NEW a \in Seq(Byte), NEW b \in Seq(Byte), NEW e \in Seq(Byte), Starts(a, e)
    PROVE  Starts(a \o b, e)
  <1> DEFINE c == a \o b
             m == Len(a)
             n == Len(b)
             k == Len(e)
  <1>1. /\ Len(c) = m + n
        /\ \A i \in 1 .. m + n : c[i] = IF i <= m THEN a[i] ELSE b[i - m]
    BY ConcatProperties
  <1>2. m \in Nat /\ n \in Nat /\ k \in Nat
    BY LenProperties
  <1>3. k <= m /\ \A j \in 1 .. k : a[j] = e[j]
    BY DEF Starts
  <1> HIDE DEF c, m, n, k
  <1>4. k <= Len(c)
    BY <1>1, <1>2, <1>3
  <1>5. ASSUME NEW j \in 1 .. k PROVE c[j] = e[j]
    <2>1. j \in 1 .. m + n /\ j <= m
      BY <1>2, <1>3
    <2> QED
      BY <1>1, <1>3, <2>1
  <1> QED
    BY <1>4, <1>5 DEF Starts, c, k

\* The bytes of the first k frames begin those of all of them.
LEMMA EncodingStarts ==
    ASSUME NEW noise \in Seq(Byte), NEW fs \in Seq(Frames), NEW B,
           IsEncoding(B, noise, fs), NEW k \in 0 .. Len(fs)
    PROVE  Starts(B[Len(fs)], B[k])
  <1> DEFINE N == Len(fs)
             T == {m \in Nat : m >= k /\ m <= N => Starts(B[m], B[k])}
  <1>0. N \in Nat /\ k \in Nat
    BY LenProperties
  <1>1. \A m \in 0 .. N : B[m] \in Seq(Byte)
    BY DEF IsEncoding
  <1>2. 0 \in T
    <2> SUFFICES ASSUME 0 >= k PROVE Starts(B[0], B[k])
      OBVIOUS
    <2>1. k = 0
      BY <1>0
    <2> QED
      BY <1>0, <1>1, <2>1 DEF Starts
  <1>3. ASSUME NEW m \in Nat, m \in T PROVE m + 1 \in T
    <2> SUFFICES ASSUME m + 1 >= k, m + 1 <= N PROVE Starts(B[m + 1], B[k])
      OBVIOUS
    <2>1. CASE k = m + 1
      <3>1. B[k] \in Seq(Byte) /\ Len(B[k]) \in Nat
        BY <1>1, LenProperties
      <3> QED
        BY <2>1, <3>1 DEF Starts
    <2>2. CASE k # m + 1
      <3>1. m >= k /\ m <= N /\ m + 1 \in 1 .. N /\ (m + 1) - 1 = m /\ m \in 0 .. N
        BY <1>0, <2>2
      <3>2. Starts(B[m], B[k])
        BY <1>3, <3>1
      <3>3. B[m + 1] = B[m] \o gov_frame_encode(fs[m + 1])
        BY <3>1 DEF IsEncoding
      <3>4. fs[m + 1] \in Frames
        BY <3>1, ElementOfSeq
      <3>5. gov_frame_encode(fs[m + 1]) \in Seq(Byte)
        BY <3>4, EncodedBytes
      <3> DEFINE a == B[m]
                 b == gov_frame_encode(fs[m + 1])
                 e == B[k]
      <3>6. a \in Seq(Byte) /\ b \in Seq(Byte) /\ e \in Seq(Byte) /\ Starts(a, e)
        BY <1>1, <3>1, <3>2, <3>5
      <3> HIDE DEF a, b, e
      <3>7. Starts(a \o b, e)
        BY <3>6, StartsConcat
      <3> QED
        BY <3>3, <3>7 DEF a, b, e
    <2> QED
      BY <2>1, <2>2
  <1>4. Nat \subseteq T
    <2> HIDE DEF T
    <2> QED
      BY <1>2, <1>3, Induction
  <1> QED
    BY <1>0, <1>4

\* Frame k stands behind the bytes of the frames in front of it.
LEMMA FrameStands ==
    ASSUME NEW noise \in Seq(Byte), NEW fs \in Seq(Frames), NEW B,
           IsEncoding(B, noise, fs), NEW k \in 1 .. Len(fs)
    PROVE  /\ Holds(B[Len(fs)], Len(B[k - 1]), gov_frame_encode(fs[k]))
           /\ Len(B[k]) = Len(B[k - 1]) + Len(gov_frame_encode(fs[k]))
           /\ fs[k] \in Frames
  <1> DEFINE N == Len(fs)
             s == B[N]
             a == B[k - 1]
             b == gov_frame_encode(fs[k])
             c == B[k]
             m == Len(a)
             n == Len(b)
  <1>0. N \in Nat /\ k \in 0 .. N /\ k - 1 \in 0 .. N
    BY LenProperties
  <1>1. fs[k] \in Frames
    BY ElementOfSeq
  <1>2. a \in Seq(Byte) /\ c = a \o b
    BY <1>0 DEF IsEncoding
  <1>3. b \in Seq(Byte)
    BY <1>1, EncodedBytes
  <1>4. Starts(s, c)
    BY <1>0, EncodingStarts
  <1> HIDE DEF s, a, b, c, N
  <1>5. m \in Nat /\ n \in Nat
    BY <1>2, <1>3, LenProperties
  <1>6. /\ Len(c) = m + n
        /\ \A i \in 1 .. m + n : c[i] = IF i <= m THEN a[i] ELSE b[i - m]
    BY <1>2, <1>3, ConcatProperties
  <1>7. m + n <= Len(s) /\ \A j \in 1 .. m + n : s[j] = c[j]
    BY <1>4, <1>6 DEF Starts
  <1> HIDE DEF m, n
  <1>8. ASSUME NEW j \in 1 .. n PROVE s[m + j] = b[j]
    <2>1. m + j \in 1 .. m + n /\ ~(m + j <= m) /\ (m + j) - m = j
      BY <1>5
    <2> QED
      BY <1>6, <1>7, <2>1
  <1>9. Holds(s, m, b)
    BY <1>7, <1>8 DEF Holds, n
  <1> QED
    BY <1>1, <1>6, <1>9 DEF s, a, b, c, m, n, N

\* Noise without a SOF is skipped.
LEMMA NoiseSkipped ==
    ASSUME NEW s \in Seq(Byte), NEW n \in 0 .. Len(s), \A i \in 1 .. n : s[i] # SOF
    PROVE  Grammar(s)[n].frames = Grammar(s)[0].frames
  <1> DEFINE R == Grammar(s)
             T == {i \in Nat : i <= n => R[i].frames = R[0].frames}
  <1>0. n \in Nat /\ Len(s) \in Nat
    OBVIOUS
  <1>1. 0 \in T
    OBVIOUS
  <1>2. ASSUME NEW i \in Nat, i \in T PROVE i + 1 \in T
    <2> SUFFICES ASSUME i + 1 <= n PROVE R[i + 1].frames = R[0].frames
      OBVIOUS
    <2>1. i + 1 \in 1 .. n /\ i <= n /\ Len(s) - i # 0 /\ i \in 0 .. Len(s)
      BY <1>0
    <2>2. R[i].frames = R[0].frames /\ s[i + 1] # SOF
      BY <1>2, <2>1
    <2>3. Token(s, i) = [kind |-> "noise", next |-> i + 1]
      BY <2>1, <2>2, TokenNoise
    <2>4. Token(s, i).kind = "noise" /\ Token(s, i).next = i + 1
      BY <2>3
    <2>5. R[i] = Before(s, i, R[i + 1])
      BY <2>1, <2>4, GrammarUnfolds
    <2>6. R[i].frames = R[i + 1].frames
      BY <2>4, <2>5 DEF Before
    <2> QED
      BY <2>2, <2>6
  <1>3. Nat \subseteq T
    <2> HIDE DEF T
    <2> QED
      BY <1>1, <1>2, Induction
  <1> QED
    BY <1>0, <1>3

\* The grammar reads the frames that were encoded.
LEMMA CleanRead ==
    ASSUME NEW noise \in Seq(Byte), NEW fs \in Seq(Frames),
           \A i \in 1 .. Len(noise) : noise[i] # SOF, NEW s, s = Encoded(noise, fs)
    PROVE  Grammar(s)[0].frames = Deliverable(fs)
  <1> DEFINE N == Len(fs)
             R == Grammar(s)
  <1>0. N \in Nat
    BY LenProperties
  <1>1. PICK B : IsEncoding(B, noise, fs) /\ s = B[N]
    BY EncodedUnfolds
  <1>2. PICK K : IsDeliverable(K, fs) /\ Deliverable(fs) = K[N]
    BY DeliverableUnfolds
  <1>3. s \in Seq(Byte) /\ Len(s) \in Nat
    <2>1. B[N] \in Seq(Byte)
      BY <1>0, <1>1 DEF IsEncoding
    <2> QED
      BY <1>1, <2>1, LenProperties
  <1> DEFINE P(k) == Len(B[k])
             Good(k) == K[k] \o R[P(k)].frames = R[0].frames
             T == {k \in Nat : k <= N => Good(k)}
  <1>4. \A k \in 0 .. N : P(k) \in 0 .. Len(s)
    <2> SUFFICES ASSUME NEW k \in 0 .. N PROVE P(k) \in 0 .. Len(s)
      OBVIOUS
    <2>1. B[k] \in Seq(Byte)
      BY <1>1 DEF IsEncoding
    <2>2. P(k) \in Nat
      BY <2>1, LenProperties
    <2>3. Starts(s, B[k])
      BY <1>1, EncodingStarts
    <2>4. P(k) <= Len(s)
      BY <2>3 DEF Starts
    <2> HIDE DEF P
    <2> QED
      BY <1>3, <2>2, <2>4
  <1>5. \A k \in 0 .. N : R[P(k)].frames \in Seq(Frames) /\ K[k] \in Seq(Frames)
    <2> SUFFICES ASSUME NEW k \in 0 .. N
                 PROVE  R[P(k)].frames \in Seq(Frames) /\ K[k] \in Seq(Frames)
      OBVIOUS
    <2>1. R[P(k)] \in Reading
      BY <1>3, <1>4, GrammarUnfolds
    <2> QED
      BY <1>2, <2>1 DEF Reading, IsDeliverable
  <1>6. 0 \in T
    <2>1. B[0] = noise /\ K[0] = <<>> /\ 0 \in 0 .. N
      BY <1>0, <1>1, <1>2 DEF IsEncoding, IsDeliverable
    <2>2. Starts(s, noise)
      BY <1>1, <2>1, EncodingStarts
    <2>3. P(0) \in 0 .. Len(s) /\ \A i \in 1 .. P(0) : s[i] # SOF
      BY <1>4, <2>1, <2>2 DEF Starts
    <2>4. R[P(0)].frames = R[0].frames
      BY <1>3, <2>3, NoiseSkipped
    <2>5. R[P(0)].frames \in Seq(Frames)
      BY <1>5, <2>1
    <2> DEFINE r == R[P(0)].frames
    <2> HIDE DEF r
    <2>6. <<>> \o r = r
      BY <2>5, ConcatEmptySeq DEF r
    <2> QED
      BY <2>1, <2>4, <2>6 DEF r
  <1>7. ASSUME NEW k \in Nat, k \in T PROVE k + 1 \in T
    <2> HIDE DEF Good
    <2> SUFFICES ASSUME k + 1 <= N PROVE Good(k + 1)
      OBVIOUS
    <2>1. k + 1 \in 1 .. N /\ (k + 1) - 1 = k /\ k \in 0 .. N /\ k + 1 \in 0 .. N /\ k <= N
      BY <1>0
    <2> DEFINE f == fs[k + 1]
               e == gov_frame_encode(f)
               p == P(k)
               rest == R[P(k + 1)].frames
               before == K[k]
    <2>2. Holds(s, p, e) /\ P(k + 1) = p + Len(e) /\ f \in Frames
      <3> DEFINE i == k + 1
      <3>1. i \in 1 .. Len(fs) /\ i - 1 = k
        BY <2>1
      <3> HIDE DEF i
      <3>2. /\ Holds(B[Len(fs)], Len(B[i - 1]), gov_frame_encode(fs[i]))
            /\ Len(B[i]) = Len(B[i - 1]) + Len(gov_frame_encode(fs[i]))
            /\ fs[i] \in Frames
        BY <1>1, <3>1, FrameStands
      <3> QED
        BY <1>1, <3>1, <3>2 DEF i
    <2>3. p \in 0 .. Len(s) /\ p \in Nat
      BY <1>3, <1>4, <2>1
    <2>4. /\ Token(s, p).next = P(k + 1) /\ FrameAt(s, p) = f
          /\ Token(s, p).kind = IF f.type \in KnownType THEN "frame" ELSE "unknown_type"
      <3> HIDE DEF p, f, P
      <3> QED
        BY <1>3, <2>2, <2>3, EncodedToken
    <2>5. R[p] = Before(s, p, R[P(k + 1)])
      <3>1. Token(s, p).kind # "end"
        BY <2>4
      <3> HIDE DEF p, P, f
      <3> QED
        BY <1>3, <2>3, <2>4, <3>1, GrammarUnfolds
    <2>6. before \o R[p].frames = R[0].frames
      <3>1. Good(k)
        BY <1>7, <2>1
      <3> QED
        BY <3>1 DEF Good
    <2>7. rest \in Seq(Frames) /\ before \in Seq(Frames)
      BY <1>5, <2>1
    <2>8. K[k + 1] = IF f.type \in KnownType THEN Append(before, f) ELSE before
      BY <1>2, <2>1 DEF IsDeliverable
    <2>9. R[p].frames = IF Token(s, p).kind = "frame" THEN <<FrameAt(s, p)>> \o rest ELSE rest
      BY <2>5 DEF Before
    <2> HIDE DEF f, e, p, rest, before, R
    <2>10. CASE f.type \in KnownType
      <3>1. R[p].frames = <<f>> \o rest /\ K[k + 1] = Append(before, f)
        BY <2>4, <2>8, <2>9, <2>10
      <3>2. Append(before, f) = before \o <<f>> /\ <<f>> \in Seq(Frames)
        BY <2>2, <2>7, AppendIsConcat
      <3> DEFINE one == <<f>>
      <3>3. one \in Seq(Frames)
        BY <3>2
      <3>4. R[p].frames = one \o rest /\ K[k + 1] = before \o one
        BY <3>1, <3>2
      <3> HIDE DEF one
      <3>5. (before \o one) \o rest = before \o (one \o rest)
        BY <2>7, <3>3, Regroup
      <3> QED
        BY <2>6, <3>4, <3>5 DEF rest, Good
    <2>11. CASE f.type \notin KnownType
      <3>1. R[p].frames = rest /\ K[k + 1] = before
        BY <2>4, <2>8, <2>9, <2>11
      <3> QED
        BY <2>6, <3>1 DEF rest, Good
    <2> QED
      BY <2>10, <2>11
  <1>8. Nat \subseteq T
    <2> HIDE DEF T
    <2> QED
      BY <1>6, <1>7, Induction
  <1>9. K[N] \o R[P(N)].frames = R[0].frames
    <2> HIDE DEF Good
    <2>1. Good(N)
      BY <1>0, <1>8
    <2> QED
      BY <2>1 DEF Good
  <1>10. R[P(N)] = Nothing
    <2>1. P(N) = Len(s)
      BY <1>1
    <2>2. Len(s) - Len(s) = 0 /\ Len(s) \in 0 .. Len(s)
      BY <1>3
    <2>3. Token(s, Len(s)).kind = "end"
      BY <2>2, TokenEnd
    <2> QED
      BY <1>3, <2>1, <2>2, <2>3, GrammarUnfolds
  <1>11. Nothing.frames = <<>>
    BY DEF Nothing
  <1>12. K[N] \in Seq(Frames)
    BY <1>0, <1>5
  <1> DEFINE x == K[N]
  <1>13. x \o <<>> = x
    <2> HIDE DEF x
    <2> QED
      BY <1>12, ConcatEmptySeq DEF x
  <1> QED
    BY <1>2, <1>9, <1>10, <1>11, <1>13

\* PROTOCOL_SPEC section 4, concatenation, and registry F09, for every sequence of
\* frames and every noise without a SOF in front of them: when the stream has been
\* read, gov_decoder_push has delivered every frame of a known type that
\* gov_frame_encode wrote, in order and unchanged.
THEOREM CleanStreamsDelivered == Spec => []CleanStreamDelivered
  <1>1. Inv => CleanStreamDelivered
    <2> SUFFICES ASSUME Inv, AllRead, ~line.damaged
                 PROVE  delivered = Deliverable(line.written)
      BY DEF CleanStreamDelivered
    <2> DEFINE s == line.bytes
               fs == line.written
    <2>1. line \in Lines /\ s \in Seq(Byte) /\ fs \in Seq(Frames) /\ pos = Len(s)
      BY BytesTyped DEF Inv, AllRead
    <2>2. Clean(line)
      BY <2>1, LinesAssumption
    <2>3. PICK n \in 0 .. Len(s) : /\ \A i \in 1 .. n : s[i] # SOF
                                   /\ s = Encoded(SubSeq(s, 1, n), fs)
      BY <2>2 DEF Clean
    <2>4. \E at \in 0 .. Len(s) : /\ NodeAt(s, at, Len(s), d)
                                  /\ Follows(s, at, delivered, d.stats, NodeError)
      BY <2>1 DEF Inv, NodeReads
    <2> HIDE DEF s, fs
    <2>5. delivered = Grammar(s)[0].frames
      BY <2>1, <2>4, NodeFinishes DEF Finished
    <2> DEFINE noise == SubSeq(s, 1, n)
    <2>6. noise \in Seq(Byte) /\ \A i \in 1 .. Len(noise) : noise[i] # SOF
      <3>1. Len(s) \in Nat
        BY <2>1, LenProperties
      <3>2. 1 \in 1 .. Len(s) + 1 /\ n \in 1 - 1 .. Len(s) /\ n - 1 + 1 = n
        BY <3>1
      <3>3. /\ noise \in Seq(Byte) /\ Len(noise) = n - 1 + 1
            /\ \A i \in 1 .. n - 1 + 1 : noise[i] = s[1 + i - 1]
        BY <2>1, <3>2, SubSeqProperties
      <3> HIDE DEF noise
      <3>4. \A i \in 1 .. n : 1 + i - 1 = i
        OBVIOUS
      <3> QED
        BY <2>3, <3>2, <3>3, <3>4
    <2>7. s = Encoded(noise, fs)
      BY <2>3
    <2> HIDE DEF noise
    <2>8. Grammar(s)[0].frames = Deliverable(fs)
      BY <2>1, <2>6, <2>7, CleanRead
    <2> QED
      BY <2>5, <2>8 DEF fs
  <1> QED
    BY <1>1, DecoderInvariant, PTL

-----------------------------------------------------------------------------
\* The payloads of telemetry and heartbeat.

Int32 == {n \in Int : -2147483648 <= n /\ n <= 2147483647}

\* struct gov_telem_record and struct gov_heartbeat; a uint32_t is written as the
\* signed number with its bit pattern, as in Telem.
TelemRecords ==
    [tick : Int32, setpoint : Int32, measurement : Int32, output : Int32,
     state : Byte, fault_flags : Int32]

Heartbeats == [state : Byte, fault_flags : Int32, uptime_count : Int32]

\* Four bytes, two's complement, big-endian.
LEMMA WordBytes ==
    ASSUME NEW v \in Int32
    PROVE  /\ put_u32(v) \in Seq(Byte) /\ Len(put_u32(v)) = 4
           /\ (v \div 16777216) % 256 \in Byte
  <1> DEFINE a == (v \div 16777216) % 256
             b == (v \div 65536) % 256
             c == (v \div 256) % 256
             e == v % 256
  <1>1. v \in Int
    BY DEF Int32
  <1>2. a \in Byte /\ b \in Byte /\ c \in Byte /\ e \in Byte
    BY <1>1, SMT DEF Byte
  <1>3. put_u32(v) = <<a, b, c, e>>
    BY DEF put_u32
  <1> HIDE DEF a, b, c, e
  <1>4. <<a, b, c, e>> \in Seq(Byte) /\ Len(<<a, b, c, e>>) = 4
    BY <1>2, SMT
  <1> QED
    BY <1>2, <1>3, <1>4 DEF a

LEMMA WordValue ==
    ASSUME NEW v \in Int32, NEW t, t = (v \div 16777216) % 256
    PROVE  (IF t < 128 THEN t ELSE t - 256) * 16777216 + ((v \div 65536) % 256) * 65536 +
              ((v \div 256) % 256) * 256 + (v % 256) = v
  <1> DEFINE a == v \div 256
             b == v \div 65536
             c == v \div 16777216
             x == a % 256
             y == b % 256
             z == v % 256
  <1>1. v \in Int /\ -2147483648 <= v /\ v <= 2147483647
    BY SMT DEF Int32
  <1>2. v = 256 * a + z /\ a \in Int /\ z \in Int
    BY <1>1, SMT
  <1>3. b = a \div 256 /\ b \in Int /\ c = b \div 256 /\ c \in Int
    BY <1>1, SMT
  <1>4. a = 256 * b + x /\ b = 256 * c + y /\ x \in Int /\ y \in Int
    BY <1>2, <1>3, SMT
  <1>5. c \in -128 .. 127 /\ t = c % 256
    BY <1>1, SMT
  <1>6. (IF t < 128 THEN t ELSE t - 256) = c
    <2> HIDE DEF c
    <2> QED
      BY <1>5, SMT
  <1> HIDE DEF a, b, c, x, y, z
  <1>7. c * 16777216 + y * 65536 + x * 256 + z = v
    BY <1>1, <1>2, <1>3, <1>4, SMT
  <1> QED
    BY <1>6, <1>7 DEF a, b, x, y, z

\* put_u32 behind some bytes, and what get_u32 reads there.
AddWord(a, v) == a \o put_u32(v)
AddByte(a, b) == a \o <<b>>

WordAdded(q, a, v) ==
    /\ q \in Seq(Byte) /\ Starts(q, a)
    /\ Len(q) = Len(a) + 4 /\ get_u32(q, Len(a) + 1) = v

ByteAdded(q, a, b) ==
    /\ q \in Seq(Byte) /\ Starts(q, a)
    /\ Len(q) = Len(a) + 1 /\ q[Len(a) + 1] = b

LEMMA PutWord ==
    ASSUME NEW a \in Seq(Byte), NEW v \in Int32, NEW q, q = AddWord(a, v)
    PROVE  WordAdded(q, a, v)
  <1> DEFINE n == Len(a)
             w == put_u32(v)
             t == (v \div 16777216) % 256
             x == (v \div 65536) % 256
             y == (v \div 256) % 256
             z == v % 256
  <1>1. n \in Nat
    BY LenProperties
  <1>2. w \in Seq(Byte) /\ Len(w) = 4 /\ t \in Byte
    BY WordBytes
  <1>v. (IF t < 128 THEN t ELSE t - 256) * 16777216 + x * 65536 + y * 256 + z = v
    BY WordValue
  <1>w. w = <<t, x, y, z>>
    BY DEF put_u32
  <1>n. n = Len(a)
    OBVIOUS
  <1> HIDE DEF w, t, x, y, z, n
  <1>3. w[1] = t /\ w[2] = x /\ w[3] = y /\ w[4] = z
    BY <1>w
  <1>4. /\ q \in Seq(Byte) /\ Len(q) = n + 4
        /\ \A i \in 1 .. n + 4 : q[i] = IF i <= n THEN a[i] ELSE w[i - n]
    <2>1. /\ q \in Seq(Byte) /\ Len(q) = Len(a) + Len(w)
          /\ \A i \in 1 .. Len(a) + Len(w) : q[i] = IF i <= Len(a) THEN a[i] ELSE w[i - Len(a)]
      BY <1>2, ConcatProperties DEF w, AddWord
    <2> QED
      BY <1>2, <1>n, <2>1
  <1>5. \A j \in 1 .. 4 : q[n + j] = w[j]
    <2> SUFFICES ASSUME NEW j \in 1 .. 4 PROVE q[n + j] = w[j]
      OBVIOUS
    <2>1. n + j \in 1 .. n + 4 /\ ~(n + j <= n) /\ (n + j) - n = j
      BY <1>1
    <2> QED
      BY <1>4, <2>1
  <1>6. q[n + 1] = t /\ q[n + 2] = x /\ q[n + 3] = y /\ q[n + 4] = z
    <2>1. 1 \in 1 .. 4 /\ 2 \in 1 .. 4 /\ 3 \in 1 .. 4 /\ 4 \in 1 .. 4
      OBVIOUS
    <2>2. q[n + 1] = w[1] /\ q[n + 2] = w[2] /\ q[n + 3] = w[3] /\ q[n + 4] = w[4]
      BY <1>5, <2>1
    <2> QED
      BY <1>3, <2>2
  <1>7. (n + 1) + 1 = n + 2 /\ (n + 1) + 2 = n + 3 /\ (n + 1) + 3 = n + 4
    BY <1>1
  <1>8. get_u32(q, n + 1) = v
    <2>1. get_u32(q, n + 1) =
             (IF q[n + 1] < 128 THEN q[n + 1] ELSE q[n + 1] - 256) * 16777216 +
             q[(n + 1) + 1] * 65536 + q[(n + 1) + 2] * 256 + q[(n + 1) + 3]
      BY DEF get_u32
    <2>2. q[(n + 1) + 1] = x /\ q[(n + 1) + 2] = y /\ q[(n + 1) + 3] = z
      BY <1>6, <1>7
    <2>3. get_u32(q, n + 1) =
             (IF t < 128 THEN t ELSE t - 256) * 16777216 + x * 65536 + y * 256 + z
      BY <1>6, <2>1, <2>2
    <2> QED
      BY <1>v, <2>3
  <1>9. Starts(q, a)
    <2>1. n <= Len(q) /\ \A j \in 1 .. n : q[j] = a[j]
      BY <1>1, <1>4
    <2> QED
      BY <1>n, <2>1 DEF Starts
  <1> QED
    BY <1>4, <1>8, <1>9, <1>n DEF WordAdded

\* put_u8, behind some bytes.
LEMMA PutByte ==
    ASSUME NEW a \in Seq(Byte), NEW b \in Byte, NEW q, q = AddByte(a, b)
    PROVE  ByteAdded(q, a, b)
  <1> DEFINE n == Len(a)
  <1>1. n \in Nat /\ q = Append(a, b)
    BY LenProperties, AppendIsConcat DEF AddByte
  <1>2. /\ q \in Seq(Byte) /\ Len(q) = n + 1 /\ q[n + 1] = b
        /\ \A i \in 1 .. n : q[i] = a[i]
    BY <1>1, AppendProperties
  <1>3. n <= Len(q)
    BY <1>1, <1>2
  <1> QED
    BY <1>2, <1>3 DEF Starts, ByteAdded

\* What was put is still read when more is put behind it.
LEMMA StartsOn ==
    ASSUME NEW a \in Seq(Byte), NEW b \in Seq(Byte), NEW c \in Seq(Byte),
           Starts(b, a), Starts(c, b)
    PROVE  Starts(c, a)
  <1> DEFINE k == Len(a)
             m == Len(b)
             n == Len(c)
  <1>1. k \in Nat /\ m \in Nat /\ n \in Nat
    BY LenProperties
  <1>2. /\ k <= m /\ m <= n /\ (\A j \in 1 .. k : b[j] = a[j])
        /\ \A j \in 1 .. m : c[j] = b[j]
    BY DEF Starts
  <1> HIDE DEF k, m, n
  <1>3. k <= n
    BY <1>1, <1>2
  <1>4. ASSUME NEW j \in 1 .. k PROVE c[j] = a[j]
    <2>1. j \in 1 .. m
      BY <1>1, <1>2
    <2> QED
      BY <1>2, <2>1
  <1> QED
    BY <1>3, <1>4 DEF Starts, k, n

LEMMA StillRead ==
    ASSUME NEW a \in Seq(Byte), NEW q, Starts(q, a), NEW i \in Nat, i # 0
    PROVE  /\ i <= Len(a) => q[i] = a[i]
           /\ i + 3 <= Len(a) => get_u32(q, i) = get_u32(a, i)
  <1> DEFINE n == Len(a)
  <1>1. n \in Nat /\ \A j \in 1 .. n : q[j] = a[j]
    BY LenProperties DEF Starts
  <1> HIDE DEF n
  <1>2. ASSUME i <= n PROVE q[i] = a[i]
    <2>1. i \in 1 .. n
      BY <1>1, <1>2
    <2> QED
      BY <1>1, <2>1
  <1>3. ASSUME i + 3 <= n PROVE get_u32(q, i) = get_u32(a, i)
    <2>1. i \in 1 .. n /\ i + 1 \in 1 .. n /\ i + 2 \in 1 .. n /\ i + 3 \in 1 .. n
      BY <1>1, <1>3
    <2>2. q[i] = a[i] /\ q[i + 1] = a[i + 1] /\ q[i + 2] = a[i + 2] /\ q[i + 3] = a[i + 3]
      BY <1>1, <2>1
    <2> QED
      BY <2>2 DEF get_u32
  <1> QED
    BY <1>2, <1>3 DEF n

\* A telemetry record survives gov_telem_encode and gov_telem_decode, for every value
\* of its fields: negative numbers and INT32_MIN too.
THEOREM TelemetryRoundTrip ==
    \A rec \in TelemRecords :
        /\ Len(gov_telem_encode(rec)) = GOV_TELEM_DATA_LEN
        /\ gov_telem_decode(gov_telem_encode(rec)) = {rec}
  <1> SUFFICES ASSUME NEW rec \in TelemRecords
               PROVE  /\ Len(gov_telem_encode(rec)) = GOV_TELEM_DATA_LEN
                      /\ gov_telem_decode(gov_telem_encode(rec)) = {rec}
    OBVIOUS
  <1> DEFINE e0 == Empty
             e1 == AddWord(e0, rec.tick)
             e2 == AddWord(e1, rec.setpoint)
             e3 == AddWord(e2, rec.measurement)
             e4 == AddWord(e3, rec.output)
             e5 == AddByte(e4, rec.state)
             e6 == AddWord(e5, rec.fault_flags)
  <1>0. /\ rec.tick \in Int32 /\ rec.setpoint \in Int32 /\ rec.measurement \in Int32
        /\ rec.output \in Int32 /\ rec.state \in Byte /\ rec.fault_flags \in Int32
    BY DEF TelemRecords
  <1>r. rec = [tick |-> rec.tick, setpoint |-> rec.setpoint,
               measurement |-> rec.measurement, output |-> rec.output,
               state |-> rec.state, fault_flags |-> rec.fault_flags]
    BY DEF TelemRecords
  <1>s. /\ e1 = AddWord(e0, rec.tick) /\ e2 = AddWord(e1, rec.setpoint)
        /\ e3 = AddWord(e2, rec.measurement) /\ e4 = AddWord(e3, rec.output)
        /\ e5 = AddByte(e4, rec.state) /\ e6 = AddWord(e5, rec.fault_flags)
    OBVIOUS
  <1>e. gov_telem_encode(rec) = e6
    <2>1. put_u32(rec.tick) \in Seq(Byte)
      BY <1>0, WordBytes
    <2>2. e1 = put_u32(rec.tick)
      <3> DEFINE w == put_u32(rec.tick)
      <3> HIDE DEF w
      <3>1. <<>> \o w = w
        BY <2>1, ConcatEmptySeq DEF w
      <3> QED
        BY <3>1 DEF w, Empty, AddWord
    <2> QED
      BY <2>2 DEF gov_telem_encode, AddWord, AddByte
  <1> HIDE DEF e0, e1, e2, e3, e4, e5, e6
  <1>z. e0 \in Seq(Byte) /\ Len(e0) = 0
    BY EmptyIs DEF e0
  <1>1. e1 \in Seq(Byte) /\ Len(e1) = 4 /\ get_u32(e1, 1) = rec.tick
    <2>1. WordAdded(e1, e0, rec.tick)
      BY <1>0, <1>s, <1>z, PutWord
    <2> QED
      BY <1>z, <2>1 DEF WordAdded
  <1>2. e2 \in Seq(Byte) /\ Len(e2) = 8 /\ get_u32(e2, 5) = rec.setpoint /\ Starts(e2, e1)
    <2>1. WordAdded(e2, e1, rec.setpoint)
      BY <1>0, <1>s, <1>1, PutWord
    <2> QED
      BY <1>1, <2>1 DEF WordAdded
  <1>3. /\ e3 \in Seq(Byte) /\ Len(e3) = 12 /\ get_u32(e3, 9) = rec.measurement
        /\ Starts(e3, e2)
    <2>1. WordAdded(e3, e2, rec.measurement)
      BY <1>0, <1>s, <1>2, PutWord
    <2> QED
      BY <1>2, <2>1 DEF WordAdded
  <1>4. e4 \in Seq(Byte) /\ Len(e4) = 16 /\ get_u32(e4, 13) = rec.output /\ Starts(e4, e3)
    <2>1. WordAdded(e4, e3, rec.output)
      BY <1>0, <1>s, <1>3, PutWord
    <2> QED
      BY <1>3, <2>1 DEF WordAdded
  <1>5. e5 \in Seq(Byte) /\ Len(e5) = 17 /\ e5[17] = rec.state /\ Starts(e5, e4)
    <2>1. ByteAdded(e5, e4, rec.state)
      BY <1>0, <1>s, <1>4, PutByte
    <2> QED
      BY <1>4, <2>1 DEF ByteAdded
  <1>6. /\ e6 \in Seq(Byte) /\ Len(e6) = 21 /\ get_u32(e6, 18) = rec.fault_flags
        /\ Starts(e6, e5)
    <2>1. WordAdded(e6, e5, rec.fault_flags)
      BY <1>0, <1>s, <1>5, PutWord
    <2> QED
      BY <1>5, <2>1 DEF WordAdded
  <1>7. Starts(e6, e4)
    BY <1>4, <1>5, <1>6, StartsOn
  <1>8. Starts(e6, e3)
    BY <1>3, <1>4, <1>6, <1>7, StartsOn
  <1>9. Starts(e6, e2)
    BY <1>2, <1>3, <1>6, <1>8, StartsOn
  <1>10. Starts(e6, e1)
    BY <1>1, <1>2, <1>6, <1>9, StartsOn
  <1>11. get_u32(e6, 1) = rec.tick
    <2>1. 1 \in Nat /\ 1 # 0 /\ 1 + 3 <= Len(e1)
      BY <1>1
    <2> QED
      BY <1>1, <1>10, <2>1, StillRead
  <1>12. get_u32(e6, 5) = rec.setpoint
    <2>1. 5 \in Nat /\ 5 # 0 /\ 5 + 3 <= Len(e2)
      BY <1>2
    <2> QED
      BY <1>2, <1>9, <2>1, StillRead
  <1>13. get_u32(e6, 9) = rec.measurement
    <2>1. 9 \in Nat /\ 9 # 0 /\ 9 + 3 <= Len(e3)
      BY <1>3
    <2> QED
      BY <1>3, <1>8, <2>1, StillRead
  <1>14. get_u32(e6, 13) = rec.output
    <2>1. 13 \in Nat /\ 13 # 0 /\ 13 + 3 <= Len(e4)
      BY <1>4
    <2> QED
      BY <1>4, <1>7, <2>1, StillRead
  <1>15. e6[17] = rec.state
    <2>1. 17 \in Nat /\ 17 # 0 /\ 17 <= Len(e5)
      BY <1>5
    <2> QED
      BY <1>5, <1>6, <2>1, StillRead
  <1>16. Len(e6) = GOV_TELEM_DATA_LEN /\ ~(Len(e6) < GOV_TELEM_DATA_LEN)
    BY <1>6 DEF GOV_TELEM_DATA_LEN
  <1>17. gov_telem_decode(e6) = {rec}
    BY <1>6, <1>11, <1>12, <1>13, <1>14, <1>15, <1>16, <1>r DEF gov_telem_decode
  <1> QED
    BY <1>e, <1>16, <1>17

\* A heartbeat survives gov_heartbeat_encode and gov_heartbeat_decode, for every value
\* of its fields.
THEOREM HeartbeatRoundTrip ==
    \A hb \in Heartbeats :
        /\ Len(gov_heartbeat_encode(hb)) = GOV_TELEM_HEARTBEAT_LEN
        /\ gov_heartbeat_decode(gov_heartbeat_encode(hb)) = {hb}
  <1> SUFFICES ASSUME NEW hb \in Heartbeats
               PROVE  /\ Len(gov_heartbeat_encode(hb)) = GOV_TELEM_HEARTBEAT_LEN
                      /\ gov_heartbeat_decode(gov_heartbeat_encode(hb)) = {hb}
    OBVIOUS
  <1> DEFINE e0 == Empty
             e1 == AddByte(e0, hb.state)
             e2 == AddWord(e1, hb.fault_flags)
             e3 == AddWord(e2, hb.uptime_count)
  <1>0. hb.state \in Byte /\ hb.fault_flags \in Int32 /\ hb.uptime_count \in Int32
    BY DEF Heartbeats
  <1>r. hb = [state |-> hb.state, fault_flags |-> hb.fault_flags,
              uptime_count |-> hb.uptime_count]
    BY DEF Heartbeats
  <1>s. /\ e1 = AddByte(e0, hb.state) /\ e2 = AddWord(e1, hb.fault_flags)
        /\ e3 = AddWord(e2, hb.uptime_count)
    OBVIOUS
  <1>e. gov_heartbeat_encode(hb) = e3
    <2> DEFINE w == <<hb.state>>
    <2>1. w \in Seq(Byte)
      BY <1>0
    <2>w. w = <<hb.state>>
      OBVIOUS
    <2>2. e1 = w
      <3> HIDE DEF w
      <3>1. <<>> \o w = w
        BY <2>1, ConcatEmptySeq
      <3> QED
        BY <3>1, <2>w DEF Empty, AddByte
    <2> QED
      BY <2>2, <2>w DEF gov_heartbeat_encode, AddWord
  <1> HIDE DEF e0, e1, e2, e3
  <1>z. e0 \in Seq(Byte) /\ Len(e0) = 0
    BY EmptyIs DEF e0
  <1>1. e1 \in Seq(Byte) /\ Len(e1) = 1 /\ e1[1] = hb.state
    <2>1. ByteAdded(e1, e0, hb.state)
      BY <1>0, <1>s, <1>z, PutByte
    <2> QED
      BY <1>z, <2>1 DEF ByteAdded
  <1>2. /\ e2 \in Seq(Byte) /\ Len(e2) = 5 /\ get_u32(e2, 2) = hb.fault_flags
        /\ Starts(e2, e1)
    <2>1. WordAdded(e2, e1, hb.fault_flags)
      BY <1>0, <1>s, <1>1, PutWord
    <2> QED
      BY <1>1, <2>1 DEF WordAdded
  <1>3. /\ e3 \in Seq(Byte) /\ Len(e3) = 9 /\ get_u32(e3, 6) = hb.uptime_count
        /\ Starts(e3, e2)
    <2>1. WordAdded(e3, e2, hb.uptime_count)
      BY <1>0, <1>s, <1>2, PutWord
    <2> QED
      BY <1>2, <2>1 DEF WordAdded
  <1>4. Starts(e3, e1)
    BY <1>1, <1>2, <1>3, StartsOn
  <1>5. e3[1] = hb.state
    <2>1. 1 \in Nat /\ 1 # 0 /\ 1 <= Len(e1)
      BY <1>1
    <2> QED
      BY <1>1, <1>4, <2>1, StillRead
  <1>6. get_u32(e3, 2) = hb.fault_flags
    <2>1. 2 \in Nat /\ 2 # 0 /\ 2 + 3 <= Len(e2)
      BY <1>2
    <2> QED
      BY <1>2, <1>3, <2>1, StillRead
  <1>7. Len(e3) = GOV_TELEM_HEARTBEAT_LEN /\ ~(Len(e3) < GOV_TELEM_HEARTBEAT_LEN)
    BY <1>3 DEF GOV_TELEM_HEARTBEAT_LEN
  <1>8. gov_heartbeat_decode(e3) = {hb}
    BY <1>3, <1>5, <1>6, <1>7, <1>r DEF gov_heartbeat_decode
  <1> QED
    BY <1>e, <1>7, <1>8
=============================================================================
