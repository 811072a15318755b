----------------------------- MODULE CodecProofs -----------------------------
(***************************************************************************)
(* Theorems about MbCodec, for any value size, cache size, request, data   *)
(* and address. A request's frame is its body, cut where the cache ends,   *)
(* and a body cut short is no request; a reply's frame holds a PDU that    *)
(* the decoder reads to its end, or as far as it has come. Folds over      *)
(* bytes are taken step by step (FoldProofs).                              *)
(***************************************************************************)
EXTENDS MbCodec, FoldProofs

-----------------------------------------------------------------------------
(* Arithmetic of bytes and words.                                          *)

LEMMA UnsignedIs ==
  ASSUME NEW n \in Int
  PROVE  \A w : w \in Unsigned(n) <=> w \in Int /\ 0 <= w /\ w < n
  BY DEF Unsigned

LEMMA ByteIs == \A w : w \in Byte <=> w \in Int /\ 0 <= w /\ w < 256
  BY UnsignedIs DEF Byte

LEMMA WordIs == \A w : w \in Word <=> w \in Int /\ 0 <= w /\ w < 65536
  BY UnsignedIs DEF Word

\* A word is its two bytes, however it is taken apart and put together.
Pair(w, a, b) ==
  /\ a \in Byte /\ b \in Byte /\ w \in Word
  /\ w \div 256 = a /\ w % 256 = b /\ High(a, b) = w

\* High byte first, two bytes are a word and its two bytes again.
LEMMA WordJoined ==
  ASSUME NEW a \in Byte, NEW b \in Byte
  PROVE  Pair(High(a, b), a, b)
<1>1. a \in Int /\ b \in Int /\ 0 <= a /\ a < 256 /\ 0 <= b /\ b < 256
  BY ByteIs
<1>2. PICK w : w = 256 * a + b
  OBVIOUS
<1>3. w \in Int /\ 0 <= w /\ w < 65536 /\ w \div 256 = a /\ w % 256 = b
  BY ONLY <1>1, <1>2
<1>4. w \in Word
  BY <1>3, WordIs
<1> QED
  BY <1>2, <1>3, <1>4 DEF Pair, High

\* A word is taken apart into two bytes.
LEMMA WordTaken ==
  ASSUME NEW w \in Word
  PROVE  Pair(w, w \div 256, w % 256)
<1>1. w \in Int /\ 0 <= w /\ w < 65536
  BY WordIs
<1>2. PICK a, b : a = w \div 256 /\ b = w % 256
  OBVIOUS
<1>3. a \in Int /\ b \in Int /\ 0 <= a /\ a < 256 /\ 0 <= b /\ b < 256 /\ w = 256 * a + b
  BY ONLY <1>1, <1>2
<1>4. a \in Byte /\ b \in Byte
  BY <1>3, ByteIs
<1> QED
  BY ONLY <1>2, <1>3, <1>4, w \in Word DEF Pair, High

HostOK == host \in {"little", "big"}

\* What the conversions come to, on hosts of either byte order.
LEMMA Converted ==
  ASSUME HostOK, NEW w, NEW a, NEW b, Pair(w, a, b)
  PROVE  /\ Swap(w) = High(b, a) /\ Pair(Swap(w), b, a)
         /\ Stored(NetWord(w)) = <<a, b>> /\ Stored(LowFirst(w)) = <<b, a>>
         /\ NetWord(Loaded(a, b)) = w /\ LowFirst(Loaded(b, a)) = w
         /\ Loaded(b, a) = IF host = "little" THEN w ELSE Swap(w)
<1>1. a \in Byte /\ b \in Byte /\ w \div 256 = a /\ w % 256 = b /\ High(a, b) = w
  BY DEF Pair
<1>2. High(b, a) = 256 * b + a /\ High(a, b) = 256 * a + b
  BY DEF High
<1>3. Swap(w) = High(b, a)
  <2>1. Swap(w) = b * 256 + a
    BY <1>1 DEF Swap
  <2>2. b * 256 = 256 * b
    BY <1>1, ByteIs
  <2> QED
    BY ONLY <1>2, <2>1, <2>2
<1>4. Pair(Swap(w), b, a)
  BY ONLY <1>1, <1>3, WordJoined
<1>5. Swap(w) \div 256 = b /\ Swap(w) % 256 = a
  BY <1>4 DEF Pair
<1>6. Swap(High(b, a)) = High(a, b)
  <2>1. Swap(High(b, a)) = a * 256 + b
    BY <1>3, <1>5 DEF Swap
  <2>2. a * 256 = 256 * a
    BY <1>1, ByteIs
  <2> QED
    BY ONLY <1>2, <2>1, <2>2
<1>7. CASE host = "little"
  <2>1. Loaded(a, b) = a + 256 * b /\ Loaded(b, a) = b + 256 * a
    BY <1>7 DEF Loaded
  <2>2. a + 256 * b = 256 * b + a /\ b + 256 * a = 256 * a + b
    BY <1>1, ByteIs
  <2>3. Loaded(a, b) = High(b, a) /\ Loaded(b, a) = High(a, b)
    BY ONLY <1>2, <2>1, <2>2
  <2>4. /\ NetWord(w) = Swap(w) /\ LowFirst(w) = w
        /\ Stored(Swap(w)) = <<a, b>> /\ Stored(w) = <<b, a>>
    BY <1>1, <1>5, <1>7 DEF NetWord, LowFirst, Flag, Stored
  <2>5. NetWord(High(b, a)) = High(a, b) /\ LowFirst(High(a, b)) = High(a, b)
    BY <1>6, <1>7 DEF NetWord, LowFirst, Flag
  <2> QED
    BY ONLY <1>1, <1>3, <1>4, <1>7, <2>3, <2>4, <2>5
<1>8. CASE host = "big"
  <2>1. Loaded(a, b) = High(a, b) /\ Loaded(b, a) = High(b, a)
    BY <1>8 DEF Loaded, High
  <2>2. /\ NetWord(w) = w /\ LowFirst(w) = Swap(w)
        /\ Stored(Swap(w)) = <<b, a>> /\ Stored(w) = <<a, b>>
    BY <1>1, <1>5, <1>8 DEF NetWord, LowFirst, Flag, Stored
  <2>3. NetWord(High(a, b)) = High(a, b) /\ LowFirst(High(b, a)) = High(a, b)
    BY <1>6, <1>8 DEF NetWord, LowFirst, Flag
  <2> QED
    BY ONLY <1>1, <1>3, <1>4, <1>8, <2>1, <2>2, <2>3
<1> QED
  BY <1>7, <1>8 DEF HostOK

LEMMA ModBound ==
  ASSUME NEW n \in Nat, NEW m \in Nat \ {0}
  PROVE  n % m \in 0..(m - 1) /\ (n < m => n % m = n)
  OBVIOUS
-----------------------------------------------------------------------------
(* Sequences.                                                              *)

LEMMA CutLength ==
  ASSUME NEW S, NEW s \in Seq(S), NEW m \in 0..Len(s)
  PROVE  /\ SubSeq(s, 1, m) \in Seq(S) /\ Len(SubSeq(s, 1, m)) = m
         /\ \A k \in 1..m : SubSeq(s, 1, m)[k] = s[k]
OBVIOUS

LEMMA CutOfCut ==
  ASSUME NEW S, NEW s \in Seq(S), NEW r \in 0..Len(s), NEW m \in 0..r
  PROVE  SubSeq(SubSeq(s, 1, r), 1, m) = SubSeq(s, 1, m)
OBVIOUS

LEMMA CutWhole ==
  ASSUME NEW S, NEW s \in Seq(S)
  PROVE  SubSeq(s, 1, Len(s)) = s
OBVIOUS

LEMMA CutNothing ==
  ASSUME NEW S, NEW s \in Seq(S)
  PROVE  SubSeq(s, 1, 0) = <<>> /\ s \o <<>> = s
OBVIOUS

LEMMA CutOfCat ==
  ASSUME NEW S, NEW s \in Seq(S), NEW t \in Seq(S), NEW m \in 0..Len(t)
  PROVE  SubSeq(s \o t, 1, Len(s) + m) = s \o SubSeq(t, 1, m)
OBVIOUS

LEMMA CutFurther ==
  ASSUME NEW S, NEW s \in Seq(S), NEW t \in Seq(S), NEW m \in 1..Len(t)
  PROVE  Append(s \o SubSeq(t, 1, m - 1), t[m]) = s \o SubSeq(t, 1, m)
OBVIOUS

LEMMA CatAssociates ==
  ASSUME NEW s \in Seq(Byte), NEW t \in Seq(Byte), NEW u \in Seq(Byte)
  PROVE  (s \o t) \o u = s \o (t \o u) /\ s \o t \in Seq(Byte) /\ Len(s \o t) = Len(s) + Len(t)
OBVIOUS

LEMMA CatLength ==
  ASSUME NEW s \in Seq(Byte), NEW t \in Seq(Byte)
  PROVE  s \o t \in Seq(Byte) /\ Len(s \o t) = Len(s) + Len(t)
OBVIOUS

LEMMA CatElements ==
  ASSUME NEW s \in Seq(Byte), NEW t \in Seq(Byte)
  PROVE  /\ \A k \in 1..Len(s) : (s \o t)[k] = s[k]
         /\ \A k \in 1..Len(t) : (s \o t)[Len(s) + k] = t[k]
         /\ SubSeq(s \o t, Len(s) + 1, Len(s) + Len(t)) = t
<1>1. /\ \A k \in 1..Len(s) : (s \o t)[k] = s[k]
      /\ \A k \in 1..Len(t) : (s \o t)[Len(s) + k] = t[k]
  OBVIOUS
<1>2. SubSeq(s \o t, Len(s) + 1, Len(s) + Len(t)) = t
  OBVIOUS
<1> QED
  BY ONLY <1>1, <1>2

LEMMA SequenceMade ==
  ASSUME NEW S, NEW n \in Nat, NEW f, \A k \in 1..n : f[k] \in S, f = [k \in 1..n |-> f[k]]
  PROVE  f \in Seq(S) /\ Len(f) = n
OBVIOUS
-----------------------------------------------------------------------------
(* The cache.                                                              *)

\* What a cache may hold.
Cache == {c \in Seq(Byte) : Len(c) <= max}
Least(a, b) == IF a <= b THEN a ELSE b

\* Whatever is set, a cache stays one.
LEMMA SetByteType ==
  ASSUME max \in Nat, NEW c \in Cache, NEW b \in Byte
  PROVE  SetByte(c, b) \in Cache
BY DEF SetByte, Cache

\* MBDATA_BYTE_SET called for one byte after the other: as many as fit.
LEMMA BytesSet ==
  ASSUME max \in Nat, NEW c \in Cache, NEW s \in Seq(Byte)
  PROVE  FoldLeft(SetByte, c, s) = c \o SubSeq(s, 1, Least(Len(s), max - Len(c)))
<1> DEFINE n == Len(s)
           g == [p \in Cache \X (1..n) |-> SetByte(p[1], s[p[2]])]
           Fits1(it) == it = [q \in SUBSET (DOMAIN s) |->
                               IF q = {} THEN c ELSE SetByte(it[q \ {Max(q)}], s[Max(q)])]
<1>1. n \in Nat /\ DOMAIN s = 1..n /\ \A k \in 1..n : s[k] \in Byte
  OBVIOUS
<1>2. g \in [Cache \X (1..n) -> Cache]
  BY <1>1, SetByteType
<1>3. \A a \in Cache, k \in 1..n : g[<<a, k>>] = SetByte(a, s[k])
  OBVIOUS
<1>4. \A q \in SUBSET (1..n) : q # {} => Max(q) \in 1..n /\ q \ {Max(q)} \in SUBSET (1..n)
  BY <1>1, LargestPlace
<1> HIDE DEF g, n
<1>5. \A it \in [SUBSET (1..n) -> Cache] : Folds(it, n, c, g) <=> Fits1(it)
  <2> TAKE it \in [SUBSET (1..n) -> Cache]
  <2>1. \A q \in SUBSET (1..n) : q # {} =>
          g[<<it[q \ {Max(q)}], Max(q)>>] = SetByte(it[q \ {Max(q)}], s[Max(q)])
    BY <1>3, <1>4
  <2> QED
    BY <1>1, <2>1 DEF Folds
<1>6. PICK jt \in [SUBSET (1..n) -> Cache] : Fits1(jt)
  BY <1>1, <1>2, <1>5, FoldExists
<1> DEFINE it == CHOOSE x : Fits1(x)
<1>7. Fits1(it)
  <2> HIDE DEF Fits1
  <2> QED
    BY <1>6
<1>8. FoldLeft(SetByte, c, s) = it[1..n]
  <2>1. FoldLeft(SetByte, c, s) = it[DOMAIN s]
    BY DEF FoldLeft, MapThenFoldSet
  <2> HIDE DEF it
  <2> QED
    BY <1>1, <2>1
<1> HIDE DEF it
<1>9. it[{}] = c
  BY <1>7
<1>10. Takes(it, n, Cache, g)
  BY <1>1, <1>3, <1>4, <1>7 DEF Takes
<1>11. PICK f \in [0..n -> Cache] : /\ f[0] = c /\ f[n] = it[1..n]
                                    /\ \A k \in 1..n : f[k] = g[<<f[k - 1], k>>]
  <2>1. PICK h : Values(h, it, n, Cache, g)
    BY ONLY <1>1, <1>2, <1>9, <1>10, c \in Cache, FoldTaken
  <2> QED
    BY <1>9, <2>1 DEF Values
<1> DEFINE r == max - Len(c)
           good == {k \in 0..n : f[k] = c \o SubSeq(s, 1, Least(k, r))}
<1>12. r \in Nat /\ c \in Seq(Byte)
  BY DEF Cache
<1> HIDE DEF r, Fits1
<1>13. 0 \in good
  <2>1. Least(0, r) = 0
    BY <1>12 DEF Least
  <2> QED
    BY <1>1, <1>11, <1>12, <2>1, CutNothing
<1>14. ASSUME NEW k \in 1..n, k - 1 \in good
       PROVE  k \in good
  <2>1. k \in Int /\ 1 <= k /\ k <= n /\ k - 1 \in 0..n /\ k \in 0..n
    BY <1>1
  <2>2. f[k - 1] = c \o SubSeq(s, 1, Least(k - 1, r)) /\ f[k - 1] \in Cache
    BY <1>11, <1>14, <2>1
  <2>3. f[k] = SetByte(f[k - 1], s[k])
    BY <1>3, <1>11, <2>2
  <2>4. Least(k - 1, r) \in 0..n /\ n = Len(s)
    BY ONLY <1>12, <2>1, <1>1 DEF Least, n
  <2>5. Len(f[k - 1]) = Len(c) + Least(k - 1, r)
    BY ONLY <1>12, <2>2, <2>4, s \in Seq(Byte), CutLength, CatAssociates
  <2>6. CASE k <= r
    <3>1. Least(k - 1, r) = k - 1 /\ Least(k, r) = k
      BY ONLY <1>12, <2>1, <2>6 DEF Least
    <3>2. Len(f[k - 1]) + 1 <= max
      BY ONLY <1>12, <2>1, <2>5, <2>6, <3>1, max \in Nat DEF r
    <3>3. f[k] = Append(f[k - 1], s[k])
      BY ONLY <2>3, <3>2 DEF SetByte
    <3>4. f[k] = c \o SubSeq(s, 1, k)
      BY ONLY <1>12, <2>1, <2>2, <2>4, <3>1, <3>3, s \in Seq(Byte), k \in 1..n, CutFurther
    <3> QED
      BY <2>1, <3>1, <3>4
  <2>7. CASE ~(k <= r)
    <3>1. Least(k - 1, r) = r /\ Least(k, r) = r
      BY ONLY <1>12, <2>1, <2>7 DEF Least
    <3>2. ~(Len(f[k - 1]) + 1 <= max)
      BY ONLY <1>12, <2>1, <2>5, <2>7, <3>1, max \in Nat DEF r
    <3> QED
      BY <2>1, <2>2, <2>3, <3>1, <3>2 DEF SetByte
  <2> QED
    BY <2>6, <2>7
<1>15. \A k \in 0..n : k \in good
  <2> HIDE DEF good
  <2> QED
    BY ONLY <1>1, <1>13, <1>14, UpTo
<1>16. n \in 0..n
  BY <1>1
<1> QED
  BY <1>8, <1>11, <1>15, <1>16 DEF n, r
-----------------------------------------------------------------------------
(* What mb_data_encap makes of a record: the whole body, if the cache has  *)
(* room for it, and otherwise less.                                        *)

Three(x) == <<x.code, x.reg \div 256, x.reg % 256>>
Five(x, n) == <<x.code, x.reg \div 256, x.reg % 256, n \div 256, n % 256>>
Six(x, bytes) == <<x.code, x.reg \div 256, x.reg % 256, x.n_reg \div 256, x.n_reg % 256, Len(bytes)>>

Packs(x) == [i \in 1..CoilBytes(x.n_reg) |-> Packed(x.value, i - 1)]
Registers(x) == [i \in 1..RegisterBytes(x.n_reg) |-> x.value[i - 1]]
Single(x) == Swap(Loaded(x.value[0], x.value[1]))

Body(x) ==
  CASE x.code \in 1..4 -> Five(x, x.n_reg)
    [] x.code \in {5, 6} -> Five(x, Single(x))
    [] x.code = 15 -> Six(x, Packs(x)) \o Packs(x)
    [] x.code = 16 -> Six(x, Registers(x)) \o Registers(x)
    [] OTHER -> Three(x)

LEMMA InfoType ==
  ASSUME NEW x \in MBInfo
  PROVE  /\ x.code \in Byte /\ x.err \in Byte /\ x.reg \in Word /\ x.n_reg \in Word
         /\ x.n_byte \in 0..(CountMod - 1) /\ x.value \in [ValIndex -> Byte]
BY DEF MBInfo

\* Eight coils are a byte, whatever the value holds.
LEMMA PackedType ==
  ASSUME NEW v, NEW i
  PROVE  Packed(v, i) \in Byte
<1> DEFINE On(j) == IF v[i * 8 + j] # 0 THEN 1 ELSE 0
<1>1. \A j : On(j) = 0 \/ On(j) = 1
  OBVIOUS
<1>2. Packed(v, i) = On(0) + 2 * On(1) + 4 * On(2) + 8 * On(3) + 16 * On(4) + 32 * On(5) + 64 * On(6) + 128 * On(7)
  BY DEF Packed
<1> HIDE DEF On
<1>3. PICK p : p = On(0) + 2 * On(1) + 4 * On(2) + 8 * On(3) + 16 * On(4) + 32 * On(5) + 64 * On(6) + 128 * On(7)
  OBVIOUS
<1>4. p \in Int /\ 0 <= p /\ p < 256
  BY ONLY <1>1, <1>3
<1> QED
  BY ONLY <1>2, <1>3, <1>4, ByteIs

\* The counts that are written are below CountMod, and what was meant if that
\* is.
LEMMA CountsType ==
  ASSUME NEW n \in Word
  PROVE  /\ CoilBytes(n) \in Nat /\ CoilBytes(n) < CountMod
         /\ RegisterBytes(n) \in Nat /\ RegisterBytes(n) < CountMod
<1>1. n \in Nat /\ CountMod \in Nat \ {0}
  BY WordIs, MbCodecAssumption
<1>2. PICK a, b : a = (n + 7) \div 8 /\ b = n * 2
  OBVIOUS
<1>3. a \in Nat /\ b \in Nat
  BY ONLY <1>1, <1>2
<1>4. a % CountMod \in 0..(CountMod - 1) /\ b % CountMod \in 0..(CountMod - 1)
  BY ONLY <1>1, <1>3
<1> QED
  BY ONLY <1>1, <1>2, <1>4 DEF CoilBytes, RegisterBytes

\* The bytes of a multiple write are bytes.
LEMMA BytesType ==
  ASSUME NEW x \in MBInfo
  PROVE  /\ Packs(x) \in Seq(Byte) /\ Len(Packs(x)) = CoilBytes(x.n_reg)
         /\ Registers(x) \in Seq(Byte) /\ Len(Registers(x)) = RegisterBytes(x.n_reg)
<1>1. /\ CoilBytes(x.n_reg) \in Nat /\ RegisterBytes(x.n_reg) \in Nat
      /\ RegisterBytes(x.n_reg) < CountMod
  BY InfoType, CountsType
<1>2. \A k \in 1..CoilBytes(x.n_reg) : Packed(x.value, k - 1) \in Byte
  BY PackedType
<1>3. Packs(x) \in Seq(Byte) /\ Len(Packs(x)) = CoilBytes(x.n_reg)
  BY ONLY <1>1, <1>2 DEF Packs
<1>4. \A k \in 1..RegisterBytes(x.n_reg) : k - 1 \in ValIndex
  BY <1>1, MbCodecAssumption DEF ValIndex
<1>5. \A k \in 1..RegisterBytes(x.n_reg) : x.value[k - 1] \in Byte
  BY <1>4, InfoType
<1>6. Registers(x) \in Seq(Byte) /\ Len(Registers(x)) = RegisterBytes(x.n_reg)
  BY ONLY <1>1, <1>5 DEF Registers
<1> QED
  BY <1>3, <1>6

\* As many bytes as the count says are written.
LEMMA BytesCount ==
  ASSUME NEW x \in MBInfo
  PROVE  Len(Packs(x)) \in Byte /\ Len(Registers(x)) \in Byte
<1>1. CountMod \in Int /\ CountMod <= 256
  BY MbCodecAssumption
<1>2. /\ Len(Packs(x)) \in Nat /\ Len(Packs(x)) < CountMod
      /\ Len(Registers(x)) \in Nat /\ Len(Registers(x)) < CountMod
  BY BytesType, InfoType, CountsType
<1> QED
  BY ONLY <1>1, <1>2, ByteIs

LEMMA LoadedType ==
  ASSUME HostOK, NEW a \in Byte, NEW b \in Byte
  PROVE  Loaded(a, b) \in Word
<1>1. High(a, b) \in Word /\ High(b, a) \in Word
  BY WordJoined DEF Pair
<1>2. Loaded(a, b) = High(a, b) \/ Loaded(a, b) = High(b, a)
  BY ByteIs DEF HostOK, Loaded, High
<1> QED
  BY <1>1, <1>2

LEMMA SwapType ==
  ASSUME NEW w \in Word
  PROVE  Swap(w) \in Word /\ Swap(Swap(w)) = w
<1>1. Pair(w, w \div 256, w % 256)
  BY WordTaken
<1>2. PICK a, b : a = w \div 256 /\ b = w % 256
  OBVIOUS
<1>3. a \in Byte /\ b \in Byte /\ High(a, b) = w
  BY <1>1, <1>2 DEF Pair
<1>4. Swap(w) = High(b, a) /\ Pair(High(b, a), b, a)
  BY <1>2, <1>3, WordJoined, ByteIs DEF Swap, High
<1>5. Swap(High(b, a)) = High(a, b)
  BY <1>3, <1>4, ByteIs DEF Swap, High, Pair
<1> QED
  BY <1>3, <1>4, <1>5 DEF Pair

\* A word goes out high byte first from either kind of host.
LEMMA StoredWord ==
  ASSUME HostOK, NEW w \in Word
  PROVE  /\ Stored(NetWord(w)) = <<w \div 256, w % 256>>
         /\ Stored(LowFirst(w)) = <<w % 256, w \div 256>>
         /\ w \div 256 \in Byte /\ w % 256 \in Byte
<1>1. Pair(w, w \div 256, w % 256)
  BY WordTaken
<1> QED
  BY <1>1, Converted DEF Pair

\* d is c and what was put behind it.
Grown(c, d) == d \in Cache /\ \E b \in Seq(Byte) : d = c \o b

\* Setting bytes one after the other appends those that fit.
LEMMA GrownByBytes ==
  ASSUME max \in Nat, NEW c \in Cache, NEW d, Grown(c, d), NEW b \in Seq(Byte), Len(d) + Len(b) <= max
  PROVE  Grown(c, d \o b)
<1>1. PICK e \in Seq(Byte) : d = c \o e
  BY DEF Grown
<1>2. c \in Seq(Byte) /\ d \in Seq(Byte)
  BY DEF Grown, Cache
<1>3. d \o b = c \o (e \o b) /\ e \o b \in Seq(Byte)
  <2>1. (c \o e) \o b = c \o (e \o b) /\ e \o b \in Seq(Byte)
    BY ONLY <1>2, e \in Seq(Byte), b \in Seq(Byte), CatAssociates
  <2> QED
    BY ONLY <1>1, <2>1
<1>4. d \o b \in Seq(Byte) /\ Len(d \o b) = Len(d) + Len(b)
  BY <1>2, CatAssociates
<1> QED
  BY <1>3, <1>4 DEF Grown, Cache

\* What does not fit is left out, the rest is appended.
LEMMA GrownBySet ==
  ASSUME HostOK, max \in Nat, NEW c \in Cache, NEW d, Grown(c, d)
  PROVE  /\ \A b \in Byte : Grown(c, SetByte(d, b))
         /\ \A w \in Word : Grown(c, SetWord(d, NetWord(w))) /\ Grown(c, SetWord(d, LowFirst(w)))
         /\ \A s \in Seq(Byte) : Grown(c, FoldLeft(SetByte, d, s))
<1>1. d \in Cache /\ d \in Seq(Byte) /\ Len(d) \in Nat /\ Len(d) <= max
  BY DEF Grown, Cache
<1>2. ASSUME NEW b \in Byte
      PROVE  Grown(c, SetByte(d, b))
  <2>1. Append(d, b) = d \o <<b>> /\ <<b>> \in Seq(Byte) /\ Len(<<b>>) = 1
    BY <1>1
  <2> QED
    BY <1>1, <2>1, GrownByBytes DEF SetByte
<1>3. ASSUME NEW p \in Byte, NEW q \in Byte, NEW w, Stored(w) = <<p, q>>
      PROVE  Grown(c, SetWord(d, w))
  <2>1. <<p, q>> \in Seq(Byte) /\ Len(<<p, q>>) = 2
    OBVIOUS
  <2> QED
    BY <1>1, <1>3, <2>1, GrownByBytes DEF SetWord
<1>4. ASSUME NEW w \in Word
      PROVE  Grown(c, SetWord(d, NetWord(w))) /\ Grown(c, SetWord(d, LowFirst(w)))
  BY <1>3, StoredWord
<1>5. ASSUME NEW s \in Seq(Byte)
      PROVE  Grown(c, FoldLeft(SetByte, d, s))
  <2>1. PICK m : m = Least(Len(s), max - Len(d))
    OBVIOUS
  <2>2. m \in 0..Len(s) /\ Len(d) + m <= max
    BY ONLY <1>1, <2>1, max \in Nat, s \in Seq(Byte) DEF Least
  <2>3. SubSeq(s, 1, m) \in Seq(Byte) /\ Len(SubSeq(s, 1, m)) = m
    BY <2>2, CutLength
  <2> QED
    BY <1>1, <2>1, <2>2, <2>3, BytesSet, GrownByBytes
<1> QED
  BY <1>2, <1>4, <1>5

\* As much of p as there is room for behind c; words are not divided, and a
\* count may follow where the words before it were left out, but then all
\* of it is shorter than any request.
Shaped(c, b, p) ==
  IF max - Len(c) < 5 THEN Len(b) < 5
  ELSE \E m \in 0..Len(p) : b = SubSeq(p, 1, m) /\ (m = Len(p) \/ Len(c) + m = max)

LEMMA SixType ==
  ASSUME HostOK, NEW x \in MBInfo, NEW s, Len(s) \in Byte
  PROVE  Six(x, s) \in Seq(Byte) /\ Len(Six(x, s)) = 6
<1>1. /\ x.code \in Byte /\ x.reg \div 256 \in Byte /\ x.reg % 256 \in Byte
      /\ x.n_reg \div 256 \in Byte /\ x.n_reg % 256 \in Byte
  BY InfoType, StoredWord
<1>2. PICK a, b, e, f, g, h : /\ a = x.code /\ b = x.reg \div 256 /\ e = x.reg % 256
           /\ f = x.n_reg \div 256 /\ g = x.n_reg % 256 /\ h = Len(s)
  OBVIOUS
<1>3. <<a, b, e, f, g, h>> \in Seq(Byte) /\ Len(<<a, b, e, f, g, h>>) = 6
  BY ONLY <1>1, <1>2, Len(s) \in Byte
<1>4. Six(x, s) = <<a, b, e, f, g, h>>
  BY ONLY <1>2 DEF Six
<1> QED
  BY ONLY <1>3, <1>4

\* The body of a request is a sequence of bytes.
LEMMA BodyType ==
  ASSUME HostOK, NEW x \in MBInfo
  PROVE  Body(x) \in Seq(Byte)
<1>1. /\ x.code \in Byte /\ x.reg \div 256 \in Byte /\ x.reg % 256 \in Byte
      /\ x.n_reg \div 256 \in Byte /\ x.n_reg % 256 \in Byte
  BY InfoType, StoredWord
<1>2. 0 \in ValIndex /\ 1 \in ValIndex
  BY MbCodecAssumption DEF ValIndex
<1>3. Single(x) \div 256 \in Byte /\ Single(x) % 256 \in Byte
  <2>1. x.value[0] \in Byte /\ x.value[1] \in Byte
    BY <1>2, InfoType
  <2>2. Single(x) \in Word
    BY <2>1, LoadedType, SwapType DEF Single
  <2> QED
    BY <2>2, StoredWord
<1>4. /\ Packs(x) \in Seq(Byte) /\ Len(Packs(x)) \in Byte
      /\ Registers(x) \in Seq(Byte) /\ Len(Registers(x)) \in Byte
  BY BytesType, BytesCount
<1>5. /\ Five(x, x.n_reg) \in Seq(Byte) /\ Five(x, Single(x)) \in Seq(Byte) /\ Three(x) \in Seq(Byte)
      /\ Six(x, Packs(x)) \in Seq(Byte) /\ Six(x, Registers(x)) \in Seq(Byte)
  <2>1. PICK a, b, e, f, g, h, i, j, k : /\ a = x.code /\ b = x.reg \div 256 /\ e = x.reg % 256
             /\ f = x.n_reg \div 256 /\ g = x.n_reg % 256 /\ h = Single(x) \div 256 /\ i = Single(x) % 256
             /\ j = Len(Packs(x)) /\ k = Len(Registers(x))
    OBVIOUS
  <2>2. /\ <<a, b, e, f, g>> \in Seq(Byte) /\ <<a, b, e, h, i>> \in Seq(Byte)
        /\ <<a, b, e>> \in Seq(Byte)
        /\ <<a, b, e, f, g, j>> \in Seq(Byte) /\ <<a, b, e, f, g, k>> \in Seq(Byte)
    BY ONLY <1>1, <1>3, <1>4, <2>1
  <2> QED
    BY ONLY <2>1, <2>2 DEF Five, Six, Three
<1>6. /\ Six(x, Packs(x)) \o Packs(x) \in Seq(Byte)
      /\ Six(x, Registers(x)) \o Registers(x) \in Seq(Byte)
  BY ONLY <1>4, <1>5, CatAssociates
<1> QED
  BY ONLY <1>5, <1>6 DEF Body

LEMMA ThreeLong ==
  ASSUME NEW s \in Seq(Byte), Len(s) = 3
  PROVE  s = <<s[1], s[2], s[3]>>
OBVIOUS

LEMMA FiveLong ==
  ASSUME NEW s \in Seq(Byte), Len(s) = 5
  PROVE  s = <<s[1], s[2], s[3], s[4], s[5]>>
OBVIOUS

LEMMA SixLong ==
  ASSUME NEW s \in Seq(Byte), Len(s) = 6
  PROVE  s = <<s[1], s[2], s[3], s[4], s[5], s[6]>>
OBVIOUS

\* Tuples, taken apart.
LEMMA TupleOne ==
  ASSUME NEW a \in Byte
  PROVE  <<>> \o <<a>> = <<a>> /\ <<a>> \in Seq(Byte) /\ Len(<<a>>) = 1
OBVIOUS

LEMMA TupleTwo ==
  ASSUME NEW a \in Byte, NEW b \in Byte
  PROVE  <<a, b>> \in Seq(Byte) /\ Len(<<a, b>>) = 2
OBVIOUS

LEMMA TupleThree ==
  ASSUME NEW a \in Byte, NEW b \in Byte, NEW e \in Byte
  PROVE  <<a>> \o <<b, e>> = <<a, b, e>> /\ <<a, b, e>> \in Seq(Byte) /\ Len(<<a, b, e>>) = 3
<1>1. PICK s : s = <<a>> \o <<b, e>>
  OBVIOUS
<1>2. s \in Seq(Byte) /\ Len(s) = 3 /\ s[1] = a /\ s[2] = b /\ s[3] = e
  BY <1>1
<1>3. s = <<a, b, e>>
  BY ONLY <1>2, ThreeLong
<1> QED
  BY ONLY <1>1, <1>2, <1>3

LEMMA TupleFive ==
  ASSUME NEW a \in Byte, NEW b \in Byte, NEW e \in Byte, NEW f \in Byte, NEW g \in Byte
  PROVE  <<a, b, e>> \o <<f, g>> = <<a, b, e, f, g>> /\ <<a, b, e, f, g>> \in Seq(Byte) /\ Len(<<a, b, e, f, g>>) = 5
<1>1. PICK s : s = <<a, b, e>> \o <<f, g>>
  OBVIOUS
<1>2. s \in Seq(Byte) /\ Len(s) = 5 /\ s[1] = a /\ s[2] = b /\ s[3] = e /\ s[4] = f /\ s[5] = g
  BY <1>1
<1>3. s = <<a, b, e, f, g>>
  BY ONLY <1>2, FiveLong
<1> QED
  BY ONLY <1>1, <1>2, <1>3

LEMMA TupleSix ==
  ASSUME NEW a \in Byte, NEW b \in Byte, NEW e \in Byte, NEW f \in Byte, NEW g \in Byte, NEW h \in Byte
  PROVE  /\ <<a, b, e, f, g>> \o <<h>> = <<a, b, e, f, g, h>>
         /\ <<a, b, e, f, g, h>> \in Seq(Byte) /\ Len(<<a, b, e, f, g, h>>) = 6
         /\ SubSeq(<<a, b, e, f, g, h>>, 1, 5) = <<a, b, e, f, g>>
<1>1. PICK s : s = <<a, b, e, f, g>> \o <<h>>
  OBVIOUS
<1>2. s \in Seq(Byte) /\ Len(s) = 6 /\ s[1] = a /\ s[2] = b /\ s[3] = e /\ s[4] = f /\ s[5] = g /\ s[6] = h
  BY <1>1
<1>3. s = <<a, b, e, f, g, h>>
  BY ONLY <1>2, SixLong
<1>4. PICK t : t = SubSeq(s, 1, 5)
  OBVIOUS
<1>5. t \in Seq(Byte) /\ Len(t) = 5 /\ \A k \in 1..5 : t[k] = s[k]
  BY ONLY <1>2, <1>4
<1>6. t[1] = a /\ t[2] = b /\ t[3] = e /\ t[4] = f /\ t[5] = g
  BY ONLY <1>2, <1>5
<1>7. t = <<a, b, e, f, g>>
  BY ONLY <1>5, <1>6, FiveLong
<1> QED
  BY ONLY <1>1, <1>2, <1>3, <1>4, <1>7

LEMMA ByteBehind ==
  ASSUME max \in Nat, NEW c \in Seq(Byte), NEW s \in Seq(Byte), NEW b \in Byte,
         Len(c) + Len(s) + 1 <= max
  PROVE  SetByte(c \o s, b) = c \o (s \o <<b>>)
<1>1. Len(c \o s) = Len(c) + Len(s) /\ c \o s \in Seq(Byte)
  OBVIOUS
<1>2. SetByte(c \o s, b) = (c \o s) \o <<b>>
  BY <1>1 DEF SetByte
<1>3. <<b>> \in Seq(Byte)
  OBVIOUS
<1> QED
  BY ONLY <1>2, <1>3, c \in Seq(Byte), s \in Seq(Byte), CatAssociates

LEMMA WordBehind ==
  ASSUME max \in Nat, NEW c \in Seq(Byte), NEW s \in Seq(Byte), NEW w,
         Stored(w) \in Seq(Byte), Len(Stored(w)) = 2, Len(c) + Len(s) + 2 <= max
  PROVE  SetWord(c \o s, w) = c \o (s \o Stored(w))
<1>1. Len(c \o s) = Len(c) + Len(s) /\ c \o s \in Seq(Byte)
  OBVIOUS
<1>2. SetWord(c \o s, w) = (c \o s) \o Stored(w)
  BY <1>1 DEF SetWord
<1> QED
  BY ONLY <1>2, Stored(w) \in Seq(Byte), c \in Seq(Byte), s \in Seq(Byte), CatAssociates

\* The first three bytes, and the next two.
LEMMA HeadPut ==
  ASSUME HostOK, max \in Nat, NEW c \in Cache, Len(c) + 5 <= max, NEW x \in MBInfo, NEW w \in Word,
         NEW v \in Word
  PROVE  /\ SetWord(SetByte(c, x.code), NetWord(x.reg)) = c \o Three(x)
         /\ Stored(v) = <<w \div 256, w % 256>> => SetWord(c \o Three(x), v) = c \o Five(x, w)
<1>1. /\ x.code \in Byte /\ x.reg \div 256 \in Byte /\ x.reg % 256 \in Byte
      /\ w \div 256 \in Byte /\ w % 256 \in Byte
      /\ Stored(NetWord(x.reg)) = <<x.reg \div 256, x.reg % 256>>
  BY InfoType, StoredWord
<1>2. c \in Seq(Byte) /\ Len(c) \in Nat
  BY DEF Cache
<1>3. PICK a, b, e, f, g : /\ a = x.code /\ b = x.reg \div 256 /\ e = x.reg % 256
                           /\ f = w \div 256 /\ g = w % 256
  OBVIOUS
<1>4. a \in Byte /\ b \in Byte /\ e \in Byte /\ f \in Byte /\ g \in Byte /\ Len(c) + 5 <= max
  BY ONLY <1>1, <1>3, Len(c) + 5 <= max
<1>5. /\ <<>> \in Seq(Byte) /\ <<a>> \in Seq(Byte) /\ <<a, b, e>> \in Seq(Byte)
      /\ Len(<<>>) = 0 /\ Len(<<a>>) = 1 /\ Len(<<a, b, e>>) = 3 /\ <<>> \o <<a>> = <<a>>
      /\ <<a>> \o <<b, e>> = <<a, b, e>> /\ <<a, b, e>> \o <<f, g>> = <<a, b, e, f, g>>
  BY <1>4, TupleOne, TupleThree, TupleFive
<1>6. /\ <<b, e>> \in Seq(Byte) /\ <<f, g>> \in Seq(Byte)
      /\ Len(<<b, e>>) = 2 /\ Len(<<f, g>>) = 2
  BY <1>4, TupleTwo
<1>7. SetByte(c, a) = c \o <<a>>
  <2>1. c \o <<>> = c
    BY ONLY <1>2
  <2>2. SetByte(c \o <<>>, a) = c \o (<<>> \o <<a>>)
    <3>1. Len(c) + Len(<<>>) + 1 <= max
      BY ONLY <1>2, <1>4, <1>5, max \in Nat
    <3> QED
      BY ONLY <1>2, <1>4, <1>5, <3>1, max \in Nat, ByteBehind
  <2> QED
    BY ONLY <1>5, <2>1, <2>2
<1>8. SetWord(c \o <<a>>, NetWord(x.reg)) = c \o <<a, b, e>>
  <2>1. Stored(NetWord(x.reg)) = <<b, e>>
    BY ONLY <1>1, <1>3
  <2>2. PICK u : u = NetWord(x.reg)
    OBVIOUS
  <2>3. SetWord(c \o <<a>>, u) = c \o (<<a>> \o Stored(u))
    <3>1. Len(c) + Len(<<a>>) + 2 <= max
      BY ONLY <1>2, <1>4, <1>5, max \in Nat
    <3>2. PICK p, t : p = <<a>> /\ t = <<b, e>>
      OBVIOUS
    <3>3. p \in Seq(Byte) /\ t \in Seq(Byte) /\ Stored(u) = t /\ Len(t) = 2 /\ Len(c) + Len(p) + 2 <= max
      BY ONLY <1>5, <1>6, <2>1, <2>2, <3>1, <3>2
    <3>4. Stored(u) \in Seq(Byte) /\ Len(Stored(u)) = 2
      BY ONLY <3>3
    <3>5. SetWord(c \o p, u) = c \o (p \o Stored(u))
      BY ONLY <1>2, <3>3, <3>4, max \in Nat, WordBehind
    <3> QED
      BY ONLY <3>2, <3>3, <3>5
  <2> QED
    BY ONLY <1>5, <2>1, <2>2, <2>3
<1>9. ASSUME Stored(v) = <<f, g>>
      PROVE  SetWord(c \o <<a, b, e>>, v) = c \o <<a, b, e, f, g>>
  <2>1. SetWord(c \o <<a, b, e>>, v) = c \o (<<a, b, e>> \o Stored(v))
    <3>1. Len(c) + Len(<<a, b, e>>) + 2 <= max
      BY ONLY <1>2, <1>4, <1>5, max \in Nat
    <3>2. PICK p, t : p = <<a, b, e>> /\ t = <<f, g>>
      OBVIOUS
    <3>3. p \in Seq(Byte) /\ t \in Seq(Byte) /\ Stored(v) = t /\ Len(t) = 2 /\ Len(c) + Len(p) + 2 <= max
      BY ONLY <1>5, <1>6, <1>9, <3>1, <3>2
    <3>4. Stored(v) \in Seq(Byte) /\ Len(Stored(v)) = 2
      BY ONLY <3>3
    <3>5. SetWord(c \o p, v) = c \o (p \o Stored(v))
      BY ONLY <1>2, <3>3, <3>4, max \in Nat, WordBehind
    <3> QED
      BY ONLY <3>2, <3>3, <3>5
  <2> QED
    BY ONLY <1>5, <1>9, <2>1
<1>10. Three(x) = <<a, b, e>> /\ Five(x, w) = <<a, b, e, f, g>>
  BY ONLY <1>3 DEF Three, Five
<1>11. SetWord(SetByte(c, x.code), NetWord(x.reg)) = c \o Three(x)
  BY ONLY <1>3, <1>7, <1>8, <1>10, Zenon
<1>12. ASSUME Stored(v) = <<w \div 256, w % 256>>
       PROVE  SetWord(c \o Three(x), v) = c \o Five(x, w)
  <2>1. Stored(v) = <<f, g>>
    BY ONLY <1>3, <1>12
  <2>2. SetWord(c \o <<a, b, e>>, v) = c \o <<a, b, e, f, g>>
    BY ONLY <1>9, <2>1
  <2> QED
    BY ONLY <1>10, <2>2, Zenon
<1> QED
  BY ONLY <1>11, <1>12

\* The count and what is counted.
LEMMA CountPut ==
  ASSUME HostOK, max \in Nat, NEW c \in Cache, Len(c) + 5 <= max, NEW x \in MBInfo,
         NEW s \in Seq(Byte), Len(s) \in Byte
  PROVE  \E b \in Seq(Byte) :
           /\ WithCount(c \o Three(x), x, s) = c \o b
           /\ \E m \in 0..(6 + Len(s)) :
                b = SubSeq(Six(x, s) \o s, 1, m) /\ (m = 6 + Len(s) \/ Len(c) + m = max)
<1>1. /\ x.code \in Byte /\ x.reg \div 256 \in Byte /\ x.reg % 256 \in Byte /\ x.n_reg \in Word
      /\ x.n_reg \div 256 \in Byte /\ x.n_reg % 256 \in Byte
      /\ Stored(NetWord(x.n_reg)) = <<x.n_reg \div 256, x.n_reg % 256>>
  BY InfoType, StoredWord
<1>2. c \in Seq(Byte) /\ Len(c) \in Nat
  BY DEF Cache
<1>3. NetWord(x.n_reg) \in Word
  BY <1>1, SwapType DEF NetWord
<1>4. SetWord(c \o Three(x), NetWord(x.n_reg)) = c \o Five(x, x.n_reg)
  BY <1>1, <1>3, HeadPut
<1>5. PICK a, b, e, f, g, h : /\ a = x.code /\ b = x.reg \div 256 /\ e = x.reg % 256
                              /\ f = x.n_reg \div 256 /\ g = x.n_reg % 256 /\ h = Len(s)
  OBVIOUS
<1>6. /\ a \in Byte /\ b \in Byte /\ e \in Byte /\ f \in Byte /\ g \in Byte /\ h \in Byte
      /\ Five(x, x.n_reg) = <<a, b, e, f, g>> /\ Six(x, s) = <<a, b, e, f, g, h>>
  BY ONLY <1>1, <1>5, Len(s) \in Byte DEF Five, Six
<1> DEFINE five == <<a, b, e, f, g>>
           six == <<a, b, e, f, g, h>>
<1>7. /\ five \in Seq(Byte) /\ Len(five) = 5 /\ six \in Seq(Byte) /\ Len(six) = 6
      /\ five \o <<h>> = six /\ SubSeq(six, 1, 5) = five
  BY ONLY <1>6, TupleFive, TupleSix
<1>8. /\ five \in Seq(Byte) /\ Len(five) = 5 /\ six \in Seq(Byte) /\ Len(six) = 6
      /\ c \o five \in Seq(Byte) /\ c \o six \in Seq(Byte)
      /\ Len(c \o five) = Len(c) + 5 /\ Len(c \o six) = Len(c) + 6
      /\ Five(x, x.n_reg) = five /\ Six(x, s) = six
  <2> HIDE DEF five, six
  <2>1. /\ c \o five \in Seq(Byte) /\ c \o six \in Seq(Byte)
        /\ Len(c \o five) = Len(c) + 5 /\ Len(c \o six) = Len(c) + 6
    BY ONLY <1>2, <1>7
  <2>2. Five(x, x.n_reg) = five /\ Six(x, s) = six
    BY ONLY <1>6 DEF five, six
  <2> QED
    BY ONLY <1>7, <2>1, <2>2
<1>9. SubSeq(six, 1, 5) = five
  BY ONLY <1>7
<1> HIDE DEF five, six
<1>10. WithCount(c \o Three(x), x, s) = FoldLeft(SetByte, SetByte(c \o five, h), s)
  BY ONLY <1>4, <1>5, <1>8 DEF WithCount
<1>11. ASSUME NEW d, NEW r, d \in Cache, r = Least(Len(s), max - Len(d))
       PROVE  FoldLeft(SetByte, d, s) = d \o SubSeq(s, 1, r)
  BY ONLY <1>11, max \in Nat, s \in Seq(Byte), BytesSet
<1>12. CASE Len(c) + 5 = max
  <2>1. SetByte(c \o five, h) = c \o five /\ c \o five \in Cache
    BY ONLY <1>2, <1>8, <1>12, max \in Nat DEF SetByte, Cache
  <2>2. Least(Len(s), max - Len(c \o five)) = 0
    BY ONLY <1>2, <1>8, <1>12, max \in Nat, s \in Seq(Byte) DEF Least
  <2>3. FoldLeft(SetByte, c \o five, s) = (c \o five) \o SubSeq(s, 1, 0)
    BY <1>11, <2>1, <2>2
  <2>4. SubSeq(s, 1, 0) = <<>> /\ (c \o five) \o <<>> = c \o five
    BY ONLY <1>8, s \in Seq(Byte), CutNothing
  <2>5. SubSeq(six \o s, 1, 5) = five
    BY ONLY <1>8, <1>9, s \in Seq(Byte)
  <2>6. 5 \in 0..(6 + Len(s))
    BY ONLY s \in Seq(Byte)
  <2> QED
    BY ONLY <1>8, <1>10, <1>12, <2>1, <2>3, <2>4, <2>5, <2>6
<1>13. CASE Len(c) + 6 <= max
  <2>1. SetByte(c \o five, h) = c \o six /\ c \o six \in Cache
    <3>1. SetByte(c \o five, h) = c \o (five \o <<h>>)
      <4> HIDE DEF five, six
      <4>1. Len(c) + Len(five) + 1 <= max
        BY ONLY <1>2, <1>7, <1>13, max \in Nat
      <4> QED
        BY ONLY <1>2, <1>6, <1>7, <4>1, max \in Nat, ByteBehind
    <3>2. c \o six \in Cache
      BY ONLY <1>2, <1>8, <1>13, max \in Nat DEF Cache
    <3> QED
      BY ONLY <1>7, <3>1, <3>2
  <2>2. PICK r : r = Least(Len(s), max - Len(c \o six))
    OBVIOUS
  <2>3. r \in 0..Len(s) /\ (r = Len(s) \/ Len(c) + (6 + r) = max)
    BY ONLY <1>2, <1>8, <1>13, <2>2, max \in Nat, s \in Seq(Byte) DEF Least
  <2>4. FoldLeft(SetByte, c \o six, s) = (c \o six) \o SubSeq(s, 1, r)
    BY <1>11, <2>1, <2>2
  <2>5. SubSeq(s, 1, r) \in Seq(Byte)
    BY ONLY <2>3, s \in Seq(Byte), CutLength
  <2>6. (c \o six) \o SubSeq(s, 1, r) = c \o (six \o SubSeq(s, 1, r)) /\ six \o SubSeq(s, 1, r) \in Seq(Byte)
    <3>1. PICK t : t = SubSeq(s, 1, r)
      OBVIOUS
    <3>2. t \in Seq(Byte) /\ six \in Seq(Byte)
      BY ONLY <1>8, <2>5, <3>1
    <3>3. (c \o six) \o t = c \o (six \o t) /\ six \o t \in Seq(Byte)
      BY ONLY <1>2, <3>2, CatAssociates
    <3> QED
      BY ONLY <3>1, <3>3
  <2>7. SubSeq(six \o s, 1, 6 + r) = six \o SubSeq(s, 1, r)
    <3>1. SubSeq(six \o s, 1, Len(six) + r) = six \o SubSeq(s, 1, r)
      BY ONLY <1>8, <2>3, s \in Seq(Byte), CutOfCat
    <3> QED
      BY ONLY <1>8, <3>1
  <2>8. 6 + r \in 0..(6 + Len(s)) /\ (6 + r = 6 + Len(s) \/ Len(c) + (6 + r) = max)
    BY ONLY <2>3, s \in Seq(Byte)
  <2>9. WithCount(c \o Three(x), x, s) = c \o (six \o SubSeq(s, 1, r))
    BY ONLY <1>10, <2>1, <2>4, <2>6
  <2> QED
    BY ONLY <1>8, <2>6, <2>7, <2>8, <2>9
<1>14. Len(c) + 5 = max \/ Len(c) + 6 <= max
  BY ONLY <1>2, max \in Nat, Len(c) + 5 <= max
<1> QED
  BY ONLY <1>12, <1>13, <1>14

\* mb_data_encap appends bytes and stays within the cache.
LEMMA EncapGrows ==
  ASSUME HostOK, max \in Nat, NEW c \in Cache, NEW x \in MBInfo
  PROVE  Grown(c, Encap(c, x))
<1>1. x.code \in Byte /\ x.reg \in Word /\ x.n_reg \in Word
  BY InfoType
<1>2. Grown(c, c)
  <2>1. <<>> \in Seq(Byte) /\ c \o <<>> = c
    BY DEF Cache
  <2> QED
    BY <2>1 DEF Grown
<1>3. PICK head : head = SetWord(SetByte(c, x.code), NetWord(x.reg))
  OBVIOUS
<1>4. Grown(c, head)
  BY <1>1, <1>2, <1>3, GrownBySet
<1>5. Grown(c, SetWord(head, NetWord(x.n_reg)))
  BY <1>1, <1>4, GrownBySet
<1>6. Grown(c, SetWord(head, LowFirst(Loaded(x.value[0], x.value[1]))))
  <2>1. 0 \in ValIndex /\ 1 \in ValIndex
    BY MbCodecAssumption DEF ValIndex
  <2>2. x.value[0] \in Byte /\ x.value[1] \in Byte
    BY <2>1, InfoType
  <2>3. Loaded(x.value[0], x.value[1]) \in Word
    BY <2>2, LoadedType
  <2> QED
    BY <1>4, <2>3, GrownBySet
<1>7. ASSUME NEW s \in Seq(Byte), Len(s) \in Byte
      PROVE  Grown(c, WithCount(head, x, s))
  <2>1. Grown(c, SetByte(SetWord(head, NetWord(x.n_reg)), Len(s)))
    BY <1>5, <1>7, GrownBySet
  <2> QED
    BY <2>1, GrownBySet DEF WithCount
<1>8. Grown(c, WithCount(head, x, Packs(x))) /\ Grown(c, WithCount(head, x, Registers(x)))
  BY <1>1, <1>7, BytesType, BytesCount
<1>9. Encap(c, x) = CASE x.code \in 1..4 -> SetWord(head, NetWord(x.n_reg))
       [] x.code \in {5, 6} -> SetWord(head, LowFirst(Loaded(x.value[0], x.value[1])))
       [] x.code = 15 -> WithCount(head, x, Packs(x))
       [] x.code = 16 -> WithCount(head, x, Registers(x))
       [] OTHER -> head
  BY ONLY <1>3 DEF Encap, Packs, Registers
<1> QED
  BY ONLY <1>4, <1>5, <1>6, <1>8, <1>9

\* What it appends is the body of the request, cut where the cache ends.
LEMMA EncapShape ==
  ASSUME HostOK, max \in Nat, NEW c \in Cache, NEW x \in MBInfo
  PROVE  \E b \in Seq(Byte) : /\ Encap(c, x) = c \o b /\ Len(c) + Len(b) <= max
                              /\ Shaped(c, b, Body(x))
<1>1. c \in Seq(Byte) /\ Len(c) \in Nat /\ Len(c) <= max
  BY DEF Cache
<1>2. PICK b \in Seq(Byte) : Encap(c, x) = c \o b /\ c \o b \in Cache
  BY EncapGrows DEF Grown
<1>3. Len(c) + Len(b) <= max
  <2>1. Len(c \o b) = Len(c) + Len(b)
    BY ONLY <1>1, b \in Seq(Byte)
  <2> QED
    BY <1>2, <2>1 DEF Cache
<1>4. CASE Len(c) + 5 > max
  <2>1. max - Len(c) < 5 /\ Len(b) < 5
    BY ONLY <1>1, <1>3, <1>4, max \in Nat, b \in Seq(Byte)
  <2> QED
    BY <1>2, <1>3, <2>1 DEF Shaped
<1>5. CASE Len(c) + 5 <= max
  <2>1. ~(max - Len(c) < 5)
    BY ONLY <1>1, <1>5, max \in Nat
  <2> SUFFICES \E p \in Seq(Byte) : /\ Encap(c, x) = c \o p
                 /\ \E m \in 0..Len(Body(x)) : p = SubSeq(Body(x), 1, m) /\ (m = Len(Body(x)) \/ Len(c) + m = max)
    <3>1. PICK p \in Seq(Byte) : /\ Encap(c, x) = c \o p
                 /\ \E m \in 0..Len(Body(x)) : p = SubSeq(Body(x), 1, m) /\ (m = Len(Body(x)) \/ Len(c) + m = max)
      OBVIOUS
    <3>2. Len(c \o p) = Len(c) + Len(p) /\ Len(c \o b) = Len(c) + Len(b)
      BY ONLY <1>1, p \in Seq(Byte), b \in Seq(Byte)
    <3>3. Len(c) + Len(p) <= max
      BY ONLY <1>2, <1>3, <3>1, <3>2
    <3> QED
      BY ONLY <2>1, <3>1, <3>3, p \in Seq(Byte) DEF Shaped
  <2>2. SetWord(SetByte(c, x.code), NetWord(x.reg)) = c \o Three(x)
    BY <1>5, InfoType, HeadPut
  <2>3. ASSUME NEW p, p = Body(x), Encap(c, x) = c \o p
        PROVE  \E q \in Seq(Byte) : /\ Encap(c, x) = c \o q
                 /\ \E m \in 0..Len(Body(x)) : q = SubSeq(Body(x), 1, m) /\ (m = Len(Body(x)) \/ Len(c) + m = max)
    <3>1. p \in Seq(Byte)
      BY <2>3, BodyType
    <3>2. Len(p) \in 0..Len(p) /\ SubSeq(p, 1, Len(p)) = p
      BY ONLY <3>1, CutWhole
    <3> QED
      BY ONLY <2>3, <3>1, <3>2
  <2>4. CASE x.code \in 1..4
    <3>1. Encap(c, x) = SetWord(c \o Three(x), NetWord(x.n_reg)) /\ Body(x) = Five(x, x.n_reg)
      BY ONLY <2>2, <2>4 DEF Encap, Body
    <3>2. /\ x.n_reg \in Word /\ NetWord(x.n_reg) \in Word
          /\ Stored(NetWord(x.n_reg)) = <<x.n_reg \div 256, x.n_reg % 256>>
      BY InfoType, SwapType, StoredWord DEF NetWord
    <3>3. SetWord(c \o Three(x), NetWord(x.n_reg)) = c \o Five(x, x.n_reg)
      BY <1>5, <3>2, HeadPut
    <3> QED
      BY ONLY <2>3, <3>1, <3>3
  <2>5. CASE x.code \in {5, 6}
    <3>1. x.code \notin 1..4
      BY <2>5
    <3>2. PICK w : w = Loaded(x.value[0], x.value[1])
      OBVIOUS
    <3>3. Encap(c, x) = SetWord(c \o Three(x), LowFirst(w)) /\ Body(x) = Five(x, Swap(w))
      BY ONLY <2>2, <2>5, <3>1, <3>2 DEF Encap, Body, Single
    <3>4. w \in Word
      <4>1. 0 \in ValIndex /\ 1 \in ValIndex
        BY MbCodecAssumption DEF ValIndex
      <4>2. x.value[0] \in Byte /\ x.value[1] \in Byte
        BY <4>1, InfoType
      <4> QED
        BY <3>2, <4>2, LoadedType
    <3>5. Swap(w) \in Word /\ LowFirst(w) \in Word
      BY <3>4, SwapType DEF LowFirst
    <3>6. Stored(LowFirst(w)) = <<Swap(w) \div 256, Swap(w) % 256>>
      <4>1. Pair(w, w \div 256, w % 256)
        BY <3>4, WordTaken
      <4>2. Pair(Swap(w), w % 256, w \div 256) /\ Stored(LowFirst(w)) = <<w % 256, w \div 256>>
        BY ONLY <4>1, HostOK, Converted
      <4> QED
        BY ONLY <4>2 DEF Pair
    <3>7. SetWord(c \o Three(x), LowFirst(w)) = c \o Five(x, Swap(w))
      BY <1>5, <3>5, <3>6, HeadPut
    <3> QED
      BY ONLY <2>3, <3>3, <3>7
  <2>6. ASSUME NEW s \in Seq(Byte), Len(s) \in Byte,
               Encap(c, x) = WithCount(c \o Three(x), x, s), Body(x) = Six(x, s) \o s
        PROVE  \E q \in Seq(Byte) : /\ Encap(c, x) = c \o q
                 /\ \E m \in 0..Len(Body(x)) : q = SubSeq(Body(x), 1, m) /\ (m = Len(Body(x)) \/ Len(c) + m = max)
    <3>1. PICK q \in Seq(Byte) :
            /\ WithCount(c \o Three(x), x, s) = c \o q
            /\ \E m \in 0..(6 + Len(s)) :
                 q = SubSeq(Six(x, s) \o s, 1, m) /\ (m = 6 + Len(s) \/ Len(c) + m = max)
      BY <1>5, <2>6, CountPut
    <3>2. Len(Body(x)) = 6 + Len(s)
      <4>1. PICK six : six = Six(x, s)
        OBVIOUS
      <4>2. six \in Seq(Byte) /\ Len(six) = 6
        BY <4>1, <2>6, SixType
      <4>3. Len(six \o s) = 6 + Len(s)
        <5>1. Len(six \o s) = Len(six) + Len(s)
          BY ONLY <4>2, s \in Seq(Byte), CatAssociates
        <5> QED
          BY ONLY <4>2, <5>1
      <4>4. Body(x) = six \o s
        BY ONLY <2>6, <4>1
      <4> QED
        BY ONLY <4>3, <4>4
    <3> QED
      BY ONLY <2>6, <3>1, <3>2, q \in Seq(Byte)
  <2>7. CASE x.code = 15
    <3>1. x.code \notin 1..4 /\ x.code \notin {5, 6}
      BY <2>7
    <3>2. Encap(c, x) = WithCount(c \o Three(x), x, Packs(x))
      BY ONLY <2>2, <2>7, <3>1 DEF Encap, Packs
    <3>3. Body(x) = Six(x, Packs(x)) \o Packs(x)
      BY ONLY <2>7, <3>1 DEF Body
    <3> QED
      BY ONLY <2>6, <3>2, <3>3, x \in MBInfo, BytesType, BytesCount
  <2>8. CASE x.code = 16
    <3>1. x.code \notin 1..4 /\ x.code \notin {5, 6} /\ x.code # 15
      BY <2>8
    <3>2. Encap(c, x) = WithCount(c \o Three(x), x, Registers(x)) /\ Body(x) = Six(x, Registers(x)) \o Registers(x)
      BY ONLY <2>2, <2>8, <3>1 DEF Encap, Body, Registers
    <3> QED
      BY ONLY <2>6, <3>2, x \in MBInfo, BytesType, BytesCount
  <2>9. CASE x.code \notin 1..4 /\ x.code \notin {5, 6} /\ x.code # 15 /\ x.code # 16
    <3>1. Encap(c, x) = c \o Three(x) /\ Body(x) = Three(x)
      BY ONLY <2>2, <2>9 DEF Encap, Body
    <3> QED
      BY ONLY <2>3, <3>1
  <2> QED
    BY ONLY <2>4, <2>5, <2>7, <2>8, <2>9
<1>6. Len(c) + 5 > max \/ Len(c) + 5 <= max
  BY ONLY <1>1, max \in Nat
<1> QED
  BY ONLY <1>4, <1>5, <1>6
-----------------------------------------------------------------------------
(* What the slave reads in it.                                             *)

LEMMA EightBits ==
  ASSUME NEW a \in {0, 1}, NEW b \in {0, 1}, NEW c \in {0, 1}, NEW d \in {0, 1},
         NEW e \in {0, 1}, NEW f \in {0, 1}, NEW g \in {0, 1}, NEW h \in {0, 1},
         NEW p, p = a + 2 * b + 4 * c + 8 * d + 16 * e + 32 * f + 64 * g + 128 * h
  PROVE  /\ (p \div 1) % 2 = a /\ (p \div 2) % 2 = b /\ (p \div 4) % 2 = c /\ (p \div 8) % 2 = d
         /\ (p \div 16) % 2 = e /\ (p \div 32) % 2 = f /\ (p \div 64) % 2 = g /\ (p \div 128) % 2 = h
OBVIOUS

\* Bit j of a packed byte says whether coil j is on.
LEMMA BitOfPacked ==
  ASSUME NEW v, NEW i, NEW j \in 0..7
  PROVE  (Packed(v, i) \div Weight[j + 1]) % 2 = IF v[i * 8 + j] # 0 THEN 1 ELSE 0
<1> DEFINE On(k) == IF v[i * 8 + k] # 0 THEN 1 ELSE 0
<1>1. \A k : On(k) \in {0, 1}
  OBVIOUS
<1>2. Packed(v, i) = On(0) + 2 * On(1) + 4 * On(2) + 8 * On(3) + 16 * On(4) + 32 * On(5) + 64 * On(6) + 128 * On(7)
  BY DEF Packed
<1> HIDE DEF On
<1>3. PICK p : p = Packed(v, i)
  OBVIOUS
<1>4. /\ (p \div 1) % 2 = On(0) /\ (p \div 2) % 2 = On(1) /\ (p \div 4) % 2 = On(2)
      /\ (p \div 8) % 2 = On(3) /\ (p \div 16) % 2 = On(4) /\ (p \div 32) % 2 = On(5)
      /\ (p \div 64) % 2 = On(6) /\ (p \div 128) % 2 = On(7)
  BY ONLY <1>1, <1>2, <1>3, EightBits
<1>5. j \in {0, 1, 2, 3, 4, 5, 6, 7}
  OBVIOUS
<1>6. (p \div Weight[j + 1]) % 2 = On(j)
  BY ONLY <1>4, <1>5 DEF Weight
<1> QED
  BY ONLY <1>3, <1>6 DEF On

\* The slave reads the coils that were packed.
LEMMA CoilsRead ==
  ASSUME NEW x \in MBInfo, NEW n \in Nat, n = x.n_reg, CoilBytes(n) = (n + 7) \div 8
  PROVE  Coils(Packs(x), n) = [k \in 1..n |-> x.value[k - 1] # 0]
<1>1. ASSUME NEW k \in 1..n
      PROVE  ((Packs(x)[(k - 1) \div 8 + 1] \div Weight[((k - 1) % 8) + 1]) % 2 = 1) = (x.value[k - 1] # 0)
  <2>1. PICK i, j, b : i = (k - 1) \div 8 /\ j = (k - 1) % 8 /\ b = (n + 7) \div 8
    OBVIOUS
  <2>2. i \in Int /\ j \in 0..7 /\ i * 8 + j = k - 1 /\ i + 1 \in 1..b
    BY ONLY <2>1, n \in Nat, k \in 1..n
  <2>3. Packs(x)[i + 1] = Packed(x.value, i)
    <3>1. i + 1 \in 1..CoilBytes(x.n_reg) /\ (i + 1) - 1 = i
      BY <2>1, <2>2
    <3> QED
      BY ONLY <3>1 DEF Packs
  <2>4. (Packed(x.value, i) \div Weight[j + 1]) % 2 = IF x.value[i * 8 + j] # 0 THEN 1 ELSE 0
    BY ONLY <2>2, BitOfPacked
  <2>5. ((Packs(x)[i + 1] \div Weight[j + 1]) % 2 = 1) = (x.value[k - 1] # 0)
    BY ONLY <2>2, <2>3, <2>4
  <2> QED
    BY ONLY <2>1, <2>5
<1> QED
  BY <1>1 DEF Coils

\* What the slave makes of the first m bytes of p.
Heeds(p, m) == Understood(SubSeq(p, 1, m))

\* No request has less than five bytes.
LEMMA ShortIsMalformed ==
  ASSUME NEW p, Len(p) \in Nat, Len(p) < 5
  PROVE  Understood(p) = Malformed
<1>1. PICK n \in Nat : n = Len(p)
  OBVIOUS
<1>2. n < 5
  BY ONLY <1>1, Len(p) < 5
<1>3. n # 5 /\ ~(n > 6)
  BY ONLY <1>2, n \in Nat
<1> QED
  BY ONLY <1>1, <1>2, <1>3 DEF Understood

\* Of a request of five bytes the slave understands all or nothing.
LEMMA UnderstoodFive ==
  ASSUME NEW x \in MBInfo, NEW w \in Word, HostOK, NEW m \in 0..5, x.code \in 1..6
  PROVE  /\ m < 5 => Heeds(Five(x, w), m) = Malformed
         /\ m = 5 => Heeds(Five(x, w), m) =
              [code |-> x.code, reg |-> x.reg, n |-> IF x.code \in 1..4 THEN w ELSE 1,
               data |-> IF x.code \in 1..4 THEN <<>> ELSE <<w \div 256, w % 256>>]
<1>1. PICK a, b, e, f, g : /\ a = x.code /\ b = x.reg \div 256 /\ e = x.reg % 256
                           /\ f = w \div 256 /\ g = w % 256
  OBVIOUS
<1>2. Pair(x.reg, b, e) /\ Pair(w, f, g) /\ a \in Byte
  BY <1>1, InfoType, WordTaken
<1>3. a \in Byte /\ b \in Byte /\ e \in Byte /\ f \in Byte /\ g \in Byte /\ High(b, e) = x.reg /\ High(f, g) = w
  BY <1>2 DEF Pair
<1>4. PICK p : p = <<a, b, e, f, g>>
  OBVIOUS
<1>5. Five(x, w) = p
  BY <1>1, <1>4 DEF Five
<1>6. /\ p \in Seq(Byte) /\ Len(p) = 5 /\ p[1] = a /\ p[2] = b /\ p[3] = e /\ p[4] = f /\ p[5] = g
      /\ SubSeq(p, 1, 5) = p
  <2>1. p \in Seq(Byte) /\ Len(p) = 5 /\ p[1] = a /\ p[2] = b /\ p[3] = e /\ p[4] = f /\ p[5] = g
    BY ONLY <1>3, <1>4
  <2>2. SubSeq(p, 1, Len(p)) = p
    BY ONLY <2>1, CutWhole
  <2> QED
    BY ONLY <2>1, <2>2
<1>7. ASSUME m < 5
      PROVE  Heeds(Five(x, w), m) = Malformed
  <2>1. Len(SubSeq(p, 1, m)) = m /\ m \in Nat
    BY <1>6, CutLength
  <2> QED
    BY ONLY <1>5, <1>7, <2>1, ShortIsMalformed DEF Heeds
<1>8. CASE a \in 1..4
  <2>1. Understood(p) = [code |-> a, reg |-> High(b, e), n |-> High(f, g), data |-> <<>>]
    BY ONLY <1>6, <1>8 DEF Understood
  <2>2. m = 5 => Heeds(Five(x, w), m) = [code |-> a, reg |-> x.reg, n |-> w, data |-> <<>>]
    BY ONLY <1>3, <1>5, <1>6, <2>1 DEF Heeds
  <2>3. x.code \in 1..4
    BY ONLY <1>1, <1>8
  <2> QED
    BY ONLY <1>1, <1>7, <2>2, <2>3
<1>9. CASE a \in {5, 6}
  <2>1. a \notin 1..4
    BY <1>9
  <2>2. Understood(p) = [code |-> a, reg |-> High(b, e), n |-> 1, data |-> <<f, g>>]
    BY ONLY <1>6, <1>9, <2>1 DEF Understood
  <2>3. m = 5 => Heeds(Five(x, w), m) = [code |-> a, reg |-> x.reg, n |-> 1, data |-> <<f, g>>]
    BY ONLY <1>3, <1>5, <1>6, <2>2 DEF Heeds
  <2>4. x.code \notin 1..4
    BY ONLY <1>1, <2>1
  <2> QED
    BY ONLY <1>1, <1>7, <2>3, <2>4
<1> QED
  BY <1>1, <1>8, <1>9

\* A counted request is understood when its count is right, and whole.
LEMMA UnderstoodCounted ==
  ASSUME NEW x \in MBInfo, HostOK, NEW s \in Seq(Byte), Len(s) \in Byte,
         NEW m \in 0..(6 + Len(s)), x.code \in {15, 16},
         NEW n \in Nat, n = IF x.code = 15 THEN (x.n_reg + 7) \div 8 ELSE x.n_reg * 2
  PROVE  Heeds(Six(x, s) \o s, m) =
           IF m = 6 + Len(s) /\ Len(s) = n /\ n > 0
           THEN [code |-> x.code, reg |-> x.reg, n |-> x.n_reg,
                 data |-> IF x.code = 15 THEN Coils(s, x.n_reg) ELSE s]
           ELSE Malformed
<1>1. PICK a, b, e, f, g, h : /\ a = x.code /\ b = x.reg \div 256 /\ e = x.reg % 256
                              /\ f = x.n_reg \div 256 /\ g = x.n_reg % 256 /\ h = Len(s)
  OBVIOUS
<1>2. Pair(x.reg, b, e) /\ Pair(x.n_reg, f, g) /\ a \in Byte
  BY <1>1, InfoType, WordTaken
<1>3. /\ a \in Byte /\ b \in Byte /\ e \in Byte /\ f \in Byte /\ g \in Byte /\ h \in Byte
      /\ High(b, e) = x.reg /\ High(f, g) = x.n_reg
  BY <1>1, <1>2 DEF Pair
<1>4. PICK six : six = <<a, b, e, f, g, h>>
  OBVIOUS
<1>5. Six(x, s) = six
  BY ONLY <1>1, <1>4 DEF Six
<1>6. /\ six \in Seq(Byte) /\ Len(six) = 6 /\ six[1] = a /\ six[2] = b /\ six[3] = e
      /\ six[4] = f /\ six[5] = g /\ six[6] = h
  BY ONLY <1>3, <1>4
<1>7. PICK p : p = SubSeq(six \o s, 1, m)
  OBVIOUS
<1>8. six \o s \in Seq(Byte) /\ Len(six \o s) = 6 + Len(s)
  <2>1. six \o s \in Seq(Byte) /\ Len(six \o s) = Len(six) + Len(s)
    BY ONLY <1>6, s \in Seq(Byte), CatAssociates
  <2> QED
    BY ONLY <1>6, <2>1
<1>9. Len(p) = m /\ \A k \in 1..m : p[k] = (six \o s)[k]
  BY ONLY <1>7, <1>8, m \in 0..(6 + Len(s)), CutLength
<1>10. Heeds(Six(x, s) \o s, m) = Understood(p)
  BY ONLY <1>5, <1>7 DEF Heeds
<1>11. \A k \in 1..6 : (six \o s)[k] = six[k]
  <2>1. \A k \in 1..Len(six) : (six \o s)[k] = six[k]
    BY ONLY <1>6, s \in Seq(Byte), CatElements
  <2> QED
    BY ONLY <1>6, <2>1
<1>12. a = x.code /\ x.code \notin 1..4 /\ x.code \notin {5, 6} /\ (x.code # 15 => x.code = 16)
  BY ONLY <1>1, x.code \in {15, 16}
<1>13. h = Len(s) /\ Len(s) \in Nat /\ m \in Int /\ 0 <= m /\ m <= 6 + Len(s)
  BY ONLY <1>1, s \in Seq(Byte), m \in 0..(6 + Len(s))
<1>14. CASE m <= 6
  <2>1. Understood(p) = Malformed
    <3>1. CASE m < 5
      BY ONLY <1>9, <1>13, <3>1, ShortIsMalformed
    <3>2. CASE m >= 5
      <4>1. 1 \in 1..6 /\ 1 \in 1..m
        BY ONLY <1>13, <3>2
      <4>2. p[1] = x.code
        BY ONLY <1>6, <1>9, <1>11, <1>12, <4>1
      <4>3. Len(p) \in Nat /\ ~(Len(p) > 6)
        BY ONLY <1>9, <1>13, <1>14
      <4> QED
        BY ONLY <1>12, <4>2, <4>3 DEF Understood
    <3> QED
      BY ONLY <1>13, <3>1, <3>2
  <2>2. ~(m = 6 + Len(s) /\ Len(s) = n /\ n > 0)
    BY ONLY <1>13, <1>14, n \in Nat
  <2> QED
    BY ONLY <1>10, <2>1, <2>2
<1>15. CASE m > 6
  <2>1. /\ p[1] = x.code /\ p[2] = b /\ p[3] = e /\ p[4] = f /\ p[5] = g /\ p[6] = h
        /\ Len(p) > 6 /\ ~(Len(p) < 5)
    <3>1. \A k \in 1..6 : k \in 1..m
      BY ONLY <1>13, <1>15
    <3>2. \A k \in 1..6 : p[k] = six[k]
      BY ONLY <1>9, <1>11, <3>1
    <3>3. /\ p[1] = six[1] /\ p[2] = six[2] /\ p[3] = six[3]
          /\ p[4] = six[4] /\ p[5] = six[5] /\ p[6] = six[6]
      BY ONLY <3>2
    <3>4. Len(p) > 6 /\ ~(Len(p) < 5)
      BY ONLY <1>9, <1>13, <1>15
    <3> QED
      BY ONLY <1>6, <1>12, <3>3, <3>4, Zenon
  <2>2. PICK rest : rest = SubSeq(p, 7, Len(p))
    OBVIOUS
  <2>3. ASSUME m = 6 + Len(s)
        PROVE  rest = s
    <3>1. p = six \o s
      BY ONLY <1>7, <1>8, <2>3, CutWhole
    <3>2. SubSeq(six \o s, 7, 6 + Len(s)) = s
      <4>1. SubSeq(six \o s, Len(six) + 1, Len(six) + Len(s)) = s
        BY ONLY <1>6, s \in Seq(Byte), CatElements
      <4>2. Len(six) + 1 = 7
        BY ONLY <1>6
      <4> QED
        BY ONLY <1>6, <4>1, <4>2, Zenon
    <3> QED
      BY ONLY <1>9, <2>2, <2>3, <3>1, <3>2
  <2>4. Understood(p) =
          IF Len(p) = 6 + n /\ p[6] = n
          THEN [code |-> x.code, reg |-> x.reg, n |-> x.n_reg,
                data |-> IF x.code = 15 THEN Coils(rest, x.n_reg) ELSE rest]
          ELSE Malformed
    <3>1. CASE x.code = 15
      <4>1. n = (x.n_reg + 7) \div 8
        BY ONLY <3>1, n = IF x.code = 15 THEN (x.n_reg + 7) \div 8 ELSE x.n_reg * 2
      <4> QED
        BY ONLY <1>3, <1>12, <2>1, <2>2, <3>1, <4>1 DEF Understood
    <3>2. CASE x.code = 16
      <4>1. n = x.n_reg * 2 /\ x.code # 15
        BY ONLY <3>2, n = IF x.code = 15 THEN (x.n_reg + 7) \div 8 ELSE x.n_reg * 2
      <4> QED
        BY ONLY <1>3, <1>12, <2>1, <2>2, <3>2, <4>1 DEF Understood
    <3> QED
      BY ONLY <1>12, <3>1, <3>2
  <2>5. (Len(p) = 6 + n /\ p[6] = n) <=> (m = 6 + Len(s) /\ Len(s) = n /\ n > 0)
    BY ONLY <1>9, <1>13, <1>15, <2>1, n \in Nat
  <2> QED
    BY ONLY <1>10, <2>3, <2>4, <2>5
<1> QED
  BY ONLY <1>13, <1>14, <1>15

\* What a record asks for, by its code.
LEMMA AskedIs ==
  ASSUME HostOK, mine \in MBInfo
  PROVE  /\ mine.code \in 1..4 =>
              Asked = [code |-> mine.code, reg |-> mine.reg, n |-> mine.n_reg, data |-> <<>>]
         /\ mine.code \in {5, 6} =>
              Asked = [code |-> mine.code, reg |-> mine.reg, n |-> 1,
                       data |-> <<Single(mine) \div 256, Single(mine) % 256>>]
         /\ mine.code = 15 /\ mine.n_reg <= ValSize =>
              Asked = [code |-> mine.code, reg |-> mine.reg, n |-> mine.n_reg,
                       data |-> [k \in 1..mine.n_reg |-> mine.value[k - 1] # 0]]
         /\ mine.code = 16 /\ mine.n_reg * 2 <= ValSize /\ mine.n_reg * 2 <= 256 =>
              Asked = [code |-> mine.code, reg |-> mine.reg, n |-> mine.n_reg,
                       data |-> [k \in 1..(mine.n_reg * 2) |-> mine.value[k - 1]]]
<1> DEFINE v == [k \in Word |-> IF k \in ValIndex THEN mine.value[k] ELSE NoByte]
           n == mine.n_reg
           w == Loaded(v[0], v[1])
           data == CASE mine.code \in 1..4 -> <<>>
                     [] mine.code \in {5, 6} -> <<w % 256, w \div 256>>
                     [] mine.code = 15 -> [k \in 1..n |-> v[k - 1] # 0]
                     [] OTHER -> [k \in 1..(2 * n) |-> v[k - 1]]
<1>1. Asked = [code |-> mine.code, reg |-> mine.reg, n |-> IF mine.code \in {5, 6} THEN 1 ELSE n, data |-> data]
  BY DEF Asked
<1>2. \A k \in Word : k \in ValIndex => v[k] = mine.value[k]
  OBVIOUS
<1>3. n \in Int /\ 0 <= n /\ n < 65536 /\ ValSize \in Int
  BY InfoType, WordIs, MbCodecAssumption
<1> HIDE DEF v, n
<1>4. CASE mine.code \in 1..4
  <2>1. mine.code \notin {5, 6} /\ mine.code # 15 /\ mine.code # 16
    BY <1>4
  <2>2. data = <<>>
    BY ONLY <1>4
  <2> QED
    BY ONLY <1>1, <1>4, <2>1, <2>2 DEF n
<1>5. CASE mine.code \in {5, 6}
  <2>1. mine.code \notin 1..4 /\ mine.code # 15 /\ mine.code # 16
    BY <1>5
  <2>2. data = <<w % 256, w \div 256>>
    BY ONLY <1>5, <2>1
  <2>3. 0 \in Word /\ 1 \in Word /\ 0 \in ValIndex /\ 1 \in ValIndex
    BY WordIs, MbCodecAssumption DEF ValIndex
  <2>4. PICK l : l = w
    OBVIOUS
  <2>5. Single(mine) = Swap(l)
    BY ONLY <1>2, <2>3, <2>4 DEF Single
  <2>6. l \in Word
    <3>1. mine.value[0] \in Byte /\ mine.value[1] \in Byte
      BY <2>3, InfoType
    <3>2. l = Loaded(mine.value[0], mine.value[1])
      BY ONLY <1>2, <2>3, <2>4
    <3> QED
      BY <3>1, <3>2, LoadedType
  <2>7. Swap(l) \div 256 = l % 256 /\ Swap(l) % 256 = l \div 256
    <3>1. Pair(l, l \div 256, l % 256)
      BY ONLY <2>6, WordTaken
    <3>2. Pair(Swap(l), l % 256, l \div 256)
      BY ONLY <3>1, HostOK, Converted
    <3> QED
      BY ONLY <3>2 DEF Pair
  <2>8. data = <<Single(mine) \div 256, Single(mine) % 256>>
    BY ONLY <2>2, <2>4, <2>5, <2>7, Zenon
  <2> HIDE DEF data
  <2>9. Asked = [code |-> mine.code, reg |-> mine.reg, n |-> 1, data |-> data]
    BY ONLY <1>1, <1>5
  <2> QED
    BY ONLY <2>1, <2>8, <2>9
<1>6. CASE mine.code = 15
  <2>1. mine.code \notin 1..4 /\ mine.code \notin {5, 6} /\ mine.code # 16
    BY <1>6
  <2>2. data = [k \in 1..n |-> v[k - 1] # 0]
    BY ONLY <1>6, <2>1
  <2>3. ASSUME n <= ValSize
        PROVE  data = [k \in 1..n |-> mine.value[k - 1] # 0]
    <3>1. \A k \in 1..n : k - 1 \in Word /\ k - 1 \in ValIndex
      BY ONLY <1>3, <2>3, WordIs DEF ValIndex
    <3>2. \A k \in 1..n : v[k - 1] = mine.value[k - 1]
      BY ONLY <1>2, <3>1
    <3> QED
      BY ONLY <2>2, <3>2
  <2> HIDE DEF data
  <2> QED
    BY ONLY <1>1, <1>6, <2>1, <2>3 DEF n
<1>7. CASE mine.code = 16
  <2>1. mine.code \notin 1..4 /\ mine.code \notin {5, 6} /\ mine.code # 15
    BY <1>7
  <2>2. data = [k \in 1..(2 * n) |-> v[k - 1]] /\ 2 * n = n * 2
    BY ONLY <1>3, <2>1
  <2>3. ASSUME n * 2 <= ValSize, n * 2 <= 256
        PROVE  data = [k \in 1..(n * 2) |-> mine.value[k - 1]]
    <3>2. \A k \in 1..(n * 2) : k - 1 \in Word /\ k - 1 \in ValIndex
      BY ONLY <1>3, <2>3, WordIs DEF ValIndex
    <3>3. \A k \in 1..(n * 2) : v[k - 1] = mine.value[k - 1]
      BY ONLY <1>2, <3>2
    <3> QED
      BY ONLY <2>2, <3>3
  <2> HIDE DEF data
  <2> QED
    BY ONLY <1>1, <1>7, <2>1, <2>3 DEF n
<1> QED
  BY ONLY <1>4, <1>5, <1>6, <1>7, Zenon

GoodCode == 1..6 \union {15, 16}

\* A body cut short is no request; a whole one is the request that was meant
\* if its count fits n_byte, and else none.
LEMMA UnderstoodCut ==
  ASSUME HostOK, mine \in MBInfo, ~ReadsPastValue(mine), NEW m \in 0..Len(Body(mine))
  PROVE  /\ Heeds(Body(mine), m) \in {Malformed, Asked}
         /\ m < Len(Body(mine)) => Heeds(Body(mine), m) = Malformed
         /\ m = Len(Body(mine)) /\ mine.code \in GoodCode /\ Countable => Heeds(Body(mine), m) = Asked
<1>1. /\ mine.n_reg \in Word /\ mine.n_reg \in Nat /\ mine.reg \in Word
      /\ CountMod \in Nat /\ CountMod <= 256 /\ CountMod > 0 /\ ValSize \in Nat
  <2>1. mine.n_reg \in Word /\ mine.reg \in Word
    BY InfoType
  <2>2. CountMod \in Nat /\ CountMod <= 256 /\ CountMod > 0 /\ ValSize \in Nat
    BY MbCodecAssumption
  <2>3. mine.n_reg \in Nat
    BY ONLY <2>1, WordIs
  <2> QED
    BY ONLY <2>1, <2>2, <2>3
<1>0. CountMod \in Nat \ {0}
  BY ONLY <1>1
<1>2. ASSUME NEW w \in Word, Body(mine) = Five(mine, w), mine.code \in 1..6,
             Asked = [code |-> mine.code, reg |-> mine.reg, n |-> IF mine.code \in 1..4 THEN w ELSE 1,
                      data |-> IF mine.code \in 1..4 THEN <<>> ELSE <<w \div 256, w % 256>>]
      PROVE  /\ Heeds(Body(mine), m) \in {Malformed, Asked}
             /\ m < Len(Body(mine)) => Heeds(Body(mine), m) = Malformed
             /\ m = Len(Body(mine)) => Heeds(Body(mine), m) = Asked
  <2>1. Len(Five(mine, w)) = 5
    BY DEF Five
  <2>2. m \in 0..5
    BY ONLY <1>2, <2>1, m \in 0..Len(Body(mine))
  <2>3. /\ m < 5 => Heeds(Five(mine, w), m) = Malformed
        /\ m = 5 => Heeds(Five(mine, w), m) = Asked
    BY ONLY <1>2, <2>2, mine \in MBInfo, HostOK, UnderstoodFive
  <2>4. m < 5 \/ m = 5
    BY ONLY <2>2
  <2> QED
    BY ONLY <1>2, <2>1, <2>3, <2>4
<1>3. CASE mine.code \in 1..4
  <2>1. mine.code \in 1..6 /\ mine.code \notin {5, 6} /\ mine.code # 15 /\ mine.code # 16
    BY <1>3
  <2>2. Body(mine) = Five(mine, mine.n_reg)
    BY ONLY <1>3, <2>1 DEF Body
  <2>3. Asked = [code |-> mine.code, reg |-> mine.reg, n |-> mine.n_reg, data |-> <<>>]
    BY <1>3, AskedIs
  <2> QED
    BY ONLY <1>1, <1>2, <1>3, <2>1, <2>2, <2>3
<1>4. CASE mine.code \in {5, 6}
  <2>1. mine.code \in 1..6 /\ mine.code \notin 1..4 /\ mine.code # 15 /\ mine.code # 16
    BY <1>4
  <2>2. Body(mine) = Five(mine, Single(mine))
    BY ONLY <1>4, <2>1 DEF Body
  <2>3. Asked = [code |-> mine.code, reg |-> mine.reg, n |-> 1,
                 data |-> <<Single(mine) \div 256, Single(mine) % 256>>]
    BY <1>4, AskedIs
  <2>4. Single(mine) \in Word
    <3>1. 0 \in ValIndex /\ 1 \in ValIndex
      BY MbCodecAssumption DEF ValIndex
    <3>2. mine.value[0] \in Byte /\ mine.value[1] \in Byte
      BY <3>1, InfoType
    <3> QED
      BY <3>2, LoadedType, SwapType DEF Single
  <2> QED
    BY ONLY <1>2, <2>1, <2>2, <2>3, <2>4
<1>5. ASSUME NEW s \in Seq(Byte), Len(s) \in Byte, Body(mine) = Six(mine, s) \o s, mine.code \in {15, 16},
             NEW n \in Nat, n = IF mine.code = 15 THEN (mine.n_reg + 7) \div 8 ELSE mine.n_reg * 2,
             Len(s) = n => Asked = [code |-> mine.code, reg |-> mine.reg, n |-> mine.n_reg,
                                    data |-> IF mine.code = 15 THEN Coils(s, mine.n_reg) ELSE s],
             Countable => Len(s) = n /\ n > 0
      PROVE  /\ Heeds(Body(mine), m) \in {Malformed, Asked}
             /\ m < Len(Body(mine)) => Heeds(Body(mine), m) = Malformed
             /\ m = Len(Body(mine)) /\ Countable => Heeds(Body(mine), m) = Asked
  <2>1. Len(Body(mine)) = 6 + Len(s)
    <3>1. PICK six : six = Six(mine, s)
      OBVIOUS
    <3>2. six \in Seq(Byte) /\ Len(six) = 6
      BY <1>5, <3>1, SixType
    <3>3. Len(six \o s) = Len(six) + Len(s)
      BY ONLY <3>2, s \in Seq(Byte), CatAssociates
    <3> QED
      BY ONLY <1>5, <3>1, <3>2, <3>3
  <2>2. m \in 0..(6 + Len(s))
    BY ONLY <2>1, m \in 0..Len(Body(mine))
  <2>3. Heeds(Six(mine, s) \o s, m) =
          IF m = 6 + Len(s) /\ Len(s) = n /\ n > 0
          THEN [code |-> mine.code, reg |-> mine.reg, n |-> mine.n_reg,
                data |-> IF mine.code = 15 THEN Coils(s, mine.n_reg) ELSE s]
          ELSE Malformed
    BY <1>5, <2>2, UnderstoodCounted
  <2>4. m < 6 + Len(s) => m # 6 + Len(s)
    BY ONLY <2>2, s \in Seq(Byte)
  <2> QED
    BY ONLY <1>5, <2>1, <2>3, <2>4
<1>6. CASE mine.code = 15
  <2>1. mine.code \notin 1..4 /\ mine.code \notin {5, 6} /\ mine.code # 16 /\ mine.code \in {15, 16}
    BY <1>6
  <2>2. Body(mine) = Six(mine, Packs(mine)) \o Packs(mine)
    BY ONLY <1>6, <2>1 DEF Body
  <2>3. /\ Packs(mine) \in Seq(Byte) /\ Len(Packs(mine)) \in Byte
        /\ Len(Packs(mine)) = CoilBytes(mine.n_reg)
    BY BytesType, BytesCount
  <2>4. PICK n : n = (mine.n_reg + 7) \div 8
    OBVIOUS
  <2>5. n \in Nat /\ mine.n_reg <= n * 8 /\ (mine.n_reg > 0 => n > 0)
    <3>1. PICK r \in Nat : r = mine.n_reg
      BY <1>1
    <3>2. n = (r + 7) \div 8
      BY ONLY <2>4, <3>1
    <3>3. n \in Nat /\ r <= n * 8 /\ (r > 0 => n > 0)
      BY ONLY <3>2, r \in Nat
    <3> QED
      BY ONLY <3>1, <3>3
  <2>6. CoilBytes(mine.n_reg) * 8 <= ValSize
    <3>1. CoilBytes(mine.n_reg) \in Nat
      BY <1>1, CountsType
    <3>2. ~(CoilBytes(mine.n_reg) * 8 > ValSize)
      BY ONLY <1>6, ~ReadsPastValue(mine) DEF ReadsPastValue
    <3> QED
      BY ONLY <1>1, <3>1, <3>2
  <2>7. ASSUME CoilBytes(mine.n_reg) = n
        PROVE  Asked = [code |-> mine.code, reg |-> mine.reg, n |-> mine.n_reg,
                        data |-> Coils(Packs(mine), mine.n_reg)]
    <3>1. mine.n_reg <= ValSize
      BY ONLY <1>1, <2>5, <2>6, <2>7
    <3>2. Coils(Packs(mine), mine.n_reg) = [k \in 1..mine.n_reg |-> mine.value[k - 1] # 0]
      BY <1>1, <2>4, <2>7, CoilsRead
    <3> QED
      BY <1>6, <3>1, <3>2, AskedIs
  <2>8. ASSUME Countable
        PROVE  CoilBytes(mine.n_reg) = n /\ n > 0
    <3>1. n < CountMod /\ mine.n_reg > 0
      BY <1>6, <2>4, <2>8 DEF Countable
    <3>2. n % CountMod = n
      BY ONLY <1>1, <2>5, <3>1, <1>0, ModBound
    <3> QED
      BY ONLY <2>4, <2>5, <3>1, <3>2 DEF CoilBytes
  <2> QED
    BY ONLY <1>5, <1>6, <2>1, <2>2, <2>3, <2>4, <2>5, <2>7, <2>8
<1>7. CASE mine.code = 16
  <2>1. mine.code \notin 1..4 /\ mine.code \notin {5, 6} /\ mine.code # 15 /\ mine.code \in {15, 16}
    BY <1>7
  <2>2. Body(mine) = Six(mine, Registers(mine)) \o Registers(mine)
    BY ONLY <1>7, <2>1 DEF Body
  <2>3. /\ Registers(mine) \in Seq(Byte) /\ Len(Registers(mine)) \in Byte
        /\ Len(Registers(mine)) = RegisterBytes(mine.n_reg) /\ RegisterBytes(mine.n_reg) < CountMod
    BY <1>1, BytesType, BytesCount, CountsType
  <2>4. PICK n : n = mine.n_reg * 2
    OBVIOUS
  <2>5. n \in Nat /\ (mine.n_reg > 0 => n > 0)
    BY ONLY <1>1, <2>4
  <2>6. ASSUME RegisterBytes(mine.n_reg) = n
        PROVE  Asked = [code |-> mine.code, reg |-> mine.reg, n |-> mine.n_reg, data |-> Registers(mine)]
    <3>1. n <= ValSize /\ n <= 256
      BY <1>1, <2>3, <2>5, <2>6, MbCodecAssumption
    <3>2. Registers(mine) = [k \in 1..n |-> mine.value[k - 1]]
      BY ONLY <2>6 DEF Registers
    <3> QED
      BY <1>7, <2>4, <3>1, <3>2, AskedIs
  <2>7. ASSUME Countable
        PROVE  RegisterBytes(mine.n_reg) = n /\ n > 0
    <3>1. 2 * mine.n_reg < CountMod /\ mine.n_reg > 0
      BY <1>7, <2>7 DEF Countable
    <3>2. n < CountMod
      BY ONLY <1>1, <2>4, <3>1
    <3>3. n % CountMod = n
      BY ONLY <1>1, <2>5, <3>2, <1>0, ModBound
    <3> QED
      BY ONLY <2>4, <2>5, <3>1, <3>3 DEF RegisterBytes
  <2> QED
    BY ONLY <1>5, <1>7, <2>1, <2>2, <2>3, <2>4, <2>5, <2>6, <2>7
<1>8. CASE mine.code \notin 1..4 /\ mine.code \notin {5, 6} /\ mine.code # 15 /\ mine.code # 16
  <2>1. Body(mine) = Three(mine)
    BY ONLY <1>8 DEF Body
  <2>2. mine.code \notin GoodCode
    BY <1>8 DEF GoodCode
  <2>3. Body(mine) \in Seq(Byte) /\ Len(Body(mine)) = 3
    <3>1. Len(Three(mine)) = 3
      BY DEF Three
    <3> QED
      BY <2>1, <3>1, BodyType
  <2>4. Len(SubSeq(Body(mine), 1, m)) = m
    BY <2>3, CutLength
  <2>5. m \in Nat /\ m < 5
    BY ONLY <2>3, m \in 0..Len(Body(mine))
  <2>6. Heeds(Body(mine), m) = Malformed
    BY ONLY <2>4, <2>5, ShortIsMalformed DEF Heeds
  <2> QED
    BY ONLY <2>2, <2>6
<1> QED
  BY ONLY <1>3, <1>4, <1>6, <1>7, <1>8

\* Nothing short of the whole body is understood, and nothing of what is short.
LEMMA UnderstoodShaped ==
  ASSUME HostOK, max \in Nat, mine \in MBInfo, ~ReadsPastValue(mine), NEW c \in Cache,
         NEW b \in Seq(Byte), Shaped(c, b, Body(mine))
  PROVE  /\ Understood(b) \in {Malformed, Asked}
         /\ \A m \in 0..(Len(b) - 1) : Understood(SubSeq(b, 1, m)) = Malformed
         /\ Len(c) + 5 <= max /\ Len(c) + Len(Body(mine)) <= max /\ mine.code \in GoodCode /\ Countable
              => b = Body(mine) /\ Understood(b) = Asked
<1>1. Body(mine) \in Seq(Byte) /\ Len(c) \in Nat
  BY BodyType DEF Cache
<1>2. CASE max - Len(c) < 5
  <2>1. Len(b) < 5 /\ Len(b) \in Nat
    BY <1>2 DEF Shaped
  <2>2. ASSUME NEW m \in 0..(Len(b) - 1)
        PROVE  Understood(SubSeq(b, 1, m)) = Malformed
    <3>1. m \in Nat /\ m < 5 /\ m \in 0..Len(b)
      BY ONLY <2>1, m \in 0..(Len(b) - 1)
    <3>2. Len(SubSeq(b, 1, m)) = m
      BY ONLY <3>1, b \in Seq(Byte), CutLength
    <3> QED
      BY ONLY <3>1, <3>2, ShortIsMalformed
  <2>3. Understood(b) = Malformed
    BY ONLY <2>1, ShortIsMalformed
  <2>4. ~(Len(c) + 5 <= max)
    BY ONLY <1>1, <1>2, max \in Nat
  <2> QED
    BY ONLY <2>2, <2>3, <2>4
<1>3. CASE ~(max - Len(c) < 5)
  <2>1. PICK p : p = Body(mine)
    OBVIOUS
  <2>2. PICK r \in 0..Len(p) : b = SubSeq(p, 1, r) /\ (r = Len(p) \/ Len(c) + r = max)
    BY ONLY <1>3, <2>1, Shaped(c, b, Body(mine)) DEF Shaped
  <2>3. p \in Seq(Byte) /\ Len(b) = r
    BY ONLY <1>1, <2>1, <2>2, CutLength
  <2>4. \A m \in 0..Len(p) :
          /\ Heeds(p, m) \in {Malformed, Asked}
          /\ m < Len(p) => Heeds(p, m) = Malformed
          /\ m = Len(p) /\ mine.code \in GoodCode /\ Countable => Heeds(p, m) = Asked
    BY <2>1, UnderstoodCut
  <2>5. Understood(b) = Heeds(p, r)
    BY ONLY <2>2 DEF Heeds
  <2>6. ASSUME NEW m \in 0..(Len(b) - 1)
        PROVE  Understood(SubSeq(b, 1, m)) = Malformed
    <3>1. m \in 0..Len(p) /\ m < Len(p) /\ m \in 0..r /\ r \in 0..Len(p)
      BY ONLY <2>2, <2>3, m \in 0..(Len(b) - 1)
    <3>2. SubSeq(b, 1, m) = SubSeq(p, 1, m)
      BY ONLY <2>2, <2>3, <3>1, CutOfCut
    <3>3. Heeds(p, m) = Malformed
      BY ONLY <2>4, <3>1
    <3> QED
      BY ONLY <3>2, <3>3 DEF Heeds
  <2>7. ASSUME Len(c) + Len(p) <= max
        PROVE  r = Len(p) /\ b = p
    <3>1. r = Len(p)
      BY ONLY <1>1, <2>2, <2>3, <2>7, max \in Nat
    <3> QED
      BY ONLY <2>2, <2>3, <3>1, CutWhole
  <2>8. Understood(b) \in {Malformed, Asked}
    BY ONLY <2>2, <2>4, <2>5
  <2>9. ASSUME Len(c) + Len(Body(mine)) <= max, mine.code \in GoodCode, Countable
        PROVE  b = Body(mine) /\ Understood(b) = Asked
    <3>1. r = Len(p) /\ b = p
      BY ONLY <2>1, <2>7, <2>9
    <3>2. Heeds(p, r) = Asked
      BY ONLY <2>2, <2>4, <2>9, <3>1
    <3> QED
      BY ONLY <2>1, <2>5, <3>1, <3>2
  <2> QED
    BY ONLY <2>6, <2>8, <2>9
<1> QED
  BY ONLY <1>2, <1>3
-----------------------------------------------------------------------------
(* Frames.                                                                 *)

\* Whatever its bits are, a checksum is a word: sixteen turns from 0.
LEMMA WordOfType ==
  ASSUME NEW bits
  PROVE  WordOf(bits) \in Word
<1> DEFINE n == 16
           places == [k \in 1..16 |-> 16 - k]
           Turn(w, b) == 2 * w + (IF b \in bits THEN 1 ELSE 0)
           g == [p \in Nat \X (1..n) |-> Turn(p[1], places[p[2]])]
           Fits1(it) == it = [q \in SUBSET (DOMAIN places) |->
                               IF q = {} THEN 0 ELSE Turn(it[q \ {Max(q)}], places[Max(q)])]
<1>1. n \in Nat /\ DOMAIN places = 1..n
  OBVIOUS
<1>2. \A b : \A w \in Nat : Turn(w, b) \in Nat /\ Turn(w, b) <= 2 * w + 1
  OBVIOUS
<1>3. WordOf(bits) = FoldLeft(Turn, 0, places)
  BY DEF WordOf
<1> HIDE DEF places, Turn
<1>4. g \in [Nat \X (1..n) -> Nat]
  BY <1>2
<1>5. \A a \in Nat, k \in 1..n : g[<<a, k>>] = Turn(a, places[k])
  OBVIOUS
<1> HIDE DEF g, n
<1>6. \A q \in SUBSET (1..n) : q # {} => Max(q) \in 1..n /\ q \ {Max(q)} \in SUBSET (1..n)
  BY ONLY <1>1, LargestPlace
<1>7. \A it \in [SUBSET (1..n) -> Nat] : Folds(it, n, 0, g) <=> Fits1(it)
  <2> TAKE it \in [SUBSET (1..n) -> Nat]
  <2>1. \A q \in SUBSET (1..n) : q # {} =>
          g[<<it[q \ {Max(q)}], Max(q)>>] = Turn(it[q \ {Max(q)}], places[Max(q)])
    BY <1>5, <1>6
  <2> QED
    BY <1>1, <2>1 DEF Folds
<1>8. PICK jt \in [SUBSET (1..n) -> Nat] : Fits1(jt)
  BY ONLY <1>1, <1>4, <1>7, 0 \in Nat, FoldExists
<1> DEFINE it == CHOOSE x : Fits1(x)
<1>9. Fits1(it)
  <2> HIDE DEF Fits1
  <2> QED
    BY <1>8
<1>10. FoldLeft(Turn, 0, places) = it[1..n]
  <2>1. FoldLeft(Turn, 0, places) = it[DOMAIN places]
    BY DEF FoldLeft, MapThenFoldSet
  <2> HIDE DEF it
  <2> QED
    BY <1>1, <2>1
<1> HIDE DEF it
<1>11. it[{}] = 0
  BY <1>9
<1>12. Takes(it, n, Nat, g)
  BY <1>1, <1>5, <1>6, <1>9 DEF Takes
<1> HIDE DEF Fits1
<1>13. PICK f : Values(f, it, n, Nat, g)
  BY ONLY <1>1, <1>4, <1>11, <1>12, 0 \in Nat, FoldTaken
<1>14. /\ f \in [0..n -> Nat] /\ f[0] = 0 /\ f[n] = it[1..n]
       /\ \A k \in 1..n : f[k] = g[<<f[k - 1], k>>]
  BY ONLY <1>11, <1>13 DEF Values
<1>15. n = 16
  BY DEF n
<1>16. \A k \in 1..16 : f[k - 1] \in Nat /\ f[k] \in Nat /\ f[k] <= 2 * f[k - 1] + 1
  <2> TAKE k \in 1..16
  <2>1. k \in 1..n /\ k - 1 \in 0..n /\ k \in 0..n
    BY ONLY <1>15, k \in 1..16
  <2>2. f[k - 1] \in Nat /\ f[k] \in Nat /\ f[k] = Turn(f[k - 1], places[k])
    BY ONLY <1>5, <1>14, <2>1
  <2> QED
    BY <1>2, <2>2
<1>17. f[4] < 16 /\ f[4] \in Nat
  <2>1. f[1] <= 2 * f[0] + 1 /\ f[2] <= 2 * f[1] + 1 /\ f[3] <= 2 * f[2] + 1 /\ f[4] <= 2 * f[3] + 1
    BY ONLY <1>16
  <2>2. f[1] \in Nat /\ f[2] \in Nat /\ f[3] \in Nat /\ f[4] \in Nat
    BY ONLY <1>16
  <2> QED
    BY ONLY <1>14, <2>1, <2>2
<1>18. f[8] < 256 /\ f[8] \in Nat
  <2>1. f[5] <= 2 * f[4] + 1 /\ f[6] <= 2 * f[5] + 1 /\ f[7] <= 2 * f[6] + 1 /\ f[8] <= 2 * f[7] + 1
    BY ONLY <1>16
  <2>2. f[5] \in Nat /\ f[6] \in Nat /\ f[7] \in Nat /\ f[8] \in Nat
    BY ONLY <1>16
  <2> QED
    BY ONLY <1>17, <2>1, <2>2
<1>19. f[12] < 4096 /\ f[12] \in Nat
  <2>1. f[9] <= 2 * f[8] + 1 /\ f[10] <= 2 * f[9] + 1 /\ f[11] <= 2 * f[10] + 1 /\ f[12] <= 2 * f[11] + 1
    BY ONLY <1>16
  <2>2. f[9] \in Nat /\ f[10] \in Nat /\ f[11] \in Nat /\ f[12] \in Nat
    BY ONLY <1>16
  <2> QED
    BY ONLY <1>18, <2>1, <2>2
<1>20. f[16] < 65536 /\ f[16] \in Nat
  <2>1. f[13] <= 2 * f[12] + 1 /\ f[14] <= 2 * f[13] + 1 /\ f[15] <= 2 * f[14] + 1 /\ f[16] <= 2 * f[15] + 1
    BY ONLY <1>16
  <2>2. f[13] \in Nat /\ f[14] \in Nat /\ f[15] \in Nat /\ f[16] \in Nat
    BY ONLY <1>16
  <2> QED
    BY ONLY <1>19, <2>1, <2>2
<1>21. WordOf(bits) = f[16]
  BY ONLY <1>3, <1>10, <1>14, <1>15
<1> QED
  BY ONLY <1>20, <1>21, WordIs

\* All that is used of a checksum is that it is a word.
LEMMA CrcType == \A f : Crc(f) \in Word
BY WordOfType DEF Crc
-----------------------------------------------------------------------------
(* What mb_data_decap makes of received data.                              *)

Rec(x, o) == [x |-> x, off |-> o]
Cursors == [x : MBInfo, off : Nat]

\* Cursors: a record and how far the frame has been read.
LEMMA RecIs ==
  /\ \A x \in MBInfo, o \in Nat : Rec(x, o) \in Cursors /\ Rec(x, o).x = x /\ Rec(x, o).off = o
  /\ \A d \in Cursors : d.x \in MBInfo /\ d.off \in Nat /\ d = Rec(d.x, d.off)
BY DEF Rec, Cursors

LEMMA FitsIs ==
  ASSUME NEW f, NEW x, NEW o, NEW n
  PROVE  Fits(f, Rec(x, o), n) <=> o + n <= Len(f)
BY DEF Fits, Rec

LEMMA AtType ==
  ASSUME NEW f \in Seq(Byte), NEW k \in Nat
  PROVE  At(f, k) \in Byte
<1>1. CASE k < Len(f)
  <2>1. k + 1 \in 1..Len(f)
    BY <1>1
  <2> QED
    BY <1>1, <2>1 DEF At
<1>2. CASE ~(k < Len(f))
  BY <1>2, ByteIs DEF At
<1> QED
  BY <1>1, <1>2

LEMMA WordAtType ==
  ASSUME HostOK, NEW f \in Seq(Byte), NEW k \in Nat
  PROVE  WordAt(f, k) \in Word
BY AtType, LoadedType DEF WordAt

\* The record with one field written.
PutCode(x, c) == [x EXCEPT !.code = c]
PutErr(x, c) == [x EXCEPT !.err = c]
PutBytes(x, c) == [x EXCEPT !.n_byte = c]
PutReg(x, w) == [x EXCEPT !.reg = w]
PutCount(x, w) == [x EXCEPT !.n_reg = w]

LEMMA PutType ==
  ASSUME NEW x \in MBInfo
  PROVE  /\ \A c \in Byte : PutCode(x, c) \in MBInfo /\ PutErr(x, c) \in MBInfo
         /\ \A c \in 0..(CountMod - 1) : PutBytes(x, c) \in MBInfo
         /\ \A w \in Word : PutReg(x, w) \in MBInfo /\ PutCount(x, w) \in MBInfo
BY DEF PutCode, PutErr, PutBytes, PutReg, PutCount, MBInfo

LEMMA PutCodeIs ==
  ASSUME NEW x \in MBInfo, NEW c
  PROVE  /\ PutCode(x, c).code = c /\ PutCode(x, c).value = x.value /\ PutCode(x, c).reg = x.reg
         /\ PutCode(x, c).n_reg = x.n_reg
BY DEF PutCode, MBInfo

LEMMA PutErrIs ==
  ASSUME NEW x \in MBInfo, NEW c
  PROVE  /\ PutErr(x, c).code = x.code /\ PutErr(x, c).err = c /\ PutErr(x, c).value = x.value
BY DEF PutErr, MBInfo

LEMMA PutBytesIs ==
  ASSUME NEW x \in MBInfo, NEW c
  PROVE  /\ PutBytes(x, c).code = x.code /\ PutBytes(x, c).n_byte = c /\ PutBytes(x, c).value = x.value
         /\ \A d : PutBytes(PutBytes(x, c), d) = PutBytes(x, d)
BY DEF PutBytes, MBInfo

LEMMA PutRegIs ==
  ASSUME NEW x \in MBInfo, NEW w
  PROVE  /\ PutReg(x, w).code = x.code /\ PutReg(x, w).reg = w /\ PutReg(x, w).n_reg = x.n_reg
         /\ PutReg(x, w).value = x.value /\ \A v : PutReg(PutReg(x, w), v) = PutReg(x, v)
BY DEF PutReg, MBInfo

LEMMA PutCountIs ==
  ASSUME NEW x \in MBInfo, NEW w
  PROVE  /\ PutCount(x, w).code = x.code /\ PutCount(x, w).reg = x.reg /\ PutCount(x, w).n_reg = w
         /\ PutCount(x, w).value = x.value /\ \A v : PutCount(PutCount(x, w), v) = PutCount(x, v)
BY DEF PutCount, MBInfo

\* Reading a byte into a field, or leaving both alone at the end of the data.
LEMMA GetByteIs ==
  ASSUME NEW f, NEW x \in MBInfo, NEW o \in Nat
  PROVE  /\ o + 1 <= Len(f) =>
              /\ GetByte(f, Rec(x, o), "code") = Rec(PutCode(x, At(f, o)), o + 1)
              /\ GetByte(f, Rec(x, o), "err") = Rec(PutErr(x, At(f, o)), o + 1)
              /\ GetByte(f, Rec(x, o), "n_byte") = Rec(PutBytes(x, At(f, o)), o + 1)
         /\ ~(o + 1 <= Len(f)) => \A field : GetByte(f, Rec(x, o), field) = Rec(x, o)
<1>1. ASSUME o + 1 <= Len(f)
      PROVE  /\ GetByte(f, Rec(x, o), "code") = Rec(PutCode(x, At(f, o)), o + 1)
             /\ GetByte(f, Rec(x, o), "err") = Rec(PutErr(x, At(f, o)), o + 1)
             /\ GetByte(f, Rec(x, o), "n_byte") = Rec(PutBytes(x, At(f, o)), o + 1)
  <2>1. Fits(f, Rec(x, o), 1)
    BY ONLY <1>1, FitsIs
  <2>2. GetByte(f, Rec(x, o), "code") = Rec(PutCode(x, At(f, o)), o + 1)
    BY <2>1 DEF GetByte, Rec, PutCode
  <2>3. GetByte(f, Rec(x, o), "err") = Rec(PutErr(x, At(f, o)), o + 1)
    BY <2>1 DEF GetByte, Rec, PutErr
  <2>4. GetByte(f, Rec(x, o), "n_byte") = Rec(PutBytes(x, At(f, o)), o + 1)
    BY <2>1 DEF GetByte, Rec, PutBytes
  <2> QED
    BY <2>2, <2>3, <2>4
<1>2. ASSUME ~(o + 1 <= Len(f)), NEW field
      PROVE  GetByte(f, Rec(x, o), field) = Rec(x, o)
  <2>1. ~Fits(f, Rec(x, o), 1)
    BY ONLY <1>2, FitsIs
  <2> QED
    BY ONLY <2>1 DEF GetByte
<1> QED
  BY <1>1, <1>2

\* Converting a field that was read.
LEMMA FieldConverted ==
  ASSUME NEW y, NEW p, NEW c
  PROVE  /\ Rec(y, p).x = y
         /\ [Rec(y, p) EXCEPT !.x.n_byte = c] = Rec(PutBytes(y, c), p)
         /\ [Rec(y, p) EXCEPT !.x.reg = c] = Rec(PutReg(y, c), p)
         /\ [Rec(y, p) EXCEPT !.x.n_reg = c] = Rec(PutCount(y, c), p)
BY DEF Rec, PutBytes, PutReg, PutCount

LEMMA CountRead ==
  ASSUME NEW f, NEW d, NEW y, NEW p, GetByte(f, d, "n_byte") = Rec(y, p)
  PROVE  GetCount(f, d) = Rec(PutBytes(y, y.n_byte % CountMod), p)
<1>1. PICK c : c = y.n_byte % CountMod
  OBVIOUS
<1>2. GetCount(f, d) = [Rec(y, p) EXCEPT !.x.n_byte = Rec(y, p).x.n_byte % CountMod]
  BY DEF GetCount
<1>3. Rec(y, p).x.n_byte % CountMod = c
  BY ONLY <1>1, FieldConverted
<1>4. GetCount(f, d) = [Rec(y, p) EXCEPT !.x.n_byte = c]
  BY ONLY <1>2, <1>3
<1>5. GetCount(f, d) = Rec(PutBytes(y, c), p)
  BY ONLY <1>4 DEF Rec, PutBytes
<1> QED
  BY ONLY <1>1, <1>5

\* Reading a word: at the end of the data the field is converted all the
\* same.
LEMMA WordRead ==
  ASSUME NEW f, NEW x \in MBInfo, NEW o
  PROVE  /\ Fits(f, Rec(x, o), 2) =>
              /\ GetNetWord(f, Rec(x, o), "reg") = Rec(PutReg(x, NetWord(WordAt(f, o))), o + 2)
              /\ GetNetWord(f, Rec(x, o), "n_reg") = Rec(PutCount(x, NetWord(WordAt(f, o))), o + 2)
         /\ ~Fits(f, Rec(x, o), 2) =>
              /\ GetNetWord(f, Rec(x, o), "reg") = Rec(PutReg(x, NetWord(x.reg)), o)
              /\ GetNetWord(f, Rec(x, o), "n_reg") = Rec(PutCount(x, NetWord(x.n_reg)), o)
<1>1. PICK b : b = WordAt(f, o)
  OBVIOUS
<1>2. ASSUME Fits(f, Rec(x, o), 2)
      PROVE  /\ GetNetWord(f, Rec(x, o), "reg") = Rec(PutReg(x, NetWord(b)), o + 2)
             /\ GetNetWord(f, Rec(x, o), "n_reg") = Rec(PutCount(x, NetWord(b)), o + 2)
  <2>1. GetNetWord(f, Rec(x, o), "reg")
          = [Rec(PutReg(x, b), o + 2) EXCEPT !.x["reg"] = NetWord(Rec(PutReg(x, b), o + 2).x["reg"])]
    <3>1. WordAt(f, Rec(x, o).off) = b /\ Rec(x, o).off + 2 = o + 2
      BY <1>1 DEF Rec
    <3>2. PICK p : p = o + 2
      OBVIOUS
    <3>3. [Rec(x, o) EXCEPT !.x["reg"] = b, !.off = p] = [[Rec(x, o) EXCEPT !.x["reg"] = b] EXCEPT !.off = p]
      OBVIOUS
    <3>4. [Rec(x, o) EXCEPT !.x["reg"] = b] = Rec(PutReg(x, b), o)
      BY DEF Rec, PutReg
    <3>5. [Rec(PutReg(x, b), o) EXCEPT !.off = p] = Rec(PutReg(x, b), p)
      BY DEF Rec
    <3>6. [Rec(x, o) EXCEPT !.x["reg"] = b, !.off = p] = Rec(PutReg(x, b), p)
      BY ONLY <3>3, <3>4, <3>5
    <3> QED
      BY ONLY <1>2, <3>1, <3>2, <3>6 DEF GetNetWord
  <2>2. GetNetWord(f, Rec(x, o), "n_reg")
          = [Rec(PutCount(x, b), o + 2) EXCEPT !.x["n_reg"] = NetWord(Rec(PutCount(x, b), o + 2).x["n_reg"])]
    <3>1. WordAt(f, Rec(x, o).off) = b /\ Rec(x, o).off + 2 = o + 2
      BY <1>1 DEF Rec
    <3>2. PICK p : p = o + 2
      OBVIOUS
    <3>3. [Rec(x, o) EXCEPT !.x["n_reg"] = b, !.off = p] = [[Rec(x, o) EXCEPT !.x["n_reg"] = b] EXCEPT !.off = p]
      OBVIOUS
    <3>4. [Rec(x, o) EXCEPT !.x["n_reg"] = b] = Rec(PutCount(x, b), o)
      BY DEF Rec, PutCount
    <3>5. [Rec(PutCount(x, b), o) EXCEPT !.off = p] = Rec(PutCount(x, b), p)
      BY DEF Rec
    <3>6. [Rec(x, o) EXCEPT !.x["n_reg"] = b, !.off = p] = Rec(PutCount(x, b), p)
      BY ONLY <3>3, <3>4, <3>5
    <3> QED
      BY ONLY <1>2, <3>1, <3>2, <3>6 DEF GetNetWord
  <2>3. \A y, p, c : /\ Rec(y, p).x = y
                     /\ [Rec(y, p) EXCEPT !.x["reg"] = c] = Rec(PutReg(y, c), p)
                     /\ [Rec(y, p) EXCEPT !.x["n_reg"] = c] = Rec(PutCount(y, c), p)
    BY DEF Rec, PutReg, PutCount
  <2>4. PICK c : c = NetWord(b)
    OBVIOUS
  <2>5. PutReg(x, b)["reg"] = b /\ PutCount(x, b)["n_reg"] = b
    BY PutRegIs, PutCountIs
  <2>6. GetNetWord(f, Rec(x, o), "reg") = Rec(PutReg(PutReg(x, b), c), o + 2)
    <3>1. GetNetWord(f, Rec(x, o), "reg") = [Rec(PutReg(x, b), o + 2) EXCEPT !.x["reg"] = c]
      BY ONLY <2>1, <2>3, <2>4, <2>5
    <3> QED
      BY ONLY <3>1 DEF Rec, PutReg
  <2>7. GetNetWord(f, Rec(x, o), "n_reg") = Rec(PutCount(PutCount(x, b), c), o + 2)
    <3>1. GetNetWord(f, Rec(x, o), "n_reg") = [Rec(PutCount(x, b), o + 2) EXCEPT !.x["n_reg"] = c]
      BY ONLY <2>2, <2>3, <2>4, <2>5
    <3> QED
      BY ONLY <3>1 DEF Rec, PutCount
  <2> QED
    BY ONLY <2>4, <2>6, <2>7, x \in MBInfo, PutRegIs, PutCountIs
<1>3. ASSUME ~Fits(f, Rec(x, o), 2)
      PROVE  /\ GetNetWord(f, Rec(x, o), "reg") = Rec(PutReg(x, NetWord(x.reg)), o)
             /\ GetNetWord(f, Rec(x, o), "n_reg") = Rec(PutCount(x, NetWord(x.n_reg)), o)
  BY <1>3 DEF GetNetWord, Rec, PutReg, PutCount
<1> QED
  BY <1>1, <1>2, <1>3

\* The count that is read, or what the record had there.
LEMMA GetCountIs ==
  ASSUME NEW f \in Seq(Byte), NEW x \in MBInfo, NEW o \in Nat
  PROVE  \E c \in 0..(CountMod - 1), p \in {o, o + 1} :
           /\ GetCount(f, Rec(x, o)) = Rec(PutBytes(x, c), p)
           /\ o + 1 <= Len(f) => c = At(f, o) % CountMod /\ p = o + 1
           /\ ~(o + 1 <= Len(f)) => p = o
<1>1. CountMod \in Nat \ {0} /\ x.n_byte \in Nat
  <2>1. CountMod \in 1..256
    BY MbCodecAssumption
  <2>2. x.n_byte \in 0..(CountMod - 1)
    BY InfoType
  <2> QED
    BY ONLY <2>1, <2>2
<1>2. At(f, o) \in Nat
  BY AtType, ByteIs
<1>3. CASE o + 1 <= Len(f)
  <2>1. GetByte(f, Rec(x, o), "n_byte") = Rec(PutBytes(x, At(f, o)), o + 1)
    BY ONLY <1>3, x \in MBInfo, o \in Nat, GetByteIs
  <2>2. PICK y, c : y = PutBytes(x, At(f, o)) /\ c = At(f, o) % CountMod
    OBVIOUS
  <2>3. GetCount(f, Rec(x, o)) = Rec(PutBytes(y, y.n_byte % CountMod), o + 1)
    BY ONLY <2>1, <2>2, CountRead
  <2>4. y.n_byte = At(f, o) /\ PutBytes(y, c) = PutBytes(x, c)
    BY ONLY <2>2, x \in MBInfo, PutBytesIs
  <2>5. c \in 0..(CountMod - 1)
    BY ONLY <1>1, <1>2, <2>2, ModBound
  <2> QED
    BY ONLY <1>3, <2>2, <2>3, <2>4, <2>5
<1>4. CASE ~(o + 1 <= Len(f))
  <2>1. GetByte(f, Rec(x, o), "n_byte") = Rec(x, o)
    BY ONLY <1>4, x \in MBInfo, o \in Nat, GetByteIs
  <2>2. PICK c : c = x.n_byte % CountMod
    OBVIOUS
  <2>3. GetCount(f, Rec(x, o)) = Rec(PutBytes(x, c), o)
    BY ONLY <2>1, <2>2, CountRead
  <2>4. c \in 0..(CountMod - 1)
    BY ONLY <1>1, <2>2, ModBound
  <2> QED
    BY ONLY <1>4, <2>3, <2>4
<1> QED
  BY ONLY <1>3, <1>4

\* A word is read into its field and stays a word.
LEMMA GetNetWordIs ==
  ASSUME HostOK, NEW f \in Seq(Byte), NEW x \in MBInfo, NEW o \in Nat
  PROVE  /\ \E w \in Word, p \in {o, o + 2} :
              /\ GetNetWord(f, Rec(x, o), "reg") = Rec(PutReg(x, w), p)
              /\ o + 2 <= Len(f) => w = NetWord(WordAt(f, o)) /\ p = o + 2
         /\ \E w \in Word, p \in {o, o + 2} :
              /\ GetNetWord(f, Rec(x, o), "n_reg") = Rec(PutCount(x, w), p)
              /\ o + 2 <= Len(f) => w = NetWord(WordAt(f, o)) /\ p = o + 2
<1>1. \A w \in Word : NetWord(w) \in Word
  BY SwapType DEF NetWord
<1>2. WordAt(f, o) \in Word /\ x.reg \in Word /\ x.n_reg \in Word
  BY WordAtType, InfoType
<1>3. Fits(f, Rec(x, o), 2) <=> o + 2 <= Len(f)
  BY ONLY FitsIs
<1> QED
  BY ONLY <1>1, <1>2, <1>3, x \in MBInfo, WordRead

PutValue(x, v) == [x EXCEPT !.value = v]

LEMMA PutValueIs ==
  ASSUME NEW x \in MBInfo, NEW v
  PROVE  /\ PutValue(x, v).code = x.code /\ PutValue(x, v).reg = x.reg /\ PutValue(x, v).n_reg = x.n_reg
         /\ PutValue(x, v).n_byte = x.n_byte /\ PutValue(x, v).value = v
         /\ \A u : PutValue(PutValue(x, v), u) = PutValue(x, u)
         /\ v \in [ValIndex -> Byte] => PutValue(x, v) \in MBInfo
         /\ PutValue(x, x.value) = x
BY DEF PutValue, MBInfo

\* m bytes from o on, in the first places of value.
FirstOf(x, f, o, m) == [k \in ValIndex |-> IF k < m THEN At(f, o + k) ELSE x.value[k]]
Taken(x, f, o, m) == PutValue(x, FirstOf(x, f, o, m))

LEMMA TakenType ==
  ASSUME NEW f \in Seq(Byte), NEW x \in MBInfo, NEW o \in Nat, NEW m \in Nat
  PROVE  FirstOf(x, f, o, m) \in [ValIndex -> Byte] /\ Taken(x, f, o, m) \in MBInfo
<1>1. \A k \in ValIndex : o + k \in Nat
  BY MbCodecAssumption DEF ValIndex
<1>2. \A k \in ValIndex : (IF k < m THEN At(f, o + k) ELSE x.value[k]) \in Byte
  BY <1>1, AtType, InfoType
<1>3. FirstOf(x, f, o, m) \in [ValIndex -> Byte]
  BY ONLY <1>2 DEF FirstOf
<1> QED
  BY ONLY <1>3, x \in MBInfo, PutValueIs DEF Taken

\* With nothing taken the value is the caller's.
LEMMA TakenNothing ==
  ASSUME NEW f, NEW x \in MBInfo, NEW o
  PROVE  Taken(x, f, o, 0) = x
<1>1. \A k \in ValIndex : ~(k < 0)
  BY DEF ValIndex
<1>2. x.value = [k \in ValIndex |-> x.value[k]]
  BY InfoType
<1>3. FirstOf(x, f, o, 0) = x.value
  BY ONLY <1>1, <1>2 DEF FirstOf
<1> QED
  BY ONLY <1>3, x \in MBInfo, PutValueIs DEF Taken

\* What one step puts into value.
NextOf(v, f, o, i, n) == [k \in ValIndex |-> IF k \in i..(i + n - 1) THEN At(f, o + k - i) ELSE v[k]]

\* One turn of the value's loop takes n bytes more.
LEMMA GetValueIs ==
  ASSUME NEW f, NEW x, NEW o, NEW i, NEW n
  PROVE  /\ o + n <= Len(f) =>
              GetValue(f, Rec(x, o), i, n) = Rec(PutValue(x, NextOf(x.value, f, o, i, n)), o + n)
         /\ ~(o + n <= Len(f)) => GetValue(f, Rec(x, o), i, n) = Rec(x, o)
<1>1. Fits(f, Rec(x, o), n) <=> o + n <= Len(f)
  BY ONLY FitsIs
<1>2. ~Fits(f, Rec(x, o), n) => GetValue(f, Rec(x, o), i, n) = Rec(x, o)
  BY ONLY DEF GetValue
<1>3. ASSUME Fits(f, Rec(x, o), n)
      PROVE  GetValue(f, Rec(x, o), i, n) = Rec(PutValue(x, NextOf(x.value, f, o, i, n)), o + n)
  <2>1. PICK v, p : v = NextOf(x.value, f, o, i, n) /\ p = o + n
    OBVIOUS
  <2>2. Rec(x, o).off = o /\ Rec(x, o).x = x
    BY DEF Rec
  <2>3. GetValue(f, Rec(x, o), i, n) = [Rec(x, o) EXCEPT !.x.value = v, !.off = p]
    BY ONLY <1>3, <2>1, <2>2 DEF GetValue, NextOf
  <2>4. [Rec(x, o) EXCEPT !.x.value = v, !.off = p] = [[Rec(x, o) EXCEPT !.x.value = v] EXCEPT !.off = p]
    OBVIOUS
  <2>5. [Rec(x, o) EXCEPT !.x.value = v] = Rec(PutValue(x, v), o)
    BY DEF Rec, PutValue
  <2>6. [Rec(PutValue(x, v), o) EXCEPT !.off = p] = Rec(PutValue(x, v), p)
    BY DEF Rec
  <2> QED
    BY ONLY <2>1, <2>3, <2>4, <2>5, <2>6
<1> QED
  BY ONLY <1>1, <1>2, <1>3

LEMMA GetValueType ==
  ASSUME NEW f \in Seq(Byte), NEW d \in Cursors, NEW i \in Nat, NEW n \in Nat
  PROVE  GetValue(f, d, i, n) \in Cursors
<1>1. PICK x, o : x = d.x /\ o = d.off
  OBVIOUS
<1>2. x \in MBInfo /\ o \in Nat /\ d = Rec(x, o)
  BY ONLY <1>1, d \in Cursors, RecIs
<1>3. NextOf(x.value, f, o, i, n) \in [ValIndex -> Byte]
  <2>1. \A k \in ValIndex : k \in i..(i + n - 1) => o + k - i \in Nat
    BY <1>2, MbCodecAssumption DEF ValIndex
  <2>2. \A k \in ValIndex : (IF k \in i..(i + n - 1) THEN At(f, o + k - i) ELSE x.value[k]) \in Byte
    BY <1>2, <2>1, AtType, InfoType
  <2> QED
    BY ONLY <2>2 DEF NextOf
<1>4. PutValue(x, NextOf(x.value, f, o, i, n)) \in MBInfo /\ o + n \in Nat
  BY <1>2, <1>3, PutValueIs
<1> QED
  BY ONLY <1>2, <1>4, GetValueIs, RecIs

\* Bytes taken up to a place, and those from there on, are all of them.
LEMMA TakenFurther ==
  ASSUME NEW f \in Seq(Byte), NEW x \in MBInfo, NEW o \in Nat, NEW m \in Nat, NEW n \in Nat
  PROVE  GetValue(f, Rec(Taken(x, f, o, m), o + m), m, n) =
           IF o + (m + n) <= Len(f) THEN Rec(Taken(x, f, o, m + n), o + (m + n))
           ELSE Rec(Taken(x, f, o, m), o + m)
<1>1. PICK v, u : v = FirstOf(x, f, o, m) /\ u = FirstOf(x, f, o, m + n)
  OBVIOUS
<1>2. NextOf(v, f, o + m, m, n) = u
  <2>1. ASSUME NEW k \in ValIndex
        PROVE  (IF k \in m..(m + n - 1) THEN At(f, (o + m) + k - m) ELSE v[k])
                 = (IF k < m + n THEN At(f, o + k) ELSE x.value[k])
    <3>1. k \in Nat
      BY MbCodecAssumption DEF ValIndex
    <3>2. v[k] = IF k < m THEN At(f, o + k) ELSE x.value[k]
      BY <1>1 DEF FirstOf
    <3>3. /\ (o + m) + k - m = o + k
          /\ k \in m..(m + n - 1) <=> m <= k /\ k < m + n
          /\ k < m => k < m + n
      BY ONLY <3>1, o \in Nat, m \in Nat, n \in Nat
    <3>4. k < m \/ m <= k
      BY ONLY <3>1, m \in Nat
    <3>5. ~(k < m /\ m <= k)
      BY ONLY <3>1, m \in Nat
    <3> QED
      BY ONLY <3>2, <3>3, <3>4, <3>5
  <2> QED
    BY ONLY <1>1, <2>1 DEF NextOf, FirstOf
<1>3. PutValue(x, v).value = v /\ PutValue(PutValue(x, v), u) = PutValue(x, u)
  BY PutValueIs
<1>4. (o + m) + n = o + (m + n)
  OBVIOUS
<1> QED
  BY ONLY <1>1, <1>2, <1>3, <1>4, GetValueIs DEF Taken

\* n bytes at a time as long as they fit: m bytes are taken, all that were
\* asked for if they are there.
TakenUpTo(f, x, o, count, n) ==
  \E m \in Nat :
    /\ GetValues(f, Rec(x, o), count, n) = Rec(Taken(x, f, o, m), o + m)
    /\ m = 0 \/ o + m <= Len(f)
    /\ (n = 1 \/ count % 2 = 0) /\ o + count <= Len(f) => m = count

\* The loop takes as many bytes as the frame has, n at a time, and no more
\* than were counted.
LEMMA GetValuesIs ==
  ASSUME NEW f \in Seq(Byte), NEW x \in MBInfo, NEW o \in Nat, NEW count \in Nat, NEW n \in {1, 2}
  PROVE  TakenUpTo(f, x, o, count, n)
<1> DEFINE last == (count + n - 1) \div n
           seq == [k \in 1..last |-> k]
           g == [p \in Cursors \X (1..last) |-> GetValue(f, p[1], (p[2] - 1) * n, n)]
           Fits1(it) == it = [q \in SUBSET (DOMAIN seq) |->
                               IF q = {} THEN Rec(x, o)
                               ELSE GetValue(f, it[q \ {Max(q)}], (seq[Max(q)] - 1) * n, n)]
<1>1. /\ last \in Nat
      /\ n = 1 => last = count
      /\ n = 2 /\ count % 2 = 0 => last * 2 = count
  <2>1. CASE n = 1
    BY ONLY <2>1, count \in Nat
  <2>2. CASE n = 2
    <3>1. PICK h : h = last
      OBVIOUS
    <3>2. h = (count + 1) \div 2
      BY ONLY <2>2, <3>1, count \in Nat
    <3>3. h \in Nat /\ (count % 2 = 0 => h * 2 = count)
      BY ONLY <3>2, count \in Nat
    <3> QED
      BY ONLY <2>2, <3>1, <3>3
  <2> QED
    BY ONLY <2>1, <2>2, n \in {1, 2}
<1> HIDE DEF last
<1>2. DOMAIN seq = 1..last /\ \A k \in 1..last : seq[k] = k
  OBVIOUS
<1>3. \A k \in 1..last : (k - 1) * n \in Nat
  <2> TAKE k \in 1..last
  <2>1. k - 1 \in Nat
    BY <1>1
  <2> QED
    BY ONLY <2>1, n \in {1, 2}
<1>4. g \in [Cursors \X (1..last) -> Cursors]
  <2>1. n \in Nat
    OBVIOUS
  <2> QED
    BY ONLY <1>3, <2>1, f \in Seq(Byte), GetValueType
<1>5. \A a \in Cursors, k \in 1..last : g[<<a, k>>] = GetValue(f, a, (k - 1) * n, n)
  OBVIOUS
<1>6. \A q \in SUBSET (1..last) : q # {} => Max(q) \in 1..last /\ q \ {Max(q)} \in SUBSET (1..last)
  BY <1>1, LargestPlace
<1>7. GetValues(f, Rec(x, o), count, n) = FoldLeft(LAMBDA e, k : GetValue(f, e, (k - 1) * n, n), Rec(x, o), seq)
  BY DEF GetValues, last
<1> HIDE DEF g, seq
<1>8. \A it \in [SUBSET (1..last) -> Cursors] : Folds(it, last, Rec(x, o), g) <=> Fits1(it)
  <2> TAKE it \in [SUBSET (1..last) -> Cursors]
  <2>1. \A q \in SUBSET (1..last) : q # {} =>
          g[<<it[q \ {Max(q)}], Max(q)>>] = GetValue(f, it[q \ {Max(q)}], (seq[Max(q)] - 1) * n, n)
    BY <1>2, <1>5, <1>6
  <2> QED
    BY <1>2, <2>1 DEF Folds
<1>9. Rec(x, o) \in Cursors
  BY RecIs
<1>10. PICK jt \in [SUBSET (1..last) -> Cursors] : Fits1(jt)
  BY <1>1, <1>4, <1>8, <1>9, FoldExists
<1> DEFINE it == CHOOSE y : Fits1(y)
<1>11. Fits1(it)
  <2> HIDE DEF Fits1
  <2> QED
    BY <1>10
<1>12. GetValues(f, Rec(x, o), count, n) = it[1..last]
  <2>1. FoldLeft(LAMBDA e, k : GetValue(f, e, (k - 1) * n, n), Rec(x, o), seq) = it[DOMAIN seq]
    BY DEF FoldLeft, MapThenFoldSet
  <2> HIDE DEF it
  <2> QED
    BY <1>2, <1>7, <2>1
<1> HIDE DEF it
<1>13. it[{}] = Rec(x, o)
  BY <1>11
<1>14. Takes(it, last, Cursors, g)
  <2>1. ASSUME NEW q \in SUBSET (1..last), q # {}, it[q \ {Max(q)}] \in Cursors
        PROVE  it[q] = g[<<it[q \ {Max(q)}], Max(q)>>]
    <3>1. PICK k \in 1..last : k = Max(q)
      BY <1>6, <2>1
    <3>2. PICK e \in Cursors : e = it[q \ {Max(q)}]
      BY <2>1
    <3>3. it[q] = GetValue(f, it[q \ {Max(q)}], (seq[Max(q)] - 1) * n, n)
      BY <1>2, <1>11, <2>1
    <3>4. it[q] = GetValue(f, e, (k - 1) * n, n)
      BY ONLY <1>2, <3>1, <3>2, <3>3
    <3>5. g[<<e, k>>] = GetValue(f, e, (k - 1) * n, n)
      BY <1>5
    <3> QED
      BY ONLY <3>1, <3>2, <3>4, <3>5
  <2> QED
    BY ONLY <2>1 DEF Takes
<1>15. PICK h \in [0..last -> Cursors] : /\ h[0] = Rec(x, o) /\ h[last] = it[1..last]
                                         /\ \A k \in 1..last : h[k] = g[<<h[k - 1], k>>]
  <2>1. PICK h : Values(h, it, last, Cursors, g)
    BY ONLY <1>1, <1>4, <1>9, <1>13, <1>14, FoldTaken
  <2> QED
    BY <1>13, <2>1 DEF Values
<1> HIDE DEF Fits1
<1> DEFINE Reached(k, j, m) ==
             /\ j \in 0..k /\ m \in Nat /\ m = j * n /\ h[k] = Rec(Taken(x, f, o, m), o + m)
             /\ m = 0 \/ o + m <= Len(f)
             /\ j = k \/ ~(o + (m + n) <= Len(f))
           good == {k \in 0..last : \E j, m : Reached(k, j, m)}
<1>20. \A m \in Nat : GetValue(f, Rec(Taken(x, f, o, m), o + m), m, n) =
           IF o + (m + n) <= Len(f) THEN Rec(Taken(x, f, o, m + n), o + (m + n))
           ELSE Rec(Taken(x, f, o, m), o + m)
  <2>1. n \in Nat
    OBVIOUS
  <2> QED
    BY ONLY <2>1, f \in Seq(Byte), x \in MBInfo, o \in Nat, TakenFurther
<1>16. 0 \in good
  <2>1. Reached(0, 0, 0)
    BY <1>15, TakenNothing
  <2> QED
    BY <1>1, <2>1
<1>17. ASSUME NEW k \in 1..last, k - 1 \in good
       PROVE  k \in good
  <2>1. PICK j, m : Reached(k - 1, j, m)
    BY <1>17
  <2>2. k \in Int /\ 1 <= k /\ k <= last /\ k - 1 \in 0..last /\ k \in 0..last
    BY <1>1
  <2>3. h[k - 1] = Rec(Taken(x, f, o, m), o + m) /\ m \in Nat /\ h[k - 1] \in Cursors
    BY <1>15, <2>1, <2>2
  <2>4. h[k] = GetValue(f, h[k - 1], (k - 1) * n, n)
    BY <1>5, <1>15, <2>3
  <2>5. CASE j = k - 1 /\ o + (m + n) <= Len(f)
    <3>1. m = (k - 1) * n
      BY <2>1, <2>5
    <3>2. h[k] = Rec(Taken(x, f, o, m + n), o + (m + n))
      BY ONLY <1>20, <2>3, <2>4, <2>5, <3>1
    <3>3. m + n = k * n /\ k \in 0..k /\ m + n \in Nat
      BY ONLY <2>2, <2>3, <3>1, n \in {1, 2}
    <3>4. Reached(k, k, m + n)
      BY ONLY <2>5, <3>2, <3>3
    <3> QED
      BY <2>2, <3>4
  <2>6. CASE j = k - 1 /\ ~(o + (m + n) <= Len(f))
    <3>1. m = (k - 1) * n
      BY <2>1, <2>6
    <3>2. h[k] = Rec(Taken(x, f, o, m), o + m)
      BY ONLY <1>20, <2>3, <2>4, <2>6, <3>1
    <3>3. j \in 0..k
      BY ONLY <2>2, <2>6
    <3>4. Reached(k, j, m)
      BY <2>1, <2>6, <3>2, <3>3
    <3> QED
      BY <2>2, <3>4
  <2>7. CASE j # k - 1
    <3>1. j \in 0..(k - 1) /\ m = j * n /\ ~(o + (m + n) <= Len(f)) /\ (m = 0 \/ o + m <= Len(f))
      BY <2>1, <2>7
    <3>2. h[k] = h[k - 1]
      <4>1. PICK y, p, i : y = Taken(x, f, o, m) /\ p = o + m /\ i = (k - 1) * n
        OBVIOUS
      <4>2. ~(p + n <= Len(f))
        <5>1. o + m + n = o + (m + n)
          BY ONLY <2>3, o \in Nat, n \in {1, 2}
        <5> QED
          BY ONLY <3>1, <4>1, <5>1
      <4> QED
        BY ONLY <2>3, <2>4, <4>1, <4>2, GetValueIs
    <3>3. j \in 0..k
      BY ONLY <2>2, <3>1
    <3>4. Reached(k, j, m)
      BY ONLY <2>3, <3>1, <3>2, <3>3
    <3> QED
      BY <2>2, <3>4
  <2> QED
    BY ONLY <2>5, <2>6, <2>7
<1>18. \A k \in 0..last : k \in good
  <2> HIDE DEF good
  <2> QED
    BY ONLY <1>1, <1>16, <1>17, UpTo
<1>19. PICK j, m : Reached(last, j, m)
  <2>1. last \in good
    BY <1>1, <1>18
  <2> QED
    BY ONLY <2>1
<1>21. ASSUME n = 1 \/ count % 2 = 0, o + count <= Len(f)
       PROVE  m = count
  <2>1. j \in 0..last /\ m = j * n /\ (j = last \/ ~(o + (m + n) <= Len(f)))
    BY ONLY <1>19
  <2>2. last * n = count
    BY ONLY <1>1, <1>21, n \in {1, 2}
  <2>3. CASE j = last
    BY ONLY <2>1, <2>2, <2>3
  <2>4. CASE j # last
    <3>1. PICK len : len = Len(f)
      OBVIOUS
    <3>2. len \in Nat
      BY <3>1
    <3>3. j \in Nat /\ j + 1 <= last
      BY ONLY <1>1, <2>1, <2>4
    <3>4. m + n <= count
      BY ONLY <1>1, <2>1, <2>2, <3>3, n \in {1, 2}, count \in Nat
    <3>5. m + n \in Nat
      BY ONLY <2>1, <3>3, n \in {1, 2}
    <3>6. ~(o + (m + n) <= len)
      BY ONLY <2>1, <2>4, <3>1
    <3> QED
      BY ONLY <1>21, <3>1, <3>2, <3>4, <3>5, <3>6, o \in Nat, count \in Nat
  <2> QED
    BY ONLY <2>3, <2>4
<1> QED
  BY ONLY <1>12, <1>15, <1>19, <1>21 DEF TakenUpTo

\* mb_data_decap gives a record, whatever was received.
LEMMA DecapType ==
  ASSUME HostOK, NEW f \in Seq(Byte), NEW x \in MBInfo, NEW o \in Nat
  PROVE  Decap(f, Rec(x, o)) \in Cursors
<1>1. ASSUME NEW y \in MBInfo, NEW p \in Nat
      PROVE  /\ GetByte(f, Rec(y, p), "code") \in Cursors
             /\ GetByte(f, Rec(y, p), "err") \in Cursors
             /\ GetCount(f, Rec(y, p)) \in Cursors
             /\ GetNetWord(f, Rec(y, p), "reg") \in Cursors
             /\ GetNetWord(f, Rec(y, p), "n_reg") \in Cursors
             /\ \A c \in Nat, n \in {1, 2} : GetValues(f, Rec(y, p), c, n) \in Cursors
  <2>1. At(f, p) \in Byte /\ p + 1 \in Nat /\ p + 2 \in Nat
    BY AtType
  <2>2. GetByte(f, Rec(y, p), "code") \in Cursors /\ GetByte(f, Rec(y, p), "err") \in Cursors
    <3>1. PutCode(y, At(f, p)) \in MBInfo /\ PutErr(y, At(f, p)) \in MBInfo
      BY ONLY <2>1, y \in MBInfo, PutType
    <3>2. /\ Rec(y, p) \in Cursors /\ Rec(PutCode(y, At(f, p)), p + 1) \in Cursors
          /\ Rec(PutErr(y, At(f, p)), p + 1) \in Cursors
      BY ONLY <2>1, <3>1, y \in MBInfo, p \in Nat, RecIs
    <3>3. CASE p + 1 <= Len(f)
      BY ONLY <3>2, <3>3, y \in MBInfo, p \in Nat, GetByteIs
    <3>4. CASE ~(p + 1 <= Len(f))
      BY ONLY <3>2, <3>4, y \in MBInfo, p \in Nat, GetByteIs
    <3> QED
      BY ONLY <3>3, <3>4
  <2>3. GetCount(f, Rec(y, p)) \in Cursors
    <3>1. PICK c \in 0..(CountMod - 1), q \in {p, p + 1} : GetCount(f, Rec(y, p)) = Rec(PutBytes(y, c), q)
      BY GetCountIs
    <3> QED
      BY <2>1, <3>1, PutType, RecIs
  <2>4. GetNetWord(f, Rec(y, p), "reg") \in Cursors /\ GetNetWord(f, Rec(y, p), "n_reg") \in Cursors
    <3>1. PICK w \in Word, q \in {p, p + 2} : GetNetWord(f, Rec(y, p), "reg") = Rec(PutReg(y, w), q)
      BY GetNetWordIs
    <3>2. PICK v \in Word, r \in {p, p + 2} : GetNetWord(f, Rec(y, p), "n_reg") = Rec(PutCount(y, v), r)
      BY GetNetWordIs
    <3>3. Rec(PutReg(y, w), q) \in Cursors
      BY <2>1, PutType, RecIs
    <3>4. Rec(PutCount(y, v), r) \in Cursors
      BY <2>1, PutType, RecIs
    <3> QED
      BY ONLY <3>1, <3>2, <3>3, <3>4
  <2>5. ASSUME NEW c \in Nat, NEW n \in {1, 2}
        PROVE  GetValues(f, Rec(y, p), c, n) \in Cursors
    <3> TakenUpTo(f, y, p, c, n)
      BY ONLY f \in Seq(Byte), y \in MBInfo, p \in Nat, c \in Nat, n \in {1, 2}, GetValuesIs
    <3>1. PICK m \in Nat : GetValues(f, Rec(y, p), c, n) = Rec(Taken(y, f, p, m), p + m)
      BY DEF TakenUpTo
    <3> QED
      BY <3>1, TakenType, RecIs
  <2> QED
    BY <2>2, <2>3, <2>4, <2>5
<1>2. \A d \in Cursors : /\ GetByte(f, d, "code") \in Cursors
                         /\ GetByte(f, d, "err") \in Cursors
                         /\ GetCount(f, d) \in Cursors
                         /\ GetNetWord(f, d, "reg") \in Cursors
                         /\ GetNetWord(f, d, "n_reg") \in Cursors
                         /\ \A c \in Nat, n \in {1, 2} : GetValues(f, d, c, n) \in Cursors
  <2> TAKE d \in Cursors
  <2>1. PICK y \in MBInfo, p \in Nat : d = Rec(y, p)
    BY ONLY d \in Cursors, RecIs
  <2> QED
    BY ONLY <1>1, <2>1
<1>3. \A d \in Cursors : d.x.n_byte \in Nat
  BY RecIs, InfoType, MbCodecAssumption
<1>4. PICK d \in Cursors : d = GetByte(f, Rec(x, o), "code")
  BY <1>1
<1>5. /\ GetByte(f, d, "err") \in Cursors
      /\ GetValues(f, GetCount(f, d), GetCount(f, d).x.n_byte, 1) \in Cursors
      /\ GetValues(f, GetCount(f, d), GetCount(f, d).x.n_byte, 2) \in Cursors
      /\ GetValues(f, GetNetWord(f, d, "reg"), 2, 1) \in Cursors
      /\ GetNetWord(f, GetNetWord(f, d, "reg"), "n_reg") \in Cursors
  BY <1>2, <1>3, <1>4
<1> QED
  BY ONLY <1>4, <1>5 DEF Decap
-----------------------------------------------------------------------------
(* Frames sent.                                                            *)

\* How long a body is, by its code.
LEMMA BodyLength ==
  ASSUME HostOK, NEW x \in MBInfo
  PROVE  /\ Len(Body(x)) \in Nat /\ Len(Body(x)) <= 261
         /\ x.code \in 1..6 => Len(Body(x)) = 5
         /\ x.code = 15 => Len(Body(x)) = 6 + CoilBytes(x.n_reg)
         /\ x.code = 16 => Len(Body(x)) = 6 + RegisterBytes(x.n_reg)
<1>1. CountMod \in Nat /\ CountMod <= 256 /\ x.n_reg \in Word
  BY MbCodecAssumption, InfoType
<1>2. /\ CoilBytes(x.n_reg) \in Nat /\ CoilBytes(x.n_reg) <= 255
      /\ RegisterBytes(x.n_reg) \in Nat /\ RegisterBytes(x.n_reg) <= 255
  <2>1. PICK a, b : a = CoilBytes(x.n_reg) /\ b = RegisterBytes(x.n_reg)
    OBVIOUS
  <2>2. a \in Nat /\ a < CountMod /\ b \in Nat /\ b < CountMod
    BY <1>1, <2>1, CountsType
  <2>3. a <= 255 /\ b <= 255
    BY ONLY <1>1, <2>2
  <2> QED
    BY ONLY <2>1, <2>2, <2>3
<1>3. /\ Packs(x) \in Seq(Byte) /\ Len(Packs(x)) = CoilBytes(x.n_reg)
      /\ Registers(x) \in Seq(Byte) /\ Len(Registers(x)) = RegisterBytes(x.n_reg)
  BY BytesType
<1>4. /\ Six(x, Packs(x)) \in Seq(Byte) /\ Len(Six(x, Packs(x))) = 6
      /\ Six(x, Registers(x)) \in Seq(Byte) /\ Len(Six(x, Registers(x))) = 6
  BY SixType, BytesCount
<1>5. /\ Len(Six(x, Packs(x)) \o Packs(x)) = 6 + CoilBytes(x.n_reg)
      /\ Len(Six(x, Registers(x)) \o Registers(x)) = 6 + RegisterBytes(x.n_reg)
  <2>1. PICK a, b, d, e : a = Packs(x) /\ b = Six(x, Packs(x)) /\ d = Registers(x) /\ e = Six(x, Registers(x))
    OBVIOUS
  <2>2. Len(b \o a) = Len(b) + Len(a) /\ Len(e \o d) = Len(e) + Len(d)
    BY ONLY <1>3, <1>4, <2>1, CatLength
  <2> QED
    BY ONLY <1>3, <1>4, <2>1, <2>2
<1>6. /\ \A n : Len(Five(x, n)) = 5
      /\ Len(Three(x)) = 3
  BY DEF Five, Three
<1>7. CASE x.code \in 1..4
  <2>1. Body(x) = Five(x, x.n_reg)
    BY ONLY <1>7 DEF Body
  <2>2. x.code # 15 /\ x.code # 16
    BY ONLY <1>7
  <2> QED
    <3>1. Len(Body(x)) = 5
      BY ONLY <1>6, <2>1
    <3> QED
      BY ONLY <2>2, <3>1
<1>8. CASE x.code \in {5, 6}
  <2>1. Body(x) = Five(x, Single(x))
    <3>1. x.code \notin 1..4
      BY ONLY <1>8
    <3> QED
      BY ONLY <1>8, <3>1 DEF Body
  <2>2. x.code # 15 /\ x.code # 16
    BY ONLY <1>8
  <2> QED
    <3>1. Len(Body(x)) = 5
      BY ONLY <1>6, <2>1
    <3> QED
      BY ONLY <2>2, <3>1
<1>9. CASE x.code = 15
  BY ONLY <1>2, <1>5, <1>9 DEF Body
<1>10. CASE x.code = 16
  BY ONLY <1>2, <1>5, <1>10 DEF Body
<1>11. CASE x.code \notin 1..4 /\ x.code \notin {5, 6} /\ x.code # 15 /\ x.code # 16
  <2>1. Body(x) = Three(x)
    BY ONLY <1>11 DEF Body
  <2>2. x.code \notin 1..6
    BY ONLY <1>11
  <2> QED
    <3>1. Len(Body(x)) = 3
      BY ONLY <1>6, <2>1
    <3> QED
      BY ONLY <1>11, <2>2, <3>1
<1> QED
  BY ONLY <1>7, <1>8, <1>9, <1>10, <1>11

\* A countable request needs the bytes of its body and of its frame.
LEMMA NeededIs ==
  ASSUME HostOK, mine \in MBInfo, mine.code \in GoodCode, Countable
  PROVE  Needed = (IF link = "tcp" THEN 7 ELSE 3) + Len(Body(mine))
<1>1. mine.n_reg \in Nat /\ CountMod \in Nat \ {0}
  BY InfoType, WordIs, MbCodecAssumption
<1>2. ASSUME mine.code = 15
      PROVE  Len(Body(mine)) = 6 + (mine.n_reg + 7) \div 8
  <2>1. PICK a : a = (mine.n_reg + 7) \div 8
    OBVIOUS
  <2>2. a \in Nat /\ a < CountMod
    BY <1>1, <1>2, <2>1 DEF Countable
  <2>3. CoilBytes(mine.n_reg) = a
    BY ONLY <1>1, <2>1, <2>2, ModBound DEF CoilBytes
  <2> QED
    BY <1>2, <2>1, <2>3, BodyLength
<1>3. ASSUME mine.code = 16
      PROVE  Len(Body(mine)) = 6 + 2 * mine.n_reg
  <2>1. PICK a : a = mine.n_reg * 2
    OBVIOUS
  <2>2. a = 2 * mine.n_reg /\ a \in Nat
    BY ONLY <1>1, <2>1
  <2>3. a < CountMod
    BY ONLY <1>3, <2>2, Countable DEF Countable
  <2>4. RegisterBytes(mine.n_reg) = a
    BY ONLY <1>1, <2>1, <2>2, <2>3, ModBound DEF RegisterBytes
  <2> QED
    BY <1>3, <2>2, <2>4, BodyLength
<1>4. CASE mine.code \in 1..6
  <2>1. Len(Body(mine)) = 5 /\ mine.code # 15 /\ mine.code # 16
    BY <1>4, BodyLength
  <2> QED
    BY ONLY <2>1 DEF Needed, HeadSize
<1>5. CASE mine.code = 15
  <2>1. PICK a \in Nat : a = (mine.n_reg + 7) \div 8
    BY ONLY <1>1
  <2>2. Needed = (IF link = "tcp" THEN 7 + 5 ELSE 8) + (1 + a)
    BY ONLY <1>5, <2>1 DEF Needed, HeadSize
  <2> QED
    BY ONLY <1>2, <1>5, <2>1, <2>2
<1>6. CASE mine.code = 16
  <2>1. PICK a \in Nat : a = 2 * mine.n_reg
    BY ONLY <1>1
  <2>2. Needed = (IF link = "tcp" THEN 7 + 5 ELSE 8) + (1 + a)
    BY ONLY <1>6, <2>1 DEF Needed, HeadSize
  <2> QED
    BY ONLY <1>3, <1>6, <2>1, <2>2
<1> QED
  BY ONLY <1>4, <1>5, <1>6, mine.code \in GoodCode DEF GoodCode

LEMMA TailIs ==
  ASSUME NEW g \in Seq(Byte), NEW b \in Seq(Byte), NEW h \in Nat, Len(g) = h + Len(b),
         \A k \in 1..Len(b) : g[h + k] = b[k]
  PROVE  SubSeq(g, h + 1, Len(g)) = b
OBVIOUS

\* The frame of a PDU, over TCP.
TcpFramed(f, b, t) ==
  /\ f \in Seq(Byte) /\ b \in Seq(Byte) /\ Len(f) = 7 + Len(b)
  /\ f[1] = t % 256 /\ f[2] = t \div 256 /\ f[3] = 0 /\ f[4] = 0 /\ f[7] = unit
  /\ High(f[5], f[6]) = Len(b) + 1 /\ SubSeq(f, 8, Len(f)) = b

\* The header as mb_tcp_send begins it.
LEMMA HeadType ==
  ASSUME HostOK, NEW t \in Word, unit \in Byte
  PROVE  LET c == Stored(LowFirst(t)) \o <<0, 0, 0, 0, unit>>
         IN /\ c \in Seq(Byte) /\ Len(c) = 7 /\ c[1] = t % 256 /\ c[2] = t \div 256
            /\ c[3] = 0 /\ c[4] = 0 /\ c[7] = unit
<1>1. PICK p, q : p = t % 256 /\ q = t \div 256
  OBVIOUS
<1>2. Stored(LowFirst(t)) = <<p, q>> /\ p \in Byte /\ q \in Byte /\ 0 \in Byte
  BY <1>1, StoredWord, ByteIs
<1>3. PICK s, u : s = <<p, q>> /\ u = <<0, 0, 0, 0, unit>>
  OBVIOUS
<1>4. /\ s \in Seq(Byte) /\ Len(s) = 2 /\ s[1] = p /\ s[2] = q
      /\ u \in Seq(Byte) /\ Len(u) = 5 /\ u[1] = 0 /\ u[2] = 0 /\ u[5] = unit
  BY ONLY <1>2, <1>3, unit \in Byte
<1>5. PICK c : c = s \o u
  OBVIOUS
<1>6. /\ c \in Seq(Byte) /\ Len(c) = 7
      /\ \A k \in 1..2 : c[k] = s[k]
      /\ \A k \in 1..5 : c[2 + k] = u[k]
  <2>1. c \in Seq(Byte) /\ Len(c) = Len(s) + Len(u)
    BY ONLY <1>4, <1>5, CatLength
  <2>2. PICK m, n : m = Len(s) /\ n = Len(u)
    OBVIOUS
  <2>3. /\ \A k \in 1..m : c[k] = s[k]
        /\ \A k \in 1..n : c[m + k] = u[k]
    BY ONLY <1>4, <1>5, <2>2, CatElements
  <2> QED
    BY ONLY <1>4, <2>1, <2>2, <2>3
<1>7. /\ c[1] = s[1] /\ c[2] = s[2] /\ c[2 + 1] = u[1] /\ c[2 + 2] = u[2] /\ c[2 + 5] = u[5]
  BY ONLY <1>6
<1> QED
  BY ONLY <1>1, <1>2, <1>3, <1>4, <1>5, <1>6, <1>7

\* mb_tcp_send makes an MBAP frame of the body, or of what of it fits.
LEMMA TcpFrameIs ==
  ASSUME HostOK, max \in Nat, 7 <= max, unit \in Byte, NEW x \in MBInfo, NEW t \in Word
  PROVE  \E b \in Seq(Byte), c \in Cache :
           /\ Len(c) = 7 /\ 7 + Len(b) <= max /\ Shaped(c, b, Body(x))
           /\ TcpFramed(TcpFrame(x, t), b, t)
<1>1. PICK c : c = Stored(LowFirst(t)) \o <<0, 0, 0, 0, unit>>
  OBVIOUS
<1>2. /\ c \in Seq(Byte) /\ Len(c) = 7 /\ c[1] = t % 256 /\ c[2] = t \div 256
      /\ c[3] = 0 /\ c[4] = 0 /\ c[7] = unit
  BY <1>1, HeadType
<1>3. c \in Cache
  BY <1>2 DEF Cache
<1>4. PICK b \in Seq(Byte) : /\ Encap(c, x) = c \o b /\ Len(c) + Len(b) <= max
                             /\ Shaped(c, b, Body(x))
  BY <1>3, EncapShape
<1>5. PICK f : f = c \o b
  OBVIOUS
<1>6. f \in Seq(Byte) /\ Len(f) = 7 + Len(b)
  BY ONLY <1>2, <1>5, b \in Seq(Byte), CatAssociates
<1>7. Len(b) \in Nat /\ Len(b) <= 261
  <2>1. Body(x) \in Seq(Byte) /\ Len(Body(x)) \in Nat /\ Len(Body(x)) <= 261
    BY BodyType, BodyLength
  <2>2. PICK p : p = Body(x)
    OBVIOUS
  <2>3. CASE max - Len(c) < 5
    BY <1>4, <2>3 DEF Shaped
  <2>4. CASE ~(max - Len(c) < 5)
    <3>1. PICK m \in 0..Len(p) : b = SubSeq(p, 1, m)
      BY ONLY <1>4, <2>2, <2>4 DEF Shaped
    <3>2. Len(b) = m
      BY ONLY <2>1, <2>2, <3>1, CutLength
    <3> QED
      BY ONLY <2>1, <2>2, <3>1, <3>2
  <2> QED
    BY ONLY <2>3, <2>4
<1>8. PICK w : w = LengthOf(f)
  OBVIOUS
<1>9. w = Len(b) + 1 /\ w \in Word
  <2>1. w = Len(b) + 1
    BY ONLY <1>6, <1>7, <1>8 DEF LengthOf, HeadSize
  <2>2. w \in Int /\ 0 <= w /\ w < 65536
    BY ONLY <1>7, <2>1
  <2> QED
    BY ONLY <2>1, <2>2, WordIs
<1>10. PICK p, q : p = w \div 256 /\ q = w % 256
  OBVIOUS
<1>11. p \in Byte /\ q \in Byte /\ Stored(NetWord(w)) = <<p, q>> /\ High(p, q) = w
  BY <1>9, <1>10, WordTaken, StoredWord DEF Pair
<1>12. PICK g : g = [f EXCEPT ![5] = p, ![6] = q]
  OBVIOUS
<1>13. TcpFrame(x, t) = g
  <2>1. PICK n : n = Stored(NetWord(LengthOf(f)))
    OBVIOUS
  <2>2. n[1] = p /\ n[2] = q
    BY ONLY <1>8, <1>11, <2>1
  <2>3. TcpFrame(x, t) = [f EXCEPT ![5] = n[1], ![6] = n[2]]
    BY ONLY <1>1, <1>4, <1>5, <2>1 DEF TcpFrame
  <2> QED
    BY ONLY <1>12, <2>2, <2>3
<1>14. /\ g \in Seq(Byte) /\ Len(g) = Len(f) /\ g[5] = p /\ g[6] = q
       /\ \A k \in 1..Len(f) : k # 5 /\ k # 6 => g[k] = f[k]
  <2>1. PICK n : n = Len(f)
    OBVIOUS
  <2>2. n \in Nat /\ 7 <= n /\ DOMAIN f = 1..n /\ \A k \in 1..n : f[k] \in Byte
    BY ONLY <1>6, <1>7, <2>1
  <2>3. /\ DOMAIN g = 1..n
        /\ \A k \in 1..n : g[k] = IF k = 6 THEN q ELSE IF k = 5 THEN p ELSE f[k]
        /\ g = [k \in 1..n |-> g[k]]
    BY ONLY <1>6, <1>12, <2>2
  <2>4. \A k \in 1..n : g[k] \in Byte
    BY ONLY <1>11, <2>2, <2>3
  <2>5. g \in Seq(Byte) /\ Len(g) = n
    BY ONLY <2>2, <2>3, <2>4, SequenceMade
  <2>6. 5 \in 1..n /\ 6 \in 1..n
    BY ONLY <2>2
  <2> QED
    BY ONLY <2>1, <2>3, <2>5, <2>6
<1>15. /\ \A k \in 1..7 : f[k] = c[k]
       /\ \A k \in 1..Len(b) : f[7 + k] = b[k]
  <2>1. PICK n : n = Len(c)
    OBVIOUS
  <2>2. /\ \A k \in 1..n : f[k] = c[k]
        /\ \A k \in 1..Len(b) : f[n + k] = b[k]
    <3>1. /\ \A k \in 1..Len(c) : (c \o b)[k] = c[k]
          /\ \A k \in 1..Len(b) : (c \o b)[Len(c) + k] = b[k]
      <4>1. c \in Seq(Byte)
        BY ONLY <1>2
      <4> QED
        BY ONLY <4>1, b \in Seq(Byte), CatElements
    <3> QED
      BY ONLY <1>5, <2>1, <3>1
  <2>3. n = 7
    BY ONLY <1>2, <2>1
  <2> QED
    BY ONLY <2>2, <2>3
<1>16. g[1] = c[1] /\ g[2] = c[2] /\ g[3] = c[3] /\ g[4] = c[4] /\ g[7] = c[7]
  BY ONLY <1>6, <1>7, <1>14, <1>15
<1>17. \A k \in 1..Len(b) : g[7 + k] = b[k]
  <2> TAKE k \in 1..Len(b)
  <2>1. 7 + k \in 1..Len(f) /\ 7 + k # 5 /\ 7 + k # 6
    BY ONLY <1>6, <1>7, k \in 1..Len(b)
  <2> QED
    BY ONLY <1>14, <1>15, <2>1, k \in 1..Len(b)
<1>18. SubSeq(g, 8, Len(g)) = b
  <2>1. SubSeq(g, 7 + 1, Len(g)) = b
    BY ONLY <1>6, <1>14, <1>17, b \in Seq(Byte), TailIs
  <2> QED
    BY ONLY <2>1
<1>19. TcpFramed(g, b, t)
  BY ONLY <1>2, <1>6, <1>9, <1>11, <1>14, <1>16, <1>18, b \in Seq(Byte) DEF TcpFramed
<1> QED
  BY ONLY <1>2, <1>3, <1>4, <1>13, <1>19, b \in Seq(Byte)

\* The slave finds the PDU in an MBAP frame.
LEMMA TcpRead ==
  ASSUME link = "tcp", NEW f, NEW b, NEW t, TcpFramed(f, b, t)
  PROVE  PduOf(f) = b
<1>1. /\ f \in Seq(Byte) /\ b \in Seq(Byte) /\ Len(f) = 7 + Len(b) /\ Len(b) \in Nat
      /\ f[3] = 0 /\ f[4] = 0 /\ f[7] = unit
      /\ High(f[5], f[6]) = Len(b) + 1 /\ SubSeq(f, 8, Len(f)) = b
  BY DEF TcpFramed
<1>2. PICK n \in Nat : n = Len(b)
  BY ONLY <1>1
<1>3. CASE n = 0
  <2>1. ~(Len(f) > HeadSize)
    BY ONLY <1>1, <1>2, <1>3 DEF HeadSize
  <2>2. b = <<>>
    BY ONLY <1>1, <1>2, <1>3
  <2> QED
    BY ONLY link = "tcp", <2>1, <2>2 DEF PduOf
<1>4. CASE n # 0
  <2>1. Len(f) > HeadSize /\ Len(f) - (HeadSize - 1) = Len(b) + 1 /\ HeadSize + 1 = 8
    BY ONLY <1>1, <1>2, <1>4 DEF HeadSize
  <2>2. High(f[5], f[6]) = Len(f) - (HeadSize - 1)
    BY ONLY <1>1, <2>1
  <2>3. PduOf(f) = SubSeq(f, HeadSize + 1, Len(f))
    BY ONLY link = "tcp", <1>1, <2>1, <2>2 DEF PduOf
  <2> QED
    BY ONLY <1>1, <2>1, <2>3
<1> QED
  BY ONLY <1>3, <1>4

LEMMA CrcBytesType ==
  ASSUME NEW f
  PROVE  CrcBytes(f) \in Seq(Byte) /\ Len(CrcBytes(f)) = 2
<1>1. PICK w \in Word : w = Crc(f)
  BY CrcType
<1>2. PICK p, q : p = w % 256 /\ q = w \div 256
  OBVIOUS
<1>3. p \in Byte /\ q \in Byte
  BY <1>2, WordTaken DEF Pair
<1>4. CrcBytes(f) = <<p, q>>
  BY ONLY <1>1, <1>2 DEF CrcBytes
<1> QED
  BY ONLY <1>3, <1>4

\* The frame of a PDU, over the serial line.
RtuFramed(a, b) == (<<a>> \o b) \o CrcBytes(<<a>> \o b)

\* An RTU frame is its address, its PDU and their checksum.
LEMMA RtuFramedIs ==
  ASSUME NEW a \in Byte, NEW b \in Seq(Byte)
  PROVE  /\ RtuFramed(a, b) \in Seq(Byte) /\ Len(RtuFramed(a, b)) = 3 + Len(b)
         /\ RtuFramed(a, b)[1] = a
         /\ \A k \in 1..Len(b) : RtuFramed(a, b)[1 + k] = b[k]
         /\ SubSeq(RtuFramed(a, b), 1, 1 + Len(b)) = <<a>> \o b
         /\ SubSeq(RtuFramed(a, b), Len(b) + 2, Len(b) + 3) = CrcBytes(<<a>> \o b)
         /\ SubSeq(RtuFramed(a, b), 2, Len(b) + 1) = b
<1>1. PICK h, f, c, w : h = <<a>> /\ f = h \o b /\ c = CrcBytes(f) /\ w = f \o c
  OBVIOUS
<1>2. w = RtuFramed(a, b)
  BY ONLY <1>1 DEF RtuFramed
<1>3. PICK n \in Nat : n = Len(b)
  OBVIOUS
<1>4. h \in Seq(Byte) /\ Len(h) = 1 /\ h[1] = a
  BY ONLY <1>1, a \in Byte
<1>5. f \in Seq(Byte) /\ Len(f) = 1 + n
  BY ONLY <1>1, <1>3, <1>4, b \in Seq(Byte), CatLength
<1>6. c \in Seq(Byte) /\ Len(c) = 2
  BY ONLY <1>1, CrcBytesType
<1>7. w \in Seq(Byte) /\ Len(w) = 3 + n
  <2>1. w \in Seq(Byte) /\ Len(w) = Len(f) + Len(c)
    BY ONLY <1>1, <1>5, <1>6, CatLength
  <2> QED
    BY ONLY <1>3, <1>5, <1>6, <2>1
<1>8. /\ f[1] = a /\ \A k \in 1..n : f[1 + k] = b[k]
  <2>1. PICK m : m = Len(h)
    OBVIOUS
  <2>2. /\ \A k \in 1..m : f[k] = h[k]
        /\ \A k \in 1..n : f[m + k] = b[k]
    BY ONLY <1>1, <1>3, <1>4, <2>1, b \in Seq(Byte), CatElements
  <2> QED
    BY ONLY <1>4, <2>1, <2>2
<1>9. /\ \A k \in 1..(1 + n) : w[k] = f[k]
      /\ SubSeq(w, (1 + n) + 1, (1 + n) + 2) = c
  <2>1. PICK m : m = Len(f)
    OBVIOUS
  <2>2. PICK r : r = Len(c)
    OBVIOUS
  <2>3. /\ \A k \in 1..m : w[k] = f[k]
        /\ SubSeq(w, m + 1, m + Len(c)) = c
    BY ONLY <1>1, <1>5, <1>6, <2>1, CatElements
  <2>4. SubSeq(w, m + 1, m + 2) = c
    BY ONLY <1>6, <2>3
  <2>5. m = 1 + n
    BY ONLY <1>5, <2>1
  <2> QED
    BY ONLY <2>3, <2>4, <2>5
<1>10. SubSeq(w, 1, 1 + n) = f
  <2>1. PICK m \in Nat : m = 1 + n
    BY ONLY <1>3
  <2>2. \A k \in 1..m : w[k] = f[k]
    BY ONLY <1>9, <2>1
  <2>3. Len(f) = m /\ m <= Len(w)
    BY ONLY <1>3, <1>5, <1>7, <2>1
  <2>4. SubSeq(w, 1, m) = f
    BY ONLY <1>5, <1>7, <2>1, <2>2, <2>3
  <2> QED
    BY ONLY <2>1, <2>4
<1>11. w[1] = a /\ \A k \in 1..n : w[1 + k] = b[k]
  <2>1. 1 \in 1..(1 + n) /\ \A k \in 1..n : 1 + k \in 1..(1 + n)
    BY ONLY <1>3
  <2> QED
    BY ONLY <1>8, <1>9, <2>1
<1>12. SubSeq(w, 2, n + 1) = b
  BY ONLY <1>3, <1>7, <1>11, b \in Seq(Byte)
<1>13. (1 + n) + 1 = n + 2 /\ (1 + n) + 2 = n + 3
  BY ONLY <1>3
<1> QED
  BY ONLY <1>1, <1>2, <1>3, <1>7, <1>9, <1>10, <1>11, <1>12, <1>13

\* The slave takes the PDU from a frame that has its address.
LEMMA RtuRead ==
  ASSUME link # "tcp", NEW a \in Byte, NEW b \in Seq(Byte)
  PROVE  PduOf(RtuFramed(a, b)) = IF a = unit THEN b ELSE <<>>
<1>1. PICK w, n : w = RtuFramed(a, b) /\ n = Len(b)
  OBVIOUS
<1>2. /\ w \in Seq(Byte) /\ Len(w) = 3 + n /\ w[1] = a
      /\ SubSeq(w, 1, 1 + n) = <<a>> \o b
      /\ SubSeq(w, n + 2, n + 3) = CrcBytes(<<a>> \o b)
      /\ SubSeq(w, 2, n + 1) = b
  BY ONLY <1>1, a \in Byte, b \in Seq(Byte), RtuFramedIs
<1>3. n \in Nat
  BY <1>1
<1>4. CASE n = 0
  <2>1. b = <<>>
    <3>1. Len(b) = 0
      BY ONLY <1>1, <1>4
    <3> QED
      BY ONLY <3>1, b \in Seq(Byte)
  <2>2. ~(Len(w) > 3)
    BY ONLY <1>2, <1>4
  <2> QED
    BY ONLY <1>1, <2>1, <2>2, link # "tcp" DEF PduOf
<1>5. CASE n # 0
  <2>1. Len(w) > 3 /\ Len(w) - 1 = n + 2 /\ Len(w) - 2 = 1 + n /\ 1 + n = n + 1 /\ Len(w) = n + 3
    BY ONLY <1>2, <1>3, <1>5
  <2>2. SubSeq(w, Len(w) - 1, Len(w)) = CrcBytes(SubSeq(w, 1, Len(w) - 2))
    <3>1. PICK l, p, q : l = Len(w) /\ p = Len(w) - 1 /\ q = Len(w) - 2
      OBVIOUS
    <3>2. SubSeq(w, p, l) = CrcBytes(<<a>> \o b)
      BY ONLY <1>2, <2>1, <3>1
    <3>3. SubSeq(w, 1, q) = <<a>> \o b
      BY ONLY <1>2, <2>1, <3>1
    <3> QED
      BY ONLY <3>1, <3>2, <3>3
  <2>3. SubSeq(w, 2, Len(w) - 2) = b
    BY ONLY <1>2, <2>1
  <2> QED
    BY ONLY <1>1, <1>2, <2>1, <2>2, <2>3, link # "tcp" DEF PduOf
<1> QED
  BY ONLY <1>4, <1>5

\* A frame whose checksum was left out: what the slave takes for the
\* checksum is its end.
LEMMA RtuReadCut ==
  ASSUME link # "tcp", NEW a \in Byte, NEW b \in Seq(Byte)
  PROVE  PduOf(<<a>> \o b) = <<>> \/ \E m \in 0..(Len(b) - 1) : PduOf(<<a>> \o b) = SubSeq(b, 1, m)
<1>1. PICK h, w, n : h = <<a>> /\ w = h \o b /\ n = Len(b)
  OBVIOUS
<1>2. n \in Nat /\ h \in Seq(Byte) /\ Len(h) = 1
  BY <1>1
<1>3. w \in Seq(Byte) /\ Len(w) = 1 + n
  BY ONLY <1>1, <1>2, b \in Seq(Byte), CatLength
<1>4. \A k \in 1..n : w[1 + k] = b[k]
  <2>1. PICK m : m = Len(h)
    OBVIOUS
  <2>2. \A k \in 1..n : w[m + k] = b[k]
    BY ONLY <1>1, <1>2, <2>1, b \in Seq(Byte), CatElements
  <2> QED
    BY ONLY <1>2, <2>1, <2>2
<1>5. CASE Len(w) > 3
  <2>1. PICK m : m = n - 2
    OBVIOUS
  <2>2. m \in 0..(n - 1) /\ Len(w) - 2 = m + 1 /\ m <= n
    BY ONLY <1>2, <1>3, <1>5, <2>1
  <2>3. SubSeq(w, 2, m + 1) = SubSeq(b, 1, m)
    BY ONLY <1>1, <1>2, <1>3, <1>4, <2>2, b \in Seq(Byte)
  <2>4. PduOf(w) \in {<<>>, SubSeq(w, 2, Len(w) - 2)}
    BY ONLY link # "tcp" DEF PduOf
  <2> QED
    BY ONLY <1>1, <2>2, <2>3, <2>4
<1>6. CASE ~(Len(w) > 3)
  BY ONLY <1>1, <1>6, link # "tcp" DEF PduOf
<1> QED
  BY ONLY <1>5, <1>6

\* mb_rtu_send makes an RTU frame of the body, or leaves the checksum out
\* when it does not fit.
LEMMA RtuFrameIs ==
  ASSUME HostOK, max \in Nat, 7 <= max, unit \in Word, NEW x \in MBInfo
  PROVE  \E b \in Seq(Byte), c \in Cache, a \in Byte :
           /\ a = unit % 256 /\ Len(c) = 1 /\ 1 + Len(b) <= max /\ Shaped(c, b, Body(x))
           /\ RtuFrame(x) = IF 3 + Len(b) <= max THEN RtuFramed(a, b) ELSE <<a>> \o b
<1>1. PICK a : a = unit % 256
  OBVIOUS
<1>2. a \in Byte
  BY ONLY <1>1, unit \in Word, WordTaken DEF Pair
<1>3. PICK c : c = <<a>>
  OBVIOUS
<1>4. c \in Seq(Byte) /\ Len(c) = 1
  BY ONLY <1>2, <1>3
<1>5. SetByte(<<>>, a) = c
  <2>1. Len(<<>>) + 1 <= max /\ Append(<<>>, a) = c
    BY <1>3
  <2> QED
    BY ONLY <2>1 DEF SetByte
<1>6. c \in Cache
  BY <1>4 DEF Cache
<1>7. PICK b \in Seq(Byte) : Encap(c, x) = c \o b /\ Len(c) + Len(b) <= max /\ Shaped(c, b, Body(x))
  BY <1>6, EncapShape
<1>8. PICK f : f = c \o b
  OBVIOUS
<1>9. f \in Seq(Byte) /\ Len(f) = 1 + Len(b)
  BY ONLY <1>4, <1>8, b \in Seq(Byte), CatLength
<1>10. Stored(LowFirst(Crc(f))) = CrcBytes(f)
  <2>1. PICK w \in Word : w = Crc(f)
    BY CrcType
  <2> QED
    BY <2>1, StoredWord DEF CrcBytes
<1>11. RtuFrame(x) = SetWord(f, LowFirst(Crc(f)))
  BY ONLY <1>1, <1>5, <1>7, <1>8 DEF RtuFrame
<1>12. Len(f) + 2 <= max <=> 3 + Len(b) <= max
  <2>1. PICK n : n = Len(b)
    OBVIOUS
  <2>2. n \in Nat
    BY <2>1
  <2>3. Len(f) = 1 + n
    BY ONLY <1>9, <2>1
  <2>4. (1 + n) + 2 <= max <=> 3 + n <= max
    BY ONLY <2>2, max \in Nat
  <2> QED
    BY ONLY <2>1, <2>3, <2>4
<1>13. RtuFrame(x) = IF 3 + Len(b) <= max THEN f \o CrcBytes(f) ELSE f
  BY ONLY <1>10, <1>11, <1>12 DEF SetWord
<1> QED
  BY ONLY <1>1, <1>2, <1>3, <1>4, <1>6, <1>7, <1>8, <1>13, b \in Seq(Byte) DEF RtuFramed

LEMMA NothingIsMalformed == Understood(<<>>) = Malformed
<1>1. Len(<<>>) \in Nat /\ Len(<<>>) < 5
  OBVIOUS
<1> QED
  BY ONLY <1>1, ShortIsMalformed

\* What the slave makes of the frame f that the record in mine becomes.
Sound(f, t) ==
  /\ f \in Seq(Byte) /\ Len(f) <= max
  /\ Understood(PduOf(f)) \in {Malformed, Asked}
  /\ mine.code \in GoodCode /\ Countable /\ Needed <= max /\ unit \in Byte
       => Understood(PduOf(f)) = Asked
  /\ link = "tcp" => TcpFramed(f, PduOf(f), t)

\* mb_tcp_send's frame is the request or none.
LEMMA TcpSound ==
  ASSUME HostOK, max \in Nat, 7 <= max, link = "tcp", unit \in Byte, mine \in MBInfo,
         ~ReadsPastValue(mine), NEW t \in Word
  PROVE  Sound(TcpFrame(mine, t), t)
<1>1. PICK f : f = TcpFrame(mine, t)
  OBVIOUS
<1>2. PICK b \in Seq(Byte), c \in Cache : /\ Len(c) = 7 /\ 7 + Len(b) <= max
           /\ Shaped(c, b, Body(mine)) /\ TcpFramed(f, b, t)
  BY <1>1, TcpFrameIs
<1>3. PduOf(f) = b
  BY ONLY <1>2, link = "tcp", TcpRead
<1>4. /\ Understood(b) \in {Malformed, Asked}
      /\ Len(c) + 5 <= max /\ Len(c) + Len(Body(mine)) <= max /\ mine.code \in GoodCode /\ Countable
              => Understood(b) = Asked
  BY <1>2, UnderstoodShaped
<1>5. ASSUME mine.code \in GoodCode, Countable, Needed <= max
      PROVE  Len(c) + 5 <= max /\ Len(c) + Len(Body(mine)) <= max
  <2>1. PICK l : l = Len(Body(mine))
    OBVIOUS
  <2>2. l \in Nat /\ 5 <= l
    <3>1. /\ mine.code \in 1..6 => l = 5
          /\ mine.code = 15 => l = 6 + CoilBytes(mine.n_reg)
          /\ mine.code = 16 => l = 6 + RegisterBytes(mine.n_reg)
      BY <2>1, BodyLength
    <3>2. CoilBytes(mine.n_reg) \in Nat /\ RegisterBytes(mine.n_reg) \in Nat
      BY InfoType, CountsType
    <3> QED
      BY ONLY <1>5, <3>1, <3>2 DEF GoodCode
  <2>3. Needed = 7 + l
    <3>1. Needed = (IF link = "tcp" THEN 7 ELSE 3) + l
      BY <1>5, <2>1, NeededIs
    <3> QED
      BY ONLY <3>1, link = "tcp"
  <2> QED
    BY ONLY <1>2, <1>5, <2>1, <2>2, <2>3, max \in Nat
<1>6. f \in Seq(Byte) /\ Len(f) = 7 + Len(b)
  BY ONLY <1>2 DEF TcpFramed
<1>7. mine.code \in GoodCode /\ Countable /\ Needed <= max => Understood(b) = Asked
  BY ONLY <1>4, <1>5
<1>8. Len(f) <= max
  BY ONLY <1>2, <1>6
<1> QED
  BY ONLY <1>1, <1>2, <1>3, <1>4, <1>6, <1>7, <1>8 DEF Sound

\* So is mb_rtu_send's.
LEMMA RtuSound ==
  ASSUME HostOK, max \in Nat, 7 <= max, link # "tcp", unit \in Word, mine \in MBInfo,
         ~ReadsPastValue(mine), NEW t
  PROVE  Sound(RtuFrame(mine), t)
<1>1. PICK b \in Seq(Byte), c \in Cache, a \in Byte :
           /\ a = unit % 256 /\ Len(c) = 1 /\ 1 + Len(b) <= max /\ Shaped(c, b, Body(mine))
           /\ RtuFrame(mine) = IF 3 + Len(b) <= max THEN RtuFramed(a, b) ELSE <<a>> \o b
  BY RtuFrameIs
<1>2. PICK n \in Nat : n = Len(b)
  OBVIOUS
<1>3. /\ Understood(b) \in {Malformed, Asked}
      /\ \A m \in 0..(n - 1) : Understood(SubSeq(b, 1, m)) = Malformed
      /\ Len(c) + 5 <= max /\ Len(c) + Len(Body(mine)) <= max /\ mine.code \in GoodCode /\ Countable
              => b = Body(mine) /\ Understood(b) = Asked
  BY <1>1, <1>2, UnderstoodShaped
<1>4. ASSUME mine.code \in GoodCode, Countable, Needed <= max
      PROVE  b = Body(mine) /\ Understood(b) = Asked /\ 3 + n <= max
  <2>1. PICK l : l = Len(Body(mine))
    OBVIOUS
  <2>2. l \in Nat
    BY <2>1, BodyLength
  <2>3. Needed = 3 + l
    <3>1. Needed = (IF link = "tcp" THEN 7 ELSE 3) + l
      BY <1>4, <2>1, NeededIs
    <3> QED
      BY ONLY <3>1, link # "tcp"
  <2>4. Len(c) + 5 <= max /\ Len(c) + Len(Body(mine)) <= max
    BY ONLY <1>1, <1>4, <2>1, <2>2, <2>3, max \in Nat, 7 <= max
  <2>5. b = Body(mine) /\ Understood(b) = Asked
    BY ONLY <1>3, <1>4, <2>4
  <2> QED
    BY ONLY <1>2, <1>4, <2>1, <2>3, <2>5
<1>5. ASSUME unit \in Byte
      PROVE  a = unit
  BY ONLY <1>1, <1>5, ByteIs
<1>6. CASE 3 + n <= max
  <2>1. PICK f : f = RtuFramed(a, b)
    OBVIOUS
  <2>2. f \in Seq(Byte) /\ Len(f) = 3 + n
    BY ONLY <1>2, <2>1, a \in Byte, b \in Seq(Byte), RtuFramedIs
  <2>3. PduOf(f) = IF a = unit THEN b ELSE <<>>
    BY ONLY <2>1, link # "tcp", a \in Byte, b \in Seq(Byte), RtuRead
  <2>4. Understood(PduOf(f)) \in {Malformed, Asked}
    BY ONLY <1>3, <2>3, NothingIsMalformed
  <2>5. mine.code \in GoodCode /\ Countable /\ Needed <= max /\ unit \in Byte
          => Understood(PduOf(f)) = Asked
    BY ONLY <1>4, <1>5, <2>3
  <2>6. RtuFrame(mine) = f
    BY ONLY <1>1, <1>2, <1>6, <2>1
  <2> QED
    BY ONLY <1>6, <2>2, <2>4, <2>5, <2>6, link # "tcp" DEF Sound
<1>7. CASE ~(3 + n <= max)
  <2>1. PICK f : f = <<a>> \o b
    OBVIOUS
  <2>2. f \in Seq(Byte) /\ Len(f) = 1 + n
    <3>1. <<a>> \in Seq(Byte) /\ Len(<<a>>) = 1
      OBVIOUS
    <3>2. PICK h : h = <<a>>
      OBVIOUS
    <3> QED
      BY ONLY <1>2, <2>1, <3>1, <3>2, b \in Seq(Byte), CatLength
  <2>3. PduOf(f) = <<>> \/ \E m \in 0..(n - 1) : PduOf(f) = SubSeq(b, 1, m)
    BY ONLY <1>2, <2>1, link # "tcp", a \in Byte, b \in Seq(Byte), RtuReadCut
  <2>4. Understood(PduOf(f)) = Malformed
    BY ONLY <1>3, <2>3, NothingIsMalformed
  <2>5. ~(mine.code \in GoodCode /\ Countable /\ Needed <= max)
    BY ONLY <1>4, <1>7
  <2>6. RtuFrame(mine) = f /\ 1 + n <= max
    BY ONLY <1>1, <1>2, <1>7, <2>1
  <2> QED
    BY ONLY <2>2, <2>4, <2>5, <2>6, link # "tcp" DEF Sound
<1> QED
  BY ONLY <1>6, <1>7
-----------------------------------------------------------------------------
(* Replies.                                                                *)

\* The codes of what can be understood are the eight of the protocol.
LEMMA UnderstoodCode ==
  ASSUME NEW p, Understood(p) # Malformed
  PROVE  Understood(p).code \in GoodCode
<1>1. PICK c : c = p[1]
  OBVIOUS
<1>2. CASE Len(p) < 5
  BY ONLY <1>2, Understood(p) # Malformed DEF Understood
<1>3. CASE ~(Len(p) < 5)
  <2>1. CASE c \in 1..4 /\ Len(p) = 5
    <3>1. Understood(p).code = c
      BY ONLY <1>1, <1>3, <2>1 DEF Understood
    <3> QED
      BY ONLY <2>1, <3>1 DEF GoodCode
  <2>2. CASE c \in {5, 6} /\ Len(p) = 5
    <3>1. c \notin 1..4
      BY ONLY <2>2
    <3>2. Understood(p).code = c
      BY ONLY <1>1, <1>3, <2>2, <3>1 DEF Understood
    <3> QED
      BY ONLY <2>2, <3>2 DEF GoodCode
  <2>3. CASE ~(c \in 1..4 /\ Len(p) = 5) /\ ~(c \in {5, 6} /\ Len(p) = 5)
    <3>1. Understood(p).code \in {15, 16}
      BY ONLY <1>1, <1>3, <2>3, Understood(p) # Malformed DEF Understood
    <3> QED
      BY ONLY <3>1 DEF GoodCode
  <2> QED
    BY ONLY <2>1, <2>2, <2>3
<1> QED
  BY ONLY <1>2, <1>3

\* What the slave may answer to the record in mine.
Refused(p) == Len(p) = 2 /\ p[1] = mine.code + 128
Read(p) ==
  /\ mine.code \in 1..4 /\ p[1] = mine.code /\ 2 <= Len(p) /\ Len(p) = 2 + p[2] /\ p[2] < CountMod
  /\ mine.code \in {3, 4} => p[2] % 2 = 0
Repeated(p) == Len(p) = 5 /\ p[1] = mine.code /\ p[2] = mine.reg \div 256 /\ p[3] = mine.reg % 256
Written(p) == mine.code \in {5, 6} /\ Repeated(p)
Stated(p) == mine.code \in {15, 16} /\ Repeated(p) /\ p[4] = mine.n_reg \div 256 /\ p[5] = mine.n_reg % 256

ReplyPdu(p) ==
  /\ mine.code \in GoodCode /\ p \in Seq(Byte)
  /\ Refused(p) \/ Read(p) \/ Written(p) \/ Stated(p)

LEMMA GoodByte ==
  ASSUME mine \in MBInfo, mine.code \in GoodCode
  PROVE  /\ mine.code \in Byte /\ mine.code + 128 \in Byte /\ mine.code + 128 > 128
         /\ mine.code <= 128 /\ mine.code \in Nat
<1>1. PICK c : c = mine.code
  OBVIOUS
<1>2. c \in Nat /\ 1 <= c /\ c <= 16
  BY ONLY <1>1, mine.code \in GoodCode DEF GoodCode
<1>3. c + 128 \in Int /\ 0 <= c + 128 /\ c + 128 < 256 /\ c + 128 > 128 /\ c <= 128 /\ c < 256
  BY ONLY <1>2
<1> QED
  BY ONLY <1>1, <1>2, <1>3, ByteIs

\* An exception is a reply to whatever was asked.
LEMMA RefusedIs ==
  ASSUME mine \in MBInfo, mine.code \in GoodCode, NEW r, r.code = mine.code
  PROVE  ReplyPdu(Exception(r))
<1>1. PICK c : c = mine.code + 128
  OBVIOUS
<1>2. c \in Byte /\ 2 \in Byte
  BY <1>1, GoodByte, ByteIs
<1>3. Exception(r) = <<c, 2>>
  BY ONLY <1>1, r.code = mine.code DEF Exception
<1>4. <<c, 2>> \in Seq(Byte) /\ Len(<<c, 2>>) = 2 /\ <<c, 2>>[1] = c
  BY ONLY <1>2
<1> QED
  BY ONLY <1>1, <1>3, <1>4, mine.code \in GoodCode DEF ReplyPdu, Refused

LEMMA WordBytes ==
  ASSUME NEW w \in Word
  PROVE  /\ Bytes(w) \in Seq(Byte) /\ Len(Bytes(w)) = 2
         /\ Bytes(w)[1] = w \div 256 /\ Bytes(w)[2] = w % 256
<1>1. PICK p, q : p = w \div 256 /\ q = w % 256
  OBVIOUS
<1>2. p \in Byte /\ q \in Byte
  BY <1>1, WordTaken DEF Pair
<1>3. Bytes(w) = <<p, q>>
  BY ONLY <1>1 DEF Bytes
<1> QED
  BY ONLY <1>1, <1>2, <1>3

LEMMA Concatenated ==
  ASSUME NEW s \in Seq(Byte), NEW t \in Seq(Byte), NEW m \in Nat, NEW n \in Nat, m = Len(s), n = Len(t)
  PROVE  /\ s \o t \in Seq(Byte) /\ Len(s \o t) = m + n
         /\ \A k \in 1..m : (s \o t)[k] = s[k]
         /\ \A k \in 1..n : (s \o t)[m + k] = t[k]
BY CatLength, CatElements

\* A code, a word and two more bytes.
Echo(c, w, s) == <<c>> \o Bytes(w) \o s

LEMMA RepeatedIs ==
  ASSUME NEW c \in Byte, NEW w \in Word, NEW s \in Seq(Byte), Len(s) = 2, NEW p, p = Echo(c, w, s)
  PROVE  /\ p \in Seq(Byte) /\ Len(p) = 5 /\ p[1] = c /\ p[2] = w \div 256 /\ p[3] = w % 256
         /\ p[4] = s[1] /\ p[5] = s[2]
<1>1. PICK h, b, f : h = <<c>> /\ b = Bytes(w) /\ f = h \o b /\ p = f \o s
  BY DEF Echo
<1>2. h \in Seq(Byte) /\ Len(h) = 1 /\ h[1] = c
  BY ONLY <1>1, c \in Byte
<1>3. b \in Seq(Byte) /\ Len(b) = 2 /\ b[1] = w \div 256 /\ b[2] = w % 256
  BY ONLY <1>1, w \in Word, WordBytes
<1>4. f \in Seq(Byte) /\ Len(f) = 3 /\ f[1] = c /\ f[2] = b[1] /\ f[3] = b[2]
  <2>1. /\ f \in Seq(Byte) /\ Len(f) = 1 + 2
        /\ \A k \in 1..1 : f[k] = h[k]
        /\ \A k \in 1..2 : f[1 + k] = b[k]
    <3>1. PICK m \in Nat, n \in Nat : m = 1 /\ n = 2
      OBVIOUS
    <3>2. b \in Seq(Byte) /\ n = Len(b) /\ m = Len(h)
      BY ONLY <1>2, <1>3, <3>1
    <3>3. /\ f \in Seq(Byte) /\ Len(f) = m + n
          /\ \A k \in 1..m : f[k] = h[k]
          /\ \A k \in 1..n : f[m + k] = b[k]
      <4>1. f = h \o b
        BY ONLY <1>1
      <4>2. h \in Seq(Byte) /\ b \in Seq(Byte)
        BY ONLY <1>2, <3>2
      <4> QED
        BY ONLY <3>2, <4>1, <4>2, m \in Nat, n \in Nat, Concatenated
    <3> QED
      BY ONLY <3>1, <3>3
  <2>2. f[1] = h[1] /\ f[1 + 1] = b[1] /\ f[1 + 2] = b[2]
    BY ONLY <2>1
  <2> QED
    BY ONLY <1>2, <2>1, <2>2
<1>5. p \in Seq(Byte) /\ Len(p) = 5 /\ p[1] = f[1] /\ p[2] = f[2] /\ p[3] = f[3] /\ p[4] = s[1] /\ p[5] = s[2]
  <2>1. /\ p \in Seq(Byte) /\ Len(p) = 3 + 2
        /\ \A k \in 1..3 : p[k] = f[k]
        /\ \A k \in 1..2 : p[3 + k] = s[k]
    BY ONLY <1>1, <1>4, s \in Seq(Byte), Len(s) = 2, Concatenated
  <2>2. p[1] = f[1] /\ p[2] = f[2] /\ p[3] = f[3] /\ p[3 + 1] = s[1] /\ p[3 + 2] = s[2]
    BY ONLY <2>1
  <2> QED
    BY ONLY <2>1, <2>2
<1> QED
  BY ONLY <1>1, <1>3, <1>4, <1>5

LEMMA ReadIs ==
  ASSUME mine \in MBInfo, mine.code \in 1..4, NEW r, r.code = mine.code, r.reg = mine.reg,
         r.n = mine.n_reg, ByteCount(r) < CountMod
  PROVE  ReplyPdu(Answer(r))
<1>1. mine.code \in GoodCode
  BY DEF GoodCode
<1>2. mine.reg \in Nat /\ mine.n_reg \in Nat /\ CountMod \in Nat /\ CountMod <= 256
  BY InfoType, WordIs, MbCodecAssumption
<1>3. PICK c, m : c = mine.code /\ m = ByteCount(r)
  OBVIOUS
<1>4. m \in Nat /\ (c \in {3, 4} => m % 2 = 0)
  <2>1. CASE c \in {1, 2}
    <3>1. m = (mine.n_reg + 7) \div 8
      BY ONLY <1>3, <2>1, r.code = mine.code, r.n = mine.n_reg DEF ByteCount
    <3>2. c \notin {3, 4}
      BY ONLY <2>1
    <3> QED
      BY ONLY <1>2, <3>1, <3>2
  <2>2. CASE c \notin {1, 2}
    <3>1. m = 2 * mine.n_reg
      BY ONLY <1>3, <2>2, r.code = mine.code, r.n = mine.n_reg DEF ByteCount
    <3> QED
      BY ONLY <1>2, <3>1
  <2> QED
    BY ONLY <2>1, <2>2
<1>5. m \in Byte /\ c \in Byte
  <2>1. m < CountMod
    BY <1>3
  <2>2. m \in Int /\ 0 <= m /\ m < 256
    BY ONLY <1>2, <1>4, <2>1
  <2> QED
    BY <1>1, <1>3, <2>2, ByteIs, GoodByte
<1>6. PICK s : s = Held(r)
  OBVIOUS
<1>7. s \in Seq(Byte) /\ Len(s) = m
  <2>1. Data \in Seq(Byte) /\ Len(Data) \in Nat \ {0}
    BY MbCodecAssumption
  <2>2. PICK l : l = Len(Data)
    OBVIOUS
  <2>5. s = [k \in 1..m |-> Data[((r.reg + k) % l) + 1]]
    BY ONLY <1>3, <1>6, <2>2 DEF Held
  <2>3. \A k \in 1..m : s[k] \in Byte
    <3> TAKE k \in 1..m
    <3>1. mine.reg + k \in Nat
      BY ONLY <1>2, <1>4
    <3>2. PICK e : e = (mine.reg + k) % l
      OBVIOUS
    <3>3. e \in 0..(l - 1)
      BY ONLY <2>1, <2>2, <3>1, <3>2
    <3>4. e + 1 \in 1..l
      BY ONLY <2>1, <2>2, <3>3
    <3>5. Data[e + 1] \in Byte
      BY ONLY <2>1, <2>2, <3>4
    <3> QED
      BY ONLY <2>5, <3>2, <3>5, r.reg = mine.reg, k \in 1..m
  <2>4. s = [k \in 1..m |-> s[k]]
    BY ONLY <2>5
  <2> QED
    BY ONLY <1>4, <2>3, <2>4, SequenceMade
<1>8. PICK h, p : h = <<c, m>> /\ p = h \o s
  OBVIOUS
<1>9. h \in Seq(Byte) /\ Len(h) = 2 /\ h[1] = c /\ h[2] = m
  BY ONLY <1>5, <1>8
<1>10. p \in Seq(Byte) /\ Len(p) = 2 + m /\ p[1] = c /\ p[2] = m
  BY ONLY <1>7, <1>8, <1>9
<1>11. Answer(r) = p
  <2>1. r.code \in 1..4
    OBVIOUS
  <2>2. Answer(r) = <<r.code, ByteCount(r)>> \o s
    <3>1. r.code \notin {5, 6}
      BY ONLY <2>1
    <3> QED
      BY ONLY <1>6, <2>1, <3>1 DEF Answer
  <2> QED
    BY ONLY <1>3, <1>8, <2>2, r.code = mine.code
<1>12. Read(p)
  <2>1. 2 <= Len(p)
    BY ONLY <1>4, <1>10
  <2> QED
    BY <1>3, <1>4, <1>10, <2>1 DEF Read
<1> QED
  BY ONLY <1>1, <1>10, <1>11, <1>12 DEF ReplyPdu

\* Whatever the slave answers is a reply to the request that was meant.
LEMMA AnswerIs ==
  ASSUME HostOK, mine \in MBInfo, mine.code \in GoodCode,
         Asked.code \in 1..4 => ByteCount(Asked) < CountMod
  PROVE  ReplyPdu(Answer(Asked)) /\ ReplyPdu(Exception(Asked))
<1>1. PICK r : r = Asked
  OBVIOUS
<1>2. r.code = mine.code /\ r.reg = mine.reg
  BY ONLY <1>1 DEF Asked
<1>3. mine.code \notin {5, 6} => r.n = mine.n_reg
  BY ONLY <1>1 DEF Asked
<1>4. ReplyPdu(Exception(r))
  BY <1>2, RefusedIs
<1>5. mine.code \in Byte /\ mine.reg \in Word /\ mine.n_reg \in Word
  BY InfoType
<1>6. CASE mine.code \in 1..4
  <2>1. r.n = mine.n_reg
    BY ONLY <1>3, <1>6
  <2>2. ByteCount(r) < CountMod
    BY ONLY <1>1, <1>2, <1>6, Asked.code \in 1..4 => ByteCount(Asked) < CountMod
  <2>3. ReplyPdu(Answer(r))
    BY ONLY <1>2, <1>6, <2>1, <2>2, mine \in MBInfo, ReadIs
  <2> QED
    BY ONLY <1>1, <1>4, <2>3
<1>7. CASE mine.code \in {5, 6}
  <2>1. PICK a, b : a = Single(mine) \div 256 /\ b = Single(mine) % 256
    OBVIOUS
  <2>2. a \in Byte /\ b \in Byte
    <3>1. 0 \in ValIndex /\ 1 \in ValIndex
      BY MbCodecAssumption DEF ValIndex
    <3>2. mine.value[0] \in Byte /\ mine.value[1] \in Byte
      BY <3>1, InfoType
    <3>3. Single(mine) \in Word
      BY <3>2, LoadedType, SwapType DEF Single
    <3> QED
      BY <2>1, <3>3, StoredWord
  <2>3. r.data = <<a, b>>
    <3>1. Asked = [code |-> mine.code, reg |-> mine.reg, n |-> 1,
                       data |-> <<Single(mine) \div 256, Single(mine) % 256>>]
      BY <1>7, AskedIs
    <3> QED
      BY ONLY <1>1, <2>1, <3>1
  <2>4. r.data \in Seq(Byte) /\ Len(r.data) = 2
    BY ONLY <2>2, <2>3
  <2>5. PICK p : p = Echo(mine.code, mine.reg, r.data)
    OBVIOUS
  <2>9. PICK s : s = r.data
    OBVIOUS
  <2>6. p \in Seq(Byte) /\ Len(p) = 5 /\ p[1] = mine.code /\ p[2] = mine.reg \div 256 /\ p[3] = mine.reg % 256
    <3>1. s \in Seq(Byte) /\ Len(s) = 2 /\ p = Echo(mine.code, mine.reg, s)
      BY ONLY <2>4, <2>5, <2>9
    <3> QED
      BY ONLY <1>5, <3>1, RepeatedIs
  <2>7. Answer(r) = p
    <3>1. mine.code \notin 1..4
      BY ONLY <1>7
    <3> QED
      BY ONLY <1>2, <1>7, <2>5, <3>1 DEF Answer, Echo
  <2>8. Written(p)
    BY ONLY <1>7, <2>6 DEF Written, Repeated
  <2> QED
    BY ONLY <1>1, <1>4, <2>6, <2>7, <2>8, mine.code \in GoodCode DEF ReplyPdu
<1>8. CASE mine.code \in {15, 16}
  <2>1. PICK s : s = Bytes(mine.n_reg)
    OBVIOUS
  <2>2. s \in Seq(Byte) /\ Len(s) = 2 /\ s[1] = mine.n_reg \div 256 /\ s[2] = mine.n_reg % 256
    BY ONLY <1>5, <2>1, WordBytes
  <2>3. PICK p : p = Echo(mine.code, mine.reg, s)
    OBVIOUS
  <2>4. /\ p \in Seq(Byte) /\ Len(p) = 5 /\ p[1] = mine.code /\ p[2] = mine.reg \div 256
        /\ p[3] = mine.reg % 256 /\ p[4] = s[1] /\ p[5] = s[2]
    BY ONLY <1>5, <2>2, <2>3, RepeatedIs
  <2>5. Answer(r) = p
    <3>1. mine.code \notin 1..4 /\ mine.code \notin {5, 6}
      BY ONLY <1>8
    <3> QED
      BY ONLY <1>2, <1>3, <2>1, <2>3, <3>1 DEF Answer, Echo
  <2>6. Stated(p)
    BY ONLY <1>8, <2>2, <2>4 DEF Stated, Repeated
  <2> QED
    BY ONLY <1>1, <1>4, <2>4, <2>5, <2>6, mine.code \in GoodCode DEF ReplyPdu
<1> QED
  BY ONLY <1>6, <1>7, <1>8, mine.code \in GoodCode DEF GoodCode

\* A reply's PDU has from 2 to 257 bytes.
LEMMA ReplyLength ==
  ASSUME NEW p, ReplyPdu(p)
  PROVE  p \in Seq(Byte) /\ Len(p) \in Nat /\ 2 <= Len(p) /\ Len(p) <= 257
<1>1. p \in Seq(Byte) /\ Len(p) \in Nat
  BY DEF ReplyPdu
<1>2. CASE Refused(p)
  BY ONLY <1>1, <1>2 DEF Refused
<1>3. CASE Read(p)
  <2>1. CountMod \in Nat /\ CountMod <= 256
    BY MbCodecAssumption
  <2>2. 2 <= Len(p) /\ Len(p) = 2 + p[2] /\ p[2] < CountMod
    BY ONLY <1>3 DEF Read
  <2>3. p[2] \in Byte
    BY ONLY <1>1, <2>2
  <2>4. PICK l, c : l = Len(p) /\ c = p[2]
    OBVIOUS
  <2>5. c \in Nat
    BY <2>3, <2>4, ByteIs
  <2>6. l <= 257
    BY ONLY <2>1, <2>2, <2>4, <2>5
  <2> QED
    BY ONLY <1>1, <2>2, <2>4, <2>6
<1>4. CASE Repeated(p)
  BY ONLY <1>1, <1>4 DEF Repeated
<1> QED
  BY ONLY <1>2, <1>3, <1>4, ReplyPdu(p) DEF ReplyPdu, Written, Stated

LEMMA FramedRtu ==
  ASSUME link # "tcp", NEW p
  PROVE  Framed(p) = RtuFramed(unit, p)
BY DEF Framed, RtuFramed

\* Behind the head of the request's frame the reply is an MBAP frame with the
\* request's number.
LEMMA FramedTcp ==
  ASSUME link = "tcp", unit \in Byte, NEW b, TcpFramed(wire, b, tcode), NEW p, ReplyPdu(p)
  PROVE  TcpFramed(Framed(p), p, tcode)
<1>1. PICK l : l = Len(p)
  OBVIOUS
<1>2. p \in Seq(Byte) /\ l \in Nat /\ l <= 257
  BY <1>1, ReplyLength
<1>3. PICK w : w = l + 1
  OBVIOUS
<1>4. w \in Word /\ Bytes(w) \in Seq(Byte) /\ Len(Bytes(w)) = 2 /\ High(Bytes(w)[1], Bytes(w)[2]) = w
  <2>1. w \in Int /\ 0 <= w /\ w < 65536
    BY ONLY <1>2, <1>3
  <2>2. w \in Word
    BY ONLY <2>1, WordIs
  <2>3. High(w \div 256, w % 256) = w
    BY <2>2, WordTaken DEF Pair
  <2> QED
    BY ONLY <2>2, <2>3, WordBytes
<1>5. PICK s, t : s = Bytes(w) /\ t = <<unit>>
  OBVIOUS
<1>6. t \in Seq(Byte) /\ Len(t) = 1 /\ t[1] = unit
  BY ONLY <1>5, unit \in Byte
<1>7. PICK a : a = SubSeq(wire, 1, 4)
  OBVIOUS
<1>8. /\ a \in Seq(Byte) /\ Len(a) = 4 /\ a[1] = tcode % 256 /\ a[2] = tcode \div 256
      /\ a[3] = 0 /\ a[4] = 0
  <2>1. /\ wire \in Seq(Byte) /\ Len(wire) = 7 + Len(b) /\ Len(b) \in Nat
        /\ wire[1] = tcode % 256 /\ wire[2] = tcode \div 256 /\ wire[3] = 0 /\ wire[4] = 0
    BY DEF TcpFramed
  <2>2. 4 \in 0..Len(wire)
    BY ONLY <2>1
  <2>3. PICK m : m = 4
    OBVIOUS
  <2>4. /\ SubSeq(wire, 1, m) \in Seq(Byte) /\ Len(SubSeq(wire, 1, m)) = m
        /\ \A k \in 1..m : SubSeq(wire, 1, m)[k] = wire[k]
    BY ONLY <2>1, <2>2, <2>3, CutLength
  <2>5. 1 \in 1..m /\ 2 \in 1..m /\ 3 \in 1..m /\ 4 \in 1..m
    BY ONLY <2>3
  <2> QED
    BY ONLY <1>7, <2>1, <2>3, <2>4, <2>5
<1>9. PICK c, e, f : c = a \o s /\ e = c \o t /\ f = e \o p
  OBVIOUS
<1>10. Framed(p) = f
  BY ONLY <1>1, <1>3, <1>5, <1>7, <1>9, link = "tcp" DEF Framed
<1>11. /\ c \in Seq(Byte) /\ Len(c) = 6
       /\ \A k \in 1..4 : c[k] = a[k]
       /\ c[5] = s[1] /\ c[6] = s[2]
  <2>1. s \in Seq(Byte) /\ Len(s) = 2
    BY ONLY <1>4, <1>5
  <2>2. PICK m \in Nat, n \in Nat : m = Len(a) /\ n = Len(s)
    BY ONLY <1>8, <2>1
  <2>3. /\ c \in Seq(Byte) /\ Len(c) = m + n
        /\ \A k \in 1..m : c[k] = a[k]
        /\ \A k \in 1..n : c[m + k] = s[k]
    <3>1. c = a \o s /\ a \in Seq(Byte) /\ s \in Seq(Byte) /\ m = Len(a) /\ n = Len(s)
      BY ONLY <1>8, <1>9, <2>1, <2>2
    <3> QED
      BY ONLY <3>1, m \in Nat, n \in Nat, Concatenated
  <2>4. m = 4 /\ n = 2
    BY ONLY <1>8, <2>1, <2>2
  <2>5. c[4 + 1] = s[1] /\ c[4 + 2] = s[2]
    BY ONLY <2>3, <2>4
  <2> QED
    BY ONLY <2>3, <2>4, <2>5
<1>12. /\ e \in Seq(Byte) /\ Len(e) = 7
       /\ \A k \in 1..6 : e[k] = c[k]
       /\ e[7] = unit
  <2>1. PICK m \in Nat, n \in Nat : m = Len(c) /\ n = Len(t)
    BY ONLY <1>6, <1>11
  <2>2. /\ e \in Seq(Byte) /\ Len(e) = m + n
        /\ \A k \in 1..m : e[k] = c[k]
        /\ \A k \in 1..n : e[m + k] = t[k]
    <3>1. e = c \o t /\ c \in Seq(Byte) /\ t \in Seq(Byte) /\ m = Len(c) /\ n = Len(t)
      BY ONLY <1>6, <1>9, <1>11, <2>1
    <3> QED
      BY ONLY <3>1, m \in Nat, n \in Nat, Concatenated
  <2>3. m = 6 /\ n = 1
    BY ONLY <1>6, <1>11, <2>1
  <2>4. e[6 + 1] = t[1]
    BY ONLY <2>2, <2>3
  <2> QED
    BY ONLY <1>6, <2>2, <2>3, <2>4
<1>13. /\ f \in Seq(Byte) /\ Len(f) = 7 + l
       /\ \A k \in 1..7 : f[k] = e[k]
       /\ \A k \in 1..l : f[7 + k] = p[k]
  <2>1. PICK m \in Nat : m = Len(e)
    BY ONLY <1>12
  <2>2. /\ f \in Seq(Byte) /\ Len(f) = m + l
        /\ \A k \in 1..m : f[k] = e[k]
        /\ \A k \in 1..l : f[m + k] = p[k]
    <3>1. f = e \o p /\ e \in Seq(Byte) /\ p \in Seq(Byte) /\ m = Len(e) /\ l = Len(p) /\ l \in Nat
      BY ONLY <1>1, <1>2, <1>9, <1>12, <2>1
    <3> QED
      BY ONLY <3>1, m \in Nat, Concatenated
  <2> QED
    BY ONLY <1>12, <2>1, <2>2
<1>14. SubSeq(f, 8, Len(f)) = p
  <2>1. PICK h \in Nat : h = 7
    OBVIOUS
  <2>2. Len(f) = h + Len(p) /\ \A k \in 1..Len(p) : f[h + k] = p[k]
    BY ONLY <1>1, <1>13, <2>1
  <2>3. SubSeq(f, h + 1, Len(f)) = p
    BY ONLY <1>2, <1>13, <2>2, h \in Nat, TailIs
  <2> QED
    BY ONLY <2>1, <2>3
<1>15. /\ f[1] = a[1] /\ f[2] = a[2] /\ f[3] = a[3] /\ f[4] = a[4]
       /\ f[5] = s[1] /\ f[6] = s[2] /\ f[7] = unit
  <2>1. f[1] = e[1] /\ f[2] = e[2] /\ f[3] = e[3] /\ f[4] = e[4] /\ f[5] = e[5] /\ f[6] = e[6] /\ f[7] = e[7]
    BY ONLY <1>13
  <2>2. e[1] = c[1] /\ e[2] = c[2] /\ e[3] = c[3] /\ e[4] = c[4] /\ e[5] = c[5] /\ e[6] = c[6] /\ e[7] = unit
    BY ONLY <1>12
  <2>3. c[1] = a[1] /\ c[2] = a[2] /\ c[3] = a[3] /\ c[4] = a[4] /\ c[5] = s[1] /\ c[6] = s[2]
    BY ONLY <1>11
  <2> QED
    BY ONLY <2>1, <2>2, <2>3
<1>16. High(f[5], f[6]) = Len(p) + 1
  BY ONLY <1>1, <1>3, <1>4, <1>5, <1>15
<1> QED
  BY ONLY <1>1, <1>2, <1>8, <1>10, <1>13, <1>14, <1>15, <1>16 DEF TcpFramed

\* p is in f, o bytes from its beginning.
Holds(f, o, p) ==
  /\ f \in Seq(Byte) /\ p \in Seq(Byte) /\ o + Len(p) <= Len(f)
  /\ \A k \in Nat : k < Len(p) => At(f, o + k) = p[k + 1]

\* Where the PDU is in a frame, by mb_data_decap's offset.
LEMMA TcpHolds ==
  ASSUME NEW f, NEW p, NEW t, TcpFramed(f, p, t)
  PROVE  Holds(f, 7, p)
<1>1. /\ f \in Seq(Byte) /\ p \in Seq(Byte) /\ Len(f) = 7 + Len(p)
      /\ SubSeq(f, 8, Len(f)) = p
  BY DEF TcpFramed
<1>2. PICK n \in Nat : n = Len(p)
  <2>1. Len(p) \in Nat
    BY ONLY <1>1
  <2> QED
    BY ONLY <2>1
<1>3. ASSUME NEW k \in Nat, k < n
      PROVE  At(f, 7 + k) = p[k + 1]
  <2>1. 7 + k < Len(f) /\ k + 1 \in 1..n /\ (7 + k) + 1 = 8 + k /\ 7 + n = Len(f)
    BY ONLY <1>1, <1>2, <1>3
  <2>2. At(f, 7 + k) = f[8 + k]
    BY ONLY <2>1 DEF At
  <2>3. SubSeq(f, 8, 7 + n)[k + 1] = f[8 + k]
    BY ONLY <1>1, <1>2, <2>1, k \in Nat
  <2> QED
    BY ONLY <1>1, <2>1, <2>2, <2>3
<1>4. 7 + n <= Len(f)
  BY ONLY <1>1, <1>2
<1> QED
  BY ONLY <1>1, <1>2, <1>3, <1>4 DEF Holds

LEMMA RtuHolds ==
  ASSUME NEW a \in Byte, NEW p \in Seq(Byte)
  PROVE  Holds(RtuFramed(a, p), 1, p)
<1>1. PICK f, n : f = RtuFramed(a, p) /\ n = Len(p)
  OBVIOUS
<1>2. f \in Seq(Byte) /\ Len(f) = 3 + n /\ n \in Nat /\ \A k \in 1..n : f[1 + k] = p[k]
  <2>1. n \in Nat
    BY <1>1
  <2>2. /\ RtuFramed(a, p) \in Seq(Byte) /\ Len(RtuFramed(a, p)) = 3 + Len(p)
        /\ \A k \in 1..Len(p) : RtuFramed(a, p)[1 + k] = p[k]
    BY ONLY a \in Byte, p \in Seq(Byte), RtuFramedIs
  <2> QED
    BY ONLY <1>1, <2>1, <2>2
<1>3. ASSUME NEW k \in Nat, k < n
      PROVE  At(f, 1 + k) = p[k + 1]
  <2>1. 1 + k < Len(f) /\ k + 1 \in 1..n /\ (1 + k) + 1 = 1 + (k + 1)
    BY ONLY <1>2, <1>3
  <2>2. At(f, 1 + k) = f[1 + (k + 1)]
    BY ONLY <2>1 DEF At
  <2> QED
    BY ONLY <1>2, <2>1, <2>2
<1>4. 1 + n <= Len(f)
  BY ONLY <1>2
<1> QED
  BY ONLY <1>1, <1>2, <1>3, <1>4, p \in Seq(Byte) DEF Holds
-----------------------------------------------------------------------------
(* A whole reply, decoded.                                                 *)

LEMMA HoldsAt ==
  ASSUME NEW f, NEW o \in Nat, NEW p, Holds(f, o, p), NEW k \in Nat, k < Len(p)
  PROVE  At(f, o + k) = p[k + 1] /\ o + k + 1 <= Len(f) /\ p[k + 1] \in Byte
<1>1. f \in Seq(Byte) /\ p \in Seq(Byte) /\ o + Len(p) <= Len(f) /\ At(f, o + k) = p[k + 1]
  BY DEF Holds
<1>2. PICK l, n : l = Len(p) /\ n = Len(f)
  OBVIOUS
<1>3. l \in Nat /\ n \in Nat
  BY ONLY <1>1, <1>2
<1>4. o + k + 1 <= n /\ k + 1 \in 1..l
  BY ONLY <1>1, <1>2, <1>3, o \in Nat, k \in Nat, k < Len(p)
<1>5. p[k + 1] \in Byte
  BY ONLY <1>1, <1>2, <1>4
<1> QED
  BY ONLY <1>1, <1>2, <1>4, <1>5

\* The code that is read is the reply's.
LEMMA CodeGot ==
  ASSUME mine \in MBInfo, NEW f, NEW o \in Nat, NEW p, Holds(f, o, p), 1 <= Len(p)
  PROVE  /\ GetByte(f, Rec(mine, o), "code") = Rec(PutCode(mine, p[1]), o + 1)
         /\ PutCode(mine, p[1]) \in MBInfo /\ f \in Seq(Byte)
<1>1. f \in Seq(Byte) /\ p \in Seq(Byte)
  BY DEF Holds
<1>2. 0 < Len(p)
  BY <1>1
<1>3. At(f, o + 0) = p[0 + 1] /\ o + 0 + 1 <= Len(f) /\ p[0 + 1] \in Byte
  BY ONLY <1>2, o \in Nat, Holds(f, o, p), HoldsAt
<1>4. At(f, o) = p[1] /\ o + 1 <= Len(f) /\ p[1] \in Byte
  BY ONLY <1>3, o \in Nat
<1> QED
  <2>1. PICK b : b = p[1]
    OBVIOUS
  <2>2. b \in Byte /\ At(f, o) = b /\ o + 1 <= Len(f)
    BY ONLY <1>4, <2>1
  <2>3. PutCode(mine, b) \in MBInfo
    BY ONLY <2>2, mine \in MBInfo, PutType
  <2>4. GetByte(f, Rec(mine, o), "code") = Rec(PutCode(mine, At(f, o)), o + 1)
    BY ONLY <2>2, mine \in MBInfo, o \in Nat, GetByteIs
  <2> QED
    BY ONLY <1>1, <2>1, <2>2, <2>3, <2>4

\* An exception's code comes back as err.
LEMMA RefusedGot ==
  ASSUME mine \in MBInfo, mine.code \in GoodCode, NEW f, NEW o \in Nat, NEW p, Holds(f, o, p), Refused(p)
  PROVE  \E x \in MBInfo : /\ Decap(f, Rec(mine, o)) = Rec(x, o + Len(p))
                           /\ x.code = p[1] /\ x.err = p[2] /\ p[1] > 128
<1>1. Len(p) = 2 /\ p[1] = mine.code + 128
  BY DEF Refused
<1>0. 1 <= Len(p)
  BY ONLY <1>1
<1>2. PICK y \in MBInfo : y = PutCode(mine, p[1])
  BY ONLY <1>0, mine \in MBInfo, o \in Nat, Holds(f, o, p), CodeGot
<1>3. GetByte(f, Rec(mine, o), "code") = Rec(y, o + 1)
  BY ONLY <1>0, <1>2, mine \in MBInfo, o \in Nat, Holds(f, o, p), CodeGot
<1>4. y.code = p[1]
  BY ONLY <1>2, mine \in MBInfo, PutCodeIs
<1>5. p[1] > 128
  BY <1>1, GoodByte
<1>6. At(f, o + 1) = p[2] /\ (o + 1) + 1 <= Len(f) /\ p[2] \in Byte
  <2>1. 1 < Len(p)
    BY ONLY <1>1
  <2>2. At(f, o + 1) = p[1 + 1] /\ o + 1 + 1 <= Len(f) /\ p[1 + 1] \in Byte
    BY ONLY <2>1, o \in Nat, Holds(f, o, p), HoldsAt
  <2> QED
    BY ONLY <2>2, o \in Nat
<1>7. GetByte(f, Rec(y, o + 1), "err") = Rec(PutErr(y, p[2]), (o + 1) + 1)
  <2>1. o + 1 \in Nat
    OBVIOUS
  <2>2. PICK q \in Nat : q = o + 1
    BY ONLY <2>1
  <2>3. GetByte(f, Rec(y, q), "err") = Rec(PutErr(y, At(f, q)), q + 1)
    BY ONLY <1>6, <2>2, y \in MBInfo, q \in Nat, GetByteIs
  <2> QED
    BY ONLY <1>6, <2>2, <2>3
<1>8. PutErr(y, p[2]).code = y.code /\ PutErr(y, p[2]).err = p[2] /\ PutErr(y, p[2]) \in MBInfo
  BY <1>6, PutErrIs, PutType
<1>9. Decap(f, Rec(mine, o)) = GetByte(f, Rec(y, o + 1), "err")
  <2>1. Rec(y, o + 1).x = y
    BY DEF Rec
  <2> QED
    BY ONLY <1>3, <1>4, <1>5, <2>1 DEF Decap
<1>10. (o + 1) + 1 = o + Len(p)
  BY ONLY <1>1, o \in Nat
<1> QED
  BY ONLY <1>4, <1>5, <1>7, <1>8, <1>9, <1>10

\* What was read comes back in the value's first bytes; the others stay.
LEMMA ReadGot ==
  ASSUME mine \in MBInfo, mine.code \in GoodCode, NEW f, NEW o \in Nat, NEW p, Holds(f, o, p), Read(p)
  PROVE  \E x \in MBInfo : /\ Decap(f, Rec(mine, o)) = Rec(x, o + Len(p))
                           /\ x.code = p[1] /\ x.n_byte = p[2]
                           /\ \A k \in ValIndex : x.value[k] = IF k < p[2] THEN p[k + 3] ELSE mine.value[k]
<1>1. /\ mine.code \in 1..4 /\ p[1] = mine.code /\ 2 <= Len(p) /\ Len(p) = 2 + p[2] /\ p[2] < CountMod
      /\ mine.code \in {3, 4} => p[2] % 2 = 0
  BY DEF Read
<1>0. p \in Seq(Byte) /\ f \in Seq(Byte) /\ o + Len(p) <= Len(f)
  BY DEF Holds
<1>2. PICK y \in MBInfo : y = PutCode(mine, p[1])
  <2>1. 1 <= Len(p)
    BY <1>0, <1>1
  <2> QED
    BY <2>1, CodeGot
<1>3. GetByte(f, Rec(mine, o), "code") = Rec(y, o + 1)
  <2>1. 1 <= Len(p)
    BY <1>0, <1>1
  <2> QED
    BY <1>2, <2>1, CodeGot
<1>4. y.code = p[1] /\ y.value = mine.value
  BY ONLY <1>2, mine \in MBInfo, PutCodeIs
<1>5. PICK c, l : c = p[2] /\ l = Len(p)
  OBVIOUS
<1>6. At(f, o + 1) = c /\ (o + 1) + 1 <= Len(f) /\ c \in Byte
  <2>1. 1 < Len(p)
    BY <1>0, <1>1
  <2>2. At(f, o + 1) = p[1 + 1] /\ o + 1 + 1 <= Len(f) /\ p[1 + 1] \in Byte
    BY ONLY <2>1, o \in Nat, Holds(f, o, p), HoldsAt
  <2> QED
    BY ONLY <1>5, <2>2, o \in Nat
<1>7. c \in Nat /\ c < CountMod /\ l = 2 + c /\ l \in Nat
  BY ONLY <1>0, <1>1, <1>5, <1>6, ByteIs
<1>8. PICK z \in MBInfo : /\ GetCount(f, Rec(y, o + 1)) = Rec(z, o + 2)
                          /\ z.code = y.code /\ z.n_byte = c /\ z.value = y.value
  <2>1. PICK q \in Nat : q = o + 1
    BY ONLY o \in Nat
  <2>2. PICK b \in 0..(CountMod - 1), r \in {q, q + 1} :
           /\ GetCount(f, Rec(y, q)) = Rec(PutBytes(y, b), r)
           /\ q + 1 <= Len(f) => b = At(f, q) % CountMod /\ r = q + 1
    <3>1. f \in Seq(Byte)
      BY ONLY <1>0
    <3> QED
      BY ONLY <3>1, y \in MBInfo, q \in Nat, GetCountIs
  <2>3. b = c % CountMod /\ r = q + 1
    BY ONLY <1>6, <2>1, <2>2
  <2>4. b = c
    <3>1. CountMod \in Nat \ {0}
      BY MbCodecAssumption
    <3>2. c % CountMod = c
      BY ONLY <1>7, <3>1, ModBound
    <3> QED
      BY ONLY <2>3, <3>2
  <2>5. r = o + 2
    BY ONLY <2>1, <2>3, o \in Nat
  <2>6. PutBytes(y, c) \in MBInfo
    BY ONLY <2>2, <2>4, y \in MBInfo, PutType
  <2>7. PutBytes(y, c).code = y.code /\ PutBytes(y, c).n_byte = c /\ PutBytes(y, c).value = y.value
    BY ONLY y \in MBInfo, PutBytesIs
  <2> QED
    BY ONLY <2>1, <2>2, <2>4, <2>5, <2>6, <2>7
<1>9. PICK q \in Nat : q = o + 2
  BY ONLY o \in Nat
<1>10. q + c <= Len(f) /\ q + c = o + l
  BY ONLY <1>0, <1>5, <1>7, <1>9, o \in Nat
<1>11. ASSUME NEW n \in {1, 2}, n = 1 \/ c % 2 = 0
       PROVE  GetValues(f, Rec(z, q), c, n) = Rec(Taken(z, f, q, c), q + c)
  <2>1. TakenUpTo(f, z, q, c, n)
    BY ONLY <1>0, <1>7, z \in MBInfo, q \in Nat, n \in {1, 2}, GetValuesIs
  <2> QED
    BY ONLY <1>10, <1>11, <2>1 DEF TakenUpTo
<1>12. Decap(f, Rec(mine, o)) = Rec(Taken(z, f, q, c), q + c)
  <2>1. Rec(y, o + 1).x = y /\ Rec(z, q).x = z
    BY DEF Rec
  <2>2. y.code \in 1..4 /\ ~(y.code > 128)
    BY ONLY <1>1, <1>4
  <2>3. CASE y.code \in {1, 2}
    <3>1. y.code \notin {3, 4} /\ y.code \notin {5, 6} /\ y.code \notin {15, 16}
      BY ONLY <2>3
    <3>2. Decap(f, Rec(mine, o)) = GetValues(f, Rec(z, q), c, 1)
      BY ONLY <1>3, <1>8, <1>9, <2>1, <2>2, <2>3, <3>1 DEF Decap
    <3> QED
      BY ONLY <1>11, <3>2
  <2>4. CASE y.code \in {3, 4}
    <3>1. y.code \notin {1, 2} /\ y.code \notin {5, 6} /\ y.code \notin {15, 16}
      BY ONLY <2>4
    <3>2. Decap(f, Rec(mine, o)) = GetValues(f, Rec(z, q), c, 2)
      BY ONLY <1>3, <1>8, <1>9, <2>1, <2>2, <2>4, <3>1 DEF Decap
    <3>3. c % 2 = 0
      BY ONLY <1>1, <1>4, <1>5, <2>4
    <3> QED
      BY ONLY <1>11, <3>2, <3>3
  <2> QED
    BY ONLY <2>2, <2>3, <2>4
<1>13. PICK x \in MBInfo : x = Taken(z, f, q, c)
  BY <1>0, <1>7, TakenType
<1>14. x.code = p[1] /\ x.n_byte = p[2] /\ x.value = FirstOf(z, f, q, c)
  BY ONLY <1>4, <1>5, <1>8, <1>13, z \in MBInfo, PutValueIs DEF Taken
<1>15. ASSUME NEW k \in ValIndex
       PROVE  x.value[k] = IF k < p[2] THEN p[k + 3] ELSE mine.value[k]
  <2>1. k \in Nat
    BY MbCodecAssumption DEF ValIndex
  <2>2. x.value[k] = IF k < c THEN At(f, q + k) ELSE mine.value[k]
    BY ONLY <1>4, <1>8, <1>14, k \in ValIndex DEF FirstOf
  <2>3. ASSUME k < c
        PROVE  At(f, q + k) = p[k + 3]
    <3>1. PICK j \in Nat : j = k + 2
      BY ONLY <2>1
    <3>2. j < Len(p) /\ q + k = o + j /\ j + 1 = k + 3
      BY ONLY <1>5, <1>7, <1>9, <2>1, <2>3, <3>1, o \in Nat
    <3>3. At(f, o + j) = p[j + 1]
      BY ONLY <3>2, o \in Nat, j \in Nat, Holds(f, o, p), HoldsAt
    <3> QED
      BY ONLY <3>2, <3>3
  <2> QED
    BY ONLY <1>5, <2>2, <2>3
<1> QED
  BY ONLY <1>5, <1>10, <1>12, <1>13, <1>14, <1>15

\* A word comes back as the slave meant it.
LEMMA WordGot ==
  ASSUME HostOK, NEW f \in Seq(Byte), NEW x \in MBInfo, NEW o \in Nat, NEW w \in Word, o + 2 <= Len(f),
         At(f, o) = w \div 256, At(f, o + 1) = w % 256
  PROVE  /\ GetNetWord(f, Rec(x, o), "reg") = Rec(PutReg(x, w), o + 2)
         /\ GetNetWord(f, Rec(x, o), "n_reg") = Rec(PutCount(x, w), o + 2)
<1>1. PICK a, b : a = At(f, o) /\ b = At(f, o + 1)
  OBVIOUS
<1>2. Pair(w, a, b)
  BY <1>1, WordTaken
<1>3. NetWord(WordAt(f, o)) = w
  <2>1. NetWord(Loaded(a, b)) = w
    BY ONLY HostOK, <1>2, Converted
  <2> QED
    BY ONLY <1>1, <2>1 DEF WordAt
<1>4. PICK u \in Word, p \in {o, o + 2} :
              /\ GetNetWord(f, Rec(x, o), "reg") = Rec(PutReg(x, u), p)
              /\ o + 2 <= Len(f) => u = NetWord(WordAt(f, o)) /\ p = o + 2
  BY ONLY HostOK, f \in Seq(Byte), x \in MBInfo, o \in Nat, GetNetWordIs
<1>5. PICK v \in Word, q \in {o, o + 2} :
              /\ GetNetWord(f, Rec(x, o), "n_reg") = Rec(PutCount(x, v), q)
              /\ o + 2 <= Len(f) => v = NetWord(WordAt(f, o)) /\ q = o + 2
  BY ONLY HostOK, f \in Seq(Byte), x \in MBInfo, o \in Nat, GetNetWordIs
<1> QED
  BY ONLY <1>3, <1>4, <1>5, o + 2 <= Len(f)

\* The register number that comes back.
LEMMA RegisterGot ==
  ASSUME HostOK, mine \in MBInfo, NEW f, NEW o \in Nat, NEW p, Holds(f, o, p), Repeated(p)
  PROVE  /\ f \in Seq(Byte) /\ o + 5 <= Len(f) /\ PutCode(mine, p[1]) \in MBInfo
         /\ GetByte(f, Rec(mine, o), "code") = Rec(PutCode(mine, p[1]), o + 1)
         /\ GetNetWord(f, Rec(PutCode(mine, p[1]), o + 1), "reg")
              = Rec(PutReg(PutCode(mine, p[1]), mine.reg), o + 3)
<1>1. Len(p) = 5 /\ p[2] = mine.reg \div 256 /\ p[3] = mine.reg % 256
  BY DEF Repeated
<1>2. 1 <= Len(p) /\ 1 < Len(p) /\ 2 < Len(p)
  BY ONLY <1>1
<1>3. PICK y : y = PutCode(mine, p[1])
  OBVIOUS
<1>4. y \in MBInfo /\ f \in Seq(Byte) /\ GetByte(f, Rec(mine, o), "code") = Rec(y, o + 1)
  BY ONLY <1>2, <1>3, mine \in MBInfo, o \in Nat, Holds(f, o, p), CodeGot
<1>5. o + 5 <= Len(f)
  BY <1>1 DEF Holds
<1>6. At(f, o + 1) = p[2] /\ At(f, o + 2) = p[3]
  <2>1. At(f, o + 1) = p[1 + 1] /\ At(f, o + 2) = p[2 + 1]
    BY ONLY <1>2, o \in Nat, Holds(f, o, p), HoldsAt
  <2> QED
    BY ONLY <2>1
<1>7. PICK q \in Nat : q = o + 1
  BY ONLY o \in Nat
<1>8. q + 2 <= Len(f) /\ q + 1 = o + 2 /\ q + 2 = o + 3
  BY ONLY <1>4, <1>5, <1>7, o \in Nat
<1>9. PICK w \in Word : w = mine.reg
  BY InfoType
<1>10. At(f, q) = w \div 256 /\ At(f, q + 1) = w % 256
  BY ONLY <1>1, <1>6, <1>7, <1>8, <1>9
<1>11. GetNetWord(f, Rec(y, q), "reg") = Rec(PutReg(y, w), q + 2)
  BY ONLY HostOK, <1>4, <1>8, <1>10, q \in Nat, w \in Word, WordGot
<1> QED
  BY ONLY <1>3, <1>4, <1>5, <1>7, <1>8, <1>9, <1>11

\* A single write's reply comes back.
LEMMA WrittenGot ==
  ASSUME HostOK, mine \in MBInfo, NEW f, NEW o \in Nat, NEW p, Holds(f, o, p), Written(p)
  PROVE  \E x \in MBInfo : /\ Decap(f, Rec(mine, o)) = Rec(x, o + Len(p))
                           /\ x.reg = mine.reg /\ x.value[0] = p[4] /\ x.value[1] = p[5]
<1>1. mine.code \in {5, 6} /\ Repeated(p) /\ Len(p) = 5 /\ p[1] = mine.code
  BY DEF Written, Repeated
<1>2. PICK y : y = PutCode(mine, p[1])
  OBVIOUS
<1>3. /\ f \in Seq(Byte) /\ o + 5 <= Len(f) /\ y \in MBInfo
      /\ GetByte(f, Rec(mine, o), "code") = Rec(y, o + 1)
      /\ GetNetWord(f, Rec(y, o + 1), "reg") = Rec(PutReg(y, mine.reg), o + 3)
  BY ONLY <1>1, <1>2, HostOK, mine \in MBInfo, o \in Nat, Holds(f, o, p), RegisterGot
<1>4. PICK z \in MBInfo : z = PutReg(y, mine.reg)
  BY <1>3, InfoType, PutType
<1>5. y.code = mine.code /\ z.reg = mine.reg
  BY ONLY <1>1, <1>2, <1>3, <1>4, mine \in MBInfo, PutCodeIs, PutRegIs
<1>6. PICK q \in Nat : q = o + 3
  BY ONLY o \in Nat
<1>7. q + 2 <= Len(f) /\ q + 2 = o + 5
  BY ONLY <1>3, <1>6, o \in Nat
<1>8. GetValues(f, Rec(z, q), 2, 1) = Rec(Taken(z, f, q, 2), q + 2)
  <2>1. PICK c \in Nat, n \in {1, 2} : c = 2 /\ n = 1
    OBVIOUS
  <2>2. TakenUpTo(f, z, q, c, n)
    BY ONLY <1>3, z \in MBInfo, q \in Nat, c \in Nat, n \in {1, 2}, GetValuesIs
  <2> QED
    BY ONLY <1>7, <2>1, <2>2 DEF TakenUpTo
<1>9. Decap(f, Rec(mine, o)) = GetValues(f, Rec(z, q), 2, 1)
  <2>1. Rec(y, o + 1).x = y
    BY DEF Rec
  <2>2. /\ ~(y.code > 128) /\ y.code \in {5, 6} /\ y.code \notin {1, 2} /\ y.code \notin {3, 4}
        /\ y.code \notin {15, 16}
    BY ONLY <1>1, <1>5
  <2> QED
    BY ONLY <1>3, <1>4, <1>6, <2>1, <2>2 DEF Decap
<1>10. PICK x \in MBInfo : x = Taken(z, f, q, 2)
  <2>1. 2 \in Nat
    OBVIOUS
  <2> QED
    BY <1>3, <2>1, TakenType
<1>11. x.reg = mine.reg /\ x.value = FirstOf(z, f, q, 2)
  BY ONLY <1>5, <1>10, z \in MBInfo, PutValueIs DEF Taken
<1>12. x.value[0] = p[4] /\ x.value[1] = p[5]
  <2>1. 0 \in ValIndex /\ 1 \in ValIndex /\ 0 < 2 /\ 1 < 2
    BY MbCodecAssumption DEF ValIndex
  <2>2. x.value[0] = At(f, q + 0) /\ x.value[1] = At(f, q + 1)
    BY ONLY <1>11, <2>1 DEF FirstOf
  <2>3. 3 < Len(p) /\ 4 < Len(p)
    BY ONLY <1>1
  <2>4. At(f, o + 3) = p[3 + 1] /\ At(f, o + 4) = p[4 + 1]
    BY ONLY <2>3, o \in Nat, Holds(f, o, p), HoldsAt
  <2>5. q + 0 = o + 3 /\ q + 1 = o + 4
    BY ONLY <1>6, o \in Nat
  <2> QED
    BY ONLY <2>2, <2>4, <2>5
<1> QED
  BY ONLY <1>1, <1>7, <1>8, <1>9, <1>10, <1>11, <1>12

\* So does a multiple write's.
LEMMA StatedGot ==
  ASSUME HostOK, mine \in MBInfo, NEW f, NEW o \in Nat, NEW p, Holds(f, o, p), Stated(p)
  PROVE  \E x \in MBInfo : /\ Decap(f, Rec(mine, o)) = Rec(x, o + Len(p))
                           /\ x.reg = mine.reg /\ x.n_reg = mine.n_reg
<1>1. /\ mine.code \in {15, 16} /\ Repeated(p) /\ Len(p) = 5 /\ p[1] = mine.code
      /\ p[4] = mine.n_reg \div 256 /\ p[5] = mine.n_reg % 256
  BY DEF Stated, Repeated
<1>2. PICK y : y = PutCode(mine, p[1])
  OBVIOUS
<1>3. /\ f \in Seq(Byte) /\ o + 5 <= Len(f) /\ y \in MBInfo
      /\ GetByte(f, Rec(mine, o), "code") = Rec(y, o + 1)
      /\ GetNetWord(f, Rec(y, o + 1), "reg") = Rec(PutReg(y, mine.reg), o + 3)
  BY ONLY <1>1, <1>2, HostOK, mine \in MBInfo, o \in Nat, Holds(f, o, p), RegisterGot
<1>4. PICK z \in MBInfo : z = PutReg(y, mine.reg)
  BY <1>3, InfoType, PutType
<1>5. y.code = mine.code /\ z.reg = mine.reg
  BY ONLY <1>1, <1>2, <1>3, <1>4, mine \in MBInfo, PutCodeIs, PutRegIs
<1>6. PICK q \in Nat : q = o + 3
  BY ONLY o \in Nat
<1>7. q + 2 <= Len(f) /\ q + 2 = o + 5 /\ q + 1 = o + 4
  BY ONLY <1>3, <1>6, o \in Nat
<1>8. At(f, q) = p[4] /\ At(f, q + 1) = p[5]
  <2>1. 3 < Len(p) /\ 4 < Len(p)
    BY ONLY <1>1
  <2>2. At(f, o + 3) = p[3 + 1] /\ At(f, o + 4) = p[4 + 1]
    BY ONLY <2>1, o \in Nat, Holds(f, o, p), HoldsAt
  <2> QED
    BY ONLY <1>6, <1>7, <2>2
<1>9. PICK w \in Word : w = mine.n_reg
  BY InfoType
<1>10. GetNetWord(f, Rec(z, q), "n_reg") = Rec(PutCount(z, w), q + 2)
  <2>1. At(f, q) = w \div 256 /\ At(f, q + 1) = w % 256
    BY ONLY <1>1, <1>8, <1>9
  <2> QED
    BY ONLY HostOK, <1>3, <1>7, <2>1, z \in MBInfo, q \in Nat, w \in Word, WordGot
<1>11. Decap(f, Rec(mine, o)) = GetNetWord(f, Rec(z, q), "n_reg")
  <2>1. Rec(y, o + 1).x = y
    BY DEF Rec
  <2>2. /\ ~(y.code > 128) /\ y.code \in {15, 16} /\ y.code \notin {1, 2} /\ y.code \notin {3, 4}
        /\ y.code \notin {5, 6}
    BY ONLY <1>1, <1>5
  <2> QED
    BY ONLY <1>3, <1>4, <1>6, <2>1, <2>2 DEF Decap
<1>12. /\ PutCount(z, w) \in MBInfo /\ PutCount(z, w).reg = mine.reg
       /\ PutCount(z, w).n_reg = mine.n_reg
  BY <1>5, <1>9, PutType, PutCountIs
<1> QED
  BY ONLY <1>1, <1>7, <1>10, <1>11, <1>12

\* What the record holds after a whole reply, as WholeReplyIsTaken says it.
Conveyed(x, pdu) ==
  CASE pdu[1] > 128 -> x.code = pdu[1] /\ x.err = pdu[2]
    [] pdu[1] \in 1..4 ->
         /\ x.n_byte = pdu[2]
         /\ \A k \in ValIndex :
              x.value[k] = IF k < pdu[2] THEN pdu[k + 3] ELSE mine.value[k]
    [] pdu[1] \in {5, 6} ->
         <<x.reg, x.value[0], x.value[1]>> = <<mine.reg, pdu[4], pdu[5]>>
    [] OTHER -> <<x.reg, x.n_reg>> = <<mine.reg, mine.n_reg>>

\* A whole reply is decoded to its end and comes back as the slave gave it.
LEMMA WholeGot ==
  ASSUME HostOK, mine \in MBInfo, NEW f, NEW o \in Nat, NEW p, Holds(f, o, p), ReplyPdu(p)
  PROVE  \E x \in MBInfo : Decap(f, Rec(mine, o)) = Rec(x, o + Len(p)) /\ Conveyed(x, p)
<1>1. mine.code \in GoodCode
  BY DEF ReplyPdu
<1>2. CASE Refused(p)
  <2>1. PICK x \in MBInfo : /\ Decap(f, Rec(mine, o)) = Rec(x, o + Len(p))
                            /\ x.code = p[1] /\ x.err = p[2] /\ p[1] > 128
    BY <1>1, <1>2, RefusedGot
  <2>2. p[1] = mine.code + 128
    BY ONLY <1>2 DEF Refused
  <2>3. p[1] \notin 1..4 /\ p[1] \notin {5, 6}
    BY <1>1, <2>2, GoodByte
  <2>4. Conveyed(x, p)
    BY ONLY <2>1, <2>3 DEF Conveyed
  <2> QED
    BY ONLY <2>1, <2>4, x \in MBInfo
<1>3. CASE Read(p)
  <2>1. PICK x \in MBInfo : /\ Decap(f, Rec(mine, o)) = Rec(x, o + Len(p))
                            /\ x.code = p[1] /\ x.n_byte = p[2]
                            /\ \A k \in ValIndex : x.value[k] = IF k < p[2] THEN p[k + 3] ELSE mine.value[k]
    BY <1>1, <1>3, ReadGot
  <2>2. mine.code \in 1..4 /\ p[1] = mine.code
    BY ONLY <1>3 DEF Read
  <2>3. p[1] \in 1..4 /\ ~(p[1] > 128) /\ p[1] \notin {5, 6}
    BY ONLY <2>2
  <2>4. Conveyed(x, p)
    BY ONLY <2>1, <2>3 DEF Conveyed
  <2> QED
    BY ONLY <2>1, <2>4, x \in MBInfo
<1>4. CASE Written(p)
  <2>1. PICK x \in MBInfo : /\ Decap(f, Rec(mine, o)) = Rec(x, o + Len(p))
                            /\ x.reg = mine.reg /\ x.value[0] = p[4] /\ x.value[1] = p[5]
    BY <1>4, WrittenGot
  <2>2. mine.code \in {5, 6} /\ p[1] = mine.code
    BY ONLY <1>4 DEF Written, Repeated
  <2>3. p[1] \in {5, 6} /\ ~(p[1] > 128) /\ p[1] \notin 1..4
    BY ONLY <2>2
  <2>4. Conveyed(x, p)
    BY ONLY <2>1, <2>3 DEF Conveyed
  <2> QED
    BY ONLY <2>1, <2>4, x \in MBInfo
<1>5. CASE Stated(p)
  <2>1. PICK x \in MBInfo : /\ Decap(f, Rec(mine, o)) = Rec(x, o + Len(p))
                            /\ x.reg = mine.reg /\ x.n_reg = mine.n_reg
    BY <1>5, StatedGot
  <2>2. mine.code \in {15, 16} /\ p[1] = mine.code
    BY ONLY <1>5 DEF Stated, Repeated
  <2>3. p[1] \notin {5, 6} /\ ~(p[1] > 128) /\ p[1] \notin 1..4
    BY ONLY <2>2
  <2>4. Conveyed(x, p)
    BY ONLY <2>1, <2>3 DEF Conveyed
  <2> QED
    BY ONLY <2>1, <2>4, x \in MBInfo
<1> QED
  BY <1>2, <1>3, <1>4, <1>5 DEF ReplyPdu
-----------------------------------------------------------------------------
(* A reply cut short, decoded.                                             *)

\* What CutMixesOnlyOwn says of the record, f being the whole reply.
Mixed(x, f) ==
  LET data == SubSeq(f, 10, Len(f))
  IN /\ x.code \in {mine.code, mine.code + 128}
     /\ \E have \in 0..Len(data) : \A k \in ValIndex :
          x.value[k] = IF k < have THEN data[k + 1] ELSE mine.value[k]

\* Where no byte of the value has come, the value is the caller's.
LEMMA MixedNothing ==
  ASSUME NEW f \in Seq(Byte), NEW x, x.code \in {mine.code, mine.code + 128}, x.value = mine.value
  PROVE  Mixed(x, f)
<1>1. PICK data : data = SubSeq(f, 10, Len(f))
  OBVIOUS
<1>2. 0 \in 0..Len(data)
  <2>1. Len(data) \in Nat
    BY <1>1
  <2> QED
    BY ONLY <2>1
<1>3. \A k \in ValIndex : ~(k < 0)
  BY DEF ValIndex
<1>4. \A k \in ValIndex : x.value[k] = IF k < 0 THEN data[k + 1] ELSE mine.value[k]
  BY ONLY <1>3, x.value = mine.value
<1> QED
  BY ONLY <1>1, <1>2, <1>4, x.code \in {mine.code, mine.code + 128} DEF Mixed

\* The code is the reply's, or still the request's.
LEMMA CutCode ==
  ASSUME mine \in MBInfo, mine.code \in GoodCode, NEW f, NEW p, Holds(f, 7, p), 1 <= Len(p),
         p[1] \in {mine.code, mine.code + 128},
         NEW g \in Seq(Byte), NEW m \in 0..Len(f), g = SubSeq(f, 1, m)
  PROVE  \E y \in MBInfo, q \in Nat :
           /\ GetByte(g, Rec(mine, 7), "code") = Rec(y, q)
           /\ y.value = mine.value /\ y.code \in {mine.code, mine.code + 128}
           /\ q = 8 \/ (q = 7 /\ m < 8)
<1>1. f \in Seq(Byte) /\ p \in Seq(Byte) /\ Len(g) = m /\ \A k \in 1..m : g[k] = f[k]
  <2>1. f \in Seq(Byte) /\ p \in Seq(Byte)
    BY DEF Holds
  <2> QED
    BY ONLY <2>1, m \in 0..Len(f), g = SubSeq(f, 1, m), CutLength
<1>2. m \in Nat
  BY <1>1
<1>3. PICK o \in Nat : o = 7
  OBVIOUS
<1>4. CASE 8 <= m
  <2>1. At(g, o) = p[1]
    <3>1. 0 < Len(p)
      BY <1>1
    <3>2. At(f, o + 0) = p[0 + 1] /\ o + 0 + 1 <= Len(f) /\ p[0 + 1] \in Byte
      <4>1. Holds(f, o, p)
        BY <1>3
      <4> QED
        BY ONLY <3>1, <4>1, o \in Nat, HoldsAt
    <3>3. o < Len(g) /\ o < Len(f) /\ o + 1 \in 1..m /\ o + 0 = o
      BY ONLY <1>1, <1>2, <1>3, <1>4, m \in 0..Len(f)
    <3>4. At(g, o) = g[o + 1] /\ At(f, o) = f[o + 1]
      BY ONLY <3>3 DEF At
    <3>5. g[o + 1] = f[o + 1]
      BY ONLY <1>1, <3>3
    <3> QED
      BY ONLY <3>2, <3>3, <3>4, <3>5
  <2>2. p[1] \in Byte
    BY GoodByte
  <2>3. PICK y : y = PutCode(mine, p[1])
    OBVIOUS
  <2>4. y \in MBInfo
    BY ONLY <2>2, <2>3, mine \in MBInfo, PutType
  <2>5. GetByte(g, Rec(mine, o), "code") = Rec(y, o + 1)
    <3>1. o + 1 <= Len(g)
      BY ONLY <1>1, <1>3, <1>4
    <3> QED
      BY ONLY <2>1, <2>3, <3>1, mine \in MBInfo, o \in Nat, GetByteIs
  <2>6. y.code = p[1] /\ y.value = mine.value
    BY ONLY <2>3, mine \in MBInfo, PutCodeIs
  <2>7. o + 1 = 8 /\ 8 \in Nat
    BY ONLY <1>3
  <2> QED
    BY ONLY <1>3, <2>4, <2>5, <2>6, <2>7, p[1] \in {mine.code, mine.code + 128}
<1>5. CASE ~(8 <= m)
  <2>1. ~(o + 1 <= Len(g)) /\ m < 8 /\ 7 \in Nat
    BY ONLY <1>1, <1>2, <1>3, <1>5
  <2>2. GetByte(g, Rec(mine, o), "code") = Rec(mine, o)
    BY ONLY <2>1, mine \in MBInfo, o \in Nat, GetByteIs
  <2> QED
    BY ONLY <1>3, <2>1, <2>2, mine \in MBInfo
<1> QED
  BY ONLY <1>4, <1>5

\* Whatever the count was, the bytes taken are the reply's.
LEMMA CutValues ==
  ASSUME mine \in MBInfo, NEW f \in Seq(Byte), 9 <= Len(f),
         NEW g \in Seq(Byte), NEW m \in 0..Len(f), g = SubSeq(f, 1, m),
         NEW y \in MBInfo, NEW q \in Nat, y.value = mine.value, y.code \in {mine.code, mine.code + 128},
         q = 8 \/ (q = 7 /\ m < 8), NEW n \in {1, 2}
  PROVE  Mixed(GetValues(g, GetCount(g, Rec(y, q)), GetCount(g, Rec(y, q)).x.n_byte, n).x, f)
<1>1. Len(g) = m /\ \A k \in 1..m : g[k] = f[k]
  BY ONLY f \in Seq(Byte), m \in 0..Len(f), g = SubSeq(f, 1, m), CutLength
<1>2. m \in Nat
  BY <1>1
<1>3. PICK b \in 0..(CountMod - 1), r \in {q, q + 1} :
           /\ GetCount(g, Rec(y, q)) = Rec(PutBytes(y, b), r)
           /\ q + 1 <= Len(g) => b = At(g, q) % CountMod /\ r = q + 1
           /\ ~(q + 1 <= Len(g)) => r = q
  BY ONLY g \in Seq(Byte), y \in MBInfo, q \in Nat, GetCountIs
<1>4. PICK z \in MBInfo : z = PutBytes(y, b)
  BY PutType
<1>5. z.code = y.code /\ z.n_byte = b /\ z.value = mine.value
  BY ONLY <1>4, y \in MBInfo, y.value = mine.value, PutBytesIs
<1>6. r \in Nat /\ b \in Nat
  BY MbCodecAssumption
<1>7. TakenUpTo(g, z, r, b, n)
  BY ONLY <1>6, g \in Seq(Byte), z \in MBInfo, n \in {1, 2}, GetValuesIs
<1>8. PICK h \in Nat : /\ GetValues(g, Rec(z, r), b, n) = Rec(Taken(z, g, r, h), r + h)
                       /\ h = 0 \/ r + h <= Len(g)
  BY ONLY <1>7 DEF TakenUpTo
<1>9. PICK x : x = Taken(z, g, r, h)
  OBVIOUS
<1>10. GetValues(g, GetCount(g, Rec(y, q)), GetCount(g, Rec(y, q)).x.n_byte, n).x = x
  <2>1. \A u, v : Rec(u, v).x = u
    BY DEF Rec
  <2> QED
    BY ONLY <1>3, <1>4, <1>5, <1>8, <1>9, <2>1
<1>11. x.code = y.code /\ x.value = FirstOf(z, g, r, h)
  BY ONLY <1>5, <1>9, z \in MBInfo, PutValueIs DEF Taken
<1>12. h = 0 \/ (r = 9 /\ 9 + h <= m)
  BY ONLY <1>1, <1>2, <1>3, <1>8, q = 8 \/ (q = 7 /\ m < 8)
<1>13. CASE h = 0
  <2>1. Taken(z, g, r, 0) = z
    BY ONLY z \in MBInfo, TakenNothing
  <2>2. x = z
    BY ONLY <1>9, <1>13, <2>1
  <2> QED
    BY ONLY <1>5, <1>10, <2>2, f \in Seq(Byte), y.code \in {mine.code, mine.code + 128}, MixedNothing
<1>14. CASE r = 9 /\ 9 + h <= m
  <2>1. PICK data : data = SubSeq(f, 10, Len(f))
    OBVIOUS
  <2>2. PICK l \in Nat : l = Len(f)
    OBVIOUS
  <2>3. Len(data) = l - 9 /\ \A k \in 1..(l - 9) : data[k] = f[9 + k]
    <3>1. 9 <= l /\ f \in Seq(Byte) /\ data = SubSeq(f, 10, l)
      BY ONLY <2>1, <2>2, f \in Seq(Byte), 9 <= Len(f)
    <3>2. PICK e \in Nat : e = l - 9
      BY ONLY <3>1
    <3>3. Len(data) = e
      <4>1. PICK c \in Nat : c = 10
        OBVIOUS
      <4>2. Len(SubSeq(f, c, l)) = IF c <= l THEN l - c + 1 ELSE 0
        BY ONLY <2>2, <3>1, c \in Nat, l \in Nat, c = 10
      <4>3. (IF c <= l THEN l - c + 1 ELSE 0) = e
        BY ONLY <3>1, <3>2, <4>1, l \in Nat
      <4> QED
        BY ONLY <3>1, <4>1, <4>2, <4>3
    <3>4. \A k \in 1..e : data[k] = f[9 + k]
      BY ONLY <2>2, <3>1, <3>2
    <3> QED
      BY ONLY <3>2, <3>3, <3>4
  <2>4. h \in 0..Len(data)
    BY ONLY <1>2, <1>14, <2>2, <2>3, h \in Nat, m \in 0..Len(f)
  <2>5. ASSUME NEW k \in ValIndex
        PROVE  x.value[k] = IF k < h THEN data[k + 1] ELSE mine.value[k]
    <3>1. k \in Nat
      BY MbCodecAssumption DEF ValIndex
    <3>2. x.value[k] = IF k < h THEN At(g, 9 + k) ELSE mine.value[k]
      BY ONLY <1>5, <1>11, <1>14, k \in ValIndex DEF FirstOf
    <3>3. ASSUME k < h
          PROVE  At(g, 9 + k) = data[k + 1]
      <4>1. 9 + k < Len(g) /\ 9 + k + 1 \in 1..m /\ k + 1 \in 1..(l - 9) /\ 9 + k + 1 = 9 + (k + 1)
        BY ONLY <1>1, <1>2, <1>14, <2>2, <3>1, <3>3, h \in Nat, m \in 0..Len(f)
      <4>2. At(g, 9 + k) = g[9 + k + 1]
        BY ONLY <4>1 DEF At
      <4> QED
        BY ONLY <1>1, <2>3, <4>1, <4>2
    <3> QED
      BY ONLY <3>2, <3>3
  <2> QED
    BY ONLY <1>10, <1>11, <2>1, <2>4, <2>5, y.code \in {mine.code, mine.code + 128} DEF Mixed
<1> QED
  BY ONLY <1>12, <1>13, <1>14

\* A read reply cut anywhere mixes its own bytes with the caller's only.
LEMMA CutGot ==
  ASSUME mine \in MBInfo, mine.code \in 1..4, NEW f, NEW p, ReplyPdu(p), Holds(f, 7, p),
         NEW g \in Seq(Byte), NEW m \in 0..Len(f), g = SubSeq(f, 1, m)
  PROVE  Mixed(Decap(g, Rec(mine, 7)).x, f)
<1>1. mine.code \in GoodCode
  BY DEF GoodCode
<1>2. p[1] \in {mine.code, mine.code + 128}
  BY DEF ReplyPdu, Refused, Read, Written, Stated, Repeated
<1>3. p \in Seq(Byte) /\ Len(p) \in Nat /\ 2 <= Len(p)
  BY ReplyLength
<1>4. f \in Seq(Byte) /\ 7 + Len(p) <= Len(f)
  BY DEF Holds
<1>5. 9 <= Len(f) /\ 1 <= Len(p)
  <2>1. PICK l : l = Len(f)
    OBVIOUS
  <2>2. l \in Nat
    BY <1>4, <2>1
  <2> QED
    BY ONLY <1>3, <1>4, <2>1, <2>2
<1>6. PICK y \in MBInfo, q \in Nat :
           /\ GetByte(g, Rec(mine, 7), "code") = Rec(y, q)
           /\ y.value = mine.value /\ y.code \in {mine.code, mine.code + 128}
           /\ q = 8 \/ (q = 7 /\ m < 8)
  BY <1>1, <1>2, <1>5, CutCode
<1>7. Rec(y, q).x = y
  BY DEF Rec
<1>8. CASE y.code > 128
  <2>1. Decap(g, Rec(mine, 7)) = GetByte(g, Rec(y, q), "err")
    BY ONLY <1>6, <1>7, <1>8 DEF Decap
  <2>2. \/ GetByte(g, Rec(y, q), "err") = Rec(PutErr(y, At(g, q)), q + 1)
        \/ GetByte(g, Rec(y, q), "err") = Rec(y, q)
    BY ONLY y \in MBInfo, q \in Nat, GetByteIs
  <2>3. PutErr(y, At(g, q)).code = y.code /\ PutErr(y, At(g, q)).value = y.value
    BY ONLY y \in MBInfo, PutErrIs
  <2>4. PICK x : x = Decap(g, Rec(mine, 7)).x
    OBVIOUS
  <2>5. x.code = y.code /\ x.value = y.value
    <3>1. \A u, v : Rec(u, v).x = u
      BY DEF Rec
    <3> QED
      BY ONLY <2>1, <2>2, <2>3, <2>4, <3>1
  <2> QED
    BY ONLY <1>4, <1>6, <2>4, <2>5, MixedNothing
<1>9. CASE ~(y.code > 128)
  <2>1. y.code \in 1..4
    BY <1>1, <1>6, <1>9, GoodByte
  <2>2. \A n \in {1, 2} : Mixed(GetValues(g, GetCount(g, Rec(y, q)), GetCount(g, Rec(y, q)).x.n_byte, n).x, f)
    BY <1>4, <1>5, <1>6, CutValues
  <2>3. y.code \notin {5, 6} /\ y.code \notin {15, 16}
    BY ONLY <2>1
  <2>4. CASE y.code \in {1, 2}
    <3>1. y.code \notin {3, 4}
      BY ONLY <2>4
    <3>2. Decap(g, Rec(mine, 7)) = GetValues(g, GetCount(g, Rec(y, q)), GetCount(g, Rec(y, q)).x.n_byte, 1)
      BY ONLY <1>6, <1>7, <1>9, <2>3, <2>4, <3>1 DEF Decap
    <3> QED
      BY ONLY <2>2, <3>2
  <2>5. CASE y.code \in {3, 4}
    <3>1. y.code \notin {1, 2}
      BY ONLY <2>5
    <3>2. Decap(g, Rec(mine, 7)) = GetValues(g, GetCount(g, Rec(y, q)), GetCount(g, Rec(y, q)).x.n_byte, 2)
      BY ONLY <1>6, <1>7, <1>9, <2>3, <2>5, <3>1 DEF Decap
    <3> QED
      BY ONLY <2>2, <3>2
  <2> QED
    BY ONLY <2>1, <2>4, <2>5
<1> QED
  BY ONLY <1>8, <1>9
-----------------------------------------------------------------------------
(* The invariant.                                                          *)

\* What the exchange does not change, and what its variables may hold.
Setting ==
  /\ HostOK /\ link \in {"tcp", "rtu"} /\ max \in MaxSizes /\ unit \in Word
  /\ link = "tcp" => unit \in Byte
  /\ mine \in MBInfo

Typed ==
  /\ tcode \in Word /\ rxAddr \in Byte /\ info \in MBInfo
  /\ wire \in Seq(Byte) /\ Len(wire) <= max
  /\ got \in Seq(Byte) /\ Len(got) <= max

\* The reply is a frame of a reply to the request that was meant.
Answered(r, t) ==
  /\ r \in Seq(Byte) /\ unit \in Byte /\ ReplyPdu(PduOf(r))
  /\ IF link = "tcp" THEN TcpFramed(r, PduOf(r), t) ELSE r = RtuFramed(unit, PduOf(r))

\* Over TCP what comes is the reply's beginning, or more than the reply.
Beginning(g, r) == link = "tcp" /\ Len(g) < Len(r) => g = SubSeq(r, 1, Len(g))

CodecInv ==
  /\ Setting /\ Typed
  /\ ret \in {"called", "sent", "served", "received"} => info = mine
  /\ ret = "sent" => Sound(wire, tcode)
  /\ ret \in {"served", "received"} => Answered(reply, tcode)
  /\ ret = "received" => Beginning(got, reply)
  /\ WholeReplyIsTaken /\ CutMixesOnlyOwn

\* The number of a whole reply is the request's, as it is compared.
LEMMA HeadGot ==
  ASSUME HostOK, tcode \in Word, unit \in Byte, NEW f, NEW p, TcpFramed(f, p, tcode)
  PROVE  HeadMatches(f) <=> ~(host = "big" /\ ~SameBothWays(tcode))
<1>1. PICK a, b : a = tcode \div 256 /\ b = tcode % 256
  OBVIOUS
<1>2. /\ f \in Seq(Byte) /\ p \in Seq(Byte) /\ Len(f) = 7 + Len(p)
      /\ f[1] = b /\ f[2] = a /\ f[3] = 0 /\ f[4] = 0 /\ f[7] = unit
  BY <1>1 DEF TcpFramed
<1>3. Len(p) \in Nat
  BY ONLY <1>2
<1>4. 0 < Len(f) /\ 1 < Len(f) /\ 2 < Len(f) /\ 3 < Len(f) /\ 6 < Len(f)
  BY ONLY <1>2, <1>3
<1>5. At(f, 0) = b /\ At(f, 1) = a /\ At(f, 2) = 0 /\ At(f, 3) = 0 /\ At(f, 6) = unit
  BY ONLY <1>2, <1>4 DEF At
<1>6. WordAt(f, 0) = Loaded(b, a) /\ WordAt(f, 2) = Loaded(0, 0)
  BY ONLY <1>5 DEF WordAt
<1>7. Loaded(0, 0) = 0
  BY DEF Loaded
<1>8. Loaded(b, a) = IF host = "little" THEN tcode ELSE Swap(tcode)
  BY <1>1, WordTaken, Converted
<1>9. HeadMatches(f) <=> Loaded(b, a) = tcode
  BY ONLY <1>5, <1>6, <1>7 DEF HeadMatches
<1> QED
  BY ONLY <1>8, <1>9, HostOK DEF HostOK, SameBothWays

\* The checksum is found where the PDU ends, and is the frame's.
LEMMA CrcGot ==
  ASSUME HostOK, NEW a \in Byte, NEW p \in Seq(Byte), NEW f, f = RtuFramed(a, p),
         NEW x, NEW d, d = Rec(x, 1 + Len(p))
  PROVE  LowFirst(CrcOfReply(f, d)) = Crc(SubSeq(f, 1, Len(f) - 2))
<1>1. PICK n \in Nat : n = Len(p)
  OBVIOUS
<1>2. PICK s : s = <<a>> \o p
  OBVIOUS
<1>13. PICK w \in Word : w = Crc(s)
  BY CrcType
<1>3. PICK u, v : u = w \div 256 /\ v = w % 256
  OBVIOUS
<1>4. /\ f \in Seq(Byte) /\ Len(f) = 3 + n /\ SubSeq(f, 1, 1 + n) = s
      /\ SubSeq(f, n + 2, n + 3) = CrcBytes(s)
  BY ONLY <1>1, <1>2, a \in Byte, p \in Seq(Byte), f = RtuFramed(a, p), RtuFramedIs
<1>5. CrcBytes(s) = <<v, u>>
  BY ONLY <1>13, <1>3 DEF CrcBytes
<1>6. f[n + 2] = v /\ f[n + 3] = u
  <2>1. SubSeq(f, n + 2, n + 3)[1] = f[n + 2] /\ SubSeq(f, n + 2, n + 3)[2] = f[n + 3]
    BY ONLY <1>4, n \in Nat
  <2>2. <<v, u>>[1] = v /\ <<v, u>>[2] = u
    OBVIOUS
  <2> QED
    BY ONLY <1>4, <1>5, <2>1, <2>2
<1>7. At(f, 1 + n) = v /\ At(f, 1 + n + 1) = u
  <2>1. /\ 1 + n < Len(f) /\ 1 + n + 1 < Len(f)
        /\ 1 + n + 1 = n + 2 /\ 1 + n + 1 + 1 = n + 3
    BY ONLY <1>4, n \in Nat
  <2>2. At(f, 1 + n) = f[n + 2] /\ At(f, 1 + n + 1) = f[n + 3]
    BY ONLY <2>1 DEF At
  <2> QED
    BY ONLY <1>6, <2>2
<1>8. WordAt(f, 1 + n) = Loaded(v, u)
  BY ONLY <1>7 DEF WordAt
<1>9. LowFirst(Loaded(v, u)) = w
  <2>1. Pair(w, u, v)
    BY ONLY <1>3, w \in Word, WordTaken
  <2> QED
    BY ONLY <2>1, HostOK, Converted
<1>10. CrcOfReply(f, d) = WordAt(f, 1 + n)
  <2>1. d.off = 1 + n
    BY ONLY <1>1, d = Rec(x, 1 + Len(p)) DEF Rec
  <2>2. d.off + 2 <= Len(f)
    BY ONLY <1>4, <2>1, n \in Nat
  <2> QED
    BY ONLY <2>1, <2>2 DEF CrcOfReply, Fits
<1>11. Len(f) - 2 = 1 + n
  BY ONLY <1>4, n \in Nat
<1> QED
  BY ONLY <1>13, <1>4, <1>8, <1>9, <1>10, <1>11

\* What receiving makes of a whole reply and of one cut short.
LEMMA TcpTaken ==
  ASSUME HostOK, mine \in MBInfo, tcode \in Word, link = "tcp", NEW f, Answered(f, tcode)
  PROVE  /\ HeadMatches(f) <=> ~(host = "big" /\ ~SameBothWays(tcode))
         /\ Conveyed(Decap(f, Rec(mine, 7)).x, PduOf(f))
<1>1. PICK p : p = PduOf(f)
  OBVIOUS
<1>2. unit \in Byte /\ ReplyPdu(p) /\ TcpFramed(f, p, tcode)
  BY <1>1 DEF Answered
<1>3. Holds(f, 7, p)
  BY ONLY <1>2, TcpHolds
<1>4. PICK x \in MBInfo : Decap(f, Rec(mine, 7)) = Rec(x, 7 + Len(p)) /\ Conveyed(x, p)
  BY <1>2, <1>3, WholeGot
<1>5. Decap(f, Rec(mine, 7)).x = x
  BY ONLY <1>4 DEF Rec
<1>6. HeadMatches(f) <=> ~(host = "big" /\ ~SameBothWays(tcode))
  BY <1>2, HeadGot
<1> QED
  BY ONLY <1>1, <1>4, <1>5, <1>6

LEMMA TcpCut ==
  ASSUME mine \in MBInfo, mine.code \in 1..4, link = "tcp", NEW f, Answered(f, tcode),
         NEW g \in Seq(Byte), Len(g) < Len(f), g = SubSeq(f, 1, Len(g))
  PROVE  Mixed(Decap(g, Rec(mine, 7)).x, f)
<1>1. PICK p : p = PduOf(f)
  OBVIOUS
<1>2. f \in Seq(Byte) /\ ReplyPdu(p) /\ TcpFramed(f, p, tcode)
  BY <1>1 DEF Answered
<1>3. Holds(f, 7, p)
  BY ONLY <1>2, TcpHolds
<1>4. Len(g) \in 0..Len(f)
  <2>1. Len(g) \in Nat /\ Len(f) \in Nat
    BY ONLY <1>2, g \in Seq(Byte)
  <2> QED
    BY ONLY <2>1, Len(g) < Len(f)
<1>5. PICK m \in 0..Len(f) : m = Len(g)
  BY ONLY <1>4
<1> QED
  BY <1>2, <1>3, <1>5, CutGot

\* An RTU reply passes the checksum where mb_data_decap has come to its end.
LEMMA RtuTaken ==
  ASSUME HostOK, mine \in MBInfo, link # "tcp", NEW f, NEW t, Answered(f, t)
  PROVE  /\ f # <<>> /\ f[1] = unit /\ ~(Len(f) < 2)
         /\ LowFirst(CrcOfReply(f, Decap(f, Rec(mine, 1)))) = Crc(SubSeq(f, 1, Len(f) - 2))
         /\ Conveyed(Decap(f, Rec(mine, 1)).x, PduOf(f))
<1>1. PICK p : p = PduOf(f)
  OBVIOUS
<1>2. unit \in Byte /\ ReplyPdu(p) /\ f = RtuFramed(unit, p)
  BY <1>1 DEF Answered
<1>3. p \in Seq(Byte) /\ Len(p) \in Nat
  BY ONLY <1>2, ReplyLength
<1>4. f \in Seq(Byte) /\ Len(f) = 3 + Len(p) /\ f[1] = unit
  BY ONLY <1>2, <1>3, RtuFramedIs
<1>5. Holds(f, 1, p)
  BY ONLY <1>2, <1>3, RtuHolds
<1>6. PICK x \in MBInfo : Decap(f, Rec(mine, 1)) = Rec(x, 1 + Len(p)) /\ Conveyed(x, p)
  BY <1>2, <1>5, WholeGot
<1>7. PICK d : d = Decap(f, Rec(mine, 1))
  OBVIOUS
<1>8. LowFirst(CrcOfReply(f, d)) = Crc(SubSeq(f, 1, Len(f) - 2))
  BY ONLY <1>2, <1>3, <1>6, <1>7, HostOK, CrcGot
<1>9. d.x = x
  BY ONLY <1>6, <1>7 DEF Rec
<1>10. f # <<>> /\ ~(Len(f) < 2)
  BY ONLY <1>3, <1>4
<1> QED
  BY ONLY <1>1, <1>4, <1>6, <1>7, <1>8, <1>9, <1>10
-----------------------------------------------------------------------------
(* The invariant from step to step.                                        *)

\* What an exchange that has come to s owes its caller: the record x, when g
\* was received for the reply r to request number t.
Whole(g, r, x, s, t) ==
  g = r /\ r # <<>> /\ s \in {"ok", "error"} =>
    IF link = "tcp" /\ host = "big" /\ ~SameBothWays(t) THEN s = "error"
    ELSE s = "ok" /\ Conveyed(x, PduOf(r))
Cut(g, r, x, s) ==
  link = "tcp" /\ s = "ok" /\ Len(g) < Len(r) /\ mine.code \in 1..4 => Mixed(x, r)

Frame == UNCHANGED <<host, link, max, unit, mine>>

\* What the parts of the invariant need of a step.
LEMMA SettingThen ==
  ASSUME Setting, Frame
  PROVE  Setting'
BY DEF Setting, Frame, HostOK

LEMMA TypedThen ==
  ASSUME Frame, tcode' \in Word, rxAddr' \in Byte, info' \in MBInfo,
         wire' \in Seq(Byte), Len(wire') <= max, got' \in Seq(Byte), Len(got') <= max
  PROVE  Typed'
BY DEF Typed, Frame

LEMMA SoundThen ==
  ASSUME Frame, NEW f, NEW t, f = wire', t = tcode', Sound(f, t)
  PROVE  Sound(wire, tcode)'
<1>1. Asked' = Asked /\ (Countable' <=> Countable) /\ Needed' = Needed
  BY DEF Frame, Asked, Loaded, Countable, Needed
<1>2. PduOf(wire)' = PduOf(f)
  BY DEF Frame, PduOf
<1>3. PICK p : p = PduOf(f)
  OBVIOUS
<1>4. TcpFramed(f, p, t) => TcpFramed(wire, PduOf(wire), tcode)'
  BY <1>2, <1>3 DEF Frame, TcpFramed
<1>5. Understood(PduOf(wire))' = Understood(p)
  BY <1>2, <1>3 DEF Understood
<1> QED
  BY <1>1, <1>3, <1>4, <1>5 DEF Frame, Sound

LEMMA ReplyPduThen ==
  ASSUME Frame, NEW p, ReplyPdu(p)
  PROVE  ReplyPdu(p)'
BY DEF Frame, ReplyPdu, Refused, Read, Written, Stated, Repeated

LEMMA AnsweredThen ==
  ASSUME Frame, NEW r, NEW t, r = reply', t = tcode', Answered(r, t)
  PROVE  Answered(reply, tcode)'
<1>1. PICK p : p = PduOf(r)
  OBVIOUS
<1>2. PduOf(reply)' = p
  BY <1>1 DEF Frame, PduOf
<1>3. ReplyPdu(PduOf(reply))'
  <2>1. ReplyPdu(p)'
    BY <1>1, ReplyPduThen DEF Answered
  <2> QED
    BY <1>2, <2>1 DEF ReplyPdu, Refused, Read, Written, Stated, Repeated
<1>4. TcpFramed(r, p, t) => TcpFramed(reply, PduOf(reply), tcode)'
  BY <1>2 DEF Frame, TcpFramed
<1>5. r = RtuFramed(unit, p) => (reply = RtuFramed(unit, PduOf(reply)))'
  BY <1>2 DEF Frame, RtuFramed
<1> QED
  BY <1>1, <1>3, <1>4, <1>5 DEF Answered, Frame

LEMMA WholeThen ==
  ASSUME Frame, NEW g, NEW r, NEW x, NEW s, NEW t,
         g = got', r = reply', x = info', s = ret', t = tcode', Whole(g, r, x, s, t)
  PROVE  WholeReplyIsTaken'
<1>1. PICK p : p = PduOf(r)
  OBVIOUS
<1>2. PduOf(reply)' = p
  BY <1>1 DEF Frame, PduOf
<1>3. Conveyed(x, p) =>
        CASE p[1] > 128 -> x.code = p[1] /\ x.err = p[2]
          [] p[1] \in 1..4 ->
               /\ x.n_byte = p[2]
               /\ \A k \in ValIndex : x.value[k] = IF k < p[2] THEN p[k + 3] ELSE mine'.value[k]
          [] p[1] \in {5, 6} -> <<x.reg, x.value[0], x.value[1]>> = <<mine'.reg, p[4], p[5]>>
          [] OTHER -> <<x.reg, x.n_reg>> = <<mine'.reg, mine'.n_reg>>
  BY DEF Frame, Conveyed
<1>4. SameBothWays(t) <=> SameBothWays(tcode)'
  BY DEF SameBothWays, Swap
<1> QED
  BY <1>1, <1>2, <1>3, <1>4 DEF Frame, Whole, WholeReplyIsTaken

LEMMA CutThen ==
  ASSUME Frame, NEW g, NEW r, NEW x, NEW s, g = got', r = reply', x = info', s = ret', Cut(g, r, x, s)
  PROVE  CutMixesOnlyOwn'
<1>1. HeadSize + 3 = 10
  BY DEF HeadSize
<1>2. SubSeq(r, HeadSize + 3, Len(r)) = SubSeq(r, 10, Len(r))
  BY ONLY <1>1
<1>3. (HeadSize + 3)' = HeadSize + 3
  BY DEF HeadSize
<1>4. PICK data : data = SubSeq(r, 10, Len(r))
  OBVIOUS
<1>5. SubSeq(reply, HeadSize + 3, Len(reply))' = data
  BY <1>2, <1>3, <1>4 DEF HeadSize
<1>6. PICK m : m = mine
  OBVIOUS
<1>7. mine' = m /\ link' = link
  BY ONLY <1>6, Frame DEF Frame
<1>8. link = "tcp" /\ s = "ok" /\ Len(g) < Len(r) /\ m.code \in 1..4 =>
        /\ x.code \in {m.code, m.code + 128}
        /\ \E have \in 0..Len(data) : \A k \in ValIndex :
             x.value[k] = IF k < have THEN data[k + 1] ELSE m.value[k]
  BY ONLY <1>4, <1>6, Cut(g, r, x, s) DEF Cut, Mixed
<1> QED
  BY ONLY <1>5, <1>7, <1>8, g = got', r = reply', x = info', s = ret' DEF CutMixesOnlyOwn

LEMMA CodecInit ==
  ASSUME Init
  PROVE  CodecInv
<1>1. max \in MaxSizes /\ max \in Nat
  BY MbCodecAssumption DEF Init
<1>2. Setting
  BY MbCodecAssumption DEF Init, Setting, HostOK
<1>3. <<>> \in Seq(Byte) /\ Len(<<>>) <= max
  BY <1>1
<1>4. Typed
  BY <1>3, MbCodecAssumption DEF Init, Typed
<1>5. WholeReplyIsTaken /\ CutMixesOnlyOwn
  BY DEF Init, WholeReplyIsTaken, CutMixesOnlyOwn
<1> QED
  BY <1>2, <1>4, <1>5 DEF Init, CodecInv

LEMMA CacheSize ==
  ASSUME Setting
  PROVE  max \in Nat /\ 7 <= max
BY MbCodecAssumption DEF Setting, HeadSize

LEMMA Unfinished ==
  ASSUME ret' \notin {"ok", "error"}
  PROVE  WholeReplyIsTaken' /\ CutMixesOnlyOwn'
BY DEF WholeReplyIsTaken, CutMixesOnlyOwn

LEMMA NextCode ==
  ASSUME NEW t \in Word
  PROVE  (t + 1) % 65536 \in Word
<1>1. t \in Int /\ 0 <= t /\ t < 65536
  BY ONLY t \in Word, WordIs
<1>2. PICK w : w = (t + 1) % 65536
  OBVIOUS
<1>3. w \in Int /\ 0 <= w /\ w < 65536
  BY ONLY <1>1, <1>2
<1> QED
  BY ONLY <1>2, <1>3, WordIs

\* Sending.
LEMMA InvSend ==
  ASSUME CodecInv, Send
  PROVE  CodecInv'
<1>1. Setting /\ Typed /\ info = mine /\ max \in Nat /\ 7 <= max
  BY CacheSize DEF CodecInv, Send
<1>2. Frame /\ UNCHANGED <<rxAddr, info, reply, got>>
  BY DEF Send, Frame
<1>3. Setting'
  BY <1>1, <1>2, SettingThen
<1>4. CASE ReadsPastValue(info)
  <2>1. ret' = "undefined" /\ tcode' = tcode /\ wire' = wire
    BY <1>4 DEF Send
  <2>2. Typed'
    BY <1>1, <1>2, <2>1 DEF Typed, Frame
  <2> QED
    BY <1>3, <2>1, <2>2, Unfinished DEF CodecInv
<1>5. CASE ~ReadsPastValue(info)
  <2>1. PICK t, f : t = tcode' /\ f = wire'
    OBVIOUS
  <2>2. /\ ret' = "sent" /\ t = (IF link = "tcp" THEN (tcode + 1) % 65536 ELSE tcode)
        /\ f = IF link = "tcp" THEN TcpFrame(mine, t) ELSE RtuFrame(mine)
    BY <1>1, <1>5, <2>1 DEF Send
  <2>3. t \in Word
    <3>1. tcode \in Word
      BY <1>1 DEF Typed
    <3>2. (tcode + 1) % 65536 \in Word
      BY ONLY <3>1, NextCode
    <3> QED
      BY ONLY <2>2, <3>1, <3>2
  <2>4. Sound(f, t)
    <3>1. HostOK /\ mine \in MBInfo /\ unit \in Word /\ (link = "tcp" => unit \in Byte)
      BY <1>1 DEF Setting
    <3>2. ~ReadsPastValue(mine)
      BY <1>1, <1>5
    <3>3. CASE link = "tcp"
      BY ONLY <1>1, <2>2, <2>3, <3>1, <3>2, <3>3, TcpSound
    <3>4. CASE link # "tcp"
      BY ONLY <1>1, <2>2, <3>1, <3>2, <3>4, RtuSound
    <3> QED
      BY ONLY <3>3, <3>4
  <2>5. Sound(wire, tcode)'
    BY ONLY <1>2, <2>1, <2>4, SoundThen
  <2>6. Typed'
    BY <1>1, <1>2, <2>1, <2>3, <2>4, TypedThen DEF Typed, Frame, Sound
  <2> QED
    BY <1>1, <1>2, <1>3, <2>2, <2>5, <2>6, Unfinished DEF CodecInv, Frame
<1> QED
  BY <1>4, <1>5

\* The frame of a reply to the request is one, whichever link it is on.
LEMMA FramedAnswered ==
  ASSUME link = "tcp" => TcpFramed(wire, PduOf(wire), tcode), unit \in Byte, NEW p, ReplyPdu(p)
  PROVE  Answered(Framed(p), tcode)
<1>1. PICK r : r = Framed(p)
  OBVIOUS
<1>2. p \in Seq(Byte)
  BY ONLY ReplyPdu(p), ReplyLength
<1>3. CASE link = "tcp"
  <2>1. PICK b : b = PduOf(wire)
    OBVIOUS
  <2>2. TcpFramed(r, p, tcode)
    BY <1>1, <1>3, <2>1, FramedTcp
  <2>3. PduOf(r) = p
    BY ONLY <1>3, <2>2, TcpRead
  <2>4. r \in Seq(Byte)
    BY ONLY <2>2 DEF TcpFramed
  <2> QED
    BY ONLY <1>1, <1>3, <2>2, <2>3, <2>4, unit \in Byte, ReplyPdu(p) DEF Answered
<1>4. CASE link # "tcp"
  <2>1. r = RtuFramed(unit, p)
    BY ONLY <1>1, <1>4, FramedRtu
  <2>2. PduOf(r) = p
    BY ONLY <1>2, <1>4, <2>1, unit \in Byte, RtuRead
  <2>3. r \in Seq(Byte)
    BY ONLY <1>2, <2>1, unit \in Byte, RtuFramedIs
  <2> QED
    BY ONLY <1>1, <1>4, <2>1, <2>2, <2>3, unit \in Byte, ReplyPdu(p) DEF Answered
<1> QED
  BY ONLY <1>3, <1>4

\* The slave's answer.
LEMMA InvServe ==
  ASSUME CodecInv, Serve
  PROVE  CodecInv'
<1>1. Setting /\ Typed /\ info = mine /\ Sound(wire, tcode)
  BY DEF CodecInv, Serve
<1>2. Frame /\ UNCHANGED <<tcode, rxAddr, info, wire, got>> /\ ret' = "served"
  BY DEF Serve, Frame
<1>3. PICK b : b = PduOf(wire)
  OBVIOUS
<1>4. Understood(b) # Malformed /\ Heard = Understood(b)
  BY <1>3 DEF Serve, Heard
<1>5. Understood(b) = Asked
  BY ONLY <1>1, <1>3, <1>4 DEF Sound
<1>6. mine.code \in GoodCode /\ Asked.code = mine.code
  <2>1. Understood(b).code \in GoodCode
    BY ONLY <1>4, UnderstoodCode
  <2>2. Asked.code = mine.code
    BY DEF Asked
  <2> QED
    BY ONLY <1>5, <2>1, <2>2
<1>7. unit \in Byte
  <2>1. CASE link = "tcp"
    BY <1>1, <2>1 DEF Setting
  <2>2. CASE link # "tcp"
    <3>1. b # <<>>
      BY ONLY <1>4, NothingIsMalformed
    <3>2. Len(wire) > 3 /\ wire[1] = unit
      BY ONLY <1>3, <2>2, <3>1 DEF PduOf
    <3>3. wire \in Seq(Byte)
      BY <1>1 DEF Typed
    <3>4. 1 \in 1..Len(wire)
      BY ONLY <3>2, <3>3
    <3> QED
      BY ONLY <3>2, <3>3, <3>4
  <2> QED
    BY ONLY <2>1, <2>2
<1>8. PICK p : ReplyPdu(p) /\ reply' = Framed(p)
  <2>1. HostOK /\ mine \in MBInfo
    BY <1>1 DEF Setting
  <2>2. CASE (Heard.code \in 1..4 => ByteCount(Heard) < CountMod) /\ reply' = Framed(Answer(Heard))
    <3>1. Asked.code \in 1..4 => ByteCount(Asked) < CountMod
      BY ONLY <1>4, <1>5, <2>2
    <3>2. ReplyPdu(Answer(Asked))
      BY ONLY <1>6, <2>1, <3>1, AnswerIs
    <3> QED
      BY ONLY <1>4, <1>5, <2>2, <3>2
  <2>3. CASE reply' = Framed(Exception(Heard))
    <3>1. ReplyPdu(Exception(Asked))
      BY ONLY <1>6, <2>1, RefusedIs
    <3> QED
      BY ONLY <1>4, <1>5, <2>3, <3>1
  <2> QED
    BY <2>2, <2>3 DEF Serve
<1>9. PICK r, t : r = reply' /\ t = tcode'
  OBVIOUS
<1>10. Answered(r, t)
  <2>1. link = "tcp" => TcpFramed(wire, PduOf(wire), tcode)
    BY <1>1 DEF Sound
  <2>2. Answered(Framed(p), tcode)
    BY ONLY <1>7, <1>8, <2>1, FramedAnswered
  <2> QED
    BY ONLY <1>2, <1>8, <1>9, <2>2
<1>11. Answered(reply, tcode)'
  BY ONLY <1>2, <1>9, <1>10, AnsweredThen
<1>12. Setting' /\ Typed'
  BY <1>1, <1>2, SettingThen, TypedThen DEF Typed
<1> QED
  BY <1>1, <1>2, <1>11, <1>12, Unfinished DEF CodecInv, Frame

LEMMA PrefixOfCat ==
  ASSUME NEW S, NEW s \in Seq(S), NEW t \in Seq(S), NEW m \in 0..Len(s)
  PROVE  SubSeq(s \o t, 1, m) = SubSeq(s, 1, m)
OBVIOUS

\* What may be delivered over TCP begins as the reply does.
Begins(f, r) ==
  link = "tcp" => \A m \in 0..Len(f) : m < Len(r) => SubSeq(f, 1, m) = SubSeq(r, 1, m)

\* What is received, and is the reply's beginning over TCP.
LEMMA InvDeliver ==
  ASSUME CodecInv, ret = "served", NEW f \in Seq(Byte), Begins(f, reply), Deliver(f)
  PROVE  CodecInv'
<1>1. Setting /\ Typed /\ info = mine /\ Answered(reply, tcode) /\ max \in Nat
  BY CacheSize DEF CodecInv
<1>2. Frame /\ UNCHANGED <<tcode, rxAddr, info, wire, reply>> /\ ret' = "received"
  BY DEF Deliver, Frame
<1>3. PICK g : g = got'
  OBVIOUS
<1>4. PICK m : m = IF Len(f) <= max THEN Len(f) ELSE max
  OBVIOUS
<1>5. m \in 0..Len(f) /\ m <= max
  <2>1. Len(f) \in Nat
    OBVIOUS
  <2> QED
    BY ONLY <1>1, <1>4, <2>1
<1>6. g = SubSeq(f, 1, m)
  BY <1>3, <1>4 DEF Deliver
<1>7. g \in Seq(Byte) /\ Len(g) = m
  BY ONLY <1>5, <1>6, f \in Seq(Byte), CutLength
<1>8. Beginning(g, reply)
  BY ONLY <1>5, <1>6, <1>7, Begins(f, reply) DEF Begins, Beginning
<1>9. Beginning(got, reply)'
  BY ONLY <1>2, <1>3, <1>8 DEF Beginning, Frame
<1>10. PICK r, t : r = reply' /\ t = tcode'
  OBVIOUS
<1>11. Answered(r, t)
  BY ONLY <1>1, <1>2, <1>10
<1>12. Answered(reply, tcode)'
  BY ONLY <1>2, <1>10, <1>11, AnsweredThen
<1>13. Setting' /\ Typed'
  BY <1>1, <1>2, <1>3, <1>5, <1>7, SettingThen, TypedThen DEF Typed
<1> QED
  BY <1>1, <1>2, <1>9, <1>12, <1>13, Unfinished DEF CodecInv, Frame

LEMMA InvArrive ==
  ASSUME CodecInv, Arrive
  PROVE  CodecInv'
<1>1. ret = "served" /\ reply \in Seq(Byte)
  BY DEF Arrive, CodecInv, Answered
<1>2. PICK n \in Nat : n = Len(reply)
  BY <1>1
<1>3. CASE Deliver(reply)
  <2>1. Begins(reply, reply)
    BY DEF Begins
  <2> QED
    BY <1>1, <1>3, <2>1, InvDeliver
<1>4. ASSUME NEW k \in 0..(n - 1), Deliver(SubSeq(reply, 1, k))
      PROVE  CodecInv'
  <2>1. k \in 0..Len(reply)
    BY ONLY <1>2, k \in 0..(n - 1), n \in Nat
  <2>2. PICK f : f = SubSeq(reply, 1, k)
    OBVIOUS
  <2>3. f \in Seq(Byte) /\ Len(f) = k
    BY ONLY <1>1, <2>1, <2>2, CutLength
  <2>4. \A m \in 0..k : SubSeq(f, 1, m) = SubSeq(reply, 1, m)
    BY ONLY <1>1, <2>1, <2>2, CutOfCut
  <2>5. Begins(f, reply)
    BY ONLY <2>3, <2>4 DEF Begins
  <2>6. Deliver(f)
    BY ONLY <1>4, <2>2
  <2> QED
    BY <1>1, <2>3, <2>5, <2>6, InvDeliver
<1>5. CASE Deliver(reply \o reply)
  <2>1. PICK f : f = reply \o reply
    OBVIOUS
  <2>2. f \in Seq(Byte)
    BY ONLY <1>1, <2>1
  <2>3. ASSUME NEW m \in 0..Len(f), m < Len(reply)
        PROVE  SubSeq(f, 1, m) = SubSeq(reply, 1, m)
    <3>1. Len(f) \in Nat
      BY ONLY <2>2
    <3>2. m \in 0..Len(reply)
      BY ONLY <1>2, <2>3, <3>1
    <3> QED
      BY ONLY <1>1, <2>1, <3>2, PrefixOfCat
  <2>4. Begins(f, reply)
    BY ONLY <2>3 DEF Begins
  <2>5. Deliver(f)
    BY ONLY <1>5, <2>1
  <2> QED
    BY <1>1, <2>2, <2>4, <2>5, InvDeliver
<1>6. ASSUME NEW k \in DOMAIN reply, NEW d \in Damages,
             link = "rtu", Deliver([reply EXCEPT ![k] = (@ + d) % 256])
      PROVE  CodecInv'
  <2>1. PICK b : b = (reply[k] + d) % 256
    OBVIOUS
  <2>2. b \in Byte
    <3>1. reply[k] \in Byte
      BY <1>1
    <3>2. d \in Nat
      BY MbCodecAssumption
    <3>3. reply[k] + d \in Nat
      BY ONLY <3>1, <3>2, ByteIs
    <3>4. b \in 0..(256 - 1)
      BY ONLY <2>1, <3>3, ModBound, 256 \in Nat \ {0}
    <3> QED
      BY ONLY <3>4, ByteIs
  <2>3. PICK f : f = [reply EXCEPT ![k] = b]
    OBVIOUS
  <2>4. f \in Seq(Byte)
    BY ONLY <1>1, <2>2, <2>3
  <2>5. Begins(f, reply)
    BY ONLY <1>6 DEF Begins
  <2>6. Deliver(f)
    BY ONLY <1>6, <2>1, <2>3
  <2> QED
    BY <1>1, <2>4, <2>5, <2>6, InvDeliver
<1> QED
  BY <1>2, <1>3, <1>4, <1>5, <1>6 DEF Arrive

\* An exchange that ends owes no more than Whole and Cut.
LEMMA InvEnds ==
  ASSUME CodecInv, Frame, UNCHANGED <<tcode, wire, reply, got>>, rxAddr' \in Byte,
         NEW x \in MBInfo, x = info', NEW s \in {"ok", "error", "undefined"}, s = ret',
         Whole(got, reply, x, s, tcode), Cut(got, reply, x, s)
  PROVE  CodecInv'
<1>1. Setting' /\ Typed'
  BY SettingThen, TypedThen DEF CodecInv, Typed
<1>2. PICK g, r, t : g = got' /\ r = reply' /\ t = tcode'
  OBVIOUS
<1>3. Whole(g, r, x, s, t) /\ Cut(g, r, x, s)
  BY ONLY <1>2, UNCHANGED <<tcode, wire, reply, got>>, Whole(got, reply, x, s, tcode), Cut(got, reply, x, s)
<1>4. WholeReplyIsTaken' /\ CutMixesOnlyOwn'
  BY ONLY <1>2, <1>3, Frame, x = info', s = ret', WholeThen, CutThen
<1>5. ret' \notin {"called", "sent", "served", "received"}
  OBVIOUS
<1> QED
  BY ONLY <1>1, <1>4, <1>5 DEF CodecInv

\* Receiving over TCP.
LEMMA InvTcpRecv ==
  ASSUME CodecInv, TcpRecv
  PROVE  CodecInv'
<1>1. /\ Setting /\ Typed /\ info = mine /\ Answered(reply, tcode) /\ Beginning(got, reply)
      /\ link = "tcp"
  BY DEF CodecInv, TcpRecv
<1>2. /\ HostOK /\ mine \in MBInfo /\ tcode \in Word /\ rxAddr \in Byte /\ got \in Seq(Byte)
      /\ reply \in Seq(Byte)
  BY <1>1 DEF Setting, Typed, Answered
<1>3. Frame /\ UNCHANGED <<tcode, rxAddr, wire, reply, got>>
  BY DEF TcpRecv, Frame
<1>4. PICK x, s : x = info' /\ s = ret'
  OBVIOUS
<1>5. HeadMatches(reply) <=> ~(host = "big" /\ ~SameBothWays(tcode))
  BY ONLY <1>1, <1>2, TcpTaken
<1>6. CASE HeadMatches(got)
  <2>1. PICK d : d = Decap(got, Rec(mine, 7))
    OBVIOUS
  <2>2. s = "ok" /\ x = d.x
    <3>1. [x |-> mine, off |-> HeadSize] = Rec(mine, 7)
      BY DEF Rec, HeadSize
    <3> QED
      BY <1>1, <1>4, <1>6, <2>1, <3>1 DEF TcpRecv
  <2>3. x \in MBInfo
    <3>1. d \in Cursors
      BY ONLY <1>2, <2>1, 7 \in Nat, DecapType
    <3> QED
      BY ONLY <2>2, <3>1 DEF Cursors
  <2>4. Whole(got, reply, x, s, tcode)
    <3>1. SUFFICES ASSUME got = reply
                   PROVE  s = "ok" /\ Conveyed(x, PduOf(reply)) /\ ~(host = "big" /\ ~SameBothWays(tcode))
      BY ONLY <3>1 DEF Whole
    <3>2. Conveyed(Decap(reply, Rec(mine, 7)).x, PduOf(reply))
      BY ONLY <1>1, <1>2, TcpTaken
    <3> QED
      BY ONLY <1>5, <1>6, <2>1, <2>2, <3>1, <3>2
  <2>5. Cut(got, reply, x, s)
    <3>1. SUFFICES ASSUME Len(got) < Len(reply), mine.code \in 1..4
                   PROVE  Mixed(x, reply)
      BY ONLY <3>1 DEF Cut
    <3>2. got = SubSeq(reply, 1, Len(got))
      BY ONLY <1>1, <3>1 DEF Beginning
    <3>3. Mixed(Decap(got, Rec(mine, 7)).x, reply)
      BY ONLY <1>1, <1>2, <3>1, <3>2, TcpCut
    <3> QED
      BY ONLY <2>1, <2>2, <3>3
  <2> QED
    BY <1>2, <1>3, <1>4, <2>2, <2>3, <2>4, <2>5, InvEnds
<1>7. CASE ~HeadMatches(got)
  <2>1. s = "error" /\ x = mine
    BY <1>1, <1>4, <1>7 DEF TcpRecv
  <2>2. Whole(got, reply, x, s, tcode)
    BY ONLY <1>1, <1>5, <1>7, <2>1 DEF Whole
  <2>3. Cut(got, reply, x, s)
    BY ONLY <2>1 DEF Cut
  <2> QED
    BY <1>2, <1>3, <1>4, <2>1, <2>2, <2>3, InvEnds
<1> QED
  BY <1>6, <1>7

\* Receiving over RTU.
LEMMA InvRtuRecv ==
  ASSUME CodecInv, RtuRecv
  PROVE  CodecInv'
<1>1. Setting /\ Typed /\ info = mine /\ Answered(reply, tcode) /\ link # "tcp"
  BY DEF CodecInv, RtuRecv
<1>2. HostOK /\ mine \in MBInfo /\ rxAddr \in Byte /\ got \in Seq(Byte)
  BY <1>1 DEF Setting, Typed
<1>3. Frame /\ UNCHANGED <<tcode, wire, reply, got>>
  BY DEF RtuRecv, Frame
<1>4. PICK x, s : x = info' /\ s = ret'
  OBVIOUS
<1>5. PICK addr, o, d : /\ addr = IF got = <<>> THEN rxAddr ELSE got[1]
                        /\ o = IF got = <<>> THEN 0 ELSE 1
                        /\ d = Decap(got, Rec(mine, o))
  OBVIOUS
<1>6. /\ rxAddr' = addr /\ x = (IF addr = unit THEN d.x ELSE mine)
      /\ s = CASE addr # unit -> "error"
               [] Len(got) < 2 -> "undefined"
               [] LowFirst(CrcOfReply(got, d)) # Crc(SubSeq(got, 1, Len(got) - 2)) -> "error"
               [] OTHER -> "ok"
  <2>1. [x |-> info, off |-> IF got = <<>> THEN 0 ELSE 1] = Rec(mine, o)
    BY ONLY <1>1, <1>5 DEF Rec
  <2> QED
    BY <1>1, <1>4, <1>5, <2>1 DEF RtuRecv
<1>7. addr \in Byte
  BY ONLY <1>2, <1>5
<1>8. x \in MBInfo
  <2>1. o \in Nat
    BY ONLY <1>5
  <2>2. d \in Cursors
    BY ONLY <1>2, <1>5, <2>1, DecapType
  <2> QED
    BY ONLY <1>2, <1>6, <2>2 DEF Cursors
<1>9. s \in {"ok", "error", "undefined"}
  BY ONLY <1>6
<1>10. Whole(got, reply, x, s, tcode)
  <2>1. SUFFICES ASSUME got = reply
                 PROVE  s = "ok" /\ Conveyed(x, PduOf(reply))
    BY ONLY <1>1, <2>1 DEF Whole
  <2>2. /\ reply # <<>> /\ reply[1] = unit /\ ~(Len(reply) < 2)
        /\ LowFirst(CrcOfReply(reply, Decap(reply, Rec(mine, 1)))) = Crc(SubSeq(reply, 1, Len(reply) - 2))
        /\ Conveyed(Decap(reply, Rec(mine, 1)).x, PduOf(reply))
    BY ONLY <1>1, <1>2, RtuTaken
  <2>3. addr = unit /\ d = Decap(reply, Rec(mine, 1))
    BY ONLY <1>5, <2>1, <2>2
  <2>4. x = d.x /\ s = "ok"
    BY ONLY <1>6, <2>1, <2>2, <2>3
  <2> QED
    BY ONLY <2>2, <2>3, <2>4
<1>11. Cut(got, reply, x, s)
  BY ONLY <1>1 DEF Cut
<1> QED
  BY ONLY <1>3, <1>4, <1>6, <1>7, <1>8, <1>9, <1>10, <1>11, CodecInv, InvEnds

LEMMA InvNext ==
  ASSUME CodecInv, [Next]_vars
  PROVE  CodecInv'
<1>1. CASE UNCHANGED vars
  <2>1. Frame /\ UNCHANGED <<tcode, rxAddr, info, wire, reply, got, ret>>
    BY <1>1 DEF vars, Frame
  <2>2. PICK g, f, r, x, s, t : g = got' /\ f = wire' /\ r = reply' /\ x = info' /\ s = ret' /\ t = tcode'
    OBVIOUS
  <2>3. Setting' /\ Typed'
    BY <2>1, SettingThen, TypedThen DEF CodecInv, Typed
  <2>4. Sound(wire, tcode) => Sound(wire, tcode)'
    <3>1. Sound(wire, tcode) => Sound(f, t)
      BY ONLY <2>1, <2>2
    <3> QED
      BY ONLY <2>1, <2>2, <3>1, SoundThen
  <2>5. Answered(reply, tcode) => Answered(reply, tcode)'
    <3>1. Answered(reply, tcode) => Answered(r, t)
      BY ONLY <2>1, <2>2
    <3> QED
      BY ONLY <2>1, <2>2, <3>1, AnsweredThen
  <2>6. Beginning(got, reply) => Beginning(got, reply)'
    BY ONLY <2>1 DEF Beginning, Frame
  <2>7. WholeReplyIsTaken' /\ CutMixesOnlyOwn'
    <3>1. Whole(g, r, x, s, t)
      BY <2>1, <2>2 DEF CodecInv, WholeReplyIsTaken, Whole, Conveyed
    <3>2. Cut(g, r, x, s)
      <4>1. CutMixesOnlyOwn
        BY DEF CodecInv
      <4>2. HeadSize + 3 = 10
        BY DEF HeadSize
      <4>3. Cut(got, reply, info, ret)
        BY ONLY <4>1, <4>2 DEF CutMixesOnlyOwn, Cut, Mixed
      <4> QED
        BY ONLY <2>1, <2>2, <4>3
    <3> QED
      BY ONLY <2>1, <2>2, <3>1, <3>2, WholeThen, CutThen
  <2> QED
    BY <2>1, <2>3, <2>4, <2>5, <2>6, <2>7 DEF CodecInv, Frame
<1> QED
  BY <1>1, InvSend, InvServe, InvArrive, InvTcpRecv, InvRtuRecv DEF Next
-----------------------------------------------------------------------------
(* The theorems.                                                           *)

\* Invariance: a frame sent is the request or no request, the reply is a
\* frame of a reply to it, what was received over TCP is the reply's
\* beginning, and the record holds no more than that gives (mb_common.c,
\* mb_tcp.c, mb_rtu.c).
THEOREM CodecInvariance == Spec => []CodecInv
<1>1. Init => CodecInv
  BY CodecInit
<1>2. CodecInv /\ [Next]_vars => CodecInv'
  BY InvNext
<1> QED
  BY <1>1, <1>2, PTL DEF Spec

\* No frame is longer than the cache, and the record that is decoded is one
\* (MBDATA_BYTE_SET, MBDATA_WORD_SET, mb_data_decap).
THEOREM CacheHolds == Spec => []TypeOK
<1>1. CodecInv => TypeOK
  BY DEF CodecInv, Typed, TypeOK
<1> QED
  BY <1>1, CodecInvariance, PTL

\* A slave understands the request that was meant, or none; and that one if it
\* fits the cache and its count fits a byte (mb_data_encap).
THEOREM RequestsUnderstood == Spec => []UnderstoodOrNotAtAll
<1>1. CodecInv => UnderstoodOrNotAtAll
  BY DEF CodecInv, Sound, UnderstoodOrNotAtAll, Heard, GoodCode
<1> QED
  BY <1>1, CodecInvariance, PTL

\* A whole reply comes back as the slave gave it, but on a big-endian host
\* over TCP (mb_tcp_recv, mb_rtu_recv, mb_data_decap).
THEOREM WholeRepliesTaken == Spec => []WholeReplyIsTaken
<1>1. CodecInv => WholeReplyIsTaken
  BY DEF CodecInv
<1> QED
  BY <1>1, CodecInvariance, PTL

\* A read reply cut short by TCP leaves in the record its own beginning and
\* what was there, and nothing else (mb_data_decap).
THEOREM CutsMixOnlyOwn == Spec => []CutMixesOnlyOwn
<1>1. CodecInv => CutMixesOnlyOwn
  BY DEF CodecInv
<1> QED
  BY <1>1, CodecInvariance, PTL
=============================================================================
