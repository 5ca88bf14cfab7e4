--------------------------- MODULE MessageProofs ---------------------------
(***************************************************************************)
(* Protocol messages for any structures, any number of TLVs, values that   *)
(* need both bytes of the length, any bytes arriving and any checksum      *)
(* function of a bounded number of bytes.  The invariant Inv says that the *)
(* TLVs parsed so far serialize to exactly the bytes consumed so far, and  *)
(* that at the receiver of a sent message they are its first TLVs.         *)
(***************************************************************************)
EXTENDS Message, SequenceTheorems, Induction

(* Sequences of sequences: FlattenSeq is defined by a function that calls  *)
(* itself; IsFlat is its equation, and what follows from it is proved by   *)
(* induction over the number of elements.                                  *)

(* f is the local function of FlattenSeq, up to n. *)
IsFlat(f, ss, n) == f = [i \in 1 .. n |-> IF i = 1 THEN ss[i] ELSE f[i - 1] \o ss[i]]

LEMMA FlatExists ==
  ASSUME NEW ss, NEW n \in Nat
  PROVE  \E f : IsFlat(f, ss, n)
<1> DEFINE S == {m \in Nat : \E f : IsFlat(f, ss, m)}
<1>1. 0 \in S
  <2> DEFINE f == [i \in 1 .. 0 |-> 0]
  <2>1. IsFlat(f, ss, 0)
    BY DEF IsFlat
  <2>2. QED
    BY <2>1
<1>2. ASSUME NEW m \in Nat, m \in S PROVE m + 1 \in S
  <2>1. PICK f : IsFlat(f, ss, m)
    BY <1>2
  <2> DEFINE g == [i \in 1 .. m + 1 |->
                     IF i = m + 1 THEN (IF m = 0 THEN ss[m + 1] ELSE f[m] \o ss[m + 1]) ELSE f[i]]
  <2>2. \A i \in 1 .. m : f[i] = IF i = 1 THEN ss[i] ELSE f[i - 1] \o ss[i]
    BY <2>1 DEF IsFlat
  <2>3. ASSUME NEW i \in 1 .. m + 1 PROVE g[i] = IF i = 1 THEN ss[i] ELSE g[i - 1] \o ss[i]
    BY <2>2
  <2>4. IsFlat(g, ss, m + 1)
    BY <2>3 DEF IsFlat
  <2>5. QED
    BY <2>4
<1> HIDE DEF S
<1>3. Nat \subseteq S
  BY <1>1, <1>2, SetInduction
<1>4. QED
  BY <1>3 DEF S

LEMMA FlatUnique ==
  ASSUME NEW ss, NEW tt, NEW m \in Nat, NEW n \in Nat, NEW f, NEW g,
         m <= n, \A i \in 1 .. m : ss[i] = tt[i], IsFlat(f, ss, m), IsFlat(g, tt, n)
  PROVE  \A i \in 1 .. m : f[i] = g[i]
<1> DEFINE S == {k \in Nat : k \in 1 .. m => f[k] = g[k]}
<1>1. /\ \A i \in 1 .. m : f[i] = IF i = 1 THEN ss[i] ELSE f[i - 1] \o ss[i]
      /\ \A i \in 1 .. n : g[i] = IF i = 1 THEN tt[i] ELSE g[i - 1] \o tt[i]
  BY DEF IsFlat
<1>2. 0 \in S
  OBVIOUS
<1>3. ASSUME NEW k \in Nat, k \in S PROVE k + 1 \in S
  <2>1. SUFFICES ASSUME k + 1 \in 1 .. m PROVE f[k + 1] = g[k + 1]
    OBVIOUS
  <2>2. /\ f[k + 1] = IF k + 1 = 1 THEN ss[k + 1] ELSE f[(k + 1) - 1] \o ss[k + 1]
        /\ g[k + 1] = IF k + 1 = 1 THEN tt[k + 1] ELSE g[(k + 1) - 1] \o tt[k + 1]
    BY <1>1, <2>1
  <2>3. (k + 1) - 1 = k /\ ss[k + 1] = tt[k + 1] /\ (k + 1 # 1 => k \in 1 .. m)
    BY <2>1
  <2>4. k + 1 # 1 => f[k] = g[k]
    BY <1>3, <2>3
  <2>5. QED
    BY <2>2, <2>3, <2>4
<1> HIDE DEF S
<1>4. Nat \subseteq S
  BY <1>2, <1>3, SetInduction
<1>5. QED
  BY <1>4 DEF S

(* The value of FlattenSeq for the first n elements *)
Flat(ss, n) == (CHOOSE f : IsFlat(f, ss, n))[n]

LEMMA FlatIs ==
  ASSUME NEW ss, NEW n \in Nat
  PROVE  \E f : IsFlat(f, ss, n) /\ Flat(ss, n) = f[n]
<1> DEFINE f == CHOOSE g : IsFlat(g, ss, n)
<1>1. IsFlat(f, ss, n)
  BY FlatExists, Zenon
<1>2. QED
  BY <1>1 DEF Flat

LEMMA FlatSame ==
  ASSUME NEW ss, NEW tt, NEW n \in Nat, n # 0, \A i \in 1 .. n : ss[i] = tt[i]
  PROVE  Flat(ss, n) = Flat(tt, n)
<1>1. PICK f : IsFlat(f, ss, n) /\ Flat(ss, n) = f[n]
  BY FlatIs
<1>2. PICK g : IsFlat(g, tt, n) /\ Flat(tt, n) = g[n]
  BY FlatIs
<1>3. n <= n /\ n \in 1 .. n
  OBVIOUS
<1>4. \A i \in 1 .. n : f[i] = g[i]
  BY <1>1, <1>2, <1>3, FlatUnique
<1>5. QED
  BY <1>1, <1>2, <1>3, <1>4

LEMMA FlatOne == \A ss : Flat(ss, 1) = ss[1]
<1>1. SUFFICES ASSUME NEW ss PROVE Flat(ss, 1) = ss[1]
  OBVIOUS
<1>2. PICK f : IsFlat(f, ss, 1) /\ Flat(ss, 1) = f[1]
  BY FlatIs
<1>3. QED
  BY <1>2 DEF IsFlat

LEMMA FlatNext ==
  ASSUME NEW ss, NEW n \in Nat, n # 0
  PROVE  Flat(ss, n + 1) = Flat(ss, n) \o ss[n + 1]
<1>1. n + 1 \in Nat /\ n <= n + 1 /\ n \in 1 .. n
  OBVIOUS
<1>2. PICK f : IsFlat(f, ss, n) /\ Flat(ss, n) = f[n]
  BY FlatIs
<1>3. PICK g : IsFlat(g, ss, n + 1) /\ Flat(ss, n + 1) = g[n + 1]
  BY <1>1, FlatIs
<1>4. \A i \in 1 .. n : f[i] = g[i]
  BY <1>1, <1>2, <1>3, FlatUnique
<1>5. g[n + 1] = g[n] \o ss[n + 1]
  <2>1. \A i \in 1 .. n + 1 : g[i] = IF i = 1 THEN ss[i] ELSE g[i - 1] \o ss[i]
    BY <1>3 DEF IsFlat
  <2>2. n + 1 \in 1 .. n + 1 /\ (n + 1) - 1 = n /\ n + 1 # 1
    OBVIOUS
  <2>3. QED
    BY <2>1, <2>2
<1>6. f[n] = g[n]
  BY <1>1, <1>4
<1>7. QED
  BY <1>2, <1>3, <1>5, <1>6

LEMMA FlattenIs ==
  ASSUME NEW ss, Len(ss) # 0
  PROVE  FlattenSeq(ss) = Flat(ss, Len(ss))
BY DEF FlattenSeq, Flat, IsFlat

LEMMA FlattenEmpty == FlattenSeq(<<>>) = <<>>
BY DEF FlattenSeq

LEMMA FlatType ==
  ASSUME NEW S, NEW ss \in Seq(Seq(S)), NEW n \in 1 .. Len(ss)
  PROVE  Flat(ss, n) \in Seq(S)
<1> DEFINE T == {k \in Nat : k \in 1 .. Len(ss) => Flat(ss, k) \in Seq(S)}
<1>1. ASSUME NEW k \in Nat, k \in T PROVE k + 1 \in T
  <2>1. SUFFICES ASSUME k + 1 \in 1 .. Len(ss) PROVE Flat(ss, k + 1) \in Seq(S)
    OBVIOUS
  <2>2. ss[k + 1] \in Seq(S) /\ (k # 0 => k \in 1 .. Len(ss))
    BY <2>1
  <2>3. CASE k = 0
    BY <2>2, <2>3, FlatOne
  <2>4. CASE k # 0
    <3>1. Flat(ss, k + 1) = Flat(ss, k) \o ss[k + 1]
      BY <2>4, FlatNext
    <3>2. Flat(ss, k) \in Seq(S)
      BY <1>1, <2>2, <2>4
    <3>3. Flat(ss, k) \o ss[k + 1] \in Seq(S)
      BY <2>2, <3>2, ConcatProperties
    <3>4. QED
      BY <3>1, <3>3, Zenon
  <2>5. QED
    BY <2>3, <2>4
<1>2. 0 \in T
  OBVIOUS
<1> HIDE DEF T
<1>3. Nat \subseteq T
  BY <1>1, <1>2, SetInduction
<1>4. n \in Nat
  OBVIOUS
<1>5. QED
  BY <1>3, <1>4 DEF T

LEMMA FlattenType ==
  ASSUME NEW S, NEW ss \in Seq(Seq(S))
  PROVE  FlattenSeq(ss) \in Seq(S)
<1>1. CASE ss = <<>>
  <2>1. <<>> \in Seq(S)
    OBVIOUS
  <2>2. QED
    BY <1>1, <2>1, FlattenEmpty, Zenon
<1>2. CASE ss # <<>>
  <2>1. Len(ss) # 0 /\ Len(ss) \in 1 .. Len(ss)
    BY <1>2
  <2>2. FlattenSeq(ss) = Flat(ss, Len(ss))
    BY <2>1, FlattenIs
  <2>3. QED
    BY <2>1, <2>2, FlatType
<1>3. QED
  BY <1>1, <1>2

LEMMA FlattenAppend ==
  ASSUME NEW S, NEW ss \in Seq(Seq(S)), NEW s \in Seq(S)
  PROVE  FlattenSeq(Append(ss, s)) = FlattenSeq(ss) \o s
<1>1. CASE ss = <<>>
  <2>1. Len(Append(ss, s)) = 1 /\ Append(ss, s)[1] = s /\ 1 # 0
    BY <1>1
  <2>2. FlattenSeq(Append(ss, s)) = s
    BY <2>1, FlattenIs, FlatOne
  <2>3. FlattenSeq(ss) \o s = s
    BY <1>1, FlattenEmpty, ConcatEmptySeq
  <2>4. QED
    BY <2>2, <2>3
<1>2. CASE ss # <<>>
  <2>1. /\ Len(ss) \in Nat /\ Len(ss) # 0 /\ Len(ss) + 1 # 0
        /\ Len(Append(ss, s)) = Len(ss) + 1 /\ Append(ss, s)[Len(ss) + 1] = s
        /\ \A i \in 1 .. Len(ss) : ss[i] = Append(ss, s)[i]
    BY <1>2
  <2>2. FlattenSeq(Append(ss, s)) = Flat(Append(ss, s), Len(ss) + 1)
    BY <2>1, FlattenIs
  <2>3. Flat(Append(ss, s), Len(ss) + 1) = Flat(Append(ss, s), Len(ss)) \o s
    BY <2>1, FlatNext
  <2>4. Flat(Append(ss, s), Len(ss)) = Flat(ss, Len(ss))
    BY <2>1, FlatSame
  <2>5. FlattenSeq(ss) = Flat(ss, Len(ss))
    BY <2>1, FlattenIs
  <2>6. QED
    BY <2>2, <2>3, <2>4, <2>5
<1>3. QED
  BY <1>1, <1>2

-----------------------------------------------------------------------------
(* TLVs whose length fits in the two bytes of the header *)
GoodTlv == [type : Byte, value : {v \in Seq(Byte) : Len(v) < Base * Base}]

(* A checksum has some bytes, and no more than a length can say. *)
CrcOK == \A s \in Seq(Byte) : Crc(s) \in Seq(Byte) /\ Len(Crc(s)) \in 1 .. Base * Base - 1

LEMMA Quotients ==
  ASSUME NEW a \in Nat, NEW d \in Nat \ {0}
  PROVE  /\ a \div d \in Nat /\ a % d \in 0 .. d - 1
         /\ d * (a \div d) <= a
         /\ a < d * (a \div d) + d
         /\ a = d * (a \div d) + (a % d)
<1>1. a \div d \in Nat /\ d * (a \div d) <= a /\ a < d * (a \div d) + d
  OBVIOUS
<1>2. a % d \in 0 .. d - 1
  OBVIOUS
<1>3. a % d = a - d * (a \div d)
  OBVIOUS
<1>4. a % d \in Int /\ d * (a \div d) \in Int
  BY <1>1, <1>2
<1>5. a = d * (a \div d) + (a % d)
  <2>1. \A x, y, z \in Int : x = y - z => y = z + x
    OBVIOUS
  <2>2. QED
    BY <1>3, <1>4, <2>1
<1>6. QED
  BY <1>1, <1>2, <1>5

(* A quotient is the only one with its remainder. *)
LEMMA OneQuotient ==
  ASSUME NEW q \in Nat, NEW p \in Nat, NEW d \in Nat \ {0}, NEW r \in 0 .. d - 1, NEW s \in 0 .. d - 1,
         d * q + r = d * p + s
  PROVE  q = p /\ r = s
<1>1. d * (q - p) = s - r
  OBVIOUS
<1>2. d * (q - p) < d /\ d * (q - p) > -d
  BY <1>1
<1>3. q - p < 1
  <2>1. SUFFICES ASSUME q - p >= 1 PROVE FALSE
    OBVIOUS
  <2>2. d * (q - p) >= d
    BY <2>1
  <2>3. QED
    BY <1>2, <2>2
<1>4. q - p > -1
  <2>1. SUFFICES ASSUME p - q >= 1 PROVE FALSE
    OBVIOUS
  <2>2. d * (p - q) >= d
    BY <2>1
  <2>3. d * (p - q) = -(d * (q - p))
    OBVIOUS
  <2>4. QED
    BY <1>2, <2>2, <2>3
<1>5. q = p
  BY <1>3, <1>4
<1>6. QED
  BY <1>5

LEMMA SplitLength ==
  ASSUME NEW n \in Nat, n < Base * Base
  PROVE  /\ n \div Base \in Byte /\ n % Base \in Byte
         /\ (n \div Base) * Base + (n % Base) = n
<1>1. Base \in Nat \ {0} /\ Base \in Nat
  BY BaseOK
<1>2. /\ n \div Base \in Nat /\ n % Base \in 0 .. Base - 1
      /\ Base * (n \div Base) <= n
      /\ n = Base * (n \div Base) + (n % Base)
  BY <1>1, Quotients
<1>3. n \div Base < Base
  <2> DEFINE q == n \div Base
  <2>1. q \in Nat /\ Base * q <= n
    BY <1>2
  <2> HIDE DEF q
  <2>2. SUFFICES ASSUME q >= Base PROVE FALSE
    BY <1>1, <2>1 DEF q
  <2>3. Base * q >= Base * Base
    BY <1>1, <2>1, <2>2
  <2>4. Base * q \in Nat /\ Base * Base \in Nat
    BY <1>1, <2>1
  <2>5. QED
    BY <2>1, <2>3, <2>4
<1>4. QED
  BY <1>1, <1>2, <1>3 DEF Byte

LEMMA JoinBytes ==
  ASSUME NEW a \in Byte, NEW b \in Byte
  PROVE  /\ a * Base + b \in Nat /\ a * Base + b < Base * Base
         /\ (a * Base + b) \div Base = a /\ (a * Base + b) % Base = b
<1>1. Base \in Nat \ {0} /\ a \in 0 .. Base - 1 /\ b \in 0 .. Base - 1
  BY BaseOK DEF Byte
<1> DEFINE n == a * Base + b
<1>2. n \in Nat /\ n = Base * a + b
  BY <1>1
<1>3. n < Base * Base
  <2>1. a + 1 <= Base
    BY <1>1
  <2>2. Base * (a + 1) <= Base * Base
    BY <1>1, <2>1
  <2>3. Base * (a + 1) = Base * a + Base
    BY <1>1
  <2>4. Base * a \in Nat /\ Base * Base \in Nat
    BY <1>1
  <2>5. QED
    BY <1>1, <1>2, <2>2, <2>3, <2>4
<1> HIDE DEF n
<1>4. n \div Base \in Nat /\ n % Base \in 0 .. Base - 1 /\ n = Base * (n \div Base) + (n % Base)
  BY <1>1, <1>2, Quotients
<1>5. a = n \div Base /\ b = n % Base
  BY <1>1, <1>2, <1>4, OneQuotient
<1>6. QED
  BY <1>2, <1>3, <1>5 DEF n

LEMMA HeaderFacts ==
  ASSUME NEW tlv \in GoodTlv
  PROVE  /\ Header(tlv) \in Seq(Byte) /\ Len(Header(tlv)) = 3
         /\ Header(tlv)[1] = tlv.type
         /\ Header(tlv)[2] * Base + Header(tlv)[3] = Len(tlv.value)
<1>1. tlv.type \in Byte /\ tlv.value \in Seq(Byte) /\ Len(tlv.value) \in Nat /\ Len(tlv.value) < Base * Base
  BY DEF GoodTlv
<1>2. /\ Len(tlv.value) \div Base \in Byte /\ Len(tlv.value) % Base \in Byte
      /\ (Len(tlv.value) \div Base) * Base + (Len(tlv.value) % Base) = Len(tlv.value)
  BY <1>1, SplitLength
<1>3. \A x, y, z \in Byte : /\ <<x, y, z>> \in Seq(Byte) /\ Len(<<x, y, z>>) = 3
                           /\ <<x, y, z>>[1] = x /\ <<x, y, z>>[2] = y /\ <<x, y, z>>[3] = z
  OBVIOUS
<1>4. PICK y \in Byte, z \in Byte :
        /\ Header(tlv) = <<tlv.type, y, z>>
        /\ y * Base + z = Len(tlv.value)
  <2>1. Header(tlv) = <<tlv.type, Len(tlv.value) \div Base, Len(tlv.value) % Base>>
    BY DEF Header
  <2>2. QED
    BY <1>2, <2>1, Zenon
<1>5. QED
  BY <1>1, <1>3, <1>4

(* The bytes of one TLV *)
Bytes(tlv) == Header(tlv) \o tlv.value

LEMMA BytesFacts ==
  ASSUME NEW tlv \in GoodTlv
  PROVE  Bytes(tlv) \in Seq(Byte) /\ Len(Bytes(tlv)) = 3 + Len(tlv.value) /\ Len(Bytes(tlv)) > 0
<1>1. tlv.value \in Seq(Byte) /\ Len(tlv.value) \in Nat
  BY DEF GoodTlv
<1>2. Header(tlv) \in Seq(Byte) /\ Len(Header(tlv)) = 3
  BY HeaderFacts
<1>3. \A h, v \in Seq(Byte) : h \o v \in Seq(Byte) /\ Len(h \o v) = Len(h) + Len(v)
  BY ConcatProperties
<1>4. Bytes(tlv) \in Seq(Byte) /\ Len(Bytes(tlv)) = Len(Header(tlv)) + Len(tlv.value)
  BY <1>1, <1>2, <1>3 DEF Bytes
<1>5. QED
  BY <1>1, <1>2, <1>4

LEMMA SerializeIs == \A m : Serialize(m) = FlattenSeq([i \in DOMAIN m |-> Bytes(m[i])])
BY DEF Serialize, Bytes

LEMMA SerializeEmpty == Serialize(<<>>) = <<>>
<1>1. [i \in DOMAIN <<>> |-> Bytes(<<>>[i])] = <<>>
  OBVIOUS
<1>2. QED
  BY <1>1, SerializeIs, FlattenEmpty

(* A sequence element by element *)
LEMMA MapType ==
  ASSUME NEW S, NEW n \in Nat, NEW f, DOMAIN f = 1 .. n, f \in [1 .. n -> S]
  PROVE  f \in Seq(S) /\ Len(f) = n
OBVIOUS

LEMMA BytesOfAll ==
  ASSUME NEW m \in Seq(GoodTlv)
  PROVE  [i \in DOMAIN m |-> Bytes(m[i])] \in Seq(Seq(Byte))
<1>1. DOMAIN m = 1 .. Len(m) /\ Len(m) \in Nat /\ \A i \in DOMAIN m : m[i] \in GoodTlv
  OBVIOUS
<1>2. \A i \in DOMAIN m : Bytes(m[i]) \in Seq(Byte)
  BY <1>1, BytesFacts
<1>3. [i \in DOMAIN m |-> Bytes(m[i])] \in [1 .. Len(m) -> Seq(Byte)]
  BY <1>1, <1>2
<1>4. QED
  BY <1>1, <1>3, MapType

LEMMA ValuesOfAll ==
  ASSUME NEW m \in Seq(GoodTlv)
  PROVE  [i \in DOMAIN m |-> m[i].value] \in Seq(Seq(Byte))
<1>1. DOMAIN m = 1 .. Len(m) /\ Len(m) \in Nat /\ \A i \in DOMAIN m : m[i] \in GoodTlv
  OBVIOUS
<1>2. \A i \in DOMAIN m : m[i].value \in Seq(Byte)
  BY <1>1 DEF GoodTlv
<1>3. [i \in DOMAIN m |-> m[i].value] \in [1 .. Len(m) -> Seq(Byte)]
  BY <1>1, <1>2
<1>4. QED
  BY <1>1, <1>3, MapType

LEMMA SerializeType ==
  ASSUME NEW m \in Seq(GoodTlv)
  PROVE  Serialize(m) \in Seq(Byte)
BY BytesOfAll, SerializeIs, FlattenType

LEMMA SerializeAppend ==
  ASSUME NEW m \in Seq(GoodTlv), NEW tlv \in GoodTlv
  PROVE  Serialize(Append(m, tlv)) = Serialize(m) \o Bytes(tlv)
<1>1. [i \in DOMAIN m |-> Bytes(m[i])] \in Seq(Seq(Byte)) /\ Bytes(tlv) \in Seq(Byte)
  BY BytesFacts, BytesOfAll
<1>2. [i \in DOMAIN Append(m, tlv) |-> Bytes(Append(m, tlv)[i])]
        = Append([i \in DOMAIN m |-> Bytes(m[i])], Bytes(tlv))
  OBVIOUS
<1>3. QED
  BY <1>1, <1>2, SerializeIs, FlattenAppend

LEMMA ChecksumGood ==
  ASSUME CrcOK, NEW m \in Seq(GoodTlv)
  PROVE  /\ Checksum(m) \in Seq(Byte)
         /\ Len(Checksum(m)) > 0 /\ Len(Checksum(m)) < Base * Base
<1>1. [i \in DOMAIN m |-> m[i].value] \in Seq(Seq(Byte))
  BY ValuesOfAll
<1>2. FlattenSeq([i \in DOMAIN m |-> m[i].value]) \in Seq(Byte)
  BY <1>1, FlattenType
<1>3. Checksum(m) \in Seq(Byte) /\ Len(Checksum(m)) \in 1 .. Base * Base - 1
  BY <1>2, Zenon DEF Checksum, CrcOK
<1>4. Base * Base \in Nat
  BY BaseOK
<1>5. QED
  BY <1>3, <1>4

-----------------------------------------------------------------------------
(* Reading back *)

LEMMA Slice ==
  ASSUME NEW S, NEW s \in Seq(S), NEW o \in Nat, NEW n \in Nat, o + n <= Len(s)
  PROVE  /\ SubSeq(s, o + 1, o + n) \in Seq(S)
         /\ Len(SubSeq(s, o + 1, o + n)) = n
         /\ \A i \in 1 .. n : SubSeq(s, o + 1, o + n)[i] = s[o + i]
OBVIOUS

(* The TLV that ParseTlv takes from a wire that has one at o *)
Taken(w, o, len) == Tlv(w[o + 1], SubSeq(w, o + 3 + 1, o + 3 + len))

(* The header at o gives that length. *)
Announces(w, o, len) == len = w[o + 2] * Base + w[o + 3]

(* Two lengths that the same header gives are the same. *)
LEMMA SameLength ==
  ASSUME NEW w, NEW o, NEW a, NEW b, Announces(w, o, a), Announces(w, o, b)
  PROVE  a = b
BY DEF Announces

LEMMA TakenFacts ==
  ASSUME NEW w \in Seq(Byte), NEW o \in Nat, NEW len \in Nat,
         o + 3 + len <= Len(w), Announces(w, o, len)
  PROVE  /\ Taken(w, o, len) \in GoodTlv
         /\ Len(Taken(w, o, len).value) = len
         /\ Bytes(Taken(w, o, len)) = SubSeq(w, o + 1, o + 3 + len)
<1> DEFINE v == SubSeq(w, o + 3 + 1, o + 3 + len)
           t == Taken(w, o, len)
<1>1. w[o + 1] \in Byte /\ w[o + 2] \in Byte /\ w[o + 3] \in Byte
  OBVIOUS
<1>2. v \in Seq(Byte) /\ Len(v) = len /\ \A i \in 1 .. len : v[i] = w[o + 3 + i]
  <2>1. o + 3 \in Nat /\ (o + 3) + len <= Len(w)
    OBVIOUS
  <2>2. QED
    BY <2>1
<1>3. /\ len < Base * Base
      /\ len \div Base = w[o + 2] /\ len % Base = w[o + 3]
  BY <1>1, JoinBytes DEF Announces
<1> HIDE DEF v
<1>4. t.type = w[o + 1] /\ t.value = v /\ t \in GoodTlv
  BY <1>1, <1>2, <1>3 DEF Taken, Tlv, GoodTlv, v
<1>5. Header(t) = <<w[o + 1], w[o + 2], w[o + 3]>>
  BY <1>2, <1>3, <1>4 DEF Header
<1> HIDE DEF t
<1> DEFINE h == <<w[o + 1], w[o + 2], w[o + 3]>>
           b == SubSeq(w, o + 1, o + (3 + len))
<1>6. h \in Seq(Byte) /\ Len(h) = 3 /\ h[1] = w[o + 1] /\ h[2] = w[o + 2] /\ h[3] = w[o + 3]
  BY <1>1
<1>7. b \in Seq(Byte) /\ Len(b) = 3 + len /\ \A i \in 1 .. 3 + len : b[i] = w[o + i]
  <2>1. 3 + len \in Nat /\ o + (3 + len) <= Len(w)
    OBVIOUS
  <2>2. QED
    BY <2>1, Slice
<1> HIDE DEF h, b
<1>8. h \o v \in Seq(Byte) /\ Len(h \o v) = 3 + len
  <2>1. h \in Seq(Byte) /\ v \in Seq(Byte)
    BY <1>2, <1>6
  <2>2. h \o v \in Seq(Byte) /\ Len(h \o v) = Len(h) + Len(v)
    BY <2>1
  <2>3. QED
    BY <1>2, <1>6, <2>2
<1>9. ASSUME NEW i \in 1 .. 3 + len PROVE (h \o v)[i] = b[i]
  <2>1. (h \o v)[i] = IF i <= 3 THEN h[i] ELSE v[i - 3]
    <3>1. \A j \in 1 .. Len(h) + Len(v) :
            (h \o v)[j] = IF j <= Len(h) THEN h[j] ELSE v[j - Len(h)]
      BY <1>2, <1>6, ConcatProperties
    <3>2. QED
      BY <1>2, <1>6, <3>1
  <2>2. b[i] = w[o + i]
    BY <1>7
  <2>3. CASE i <= 3
    <3>1. i = 1 \/ i = 2 \/ i = 3
      BY <2>3
    <3>2. QED
      BY <1>6, <2>1, <2>2, <2>3, <3>1
  <2>4. CASE i > 3
    <3>1. i - 3 \in 1 .. len /\ o + 3 + (i - 3) = o + i
      BY <2>4
    <3>2. v[i - 3] = w[o + i]
      BY <1>2, <3>1
    <3>3. QED
      BY <2>1, <2>2, <2>4, <3>2
  <2>5. i <= 3 \/ i > 3
    OBVIOUS
  <2>6. QED
    BY <2>3, <2>4, <2>5, Zenon
<1>10. h \o v = b
  BY <1>7, <1>8, <1>9, SeqEqual
<1>11. Bytes(t) = h \o v
  BY <1>4, <1>5 DEF Bytes, h
<1>12. o + (3 + len) = o + 3 + len
  OBVIOUS
<1>13. QED
  BY <1>2, <1>4, <1>10, <1>11, <1>12 DEF t, b

(* One iteration of the parser extends what it has read. *)
LEMMA TakeStep ==
  ASSUME NEW m \in Seq(GoodTlv), NEW w \in Seq(Byte), NEW o \in Nat, NEW len \in Nat,
         Serialize(m) = SubSeq(w, 1, o), o + 3 + len <= Len(w), Announces(w, o, len)
  PROVE  Serialize(Append(m, Taken(w, o, len))) = SubSeq(w, 1, o + 3 + len)
<1>1. Taken(w, o, len) \in GoodTlv /\ Bytes(Taken(w, o, len)) = SubSeq(w, o + 1, o + 3 + len)
  BY TakenFacts
<1>2. Serialize(Append(m, Taken(w, o, len))) = SubSeq(w, 1, o) \o SubSeq(w, o + 1, o + 3 + len)
  BY <1>1, SerializeAppend
<1>3. SubSeq(w, 1, o) \o SubSeq(w, o + 1, o + 3 + len) = SubSeq(w, 1, o + 3 + len)
  <2>1. 1 \in 1 .. Len(w) + 1 /\ o \in 0 .. Len(w) /\ o + 3 + len \in o .. Len(w) /\ 1 - 1 = 0
    OBVIOUS
  <2>2. QED
    BY <2>1, ConcatAdjacentSubSeq
<1>4. QED
  BY <1>2, <1>3

LEMMA Prefix ==
  ASSUME NEW S, NEW m \in Seq(S), NEW j \in 0 .. Len(m)
  PROVE  /\ SubSeq(m, 1, j) \in Seq(S) /\ Len(SubSeq(m, 1, j)) = j
         /\ \A i \in 1 .. j : SubSeq(m, 1, j)[i] = m[i]
         /\ j < Len(m) => SubSeq(m, 1, j + 1) = Append(SubSeq(m, 1, j), m[j + 1])
OBVIOUS

LEMMA SerializePrefix ==
  ASSUME NEW m \in Seq(GoodTlv), NEW j \in 0 .. Len(m)
  PROVE  \E rest \in Seq(Byte) : Serialize(m) = Serialize(SubSeq(m, 1, j)) \o rest
<1> DEFINE P(i) == \E rest \in Seq(Byte) :
                     Serialize(SubSeq(m, 1, j + i)) = Serialize(SubSeq(m, 1, j)) \o rest
           T == {i \in Nat : j + i <= Len(m) => P(i)}
<1>1. SubSeq(m, 1, j) \in Seq(GoodTlv) /\ Serialize(SubSeq(m, 1, j)) \in Seq(Byte)
  BY Prefix, SerializeType
<1>2. 0 \in T
  <2>1. <<>> \in Seq(Byte) /\ j + 0 = j
    OBVIOUS
  <2>2. Serialize(SubSeq(m, 1, j)) = Serialize(SubSeq(m, 1, j)) \o <<>>
    BY <1>1, ConcatEmptySeq
  <2>3. P(0)
    BY <2>1, <2>2
  <2>4. QED
    BY <2>3
<1>3. ASSUME NEW i \in Nat, i \in T PROVE i + 1 \in T
  <2>1. SUFFICES ASSUME j + (i + 1) <= Len(m) PROVE P(i + 1)
    OBVIOUS
  <2>2. j + i \in 0 .. Len(m) /\ j + i < Len(m) /\ j + (i + 1) = (j + i) + 1 /\ j + i <= Len(m)
    BY <2>1
  <2>3. PICK rest \in Seq(Byte) :
          Serialize(SubSeq(m, 1, j + i)) = Serialize(SubSeq(m, 1, j)) \o rest
    BY <1>3, <2>2
  <2>4. /\ SubSeq(m, 1, (j + i) + 1) = Append(SubSeq(m, 1, j + i), m[(j + i) + 1])
        /\ SubSeq(m, 1, j + i) \in Seq(GoodTlv) /\ m[(j + i) + 1] \in GoodTlv
    BY <2>2, Prefix
  <2> DEFINE b == Bytes(m[(j + i) + 1])
  <2>5. Serialize(SubSeq(m, 1, (j + i) + 1)) = Serialize(SubSeq(m, 1, j + i)) \o b
    BY <2>4, SerializeAppend
  <2>6. b \in Seq(Byte)
    BY <2>4, BytesFacts
  <2> HIDE DEF b
  <2>7. (Serialize(SubSeq(m, 1, j)) \o rest) \o b = Serialize(SubSeq(m, 1, j)) \o (rest \o b)
    BY <1>1, <2>6, ConcatAssociative
  <2>8. rest \o b \in Seq(Byte)
    BY <2>6, ConcatProperties
  <2>9. QED
    BY <2>2, <2>3, <2>5, <2>7, <2>8
<1> HIDE DEF T, P
<1>4. Nat \subseteq T
  BY <1>2, <1>3, SetInduction
<1>5. Len(m) - j \in Nat /\ j + (Len(m) - j) = Len(m) /\ j + (Len(m) - j) <= Len(m)
  OBVIOUS
<1>6. Len(m) - j \in T
  BY <1>4, <1>5
<1>7. P(Len(m) - j)
  BY <1>5, <1>6 DEF T
<1>8. SubSeq(m, 1, Len(m)) = m
  OBVIOUS
<1>9. QED
  BY <1>5, <1>7, <1>8 DEF P

(* c is s followed by t. *)
Joined(c, s, t) ==
  /\ Len(c) = Len(s) + Len(t)
  /\ \A i \in 1 .. Len(s) : c[i] = s[i]
  /\ \A i \in 1 .. Len(t) : c[Len(s) + i] = t[i]

LEMMA Joins ==
  ASSUME NEW S, NEW s \in Seq(S), NEW t \in Seq(S)
  PROVE  s \o t \in Seq(S) /\ Joined(s \o t, s, t)
BY DEF Joined

(* What lies between what is before it and what is after it *)
LEMMA Inside ==
  ASSUME NEW S, NEW p \in Seq(S), NEW b \in Seq(S), NEW r \in Seq(S)
  PROVE  /\ Len((p \o b) \o r) = Len(p) + Len(b) + Len(r)
         /\ \A i \in 1 .. Len(b) : ((p \o b) \o r)[Len(p) + i] = b[i]
<1>1. p \o b \in Seq(S) /\ Joined(p \o b, p, b)
  BY Joins
<1>2. Joined((p \o b) \o r, p \o b, r)
  BY <1>1, Joins
<1> DEFINE q == p \o b
           w == q \o r
<1>3. Joined(q, p, b) /\ Joined(w, q, r)
  BY <1>1, <1>2
<1> HIDE DEF q, w
<1>4. Len(p) \in Nat /\ Len(b) \in Nat /\ Len(r) \in Nat
  OBVIOUS
<1>5. Len(w) = Len(p) + Len(b) + Len(r)
  BY <1>3, <1>4 DEF Joined
<1>6. ASSUME NEW i \in 1 .. Len(b) PROVE w[Len(p) + i] = b[i]
  <2>1. Len(p) + i \in 1 .. Len(q) /\ q[Len(p) + i] = b[i]
    BY <1>3, <1>4 DEF Joined
  <2>2. QED
    BY <1>3, <2>1 DEF Joined
<1>7. QED
  BY <1>5, <1>6 DEF q, w

(* The bytes of a TLV inside w at o are read back as that TLV. *)
LEMMA ReadBack ==
  ASSUME NEW tlv \in GoodTlv, NEW w \in Seq(Byte), NEW o \in Nat,
         o + Len(Bytes(tlv)) <= Len(w),
         \A i \in 1 .. Len(Bytes(tlv)) : w[o + i] = Bytes(tlv)[i]
  PROVE  /\ o + 3 + Len(tlv.value) <= Len(w)
         /\ Announces(w, o, Len(tlv.value))
         /\ Taken(w, o, Len(tlv.value)) = tlv
<1> DEFINE v == tlv.value
           h == Header(tlv)
           n == Len(v)
<1>1. v \in Seq(Byte) /\ n \in Nat
  BY DEF GoodTlv
<1>2. h \in Seq(Byte) /\ Len(h) = 3 /\ h[1] = tlv.type /\ h[2] * Base + h[3] = n
  BY HeaderFacts
<1> HIDE DEF h
<1>3. Joined(h \o v, h, v) /\ Bytes(tlv) = h \o v
  BY <1>1, <1>2, Joins DEF Bytes, h
<1>4. \A i \in 1 .. 3 + n : w[o + i] = (h \o v)[i]
  BY <1>2, <1>3 DEF Joined
<1>5. o + 3 + n <= Len(w)
  <2>1. Len(Bytes(tlv)) = 3 + n
    BY <1>2, <1>3 DEF Joined
  <2> DEFINE a == Len(Bytes(tlv))
  <2>2. n \in Nat /\ a = 3 + n /\ o + a <= Len(w) /\ Len(w) \in Nat
    BY <1>1, <2>1
  <2> HIDE DEF n, v, a
  <2>3. QED
    BY <2>2
<1> DEFINE c == h \o v
<1>6. /\ c[1] = h[1] /\ c[2] = h[2] /\ c[3] = h[3]
      /\ \A i \in 1 .. n : c[3 + i] = v[i]
  BY <1>2, <1>3 DEF Joined
<1>7. \A i \in 1 .. 3 + n : w[o + i] = c[i]
  BY <1>4
<1> HIDE DEF c, v, n
<1>8. w[o + 1] = h[1] /\ w[o + 2] = h[2] /\ w[o + 3] = h[3]
  <2>1. 1 \in 1 .. 3 + n /\ 2 \in 1 .. 3 + n /\ 3 \in 1 .. 3 + n
    BY <1>1
  <2>2. QED
    BY <1>6, <1>7, <2>1
<1>9. \A i \in 1 .. n : w[(o + 3) + i] = v[i]
  <2>1. ASSUME NEW i \in 1 .. n PROVE w[(o + 3) + i] = v[i]
    <3>1. 3 + i \in 1 .. 3 + n /\ o + (3 + i) = (o + 3) + i
      BY <1>1
    <3>2. w[o + (3 + i)] = c[3 + i] /\ c[3 + i] = v[i]
      BY <1>6, <1>7, <3>1
    <3>3. QED
      BY <3>1, <3>2
  <2>2. QED
    BY <2>1
<1> DEFINE x == SubSeq(w, o + 3 + 1, o + 3 + n)
<1>10. x \in Seq(Byte) /\ Len(x) = n /\ \A i \in 1 .. n : x[i] = w[(o + 3) + i]
  <2>1. o + 3 \in Nat /\ (o + 3) + n <= Len(w)
    BY <1>1, <1>5
  <2>2. QED
    BY <1>1, <2>1, Slice
<1> HIDE DEF x
<1>11. Len(v) = n
  BY DEF n
<1>12. x = v
  BY <1>1, <1>9, <1>10, <1>11, SeqEqual
<1>13. Taken(w, o, n) = [type |-> tlv.type, value |-> tlv.value]
  BY <1>2, <1>8, <1>12 DEF Taken, Tlv, x, v
<1>14. [type |-> tlv.type, value |-> tlv.value] = tlv
  BY DEF GoodTlv
<1>15. Announces(w, o, n)
  BY <1>2, <1>8 DEF Announces
<1>16. QED
  BY <1>5, <1>13, <1>14, <1>15 DEF n, v

(* What follows the first k TLVs in the serialization of m is the next one. *)
LEMMA NextTlv ==
  ASSUME NEW m \in Seq(GoodTlv), NEW k \in 0 .. Len(m), k < Len(m)
  PROVE  LET w == Serialize(m)
             o == Len(Serialize(SubSeq(m, 1, k)))
             n == Len(m[k + 1].value) IN
         /\ o \in Nat /\ o < Len(w)
         /\ o + 3 + n <= Len(w) /\ Announces(w, o, n) /\ Taken(w, o, n) = m[k + 1]
<1> DEFINE t == m[k + 1]
           p == Serialize(SubSeq(m, 1, k))
           w == Serialize(m)
<1>1. SubSeq(m, 1, k) \in Seq(GoodTlv) /\ t \in GoodTlv /\ k + 1 \in 0 .. Len(m)
  OBVIOUS
<1>2. SubSeq(m, 1, k + 1) = Append(SubSeq(m, 1, k), t)
  BY Prefix
<1>3. Serialize(SubSeq(m, 1, k + 1)) = p \o Bytes(t)
  BY <1>1, <1>2, SerializeAppend
<1>4. PICK r \in Seq(Byte) : w = Serialize(SubSeq(m, 1, k + 1)) \o r
  BY <1>1, SerializePrefix
<1>5. w = (p \o Bytes(t)) \o r
  BY <1>3, <1>4
<1>6. p \in Seq(Byte) /\ w \in Seq(Byte) /\ Bytes(t) \in Seq(Byte) /\ Len(Bytes(t)) > 0
  BY <1>1, SerializeType, BytesFacts
<1>7. /\ Len((p \o Bytes(t)) \o r) = Len(p) + Len(Bytes(t)) + Len(r)
      /\ \A i \in 1 .. Len(Bytes(t)) : ((p \o Bytes(t)) \o r)[Len(p) + i] = Bytes(t)[i]
  BY <1>6, Inside
<1> HIDE DEF t, p, w
<1>8. /\ Len(w) = Len(p) + Len(Bytes(t)) + Len(r)
      /\ \A i \in 1 .. Len(Bytes(t)) : w[Len(p) + i] = Bytes(t)[i]
  BY <1>5, <1>7, Zenon
<1>9. Len(p) \in Nat /\ Len(r) \in Nat /\ Len(Bytes(t)) \in Nat
  BY <1>6
<1>10. Len(p) < Len(w) /\ Len(p) + Len(Bytes(t)) <= Len(w)
  BY <1>6, <1>8, <1>9
<1>11. /\ Len(p) + 3 + Len(t.value) <= Len(w)
       /\ Announces(w, Len(p), Len(t.value))
       /\ Taken(w, Len(p), Len(t.value)) = t
  BY <1>1, <1>6, <1>8, <1>9, <1>10, ReadBack
<1>12. QED
  BY <1>9, <1>10, <1>11 DEF t, p, w

LEMMA UnambiguousPrefix ==
  ASSUME NEW m \in Seq(GoodTlv), NEW o \in Seq(GoodTlv), Serialize(m) = Serialize(o)
  PROVE  \A k \in 0 .. Len(m) : k <= Len(o) /\ SubSeq(m, 1, k) = SubSeq(o, 1, k)
<1> DEFINE S == {k \in Nat : k <= Len(m) => k <= Len(o) /\ SubSeq(m, 1, k) = SubSeq(o, 1, k)}
<1>1. 0 \in S
  <2>1. SubSeq(m, 1, 0) = <<>> /\ SubSeq(o, 1, 0) = <<>> /\ 0 <= Len(o)
    OBVIOUS
  <2>2. QED
    BY <2>1
<1>2. ASSUME NEW k \in Nat, k \in S PROVE k + 1 \in S
  <2>1. SUFFICES ASSUME k + 1 <= Len(m)
                 PROVE  k + 1 <= Len(o) /\ SubSeq(m, 1, k + 1) = SubSeq(o, 1, k + 1)
    OBVIOUS
  <2>2. k \in 0 .. Len(m) /\ k < Len(m)
    BY <2>1
  <2>3. k \in 0 .. Len(o) /\ SubSeq(m, 1, k) = SubSeq(o, 1, k)
    BY <1>2, <2>2
  <2> DEFINE w == Serialize(m)
             p == Len(Serialize(SubSeq(m, 1, k)))
  <2>4. /\ p < Len(w) /\ Announces(w, p, Len(m[k + 1].value))
        /\ Taken(w, p, Len(m[k + 1].value)) = m[k + 1]
    BY <2>2, NextTlv
  <2>5. k < Len(o)
    <3>1. SUFFICES ASSUME k = Len(o) PROVE FALSE
      BY <2>3
    <3>2. SubSeq(o, 1, k) = o
      BY <3>1
    <3>3. p = Len(w)
      BY <2>3, <3>2
    <3>4. w \in Seq(Byte) /\ Len(w) \in Nat
      BY SerializeType
    <3> HIDE DEF p, w
    <3>5. QED
      BY <2>4, <3>3, <3>4
  <2>6. /\ Announces(w, p, Len(o[k + 1].value))
        /\ Taken(w, p, Len(o[k + 1].value)) = o[k + 1]
    BY <2>3, <2>5, NextTlv
  <2> HIDE DEF w, p
  <2>7. Len(m[k + 1].value) = Len(o[k + 1].value)
    BY <2>4, <2>6, SameLength
  <2>8. m[k + 1] = o[k + 1]
    BY <2>4, <2>6, <2>7
  <2>9. /\ SubSeq(m, 1, k + 1) = Append(SubSeq(m, 1, k), m[k + 1])
        /\ SubSeq(o, 1, k + 1) = Append(SubSeq(o, 1, k), o[k + 1])
    BY <2>2, <2>3, <2>5, Prefix
  <2>10. QED
    BY <2>3, <2>5, <2>8, <2>9
<1> HIDE DEF S
<1>3. Nat \subseteq S
  BY <1>1, <1>2, SetInduction
<1>4. QED
  BY <1>3 DEF S

(* The format is unambiguous: two messages with the same bytes are the     *)
(* same message, so what message_parse makes of them is the only thing it  *)
(* could.                                                                  *)
THEOREM Unambiguous ==
  \A m, o \in Seq(GoodTlv) : Serialize(m) = Serialize(o) => m = o
<1>1. SUFFICES ASSUME NEW m \in Seq(GoodTlv), NEW o \in Seq(GoodTlv), Serialize(m) = Serialize(o)
               PROVE  m = o
  OBVIOUS
<1>2. Len(m) \in 0 .. Len(m) /\ Len(o) \in 0 .. Len(o) /\ SubSeq(m, 1, Len(m)) = m /\ SubSeq(o, 1, Len(o)) = o
  OBVIOUS
<1>3. Len(m) <= Len(o) /\ SubSeq(m, 1, Len(m)) = SubSeq(o, 1, Len(m))
  BY <1>1, <1>2, UnambiguousPrefix
<1>4. Len(o) <= Len(m)
  BY <1>1, <1>2, UnambiguousPrefix
<1>5. Len(m) = Len(o)
  <2>1. \A a, b \in Nat : a <= b /\ b <= a => a = b
    OBVIOUS
  <2>2. Len(m) \in Nat /\ Len(o) \in Nat
    BY <1>1
  <2>3. QED
    BY <1>3, <1>4, <2>1, <2>2
<1>6. QED
  BY <1>2, <1>3, <1>5

-----------------------------------------------------------------------------
(* The invariant *)

(* Lengths fit in two bytes, so that the header can say them. *)
Good == msg \in Seq(GoodTlv) /\ parsed \in Seq(GoodTlv)

PhaseInv ==
  /\ phase = "build" => wire = <<>> /\ ~foreign /\ parsed = <<>> /\ offset = 0
  /\ phase \in {"build", "parse"} => result = "NONE" /\ got = NoGet
  /\ phase \in {"done", "aborted"} => result # "NONE"

(* What has been parsed serializes to what has been consumed. *)
ParseInv ==
  /\ offset <= Len(wire)
  /\ phase = "parse" => Serialize(parsed) = SubSeq(wire, 1, offset)
  /\ result = "SUCCESS" => Serialize(parsed) = wire

AddedAt(k) ==
  IF msg[k].type = CHECKSUM THEN msg[k].value = Checksum(SubSeq(msg, 1, k - 1))
  ELSE msg[k].type \in TlvType /\ Len(msg[k].value) = Size[msg[k].type]

(* Each TLV of the message is one of those the callers add. *)
MsgInv == \A k \in 1 .. Len(msg) : AddedAt(k)

(* The parser of a sent message has read its first TLVs. *)
SentInv ==
  ~foreign =>
    /\ phase # "build" => wire = Serialize(msg)
    /\ phase = "parse" => \E k \in 0 .. Len(msg) : parsed = SubSeq(msg, 1, k)

Inv ==
  /\ TypeOK /\ Good /\ PhaseInv /\ ParseInv /\ MsgInv /\ SentInv
  /\ HeapAccounted /\ RoundTrip /\ GetsWhatWasAdded

LEMMA Constants ==
  /\ Base \in Nat /\ CHECKSUM \in Byte /\ TlvType \subseteq Byte /\ CHECKSUM \notin TlvType
  /\ \A t \in TlvType : Size[t] \in Nat
  /\ MaxTlvs \in Nat /\ MaxWire \in Nat
BY BaseOK, TypesOK, SizesOK, LimitsOK

LEMMA InitInv == Init => Inv
<1> SUFFICES ASSUME Init PROVE Inv
  OBVIOUS
<1>1. <<>> \in Seq(GoodTlv) /\ <<>> \in Seq(Byte) /\ <<>> \in Seq([type : Byte, value : Seq(Byte)])
      /\ Len(<<>>) = 0
  OBVIOUS
<1>2. msg = <<>> /\ wire = <<>> /\ parsed = <<>> /\ phase = "build" /\ foreign = FALSE
      /\ offset = 0 /\ heap = 0 /\ result = "NONE" /\ got = NoGet
  BY DEF Init
<1>3. NoGet.type = CHECKSUM /\ NoGet.result = "NONE" /\ NoGet.value = <<>>
  BY DEF NoGet
<1>4. TypeOK
  <2>1. Len(<<>>) <= MaxTlvs
    BY <1>1, Constants
  <2>2. \A m \in {msg, parsed} : m = <<>>
    BY <1>2
  <2>3. \A m \in {msg, parsed} : Len(m) <= MaxTlvs /\ m \in Seq([type : Byte, value : Seq(Byte)])
    BY <1>1, <2>1, <2>2, Zenon
  <2>4. wire \in Seq(Byte) /\ got.value \in Seq(Byte)
    BY <1>1, <1>2, <1>3, Zenon
  <2>5. QED
    BY <1>2, <1>3, <2>3, <2>4 DEF TypeOK
<1>5. Good /\ PhaseInv
  BY <1>1, <1>2 DEF Good, PhaseInv
<1>6. ParseInv
  <2>1. offset <= Len(wire)
    BY <1>1, <1>2
  <2>2. QED
    BY <1>2, <2>1 DEF ParseInv
<1>7. MsgInv
  BY <1>1, <1>2 DEF MsgInv
<1>8. SentInv /\ RoundTrip
  BY <1>2 DEF SentInv, RoundTrip
<1>9. HeapAccounted
  BY <1>1, <1>2 DEF HeapAccounted
<1>10. GetsWhatWasAdded
  BY <1>2 DEF GetsWhatWasAdded
<1>11. QED
  BY <1>4, <1>5, <1>6, <1>7, <1>8, <1>9, <1>10 DEF Inv

LEMMA AppendFacts ==
  ASSUME NEW S, NEW s \in Seq(S), NEW e \in S
  PROVE  /\ Append(s, e) \in Seq(S) /\ Len(Append(s, e)) = Len(s) + 1 /\ Len(s) \in Nat
         /\ Append(s, e)[Len(s) + 1] = e
         /\ SubSeq(Append(s, e), 1, Len(s)) = s
         /\ \A k \in 1 .. Len(s) : /\ Append(s, e)[k] = s[k]
                                  /\ SubSeq(Append(s, e), 1, k - 1) = SubSeq(s, 1, k - 1)
OBVIOUS

LEMMA GoodIsTlv ==
  ASSUME NEW m \in Seq(GoodTlv)
  PROVE  m \in Seq([type : Byte, value : Seq(Byte)])
<1>1. \A x : x \in GoodTlv => x \in [type : Byte, value : Seq(Byte)]
  BY DEF GoodTlv
<1> DEFINE R == [type : Byte, value : Seq(Byte)]
<1>2. GoodTlv \subseteq R
  BY <1>1
<1> HIDE DEF R
<1>3. m \in Seq(R)
  BY <1>2
<1>4. QED
  BY <1>3 DEF R

(* What is added is a checksum of what is there or a structure of a type.  *)
Addable(t, v) ==
  /\ Tlv(t, v) \in GoodTlv
  /\ IF t = CHECKSUM THEN v = Checksum(msg) ELSE t \in TlvType /\ Len(v) = Size[t]

LEMMA AddStep ==
  ASSUME Inv, NEW t, NEW v, Addable(t, v), TlvAdd(t, v)
  PROVE  Inv'
<1> USE DEF Inv
<1>1. /\ phase = "build" /\ phase' = phase /\ wire' = wire /\ foreign' = foreign
      /\ parsed' = parsed /\ offset' = offset /\ heap' = heap /\ result' = result /\ got' = got
      /\ msg' = msg \/ (Len(msg) < MaxTlvs /\ msg' = Append(msg, Tlv(t, v)))
  BY DEF TlvAdd
<1>2. /\ msg' \in Seq(GoodTlv) /\ Len(msg') <= MaxTlvs
      /\ \A k \in 1 .. Len(msg') : AddedAt(k)'
  <2>1. CASE msg' = msg
    BY <2>1 DEF Good, TypeOK, MsgInv, AddedAt
  <2>2. CASE Len(msg) < MaxTlvs /\ msg' = Append(msg, Tlv(t, v))
    <3> DEFINE e == Tlv(t, v)
    <3>1. /\ msg' \in Seq(GoodTlv) /\ Len(msg') = Len(msg) + 1 /\ Len(msg) \in Nat
          /\ msg'[Len(msg) + 1] = e
          /\ SubSeq(msg', 1, Len(msg)) = msg
          /\ \A k \in 1 .. Len(msg) : msg'[k] = msg[k] /\ SubSeq(msg', 1, k - 1) = SubSeq(msg, 1, k - 1)
      BY <2>2, AppendFacts DEF Good, Addable
    <3>2. e.type = t /\ e.value = v
      BY DEF Tlv
    <3>3. ASSUME NEW k \in 1 .. Len(msg') PROVE AddedAt(k)'
      <4>1. CASE k \in 1 .. Len(msg)
        <5>1. AddedAt(k)
          BY <4>1 DEF MsgInv
        <5>2. msg'[k] = msg[k] /\ SubSeq(msg', 1, k - 1) = SubSeq(msg, 1, k - 1)
          BY <3>1, <4>1
        <5>3. QED
          BY <5>1, <5>2 DEF AddedAt
      <4>2. CASE k = Len(msg) + 1
        <5>1. msg'[k] = e /\ k - 1 = Len(msg) /\ SubSeq(msg', 1, k - 1) = msg
          BY <3>1, <4>2
        <5>2. QED
          BY <3>2, <5>1, Zenon DEF AddedAt, Addable
      <4>3. QED
        BY <3>1, <4>1, <4>2
    <3>4. Len(msg') <= MaxTlvs
      BY <2>2, <3>1, Constants
    <3>5. QED
      BY <3>1, <3>3, <3>4
  <2>3. QED
    BY <1>1, <2>1, <2>2
<1>3. TypeOK'
  <2>1. msg' \in Seq([type : Byte, value : Seq(Byte)])
    BY <1>2, GoodIsTlv
  <2>2. QED
    BY <1>1, <1>2, <2>1 DEF TypeOK
<1>4. Good'
  BY <1>1, <1>2 DEF Good
<1>5. PhaseInv' /\ ParseInv' /\ HeapAccounted'
  BY <1>1 DEF PhaseInv, ParseInv, HeapAccounted
<1>6. MsgInv'
  BY <1>2 DEF MsgInv
<1>7. SentInv' /\ RoundTrip'
  BY <1>1 DEF SentInv, RoundTrip
<1>8. GetsWhatWasAdded'
  BY <1>1 DEF GetsWhatWasAdded, PhaseInv
<1>9. QED
  BY <1>3, <1>4, <1>5, <1>6, <1>7, <1>8

LEMMA AddsGood ==
  ASSUME Inv, CrcOK
  PROVE  /\ \A t \in TlvType, v \in Value : Len(v) = Size[t] => Addable(t, v)
         /\ Addable(CHECKSUM, Checksum(msg))
<1>1. ASSUME NEW t \in TlvType, NEW v \in Value, Len(v) = Size[t] PROVE Addable(t, v)
  BY <1>1, Constants, ValuesOK DEF Addable, Tlv, GoodTlv
<1>2. msg \in Seq(GoodTlv)
  BY DEF Inv, Good
<1>3. Checksum(msg) \in Seq(Byte) /\ Len(Checksum(msg)) < Base * Base
  BY <1>2, ChecksumGood
<1>4. Tlv(CHECKSUM, Checksum(msg)) \in GoodTlv
  BY <1>3, Constants DEF Tlv, GoodTlv
<1>5. QED
  BY <1>1, <1>4 DEF Addable

LEMMA SendStep ==
  ASSUME Inv, Send
  PROVE  Inv'
<1> USE DEF Inv
<1>1. /\ phase = "build" /\ phase' = "parse" /\ wire' = Serialize(msg)
      /\ msg' = msg /\ foreign' = foreign /\ parsed' = parsed /\ offset' = offset
      /\ heap' = heap /\ result' = result /\ got' = got
  BY DEF Send
<1>2. parsed = <<>> /\ offset = 0 /\ result = "NONE" /\ got = NoGet
  BY <1>1 DEF PhaseInv
<1>3. wire' \in Seq(Byte) /\ Len(wire') \in Nat
  BY <1>1, SerializeType DEF Good
<1>4. TypeOK' /\ Good'
  BY <1>1, <1>3 DEF TypeOK, Good
<1>5. PhaseInv'
  BY <1>1, <1>2 DEF PhaseInv
<1>6. ParseInv'
  <2>1. SubSeq(wire', 1, 0) = <<>>
    BY <1>3
  <2>2. offset' <= Len(wire') /\ result' # "SUCCESS"
    BY <1>1, <1>2, <1>3
  <2>3. Serialize(parsed') = SubSeq(wire', 1, offset')
    BY <1>1, <1>2, <2>1, SerializeEmpty
  <2>4. QED
    BY <2>2, <2>3 DEF ParseInv
<1>7. MsgInv' /\ HeapAccounted'
  BY <1>1 DEF MsgInv, AddedAt, HeapAccounted
<1>8. SentInv'
  <2>1. SubSeq(msg, 1, 0) = <<>> /\ 0 \in 0 .. Len(msg)
    BY DEF Good
  <2>2. QED
    BY <1>1, <1>2, <2>1 DEF SentInv
<1>9. RoundTrip' /\ GetsWhatWasAdded'
  BY <1>1, <1>2 DEF RoundTrip, GetsWhatWasAdded
<1>10. QED
  BY <1>4, <1>5, <1>6, <1>7, <1>8, <1>9

LEMMA ArriveStep ==
  ASSUME Inv, Arrive
  PROVE  Inv'
<1> USE DEF Inv
<1>1. /\ phase = "build" /\ phase' = "parse" /\ foreign' = TRUE
      /\ msg' = msg /\ parsed' = parsed /\ offset' = offset
      /\ heap' = heap /\ result' = result /\ got' = got
  BY DEF Arrive
<1>2. parsed = <<>> /\ offset = 0 /\ result = "NONE" /\ got = NoGet
  BY <1>1 DEF PhaseInv
<1>3. wire' \in Seq(Byte) /\ Len(wire') \in Nat
  BY DEF Arrive
<1>4. TypeOK' /\ Good'
  BY <1>1, <1>3 DEF TypeOK, Good
<1>5. PhaseInv'
  BY <1>1, <1>2 DEF PhaseInv
<1>6. ParseInv'
  <2>1. SubSeq(wire', 1, 0) = <<>>
    BY <1>3
  <2>2. offset' <= Len(wire') /\ result' # "SUCCESS"
    BY <1>1, <1>2, <1>3
  <2>3. Serialize(parsed') = SubSeq(wire', 1, offset')
    BY <1>1, <1>2, <2>1, SerializeEmpty
  <2>4. QED
    BY <2>2, <2>3 DEF ParseInv
<1>7. MsgInv' /\ HeapAccounted'
  BY <1>1 DEF MsgInv, AddedAt, HeapAccounted
<1>8. SentInv' /\ RoundTrip' /\ GetsWhatWasAdded'
  BY <1>1 DEF SentInv, RoundTrip, GetsWhatWasAdded
<1>9. QED
  BY <1>4, <1>5, <1>6, <1>7, <1>8

(* Lengths and values at the offset, as the lemmas above name them *)
LEMMA AtOffset ==
  ASSUME Inv
  PROVE  /\ Announces(wire, offset, ValueLength(offset))
         /\ Tlv(wire[offset + 1], ValueAt(offset)) = Taken(wire, offset, ValueLength(offset))
         /\ offset + 3 <= Len(wire) => ValueLength(offset) \in Nat
<1>1. Announces(wire, offset, ValueLength(offset))
  BY DEF Announces, ValueLength
<1>2. Tlv(wire[offset + 1], ValueAt(offset)) = Taken(wire, offset, ValueLength(offset))
  BY DEF ValueAt, HeaderSize, Taken
<1>3. ASSUME offset + 3 <= Len(wire) PROVE ValueLength(offset) \in Nat
  <2>1. wire \in Seq(Byte) /\ offset \in Nat
    BY DEF Inv, TypeOK
  <2>2. wire[offset + 2] \in Byte /\ wire[offset + 3] \in Byte
    BY <1>3, <2>1
  <2>3. wire[offset + 2] * Base + wire[offset + 3] \in Nat
    BY <2>2, JoinBytes
  <2>4. QED
    BY <2>3 DEF ValueLength
<1>4. QED
  BY <1>1, <1>2, <1>3

(* The parser of a sent message has read k of its TLVs; unless these are   *)
(* all, the next one is there.                                             *)
LEMMA SentNext ==
  ASSUME Inv, ~foreign, phase = "parse"
  PROVE  \E k \in 0 .. Len(msg) :
           /\ parsed = SubSeq(msg, 1, k) /\ Len(parsed) = k
           /\ k = Len(msg) => parsed = msg /\ offset = Len(wire)
           /\ k < Len(msg) =>
                /\ offset < Len(wire) /\ Fits(offset)
                /\ Tlv(wire[offset + 1], ValueAt(offset)) = msg[k + 1]
<1>1. PICK k \in 0 .. Len(msg) : parsed = SubSeq(msg, 1, k)
  BY DEF Inv, SentInv
<1>2. msg \in Seq(GoodTlv) /\ wire \in Seq(Byte) /\ offset \in Nat /\ offset <= Len(wire)
  BY DEF Inv, Good, TypeOK, ParseInv
<1>3. wire = Serialize(msg) /\ Serialize(parsed) = SubSeq(wire, 1, offset)
  BY DEF Inv, SentInv, ParseInv
<1>4. Len(parsed) = k /\ (k = Len(msg) => parsed = msg)
  BY <1>1, <1>2
<1>5. Len(Serialize(parsed)) = offset
  <2>1. Len(SubSeq(wire, 1, offset)) = offset
    BY <1>2
  <2>2. QED
    BY <1>3, <2>1
<1>6. ASSUME k = Len(msg) PROVE offset = Len(wire)
  BY <1>3, <1>4, <1>5, <1>6
<1>7. ASSUME k < Len(msg)
      PROVE  /\ offset < Len(wire) /\ Fits(offset)
             /\ Tlv(wire[offset + 1], ValueAt(offset)) = msg[k + 1]
  <2> DEFINE n == Len(msg[k + 1].value)
  <2>1. /\ offset < Len(wire) /\ offset + 3 + n <= Len(wire)
        /\ Announces(wire, offset, n) /\ Taken(wire, offset, n) = msg[k + 1]
    BY <1>1, <1>2, <1>3, <1>5, <1>7, NextTlv
  <2>2. n \in Nat
    BY <1>2, <1>7 DEF GoodTlv
  <2> HIDE DEF n
  <2>3. ValueLength(offset) = n
    BY <2>1, AtOffset, SameLength
  <2>4. offset + 3 <= Len(wire)
    BY <1>2, <2>1, <2>2
  <2>5. Fits(offset)
    BY <2>1, <2>3, <2>4 DEF Fits, HeaderSize
  <2>6. QED
    BY <2>1, <2>3, <2>5, AtOffset
<1>8. QED
  BY <1>1, <1>4, <1>6, <1>7

LEMMA FailStep ==
  ASSUME Inv, NEW why \in Failures, NEW stray, More, Fail(why, stray),
         stray = IF why = "CHECKSUM_MISMATCH" THEN 1 ELSE 0,
         foreign \/ why = "OUT_OF_MEMORY"
  PROVE  Inv'
<1> USE DEF Inv
<1>1. /\ phase = "parse" /\ phase' = "done" /\ result' = why /\ parsed' = <<>>
      /\ heap' = (heap + stray) - Len(parsed)
      /\ msg' = msg /\ wire' = wire /\ foreign' = foreign /\ offset' = offset /\ got' = got
  BY DEF More, Fail
<1>2. result = "NONE" /\ got = NoGet
  BY <1>1 DEF PhaseInv
<1>3. heap' = stray /\ stray \in Nat
  <2>1. heap = Len(parsed) + 0 /\ Len(parsed) \in Nat
    BY <1>2 DEF HeapAccounted, Good
  <2>2. QED
    BY <1>1, <2>1
<1>4. <<>> \in Seq(GoodTlv) /\ <<>> \in Seq([type : Byte, value : Seq(Byte)]) /\ Len(<<>>) = 0
  OBVIOUS
<1>5. TypeOK'
  <2>1. parsed' \in Seq([type : Byte, value : Seq(Byte)]) /\ Len(parsed') <= MaxTlvs
    BY <1>1, <1>4, Constants
  <2>2. \A m \in {msg', parsed'} :
          Len(m) <= MaxTlvs /\ m \in Seq([type : Byte, value : Seq(Byte)])
    BY <1>1, <2>1 DEF TypeOK
  <2>3. QED
    BY <1>1, <1>3, <2>2 DEF TypeOK
<1>6. why # "SUCCESS" /\ why # "NONE"
  BY DEF Failures
<1>7. Good' /\ PhaseInv' /\ ParseInv'
  BY <1>1, <1>4, <1>6 DEF Good, PhaseInv, ParseInv
<1>8. MsgInv' /\ SentInv'
  BY <1>1 DEF MsgInv, AddedAt, SentInv
<1>9. HeapAccounted'
  <2>1. Len(parsed') = 0 /\ heap' = 0 + stray
    BY <1>1, <1>3, <1>4
  <2>2. stray = IF result' = "CHECKSUM_MISMATCH" THEN 1 ELSE 0
    BY <1>1
  <2>3. heap' = Len(parsed') + stray
    BY <2>1
  <2>4. QED
    BY <2>2, <2>3, Zenon DEF HeapAccounted
<1>10. RoundTrip' /\ GetsWhatWasAdded'
  BY <1>1, <1>2 DEF RoundTrip, GetsWhatWasAdded
<1>11. QED
  BY <1>5, <1>7, <1>8, <1>9, <1>10

(* A sent message is not refused. *)
LEMMA SentAccepted ==
  ASSUME Inv, CrcOK, ~foreign
  PROVE  ~TooManyTlvs /\ ~ParseError /\ ~ChecksumMismatch
<1>1. SUFFICES ASSUME phase = "parse", offset < Len(wire)
               PROVE  ~TooManyTlvs /\ ~ParseError /\ ~ChecksumMismatch
  BY DEF TooManyTlvs, ParseError, ChecksumMismatch, OneTlv, More
<1>2. PICK k \in 0 .. Len(msg) :
           /\ parsed = SubSeq(msg, 1, k) /\ Len(parsed) = k
           /\ k = Len(msg) => parsed = msg /\ offset = Len(wire)
           /\ k < Len(msg) =>
                /\ offset < Len(wire) /\ Fits(offset)
                /\ Tlv(wire[offset + 1], ValueAt(offset)) = msg[k + 1]
  BY <1>1, SentNext
<1>3. msg \in Seq(GoodTlv) /\ Len(msg) <= MaxTlvs /\ offset \in Nat /\ wire \in Seq(Byte)
  BY DEF Inv, Good, TypeOK
<1>4. k < Len(msg)
  <2>1. k # Len(msg)
    BY <1>1, <1>2, <1>3
  <2>2. QED
    BY <1>3, <2>1
<1>5. ~TooManyTlvs
  BY <1>2, <1>3, <1>4, Constants DEF TooManyTlvs
<1>6. ~ParseError
  BY <1>2, <1>4 DEF ParseError
<1>7. ASSUME IsChecksum PROVE ~MayDiffer(ValueAt(offset))
  <2>1. msg[k + 1].type = CHECKSUM /\ msg[k + 1].value = ValueAt(offset)
    BY <1>2, <1>4, <1>7 DEF Tlv, IsChecksum
  <2>2. AddedAt(k + 1)
    BY <1>3, <1>4 DEF Inv, MsgInv
  <2>3. (k + 1) - 1 = k
    OBVIOUS
  <2>4. ValueAt(offset) = Checksum(parsed)
    BY <1>2, <2>1, <2>2, <2>3, Zenon DEF AddedAt
  <2>5. Checksum(parsed) \in Seq(Byte) /\ Len(Checksum(parsed)) > 0
    BY ChecksumGood DEF Inv, Good
  <2>6. 1 \in DOMAIN Checksum(parsed)
    BY <2>5
  <2>7. QED
    BY <2>4, <2>6 DEF MayDiffer, Agrees, Compared
<1>8. ~ChecksumMismatch
  BY <1>7 DEF ChecksumMismatch
<1>9. QED
  BY <1>5, <1>6, <1>8

LEMMA ParseStep ==
  ASSUME Inv, ParseTlv
  PROVE  Inv'
<1> USE DEF Inv
<1> DEFINE t == Tlv(wire[offset + 1], ValueAt(offset))
           n == ValueLength(offset)
<1>1. /\ phase = "parse" /\ offset < Len(wire) /\ Len(parsed) < MaxTlvs /\ Fits(offset)
      /\ phase' = phase /\ parsed' = Append(parsed, t) /\ heap' = heap + 1 /\ offset' = offset + 3 + n
      /\ msg' = msg /\ wire' = wire /\ foreign' = foreign /\ result' = result /\ got' = got
  BY DEF ParseTlv, OneTlv, More, HeaderSize
<1>2. result = "NONE" /\ got = NoGet
  BY <1>1 DEF PhaseInv
<1>3. /\ parsed \in Seq(GoodTlv) /\ wire \in Seq(Byte) /\ offset \in Nat
      /\ offset + 3 <= Len(wire) /\ offset + 3 + n <= Len(wire)
  BY <1>1 DEF Good, TypeOK, Fits, HeaderSize
<1>4. n \in Nat /\ Announces(wire, offset, n) /\ t = Taken(wire, offset, n)
  BY <1>3, AtOffset
<1> HIDE DEF t, n
<1>5. t \in GoodTlv
  BY <1>3, <1>4, TakenFacts
<1>6. parsed' \in Seq(GoodTlv) /\ Len(parsed') = Len(parsed) + 1 /\ Len(parsed) \in Nat
  BY <1>1, <1>3, <1>5, AppendFacts
<1>7. TypeOK'
  <2>0. Len(parsed') <= MaxTlvs
    BY <1>1, <1>6, Constants
  <2>1. parsed' \in Seq([type : Byte, value : Seq(Byte)]) /\ Len(parsed') <= MaxTlvs
    BY <1>6, <2>0, GoodIsTlv
  <2>2. \A m \in {msg', parsed'} :
          Len(m) <= MaxTlvs /\ m \in Seq([type : Byte, value : Seq(Byte)])
    BY <1>1, <2>1 DEF TypeOK
  <2>3. offset' \in Nat /\ heap' \in Nat
    BY <1>1, <1>3, <1>4 DEF TypeOK
  <2>4. QED
    BY <1>1, <2>2, <2>3 DEF TypeOK
<1>8. Good' /\ PhaseInv'
  BY <1>1, <1>6 DEF Good, PhaseInv
<1>9. ParseInv'
  <2>1. Serialize(parsed) = SubSeq(wire, 1, offset)
    BY <1>1 DEF ParseInv
  <2>2. Serialize(Append(parsed, t)) = SubSeq(wire, 1, offset + 3 + n)
    BY <1>3, <1>4, <2>1, TakeStep
  <2>3. Serialize(parsed') = SubSeq(wire', 1, offset')
    BY <1>1, <2>2, Zenon
  <2>4. offset' <= Len(wire') /\ result' # "SUCCESS"
    BY <1>1, <1>2, <1>3
  <2>5. QED
    BY <2>3, <2>4 DEF ParseInv
<1>10. MsgInv'
  BY <1>1 DEF MsgInv, AddedAt
<1>11. SentInv'
  <2>1. SUFFICES ASSUME ~foreign PROVE \E k \in 0 .. Len(msg) : parsed' = SubSeq(msg, 1, k)
    BY <1>1 DEF SentInv
  <2>2. PICK k \in 0 .. Len(msg) :
           /\ parsed = SubSeq(msg, 1, k) /\ Len(parsed) = k
           /\ k = Len(msg) => parsed = msg /\ offset = Len(wire)
           /\ k < Len(msg) =>
                /\ offset < Len(wire) /\ Fits(offset)
                /\ Tlv(wire[offset + 1], ValueAt(offset)) = msg[k + 1]
    BY <1>1, <2>1, SentNext
  <2>3. msg \in Seq(GoodTlv) /\ Len(msg) \in Nat
    BY DEF Good
  <2>4. k < Len(msg) /\ k + 1 \in 0 .. Len(msg)
    <3>1. k # Len(msg)
      BY <1>1, <1>3, <2>2
    <3>2. QED
      BY <2>3, <3>1
  <2>5. SubSeq(msg, 1, k + 1) = Append(SubSeq(msg, 1, k), msg[k + 1])
    BY <2>3, <2>4, Prefix
  <2>6. t = msg[k + 1]
    BY <2>2, <2>4 DEF t
  <2>7. parsed' = SubSeq(msg, 1, k + 1)
    BY <1>1, <2>2, <2>5, <2>6, Zenon
  <2>8. QED
    BY <2>4, <2>7
<1>12. HeapAccounted'
  <2>1. heap = Len(parsed) + 0
    BY <1>2 DEF HeapAccounted
  <2>2. heap' = Len(parsed') + 0
    BY <1>1, <1>6, <2>1
  <2>3. QED
    BY <1>1, <1>2, <2>2 DEF HeapAccounted
<1>13. RoundTrip' /\ GetsWhatWasAdded'
  BY <1>1, <1>2 DEF RoundTrip, GetsWhatWasAdded
<1>14. QED
  BY <1>7, <1>8, <1>9, <1>10, <1>11, <1>12, <1>13

LEMMA SuccessStep ==
  ASSUME Inv, Success
  PROVE  Inv'
<1> USE DEF Inv
<1>1. /\ phase = "parse" /\ offset >= Len(wire) /\ phase' = "done" /\ result' = "SUCCESS"
      /\ msg' = msg /\ wire' = wire /\ foreign' = foreign /\ parsed' = parsed
      /\ offset' = offset /\ heap' = heap /\ got' = got
  BY DEF Success
<1>2. result = "NONE" /\ got = NoGet /\ wire \in Seq(Byte) /\ offset \in Nat
  BY <1>1 DEF PhaseInv, TypeOK
<1>3. offset = Len(wire)
  <2>1. offset <= Len(wire)
    BY DEF ParseInv
  <2>2. QED
    BY <1>1, <1>2, <2>1
<1>4. TypeOK' /\ Good' /\ PhaseInv'
  BY <1>1 DEF TypeOK, Good, PhaseInv
<1>5. ParseInv'
  <2>1. Serialize(parsed) = SubSeq(wire, 1, offset)
    BY <1>1 DEF ParseInv
  <2>2. SubSeq(wire, 1, Len(wire)) = wire
    BY <1>2
  <2>3. Serialize(parsed) = wire
    BY <1>3, <2>1, <2>2, Zenon
  <2>4. QED
    BY <1>1, <2>3 DEF ParseInv
<1>6. MsgInv' /\ SentInv'
  BY <1>1 DEF MsgInv, AddedAt, SentInv
<1>7. HeapAccounted'
  BY <1>1, <1>2 DEF HeapAccounted
<1>8. RoundTrip'
  <2>1. SUFFICES ASSUME ~foreign PROVE parsed = msg
    BY <1>1 DEF RoundTrip
  <2>2. PICK k \in 0 .. Len(msg) :
          (k = Len(msg) => parsed = msg) /\ (k < Len(msg) => offset < Len(wire))
    BY <1>1, <2>1, SentNext
  <2>3. k = Len(msg)
    <3>1. ~(k < Len(msg)) /\ Len(msg) \in Nat
      BY <1>2, <1>3, <2>2 DEF Good
    <3>2. QED
      BY <3>1
  <2>4. QED
    BY <2>2, <2>3
<1>9. GetsWhatWasAdded'
  BY <1>1, <1>2 DEF GetsWhatWasAdded
<1>10. QED
  BY <1>4, <1>5, <1>6, <1>7, <1>8, <1>9

(* Adding nothing changes nothing. *)
LEMMA Padding ==
  ASSUME NEW S, NEW v \in Seq(S), NEW n \in Nat, NEW rest \in [1 .. n -> S]
  PROVE  v \o rest \in Seq(S) /\ (n = 0 => v \o rest = v)
OBVIOUS

(* What a getter does to the invariants that do not read it: nothing *)
LEMMA GetFrame ==
  ASSUME Inv, NEW t \in TlvType, TlvGet(t),
         phase' \in {"done", "aborted"},
         got'.type \in TlvType \cup {CHECKSUM}, got'.value \in Seq(Byte),
         got'.result \in {"NONE", "SUCCESS", "TLV_NOT_FOUND"},
         GetsWhatWasAdded'
  PROVE  Inv'
<1> USE DEF Inv
<1>1. /\ phase = "done" /\ result = "SUCCESS" /\ msg' = msg /\ wire' = wire /\ foreign' = foreign
      /\ parsed' = parsed /\ offset' = offset /\ heap' = heap /\ result' = result
  BY DEF TlvGet
<1>2. TypeOK' /\ Good' /\ PhaseInv'
  BY <1>1 DEF TypeOK, Good, PhaseInv
<1>3. ParseInv'
  BY <1>1 DEF ParseInv
<1>4. MsgInv' /\ SentInv'
  BY <1>1 DEF MsgInv, AddedAt, SentInv
<1>5. HeapAccounted' /\ RoundTrip'
  BY <1>1 DEF HeapAccounted, RoundTrip
<1>6. QED
  BY <1>2, <1>3, <1>4, <1>5

LEMMA GetStep ==
  ASSUME Inv, NEW t \in TlvType, TlvGet(t)
  PROVE  Inv'
<1>1. /\ phase = "done" /\ result = "SUCCESS" /\ msg' = msg /\ foreign' = foreign
      /\ parsed' = parsed /\ (NotFound(t) \/ Found(t))
  BY DEF TlvGet
<1>2. msg \in Seq(GoodTlv) /\ parsed \in Seq(GoodTlv) /\ (~foreign => parsed = msg)
  BY <1>1 DEF Inv, Good, RoundTrip
<1>3. Size[t] \in Nat /\ t # CHECKSUM
  BY Constants
<1>4. CASE NotFound(t)
  <2>1. /\ \A i \in DOMAIN parsed : parsed[i].type # t
        /\ got' = [type |-> t, result |-> "TLV_NOT_FOUND", value |-> <<>>] /\ phase' = phase
    BY <1>4 DEF NotFound, Gets
  <2>2. <<>> \in Seq(Byte)
    OBVIOUS
  <2>3. got'.type = t /\ got'.result = "TLV_NOT_FOUND" /\ got'.value = <<>>
    BY <2>1
  <2>4. GetsWhatWasAdded'
    <3>1. ASSUME ~foreign PROVE {i \in DOMAIN msg : msg[i].type = t} = {}
      BY <1>2, <2>1, <3>1
    <3>2. QED
      BY <1>1, <2>1, <2>3, <3>1, Zenon DEF GetsWhatWasAdded
  <2>5. QED
    BY <1>1, <2>1, <2>2, <2>3, <2>4, GetFrame
<1>5. CASE Found(t)
  <2>1. PICK i \in DOMAIN parsed :
          /\ parsed[i].type = t /\ \A j \in 1 .. i - 1 : parsed[j].type # t
          /\ Got(t, parsed[i].value)
    BY <1>5 DEF Found
  <2> DEFINE v == parsed[i].value
  <2>2. i \in 1 .. Len(parsed) /\ Len(parsed) \in Nat /\ v \in Seq(Byte) /\ Len(v) \in Nat
    <3>1. i \in 1 .. Len(parsed) /\ Len(parsed) \in Nat /\ parsed[i] \in GoodTlv
      BY <1>2
    <3>2. \A x \in GoodTlv : x.value \in Seq(Byte)
      BY DEF GoodTlv
    <3>3. v \in Seq(Byte)
      BY <3>1, <3>2
    <3>4. Len(v) \in Nat
      BY <3>3
    <3>5. QED
      BY <3>1, <3>3, <3>4
  <2>3. ASSUME ~foreign
        PROVE  /\ i \in DOMAIN msg /\ msg[i].type = t /\ msg[i].value = v /\ Len(v) = Size[t]
               /\ \A j \in DOMAIN msg : msg[j].type = t => i <= j
    <3>1. parsed = msg
      BY <1>2, <2>3
    <3>2. AddedAt(i)
      BY <2>2, <3>1 DEF Inv, MsgInv
    <3>3. Len(v) = Size[t]
      BY <1>3, <2>1, <3>1, <3>2 DEF AddedAt
    <3>4. ASSUME NEW j \in DOMAIN msg, msg[j].type = t PROVE i <= j
      <4>1. j \in 1 .. Len(msg) /\ Len(msg) \in Nat
        BY <1>2
      <4>2. ~(j \in 1 .. i - 1)
        BY <2>1, <3>1, <3>4
      <4>3. QED
        BY <2>2, <4>1, <4>2
    <3>5. QED
      BY <2>1, <3>1, <3>3, <3>4
  <2> HIDE DEF v
  <2>4. Copies(t, v) \/ Aborts(t, v)
    BY <2>1 DEF Got, v
  <2>5. CASE Copies(t, v)
    <3>1. PICK rest \in [1 .. Size[t] - Len(v) -> Byte] :
            /\ Len(v) <= Size[t] /\ phase' = phase
            /\ got' = [type |-> t, result |-> "SUCCESS", value |-> v \o rest]
      BY <2>5 DEF Copies, Gets
    <3> DEFINE n == Size[t] - Len(v)
    <3>2. n \in Nat /\ (Len(v) = Size[t] => n = 0)
      BY <1>3, <2>2, <3>1
    <3> HIDE DEF n
    <3>3. v \o rest \in Seq(Byte) /\ (n = 0 => v \o rest = v)
      <4>1. rest \in [1 .. n -> Byte]
        BY DEF n
      <4>2. QED
        BY <2>2, <3>2, <4>1, Padding
    <3>4. got'.type = t /\ got'.result = "SUCCESS" /\ got'.value = v \o rest
      BY <3>1
    <3>5. GetsWhatWasAdded'
      <4>1. SUFFICES ASSUME ~foreign
                     PROVE  LET added == {k \in DOMAIN msg : msg[k].type = t} IN
                              /\ added # {}
                              /\ \E k \in added : (\A j \in added : k <= j) /\ got'.value = msg[k].value
        BY <1>1, <3>1, <3>4, Zenon DEF GetsWhatWasAdded
      <4>2. got'.value = v
        BY <2>3, <3>2, <3>3, <3>4, <4>1
      <4>3. QED
        BY <2>3, <4>1, <4>2
    <3>6. QED
      BY <1>1, <3>1, <3>3, <3>4, <3>5, GetFrame
  <2>6. CASE Aborts(t, v)
    <3>1. Len(v) > Size[t] /\ phase' = "aborted" /\ got' = got
      BY <2>6 DEF Aborts
    <3>2. foreign
      BY <1>3, <2>2, <2>3, <3>1
    <3>3. GetsWhatWasAdded'
      BY <1>1, <3>2 DEF GetsWhatWasAdded
    <3>4. /\ got'.type \in TlvType \cup {CHECKSUM} /\ got'.value \in Seq(Byte)
          /\ got'.result \in {"NONE", "SUCCESS", "TLV_NOT_FOUND"}
      BY <3>1 DEF Inv, TypeOK
    <3>5. QED
      BY <3>1, <3>3, <3>4, GetFrame
  <2>7. QED
    BY <2>4, <2>5, <2>6
<1>6. QED
  BY <1>1, <1>4, <1>5

LEMMA StutterStep ==
  ASSUME Inv, UNCHANGED vars
  PROVE  Inv'
BY DEF vars, Inv, TypeOK, Good, PhaseInv, ParseInv, MsgInv, AddedAt, SentInv,
       HeapAccounted, RoundTrip, GetsWhatWasAdded

LEMMA InvStep ==
  ASSUME CrcOK, Inv, [Next]_vars
  PROVE  Inv'
<1>1. ASSUME NEW t \in TlvType, NEW v \in Value, Len(v) = Size[t], TlvAdd(t, v) PROVE Inv'
  BY <1>1, AddStep, AddsGood
<1>2. CASE AddChecksum
  BY <1>2, AddStep, AddsGood DEF AddChecksum
<1>3. CASE Send
  BY <1>3, SendStep
<1>4. CASE Arrive
  BY <1>4, ArriveStep
<1>5. CASE TooManyTlvs
  <2>1. More /\ Fail("TOO_MANY_TLVS", 0) /\ "TOO_MANY_TLVS" \in Failures /\ foreign
    BY <1>5, SentAccepted DEF TooManyTlvs, Failures
  <2>2. QED
    BY <2>1, FailStep
<1>6. CASE ParseError
  <2>1. More /\ Fail("PARSE_ERROR", 0) /\ "PARSE_ERROR" \in Failures /\ foreign
    BY <1>6, SentAccepted DEF ParseError, Failures
  <2>2. QED
    BY <2>1, FailStep
<1>7. CASE OutOfMemory
  <2>1. More /\ Fail("OUT_OF_MEMORY", 0) /\ "OUT_OF_MEMORY" \in Failures
    BY <1>7 DEF OutOfMemory, OneTlv, Failures
  <2>2. QED
    BY <2>1, FailStep
<1>8. CASE ChecksumMismatch
  <2>1. More /\ Fail("CHECKSUM_MISMATCH", 1) /\ "CHECKSUM_MISMATCH" \in Failures /\ foreign
    BY <1>8, SentAccepted DEF ChecksumMismatch, OneTlv, Failures
  <2>2. QED
    BY <2>1, FailStep
<1>9. CASE ParseTlv
  BY <1>9, ParseStep
<1>10. CASE Success
  BY <1>10, SuccessStep
<1>11. ASSUME NEW t \in TlvType, TlvGet(t) PROVE Inv'
  BY <1>11, GetStep
<1>12. CASE UNCHANGED vars
  BY <1>12, StutterStep
<1>13. QED
  BY <1>1, <1>2, <1>3, <1>4, <1>5, <1>6, <1>7, <1>8, <1>9, <1>10, <1>11, <1>12 DEF Next

LEMMA Invariant == ASSUME CrcOK PROVE Spec => []Inv
<1>1. Inv /\ [Next]_vars => Inv'
  BY InvStep
<1>2. QED
  BY InitInv, <1>1, PTL DEF Spec

-----------------------------------------------------------------------------
(* The fields of a message keep their types, whatever arrives. *)
THEOREM TypeCorrect == ASSUME CrcOK PROVE Spec => []TypeOK
<1>1. Inv => TypeOK
  BY DEF Inv
<1>2. QED
  BY <1>1, Invariant, PTL

(* message_parse never consumes more bytes than it was given. *)
THEOREM ParserStaysInside == ASSUME CrcOK PROVE Spec => []StaysInside
<1>1. Inv => StaysInside
  BY DEF Inv, ParseInv, StaysInside
<1>2. QED
  BY <1>1, Invariant, PTL

(* Every block message_parse allocates is one that message_free will find, *)
(* except the one a checksum mismatch leaves behind.                       *)
THEOREM BlocksAccounted == ASSUME CrcOK PROVE Spec => []HeapAccounted
<1>1. Inv => HeapAccounted
  BY DEF Inv
<1>2. QED
  BY <1>1, Invariant, PTL

(* What message_parse accepts, message_serialize gives back byte by byte.  *)
THEOREM ParserFaithful == ASSUME CrcOK PROVE Spec => []Faithful
<1>1. Inv => Faithful
  BY DEF Inv, ParseInv, Faithful
<1>2. QED
  BY <1>1, Invariant, PTL

(* A message sent is read back TLV by TLV, however many TLVs it has and    *)
(* however long their values are: message_parse inverts message_serialize. *)
THEOREM ReadsWhatWasSent == ASSUME CrcOK PROVE Spec => []RoundTrip
<1>1. Inv => RoundTrip
  BY DEF Inv
<1>2. QED
  BY <1>1, Invariant, PTL

(* The typed getters return the structures that were added, the first of   *)
(* each type, and never abort on a sent message.                           *)
THEOREM GettersReturnAdded == ASSUME CrcOK PROVE Spec => []GetsWhatWasAdded
<1>1. Inv => GetsWhatWasAdded
  BY DEF Inv
<1>2. QED
  BY <1>1, Invariant, PTL
=============================================================================
