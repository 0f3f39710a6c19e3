--------------------------- MODULE ComLynxProofs ---------------------------
(***************************************************************************)
(* Theorems about fuji_bus_call() over ComLynx, for any calls and replies, *)
(* any number of bytes lost or garbled, and a FujiNet as late as it likes. *)
(*                                                                         *)
(* The invariant looks at the bytes on their way to the Lynx, those in its *)
(* receive buffer and behind them those on the wire, as one sequence, the  *)
(* Stream, and says what it holds at each step of the call: for every step *)
(* takes a byte from the front, and each byte lost or garbled is a byte of *)
(* it.                                                                     *)
(***************************************************************************)
EXTENDS ComLynx, SequenceTheorems, FiniteSetTheorems, TLAPS

(***************************************************************************)
(* Bits and checksums.                                                     *)
(***************************************************************************)

Weights == {1, 2, 4, 8, 16, 32, 64, 128}

LEMMA BitType ==
  ASSUME NEW v \in Byte, NEW w \in Weights
  PROVE  Bit(v, w) \in {0, 1}
BY DEF Byte, Weights, Bit

(* A byte is its bits. *)
LEMMA ByteOfBits ==
  ASSUME NEW v \in Byte
  PROVE  v = Bit(v, 1) + 2 * Bit(v, 2) + 4 * Bit(v, 4) + 8 * Bit(v, 8)
             + 16 * Bit(v, 16) + 32 * Bit(v, 32) + 64 * Bit(v, 64) + 128 * Bit(v, 128)
BY DEF Byte, Bit

LEMMA BytesDiffer ==
  ASSUME NEW v \in Byte, NEW u \in Byte, v # u
  PROVE  \E w \in Weights : Bit(v, w) # Bit(u, w)
<1> SUFFICES ASSUME \A w \in Weights : Bit(v, w) = Bit(u, w)
             PROVE  FALSE
  OBVIOUS
<1>1. /\ Bit(v, 1) = Bit(u, 1) /\ Bit(v, 2) = Bit(u, 2) /\ Bit(v, 4) = Bit(u, 4)
      /\ Bit(v, 8) = Bit(u, 8) /\ Bit(v, 16) = Bit(u, 16) /\ Bit(v, 32) = Bit(u, 32)
      /\ Bit(v, 64) = Bit(u, 64) /\ Bit(v, 128) = Bit(u, 128)
  BY DEF Weights
<1>2. v = Bit(v, 1) + 2 * Bit(v, 2) + 4 * Bit(v, 4) + 8 * Bit(v, 8)
          + 16 * Bit(v, 16) + 32 * Bit(v, 32) + 64 * Bit(v, 64) + 128 * Bit(v, 128)
  BY ByteOfBits, Zenon
<1>3. u = Bit(u, 1) + 2 * Bit(u, 2) + 4 * Bit(u, 4) + 8 * Bit(u, 8)
          + 16 * Bit(u, 16) + 32 * Bit(u, 32) + 64 * Bit(u, 64) + 128 * Bit(u, 128)
  BY ByteOfBits, Zenon
<1> QED
  BY <1>1, <1>2, <1>3

(* The bytes of s that have a bit. *)
With(s, w) == {i \in DOMAIN s : Bit(s[i], w) = 1}

LEMMA WithType ==
  ASSUME NEW s \in Seq(Byte), NEW w
  PROVE  IsFiniteSet(With(s, w)) /\ Cardinality(With(s, w)) \in Nat
<1>1. IsFiniteSet(DOMAIN s)
  BY LenProperties, FS_Interval
<1>2. With(s, w) \in SUBSET DOMAIN s
  BY DEF With
<1> QED
  BY <1>1, <1>2, FS_Subset, FS_CardinalityType

LEMMA ParityOf ==
  ASSUME NEW s, NEW w
  PROVE  Parity(s, w) = Cardinality(With(s, w)) % 2
BY Zenon DEF Parity, With

LEMMA ParityType ==
  ASSUME NEW s \in Seq(Byte), NEW w
  PROVE  Parity(s, w) \in 0..1
<1>1. PICK n \in Nat : n = Cardinality(With(s, w))
  BY WithType
<1>2. Parity(s, w) = n % 2
  BY <1>1, ParityOf, Zenon
<1> QED
  BY <1>2

(* The number of which x tells the bits. *)
Bits    == [Weights -> 0..1]
Made(x) ==
  x[1] + 2 * x[2] + 4 * x[4] + 8 * x[8]
  + 16 * x[16] + 32 * x[32] + 64 * x[64] + 128 * x[128]

LEMMA MadeByte ==
  ASSUME NEW x \in Bits
  PROVE  Made(x) \in Byte
<1>1. /\ x[1] \in 0..1 /\ x[2] \in 0..1 /\ x[4] \in 0..1 /\ x[8] \in 0..1
      /\ x[16] \in 0..1 /\ x[32] \in 0..1 /\ x[64] \in 0..1 /\ x[128] \in 0..1
  BY DEF Bits, Weights
<1> QED
  BY <1>1 DEF Made, Byte

LEMMA MadeOnce ==
  ASSUME NEW x \in Bits, NEW y \in Bits, Made(x) = Made(y)
  PROVE  x = y
<1>1. /\ x[1] \in 0..1 /\ x[2] \in 0..1 /\ x[4] \in 0..1 /\ x[8] \in 0..1
      /\ x[16] \in 0..1 /\ x[32] \in 0..1 /\ x[64] \in 0..1 /\ x[128] \in 0..1
  BY DEF Bits, Weights
<1>2. /\ y[1] \in 0..1 /\ y[2] \in 0..1 /\ y[4] \in 0..1 /\ y[8] \in 0..1
      /\ y[16] \in 0..1 /\ y[32] \in 0..1 /\ y[64] \in 0..1 /\ y[128] \in 0..1
  BY DEF Bits, Weights
<1>3. PICK a, b, c, d, e, f, g, h \in 0..1 :
        /\ a = x[1] /\ b = x[2] /\ c = x[4] /\ d = x[8]
        /\ e = x[16] /\ f = x[32] /\ g = x[64] /\ h = x[128]
  BY <1>1
<1>4. PICK k, l, m, n, o, p, q, r \in 0..1 :
        /\ k = y[1] /\ l = y[2] /\ m = y[4] /\ n = y[8]
        /\ o = y[16] /\ p = y[32] /\ q = y[64] /\ r = y[128]
  BY <1>2
<1>5. a + 2 * b + 4 * c + 8 * d + 16 * e + 32 * f + 64 * g + 128 * h
      = k + 2 * l + 4 * m + 8 * n + 16 * o + 32 * p + 64 * q + 128 * r
  BY <1>3, <1>4 DEF Made
<1>6. /\ a = k /\ b = l /\ c = m /\ d = n
      /\ e = o /\ f = p /\ g = q /\ h = r
  BY <1>5
<1>7. /\ x[1] = y[1] /\ x[2] = y[2] /\ x[4] = y[4] /\ x[8] = y[8]
      /\ x[16] = y[16] /\ x[32] = y[32] /\ x[64] = y[64] /\ x[128] = y[128]
  BY <1>3, <1>4, <1>6
<1>8. \A w \in Weights : x[w] = y[w]
  BY <1>7 DEF Weights
<1> QED
  BY <1>8 DEF Bits

Parities(s) == [w \in Weights |-> Parity(s, w)]

LEMMA ParitiesType ==
  ASSUME NEW s \in Seq(Byte)
  PROVE  Parities(s) \in Bits
<1>1. \A w \in Weights : Parity(s, w) \in 0..1
  BY ParityType
<1> QED
  BY <1>1 DEF Parities, Bits

LEMMA ChecksumMade ==
  ASSUME NEW s
  PROVE  Checksum(s) = Made(Parities(s))
<1>1. /\ Parities(s)[1] = Parity(s, 1) /\ Parities(s)[2] = Parity(s, 2) /\ Parities(s)[4] = Parity(s, 4)
      /\ Parities(s)[8] = Parity(s, 8)
      /\ Parities(s)[16] = Parity(s, 16) /\ Parities(s)[32] = Parity(s, 32) /\ Parities(s)[64] = Parity(s, 64)
      /\ Parities(s)[128] = Parity(s, 128)
  BY DEF Parities, Weights
<1> QED
  BY <1>1 DEF Checksum, Made

LEMMA ChecksumType ==
  ASSUME NEW s \in Seq(Byte)
  PROVE  Checksum(s) \in Byte
BY ParitiesType, ChecksumMade, MadeByte

LEMMA NextParity ==
  ASSUME NEW n \in Nat
  PROVE  (n + 1) % 2 # n % 2
<1>1. PICK q \in Nat : n = 2 * q \/ n = 2 * q + 1
  <2>1. n \div 2 \in Nat /\ (n = 2 * (n \div 2) \/ n = 2 * (n \div 2) + 1)
    OBVIOUS
  <2> QED
    BY <2>1
<1>2. CASE n = 2 * q
  BY <1>2
<1>3. CASE n = 2 * q + 1
  <2>1. n + 1 = 2 * (q + 1)
    BY <1>3
  <2>2. (n + 1) % 2 = 0
    BY <2>1
  <2>3. n % 2 = 1
    BY <1>3
  <2> QED
    BY <2>2, <2>3
<1> QED
  BY <1>1, <1>2, <1>3

(* Sequences of bytes that differ in one place have different checksums. *)
LEMMA ParityDiffers ==
  ASSUME NEW s \in Seq(Byte), NEW t \in Seq(Byte), Len(s) = Len(t),
         NEW i \in 1..Len(s), NEW w, Bit(s[i], w) = 1, Bit(t[i], w) # 1,
         \A j \in 1..Len(s) : j # i => s[j] = t[j]
  PROVE  Parity(s, w) # Parity(t, w)
<1>1. DOMAIN s = 1..Len(s) /\ DOMAIN t = 1..Len(s)
  BY LenProperties
<1>2. With(s, w) = With(t, w) \cup {i} /\ i \notin With(t, w)
  BY <1>1 DEF With
<1>3. Cardinality(With(s, w)) = Cardinality(With(t, w)) + 1
  <2>1. Cardinality(With(t, w) \cup {i}) = IF i \in With(t, w) THEN Cardinality(With(t, w)) ELSE Cardinality(With(t, w)) + 1
    BY WithType, FS_AddElement, Zenon
  <2> QED
    BY <1>2, <2>1, Zenon
<1>4. PICK n \in Nat : n = Cardinality(With(t, w))
  BY WithType
<1>5. Parity(s, w) = (n + 1) % 2 /\ Parity(t, w) = n % 2
  BY <1>3, <1>4, ParityOf, Zenon
<1>6. (n + 1) % 2 # n % 2
  BY NextParity
<1> QED
  BY <1>5, <1>6, Zenon

LEMMA ChecksumDiffers ==
  ASSUME NEW s \in Seq(Byte), NEW t \in Seq(Byte), Len(s) = Len(t),
         NEW i \in 1..Len(s), s[i] # t[i],
         \A j \in 1..Len(s) : j # i => s[j] = t[j]
  PROVE  Checksum(s) # Checksum(t)
<1>1. s[i] \in Byte /\ t[i] \in Byte
  BY ElementOfSeq
<1>2. PICK w \in Weights : Bit(s[i], w) # Bit(t[i], w)
  BY <1>1, BytesDiffer
<1>3. Bit(s[i], w) \in {0, 1} /\ Bit(t[i], w) \in {0, 1}
  BY <1>1, BitType, Zenon
<1>4. Parity(s, w) # Parity(t, w)
  <2>1. CASE Bit(s[i], w) = 1
    <3>1. Bit(t[i], w) # 1
      BY <1>2, <2>1
    <3> QED
      BY <2>1, <3>1, ParityDiffers
  <2>2. CASE Bit(t[i], w) = 1
    <3>1. Bit(s[i], w) # 1
      BY <1>2, <2>2
    <3>2. i \in 1..Len(t) /\ Len(t) = Len(s) /\ \A j \in 1..Len(t) : j # i => t[j] = s[j]
      OBVIOUS
    <3> QED
      BY <2>2, <3>1, <3>2, ParityDiffers
  <2> QED
    BY <1>2, <1>3, <2>1, <2>2
<1>5. Checksum(s) = Checksum(t) => Parities(s) = Parities(t)
  BY ParitiesType, ChecksumMade, MadeOnce
<1>6. Parities(s)[w] = Parity(s, w) /\ Parities(t)[w] = Parity(t, w)
  BY DEF Parities
<1> QED
  BY <1>4, <1>5, <1>6

(* An ACK and a NAK differ in an odd number of bits. *)
LEMMA NoAckOfNak == Odd(FUJICMD_ACK) # Odd(FUJICMD_NAK)
<1>1. Bit(6, 1) + Bit(6, 2) + Bit(6, 4) + Bit(6, 8) + Bit(6, 16) + Bit(6, 32) + Bit(6, 64) + Bit(6, 128) = 2
  BY DEF Bit
<1>2. Bit(21, 1) + Bit(21, 2) + Bit(21, 4) + Bit(21, 8) + Bit(21, 16) + Bit(21, 32) + Bit(21, 64) + Bit(21, 128) = 3
  BY DEF Bit
<1> QED
  BY <1>1, <1>2 DEF Odd, FUJICMD_ACK, FUJICMD_NAK

(***************************************************************************)
(* The bytes on their way to the Lynx: those in its receive buffer, and    *)
(* then those on the wire.                                                 *)
(***************************************************************************)

Parts == {"echo", "length", "data", "word"}
Cell  == [v : Byte, part : Parts]

LEMMA Joined ==
  ASSUME NEW x \in Seq(Cell), NEW y \in Seq(Cell), NEW w, w = x \o y
  PROVE  /\ w \in Seq(Cell) /\ Len(w) = Len(x) + Len(y)
         /\ \A i \in 1..Len(x) : w[i] = x[i]
         /\ \A i \in 1..Len(y) : w[Len(x) + i] = y[i]
<1>1. /\ w \in Seq(Cell) /\ Len(w) = Len(x) + Len(y)
      /\ \A i \in 1..(Len(x) + Len(y)) : w[i] = IF i <= Len(x) THEN x[i] ELSE y[i - Len(x)]
  BY ConcatProperties, Zenon
<1>2. Len(x) \in Nat /\ Len(y) \in Nat
  BY LenProperties
<1>3. ASSUME NEW i \in 1..Len(y)
      PROVE  w[Len(x) + i] = y[i]
  <2>1. Len(x) + i \in 1..(Len(x) + Len(y)) /\ ~(Len(x) + i <= Len(x)) /\ (Len(x) + i) - Len(x) = i
    BY <1>2
  <2> QED
    BY <1>1, <2>1
<1>4. ASSUME NEW i \in 1..Len(x)
      PROVE  w[i] = x[i]
  <2>1. i \in 1..(Len(x) + Len(y)) /\ i <= Len(x)
    BY <1>2
  <2> QED
    BY <1>1, <2>1
<1> QED
  BY <1>1, <1>3, <1>4

LEMMA FirstAndRest ==
  ASSUME NEW y \in Seq(Cell), y # <<>>, NEW t, t = Tail(y)
  PROVE  /\ Head(y) = y[1] /\ Head(y) \in Cell
         /\ t \in Seq(Cell) /\ Len(y) = Len(t) + 1 /\ \A i \in 1..Len(t) : t[i] = y[i+1]
BY HeadTailProperties, LenProperties, EmptySeq

LEMMA OneMore ==
  ASSUME NEW x \in Seq(Cell), NEW b \in Cell, NEW h, h = Append(x, b)
  PROVE  /\ h \in Seq(Cell) /\ Len(h) = Len(x) + 1 /\ h[Len(x) + 1] = b
         /\ \A i \in 1..Len(x) : h[i] = x[i]
BY AppendProperties

LEMMA Lengths ==
  ASSUME NEW x \in Seq(Cell)
  PROVE  Len(x) \in Nat
BY LenProperties

(* A byte of x \o y moves on, *)
LEMMA MovesOn ==
  ASSUME NEW x \in Seq(Cell), NEW y \in Seq(Cell), y # <<>>
  PROVE  /\ Append(x, Head(y)) \in Seq(Cell) /\ Tail(y) \in Seq(Cell)
         /\ Append(x, Head(y)) \o Tail(y) = x \o y
<1>1. PICK t : t = Tail(y)
  OBVIOUS
<1>2. PICK h : h = Append(x, Head(y))
  OBVIOUS
<1>3. PICK w : w = x \o y
  OBVIOUS
<1>4. PICK v : v = h \o t
  OBVIOUS
<1>5. /\ Head(y) = y[1] /\ Head(y) \in Cell
      /\ t \in Seq(Cell) /\ Len(y) = Len(t) + 1 /\ \A i \in 1..Len(t) : t[i] = y[i+1]
  BY <1>1, FirstAndRest
<1>6. /\ h \in Seq(Cell) /\ Len(h) = Len(x) + 1 /\ h[Len(x) + 1] = Head(y)
      /\ \A i \in 1..Len(x) : h[i] = x[i]
  BY <1>2, <1>5, OneMore
<1>7. /\ w \in Seq(Cell) /\ Len(w) = Len(x) + Len(y)
      /\ \A i \in 1..Len(x) : w[i] = x[i]
      /\ \A i \in 1..Len(y) : w[Len(x) + i] = y[i]
  BY <1>3, Joined
<1>8. /\ v \in Seq(Cell) /\ Len(v) = Len(h) + Len(t)
      /\ \A i \in 1..Len(h) : v[i] = h[i]
      /\ \A i \in 1..Len(t) : v[Len(h) + i] = t[i]
  <2>1. h \in Seq(Cell) /\ t \in Seq(Cell)
    BY <1>5, <1>6
  <2> QED
    BY <1>4, <2>1, Joined
<1>9. Len(x) \in Nat /\ Len(t) \in Nat
  BY <1>5, Lengths
<1>10. Len(v) = Len(w) /\ Len(w) = Len(x) + 1 + Len(t)
  BY <1>5, <1>6, <1>7, <1>8, <1>9
<1>11. ASSUME NEW i \in 1..(Len(x) + 1 + Len(t))
       PROVE  v[i] = w[i]
  <2>1. CASE i <= Len(x)
    BY <1>5, <1>6, <1>7, <1>8, <1>9, <2>1
  <2>2. CASE i = Len(x) + 1
    BY <1>5, <1>6, <1>7, <1>8, <1>9, <2>2
  <2>3. CASE i > Len(x) + 1
    <3>0. i - Len(h) \in 1..Len(t) /\ i = Len(h) + (i - Len(h)) /\ i = Len(x) + ((i - Len(h)) + 1)
      BY <1>6, <1>9, <2>3
    <3>1. PICK n \in 1..Len(t) : i = Len(h) + n /\ i = Len(x) + (n + 1)
      BY <3>0
    <3>2. v[i] = t[n]
      BY <1>5, <1>6, <1>8, <1>9, <2>3, <3>1
    <3>3. w[i] = y[n + 1]
      BY <1>5, <1>7, <1>9, <2>3, <3>1
    <3> QED
      BY <1>5, <3>1, <3>2, <3>3
  <2> QED
    BY <1>9, <2>1, <2>2, <2>3
<1>12. v = w
  BY <1>7, <1>8, <1>10, <1>11, SeqEqual
<1> QED
  BY <1>1, <1>2, <1>3, <1>4, <1>5, <1>6, <1>12

(* or is lost or garbled in moving: v is w without its i-th byte, or w but *)
(* for the value of that byte.                                             *)
LostAt(w, v, i) ==
  /\ i \in 1..Len(w) /\ v \in Seq(Cell) /\ Len(v) + 1 = Len(w)
  /\ \A j \in 1..Len(v) : v[j] = IF j < i THEN w[j] ELSE w[j+1]

GarbledAt(w, v, i) ==
  /\ i \in 1..Len(w) /\ v \in Seq(Cell) /\ Len(v) = Len(w)
  /\ \A j \in 1..Len(v) : j # i => v[j] = w[j]
  /\ v[i].v # w[i].v /\ Odd(v[i].v) = Odd(w[i].v)

LEMMA Loses ==
  ASSUME NEW x \in Seq(Cell), NEW y \in Seq(Cell), y # <<>>
  PROVE  /\ Tail(y) \in Seq(Cell)
         /\ \E i \in 1..Len(x \o y) : (x \o y)[i] = Head(y) /\ LostAt(x \o y, x \o Tail(y), i)
<1>1. PICK t : t = Tail(y)
  OBVIOUS
<1>2. PICK w : w = x \o y
  OBVIOUS
<1>3. PICK v : v = x \o t
  OBVIOUS
<1>5. /\ Head(y) = y[1] /\ Head(y) \in Cell
      /\ t \in Seq(Cell) /\ Len(y) = Len(t) + 1 /\ \A i \in 1..Len(t) : t[i] = y[i+1]
  BY <1>1, FirstAndRest
<1>6. /\ w \in Seq(Cell) /\ Len(w) = Len(x) + Len(y)
      /\ \A i \in 1..Len(x) : w[i] = x[i]
      /\ \A i \in 1..Len(y) : w[Len(x) + i] = y[i]
  BY <1>2, Joined
<1>7. /\ v \in Seq(Cell) /\ Len(v) = Len(x) + Len(t)
      /\ \A i \in 1..Len(x) : v[i] = x[i]
      /\ \A i \in 1..Len(t) : v[Len(x) + i] = t[i]
  BY <1>3, <1>5, Joined
<1>8. Len(x) \in Nat /\ Len(t) \in Nat
  BY <1>5, Lengths
<1>9. PICK k \in 1..Len(w) : k = Len(x) + 1
  BY <1>5, <1>6, <1>8
<1>10. w[k] = Head(y) /\ Len(v) + 1 = Len(w)
  BY <1>5, <1>6, <1>7, <1>8, <1>9
<1>11. ASSUME NEW j \in 1..Len(v)
       PROVE  v[j] = IF j < k THEN w[j] ELSE w[j+1]
  <2>1. CASE j < k
    <3>1. j \in 1..Len(x)
      BY <1>7, <1>8, <1>9, <2>1
    <3> QED
      BY <1>6, <1>7, <2>1, <3>1
  <2>2. CASE j >= k
    <3>0. j - Len(x) \in 1..Len(t) /\ j = Len(x) + (j - Len(x)) /\ j + 1 = Len(x) + ((j - Len(x)) + 1)
      BY <1>7, <1>8, <1>9, <2>2
    <3>1. PICK n \in 1..Len(t) : j = Len(x) + n /\ j + 1 = Len(x) + (n + 1)
      BY <3>0
    <3>2. v[j] = t[n]
      BY <1>7, <1>8, <1>9, <2>2, <3>1
    <3>3. w[j + 1] = y[n + 1]
      BY <1>5, <1>6, <1>7, <1>8, <1>9, <2>2, <3>1
    <3> QED
      BY <1>5, <1>7, <1>8, <1>9, <2>2, <3>1, <3>2, <3>3
  <2> QED
    BY <1>7, <1>8, <1>9, <2>1, <2>2
<1>12. LostAt(w, v, k)
  BY <1>7, <1>9, <1>10, <1>11 DEF LostAt
<1> QED
  BY <1>1, <1>2, <1>3, <1>5, <1>10, <1>12

LEMMA Garbles ==
  ASSUME NEW x \in Seq(Cell), NEW y \in Seq(Cell), y # <<>>,
         NEW b \in Cell, b.v # Head(y).v, Odd(b.v) = Odd(Head(y).v)
  PROVE  /\ Append(x, b) \in Seq(Cell) /\ Tail(y) \in Seq(Cell)
         /\ \E i \in 1..Len(x \o y) :
              (x \o y)[i] = Head(y) /\ GarbledAt(x \o y, Append(x, b) \o Tail(y), i)
<1>1. PICK t : t = Tail(y)
  OBVIOUS
<1>2. PICK h : h = Append(x, b)
  OBVIOUS
<1>3. PICK w : w = x \o y
  OBVIOUS
<1>4. PICK v : v = h \o t
  OBVIOUS
<1>5. /\ Head(y) = y[1] /\ Head(y) \in Cell
      /\ t \in Seq(Cell) /\ Len(y) = Len(t) + 1 /\ \A i \in 1..Len(t) : t[i] = y[i+1]
  BY <1>1, FirstAndRest
<1>6. /\ h \in Seq(Cell) /\ Len(h) = Len(x) + 1 /\ h[Len(x) + 1] = b
      /\ \A i \in 1..Len(x) : h[i] = x[i]
  BY <1>2, OneMore
<1>7. /\ w \in Seq(Cell) /\ Len(w) = Len(x) + Len(y)
      /\ \A i \in 1..Len(x) : w[i] = x[i]
      /\ \A i \in 1..Len(y) : w[Len(x) + i] = y[i]
  BY <1>3, Joined
<1>8. /\ v \in Seq(Cell) /\ Len(v) = Len(h) + Len(t)
      /\ \A i \in 1..Len(h) : v[i] = h[i]
      /\ \A i \in 1..Len(t) : v[Len(h) + i] = t[i]
  <2>1. h \in Seq(Cell) /\ t \in Seq(Cell)
    BY <1>5, <1>6
  <2> QED
    BY <1>4, <2>1, Joined
<1>9. Len(x) \in Nat /\ Len(t) \in Nat
  BY <1>5, Lengths
<1>10. Len(v) = Len(w) /\ Len(w) = Len(x) + 1 + Len(t)
  BY <1>5, <1>6, <1>7, <1>8, <1>9
<1>11. PICK k \in 1..Len(w) : k = Len(x) + 1
  BY <1>9, <1>10
<1>12. w[k] = Head(y) /\ v[k] = b
  BY <1>5, <1>6, <1>7, <1>8, <1>9, <1>11
<1>13. ASSUME NEW i \in 1..(Len(x) + 1 + Len(t)), i # k
       PROVE  v[i] = w[i]
  <2>1. CASE i <= Len(x)
    BY <1>5, <1>6, <1>7, <1>8, <1>9, <2>1
  <2>2. CASE i > Len(x) + 1
    <3>0. i - Len(h) \in 1..Len(t) /\ i = Len(h) + (i - Len(h)) /\ i = Len(x) + ((i - Len(h)) + 1)
      BY <1>6, <1>9, <2>2
    <3>1. PICK n \in 1..Len(t) : i = Len(h) + n /\ i = Len(x) + (n + 1)
      BY <3>0
    <3>2. v[i] = t[n]
      BY <1>5, <1>6, <1>8, <1>9, <2>2, <3>1
    <3>3. w[i] = y[n + 1]
      BY <1>5, <1>7, <1>9, <2>2, <3>1
    <3> QED
      BY <1>5, <3>1, <3>2, <3>3
  <2> QED
    BY <1>9, <1>11, <1>13, <2>1, <2>2
<1>14. GarbledAt(w, v, k)
  BY <1>8, <1>10, <1>11, <1>12, <1>13 DEF GarbledAt
<1> QED
  BY <1>1, <1>2, <1>3, <1>4, <1>5, <1>6, <1>12, <1>14

(* The Lynx takes a byte. *)
TakenFrom(w, v) ==
  /\ v \in Seq(Cell) /\ Len(w) = Len(v) + 1 /\ \A j \in 1..Len(v) : v[j] = w[j+1]

LEMMA Takes ==
  ASSUME NEW x \in Seq(Cell), NEW y \in Seq(Cell), x # <<>>
  PROVE  /\ Head(x) \in Cell /\ Tail(x) \in Seq(Cell)
         /\ (x \o y)[1] = Head(x) /\ TakenFrom(x \o y, Tail(x) \o y)
<1>1. PICK t : t = Tail(x)
  OBVIOUS
<1>2. PICK w : w = x \o y
  OBVIOUS
<1>3. PICK v : v = t \o y
  OBVIOUS
<1>5. /\ Head(x) = x[1] /\ Head(x) \in Cell
      /\ t \in Seq(Cell) /\ Len(x) = Len(t) + 1 /\ \A i \in 1..Len(t) : t[i] = x[i+1]
  BY <1>1, FirstAndRest
<1>6. /\ w \in Seq(Cell) /\ Len(w) = Len(x) + Len(y)
      /\ \A i \in 1..Len(x) : w[i] = x[i]
      /\ \A i \in 1..Len(y) : w[Len(x) + i] = y[i]
  BY <1>2, Joined
<1>7. /\ v \in Seq(Cell) /\ Len(v) = Len(t) + Len(y)
      /\ \A i \in 1..Len(t) : v[i] = t[i]
      /\ \A i \in 1..Len(y) : v[Len(t) + i] = y[i]
  BY <1>3, <1>5, Joined
<1>8. Len(t) \in Nat /\ Len(y) \in Nat
  BY <1>5, Lengths
<1>9. w[1] = Head(x) /\ Len(w) = Len(v) + 1
  BY <1>5, <1>6, <1>7, <1>8
<1>10. ASSUME NEW j \in 1..Len(v)
       PROVE  v[j] = w[j+1]
  <2>1. CASE j <= Len(t)
    BY <1>5, <1>6, <1>7, <1>8, <2>1
  <2>2. CASE j > Len(t)
    <3>0. j - Len(t) \in 1..Len(y) /\ j = Len(t) + (j - Len(t)) /\ j + 1 = Len(x) + (j - Len(t))
      BY <1>5, <1>7, <1>8, <2>2
    <3>1. PICK n \in 1..Len(y) : j = Len(t) + n /\ j + 1 = Len(x) + n
      BY <3>0
    <3>2. v[j] = y[n]
      BY <1>7, <1>8, <2>2, <3>1
    <3>3. w[j + 1] = y[n]
      BY <1>5, <1>6, <1>7, <1>8, <2>2, <3>1
    <3> QED
      BY <3>2, <3>3
  <2> QED
    BY <1>7, <1>8, <2>1, <2>2
<1> QED
  BY <1>1, <1>2, <1>3, <1>5, <1>7, <1>9, <1>10 DEF TakenFrom

(***************************************************************************)
(* Replies.                                                                *)
(***************************************************************************)

Texts == {s \in Seq(Byte) : Len(s) < 65536}

(* The i-th byte that follows the length of a reply. *)
Due(s, i) == IF i <= Len(s) THEN s[i] ELSE Checksum(s)

LEMMA DueType ==
  ASSUME NEW s \in Seq(Byte), NEW i \in 1..(Len(s) + 1)
  PROVE  Due(s, i) \in Byte
BY LenProperties, ChecksumType, ElementOfSeq DEF Due

Framing(s, w) ==
  /\ w \in Seq(Cell) /\ Len(w) = Len(s) + 3
  /\ w[1] = Put(Len(s) \div 256, "length") /\ w[2] = Put(Len(s) % 256, "length")
  /\ \A i \in 1..(Len(s) + 1) : w[i + 2].v = Due(s, i)

(* The two bytes of a length. *)
LEMMA TwoBytes ==
  ASSUME NEW n \in Nat, n < 65536
  PROVE  /\ n \div 256 \in Byte /\ n % 256 \in Byte
         /\ n = 256 * (n \div 256) + (n % 256)
BY DEF Byte

LEMMA ReplyFraming ==
  ASSUME NEW s \in Texts
  PROVE  Framing(s, Reply(s))
<1>1. s \in Seq(Byte) /\ Len(s) \in Nat /\ Len(s) < 65536 /\ DOMAIN s = 1..Len(s)
  BY LenProperties DEF Texts
<1>2. PICK h : h = <<Put(Len(s) \div 256, "length"), Put(Len(s) % 256, "length")>>
  OBVIOUS
<1>3. PICK d : d = [i \in DOMAIN s |-> Put(s[i], "data")]
  OBVIOUS
<1>4. PICK c : c = <<Put(Checksum(s), "data")>>
  OBVIOUS
<1>5. PICK hd : hd = h \o d
  OBVIOUS
<1>6. PICK w : w = hd \o c
  OBVIOUS
<1>7. Len(s) \div 256 \in Byte /\ Len(s) % 256 \in Byte
  BY <1>1, TwoBytes
<1>8. \A v \in Byte, p \in Parts : Put(v, p) \in Cell /\ Put(v, p).v = v
  BY DEF Put, Cell
<1>9. /\ h \in Seq(Cell) /\ Len(h) = 2
      /\ h[1] = Put(Len(s) \div 256, "length") /\ h[2] = Put(Len(s) % 256, "length")
  <2>1. Put(Len(s) \div 256, "length") \in Cell /\ Put(Len(s) % 256, "length") \in Cell
    BY <1>7, <1>8 DEF Parts
  <2> QED
    BY <1>2, <2>1
<1>10. /\ d \in Seq(Cell) /\ Len(d) = Len(s) /\ \A i \in 1..Len(s) : d[i].v = s[i]
  <2>1. \A i \in 1..Len(s) : s[i] \in Byte
    BY <1>1, ElementOfSeq
  <2>2. \A i \in 1..Len(s) : Put(s[i], "data") \in Cell /\ Put(s[i], "data").v = s[i]
    BY <1>8, <2>1 DEF Parts
  <2>3. d = [i \in 1..Len(s) |-> Put(s[i], "data")]
    BY <1>1, <1>3
  <2> QED
    BY <1>1, <2>2, <2>3
<1>11. /\ c \in Seq(Cell) /\ Len(c) = 1 /\ c[1].v = Checksum(s)
  <2>1. Put(Checksum(s), "data") \in Cell /\ Put(Checksum(s), "data").v = Checksum(s)
    BY <1>1, <1>8, ChecksumType DEF Parts
  <2> QED
    BY <1>4, <2>1
<1>12. /\ hd \in Seq(Cell) /\ Len(hd) = Len(h) + Len(d)
       /\ \A i \in 1..Len(h) : hd[i] = h[i]
       /\ \A i \in 1..Len(d) : hd[Len(h) + i] = d[i]
  <2>1. h \in Seq(Cell) /\ d \in Seq(Cell)
    BY <1>9, <1>10
  <2> QED
    BY <1>5, <2>1, Joined
<1>13. /\ w \in Seq(Cell) /\ Len(w) = Len(hd) + Len(c)
       /\ \A i \in 1..Len(hd) : w[i] = hd[i]
       /\ \A i \in 1..Len(c) : w[Len(hd) + i] = c[i]
  <2>1. hd \in Seq(Cell) /\ c \in Seq(Cell)
    BY <1>11, <1>12
  <2> QED
    BY <1>6, <2>1, Joined
<1>14. Len(w) = Len(s) + 3
  BY <1>1, <1>9, <1>10, <1>11, <1>12, <1>13
<1>15. w[1] = h[1] /\ w[2] = h[2]
  BY <1>1, <1>9, <1>10, <1>12, <1>13
<1>16. ASSUME NEW i \in 1..(Len(s) + 1)
       PROVE  w[i + 2].v = Due(s, i)
  <2>1. CASE i <= Len(s)
    <3>1. i + 2 \in 1..Len(hd) /\ i \in 1..Len(d) /\ i + 2 = Len(h) + i
      BY <1>1, <1>9, <1>10, <1>12, <2>1
    <3>2. w[i + 2] = hd[i + 2] /\ hd[i + 2] = d[i]
      BY <1>12, <1>13, <3>1
    <3>3. d[i].v = s[i]
      BY <1>1, <1>10, <2>1
    <3> QED
      BY <2>1, <3>2, <3>3 DEF Due
  <2>2. CASE i = Len(s) + 1
    <3>1. i + 2 = Len(hd) + 1 /\ 1 \in 1..Len(c) /\ ~(i <= Len(s))
      BY <1>1, <1>9, <1>10, <1>11, <1>12, <2>2
    <3> QED
      BY <1>11, <1>13, <3>1 DEF Due
  <2> QED
    BY <1>1, <2>1, <2>2
<1>17. w = Reply(s)
  BY <1>2, <1>3, <1>4, <1>5, <1>6 DEF Reply
<1> QED
  BY <1>9, <1>13, <1>14, <1>15, <1>16, <1>17 DEF Framing

(***************************************************************************)
(* What a reply may have become: b has been stored of it, o bytes of w are *)
(* yet to come before the rest, and k bytes have been lost or garbled.     *)
(***************************************************************************)

Got(b, w, o, i) == IF i <= Len(b) THEN b[i] ELSE w[(o + i) - Len(b)].v

Wrong(b, w, o, s) == {i \in 1..(Len(s) + 1) : Got(b, w, o, i) # Due(s, i)}

Body(b, w, o, s, k) ==
  \/ /\ Len(b) + Len(w) = o + Len(s) + 1
     /\ Wrong(b, w, o, s) = {} \/ (k = 1 /\ \E i : Wrong(b, w, o, s) = {i})
  \/ k = 1 /\ Len(b) + Len(w) = o + Len(s)

LEMMA SameWrong ==
  ASSUME NEW b, NEW w, NEW o, NEW b2, NEW w2, NEW o2, NEW s,
         \A i \in 1..(Len(s) + 1) : Got(b2, w2, o2, i) = Got(b, w, o, i)
  PROVE  Wrong(b2, w2, o2, s) = Wrong(b, w, o, s)
BY Zenon DEF Wrong

LEMMA BodyComes ==
  ASSUME NEW s \in Texts, NEW w \in Seq(Cell), NEW o \in 0..3, NEW k,
         Len(w) = o + Len(s) + 1,
         \A i \in 1..(Len(s) + 1) : w[o + i].v = Due(s, i)
  PROVE  Body(<<>>, w, o, s, k)
<1>1. Len(s) \in Nat /\ Len(<<>>) = 0
  BY LenProperties DEF Texts
<1>2. ASSUME NEW i \in 1..(Len(s) + 1)
      PROVE  Got(<<>>, w, o, i) = w[o + i].v
  <2>1. (o + i) - 0 = o + i /\ ~(i <= 0)
    BY <1>1
  <2> QED
    BY <1>1, <2>1 DEF Got
<1>3. Wrong(<<>>, w, o, s) = {}
  BY <1>2 DEF Wrong
<1> QED
  BY <1>1, <1>3 DEF Body

LEMMA BodyLost ==
  ASSUME NEW s \in Texts, NEW b \in Seq(Byte), NEW w \in Seq(Cell), NEW w2, NEW o \in 0..3, NEW i,
         Body(b, w, o, s, 0), LostAt(w, w2, i)
  PROVE  Body(b, w2, o, s, 1)
<1>1. Len(s) \in Nat /\ Len(b) \in Nat /\ Len(w) \in Nat /\ Len(w2) \in Nat /\ Len(w2) + 1 = Len(w)
  BY LenProperties DEF Texts, LostAt
<1>2. Len(b) + Len(w) = o + Len(s) + 1
  BY DEF Body
<1>3. Len(b) + Len(w2) = o + Len(s)
  BY <1>1, <1>2
<1> QED
  BY <1>3 DEF Body

LEMMA BodyGarbled ==
  ASSUME NEW s \in Texts, NEW b \in Seq(Byte), NEW w \in Seq(Cell), NEW w2, NEW o \in 0..3, NEW i,
         Body(b, w, o, s, 0), GarbledAt(w, w2, i), i > o, b # <<>> => o = 0
  PROVE  Body(b, w2, o, s, 1)
<1>1. /\ Len(s) \in Nat /\ Len(b) \in Nat /\ Len(w) \in Nat
      /\ i \in 1..Len(w) /\ Len(w2) = Len(w) /\ o \in Nat
  BY LenProperties DEF Texts, GarbledAt
<1>2. Len(b) + Len(w) = o + Len(s) + 1 /\ Wrong(b, w, o, s) = {}
  BY DEF Body
<1>3. PICK n \in 1..(Len(s) + 1) : (o + n) - Len(b) = i /\ n > Len(b)
  <2>1. /\ (i - o) + Len(b) \in 1..(Len(s) + 1) /\ (i - o) + Len(b) > Len(b)
        /\ (o + ((i - o) + Len(b))) - Len(b) = i
    BY <1>1, <1>2
  <2> QED
    BY <2>1
<1>4. \A m \in 1..(Len(s) + 1) : Got(b, w, o, m) = Due(s, m)
  BY <1>2 DEF Wrong
<1>5. w2[i].v # w[i].v /\ \A j \in 1..Len(w) : j # i => w2[j] = w[j]
  BY DEF GarbledAt
<1>6. Got(b, w2, o, n) # Due(s, n)
  BY <1>1, <1>3, <1>4, <1>5 DEF Got
<1>7. ASSUME NEW m \in 1..(Len(s) + 1), m # n
      PROVE  Got(b, w2, o, m) = Due(s, m)
  <2>1. CASE m <= Len(b)
    BY <1>4, <2>1 DEF Got
  <2>2. CASE m > Len(b)
    <3>1. (o + m) - Len(b) \in 1..Len(w) /\ (o + m) - Len(b) # i
      BY <1>1, <1>2, <1>3, <1>7, <2>2
    <3> QED
      BY <1>1, <1>4, <1>5, <2>2, <3>1 DEF Got
  <2> QED
    BY <1>1, <2>1, <2>2
<1>8. Wrong(b, w2, o, s) = {n}
  BY <1>3, <1>6, <1>7 DEF Wrong
<1> QED
  BY <1>1, <1>2, <1>8 DEF Body

LEMMA BodyTaken ==
  ASSUME NEW s \in Texts, NEW w \in Seq(Cell), NEW w2, NEW o \in 0..2, NEW k,
         Body(<<>>, w, o + 1, s, k), TakenFrom(w, w2)
  PROVE  Body(<<>>, w2, o, s, k)
<1>1. /\ Len(s) \in Nat /\ Len(w2) \in Nat /\ o \in Nat /\ Len(w) = Len(w2) + 1 /\ Len(<<>>) = 0
      /\ \A j \in 1..Len(w2) : w2[j] = w[j + 1]
  BY LenProperties DEF Texts, TakenFrom
<1>2. CASE Len(w) = o + 1 + Len(s) + 1
  <2>1. ASSUME NEW i \in 1..(Len(s) + 1)
        PROVE  Got(<<>>, w2, o, i) = Got(<<>>, w, o + 1, i)
    <3>1. o + i \in 1..Len(w2) /\ (o + i) - 0 = o + i /\ ((o + 1) + i) - 0 = (o + i) + 1 /\ ~(i <= 0)
      BY <1>1, <1>2
    <3> QED
      BY <1>1, <3>1 DEF Got
  <2>2. Wrong(<<>>, w2, o, s) = Wrong(<<>>, w, o + 1, s)
    BY <2>1, SameWrong
  <2>3. Len(<<>>) + Len(w2) = o + Len(s) + 1
    BY <1>1, <1>2
  <2>4. \/ Wrong(<<>>, w, o + 1, s) = {} \/ (k = 1 /\ \E i : Wrong(<<>>, w, o + 1, s) = {i})
        \/ k = 1 /\ Len(<<>>) + Len(w) = (o + 1) + Len(s)
    BY DEF Body
  <2>5. ~(Len(<<>>) + Len(w) = (o + 1) + Len(s))
    BY <1>1, <1>2
  <2> QED
    BY <2>2, <2>3, <2>4, <2>5, Zenon DEF Body
<1>3. CASE Len(w) # o + 1 + Len(s) + 1
  <2>1. k = 1 /\ Len(<<>>) + Len(w) = (o + 1) + Len(s)
    BY <1>1, <1>3 DEF Body
  <2>2. Len(<<>>) + Len(w2) = o + Len(s)
    BY <1>1, <2>1
  <2> QED
    BY <2>1, <2>2 DEF Body
<1> QED
  BY <1>2, <1>3

LEMMA BodyStored ==
  ASSUME NEW s \in Texts, NEW b \in Seq(Byte), NEW w \in Seq(Cell), NEW w2, NEW k,
         Body(b, w, 0, s, k), TakenFrom(w, w2), Len(b) < Len(s)
  PROVE  Body(Append(b, w[1].v), w2, 0, s, k)
<1>1. /\ Len(s) \in Nat /\ Len(w2) \in Nat /\ Len(b) \in Nat /\ Len(w) = Len(w2) + 1
      /\ \A j \in 1..Len(w2) : w2[j] = w[j + 1]
  BY LenProperties DEF Texts, TakenFrom
<1>2. w[1].v \in Byte
  <2>1. w[1] \in Cell
    BY <1>1, ElementOfSeq
  <2> QED
    BY <2>1 DEF Cell
<1>3. PICK b2 : b2 = Append(b, w[1].v)
  OBVIOUS
<1>4. /\ b2 \in Seq(Byte) /\ Len(b2) = Len(b) + 1 /\ b2[Len(b) + 1] = w[1].v
      /\ \A i \in 1..Len(b) : b2[i] = b[i]
  BY <1>2, <1>3, AppendProperties
<1>5. CASE Len(b) + Len(w) = Len(s) + 1
  <2>1. ASSUME NEW i \in 1..(Len(s) + 1)
        PROVE  Got(b2, w2, 0, i) = Got(b, w, 0, i)
    <3>1. CASE i <= Len(b)
      BY <1>1, <1>4, <3>1 DEF Got
    <3>2. CASE i = Len(b) + 1
      <4>1. (0 + (Len(b) + 1)) - Len(b) = 1 /\ ~(Len(b) + 1 <= Len(b))
        BY <1>1
      <4>2. i <= Len(b2)
        BY <1>1, <1>4, <3>2
      <4> QED
        BY <1>4, <3>2, <4>1, <4>2 DEF Got
    <3>3. CASE i > Len(b) + 1
      <4>1. /\ (0 + i) - Len(b2) \in 1..Len(w2) /\ (0 + i) - Len(b) = ((0 + i) - Len(b2)) + 1
            /\ ~(i <= Len(b)) /\ ~(i <= Len(b2))
        BY <1>1, <1>4, <1>5, <3>3
      <4> QED
        BY <1>1, <4>1 DEF Got
    <3> QED
      BY <1>1, <3>1, <3>2, <3>3
  <2>2. Wrong(b2, w2, 0, s) = Wrong(b, w, 0, s)
    BY <2>1, SameWrong
  <2>3. Len(b2) + Len(w2) = Len(s) + 1
    BY <1>1, <1>4, <1>5
  <2>4. Len(b2) + Len(w2) = 0 + Len(s) + 1
    BY <1>1, <2>3
  <2>5. \/ Wrong(b, w, 0, s) = {} \/ (k = 1 /\ \E i : Wrong(b, w, 0, s) = {i})
        \/ k = 1 /\ Len(b) + Len(w) = 0 + Len(s)
    BY DEF Body
  <2>6. ~(Len(b) + Len(w) = 0 + Len(s))
    BY <1>1, <1>5
  <2> QED
    BY <1>3, <2>2, <2>4, <2>5, <2>6, Zenon DEF Body
<1>6. CASE Len(b) + Len(w) # Len(s) + 1
  <2>1. k = 1 /\ Len(b) + Len(w) = 0 + Len(s)
    BY <1>1, <1>6 DEF Body
  <2>2. Len(b2) + Len(w2) = 0 + Len(s)
    BY <1>1, <1>4, <2>1
  <2> QED
    BY <1>3, <2>1, <2>2 DEF Body
<1> QED
  BY <1>5, <1>6

(* A checksum that matches makes it the reply that was sent. *)
LEMMA BodyAccepted ==
  ASSUME NEW s \in Texts, NEW b \in Seq(Byte), NEW w \in Seq(Cell), NEW k,
         Body(b, w, 0, s, k), Len(b) = Len(s), w # <<>>, w[1].v = Checksum(b)
  PROVE  b = s /\ Len(w) = 1
<1>1. Len(s) \in Nat /\ Len(w) \in Nat \ {0} /\ s \in Seq(Byte)
  BY LenProperties, EmptySeq DEF Texts
<1>2. Len(w) = 1 /\ (Wrong(b, w, 0, s) = {} \/ \E i : Wrong(b, w, 0, s) = {i})
  <2>1. ~(Len(b) + Len(w) = 0 + Len(s))
    BY <1>1
  <2>2. Len(b) + Len(w) = 0 + Len(s) + 1 /\ (Wrong(b, w, 0, s) = {} \/ \E i : Wrong(b, w, 0, s) = {i})
    BY <2>1, Zenon DEF Body
  <2>3. Len(w) = 1
    <3>1. PICK m \in Nat, n \in Nat : m = Len(s) /\ n = Len(w)
      BY <1>1
    <3>2. m + n = 0 + m + 1
      BY <2>2, <3>1
    <3> QED
      BY <3>1, <3>2
  <2> QED
    BY <2>2, <2>3
<1>3. /\ \A i \in 1..Len(s) : Got(b, w, 0, i) = b[i] /\ Due(s, i) = s[i]
      /\ Got(b, w, 0, Len(s) + 1) = Checksum(b) /\ Due(s, Len(s) + 1) = Checksum(s)
  <2>1. ~(Len(s) + 1 <= Len(s)) /\ (0 + (Len(s) + 1)) - Len(b) = 1
    BY <1>1
  <2> QED
    BY <1>1, <2>1 DEF Got, Due
<1>4. CASE \A i \in 1..Len(s) : b[i] = s[i]
  BY <1>1, <1>2, <1>4, SeqEqual
<1>5. ASSUME NEW i \in 1..Len(s), b[i] # s[i]
      PROVE  FALSE
  <2>1. i \in Wrong(b, w, 0, s)
    BY <1>1, <1>3, <1>5 DEF Wrong
  <2>2. \A j \in 1..(Len(s) + 1) : j # i => Got(b, w, 0, j) = Due(s, j)
    BY <1>2, <2>1 DEF Wrong
  <2>3. \A j \in 1..Len(s) : j # i => b[j] = s[j]
    BY <1>1, <1>3, <2>2
  <2>4. Checksum(b) = Checksum(s)
    BY <1>1, <1>3, <2>2
  <2> QED
    BY <1>1, <1>5, <2>3, <2>4, ChecksumDiffers
<1> QED
  BY <1>4, <1>5

(***************************************************************************)
(* Types.                                                                  *)
(***************************************************************************)

Calls   == [len : Nat \ {0}, reply : BOOLEAN, room : Nat]
Packets == [call : 1..MaxCalls, whole : BOOLEAN, req : Calls]
Answers == [word : {"reply", "ack", "nak"}, reply : Replies \cup {<<>>}]
Errors  == {"none", "timeout", "send checksum", "receive checksum", "command failed"}

CallType ==
  /\ pc \in Waiting \cup {"idle", "start", "head", "send"}
  /\ cur \in 0..MaxCalls /\ (pc # "idle" => cur # 0)
  /\ req \in Calls
  /\ pc = "done" => ~req.reply
  /\ pc \in {"high", "low", "data", "check"} => req.reply
  /\ fn_error \in Errors
  /\ pc \in Waiting \cup {"send"} => fn_error # "command failed"

OutcomeType == outcome \in [call : 0..cur, ok : BOOLEAN]

CountType ==
  /\ sent \in 0..(req.len + 1)
  /\ pc \in {"start", "head"} => sent = 0
  /\ pc = "send" => sent <= req.len
  /\ len \in Nat
  /\ buf \in Seq(Byte) /\ Len(buf) <= req.room
  /\ pc \in {"start", "head", "send", "answer", "high", "low"} => buf = <<>>
  /\ pc = "data" => Len(buf) < len /\ len <= req.room
  /\ pc = "check" => Len(buf) = len

LineType ==
  /\ rx \in Seq(Cell) /\ out \in Seq(Cell)
  /\ faults \in [all : 0..MaxFaults, call : Nat, len : BOOLEAN]
  /\ quiet \in BOOLEAN

FarType ==
  /\ inbox \in Seq(Packets) /\ job \in Packets \cup {None}
  /\ DOMAIN answers \subseteq 1..MaxCalls
  /\ \A c \in DOMAIN answers : answers[c] \in Answers

TypeInv == CallType /\ OutcomeType /\ CountType /\ LineType /\ FarType

LEMMA Limits == MaxCalls \in Nat /\ MaxFaults \in Nat /\ FNIO_TX_LEN_MAX \in Nat /\ Noise \subseteq Byte
BY ComLynxAssumption DEF ComLynxAssumption

LEMMA RequestsType == Requests \subseteq Calls
BY ComLynxAssumption DEF ComLynxAssumption, Calls

LEMMA RepliesType == Replies \subseteq Texts
BY ComLynxAssumption DEF ComLynxAssumption, Texts

LEMMA PutType ==
  ASSUME NEW v \in Byte, NEW p \in Parts
  PROVE  Put(v, p) \in Cell /\ Put(v, p).v = v /\ Put(v, p).part = p
BY DEF Put, Cell

LEMMA WordType ==
  ASSUME NEW v \in Byte
  PROVE  /\ Word(v) \in Seq(Cell) /\ Len(Word(v)) = 1 /\ Word(v) # <<>>
         /\ Word(v)[1].v = v /\ Word(v)[1].part = "word"
<1>1. Put(v, "word") \in Cell /\ Put(v, "word").v = v /\ Put(v, "word").part = "word"
  BY PutType DEF Parts
<1>2. PICK p : p = Put(v, "word")
  OBVIOUS
<1>3. Word(v) = <<p>>
  BY <1>2 DEF Word
<1> QED
  BY <1>1, <1>2, <1>3

LEMMA Words == FUJICMD_ACK \in Byte /\ FUJICMD_NAK \in Byte
BY DEF FUJICMD_ACK, FUJICMD_NAK, Byte

LEMMA ReplyType ==
  ASSUME NEW s \in Texts
  PROVE  Reply(s) \in Seq(Cell)
BY ReplyFraming DEF Framing

LEMMA ReflectedType ==
  ASSUME NEW s \in Seq(Cell), NEW n \in {1, 3}
  PROVE  Reflected(s, n) \in Seq(Cell)
<1>1. PICK e : e = IF reflects THEN [i \in 1..n |-> Echo] ELSE <<>>
  OBVIOUS
<1>2. Echo \in Cell
  <2>1. 0 \in Byte /\ "echo" \in Parts
    BY DEF Byte, Parts
  <2> QED
    BY <2>1, PutType DEF Echo
<1>3. e \in Seq(Cell)
  BY <1>1, <1>2
<1>4. PICK h : h = s \o e
  OBVIOUS
<1>5. h \in Seq(Cell)
  BY <1>3, <1>4, ConcatProperties
<1>6. Reflected(s, n) = IF Len(h) <= n THEN <<>> ELSE SubSeq(h, n + 1, Len(h))
  BY <1>1, <1>4 DEF Reflected
<1>7. SubSeq(h, n + 1, Len(h)) \in Seq(Cell)
  <2>1. Len(h) \in Nat /\ n + 1 \in Nat
    BY <1>5, LenProperties
  <2>2. \A i \in (n + 1)..Len(h) : h[i] \in Cell
    BY <1>5, <2>1, ElementOfSeq
  <2> QED
    BY <2>1, <2>2, SubSeqProperties
<1> QED
  BY <1>6, <1>7, EmptySeq

LEMMA ReflectedNothing ==
  ASSUME NEW n \in {1, 3}
  PROVE  Reflected(<<>>, n) = <<>>
<1>1. PICK e : e = IF reflects THEN [i \in 1..n |-> Echo] ELSE <<>>
  OBVIOUS
<1>2. e \in Seq({Echo}) /\ Len(e) <= n
  BY <1>1
<1>3. <<>> \o e = e
  BY <1>2, ConcatEmptySeq
<1> QED
  BY <1>1, <1>2, <1>3 DEF Reflected

LEMMA TypeInit == Init => TypeInv
<1> SUFFICES ASSUME Init PROVE TypeInv
  OBVIOUS
<1>1. CallType
  BY Limits DEF Init, CallType, Waiting, Calls, Errors
<1>5. OutcomeType
  BY DEF Init, OutcomeType
<1>2. CountType
  BY DEF Init, CountType
<1>3. LineType
  BY Limits, EmptySeq DEF Init, LineType, NoFaults
<1>4. FarType
  BY EmptySeq DEF Init, FarType
<1> QED
  BY <1>1, <1>2, <1>3, <1>4, <1>5 DEF TypeInv

(* The calls. *)
CallSteps == Call \/ Start \/ SendHead \/ SendByte \/ Answer \/ RecvAck
             \/ High \/ Low \/ Data \/ Check \/ Timeout
FarSteps  == TakePacket \/ CarryOut
WireSteps == Arrive \/ Lose \/ Garble

LEMMA CallTypeStep ==
  ASSUME CallType, CallSteps
  PROVE  CallType'
<1>1. CASE Call
  BY <1>1, Limits, RequestsType DEF Call, CallType, At, Goto, Waiting
<1>2. CASE Start
  BY <1>2 DEF Start, CallType, At, Goto, Return, Waiting
<1>3. CASE SendHead
  BY <1>3 DEF SendHead, CallType, At, Goto, Waiting, Errors
<1>4. CASE SendByte
  <2>1. pc' \in {"send", "answer"} /\ pc = "send" /\ UNCHANGED <<cur, req, fn_error>>
    BY <1>4, Zenon DEF SendByte, At, Goto
  <2> QED
    BY <2>1 DEF CallType, Waiting
<1>5. CASE Answer
  <2>1. /\ pc' \in {"high", "done", "idle"} /\ (pc' = "high" => req.reply) /\ (pc' = "done" => ~req.reply)
        /\ fn_error' \in Errors /\ (pc' # "idle" => fn_error' = "none") /\ pc # "idle"
    BY <1>5 DEF Answer, Get, At, Goto, Return, Errors
  <2>2. UNCHANGED <<cur, req>>
    BY <1>5 DEF Answer
  <2> QED
    BY <2>1, <2>2 DEF CallType, Waiting
<1>6. CASE RecvAck
  <2>1. pc' = "idle" /\ fn_error' \in Errors
    BY <1>6 DEF RecvAck, Return, Errors, CallType
  <2>2. UNCHANGED <<cur, req>>
    BY <1>6 DEF RecvAck
  <2> QED
    BY <2>1, <2>2 DEF CallType, Waiting
<1>7. CASE High
  BY <1>7 DEF High, CallType, Get, At, Goto, Waiting
<1>8. CASE Low
  <2>1. pc' \in {"idle", "check", "data"} /\ pc = "low"
    BY <1>8 DEF Low, Goto, Return, Get, At
  <2>2. UNCHANGED <<cur, req, fn_error>>
    BY <1>8 DEF Low
  <2> QED
    BY <2>1, <2>2 DEF CallType, Waiting
<1>9. CASE Data
  BY <1>9 DEF Data, CallType, Get, At, Goto, Waiting
<1>10. CASE Check
  <2>1. pc' = "idle" /\ fn_error' \in Errors
    BY <1>10, Zenon DEF Check, Return, Errors, CallType
  <2>2. UNCHANGED <<cur, req>>
    BY <1>10 DEF Check
  <2> QED
    BY <2>1, <2>2 DEF CallType, Waiting
<1>11. CASE Timeout
  <2>1. pc' = "idle" /\ fn_error' = "timeout" /\ UNCHANGED <<cur, req>>
    BY <1>11 DEF Timeout, Return
  <2> QED
    BY <2>1 DEF CallType, Waiting, Errors
<1> QED
  BY <1>1, <1>2, <1>3, <1>4, <1>5, <1>6, <1>7, <1>8, <1>9, <1>10, <1>11 DEF CallSteps

LEMMA OutcomeTypeStep ==
  ASSUME CallType, OutcomeType, CallSteps
  PROVE  OutcomeType'
<1>0. cur \in Nat
  <2>1. cur \in 0..MaxCalls
    BY DEF CallType
  <2> QED
    BY <2>1
<1>1. ASSUME NEW ok \in BOOLEAN, Return(ok), cur' = cur
      PROVE  OutcomeType'
  BY <1>0, <1>1 DEF Return, OutcomeType
<1>2. ASSUME UNCHANGED outcome, cur' \in {cur, cur + 1}
      PROVE  OutcomeType'
  BY <1>0, <1>2 DEF OutcomeType
<1>3. CASE Call
  BY <1>2, <1>3 DEF Call, Goto
<1>4. CASE Start
  BY <1>1, <1>2, <1>4 DEF Start, Goto
<1>5. CASE SendHead
  BY <1>2, <1>5 DEF SendHead, Goto
<1>6. CASE SendByte
  BY <1>2, <1>6 DEF SendByte, Goto
<1>7. CASE Answer
  BY <1>1, <1>2, <1>7 DEF Answer, Goto
<1>8. CASE RecvAck
  <2>1. IsAck(Took) \in BOOLEAN
    BY DEF IsAck
  <2> QED
    BY <1>1, <1>8, <2>1 DEF RecvAck
<1>9. CASE High
  BY <1>2, <1>9 DEF High, Goto
<1>10. CASE Low
  BY <1>1, <1>2, <1>10 DEF Low, Goto
<1>11. CASE Data
  BY <1>2, <1>11 DEF Data, Goto
<1>12. CASE Check
  <2>1. (Matches(Took) /\ len # 0) \in BOOLEAN
    OBVIOUS
  <2>2. Return(Matches(Took) /\ len # 0) /\ cur' = cur
    BY <1>12, Zenon DEF Check
  <2> QED
    BY <1>1, <2>1, <2>2
<1>13. CASE Timeout
  BY <1>1, <1>13 DEF Timeout
<1> QED
  BY <1>3, <1>4, <1>5, <1>6, <1>7, <1>8, <1>9, <1>10, <1>11, <1>12, <1>13 DEF CallSteps

LEMMA HeadType ==
  ASSUME LineType, rx # <<>>
  PROVE  Head(rx) \in Cell /\ Took \in Byte /\ Tail(rx) \in Seq(Cell)
<1>1. Head(rx) \in Cell /\ Tail(rx) \in Seq(Cell)
  BY HeadTailProperties DEF LineType
<1> QED
  BY <1>1 DEF Cell, Took

LEMMA ClampType ==
  ASSUME NEW n \in Nat
  PROVE  Clamp(n) \in Nat /\ Clamp(n) <= n
BY Limits DEF Clamp

LEMMA CountTypeStep ==
  ASSUME CallType, CountType, LineType, CallSteps
  PROVE  CountType'
<1>0. req \in Calls /\ req.len \in Nat \ {0} /\ req.room \in Nat
  BY DEF CallType, Calls
<1>1. CASE Call
  <2>1. req'.len \in Nat \ {0} /\ req'.room \in Nat
    BY <1>1, RequestsType DEF Call, Calls
  <2> QED
    BY <1>1, <2>1 DEF Call, CountType, At, Goto
<1>2. CASE Start
  BY <1>2 DEF Start, CountType, At, Goto, Return
<1>3. CASE SendHead
  BY <1>0, <1>3 DEF SendHead, CountType, At, Goto
<1>4. CASE SendByte
  BY <1>0, <1>4 DEF SendByte, CountType, At, Goto
<1>5. CASE Answer
  BY <1>5 DEF Answer, CountType, Get, At, Goto, Return
<1>6. CASE RecvAck
  BY <1>6 DEF RecvAck, CountType, Get, At, Return
<1>7. CASE High
  <2>1. Took \in Nat
    <3>1. Took \in Byte
      BY <1>7, HeadType DEF High, Get
    <3> QED
      BY <3>1 DEF Byte
  <2> QED
    BY <1>7, <2>1 DEF High, CountType, Get, At, Goto
<1>8. CASE Low
  <2>1. Took \in Nat
    <3>1. Took \in Byte
      BY <1>8, HeadType DEF Low, Get
    <3> QED
      BY <3>1 DEF Byte
  <2>2. PICK n \in Nat : n = len + Took
    BY <2>1 DEF CountType
  <2>3. Clamp(n) \in Nat /\ Clamp(n) <= n
    BY ClampType
  <2>4. buf = <<>> /\ Len(buf) = 0 /\ pc = "low"
    BY <1>8 DEF Low, CountType, Get, At
  <2>5. CASE TooLong(n)
    BY <1>8, <2>2, <2>4, <2>5 DEF Low, CountType, Return
  <2>6. CASE ~TooLong(n)
    <3>1. len' = Clamp(n) /\ pc' = (IF Clamp(n) = 0 THEN "check" ELSE "data") /\ n <= req.room
      BY <1>0, <1>8, <2>2, <2>6 DEF Low, Goto, TooLong
    <3>2. len' <= req.room
      BY <1>0, <2>3, <3>1
    <3>3. UNCHANGED <<sent, buf, req>>
      BY <1>8 DEF Low
    <3>4. len' > 0 \/ len' = 0
      BY <2>3, <3>1
    <3> QED
      BY <2>3, <2>4, <3>1, <3>2, <3>3, <3>4 DEF CountType
  <2> QED
    BY <2>5, <2>6
<1>9. CASE Data
  <2>1. Took \in Byte
    BY <1>9, HeadType DEF Data, Get
  <2>2. /\ buf \in Seq(Byte) /\ Len(buf) \in Nat /\ len \in Nat /\ Len(buf) < len /\ len <= req.room
    BY <1>9, LenProperties DEF Data, CountType, Get, At
  <2>3. buf' \in Seq(Byte) /\ Len(buf') = Len(buf) + 1
    BY <1>9, <2>1, <2>2, AppendProperties DEF Data
  <2>4. UNCHANGED <<sent, len, req>> /\ pc' = (IF Len(buf) + 1 < len THEN "data" ELSE "check")
    BY <1>9 DEF Data, Goto
  <2> QED
    BY <1>0, <2>2, <2>3, <2>4 DEF CountType
<1>10. CASE Check
  BY <1>10 DEF Check, CountType, Get, At, Return
<1>11. CASE Timeout
  BY <1>11 DEF Timeout, CountType, Return
<1> QED
  BY <1>1, <1>2, <1>3, <1>4, <1>5, <1>6, <1>7, <1>8, <1>9, <1>10, <1>11 DEF CallSteps

LEMMA FaultType ==
  ASSUME LineType, NEW part, Fault(part)
  PROVE  faults' \in [all : 0..MaxFaults, call : Nat, len : BOOLEAN]
BY Limits DEF LineType, Fault

LEMMA TextOf ==
  ASSUME FarType, NEW c \in DOMAIN answers
  PROVE  answers[c].reply \in Texts
<1>1. answers[c].reply \in Replies \cup {<<>>}
  BY DEF FarType, Answers
<1>2. <<>> \in Texts
  BY EmptySeq DEF Texts
<1> QED
  BY <1>1, <1>2, RepliesType

LEMMA OutType ==
  ASSUME NEW o \in Seq(Cell), NEW s \in Texts
  PROVE  o \o Reply(s) \in Seq(Cell)
BY ReplyType, ConcatProperties

LEMMA OutWordType ==
  ASSUME NEW o \in Seq(Cell), NEW v \in {FUJICMD_ACK, FUJICMD_NAK}
  PROVE  o \o Word(v) \in Seq(Cell)
BY Words, WordType, ConcatProperties

LEMMA LineTypeStep ==
  ASSUME LineType, FarType, CallSteps \/ FarSteps
  PROVE  LineType'
<1>0. /\ rx \in Seq(Cell) /\ out \in Seq(Cell) /\ quiet \in BOOLEAN
      /\ faults \in [all : 0..MaxFaults, call : Nat, len : BOOLEAN]
  BY DEF LineType
<1>s. ASSUME rx' \in Seq(Cell), UNCHANGED <<out, faults, quiet>>
      PROVE  LineType'
  BY <1>0, <1>s DEF LineType
<1>1. CASE Call
  <2>1. faults' \in [all : 0..MaxFaults, call : Nat, len : BOOLEAN] /\ quiet' \in BOOLEAN
    BY <1>0, <1>1 DEF Call
  <2>2. UNCHANGED <<rx, out>>
    BY <1>1 DEF Call, far
  <2> QED
    BY <1>0, <2>1, <2>2 DEF LineType
<1>2. CASE Start
  BY <1>0, <1>s, <1>2 DEF Start, far
<1>3. CASE SendHead
  BY <1>0, <1>s, <1>3, ReflectedType DEF SendHead, far
<1>4. CASE SendByte
  <2>1. rx' \in Seq(Cell)
    BY <1>0, <1>4, ReflectedType DEF SendByte
  <2>2. faults' \in [all : 0..MaxFaults, call : Nat, len : BOOLEAN]
    <3>1. UNCHANGED faults \/ Fault("data")
      BY <1>4 DEF SendByte
    <3> QED
      BY <1>0, <3>1, FaultType
  <2>3. UNCHANGED <<out, quiet>>
    BY <1>4 DEF SendByte
  <2> QED
    BY <1>0, <2>1, <2>2, <2>3 DEF LineType
<1>5. ASSUME Rest, rx # <<>>
      PROVE  rx' \in Seq(Cell)
  BY <1>5, HeadType DEF Rest
<1>6. CASE Answer
  <2>1. Rest /\ rx # <<>> /\ UNCHANGED <<out, faults, quiet>>
    BY <1>6 DEF Answer, Get, far
  <2> QED
    BY <1>s, <1>5, <2>1
<1>7. CASE RecvAck
  <2>1. (Rest \/ rx' = <<>>) /\ rx # <<>> /\ UNCHANGED <<out, faults, quiet>>
    BY <1>7 DEF RecvAck, Get, far
  <2> QED
    BY <1>s, <1>5, <2>1, EmptySeq
<1>8. CASE High
  <2>1. Rest /\ rx # <<>> /\ UNCHANGED <<out, faults, quiet>>
    BY <1>8 DEF High, Get, far
  <2> QED
    BY <1>s, <1>5, <2>1
<1>9. CASE Low
  <2>1. Rest /\ rx # <<>> /\ UNCHANGED <<out, faults, quiet>>
    BY <1>9 DEF Low, Get, far
  <2> QED
    BY <1>s, <1>5, <2>1
<1>10. CASE Data
  <2>1. Rest /\ rx # <<>> /\ UNCHANGED <<out, faults, quiet>>
    BY <1>10 DEF Data, Get, far
  <2> QED
    BY <1>s, <1>5, <2>1
<1>11. CASE Check
  <2>1. rx' = Reflected(Tail(rx), 1) /\ rx # <<>> /\ UNCHANGED <<faults, quiet>>
    BY <1>11 DEF Check, Get, Acknowledged
  <2>2. rx' \in Seq(Cell)
    BY <2>1, HeadType, ReflectedType
  <2>3. out' = out \/ (cur \in DOMAIN answers /\ out' = out \o Reply(answers[cur].reply))
    BY <1>11, Zenon DEF Check
  <2>4. out' \in Seq(Cell)
    BY <1>0, <2>3, TextOf, OutType
  <2> QED
    BY <1>0, <2>1, <2>2, <2>4 DEF LineType
<1>12. CASE Timeout
  BY <1>0, <1>s, <1>12 DEF Timeout, far
<1>13. ASSUME out' \in Seq(Cell), UNCHANGED <<rx, faults, quiet>>
       PROVE  LineType'
  BY <1>0, <1>13 DEF LineType
<1>14. CASE TakePacket
  <2>1. \/ UNCHANGED out
        \/ \E v \in {FUJICMD_ACK, FUJICMD_NAK} : out' = out \o Word(v)
    BY <1>14 DEF TakePacket
  <2>2. UNCHANGED <<rx, faults, quiet>>
    BY <1>14 DEF TakePacket, lynx
  <2> QED
    BY <1>0, <1>13, <2>1, <2>2, OutWordType
<1>15. CASE CarryOut
  <2>1. \/ \E s \in Replies : out' = out \o Reply(s)
        \/ \E v \in {FUJICMD_ACK, FUJICMD_NAK} : out' = out \o Word(v)
    BY <1>15 DEF CarryOut
  <2>2. UNCHANGED <<rx, faults, quiet>>
    BY <1>15 DEF CarryOut, lynx
  <2> QED
    BY <1>0, <1>13, <2>1, <2>2, OutWordType, OutType, RepliesType
<1> QED
  BY <1>1, <1>2, <1>3, <1>4, <1>6, <1>7, <1>8, <1>9, <1>10, <1>11, <1>12, <1>14, <1>15 DEF CallSteps, FarSteps

LEMMA LineTypeWire ==
  ASSUME LineType, WireSteps
  PROVE  LineType'
<1>0. /\ rx \in Seq(Cell) /\ out \in Seq(Cell) /\ quiet \in BOOLEAN
      /\ faults \in [all : 0..MaxFaults, call : Nat, len : BOOLEAN]
  BY DEF LineType
<1>1. /\ out # <<>> /\ out' = Tail(out) /\ quiet' = quiet
  BY DEF WireSteps, Arrive, Lose, Garble, Moved
<1>2. Head(out) \in Cell /\ out' \in Seq(Cell)
  BY <1>0, <1>1, HeadTailProperties
<1>3. faults' \in [all : 0..MaxFaults, call : Nat, len : BOOLEAN]
  <2>1. UNCHANGED faults \/ Fault(Head(out).part)
    BY DEF WireSteps, Arrive, Lose, Garble
  <2> QED
    BY <1>0, <2>1, FaultType
<1>4. rx' \in Seq(Cell)
  <2>1. CASE Arrive
    BY <1>0, <1>2, <2>1, AppendProperties DEF Arrive
  <2>2. CASE Lose
    BY <1>0, <2>2 DEF Lose
  <2>3. CASE Garble
    <3>1. PICK v \in Noise : rx' = Append(rx, [Head(out) EXCEPT !.v = v])
      BY <2>3 DEF Garble
    <3>2. [Head(out) EXCEPT !.v = v] \in Cell
      BY <1>2, Limits DEF Cell
    <3> QED
      BY <1>0, <3>1, <3>2, AppendProperties
  <2> QED
    BY <2>1, <2>2, <2>3 DEF WireSteps
<1> QED
  BY <1>0, <1>1, <1>2, <1>3, <1>4 DEF LineType

LEMMA PacketsType ==
  ASSUME FarType, inbox # <<>>
  PROVE  Head(inbox) \in Packets /\ Tail(inbox) \in Seq(Packets)
BY HeadTailProperties DEF FarType

LEMMA FarTypeStep ==
  ASSUME CallType, FarType, CallSteps \/ FarSteps
  PROVE  FarType'
<1>s. ASSUME UNCHANGED <<inbox, job, answers>>
      PROVE  FarType'
  BY <1>s DEF FarType
<1>1. CASE SendByte
  <2>1. CASE UNCHANGED inbox
    BY <1>s, <1>1, <2>1 DEF SendByte
  <2>2. ASSUME NEW w \in BOOLEAN, inbox' = Append(inbox, [call |-> cur, whole |-> w, req |-> req])
        PROVE  FarType'
    <3>1. cur \in 1..MaxCalls
      <4>1. cur \in 0..MaxCalls /\ cur # 0
        BY <1>1 DEF SendByte, At, CallType
      <4> QED
        BY <4>1
    <3>2. [call |-> cur, whole |-> w, req |-> req] \in Packets
      BY <2>2, <3>1 DEF CallType, Packets
    <3>3. inbox' \in Seq(Packets)
      BY <2>2, <3>2, AppendProperties DEF FarType
    <3> QED
      BY <1>1, <3>3 DEF FarType, SendByte
  <2>3. UNCHANGED inbox \/ \E w \in BOOLEAN : inbox' = Append(inbox, [call |-> cur, whole |-> w, req |-> req])
    BY <1>1 DEF SendByte
  <2> QED
    BY <2>1, <2>2, <2>3
<1>2. CASE TakePacket
  <2>1. inbox' = Tail(inbox) /\ inbox # <<>> /\ job' \in {Head(inbox), None} /\ UNCHANGED answers
    BY <1>2 DEF TakePacket
  <2> QED
    BY <2>1, PacketsType DEF FarType
<1>3. CASE CarryOut
  <2>1. job \in Packets /\ job' = None /\ UNCHANGED inbox
    BY <1>3 DEF CarryOut, FarType
  <2>2. \E w \in {"reply", "ack", "nak"}, s \in Replies \cup {<<>>} : Told(w, s)
    BY <1>3 DEF CarryOut
  <2>3. PICK w \in {"reply", "ack", "nak"}, s \in Replies \cup {<<>>} : Told(w, s)
    BY <2>2
  <2>4. [word |-> w, reply |-> s] \in Answers
    BY DEF Answers
  <2>5. job.call \in 1..MaxCalls
    BY <2>1 DEF Packets
  <2>6. DOMAIN answers' = DOMAIN answers \cup {job.call}
    BY <2>3 DEF Told
  <2>7. \A c \in DOMAIN answers' : answers'[c] = IF c = job.call THEN [word |-> w, reply |-> s] ELSE answers[c]
    BY <2>3 DEF Told
  <2>8. \A c \in DOMAIN answers' : answers'[c] \in Answers
    BY <2>4, <2>6, <2>7 DEF FarType
  <2> QED
    BY <2>1, <2>5, <2>6, <2>8 DEF FarType
<1>4. CASE Check
  <2>1. UNCHANGED <<inbox, job, answers>>
    BY <1>4, Zenon DEF Check
  <2> QED
    BY <1>s, <2>1
<1>5. CASE Call \/ Start \/ SendHead \/ Answer \/ RecvAck \/ High \/ Low \/ Data \/ Timeout
  BY <1>s, <1>5 DEF far, Call, Start, SendHead, Answer, RecvAck, High, Low, Data, Timeout
<1> QED
  BY <1>1, <1>2, <1>3, <1>4, <1>5 DEF CallSteps, FarSteps

LEMMA TypeStep ==
  ASSUME TypeInv, [Next]_vars
  PROVE  TypeInv'
<1>0. CallType /\ OutcomeType /\ CountType /\ LineType /\ FarType
  BY DEF TypeInv
<1>1. CASE CallSteps
  BY <1>0, <1>1, CallTypeStep, OutcomeTypeStep, CountTypeStep, LineTypeStep, FarTypeStep DEF TypeInv
<1>2. CASE FarSteps
  <2>1. LineType' /\ FarType'
    BY <1>0, <1>2, LineTypeStep, FarTypeStep
  <2>2. UNCHANGED lynx
    BY <1>2 DEF FarSteps, TakePacket, CarryOut
  <2>3. CallType' /\ OutcomeType' /\ CountType'
    BY <1>0, <2>2 DEF lynx, CallType, OutcomeType, CountType
  <2> QED
    BY <2>1, <2>3 DEF TypeInv
<1>3. CASE WireSteps
  <2>1. LineType'
    BY <1>0, <1>3, LineTypeWire
  <2>2. UNCHANGED <<pc, cur, req, opened, sent, len, buf, outcome, fn_error, reflects, inbox, job, answers, quiet>>
    BY <1>3 DEF WireSteps, Arrive, Lose, Garble, Moved
  <2>3. CallType' /\ OutcomeType' /\ CountType' /\ FarType'
    BY <1>0, <2>2 DEF CallType, OutcomeType, CountType, FarType
  <2> QED
    BY <2>1, <2>3 DEF TypeInv
<1>4. CASE UNCHANGED vars
  BY <1>0, <1>4 DEF vars, lynx, far, TypeInv, CallType, OutcomeType, CountType, LineType, FarType
<1> QED
  BY <1>1, <1>2, <1>3, <1>4 DEF Next, CallSteps, FarSteps, WireSteps

LEMMA TypeInvCorrect == Spec => []TypeInv
BY TypeInit, TypeStep, PTL DEF Spec

(* The types of the model, and that no byte of a reply is stored behind the *)
(* buffer of the caller, whatever length the FujiNet announces.             *)
THEOREM TypeCorrect == Spec => []TypeOK
<1>1. TypeInv => TypeOK
  <2> SUFFICES ASSUME TypeInv PROVE TypeOK
    OBVIOUS
  <2>1. \A i \in DOMAIN rx : rx[i].v \in Byte
    <3>1. \A i \in DOMAIN rx : rx[i] \in Cell
      BY LenProperties, ElementOfSeq DEF TypeInv, LineType
    <3> QED
      BY <3>1 DEF Cell
  <2>2. faults.all \in 0..MaxFaults
    BY DEF TypeInv, LineType
  <2> QED
    BY <2>1, <2>2 DEF TypeInv, CallType, OutcomeType, CountType, TypeOK, Errors
<1> QED
  BY <1>1, TypeInvCorrect, PTL

(***************************************************************************)
(* What is to come of an answer a: w, of which k bytes have been lost or   *)
(* garbled.                                                                *)
(***************************************************************************)

\* the text of the reply, if there is one, after o bytes
Framed(w, o, a, k) ==
  IF a.word = "reply"
  THEN /\ Body(<<>>, w, o, a.reply, k)
       /\ o >= 1 => w[o] = Put(Len(a.reply) % 256, "length")
       /\ o >= 2 => w[o-1] = Put(Len(a.reply) \div 256, "length")
  ELSE Len(w) < o

\* its i-th byte is the word that ends the call, if it comes
Final(w, i, a, k) ==
  /\ Len(w) <= i
  /\ Len(w) = i => /\ w[i].v = FUJICMD_ACK => a.word = "ack"
                   /\ k = 0 => w[i].v \in {FUJICMD_ACK, FUJICMD_NAK}

Expected(w, o, reply, a, k) == IF reply THEN Framed(w, o, a, k) ELSE Final(w, o - 1, a, k)

LEMMA FramedComes ==
  ASSUME NEW s \in Texts, NEW x \in Seq(Cell), NEW k, NEW a, a.word = "reply", a.reply = s, Len(x) <= 1
  PROVE  Framed(x \o Reply(s), Len(x) + 2, a, k)
<1>1. PICK r : r = Reply(s)
  OBVIOUS
<1>2. PICK w : w = x \o r
  OBVIOUS
<1>3. /\ r \in Seq(Cell) /\ Len(r) = Len(s) + 3
      /\ r[1] = Put(Len(s) \div 256, "length") /\ r[2] = Put(Len(s) % 256, "length")
      /\ \A i \in 1..(Len(s) + 1) : r[i + 2].v = Due(s, i)
  BY <1>1, ReplyFraming DEF Framing
<1>4. /\ w \in Seq(Cell) /\ Len(w) = Len(x) + Len(r)
      /\ \A i \in 1..Len(r) : w[Len(x) + i] = r[i]
  <2>1. r \in Seq(Cell)
    BY <1>3
  <2> QED
    BY <1>2, <2>1, Joined
<1>5. Len(s) \in Nat /\ Len(x) \in Nat
  BY LenProperties DEF Texts
<1>6. PICK o \in 0..3 : o = Len(x) + 2 /\ o >= 2 /\ o - 1 = Len(x) + 1
  BY <1>5
<1>7. w[o] = Put(Len(s) % 256, "length")
  <2>1. 2 \in 1..Len(r)
    BY <1>3, <1>5
  <2> QED
    BY <1>3, <1>4, <1>6, <2>1
<1>8. w[o-1] = Put(Len(s) \div 256, "length")
  <2>1. 1 \in 1..Len(r)
    BY <1>3, <1>5
  <2> QED
    BY <1>3, <1>4, <1>6, <2>1
<1>9. ASSUME NEW i \in 1..(Len(s) + 1)
      PROVE  w[o + i].v = Due(s, i)
  <2>1. i + 2 \in 1..Len(r) /\ o + i = Len(x) + (i + 2)
    BY <1>3, <1>5, <1>6
  <2> QED
    BY <1>3, <1>4, <2>1
<1>10. Len(w) = o + Len(s) + 1
  BY <1>3, <1>4, <1>5, <1>6
<1>11. Body(<<>>, w, o, s, k)
  BY <1>4, <1>9, <1>10, BodyComes
<1>12. Framed(w, o, a, k)
  BY <1>7, <1>8, <1>11 DEF Framed
<1> QED
  BY <1>1, <1>2, <1>6, <1>12

(* The first bytes of what is framed are those of the length. *)
LEMMA FramedLength ==
  ASSUME NEW w \in Seq(Cell), NEW o \in 1..3, NEW a, NEW k, Framed(w, o, a, k), a.word = "reply",
         NEW i \in 1..Len(w), w[i].part # "length"
  PROVE  i > o \/ (o = 3 /\ i = 1)
<1>1. w[o].part = "length" /\ (o >= 2 => w[o-1].part = "length")
  BY DEF Framed, Put
<1> QED
  BY <1>1

LEMMA FramedLost ==
  ASSUME NEW w \in Seq(Cell), NEW v, NEW i, LostAt(w, v, i), NEW o \in 1..3, NEW a,
         a.word = "reply" => a.reply \in Texts /\ i > o,
         Framed(w, o, a, 0)
  PROVE  Framed(v, o, a, 1)
<1>1. /\ Len(w) \in Nat /\ v \in Seq(Cell) /\ Len(v) \in Nat /\ Len(w) = Len(v) + 1 /\ i \in 1..Len(w)
      /\ \A j \in 1..Len(v) : v[j] = IF j < i THEN w[j] ELSE w[j+1]
  BY LenProperties DEF LostAt
<1>2. CASE a.word # "reply"
  BY <1>1, <1>2 DEF Framed
<1>3. CASE a.word = "reply"
  <2>1. /\ Body(<<>>, w, o, a.reply, 0)
        /\ w[o] = Put(Len(a.reply) % 256, "length")
        /\ o >= 2 => w[o-1] = Put(Len(a.reply) \div 256, "length")
    <3>1. o >= 1
      OBVIOUS
    <3> QED
      BY <1>3, <3>1, Zenon DEF Framed
  <2>2. Body(<<>>, v, o, a.reply, 1)
    <3>1. o \in 0..3 /\ <<>> \in Seq(Byte) /\ a.reply \in Texts
      BY <1>3, EmptySeq
    <3> QED
      BY <2>1, <3>1, BodyLost
  <2>3. v[o] = w[o]
    BY <1>1, <1>3
  <2>4. o >= 2 => v[o-1] = w[o-1]
    BY <1>1, <1>3
  <2> QED
    BY <1>3, <2>1, <2>2, <2>3, <2>4 DEF Framed
<1> QED
  BY <1>2, <1>3

LEMMA FramedGarbled ==
  ASSUME NEW w \in Seq(Cell), NEW v, NEW i, GarbledAt(w, v, i), NEW o \in 1..3, NEW a,
         a.word = "reply" => a.reply \in Texts /\ i > o,
         Framed(w, o, a, 0)
  PROVE  Framed(v, o, a, 1)
<1>1. /\ Len(w) \in Nat /\ v \in Seq(Cell) /\ Len(v) = Len(w) /\ i \in 1..Len(w)
      /\ \A j \in 1..Len(v) : j # i => v[j] = w[j]
  BY LenProperties DEF GarbledAt
<1>2. CASE a.word # "reply"
  BY <1>1, <1>2 DEF Framed
<1>3. CASE a.word = "reply"
  <2>1. /\ Body(<<>>, w, o, a.reply, 0)
        /\ w[o] = Put(Len(a.reply) % 256, "length")
        /\ o >= 2 => w[o-1] = Put(Len(a.reply) \div 256, "length")
    <3>1. o >= 1
      OBVIOUS
    <3> QED
      BY <1>3, <3>1, Zenon DEF Framed
  <2>2. Body(<<>>, v, o, a.reply, 1)
    <3>1. o \in 0..3 /\ <<>> \in Seq(Byte) /\ a.reply \in Texts /\ i > o
      BY <1>3, EmptySeq
    <3> QED
      BY <2>1, <3>1, BodyGarbled
  <2>3. v[o] = w[o]
    BY <1>1, <1>3
  <2>4. o >= 2 => v[o-1] = w[o-1]
    BY <1>1, <1>3
  <2> QED
    BY <1>3, <2>1, <2>2, <2>3, <2>4 DEF Framed
<1> QED
  BY <1>2, <1>3

LEMMA FramedTaken ==
  ASSUME NEW w \in Seq(Cell), NEW v, TakenFrom(w, v), NEW o \in 0..2, NEW a, NEW k,
         a.word = "reply" => a.reply \in Texts,
         Framed(w, o + 1, a, k)
  PROVE  Framed(v, o, a, k)
<1>1. /\ v \in Seq(Cell) /\ Len(v) \in Nat /\ Len(w) = Len(v) + 1 /\ \A j \in 1..Len(v) : v[j] = w[j+1]
  BY LenProperties DEF TakenFrom
<1>2. CASE a.word # "reply"
  BY <1>1, <1>2 DEF Framed
<1>3. CASE a.word = "reply"
  <2>0. PICK lo, hi : lo = Put(Len(a.reply) % 256, "length") /\ hi = Put(Len(a.reply) \div 256, "length")
    OBVIOUS
  <2>1. /\ Body(<<>>, w, o + 1, a.reply, k)
        /\ o + 1 >= 1 => w[o + 1] = lo
        /\ o + 1 >= 2 => w[(o + 1) - 1] = hi
    BY <1>3, <2>0, Zenon DEF Framed
  <2>2. Body(<<>>, v, o, a.reply, k)
    BY <1>3, <2>1, BodyTaken
  <2>3. Len(v) >= o
    <3>1. Len(a.reply) \in Nat
      BY <1>3, LenProperties DEF Texts
    <3>2. Len(v) = o + Len(a.reply) + 1 \/ Len(v) = o + Len(a.reply)
      <4>1. Len(<<>>) + Len(v) = o + Len(a.reply) + 1 \/ Len(<<>>) + Len(v) = o + Len(a.reply)
        BY <2>2, Zenon DEF Body
      <4> QED
        BY <1>1, <4>1
    <3> QED
      BY <3>1, <3>2
  <2>4. o >= 1 => v[o] = w[o + 1]
    BY <1>1, <2>3
  <2>5. o >= 2 => v[o-1] = w[(o + 1) - 1]
    <3>1. o >= 2 => o - 1 \in 1..Len(v) /\ (o - 1) + 1 = (o + 1) - 1
      BY <1>1, <2>3
    <3> QED
      BY <1>1, <3>1
  <2>6. o >= 1 => v[o] = lo
    BY <2>1, <2>4
  <2>7. o >= 2 => v[o-1] = hi
    BY <2>1, <2>5
  <2> QED
    BY <1>3, <2>0, <2>2, <2>6, <2>7, Zenon DEF Framed
<1> QED
  BY <1>2, <1>3

LEMMA FinalLost ==
  ASSUME NEW w \in Seq(Cell), NEW v, NEW i, LostAt(w, v, i), NEW o \in 1..2, NEW a, NEW k, Final(w, o, a, 0)
  PROVE  Final(v, o, a, k)
<1>1. Len(w) \in Nat /\ Len(v) \in Nat /\ Len(w) = Len(v) + 1
  BY LenProperties DEF LostAt
<1>2. Len(v) < o
  BY <1>1 DEF Final
<1>3. Len(v) <= o /\ Len(v) # o
  BY <1>1, <1>2
<1> QED
  BY <1>3 DEF Final

LEMMA FinalGarbled ==
  ASSUME NEW w \in Seq(Cell), NEW v, NEW i, GarbledAt(w, v, i), NEW o \in 1..2, NEW a, Final(w, o, a, 0)
  PROVE  Final(v, o, a, 1)
<1>1. /\ Len(v) = Len(w) /\ Len(w) <= o /\ \A j \in 1..Len(v) : j # i => v[j] = w[j]
      /\ v[i].v # w[i].v /\ Odd(v[i].v) = Odd(w[i].v)
      /\ Len(w) = o => /\ w[o].v = FUJICMD_ACK => a.word = "ack"
                       /\ w[o].v \in {FUJICMD_ACK, FUJICMD_NAK}
  BY DEF GarbledAt, Final
<1>2. ASSUME Len(v) = o, v[o].v = FUJICMD_ACK
      PROVE  a.word = "ack"
  <2>1. CASE i = o
    <3>1. w[o].v = FUJICMD_NAK
      BY <1>1, <1>2, <2>1
    <3> QED
      BY <1>1, <1>2, <2>1, <3>1, NoAckOfNak
  <2>2. CASE i # o
    <3>1. v[o] = w[o]
      BY <1>1, <1>2, <2>2
    <3> QED
      BY <1>1, <1>2, <3>1
  <2> QED
    BY <2>1, <2>2
<1> QED
  BY <1>1, <1>2 DEF Final

LEMMA FinalTaken ==
  ASSUME NEW w \in Seq(Cell), NEW v, TakenFrom(w, v), NEW o \in 1..2, NEW a, NEW k, Final(w, o + 1, a, k)
  PROVE  Final(v, o, a, k)
<1>1. /\ Len(v) \in Nat /\ Len(w) = Len(v) + 1 /\ \A j \in 1..Len(v) : v[j] = w[j+1]
  BY LenProperties DEF TakenFrom
<1>2. /\ Len(w) <= o + 1
      /\ Len(w) = o + 1 => /\ w[o + 1].v = FUJICMD_ACK => a.word = "ack"
                           /\ k = 0 => w[o + 1].v \in {FUJICMD_ACK, FUJICMD_NAK}
  BY DEF Final
<1>3. Len(v) <= o
  BY <1>1, <1>2
<1>4. Len(v) = o => v[o] = w[o + 1] /\ Len(w) = o + 1
  BY <1>1
<1> QED
  BY <1>2, <1>3, <1>4 DEF Final

LEMMA ExpectedLost ==
  ASSUME NEW w \in Seq(Cell), NEW v, NEW i, LostAt(w, v, i), NEW o \in 2..3, NEW reply \in BOOLEAN, NEW a,
         a.word = "reply" => a.reply \in Texts /\ (reply => i > o),
         Expected(w, o, reply, a, 0)
  PROVE  Expected(v, o, reply, a, 1)
<1>1. CASE reply
  BY <1>1, FramedLost DEF Expected
<1>2. CASE ~reply
  <2>1. o - 1 \in 1..2
    OBVIOUS
  <2> QED
    BY <1>2, <2>1, FinalLost DEF Expected
<1> QED
  BY <1>1, <1>2

LEMMA ExpectedGarbled ==
  ASSUME NEW w \in Seq(Cell), NEW v, NEW i, GarbledAt(w, v, i), NEW o \in 2..3, NEW reply \in BOOLEAN, NEW a,
         a.word = "reply" => a.reply \in Texts /\ (reply => i > o),
         Expected(w, o, reply, a, 0)
  PROVE  Expected(v, o, reply, a, 1)
<1>1. CASE reply
  BY <1>1, FramedGarbled DEF Expected
<1>2. CASE ~reply
  <2>1. o - 1 \in 1..2
    OBVIOUS
  <2> QED
    BY <1>2, <2>1, FinalGarbled DEF Expected
<1> QED
  BY <1>1, <1>2

(***************************************************************************)
(* The line, while a call that began with nothing under way meets one      *)
(* fault at most, and none of a length.                                    *)
(***************************************************************************)

(* No message is longer than the library's limit, and that limit is below  *)
(* the lengths whose first byte looks like an ACK (1024 and 1536).         *)
MessagesFit ==
  /\ FNIO_TX_LEN_MAX < 256 * FUJICMD_ACK
  /\ \A s \in Replies : Len(s) <= FNIO_TX_LEN_MAX

Good == quiet /\ faults.call <= 1 /\ ~faults.len

Stream == rx \o out

Silent == Stream = <<>> /\ inbox = <<>> /\ job = None

Mine(whole) == [call |-> cur, whole |-> whole, req |-> req]

\* the FujiNet works on the packet of the call
Working == inbox = <<>> /\ job = Mine(TRUE)

\* and has answered it
Answered ==
  /\ inbox = <<>> /\ job = None
  /\ cur \in DOMAIN answers
  /\ answers[cur].word = "reply" => req.reply
  /\ answers[cur].word = "ack" => ~req.reply

\* what follows is not taken for an ACK
Unacknowledged(w, k) == k = 1 /\ (w # <<>> => ~IsAck(w[1].v))

OnAnswer ==
  \/ inbox = <<Mine(faults.call = 0)>> /\ job = None /\ Stream = <<>>
  \/ /\ inbox = <<>> /\ job = None /\ faults.call = 1
     /\ Stream = <<>> \/ Stream = Word(FUJICMD_NAK)
  \/ /\ Working
     /\ \/ Stream = Word(FUJICMD_ACK)
        \/ Unacknowledged(Stream, faults.call) /\ Len(Stream) <= 1
  \/ /\ Answered
     /\ \/ /\ Stream # <<>> /\ IsAck(Stream[1].v)
           /\ Expected(Stream, 3, req.reply, answers[cur], faults.call)
        \/ Unacknowledged(Stream, faults.call)
        \/ faults.call = 1 /\ Len(Stream) <= 1 /\ answers[cur].word # "reply"

OnHigh ==
  \/ Working /\ Stream = <<>>
  \/ Answered /\ Expected(Stream, 2, req.reply, answers[cur], faults.call)

OnLow ==
  /\ Answered /\ Framed(Stream, 1, answers[cur], faults.call)
  /\ answers[cur].word = "reply" => len = 256 * (Len(answers[cur].reply) \div 256)

OnText ==
  /\ Answered /\ answers[cur].word = "reply"
  /\ len = Len(answers[cur].reply)
  /\ Body(buf, Stream, 0, answers[cur].reply, faults.call)

\* the call has heard the last word
Concluded == outcome.ok \/ fn_error = "command failed"

OnReturn ==
  /\ Concluded => Silent
  /\ outcome.ok =>
       /\ cur \in DOMAIN answers
       /\ IF req.reply
          THEN answers[cur] = [word |-> "reply", reply |-> buf] /\ len = Len(buf)
          ELSE answers[cur].word = "ack"

LineInv ==
  Good =>
    /\ pc = "idle" => OnReturn
    /\ pc \in {"start", "head", "send"} => Silent /\ faults.call = 0
    /\ pc = "answer" => OnAnswer
    /\ pc \in {"done", "high"} => OnHigh
    /\ pc = "low" => OnLow
    /\ pc \in {"data", "check"} => OnText

(***************************************************************************)
(* How the stream changes.                                                 *)
(***************************************************************************)

LEMMA StreamType ==
  ASSUME LineType
  PROVE  /\ Stream \in Seq(Cell) /\ Len(Stream) \in Nat
         /\ Len(Stream) = Len(rx) + Len(out) /\ Len(rx) \in Nat /\ Len(out) \in Nat
         /\ (Stream = <<>>) <=> (rx = <<>> /\ out = <<>>)
<1>1. rx \in Seq(Cell) /\ out \in Seq(Cell)
  BY DEF LineType
<1>2. Stream \in Seq(Cell) /\ Len(Stream) = Len(rx) + Len(out)
  BY <1>1, ConcatProperties DEF Stream
<1>3. Len(rx) \in Nat /\ Len(out) \in Nat /\ Len(Stream) \in Nat
  BY <1>1, <1>2, LenProperties
<1>4. (Stream = <<>>) <=> (rx = <<>> /\ out = <<>>)
  BY <1>1, ConcatEqualIffEmpty DEF Stream
<1> QED
  BY <1>2, <1>3, <1>4

LEMMA TakenStream ==
  ASSUME LineType, rx # <<>>, Rest, out' = out
  PROVE  /\ Stream \in Seq(Cell) /\ Stream' \in Seq(Cell) /\ Len(Stream') \in Nat
         /\ Len(Stream) = Len(Stream') + 1 /\ Stream # <<>>
         /\ Stream[1].v = Took /\ TakenFrom(Stream, Stream')
<1>1. rx \in Seq(Cell) /\ out \in Seq(Cell)
  BY DEF LineType
<1>2. Stream[1] = Head(rx) /\ TakenFrom(Stream, Stream')
  <2>1. Stream' = Tail(rx) \o out
    BY DEF Stream, Rest
  <2>2. (rx \o out)[1] = Head(rx) /\ TakenFrom(rx \o out, Tail(rx) \o out)
    BY <1>1, Takes
  <2> QED
    BY <2>1, <2>2 DEF Stream
<1>3. Stream' \in Seq(Cell) /\ Len(Stream) = Len(Stream') + 1
  BY <1>2 DEF TakenFrom
<1>4. Len(Stream') \in Nat
  BY <1>3, LenProperties
<1> QED
  BY <1>2, <1>3, <1>4, StreamType DEF Took

Harmed(w, v, i) == LostAt(w, v, i) \/ GarbledAt(w, v, i)

LEMMA WireStream ==
  ASSUME LineType, WireSteps
  PROVE  \/ Stream' = Stream /\ UNCHANGED faults
         \/ \E i \in 1..Len(Stream) : Harmed(Stream, Stream', i) /\ Fault(Stream[i].part)
<1>1. rx \in Seq(Cell) /\ out \in Seq(Cell)
  BY DEF LineType
<1>2. out # <<>> /\ out' = Tail(out)
  BY DEF WireSteps, Arrive, Lose, Garble, Moved
<1>3. CASE Arrive
  <2>1. rx' = Append(rx, Head(out)) /\ UNCHANGED faults
    BY <1>3 DEF Arrive
  <2>2. Append(rx, Head(out)) \o Tail(out) = rx \o out
    BY <1>1, <1>2, MovesOn
  <2> QED
    BY <1>2, <2>1, <2>2 DEF Stream
<1>4. CASE Lose
  <2>1. rx' = rx /\ Fault(Head(out).part)
    BY <1>4 DEF Lose
  <2>2. \E i \in 1..Len(rx \o out) : (rx \o out)[i] = Head(out) /\ LostAt(rx \o out, rx \o Tail(out), i)
    BY <1>1, <1>2, Loses
  <2>3. PICK i \in 1..Len(rx \o out) : (rx \o out)[i] = Head(out) /\ LostAt(rx \o out, rx \o Tail(out), i)
    BY <2>2
  <2>4. Stream' = rx \o Tail(out)
    BY <1>2, <2>1 DEF Stream
  <2>5. i \in 1..Len(Stream) /\ Stream[i] = Head(out) /\ LostAt(Stream, Stream', i)
    BY <2>3, <2>4 DEF Stream
  <2> QED
    BY <2>1, <2>5 DEF Harmed
<1>5. CASE Garble
  <2>1. PICK n \in Noise : /\ n # Head(out).v /\ Odd(n) = Odd(Head(out).v)
                           /\ rx' = Append(rx, [Head(out) EXCEPT !.v = n])
    BY <1>5 DEF Garble
  <2>2. Fault(Head(out).part)
    BY <1>5 DEF Garble
  <2>3. Head(out) \in Cell /\ n \in Byte
    BY <1>1, <1>2, <2>1, HeadTailProperties, Limits
  <2>4. PICK b : b = [Head(out) EXCEPT !.v = n]
    OBVIOUS
  <2>5. b \in Cell /\ b.v = n
    BY <2>3, <2>4 DEF Cell
  <2>6. b.v # Head(out).v /\ Odd(b.v) = Odd(Head(out).v)
    BY <2>1, <2>5
  <2>7. \E i \in 1..Len(rx \o out) : (rx \o out)[i] = Head(out) /\ GarbledAt(rx \o out, Append(rx, b) \o Tail(out), i)
    BY <1>1, <1>2, <2>5, <2>6, Garbles
  <2>8. PICK i \in 1..Len(rx \o out) : (rx \o out)[i] = Head(out) /\ GarbledAt(rx \o out, Append(rx, b) \o Tail(out), i)
    BY <2>7
  <2>9. Stream' = Append(rx, b) \o Tail(out)
    BY <1>2, <2>1, <2>4 DEF Stream
  <2>10. i \in 1..Len(Stream) /\ Stream[i] = Head(out) /\ GarbledAt(Stream, Stream', i)
    BY <2>8, <2>9 DEF Stream
  <2> QED
    BY <2>2, <2>10 DEF Harmed
<1> QED
  BY <1>3, <1>4, <1>5 DEF WireSteps

LEMMA GoodOne ==
  ASSUME LineType, NEW part, Fault(part), Good', quiet' = quiet
  PROVE  Good /\ faults.call = 0 /\ faults'.call = 1 /\ part # "length"
<1>1. faults.call \in Nat /\ faults.len \in BOOLEAN
  BY DEF LineType
<1>2. faults'.call = faults.call + 1 /\ faults'.len = (faults.len \/ part = "length")
  BY DEF Fault
<1>3. faults.call + 1 <= 1
  BY <1>2 DEF Good
<1>4. ~faults.len /\ part # "length"
  BY <1>2 DEF Good
<1> QED
  BY <1>1, <1>2, <1>3, <1>4 DEF Good

LEMMA SameLine ==
  ASSUME LineInv, UNCHANGED <<pc, cur, req, len, buf, outcome, fn_error, inbox, job, answers, faults, quiet>>,
         Stream' = Stream
  PROVE  LineInv'
BY DEF LineInv, Good, OnReturn, Concluded, OnAnswer, OnHigh, OnLow, OnText, Silent, Answered, Working, Mine

(***************************************************************************)
(* The steps of the Lynx.                                                  *)
(***************************************************************************)

LEMMA LineCall ==
  ASSUME LineType, LineInv, Call
  PROVE  LineInv'
<1> SUFFICES ASSUME Good' PROVE LineInv'
  BY DEF LineInv
<1>1. pc' = "start" /\ faults'.call = 0 /\ UNCHANGED <<inbox, job>>
  <2>1. faults' = [faults EXCEPT !.call = 0, !.len = FALSE]
    BY DEF Call
  <2>2. faults \in [all : 0..MaxFaults, call : Nat, len : BOOLEAN]
    BY DEF LineType
  <2>3. faults'.call = 0
    BY <2>1, <2>2
  <2> QED
    BY <2>3 DEF Call, Goto, far
<1>2. rx = <<>> /\ out = <<>> /\ inbox = <<>> /\ job = None /\ rx' = rx /\ out' = out
  BY DEF Call, Good, far
<1>3. Stream' = Stream /\ Stream = <<>>
  BY <1>2, StreamType DEF Stream
<1>4. Silent'
  BY <1>1, <1>2, <1>3 DEF Silent
<1> QED
  BY <1>1, <1>4 DEF LineInv

(* Up to the last byte of the packet the line is silent. *)
LEMMA LineSend ==
  ASSUME LineType, CallType, LineInv, Start \/ SendHead \/ SendByte
  PROVE  LineInv'
<1> SUFFICES ASSUME Good' PROVE LineInv'
  BY DEF LineInv
<1>1. UNCHANGED <<cur, req, job, out, quiet>> /\ pc \in {"start", "head", "send"}
  BY DEF Start, SendHead, SendByte, far, At
<1>2. UNCHANGED <<faults, inbox>> \/ SendByte
  BY DEF Start, SendHead, SendByte, far
<1>3. UNCHANGED faults \/ Fault("data")
  BY <1>2 DEF SendByte
<1>4. Good
  <2>1. CASE UNCHANGED faults
    BY <1>1, <2>1 DEF Good
  <2>2. CASE Fault("data")
    BY <1>1, <2>2, GoodOne
  <2> QED
    BY <1>3, <2>1, <2>2
<1>5. Silent /\ faults.call = 0
  BY <1>1, <1>4 DEF LineInv
<1>6. rx = <<>> /\ out = <<>> /\ inbox = <<>> /\ job = None
  BY <1>5, StreamType DEF Silent
<1>7. rx' = <<>>
  <2>1. rx' \in {rx, Reflected(rx, 1), Reflected(rx, 3)}
    BY DEF Start, SendHead, SendByte
  <2> QED
    BY <1>6, <2>1, ReflectedNothing
<1>8. Stream' = <<>>
  BY <1>1, <1>5, <1>6, <1>7 DEF Stream, Silent
<1>9. CASE UNCHANGED <<faults, inbox>> /\ pc' \in {"head", "send", "idle"} /\ (pc' = "idle" => ~outcome'.ok)
  <2>1. Silent' /\ faults'.call = 0
    BY <1>1, <1>5, <1>6, <1>8, <1>9 DEF Silent
  <2>2. pc' = "idle" => OnReturn'
    BY <1>9, <2>1 DEF OnReturn
  <2> QED
    BY <1>9, <2>1, <2>2 DEF LineInv
<1>10. CASE pc' = "answer" /\ \/ inbox' = Append(inbox, Mine(TRUE)) /\ UNCHANGED faults
                              \/ inbox' = Append(inbox, Mine(FALSE)) /\ Fault("data")
  <2>1. Append(<<>>, Mine(TRUE)) = <<Mine(TRUE)>> /\ Append(<<>>, Mine(FALSE)) = <<Mine(FALSE)>>
    OBVIOUS
  <2>2. \/ inbox' = <<Mine(TRUE)>> /\ faults'.call = 0
        \/ inbox' = <<Mine(FALSE)>> /\ faults'.call = 1
    <3>1. CASE inbox' = Append(inbox, Mine(TRUE)) /\ UNCHANGED faults
      BY <1>5, <1>6, <2>1, <3>1
    <3>2. CASE inbox' = Append(inbox, Mine(FALSE)) /\ Fault("data")
      <4>1. faults'.call = 0 + 1
        BY <1>5, <3>2 DEF Fault
      <4> QED
        BY <1>6, <2>1, <3>2, <4>1
    <3> QED
      BY <1>10, <3>1, <3>2
  <2>3. inbox' = <<Mine(faults'.call = 0)>>
    <3>1. CASE inbox' = <<Mine(TRUE)>> /\ faults'.call = 0
      <4>1. (faults'.call = 0) = TRUE
        BY <3>1
      <4> QED
        BY <3>1, <4>1
    <3>2. CASE inbox' = <<Mine(FALSE)>> /\ faults'.call = 1
      <4>1. (faults'.call = 0) = FALSE
        BY <3>2
      <4> QED
        BY <3>2, <4>1
    <3> QED
      BY <2>2, <3>1, <3>2
  <2>4. inbox' = <<Mine(faults.call = 0)'>>
    BY <1>1, <2>3 DEF Mine
  <2>5. OnAnswer'
    BY <1>1, <1>6, <1>8, <2>4 DEF OnAnswer
  <2> QED
    BY <1>10, <2>5 DEF LineInv
<1>11. CASE Start
  <2>1. UNCHANGED <<faults, inbox>> /\ pc' \in {"head", "idle"} /\ (pc' = "idle" => ~outcome'.ok)
    BY <1>11 DEF Start, far, Goto, Return
  <2> QED
    BY <1>9, <2>1
<1>12. CASE SendHead
  <2>1. UNCHANGED <<faults, inbox>> /\ pc' = "send"
    BY <1>12 DEF SendHead, far, Goto
  <2> QED
    BY <1>9, <2>1
<1>13. CASE SendByte
  <2>1. \/ pc' = "send" /\ UNCHANGED <<inbox, faults>>
        \/ pc' = "answer" /\ inbox' = Append(inbox, Mine(TRUE)) /\ UNCHANGED faults
        \/ pc' = "answer" /\ inbox' = Append(inbox, Mine(FALSE)) /\ Fault("data")
    BY <1>13, Zenon DEF SendByte, Goto, Mine
  <2> QED
    BY <1>9, <1>10, <2>1
<1> QED
  BY <1>11, <1>12, <1>13

(* A call that returns FALSE and does not say that its command failed says *)
(* nothing of the line.                                                    *)
LEMMA LineFalse ==
  ASSUME pc' = "idle", ~outcome'.ok, fn_error' # "command failed"
  PROVE  LineInv'
<1>1. OnReturn'
  BY DEF OnReturn, Concluded
<1> QED
  BY <1>1 DEF LineInv

LEMMA FinalOfExpected ==
  ASSUME NEW w \in Seq(Cell), NEW v, TakenFrom(w, v), NEW reply \in BOOLEAN, NEW a, NEW k,
         a.word = "reply" => a.reply \in Texts,
         Expected(w, 3, reply, a, k)
  PROVE  Expected(v, 2, reply, a, k)
<1>1. CASE reply
  <2>1. Framed(w, 2 + 1, a, k) /\ 2 \in 0..2
    BY <1>1 DEF Expected
  <2>2. Framed(v, 2, a, k)
    BY <2>1, FramedTaken
  <2> QED
    BY <1>1, <2>2 DEF Expected
<1>2. CASE ~reply
  <2>1. Final(w, 1 + 1, a, k) /\ 1 \in 1..2
    BY <1>2 DEF Expected
  <2>2. Final(v, 1, a, k)
    BY <2>1, FinalTaken
  <2> QED
    BY <1>2, <2>2 DEF Expected
<1> QED
  BY <1>1, <1>2

LEMMA NothingExpected ==
  ASSUME NEW reply \in BOOLEAN, NEW a, NEW k, a.word # "reply"
  PROVE  Expected(<<>>, 2, reply, a, k)
BY DEF Expected, Framed, Final

LEMMA LineAnswer ==
  ASSUME TypeInv, LineInv, Answer
  PROVE  LineInv'
<1>0. CallType /\ LineType /\ FarType
  BY DEF TypeInv
<1> SUFFICES ASSUME Good' PROVE LineInv'
  BY DEF LineInv
<1>1. /\ UNCHANGED <<cur, req, inbox, job, out, answers, faults, quiet>>
      /\ pc = "answer" /\ rx # <<>> /\ Rest
  BY DEF Answer, Get, At, far
<1>2. OnAnswer
  BY <1>1 DEF Good, LineInv
<1>3. /\ Stream \in Seq(Cell) /\ Stream' \in Seq(Cell) /\ Len(Stream') \in Nat
      /\ Len(Stream) = Len(Stream') + 1 /\ Stream # <<>>
      /\ Stream[1].v = Took /\ TakenFrom(Stream, Stream')
  BY <1>0, <1>1, TakenStream
<1>4. CASE ~IsAck(Took)
  <2>1. pc' = "idle" /\ ~outcome'.ok /\ fn_error' # "command failed"
    <3>1. Return(FALSE) /\ fn_error' = "send checksum"
      BY <1>4, Zenon DEF Answer
    <3> QED
      BY <3>1 DEF Return
  <2> QED
    BY <2>1, LineFalse
<1>5. CASE IsAck(Took)
  <2>1. pc' \in {"high", "done"}
    BY <1>5 DEF Answer, Goto
  <2>2. Len(Stream) <= 1 => Stream' = <<>>
    BY <1>3, EmptySeq
  <2>3. CASE Working /\ Stream = Word(FUJICMD_ACK)
    <3>1. Len(Stream) = 1
      BY <2>3, WordType, Words
    <3>2. Working' /\ Stream' = <<>>
      BY <1>1, <2>2, <2>3, <3>1 DEF Working, Mine
    <3> QED
      BY <2>1, <3>2 DEF LineInv, OnHigh
  <2>4. CASE Answered /\ Expected(Stream, 3, req.reply, answers[cur], faults.call)
    <3>1. cur \in DOMAIN answers /\ answers[cur].reply \in Texts /\ req.reply \in BOOLEAN
      BY <1>0, <2>4, TextOf DEF Answered, CallType, Calls
    <3>2. Expected(Stream', 2, req.reply, answers[cur], faults.call)
      BY <1>3, <2>4, <3>1, FinalOfExpected
    <3>3. OnHigh'
      BY <1>1, <2>4, <3>2 DEF OnHigh, Answered
    <3> QED
      BY <2>1, <3>3 DEF LineInv
  <2>5. CASE Answered /\ Len(Stream) <= 1 /\ answers[cur].word # "reply"
    <3>1. req.reply \in BOOLEAN
      BY <1>0 DEF CallType, Calls
    <3>2. Expected(Stream', 2, req.reply, answers[cur], faults.call)
      BY <2>2, <2>5, <3>1, NothingExpected
    <3>3. OnHigh'
      BY <1>1, <2>5, <3>2 DEF OnHigh, Answered
    <3> QED
      BY <2>1, <3>3 DEF LineInv
  <2>6. ASSUME Stream = Word(FUJICMD_NAK) PROVE FALSE
    <3>1. Stream[1].v = FUJICMD_NAK
      BY <2>6, WordType, Words
    <3> QED
      BY <1>3, <1>5, <3>1 DEF IsAck, FUJICMD_ACK, FUJICMD_NAK
  <2>7. ASSUME Unacknowledged(Stream, faults.call) PROVE FALSE
    BY <1>3, <1>5, <2>7 DEF Unacknowledged
  <2> QED
    BY <1>2, <1>3, <2>3, <2>4, <2>5, <2>6, <2>7 DEF OnAnswer
<1> QED
  BY <1>4, <1>5

LEMMA LineRecvAck ==
  ASSUME TypeInv, LineInv, RecvAck
  PROVE  LineInv'
<1>0. CallType /\ LineType /\ FarType
  BY DEF TypeInv
<1> SUFFICES ASSUME Good' PROVE LineInv'
  BY DEF LineInv
<1>1. /\ UNCHANGED <<cur, req, inbox, job, out, answers, faults, quiet>>
      /\ pc = "done" /\ rx # <<>> /\ ~req.reply
      /\ pc' = "idle" /\ outcome'.ok = IsAck(Took)
      /\ rx' = Tail(rx) \/ (~IsAck(Took) /\ rx' = <<>>)
      /\ IsAck(Took) => Rest
  BY <1>0 DEF RecvAck, Get, At, far, Return, CallType, Rest
<1>2. OnHigh
  BY <1>1 DEF Good, LineInv
<1>3. /\ Stream \in Seq(Cell) /\ Len(Stream) \in Nat
      /\ Len(Stream) = Len(rx) + Len(out) /\ Len(rx) \in Nat /\ Len(out) \in Nat
      /\ (Stream = <<>>) <=> (rx = <<>> /\ out = <<>>)
  BY <1>0, StreamType
<1>4. Answered /\ Final(Stream, 1, answers[cur], faults.call)
  BY <1>1, <1>2, <1>3 DEF OnHigh, Expected
<1>5. Len(Stream) <= 1
  BY <1>4 DEF Final
<1>6. rx \in Seq(Cell) /\ out \in Seq(Cell)
  BY <1>0 DEF LineType
<1>7. Len(rx) = 1 /\ out = <<>>
  <2>1. Len(rx) # 0
    BY <1>1, <1>6, EmptySeq
  <2>2. Len(rx) = 1 /\ Len(out) = 0
    BY <1>3, <1>5, <2>1
  <2> QED
    BY <1>6, <2>2, EmptySeq
<1>8. Tail(rx) = <<>>
  <2>1. Tail(rx) \in Seq(Cell) /\ Len(Tail(rx)) = 0
    BY <1>1, <1>6, <1>7, HeadTailProperties
  <2> QED
    BY <2>1, EmptySeq
<1>9. Stream' = <<>>
  <2>1. rx' = <<>> /\ out' = <<>>
    BY <1>1, <1>7, <1>8
  <2>2. rx' \o out' = <<>> \o <<>>
    BY <2>1
  <2> QED
    BY <2>2, ConcatEmptySeq, EmptySeq DEF Stream
<1>10. Silent'
  BY <1>1, <1>4, <1>9 DEF Silent, Answered
<1>11. ASSUME IsAck(Took) PROVE cur \in DOMAIN answers /\ answers[cur].word = "ack"
  <2>1. Stream[1].v = Took
    BY <1>0, <1>1, <1>11, TakenStream
  <2>2. Len(Stream) = 1
    BY <1>3, <1>7, EmptySeq
  <2> QED
    BY <1>4, <1>11, <2>1, <2>2 DEF Final, IsAck, Answered
<1>12. OnReturn'
  BY <1>1, <1>10, <1>11 DEF OnReturn
<1> QED
  BY <1>1, <1>12 DEF LineInv

LEMMA LineHigh ==
  ASSUME TypeInv, LineInv, High
  PROVE  LineInv'
<1>0. CallType /\ LineType /\ FarType
  BY DEF TypeInv
<1> SUFFICES ASSUME Good' PROVE LineInv'
  BY DEF LineInv
<1>1. /\ UNCHANGED <<cur, req, inbox, job, out, answers, faults, quiet>>
      /\ pc = "high" /\ rx # <<>> /\ Rest /\ req.reply
      /\ pc' = "low" /\ len' = 256 * Took
  BY <1>0 DEF High, Get, At, far, Goto, CallType
<1>2. OnHigh
  BY <1>1 DEF Good, LineInv
<1>3. /\ Stream \in Seq(Cell) /\ Stream # <<>>
      /\ Stream[1].v = Took /\ TakenFrom(Stream, Stream')
  BY <1>0, <1>1, TakenStream
<1>4. Answered /\ Framed(Stream, 2, answers[cur], faults.call)
  BY <1>1, <1>2, <1>3 DEF OnHigh, Expected
<1>5. cur \in DOMAIN answers /\ answers[cur].reply \in Texts
  BY <1>0, <1>4, TextOf DEF Answered
<1>6. Framed(Stream', 1, answers[cur], faults.call)
  <2>1. Framed(Stream, 1 + 1, answers[cur], faults.call) /\ 1 \in 0..2
    BY <1>4
  <2> QED
    BY <1>3, <1>5, <2>1, FramedTaken
<1>7. ASSUME answers[cur].word = "reply"
      PROVE  len' = 256 * (Len(answers[cur].reply) \div 256)
  <2>1. PICK n : n = Len(answers[cur].reply) \div 256
    OBVIOUS
  <2>2. 2 >= 2 => Stream[2-1] = Put(n, "length")
    BY <1>4, <1>7, <2>1, Zenon DEF Framed
  <2>3. Stream[1] = Put(n, "length")
    BY <2>2
  <2>4. Stream[1].v = n
    BY <2>3 DEF Put
  <2> QED
    BY <1>1, <1>3, <2>1, <2>4
<1>8. OnLow'
  BY <1>1, <1>4, <1>6, <1>7 DEF OnLow, Answered
<1> QED
  BY <1>1, <1>8 DEF LineInv

LEMMA LineLow ==
  ASSUME MessagesFit, TypeInv, LineInv, Low
  PROVE  LineInv'
<1>0. CallType /\ CountType /\ LineType /\ FarType
  BY DEF TypeInv
<1> SUFFICES ASSUME Good' PROVE LineInv'
  BY DEF LineInv
<1>1. /\ UNCHANGED <<cur, req, inbox, job, out, answers, faults, quiet, buf, fn_error>>
      /\ pc = "low" /\ rx # <<>> /\ Rest
  BY DEF Low, Get, At, far
<1>2. OnLow
  BY <1>1 DEF Good, LineInv
<1>3. /\ Stream \in Seq(Cell) /\ Len(Stream) \in Nat /\ Stream # <<>>
      /\ Stream[1].v = Took /\ TakenFrom(Stream, Stream')
  BY <1>0, <1>1, TakenStream, StreamType
<1>4. /\ Answered /\ Framed(Stream, 1, answers[cur], faults.call)
      /\ answers[cur].word = "reply" => len = 256 * (Len(answers[cur].reply) \div 256)
  BY <1>2 DEF OnLow
<1>5. answers[cur].word = "reply"
  <2>1. ~(Len(Stream) < 1)
    <3>1. Len(Stream) # 0
      BY <1>3, EmptySeq
    <3> QED
      BY <1>3, <3>1
  <2> QED
    BY <1>4, <2>1 DEF Framed
<1>6. PICK s \in Texts : s = answers[cur].reply
  BY <1>0, <1>4, TextOf DEF Answered
<1>7. PICK n \in Nat : n = Len(s) /\ n < 65536 /\ n <= FNIO_TX_LEN_MAX
  <2>1. Len(s) \in Nat /\ Len(s) < 65536
    BY LenProperties DEF Texts
  <2>2. s \in Replies \cup {<<>>}
    BY <1>0, <1>4, <1>6 DEF Answered, FarType, Answers
  <2>3. Len(s) <= FNIO_TX_LEN_MAX
    <3>1. CASE s \in Replies
      BY <3>1 DEF MessagesFit
    <3>2. CASE s = <<>>
      BY <3>2, Limits
    <3> QED
      BY <2>2, <3>1, <3>2
  <2> QED
    BY <2>1, <2>3
<1>8. len + Took = n
  <2>1. PICK lo : lo = Len(answers[cur].reply) % 256
    OBVIOUS
  <2>2. 1 >= 1 => Stream[1] = Put(lo, "length")
    BY <1>4, <1>5, <2>1, Zenon DEF Framed
  <2>3. Stream[1].v = lo
    BY <2>2 DEF Put
  <2>4. len = 256 * (n \div 256)
    BY <1>4, <1>5, <1>6, <1>7
  <2>5. n = 256 * (n \div 256) + (n % 256)
    BY <1>7, TwoBytes
  <2> QED
    <3>1. lo = n % 256 /\ Took = lo
      BY <1>3, <1>6, <1>7, <2>1, <2>3
    <3>2. PICK q \in Nat : q = n \div 256
      BY <1>7
    <3>3. n = 256 * q + lo /\ len = 256 * q
      BY <2>4, <2>5, <3>1, <3>2
    <3> QED
      BY <3>1, <3>3
<1>9. Clamp(n) = n
  BY <1>7, Limits DEF Clamp
<1>10. CASE TooLong(n)
  <2>1. Return(FALSE)
    BY <1>8, <1>10 DEF Low
  <2>2. fn_error # "command failed"
    BY <1>0, <1>1 DEF CallType, Waiting
  <2>3. pc' = "idle" /\ ~outcome'.ok /\ fn_error' # "command failed"
    BY <1>1, <2>1, <2>2 DEF Return
  <2> QED
    BY <2>3, LineFalse
<1>11. CASE ~TooLong(n)
  <2>1. len' = n /\ pc' \in {"data", "check"}
    BY <1>8, <1>9, <1>11 DEF Low, Goto
  <2>2. Framed(Stream', 0, answers[cur], faults.call)
    <3>1. Framed(Stream, 0 + 1, answers[cur], faults.call) /\ 0 \in 0..2
      BY <1>4
    <3> QED
      BY <1>3, <1>6, <3>1, FramedTaken
  <2>3. Body(<<>>, Stream', 0, s, faults.call)
    <3>1. Body(<<>>, Stream', 0, answers[cur].reply, faults.call)
      BY <1>5, <2>2, Zenon DEF Framed
    <3> QED
      BY <1>6, <3>1
  <2>4. buf = <<>>
    BY <1>0, <1>1 DEF CountType
  <2>5. OnText'
    BY <1>1, <1>4, <1>5, <1>6, <1>7, <2>1, <2>3, <2>4 DEF OnText, Answered
  <2> QED
    BY <2>1, <2>5 DEF LineInv
<1> QED
  BY <1>10, <1>11

LEMMA LineData ==
  ASSUME TypeInv, LineInv, Data
  PROVE  LineInv'
<1>0. CallType /\ CountType /\ LineType /\ FarType
  BY DEF TypeInv
<1> SUFFICES ASSUME Good' PROVE LineInv'
  BY DEF LineInv
<1>1. /\ UNCHANGED <<cur, req, inbox, job, out, answers, faults, quiet, len>>
      /\ pc = "data" /\ rx # <<>> /\ Rest /\ buf' = Append(buf, Took)
      /\ pc' \in {"data", "check"}
  BY DEF Data, Get, At, far, Goto
<1>2. OnText
  BY <1>1 DEF Good, LineInv
<1>3. /\ Stream \in Seq(Cell) /\ Stream[1].v = Took /\ TakenFrom(Stream, Stream')
  BY <1>0, <1>1, TakenStream
<1>4. PICK s \in Texts : s = answers[cur].reply
  BY <1>0, <1>2, TextOf DEF OnText, Answered
<1>5. Len(buf) < Len(s) /\ buf \in Seq(Byte)
  BY <1>0, <1>1, <1>2, <1>4 DEF OnText, CountType
<1>6. Body(buf', Stream', 0, s, faults.call)
  <2>1. Body(buf, Stream, 0, s, faults.call)
    BY <1>2, <1>4 DEF OnText
  <2>2. Body(Append(buf, Stream[1].v), Stream', 0, s, faults.call)
    BY <1>3, <1>5, <2>1, BodyStored
  <2> QED
    BY <1>1, <1>3, <2>2
<1>7. OnText'
  BY <1>1, <1>2, <1>4, <1>6 DEF OnText, Answered
<1> QED
  BY <1>1, <1>7 DEF LineInv

LEMMA LineCheck ==
  ASSUME TypeInv, LineInv, Check
  PROVE  LineInv'
<1>0. CallType /\ CountType /\ LineType /\ FarType
  BY DEF TypeInv
<1> SUFFICES ASSUME Good' PROVE LineInv'
  BY DEF LineInv
<1>1. /\ UNCHANGED <<cur, req, inbox, job, answers, faults, quiet, buf>>
      /\ pc = "check" /\ rx # <<>> /\ req.reply
  BY <1>0, Zenon DEF Check, Get, At, CallType
<1>2. OnText
  BY <1>1 DEF Good, LineInv
<1>3. Return(Matches(Took) /\ len # 0)
  BY Zenon DEF Check
<1>4. CASE ~Matches(Took)
  <2>1. fn_error' = "receive checksum"
    BY <1>4, Zenon DEF Check
  <2>2. outcome'.ok = (Matches(Took) /\ len # 0)
    BY <1>3 DEF Return
  <2>3. pc' = "idle" /\ ~outcome'.ok /\ fn_error' # "command failed"
    BY <1>3, <1>4, <2>1, <2>2 DEF Return
  <2> QED
    BY <2>3, LineFalse
<1>5. CASE Matches(Took)
  <2>1. out' = out /\ len' = len /\ rx' = Reflected(Tail(rx), 1)
    BY <1>5, Zenon DEF Check, Acknowledged
  <2>2. PICK s \in Texts : s = answers[cur].reply
    BY <1>0, <1>2, TextOf DEF OnText, Answered
  <2>3. Body(buf, Stream, 0, s, faults.call) /\ Len(buf) = Len(s) /\ buf \in Seq(Byte)
    BY <1>0, <1>1, <1>2, <2>2 DEF OnText, CountType
  <2>4. Stream \in Seq(Cell) /\ Stream # <<>> /\ Stream[1].v = Took
    <3>1. rx \in Seq(Cell) /\ out \in Seq(Cell)
      BY <1>0 DEF LineType
    <3>2. (rx \o out)[1] = Head(rx)
      BY <1>1, <3>1, Takes
    <3> QED
      BY <1>0, <1>1, <3>2, StreamType DEF Stream, Took
  <2>5. buf = s /\ Len(Stream) = 1
    BY <1>5, <2>3, <2>4, BodyAccepted DEF Matches
  <2>6. rx \in Seq(Cell) /\ out \in Seq(Cell)
    BY <1>0 DEF LineType
  <2>7. Len(rx) = 1 /\ Len(out) = 0
    <3>1. Len(rx) # 0
      BY <1>1, <2>6, EmptySeq
    <3>2. Len(Stream) = Len(rx) + Len(out) /\ Len(rx) \in Nat /\ Len(out) \in Nat
      BY <1>0, StreamType
    <3> QED
      BY <2>5, <3>1, <3>2
  <2>8. Tail(rx) = <<>> /\ out = <<>>
    <3>1. Tail(rx) \in Seq(Cell) /\ Len(Tail(rx)) = 0
      BY <1>1, <2>6, <2>7, HeadTailProperties
    <3> QED
      BY <2>6, <2>7, <3>1, EmptySeq
  <2>9. Stream' = <<>>
    <3>1. rx' = <<>> /\ out' = <<>>
      BY <2>1, <2>8, ReflectedNothing
    <3>2. rx' \o out' = <<>> \o <<>>
      BY <3>1
    <3> QED
      BY <3>2, ConcatEmptySeq, EmptySeq DEF Stream
  <2>10. Silent'
    BY <1>1, <1>2, <2>9 DEF Silent, OnText, Answered
  <2>11. cur \in DOMAIN answers /\ answers[cur] = [word |-> "reply", reply |-> buf] /\ len = Len(buf)
    BY <1>0, <1>2, <2>2, <2>3, <2>5 DEF OnText, Answered, FarType, Answers
  <2>12. OnReturn'
    BY <1>1, <2>1, <2>10, <2>11 DEF OnReturn
  <2>13. pc' = "idle"
    BY <1>3 DEF Return
  <2> QED
    BY <2>12, <2>13 DEF LineInv
<1> QED
  BY <1>4, <1>5

LEMMA LineTimeout ==
  ASSUME Timeout
  PROVE  LineInv'
<1>1. pc' = "idle" /\ ~outcome'.ok /\ fn_error' # "command failed"
  BY DEF Timeout, Return
<1> QED
  BY <1>1, LineFalse

(***************************************************************************)
(* The steps of the FujiNet and of the wire.                               *)
(***************************************************************************)

LEMMA MineNotNone ==
  ASSUME CallType, pc # "idle", NEW w
  PROVE  Mine(w) # None
<1>1. cur # 0
  BY DEF CallType
<1>2. Mine(w).call = cur /\ None.call = 0
  BY DEF Mine, None
<1> QED
  BY <1>1, <1>2

(* A step that finds the line in use leaves what a call has returned.      *)
LEMMA LineIdle ==
  ASSUME LineInv, ~Silent, pc = "idle", UNCHANGED <<pc, outcome, fn_error>>, Good' => Good
  PROVE  LineInv'
<1> SUFFICES ASSUME Good' PROVE LineInv'
  BY DEF LineInv
<1>1. OnReturn
  BY DEF LineInv
<1>2. ~Concluded
  BY <1>1 DEF OnReturn
<1>3. ~Concluded' /\ ~outcome'.ok
  BY <1>2 DEF Concluded
<1>4. OnReturn'
  BY <1>3 DEF OnReturn
<1> QED
  BY <1>4 DEF LineInv

LEMMA LineTakePacket ==
  ASSUME TypeInv, LineInv, TakePacket
  PROVE  LineInv'
<1>0. CallType /\ LineType /\ FarType
  BY DEF TypeInv
<1> SUFFICES ASSUME Good' PROVE LineInv'
  BY DEF LineInv
<1>1. /\ UNCHANGED <<pc, cur, req, outcome, fn_error, rx, faults, quiet>>
      /\ inbox # <<>> /\ job = None /\ inbox' = Tail(inbox)
  BY DEF TakePacket, lynx
<1>2. Good /\ ~Silent
  BY <1>1 DEF Good, Silent
<1>3. CASE pc = "idle"
  BY <1>1, <1>2, <1>3, LineIdle
<1>4. CASE pc # "idle"
  <2>1. pc = "answer" /\ inbox = <<Mine(faults.call = 0)>> /\ Stream = <<>>
    BY <1>0, <1>1, <1>2, <1>4, Zenon DEF LineInv, CallType, Waiting, OnAnswer, OnHigh, OnLow, OnText, Working, Answered
  <2>2. Head(inbox) = Mine(faults.call = 0) /\ inbox' = <<>>
    BY <1>1, <2>1
  <2>3. Stream' = out'
    <3>1. rx = <<>> /\ rx' = <<>>
      BY <1>0, <1>1, <2>1, StreamType
    <3>2. out' \in Seq(Cell)
      <4>1. LineType'
        BY <1>0, LineTypeStep DEF FarSteps
      <4> QED
        BY <4>1 DEF LineType
    <3> QED
      BY <3>1, <3>2, ConcatEmptySeq DEF Stream
  <2>4. out = <<>>
    BY <1>0, <2>1, StreamType
  <2>5. \A v \in {FUJICMD_ACK, FUJICMD_NAK} : out \o Word(v) = Word(v)
    BY <2>4, Words, WordType, ConcatEmptySeq
  <2>6. CASE faults.call = 0
    <3>1. Mine(TRUE) = Head(inbox) /\ Mine(TRUE).whole = TRUE
      <4>1. (faults.call = 0) = TRUE
        BY <2>6
      <4> QED
        BY <2>2, <4>1 DEF Mine
    <3>2. out' = Word(FUJICMD_ACK) /\ job' = Mine(TRUE)
      BY <2>5, <3>1 DEF TakePacket
    <3>3. Working' /\ Stream' = Word(FUJICMD_ACK)
      BY <1>1, <2>2, <2>3, <3>2 DEF Working, Mine
    <3>4. OnAnswer'
      BY <3>3 DEF OnAnswer
    <3> QED
      BY <1>1, <2>1, <3>4 DEF LineInv
  <2>7. CASE faults.call # 0
    <3>1. Mine(FALSE) = Head(inbox) /\ Mine(FALSE).whole = FALSE
      <4>1. (faults.call = 0) = FALSE
        BY <2>7
      <4> QED
        BY <2>2, <4>1 DEF Mine
    <3>2. job' = None /\ (out' = <<>> \/ out' = Word(FUJICMD_NAK))
      BY <2>4, <2>5, <3>1 DEF TakePacket
    <3>3. faults'.call = 1
      <4>1. faults.call \in Nat /\ faults.call <= 1
        BY <1>0, <1>2 DEF LineType, Good
      <4> QED
        BY <1>1, <2>7, <4>1
    <3>4. OnAnswer'
      BY <2>2, <2>3, <3>2, <3>3 DEF OnAnswer
    <3> QED
      BY <1>1, <2>1, <3>4 DEF LineInv
  <2> QED
    BY <2>6, <2>7
<1> QED
  BY <1>3, <1>4

(* What is to come once the FujiNet has carried the command out. *)
LEMMA AnswerComes ==
  ASSUME LineType, FarType, CarryOut, job = Mine(TRUE), inbox = <<>>, req.reply \in BOOLEAN,
         NEW k, Len(Stream) <= 1
  PROVE  /\ Answered'
         /\ Stream' \in Seq(Cell) /\ Len(Stream') >= Len(Stream) + 1
         /\ \A i \in 1..Len(Stream) : Stream'[i] = Stream[i]
         /\ Expected(Stream', Len(Stream) + 2, req.reply, answers'[cur], k)
         /\ answers'[cur].word = "reply" =>
              /\ Stream'[Len(Stream) + 1].v = Len(answers'[cur].reply) \div 256
              /\ answers'[cur].reply \in Replies
         /\ answers'[cur].word # "reply" => Len(Stream') = Len(Stream) + 1
<1>1. rx \in Seq(Cell) /\ out \in Seq(Cell)
  BY DEF LineType
<1>2. /\ UNCHANGED <<cur, req, rx>> /\ inbox' = inbox /\ job' = None
      /\ Mine(TRUE).call = cur /\ Mine(TRUE).req = req
  BY DEF CarryOut, lynx, Mine
<1>3. PICK x : x = Stream
  OBVIOUS
<1>4. x \in Seq(Cell) /\ Len(x) \in Nat
  BY <1>3, StreamType
<1>5. ASSUME NEW t \in Seq(Cell), out' = out \o t
      PROVE  Stream' = x \o t
  <2>1. (rx \o out) \o t = rx \o (out \o t)
    BY <1>1, <1>5, ConcatAssociative
  <2>2. Stream' = rx \o (out \o t)
    BY <1>2, <1>5, Zenon DEF Stream
  <2> QED
    BY <1>3, <2>1, <2>2, Zenon DEF Stream
<1>6. ASSUME NEW w, NEW s, Told(w, s)
      PROVE  cur \in DOMAIN answers' /\ answers'[cur] = [word |-> w, reply |-> s]
  BY <1>2, <1>6 DEF Told
<1>7. CASE \E s \in Replies : req.reply /\ out' = out \o Reply(s) /\ Told("reply", s)
  <2>1. PICK s \in Replies : req.reply /\ out' = out \o Reply(s) /\ Told("reply", s)
    BY <1>7
  <2>2. s \in Texts /\ Reply(s) \in Seq(Cell)
    BY RepliesType, ReplyType
  <2>3. PICK y : y = Reply(s)
    OBVIOUS
  <2>4. Stream' = x \o y
    BY <1>5, <2>1, <2>2, <2>3
  <2>5. /\ y \in Seq(Cell) /\ Len(y) = Len(s) + 3 /\ y[1] = Put(Len(s) \div 256, "length")
    BY <2>2, <2>3, ReplyFraming DEF Framing
  <2>6. /\ Stream' \in Seq(Cell) /\ Len(Stream') = Len(x) + Len(y)
        /\ \A i \in 1..Len(x) : Stream'[i] = x[i]
        /\ \A i \in 1..Len(y) : Stream'[Len(x) + i] = y[i]
    <3>1. y \in Seq(Cell)
      BY <2>5
    <3> QED
      BY <1>4, <2>4, <3>1, Joined
  <2>7. cur \in DOMAIN answers' /\ answers'[cur].word = "reply" /\ answers'[cur].reply = s
    <3>1. cur \in DOMAIN answers' /\ answers'[cur] = [word |-> "reply", reply |-> s]
      BY <1>6, <2>1
    <3> QED
      BY <3>1
  <2>8. Framed(Stream', Len(x) + 2, answers'[cur], k)
    BY <1>3, <1>4, <2>2, <2>3, <2>4, <2>7, FramedComes
  <2>9. Stream'[Len(x) + 1].v = Len(s) \div 256
    <3>1. Len(s) \in Nat
      BY <2>2, LenProperties DEF Texts
    <3>2. 1 \in 1..Len(y)
      BY <2>5, <3>1
    <3>3. PICK q : q = Len(s) \div 256
      OBVIOUS
    <3> QED
      BY <2>5, <2>6, <3>2, <3>3 DEF Put
  <2>10. Len(Stream') >= Len(x) + 1
    <3>1. Len(s) \in Nat
      BY <2>2, LenProperties DEF Texts
    <3> QED
      BY <1>4, <2>5, <2>6, <3>1
  <2>11. Answered'
    BY <1>2, <2>1, <2>7 DEF Answered
  <2> QED
    BY <1>3, <2>1, <2>6, <2>7, <2>8, <2>9, <2>10, <2>11 DEF Expected
<1>8. CASE \E v \in {FUJICMD_ACK, FUJICMD_NAK}, w \in {"ack", "nak"} :
             /\ out' = out \o Word(v) /\ Told(w, <<>>)
             /\ (w = "ack" => ~req.reply) /\ (v = FUJICMD_ACK => w = "ack")
  <2>1. PICK v \in {FUJICMD_ACK, FUJICMD_NAK}, w \in {"ack", "nak"} :
             /\ out' = out \o Word(v) /\ Told(w, <<>>)
             /\ (w = "ack" => ~req.reply) /\ (v = FUJICMD_ACK => w = "ack")
    BY <1>8
  <2>2. PICK y : y = Word(v)
    OBVIOUS
  <2>3. y \in Seq(Cell) /\ Len(y) = 1 /\ y[1].v = v
    BY <2>2, Words, WordType
  <2>4. Stream' = x \o y
    BY <1>5, <2>1, <2>2, <2>3
  <2>5. /\ Stream' \in Seq(Cell) /\ Len(Stream') = Len(x) + Len(y)
        /\ \A i \in 1..Len(x) : Stream'[i] = x[i]
        /\ \A i \in 1..Len(y) : Stream'[Len(x) + i] = y[i]
    <3>1. y \in Seq(Cell)
      BY <2>3
    <3> QED
      BY <1>4, <2>4, <3>1, Joined
  <2>6. cur \in DOMAIN answers' /\ answers'[cur].word = w /\ w # "reply"
    <3>1. cur \in DOMAIN answers' /\ answers'[cur] = [word |-> w, reply |-> <<>>]
      BY <1>6, <2>1
    <3> QED
      BY <3>1
  <2>7. Len(Stream') = Len(x) + 1 /\ Stream'[Len(x) + 1].v = v
    BY <2>3, <2>5
  <2>8. Answered'
    BY <1>2, <2>1, <2>6 DEF Answered
  <2>9. Expected(Stream', Len(x) + 2, req.reply, answers'[cur], k)
    <3>1. CASE req.reply
      BY <1>4, <2>6, <2>7, <3>1 DEF Expected, Framed
    <3>2. CASE ~req.reply
      <4>1. (Len(x) + 2) - 1 = Len(x) + 1 /\ Len(x) + 1 <= Len(x) + 1
        BY <1>4
      <4>2. Final(Stream', Len(x) + 1, answers'[cur], k)
        BY <2>1, <2>6, <2>7, <4>1 DEF Final
      <4> QED
        BY <3>2, <4>1, <4>2 DEF Expected
    <3> QED
      BY <3>1, <3>2
  <2>10. Len(Stream') >= Len(x) + 1
    BY <1>4, <2>7
  <2> QED
    BY <1>3, <2>5, <2>6, <2>7, <2>8, <2>9, <2>10
<1>9. job.req = req /\ FUJICMD_ACK # FUJICMD_NAK
  <2>1. job.req = req
    BY <1>2, Zenon
  <2>2. FUJICMD_ACK # FUJICMD_NAK
    BY DEF FUJICMD_ACK, FUJICMD_NAK
  <2> QED
    BY <2>1, <2>2
<1>10. \/ req.reply /\ \E s \in Replies : out' = out \o Reply(s) /\ Told("reply", s)
       \/ ~req.reply /\ out' = out \o Word(FUJICMD_ACK) /\ Told("ack", <<>>)
       \/ out' = out \o Word(FUJICMD_NAK) /\ Told("nak", <<>>)
  BY <1>9 DEF CarryOut
<1>11. CASE ~req.reply /\ out' = out \o Word(FUJICMD_ACK) /\ Told("ack", <<>>)
  BY <1>8, <1>11
<1>12. CASE out' = out \o Word(FUJICMD_NAK) /\ Told("nak", <<>>)
  BY <1>8, <1>9, <1>12
<1> QED
  BY <1>7, <1>10, <1>11, <1>12

LEMMA ReplyNoAck ==
  ASSUME MessagesFit, NEW s \in Replies \cup {<<>>}
  PROVE  ~IsAck(Len(s) \div 256)
<1>1. Len(s) \in Nat /\ Len(s) < 256 * 6
  <2>1. CASE s \in Replies
    <3>1. Len(s) \in Nat
      BY <2>1, RepliesType, LenProperties DEF Texts
    <3>2. Len(s) <= FNIO_TX_LEN_MAX /\ FNIO_TX_LEN_MAX < 256 * 6
      BY <2>1 DEF MessagesFit, FUJICMD_ACK
    <3> QED
      BY <3>1, <3>2, Limits
  <2>2. CASE s = <<>>
    BY <2>2
  <2> QED
    BY <2>1, <2>2
<1>2. PICK n \in Nat : n = Len(s) /\ n < 256 * 6
  BY <1>1
<1>3. n \div 256 # 6
  BY <1>2
<1> QED
  BY <1>2, <1>3 DEF IsAck, FUJICMD_ACK

LEMMA LineCarryOut ==
  ASSUME MessagesFit, TypeInv, LineInv, CarryOut
  PROVE  LineInv'
<1>0. CallType /\ LineType /\ FarType
  BY DEF TypeInv
<1> SUFFICES ASSUME Good' PROVE LineInv'
  BY DEF LineInv
<1>1. /\ UNCHANGED <<pc, cur, req, len, buf, outcome, fn_error, faults, quiet>>
      /\ job # None
  BY DEF CarryOut, lynx
<1>2. Good /\ ~Silent
  BY <1>1 DEF Good, Silent
<1>3. CASE pc = "idle"
  BY <1>1, <1>2, <1>3, LineIdle
<1>4. CASE pc # "idle"
  <2>1. /\ pc \in {"answer", "done", "high"} /\ Working
        /\ pc # "answer" => Stream = <<>>
        /\ pc = "answer" => Stream = Word(FUJICMD_ACK) \/ (Unacknowledged(Stream, faults.call) /\ Len(Stream) <= 1)
    <3>1. CASE pc \in {"start", "head", "send"}
      BY <1>2, <3>1 DEF LineInv
    <3>2. CASE pc = "answer"
      <4>1. OnAnswer
        BY <1>2, <3>2 DEF LineInv
      <4>2. /\ Working
            /\ Stream = Word(FUJICMD_ACK) \/ (Unacknowledged(Stream, faults.call) /\ Len(Stream) <= 1)
        <5>1. job # None /\ ~Answered
          BY <1>1 DEF Answered
        <5>2. /\ Working
              /\ Stream = Word(FUJICMD_ACK) \/ (Unacknowledged(Stream, faults.call) /\ Len(Stream) <= 1)
          BY <4>1, <5>1 DEF OnAnswer
        <5> QED
          BY <5>2
      <4> QED
        BY <3>2, <4>2
    <3>3. CASE pc \in {"done", "high"}
      <4>1. OnHigh
        BY <1>2, <3>3 DEF LineInv
      <4>2. Working /\ Stream = <<>>
        BY <1>1, <4>1, Zenon DEF OnHigh, Answered
      <4> QED
        BY <3>3, <4>2
    <3>4. CASE pc \in {"low", "data", "check"}
      <4>1. OnLow \/ OnText
        BY <1>2, <3>4 DEF LineInv
      <4> QED
        BY <1>1, <4>1, Zenon DEF OnLow, OnText, Answered
    <3> QED
      BY <1>0, <1>4, <3>1, <3>2, <3>3, <3>4 DEF CallType, Waiting
  <2>2. req.reply \in BOOLEAN /\ inbox = <<>> /\ job = Mine(TRUE)
    BY <1>0, <2>1 DEF Working, CallType, Calls
  <2>3. Len(Stream) <= 1
    <3>1. Len(Word(FUJICMD_ACK)) = 1 /\ Len(<<>>) = 0
      BY Words, WordType
    <3>2. CASE Stream = <<>>
      BY <3>1, <3>2
    <3>3. CASE Stream = Word(FUJICMD_ACK)
      <4>1. Len(Stream) = 1
        BY <3>1, <3>3, Zenon
      <4> QED
        BY <4>1
    <3>4. Stream = <<>> \/ Stream = Word(FUJICMD_ACK) \/ Len(Stream) <= 1
      BY <2>1, Zenon
    <3> QED
      BY <3>2, <3>3, <3>4
  <2>4. /\ Answered'
        /\ Stream' \in Seq(Cell) /\ Len(Stream') >= Len(Stream) + 1
        /\ \A i \in 1..Len(Stream) : Stream'[i] = Stream[i]
        /\ Expected(Stream', Len(Stream) + 2, req.reply, answers'[cur], faults.call)
        /\ answers'[cur].word = "reply" =>
             /\ Stream'[Len(Stream) + 1].v = Len(answers'[cur].reply) \div 256
             /\ answers'[cur].reply \in Replies
        /\ answers'[cur].word # "reply" => Len(Stream') = Len(Stream) + 1
    BY <1>0, <2>2, <2>3, AnswerComes
  <2>5. CASE pc # "answer"
    <3>1. Stream = <<>> /\ Len(Stream) + 2 = 2
      BY <2>1, <2>5
    <3>2. Expected(Stream', 2, req.reply, answers'[cur], faults.call)
      BY <2>4, <3>1
    <3>3. OnHigh'
      BY <1>1, <2>4, <3>2 DEF OnHigh
    <3> QED
      BY <1>1, <2>1, <2>5, <3>3 DEF LineInv
  <2>6. CASE pc = "answer" /\ Stream = Word(FUJICMD_ACK)
    <3>1. Len(Stream) = 1 /\ Stream[1].v = FUJICMD_ACK
      BY <2>6, Words, WordType
    <3>2. Len(Stream) + 2 = 3 /\ Stream'[1] = Stream[1]
      BY <2>4, <3>1
    <3>3. Expected(Stream', 3, req.reply, answers'[cur], faults.call)
      BY <2>4, <3>2
    <3>4. Stream' # <<>>
      BY <2>4, <3>1, EmptySeq
    <3>5. IsAck(Stream'[1].v)
      BY <3>1, <3>2 DEF IsAck
    <3>6. OnAnswer'
      BY <1>1, <2>4, <3>3, <3>4, <3>5 DEF OnAnswer
    <3> QED
      BY <1>1, <2>6, <3>6 DEF LineInv
  <2>7. CASE pc = "answer" /\ Unacknowledged(Stream, faults.call)
    <3>0. faults'.call = 1
      BY <1>1, <2>7 DEF Unacknowledged
    <3>1. CASE Stream # <<>>
      <4>1. Len(Stream) = 1
        <5>1. Len(Stream) # 0 /\ Len(Stream) \in Nat
          BY <1>0, <3>1, StreamType, EmptySeq
        <5> QED
          BY <2>3, <5>1
      <4>2. Stream'[1] = Stream[1]
        BY <2>4, <4>1
      <4>3. Unacknowledged(Stream', faults'.call)
        BY <2>7, <3>0, <3>1, <4>2 DEF Unacknowledged
      <4>4. OnAnswer'
        BY <2>4, <4>3 DEF OnAnswer
      <4> QED
        BY <1>1, <2>7, <4>4 DEF LineInv
    <3>2. CASE Stream = <<>> /\ answers'[cur].word = "reply"
      <4>1. Stream'[1].v = Len(answers'[cur].reply) \div 256
        <5>1. Len(Stream) + 1 = 1
          BY <3>2
        <5> QED
          BY <2>4, <3>2, <5>1
      <4>2. ~IsAck(Stream'[1].v)
        BY <2>4, <3>2, <4>1, ReplyNoAck
      <4>3. Unacknowledged(Stream', faults'.call)
        BY <3>0, <4>2 DEF Unacknowledged
      <4>4. OnAnswer'
        BY <2>4, <4>3 DEF OnAnswer
      <4> QED
        BY <1>1, <2>7, <4>4 DEF LineInv
    <3>3. CASE Stream = <<>> /\ answers'[cur].word # "reply"
      <4>1. Len(Stream') <= 1
        <5>1. Len(Stream') = Len(Stream) + 1 /\ Len(Stream) = 0
          BY <2>4, <3>3
        <5> QED
          BY <5>1
      <4>2. OnAnswer'
        BY <1>1, <2>4, <3>0, <3>3, <4>1 DEF OnAnswer
      <4> QED
        BY <1>1, <2>7, <4>2 DEF LineInv
    <3> QED
      BY <3>1, <3>2, <3>3
  <2> QED
    BY <2>1, <2>5, <2>6, <2>7
<1> QED
  BY <1>3, <1>4

LEMMA LineWire ==
  ASSUME MessagesFit, TypeInv, LineInv, WireSteps
  PROVE  LineInv'
<1>0. CallType /\ CountType /\ LineType /\ FarType
  BY DEF TypeInv
<1> SUFFICES ASSUME Good' PROVE LineInv'
  BY DEF LineInv
<1>1. UNCHANGED <<pc, cur, req, len, buf, outcome, fn_error, inbox, job, answers, quiet>> /\ out # <<>>
  BY DEF WireSteps, Arrive, Lose, Garble, Moved
<1>2. CASE Stream' = Stream /\ UNCHANGED faults
  BY <1>1, <1>2, SameLine
<1>3. ASSUME NEW i \in 1..Len(Stream), Harmed(Stream, Stream', i), Fault(Stream[i].part)
      PROVE  LineInv'
  <2>1. Good /\ faults.call = 0 /\ faults'.call = 1 /\ Stream[i].part # "length"
    BY <1>0, <1>1, <1>3, GoodOne
  <2>2. PICK w, v : w = Stream /\ v = Stream'
    OBVIOUS
  <2>3. /\ w \in Seq(Cell) /\ Len(w) \in Nat /\ w # <<>> /\ ~Silent /\ v \in Seq(Cell) /\ Len(v) \in Nat
        /\ i \in 1..Len(w) /\ (LostAt(w, v, i) \/ GarbledAt(w, v, i)) /\ w[i].part # "length"
    <3>1. Stream # <<>> /\ Stream \in Seq(Cell) /\ Len(Stream) \in Nat
      BY <1>0, <1>1, StreamType
    <3>2. v \in Seq(Cell)
      BY <1>3, <2>2 DEF Harmed, LostAt, GarbledAt
    <3> QED
      BY <1>3, <2>1, <2>2, <3>1, <3>2, LenProperties DEF Silent, Harmed
  <2>4. CASE pc = "idle"
    BY <1>1, <2>1, <2>3, <2>4, LineIdle
  <2>5. ASSUME Answered
        PROVE  /\ Answered' /\ cur \in DOMAIN answers /\ answers'[cur] = answers[cur]
               /\ answers[cur].reply \in Texts /\ req.reply \in BOOLEAN /\ req' = req
               /\ answers[cur].reply \in Replies \cup {<<>>}
    <3>1. cur \in DOMAIN answers /\ Answered'
      BY <1>1, <2>5 DEF Answered
    <3> QED
      BY <1>0, <1>1, <3>1, TextOf DEF FarType, Answers, CallType, Calls
  <2>6. CASE pc = "answer"
    <3>1. ASSUME OnAnswer' PROVE LineInv'
      BY <1>1, <2>6, <3>1 DEF LineInv
    <3>2. OnAnswer
      BY <2>1, <2>6 DEF LineInv
    <3>3. CASE Working /\ Stream = Word(FUJICMD_ACK)
      <4>1. Len(w) = 1 /\ i = 1 /\ w[1].v = FUJICMD_ACK
        BY <2>2, <2>3, <3>3, Words, WordType
      <4>2. Len(v) <= 1 /\ (v # <<>> => ~IsAck(v[1].v))
        <5>1. CASE LostAt(w, v, i)
          <6>1. Len(v) = 0
            BY <2>3, <4>1, <5>1 DEF LostAt
          <6> QED
            BY <2>3, <6>1, EmptySeq
        <5>2. CASE GarbledAt(w, v, i)
          BY <4>1, <5>2 DEF GarbledAt, IsAck
        <5> QED
          BY <2>3, <5>1, <5>2
      <4>3. Working'
        BY <1>1, <3>3 DEF Working, Mine
      <4>4. OnAnswer'
        BY <2>1, <2>2, <4>2, <4>3 DEF OnAnswer, Unacknowledged
      <4> QED
        BY <3>1, <4>4
    <3>4. CASE Answered /\ IsAck(w[1].v) /\ Expected(w, 3, req.reply, answers[cur], 0)
      <4>1. PICK a : a = answers[cur]
        OBVIOUS
      <4>2. /\ a.reply \in Texts /\ req.reply \in BOOLEAN /\ a.reply \in Replies \cup {<<>>}
            /\ Expected(w, 3, req.reply, a, 0)
            /\ (a.word = "reply" => req.reply)
        BY <2>5, <3>4, <4>1 DEF Answered
      <4>3. CASE i = 1 /\ GarbledAt(w, v, i)
        <5>1. v[1].v # w[1].v
          BY <4>3 DEF GarbledAt
        <5>2. Unacknowledged(Stream', faults'.call)
          BY <2>1, <2>2, <3>4, <5>1 DEF Unacknowledged, IsAck
        <5>3. OnAnswer'
          BY <2>5, <3>4, <5>2 DEF OnAnswer
        <5> QED
          BY <3>1, <5>3
      <4>4. CASE i = 1 /\ LostAt(w, v, i)
        <5>1. Len(v) + 1 = Len(w) /\ \A j \in 1..Len(v) : v[j] = w[j+1]
          BY <4>4 DEF LostAt
        <5>2. CASE a.word = "reply"
          <6>1. Framed(w, 3, a, 0)
            BY <4>2, <5>2 DEF Expected
          <6>2. PICK q : q = Len(a.reply) \div 256
            OBVIOUS
          <6>3. 3 >= 2 => w[3-1] = Put(q, "length")
            BY <5>2, <6>1, <6>2, Zenon DEF Framed
          <6>4. w[2].v = q
            BY <6>3 DEF Put
          <6>5. v # <<>> => ~IsAck(v[1].v)
            <7> SUFFICES ASSUME v # <<>> PROVE ~IsAck(v[1].v)
              OBVIOUS
            <7>1. Len(v) # 0
              BY <2>3, EmptySeq
            <7>2. v[1] = w[2]
              BY <2>3, <5>1, <7>1
            <7> QED
              BY <4>2, <6>2, <6>4, <7>2, ReplyNoAck
          <6>6. Unacknowledged(Stream', faults'.call)
            BY <2>1, <2>2, <6>5 DEF Unacknowledged
          <6>7. OnAnswer'
            BY <2>5, <3>4, <6>6 DEF OnAnswer
          <6> QED
            BY <3>1, <6>7
        <5>3. CASE a.word # "reply"
          <6>1. Len(w) <= 2
            BY <2>3, <4>2, <5>3 DEF Expected, Framed, Final
          <6>2. Len(v) <= 1
            BY <2>3, <5>1, <6>1
          <6>3. OnAnswer'
            <7>1. Answered' /\ answers'[cur'].word # "reply" /\ Len(Stream') <= 1
              BY <1>1, <2>2, <2>5, <3>4, <4>1, <5>3, <6>2
            <7> QED
              BY <2>1, <7>1 DEF OnAnswer
          <6> QED
            BY <3>1, <6>3
        <5> QED
          BY <5>2, <5>3
      <4>5. CASE i # 1
        <5>1. a.word = "reply" => i > 3
          <6> SUFFICES ASSUME a.word = "reply" PROVE i > 3
            OBVIOUS
          <6>1. Framed(w, 3, a, 0) /\ 3 \in 1..3
            BY <4>2 DEF Expected
          <6> QED
            BY <2>3, <4>5, <6>1, FramedLength
        <5>2. Expected(v, 3, req.reply, a, 1)
          <6>1. 3 \in 2..3
            OBVIOUS
          <6> QED
            BY <2>3, <4>2, <5>1, <6>1, ExpectedLost, ExpectedGarbled
        <5>3. v[1] = w[1] /\ v # <<>>
          <6>1. 1 \in 1..Len(v) /\ 1 < i
            BY <2>3, <4>5 DEF LostAt, GarbledAt
          <6>2. v[1] = w[1]
            BY <2>3, <4>5, <6>1 DEF LostAt, GarbledAt
          <6> QED
            BY <6>1, <6>2
        <5>4. OnAnswer'
          BY <1>1, <2>1, <2>2, <2>5, <3>4, <4>1, <5>2, <5>3 DEF OnAnswer
        <5> QED
          BY <3>1, <5>4
      <4> QED
        BY <2>3, <4>3, <4>4, <4>5
    <3> QED
      BY <2>1, <2>2, <2>3, <3>2, <3>3, <3>4 DEF OnAnswer, Unacknowledged
  <2>7. CASE pc \in {"done", "high"}
    <3>1. OnHigh
      BY <2>1, <2>7 DEF LineInv
    <3>2. Answered /\ Expected(w, 2, req.reply, answers[cur], 0)
      BY <2>1, <2>2, <2>3, <3>1 DEF OnHigh
    <3>3. PICK a : a = answers[cur]
      OBVIOUS
    <3>4. a.reply \in Texts /\ req.reply \in BOOLEAN /\ Expected(w, 2, req.reply, a, 0)
      BY <2>5, <3>2, <3>3
    <3>5. a.word = "reply" /\ req.reply => i > 2
      <4> SUFFICES ASSUME a.word = "reply", req.reply PROVE i > 2
        OBVIOUS
      <4>1. Framed(w, 2, a, 0) /\ 2 \in 1..3
        BY <3>4 DEF Expected
      <4> QED
        BY <2>3, <4>1, FramedLength
    <3>6. Expected(v, 2, req.reply, a, 1)
      <4>1. 2 \in 2..3
        OBVIOUS
      <4> QED
        BY <2>3, <3>4, <3>5, <4>1, ExpectedLost, ExpectedGarbled
    <3>7. OnHigh'
      BY <1>1, <2>1, <2>2, <2>5, <3>2, <3>3, <3>6 DEF OnHigh
    <3> QED
      BY <1>1, <2>7, <3>7 DEF LineInv
  <2>8. CASE pc = "low"
    <3>1. OnLow
      BY <2>1, <2>8 DEF LineInv
    <3>2. Answered /\ Framed(w, 1, answers[cur], 0)
      BY <2>1, <2>2, <3>1 DEF OnLow
    <3>3. PICK a : a = answers[cur]
      OBVIOUS
    <3>4. a.reply \in Texts /\ Framed(w, 1, a, 0) /\ 1 \in 1..3
      BY <2>5, <3>2, <3>3
    <3>5. a.word = "reply" => i > 1
      BY <2>3, <3>4, FramedLength
    <3>6. Framed(v, 1, a, 1)
      BY <2>3, <3>4, <3>5, FramedLost, FramedGarbled
    <3>7. OnLow'
      BY <1>1, <2>1, <2>2, <2>5, <3>1, <3>2, <3>3, <3>6 DEF OnLow
    <3> QED
      BY <1>1, <2>8, <3>7 DEF LineInv
  <2>9. CASE pc \in {"data", "check"}
    <3>1. OnText
      BY <2>1, <2>9 DEF LineInv
    <3>2. PICK s \in Texts : s = answers[cur].reply
      BY <2>5, <3>1 DEF OnText
    <3>3. Body(buf, w, 0, s, 0) /\ buf \in Seq(Byte) /\ 0 \in 0..3 /\ i > 0
      BY <1>0, <2>1, <2>2, <2>3, <3>1, <3>2 DEF OnText, CountType
    <3>4. Body(buf, v, 0, s, 1)
      BY <2>3, <3>3, BodyLost, BodyGarbled
    <3>5. OnText'
      BY <1>1, <2>1, <2>2, <2>5, <3>1, <3>2, <3>4 DEF OnText
    <3> QED
      BY <1>1, <2>9, <3>5 DEF LineInv
  <2>10. pc \notin {"start", "head", "send"}
    BY <2>1, <2>3 DEF LineInv
  <2> QED
    BY <1>0, <2>4, <2>6, <2>7, <2>8, <2>9, <2>10 DEF CallType, Waiting
<1> QED
  BY <1>0, <1>2, <1>3, WireStream

IInv == TypeInv /\ LineInv

LEMMA LineInit == Init => LineInv
<1> SUFFICES ASSUME Init PROVE LineInv
  OBVIOUS
<1>1. pc = "idle" /\ ~outcome.ok /\ fn_error # "command failed"
  BY DEF Init
<1>2. OnReturn
  BY <1>1 DEF OnReturn, Concluded
<1> QED
  BY <1>1, <1>2 DEF LineInv

LEMMA LineStep ==
  ASSUME MessagesFit, TypeInv, LineInv, [Next]_vars
  PROVE  LineInv'
<1>0. CallType /\ LineType
  BY DEF TypeInv
<1>1. CASE UNCHANGED vars
  <2>1. Stream' = Stream
    BY <1>1 DEF Stream, vars, lynx, far
  <2> QED
    BY <1>1, <2>1, SameLine DEF vars, lynx, far
<1>2. CASE Start \/ SendHead \/ SendByte
  BY <1>0, <1>2, LineSend
<1>3. CASE WireSteps
  BY <1>3, LineWire
<1> QED
  BY <1>0, <1>1, <1>2, <1>3, LineCall, LineAnswer, LineRecvAck, LineHigh, LineLow, LineData, LineCheck,
     LineTimeout, LineTakePacket, LineCarryOut DEF Next, WireSteps

(* What is on the line belongs to the call, and to the step it is at.      *)
THEOREM Invariant ==
  ASSUME MessagesFit
  PROVE  Spec => []IInv
<1>1. Init => IInv
  BY TypeInit, LineInit DEF IInv
<1>2. IInv /\ [Next]_vars => IInv'
  BY TypeStep, LineStep DEF IInv
<1> QED
  BY <1>1, <1>2, PTL DEF Spec

(* A call that returns TRUE returns what the FujiNet answered to it, the   *)
(* whole reply, though a byte was lost or garbled: while no byte of a      *)
(* length is, and it began on a quiet line.                                *)
THEOREM OwnAnswerCorrect ==
  ASSUME MessagesFit
  PROVE  Spec => []OwnAnswer
<1>1. IInv => OwnAnswer
  <2> SUFFICES ASSUME IInv PROVE OwnAnswer
    OBVIOUS
  <2>1. Good /\ pc = "idle" => OnReturn
    BY DEF IInv, LineInv
  <2> QED
    BY <2>1 DEF OwnAnswer, OnReturn, Good, At
<1> QED
  BY <1>1, Invariant, PTL

(* Such a call, or one that is told that its command failed, leaves the    *)
(* line as quiet as it found it: what fnio_recv_ack and fnio_recv_buf take *)
(* is all that was sent.                                                   *)
THEOREM InStepCorrect ==
  ASSUME MessagesFit
  PROVE  Spec => []InStep
<1>1. IInv => InStep
  <2> SUFFICES ASSUME IInv PROVE InStep
    OBVIOUS
  <2>1. Good /\ pc = "idle" => OnReturn
    BY DEF IInv, LineInv
  <2>2. Silent => out \o rx = <<>> /\ inbox = <<>> /\ job = None
    <3>1. LineType
      BY DEF IInv, TypeInv
    <3>2. rx = <<>> /\ out = <<>> => out \o rx = <<>>
      BY ConcatEmptySeq, EmptySeq
    <3> QED
      BY <3>1, <3>2, StreamType DEF Silent
  <2> QED
    BY <2>1, <2>2 DEF InStep, OnReturn, Concluded, Good, At
<1> QED
  BY <1>1, Invariant, PTL
=============================================================================
