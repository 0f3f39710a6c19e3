--------------------------- MODULE HostBusProofs ---------------------------
(***************************************************************************)
(* Theorems about the arguments of a command, for every value and machine, *)
(* and about what the buses of module HostBus keep from call to call: the  *)
(* ids of the SmartPort devices, for any cards in any number of slots, the *)
(* installation of the FujiNet UNAPI, and the C64's command channel; and   *)
(* about the command that arrives and the answer that comes back, for all  *)
(* the requests of module Api; for any calls, and any number of failures.  *)
(***************************************************************************)
EXTENDS HostBus, SequenceTheorems, WellFoundedInduction, TLAPS

(***************************************************************************)
(* The arguments of a command, for every value and every platform: what    *)
(* the platform makes of them, the FujiNet makes of it what they were.     *)
(***************************************************************************)

Computers == {"apple2", "atari", "c64", "msdos", "msx", "coco", "pmd85"}

(* What 8, 16 and 32 bits hold. *)
Bytes == 0..255
Words == {w \in Nat : w < 65536}
Longs == {l + 65536 * m : l, m \in Words}

(* The arguments a DEVCALL macro of this layout takes. *)
Fit(layout, args) ==
  CASE layout = "B12"     -> \E w \in Words : args = <<w>>
    [] layout = "B12_B34" -> \E v, w \in Words : args = <<v, w>>
    [] layout = "C1234"   -> \E v \in Longs : args = <<v>>
    [] OTHER              -> /\ args \in Seq(Bytes)
                             /\ Len(args) = NumFields(layout)

(* A word is a number below 65536. *)
LEMMA WordType ==
  ASSUME NEW w \in Words
  PROVE  w \in Nat /\ w < 65536
BY SMT DEF Words

(* Two pairs of bytes make four. *)
LEMMA PairsJoined ==
  ASSUME NEW e \in Bytes, NEW f \in Bytes, NEW g \in Bytes, NEW h \in Bytes
  PROVE  <<e, f>> \o <<g, h>> = <<e, f, g, h>>
<1> DEFINE s == <<e, f>>
           t == <<g, h>>
           u == <<e, f, g, h>>
<1>1. s \in Seq(Bytes) /\ t \in Seq(Bytes) /\ u \in Seq(Bytes)
  OBVIOUS
<1>2. Len(s) = 2 /\ Len(t) = 2 /\ Len(u) = 4
  OBVIOUS
<1>3. /\ s \o t \in Seq(Bytes) /\ Len(s \o t) = Len(s) + Len(t)
      /\ \A i \in 1..Len(s) + Len(t) :
           (s \o t)[i] = IF i <= Len(s) THEN s[i] ELSE t[i - Len(s)]
  BY <1>1, ConcatProperties
<1>4. Len(s \o t) = Len(u) /\ \A i \in 1..Len(s \o t) : (s \o t)[i] = u[i]
  BY <1>2, <1>3
<1> HIDE DEF s, t, u
<1>5. s \o t = u
  BY <1>1, <1>3, <1>4, SeqEqual
<1>6. QED
  BY <1>5 DEF s, t, u

(* A 16 bit value is its two bytes. *)
LEMMA WordSplit ==
  ASSUME NEW w \in Words
  PROVE  /\ U16_LSB(w) \in Bytes /\ U16_MSB(w) \in Bytes
         /\ U16_LSB(w) + 256 * U16_MSB(w) = w
         /\ 256 * U16_MSB(w) + U16_LSB(w) = w
<1>1. w \in Nat /\ w <= 65535
  BY SMT DEF Words
<1>2. w % 256 \in Bytes /\ w = 256 * (w \div 256) + (w % 256)
  BY <1>1, SMT DEF Bytes
<1>3. w \div 256 \in Bytes
  BY <1>1, SMT DEF Bytes
<1>4. \A n \in Bytes : n % 256 = n
  BY SMT DEF Bytes
<1>5. U16_LSB(w) = w % 256 /\ U16_MSB(w) = w \div 256
  BY <1>3, <1>4, SMT DEF U16_LSB, U16_MSB
<1>6. \A l, m \in Bytes : w = 256 * m + l => l + 256 * m = w
  BY <1>1, SMT DEF Bytes
<1>7. U16_LSB(w) \in Bytes /\ U16_MSB(w) \in Bytes
  BY <1>2, <1>3, <1>5, Zenon
<1>8. 256 * U16_MSB(w) + U16_LSB(w) = w
  BY <1>2, <1>5, Zenon
<1>9. QED
  BY <1>6, <1>7, <1>8, Zenon

(* A 32 bit value is its two words. *)
LEMMA LongSplit ==
  ASSUME NEW v \in Longs
  PROVE  /\ U32_LSW(v) \in Words /\ U32_MSW(v) \in Words
         /\ U32_LSW(v) + 65536 * U32_MSW(v) = v
         /\ 65536 * U32_MSW(v) + U32_LSW(v) = v
<1>1. PICK l \in Words, m \in Words : v = l + 65536 * m
  BY SMT DEF Longs
<1>2. l \in Nat /\ m \in Nat /\ l < 65536
  BY <1>1, WordType, SMT
<1>3. v \div 65536 = m /\ v % 65536 = l
  BY <1>1, <1>2, SMT
<1>4. QED
  BY <1>1, <1>2, <1>3, SMT DEF U32_LSW, U32_MSW

(* The FujiNet puts a 16 bit value together from its bytes in bus order. *)
LEMMA WordJoined ==
  ASSUME NEW p, NEW w \in Words
  PROVE  /\ JoinU16(p, U16_LSB(w), U16_MSB(w)) = w \/ p \in DriveWires
         /\ JoinU16(p, U16_MSB(w), U16_LSB(w)) = w \/ p \notin DriveWires
BY WordSplit, SMT DEF JoinU16

(* The bytes of the arguments in the order of the bus. *)
BusWord(p, w) ==
  IF p \in DriveWires THEN <<U16_MSB(w), U16_LSB(w)>> ELSE <<U16_LSB(w), U16_MSB(w)>>

BusLong(p, l, m) ==
  IF p \in DriveWires
  THEN <<U16_MSB(m), U16_LSB(m), U16_MSB(l), U16_LSB(l)>>
  ELSE <<U16_LSB(l), U16_MSB(l), U16_LSB(m), U16_MSB(m)>>

(* They are what reaches the FujiNet first of a call with one 16 bit value. *)
LEMMA WordArrives ==
  ASSUME NEW p \in Computers, NEW net \in BOOLEAN, NEW w \in Words
  PROVE  \A i \in 1..2 : BusAux(p, "B12", <<w>>, net)[i] = BusWord(p, w)[i]
<1> DEFINE lo == U16_LSB(w)
           hi == U16_MSB(w)
           aux == IF p = "coco" THEN <<hi, lo>> ELSE <<lo, hi>>
<1>1. AuxBytes(p, "B12", <<w>>) = aux
  BY DEF AuxBytes, SplitU16
<1>2. WireBytes("B12", net) = 2
  BY DEF WireBytes, NumBytes
<1> HIDE DEF lo, hi
<1>3. CASE p \in {"atari", "msdos", "msx"}
  <2>1. BusAux(p, "B12", <<w>>, net) = Pad(<<lo, hi>>, IF p = "atari" THEN 2 ELSE 4)
    BY <1>1, <1>3 DEF BusAux, FixedAux
  <2>2. QED
    BY <1>3, <2>1 DEF Pad, BusWord, DriveWires, lo, hi
<1>4. CASE p = "pmd85"
  <2>1. BusAux(p, "B12", <<w>>, net) = Pad(TurnRound("B12", Pad(<<lo, hi>>, 4)), 2)
    BY <1>1, <1>2, <1>4 DEF BusAux, FixedAux
  <2>2. Pad(<<lo, hi>>, 4) = <<lo, hi, 0, 0>>
    BY DEF Pad
  <2>3. TurnRound("B12", <<lo, hi, 0, 0>>) = <<hi, lo, 0, 0>>
    BY DEF TurnRound
  <2>4. QED
    BY <1>4, <2>1, <2>2, <2>3 DEF Pad, BusWord, DriveWires, lo, hi
<1>5. CASE p = "coco"
  <2>1. BusAux(p, "B12", <<w>>, net) = Pad(<<hi, lo>>, 2)
    BY <1>1, <1>2, <1>5 DEF BusAux
  <2>2. QED
    BY <1>5, <2>1 DEF Pad, BusWord, DriveWires, lo, hi
<1>6. CASE p \in {"apple2", "c64"}
  <2>1. BusAux(p, "B12", <<w>>, net) = <<lo, hi>>
    BY <1>1, <1>6 DEF BusAux
  <2>2. QED
    BY <1>6, <2>1 DEF BusWord, DriveWires, lo, hi
<1>7. QED
  BY <1>3, <1>4, <1>5, <1>6 DEF Computers

(* And of a call with two, or with a 32 bit value. *)
LEMMA FourBytesArrive ==
  ASSUME NEW p \in Computers \ {"atari"}, NEW net \in BOOLEAN,
         NEW layout \in {"B12_B34", "C1234"}, NEW args,
         NEW a, NEW b, NEW c, NEW d,
         AuxBytes(p, layout, args) = <<a, b, c, d>>
  PROVE  LET aux == BusAux(p, layout, args, net)
         IN <<aux[1], aux[2], aux[3], aux[4]>> =
              IF p # "pmd85" THEN <<a, b, c, d>>
              ELSE IF layout = "C1234" THEN <<d, c, b, a>> ELSE <<b, a, d, c>>
<1> DEFINE aux == BusAux(p, layout, args, net)
<1>1. WireBytes(layout, net) = 4
  BY DEF WireBytes, NumBytes
<1>2. \A e, f, g, h : Pad(<<e, f, g, h>>, 4) = <<e, f, g, h>>
  BY DEF Pad
<1>3. CASE p \in {"msdos", "msx"}
  <2>1. aux = <<a, b, c, d>>
    BY <1>2, <1>3 DEF BusAux, FixedAux
  <2>2. QED
    BY <1>3, <2>1
<1>4. CASE p = "pmd85"
  <2>1. aux = Pad(TurnRound(layout, <<a, b, c, d>>), 4)
    BY <1>1, <1>2, <1>4 DEF BusAux, FixedAux
  <2>2. TurnRound(layout, <<a, b, c, d>>) =
          IF layout = "C1234" THEN <<d, c, b, a>> ELSE <<b, a, d, c>>
    BY DEF TurnRound
  <2>3. aux = IF layout = "C1234" THEN <<d, c, b, a>> ELSE <<b, a, d, c>>
    BY <1>2, <2>1, <2>2
  <2>4. QED
    BY <1>4, <2>3
<1>5. CASE p = "coco"
  <2>1. aux = <<a, b, c, d>>
    BY <1>1, <1>2, <1>5 DEF BusAux
  <2>2. QED
    BY <1>5, <2>1
<1>6. CASE p \in {"apple2", "c64"}
  <2>1. aux = <<a, b, c, d>>
    BY <1>6 DEF BusAux
  <2>2. QED
    BY <1>6, <2>1
<1>7. QED
  BY <1>3, <1>4, <1>5, <1>6 DEF Computers

(* Arguments of a byte each stay as they are. *)
LEMMA BytesArrive ==
  ASSUME NEW p \in Computers, NEW net \in BOOLEAN,
         NEW layout \in Layouts \ {"B12", "B12_B34", "C1234"},
         NEW args \in Seq(Bytes), Len(args) = NumFields(layout),
         p = "atari" => NumBytes(layout) <= 2
  PROVE  \A i \in 1..NumFields(layout) : BusAux(p, layout, args, net)[i] = args[i]
<1>1. AuxBytes(p, layout, args) = args
  BY DEF AuxBytes, Layouts
<1>2. NumBytes(layout) = NumFields(layout) /\ NumFields(layout) \in 0..4
  BY DEF NumBytes, NumFields, Layouts
<1>3. WireBytes(layout, net) \in Nat /\ NumFields(layout) <= WireBytes(layout, net)
  BY <1>2 DEF WireBytes
<1>4. \A n \in Nat : \A i \in 1..n : i <= Len(args) => Pad(args, n)[i] = args[i]
  BY DEF Pad
<1>5. CASE p \in {"atari", "msdos", "msx"}
  BY <1>1, <1>2, <1>4, <1>5 DEF BusAux, FixedAux
<1>6. CASE p = "pmd85"
  <2>1. BusAux(p, layout, args, net) = Pad(Pad(args, 4), WireBytes(layout, net))
    BY <1>1, <1>6 DEF BusAux, FixedAux, TurnRound, Layouts
  <2>2. Len(Pad(args, 4)) = 4
    BY DEF Pad
  <2>3. \A i \in 1..NumFields(layout) :
          Pad(Pad(args, 4), WireBytes(layout, net))[i] = Pad(args, 4)[i]
    BY <1>2, <1>3, <2>2 DEF Pad
  <2>4. QED
    BY <1>2, <1>4, <2>1, <2>3
<1>7. CASE p = "coco"
  BY <1>1, <1>2, <1>3, <1>4, <1>7 DEF BusAux
<1>8. CASE p \in {"apple2", "c64"}
  BY <1>1, <1>8 DEF BusAux
<1>9. QED
  BY <1>5, <1>6, <1>7, <1>8 DEF Computers

(* Whatever the platform, the layout and the values, the FujiNet takes the
   arguments of a command for what the application passed: splitting a value
   (fujinet-fuji.h), padding, and turning it round (fuji_bus_call of the
   PMD 85) come out right; except that the Atari has two aux bytes only. *)
THEOREM ArgumentsRoundTrip ==
  ASSUME NEW p \in Computers, NEW net \in BOOLEAN, NEW layout \in Layouts, NEW args,
         Fit(layout, args), p = "atari" => NumBytes(layout) <= 2
  PROVE  Arguments(p, layout, BusAux(p, layout, args, net)) = args
<1> DEFINE aux == BusAux(p, layout, args, net)
<1>1. CASE layout = "B12"
  <2>1. PICK w \in Words : args = <<w>>
    BY <1>1 DEF Fit
  <2>2. aux[1] = BusWord(p, w)[1] /\ aux[2] = BusWord(p, w)[2]
    BY <1>1, <2>1, WordArrives
  <2>3. JoinU16(p, aux[1], aux[2]) = w
    BY <2>1, <2>2, WordJoined DEF BusWord
  <2>4. QED
    BY <1>1, <2>1, <2>3 DEF Arguments
<1>2. CASE layout = "B12_B34"
  <2>1. PICK v \in Words, w \in Words : args = <<v, w>>
    BY <1>2 DEF Fit
  <2>2. p # "atari"
    BY <1>2 DEF NumBytes
  <2>3. AuxBytes(p, layout, args) =
          IF p = "coco" THEN <<U16_MSB(v), U16_LSB(v), U16_MSB(w), U16_LSB(w)>>
          ELSE <<U16_LSB(v), U16_MSB(v), U16_LSB(w), U16_MSB(w)>>
    BY <1>2, <2>1 DEF AuxBytes, SplitU16
  <2>4. <<aux[1], aux[2], aux[3], aux[4]>> =
          IF p \in DriveWires THEN <<U16_MSB(v), U16_LSB(v), U16_MSB(w), U16_LSB(w)>>
          ELSE <<U16_LSB(v), U16_MSB(v), U16_LSB(w), U16_MSB(w)>>
    BY <1>2, <2>2, <2>3, FourBytesArrive DEF DriveWires
  <2>5. JoinU16(p, aux[1], aux[2]) = v /\ JoinU16(p, aux[3], aux[4]) = w
    BY <2>1, <2>4, WordJoined
  <2>6. QED
    BY <1>2, <2>1, <2>5 DEF Arguments
<1>3. CASE layout = "C1234"
  <2>1. PICK v \in Longs : args = <<v>>
    BY <1>3 DEF Fit
  <2> DEFINE l == U32_LSW(v)
             m == U32_MSW(v)
  <2>2. p # "atari"
    BY <1>3 DEF NumBytes
  <2>3. AuxBytes(p, layout, args) =
          IF p = "coco" THEN <<U16_MSB(m), U16_LSB(m), U16_MSB(l), U16_LSB(l)>>
          ELSE <<U16_LSB(l), U16_MSB(l), U16_LSB(m), U16_MSB(m)>>
    <3>1. /\ l \in Words /\ m \in Words
          /\ \A e, f, g, h \in Bytes : <<e, f>> \o <<g, h>> = <<e, f, g, h>>
      BY <2>1, LongSplit, PairsJoined
    <3>2. AuxBytes(p, layout, args) = SplitU32(p, v)
      BY <1>3, <2>1 DEF AuxBytes
    <3>3. SplitU32(p, v) = IF p = "coco" THEN SplitU16(p, m) \o SplitU16(p, l)
                                         ELSE SplitU16(p, l) \o SplitU16(p, m)
      BY Zenon DEF SplitU32
    <3>4. \A w : SplitU16(p, w) = IF p = "coco" THEN <<U16_MSB(w), U16_LSB(w)>>
                                                ELSE <<U16_LSB(w), U16_MSB(w)>>
      BY Zenon DEF SplitU16
    <3> HIDE DEF l, m
    <3>5. \A w \in Words : U16_LSB(w) \in Bytes /\ U16_MSB(w) \in Bytes
      BY WordSplit
    <3>6. CASE p = "coco"
      <4>1. AuxBytes(p, layout, args) =
              <<U16_MSB(m), U16_LSB(m)>> \o <<U16_MSB(l), U16_LSB(l)>>
        BY <3>2, <3>3, <3>4, <3>6, Zenon
      <4>2. QED
        BY <3>1, <3>5, <3>6, <4>1
    <3>7. CASE p # "coco"
      <4>1. /\ SplitU16(p, l) = <<U16_LSB(l), U16_MSB(l)>>
            /\ SplitU16(p, m) = <<U16_LSB(m), U16_MSB(m)>>
            /\ SplitU32(p, v) = SplitU16(p, l) \o SplitU16(p, m)
        BY <3>3, <3>4, <3>7
      <4>2. QED
        BY <3>1, <3>2, <3>5, <3>7, <4>1
    <3>8. QED
      BY <3>6, <3>7
  <2> HIDE DEF l, m
  <2>4. <<aux[1], aux[2], aux[3], aux[4]>> = BusLong(p, l, m)
    BY <1>3, <2>2, <2>3, FourBytesArrive DEF DriveWires, BusLong
  <2>5. l \in Words /\ m \in Words /\ l + 65536 * m = v /\ 65536 * m + l = v
    BY <2>1, LongSplit DEF l, m
  <2>6. IF p \in DriveWires
        THEN JoinU16(p, aux[1], aux[2]) = m /\ JoinU16(p, aux[3], aux[4]) = l
        ELSE JoinU16(p, aux[1], aux[2]) = l /\ JoinU16(p, aux[3], aux[4]) = m
    BY <2>4, <2>5, WordJoined DEF BusLong
  <2>7. JoinU32(p, aux) = v
    BY <2>5, <2>6, SMT DEF JoinU32
  <2>8. QED
    BY <1>3, <2>1, <2>7 DEF Arguments
<1>4. CASE layout \notin {"B12", "B12_B34", "C1234"}
  <2>1. args \in Seq(Bytes) /\ Len(args) = NumFields(layout)
    BY <1>4 DEF Fit
  <2>2. \A i \in 1..NumFields(layout) : aux[i] = args[i]
    BY <1>4, <2>1, BytesArrive
  <2>3. Arguments(p, layout, aux) = [i \in 1..Len(args) |-> args[i]]
    BY <1>4, <2>1, <2>2 DEF Arguments
  <2>4. args = [i \in 1..Len(args) |-> args[i]]
    BY <2>1
  <2>5. QED
    BY <2>3, <2>4
<1>5. QED
  BY <1>1, <1>2, <1>3, <1>4

-----------------------------------------------------------------------------

(***************************************************************************)
(* What an application may ask for: the calls of the library, on any       *)
(* machine, all have the form WellFormed.                                  *)
(***************************************************************************)

Ops == {"call", "vld", "seek", "read", "write", "readkey", "appkey"}

(* What a request sends: bytes, or a 16 bit value and a byte. *)
Sent(r) ==
  \/ r.data \in Seq(Bytes) /\ Len(r.data) \in Words /\ (r.data # <<>> => r.int = 0)
  \/ r.int = 2 /\ \E w \in Words, b \in Bytes : r.data = <<w, b>>

(* Its arguments, *)
Passed(p, r) ==
  /\ r.layout \in Layouts /\ (p = "atari" => NumBytes(r.layout) <= 2)
  /\ IF r.op = "seek" THEN \E v \in Longs : r.args = <<v>> ELSE Fit(r.layout, r.args)

(* and what it asks for; a value at the start of it is one the bus turns. *)
Asked(r) ==
  /\ r.want \in Words /\ r.int \in {0, 2, 4} /\ r.int = PayloadIntSize(r.kind, r.cmd)
  /\ r.want > 0 => r.want >= r.int /\ (r.data = <<>> \/ r.op = "readkey")

(* Requests that are not one call of a macro. *)
Special(p, r) ==
  /\ r.layout = "NONE"
  /\ r.op \in {"vld", "seek", "read", "write"} => r.kind = "net" /\ r.int = 0
  /\ r.op \in {"vld", "seek", "write"} => r.want = 0
  /\ r.op \in {"seek", "read"} => r.data = <<>>
  /\ r.op \in {"readkey", "appkey"} => r.kind = "fuji" /\ r.want > 0
  /\ r.op = "readkey" => p = "c64"
  /\ r.op = "appkey" => p # "c64" /\ r.cmd = "READ_APPKEY" /\ r.data = <<>>

(* What the requests of the library have in common. *)
WellFormed(p, r) ==
  /\ r.op \in Ops /\ r.kind \in Kinds /\ r.unit \in 0..LastUnit
  /\ Sent(r) /\ Passed(p, r) /\ Asked(r)
  /\ r.op # "call" => Special(p, r)
  /\ r.cmd = "OPEN_APPKEY" => r.kind = "fuji"

-----------------------------------------------------------------------------
(* The macros add to a request one thing at a time. *)

(* The data of most of them is a name. *)
Texts == {<<>>, Name, Append(Name, 0)}

(* Such data are a few bytes. *)
LEMMA TextType ==
  ASSUME NEW d \in Texts
  PROVE  d \in Seq(Bytes) /\ Len(d) \in 0..4
<1>1. Name \in Seq(Bytes) /\ Len(Name) = 3
  BY DEF Name, Bytes
<1>2. CASE d = <<>>
  BY <1>2
<1>3. CASE d = Name
  BY <1>1, <1>3
<1>4. CASE d = Append(Name, 0)
  <2>1. PICK n \in Seq(Bytes), e \in Bytes : n = Name /\ e = 0 /\ Len(n) = 3
    BY <1>1 DEF Bytes
  <2>2. d = Append(n, e)
    BY <1>4, <2>1
  <2>3. d \in Seq(Bytes) /\ Len(d) = Len(n) + 1
    BY <2>2, AppendProperties
  <2>4. QED
    BY <2>1, <2>3
<1>5. QED
  BY <1>2, <1>3, <1>4 DEF Texts

(* The name the calls send has three letters. *)
LEMMA NameLength == Len(Name) = 3
BY DEF Name

(* A call of this shape. *)
Shaped(r, kind, cmd, unit, layout, args, data, want, int) ==
  /\ DOMAIN r = DOMAIN Plain
  /\ r.op = "call" /\ r.kind = kind /\ r.cmd = cmd /\ r.unit = unit
  /\ r.layout = layout /\ r.args = args /\ r.data = data /\ r.want = want /\ r.int = int

(* Layout, data and length asked for change alone. *)
LEMMA ShapedWith ==
  ASSUME NEW kind, NEW cmd, NEW unit, NEW layout, NEW args, NEW data, NEW want, NEW int,
         NEW l, NEW a, NEW n, NEW r, Shaped(r, kind, cmd, unit, layout, args, data, want, int)
  PROVE  /\ Shaped(With(r, l, a), kind, cmd, unit, l, a, data, want, int)
         /\ Shaped(Sends(r, a), kind, cmd, unit, layout, args, a, want, int)
         /\ Shaped(Gets(r, n), kind, cmd, unit, layout, args, data, n, int)
BY DEF With, Sends, Gets, Shaped, Plain

(* Where the macros start from. *)
LEMMA ShapedStart ==
  ASSUME NEW cmd, NEW unit
  PROVE  /\ Shaped(Fuji(cmd), "fuji", cmd, 0, "NONE", <<>>, <<>>, 0, 0)
         /\ Shaped(Clock(cmd), "clock", cmd, 0, "NONE", <<>>, <<>>, 0, 0)
         /\ Shaped(Net(cmd, unit), "net", cmd, unit, "NONE", <<>>, <<>>, 0, 0)
BY DEF Fuji, Clock, Net, Plain, Shaped

(* Such a call may be asked for if its parts fit one another. *)
LEMMA ShapedCall ==
  ASSUME NEW p \in Computers, NEW r, r.op = "call", r.kind \in Kinds, r.unit \in 0..LastUnit,
         r.layout \in Layouts, p = "atari" => NumBytes(r.layout) <= 2, Fit(r.layout, r.args),
         r.data \in Texts, r.want \in 0..5, r.int \in {0, 2, 4},
         r.int = PayloadIntSize(r.kind, r.cmd),
         r.cmd = "OPEN_APPKEY" => r.kind = "fuji",
         r.data # <<>> => r.int = 0 /\ r.want = 0,
         r.want > 0 => r.want >= r.int
  PROVE  WellFormed(p, r)
<1>1. r.data \in Seq(Bytes) /\ Len(r.data) \in Words
  <2>1. r.data \in Seq(Bytes) /\ Len(r.data) \in 0..4
    BY TextType
  <2>2. 0..4 \subseteq Words
    BY DEF Words
  <2>3. QED
    BY <2>1, <2>2, Zenon
<1>2. Sent(r)
  BY <1>1 DEF Sent
<1>3. Passed(p, r)
  <2>1. r.op # "seek"
    OBVIOUS
  <2>2. QED
    BY <2>1, Zenon DEF Passed
<1>4. r.want \in Words
  <2>1. 0..5 \subseteq Words
    BY DEF Words
  <2>2. QED
    BY <2>1, Zenon
<1>5. Asked(r)
  BY <1>4 DEF Asked
<1>6. QED
  BY <1>2, <1>3, <1>5 DEF WellFormed, Ops

(* The macros' calls to a device that need no turning round. *)
Calls(p, b) ==
  /\ WellFormed(p, b) /\ \A d \in Texts : WellFormed(p, Sends(b, d))
  /\ \A n \in 0..5 : WellFormed(p, Gets(b, n))
  /\ \A layout \in Layouts : \A args :
       Fit(layout, args) /\ (p = "atari" => NumBytes(layout) <= 2) =>
         /\ WellFormed(p, With(b, layout, args))
         /\ \A d \in Texts : WellFormed(p, Sends(With(b, layout, args), d))
         /\ \A n \in 0..5 : WellFormed(p, Gets(With(b, layout, args), n))

(* Arguments and a text may be added to a command, or an answer asked for. *)
LEMMA BaseCalls ==
  ASSUME NEW p \in Computers, NEW kind \in Kinds, NEW cmd, NEW unit \in 0..LastUnit,
         PayloadIntSize(kind, cmd) = 0, cmd = "OPEN_APPKEY" => kind = "fuji",
         NEW b, Shaped(b, kind, cmd, unit, "NONE", <<>>, <<>>, 0, 0)
  PROVE  Calls(p, b)
<1>1. Fit("NONE", <<>>) /\ NumBytes("NONE") = 0 /\ "NONE" \in Layouts
  BY DEF Fit, NumBytes, NumFields, Layouts
<1>2. ASSUME NEW layout \in Layouts, NEW args, Fit(layout, args), p = "atari" => NumBytes(layout) <= 2,
             NEW c, Shaped(c, kind, cmd, unit, layout, args, <<>>, 0, 0)
      PROVE  /\ WellFormed(p, c) /\ \A d \in Texts : WellFormed(p, Sends(c, d))
             /\ \A n \in 0..5 : WellFormed(p, Gets(c, n))
  <2>1. WellFormed(p, c)
    BY <1>2, ShapedCall DEF Shaped, Texts
  <2>2. ASSUME NEW d \in Texts PROVE WellFormed(p, Sends(c, d))
    <3>1. Shaped(Sends(c, d), kind, cmd, unit, layout, args, d, 0, 0)
      BY <1>2, ShapedWith
    <3>2. PICK e : e = Sends(c, d)
      OBVIOUS
    <3>3. Shaped(e, kind, cmd, unit, layout, args, d, 0, 0)
      BY <3>1, <3>2
    <3>4. WellFormed(p, e)
      BY <1>2, <3>3, ShapedCall DEF Shaped
    <3>5. QED
      BY <3>2, <3>4
  <2>3. ASSUME NEW n \in 0..5 PROVE WellFormed(p, Gets(c, n))
    <3>1. Shaped(Gets(c, n), kind, cmd, unit, layout, args, <<>>, n, 0)
      BY <1>2, ShapedWith
    <3>2. PICK e : e = Gets(c, n)
      OBVIOUS
    <3>3. Shaped(e, kind, cmd, unit, layout, args, <<>>, n, 0)
      BY <3>1, <3>2
    <3>4. WellFormed(p, e)
      BY <1>2, <3>3, ShapedCall DEF Shaped, Texts
    <3>5. QED
      BY <3>2, <3>4
  <2>4. QED
    BY <2>1, <2>2, <2>3
<1>3. ASSUME NEW layout \in Layouts, NEW args, Fit(layout, args), p = "atari" => NumBytes(layout) <= 2
      PROVE  /\ WellFormed(p, With(b, layout, args))
             /\ \A d \in Texts : WellFormed(p, Sends(With(b, layout, args), d))
             /\ \A n \in 0..5 : WellFormed(p, Gets(With(b, layout, args), n))
  <2>1. Shaped(With(b, layout, args), kind, cmd, unit, layout, args, <<>>, 0, 0)
    BY ShapedWith
  <2>2. QED
    BY <1>2, <1>3, <2>1
<1>4. /\ WellFormed(p, b) /\ \A d \in Texts : WellFormed(p, Sends(b, d))
      /\ \A n \in 0..5 : WellFormed(p, Gets(b, n))
  BY <1>1, <1>2
<1>5. QED
  BY <1>3, <1>4 DEF Calls

(* Commands of the FujiNet device whose answer holds no integer. *)
LEMMA FujiCalls ==
  ASSUME NEW p \in Computers, NEW cmd, PayloadIntSize("fuji", cmd) = 0
  PROVE  Calls(p, Fuji(cmd))
<1>1. Shaped(Fuji(cmd), "fuji", cmd, 0, "NONE", <<>>, <<>>, 0, 0)
  BY ShapedStart
<1>2. "fuji" \in Kinds /\ 0 \in 0..LastUnit
  BY ApiAssumption DEF ApiAssumption, Kinds
<1>3. QED
  BY <1>1, <1>2, BaseCalls

(* Commands of the clock. *)
LEMMA ClockCalls ==
  ASSUME NEW p \in Computers, NEW cmd, cmd # "OPEN_APPKEY"
  PROVE  Calls(p, Clock(cmd))
<1>1. Shaped(Clock(cmd), "clock", cmd, 0, "NONE", <<>>, <<>>, 0, 0)
  BY ShapedStart
<1>2. "clock" \in Kinds /\ 0 \in 0..LastUnit /\ PayloadIntSize("clock", cmd) = 0
  BY ApiAssumption DEF ApiAssumption, Kinds, PayloadIntSize
<1>3. QED
  BY <1>1, <1>2, BaseCalls

(* Commands of a network unit. *)
LEMMA NetCalls ==
  ASSUME NEW p \in Computers, NEW cmd, cmd \notin {"STATUS", "OPEN_APPKEY"}, NEW unit \in 1..LastUnit
  PROVE  Calls(p, Net(cmd, unit))
<1>1. Shaped(Net(cmd, unit), "net", cmd, unit, "NONE", <<>>, <<>>, 0, 0)
  BY ShapedStart
<1>2. "net" \in Kinds /\ unit \in 0..LastUnit /\ PayloadIntSize("net", cmd) = 0
  BY ApiAssumption DEF ApiAssumption, Kinds, PayloadIntSize
<1>3. QED
  BY <1>1, <1>2, BaseCalls

(* Arguments fit the layout named for them. *)
LEMMA Fits ==
  /\ \A a \in Bytes : Fit("A1", <<a>>)
  /\ \A a, b \in Bytes : Fit("A1_A2", <<a, b>>)
  /\ \A a, b, c \in Bytes : Fit("A1_A2_A3", <<a, b, c>>)
  /\ \A w \in Words : Fit("B12", <<w>>)
  /\ NumBytes("A1") = 1 /\ NumBytes("A1_A2") = 2 /\ NumBytes("B12") = 2
  /\ {"A1", "A1_A2", "A1_A2_A3", "B12"} \subseteq Layouts
<1>1. \A a \in Bytes : Fit("A1", <<a>>)
  BY DEF Fit, NumFields
<1>2. \A a, b \in Bytes : Fit("A1_A2", <<a, b>>)
  BY DEF Fit, NumFields
<1>3. \A a, b, c \in Bytes : Fit("A1_A2_A3", <<a, b, c>>)
  BY DEF Fit, NumFields
<1>4. \A w \in Words : Fit("B12", <<w>>)
  BY DEF Fit
<1>5. QED
  BY <1>1, <1>2, <1>3, <1>4 DEF NumBytes, Layouts

(* A name goes with its zero or without. *)
LEMMA TextsHere == Name \in Texts /\ Append(Name, 0) \in Texts
BY DEF Texts

(* A length told in a long. *)
LEMMA LongCalls ==
  ASSUME NEW p \in Computers,
         NEW c \in {"BASE64_DECODE_LENGTH", "BASE64_ENCODE_LENGTH", "QRCODE_LENGTH"},
         NEW b \in {Fuji(c), With(Fuji(c), "A1", << 1 >>)}
  PROVE  WellFormed(p, InLong(b))
<1>1. ASSUME NEW layout \in Layouts, NEW args, Fit(layout, args), NumBytes(layout) <= 2,
             Shaped(b, "fuji", c, 0, layout, args, <<>>, 0, 0)
      PROVE  WellFormed(p, InLong(b))
  <2>1. PICK e : e = InLong(b)
    OBVIOUS
  <2>2. Shaped(e, "fuji", c, 0, layout, args, <<>>, 4, 4)
    BY <1>1, <2>1 DEF InLong, Gets, Shaped, Plain
  <2>3. PayloadIntSize("fuji", c) = 4 /\ 0 \in 0..LastUnit
    BY ApiAssumption DEF PayloadIntSize, ApiAssumption
  <2>4. WellFormed(p, e)
    BY <1>1, <2>2, <2>3, ShapedCall DEF Shaped, Texts, Kinds
  <2>5. QED
    BY <2>1, <2>4
<1>2. CASE b = Fuji(c)
  <2>1. Shaped(b, "fuji", c, 0, "NONE", <<>>, <<>>, 0, 0)
    BY <1>2, ShapedStart
  <2>2. Fit("NONE", <<>>) /\ NumBytes("NONE") = 0 /\ "NONE" \in Layouts
    BY DEF Fit, NumBytes, NumFields, Layouts
  <2>3. QED
    BY <1>1, <2>1, <2>2
<1>3. CASE b = With(Fuji(c), "A1", << 1 >>)
  <2>1. Shaped(b, "fuji", c, 0, "A1", << 1 >>, <<>>, 0, 0)
    BY <1>3, ShapedStart, ShapedWith
  <2>2. 1 \in Bytes
    BY DEF Bytes
  <2>3. QED
    BY <1>1, <2>1, <2>2, Fits
<1>4. QED
  BY <1>2, <1>3

(* A disk, devices, the adapter. *)
LEMMA SetupForm ==
  ASSUME NEW p \in Computers, NEW r \in Setup
  PROVE  WellFormed(p, r)
<1>1. CASE r = Sends(Fuji("NEW_DISK"), Name)
  <2>1. PayloadIntSize("fuji", "NEW_DISK") = 0
    BY DEF PayloadIntSize
  <2>2. QED
    BY <1>1, <2>1, FujiCalls, Fits, TextsHere DEF Calls
<1>2. ASSUME NEW c \in {"DISABLE_DEVICE", "ENABLE_DEVICE"}, r = With(Fuji(c), "A1", << 5 >>)
      PROVE  WellFormed(p, r)
  <2>1. PayloadIntSize("fuji", c) = 0 /\ 5 \in Bytes
    BY DEF PayloadIntSize, Bytes
  <2>2. QED
    BY <1>2, <2>1, FujiCalls, Fits, TextsHere DEF Calls
<1>3. ASSUME NEW c \in {"GENERATE_GUID", "GET_ADAPTERCONFIG", "GET_ADAPTERCONFIG_EXTENDED"}, r = Gets(Fuji(c), 5)
      PROVE  WellFormed(p, r)
  <2>1. PayloadIntSize("fuji", c) = 0
    BY DEF PayloadIntSize
  <2>2. QED
    BY <1>3, <2>1, FujiCalls, Fits, TextsHere DEF Calls
<1>4. QED
  BY <1>1, <1>2, <1>3 DEF Setup, Slot, STRUCT

(* What the FujiNet has in its slots, and its network. *)
LEMMA InfosForm ==
  ASSUME NEW p \in Computers, NEW r \in Infos
  PROVE  WellFormed(p, r)
<1>1. ASSUME NEW c \in {"READ_DEVICE_SLOTS", "READ_HOST_SLOTS", "GET_SSID"}, r = Gets(Fuji(c), 5)
      PROVE  WellFormed(p, r)
  <2>1. PayloadIntSize("fuji", c) = 0
    BY DEF PayloadIntSize
  <2>2. QED
    BY <1>1, <2>1, FujiCalls, Fits, TextsHere DEF Calls
<1>2. ASSUME NEW c \in {"GET_DEVICE_FULLPATH", "GET_HOST_PREFIX", "GET_SCAN_RESULT"}, r = Gets(With(Fuji(c), "A1", << 5 >>), 5)
      PROVE  WellFormed(p, r)
  <2>1. PayloadIntSize("fuji", c) = 0 /\ 5 \in Bytes
    BY DEF PayloadIntSize, Bytes
  <2>2. QED
    BY <1>2, <2>1, FujiCalls, Fits, TextsHere DEF Calls
<1>3. ASSUME NEW c \in {"GET_DIRECTORY_POSITION", "GET_WIFI_ENABLED", "GET_WIFISTATUS"}, NEW n \in 1..2, r = Gets(Fuji(c), n)
      PROVE  WellFormed(p, r)
  <2>1. PayloadIntSize("fuji", c) = 0
    BY DEF PayloadIntSize
  <2>2. QED
    BY <1>3, <2>1, FujiCalls, Fits, TextsHere DEF Calls
<1>4. QED
  BY <1>1, <1>2, <1>3 DEF Infos, Slot, STRUCT

(* Mounting, directories, saving the slots. *)
LEMMA MountsForm ==
  ASSUME NEW p \in Computers, NEW r \in Mounts \cup Directories
  PROVE  WellFormed(p, r)
<1>1. ASSUME NEW c \in {"MOUNT_ALL", "RESET", "CLOSE_DIRECTORY"}, r = Fuji(c)
      PROVE  WellFormed(p, r)
  <2>1. PayloadIntSize("fuji", c) = 0
    BY DEF PayloadIntSize
  <2>2. QED
    BY <1>1, <2>1, FujiCalls, Fits, TextsHere DEF Calls
<1>2. CASE r = With(Fuji("MOUNT_IMAGE"), "A1_A2", <<5, 2>>)
  <2>1. PayloadIntSize("fuji", "MOUNT_IMAGE") = 0 /\ 2 \in Bytes /\ 5 \in Bytes
    BY DEF PayloadIntSize, Bytes
  <2>2. QED
    BY <1>2, <2>1, FujiCalls, Fits, TextsHere DEF Calls
<1>3. CASE r = With(Fuji("MOUNT_HOST"), "A1", << 5 >>)
  <2>1. PayloadIntSize("fuji", "MOUNT_HOST") = 0 /\ 5 \in Bytes
    BY DEF PayloadIntSize, Bytes
  <2>2. QED
    BY <1>3, <2>1, FujiCalls, Fits, TextsHere DEF Calls
<1>4. CASE r = Sends(With(Fuji("OPEN_DIRECTORY"), "A1", << 5 >>), Name)
  <2>1. PayloadIntSize("fuji", "OPEN_DIRECTORY") = 0 /\ 5 \in Bytes
    BY DEF PayloadIntSize, Bytes
  <2>2. QED
    BY <1>4, <2>1, FujiCalls, Fits, TextsHere DEF Calls
<1>5. CASE r = Gets(With(Fuji("READ_DIR_ENTRY"), "A1_A2", <<5, 128>>), 5)
  <2>1. PayloadIntSize("fuji", "READ_DIR_ENTRY") = 0 /\ 5 \in Bytes /\ 128 \in Bytes
    BY DEF PayloadIntSize, Bytes
  <2>2. QED
    BY <1>5, <2>1, FujiCalls, Fits, TextsHere DEF Calls
<1>6. ASSUME NEW c \in {"WRITE_DEVICE_SLOTS", "WRITE_HOST_SLOTS"}, r = Sends(Fuji(c), Name)
      PROVE  WellFormed(p, r)
  <2>1. PayloadIntSize("fuji", c) = 0
    BY DEF PayloadIntSize
  <2>2. QED
    BY <1>6, <2>1, FujiCalls, Fits, TextsHere DEF Calls
<1>7. CASE r = With(Fuji("SET_DIRECTORY_POSITION"), "B12", <<258>>)
  <2>1. PayloadIntSize("fuji", "SET_DIRECTORY_POSITION") = 0 /\ 258 \in Words
    BY DEF PayloadIntSize, Words
  <2>2. QED
    BY <1>7, <2>1, FujiCalls, Fits, TextsHere DEF Calls
<1>8. QED
  BY <1>1, <1>2, <1>3, <1>4, <1>5, <1>6, <1>7 DEF Mounts, Directories, Slot, STRUCT, Wide

(* Copying, booting, names, scanning. *)
LEMMA OthersForm ==
  ASSUME NEW p \in Computers, NEW r \in Boots \cup Unmounts \cup {CopyFile, SetHostPrefix, HashClear, FujiTime, ScanForNetworks(p)}
  PROVE  WellFormed(p, r)
<1>1. ASSUME NEW c \in {"CONFIG_BOOT", "SET_BOOT_MODE"}, r = With(Fuji(c), "A1", << 2 >>)
      PROVE  WellFormed(p, r)
  <2>1. PayloadIntSize("fuji", c) = 0 /\ 2 \in Bytes
    BY DEF PayloadIntSize, Bytes
  <2>2. QED
    BY <1>1, <2>1, FujiCalls, Fits, TextsHere DEF Calls
<1>2. ASSUME NEW c \in {"UNMOUNT_IMAGE", "UNMOUNT_HOST"}, r = With(Fuji(c), "A1", << 5 >>)
      PROVE  WellFormed(p, r)
  <2>1. PayloadIntSize("fuji", c) = 0 /\ 5 \in Bytes
    BY DEF PayloadIntSize, Bytes
  <2>2. QED
    BY <1>2, <2>1, FujiCalls, Fits, TextsHere DEF Calls
<1>3. CASE r = Sends(With(Fuji("COPY_FILE"), "A1_A2", <<1, 2>>), Name)
  <2>1. PayloadIntSize("fuji", "COPY_FILE") = 0 /\ 1 \in Bytes /\ 2 \in Bytes
    BY DEF PayloadIntSize, Bytes
  <2>2. QED
    BY <1>3, <2>1, FujiCalls, Fits, TextsHere DEF Calls
<1>4. CASE r = Sends(With(Fuji("SET_HOST_PREFIX"), "A1", << 5 >>), Name)
  <2>1. PayloadIntSize("fuji", "SET_HOST_PREFIX") = 0 /\ 5 \in Bytes
    BY DEF PayloadIntSize, Bytes
  <2>2. QED
    BY <1>4, <2>1, FujiCalls, Fits, TextsHere DEF Calls
<1>5. CASE r = Fuji("HASH_CLEAR")
  <2>1. PayloadIntSize("fuji", "HASH_CLEAR") = 0
    BY DEF PayloadIntSize
  <2>2. QED
    BY <1>5, <2>1, FujiCalls, Fits, TextsHere DEF Calls
<1>6. CASE r = Gets(Fuji("GET_TIME"), 5)
  <2>1. PayloadIntSize("fuji", "GET_TIME") = 0
    BY DEF PayloadIntSize
  <2>2. QED
    BY <1>6, <2>1, FujiCalls, Fits, TextsHere DEF Calls
<1>7. ASSUME NEW n \in {1, 4}, r = Gets(Fuji("SCAN_NETWORKS"), n)
      PROVE  WellFormed(p, r)
  <2>1. PayloadIntSize("fuji", "SCAN_NETWORKS") = 0 /\ n \in 0..5
    BY DEF PayloadIntSize
  <2>2. QED
    BY <1>7, <2>1, FujiCalls, Fits, TextsHere DEF Calls
<1>8. QED
  BY <1>1, <1>2, <1>3, <1>4, <1>5, <1>6, <1>7 DEF Boots, Unmounts, CopyFile, SetHostPrefix, HashClear, FujiTime, ScanForNetworks, Slot, STRUCT

(* What is not asked alike on all machines. *)
LEMMA VariesForm ==
  ASSUME NEW p \in Computers, NEW r \in {SetDeviceFilename(p), QrEncode(p), SetSsid(p), FujiStatus(p)}
  PROVE  WellFormed(p, r)
<1>1. ASSUME p = "atari", r = Sends(With(Fuji("SET_DEVICE_FULLPATH"), "A1_A2", <<5, 50>>), Name)
      PROVE  WellFormed(p, r)
  <2>1. PayloadIntSize("fuji", "SET_DEVICE_FULLPATH") = 0 /\ 5 \in Bytes /\ 50 \in Bytes
    BY DEF PayloadIntSize, Bytes
  <2>2. QED
    BY <1>1, <2>1, FujiCalls, Fits, TextsHere DEF Calls
<1>2. ASSUME p # "atari", r = Sends(With(Fuji("SET_DEVICE_FULLPATH"), "A1_A2_A3", <<5, 3, 2>>), Name)
      PROVE  WellFormed(p, r)
  <2>1. PayloadIntSize("fuji", "SET_DEVICE_FULLPATH") = 0 /\ 5 \in Bytes /\ 3 \in Bytes /\ 2 \in Bytes
    BY DEF PayloadIntSize, Bytes
  <2>2. QED
    BY <1>2, <2>1, FujiCalls, Fits, TextsHere DEF Calls
<1>3. ASSUME p = "atari", r = With(Fuji("QRCODE_ENCODE"), "A1_A2", <<7, 18>>)
      PROVE  WellFormed(p, r)
  <2>1. PayloadIntSize("fuji", "QRCODE_ENCODE") = 0 /\ 7 \in Bytes /\ 18 \in Bytes
    BY DEF PayloadIntSize, Bytes
  <2>2. QED
    BY <1>3, <2>1, FujiCalls, Fits, TextsHere DEF Calls
<1>4. ASSUME p # "atari", r = With(Fuji("QRCODE_ENCODE"), "A1_A2_A3", <<7, 2, 1>>)
      PROVE  WellFormed(p, r)
  <2>1. PayloadIntSize("fuji", "QRCODE_ENCODE") = 0 /\ 7 \in Bytes /\ 2 \in Bytes /\ 1 \in Bytes
    BY DEF PayloadIntSize, Bytes
  <2>2. QED
    BY <1>4, <2>1, FujiCalls, Fits, TextsHere DEF Calls
<1>5. CASE r = Sends(With(Fuji("SET_SSID"), "A1", << 0 >>), Name)
  <2>1. PayloadIntSize("fuji", "SET_SSID") = 0 /\ 0 \in Bytes
    BY DEF PayloadIntSize, Bytes
  <2>2. QED
    BY <1>5, <2>1, FujiCalls, Fits, TextsHere DEF Calls
<1>6. CASE r = Sends(Fuji("SET_SSID"), Name)
  <2>1. PayloadIntSize("fuji", "SET_SSID") = 0
    BY DEF PayloadIntSize
  <2>2. QED
    BY <1>6, <2>1, FujiCalls, Fits, TextsHere DEF Calls
<1>7. CASE r = Gets(Fuji("STATUS"), 4)
  <2>1. PayloadIntSize("fuji", "STATUS") = 0
    BY DEF PayloadIntSize
  <2>2. QED
    BY <1>7, <2>1, FujiCalls, Fits, TextsHere DEF Calls
<1>8. CASE r = Gets(With(Fuji("STATUS"), "A1", << 0 >>), 4)
  <2>1. PayloadIntSize("fuji", "STATUS") = 0 /\ 0 \in Bytes
    BY DEF PayloadIntSize, Bytes
  <2>2. QED
    BY <1>8, <2>1, FujiCalls, Fits, TextsHere DEF Calls
<1>9. QED
  BY <1>1, <1>2, <1>3, <1>4, <1>5, <1>6, <1>7, <1>8 DEF SetDeviceFilename, QrEncode, SetSsid, FujiStatus, Slot

(* What only the Atari asks. *)
LEMMA AtariForm ==
  ASSUME NEW p \in Computers, NEW r \in AtariOnly
  PROVE  WellFormed(p, r)
<1>1. CASE r = Gets(Fuji("HSIO_INDEX"), 1)
  <2>1. PayloadIntSize("fuji", "HSIO_INDEX") = 0
    BY DEF PayloadIntSize
  <2>2. QED
    BY <1>1, <2>1, FujiCalls, Fits, TextsHere DEF Calls
<1>2. CASE r = With(Fuji("SET_HSIO_INDEX"), "A1_A2", <<8, 1>>)
  <2>1. PayloadIntSize("fuji", "SET_HSIO_INDEX") = 0 /\ 8 \in Bytes /\ 1 \in Bytes
    BY DEF PayloadIntSize, Bytes
  <2>2. QED
    BY <1>2, <2>1, FujiCalls, Fits, TextsHere DEF Calls
<1>3. CASE r = With(Fuji("SET_SIO_EXTERNAL_CLOCK"), "B12", <<258>>)
  <2>1. PayloadIntSize("fuji", "SET_SIO_EXTERNAL_CLOCK") = 0 /\ 258 \in Words
    BY DEF PayloadIntSize, Words
  <2>2. QED
    BY <1>3, <2>1, FujiCalls, Fits, TextsHere DEF Calls
<1>4. QED
  BY <1>1, <1>2, <1>3 DEF AtariOnly, Wide

(* The engines. *)
LEMMA EnginesForm ==
  ASSUME NEW p \in Computers, NEW r \in Base64 \cup Hashes \cup QrCodes
  PROVE  WellFormed(p, r)
<1>1. ASSUME NEW c \in {"BASE64_DECODE_COMPUTE", "BASE64_ENCODE_COMPUTE"}, r = Fuji(c)
      PROVE  WellFormed(p, r)
  <2>1. PayloadIntSize("fuji", c) = 0
    BY DEF PayloadIntSize
  <2>2. QED
    BY <1>1, <2>1, FujiCalls, Fits, TextsHere DEF Calls
<1>2. ASSUME NEW c \in {"BASE64_DECODE_INPUT", "BASE64_ENCODE_INPUT", "HASH_INPUT", "QRCODE_INPUT"}, r = Sends(With(Fuji(c), "B12", <<Len(Name)>>), Name)
      PROVE  WellFormed(p, r)
  <2>1. PayloadIntSize("fuji", c) = 0 /\ Len(Name) \in Words
    BY NameLength DEF PayloadIntSize, Words
  <2>2. QED
    BY <1>2, <2>1, FujiCalls, Fits, TextsHere DEF Calls
<1>3. ASSUME NEW c \in {"BASE64_DECODE_OUTPUT", "BASE64_ENCODE_OUTPUT", "QRCODE_OUTPUT"}, r = Gets(With(Fuji(c), "B12", << 5 >>), 5)
      PROVE  WellFormed(p, r)
  <2>1. PayloadIntSize("fuji", c) = 0 /\ 5 \in Words
    BY DEF PayloadIntSize, Words
  <2>2. QED
    BY <1>3, <2>1, FujiCalls, Fits, TextsHere DEF Calls
<1>4. ASSUME NEW c \in {"HASH_COMPUTE", "HASH_COMPUTE_NO_CLEAR"}, r = With(Fuji(c), "A1", << 3 >>)
      PROVE  WellFormed(p, r)
  <2>1. PayloadIntSize("fuji", c) = 0 /\ 3 \in Bytes
    BY DEF PayloadIntSize, Bytes
  <2>2. QED
    BY <1>4, <2>1, FujiCalls, Fits, TextsHere DEF Calls
<1>5. ASSUME NEW c \in {"HASH_OUTPUT", "HASH_LENGTH"}, NEW n \in {1, 5}, r = Gets(With(Fuji(c), "A1", << 1 >>), n)
      PROVE  WellFormed(p, r)
  <2>1. PayloadIntSize("fuji", c) = 0 /\ 1 \in Bytes /\ n \in 0..5
    BY DEF PayloadIntSize, Bytes
  <2>2. QED
    BY <1>5, <2>1, FujiCalls, Fits, TextsHere DEF Calls
<1>6. ASSUME NEW c \in {"BASE64_DECODE_LENGTH", "BASE64_ENCODE_LENGTH", "QRCODE_LENGTH"}, NEW b \in {Fuji(c), With(Fuji(c), "A1", << 1 >>)}, r = InLong(b)
      PROVE  WellFormed(p, r)
  BY <1>6, LongCalls
<1>7. QED
  BY <1>1, <1>2, <1>3, <1>4, <1>5, <1>6 DEF Base64, Hashes, QrCodes, Input, Output, STRUCT

(* A call that begins with a 16 bit value, in what is sent or in the reply,
   and the calls for an app key. *)
LEMMA AppKeysForm ==
  ASSUME NEW p \in Computers, NEW r \in AppKeys(p)
  PROVE  WellFormed(p, r)
<1>1. "NONE" \in Layouts /\ NumBytes("NONE") = 0 /\ Fit("NONE", <<>>)
  BY DEF Fit, NumBytes, NumFields, Layouts
<1>2. "fuji" \in Kinds /\ 0 \in 0..LastUnit /\ 0 \in Words /\ 4 \in Words
  BY ApiAssumption DEF ApiAssumption, Kinds, Words
<1>3. PayloadIntSize("fuji", "OPEN_APPKEY") = 2 /\ PayloadIntSize("fuji", "READ_APPKEY") = 2
  BY DEF PayloadIntSize
<1>4. 0 \in Words /\ Wide \in Words /\ 9 \in Bytes
  BY DEF Words, Bytes, Wide
<1>5. CASE r = [Sends(Fuji("OPEN_APPKEY"), <<Wide, 9>>) EXCEPT !.int = 2]
  <2>1. /\ r.op = "call" /\ r.kind = "fuji" /\ r.cmd = "OPEN_APPKEY" /\ r.unit = 0
        /\ r.layout = "NONE" /\ r.args = <<>> /\ r.data = <<Wide, 9>> /\ r.want = 0 /\ r.int = 2
    BY <1>5 DEF Sends, Fuji, Plain
  <2>2. Sent(r)
    BY <1>4, <2>1 DEF Sent
  <2>3. Passed(p, r)
    BY <1>1, <2>1 DEF Passed
  <2>4. Asked(r)
    BY <1>2, <1>3, <2>1 DEF Asked
  <2>5. QED
    BY <1>2, <2>1, <2>2, <2>3, <2>4 DEF WellFormed, Ops
<1>6. CASE r \in {Sends(With(Fuji("WRITE_APPKEY"), "B12", <<Len(Name)>>), Name), Sends(Fuji("WRITE_APPKEY"), Name)}
  <2>1. PayloadIntSize("fuji", "WRITE_APPKEY") = 0 /\ Len(Name) \in Words
    BY NameLength DEF PayloadIntSize, Words
  <2>2. QED
    BY <1>6, <2>1, FujiCalls, Fits, TextsHere DEF Calls
<1>7. ASSUME p = "c64", NEW creator \in {0, Wide},
             r = [Gets(Sends(Fuji("OPEN_APPKEY"), <<creator, 9>>), 4) EXCEPT !.op = "readkey", !.int = 2]
      PROVE  WellFormed(p, r)
  <2>1. /\ r.op = "readkey" /\ r.kind = "fuji" /\ r.cmd = "OPEN_APPKEY" /\ r.unit = 0
        /\ r.layout = "NONE" /\ r.args = <<>> /\ r.data = <<creator, 9>> /\ r.want = 4 /\ r.int = 2
    BY <1>7 DEF Gets, Sends, Fuji, Plain
  <2>2. Sent(r)
    BY <1>4, <2>1 DEF Sent
  <2>3. Passed(p, r)
    BY <1>1, <2>1 DEF Passed
  <2>4. Asked(r)
    BY <1>2, <1>3, <2>1 DEF Asked
  <2>5. Special(p, r)
    BY <1>7, <2>1 DEF Special
  <2>6. QED
    BY <1>2, <2>1, <2>2, <2>3, <2>4, <2>5 DEF WellFormed, Ops
<1>8. ASSUME p # "c64", r = [Gets(Fuji("READ_APPKEY"), 4) EXCEPT !.op = "appkey", !.int = 2]
      PROVE  WellFormed(p, r)
  <2>1. /\ r.op = "appkey" /\ r.kind = "fuji" /\ r.cmd = "READ_APPKEY" /\ r.unit = 0
        /\ r.layout = "NONE" /\ r.args = <<>> /\ r.data = <<>> /\ r.want = 4 /\ r.int = 2
    BY <1>8 DEF Gets, Sends, Fuji, Plain
  <2>2. Sent(r)
    BY <1>2, <2>1 DEF Sent
  <2>3. Passed(p, r)
    BY <1>1, <2>1 DEF Passed
  <2>4. Asked(r)
    BY <1>2, <1>3, <2>1 DEF Asked
  <2>5. Special(p, r)
    BY <1>8, <2>1 DEF Special
  <2>6. QED
    BY <1>2, <2>1, <2>2, <2>3, <2>4, <2>5 DEF WellFormed, Ops
<1>9. QED
  BY <1>5, <1>6, <1>7, <1>8 DEF AppKeys

(* The calls of fujinet-fuji.h have the form. *)
LEMMA FujiForm ==
  ASSUME NEW p \in Computers, NEW r \in FujiApi(p)
  PROVE  WellFormed(p, r)
<1>1. CASE r \in Setup
  BY <1>1, SetupForm
<1>2. CASE r \in Infos
  BY <1>2, InfosForm
<1>3. CASE r \in Mounts \cup Directories
  BY <1>3, MountsForm
<1>4. CASE r \in Boots \cup Unmounts \cup {CopyFile, SetHostPrefix, HashClear, FujiTime, ScanForNetworks(p)}
  BY <1>4, OthersForm
<1>5. CASE r \in {SetDeviceFilename(p), QrEncode(p), SetSsid(p), FujiStatus(p)}
  BY <1>5, VariesForm
<1>6. CASE r \in AtariOnly
  BY <1>6, AtariForm
<1>7. CASE r \in Base64 \cup Hashes \cup QrCodes
  BY <1>7, EnginesForm
<1>8. CASE r \in AppKeys(p)
  BY <1>8, AppKeysForm
<1>9. QED
  BY <1>1, <1>2, <1>3, <1>4, <1>5, <1>6, <1>7, <1>8 DEF FujiApi

(* The calls of fujinet-clock.h have the form. *)
LEMMA ClockForm ==
  ASSUME NEW p \in Computers, NEW r \in ClockApi(p)
  PROVE  WellFormed(p, r)
<1>1. ASSUME NEW c \in TzCommands(p), r = SetTz(p, c) PROVE WellFormed(p, r)
  <2>1. c # "OPEN_APPKEY"
    BY DEF TzCommands
  <2>2. CASE r = Sends(Clock(c), Append(Name, 0))
    BY <2>1, <2>2, ClockCalls, TextsHere DEF Calls
  <2>3. CASE r = Sends(With(Clock(c), "A1_A2", <<U16_LSB(Len(Name)), U16_MSB(Len(Name))>>), Name)
    <3>1. Len(Name) \in Words
      BY NameLength DEF Words
    <3>2. PICK l \in Bytes, m \in Bytes : l = U16_LSB(Len(Name)) /\ m = U16_MSB(Len(Name))
      BY <3>1, WordSplit
    <3>3. QED
      BY <2>1, <2>3, <3>2, ClockCalls, Fits, TextsHere DEF Calls
  <2>4. QED
    BY <1>1, <2>2, <2>3 DEF SetTz
<1>2. ASSUME NEW c \in ClkCommands(p), NEW alt \in BOOLEAN, r = GetTime(p, c, alt) PROVE WellFormed(p, r)
  <2>1. c # "OPEN_APPKEY" /\ (p = "apple2" => Lower[c] # "OPEN_APPKEY")
    BY DEF ClkCommands, Lower
  <2>2. CASE p = "apple2"
    <3>1. PICK k : k = IF alt THEN Lower[c] ELSE c
      OBVIOUS
    <3>2. r = Gets(Clock(k), STRUCT)
      BY <1>2, <2>2, <3>1 DEF GetTime
    <3>3. k # "OPEN_APPKEY" /\ STRUCT \in 0..5
      BY <2>1, <2>2, <3>1 DEF STRUCT
    <3>4. QED
      BY <3>2, <3>3, ClockCalls DEF Calls
  <2>3. CASE p # "apple2"
    <3>1. PICK a \in {0, 1} : a = IF alt THEN 1 ELSE 0
      OBVIOUS
    <3>2. r = Gets(With(Clock(c), "A1", <<a>>), STRUCT)
      BY <1>2, <2>3, <3>1 DEF GetTime
    <3>3. STRUCT \in 0..5 /\ a \in Bytes
      BY DEF STRUCT, Bytes
    <3>4. QED
      BY <2>1, <3>2, <3>3, ClockCalls, Fits DEF Calls
  <2>4. QED
    BY <2>2, <2>3
<1>3. CASE r \in {Gets(Clock("GETTZ_LEN"), 1), Gets(Clock("GET_GENERAL"), STRUCT)}
  <2>1. STRUCT \in 0..5
    BY DEF STRUCT
  <2>2. QED
    BY <1>3, <2>1, ClockCalls DEF Calls
<1>4. QED
  BY <1>1, <1>2, <1>3 DEF ClockApi

(* The calls of a network device in one packet. *)
LEMMA ChannelForm ==
  ASSUME NEW p \in Computers, NEW unit \in 1..LastUnit,
         NEW r \in {network_open(unit), network_close(unit), network_accept(unit),
                    network_close_client(unit), network_set_parser(unit),
                    network_set_translation(unit), network_set_interrupt_rate(unit),
                    network_html_parse(unit), network_set_parameter(unit),
                    network_set_username(unit), network_set_password(unit),
                    network_udp_get_remote(unit), network_tell(p, unit)}
                   \cup network_http_set_mode(unit) \cup FileSystem(unit)
  PROVE  WellFormed(p, r)
<1>1. ASSUME NEW c \in {"CLOSE", "ACCEPT", "CLOSE_CLIENT", "PARSE"}, r = Net(c, unit)
      PROVE  WellFormed(p, r)
  BY <1>1, NetCalls DEF Calls
<1>2. ASSUME NEW c, c \notin {"STATUS", "OPEN_APPKEY"}, NEW a \in Bytes, NEW b \in Bytes
      PROVE  /\ WellFormed(p, With(Net(c, unit), "A1_A2", <<a, b>>))
             /\ WellFormed(p, Sends(With(Net(c, unit), "A1_A2", <<a, b>>), Name))
  <2>1. Calls(p, Net(c, unit))
    BY <1>2, NetCalls
  <2>2. Fit("A1_A2", <<a, b>>) /\ NumBytes("A1_A2") <= 2 /\ "A1_A2" \in Layouts
    BY Fits
  <2>3. QED
    BY <2>1, <2>2, TextsHere, Zenon DEF Calls
<1>3. ASSUME NEW c \in {"GET_REMOTE", "TELL", "GETCWD"}, NEW n \in 0..5, r = Gets(Net(c, unit), n)
      PROVE  WellFormed(p, r)
  BY <1>3, NetCalls DEF Calls
<1>4. CASE r = Sends(Net("CHDIR", unit), Name)
  BY <1>4, NetCalls, TextsHere DEF Calls
<1>5. CASE r \in {network_close(unit), network_accept(unit), network_close_client(unit), network_html_parse(unit)}
  BY <1>1, <1>5 DEF network_close, network_accept, network_close_client, network_html_parse
<1>6. CASE r = network_open(unit)
  <2>1. {0, 1, 3, 4, 12, 100, 155} \subseteq Bytes
    BY DEF Bytes
  <2>2. QED
    BY <1>2, <2>1, <1>6 DEF network_open
<1>7. CASE r \in {network_set_parser(unit), network_set_translation(unit), network_set_interrupt_rate(unit)}
  <2>1. {0, 1, 3, 4, 12, 100, 155} \subseteq Bytes
    BY DEF Bytes
  <2>2. QED
    BY <1>2, <2>1, <1>7 DEF network_set_parser, network_set_translation, network_set_interrupt_rate, InBoth
<1>8. CASE r \in {network_set_parameter(unit)} \cup network_http_set_mode(unit)
  <2>1. {0, 1, 3, 4, 12, 100, 155} \subseteq Bytes
    BY DEF Bytes
  <2>2. QED
    BY <1>2, <2>1, <1>8 DEF network_set_parameter, network_http_set_mode
<1>9. CASE r \in {network_set_username(unit), network_set_password(unit)}
  <2>1. {0, 1, 3, 4, 12, 100, 155} \subseteq Bytes
    BY DEF Bytes
  <2>2. QED
    BY <1>2, <2>1, <1>9 DEF network_set_username, network_set_password, network_fs_command
<1>10. CASE r \in FileSystem(unit)
  <2>1. STRUCT \in 0..5 /\ 0 \in Bytes
    BY DEF STRUCT, Bytes
  <2>2. CASE r = Sends(Net("CHDIR", unit), Name) \/ r = Gets(Net("GETCWD", unit), STRUCT)
    BY <1>3, <1>4, <2>1, <2>2
  <2>3. ASSUME NEW c \in {"DELETE", "RENAME", "LOCK", "UNLOCK", "MKDIR", "RMDIR"},
               r = network_fs_command(c, unit)
        PROVE  WellFormed(p, r)
    BY <1>2, <2>1, <2>3 DEF network_fs_command
  <2>4. QED
    BY <1>10, <2>2, <2>3 DEF FileSystem
<1>11. CASE r \in {network_udp_get_remote(unit), network_tell(p, unit)}
  <2>1. STRUCT \in 0..5
    BY DEF STRUCT
  <2>2. QED
    BY <1>3, <1>11, <2>1 DEF network_udp_get_remote, network_tell, network_tell_common, network_tell_atari
<1>12. QED
  BY <1>5, <1>6, <1>7, <1>8, <1>9, <1>10, <1>11

(* And those that are not. *)
LEMMA StreamsForm ==
  ASSUME NEW p \in Computers, NEW unit \in 1..LastUnit,
         NEW r \in {network_status(unit), network_set_eol(unit), network_udp_set_destination(unit)}
                   \cup network_seek(unit) \cup Streams(unit)
  PROVE  WellFormed(p, r)
<1>1. "NONE" \in Layouts /\ NumBytes("NONE") = 0 /\ Fit("NONE", <<>>)
  BY DEF Fit, NumBytes, NumFields, Layouts
<1>2. "net" \in Kinds /\ unit \in 0..LastUnit /\ \A n \in {0, 1, 3, 4} : n \in Words
  BY ApiAssumption DEF ApiAssumption, Kinds, Words
<1>3. CASE r = network_status(unit)
  <2>1. /\ r.op = "call" /\ r.kind = "net" /\ r.cmd = "STATUS" /\ r.unit = unit
        /\ r.layout = "NONE" /\ r.args = <<>> /\ r.data = <<>> /\ r.want = 4 /\ r.int = 2
    BY <1>3 DEF network_status, Gets, Net, Plain
  <2>2. PayloadIntSize("net", "STATUS") = 2
    BY DEF PayloadIntSize
  <2>3. QED
    BY <1>1, <1>2, <2>1, <2>2, ShapedCall DEF Texts
<1>4. ASSUME NEW op \in {"vld", "write"}, NEW c \in {"SET_EOL", "SET_DESTINATION", "WRITE"},
             r = [Sends(Net(c, unit), Name) EXCEPT !.op = op]
      PROVE  WellFormed(p, r)
  <2>1. /\ r.op = op /\ r.kind = "net" /\ r.cmd = c /\ r.unit = unit
        /\ r.layout = "NONE" /\ r.args = <<>> /\ r.data = Name /\ r.want = 0 /\ r.int = 0
    BY <1>4 DEF Sends, Net, Plain
  <2>2. Name \in Seq(Bytes) /\ Len(Name) \in Words
    BY TextType, TextsHere, NameLength, <1>2
  <2>3. Sent(r)
    BY <2>1, <2>2 DEF Sent
  <2>4. Passed(p, r)
    BY <1>1, <2>1 DEF Passed
  <2>5. PayloadIntSize("net", c) = 0
    BY DEF PayloadIntSize
  <2>6. Asked(r)
    BY <1>2, <2>1, <2>5 DEF Asked
  <2>7. Special(p, r)
    BY <2>1 DEF Special
  <2>8. QED
    BY <1>2, <2>1, <2>3, <2>4, <2>6, <2>7 DEF WellFormed, Ops
<1>5. CASE r \in {network_set_eol(unit), network_udp_set_destination(unit)}
  BY <1>4, <1>5 DEF network_set_eol, network_udp_set_destination
<1>6. ASSUME NEW n \in {1, 3}, r = [Gets(Net("READ", unit), n) EXCEPT !.op = "read"]
      PROVE  WellFormed(p, r)
  <2>1. /\ r.op = "read" /\ r.kind = "net" /\ r.cmd = "READ" /\ r.unit = unit
        /\ r.layout = "NONE" /\ r.args = <<>> /\ r.data = <<>> /\ r.want = n /\ r.int = 0
    BY <1>6 DEF Gets, Net, Plain
  <2>2. Sent(r)
    BY <1>2, <2>1 DEF Sent
  <2>3. Passed(p, r)
    BY <1>1, <2>1 DEF Passed
  <2>4. PayloadIntSize("net", "READ") = 0
    BY DEF PayloadIntSize
  <2>5. Asked(r)
    BY <1>2, <2>1, <2>4 DEF Asked
  <2>6. Special(p, r)
    BY <2>1 DEF Special
  <2>7. QED
    BY <1>2, <2>1, <2>2, <2>3, <2>5, <2>6 DEF WellFormed, Ops
<1>7. CASE r \in Streams(unit)
  BY <1>4, <1>6, <1>7 DEF Streams
<1>8. ASSUME NEW pos \in {131844, 16909060},
             r = [Net("SEEK", unit) EXCEPT !.op = "seek", !.args = <<pos>>]
      PROVE  WellFormed(p, r)
  <2>1. /\ r.op = "seek" /\ r.kind = "net" /\ r.cmd = "SEEK" /\ r.unit = unit
        /\ r.layout = "NONE" /\ r.args = <<pos>> /\ r.data = <<>> /\ r.want = 0 /\ r.int = 0
    BY <1>8 DEF Net, Plain
  <2>2. Sent(r)
    BY <1>2, <2>1 DEF Sent
  <2>3. pos \in Longs
    <3>1. 772 + 65536 * 2 = 131844 /\ 772 + 65536 * 258 = 16909060
      OBVIOUS
    <3>2. 772 \in Words /\ 2 \in Words /\ 258 \in Words
      BY DEF Words
    <3>3. QED
      BY <3>1, <3>2 DEF Longs
  <2>4. Passed(p, r)
    BY <1>1, <2>1, <2>3 DEF Passed
  <2>5. PayloadIntSize("net", "SEEK") = 0
    BY DEF PayloadIntSize
  <2>6. Asked(r)
    BY <1>2, <2>1, <2>5 DEF Asked
  <2>7. Special(p, r)
    BY <2>1 DEF Special
  <2>8. QED
    BY <1>2, <2>1, <2>2, <2>4, <2>6, <2>7 DEF WellFormed, Ops
<1>9. CASE r \in network_seek(unit)
  BY <1>8, <1>9 DEF network_seek
<1>10. QED
  BY <1>3, <1>5, <1>7, <1>9

(* Every request of the library is of this form. *)
LEMMA RequestForm ==
  ASSUME NEW p \in Computers, NEW r \in Requests(p)
  PROVE  WellFormed(p, r)
<1>1. CASE r \in FujiApi(p)
  BY <1>1, FujiForm
<1>2. CASE r \in ClockApi(p)
  BY <1>2, ClockForm
<1>3. CASE r \in NetApi(p)
  <2>1. PICK unit \in 1..LastUnit : r \in UnitApi(p, unit)
    BY <1>3 DEF NetApi
  <2>2. QED
    BY <2>1, ChannelForm, StreamsForm DEF UnitApi
<1>4. QED
  BY <1>1, <1>2, <1>3 DEF Requests

-----------------------------------------------------------------------------
(* On the wire. *)

(* A payload is cut where its aux bytes end. *)
LEMMA CutOff ==
  ASSUME NEW S, NEW a \in Seq(S), NEW d \in Seq(S)
  PROVE  /\ a \o d \in Seq(S) /\ Len(a \o d) = Len(a) + Len(d)
         /\ \A i \in 1..Len(a) : (a \o d)[i] = a[i]
         /\ SubSeq(a \o d, Len(a) + 1, Len(a \o d)) = d
<1>1. PICK s \in Seq(S) : s = a \o d
  BY ConcatProperties
<1>2. /\ Len(s) = Len(a) + Len(d)
      /\ \A i \in 1..Len(s) : s[i] = IF i <= Len(a) THEN a[i] ELSE d[i - Len(a)]
  BY <1>1, ConcatProperties
<1>3. Len(a) \in Nat /\ Len(d) \in Nat /\ Len(s) \in Nat
  BY LenProperties
<1>4. PICK m \in Nat : m = Len(a) + 1
  BY <1>3
<1>5. PICK t : t = SubSeq(s, m, Len(s))
  OBVIOUS
<1>6. \A i \in m..Len(s) : s[i] \in S
  BY <1>3, <1>4, ElementOfSeq
<1>7. /\ t \in Seq(S) /\ Len(t) = IF m <= Len(s) THEN Len(s) - m + 1 ELSE 0
      /\ \A i \in 1..(Len(s) - m + 1) : t[i] = s[m + i - 1]
  BY <1>3, <1>5, <1>6, SubSeqProperties
<1>8. Len(t) = Len(d)
  BY <1>2, <1>3, <1>4, <1>7
<1>9. ASSUME NEW i \in 1..Len(t) PROVE t[i] = d[i]
  <2>1. i \in 1..(Len(s) - m + 1) /\ m + i - 1 = Len(a) + i
    BY <1>2, <1>3, <1>4, <1>8
  <2>2. Len(a) + i \in 1..Len(s) /\ ~(Len(a) + i <= Len(a)) /\ Len(a) + i - Len(a) = i
    BY <1>2, <1>3, <1>8
  <2>3. t[i] = s[m + i - 1]
    BY <1>7, <2>1
  <2>4. s[Len(a) + i] = d[Len(a) + i - Len(a)]
    BY <1>2, <2>2
  <2>5. QED
    BY <2>1, <2>2, <2>3, <2>4
<1>10. t = d
  BY <1>7, <1>8, <1>9, SeqEqual
<1>11. ASSUME NEW i \in 1..Len(a) PROVE s[i] = a[i]
  <2>1. i \in 1..Len(s) /\ i <= Len(a)
    BY <1>2, <1>3
  <2>2. QED
    BY <1>2, <2>1
<1>12. SubSeq(a \o d, Len(a) + 1, Len(a \o d)) = d
  BY <1>1, <1>4, <1>5, <1>10
<1>13. QED
  BY <1>1, <1>2, <1>11, <1>12

(* Padding makes a sequence of bytes as long as asked for. *)
LEMMA PadType ==
  ASSUME NEW s \in Seq(Bytes), NEW n \in Nat
  PROVE  Pad(s, n) \in Seq(Bytes) /\ Len(Pad(s, n)) = n
<1>1. \A i \in 1..n : (IF i <= Len(s) THEN s[i] ELSE 0) \in Bytes
  <2>1. \A i \in 1..n : i <= Len(s) => s[i] \in Bytes
    BY LenProperties, ElementOfSeq
  <2>2. 0 \in Bytes
    BY DEF Bytes
  <2>3. QED
    BY <2>1, <2>2
<1>2. QED
  BY <1>1 DEF Pad

(* The aux bytes a macro makes of arguments that fit. *)
LEMMA AuxType ==
  ASSUME NEW p \in Computers, NEW layout \in Layouts, NEW args, Fit(layout, args)
  PROVE  AuxBytes(p, layout, args) \in Seq(Bytes) /\ Len(AuxBytes(p, layout, args)) = NumBytes(layout)
<1>1. ASSUME NEW w \in Words
      PROVE  \E l, m \in Bytes : SplitU16(p, w) = <<l, m>>
  BY <1>1, WordSplit DEF SplitU16
<1>2. CASE layout = "B12"
  <2>1. PICK w \in Words : args = <<w>>
    BY <1>2 DEF Fit
  <2>2. PICK l \in Bytes, m \in Bytes : SplitU16(p, w) = <<l, m>>
    BY <1>1
  <2>3. AuxBytes(p, layout, args) = <<l, m>> /\ NumBytes(layout) = 2
    BY <1>2, <2>1, <2>2 DEF AuxBytes, NumBytes
  <2>4. QED
    BY <2>3
<1>3. ASSUME NEW v \in Words, NEW w \in Words, AuxBytes(p, layout, args) = SplitU16(p, v) \o SplitU16(p, w),
             NumBytes(layout) = 4
      PROVE  AuxBytes(p, layout, args) \in Seq(Bytes) /\ Len(AuxBytes(p, layout, args)) = NumBytes(layout)
  <2>1. PICK j \in Bytes, k \in Bytes : SplitU16(p, v) = <<j, k>>
    BY <1>1
  <2>2. PICK l \in Bytes, m \in Bytes : SplitU16(p, w) = <<l, m>>
    BY <1>1
  <2>3. AuxBytes(p, layout, args) = <<j, k, l, m>>
    BY <1>3, <2>1, <2>2, PairsJoined
  <2>4. QED
    BY <1>3, <2>3
<1>4. CASE layout = "B12_B34"
  <2>1. PICK v \in Words, w \in Words : args = <<v, w>>
    BY <1>4 DEF Fit
  <2>2. AuxBytes(p, layout, args) = SplitU16(p, v) \o SplitU16(p, w) /\ NumBytes(layout) = 4
    BY <1>4, <2>1 DEF AuxBytes, NumBytes
  <2>3. QED
    BY <1>3, <2>2
<1>5. CASE layout = "C1234"
  <2>1. PICK v \in Longs : args = <<v>>
    BY <1>5 DEF Fit
  <2>2. PICK l \in Words, m \in Words : l = U32_LSW(v) /\ m = U32_MSW(v)
    BY LongSplit
  <2>3. NumBytes(layout) = 4 /\ AuxBytes(p, layout, args) = SplitU32(p, v)
    BY <1>5, <2>1 DEF AuxBytes, NumBytes
  <2>4. \/ AuxBytes(p, layout, args) = SplitU16(p, l) \o SplitU16(p, m)
        \/ AuxBytes(p, layout, args) = SplitU16(p, m) \o SplitU16(p, l)
    BY <2>2, <2>3, Zenon DEF SplitU32
  <2>5. QED
    BY <1>3, <2>3, <2>4
<1>6. CASE layout \notin {"B12", "B12_B34", "C1234"}
  <2>1. args \in Seq(Bytes) /\ Len(args) = NumFields(layout) /\ AuxBytes(p, layout, args) = args
    BY <1>6 DEF Fit, AuxBytes
  <2>2. NumFields(layout) = NumBytes(layout)
    BY <1>6 DEF NumFields, NumBytes, Layouts
  <2>3. QED
    BY <2>1, <2>2
<1>7. QED
  BY <1>2, <1>4, <1>5, <1>6

(* As many aux bytes go out as the FujiNet takes off. *)
AuxTaken(p, layout, net) ==
  CASE p \in DriveWires -> WireBytes(layout, net)
    [] p = "atari" -> 2
    [] p \in {"msdos", "msx"} -> 4
    [] OTHER -> NumBytes(layout)

(* The aux bytes of a command are as many as the FujiNet takes for them. *)
LEMMA AuxLength ==
  ASSUME NEW p \in Computers, NEW net \in BOOLEAN, NEW layout \in Layouts, NEW args,
         Fit(layout, args), p = "atari" => NumBytes(layout) <= 2
  PROVE  /\ BusAux(p, layout, args, net) \in Seq(Bytes)
         /\ Len(BusAux(p, layout, args, net)) = AuxTaken(p, layout, net)
         /\ AuxTaken(p, layout, net) \in Nat
         /\ NumBytes(layout) \in Nat /\ NumBytes(layout) <= AuxTaken(p, layout, net)
<1>1. NumBytes(layout) \in 0..4
  BY DEF NumBytes
<1>2. WireBytes(layout, net) \in Nat /\ NumBytes(layout) <= WireBytes(layout, net)
  BY <1>1 DEF WireBytes
<1>3. PICK s \in Seq(Bytes) : s = AuxBytes(p, layout, args) /\ Len(s) = NumBytes(layout)
  BY AuxType
<1>4. \A n \in Nat : Pad(s, n) \in Seq(Bytes) /\ Len(Pad(s, n)) = n
  BY PadType
<1>5. AuxTaken(p, layout, net) \in Nat /\ NumBytes(layout) <= AuxTaken(p, layout, net)
  BY <1>1, <1>2 DEF AuxTaken
<1>6. CASE p \in {"atari", "msdos", "msx"}
  <2> PICK n \in Nat : n = IF p = "atari" THEN 2 ELSE 4
    OBVIOUS
  <2>1. BusAux(p, layout, args, net) = Pad(s, n)
    BY <1>3, <1>6 DEF BusAux, FixedAux
  <2>2. AuxTaken(p, layout, net) = n
    BY <1>6 DEF AuxTaken, DriveWires
  <2>3. Pad(s, n) \in Seq(Bytes) /\ Len(Pad(s, n)) = n
    BY <1>4, Zenon
  <2>4. NumBytes(layout) \in Nat
    BY <1>1
  <2>5. QED
    BY <1>5, <2>1, <2>2, <2>3, <2>4, Zenon
<1>7. CASE p = "pmd85"
  <2>1. PICK t : t = Pad(s, 4)
    OBVIOUS
  <2>2. t \in Seq(Bytes) /\ Len(t) = 4
    BY <1>4, <2>1
  <2>3. t[1] \in Bytes /\ t[2] \in Bytes /\ t[3] \in Bytes /\ t[4] \in Bytes
    <3>1. \A n \in 1..Len(t) : t[n] \in Bytes
      BY <2>2, ElementOfSeq, Zenon
    <3>2. 1 \in 1..Len(t) /\ 2 \in 1..Len(t) /\ 3 \in 1..Len(t) /\ 4 \in 1..Len(t)
      BY <2>2
    <3>3. QED
      BY <3>1, <3>2, Zenon
  <2>4. TurnRound(layout, t) \in Seq(Bytes)
    BY <2>2, <2>3 DEF TurnRound
  <2>5. PICK u \in Seq(Bytes), n \in Nat : u = TurnRound(layout, t) /\ n = WireBytes(layout, net)
    BY <1>2, <2>4
  <2>6. BusAux(p, layout, args, net) = Pad(u, n)
    BY <1>3, <1>7, <2>1, <2>5 DEF BusAux, FixedAux
  <2>7. AuxTaken(p, layout, net) = n
    BY <1>7, <2>5 DEF AuxTaken, DriveWires
  <2>8. Pad(u, n) \in Seq(Bytes) /\ Len(Pad(u, n)) = n
    BY <2>5, PadType
  <2>9. QED
    BY <1>1, <1>5, <2>6, <2>7, <2>8
<1>8. CASE p = "coco"
  <2>1. BusAux(p, layout, args, net) = Pad(s, WireBytes(layout, net))
    BY <1>3, <1>8 DEF BusAux
  <2>2. AuxTaken(p, layout, net) = WireBytes(layout, net)
    BY <1>8 DEF AuxTaken, DriveWires
  <2>3. QED
    BY <1>1, <1>2, <1>4, <1>5, <2>1, <2>2
<1>9. CASE p \in {"apple2", "c64"}
  <2>1. BusAux(p, layout, args, net) = s
    BY <1>3, <1>9 DEF BusAux
  <2>2. AuxTaken(p, layout, net) = NumBytes(layout)
    BY <1>9 DEF AuxTaken, DriveWires
  <2>3. QED
    BY <1>1, <1>3, <1>5, <2>1, <2>2
<1>10. QED
  BY <1>6, <1>7, <1>8, <1>9 DEF Computers

(* What follows the aux bytes is not taken for an argument. *)
LEMMA ArgumentsFirst ==
  ASSUME NEW p, NEW layout \in Layouts, NEW a, NEW s,
         \A i \in 1..NumBytes(layout) : s[i] = a[i]
  PROVE  Arguments(p, layout, s) = Arguments(p, layout, a)
<1>1. CASE layout = "B12"
  BY <1>1 DEF Arguments, NumBytes
<1>2. CASE layout \in {"B12_B34", "C1234"}
  <2>1. s[1] = a[1] /\ s[2] = a[2] /\ s[3] = a[3] /\ s[4] = a[4]
    BY <1>2 DEF NumBytes
  <2>2. QED
    BY <1>2, <2>1 DEF Arguments, JoinU32
<1>3. CASE layout \notin {"B12", "B12_B34", "C1234"}
  <2>1. NumFields(layout) = NumBytes(layout)
    BY <1>3 DEF NumFields, NumBytes, Layouts
  <2>2. QED
    BY <1>3, <2>1 DEF Arguments
<1>4. QED
  BY <1>1, <1>2, <1>3

-----------------------------------------------------------------------------
(* What the bus call of a request carries. *)

(* A request of the library, on a machine where the library can make it. *)
Made ==
  /\ platform \in Computers /\ WellFormed(platform, req)
  /\ ~OutOfReach

(* The command a call means as far as its machine can tell it, and all of a
   call's commands: on the C64 the network units are one. *)
Told ==
  [kind |-> Meant.kind, cmd |-> Meant.cmd, unit |-> IF UnitLost THEN 0 ELSE Meant.unit,
   args |-> Meant.args, data |-> Meant.data]

ToldAll ==
  IF ReadsKey THEN <<Told, [Told EXCEPT !.cmd = "READ_APPKEY", !.data = <<>>]>> ELSE <<Told>>

(* On the Apple II a stream is read and written in blocks. *)
InBlocks == platform = "apple2" /\ req.op \in {"read", "write"}
AtariSeek == platform = "atari" /\ req.op = "seek"

(* The bus call goes to the device the request names. *)
LEMMA CallForm ==
  ASSUME Made
  PROVE  /\ BusCall.kind = req.kind /\ BusCall.cmd = req.cmd /\ BusCall.want = req.want
         /\ platform # "c64" => BusCall.unit = req.unit
         /\ BusCall.layout \in Layouts /\ (platform = "atari" => NumBytes(BusCall.layout) <= 2)
         /\ Fit(BusCall.layout, BusCall.args)
         /\ ~InBlocks /\ ~AtariSeek => BusCall.args = Told.args
<1>1. req.op \in Ops /\ Sent(req) /\ Passed(platform, req) /\ Asked(req) /\ req.unit \in 0..LastUnit
  BY DEF Made, WellFormed
<1>2. req.op # "call" => Special(platform, req)
  BY DEF Made, WellFormed
<1>3. ASSUME NEW w \in Words
      PROVE  Fit("B12", <<w>>) /\ "B12" \in Layouts /\ NumBytes("B12") = 2
  BY <1>3, Fits
<1>4. "NONE" \in Layouts /\ NumBytes("NONE") = 0 /\ Fit("NONE", <<>>)
  BY DEF Fit, NumBytes, NumFields, Layouts
<1>5. ASSUME req.op \in {"vld", "write"} PROVE Len(req.data) \in Words
  <2>1. req.int = 0
    BY <1>2, <1>5 DEF Special
  <2>2. QED
    BY <1>1, <2>1 DEF Sent
<1>6. CASE req.op = "vld"
  <2>1. BusCall = DevcallVld /\ req.want = 0
    BY <1>2, <1>6 DEF BusCall, Special
  <2>2. CASE platform \in FixedLen
    <3>1. BusCall = Sub("B12", <<Len(req.data)>>, req.data, 0)
      BY <2>1, <2>2 DEF DevcallVld
    <3>2. Told.args = <<Len(req.data)>>
      BY <1>6, <2>2 DEF Told, Meant, UnitLost
    <3>3. QED
      BY <1>3, <1>5, <1>6, <2>1, <3>1, <3>2 DEF Sub
  <2>3. CASE platform \notin FixedLen
    <3>1. BusCall = Sub("NONE", <<>>, req.data, 0)
      BY <2>1, <2>3 DEF DevcallVld
    <3>2. Told.args = <<>>
      BY <1>6, <2>3 DEF Told, Meant, UnitLost
    <3>3. QED
      BY <1>4, <2>1, <3>1, <3>2 DEF Sub
  <2>4. QED
    BY <2>2, <2>3
<1>7. CASE req.op = "seek"
  <2>1. BusCall = NetworkSeek /\ req.want = 0
    BY <1>2, <1>7 DEF BusCall, Special
  <2>2. CASE platform = "atari"
    BY <1>4, <1>7, <2>1, <2>2 DEF NetworkSeek, NetworkSeekAtari, Sub, AtariSeek
  <2>3. CASE platform # "atari"
    <3>1. BusCall = Sub("C1234", req.args, <<>>, 0)
      BY <2>1, <2>3 DEF NetworkSeek
    <3>2. Fit("C1234", req.args) /\ "C1234" \in Layouts
      BY <1>1, <1>7 DEF Passed, Fit, Layouts
    <3>3. Told.args = req.args
      BY <1>7 DEF Told, Meant, UnitLost
    <3>4. QED
      BY <2>1, <2>3, <3>1, <3>2, <3>3 DEF Sub
  <2>4. QED
    BY <2>2, <2>3
<1>8. ASSUME NEW sub, platform = "c64", req.op \in {"read", "write"}
      PROVE  C64Unit(sub) = [sub EXCEPT !.unit = req.unit + 1]
  <2>1. req.unit # LastUnit
    BY <1>8 DEF Made, OutOfReach
  <2>2. req.unit < LastUnit
    BY <1>1, <2>1, ApiAssumption DEF ApiAssumption
  <2>3. QED
    BY <1>8, <2>2 DEF C64Unit
<1>9. CASE req.op = "read"
  <2>1. PICK sub : sub = Sub("B12", <<req.want>>, <<>>, req.want)
    OBVIOUS
  <2>2. BusCall = C64Unit(sub)
    BY <1>9, <2>1 DEF BusCall, NetworkBusRead
  <2>3. /\ BusCall.kind = sub.kind /\ BusCall.cmd = sub.cmd /\ BusCall.want = sub.want
        /\ platform # "c64" => BusCall.unit = sub.unit
        /\ BusCall.layout = sub.layout /\ BusCall.args = sub.args
    <3>1. CASE platform = "c64"
      <4>1. BusCall = [sub EXCEPT !.unit = req.unit + 1]
        BY <1>8, <1>9, <2>2, <3>1
      <4>2. QED
        BY <2>1, <3>1, <4>1 DEF Sub
    <3>2. CASE platform # "c64"
      BY <2>2, <3>2 DEF C64Unit
    <3>3. QED
      BY <3>1, <3>2
  <2>4. req.want \in Words
    BY <1>1 DEF Asked
  <2>5. ~InBlocks => Told.args = <<req.want>>
    BY <1>9 DEF Told, Meant, UnitLost, InBlock, InBlocks
  <2>6. QED
    BY <1>3, <2>1, <2>3, <2>4, <2>5 DEF Sub
<1>10. CASE req.op = "write"
  <2>1. req.want = 0
    BY <1>2, <1>10 DEF Special
  <2>2. CASE platform = "c64"
    <3>1. PICK sub : sub = Sub("NONE", <<>>, req.data, 0)
      OBVIOUS
    <3>2. BusCall = [sub EXCEPT !.unit = req.unit + 1]
      BY <1>8, <1>10, <2>2, <3>1 DEF BusCall, NetworkBusWrite
    <3>3. /\ BusCall.kind = sub.kind /\ BusCall.cmd = sub.cmd /\ BusCall.want = sub.want
          /\ BusCall.layout = sub.layout /\ BusCall.args = sub.args
      BY <3>1, <3>2 DEF Sub
    <3>4. Told.args = <<>>
      BY <1>10, <2>2 DEF Told, Meant, UnitLost
    <3>5. QED
      BY <1>4, <2>1, <2>2, <3>1, <3>3, <3>4 DEF Sub
  <2>3. CASE platform # "c64"
    <3>1. BusCall = Sub("B12", <<Len(req.data)>>, req.data, 0)
      BY <1>10, <2>3 DEF BusCall, NetworkBusWrite
    <3>2. ~InBlocks => Told.args = <<Len(req.data)>>
      BY <1>10, <2>3 DEF Told, Meant, UnitLost, InBlock, InBlocks
    <3>3. QED
      BY <1>3, <1>5, <1>10, <2>1, <3>1, <3>2 DEF Sub
  <2>4. QED
    BY <2>2, <2>3
<1>11. CASE req.op \in {"call", "readkey", "appkey"}
  <2>1. BusCall = Sub(req.layout, req.args, NativeBlock, req.want)
    BY <1>11 DEF BusCall
  <2>2. Told.args = req.args
    BY <1>11 DEF Told, Meant, UnitLost
  <2>3. Fit(req.layout, req.args) /\ req.layout \in Layouts /\ (platform = "atari" => NumBytes(req.layout) <= 2)
    BY <1>1, <1>11 DEF Passed
  <2>4. QED
    BY <2>1, <2>2, <2>3 DEF Sub
<1>12. QED
  BY <1>1, <1>6, <1>7, <1>9, <1>10, <1>11 DEF Ops

(* A block in the order of the bus, turned by the FujiNet into the order of
   the application's numbers. *)
Unturned(d) ==
  IF req.int = 2 /\ Len(d) >= 2
  THEN <<JoinU16(platform, d[1], d[2])>> \o SubSeq(d, 3, Len(d))
  ELSE d

(* Data without an integer in it is sent as it is. *)
LEMMA SwapNothing ==
  ASSUME NEW p, NEW d \in Seq(Bytes), NEW n \in {0, 2, 4}, n = 0 \/ d = <<>>
  PROVE  Swap(p, d, n) = d
<1>1. CASE d = <<>>
  BY <1>1 DEF Swap
<1>2. CASE n = 0
  <2>1. Swap(p, d, n) = d \/ Swap(p, d, n) = [i \in DOMAIN d |-> d[IF i <= 0 THEN 0 + 1 - i ELSE i]]
    BY <1>2 DEF Swap
  <2>2. \A i \in DOMAIN d : ~(i <= 0)
    BY LenProperties
  <2>3. [i \in DOMAIN d |-> d[IF i <= 0 THEN 0 + 1 - i ELSE i]] = [i \in DOMAIN d |-> d[i]]
    BY <2>2
  <2>4. QED
    BY <2>1, <2>3, LenProperties
<1>3. QED
  BY <1>1, <1>2

(* One element after another. *)
LEMMA Joined ==
  ASSUME NEW S, NEW e \in S, NEW f \in S, NEW g \in S
  PROVE  <<e>> \o <<f>> = <<e, f>> /\ <<e, f>> \o <<g>> = <<e, f, g>>
<1>1. ASSUME NEW s \in Seq(S), NEW t \in Seq(S), NEW u \in Seq(S), Len(u) = Len(s) + Len(t),
             \A i \in 1..Len(u) : u[i] = IF i <= Len(s) THEN s[i] ELSE t[i - Len(s)]
      PROVE  s \o t = u
  <2>1. PICK c \in Seq(S) : c = s \o t
    BY ConcatProperties
  <2>2. Len(c) = Len(s) + Len(t) /\ \A i \in 1..(Len(s) + Len(t)) : c[i] = IF i <= Len(s) THEN s[i] ELSE t[i - Len(s)]
    BY <2>1, ConcatProperties
  <2>3. c = u
    BY <1>1, <2>2, SeqEqual
  <2>4. QED
    BY <2>1, <2>3
<1>2. /\ <<e>> \in Seq(S) /\ <<f>> \in Seq(S) /\ <<g>> \in Seq(S) /\ <<e, f>> \in Seq(S)
      /\ <<e, f, g>> \in Seq(S)
  OBVIOUS
<1>4. <<e>> \o <<f>> = <<e, f>>
  <2>1. PICK s \in Seq(S), t \in Seq(S), u \in Seq(S) : s = <<e>> /\ t = <<f>> /\ u = <<e, f>>
    BY <1>2
  <2>2. /\ Len(s) = 1 /\ Len(t) = 1 /\ Len(u) = 2
        /\ s[1] = e /\ t[1] = f /\ u[1] = e /\ u[2] = f
    BY <2>1
  <2>3. Len(u) = Len(s) + Len(t) /\ \A i \in 1..Len(u) : u[i] = IF i <= Len(s) THEN s[i] ELSE t[i - Len(s)]
    BY <2>2
  <2>4. QED
    BY <1>1, <2>1, <2>3
<1>5. <<e, f>> \o <<g>> = <<e, f, g>>
  <2>1. PICK s \in Seq(S), t \in Seq(S), u \in Seq(S) : s = <<e, f>> /\ t = <<g>> /\ u = <<e, f, g>>
    BY <1>2
  <2>2. /\ Len(s) = 2 /\ Len(t) = 1 /\ Len(u) = 3
        /\ s[1] = e /\ s[2] = f /\ t[1] = g /\ u[1] = e /\ u[2] = f /\ u[3] = g
    BY <2>1
  <2>3. Len(u) = Len(s) + Len(t) /\ \A i \in 1..Len(u) : u[i] = IF i <= Len(s) THEN s[i] ELSE t[i - Len(s)]
    BY <2>2
  <2>4. QED
    BY <1>1, <2>1, <2>3
<1>6. QED
  BY <1>4, <1>5

(* A 16 bit value and a byte, as they go over the bus. *)
LEMMA BlockTurned ==
  ASSUME NEW p \in Computers, NEW w \in Words, NEW b \in Bytes, NEW d,
         d = Swap(p, SplitU16(p, w) \o <<b>>, 2)
  PROVE  \E k, l \in Bytes : d = <<k, l, b>> /\ JoinU16(p, k, l) = w
<1>1. PICK l \in Bytes, m \in Bytes : l = U16_LSB(w) /\ m = U16_MSB(w)
  BY WordSplit
<1>2. \A j, k \in Bytes : <<j, k>> \o <<b>> = <<j, k, b>>
  BY Joined
<1>3. CASE p = "coco"
  <2>1. SplitU16(p, w) \o <<b>> = <<m, l, b>>
    BY <1>1, <1>2, <1>3 DEF SplitU16
  <2>2. d = <<m, l, b>>
    BY <1>3, <2>1 DEF Swap
  <2>3. QED
    BY <1>1, <1>3, <2>2, WordJoined DEF DriveWires
<1>4. CASE p # "coco"
  <2>1. SplitU16(p, w) \o <<b>> = <<l, m, b>>
    BY <1>1, <1>2, <1>4 DEF SplitU16
  <2>2. CASE p = "pmd85"
    <3>1. PICK s : s = <<l, m, b>>
      OBVIOUS
    <3>2. Len(s) = 3 /\ DOMAIN s = 1..3 /\ s[1] = l /\ s[2] = m /\ s[3] = b
      BY <3>1
    <3>3. d = [i \in 1..3 |-> s[IF i <= 2 THEN 2 + 1 - i ELSE i]]
      <4>1. d = Swap(p, s, 2)
        BY <2>1, <3>1, Zenon
      <4>2. Len(s) >= 2
        BY <3>2
      <4>3. QED
        BY <2>2, <3>2, <4>1, <4>2 DEF Swap
    <3>4. d = <<m, l, b>>
      BY <3>2, <3>3
    <3>5. QED
      BY <1>1, <2>2, <3>4, WordJoined DEF DriveWires
  <2>3. CASE p # "pmd85"
    <3>1. d = <<l, m, b>>
      BY <2>1, <2>3 DEF Swap
    <3>2. p \notin DriveWires
      BY <1>4, <2>3 DEF DriveWires
    <3>3. QED
      BY <1>1, <3>1, <3>2, WordJoined
  <2>4. QED
    BY <2>2, <2>3
<1>5. QED
  BY <1>3, <1>4

(* The data of the call are those of the request; a seek's are a position. *)
LEMMA DataForm ==
  ASSUME Made
  PROVE  /\ BusData(BusCall) \in Seq(Bytes)
         /\ ~AtariSeek => Unturned(BusData(BusCall)) = req.data
         /\ req.data = <<>> /\ ~AtariSeek => BusData(BusCall) = <<>>
<1>1. /\ req.op \in Ops /\ Sent(req) /\ Passed(platform, req) /\ Asked(req)
      /\ req.op # "call" => Special(platform, req)
  BY DEF Made, WellFormed
<1>2. BusData(BusCall) = Swap(platform, BusCall.data, req.int) /\ req.int \in {0, 2, 4}
  BY <1>1, CallForm DEF BusData, Asked
<1>3. CASE req.op \notin {"call", "readkey", "appkey"}
  <2>1. req.int = 0
    BY <1>1, <1>3 DEF Ops, Special
  <2>2. req.data \in Seq(Bytes)
    BY <1>1, <2>1 DEF Sent
  <2>3. ~AtariSeek => BusCall.data = req.data
    <3>1. req.op = "seek" => req.data = <<>>
      BY <1>1 DEF Special
    <3>2. req.op = "read" => req.data = <<>>
      BY <1>1 DEF Special
    <3>3. CASE req.op = "vld"
      BY <3>3 DEF BusCall, DevcallVld, Sub
    <3>4. CASE req.op = "seek"
      BY <3>1, <3>4 DEF BusCall, NetworkSeek, Sub, AtariSeek
    <3>5. \A sub : sub.data = req.data /\ DOMAIN sub = DOMAIN Sub("NONE", <<>>, <<>>, 0) => C64Unit(sub).data = req.data
      BY DEF C64Unit, Sub
    <3>6. CASE req.op = "read"
      BY <3>2, <3>5, <3>6 DEF BusCall, NetworkBusRead, Sub
    <3>7. CASE req.op = "write"
      BY <3>5, <3>7 DEF BusCall, NetworkBusWrite, Sub
    <3>8. QED
      BY <1>1, <1>3, <3>3, <3>4, <3>6, <3>7 DEF Ops
  <2>4. AtariSeek => BusCall.data \in Seq(Bytes)
    <3>1. ASSUME AtariSeek
          PROVE  BusCall.data \in Seq(Bytes)
      <4>1. BusCall.data = <<U16_LSB(req.args[1]), U16_MSB(req.args[1]), U16_LSB(U32_MSW(req.args[1]))>>
        BY <3>1 DEF BusCall, NetworkSeek, NetworkSeekAtari, Sub, AtariSeek
      <4>2. PICK v \in Longs : req.args = <<v>>
        BY <1>1, <3>1 DEF Passed, AtariSeek
      <4>3. v \in Nat
        BY <4>2, LongSplit, WordType DEF Longs
      <4>4. U16_LSB(v) \in Bytes /\ U16_MSB(v) \in Bytes
        BY <4>3, SMT DEF U16_LSB, U16_MSB, Bytes
      <4>5. U16_LSB(U32_MSW(v)) \in Bytes
        BY <4>2, LongSplit, WordSplit
      <4>6. QED
        BY <4>1, <4>2, <4>4, <4>5
    <3>2. QED
      BY <3>1
  <2>5. BusCall.data \in Seq(Bytes)
    BY <2>2, <2>3, <2>4
  <2>6. BusData(BusCall) = BusCall.data
    BY <1>2, <2>1, <2>5, SwapNothing
  <2>7. QED
    BY <2>1, <2>3, <2>5, <2>6 DEF Unturned
<1>4. CASE req.op \in {"call", "readkey", "appkey"}
  <2>1. BusCall.data = NativeBlock /\ ~AtariSeek
    BY <1>4 DEF BusCall, Sub, AtariSeek
  <2>2. CASE req.data \in Seq(Bytes) /\ (req.data # <<>> => req.int = 0)
    <3>1. NativeBlock = req.data
      BY <2>2 DEF NativeBlock
    <3>2. BusData(BusCall) = req.data
      BY <1>2, <2>1, <2>2, <3>1, SwapNothing
    <3>3. QED
      BY <2>2, <3>2 DEF Unturned
  <2>3. ASSUME req.int = 2, NEW w \in Words, NEW b \in Bytes, req.data = <<w, b>>
        PROVE  BusData(BusCall) \in Seq(Bytes) /\ Unturned(BusData(BusCall)) = req.data
    <3>1. NativeBlock = SplitU16(platform, w) \o <<b>>
      BY <2>3 DEF NativeBlock
    <3>2. PICK d : d = BusData(BusCall)
      OBVIOUS
    <3>3. PICK k \in Bytes, l \in Bytes : d = <<k, l, b>> /\ JoinU16(platform, k, l) = w
      <4>1. d = Swap(platform, SplitU16(platform, w) \o <<b>>, 2) /\ platform \in Computers
        BY <1>2, <2>1, <2>3, <3>1, <3>2 DEF Made
      <4>2. QED
        BY <2>3, <4>1, BlockTurned
    <3>4. Len(d) = 3 /\ d[1] = k /\ d[2] = l /\ d \in Seq(Bytes)
      BY <2>3, <3>3
    <3>5. SubSeq(d, 3, 3) = <<b>>
      <4>1. <<k, l>> \in Seq(Bytes) /\ <<b>> \in Seq(Bytes)
        BY <2>3, <3>3
      <4>2. <<k, l>> \o <<b>> = d
        BY <2>3, <3>3, Joined
      <4>3. SubSeq(<<k, l>> \o <<b>>, Len(<<k, l>>) + 1, Len(<<k, l>> \o <<b>>)) = <<b>>
        BY <4>1, CutOff
      <4>4. Len(<<k, l>>) + 1 = 3
        OBVIOUS
      <4>5. QED
        BY <3>4, <4>2, <4>3, <4>4, Zenon
    <3>6. Unturned(d) = <<w>> \o <<b>>
      BY <2>3, <3>3, <3>4, <3>5 DEF Unturned
    <3>7. <<w>> \o <<b>> = <<w, b>>
      <4>1. w \in Nat /\ b \in Nat
        BY <2>3, WordType DEF Bytes
      <4>2. QED
        BY <4>1, Joined, Zenon
    <3>8. QED
      BY <2>3, <3>2, <3>4, <3>6, <3>7
  <2>4. QED
    BY <1>1, <2>1, <2>2, <2>3 DEF Sent
<1>5. QED
  BY <1>3, <1>4

(* The FujiNet takes a packet apart where it was put together. *)
LEMMA Unpacked ==
  ASSUME BusCall.layout \in Layouts, platform \in Computers, ~AtariSeek,
         NEW packet, packet.aux \in Seq(Bytes), packet.data \in Seq(Bytes),
         Len(packet.aux) = AuxTaken(platform, BusCall.layout, ToNet(BusCall)),
         NumBytes(BusCall.layout) \in Nat, NumBytes(BusCall.layout) <= Len(packet.aux)
  PROVE  Understood(packet) =
           [kind |-> packet.kind, cmd |-> packet.cmd, unit |-> packet.unit,
            args |-> Arguments(platform, BusCall.layout, packet.aux), data |-> Unturned(packet.data)]
<1>1. PICK a \in Seq(Bytes), d \in Seq(Bytes) : a = packet.aux /\ d = packet.data
  OBVIOUS
<1>2. PICK k \in Nat, n \in Nat : k = Len(a) /\ n = Len(d)
  BY LenProperties
<1>3. AuxCount(BusCall) = k
  BY <1>1, <1>2, Zenon DEF AuxCount, AuxTaken
<1>4. PICK s : s = a \o d
  OBVIOUS
<1>5. Len(s) = k + n /\ SubSeq(s, k + 1, Len(s)) = d /\ \A i \in 1..k : s[i] = a[i]
  BY <1>2, <1>4, CutOff, Zenon
<1>6. \A i \in 1..NumBytes(BusCall.layout) : s[i] = a[i]
  <2>1. \A i \in 1..NumBytes(BusCall.layout) : i \in 1..k
    BY <1>1, <1>2
  <2>2. QED
    BY <1>5, <2>1
<1>7. Arguments(platform, BusCall.layout, s) = Arguments(platform, BusCall.layout, a)
  BY <1>6, ArgumentsFirst
<1>8. ~(Len(s) < k)
  BY <1>2, <1>5
<1>9. Understood(packet) =
        [kind |-> packet.kind, cmd |-> packet.cmd, unit |-> packet.unit,
         args |-> Arguments(platform, BusCall.layout, s), data |-> Unturned(d)]
  <2>1. ~(req.op = "seek" /\ platform = "atari")
    BY DEF AtariSeek
  <2>2. PICK args : args = Arguments(platform, BusCall.layout, s)
    OBVIOUS
  <2>3. packet.aux \o packet.data = s /\ SubSeq(s, AuxCount(BusCall) + 1, Len(s)) = d
    BY <1>1, <1>3, <1>4, <1>5
  <2>4. ~(Len(s) < AuxCount(BusCall))
    BY <1>3, <1>8
  <2> DEFINE payload == packet.aux \o packet.data
             data == SubSeq(payload, AuxCount(BusCall) + 1, Len(payload))
             position == req.op = "seek" /\ platform = "atari" /\ Len(data) = 3
             taken == IF Len(payload) < AuxCount(BusCall) THEN <<>>
                      ELSE IF position
                      THEN <<data[1] + 256 * data[2] + 65536 * data[3]>>
                      ELSE Arguments(platform, BusCall.layout, payload)
             left == IF position THEN <<>>
                     ELSE IF req.int = 2 /\ Len(data) >= 2
                     THEN <<JoinU16(platform, data[1], data[2])>> \o SubSeq(data, 3, Len(data))
                     ELSE data
  <2>5. Understood(packet) =
          [kind |-> packet.kind, cmd |-> packet.cmd, unit |-> packet.unit, args |-> taken, data |-> left]
    BY SMT DEF Understood
  <2>6. payload = s /\ data = d
    BY <2>3, Zenon
  <2>7. ~position
    BY <2>1, Zenon
  <2> HIDE DEF payload, data, position
  <2>8. taken = args
    BY <2>2, <2>4, <2>6, <2>7, SMT
  <2>9. left = Unturned(d)
    BY <2>6, <2>7, Zenon DEF Unturned
  <2> HIDE DEF taken, left
  <2>10. QED
    BY <2>2, <2>5, <2>8, <2>9, Zenon
<1>10. QED
  BY <1>1, <1>7, <1>9, Zenon

(* The packet of a call is the command the call means. *)
LEMMA Carried ==
  ASSUME Made, ~InBlocks, ~AtariSeek
  PROVE  Understood(Packet(BusCall)) = Told
<1>1. /\ BusCall.kind = req.kind /\ BusCall.cmd = req.cmd /\ BusCall.want = req.want
      /\ platform # "c64" => BusCall.unit = req.unit
      /\ BusCall.layout \in Layouts /\ (platform = "atari" => NumBytes(BusCall.layout) <= 2)
      /\ Fit(BusCall.layout, BusCall.args) /\ BusCall.args = Told.args
  BY CallForm
<1>2. BusData(BusCall) \in Seq(Bytes) /\ Unturned(BusData(BusCall)) = req.data
  BY DataForm
<1>3. PICK packet : packet = Packet(BusCall)
  OBVIOUS
<1>4. /\ packet.kind = BusCall.kind /\ packet.cmd = BusCall.cmd
      /\ packet.unit = IF ToNet(BusCall) /\ platform # "c64" THEN BusCall.unit ELSE 0
      /\ packet.aux = BusAux(platform, BusCall.layout, BusCall.args, ToNet(BusCall))
      /\ packet.data = BusData(BusCall)
  BY <1>3 DEF Packet
<1>5. platform \in Computers /\ ToNet(BusCall) \in BOOLEAN
  BY DEF Made, ToNet
<1>6. /\ packet.aux \in Seq(Bytes)
      /\ Len(packet.aux) = AuxTaken(platform, BusCall.layout, ToNet(BusCall))
      /\ NumBytes(BusCall.layout) \in Nat /\ NumBytes(BusCall.layout) <= Len(packet.aux)
  BY <1>1, <1>4, <1>5, AuxLength
<1>7. Arguments(platform, BusCall.layout, packet.aux) = Told.args
  BY <1>1, <1>4, <1>5, ArgumentsRoundTrip
<1>8. Understood(packet) =
        [kind |-> packet.kind, cmd |-> packet.cmd, unit |-> packet.unit,
         args |-> Told.args, data |-> req.data]
  BY <1>1, <1>2, <1>4, <1>5, <1>6, <1>7, Unpacked
<1>9. packet.unit = IF req.kind = "net" /\ platform # "c64" THEN req.unit ELSE 0
  BY <1>1, <1>4 DEF ToNet
<1>10. Told = [kind |-> req.kind, cmd |-> req.cmd,
                unit |-> IF req.kind = "net" /\ platform # "c64" THEN req.unit ELSE 0,
                args |-> Told.args, data |-> req.data]
  BY DEF Told, Meant, UnitLost, InBlocks
<1>11. QED
  BY <1>1, <1>3, <1>4, <1>8, <1>9, <1>10

(* A position of 24 bits is its three bytes. *)
LEMMA PositionSplit ==
  ASSUME NEW v \in Longs, v < 2^24
  PROVE  /\ U16_LSB(v) \in Bytes /\ U16_MSB(v) \in Bytes /\ U16_LSB(U32_MSW(v)) \in Bytes
         /\ U16_LSB(v) + 256 * U16_MSB(v) + 65536 * U16_LSB(U32_MSW(v)) = v
<1>1. PICK l \in Words, m \in Words : l = U32_LSW(v) /\ m = U32_MSW(v) /\ v = l + 65536 * m
  BY LongSplit
<1>2. l \in Nat /\ m \in Nat /\ l < 65536
  BY <1>1, WordType
<1>3. 2^24 = 16777216
  OBVIOUS
<1>4. m < 256
  BY <1>1, <1>2, <1>3
<1>5. U16_LSB(m) = m
  BY <1>2, <1>4 DEF U16_LSB
<1>6. v % 256 = l % 256
  <2>1. v = 256 * (256 * m) + l
    BY <1>1, <1>2
  <2>2. \A k \in Nat : (256 * k + l) % 256 = l % 256
    BY <1>2
  <2>3. QED
    BY <1>2, <2>1, <2>2
<1>7. (v \div 256) % 256 = (l \div 256) % 256
  <2>1. PICK h \in Nat, r \in 0..255 : h = l \div 256 /\ l = 256 * h + r
    <3>1. l \div 256 \in Nat /\ (l % 256) \in 0..255 /\ l = 256 * (l \div 256) + (l % 256)
      BY <1>2
    <3>2. QED
      BY <3>1
  <2>2. v = 256 * (256 * m + h) + r
    BY <1>1, <1>2, <2>1
  <2>3. \A q \in Nat : (256 * q + r) \div 256 = q
    BY <2>1
  <2>4. PICK q \in Nat : q = 256 * m + h
    BY <1>2, <2>1
  <2>5. v \div 256 = q
    BY <2>2, <2>3, <2>4
  <2>6. q % 256 = h % 256
    BY <1>2, <2>1, <2>4
  <2>7. QED
    BY <2>1, <2>5, <2>6
<1>8. U16_LSB(v) = U16_LSB(l) /\ U16_MSB(v) = U16_MSB(l)
  BY <1>6, <1>7 DEF U16_LSB, U16_MSB
<1>9. U16_LSB(l) \in Bytes /\ U16_MSB(l) \in Bytes /\ U16_LSB(l) + 256 * U16_MSB(l) = l
  BY <1>1, WordSplit
<1>10. m \in Bytes
  BY <1>2, <1>4 DEF Bytes
<1>11. U16_LSB(v) + 256 * U16_MSB(v) + 65536 * U16_LSB(m) = v
  BY <1>1, <1>5, <1>8, <1>9
<1>12. QED
  BY <1>1, <1>5, <1>8, <1>9, <1>10, <1>11

(* A position below 2^24 arrives in the three data bytes of the Atari. *)
LEMMA SeekCarried ==
  ASSUME Made, AtariSeek
  PROVE  Understood(Packet(BusCall)) = Told
<1>1. /\ platform = "atari" /\ req.op = "seek" /\ platform \in Computers
      /\ Passed(platform, req) /\ Special(platform, req)
  BY DEF Made, WellFormed, AtariSeek
<1>2. PICK v \in Longs : req.args = <<v>>
  BY <1>1 DEF Passed
<1>3. v < 2^24
  <2>1. ~(v >= 2^24)
    BY <1>1, <1>2 DEF Made, OutOfReach
  <2>2. v \in Nat
    BY <1>2, LongSplit, WordType DEF Longs
  <2>3. 2^24 = 16777216
    OBVIOUS
  <2>4. QED
    BY <2>1, <2>2, <2>3
<1>4. PICK e \in Bytes, f \in Bytes, g \in Bytes :
        /\ e = U16_LSB(v) /\ f = U16_MSB(v) /\ g = U16_LSB(U32_MSW(v))
        /\ e + 256 * f + 65536 * g = v
  BY <1>2, <1>3, PositionSplit
<1>5. BusCall = Sub("NONE", <<>>, <<e, f, g>>, 0)
  BY <1>1, <1>2, <1>4 DEF BusCall, NetworkSeek, NetworkSeekAtari
<1>6. req.kind = "net" /\ req.int = 0 /\ req.data = <<>>
  BY <1>1 DEF Special
<1>7. /\ BusCall.kind = "net" /\ BusCall.cmd = req.cmd /\ BusCall.unit = req.unit
      /\ BusCall.layout = "NONE" /\ BusCall.args = <<>> /\ BusCall.data = <<e, f, g>>
  BY <1>5, <1>6 DEF Sub
<1>8. PICK a \in Seq(Bytes) : a = BusAux(platform, BusCall.layout, BusCall.args, ToNet(BusCall)) /\ Len(a) = 2
  <2>1. /\ Fit(BusCall.layout, BusCall.args) /\ BusCall.layout \in Layouts
        /\ platform = "atari" => NumBytes(BusCall.layout) <= 2
    BY CallForm
  <2>2. AuxTaken(platform, BusCall.layout, ToNet(BusCall)) = 2 /\ ToNet(BusCall) \in BOOLEAN
    BY <1>1 DEF AuxTaken, DriveWires, ToNet
  <2>3. QED
    BY <1>1, <2>1, <2>2, AuxLength
<1>9. PICK d \in Seq(Bytes) : d = <<e, f, g>> /\ Len(d) = 3 /\ d[1] = e /\ d[2] = f /\ d[3] = g
  <2>1. PICK d : d = <<e, f, g>>
    OBVIOUS
  <2>2. d \in Seq(Bytes) /\ Len(d) = 3 /\ d[1] = e /\ d[2] = f /\ d[3] = g
    BY <1>4, <2>1
  <2>3. QED
    BY <2>1, <2>2
<1>10. BusData(BusCall) = d
  BY <1>1, <1>7, <1>9 DEF BusData, Swap
<1>11. PICK packet : packet = Packet(BusCall)
  OBVIOUS
<1>12. /\ packet.kind = "net" /\ packet.cmd = req.cmd /\ packet.unit = req.unit
       /\ packet.aux = a /\ packet.data = d
  BY <1>1, <1>7, <1>8, <1>10, <1>11 DEF Packet, ToNet
<1>13. AuxCount(BusCall) = 2
  BY <1>1 DEF AuxCount, DriveWires
<1>14. Len(a \o d) = 5 /\ SubSeq(a \o d, 2 + 1, Len(a \o d)) = d
  <2>1. Len(a \o d) = Len(a) + Len(d) /\ SubSeq(a \o d, Len(a) + 1, Len(a \o d)) = d
    BY CutOff
  <2>2. Len(a) + Len(d) = 5
    BY <1>8, <1>9
  <2>3. QED
    BY <1>8, <2>1, <2>2, Zenon
<1>15. Understood(packet) =
         [kind |-> "net", cmd |-> req.cmd, unit |-> req.unit,
          args |-> <<e + 256 * f + 65536 * g>>, data |-> <<>>]
  <2>1. PICK s, n : s = a \o d /\ n = 2
    OBVIOUS
  <2>2. SubSeq(s, n + 1, Len(s)) = d
    BY <1>14, <2>1, Zenon
  <2>3. ~(Len(s) < n)
    BY <1>14, <2>1
  <2>4. packet.aux \o packet.data = s /\ AuxCount(BusCall) = n
    BY <1>12, <1>13, <2>1, Zenon
  <2> DEFINE payload == packet.aux \o packet.data
             data == SubSeq(payload, AuxCount(BusCall) + 1, Len(payload))
             position == req.op = "seek" /\ platform = "atari" /\ Len(data) = 3
             taken == IF Len(payload) < AuxCount(BusCall) THEN <<>>
                      ELSE IF position
                      THEN <<data[1] + 256 * data[2] + 65536 * data[3]>>
                      ELSE Arguments(platform, BusCall.layout, payload)
             left == IF position THEN <<>>
                     ELSE IF req.int = 2 /\ Len(data) >= 2
                     THEN <<JoinU16(platform, data[1], data[2])>> \o SubSeq(data, 3, Len(data))
                     ELSE data
  <2>5. Understood(packet) =
          [kind |-> packet.kind, cmd |-> packet.cmd, unit |-> packet.unit, args |-> taken, data |-> left]
    BY SMT DEF Understood
  <2>6. payload = s /\ data = d
    BY <2>2, <2>4, Zenon
  <2>7. position
    BY <1>1, <1>9, <2>6, Zenon
  <2>8. ~(Len(payload) < AuxCount(BusCall))
    BY <2>3, <2>4, <2>6, Zenon
  <2> HIDE DEF payload, data, position
  <2>9. taken = <<data[1] + 256 * data[2] + 65536 * data[3]>> /\ left = <<>>
    BY <2>7, <2>8, SMT
  <2>10. data[1] = e /\ data[2] = f /\ data[3] = g
    BY <1>9, <2>6
  <2>11. taken = <<e + 256 * f + 65536 * g>>
    BY <2>9, <2>10
  <2>12. PICK w : w = e + 256 * f + 65536 * g
    OBVIOUS
  <2>13. taken = <<w>> /\ left = <<>>
    <3>1. taken = <<w>>
      BY <2>11, <2>12
    <3>2. QED
      BY <2>9, <3>1
  <2> HIDE DEF taken, left
  <2>14. packet.kind = "net" /\ packet.cmd = req.cmd /\ packet.unit = req.unit
    BY <1>12
  <2>15. Understood(packet) =
           [kind |-> "net", cmd |-> req.cmd, unit |-> req.unit, args |-> <<w>>, data |-> <<>>]
    BY <2>5, <2>13, <2>14, Zenon
  <2>16. QED
    BY <2>12, <2>15
<1>16. Told = [kind |-> "net", cmd |-> req.cmd, unit |-> req.unit, args |-> <<v>>, data |-> <<>>]
  BY <1>1, <1>2, <1>6 DEF Told, Meant, UnitLost
<1>17. QED
  BY <1>4, <1>11, <1>15, <1>16

-----------------------------------------------------------------------------

USE SmartPortAssumption DEF SmartPortAssumption

(***************************************************************************)
(* Searching a bus.                                                        *)
(***************************************************************************)

(* A set of numbers that is not empty has a least one. *)
LEMMA LeastNumber ==
  ASSUME NEW T, T \subseteq Nat, T # {}
  PROVE  \E x \in T : \A y \in T : x <= y
<1>1. PICK x \in T : \A y \in T : ~(<<y, x>> \in OpToRel(<, Nat))
  BY NatLessThanWellFounded, WFMin
<1>2. \A y \in T : <<y, x>> \in Nat \X Nat
  BY <1>1
<1>3. \A y \in T : ~(y < x)
  BY <1>1, <1>2 DEF OpToRel
<1>4. x \in T
  BY <1>1, Zenon
<1>5. \A y \in T : x <= y
  BY <1>3, <1>4
<1>6. QED
  BY <1>4, <1>5

(* FirstOf returns a member of the set, or 0 when there is none. *)
LEMMA FirstFound ==
  ASSUME NEW T, T \subseteq Nat \ {0}
  PROVE  FirstOf(T) \in Nat /\ (FirstOf(T) # 0 => FirstOf(T) \in T)
<1>1. CASE T = {}
  BY <1>1 DEF FirstOf
<1>2. CASE T # {}
  <2>1. \E x \in T : \A y \in T : x <= y
    BY <1>2, LeastNumber
  <2>2. FirstOf(T) \in T
    BY <1>2, <2>1 DEF FirstOf
  <2>3. QED
    BY <2>2
<1>3. QED
  BY <1>1, <1>2

(* The cards in the slots. *)
BusType == Seq(Seq({"fuji", "net", "clock", "disk0", "disk"}))

(* Slots and the devices on a card are counted from 1. *)
LEMMA SlotType ==
  ASSUME NEW b \in BusType, NEW s \in DOMAIN b
  PROVE  DOMAIN b \subseteq Nat \ {0} /\ DOMAIN b[s] \subseteq Nat \ {0}
<1>1. DOMAIN b = 1..Len(b) /\ Len(b) \in Nat
  BY LenProperties DEF BusType
<1>2. b[s] \in Seq({"fuji", "net", "clock", "disk0", "disk"})
  BY <1>1, ElementOfSeq DEF BusType
<1>3. DOMAIN b[s] = 1..Len(b[s]) /\ Len(b[s]) \in Nat
  BY <1>2, LenProperties
<1>4. QED
  BY <1>1, <1>3

(* sp_find_device finds a device of the kind or none, whichever requests
   fail. *)
LEMMA DeviceFound ==
  ASSUME bus \in BusType, NEW slot \in DOMAIN bus, NEW kind, NEW bad
  PROVE  LET i == FindDevice(slot, kind, bad)
         IN i \in Nat /\ (i # 0 => i \in DOMAIN bus[slot] /\ bus[slot][i] = kind)
<1> DEFINE T == {i \in DOMAIN bus[slot] : bus[slot][i] = kind /\ bad # <<slot, i>>}
<1>1. T \subseteq Nat \ {0}
  BY SlotType
<1>2. FirstOf(T) \in Nat /\ (FirstOf(T) # 0 => FirstOf(T) \in T)
  BY <1>1, FirstFound
<1>3. QED
  BY <1>2 DEF FindDevice

(* So does the search for a DISK_0. *)
LEMMA FallbackFound ==
  ASSUME bus \in BusType, NEW slot \in DOMAIN bus
  PROVE  LET i == Fallback(slot)
         IN i \in Nat /\ (i # 0 => i \in DOMAIN bus[slot] /\ bus[slot][i] = "disk0")
<1> DEFINE T == {i \in DOMAIN bus[slot] : bus[slot][i] = "disk0"}
<1>1. T \subseteq Nat \ {0}
  BY SlotType
<1>2. FirstOf(T) \in Nat /\ (FirstOf(T) # 0 => FirstOf(T) \in T)
  BY <1>1, FirstFound
<1>3. QED
  BY <1>2 DEF Fallback

(* sp_init picks a slot whose card has a network device, or none. *)
LEMMA CardFound ==
  ASSUME bus \in BusType, NEW bad
  PROVE  SpInit(bad) = 0 \/ (SpInit(bad) \in DOMAIN bus /\ FindDevice(SpInit(bad), "net", bad) # 0)
<1> DEFINE cards == {s \in DOMAIN bus : FindDevice(s, "net", bad) # 0}
           below == {Len(bus) - s : s \in cards}
<1>1. DOMAIN bus = 1..Len(bus) /\ Len(bus) \in Nat
  BY LenProperties DEF BusType
<1>2. CASE cards = {}
  BY <1>2 DEF SpInit
<1>3. CASE cards # {}
  <2>1. below \subseteq Nat /\ below # {}
    BY <1>1, <1>3
  <2>2. PICK x \in below : \A y \in below : x <= y
    BY <2>1, LeastNumber
  <2>3. PICK s \in cards : x = Len(bus) - s
    BY <2>2
  <2>4. \A t \in cards : t <= s
    <3>1. ASSUME NEW t \in cards PROVE t <= s
      <4>1. Len(bus) - t \in below /\ s \in Nat /\ t \in Nat
        BY <1>1
      <4>2. Len(bus) - s <= Len(bus) - t
        BY <2>2, <2>3, <4>1
      <4>3. QED
        BY <1>1, <4>1, <4>2
    <3>2. QED
      BY <3>1
  <2>5. SpInit(bad) \in cards
    BY <1>3, <2>4 DEF SpInit
  <2>6. QED
    BY <2>5
<1>4. QED
  BY <1>2, <1>3

(***************************************************************************)
(* What is kept stays right.                                               *)
(***************************************************************************)

(* The ids, the slot in use, and the installation. *)
SPInv ==
  /\ bus \in BusType
  /\ sp_id \in [Kinds -> Nat]
  /\ sp_is_init => dispatch \in DOMAIN bus
  /\ sp_is_init \in BOOLEAN
  /\ IdsRight

UnapiInv ==
  /\ scan_tried \in BOOLEAN
  /\ inits \in 0..1
  /\ ~scan_tried => inits = 0

(* The steps after the OPEN. *)
InSession == {"payload", "answer", "key", "keyanswer", "reply", "close"}
USE DEF InSession

(* The channel is open only within a call, after the OPEN. *)
IecInv == pc \in InSession \/ channel # "open"

RInv == SPInv /\ UnapiInv /\ IecInv

(* No id is kept and no channel open at the start. *)
LEMMA RInit == Init => RInv
<1> SUFFICES ASSUME Init PROVE RInv
  OBVIOUS
<1>1. bus \in BusType
  <2>1. bus \in Buses \/ bus = <<>>
    BY DEF Init, SPInit
  <2>2. <<>> \in BusType
    BY DEF BusType
  <2>3. Buses \subseteq BusType
    BY DEF BusType
  <2>4. QED
    BY <2>1, <2>2, <2>3
<1>2. SPInv
  BY <1>1 DEF Init, SPInit, SPInv, IdsRight
<1>3. UnapiInv
  <2>1. scan_tried = FALSE /\ inits = 0
    BY DEF Init, UnapiInit
  <2>2. scan_tried \in BOOLEAN
    BY <2>1, Zenon
  <2>3. inits \in 0..1
    BY <2>1
  <2>4. QED
    BY <2>1, <2>2, <2>3 DEF UnapiInv
<1>4. IecInv
  BY DEF Init, IecInit, IecInv
<1>5. QED
  BY <1>2, <1>3, <1>4 DEF RInv

(* A search keeps for each kind the id of such a device on the card it leaves
   in use, or none, although the requests of sp_init and of the search for the
   device may fail. *)
LEMMA SearchRight ==
  ASSUME SPInv, UNCHANGED bus, NEW kind, NEW badInit, NEW bad, Search(kind, badInit, bad)
  PROVE  SPInv'
<1> DEFINE slot  == IF sp_is_init THEN dispatch ELSE SpInit(badInit)
           found == FindDevice(slot, kind, bad)
           card  == FindDevice(slot, "net", badInit)
           kept  == IF found = 0 /\ kind = "fuji" THEN Fallback(slot) ELSE found
           ids   == IF sp_is_init THEN sp_id ELSE [sp_id EXCEPT !["net"] = card]
<1> USE DEF SPInv
<1>1. CASE slot = 0
  <2>1. ~sp_is_init
    <3>1. 0 \notin DOMAIN bus
      <4>1. DOMAIN bus = 1..Len(bus) /\ Len(bus) \in Nat
        BY LenProperties DEF BusType
      <4>2. QED
        BY <4>1
    <3>2. QED
      BY <1>1, <3>1
  <2>2. sp_is_init' = sp_is_init /\ sp_id' = [sp_id EXCEPT !["net"] = 0]
    BY <1>1 DEF Search
  <2>3. \A k \in Kinds : sp_id[k] = 0
    BY <2>1 DEF IdsRight
  <2>4. sp_id' \in [Kinds -> Nat] /\ \A k \in Kinds : sp_id'[k] = 0
    BY <2>2, <2>3 DEF Kinds
  <2>5. QED
    BY <2>1, <2>2, <2>4 DEF IdsRight
<1>2. CASE slot # 0
  <2>1. slot \in DOMAIN bus /\ (~sp_is_init => card # 0)
    BY <1>2, CardFound
  <2>2. /\ sp_is_init' = TRUE /\ dispatch' = slot
        /\ sp_id' = [ids EXCEPT ![kind] = kept]
    BY <1>2 DEF Search, KeepId
  <2>3. /\ found \in Nat /\ (found # 0 => found \in DOMAIN bus[slot] /\ bus[slot][found] = kind)
        /\ card \in Nat /\ (card # 0 => card \in DOMAIN bus[slot] /\ bus[slot][card] = "net")
    BY <2>1, DeviceFound
  <2>4. LET i == Fallback(slot)
        IN i \in Nat /\ (i # 0 => i \in DOMAIN bus[slot] /\ bus[slot][i] = "disk0")
    BY <2>1, FallbackFound
  <2>5. kept \in Nat
    BY <2>3, <2>4
  <2>6. kind \in Kinds /\ kept # 0 => kept \in DOMAIN bus[slot] /\ KindOf(bus[slot][kept]) = kind
    BY <2>3, <2>4 DEF KindOf, Kinds
  <2>7. /\ ids \in [Kinds -> Nat]
        /\ \A k \in Kinds : ids[k] # 0 => ids[k] \in DOMAIN bus[slot] /\ KindOf(bus[slot][ids[k]]) = k
    <3>1. CASE sp_is_init
      <4>1. slot = dispatch /\ ids = sp_id
        BY <3>1
      <4>2. \A d : KindOf(d) \in Kinds => d # "none"
        BY DEF KindOf, Kinds
      <4>3. \A k \in Kinds : sp_id[k] # 0 => KindOf(Reached(sp_id[k])) = k
        BY <3>1 DEF IdsRight
      <4>4. QED
        BY <4>1, <4>2, <4>3 DEF Reached
    <3>2. CASE ~sp_is_init
      <4>1. \A k \in Kinds : sp_id[k] = 0
        BY <3>2 DEF IdsRight
      <4>2. ids = [sp_id EXCEPT !["net"] = card]
        BY <3>2
      <4>3. ids \in [Kinds -> Nat] /\ ids["net"] = card /\ \A k \in Kinds \ {"net"} : ids[k] = 0
        BY <2>3, <4>1, <4>2 DEF Kinds
      <4>4. KindOf("net") = "net"
        BY DEF KindOf
      <4>5. QED
        BY <2>3, <4>3, <4>4
    <3>3. QED
      BY <3>1, <3>2
  <2> HIDE DEF slot, found, card, kept, ids
  <2>8. sp_id' \in [Kinds -> Nat]
    BY <2>2, <2>5, <2>7
  <2>9. ASSUME NEW k \in Kinds, sp_id'[k] # 0 PROVE KindOf(Reached(sp_id[k]))' = k
    <3>1. sp_id'[k] \in DOMAIN bus[slot] /\ KindOf(bus[slot][sp_id'[k]]) = k
      <4>1. CASE k = kind
        BY <2>2, <2>6, <2>7, <2>9, <4>1
      <4>2. CASE k # kind
        BY <2>2, <2>7, <2>9, <4>2
      <4>3. QED
        BY <4>1, <4>2
    <3>2. QED
      BY <2>2, <3>1 DEF Reached, KindOf
  <2>10. QED
    BY <2>1, <2>2, <2>8, <2>9 DEF IdsRight
<1>3. QED
  BY <1>1, <1>2

(* Steps that look for no device keep the ids. *)
LEMMA SPKeeps ==
  ASSUME SPInv, UNCHANGED <<bus, dispatch, sp_is_init, sp_id>>
  PROVE  SPInv'
BY DEF SPInv, IdsRight, Reached, KindOf

(* Steps of other machines start no ROM. *)
LEMMA UnapiKeeps ==
  ASSUME UnapiInv, UNCHANGED <<scan_tried, inits>>
  PROVE  UnapiInv'
BY DEF UnapiInv

(* Steps of other machines leave the channel closed. *)
LEMMA IecKeeps ==
  ASSUME IecInv, UNCHANGED channel, pc \notin InSession
  PROVE  IecInv'
BY DEF IecInv

(* A step of the Apple II keeps the ids right. *)
LEMMA SmartPortStep ==
  ASSUME RInv, SmartPortNext, UNCHANGED <<unapiVars, iecVars>>
  PROVE  RInv'
<1> USE DEF RInv
<1>1. pc \in {"lookup", "control", "status", "block"}
  BY DEF SmartPortNext, Lookup, Control, Status, Block
<1>2. UnapiInv' /\ IecInv'
  BY <1>1, UnapiKeeps, IecKeeps DEF unapiVars, iecVars
<1>3. CASE Lookup
  <2>1. UNCHANGED bus
    BY <1>3 DEF Lookup
  <2>2. CASE sp_id[Wanted] # 0
    <3>1. UNCHANGED <<dispatch, sp_is_init, sp_id>>
      BY <1>3, <2>2 DEF Lookup
    <3>2. SPInv'
      BY <2>1, <3>1, SPKeeps
    <3>3. QED
      BY <1>2, <3>2
  <2>3. CASE ~(sp_id[Wanted] # 0)
    <3>1. PICK badInit \in Searches, bad \in Searches : Search(Wanted, badInit, bad)
      BY <1>3, <2>3 DEF Lookup
    <3>2. SPInv'
      BY <2>1, <3>1, SearchRight
    <3>3. QED
      BY <1>2, <3>2
  <2>4. QED
    BY <1>2, <2>2, <2>3
<1>4. CASE Control \/ Status \/ Block
  <2>1. UNCHANGED <<bus, dispatch, sp_is_init, sp_id>>
    BY <1>4 DEF Control, Status, Block, spVars
  <2>2. QED
    BY <1>2, <2>1, SPKeeps
<1>5. QED
  BY <1>3, <1>4 DEF SmartPortNext

(* The INIT of a ROM is called only when the scan is tried for the first
   time. *)
LEMMA UnapiStep ==
  ASSUME RInv, UnapiNext, UNCHANGED <<spVars, iecVars>>
  PROVE  RInv'
<1> USE DEF RInv
<1>1. pc \in {"discover", "enter"}
  BY DEF UnapiNext, Discover, EnterUnapi
<1>2. SPInv' /\ IecInv'
  BY <1>1, SPKeeps, IecKeeps DEF spVars, iecVars
<1>3. CASE Discover
  <2>1. \/ UNCHANGED <<scan_tried, inits>>
        \/ ~scan_tried /\ scan_tried' = TRUE /\ inits' \in {inits, inits + 1}
    BY <1>3 DEF Discover, MayScan
  <2>2. CASE UNCHANGED <<scan_tried, inits>>
    BY <1>2, <2>2, UnapiKeeps
  <2>3. CASE ~scan_tried /\ scan_tried' = TRUE /\ inits' \in {inits, inits + 1}
    <3>1. inits = 0
      BY <2>3 DEF UnapiInv
    <3>2. inits' \in 0..1
      BY <2>3, <3>1
    <3>3. scan_tried' \in BOOLEAN /\ scan_tried' = TRUE
      BY <2>3, Zenon
    <3>4. UnapiInv'
      BY <3>2, <3>3 DEF UnapiInv
    <3>5. QED
      BY <1>2, <3>4
  <2>4. QED
    BY <2>1, <2>2, <2>3
<1>4. CASE EnterUnapi
  BY <1>2, <1>4, UnapiKeeps DEF EnterUnapi
<1>5. QED
  BY <1>3, <1>4 DEF UnapiNext

(* From a successful OPEN every way through the call leads to the CLOSE. *)
LEMMA IecSteps ==
  ASSUME RInv, IecNext, UNCHANGED <<spVars, unapiVars>>
  PROVE  RInv'
<1> USE DEF RInv
<1>1. SPInv' /\ UnapiInv'
  BY SPKeeps, UnapiKeeps DEF spVars, unapiVars
<1>2. CASE NoCreator
  BY <1>1, <1>2 DEF NoCreator, IecInv
<1>3. CASE Open
  <2>1. \/ pc' \in {"payload", "answer"}
        \/ channel' = IF channel = "open" THEN "open" ELSE "failed"
    BY <1>3 DEF Open
  <2>2. channel # "open"
    BY <1>3 DEF Open, IecInv
  <2>3. QED
    BY <1>1, <2>1, <2>2 DEF IecInv
<1>4. CASE SendPayload
  BY <1>1, <1>4 DEF SendPayload, IecInv
<1>5. CASE ReadStatus
  BY <1>1, <1>5 DEF ReadStatus, IecInv
<1>6. CASE SendRead
  BY <1>1, <1>6 DEF SendRead, IecInv
<1>7. CASE ReadReply
  BY <1>1, <1>7 DEF ReadReply, IecInv
<1>8. CASE Close
  BY <1>1, <1>8 DEF Close, CloseChannel, IecInv
<1>9. QED
  BY <1>2, <1>3, <1>4, <1>5, <1>6, <1>7, <1>8 DEF IecNext

(* Every step keeps the routes right. *)
LEMMA RNext == RInv /\ [Next]_vars => RInv'
<1> SUFFICES ASSUME RInv, [Next]_vars PROVE RInv'
  OBVIOUS
<1> USE DEF RInv
<1>1. ASSUME UNCHANGED <<spVars, unapiVars, iecVars>>,
             pc \notin InSession \/ UNCHANGED pc
      PROVE  RInv'
  <2>1. SPInv' /\ UnapiInv'
    BY <1>1, SPKeeps, UnapiKeeps DEF spVars, unapiVars
  <2>2. IecInv'
    BY <1>1 DEF IecInv, iecVars
  <2>3. QED
    BY <2>1, <2>2
<1>2. ASSUME NEW r, Call(r), UNCHANGED <<spVars, unapiVars, iecVars>> PROVE RInv'
  <2>1. pc = "idle"
    BY <1>2 DEF Call
  <2>2. QED
    BY <1>1, <1>2, <2>1
<1>3. CASE Transact /\ UNCHANGED <<spVars, unapiVars, iecVars>>
  <2>1. pc = "transact"
    BY <1>3 DEF Transact
  <2>2. QED
    BY <1>1, <1>3, <2>1
<1>4. CASE SmartPortNext /\ UNCHANGED <<unapiVars, iecVars>>
  BY <1>4, SmartPortStep
<1>5. CASE UnapiNext /\ UNCHANGED <<spVars, iecVars>>
  BY <1>5, UnapiStep
<1>6. CASE IecNext /\ UNCHANGED <<spVars, unapiVars>>
  BY <1>6, IecSteps
<1>7. CASE UNCHANGED vars
  BY <1>1, <1>7 DEF vars, callVars
<1>8. QED
  BY <1>2, <1>3, <1>4, <1>5, <1>6, <1>7 DEF Next

(* The routes are right at all times. *)
LEMMA Invariant == Spec => []RInv
BY RInit, RNext, PTL DEF Spec

(* The ids sp_get_fuji_id, sp_get_network_id and sp_get_clock_id have kept are
   those of such devices on the card in use, whatever is plugged in and
   whichever of the searches failed half-way; the INIT of the FujiNet's ROM is
   not called twice (fujinet-unapi-extbio.c). *)
THEOREM RoutesRightCorrect == Spec => []RoutesRight
<1>1. RInv => RoutesRight
  BY DEF RInv, SPInv, UnapiInv, RoutesRight
<1>2. QED
  BY <1>1, Invariant, PTL

(* After fuji_bus_call() of the C64 the command channel is not open, whatever
   step of the call failed. *)
THEOREM ChannelClosedCorrect == Spec => []ChannelClosed
<1>1. RInv => ChannelClosed
  BY DEF RInv, IecInv, ChannelClosed
<1>2. QED
  BY <1>1, Invariant, PTL

-----------------------------------------------------------------------------

HIDE SmartPortAssumption DEF SmartPortAssumption, InSession

(***************************************************************************)
(* What arrives, and what the caller gets back.                            *)
(***************************************************************************)

(* A block of a stream goes to the network device with the unit of the
   request. *)
LEMMA BlockCarried ==
  ASSUME Made, InBlocks, Reached(sp_id["net"]) = "net", sp_nw_unit' = req.unit
  PROVE  Understood(Delivered(BlockPacket, sp_id["net"])) = Told
<1>1. /\ platform = "apple2" /\ req.op \in {"read", "write"} /\ platform \in Computers
      /\ Special(platform, req) /\ Sent(req) /\ Asked(req)
  BY DEF Made, WellFormed, InBlocks
<1>2. req.kind = "net" /\ req.int = 0 /\ req.data \in Seq(Bytes) /\ Len(req.data) \in Words /\ req.want \in Words
  <2>1. req.kind = "net" /\ req.int = 0
    BY <1>1 DEF Special
  <2>2. req.data \in Seq(Bytes) /\ Len(req.data) \in Words
    BY <1>1, <2>1 DEF Sent
  <2>3. QED
    BY <1>1, <2>1, <2>2 DEF Asked
<1>3. ASSUME NEW n \in Words PROVE Clip(n) \in Words /\ Clip(n) <= n
  <2>1. n \in Nat /\ n < 65536 /\ BLOCK \in Nat /\ Clip(n) = IF n < BLOCK THEN n ELSE BLOCK
    BY <1>3, WordType, SmartPortAssumption DEF SmartPortAssumption, Clip
  <2>2. Clip(n) \in Nat /\ Clip(n) <= n
    BY <2>1
  <2>3. QED
    BY <2>1, <2>2 DEF Words
<1>4. /\ BusCall.layout = "B12" /\ BusCall.kind = "net" /\ BusCall.cmd = req.cmd /\ BusCall.unit = req.unit
  BY <1>1, <1>2 DEF BusCall, NetworkBusRead, NetworkBusWrite, C64Unit, Sub
<1> DEFINE packet == Delivered(BlockPacket, sp_id["net"])
<1>5. PICK w \in Words, d \in Seq(Bytes) :
        /\ packet.aux = SplitU16(platform, w) /\ packet.data = d
        /\ packet.kind = "net" /\ packet.cmd = req.cmd /\ packet.unit = req.unit
        /\ Told.args = <<w>> /\ Told.data = d
  <2>2. /\ packet.kind = "net" /\ packet.unit = req.unit /\ packet.cmd = BlockPacket.cmd
        /\ packet.aux = BlockPacket.aux /\ packet.data = BlockPacket.data
    <3>1. KindOf("net") = "net"
      BY DEF KindOf
    <3>2. DOMAIN BlockPacket = {"kind", "cmd", "unit", "aux", "data"}
      BY DEF BlockPacket, Packet
    <3>3. packet = [BlockPacket EXCEPT !.kind = "net", !.unit = req.unit]
      BY <3>1 DEF Delivered
    <3>4. QED
      BY <3>2, <3>3
  <2>3. CASE req.op = "read"
    <3>1. BlockPacket.aux = SplitU16(platform, Clip(req.want)) /\ BlockPacket.data = BusData(BusCall)
          /\ BlockPacket.cmd = BusCall.cmd
      BY <2>3 DEF BlockPacket, Packet
    <3>2. req.data = <<>>
      BY <1>1, <2>3 DEF Special
    <3>3. BusData(BusCall) = <<>>
      BY <2>3, <3>2, DataForm DEF AtariSeek
    <3>4. Told.args = <<Clip(req.want)>> /\ Told.data = <<>>
      BY <1>1, <2>3, <3>2 DEF Told, Meant, UnitLost, InBlock
    <3>5. Clip(req.want) \in Words /\ <<>> \in Seq(Bytes)
      BY <1>2, <1>3
    <3>6. QED
      BY <1>4, <2>2, <3>1, <3>3, <3>4, <3>5
  <2>4. CASE req.op = "write"
    <3>1. PICK n \in Words : n = Clip(Len(req.data)) /\ n <= Len(req.data)
      BY <1>2, <1>3
    <3>2. BlockPacket.aux = SplitU16(platform, n) /\ BlockPacket.data = SubSeq(req.data, 1, n)
          /\ BlockPacket.cmd = BusCall.cmd
      BY <2>4, <3>1 DEF BlockPacket, Packet
    <3>3. Told.args = <<n>> /\ Told.data = SubSeq(req.data, 1, n)
      BY <1>1, <2>4, <3>1 DEF Told, Meant, UnitLost, InBlock
    <3>4. SubSeq(req.data, 1, n) \in Seq(Bytes)
      <4>1. n \in Int /\ Len(req.data) \in Nat
        BY <3>1, <1>2, WordType
      <4>2. \A i \in 1..n : req.data[i] \in Bytes
        BY <1>2, <3>1, <4>1, ElementOfSeq
      <4>3. QED
        BY <4>1, <4>2, SubSeqProperties
    <3>5. QED
      BY <1>4, <2>2, <3>2, <3>3, <3>4
  <2>5. QED
    BY <1>1, <2>3, <2>4
<1> HIDE DEF packet
<1>6. PICK l \in Bytes, m \in Bytes : l = U16_LSB(w) /\ m = U16_MSB(w) /\ l + 256 * m = w
  BY WordSplit
<1>7. packet.aux = <<l, m>>
  BY <1>1, <1>5, <1>6 DEF SplitU16
<1>8. /\ packet.aux \in Seq(Bytes) /\ Len(packet.aux) = 2
      /\ AuxTaken(platform, BusCall.layout, ToNet(BusCall)) = 2 /\ NumBytes(BusCall.layout) = 2
      /\ BusCall.layout \in Layouts
  BY <1>1, <1>4, <1>7 DEF AuxTaken, NumBytes, DriveWires, Layouts
<1>9. Arguments(platform, BusCall.layout, packet.aux) = <<w>>
  <2>1. JoinU16(platform, l, m) = w
    BY <1>1, <1>6 DEF JoinU16, DriveWires
  <2>2. QED
    BY <1>4, <1>7, <2>1 DEF Arguments
<1>10. Unturned(d) = d
  BY <1>2 DEF Unturned
<1>11. Understood(packet) = [kind |-> "net", cmd |-> req.cmd, unit |-> req.unit, args |-> <<w>>, data |-> d]
  <2>1. ~AtariSeek
    BY <1>1 DEF AtariSeek
  <2>2. Understood(packet) =
          [kind |-> packet.kind, cmd |-> packet.cmd, unit |-> packet.unit,
           args |-> Arguments(platform, BusCall.layout, packet.aux), data |-> Unturned(packet.data)]
    <3>1. NumBytes(BusCall.layout) \in Nat /\ NumBytes(BusCall.layout) <= Len(packet.aux)
      BY <1>8
    <3>2. Len(packet.aux) = AuxTaken(platform, BusCall.layout, ToNet(BusCall))
      BY <1>8
    <3>3. packet.data \in Seq(Bytes)
      BY <1>5
    <3>4. QED
      BY <1>1, <1>8, <2>1, <3>1, <3>2, <3>3, Unpacked
  <2>3. QED
    BY <1>5, <1>9, <1>10, <2>2
<1>12. Told = [kind |-> "net", cmd |-> req.cmd, unit |-> req.unit, args |-> Told.args, data |-> Told.data]
  BY <1>1, <1>2 DEF Told, Meant, UnitLost
<1>13. QED
  BY <1>5, <1>11, <1>12 DEF packet

(* On the Apple II the device with the id kept is the one the packet names. *)
LEMMA DeliveredSame ==
  ASSUME Made, platform = "apple2", SPInv, sp_id[req.kind] # 0,
         req.kind = "net" => sp_nw_unit' = req.unit
  PROVE  Delivered(Packet(BusCall), sp_id[req.kind]) = Packet(BusCall)
<1>1. PICK packet : packet = Packet(BusCall)
  OBVIOUS
<1>2. /\ DOMAIN packet = {"kind", "cmd", "unit", "aux", "data"}
      /\ packet = [kind |-> packet.kind, cmd |-> packet.cmd, unit |-> packet.unit,
                   aux |-> packet.aux, data |-> packet.data]
      /\ packet.kind = req.kind
      /\ packet.unit = IF req.kind = "net" THEN req.unit ELSE 0
  BY <1>1, CallForm DEF Packet, ToNet
<1>3. req.kind \in Kinds
  BY DEF Made, WellFormed
<1>4. KindOf(Reached(sp_id[req.kind])) = req.kind
  BY <1>3 DEF SPInv, IdsRight
<1>5. req.kind # "net" => sp_id[req.kind] # sp_id["net"]
  BY <1>3, <1>4 DEF SPInv, IdsRight, Kinds
<1>6. Delivered(packet, sp_id[req.kind]) = [packet EXCEPT !.kind = packet.kind, !.unit = packet.unit]
  BY <1>2, <1>4, <1>5 DEF Delivered
<1>7. QED
  BY <1>1, <1>2, <1>6

(* The C64's second command reads the key. *)
LEMMA KeyCarried ==
  ASSUME Made, platform = "c64", req.op = "readkey"
  PROVE  Understood(KeyPacket) = [Told EXCEPT !.cmd = "READ_APPKEY", !.data = <<>>]
<1>1. /\ BusCall.kind = req.kind /\ BusCall.cmd = req.cmd
      /\ BusCall.layout \in Layouts /\ (platform = "atari" => NumBytes(BusCall.layout) <= 2)
      /\ Fit(BusCall.layout, BusCall.args) /\ BusCall.args = Told.args
  BY CallForm DEF InBlocks, AtariSeek
<1>2. PICK packet : packet = KeyPacket
  OBVIOUS
<1>3. /\ packet.kind = req.kind /\ packet.cmd = "READ_APPKEY" /\ packet.unit = 0
      /\ packet.aux = BusAux(platform, BusCall.layout, BusCall.args, ToNet(BusCall))
      /\ packet.data = <<>>
  BY <1>1, <1>2 DEF KeyPacket, Packet
<1>4. platform \in Computers /\ ToNet(BusCall) \in BOOLEAN
  BY DEF Made, ToNet
<1>5. /\ packet.aux \in Seq(Bytes)
      /\ Len(packet.aux) = AuxTaken(platform, BusCall.layout, ToNet(BusCall))
      /\ NumBytes(BusCall.layout) \in Nat /\ NumBytes(BusCall.layout) <= Len(packet.aux)
  BY <1>1, <1>3, <1>4, AuxLength
<1>6. Arguments(platform, BusCall.layout, packet.aux) = Told.args
  BY <1>1, <1>3, <1>4, ArgumentsRoundTrip
<1>7. Unturned(<<>>) = <<>> /\ <<>> \in Seq(Bytes)
  BY DEF Unturned
<1>8. Understood(packet) =
        [kind |-> packet.kind, cmd |-> packet.cmd, unit |-> packet.unit,
         args |-> Arguments(platform, BusCall.layout, packet.aux), data |-> Unturned(packet.data)]
  BY <1>1, <1>3, <1>4, <1>5, <1>7, Unpacked DEF AtariSeek
<1>9. Told = [kind |-> req.kind, cmd |-> req.cmd, unit |-> 0, args |-> Told.args, data |-> Told.data]
  BY DEF Told, Meant, UnitLost
<1>10. PICK a : a = Told.args
  OBVIOUS
<1>11. PICK m : m = Told
  OBVIOUS
<1>12. PICK k, c, d : k = req.kind /\ c = req.cmd /\ m = [kind |-> k, cmd |-> c, unit |-> 0, args |-> a, data |-> d]
  BY <1>9, <1>10, <1>11
<1>13. Understood(packet) = [kind |-> req.kind, cmd |-> "READ_APPKEY", unit |-> 0, args |-> a, data |-> <<>>]
  BY <1>3, <1>6, <1>7, <1>8, <1>10
<1>14. [m EXCEPT !.cmd = "READ_APPKEY", !.data = <<>>] = [kind |-> k, cmd |-> "READ_APPKEY", unit |-> 0, args |-> a, data |-> <<>>]
  <2>1. ASSUME NEW x PROVE [m EXCEPT !.cmd = x] = [kind |-> k, cmd |-> x, unit |-> 0, args |-> a, data |-> d]
    BY <1>12, SMT
  <2>2. ASSUME NEW x PROVE [[kind |-> k, cmd |-> x, unit |-> 0, args |-> a, data |-> d] EXCEPT !.data = <<>>] = [kind |-> k, cmd |-> x, unit |-> 0, args |-> a, data |-> <<>>]
    BY SMT
  <2>3. QED
    BY <2>1, <2>2
<1>15. QED
  BY <1>2, <1>11, <1>12, <1>13, <1>14

-----------------------------------------------------------------------------
(* The caller's memory, and the replies. *)

(* Pages 1 and 2 of an MSX are between PAGE and 3 * PAGE. *)
LEMMA PageBounds ==
  ASSUME NEW a \in Nat, a < PAGE \/ a >= 3 * PAGE
  PROVE  ~IN_SWITCHED_PAGE(a)
<1>1. PAGE \in Nat /\ PAGE > 0
  BY UnapiAssumption DEF UnapiAssumption
<1>2. PICK q \in Int, r \in 0..(PAGE - 1) : q = a \div PAGE /\ a = PAGE * q + r
  <2>1. a \div PAGE \in Int /\ a % PAGE \in 0..(PAGE - 1) /\ a = PAGE * (a \div PAGE) + (a % PAGE)
    BY <1>1
  <2>2. QED
    BY <2>1
<1>3. q = 1 => a = PAGE + r
  BY <1>1, <1>2
<1>4. q = 2 => a = 2 * PAGE + r
  BY <1>1, <1>2
<1>5. q # 1 /\ q # 2
  BY <1>1, <1>2, <1>3, <1>4
<1>6. QED
  BY <1>2, <1>5 DEF IN_SWITCHED_PAGE, Page

(* What the implementation sees, it sees as it is. *)
LEMMA SeenAsItIs ==
  ASSUME NEW buffer, NEW bytes, NEW m \in Nat, DOMAIN bytes \subseteq 1..m,
         bytes = [i \in DOMAIN bytes |-> bytes[i]],
         \A i \in 1..m : Seen(buffer, i)
  PROVE  DataSeen(buffer, bytes) = bytes /\ ReplySeen(buffer, bytes) = bytes
<1>1. \A i \in DOMAIN bytes : Seen(buffer, i)
  OBVIOUS
<1>2. DataSeen(buffer, bytes) = [i \in DOMAIN bytes |-> bytes[i]]
  BY <1>1 DEF DataSeen
<1>3. ReplySeen(buffer, bytes) = [i \in DOMAIN bytes |-> bytes[i]]
  BY <1>1 DEF ReplySeen
<1>4. QED
  BY <1>2, <1>3

(* A buffer in page 3, or in page 0 and no further, is in sight. *)
LEMMA InSight ==
  ASSUME NEW buffer \in Nat, NEW m \in Nat, buffer >= 3 * PAGE \/ buffer + m <= PAGE
  PROVE  \A i \in 1..m : Seen(buffer, i)
<1>1. PAGE \in Nat
  BY UnapiAssumption DEF UnapiAssumption
<1>2. ASSUME NEW i \in 1..m PROVE Seen(buffer, i)
  <2>1. PICK a \in Nat : a = buffer + i - 1 /\ a >= buffer /\ a < buffer + m
    <3>1. buffer + i - 1 \in Nat /\ buffer + i - 1 >= buffer /\ buffer + i - 1 < buffer + m
      OBVIOUS
    <3>2. QED
      BY <3>1
  <2>2. a < PAGE \/ a >= 3 * PAGE
    <3>1. CASE buffer >= 3 * PAGE
      <4>1. PICK k \in Nat : k = 3 * PAGE
        BY <1>1
      <4>2. QED
        BY <2>1, <3>1, <4>1
    <3>2. CASE buffer + m <= PAGE
      BY <1>1, <2>1, <3>2
    <3>3. QED
      BY <3>1, <3>2
  <2>3. QED
    BY <2>1, <2>2, PageBounds DEF Seen
<1>3. QED
  BY <1>2

(* A function on 1..n has n values. *)
LEMMA LengthOf ==
  ASSUME NEW n \in Nat, NEW d, DOMAIN d = 1..n, d = [i \in DOMAIN d |-> d[i]]
  PROVE  Len(d) = n
<1>1. PICK S : \A i \in 1..n : d[i] \in S
  <2>1. \A i \in 1..n : d[i] \in {d[j] : j \in 1..n}
    OBVIOUS
  <2>2. QED
    BY <2>1
<1>2. d \in [1..n -> S]
  BY <1>1
<1>3. d \in Seq(S)
  BY <1>2
<1>4. Len(d) \in Nat /\ DOMAIN d = 1..Len(d)
  BY <1>3, LenProperties
<1>5. QED
  BY <1>4

(* The answer to this call, as the program has it. *)
OwnBytes ==
  /\ Len(reply) <= req.want
  /\ \A i \in DOMAIN reply : reply[i] = <<cur, Native(i)>>

(* The bytes of a reply, in the order of the bus. *)
LEMMA ReplyForm ==
  ASSUME NEW c, NEW n \in Nat
  PROVE  /\ Len(DeviceReply(c, n)) = n /\ DOMAIN DeviceReply(c, n) = 1..n
         /\ DeviceReply(c, n) = [i \in DOMAIN DeviceReply(c, n) |-> DeviceReply(c, n)[i]]
         /\ \A i \in 1..n :
              DeviceReply(c, n)[i] =
                <<c, IF platform \in DriveWires /\ i <= req.int THEN req.int + 1 - i ELSE i>>
<1>1. PICK d : d = DeviceReply(c, n)
  OBVIOUS
<1>2. d = [i \in 1..n |-> <<c, IF platform \in DriveWires /\ i <= req.int THEN req.int + 1 - i ELSE i>>]
  BY <1>1 DEF DeviceReply
<1>3. DOMAIN d = 1..n /\ d = [i \in DOMAIN d |-> d[i]]
  BY <1>2
<1>4. Len(d) = n
  BY <1>3, LengthOf
<1>5. \A i \in 1..n :
        d[i] = <<c, IF platform \in DriveWires /\ i <= req.int THEN req.int + 1 - i ELSE i>>
  BY <1>2
<1>6. QED
  BY <1>1, <1>3, <1>4, <1>5

(* A caller without a reply has no byte of another call. *)
LEMMA NoReply ==
  ASSUME reply' = <<>>, req'.want \in Nat
  PROVE  OwnBytes'
BY DEF OwnBytes

(* Where the bus has the order of the processor, the reply is as it came. *)
LEMMA OwnAnswered ==
  ASSUME UNCHANGED <<platform, cur, req>>, req.want \in Nat, NEW n \in 0..req.want,
         reply' = DeviceReply(cur, n), platform # "pmd85"
  PROVE  OwnBytes'
<1>1. n \in Nat /\ n <= req.want
  OBVIOUS
<1>2. PICK d : d = DeviceReply(cur, n)
  OBVIOUS
<1>3. Len(d) = n /\ DOMAIN d = 1..n
      /\ \A i \in 1..n : d[i] = <<cur, IF platform \in DriveWires /\ i <= req.int THEN req.int + 1 - i ELSE i>>
  BY <1>1, <1>2, ReplyForm
<1>4. \A i : Native(i)' = IF platform \in DriveWires /\ i <= req.int THEN req.int + 1 - i ELSE i
  BY DEF Native, DriveWires
<1>5. QED
  BY <1>1, <1>2, <1>3, <1>4 DEF OwnBytes

(* The PMD 85 turns it round. *)
LEMMA OwnTurned ==
  ASSUME UNCHANGED <<platform, cur, req>>, req.want \in Nat, req.int \in {0, 2, 4},
         req.want > 0 => req.want >= req.int, platform = "pmd85",
         reply' = Swap(platform, DeviceReply(cur, req.want), req.int)
  PROVE  OwnBytes'
<1>0. PICK n \in Nat, k \in Nat : n = req.want /\ k = req.int
  OBVIOUS
<1>1. PICK d : d = DeviceReply(cur, n) /\ n = req.want /\ k = req.int
  BY <1>0
<1>2. Len(d) = n /\ DOMAIN d = 1..n /\ d = [i \in DOMAIN d |-> d[i]]
      /\ \A i \in 1..n : d[i] = <<cur, IF i <= k THEN k + 1 - i ELSE i>>
  BY <1>1, ReplyForm DEF DriveWires
<1>3. \A i : Native(i)' = i
  BY DEF Native
<1>4. CASE n = 0
  <2>1. reply' = d \/ reply' = [i \in DOMAIN d |-> d[IF i <= k THEN k + 1 - i ELSE i]]
    BY <1>1 DEF Swap
  <2>2. DOMAIN d = {} /\ d = <<>>
    BY <1>1, <1>4 DEF DeviceReply
  <2>3. reply' = <<>>
    BY <2>1, <2>2
  <2>4. QED
    BY <2>3, NoReply
<1>5. CASE n > 0
  <2>1. n >= k
    BY <1>1, <1>5
  <2>2. reply' = [i \in 1..n |-> d[IF i <= k THEN k + 1 - i ELSE i]]
    BY <1>1, <1>2, <2>1 DEF Swap
  <2>3. ASSUME NEW i \in 1..n PROVE reply'[i] = <<cur, i>>
    <3>1. CASE i <= k
      <4>1. PICK j \in 1..n : j = k + 1 - i /\ j <= k /\ k + 1 - j = i
        BY <2>1, <3>1
      <4>2. d[j] = <<cur, i>>
        BY <1>2, <4>1
      <4>3. QED
        BY <2>2, <3>1, <4>1, <4>2
    <3>2. CASE ~(i <= k)
      <4>1. d[i] = <<cur, i>>
        BY <1>2, <3>2
      <4>2. QED
        BY <2>2, <3>2, <4>1
    <3>3. QED
      BY <3>1, <3>2
  <2>4. Len(reply') = n /\ DOMAIN (reply') = 1..n
    <3>1. PICK r : r = reply'
      OBVIOUS
    <3>2. DOMAIN r = 1..n /\ r = [i \in DOMAIN r |-> r[i]]
      BY <2>2, <3>1
    <3>3. QED
      BY <3>1, <3>2, LengthOf
  <2>5. Len(reply') <= req'.want
    BY <1>1, <2>4
  <2>6. \A i \in DOMAIN (reply') : reply'[i] = <<cur', i>>
    BY <2>3, <2>4
  <2>7. \A i \in DOMAIN (reply') : reply'[i] = <<cur', Native(i)'>>
    BY <1>3, <2>6, Zenon
  <2>8. QED
    BY <2>5, <2>7 DEF OwnBytes
<1>6. QED
  BY <1>4, <1>5

(* What is not in page 1 or 2 is in page 0 or from page 3 on. *)
LEMMA PageSplit ==
  ASSUME NEW a \in Nat, ~IN_SWITCHED_PAGE(a)
  PROVE  Page(a) = 0 \/ a >= 3 * PAGE
<1>1. PAGE \in Nat /\ PAGE > 0
  BY UnapiAssumption DEF UnapiAssumption
<1>2. PICK q \in Int, r \in 0..(PAGE - 1) : q = Page(a) /\ a = PAGE * q + r
  <2>1. a \div PAGE \in Int /\ a % PAGE \in 0..(PAGE - 1) /\ a = PAGE * (a \div PAGE) + (a % PAGE)
    BY <1>1
  <2>2. QED
    BY <2>1 DEF Page
<1>3. q \in Nat /\ q \notin {1, 2}
  <2>1. a \div PAGE \in Nat
    BY <1>1
  <2>2. QED
    BY <1>2, <2>1 DEF Page, IN_SWITCHED_PAGE
<1>4. CASE q = 0
  BY <1>2, <1>4
<1>5. CASE q # 0
  <2>1. PICK k \in Nat : q = 3 + k
    <3>1. q - 3 \in Nat /\ q = 3 + (q - 3)
      BY <1>3, <1>5
    <3>2. QED
      BY <3>1
  <2>2. PICK m \in Nat : m = PAGE * k
    BY <1>1
  <2>3. PAGE * q = 3 * PAGE + m
    BY <1>1, <2>1, <2>2
  <2>4. QED
    BY <1>1, <1>2, <2>2, <2>3
<1>6. QED
  BY <1>4, <1>5

(* With the memory as the library can work with, the block is in sight, and a
   buffer that is not bounced is. *)
LEMMA Placed ==
  ASSUME WellPlaced, memory \in Memories, BufLen \in Nat
  PROVE  /\ memory.buffer \in Nat
         /\ ~NeedsBounce => \/ memory.buffer >= 3 * PAGE
                            \/ memory.buffer + BufLen <= PAGE
                            \/ BufLen = 0
         /\ (IF STACK_IS_SAFE THEN memory.stack ELSE memory.block) \notin {1, 2}
<1>1. memory \in [buffer : 0..(4 * PAGE - 1), block : 0..3, stack : 0..3] /\ PAGE \in Nat
  BY UnapiAssumption DEF UnapiAssumption
<1>2. memory.buffer \in Nat
  BY <1>1
<1>3. ASSUME ~NeedsBounce, BufLen # 0
      PROVE  memory.buffer >= 3 * PAGE \/ memory.buffer + BufLen <= PAGE
  <2>1. BufLen > 0
    BY <1>3
  <2>2. ~IN_SWITCHED_PAGE(memory.buffer)
    BY <1>3, <2>1 DEF NeedsBounce
  <2>3. Page(memory.buffer) = 0 \/ memory.buffer >= 3 * PAGE
    BY <1>2, <2>2, PageSplit
  <2>4. Page(memory.buffer) = 0 => ~(memory.buffer + BufLen > PAGE)
    BY <2>1 DEF WellPlaced, Straddles
  <2>5. QED
    BY <1>1, <1>2, <2>3, <2>4
<1>4. (IF STACK_IS_SAFE THEN memory.stack ELSE memory.block) \notin {1, 2}
  BY DEF WellPlaced, STACK_IS_SAFE
<1>5. QED
  BY <1>2, <1>3, <1>4

(* The length fuji_unapi_call() checks is that of the data or of the reply,
   and there are not both. *)
LEMMA BufferFits ==
  ASSUME Made, platform = "msx"
  PROVE  /\ BufLen \in Nat /\ BusCall.want \in Nat /\ BusCall.want <= BufLen
         /\ BusData(BusCall) \in Seq(Bytes) /\ Len(BusData(BusCall)) <= BufLen
<1>1. /\ Asked(req) /\ (req.op # "call" => Special(platform, req)) /\ ~AtariSeek
  BY DEF Made, WellFormed, AtariSeek
<1>2. req.want \in Nat /\ BusCall.want = req.want
  BY <1>1, CallForm, WordType DEF Asked
<1>3. BusData(BusCall) \in Seq(Bytes) /\ (req.data = <<>> => BusData(BusCall) = <<>>)
  BY <1>1, DataForm
<1>4. BusData(BusCall) = BusCall.data
  BY DEF BusData, Swap
<1>5. CASE req.want > 0
  <2>1. req.op # "readkey"
    BY <1>1 DEF Special
  <2>2. req.data = <<>>
    BY <1>1, <1>5, <2>1 DEF Asked
  <2>3. BufLen = req.want /\ Len(BusData(BusCall)) = 0
    BY <1>2, <1>3, <1>5, <2>2 DEF BufLen
  <2>4. QED
    BY <1>2, <1>3, <2>3
<1>6. CASE ~(req.want > 0)
  <2>1. BufLen = Len(BusData(BusCall))
    BY <1>2, <1>4, <1>6 DEF BufLen
  <2>2. Len(BusData(BusCall)) \in Nat
    BY <1>3, LenProperties
  <2>3. req.want = 0
    BY <1>2, <1>6
  <2>4. QED
    BY <1>2, <1>3, <2>1, <2>2, <2>3
<1>7. QED
  BY <1>5, <1>6

(* Through such a buffer the packet goes as it is, and the reply comes so. *)
LEMMA SeenThrough ==
  ASSUME Made, platform = "msx", NEW buffer \in Nat,
         buffer >= 3 * PAGE \/ buffer + BufLen <= PAGE \/ BufLen = 0
  PROVE  /\ [Packet(BusCall) EXCEPT !.data = DataSeen(buffer, @)] = Packet(BusCall)
         /\ \A n \in 0..BusCall.want : ReplySeen(buffer, DeviceReply(cur, n)) = DeviceReply(cur, n)
<1>1. PICK m \in Nat : m = BufLen /\ BusCall.want \in Nat /\ BusCall.want <= m
  BY BufferFits
<1>2. \A i \in 1..m : Seen(buffer, i)
  <2>1. CASE BufLen = 0
    BY <1>1, <2>1
  <2>2. CASE BufLen # 0
    BY <1>1, <2>2, InSight
  <2>3. QED
    BY <2>1, <2>2
<1>3. PICK d \in Seq(Bytes) : d = BusData(BusCall) /\ Len(d) <= m
  BY <1>1, BufferFits
<1>4. DataSeen(buffer, d) = d
  <2>1. DOMAIN d \subseteq 1..m /\ d = [i \in DOMAIN d |-> d[i]]
    BY <1>1, <1>3, LenProperties
  <2>2. QED
    BY <1>1, <1>2, <2>1, SeenAsItIs
<1>5. [Packet(BusCall) EXCEPT !.data = DataSeen(buffer, @)] = Packet(BusCall)
  <2>1. PICK packet : packet = Packet(BusCall)
    OBVIOUS
  <2>2. /\ DOMAIN packet = {"kind", "cmd", "unit", "aux", "data"} /\ packet.data = d
        /\ packet = [kind |-> packet.kind, cmd |-> packet.cmd, unit |-> packet.unit,
                     aux |-> packet.aux, data |-> packet.data]
    BY <1>3, <2>1 DEF Packet
  <2>3. [packet EXCEPT !.data = DataSeen(buffer, @)] = packet
    BY <1>4, <2>2
  <2>4. QED
    BY <2>1, <2>3
<1>6. ASSUME NEW n \in 0..BusCall.want
      PROVE  ReplySeen(buffer, DeviceReply(cur, n)) = DeviceReply(cur, n)
  <2>1. n \in Nat /\ n <= m
    BY <1>1
  <2>2. PICK d2 : d2 = DeviceReply(cur, n)
    OBVIOUS
  <2>3. DOMAIN d2 = 1..n /\ d2 = [i \in DOMAIN d2 |-> d2[i]]
    BY <2>1, <2>2, ReplyForm
  <2>4. DOMAIN d2 \subseteq 1..m
    BY <1>1, <2>1, <2>3
  <2>5. QED
    BY <1>1, <1>2, <2>2, <2>3, <2>4, SeenAsItIs
<1>7. QED
  BY <1>5, <1>6

-----------------------------------------------------------------------------
(* What a call means does not change while it is carried out. *)

(* A request makes the same bus call throughout. *)
LEMMA SameCall ==
  ASSUME UNCHANGED <<platform, req>>
  PROVE  BusCall' = BusCall
<1>1. platform' = platform /\ req' = req
  OBVIOUS
<1>2. \A l, a, d, w : Sub(l, a, d, w)' = Sub(l, a, d, w)
  BY <1>1 DEF Sub
<1>3. \A sub : C64Unit(sub)' = C64Unit(sub)
  BY <1>1 DEF C64Unit
<1>4. DevcallVld' = DevcallVld
  BY <1>1 DEF DevcallVld, Sub
<1>5. NetworkSeek' = NetworkSeek
  BY <1>1 DEF NetworkSeek, NetworkSeekAtari, Sub
<1>6. NetworkBusRead' = NetworkBusRead
  BY <1>1 DEF NetworkBusRead, C64Unit, Sub
<1>7. NetworkBusWrite' = NetworkBusWrite
  BY <1>1 DEF NetworkBusWrite, C64Unit, Sub
<1>8. NativeBlock' = NativeBlock
  BY <1>1 DEF NativeBlock
<1>9. Sub(req.layout, req.args, NativeBlock, req.want)' = Sub(req.layout, req.args, NativeBlock, req.want)
  BY <1>1, <1>8 DEF Sub
<1>11. CASE req.op = "vld"
  BY <1>1, <1>4, <1>11 DEF BusCall
<1>12. CASE req.op = "seek"
  BY <1>1, <1>5, <1>12 DEF BusCall
<1>13. CASE req.op = "read"
  BY <1>1, <1>6, <1>13 DEF BusCall
<1>14. CASE req.op = "write"
  BY <1>1, <1>7, <1>14 DEF BusCall
<1>15. CASE req.op \notin {"vld", "seek", "read", "write"}
  <2>1. BusCall = Sub(req.layout, req.args, NativeBlock, req.want)
    BY <1>15 DEF BusCall
  <2>2. BusCall' = Sub(req.layout, req.args, NativeBlock, req.want)'
    BY <1>1, <1>15 DEF BusCall
  <2>3. QED
    BY <1>9, <2>1, <2>2
<1>16. QED
  BY <1>11, <1>12, <1>13, <1>14, <1>15

(* A request means the same throughout its call. *)
LEMMA SameMeaning ==
  ASSUME UNCHANGED <<platform, req, memory>>
  PROVE  /\ Told' = Told /\ ToldAll' = ToldAll /\ (ReadsKey' <=> ReadsKey)
         /\ (OutOfReach' <=> OutOfReach) /\ (OnlyAsks' <=> OnlyAsks) /\ Wanted' = Wanted
         /\ (Made' <=> Made)
<1>1. platform' = platform /\ req' = req /\ memory' = memory /\ BusCall' = BusCall
  BY SameCall
<1>2. \A n : InBlock(n)' = InBlock(n)
  BY <1>1 DEF InBlock
<1>3. Told' = Told
  BY <1>1 DEF Told, Meant, UnitLost, InBlock
<1>4. (ReadsKey' <=> ReadsKey) /\ Wanted' = Wanted /\ (OnlyAsks' <=> OnlyAsks)
  BY <1>1 DEF ReadsKey, Wanted, OnlyAsks
<1>5. ToldAll' = ToldAll
  BY <1>3, <1>4 DEF ToldAll
<1>6. OutOfReach' <=> OutOfReach
  <2>1. BufLen' = BufLen
    BY <1>1 DEF BufLen
  <2>2. (Straddles' <=> Straddles) /\ (STACK_IS_SAFE' <=> STACK_IS_SAFE)
    BY <1>1, <2>1 DEF Straddles, STACK_IS_SAFE
  <2>3. WellPlaced' <=> WellPlaced
    BY <1>1, <2>2 DEF WellPlaced
  <2>4. QED
    BY <1>1, <2>3 DEF OutOfReach
<1>7. Made' <=> Made
  BY <1>1, <1>6 DEF Made
<1>8. QED
  BY <1>3, <1>4, <1>5, <1>6, <1>7

(* A reply that stays is still the reply to this call. *)
LEMMA SameBytes ==
  ASSUME UNCHANGED <<platform, cur, req, reply>>
  PROVE  OwnBytes' <=> OwnBytes
BY DEF OwnBytes, Native

(* One command arrives, or two. *)
LEMMA CommandsForm ==
  ASSUME Made
  PROVE  /\ ReadsKey => platform = "c64"
         /\ platform # "c64" => ToldAll = <<Told>>
         /\ ~ReadsKey => ToldAll = <<Told>>
         /\ ReadsKey => ToldAll = <<Told, [Told EXCEPT !.cmd = "READ_APPKEY", !.data = <<>>]>>
<1>1. ReadsKey => platform = "c64"
  BY DEF ReadsKey, Made, WellFormed, Special
<1>2. QED
  BY <1>1 DEF ToldAll

(* Sequences of one and of two commands. *)
LEMMA Appended ==
  ASSUME NEW x, NEW y
  PROVE  Append(<<>>, x) = <<x>> /\ Append(<<x>>, y) = <<x, y>>
<1>1. PICK S : x \in S /\ y \in S
  <2>1. x \in {x, y} /\ y \in {x, y}
    OBVIOUS
  <2>2. QED
    BY <2>1
<1>2. Append(<<>>, x) = <<x>>
  <2>1. <<>> \in Seq(S) /\ <<x>> \in Seq(S) /\ Len(<<x>>) = 1 /\ Len(<<>>) = 0
    BY <1>1
  <2>2. PICK s \in Seq(S), t \in Seq(S) : s = Append(<<>>, x) /\ t = <<x>> /\ Len(t) = 1 /\ t[1] = x
    BY <1>1, <2>1, AppendProperties
  <2>3. Len(s) = 1 /\ s[1] = x
    BY <1>1, <2>1, <2>2, AppendProperties
  <2>4. QED
    BY <2>2, <2>3, SeqEqual
<1>3. Append(<<x>>, y) = <<x, y>>
  <2> DEFINE s == <<x>>
             t == <<x, y>>
             u == Append(s, y)
  <2>1. s \in Seq(S) /\ Len(s) = 1 /\ s[1] = x
    BY <1>1
  <2>2. t \in Seq(S) /\ Len(t) = 2 /\ t[1] = x /\ t[2] = y
    BY <1>1
  <2> HIDE DEF s, t
  <2>3. u \in Seq(S) /\ Len(u) = 2 /\ u[1] = x /\ u[2] = y
    <3>1. u \in Seq(S) /\ Len(u) = Len(s) + 1 /\ u[Len(s) + 1] = y /\ \A i \in 1..Len(s) : u[i] = s[i]
      <4>1. s \in Seq(S) /\ y \in S
        BY <1>1, <2>1
      <4>2. QED
        BY <4>1, AppendProperties
    <3>2. QED
      BY <2>1, <3>1
  <2> HIDE DEF u
  <2>4. \A i \in 1..Len(u) : u[i] = t[i]
    BY <2>2, <2>3
  <2>5. u = t
    BY <2>2, <2>3, <2>4, SeqEqual
  <2>6. QED
    BY <2>5 DEF s, t, u
<1>4. QED
  BY <1>2, <1>3

(***************************************************************************)
(* The commands of a call, step by step.                                   *)
(***************************************************************************)

Steps(p) ==
  CASE p = "apple2" -> {"lookup", "control", "status", "block"}
    [] p = "msx" -> {"discover", "enter"}
    [] p = "c64" -> {"open"} \cup InSession
    [] OTHER -> {"transact"}

(* A call of the library is under way, on its machine. *)
MadeInv ==
  /\ platform \in Platforms /\ platform \in Computers /\ WellFormed(platform, req)
  /\ pc \in {"idle"} \cup Steps(platform)
  /\ pc # "idle" => ~outcome.ok
  /\ platform = "msx" => memory \in Memories

(* The Apple II goes on with a call only when it has the id of the device,
   and keeps it for the key it has opened; at the STATUS the unit is still
   that of this call. *)
RouteInv ==
  platform = "apple2" =>
    /\ pc \in {"control", "status", "block"} \/ (pc = "idle" /\ outcome.ok) => sp_id[Wanted] # 0
    /\ pc \in {"control", "status"} => req.op \notin {"read", "write"}
    /\ pc = "block" => req.op \in {"read", "write"}
    /\ pc = "control" => ~accepted
    /\ pc = "status" => BusCall.want > 0 /\ (req.kind = "net" => sp_nw_unit = req.unit)

(* What the FujiNet has carried out by then. *)
RanInv ==
  /\ ran \in {<<>>, <<Told>>, ToldAll}
  /\ pc \in {"lookup", "control", "block", "discover", "enter", "open", "payload", "transact"} =>
       ran = <<>>
  /\ pc = "status" =>
       IF OnlyAsks \/ ~accepted THEN ran = <<>> ELSE ran = <<Told>> /\ held = cur
  /\ pc \in {"answer", "key"} => ran = <<Told>> /\ held = cur
  /\ pc \in {"key", "keyanswer"} => ReadsKey
  /\ pc \in {"keyanswer", "reply"} => ran = ToldAll /\ held = cur
  /\ pc = "close" /\ success => ran = ToldAll
  /\ outcome.ok /\ ~ControlRefused => ran = ToldAll

(* And what of the answer the caller has. *)
ReplyInv == pc # "idle" \/ (outcome.ok /\ ~ControlRefused) => OwnBytes

ArrivalInv == MadeInv /\ RouteInv /\ (Made => RanInv /\ ReplyInv)

(* A call that fails has had none of its commands carried out, some, or all. *)
LEMMA Failed ==
  ASSUME MadeInv, Return(FALSE), UNCHANGED <<platform, cur, req, memory>>,
         Made => ran' \in {<<>>, <<Told>>, ToldAll}
  PROVE  ArrivalInv'
<1>1. pc' = "idle" /\ ~outcome'.ok
  BY DEF Return
<1>2. Told' = Told /\ ToldAll' = ToldAll /\ (Made' <=> Made)
  BY SameMeaning
<1>3. MadeInv'
  BY <1>1 DEF MadeInv
<1>4. RouteInv'
  BY <1>1 DEF RouteInv
<1>5. Made' => RanInv' /\ ReplyInv'
  BY <1>1, <1>2 DEF RanInv, ReplyInv
<1>6. QED
  BY <1>3, <1>4, <1>5 DEF ArrivalInv

(* One that succeeds has had all, and its answer. *)
LEMMA Succeeded ==
  ASSUME MadeInv, Return(TRUE), UNCHANGED <<platform, cur, req, memory>>,
         platform = "apple2" => sp_id'[Wanted] # 0,
         Made => ran' \in {<<>>, <<Told>>, ToldAll},
         Made => ControlRefused' \/ (ran' = ToldAll /\ OwnBytes')
  PROVE  ArrivalInv'
<1>1. pc' = "idle"
  BY DEF Return
<1>2. Told' = Told /\ ToldAll' = ToldAll /\ (Made' <=> Made) /\ Wanted' = Wanted
  BY SameMeaning
<1>3. MadeInv'
  BY <1>1 DEF MadeInv
<1>4. RouteInv'
  BY <1>1, <1>2 DEF RouteInv
<1>5. Made' => RanInv' /\ ReplyInv'
  BY <1>1, <1>2 DEF RanInv, ReplyInv
<1>6. QED
  BY <1>3, <1>4, <1>5 DEF ArrivalInv

(* Nothing was carried out at the start. *)
LEMMA ArrivalInit == Init => ArrivalInv
<1> SUFFICES ASSUME Init PROVE ArrivalInv
  OBVIOUS
<1>1. platform \in Platforms /\ platform \in Computers /\ pc = "idle" /\ req = Plain /\ ran = <<>> /\ outcome = NoOutcome
  BY HostCallAssumption DEF HostCallAssumption, Init, CallInit, Computers
<1>2. ~outcome.ok
  BY <1>1 DEF NoOutcome
<1>3. WellFormed(platform, req)
  <2>1. Plain.op = "call" /\ Plain.kind = "fuji" /\ Plain.layout = "NONE" /\ Plain.args = <<>>
        /\ Plain.unit = 0 /\ Plain.data = <<>> /\ Plain.want = 0 /\ Plain.int = 0
        /\ Plain.cmd \notin {"OPEN_APPKEY", "READ_APPKEY", "BASE64_ENCODE_LENGTH", "BASE64_DECODE_LENGTH", "QRCODE_LENGTH"}
    BY DEF Plain
  <2>2. PayloadIntSize("fuji", Plain.cmd) = 0
    BY <2>1 DEF PayloadIntSize
  <2>3. Fit("NONE", <<>>) /\ NumBytes("NONE") = 0 /\ "NONE" \in Layouts
    BY DEF Fit, NumBytes, NumFields, Layouts
  <2>4. "fuji" \in Kinds /\ 0 \in 0..LastUnit
    BY ApiAssumption DEF ApiAssumption, Kinds
  <2>5. <<>> \in Texts
    BY DEF Texts
  <2>6. WellFormed(platform, Plain)
    BY <1>1, <2>1, <2>2, <2>3, <2>4, <2>5, ShapedCall
  <2>7. QED
    BY <1>1, <2>6
<1>4. platform = "msx" => memory \in Memories
  BY DEF Init, UnapiInit
<1>5. MadeInv
  BY <1>1, <1>2, <1>3, <1>4 DEF MadeInv
<1>6. RouteInv
  BY <1>1, <1>2 DEF RouteInv
<1>7. RanInv /\ ReplyInv
  BY <1>1, <1>2 DEF RanInv, ReplyInv
<1>8. QED
  BY <1>5, <1>6, <1>7 DEF ArrivalInv

(* fuji_read_appkey() of the Apple II goes on where the opening of the key
   has left off: with the id that was kept then. *)
LEMMA CallArrival ==
  ASSUME ArrivalInv, NEW r \in Asks[platform], Call(r), UNCHANGED <<spVars, unapiVars, iecVars>>
  PROVE  ArrivalInv'
<1>1. platform \in Platforms /\ platform \in Computers /\ platform' = platform /\ req' = r /\ pc = "idle"
      /\ ran' = <<>> /\ reply' = <<>> /\ ~outcome'.ok /\ memory' = memory /\ sp_id' = sp_id
      /\ pc' = FirstStep(r)
  BY DEF ArrivalInv, MadeInv, Call, NoOutcome, unapiVars, spVars
<1>2. WellFormed(platform, r)
  <2>1. Asks[platform] = Requests(platform)
    BY <1>1 DEF Asks
  <2>2. QED
    BY <1>1, <2>1, RequestForm
<1>3. pc' \in Steps(platform) /\ pc' \in {"lookup", "status", "discover", "open", "transact"}
      /\ (pc' = "status" => platform = "apple2" /\ r.op = "appkey")
  BY <1>1 DEF FirstStep, Steps
<1>4. MadeInv'
  BY <1>1, <1>2, <1>3 DEF MadeInv, ArrivalInv, Steps
<1>5. ASSUME pc' = "status"
      PROVE  /\ sp_id'[Wanted'] # 0 /\ req'.kind = "fuji" /\ req'.op = "appkey"
             /\ BusCall'.want > 0 /\ OnlyAsks'
  <2>1. platform = "apple2" /\ r.op = "appkey" /\ Special(platform, r)
    BY <1>2, <1>3, <1>5 DEF WellFormed
  <2>2. r.kind = "fuji" /\ r.want > 0 /\ r.layout = "NONE" /\ r.data = <<>>
    BY <2>1 DEF Special
  <2>3. req.cmd = "OPEN_APPKEY" /\ outcome.ok
    BY <2>1 DEF Call
  <2>4. req.kind = "fuji"
    BY <2>3 DEF ArrivalInv, MadeInv, WellFormed
  <2>5. Wanted = "fuji" /\ Wanted' = "fuji"
    BY <1>1, <2>2, <2>4 DEF Wanted
  <2>6. sp_id["fuji"] # 0
    BY <1>1, <2>1, <2>3, <2>5 DEF ArrivalInv, RouteInv
  <2>7. BusCall' = Sub(req.layout, req.args, NativeBlock, req.want)'
    BY <1>1, <2>1 DEF BusCall
  <2>8. BusCall'.want = r.want /\ BusCall'.layout = r.layout /\ BusCall'.data = NativeBlock'
    BY <1>1, <2>7 DEF Sub
  <2>9. NativeBlock' = <<>>
    BY <1>1, <2>2 DEF NativeBlock
  <2>10. OnlyAsks'
    BY <2>2, <2>8, <2>9 DEF OnlyAsks
  <2>11. QED
    BY <1>1, <2>1, <2>2, <2>5, <2>6, <2>8, <2>10
<1>6. RouteInv'
  BY <1>1, <1>3, <1>5 DEF RouteInv
<1>7. RanInv'
  BY <1>1, <1>3, <1>5 DEF RanInv
<1>8. ReplyInv'
  <2>1. req'.want \in Nat
    BY <1>1, <1>2, WordType DEF WellFormed, Asked
  <2>2. QED
    BY <1>1, <2>1, NoReply DEF ReplyInv
<1>9. QED
  BY <1>4, <1>6, <1>7, <1>8 DEF ArrivalInv

(* Each machine has steps of its own. *)
LEMMA StepsOf ==
  ASSUME MadeInv
  PROVE  /\ pc \in {"lookup", "control", "status", "block"} => platform = "apple2"
         /\ pc \in {"discover", "enter"} => platform = "msx"
         /\ pc \in {"open"} \cup InSession => platform = "c64"
         /\ pc = "transact" => platform \notin {"apple2", "msx", "c64"}
<1>1. pc \in {"idle"} \cup Steps(platform)
  BY DEF MadeInv
<1>2. CASE platform = "apple2"
  <2>1. Steps(platform) = {"lookup", "control", "status", "block"}
    BY <1>2 DEF Steps
  <2>2. QED
    BY <1>1, <1>2, <2>1 DEF InSession
<1>3. CASE platform = "msx"
  <2>1. Steps(platform) = {"discover", "enter"}
    BY <1>3 DEF Steps
  <2>2. QED
    BY <1>1, <1>3, <2>1 DEF InSession
<1>4. CASE platform = "c64"
  <2>1. Steps(platform) = {"open"} \cup InSession
    BY <1>4 DEF Steps
  <2>2. QED
    BY <1>1, <1>4, <2>1 DEF InSession
<1>5. CASE platform \notin {"apple2", "msx", "c64"}
  <2>1. Steps(platform) = {"transact"}
    BY <1>5 DEF Steps
  <2>2. QED
    BY <1>1, <1>5, <2>1 DEF InSession
<1>6. QED
  BY <1>2, <1>3, <1>4, <1>5

(* Nothing is out of an Apple II's reach, and none of its calls is that of
   another machine. *)
LEMMA AppleMade ==
  ASSUME MadeInv, platform = "apple2"
  PROVE  /\ Made /\ ToldAll = <<Told>> /\ ~AtariSeek /\ ~ReadsKey
         /\ req.want \in Nat /\ BusCall.want = req.want
         /\ Wanted = (IF req.op \in {"read", "write"} THEN "fuji" ELSE req.kind)
<1>1. Made
  BY DEF MadeInv, Made, OutOfReach
<1>2. req.want \in Nat
  BY <1>1, WordType DEF Made, WellFormed, Asked
<1>3. QED
  BY <1>1, <1>2, CommandsForm, CallForm DEF AtariSeek, Wanted

(* A step that has not reached the FujiNet yet goes on. *)
LEMMA NotYet ==
  ASSUME ArrivalInv, UNCHANGED <<platform, cur, req, memory, ran, reply, outcome>>,
         pc # "idle", pc' \in Steps(platform), ran = <<>>,
         pc' \in {"lookup", "control", "block", "discover", "enter", "open", "payload", "transact"},
         RouteInv'
  PROVE  ArrivalInv'
<1>1. Told' = Told /\ ToldAll' = ToldAll /\ (Made' <=> Made)
  BY SameMeaning
<1>2. MadeInv'
  BY DEF ArrivalInv, MadeInv, Steps
<1>3. pc' # "idle" /\ ~outcome'.ok
  BY DEF ArrivalInv, MadeInv
<1>4. Made' => RanInv'
  BY <1>1, <1>3 DEF RanInv
<1>5. Made' => ReplyInv'
  <2>1. OwnBytes' <=> OwnBytes
    BY SameBytes
  <2>2. QED
    BY <1>1, <2>1 DEF ReplyInv, ArrivalInv
<1>6. QED
  BY <1>2, <1>4, <1>5 DEF ArrivalInv

(* The search for a device carries out nothing. *)
LEMMA LookupArrival ==
  ASSUME ArrivalInv, Lookup, UNCHANGED <<unapiVars, iecVars>>
  PROVE  ArrivalInv'
<1>1. /\ pc = "lookup" /\ UNCHANGED <<platform, cur, req, memory, ran, reply>> /\ ~accepted'
  BY DEF Lookup, unapiVars
<1>2. platform = "apple2"
  BY <1>1, StepsOf DEF ArrivalInv
<1>3. Made /\ ran = <<>>
  BY <1>1, <1>2, AppleMade DEF ArrivalInv, RanInv
<1>4. CASE sp_id'[Wanted] = 0
  <2>1. Return(FALSE)
    BY <1>4 DEF Lookup
  <2>2. QED
    BY <1>1, <1>3, <2>1, Failed DEF ArrivalInv
<1>5. CASE sp_id'[Wanted] # 0
  <2>1. pc' = (IF req.op \in {"read", "write"} THEN "block" ELSE "control") /\ UNCHANGED outcome
    BY <1>5 DEF Lookup
  <2>2. Wanted' = Wanted
    BY <1>1, SameMeaning
  <2>3. RouteInv'
    BY <1>1, <1>5, <2>1, <2>2 DEF RouteInv
  <2>4. pc' \in Steps(platform)
    BY <1>2, <2>1 DEF Steps
  <2>5. QED
    BY <1>1, <1>3, <2>1, <2>3, <2>4, NotYet
<1>6. QED
  BY <1>4, <1>5

(* The packet of a CONTROL or STATUS reaches the device it is for. *)
LEMMA SentRight ==
  ASSUME MadeInv, SPInv, platform = "apple2", req.op \notin {"read", "write"},
         sp_id[Wanted] # 0, req.kind = "net" => sp_nw_unit' = req.unit
  PROVE  Understood(Delivered(Packet(BusCall), sp_id[req.kind])) = Told
<1>1. Made /\ ~InBlocks /\ ~AtariSeek /\ Wanted = req.kind
  BY AppleMade DEF InBlocks
<1>2. Delivered(Packet(BusCall), sp_id[req.kind]) = Packet(BusCall)
  BY <1>1, DeliveredSame
<1>3. Understood(Packet(BusCall)) = Told
  BY <1>1, Carried
<1>4. QED
  BY <1>2, <1>3

(* CONTROL carries the command out, or is refused. *)
LEMMA ControlArrival ==
  ASSUME ArrivalInv, SPInv, Control, UNCHANGED <<unapiVars, iecVars>>
  PROVE  ArrivalInv'
<1>1. /\ pc = "control" /\ UNCHANGED <<platform, cur, req, memory, reply, sp_id>>
      /\ sp_nw_unit' = NetworkUnit
  BY DEF Control, unapiVars
<1>2. platform = "apple2"
  BY <1>1, StepsOf DEF ArrivalInv
<1>3. /\ Made /\ ToldAll = <<Told>> /\ BusCall.want = req.want /\ req.want \in Nat
      /\ ran = <<>> /\ OwnBytes /\ ~outcome.ok
  BY <1>1, <1>2, AppleMade DEF ArrivalInv, RanInv, ReplyInv, MadeInv
<1>4. req.op \notin {"read", "write"} /\ sp_id[Wanted] # 0 /\ ~accepted
  BY <1>1, <1>2 DEF ArrivalInv, RouteInv
<1>5. req.kind = "net" => sp_nw_unit' = req.unit
  <2>1. BusCall.kind = req.kind /\ BusCall.unit = req.unit
    BY <1>2, <1>3, CallForm
  <2>2. QED
    BY <1>1, <2>1 DEF NetworkUnit, ToNet
<1>6. Understood(Delivered(Packet(BusCall), sp_id[req.kind])) = Told
  BY <1>2, <1>4, <1>5, SentRight DEF ArrivalInv
<1>7. \/ /\ IF OnlyAsks THEN UNCHANGED <<ran, held>> ELSE ran' = <<Told>> /\ held' = cur
         /\ accepted' /\ AfterControl(TRUE)
      \/ UNCHANGED <<ran, held, accepted>> /\ AfterControl(FALSE)
  <2>1. CASE /\ IF OnlyAsks THEN UNCHANGED <<ran, held>>
                ELSE CarryOut(Delivered(Packet(BusCall), sp_id[req.kind]))
             /\ accepted' = TRUE /\ AfterControl(TRUE)
    <3>1. ~OnlyAsks => ran' = <<Told>> /\ held' = cur
      <4>1. ~OnlyAsks => ran' = Append(ran, Told) /\ held' = cur
        BY <1>6, <2>1 DEF CarryOut
      <4>2. QED
        BY <1>3, <4>1, Appended
    <3>2. QED
      BY <2>1, <3>1
  <2>2. CASE UNCHANGED <<ran, held, accepted>> /\ AfterControl(FALSE)
    BY <2>2
  <2>3. QED
    BY <2>1, <2>2 DEF Control
<1>8. /\ Told' = Told /\ ToldAll' = ToldAll /\ (OnlyAsks' <=> OnlyAsks) /\ Wanted' = Wanted
      /\ BusCall' = BusCall
  BY <1>1, SameMeaning, SameCall
<1>9. OwnBytes'
  BY <1>1, <1>3, SameBytes
<1>10. CASE BusCall.want > 0
  <2>1. pc' = "status" /\ UNCHANGED outcome
    BY <1>7, <1>10 DEF AfterControl
  <2>2. MadeInv'
    BY <1>1, <1>2, <1>3, <2>1 DEF ArrivalInv, MadeInv, Steps
  <2>3. RouteInv'
    BY <1>1, <1>4, <1>5, <1>8, <1>10, <2>1 DEF RouteInv
  <2>4. RanInv'
    <3>1. ~outcome'.ok /\ cur' = cur
      BY <1>1, <1>3, <2>1
    <3>2. IF OnlyAsks' \/ ~accepted' THEN ran' = <<>> ELSE ran' = <<Told'>> /\ held' = cur'
      <4>1. CASE IF OnlyAsks THEN UNCHANGED <<ran, held>> ELSE ran' = <<Told>> /\ held' = cur
        BY <1>1, <1>3, <1>4, <1>7, <1>8, <4>1
      <4>2. CASE UNCHANGED <<ran, held, accepted>>
        BY <1>3, <1>4, <4>2
      <4>3. QED
        BY <1>7, <4>1, <4>2
    <3>3. ran' \in {<<>>, <<Told'>>}
      BY <3>2
    <3>4. QED
      BY <2>1, <3>1, <3>2, <3>3 DEF RanInv
  <2>5. ReplyInv'
    BY <1>9 DEF ReplyInv
  <2>6. QED
    BY <2>2, <2>3, <2>4, <2>5 DEF ArrivalInv
<1>11. CASE ~(BusCall.want > 0)
  <2>1. ~OnlyAsks
    BY <1>11 DEF OnlyAsks
  <2>2. CASE ran' = <<Told>> /\ AfterControl(TRUE)
    <3>1. Return(TRUE)
      BY <1>11, <2>2 DEF AfterControl
    <3>2. QED
      BY <1>1, <1>3, <1>4, <1>9, <2>2, <3>1, Succeeded DEF ArrivalInv
  <2>3. CASE UNCHANGED ran /\ AfterControl(FALSE)
    <3>1. Return(FALSE)
      BY <1>11, <2>3 DEF AfterControl
    <3>2. QED
      BY <1>1, <1>3, <2>3, <3>1, Failed DEF ArrivalInv
  <2>4. QED
    BY <1>7, <2>1, <2>2, <2>3
<1>12. QED
  BY <1>10, <1>11

(* The STATUS fetches this call's answer, unless the CONTROL was refused. *)
LEMMA StatusArrival ==
  ASSUME ArrivalInv, SPInv, Status, UNCHANGED <<unapiVars, iecVars>>
  PROVE  ArrivalInv'
<1>1. /\ pc = "status" /\ UNCHANGED <<platform, cur, req, memory, sp_id, sp_nw_unit, accepted>>
  BY DEF Status, unapiVars, spVars
<1>2. platform = "apple2"
  BY <1>1, StepsOf DEF ArrivalInv
<1>3. /\ Made /\ ToldAll = <<Told>> /\ BusCall.want = req.want /\ req.want \in Nat /\ ~ReadsKey
      /\ IF OnlyAsks \/ ~accepted THEN ran = <<>> ELSE ran = <<Told>> /\ held = cur
  BY <1>1, <1>2, AppleMade DEF ArrivalInv, RanInv
<1>4. /\ req.op \notin {"read", "write"} /\ sp_id[Wanted] # 0 /\ BusCall.want > 0
      /\ req.kind = "net" => sp_nw_unit = req.unit
  BY <1>1, <1>2 DEF ArrivalInv, RouteInv
<1>5. OnlyAsks \/ req.op = "call"
  <2>1. ASSUME req.op # "call" PROVE OnlyAsks
    <3>1. req.op \in Ops /\ Special(platform, req)
      BY <1>3, <2>1 DEF Made, WellFormed
    <3>2. req.op = "appkey"
      <4>1. req.op \notin {"vld", "seek"}
        BY <1>3, <1>4, <3>1 DEF Special
      <4>2. QED
        BY <1>3, <1>4, <2>1, <3>1, <4>1 DEF Ops, ReadsKey
    <3>3. req.layout = "NONE" /\ req.data = <<>>
      BY <3>1, <3>2 DEF Special
    <3>4. BusCall.layout = req.layout /\ BusCall.data = NativeBlock
      BY <3>2 DEF BusCall, Sub
    <3>5. NativeBlock = <<>>
      BY <3>3 DEF NativeBlock
    <3>6. QED
      BY <1>4, <3>3, <3>4, <3>5 DEF OnlyAsks
  <2>2. QED
    BY <2>1
<1>6. Understood(Delivered(Packet(BusCall), sp_id[req.kind])) = Told
  BY <1>1, <1>2, <1>4, SentRight DEF ArrivalInv
<1>7. CASE /\ \E n \in 0..BusCall.want : reply' = DeviceReply(IF OnlyAsks THEN cur ELSE held, n)
           /\ IF OnlyAsks THEN CarryOut(Delivered(Packet(BusCall), sp_id[req.kind]))
              ELSE UNCHANGED <<ran, held>>
           /\ Return(TRUE)
  <2>1. pc' = "idle" /\ sp_id'[Wanted] # 0
    BY <1>1, <1>4, <1>7 DEF Return
  <2>2. ASSUME OnlyAsks
        PROVE  ran' = ToldAll /\ OwnBytes'
    <3>1. ran' = Append(ran, Told)
      BY <1>6, <1>7, <2>2 DEF CarryOut
    <3>2. ran' = <<Told>>
      BY <1>3, <2>2, <3>1, Appended
    <3>3. PICK n \in 0..req.want : reply' = DeviceReply(cur, n)
      BY <1>3, <1>7, <2>2
    <3>4. OwnBytes'
      BY <1>1, <1>2, <1>3, <3>3, OwnAnswered
    <3>5. QED
      BY <1>3, <3>2, <3>4
  <2>3. ASSUME ~OnlyAsks, accepted
        PROVE  ran' = ToldAll /\ OwnBytes'
    <3>1. ran' = <<Told>> /\ held = cur
      BY <1>3, <1>7, <2>3
    <3>2. PICK n \in 0..req.want : reply' = DeviceReply(cur, n)
      BY <1>3, <1>7, <2>3, <3>1
    <3>3. OwnBytes'
      BY <1>1, <1>2, <1>3, <3>2, OwnAnswered
    <3>4. QED
      BY <1>3, <3>1, <3>3
  <2>4. ASSUME ~OnlyAsks, ~accepted
        PROVE  ControlRefused' /\ ran' = <<>>
    <3>1. ran' = <<>> /\ req.op = "call"
      BY <1>3, <1>5, <1>7, <2>4
    <3>2. QED
      BY <1>1, <1>2, <2>1, <2>4, <3>1 DEF ControlRefused
  <2>5. QED
    BY <1>1, <1>3, <1>7, <2>1, <2>2, <2>3, <2>4, Succeeded DEF ArrivalInv
<1>8. CASE Return(FALSE) /\ UNCHANGED <<ran, held, reply>>
  <2>1. ran' \in {<<>>, <<Told>>, ToldAll}
    BY <1>3, <1>8
  <2>2. QED
    BY <1>1, <1>8, <2>1, Failed DEF ArrivalInv
<1>9. QED
  BY <1>7, <1>8 DEF Status

(* A block goes to the network device, and its answer fits. *)
LEMMA BlockArrival ==
  ASSUME ArrivalInv, Block, UNCHANGED <<unapiVars, iecVars>>
  PROVE  ArrivalInv'
<1>1. pc = "block" /\ UNCHANGED <<platform, cur, req, memory, sp_id>> /\ sp_nw_unit' = req.unit
  BY DEF Block, unapiVars
<1>2. platform = "apple2"
  BY <1>1, StepsOf DEF ArrivalInv
<1>3. Made /\ ToldAll = <<Told>> /\ req.want \in Nat /\ ran = <<>>
  BY <1>1, <1>2, AppleMade DEF ArrivalInv, RanInv
<1>4. InBlocks /\ sp_id[Wanted] # 0
  BY <1>1, <1>2 DEF ArrivalInv, RouteInv, InBlocks
<1>5. CASE /\ Reached(sp_id["net"]) = "net"
           /\ CarryOut(Delivered(BlockPacket, sp_id["net"]))
           /\ \E n \in 0..Clip(req.want) : reply' = DeviceReply(cur, n)
           /\ Return(TRUE)
  <2>1. Understood(Delivered(BlockPacket, sp_id["net"])) = Told
    BY <1>1, <1>3, <1>4, <1>5, BlockCarried
  <2>2. ran' = Append(ran, Told)
    BY <1>5, <2>1 DEF CarryOut
  <2>3. ran' = ToldAll
    BY <1>3, <2>2, Appended
  <2>4. PICK n \in 0..req.want : reply' = DeviceReply(cur, n)
    <3>1. Clip(req.want) \in Nat /\ Clip(req.want) <= req.want
      BY <1>3, SmartPortAssumption DEF SmartPortAssumption, Clip
    <3>2. PICK n \in 0..Clip(req.want) : reply' = DeviceReply(cur, n)
      BY <1>5
    <3>3. n \in 0..req.want
      BY <1>3, <3>1, <3>2
    <3>4. QED
      BY <3>2, <3>3
  <2>5. OwnBytes'
    BY <1>1, <1>2, <1>3, <2>4, OwnAnswered
  <2>6. QED
    BY <1>1, <1>4, <1>5, <2>3, <2>5, Succeeded DEF ArrivalInv
<1>6. CASE Return(FALSE) /\ UNCHANGED <<ran, held, reply>>
  BY <1>1, <1>3, <1>6, Failed DEF ArrivalInv
<1>7. QED
  BY <1>5, <1>6 DEF Block

(* One exchange: carried out and answered, or failed before or after. *)
LEMMA TransactArrival ==
  ASSUME ArrivalInv, Transact, UNCHANGED <<spVars, unapiVars, iecVars>>
  PROVE  ArrivalInv'
<1>1. pc = "transact" /\ UNCHANGED <<platform, cur, req, memory>>
  BY DEF Transact, unapiVars
<1>2. platform \notin {"apple2", "msx", "c64"}
  BY <1>1, StepsOf DEF ArrivalInv
<1>3. ASSUME Made
      PROVE  /\ ToldAll = <<Told>> /\ ran = <<>> /\ BusCall.want = req.want
             /\ Understood(Packet(BusCall)) = Told
             /\ req.want \in Nat /\ req.int \in {0, 2, 4} /\ (req.want > 0 => req.want >= req.int)
             /\ PayloadIntSize(req.kind, req.cmd) = req.int
  <2>1. Asked(req)
    BY <1>3 DEF Made, WellFormed
  <2>2. Understood(Packet(BusCall)) = Told
    BY <1>2, <1>3, Carried, SeekCarried DEF InBlocks
  <2>3. ran = <<>>
    BY <1>1, <1>3 DEF ArrivalInv, RanInv
  <2>4. QED
    BY <1>2, <1>3, <2>1, <2>2, <2>3, CommandsForm, CallForm, WordType DEF Asked
<1>4. ASSUME Made, CarryOut(Packet(BusCall))
      PROVE  ran' = ToldAll
  <2>1. ran' = Append(ran, Told)
    BY <1>3, <1>4 DEF CarryOut
  <2>2. QED
    BY <1>3, <1>4, <2>1, Appended
<1>5. CASE /\ CarryOut(Packet(BusCall))
           /\ reply' = Swap(platform, DeviceReply(cur, BusCall.want), PayloadIntSize(req.kind, req.cmd))
           /\ Return(TRUE)
  <2>1. ASSUME Made PROVE OwnBytes'
    <3>1. reply' = Swap(platform, DeviceReply(cur, req.want), req.int)
      BY <1>3, <1>5, <2>1
    <3>2. CASE platform = "pmd85"
      BY <1>1, <1>3, <2>1, <3>1, <3>2, OwnTurned
    <3>3. CASE platform # "pmd85"
      <4>1. reply' = DeviceReply(cur, req.want)
        BY <3>1, <3>3 DEF Swap
      <4>2. req.want \in 0..req.want
        BY <1>3, <2>1
      <4>3. QED
        BY <1>1, <1>3, <2>1, <3>3, <4>1, <4>2, OwnAnswered
    <3>4. QED
      BY <3>2, <3>3
  <2>2. QED
    BY <1>1, <1>2, <1>4, <1>5, <2>1, Succeeded DEF ArrivalInv
<1>6. CASE Return(FALSE) /\ (CarryOut(Packet(BusCall)) \/ UNCHANGED <<ran, held>>)
  <2>1. Made => ran' \in {<<>>, <<Told>>, ToldAll}
    BY <1>3, <1>4, <1>6
  <2>2. QED
    BY <1>1, <1>6, <2>1, Failed DEF ArrivalInv
<1>7. QED
  BY <1>5, <1>6 DEF Transact

(* Only a call that has entered the implementation is carried out. *)
LEMMA DiscoverArrival ==
  ASSUME ArrivalInv, Discover, UNCHANGED <<spVars, iecVars>>
  PROVE  ArrivalInv'
<1>1. pc = "discover" /\ UNCHANGED <<platform, cur, req, memory, ran, reply>>
  BY DEF Discover
<1>2. platform = "msx"
  BY <1>1, StepsOf DEF ArrivalInv
<1>3. CASE Return(FALSE)
  <2>1. Made => ran' \in {<<>>, <<Told>>, ToldAll}
    BY <1>1 DEF ArrivalInv, RanInv
  <2>2. QED
    BY <1>1, <1>3, <2>1, Failed DEF ArrivalInv
<1>4. CASE pc' = "enter" /\ UNCHANGED outcome
  <2>1. pc' \in Steps(platform)
    BY <1>2, <1>4 DEF Steps
  <2>2. Made => ran = <<>>
    BY <1>1 DEF ArrivalInv, RanInv
  <2>3. RouteInv'
    BY <1>1, <1>2 DEF RouteInv
  <2>4. CASE Made
    BY <1>1, <1>4, <2>1, <2>2, <2>3, <2>4, NotYet
  <2>5. CASE ~Made
    <3>1. ~Made'
      BY <1>1, <2>5, SameMeaning
    <3>2. MadeInv'
      BY <1>1, <1>4, <2>1 DEF ArrivalInv, MadeInv
    <3>3. QED
      BY <2>3, <3>1, <3>2 DEF ArrivalInv
  <2>6. QED
    BY <2>4, <2>5
<1>5. QED
  BY <1>3, <1>4 DEF Discover

(* fuji_unapi_call() gives the implementation a block and a buffer it can see,
   or does not enter it. *)
LEMMA EnterArrival ==
  ASSUME ArrivalInv, EnterUnapi, UNCHANGED <<spVars, iecVars>>
  PROVE  ArrivalInv'
<1>1. pc = "enter" /\ UNCHANGED <<platform, cur, req, memory>>
  BY DEF EnterUnapi
<1>2. platform = "msx"
  BY <1>1, StepsOf DEF ArrivalInv
<1>3. ASSUME Made
      PROVE  /\ ToldAll = <<Told>> /\ ran = <<>> /\ Understood(Packet(BusCall)) = Told
             /\ req.want \in Nat /\ BusCall.want = req.want /\ WellPlaced /\ memory \in Memories
             /\ BufLen \in Nat
  <2>1. Understood(Packet(BusCall)) = Told
    BY <1>2, <1>3, Carried DEF InBlocks, AtariSeek
  <2>2. ran = <<>>
    BY <1>1, <1>3 DEF ArrivalInv, RanInv
  <2>3. WellPlaced /\ memory \in Memories
    BY <1>2, <1>3 DEF Made, OutOfReach, ArrivalInv, MadeInv
  <2>4. req.want \in Nat
    BY <1>3, WordType DEF Made, WellFormed, Asked
  <2>5. QED
    BY <1>2, <1>3, <2>1, <2>2, <2>3, <2>4, CommandsForm, CallForm, BufferFits
<1>4. ASSUME GiveUp PROVE ArrivalInv'
  <2>1. Made => ran' \in {<<>>, <<Told>>, ToldAll}
    BY <1>3, <1>4 DEF GiveUp
  <2>2. QED
    BY <1>1, <1>4, <2>1, Failed DEF ArrivalInv, GiveUp
<1>5. ASSUME NEW page, NEW buffer, Enter(page, buffer),
             Made => /\ page \notin {1, 2} /\ buffer \in Nat
                     /\ buffer >= 3 * PAGE \/ buffer + BufLen <= PAGE \/ BufLen = 0
      PROVE  ArrivalInv'
  <2>1. CASE /\ IF page \in {1, 2}
                THEN ran' = Append(ran, NoCommand) /\ UNCHANGED held
                ELSE CarryOut([Packet(BusCall) EXCEPT !.data = DataSeen(buffer, @)])
             /\ \E n \in 0..BusCall.want : reply' = ReplySeen(buffer, DeviceReply(cur, n))
             /\ Return(TRUE)
    <3>1. ASSUME Made PROVE ran' = ToldAll /\ OwnBytes'
      <4>1. /\ [Packet(BusCall) EXCEPT !.data = DataSeen(buffer, @)] = Packet(BusCall)
            /\ \A n \in 0..BusCall.want : ReplySeen(buffer, DeviceReply(cur, n)) = DeviceReply(cur, n)
        BY <1>2, <1>5, <3>1, SeenThrough
      <4>2. ran' = Append(ran, Told)
        <5>1. CarryOut([Packet(BusCall) EXCEPT !.data = DataSeen(buffer, @)])
          BY <1>5, <2>1, <3>1
        <5>2. CarryOut(Packet(BusCall))
          BY <4>1, <5>1 DEF CarryOut
        <5>3. QED
          BY <1>3, <3>1, <5>2 DEF CarryOut
      <4>3. ran' = ToldAll
        BY <1>3, <3>1, <4>2, Appended
      <4>4. PICK n \in 0..req.want : reply' = DeviceReply(cur, n)
        BY <1>3, <2>1, <3>1, <4>1
      <4>5. OwnBytes'
        BY <1>1, <1>2, <1>3, <3>1, <4>4, OwnAnswered
      <4>6. QED
        BY <4>3, <4>5
    <3>2. QED
      BY <1>1, <1>2, <2>1, <3>1, Succeeded DEF ArrivalInv
  <2>2. CASE Return(FALSE) /\ UNCHANGED <<ran, held, reply>>
    <3>1. Made => ran' \in {<<>>, <<Told>>, ToldAll}
      BY <1>3, <2>2
    <3>2. QED
      BY <1>1, <2>2, <3>1, Failed DEF ArrivalInv
  <2>3. QED
    BY <1>5, <2>1, <2>2 DEF Enter
<1>6. CASE NeedsBounce
  <2>1. ASSUME STACK_IS_SAFE, Enter(memory.stack, ScratchAddr) PROVE ArrivalInv'
    <3>1. memory.stack = 3
      BY <2>1 DEF STACK_IS_SAFE
    <3>2. ScratchAddr \in Nat /\ ScratchAddr >= 3 * PAGE
      BY UnapiAssumption DEF UnapiAssumption, ScratchAddr
    <3>3. QED
      BY <1>5, <2>1, <3>1, <3>2
  <2>2. QED
    BY <1>4, <1>6, <2>1 DEF EnterUnapi, BounceVia
<1>7. CASE ~NeedsBounce
  <2>1. Enter(IF STACK_IS_SAFE THEN memory.stack ELSE memory.block, memory.buffer)
    BY <1>7 DEF EnterUnapi, BounceBlock
  <2>2. Made => /\ (IF STACK_IS_SAFE THEN memory.stack ELSE memory.block) \notin {1, 2}
                /\ memory.buffer \in Nat
                /\ \/ memory.buffer >= 3 * PAGE
                   \/ memory.buffer + BufLen <= PAGE
                   \/ BufLen = 0
    BY <1>3, <1>7, Placed
  <2>3. QED
    BY <1>5, <2>1, <2>2
<1>8. QED
  BY <1>6, <1>7

(* A session of the C64 goes on. *)
LEMMA GoesOn ==
  ASSUME ArrivalInv, UNCHANGED <<platform, cur, req, memory, outcome>>, platform = "c64",
         pc # "idle", pc' \in InSession,
         Made => RanInv' /\ OwnBytes'
  PROVE  ArrivalInv'
<1>1. Steps(platform) = {"open"} \cup InSession
  BY DEF Steps
<1>2. MadeInv'
  BY <1>1 DEF ArrivalInv, MadeInv, InSession
<1>3. RouteInv'
  BY DEF RouteInv
<1>4. Made' <=> Made
  BY SameMeaning
<1>5. QED
  BY <1>2, <1>3, <1>4 DEF ArrivalInv, ReplyInv

(* What it has carried out before. *)
LEMMA SessionSoFar ==
  ASSUME ArrivalInv, Made, platform = "c64", pc \in {"open"} \cup InSession
  PROVE  /\ RanInv /\ OwnBytes /\ ~outcome.ok /\ req.want \in Nat /\ BusCall.want = req.want
         /\ Understood(Packet(BusCall)) = Told
<1>1. RanInv /\ ReplyInv /\ pc # "idle" /\ ~outcome.ok
  BY DEF ArrivalInv, MadeInv, InSession
<1>2. req.want \in Nat
  BY WordType DEF Made, WellFormed, Asked
<1>3. QED
  BY <1>1, <1>2, Carried, CallForm DEF ReplyInv, InBlocks, AtariSeek

(* OPEN carries out a command that has no payload. *)
LEMMA OpenArrival ==
  ASSUME ArrivalInv, Open, UNCHANGED <<spVars, unapiVars>>
  PROVE  ArrivalInv'
<1>1. pc = "open" /\ UNCHANGED <<platform, cur, req, memory, reply>>
  BY DEF Open, IecStep, unapiVars
<1>2. platform = "c64"
  BY <1>1, StepsOf DEF ArrivalInv
<1>3. CASE Return(FALSE) /\ UNCHANGED <<ran, held>>
  <2>1. Made => ran' \in {<<>>, <<Told>>, ToldAll}
    BY <1>1, <1>3 DEF ArrivalInv, RanInv
  <2>2. QED
    BY <1>1, <1>3, <2>1, Failed DEF ArrivalInv
<1>4. CASE /\ pc' = IF HasPayload THEN "payload" ELSE "answer"
           /\ IF HasPayload THEN UNCHANGED <<ran, held>> ELSE CarryOut(Packet(BusCall))
           /\ UNCHANGED <<faults, outcome>>
  <2>1. ASSUME Made PROVE RanInv' /\ OwnBytes'
    <3>1. /\ ran = <<>> /\ OwnBytes /\ ~outcome.ok /\ Understood(Packet(BusCall)) = Told
      BY <1>1, <1>2, <2>1, SessionSoFar DEF RanInv
    <3>2. Told' = Told /\ ToldAll' = ToldAll
      BY <1>1, SameMeaning
    <3>3. OwnBytes'
      BY <1>1, <3>1, SameBytes
    <3>4. CASE HasPayload
      <4>1. pc' = "payload" /\ ran' = <<>>
        BY <1>4, <3>1, <3>4
      <4>2. RanInv'
        BY <1>4, <3>1, <4>1 DEF RanInv
      <4>3. QED
        BY <3>3, <4>2
    <3>5. CASE ~HasPayload
      <4>1. pc' = "answer" /\ ran' = Append(ran, Told) /\ held' = cur
        BY <1>4, <3>1, <3>5 DEF CarryOut
      <4>2. ran' = <<Told>>
        BY <3>1, <4>1, Appended
      <4>3. RanInv'
        BY <1>1, <1>4, <3>1, <3>2, <4>1, <4>2 DEF RanInv
      <4>4. QED
        BY <3>3, <4>3
    <3>6. QED
      BY <3>4, <3>5
  <2>2. pc' \in InSession
    BY <1>4 DEF InSession
  <2>3. QED
    BY <1>1, <1>2, <1>4, <2>1, <2>2, GoesOn
<1>5. QED
  BY <1>3, <1>4 DEF Open

(* The whole packet is one session. *)
LEMMA SendPayloadArrival ==
  ASSUME ArrivalInv, SendPayload, UNCHANGED <<spVars, unapiVars>>
  PROVE  ArrivalInv'
<1>1. pc = "payload" /\ UNCHANGED <<platform, cur, req, memory, reply, outcome>>
      /\ pc' = (IF success' THEN "answer" ELSE "close")
  BY DEF SendPayload, IecStep, unapiVars
<1>2. platform = "c64" /\ pc' \in InSession
  BY <1>1, StepsOf DEF ArrivalInv, InSession
<1>3. ASSUME Made PROVE RanInv' /\ OwnBytes'
  <2>1. ran = <<>> /\ OwnBytes /\ ~outcome.ok /\ Understood(Packet(BusCall)) = Told
    BY <1>1, <1>2, <1>3, SessionSoFar DEF RanInv, InSession
  <2>2. Told' = Told /\ ToldAll' = ToldAll
    BY <1>1, SameMeaning
  <2>3. OwnBytes'
    BY <1>1, <2>1, SameBytes
  <2>4. \/ ran' = <<Told>> /\ held' = cur
        \/ ran' = <<>> /\ ~success'
    <3>1. [i \in DOMAIN Sessions(Packet(BusCall)) |-> Understood(Sessions(Packet(BusCall))[i])] = <<Told>>
      <4>1. PICK s : s = Sessions(Packet(BusCall))
        OBVIOUS
      <4>2. DOMAIN s = 1..1 /\ s[1] = Packet(BusCall)
        BY <4>1 DEF Sessions
      <4>3. [i \in DOMAIN s |-> Understood(s[i])] = [i \in 1..1 |-> Told]
        BY <2>1, <4>2
      <4>4. [i \in 1..1 |-> Told] = <<Told>>
        OBVIOUS
      <4>5. QED
        BY <4>1, <4>3, <4>4
    <3>2. <<>> \o <<Told>> = <<Told>>
      OBVIOUS
    <3>3. QED
      BY <2>1, <3>1, <3>2 DEF SendPayload
  <2>5. CASE ran' = <<Told>> /\ held' = cur /\ success'
    <3>1. pc' = "answer"
      BY <1>1, <2>5
    <3>2. RanInv'
      BY <1>1, <2>1, <2>2, <2>5, <3>1 DEF RanInv
    <3>3. QED
      BY <2>3, <3>2
  <2>6. CASE ran' \in {<<>>, <<Told>>} /\ ~success'
    <3>1. pc' = "close"
      BY <1>1, <2>6
    <3>2. RanInv'
      BY <1>1, <2>1, <2>2, <2>6, <3>1 DEF RanInv
    <3>3. QED
      BY <2>3, <3>2
  <2>7. QED
    BY <2>4, <2>5, <2>6
<1>4. QED
  BY <1>1, <1>2, <1>3, GoesOn

(* Asking for the status of a command carries out nothing. *)
LEMMA ReadStatusArrival ==
  ASSUME ArrivalInv, ReadStatus, UNCHANGED <<spVars, unapiVars>>
  PROVE  ArrivalInv'
<1>1. pc \in {"answer", "keyanswer"} /\ UNCHANGED <<platform, cur, req, memory, reply, outcome, ran, held>>
      /\ pc' = (IF ~success' THEN "close"
                ELSE IF pc = "answer" /\ ReadsKey THEN "key"
                ELSE IF BusCall.want > 0 THEN "reply" ELSE "close")
  BY DEF ReadStatus, IecStep, unapiVars
<1>2. platform = "c64" /\ pc' \in InSession
  BY <1>1, StepsOf DEF ArrivalInv, InSession
<1>3. ASSUME Made PROVE RanInv' /\ OwnBytes'
  <2>1. RanInv /\ OwnBytes /\ ~outcome.ok
    BY <1>1, <1>2, <1>3, SessionSoFar DEF InSession
  <2>2. Told' = Told /\ ToldAll' = ToldAll /\ (ReadsKey' <=> ReadsKey)
    BY <1>1, SameMeaning
  <2>3. OwnBytes'
    BY <1>1, <2>1, SameBytes
  <2>4. /\ held = cur /\ ran \in {<<>>, <<Told>>, ToldAll}
        /\ pc = "answer" => ran = <<Told>>
        /\ pc = "keyanswer" => ReadsKey /\ ran = ToldAll
    BY <1>1, <2>1 DEF RanInv
  <2>5. ~ReadsKey => ToldAll = <<Told>>
    BY <1>3, CommandsForm
  <2>6. CASE pc' = "key"
    <3>1. ran = <<Told>> /\ ReadsKey
      BY <1>1, <2>4, <2>6
    <3>2. RanInv'
      BY <1>1, <2>1, <2>2, <2>4, <2>6, <3>1 DEF RanInv
    <3>3. QED
      BY <2>3, <3>2
  <2>7. CASE pc' = "reply"
    <3>1. ran = ToldAll
      BY <1>1, <2>4, <2>5, <2>7
    <3>2. RanInv'
      BY <1>1, <2>1, <2>2, <2>4, <2>7, <3>1 DEF RanInv
    <3>3. QED
      BY <2>3, <3>2
  <2>8. CASE pc' = "close"
    <3>1. success' => ran = ToldAll
      BY <1>1, <2>4, <2>5, <2>8
    <3>2. RanInv'
      BY <1>1, <2>1, <2>2, <2>4, <2>8, <3>1 DEF RanInv
    <3>3. QED
      BY <2>3, <3>2
  <2>9. QED
    BY <1>1, <2>6, <2>7, <2>8
<1>4. QED
  BY <1>1, <1>2, <1>3, GoesOn

(* The second command of a key, through the same channel. *)
LEMMA SendReadArrival ==
  ASSUME ArrivalInv, SendRead, UNCHANGED <<spVars, unapiVars>>
  PROVE  ArrivalInv'
<1>1. pc = "key" /\ UNCHANGED <<platform, cur, req, memory, reply, outcome>>
      /\ pc' = (IF success' THEN "keyanswer" ELSE "close")
  BY DEF SendRead, IecStep, unapiVars
<1>2. platform = "c64" /\ pc' \in InSession
  BY <1>1, StepsOf DEF ArrivalInv, InSession
<1>3. ASSUME Made PROVE RanInv' /\ OwnBytes'
  <2>1. RanInv /\ OwnBytes /\ ~outcome.ok
    BY <1>1, <1>2, <1>3, SessionSoFar DEF InSession
  <2>2. Told' = Told /\ ToldAll' = ToldAll /\ (ReadsKey' <=> ReadsKey)
    BY <1>1, SameMeaning
  <2>3. OwnBytes'
    BY <1>1, <2>1, SameBytes
  <2>4. ran = <<Told>> /\ held = cur /\ ReadsKey
    BY <1>1, <2>1 DEF RanInv
  <2>5. \/ ran' = ToldAll /\ held' = cur
        \/ ran' = <<Told>> /\ ~success'
    <3>1. CASE CarryOut(KeyPacket)
      <4>1. PICK key : key = [Told EXCEPT !.cmd = "READ_APPKEY", !.data = <<>>]
        OBVIOUS
      <4>2. Understood(KeyPacket) = key
        BY <1>2, <1>3, <2>4, <4>1, KeyCarried DEF ReadsKey
      <4>3. ran' = Append(<<Told>>, key) /\ held' = cur
        BY <2>4, <3>1, <4>2 DEF CarryOut
      <4>4. Append(<<Told>>, key) = <<Told, key>>
        BY Appended
      <4>5. ToldAll = <<Told, key>>
        BY <1>3, <2>4, <4>1, CommandsForm
      <4>6. QED
        BY <4>3, <4>4, <4>5
    <3>2. CASE success' = FALSE /\ UNCHANGED <<ran, held>>
      BY <2>4, <3>2
    <3>3. QED
      BY <3>1, <3>2 DEF SendRead
  <2>6. CASE ran' = ToldAll /\ held' = cur
    <3>1. pc' \in {"keyanswer", "close"}
      BY <1>1
    <3>2. RanInv'
      BY <1>1, <2>1, <2>2, <2>4, <2>6, <3>1 DEF RanInv
    <3>3. QED
      BY <2>3, <3>2
  <2>7. CASE ran' = <<Told>> /\ ~success'
    <3>1. pc' = "close"
      BY <1>1, <2>7
    <3>2. RanInv'
      BY <1>1, <2>1, <2>2, <2>7, <3>1 DEF RanInv
    <3>3. QED
      BY <2>3, <3>2
  <2>8. QED
    BY <2>5, <2>6, <2>7
<1>4. QED
  BY <1>1, <1>2, <1>3, GoesOn

(* The reply is read from the channel. *)
LEMMA ReadReplyArrival ==
  ASSUME ArrivalInv, ReadReply, UNCHANGED <<spVars, unapiVars>>
  PROVE  ArrivalInv'
<1>1. pc = "reply" /\ UNCHANGED <<platform, cur, req, memory, outcome, ran, held, success>>
      /\ pc' = "close"
  BY DEF ReadReply, IecStep, unapiVars
<1>2. platform = "c64" /\ pc' \in InSession
  BY <1>1, StepsOf DEF ArrivalInv, InSession
<1>3. ASSUME Made PROVE RanInv' /\ OwnBytes'
  <2>1. RanInv /\ ~outcome.ok /\ req.want \in Nat /\ BusCall.want = req.want
    BY <1>1, <1>2, <1>3, SessionSoFar DEF InSession
  <2>2. ToldAll' = ToldAll /\ Told' = Told
    BY <1>1, SameMeaning
  <2>3. ran = ToldAll /\ held = cur
    BY <1>1, <2>1 DEF RanInv
  <2>4. PICK n \in 0..req.want : reply' = DeviceReply(cur, n)
    BY <2>1, <2>3 DEF ReadReply
  <2>5. OwnBytes'
    BY <1>1, <1>2, <2>1, <2>4, OwnAnswered
  <2>6. RanInv'
    BY <1>1, <2>1, <2>2, <2>3 DEF RanInv
  <2>7. QED
    BY <2>5, <2>6
<1>4. QED
  BY <1>1, <1>2, <1>3, GoesOn

(* CLOSE ends the call with what it has. *)
LEMMA CloseArrival ==
  ASSUME ArrivalInv, Close, UNCHANGED <<spVars, unapiVars>>
  PROVE  ArrivalInv'
<1>1. pc = "close" /\ UNCHANGED <<platform, cur, req, memory, reply, ran>> /\ Return(success)
  BY DEF Close, IecStep, unapiVars
<1>2. platform = "c64"
  BY <1>1, StepsOf DEF ArrivalInv, InSession
<1>3. ASSUME Made
      PROVE  /\ ran' \in {<<>>, <<Told>>, ToldAll} /\ OwnBytes'
             /\ success => ran' = ToldAll
  <2>1. RanInv /\ OwnBytes
    BY <1>1, <1>2, <1>3, SessionSoFar DEF InSession
  <2>2. OwnBytes'
    BY <1>1, <2>1, SameBytes
  <2>3. QED
    BY <1>1, <2>1, <2>2 DEF RanInv
<1>4. pc' = "idle" /\ outcome'.ok = success
  BY <1>1 DEF Return
<1>5. Told' = Told /\ ToldAll' = ToldAll /\ (Made' <=> Made)
  BY <1>1, SameMeaning
<1>6. MadeInv'
  BY <1>1, <1>4 DEF ArrivalInv, MadeInv
<1>7. RouteInv'
  BY <1>1, <1>2 DEF RouteInv
<1>8. Made' => RanInv' /\ ReplyInv'
  BY <1>3, <1>4, <1>5 DEF RanInv, ReplyInv
<1>9. QED
  BY <1>6, <1>7, <1>8 DEF ArrivalInv

(* A step of the C64 keeps the command and the answer right. *)
LEMMA IecArrival ==
  ASSUME ArrivalInv, IecNext, UNCHANGED <<spVars, unapiVars>>
  PROVE  ArrivalInv'
<1>1. CASE NoCreator
  <2>1. pc = "open" /\ Return(FALSE) /\ UNCHANGED <<platform, cur, req, memory, ran>>
    BY <1>1 DEF NoCreator, IecStep, unapiVars
  <2>2. Made => ran' \in {<<>>, <<Told>>, ToldAll}
    BY <2>1 DEF ArrivalInv, RanInv
  <2>3. QED
    BY <2>1, <2>2, Failed DEF ArrivalInv
<1>2. QED
  BY <1>1, OpenArrival, SendPayloadArrival, ReadStatusArrival, SendReadArrival,
     ReadReplyArrival, CloseArrival DEF IecNext

(* Every step keeps the command and the answer right. *)
LEMMA ArrivalNext ==
  ASSUME RInv, ArrivalInv, [Next]_vars
  PROVE  ArrivalInv'
<1>1. ASSUME NEW r \in Asks[platform], Call(r), UNCHANGED <<spVars, unapiVars, iecVars>>
      PROVE  ArrivalInv'
  BY <1>1, CallArrival
<1>2. CASE SmartPortNext /\ UNCHANGED <<unapiVars, iecVars>>
  BY <1>2, LookupArrival, ControlArrival, StatusArrival, BlockArrival DEF SmartPortNext, RInv
<1>3. CASE UnapiNext /\ UNCHANGED <<spVars, iecVars>>
  BY <1>3, DiscoverArrival, EnterArrival DEF UnapiNext
<1>4. CASE UNCHANGED vars
  <2>1. UNCHANGED <<platform, pc, cur, req, ran, held, reply, outcome, memory, sp_id, sp_nw_unit, accepted, success>>
    BY <1>4 DEF vars, callVars, spVars, unapiVars, iecVars
  <2>2. /\ Told' = Told /\ ToldAll' = ToldAll /\ (ReadsKey' <=> ReadsKey) /\ Wanted' = Wanted
        /\ (OnlyAsks' <=> OnlyAsks) /\ (Made' <=> Made) /\ BusCall' = BusCall
        /\ (OwnBytes' <=> OwnBytes)
    BY <2>1, SameMeaning, SameCall, SameBytes
  <2>3. ControlRefused' <=> ControlRefused
    BY <2>1 DEF ControlRefused
  <2>4. MadeInv'
    BY <2>1 DEF ArrivalInv, MadeInv
  <2>5. RouteInv'
    BY <2>1, <2>2 DEF ArrivalInv, RouteInv
  <2>6. Made' => RanInv'
    BY <2>1, <2>2, <2>3 DEF ArrivalInv, RanInv
  <2>7. Made' => ReplyInv'
    BY <2>1, <2>2, <2>3 DEF ArrivalInv, ReplyInv
  <2>8. QED
    BY <2>4, <2>5, <2>6, <2>7 DEF ArrivalInv
<1>5. QED
  BY <1>1, <1>2, <1>3, <1>4, TransactArrival, IecArrival DEF Next

(* The command and the answer are right at all times. *)
LEMMA ArrivalHolds == Spec => []ArrivalInv
<1>1. ArrivalInv /\ RInv /\ [Next]_vars => ArrivalInv'
  BY ArrivalNext
<1>2. QED
  BY <1>1, ArrivalInit, Invariant, PTL DEF Spec

(* What a machine tells of a command is the command, but for the unit on the
   C64. *)
LEMMA ToldSame ==
  /\ Len(ToldAll) = Len(Commands) /\ Len(Commands) \in {1, 2}
  /\ \A i \in 1..Len(ToldAll) : SameCommand(ToldAll[i], Commands[i])
<1>1. SameCommand(Told, Meant)
  BY DEF Told, SameCommand
<1>2. SameCommand([Told EXCEPT !.cmd = "READ_APPKEY", !.data = <<>>],
                  [Meant EXCEPT !.cmd = "READ_APPKEY", !.data = <<>>])
  <2>1. PICK k, c, u, v, a, d :
          /\ Told = [kind |-> k, cmd |-> c, unit |-> u, args |-> a, data |-> d]
          /\ Meant = [kind |-> k, cmd |-> c, unit |-> v, args |-> a, data |-> d]
          /\ u = v \/ UnitLost
    BY DEF Told, Meant
  <2>2. QED
    BY <2>1 DEF SameCommand
<1>3. CASE ReadsKey
  <2>1. PICK t, m : /\ t = [Told EXCEPT !.cmd = "READ_APPKEY", !.data = <<>>]
                    /\ m = [Meant EXCEPT !.cmd = "READ_APPKEY", !.data = <<>>]
    OBVIOUS
  <2>2. ToldAll = <<Told, t>> /\ Commands = <<Meant, m>>
    BY <1>3, <2>1 DEF ToldAll, Commands
  <2>3. SameCommand(t, m)
    BY <1>2, <2>1
  <2>4. QED
    BY <1>1, <2>2, <2>3
<1>4. CASE ~ReadsKey
  <2>1. ToldAll = <<Told>> /\ Commands = <<Meant>>
    BY <1>4 DEF ToldAll, Commands
  <2>2. QED
    BY <1>1, <2>1
<1>5. QED
  BY <1>3, <1>4

(* The FujiNet carries out the command the application meant, or none: kind,
   arguments and data come through fuji_bus_call() of every machine as they
   were, the unit on every machine but the C64, which does not send it, and a
   call that returns true had its command carried out once. *)
THEOREM ArgumentsArriveCorrect == Spec => []ArgumentsArrive
<1>1. ASSUME ArrivalInv, ~OutOfReach
      PROVE  /\ Len(ran) <= Len(ToldAll)
             /\ \A i \in DOMAIN ran : ran[i] = ToldAll[i]
             /\ DOMAIN ran = 1..Len(ran) /\ Len(ran) \in Nat
             /\ outcome.ok /\ ~ControlRefused => Len(ran) = Len(ToldAll)
  <2>1. Made /\ RanInv
    BY <1>1 DEF ArrivalInv, MadeInv, Made
  <2>2. PICK m : m = Told
    OBVIOUS
  <2>3. \/ ToldAll = <<m>>
        \/ ToldAll = <<m, [m EXCEPT !.cmd = "READ_APPKEY", !.data = <<>>]>>
    BY <2>2 DEF ToldAll
  <2>4. PICK c : /\ c = ToldAll /\ (Len(c) = 1 \/ Len(c) = 2) /\ c[1] = m
                 /\ DOMAIN c = 1..Len(c)
    BY <2>3
  <2>5. CASE ran = <<>>
    BY <2>1, <2>4, <2>5 DEF RanInv
  <2>6. CASE ran = <<m>>
    <3>1. Len(ran) = 1 /\ DOMAIN ran = 1..1 /\ ran[1] = m
      BY <2>6
    <3>2. outcome.ok /\ ~ControlRefused => ran = c
      BY <2>1, <2>4 DEF RanInv
    <3>3. \A i \in DOMAIN ran : ran[i] = c[i]
      BY <2>4, <3>1
    <3>4. 1 <= Len(c)
      BY <2>4
    <3>5. outcome.ok /\ ~ControlRefused => Len(ran) = Len(c)
      BY <3>2
    <3>6. QED
      BY <2>4, <3>1, <3>3, <3>4, <3>5
  <2>7. CASE ran = ToldAll
    BY <2>4, <2>7
  <2>8. QED
    BY <2>1, <2>2, <2>5, <2>6, <2>7 DEF RanInv
<1>2. ASSUME ArrivalInv, ~OutOfReach
      PROVE  /\ Len(ran) <= Len(Commands)
             /\ \A i \in DOMAIN ran : SameCommand(ran[i], Commands[i])
             /\ outcome.ok /\ ~ControlRefused => Len(ran) = Len(Commands)
  <2>1. PICK n \in Nat : n = Len(ran)
    BY <1>1, <1>2
  <2>2. /\ n <= Len(ToldAll) /\ DOMAIN ran = 1..n
        /\ \A i \in DOMAIN ran : ran[i] = ToldAll[i]
        /\ outcome.ok /\ ~ControlRefused => n = Len(ToldAll)
    BY <1>1, <1>2, <2>1
  <2>3. \A i \in DOMAIN ran : i \in 1..Len(ToldAll)
    <3>1. PICK l \in Nat : l = Len(ToldAll)
      BY ToldSame
    <3>2. n <= l
      BY <2>2, <3>1
    <3>3. \A i \in 1..n : i \in 1..l
      BY <3>2
    <3>4. QED
      BY <2>2, <3>1, <3>3, Zenon
  <2>4. \A i \in DOMAIN ran : SameCommand(ran[i], Commands[i])
    BY <2>2, <2>3, ToldSame, Zenon
  <2>5. QED
    BY <2>1, <2>2, <2>4, ToldSame
<1>3. ArrivalInv => ArgumentsArrive
  BY <1>2 DEF ArgumentsArrive
<1>4. QED
  BY <1>3, ArrivalHolds, PTL

(* Where a short reply does not go unnoticed, a call that returned true has a
   whole one. *)
WholeInv ==
  outcome.ok /\ Made /\ platform \notin ShortUnnoticed => Len(reply) = req.want

(* Only those machines return true with a whole reply whose call is one
   transaction. *)
LEMMA WholeNext ==
  ASSUME ArrivalInv, WholeInv, [Next]_vars
  PROVE  WholeInv'
<1>1. CASE \E r \in Asks[platform] : Call(r)
  <2>1. ~outcome'.ok
    BY <1>1 DEF Call, NoOutcome
  <2>2. QED
    BY <2>1 DEF WholeInv
<1>2. CASE Transact /\ UNCHANGED <<spVars, unapiVars, iecVars>>
  <2>1. pc = "transact" /\ UNCHANGED <<platform, cur, req, memory>>
    BY <1>2 DEF Transact, unapiVars
  <2>2. Made' <=> Made
    BY <2>1, SameMeaning
  <2>3. CASE Return(FALSE)
    BY <2>3 DEF Return, WholeInv
  <2>4. CASE reply' = Swap(platform, DeviceReply(cur, BusCall.want),
                           PayloadIntSize(req.kind, req.cmd))
    <3>1. ASSUME Made PROVE Len(reply') = req.want
      <4>1. /\ BusCall.want = req.want /\ req.want \in Nat
            /\ req.int \in {0, 2, 4} /\ (req.want > 0 => req.want >= req.int)
            /\ PayloadIntSize(req.kind, req.cmd) = req.int
        <5>1. Asked(req)
          BY <3>1 DEF Made, WellFormed
        <5>2. platform \notin {"apple2", "msx", "c64"}
          BY <2>1, StepsOf DEF ArrivalInv
        <5>3. QED
          BY <3>1, <5>1, <5>2, CallForm, WordType DEF Asked
      <4>2. reply' = Swap(platform, DeviceReply(cur, req.want), req.int)
        BY <2>4, <4>1
      <4>3. PICK n, k : n = req.want /\ n \in Nat /\ k = req.int
        BY <4>1
      <4>4. PICK d : d = DeviceReply(cur, n)
        OBVIOUS
      <4>5. DOMAIN d = 1..n /\ d = [i \in DOMAIN d |-> d[i]]
        BY <4>3, <4>4, ReplyForm
      <4>6. PICK r : r = reply'
        OBVIOUS
      <4>7. r = d \/ r = [i \in DOMAIN d |-> d[IF i <= k THEN k + 1 - i ELSE i]]
        BY <4>2, <4>3, <4>4, <4>6, Zenon DEF Swap
      <4>8. DOMAIN r = 1..n /\ r = [i \in DOMAIN r |-> r[i]]
        BY <4>5, <4>7
      <4>9. Len(r) = n
        BY <4>3, <4>8, LengthOf
      <4>10. QED
        BY <4>3, <4>6, <4>9
    <3>2. QED
      BY <2>1, <2>2, <3>1 DEF WholeInv
  <2>5. QED
    BY <1>2, <2>3, <2>4 DEF Transact
<1>3. CASE SmartPortNext \/ UnapiNext \/ IecNext
  <2>1. platform \in ShortUnnoticed
    <3>1. pc \in {"lookup", "control", "status", "block", "discover", "enter", "open"} \cup InSession
      BY <1>3 DEF SmartPortNext, Lookup, Control, Status, Block, UnapiNext, Discover, EnterUnapi,
         IecNext, NoCreator, Open, SendPayload, ReadStatus, SendRead, ReadReply, Close, InSession
    <3>2. QED
      BY <3>1, StepsOf DEF ArrivalInv, ShortUnnoticed
  <2>2. platform' = platform
    BY <1>3 DEF SmartPortNext, Lookup, Control, Status, Block, UnapiNext, Discover, EnterUnapi,
       IecNext, NoCreator, Open, SendPayload, ReadStatus, SendRead, ReadReply, Close, IecStep
  <2>3. QED
    BY <2>1, <2>2 DEF WholeInv
<1>4. CASE UNCHANGED vars
  <2>1. UNCHANGED <<platform, req, memory, outcome, reply>>
    BY <1>4 DEF vars, callVars, unapiVars
  <2>2. Made' <=> Made
    BY <2>1, SameMeaning
  <2>3. QED
    BY <2>1, <2>2 DEF WholeInv
<1>5. QED
  BY <1>1, <1>2, <1>3, <1>4 DEF Next

(* A call that returns true has its own answer, from the beginning and no more
   than was asked for: not what the FujiNet held for another call, not in the
   order of the bus, and not cut by what the MSX cannot see; and all of it on
   the machines where a transaction with less fails. *)
THEOREM OwnReplyCorrect == Spec => []OwnReply
<1>1. Init => WholeInv
  BY DEF Init, CallInit, NoOutcome, WholeInv
<1>2. ArrivalInv /\ WholeInv /\ [Next]_vars => WholeInv'
  BY WholeNext
<1>3. ArrivalInv /\ WholeInv => OwnReply
  BY DEF ArrivalInv, MadeInv, Made, ReplyInv, OwnBytes, OwnReply, WholeInv
<1>4. QED
  BY <1>1, <1>2, <1>3, ArrivalHolds, PTL DEF Spec
=============================================================================
