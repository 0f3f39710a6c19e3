------------------------------- MODULE Fields -------------------------------
(***************************************************************************)
(* How the arguments of a command travel: the field layouts of             *)
(* fuji_bus_call(), the order in which each platform splits 16 and 32 bit  *)
(* values into aux bytes, what its bus makes of them, and how the FujiNet  *)
(* puts them together again.                                               *)
(*                                                                         *)
(* The 6809 of the CoCo splits values high byte first, all others low byte *)
(* first.  DriveWire (CoCo, PMD 85) wants them high byte first, every      *)
(* other bus low byte first.                                               *)
(***************************************************************************)
EXTENDS Naturals, Sequences

DriveWires == {"coco", "pmd85"}

(* Fixed-length packets: the length of the data goes in aux1 and aux2. *)
FixedLen == {"atari", "coco", "pmd85"}

Layouts == {"NONE", "A1", "A1_A2", "A1_A2_A3", "A1_A2_A3_A4", "B12", "B12_B34", "C1234"}

NumBytes(layout) ==
  CASE layout = "NONE" -> 0
    [] layout = "A1" -> 1
    [] layout \in {"A1_A2", "B12"} -> 2
    [] layout = "A1_A2_A3" -> 3
    [] OTHER -> 4

NumFields(layout) ==
  CASE layout = "NONE" -> 0
    [] layout \in {"A1", "B12", "C1234"} -> 1
    [] layout \in {"A1_A2", "B12_B34"} -> 2
    [] layout = "A1_A2_A3" -> 3
    [] OTHER -> 4

U16_LSB(w) == w % 256
U16_MSB(w) == (w \div 256) % 256
U32_LSW(v) == v % 65536
U32_MSW(v) == v \div 65536

SplitU16(platform, w) ==
  IF platform = "coco" THEN <<U16_MSB(w), U16_LSB(w)>> ELSE <<U16_LSB(w), U16_MSB(w)>>

SplitU32(platform, v) ==
  IF platform = "coco"
  THEN SplitU16(platform, U32_MSW(v)) \o SplitU16(platform, U32_LSW(v))
  ELSE SplitU16(platform, U32_LSW(v)) \o SplitU16(platform, U32_MSW(v))

(* The aux bytes a DEVCALL macro passes to fuji_bus_call(). *)
AuxBytes(platform, layout, args) ==
  CASE layout = "B12"     -> SplitU16(platform, args[1])
    [] layout = "B12_B34" -> SplitU16(platform, args[1]) \o SplitU16(platform, args[2])
    [] layout = "C1234"   -> SplitU32(platform, args[1])
    [] OTHER              -> args

Pad(bytes, n) == [i \in 1..n |-> IF i <= Len(bytes) THEN bytes[i] ELSE 0]

(* Calls without a variable argument list have four aux bytes, on the Atari
   two. *)
FixedAux(platform, layout, args) ==
  Pad(AuxBytes(platform, layout, args), IF platform = "atari" THEN 2 ELSE 4)

(* A DriveWire network command has at least two aux bytes: on the CoCo the
   NETCALL macros see to it, on the PMD 85 fuji_bus_call() does. *)
WireBytes(layout, net) == IF net /\ NumBytes(layout) < 2 THEN 2 ELSE NumBytes(layout)

(* Mutant: only the 16 bit values are. *)
TurnRoundPairs(layout, aux) ==
  IF layout \in {"B12", "B12_B34", "C1234"} THEN <<aux[2], aux[1], aux[4], aux[3]>> ELSE aux

(* The PMD 85's fuji_bus_call() turns the values round that were split for a
   bus that is low byte first. *)
TurnRound(layout, aux) ==
  CASE layout \in {"B12", "B12_B34"} -> <<aux[2], aux[1], aux[4], aux[3]>>
    [] layout = "C1234"              -> <<aux[4], aux[3], aux[2], aux[1]>>
    [] OTHER                         -> aux

(* The aux bytes that reach the bus. *)
BusAux(platform, layout, args, net) ==
  CASE platform \in {"atari", "msdos", "msx"} -> FixedAux(platform, layout, args)
    [] platform = "pmd85" -> Pad(TurnRound(layout, FixedAux(platform, layout, args)),
                                 WireBytes(layout, net))
    [] platform = "coco" -> Pad(AuxBytes(platform, layout, args), WireBytes(layout, net))
    [] OTHER -> AuxBytes(platform, layout, args)

(* A value of n bytes at the start of a data or reply block: the caller has it
   in the order of its processor, the bus in its own.  PMD 85: turned. *)
Swap(platform, block, n) ==
  IF platform = "pmd85" /\ Len(block) >= n
  THEN [i \in DOMAIN block |-> block[IF i <= n THEN n + 1 - i ELSE i]]
  ELSE block

(* Mutant: the lengths of the engines are forgotten. *)
PayloadIntSize2(kind, cmd) ==
  IF kind = "fuji" THEN IF cmd \in {"OPEN_APPKEY", "READ_APPKEY"} THEN 2 ELSE 0
  ELSE IF kind = "net" /\ cmd = "STATUS" THEN 2 ELSE 0

(* The size of that value. *)
PayloadIntSize(kind, cmd) ==
  CASE kind = "fuji" /\ cmd \in {"OPEN_APPKEY", "READ_APPKEY"} -> 2
    [] kind = "fuji" /\ cmd \in {"BASE64_ENCODE_LENGTH", "BASE64_DECODE_LENGTH", "QRCODE_LENGTH"} -> 4
    [] kind = "net" /\ cmd = "STATUS" -> 2
    [] OTHER -> 0

(* The FujiNet's side: values in the order of the bus. *)
JoinU16(platform, a, b) == IF platform \in DriveWires THEN 256 * a + b ELSE a + 256 * b

JoinU32(platform, bytes) ==
  IF platform \in DriveWires
  THEN 65536 * JoinU16(platform, bytes[1], bytes[2]) + JoinU16(platform, bytes[3], bytes[4])
  ELSE JoinU16(platform, bytes[1], bytes[2]) + 65536 * JoinU16(platform, bytes[3], bytes[4])

(* What the FujiNet takes the arguments of a command of this layout for. *)
Arguments(platform, layout, aux) ==
  CASE layout = "B12"     -> <<JoinU16(platform, aux[1], aux[2])>>
    [] layout = "B12_B34" -> <<JoinU16(platform, aux[1], aux[2]), JoinU16(platform, aux[3], aux[4])>>
    [] layout = "C1234"   -> <<JoinU32(platform, aux)>>
    [] OTHER              -> [i \in 1..NumFields(layout) |-> aux[i]]

=============================================================================
