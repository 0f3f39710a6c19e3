------------------------------ MODULE HostCall ------------------------------
(***************************************************************************)
(* What the buses have in common whose work an operating system, a monitor *)
(* or an adapter does (Apple II, Atari, C64, MS-DOS, MSX) and, for their   *)
(* arguments only, the DriveWire machines: the call the application makes, *)
(* the bus call that carries it, and the FujiNet that carries it out.      *)
(***************************************************************************)
EXTENDS Api

CONSTANTS
  MaxCalls,   \* bound: calls the application makes
  MaxFaults,  \* bound: transactions that fail
  Platforms   \* the machines to check

ASSUME HostCallAssumption ==
  /\ MaxCalls \in Nat /\ MaxFaults \in Nat
  /\ Platforms \subseteq {"apple2", "atari", "c64", "msdos", "msx", "coco", "pmd85"}

VARIABLES
  platform,
  pc,        \* "idle" or the step the call is at
  cur, req,  \* number of the current (or last) call, and what it asks
  ran,       \* history: what the FujiNet carried out for this call
  held,      \* the call whose reply the FujiNet holds; 0: none
  reply,     \* the caller's buffer
  faults,    \* transactions that failed so far
  outcome    \* what the last call returned

callVars == <<platform, pc, cur, req, ran, held, reply, faults, outcome>>

NoOutcome == [call |-> 0, ok |-> FALSE]

CallInit ==
  /\ platform \in Platforms
  /\ pc = "idle" /\ cur = 0 /\ held = 0 /\ faults = 0
  /\ req = Plain
  /\ ran = <<>> /\ reply = <<>>
  /\ outcome = NoOutcome

(***************************************************************************)
(* The bus call an operation makes.                                        *)
(***************************************************************************)

Sub(layout, args, data, want) ==
  [kind |-> req.kind, cmd |-> req.cmd, unit |-> req.unit, layout |-> layout, args |-> args,
   data |-> data, want |-> want]

(* fuji_devcall_vld(): the length of the data is an argument where packets
   have a fixed length. *)
DevcallVld ==
  IF platform \in FixedLen
  THEN Sub("B12", <<Len(req.data)>>, req.data, 0)
  ELSE Sub("NONE", <<>>, req.data, 0)

(* network_seek(); the Atari has room for 16 bits of argument only and sends
   the position as three bytes of data. *)
NetworkSeekAtari ==
  Sub("NONE", <<>>,
      <<U16_LSB(req.args[1]), U16_MSB(req.args[1]), U16_LSB(U32_MSW(req.args[1]))>>, 0)

NetworkSeek ==
  IF platform = "atari" THEN NetworkSeekAtari ELSE Sub("C1234", req.args, <<>>, 0)

(* The C64's network_bus_read() and network_bus_write() go to the unit after
   the one they are called for, and past the last unit is no network device. *)
C64Unit(sub) ==
  IF platform # "c64" THEN sub
  ELSE IF req.unit < LastUnit THEN [sub EXCEPT !.unit = req.unit + 1]
  ELSE [sub EXCEPT !.kind = "fuji", !.unit = 0]

NetworkBusRead == C64Unit(Sub("B12", <<req.want>>, <<>>, req.want))

NetworkBusWrite ==
  IF platform = "c64"
  THEN C64Unit(Sub("NONE", <<>>, req.data, 0))
  ELSE Sub("B12", <<Len(req.data)>>, req.data, 0)

(* A 16 bit value at the start of the data is in the order of the processor. *)
NativeBlock ==
  IF req.int = 2 /\ req.data # <<>>
  THEN SplitU16(platform, req.data[1]) \o Tail(req.data)
  ELSE req.data

BusCall ==
  CASE req.op = "vld"   -> DevcallVld
    [] req.op = "seek"  -> NetworkSeek
    [] req.op = "read"  -> NetworkBusRead
    [] req.op = "write" -> NetworkBusWrite
    [] OTHER            -> Sub(req.layout, req.args, NativeBlock, req.want)

ToNet(sub) == sub.kind = "net"

BusData(sub) == Swap(platform, sub.data, PayloadIntSize(sub.kind, sub.cmd))

(* The packet on its way to the FujiNet; the C64 has one channel for all
   network units. *)
Packet(sub) ==
  [kind |-> sub.kind, cmd |-> sub.cmd,
   unit |-> IF ToNet(sub) /\ platform # "c64" THEN sub.unit ELSE 0,
   aux  |-> BusAux(platform, sub.layout, sub.args, ToNet(sub)),
   data |-> BusData(sub)]

(***************************************************************************)
(* The FujiNet, outside src/.                                              *)
(***************************************************************************)

(* It cuts the payload at the number of aux bytes its command has, and finds
   the position of an Atari's seek in the data. *)
AuxCount(sub) ==
  CASE platform \in DriveWires -> WireBytes(sub.layout, ToNet(sub))
    [] platform = "atari" -> 2
    [] platform \in {"msdos", "msx"} -> 4
    [] OTHER -> NumBytes(sub.layout)

Understood(packet) ==
  LET sub == BusCall
      payload == packet.aux \o packet.data
      n    == AuxCount(sub)
      data == SubSeq(payload, n + 1, Len(payload))
      position == req.op = "seek" /\ platform = "atari" /\ Len(data) = 3
  IN [kind |-> packet.kind, cmd |-> packet.cmd, unit |-> packet.unit,
      args |-> IF Len(payload) < n THEN <<>>
               ELSE IF position
               THEN <<data[1] + 256 * data[2] + 65536 * data[3]>>
               ELSE Arguments(platform, sub.layout, payload),
      data |-> IF position THEN <<>>
               ELSE IF req.int = 2 /\ Len(data) >= 2
               THEN <<JoinU16(platform, data[1], data[2])>> \o SubSeq(data, 3, Len(data))
               ELSE data]

CarryOut(packet) ==
  /\ ran' = Append(ran, Understood(packet))
  /\ held' = cur

(* Byte i of the answer to call c is <<c, i>>; a value at the start of it is
   in the order of the bus. *)
DeviceReply(c, n) ==
  [i \in 1..n |->
     <<c, IF platform \in DriveWires /\ i <= req.int THEN req.int + 1 - i ELSE i>>]

(***************************************************************************)
(* The host.                                                               *)
(***************************************************************************)

Return(ok) ==
  /\ pc' = "idle"
  /\ outcome' = [call |-> cur, ok |-> ok]

(* fuji_read_appkey() reads the key it has opened; on the Apple II with a
   STATUS alone. *)
FirstStep(r) ==
  CASE platform = "apple2" -> IF r.op = "appkey" THEN "status" ELSE "lookup"
    [] platform = "msx"    -> "discover"
    [] platform = "c64"    -> "open"
    [] OTHER               -> "transact"

(* What the application may ask for on each machine. *)
Asks == [p \in Platforms |-> Requests(p)]

Call(r) ==
  /\ pc = "idle" /\ cur < MaxCalls
  /\ r.op = "appkey" => req.cmd = "OPEN_APPKEY" /\ outcome.ok
  /\ cur' = cur + 1 /\ req' = r
  /\ ran' = <<>> /\ reply' = <<>>
  /\ outcome' = NoOutcome
  /\ pc' = FirstStep(r)
  /\ UNCHANGED <<platform, held, faults>>

(* A transaction goes wrong. *)
Fault == faults < MaxFaults /\ faults' = faults + 1

(* CIOV/SIOV of the Atari, INT F5h of MS-DOS, and a DriveWire exchange: one
   request, and the answer says whether it was carried out. *)
Transact ==
  /\ pc = "transact"
  /\ \/ /\ CarryOut(Packet(BusCall))
        /\ reply' = Swap(platform, DeviceReply(cur, BusCall.want),
                         PayloadIntSize(req.kind, req.cmd))
        /\ Return(TRUE)
        /\ UNCHANGED faults
     \/ /\ Fault
        /\ \/ CarryOut(Packet(BusCall))
           \/ UNCHANGED <<ran, held>>
        /\ Return(FALSE)
        /\ UNCHANGED reply
  /\ UNCHANGED <<platform, cur, req>>

=============================================================================
