------------------------------- MODULE HostBus -------------------------------
(***************************************************************************)
(* The bus calls of the Apple II (SmartPort), MSX (Unapi), Commodore 64,   *)
(* Atari and MS-DOS together, with what they promise alike.  The DriveWire *)
(* machines are here for the arguments of their calls; module DriveWire    *)
(* has their exchanges.                                                    *)
(***************************************************************************)
EXTENDS SmartPort, Unapi

VARIABLES
  channel,  \* logical file 15 of the C64: "closed", "open", or "failed" when
            \* the KERNAL could not open it
  success   \* of the C64's call so far

iecVars == <<channel, success>>
vars == <<callVars, spVars, unapiVars, iecVars>>

IecInit == channel = "closed" /\ success = TRUE

(***************************************************************************)
(* fuji_bus_call() of the C64: a command without payload is the file name  *)
(* of an OPEN; a payload follows it in one output session, at whose end    *)
(* the FujiNet carries the command out.  fuji_read_appkey_c64() is the     *)
(* same for the opening of a key; the command to read it then goes into    *)
(* the open channel.                                                       *)
(***************************************************************************)

Payload(packet) == packet.aux \o packet.data
HasPayload == Payload(Packet(BusCall)) # <<>>

IecStep == UNCHANGED <<platform, cur, req>>

ReadsKey == req.op = "readkey"

\* an app key with a creator, or any other call
HasCreator == ReadsKey => req.data[1] # 0

NoCreator ==
  /\ pc = "open" /\ IecStep
  /\ ~HasCreator
  /\ Return(FALSE)
  /\ UNCHANGED <<ran, held, reply, faults, channel, success>>

(* fuji_cbm_open(): a file that is open already cannot be opened; one the
   KERNAL could not open may or may not count as open. *)
Open ==
  /\ pc = "open" /\ IecStep
  /\ HasCreator
  /\ success' = TRUE
  /\ \/ /\ channel # "open"
        /\ channel' = "open"
        /\ pc' = IF HasPayload THEN "payload" ELSE "answer"
        /\ IF HasPayload THEN UNCHANGED <<ran, held>> ELSE CarryOut(Packet(BusCall))
        /\ UNCHANGED <<faults, outcome>>
     \/ /\ Fault \/ (channel # "closed" /\ UNCHANGED faults)
        /\ channel' = IF channel = "open" THEN "open" ELSE "failed"
        /\ Return(FALSE)
        /\ UNCHANGED <<ran, held>>
  /\ UNCHANGED reply

(* Mutant: a session for the aux bytes and one for the data. *)
SessionsTwo(packet) ==
  IF packet.aux = <<>> \/ packet.data = <<>> THEN <<packet>>
  ELSE <<[packet EXCEPT !.data = <<>>], [packet EXCEPT !.aux = <<>>]>>

(* What the FujiNet gets a LISTEN to UNLISTEN each. *)
Sessions(packet) == <<packet>>

SendPayload ==
  /\ pc = "payload" /\ IecStep
  /\ \/ /\ ran' = ran \o [i \in DOMAIN Sessions(Packet(BusCall)) |->
                            Understood(Sessions(Packet(BusCall))[i])]
        /\ held' = cur
        /\ UNCHANGED <<faults, success>>
     \/ /\ Fault                 \* not listening, or gone half-way
        /\ success' = FALSE
        /\ UNCHANGED <<ran, held>>
  /\ pc' = IF success' THEN "answer" ELSE "close"
  /\ UNCHANGED <<reply, outcome, channel>>

(* fuji_cbm_read_status() *)
ReadStatus ==
  /\ pc \in {"answer", "keyanswer"} /\ IecStep
  /\ \/ UNCHANGED <<faults, success>>
     \/ Fault /\ success' = FALSE
  /\ pc' = IF ~success' THEN "close"
           ELSE IF pc = "answer" /\ ReadsKey THEN "key"
           ELSE IF BusCall.want > 0 THEN "reply" ELSE "close"
  /\ UNCHANGED <<ran, held, reply, outcome, channel>>

(* READ_APPKEY, for the key just opened. *)
KeyPacket == [Packet(BusCall) EXCEPT !.cmd = "READ_APPKEY", !.data = <<>>]

SendRead ==
  /\ pc = "key" /\ IecStep
  /\ \/ CarryOut(KeyPacket) /\ UNCHANGED <<faults, success>>
     \/ Fault /\ success' = FALSE /\ UNCHANGED <<ran, held>>
  /\ pc' = IF success' THEN "keyanswer" ELSE "close"
  /\ UNCHANGED <<reply, outcome, channel>>

(* A short reply is not noticed; a key is as long as it is, and one that could
   not be read is of length 0. *)
ReadReply ==
  /\ pc = "reply" /\ IecStep
  /\ \E n \in 0..BusCall.want :
       /\ reply' = DeviceReply(held, n)
       /\ IF n < BusCall.want /\ ~ReadsKey THEN Fault ELSE UNCHANGED faults
  /\ pc' = "close"
  /\ UNCHANGED <<ran, held, outcome, channel, success>>

(* Mutant: a call that failed leaves the channel open. *)
CloseIfOK == IF success THEN "closed" ELSE channel

CloseChannel == "closed"

Close ==
  /\ pc = "close" /\ IecStep
  /\ channel' = CloseChannel
  /\ Return(success)
  /\ UNCHANGED <<ran, held, reply, faults, success>>

IecNext == NoCreator \/ Open \/ SendPayload \/ ReadStatus \/ SendRead \/ ReadReply \/ Close

-----------------------------------------------------------------------------

Init == CallInit /\ SPInit /\ UnapiInit /\ IecInit

Next ==
  \/ (\E r \in Asks[platform] : Call(r)) /\ UNCHANGED <<spVars, unapiVars, iecVars>>
  \/ Transact /\ UNCHANGED <<spVars, unapiVars, iecVars>>
  \/ SmartPortNext /\ UNCHANGED <<unapiVars, iecVars>>
  \/ UnapiNext /\ UNCHANGED <<spVars, iecVars>>
  \/ IecNext /\ UNCHANGED <<spVars, unapiVars>>

Spec == Init /\ [][Next]_vars

-----------------------------------------------------------------------------
(* As much as goes into one call. *)
InBlock(n) == IF platform = "apple2" THEN Clip(n) ELSE n

(* The FujiNet command a call means. *)
Meant ==
  [kind |-> req.kind, cmd |-> req.cmd,
   unit |-> IF req.kind = "net" THEN req.unit ELSE 0,
   args |-> CASE req.op = "read" -> <<InBlock(req.want)>>
              [] req.op = "write" -> IF platform = "c64" THEN <<>> ELSE <<InBlock(Len(req.data))>>
              [] req.op = "vld" -> IF platform \in FixedLen THEN <<Len(req.data)>> ELSE <<>>
              [] OTHER -> req.args,
   data |-> IF req.op = "write" /\ platform = "apple2"
            THEN SubSeq(req.data, 1, Clip(Len(req.data)))
            ELSE req.data]

(* All of a call's commands: opening a key and reading it are two. *)
Commands ==
  IF ReadsKey THEN <<Meant, [Meant EXCEPT !.cmd = "READ_APPKEY", !.data = <<>>]>> ELSE <<Meant>>

(* The Atari seeks with 24 bits; the C64 shifts the unit of a READ or WRITE
   by one, off the end for the last; an MSX program may have its data where
   the UNAPI is. *)
OutOfReach ==
  \/ platform = "atari" /\ req.op = "seek" /\ req.args[1] >= 2^24
  \/ platform = "c64" /\ req.op \in {"read", "write"} /\ req.unit = LastUnit
  \/ platform = "msx" /\ ~WellPlaced

ControlRefused == platform = "apple2" /\ pc = "idle" /\ ~accepted /\ req.op = "call"

(* The C64 sends the commands for all network units through one channel and
   names none of them, though testing/tests/network.c:351 expects of two open
   units that one does not have what was sent to the other. *)
UnitLost == platform = "c64" /\ req.kind = "net"

SameCommand(a, b) ==
  /\ a.kind = b.kind /\ a.cmd = b.cmd /\ a.args = b.args /\ a.data = b.data
  /\ a.unit = b.unit \/ UnitLost

(* Whatever machine the call is made on, the FujiNet carries out the command
   the application meant - device, arguments and data, and but for the C64 the
   unit, through the splitting, turning, padding, cutting and bouncing on the
   way - or none; a call that returns true had it carried out exactly once.
   The C64 reads a key only after the same call has opened it.  (The Apple II
   cannot tell when the CONTROL failed and the STATUS did not.) *)
ArgumentsArrive ==
  ~OutOfReach =>
    /\ Len(ran) <= Len(Commands)
    /\ \A i \in DOMAIN ran : SameCommand(ran[i], Commands[i])
    /\ outcome.ok /\ ~ControlRefused => Len(ran) = Len(Commands)

(* Byte i of a reply to a machine's program; a value at its start has the
   order of the processor. *)
Native(i) == IF platform = "coco" /\ i <= req.int THEN req.int + 1 - i ELSE i

(* Where nobody compares the length of a reply with what was asked for, though
   fujinet-fuji.h:324 and :344 say that this is done for the slot functions; on
   the other machines the transaction fails. *)
ShortUnnoticed == {"apple2", "c64", "msx"}

(* What a call that returns true has put into the caller's buffer is its own
   answer, from the beginning and no more than it asked for, in the processor's
   order: nothing that the FujiNet still held for an earlier call, and nothing
   that the caller's memory hid.  It is all that was asked for, except on the
   machines that do not look. *)
OwnReply ==
  outcome.ok /\ ~OutOfReach /\ ~ControlRefused =>
    /\ Len(reply) <= req.want
    /\ platform \notin ShortUnnoticed => Len(reply) = req.want
    /\ \A i \in DOMAIN reply : reply[i] = <<cur, Native(i)>>

(* What is kept from call to call stays right: the SmartPort ids, and the
   ROM's INIT has not been called twice. *)
RoutesRight == IdsRight /\ inits <= 1

(* After a call the C64's channel is closed, whatever step of the call went
   wrong, unless the KERNAL could not open it: the next call opens it again. *)
ChannelClosed == pc = "idle" => channel # "open"

=============================================================================
