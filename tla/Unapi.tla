------------------------------- MODULE Unapi -------------------------------
(***************************************************************************)
(* fuji_unapi_call() of the MSX: finding the implementation of the FujiNet *)
(* UNAPI through the extended BIOS, installing it from its ROM if that has *)
(* not happened, and entering it with a parameter block and a buffer it    *)
(* can see.  The call maps the implementation into page 1 and lets it map  *)
(* page 2: what the caller has there is out of its sight.                  *)
(*                                                                         *)
(* Pages have PAGE bytes here, and the bounce buffers SMALL and LARGE.     *)
(***************************************************************************)
EXTENDS HostCall

CONSTANTS
  PAGE,     \* bytes in a page: 0x4000
  SMALL,    \* FUJI_UNAPI_SMALL_BOUNCE
  LARGE,    \* FUJI_UNAPI_BOUNCE_SIZE
  Machines, \* what is installed
  Memories  \* where the program has its data

ASSUME UnapiAssumption ==
  /\ PAGE \in Nat \ {0} /\ SMALL \in Nat /\ LARGE \in Nat /\ SMALL <= LARGE
  /\ Machines \subseteq [hokvld : BOOLEAN, published : BOOLEAN, rom : BOOLEAN, inits : BOOLEAN]
  /\ Memories \subseteq [buffer : 0..(4 * PAGE - 1), block : 0..3, stack : 0..3]

VARIABLES
  machine,      \* HOKVLD bit 0; the API answers; a ROM has its name; that
                \* ROM's INIT makes it answer
  memory,       \* address of the buffer, pages of params and of the stack
  unapi_entry,  \* discovery result, kept; FALSE: none
  scan_tried,
  inits         \* history: how often a ROM's INIT was called

unapiVars == <<machine, memory, unapi_entry, scan_tried, inits>>

NoMachine == [hokvld |-> FALSE, published |-> FALSE, rom |-> FALSE, inits |-> FALSE]
NoMemory == [buffer |-> 0, block |-> 3, stack |-> 3]

UnapiInit ==
  /\ machine \in IF platform = "msx" THEN Machines ELSE {NoMachine}
  /\ memory \in IF platform = "msx" THEN Memories ELSE {NoMemory}
  /\ unapi_entry = FALSE /\ scan_tried = FALSE /\ inits = 0

(***************************************************************************)
(* Discovery.                                                              *)
(***************************************************************************)

(* UNAPIGetCount: without HOKVLD the hook is not even a RET. *)
GetCount(m) == m.hokvld /\ m.published

(* install_from_rom: the first ROM with the API's name has its INIT called. *)
Installed == [machine EXCEPT !.hokvld = @ \/ machine.inits, !.published = @ \/ machine.inits]

(* Mutant: the scan is tried whenever the API does not answer. *)
MayScanAlways == TRUE

MayScan == ~scan_tried

Discover ==
  /\ pc = "discover"
  /\ IF unapi_entry \/ GetCount(machine)
     THEN /\ unapi_entry' = TRUE
          /\ UNCHANGED <<machine, scan_tried, inits>>
     ELSE IF MayScan
     THEN /\ scan_tried' = TRUE
          /\ machine' = IF machine.rom THEN Installed ELSE machine
          /\ inits' = IF machine.rom THEN inits + 1 ELSE inits
          /\ unapi_entry' = (machine.rom /\ GetCount(Installed))
     ELSE UNCHANGED <<machine, scan_tried, inits, unapi_entry>>
  /\ IF unapi_entry' THEN pc' = "enter" /\ UNCHANGED outcome ELSE Return(FALSE)
  /\ UNCHANGED <<platform, cur, req, ran, held, reply, faults, memory>>

(***************************************************************************)
(* Entering the implementation.                                            *)
(***************************************************************************)

Page(a) == a \div PAGE
IN_SWITCHED_PAGE(a) == Page(a) \in {1, 2}
STACK_IS_SAFE == memory.stack = 3

BufLen == IF BusCall.want > 0 THEN BusCall.want ELSE Len(BusCall.data)

(* Byte i of a buffer is in the implementation's sight. *)
Seen(buffer, i) == ~IN_SWITCHED_PAGE(buffer + i - 1)

RomByte == 201

(* What the implementation takes the caller's data for, and what of its reply
   reaches the buffer it was given: <<0, i>> is a byte that did not. *)
DataSeen(buffer, data) == [i \in DOMAIN data |-> IF Seen(buffer, i) THEN data[i] ELSE RomByte]
ReplySeen(buffer, bytes) == [i \in DOMAIN bytes |-> IF Seen(buffer, i) THEN bytes[i] ELSE <<0, i>>]

(* A block out of sight is no command, or any. *)
NoCommand == [kind |-> "none", cmd |-> "none", unit |-> 0, args |-> <<>>, data |-> <<>>]

(* UNAPICall: the device answers or it does not.  A reply may be shorter than
   asked for, and says how long it is. *)
Enter(blockPage, buffer) ==
  \/ /\ IF blockPage \in {1, 2}
        THEN ran' = Append(ran, NoCommand) /\ UNCHANGED held
        ELSE CarryOut([Packet(BusCall) EXCEPT !.data = DataSeen(buffer, @)])
     /\ \E n \in 0..BusCall.want : reply' = ReplySeen(buffer, DeviceReply(cur, n))
     /\ Return(TRUE)
     /\ UNCHANGED faults
  \/ /\ Fault
     /\ Return(FALSE)
     /\ UNCHANGED <<ran, held, reply>>

GiveUp == Return(FALSE) /\ UNCHANGED <<ran, held, reply, faults>>

ScratchAddr == 3 * PAGE

(* bounce_small and bounce_large: block and buffer on the stack. *)
BounceVia ==
  IF STACK_IS_SAFE THEN Enter(memory.stack, ScratchAddr) ELSE GiveUp

(* bounce_block: the block on the stack, the buffer where it is. *)
BounceBlock ==
  Enter(IF STACK_IS_SAFE THEN memory.stack ELSE memory.block, memory.buffer)

(* Mutant: only a buffer in page 1 is bounced. *)
NeedsBouncePage1 == BufLen > 0 /\ Page(memory.buffer) = 1

NeedsBounce == BufLen > 0 /\ IN_SWITCHED_PAGE(memory.buffer)

EnterUnapi ==
  /\ pc = "enter"
  /\ IF NeedsBounce
     THEN IF BufLen <= SMALL \/ BufLen <= LARGE THEN BounceVia ELSE GiveUp
     ELSE BounceBlock
  /\ UNCHANGED <<platform, cur, req, machine, memory, unapi_entry, scan_tried, inits>>

UnapiNext == Discover \/ EnterUnapi

(* The buffer begins in page 0 and reaches into page 1, where
   fuji_unapi_call() does not look. *)
Straddles == BufLen > 0 /\ Page(memory.buffer) = 0 /\ memory.buffer + BufLen > PAGE

(* Memory the library can work with: the stack in page 3, where it means to
   put block and buffer, or else a block the implementation can see. *)
WellPlaced == (STACK_IS_SAFE \/ memory.block \notin {1, 2}) /\ ~Straddles

=============================================================================
