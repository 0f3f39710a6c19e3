----------------------------- MODULE SmartPort -----------------------------
(***************************************************************************)
(* fuji_bus_call(), network_bus_read() and network_bus_write() of the      *)
(* Apple II.  The FujiNet is a number of devices on a SmartPort card; the  *)
(* library looks for the card once, for each device when it first needs    *)
(* it, and keeps their ids.  All searches and all calls share the payload  *)
(* buffer, the unit number and the error.                                  *)
(*                                                                         *)
(* A call is a CONTROL with the arguments and, if it has a reply, a STATUS *)
(* that fetches it.                                                        *)
(***************************************************************************)
EXTENDS HostCall

CONSTANTS
  Buses,    \* what may be plugged in: per slot, the devices of the card
  BLOCK     \* MAX_SMARTPORT_BLOCK

ASSUME SmartPortAssumption ==
  /\ BLOCK \in Nat \ {0}
  /\ Buses \subseteq Seq(Seq({"fuji", "net", "clock", "disk0", "disk"}))

VARIABLES
  bus,          \* the card in each slot; <<>>: no SmartPort card
  dispatch,     \* the slot sp_dispatch jumps to; 0: not set
  sp_is_init,
  sp_id,        \* the id kept for each kind of device; 0: none
  sp_nw_unit,
  accepted      \* history: the FujiNet took the CONTROL of this call

spVars == <<bus, dispatch, sp_is_init, sp_id, sp_nw_unit, accepted>>

Kinds == {"fuji", "net", "clock"}

SPInit ==
  /\ bus \in IF platform = "apple2" THEN Buses ELSE {<<>>}
  /\ dispatch = 0 /\ sp_is_init = FALSE
  /\ sp_id = [k \in Kinds |-> 0]
  /\ sp_nw_unit = 0 /\ accepted = FALSE

(***************************************************************************)
(* Searching.  One of the STATUS requests may fail: <<s, i>> is the DIB    *)
(* request for device i of the card in slot s, or for i = 0 that for the   *)
(* number of devices.                                                      *)
(***************************************************************************)

NoFault == <<0, 0>>

Searches == {NoFault} \cup UNION {{s} \X (0..Len(bus[s])) : s \in DOMAIN bus}

FirstOf(ids) == IF ids = {} THEN 0 ELSE CHOOSE i \in ids : \A j \in ids : i <= j

(* sp_find_device: the first device of the kind on the card. *)
FindDevice(slot, kind, bad) ==
  IF bad = <<slot, 0>> THEN 0
  ELSE FirstOf({i \in DOMAIN bus[slot] : bus[slot][i] = kind /\ bad # <<slot, i>>})

(* sp_init: the card with a network device, from the highest slot down. *)
SpInit(bad) ==
  LET cards == {s \in DOMAIN bus : FindDevice(s, "net", bad) # 0}
  IN IF cards = {} THEN 0 ELSE CHOOSE s \in cards : \A t \in cards : t <= s

(* It leaves sp_dispatch pointed at the last card it has tried. *)
LastTried ==
  LET cards == {s \in DOMAIN bus : bus[s] # <<>>}
  IN IF cards = {} THEN dispatch ELSE FirstOf(cards)

(* sp_get_fuji_id: failing a device of the type, a DISK_0.  The number of
   devices is that of an earlier search, but the card is the same. *)
Fallback(slot) == FirstOf({i \in DOMAIN bus[slot] : bus[slot][i] = "disk0"})

(* Mutant: id_loc2 is left where the search for the network device put it. *)
KeepIdLost(kind) == IF sp_is_init THEN kind ELSE "net"

(* Where the id found is kept: id_loc2, put back after sp_init. *)
KeepId(kind) == kind

(* sp_find_device_type, and what sp_get_fuji_id adds. *)
Search(kind, badInit, bad) ==
  LET slot  == IF sp_is_init THEN dispatch ELSE SpInit(badInit)
      found == FindDevice(slot, kind, bad)
      ids   == IF sp_is_init THEN sp_id
               ELSE [sp_id EXCEPT !["net"] = FindDevice(slot, "net", badInit)]
  IN IF slot = 0
     THEN /\ sp_id' = [sp_id EXCEPT !["net"] = 0]
          /\ dispatch' = LastTried
          /\ UNCHANGED sp_is_init
     ELSE /\ sp_is_init' = TRUE
          /\ dispatch' = slot
          /\ sp_id' = [ids EXCEPT ![KeepId(kind)] =
                         IF found = 0 /\ kind = "fuji" THEN Fallback(slot) ELSE found]

(* network_bus_read() and network_bus_write() look for the Fuji device only. *)
Wanted == IF req.op \in {"read", "write"} THEN "fuji" ELSE req.kind

Lookup ==
  /\ pc = "lookup"
  /\ IF sp_id[Wanted] # 0
     THEN UNCHANGED <<dispatch, sp_is_init, sp_id, faults>>
     ELSE \E badInit, bad \in Searches :
            /\ Search(Wanted, badInit, bad)
            /\ IF badInit = NoFault /\ bad = NoFault
               THEN UNCHANGED faults
               ELSE (badInit = NoFault \/ bad = NoFault) /\ Fault
  /\ IF sp_id'[Wanted] = 0
     THEN Return(FALSE)
     ELSE /\ pc' = IF req.op \in {"read", "write"} THEN "block" ELSE "control"
          /\ UNCHANGED outcome
  /\ accepted' = FALSE
  /\ UNCHANGED <<platform, cur, req, ran, held, reply, bus, sp_nw_unit>>

(***************************************************************************)
(* The call.                                                               *)
(***************************************************************************)

(* The device a transaction with this id reaches on the card in use, or
   "none": there is no such id. *)
Reached(id) == IF id \in DOMAIN bus[dispatch] THEN bus[dispatch][id] ELSE "none"

KindOf(device) == IF device = "disk0" THEN "fuji" ELSE device

(* What reaches it; the unit is part of a network transaction's parameters. *)
Delivered(packet, id) ==
  [packet EXCEPT !.kind = KindOf(Reached(id)),
                 !.unit = IF id = sp_id["net"] THEN sp_nw_unit' ELSE 0]

(* CONTROL is sent for every call, but a call without arguments is carried
   out by its STATUS. *)
OnlyAsks == BusCall.want > 0 /\ BusCall.layout = "NONE" /\ BusCall.data = <<>>

(* Mutant: the unit is left as the last call set it. *)
NetworkUnitKept == IF sp_nw_unit = 0 THEN BusCall.unit ELSE sp_nw_unit

NetworkUnit == IF ToNet(BusCall) THEN BusCall.unit ELSE sp_nw_unit

AfterControl(ok) ==
  IF BusCall.want > 0
  THEN pc' = "status" /\ UNCHANGED outcome
  ELSE Return(ok)

Control ==
  /\ pc = "control"
  /\ sp_nw_unit' = NetworkUnit
  /\ \/ /\ IF OnlyAsks THEN UNCHANGED <<ran, held>>
           ELSE CarryOut(Delivered(Packet(BusCall), sp_id[req.kind]))
        /\ accepted' = TRUE
        /\ AfterControl(TRUE)
        /\ UNCHANGED faults
     \/ /\ Fault
        /\ AfterControl(FALSE)
        /\ UNCHANGED <<ran, held, accepted>>
  /\ UNCHANGED <<platform, cur, req, reply, bus, dispatch, sp_is_init, sp_id>>

(* The error of the CONTROL is overwritten by that of the STATUS. *)
Status ==
  /\ pc = "status"
  /\ UNCHANGED spVars
  /\ \/ /\ \E n \in 0..BusCall.want :
             reply' = DeviceReply(IF OnlyAsks THEN cur ELSE held, n)
        /\ IF OnlyAsks THEN CarryOut(Delivered(Packet(BusCall), sp_id[req.kind]))
           ELSE UNCHANGED <<ran, held>>
        /\ Return(TRUE)
        /\ UNCHANGED faults
     \/ /\ Fault
        /\ Return(FALSE)
        /\ UNCHANGED <<ran, held, reply>>
  /\ UNCHANGED <<platform, cur, req>>

Clip(n) == IF n < BLOCK THEN n ELSE BLOCK

BlockPacket ==
  IF req.op = "write"
  THEN [Packet(BusCall) EXCEPT !.aux = SplitU16(platform, Clip(Len(req.data))),
                               !.data = SubSeq(req.data, 1, Clip(Len(req.data)))]
  ELSE [Packet(BusCall) EXCEPT !.aux = SplitU16(platform, Clip(req.want))]

(* READ or WRITE of one block; an id that is none is an error. *)
Block ==
  /\ pc = "block"
  /\ sp_nw_unit' = req.unit
  /\ \/ /\ Reached(sp_id["net"]) = "net"
        /\ CarryOut(Delivered(BlockPacket, sp_id["net"]))
        /\ \E n \in 0..Clip(req.want) : reply' = DeviceReply(cur, n)
        /\ Return(TRUE)
        /\ UNCHANGED faults
     \/ /\ Fault \/ (Reached(sp_id["net"]) # "net" /\ UNCHANGED faults)
        /\ Return(FALSE)
        /\ UNCHANGED <<ran, held, reply>>
  /\ UNCHANGED <<platform, cur, req, bus, dispatch, sp_is_init, sp_id, accepted>>

SmartPortNext == Lookup \/ Control \/ Status \/ Block

(* Every id kept is that of such a device on the card in use, whichever of
   the searches that found them failed half-way: sp_init, sp_find_device_type
   and sp_get_fuji_id share their variables, and call one another. *)
IdsRight ==
  \A k \in Kinds : sp_id[k] # 0 => sp_is_init /\ KindOf(Reached(sp_id[k])) = k

=============================================================================
