----------------------------- MODULE NetworkIO -----------------------------
(***************************************************************************)
(* network_read, network_read_nb and network_write (src/common): the loops *)
(* that turn STATUS, READ and WRITE bus calls into stream operations on    *)
(* one open connection.                                                    *)
(*                                                                         *)
(* Between any two bus calls the peer at the other end may send more bytes *)
(* or close, and the device, which buffers what the peer sent, may run     *)
(* into an error of its own or get over it.  Any bus call may fail, and a  *)
(* READ or WRITE that fails may have been carried out all the same (its    *)
(* reply was lost).  Peer and device are not in this repository.           *)
(***************************************************************************)
EXTENDS Integers

CONSTANTS
  Lens,        \* lengths the application passes
  IntMax,      \* INT16_MAX (32767 in the code)
  ReadMax,     \* most bytes one network_bus_read takes
  WriteMax,    \* most bytes one network_bus_write takes
  MaxSent,     \* bound: bytes the peer sends
  MaxOps,      \* bound: operations the application starts
  BusFails     \* TRUE: bus calls may fail

ASSUME NetworkIOAssumption ==
  /\ IntMax \in Nat \ {0}
  /\ Lens \subseteq 0..2*IntMax+1       \* uint16_t
  /\ ReadMax \in Nat \ {0} /\ ReadMax <= 2*IntMax+1
  /\ WriteMax \in Nat \ {0}
  /\ MaxSent \in Nat /\ MaxSent <= 2*IntMax+1
  /\ MaxOps \in Nat
  /\ BusFails \in BOOLEAN

VARIABLES
  pc,       \* "idle" or the bus call that is next: "status", "fetch", "store"
  op,       \* the operation: "read", "read_nb" or "write"
  len,      \* bytes still to move (the code's len)
  asked,    \* the length the application passed
  total,    \* network_read's int16_t total; ubuf's offset in network_write
  avail,    \* nw_status.avail
  errcode,  \* nw_status.errcode, which the application sees as fn_network_error
  result,   \* what the operation returned
  broken,   \* history: a bus call of this operation failed
  moved,    \* history: <<i, j>>: byte j of the source landed at place i
  sent,     \* bytes the peer has sent
  closed,   \* the peer has closed
  error,    \* the device's own error code, NETWORK_SUCCESS when it has none
  seen,     \* history: `sent` at the last STATUS
  taken,    \* bytes of those the device has handed over
  start,    \* history: `taken` when the operation started
  ops       \* history: operations started

far    == <<sent, closed, error>>
call   == <<op, asked, start, ops>>
status == <<avail, errcode, seen>>
vars   == <<pc, len, total, status, result, broken, moved, taken, call, far>>

FN_ERR_OK == 0
FN_ERR_IO_ERROR == 1
NETWORK_SUCCESS == 1
NETWORK_ERROR_END_OF_FILE == 136
NETWORK_ERROR_GENERAL == 144

Init ==
  /\ pc = "idle" /\ op = "read" /\ len = 0 /\ asked = 0 /\ total = 0
  /\ avail = 0 /\ errcode = 0 /\ seen = 0 /\ result = 0 /\ broken = FALSE /\ moved = {}
  /\ sent = 0 /\ closed = FALSE /\ error = NETWORK_SUCCESS
  /\ taken = 0 /\ start = 0 /\ ops = 0

-----------------------------------------------------------------------------
Lesser(a, b) == IF a < b THEN a ELSE b

\* conversion to int16_t
Int16(n) == IF n > IntMax THEN n - 2*(IntMax + 1) ELSE n

Return(r) == pc' = "idle" /\ result' = r

(* The application reads: network_read loops while (len), network_read_nb  *)
(* asks for the status first.                                              *)
Start(o, n) ==
  /\ pc = "idle" /\ ops < MaxOps
  /\ op' = o /\ asked' = n /\ len' = n
  /\ total' = 0 /\ broken' = FALSE /\ moved' = {} /\ start' = taken
  /\ ops' = ops + 1
  /\ UNCHANGED <<status, taken, far>>

Read ==
  \E n \in Lens :
    /\ Start("read", n)
    /\ IF n = 0 THEN Return(0) ELSE pc' = "status" /\ UNCHANGED result

ReadNb ==
  \E n \in Lens : Start("read_nb", n) /\ pc' = "status" /\ UNCHANGED result

Write ==
  \E n \in Lens :
    /\ Start("write", n)
    /\ IF n = 0 THEN Return(FN_ERR_OK) ELSE pc' = "store" /\ UNCHANGED result

(* Mutant: the count read so far dropped on an error. *)
ReadNbReturnsError(r) ==
  IF op = "read" /\ r >= 1
  THEN /\ total' = Int16(total + r)
       /\ len' = len - r
       /\ IF len' = 0 THEN Return(total') ELSE pc' = "status" /\ UNCHANGED result
  ELSE Return(r) /\ UNCHANGED <<len, total>>

(* network_read_nb comes back with r to whoever called it.  network_read   *)
(* stops on r < 1, and else goes for the rest.                             *)
ReadNbReturns(r) ==
  IF op = "read_nb" THEN Return(r) /\ UNCHANGED <<len, total>>
  ELSE IF r < 1 THEN /\ Return(IF total = 0 /\ r < 0 THEN r ELSE total)
                     /\ UNCHANGED <<len, total>>
  ELSE /\ total' = Int16(total + r)
       /\ len' = len - r
       /\ IF len' = 0 THEN Return(total') ELSE pc' = "status" /\ UNCHANGED result

(* The code a STATUS reports: the device's own error when it has one, and  *)
(* else whether the peer has closed.                                       *)
ErrCode ==
  IF error > NETWORK_SUCCESS THEN error
  ELSE IF closed THEN NETWORK_ERROR_END_OF_FILE ELSE NETWORK_SUCCESS

(* Mutants: the error code not looked at, or looked at alone. *)
AtEndNever(code, a) == FALSE

AtEndEarly(code, a) == code > NETWORK_SUCCESS

(* End of data: an error code, whichever, with nothing waiting. *)
AtEnd(code, a) == code > NETWORK_SUCCESS /\ a = 0

(* NETCALL_RV(FUJICMD_STATUS) into nw_status: what the device has buffered *)
(* and its error code.                                                     *)
Status ==
  /\ pc = "status"
  /\ avail' = sent - taken /\ errcode' = ErrCode /\ seen' = sent
  /\ IF AtEnd(errcode', avail') THEN ReadNbReturns(0)
     ELSE /\ pc' = IF avail' = 0 THEN "status" ELSE "fetch"
          /\ UNCHANGED <<len, total, result>>
  /\ UNCHANGED <<broken, moved, taken, call, far>>

StatusFails ==
  /\ BusFails
  /\ pc = "status"
  /\ broken' = TRUE
  /\ ReadNbReturns(-FN_ERR_IO_ERROR)
  /\ UNCHANGED <<status, moved, taken, call, far>>

(* Mutant: len not held to what is available. *)
ChunkUnheld == Lesser(len, ReadMax)

(* network_bus_read of min(len, avail), cut to what the bus takes at once. *)
Chunk == Lesser(Lesser(len, avail), ReadMax)

(* Mutant: every chunk lands at ubuf. *)
LandAtStart(n) == moved' = moved \cup {<<i, taken - start + i>> : i \in 0..n-1}

(* n bytes of the stream land at &ubuf[total]. *)
Land(n) == moved' = moved \cup {<<total + i, taken - start + i>> : i \in 0..n-1}

Fetch ==
  /\ pc = "fetch"
  /\ Land(Chunk)
  /\ taken' = taken + Chunk
  /\ ReadNbReturns(Int16(Chunk))
  /\ UNCHANGED <<status, broken, call, far>>

FetchFails ==
  /\ BusFails
  /\ pc = "fetch"
  /\ taken' \in {taken, taken + Chunk}
  /\ broken' = TRUE
  /\ ReadNbReturns(0)
  /\ UNCHANGED <<status, moved, call, far>>

(* Mutant: ubuf left where it is. *)
AdvanceNot(n) == total

(* network_write sends from ubuf until nothing is left ... *)
Advance(n) == total + n

Store ==
  /\ pc = "store"
  /\ LET n == Lesser(len, WriteMax) IN
       /\ moved' = moved \cup {<<asked - len + i, total + i>> : i \in 0..n-1}
       /\ len' = len - n
       /\ total' = Advance(n)
       /\ IF len' = 0 THEN Return(FN_ERR_OK) ELSE UNCHANGED <<pc, result>>
  /\ UNCHANGED <<status, broken, taken, call, far>>

(* ... or until a write moves nothing. *)
StoreFails ==
  /\ BusFails
  /\ pc = "store"
  /\ LET n == Lesser(len, WriteMax) IN
       \/ UNCHANGED moved
       \/ moved' = moved \cup {<<asked - len + i, total + i>> : i \in 0..n-1}
  /\ broken' = TRUE
  /\ Return(FN_ERR_IO_ERROR)
  /\ UNCHANGED <<len, total, status, taken, call, far>>

-----------------------------------------------------------------------------
(* The peer and the device (external) *)

PeerSends ==
  /\ ~closed /\ sent < MaxSent
  /\ sent' = sent + 1
  /\ UNCHANGED <<pc, len, total, status, result, broken, moved, taken, call, closed, error>>

PeerCloses ==
  /\ ~closed
  /\ closed' = TRUE
  /\ UNCHANGED <<pc, len, total, status, result, broken, moved, taken, call, sent, error>>

(* The device runs into an error, with bytes waiting or without, the peer  *)
(* there or gone; or the error passes.                                     *)
DeviceErrs ==
  /\ error' \in {NETWORK_SUCCESS, NETWORK_ERROR_GENERAL} \ {error}
  /\ UNCHANGED <<pc, len, total, status, result, broken, moved, taken, call, sent, closed>>

Application == Read \/ ReadNb \/ Write

Library == Status \/ StatusFails \/ Fetch \/ FetchFails \/ Store \/ StoreFails

Peer == PeerSends \/ PeerCloses

Next == Application \/ Library \/ Peer \/ DeviceErrs

Spec == Init /\ [][Next]_vars

(* The library runs on, no bus call owes a failure, and the peer does not  *)
(* fall silent with the connection open: network_read is documented to     *)
(* wait for it for ever.                                                   *)
FairSpec == Spec /\ WF_vars(Status \/ Fetch \/ Store) /\ WF_vars(Peer)

-----------------------------------------------------------------------------
Bytes(n) == {<<i, i>> : i \in 0..n-1}

Reading == op \in {"read", "read_nb"}

(* Types, and that the device is never asked for bytes it has not got: the *)
(* stream a READ takes from holds every byte taken (network_read_nb's      *)
(* clamp of len to nw_status.avail).                                       *)
TypeOK ==
  /\ pc \in {"idle", "status", "fetch", "store"}
  /\ op \in {"read", "read_nb", "write"}
  /\ len \in 0..asked /\ asked \in Lens \cup {0}
  /\ total \in Int /\ result \in Int
  /\ avail \in 0..MaxSent /\ errcode \in 0..255 /\ seen \in 0..sent
  /\ broken \in BOOLEAN /\ closed \in BOOLEAN
  /\ error \in {NETWORK_SUCCESS, NETWORK_ERROR_GENERAL}
  /\ moved \subseteq Int \X Nat
  /\ sent \in 0..MaxSent /\ taken \in 0..sent /\ start \in 0..taken
  /\ ops \in 0..MaxOps

(* A read that returns n >= 0 has put exactly the next n bytes of the      *)
(* stream into the first n places of the caller's buffer, in order and     *)
(* however many READs they came in, and has touched nothing else; unless a *)
(* bus call failed, the next read goes on right behind them.               *)
ReadInOrder ==
  pc = "idle" /\ Reading /\ result >= 0 =>
    moved = Bytes(result) /\ (~broken => taken = start + result)

(* network_write reports success only when all of the buffer went out, and *)
(* what did go out, even when it reports an error, is the buffer's         *)
(* beginning in order: no byte skipped or sent from the wrong place when a *)
(* write is cut into WRITE calls.                                          *)
WriteInOrder ==
  pc = "idle" /\ op = "write" =>
    /\ \E n \in 0..asked : moved = Bytes(n)
    /\ result = FN_ERR_OK => moved = Bytes(asked)

(* When no bus call failed, a network_read that returns less than it was   *)
(* asked for, or a network_read_nb that returns nothing, has met the end   *)
(* of data that fujinet-network.h describes: fn_network_error holds an     *)
(* error code, and every byte the device had when it reported that error   *)
(* was handed over.  The peer may still be there and send more, unless the *)
(* code is END_OF_FILE: then it has closed and all it ever sent was read.  *)
ShortMeansEnd ==
  pc = "idle" /\ Reading /\ ~broken /\ result < (IF op = "read" THEN asked ELSE Lesser(asked, 1))
    => /\ errcode > NETWORK_SUCCESS /\ taken = seen
       /\ errcode = NETWORK_ERROR_END_OF_FILE => closed /\ taken = sent

(* fujinet-network.h on network_read: a negative error is returned only    *)
(* when nothing was read.                                                  *)
NegativeOnlyIfNothingRead ==
  pc = "idle" /\ op = "read" /\ result < 0 => moved = {}

(* Every operation returns, provided the peer sends or closes: the wait    *)
(* loop of network_read_nb ends once the peer has closed and everything is *)
(* read, whatever errors of the device come and go.                        *)
OperationReturns == pc # "idle" ~> pc = "idle"

-----------------------------------------------------------------------------
(* Why the safety properties hold, when the lengths fit an int16_t, as an  *)
(* inductive invariant: while an operation runs no bus call has failed,    *)
(* and what has landed is the beginning of the stream or of the buffer, as *)
(* long as the operation's own count says.                                 *)
RunningInv ==
  /\ ~broken
  /\ pc \in {"status", "fetch"} =>
       /\ Reading /\ total \in 0..asked /\ (op = "read_nb" => total = 0)
       /\ len = asked - total /\ (op = "read" => len > 0)
       /\ taken = start + total
       /\ moved = Bytes(total)
  /\ pc = "fetch" => avail > 0 /\ avail <= sent - taken
  /\ pc = "store" =>
       /\ op = "write" /\ len > 0 /\ total = asked - len
       /\ moved = Bytes(total)

IInv ==
  /\ TypeOK
  /\ pc # "idle" => RunningInv
  /\ ReadInOrder /\ WriteInOrder /\ ShortMeansEnd /\ NegativeOnlyIfNothingRead
=============================================================================
