# A TLA+ model of fujinet-lib

fujinet-lib is the C and assembly library through which programs on 8-bit
machines (Atari, Apple II, Adam, C64, CoCo, ColecoVision, H89, Lynx, MSX, NES,
PMD 85, TRS-80 Model II and others) talk to a FujiNet, an adapter that gives
them networking and files. This directory holds a TLA+ specification of it, the
TLC configurations that check it on small instances, and TLAPS proofs of its
main safety properties for all instances.

The client is single-threaded. What makes it hard is everything it talks to: the
FujiNet, the wire and the network peer all run concurrently with it, answer late
or not at all, and keep their state when the client gives up, fails half-way or
is reset.

Contents: [the system](#the-system) · [the modules](#the-modules) ·
[the runs](#the-runs) · [the proofs](#the-proofs) ·
[abstractions and limits](#abstractions-and-limits) ·
[not modelled](#not-modelled) · [findings](#findings) · [plan](#plan)

## The system

Three layers, from the top:

    application
      |   fuji_*, network_*, clock_* ...          include/*.h, common/*.c
      |   FUJICALL_*, NETCALL_*, CLKCALL_* macros include/fujinet-bus-ez*.h
      v
    fuji_bus_call(device, command, fields, ...)   bus/<platform>/
    network_bus_read / network_bus_write
    fuji_bus_appkey_read / fuji_bus_appkey_write
      |   one port or driver per platform
      v
    the wire, and the FujiNet at its other end    (not in this repository)

The upper layers see nothing of the bus but `bool fuji_bus_call(...)`: one
outstanding call, parameters and perhaps a payload out, perhaps a reply in.
`BusCall.tla` states what that function promises them. Three bus modules are
checked to implement it; the others are checked against the promise as
invariants, under the conditions their protocols need. The modules of the upper
layer start from bus calls that succeed or fail.

| Component (sources) | State it keeps | What is hard | What makes it correct | Modelled by |
|---|---|---|---|---|
| Cartridge mailbox, ColecoVision and NES (`bus/coleco`, `bus/nes`) | none but `fuji_bus_call_rlen`; the cart keeps registers, command stream, last sequence, reply window | RESETs that restart the console and not the cart; a cart slower than the polling budget; the sequence byte wrapping; the window overwritten while it is read | one whole command per commit; a TRUE call was decided by its own answer; no copy past a buffer; every call returns | `Mailbox` |
| FujiBus packets over a serial port (`bus/fujiversal-call`, `bus/h89`) | bytes waiting at the port | late replies, lost and garbled bytes, no sequence numbers, bounded discarding | a TRUE call accepted one whole acknowledging reply, its own unless a late one slipped through the drain; every call returns | `FujiBus` |
| AdamNet (`bus/adam`) | the DCB; the FujiNet keeps a reply and a failure bit until the next command | a WRITE is over when delivered, not when carried out; a retry of what was delivered; calls that give up on a slow FujiNet | a TRUE call was answered by its own reply or failure bit; no byte behind the buffer; every call returns | `AdamNet` |
| DriveWire (`bus/coco`, `bus/pmd85`) | bytes on the line, the FujiNet's last error and response | a call is four to six exchanges of bytes that carry no address; a DEVICE_READY sent once too often answers the next question | every byte is taken for what it is; success is on the FujiNet's own word; every call returns | `DriveWire` |
| ComLynx (`bus/lynx`) | receive buffer, `_fn_error` | one wire for both sides, echoes; nothing empties the receive buffer before a call | success only with the whole own answer; a call leaves the line empty | `ComLynx` |
| SmartPort (`bus/apple2`) | slot and device ids found once, one payload buffer, unit and error for all | searches that call one another and share their variables, and fail half-way; CONTROL and STATUS with one error | an id kept is that of such a device | `SmartPort`, `HostBus` |
| UNAPI (`bus/msx`) | entry found once, "scan tried" | the implementation stands where the caller's buffer, block or stack may be | data and reply arrive whole; a ROM is started once | `Unapi`, `HostBus` |
| IEC (`bus/c64`) | one KERNAL channel | any of open, payload, status, reply fails; the payload ends the command; one channel for all network units | payload in one session; the channel is closed | `HostBus` |
| SIO (`bus/atari`), MS-DOS driver (`bus/msdos`) | none | only the shape of the arguments | the FujiNet decodes what was meant | `HostCall`, `HostBus` |
| Argument layouts, device API (`include/fujinet-bus-ez*.h`, `include/fujinet-*.h`) | none | four families of machines split, turn round, pad and count arguments differently | the arguments arrive | `Fields`, `Api` |
| Stream operations (`network_read.c`, `network_read_nb.c`, `network_write.c`) | `nw_status` | the peer sends and closes between the calls; calls fail half-way; 16-bit counts | bytes in order and once; short only at the end of data; every operation returns | `NetworkIO` |
| Channel control, JSON and HTML queries (`network_*.c`) | the FujiNet's channel mode, parser, query cursor | a POST that fails between two mode switches; an answer read in pieces one of which is lost | the mode is what the next operation assumes; a result is of its own query | `Channel`, `Session` |
| File stat and copy (`fuji_file_stat.c`, `fuji_copy_file_common.c`) | one static directory entry | the copy outlasts the bus timeout and is judged by file sizes | done only if copied, or an older file of that size was there | `FileOps`, `Session` |
| Device sessions: app keys, hashes, QR codes, clock, wifi | static buffers; the FujiNet's open key, hash, code, zones | one call of several failing; what a half-made operation leaves behind | the result is of this operation | `DeviceTools`, `Session` |
| Cartridge boot interface, serial ports in assembly, waits, Apple IIGS port, build and tests | | | | [not modelled](#not-modelled) |

`PROJECT.json` lists the same components with their sources, and under `hazards`
the places in the code that are hard to test, each with the properties that
cover it or the reason why none does.

## The modules

| Module | What it is |
|---|---|
| `BusCall` | the abstract bus call: begin, carried out at most once, succeed with its own answer, or fail |
| `Mailbox`, `FujiBus`, `AdamNet` | `fuji_bus_call` on three buses, implementations of `BusCall` |
| `DriveWire`, `ComLynx` | the same on two buses whose bytes say nothing about what they answer |
| `Fields` | argument layouts: pure operators, no state |
| `Api` | the library's functions that are one bus call, as requests (extends `Fields`) |
| `HostCall` | the call, the bus call it becomes, the FujiNet that decodes it (extends `Api`) |
| `SmartPort`, `Unapi` | the buses of the Apple II and the MSX (extend `HostCall`) |
| `HostBus` | both, the C64's, and the one-transaction buses composed; the properties (extends both) |
| `NetworkIO` | `network_read`, `network_read_nb`, `network_write`, the FujiNet's stream, the peer |
| `OpSteps` | scripts of bus calls and what the FujiNet may do with one |
| `DeviceTools`, `FileOps`, `Channel` | the operations of `common/` as scripts, per service of the FujiNet (extend `OpSteps`) |
| `Session` | operation after operation, with calls that fail (extends the three) |
| `MC*` | constants for TLC |
| `*Proofs` | theorems and their proofs |

Operators named in a comment "Mutant: ..." stand before the definition they
vary. They are plausible slips (a forgotten clamp, a dropped check) that no
action uses; each shows that some property would notice it.

### Mailbox

The console's code is cut into its accesses to the cart, since the cart may act
between any two of them. `pc` says which one is next:

| Action | Code (`fujinet-bus-coleco.c`; the NES file has the same steps as stores) |
|---|---|
| `Call`, `Check` | entry, `fuji_bus_call_rlen = 0`, the `FN_TX_MAX` check |
| `Rewind`, `SetRegs`, `Params`, `Payload` | the writes to `FNR_DATA_RST`, `FNR_DEVICE`, `FNR_CMD`, `FNR_NPARAM`, `FNR_DATA` |
| `ReadSeq`, `Commit`, `Poll`, `Timeout` | `fn_commit`: read `FN_ACKSEQ`, write `FNR_SEQ`, poll, give up |
| `ReadErr`, `ReadAck`, `ReadLen`, `Copy`, `Done` | status words, reply command, clamped length, the byte copy, the return |
| `Reset` | a console RESET: RAM and program counter start again, the cart does not |
| `CartStart`, `CartMiss`, `CartPaint`, `CartAck` | the cart: latch and start, miss, paint the reply, publish the sequence |

The stream and the reply are modelled by whose bytes they hold: `tx.of` is the
set of calls that wrote into the command stream, `win[i]` the call that window
cell `i` was painted for, and `seen` collects the calls whose words and bytes
the current call has read. `quiet` is a history variable: the cart had nothing
latched and nothing in progress when this call picked its sequence.

### FujiBus

A serial line carries tokens: `SLIP_END`, or a piece of a reply frame (the
header as one piece, then one piece per data byte). `line` holds what has been
sent and not yet read, the first `arrived` tokens of it wait at the port. The
client's actions are the steps of `fuji_packet_call` and
`port_getbuf_slip_dual`: `Drain`, `Send`, `Sync` (find a delimiter, at most
`SYNC_MAX` tokens), `Skip` (further delimiters), `Body` (fill the header and
then the caller's buffer), `Timeout`, `Check`. The device answers requests in
order whenever it likes; `Lose` and `Garble` damage a token on its way,
out of a delimiter, which joins two frames, or (`FalseEnds`) into one, which
splits a frame in two.

### AdamNet

The client posts a transaction and spins until it completes, so a transaction is
one step for the client; the FujiNet's work (`Serve`) goes on in between.

| Action | Code (`bus/adam`) |
|---|---|
| `Call`, `Check` | entry; no Adam id, no DCB or a payload too big for the packet: false |
| `WriteFinish`, `WriteTimeout`, `WriteError` | `dcb_io(DCB_COMMAND_WRITE)`: at most `MAX_RETRIES` postings |
| `ReadyFinish`, `ReadyTimeout` | `bus_ready`: STATUS, at most `LONG_RETRIES` times, then the failure bit |
| `ReadFinish`, `ReadNak`, `ReadTimeout`, `ReadError` | `dcb_io(DCB_COMMAND_READ)` and the copy out of `fb_packet`; the NAK is an empty app key. A scan and a JSON query READ after a call without reply |
| `Stat`, `StatFails`, `WaitFinish`, `WaitTimeout`, `WaitOver` | `fuji_copy_file_adam` before and after its call |

`Fail` is the `return false` of `fuji_bus_call`, after which a file copy goes on
to wait. A busy FujiNet answers nothing (`job # NoJob`); on an idle one a
transaction times out only if it goes wrong on the wire (`Hit`), and a WRITE may
then have been delivered all the same.

### DriveWire

One module for the CoCo with its bit-banger port, the CoCo with a Becker port
and the PMD 85, chosen by `platform`. A call is the list `todo` of exchanges its
code makes; each begins with `bus_ready()`.

| Action | Code (`bus/coco`, `bus/pmd85`) |
|---|---|
| `Call` | entry of `fuji_bus_call`, `network_bus_read`, `network_bus_write`; a device the bus does not reach |
| `AskReady`, `ReadyByte`, `ReadyTimeout` | `bus_ready()`: send DEVICE_READY, take the first byte, send it again after `READY_RESEND_TIMEOUTS` |
| `SendCommand`, `FujiGetError`, `NetworkGetError`, `FujiGetResponse`, `NetworkGetResponse` | the frames |
| `ReadByte`, `ReadTimeout`, `ReadDone` | `dwread()` and what the call makes of it |
| `Device`, `Lose` | the FujiNet, request by request; a byte that comes while nobody listens to the bit-banger |

Bytes on the line are records of what they really are, and `outcome.took` of
what the host took them for. `quiet` is a history variable: the line was idle
when the call began, and no `bus_ready()` has waited through
`READY_RESEND_TIMEOUTS` for an answer that was still to come.

### ComLynx

Bytes have their values here, because length, checksum and acknowledgement are
what tells a reply from noise; `part` is a history field saying what a byte was
sent as. `Reflected` is the sequence of `ser_put` and `ser_get` with which the
code discards its own echo. `Start`, `SendHead`, `SendByte`, `Answer`,
`RecvAck`, `High`, `Low`, `Data`, `Check` and `Timeout` follow
`fnio_send_buf`, `fnio_recv_ack` and `fnio_recv_buf`; `TakePacket`, `CarryOut`,
`Arrive`, `Lose` and `Garble` are the FujiNet and the wire.

### Fields, Api, HostCall, HostBus

`Fields` has the arithmetic: how a macro takes arguments apart into aux bytes on
each family of machines (`AuxBytes`, `FixedAux`), what the bus makes of them
(`BusAux`, `TurnRound`, `Swap`), and how the FujiNet puts them together
(`Arguments`). `Api` lists the library's functions that are one bus call with
their command, layout, data and reply, with argument values whose bytes all
differ. `HostCall!BusCall` is the bus call a request becomes, `Packet` what
reaches the wire, `Understood` what the FujiNet takes it for, `ran` what it
carried out, and `HostBus!Meant` what the request means: four independent
accounts that `ArgumentsArrive` relates. What is meant names the network unit on
every machine; the C64 does not send it, and `ArgumentsArrive` excepts that
(`UnitLost`) instead of leaving it out of what is meant.

- `HostCall!Transact`: the Atari's SIO and the MS-DOS driver, where a call is one
  transaction with the operating system (and a DriveWire exchange, whose
  arguments alone are looked at here).
- `SmartPort`: `Lookup` is `sp_get_fuji_id` and its kind down to `sp_init` and
  `sp_find_device_type`, each of whose DIB requests may fail; `Control`,
  `Status`, `Block` are the calls.
- `Unapi`: `Discover` is the EXTBIO lookup and the ROM scan, `EnterUnapi` the
  choice of bouncing and the call.
- `HostBus`: `Open`, `SendPayload`, `ReadStatus`, `ReadReply`, `Close` are
  the C64's `fuji_bus_call` on the KERNAL; with `NoCreator` and `SendRead` they are
  `fuji_read_appkey_c64`, two commands through one open channel.

### NetworkIO

One action per bus call (`Status`, `Fetch`, `Store`), one for the same call
failing (`StatusFails`, `FetchFails`, `StoreFails`), and one per operation the
application starts. Since `network_read` is a loop around `network_read_nb`,
`ReadNbReturns(r)` is the place where the inner function returns: to the
application or into the loop. Between any two bus calls the peer may send or
close (`PeerSends`, `PeerCloses`), and the FujiNet may run into an error of its
own on the channel or get over it (`DeviceErrs`). A STATUS reports that error,
else END_OF_FILE once the peer has closed (`ErrCode`); the code ends a read on
any of them, if nothing is waiting (`AtEnd`). `errcode` and `seen`, the bytes
sent by the last STATUS, let `ShortMeansEnd` say what a short read tells: an
error code, with all read that had come by then, and on END_OF_FILE all there
will ever be. A failed READ may have consumed the bytes at the device, and
a failed WRITE may have been carried out, because a reply can be lost after the
request was served. `moved` records which byte of the source landed at which
place, so "in order" is a statement about a set of pairs.

### OpSteps, DeviceTools, FileOps, Channel, Session

Most functions of `common/` are short scripts: call, return false if it failed,
call again. A script is a sequence of `Must` (give up on failure) and `Try`
(go on) steps. Each of the three modules says for its operations which script
they are, what the FujiNet does with each command (external), what the library
keeps of an answer, and how loops go on (`StatRest`, `CopyRest`, `QueryRest`,
`ToolRest`). `Session` runs them one after the other:

| Action | |
|---|---|
| `Begin` | the program calls a function; locals are fresh, statics are what they were |
| `Step` | the next bus call is answered, or fails before or after the FujiNet carried it out |
| `NoCall` | an operation that needs no call returns |
| `CopyEnds` | the FujiNet comes to the end of a copy |

The services of the FujiNet do not touch one another, so a behaviour uses one of
them (`theme`). `told` is what a program that remembers the results of its calls
can know of the FujiNet's state; the properties compare it with what the next
operation returns.

## The runs

| Run | Constants | Shows |
|---|---|---|
| `mailbox_reset` | 4 calls, 2 RESETs, cart may miss writes, budget may be shorter than its jobs, fairness | `TypeOK`, `OwnReply`, `CommandWhole`, `ReplyFits`, `CallReturns` |
| `mailbox_bus` | 4 calls, no RESET, no missed writes, long budget | `QuietCallIsAnswered`, `ImplementsBusCall` |
| `fujibus_late` | 2 calls to 2 devices, one damaged token, device as slow as it likes | `TypeOK`, `OwnReply`, `WholeReply` |
| `fujibus_prompt` | 3 calls, two tokens lost or garbled (never into a delimiter), device answers within `TIMEOUT_SLOW`, fairness | `ImplementsBusCall`, `CallReturns` |
| `adam_lossy` | 3 calls of any kind, 2 transactions gone wrong, FujiNet as slow as it likes, fairness | `TypeOK`, `OwnAnswer`, `CallReturns` |
| `adam_bus` | 3 calls, none gone wrong, FujiNet as slow as it likes | `ImplementsBusCall` |
| `adam_copy` | 1 file copy, 2 transactions gone wrong | violates `CopyCarriedOut` (finding) |
| `drivewire` | 2 calls of any kind on three machines, 2 timeouts before the answer, 1 lost byte, replies of 0 to 2 bytes, fairness | `InStep`, `Confirmed`, `CallReturns` |
| `comlynx` | 2 calls, with and without echo, 2 bytes lost or garbled, FujiNet as late as it likes | `TypeOK`, `OwnAnswer`, `InStep` |
| `host_bus` | 3 calls out of all of `Api` on seven machines, 2 failed transactions | `ArgumentsArrive`, `OwnReply`, `RoutesRight`, `ChannelClosed` |
| `network_io` | 3 operations of 0 to 3 bytes, chunks of 2, 5 bytes from the peer, calls may fail, the device has errors of its own, fairness | `TypeOK`, `ReadInOrder`, `WriteInOrder`, `ShortMeansEnd`, `NegativeOnlyIfNothingRead`, `OperationReturns` |
| `session` | 3 operations of each service, 2 failed calls, fairness | `HashOfOwnData`, `CodeOfOwnData`, `KeyAsked`, `TimeInZone`, `CopySizesAgree`, `QueryWhole`, `PostedOnce`, `OperationReturns` |

**Bounds.** `MaxCalls`, `MaxResets`, `MaxHits`, `MaxFaults`, `MaxEarly`,
`MaxLost`, `MaxOps` and `MaxSent` bound the behaviours; the other constants are
parameters of the code cut down.

- `SeqMod = 3` leaves the sequence byte two usable values, so four calls wrap it
  and an answer two calls old carries the sequence the next call picks. That is
  the situation 256 values reach after 255 calls.
- `mailbox_bus` lets the cart miss no write, since `QuietCallIsAnswered` is about
  such a cart; that the mailbox is a bus call with missed writes too is the
  theorem `Refinement`.
- The mailbox requests are a read with a byte parameter, a write with a 16-bit
  parameter, and a write that exceeds the (8 byte) stream only because of its
  parameter. The cart may report a length beyond the (2 byte) window and beyond
  the caller's buffer.
- Two FujiBus calls are enough for a late reply to meet the next call; two
  devices for it to differ in device. `DrainMax = 4` is shorter than the longest
  frame (5 tokens) and `SyncMax = 3` than the leftovers of one, so both limits
  bite. One damaged token can split, join, shorten or forge a frame.
- `fujibus_prompt` makes three calls, since a reply can be left to the call after
  next. `DrainMax = 2` cuts replies in their middle, and `SyncMax = 6` is just
  more than what a drain can leave of one and the delimiter of the next.
- `MAX_RETRIES = 2` and `LONG_RETRIES = 3` with two transactions gone wrong let a
  WRITE be lost twice in a row, be delivered twice, or give up while the FujiNet
  still works; three calls let a reply be left over for the call after next.
  Packets of two bytes and buffers of one and two take both ways of reading.
- `ReadyResend = 2` with two early timeouts and one lost byte: DEVICE_READY is
  sent again for a lost answer, and also for one still to come, whose second
  answer then meets the next exchange or the next call. 20 timeouts do the same
  in the code.
- The ComLynx replies are empty, as long as the buffer, and longer; their bytes
  look like a length and like an ACK, and noise turns one into the other. A
  packet limit of 3 has requests on both sides of it.
- Three API calls on `host_bus` are an OPEN_APPKEY, the call that needs it, and
  one more, or a search, a call that fails, and a call that uses what the search
  kept. Pages of 8 bytes and bounce buffers of 2 and 4 bytes put buffers of 1 to
  5 bytes on both sides of each limit; the memory layouts have buffer, block and
  stack in every page that matters, and one buffer across a page boundary. The
  cards are a FujiNet behind a hard disk, an old one known by its DISK_0, and
  none.
- An `int16_t` of three bits (`IntMax = 3`) with chunks of two makes a read of
  three bytes two READ calls.
- Three operations are one that leaves something behind, one that must not return
  it, and one between; two failed calls can be in the same operation or in two.
  A STATUS shows 3 of the 4 bytes of an answer, so a query takes two rounds.
  `MAX_COPY_RETRIES = 2` lets a copy end before, between and after the polls.

**Deadlock.** The application makes a bounded number of calls, so every
specification stops when they are used up; the configurations set
`CHECK_DEADLOCK FALSE`. That no call or operation gets stuck is what the
liveness properties say.

**Fairness.** Only of what really runs on by itself.

- `Mailbox`: the console executes (`WF(Console)`) and the cart keeps working on
  or dropping what it was sent (`WF(Cart)`). Neither a RESET nor another call is
  owed.
- `FujiBus`: the client executes, tokens arrive, the device answers. The line
  need not lose anything.
- `AdamNet`: the client executes and its transactions complete, if only by
  timing out. The FujiNet is owed nothing: it may never finish a command.
- `DriveWire`: the host executes (`WF(Host)`) and the FujiNet takes requests
  (`WF(Device)`): `bus_ready()` has no other end. `CallReturns` excepts a PMD 85
  whose reply is shorter than its buffer (`Hung`), since its `dwread()` has no
  timeout.
- `NetworkIO`: the library executes (`Status`, `Fetch`, `Store`; no bus call ever
  owes a failure), and the peer eventually sends or closes.
  Without the last, `network_read` really waits for ever, and its
  documentation says so: "The read will block until it has read all the bytes
  requested from the device, or the EOF is hit" (`fujinet-network.h:135`).
- `Session`: the program goes on (`WF(Step)`, `WF(NoCall)`), since every bus call
  returns. The end of a copy is not owed: the polling ends by its own count.

**The condition on `OwnReply`.** The buses guarantee that a TRUE call read its
own answer only under a condition: the mailbox if the cart was idle when the
sequence was picked; FujiBus if every reply still owed to earlier calls was at
the port when it was drained; DriveWire and ComLynx if the call began on an idle
line (`quiet`). Without it the property is false for each of them, as none has a
sequence number in its replies. Where the mailbox's and FujiBus's conditions
always hold (no RESET and a long enough budget; a prompt device, a long enough
`SYNC_MAX` and no made-up delimiter),
`ImplementsBusCall` is unconditional. AdamNet needs no such condition
(`OwnAnswer`), because a busy FujiNet takes no new command and a new command
replaces the old answer; it is a bus call unless a transaction goes wrong, when
a command may be carried out twice. ComLynx's `InStep` closes the circle: a
call that succeeds, or is told of a failure, leaves a quiet line to the next.

## The proofs

TLC checks the instances above; TLAPS proves, for all values of the constants:

| Theorem | Statement |
|---|---|
| `MailboxProofs!TypeCorrect`, `OwnReplyCorrect`, `CommandWholeCorrect`, `ReplyFitsCorrect` | `Spec => []TypeOK`, and likewise `OwnReply`, `CommandWhole`, `ReplyFits` |
| `MailboxProofs!QuietCallIsAnsweredCorrect` | if the cart misses no write, `Spec => []QuietCallIsAnswered` |
| `MailboxProofs!Refinement` | without RESETs and with `BudgetOutlasts`, `Spec => ImplementsBusCall` |
| `FujiBusProofs!TypeCorrect`, `OwnReplyCorrect`, `WholeReplyCorrect` | `Spec => []TypeOK`, `Spec => []OwnReply`, `Spec => []WholeReply` |
| `FujiBusProofs!Refinement` | with `GoodLine` (a prompt device, `SYNC_MAX` longer than any reply, noise that makes up no delimiter), `Spec => ImplementsBusCall` |
| `AdamNetProofs!TypeCorrect`, `OwnAnswerCorrect` | `Spec => []TypeOK`, `Spec => []OwnAnswer` |
| `AdamNetProofs!Refinement` | if nothing goes wrong on the wire and no call is a RESET of the FujiNet, `Spec => ImplementsBusCall` |
| `NetworkIOProofs!TypeCorrect`, `ReadInOrderCorrect`, `WriteInOrderCorrect`, `ShortMeansEndCorrect`, `NegativeOnlyIfNothingReadCorrect` | if all lengths fit an `int16_t` (`LensFit`), `Spec` implies each property always |
| `DriveWireProofs!InStepCorrect`, `ConfirmedCorrect` | `Spec => []InStep`, `Spec => []Confirmed` |
| `HostBusProofs!RoutesRightCorrect`, `ChannelClosedCorrect` | `Spec => []RoutesRight`, `Spec => []ChannelClosed` |
| `HostBusProofs!ArgumentsArriveCorrect`, `OwnReplyCorrect` | `Spec => []ArgumentsArrive`, `Spec => []OwnReply` |
| `HostBusProofs!ArgumentsRoundTrip` | for every machine, layout and argument values, `Arguments(p, layout, BusAux(p, layout, args, net)) = args` (on the Atari for layouts of at most two bytes, which is all it has room for) |
| `ComLynxProofs!TypeCorrect` | `Spec => []TypeOK` |
| `ComLynxProofs!OwnAnswerCorrect`, `InStepCorrect` | if no message is longer than the library's limit, and that limit is below 1536 (`MessagesFit`), `Spec => []OwnAnswer`, `Spec => []InStep` |
| `SessionProofs!KeyAskedCorrect`, `CodeOfOwnDataCorrect`, `TimeInZoneCorrect`, `HashOfOwnDataCorrect`, `PostedOnceCorrect`, `QueryWholeCorrect`, `CopySizesAgreeCorrect` | `Spec` implies each of the seven properties always |

**Assumptions.** `MailboxAssumption`: the constants have their types, the
sequence byte has more than two values (256 in the code), and the command buffer
holds the parameters alone (four parameters are at most eight bytes with their
size bytes). `FujiBusAssumption`: types, at least one
device, and that an answer may be without data. `AdamNetAssumption`: types, and a
scan asks for one byte. `NetworkIOAssumption`: types; chunk sizes are positive.
`LensFit` is a hypothesis of the `NetworkIO` theorems, not an assumption of the
module: without it `NegativeOnlyIfNothingRead` is false. `SmartPortAssumption`:
cards hold devices of the kinds the code distinguishes, in a finite sequence.
`DriveWireAssumption`: types; it takes at least one timeout to a resend.
`ComLynxAssumption`: types; a reply has fewer than 65536 bytes, since its length
is sent in two. `MessagesFit` is a hypothesis of two theorems: the code's limit is
1024 ("Max message size", `lynxfnio.h`), and both halves are needed. If the
FujiNet sent more than `FNIO_TX_LEN_MAX`, `fnio_recv_buf` would take its first part
for all of it; and if the ACK of a packet is lost, the first byte of a reply of
1536 to 1791 bytes is taken for it. The modules of `Session` assume that there
are data, creators, zones and sizes at all, and positive `MAX_COPY_RETRIES` and
`ChunkMax`.

**Mailbox argument.** None of the four properties is inductive. `IInv` adds

- `StagingInv`: from the rewind to the commit, the stream and the registers hold
  this call's bytes only, exactly as many as staged so far. `CommandWhole`
  speaks of the moment after the commit and needs it at every earlier step; a
  RESET in the middle is harmless because the next call rewinds first.
- `CopyInv`: the copy counts from 0 to a length that the window and the caller's
  buffer hold.
- `QuietInv`: once a quiet call has picked its sequence, whatever the cart has
  latched, is working on or has painted is this call's. Its core is that the
  picked sequence differs from `ackseq` (this is where more than two sequence values, and
  skipping 0, come in), so the poll can only be satisfied by this call's
  acknowledgement, which comes after its reply is painted.

`QuietCallIsAnswered` needs besides that a committed sequence is never 0, which
`NextSeq` skips: then only an acknowledgement takes a command from the cart, and
that acknowledgement carries the call's sequence (`AnsweredInv`).

The refinement needs more: `OnceInv` says that without RESETs, and with a budget
that outlasts the cart, every call is quiet and the cart has started its command
exactly once by the time it acknowledges. `Call` then maps to `Begin`,
`CartStart` to `Serve`, each return to `Succeed` or `Fail`, and every other step
to a stutter.

**FujiBus argument.** `IInv` says three things. The device never has two
requests of one call, and a reply it has sent is its last word on that call, so
the answer a frame was made from is still the call's answer when the frame is
read. Every piece on the line or already read belongs to a call that was carried
out. And after a drain that left nothing owed, whatever is on its way, request
or reply, is the current call's; so is then what the call reads. That a frame is
accepted only if it is whole comes from the checks (`Accepted`), and holds
whatever the line did to it.

The refinement cannot rely on `quiet`: a drain stops after
`DRAIN_MAX` bytes, and what it leaves of an older reply stays in front of the
call's own. `LineInv` says what that rest looks like. Between calls nothing is
owed, and the rest has no delimiter but the one it ends in (`Cold`); `Sync`
looks for its first delimiter in that rest and, `SYNC_MAX` being long enough,
gets past it (`Searching`); after it, there is only the call's own reply to read
(`Found`). `CallInv`: at most one request is with the device, the current
call's, it is carried out at most once, and the first token stored is the header
of its reply.

**AdamNet argument.** `PostInv` says what is known of the FujiNet at each step:
from the first READ or STATUS on, it works on this call's command or holds this
call's status and reply (`Mine`), because only a delivered WRITE leads there; a
copy that waits has that only if nothing went wrong, which is the hole the
finding falls through. For the refinement `OnceInv` adds that without losses a
command is delivered once: a WRITE is repeated only while the FujiNet is busy
with an earlier command.

**NetworkIO argument.** `RunningInv` says what holds in the middle of an
operation: no call has failed yet (a failure ends the operation), the bytes
moved are exactly the first `total`, `len` is what is left, and `taken` is
`start + total`. An operation that has returned ends on the last STATUS it made
or has all it asked for; `closed` is for good, so what a STATUS saw on END_OF_FILE
is still all there is. `LensFit` keeps `Int16` the identity on every count. One lemma
(`BytesExtend`) says that landing `n` bytes at offset `a` turns the first `a`
bytes into the first `a + n`; the rest is arithmetic per action.

**DriveWire argument.** The two properties speak of a call that has returned; the
invariant says what keeps its queues in step. `ScriptInv` names the scripts a
call can be in and says which devices use which. `LineInv`: while the call is
quiet, the requests on the line are the one of the exchange the host is at,
after the command if that was the last to be sent, and the bytes are its answers;
in particular the line is empty whenever a frame is sent. This is where
`ReadyResend` comes in: `bus_ready()` sends a second DEVICE_READY only onto an
empty line, or the call is no longer quiet. `StatusInv`: once the command has left
the line, the FujiNet's status is this call's, and a response is only asked for
after an error code that was good. `TookInv`: what was taken so far was this
call's, and of the kind the host was waiting for; `ReturnInv` carries all of that
to the return. A byte that is lost only makes a line shorter, which `ReadyLine`,
`ErrorLine` and `ReadLine` allow.

**ComLynx argument.** The bytes in the receive buffer and those still on the wire
are one sequence, `Stream`: a byte that arrives does not change it, one that is
lost or garbled changes it in one place, one that is read is taken from its front.
`LineInv` says what the stream is at each step of a call that began on a quiet
line and met at most one fault, none of a length (`Good`): empty up to the last
byte of the packet; then nothing, or a NAK, or an ACK and what answers the
command; and so on byte by byte, `Framed` and `Final` saying what is still to come
before the text of a reply and before the word that ends a call without one. `Body`
says the rest of a reply together with what has been stored of it differs from
what was sent in one byte, or misses one. `Checksum` differs for texts that differ
in one byte (`ChecksumDiffers`, bit by bit), so a reply whose checksum matches is the
reply (`BodyAccepted`); one that misses a byte never gets to its checksum. A NAK is
not turned into an ACK, since they differ in an odd number of bits (`NoAckOfNak`).
A call that goes on has therefore read exactly what was sent to it, and the
stream is empty when it returns: `OnReturn` is both properties.

**Session argument.** `Shape` keeps the records' fields and says that `todo` is empty
between operations. Each service then has one invariant, with a phase per position
in a script: what is left of the script, and what the FujiNet holds by then.
`KeyInv`: the key that is open is that of the operation, or nothing has been read.
`QrInv`, `HashInv`: the input at the FujiNet is what the program knows it added
(`told`), or the program knows that it cannot know; from the COMPUTE on the digest
is the operation's own, of that input, whether the COMPUTE keeps it or not, and a length kept in `mem` is that of the digest.
`ClockInv`: the zone is the one set last; after SETTZ_ALT the alternate one is the
operation's. `ChannelInv`: the channel is in the mode for bodies between operations
unless a call failed (`Ready`); the parser the program chose has parsed the document
(`ParserKnown`); in a query, what has been stored and what the FujiNet still holds are
together the answer. `FileInv`: while a copy is awaited, the destination is what it
was before, or the source's contents, or not there (`Origin`); once a STATUS has been
answered nothing is copied any more, so the two sizes are compared at rest.

**HostBus argument.** `SPInv`: the slot in use is a slot once a card was found,
and each id kept is 0 or that of such a device there. A search replaces the slot
only when no id is kept, and the ids it stores come from the same card, found by
`FindDevice` or the fallback; which of its requests failed decides only whether
an id is found. `UnapiInv`: an INIT was called only if the scan was tried, and
then it is not tried again. `IecInv`: the channel is open only at the steps
between `Open` and `Close`, and each of those leads to `Close`.

**Fields argument.** A 16-bit value is 256 times its high byte plus its low byte,
a 32-bit value 65536 times its high word plus its low word (`PairsJoined`), so
joining undoes splitting in either order; turning round by whole values exchanges
the two orders, and padding touches no byte of an argument.

**What arrives, and what comes back.** `ArgumentsArrive` and `OwnReply` of
`HostBus` speak of every function of `Api` on seven machines, so the proof goes
through a form that all its requests have (`WellFormed`: the layout fits the
arguments, integers in data and replies have room, a special operation has its
own command; one lemma per group of functions, as `FujiForm`). For such a
request, `Carried` says that `Understood(Packet(BusCall))` is what the FujiNet is
told (`Told`): what is meant, on the C64 without the unit (`ToldSame`); with
`SeekCarried` for the position an Atari passes as data, and `BlockCarried` and
`KeyCarried` for the SmartPort block and the key of the C64. `Carried` and
`KeyCarried` rest on `ArgumentsRoundTrip`; the other two split a number in
another way. On the MSX a payload or a reply is seen through the page
the FujiNet has switched in (`SeenThrough`); that is the caller's bytes unless
`OutOfReach`, the exception both properties make. The inductive invariant is
`ArrivalInv`:

- `MadeInv`: a request is well formed, and the step belongs to its machine.
- `RouteInv`: the Apple II goes past the search only with an id, and does not
  change the unit between CONTROL and STATUS.
- `RanInv`: at each step, which of the commands that are meant were carried out:
  none before the payload, all before the reply is read, and between the two
  commands of a C64 key the first.
- `ReplyInv`: the caller's buffer holds this call's answer or nothing.
- `WholeInv`: where a short reply is noticed, it holds all of it on success.

It is inductive only together with `RInv`, the invariant of the routes, because
a CONTROL delivered to the wrong device would not be carried out.

**Only model-checked.** Liveness (`CallReturns`, `OperationReturns`), which
needs fairness and ENABLED. Every safety property that a passing run checks is
also proved.

## Abstractions and limits

- *The far side.* The cart, the FujiNet, the line and the peer are modelled from
  what the client code relies on; no action of theirs is taken from code in this
  repository.
- *The NES* differs from the ColecoVision in how a register is written (a store
  instead of a read of a magic address), and the steps are the same, so one
  module stands for both. A RESET clears the console's RAM on both. The
  NES size check adds in 16 bits; the model's does not wrap.
- *AdamNet.* A command makes the FujiNet forget the reply and the failure bit it
  held, and it keeps them until the next command, so that a READ can be repeated.
  The stat before a copy is one step. A payload is too big or is not; the 16-bit
  sum in that test does not wrap.
- *FujiBus's checksum* is taken to catch any mixture of two frames
  and any garbled piece. In the code it is an 8-bit end-around-carry sum that
  misses some (0x00 for 0xFF). Likewise a garbled header is taken to be refused.
  A request arrives at the device whole or not at all; a damaged one would be
  refused by the device's own checks.
- *Serial framing* below the token (escapes) is left out. The model follows the C
  port of the H89; the assembly ports have their own timeouts.
- *DriveWire.* A byte that is no error code may read as any. A timeout while the
  answer is still to come is a fault the model counts.
- *ComLynx.* The driver is opened with odd parity and is taken to drop a byte
  garbled in an odd number of bits. Arguments are part of the packet and not
  looked at. With echo, the library's own bytes come back at once, before anything
  else: a late echo is not modelled. A garbled length is modelled; the properties except it, because
  the checksum does not cover the length.
- *HostBus.* A SmartPort device returns at most what was asked for, so the copy of
  `sp_count` bytes (`fujinet-bus-apple2.c:134`, `:182`), which nothing clamps, is
  not exercised. The slot switching of the MSX BIOS, the dispatch into a SmartPort
  card and the KERNAL's routines are one step each. A call that fails may have
  been carried out on the one-transaction buses and not on the others, where
  the steps say which.
- *Session.* Data, keys, zones and codes are model values; what is wrong with a
  file's contents is only whose they are.
- *NetworkIO* takes a call that fails to be over: carried out before it failed, or
  never. On the buses a command that was given up may be carried out later, but
  the FujiNet takes commands in order, so before the next one; bytes such a READ
  consumes are lost to the program either way.
- *Devices other than the network* answer with data the bus models do not look
  at.

## Not modelled

- *The cartridge boot interface* (`fuji_coleco.c`, `fuji_nes.c`): reads of a
  loader's counters and the hand-over to it; no state, and nothing in the
  library calls it.
- *SLIP and UART code in assembly* (`bus/model2`, `bus/6502`,
  `bus/msdos/portio.s`): translations of the C port that `FujiBus` models,
  register by register. What differs is the timing of single instructions and
  the timer registers, for which the repository has no reference.
- *Waits and jiffies*: busy waits on the machine's clock. The modules have a
  timeout as a step of its own where the code waits.
- *The Apple IIGS port*: not part of the library's builds.
- *Makefiles and tests*: tools and examples; the tests were read for what they
  expect.

## Findings

`adam_copy` is a run that TLC finds violated; `PROJECT.json` quotes the text it
disagrees with. *An Adam file copy can report success without a copy*:
`fuji_copy_file_adam` polls STATUS after a failed call and takes a clear failure
bit for success; if the command was never delivered, the bit is that of the stat
before it.

The following was met while modelling. The modules do what the code does, and
the properties are stated so that they hold all the same.

- *A RESET in the middle of a command.* `FN_ACKSEQ` has not moved yet, so the
  next call picks the same sequence (`fujinet-bus-coleco.c:19`) and takes the old
  command's answer, although the comment at line 15 gives RESETs as the reason
  for doing so. `OwnReply` is about calls that find the cart idle.
- *The size of a reply is not compared* with what was asked on FujiBus
  (`fuji_bus_call.c:68`), the C64 (`fujinet-bus-c64.c:93` keeps it in a variable
  nobody reads), the Apple II (`fujinet-bus-apple2.c:96`) and the MSX: a shorter one
  is accepted and the rest of the buffer is what it was, though
  `fujinet-fuji.h:324` and `:344` promise for the slot functions that the size is
  checked, nothing copied and false returned. `OwnReply` of `HostBus` asks for the
  whole reply on the other machines only (`ShortUnnoticed`).
- *The C64 does not tell network units apart.* Every command for one goes through
  `CBM_CMD_CHANNEL` (`fujinet-bus-c64.c:49`; the channel per unit is commented out
  in the next line), and the packet does not name the unit, though the tests expect
  of two open units that what is written to N2: does not come back on N1:
  (`testing/tests/network.c:351`). `ArgumentsArrive` asks for the unit on the other
  machines only (`UnitLost`).
- *`fuji_get_wifi_enabled` can return an old TRUE.* It drops the result of its call
  and returns a static variable (`fuji_get_wifi_enabled.c:8`) that a failed call
  leaves as it was, though `fujinet-fuji.h:365` says that device errors return
  false. `KeepWifi` models it; no property is about it.
- *A refused FujiBus reply has already been stored* (`fuji_bus_call.c:66`), though
  `fujinet-fuji.h:352` and `:359` say that no data is copied on error.
- *A delimiter that noise makes up inside the rest of an older reply* makes a
  FujiBus call take that rest for its frame and refuse it
  (`bus/h89/port_slip.c:63`). Its own reply stays on the line, and if the next
  drain does not reach its end, the next calls can be one reply behind: with
  `FalseEnds = TRUE` three calls refute `ImplementsBusCall`, so its run and its
  theorem have `FALSE`. `OwnReply` and `WholeReply` hold with either.
- *`network_read` of more than 32767 bytes* can return a negative number after it
  has read bytes (`network_read.c:5`), though `fujinet-network.h:137` says that a
  negative error means nothing was read. The theorems have `LensFit`.
- *The PMD 85's `network_bus_read`* asks for the response without asking for the
  error (`pmd85/network_bus.c:23`; the CoCo's asks, `coco/network_bus.c:22`): a
  refused READ returns zeros as data. `Confirmed` excepts it.
- *The Apple II's CONTROL error* is overwritten by that of the STATUS that follows
  (`fujinet-bus-apple2.c:87`): a call that asks for a reply succeeds with the
  reply to an earlier command. `ControlRefused` excepts it.
- *The C64's `network_bus_read` and `network_bus_write`* add
  `CBM_DATA_CHANNEL_0` to the unit (`fujinet-bus-c64.c:114`, `:122`): the last
  unit's READ and WRITE go to the Fuji device. A failed OPEN returns without
  closing the channel.
- *A buffer that begins before page 1 and reaches into it* is not bounced on the
  MSX (`fujinet-unapi-call.c:143`); reads of more than 1024 bytes into a switched
  page fail. `WellPlaced` excepts the first.
- *The Atari seeks* with 24 of the 32 bits of a position.
- *The Apple II's `clock_get_time`* asks for the alternate zone
  (`fujinet-clock.h:53`), which its description (`:78`) calls the system's.
- *ComLynx*: the checksum does not cover the length; nothing empties the receive
  buffer before a call, so an answer later than the timeout is taken for that of
  the next call, and with echo every call after it; a reply longer than the
  buffer is left on the line.
- *`fuji_read_appkey_c64`* takes a key that could not be read for one of length
  0 and succeeds (`fuji_read_appkey_c64.c:44`).
- *`network_json_query_adam`* returns 0 for a READ that failed
  (`network_json_query_adam.c:27`), as for an answer without data, though
  `fujinet-network.h:170` promises a negative value. The model counts every
  such return as a failure.
- *`network_json_query`* loops as long as a READ fails and STATUS shows bytes.
- *`fuji_hash_data` and `fuji_hash_calculate`* do not look at the result of
  HASH_LENGTH and use an uninitialised length when it failed.
- *A copy that timed out* counts as done if an older file of the same size was
  there.
- *`network_http_post`* returns after a failed write with the channel still in
  POST_SET_DATA mode (`network_http_post.c:18`). `PostedOnce` is about operations
  that did not fail.
- *`network_get_dstats`* is declared (`fujinet-network.h:465`) and defined
  nowhere.

## Plan

What a continuation would take:

- `NetworkIO` composed with a bus module, so that a call that fails there is a
  timeout here.
