------------------------------ MODULE ComLynx ------------------------------
(***************************************************************************)
(* fuji_bus_call() over ComLynx (Atari Lynx): one wire that both sides     *)
(* talk and listen on.  The Lynx sends the device, a length, the packet    *)
(* and its checksum, taking a byte out of its receive buffer for each byte *)
(* it sends, "to get rid of reflected data"; the FujiNet acknowledges the  *)
(* packet, and when it has carried the command out sends the reply or the  *)
(* word that there is none.  Nothing empties the receive buffer before a   *)
(* call.  The serial driver and the FujiNet are not in this repository.    *)
(***************************************************************************)
EXTENDS Naturals, Sequences, FiniteSets

CONSTANTS
  MaxCalls,       \* bound: calls the application makes
  Requests,       \* the calls it may make
  Replies,        \* payloads the FujiNet may reply with: sequences of bytes
  FNIO_TX_LEN_MAX,
  Noise,          \* what a garbled byte may become
  MaxFaults       \* bound: bytes lost or garbled on the wire

FUJICMD_ACK == 6
FUJICMD_NAK == 21
Byte == 0..255

\* [len: of the packet; reply: a reply is asked for, of at most room bytes]
ASSUME ComLynxAssumption ==
  /\ MaxCalls \in Nat /\ MaxFaults \in Nat /\ FNIO_TX_LEN_MAX \in Nat
  /\ Requests \subseteq [len : Nat \ {0}, reply : BOOLEAN, room : Nat]
  /\ Replies \subseteq {s \in Seq(Byte) : Len(s) < 65536}   \* a length is two bytes
  /\ Noise \subseteq Byte

VARIABLES
  \* the Lynx
  pc,        \* the step that is next; "idle" outside a call
  cur, req,  \* number of the current (or last) call, and its request
  opened,    \* _comlynx_init
  sent,      \* bytes of the packet and its checksum sent so far
  len,       \* *len, and of the reply bytes before it the first
  buf,       \* what fnio_recv_buf has stored in the caller's buffer
  rx,        \* the receive buffer
  outcome,   \* what the last call returned
  fn_error,  \* _fn_error
  \* the wire and the FujiNet
  reflects,  \* the Lynx hears what it sends
  inbox,     \* packets the FujiNet has not looked at
  job,       \* the packet it works on
  out,       \* bytes on their way to the Lynx
  answers,   \* history: what it answered to each call it carried out
  faults,    \* history: bytes lost or garbled, and those of lengths
  quiet      \* history: the call began with nothing under way, and has met
             \* at most one fault

lynx == <<pc, cur, req, opened, sent, len, buf, rx, outcome, fn_error>>
far  == <<reflects, inbox, job, out, answers>>
vars == <<lynx, far, faults, quiet>>

None     == [call |-> 0]
NoFaults == [all |-> 0, call |-> 0, len |-> FALSE]

Init ==
  /\ pc = "idle" /\ cur = 0 /\ opened = FALSE /\ sent = 0 /\ len = 0
  /\ req = [len |-> 1, reply |-> FALSE, room |-> 0]
  /\ buf = <<>> /\ rx = <<>>
  /\ outcome = [call |-> 0, ok |-> FALSE] /\ fn_error = "none"
  /\ reflects \in BOOLEAN
  /\ inbox = <<>> /\ job = None /\ out = <<>>
  /\ answers = <<>> /\ faults = NoFaults /\ quiet = TRUE

-----------------------------------------------------------------------------
(* The bytes. *)

\* a byte on the wire: its value, and the part of a frame it belongs to
Put(v, part) == [v |-> v, part |-> part]
Echo == Put(0, "echo")

\* the bit of weight w
Bit(v, w) == (v \div w) % 2

\* 1 if an odd number of the bytes of s have it
Parity(s, w) == Cardinality({i \in DOMAIN s : Bit(s[i], w) = 1}) % 2

(* _checksum, the exclusive or of all bytes. *)
Checksum(s) ==
  Parity(s, 1) + 2 * Parity(s, 2) + 4 * Parity(s, 4) + 8 * Parity(s, 8)
  + 16 * Parity(s, 16) + 32 * Parity(s, 32) + 64 * Parity(s, 64) + 128 * Parity(s, 128)

Reply(s) ==
  <<Put(Len(s) \div 256, "length"), Put(Len(s) % 256, "length")>>
  \o [i \in DOMAIN s |-> Put(s[i], "data")] \o <<Put(Checksum(s), "data")>>

Word(v) == <<Put(v, "word")>>

\* n times ser_put and n times ser_get
Reflected(s, n) ==
  LET heard == s \o (IF reflects THEN [i \in 1..n |-> Echo] ELSE <<>>)
  IN IF Len(heard) <= n THEN <<>> ELSE SubSeq(heard, n + 1, Len(heard))

-----------------------------------------------------------------------------
(* The Lynx. *)

At(l) == pc = l

Return(ok) == pc' = "idle" /\ outcome' = [call |-> cur, ok |-> ok]
Goto(l)    == pc' = l /\ UNCHANGED outcome

Call ==
  /\ At("idle") /\ cur < MaxCalls
  /\ cur' = cur + 1
  /\ req' \in Requests
  /\ Goto("start")
  /\ quiet' = (rx = <<>> /\ out = <<>> /\ inbox = <<>> /\ job = None)
  /\ faults' = [faults EXCEPT !.call = 0, !.len = FALSE]
  /\ buf' = <<>> /\ sent' = 0
  /\ UNCHANGED <<opened, len, rx, fn_error, far>>

(* fnio_init may fail, the packet may not fit. *)
Start ==
  /\ At("start")
  /\ \/ opened' = opened /\ opened
     \/ opened' = TRUE /\ ~opened
     \/ opened' = FALSE /\ ~opened
  /\ IF opened' /\ req.len <= FNIO_TX_LEN_MAX THEN Goto("head") ELSE Return(FALSE)
  /\ UNCHANGED <<cur, req, sent, len, buf, rx, fn_error, far, faults, quiet>>

(* fnio_send_buf: the device and the length, *)
SendHead ==
  /\ At("head")
  /\ rx' = Reflected(rx, 3)
  /\ Goto("send") /\ fn_error' = "none"
  /\ UNCHANGED <<cur, req, opened, sent, len, buf, far, faults, quiet>>

Fault(part) ==
  /\ faults.all < MaxFaults
  /\ faults' = [all |-> faults.all + 1, call |-> faults.call + 1,
                len |-> faults.len \/ part = "length"]

(* the packet, byte by byte, and its checksum.  The FujiNet has it then, in
   one piece or not. *)
SendByte ==
  /\ At("send")
  /\ rx' = Reflected(rx, 1)
  /\ sent' = sent + 1
  /\ IF sent < req.len
     THEN Goto("send") /\ UNCHANGED <<inbox, faults>>
     ELSE /\ Goto("answer")
          /\ \/ inbox' = Append(inbox, [call |-> cur, whole |-> TRUE, req |-> req]) /\ UNCHANGED faults
             \/ inbox' = Append(inbox, [call |-> cur, whole |-> FALSE, req |-> req]) /\ Fault("data")
  /\ UNCHANGED <<cur, req, opened, len, buf, fn_error, reflects, job, out, answers, quiet>>

(* _serial_get_loop has a byte. *)
Get(l) == At(l) /\ rx # <<>>
Took   == Head(rx).v
Rest   == rx' = Tail(rx)

IsAck(v) == v = FUJICMD_ACK

Answer ==
  /\ Get("answer") /\ Rest
  /\ IF IsAck(Took) THEN Goto(IF req.reply THEN "high" ELSE "done") /\ fn_error' = "none"
                    ELSE Return(FALSE) /\ fn_error' = "send checksum"
  /\ UNCHANGED <<cur, req, opened, sent, len, buf, far, faults, quiet>>

(* fnio_recv_ack: after anything but an ACK, fnio_flush_recv. *)
RecvAck ==
  /\ Get("done")
  /\ Return(IsAck(Took))
  /\ IF IsAck(Took) THEN Rest /\ UNCHANGED fn_error
                    ELSE rx' = <<>> /\ fn_error' = "command failed"
  /\ UNCHANGED <<cur, req, opened, sent, len, buf, far, faults, quiet>>

(* fnio_recv_buf: the length, *)
High ==
  /\ Get("high") /\ Rest
  /\ len' = 256 * Took
  /\ Goto("low")
  /\ UNCHANGED <<cur, req, opened, sent, buf, fn_error, far, faults, quiet>>

(* Mutant: the reply is held against the library's limit only. *)
TooLongForAll(n) == n > FNIO_TX_LEN_MAX

TooLong(n) == n > req.room

Clamp(n) == IF n > FNIO_TX_LEN_MAX THEN FNIO_TX_LEN_MAX ELSE n

Low ==
  /\ Get("low") /\ Rest
  /\ LET n == len + Took
     IN IF TooLong(n)
        THEN len' = n /\ Return(FALSE)
        ELSE len' = Clamp(n) /\ Goto(IF Clamp(n) = 0 THEN "check" ELSE "data")
  /\ UNCHANGED <<cur, req, opened, sent, buf, fn_error, far, faults, quiet>>

(* the payload, *)
Data ==
  /\ Get("data") /\ Rest
  /\ buf' = Append(buf, Took)
  /\ Goto(IF Len(buf) + 1 < len THEN "data" ELSE "check")
  /\ UNCHANGED <<cur, req, opened, sent, len, fn_error, far, faults, quiet>>

(* Mutant: the last byte sent is left in the receive buffer. *)
AcknowledgedStays(s) == IF reflects THEN Append(s, Echo) ELSE s

Acknowledged(s) == Reflected(s, 1)

(* Mutant: the checksum is not compared. *)
MatchesAny(v) == TRUE

Matches(v) == v = Checksum(buf)

(* and the checksum, which is acknowledged.  The FujiNet may send a reply
   again that was not. *)
Check ==
  /\ Get("check")
  /\ rx' = Acknowledged(Tail(rx))
  /\ LET ok == Matches(Took)
     IN /\ len' = IF ok THEN len ELSE 0
        /\ fn_error' = IF ok THEN fn_error ELSE "receive checksum"
        /\ Return(ok /\ len # 0)
        /\ IF ok \/ cur \notin DOMAIN answers \/ answers[cur].word # "reply"
           THEN UNCHANGED out
           ELSE out' \in {out, out \o Reply(answers[cur].reply)}
  /\ UNCHANGED <<cur, req, opened, sent, buf, reflects, inbox, job, answers, faults, quiet>>

(* LYNX_TIMEOUT seconds without a byte. *)
Waiting == {"answer", "done", "high", "low", "data", "check"}

Timeout ==
  /\ pc \in Waiting /\ rx = <<>>
  /\ Return(FALSE) /\ fn_error' = "timeout"
  /\ UNCHANGED <<cur, req, opened, sent, len, buf, rx, far, faults, quiet>>
-----------------------------------------------------------------------------
(* The FujiNet and the wire. *)

TakePacket ==
  /\ inbox # <<>> /\ job = None
  /\ LET p == Head(inbox)
     IN IF p.whole
        THEN out' = out \o Word(FUJICMD_ACK) /\ job' = p
        ELSE out' \in {out, out \o Word(FUJICMD_NAK)} /\ job' = None
  /\ inbox' = Tail(inbox)
  /\ UNCHANGED <<lynx, reflects, answers, faults, quiet>>

Told(w, s) ==
  answers' = [c \in DOMAIN answers \cup {job.call} |->
                IF c = job.call THEN [word |-> w, reply |-> s] ELSE answers[c]]

(* It may take its time, past the timeout of the call and into the next. *)
CarryOut ==
  /\ job # None
  /\ \/ job.req.reply /\ \E s \in Replies : out' = out \o Reply(s) /\ Told("reply", s)
     \/ ~job.req.reply /\ out' = out \o Word(FUJICMD_ACK) /\ Told("ack", <<>>)
     \/ out' = out \o Word(FUJICMD_NAK) /\ Told("nak", <<>>)
  /\ job' = None
  /\ UNCHANGED <<lynx, reflects, inbox, faults, quiet>>

Moved == out' = Tail(out) /\ UNCHANGED <<pc, cur, req, opened, sent, len, buf, outcome, fn_error,
                                         reflects, inbox, job, answers, quiet>>

Arrive ==
  /\ out # <<>>
  /\ rx' = Append(rx, Head(out))
  /\ UNCHANGED faults
  /\ Moved

(* A byte with a parity error is dropped by the driver (SER_PAR_ODD). *)
Lose ==
  /\ out # <<>>
  /\ UNCHANGED rx
  /\ Fault(Head(out).part)
  /\ Moved

Odd(v) ==
  (Bit(v, 1) + Bit(v, 2) + Bit(v, 4) + Bit(v, 8)
   + Bit(v, 16) + Bit(v, 32) + Bit(v, 64) + Bit(v, 128)) % 2 = 1

(* A byte garbled in an even number of bits gets through. *)
Garble ==
  /\ out # <<>>
  /\ \E v \in Noise :
       /\ v # Head(out).v /\ Odd(v) = Odd(Head(out).v)
       /\ rx' = Append(rx, [Head(out) EXCEPT !.v = v])
  /\ Fault(Head(out).part)
  /\ Moved

Next ==
  \/ Call \/ Start \/ SendHead \/ SendByte
  \/ Answer \/ RecvAck \/ High \/ Low \/ Data \/ Check \/ Timeout
  \/ TakePacket \/ CarryOut \/ Arrive \/ Lose \/ Garble

Spec == Init /\ [][Next]_vars

-----------------------------------------------------------------------------
(* Properties. *)

(* Types: among them that no byte is stored behind the caller's buffer.    *)
TypeOK ==
  /\ pc \in Waiting \cup {"idle", "start", "head", "send"}
  /\ cur \in 0..MaxCalls /\ sent \in 0..(req.len + 1)
  /\ \A i \in DOMAIN rx : rx[i].v \in Byte
  /\ buf \in Seq(Byte) /\ Len(buf) <= req.room
  /\ outcome \in [call : 0..cur, ok : BOOLEAN]
  /\ fn_error \in {"none", "timeout", "send checksum", "receive checksum", "command failed"}
  /\ faults.all \in 0..MaxFaults

(* A call that begins with nothing under way, and meets one lost or garbled
   byte at most, returns TRUE only for a command the FujiNet carried out, with
   the whole of its reply: checksum, lengths and the order of ACKs leave no way
   to take one byte for another.  Bytes of a length are excepted, for the
   checksum does not cover them. *)
OwnAnswer ==
  At("idle") /\ outcome.ok /\ quiet /\ faults.call <= 1 /\ ~faults.len =>
    /\ cur \in DOMAIN answers
    /\ IF req.reply
       THEN answers[cur] = [word |-> "reply", reply |-> buf] /\ len = Len(buf)
       ELSE answers[cur].word = "ack"

(* Nothing empties the receive buffer before a call, so that each must leave
   it empty for the next: a call does, if it returns TRUE or is told that its
   command failed, unless a byte of a length was lost or garbled. *)
InStep ==
  At("idle") /\ quiet /\ faults.call <= 1 /\ ~faults.len
  /\ (outcome.ok \/ fn_error = "command failed") =>
    out \o rx = <<>> /\ inbox = <<>> /\ job = None
=============================================================================
