----------------------------- MODULE DriveWire -----------------------------
(***************************************************************************)
(* fuji_bus_call(), network_bus_read() and network_bus_write() over        *)
(* DriveWire: the CoCo on its bit-banger port ("coco") or a Becker port    *)
(* ("becker"), and the PMD 85 ("pmd85").                                   *)
(*                                                                         *)
(* A call is a series of exchanges, the command first, then SEND_ERROR and *)
(* SEND_RESPONSE as the call needs them, and before each of them           *)
(* bus_ready() asks DEVICE_READY and waits for a byte.  No byte on the     *)
(* line says what it answers: the host takes whatever comes first for what *)
(* it is waiting for.  The CoCo's dwread() gives up after a while and      *)
(* bus_ready() asks again after ReadyResend of those timeouts; the PMD     *)
(* 85's waits for ever.  The bit-banger has no buffer, a byte that comes   *)
(* while nobody listens is lost; a Becker port keeps it.                   *)
(***************************************************************************)
EXTENDS Naturals, Sequences

CONSTANTS
  MaxCalls,      \* bound: calls the application makes
  MaxEarly,      \* bound: reads that time out although their answer is to come
  MaxLost,       \* bound: bytes the bit-banger port loses
  ReadyResend,   \* READY_RESEND_TIMEOUTS
  Platforms,     \* subset of {"coco", "becker", "pmd85"}
  Replies        \* reply lengths: what a caller asks for, what the device has

ASSUME DriveWireAssumption ==
  /\ MaxCalls \in Nat /\ MaxEarly \in Nat /\ MaxLost \in Nat
  /\ ReadyResend \in Nat \ {0}
  /\ Platforms \subseteq {"coco", "becker", "pmd85"}
  /\ Replies \subseteq Nat

VARIABLES
  platform,
  pc,        \* "idle", "ask", "ready", "send", "read"
  cur, req,  \* number of the current (or last) call, and what it asks
  todo,      \* exchanges still to make, the current one first
  waits,     \* timeouts since DEVICE_READY was last sent
  got,       \* what the current dwread() has taken off the line
  toDev,     \* requests on their way to the FujiNet
  toHost,    \* bytes on their way to the host
  status,    \* the FujiNet's last command: whose, how it ended, reply length
  early, lost,   \* how often the bounded faults have happened
  quiet,     \* the line was idle when the call began, and no bus_ready() has
             \* waited ReadyResend timeouts for an answer still to come
  outcome    \* what the last call returned, and whose bytes it took for what

hostVars  == <<platform, pc, cur, req, todo, waits, got, quiet, outcome>>
vars == <<platform, pc, cur, req, todo, waits, got, toDev, toHost, status,
          early, lost, quiet, outcome>>

Calls == [device : {"fuji", "net", "clock", "other"}, op : {"call"}, reply : Replies]
ReadCalls  == [device : {"net"}, op : {"read"},  reply : Replies \ {0}]
WriteCalls == [device : {"net"}, op : {"write"}, reply : {0}]
Requests == Calls \cup ReadCalls \cup WriteCalls

Kinds  == {"ready", "error", "data", "padding"}
Tokens == [kind : Kinds, call : 0..MaxCalls, val : {"ok", "eof", "fail"}]

NoOutcome == [call |-> 0, ok |-> FALSE, quiet |-> FALSE, took |-> <<>>]

Init ==
  /\ platform \in Platforms
  /\ pc = "idle" /\ cur = 0 /\ waits = 0 /\ early = 0 /\ lost = 0
  /\ req = [device |-> "fuji", op |-> "call", reply |-> 0]
  /\ todo = <<>> /\ got = <<>> /\ toDev = <<>> /\ toHost = <<>>
  /\ status = [call |-> 0, val |-> "ok", len |-> 0]
  /\ quiet = TRUE
  /\ outcome = NoOutcome

(***************************************************************************)
(* What each call does, exchange by exchange.                              *)
(***************************************************************************)

(* Clock commands have no error to fetch: the reply follows at once. *)
ClockSteps(r) == IF r.reply > 0 THEN <<"direct">> ELSE <<>>

(* Every other command is asked for its error, then for its response. *)
CallSteps(r) ==
  IF r.device = "clock" THEN ClockSteps(r)
  ELSE IF r.reply > 0 THEN <<"error", "response">> ELSE <<"error">>

(* The CoCo asks a READ for its error before its response, the PMD 85 does
   not. *)
ReadSteps == IF platform = "pmd85" THEN <<"response">> ELSE <<"error", "response">>

WriteSteps == <<"error">>

Steps(r) ==
  CASE r.op = "read"  -> ReadSteps
    [] r.op = "write" -> WriteSteps
    [] OTHER          -> CallSteps(r)

(* How many bytes the exchange waits for. *)
Want(step) == CASE step = "error" -> 1 [] step = "command" -> 0 [] OTHER -> req.reply

(***************************************************************************)
(* The host.                                                               *)
(***************************************************************************)

Return(ok) ==
  /\ pc' = "idle"
  /\ todo' = <<>>
  /\ got' = <<>>
  /\ outcome' = [outcome EXCEPT !.call = cur, !.ok = ok, !.quiet = quiet]

(* A call begins.  A device DriveWire does not reach is refused at once, by
   the CoCo only after it has waited for the FujiNet to be ready. *)
Call(r) ==
  /\ pc = "idle" /\ cur < MaxCalls
  /\ cur' = cur + 1
  /\ req' = r
  /\ quiet' = (toDev = <<>> /\ toHost = <<>>)
  /\ got' = <<>>
  /\ waits' = 0
  /\ IF r.device = "other" /\ platform = "pmd85"
     THEN /\ pc' = "idle" /\ todo' = <<>>
          /\ outcome' = [NoOutcome EXCEPT !.call = cur + 1]
     ELSE /\ pc' = "ask"
          /\ todo' = IF r.device = "other" THEN <<"refuse">> ELSE <<"command">> \o Steps(r)
          /\ outcome' = NoOutcome
  /\ UNCHANGED <<platform, toDev, toHost, status, early, lost>>

Ready == [op |-> "ready", call |-> cur, device |-> "fuji", len |-> 0]

(* bus_ready(): DEVICE_READY is sent ... *)
AskReady ==
  /\ pc = "ask"
  /\ toDev' = Append(toDev, Ready)
  /\ waits' = 0
  /\ pc' = "ready"
  /\ UNCHANGED <<platform, cur, req, todo, got, toHost, status, early, lost, quiet, outcome>>

(* ... and the first byte to come ends the wait, whatever it is. *)
ReadyByte ==
  /\ pc = "ready" /\ toHost # <<>>
  /\ toHost' = Tail(toHost)
  /\ IF Head(todo) = "refuse"
     THEN Return(FALSE)
     ELSE /\ pc' = "send"
          /\ outcome' = [outcome EXCEPT !.took = Append(@, <<"ready", Head(toHost)>>)]
          /\ UNCHANGED <<todo, got>>
  /\ UNCHANGED <<platform, cur, req, waits, toDev, status, early, lost, quiet>>

(* The CoCo's dwread() times out: while the FujiNet has yet to answer (a
   fault the model counts), or because the byte was lost. *)
TimesOut ==
  /\ platform # "pmd85" /\ toHost = <<>>
  /\ IF toDev = <<>> THEN UNCHANGED early ELSE early < MaxEarly /\ early' = early + 1

(* Mutants: as bus_ready() did before it counted, and never. *)
ResendDueAlways(n) == TRUE
ResendDueNever(n) == FALSE

ResendDue(n) == n = ReadyResend

(* Only every ReadyResend-th timeout sends DEVICE_READY again. *)
ReadyTimeout ==
  /\ pc = "ready"
  /\ TimesOut
  /\ IF ResendDue(waits + 1)
     THEN /\ toDev' = Append(toDev, Ready)
          /\ waits' = 0
     ELSE /\ waits' = (waits + 1) % 256
          /\ UNCHANGED toDev
  /\ quiet' = (quiet /\ (toDev = <<>> \/ waits + 1 < ReadyResend))
  /\ UNCHANGED <<platform, pc, cur, req, todo, got, toHost, status, lost, outcome>>

(* The command, with its parameters and data. *)
Command == [op |-> req.op, call |-> cur, device |-> req.device, len |-> req.reply]

SendError == [op |-> "error", call |-> cur, device |-> req.device, len |-> 1]

SendResponse == [op |-> "response", call |-> cur, device |-> req.device, len |-> req.reply]

SendCommand ==
  /\ pc = "send" /\ Head(todo) = "command"
  /\ toDev' = Append(toDev, Command)
  /\ IF Len(todo) = 1 THEN Return(TRUE)
     ELSE /\ todo' = Tail(todo)
          /\ pc' = IF Head(Tail(todo)) = "direct" THEN "read" ELSE "ask"
          /\ UNCHANGED <<got, outcome>>
  /\ UNCHANGED <<platform, cur, req, waits, toHost, status, early, lost, quiet>>

AskFor(step, frame) ==
  /\ pc = "send" /\ Head(todo) = step
  /\ toDev' = Append(toDev, frame)
  /\ pc' = "read"
  /\ UNCHANGED <<platform, cur, req, todo, waits, got, toHost, status, early, lost, quiet, outcome>>

FujiGetError       == req.device = "fuji" /\ AskFor("error", SendError)
NetworkGetError    == req.device = "net"  /\ AskFor("error", SendError)
FujiGetResponse    == req.device = "fuji" /\ AskFor("response", SendResponse)
NetworkGetResponse == req.device = "net"  /\ AskFor("response", SendResponse)

ReadByte ==
  /\ pc = "read" /\ toHost # <<>> /\ Len(got) < Want(Head(todo))
  /\ got' = Append(got, Head(toHost))
  /\ toHost' = Tail(toHost)
  /\ UNCHANGED <<platform, pc, cur, req, todo, waits, toDev, status, early, lost, quiet, outcome>>

(* A dwread() that ends short is BUS_ERROR, for an error as for a response. *)
ReadTimeout ==
  /\ pc = "read" /\ Len(got) < Want(Head(todo))
  /\ TimesOut
  /\ Return(FALSE)
  /\ UNCHANGED <<platform, cur, req, waits, toDev, toHost, status, lost, quiet>>

(* How a byte reads as an error code: a byte that is none may have any
   value. *)
ErrorCodes(token) == IF token.kind = "error" THEN {token.val} ELSE {"ok", "eof", "fail"}

FujiErrorOK(code) == code = "ok"

(* Mutant: the error code is not looked at. *)
NetErrorOKAny(code) == TRUE

(* Reaching the end of the file is no error to a network call. *)
NetErrorOK(code) == code \in {"ok", "eof"}

ErrorOK(code) == IF req.device = "net" THEN NetErrorOK(code) ELSE FujiErrorOK(code)

Took(step) == [outcome EXCEPT !.took = @ \o [i \in DOMAIN got |-> <<step, got[i]>>]]

(* The exchange is complete: an error ends the call, and so does the last
   exchange. *)
ReadDone ==
  /\ pc = "read" /\ Len(got) = Want(Head(todo))
  /\ \E code \in IF Head(todo) = "error" THEN ErrorCodes(Head(got)) ELSE {"ok"} :
       LET ok == ErrorOK(code)
       IN IF ok /\ Len(todo) > 1
          THEN /\ pc' = "ask"
               /\ todo' = Tail(todo)
               /\ got' = <<>>
               /\ outcome' = Took(Head(todo))
          ELSE /\ pc' = "idle"
               /\ todo' = <<>>
               /\ got' = <<>>
               /\ outcome' = [Took(Head(todo)) EXCEPT !.call = cur, !.ok = ok, !.quiet = quiet]
  /\ UNCHANGED <<platform, cur, req, waits, toDev, toHost, status, early, lost, quiet>>

Host ==
  \/ AskReady \/ ReadyByte \/ ReadyTimeout
  \/ SendCommand \/ FujiGetError \/ NetworkGetError
  \/ FujiGetResponse \/ NetworkGetResponse
  \/ ReadByte \/ ReadTimeout \/ ReadDone

(***************************************************************************)
(* The FujiNet, outside src/: it takes requests one after the other.       *)
(***************************************************************************)

Token(kind, val) == [kind |-> kind, call |-> status.call, val |-> val]
Bytes(n, token) == [i \in 1..n |-> token]

DeviceReady ==
  /\ toHost' = Append(toHost, [kind |-> "ready", call |-> Head(toDev).call, val |-> "ok"])
  /\ UNCHANGED status

(* A command is carried out, and ends as it may; a clock command is answered
   without being asked. *)
DeviceCommand ==
  /\ \E val \in {"ok", "eof", "fail"}, len \in Replies :
       LET c == Head(toDev)
       IN /\ status' = [call |-> c.call, val |-> val, len |-> len]
          /\ toHost' = IF c.device = "clock"
                       THEN toHost \o Bytes(len, [kind |-> "data", call |-> c.call, val |-> "ok"])
                       ELSE toHost

DeviceError ==
  /\ toHost' = Append(toHost, Token("error", status.val))
  /\ UNCHANGED status

(* A Fuji response is as long as the device has it; a network response is as
   long as it was asked for, and zeros when there is none. *)
DeviceResponse ==
  /\ toHost' = toHost \o
       IF Head(toDev).device = "net"
       THEN Bytes(Head(toDev).len, Token(IF status.val = "fail" THEN "padding" ELSE "data", "ok"))
       ELSE Bytes(status.len, Token("data", "ok"))
  /\ UNCHANGED status

Device ==
  /\ toDev # <<>>
  /\ toDev' = Tail(toDev)
  /\ CASE Head(toDev).op = "ready"    -> DeviceReady
       [] Head(toDev).op = "error"    -> DeviceError
       [] Head(toDev).op = "response" -> DeviceResponse
       [] OTHER                       -> DeviceCommand
  /\ UNCHANGED <<hostVars, early, lost>>

(* The bit-banger has no buffer. *)
Lose ==
  /\ platform = "coco" /\ toHost # <<>> /\ lost < MaxLost
  /\ toHost' = Tail(toHost)
  /\ lost' = lost + 1
  /\ UNCHANGED <<hostVars, toDev, status, early>>

Next == (\E r \in Requests : Call(r)) \/ Host \/ Device \/ Lose

(* The processor goes on running the call, and the FujiNet goes on taking
   requests. *)
Fairness == WF_vars(Host) /\ WF_vars(Device)

Spec == Init /\ [][Next]_vars /\ Fairness

(***************************************************************************)
(* Properties.                                                             *)
(***************************************************************************)

Answers(step) == CASE step = "ready" -> {"ready"}
                   [] step = "error" -> {"error"}
                   [] OTHER          -> {"data", "padding"}

(* A call that returns true after it began on an idle line took every byte
   for what it was, and from its own exchanges: the bytes carry no address,
   so one reply too many or too few, such as a second DEVICE_READY still to
   be answered, would make an older byte this call's error code or data. *)
InStep ==
  outcome.ok /\ outcome.quiet =>
    \A i \in DOMAIN outcome.took :
      /\ outcome.took[i][2].call = outcome.call
      /\ outcome.took[i][2].kind \in Answers(outcome.took[i][1])

(* Such a call, unless it is one nobody asks for an error (clock commands, and
   READs of the PMD 85, which therefore may return the zeros a failed READ is
   padded with), was carried out and the FujiNet said so. *)
Confirmed ==
  /\ outcome.ok /\ outcome.quiet
  /\ req.device # "clock"
  /\ ~(platform = "pmd85" /\ req.op = "read")
  => /\ status.call = outcome.call
     /\ status.val = "ok" \/ (req.device = "net" /\ status.val = "eof")

(* The PMD 85's dwread() has no timeout: a reply shorter than the buffer the
   caller passed is waited for for ever. *)
Hung == platform = "pmd85" /\ pc = "read" /\ toDev = <<>> /\ toHost = <<>>

(* Every call returns, although bus_ready() waits without end and the answer
   it waits for may be lost, unless a PMD 85's reply is shorter than asked. *)
CallReturns == pc # "idle" ~> (pc = "idle" \/ Hung)

=============================================================================
