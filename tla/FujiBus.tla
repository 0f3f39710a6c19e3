------------------------------ MODULE FujiBus ------------------------------
(***************************************************************************)
(* fuji_bus_call() over a serial port: FujiBus packets in SLIP frames, as  *)
(* the H89 (C) sends and receives them.  A packet carries no sequence      *)
(* number, so a reply is told from the reply of an earlier call only by    *)
(* the drain before the request and by the checks on the reply.            *)
(*                                                                         *)
(* The unit of transmission is the token: the frame delimiter SLIP_END, or *)
(* one piece of a reply frame.  The six header bytes are one piece, each   *)
(* data byte (with its escape) another.  The device and the line are not   *)
(* in this repository: the device answers requests in the order it gets    *)
(* them, whenever it likes; the line loses and garbles tokens.             *)
(***************************************************************************)
EXTENDS Naturals, Sequences

CONSTANTS
  MaxCalls,     \* bound: calls the application makes
  Devices,      \* device ids
  PayloadLens,  \* reply lengths the application may ask for
  AnswerLens,   \* reply lengths the device may answer with
  DrainMax,     \* DRAIN_MAX
  SyncMax,      \* SYNC_MAX
  MaxHits,      \* bound: tokens lost or garbled
  Prompt,       \* TRUE: TIMEOUT_SLOW outlasts the device's slowest answer
  FalseEnds     \* TRUE: noise may turn a byte into SLIP_END

ASSUME FujiBusAssumption ==
  /\ MaxCalls \in Nat \ {0}
  /\ Devices # {}
  /\ PayloadLens \subseteq Nat /\ PayloadLens # {}
  /\ AnswerLens \subseteq Nat /\ 0 \in AnswerLens
  /\ DrainMax \in Nat /\ SyncMax \in Nat /\ MaxHits \in Nat
  /\ Prompt \in BOOLEAN /\ FalseEnds \in BOOLEAN

VARIABLES
  \* the client
  pc,        \* where fuji_packet_call stands; "idle" outside it
  cur,       \* number of the current (or last) call
  req,       \* its device, direction and reply length
  got,       \* tokens stored: the header, then the caller's buffer
  skipped,   \* bytes discarded while looking for a frame
  quiet,     \* history: all answers to earlier calls had arrived at the drain
  outcome,   \* what the last call returned
  \* the device and the line
  reqs,      \* requests on their way or waiting at the device
  replies,   \* header of the reply to each call
  runs,      \* history: how often the device carried each call out
  line,      \* tokens sent and not yet read
  arrived,   \* how many of them are waiting at the port
  hits       \* history: tokens lost or garbled so far

client == <<pc, cur, req, got, skipped, quiet, outcome>>
far    == <<reqs, replies, runs, line, arrived, hits>>
vars   == <<client, far>>

CallIds == 1..MaxCalls

\* a token <<f, i>>: piece i of the reply to call f; piece 1 is its header
END  == <<0, 0>>
Junk == <<0, 1>>       \* a garbled byte
Piece(f, i) == <<f, i>>

RequestType == [dev : Devices, read : BOOLEAN, len : PayloadLens]
ReplyType   == [dev : Devices, ack : BOOLEAN, len : AnswerLens]

NoOutcome == [call |-> 0, ok |-> FALSE, seen |-> {}]

Init ==
  /\ pc = "idle" /\ cur = 0 /\ got = <<>> /\ skipped = 0
  /\ req = CHOOSE r \in RequestType : ~r.read
  /\ quiet = TRUE /\ outcome = NoOutcome
  /\ reqs = <<>> /\ line = <<>> /\ arrived = 0 /\ hits = 0
  /\ replies = [c \in CallIds |-> [dev |-> req.dev, ack |-> FALSE, len |-> 0]]
  /\ runs = [c \in CallIds |-> 0]

-----------------------------------------------------------------------------
(* The client *)

At(l)   == pc = l
Goto(l) == pc' = l

Owners(s) == {s[i][1] : i \in DOMAIN s}

Return(ok) ==
  /\ Goto("idle")
  /\ outcome' = IF ok THEN [call |-> cur, ok |-> TRUE, seen |-> Owners(got)]
                      ELSE [NoOutcome EXCEPT !.call = cur]

Call ==
  /\ At("idle") /\ cur < MaxCalls
  /\ req' \in RequestType
  /\ cur' = cur + 1
  /\ got' = <<>> /\ skipped' = 0
  /\ Goto("drain")
  /\ UNCHANGED <<quiet, outcome, far>>

Lesser(a, b) == IF a < b THEN a ELSE b

(* Mutant: nothing is drained. *)
DrainNothing(k) == UNCHANGED <<line, arrived>>

(* port_drain: whatever waits at the port is thrown away, and whatever     *)
(* turns up while that goes on, DRAIN_MAX tokens at most.                  *)
DrainLine(k) ==
  /\ line' = SubSeq(line, k + 1, Len(line))
  /\ arrived' = IF k > arrived THEN 0 ELSE arrived - k

Drain ==
  /\ At("drain")
  /\ \E k \in Lesser(arrived, DrainMax)..Lesser(Len(line), DrainMax) : DrainLine(k)
  /\ quiet' = (reqs = <<>> /\ arrived = Len(line) /\ Len(line) <= DrainMax)
  /\ Goto("send")
  /\ UNCHANGED <<cur, req, got, skipped, outcome, reqs, replies, runs, hits>>

(* The request frame goes out; the device gets it whole or not at all.     *)
Send ==
  /\ At("send")
  /\ reqs' = Append(reqs, [call |-> cur, dev |-> req.dev]) \/ reqs' = reqs
  /\ Goto("sync")
  /\ UNCHANGED <<cur, req, got, skipped, quiet, outcome, replies, runs, line, arrived, hits>>

(* port_getc_timeout: the next token at the port. *)
Token == Head(line)
Read  == arrived > 0 /\ line' = Tail(line) /\ arrived' = arrived - 1

(* Discard until SLIP_END, SYNC_MAX tokens at most. *)
Sync ==
  /\ At("sync")
  /\ Read
  /\ skipped' = skipped + 1
  /\ IF skipped' > SyncMax THEN Return(FALSE)
     ELSE Goto(IF Token = END THEN "skip" ELSE "sync") /\ UNCHANGED outcome
  /\ UNCHANGED <<cur, req, got, quiet, reqs, replies, runs, hits>>

(* Mutant: room for a reply even in a call that does not read. *)
RoomForPayload == 1 + req.len

(* Skip any additional SLIP_END; then fill the header, then the caller's   *)
(* buffer if the call reads, until a SLIP_END or until there is no room.   *)
Room == 1 + (IF req.read THEN req.len ELSE 0)

Store ==
  /\ got' = Append(got, Token)
  /\ Goto(IF Len(got') = Room THEN "check" ELSE "body")

Skip ==
  /\ At("skip")
  /\ Read
  /\ IF Token = END THEN UNCHANGED <<pc, got>> ELSE Store
  /\ UNCHANGED <<cur, req, skipped, quiet, outcome, reqs, replies, runs, hits>>

Body ==
  /\ At("body")
  /\ Read
  /\ IF Token = END THEN Goto("check") /\ UNCHANGED got ELSE Store
  /\ UNCHANGED <<cur, req, skipped, quiet, outcome, reqs, replies, runs, hits>>

(* Mutant: reading without a timeout. *)
NeverSilent == FALSE

(* No byte within TIMEOUT_SLOW: give up, or take what there is if a frame  *)
(* had begun.                                                              *)
Silence == arrived = 0 /\ (Prompt => line = <<>> /\ reqs = <<>>)

Timeout ==
  /\ pc \in {"sync", "skip", "body"}
  /\ Silence
  /\ IF At("body") THEN Goto("check") /\ UNCHANGED outcome ELSE Return(FALSE)
  /\ UNCHANGED <<cur, req, got, skipped, quiet, far>>

(* The checks on the reply.  A header that is no header has an arbitrary   *)
(* length and checksum, taken to be caught; so is any other splice.        *)
Header     == replies[got[1][1]]
HasHeader  == Len(got) > 0 /\ got[1] \in {Piece(f, 1) : f \in CallIds}
LengthOK   == Len(got) = 1 + Header.len
ChecksumOK == \A i \in 1..Len(got) : got[i] = Piece(got[1][1], i)
DeviceOK   == Header.dev = req.dev
AckOK      == Header.ack

(* Mutants: a check forgotten. *)
AcceptNoChecksum == HasHeader /\ LengthOK /\ DeviceOK /\ AckOK

AcceptNoDevice == HasHeader /\ LengthOK /\ ChecksumOK /\ AckOK

Accept == HasHeader /\ LengthOK /\ ChecksumOK /\ DeviceOK /\ AckOK

Check ==
  /\ At("check")
  /\ Return(Accept)
  /\ UNCHANGED <<cur, req, got, skipped, quiet, far>>

-----------------------------------------------------------------------------
(* The device and the line (external) *)

Frame(c, n) == <<END>> \o [i \in 1..n+1 |-> Piece(c, i)] \o <<END>>

(* The device carries out the oldest request and sends its reply. *)
Serve ==
  /\ reqs # <<>>
  /\ LET c == Head(reqs).call IN
       \E a \in BOOLEAN, n \in AnswerLens :
         /\ replies' = [replies EXCEPT ![c] = [dev |-> Head(reqs).dev, ack |-> a, len |-> n]]
         /\ line' = line \o Frame(c, n)
         /\ runs' = [runs EXCEPT ![c] = @ + 1]
  /\ reqs' = Tail(reqs)
  /\ UNCHANGED <<client, arrived, hits>>

(* The next token reaches the port. *)
Arrive ==
  /\ arrived < Len(line)
  /\ arrived' = arrived + 1
  /\ UNCHANGED <<client, reqs, replies, runs, line, hits>>

Noise == IF FalseEnds THEN {Junk, END} ELSE {Junk}

(* A token on its way is lost, or garbled (into Noise).                    *)
Lose ==
  /\ hits < MaxHits
  /\ \E i \in arrived+1..Len(line) :
       line' = SubSeq(line, 1, i - 1) \o SubSeq(line, i + 1, Len(line))
  /\ hits' = hits + 1
  /\ UNCHANGED <<client, reqs, replies, runs, arrived>>

Garble ==
  /\ hits < MaxHits
  /\ \E i \in arrived+1..Len(line), t \in Noise : line' = [line EXCEPT ![i] = t]
  /\ hits' = hits + 1
  /\ UNCHANGED <<client, reqs, replies, runs, arrived>>

Client == Drain \/ Send \/ Sync \/ Skip \/ Body \/ Timeout \/ Check

Next == Call \/ Client \/ Serve \/ Arrive \/ Lose \/ Garble

Spec == Init /\ [][Next]_vars

(* The client runs on, tokens sent arrive, and the device answers.  The    *)
(* application owes no next call, the line no loss.                        *)
FairSpec == Spec /\ WF_vars(Client) /\ WF_vars(Arrive) /\ WF_vars(Serve)

-----------------------------------------------------------------------------
(* Types, and that no more than the header and the caller's buffer is ever *)
(* stored (port_getbuf_slip_dual's two buffers; none but the header's when *)
(* the call does not read).                                                *)
TypeOK ==
  /\ pc \in {"idle", "drain", "send", "sync", "skip", "body", "check"}
  /\ cur \in 0..MaxCalls
  /\ req \in RequestType
  /\ \A i \in DOMAIN got : got[i] \in (0..MaxCalls) \X Nat /\ got[i] # END
  /\ Len(got) <= 1 + (IF req.read THEN req.len ELSE 0)
  /\ skipped \in Nat /\ quiet \in BOOLEAN
  /\ outcome \in [call : 0..MaxCalls, ok : BOOLEAN, seen : SUBSET (0..MaxCalls)]
  /\ \A i \in DOMAIN reqs : reqs[i] \in [call : CallIds, dev : Devices]
  /\ replies \in [CallIds -> ReplyType]
  /\ runs \in [CallIds -> Nat]
  /\ \A i \in DOMAIN line : line[i] \in (0..MaxCalls) \X Nat
  /\ arrived \in 0..Len(line)
  /\ hits \in 0..MaxHits

(* If every answer still owed to earlier calls was waiting at the port     *)
(* when the call drained it, a TRUE return is by the call's own reply,     *)
(* although packets carry no sequence number (the port_drain in            *)
(* fuji_packet_call), whatever the line loses or garbles meanwhile.        *)
OwnReply == At("idle") /\ outcome.ok /\ quiet => outcome.seen = {cur}

(* Whatever reply a call accepts, it is one whole acknowledging reply from *)
(* the device it called: never half a frame, nor two frames spliced where  *)
(* a drain, a timeout or a loss cut them (the checks in fuji_packet_call). *)
WholeReply ==
  At("idle") /\ outcome.ok =>
    \E f \in CallIds :
      /\ got = [i \in 1..1 + replies[f].len |-> Piece(f, i)]
      /\ replies[f].ack /\ replies[f].dev = req.dev

(* Every call returns, if only by TIMEOUT_SLOW or SYNC_MAX.                *)
CallReturns == ~At("idle") ~> At("idle")

(* When TIMEOUT_SLOW outlasts the device, SYNC_MAX the longest reply, and  *)
(* noise makes up no delimiter, FujiBus is a bus call: TRUE only with the  *)
(* call's own answer, carried out once, although bytes are lost or garbled *)
(* and drains cut replies anywhere.  With a delimiter made up inside the   *)
(* rest of an older reply, that rest is taken for a frame, and the reply   *)
(* behind it is left to the next call.                                     *)
Abstract == INSTANCE BusCall WITH
  phase <- IF At("idle") THEN "idle" ELSE "busy",
  served <- runs

ImplementsBusCall == Abstract!BusSpec

-----------------------------------------------------------------------------
(* Why OwnReply and WholeReply hold, as an inductive invariant.            *)
(*                                                                         *)
(* No reply changes once its frame is on the line, because no request is   *)
(* carried out twice and no token of a reply is there before it was sent.  *)
(* After a drain that found everything there is to drain, nothing but the  *)
(* current call's own request and reply is on its way.                     *)
Token0 == (0..MaxCalls) \X Nat

Callers == {reqs[i].call : i \in DOMAIN reqs}

SeqTypes ==
  /\ got \in Seq(Token0) /\ line \in Seq(Token0)
  /\ reqs \in Seq([call : CallIds, dev : Devices])

\* what is stored so far
Filling ==
  /\ pc \in {"drain", "send", "sync", "skip"} => got = <<>>
  /\ pc = "body" => Len(got) < Room

Requested ==
  /\ Callers \subseteq 1..cur
  /\ \A i, j \in DOMAIN reqs : reqs[i].call = reqs[j].call => i = j
  /\ \A c \in CallIds : c \in Callers \/ c > cur => runs[c] = 0
  /\ pc \in {"drain", "send"} => cur \notin Callers /\ runs[cur] = 0 /\ cur > 0

Replied == \A f \in (Owners(line) \cup Owners(got)) \ {0} : f <= cur /\ runs[f] > 0

Alone ==
  quiet /\ pc # "drain" =>
    /\ Callers \subseteq {cur}
    /\ Owners(line) \cup Owners(got) \subseteq {0, cur}

IInv ==
  /\ TypeOK /\ SeqTypes /\ Filling /\ Requested /\ Replied /\ Alone
  /\ OwnReply /\ WholeReply
=============================================================================
