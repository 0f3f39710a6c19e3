------------------------------ MODULE AdamNet ------------------------------
(***************************************************************************)
(* fuji_bus_call() over AdamNet (Coleco Adam), and what the Adam builds on *)
(* it: reading an app key, scanning for networks, putting a JSON query,    *)
(* copying a file.                                                         *)
(*                                                                         *)
(* The client posts one transaction at a time (WRITE, READ or STATUS) in a *)
(* DCB and spins until the machine's network processor completes it.  A    *)
(* WRITE is complete when it is delivered; the FujiNet then works on the   *)
(* command, and answers nothing until it is done.  A transaction that      *)
(* times out is posted again, a bounded number of times.  The network      *)
(* processor and the FujiNet are not in this repository.                   *)
(***************************************************************************)
EXTENDS Naturals

CONSTANTS
  MaxCalls,     \* bound: calls the application makes
  Requests,     \* the calls it may make
  MAX_RETRIES,
  LONG_RETRIES,
  Waits,        \* seconds fuji_copy_file_adam may be willing to wait
  PacketMax,    \* MAX_ADAM_PACKET_REPLY
  MaxHits       \* bound: transactions that go wrong on the wire

\* "send": no reply asked for; "key", "scan", "query" and "copy" are the
\* functions fuji_bus_appkey_read, fuji_scan_for_networks_adam,
\* network_json_query_adam and fuji_copy_file_adam
Kinds == {"send", "read", "reset", "key", "scan", "query", "copy"}

\* functions that ask for no reply and then READ what there is
ReadsAfter == {"scan", "query"}

\* [len: buf_length; sendable: the device has an Adam id and a DCB, and the
\*  packet holds the payload]
RequestType == [kind : Kinds, len : Nat, sendable : BOOLEAN]

ASSUME AdamNetAssumption ==
  /\ MaxCalls \in Nat \ {0}
  /\ Requests \subseteq RequestType
  /\ MAX_RETRIES \in Nat \ {0} /\ LONG_RETRIES \in Nat \ {0}
  /\ Waits \subseteq Nat
  /\ PacketMax \in Nat \ {0}
  /\ MaxHits \in Nat
  /\ \A r \in Requests : /\ r.kind = "scan" => r.len = 1
                         /\ r.kind = "query" => r.len = PacketMax

VARIABLES
  \* the client
  pc,        \* the step that is next; "idle" outside a call
  cur,       \* number of the current (or last) call
  req,       \* its request
  tries,     \* postings left before the transaction is given up
  seconds,   \* polls left to fuji_copy_file_adam
  landed,    \* bytes stored in the caller's buffer
  outcome,   \* what the last call returned, and whose answer it carried
  \* the wire and the FujiNet
  job,       \* the command it works on
  reply,     \* the reply it holds, until the next command
  status,    \* the command its STATUS speaks of, and the failure bit
  runs,      \* history: how often it carried each call out
  hits       \* history: transactions gone wrong so far

client == <<pc, cur, req, tries, seconds, landed, outcome>>
far    == <<job, reply, status, runs, hits>>
vars   == <<client, far>>

CallIds == 1..MaxCalls
Ids     == 0..MaxCalls

NoRequest == [kind |-> "send", len |-> 0, sendable |-> FALSE]
NoJob     == [call |-> 0, kind |-> "send", len |-> 0]
NoReply   == [call |-> 0, len |-> 0]
NoStatus  == [call |-> 0, failed |-> FALSE]
NoOutcome == [call |-> 0, ok |-> FALSE, seen |-> {}]

Init ==
  /\ pc = "idle" /\ cur = 0 /\ tries = 0 /\ seconds = 0 /\ landed = 0
  /\ req = NoRequest
  /\ outcome = NoOutcome
  /\ job = NoJob /\ reply = NoReply /\ status = NoStatus
  /\ runs = [c \in CallIds |-> 0] /\ hits = 0

-----------------------------------------------------------------------------
At(l)   == pc = l
Goto(l) == pc' = l

\* the call returns ok, on the word of `owner`'s reply or status
Return(ok, owner) ==
  /\ Goto("idle")
  /\ outcome' = IF ok THEN [call |-> cur, ok |-> TRUE, seen |-> {owner}]
                      ELSE [NoOutcome EXCEPT !.call = cur]

\* start posting a transaction, at most n times
Post(l, n) == Goto(l) /\ tries' = n /\ UNCHANGED outcome

(* The last return false of fuji_bus_call; fuji_copy_file_adam then waits  *)
(* for the FujiNet to answer again.                                        *)
Fail ==
  /\ UNCHANGED tries
  /\ IF req.kind = "copy" THEN Goto("wait") /\ UNCHANGED outcome ELSE Return(FALSE, 0)

Call ==
  /\ At("idle") /\ cur < MaxCalls
  /\ \E r \in Requests :
       req' = r /\ Goto(IF r.kind = "copy" THEN "stat" ELSE "check")
  /\ cur' = cur + 1
  /\ landed' = 0
  /\ UNCHANGED <<tries, seconds, outcome, far>>

Check ==
  /\ At("check")
  /\ IF req.sendable THEN Post("write", MAX_RETRIES)
                     ELSE Return(FALSE, 0) /\ UNCHANGED tries
  /\ UNCHANGED <<cur, req, seconds, landed, far>>

(* fuji_copy_file_adam stats the source first, "while FujiNet still        *)
(* answers": its answers take the place of what the FujiNet held.          *)
Stat ==
  /\ At("stat") /\ req.sendable /\ job = NoJob
  /\ reply' = NoReply /\ status' = NoStatus
  /\ seconds' \in Waits
  /\ Post("write", MAX_RETRIES)
  /\ UNCHANGED <<cur, req, landed, job, runs, hits>>

StatFails ==
  /\ At("stat")
  /\ Return(FALSE, 0)
  /\ UNCHANGED <<cur, req, tries, seconds, landed, far>>

(* Mutant: the postings are not counted. *)
SpendNot == tries

Spend == tries - 1

\* one posting of dcb_io gone; after the last, the call fails
Again == IF Spend = 0 THEN Fail ELSE tries' = Spend /\ UNCHANGED <<pc, outcome>>

Hit == hits < MaxHits /\ hits' = hits + 1

(* No answer: the FujiNet is busy, or the transaction was lost.            *)
Silent == \/ job # NoJob /\ UNCHANGED hits
          \/ job = NoJob /\ Hit

-----------------------------------------------------------------------------
(* dcb_io with DCB_COMMAND_WRITE *)

Delivered ==
  /\ job' = [call |-> cur, kind |-> req.kind, len |-> req.len]
  /\ reply' = NoReply /\ status' = NoStatus

(* Mutant: a delivered command taken for one carried out. *)
AfterWriteDone ==
  CASE req.kind = "read" -> Post("read", LONG_RETRIES)
    [] req.kind = "key"  -> Post("read", MAX_RETRIES)
    [] OTHER             -> Return(TRUE, cur) /\ UNCHANGED tries

(* Delivered: read the reply, or wait until the command is carried out.    *)
(* Nothing answers after a RESET.                                          *)
AfterWrite ==
  CASE req.kind = "read"  -> Post("read", LONG_RETRIES)
    [] req.kind = "key"   -> Post("read", MAX_RETRIES)
    [] req.kind = "reset" -> Return(TRUE, cur) /\ UNCHANGED tries
    [] OTHER              -> Post("ready", LONG_RETRIES)

WriteFinish ==
  /\ At("write") /\ job = NoJob
  /\ Delivered
  /\ AfterWrite
  /\ UNCHANGED <<cur, req, seconds, landed, runs, hits>>

(* Mutant: the status of the last posting not looked at. *)
NotDeliveredIgnored == IF Spend = 0 THEN AfterWrite ELSE Again

NotDelivered == Again

(* A busy FujiNet does not take the command; a WRITE that times out when   *)
(* it is idle may have been delivered all the same.                        *)
WriteTimeout ==
  /\ At("write")
  /\ Silent
  /\ \/ UNCHANGED <<job, reply, status>>
     \/ job = NoJob /\ Delivered
  /\ NotDelivered
  /\ UNCHANGED <<cur, req, seconds, landed, runs>>

(* Any status but FINISH and TIMEOUT ends dcb_io at once. *)
WriteError ==
  /\ At("write") /\ Hit
  /\ Fail
  /\ UNCHANGED <<cur, req, seconds, landed, job, reply, status, runs>>

-----------------------------------------------------------------------------
(* bus_ready: dcb_io with DCB_COMMAND_STATUS until it finishes *)

ReadyFinish ==
  /\ At("ready") /\ job = NoJob
  /\ IF status.failed THEN Fail
     ELSE IF req.kind \in ReadsAfter THEN Post("read", MAX_RETRIES)
     ELSE Return(TRUE, status.call) /\ UNCHANGED tries
  /\ UNCHANGED <<cur, req, seconds, landed, far>>

ReadyTimeout ==
  /\ At("ready")
  /\ Silent
  /\ Again
  /\ UNCHANGED <<cur, req, seconds, landed, job, reply, status, runs>>

-----------------------------------------------------------------------------
(* dcb_io with DCB_COMMAND_READ *)

Lesser(a, b) == IF a < b THEN a ELSE b

(* Mutant: every reply read into the caller's buffer. *)
LandDirect(n, r) == n

(* The FujiNet sends all it has: fuji_bus_call reads it into its own       *)
(* packet and copies what the caller asked for, unless the caller's buffer *)
(* holds any packet.                                                       *)
Land(n, r) == IF r.kind = "read" /\ r.len < PacketMax THEN Lesser(r.len, n) ELSE n

ReadFinish ==
  /\ At("read") /\ job = NoJob /\ reply.len > 0
  /\ landed' = Land(reply.len, req)
  /\ Return(TRUE, reply.call)
  /\ UNCHANGED <<cur, req, tries, seconds, far>>

(* With nothing to send the FujiNet NAKs: an empty app key, else an error. *)
(* (A query returns the empty string after any READ that does not finish.) *)
ReadNak ==
  /\ At("read") /\ job = NoJob /\ reply.len = 0
  /\ Return(req.kind = "key", status.call)
  /\ UNCHANGED <<cur, req, tries, seconds, landed, far>>

ReadTimeout ==
  /\ At("read")
  /\ Silent
  /\ Again
  /\ UNCHANGED <<cur, req, seconds, landed, job, reply, status, runs>>

ReadError ==
  /\ At("read") /\ Hit
  /\ Fail
  /\ UNCHANGED <<cur, req, seconds, landed, job, reply, status, runs>>

-----------------------------------------------------------------------------
(* fuji_copy_file_adam after a call that failed: poll once a second; once  *)
(* the FujiNet answers, its failure bit decides.                           *)
WaitFinish ==
  /\ At("wait") /\ seconds > 0 /\ job = NoJob
  /\ Return(~status.failed, status.call)
  /\ UNCHANGED <<cur, req, tries, seconds, landed, far>>

WaitTimeout ==
  /\ At("wait") /\ seconds > 0
  /\ Silent
  /\ seconds' = seconds - 1
  /\ UNCHANGED <<pc, cur, req, tries, landed, outcome, job, reply, status, runs>>

WaitOver ==
  /\ At("wait") /\ seconds = 0
  /\ Return(FALSE, 0)
  /\ UNCHANGED <<cur, req, tries, seconds, landed, far>>

-----------------------------------------------------------------------------
(* The FujiNet (external) *)

ReplyLens(j) ==
  CASE j.kind = "read" -> 0..PacketMax
    [] j.kind = "key"  -> 0..j.len
    [] j.kind = "scan" -> {1}
    [] j.kind = "query" -> 0..PacketMax
    [] OTHER           -> {0}

Serve ==
  /\ job # NoJob
  /\ \E f \in BOOLEAN, n \in ReplyLens(job) :
       /\ job.kind = "reset" => ~f
       /\ status' = [call |-> job.call, failed |-> f]
       /\ reply' = [call |-> job.call, len |-> IF f THEN 0 ELSE n]
  /\ runs' = [runs EXCEPT ![job.call] = @ + 1]
  /\ job' = NoJob
  /\ UNCHANGED <<client, hits>>

Client ==
  \/ Check \/ Stat \/ StatFails
  \/ WriteFinish \/ WriteTimeout \/ WriteError
  \/ ReadyFinish \/ ReadyTimeout
  \/ ReadFinish \/ ReadNak \/ ReadTimeout \/ ReadError
  \/ WaitFinish \/ WaitTimeout \/ WaitOver

Next == Call \/ Client \/ Serve

Spec == Init /\ [][Next]_vars

(* The client runs on and its transactions complete.  The FujiNet owes it  *)
(* nothing: every wait for it is bounded.                                  *)
FairSpec == Spec /\ WF_vars(Client)

-----------------------------------------------------------------------------
(* Types, and that no byte is stored behind the end of the caller's buffer *)
(* although a READ brings all that the FujiNet has (the packet that        *)
(* fuji_bus_call reads short replies through).                             *)
TypeOK ==
  /\ pc \in {"idle", "check", "stat", "write", "ready", "read", "wait"}
  /\ cur \in Ids
  /\ req \in Requests \cup {NoRequest}
  /\ tries \in Nat /\ (pc \in {"write", "ready", "read"} => tries > 0)
  /\ seconds \in Nat
  /\ landed \in 0..req.len
  /\ outcome \in [call : Ids, ok : BOOLEAN, seen : SUBSET Ids]
  /\ job \in [call : Ids, kind : Kinds, len : Nat]
  /\ (job # NoJob => job.call \in CallIds)
  /\ reply \in [call : Ids, len : Nat]
  /\ status \in [call : Ids, failed : BOOLEAN]
  /\ runs \in [CallIds -> Nat]
  /\ hits \in 0..MaxHits

(* A TRUE return means that the command was carried out, is over, and did  *)
(* not fail, on the word of its own reply or failure bit: never of an      *)
(* answer an earlier call left behind when it gave up, however often a     *)
(* WRITE was posted (dcb_io, bus_ready, fuji_bus_call).  A RESET is not    *)
(* waited for, a NAKed app key counts as empty, and a file copy is only as *)
(* good as the wire.                                                       *)
OwnAnswer ==
  At("idle") /\ outcome.ok /\ req.kind # "reset" /\ (req.kind = "copy" => hits = 0) =>
    /\ outcome.seen = {cur} /\ runs[cur] > 0
    /\ job = NoJob /\ status.call = cur
    /\ req.kind # "key" => ~status.failed

-----------------------------------------------------------------------------
(* Why TypeOK and OwnAnswer hold, as an inductive invariant.               *)

(* The FujiNet works on this call's command, or its status and reply are   *)
(* this call's.                                                            *)
Mine ==
  /\ cur \in CallIds
  /\ job # NoJob => job.call = cur /\ job.kind = req.kind /\ job.len = req.len
  /\ job = NoJob => status.call = cur /\ reply.call = cur /\ runs[cur] > 0

(* The reply fits what will be made of it, and a failed command has none.  *)
ReplyInv ==
  /\ req.kind \in {"read", "key"} \cup ReadsAfter
  /\ job = NoJob =>
       /\ reply.len \in ReplyLens(req) \cup {0}
       /\ reply.len > 0 => ~status.failed

(* From the first posting of READ or STATUS on a command was delivered; a  *)
(* copy that waits was delivered unless a transaction went wrong.          *)
PostInv ==
  /\ ~At("idle") => cur \in CallIds /\ req \in Requests /\ landed = 0
  /\ At("check") => req.kind # "copy"
  /\ pc \in {"ready", "read"} => Mine /\ req.kind # "reset"
  /\ At("ready") => req.kind \in {"send", "copy"} \cup ReadsAfter
  /\ At("ready") /\ req.kind \in ReadsAfter /\ job = NoJob =>
       reply.len \in IF status.failed THEN {0} ELSE ReplyLens(req)
  /\ At("read") => ReplyInv
  /\ At("wait") => req.kind = "copy" /\ (hits = 0 => Mine)
  /\ At("write") /\ req.kind = "copy" /\ hits = 0 => job = NoJob

IInv == TypeOK /\ PostInv /\ OwnAnswer

(* What holds besides when no transaction goes wrong: a command is         *)
(* delivered once, and carried out once.                                   *)
OnceInv ==
  /\ hits = 0
  /\ \A c \in CallIds : runs[c] <= 1 /\ (c > cur => runs[c] = 0)
  /\ job # NoJob => job.call <= cur /\ runs[job.call] = 0
  /\ pc \in {"check", "stat", "write"} =>
       runs[cur] = 0 /\ (job # NoJob => job.call # cur)

-----------------------------------------------------------------------------
(* Every call returns, whatever the FujiNet does.                          *)
CallReturns == ~At("idle") ~> At("idle")

(* When no transaction goes wrong, however slow the FujiNet, AdamNet is a  *)
(* bus call: no retry makes it carry a command out twice.                  *)
Abstract == INSTANCE BusCall WITH
  phase <- IF At("idle") THEN "idle" ELSE "busy",
  served <- runs

ImplementsBusCall == Abstract!BusSpec

(* fuji_copy_file is documented to return true if all is OK: then the      *)
(* FujiNet has carried the copy out.                                       *)
CopyCarriedOut == At("idle") /\ outcome.ok /\ req.kind = "copy" => runs[cur] > 0
=============================================================================
