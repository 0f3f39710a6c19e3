------------------------------ MODULE Mailbox ------------------------------
(***************************************************************************)
(* fuji_bus_call() over the cartridge mailbox of the ColecoVision (and,    *)
(* with stores in place of reads, of the NES).  The console stages a       *)
(* command in the cart's registers, bumps a sequence register, and polls   *)
(* until the cart publishes that sequence as acknowledged; the reply is    *)
(* then read in place out of cartridge memory.                             *)
(*                                                                         *)
(* Two actors run concurrently: the console, one memory access at a time,  *)
(* and the cart.  A console RESET restarts the program and leaves the cart *)
(* as it was.  The cart is not in this repository: its actions are modelled*)
(* from what the console code relies on.                                   *)
(***************************************************************************)
EXTENDS Naturals, FiniteSets

CONSTANTS
  MaxCalls,        \* bound: calls the application makes
  SeqMod,          \* values of the sequence byte (256 in the code)
  TxMax,           \* FN_TX_MAX, bytes the cart's command buffer holds
  ReplyMax,        \* FN_REPLY_MAX, bytes of the reply window
  RxLens,          \* reply lengths the cart may report
  Requests,        \* the calls the application may make
  MaxResets,       \* bound: console RESETs
  BudgetOutlasts,  \* TRUE: the polling budget outlasts the cart's longest job
  CartMisses       \* TRUE: the cart may miss a write of the sequence register

\* [nf, nb: parameter fields and their bytes in all; data, reply: the
\*  FUJI_FIELD_DATA and FUJI_FIELD_REPLY bits; len: buf_length]
RequestType ==
  [nf : 0..4, nb : 0..4, data : BOOLEAN, reply : BOOLEAN, len : Nat]

ASSUME MailboxAssumption ==
  /\ MaxCalls \in Nat \ {0}
  /\ SeqMod \in Nat /\ SeqMod > 2
  /\ TxMax \in Nat /\ TxMax >= 8     \* the parameters alone always fit
  /\ ReplyMax \in Nat
  /\ RxLens \subseteq Nat
  /\ Requests \subseteq RequestType
  /\ MaxResets \in Nat
  /\ BudgetOutlasts \in BOOLEAN /\ CartMisses \in BOOLEAN

VARIABLES
  \* the console
  pc,        \* where fuji_bus_call stands; "idle" outside it
  cur,       \* number of the current (or last) call
  req,       \* its request
  want,      \* fn_commit's want
  left,      \* reply bytes still to copy
  copied,    \* reply bytes stored in the caller's buffer
  rlen,      \* fuji_bus_call_rlen
  seen,      \* history: calls whose reply words this call has read
  quiet,     \* history: the cart had nothing to do when `want` was computed
  outcome,   \* what the last call returned
  resets,    \* history: RESETs so far
  \* the cart
  regs,      \* DEVICE/CMD register contents, and NPARAM
  tx,        \* the command stream: calls that wrote into it, and its length
  post,      \* command latched by a sequence write, not yet started
  job,       \* command being carried out
  ackseq,    \* FN_ACKSEQ
  head,      \* FN_ERRCODE, FN_REPLYCMD, FN_RXLEN, and whose they are
  win,       \* the reply window: whose byte each cell holds
  runs       \* history: commands the cart has started, one entry per start

console == <<pc, cur, req, want, left, copied, rlen, seen, quiet, outcome>>
cart    == <<regs, tx, post, job, ackseq, head, win, runs>>
vars    == <<console, cart, resets>>

Ids     == 0..MaxCalls        \* 0: nobody's
CallIds == 1..MaxCalls

Cell(n) == 1..n

Lesser(a, b) == IF a < b THEN a ELSE b

NoRequest == [nf |-> 0, nb |-> 0, data |-> FALSE, reply |-> FALSE, len |-> 0]
NoOutcome == [call |-> 0, ok |-> FALSE, seen |-> {}]
Idle      == [call |-> 0, seq |-> 0, np |-> 0, of |-> {}, len |-> 0, painted |-> FALSE]

Init ==
  /\ pc = "idle" /\ cur = 0 /\ req = NoRequest /\ want = 0
  /\ left = 0 /\ copied = 0 /\ rlen = 0
  /\ seen = {} /\ quiet = FALSE /\ outcome = NoOutcome /\ resets = 0
  /\ regs = [call |-> 0, np |-> 0]
  /\ tx = [of |-> {}, len |-> 0]
  /\ post = Idle /\ job = Idle
  /\ ackseq = 0
  /\ head = [call |-> 0, err |-> 0, ack |-> FALSE, len |-> 0]
  /\ win = [i \in Cell(ReplyMax) |-> 0]
  /\ runs = [c \in CallIds |-> 0]

-----------------------------------------------------------------------------
(* The console *)

At(l)   == pc = l
Goto(l) == pc' = l

(* Every return of fuji_bus_call. *)
Return(ok) ==
  /\ Goto("idle")
  /\ outcome' = IF ok THEN [call |-> cur, ok |-> TRUE, seen |-> seen]
                      ELSE [NoOutcome EXCEPT !.call = cur]

(* The bytes a request streams: a size byte and the value bytes of each    *)
(* parameter, then the payload.                                            *)
ParamBytes(r)  == r.nf + r.nb
StreamBytes(r) == ParamBytes(r) + (IF r.data THEN r.len ELSE 0)

(* The application makes a call: fuji_bus_call_rlen is cleared first.      *)
Call ==
  /\ At("idle") /\ cur < MaxCalls
  /\ \E r \in Requests : req' = r
  /\ cur' = cur + 1
  /\ rlen' = 0
  /\ left' = 0 /\ copied' = 0 /\ seen' = {}
  /\ Goto("check")
  /\ UNCHANGED <<want, quiet, outcome, resets, cart>>

(* Refuse rather than truncate an oversized payload. *)
TooBig(r) == r.data /\ StreamBytes(r) > TxMax

Check ==
  /\ At("check")
  /\ IF TooBig(req) THEN Return(FALSE) ELSE Goto("rewind") /\ UNCHANGED outcome
  /\ UNCHANGED <<cur, req, want, left, copied, rlen, seen, quiet, resets, cart>>

(* Mutant: no rewind. *)
KeepTx == tx' = tx

(* FNR_DATA_RST rewinds the command stream. *)
RewindTx == tx' = [of |-> {}, len |-> 0]

Rewind ==
  /\ At("rewind")
  /\ RewindTx
  /\ Goto("regs")
  /\ UNCHANGED <<cur, req, want, left, copied, rlen, seen, quiet, outcome, resets>>
  /\ UNCHANGED <<regs, post, job, ackseq, head, win, runs>>

(* FNR_DEVICE, FNR_CMD and FNR_NPARAM = 0. *)
SetRegs ==
  /\ At("regs")
  /\ regs' = [call |-> cur, np |-> 0]
  /\ Goto("params")
  /\ UNCHANGED <<cur, req, want, left, copied, rlen, seen, quiet, outcome, resets>>
  /\ UNCHANGED <<tx, post, job, ackseq, head, win, runs>>

Stream(n) == tx' = [of |-> IF n = 0 THEN tx.of ELSE tx.of \cup {cur}, len |-> tx.len + n]

(* The parameters, each behind its size byte, then FNR_NPARAM. *)
Params ==
  /\ At("params")
  /\ Stream(ParamBytes(req))
  /\ regs' = [regs EXCEPT !.np = req.nf]
  /\ Goto("payload")
  /\ UNCHANGED <<cur, req, want, left, copied, rlen, seen, quiet, outcome, resets>>
  /\ UNCHANGED <<post, job, ackseq, head, win, runs>>

Payload ==
  /\ At("payload")
  /\ IF req.data THEN Stream(req.len) ELSE UNCHANGED tx
  /\ Goto("seq")
  /\ UNCHANGED <<cur, req, want, left, copied, rlen, seen, quiet, outcome, resets>>
  /\ UNCHANGED <<regs, post, job, ackseq, head, win, runs>>

(* Mutant: 0 is not skipped. *)
NextSeqNoSkip(a) == (a + 1) % SeqMod

(* One past the acknowledged sequence; 0 means "never used". *)
NextSeq(a) == IF (a + 1) % SeqMod = 0 THEN 1 ELSE (a + 1) % SeqMod

(* fn_commit reads FN_ACKSEQ ... *)
ReadSeq ==
  /\ At("seq")
  /\ want' = NextSeq(ackseq)
  /\ quiet' = (post = Idle /\ job = Idle)
  /\ Goto("commit")
  /\ UNCHANGED <<cur, req, left, copied, rlen, seen, outcome, resets, cart>>

(* ... and writes FNR_SEQ; the cart latches the staged command with it. *)
Commit ==
  /\ At("commit")
  /\ post' = [call |-> regs.call, seq |-> want, np |-> regs.np,
              of |-> tx.of, len |-> tx.len, painted |-> FALSE]
  /\ Goto("poll")
  /\ UNCHANGED <<cur, req, want, left, copied, rlen, seen, quiet, outcome, resets>>
  /\ UNCHANGED <<regs, tx, job, ackseq, head, win, runs>>

(* Mutant: any acknowledgement will do. *)
PollAny ==
  /\ At("poll")
  /\ ackseq # 0
  /\ Goto("err")
  /\ UNCHANGED <<cur, req, want, left, copied, rlen, seen, quiet, outcome, resets, cart>>

(* The poll sees the sequence acknowledged. *)
Poll ==
  /\ At("poll")
  /\ ackseq = want
  /\ Goto("err")
  /\ UNCHANGED <<cur, req, want, left, copied, rlen, seen, quiet, outcome, resets, cart>>

(* Mutant: polling without a budget. *)
BudgetNever == FALSE

(* The polling budget runs out: FN_EWAIT.  The comment at fn_commit says   *)
(* the budget outlasts the cart's longest operation.                       *)
BudgetSpent == BudgetOutlasts => (post = Idle /\ job = Idle)

Timeout ==
  /\ At("poll")
  /\ ackseq # want
  /\ BudgetSpent
  /\ Return(FALSE)
  /\ UNCHANGED <<cur, req, want, left, copied, rlen, seen, quiet, resets, cart>>

Look == seen' = seen \cup {head.call}

(* FN_ERRCODE, the value fn_commit returns. *)
ReadErr ==
  /\ At("err")
  /\ Look
  /\ IF head.err # 0 THEN Return(FALSE) ELSE Goto("ack") /\ UNCHANGED outcome
  /\ UNCHANGED <<cur, req, want, left, copied, rlen, quiet, resets, cart>>

(* FN_REPLYCMD *)
ReadAck ==
  /\ At("ack")
  /\ Look
  /\ IF ~head.ack THEN Return(FALSE) ELSE Goto("len") /\ UNCHANGED outcome
  /\ UNCHANGED <<cur, req, want, left, copied, rlen, quiet, resets, cart>>

(* Mutants: the clamp to the caller's buffer, or both clamps, forgotten. *)
ReplyLenWindowOnly(n, r) == Lesser(n, ReplyMax)

ReplyLenUnclamped(n, r) == n

(* The reply's length, held to the window and to the caller's buffer. *)
ReplyLen(n, r) ==
  IF r.reply THEN Lesser(Lesser(n, ReplyMax), r.len) ELSE Lesser(n, ReplyMax)

ReadLen ==
  /\ At("len")
  /\ Look
  /\ left' = ReplyLen(head.len, req)
  /\ Goto(IF req.reply THEN "copy" ELSE "done")
  /\ UNCHANGED <<cur, req, want, copied, rlen, quiet, outcome, resets, cart>>

(* One byte of the reply, read out of the window. *)
Copy ==
  /\ At("copy")
  /\ copied < left
  /\ copied' = copied + 1
  /\ seen' = seen \cup {win[copied + 1]}
  /\ UNCHANGED <<pc, cur, req, want, left, rlen, quiet, outcome, resets, cart>>

Done ==
  /\ \/ At("done")
     \/ At("copy") /\ copied = left
  /\ rlen' = left
  /\ Return(TRUE)
  /\ UNCHANGED <<cur, req, want, left, copied, seen, quiet, resets, cart>>

(* RESET: the program starts again, RAM is cleared, the cart runs on.      *)
Reset ==
  /\ ~At("idle") /\ resets < MaxResets
  /\ resets' = resets + 1
  /\ Goto("idle")
  /\ rlen' = 0 /\ left' = 0 /\ copied' = 0 /\ seen' = {} /\ quiet' = FALSE
  /\ outcome' = NoOutcome
  /\ UNCHANGED <<cur, req, want, cart>>

-----------------------------------------------------------------------------
(* The cart (external) *)

(* It takes up a latched command when it is free; sequence 0 is no command.*)
CartStart ==
  /\ post # Idle /\ job = Idle /\ post.seq # 0
  /\ job' = post
  /\ post' = Idle
  /\ runs' = [runs EXCEPT ![post.call] = @ + 1]
  /\ UNCHANGED <<console, resets, regs, tx, ackseq, head, win>>

(* It never notices the write. *)
CartMiss ==
  /\ post # Idle
  /\ CartMisses \/ post.seq = 0
  /\ post' = Idle
  /\ UNCHANGED <<console, resets, regs, tx, job, ackseq, head, win, runs>>

(* It paints the reply ... *)
CartPaint ==
  /\ job # Idle /\ ~job.painted
  /\ job' = [job EXCEPT !.painted = TRUE]
  /\ \E n \in RxLens, e \in {0, 1}, a \in BOOLEAN :
        /\ head' = [call |-> job.call, err |-> e, ack |-> a, len |-> n]
        /\ win' = [i \in Cell(ReplyMax) |-> IF i <= n THEN job.call ELSE win[i]]
  /\ UNCHANGED <<console, resets, regs, tx, post, ackseq, runs>>

(* ... and only then acknowledges. *)
CartAck ==
  /\ job # Idle /\ job.painted
  /\ ackseq' = job.seq
  /\ job' = Idle
  /\ UNCHANGED <<console, resets, regs, tx, post, head, win, runs>>

Console ==
  \/ Check \/ Rewind \/ SetRegs \/ Params \/ Payload
  \/ ReadSeq \/ Commit \/ Poll \/ Timeout
  \/ ReadErr \/ ReadAck \/ ReadLen \/ Copy \/ Done

Cart == CartStart \/ CartMiss \/ CartPaint \/ CartAck

Next == Call \/ Console \/ Reset \/ Cart

Spec == Init /\ [][Next]_vars

(* The console executes on; the cart finishes what it has started and      *)
(* takes up (or misses) what it is sent.  Neither RESET nor the            *)
(* application's next call is owed.                                        *)
Fairness == WF_vars(Console) /\ WF_vars(Cart)

FairSpec == Spec /\ Fairness

-----------------------------------------------------------------------------
JobType == [call : Ids, seq : 0..SeqMod-1, np : 0..4, of : SUBSET CallIds,
            len : Nat, painted : BOOLEAN]

(* The types of the console's and the cart's state: among them that the    *)
(* reply length never exceeds the window it is read from.                  *)
TypeOK ==
  /\ pc \in {"idle", "check", "rewind", "regs", "params", "payload", "seq",
             "commit", "poll", "err", "ack", "len", "copy", "done"}
  /\ cur \in Ids
  /\ req \in RequestType
  /\ want \in 0..SeqMod-1
  /\ left \in 0..ReplyMax /\ copied \in 0..ReplyMax /\ rlen \in 0..ReplyMax
  /\ seen \in SUBSET Ids /\ quiet \in BOOLEAN
  /\ outcome \in [call : Ids, ok : BOOLEAN, seen : SUBSET Ids]
  /\ resets \in 0..MaxResets
  /\ regs \in [call : Ids, np : 0..4]
  /\ tx \in [of : SUBSET CallIds, len : Nat]
  /\ post \in JobType /\ job \in JobType
  /\ ackseq \in 0..SeqMod-1
  /\ head \in [call : Ids, err : {0, 1}, ack : BOOLEAN, len : Nat]
  /\ win \in [Cell(ReplyMax) -> Ids]
  /\ runs \in [CallIds -> Nat]

(* A call that returns TRUE and found the cart with nothing to do when it  *)
(* picked its sequence was decided by its own answer only: every status    *)
(* word and reply byte it read was painted for that call (fn_commit and    *)
(* the reply copy in fuji_bus_call), however many calls and RESETs came    *)
(* before it.                                                              *)
OwnReply == At("idle") /\ outcome.ok /\ quiet => outcome.seen = {cur}

(* What the cart latches with the sequence write is one whole command: all *)
(* of this call's stream, nothing left over from a call that a RESET cut   *)
(* short while it was staging, the NPARAM that goes with it, and no more   *)
(* bytes than the cart's buffer holds (FNR_DATA_RST, the FN_TX_MAX check). *)
CommandWhole ==
  At("poll") /\ post # Idle =>
    /\ post.call = cur
    /\ post.of \subseteq {cur}
    /\ post.len = StreamBytes(req) /\ post.len <= TxMax
    /\ post.np = req.nf

(* The reply copy never passes the end of the caller's buffer, and outside *)
(* a call fuji_bus_call_rlen is the length of the last call's reply: what  *)
(* was copied if it asked for one, 0 if it failed.                         *)
ReplyFits ==
  /\ req.reply => copied <= req.len
  /\ At("idle") => rlen = IF outcome.ok /\ req.reply THEN copied
                          ELSE IF outcome.ok THEN left ELSE 0

(* As long as the cart misses no write, a call that found it idle cannot   *)
(* run out of budget: until its sequence is acknowledged the cart still    *)
(* holds a command.  0 must never be used as a sequence for this to hold.  *)
QuietCallIsAnswered ==
  At("poll") /\ quiet => ackseq = want \/ post # Idle \/ job # Idle

-----------------------------------------------------------------------------
(* Why the above hold, as an inductive invariant. *)

Staging   == {"check", "rewind", "regs", "params", "payload", "seq", "commit", "poll"}
Answering == {"err", "ack", "len", "copy", "done"}

(* The command stream and the registers fill up with this call's command   *)
(* alone, from the rewind to the sequence write.                           *)
StagingInv ==
  /\ ~At("idle") => cur \in CallIds
  /\ post # Idle => post.call \in CallIds
  /\ job # Idle => job.call \in CallIds
  /\ pc \notin {"idle", "check"} => ~TooBig(req)
  /\ pc \in {"regs", "params"} => tx = [of |-> {}, len |-> 0]
  /\ pc \in {"params", "payload", "seq", "commit"} => regs.call = cur
  /\ At("payload") => tx.of \subseteq {cur} /\ tx.len = ParamBytes(req)
  /\ pc \in {"payload", "seq", "commit"} => regs.np = req.nf
  /\ pc \in {"seq", "commit"} => tx.of \subseteq {cur} /\ tx.len = StreamBytes(req)

(* The copy is counted from 0 up to a length the caller's buffer holds.    *)
CopyInv ==
  /\ ~At("idle") => rlen = 0
  /\ pc \in Staging \cup Answering /\ ~At("copy") => copied = 0
  /\ At("copy") => req.reply /\ copied <= left /\ left <= req.len
  /\ At("done") => ~req.reply

(* Once a quiet call has committed, the cart works for it or not at all,   *)
(* and the status words and the window hold its answer when the cart is    *)
(* done.                                                                   *)
QuietInv ==
  /\ \A i \in Cell(ReplyMax) : i <= head.len => win[i] = head.call
  /\ pc \in Staging => seen = {}
  /\ quiet /\ At("commit") => post = Idle /\ job = Idle /\ want # ackseq
  /\ quiet /\ At("poll") =>
       /\ post # Idle => post.call = cur /\ post.seq = want /\ job = Idle
                          /\ ~post.painted
       /\ job # Idle => job.call = cur /\ job.seq = want /\ post = Idle
                        /\ (job.painted => head.call = cur)
       /\ ackseq = want => post = Idle /\ job = Idle /\ head.call = cur
  /\ quiet /\ pc \in Answering =>
       /\ post = Idle /\ job = Idle /\ head.call = cur
       /\ seen \subseteq {cur} /\ (~At("err") => cur \in seen)
       /\ At("copy") => left <= head.len

IInv == TypeOK /\ StagingInv /\ CopyInv /\ QuietInv
        /\ OwnReply /\ CommandWhole /\ ReplyFits

-----------------------------------------------------------------------------
(* What holds besides when the console is never RESET and the budget       *)
(* outlasts the cart: every call is quiet, and the cart starts a call's    *)
(* command exactly once before it acknowledges it.                         *)
OnceInv ==
  /\ pc \in {"commit", "poll"} \cup Answering => quiet
  /\ ~At("poll") => post = Idle /\ job = Idle
  /\ \A c \in CallIds : c > cur => runs[c] = 0
  /\ pc \in Staging /\ ~At("poll") => runs[cur] = 0
  /\ At("poll") => /\ post # Idle => runs[cur] = 0
                   /\ job # Idle \/ ackseq = want => runs[cur] = 1
  /\ pc \in Answering => runs[cur] = 1

(* Every call returns, whatever the cart misses.                           *)
CallReturns == ~At("idle") ~> At("idle")

(* Without RESETs, and with a budget that outlasts the cart, the mailbox   *)
(* is a bus call: carried out at most once, TRUE only with its own answer. *)
Abstract == INSTANCE BusCall WITH
  phase <- IF At("idle") THEN "idle" ELSE "busy",
  served <- runs

ImplementsBusCall == Abstract!BusSpec
=============================================================================
