--------------------------- MODULE MailboxProofs ---------------------------
(***************************************************************************)
(* Theorems about the cartridge mailbox, for any number of calls and       *)
(* RESETs, any requests, any size of the sequence byte above 2, and a cart *)
(* that may miss writes and outlast the polling budget.                    *)
(***************************************************************************)
EXTENDS Mailbox, TLAPS

USE MailboxAssumption DEF MailboxAssumption

(* A next sequence is a sequence, differs from the one acknowledged, and is
   never 0 (the skip in fn_commit). *)
LEMMA SeqType ==
  ASSUME NEW a \in 0..SeqMod-1
  PROVE  NextSeq(a) \in 0..SeqMod-1 /\ NextSeq(a) # a /\ NextSeq(a) # 0
<1>1. CASE a + 1 = SeqMod
  <2>1. (a + 1) % SeqMod = 0
    BY <1>1
  <2>2. QED
    BY <2>1, <1>1 DEF NextSeq
<1>2. CASE a + 1 < SeqMod
  <2>1. (a + 1) % SeqMod = a + 1
    BY <1>2
  <2>2. QED
    BY <2>1 DEF NextSeq
<1>3. QED
  BY <1>1, <1>2

(* The reply length is held to the window, to what the cart reports and to
   the caller's buffer. *)
LEMMA ReplyLenType ==
  ASSUME NEW n \in Nat, NEW r \in RequestType
  PROVE  /\ ReplyLen(n, r) \in 0..ReplyMax
         /\ ReplyLen(n, r) <= n
         /\ r.reply => ReplyLen(n, r) <= r.len
BY DEF ReplyLen, Lesser, RequestType

(* A stream that passes the FN_TX_MAX check fits the command buffer. *)
LEMMA StreamType ==
  ASSUME NEW r \in RequestType
  PROVE  /\ ParamBytes(r) \in Nat /\ ParamBytes(r) <= 8
         /\ StreamBytes(r) \in Nat
         /\ ~TooBig(r) => StreamBytes(r) <= TxMax
BY DEF ParamBytes, StreamBytes, TooBig, RequestType

(* The types of the constants of the model. *)
LEMMA ConstantTypes ==
  /\ Idle \in JobType
  /\ NoOutcome \in [call : Ids, ok : BOOLEAN, seen : SUBSET Ids]
  /\ NoRequest \in RequestType
  /\ Idle.call = 0
BY DEF Idle, JobType, NoOutcome, NoRequest, RequestType, Ids, CallIds

(* The inductive invariant holds at power-on. *)
LEMMA InitInv == Init => IInv
<1> SUFFICES ASSUME Init PROVE IInv
  OBVIOUS
<1>1. TypeOK
  <2>1. /\ tx \in [of : SUBSET CallIds, len : Nat]
        /\ regs \in [call : Ids, np : 0..4]
        /\ head \in [call : Ids, err : {0, 1}, ack : BOOLEAN, len : Nat]
    BY DEF Init, Ids
  <2>2. /\ win \in [Cell(ReplyMax) -> Ids]
        /\ runs \in [CallIds -> Nat]
    BY DEF Init, Ids
  <2>3. /\ left \in 0..ReplyMax /\ copied \in 0..ReplyMax /\ rlen \in 0..ReplyMax
        /\ want \in 0..SeqMod-1 /\ ackseq \in 0..SeqMod-1
        /\ cur \in Ids /\ resets \in 0..MaxResets
    BY DEF Init, Ids
  <2>4. quiet \in BOOLEAN /\ seen \in SUBSET Ids
    BY Zenon DEF Init
  <2>5. QED
    BY <2>1, <2>2, <2>3, <2>4, ConstantTypes DEF Init, TypeOK
<1>2. StagingInv /\ CopyInv /\ QuietInv
  BY DEF Init, StagingInv, CopyInv, QuietInv, At, Staging, Answering, NoRequest, Cell
<1>3. OwnReply /\ CommandWhole /\ ReplyFits
  BY DEF Init, OwnReply, CommandWhole, ReplyFits, At, NoRequest, NoOutcome, Idle
<1>4. QED
  BY <1>1, <1>2, <1>3 DEF IInv

(* Every step keeps the types. *)
LEMMA TypeStep == TypeOK /\ StagingInv /\ [Next]_vars => TypeOK'
<1> SUFFICES ASSUME TypeOK, StagingInv, [Next]_vars PROVE TypeOK'
  OBVIOUS
<1> USE ConstantTypes DEF TypeOK, At, Goto, console, cart
<1>1. CASE Call
  BY <1>1 DEF Call, Ids
<1>2. CASE Check \/ Timeout
  <2>1. outcome' \in [call : Ids, ok : BOOLEAN, seen : SUBSET Ids]
    BY <1>2 DEF Check, Timeout, Return, NoOutcome
  <2>2. pc' \in {"idle", "rewind"}
    BY <1>2 DEF Check, Timeout, Return
  <2>3. QED
    BY <1>2, <2>1, <2>2 DEF Check, Timeout
<1>3. CASE Rewind
  BY <1>3 DEF Rewind, RewindTx
<1>4. CASE SetRegs
  BY <1>4 DEF SetRegs
<1>5. CASE Params
  <2>1. tx' \in [of : SUBSET CallIds, len : Nat]
    BY <1>5, StreamType DEF Params, Stream, StagingInv
  <2>2. QED
    BY <1>5, <2>1 DEF Params, RequestType
<1>6. CASE Payload
  <2>1. tx' \in [of : SUBSET CallIds, len : Nat]
    BY <1>6 DEF Payload, Stream, StagingInv, RequestType
  <2>2. QED
    BY <1>6, <2>1 DEF Payload
<1>7. CASE ReadSeq
  BY <1>7, SeqType DEF ReadSeq
<1>8. CASE Commit
  BY <1>8 DEF Commit, JobType
<1>9. CASE Poll
  BY <1>9 DEF Poll
<1>10. CASE ReadErr \/ ReadAck
  <2>0. outcome' = outcome \/ outcome' = [NoOutcome EXCEPT !.call = cur]
    BY <1>10, Zenon DEF ReadErr, ReadAck, Return
  <2>1. outcome' \in [call : Ids, ok : BOOLEAN, seen : SUBSET Ids]
    BY <2>0 DEF NoOutcome
  <2>2. pc' \in {"idle", "ack", "len"}
    BY <1>10 DEF ReadErr, ReadAck, Return
  <2>3. seen' \in SUBSET Ids
    BY <1>10 DEF ReadErr, ReadAck, Look
  <2>4. QED
    BY <1>10, <2>1, <2>2, <2>3 DEF ReadErr, ReadAck
<1>11. CASE ReadLen
  BY <1>11, ReplyLenType DEF ReadLen, Look
<1>12. CASE Copy
  <2>1. copied + 1 \in Cell(ReplyMax)
    BY <1>12 DEF Copy, Cell
  <2>2. copied' \in 0..ReplyMax
    BY <1>12 DEF Copy
  <2>3. seen' \in SUBSET Ids
    BY <1>12, <2>1 DEF Copy
  <2>4. QED
    BY <1>12, <2>2, <2>3 DEF Copy
<1>13. CASE Done
  BY <1>13 DEF Done, Return, NoOutcome
<1>14. CASE Reset
  <2>1. resets' \in 0..MaxResets
    BY <1>14 DEF Reset
  <2>2. /\ rlen' \in 0..ReplyMax /\ left' \in 0..ReplyMax /\ copied' \in 0..ReplyMax
    BY <1>14 DEF Reset
  <2>3. quiet' \in BOOLEAN /\ seen' \in SUBSET Ids
    BY <1>14, Zenon DEF Reset
  <2>4. QED
    BY <1>14, <2>1, <2>2, <2>3 DEF Reset
<1>15. CASE CartStart
  <2>1. runs' \in [CallIds -> Nat]
    <3>1. post.call \in CallIds /\ runs[post.call] + 1 \in Nat
      BY <1>15 DEF CartStart, StagingInv
    <3>2. QED
      BY <1>15, <3>1 DEF CartStart
  <2>2. QED
    BY <1>15, <2>1 DEF CartStart
<1>16. CASE CartMiss
  BY <1>16 DEF CartMiss
<1>17. CASE CartPaint
  <2>1. job' \in JobType
    BY <1>17 DEF CartPaint, JobType
  <2>2. job.call \in Ids
    BY DEF JobType
  <2>3. PICK n \in RxLens, e \in {0, 1}, a \in BOOLEAN :
            /\ head' = [call |-> job.call, err |-> e, ack |-> a, len |-> n]
            /\ win' = [i \in Cell(ReplyMax) |-> IF i <= n THEN job.call ELSE win[i]]
    BY <1>17 DEF CartPaint
  <2>4. n \in Nat
    OBVIOUS
  <2>5. head' \in [call : Ids, err : {0, 1}, ack : BOOLEAN, len : Nat]
    BY <2>2, <2>3, <2>4
  <2>6. win' \in [Cell(ReplyMax) -> Ids]
    BY <2>2, <2>3
  <2>7. QED
    BY <1>17, <2>1, <2>5, <2>6 DEF CartPaint
<1>18. CASE CartAck
  <2>1. ackseq' \in 0..SeqMod-1
    BY <1>18 DEF CartAck, JobType
  <2>2. QED
    BY <1>18, <2>1 DEF CartAck
<1>19. CASE UNCHANGED vars
  BY <1>19 DEF vars
<1>20. QED
  BY <1>1, <1>2, <1>3, <1>4, <1>5, <1>6, <1>7, <1>8, <1>9, <1>10, <1>11, <1>12,
     <1>13, <1>14, <1>15, <1>16, <1>17, <1>18, <1>19 DEF Next, Console, Cart

(* Staging: the stream and the registers are this call's own. *)
LEMMA StagingStep ==
  TypeOK /\ StagingInv /\ CommandWhole /\ [Next]_vars => StagingInv' /\ CommandWhole'
<1> SUFFICES ASSUME TypeOK, StagingInv, CommandWhole, [Next]_vars
             PROVE  StagingInv' /\ CommandWhole'
  OBVIOUS
<1> USE ConstantTypes DEF TypeOK, StagingInv, CommandWhole, At, Goto, console, cart
<1>1. CASE Call
  <2>1. cur' \in CallIds
    BY <1>1 DEF Call, CallIds, Ids
  <2>2. QED
    BY <1>1, <2>1 DEF Call
<1>2. CASE Check \/ Timeout \/ Poll \/ ReadErr \/ ReadAck
  BY <1>2 DEF Check, Timeout, Poll, ReadErr, ReadAck, Return
<1>3. CASE Rewind
  BY <1>3 DEF Rewind, RewindTx
<1>4. CASE SetRegs
  BY <1>4 DEF SetRegs
<1>5. CASE Params
  BY <1>5, StreamType DEF Params, Stream
<1>6. CASE Payload
  BY <1>6, StreamType DEF Payload, Stream, StreamBytes, RequestType
<1>7. CASE ReadSeq
  BY <1>7 DEF ReadSeq
<1>8. CASE Commit
  BY <1>8, StreamType DEF Commit
<1>9. CASE ReadLen \/ Copy \/ Done
  BY <1>9 DEF ReadLen, Copy, Done, Return
<1>10. CASE Reset
  BY <1>10 DEF Reset
<1>11. CASE CartStart
  BY <1>11 DEF CartStart
<1>12. CASE CartMiss
  BY <1>12 DEF CartMiss
<1>13. CASE CartPaint
  BY <1>13 DEF CartPaint, JobType
<1>14. CASE CartAck
  BY <1>14 DEF CartAck
<1>15. CASE UNCHANGED vars
  BY <1>15 DEF vars
<1>16. QED
  BY <1>1, <1>2, <1>3, <1>4, <1>5, <1>6, <1>7, <1>8, <1>9, <1>10, <1>11, <1>12,
     <1>13, <1>14, <1>15 DEF Next, Console, Cart

(* The reply copy: no step carries it past the caller's buffer. *)
LEMMA CopyStep ==
  TypeOK /\ CopyInv /\ ReplyFits /\ [Next]_vars => CopyInv' /\ ReplyFits'
<1> SUFFICES ASSUME TypeOK, CopyInv, ReplyFits, [Next]_vars
             PROVE  CopyInv' /\ ReplyFits'
  OBVIOUS
<1> USE DEF TypeOK, CopyInv, ReplyFits, At, Goto, console, cart, Staging, Answering
<1>1. CASE Call
  BY <1>1 DEF Call, RequestType
<1>2. CASE Check \/ Timeout \/ ReadErr \/ ReadAck
  BY <1>2 DEF Check, Timeout, ReadErr, ReadAck, Return, NoOutcome
<1>3. CASE Rewind \/ SetRegs \/ Params \/ Payload \/ ReadSeq \/ Commit \/ Poll
  BY <1>3 DEF Rewind, SetRegs, Params, Payload, ReadSeq, Commit, Poll
<1>4. CASE ReadLen
  BY <1>4, ReplyLenType DEF ReadLen
<1>5. CASE Copy
  BY <1>5 DEF Copy, RequestType
<1>6. CASE Done
  BY <1>6 DEF Done, Return
<1>7. CASE Reset
  BY <1>7 DEF Reset, NoOutcome, RequestType
<1>8. CASE Cart
  BY <1>8 DEF Cart, CartStart, CartMiss, CartPaint, CartAck
<1>9. CASE UNCHANGED vars
  BY <1>9 DEF vars
<1>10. QED
  BY <1>1, <1>2, <1>3, <1>4, <1>5, <1>6, <1>7, <1>8, <1>9 DEF Next, Console

(* A quiet call reads nothing but its own answer. *)
LEMMA QuietStep ==
  TypeOK /\ StagingInv /\ CopyInv /\ QuietInv /\ OwnReply /\ [Next]_vars
    => QuietInv' /\ OwnReply'
<1> SUFFICES ASSUME TypeOK, StagingInv, CopyInv, QuietInv, OwnReply, [Next]_vars
             PROVE  QuietInv' /\ OwnReply'
  OBVIOUS
<1> USE ConstantTypes
    DEF TypeOK, QuietInv, OwnReply, At, Goto, console, cart, Staging, Answering
<1>1. CASE Call \/ Reset
  BY <1>1 DEF Call, Reset, NoOutcome
<1>2. CASE Check \/ Timeout
  BY <1>2 DEF Check, Timeout, Return, NoOutcome
<1>3. CASE Rewind \/ SetRegs \/ Params \/ Payload
  BY <1>3 DEF Rewind, SetRegs, Params, Payload
<1>4. CASE ReadSeq
  BY <1>4, SeqType DEF ReadSeq
<1>5. CASE Commit
  BY <1>5 DEF Commit, StagingInv, CallIds
<1>6. CASE Poll
  BY <1>6 DEF Poll
<1>7. CASE ReadErr
  BY <1>7 DEF ReadErr, Look, Return, NoOutcome
<1>8. CASE ReadAck
  BY <1>8 DEF ReadAck, Look, Return, NoOutcome
<1>9. CASE ReadLen
  BY <1>9, ReplyLenType DEF ReadLen, Look
<1>10. CASE Copy
  <2>1. quiet => win[copied + 1] = cur
    BY <1>10 DEF Copy, CopyInv, Cell
  <2>2. QED
    BY <1>10, <2>1 DEF Copy
<1>11. CASE Done
  BY <1>11 DEF Done, Return
<1>12. CASE CartStart
  BY <1>12 DEF CartStart
<1>13. CASE CartMiss
  BY <1>13 DEF CartMiss
<1>14. CASE CartPaint
  <2>1. PICK n \in RxLens, e \in {0, 1}, a \in BOOLEAN :
            /\ head' = [call |-> job.call, err |-> e, ack |-> a, len |-> n]
            /\ win' = [i \in Cell(ReplyMax) |-> IF i <= n THEN job.call ELSE win[i]]
    BY <1>14 DEF CartPaint
  <2>2. \A i \in Cell(ReplyMax) : i <= head'.len => win'[i] = head'.call
    BY <2>1
  <2>3. head'.call = job.call /\ job'.call = job.call /\ job'.seq = job.seq
    BY <1>14, <2>1 DEF CartPaint, JobType
  <2>4. job' # Idle
    <3>1. job.call \in CallIds
      BY <1>14 DEF CartPaint, StagingInv
    <3>2. QED
      BY <2>3, <3>1 DEF CallIds
  <2>5. QED
    BY <1>14, <2>2, <2>3, <2>4 DEF CartPaint
<1>15. CASE CartAck
  BY <1>15 DEF CartAck
<1>16. CASE UNCHANGED vars
  BY <1>16 DEF vars
<1>17. QED
  BY <1>1, <1>2, <1>3, <1>4, <1>5, <1>6, <1>7, <1>8, <1>9, <1>10, <1>11, <1>12,
     <1>13, <1>14, <1>15, <1>16 DEF Next, Console, Cart

(* The inductive invariant holds in every reachable state. *)
THEOREM Invariant == Spec => []IInv
<1>1. IInv /\ [Next]_vars => IInv'
  BY TypeStep, StagingStep, CopyStep, QuietStep DEF IInv
<1>2. QED
  BY InitInv, <1>1, PTL DEF Spec

(* Every variable keeps its type; in particular the reply length stays     *)
(* within the reply window (the FN_REPLY_MAX clamp of fuji_bus_call).      *)
THEOREM TypeCorrect == Spec => []TypeOK
<1>1. IInv => TypeOK
  BY DEF IInv
<1>2. QED
  BY Invariant, <1>1, PTL

(* A TRUE return of a quiet call was decided by that call's own answer.    *)
THEOREM OwnReplyCorrect == Spec => []OwnReply
<1>1. IInv => OwnReply
  BY DEF IInv
<1>2. QED
  BY Invariant, <1>1, PTL

(* The cart latches whole commands only, RESETs notwithstanding.           *)
THEOREM CommandWholeCorrect == Spec => []CommandWhole
<1>1. IInv => CommandWhole
  BY DEF IInv
<1>2. QED
  BY Invariant, <1>1, PTL

(* The reply copy stays inside the caller's buffer.                        *)
THEOREM ReplyFitsCorrect == Spec => []ReplyFits
<1>1. IInv => ReplyFits
  BY DEF IInv
<1>2. QED
  BY Invariant, <1>1, PTL

-----------------------------------------------------------------------------
(* A cart that misses no write *)

(* The sequence a call commits is never the one that means no command.     *)
AnsweredInv ==
  /\ pc \in {"commit", "poll"} => want # 0
  /\ QuietCallIsAnswered

(* A quiet call's command is latched, then worked on, then acknowledged    *)
(* with its own sequence.                                                  *)
LEMMA AnsweredStep ==
  ASSUME ~CartMisses
  PROVE  IInv /\ AnsweredInv /\ [Next]_vars => AnsweredInv'
<1> SUFFICES ASSUME IInv, AnsweredInv, [Next]_vars PROVE AnsweredInv'
  OBVIOUS
<1> USE ConstantTypes
    DEF IInv, TypeOK, AnsweredInv, QuietCallIsAnswered, At, Goto, console, cart
<1>1. CASE Call \/ Check \/ Rewind \/ SetRegs \/ Params \/ Payload
  BY <1>1 DEF Call, Check, Rewind, SetRegs, Params, Payload, Return
<1>2. CASE ReadSeq
  BY <1>2, SeqType DEF ReadSeq
<1>3. CASE Commit
  <2>1. quiet => post' # Idle
    <3>1. post'.seq = want
      BY <1>3 DEF Commit
    <3>2. QED
      BY <1>3, <3>1 DEF Commit, Idle
  <2>2. QED
    BY <1>3, <2>1 DEF Commit
<1>4. CASE Poll \/ Timeout
  BY <1>4 DEF Poll, Timeout, Return
<1>5. CASE ReadErr \/ ReadAck \/ ReadLen \/ Copy \/ Done
  BY <1>5 DEF ReadErr, ReadAck, ReadLen, Copy, Done, Return
<1>6. CASE Reset
  BY <1>6 DEF Reset
<1>7. CASE CartStart
  BY <1>7 DEF CartStart
<1>8. CASE CartMiss
  <2>1. post.seq = 0
    BY <1>8 DEF CartMiss
  <2>2. ~(quiet /\ At("poll"))
    BY <1>8, <2>1 DEF CartMiss, QuietInv
  <2>3. QED
    BY <1>8, <2>2 DEF CartMiss
<1>9. CASE CartPaint
  <2>1. job' # Idle
    BY <1>9 DEF CartPaint, Idle
  <2>2. QED
    BY <1>9, <2>1 DEF CartPaint
<1>10. CASE CartAck
  BY <1>10 DEF CartAck, QuietInv
<1>11. CASE UNCHANGED vars
  BY <1>11 DEF vars
<1>12. QED
  BY <1>1, <1>2, <1>3, <1>4, <1>5, <1>6, <1>7, <1>8, <1>9, <1>10, <1>11
     DEF Next, Console, Cart

(* No call that found the cart idle is left without an answer by a cart    *)
(* that misses no write, RESETs and wraps of the sequence notwithstanding. *)
THEOREM QuietCallIsAnsweredCorrect ==
  ASSUME ~CartMisses
  PROVE  Spec => []QuietCallIsAnswered
<1>1. Init => AnsweredInv
  BY DEF Init, AnsweredInv, QuietCallIsAnswered, At
<1>2. IInv /\ AnsweredInv /\ [Next]_vars => AnsweredInv'
  BY AnsweredStep
<1>3. AnsweredInv => QuietCallIsAnswered
  BY DEF AnsweredInv
<1>4. QED
  BY Invariant, <1>1, <1>2, <1>3, PTL DEF Spec

-----------------------------------------------------------------------------
(* The mailbox as a bus call *)

(* Every step keeps the count of commands started, when there are no RESETs  *)
(* and the budget outlasts the cart.                                       *)
LEMMA OnceStep ==
  ASSUME MaxResets = 0, BudgetOutlasts
  PROVE  IInv /\ OnceInv /\ [Next]_vars => OnceInv'
<1> SUFFICES ASSUME IInv, OnceInv, [Next]_vars PROVE OnceInv'
  OBVIOUS
<1> USE ConstantTypes
    DEF IInv, TypeOK, OnceInv, At, Goto, console, cart, Staging, Answering
<1>1. CASE Call
  BY <1>1 DEF Call, Ids, CallIds
<1>2. CASE Check \/ Rewind \/ SetRegs \/ Params \/ Payload
  BY <1>2 DEF Check, Rewind, SetRegs, Params, Payload, Return
<1>3. CASE ReadSeq
  BY <1>3 DEF ReadSeq
<1>4. CASE Commit
  BY <1>4 DEF Commit, QuietInv
<1>5. CASE Poll
  BY <1>5 DEF Poll, QuietInv
<1>6. CASE Timeout
  BY <1>6 DEF Timeout, BudgetSpent, Return
<1>7. CASE ReadErr \/ ReadAck \/ ReadLen \/ Copy \/ Done
  BY <1>7 DEF ReadErr, ReadAck, ReadLen, Copy, Done, Return
<1>8. CASE Reset
  BY <1>8 DEF Reset
<1>9. CASE CartStart
  <2>1. At("poll") /\ post.call = cur /\ cur \in CallIds /\ ackseq # want
    BY <1>9 DEF CartStart, QuietInv, StagingInv
  <2>2. runs' = [runs EXCEPT ![cur] = 1]
    BY <1>9, <2>1 DEF CartStart
  <2>3. runs'[cur] = 1 /\ \A c \in CallIds : c > cur => runs'[c] = 0
    BY <2>1, <2>2 DEF CallIds
  <2>4. QED
    BY <1>9, <2>1, <2>3 DEF CartStart
<1>10. CASE CartMiss
  BY <1>10 DEF CartMiss
<1>11. CASE CartPaint
  BY <1>11 DEF CartPaint
<1>12. CASE CartAck
  BY <1>12 DEF CartAck, QuietInv
<1>13. CASE UNCHANGED vars
  BY <1>13 DEF vars
<1>14. QED
  BY <1>1, <1>2, <1>3, <1>4, <1>5, <1>6, <1>7, <1>8, <1>9, <1>10, <1>11, <1>12,
     <1>13 DEF Next, Console, Cart

(* Every step of the mailbox is a step of the bus call or leaves it alone. *)
LEMMA RefinementStep ==
  ASSUME MaxResets = 0, BudgetOutlasts
  PROVE  IInv /\ OnceInv /\ OwnReply' /\ [Next]_vars
           => [Abstract!BusNext]_(Abstract!busVars)
<1> SUFFICES ASSUME IInv, OnceInv, OwnReply', [Next]_vars
             PROVE  Abstract!BusNext \/ UNCHANGED Abstract!busVars
  OBVIOUS
<1> USE ConstantTypes DEF IInv, TypeOK, At, Goto, console, cart, Abstract!busVars
<1>1. CASE Call
  <2>1. Abstract!Begin
    BY <1>1 DEF Call, Abstract!Begin
  <2>2. QED
    BY <2>1 DEF Abstract!BusNext
<1>2. CASE Check \/ Timeout \/ ReadErr \/ ReadAck
  <2>1. UNCHANGED <<runs, cur>>
    BY <1>2 DEF Check, Timeout, ReadErr, ReadAck
  <2>2. CASE pc' = "idle"
    <3>1. pc # "idle" /\ outcome' = [NoOutcome EXCEPT !.call = cur]
      BY <1>2, <2>2, Zenon DEF Check, Timeout, ReadErr, ReadAck, Return
    <3>2. Abstract!NoOutcome = NoOutcome
      BY DEF Abstract!NoOutcome, NoOutcome
    <3>3. Abstract!Fail
      BY <2>1, <2>2, <3>1, <3>2 DEF Abstract!Fail
    <3>4. QED
      BY <3>3 DEF Abstract!BusNext
  <2>3. CASE pc' # "idle"
    BY <1>2, <2>1, <2>3, Zenon DEF Check, Timeout, ReadErr, ReadAck, Return
  <2>4. QED
    BY <2>2, <2>3
<1>3. CASE \/ Rewind \/ SetRegs \/ Params \/ Payload \/ ReadSeq \/ Commit
           \/ Poll \/ Copy
  BY <1>3 DEF Rewind, SetRegs, Params, Payload, ReadSeq, Commit, Poll, Copy
<1>4. CASE ReadLen
  BY <1>4 DEF ReadLen
<1>5. CASE Done
  <2>1. outcome' = [call |-> cur, ok |-> TRUE, seen |-> seen] /\ pc' = "idle"
    BY <1>5 DEF Done, Return
  <2>2. quiet /\ runs[cur] = 1 /\ quiet' = quiet /\ cur' = cur /\ runs' = runs
    BY <1>5 DEF Done, OnceInv, Answering
  <2>3. outcome'.seen = {cur}
    BY <2>1, <2>2 DEF OwnReply
  <2>4. outcome' = [call |-> cur, ok |-> TRUE, seen |-> {cur}]
    BY <2>1, <2>3
  <2>5. Abstract!Succeed
    BY <1>5, <2>1, <2>2, <2>4 DEF Done, Abstract!Succeed
  <2>6. QED
    BY <2>5 DEF Abstract!BusNext
<1>6. CASE Reset
  BY <1>6 DEF Reset
<1>7. CASE CartStart
  <2>1. At("poll") /\ post.call = cur /\ cur \in CallIds /\ runs[cur] = 0
    BY <1>7 DEF CartStart, OnceInv, QuietInv, StagingInv
  <2>2. runs' = [runs EXCEPT ![cur] = 1]
    BY <1>7, <2>1 DEF CartStart
  <2>3. Abstract!Serve
    <3>1. cur \in 1..cur
      BY <2>1 DEF CallIds
    <3>2. \E c \in 1..cur : runs[c] = 0 /\ runs' = [runs EXCEPT ![c] = 1]
      BY <2>1, <2>2, <3>1
    <3>3. UNCHANGED <<pc, cur, outcome>>
      BY <1>7 DEF CartStart
    <3>4. QED
      BY <3>2, <3>3 DEF Abstract!Serve
  <2>4. QED
    BY <2>3 DEF Abstract!BusNext
<1>8. CASE CartMiss \/ CartPaint \/ CartAck
  BY <1>8 DEF CartMiss, CartPaint, CartAck
<1>9. CASE UNCHANGED vars
  BY <1>9 DEF vars
<1>10. QED
  BY <1>1, <1>2, <1>3, <1>4, <1>5, <1>6, <1>7, <1>8, <1>9 DEF Next, Console, Cart

(* Without RESETs, and with a budget that outlasts the cart, the mailbox   *)
(* implements the abstract bus call: each call is carried out at most once *)
(* and returns TRUE only after it was, with its own answer.                *)
THEOREM Refinement ==
  ASSUME MaxResets = 0, BudgetOutlasts
  PROVE  Spec => ImplementsBusCall
<1>1. Init => Abstract!BusInit
  BY DEF Init, Abstract!BusInit, At, NoOutcome, Abstract!NoOutcome,
         CallIds, Abstract!CallIds
<1>2. Init => OnceInv
  BY DEF Init, OnceInv, At, Answering, Staging, CallIds
<1>3. IInv /\ OnceInv /\ [Next]_vars => OnceInv'
  BY OnceStep
<1>4. IInv /\ OnceInv /\ OwnReply' /\ [Next]_vars
        => [Abstract!BusNext]_(Abstract!busVars)
  BY RefinementStep
<1>5. QED
  BY <1>1, <1>2, <1>3, <1>4, Invariant, OwnReplyCorrect, PTL
  DEF Spec, ImplementsBusCall, Abstract!BusSpec
=============================================================================
