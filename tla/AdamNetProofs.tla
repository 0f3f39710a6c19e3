--------------------------- MODULE AdamNetProofs ---------------------------
(***************************************************************************)
(* Theorems about AdamNet, for any calls, any numbers of retries, any      *)
(* packet size, and a wire on which any number of transactions go wrong.   *)
(***************************************************************************)
EXTENDS AdamNet, TLAPS

USE AdamNetAssumption DEF AdamNetAssumption

(* The three shapes of the FujiNet's idleness are of the types of job,     *)
(* reply and status, and a delivered command is a job.                     *)
LEMMA Constants ==
  /\ NoJob \in [call : Ids, kind : Kinds, len : Nat] /\ NoJob.call = 0
  /\ NoReply \in [call : Ids, len : Nat] /\ NoReply.call = 0 /\ NoReply.len = 0
  /\ NoStatus \in [call : Ids, failed : BOOLEAN] /\ ~NoStatus.failed /\ NoStatus.call = 0
  /\ NoRequest \in RequestType
  /\ CallIds \subseteq Ids /\ CallIds \subseteq Nat /\ 0 \in Ids /\ 0 \notin CallIds
BY DEF NoJob, NoReply, NoStatus, NoRequest, Ids, CallIds, Kinds, RequestType

(* Idle, nothing delivered, nothing posted. *)
LEMMA InitInv == Init => IInv
<1> SUFFICES ASSUME Init PROVE IInv
  OBVIOUS
<1>1. outcome \in [call : Ids, ok : BOOLEAN, seen : SUBSET Ids] /\ ~outcome.ok
  <2>1. 0 \in Ids /\ {} \in SUBSET Ids
    BY Constants
  <2>2. outcome = [call |-> 0, ok |-> FALSE, seen |-> {}]
    BY DEF Init, NoOutcome
  <2>3. QED
    BY <2>1, <2>2
<1>2. TypeOK
  <2>1. runs \in [CallIds -> Nat]
    BY DEF Init
  <2>2. landed \in 0..req.len /\ hits \in 0..MaxHits
    BY DEF Init, NoRequest
  <2>3. QED
    BY <1>1, <2>1, <2>2, Constants DEF Init, TypeOK
<1>3. PostInv /\ OwnAnswer
  BY <1>1 DEF Init, PostInv, OwnAnswer, At
<1>4. QED
  BY <1>2, <1>3 DEF IInv

(* What a call may return keeps the type of outcome. *)
LEMMA ReturnType ==
  ASSUME TypeOK, NEW ok \in BOOLEAN, NEW owner \in Ids, Return(ok, owner)
  PROVE  /\ pc' = "idle"
         /\ outcome' \in [call : Ids, ok : BOOLEAN, seen : SUBSET Ids]
         /\ outcome'.ok = ok
         /\ ok => outcome'.seen = {owner}
<1>1. CASE ok
  BY <1>1 DEF Return, Goto, TypeOK
<1>2. CASE ~ok
  <2>1. outcome' = [call |-> cur, ok |-> FALSE, seen |-> {}]
    BY <1>2 DEF Return, NoOutcome
  <2>2. cur \in Ids /\ {} \in SUBSET Ids
    BY DEF TypeOK
  <2>3. outcome' \in [call : Ids, ok : BOOLEAN, seen : SUBSET Ids] /\ outcome'.ok = FALSE
    BY <2>1, <2>2
  <2>4. ok = FALSE
    BY <1>2
  <2>5. pc' = "idle"
    BY DEF Return, Goto
  <2>6. QED
    BY <1>2, <2>3, <2>4, <2>5
<1>3. QED
  BY <1>1, <1>2

(* A call that fails goes idle without success, or waits for its copy.     *)
LEMMA FailType ==
  ASSUME TypeOK, Fail
  PROVE  /\ tries' = tries
         /\ outcome' \in [call : Ids, ok : BOOLEAN, seen : SUBSET Ids]
         /\ \/ pc' = "idle" /\ ~outcome'.ok
            \/ pc' = "wait" /\ req.kind = "copy" /\ outcome' = outcome
<1>1. CASE req.kind = "copy"
  BY <1>1 DEF Fail, Goto, TypeOK
<1>2. CASE req.kind # "copy"
  <2>1. Return(FALSE, 0)
    BY <1>2 DEF Fail
  <2>2. QED
    BY <1>2, <2>1, ReturnType, Constants DEF Fail
<1>3. QED
  BY <1>1, <1>2

(* A posting that is repeated leaves the call where it is, with at least   *)
(* one posting left.                                                       *)
LEMMA AgainType ==
  ASSUME TypeOK, Again, tries > 0
  PROVE  /\ tries' \in Nat
         /\ outcome' \in [call : Ids, ok : BOOLEAN, seen : SUBSET Ids]
         /\ \/ pc' = "idle" /\ ~outcome'.ok
            \/ pc' = "wait" /\ req.kind = "copy" /\ outcome' = outcome
            \/ pc' = pc /\ tries' > 0 /\ outcome' = outcome
<1>1. tries \in Nat
  BY DEF TypeOK
<1>2. CASE Spend = 0
  BY <1>1, <1>2, FailType DEF Again
<1>3. CASE Spend # 0
  BY <1>1, <1>3 DEF Again, Spend, TypeOK
<1>4. QED
  BY <1>2, <1>3

(* What a delivered command leaves at the FujiNet. *)
LEMMA DeliveredType ==
  ASSUME TypeOK, cur \in CallIds, req \in Requests, Delivered
  PROVE  /\ job' \in [call : Ids, kind : Kinds, len : Nat]
         /\ job' # NoJob /\ job'.call = cur /\ job'.kind = req.kind /\ job'.len = req.len
         /\ reply' \in [call : Ids, len : Nat]
         /\ status' \in [call : Ids, failed : BOOLEAN]
<1>1. job'.call = cur /\ cur # 0
  BY Constants DEF Delivered
<1>2. job' # NoJob
  BY <1>1, Constants
<1>3. req.kind \in Kinds /\ req.len \in Nat
  BY DEF RequestType
<1>4. QED
  BY <1>2, <1>3, Constants DEF Delivered

-----------------------------------------------------------------------------
(* Every step keeps the types; a reply lands inside the caller's buffer.    *)
LEMMA TypeStep == TypeOK /\ PostInv /\ [Next]_vars => TypeOK'
<1> SUFFICES ASSUME TypeOK, PostInv, [Next]_vars PROVE TypeOK'
  OBVIOUS
<1> USE DEF At, Goto
<1>1. CASE Call
  <2>1. PICK r \in Requests : req' = r /\ Goto(IF r.kind = "copy" THEN "stat" ELSE "check")
    BY <1>1 DEF Call
  <2>2. r.len \in Nat /\ cur' \in Ids
    BY <1>1, <2>1 DEF Call, TypeOK, Ids, RequestType
  <2>3. QED
    BY <1>1, <2>1, <2>2 DEF Call, TypeOK, far
<1>2. CASE Check
  <2>1. /\ tries' \in Nat /\ (pc' = "write" => tries' > 0) /\ pc' \in {"idle", "write"}
        /\ outcome' \in [call : Ids, ok : BOOLEAN, seen : SUBSET Ids]
    <3>1. CASE req.sendable
      BY <1>2, <3>1 DEF Check, Post, TypeOK
    <3>2. CASE ~req.sendable
      <4>1. Return(FALSE, 0) /\ tries' = tries
        BY <1>2, <3>2 DEF Check
      <4>2. QED
        BY <4>1, ReturnType, Constants DEF TypeOK
    <3>3. QED
      BY <3>1, <3>2
  <2>2. QED
    BY <1>2, <2>1 DEF Check, TypeOK, far
<1>3. CASE Stat
  BY <1>3, Constants DEF Stat, Post, TypeOK
<1>4. CASE StatFails
  <2>1. Return(FALSE, 0)
    BY <1>4 DEF StatFails
  <2>2. QED
    BY <1>4, <2>1, ReturnType, Constants DEF StatFails, TypeOK, far
<1>5. CASE WriteFinish
  <2>1. cur \in CallIds /\ req \in Requests
    BY <1>5 DEF WriteFinish, PostInv
  <2>2. /\ tries' \in Nat /\ (pc' \in {"write", "ready", "read"} => tries' > 0)
        /\ pc' \in {"idle", "ready", "read"}
        /\ outcome' \in [call : Ids, ok : BOOLEAN, seen : SUBSET Ids]
    <3>1. CASE req.kind = "reset"
      <4>1. Return(TRUE, cur) /\ tries' = tries
        BY <1>5, <3>1 DEF WriteFinish, AfterWrite
      <4>2. QED
        BY <4>1, ReturnType DEF TypeOK
    <3>2. CASE req.kind # "reset"
      BY <1>5, <3>2 DEF WriteFinish, AfterWrite, Post, TypeOK
    <3>3. QED
      BY <3>1, <3>2
  <2>3. QED
    BY <1>5, <2>1, <2>2, DeliveredType DEF WriteFinish, TypeOK
<1>6. CASE WriteTimeout
  <2>1. cur \in CallIds /\ req \in Requests /\ tries > 0
    BY <1>6 DEF WriteTimeout, PostInv, TypeOK
  <2>2. /\ tries' \in Nat /\ (pc' \in {"write", "ready", "read"} => tries' > 0)
        /\ pc' \in {"idle", "write", "wait"}
        /\ outcome' \in [call : Ids, ok : BOOLEAN, seen : SUBSET Ids]
    BY <1>6, <2>1, AgainType DEF WriteTimeout, NotDelivered
  <2>3. hits' \in 0..MaxHits
    BY <1>6 DEF WriteTimeout, Silent, Hit, TypeOK
  <2>4. CASE UNCHANGED <<job, reply, status>>
    BY <1>6, <2>2, <2>3, <2>4 DEF WriteTimeout, TypeOK
  <2>5. CASE Delivered
    BY <1>6, <2>1, <2>2, <2>3, <2>5, DeliveredType DEF WriteTimeout, TypeOK
  <2>6. QED
    BY <1>6, <2>4, <2>5 DEF WriteTimeout
<1>7. ASSUME Fail, Hit, UNCHANGED <<cur, req, seconds, landed, job, reply, status, runs>>
      PROVE  TypeOK'
  <2>1. hits' \in 0..MaxHits
    BY <1>7 DEF Hit, TypeOK
  <2>2. QED
    BY <1>7, <2>1, FailType DEF TypeOK
<1>8. ASSUME Again, Silent, pc \in {"ready", "read"},
             UNCHANGED <<cur, req, seconds, landed, job, reply, status, runs>>
      PROVE  TypeOK'
  <2>1. hits' \in 0..MaxHits
    BY <1>8 DEF Silent, Hit, TypeOK
  <2>2. tries > 0
    BY <1>8 DEF TypeOK
  <2>3. QED
    BY <1>8, <2>1, <2>2, AgainType DEF TypeOK
<1>9. CASE ReadyFinish
  <2>1. CASE status.failed
    BY <1>9, <2>1, FailType DEF ReadyFinish, TypeOK, far
  <2>2. CASE ~status.failed /\ req.kind \in ReadsAfter
    BY <1>9, <2>2 DEF ReadyFinish, Post, TypeOK, far
  <2>3. CASE ~status.failed /\ req.kind \notin ReadsAfter
    <3>1. Return(TRUE, status.call) /\ tries' = tries /\ status.call \in Ids
      BY <1>9, <2>3 DEF ReadyFinish, TypeOK
    <3>2. QED
      BY <1>9, <3>1, ReturnType DEF ReadyFinish, TypeOK, far
  <2>4. QED
    BY <2>1, <2>2, <2>3
<1>10. CASE ReadFinish
  <2>1. ReplyInv /\ req \in Requests /\ job = NoJob /\ req.len \in Nat
    BY <1>10 DEF ReadFinish, PostInv, RequestType
  <2>2. Land(reply.len, req) \in 0..req.len
    <3>1. reply.len \in Nat
      BY DEF TypeOK
    <3>2. CASE req.kind = "read"
      BY <2>1, <3>1, <3>2 DEF ReplyInv, ReplyLens, Land, Lesser
    <3>3. CASE req.kind = "key"
      BY <2>1, <3>1, <3>3 DEF ReplyInv, ReplyLens, Land
    <3>4. CASE req.kind = "scan"
      BY <2>1, <3>1, <3>4 DEF ReplyInv, ReplyLens, Land
    <3>5. CASE req.kind = "query"
      BY <2>1, <3>1, <3>5 DEF ReplyInv, ReplyLens, Land
    <3>6. QED
      BY <2>1, <3>2, <3>3, <3>4, <3>5 DEF ReplyInv, ReadsAfter
  <2>3. Return(TRUE, reply.call) /\ reply.call \in Ids
    BY <1>10 DEF ReadFinish, TypeOK
  <2>4. QED
    BY <1>10, <2>2, <2>3, ReturnType DEF ReadFinish, TypeOK, far
<1>11. CASE ReadNak
  <2>1. Return(req.kind = "key", status.call) /\ status.call \in Ids
    BY <1>11 DEF ReadNak, TypeOK
  <2>2. QED
    BY <1>11, <2>1, ReturnType DEF ReadNak, TypeOK, far
<1>12. CASE WaitFinish
  <2>1. Return(~status.failed, status.call) /\ status.call \in Ids
    BY <1>12 DEF WaitFinish, TypeOK
  <2>2. QED
    BY <1>12, <2>1, ReturnType DEF WaitFinish, TypeOK, far
<1>13. CASE WaitTimeout
  <2>1. hits' \in 0..MaxHits /\ seconds' \in Nat
    BY <1>13 DEF WaitTimeout, Silent, Hit, TypeOK
  <2>2. QED
    BY <1>13, <2>1 DEF WaitTimeout, TypeOK
<1>14. CASE WaitOver
  <2>1. Return(FALSE, 0)
    BY <1>14 DEF WaitOver
  <2>2. QED
    BY <1>14, <2>1, ReturnType, Constants DEF WaitOver, TypeOK, far
<1>15. CASE Serve
  <2>1. job.call \in CallIds /\ runs[job.call] \in Nat
    BY <1>15 DEF Serve, TypeOK
  <2>2. PICK f \in BOOLEAN, n \in ReplyLens(job) :
          /\ status' = [call |-> job.call, failed |-> f]
          /\ reply' = [call |-> job.call, len |-> IF f THEN 0 ELSE n]
    BY <1>15 DEF Serve
  <2>3. n \in Nat
    <3>1. job.len \in Nat
      BY DEF TypeOK
    <3>2. QED
      BY <3>1 DEF ReplyLens
  <2>4. /\ status' \in [call : Ids, failed : BOOLEAN]
        /\ reply' \in [call : Ids, len : Nat]
    BY <2>1, <2>2, <2>3, Constants
  <2>5. runs' \in [CallIds -> Nat]
    BY <1>15, <2>1 DEF Serve, TypeOK
  <2>6. QED
    BY <1>15, <2>4, <2>5, Constants DEF Serve, TypeOK, client
<1>16. CASE UNCHANGED vars
  BY <1>16 DEF vars, client, far, TypeOK
<1>17. QED
  BY <1>1, <1>2, <1>3, <1>4, <1>5, <1>6, <1>7, <1>8, <1>9, <1>10, <1>11, <1>12,
     <1>13, <1>14, <1>15, <1>16
     DEF Next, Client, WriteError, ReadError, ReadyTimeout, ReadTimeout

-----------------------------------------------------------------------------
(* Who the FujiNet works for, step by step. *)

(* A delivered command is this call's. *)
LEMMA DeliveredMine ==
  ASSUME TypeOK, cur \in CallIds, req \in Requests, Delivered, UNCHANGED <<cur, req, runs>>
  PROVE  Mine'
BY DeliveredType DEF Mine

(* While a call waits for what it delivered, nothing but the FujiNet       *)
(* changes what the FujiNet does; and that keeps the command the call's.   *)
LEMMA ServeMine ==
  ASSUME TypeOK, Serve, Mine
  PROVE  Mine'
<1>1. /\ job # NoJob /\ job' = NoJob /\ job.call = cur
      /\ runs' = [runs EXCEPT ![job.call] = @ + 1]
      /\ status'.call = job.call /\ reply'.call = job.call
      /\ cur' = cur /\ req' = req
  BY DEF Serve, Mine, client
<1>2. cur \in CallIds /\ runs[cur] \in Nat
  BY DEF Mine, TypeOK
<1>3. runs'[cur] = runs[cur] + 1
  BY <1>1, <1>2 DEF TypeOK
<1>4. QED
  BY <1>1, <1>2, <1>3 DEF Mine

(* Every step keeps what is known of the command that was posted.          *)
LEMMA PostStep == TypeOK /\ PostInv /\ [Next]_vars => PostInv'
<1> SUFFICES ASSUME TypeOK, PostInv, [Next]_vars PROVE PostInv'
  OBVIOUS
<1> USE DEF At, Goto
<1>1. CASE Call
  <2>1. PICK r \in Requests : req' = r /\ Goto(IF r.kind = "copy" THEN "stat" ELSE "check")
    BY <1>1 DEF Call
  <2>2. cur' \in CallIds
    BY <1>1 DEF Call, TypeOK, Ids, CallIds
  <2>3. QED
    BY <1>1, <2>1, <2>2 DEF Call, PostInv
<1>2. CASE Check
  <2>1. CASE req.sendable
    <3>1. req.kind # "copy"
      BY <1>2 DEF Check, PostInv
    <3>2. QED
      BY <1>2, <2>1, <3>1 DEF Check, Post, PostInv
  <2>2. CASE ~req.sendable
    BY <1>2, <2>2 DEF Check, Return, PostInv
  <2>3. QED
    BY <2>1, <2>2
<1>3. CASE Stat
  BY <1>3 DEF Stat, Post, PostInv
<1>4. CASE StatFails \/ WaitOver \/ ReadFinish \/ ReadNak \/ WaitFinish
  <2>1. pc' = "idle"
    BY <1>4 DEF StatFails, WaitOver, ReadFinish, ReadNak, WaitFinish, Return
  <2>2. QED
    BY <2>1 DEF PostInv
<1>5. CASE WriteFinish
  <2>1. cur \in CallIds /\ req \in Requests /\ req.kind \in Kinds /\ landed = 0
    BY <1>5 DEF WriteFinish, PostInv, RequestType
  <2>2. Mine' /\ job' # NoJob
    BY <1>5, <2>1, DeliveredMine, DeliveredType DEF WriteFinish
  <2>3. UNCHANGED <<cur, req, landed>>
    BY <1>5 DEF WriteFinish
  <2>4. \/ pc' = "idle"
        \/ pc' = "read" /\ req.kind \in {"read", "key"}
        \/ pc' = "ready" /\ req.kind \in {"send", "copy"} \cup ReadsAfter
    BY <1>5, <2>1 DEF WriteFinish, AfterWrite, Post, Return, Kinds, ReadsAfter
  <2>5. QED
    BY <2>1, <2>2, <2>3, <2>4 DEF PostInv, ReplyInv, ReadsAfter
<1>6. CASE WriteTimeout
  <2>1. cur \in CallIds /\ req \in Requests /\ landed = 0 /\ tries > 0
    BY <1>6 DEF WriteTimeout, PostInv, TypeOK
  <2>2. \/ pc' = "idle"
        \/ pc' = "wait" /\ req.kind = "copy"
        \/ pc' = "write"
    BY <1>6, <2>1, AgainType DEF WriteTimeout, NotDelivered
  <2>3. UNCHANGED <<cur, req, landed>>
    BY <1>6 DEF WriteTimeout
  <2>4. req.kind = "copy" => hits' # 0
    BY <1>6 DEF WriteTimeout, Silent, Hit, PostInv, TypeOK
  <2>5. QED
    BY <2>1, <2>2, <2>3, <2>4 DEF PostInv
<1>7. CASE WriteError \/ ReadError
  <2>1. pc' = "idle" \/ (pc' = "wait" /\ req.kind = "copy")
    BY <1>7, FailType DEF WriteError, ReadError
  <2>2. hits' # 0 /\ UNCHANGED <<cur, req, landed>> /\ pc # "idle"
    BY <1>7 DEF WriteError, ReadError, Hit, TypeOK
  <2>3. QED
    BY <2>1, <2>2 DEF PostInv
<1>8. CASE ReadyTimeout \/ ReadTimeout
  <2>1. /\ pc \in {"ready", "read"} /\ tries > 0
        /\ UNCHANGED <<cur, req, landed, job, reply, status, runs>>
    BY <1>8 DEF ReadyTimeout, ReadTimeout, TypeOK
  <2>2. pc' = "idle" \/ (pc' = "wait" /\ req.kind = "copy") \/ pc' = pc
    BY <1>8, <2>1, AgainType DEF ReadyTimeout, ReadTimeout
  <2>3. Mine /\ Mine'
    BY <2>1 DEF PostInv, Mine
  <2>4. pc = "read" => ReplyInv'
    BY <2>1 DEF PostInv, ReplyInv, ReplyLens
  <2>5. QED
    BY <2>1, <2>2, <2>3, <2>4 DEF PostInv
<1>9. CASE ReadyFinish
  <2>1. UNCHANGED <<cur, req, landed, job, reply, status, runs, hits>> /\ job = NoJob
    BY <1>9 DEF ReadyFinish, far
  <2>2. Mine /\ Mine' /\ pc = "ready"
    BY <1>9, <2>1 DEF ReadyFinish, PostInv, Mine
  <2>3. CASE status.failed
    <3>1. pc' = "idle" \/ (pc' = "wait" /\ req.kind = "copy")
      BY <1>9, <2>3, FailType DEF ReadyFinish
    <3>2. QED
      BY <2>1, <2>2, <3>1 DEF PostInv
  <2>4. CASE ~status.failed /\ req.kind \in ReadsAfter
    <3>1. pc' = "read"
      BY <1>9, <2>4 DEF ReadyFinish, Post
    <3>2. reply.len \in ReplyLens(req) /\ ReplyLens(req)' = ReplyLens(req)
      BY <2>1, <2>2, <2>4 DEF PostInv, ReplyLens
    <3>3. ReplyInv'
      BY <2>1, <2>4, <3>2 DEF ReplyInv
    <3>4. QED
      BY <2>1, <2>2, <2>4, <3>1, <3>3 DEF PostInv
  <2>5. CASE ~status.failed /\ req.kind \notin ReadsAfter
    BY <1>9, <2>5 DEF ReadyFinish, Return, PostInv
  <2>6. QED
    BY <2>3, <2>4, <2>5
<1>10. CASE WaitTimeout
  <2>1. UNCHANGED <<pc, cur, req, landed, job, reply, status, runs>> /\ pc = "wait"
    BY <1>10 DEF WaitTimeout
  <2>2. hits' = 0 => hits = 0
    BY <1>10 DEF WaitTimeout, Silent, Hit, TypeOK
  <2>3. QED
    BY <2>1, <2>2 DEF PostInv, Mine
<1>11. CASE Serve
  <2>1. UNCHANGED <<pc, cur, req, landed, hits>> /\ job # NoJob /\ job' = NoJob
    BY <1>11 DEF Serve, client
  <2>2. Mine => Mine'
    BY <1>11, ServeMine
  <2>3. PICK f \in BOOLEAN, n \in ReplyLens(job) :
          /\ status' = [call |-> job.call, failed |-> f]
          /\ reply' = [call |-> job.call, len |-> IF f THEN 0 ELSE n]
    BY <1>11 DEF Serve
  <2>4. Mine => ReplyLens(job) = ReplyLens(req)
    BY <2>1 DEF Mine, ReplyLens
  <2>5. ASSUME pc = "read" PROVE ReplyInv'
    <3>1. n \in ReplyLens(req) /\ req.kind \in {"read", "key"} \cup ReadsAfter
      BY <2>3, <2>4, <2>5 DEF PostInv, ReplyInv
    <3>2. reply'.len = (IF f THEN 0 ELSE n) /\ status'.failed = f
      BY <2>3
    <3>3. reply'.len \in ReplyLens(req) \cup {0} /\ (reply'.len > 0 => ~status'.failed)
      BY <3>1, <3>2
    <3>4. ReplyLens(req)' = ReplyLens(req)
      BY <2>1 DEF ReplyLens
    <3>5. QED
      BY <2>1, <3>1, <3>3, <3>4 DEF ReplyInv
  <2>6. pc = "ready" =>
          /\ reply'.len \in IF status'.failed THEN {0} ELSE ReplyLens(req)
          /\ ReplyLens(req)' = ReplyLens(req)
    <3>1. pc = "ready" => n \in ReplyLens(req)
      BY <2>1, <2>3, <2>4 DEF PostInv
    <3>2. ReplyLens(req)' = ReplyLens(req)
      BY <2>1 DEF ReplyLens
    <3>3. QED
      BY <2>3, <3>1, <3>2
  <2>7. QED
    BY <2>1, <2>2, <2>5, <2>6 DEF PostInv
<1>12. CASE UNCHANGED vars
  BY <1>12 DEF vars, client, far, PostInv, Mine, ReplyInv, ReplyLens
<1>13. QED
  BY <1>1, <1>2, <1>3, <1>4, <1>5, <1>6, <1>7, <1>8, <1>9, <1>10, <1>11, <1>12
     DEF Next, Client

-----------------------------------------------------------------------------
(* No step returns TRUE but on the word of this call's own answer.         *)
LEMMA OwnStep == TypeOK /\ PostInv /\ OwnAnswer /\ [Next]_vars => OwnAnswer'
<1> SUFFICES ASSUME TypeOK, PostInv, OwnAnswer, [Next]_vars PROVE OwnAnswer'
  OBVIOUS
<1> USE DEF At, Goto
<1>1. CASE pc' # "idle"
  BY <1>1 DEF OwnAnswer
<1>2. CASE pc' = "idle" /\ ~outcome'.ok
  BY <1>2 DEF OwnAnswer
<1>3. ASSUME Return(TRUE, status.call), Mine, job = NoJob, ~status.failed \/ req.kind = "key",
             UNCHANGED <<cur, req, far>>
      PROVE  OwnAnswer'
  <2>1. outcome'.seen = {status.call} /\ status.call = cur
    BY <1>3 DEF Return, Mine
  <2>2. QED
    BY <1>3, <2>1 DEF OwnAnswer, Mine, far
<1>4. CASE Check \/ StatFails \/ WaitOver \/ WriteError \/ ReadError
  <2>1. pc' # "idle" \/ ~outcome'.ok
    <3>1. CASE Check
      BY <3>1, ReturnType, Constants DEF Check, Post
    <3>2. CASE StatFails \/ WaitOver
      BY <3>2, ReturnType, Constants DEF StatFails, WaitOver
    <3>3. CASE WriteError \/ ReadError
      BY <3>3, FailType DEF WriteError, ReadError
    <3>4. QED
      BY <1>4, <3>1, <3>2, <3>3
  <2>2. QED
    BY <1>1, <1>2, <2>1
<1>5. CASE WriteTimeout \/ ReadyTimeout \/ ReadTimeout
  <2>1. Again /\ tries > 0 /\ pc # "idle"
    BY <1>5 DEF WriteTimeout, NotDelivered, ReadyTimeout, ReadTimeout, TypeOK
  <2>2. pc' # "idle" \/ ~outcome'.ok
    BY <2>1, AgainType
  <2>3. QED
    BY <1>1, <1>2, <2>2
<1>6. CASE Call \/ Stat \/ WaitTimeout
  BY <1>6, <1>1 DEF Call, Stat, Post, WaitTimeout
<1>7. CASE WriteFinish
  <2>1. CASE req.kind = "reset"
    BY <1>7, <2>1 DEF WriteFinish, OwnAnswer
  <2>2. CASE req.kind # "reset"
    BY <1>1, <1>7, <2>2 DEF WriteFinish, AfterWrite, Post
  <2>3. QED
    BY <2>1, <2>2
<1>8. CASE ReadyFinish
  <2>1. Mine /\ UNCHANGED <<cur, req, far>> /\ job = NoJob
    BY <1>8 DEF ReadyFinish, PostInv
  <2>2. CASE status.failed
    BY <1>1, <1>2, <1>8, <2>2, FailType DEF ReadyFinish
  <2>3. CASE ~status.failed /\ req.kind \in ReadsAfter
    BY <1>1, <1>8, <2>3 DEF ReadyFinish, Post
  <2>4. CASE ~status.failed /\ req.kind \notin ReadsAfter
    BY <1>3, <1>8, <2>1, <2>4 DEF ReadyFinish
  <2>5. QED
    BY <2>2, <2>3, <2>4
<1>9. CASE ReadFinish
  <2>1. Mine /\ ReplyInv /\ UNCHANGED <<cur, req, far>> /\ job = NoJob /\ reply.len > 0
    BY <1>9 DEF ReadFinish, PostInv
  <2>2. reply.call = cur /\ status.call = cur /\ ~status.failed
    BY <2>1 DEF Mine, ReplyInv
  <2>3. Return(TRUE, status.call)
    BY <1>9, <2>2 DEF ReadFinish
  <2>4. QED
    BY <1>3, <2>1, <2>2, <2>3
<1>10. CASE ReadNak
  <2>1. Mine /\ UNCHANGED <<cur, req, far>> /\ job = NoJob
    BY <1>10 DEF ReadNak, PostInv
  <2>2. CASE req.kind = "key"
    <3>1. Return(TRUE, status.call)
      BY <1>10, <2>2 DEF ReadNak, Return
    <3>2. QED
      BY <1>3, <2>1, <2>2, <3>1
  <2>3. CASE req.kind # "key"
    <3>1. Return(FALSE, status.call) /\ status.call \in Ids
      BY <1>10, <2>3 DEF ReadNak, Return, TypeOK
    <3>2. QED
      BY <1>2, <3>1, ReturnType
  <2>4. QED
    BY <2>2, <2>3
<1>11. CASE WaitFinish
  <2>1. UNCHANGED <<cur, req, far>> /\ job = NoJob /\ req.kind = "copy" /\ (hits = 0 => Mine)
    BY <1>11 DEF WaitFinish, PostInv
  <2>2. CASE hits # 0
    BY <2>1, <2>2 DEF OwnAnswer, far
  <2>3. CASE status.failed
    <3>1. Return(FALSE, status.call) /\ status.call \in Ids
      BY <1>11, <2>3 DEF WaitFinish, Return, TypeOK
    <3>2. QED
      BY <1>2, <3>1, ReturnType
  <2>4. CASE hits = 0 /\ ~status.failed
    <3>1. Return(TRUE, status.call)
      BY <1>11, <2>4 DEF WaitFinish, Return
    <3>2. QED
      BY <1>3, <2>1, <2>4, <3>1
  <2>5. QED
    BY <2>2, <2>3, <2>4
<1>12. CASE Serve
  BY <1>12 DEF Serve, client, OwnAnswer
<1>13. CASE UNCHANGED vars
  BY <1>13 DEF vars, client, far, OwnAnswer
<1>14. QED
  BY <1>4, <1>5, <1>6, <1>7, <1>8, <1>9, <1>10, <1>11, <1>12, <1>13 DEF Next, Client

-----------------------------------------------------------------------------
(* The inductive invariant of AdamNet. *)
THEOREM Invariant == Spec => []IInv
<1>1. IInv /\ [Next]_vars => IInv'
  BY TypeStep, PostStep, OwnStep DEF IInv
<1>2. QED
  BY InitInv, <1>1, PTL DEF Spec

(* Types, and no byte behind the caller's buffer: for any packet size, any *)
(* buffers and any replies.                                                *)
THEOREM TypeCorrect == Spec => []TypeOK
<1>1. IInv => TypeOK
  BY DEF IInv
<1>2. QED
  BY Invariant, <1>1, PTL

(* A TRUE return is by the call's own reply or failure bit, once it is     *)
(* carried out, whatever was given up before and however much goes wrong.  *)
THEOREM OwnAnswerCorrect == Spec => []OwnAnswer
<1>1. IInv => OwnAnswer
  BY DEF IInv
<1>2. QED
  BY Invariant, <1>1, PTL

-----------------------------------------------------------------------------
(* AdamNet as a bus call *)

(* Calls that are waited for: all but a RESET of the FujiNet. *)
NoReset == \A r \in Requests : r.kind # "reset"

(* A step of the client leaves the FujiNet's count alone, and either goes  *)
(* on, or returns false, or returns true.                                  *)
LEMMA ClientShape ==
  ASSUME TypeOK, Client
  PROVE  /\ pc # "idle" /\ UNCHANGED <<cur, req, runs>>
         /\ \/ pc' # "idle" /\ outcome' = outcome
            \/ pc' = "idle" /\ outcome' = [NoOutcome EXCEPT !.call = cur]
            \/ pc' = "idle" /\ outcome'.ok
               /\ \E c \in Ids : outcome' = [call |-> cur, ok |-> TRUE, seen |-> {c}]
<1> DEFINE GoesOn  == pc' # "idle" /\ outcome' = outcome
           False   == pc' = "idle" /\ outcome' = [NoOutcome EXCEPT !.call = cur]
           True    == pc' = "idle" /\ outcome'.ok
                      /\ \E c \in Ids : outcome' = [call |-> cur, ok |-> TRUE, seen |-> {c}]
           Shape   == GoesOn \/ False \/ True
<1> USE DEF At, Goto
<1>1. ASSUME NEW ok \in BOOLEAN, NEW c \in Ids, Return(ok, c) PROVE Shape
  <2>1. CASE ok
    <3>1. pc' = "idle" /\ outcome' = [call |-> cur, ok |-> TRUE, seen |-> {c}]
      BY <1>1, <2>1 DEF Return
    <3>2. outcome'.ok
      BY <3>1
    <3>3. QED
      BY <3>1, <3>2
  <2>2. CASE ~ok
    BY <1>1, <2>2 DEF Return
  <2>3. QED
    BY <2>1, <2>2
<1>2. ASSUME Fail PROVE Shape
  <2>1. CASE req.kind = "copy"
    BY <1>2, <2>1 DEF Fail
  <2>2. CASE req.kind # "copy"
    BY <1>2, <2>2, <1>1, Constants DEF Fail
  <2>3. QED
    BY <2>1, <2>2
<1>3. ASSUME Again, pc # "idle" PROVE Shape
  <2>1. CASE Spend = 0
    BY <1>2, <1>3, <2>1 DEF Again
  <2>2. CASE Spend # 0
    BY <1>3, <2>2 DEF Again
  <2>3. QED
    BY <2>1, <2>2
<1>4. ASSUME NEW l \in {"write", "ready", "read"}, NEW n \in Nat, Post(l, n) PROVE Shape
  BY <1>4 DEF Post
<1>5. pc # "idle" /\ UNCHANGED <<cur, req, runs>>
  <2>1. CASE Check \/ Stat \/ StatFails \/ WriteFinish \/ WriteTimeout \/ WriteError
    BY <2>1 DEF Check, Stat, StatFails, WriteFinish, WriteTimeout, WriteError, far
  <2>2. CASE ReadyFinish \/ ReadyTimeout \/ ReadFinish \/ ReadNak \/ ReadTimeout \/ ReadError
    BY <2>2 DEF ReadyFinish, ReadyTimeout, ReadFinish, ReadNak, ReadTimeout, ReadError, far
  <2>3. CASE WaitFinish \/ WaitTimeout \/ WaitOver
    BY <2>3 DEF WaitFinish, WaitTimeout, WaitOver, far
  <2>4. QED
    BY <2>1, <2>2, <2>3 DEF Client
<1>6. Shape
  <2> HIDE DEF Shape
  <2>1. CASE Check
    <3>1. CASE req.sendable
      BY <1>4, <2>1, <3>1 DEF Check
    <3>2. CASE ~req.sendable
      BY <1>1, <2>1, <3>2, Constants DEF Check
    <3>3. QED
      BY <3>1, <3>2
  <2>2. CASE Stat
    BY <1>4, <2>2 DEF Stat
  <2>3. CASE StatFails \/ WaitOver
    BY <1>1, <2>3, Constants DEF StatFails, WaitOver
  <2>4. CASE WriteFinish
    <3>1. CASE req.kind = "reset"
      <4>1. Return(TRUE, cur) /\ cur \in Ids
        BY <2>4, <3>1 DEF WriteFinish, AfterWrite, TypeOK
      <4>2. QED
        BY <4>1, <1>1
    <3>2. CASE req.kind # "reset"
      BY <1>4, <2>4, <3>2 DEF WriteFinish, AfterWrite
    <3>3. QED
      BY <3>1, <3>2
  <2>5. CASE WriteTimeout \/ ReadyTimeout \/ ReadTimeout
    BY <1>3, <1>5, <2>5 DEF WriteTimeout, NotDelivered, ReadyTimeout, ReadTimeout
  <2>6. CASE WriteError \/ ReadError
    BY <1>2, <2>6 DEF WriteError, ReadError
  <2>7. CASE ReadyFinish
    <3>1. CASE status.failed
      BY <1>2, <2>7, <3>1 DEF ReadyFinish
    <3>2. CASE ~status.failed /\ req.kind \in ReadsAfter
      BY <1>4, <2>7, <3>2 DEF ReadyFinish
    <3>3. CASE ~status.failed /\ req.kind \notin ReadsAfter
      BY <1>1, <2>7, <3>3 DEF ReadyFinish, TypeOK
    <3>4. QED
      BY <3>1, <3>2, <3>3
  <2>8. CASE ReadFinish
    BY <1>1, <2>8 DEF ReadFinish, TypeOK
  <2>9. CASE ReadNak
    BY <1>1, <2>9 DEF ReadNak, TypeOK
  <2>10. CASE WaitFinish
    BY <1>1, <2>10 DEF WaitFinish, TypeOK
  <2>11. CASE WaitTimeout
    BY <2>11 DEF WaitTimeout, Shape
  <2>12. QED
    BY <2>1, <2>2, <2>3, <2>4, <2>5, <2>6, <2>7, <2>8, <2>9, <2>10, <2>11 DEF Client
<1>7. QED
  BY <1>5, <1>6

(* When no transaction goes wrong a command is delivered once.             *)
LEMMA OnceStep ==
  ASSUME MaxHits = 0
  PROVE  TypeOK /\ TypeOK' /\ PostInv /\ OnceInv /\ [Next]_vars => OnceInv'
<1> SUFFICES ASSUME TypeOK, TypeOK', PostInv, OnceInv, [Next]_vars PROVE OnceInv'
  OBVIOUS
<1> USE DEF At, Goto
<1>1. hits = 0 /\ hits' = 0 /\ ~Hit
  BY DEF TypeOK, Hit
<1>2. CASE Call
  <2>1. cur' = cur + 1 /\ cur \in Nat /\ cur' \in CallIds /\ UNCHANGED <<runs, job>>
    BY <1>2 DEF Call, TypeOK, Ids, CallIds, far
  <2>2. runs'[cur'] = 0 /\ (job # NoJob => job.call <= cur')
    BY <2>1, Constants DEF OnceInv, TypeOK, CallIds
  <2>3. job # NoJob => job.call # cur'
    BY <2>1 DEF OnceInv, TypeOK, CallIds
  <2>4. \A c \in CallIds : runs'[c] <= 1 /\ (c > cur' => runs'[c] = 0)
    BY <2>1 DEF OnceInv, CallIds
  <2>5. QED
    BY <1>1, <2>1, <2>2, <2>3, <2>4 DEF OnceInv
<1>3. CASE Serve
  <2>1. job # NoJob /\ job' = NoJob /\ runs' = [runs EXCEPT ![job.call] = @ + 1]
        /\ UNCHANGED <<cur, pc>> /\ job.call \in CallIds /\ runs[job.call] = 0
        /\ job.call <= cur
    BY <1>3 DEF Serve, client, TypeOK, OnceInv
  <2>2. \A c \in CallIds : runs'[c] = IF c = job.call THEN 1 ELSE runs[c]
    BY <2>1 DEF TypeOK
  <2>3. \A c \in CallIds : runs'[c] <= 1 /\ (c > cur' => runs'[c] = 0)
    BY <2>1, <2>2 DEF OnceInv, TypeOK, CallIds, Ids
  <2>4. pc \in {"check", "stat", "write"} => runs'[cur] = 0
    <3>1. pc \in {"check", "stat", "write"} => cur \in CallIds
      BY DEF PostInv
    <3>2. QED
      BY <2>1, <2>2, <3>1 DEF OnceInv
  <2>5. QED
    BY <1>1, <2>1, <2>3, <2>4 DEF OnceInv
<1>4. CASE WriteFinish
  <2>1. cur \in CallIds /\ req \in Requests /\ pc = "write"
    BY <1>4 DEF WriteFinish, PostInv
  <2>2. job'.call = cur /\ job' # NoJob /\ UNCHANGED <<cur, runs>>
    BY <1>4, <2>1, DeliveredType DEF WriteFinish
  <2>3. pc' \in {"idle", "read", "ready"}
    BY <1>4 DEF WriteFinish, AfterWrite, Return, Post
  <2>4. runs[cur] = 0 /\ cur <= cur
    BY <2>1 DEF OnceInv, CallIds
  <2>5. QED
    BY <1>1, <2>2, <2>3, <2>4 DEF OnceInv
<1>5. CASE Client /\ ~WriteFinish
  <2>1. UNCHANGED <<cur, runs, job>>
    <3>1. UNCHANGED <<cur, runs>>
      BY <1>5, ClientShape
    <3>2. CASE WriteTimeout
      BY <1>1, <3>2 DEF WriteTimeout, Silent
    <3>3. CASE ~WriteTimeout
      BY <1>5, <3>3 DEF Client, Check, Stat, StatFails, WriteError, ReadyFinish,
         ReadyTimeout, ReadFinish, ReadNak, ReadTimeout, ReadError, WaitFinish,
         WaitTimeout, WaitOver, far
    <3>4. QED
      BY <3>1, <3>2, <3>3
  <2>2. pc' \in {"check", "stat", "write"} => pc \in {"check", "stat", "write"}
    <3>1. ASSUME Fail PROVE pc' \notin {"check", "stat", "write"}
      BY <3>1 DEF Fail, Return
    <3>2. ASSUME Again PROVE pc' \notin {"check", "stat", "write"} \/ pc' = pc
      BY <3>1, <3>2 DEF Again
    <3>3. CASE ReadyFinish \/ ReadyTimeout \/ ReadFinish \/ ReadNak \/ ReadTimeout \/ ReadError
      BY <3>1, <3>2, <3>3 DEF ReadyFinish, ReadyTimeout, ReadFinish, ReadNak,
         ReadTimeout, ReadError, Return, Post
    <3>4. CASE WaitFinish \/ WaitTimeout \/ WaitOver
      BY <3>4 DEF WaitFinish, WaitTimeout, WaitOver, Return
    <3>5. CASE Check \/ Stat \/ StatFails \/ WriteTimeout \/ WriteError
      BY <3>5 DEF Check, Stat, StatFails, WriteTimeout, WriteError
    <3>6. QED
      BY <1>5, <3>3, <3>4, <3>5 DEF Client
  <2>3. QED
    BY <1>1, <2>1, <2>2 DEF OnceInv
<1>6. CASE UNCHANGED vars
  BY <1>6 DEF vars, client, far, OnceInv
<1>7. QED
  BY <1>2, <1>3, <1>4, <1>5, <1>6 DEF Next

(* Every step of AdamNet is a step of the bus call or leaves it alone.     *)
LEMMA RefinementStep ==
  ASSUME MaxHits = 0, NoReset
  PROVE  IInv /\ IInv' /\ OnceInv /\ OnceInv' /\ [Next]_vars
           => [Abstract!BusNext]_(Abstract!busVars)
<1> SUFFICES ASSUME IInv, IInv', OnceInv, OnceInv', [Next]_vars
             PROVE  Abstract!BusNext \/ UNCHANGED Abstract!busVars
  OBVIOUS
<1> USE DEF At, Goto, Abstract!busVars
<1>1. CASE Call
  <2>1. pc = "idle" /\ pc' # "idle" /\ cur < MaxCalls /\ cur' = cur + 1
        /\ UNCHANGED <<runs, outcome>>
    BY <1>1 DEF Call, far
  <2>2. Abstract!Begin
    BY <2>1 DEF Abstract!Begin
  <2>3. QED
    BY <2>2 DEF Abstract!BusNext
<1>2. CASE Client
  <2>1. pc # "idle" /\ UNCHANGED <<cur, req, runs>>
    BY <1>2, ClientShape DEF IInv
  <2>2. CASE pc' # "idle" /\ outcome' = outcome
    BY <2>1, <2>2
  <2>3. CASE pc' = "idle" /\ outcome' = [NoOutcome EXCEPT !.call = cur]
    <3>1. Abstract!NoOutcome = NoOutcome
      BY DEF Abstract!NoOutcome, NoOutcome
    <3>2. Abstract!Fail
      BY <2>1, <2>3, <3>1 DEF Abstract!Fail
    <3>3. QED
      BY <3>2 DEF Abstract!BusNext
  <2>4. CASE pc' = "idle" /\ outcome'.ok
             /\ \E c \in Ids : outcome' = [call |-> cur, ok |-> TRUE, seen |-> {c}]
    <3>1. req' \in Requests /\ req.kind # "reset" /\ cur \in CallIds
      BY <2>1 DEF IInv, PostInv, NoReset
    <3>2. outcome'.seen = {cur} /\ runs'[cur] > 0
      BY <2>1, <2>4, <3>1 DEF IInv, OwnAnswer, OnceInv
    <3>3. runs[cur] = 1
      BY <2>1, <3>1, <3>2 DEF IInv, TypeOK, OnceInv
    <3>4. outcome' = [call |-> cur, ok |-> TRUE, seen |-> {cur}]
      <4>1. PICK c \in Ids : outcome' = [call |-> cur, ok |-> TRUE, seen |-> {c}]
        BY <2>4
      <4>2. outcome'.seen = {c}
        BY <4>1
      <4>3. {c} = {cur}
        BY <3>2, <4>2
      <4>4. QED
        BY <4>1, <4>3
    <3>5. Abstract!Succeed
      BY <2>1, <2>4, <3>3, <3>4 DEF Abstract!Succeed
    <3>6. QED
      BY <3>5 DEF Abstract!BusNext
  <2>5. QED
    BY <1>2, <2>2, <2>3, <2>4, ClientShape DEF IInv
<1>3. CASE Serve
  <2>1. job # NoJob /\ runs' = [runs EXCEPT ![job.call] = @ + 1]
        /\ UNCHANGED <<cur, pc, outcome>>
    BY <1>3 DEF Serve, client
  <2>2. job.call \in 1..cur /\ runs[job.call] = 0
    BY <2>1 DEF IInv, TypeOK, OnceInv, CallIds, Ids
  <2>3. runs' = [runs EXCEPT ![job.call] = 1]
    BY <2>1, <2>2
  <2>4. Abstract!Serve
    BY <2>1, <2>2, <2>3 DEF Abstract!Serve
  <2>5. QED
    BY <2>4 DEF Abstract!BusNext
<1>4. CASE UNCHANGED vars
  BY <1>4 DEF vars, client, far
<1>5. QED
  BY <1>1, <1>2, <1>3, <1>4 DEF Next

(* When no transaction goes wrong AdamNet implements the abstract bus call,*)
(* however slow the FujiNet and whatever calls gave up on it: each command *)
(* is carried out at most once, and a TRUE return is its own.              *)
THEOREM Refinement ==
  ASSUME MaxHits = 0, NoReset
  PROVE  Spec => ImplementsBusCall
<1>1. Init => Abstract!BusInit
  BY DEF Init, Abstract!BusInit, At, NoOutcome, Abstract!NoOutcome,
         CallIds, Abstract!CallIds
<1>2. Init => OnceInv
  BY DEF Init, OnceInv, At, CallIds
<1>3. IInv /\ IInv' /\ OnceInv /\ [Next]_vars => OnceInv'
  BY OnceStep DEF IInv
<1>4. IInv /\ IInv' /\ OnceInv /\ OnceInv' /\ [Next]_vars
        => [Abstract!BusNext]_(Abstract!busVars)
  BY RefinementStep
<1>5. QED
  BY <1>1, <1>2, <1>3, <1>4, Invariant, PTL
  DEF Spec, ImplementsBusCall, Abstract!BusSpec
=============================================================================
