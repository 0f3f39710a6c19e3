-------------------------- MODULE DriveWireProofs --------------------------
(***************************************************************************)
(* Theorems about the bus calls over DriveWire, for any number of calls,   *)
(* any reply lengths, any number of timeouts and lost bytes, and any       *)
(* number of timeouts to a resend.                                         *)
(***************************************************************************)
EXTENDS DriveWire, SequenceTheorems, TLAPS

USE DriveWireAssumption DEF DriveWireAssumption

(***************************************************************************)
(* Short sequences.                                                        *)
(***************************************************************************)

(* The first, the rest and the length of a sequence that is written down. *)
LEMMA Written ==
  /\ \A a : <<a>> # <<>> /\ Head(<<a>>) = a /\ Tail(<<a>>) = <<>> /\ Len(<<a>>) = 1
  /\ \A a, b : /\ <<a, b>> # <<>> /\ Head(<<a, b>>) = a /\ Tail(<<a, b>>) = <<b>>
               /\ Len(<<a, b>>) = 2
  /\ \A a, b, c : /\ <<a, b, c>> # <<>> /\ Head(<<a, b, c>>) = a /\ Tail(<<a, b, c>>) = <<b, c>>
                  /\ Len(<<a, b, c>>) = 3
<1>1. \A a : <<a>> # <<>> /\ Head(<<a>>) = a /\ Tail(<<a>>) = <<>> /\ Len(<<a>>) = 1
  OBVIOUS
<1>2. \A a, b : /\ <<a, b>> # <<>> /\ Head(<<a, b>>) = a /\ Tail(<<a, b>>) = <<b>>
                /\ Len(<<a, b>>) = 2
  OBVIOUS
<1>3. \A a, b, c : /\ <<a, b, c>> # <<>> /\ Head(<<a, b, c>>) = a /\ Tail(<<a, b, c>>) = <<b, c>>
                   /\ Len(<<a, b, c>>) = 3
  OBVIOUS
<1>4. QED
  BY <1>1, <1>2, <1>3

(* A sequence is known by its elements. *)
LEMMA TwoElements ==
  ASSUME NEW S, NEW a \in S, NEW b \in S, NEW s \in Seq(S), Len(s) = 2, s[1] = a, s[2] = b
  PROVE  s = <<a, b>>
<1> DEFINE u == <<a, b>>
<1>1. u \in Seq(S) /\ Len(u) = 2 /\ u[1] = a /\ u[2] = b
  OBVIOUS
<1>2. \A i \in 1..2 : i = 1 \/ i = 2
  OBVIOUS
<1> HIDE DEF u
<1>3. \A i \in 1..Len(s) : s[i] = u[i]
  BY <1>1, <1>2
<1>4. s = u
  BY <1>1, <1>3, SeqEqual
<1>5. QED
  BY <1>4 DEF u

(* The same for three. *)
LEMMA ThreeElements ==
  ASSUME NEW S, NEW a \in S, NEW b \in S, NEW c \in S,
         NEW s \in Seq(S), Len(s) = 3, s[1] = a, s[2] = b, s[3] = c
  PROVE  s = <<a, b, c>>
<1> DEFINE u == <<a, b, c>>
<1>1. u \in Seq(S) /\ Len(u) = 3 /\ u[1] = a /\ u[2] = b /\ u[3] = c
  OBVIOUS
<1>2. \A i \in 1..3 : i = 1 \/ i = 2 \/ i = 3
  OBVIOUS
<1> HIDE DEF u
<1>3. \A i \in 1..Len(s) : s[i] = u[i]
  BY <1>1, <1>2
<1>4. s = u
  BY <1>1, <1>3, SeqEqual
<1>5. QED
  BY <1>4 DEF u

(* An element put behind one. *)
LEMMA Behind ==
  ASSUME NEW S, NEW a \in S, NEW b \in S
  PROVE  Append(<<>>, a) = <<a>> /\ Append(<<a>>, b) = <<a, b>>
<1> DEFINE t == Append(<<a>>, b)
<1>1. <<a>> \in Seq(S) /\ Len(<<a>>) = 1 /\ <<a>>[1] = a
  OBVIOUS
<1>2. t \in Seq(S) /\ Len(t) = 2 /\ t[1] = a /\ t[2] = b
  BY <1>1, AppendProperties
<1>3. t = <<a, b>>
  BY <1>2, TwoElements
<1>4. Append(<<>>, a) = <<a>>
  OBVIOUS
<1>5. QED
  BY <1>3, <1>4

(* A step before others. *)
LEMMA Before ==
  ASSUME NEW S, NEW a \in S, NEW b \in S, NEW c \in S
  PROVE  <<a>> \o <<>> = <<a>> /\ <<a>> \o <<b>> = <<a, b>> /\ <<a>> \o <<b, c>> = <<a, b, c>>
<1> DEFINE s == <<a>>
           t == <<b>>
           u == <<b, c>>
<1>1. /\ s \in Seq(S) /\ Len(s) = 1 /\ s[1] = a
      /\ t \in Seq(S) /\ Len(t) = 1 /\ t[1] = b
      /\ u \in Seq(S) /\ Len(u) = 2 /\ u[1] = b /\ u[2] = c
  OBVIOUS
<1> HIDE DEF s, t, u
<1>2. s \o t \in Seq(S) /\ Len(s \o t) = 2 /\ (s \o t)[1] = a /\ (s \o t)[2] = b
  <2>1. /\ s \o t \in Seq(S) /\ Len(s \o t) = Len(s) + Len(t)
        /\ \A i \in 1..Len(s) + Len(t) :
             (s \o t)[i] = IF i <= Len(s) THEN s[i] ELSE t[i - Len(s)]
    BY <1>1, ConcatProperties
  <2>2. QED
    BY <1>1, <2>1
<1>3. s \o u \in Seq(S) /\ Len(s \o u) = 3 /\ (s \o u)[1] = a /\ (s \o u)[2] = b /\ (s \o u)[3] = c
  <2>1. /\ s \o u \in Seq(S) /\ Len(s \o u) = Len(s) + Len(u)
        /\ \A i \in 1..Len(s) + Len(u) :
             (s \o u)[i] = IF i <= Len(s) THEN s[i] ELSE u[i - Len(s)]
    BY <1>1, ConcatProperties
  <2>2. QED
    BY <1>1, <2>1
<1>4. s \o t = <<a, b>> /\ s \o u = <<a, b, c>>
  BY <1>2, <1>3, TwoElements, ThreeElements
<1>5. s \o <<>> = s
  BY <1>1, ConcatEmptySeq
<1>6. QED
  BY <1>4, <1>5 DEF s, t, u

(* What is taken off a sequence, and what is left of it. *)
LEMMA Front ==
  ASSUME NEW S, NEW s \in Seq(S), s # <<>>
  PROVE  Head(s) \in S /\ Tail(s) \in Seq(S)
BY HeadTailProperties

(* n times the same byte. *)
LEMMA BytesType ==
  ASSUME NEW S, NEW n \in Nat, NEW b \in S
  PROVE  Bytes(n, b) \in Seq(S)
BY DEF Bytes

(***************************************************************************)
(* The invariant.                                                          *)
(***************************************************************************)

(* What a call may have left to do when a DEVICE_READY precedes it. *)
Scripts ==
  {<<"command">>, <<"command", "direct">>, <<"command", "error">>, <<"command", "response">>,
   <<"command", "error", "response">>, <<"error">>, <<"error", "response">>, <<"response">>}

ClockScripts == {<<"command">>, <<"command", "direct">>, <<"direct">>}

PMDRead == platform = "pmd85" /\ req.op = "read"

(* Where the call is, and what it has left to do. *)
ScriptInv ==
  /\ pc \in {"idle", "ask", "ready", "send", "read"}
  /\ req \in [device : {"fuji", "net", "clock", "other"}, op : {"call", "read", "write"}, reply : Nat]
  /\ pc \in {"ask", "ready"} => todo \in Scripts \cup {<<"refuse">>}
  /\ pc = "send" => todo \in Scripts
  /\ pc = "read" => todo \in {<<"direct">>, <<"error">>, <<"error", "response">>, <<"response">>}
  /\ pc # "idle" /\ todo # <<"refuse">> =>
       (IF todo \in ClockScripts THEN req.device = "clock" ELSE req.device \in {"fuji", "net"})
  /\ pc # "idle" /\ todo \notin {<<"refuse">>, <<"command">>, <<"command", "error">>, <<"error">>} =>
       req.reply > 0
  /\ pc # "idle" /\ todo = <<"command", "response">> => PMDRead
  /\ pc # "read" => got = <<>>
  /\ DOMAIN outcome = {"call", "ok", "quiet", "took"}
  /\ pc # "idle" => ~outcome.ok

(* The bytes the FujiNet answers an exchange of this call with. *)
Val == {"ok", "eof", "fail"}
Mine(step) == [kind : Answers(step), call : {cur}, val : Val]
ErrorByte == [kind |-> "error", call |-> cur, val |-> status.val]

Asked == CASE Head(todo) = "error"    -> SendError
           [] Head(todo) = "response" -> SendResponse
           [] OTHER                   -> Command

Sent == Head(todo) \in {"error", "response", "direct"}

(* On a quiet line the requests under way are those of the exchange the host
   is at, after the command if that was the last to be sent, and the bytes are
   their answers. *)
AskLine == toHost = <<>> /\ (toDev = <<>> \/ (Sent /\ toDev = <<Command>>))

ReadyLine ==
  \/ toDev = <<>> /\ (toHost = <<>> \/ \E t \in Mine("ready") : toHost = <<t>>)
  \/ toHost = <<>> /\ (toDev = <<Ready>> \/ (Sent /\ toDev = <<Command, Ready>>))

ErrorLine ==
  \/ toHost = <<>> /\ got \in {<<>>, <<ErrorByte>>}
  \/ toHost = <<ErrorByte>> /\ got = <<>>

ReadLine ==
  \/ toDev = <<Asked>> /\ toHost = <<>> /\ got = <<>>
  \/ /\ toDev = <<>>
     /\ IF Head(todo) = "error" THEN ErrorLine
        ELSE toHost \in Seq(Mine(Head(todo))) /\ got \in Seq(Mine(Head(todo)))

LineInv ==
  quiet =>
    /\ pc = "ask" => AskLine
    /\ pc = "ready" => ReadyLine
    /\ pc = "send" => toDev = <<>> /\ toHost = <<>>
    /\ pc = "read" => ReadLine

(* What the FujiNet has last carried out, and how it ended. *)
CommandWaits == toDev \in {<<Command>>, <<Command, Ready>>}

StatusOK == status.val = "ok" \/ (req.device = "net" /\ status.val = "eof")

StatusInv ==
  /\ status.val \in Val /\ status.len \in Nat
  /\ quiet /\ pc # "idle" =>
       /\ Sent /\ ~CommandWaits => status.call = cur
       /\ todo = <<"response">> /\ ~PMDRead => ~CommandWaits /\ StatusOK

(* What the call has taken so far. *)
Taken == UNION {{step} \X Mine(step) : step \in {"ready", "error", "response", "direct"}}

TookInv == pc # "idle" /\ quiet => outcome.took \in Seq(Taken)

(* What has been returned. *)
ReturnInv ==
  pc = "idle" /\ outcome.ok /\ outcome.quiet =>
    /\ outcome.call = cur
    /\ outcome.took \in Seq(Taken)
    /\ req.device # "clock" =>
         /\ toDev = <<>>
         /\ ~PMDRead => status.call = cur /\ StatusOK

IInv == ScriptInv /\ LineInv /\ StatusInv /\ TookInv /\ ReturnInv

(***************************************************************************)
(* The script of a call.                                                   *)
(***************************************************************************)

(* The beginnings of scripts, and what comes after them. *)
LEMMA ScriptHeads ==
  /\ Head(<<"refuse">>) = "refuse"
  /\ \A t \in Scripts \cup {<<"direct">>} :
       /\ t # <<>> /\ t # <<"refuse">>
       /\ Head(t) \in {"command", "error", "response", "direct"}
       /\ Head(t) = "direct" => t = <<"direct">>
       /\ Head(t) = "response" => t = <<"response">>
       /\ Head(t) = "error" => t \in {<<"error">>, <<"error", "response">>}
       /\ Head(t) = "command" =>
            t \in {<<"command">>, <<"command", "direct">>, <<"command", "error">>,
                   <<"command", "response">>, <<"command", "error", "response">>}
<1>1. \A t \in {<<"command">>, <<"error">>, <<"response">>, <<"direct">>} :
        t # <<>> /\ t # <<"refuse">> /\ t = <<Head(t)>>
        /\ Head(t) \in {"command", "error", "response", "direct"}
  BY Written
<1>2. \A t \in {<<"command", "direct">>, <<"command", "error">>, <<"command", "response">>,
                <<"error", "response">>, <<"command", "error", "response">>} :
        t # <<>> /\ Len(t) > 1 /\ t # <<"refuse">>
        /\ Head(t) = IF t = <<"error", "response">> THEN "error" ELSE "command"
  BY Written
<1>3. QED
  BY <1>1, <1>2, Written DEF Scripts

(* What a call may ask. *)
LEMMA RequestType ==
  ASSUME NEW r \in Requests
  PROVE  /\ r.device \in {"fuji", "net", "clock", "other"} /\ r.op \in {"call", "read", "write"}
         /\ r.reply \in Nat
         /\ r \in [device : {"fuji", "net", "clock", "other"}, op : {"call", "read", "write"},
                   reply : Nat]
         /\ r.op = "read" => r.reply > 0 /\ r.device = "net"
         /\ r.op = "write" => r.device = "net"
<1>1. CASE r \in Calls
  BY <1>1 DEF Calls
<1>2. CASE r \in ReadCalls
  <2>1. r.reply \in Nat /\ r.reply > 0
    <3>1. r.reply \in Replies \ {0}
      BY <1>2 DEF ReadCalls
    <3>2. \A n \in Nat : n # 0 => n > 0
      OBVIOUS
    <3>3. QED
      BY <3>1, <3>2
  <2>2. r.device = "net" /\ r.op = "read" /\ r = [device |-> "net", op |-> "read", reply |-> r.reply]
    BY <1>2 DEF ReadCalls
  <2>3. QED
    BY <2>1, <2>2
<1>3. CASE r \in WriteCalls
  BY <1>3 DEF WriteCalls
<1>4. QED
  BY <1>1, <1>2, <1>3 DEF Requests

(* The script of a call the bus carries. *)
LEMMA StepsScript ==
  ASSUME NEW r \in Requests, r.device # "other"
  PROVE  LET t == <<"command">> \o Steps(r)
         IN /\ t \in Scripts /\ Head(t) = "command"
            /\ IF t \in ClockScripts THEN r.device = "clock" ELSE r.device \in {"fuji", "net"}
            /\ t \notin {<<"command">>, <<"command", "error">>} => r.reply > 0
            /\ t = <<"command", "response">> => platform = "pmd85" /\ r.op = "read"
<1>1. /\ r.device \in {"fuji", "net", "clock"} /\ r.op \in {"call", "read", "write"}
      /\ r.reply \in Nat
      /\ r.op = "read" => r.reply > 0 /\ r.device = "net"
      /\ r.op = "write" => r.device = "net"
  BY RequestType
<1>2. Steps(r) \in {<<>>, <<"direct">>, <<"error">>, <<"response">>, <<"error", "response">>}
  BY <1>1 DEF Steps, ReadSteps, WriteSteps, CallSteps, ClockSteps
<1>3. /\ Steps(r) \in {<<>>, <<"direct">>} <=> r.device = "clock"
      /\ Steps(r) \notin {<<>>, <<"error">>} => r.reply > 0
      /\ Steps(r) = <<"response">> => platform = "pmd85" /\ r.op = "read"
  BY <1>1 DEF Steps, ReadSteps, WriteSteps, CallSteps, ClockSteps
<1>4. /\ <<"command">> \o <<>> = <<"command">>
      /\ <<"command">> \o <<"direct">> = <<"command", "direct">>
      /\ <<"command">> \o <<"error">> = <<"command", "error">>
      /\ <<"command">> \o <<"response">> = <<"command", "response">>
      /\ <<"command">> \o <<"error", "response">> = <<"command", "error", "response">>
  <2> DEFINE W == {"command", "direct", "error", "response"}
  <2>1. "command" \in W /\ "direct" \in W /\ "error" \in W /\ "response" \in W
    OBVIOUS
  <2> HIDE DEF W
  <2>2. ASSUME NEW a \in W, NEW b \in W, NEW c \in W
        PROVE  /\ <<a>> \o <<>> = <<a>>
               /\ <<a>> \o <<b>> = <<a, b>>
               /\ <<a>> \o <<b, c>> = <<a, b, c>>
    BY Before
  <2>3. <<"command">> \o <<>> = <<"command">> /\ <<"command">> \o <<"direct">> = <<"command", "direct">>
    BY <2>1, <2>2, Zenon
  <2>4. <<"command">> \o <<"error">> = <<"command", "error">>
    BY <2>1, <2>2, Zenon
  <2>5. <<"command">> \o <<"response">> = <<"command", "response">>
    BY <2>1, <2>2, Zenon
  <2>6. <<"command">> \o <<"error", "response">> = <<"command", "error", "response">>
    BY <2>1, <2>2, Zenon
  <2>7. QED
    BY <2>3, <2>4, <2>5, <2>6
<1>5. CASE Steps(r) = <<>>
  BY <1>1, <1>3, <1>4, <1>5, Written DEF Scripts, ClockScripts
<1>6. CASE Steps(r) = <<"direct">>
  BY <1>1, <1>3, <1>4, <1>6, Written DEF Scripts, ClockScripts
<1>7. CASE Steps(r) = <<"error">>
  BY <1>1, <1>3, <1>4, <1>7, Written DEF Scripts, ClockScripts
<1>8. CASE Steps(r) = <<"response">>
  BY <1>1, <1>3, <1>4, <1>8, Written DEF Scripts, ClockScripts
<1>9. CASE Steps(r) = <<"error", "response">>
  BY <1>1, <1>3, <1>4, <1>9, Written DEF Scripts, ClockScripts
<1>10. QED
  BY <1>2, <1>5, <1>6, <1>7, <1>8, <1>9

(* The invariant holds when the program starts. *)
LEMMA InitInv == Init => IInv
<1> SUFFICES ASSUME Init PROVE IInv
  OBVIOUS
<1>1. ScriptInv
  BY DEF Init, ScriptInv, NoOutcome
<1>2. LineInv /\ TookInv
  BY DEF Init, LineInv, TookInv
<1>3. StatusInv
  BY DEF Init, StatusInv, Val
<1>4. ReturnInv
  BY DEF Init, ReturnInv, NoOutcome
<1>5. QED
  BY <1>1, <1>2, <1>3, <1>4 DEF IInv

(* A call begins. *)
LEMMA CallStep ==
  ASSUME IInv, NEW r \in Requests, Call(r)
  PROVE  IInv'
<1> USE DEF IInv
<1>1. r \in [device : {"fuji", "net", "clock", "other"}, op : {"call", "read", "write"}, reply : Nat]
  BY RequestType
<1>2. status.val \in Val /\ status.len \in Nat /\ UNCHANGED <<status, toDev, toHost, platform>>
      /\ req' = r /\ got' = <<>> /\ quiet' = (toDev = <<>> /\ toHost = <<>>)
  BY DEF Call, StatusInv
<1>3. CASE r.device = "other" /\ platform = "pmd85"
  <2>1. pc' = "idle" /\ todo' = <<>> /\ DOMAIN outcome' = {"call", "ok", "quiet", "took"}
        /\ outcome'.ok = FALSE
    BY <1>3 DEF Call, NoOutcome
  <2>2. QED
    BY <1>1, <1>2, <2>1 DEF ScriptInv, LineInv, StatusInv, TookInv, ReturnInv
<1>4. CASE ~(r.device = "other" /\ platform = "pmd85")
  <2>1. pc' = "ask" /\ outcome' = NoOutcome
        /\ todo' = IF r.device = "other" THEN <<"refuse">> ELSE <<"command">> \o Steps(r)
    BY <1>4 DEF Call
  <2>2. /\ todo' \in Scripts \cup {<<"refuse">>} /\ Head(todo') \in {"command", "refuse"}
        /\ todo' # <<"refuse">> =>
             /\ IF todo' \in ClockScripts THEN r.device = "clock" ELSE r.device \in {"fuji", "net"}
             /\ todo' \notin {<<"command">>, <<"command", "error">>} => r.reply > 0
             /\ todo' = <<"command", "response">> => platform = "pmd85" /\ r.op = "read"
    BY <2>1, StepsScript, Written
  <2>3. ScriptInv'
    BY <1>1, <1>2, <2>1, <2>2 DEF ScriptInv, NoOutcome, PMDRead, Scripts
  <2>4. LineInv'
    BY <1>2, <2>1 DEF LineInv, AskLine
  <2>5. StatusInv'
    <3>1. todo' # <<"response">>
      BY <2>2, Written
    <3>2. QED
      BY <1>2, <2>2, <3>1 DEF StatusInv, Sent, Val
  <2>6. outcome'.took \in Seq(Taken') /\ outcome'.ok = FALSE
    BY <2>1 DEF NoOutcome
  <2>7. QED
    BY <2>1, <2>3, <2>4, <2>5, <2>6 DEF TookInv, ReturnInv
<1>5. QED
  BY <1>3, <1>4


(***************************************************************************)
(* The steps of a call.                                                    *)
(***************************************************************************)

(* Appending to a line that is written down. *)
LEMMA Queue ==
  ASSUME NEW a, NEW b
  PROVE  Append(<<>>, a) = <<a>> /\ Append(<<a>>, b) = <<a, b>> /\ <<a>> # <<b, b>> /\ (<<a>> = <<b>> => a = b)
<1>1. Append(<<>>, a) = <<a>> /\ Append(<<a>>, b) = <<a, b>>
  <2> DEFINE S == {a, b}
  <2>1. a \in S /\ b \in S
    OBVIOUS
  <2> HIDE DEF S
  <2>2. QED
    BY <2>1, Behind
<1>2. <<a>> # <<b, b>> /\ (<<a>> = <<b>> => a = b)
  BY Written
<1>3. QED
  BY <1>1, <1>2

(* While the call is the same, so is what it puts on the line and what it is
   answered with. *)
LEMMA SameCall ==
  ASSUME UNCHANGED <<platform, cur, req>>
  PROVE  /\ Command' = Command /\ Ready' = Ready /\ SendError' = SendError
         /\ SendResponse' = SendResponse /\ PMDRead' = PMDRead /\ Taken' = Taken
         /\ Mine("ready")' = Mine("ready") /\ Mine("error")' = Mine("error")
         /\ Mine("response")' = Mine("response") /\ Mine("direct")' = Mine("direct")
<1>1. Command' = Command /\ Ready' = Ready /\ SendError' = SendError /\ SendResponse' = SendResponse
  BY DEF Command, Ready, SendError, SendResponse
<1>2. PMDRead' = PMDRead
  BY Zenon DEF PMDRead
<1>3. ASSUME NEW step PROVE Mine(step)' = Mine(step)
  BY DEF Mine
<1>4. Taken' = Taken
  BY DEF Taken, Mine
<1>5. QED
  BY <1>1, <1>2, <1>3, <1>4

(* A command is not taken for another request. *)
LEMMA Frames ==
  ASSUME ScriptInv
  PROVE  /\ Command # Ready /\ Command # SendError /\ Command # SendResponse
         /\ Command.op \notin {"ready", "error", "response"}
         /\ Command.call = cur /\ Command.device = req.device
         /\ Ready.op = "ready" /\ Ready.call = cur
         /\ SendError.op = "error"
         /\ SendResponse.op = "response" /\ SendResponse.device = req.device
         /\ SendResponse.len = req.reply /\ req.reply \in Nat
         /\ <<Ready>> # <<Command>> /\ <<Ready>> # <<Command, Ready>>
         /\ <<>> # <<Command>> /\ <<>> # <<Command, Ready>>
<1>1. req.op \in {"call", "read", "write"} /\ req.reply \in Nat
  BY DEF ScriptInv
<1>2. /\ Command.op \notin {"ready", "error", "response"}
      /\ Command.call = cur /\ Command.device = req.device
      /\ Ready.op = "ready" /\ Ready.call = cur
      /\ SendError.op = "error"
      /\ SendResponse.op = "response" /\ SendResponse.device = req.device
      /\ SendResponse.len = req.reply
  BY <1>1 DEF Command, Ready, SendError, SendResponse
<1>3. Command # Ready /\ Command # SendError /\ Command # SendResponse
  BY <1>2
<1>4. <<Ready>> # <<Command>> /\ <<Ready>> # <<Command, Ready>>
      /\ <<>> # <<Command>> /\ <<>> # <<Command, Ready>>
  BY <1>3, Written
<1>5. QED
  BY <1>1, <1>2, <1>3, <1>4

(* bus_ready() asks for the FujiNet. *)
LEMMA AskReadyStep ==
  ASSUME IInv, AskReady
  PROVE  IInv'
<1> USE DEF IInv
<1>1. /\ pc = "ask" /\ pc' = "ready" /\ toDev' = Append(toDev, Ready)
      /\ UNCHANGED <<platform, cur, req, todo, got, toHost, status, quiet, outcome>>
  BY DEF AskReady
<1>2. ScriptInv'
  BY <1>1, SameCall DEF ScriptInv
<1>3. ASSUME quiet PROVE \/ toDev = <<>> /\ toDev' = <<Ready>> /\ toHost = <<>>
                         \/ toDev = <<Command>> /\ toDev' = <<Command, Ready>> /\ toHost = <<>> /\ Sent
  <2>1. AskLine
    BY <1>1, <1>3 DEF LineInv
  <2>2. Append(<<>>, Ready) = <<Ready>> /\ Append(<<Command>>, Ready) = <<Command, Ready>>
    BY Queue
  <2>3. QED
    BY <1>1, <2>1, <2>2 DEF AskLine
<1>4. LineInv'
  BY <1>1, <1>3, SameCall DEF LineInv, ReadyLine, Sent
<1>5. StatusInv'
  BY <1>1, <1>3, SameCall, Frames DEF StatusInv, Sent, CommandWaits, StatusOK
<1>6. TookInv' /\ ReturnInv'
  BY <1>1, SameCall DEF TookInv, ReturnInv
<1>7. QED
  BY <1>2, <1>4, <1>5, <1>6

(* A byte ends the wait of bus_ready(). *)
LEMMA ReadyByteStep ==
  ASSUME IInv, ReadyByte
  PROVE  IInv'
<1> USE DEF IInv
<1>1. /\ pc = "ready" /\ toHost # <<>> /\ toHost' = Tail(toHost)
      /\ UNCHANGED <<platform, cur, req, toDev, status, quiet>>
  BY DEF ReadyByte
<1>2. CASE Head(todo) = "refuse"
  <2>1. /\ pc' = "idle" /\ got' = <<>> /\ todo' = <<>>
        /\ outcome' = [outcome EXCEPT !.call = cur, !.ok = FALSE, !.quiet = quiet]
    BY <1>2 DEF ReadyByte, Return
  <2>2. DOMAIN outcome' = {"call", "ok", "quiet", "took"} /\ outcome'.ok = FALSE
    BY <2>1 DEF ScriptInv
  <2>3. QED
    BY <1>1, <2>1, <2>2 DEF ScriptInv, LineInv, StatusInv, TookInv, ReturnInv
<1>3. CASE Head(todo) # "refuse"
  <2>1. /\ pc' = "send" /\ UNCHANGED <<todo, got>>
        /\ outcome' = [outcome EXCEPT !.took = Append(@, <<"ready", Head(toHost)>>)]
    BY <1>3 DEF ReadyByte
  <2>2. todo \in Scripts
    BY <1>1, <1>3, ScriptHeads DEF ScriptInv
  <2>3. /\ DOMAIN outcome' = {"call", "ok", "quiet", "took"} /\ outcome'.ok = outcome.ok
        /\ outcome'.took = Append(outcome.took, <<"ready", Head(toHost)>>)
    BY <2>1 DEF ScriptInv
  <2>4. ScriptInv'
    BY <1>1, <2>1, <2>2, <2>3, SameCall DEF ScriptInv
  <2>5. ASSUME quiet PROVE toDev = <<>> /\ toHost' = <<>> /\ Head(toHost) \in Mine("ready")
    <3>1. PICK t \in Mine("ready") : toDev = <<>> /\ toHost = <<t>>
      BY <1>1, <2>5 DEF LineInv, ReadyLine
    <3>2. QED
      BY <1>1, <3>1, Written
  <2>6. LineInv'
    BY <1>1, <2>1, <2>5 DEF LineInv
  <2>7. StatusInv'
    BY <1>1, <2>1, SameCall DEF StatusInv, Sent, CommandWaits, StatusOK
  <2>8. TookInv'
    <3>1. ASSUME quiet PROVE Append(outcome.took, <<"ready", Head(toHost)>>) \in Seq(Taken)
      <4>1. <<"ready", Head(toHost)>> \in Taken
        BY <2>5, <3>1 DEF Taken
      <4>2. outcome.took \in Seq(Taken)
        BY <1>1, <3>1 DEF TookInv
      <4>3. QED
        BY <4>1, <4>2, AppendProperties
    <3>2. QED
      BY <1>1, <2>3, <3>1, SameCall DEF TookInv
  <2>9. QED
    BY <2>1, <2>4, <2>6, <2>7, <2>8 DEF ReturnInv
<1>4. QED
  BY <1>2, <1>3

(* A dwread() of bus_ready() times out. *)
LEMMA ReadyTimeoutStep ==
  ASSUME IInv, ReadyTimeout
  PROVE  IInv'
<1> USE DEF IInv
<1>1. /\ pc = "ready" /\ pc' = "ready" /\ toHost = <<>>
      /\ UNCHANGED <<platform, cur, req, todo, got, toHost, status, outcome>>
  BY DEF ReadyTimeout, TimesOut
<1>2. ScriptInv'
  BY <1>1, SameCall DEF ScriptInv
<1>3. quiet' => quiet
  BY DEF ReadyTimeout
<1>4. TookInv' /\ ReturnInv'
  BY <1>1, <1>3, SameCall DEF TookInv, ReturnInv
<1>5. CASE toDev' = toDev
  <2>1. LineInv'
    BY <1>1, <1>3, <1>5, SameCall DEF LineInv, ReadyLine, Sent
  <2>2. StatusInv'
    BY <1>1, <1>3, <1>5, SameCall DEF StatusInv, Sent, CommandWaits, StatusOK
  <2>3. QED
    BY <1>2, <1>4, <2>1, <2>2
<1>6. CASE toDev' # toDev
  <2>1. toDev' = Append(toDev, Ready) /\ waits + 1 = ReadyResend
    BY <1>6 DEF ReadyTimeout, ResendDue
  <2>2. ASSUME quiet' PROVE toDev = <<>> /\ toDev' = <<Ready>>
    <3>1. ~(waits + 1 < ReadyResend)
      BY <2>1
    <3>2. toDev = <<>>
      BY <2>2, <3>1 DEF ReadyTimeout
    <3>3. QED
      BY <2>1, <3>2, Queue
  <2>3. LineInv'
    BY <1>1, <2>2, SameCall DEF LineInv, ReadyLine
  <2>4. StatusInv'
    BY <1>1, <1>3, <2>2, SameCall, Frames DEF StatusInv, Sent, CommandWaits, StatusOK
  <2>5. QED
    BY <1>2, <1>4, <2>3, <2>4
<1>7. QED
  BY <1>5, <1>6

(* What a command leaves to do. *)
LEMMA AfterCommand ==
  ASSUME todo \in Scripts, Head(todo) = "command", Len(todo) # 1
  PROVE  /\ Tail(todo) \in {<<"direct">>, <<"error">>, <<"response">>, <<"error", "response">>}
         /\ Head(Tail(todo)) \in {"direct", "error", "response"}
         /\ Head(Tail(todo)) = "direct" <=> Tail(todo) = <<"direct">>
         /\ Tail(todo) = <<"direct">> <=> todo = <<"command", "direct">>
         /\ Tail(todo) = <<"error">> <=> todo = <<"command", "error">>
         /\ Tail(todo) = <<"response">> <=> todo = <<"command", "response">>
         /\ todo # <<"command">> /\ todo # <<"error">>
<1>1. todo \in {<<"command", "direct">>, <<"command", "error">>,
                <<"command", "response">>, <<"command", "error", "response">>}
  BY ScriptHeads, Written
<1>2. CASE todo = <<"command", "direct">>
  BY <1>2, Written
<1>3. CASE todo = <<"command", "error">>
  BY <1>3, Written
<1>4. CASE todo = <<"command", "response">>
  BY <1>4, Written
<1>5. CASE todo = <<"command", "error", "response">>
  BY <1>5, Written
<1>6. QED
  BY <1>1, <1>2, <1>3, <1>4, <1>5

(* The command is sent. *)
LEMMA SendCommandStep ==
  ASSUME IInv, SendCommand
  PROVE  IInv'
<1> USE DEF IInv
<1>1. /\ pc = "send" /\ Head(todo) = "command" /\ todo \in Scripts
      /\ toDev' = Append(toDev, Command)
      /\ UNCHANGED <<platform, cur, req, toHost, status, quiet>>
  BY DEF SendCommand, ScriptInv
<1>2. CASE Len(todo) = 1
  <2>1. /\ pc' = "idle" /\ got' = <<>> /\ todo' = <<>>
        /\ outcome' = [outcome EXCEPT !.call = cur, !.ok = TRUE, !.quiet = quiet]
    BY <1>2 DEF SendCommand, Return
  <2>2. /\ DOMAIN outcome' = {"call", "ok", "quiet", "took"} /\ outcome'.call = cur
        /\ outcome'.quiet = quiet /\ outcome'.took = outcome.took
    BY <2>1 DEF ScriptInv
  <2>3. todo = <<"command">>
    BY <1>1, <1>2, ScriptHeads, Written
  <2>4. req.device = "clock"
    BY <1>1, <2>3, ScriptHeads DEF ScriptInv, ClockScripts
  <2>5. ReturnInv'
    <3>1. ASSUME quiet PROVE outcome.took \in Seq(Taken)
      BY <1>1, <3>1 DEF TookInv
    <3>2. QED
      BY <1>1, <2>2, <2>4, <3>1, SameCall DEF ReturnInv
  <2>6. QED
    BY <1>1, <2>1, <2>2, <2>5 DEF ScriptInv, LineInv, StatusInv, TookInv
<1>3. CASE Len(todo) # 1
  <2>1. /\ todo' = Tail(todo) /\ pc' = (IF Head(Tail(todo)) = "direct" THEN "read" ELSE "ask")
        /\ UNCHANGED <<got, outcome>>
    BY <1>3 DEF SendCommand
  <2>2. /\ todo' \in {<<"direct">>, <<"error">>, <<"response">>, <<"error", "response">>}
        /\ Head(todo') \in {"direct", "error", "response"}
        /\ Head(todo') = "direct" <=> todo' = <<"direct">>
        /\ todo' = <<"direct">> <=> todo = <<"command", "direct">>
        /\ todo' = <<"error">> <=> todo = <<"command", "error">>
        /\ todo' = <<"response">> <=> todo = <<"command", "response">>
        /\ todo # <<"command">> /\ todo # <<"error">>
    BY <1>1, <1>3, <2>1, AfterCommand
  <2>3. pc' \in {"ask", "read"} /\ pc' = "read" <=> todo' = <<"direct">>
    BY <2>1, <2>2
  <2>4. ScriptInv'
    <3>1. /\ todo # <<"refuse">> /\ todo' # <<"refuse">>
          /\ todo \in ClockScripts <=> todo' \in ClockScripts
      BY <1>1, <2>2, ScriptHeads, Written DEF ClockScripts
    <3>2. /\ IF todo' \in ClockScripts THEN req.device = "clock" ELSE req.device \in {"fuji", "net"}
          /\ todo' # <<"error">> => req.reply > 0
          /\ todo' # <<"command", "response">>
      BY <1>1, <2>2, <3>1, Written DEF ScriptInv
    <3>3. todo' # <<"direct">> => todo' \in Scripts
      BY <2>2 DEF Scripts
    <3>4. QED
      BY <1>1, <2>1, <2>2, <2>3, <3>2, <3>3, SameCall DEF ScriptInv
  <2>5. ASSUME quiet PROVE toDev' = <<Command>> /\ toHost = <<>> /\ got = <<>>
    BY <1>1, <2>5, Queue DEF LineInv, ScriptInv
  <2>6. LineInv'
    <3>1. Sent'
      BY <2>2 DEF Sent
    <3>2. todo' = <<"direct">> => Asked' = Command'
      BY <2>2 DEF Asked
    <3>3. QED
      BY <1>1, <2>1, <2>3, <2>5, <3>1, <3>2, SameCall DEF LineInv, AskLine, ReadLine
  <2>7. StatusInv'
    <3>1. todo' = <<"response">> => PMDRead
      BY <1>1, <2>2 DEF ScriptInv
    <3>2. quiet => CommandWaits'
      BY <2>5, <1>1, SameCall DEF CommandWaits
    <3>3. QED
      BY <1>1, <3>1, <3>2, SameCall DEF StatusInv
  <2>8. TookInv' /\ ReturnInv'
    BY <1>1, <2>1, <2>3, SameCall DEF TookInv, ReturnInv
  <2>9. QED
    BY <2>4, <2>6, <2>7, <2>8
<1>4. QED
  BY <1>2, <1>3

(* The error or the response is asked for. *)
LEMMA AskForInv ==
  ASSUME IInv, NEW step \in {"error", "response"}, NEW frame,
         AskFor(step, frame), frame = Asked, frame \in {SendError, SendResponse}
  PROVE  IInv'
<1> USE DEF IInv
<1>1. /\ pc = "send" /\ pc' = "read" /\ Head(todo) = step /\ todo \in Scripts
      /\ toDev' = Append(toDev, Asked)
      /\ UNCHANGED <<platform, cur, req, todo, got, toHost, status, quiet, outcome>>
  BY DEF AskFor, ScriptInv
<1>2. todo \in {<<"error">>, <<"error", "response">>, <<"response">>}
  BY <1>1, ScriptHeads
<1>3. ScriptInv'
  BY <1>1, <1>2, SameCall DEF ScriptInv
<1>4. ASSUME quiet
      PROVE  toDev = <<>> /\ toDev' = <<Asked>> /\ toHost = <<>> /\ got = <<>>
  BY <1>1, <1>4, Queue DEF LineInv, ScriptInv
<1>5. Asked' = Asked
  BY <1>1, SameCall DEF Asked
<1>6. LineInv'
  BY <1>1, <1>4, <1>5 DEF LineInv, ReadLine
<1>7. StatusInv'
  <2>1. quiet => ~CommandWaits
    BY <1>4, Frames DEF CommandWaits
  <2>2. <<Asked>> # <<Command>> /\ <<Asked>> # <<Command, Ready>>
    BY Frames, Written
  <2>3. quiet => ~CommandWaits'
    BY <1>1, <1>4, <2>2, SameCall DEF CommandWaits
  <2>4. QED
    BY <1>1, <2>1, <2>3, SameCall DEF StatusInv, Sent, StatusOK
<1>8. TookInv' /\ ReturnInv'
  BY <1>1, SameCall DEF TookInv, ReturnInv
<1>9. QED
  BY <1>3, <1>6, <1>7, <1>8

(* The four functions that ask. *)
LEMMA AskStep ==
  ASSUME IInv, FujiGetError \/ NetworkGetError \/ FujiGetResponse \/ NetworkGetResponse
  PROVE  IInv'
<1>1. CASE FujiGetError \/ NetworkGetError
  <2>1. AskFor("error", SendError)
    BY <1>1 DEF FujiGetError, NetworkGetError
  <2>2. SendError = Asked
    BY <2>1 DEF AskFor, Asked
  <2>3. QED
    BY <2>1, <2>2, AskForInv
<1>2. CASE FujiGetResponse \/ NetworkGetResponse
  <2>1. AskFor("response", SendResponse)
    BY <1>2 DEF FujiGetResponse, NetworkGetResponse
  <2>2. SendResponse = Asked
    BY <2>1 DEF AskFor, Asked
  <2>3. QED
    BY <2>1, <2>2, AskForInv
<1>3. QED
  BY <1>1, <1>2

(* The heads of what may be left while bytes are read. *)
LEMMA ReadHeads ==
  ASSUME ScriptInv, pc = "read"
  PROVE  /\ Head(todo) \in {"direct", "error", "response"}
         /\ Head(todo) = "direct" <=> todo = <<"direct">>
         /\ Head(todo) = "response" <=> todo = <<"response">>
         /\ Head(todo) = "error" <=> todo \in {<<"error">>, <<"error", "response">>}
         /\ todo = <<"direct">> <=> req.device = "clock"
         /\ todo # <<"direct">> <=> req.device \in {"fuji", "net"}
         /\ Head(todo) # "error" => req.reply > 0
<1>1. todo \in {<<"direct">>, <<"error">>, <<"error", "response">>, <<"response">>}
  BY DEF ScriptInv
<1>2. /\ Head(todo) \in {"direct", "error", "response"}
      /\ Head(todo) = "direct" <=> todo = <<"direct">>
      /\ Head(todo) = "response" <=> todo = <<"response">>
      /\ Head(todo) = "error" <=> todo \in {<<"error">>, <<"error", "response">>}
      /\ todo \in ClockScripts <=> todo = <<"direct">>
      /\ todo # <<"refuse">>
  BY <1>1, Written DEF ClockScripts
<1>3. IF todo = <<"direct">> THEN req.device = "clock" ELSE req.device \in {"fuji", "net"}
  BY <1>2 DEF ScriptInv
<1>4. Head(todo) # "error" => req.reply > 0
  <2>1. Head(todo) # "error" => todo \notin {<<"refuse">>, <<"command">>, <<"command", "error">>, <<"error">>}
    BY <1>1, Written
  <2>2. QED
    BY <2>1 DEF ScriptInv
<1>5. QED
  BY <1>2, <1>3, <1>4

(* A byte of the answer is taken. *)
LEMMA ReadByteStep ==
  ASSUME IInv, ReadByte
  PROVE  IInv'
<1> USE DEF IInv
<1>1. /\ pc = "read" /\ pc' = "read" /\ toHost # <<>>
      /\ got' = Append(got, Head(toHost)) /\ toHost' = Tail(toHost)
      /\ UNCHANGED <<platform, cur, req, todo, toDev, status, quiet, outcome>>
  BY DEF ReadByte
<1>2. ScriptInv'
  BY <1>1, SameCall DEF ScriptInv
<1>3. ASSUME quiet
      PROVE  /\ toDev = <<>>
             /\ IF Head(todo) = "error" THEN toHost' = <<>> /\ got' = <<ErrorByte>>
                ELSE toHost' \in Seq(Mine(Head(todo))) /\ got' \in Seq(Mine(Head(todo)))
  <2>1. /\ toDev = <<>>
        /\ IF Head(todo) = "error" THEN ErrorLine
           ELSE toHost \in Seq(Mine(Head(todo))) /\ got \in Seq(Mine(Head(todo)))
    BY <1>1, <1>3 DEF LineInv, ReadLine
  <2>2. CASE Head(todo) = "error"
    <3>1. toHost = <<ErrorByte>> /\ got = <<>>
      BY <1>1, <2>1, <2>2 DEF ErrorLine
    <3>2. QED
      BY <1>1, <2>1, <2>2, <3>1, Written, Queue
  <2>3. CASE Head(todo) # "error"
    <3> DEFINE M == Mine(Head(todo))
    <3>1. toHost \in Seq(M) /\ got \in Seq(M)
      BY <2>1, <2>3
    <3> HIDE DEF M
    <3>2. Head(toHost) \in M /\ Tail(toHost) \in Seq(M)
      BY <1>1, <3>1, Front
    <3>3. Append(got, Head(toHost)) \in Seq(M)
      BY <3>1, <3>2, AppendProperties
    <3>4. QED
      BY <1>1, <2>1, <2>3, <3>2, <3>3 DEF M
  <2>4. QED
    BY <2>2, <2>3
<1>4. LineInv'
  <2>1. ErrorByte' = ErrorByte /\ Mine(Head(todo))' = Mine(Head(todo))
    BY <1>1 DEF ErrorByte, Mine
  <2>2. QED
    BY <1>1, <1>3, <2>1 DEF LineInv, ReadLine, ErrorLine
<1>5. StatusInv'
  BY <1>1, SameCall DEF StatusInv, Sent, CommandWaits, StatusOK
<1>6. TookInv' /\ ReturnInv'
  BY <1>1, SameCall DEF TookInv, ReturnInv
<1>7. QED
  BY <1>2, <1>4, <1>5, <1>6

(* The answer does not come. *)
LEMMA ReadTimeoutStep ==
  ASSUME IInv, ReadTimeout
  PROVE  IInv'
<1> USE DEF IInv
<1>1. /\ pc' = "idle" /\ got' = <<>> /\ todo' = <<>>
      /\ outcome' = [outcome EXCEPT !.call = cur, !.ok = FALSE, !.quiet = quiet]
      /\ UNCHANGED <<platform, cur, req, status, quiet>>
  BY DEF ReadTimeout, Return
<1>2. DOMAIN outcome' = {"call", "ok", "quiet", "took"} /\ outcome'.ok = FALSE
  BY <1>1 DEF ScriptInv
<1>3. QED
  BY <1>1, <1>2 DEF ScriptInv, LineInv, StatusInv, TookInv, ReturnInv

(* What is taken for an answer joins what was taken before. *)
LEMMA TookMore ==
  ASSUME NEW step \in {"error", "response", "direct"}, got \in Seq(Mine(step)),
         outcome.took \in Seq(Taken)
  PROVE  outcome.took \o [i \in DOMAIN got |-> <<step, got[i]>>] \in Seq(Taken)
<1> DEFINE m == [i \in DOMAIN got |-> <<step, got[i]>>]
<1>1. Len(got) \in Nat /\ DOMAIN got = 1..Len(got)
  OBVIOUS
<1>2. \A i \in 1..Len(got) : <<step, got[i]>> \in Taken
  <2>1. \A i \in 1..Len(got) : got[i] \in Mine(step)
    OBVIOUS
  <2>2. \A t \in Mine(step) : <<step, t>> \in Taken
    BY DEF Taken
  <2>3. QED
    BY <2>1, <2>2
<1>3. m \in [1..Len(got) -> Taken]
  BY <1>1, <1>2
<1>4. m \in Seq(Taken)
  BY <1>1, <1>3
<1> HIDE DEF m
<1>5. outcome.took \o m \in Seq(Taken)
  BY <1>4, ConcatProperties
<1>6. QED
  BY <1>5 DEF m

(* The exchange is complete. *)
LEMMA ReadDoneStep ==
  ASSUME IInv, ReadDone
  PROVE  IInv'
<1> USE DEF IInv
<1> DEFINE step == Head(todo)
<1>1. /\ pc = "read" /\ Len(got) = Want(step)
      /\ UNCHANGED <<platform, cur, req, toDev, toHost, status, quiet>>
  BY DEF ReadDone
<1>2. PICK code \in IF step = "error" THEN ErrorCodes(Head(got)) ELSE {"ok"} :
        IF ErrorOK(code) /\ Len(todo) > 1
        THEN pc' = "ask" /\ todo' = Tail(todo) /\ got' = <<>> /\ outcome' = Took(step)
        ELSE /\ pc' = "idle" /\ todo' = <<>> /\ got' = <<>>
             /\ outcome' = [Took(step) EXCEPT !.call = cur, !.ok = ErrorOK(code), !.quiet = quiet]
  BY Zenon DEF ReadDone
<1>3. /\ step \in {"direct", "error", "response"}
      /\ step = "direct" <=> todo = <<"direct">>
      /\ step = "response" <=> todo = <<"response">>
      /\ step = "error" <=> todo \in {<<"error">>, <<"error", "response">>}
      /\ todo = <<"direct">> <=> req.device = "clock"
      /\ todo # <<"direct">> <=> req.device \in {"fuji", "net"}
      /\ step # "error" => req.reply > 0
  BY <1>1, ReadHeads
<1>4. ASSUME quiet
      PROVE  /\ toDev = <<>> /\ got \in Seq(Mine(step)) /\ status.call = cur
             /\ step = "error" => toHost = <<>> /\ got = <<ErrorByte>>
  <2>1. ReadLine
    BY <1>1, <1>4 DEF LineInv
  <2>2. got # <<>>
    <3>1. Want(step) > 0
      BY <1>3 DEF Want
    <3>2. QED
      BY <1>1, <3>1
  <2>3. /\ toDev = <<>>
        /\ IF step = "error" THEN ErrorLine ELSE got \in Seq(Mine(step))
    BY <2>1, <2>2 DEF ReadLine
  <2>4. status.call = cur
    BY <1>1, <1>3, <1>4, <2>3, Frames DEF StatusInv, Sent, CommandWaits
  <2>5. CASE step = "error"
    <3>1. toHost = <<>> /\ got = <<ErrorByte>>
      BY <2>2, <2>3, <2>5 DEF ErrorLine
    <3>2. ErrorByte \in Mine("error")
      BY DEF ErrorByte, Mine, Answers, StatusInv
    <3>3. <<ErrorByte>> \in Seq(Mine("error"))
      BY <3>2
    <3>4. QED
      BY <2>3, <2>4, <2>5, <3>1, <3>3
  <2>6. CASE step # "error"
    BY <2>3, <2>4, <2>6
  <2>7. QED
    BY <2>5, <2>6
<1>5. ASSUME quiet PROVE outcome.took \o [i \in DOMAIN got |-> <<step, got[i]>>] \in Seq(Taken)
  <2>1. outcome.took \in Seq(Taken)
    BY <1>1, <1>5 DEF TookInv
  <2>2. QED
    BY <1>3, <1>4, <1>5, <2>1, TookMore
<1>6. ASSUME quiet, step = "error", ErrorOK(code) PROVE StatusOK
  <2>1. ErrorByte.kind = "error" /\ ErrorByte.val = status.val
    BY DEF ErrorByte
  <2>2. Head(got) = ErrorByte
    BY <1>4, <1>6, Written
  <2>3. code = status.val
    BY <1>2, <1>6, <2>1, <2>2 DEF ErrorCodes
  <2>4. QED
    BY <1>6, <2>3 DEF ErrorOK, NetErrorOK, FujiErrorOK, StatusOK
<1>7. /\ DOMAIN Took(step) = {"call", "ok", "quiet", "took"}
      /\ Took(step).took = outcome.took \o [i \in DOMAIN got |-> <<step, got[i]>>]
      /\ Took(step).ok = outcome.ok
  BY DEF Took, ScriptInv
<1>8. CASE ErrorOK(code) /\ Len(todo) > 1
  <2>1. pc' = "ask" /\ todo' = Tail(todo) /\ got' = <<>> /\ outcome' = Took(step)
    BY <1>2, <1>8
  <2>2. todo = <<"error", "response">> /\ todo' = <<"response">>
    <3>1. todo \in {<<"direct">>, <<"error">>, <<"error", "response">>, <<"response">>}
      BY <1>3
    <3>2. Len(todo) > 1
      BY <1>8
    <3>3. Len(<<"direct">>) = 1 /\ Len(<<"error">>) = 1 /\ Len(<<"response">>) = 1
      BY Written
    <3>4. \A t : Len(t) = 1 => t # todo
      <4>1. Len(todo) # 1
        <5>1. \A n : n = 1 => ~(n > 1)
          OBVIOUS
        <5>2. QED
          BY <3>2, <5>1
      <4>2. QED
        BY <4>1
    <3>5. todo = <<"error", "response">>
      BY <3>1, <3>3, <3>4
    <3>6. QED
      BY <2>1, <3>5, Written
  <2>3. step = "error" /\ req.device \in {"fuji", "net"} /\ req.reply > 0
    <3>1. todo \notin {<<"refuse">>, <<"command">>, <<"command", "error">>, <<"error">>, <<"direct">>}
      BY <2>2, Written
    <3>2. QED
      BY <1>1, <1>3, <2>2, <3>1 DEF ScriptInv
  <2>4. ScriptInv'
    <3>1. todo' \notin ClockScripts \cup {<<"refuse">>, <<"command", "response">>}
      BY <2>2, Written DEF ClockScripts
    <3>2. todo' \in Scripts
      BY <2>2 DEF Scripts
    <3>3. QED
      BY <1>1, <1>7, <2>1, <2>3, <3>1, <3>2, SameCall DEF ScriptInv
  <2>5. LineInv'
    BY <1>1, <1>4, <2>1, <2>3 DEF LineInv, AskLine
  <2>6. StatusInv'
    <3>1. quiet => ~CommandWaits'
      BY <1>1, <1>4, Frames, SameCall DEF CommandWaits
    <3>2. StatusOK' = StatusOK
      BY <1>1 DEF StatusOK
    <3>3. QED
      BY <1>1, <1>4, <1>6, <1>8, <2>3, <3>1, <3>2 DEF StatusInv
  <2>7. TookInv' /\ ReturnInv'
    BY <1>1, <1>5, <1>7, <2>1, SameCall DEF TookInv, ReturnInv
  <2>8. QED
    BY <2>4, <2>5, <2>6, <2>7
<1>9. CASE ~(ErrorOK(code) /\ Len(todo) > 1)
  <2>1. /\ pc' = "idle" /\ todo' = <<>> /\ got' = <<>>
        /\ outcome' = [Took(step) EXCEPT !.call = cur, !.ok = ErrorOK(code), !.quiet = quiet]
    BY <1>2, <1>9
  <2>2. /\ DOMAIN outcome' = {"call", "ok", "quiet", "took"} /\ outcome'.call = cur
        /\ outcome'.ok = ErrorOK(code) /\ outcome'.quiet = quiet
        /\ outcome'.took = outcome.took \o [i \in DOMAIN got |-> <<step, got[i]>>]
    BY <1>7, <2>1
  <2>3. ASSUME quiet, ErrorOK(code), req.device # "clock", ~PMDRead
        PROVE  StatusOK
    <3>1. CASE step = "error"
      BY <1>6, <2>3, <3>1
    <3>2. CASE step # "error"
      <4>1. todo = <<"response">>
        BY <1>3, <2>3, <3>2
      <4>2. QED
        BY <1>1, <2>3, <4>1 DEF StatusInv
    <3>3. QED
      BY <3>1, <3>2
  <2>4. ReturnInv'
    <3>1. StatusOK' = StatusOK /\ PMDRead' = PMDRead /\ Taken' = Taken
      BY <1>1, SameCall DEF StatusOK
    <3>2. QED
      BY <1>1, <1>4, <1>5, <2>2, <2>3, <3>1 DEF ReturnInv
  <2>5. QED
    BY <1>1, <2>1, <2>2, <2>4 DEF ScriptInv, LineInv, StatusInv, TookInv
<1>10. QED
  BY <1>8, <1>9

(***************************************************************************)
(* The steps of the FujiNet and of the line.                               *)
(***************************************************************************)

(* The FujiNet carries a command out. *)
LEMMA CommandTaken ==
  ASSUME IInv, Device, Head(toDev) = Command
  PROVE  /\ status'.call = cur /\ status'.val \in Val /\ status'.len \in Nat
         /\ IF req.device = "clock"
            THEN \E b \in Seq(Mine("direct")) : toHost' = toHost \o b
            ELSE toHost' = toHost
<1>1. Command.op \notin {"ready", "error", "response"} /\ Command.call = cur
      /\ Command.device = req.device
  BY Frames DEF IInv
<1>2. DeviceCommand
  BY <1>1 DEF Device
<1>3. PICK val \in {"ok", "eof", "fail"}, len \in Replies :
        /\ status' = [call |-> cur, val |-> val, len |-> len]
        /\ toHost' = IF req.device = "clock"
                     THEN toHost \o Bytes(len, [kind |-> "data", call |-> cur, val |-> "ok"])
                     ELSE toHost
  BY <1>1, <1>2 DEF DeviceCommand
<1>4. [kind |-> "data", call |-> cur, val |-> "ok"] \in Mine("direct")
  BY DEF Mine, Answers, Val
<1>5. len \in Nat
  OBVIOUS
<1>6. Bytes(len, [kind |-> "data", call |-> cur, val |-> "ok"]) \in Seq(Mine("direct"))
  BY <1>4, <1>5, BytesType
<1>7. QED
  BY <1>3, <1>5, <1>6 DEF Val

(* The FujiNet answers a request for the response of the call under way. *)
LEMMA ResponseSent ==
  ASSUME IInv, Device, Head(toDev) = SendResponse, status.call = cur
  PROVE  UNCHANGED status /\ \E b \in Seq(Mine("response")) : toHost' = toHost \o b
<1>1. /\ SendResponse.op = "response" /\ SendResponse.device = req.device
      /\ SendResponse.len = req.reply /\ req.reply \in Nat
  BY Frames DEF IInv
<1>2. DeviceResponse
  BY <1>1 DEF Device
<1>3. \A kind \in {"data", "padding"} : Token(kind, "ok") \in Mine("response")
  BY DEF Token, Mine, Answers, Val
<1>4. status.len \in Nat
  BY DEF IInv, StatusInv
<1>5. CASE req.device = "net"
  <2>1. toHost' = toHost \o Bytes(req.reply, Token(IF status.val = "fail" THEN "padding" ELSE "data", "ok"))
    BY <1>1, <1>2, <1>5 DEF DeviceResponse
  <2>2. Token(IF status.val = "fail" THEN "padding" ELSE "data", "ok") \in Mine("response")
    BY <1>3
  <2>3. Bytes(req.reply, Token(IF status.val = "fail" THEN "padding" ELSE "data", "ok")) \in Seq(Mine("response"))
    BY <1>1, <2>2, BytesType
  <2>4. QED
    BY <1>2, <2>1, <2>3 DEF DeviceResponse
<1>6. CASE req.device # "net"
  <2>1. toHost' = toHost \o Bytes(status.len, Token("data", "ok"))
    BY <1>1, <1>2, <1>6 DEF DeviceResponse
  <2>2. Bytes(status.len, Token("data", "ok")) \in Seq(Mine("response"))
    BY <1>3, <1>4, BytesType
  <2>3. QED
    BY <1>2, <2>1, <2>2 DEF DeviceResponse
<1>7. QED
  BY <1>5, <1>6

(* The status of the FujiNet after any step of it. *)
LEMMA DeviceStatus ==
  ASSUME IInv, Device
  PROVE  status'.val \in Val /\ status'.len \in Nat
<1>1. status.val \in Val /\ status.len \in Nat
  BY DEF IInv, StatusInv
<1>2. CASE Head(toDev).op = "ready"
  BY <1>1, <1>2 DEF Device, DeviceReady
<1>3. CASE Head(toDev).op = "error"
  BY <1>1, <1>3 DEF Device, DeviceError
<1>4. CASE Head(toDev).op = "response"
  BY <1>1, <1>4 DEF Device, DeviceResponse
<1>5. CASE Head(toDev).op \notin {"ready", "error", "response"}
  <2>1. DeviceCommand
    BY <1>5 DEF Device
  <2>2. QED
    BY <2>1 DEF DeviceCommand, Val
<1>6. QED
  BY <1>2, <1>3, <1>4, <1>5

(* The FujiNet takes a request. *)
LEMMA DeviceStep ==
  ASSUME IInv, Device
  PROVE  IInv'
<1> USE DEF IInv
<1>1. /\ toDev # <<>> /\ toDev' = Tail(toDev)
      /\ UNCHANGED <<platform, pc, cur, req, todo, got, quiet, outcome>>
  BY DEF Device, hostVars
<1>2. status'.val \in Val /\ status'.len \in Nat
  BY DeviceStatus
<1>3. ScriptInv'
  BY <1>1, SameCall DEF ScriptInv
<1>4. TookInv'
  BY <1>1, SameCall DEF TookInv
<1>5. ReturnInv'
  BY <1>1, SameCall DEF ReturnInv
<1>6. CASE ~quiet \/ pc = "idle"
  BY <1>1, <1>2, <1>3, <1>4, <1>5, <1>6 DEF LineInv, StatusInv
<1>7. CASE quiet /\ pc = "ask"
  <2>1. Sent /\ toDev = <<Command>> /\ toHost = <<>>
    BY <1>1, <1>7 DEF LineInv, AskLine
  <2>2. req.device # "clock"
    <3>1. todo \in Scripts \cup {<<"refuse">>} /\ todo # <<"refuse">>
      BY <1>7, <2>1, ScriptHeads DEF ScriptInv, Sent
    <3>2. todo \notin ClockScripts
      BY <2>1, <3>1, ScriptHeads, Written DEF Sent, ClockScripts, Scripts
    <3>3. QED
      BY <1>7, <3>1, <3>2 DEF ScriptInv
  <2>3. status'.call = cur /\ toHost' = <<>> /\ toDev' = <<>>
    BY <1>1, <2>1, <2>2, CommandTaken, Written
  <2>4. LineInv'
    BY <1>1, <1>7, <2>3 DEF LineInv, AskLine
  <2>5. ~(todo = <<"response">> /\ ~PMDRead)
    BY <1>7, <2>1 DEF StatusInv, CommandWaits
  <2>6. StatusInv'
    BY <1>1, <1>2, <2>3, <2>5, SameCall DEF StatusInv
  <2>7. QED
    BY <1>3, <1>4, <1>5, <2>4, <2>6
<1>8. CASE quiet /\ pc = "ready" /\ toDev = <<Ready>>
  <2>1. toHost = <<>>
    BY <1>8, Written DEF LineInv, ReadyLine
  <2>2. Head(toDev) = Ready /\ toDev' = <<>>
    BY <1>1, <1>8, Written
  <2>3. DeviceReady
    BY <2>2, Frames DEF Device
  <2>4. UNCHANGED status /\ toHost' = <<[kind |-> "ready", call |-> cur, val |-> "ok"]>>
    BY <2>1, <2>2, <2>3, Frames, Queue DEF DeviceReady
  <2>5. [kind |-> "ready", call |-> cur, val |-> "ok"] \in Mine("ready")
    BY DEF Mine, Answers, Val
  <2>6. LineInv'
    BY <1>1, <1>8, <2>2, <2>4, <2>5, SameCall DEF LineInv, ReadyLine
  <2>7. ~CommandWaits /\ ~CommandWaits'
    BY <1>1, <1>8, <2>2, Frames, SameCall DEF CommandWaits
  <2>8. StatusInv'
    BY <1>1, <2>4, <2>7, SameCall DEF StatusInv, Sent, StatusOK
  <2>9. QED
    BY <1>3, <1>4, <1>5, <2>6, <2>8
<1>9. CASE quiet /\ pc = "ready" /\ toDev # <<Ready>>
  <2>1. toDev = <<Command, Ready>> /\ Sent /\ toHost = <<>>
    BY <1>1, <1>9 DEF LineInv, ReadyLine
  <2>2. req.device # "clock"
    <3>1. todo \in Scripts \cup {<<"refuse">>} /\ todo # <<"refuse">>
      BY <1>9, <2>1, ScriptHeads DEF ScriptInv, Sent
    <3>2. todo \notin ClockScripts
      BY <2>1, <3>1, ScriptHeads, Written DEF Sent, ClockScripts, Scripts
    <3>3. QED
      BY <1>9, <3>1, <3>2 DEF ScriptInv
  <2>3. status'.call = cur /\ toHost' = <<>> /\ toDev' = <<Ready>>
    BY <1>1, <2>1, <2>2, CommandTaken, Written
  <2>4. LineInv'
    BY <1>1, <1>9, <2>3, SameCall DEF LineInv, ReadyLine
  <2>5. ~(todo = <<"response">> /\ ~PMDRead)
    BY <1>9, <2>1 DEF StatusInv, CommandWaits
  <2>6. StatusInv'
    BY <1>1, <1>2, <2>3, <2>5, SameCall DEF StatusInv
  <2>7. QED
    BY <1>3, <1>4, <1>5, <2>4, <2>6
<1>10. CASE quiet /\ pc = "send"
  BY <1>1, <1>10 DEF LineInv
<1>11. CASE quiet /\ pc = "read"
  <2>1. toDev = <<Asked>> /\ toHost = <<>> /\ got = <<>>
    BY <1>1, <1>11 DEF LineInv, ReadLine
  <2>2. Head(toDev) = Asked /\ toDev' = <<>>
    BY <1>1, <2>1, Written
  <2>3. ~CommandWaits'
    BY <1>3, <2>2, Frames, SameCall, <1>1 DEF CommandWaits
  <2>4. /\ Head(todo) \in {"direct", "error", "response"}
        /\ Head(todo) = "direct" <=> todo = <<"direct">>
        /\ Head(todo) = "response" <=> todo = <<"response">>
        /\ todo = <<"direct">> <=> req.device = "clock"
    BY <1>11, ReadHeads
  <2>5. CASE Head(todo) = "direct"
    <3>1. Asked = Command
      BY <2>5 DEF Asked
    <3>2. status'.call = cur /\ \E b \in Seq(Mine("direct")) : toHost' = toHost \o b
      BY <2>2, <2>4, <2>5, <3>1, CommandTaken
    <3>3. toHost' \in Seq(Mine("direct"))
      BY <2>1, <3>2
    <3>4. <<>> \in Seq(Mine("direct"))
      OBVIOUS
    <3>5. LineInv'
      BY <1>1, <1>11, <2>1, <2>2, <2>5, <3>3, <3>4, SameCall DEF LineInv, ReadLine
    <3>6. StatusInv'
      <4>1. todo # <<"response">>
        BY <2>4, <2>5, Written
      <4>2. QED
        BY <1>1, <1>2, <3>2, <4>1 DEF StatusInv
    <3>7. QED
      BY <1>3, <1>4, <1>5, <3>5, <3>6
  <2>6. CASE Head(todo) # "direct"
    <3>1. Asked \in {SendError, SendResponse} /\ Asked = (IF Head(todo) = "error" THEN SendError ELSE SendResponse)
      BY <2>4, <2>6 DEF Asked
    <3>2. ~CommandWaits
      <4>1. <<Asked>> # <<Command>> /\ <<Asked>> # <<Command, Ready>>
        BY <3>1, Frames, Written
      <4>2. QED
        BY <2>1, <4>1 DEF CommandWaits
    <3>3. status.call = cur
      BY <1>11, <2>4, <3>2 DEF StatusInv, Sent
    <3>4. UNCHANGED status /\ LineInv'
      <4>1. CASE Head(todo) = "error"
        <5>1. DeviceError
          BY <2>2, <3>1, <4>1, Frames DEF Device
        <5>2. UNCHANGED status /\ toHost' = <<Token("error", status.val)>>
          BY <2>1, <5>1, Queue DEF DeviceError
        <5>3. toHost' = <<ErrorByte>> /\ ErrorByte' = ErrorByte
          BY <1>1, <3>3, <5>2 DEF Token, ErrorByte
        <5>4. QED
          BY <1>1, <1>11, <2>1, <2>2, <4>1, <5>2, <5>3 DEF LineInv, ReadLine, ErrorLine
      <4>2. CASE Head(todo) = "response"
        <5>1. UNCHANGED status /\ \E b \in Seq(Mine("response")) : toHost' = toHost \o b
          BY <2>2, <3>1, <3>3, <4>2, ResponseSent
        <5>2. toHost' \in Seq(Mine("response"))
          BY <2>1, <5>1
        <5>3. <<>> \in Seq(Mine("response"))
          OBVIOUS
        <5>4. QED
          BY <1>1, <1>11, <2>1, <2>2, <4>2, <5>1, <5>2, <5>3, SameCall DEF LineInv, ReadLine
      <4>3. QED
        BY <2>4, <2>6, <4>1, <4>2
    <3>5. StatusInv'
      BY <1>1, <2>3, <3>2, <3>4, SameCall DEF StatusInv, Sent, StatusOK
    <3>6. QED
      BY <1>3, <1>4, <1>5, <3>4, <3>5
  <2>7. QED
    BY <2>5, <2>6
<1>12. QED
  BY <1>6, <1>7, <1>8, <1>9, <1>10, <1>11 DEF ScriptInv

(* A byte is lost. *)
LEMMA LoseStep ==
  ASSUME IInv, Lose
  PROVE  IInv'
<1> USE DEF IInv
<1>1. /\ toHost # <<>> /\ toHost' = Tail(toHost)
      /\ UNCHANGED <<platform, pc, cur, req, todo, got, quiet, outcome, toDev, status>>
  BY DEF Lose, hostVars
<1>2. ScriptInv' /\ TookInv' /\ ReturnInv'
  BY <1>1, SameCall DEF ScriptInv, TookInv, ReturnInv, StatusOK
<1>3. StatusInv'
  BY <1>1, SameCall DEF StatusInv, Sent, CommandWaits, StatusOK
<1>4. CASE quiet /\ pc = "ready"
  <2>1. PICK t \in Mine("ready") : toDev = <<>> /\ toHost = <<t>>
    BY <1>1, <1>4 DEF LineInv, ReadyLine
  <2>2. toHost' = <<>>
    BY <1>1, <2>1, Written
  <2>3. QED
    BY <1>1, <1>2, <1>3, <1>4, <2>1, <2>2 DEF LineInv, ReadyLine
<1>5. CASE quiet /\ pc = "read"
  <2>1. /\ toDev = <<>>
        /\ IF Head(todo) = "error" THEN ErrorLine
           ELSE toHost \in Seq(Mine(Head(todo))) /\ got \in Seq(Mine(Head(todo)))
    BY <1>1, <1>5 DEF LineInv, ReadLine
  <2>2. ErrorByte' = ErrorByte /\ Mine(Head(todo))' = Mine(Head(todo))
    BY <1>1 DEF ErrorByte, Mine
  <2>3. CASE Head(todo) = "error"
    <3>1. toHost' = <<>> /\ got = <<>>
      BY <1>1, <2>1, <2>3, Written DEF ErrorLine
    <3>2. QED
      BY <1>1, <1>2, <1>3, <1>5, <2>1, <2>3, <3>1 DEF LineInv, ReadLine, ErrorLine
  <2>4. CASE Head(todo) # "error"
    <3> DEFINE M == Mine(Head(todo))
    <3>1. toHost \in Seq(M)
      BY <2>1, <2>4
    <3> HIDE DEF M
    <3>2. Tail(toHost) \in Seq(M)
      BY <1>1, <3>1, Front
    <3>3. toHost' \in Seq(Mine(Head(todo)))
      BY <1>1, <3>2 DEF M
    <3>4. QED
      BY <1>1, <1>2, <1>3, <1>5, <2>1, <2>2, <2>4, <3>3 DEF LineInv, ReadLine
  <2>5. QED
    BY <2>3, <2>4
<1>6. CASE ~(quiet /\ pc \in {"ready", "read"})
  <2>1. LineInv'
    BY <1>1, <1>6 DEF LineInv, AskLine
  <2>2. QED
    BY <1>2, <1>3, <2>1
<1>7. QED
  BY <1>4, <1>5, <1>6

(***************************************************************************)
(* The theorems.                                                           *)
(***************************************************************************)

(* Every step keeps the invariant. *)
LEMMA NextInv == IInv /\ [Next]_vars => IInv'
<1> SUFFICES ASSUME IInv, [Next]_vars PROVE IInv'
  OBVIOUS
<1>1. CASE \E r \in Requests : Call(r)
  BY <1>1, CallStep
<1>2. CASE AskReady
  BY <1>2, AskReadyStep
<1>3. CASE ReadyByte
  BY <1>3, ReadyByteStep
<1>4. CASE ReadyTimeout
  BY <1>4, ReadyTimeoutStep
<1>5. CASE SendCommand
  BY <1>5, SendCommandStep
<1>6. CASE FujiGetError \/ NetworkGetError \/ FujiGetResponse \/ NetworkGetResponse
  BY <1>6, AskStep
<1>7. CASE ReadByte
  BY <1>7, ReadByteStep
<1>8. CASE ReadTimeout
  BY <1>8, ReadTimeoutStep
<1>9. CASE ReadDone
  BY <1>9, ReadDoneStep
<1>10. CASE Device
  BY <1>10, DeviceStep
<1>11. CASE Lose
  BY <1>11, LoseStep
<1>12. CASE UNCHANGED vars
  <2>1. UNCHANGED <<platform, pc, cur, req, todo, got, toDev, toHost, status, quiet, outcome>>
    BY <1>12 DEF vars
  <2>2. ErrorByte' = ErrorByte /\ Mine(Head(todo))' = Mine(Head(todo)) /\ Asked' = Asked
    BY <2>1, SameCall DEF ErrorByte, Mine, Asked
  <2>3. LineInv'
    BY <2>1, <2>2, SameCall DEF IInv, LineInv, AskLine, ReadyLine, ReadLine, ErrorLine, Sent
  <2>4. ScriptInv' /\ StatusInv' /\ TookInv' /\ ReturnInv'
    BY <2>1, SameCall
    DEF IInv, ScriptInv, StatusInv, TookInv, ReturnInv, Sent, CommandWaits, StatusOK
  <2>5. QED
    BY <2>3, <2>4 DEF IInv
<1>13. QED
  BY <1>1, <1>2, <1>3, <1>4, <1>5, <1>6, <1>7, <1>8, <1>9, <1>10, <1>11, <1>12 DEF Next, Host

(* The invariant holds in every state of every behaviour. *)
LEMMA Invariance == Spec => []IInv
<1>1. QED
  BY InitInv, NextInv, PTL DEF Spec

(* What the bytes a call took were, once it has returned. *)
LEMMA WhatWasTaken ==
  ASSUME IInv, outcome.ok, outcome.quiet
  PROVE  pc = "idle" /\ outcome.call = cur /\ outcome.took \in Seq(Taken)
<1>1. pc = "idle"
  BY DEF IInv, ScriptInv
<1>2. QED
  BY <1>1 DEF IInv, ReturnInv

(* However many bytes are lost and however late the FujiNet is, a call that
   returns true after it began on an idle line took each byte for what it was,
   as long as bus_ready() did not ask twice for one answer: fuji_bus_call(),
   network_bus_read() and network_bus_write() of the CoCo and the PMD 85. *)
THEOREM InStepCorrect == Spec => []InStep
<1>1. IInv => InStep
  <2> SUFFICES ASSUME IInv, outcome.ok, outcome.quiet, NEW i \in DOMAIN outcome.took
               PROVE  /\ outcome.took[i][2].call = outcome.call
                      /\ outcome.took[i][2].kind \in Answers(outcome.took[i][1])
    BY DEF InStep
  <2>1. outcome.call = cur /\ outcome.took \in Seq(Taken)
    BY WhatWasTaken
  <2>2. outcome.took[i] \in Taken
    BY <2>1
  <2>3. PICK step \in {"ready", "error", "response", "direct"} :
          outcome.took[i] \in {step} \X Mine(step)
    BY <2>2 DEF Taken
  <2>4. outcome.took[i][1] = step /\ outcome.took[i][2] \in Mine(step)
    BY <2>3
  <2>5. outcome.took[i][2].call = cur /\ outcome.took[i][2].kind \in Answers(step)
    BY <2>4 DEF Mine
  <2>6. QED
    BY <2>1, <2>4, <2>5
<1>2. QED
  BY <1>1, Invariance, PTL

(* And the FujiNet carried the call out, and said so: the error code the call
   was judged by (fuji_get_error(), network_get_error()) is its own. *)
THEOREM ConfirmedCorrect == Spec => []Confirmed
<1>1. IInv => Confirmed
  <2> SUFFICES ASSUME IInv, outcome.ok, outcome.quiet, req.device # "clock",
                      ~(platform = "pmd85" /\ req.op = "read")
               PROVE  /\ status.call = outcome.call
                      /\ status.val = "ok" \/ (req.device = "net" /\ status.val = "eof")
    BY DEF Confirmed
  <2>1. pc = "idle" /\ outcome.call = cur
    BY WhatWasTaken
  <2>2. ~PMDRead
    BY DEF PMDRead
  <2>3. status.call = cur /\ StatusOK
    BY <2>1, <2>2 DEF IInv, ReturnInv
  <2>4. QED
    BY <2>1, <2>3 DEF StatusOK
<1>2. QED
  BY <1>1, Invariance, PTL

=============================================================================
