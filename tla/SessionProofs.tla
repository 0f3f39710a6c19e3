--------------------------- MODULE SessionProofs ---------------------------
(***************************************************************************)
(* Theorems about the operations of module Session: for any data, creators *)
(* and zones, any number of operations and any number of bus calls that    *)
(* fail, before or after the FujiNet has carried them out.                 *)
(***************************************************************************)
EXTENDS Session, SequenceTheorems, WellFoundedInduction, TLAPS

(***************************************************************************)
(* Scripts.                                                                *)
(***************************************************************************)

LEMMA TwoJoined ==
  ASSUME NEW a, NEW b
  PROVE  <<a>> \o <<b>> = <<a, b>>
<1> DEFINE S == {a, b}
           s == <<a>>
           t == <<b>>
           u == <<a, b>>
<1>1. s \in Seq(S) /\ t \in Seq(S) /\ u \in Seq(S)
  OBVIOUS
<1>2. Len(s) = 1 /\ Len(t) = 1 /\ Len(u) = 2
  OBVIOUS
<1>3. s \o t \in Seq(S) /\ Len(s \o t) = Len(u)
  BY <1>1, <1>2, ConcatProperties
<1>4. \A i \in 1..Len(u) : (s \o t)[i] = u[i]
  <2>1. \A i \in 1..Len(u) : (s \o t)[i] = IF i <= Len(s) THEN s[i] ELSE t[i - Len(s)]
    BY <1>1, <1>2, ConcatProperties
  <2>2. s[1] = a /\ t[1] = b /\ u[1] = a /\ u[2] = b
    OBVIOUS
  <2> HIDE DEF S, s, t, u
  <2>3. (s \o t)[1] = a /\ (s \o t)[2] = b
    BY <1>2, <2>1, <2>2
  <2>4. \A i \in 1..Len(u) : i = 1 \/ i = 2
    BY <1>2
  <2>5. QED
    BY <2>2, <2>3, <2>4
<1> HIDE DEF S, s, t, u
<1>5. s \o t = u
  BY <1>1, <1>3, <1>4, SeqEqual
<1>6. QED
  BY <1>5 DEF s, t, u

LEMMA TwoCalls ==
  ASSUME NEW a, NEW b
  PROVE  Head(<<a, b>>) = a /\ Tail(<<a, b>>) = <<b>> /\ <<a, b>> # <<>>
OBVIOUS

LEMMA TwoAndOne ==
  ASSUME NEW a, NEW b, NEW c
  PROVE  <<a, b>> \o <<c>> = <<a, b, c>>
<1> DEFINE S == {a, b, c}
           s == <<a, b>>
           t == <<c>>
           u == <<a, b, c>>
<1>1. s \in Seq(S) /\ t \in Seq(S) /\ u \in Seq(S)
  OBVIOUS
<1>2. Len(s) = 2 /\ Len(t) = 1 /\ Len(u) = 3
  OBVIOUS
<1>3. s \o t \in Seq(S) /\ Len(s \o t) = Len(u)
  BY <1>1, <1>2, ConcatProperties
<1>4. \A i \in 1..Len(u) : (s \o t)[i] = u[i]
  <2>1. \A i \in 1..Len(u) : (s \o t)[i] = IF i <= Len(s) THEN s[i] ELSE t[i - Len(s)]
    BY <1>1, <1>2, ConcatProperties
  <2>2. QED
    BY <1>2, <2>1
<1> HIDE DEF S, s, t, u
<1>5. s \o t = u
  BY <1>1, <1>3, <1>4, SeqEqual
<1>6. QED
  BY <1>5 DEF s, t, u

LEMMA ThreeAndOne ==
  ASSUME NEW a, NEW b, NEW c, NEW d
  PROVE  <<a, b, c>> \o <<d>> = <<a, b, c, d>>
<1> DEFINE S == {a, b, c, d}
           s == <<a, b, c>>
           t == <<d>>
           u == <<a, b, c, d>>
<1>1. s \in Seq(S) /\ t \in Seq(S) /\ u \in Seq(S)
  OBVIOUS
<1>2. Len(s) = 3 /\ Len(t) = 1 /\ Len(u) = 4
  OBVIOUS
<1>3. s \o t \in Seq(S) /\ Len(s \o t) = Len(u)
  BY <1>1, <1>2, ConcatProperties
<1>4. \A i \in 1..Len(u) : (s \o t)[i] = u[i]
  <2>1. \A i \in 1..Len(u) : (s \o t)[i] = IF i <= Len(s) THEN s[i] ELSE t[i - Len(s)]
    BY <1>1, <1>2, ConcatProperties
  <2>2. QED
    BY <1>2, <2>1
<1> HIDE DEF S, s, t, u
<1>5. s \o t = u
  BY <1>1, <1>3, <1>4, SeqEqual
<1>6. QED
  BY <1>5 DEF s, t, u

LEMMA OneAndThree ==
  ASSUME NEW a, NEW b, NEW c, NEW d
  PROVE  <<a>> \o <<b, c, d>> = <<a, b, c, d>>
<1> DEFINE S == {a, b, c, d}
           s == <<a>>
           t == <<b, c, d>>
           u == <<a, b, c, d>>
<1>1. s \in Seq(S) /\ t \in Seq(S) /\ u \in Seq(S)
  OBVIOUS
<1>2. Len(s) = 1 /\ Len(t) = 3 /\ Len(u) = 4
  OBVIOUS
<1>3. s \o t \in Seq(S) /\ Len(s \o t) = Len(u)
  BY <1>1, <1>2, ConcatProperties
<1>4. \A i \in 1..Len(u) : (s \o t)[i] = u[i]
  <2>1. \A i \in 1..Len(u) : (s \o t)[i] = IF i <= Len(s) THEN s[i] ELSE t[i - Len(s)]
    BY <1>1, <1>2, ConcatProperties
  <2>2. QED
    BY <1>2, <2>1
<1> HIDE DEF S, s, t, u
<1>5. s \o t = u
  BY <1>1, <1>3, <1>4, SeqEqual
<1>6. QED
  BY <1>5 DEF s, t, u

(***************************************************************************)
(* Operations.                                                             *)
(***************************************************************************)

(* The names of a service's operations. *)
Names(th) ==
  CASE th = "hash" -> {"hash_data", "hash_calculate", "hash_clear", "hash_add"}
    [] th = "qr"   -> {"qrcode_create"}
    [] th = "key"  -> {"read_appkey", "write_appkey", "set_appkey_details"}
    [] th \in {"clock", "apple2 clock"} -> {"set_tz", "get_tz", "get_time", "get_time_tz"}
    [] th = "wifi" -> {"wifi_enabled"}
    [] th = "file" -> {"copy_file", "file_stat"}
    [] th = "channel" -> {"open", "close", "json_parse", "html_parse", "json_query", "http_post",
                          "write"}
    [] OTHER -> {}

LEMMA OperationNames ==
  ASSUME NEW o \in Operations
  PROVE  o.name \in Names(theme) /\ o # Idle
<1>1. o.name \in Names(theme)
  <2>1. CASE theme = "file"
    BY <2>1 DEF Operations, FileOperations, Names
  <2>2. CASE theme = "channel"
    BY <2>2 DEF Operations, Names
  <2>3. CASE theme \notin {"file", "channel"}
    <3>1. o \in ToolOps(theme)
      BY <2>3 DEF Operations
    <3>2. CASE theme = "hash"
      BY <3>1, <3>2 DEF ToolOps, Names
    <3>3. CASE theme \in {"clock", "apple2 clock"}
      BY <3>1, <3>3 DEF ToolOps, Names
    <3>4. CASE theme \notin {"hash", "clock", "apple2 clock"}
      BY <2>3, <3>1, <3>4 DEF ToolOps, Names
    <3>5. QED
      BY <3>2, <3>3, <3>4
  <2>4. QED
    BY <2>1, <2>2, <2>3
<1>2. None \notin Names(theme)
  BY DEF Names, None
<1>3. QED
  BY <1>1, <1>2 DEF Idle

Tool == theme \notin {"file", "channel"}

(* The records have the fields they start with, the operation in hand is one of
   the service's, and so is the last. *)
Shape ==
  /\ Tool => DOMAIN tools = DOMAIN ToolsOff
  /\ DOMAIN mem = DOMAIN MemOff
  /\ DOMAIN told = DOMAIN ToldOff
  /\ op = Idle => todo = <<>>
  /\ op # Idle => op \in Operations
  /\ result.name # None => result.name \in Names(theme)

LEMMA ShapeInit == Init => Shape
BY DEF Init, Shape, NoResult, Idle, None, Tool

(***************************************************************************)
(* One bus call.                                                           *)
(***************************************************************************)

(* What the program goes on with: nothing, or the rest of its script. *)
GoesOn(m, rest, t) ==
  IF rest = <<>> THEN Finish(m.ok, m, t)
  ELSE todo' = rest /\ mem' = m /\ told' = t /\ UNCHANGED <<op, result>>

(* The program learns nothing from a call but whether it was a READ. *)
SameTold(t) ==
  /\ DOMAIN t = DOMAIN told
  /\ \A f \in DOMAIN told \ {"lostRead"} : t[f] = told[f]

(* A call to one of the tools is answered, or it fails, and the FujiNet may
   have carried it out or not. *)
ToolStep(c, h) ==
  \/ /\ h.ok
     /\ tools' = h.dev
     /\ \E m \in ToolKeep(c, TRUE, h.reply, op, mem) : GoesOn(m, ToolRest(c, m, Tail(todo)), told)
  \/ /\ tools' \in {tools, h.dev}
     /\ \E t : /\ SameTold(t)
              /\ \/ c.must /\ Finish(FALSE, mem, t)
                 \/ /\ ~c.must
                    /\ \E r : \E m \in ToolKeep(c, FALSE, r, op, mem) :
                         GoesOn(m, ToolRest(c, m, Tail(todo)), t)

(* Every command is of one of the tools. *)
LEMMA ToHash ==
  ASSUME NEW c, NEW d, c.cmd \in HashCmds
  PROVE  ToolHandle(c, d) = {HashHandle(c, d)}
<1>1. c.cmd \notin QrCmds /\ c.cmd \notin KeyCmds /\ c.cmd \notin ClockCmds
  BY DEF HashCmds, QrCmds, KeyCmds, ClockCmds
<1>2. QED
  BY <1>1 DEF ToolHandle

LEMMA ToQr ==
  ASSUME NEW c, NEW d, c.cmd \in QrCmds
  PROVE  ToolHandle(c, d) = {QrHandle(c, d)}
<1>1. c.cmd \notin HashCmds /\ c.cmd \notin KeyCmds /\ c.cmd \notin ClockCmds
  BY DEF HashCmds, QrCmds, KeyCmds, ClockCmds
<1>2. QED
  BY <1>1 DEF ToolHandle

LEMMA ToKey ==
  ASSUME NEW c, NEW d, c.cmd \in KeyCmds
  PROVE  ToolHandle(c, d) = {KeyHandle(c, d)}
<1>1. c.cmd \notin HashCmds /\ c.cmd \notin QrCmds /\ c.cmd \notin ClockCmds
  BY DEF HashCmds, QrCmds, KeyCmds, ClockCmds
<1>2. QED
  BY <1>1 DEF ToolHandle

LEMMA ToClock ==
  ASSUME NEW c, NEW d, c.cmd \in ClockCmds
  PROVE  ToolHandle(c, d) = {ClockHandle(c, d)}
<1>1. c.cmd \notin HashCmds /\ c.cmd \notin QrCmds /\ c.cmd \notin KeyCmds
  BY DEF HashCmds, QrCmds, KeyCmds, ClockCmds
<1>2. QED
  BY <1>1 DEF ToolHandle

LEMMA HandleShape ==
  ASSUME NEW c, NEW d, NEW h \in ToolHandle(c, d)
  PROVE  \E e, r : h = Done(e, r) \/ h = Refused(e)
<1>1. CASE c.cmd \in HashCmds
  <2>0. ToolHandle(c, d) = {HashHandle(c, d)}
    BY <1>1, ToHash
  <2>1. CASE c.cmd = "HASH_CLEAR"
    BY <2>0, <2>1, Zenon DEF HashHandle
  <2>2. CASE c.cmd = "HASH_INPUT"
    BY <2>0, <2>2, Zenon DEF HashHandle
  <2>3. CASE c.cmd = "HASH_COMPUTE"
    BY <2>0, <2>3, Zenon DEF HashHandle
  <2>4. CASE c.cmd = "HASH_COMPUTE_NO_CLEAR"
    BY <2>0, <2>4, Zenon DEF HashHandle
  <2>5. CASE c.cmd = "HASH_LENGTH"
    BY <2>0, <2>5, Zenon DEF HashHandle
  <2>6. CASE c.cmd = "HASH_OUTPUT"
    BY <2>0, <2>6, Zenon DEF HashHandle
  <2>7. QED
    BY <1>1, <2>1, <2>2, <2>3, <2>4, <2>5, <2>6 DEF HashCmds
<1>2. CASE c.cmd \in QrCmds
  <2>0. ToolHandle(c, d) = {QrHandle(c, d)}
    BY <1>2, ToQr
  <2>1. CASE c.cmd = "QRCODE_INPUT"
    BY <2>0, <2>1, Zenon DEF QrHandle
  <2>2. CASE c.cmd = "QRCODE_ENCODE"
    BY <2>0, <2>2, Zenon DEF QrHandle
  <2>3. CASE c.cmd = "QRCODE_LENGTH"
    BY <2>0, <2>3, Zenon DEF QrHandle
  <2>4. CASE c.cmd = "QRCODE_OUTPUT"
    BY <2>0, <2>4, Zenon DEF QrHandle
  <2>5. QED
    BY <1>2, <2>1, <2>2, <2>3, <2>4 DEF QrCmds
<1>3. CASE c.cmd \in KeyCmds
  <2>0. ToolHandle(c, d) = {KeyHandle(c, d)}
    BY <1>3, ToKey
  <2>1. CASE c.cmd = "OPEN_APPKEY"
    BY <2>0, <2>1, Zenon DEF KeyHandle
  <2>2. CASE c.cmd = "READ_APPKEY"
    BY <2>0, <2>2, Zenon DEF KeyHandle
  <2>3. CASE c.cmd = "WRITE_APPKEY"
    BY <2>0, <2>3, Zenon DEF KeyHandle
  <2>4. QED
    BY <1>3, <2>1, <2>2, <2>3 DEF KeyCmds
<1>4. CASE c.cmd \in ClockCmds
  BY <1>4 DEF ToolHandle, ClockHandle, ClockCmds, KeyCmds, QrCmds, HashCmds
<1>5. CASE c.cmd \notin HashCmds \cup QrCmds \cup KeyCmds \cup ClockCmds
  BY <1>5 DEF ToolHandle, WifiHandle
<1>6. QED
  BY <1>1, <1>2, <1>3, <1>4, <1>5

(* The FujiNet and the program keep the fields of their records. *)
LEMMA HandleFields ==
  ASSUME NEW c, NEW d, NEW h \in ToolHandle(c, d)
  PROVE  DOMAIN h.dev = DOMAIN d
<1>1. CASE c.cmd \in HashCmds
  <2>1. h = HashHandle(c, d)
    BY <1>1, ToHash
  <2>2. CASE c.cmd = "HASH_CLEAR"
    BY <2>1, <2>2 DEF HashHandle, Done, Refused
  <2>3. CASE c.cmd = "HASH_INPUT"
    BY <2>1, <2>3 DEF HashHandle, Done, Refused
  <2>4. CASE c.cmd = "HASH_COMPUTE"
    BY <2>1, <2>4 DEF HashHandle, Done, Refused
  <2>5. CASE c.cmd = "HASH_COMPUTE_NO_CLEAR"
    BY <2>1, <2>5 DEF HashHandle, Done, Refused
  <2>6. CASE c.cmd = "HASH_LENGTH"
    BY <2>1, <2>6 DEF HashHandle, Done, Refused
  <2>7. CASE c.cmd = "HASH_OUTPUT"
    BY <2>1, <2>7 DEF HashHandle, Done, Refused
  <2>8. QED
    BY <1>1, <2>2, <2>3, <2>4, <2>5, <2>6, <2>7 DEF HashCmds
<1>2. CASE c.cmd \in QrCmds
  <2>1. h = QrHandle(c, d)
    BY <1>2, ToQr
  <2>2. CASE c.cmd = "QRCODE_INPUT"
    BY <2>1, <2>2 DEF QrHandle, Done, Refused
  <2>3. CASE c.cmd = "QRCODE_ENCODE"
    BY <2>1, <2>3 DEF QrHandle, Done, Refused
  <2>4. CASE c.cmd = "QRCODE_LENGTH"
    BY <2>1, <2>4 DEF QrHandle, Done, Refused
  <2>5. CASE c.cmd = "QRCODE_OUTPUT"
    BY <2>1, <2>5 DEF QrHandle, Done, Refused
  <2>6. QED
    BY <1>2, <2>2, <2>3, <2>4, <2>5 DEF QrCmds
<1>3. CASE c.cmd \in KeyCmds
  <2>1. h = KeyHandle(c, d)
    BY <1>3, ToKey
  <2>2. CASE c.cmd = "OPEN_APPKEY"
    BY <2>1, <2>2 DEF KeyHandle, Done, Refused
  <2>3. CASE c.cmd = "READ_APPKEY"
    BY <2>1, <2>3 DEF KeyHandle, Done, Refused
  <2>4. CASE c.cmd = "WRITE_APPKEY"
    BY <2>1, <2>4 DEF KeyHandle, Done, Refused
  <2>5. QED
    BY <1>3, <2>2, <2>3, <2>4 DEF KeyCmds
<1>4. CASE c.cmd \in ClockCmds
  <2>1. h = ClockHandle(c, d)
    BY <1>4, ToClock
  <2>2. CASE c.cmd = "SETTZ_MAIN"
    BY <2>1, <2>2 DEF ClockHandle, Done, Refused
  <2>3. CASE c.cmd = "SETTZ_ALT"
    BY <2>1, <2>3 DEF ClockHandle, Done, Refused
  <2>4. CASE c.cmd = "GETTZ_LEN"
    BY <2>1, <2>4 DEF ClockHandle, Done, Refused
  <2>5. CASE c.cmd = "GET_GENERAL"
    BY <2>1, <2>5 DEF ClockHandle, Done, Refused
  <2>6. CASE c.cmd = "GET_TIME"
    BY <2>1, <2>6 DEF ClockHandle, Done, Refused
  <2>7. QED
    BY <1>4, <2>2, <2>3, <2>4, <2>5, <2>6 DEF ClockCmds
<1>5. CASE c.cmd \notin HashCmds \cup QrCmds \cup KeyCmds \cup ClockCmds
  BY <1>5 DEF ToolHandle, WifiHandle, Done
<1>6. QED
  BY <1>1, <1>2, <1>3, <1>4, <1>5

LEMMA ToolKeepFields ==
  ASSUME NEW c, NEW ok, NEW r, NEW o, NEW m \in ToolKeep(c, ok, r, o, mem)
  PROVE  DOMAIN m = DOMAIN mem
<1>1. CASE c.cmd = "HASH_LENGTH"
  BY <1>1 DEF ToolKeep, KeepHashLength
<1>2. CASE c.cmd = "QRCODE_LENGTH"
  BY <1>2 DEF ToolKeep, KeepQrLength
<1>3. CASE c.cmd = "GET_WIFI_ENABLED"
  BY <1>3 DEF ToolKeep, KeepWifi
<1>4. CASE c.cmd \in {"HASH_OUTPUT", "QRCODE_OUTPUT", "READ_APPKEY", "GET_GENERAL", "GET_TIME"}
  BY <1>4 DEF ToolKeep
<1>5. CASE c.cmd \notin {"HASH_LENGTH", "QRCODE_LENGTH", "GET_WIFI_ENABLED", "HASH_OUTPUT",
                        "QRCODE_OUTPUT", "READ_APPKEY", "GET_GENERAL", "GET_TIME"}
  BY <1>5 DEF ToolKeep
<1>6. QED
  BY <1>1, <1>2, <1>3, <1>4, <1>5

LEMMA FileKeepFields ==
  ASSUME NEW c, NEW ok, NEW r, NEW m \in FileKeep(c, ok, r, mem)
  PROVE  DOMAIN m = DOMAIN mem
<1>1. CASE c.cmd = "READ_DIR_ENTRY"
  BY <1>1 DEF FileKeep
<1>2. CASE c.cmd = "CLOSE_DIRECTORY" /\ mem.step = "source"
  BY <1>2 DEF FileKeep
<1>3. CASE c.cmd = "CLOSE_DIRECTORY" /\ mem.step = "dest"
  BY <1>3 DEF FileKeep
<1>4. CASE c.cmd = "STATUS" /\ ~ok
  BY <1>4 DEF FileKeep
<1>5. CASE ~(\/ c.cmd = "READ_DIR_ENTRY" \/ (c.cmd = "STATUS" /\ ~ok)
             \/ (c.cmd = "CLOSE_DIRECTORY" /\ mem.step \in {"source", "dest"}))
  BY <1>5 DEF FileKeep
<1>6. QED
  BY <1>1, <1>2, <1>3, <1>4, <1>5

LEMMA ChannelKeepFields ==
  ASSUME NEW c, NEW ok, NEW r, NEW m \in ChannelKeep(c, ok, r, mem)
  PROVE  DOMAIN m = DOMAIN mem
<1>1. CASE c.cmd = "READ" /\ ok
  BY <1>1 DEF ChannelKeep
<1>2. CASE c.cmd = "NET_STATUS" /\ r = 0
  BY <1>2 DEF ChannelKeep
<1>3. CASE ~(c.cmd = "READ" /\ ok) /\ ~(c.cmd = "NET_STATUS" /\ r = 0)
  BY <1>3 DEF ChannelKeep
<1>4. QED
  BY <1>1, <1>2, <1>3

LEMMA ToolCall ==
  ASSUME Shape, Tool, Step
  PROVE  /\ todo # <<>> /\ op \in Operations
         /\ \E h \in ToolHandle(Head(todo), tools) : ToolStep(Head(todo), h)
         /\ UNCHANGED <<theme, files, chan>>
<1> DEFINE c == Head(todo)
<1>1. todo # <<>> /\ op # Idle /\ op \in Operations
  BY DEF Step, Shape
<1>2. op.name \notin {"copy_file", "file_stat", "json_query"}
  <2>1. op.name \in Names(theme)
    BY <1>1, OperationNames
  <2>2. QED
    BY <2>1 DEF Tool, Names
<1>3. ASSUME NEW ok \in BOOLEAN, NEW reply, NEW t, Resume(c, ok, reply, t)
      PROVE  \/ ~ok /\ c.must /\ Finish(FALSE, mem, t)
             \/ /\ ok \/ ~c.must
                /\ \E m \in ToolKeep(c, ok, reply, op, mem) :
                     GoesOn(m, ToolRest(c, m, Tail(todo)), t)
  <2>1. CASE ~ok /\ c.must
    BY <1>3, <2>1 DEF Resume
  <2>2. CASE ~(~ok /\ c.must)
    <3>1. PICK m \in ToolKeep(c, ok, reply, op, mem) : GoesOn(m, ToolRest(c, m, Tail(todo)), t)
      BY <1>2, <1>3, <2>2 DEF Resume, Tool, GoesOn
    <3>2. QED
      BY <2>2, <3>1, Zenon
  <2>3. QED
    BY <2>1, <2>2
<1>4. PICK g \in Handles(c) : Answered(c, g) \/ Fails(c, g)
  BY DEF Step
<1>5. PICK h \in ToolHandle(c, tools) : g = [h EXCEPT !.dev = [FujiNet EXCEPT !.tools = h.dev]]
  BY <1>4 DEF Handles, Tool
<1>6. PICK e, r : h = Done(e, r) \/ h = Refused(e)
  BY HandleShape
<1>7. /\ g.ok = h.ok /\ g.reply = h.reply /\ h.ok \in BOOLEAN
      /\ g.dev = [tools |-> h.dev, files |-> files, chan |-> chan]
  <2>1. CASE h = Done(e, r)
    BY <1>5, <2>1 DEF Done, FujiNet
  <2>2. CASE h = Refused(e)
    BY <1>5, <2>2 DEF Refused, FujiNet
  <2>3. QED
    BY <1>6, <2>1, <2>2
<1>8. UNCHANGED <<theme, files, chan>> /\ tools' \in {tools, h.dev}
  <2>1. \E d \in {g.dev, FujiNet} : Becomes(d)
    BY <1>4 DEF Answered, Fails
  <2>2. UNCHANGED theme
    BY DEF Step
  <2>3. QED
    BY <1>7, <2>1, <2>2 DEF Becomes, FujiNet
<1>9. CASE Answered(c, g)
  <2>1. tools' = h.dev /\ Resume(c, h.ok, h.reply, told)
    BY <1>7, <1>9 DEF Answered, Becomes
  <2>2. SameTold(told)
    BY DEF SameTold
  <2>3. ToolStep(c, h)
    <3>1. CASE h.ok
      BY <1>3, <1>7, <2>1, <3>1 DEF ToolStep
    <3>2. CASE ~h.ok
      BY <1>3, <1>7, <2>1, <2>2, <3>2 DEF ToolStep
    <3>3. QED
      BY <1>7, <3>1, <3>2
  <2>4. QED
    BY <1>1, <1>8, <2>3
<1>10. CASE Fails(c, g)
  <2>1. PICK b \in BOOLEAN :
          Resume(c, FALSE, None, [told EXCEPT !.lostRead = @ \/ (b /\ c.cmd = "READ")])
    BY <1>10 DEF Fails
  <2> DEFINE t == [told EXCEPT !.lostRead = @ \/ (b /\ c.cmd = "READ")]
  <2>2. SameTold(t)
    BY DEF SameTold
  <2>3. ToolStep(c, h)
    <3>1. Resume(c, FALSE, None, t)
      BY <2>1
    <3> HIDE DEF t
    <3>2. QED
      BY <1>3, <1>8, <2>2, <3>1 DEF ToolStep
  <2>4. QED
    BY <1>1, <1>8, <2>3
<1>11. QED
  BY <1>4, <1>9, <1>10

LEMMA FinishShape ==
  ASSUME Shape, op \in Operations, NEW ok, NEW m, NEW t,
         DOMAIN m = DOMAIN mem, DOMAIN t = DOMAIN told, Finish(ok, m, t)
  PROVE  /\ DOMAIN mem' = DOMAIN MemOff /\ DOMAIN told' = DOMAIN ToldOff
         /\ op' = Idle /\ todo' = <<>> /\ result'.name \in Names(theme)
<1>1. DOMAIN told' = DOMAIN t
  BY DEF Finish, Learn
<1>2. op.name \in Names(theme)
  BY OperationNames
<1>3. result'.name = op.name
  BY DEF Finish
<1>4. QED
  BY <1>1, <1>2, <1>3 DEF Finish, Shape

LEMMA GoesOnShape ==
  ASSUME Shape, op \in Operations, op # Idle, NEW m, NEW rest, NEW t,
         DOMAIN m = DOMAIN mem, DOMAIN t = DOMAIN told, GoesOn(m, rest, t),
         UNCHANGED theme, Tool => DOMAIN tools' = DOMAIN tools
  PROVE  Shape'
<1>0. Operations' = Operations /\ Names(theme)' = Names(theme)
  BY DEF Operations, Names
<1>1. CASE rest = <<>>
  <2>1. /\ DOMAIN mem' = DOMAIN MemOff /\ DOMAIN told' = DOMAIN ToldOff
        /\ op' = Idle /\ todo' = <<>> /\ result'.name \in Names(theme)
    BY <1>1, FinishShape DEF GoesOn
  <2>2. QED
    BY <1>0, <2>1 DEF Shape, Tool
<1>2. CASE rest # <<>>
  BY <1>0, <1>2 DEF GoesOn, Shape, Tool
<1>3. QED
  BY <1>1, <1>2

LEMMA ShapeNext == Shape /\ [Next]_vars => Shape'
<1> SUFFICES ASSUME Shape, [Next]_vars PROVE Shape'
  OBVIOUS
<1>1. ASSUME NEW o \in Operations, Begin(o) PROVE Shape'
  <2>1. DOMAIN mem' = DOMAIN MemOff /\ DOMAIN told' = DOMAIN told
    BY <1>1 DEF Begin
  <2>2. Operations' = Operations /\ Names(theme)' = Names(theme)
    BY <1>1 DEF Operations, Names, Begin
  <2>3. op' = o /\ o # Idle /\ UNCHANGED <<theme, tools, result>>
    BY <1>1, OperationNames DEF Begin
  <2>4. QED
    BY <2>1, <2>2, <2>3 DEF Shape, Tool
<1>2. CASE Step
  <2>1. op \in Operations /\ op # Idle
    BY <1>2 DEF Step, Shape
  <2> DEFINE c == Head(todo)
  <2>2. PICK g \in Handles(c) : Answered(c, g) \/ Fails(c, g)
    BY <1>2 DEF Step
  <2>3. UNCHANGED theme
    BY <1>2 DEF Step
  <2>4. ASSUME Tool PROVE DOMAIN tools' = DOMAIN tools
    <3>1. PICK h \in ToolHandle(c, tools) : g = [h EXCEPT !.dev = [FujiNet EXCEPT !.tools = h.dev]]
      BY <2>2, <2>4 DEF Handles, Tool
    <3>2. PICK e, r : h = Done(e, r) \/ h = Refused(e)
      BY HandleShape
    <3>3. g.dev.tools = h.dev
      BY <3>1, <3>2 DEF FujiNet, Done, Refused
    <3>4. \E d \in {g.dev, FujiNet} : tools' = d.tools
      BY <2>2 DEF Answered, Fails, Becomes
    <3>5. QED
      BY <3>3, <3>4, HandleFields DEF FujiNet
  <2>5. PICK ok, reply, t : Resume(c, ok, reply, t) /\ DOMAIN t = DOMAIN told
    <3>1. CASE Answered(c, g)
      BY <3>1 DEF Answered
    <3>2. CASE Fails(c, g)
      <4>1. PICK b \in BOOLEAN :
              Resume(c, FALSE, None, [told EXCEPT !.lostRead = @ \/ (b /\ c.cmd = "READ")])
        BY <3>2 DEF Fails
      <4>2. DOMAIN [told EXCEPT !.lostRead = @ \/ (b /\ c.cmd = "READ")] = DOMAIN told
        OBVIOUS
      <4>3. QED
        BY <4>1, <4>2, Zenon
    <3>3. QED
      BY <2>2, <3>1, <3>2
  <2>6. \E m, rest : DOMAIN m = DOMAIN mem /\ (GoesOn(m, rest, t) \/ Finish(FALSE, m, t))
    <3>1. CASE ~ok /\ c.must
      BY <2>5, <3>1 DEF Resume
    <3>2. CASE ~(~ok /\ c.must)
      <4>1. PICK m \in CASE theme = "file"    -> FileKeep(c, ok, reply, mem)
                         [] theme = "channel" -> ChannelKeep(c, ok, reply, mem)
                         [] OTHER             -> ToolKeep(c, ok, reply, op, mem) :
              \E m2, rest : /\ m2 = m \/ \E x, y : m2 = [m EXCEPT !.step = x, !.ok = y]
                            /\ GoesOn(m2, rest, t)
        BY <2>5, <3>2 DEF Resume, GoesOn
      <4>2. DOMAIN m = DOMAIN mem
        <5>1. CASE theme = "file"
          BY <4>1, <5>1, FileKeepFields
        <5>2. CASE theme = "channel"
          BY <4>1, <5>2, ChannelKeepFields
        <5>3. CASE Tool
          BY <4>1, <5>3, ToolKeepFields DEF Tool
        <5>4. QED
          BY <5>1, <5>2, <5>3 DEF Tool
      <4>3. QED
        BY <4>1, <4>2
    <3>3. QED
      BY <3>1, <3>2
  <2>7. PICK m, rest : DOMAIN m = DOMAIN mem /\ (GoesOn(m, rest, t) \/ Finish(FALSE, m, t))
    BY <2>6
  <2>8. CASE GoesOn(m, rest, t)
    BY <2>1, <2>3, <2>4, <2>5, <2>7, <2>8, GoesOnShape
  <2>9. CASE Finish(FALSE, m, t)
    <3>1. /\ DOMAIN mem' = DOMAIN MemOff /\ DOMAIN told' = DOMAIN ToldOff
          /\ op' = Idle /\ todo' = <<>> /\ result'.name \in Names(theme)
      BY <2>1, <2>5, <2>7, <2>9, FinishShape
    <3>2. Names(theme)' = Names(theme)
      BY <2>3 DEF Names
    <3>3. QED
      BY <2>3, <2>4, <3>1, <3>2 DEF Shape, Tool
  <2>10. QED
    BY <2>7, <2>8, <2>9
<1>3. CASE NoCall
  <2>1. Finish(mem.ok, mem, told) /\ op \in Operations /\ UNCHANGED <<theme, tools>>
    BY <1>3 DEF NoCall, Shape
  <2>2. /\ DOMAIN mem' = DOMAIN MemOff /\ DOMAIN told' = DOMAIN ToldOff
        /\ op' = Idle /\ todo' = <<>> /\ result'.name \in Names(theme)
    BY <2>1, FinishShape
  <2>3. Names(theme)' = Names(theme)
    BY <2>1 DEF Names
  <2>4. QED
    BY <2>1, <2>2, <2>3 DEF Shape, Tool
<1>4. ASSUME UNCHANGED <<theme, tools, op, todo, mem, told, result>> PROVE Shape'
  <2>1. Operations' = Operations /\ Names(theme)' = Names(theme)
    BY <1>4 DEF Operations, Names
  <2>2. QED
    BY <1>4, <2>1 DEF Shape, Tool
<1>5. CASE CopyEnds
  BY <1>4, <1>5 DEF CopyEnds
<1>6. CASE UNCHANGED vars
  BY <1>4, <1>6 DEF vars
<1>7. QED
  BY <1>1, <1>2, <1>3, <1>5, <1>6 DEF Next

LEMMA ShapeHolds == Spec => []Shape
BY ShapeInit, ShapeNext, PTL DEF Spec

(* An operation that gives up reports a failure. *)
GivenUp ==
  /\ op' = Idle /\ todo' = <<>> /\ mem' = mem
  /\ result'.name = op.name /\ result'.ok = FALSE
  /\ \E t : SameTold(t) /\ told' = Learn(op, FALSE, t)

LEMMA MustStep ==
  ASSUME NEW c, NEW h, c.must, ToolStep(c, h)
  PROVE  \/ /\ h.ok /\ tools' = h.dev
            /\ \E m \in ToolKeep(c, TRUE, h.reply, op, mem) :
                 GoesOn(m, ToolRest(c, m, Tail(todo)), told)
         \/ tools' \in {tools, h.dev} /\ GivenUp
<1>1. ASSUME NEW t, SameTold(t), Finish(FALSE, mem, t) PROVE GivenUp
  BY <1>1 DEF Finish, GivenUp
<1>2. QED
  BY <1>1 DEF ToolStep

Valued == {"HASH_OUTPUT", "QRCODE_OUTPUT", "READ_APPKEY", "GET_GENERAL", "GET_TIME"}
Kept == Valued \cup {"HASH_LENGTH", "QRCODE_LENGTH", "GET_WIFI_ENABLED"}

(* A call of which the program keeps nothing. *)
LEMMA PlainAnswer ==
  ASSUME NEW c, NEW ok, NEW r, NEW rest, NEW t, c.cmd \notin Kept,
         \E m \in ToolKeep(c, ok, r, op, mem) : GoesOn(m, ToolRest(c, m, rest), t)
  PROVE  GoesOn(mem, rest, t)
<1>1. PICK m \in ToolKeep(c, ok, r, op, mem) : GoesOn(m, ToolRest(c, m, rest), t)
  OBVIOUS
<1>2. m = mem /\ ToolRest(c, m, rest) = rest
  BY DEF ToolKeep, ToolRest, Kept, Valued
<1>3. QED
  BY <1>1, <1>2, Zenon

(* A call whose reply is the operation's value. *)
WithValue(r) == [mem EXCEPT !.value = r]

LEMMA ValueAnswer ==
  ASSUME NEW c, NEW ok, NEW r, NEW rest, NEW t, c.cmd \in Valued,
         \E m \in ToolKeep(c, ok, r, op, mem) : GoesOn(m, ToolRest(c, m, rest), t)
  PROVE  GoesOn(WithValue(r), rest, t)
<1>1. PICK m \in ToolKeep(c, ok, r, op, mem) : GoesOn(m, ToolRest(c, m, rest), t)
  OBVIOUS
<1>2. m = WithValue(r)
  BY DEF ToolKeep, WithValue, Valued
<1>3. ToolRest(c, m, rest) = rest
  BY DEF ToolRest, Valued
<1>4. QED
  BY <1>1, <1>2, <1>3, Zenon

(* A call the operation gives up on when it fails, and of which it keeps
   nothing, or the reply. *)
LEMMA PlainMust ==
  ASSUME NEW c, NEW h, c.must, c.cmd \notin Kept, ToolStep(c, h)
  PROVE  \/ h.ok /\ tools' = h.dev /\ GoesOn(mem, Tail(todo), told)
         \/ tools' \in {tools, h.dev} /\ GivenUp
<1>1. ASSUME \E m \in ToolKeep(c, TRUE, h.reply, op, mem) :
               GoesOn(m, ToolRest(c, m, Tail(todo)), told)
      PROVE  GoesOn(mem, Tail(todo), told)
  BY <1>1, PlainAnswer
<1>2. QED
  BY <1>1, MustStep

LEMMA ValueMust ==
  ASSUME NEW c, NEW h, c.must, c.cmd \in Valued, ToolStep(c, h)
  PROVE  \/ h.ok /\ tools' = h.dev /\ GoesOn(WithValue(h.reply), Tail(todo), told)
         \/ tools' \in {tools, h.dev} /\ GivenUp
<1>1. ASSUME \E m \in ToolKeep(c, TRUE, h.reply, op, mem) :
               GoesOn(m, ToolRest(c, m, Tail(todo)), told)
      PROVE  GoesOn(WithValue(h.reply), Tail(todo), told)
  BY <1>1, ValueAnswer
<1>2. QED
  BY <1>1, MustStep

(* What the program knows afterwards: an operation that has failed, other than
   clock_get_time, leaves it in doubt. *)
LEMMA GivenUpTold ==
  ASSUME Shape, GivenUp, op.name \notin {"open", "close", "json_parse", "html_parse"}
  PROVE  /\ told'.unsure = IF op.name = "get_time" THEN told.unsure ELSE TRUE
         /\ told'.hash = told.hash /\ told'.zone = told.zone
<1>1. PICK t : SameTold(t) /\ told' = Learn(op, FALSE, t)
  BY DEF GivenUp
<1>2. DOMAIN t = DOMAIN ToldOff /\ t.unsure = told.unsure /\ t.hash = told.hash /\ t.zone = told.zone
  BY <1>1 DEF SameTold, Shape, ToldOff
<1>3. QED
  BY <1>1, <1>2 DEF Learn, ToldOff

(***************************************************************************)
(* App keys.                                                               *)
(***************************************************************************)

KeyPhase ==
  \/ op.name = "read_appkey" /\ todo = ReadKey(mem.creator)
  \/ /\ op.name = "read_appkey" /\ todo = <<Must("READ_APPKEY", None)>>
     /\ tools.keyOpen = [creator |-> mem.creator, mode |-> 0]
  \/ op.name = "write_appkey" /\ todo = WriteKey(mem.creator, op)
  \/ /\ op.name = "write_appkey" /\ todo = <<Must("WRITE_APPKEY", op.data)>>
     /\ tools.keyOpen = [creator |-> mem.creator, mode |-> 1]
  \/ op.name = "set_appkey_details" /\ todo = <<>>

(* A key is read or written only after the same operation has opened the key
   of the program's creator. *)
KeyInv ==
  theme = "key" =>
    /\ DOMAIN tools.keys = Creators
    /\ mem.creator \in Creators
    /\ op # Idle => KeyPhase
    /\ KeyAsked

LEMMA KeyInit == Init => KeyInv
<1>1. MemOff.creator \in Creators
  <2>1. (CHOOSE c \in Creators : TRUE) \in Creators
    BY ToolsAssumption DEF ToolsAssumption
  <2>2. QED
    BY <2>1 DEF MemOff
<1>2. QED
  BY <1>1 DEF Init, KeyInv, KeyAsked, Succeeded, NoResult, ToolsOff, Idle, None

LEMMA KeyBegin ==
  ASSUME Shape, KeyInv, NEW o \in Operations, Begin(o)
  PROVE  KeyInv'
<1> SUFFICES ASSUME theme = "key" PROVE KeyInv'
  BY DEF Begin, KeyInv
<1>1. /\ op' = o /\ UNCHANGED <<theme, tools, result>>
      /\ mem'.creator = IF o.name = "set_appkey_details" THEN o.creator ELSE mem.creator
      /\ todo' = ToolScript(o, mem)
  BY DEF Begin, Script, MemOff
<1>2. o # Idle
  BY OperationNames
<1>3. KeyAsked'
  BY <1>1, <1>2 DEF KeyAsked, Succeeded
<1>4. o \in ToolOps(theme)
  BY DEF Operations
<1>5. CASE o.name = "read_appkey"
  BY <1>1, <1>3, <1>5 DEF KeyInv, KeyPhase, ToolScript
<1>6. CASE o.name = "write_appkey"
  BY <1>1, <1>3, <1>6 DEF KeyInv, KeyPhase, ToolScript
<1>7. CASE o.name = "set_appkey_details"
  <2>1. o.creator \in Creators
    BY <1>4, <1>7 DEF ToolOps
  <2>2. QED
    BY <1>1, <1>3, <1>7, <2>1 DEF KeyInv, KeyPhase, ToolScript
<1>8. QED
  BY <1>5, <1>6, <1>7, OperationNames DEF Names

LEMMA KeyStep ==
  ASSUME Shape, KeyInv, Step
  PROVE  KeyInv'
<1> SUFFICES ASSUME theme = "key" PROVE KeyInv'
  BY DEF Step, KeyInv
<1> DEFINE c == Head(todo)
<1>1. /\ todo # <<>> /\ op \in Operations /\ op # Idle /\ UNCHANGED theme
      /\ \E h \in ToolHandle(c, tools) : ToolStep(c, h)
  BY ToolCall, OperationNames DEF Tool
<1>2. PICK h \in ToolHandle(c, tools) : ToolStep(c, h)
  BY <1>1
<1>3. KeyPhase /\ DOMAIN tools.keys = Creators /\ mem.creator \in Creators
  BY <1>1, OperationNames DEF KeyInv
<1>4. ASSUME c.cmd \in KeyCmds PROVE h = KeyHandle(c, tools)
  BY <1>4, ToKey
<1>5. ASSUME GivenUp, DOMAIN tools'.keys = Creators PROVE KeyInv'
  BY <1>1, <1>3, <1>5 DEF GivenUp, KeyInv, KeyAsked, Succeeded
<1>6. DOMAIN tools = DOMAIN ToolsOff /\ DOMAIN mem = DOMAIN MemOff
  BY DEF Shape, Tool
<1>7. ASSUME NEW mode, c = OpenKey(mem.creator, mode), Tail(todo) # <<>>
      PROVE  \/ KeyInv'
             \/ /\ tools'.keyOpen = [creator |-> mem.creator, mode |-> mode]
                /\ tools'.keys = tools.keys
                /\ todo' = Tail(todo) /\ UNCHANGED <<op, mem, result>>
  <2>1. c.cmd = "OPEN_APPKEY" /\ c.must /\ c.arg = [creator |-> mem.creator, mode |-> mode]
    BY <1>7 DEF OpenKey, Must
  <2>2. h = Done([tools EXCEPT !.keyOpen = c.arg], None)
    BY <1>4, <2>1 DEF KeyHandle, KeyCmds
  <2>3. h.dev.keys = tools.keys /\ h.dev.keyOpen = c.arg /\ h.ok
    BY <1>6, <2>2 DEF Done, ToolsOff
  <2>4. CASE tools' \in {tools, h.dev} /\ GivenUp
    BY <1>3, <1>5, <2>3, <2>4
  <2>5. CASE tools' = h.dev /\ GoesOn(mem, Tail(todo), told)
    BY <1>7, <2>1, <2>3, <2>5 DEF GoesOn
  <2>6. c.cmd \notin Kept
    BY <2>1 DEF Kept, Valued
  <2> HIDE DEF c
  <2>7. QED
    BY <1>2, <2>1, <2>4, <2>5, <2>6, PlainMust
<1>8. CASE op.name = "read_appkey" /\ todo = ReadKey(mem.creator)
  <2>1. c = OpenKey(mem.creator, 0) /\ Tail(todo) = <<Must("READ_APPKEY", None)>>
    BY <1>8 DEF ReadKey
  <2>2. CASE /\ tools'.keyOpen = [creator |-> mem.creator, mode |-> 0]
             /\ tools'.keys = tools.keys
             /\ todo' = Tail(todo) /\ UNCHANGED <<op, mem, result>>
    <3>1. KeyPhase'
      BY <1>8, <2>1, <2>2 DEF KeyPhase
    <3>2. KeyAsked'
      BY <1>1, <2>2 DEF KeyAsked, Succeeded
    <3>3. QED
      BY <1>1, <1>3, <2>2, <3>1, <3>2 DEF KeyInv
  <2>3. Tail(todo) # <<>>
    BY <2>1
  <2>4. QED
    BY <1>7, <2>1, <2>2, <2>3
<1>9. CASE /\ op.name = "read_appkey" /\ todo = <<Must("READ_APPKEY", None)>>
           /\ tools.keyOpen = [creator |-> mem.creator, mode |-> 0]
  <2>1. c.cmd = "READ_APPKEY" /\ c.must /\ Tail(todo) = <<>>
    BY <1>9 DEF Must
  <2>2. h = Done(tools, tools.keys[mem.creator]) \/ h = Refused(tools)
    BY <1>3, <1>4, <1>9, <2>1 DEF KeyHandle, KeyCmds
  <2>3. CASE tools' \in {tools, h.dev} /\ GivenUp
    BY <1>3, <1>5, <2>2, <2>3 DEF Done, Refused
  <2>4. CASE h.ok /\ tools' = h.dev /\ GoesOn(WithValue(h.reply), Tail(todo), told)
    <3>1. h.reply = tools.keys[mem.creator] /\ tools' = tools
      BY <2>2, <2>4 DEF Done, Refused
    <3>2. op' = Idle /\ mem'.creator = mem.creator /\ mem'.value = h.reply
      BY <1>6, <2>1, <2>4 DEF GoesOn, Finish, MemOff, WithValue
    <3>3. result'.name = "read_appkey" /\ result'.value = h.reply
      BY <1>6, <1>9, <2>1, <2>4 DEF GoesOn, Finish, MemOff, WithValue
    <3>4. QED
      BY <1>1, <1>3, <3>1, <3>2, <3>3 DEF KeyInv, KeyAsked, Succeeded
  <2>5. c.cmd \in Valued
    BY <2>1 DEF Valued
  <2> HIDE DEF c
  <2>6. QED
    BY <1>2, <2>1, <2>3, <2>4, <2>5, ValueMust
<1>10. CASE op.name = "write_appkey" /\ todo = WriteKey(mem.creator, op)
  <2>1. c = OpenKey(mem.creator, 1) /\ Tail(todo) = <<Must("WRITE_APPKEY", op.data)>>
    BY <1>10 DEF WriteKey
  <2>2. CASE /\ tools'.keyOpen = [creator |-> mem.creator, mode |-> 1]
             /\ tools'.keys = tools.keys
             /\ todo' = Tail(todo) /\ UNCHANGED <<op, mem, result>>
    <3>1. KeyPhase'
      BY <1>10, <2>1, <2>2 DEF KeyPhase
    <3>2. KeyAsked'
      BY <1>1, <2>2 DEF KeyAsked, Succeeded
    <3>3. QED
      BY <1>1, <1>3, <2>2, <3>1, <3>2 DEF KeyInv
  <2>3. Tail(todo) # <<>>
    BY <2>1
  <2>4. QED
    BY <1>7, <2>1, <2>2, <2>3
<1>11. CASE /\ op.name = "write_appkey" /\ todo = <<Must("WRITE_APPKEY", op.data)>>
            /\ tools.keyOpen = [creator |-> mem.creator, mode |-> 1]
  <2>1. c.cmd = "WRITE_APPKEY" /\ c.must /\ c.arg = op.data /\ Tail(todo) = <<>>
    BY <1>11 DEF Must
  <2>2. h = Done([tools EXCEPT !.keys[mem.creator] = op.data], None)
    BY <1>3, <1>4, <1>11, <2>1 DEF KeyHandle, KeyCmds
  <2>3. /\ h.ok /\ DOMAIN h.dev.keys = Creators
        /\ h.dev.keys[mem.creator] = op.data
    BY <1>3, <1>6, <2>2 DEF Done, ToolsOff
  <2>4. CASE tools' \in {tools, h.dev} /\ GivenUp
    BY <1>3, <1>5, <2>3, <2>4
  <2>5. CASE tools' = h.dev /\ GoesOn(mem, Tail(todo), told)
    <3>1. /\ op' = Idle /\ mem' = mem
          /\ result'.name = "write_appkey" /\ result'.op = op
      BY <1>11, <2>1, <2>5 DEF GoesOn, Finish
    <3>2. QED
      BY <1>1, <1>3, <2>3, <2>5, <3>1 DEF KeyInv, KeyAsked, Succeeded
  <2>6. c.cmd \notin Kept
    BY <2>1 DEF Kept, Valued
  <2> HIDE DEF c
  <2>7. QED
    BY <1>2, <2>1, <2>4, <2>5, <2>6, PlainMust
<1>12. QED
  BY <1>1, <1>3, <1>8, <1>9, <1>10, <1>11 DEF KeyPhase

LEMMA KeyNext == Shape /\ KeyInv /\ [Next]_vars => KeyInv'
<1> SUFFICES ASSUME Shape, KeyInv, [Next]_vars PROVE KeyInv'
  OBVIOUS
<1>1. ASSUME UNCHANGED <<theme, tools, op, todo, mem, result>> PROVE KeyInv'
  BY <1>1 DEF KeyInv, KeyPhase, KeyAsked, Succeeded
<1>2. CASE NoCall
  <2> SUFFICES ASSUME theme = "key" PROVE KeyInv'
    BY <1>2 DEF NoCall, KeyInv
  <2>1. op # Idle /\ todo = <<>> /\ KeyPhase
    BY <1>2 DEF NoCall, KeyInv
  <2>2. op.name = "set_appkey_details"
    BY <2>1 DEF KeyPhase, ReadKey, WriteKey
  <2>3. /\ op' = Idle /\ mem' = mem /\ UNCHANGED <<theme, tools>>
        /\ result'.name = "set_appkey_details"
    BY <1>2, <2>2 DEF NoCall, Finish
  <2>4. QED
    BY <2>3 DEF KeyInv, KeyAsked, Succeeded
<1>3. CASE CopyEnds
  BY <1>1, <1>3 DEF CopyEnds
<1>4. CASE UNCHANGED vars
  BY <1>1, <1>4 DEF vars
<1>5. QED
  BY <1>2, <1>3, <1>4, KeyBegin, KeyStep DEF Next

(* fuji_read_appkey() returns the key of the program's creator,
   fuji_write_appkey() has stored its data under it, although an earlier OPEN
   of another creator's key, or of the same for the other direction, may have
   been carried out with its answer lost. *)
THEOREM KeyAskedCorrect == Spec => []KeyAsked
<1>1. Spec => []KeyInv
  BY KeyInit, KeyNext, ShapeHolds, PTL DEF Spec
<1>2. Shape /\ KeyInv => KeyAsked
  BY DEF Shape, KeyInv, KeyAsked, Succeeded, Names, None
<1>3. QED
  BY <1>1, <1>2, ShapeHolds, PTL

(***************************************************************************)
(* QR codes.                                                               *)
(***************************************************************************)

QrTail1 == <<Must("QRCODE_ENCODE", None), Must("QRCODE_LENGTH", None), Must("QRCODE_OUTPUT", None)>>
QrTail2 == <<Must("QRCODE_LENGTH", None), Must("QRCODE_OUTPUT", None)>>
QrTail3 == <<Must("QRCODE_OUTPUT", None)>>

QrPhase ==
  \/ todo = QrCreate(op) /\ (told.unsure \/ tools.qrIn = <<>>)
  \/ todo = QrTail1 /\ (told.unsure \/ tools.qrIn = <<op.data>>)
  \/ todo \in {QrTail2, QrTail3} /\ (told.unsure \/ (tools.qrIn = <<>> /\ tools.code = <<op.data>>))

(* As long as no qrcode_create has failed the FujiNet has none of an earlier
   one's input; from the encoding on the code is that of the operation's own
   data. *)
QrInv ==
  theme = "qr" =>
    /\ op = Idle => told.unsure \/ tools.qrIn = <<>>
    /\ op # Idle => QrPhase
    /\ CodeOfOwnData

LEMMA QrScript ==
  ASSUME NEW o
  PROVE  QrCreate(o) = <<Must("QRCODE_INPUT", o.data)>> \o QrTail1
         /\ Head(QrCreate(o)) = Must("QRCODE_INPUT", o.data) /\ Tail(QrCreate(o)) = QrTail1
         /\ QrCreate(o) # <<>>
<1>1. QrCreate(o) = <<Must("QRCODE_INPUT", o.data)>> \o QrTail1
  BY DEF QrCreate, QrInput, QrTail1
<1>2. QrCreate(o) = <<Must("QRCODE_INPUT", o.data), Must("QRCODE_ENCODE", None),
                      Must("QRCODE_LENGTH", None), Must("QRCODE_OUTPUT", None)>>
  BY <1>1, OneAndThree DEF QrTail1
<1>3. /\ Head(QrCreate(o)) = Must("QRCODE_INPUT", o.data) /\ Tail(QrCreate(o)) = QrTail1
      /\ QrCreate(o) # <<>>
  BY <1>2 DEF QrTail1
<1>4. QED
  BY <1>1, <1>3

LEMMA QrTails == QrTail1 # <<>> /\ QrTail2 # <<>> /\ QrTail3 # <<>>
BY DEF QrTail1, QrTail2, QrTail3

LEMMA QrInit == Init => QrInv
BY DEF Init, QrInv, CodeOfOwnData, Succeeded, NoResult, ToolsOff, Idle, None

LEMMA QrBegin ==
  ASSUME Shape, QrInv, NEW o \in Operations, Begin(o)
  PROVE  QrInv'
<1> SUFFICES ASSUME theme = "qr" PROVE QrInv'
  BY DEF Begin, QrInv
<1>1. op' = o /\ o # Idle /\ op = Idle /\ UNCHANGED <<theme, tools, result>>
  BY OperationNames DEF Begin
<1>2. told'.unsure = told.unsure
  BY DEF Begin, Shape, ToldOff
<1>3. o.name = "qrcode_create"
  BY OperationNames DEF Names
<1>4. todo' = QrCreate(o)
  BY <1>3 DEF Begin, Script, ToolScript
<1>5. CodeOfOwnData'
  BY <1>1 DEF CodeOfOwnData, Succeeded
<1>6. QrPhase'
  BY <1>1, <1>2, <1>4 DEF QrPhase, QrInv
<1>7. QED
  BY <1>1, <1>5, <1>6 DEF QrInv

LEMMA QrStep ==
  ASSUME Shape, QrInv, Step
  PROVE  QrInv'
<1> SUFFICES ASSUME theme = "qr" PROVE QrInv'
  BY DEF Step, QrInv
<1> DEFINE c == Head(todo)
<1>1. /\ todo # <<>> /\ op \in Operations /\ op # Idle /\ UNCHANGED theme
      /\ \E h \in ToolHandle(c, tools) : ToolStep(c, h)
  BY ToolCall, OperationNames DEF Tool
<1>2. PICK h \in ToolHandle(c, tools) : ToolStep(c, h)
  BY <1>1
<1>3. QrPhase /\ op.name = "qrcode_create"
  BY <1>1, OperationNames DEF QrInv, Names
<1>4. ASSUME c.cmd \in QrCmds PROVE h = QrHandle(c, tools)
  BY <1>4, ToQr
<1>5. ASSUME GivenUp PROVE QrInv'
  <2>1. told'.unsure
    BY <1>3, <1>5, GivenUpTold
  <2>2. QED
    BY <1>5, <2>1 DEF GivenUp, QrInv, CodeOfOwnData, Succeeded
<1>6. DOMAIN tools = DOMAIN ToolsOff /\ DOMAIN mem = DOMAIN MemOff /\ DOMAIN told = DOMAIN ToldOff
  BY DEF Shape, Tool
<1>7. ASSUME QrPhase', UNCHANGED <<op, result>> PROVE QrInv'
  BY <1>1, <1>7 DEF QrInv, CodeOfOwnData, Succeeded
<1>8. CASE todo = QrCreate(op) /\ (told.unsure \/ tools.qrIn = <<>>)
  <2>1. c = Must("QRCODE_INPUT", op.data) /\ Tail(todo) = QrTail1
    BY <1>8, QrScript
  <2>2. c.must /\ c.cmd = "QRCODE_INPUT" /\ c.arg = op.data
    BY <2>1 DEF Must
  <2>3. h = Done([tools EXCEPT !.qrIn = Append(@, op.data)], None)
    BY <1>4, <2>2 DEF QrHandle, QrCmds
  <2>4. h.dev.qrIn = Append(tools.qrIn, op.data)
    BY <1>6, <2>3 DEF Done, ToolsOff
  <2>5. CASE tools' = h.dev /\ GoesOn(mem, Tail(todo), told)
    <3>1. todo' = QrTail1 /\ UNCHANGED <<op, result, told>>
      BY <2>1, <2>5, QrTails DEF GoesOn
    <3>2. Append(<<>>, op.data) = <<op.data>>
      OBVIOUS
    <3>3. told.unsure \/ tools'.qrIn = <<op.data>>
      BY <1>8, <2>4, <2>5, <3>2
    <3>4. QED
      BY <1>7, <3>1, <3>3 DEF QrPhase
  <2>6. c.cmd \notin Kept
    BY <2>2 DEF Kept, Valued
  <2> HIDE DEF c
  <2>7. QED
    BY <1>2, <1>5, <2>2, <2>5, <2>6, PlainMust
<1>9. CASE todo = QrTail1 /\ (told.unsure \/ tools.qrIn = <<op.data>>)
  <2>1. c = Must("QRCODE_ENCODE", None) /\ Tail(todo) = QrTail2
    BY <1>9 DEF QrTail1, QrTail2
  <2>2. c.must /\ c.cmd = "QRCODE_ENCODE"
    BY <2>1 DEF Must
  <2>3. h = Done([tools EXCEPT !.code = tools.qrIn, !.qrIn = <<>>], None)
    BY <1>4, <2>2 DEF QrHandle, QrCmds
  <2>4. h.dev.qrIn = <<>> /\ h.dev.code = tools.qrIn
    BY <1>6, <2>3 DEF Done, ToolsOff
  <2>5. CASE tools' = h.dev /\ GoesOn(mem, Tail(todo), told)
    <3>1. todo' = QrTail2 /\ UNCHANGED <<op, result, told>>
      BY <2>1, <2>5, QrTails DEF GoesOn
    <3>2. QED
      BY <1>7, <1>9, <2>4, <2>5, <3>1 DEF QrPhase
  <2>6. c.cmd \notin Kept
    BY <2>2 DEF Kept, Valued
  <2> HIDE DEF c
  <2>7. QED
    BY <1>2, <1>5, <2>2, <2>5, <2>6, PlainMust
<1>10. CASE todo = QrTail2 /\ (told.unsure \/ (tools.qrIn = <<>> /\ tools.code = <<op.data>>))
  <2>1. c = Must("QRCODE_LENGTH", None) /\ Tail(todo) = QrTail3
    BY <1>10 DEF QrTail2, QrTail3
  <2>2. c.must /\ c.cmd = "QRCODE_LENGTH"
    BY <2>1 DEF Must
  <2>3. h = Done(tools, Len(tools.code))
    BY <1>4, <2>2 DEF QrHandle, QrCmds
  <2>4. CASE tools' = h.dev /\ \E m \in ToolKeep(c, TRUE, h.reply, op, mem) :
                                 GoesOn(m, ToolRest(c, m, Tail(todo)), told)
    <3>1. PICK m \in ToolKeep(c, TRUE, h.reply, op, mem) :
                 GoesOn(m, ToolRest(c, m, Tail(todo)), told)
      BY <2>4
    <3>2. tools' = tools
      BY <2>3, <2>4 DEF Done
    <3>3. CASE m.ok
      <4>1. GoesOn(m, QrTail3, told)
        BY <2>1, <3>1, <3>3 DEF ToolRest
      <4>2. todo' = QrTail3 /\ UNCHANGED <<op, result, told>>
        BY <4>1, QrTails DEF GoesOn
      <4>3. QED
        BY <1>7, <1>10, <3>2, <4>2 DEF QrPhase
    <3>4. CASE ~m.ok
      <4>1. Finish(m.ok, m, told)
        BY <2>2, <3>1, <3>4 DEF ToolRest, GoesOn
      <4>2. told'.unsure /\ op' = Idle /\ ~result'.ok
        BY <1>3, <1>6, <3>4, <4>1 DEF Finish, Learn, ToldOff
      <4>3. QED
        BY <4>2 DEF QrInv, CodeOfOwnData, Succeeded
    <3>5. QED
      BY <3>3, <3>4
  <2>5. QED
    BY <1>2, <1>5, <2>2, <2>4, MustStep
<1>11. CASE todo = QrTail3 /\ (told.unsure \/ (tools.qrIn = <<>> /\ tools.code = <<op.data>>))
  <2>1. c = Must("QRCODE_OUTPUT", None) /\ Tail(todo) = <<>>
    BY <1>11 DEF QrTail3
  <2>2. c.must /\ c.cmd = "QRCODE_OUTPUT"
    BY <2>1 DEF Must
  <2>3. h = Done(tools, tools.code)
    BY <1>4, <2>2 DEF QrHandle, QrCmds
  <2>4. CASE tools' = h.dev /\ GoesOn(WithValue(h.reply), Tail(todo), told)
    <3> DEFINE m == WithValue(h.reply)
    <3>1. tools' = tools /\ h.reply = tools.code /\ m.value = h.reply
      BY <1>6, <2>3, <2>4 DEF Done, WithValue, MemOff
    <3> HIDE DEF m
    <3>2. Finish(m.ok, m, told)
      BY <2>1, <2>4 DEF GoesOn, m
    <3>3. /\ op' = Idle /\ result'.op = op /\ result'.value = tools.code
          /\ result'.unsure = told.unsure
      BY <3>1, <3>2 DEF Finish
    <3>4. told.unsure => told'.unsure
      BY <1>3, <1>6, <3>2 DEF Finish, Learn, ToldOff
    <3>5. QED
      BY <1>11, <3>1, <3>3, <3>4 DEF QrInv, CodeOfOwnData, Succeeded
  <2>5. c.cmd \in Valued
    BY <2>2 DEF Valued
  <2> HIDE DEF c
  <2>6. QED
    BY <1>2, <1>5, <2>2, <2>4, <2>5, ValueMust
<1>12. QED
  BY <1>3, <1>8, <1>9, <1>10, <1>11 DEF QrPhase

LEMMA QrNext == Shape /\ QrInv /\ [Next]_vars => QrInv'
<1> SUFFICES ASSUME Shape, QrInv, [Next]_vars PROVE QrInv'
  OBVIOUS
<1>1. ASSUME UNCHANGED <<theme, tools, op, todo, told, result>> PROVE QrInv'
  BY <1>1 DEF QrInv, QrPhase, CodeOfOwnData, Succeeded
<1>2. CASE NoCall
  <2>1. op # Idle /\ todo = <<>>
    BY <1>2 DEF NoCall
  <2>2. ~QrPhase
    BY <2>1, QrScript DEF QrPhase, QrTail1, QrTail2, QrTail3
  <2>3. QED
    BY <1>2, <2>1, <2>2 DEF NoCall, QrInv
<1>3. CASE CopyEnds
  BY <1>1, <1>3 DEF CopyEnds
<1>4. CASE UNCHANGED vars
  BY <1>1, <1>4 DEF vars
<1>5. QED
  BY <1>2, <1>3, <1>4, QrBegin, QrStep DEF Next

(* qrcode_create() returns the code of its own input alone, unless an earlier
   one has failed between its input and its encoding. *)
THEOREM CodeOfOwnDataCorrect == Spec => []CodeOfOwnData
<1>1. Spec => []QrInv
  BY QrInit, QrNext, ShapeHolds, PTL DEF Spec
<1>2. Shape /\ QrInv => CodeOfOwnData
  BY DEF Shape, QrInv, CodeOfOwnData, Succeeded, Names, None
<1>3. QED
  BY <1>1, <1>2, ShapeHolds, PTL

(***************************************************************************)
(* The clock.                                                              *)
(***************************************************************************)

Clocks == {"clock", "apple2 clock"}

TimeTail == <<Must("GET_TIME", TRUE)>>
ZoneTail == <<Must("GET_GENERAL", None)>>

ClockPhase ==
  \/ op.name = "set_tz" /\ todo = SetZone(op)
  \/ op.name = "get_tz" /\ todo \in {GetZone, ZoneTail}
  \/ /\ op.name = "get_time" /\ todo = GetTime(op, op.alt)
     /\ op.format >= TIMEFORMAT_COUNT => ~mem.ok
  \/ /\ op.name = "get_time_tz" /\ todo = GetTimeZone(op)
     /\ op.format >= TIMEFORMAT_COUNT => ~mem.ok
  \/ op.name = "get_time_tz" /\ todo = TimeTail /\ tools.alt = op.zone

(* The program knows the system's zone, unless an operation has failed that may
   have set it; the time is asked for only once the operation's own zone has
   arrived; a format that does not exist makes the operation fail. *)
ClockInv ==
  theme \in Clocks =>
    /\ told.unsure \/ tools.zone = told.zone
    /\ op # Idle => ClockPhase
    /\ TimeInZone

LEMMA TimeZoneScript ==
  ASSUME NEW o, ~(o.format >= TIMEFORMAT_COUNT)
  PROVE  /\ Head(GetTimeZone(o)) = Must("SETTZ_ALT", o.zone)
         /\ Tail(GetTimeZone(o)) = TimeTail /\ GetTimeZone(o) # <<>>
<1>1. GetTimeZone(o) = <<Must("SETTZ_ALT", o.zone)>> \o TimeTail
  BY DEF GetTimeZone, GetTime, SetAlt, TimeTail
<1>2. GetTimeZone(o) = <<Must("SETTZ_ALT", o.zone), Must("GET_TIME", TRUE)>>
  BY <1>1, TwoJoined DEF TimeTail
<1>3. QED
  BY <1>2, TwoCalls DEF TimeTail

LEMMA ClockInit == Init => ClockInv
BY DEF Init, ClockInv, TimeInZone, Succeeded, NoResult, ToolsOff, ToldOff, Idle, None

LEMMA ClockBegin ==
  ASSUME Shape, ClockInv, NEW o \in Operations, Begin(o)
  PROVE  ClockInv'
<1> SUFFICES ASSUME theme \in Clocks PROVE ClockInv'
  BY DEF Begin, ClockInv
<1>1. op' = o /\ o # Idle /\ op = Idle /\ UNCHANGED <<theme, tools, result>>
  BY OperationNames DEF Begin
<1>2. told'.unsure = told.unsure /\ told'.zone = told.zone
  BY DEF Begin, Shape, ToldOff
<1>3. o.name \in {"set_tz", "get_tz", "get_time", "get_time_tz"}
  BY OperationNames DEF Names, Clocks
<1>4. todo' = ToolScript(o, mem)
  BY DEF Begin, Script, Clocks
<1>5. TimeInZone'
  BY <1>1 DEF TimeInZone, Succeeded
<1>6. ASSUME o.name \in {"get_time", "get_time_tz"}, o.format >= TIMEFORMAT_COUNT
      PROVE  ~mem'.ok
  <2>1. o \in ToolOps(theme)
    BY DEF Operations, Clocks
  <2>2. "format" \in DOMAIN o
    BY <1>6, <2>1 DEF ToolOps, Clocks
  <2>3. QED
    BY <1>6, <2>2 DEF Begin, MemOff
<1>7. ClockPhase'
  <2>1. CASE o.name = "set_tz"
    BY <1>1, <1>4, <2>1 DEF ClockPhase, ToolScript
  <2>2. CASE o.name = "get_tz"
    BY <1>1, <1>4, <2>2 DEF ClockPhase, ToolScript
  <2>3. CASE o.name = "get_time"
    BY <1>1, <1>4, <1>6, <2>3 DEF ClockPhase, ToolScript
  <2>4. CASE o.name = "get_time_tz"
    BY <1>1, <1>4, <1>6, <2>4 DEF ClockPhase, ToolScript
  <2>5. QED
    BY <1>3, <2>1, <2>2, <2>3, <2>4
<1>8. QED
  BY <1>1, <1>2, <1>5, <1>7 DEF ClockInv

LEMMA ClockStep ==
  ASSUME Shape, ClockInv, Step
  PROVE  ClockInv'
<1> SUFFICES ASSUME theme \in Clocks PROVE ClockInv'
  BY DEF Step, ClockInv
<1> DEFINE c == Head(todo)
<1>1. /\ todo # <<>> /\ op \in Operations /\ op # Idle /\ UNCHANGED theme
      /\ \E h \in ToolHandle(c, tools) : ToolStep(c, h)
  BY ToolCall, OperationNames DEF Tool, Clocks
<1>2. PICK h \in ToolHandle(c, tools) : ToolStep(c, h)
  BY <1>1
<1>3. /\ ClockPhase /\ TimeInZone /\ (told.unsure \/ tools.zone = told.zone)
      /\ op.name \in {"set_tz", "get_tz", "get_time", "get_time_tz"}
  BY <1>1, OperationNames DEF ClockInv, Names, Clocks
<1>4. ASSUME c.cmd \in ClockCmds PROVE h = ClockHandle(c, tools)
  BY <1>4, ToClock
<1>5. ASSUME GivenUp, op.name = "get_time" => tools' = tools PROVE ClockInv'
  <2>1. told'.unsure \/ tools'.zone = told'.zone
    BY <1>3, <1>5, GivenUpTold
  <2>2. QED
    BY <1>1, <1>5, <2>1 DEF GivenUp, ClockInv, TimeInZone, Succeeded
<1>6. DOMAIN tools = DOMAIN ToolsOff /\ DOMAIN mem = DOMAIN MemOff /\ DOMAIN told = DOMAIN ToldOff
  BY DEF Shape, Tool, Clocks
<1>7. ASSUME ClockPhase', UNCHANGED <<op, result, told>>, tools'.zone = tools.zone PROVE ClockInv'
  BY <1>1, <1>3, <1>7 DEF ClockInv, TimeInZone, Succeeded

(* An operation that has got its value, and has not set the zone. *)
<1>8. ASSUME NEW v, tools' = tools, GoesOn(WithValue(v), <<>>, told),
             op.name \in {"get_tz", "get_time", "get_time_tz"},
             op.name = "get_tz" => v = tools.zone,
             op.name = "get_time" => v = IF op.alt THEN tools.alt ELSE tools.zone,
             op.name = "get_time_tz" => v = op.zone
      PROVE  ClockInv'
  <2> DEFINE m == WithValue(v)
  <2>1. m.value = v
    BY <1>6 DEF WithValue, MemOff
  <2>2. Finish(m.ok, m, told)
    BY <1>8 DEF GoesOn
  <2> HIDE DEF m
  <2>3. op' = Idle /\ result'.op = op /\ result'.name = op.name /\ result'.value = v
    BY <2>1, <2>2 DEF Finish
  <2>4. (told'.unsure \/ told'.unsure = told.unsure) /\ told'.zone = told.zone
    BY <1>6, <1>8, <2>2 DEF Finish, Learn, ToldOff
  <2>5. told'.unsure \/ tools'.zone = told'.zone
    BY <1>3, <1>8, <2>4
  <2>6. TimeInZone'
    BY <1>8, <2>3, <2>5 DEF TimeInZone, Succeeded
  <2>7. QED
    BY <2>3, <2>5, <2>6 DEF ClockInv
<1>9. CASE op.name = "set_tz" /\ todo = SetZone(op)
  <2>1. c = Must("SETTZ_MAIN", op.zone) /\ Tail(todo) = <<>>
    BY <1>9 DEF SetZone
  <2>2. c.must /\ c.cmd = "SETTZ_MAIN" /\ c.arg = op.zone
    BY <2>1 DEF Must
  <2>3. h = Done([tools EXCEPT !.zone = op.zone], None)
    BY <1>4, <2>2 DEF ClockHandle, ClockCmds
  <2>4. h.dev.zone = op.zone
    BY <1>6, <2>3 DEF Done, ToolsOff
  <2>5. CASE tools' = h.dev /\ GoesOn(mem, Tail(todo), told)
    <3>1. Finish(mem.ok, mem, told)
      BY <2>1, <2>5 DEF GoesOn
    <3>2. told'.unsure \/ told'.zone = op.zone
      BY <1>6, <1>9, <3>1 DEF Finish, Learn, ToldOff
    <3>3. op' = Idle /\ result'.name = "set_tz"
      BY <1>9, <3>1 DEF Finish
    <3>4. QED
      BY <2>4, <2>5, <3>2, <3>3 DEF ClockInv, TimeInZone, Succeeded
  <2>6. c.cmd \notin Kept
    BY <2>2 DEF Kept, Valued
  <2> HIDE DEF c
  <2>7. QED
    BY <1>2, <1>5, <1>9, <2>2, <2>5, <2>6, PlainMust
<1>10. CASE op.name = "get_tz" /\ todo = GetZone
  <2>1. c = Must("GETTZ_LEN", None) /\ Tail(todo) = ZoneTail
    BY <1>10 DEF GetZone, ZoneTail
  <2>2. c.must /\ c.cmd = "GETTZ_LEN"
    BY <2>1 DEF Must
  <2>3. h = Done(tools, None)
    BY <1>4, <2>2 DEF ClockHandle, ClockCmds
  <2>4. CASE tools' = h.dev /\ GoesOn(mem, Tail(todo), told)
    <3>1. ZoneTail # <<>>
      BY DEF ZoneTail
    <3>2. todo' = ZoneTail /\ UNCHANGED <<op, result, told>> /\ tools' = tools
      BY <2>1, <2>3, <2>4, <3>1 DEF GoesOn, Done
    <3>3. QED
      BY <1>7, <1>10, <3>2 DEF ClockPhase
  <2>5. c.cmd \notin Kept
    BY <2>2 DEF Kept, Valued
  <2> HIDE DEF c
  <2>6. QED
    BY <1>2, <1>5, <1>10, <2>2, <2>4, <2>5, PlainMust
<1>11. CASE op.name = "get_tz" /\ todo = ZoneTail
  <2>1. c = Must("GET_GENERAL", None) /\ Tail(todo) = <<>>
    BY <1>11 DEF ZoneTail
  <2>2. c.must /\ c.cmd = "GET_GENERAL"
    BY <2>1 DEF Must
  <2>3. h = Done(tools, tools.zone)
    BY <1>4, <2>2 DEF ClockHandle, ClockCmds
  <2>4. h.dev = tools /\ h.reply = tools.zone
    BY <2>3 DEF Done
  <2>5. c.cmd \in Valued
    BY <2>2 DEF Valued
  <2> HIDE DEF c
  <2>6. QED
    BY <1>2, <1>5, <1>8, <1>11, <2>1, <2>2, <2>4, <2>5, ValueMust
(* GET_TIME, for a zone that is in place. *)
<1>12. ASSUME NEW alt, c = Must("GET_TIME", alt), Tail(todo) = <<>>,
              op.name \in {"get_time", "get_time_tz"},
              op.name = "get_time" => alt = op.alt,
              op.name = "get_time_tz" => alt = TRUE /\ tools.alt = op.zone
       PROVE  ClockInv'
  <2>1. c.must /\ c.cmd = "GET_TIME" /\ c.arg = alt
    BY <1>12 DEF Must
  <2>2. h = Done(tools, IF alt THEN tools.alt ELSE tools.zone)
    BY <1>4, <2>1 DEF ClockHandle, ClockCmds
  <2>3. h.dev = tools /\ h.reply = IF alt THEN tools.alt ELSE tools.zone
    BY <2>2 DEF Done
  <2>4. c.cmd \in Valued
    BY <2>1 DEF Valued
  <2> HIDE DEF c
  <2>5. CASE tools' = h.dev /\ GoesOn(WithValue(h.reply), <<>>, told)
    BY <1>8, <1>12, <2>3, <2>5
  <2>6. QED
    BY <1>2, <1>5, <1>12, <2>1, <2>3, <2>4, <2>5, ValueMust
<1>13. CASE /\ op.name = "get_time" /\ todo = GetTime(op, op.alt)
  <2>1. todo = <<Must("GET_TIME", op.alt)>>
    BY <1>1, <1>13 DEF GetTime
  <2>2. QED
    BY <1>12, <1>13, <2>1
<1>14. CASE op.name = "get_time_tz" /\ todo = GetTimeZone(op)
  <2>1. ~(op.format >= TIMEFORMAT_COUNT)
    BY <1>1, <1>14 DEF GetTimeZone
  <2>2. c = Must("SETTZ_ALT", op.zone) /\ Tail(todo) = TimeTail
    BY <1>14, <2>1, TimeZoneScript
  <2>3. c.must /\ c.cmd = "SETTZ_ALT" /\ c.arg = op.zone
    BY <2>2 DEF Must
  <2>4. h = Done([tools EXCEPT !.alt = op.zone], None)
    BY <1>4, <2>3 DEF ClockHandle, ClockCmds
  <2>5. h.dev.alt = op.zone /\ h.dev.zone = tools.zone
    BY <1>6, <2>4 DEF Done, ToolsOff
  <2>6. CASE tools' = h.dev /\ GoesOn(mem, Tail(todo), told)
    <3>1. TimeTail # <<>>
      BY DEF TimeTail
    <3>2. todo' = TimeTail /\ UNCHANGED <<op, result, told>>
      BY <2>2, <2>6, <3>1 DEF GoesOn
    <3>3. QED
      BY <1>7, <1>14, <2>5, <2>6, <3>2 DEF ClockPhase
  <2>7. c.cmd \notin Kept
    BY <2>3 DEF Kept, Valued
  <2> HIDE DEF c
  <2>8. QED
    BY <1>2, <1>5, <1>14, <2>3, <2>6, <2>7, PlainMust
<1>15. CASE op.name = "get_time_tz" /\ todo = TimeTail /\ tools.alt = op.zone
  <2>1. c = Must("GET_TIME", TRUE) /\ Tail(todo) = <<>>
    BY <1>15 DEF TimeTail
  <2> HIDE DEF c
  <2>2. QED
    BY <1>12, <1>15, <2>1
<1>16. QED
  BY <1>3, <1>9, <1>10, <1>11, <1>13, <1>14, <1>15 DEF ClockPhase

LEMMA ClockNext == Shape /\ ClockInv /\ [Next]_vars => ClockInv'
<1> SUFFICES ASSUME Shape, ClockInv, [Next]_vars PROVE ClockInv'
  OBVIOUS
<1>1. ASSUME UNCHANGED <<theme, tools, op, todo, mem, told, result>> PROVE ClockInv'
  BY <1>1 DEF ClockInv, ClockPhase, TimeInZone, Succeeded
<1>2. CASE NoCall
  <2> SUFFICES ASSUME theme \in Clocks PROVE ClockInv'
    BY <1>2 DEF NoCall, ClockInv
  <2>1. op # Idle /\ todo = <<>> /\ ClockPhase
    BY <1>2 DEF NoCall, ClockInv
  <2>2. op.name \in {"get_time", "get_time_tz"} /\ ~mem.ok
    <3>1. CASE op.name = "get_time_tz" /\ todo = GetTimeZone(op)
      <4>1. op.format >= TIMEFORMAT_COUNT
        BY <2>1, <3>1, TimeZoneScript
      <4>2. ~(op.name \in {"set_tz", "get_tz", "get_time"}) /\ todo # TimeTail
        BY <2>1, <3>1 DEF TimeTail
      <4>3. QED
        BY <2>1, <3>1, <4>1, <4>2 DEF ClockPhase
    <3>2. QED
      BY <2>1, <3>1 DEF ClockPhase, SetZone, GetZone, ZoneTail, TimeTail, GetTime
  <2>3. /\ op' = Idle /\ ~result'.ok /\ UNCHANGED <<theme, tools>>
        /\ told' = Learn(op, mem.ok, told)
    BY <1>2, <2>2 DEF NoCall, Finish
  <2>4. (told'.unsure \/ told'.unsure = told.unsure) /\ told'.zone = told.zone
    BY <2>2, <2>3 DEF Learn, Shape, ToldOff
  <2>5. told'.unsure \/ tools'.zone = told'.zone
    BY <2>3, <2>4 DEF ClockInv
  <2>6. QED
    BY <2>3, <2>5 DEF ClockInv, TimeInZone, Succeeded
<1>3. CASE CopyEnds
  BY <1>1, <1>3 DEF CopyEnds
<1>4. CASE UNCHANGED vars
  BY <1>1, <1>4 DEF vars
<1>5. QED
  BY <1>2, <1>3, <1>4, ClockBegin, ClockStep DEF Next

(* clock_get_time_tz() returns the time of the zone it was given,
   clock_get_time() and clock_get_tz() the system's, or on the Apple II that of
   the alternate zone, whatever calls have failed before; and what the program
   has last set successfully is the system's zone. *)
THEOREM TimeInZoneCorrect == Spec => []TimeInZone
<1>1. Spec => []ClockInv
  BY ClockInit, ClockNext, ShapeHolds, PTL DEF Spec
<1>2. Shape /\ ClockInv => TimeInZone
  BY DEF Shape, ClockInv, Clocks, TimeInZone, Succeeded, Names, None
<1>3. QED
  BY <1>1, <1>2, ShapeHolds, PTL

(***************************************************************************)
(* Hashes.                                                                 *)
(***************************************************************************)

InputTail(o)  == <<Must("HASH_INPUT", o.data), Must("HASH_COMPUTE", o.alg),
                   Try("HASH_LENGTH", o.hex), Must("HASH_OUTPUT", o.hex)>>
DigestTail(o) == <<Must("HASH_COMPUTE", o.alg), Try("HASH_LENGTH", o.hex), Must("HASH_OUTPUT", o.hex)>>
LengthTail(o) == <<Try("HASH_LENGTH", o.hex), Must("HASH_OUTPUT", o.hex)>>
LengthClear(o) == <<Try("HASH_LENGTH", o.hex), Must("HASH_OUTPUT", o.hex), Try("HASH_CLEAR", None)>>
OutputTail(o) == <<Must("HASH_OUTPUT", o.hex)>>
OutputClear(o) == <<Must("HASH_OUTPUT", o.hex), Try("HASH_CLEAR", None)>>
ClearTail     == <<Try("HASH_CLEAR", None)>>

(* fuji_hash_data, from its HASH_CLEAR on. *)
OwnDigest == tools.hashIn = <<>> /\ tools.digest = [alg |-> op.alg, of |-> <<op.data>>]

(* fuji_hash_calculate, from its HASH_COMPUTE on. *)
ProgramDigest ==
  /\ tools.digest.alg = op.alg
  /\ ~told.unsure => /\ tools.digest = [alg |-> op.alg, of |-> told.hash]
                     /\ tools.hashIn = IF op.discard THEN <<>> ELSE told.hash

LenRight == mem.lenKnown => mem.len = HashSize(op.alg, op.hex)

HashDataPhase ==
  /\ op.name = "hash_data"
  /\ \/ todo = HashData(op)
     \/ todo = InputTail(op) /\ tools.hashIn = <<>>
     \/ todo = DigestTail(op) /\ tools.hashIn = <<op.data>>
     \/ todo = LengthTail(op) /\ OwnDigest
     \/ todo = OutputTail(op) /\ OwnDigest /\ LenRight

HashCalculatePhase ==
  /\ op.name = "hash_calculate"
  /\ \/ todo = HashCalculate(op) /\ (~told.unsure => tools.hashIn = told.hash)
     \/ todo = (IF op.discard THEN LengthClear(op) ELSE LengthTail(op)) /\ ProgramDigest
     \/ todo = (IF op.discard THEN OutputClear(op) ELSE OutputTail(op)) /\ ProgramDigest /\ LenRight
     \/ /\ op.discard /\ todo = ClearTail /\ LenRight
        /\ ~told.unsure => /\ mem.value = [alg |-> op.alg, of |-> told.hash]
                           /\ tools.hashIn = <<>>

HashPhase ==
  \/ HashDataPhase
  \/ HashCalculatePhase
  \/ op.name = "hash_clear" /\ todo = HashClear
  \/ op.name = "hash_add" /\ todo = HashAdd(op) /\ (~told.unsure => tools.hashIn = told.hash)

(* The FujiNet has the data the program thinks it has, unless the program is
   in doubt; a digest is of that data, or of the operation's own. *)
HashInv ==
  theme = "hash" =>
    /\ op = Idle => told.unsure \/ tools.hashIn = told.hash
    /\ op # Idle => HashPhase
    /\ HashOfOwnData

LEMMA HashCalculateScript ==
  ASSUME NEW o
  PROVE  /\ Head(HashCalculate(o)) = Must(HashCompute(o), o.alg)
         /\ Tail(HashCalculate(o)) = (IF o.discard THEN LengthClear(o) ELSE LengthTail(o))
         /\ HashCalculate(o) # <<>>
<1> DEFINE first == <<Must(HashCompute(o), o.alg), Try("HASH_LENGTH", o.hex), Must("HASH_OUTPUT", o.hex)>>
<1>1. CASE o.discard
  <2>1. HashCalculate(o) = first \o ClearTail
    BY <1>1 DEF HashCalculate, ClearTail
  <2>2. HashCalculate(o) = <<Must(HashCompute(o), o.alg), Try("HASH_LENGTH", o.hex),
                             Must("HASH_OUTPUT", o.hex), Try("HASH_CLEAR", None)>>
    BY <2>1, ThreeAndOne DEF ClearTail
  <2>3. QED
    BY <1>1, <2>2 DEF LengthClear
<1>2. CASE ~o.discard
  <2>1. HashCalculate(o) = first \o <<>>
    BY <1>2 DEF HashCalculate
  <2>2. first \in Seq({Must(HashCompute(o), o.alg), Try("HASH_LENGTH", o.hex), Must("HASH_OUTPUT", o.hex)})
    OBVIOUS
  <2> HIDE DEF first
  <2>3. HashCalculate(o) = first
    BY <2>1, <2>2, ConcatEmptySeq
  <2>4. QED
    BY <1>2, <2>3 DEF first, LengthTail
<1>3. QED
  BY <1>1, <1>2

LEMMA HashTails ==
  ASSUME NEW o
  PROVE  /\ InputTail(o) # <<>> /\ DigestTail(o) # <<>> /\ LengthTail(o) # <<>>
         /\ LengthClear(o) # <<>> /\ OutputTail(o) # <<>> /\ OutputClear(o) # <<>>
         /\ ClearTail # <<>> /\ HashData(o) # <<>> /\ HashClear # <<>> /\ HashAdd(o) # <<>>
BY DEF InputTail, DigestTail, LengthTail, LengthClear, OutputTail, OutputClear, ClearTail, HashData,
       HashClear, HashAdd

LEMMA WithValueFields ==
  ASSUME Shape, NEW v
  PROVE  LET m == WithValue(v)
         IN m.value = v /\ m.ok = mem.ok /\ m.len = mem.len /\ m.lenKnown = mem.lenKnown
BY DEF Shape, WithValue, MemOff

LEMMA HashInit == Init => HashInv
BY DEF Init, HashInv, HashOfOwnData, Succeeded, NoResult, ToolsOff, ToldOff, Idle, None

LEMMA HashBegin ==
  ASSUME Shape, HashInv, NEW o \in Operations, Begin(o)
  PROVE  HashInv'
<1> SUFFICES ASSUME theme = "hash" PROVE HashInv'
  BY DEF Begin, HashInv
<1>1. op' = o /\ o # Idle /\ op = Idle /\ UNCHANGED <<theme, tools, result>>
  BY OperationNames DEF Begin
<1>2. told'.unsure = told.unsure /\ told'.hash = told.hash
  BY DEF Begin, Shape, ToldOff
<1>3. o.name \in {"hash_data", "hash_calculate", "hash_clear", "hash_add"}
  BY OperationNames DEF Names
<1>4. todo' = ToolScript(o, mem)
  BY DEF Begin, Script
<1>5. HashOfOwnData'
  BY <1>1 DEF HashOfOwnData, Succeeded
<1>6. told.unsure \/ tools.hashIn = told.hash
  BY <1>1 DEF HashInv
<1>7. HashPhase'
  <2>1. CASE o.name = "hash_data"
    BY <1>1, <1>4, <2>1 DEF HashPhase, HashDataPhase, ToolScript
  <2>2. CASE o.name = "hash_calculate"
    BY <1>1, <1>2, <1>4, <1>6, <2>2 DEF HashPhase, HashCalculatePhase, ToolScript
  <2>3. CASE o.name = "hash_clear"
    BY <1>1, <1>4, <2>3 DEF HashPhase, ToolScript
  <2>4. CASE o.name = "hash_add"
    BY <1>1, <1>2, <1>4, <1>6, <2>4 DEF HashPhase, ToolScript
  <2>5. QED
    BY <1>3, <2>1, <2>2, <2>3, <2>4
<1>8. QED
  BY <1>1, <1>5, <1>7 DEF HashInv

(* HASH_LENGTH: whatever comes of it, nothing changes but the length. *)
LEMMA LengthStep ==
  ASSUME Shape, NEW c, c = Try("HASH_LENGTH", op.hex), NEW h \in ToolHandle(c, tools), ToolStep(c, h),
         tools.digest.alg = op.alg, Tail(todo) # <<>>
  PROVE  /\ todo' = Tail(todo) /\ UNCHANGED <<op, result, tools>>
         /\ told'.unsure = told.unsure /\ told'.hash = told.hash
         /\ LenRight'
<1>1. ~c.must /\ c.cmd = "HASH_LENGTH" /\ c.arg = op.hex
  BY DEF Try
<1>2. h = Done(tools, HashSize(tools.digest.alg, op.hex))
  <2>1. c.cmd \in HashCmds
    BY <1>1 DEF HashCmds
  <2>2. h = HashHandle(c, tools)
    BY <2>1, ToHash
  <2>3. QED
    BY <1>1, <2>2 DEF HashHandle
<1>3. h.dev = tools /\ h.reply = HashSize(op.alg, op.hex) /\ h.ok
  BY <1>2 DEF Done
<1>4. ASSUME NEW ok \in BOOLEAN, NEW r, ok => r = HashSize(op.alg, op.hex),
             NEW m \in ToolKeep(c, ok, r, op, mem), NEW t, SameTold(t),
             GoesOn(m, ToolRest(c, m, Tail(todo)), t)
      PROVE  /\ todo' = Tail(todo) /\ UNCHANGED <<op, result>>
             /\ told'.unsure = told.unsure /\ told'.hash = told.hash
             /\ LenRight'
  <2>1. ToolRest(c, m, Tail(todo)) = Tail(todo)
    BY <1>1 DEF ToolRest
  <2>2. todo' = Tail(todo) /\ mem' = m /\ told' = t /\ UNCHANGED <<op, result>>
    BY <1>4, <2>1 DEF GoesOn
  <2>3. t.unsure = told.unsure /\ t.hash = told.hash
    BY <1>4 DEF SameTold, Shape, ToldOff
  <2>4. m \in KeepHashLength(ok, r, mem)
    BY <1>1, <1>4 DEF ToolKeep
  <2>5. m.lenKnown = ok /\ (ok => m.len = r)
    <3>1. PICK n \in (IF ok THEN {r} ELSE {0, 255}) : m = [mem EXCEPT !.len = n, !.lenKnown = ok]
      BY <2>4 DEF KeepHashLength
    <3>2. m.len = n
      BY <3>1 DEF Shape, MemOff
    <3>3. "lenKnown" \in DOMAIN mem
      BY DEF Shape, MemOff
    <3>4. m.lenKnown = ok
      BY <3>1, <3>3, Zenon
    <3>5. QED
      BY <3>1, <3>2, <3>4
  <2>6. LenRight'
    BY <1>4, <2>2, <2>5 DEF LenRight
  <2>7. QED
    BY <2>2, <2>3, <2>6
<1>5. SameTold(told)
  BY DEF SameTold
<1>6. tools' = tools
  BY <1>3 DEF ToolStep
<1>7. \/ \E m \in ToolKeep(c, TRUE, h.reply, op, mem) : GoesOn(m, ToolRest(c, m, Tail(todo)), told)
      \/ \E t : /\ SameTold(t)
               /\ \E r : \E m \in ToolKeep(c, FALSE, r, op, mem) :
                     GoesOn(m, ToolRest(c, m, Tail(todo)), t)
  BY <1>1 DEF ToolStep
<1>8. CASE \E m \in ToolKeep(c, TRUE, h.reply, op, mem) : GoesOn(m, ToolRest(c, m, Tail(todo)), told)
  BY <1>3, <1>4, <1>5, <1>6, <1>8
<1>9. CASE \E t : /\ SameTold(t)
                 /\ \E r : \E m \in ToolKeep(c, FALSE, r, op, mem) :
                       GoesOn(m, ToolRest(c, m, Tail(todo)), t)
  BY <1>4, <1>6, <1>9
<1>10. QED
  BY <1>7, <1>8, <1>9

LEMMA HashEffects ==
  ASSUME DOMAIN tools = DOMAIN ToolsOff, NEW c, NEW h \in ToolHandle(c, tools), c.cmd \in HashCmds
  PROVE  /\ c.cmd = "HASH_CLEAR" => h.dev.hashIn = <<>>
         /\ c.cmd = "HASH_INPUT" => h.dev.hashIn = Append(tools.hashIn, c.arg)
         /\ c.cmd = "HASH_COMPUTE" =>
              h.dev.hashIn = <<>> /\ h.dev.digest = [alg |-> c.arg, of |-> tools.hashIn]
         /\ c.cmd = "HASH_COMPUTE_NO_CLEAR" =>
              h.dev.hashIn = tools.hashIn /\ h.dev.digest = [alg |-> c.arg, of |-> tools.hashIn]
         /\ c.cmd = "HASH_OUTPUT" => h.dev = tools /\ h.reply = tools.digest
<1>1. h = HashHandle(c, tools)
  BY ToHash
<1>2. CASE c.cmd = "HASH_CLEAR"
  BY <1>1, <1>2 DEF HashHandle, Done, ToolsOff
<1>3. CASE c.cmd = "HASH_INPUT"
  BY <1>1, <1>3 DEF HashHandle, Done, ToolsOff
<1>4. CASE c.cmd = "HASH_COMPUTE"
  BY <1>1, <1>4 DEF HashHandle, Done, ToolsOff
<1>5. CASE c.cmd = "HASH_COMPUTE_NO_CLEAR"
  BY <1>1, <1>5 DEF HashHandle, Done, ToolsOff
<1>6. CASE c.cmd = "HASH_OUTPUT"
  BY <1>1, <1>6 DEF HashHandle, Done, ToolsOff
<1>7. QED
  BY <1>2, <1>3, <1>4, <1>5, <1>6

LEMMA HashStep ==
  ASSUME Shape, HashInv, Step
  PROVE  HashInv'
<1> SUFFICES ASSUME theme = "hash" PROVE HashInv'
  BY DEF Step, HashInv
<1> DEFINE c == Head(todo)
<1>1. /\ todo # <<>> /\ op \in Operations /\ op # Idle /\ UNCHANGED theme
      /\ \E h \in ToolHandle(c, tools) : ToolStep(c, h)
  BY ToolCall, OperationNames DEF Tool
<1>2. PICK h \in ToolHandle(c, tools) : ToolStep(c, h)
  BY <1>1
<1>3. /\ HashPhase
      /\ op.name \in {"hash_data", "hash_calculate", "hash_clear", "hash_add"}
  BY <1>1, OperationNames DEF HashInv, Names
<1>4. DOMAIN tools = DOMAIN ToolsOff /\ DOMAIN mem = DOMAIN MemOff /\ DOMAIN told = DOMAIN ToldOff
  BY DEF Shape, Tool
<1>5. ASSUME GivenUp PROVE HashInv'
  <2>1. told'.unsure
    BY <1>3, <1>5, GivenUpTold
  <2>2. QED
    BY <1>5, <2>1 DEF GivenUp, HashInv, HashOfOwnData, Succeeded
<1>6. ASSUME HashPhase', UNCHANGED <<op, result>> PROVE HashInv'
  BY <1>1, <1>6 DEF HashInv, HashOfOwnData, Succeeded

(* A call of which nothing is kept, in the middle of a script or at its end. *)
<1>7. ASSUME NEW cmd, NEW arg, c = Must(cmd, arg), cmd \in HashCmds \ {"HASH_LENGTH", "HASH_OUTPUT"}
      PROVE  HashInv' \/ (tools' = h.dev /\ GoesOn(mem, Tail(todo), told))
  <2>1. c.must /\ c.cmd = cmd
    BY <1>7 DEF Must
  <2>2. c.cmd \notin Kept
    BY <1>7, <2>1 DEF HashCmds, Kept, Valued
  <2> HIDE DEF c
  <2>3. QED
    BY <1>2, <1>5, <2>1, <2>2, PlainMust
<1>8. ASSUME c = Must("HASH_OUTPUT", op.hex), tools.digest.alg = op.alg
      PROVE  \/ HashInv'
             \/ tools' = tools /\ GoesOn(WithValue(tools.digest), Tail(todo), told)
  <2>1. c.must /\ c.cmd = "HASH_OUTPUT"
    BY <1>8 DEF Must
  <2>2. c.cmd \in Valued /\ c.cmd \in HashCmds
    BY <2>1 DEF Valued, HashCmds
  <2>3. h.dev = tools /\ h.reply = tools.digest
    BY <1>4, <2>1, <2>2, HashEffects
  <2> HIDE DEF c
  <2>4. QED
    BY <1>2, <1>5, <2>1, <2>2, <2>3, ValueMust
(* The end of an operation that has its digest. *)
<1>9. ASSUME NEW m, NEW t, Finish(m.ok, m, t), t.unsure = told.unsure, t.hash = told.hash,
             DOMAIN t = DOMAIN told, op.name \in {"hash_data", "hash_calculate"},
             m.lenKnown => m.len = HashSize(op.alg, op.hex),
             op.name = "hash_data" => /\ m.value = [alg |-> op.alg, of |-> <<op.data>>]
                                      /\ tools'.hashIn = <<>>,
             op.name = "hash_calculate" /\ ~told.unsure =>
               /\ tools'.hashIn = IF op.discard THEN <<>> ELSE told.hash
               /\ m.value = [alg |-> op.alg, of |-> told.hash]
      PROVE  HashInv'
  <2>1. /\ op' = Idle /\ result'.op = op /\ result'.name = op.name /\ result'.value = m.value
        /\ result'.lenKnown = m.lenKnown /\ result'.len = m.len /\ result'.unsure = told.unsure
        /\ result'.added = told.hash /\ told' = Learn(op, m.ok, t)
    BY <1>9 DEF Finish
  <2>2. ~told'.unsure => tools'.hashIn = told'.hash
    <3>1. CASE op.name = "hash_data"
      BY <1>4, <1>9, <2>1, <3>1 DEF Learn, ToldOff
    <3>2. CASE op.name = "hash_calculate" /\ op.discard
      BY <1>4, <1>9, <2>1, <3>2 DEF Learn, ToldOff
    <3>3. CASE op.name = "hash_calculate" /\ ~op.discard
      BY <1>4, <1>9, <2>1, <3>3 DEF Learn, ToldOff
    <3>4. QED
      BY <1>9, <3>1, <3>2, <3>3
  <2>3. HashOfOwnData'
    <3>1. result'.name = "hash_data" =>
            result'.value = [alg |-> result'.op.alg, of |-> <<result'.op.data>>]
      BY <1>9, <2>1
    <3>2. result'.name = "hash_calculate" /\ ~result'.unsure =>
            result'.value = [alg |-> result'.op.alg, of |-> result'.added]
      BY <1>9, <2>1
    <3>3. m.lenKnown => result'.len = HashSize(result'.op.alg, result'.op.hex)
      BY <1>9, <2>1
    <3>4. result'.lenKnown => m.lenKnown
      BY <2>1, Zenon
    <3>5. QED
      BY <2>2, <3>1, <3>2, <3>3, <3>4 DEF HashOfOwnData, Succeeded
  <2>4. QED
    BY <2>1, <2>2, <2>3 DEF HashInv
<1>10. CASE HashDataPhase
  <2> USE <1>10 DEF HashDataPhase
  <2>1. CASE todo = HashData(op)
    <3>1. c = Must("HASH_CLEAR", None) /\ Tail(todo) = InputTail(op)
      BY <2>1 DEF HashData, InputTail
    <3>2. c.cmd = "HASH_CLEAR" /\ c.cmd \in HashCmds
      BY <3>1 DEF Must, HashCmds
    <3>3. CASE tools' = h.dev /\ GoesOn(mem, Tail(todo), told)
      <4>1. todo' = InputTail(op) /\ UNCHANGED <<op, result>>
        BY <3>1, <3>3, HashTails DEF GoesOn
      <4>2. tools'.hashIn = <<>>
        BY <1>4, <3>2, <3>3, HashEffects
      <4>3. HashPhase'
        BY <4>1, <4>2 DEF HashPhase
      <4>4. QED
        BY <1>6, <4>1, <4>3
    <3> HIDE DEF c
    <3>4. QED
      BY <1>7, <3>1, <3>2, <3>3 DEF HashCmds
  <2>2. CASE todo = InputTail(op) /\ tools.hashIn = <<>>
    <3>1. c = Must("HASH_INPUT", op.data) /\ Tail(todo) = DigestTail(op)
      BY <2>2 DEF DigestTail, InputTail
    <3>2. c.cmd = "HASH_INPUT" /\ c.arg = op.data /\ c.cmd \in HashCmds
      BY <3>1 DEF Must, HashCmds
    <3>3. CASE tools' = h.dev /\ GoesOn(mem, Tail(todo), told)
      <4>1. todo' = DigestTail(op) /\ UNCHANGED <<op, result>>
        BY <3>1, <3>3, HashTails DEF GoesOn
      <4>2. tools'.hashIn = Append(<<>>, op.data)
        BY <1>4, <2>2, <3>2, <3>3, HashEffects
      <4>3. Append(<<>>, op.data) = <<op.data>>
        OBVIOUS
      <4>4. HashPhase'
        BY <4>1, <4>2, <4>3 DEF HashPhase
      <4>5. QED
        BY <1>6, <4>1, <4>4
    <3> HIDE DEF c
    <3>4. QED
      BY <1>7, <3>1, <3>2, <3>3 DEF HashCmds
  <2>3. CASE todo = DigestTail(op) /\ tools.hashIn = <<op.data>>
    <3>1. c = Must("HASH_COMPUTE", op.alg) /\ Tail(todo) = LengthTail(op)
      BY <2>3 DEF DigestTail, LengthTail
    <3>2. c.cmd = "HASH_COMPUTE" /\ c.arg = op.alg /\ c.cmd \in HashCmds
      BY <3>1 DEF Must, HashCmds
    <3>3. CASE tools' = h.dev /\ GoesOn(mem, Tail(todo), told)
      <4>1. todo' = LengthTail(op) /\ UNCHANGED <<op, result>>
        BY <3>1, <3>3, HashTails DEF GoesOn
      <4>2. OwnDigest'
        BY <1>4, <2>3, <3>2, <3>3, <4>1, HashEffects DEF OwnDigest
      <4>3. HashPhase'
        BY <4>1, <4>2 DEF HashPhase
      <4>4. QED
        BY <1>6, <4>1, <4>3
    <3> HIDE DEF c
    <3>4. QED
      BY <1>7, <3>1, <3>2, <3>3 DEF HashCmds
  <2>4. CASE todo = LengthTail(op) /\ OwnDigest
    <3>1. c = Try("HASH_LENGTH", op.hex) /\ Tail(todo) = OutputTail(op) /\ tools.digest.alg = op.alg
      BY <2>4 DEF LengthTail, OutputTail, OwnDigest
    <3> HIDE DEF c
    <3>2. /\ todo' = OutputTail(op) /\ UNCHANGED <<op, result, tools>>
          /\ LenRight'
      BY <1>2, <3>1, LengthStep, HashTails DEF c
    <3>3. HashPhase'
      BY <2>4, <3>2 DEF HashPhase, OwnDigest
    <3>4. QED
      BY <1>6, <3>2, <3>3
  <2>5. CASE todo = OutputTail(op) /\ OwnDigest /\ LenRight
    <3>1. c = Must("HASH_OUTPUT", op.hex) /\ Tail(todo) = <<>> /\ tools.digest.alg = op.alg
      BY <2>5 DEF OutputTail, OwnDigest
    <3>2. CASE tools' = tools /\ GoesOn(WithValue(tools.digest), Tail(todo), told)
      <4> DEFINE m == WithValue(tools.digest)
      <4>1. m.value = tools.digest /\ m.len = mem.len /\ m.lenKnown = mem.lenKnown
        BY WithValueFields
      <4>2. Finish(m.ok, m, told)
        BY <3>1, <3>2 DEF GoesOn
      <4> HIDE DEF m
      <4>3. m.lenKnown => m.len = HashSize(op.alg, op.hex)
        <5>1. m.lenKnown => mem.lenKnown
          BY <4>1, Zenon
        <5>2. QED
          BY <2>5, <4>1, <5>1 DEF LenRight
      <4>4. m.value = [alg |-> op.alg, of |-> <<op.data>>] /\ tools'.hashIn = <<>>
        BY <2>5, <3>2, <4>1 DEF OwnDigest
      <4>5. QED
        BY <1>9, <4>2, <4>3, <4>4
    <3> HIDE DEF c
    <3>3. QED
      BY <1>8, <3>1, <3>2
  <2>6. QED
    BY <2>1, <2>2, <2>3, <2>4, <2>5
<1>11. CASE HashCalculatePhase
  <2> USE <1>11 DEF HashCalculatePhase
  <2>1. CASE todo = HashCalculate(op) /\ (~told.unsure => tools.hashIn = told.hash)
    <3>1. /\ c = Must(HashCompute(op), op.alg)
          /\ Tail(todo) = (IF op.discard THEN LengthClear(op) ELSE LengthTail(op))
      BY <2>1, HashCalculateScript
    <3>2. /\ c.cmd = HashCompute(op) /\ c.arg = op.alg /\ c.cmd \in HashCmds
          /\ HashCompute(op) = IF op.discard THEN "HASH_COMPUTE" ELSE "HASH_COMPUTE_NO_CLEAR"
      BY <3>1 DEF Must, HashCmds, HashCompute
    <3>3. CASE tools' = h.dev /\ GoesOn(mem, Tail(todo), told)
      <4>1. /\ todo' = (IF op.discard THEN LengthClear(op) ELSE LengthTail(op))
            /\ UNCHANGED <<op, result, told>>
        BY <3>1, <3>3, HashTails DEF GoesOn
      <4>2. /\ tools'.digest = [alg |-> op.alg, of |-> tools.hashIn]
            /\ tools'.hashIn = IF op.discard THEN <<>> ELSE tools.hashIn
        <5>1. CASE op.discard
          BY <1>4, <3>2, <3>3, <5>1, HashEffects
        <5>2. CASE ~op.discard
          BY <1>4, <3>2, <3>3, <5>2, HashEffects
        <5>3. QED
          BY <5>1, <5>2
      <4>3. ProgramDigest'
        BY <2>1, <4>1, <4>2 DEF ProgramDigest
      <4>4. HashPhase'
        BY <4>1, <4>3 DEF HashPhase
      <4>5. QED
        BY <1>6, <4>1, <4>4
    <3> HIDE DEF c
    <3>4. HashCompute(op) \in HashCmds \ {"HASH_LENGTH", "HASH_OUTPUT"}
      BY <3>2 DEF HashCmds
    <3>5. QED
      BY <1>7, <3>1, <3>3, <3>4
  <2>2. CASE todo = (IF op.discard THEN LengthClear(op) ELSE LengthTail(op)) /\ ProgramDigest
    <3>1. /\ c = Try("HASH_LENGTH", op.hex) /\ tools.digest.alg = op.alg
          /\ Tail(todo) = (IF op.discard THEN OutputClear(op) ELSE OutputTail(op))
      <4>1. CASE op.discard
        BY <2>2, <4>1 DEF LengthClear, OutputClear, ProgramDigest
      <4>2. CASE ~op.discard
        BY <2>2, <4>2 DEF LengthTail, OutputTail, ProgramDigest
      <4>3. QED
        BY <4>1, <4>2
    <3>2. Tail(todo) # <<>>
      BY <3>1, HashTails
    <3> HIDE DEF c
    <3>3. /\ todo' = Tail(todo) /\ UNCHANGED <<op, result, tools>>
          /\ told'.unsure = told.unsure /\ told'.hash = told.hash
          /\ LenRight'
      BY <1>2, <3>1, <3>2, LengthStep DEF c
    <3>4. ProgramDigest'
      BY <2>2, <3>3 DEF ProgramDigest
    <3>5. HashPhase'
      BY <3>1, <3>3, <3>4 DEF HashPhase
    <3>6. QED
      BY <1>6, <3>3, <3>5
  <2>3. CASE /\ todo = (IF op.discard THEN OutputClear(op) ELSE OutputTail(op))
             /\ ProgramDigest /\ LenRight
    <3>1. /\ c = Must("HASH_OUTPUT", op.hex) /\ tools.digest.alg = op.alg
          /\ Tail(todo) = (IF op.discard THEN ClearTail ELSE <<>>)
      <4>1. CASE op.discard
        BY <2>3, <4>1 DEF OutputClear, ClearTail, ProgramDigest
      <4>2. CASE ~op.discard
        BY <2>3, <4>2 DEF OutputTail, ProgramDigest
      <4>3. QED
        BY <4>1, <4>2
    <3>2. CASE tools' = tools /\ GoesOn(WithValue(tools.digest), Tail(todo), told)
      <4> DEFINE m == WithValue(tools.digest)
      <4>1. m.value = tools.digest /\ m.len = mem.len /\ m.lenKnown = mem.lenKnown
        BY WithValueFields
      <4> HIDE DEF m
      <4>2. m.lenKnown => m.len = HashSize(op.alg, op.hex)
        <5>1. m.lenKnown => mem.lenKnown
          BY <4>1, Zenon
        <5>2. QED
          BY <2>3, <4>1, <5>1 DEF LenRight
      <4>3. CASE op.discard
        <5>1. todo' = ClearTail /\ mem' = m /\ UNCHANGED <<op, result, told>>
          BY <3>1, <3>2, <4>3, HashTails DEF GoesOn, m
        <5>2. LenRight' /\ (~told.unsure => mem'.value = [alg |-> op.alg, of |-> told.hash])
          BY <2>3, <4>1, <4>2, <5>1 DEF LenRight, ProgramDigest
        <5>3. HashPhase'
          BY <2>3, <3>2, <4>3, <5>1, <5>2 DEF HashPhase, ProgramDigest
        <5>4. QED
          BY <1>6, <5>1, <5>3
      <4>4. CASE ~op.discard
        <5>1. Finish(m.ok, m, told)
          BY <3>1, <3>2, <4>4 DEF GoesOn, m
        <5>2. ~told.unsure => /\ m.value = [alg |-> op.alg, of |-> told.hash]
                              /\ tools'.hashIn = told.hash
          BY <2>3, <3>2, <4>1, <4>4 DEF ProgramDigest
        <5>3. QED
          BY <1>9, <4>2, <4>4, <5>1, <5>2
      <4>5. QED
        BY <4>3, <4>4
    <3> HIDE DEF c
    <3>3. QED
      BY <1>8, <3>1, <3>2
  <2>4. CASE /\ op.discard /\ todo = ClearTail /\ LenRight
             /\ ~told.unsure => /\ mem.value = [alg |-> op.alg, of |-> told.hash]
                                /\ tools.hashIn = <<>>
    <3>1. c = Try("HASH_CLEAR", None) /\ Tail(todo) = <<>>
      BY <2>4 DEF ClearTail
    <3>2. c.cmd = "HASH_CLEAR" /\ ~c.must /\ c.cmd \in HashCmds /\ c.cmd \notin Kept
      BY <3>1 DEF Try, HashCmds, Kept, Valued
    <3>3. h.dev.hashIn = <<>>
      BY <1>4, <3>2, HashEffects
    <3>4. tools' \in {tools, h.dev}
      BY <1>2 DEF ToolStep
    <3>5. PICK ok, r, t : /\ SameTold(t)
                         /\ \E m \in ToolKeep(c, ok, r, op, mem) : GoesOn(m, ToolRest(c, m, Tail(todo)), t)
      <4>1. SameTold(told)
        BY DEF SameTold
      <4>2. QED
        BY <1>2, <3>2, <4>1 DEF ToolStep
    <3> HIDE DEF c
    <3>6. GoesOn(mem, Tail(todo), t)
      BY <3>2, <3>5, PlainAnswer
    <3>7. Finish(mem.ok, mem, t)
      BY <3>1, <3>6 DEF GoesOn
    <3>8. t.unsure = told.unsure /\ t.hash = told.hash /\ DOMAIN t = DOMAIN told
      BY <1>4, <3>5 DEF SameTold, ToldOff
    <3>9. ~told.unsure => tools'.hashIn = <<>>
      BY <2>4, <3>3, <3>4
    <3>10. mem.lenKnown => mem.len = HashSize(op.alg, op.hex)
      BY <2>4 DEF LenRight
    <3>11. QED
      BY <1>9, <2>4, <3>7, <3>8, <3>9, <3>10
  <2>5. QED
    BY <2>1, <2>2, <2>3, <2>4
<1>12. CASE op.name = "hash_clear" /\ todo = HashClear
  <2>1. c = Must("HASH_CLEAR", None) /\ Tail(todo) = <<>>
    BY <1>12 DEF HashClear
  <2>2. c.cmd = "HASH_CLEAR" /\ c.cmd \in HashCmds
    BY <2>1 DEF Must, HashCmds
  <2>3. CASE tools' = h.dev /\ GoesOn(mem, Tail(todo), told)
    <3>1. Finish(mem.ok, mem, told)
      BY <2>1, <2>3 DEF GoesOn
    <3>2. tools'.hashIn = <<>>
      BY <1>4, <2>2, <2>3, HashEffects
    <3>3. told'.unsure \/ told'.hash = <<>>
      BY <1>4, <1>12, <3>1 DEF Finish, Learn, ToldOff
    <3>4. op' = Idle /\ result'.name = "hash_clear"
      BY <1>12, <3>1 DEF Finish
    <3>5. QED
      BY <3>2, <3>3, <3>4 DEF HashInv, HashOfOwnData, Succeeded
  <2> HIDE DEF c
  <2>4. QED
    BY <1>7, <2>1, <2>2, <2>3 DEF HashCmds
<1>13. CASE op.name = "hash_add" /\ todo = HashAdd(op) /\ (~told.unsure => tools.hashIn = told.hash)
  <2>1. c = Must("HASH_INPUT", op.data) /\ Tail(todo) = <<>>
    BY <1>13 DEF HashAdd
  <2>2. c.cmd = "HASH_INPUT" /\ c.cmd \in HashCmds /\ c.arg = op.data
    BY <2>1 DEF Must, HashCmds
  <2>3. CASE tools' = h.dev /\ GoesOn(mem, Tail(todo), told)
    <3>1. Finish(mem.ok, mem, told)
      BY <2>1, <2>3 DEF GoesOn
    <3>2. tools'.hashIn = Append(tools.hashIn, op.data)
      BY <1>4, <2>2, <2>3, HashEffects
    <3>3. told'.unsure \/ (told'.unsure = told.unsure /\ told'.hash = Append(told.hash, op.data))
      BY <1>4, <1>13, <3>1 DEF Finish, Learn, ToldOff
    <3>4. op' = Idle /\ result'.name = "hash_add"
      BY <1>13, <3>1 DEF Finish
    <3>5. QED
      BY <1>13, <3>2, <3>3, <3>4 DEF HashInv, HashOfOwnData, Succeeded
  <2> HIDE DEF c
  <2>4. QED
    BY <1>7, <2>1, <2>2, <2>3 DEF HashCmds
<1>14. QED
  BY <1>3, <1>10, <1>11, <1>12, <1>13 DEF HashPhase

LEMMA HashNext == Shape /\ HashInv /\ [Next]_vars => HashInv'
<1> SUFFICES ASSUME Shape, HashInv, [Next]_vars PROVE HashInv'
  OBVIOUS
<1>1. ASSUME UNCHANGED <<theme, tools, op, todo, mem, told, result>> PROVE HashInv'
  <2>1. HashPhase => HashPhase'
    BY <1>1 DEF HashPhase, HashDataPhase, HashCalculatePhase, OwnDigest, ProgramDigest, LenRight
  <2>2. QED
    BY <1>1, <2>1 DEF HashInv, HashOfOwnData, Succeeded
<1>2. CASE NoCall
  <2>1. op # Idle /\ todo = <<>>
    BY <1>2 DEF NoCall
  <2>2. ~HashPhase
    BY <2>1, HashTails, HashCalculateScript DEF HashPhase, HashDataPhase, HashCalculatePhase
  <2>3. QED
    BY <1>2, <2>1, <2>2 DEF NoCall, HashInv
<1>3. CASE CopyEnds
  BY <1>1, <1>3 DEF CopyEnds
<1>4. CASE UNCHANGED vars
  BY <1>1, <1>4 DEF vars
<1>5. QED
  BY <1>2, <1>3, <1>4, HashBegin, HashStep DEF Next

(* fuji_hash_data() returns the digest of its own data whatever was in the
   FujiNet; fuji_hash_calculate(), keeping the data or discarding it, that of
   exactly the data the program had added since the hash was last cleared,
   unless a hash operation has failed since; each asks for the length
   fuji_hash_size() gives, unless HASH_LENGTH failed. *)
THEOREM HashOfOwnDataCorrect == Spec => []HashOfOwnData
<1>1. Spec => []HashInv
  BY HashInit, HashNext, ShapeHolds, PTL DEF Spec
<1>2. Shape /\ HashInv => HashOfOwnData
  BY DEF Shape, HashInv, HashOfOwnData, Succeeded, Names, None
<1>3. QED
  BY <1>1, <1>2, ShapeHolds, PTL

(***************************************************************************)
(* The bytes of an answer.                                                 *)
(***************************************************************************)

Answers(q) == [query : {q}, parser : {"json", "html"}, at : Nat]

LEMMA Counted ==
  ASSUME NEW S, NEW n \in Nat, NEW f \in [1..n -> S]
  PROVE  f \in Seq(S) /\ Len(f) = n
OBVIOUS

LEMMA AnswerType ==
  ASSUME NEW q, NEW p \in {"json", "html"}
  PROVE  Answer(q, p) \in Seq(Answers(q)) /\ Answer(q, p) # <<>>
<1> DEFINE S == Answers(q)
<1>1. \A i \in 1..4 : i * (i % 2) \in Nat
  <2>1. \A i \in 1..4 : i = 1 \/ i = 2 \/ i = 3 \/ i = 4
    OBVIOUS
  <2>2. 1 * (1 % 2) \in Nat /\ 2 * (2 % 2) \in Nat /\ 3 * (3 % 2) \in Nat /\ 4 * (4 % 2) \in Nat
    OBVIOUS
  <2>3. QED
    BY <2>1, <2>2
<1>2. \A i \in 1..4 : [query |-> q, parser |-> p, at |-> i * (i % 2)] \in S
  BY <1>1 DEF Answers
<1> HIDE DEF S
<1>3. Answer(q, p) \in [1..4 -> S]
  BY <1>2 DEF Answer
<1>4. 4 \in Nat
  OBVIOUS
<1>5. Answer(q, p) \in Seq(S) /\ Len(Answer(q, p)) = 4
  BY <1>3, <1>4, Counted
<1>6. Answer(q, p) # <<>>
  BY <1>5
<1>7. QED
  BY <1>5, <1>6 DEF S

(* A STATUS shows bytes as long as there are any. *)
LEMMA Shown ==
  ASSUME NEW m \in Nat, NEW n \in Nat
  PROVE  Min({m, n}) = IF m <= n THEN m ELSE n
<1>1. CASE m <= n
  <2>1. \A x \in {m, n} : (\A y \in {m, n} : x =< y) => x = m
    BY <1>1
  <2>2. m \in {m, n} /\ \A y \in {m, n} : m =< y
    BY <1>1
  <2>3. QED
    BY <1>1, <2>1, <2>2 DEF Min
<1>2. CASE ~(m <= n)
  <2>1. \A x \in {m, n} : (\A y \in {m, n} : x =< y) => x = n
    BY <1>2
  <2>2. n \in {m, n} /\ \A y \in {m, n} : n =< y
    BY <1>2
  <2>3. QED
    BY <1>2, <2>1, <2>2 DEF Min
<1>3. QED
  BY <1>1, <1>2

(* A chunk is taken off the front. *)
LEMMA Chunk ==
  ASSUME NEW S, NEW s \in Seq(S), NEW n \in Nat
  PROVE  LET k == Min({n, Len(s)})
         IN /\ SubSeq(s, 1, k) \in Seq(S) /\ SubSeq(s, k + 1, Len(s)) \in Seq(S)
            /\ SubSeq(s, 1, k) \o SubSeq(s, k + 1, Len(s)) = s
<1> DEFINE k == Min({n, Len(s)})
<1>1. Len(s) \in Nat /\ \A i \in 1..Len(s) : s[i] \in S
  BY ElementOfSeq
<1>2. k \in 0..Len(s)
  BY <1>1, Shown
<1> HIDE DEF k
<1>3. /\ 1 \in Int /\ k \in Int /\ k + 1 \in Int /\ Len(s) \in Int
      /\ \A i \in 1..k : s[i] \in S
      /\ \A i \in k + 1..Len(s) : s[i] \in S
  BY <1>1, <1>2
<1>4. SubSeq(s, 1, k) \in Seq(S) /\ SubSeq(s, k + 1, Len(s)) \in Seq(S)
  BY <1>3, SubSeqProperties
<1>5. 1 \in 1..Len(s) + 1 /\ k \in 1 - 1..Len(s) /\ Len(s) \in k..Len(s)
  BY <1>1, <1>2
<1>6. SubSeq(s, 1, k) \o SubSeq(s, k + 1, Len(s)) = SubSeq(s, 1, Len(s))
  BY <1>5, ConcatAdjacentSubSeq
<1>7. QED
  BY <1>4, <1>6, SubSeqFull DEF k

(* A set of numbers that are no greater than n has a greatest. *)
LEMMA GreatestNumber ==
  ASSUME NEW n \in Nat, NEW T, T \subseteq 0..n, T # {}
  PROVE  Max(T) \in T /\ \A y \in T : Max(T) >= y
<1> DEFINE R == {n - x : x \in T}
<1>1. R \subseteq Nat /\ R # {}
  <2>1. \A x \in T : n - x \in Nat
    <3>1. \A x \in 0..n : n - x \in Nat
      OBVIOUS
    <3>2. QED
      BY <3>1
  <2>2. QED
    BY <2>1
<1>2. PICK r \in R : \A y \in R : ~(<<y, r>> \in OpToRel(<, Nat))
  <2> HIDE DEF R
  <2>1. QED
    BY <1>1, NatLessThanWellFounded, WFMin, Zenon
<1>3. \A y \in R : ~(y < r)
  BY <1>1, <1>2 DEF OpToRel
<1>4. PICK x \in T : r = n - x
  OBVIOUS
<1>5. \A y \in T : x >= y
  <2>1. ASSUME NEW y \in T PROVE x >= y
    <3>1. n - y \in R
      OBVIOUS
    <3>2. ~(n - y < n - x)
      BY <1>3, <1>4, <3>1
    <3>3. x \in 0..n /\ y \in 0..n
      OBVIOUS
    <3>4. QED
      BY <3>2, <3>3
  <2>2. QED
    BY <2>1
<1>6. QED
  BY <1>5 DEF Max

(* What is left of the bytes of an answer without the line ends. *)
LEMMA Stripped ==
  ASSUME NEW q, NEW s \in Seq(Answers(q))
  PROVE  LET v == StripNewlines(s)
         IN /\ \A i \in DOMAIN v : v[i].query = q
            /\ v # <<>> => v[Len(v)].at # 0
<1> DEFINE T == {0} \cup {i \in DOMAIN s : s[i].at # 0}
           k == Max(T)
           v == SubSeq(s, 1, k)
           S == Answers(q)
<1>1. Len(s) \in Nat /\ DOMAIN s = 1..Len(s)
  OBVIOUS
<1>2. T \subseteq 0..Len(s) /\ T # {}
  BY <1>1
<1>3. k \in T
  <2> HIDE DEF T
  <2>1. QED
    BY <1>1, <1>2, GreatestNumber
<1>4. k \in 0..Len(s) /\ (k # 0 => s[k].at # 0)
  BY <1>1, <1>2, <1>3
<1> HIDE DEF k
<1>5. \A i \in 1..k : s[i] \in S
  BY <1>1, <1>4, ElementOfSeq
<1> HIDE DEF S
<1>6. /\ v \in Seq(S)
      /\ Len(v) = IF 1 <= k THEN k - 1 + 1 ELSE 0
      /\ \A i \in 1..k - 1 + 1 : v[i] = s[1 + i - 1]
  <2>1. 1 \in Int /\ k \in Int
    BY <1>4
  <2>2. QED
    BY <1>5, <2>1, SubSeqProperties
<1>7. Len(v) = k /\ \A i \in 1..k : v[i] = s[i]
  BY <1>4, <1>6
<1>8. DOMAIN v = 1..k
  BY <1>6, <1>7
<1> HIDE DEF v
<1>9. \A i \in DOMAIN v : v[i].query = q
  BY <1>5, <1>7, <1>8 DEF S, Answers
<1>10. ASSUME v # <<>> PROVE v[Len(v)].at # 0
  <2>1. k # 0
    BY <1>6, <1>7, <1>10
  <2>2. v[Len(v)] = s[k]
    BY <1>4, <1>7, <2>1
  <2>3. QED
    BY <1>4, <2>1, <2>2
<1>11. StripNewlines(s) = v
  BY DEF StripNewlines, v, k
<1>12. QED
  BY <1>9, <1>10, <1>11

(***************************************************************************)
(* One call to the channel.                                                *)
(***************************************************************************)

(* The rest of the script; a query goes on while there is more to read. *)
ChannelRest(c, r) ==
  IF op.name = "json_query" THEN QueryRest(c, r, Tail(todo)) ELSE Tail(todo)

(* The channel answers, or the call fails, and when the FujiNet has carried it
   out all the same the answer to a READ is lost. *)
ChannelStep(c, h) ==
  \/ /\ h.ok /\ chan' = h.dev
     /\ \E m \in ChannelKeep(c, TRUE, h.reply, mem) : GoesOn(m, ChannelRest(c, h.reply), told)
  \/ /\ chan' \in {chan, h.dev}
     /\ \E t : /\ SameTold(t)
               /\ ~t.lostRead => ~told.lostRead /\ (c.cmd = "READ" => chan' = chan)
               /\ \/ c.must /\ Finish(FALSE, mem, t)
                  \/ /\ ~c.must
                     /\ \E m \in ChannelKeep(c, FALSE, None, mem) :
                          GoesOn(m, ChannelRest(c, None), t)

(* What is the same in the channel as before. *)
SamePost(d) == d.mode = chan.mode /\ d.posted = chan.posted
SameParser(d) == d.parser = chan.parser /\ d.parsed = chan.parsed

LEMMA ChannelEffects ==
  ASSUME NEW c, c.cmd \in ChannelCmds, DOMAIN chan = DOMAIN ChannelOff
  PROVE  LET h == ChannelHandle(c, chan)
             d == h.dev
         IN /\ DOMAIN d = DOMAIN ChannelOff
            /\ h = Refused(chan) \/ h = Done(d, h.reply)
            /\ c.cmd \in {"OPEN", "CLOSE"} =>
                 d.mode = "body" /\ d.parser = None /\ d.parsed = FALSE
            /\ c.cmd = "SET_HTTP_MODE" =>
                 d.mode = c.arg /\ d.posted = chan.posted /\ SameParser(d)
            /\ c.cmd = "WRITE" =>
                 /\ SameParser(d) /\ d.mode = chan.mode
                 /\ chan.mode = "post" => d.posted = Append(chan.posted, c.arg)
            /\ c.cmd = "SET_PARSER" => SamePost(d) /\ d.parser = c.arg
            /\ c.cmd = "PARSE" =>
                 /\ SamePost(d) /\ d.parser = chan.parser
                 /\ h.ok => d.parsed = TRUE /\ chan.parser # None
            /\ c.cmd = "QUERY" =>
                 /\ SamePost(d) /\ SameParser(d)
                 /\ h.ok => chan.parsed /\ d.answer = Answer(c.arg, chan.parser)
            /\ c.cmd = "NET_STATUS" => d = chan /\ h.reply = Min({ChunkMax, Len(chan.answer)})
            /\ c.cmd = "READ" =>
                 LET n == Min({c.arg, Len(chan.answer)})
                 IN /\ SamePost(d) /\ SameParser(d)
                    /\ d.answer = SubSeq(chan.answer, n + 1, Len(chan.answer))
                    /\ h.reply = SubSeq(chan.answer, 1, n)
<1> USE DEF Done, Refused, SamePost, SameParser, ChannelOff
<1>1. CASE c.cmd = "OPEN"
  BY <1>1 DEF ChannelHandle
<1>2. CASE c.cmd = "CLOSE"
  BY <1>2 DEF ChannelHandle
<1>3. CASE c.cmd = "SET_HTTP_MODE"
  BY <1>3 DEF ChannelHandle
<1>4. CASE c.cmd = "WRITE"
  BY <1>4 DEF ChannelHandle
<1>5. CASE c.cmd = "SET_PARSER"
  BY <1>5 DEF ChannelHandle
<1>6. CASE c.cmd = "PARSE"
  BY <1>6 DEF ChannelHandle
<1>7. CASE c.cmd = "QUERY"
  BY <1>7 DEF ChannelHandle
<1>8. CASE c.cmd = "NET_STATUS"
  BY <1>8 DEF ChannelHandle
<1>9. CASE c.cmd = "READ"
  BY <1>9 DEF ChannelHandle
<1>10. QED
  BY <1>1, <1>2, <1>3, <1>4, <1>5, <1>6, <1>7, <1>8, <1>9 DEF ChannelCmds

LEMMA ChannelCall ==
  ASSUME Shape, theme = "channel", Step, Head(todo).cmd \in ChannelCmds,
         DOMAIN chan = DOMAIN ChannelOff
  PROVE  /\ op \in Operations
         /\ ChannelStep(Head(todo), ChannelHandle(Head(todo), chan))
         /\ UNCHANGED <<theme, tools, files>>
<1> DEFINE c == Head(todo)
           h == ChannelHandle(c, chan)
<1>1. op # Idle /\ op \in Operations
  BY DEF Step, Shape
<1>2. op.name \notin {"copy_file", "file_stat"}
  <2>1. op.name \in Names(theme)
    BY <1>1, OperationNames
  <2>2. QED
    BY <2>1 DEF Names
<1>3. ASSUME NEW ok \in BOOLEAN, NEW reply, NEW t, Resume(c, ok, reply, t)
      PROVE  \/ ~ok /\ c.must /\ Finish(FALSE, mem, t)
             \/ /\ ok \/ ~c.must
                /\ \E m \in ChannelKeep(c, ok, reply, mem) : GoesOn(m, ChannelRest(c, reply), t)
  <2>1. CASE ~ok /\ c.must
    BY <1>3, <2>1 DEF Resume
  <2>2. CASE ~(~ok /\ c.must)
    <3>1. \A m : ToolRest(c, m, Tail(todo)) = Tail(todo)
      BY DEF ToolRest, ChannelCmds
    <3>2. PICK m \in ChannelKeep(c, ok, reply, mem) : GoesOn(m, ChannelRest(c, reply), t)
      BY <1>2, <1>3, <2>2, <3>1 DEF Resume, GoesOn, ChannelRest
    <3>3. QED
      BY <2>2, <3>2, Zenon
  <2>3. QED
    BY <2>1, <2>2
<1>4. PICK g \in Handles(c) : Answered(c, g) \/ Fails(c, g)
  BY DEF Step
<1>5. g = [h EXCEPT !.dev = [FujiNet EXCEPT !.chan = h.dev]]
  BY <1>4 DEF Handles
<1>6. PICK e, r : h = Refused(chan) \/ h = Done(e, r)
  <2> HIDE DEF c
  <2>1. QED
    BY ChannelEffects DEF c
<1> HIDE DEF h
<1>7. /\ g.ok = h.ok /\ g.reply = h.reply /\ h.ok \in BOOLEAN
      /\ g.dev = [tools |-> tools, files |-> files, chan |-> h.dev]
      /\ ~h.ok => h.dev = chan /\ h.reply = None
  <2>1. CASE h = Done(e, r)
    BY <1>5, <2>1 DEF Done, FujiNet
  <2>2. CASE h = Refused(chan)
    BY <1>5, <2>2 DEF Refused, FujiNet
  <2>3. QED
    BY <1>6, <2>1, <2>2
<1>8. UNCHANGED <<theme, tools, files>>
  <2>1. \E d \in {g.dev, FujiNet} : Becomes(d)
    BY <1>4 DEF Answered, Fails
  <2>2. UNCHANGED theme
    BY DEF Step
  <2>3. QED
    BY <1>7, <2>1, <2>2 DEF Becomes, FujiNet
<1>9. CASE Answered(c, g)
  <2>1. chan' = h.dev /\ Resume(c, h.ok, h.reply, told)
    BY <1>7, <1>9 DEF Answered, Becomes
  <2>2. SameTold(told)
    BY DEF SameTold
  <2>3. ChannelStep(c, h)
    <3>1. CASE h.ok
      BY <1>3, <1>7, <2>1, <3>1 DEF ChannelStep
    <3>2. CASE ~h.ok
      BY <1>3, <1>7, <2>1, <2>2, <3>2 DEF ChannelStep
    <3>3. QED
      BY <1>7, <3>1, <3>2
  <2>4. QED
    BY <1>1, <1>8, <2>3 DEF h
<1>10. CASE Fails(c, g)
  <2>1. PICK b \in BOOLEAN :
          /\ Becomes(IF b THEN g.dev ELSE FujiNet)
          /\ Resume(c, FALSE, None, [told EXCEPT !.lostRead = @ \/ (b /\ c.cmd = "READ")])
    BY <1>10 DEF Fails
  <2> DEFINE t == [told EXCEPT !.lostRead = @ \/ (b /\ c.cmd = "READ")]
  <2>2. SameTold(t)
    BY DEF SameTold
  <2>3. chan' = IF b THEN h.dev ELSE chan
    BY <1>7, <2>1 DEF Becomes, FujiNet
  <2>4. t.lostRead = (told.lostRead \/ (b /\ c.cmd = "READ"))
    BY DEF Shape, ToldOff
  <2>5. Resume(c, FALSE, None, t)
    BY <2>1
  <2>6. ~t.lostRead => ~told.lostRead /\ (c.cmd = "READ" => chan' = chan)
    <3> HIDE DEF t, c
    <3>1. QED
      BY <2>3, <2>4, Zenon
  <2> HIDE DEF t
  <2>7. ChannelStep(c, h)
    BY <1>3, <2>2, <2>3, <2>5, <2>6 DEF ChannelStep
  <2>8. QED
    BY <1>1, <1>8, <2>7 DEF h
<1>11. QED
  BY <1>4, <1>9, <1>10

(* What is known after an operation on the channel. *)
LEMMA ChannelLearns ==
  ASSUME Shape, NEW ok \in BOOLEAN, NEW t, SameTold(t), told' = Learn(op, ok, t),
         op.name \in Names("channel")
  PROVE  /\ told'.posted = told.posted /\ told'.lostRead = t.lostRead
         /\ told'.parser = CASE op.name \in {"open", "close"} -> None
                             [] op.name = "json_parse" -> IF ok THEN "json" ELSE None
                             [] op.name = "html_parse" -> IF ok THEN "html" ELSE None
                             [] OTHER -> told.parser
         /\ ~ok => told'.unsure = TRUE
         /\ ok => told'.unsure = IF op.name \in {"open", "http_post"} THEN FALSE ELSE told.unsure
<1>1. /\ DOMAIN t = DOMAIN ToldOff
      /\ t.posted = told.posted /\ t.parser = told.parser /\ t.unsure = told.unsure
  BY DEF SameTold, Shape, ToldOff
<1>2. op.name \in {"open", "close", "json_parse", "html_parse", "json_query", "http_post", "write"}
  BY DEF Names
<1>3. told'.posted = told.posted
  BY <1>1 DEF Learn, ToldOff
<1>4. told'.lostRead = t.lostRead
  BY <1>1 DEF Learn, ToldOff
<1>5. told'.parser = CASE op.name \in {"open", "close"} -> None
                       [] op.name = "json_parse" -> IF ok THEN "json" ELSE None
                       [] op.name = "html_parse" -> IF ok THEN "html" ELSE None
                       [] OTHER -> told.parser
  BY <1>1, <1>2 DEF Learn, ToldOff
<1>6. ~ok => told'.unsure = TRUE
  BY <1>1, <1>2 DEF Learn, ToldOff
<1>7. ok => told'.unsure = IF op.name \in {"open", "http_post"} THEN FALSE ELSE told.unsure
  BY <1>1, <1>2 DEF Learn, ToldOff
<1>8. QED
  BY <1>3, <1>4, <1>5, <1>6, <1>7

(* A call the operation gives up on when it fails: of all but STATUS nothing is
   kept. *)
LEMMA ChannelMust ==
  ASSUME NEW c, NEW h, c.must, c.cmd \in ChannelCmds \ {"NET_STATUS", "READ"}, ChannelStep(c, h)
  PROVE  \/ h.ok /\ chan' = h.dev /\ GoesOn(mem, Tail(todo), told)
         \/ chan' \in {chan, h.dev} /\ GivenUp
<1>1. ASSUME NEW t, SameTold(t), Finish(FALSE, mem, t) PROVE GivenUp
  BY <1>1 DEF Finish, GivenUp
<1>2. ChannelRest(c, h.reply) = Tail(todo)
  BY DEF ChannelRest, QueryRest
<1>3. ChannelKeep(c, TRUE, h.reply, mem) = {mem}
  BY DEF ChannelKeep
<1>4. QED
  BY <1>1, <1>2, <1>3 DEF ChannelStep

(***************************************************************************)
(* Posting and querying.                                                   *)
(***************************************************************************)

(* The channel is in the mode for bodies unless an operation has failed. *)
Ready == ~told.unsure => chan.mode = "body"

(* The parser of the program has parsed the document. *)
ParserKnown == told.parser # None => chan.parser = told.parser /\ chan.parsed

PlainPhase ==
  \/ op.name = "open" /\ todo = Open
  \/ op.name = "close" /\ todo = Close
  \/ op.name = "write" /\ todo = NetworkWrite(op.data) /\ ParserKnown

PostTail == <<Must("WRITE", op.data), SetMode("body")>>

PostPhase ==
  /\ op.name = "http_post" /\ ParserKnown
  /\ \/ todo = HttpPost(op) /\ Ready /\ chan.posted = told.posted
     \/ todo = PostTail /\ chan.mode = "post" /\ chan.posted = told.posted
     \/ todo = BodyAgain /\ chan.posted = Append(told.posted, op.data)

ParseTail == <<Must("PARSE", None)>>

ParsePhase(parser, script) ==
  todo = script \/ (todo = ParseTail /\ chan.parser = parser)

(* What has been read and what has not are the answer to the query. *)
Following ==
  /\ chan.parsed
  /\ mem.value \in Seq(Answers(op.query)) /\ chan.answer \in Seq(Answers(op.query))
  /\ ~told.lostRead => mem.value \o chan.answer = Answer(op.query, chan.parser)

StatusTail == <<Must("NET_STATUS", None)>>
ReadTail(n) == <<Try("READ", n), Must("NET_STATUS", None)>>
MoreTail(n) == <<Must("NET_STATUS", None), Try("READ", n), Must("NET_STATUS", None)>>

QueryPhase ==
  /\ op.name = "json_query" /\ ParserKnown
  /\ \/ todo = JsonQuery(op) /\ mem.value = <<>>
     \/ todo = StatusTail /\ Following
     \/ \E n \in Nat : todo = MoreTail(n) /\ chan.answer # <<>> /\ Following
     \/ \E n \in Nat : todo = ReadTail(n) /\ Following

ChannelPhase ==
  \/ PlainPhase /\ Ready
  \/ PostPhase
  \/ op.name = "json_parse" /\ ParsePhase("json", JsonParse) /\ Ready
  \/ op.name = "html_parse" /\ ParsePhase("html", HtmlParse) /\ Ready
  \/ QueryPhase /\ Ready

(* The fields of the channel, and a document parsed by one of the parsers. *)
ChannelShape ==
  /\ DOMAIN chan = DOMAIN ChannelOff
  /\ chan.parser \in {None, "json", "html"}
  /\ chan.parsed => chan.parser # None

ChannelInv ==
  theme = "channel" =>
    /\ ChannelShape
    /\ op = Idle => Ready /\ ParserKnown
    /\ op # Idle => ChannelPhase
    /\ PostedOnce
    /\ QueryWhole

LEMMA HttpPostScript ==
  /\ HttpPost(op) # <<>> /\ Head(HttpPost(op)) = SetMode("post") /\ Tail(HttpPost(op)) = PostTail
  /\ PostTail # <<>> /\ Head(PostTail) = Must("WRITE", op.data) /\ Tail(PostTail) = BodyAgain
  /\ BodyAgain # <<>> /\ Head(BodyAgain) = SetMode("body") /\ Tail(BodyAgain) = <<>>
<1>1. NetworkWrite(op.data) \o BodyAgain = PostTail
  BY TwoJoined DEF NetworkWrite, BodyAgain, PostTail
<1>2. HttpPost(op) = <<SetMode("post"), Must("WRITE", op.data), SetMode("body")>>
  <2>1. <<SetMode("post")>> \o NetworkWrite(op.data) = <<SetMode("post"), Must("WRITE", op.data)>>
    BY TwoJoined DEF NetworkWrite
  <2>2. HttpPost(op) = <<SetMode("post"), Must("WRITE", op.data)>> \o <<SetMode("body")>>
    BY <2>1 DEF HttpPost, BodyAgain
  <2>3. QED
    BY <2>2, TwoAndOne
<1>3. QED
  BY <1>2 DEF PostTail, BodyAgain

LEMMA ParseScripts ==
  /\ JsonParse # <<>> /\ Head(JsonParse) = Must("SET_PARSER", "json") /\ Tail(JsonParse) = ParseTail
  /\ HtmlParse # <<>> /\ Head(HtmlParse) = Must("SET_PARSER", "html") /\ Tail(HtmlParse) = ParseTail
  /\ ParseTail # <<>> /\ Head(ParseTail) = Must("PARSE", None) /\ Tail(ParseTail) = <<>>
<1>1. HtmlParse = <<Must("SET_PARSER", "html"), Must("PARSE", None)>>
  BY TwoJoined DEF HtmlParse, SetParser
<1>2. QED
  BY <1>1 DEF JsonParse, ParseTail

LEMMA QueryScripts ==
  ASSUME NEW n
  PROVE  /\ JsonQuery(op) # <<>> /\ Head(JsonQuery(op)) = Must("QUERY", op.query)
         /\ Tail(JsonQuery(op)) = StatusTail
         /\ StatusTail # <<>> /\ Head(StatusTail) = Must("NET_STATUS", None)
         /\ Tail(StatusTail) = <<>>
         /\ MoreTail(n) # <<>> /\ Head(MoreTail(n)) = Must("NET_STATUS", None)
         /\ Tail(MoreTail(n)) = ReadTail(n)
         /\ ReadTail(n) # <<>> /\ Head(ReadTail(n)) = Try("READ", n)
         /\ Tail(ReadTail(n)) = StatusTail
BY DEF JsonQuery, StatusTail, MoreTail, ReadTail
LEMMA ChannelGoesOn ==
  ASSUME theme' = theme, op' = op, op # Idle, ChannelShape', ChannelPhase'
  PROVE  ChannelInv'
BY DEF ChannelInv, PostedOnce, QueryWhole, Succeeded

LEMMA ChannelEnds ==
  ASSUME theme' = theme, op' = Idle, result'.name = op.name, op.name # "json_query",
         ChannelShape', Ready', ParserKnown',
         op.name = "http_post" /\ result'.ok =>
           chan'.posted = Append(told'.posted, result'.op.data) /\ chan'.mode = "body"
  PROVE  ChannelInv'
BY DEF ChannelInv, PostedOnce, QueryWhole, Succeeded, Ready

LEMMA ChannelGivesUp ==
  ASSUME Shape, theme = "channel", theme' = theme, op \in Operations, GivenUp, ChannelShape',
         \/ op.name \in {"open", "close", "json_parse", "html_parse"}
         \/ ParserKnown /\ SameParser(chan')
  PROVE  ChannelInv'
<1>1. PICK t : SameTold(t) /\ told' = Learn(op, FALSE, t)
  BY DEF GivenUp
<1>2. op.name \in Names("channel")
  BY OperationNames
<1>3. /\ told'.unsure = TRUE
      /\ told'.parser = CASE op.name \in {"open", "close"} -> None
                          [] op.name = "json_parse" -> None
                          [] op.name = "html_parse" -> None
                          [] OTHER -> told.parser
  BY <1>1, <1>2, ChannelLearns
<1>4. Ready'
  BY <1>3 DEF Ready
<1>5. ParserKnown'
  BY <1>3 DEF ParserKnown, SameParser
<1>6. op' = Idle /\ result'.ok = FALSE
  BY DEF GivenUp
<1>7. QED
  BY <1>4, <1>5, <1>6 DEF ChannelInv, PostedOnce, QueryWhole, Succeeded, Ready

LEMMA ChannelInit == Init => ChannelInv
BY DEF Init, ChannelInv, ChannelShape, ChannelOff, Ready, ParserKnown, ToldOff, PostedOnce,
       QueryWhole, Succeeded, NoResult, None

LEMMA ChannelBegin ==
  ASSUME Shape, ChannelInv, NEW o \in Operations, Begin(o)
  PROVE  ChannelInv'
<1> SUFFICES ASSUME theme = "channel" PROVE ChannelInv'
  BY DEF Begin, ChannelInv
<1>1. /\ op = Idle /\ op' = o /\ UNCHANGED <<theme, chan>>
      /\ todo' = ChannelScript(o) /\ mem'.value = <<>>
  BY DEF Begin, Script, MemOff
<1>2. /\ told'.posted = chan.posted /\ told'.unsure = told.unsure /\ told'.parser = told.parser
  BY DEF Begin, Shape, ToldOff
<1>3. o.name \in Names("channel") /\ o # Idle
  BY OperationNames
<1>4. Ready' /\ ParserKnown' /\ ChannelShape'
  BY <1>1, <1>2 DEF ChannelInv, Ready, ParserKnown, ChannelShape
<1>5. SUFFICES ChannelPhase'
  BY <1>1, <1>3, <1>4 DEF ChannelInv, PostedOnce, QueryWhole, Succeeded
<1>6. CASE o.name = "open"
  BY <1>1, <1>4, <1>6 DEF ChannelPhase, PlainPhase, ChannelScript
<1>7. CASE o.name = "close"
  BY <1>1, <1>4, <1>7 DEF ChannelPhase, PlainPhase, ChannelScript
<1>8. CASE o.name = "write"
  BY <1>1, <1>4, <1>8 DEF ChannelPhase, PlainPhase, ChannelScript
<1>9. CASE o.name = "http_post"
  <2>1. todo' = HttpPost(o)
    BY <1>1, <1>9 DEF ChannelScript
  <2>2. QED
    BY <1>1, <1>2, <1>4, <1>9, <2>1 DEF ChannelPhase, PostPhase
<1>10. CASE o.name = "json_parse"
  BY <1>1, <1>4, <1>10 DEF ChannelPhase, ParsePhase, ChannelScript
<1>11. CASE o.name = "html_parse"
  BY <1>1, <1>4, <1>11 DEF ChannelPhase, ParsePhase, ChannelScript
<1>12. CASE o.name = "json_query"
  <2>1. todo' = JsonQuery(o)
    BY <1>1, <1>12 DEF ChannelScript
  <2>2. QED
    BY <1>1, <1>4, <1>12, <2>1 DEF ChannelPhase, QueryPhase
<1>13. QED
  BY <1>3, <1>6, <1>7, <1>8, <1>9, <1>10, <1>11, <1>12 DEF Names

(* A call that an operation gives up on when it fails. *)
LEMMA ChannelMustStep ==
  ASSUME Shape, theme = "channel", ChannelShape, Step, NEW c, c = Head(todo), c.must,
         c.cmd \in ChannelCmds \ {"NET_STATUS", "READ"},
         c.cmd = "SET_PARSER" => c.arg \in {"json", "html"}
  PROVE  LET h == ChannelHandle(c, chan)
         IN /\ theme' = theme /\ op \in Operations /\ ChannelShape'
            /\ \/ h.ok /\ chan' = h.dev /\ GoesOn(mem, Tail(todo), told)
               \/ chan' \in {chan, h.dev} /\ GivenUp
<1> DEFINE h == ChannelHandle(c, chan)
<1>1. op \in Operations /\ ChannelStep(c, h) /\ UNCHANGED <<theme, tools, files>>
  BY ChannelCall DEF ChannelShape
<1>2. /\ DOMAIN h.dev = DOMAIN ChannelOff
      /\ h = Refused(chan) \/ h = Done(h.dev, h.reply)
  BY ChannelEffects DEF ChannelShape
<1>3. h.dev.parser \in {None, "json", "html"} /\ (h.dev.parsed => h.dev.parser # None)
  <2>1. CASE c.cmd \in {"OPEN", "CLOSE"}
    BY <2>1, ChannelEffects DEF ChannelShape
  <2>2. CASE c.cmd \in {"SET_HTTP_MODE", "WRITE", "QUERY"}
    BY <2>2, ChannelEffects DEF ChannelShape, SameParser
  <2>3. CASE c.cmd = "SET_PARSER"
    BY <2>3, ChannelEffects DEF ChannelShape, None
  <2>4. CASE c.cmd = "PARSE"
    <3>1. h = Refused(chan) => h.dev = chan
      BY DEF Refused
    <3>2. h = Done(h.dev, h.reply) => h.ok
      BY DEF Done
    <3>3. h.dev.parser = chan.parser /\ (h.ok => chan.parser # None)
      BY <2>4, ChannelEffects DEF ChannelShape
    <3> HIDE DEF h
    <3>4. QED
      BY <1>2, <3>1, <3>2, <3>3 DEF ChannelShape
  <2>5. QED
    BY <2>1, <2>2, <2>3, <2>4 DEF ChannelCmds
<1> HIDE DEF h
<1>4. \/ h.ok /\ chan' = h.dev /\ GoesOn(mem, Tail(todo), told)
      \/ chan' \in {chan, h.dev} /\ GivenUp
  BY <1>1, ChannelMust
<1>5. ChannelShape'
  BY <1>2, <1>3, <1>4 DEF ChannelShape
<1>6. QED
  BY <1>1, <1>4, <1>5 DEF h

(* The last call of an operation has been answered. *)
LEMMA ChannelLast ==
  ASSUME Shape, theme = "channel", op \in Operations, NEW m, GoesOn(m, <<>>, told)
  PROVE  /\ op' = Idle /\ result'.name = op.name /\ result'.op = op
         /\ result'.value = m.value
         /\ told'.posted = told.posted /\ told'.lostRead = told.lostRead
         /\ told'.parser = CASE op.name \in {"open", "close"} -> None
                             [] op.name = "json_parse" -> IF m.ok THEN "json" ELSE None
                             [] op.name = "html_parse" -> IF m.ok THEN "html" ELSE None
                             [] OTHER -> told.parser
         /\ result'.ok => m.ok
         /\ \/ told'.unsure
            \/ told'.unsure = (IF op.name \in {"open", "http_post"} THEN FALSE ELSE told.unsure)
<1>1. Finish(m.ok, m, told)
  BY DEF GoesOn
<1>2. op.name \in Names("channel") /\ SameTold(told)
  BY OperationNames DEF SameTold
<1>3. PICK ok \in BOOLEAN : told' = Learn(op, ok, told) /\ (ok <=> m.ok)
  <2>1. CASE m.ok
    <3>1. Learn(op, m.ok, told) = Learn(op, TRUE, told)
      BY <2>1, <1>2 DEF Learn, Names
    <3>2. QED
      BY <1>1, <2>1, <3>1 DEF Finish
  <2>2. CASE ~m.ok
    <3>1. Learn(op, m.ok, told) = Learn(op, FALSE, told)
      BY <2>2, <1>2 DEF Learn, Names
    <3>2. QED
      BY <1>1, <2>2, <3>1 DEF Finish
  <2>3. QED
    BY <2>1, <2>2
<1>4. /\ told'.posted = told.posted /\ told'.lostRead = told.lostRead
      /\ told'.parser = CASE op.name \in {"open", "close"} -> None
                          [] op.name = "json_parse" -> IF ok THEN "json" ELSE None
                          [] op.name = "html_parse" -> IF ok THEN "html" ELSE None
                          [] OTHER -> told.parser
      /\ ~ok => told'.unsure = TRUE
      /\ ok => told'.unsure = IF op.name \in {"open", "http_post"} THEN FALSE ELSE told.unsure
  BY <1>2, <1>3, ChannelLearns
<1>5. /\ op' = Idle /\ result'.name = op.name /\ result'.op = op
      /\ result'.value = m.value /\ (result'.ok => m.ok)
  BY <1>1 DEF Finish
<1>6. QED
  BY <1>3, <1>4, <1>5

LEMMA PlainStep ==
  ASSUME Shape, theme = "channel", ChannelShape, Step, PlainPhase, Ready
  PROVE  ChannelInv'
<1> DEFINE c == Head(todo)
           h == ChannelHandle(c, chan)
<1>1. PICK cmd \in {"OPEN", "CLOSE", "WRITE"} :
        /\ c.cmd = cmd /\ c.must /\ Tail(todo) = <<>>
        /\ cmd = "OPEN" => op.name = "open"
        /\ cmd = "CLOSE" => op.name = "close"
        /\ cmd = "WRITE" => op.name = "write" /\ ParserKnown
  <2>1. CASE op.name = "open" /\ todo = Open
    BY <2>1 DEF Open, Must
  <2>2. CASE op.name = "close" /\ todo = Close
    BY <2>2 DEF Close, Must
  <2>3. CASE op.name = "write" /\ todo = NetworkWrite(op.data) /\ ParserKnown
    BY <2>3 DEF NetworkWrite, Must
  <2>4. QED
    BY <2>1, <2>2, <2>3 DEF PlainPhase
<1> HIDE DEF c
<1>2. c.cmd \in ChannelCmds \ {"NET_STATUS", "READ", "SET_PARSER"}
  BY <1>1 DEF ChannelCmds
<1>3. /\ theme' = theme /\ op \in Operations /\ ChannelShape'
      /\ \/ h.ok /\ chan' = h.dev /\ GoesOn(mem, Tail(todo), told)
         \/ chan' \in {chan, h.dev} /\ GivenUp
  BY <1>1, <1>2, ChannelMustStep DEF c
<1>4. /\ c.cmd \in {"OPEN", "CLOSE"} => h.dev.mode = "body"
      /\ c.cmd = "WRITE" => SameParser(h.dev) /\ h.dev.mode = chan.mode
  BY <1>2, ChannelEffects DEF ChannelShape
<1> HIDE DEF h
<1>5. CASE chan' = h.dev /\ GoesOn(mem, Tail(todo), told)
  <2>1. /\ op' = Idle /\ result'.name = op.name
        /\ told'.parser = CASE op.name \in {"open", "close"} -> None
                             [] op.name = "json_parse" -> IF mem.ok THEN "json" ELSE None
                             [] op.name = "html_parse" -> IF mem.ok THEN "html" ELSE None
                             [] OTHER -> told.parser
        /\ \/ told'.unsure
           \/ told'.unsure = (IF op.name \in {"open", "http_post"} THEN FALSE ELSE told.unsure)
    BY <1>1, <1>3, <1>5, ChannelLast
  <2>2. Ready'
    BY <1>1, <1>4, <1>5, <2>1 DEF Ready
  <2>3. ParserKnown'
    BY <1>1, <1>4, <1>5, <2>1 DEF ParserKnown, SameParser
  <2>4. QED
    BY <1>1, <1>3, <2>1, <2>2, <2>3, ChannelEnds
<1>6. CASE chan' \in {chan, h.dev} /\ GivenUp
  <2>1. c.cmd = "WRITE" => ParserKnown /\ SameParser(chan')
    BY <1>1, <1>4, <1>6 DEF SameParser
  <2>2. QED
    BY <1>1, <1>3, <1>6, <2>1, ChannelGivesUp
<1>7. QED
  BY <1>3, <1>5, <1>6

LEMMA PostStep ==
  ASSUME Shape, theme = "channel", ChannelShape, Step, PostPhase
  PROVE  ChannelInv'
<1> DEFINE c == Head(todo)
           h == ChannelHandle(c, chan)
<1>1. op.name = "http_post" /\ ParserKnown /\ op # Idle
  BY DEF PostPhase, Step, Shape, Idle
<1>2. c \in {SetMode("post"), SetMode("body"), Must("WRITE", op.data)}
  BY HttpPostScript DEF PostPhase
<1>3. c.must /\ c.cmd \in {"SET_HTTP_MODE", "WRITE"}
  BY <1>2 DEF SetMode, Must
<1>4. c.cmd \in ChannelCmds \ {"NET_STATUS", "READ", "SET_PARSER"}
  BY <1>3 DEF ChannelCmds
<1> HIDE DEF c
<1>5. /\ theme' = theme /\ op \in Operations /\ ChannelShape'
      /\ \/ h.ok /\ chan' = h.dev /\ GoesOn(mem, Tail(todo), told)
         \/ chan' \in {chan, h.dev} /\ GivenUp
  BY <1>3, <1>4, ChannelMustStep DEF c
<1>6. SameParser(h.dev)
  BY <1>3, <1>4, ChannelEffects DEF ChannelShape
<1>7. c = SetMode("post") => h.dev.mode = "post" /\ h.dev.posted = chan.posted
  BY <1>4, ChannelEffects DEF ChannelShape, SetMode, Must
<1>8. c = SetMode("body") => h.dev.mode = "body" /\ h.dev.posted = chan.posted
  BY <1>4, ChannelEffects DEF ChannelShape, SetMode, Must
<1>9. c = Must("WRITE", op.data) /\ chan.mode = "post" =>
        h.dev.posted = Append(chan.posted, op.data)
  BY <1>4, ChannelEffects DEF ChannelShape, Must
<1> HIDE DEF h
<1>10. CASE chan' \in {chan, h.dev} /\ GivenUp
  <2>1. SameParser(chan')
    BY <1>6, <1>10 DEF SameParser
  <2>2. QED
    BY <1>1, <1>5, <1>10, <2>1, ChannelGivesUp
<1>11. CASE chan' = h.dev /\ GoesOn(mem, Tail(todo), told)
  <2>1. ASSUME Tail(todo) # <<>>
        PROVE  todo' = Tail(todo) /\ told' = told /\ op' = op /\ ParserKnown'
    BY <1>1, <1>6, <1>11, <2>1 DEF GoesOn, ParserKnown, SameParser
  <2>2. CASE todo = HttpPost(op) /\ Ready /\ chan.posted = told.posted
    <3>1. c = SetMode("post") /\ Tail(todo) = PostTail /\ Tail(todo) # <<>>
      BY <2>2, HttpPostScript DEF c
    <3>2. todo' = PostTail' /\ chan'.mode = "post" /\ chan'.posted = told'.posted
      BY <1>7, <1>11, <2>1, <2>2, <3>1 DEF PostTail
    <3>3. ChannelPhase'
      BY <1>1, <2>1, <3>1, <3>2 DEF ChannelPhase, PostPhase
    <3>4. QED
      BY <1>1, <1>5, <2>1, <3>1, <3>3, ChannelGoesOn
  <2>3. CASE todo = PostTail /\ chan.mode = "post" /\ chan.posted = told.posted
    <3>1. c = Must("WRITE", op.data) /\ Tail(todo) = BodyAgain /\ Tail(todo) # <<>>
      BY <2>3, HttpPostScript DEF c
    <3>2. todo' = BodyAgain' /\ chan'.posted = Append(told'.posted, op'.data)
      BY <1>9, <1>11, <2>1, <2>3, <3>1 DEF BodyAgain
    <3>3. ChannelPhase'
      BY <1>1, <2>1, <3>1, <3>2 DEF ChannelPhase, PostPhase
    <3>4. QED
      BY <1>1, <1>5, <2>1, <3>1, <3>3, ChannelGoesOn
  <2>4. CASE todo = BodyAgain /\ chan.posted = Append(told.posted, op.data)
    <3>1. c = SetMode("body") /\ Tail(todo) = <<>>
      BY <2>4, HttpPostScript DEF c
    <3>2. chan'.mode = "body" /\ chan'.posted = Append(told.posted, op.data)
      BY <1>8, <1>11, <2>4, <3>1
    <3>3. /\ op' = Idle /\ result'.name = op.name /\ result'.op = op
          /\ told'.posted = told.posted
          /\ told'.parser = CASE op.name \in {"open", "close"} -> None
                              [] op.name = "json_parse" -> IF mem.ok THEN "json" ELSE None
                              [] op.name = "html_parse" -> IF mem.ok THEN "html" ELSE None
                              [] OTHER -> told.parser
      BY <1>5, <1>11, <3>1, ChannelLast
    <3>4. Ready'
      BY <3>2 DEF Ready
    <3>5. ParserKnown'
      BY <1>1, <1>6, <1>11, <3>3 DEF ParserKnown, SameParser
    <3>6. QED
      BY <1>1, <1>5, <3>2, <3>3, <3>4, <3>5, ChannelEnds
  <2>5. QED
    BY <2>2, <2>3, <2>4 DEF PostPhase
<1>12. QED
  BY <1>5, <1>10, <1>11
LEMMA ParseStep ==
  ASSUME Shape, theme = "channel", ChannelShape, Step, Ready,
         NEW parser \in {"json", "html"}, NEW script,
         \/ op.name = "json_parse" /\ parser = "json" /\ script = JsonParse
         \/ op.name = "html_parse" /\ parser = "html" /\ script = HtmlParse,
         ParsePhase(parser, script)
  PROVE  ChannelInv'
<1> DEFINE c == Head(todo)
           h == ChannelHandle(c, chan)
<1>1. /\ script # <<>> /\ Head(script) = Must("SET_PARSER", parser) /\ Tail(script) = ParseTail
      /\ op # Idle /\ op.name \in {"json_parse", "html_parse"}
  BY ParseScripts DEF Step, Shape
<1>2. c \in {Must("SET_PARSER", parser), Must("PARSE", None)}
  BY <1>1, ParseScripts DEF ParsePhase
<1>3. /\ c.must /\ c.cmd \in {"SET_PARSER", "PARSE"}
      /\ c.cmd = "SET_PARSER" => c.arg = parser
  BY <1>2 DEF Must
<1>4. c.cmd \in ChannelCmds \ {"NET_STATUS", "READ"}
  BY <1>3 DEF ChannelCmds
<1> HIDE DEF c
<1>5. /\ theme' = theme /\ op \in Operations /\ ChannelShape'
      /\ \/ h.ok /\ chan' = h.dev /\ GoesOn(mem, Tail(todo), told)
         \/ chan' \in {chan, h.dev} /\ GivenUp
  BY <1>3, <1>4, ChannelMustStep DEF c
<1>6. SamePost(h.dev)
  BY <1>3, <1>4, ChannelEffects DEF ChannelShape
<1>7. /\ c.cmd = "SET_PARSER" => h.dev.parser = parser
      /\ c.cmd = "PARSE" => h.dev.parser = chan.parser /\ (h.ok => h.dev.parsed = TRUE)
  BY <1>3, <1>4, ChannelEffects DEF ChannelShape
<1>8. Must("SET_PARSER", parser).cmd = "SET_PARSER" /\ Must("PARSE", None).cmd = "PARSE"
  BY DEF Must
<1> HIDE DEF h
<1>9. CASE chan' \in {chan, h.dev} /\ GivenUp
  BY <1>1, <1>5, <1>9, ChannelGivesUp
<1>10. CASE h.ok /\ chan' = h.dev /\ GoesOn(mem, Tail(todo), told)
  <2>1. CASE todo = script
    <3>1. c = Must("SET_PARSER", parser) /\ Tail(todo) = ParseTail /\ Tail(todo) # <<>>
      BY <1>1, <2>1, ParseScripts DEF c
    <3>2. todo' = ParseTail /\ told' = told /\ op' = op
      BY <1>10, <3>1 DEF GoesOn
    <3>3. chan'.parser = parser
      BY <1>7, <1>8, <1>10, <3>1
    <3>4. Ready'
      BY <1>6, <1>10, <3>2 DEF Ready, SamePost
    <3>5. ChannelPhase'
      BY <3>2, <3>3, <3>4 DEF ChannelPhase, ParsePhase, ParseTail
    <3>6. QED
      BY <1>1, <1>5, <3>2, <3>5, ChannelGoesOn
  <2>2. CASE todo = ParseTail /\ chan.parser = parser
    <3>1. c = Must("PARSE", None) /\ Tail(todo) = <<>>
      BY <2>2, ParseScripts DEF c
    <3>2. chan'.parser = parser /\ chan'.parsed = TRUE
      BY <1>7, <1>8, <1>10, <2>2, <3>1
    <3>3. /\ op' = Idle /\ result'.name = op.name
          /\ told'.parser = CASE op.name \in {"open", "close"} -> None
                              [] op.name = "json_parse" -> IF mem.ok THEN "json" ELSE None
                              [] op.name = "html_parse" -> IF mem.ok THEN "html" ELSE None
                              [] OTHER -> told.parser
          /\ \/ told'.unsure
             \/ told'.unsure = (IF op.name \in {"open", "http_post"} THEN FALSE ELSE told.unsure)
      BY <1>5, <1>10, <3>1, ChannelLast
    <3>4. Ready'
      BY <1>1, <1>6, <1>10, <3>3 DEF Ready, SamePost
    <3>5. told'.parser \in {None, parser}
      BY <3>3
    <3>6. ParserKnown'
      BY <3>2, <3>5 DEF ParserKnown
    <3>7. QED
      BY <1>1, <1>5, <3>3, <3>4, <3>6, ChannelEnds
  <2>3. QED
    BY <2>1, <2>2 DEF ParsePhase
<1>11. QED
  BY <1>5, <1>9, <1>10

(* The QUERY itself. *)
LEMMA QueryAsks ==
  ASSUME Shape, theme = "channel", ChannelShape, Step, Ready, ParserKnown,
         op.name = "json_query", todo = JsonQuery(op), mem.value = <<>>
  PROVE  ChannelInv'
<1> DEFINE c == Head(todo)
           h == ChannelHandle(c, chan)
<1>1. c = Must("QUERY", op.query) /\ Tail(todo) = StatusTail /\ Tail(todo) # <<>> /\ op # Idle
  BY QueryScripts DEF Step, Shape
<1>2. c.must /\ c.cmd = "QUERY" /\ c.arg = op.query /\ c.cmd \in ChannelCmds \ {"NET_STATUS", "READ"}
  BY <1>1 DEF Must, ChannelCmds
<1> HIDE DEF c
<1>3. /\ theme' = theme /\ op \in Operations /\ ChannelShape'
      /\ \/ h.ok /\ chan' = h.dev /\ GoesOn(mem, Tail(todo), told)
         \/ chan' \in {chan, h.dev} /\ GivenUp
  BY <1>2, ChannelMustStep DEF c
<1>4. /\ SamePost(h.dev) /\ SameParser(h.dev)
      /\ h.ok => chan.parsed /\ h.dev.answer = Answer(op.query, chan.parser)
  BY <1>2, ChannelEffects DEF ChannelShape
<1> HIDE DEF h
<1>5. CASE chan' \in {chan, h.dev} /\ GivenUp
  <2>1. SameParser(chan')
    BY <1>4, <1>5 DEF SameParser
  <2>2. QED
    BY <1>3, <1>5, <2>1, ChannelGivesUp
<1>6. CASE h.ok /\ chan' = h.dev /\ GoesOn(mem, Tail(todo), told)
  <2>1. todo' = StatusTail /\ told' = told /\ op' = op /\ mem' = mem
    BY <1>1, <1>6 DEF GoesOn
  <2>2. Ready' /\ ParserKnown'
    BY <1>4, <1>6, <2>1 DEF Ready, ParserKnown, SamePost, SameParser
  <2>3. /\ chan'.parsed /\ chan'.parser \in {"json", "html"}
        /\ chan'.answer = Answer(op'.query, chan'.parser)
    BY <1>3, <1>4, <1>6, <2>1 DEF ChannelShape, SameParser
  <2>4. chan'.answer \in Seq(Answers(op'.query))
    BY <2>3, AnswerType
  <2>5. mem'.value = <<>> /\ mem'.value \in Seq(Answers(op'.query))
    <3>1. <<>> \in Seq(Answers(op'.query))
      BY EmptySeq
    <3>2. QED
      BY <2>1, <3>1
  <2>6. mem'.value \o chan'.answer = Answer(op'.query, chan'.parser)
    BY <2>3, <2>4, <2>5, ConcatEmptySeq
  <2>7. Following'
    BY <2>3, <2>4, <2>5, <2>6 DEF Following, Answers
  <2>8. ChannelPhase'
    BY <2>1, <2>2, <2>7 DEF ChannelPhase, QueryPhase, StatusTail
  <2>9. QED
    BY <1>1, <1>3, <2>1, <2>8, ChannelGoesOn
<1>7. QED
  BY <1>3, <1>5, <1>6

(* The status of the channel while an answer is read. *)
LEMMA StatusCall ==
  ASSUME Shape, theme = "channel", ChannelShape, Step, Ready, ParserKnown, op.name = "json_query",
         NEW c, c = Head(todo), c = Must("NET_STATUS", None), Following
  PROVE  /\ theme' = theme /\ op \in Operations /\ op # Idle
         /\ \/ ChannelInv'
            \/ /\ chan' = chan
               /\ \E m, r : /\ r \in Nat /\ (r = 0 <=> chan.answer = <<>>)
                            /\ m = IF r = 0 THEN WithValue(StripNewlines(mem.value)) ELSE mem
                            /\ GoesOn(m, ChannelRest(c, r), told)
<1> DEFINE h == ChannelHandle(c, chan)
<1>1. c.must /\ c.cmd = "NET_STATUS" /\ c.cmd \in ChannelCmds
  BY DEF Must, ChannelCmds
<1>2. op \in Operations /\ ChannelStep(c, h) /\ theme' = theme /\ op # Idle
  BY <1>1, ChannelCall DEF ChannelShape, Step, Shape
<1>3. h.dev = chan /\ h.reply = Min({ChunkMax, Len(chan.answer)})
  BY <1>1, ChannelEffects DEF ChannelShape
<1>4. /\ h.reply \in Nat /\ (h.reply = 0 <=> chan.answer = <<>>)
  <2>1. /\ Len(chan.answer) \in Nat /\ (Len(chan.answer) = 0 <=> chan.answer = <<>>)
        /\ ChunkMax \in Nat /\ ChunkMax # 0
    BY ChannelAssumption DEF Following, ChannelAssumption
  <2>2. h.reply = IF ChunkMax <= Len(chan.answer) THEN ChunkMax ELSE Len(chan.answer)
    BY <1>3, <2>1, Shown
  <2> HIDE DEF h
  <2>3. QED
    BY <2>1, <2>2
<1> HIDE DEF h
<1>5. ASSUME NEW t, SameTold(t), Finish(FALSE, mem, t), chan' = chan PROVE ChannelInv'
  <2>1. GivenUp
    BY <1>5 DEF Finish, GivenUp
  <2>2. ChannelShape' /\ SameParser(chan')
    BY <1>5 DEF ChannelShape, SameParser
  <2>3. QED
    BY <1>2, <2>1, <2>2, ChannelGivesUp
<1>6. ASSUME NEW m \in ChannelKeep(c, TRUE, h.reply, mem)
      PROVE  m = IF h.reply = 0 THEN WithValue(StripNewlines(mem.value)) ELSE mem
  <2>1. CASE h.reply = 0
    BY <1>1, <1>6, <2>1 DEF ChannelKeep, WithValue
  <2>2. CASE h.reply # 0
    BY <1>1, <1>6, <2>2 DEF ChannelKeep
  <2>3. QED
    BY <2>1, <2>2
<1>7. CASE h.ok /\ chan' = h.dev /\ \E m \in ChannelKeep(c, TRUE, h.reply, mem) :
             GoesOn(m, ChannelRest(c, h.reply), told)
  BY <1>2, <1>3, <1>4, <1>6, <1>7
<1>8. CASE chan' \in {chan, h.dev} /\ \E t : SameTold(t) /\ c.must /\ Finish(FALSE, mem, t)
  BY <1>2, <1>3, <1>5, <1>8
<1>9. QED
  BY <1>1, <1>2, <1>7, <1>8 DEF ChannelStep

LEMMA QueryLooks ==
  ASSUME Shape, theme = "channel", ChannelShape, Step, Ready, ParserKnown,
         op.name = "json_query", todo = StatusTail, Following
  PROVE  ChannelInv'
<1> DEFINE c == Head(todo)
<1>1. c = Must("NET_STATUS", None) /\ Tail(todo) = <<>> /\ c.cmd = "NET_STATUS"
  BY QueryScripts DEF Must
<1> HIDE DEF c
<1>2. /\ theme' = theme /\ op \in Operations /\ op # Idle
      /\ \/ ChannelInv'
         \/ /\ chan' = chan
            /\ \E m, r : /\ r \in Nat /\ (r = 0 <=> chan.answer = <<>>)
                         /\ m = IF r = 0 THEN WithValue(StripNewlines(mem.value)) ELSE mem
                         /\ GoesOn(m, ChannelRest(c, r), told)
  BY <1>1, StatusCall DEF c
<1>3. SUFFICES ASSUME chan' = chan, NEW m, NEW r \in Nat, r = 0 <=> chan.answer = <<>>,
                      m = IF r = 0 THEN WithValue(StripNewlines(mem.value)) ELSE mem,
                      GoesOn(m, ChannelRest(c, r), told)
               PROVE  ChannelInv'
  BY <1>2
<1>4. ChannelShape'
  BY <1>3 DEF ChannelShape
<1>5. CASE r # 0
  <2>1. ChannelRest(c, r) = MoreTail(r)
    BY <1>1, <1>5 DEF ChannelRest, QueryRest, MoreTail
  <2>2. MoreTail(r) # <<>>
    BY QueryScripts
  <2>3. todo' = MoreTail(r) /\ told' = told /\ mem' = mem /\ op' = op
    BY <1>3, <1>5, <2>1, <2>2 DEF GoesOn
  <2>4. Ready' /\ ParserKnown' /\ Following' /\ chan'.answer # <<>>
    BY <1>3, <1>5, <2>3 DEF Ready, ParserKnown, Following, Answers
  <2>5. ChannelPhase'
    BY <2>3, <2>4 DEF ChannelPhase, QueryPhase, MoreTail
  <2>6. QED
    BY <1>2, <1>4, <2>3, <2>5, ChannelGoesOn
<1>6. CASE r = 0
  <2> DEFINE v == StripNewlines(mem.value)
  <2>1. ChannelRest(c, r) = <<>> /\ chan.answer = <<>>
    BY <1>1, <1>3, <1>6 DEF ChannelRest, QueryRest
  <2>2. /\ op' = Idle /\ result'.name = op.name /\ result'.op = op /\ result'.value = m.value
        /\ told'.lostRead = told.lostRead
        /\ told'.parser = CASE op.name \in {"open", "close"} -> None
                            [] op.name = "json_parse" -> IF m.ok THEN "json" ELSE None
                            [] op.name = "html_parse" -> IF m.ok THEN "html" ELSE None
                            [] OTHER -> told.parser
        /\ \/ told'.unsure
           \/ told'.unsure = (IF op.name \in {"open", "http_post"} THEN FALSE ELSE told.unsure)
    BY <1>2, <1>3, <2>1, ChannelLast
  <2>3. told'.parser = told.parser
    BY <2>2
  <2>4. Ready' /\ ParserKnown'
    BY <1>3, <2>2, <2>3 DEF Ready, ParserKnown
  <2>5. result'.value = v
    <3>1. m = WithValue(v)
      BY <1>3, <1>6
    <3>2. m.value = v
      BY <3>1 DEF WithValue, Shape, MemOff
    <3> HIDE DEF v
    <3>3. QED
      BY <2>2, <3>2
  <2>6. /\ \A i \in DOMAIN v : v[i].query = op.query
        /\ v # <<>> => v[Len(v)].at # 0
    BY Stripped DEF Following
  <2>7. ~told.lostRead => v = StripNewlines(Answer(op.query, chan.parser))
    <3>1. mem.value \o <<>> = mem.value
      BY ConcatEmptySeq DEF Following
    <3>2. QED
      BY <2>1, <3>1 DEF Following
  <2> HIDE DEF v
  <2>8. chan.parser \in {"json", "html"}
    BY DEF Following, ChannelShape
  <2>9. QueryWhole'
    <3>1. ~told'.lostRead => v = StripNewlines(Answer(op.query, chan.parser))
      BY <2>2, <2>7
    <3>2. told'.parser # None => told'.parser = chan.parser
      BY <2>3 DEF ParserKnown
    <3>3. QED
      BY <2>2, <2>5, <2>6, <2>8, <3>1, <3>2 DEF QueryWhole
  <2>10. PostedOnce'
    BY <2>2, <2>4 DEF PostedOnce, Succeeded, Ready
  <2>11. QED
    BY <1>4, <2>2, <2>4, <2>9, <2>10 DEF ChannelInv
<1>7. QED
  BY <1>5, <1>6

LEMMA QueryLooksAgain ==
  ASSUME Shape, theme = "channel", ChannelShape, Step, Ready, ParserKnown,
         op.name = "json_query", NEW n \in Nat, todo = MoreTail(n), chan.answer # <<>>, Following
  PROVE  ChannelInv'
<1> DEFINE c == Head(todo)
<1>1. c = Must("NET_STATUS", None) /\ Tail(todo) = ReadTail(n) /\ ReadTail(n) # <<>>
  BY QueryScripts
<1> HIDE DEF c
<1>2. /\ theme' = theme /\ op \in Operations /\ op # Idle
      /\ \/ ChannelInv'
         \/ /\ chan' = chan
            /\ \E m, r : /\ r \in Nat /\ (r = 0 <=> chan.answer = <<>>)
                         /\ m = IF r = 0 THEN WithValue(StripNewlines(mem.value)) ELSE mem
                         /\ GoesOn(m, ChannelRest(c, r), told)
  BY <1>1, StatusCall DEF c
<1>3. SUFFICES ASSUME chan' = chan, NEW r, GoesOn(mem, ChannelRest(c, r), told)
               PROVE  ChannelInv'
  BY <1>2
<1>4. ChannelRest(c, r) = ReadTail(n)
  BY <1>1 DEF ChannelRest, QueryRest
<1>5. todo' = ReadTail(n) /\ told' = told /\ mem' = mem /\ op' = op
  BY <1>1, <1>3, <1>4 DEF GoesOn
<1>6. Ready' /\ ParserKnown' /\ Following' /\ ChannelShape'
  BY <1>3, <1>5 DEF Ready, ParserKnown, Following, Answers, ChannelShape
<1>7. ChannelPhase'
  BY <1>5, <1>6 DEF ChannelPhase, QueryPhase, ReadTail
<1>8. QED
  BY <1>2, <1>5, <1>6, <1>7, ChannelGoesOn

LEMMA QueryReads ==
  ASSUME Shape, theme = "channel", ChannelShape, Step, Ready, ParserKnown,
         op.name = "json_query", NEW n \in Nat, todo = ReadTail(n), Following
  PROVE  ChannelInv'
<1> DEFINE c == Head(todo)
           h == ChannelHandle(c, chan)
           S == Answers(op.query)
<1>1. c = Try("READ", n) /\ Tail(todo) = StatusTail /\ StatusTail # <<>>
  BY QueryScripts
<1>2. ~c.must /\ c.cmd = "READ" /\ c.arg = n /\ c.cmd \in ChannelCmds
  BY <1>1 DEF Try, ChannelCmds
<1> HIDE DEF c
<1>3. op \in Operations /\ ChannelStep(c, h) /\ theme' = theme /\ op # Idle
  BY <1>2, ChannelCall DEF ChannelShape, Step, Shape, c
<1>4. /\ DOMAIN h.dev = DOMAIN ChannelOff /\ SamePost(h.dev) /\ SameParser(h.dev)
      /\ h.dev.answer = SubSeq(chan.answer, Min({n, Len(chan.answer)}) + 1, Len(chan.answer))
      /\ h.reply = SubSeq(chan.answer, 1, Min({n, Len(chan.answer)}))
  BY <1>2, ChannelEffects DEF ChannelShape
<1> HIDE DEF h
<1>5. /\ mem.value \in Seq(S) /\ chan.answer \in Seq(S)
      /\ h.reply \in Seq(S) /\ h.dev.answer \in Seq(S) /\ h.reply \o h.dev.answer = chan.answer
  <2>1. mem.value \in Seq(S) /\ chan.answer \in Seq(S)
    BY DEF Following
  <2> DEFINE s == chan.answer
             k == Min({n, Len(s)})
  <2> HIDE DEF S
  <2>2. /\ SubSeq(s, 1, k) \in Seq(S) /\ SubSeq(s, k + 1, Len(s)) \in Seq(S)
        /\ SubSeq(s, 1, k) \o SubSeq(s, k + 1, Len(s)) = s
    BY <2>1, Chunk
  <2>3. QED
    BY <1>4, <2>1, <2>2
<1> HIDE DEF S
<1>6. \A r : ChannelRest(c, r) = StatusTail
  BY <1>1, <1>2 DEF ChannelRest, QueryRest
<1>7. ASSUME chan' \in {chan, h.dev}
      PROVE  /\ chan'.mode = chan.mode /\ chan'.parser = chan.parser /\ chan'.parsed = chan.parsed
             /\ chan'.answer \in Seq(S) /\ ChannelShape'
  <2>1. CASE chan' = chan
    BY <1>5, <2>1 DEF ChannelShape
  <2>2. CASE chan' = h.dev
    BY <1>4, <1>5, <2>2 DEF ChannelShape, SamePost, SameParser
  <2>3. QED
    BY <1>7, <2>1, <2>2
<1>8. ASSUME NEW m, NEW t, SameTold(t), GoesOn(m, StatusTail, t), chan' \in {chan, h.dev},
             m.value \in Seq(S),
             ~t.lostRead => m.value \o chan'.answer = Answer(op.query, chan.parser)
      PROVE  ChannelInv'
  <2>1. todo' = StatusTail /\ told' = t /\ mem' = m /\ op' = op
    BY <1>1, <1>8 DEF GoesOn
  <2>2. t.unsure = told.unsure /\ t.parser = told.parser
    BY <1>8 DEF SameTold, Shape, ToldOff
  <2>3. Ready' /\ ParserKnown'
    BY <1>7, <1>8, <2>1, <2>2 DEF Ready, ParserKnown
  <2>4. Following'
    BY <1>7, <1>8, <2>1 DEF Following, Answers, S
  <2>5. ChannelPhase'
    BY <2>1, <2>3, <2>4 DEF ChannelPhase, QueryPhase, StatusTail
  <2>6. QED
    BY <1>3, <1>7, <1>8, <2>1, <2>5, ChannelGoesOn
<1>9. CASE /\ h.ok /\ chan' = h.dev
           /\ \E m \in ChannelKeep(c, TRUE, h.reply, mem) : GoesOn(m, ChannelRest(c, h.reply), told)
  <2>1. ChannelKeep(c, TRUE, h.reply, mem) = {WithValue(mem.value \o h.reply)}
    BY <1>2 DEF ChannelKeep, Into, WithValue
  <2> DEFINE m == WithValue(mem.value \o h.reply)
  <2>2. m.value = mem.value \o h.reply
    BY DEF WithValue, Shape, MemOff
  <2>3. GoesOn(m, StatusTail, told)
    BY <1>6, <1>9, <2>1
  <2> HIDE DEF m
  <2>4. m.value \in Seq(S) /\ m.value \o h.dev.answer = mem.value \o chan.answer
    <3>1. mem.value \o h.reply \in Seq(S)
      BY <1>5, ConcatProperties
    <3>2. (mem.value \o h.reply) \o h.dev.answer = mem.value \o (h.reply \o h.dev.answer)
      <4>1. \A a, b, d \in Seq(S) : (a \o b) \o d = a \o (b \o d)
        BY ConcatAssociative
      <4>2. QED
        BY <1>5, <4>1, Zenon
    <3>3. QED
      BY <1>5, <2>2, <3>1, <3>2
  <2>5. SameTold(told)
    BY DEF SameTold
  <2>6. QED
    BY <1>8, <1>9, <2>3, <2>4, <2>5 DEF Following
<1>10. CASE /\ chan' \in {chan, h.dev}
            /\ \E t : /\ SameTold(t)
                      /\ ~t.lostRead => ~told.lostRead /\ (c.cmd = "READ" => chan' = chan)
                      /\ \E m \in ChannelKeep(c, FALSE, None, mem) :
                           GoesOn(m, ChannelRest(c, None), t)
  <2>1. ChannelKeep(c, FALSE, None, mem) = {mem}
    BY <1>2 DEF ChannelKeep
  <2>2. PICK t : /\ SameTold(t) /\ GoesOn(mem, StatusTail, t)
                 /\ ~t.lostRead => ~told.lostRead /\ chan' = chan
    BY <1>2, <1>6, <1>10, <2>1
  <2>3. QED
    BY <1>5, <1>8, <1>10, <2>2 DEF Following
<1>11. QED
  BY <1>2, <1>3, <1>9, <1>10 DEF ChannelStep

LEMMA ChannelNext == Shape /\ ChannelInv /\ [Next]_vars => ChannelInv'
<1> SUFFICES ASSUME Shape, ChannelInv, [Next]_vars PROVE ChannelInv'
  OBVIOUS
<1>1. CASE Step
  <2> SUFFICES ASSUME theme = "channel" PROVE ChannelInv'
    BY <1>1 DEF Step, ChannelInv
  <2>1. op # Idle /\ ChannelShape /\ ChannelPhase
    BY <1>1 DEF Step, Shape, ChannelInv
  <2>2. CASE PlainPhase /\ Ready
    BY <1>1, <2>1, <2>2, PlainStep
  <2>3. CASE PostPhase
    BY <1>1, <2>1, <2>3, PostStep
  <2>4. CASE op.name = "json_parse" /\ ParsePhase("json", JsonParse) /\ Ready
    BY <1>1, <2>1, <2>4, ParseStep
  <2>5. CASE op.name = "html_parse" /\ ParsePhase("html", HtmlParse) /\ Ready
    BY <1>1, <2>1, <2>5, ParseStep
  <2>6. CASE QueryPhase /\ Ready
    BY <1>1, <2>1, <2>6, QueryAsks, QueryLooks, QueryLooksAgain, QueryReads DEF QueryPhase
  <2>7. QED
    BY <2>1, <2>2, <2>3, <2>4, <2>5, <2>6 DEF ChannelPhase
<1>2. ASSUME UNCHANGED <<theme, chan, op, todo, mem, told, result>> PROVE ChannelInv'
  <2>1. (Ready <=> Ready') /\ (ParserKnown <=> ParserKnown') /\ (ChannelShape <=> ChannelShape')
    BY <1>2 DEF Ready, ParserKnown, ChannelShape
  <2>2. Following <=> Following'
    BY <1>2 DEF Following, Answers
  <2>3. ChannelPhase <=> ChannelPhase'
    BY <1>2, <2>1, <2>2 DEF ChannelPhase, PlainPhase, PostPhase, ParsePhase, QueryPhase, PostTail,
       ParseTail, StatusTail, MoreTail, ReadTail
  <2>4. (PostedOnce <=> PostedOnce') /\ (QueryWhole <=> QueryWhole')
    BY <1>2 DEF PostedOnce, QueryWhole, Succeeded
  <2>5. QED
    BY <1>2, <2>1, <2>3, <2>4 DEF ChannelInv
<1>3. CASE NoCall
  <2> SUFFICES ASSUME theme = "channel" PROVE ChannelInv'
    BY <1>3 DEF NoCall, ChannelInv
  <2>1. todo = <<>> /\ ChannelPhase
    BY <1>3 DEF NoCall, ChannelInv
  <2>2. QED
    BY <2>1, HttpPostScript, ParseScripts, QueryScripts
       DEF ChannelPhase, PlainPhase, PostPhase, ParsePhase, QueryPhase, Open, Close, NetworkWrite
<1>4. CASE CopyEnds
  BY <1>2, <1>4 DEF CopyEnds
<1>5. CASE UNCHANGED vars
  BY <1>2, <1>5 DEF vars
<1>6. QED
  BY <1>1, <1>3, <1>4, <1>5, ChannelBegin DEF Next

LEMMA ChannelHolds == Spec => []ChannelInv
BY ChannelInit, ChannelNext, ShapeHolds, PTL DEF Spec

(* network_http_post() that returns FN_ERR_OK has posted its data, once and
   last, and left the channel in the mode for bodies, where it stays as long as
   no operation on the channel fails. *)
THEOREM PostedOnceCorrect == Spec => []PostedOnce
<1>1. Shape /\ ChannelInv => PostedOnce
  BY DEF Shape, ChannelInv, PostedOnce, Succeeded, Names, None
<1>2. QED
  BY <1>1, ChannelHolds, ShapeHolds, PTL

(* network_json_query() returns its own answer and nothing of an earlier one, by
   the parser that has parsed the document, in order and without line ends at
   the end; all of it unless the answer of a READ was lost, which network_read()
   takes for a read of no bytes. *)
THEOREM QueryWholeCorrect == Spec => []QueryWhole
<1>1. Shape /\ ChannelInv => QueryWhole
  BY DEF Shape, ChannelInv, QueryWhole, Succeeded, Names, None
<1>2. QED
  BY <1>1, ChannelHolds, ShapeHolds, PTL

(***************************************************************************)
(* One call about files.                                                   *)
(***************************************************************************)

(* The program's variables after a step of a copy. *)
WithStep(m, step, ok) == [m EXCEPT !.step = step, !.ok = ok]

LEMMA StepFields ==
  ASSUME NEW m, DOMAIN m = DOMAIN MemOff, NEW step, NEW ok
  PROVE  /\ DOMAIN WithStep(m, step, ok) = DOMAIN MemOff
         /\ WithStep(m, step, ok).step = step /\ WithStep(m, step, ok).ok = ok
         /\ WithStep(m, step, ok).entry = m.entry /\ WithStep(m, step, ok).size = m.size
BY DEF WithStep, MemOff

(* How a stat, or a copy, goes on. *)
FileGoesOn(c, ok, m, t) ==
  IF op.name = "copy_file"
  THEN LET copy == CopyRest(c, ok, op, m, Tail(todo))
       IN GoesOn(WithStep(m, copy.step, copy.ok), copy.todo, t)
  ELSE GoesOn(m, StatRest(c, ok, m, Tail(todo)), t)

FileStep(c, h) ==
  \/ /\ h.ok /\ files' = h.dev
     /\ \E m \in FileKeep(c, TRUE, h.reply, mem) : FileGoesOn(c, TRUE, m, told)
  \/ /\ files' \in {files, h.dev}
     /\ \E t : /\ SameTold(t)
               /\ \/ c.must /\ Finish(FALSE, mem, t)
                  \/ /\ ~c.must
                     /\ \E m \in FileKeep(c, FALSE, None, mem) : FileGoesOn(c, FALSE, m, t)

Entries == [name : {"file", "other", "eof"}, size : Nat]

(* The FujiNet's files: what there may be of them, and of a copy of one. *)
FileShape ==
  /\ DOMAIN files = DOMAIN FilesOff(files.fs)
  /\ files.fs \in [Hosts -> Files]
  /\ files.dir \in Seq(Entries)
  /\ files.copying \in {<<>>, <<0, 1>>, <<1, 0>>}

(* The entry of the file, when the directory of a host has one, has its size. *)
ListedIn(d, host) ==
  \A i \in DOMAIN d.dir :
    d.dir[i].name = "file" => d.fs[host] # NoFile /\ d.dir[i].size = d.fs[host].size

LEMMA FileSizes ==
  ASSUME NEW f \in Files
  PROVE  f.size \in Nat
<1>1. CASE f = NoFile
  BY <1>1 DEF NoFile
<1>2. CASE f \in [size : Sizes, text : Hosts]
  <2>1. f.size \in Sizes
    BY <1>2
  <2>2. QED
    BY <2>1, FileAssumption DEF FileAssumption
<1>3. QED
  BY <1>1, <1>2 DEF Files

(* Every command but COPY_FILE leaves the files as they are. *)
LEMMA DirEffects ==
  ASSUME FileShape, NEW c, c.cmd \in FileCmds \ {"COPY_FILE"}, NEW h \in FileHandle(c, files),
         c.cmd = "OPEN_DIRECTORY" => c.arg \in Hosts
  PROVE  LET d == h.dev
         IN /\ DOMAIN d = DOMAIN FilesOff(files.fs)
            /\ d.fs = files.fs /\ d.copying = files.copying /\ d.dir \in Seq(Entries)
            /\ \E e, r : h = Done(e, r) \/ h = Refused(files)
            /\ h.ok => files.copying = <<>>
            /\ c.cmd = "OPEN_DIRECTORY" /\ h.ok => ListedIn(d, c.arg)
            /\ c.cmd = "READ_DIR_ENTRY" =>
                 \/ d = files /\ (h.ok => h.reply = EndOfDir)
                 \/ files.dir # <<>> /\ h.reply = Head(files.dir) /\ d.dir = Tail(files.dir)
<1>1. CASE files.copying # <<>>
  <2>1. h = Refused(files)
    BY <1>1 DEF FileHandle
  <2>2. h.dev = files /\ h.ok = FALSE
    BY <2>1 DEF Refused
  <2>3. QED
    BY <2>1, <2>2 DEF FileShape
<1>2. CASE files.copying = <<>>
  <2>1. h = DirHandle(c, files)
    BY <1>2 DEF FileHandle
  <2>2. CASE c.cmd = "MOUNT_HOST"
    BY <1>2, <2>1, <2>2 DEF DirHandle, Done, FileShape, FilesOff
  <2>3. CASE c.cmd = "OPEN_DIRECTORY"
    <3> DEFINE other == Entry("other", [size |-> 9])
               s == IF files.fs[c.arg] = NoFile THEN <<>> ELSE <<Entry("file", files.fs[c.arg])>>
               dir == <<other>> \o s
    <3>1. other \in Entries /\ other.name = "other"
      BY DEF Entry, Entries
    <3>2. files.fs[c.arg].size \in Nat
      BY <2>3, FileSizes DEF FileShape
    <3>3. /\ s \in Seq(Entries)
          /\ \A i \in DOMAIN s : files.fs[c.arg] # NoFile /\ s[i].size = files.fs[c.arg].size
      <4>1. CASE files.fs[c.arg] = NoFile
        BY <4>1, EmptySeq
      <4>2. CASE files.fs[c.arg] # NoFile
        <5> DEFINE e == Entry("file", files.fs[c.arg])
        <5>1. e \in Entries /\ e.size = files.fs[c.arg].size
          BY <3>2 DEF Entry, Entries
        <5> HIDE DEF e
        <5>2. s = <<e>>
          BY <4>2 DEF e
        <5> HIDE DEF s
        <5>3. QED
          BY <4>2, <5>1, <5>2
      <4>3. QED
        BY <4>1, <4>2
    <3> HIDE DEF other, s
    <3>4. /\ dir \in Seq(Entries) /\ Len(dir) = 1 + Len(s)
          /\ \A i \in 1..1 + Len(s) : dir[i] = IF i <= 1 THEN other ELSE s[i - 1]
      <4>1. <<other>> \in Seq(Entries) /\ Len(<<other>>) = 1 /\ <<other>>[1] = other
        BY <3>1
      <4>2. Len(s) \in Nat
        BY <3>3
      <4> DEFINE o == <<other>>
      <4> HIDE DEF o
      <4>3. /\ o \o s \in Seq(Entries) /\ Len(o \o s) = Len(o) + Len(s)
            /\ \A i \in 1..Len(o) + Len(s) : (o \o s)[i] = IF i <= Len(o) THEN o[i] ELSE s[i - Len(o)]
        BY <3>3, <4>1, ConcatProperties DEF o
      <4>4. Len(o) = 1 /\ o[1] = other
        BY <4>1 DEF o
      <4>5. dir = o \o s
        BY DEF o
      <4> HIDE DEF dir
      <4>6. \A i \in 1..1 + Len(s) : i <= 1 => i = 1
        BY <4>2
      <4>7. QED
        BY <4>3, <4>4, <4>5, <4>6
    <3>5. \A i \in DOMAIN dir : dir[i].name = "file" =>
            files.fs[c.arg] # NoFile /\ dir[i].size = files.fs[c.arg].size
      <4> HIDE DEF dir
      <4>1. SUFFICES ASSUME NEW i \in DOMAIN dir, dir[i].name = "file"
                     PROVE  files.fs[c.arg] # NoFile /\ dir[i].size = files.fs[c.arg].size
        OBVIOUS
      <4>2. i \in 1..1 + Len(s) /\ Len(s) \in Nat /\ DOMAIN s = 1..Len(s)
        BY <3>3, <3>4, <4>1
      <4>3. ~(i <= 1)
        BY <3>1, <3>4, <4>1, <4>2
      <4>4. dir[i] = s[i - 1] /\ i - 1 \in DOMAIN s
        BY <3>4, <4>2, <4>3
      <4>5. QED
        BY <3>3, <4>4
    <3>6. \/ h = Refused(files)
          \/ h = Done([files EXCEPT !.dirOpen = TRUE, !.dir = dir], None)
      BY <2>1, <2>3 DEF DirHandle, s, other
    <3> HIDE DEF dir
    <3>7. CASE h = Refused(files)
      <4>1. h.dev = files /\ h.ok = FALSE
        BY <3>7 DEF Refused
      <4>2. QED
        BY <2>3, <3>7, <4>1 DEF FileShape
    <3>8. CASE h = Done([files EXCEPT !.dirOpen = TRUE, !.dir = dir], None)
      <4>1. /\ h.dev.dir = dir /\ h.dev.fs = files.fs /\ h.dev.copying = files.copying
            /\ DOMAIN h.dev = DOMAIN FilesOff(files.fs)
        BY <3>8 DEF Done, FileShape, FilesOff
      <4>2. ListedIn(h.dev, c.arg)
        BY <3>5, <4>1 DEF ListedIn
      <4>3. QED
        BY <1>2, <2>3, <3>4, <3>8, <4>1, <4>2
    <3>9. QED
      BY <3>6, <3>7, <3>8
  <2>4. CASE c.cmd = "READ_DIR_ENTRY"
    <3>1. CASE ~files.dirOpen
      BY <1>2, <2>1, <2>4, <3>1 DEF DirHandle, Refused, FileShape
    <3>2. CASE files.dirOpen /\ files.dir = <<>>
      BY <1>2, <2>1, <2>4, <3>2 DEF DirHandle, Done, FileShape
    <3>3. CASE files.dirOpen /\ files.dir # <<>>
      <4>1. h = Done([files EXCEPT !.dir = Tail(@)], Head(files.dir))
        BY <2>1, <2>4, <3>3 DEF DirHandle
      <4>2. Tail(files.dir) \in Seq(Entries)
        BY <3>3, HeadTailProperties DEF FileShape
      <4>3. QED
        BY <1>2, <2>4, <3>3, <4>1, <4>2 DEF Done, FileShape, FilesOff
    <3>4. QED
      BY <3>1, <3>2, <3>3
  <2>5. CASE c.cmd = "CLOSE_DIRECTORY"
    <3>1. h = Done([files EXCEPT !.dirOpen = FALSE, !.dir = <<>>], None)
      BY <2>1, <2>5 DEF DirHandle
    <3>2. <<>> \in Seq(Entries)
      BY EmptySeq
    <3>3. QED
      BY <1>2, <2>5, <3>1, <3>2 DEF Done, FileShape, FilesOff
  <2>6. CASE c.cmd = "STATUS"
    BY <1>2, <2>1, <2>6 DEF DirHandle, Done, FileShape
  <2>7. QED
    BY <2>2, <2>3, <2>4, <2>5, <2>6 DEF FileCmds
<1>3. QED
  BY <1>1, <1>2

(* COPY_FILE is carried out at once, or begun, when there is a file to copy and
   no copy is under way. *)
LEMMA CopyEffects ==
  ASSUME FileShape, NEW from \in Hosts, NEW to \in Hosts, from # to,
         NEW c, c.cmd = "COPY_FILE", c.arg[1] - 1 = from, c.arg[2] - 1 = to,
         NEW h \in FileHandle(c, files)
  PROVE  LET d == h.dev
         IN /\ DOMAIN d = DOMAIN FilesOff(files.fs) /\ d.dir = files.dir
            /\ d.fs \in [Hosts -> Files]
            /\ \E e, r : h = Done(e, r) \/ h = Refused(e)
            /\ \/ ~h.ok /\ d = files
               \/ ~h.ok /\ d.fs = files.fs /\ d.copying = <<from, to>>
               \/ /\ h.ok /\ files.fs[from] # NoFile /\ d.copying = <<>>
                  /\ d.fs[to] = files.fs[from] /\ d.fs[from] = files.fs[from]
<1>1. CASE files.copying # <<>> \/ files.fs[from] = NoFile
  <2>1. h = Refused(files)
    BY <1>1 DEF FileHandle, CopyHandle
  <2>2. QED
    BY <2>1 DEF Refused, FileShape
<1>2. CASE files.copying = <<>> /\ files.fs[from] # NoFile
  <2> DEFINE started == [files EXCEPT !.copying = <<from, to>>]
             done == [started EXCEPT !.fs[to] = started.fs[from], !.copying = <<>>]
  <2>1. h \in {Done(done, None), Refused(started)}
    BY <1>2 DEF FileHandle, CopyHandle, Copied
  <2>2. /\ DOMAIN started = DOMAIN FilesOff(files.fs)
        /\ started.fs = files.fs /\ started.dir = files.dir /\ started.copying = <<from, to>>
    BY DEF FileShape, FilesOff
  <2>3. /\ DOMAIN done = DOMAIN FilesOff(files.fs)
        /\ done.fs = [files.fs EXCEPT ![to] = files.fs[from]]
        /\ done.dir = files.dir /\ done.copying = <<>>
    BY DEF FileShape, FilesOff
  <2>4. /\ done.fs \in [Hosts -> Files]
        /\ done.fs[to] = files.fs[from] /\ done.fs[from] = files.fs[from]
    BY <2>3 DEF FileShape
  <2> HIDE DEF started, done
  <2>5. CASE h = Done(done, None)
    <3>1. h.dev = done /\ h.ok = TRUE
      BY <2>5 DEF Done
    <3>2. QED
      BY <1>2, <2>3, <2>4, <2>5, <3>1
  <2>6. CASE h = Refused(started)
    <3>1. h.dev = started /\ h.ok = FALSE
      BY <2>6 DEF Refused
    <3>2. QED
      BY <2>2, <2>6, <3>1 DEF FileShape
  <2>7. QED
    BY <2>1, <2>5, <2>6
<1>3. QED
  BY <1>1, <1>2

LEMMA FileCall ==
  ASSUME Shape, theme = "file", Step, NEW c, c = Head(todo),
         \A h \in FileHandle(c, files) : \E e, r : h = Done(e, r) \/ h = Refused(e)
  PROVE  /\ op \in Operations /\ op # Idle /\ theme' = theme
         /\ \E h \in FileHandle(c, files) : FileStep(c, h)
<1>1. op # Idle /\ op \in Operations /\ theme' = theme
  BY DEF Step, Shape
<1>2. op.name \in {"copy_file", "file_stat"}
  BY <1>1, OperationNames DEF Names
<1>3. ASSUME NEW ok \in BOOLEAN, NEW reply, NEW t, Resume(c, ok, reply, t)
      PROVE  \/ ~ok /\ c.must /\ Finish(FALSE, mem, t)
             \/ /\ ok \/ ~c.must
                /\ \E m \in FileKeep(c, ok, reply, mem) : FileGoesOn(c, ok, m, t)
  <2>1. CASE ~ok /\ c.must
    BY <1>3, <2>1 DEF Resume
  <2>2. CASE ~(~ok /\ c.must)
    <3>1. PICK m \in FileKeep(c, ok, reply, mem) : FileGoesOn(c, ok, m, t)
      BY <1>2, <1>3, <2>2 DEF Resume, GoesOn, FileGoesOn, WithStep
    <3>2. QED
      BY <2>2, <3>1, Zenon
  <2>3. QED
    BY <2>1, <2>2
<1>4. PICK g \in Handles(c) : Answered(c, g) \/ Fails(c, g)
  BY DEF Step
<1>5. PICK h \in FileHandle(c, files) : g = [h EXCEPT !.dev = [FujiNet EXCEPT !.files = h.dev]]
  BY <1>4 DEF Handles
<1>6. PICK e, r : h = Done(e, r) \/ h = Refused(e)
  OBVIOUS
<1>7. /\ g.ok = h.ok /\ g.reply = h.reply /\ h.ok \in BOOLEAN
      /\ g.dev = [tools |-> tools, files |-> h.dev, chan |-> chan]
      /\ ~h.ok => h.reply = None
  <2>1. CASE h = Done(e, r)
    BY <1>5, <2>1 DEF Done, FujiNet
  <2>2. CASE h = Refused(e)
    BY <1>5, <2>2 DEF Refused, FujiNet
  <2>3. QED
    BY <1>6, <2>1, <2>2
<1>8. files' \in {files, h.dev}
  <2>1. \E d \in {g.dev, FujiNet} : Becomes(d)
    BY <1>4 DEF Answered, Fails
  <2>2. QED
    BY <1>7, <2>1 DEF Becomes, FujiNet
<1>9. CASE Answered(c, g)
  <2>1. files' = h.dev /\ Resume(c, h.ok, h.reply, told)
    BY <1>7, <1>9 DEF Answered, Becomes
  <2>2. SameTold(told)
    BY DEF SameTold
  <2>3. FileStep(c, h)
    <3>1. CASE h.ok
      BY <1>3, <1>7, <2>1, <3>1 DEF FileStep
    <3>2. CASE ~h.ok
      BY <1>3, <1>7, <2>1, <2>2, <3>2 DEF FileStep
    <3>3. QED
      BY <1>7, <3>1, <3>2
  <2>4. QED
    BY <1>1, <2>3
<1>10. CASE Fails(c, g)
  <2>1. PICK b \in BOOLEAN :
          Resume(c, FALSE, None, [told EXCEPT !.lostRead = @ \/ (b /\ c.cmd = "READ")])
    BY <1>10 DEF Fails
  <2> DEFINE t == [told EXCEPT !.lostRead = @ \/ (b /\ c.cmd = "READ")]
  <2>2. SameTold(t)
    BY DEF SameTold
  <2>3. Resume(c, FALSE, None, t)
    BY <2>1
  <2> HIDE DEF t
  <2>4. FileStep(c, h)
    BY <1>3, <1>8, <2>2, <2>3 DEF FileStep
  <2>5. QED
    BY <1>1, <2>4
<1>11. QED
  BY <1>4, <1>9, <1>10

(* A call whose failure is looked past, or given up on. *)
LEMMA FileTry ==
  ASSUME NEW c, NEW h, ~c.must, FileStep(c, h)
  PROVE  /\ files' \in {files, h.dev}
         /\ \E ok, r, t :
              /\ ok \in BOOLEAN
              /\ SameTold(t)
              /\ ok => h.ok /\ files' = h.dev /\ r = h.reply
              /\ \E m \in FileKeep(c, ok, r, mem) : FileGoesOn(c, ok, m, t)
<1>1. SameTold(told)
  BY DEF SameTold
<1>2. CASE h.ok /\ files' = h.dev /\ \E m \in FileKeep(c, TRUE, h.reply, mem) :
             FileGoesOn(c, TRUE, m, told)
  <2>1. PICK ok : ok \in BOOLEAN /\ ok = TRUE
    OBVIOUS
  <2>2. /\ ok \in BOOLEAN /\ SameTold(told)
        /\ ok => h.ok /\ files' = h.dev /\ h.reply = h.reply
        /\ \E m \in FileKeep(c, ok, h.reply, mem) : FileGoesOn(c, ok, m, told)
    BY <1>1, <1>2, <2>1
  <2>3. files' \in {files, h.dev}
    BY <1>2
  <2>4. \E k, y, z :
         /\ k \in BOOLEAN
         /\ SameTold(z)
         /\ k => h.ok /\ files' = h.dev /\ y = h.reply
         /\ \E m \in FileKeep(c, k, y, mem) : FileGoesOn(c, k, m, z)
    <3> WITNESS ok, h.reply, told
    <3> QED
      BY <2>2
  <2> QED
    BY <2>3, <2>4
<1>3. CASE files' \in {files, h.dev} /\ \E t : SameTold(t) /\
             \E m \in FileKeep(c, FALSE, None, mem) : FileGoesOn(c, FALSE, m, t)
  <2>1. PICK t : SameTold(t) /\ \E m \in FileKeep(c, FALSE, None, mem) : FileGoesOn(c, FALSE, m, t)
    BY <1>3, Zenon
  <2>2. PICK ok, r : ok \in BOOLEAN /\ ok = FALSE /\ r = None
    OBVIOUS
  <2>3. /\ ok \in BOOLEAN /\ SameTold(t)
        /\ ok => h.ok /\ files' = h.dev /\ r = h.reply
        /\ \E m \in FileKeep(c, ok, r, mem) : FileGoesOn(c, ok, m, t)
    BY <2>1, <2>2
  <2>4. files' \in {files, h.dev}
    BY <1>3
  <2>5. \E k, y, z :
         /\ k \in BOOLEAN
         /\ SameTold(z)
         /\ k => h.ok /\ files' = h.dev /\ y = h.reply
         /\ \E m \in FileKeep(c, k, y, mem) : FileGoesOn(c, k, m, z)
    <3> WITNESS ok, r, t
    <3> QED
      BY <2>3
  <2> QED
    BY <2>4, <2>5
<1>4. QED
  BY <1>2, <1>3 DEF FileStep

LEMMA FileMust ==
  ASSUME NEW c, NEW h, c.must, FileStep(c, h)
  PROVE  \/ /\ h.ok /\ files' = h.dev
            /\ \E m \in FileKeep(c, TRUE, h.reply, mem) : FileGoesOn(c, TRUE, m, told)
         \/ GivenUp
<1>1. ASSUME NEW t, SameTold(t), Finish(FALSE, mem, t) PROVE GivenUp
  BY <1>1 DEF Finish, GivenUp
<1>2. QED
  BY <1>1 DEF FileStep

LEMMA DirCall ==
  ASSUME Shape, theme = "file", FileShape, Step, NEW c, c = Head(todo),
         c.cmd \in FileCmds \ {"COPY_FILE"}, c.cmd = "OPEN_DIRECTORY" => c.arg \in Hosts
  PROVE  /\ op \in Operations /\ op # Idle /\ theme' = theme
         /\ FileShape' /\ files'.fs = files.fs /\ files'.copying = files.copying
         /\ \E h \in FileHandle(c, files) : FileStep(c, h)
<1>1. \A h \in FileHandle(c, files) : \E e, r : h = Done(e, r) \/ h = Refused(e)
  BY DirEffects
<1>2. PICK h \in FileHandle(c, files) : FileStep(c, h)
  BY <1>1, FileCall
<1>3. files' \in {files, h.dev}
  BY <1>2 DEF FileStep
<1>4. /\ DOMAIN h.dev = DOMAIN FilesOff(files.fs)
      /\ h.dev.fs = files.fs /\ h.dev.copying = files.copying /\ h.dev.dir \in Seq(Entries)
  BY DirEffects
<1>5. /\ DOMAIN files' = DOMAIN FilesOff(files.fs) /\ files'.dir \in Seq(Entries)
      /\ files'.fs = files.fs /\ files'.copying = files.copying
  BY <1>3, <1>4 DEF FileShape
<1>6. FileShape'
  BY <1>5 DEF FileShape, Entries
<1>7. QED
  BY <1>1, <1>2, <1>5, <1>6, FileCall

(***************************************************************************)
(* Copying.                                                                *)
(***************************************************************************)

OpenTail(host) == <<Must("OPEN_DIRECTORY", host), Try("READ_DIR_ENTRY", None)>>
EntryTail == <<Try("READ_DIR_ENTRY", None)>>
CloseTail == <<Try("CLOSE_DIRECTORY", None)>>
PollTail  == <<Try("STATUS", None)>>

LEMMA StatTails ==
  ASSUME NEW host
  PROVE  /\ StatScript(host) # <<>> /\ OpenTail(host) # <<>>
         /\ EntryTail # <<>> /\ CloseTail # <<>> /\ PollTail # <<>>
         /\ Head(StatScript(host)) = Try("MOUNT_HOST", host) /\ Tail(StatScript(host)) = OpenTail(host)
         /\ Head(OpenTail(host)) = Must("OPEN_DIRECTORY", host) /\ Tail(OpenTail(host)) = EntryTail
         /\ Head(EntryTail) = Try("READ_DIR_ENTRY", None) /\ Tail(EntryTail) = <<>>
         /\ Head(CloseTail) = Try("CLOSE_DIRECTORY", None) /\ Tail(CloseTail) = <<>>
         /\ Head(PollTail) = Try("STATUS", None) /\ Tail(PollTail) = <<>>
BY DEF StatScript, OpenTail, EntryTail, CloseTail, PollTail

(* The stat has found the file, and its size. *)
Got(host) ==
  mem.ok => /\ mem.entry.name = "file"
            /\ files.fs[host] # NoFile /\ mem.entry.size = files.fs[host].size

StatPhase(host) ==
  \/ todo = StatScript(host)
  \/ todo = OpenTail(host)
  \/ todo = EntryTail /\ ListedIn(files, host)
  \/ todo = CloseTail /\ Got(host)

(* The destination is what it was, or a copy of the source, or gone; what a copy
   the other way round, begun earlier, still does is done to the source. *)
Origin(from, to) ==
  /\ files.fs[to] \in {told.before, files.fs[from], NoFile}
  /\ files.copying = <<to, from>> => files.fs[to] = told.before

(* Once STATUS has been answered no copy is under way. *)
CopyPhase(from, to) ==
  /\ Origin(from, to)
  /\ \/ todo = CopyScript(op)
     \/ todo = PollTail
     \/ mem.step = "source" /\ files.copying = <<>> /\ StatPhase(from)
     \/ /\ mem.step = "dest" /\ files.copying = <<>> /\ StatPhase(to)
        /\ files.fs[from] # NoFile /\ mem.size = files.fs[from].size

Copying ==
  /\ op.name = "copy_file"
  /\ \E from, to \in Hosts :
       from # to /\ op.src - 1 = from /\ op.dest - 1 = to /\ CopyPhase(from, to)

Stating ==
  /\ op.name = "file_stat" /\ op.host \in Hosts
  /\ todo \in {StatScript(op.host), OpenTail(op.host), EntryTail, CloseTail}

FileInv ==
  theme = "file" =>
    /\ FileShape
    /\ op # Idle => Copying \/ Stating
    /\ Succeeded({"copy_file"}) => files.copying = <<>>
    /\ CopySizesAgree

LEMMA FileEnds ==
  ASSUME theme' = theme, FileShape', op' = Idle,
         result'.name = "copy_file" /\ result'.ok => files'.copying = <<>> /\ CopySizesAgree'
  PROVE  FileInv'
BY DEF FileInv, Succeeded, CopySizesAgree

LEMMA CopyGoesOn ==
  ASSUME theme' = theme, FileShape', op' = op, op # Idle, op.name = "copy_file",
         NEW from \in Hosts, NEW to \in Hosts, from # to, op.src - 1 = from, op.dest - 1 = to,
         CopyPhase(from, to)'
  PROVE  FileInv'
<1>1. Copying'
  BY DEF Copying
<1>2. QED
  BY <1>1 DEF FileInv, Succeeded, CopySizesAgree

LEMMA FileLast ==
  ASSUME Shape, NEW m, NEW t, SameTold(t), GoesOn(m, <<>>, t)
  PROVE  /\ op' = Idle /\ result'.name = op.name /\ result'.op = op
         /\ result'.ok => m.ok
         /\ told'.before = told.before
<1>1. Finish(m.ok, m, t)
  BY DEF GoesOn
<1>2. DOMAIN t = DOMAIN ToldOff /\ t.before = told.before
  BY DEF SameTold, Shape, ToldOff
<1>3. told'.before = told.before
  BY <1>1, <1>2 DEF Finish, Learn, ToldOff
<1>4. QED
  BY <1>1, <1>3 DEF Finish

(* The call of a copy at work on a stat goes on with the rest of it, except at
   its end. *)
LEMMA StatGoesOn ==
  ASSUME Shape, op.name = "copy_file", NEW c, c.cmd \in {"MOUNT_HOST", "OPEN_DIRECTORY"},
         NEW ok, NEW r, NEW t, SameTold(t), Tail(todo) # <<>>,
         \E m \in FileKeep(c, ok, r, mem) : FileGoesOn(c, ok, m, t)
  PROVE  /\ todo' = Tail(todo) /\ op' = op /\ told'.before = told.before
         /\ mem'.step = mem.step /\ mem'.size = mem.size
<1>1. FileKeep(c, ok, r, mem) = {mem}
  BY DEF FileKeep
<1>2. CopyRest(c, ok, op, mem, Tail(todo)) = [todo |-> Tail(todo), step |-> mem.step, ok |-> mem.ok]
  BY DEF CopyRest, StatRest
<1> DEFINE m == WithStep(mem, mem.step, mem.ok)
<1>3. GoesOn(m, Tail(todo), t)
  <2> DEFINE copy == CopyRest(c, ok, op, mem, Tail(todo))
  <2>1. copy.todo = Tail(todo) /\ copy.step = mem.step /\ copy.ok = mem.ok
    BY <1>2
  <2>2. FileGoesOn(c, ok, mem, t)
    BY <1>1
  <2>3. GoesOn(WithStep(mem, copy.step, copy.ok), copy.todo, t)
    BY <2>2 DEF FileGoesOn
  <2> HIDE DEF copy
  <2>4. QED
    BY <2>1, <2>3
<1>4. m.step = mem.step /\ m.size = mem.size
  BY StepFields DEF Shape
<1> HIDE DEF m
<1>5. t.before = told.before
  BY DEF SameTold, Shape, ToldOff
<1>6. QED
  BY <1>3, <1>4, <1>5 DEF GoesOn

LEMMA StatReads ==
  ASSUME Shape, op.name = "copy_file", NEW c, c.cmd = "READ_DIR_ENTRY",
         NEW ok, NEW r, NEW t, SameTold(t),
         \E m \in FileKeep(c, ok, r, mem) : FileGoesOn(c, ok, m, t)
  PROVE  /\ todo' \in {EntryTail, CloseTail} /\ op' = op /\ told'.before = told.before
         /\ mem'.step = mem.step /\ mem'.size = mem.size
         /\ mem'.ok => ok /\ mem'.entry = r /\ r.name = "file"
<1> DEFINE e == IF ok THEN [mem EXCEPT !.entry = r] ELSE mem
           k == [e EXCEPT !.ok = Found(ok, e)]
<1>1. FileKeep(c, ok, r, mem) = {k}
  BY DEF FileKeep
<1>2. /\ DOMAIN e = DOMAIN MemOff /\ e.step = mem.step /\ e.size = mem.size
      /\ ok => e.entry = r
  BY DEF Shape, MemOff
<1> HIDE DEF e
<1>3. /\ DOMAIN k = DOMAIN MemOff /\ k.step = mem.step /\ k.size = mem.size
      /\ k.entry = e.entry /\ k.ok = Found(ok, e)
  BY <1>2 DEF MemOff
<1> HIDE DEF k
<1>4. k.ok => ok /\ k.entry = r /\ r.name = "file"
  BY <1>2, <1>3 DEF Found
<1> DEFINE rest == IF LoopEnds(ok, k) THEN CloseTail ELSE EntryTail
           m == WithStep(k, k.step, k.ok)
<1>5. CopyRest(c, ok, op, k, Tail(todo)) = [todo |-> rest, step |-> k.step, ok |-> k.ok]
  BY DEF CopyRest, StatRest, CloseTail, EntryTail
<1>6. GoesOn(m, rest, t)
  BY <1>1, <1>5 DEF FileGoesOn
<1>7. m.step = k.step /\ m.size = k.size /\ m.entry = k.entry /\ m.ok = k.ok
  BY <1>3, StepFields
<1>8. rest \in {EntryTail, CloseTail} /\ rest # <<>>
  BY StatTails
<1> HIDE DEF m, rest
<1>9. t.before = told.before
  BY DEF SameTold, Shape, ToldOff
<1>10. mem' = m /\ todo' = rest /\ told' = t /\ op' = op
  BY <1>6, <1>8 DEF GoesOn
<1>11. QED
  BY <1>3, <1>4, <1>7, <1>8, <1>9, <1>10

(* One call of the stat of a host's file, as part of a copy. *)
LEMMA StatCall ==
  ASSUME Shape, theme = "file", FileShape, Step, op.name = "copy_file",
         NEW host \in Hosts, StatPhase(host)
  PROVE  /\ op \in Operations /\ op # Idle /\ theme' = theme
         /\ FileShape' /\ files'.fs = files.fs /\ files'.copying = files.copying
         /\ \/ GivenUp
            \/ /\ op' = op /\ told'.before = told.before
               /\ mem'.step = mem.step /\ mem'.size = mem.size /\ StatPhase(host)'
            \/ /\ todo = CloseTail /\ Got(host)
               /\ \E ok, r, t : /\ SameTold(t)
                                /\ \E m \in FileKeep(Try("CLOSE_DIRECTORY", None), ok, r, mem) :
                                     FileGoesOn(Try("CLOSE_DIRECTORY", None), ok, m, t)
<1> DEFINE c == Head(todo)
<1>1. c \in {Try("MOUNT_HOST", host), Must("OPEN_DIRECTORY", host), Try("READ_DIR_ENTRY", None),
             Try("CLOSE_DIRECTORY", None)}
  BY StatTails DEF StatPhase
<1>2. c.cmd \in FileCmds \ {"COPY_FILE"} /\ (c.cmd = "OPEN_DIRECTORY" => c.arg \in Hosts)
  BY <1>1 DEF Try, Must, FileCmds
<1> HIDE DEF c
<1>3. /\ op \in Operations /\ op # Idle /\ theme' = theme
      /\ FileShape' /\ files'.fs = files.fs /\ files'.copying = files.copying
  BY <1>2, DirCall DEF c
<1>4. PICK h \in FileHandle(c, files) : FileStep(c, h)
  BY <1>2, DirCall DEF c
<1>5. CASE todo = StatScript(host)
  <2>1. /\ c = Try("MOUNT_HOST", host) /\ Tail(todo) = OpenTail(host) /\ Tail(todo) # <<>>
    BY <1>5, StatTails DEF c
  <2>2. c.cmd \in {"MOUNT_HOST", "OPEN_DIRECTORY"} /\ ~c.must
    BY <2>1 DEF Try
  <2>3. PICK ok, r, t :
          ok \in BOOLEAN /\ SameTold(t) /\ \E m \in FileKeep(c, ok, r, mem) : FileGoesOn(c, ok, m, t)
    BY <1>4, <2>2, FileTry
  <2>4. /\ todo' = Tail(todo) /\ op' = op /\ told'.before = told.before
        /\ mem'.step = mem.step /\ mem'.size = mem.size
    BY <2>1, <2>2, <2>3, StatGoesOn
  <2>5. StatPhase(host)'
    BY <2>1, <2>4 DEF StatPhase, OpenTail
  <2>6. QED
    BY <1>3, <2>4, <2>5
<1>6. CASE todo = OpenTail(host)
  <2>1. /\ c = Must("OPEN_DIRECTORY", host) /\ Tail(todo) = EntryTail /\ Tail(todo) # <<>>
    BY <1>6, StatTails DEF c
  <2>2. c.cmd = "OPEN_DIRECTORY" /\ c.must /\ c.arg = host
    BY <2>1 DEF Must
  <2>3. ASSUME h.ok, files' = h.dev,
               \E m \in FileKeep(c, TRUE, h.reply, mem) : FileGoesOn(c, TRUE, m, told)
        PROVE  /\ op' = op /\ told'.before = told.before
               /\ mem'.step = mem.step /\ mem'.size = mem.size /\ StatPhase(host)'
    <3>1. c.cmd \in {"MOUNT_HOST", "OPEN_DIRECTORY"}
      BY <2>2
    <3>2. /\ todo' = Tail(todo) /\ op' = op /\ told'.before = told.before
          /\ mem'.step = mem.step /\ mem'.size = mem.size
      <4>1. SameTold(told)
        BY DEF SameTold
      <4>2. PICK ok, r, t :
              SameTold(t) /\ \E m \in FileKeep(c, ok, r, mem) : FileGoesOn(c, ok, m, t)
        BY <2>3, <4>1, Zenon
      <4>3. QED
        BY <2>1, <3>1, <4>2, StatGoesOn
    <3>3. ListedIn(h.dev, host)
      BY <1>2, <2>2, <2>3, DirEffects
    <3>4. StatPhase(host)'
      BY <2>1, <2>3, <3>2, <3>3 DEF StatPhase, EntryTail, ListedIn
    <3>5. QED
      BY <3>2, <3>4
  <2>4. QED
    BY <1>3, <1>4, <2>2, <2>3, FileMust
<1>7. CASE todo = EntryTail /\ ListedIn(files, host)
  <2>1. c = Try("READ_DIR_ENTRY", None)
    BY <1>7, StatTails DEF c
  <2>2. c.cmd = "READ_DIR_ENTRY" /\ ~c.must
    BY <2>1 DEF Try
  <2>3. PICK ok, r, t :
          /\ ok \in BOOLEAN
          /\ SameTold(t)
          /\ ok => h.ok /\ files' = h.dev /\ r = h.reply
          /\ \E m \in FileKeep(c, ok, r, mem) : FileGoesOn(c, ok, m, t)
    BY <1>4, <2>2, FileTry
  <2>4. /\ todo' \in {EntryTail, CloseTail} /\ op' = op /\ told'.before = told.before
        /\ mem'.step = mem.step /\ mem'.size = mem.size
        /\ mem'.ok => ok /\ mem'.entry = r /\ r.name = "file"
    BY <2>2, <2>3, StatReads
  <2>5. \/ h.dev = files /\ (h.ok => h.reply = EndOfDir)
        \/ files.dir # <<>> /\ h.reply = Head(files.dir) /\ h.dev.dir = Tail(files.dir)
    BY <1>2, <2>2, DirEffects
  <2>6. files.dir # <<>> =>
          /\ Head(files.dir).name = "file" =>
               files.fs[host] # NoFile /\ Head(files.dir).size = files.fs[host].size
          /\ \A i \in DOMAIN Tail(files.dir) : Tail(files.dir)[i].name = "file" =>
               files.fs[host] # NoFile /\ Tail(files.dir)[i].size = files.fs[host].size
    <3> DEFINE s == files.dir
    <3>1. s \in Seq(Entries) /\ DOMAIN s = 1..Len(s) /\ Len(s) \in Nat
      BY DEF FileShape
    <3>2. \A i \in DOMAIN s :
            s[i].name = "file" => files.fs[host] # NoFile /\ s[i].size = files.fs[host].size
      BY <1>7 DEF ListedIn
    <3> HIDE DEF s
    <3>3. ASSUME s # <<>>
          PROVE  /\ 1 \in DOMAIN s /\ Head(s) = s[1]
                 /\ DOMAIN Tail(s) = 1..Len(s) - 1
                 /\ \A i \in 1..Len(s) - 1 : Tail(s)[i] = s[i + 1] /\ i + 1 \in DOMAIN s
      BY <3>1, <3>3, HeadTailProperties
    <3>4. ASSUME s # <<>>
          PROVE  /\ Head(s).name = "file" =>
                      files.fs[host] # NoFile /\ Head(s).size = files.fs[host].size
                 /\ \A i \in DOMAIN Tail(s) : Tail(s)[i].name = "file" =>
                      files.fs[host] # NoFile /\ Tail(s)[i].size = files.fs[host].size
      BY <3>2, <3>3, <3>4
    <3>5. QED
      BY <3>4 DEF s
  <2>7. Got(host)'
    <3>1. SUFFICES ASSUME mem'.ok
                   PROVE  /\ mem'.entry.name = "file"
                          /\ files.fs[host] # NoFile /\ mem'.entry.size = files.fs[host].size
      BY <1>3 DEF Got
    <3>2. h.ok /\ mem'.entry = h.reply /\ h.reply.name = "file"
      BY <2>3, <2>4, <3>1
    <3>3. h.reply # EndOfDir
      BY <3>2 DEF EndOfDir
    <3>4. QED
      BY <2>5, <2>6, <3>2, <3>3
  <2>8. ListedIn(files', host)
    <3>1. files' = files \/ (files.dir # <<>> /\ files'.dir = Tail(files.dir))
      BY <1>4, <2>2, <2>5, FileTry
    <3>2. CASE files' = files
      BY <1>7, <3>2
    <3>3. CASE files.dir # <<>> /\ files'.dir = Tail(files.dir)
      BY <1>3, <2>6, <3>3 DEF ListedIn
    <3>4. QED
      BY <3>1, <3>2, <3>3
  <2>9. StatPhase(host)'
    BY <2>4, <2>7, <2>8 DEF StatPhase, EntryTail, CloseTail, ListedIn
  <2>10. QED
    BY <1>3, <2>4, <2>9
<1>8. CASE todo = CloseTail /\ Got(host)
  <2>1. c = Try("CLOSE_DIRECTORY", None)
    BY <1>8, StatTails DEF c
  <2>2. ~c.must
    BY <2>1 DEF Try
  <2>3. PICK ok, r, t :
          ok \in BOOLEAN /\ SameTold(t) /\ \E m \in FileKeep(c, ok, r, mem) : FileGoesOn(c, ok, m, t)
    BY <1>4, <2>2, FileTry
  <2>4. QED
    BY <1>3, <1>8, <2>1, <2>3
<1>9. QED
  BY <1>5, <1>6, <1>7, <1>8 DEF StatPhase

(* How a copy goes on: its step, and whether it has succeeded. *)
LEMMA CopyResumes ==
  ASSUME op.name = "copy_file", NEW c, NEW ok, NEW m, NEW t, FileGoesOn(c, ok, m, t),
         NEW rest, NEW step, NEW good,
         CopyRest(c, ok, op, m, Tail(todo)) = [todo |-> rest, step |-> step, ok |-> good]
  PROVE  GoesOn(WithStep(m, step, good), rest, t)
<1> DEFINE copy == CopyRest(c, ok, op, m, Tail(todo))
<1>1. copy.todo = rest /\ copy.step = step /\ copy.ok = good
  OBVIOUS
<1>2. GoesOn(WithStep(m, copy.step, copy.ok), copy.todo, t)
  BY DEF FileGoesOn
<1> HIDE DEF copy
<1>3. QED
  BY <1>1, <1>2

(* A copy that is not done yet goes on with the next step, or gives up. *)
LEMMA CopyMoves ==
  ASSUME op.name = "copy_file", NEW m, DOMAIN m = DOMAIN MemOff,
         NEW c, NEW ok, NEW t, FileGoesOn(c, ok, m, t), NEW rest, NEW step,
         CopyRest(c, ok, op, m, Tail(todo)) = [todo |-> rest, step |-> step, ok |-> FALSE]
  PROVE  /\ rest # <<>> => /\ todo' = rest /\ op' = op /\ told' = t
                           /\ mem'.step = step /\ mem'.size = m.size
         /\ rest = <<>> => op' = Idle /\ result'.ok = FALSE
<1> DEFINE n == WithStep(m, step, FALSE)
<1>1. GoesOn(n, rest, t)
  BY CopyResumes
<1>2. n.step = step /\ n.size = m.size /\ n.ok = FALSE
  BY DEF WithStep, MemOff
<1> HIDE DEF n
<1>3. rest = <<>> => op' = Idle /\ result'.ok = n.ok
  BY <1>1 DEF GoesOn, Finish
<1>4. rest # <<>> => todo' = rest /\ op' = op /\ told' = t /\ mem' = n
  BY <1>1 DEF GoesOn
<1>5. QED
  BY <1>2, <1>3, <1>4

(* The stat of the source. *)
LEMMA CopySource ==
  ASSUME Shape, theme = "file", FileShape, Step, op.name = "copy_file",
         NEW from \in Hosts, NEW to \in Hosts, from # to, op.src - 1 = from, op.dest - 1 = to,
         Origin(from, to), mem.step = "source", files.copying = <<>>, StatPhase(from)
  PROVE  FileInv'
<1> DEFINE c == Try("CLOSE_DIRECTORY", None)
<1>1. /\ op \in Operations /\ op # Idle /\ theme' = theme
      /\ FileShape' /\ files'.fs = files.fs /\ files'.copying = files.copying
      /\ \/ GivenUp
         \/ /\ op' = op /\ told'.before = told.before
            /\ mem'.step = mem.step /\ mem'.size = mem.size /\ StatPhase(from)'
         \/ /\ todo = CloseTail /\ Got(from)
            /\ \E ok, r, t : /\ SameTold(t)
                             /\ \E m \in FileKeep(c, ok, r, mem) : FileGoesOn(c, ok, m, t)
  BY StatCall
<1>2. CASE GivenUp
  BY <1>1, <1>2, FileEnds DEF GivenUp
<1>3. CASE /\ op' = op /\ told'.before = told.before
           /\ mem'.step = mem.step /\ mem'.size = mem.size /\ StatPhase(from)'
  <2>1. CopyPhase(from, to)'
    BY <1>1, <1>3 DEF CopyPhase, Origin
  <2>2. QED
    BY <1>1, <1>3, <2>1, CopyGoesOn
<1>4. CASE /\ todo = CloseTail /\ Got(from)
           /\ \E ok, r, t : /\ SameTold(t)
                            /\ \E m \in FileKeep(c, ok, r, mem) : FileGoesOn(c, ok, m, t)
  <2>0. c.cmd = "CLOSE_DIRECTORY" /\ Tail(todo) = <<>>
    BY <1>4, StatTails DEF Try
  <2> HIDE DEF c
  <2>1. PICK ok, r, t : /\ SameTold(t)
                        /\ \E m \in FileKeep(c, ok, r, mem) : FileGoesOn(c, ok, m, t)
    BY <1>4
  <2> DEFINE m == [mem EXCEPT !.size = mem.entry.size]
  <2>2. FileKeep(c, ok, r, mem) = {m}
    BY <2>0 DEF FileKeep
  <2>3. /\ DOMAIN m = DOMAIN MemOff /\ m.step = "source" /\ m.size = mem.entry.size
        /\ m.ok = mem.ok
    BY DEF Shape, MemOff
  <2>4. FileGoesOn(c, ok, m, t)
    BY <2>1, <2>2
  <2> HIDE DEF m
  <2>5. CASE mem.ok
    <3>1. CopyRest(c, ok, op, m, Tail(todo)) = [todo |-> StatScript(to), step |-> "dest", ok |-> FALSE]
      BY <2>0, <2>3, <2>5 DEF CopyRest
    <3>3. /\ todo' = StatScript(to) /\ op' = op /\ told' = t
          /\ mem'.step = "dest" /\ mem'.size = mem.entry.size
      <4>1. PICK rest : rest = StatScript(to) /\ rest # <<>>
        BY StatTails
      <4>2. PICK step : step = "dest"
        OBVIOUS
      <4>3. PICK n : n = m
        OBVIOUS
      <4>4. CopyRest(c, ok, op, n, Tail(todo)) = [todo |-> rest, step |-> step, ok |-> FALSE]
        BY <3>1, <4>1, <4>2, <4>3
      <4>5. /\ todo' = rest /\ op' = op /\ told' = t
            /\ mem'.step = step /\ mem'.size = n.size
        <5>1. FileGoesOn(c, ok, n, t) /\ DOMAIN n = DOMAIN MemOff
          BY <2>3, <2>4, <4>3
        <5>2. QED
          BY <4>1, <4>4, <5>1, CopyMoves
      <4>6. QED
        BY <2>3, <4>1, <4>2, <4>3, <4>5
    <3>4. t.before = told.before
      BY <2>1 DEF SameTold, Shape, ToldOff
    <3>5. CopyPhase(from, to)'
      BY <1>1, <1>4, <2>5, <3>3, <3>4 DEF CopyPhase, Origin, StatPhase, Got
    <3>6. QED
      BY <1>1, <3>3, <3>5, CopyGoesOn
  <2>6. CASE ~mem.ok
    <3>1. CopyRest(c, ok, op, m, Tail(todo)) = [todo |-> <<>>, step |-> m.step, ok |-> m.ok]
      BY <2>0, <2>3, <2>6 DEF CopyRest, StatRest
    <3>2. GoesOn(WithStep(m, m.step, m.ok), <<>>, t)
      BY <2>4, <3>1, CopyResumes
    <3>3. WithStep(m, m.step, m.ok).ok = m.ok
      BY <2>3, StepFields
    <3> DEFINE n == WithStep(m, m.step, m.ok)
    <3> HIDE DEF n
    <3>4. op' = Idle /\ (result'.ok => n.ok)
      BY <2>1, <3>2, FileLast DEF n
    <3>5. ~result'.ok
      BY <2>3, <2>6, <3>3, <3>4 DEF n
    <3>6. QED
      BY <1>1, <3>4, <3>5, FileEnds
  <2>7. QED
    BY <2>5, <2>6
<1>5. QED
  BY <1>1, <1>2, <1>3, <1>4

(* The stat of the destination. *)
LEMMA CopyDest ==
  ASSUME Shape, theme = "file", FileShape, Step, op.name = "copy_file",
         NEW from \in Hosts, NEW to \in Hosts, from # to, op.src - 1 = from, op.dest - 1 = to,
         Origin(from, to), mem.step = "dest", files.copying = <<>>, StatPhase(to),
         files.fs[from] # NoFile, mem.size = files.fs[from].size
  PROVE  FileInv'
<1> DEFINE c == Try("CLOSE_DIRECTORY", None)
<1>1. /\ op \in Operations /\ op # Idle /\ theme' = theme
      /\ FileShape' /\ files'.fs = files.fs /\ files'.copying = files.copying
      /\ \/ GivenUp
         \/ /\ op' = op /\ told'.before = told.before
            /\ mem'.step = mem.step /\ mem'.size = mem.size /\ StatPhase(to)'
         \/ /\ todo = CloseTail /\ Got(to)
            /\ \E ok, r, t : /\ SameTold(t)
                             /\ \E m \in FileKeep(c, ok, r, mem) : FileGoesOn(c, ok, m, t)
  BY StatCall
<1>2. CASE GivenUp
  BY <1>1, <1>2, FileEnds DEF GivenUp
<1>3. CASE /\ op' = op /\ told'.before = told.before
           /\ mem'.step = mem.step /\ mem'.size = mem.size /\ StatPhase(to)'
  <2>1. CopyPhase(from, to)'
    BY <1>1, <1>3 DEF CopyPhase, Origin
  <2>2. QED
    BY <1>1, <1>3, <2>1, CopyGoesOn
<1>4. CASE /\ todo = CloseTail /\ Got(to)
           /\ \E ok, r, t : /\ SameTold(t)
                            /\ \E m \in FileKeep(c, ok, r, mem) : FileGoesOn(c, ok, m, t)
  <2>0. c.cmd = "CLOSE_DIRECTORY" /\ Tail(todo) = <<>>
    BY <1>4, StatTails DEF Try
  <2> HIDE DEF c
  <2>1. PICK ok, r, t : /\ SameTold(t)
                        /\ \E m \in FileKeep(c, ok, r, mem) : FileGoesOn(c, ok, m, t)
    BY <1>4
  <2> DEFINE good == mem.ok /\ SizesAgree(mem)
             m == [mem EXCEPT !.ok = good]
  <2>2. FileKeep(c, ok, r, mem) = {m}
    BY <2>0 DEF FileKeep
  <2>3. DOMAIN m = DOMAIN MemOff /\ m.step = "dest" /\ m.ok = good
    BY DEF Shape, MemOff
  <2>4. FileGoesOn(c, ok, m, t)
    BY <2>1, <2>2
  <2> HIDE DEF m
  <2>5. CopyRest(c, ok, op, m, Tail(todo)) = [todo |-> <<>>, step |-> m.step, ok |-> m.ok]
    BY <2>0, <2>3 DEF CopyRest, StatRest
  <2>6. GoesOn(WithStep(m, m.step, m.ok), <<>>, t)
    BY <2>4, <2>5, CopyResumes
  <2> DEFINE n == WithStep(m, m.step, m.ok)
  <2>7. n.ok = m.ok
    BY <2>3, StepFields
  <2> HIDE DEF n
  <2>8. /\ op' = Idle /\ result'.name = op.name /\ result'.op = op
        /\ result'.ok => n.ok
        /\ told'.before = told.before
    BY <2>1, <2>6, FileLast DEF n
  <2>9. ASSUME result'.ok PROVE CopySizesAgree'
    <3>1. mem.ok /\ mem.entry.size = mem.size
      BY <2>3, <2>7, <2>8, <2>9 DEF SizesAgree, SourceSize
    <3>2. files.fs[to] # NoFile /\ files.fs[to].size = files.fs[from].size
      BY <1>4, <3>1 DEF Got
    <3>3. files.fs[to] = files.fs[from] \/ files.fs[to] = told.before
      BY <3>2 DEF Origin
    <3>4. QED
      BY <1>1, <2>8, <3>2, <3>3 DEF CopySizesAgree
  <2>10. QED
    BY <1>1, <2>8, <2>9, FileEnds
<1>5. QED
  BY <1>1, <1>2, <1>3, <1>4

(* COPY_FILE is sent: it is done at once, or it goes on behind a failed call. *)
LEMMA CopyAsk ==
  ASSUME Shape, theme = "file", FileShape, Step, op.name = "copy_file",
         NEW from \in Hosts, NEW to \in Hosts, from # to, op.src - 1 = from, op.dest - 1 = to,
         Origin(from, to), todo = CopyScript(op)
  PROVE  FileInv'
<1>1. PICK c : /\ c = Head(todo) /\ Tail(todo) = <<>>
               /\ c.cmd = "COPY_FILE" /\ ~c.must /\ c.arg[1] - 1 = from /\ c.arg[2] - 1 = to
  BY DEF CopyScript, Try
<1>2. ASSUME NEW h \in FileHandle(c, files)
      PROVE  LET d == h.dev
             IN /\ DOMAIN d = DOMAIN FilesOff(files.fs) /\ d.dir = files.dir
                /\ d.fs \in [Hosts -> Files]
                /\ \E e, r : h = Done(e, r) \/ h = Refused(e)
                /\ \/ ~h.ok /\ d = files
                   \/ ~h.ok /\ d.fs = files.fs /\ d.copying = <<from, to>>
                   \/ /\ h.ok /\ files.fs[from] # NoFile /\ d.copying = <<>>
                      /\ d.fs[to] = files.fs[from] /\ d.fs[from] = files.fs[from]
  <2>1. /\ c.cmd = "COPY_FILE" /\ c.arg[1] - 1 = from /\ c.arg[2] - 1 = to
    BY <1>1
  <2>2. QED
    BY <2>1, CopyEffects, Zenon
<1>3. /\ op \in Operations /\ op # Idle /\ theme' = theme
      /\ \E h \in FileHandle(c, files) : FileStep(c, h)
  BY <1>1, <1>2, FileCall
<1>4. PICK h \in FileHandle(c, files) : FileStep(c, h)
  BY <1>3
<1> DEFINE d == h.dev
<1>5. /\ DOMAIN d = DOMAIN FilesOff(files.fs) /\ d.dir = files.dir /\ d.fs \in [Hosts -> Files]
      /\ \/ ~h.ok /\ d = files
         \/ ~h.ok /\ d.fs = files.fs /\ d.copying = <<from, to>>
         \/ /\ h.ok /\ files.fs[from] # NoFile /\ d.copying = <<>>
            /\ d.fs[to] = files.fs[from] /\ d.fs[from] = files.fs[from]
  BY <1>2, <1>4
<1>6. PICK ok, r, t :
        /\ ok \in BOOLEAN
        /\ SameTold(t)
        /\ ok => h.ok /\ files' = d /\ r = h.reply
        /\ \E m \in FileKeep(c, ok, r, mem) : FileGoesOn(c, ok, m, t)
  BY <1>1, <1>4, FileTry
<1>7. files' \in {files, d}
  BY <1>1, <1>4, FileTry
<1> HIDE DEF d
<1>8. <<from, to>> \in {<<0, 1>>, <<1, 0>>} /\ <<from, to>> # <<to, from>>
  BY DEF Hosts
<1>9. FileShape'
  <2>1. d.copying \in {<<>>, <<0, 1>>, <<1, 0>>}
    BY <1>5, <1>8 DEF FileShape
  <2>2. CASE files' = files
    BY <2>2 DEF FileShape, FilesOff, Entries, Files, NoFile
  <2>3. CASE files' = d
    <3>1. files'.dir \in Seq(Entries)
      BY <1>5, <2>3 DEF FileShape
    <3>2. DOMAIN files' = DOMAIN FilesOff(files'.fs)
      BY <1>5, <2>3 DEF FilesOff
    <3>3. files'.fs \in [Hosts -> Files] /\ files'.copying \in {<<>>, <<0, 1>>, <<1, 0>>}
      BY <1>5, <2>1, <2>3
    <3>4. QED
      BY <3>1, <3>2, <3>3 DEF FileShape
  <2>4. QED
    BY <1>7, <2>2, <2>3
<1>10. FileGoesOn(c, ok, mem, t)
  <2>1. FileKeep(c, ok, r, mem) = {mem}
    BY <1>1 DEF FileKeep
  <2>2. QED
    BY <1>6, <2>1
<1>11. CASE ok
  <2>1. CopyRest(c, ok, op, mem, Tail(todo)) = [todo |-> <<>>, step |-> mem.step, ok |-> mem.ok]
    BY <1>1, <1>11 DEF CopyRest, StatRest
  <2> DEFINE n == WithStep(mem, mem.step, mem.ok)
  <2>2. GoesOn(n, <<>>, t)
    BY <1>10, <2>1, CopyResumes
  <2> HIDE DEF n
  <2>3. /\ op' = Idle /\ result'.name = op.name /\ result'.op = op
        /\ told'.before = told.before
    BY <1>6, <2>2, FileLast
  <2>4. /\ files'.copying = <<>> /\ files'.fs[to] # NoFile
        /\ files'.fs[to] = files'.fs[from]
    BY <1>5, <1>6, <1>11
  <2>5. CopySizesAgree'
    BY <2>3, <2>4 DEF CopySizesAgree
  <2>6. QED
    BY <1>3, <1>9, <2>3, <2>4, <2>5, FileEnds
<1>12. CASE ~ok
  <2>1. CopyRest(c, ok, op, mem, Tail(todo)) = [todo |-> PollTail, step |-> "poll", ok |-> FALSE]
    BY <1>1, <1>12 DEF CopyRest, PollTail
  <2>2. todo' = PollTail /\ op' = op /\ told' = t
    BY <1>10, <2>1, CopyMoves, StatTails DEF Shape
  <2>3. t.before = told.before
    BY <1>6 DEF SameTold, Shape, ToldOff
  <2>4. Origin(from, to)'
    <3>1. CASE files'.fs = files.fs /\ files'.copying \in {files.copying, <<from, to>>}
      BY <1>8, <2>2, <2>3, <3>1 DEF Origin
    <3>2. CASE files'.copying = <<>> /\ files'.fs[to] = files'.fs[from]
      BY <2>2, <2>3, <3>2 DEF Origin
    <3>3. QED
      BY <1>5, <1>7, <3>1, <3>2
  <2>5. CopyPhase(from, to)'
    BY <2>2, <2>4 DEF CopyPhase, PollTail
  <2>6. QED
    BY <1>3, <1>9, <2>2, <2>5, CopyGoesOn
<1>13. QED
  BY <1>6, <1>11, <1>12

(* STATUS is polled until the FujiNet answers again: it answers when it has come
   to the end of the copy, and the files are then those the sizes are read of. *)
LEMMA CopyPoll ==
  ASSUME Shape, theme = "file", FileShape, Step, op.name = "copy_file",
         NEW from \in Hosts, NEW to \in Hosts, from # to, op.src - 1 = from, op.dest - 1 = to,
         Origin(from, to), todo = PollTail
  PROVE  FileInv'
<1> DEFINE c == Try("STATUS", None)
<1>1. c = Head(todo) /\ c.cmd = "STATUS" /\ ~c.must
  BY StatTails DEF Try
<1> HIDE DEF c
<1>2. /\ c.cmd \in FileCmds \ {"COPY_FILE"} /\ (c.cmd = "OPEN_DIRECTORY" => c.arg \in Hosts)
  BY <1>1 DEF FileCmds
<1>3. /\ op \in Operations /\ op # Idle /\ theme' = theme
      /\ FileShape' /\ files'.fs = files.fs /\ files'.copying = files.copying
      /\ \E h \in FileHandle(c, files) : FileStep(c, h)
  BY <1>1, <1>2, DirCall
<1>4. PICK h \in FileHandle(c, files) : FileStep(c, h)
  BY <1>3
<1>5. h.ok => files.copying = <<>>
  BY <1>2, DirEffects
<1>6. PICK ok, r, t :
        /\ ok \in BOOLEAN
        /\ SameTold(t)
        /\ ok => h.ok /\ files' = h.dev /\ r = h.reply
        /\ \E m \in FileKeep(c, ok, r, mem) : FileGoesOn(c, ok, m, t)
  BY <1>1, <1>4, FileTry
<1>7. PICK m \in FileKeep(c, ok, r, mem) : FileGoesOn(c, ok, m, t)
  BY <1>6
<1>8. DOMAIN m = DOMAIN MemOff
  <2>1. m \in {mem, [mem EXCEPT !.retries = @ + 1]}
    BY <1>1, <1>7 DEF FileKeep
  <2>2. QED
    BY <2>1 DEF Shape
<1>9. t.before = told.before
  BY <1>6 DEF SameTold, Shape, ToldOff
<1>10. CASE GivesUp(ok, m)
  <2>1. CopyRest(c, ok, op, m, Tail(todo)) = [todo |-> <<>>, step |-> "poll", ok |-> FALSE]
    BY <1>1, <1>10 DEF CopyRest
  <2>2. op' = Idle /\ result'.ok = FALSE
    BY <1>7, <1>8, <2>1, CopyMoves
  <2>3. QED
    BY <1>3, <2>2, FileEnds
<1>11. CASE ~GivesUp(ok, m) /\ ok
  <2>1. CopyRest(c, ok, op, m, Tail(todo)) = [todo |-> StatScript(from), step |-> "source", ok |-> FALSE]
    BY <1>1, <1>11 DEF CopyRest
  <2>2. todo' = StatScript(from) /\ op' = op /\ told' = t /\ mem'.step = "source"
    <3>1. PICK rest : rest = StatScript(from) /\ rest # <<>>
      BY StatTails
    <3>2. PICK step : step = "source"
      OBVIOUS
    <3>3. CopyRest(c, ok, op, m, Tail(todo)) = [todo |-> rest, step |-> step, ok |-> FALSE]
      BY <2>1, <3>1, <3>2
    <3>4. todo' = rest /\ op' = op /\ told' = t /\ mem'.step = step
      BY <1>7, <1>8, <3>1, <3>3, CopyMoves
    <3>5. QED
      BY <3>1, <3>2, <3>4
  <2>3. files'.copying = <<>>
    BY <1>3, <1>5, <1>6, <1>11
  <2>4. CopyPhase(from, to)'
    BY <1>3, <1>9, <2>2, <2>3 DEF CopyPhase, Origin, StatPhase
  <2>5. QED
    BY <1>3, <2>2, <2>4, CopyGoesOn
<1>12. CASE ~GivesUp(ok, m) /\ ~ok
  <2>1. CopyRest(c, ok, op, m, Tail(todo)) = [todo |-> PollTail, step |-> "poll", ok |-> FALSE]
    BY <1>1, <1>12 DEF CopyRest, PollTail
  <2>2. todo' = PollTail /\ op' = op /\ told' = t
    BY <1>7, <1>8, <2>1, CopyMoves, StatTails
  <2>3. CopyPhase(from, to)'
    BY <1>3, <1>9, <2>2 DEF CopyPhase, Origin, PollTail
  <2>4. QED
    BY <1>3, <2>2, <2>3, CopyGoesOn
<1>13. QED
  BY <1>10, <1>11, <1>12

(* A step of fuji_file_stat() that is an operation of its own. *)
LEMMA StatingStep ==
  ASSUME Shape, theme = "file", FileShape, Step, Stating
  PROVE  FileInv'
<1>1. PICK host, c :
        /\ host \in Hosts
        /\ op.name = "file_stat" /\ op.host = host /\ c = Head(todo)
        /\ todo \in {StatScript(host), OpenTail(host), EntryTail, CloseTail}
  BY DEF Stating
<1>2. c \in {Try("MOUNT_HOST", host), Must("OPEN_DIRECTORY", host), Try("READ_DIR_ENTRY", None),
             Try("CLOSE_DIRECTORY", None)}
  BY <1>1, StatTails
<1>3. c.cmd \in FileCmds \ {"COPY_FILE"} /\ (c.cmd = "OPEN_DIRECTORY" => c.arg \in Hosts)
  BY <1>1, <1>2 DEF Try, Must, FileCmds
<1>4. /\ op \in Operations /\ op # Idle /\ theme' = theme /\ FileShape'
      /\ \E h \in FileHandle(c, files) : FileStep(c, h)
  BY <1>1, <1>3, DirCall
<1>5. Tail(todo) \in {OpenTail(host), EntryTail, CloseTail, <<>>}
  BY <1>1, StatTails
<1>6. ASSUME NEW m, NEW ok, NEW t, FileGoesOn(c, ok, m, t)
      PROVE  \/ op' = Idle /\ result'.name = "file_stat"
             \/ op' = op /\ todo' \in {OpenTail(host), EntryTail, CloseTail}
  <2>1. PICK rest : rest = StatRest(c, ok, m, Tail(todo))
    OBVIOUS
  <2>2. rest \in {OpenTail(host), EntryTail, CloseTail, <<>>}
    BY <1>5, <2>1 DEF StatRest, EntryTail, CloseTail
  <2>3. GoesOn(m, rest, t)
    BY <1>1, <1>6, <2>1 DEF FileGoesOn
  <2>4. CASE rest = <<>>
    BY <1>1, <2>3, <2>4 DEF GoesOn, Finish
  <2>5. CASE rest # <<>>
    BY <2>2, <2>3, <2>5 DEF GoesOn
  <2>6. QED
    BY <2>4, <2>5
<1>7. ASSUME NEW t, Finish(FALSE, mem, t)
      PROVE  op' = Idle /\ result'.name = "file_stat"
  BY <1>1, <1>7 DEF Finish
<1>8. \/ op' = Idle /\ result'.name = "file_stat"
      \/ op' = op /\ todo' \in {OpenTail(host), EntryTail, CloseTail}
  BY <1>4, <1>6, <1>7 DEF FileStep
<1>9. CASE op' = Idle /\ result'.name = "file_stat"
  BY <1>4, <1>9, FileEnds
<1>10. CASE op' = op /\ todo' \in {OpenTail(host), EntryTail, CloseTail}
  <2>1. Stating'
    BY <1>1, <1>10 DEF Stating, OpenTail, EntryTail, CloseTail
  <2>2. QED
    BY <1>4, <1>10, <2>1 DEF FileInv, Succeeded, CopySizesAgree
<1>11. QED
  BY <1>8, <1>9, <1>10

(* A copy comes to an end in the FujiNet, in one of three ways. *)
LEMMA CopyEndEffects ==
  ASSUME FileShape, files.copying # <<>>, NEW d \in CopyEnd(files)
  PROVE  /\ DOMAIN d = DOMAIN FilesOff(files.fs)
         /\ d.dir = files.dir /\ d.copying = <<>> /\ d.fs \in [Hosts -> Files]
         /\ \E S, D \in Hosts :
              /\ S # D /\ files.copying = <<S, D>>
              /\ d.fs[S] = files.fs[S] /\ d.fs[D] \in {files.fs[D], files.fs[S], NoFile}
<1>1. PICK S \in Hosts, D \in Hosts : S # D /\ files.copying = <<S, D>>
  BY DEF FileShape, Hosts
<1>2. files.copying[1] = S /\ files.copying[2] = D
  BY <1>1
<1>3. NoFile \in Files
  BY DEF Files
<1>4. /\ DOMAIN files = DOMAIN FilesOff(files.fs) /\ files.fs \in [Hosts -> Files]
  BY DEF FileShape
<1>5. d \in {[files EXCEPT !.fs[D] = files.fs[S], !.copying = <<>>],
             [files EXCEPT !.copying = <<>>],
             [files EXCEPT !.fs[D] = NoFile, !.copying = <<>>]}
  BY <1>2 DEF CopyEnd, Copied
<1>6. CASE d = [files EXCEPT !.copying = <<>>]
  BY <1>1, <1>4, <1>6 DEF FilesOff
<1>7. ASSUME NEW f \in Files, f \in {files.fs[S], NoFile},
             d = [files EXCEPT !.fs[D] = f, !.copying = <<>>]
      PROVE  /\ DOMAIN d = DOMAIN FilesOff(files.fs)
             /\ d.dir = files.dir /\ d.copying = <<>> /\ d.fs = [files.fs EXCEPT ![D] = f]
  BY <1>4, <1>7 DEF FilesOff
<1>8. ASSUME NEW f \in Files, f \in {files.fs[S], NoFile},
             d = [files EXCEPT !.fs[D] = f, !.copying = <<>>]
      PROVE  /\ d.fs \in [Hosts -> Files]
             /\ d.fs[S] = files.fs[S] /\ d.fs[D] \in {files.fs[D], files.fs[S], NoFile}
  <2>1. d.fs = [files.fs EXCEPT ![D] = f]
    BY <1>7, <1>8, Zenon
  <2>2. QED
    BY <1>1, <1>4, <1>8, <2>1
<1>9. files.fs[S] \in Files
  BY <1>4
<1>10. QED
  BY <1>1, <1>3, <1>5, <1>6, <1>7, <1>8, <1>9

LEMMA FileCopyEnds ==
  ASSUME theme = "file", FileInv, CopyEnds
  PROVE  FileInv'
<1>1. /\ FileShape /\ files.copying # <<>> /\ files' \in CopyEnd(files)
      /\ theme' = theme /\ op' = op /\ todo' = todo /\ mem' = mem /\ told' = told /\ result' = result
  BY DEF FileInv, CopyEnds
<1>2. /\ DOMAIN files' = DOMAIN FilesOff(files.fs)
      /\ files'.dir = files.dir /\ files'.copying = <<>> /\ files'.fs \in [Hosts -> Files]
      /\ \E S, D \in Hosts :
           /\ S # D /\ files.copying = <<S, D>>
           /\ files'.fs[S] = files.fs[S]
           /\ files'.fs[D] \in {files.fs[D], files.fs[S], NoFile}
  BY <1>1, CopyEndEffects
<1>3. FileShape'
  <2>1. files'.dir \in Seq(Entries) /\ DOMAIN files' = DOMAIN FilesOff(files'.fs)
    BY <1>1, <1>2 DEF FileShape, FilesOff
  <2>2. QED
    BY <1>2, <2>1 DEF FileShape
<1>4. ~Succeeded({"copy_file"}) /\ ~Succeeded({"copy_file"})'
  BY <1>1 DEF FileInv, Succeeded
<1>5. CASE op = Idle
  BY <1>1, <1>3, <1>4, <1>5 DEF FileInv, CopySizesAgree
<1>6. CASE op # Idle /\ Stating
  <2>1. Stating'
    BY <1>1, <1>6 DEF Stating, StatScript, OpenTail, EntryTail, CloseTail
  <2>2. QED
    BY <1>1, <1>3, <1>4, <2>1 DEF FileInv, CopySizesAgree
<1>7. CASE op # Idle /\ Copying
  <2>1. PICK from \in Hosts, to \in Hosts :
          /\ op.name = "copy_file" /\ from # to /\ op.src - 1 = from /\ op.dest - 1 = to
          /\ CopyPhase(from, to)
    BY <1>7 DEF Copying
  <2>2. Origin(from, to) /\ (todo = CopyScript(op) \/ todo = PollTail)
    BY <1>1, <2>1 DEF CopyPhase
  <2>3. Origin(from, to)'
    BY <1>1, <1>2, <2>1, <2>2 DEF Origin, Hosts
  <2>4. CopyPhase(from, to)'
    BY <1>1, <2>2, <2>3 DEF CopyPhase, CopyScript, PollTail
  <2>5. QED
    BY <1>1, <1>3, <1>7, <2>1, <2>4, CopyGoesOn
<1>8. QED
  BY <1>1, <1>5, <1>6, <1>7 DEF FileInv

LEMMA FileBegins ==
  ASSUME Shape, theme = "file", FileInv, NEW o \in Operations, Begin(o)
  PROVE  FileInv'
<1>1. /\ op' = o /\ theme' = theme /\ files' = files /\ result' = result
      /\ FileShape /\ o # Idle
  BY OperationNames DEF Begin, FileInv
<1>2. FileShape'
  BY <1>1 DEF FileShape, FilesOff, Entries, Files, NoFile
<1>3. ~Succeeded({"copy_file"})'
  BY <1>1 DEF Succeeded
<1>4. o \in FileOperations /\ todo' = FileScript(o)
  BY DEF Begin, Operations, Script
<1>5. CASE o.name = "file_stat"
  <2>1. o.host \in Hosts /\ todo' = StatScript(o.host)
    BY <1>4, <1>5 DEF FileOperations, FileScript
  <2>2. Stating'
    BY <1>1, <1>5, <2>1 DEF Stating, StatScript
  <2>3. QED
    BY <1>1, <1>2, <1>3, <2>2 DEF FileInv, CopySizesAgree
<1>6. CASE o.name = "copy_file"
  <2>1. o.src \in {1, 2} /\ o.dest \in {1, 2} /\ o.src # o.dest /\ todo' = CopyScript(o)
    BY <1>4, <1>6 DEF FileOperations, FileScript, Begin
  <2>2. PICK from \in Hosts, to \in Hosts : from # to /\ o.src - 1 = from /\ o.dest - 1 = to
    BY <2>1 DEF Hosts
  <2>3. told'.before = files.fs[to]
    BY <1>6, <2>2 DEF Begin, Shape, ToldOff
  <2>4. Origin(from, to)'
    BY <1>1, <2>3 DEF Origin
  <2>5. CopyPhase(from, to)'
    BY <1>1, <2>1, <2>4 DEF CopyPhase, CopyScript
  <2>6. Copying'
    BY <1>1, <1>6, <2>2, <2>5 DEF Copying
  <2>7. QED
    BY <1>1, <1>2, <1>3, <2>6 DEF FileInv, CopySizesAgree
<1>7. QED
  BY <1>4, <1>5, <1>6 DEF FileOperations

LEMMA FileStarts == Init => FileInv
<1>1. SUFFICES ASSUME Init, theme = "file" PROVE FileInv
  BY DEF FileInv
<1>2. PICK fs \in [Hosts -> Files] : files = FilesOff(fs)
  BY <1>1 DEF Init
<1>3. files.fs = fs /\ files.dir = <<>> /\ files.copying = <<>>
  BY <1>2 DEF FilesOff
<1>4. <<>> \in Seq(Entries)
  BY EmptySeq
<1>5. FileShape
  <2>1. DOMAIN files = DOMAIN FilesOff(files.fs)
    BY <1>2, <1>3
  <2>2. QED
    BY <1>3, <1>4, <2>1 DEF FileShape
<1>6. op = Idle /\ ~Succeeded({"copy_file"})
  BY <1>1 DEF Init, Succeeded, NoResult, None
<1>7. QED
  BY <1>5, <1>6 DEF FileInv, CopySizesAgree

LEMMA FileNext == Shape /\ FileInv /\ [Next]_vars => FileInv'
<1> SUFFICES ASSUME Shape, FileInv, [Next]_vars, theme' = "file"
             PROVE  FileInv'
  BY DEF FileInv
<1>1. theme = "file"
  BY DEF Next, Begin, Step, NoCall, CopyEnds, vars
<1>2. ASSUME NEW o \in Operations, Begin(o) PROVE FileInv'
  BY <1>1, <1>2, FileBegins
<1>3. CASE Step
  <2>1. op # Idle /\ FileShape /\ (Copying \/ Stating)
    BY <1>1, <1>3 DEF Step, Shape, FileInv
  <2>2. CASE Stating
    BY <1>1, <1>3, <2>1, <2>2, StatingStep
  <2>3. CASE Copying
    <3>1. PICK from \in Hosts, to \in Hosts :
            /\ op.name = "copy_file" /\ from # to /\ op.src - 1 = from /\ op.dest - 1 = to
            /\ CopyPhase(from, to)
      BY <2>3 DEF Copying
    <3>2. Origin(from, to)
      BY <3>1 DEF CopyPhase
    <3>3. CASE todo = CopyScript(op)
      BY <1>1, <1>3, <2>1, <3>1, <3>2, <3>3, CopyAsk
    <3>4. CASE todo = PollTail
      BY <1>1, <1>3, <2>1, <3>1, <3>2, <3>4, CopyPoll
    <3>5. CASE mem.step = "source" /\ files.copying = <<>> /\ StatPhase(from)
      BY <1>1, <1>3, <2>1, <3>1, <3>2, <3>5, CopySource
    <3>6. CASE /\ mem.step = "dest" /\ files.copying = <<>> /\ StatPhase(to)
               /\ files.fs[from] # NoFile /\ mem.size = files.fs[from].size
      BY <1>1, <1>3, <2>1, <3>1, <3>2, <3>6, CopyDest
    <3>7. QED
      BY <3>1, <3>3, <3>4, <3>5, <3>6 DEF CopyPhase
  <2>4. QED
    BY <2>1, <2>2, <2>3
<1>4. CASE NoCall
  <2>1. todo # <<>>
    <3>1. op # Idle /\ (Copying \/ Stating)
      BY <1>1, <1>4 DEF NoCall, FileInv
    <3>2. CopyScript(op) # <<>>
      BY DEF CopyScript
    <3>3. QED
      BY <3>1, <3>2, StatTails DEF Copying, Stating, CopyPhase, StatPhase
  <2>2. QED
    BY <1>4, <2>1 DEF NoCall
<1>5. CASE CopyEnds
  BY <1>1, <1>5, FileCopyEnds
<1>6. CASE UNCHANGED vars
  <2>1. /\ theme' = theme /\ files' = files /\ op' = op /\ todo' = todo
        /\ mem' = mem /\ told' = told /\ result' = result
    BY <1>6 DEF vars
  <2>2. (FileShape <=> FileShape') /\ (CopySizesAgree <=> CopySizesAgree')
        /\ (Succeeded({"copy_file"}) <=> Succeeded({"copy_file"})')
    BY <2>1 DEF FileShape, Succeeded, CopySizesAgree
  <2>3. Stating <=> Stating'
    BY <2>1 DEF Stating
  <2>4. ASSUME NEW from \in Hosts, NEW to \in Hosts
        PROVE  CopyPhase(from, to) <=> CopyPhase(from, to)'
    BY <2>1 DEF CopyPhase, Origin, StatPhase, Got, ListedIn
  <2>5. Copying <=> Copying'
    BY <2>1, <2>4 DEF Copying
  <2>6. QED
    BY <2>1, <2>2, <2>3, <2>5 DEF FileInv
<1>7. QED
  BY <1>2, <1>3, <1>4, <1>5, <1>6 DEF Next

LEMMA FileHolds == Spec => []FileInv
<1>1. Init => FileInv
  BY FileStarts
<1>2. Shape /\ FileInv /\ [Next]_vars => FileInv'
  BY FileNext
<1>3. QED
  BY <1>1, <1>2, ShapeHolds, PTL DEF Spec

(* A copy that fuji_copy_file() reports as done has left the source's contents
   under the destination's name, or a file of the source's size was there before:
   although the copy goes on after the call has failed, may be cut short, may be
   one begun earlier the other way round, and both sizes are read through the one
   static entry of fuji_read_directory(). *)
THEOREM CopySizesAgreeCorrect == Spec => []CopySizesAgree
<1>1. Shape /\ FileInv => CopySizesAgree
  BY DEF Shape, FileInv, CopySizesAgree, Succeeded, Names, None
<1>2. QED
  BY <1>1, FileHolds, ShapeHolds, PTL
=============================================================================
