------------------------------ MODULE Session ------------------------------
(***************************************************************************)
(* A program that carries out operation after operation of common/ against *)
(* one FujiNet.  Between any two bus calls the FujiNet keeps what it was   *)
(* told; any bus call may fail, before the FujiNet has carried it out or   *)
(* after it, with the answer lost; and the operation returns at once or    *)
(* goes on, as its script says.  What must hold in spite of it is that an  *)
(* operation that reports success returns what it was asked for and not    *)
(* what an earlier operation, or half of one, has left behind.             *)
(***************************************************************************)
EXTENDS DeviceTools, FileOps, Channel

CONSTANTS
  MaxOps,      \* bound: operations the program makes
  MaxFaults,   \* bound: bus calls that fail
  Themes       \* which of the FujiNet's services the program uses

ASSUME SessionAssumption == MaxOps \in Nat /\ MaxFaults \in Nat

VARIABLES
  theme,
  tools, files, chan,   \* the FujiNet
  op, todo,             \* the operation being carried out, its bus calls
  mem,                  \* the library's variables
  told,                 \* what the program knows of the FujiNet's state (history)
  ops, faults,
  result                \* what the last operation returned

vars == <<theme, tools, files, chan, op, todo, mem, told, ops, faults, result>>

Idle == [name |-> None]

MemOff ==
  [ok |-> TRUE, value |-> <<>>, step |-> None,
   len |-> 0, lenKnown |-> TRUE,                 \* fuji_hash_data: c
   creator |-> CHOOSE c \in Creators : TRUE,     \* ak_creator_id
   wifi |-> FALSE,                               \* fuji_get_wifi_enabled: c
   entry |-> EndOfDir, size |-> 0, retries |-> 0]

(* What the program has been told: the data it has added to the hash, its
   time zone, the parser that has parsed, the data posted; and whether a
   failed operation has left it in doubt. *)
ToldOff == [hash |-> <<>>, zone |-> None, parser |-> None, posted |-> <<>>,
            unsure |-> FALSE, lostRead |-> FALSE, before |-> NoFile]

NoResult == [name |-> None, ok |-> FALSE]

Operations ==
  CASE theme = "file"    -> FileOperations
    [] theme = "channel" -> [name : {"open", "close", "json_parse", "html_parse"}]
                            \cup [name : {"json_query"}, query : {"q1", "q2"}]
                            \cup [name : {"http_post", "write"}, data : Data]
    [] OTHER             -> ToolOps(theme)

Script(o) ==
  CASE theme = "file"    -> FileScript(o)
    [] theme = "channel" -> ChannelScript(o)
    [] OTHER             -> ToolScript(o, mem)

Init ==
  /\ theme \in Themes
  /\ tools = ToolsOff
  /\ \E fs \in [Hosts -> Files] :
       /\ \A h \in Hosts : fs[h] # NoFile => fs[h].text = h
       /\ theme # "file" => fs = [h \in Hosts |-> NoFile]
       /\ files = FilesOff(fs)
  /\ chan = ChannelOff
  /\ op = Idle /\ todo = <<>> /\ mem = MemOff /\ told = ToldOff
  /\ ops = 0 /\ faults = 0
  /\ result = NoResult

(***************************************************************************)
(* The program.                                                            *)
(***************************************************************************)

(* The C code's locals are fresh, its statics are what they were.  A copy to
   the slot it comes from is not asked for. *)
Begin(o) ==
  /\ op = Idle /\ ops < MaxOps
  /\ o.name = "copy_file" => o.src # o.dest
  /\ op' = o
  /\ ops' = ops + 1
  /\ todo' = Script(o)
  /\ mem' = [MemOff EXCEPT !.entry = mem.entry, !.wifi = mem.wifi,
                           !.creator = IF o.name = "set_appkey_details" THEN o.creator ELSE mem.creator,
                           !.ok = ~("format" \in DOMAIN o /\ o.format >= TIMEFORMAT_COUNT)]
  /\ told' = [told EXCEPT !.lostRead = FALSE, !.posted = chan.posted,
                          !.before = IF o.name = "copy_file" THEN files.fs[o.dest - 1] ELSE NoFile]
  /\ UNCHANGED <<theme, tools, files, chan, faults, result>>

(* What the program knows after operation o, that returned ok. *)
Learn(o, ok, t) ==
  LET n == o.name
  IN [t EXCEPT
       !.hash   = CASE ok /\ n = "hash_add" -> Append(@, o.data)
                    [] ok /\ (n \in {"hash_clear", "hash_data"} \/ (n = "hash_calculate" /\ o.discard)) -> <<>>
                    [] OTHER -> @,
       !.zone   = IF ok /\ n = "set_tz" THEN o.zone ELSE @,
       !.parser = CASE n \in {"open", "close"} -> None
                    [] n = "json_parse" -> IF ok THEN "json" ELSE None
                    [] n = "html_parse" -> IF ok THEN "html" ELSE None
                    [] OTHER -> @,
       !.unsure = CASE ok /\ n \in {"hash_clear", "hash_data", "set_tz", "open", "http_post"} -> FALSE
                    [] ~ok /\ n # "get_time" -> TRUE
                    [] OTHER -> @]

Finish(ok, m, t) ==
  /\ todo' = <<>>
  /\ op' = Idle
  /\ mem' = m
  /\ told' = Learn(op, ok, t)
  /\ result' = [name |-> op.name, op |-> op, ok |-> ok, value |-> m.value, lenKnown |-> m.lenKnown,
                len |-> m.len, unsure |-> told.unsure, added |-> told.hash]

(* The bus call c has returned. *)
Resume(c, ok, reply, t) ==
  IF ~ok /\ c.must
  THEN Finish(FALSE, mem, t)
  ELSE \E m \in CASE theme = "file"    -> FileKeep(c, ok, reply, mem)
                  [] theme = "channel" -> ChannelKeep(c, ok, reply, mem)
                  [] OTHER             -> ToolKeep(c, ok, reply, op, mem) :
         LET copy == CopyRest(c, ok, op, m, Tail(todo))
             rest == CASE op.name = "copy_file" -> copy.todo
                       [] op.name = "file_stat" -> StatRest(c, ok, m, Tail(todo))
                       [] op.name = "json_query" -> QueryRest(c, reply, Tail(todo))
                       [] OTHER -> ToolRest(c, m, Tail(todo))
             after == IF op.name = "copy_file" THEN [m EXCEPT !.step = copy.step, !.ok = copy.ok] ELSE m
         IN IF rest = <<>>
            THEN Finish(after.ok, after, t)
            ELSE /\ todo' = rest /\ mem' = after /\ told' = t
                 /\ UNCHANGED <<op, result>>

FujiNet == [tools |-> tools, files |-> files, chan |-> chan]

(* What the FujiNet may do with the next call. *)
Handles(c) ==
  CASE theme = "file" ->
         {[h EXCEPT !.dev = [FujiNet EXCEPT !.files = h.dev]] : h \in FileHandle(c, files)}
    [] theme = "channel" ->
         LET h == ChannelHandle(c, chan) IN {[h EXCEPT !.dev = [FujiNet EXCEPT !.chan = h.dev]]}
    [] OTHER ->
         {[h EXCEPT !.dev = [FujiNet EXCEPT !.tools = h.dev]] : h \in ToolHandle(c, tools)}

Becomes(d) == tools' = d.tools /\ files' = d.files /\ chan' = d.chan

Answered(c, h) ==
  /\ Becomes(h.dev)
  /\ Resume(c, h.ok, h.reply, told)
  /\ UNCHANGED faults

(* The call fails although the FujiNet has carried it out, or has not seen
   it. *)
Fails(c, h) ==
  /\ faults < MaxFaults
  /\ faults' = faults + 1
  /\ \E carriedOut \in BOOLEAN :
       /\ Becomes(IF carriedOut THEN h.dev ELSE FujiNet)
       /\ Resume(c, FALSE, None, [told EXCEPT !.lostRead = @ \/ (carriedOut /\ c.cmd = "READ")])

Step ==
  /\ todo # <<>>
  /\ \E h \in Handles(Head(todo)) : Answered(Head(todo), h) \/ Fails(Head(todo), h)
  /\ UNCHANGED <<theme, ops>>

(* An operation that makes no bus call. *)
NoCall ==
  /\ op # Idle /\ todo = <<>>
  /\ Finish(mem.ok, mem, told)
  /\ UNCHANGED <<theme, tools, files, chan, ops, faults>>

(* The FujiNet comes to the end of a copy. *)
CopyEnds ==
  /\ files.copying # <<>>
  /\ files' \in CopyEnd(files)
  /\ UNCHANGED <<theme, tools, chan, op, todo, mem, told, ops, faults, result>>

Next == (\E o \in Operations : Begin(o)) \/ Step \/ NoCall \/ CopyEnds

(* The program goes on; a bus call always returns. *)
Spec == Init /\ [][Next]_vars /\ WF_vars(Step) /\ WF_vars(NoCall)

(***************************************************************************)
(* Properties.                                                             *)
(***************************************************************************)

Succeeded(names) == op = Idle /\ result.name \in names /\ result.ok

(* fuji_hash_data returns the digest of its own data, whatever earlier
   operations left in the FujiNet; fuji_hash_calculate, told to keep the data
   or to discard it, that of exactly the data the program had added when it
   was called, unless an operation on the hash has failed since it was last
   cleared.  Between operations the FujiNet holds the data the program thinks
   it does, with the same exception.  The length asked for is the one
   fuji_hash_size told the program to allocate, unless HASH_LENGTH failed
   (its failure is not looked at, and the length is then not initialised). *)
HashOfOwnData ==
  /\ Succeeded({"hash_data"}) =>
       result.value = [alg |-> result.op.alg, of |-> <<result.op.data>>]
  /\ Succeeded({"hash_calculate"}) /\ ~result.unsure =>
       result.value = [alg |-> result.op.alg, of |-> result.added]
  /\ theme = "hash" /\ op = Idle /\ ~told.unsure => tools.hashIn = told.hash
  /\ Succeeded({"hash_data", "hash_calculate"}) /\ result.lenKnown =>
       result.len = HashSize(result.op.alg, result.op.hex)

(* qrcode_create returns the code of its own input, and the FujiNet keeps
   none of it, unless an earlier one failed on the way ("FIXME - empty any
   input still in QR code buffer on FujiNet", src/common/qrcode_create.c:10). *)
CodeOfOwnData ==
  Succeeded({"qrcode_create"}) /\ ~result.unsure => result.value = <<result.op.data>>

(* A key that was read is the one the program's creator has, a key that was
   written has the data, also when an earlier OPEN of another key failed. *)
KeyAsked ==
  /\ Succeeded({"read_appkey"})  => result.value = tools.keys[mem.creator]
  /\ Succeeded({"write_appkey"}) => tools.keys[mem.creator] = result.op.data

(* clock_get_time_tz returns the time of the zone it was given, clock_get_time
   and clock_get_tz the system's, which only clock_set_tz changes; but the
   Apple II's clock_get_time that of the alternate zone, whatever was the last
   to be given to clock_get_time_tz. *)
TimeInZone ==
  /\ Succeeded({"get_time_tz"}) => result.value = result.op.zone
  /\ Succeeded({"get_tz"}) => result.value = tools.zone
  /\ Succeeded({"get_time"}) => result.value = IF result.op.alt THEN tools.alt ELSE tools.zone
  /\ theme \in {"clock", "apple2 clock"} /\ op = Idle /\ ~told.unsure => tools.zone = told.zone

(* A copy that is reported as done left the source's contents under the
   destination's name, or a file of the source's size was there before. *)
CopySizesAgree ==
  Succeeded({"copy_file"}) =>
    LET src  == files.fs[result.op.src - 1]
        dest == files.fs[result.op.dest - 1]
    IN dest # NoFile /\ dest.size = src.size /\ (dest = src \/ dest = told.before)

(* A query returns bytes of its own answer only, in order and by the parser
   that has parsed the document, without line ends at the end, and all of it
   unless the answer of a READ was lost: network_read takes that for a read of
   no bytes and the loop goes on behind it. *)
QueryWhole ==
  Succeeded({"json_query"}) =>
    LET v == result.value
        whole(p) == StripNewlines(Answer(result.op.query, p))
    IN /\ \A i \in DOMAIN v : v[i].query = result.op.query
       /\ v # <<>> => v[Len(v)].at # 0
       /\ ~told.lostRead => \E p \in {"json", "html"} : v = whole(p)
       /\ ~told.lostRead /\ told.parser # None => v = whole(told.parser)

(* network_http_post posts its data once and leaves the channel in the mode
   for bodies; as long as no operation on the channel fails it stays there, so
   that no write goes out as post data nor a read is made in the wrong mode. *)
PostedOnce ==
  /\ Succeeded({"http_post"}) =>
       chan.posted = Append(told.posted, result.op.data) /\ chan.mode = "body"
  /\ theme = "channel" /\ op = Idle /\ ~told.unsure => chan.mode = "body"

(* Every operation returns: polling a copy, walking a directory and reading an
   answer end, although the calls they loop over may fail. *)
OperationReturns == op # Idle ~> op = Idle
=============================================================================
