------------------------------ MODULE Channel ------------------------------
(***************************************************************************)
(* The control of a network channel: parsing a document and querying it,   *)
(* and posting data, which is written like any other data but in another   *)
(* mode of the channel.                                                    *)
(***************************************************************************)
EXTENDS OpSteps, FiniteSetsExt

CONSTANT ChunkMax    \* bytes of an answer STATUS shows at most

ASSUME ChannelAssumption == ChunkMax \in Nat \ {0}

(* A byte of an answer: the query, the parser it was put to, its position;
   position 0 is a line end, of which there is one in the middle and one at the
   end. *)
Answer(query, parser) ==
  [i \in 1..4 |-> [query |-> query, parser |-> parser, at |-> i * (i % 2)]]

ChannelOff ==
  [mode |-> "body", posted |-> <<>>, sent |-> <<>>,
   parser |-> None, parsed |-> FALSE, answer |-> <<>>]

(***************************************************************************)
(* Scripts.                                                                *)
(***************************************************************************)

SetMode(mode) == Must("SET_HTTP_MODE", mode)

NetworkWrite(data) == <<Must("WRITE", data)>>

(* Mutant: the mode is set back only by the next operation that needs it. *)
BodyAgainNever == <<>>

BodyAgain == <<SetMode("body")>>

HttpPost(o) == <<SetMode("post")>> \o NetworkWrite(o.data) \o BodyAgain

JsonParse == <<Must("SET_PARSER", "json"), Must("PARSE", None)>>

SetParser(parser) == <<Must("SET_PARSER", parser)>>

HtmlParse == SetParser("html") \o <<Must("PARSE", None)>>

(* network_json_query, as far as the first status. *)
JsonQuery(o) == <<Must("QUERY", o.query), Must("NET_STATUS", None)>>

Open  == <<Must("OPEN", None)>>
Close == <<Must("CLOSE", None)>>

ChannelScript(o) ==
  CASE o.name = "open"       -> Open
    [] o.name = "close"      -> Close
    [] o.name = "http_post"  -> HttpPost(o)
    [] o.name = "write"      -> NetworkWrite(o.data)
    [] o.name = "json_parse" -> JsonParse
    [] o.name = "html_parse" -> HtmlParse
    [] o.name = "json_query" -> JsonQuery(o)

(***************************************************************************)
(* The FujiNet, outside src/.                                              *)
(***************************************************************************)

ChannelHandle(c, d) ==
  CASE c.cmd = "OPEN"          -> Done([ChannelOff EXCEPT !.posted = d.posted, !.sent = d.sent], None)
    [] c.cmd = "CLOSE"         -> Done([ChannelOff EXCEPT !.posted = d.posted, !.sent = d.sent], None)
    [] c.cmd = "SET_HTTP_MODE" -> Done([d EXCEPT !.mode = c.arg], None)
    [] c.cmd = "WRITE"         -> Done(IF d.mode = "post" THEN [d EXCEPT !.posted = Append(@, c.arg)]
                                       ELSE [d EXCEPT !.sent = Append(@, c.arg)], None)
    [] c.cmd = "SET_PARSER"    -> Done([d EXCEPT !.parser = c.arg], None)
    [] c.cmd = "PARSE"         -> IF d.parser = None THEN Refused(d)
                                  ELSE Done([d EXCEPT !.parsed = TRUE], None)
    [] c.cmd = "QUERY"         -> IF ~d.parsed THEN Refused(d)
                                  ELSE Done([d EXCEPT !.answer = Answer(c.arg, d.parser)], None)
    [] c.cmd = "NET_STATUS"    -> Done(d, Min({ChunkMax, Len(d.answer)}))
    [] c.cmd = "READ"          -> LET n == Min({c.arg, Len(d.answer)})
                                  IN Done([d EXCEPT !.answer = SubSeq(@, n + 1, Len(@))],
                                          SubSeq(d.answer, 1, n))

ChannelCmds == {"OPEN", "CLOSE", "SET_HTTP_MODE", "WRITE", "SET_PARSER", "PARSE", "QUERY",
                "NET_STATUS", "READ"}

(***************************************************************************)
(* What the program makes of an answer.                                    *)
(***************************************************************************)

(* network_json_strip_newlines: line ends at the end of the buffer. *)
StripNewlines(buffer) ==
  SubSeq(buffer, 1, Max({0} \cup {i \in DOMAIN buffer : buffer[i].at # 0}))

(* Mutant: each chunk is stored at the start of the buffer. *)
IntoFirst(buffer, chunk) == chunk

Into(buffer, chunk) == buffer \o chunk

ChannelKeep(c, ok, reply, mem) ==
  CASE c.cmd = "READ" /\ ok -> {[mem EXCEPT !.value = Into(@, reply)]}
    [] c.cmd = "NET_STATUS" /\ reply = 0 -> {[mem EXCEPT !.value = StripNewlines(@)]}
    [] OTHER -> {mem}

(* The query loop: while STATUS shows bytes they are read, and network_read
   asks for the status once more before it does; a read that fails counts as
   one of no bytes. *)
QueryRest(c, reply, rest) ==
  CASE c.cmd = "NET_STATUS" /\ rest = <<>> /\ reply # 0 ->
         <<Must("NET_STATUS", None), Try("READ", reply), Must("NET_STATUS", None)>>
    [] OTHER -> rest
=============================================================================
