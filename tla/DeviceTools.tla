---------------------------- MODULE DeviceTools ----------------------------
(***************************************************************************)
(* The tools the FujiNet offers a program: hashes, QR codes, app keys, the *)
(* clock and the wifi switch.  For each operation its bus calls (Script),  *)
(* for each call what the FujiNet does with it (outside src/, ToolHandle), *)
(* and what the program keeps of the answer (ToolKeep).                    *)
(***************************************************************************)
EXTENDS OpSteps

CONSTANTS
  Data,        \* data to hash, to encode, to store in a key
  Creators,    \* creators of app keys
  Zones        \* time zones

ASSUME ToolsAssumption == Data # {} /\ Creators # {} /\ Zones # {}

NoDigest == [alg |-> None, of |-> <<>>]

ToolsOff ==
  [hashIn |-> <<>>, digest |-> NoDigest,         \* hash_input so far; hash_compute
   qrIn |-> <<>>, code |-> <<>>,                 \* qrcode_input so far; the code
   keyOpen |-> [creator |-> None, mode |-> 0],   \* OPEN_APPKEY
   keys |-> [c \in Creators |-> None],
   zone |-> None, alt |-> None,                  \* system and alternate time zone
   wifi |-> FALSE]

(* fuji_hash_size: what an application allocates for the digest. *)
HashSize(alg, asHex) ==
  LET len == CASE alg = "MD5" -> 16 [] alg = "SHA1" -> 20
               [] alg = "SHA256" -> 32 [] alg = "SHA512" -> 64 [] OTHER -> 0
  IN IF asHex THEN 2 * len ELSE len

(***************************************************************************)
(* Scripts.                                                                *)
(***************************************************************************)

(* fuji_hash_data; the length is asked for but its failure is not looked at. *)
HashData(o) ==
  <<Must("HASH_CLEAR", None), Must("HASH_INPUT", o.data), Must("HASH_COMPUTE", o.alg),
    Try("HASH_LENGTH", o.hex), Must("HASH_OUTPUT", o.hex)>>

HashCompute(o) == IF o.discard THEN "HASH_COMPUTE" ELSE "HASH_COMPUTE_NO_CLEAR"

(* Mutant: the data is discarded before the digest is made of it. *)
HashCalculateClearsFirst(o) ==
  (IF o.discard THEN <<Try("HASH_CLEAR", None)>> ELSE <<>>)
  \o <<Must(HashCompute(o), o.alg), Try("HASH_LENGTH", o.hex), Must("HASH_OUTPUT", o.hex)>>

HashCalculate(o) ==
  <<Must(HashCompute(o), o.alg), Try("HASH_LENGTH", o.hex), Must("HASH_OUTPUT", o.hex)>>
  \o (IF o.discard THEN <<Try("HASH_CLEAR", None)>> ELSE <<>>)

HashClear  == <<Must("HASH_CLEAR", None)>>
HashAdd(o) == <<Must("HASH_INPUT", o.data)>>

(* Mutant: the result of the input is not looked at. *)
QrInputTry(o) == <<Try("QRCODE_INPUT", o.data)>>

QrInput(o) == <<Must("QRCODE_INPUT", o.data)>>

(* qrcode_create. *)
QrCreate(o) ==
  QrInput(o) \o <<Must("QRCODE_ENCODE", None), Must("QRCODE_LENGTH", None),
                  Must("QRCODE_OUTPUT", None)>>

(* Mutant: the result of OPEN_APPKEY is not looked at. *)
OpenKeyTry(creator, mode) == Try("OPEN_APPKEY", [creator |-> creator, mode |-> mode])

(* init_appkey, and the OPEN every app key operation begins with. *)
OpenKey(creator, mode) == Must("OPEN_APPKEY", [creator |-> creator, mode |-> mode])

ReadKey(creator)     == <<OpenKey(creator, 0), Must("READ_APPKEY", None)>>
WriteKey(creator, o) == <<OpenKey(creator, 1), Must("WRITE_APPKEY", o.data)>>

TIMEFORMAT_COUNT == 7

SetZone(o) == <<Must("SETTZ_MAIN", o.zone)>>
GetZone    == <<Must("GETTZ_LEN", None), Must("GET_GENERAL", None)>>

(* A format that does not exist is refused before any call is made. *)
GetTime(o, alt) ==
  IF o.format >= TIMEFORMAT_COUNT THEN <<>> ELSE <<Must("GET_TIME", alt)>>

(* Mutant: the time is asked for in whatever zone was set last. *)
SetAltTry(o) == Try("SETTZ_ALT", o.zone)

SetAlt(o) == Must("SETTZ_ALT", o.zone)

GetTimeZone(o) ==
  IF o.format >= TIMEFORMAT_COUNT THEN <<>> ELSE <<SetAlt(o)>> \o GetTime(o, TRUE)

(* fuji_get_wifi_enabled has no way to fail. *)
WifiEnabled == <<Try("GET_WIFI_ENABLED", None)>>

ToolScript(o, mem) ==
  CASE o.name = "hash_data"      -> HashData(o)
    [] o.name = "hash_calculate" -> HashCalculate(o)
    [] o.name = "hash_clear"     -> HashClear
    [] o.name = "hash_add"       -> HashAdd(o)
    [] o.name = "qrcode_create"  -> QrCreate(o)
    [] o.name = "read_appkey"    -> ReadKey(mem.creator)
    [] o.name = "write_appkey"   -> WriteKey(mem.creator, o)
    [] o.name = "set_tz"         -> SetZone(o)
    [] o.name = "get_tz"         -> GetZone
    [] o.name = "get_time"       -> GetTime(o, o.alt)
    [] o.name = "get_time_tz"    -> GetTimeZone(o)
    [] o.name = "wifi_enabled"   -> WifiEnabled
    [] OTHER                     -> <<>>

(* clock_get_time is a macro that asks for the system's time, on the Apple II
   for that in the alternate zone. *)
ClockGetTimeAlt(theme) == {theme = "apple2 clock"}

ToolOps(theme) ==
  CASE theme = "hash" ->
         [name : {"hash_data"}, data : Data, alg : {"MD5", "SHA512"}, hex : BOOLEAN]
         \cup [name : {"hash_calculate"}, alg : {"MD5"}, hex : {TRUE}, discard : BOOLEAN]
         \cup [name : {"hash_clear"}] \cup [name : {"hash_add"}, data : Data]
    [] theme = "qr"    -> [name : {"qrcode_create"}, data : Data, max : {1, 2}]
    [] theme = "key"   -> [name : {"read_appkey"}] \cup [name : {"write_appkey"}, data : Data]
                          \cup [name : {"set_appkey_details"}, creator : Creators]
    [] theme \in {"clock", "apple2 clock"} ->
                          [name : {"set_tz"}, zone : Zones] \cup [name : {"get_tz"}]
                          \cup [name : {"get_time"}, format : {0, 7}, alt : ClockGetTimeAlt(theme)]
                          \cup [name : {"get_time_tz"}, zone : Zones, format : {0, 7}]
    [] theme = "wifi"  -> [name : {"wifi_enabled"}]
    [] OTHER           -> {}

(***************************************************************************)
(* The FujiNet, outside src/.                                              *)
(***************************************************************************)

HashHandle(c, d) ==
  CASE c.cmd = "HASH_CLEAR" -> Done([d EXCEPT !.hashIn = <<>>, !.digest = NoDigest], None)
    [] c.cmd = "HASH_INPUT" -> Done([d EXCEPT !.hashIn = Append(@, c.arg)], None)
    [] c.cmd = "HASH_COMPUTE" ->
         Done([d EXCEPT !.digest = [alg |-> c.arg, of |-> d.hashIn], !.hashIn = <<>>], None)
    [] c.cmd = "HASH_COMPUTE_NO_CLEAR" ->
         Done([d EXCEPT !.digest = [alg |-> c.arg, of |-> d.hashIn]], None)
    [] c.cmd = "HASH_LENGTH" -> Done(d, HashSize(d.digest.alg, c.arg))
    [] c.cmd = "HASH_OUTPUT" -> Done(d, d.digest)

QrHandle(c, d) ==
  CASE c.cmd = "QRCODE_INPUT"  -> Done([d EXCEPT !.qrIn = Append(@, c.arg)], None)
    [] c.cmd = "QRCODE_ENCODE" -> Done([d EXCEPT !.code = d.qrIn, !.qrIn = <<>>], None)
    [] c.cmd = "QRCODE_LENGTH" -> Done(d, Len(d.code))
    [] c.cmd = "QRCODE_OUTPUT" -> Done(d, d.code)

KeyHandle(c, d) ==
  LET o == d.keyOpen
  IN CASE c.cmd = "OPEN_APPKEY" -> Done([d EXCEPT !.keyOpen = c.arg], None)
       [] c.cmd = "READ_APPKEY" ->
            IF o.creator \in Creators /\ o.mode = 0 /\ d.keys[o.creator] # None
            THEN Done(d, d.keys[o.creator]) ELSE Refused(d)
       [] c.cmd = "WRITE_APPKEY" ->
            IF o.creator \in Creators /\ o.mode = 1
            THEN Done([d EXCEPT !.keys[o.creator] = c.arg], None) ELSE Refused(d)

ClockHandle(c, d) ==
  CASE c.cmd = "SETTZ_MAIN"  -> Done([d EXCEPT !.zone = c.arg], None)
    [] c.cmd = "SETTZ_ALT"   -> Done([d EXCEPT !.alt = c.arg], None)
    [] c.cmd = "GETTZ_LEN"   -> Done(d, None)
    [] c.cmd = "GET_GENERAL" -> Done(d, d.zone)
    [] c.cmd = "GET_TIME"    -> Done(d, IF c.arg THEN d.alt ELSE d.zone)

(* The wifi is switched on and off by others. *)
WifiHandle(d) == {Done([d EXCEPT !.wifi = w], w) : w \in BOOLEAN}

HashCmds  == {"HASH_CLEAR", "HASH_INPUT", "HASH_COMPUTE", "HASH_COMPUTE_NO_CLEAR",
              "HASH_LENGTH", "HASH_OUTPUT"}
QrCmds    == {"QRCODE_INPUT", "QRCODE_ENCODE", "QRCODE_LENGTH", "QRCODE_OUTPUT"}
KeyCmds   == {"OPEN_APPKEY", "READ_APPKEY", "WRITE_APPKEY"}
ClockCmds == {"SETTZ_MAIN", "SETTZ_ALT", "GETTZ_LEN", "GET_GENERAL", "GET_TIME"}

ToolHandle(c, d) ==
  CASE c.cmd \in HashCmds  -> {HashHandle(c, d)}
    [] c.cmd \in QrCmds    -> {QrHandle(c, d)}
    [] c.cmd \in KeyCmds   -> {KeyHandle(c, d)}
    [] c.cmd \in ClockCmds -> {ClockHandle(c, d)}
    [] OTHER               -> WifiHandle(d)

ToolCmds == HashCmds \cup QrCmds \cup KeyCmds \cup ClockCmds \cup {"GET_WIFI_ENABLED"}

(***************************************************************************)
(* What the program makes of an answer: the possible new values of its     *)
(* variables.                                                              *)
(***************************************************************************)

(* The length is stored in an automatic variable nobody initialised: when the
   call fails, HASH_OUTPUT is asked for whatever was there. *)
KeepHashLength(ok, reply, mem) ==
  {[mem EXCEPT !.len = n, !.lenKnown = ok] : n \in IF ok THEN {reply} ELSE {0, 255}}

(* A code that does not fit the caller's buffer is not fetched. *)
KeepQrLength(reply, o, mem) == {[mem EXCEPT !.ok = reply <= o.max]}

(* The answer is stored in a static variable, which a failed call leaves as
   it was. *)
KeepWifi(ok, reply, mem) ==
  LET w == IF ok THEN reply ELSE mem.wifi
  IN {[mem EXCEPT !.wifi = w, !.value = w]}

ToolKeep(c, ok, reply, o, mem) ==
  CASE c.cmd = "HASH_LENGTH"      -> KeepHashLength(ok, reply, mem)
    [] c.cmd = "QRCODE_LENGTH"    -> KeepQrLength(reply, o, mem)
    [] c.cmd = "GET_WIFI_ENABLED" -> KeepWifi(ok, reply, mem)
    [] c.cmd \in {"HASH_OUTPUT", "QRCODE_OUTPUT", "READ_APPKEY", "GET_GENERAL", "GET_TIME"} ->
         {[mem EXCEPT !.value = reply]}
    [] OTHER                      -> {mem}

(* After a code too long for the buffer nothing more is called. *)
ToolRest(c, mem, rest) == IF c.cmd = "QRCODE_LENGTH" /\ ~mem.ok THEN <<>> ELSE rest
=============================================================================
