-------------------------------- MODULE Api --------------------------------
(***************************************************************************)
(* The library's functions that are one call to the FujiNet: the macros of *)
(* fujinet-fuji.h, fujinet-network.h, fujinet-clock.h, fujinet-qrcode.h    *)
(* and the functions of src/common that wrap one.  A request says which    *)
(* command goes to which device, in which layout its arguments go, and the *)
(* data sent and the number of bytes asked for.                            *)
(*                                                                         *)
(* A structure or a string has STRUCT bytes, and values are chosen so that *)
(* the bytes of one call all differ.                                       *)
(***************************************************************************)
EXTENDS Fields

CONSTANT LastUnit  \* the last network unit: FUJI_DEVICEID_NETWORK_LAST

ASSUME ApiAssumption == LastUnit \in Nat \ {0}

Plain == [op |-> "call", kind |-> "fuji", cmd |-> "RESET", unit |-> 0,
          layout |-> "NONE", args |-> <<>>, data |-> <<>>, want |-> 0, int |-> 0]

STRUCT == 5
Name == <<17, 18, 19>>
Slot == 5
Wide == 258

Fuji(cmd) == [Plain EXCEPT !.cmd = cmd]
Clock(cmd) == [Plain EXCEPT !.kind = "clock", !.cmd = cmd]
Net(cmd, unit) == [Plain EXCEPT !.kind = "net", !.cmd = cmd, !.unit = unit]

(* What the suffixes of the macros add: _A1 and the other layouts, _D, _RV. *)
With(r, layout, args) == [r EXCEPT !.layout = layout, !.args = args]
Sends(r, data) == [r EXCEPT !.data = data]
Gets(r, n) == [r EXCEPT !.want = n]

(***************************************************************************)
(* The Fuji device.                                                        *)
(***************************************************************************)

(* A disk, devices, the adapter. *)
Setup ==
  {Sends(Fuji("NEW_DISK"), Name)}
  \cup {With(Fuji(c), "A1", <<Slot>>) : c \in {"DISABLE_DEVICE", "ENABLE_DEVICE"}}
  \cup {Gets(Fuji(c), STRUCT) :
          c \in {"GENERATE_GUID", "GET_ADAPTERCONFIG", "GET_ADAPTERCONFIG_EXTENDED"}}

(* What the FujiNet has in its slots, and its network. *)
Infos ==
  {Gets(Fuji(c), STRUCT) : c \in {"READ_DEVICE_SLOTS", "READ_HOST_SLOTS", "GET_SSID"}}
  \cup {Gets(With(Fuji(c), "A1", <<Slot>>), STRUCT) :
          c \in {"GET_DEVICE_FULLPATH", "GET_HOST_PREFIX", "GET_SCAN_RESULT"}}
  \cup {Gets(Fuji("GET_DIRECTORY_POSITION"), 2),
         Gets(Fuji("GET_WIFI_ENABLED"), 1), Gets(Fuji("GET_WIFISTATUS"), 1)}

(* Mounting, directories, saving the slots. *)
Mounts ==
  {Fuji("MOUNT_ALL"), Fuji("RESET"),
   With(Fuji("MOUNT_IMAGE"), "A1_A2", <<Slot, 2>>), With(Fuji("MOUNT_HOST"), "A1", <<Slot>>),
   Sends(With(Fuji("OPEN_DIRECTORY"), "A1", <<Slot>>), Name),
   Gets(With(Fuji("READ_DIR_ENTRY"), "A1_A2", <<STRUCT, 128>>), STRUCT)}
  \cup {Sends(Fuji(c), Name) : c \in {"WRITE_DEVICE_SLOTS", "WRITE_HOST_SLOTS"}}

Directories ==
  {Fuji("CLOSE_DIRECTORY"), With(Fuji("SET_DIRECTORY_POSITION"), "B12", <<Wide>>)}

CopyFile == Sends(With(Fuji("COPY_FILE"), "A1_A2", <<1, 2>>), Name)

ScanForNetworks(platform) == Gets(Fuji("SCAN_NETWORKS"), IF platform = "atari" THEN 4 ELSE 1)

Boots == {With(Fuji(c), "A1", <<2>>) : c \in {"CONFIG_BOOT", "SET_BOOT_MODE"}}

SetHostPrefix == Sends(With(Fuji("SET_HOST_PREFIX"), "A1", <<Slot>>), Name)

Unmounts == {With(Fuji(c), "A1", <<Slot>>) : c \in {"UNMOUNT_IMAGE", "UNMOUNT_HOST"}}

(* Input and output of the engines go by their length; how much output there
   is comes in a long. *)
Input(cmd)  == Sends(With(Fuji(cmd), "B12", <<Len(Name)>>), Name)
Output(cmd) == Gets(With(Fuji(cmd), "B12", <<STRUCT>>), STRUCT)
InLong(r)   == [Gets(r, 4) EXCEPT !.int = 4]

Base64 ==
  {Fuji("BASE64_DECODE_COMPUTE"), Input("BASE64_DECODE_INPUT"),
   InLong(Fuji("BASE64_DECODE_LENGTH")), Output("BASE64_DECODE_OUTPUT"),
   Fuji("BASE64_ENCODE_COMPUTE"), Input("BASE64_ENCODE_INPUT"),
   InLong(Fuji("BASE64_ENCODE_LENGTH")), Output("BASE64_ENCODE_OUTPUT")}

Hashes ==
  {With(Fuji("HASH_COMPUTE"), "A1", <<3>>), With(Fuji("HASH_COMPUTE_NO_CLEAR"), "A1", <<3>>),
   Input("HASH_INPUT"), Gets(With(Fuji("HASH_OUTPUT"), "A1", <<1>>), STRUCT),
   Gets(With(Fuji("HASH_LENGTH"), "A1", <<1>>), 1)}

HashClear == Fuji("HASH_CLEAR")
FujiTime  == Gets(Fuji("GET_TIME"), STRUCT)

QrCodes ==
  {Input("QRCODE_INPUT"), InLong(With(Fuji("QRCODE_LENGTH"), "A1", <<1>>)),
   Output("QRCODE_OUTPUT")}

(* An app key is opened by an identifier that begins with the creator's, in
   two bytes; what is read begins with its length.  The C64 reads app keys
   with a call of its own. *)
AppKeys(platform) ==
  {[Sends(Fuji("OPEN_APPKEY"), <<Wide, 9>>) EXCEPT !.int = 2],
   IF platform \in FixedLen
   THEN Sends(With(Fuji("WRITE_APPKEY"), "B12", <<Len(Name)>>), Name)
   ELSE Sends(Fuji("WRITE_APPKEY"), Name)}
  \cup
  IF platform = "c64"
  THEN {[Gets(Sends(Fuji("OPEN_APPKEY"), <<creator, 9>>), 4) EXCEPT !.op = "readkey", !.int = 2] :
          creator \in {0, Wide}}
  ELSE {[Gets(Fuji("READ_APPKEY"), 4) EXCEPT !.op = "appkey", !.int = 2]}

SetDeviceFilename(platform) ==
  IF platform = "atari"
  THEN Sends(With(Fuji("SET_DEVICE_FULLPATH"), "A1_A2", <<Slot, 16 * 3 + 2>>), Name)
  ELSE Sends(With(Fuji("SET_DEVICE_FULLPATH"), "A1_A2_A3", <<Slot, 3, 2>>), Name)

QrEncode(platform) ==
  IF platform = "atari"
  THEN With(Fuji("QRCODE_ENCODE"), "A1_A2", <<7, 16 * 1 + 2>>)
  ELSE With(Fuji("QRCODE_ENCODE"), "A1_A2_A3", <<7, 2, 1>>)

(* The RS232 handler requires the parameter; others would shift the data. *)
SetSsid(platform) ==
  IF platform \in {"msdos", "msx"}
  THEN Sends(With(Fuji("SET_SSID"), "A1", <<0>>), Name)
  ELSE Sends(Fuji("SET_SSID"), Name)

FujiStatus(platform) ==
  IF platform = "c64" THEN Gets(Fuji("STATUS"), 4)
  ELSE Gets(With(Fuji("STATUS"), "A1", <<0>>), 4)

AtariOnly ==
  {Gets(Fuji("HSIO_INDEX"), 1), With(Fuji("SET_HSIO_INDEX"), "A1_A2", <<8, 1>>),
   With(Fuji("SET_SIO_EXTERNAL_CLOCK"), "B12", <<Wide>>)}

FujiApi(platform) ==
  Setup \cup Infos \cup Mounts \cup Directories \cup Boots \cup Unmounts
  \cup Base64 \cup Hashes \cup QrCodes \cup AppKeys(platform)
  \cup {CopyFile, SetHostPrefix, HashClear, FujiTime, ScanForNetworks(platform),
         SetDeviceFilename(platform), QrEncode(platform), SetSsid(platform), FujiStatus(platform)}
  \cup IF platform = "atari" THEN AtariOnly ELSE {}

(***************************************************************************)
(* The clock: time zones are text, times come in seven formats.            *)
(***************************************************************************)

SetTz(platform, cmd) ==
  IF platform = "apple2" THEN Sends(Clock(cmd), Append(Name, 0))
  ELSE Sends(With(Clock(cmd), "A1_A2", <<U16_LSB(Len(Name)), U16_MSB(Len(Name))>>), Name)

TzCommands(platform) ==
  IF platform = "apple2" THEN {"SETTZ_ALT", "SETTZ_ALT2"} ELSE {"SETTZ", "SETTZ_ALT"}

ClkCommands(platform) ==
  {"SETTZ_ALT2", "GET_PRODOS", IF platform = "apple2" THEN "GET_ATARI" ELSE "GETTIME",
   "GET_ISO_LOCAL", "GET_ISO_UTC", "GET_SOS", "GET_SIMPLE_HUNDREDTHS"}

(* The Apple II asks for the alternate zone by a command in lower case. *)
Lower == [SETTZ_ALT2 |-> "SETTZ_ALT", GET_PRODOS |-> "GET_PRODOS_ALT", GET_ATARI |-> "GET_ATARI_ALT",
          GET_ISO_LOCAL |-> "GET_ISO_LOCAL_ALT", GET_ISO_UTC |-> "GET_ISO_UTC_ALT",
          GET_SOS |-> "GET_SOS_ALT", GET_SIMPLE_HUNDREDTHS |-> "m"]

GetTime(platform, cmd, alt) ==
  IF platform = "apple2" THEN Gets(Clock(IF alt THEN Lower[cmd] ELSE cmd), STRUCT)
  ELSE Gets(With(Clock(cmd), "A1", <<IF alt THEN 1 ELSE 0>>), STRUCT)

ClockApi(platform) ==
  {SetTz(platform, c) : c \in TzCommands(platform)}
  \cup {GetTime(platform, c, alt) : c \in ClkCommands(platform), alt \in BOOLEAN}
  \cup {Gets(Clock("GETTZ_LEN"), 1), Gets(Clock("GET_GENERAL"), STRUCT)}

(***************************************************************************)
(* A network device.                                                       *)
(***************************************************************************)

network_open(unit)         == Sends(With(Net("OPEN", unit), "A1_A2", <<12, 3>>), Name)
network_close(unit)        == Net("CLOSE", unit)
network_accept(unit)       == Net("ACCEPT", unit)
network_close_client(unit) == Net("CLOSE_CLIENT", unit)

(* Some machines look for these values in aux1, some in aux2. *)
InBoth(cmd, unit, value) == With(Net(cmd, unit), "A1_A2", <<value, value>>)

network_set_parser(unit)         == InBoth("SET_PARSER", unit, 3)
network_set_translation(unit)    == InBoth("TRANSLATION", unit, 3)
network_set_interrupt_rate(unit) == InBoth("SET_INT_RATE", unit, 100)

network_html_parse(unit)    == Net("PARSE", unit)
network_set_parameter(unit) == With(Net("SET_PARAMETER", unit), "A1_A2", <<1, 155>>)

(* To the body, to the headers, to the data to post. *)
network_http_set_mode(unit) ==
  {With(Net("SET_HTTP_MODE", unit), "A1_A2", <<0, mode>>) : mode \in {0, 3, 4}}

network_fs_command(cmd, unit) == Sends(With(Net(cmd, unit), "A1_A2", <<0, 0>>), Name)
network_set_username(unit)    == network_fs_command("USERNAME", unit)
network_set_password(unit)    == network_fs_command("PASSWORD", unit)

FileSystem(unit) ==
  {network_fs_command(c, unit) : c \in {"DELETE", "RENAME", "LOCK", "UNLOCK", "MKDIR", "RMDIR"}}
  \cup {Sends(Net("CHDIR", unit), Name), Gets(Net("GETCWD", unit), STRUCT)}

(* The status begins with the bytes waiting. *)
network_status(unit)         == [Gets(Net("STATUS", unit), 4) EXCEPT !.int = 2]
network_udp_get_remote(unit) == Gets(Net("GET_REMOTE", unit), STRUCT)

(* A position is told in four bytes, over SIO in three. *)
network_tell_common(unit)    == Gets(Net("TELL", unit), 4)
network_tell_atari(unit)     == Gets(Net("TELL", unit), 3)
network_tell(platform, unit) ==
  IF platform = "atari" THEN network_tell_atari(unit) ELSE network_tell_common(unit)

(* These go by the length of their string. *)
network_set_eol(unit)             == [Sends(Net("SET_EOL", unit), Name) EXCEPT !.op = "vld"]
network_udp_set_destination(unit) == [Sends(Net("SET_DESTINATION", unit), Name) EXCEPT !.op = "vld"]

network_seek(unit) ==
  {[Net("SEEK", unit) EXCEPT !.op = "seek", !.args = <<pos>>] : pos \in {131844, 16909060}}

(* The bus calls of network_read() and network_write(), module NetworkIO. *)
Streams(unit) ==
  {[Gets(Net("READ", unit), n) EXCEPT !.op = "read"] : n \in {1, 3}}
  \cup {[Sends(Net("WRITE", unit), Name) EXCEPT !.op = "write"]}

UnitApi(platform, unit) ==
  {network_open(unit), network_close(unit), network_accept(unit), network_close_client(unit),
   network_set_parser(unit), network_set_translation(unit), network_set_interrupt_rate(unit),
   network_html_parse(unit), network_set_parameter(unit), network_set_username(unit),
   network_set_password(unit), network_status(unit), network_udp_get_remote(unit),
   network_tell(platform, unit), network_set_eol(unit), network_udp_set_destination(unit)}
  \cup network_http_set_mode(unit) \cup FileSystem(unit) \cup network_seek(unit) \cup Streams(unit)

NetApi(platform) == UNION {UnitApi(platform, u) : u \in 1..LastUnit}

Requests(platform) == FujiApi(platform) \cup ClockApi(platform) \cup NetApi(platform)

=============================================================================
