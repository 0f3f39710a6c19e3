------------------------------ MODULE FileOps ------------------------------
(***************************************************************************)
(* fuji_file_stat and fuji_copy_file_common: a copy the FujiNet may take   *)
(* longer for than the bus waits, so that the program polls for its end    *)
(* and then judges it by the sizes of the two files.                       *)
(***************************************************************************)
EXTENDS OpSteps

CONSTANTS
  MAX_COPY_RETRIES,
  Sizes             \* sizes of files

ASSUME FileAssumption == MAX_COPY_RETRIES \in Nat \ {0} /\ Sizes \subseteq Nat \ {0}

(* The host slots the application names are one more than the hosts the
   directory commands name.  Each host has a file of the name the application
   asks for, or has not, and another file. *)
Hosts == {0, 1}
NoFile == [size |-> 0, text |-> 0]
Files == [size : Sizes, text : Hosts] \cup {NoFile}

EndOfDir == [name |-> "eof", size |-> 0]
Entry(name, file) == [name |-> name, size |-> file.size]

FilesOff(fs) ==
  [fs |-> fs, mounted |-> {}, copying |-> <<>>,  \* the copy being made: from, to
   dir |-> <<>>, dirOpen |-> FALSE]              \* entries still to be read

(***************************************************************************)
(* Scripts.                                                                *)
(***************************************************************************)

(* fuji_file_stat: the result of mounting the host is not looked at. *)
StatScript(host) ==
  <<Try("MOUNT_HOST", host), Must("OPEN_DIRECTORY", host), Try("READ_DIR_ENTRY", None)>>

CopyScript(o) == <<Try("COPY_FILE", <<o.src, o.dest>>)>>

FileScript(o) == IF o.name = "file_stat" THEN StatScript(o.host) ELSE CopyScript(o)

FileOperations ==
  [name : {"copy_file"}, src : {1, 2}, dest : {1, 2}] \cup [name : {"file_stat"}, host : Hosts]

(***************************************************************************)
(* The FujiNet, outside src/: it answers nothing while it copies.          *)
(***************************************************************************)

Copied(d, from, to) == [d EXCEPT !.fs[to] = d.fs[from], !.copying = <<>>]

(* A copy is made, is cut short, or does not even touch the old file. *)
CopyEnd(d) ==
  LET from == d.copying[1]
      to   == d.copying[2]
  IN {Copied(d, from, to), [d EXCEPT !.copying = <<>>],
      [d EXCEPT !.fs[to] = NoFile, !.copying = <<>>]}

CopyHandle(c, d) ==
  LET started == [d EXCEPT !.copying = <<c.arg[1] - 1, c.arg[2] - 1>>]
  IN IF d.fs[c.arg[1] - 1] = NoFile
     THEN {Refused(d)}
     ELSE {Done(Copied(started, c.arg[1] - 1, c.arg[2] - 1), None), Refused(started)}

DirHandle(c, d) ==
  CASE c.cmd = "MOUNT_HOST"     -> Done([d EXCEPT !.mounted = @ \cup {c.arg}], None)
    [] c.cmd = "OPEN_DIRECTORY" ->
         IF c.arg \notin d.mounted THEN Refused(d)
         ELSE Done([d EXCEPT !.dirOpen = TRUE,
                             !.dir = <<Entry("other", [size |-> 9])>> \o
                                     (IF d.fs[c.arg] = NoFile THEN <<>>
                                      ELSE <<Entry("file", d.fs[c.arg])>>)], None)
    [] c.cmd = "READ_DIR_ENTRY" ->
         IF ~d.dirOpen THEN Refused(d)
         ELSE IF d.dir = <<>> THEN Done(d, EndOfDir)
         ELSE Done([d EXCEPT !.dir = Tail(@)], Head(d.dir))
    [] c.cmd = "CLOSE_DIRECTORY" -> Done([d EXCEPT !.dirOpen = FALSE, !.dir = <<>>], None)
    [] c.cmd = "STATUS"          -> Done(d, None)

FileHandle(c, d) ==
  IF d.copying # <<>> THEN {Refused(d)}
  ELSE IF c.cmd = "COPY_FILE" THEN CopyHandle(c, d)
  ELSE {DirHandle(c, d)}

FileCmds == {"COPY_FILE", "STATUS", "MOUNT_HOST", "OPEN_DIRECTORY", "READ_DIR_ENTRY",
             "CLOSE_DIRECTORY"}

(***************************************************************************)
(* What the program makes of an answer.                                    *)
(***************************************************************************)

(* Mutant: the size of the source is read through the pointer to the one
   entry there is, after the second stat. *)
SourceSizeAliased(mem) == mem.entry.size

(* The size is copied: both stats return the same static entry. *)
SourceSize(mem) == mem.size

SizesAgree(mem) == mem.entry.size = SourceSize(mem)

(* The entry read is the one asked for: the loop has found its file. *)
Found(ok, mem) == ok /\ mem.entry.name = "file"

(* Mutant: the end of the directory is not looked for. *)
LoopEndsNoEof(ok, mem) == ~ok \/ mem.entry.name = "file"

(* The end of the directory, or a call that fails, ends the loop too. *)
LoopEnds(ok, mem) == ~ok \/ mem.entry.name \in {"file", "eof"}

FileKeep(c, ok, reply, mem) ==
  CASE c.cmd = "READ_DIR_ENTRY" ->
         LET m == IF ok THEN [mem EXCEPT !.entry = reply] ELSE mem
         IN {[m EXCEPT !.ok = Found(ok, m)]}
    [] c.cmd = "CLOSE_DIRECTORY" /\ mem.step = "source" -> {[mem EXCEPT !.size = mem.entry.size]}
    [] c.cmd = "CLOSE_DIRECTORY" /\ mem.step = "dest"   -> {[mem EXCEPT !.ok = @ /\ SizesAgree(mem)]}
    [] c.cmd = "STATUS" /\ ~ok   -> {[mem EXCEPT !.retries = @ + 1]}
    [] OTHER -> {mem}

(* A STATUS answered at once, or never, means that the copy has failed. *)
GivesUp(ok, mem) ==
  IF ok THEN mem.retries = 0 ELSE mem.retries >= MAX_COPY_RETRIES

StatRest(c, ok, mem, rest) ==
  IF c.cmd # "READ_DIR_ENTRY" THEN rest
  ELSE IF LoopEnds(ok, mem) THEN <<Try("CLOSE_DIRECTORY", None)>>
  ELSE <<Try("READ_DIR_ENTRY", None)>>

(* What the copy does next, its step and whether it has succeeded so far. *)
CopyRest(c, ok, o, mem, rest) ==
  CASE c.cmd = "COPY_FILE" /\ ~ok -> [todo |-> <<Try("STATUS", None)>>, step |-> "poll", ok |-> FALSE]
    [] c.cmd = "STATUS" ->
         IF GivesUp(ok, mem) THEN [todo |-> <<>>, step |-> "poll", ok |-> FALSE]
         ELSE IF ok THEN [todo |-> StatScript(o.src - 1), step |-> "source", ok |-> FALSE]
         ELSE [todo |-> <<Try("STATUS", None)>>, step |-> "poll", ok |-> FALSE]
    [] c.cmd = "CLOSE_DIRECTORY" /\ mem.ok /\ mem.step = "source" ->
         [todo |-> StatScript(o.dest - 1), step |-> "dest", ok |-> FALSE]
    [] OTHER -> [todo |-> StatRest(c, ok, mem, rest), step |-> mem.step, ok |-> mem.ok]
=============================================================================
