----------------------------- MODULE MCHostBus -----------------------------
(***************************************************************************)
(* Constants for checking HostBus.  Pages have eight bytes.                *)
(***************************************************************************)
EXTENDS HostBus

AllPlatforms == {"apple2", "atari", "c64", "msdos", "msx", "coco", "pmd85"}

(* A hard disk in front of a FujiNet, an old FujiNet, none. *)
MCBuses ==
  {<<<<"fuji", "net", "clock">>, <<"disk">>>>,
   <<<<>>, <<"disk0", "net">>>>,
   <<<<"disk">>, <<>>>>}

Machine(h, p, r, i) == [hokvld |-> h, published |-> p, rom |-> r, inits |-> i]

(* Installed, kept from its INIT by another ROM, a ROM that does not install,
   another extended BIOS only. *)
MCMachines ==
  {Machine(TRUE, TRUE, TRUE, TRUE), Machine(FALSE, FALSE, TRUE, TRUE),
   Machine(TRUE, FALSE, TRUE, FALSE), Machine(TRUE, FALSE, FALSE, FALSE)}

(* A cartridge, a short and a long program under MSX-DOS, programs with a
   stack elsewhere, and one with a buffer across pages. *)
MCMemories ==
  {[buffer |-> 25, block |-> 3, stack |-> 3],
   [buffer |-> 2, block |-> 0, stack |-> 3],
   [buffer |-> 9, block |-> 1, stack |-> 3],
   [buffer |-> 16, block |-> 1, stack |-> 3],
   [buffer |-> 25, block |-> 3, stack |-> 2],
   [buffer |-> 9, block |-> 1, stack |-> 2],
   [buffer |-> 25, block |-> 1, stack |-> 2],
   [buffer |-> 6, block |-> 0, stack |-> 3]}
=============================================================================
