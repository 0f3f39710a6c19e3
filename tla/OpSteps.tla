------------------------------ MODULE OpSteps ------------------------------
(***************************************************************************)
(* The operations of common/ are short scripts of bus calls to a FujiNet   *)
(* that keeps state between them.  A step of a script is one bus call: the *)
(* command, its argument, and whether the operation gives up (must) or     *)
(* goes on when the call fails.                                            *)
(***************************************************************************)
EXTENDS Naturals, Sequences

None == "none"

(* if (!FUJICALL(...)) return false; *)
Must(cmd, arg) == [cmd |-> cmd, arg |-> arg, must |-> TRUE]

(* A call whose result the operation does not return on. *)
Try(cmd, arg) == [cmd |-> cmd, arg |-> arg, must |-> FALSE]

(* What the FujiNet may do with a call: its state after it, whether it
   acknowledges the call, and its reply. *)
Done(d, reply)  == [dev |-> d, ok |-> TRUE, reply |-> reply]
Refused(d)      == [dev |-> d, ok |-> FALSE, reply |-> None]
=============================================================================
