---------------------------- MODULE MCNetworkIO ----------------------------
(***************************************************************************)
(* Constants for checking NetworkIO: an int16_t of three bits and lengths   *)
(* it holds.                                                               *)
(***************************************************************************)
EXTENDS NetworkIO

MCLens == 0..3
=============================================================================
