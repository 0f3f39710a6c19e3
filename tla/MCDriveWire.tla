---------------------------- MODULE MCDriveWire ----------------------------
(* DriveWire with the smallest counts at which bytes get out of step: two
   calls, one of the faults of each kind, and two timeouts to a resend. *)
EXTENDS DriveWire

AllPlatforms == {"coco", "becker", "pmd85"}
OnlyPMD85 == {"pmd85"}
TwoLengths == {0, 1, 2}
=============================================================================
