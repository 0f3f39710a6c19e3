----------------------------- MODULE MCFujiBus -----------------------------
(***************************************************************************)
(* Constants for checking FujiBus: calls that read up to two bytes, and a  *)
(* device that may answer with fewer or more than it was asked for.        *)
(***************************************************************************)
EXTENDS FujiBus

MCPayloadLens == {1, 2}

MCAnswerLens == {0, 1, 2}

\* fewer lengths for three calls: a reply that fits, is too long, or too short
MCTwo == {2}

MCNoneOrTwo == {0, 2}
=============================================================================
