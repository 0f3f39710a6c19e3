----------------------------- MODULE MCMailbox -----------------------------
(***************************************************************************)
(* Constants for checking Mailbox: a read with a one-byte parameter, a     *)
(* write with one 16-bit parameter, and a payload that only just does not  *)
(* fit behind its parameter.  The sequence byte is cut to three values so  *)
(* that a few calls wrap it.                                               *)
(***************************************************************************)
EXTENDS Mailbox

MCRead  == [nf |-> 1, nb |-> 1, data |-> FALSE, reply |-> TRUE,  len |-> 1]
MCWrite == [nf |-> 1, nb |-> 2, data |-> TRUE,  reply |-> FALSE, len |-> 2]
MCHuge  == [nf |-> 1, nb |-> 2, data |-> TRUE,  reply |-> FALSE, len |-> 6]

MCRequests == {MCRead, MCWrite, MCHuge}

MCTxMax == 8

MCReplyMax == 2

MCRxLens == {0, 3}
=============================================================================
