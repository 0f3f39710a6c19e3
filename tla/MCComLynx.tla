----------------------------- MODULE MCComLynx -----------------------------
(* ComLynx on small instances. *)
EXTENDS ComLynx

\* packets of one and two bytes, and one that does not fit
MCRequests ==
  {[len |-> 2, reply |-> FALSE, room |-> 0], [len |-> 1, reply |-> TRUE, room |-> 2],
   [len |-> 4, reply |-> FALSE, room |-> 0]}

\* replies up to one byte longer than was asked for, bytes that look like
\* lengths and like an ACK
MCReplies == {<<>>, <<6, 6>>, <<0, 1, 6>>}

MCNoise == {0, 3, 6}
=============================================================================
