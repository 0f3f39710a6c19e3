----------------------------- MODULE MCAdamNet -----------------------------
(***************************************************************************)
(* Constants for checking AdamNet: reads into buffers shorter and longer   *)
(* than a packet of two bytes, and each of the functions built on the bus. *)
(***************************************************************************)
EXTENDS AdamNet

Request(k, n) == [kind |-> k, len |-> n, sendable |-> TRUE]

MCCalls == {Request("send", 0), Request("read", 1), Request("read", 2),
            Request("key", 1), Request("scan", 1), Request("query", 2), Request("copy", 0),
            [Request("send", 3) EXCEPT !.sendable = FALSE],
            [Request("copy", 0) EXCEPT !.sendable = FALSE]}

MCCallsAndReset == MCCalls \cup {Request("reset", 0)}

MCCopies == {Request("copy", 0)}

MCWaits == {0, 2}
=============================================================================
