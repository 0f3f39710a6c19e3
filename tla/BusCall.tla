------------------------------ MODULE BusCall ------------------------------
(***************************************************************************)
(* What fuji_bus_call() promises the layers above it, whatever the wire    *)
(* underneath: the caller has one call outstanding at a time, the FujiNet  *)
(* device carries each call out at most once (perhaps after the caller has *)
(* given up on it), and a call that returns true was carried out and       *)
(* answered with the answer to that very call.  A call may always fail.    *)
(*                                                                         *)
(* The bus modules (Mailbox, FujiBus) are checked to implement this under  *)
(* the conditions stated with each of their runs.                          *)
(***************************************************************************)
EXTENDS Naturals

CONSTANT MaxCalls      \* bound: calls the application makes

VARIABLES
  phase,     \* "idle": the application runs; "busy": inside fuji_bus_call
  cur,       \* number of the current (or last) call; 0 before the first
  served,    \* how often the device has carried each call out
  outcome    \* what the last call returned, and whose answer it carried

busVars == <<phase, cur, served, outcome>>

CallIds == 1..MaxCalls

NoOutcome == [call |-> 0, ok |-> FALSE, seen |-> {}]

BusInit ==
  /\ phase = "idle"
  /\ cur = 0
  /\ served = [c \in CallIds |-> 0]
  /\ outcome = NoOutcome

(* The application makes its next call. *)
Begin ==
  /\ phase = "idle"
  /\ cur < MaxCalls
  /\ phase' = "busy"
  /\ cur' = cur + 1
  /\ UNCHANGED <<served, outcome>>

(* The device carries out a call it has not carried out before. *)
Serve ==
  /\ \E c \in 1..cur : served[c] = 0 /\ served' = [served EXCEPT ![c] = 1]
  /\ UNCHANGED <<phase, cur, outcome>>

(* The call returns true: carried out, and answered by its own answer. *)
Succeed ==
  /\ phase = "busy"
  /\ served[cur] = 1
  /\ phase' = "idle"
  /\ outcome' = [call |-> cur, ok |-> TRUE, seen |-> {cur}]
  /\ UNCHANGED <<cur, served>>

(* The call returns false. *)
Fail ==
  /\ phase = "busy"
  /\ phase' = "idle"
  /\ outcome' = [NoOutcome EXCEPT !.call = cur]
  /\ UNCHANGED <<cur, served>>

BusNext == Begin \/ Serve \/ Succeed \/ Fail

BusSpec == BusInit /\ [][BusNext]_busVars
=============================================================================
