------------------------- MODULE MCGateOrchestrator -------------------------
(***************************************************************************)
(* Small instances of GateOrchestrator.                                    *)
(*                                                                         *)
(* The initial states of MCSpec make two of one: a gate with its scan,     *)
(* where whoever else asked was refused; and a gate that was cancelled     *)
(* before its scan, with one end of the process behind it, beside two      *)
(* scans that compete for the slot.  A gate reads nothing of the scans of  *)
(* others but whether a slot is free for its own, which may be refused in  *)
(* the first instance by the update of an engine.                          *)
(***************************************************************************)
EXTENDS GateOrchestrator

CONSTANT Spent      \* the scans that have no restart left

\* The scan of a gate has both restarts before it, the others one or none.
Restarts == [s \in Scans |-> IF s \in Gates THEN 2 ELSE IF s \in Spent THEN 0 ELSE 1]

Refused   == [NoScan EXCEPT !.launch = "refused"]
Abandoned == [NoGate EXCEPT !.kind = "managed", !.status = "cancelled"]

MCInit ==
    /\ phase = "serving" /\ update = "none"
    /\ \/ /\ scan = [s \in Scans |-> IF s \in Gates THEN NoScan ELSE Refused]
          /\ gate = [g \in Gates |-> NoGate]
          /\ ends = 0
       \/ /\ scan = [s \in Scans |-> NoScan]
          /\ gate = [g \in Gates |-> Abandoned]
          /\ ends = MaxEnds - 1

MCSpec == MCInit /\ [][Next]_vars /\ GateFairness
=============================================================================
