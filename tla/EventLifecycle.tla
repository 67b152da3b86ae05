--------------------------- MODULE EventLifecycle ---------------------------
(***************************************************************************)
(* What the GitHub automation promises about one event, whoever acts on it: *)
(* the statuses it may go through, and that a paid gate is created for it   *)
(* at most once, only while it holds a reservation (or after its row was    *)
(* deleted from under the launch).  A transaction may move several events.  *)
(***************************************************************************)
EXTENDS Naturals

CONSTANT EventIds

VARIABLES
  status,   \* status[r]: "absent" before it is recorded, "gone" once deleted
  charges   \* charges[r]: gates created for r

lifecycleVars == <<status, charges>>

Terminal == {"observed", "launched", "skipped", "failed", "superseded"}

\* The heads a first reconciliation observed are there from the start.
Init ==
  /\ status \in [EventIds -> {"absent", "observed"}]
  /\ charges = [r \in EventIds |-> 0]

Stays(r) == status'[r] = status[r] /\ charges'[r] = charges[r]

Recorded(r) ==
  /\ status[r] = "absent"
  /\ status'[r] \in {"observed", "queued", "skipped"}
  /\ charges'[r] = charges[r]

Retired(r) ==
  /\ status[r] = "queued"
  /\ status'[r] \in {"skipped", "superseded"}
  /\ charges'[r] = charges[r]

Reserved(r) ==
  /\ status[r] = "queued"
  /\ status'[r] = "dispatching"
  /\ charges'[r] = charges[r]

\* Only a reservation nothing was launched on can be given back or skipped.
Released(r) ==
  /\ status[r] = "dispatching"
  /\ charges[r] = 0
  /\ status'[r] \in {"queued", "skipped"}
  /\ charges'[r] = 0

Charged(r) ==
  /\ status[r] = "dispatching"
  /\ charges[r] = 0
  /\ charges'[r] = 1
  /\ status'[r] = status[r]

Launched(r) ==
  /\ status[r] = "dispatching"
  /\ charges[r] = 1
  /\ status'[r] = "launched"
  /\ charges'[r] = 1

Failed(r) ==
  /\ status[r] = "dispatching"
  /\ status'[r] = "failed"
  /\ charges'[r] = charges[r]

\* Deleting an action deletes its events, whatever they are doing.
Erased(r) ==
  /\ status'[r] = "gone"
  /\ charges'[r] = charges[r]

Moves(r) ==
  \/ Stays(r)    \/ Recorded(r) \/ Retired(r)  \/ Reserved(r) \/ Released(r)
  \/ Charged(r)  \/ Launched(r) \/ Failed(r)   \/ Erased(r)

Next == \A r \in EventIds : Moves(r)

Spec == Init /\ [][Next]_lifecycleVars
=============================================================================
