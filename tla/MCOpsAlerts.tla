----------------------------- MODULE MCOpsAlerts -----------------------------
(***************************************************************************)
(* A small instance of OpsAlerts.  A window is longer than a grace period,  *)
(* and a probe may outlive a unit of time, so that a sample can be older    *)
(* than the row it is compared with.                                        *)
(*                                                                         *)
(* The initial states make two instances of one: the host and a connection  *)
(* that fail and heal, beside gates that are gone; and a gate that publishes, *)
(* on a host that stays up without a connection.  The rows of different      *)
(* targets meet only in the probe, the switch and the pass, which both have. *)
(***************************************************************************)
EXTENDS OpsAlerts

GatesGone == \A g \in Gates : ~gate[g].exists /\ gate[g].check = "none"

MCInit ==
  /\ Init
  /\ GatesGone <=> \A c \in Connections : connection[c] = "ready"

\* The host fails where no gate publishes.
MCNext == Next /\ (GatesGone \/ UNCHANGED engine)

MCSpec ==
  /\ MCInit /\ [][MCNext]_vars
  /\ WF_vars(TickStarts) /\ SF_vars(PassEnds({})) /\ WF_vars(ClockTick)
=============================================================================
