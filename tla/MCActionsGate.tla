--------------------------- MODULE MCActionsGate ---------------------------
(***************************************************************************)
(* ActionsGate on one gate.                                                *)
(***************************************************************************)
EXTENDS ActionsGate, TLC
=============================================================================
