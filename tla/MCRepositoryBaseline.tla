------------------------ MODULE MCRepositoryBaseline ------------------------
(***************************************************************************)
(* RepositoryBaseline on two branches, two settings and two findings that  *)
(* the shipped rules block when they are new: redaction leaves the text of *)
(* one alone, and changes that of the other.                               *)
(*                                                                         *)
(* MCSpec makes two instances of one: the button, pushes and policies on a *)
(* repository whose text needs no redaction; and the redacted finding,     *)
(* which only a judgement looks at, where nobody pushes, presses or        *)
(* protects another branch.  A scan finds one thing at most.               *)
(***************************************************************************)
EXTENDS RepositoryBaseline, TLC

Plain  == [identity |-> "plain", recomputed |-> "plain", severity |-> "high"]
Secret == [identity |-> "secret", recomputed |-> "redacted", severity |-> "high"]
High   == {Plain, Secret}

Shipped == <<[severity |-> {"high"}, lifecycle |-> {"new", "reopened"}, decision |-> "block"],
             [severity |-> {"high"}, lifecycle |-> {"persistent"}, decision |-> "review"]>>

OneOrOther == {{b} : b \in Branches}

Both == {"managed", "actions"}

Calm ==
    /\ head = 1
    /\ policy.branches = {Main}
    /\ \A p \in Presses : press[p] = Idle

MCNext ==
    /\ Next
    /\ \A g \in Ids :
         \/ gates'[g].findings \in {{}, {Plain}}
         \/ gates'[g].findings = {Secret} /\ Calm'

MCSpec == Init /\ [][MCNext]_vars

Symmetry == Permutations(Presses) \cup Permutations(Scans)
=============================================================================
