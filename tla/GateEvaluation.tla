--------------------------- MODULE GateEvaluation ---------------------------
(***************************************************************************)
(* The decision of a gate: packages/gate-core (evaluate.ts, baseline.ts),  *)
(* the pure functions that both executors call.  A list whose order no     *)
(* result depends on is a set.  A finding is an identity and a severity;   *)
(* the wording and the summaries are left out.  The findings of a baseline *)
(* come with the identity that storedIdentity gives them, which depends on *)
(* what the caller handed over (BaselineFindings of RepositoryBaseline).   *)
(*                                                                         *)
(* The input of an evaluation is a record with the fields                  *)
(*   changed    : BOOLEAN, whether the change touches a file;              *)
(*   current    : the findings of the scan;                                *)
(*   baseline   : [kind, findings], kind one of "absent", "comparable",    *)
(*                "unavailable", "incompatible";                           *)
(*   historical : findings seen before the baseline;                       *)
(*   falsePositives : the identities triaged so;                           *)
(*   rules      : a sequence of [severity, lifecycle, decision];           *)
(*   exceptions : a set of [identity, from, until, branches, rules];       *)
(*   branch, now.                                                          *)
(***************************************************************************)
EXTENDS Integers, Sequences

Identities(findings) == {f.identity : f \in findings}

\* What the scan found, against what the baseline and the history knew.
LifecycleOf(f, input) ==
    IF f.identity \in Identities(input.baseline.findings) THEN "persistent"
    ELSE IF f.identity \in Identities(input.historical) THEN "reopened"
    ELSE "new"

\* With no baseline every finding is new; of a baseline, what is gone is fixed.
ClassifyGateFindings(input) ==
    IF input.baseline.kind = "absent"
    THEN {[finding |-> f, lifecycle |-> "new"] : f \in input.current}
    ELSE {[finding |-> f, lifecycle |-> LifecycleOf(f, input)] : f \in input.current}
           \cup {[finding |-> f, lifecycle |-> "fixed"] :
                   f \in {b \in input.baseline.findings :
                            b.identity \notin Identities(input.current)}}

\* The deltas the policy looks at.
Judged(input) ==
    {d \in ClassifyGateFindings(input) :
       /\ d.lifecycle # "fixed"
       /\ d.finding.identity \notin input.falsePositives}

\* A rule that names the severity and the lifecycle of a delta.
Matches(input, d, r) ==
    /\ d.finding.severity \in input.rules[r].severity
    /\ d.lifecycle \in input.rules[r].lifecycle

\* An exception of the finding, in its interval, for the branch or for the rule.
Excepted(input, d, r) ==
    \E e \in input.exceptions :
       /\ e.identity = d.finding.identity
       /\ e.from <= input.now
       /\ input.now < e.until
       /\ input.branch \in e.branches \/ r \in e.rules

\* The rows of the decision: a delta and the rule that asks for it.
Rows(input) ==
    {h \in Judged(input) \X DOMAIN input.rules :
       Matches(input, h[1], h[2]) /\ ~Excepted(input, h[1], h[2])}

Violations(input) == {h \in Rows(input) : input.rules[h[2]].decision = "block"}
Warnings(input)   == Rows(input) \ Violations(input)

EvaluateGate(input) ==
    IF ~input.changed THEN "no_changes"
    ELSE IF input.baseline.kind \in {"unavailable", "incompatible"} THEN "error"
    ELSE IF input.baseline.kind = "absent" THEN "bootstrap"
    ELSE IF Violations(input) # {} THEN "blocked"
    ELSE IF Warnings(input) # {} THEN "warning"
    ELSE "pass"

-----------------------------------------------------------------------------
(***************************************************************************)
(* Whether the artifact of an earlier gate can be compared with: current   *)
(* is [branch, lineage] of the gate that asks (its branch is NoBranch when *)
(* the policy does not protect it), and an artifact is [target, eligible,  *)
(* branch, outcome, lineage].  The first check that fails gives the        *)
(* reason; the repository, the policy schema and the coverage are the same *)
(* for every gate of one repository that scans all of it.                  *)
(***************************************************************************)
NoBranch == "none"

\* mutant: scans with other settings are compared
IncompatibilityOfBranches(current, artifact) ==
    IF ~(artifact.target = "protected_branch" /\ artifact.eligible) THEN "publication"
    ELSE IF current.branch = NoBranch THEN "publication"
    ELSE IF artifact.outcome = "error" THEN "baseline_not_terminal"
    ELSE IF artifact.branch # current.branch THEN "protected_branch"
    ELSE "none"

Incompatibility(current, artifact) ==
    IF ~(artifact.target = "protected_branch" /\ artifact.eligible) THEN "publication"
    ELSE IF current.branch = NoBranch THEN "publication"
    ELSE IF artifact.outcome = "error" THEN "baseline_not_terminal"
    ELSE IF artifact.branch # current.branch THEN "protected_branch"
    ELSE IF artifact.lineage # current.lineage THEN "scan_lineage"
    ELSE "none"

SelectGateBaseline(current, artifact) == Incompatibility(current, artifact) = "none"
=============================================================================
