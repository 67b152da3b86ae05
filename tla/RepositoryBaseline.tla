------------------------- MODULE RepositoryBaseline -------------------------
(***************************************************************************)
(* The baseline of one repository of GitHub: the gates that build it and   *)
(* the gates that are compared with it, on the two executors, and the row  *)
(* with the one word the console reads for it                              *)
(* (apps/api/src/guardrails/baseline-state.ts).  The row is a projection   *)
(* of the gates and of the policy, rewritten by those who change either;   *)
(* the comparison never reads it, except to name a workflow run.           *)
(*                                                                         *)
(* A gate is numbered in the order of its start, the order in which the    *)
(* gates are listed.  Its task, its scan and its workflow run are those of *)
(* GateOrchestrator and ActionsGate; here it starts and it ends.           *)
(***************************************************************************)
EXTENDS GateEvaluation

CONSTANTS
    MaxGates,       \* bound: gates ever started
    Branches, Main, \* refs of the repository, and its default branch
    Bases,          \* those that changes are compared with
    Protections,    \* the sets of branches a policy may protect
    Planes,         \* the executors in use
    Scans,          \* settings a managed scan may be run with
    Findings,       \* what a scan may find: records [identity, recomputed, severity],
                    \* recomputed being the identity of its published, redacted text
    Rules,          \* the rules of the policy
    Presses,        \* requests "build the baseline now" that may overlap
    MaxHead         \* bound: commits pushed on the default branch

FileScan == "file"      \* on Actions the scan is set by the repository's own file

ASSUME BaselineAssumption ==
    /\ MaxGates \in Nat
    /\ MaxHead \in Nat \ {0}
    /\ Main \in Branches
    /\ Bases \subseteq Branches
    /\ {Main} \in Protections
    /\ Protections \subseteq (SUBSET Branches) \ {{}}
    /\ Planes \subseteq {"managed", "actions"}
    /\ FileScan \notin Scans
    /\ NoBranch \notin Branches
    /\ 0 \notin Presses

VARIABLES
    gates,      \* the rows of the gates, by number
    started,    \* how many were started
    policy,     \* the branches the stored policy protects, and what a managed scan
                \* runs with (the policy's settings, or those an action sets)
    head,       \* the newest commit of the default branch
    row,        \* the baseline row
    press       \* the requests under way

vars == <<gates, started, policy, head, row, press>>

Ids == 1..MaxGates

Terminal == {"completed", "cancelled", "error"}
Outcomes == {"none", "no_changes", "bootstrap", "blocked", "warning", "pass", "error"}
Words    == {"absent", "building", "ready", "stale"}
Reasons  == {"none", "protected_branch", "scan_lineage", "baseline_artifact_expired"}

NoGate == [shape |-> "none", plane |-> "managed", branch |-> Main, eligible |-> FALSE,
           lineage |-> FileScan, head |-> 0, pressed |-> FALSE, from |-> 0,
           status |-> "running", outcome |-> "none", artifact |-> "none",
           compared |-> 0, findings |-> {}, deleted |-> FALSE]

Absent == [word |-> "absent", gate |-> 0, branch |-> NoBranch, reason |-> "none"]
Idle   == [at |-> "idle", branch |-> Main, plane |-> "managed", gate |-> 0]

TypeOK ==
    /\ gates \in [Ids ->
         [shape    : {"none", "branch", "change"},
          plane    : {"managed", "actions"},
          branch   : Branches,               \* the ref, or the base of a change
          eligible : BOOLEAN,                \* the policy of its preview protects it
          lineage  : Scans \cup {FileScan},
          head     : 0..MaxHead,
          pressed  : BOOLEAN,                \* its dispatch key is the button's
          from     : 0..MaxGates,            \* the baseline run its dispatch names
          status   : {"running", "cancelling"} \cup Terminal,
          outcome  : Outcomes,               \* of the gate's row
          artifact : Outcomes,               \* of the artifact its executor wrote
          compared : 0..MaxGates,
          findings : SUBSET Findings,
          deleted  : BOOLEAN]]
    /\ started \in 0..MaxGates
    /\ policy \in [branches : Protections, scan : Scans]
    /\ head \in 1..MaxHead
    /\ row \in [word : Words, gate : 0..MaxGates, branch : Branches \cup {NoBranch},
                reason : Reasons]
    /\ press \in [Presses -> [at : {"idle", "preflight", "dispatching"},
                              branch : Branches, plane : {"managed", "actions"},
                              gate : 0..MaxGates]]

Init ==
    /\ gates = [g \in Ids |-> NoGate]
    /\ started = 0
    /\ policy \in [branches : {{Main}}, scan : Scans]
    /\ head = 1
    /\ row = Absent
    /\ press = [p \in Presses |-> Idle]

-----------------------------------------------------------------------------
\* protectedBranchOf: the default branch when the policy lists it.
ProtectedBranch(pol) ==
    IF Main \in pol.branches THEN Main ELSE CHOOSE b \in pol.branches : TRUE

Listed(gs)    == {g \in Ids : gs[g].shape # "none" /\ ~gs[g].deleted}
BranchGates(gs) == {g \in Listed(gs) : gs[g].shape = "branch"}

Newest(set) == CHOOSE g \in set : \A h \in set : h <= g

\* runningBaselineGate, and the check of the button.
BuildRunning(gs) == \E g \in BranchGates(gs) : gs[g].status \notin Terminal

\* newestBaselineGate: one on the protected branch wins, whatever its artifact says.
Candidates(gs) ==
    {g \in BranchGates(gs) : gs[g].status = "completed" /\ gs[g].outcome # "error"}
Candidate(gs, pol) ==
    LET on == {g \in Candidates(gs) : gs[g].branch = ProtectedBranch(pol)}
    IN  IF on # {} THEN Newest(on)
        ELSE IF Candidates(gs) # {} THEN Newest(Candidates(gs)) ELSE 0

\* derive, for the gates and the policy after the change that calls for it.
Derived(gs, pol) ==
    LET c == Candidate(gs, pol)
        named(word, reason) ==
            [word |-> word, gate |-> c, branch |-> gs[c].branch, reason |-> reason]
    IN  IF c = 0 THEN IF row.word = "building" /\ BuildRunning(gs) THEN row ELSE Absent
        ELSE IF row.word = "stale" /\ row.gate = c THEN named("stale", row.reason)
        ELSE IF gs[c].branch # ProtectedBranch(pol) THEN named("stale", "protected_branch")
        ELSE named("ready", "none")

\* markRepositoryBaselineStale
MarkedStale(base, reason) ==
    IF base.word \in {"absent", "building"} THEN base
    ELSE [base EXCEPT !.word = "stale", !.reason = reason]

\* markRepositoryBaselineBuilding: the baseline it replaces stays on the row.
MarkedBuilding == [row EXCEPT !.word = "building"]

\* refreshRepositoryBaselineState, once the gates are gs.
Refresh(gs) == row' = Derived(gs, policy)

-----------------------------------------------------------------------------
(***************************************************************************)
(* The start of a gate freezes its preview: the policy it is judged by and *)
(* the branch it is compared on.  The policy of a run on Actions is the    *)
(* repository's file or the shipped default, which protects Main.          *)
(***************************************************************************)
Preview(shape, pl, b) ==
    [NoGate EXCEPT
       !.shape    = shape, !.plane = pl, !.branch = b,
       !.eligible = IF pl = "managed" THEN b \in policy.branches ELSE b = Main,
       !.lineage  = IF pl = "managed" THEN policy.scan ELSE FileScan]

\* The commit of a ref: only the default branch moves.
Commit(b) == IF b = Main THEN head ELSE 0

Begin(gate) ==
    /\ started < MaxGates
    /\ started' = started + 1
    /\ gates' = [gates EXCEPT ![started + 1] = gate]

\* baselineWorkflowRunId: the run of the gate a ready row names.
BaselineRun ==
    IF /\ row.word = "ready"
       /\ ~gates[row.gate].deleted
       /\ gates[row.gate].plane = "actions"
    THEN row.gate ELSE 0

\* A push on the default branch, or an operator's gate on any ref.
StartBranchGate(b, pl) ==
    /\ Begin(Preview("branch", pl, b))
    /\ UNCHANGED <<policy, head, row, press>>

\* A pull request or a comparison into b.
StartChangeGate(b, pl) ==
    /\ Begin([Preview("change", pl, b) EXCEPT
                !.from = IF pl = "actions" THEN BaselineRun ELSE 0])
    /\ UNCHANGED <<policy, head, row, press>>

-----------------------------------------------------------------------------
(***************************************************************************)
(* "Build the baseline now".  The check for a running build is followed by *)
(* awaits (the ref, the policy and the capability of the executor, for the *)
(* preview and for its acceptance), and on Actions the dispatch is another *)
(* one.  The row says building after the gate exists.                      *)
(***************************************************************************)
PressBuild(p, pl) ==
    /\ press[p].at = "idle"
    /\ ~BuildRunning(gates)
    /\ press' = [press EXCEPT ![p] = [Idle EXCEPT !.at = "preflight", !.plane = pl,
                                        !.branch = ProtectedBranch(policy)]]
    /\ UNCHANGED <<gates, started, policy, head, row>>

Answered(p) == press' = [press EXCEPT ![p] = Idle]

PreviewRefused(p) ==
    /\ press[p].at = "preflight"
    /\ Answered(p)
    /\ UNCHANGED <<gates, started, policy, head, row>>

\* The gate is inserted and the row written in one turn.
BuildManaged(p) ==
    /\ press[p].at = "preflight" /\ press[p].plane = "managed"
    /\ Begin(Preview("branch", "managed", press[p].branch))
    /\ row' = MarkedBuilding
    /\ Answered(p)
    /\ UNCHANGED <<policy, head>>

\* The dispatch of an earlier press at the same commit.
SameKey(b) ==
    {g \in Listed(gates) :
       gates[g].pressed /\ gates[g].branch = b /\ gates[g].head = Commit(b)}

BuildOnActions(p) ==
    LET b == press[p].branch
    IN  /\ press[p].at = "preflight" /\ press[p].plane = "actions"
        /\ SameKey(b) = {}
        /\ Begin([Preview("branch", "actions", b) EXCEPT
                    !.pressed = TRUE, !.head = Commit(b), !.from = BaselineRun])
        /\ press' = [press EXCEPT ![p].at = "dispatching", ![p].gate = started + 1]
        /\ UNCHANGED <<policy, head, row>>

\* The gate of that dispatch is the answer, whatever became of it.
BuildReused(p) ==
    /\ press[p].at = "preflight" /\ press[p].plane = "actions"
    /\ SameKey(press[p].branch) # {}
    /\ row' = MarkedBuilding
    /\ Answered(p)
    /\ UNCHANGED <<gates, started, policy, head>>

\* Accepted, or no definite refusal.  A gate deleted meanwhile is an exception.
Dispatched(p) ==
    /\ press[p].at = "dispatching"
    /\ row' = IF gates[press[p].gate].deleted THEN row ELSE MarkedBuilding
    /\ Answered(p)
    /\ UNCHANGED <<gates, started, policy, head>>

-----------------------------------------------------------------------------
\* #fail of the Actions executor: only a gate that is not being cancelled ends.
ActionsFailed(gate) ==
    IF gate.status = "running"
    THEN [gate EXCEPT !.status = "error", !.outcome = "error"] ELSE gate

DispatchRejected(p) ==
    /\ press[p].at = "dispatching"
    /\ gates' = [gates EXCEPT ![press[p].gate] = ActionsFailed(@)]
    /\ Answered(p)
    /\ UNCHANGED <<started, policy, head, row>>

Live(g, pl) == gates[g].shape # "none" /\ gates[g].plane = pl

\* A gate on a managed executor ends: each end refreshes the row.
Settle(g, gate) ==
    /\ gates' = [gates EXCEPT ![g] = gate]
    /\ Refresh(gates')
    /\ UNCHANGED <<started, policy, head, press>>

Completed(gate, outcome) ==
    [gate EXCEPT !.status = "completed", !.outcome = outcome, !.artifact = outcome]

ManagedFails(g) ==
    /\ Live(g, "managed") /\ gates[g].status = "running"
    /\ \E status \in {"error", "cancelled"} :
          Settle(g, [gates[g] EXCEPT !.status = status,
                       !.outcome = IF status = "error" THEN "error" ELSE "none"])

\* A scan that failed, or read less than the repository, still leaves an artifact.
ManagedErrs(g) ==
    /\ Live(g, "managed") /\ gates[g].status = "running"
    /\ Settle(g, Completed(gates[g], "error"))

\* A gate of the branch judges nothing: its findings are the baseline.
BuildCompletes(g, found) ==
    /\ gates[g].shape = "branch" /\ gates[g].status = "running"
    /\ Settle(g, [Completed(gates[g], "bootstrap") EXCEPT !.findings = found])

-----------------------------------------------------------------------------
\* What a gate was previewed to be compared on.
Context(gate) ==
    [branch  |-> IF gate.plane = "managed" /\ ~gate.eligible THEN NoBranch ELSE gate.branch,
     lineage |-> gate.lineage]

Artifact(gate) ==
    [target |-> "protected_branch", eligible |-> gate.eligible, branch |-> gate.branch,
     outcome |-> gate.artifact, lineage |-> gate.lineage]

\* managedBaselineCandidate, read when the scan has ended: an incompatible gate
\* does not hide an older one that can be compared with.
ManagedBaseline(gate) ==
    LET comparable == {b \in BranchGates(gates) :
                         /\ gates[b].status = "completed"
                         /\ gates[b].branch = Context(gate).branch
                         /\ SelectGateBaseline(Context(gate), Artifact(gates[b]))}
    IN  IF comparable = {} THEN 0 ELSE Newest(comparable)

\* On Actions, the artifact of the run the dispatch named, unless it expired.
ActionsBaseline(gate, expired) ==
    IF gate.from = 0 \/ expired THEN 0
    ELSE IF SelectGateBaseline(Context(gate), Artifact(gates[gate.from])) THEN gate.from
    ELSE 0

\* findingSummary of the CLI leaves out the identity that the artifact stored, and
\* the evaluation (storedIdentity) makes one of what was published.
FindingSummary(f) == [identity |-> f.recomputed, severity |-> f.severity]

\* The findings of an artifact as each executor hands them to the evaluation.
BaselineFindings(gate, known) ==
    IF gate.plane = "managed" THEN known ELSE {FindingSummary(f) : f \in known}

\* The artifact of a change whose scan found these; 0 is no baseline.
Evaluation(gate, changed, found, base) ==
    LET input == [changed |-> changed, current |-> found, historical |-> {},
                  baseline |-> IF base = 0 THEN [kind |-> "absent", findings |-> {}]
                               ELSE [kind     |-> "comparable",
                                     findings |-> BaselineFindings(gate, gates[base].findings)],
                  falsePositives |-> {}, rules |-> Rules, exceptions |-> {},
                  branch |-> gate.branch, now |-> 0]
    IN  [Completed(gate, EvaluateGate(input)) EXCEPT !.compared = base, !.findings = found]

ChangeJudged(g, changed, found) ==
    LET base == IF changed THEN ManagedBaseline(gates[g]) ELSE 0
    IN  /\ Live(g, "managed") /\ gates[g].shape = "change" /\ gates[g].status = "running"
        /\ ~changed => found = {}
        /\ Settle(g, Evaluation(gates[g], changed, found, base))

-----------------------------------------------------------------------------
(***************************************************************************)
(* A run on Actions ends.  Only an import that completes the gate touches  *)
(* the row: a failure and a confirmed cancellation do not refresh it.      *)
(***************************************************************************)
RunFails(g) ==
    /\ Live(g, "actions") /\ gates[g].status = "running"
    /\ gates' = [gates EXCEPT ![g] = ActionsFailed(@)]
    /\ UNCHANGED <<started, policy, head, row, press>>

CancelRequested(g) ==
    /\ Live(g, "actions") /\ gates[g].status = "running"
    /\ gates' = [gates EXCEPT ![g].status = "cancelling"]
    /\ UNCHANGED <<started, policy, head, row, press>>

CancelConfirmed(g) ==
    /\ Live(g, "actions") /\ gates[g].status = "cancelling"
    /\ gates' = [gates EXCEPT ![g].status = "cancelled"]
    /\ UNCHANGED <<started, policy, head, row, press>>

RunErrs(g) ==
    /\ Live(g, "actions") /\ gates[g].status = "running"
    /\ Settle(g, Completed(gates[g], "error"))

\* import of the artifact of a change: a bootstrap is refused, as the artifact of
\* an older caller; the notice of an expired baseline marks the row that is there.
ImportChange(g, changed, found, expired) ==
    LET gate == gates[g]
        base == IF changed THEN ActionsBaseline(gate, expired) ELSE 0
        end  == Evaluation(gate, changed, found, base)
    IN  /\ Live(g, "actions") /\ gate.shape = "change" /\ gate.status = "running"
        /\ expired => gate.from # 0
        /\ ~changed => found = {}
        /\ IF end.artifact = "bootstrap"
           THEN /\ gates' = [gates EXCEPT ![g] =
                              [end EXCEPT !.status = "error", !.outcome = "error"]]
                /\ UNCHANGED row
           ELSE /\ gates' = [gates EXCEPT ![g] = end]
                /\ row' = IF expired
                          THEN MarkedStale(Derived(gates', policy), "baseline_artifact_expired")
                          ELSE Derived(gates', policy)
        /\ UNCHANGED <<started, policy, head, press>>

-----------------------------------------------------------------------------
\* mutant: the policy is saved without the refresh
PutPolicyAlone(branches, scan) ==
    /\ policy' = [branches |-> branches, scan |-> scan]
    /\ row' = IF scan # policy.scan THEN MarkedStale(row, "scan_lineage") ELSE row
    /\ UNCHANGED <<gates, started, head, press>>

\* putSentinelPolicy: the refresh first, then the mark of other settings.
PutPolicy(branches, scan) ==
    LET pol  == [branches |-> branches, scan |-> scan]
        next == Derived(gates, pol)
    IN  /\ policy' = pol
        /\ row' = IF scan # policy.scan THEN MarkedStale(next, "scan_lineage") ELSE next
        /\ UNCHANGED <<gates, started, head, press>>

\* updateGitHubAction with another scanner.
EditScanner(scan) ==
    /\ scan # policy.scan
    /\ policy' = [policy EXCEPT !.scan = scan]
    /\ row' = MarkedStale(row, "scan_lineage")
    /\ UNCHANGED <<gates, started, head, press>>

\* deleteTerminalGate: its artifact and its dispatch go with it; the row stays.
DeleteGate(g) ==
    /\ g \in Listed(gates) /\ gates[g].status \in Terminal
    /\ gates' = [gates EXCEPT ![g].deleted = TRUE]
    /\ UNCHANGED <<started, policy, head, row, press>>

PushCommit ==
    /\ head < MaxHead
    /\ head' = head + 1
    /\ UNCHANGED <<gates, started, policy, row, press>>

-----------------------------------------------------------------------------
Building == \E p \in Presses :
    \/ \E pl \in Planes : PressBuild(p, pl)
    \/ PreviewRefused(p) \/ BuildManaged(p) \/ BuildOnActions(p) \/ BuildReused(p)
    \/ Dispatched(p) \/ DispatchRejected(p)

Ending == \E g \in Ids :
    \/ ManagedFails(g) \/ ManagedErrs(g)
    \/ RunFails(g) \/ CancelRequested(g) \/ CancelConfirmed(g) \/ RunErrs(g)
    \/ \E found \in SUBSET Findings :
         \/ BuildCompletes(g, found)
         \/ \E changed \in BOOLEAN :
              \/ ChangeJudged(g, changed, found)
              \/ \E expired \in BOOLEAN : ImportChange(g, changed, found, expired)

Next ==
    \/ Building \/ Ending \/ PushCommit
    \/ \E b \in Branches, pl \in Planes : StartBranchGate(b, pl)
    \/ \E b \in Bases, pl \in Planes : StartChangeGate(b, pl)
    \/ \E branches \in Protections, scan \in Scans : PutPolicy(branches, scan)
    \/ \E scan \in Scans : EditScanner(scan)
    \/ \E g \in Ids : DeleteGate(g)

Spec == Init /\ [][Next]_vars

-----------------------------------------------------------------------------
(* SAFETY *)

\* A row that says ready names the newest gate of the branch the policy protects,
\* however late and in whatever order gates end, policies change and gates of
\* either executor fail; unless the gate it names was deleted since.
ReadyIsNewest ==
    (row.word = "ready" /\ ~gates[row.gate].deleted) =>
        /\ row.branch = ProtectedBranch(policy)
        /\ row.gate = Candidate(gates, policy)

\* A baseline found stale is not called ready again by a refresh: it takes another
\* gate, or somebody who asks for a build.
StaleIsSticky ==
    [][row.word = "stale" /\ row'.word = "ready" => row'.gate # row.gate]_vars

\* While no gate of the branch ran on Actions, building stands for one that runs:
\* every failure, cancellation and deletion of a managed build takes it back.
ManagedBuildHasARun ==
    (row.word = "building" /\ \A g \in Ids : gates[g].shape = "branch" => gates[g].plane = "managed")
        => BuildRunning(gates)

\* What the console reads of the baseline is true of the gates, in the order they
\* really ended.
RowIsTrue == ReadyIsNewest /\ ManagedBuildHasARun

\* What a gate is sure to know again of its baseline: on Actions, the findings that
\* redaction left their identity.
Recognized(gate, known) ==
    {f \in known : gate.plane = "managed" \/ f.recomputed = f.identity}

\* A change is blocked only on the proof of a baseline of its own base branch, run
\* with the same settings, that did not have one of its findings; or, on Actions,
\* had it with a text that redaction changed, see NoKnownFindingBlocks.
BlockedOnProof ==
    \A g \in Ids : gates[g].outcome = "blocked" =>
        LET base  == gates[gates[g].compared]
            known == Recognized(gates[g], base.findings)
        IN  /\ gates[g].compared # 0
            /\ base.shape = "branch"
            /\ base.branch = gates[g].branch
            /\ base.lineage = gates[g].lineage
            /\ ~(Identities(gates[g].findings) \subseteq Identities(known))

-----------------------------------------------------------------------------
(* WHAT THE DOCUMENTS SAY *)

\* A change with nothing to be compared with is judged bootstrap, not an error
\* (gate-cli/src/run.test.ts:250 and the design).
NoBaselineIsNoError ==
    \A g \in Ids : gates[g].artifact = "bootstrap" => gates[g].status # "error"

\* A finding the baseline has is persistent, so it is not what blocks a change:
\* recomputing its identity "would turn a persistent finding into a new one plus a
\* fixed one" (gate-core/src/evaluate.ts:16).  The CLI has it recomputed.
NoKnownFindingBlocks ==
    \A g \in Ids : gates[g].outcome = "blocked" =>
        ~(Identities(gates[g].findings)
            \subseteq Identities(gates[gates[g].compared].findings))

\* The word building has a run behind it (app.ts, baseline-state.ts:218).
BuildingHasARun == row.word = "building" => BuildRunning(gates)

\* A press that starts a build finds none running: pressing twice does not buy two
\* scans of the whole repository (app.ts:610).
OneBuildAtATime ==
    [][\A p \in Presses : BuildManaged(p) => ~BuildRunning(gates)]_vars
=============================================================================
