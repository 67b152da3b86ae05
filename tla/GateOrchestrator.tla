-------------------------- MODULE GateOrchestrator --------------------------
(***************************************************************************)
(* The gates this process runs itself (apps/api/src/gate-orchestrator.ts   *)
(* and guardrails/sentinel-managed-executor.ts), beside the scans they     *)
(* start: managed gates of GitHub targets, which carry an abort signal     *)
(* and publish, and local gates.  A task lives in the process and writes   *)
(* the gate's row after each await; requests write the same row.           *)
(***************************************************************************)
EXTENDS ScanRunner

CONSTANT Gates      \* a gate and the scan it starts bear one name

ASSUME GatesAssumption == Gates \subseteq Scans

VARIABLE gate       \* the row of each gate, and the task that runs it

vars == <<runnerVars, gate>>

NoGate == [kind |-> "none", status |-> "none", outcome |-> "none", linked |-> FALSE,
           publish |-> "none", task |-> "none", aborted |-> FALSE, seen |-> "none"]

Finished == {"completed", "cancelled", "error"}

\* The row of a gate, and its task.
GateRecord ==
    [kind    : {"none", "managed", "local"},
     status  : {"none", "resolving", "scanning", "evaluating", "publishing"} \cup Finished,
     outcome : {"none", "decision", "error"},
     linked  : BOOLEAN,        \* the row names its scan
     publish : {"none", "publishing", "published", "failed"},
     task    : {"none", "materializing", "baseline", "launching", "waiting",
                "comparing", "checking", "commenting", "releasing", "unwinding",
                "diffing", "rediffing", "watching"},
     aborted : BOOLEAN,        \* the task's signal
     seen    : {"none", "error"} \cup ActiveStatus \cup TerminalStatus]

TypeOK == RunnerTypeOK /\ gate \in [Gates -> GateRecord]

Init == RunnerInit /\ gate = [g \in Gates |-> NoGate]

Managed(g)  == gate[g].kind = "managed"
Terminal(g) == gate[g].status \in Finished

\* A step of a task that calls nothing of the runner.
Quiet == UNCHANGED runnerVars
Becomes(g, row) == gate' = [gate EXCEPT ![g] = row]

-----------------------------------------------------------------------------
\* The catch of runGate: a gate that was cancelled meanwhile is left alone.
LocalFailed(row) ==
    IF row.status = "cancelled" THEN [row EXCEPT !.task = "none"]
    ELSE [row EXCEPT !.task = "none", !.status = "error", !.outcome = "error"]

\* An exception: the executor releases the snapshot before it reaches the catch.
Failed(row) ==
    IF row.kind = "managed" THEN [row EXCEPT !.task = "unwinding"] ELSE LocalFailed(row)

\* evaluateAndComplete: one turn, and it writes over any status.
Evaluated(row) ==
    [row EXCEPT !.task = "none", !.status = "completed", !.outcome = "decision"]

\* runGate once its scan ended.
LocalEnds(g, answer) ==
    LET row == gate[g]
    IN  \/ /\ row.status = "cancelled"
           /\ Becomes(g, [row EXCEPT !.task = "none"])
        \/ /\ row.status # "cancelled" /\ answer = "completed"
           /\ \/ Becomes(g, Evaluated(row))
              \/ Becomes(g, LocalFailed(row))
        \/ /\ row.status # "cancelled" /\ answer # "completed"
           /\ Becomes(g, LocalFailed(row))

\* The hook "finalize": the artifact and the outcome are durable before the
\* check and the comment are awaited.
Finalized(g, row, outcome) ==
    \/ /\ row.status = "cancelled"
       /\ Becomes(g, Failed(row))
    \/ /\ row.status # "cancelled"
       /\ \/ Becomes(g, [row EXCEPT !.status = "publishing", !.publish = "publishing",
                            !.outcome = outcome, !.task = "checking"])
          \/ Becomes(g, [row EXCEPT !.status = "evaluating", !.outcome = outcome,
                            !.task = "commenting"])
          \/ Becomes(g, Failed([row EXCEPT !.status = "evaluating"]))

\* Mutant: what a scan found is evaluated however the scan ended.
DecisionOfAnyScan(answer) == IF answer = "failed" THEN "error" ELSE "decision"

\* #artifact: only a completed scan is evaluated.
DecisionOf(answer) == IF answer = "completed" THEN "decision" ELSE "error"

\* startScan is called in this turn; it throws at once in a drain, or when the
\* gate's signal is aborted.
ScanCalled(g, row) ==
    \/ /\ phase # "draining" /\ ~row.aborted
       /\ Ask(g)
       /\ Becomes(g, [row EXCEPT !.task = "launching"])
    \/ /\ phase = "draining" \/ row.aborted
       /\ Quiet
       /\ Becomes(g, Failed(row))

-----------------------------------------------------------------------------
\* startLocalGate and startRemoteManagedGate: the row, and the task up to its
\* first await.
StartGate(g) ==
    /\ phase = "serving" /\ gate[g].kind = "none"
    /\ \/ Becomes(g, [NoGate EXCEPT !.kind = "managed", !.status = "resolving",
                                    !.task = "materializing"])
       \/ Becomes(g, [NoGate EXCEPT !.kind = "local", !.status = "resolving",
                                    !.task = "diffing"])
    /\ Quiet

\* execute, after the snapshot: an incomplete one, or one without changes, is
\* finalized without a scan; a protected branch needs no baseline.
Materialized(g) ==
    /\ gate[g].task = "materializing"
    /\ \/ Becomes(g, Failed(gate[g])) /\ Quiet
       \/ /\ ~gate[g].aborted
          /\ \/ Finalized(g, gate[g], "error") /\ Quiet
             \/ Finalized(g, gate[g], "decision") /\ Quiet
             \/ Becomes(g, [gate[g] EXCEPT !.task = "baseline"]) /\ Quiet
             \/ ScanCalled(g, gate[g])

\* The baseline is read before money is spent.
BaselineRead(g) ==
    /\ gate[g].task = "baseline"
    /\ \/ Becomes(g, Failed(gate[g])) /\ Quiet
       \/ Finalized(g, gate[g], "error") /\ Quiet
       \/ ScanCalled(g, gate[g])

\* startScan returned: the hook "scanStarted", or the update of runGate, is in
\* the same turn as the spawn.
ScanStarted(g) ==
    /\ gate[g].task = "launching"
    /\ Spawned(g)
    /\ ~gate[g].aborted
    /\ Becomes(g, [gate[g] EXCEPT !.linked = TRUE, !.task = "waiting",
                      !.status = IF Managed(g) THEN "scanning" ELSE @])

ScanRefused(g) ==
    /\ gate[g].task = "launching"
    /\ LaunchRefused(g)
    /\ Becomes(g, Failed(gate[g]))

\* waitForScan answers.
ScanAnswered(g) ==
    /\ gate[g].task = "waiting" /\ scan[g].answer # "none"
    /\ Quiet
    /\ LET row == gate[g]
           answer == scan[g].answer
       IN  \/ ~Managed(g) /\ LocalEnds(g, answer)
           \/ /\ Managed(g)
              /\ row.aborted \/ answer = "error"
              /\ Becomes(g, Failed(row))
           \/ /\ Managed(g)
              /\ ~row.aborted /\ answer # "error"
              /\ \/ Becomes(g, [row EXCEPT !.task = "comparing", !.seen = answer])
                 \/ Finalized(g, row, DecisionOf(answer))

\* The baseline is read again for the lineage the scan turned out to have.
Compared(g) ==
    /\ gate[g].task = "comparing"
    /\ Quiet
    /\ \/ Becomes(g, Failed(gate[g]))
       \/ Finalized(g, gate[g], "error")
       \/ Finalized(g, gate[g], DecisionOf(gate[g].seen))

\* The check's own status may fail to be persisted.
Checked(g) ==
    /\ gate[g].task = "checking"
    /\ Quiet
    /\ \/ \E answer \in {"published", "failed"} :
            Becomes(g, [gate[g] EXCEPT !.publish = answer, !.task = "commenting"])
       \/ Becomes(g, Failed(gate[g]))

Commented(g) ==
    /\ gate[g].task = "commenting"
    /\ Becomes(g, [gate[g] EXCEPT !.task = "releasing"])
    /\ Quiet

\* runRemoteManagedGate, once execute returned.
Completed(row) ==
    [row EXCEPT !.task = "none", !.status = IF @ = "cancelled" THEN @ ELSE "completed"]

\* Mutant of Unwound: an exception is an error, whatever was decided before it.
UnwoundToError(row) ==
    IF row.status = "cancelled" THEN [row EXCEPT !.task = "none"]
    ELSE [row EXCEPT !.task = "none", !.status = "error", !.outcome = "error"]

\* Its catch: an outcome that is durable is the truth about the change.
Unwound(row) ==
    IF row.status # "cancelled" /\ row.outcome # "none" THEN Completed(row)
    ELSE LocalFailed(row)

SnapshotReleased(g) ==
    /\ gate[g].task = "releasing"
    /\ \E ended \in {Completed(gate[g]), Unwound(gate[g])} : Becomes(g, ended)
    /\ Quiet

CatchReached(g) ==
    /\ gate[g].task = "unwinding"
    /\ Becomes(g, Unwound(gate[g]))
    /\ Quiet

-----------------------------------------------------------------------------
\* runGate after resolveChangeSet: nothing asks what became of the gate.
Diffed(g) ==
    /\ gate[g].task = "diffing"
    /\ \/ Becomes(g, LocalFailed(gate[g])) /\ Quiet
       \/ Becomes(g, Evaluated(gate[g])) /\ Quiet
       \/ ScanCalled(g, [gate[g] EXCEPT !.status = "scanning"])

\* The same for a task that subscribeGate started again.
Rediffed(g) ==
    /\ gate[g].task = "rediffing"
    /\ \/ Becomes(g, LocalFailed(gate[g]))
       \/ Becomes(g, Evaluated(gate[g]))
       \/ /\ scan[g].status = "running"
          /\ Becomes(g, [gate[g] EXCEPT !.task = "watching"])
    /\ Quiet

\* The detached watch ends with any status but "running", the queue included.
WatchEnds(g) ==
    /\ gate[g].task = "watching" /\ scan[g].status # "running"
    /\ LocalEnds(g, scan[g].status)
    /\ Quiet

CancelGate(g) ==
    /\ phase = "serving" /\ gate[g].kind # "none" /\ ~Terminal(g)
    /\ IF gate[g].linked THEN scan' = [scan EXCEPT ![g] = Cancelled(g)] ELSE UNCHANGED scan
    /\ Becomes(g, [gate[g] EXCEPT !.status = "cancelled",
                      !.aborted = Managed(g) /\ gate[g].task # "none"])
    /\ UNCHANGED <<phase, update, ends>>

\* isScanActive
ScanActive(g) == scan[g].handle = "active" \/ Active(g)

\* Mutant: only the end of a scan that completed is projected on its gate.
OrphanOfCompleted(g) ==
    /\ gate[g].status = "scanning" /\ gate[g].linked /\ gate[g].task = "none"
    /\ scan[g].status = "completed"

\* A gate whose task is gone and whose scan has ended.
Orphan(g) ==
    /\ gate[g].status = "scanning" /\ gate[g].linked /\ gate[g].task = "none"
    /\ ~ScanActive(g)

\* reconcileGateWithLinkedScan, on each read.  No artifact is on disk before
\* the status leaves "scanning".
ReadGate(g) ==
    /\ phase = "serving"
    /\ Orphan(g)
    /\ Becomes(g, IF scan[g].status = "cancelled"
                  THEN [gate[g] EXCEPT !.status = "cancelled"]
                  ELSE [gate[g] EXCEPT !.status = "error", !.outcome = "error"])
    /\ Quiet

\* subscribeGate: the task of a local gate is started again; a managed one has
\* no path, and its task ends at once.
SubscribeGate(g) ==
    /\ phase = "serving" /\ ~Managed(g)
    /\ gate[g].status = "scanning" /\ gate[g].linked /\ gate[g].task = "none"
    /\ ScanActive(g)
    /\ Becomes(g, [gate[g] EXCEPT !.task = "rediffing"])
    /\ Quiet

\* The tasks and their signals die with the process.
TasksGone ==
    gate' = [g \in Gates |-> [gate[g] EXCEPT !.task = "none", !.aborted = FALSE,
                                            !.seen = "none"]]

TaskStep(g) ==
    \/ Materialized(g) \/ BaselineRead(g) \/ ScanStarted(g) \/ ScanRefused(g)
    \/ ScanAnswered(g) \/ Compared(g) \/ Checked(g) \/ Commented(g)
    \/ SnapshotReleased(g) \/ CatchReached(g)
    \/ Diffed(g) \/ Rediffed(g) \/ WatchEnds(g)

\* A scan that somebody starts without a gate.
RequestScan(s) == phase = "serving" /\ Ask(s)

Next ==
    \/ \E s \in Scans : (ScanStep(s) \/ Reserved(s)) /\ UNCHANGED gate
    \/ \E s \in Scans \ Gates :
         (RequestScan(s) \/ Spawned(s) \/ LaunchRefused(s)) /\ UNCHANGED gate
    \/ ServerStep /\ UNCHANGED gate
    \/ (Exit \/ Crash) /\ TasksGone
    \/ \E g \in Gates :
         StartGate(g) \/ TaskStep(g) \/ CancelGate(g) \/ ReadGate(g) \/ SubscribeGate(g)

Spec == Init /\ [][Next]_vars

\* Awaits end, workers end, the loop of index.ts goes on, a supervisor starts
\* the server again, and somebody looks at the gates.
GateFairness ==
    /\ RunnerFairness
    /\ \A s \in Scans : WF_runnerVars(Reserved(s) \/ LaunchRefused(s) \/ Spawned(s))
    /\ \A g \in Gates : WF_vars(TaskStep(g)) /\ WF_vars(ReadGate(g))

FairSpec == Spec /\ GateFairness

-----------------------------------------------------------------------------
\* A managed gate decides on a scan only if the scan completed: not on what an
\* interrupted, failed or cancelled one left behind.
DecisionNeedsScan ==
    \A g \in Gates :
        Managed(g) /\ gate[g].linked /\ gate[g].outcome = "decision"
            => scan[g].status = "completed"

\* The outcome of a managed gate, once its row has it, is neither changed nor
\* lost: not by the check, the comment, the release, a cancellation, a crash or
\* a later read.  And a gate that ended never moves again, whichever await its
\* task was in when it was cancelled.
ManagedEndsForGood ==
    [][\A g \in Gates : Managed(g) =>
        /\ gate[g].outcome # "none" => gate'[g].outcome = gate[g].outcome
        /\ Terminal(g) => gate'[g].status = gate[g].status]_vars

\* A gate ends, or its process died in a phase that no scan stands for: the
\* projection of the scan reaches every other gate.
Stranded(g) ==
    /\ gate[g].task = "none" /\ gate[g].kind # "none" /\ ~Terminal(g)
    /\ gate[g].status = "scanning" => ~gate[g].linked
GateEnds == \A g \in Gates : gate[g].kind # "none" ~> (Terminal(g) \/ Stranded(g))

\* A cancelled gate stays cancelled, without a decision (2026-08-07 design:
\* "Processo cancelado: `cancelled`, sem decisão").
CancelledGateStays ==
    [][\A g \in Gates : gate[g].status = "cancelled" => gate'[g].status = "cancelled"]_vars

\* Nothing is started for a gate that was cancelled (portable-graph-recovery:
\* "Explicit cancellations and terminal errors are not auto-restarted").
CancelledGateStartsNothing ==
    [][\A g \in Gates : gate[g].status = "cancelled" =>
        scan'[g].resumed <= scan[g].resumed]_vars
=============================================================================
