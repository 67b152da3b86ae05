---------------------------- MODULE ActionsGate ----------------------------
(***************************************************************************)
(* A gate run by GitHub Actions (apps/api/src/guardrails/                  *)
(* github-actions-executor.ts and actions-artifact-importer.ts): the       *)
(* workflow is dispatched once, found again by its run name, polled, its   *)
(* artifact imported, and cancelled on request.  Every call to GitHub is   *)
(* an await: the model keeps which one each gate waits in, and what was    *)
(* read before it.                                                         *)
(***************************************************************************)
EXTENDS Integers, FiniteSets

CONSTANTS
    Gates,          \* idempotency keys: one gate, at most, for each
    Eligible,       \* the gates whose verdict may be published
    MaxStarts,      \* bound: start calls with one key
    MaxAttempts,    \* bound: attempts of a run, re-runs on GitHub included
    MaxCrashes      \* bound: deaths of the process

ASSUME GatesAssumption ==
    /\ Eligible \subseteq Gates
    /\ MaxStarts \in Nat \ {0}
    /\ MaxAttempts \in Nat \ {0}
    /\ MaxCrashes \in Nat

VARIABLES
    gate,       \* gate_runs
    dispatch,   \* github_actions_dispatches
    artifact,   \* github_actions_artifacts: the state of the gate's row
    posting,    \* start() waits for the answer to its dispatch
    poll,       \* where #reconcileGate waits, and the dispatch it has read
    up,         \* the process runs
    remote,     \* GitHub: the dispatch requests, the run, its artifact, its check
    overdue,    \* the correlation window of the gate has passed
    calls,      \* start calls made
    crashes

rows == <<gate, dispatch, artifact>>
server == <<posting, poll, up>>
vars == <<rows, server, remote, overdue, calls, crashes>>

OpenStatus     == {"resolving", "scanning", "cancelling"}
TerminalStatus == {"completed", "error", "cancelled"}
TerminalState  == {"completed", "failed", "cancelled"}
States == {"none", "dispatch_requested", "dispatch_accepted", "correlating",
           "running", "artifact_pending"} \cup TerminalState
Awaits == {"listing", "getting", "cancelling", "artifacts", "downloading", "counting"}

NoGate     == [status |-> "none", outcome |-> "none", of |-> 0, publish |-> "none"]
NoDispatch == [state |-> "none", attempt |-> 0, error |-> "none"]
Idle       == [at |-> "idle", attempt |-> 0, error |-> "none", pick |-> 0]
NoRemote   == [posts |-> 0, request |-> "none", run |-> "none", attempt |-> 0,
               late |-> FALSE, stop |-> FALSE, made |-> 0, valid |-> FALSE, check |-> FALSE]

GateRow ==
    [status  : {"none"} \cup OpenStatus \cup TerminalStatus,
     outcome : {"none", "verdict", "error"},
     of      : 0 .. MaxAttempts,
     publish : {"none", "waiting", "not_configured", "published", "failed"}]

DispatchRow ==
    [state : States, attempt : 0 .. MaxAttempts, error : {"none", "requested", "other"}]

Pass ==
    [at      : {"idle"} \cup Awaits,
     attempt : 0 .. MaxAttempts,
     error   : {"none", "requested", "other"},
     pick    : 0 .. MaxAttempts]

RemoteRun ==
    [posts   : Nat,
     request : {"none", "sent", "taken", "refused"},
     run     : {"none", "active", "success", "cancelled"},
     attempt : 0 .. MaxAttempts,
     late    : BOOLEAN,     \* it started after the correlation window
     stop    : BOOLEAN,     \* it was asked to stop
     made    : 0 .. MaxAttempts,    \* the attempt whose artifact there is
     valid   : BOOLEAN,     \* that artifact matches its digest and its schema
     check   : BOOLEAN]     \* the workflow published its check

\* The type invariant.
TypeOK ==
    /\ gate \in [Gates -> GateRow]
    /\ dispatch \in [Gates -> DispatchRow]
    /\ artifact \in [Gates -> {"none", "pending", "validated", "rejected"}]
    /\ posting \in [Gates -> BOOLEAN]
    /\ poll \in [Gates -> Pass]
    /\ up \in BOOLEAN
    /\ remote \in [Gates -> RemoteRun]
    /\ overdue \in [Gates -> BOOLEAN]
    /\ calls \in [Gates -> 0 .. MaxStarts]
    /\ crashes \in 0 .. MaxCrashes

Init ==
    /\ gate = [g \in Gates |-> NoGate]
    /\ dispatch = [g \in Gates |-> NoDispatch]
    /\ artifact = [g \in Gates |-> "none"]
    /\ posting = [g \in Gates |-> FALSE]
    /\ poll = [g \in Gates |-> Idle]
    /\ up = TRUE
    /\ remote = [g \in Gates |-> NoRemote]
    /\ overdue = [g \in Gates |-> FALSE]
    /\ calls = [g \in Gates |-> 0]
    /\ crashes = 0

Exists(g)   == dispatch[g].state # "none"
Terminal(g) == gate[g].status \in TerminalStatus
Ended(g)    == remote[g].run \in {"success", "cancelled"}

-----------------------------------------------------------------------------
\* #fail: a pending cancellation outlives the failure, anything else is an
\* error, whatever it was before.
Fail(g) ==
    \/ /\ gate[g].status = "cancelled"
       /\ UNCHANGED <<gate, dispatch>>
    \/ /\ gate[g].status = "cancelling"
       /\ dispatch' = [dispatch EXCEPT ![g].error = "other"]
       /\ UNCHANGED gate
    \/ /\ gate[g].status \notin {"cancelled", "cancelling"}
       /\ gate' = [gate EXCEPT ![g].status = "error", ![g].outcome = "error"]
       /\ dispatch' = [dispatch EXCEPT ![g].state = "failed", ![g].error = "other"]

\* Mutant: the key of a call that comes again is not looked up.
StartAgain(g) ==
    /\ up /\ calls[g] < MaxStarts /\ ~posting[g]
    /\ calls' = [calls EXCEPT ![g] = @ + 1]
    /\ gate' = [gate EXCEPT ![g].status = "resolving", ![g].publish = "waiting"]
    /\ dispatch' = [dispatch EXCEPT ![g].state = "dispatch_requested"]
    /\ posting' = [posting EXCEPT ![g] = TRUE]
    /\ remote' = [remote EXCEPT ![g].request = "sent", ![g].posts = @ + 1]
    /\ UNCHANGED <<artifact, poll, up, overdue, crashes>>

\* start(): the rows are created in one transaction, unless the key has them,
\* and the workflow is dispatched.
Start(g) ==
    /\ up /\ calls[g] < MaxStarts
    /\ calls' = [calls EXCEPT ![g] = @ + 1]
    /\ \/ /\ Exists(g)
          /\ UNCHANGED <<gate, dispatch, posting, remote>>
       \/ /\ ~Exists(g)
          /\ gate' = [gate EXCEPT ![g].status = "resolving",
                        ![g].publish = IF g \in Eligible THEN "waiting" ELSE "not_configured"]
          /\ dispatch' = [dispatch EXCEPT ![g].state = "dispatch_requested"]
          /\ posting' = [posting EXCEPT ![g] = TRUE]
          /\ remote' = [remote EXCEPT ![g].request = "sent", ![g].posts = @ + 1]
    /\ UNCHANGED <<artifact, poll, up, overdue, crashes>>

\* GitHub's answer to the dispatch, or none that says what it did.
PostAnswered(g) ==
    /\ posting[g]
    /\ posting' = [posting EXCEPT ![g] = FALSE]
    /\ \/ /\ remote[g].request = "taken"
          /\ dispatch' = [dispatch EXCEPT ![g].state = "dispatch_accepted",
                ![g].error = IF gate[g].status = "cancelling" THEN "other" ELSE "none"]
          /\ UNCHANGED gate
       \/ /\ remote[g].request = "refused"
          /\ Fail(g)
       \/ /\ dispatch' = [dispatch EXCEPT
                ![g].error = IF gate[g].status = "cancelling" THEN @ ELSE "other"]
          /\ UNCHANGED gate
    /\ UNCHANGED <<artifact, poll, up, remote, overdue, calls, crashes>>

-----------------------------------------------------------------------------
\* What follows an await of #reconcileGate leaves the rest of the state alone.
Rest == UNCHANGED <<posting, up, overdue, calls, crashes>>

WaitIn(g, place) == poll' = [poll EXCEPT ![g].at = place]
PollEnds(g)      == poll' = [poll EXCEPT ![g] = Idle]

\* The catch of #reconcileGate.
Caught(g) ==
    /\ PollEnds(g)
    /\ \/ /\ gate[g].status = "cancelling"
          /\ dispatch' = [dispatch EXCEPT ![g].error = "other"]
          /\ UNCHANGED gate
       \/ /\ gate[g].status # "cancelling"
          /\ Fail(g)

\* reconcileGate: one pass at a time for a gate, none once either row is
\* terminal.  A gate without a run looks for it, another asks how it goes.
PollStarts(g) ==
    /\ up /\ Exists(g) /\ poll[g].at = "idle"
    /\ dispatch[g].state \notin TerminalState /\ ~Terminal(g)
    /\ \/ /\ dispatch[g].attempt = 0
          /\ dispatch' = [dispatch EXCEPT ![g].state = "correlating"]
          /\ poll' = [poll EXCEPT ![g] = [Idle EXCEPT !.at = "listing"]]
       \/ /\ dispatch[g].attempt # 0
          /\ poll' = [poll EXCEPT ![g] =
                        [at |-> "getting", attempt |-> dispatch[g].attempt,
                         error |-> dispatch[g].error, pick |-> 0]]
          /\ UNCHANGED dispatch
    /\ UNCHANGED <<gate, artifact, remote>> /\ Rest

\* correlatedRuns: a run that started after the window is found by a pending
\* cancellation only.
Correlated(g) ==
    /\ remote[g].run # "none"
    /\ remote[g].late => gate[g].status = "cancelling"

\* Mutant: a gate whose run never shows waits for it.
NotFoundYet(g) == UNCHANGED <<gate, dispatch>>

\* No run carries the gate's name: too late is a failure.
NotFound(g) ==
    IF overdue[g] THEN Fail(g) ELSE UNCHANGED <<gate, dispatch>>

\* Mutant: the status read before the await is the one kept.
FoundAsRead(g) ==
    /\ gate' = [gate EXCEPT ![g].status = "scanning"]
    /\ dispatch' = [dispatch EXCEPT ![g].state = "running",
                       ![g].attempt = remote[g].attempt, ![g].error = "none"]

\* The run is found: its identity is stored, and a cancellation that came
\* while the list was read is not overwritten.
Found(g) ==
    /\ gate' = [gate EXCEPT ![g].status = IF @ = "cancelling" THEN @ ELSE "scanning"]
    /\ dispatch' = [dispatch EXCEPT ![g].state = "running",
                       ![g].attempt = remote[g].attempt, ![g].error = "none"]

ListAnswered(g) ==
    /\ poll[g].at = "listing"
    /\ \/ /\ ~Correlated(g)
          /\ NotFound(g)
          /\ PollEnds(g)
       \/ /\ Correlated(g)
          /\ Found(g)
          /\ poll' = [poll EXCEPT ![g] = [at |-> "getting", attempt |-> remote[g].attempt,
                                           error |-> "none", pick |-> 0]]
    /\ UNCHANGED <<artifact, remote>> /\ Rest

\* #reconcileCancellation: the run is over, or GitHub is asked to stop it
\* unless this pass has read that it was asked already.
CancellationSeen(g) ==
    \/ /\ Ended(g)
       /\ gate' = [gate EXCEPT ![g].status = "cancelled"]
       /\ dispatch' = [dispatch EXCEPT ![g].state = "cancelled",
             ![g].error = IF remote[g].run = "cancelled" THEN "none" ELSE "other"]
       /\ PollEnds(g)
    \/ /\ ~Ended(g)
       /\ poll[g].error # "requested"
       /\ WaitIn(g, "cancelling")
       /\ UNCHANGED <<gate, dispatch>>
    \/ /\ ~Ended(g)
       /\ poll[g].error = "requested"
       /\ dispatch' = [dispatch EXCEPT ![g].error = "requested"]
       /\ PollEnds(g)
       /\ UNCHANGED gate

\* The run polled is another attempt than the one stored: the pass fails.
GetAnswered(g) ==
    /\ poll[g].at = "getting"
    /\ \/ /\ remote[g].attempt # poll[g].attempt
          /\ Caught(g)
       \/ /\ remote[g].attempt = poll[g].attempt
          /\ gate[g].status = "cancelling"
          /\ CancellationSeen(g)
       \/ /\ remote[g].attempt = poll[g].attempt
          /\ gate[g].status # "cancelling"
          /\ dispatch' = [dispatch EXCEPT ![g].state =
                             IF Ended(g) THEN "artifact_pending" ELSE "running"]
          /\ IF Ended(g) THEN WaitIn(g, "artifacts") ELSE PollEnds(g)
          /\ UNCHANGED gate
    /\ UNCHANGED <<artifact, remote>> /\ Rest

\* GitHub takes the cancellation: the run may stop.
CancelAnswered(g) ==
    /\ poll[g].at = "cancelling"
    /\ dispatch' = [dispatch EXCEPT ![g].error = "requested"]
    /\ remote' = [remote EXCEPT ![g].stop = TRUE]
    /\ PollEnds(g)
    /\ UNCHANGED <<gate, artifact>> /\ Rest

\* The artifact of the run is reserved before it is downloaded.
ArtifactsAnswered(g) ==
    /\ poll[g].at = "artifacts"
    /\ \/ /\ remote[g].made = 0
          /\ Fail(g)
          /\ PollEnds(g)
          /\ UNCHANGED artifact
       \/ /\ remote[g].made # 0
          /\ artifact' = [artifact EXCEPT ![g] = IF @ = "none" THEN "pending" ELSE @]
          /\ poll' = [poll EXCEPT ![g].at = "downloading", ![g].pick = remote[g].made]
          /\ UNCHANGED <<gate, dispatch>>
    /\ UNCHANGED remote /\ Rest

-----------------------------------------------------------------------------
\* Mutant: any attempt's artifact is the gate's.
GenuineOfAnyAttempt(g) == remote[g].valid

\* The archive matches its digest, its schema and the identity of the gate and
\* of the attempt the dispatch stored.
Genuine(g) == remote[g].valid /\ poll[g].pick = dispatch[g].attempt

\* The importer changes no gate that is terminal or being cancelled.
Closed(g) == Terminal(g) \/ gate[g].status = "cancelling"

\* import() of an artifact that is not the gate's: rejected, and thrown.
Rejected(g) ==
    /\ artifact' = [artifact EXCEPT ![g] = "rejected"]
    /\ Caught(g)

\* import() of the artifact: the verdict and the rows' states in one
\* transaction, or the artifact alone when the gate is closed.
Imported(g) ==
    /\ artifact' = [artifact EXCEPT ![g] = "validated"]
    /\ \/ /\ Closed(g)
          /\ PollEnds(g)
          /\ UNCHANGED <<gate, dispatch>>
       \/ /\ ~Closed(g)
          /\ gate' = [gate EXCEPT ![g].status = "completed", ![g].outcome = "verdict",
                ![g].of = poll[g].pick,
                ![g].publish = IF g \in Eligible THEN "waiting" ELSE "not_configured"]
          /\ dispatch' = [dispatch EXCEPT ![g].state = "completed", ![g].error = "none"]
          /\ IF g \in Eligible THEN WaitIn(g, "counting") ELSE PollEnds(g)

\* The row is pending here: one that was validated or rejected closed its gate.
Downloaded(g) ==
    /\ poll[g].at = "downloading"
    /\ \/ ~Genuine(g) /\ Rejected(g)
       \/ Genuine(g) /\ Imported(g)
    /\ UNCHANGED remote /\ Rest

\* The check the workflow published is counted.
Counted(g) ==
    /\ poll[g].at = "counting"
    /\ gate' = [gate EXCEPT ![g].publish = IF remote[g].check THEN "published" ELSE "failed"]
    /\ PollEnds(g)
    /\ UNCHANGED <<dispatch, artifact, remote>> /\ Rest

\* A call to GitHub throws: the network, a limit, a server error.
RemoteCallFails(g) ==
    /\ poll[g].at # "idle"
    /\ Caught(g)
    /\ UNCHANGED <<artifact, remote>> /\ Rest

\* cancel(): only the intention is written, a pass carries it out.
Cancel(g) ==
    /\ up /\ Exists(g) /\ ~Terminal(g) /\ gate[g].status # "cancelling"
    /\ gate' = [gate EXCEPT ![g].status = "cancelling"]
    /\ dispatch' = [dispatch EXCEPT ![g].error = "other"]
    /\ UNCHANGED <<artifact, server, remote, overdue, calls, crashes>>

-----------------------------------------------------------------------------
\* GitHub takes the dispatch or refuses it, whether or not the caller lives.
RequestDecided(g) ==
    /\ remote[g].request = "sent"
    /\ \E r \in {"taken", "refused"} : remote' = [remote EXCEPT ![g].request = r]
    /\ UNCHANGED <<rows, server, overdue, calls, crashes>>

RunAppears(g) ==
    /\ remote[g].request = "taken" /\ remote[g].run = "none"
    /\ remote' = [remote EXCEPT ![g].run = "active", ![g].attempt = 1,
                                ![g].late = overdue[g]]
    /\ UNCHANGED <<rows, server, overdue, calls, crashes>>

\* The run ends with an artifact, good or not, or without one, with its check
\* or without.
RunEnds(g) ==
    /\ remote[g].run = "active"
    /\ \/ \E valid, check \in BOOLEAN :
            remote' = [remote EXCEPT ![g].run = "success", ![g].made = remote[g].attempt,
                                     ![g].valid = valid, ![g].check = check]
       \/ remote' = [remote EXCEPT ![g].run = IF remote[g].stop THEN "cancelled" ELSE "success"]
    /\ UNCHANGED <<rows, server, overdue, calls, crashes>>

\* Somebody runs the workflow again on GitHub.
RunsAgain(g) ==
    /\ Ended(g) /\ remote[g].attempt < MaxAttempts
    /\ remote' = [remote EXCEPT ![g].run = "active", ![g].stop = FALSE,
                                ![g].attempt = @ + 1]
    /\ UNCHANGED <<rows, server, overdue, calls, crashes>>

WindowPasses(g) ==
    /\ Exists(g) /\ ~overdue[g]
    /\ overdue' = [overdue EXCEPT ![g] = TRUE]
    /\ UNCHANGED <<rows, server, remote, calls, crashes>>

\* The process dies: what it awaited is gone, the rows stay.
Crash ==
    /\ up /\ crashes < MaxCrashes
    /\ up' = FALSE
    /\ crashes' = crashes + 1
    /\ posting' = [g \in Gates |-> FALSE]
    /\ poll' = [g \in Gates |-> Idle]
    /\ UNCHANGED <<rows, remote, overdue, calls>>

Boot ==
    /\ ~up
    /\ up' = TRUE
    /\ UNCHANGED <<rows, posting, poll, remote, overdue, calls, crashes>>

GitHubStep(g) == RequestDecided(g) \/ RunAppears(g) \/ RunEnds(g)

Answer(g) ==
    ListAnswered(g) \/ GetAnswered(g) \/ CancelAnswered(g)
    \/ ArtifactsAnswered(g) \/ Downloaded(g) \/ Counted(g)

Next ==
    \/ \E g \in Gates :
         \/ Start(g) \/ PostAnswered(g) \/ Cancel(g)
         \/ PollStarts(g) \/ Answer(g) \/ RemoteCallFails(g)
         \/ GitHubStep(g) \/ RunsAgain(g) \/ WindowPasses(g)
    \/ Crash \/ Boot

Spec == Init /\ [][Next]_vars

\* The loop of index.ts polls every fifteen seconds and boot restarts it; every
\* call ends, and a call made again and again is answered now and then; GitHub
\* ends what it runs; clocks advance.
FairSpec ==
    /\ Spec
    /\ WF_vars(Boot)
    /\ \A g \in Gates :
         /\ WF_vars(PostAnswered(g))
         /\ WF_vars(PollStarts(g))
         /\ WF_vars(Answer(g) \/ RemoteCallFails(g))
         /\ SF_vars(ListAnswered(g)) /\ SF_vars(GetAnswered(g)) /\ SF_vars(CancelAnswered(g))
         /\ WF_vars(GitHubStep(g))
         /\ WF_vars(WindowPasses(g))

-----------------------------------------------------------------------------
\* One key is dispatched once at most: not by a call that comes again, not
\* after a lost answer, not by a restart.
DispatchedOnce == \A g \in Gates : remote[g].posts <= 1

\* A verdict comes from a validated artifact of the very attempt the gate
\* correlated, re-runs on GitHub notwithstanding, and a pass that imports
\* always finds the row it reserved still pending.
VerdictIsOfItsRun ==
    \A g \in Gates :
        /\ gate[g].outcome = "verdict" =>
             artifact[g] = "validated" /\ gate[g].of = dispatch[g].attempt
        /\ poll[g].at = "downloading" => artifact[g] = "pending"

\* A cancellation once asked for is never overwritten: the gate waits for
\* GitHub and ends cancelled, without a verdict, whatever artifact arrives.
CancellationHeld ==
    [][\A g \in Gates :
        gate[g].status = "cancelling" =>
            /\ gate'[g].status \in {"cancelling", "cancelled"}
            /\ gate'[g].outcome = gate[g].outcome]_vars

\* An error and a cancellation are final, and a finished gate never runs again.
EndedForGood ==
    [][\A g \in Gates :
        /\ gate[g].status \in {"error", "cancelled"} => gate'[g] = gate[g]
        /\ gate[g].status = "completed" => gate'[g].status \in {"completed", "error"}]_vars

\* A gate nobody cancels reaches an end, whatever GitHub did with its dispatch
\* and whatever the process missed.
GateSettles ==
    \A g \in Gates : Exists(g) ~> (Terminal(g) \/ gate[g].status = "cancelling")

\* A verdict that was imported stands (2026-08-07 design: "Publicação falha:
\* outcome local permanece").
VerdictStands ==
    [][\A g \in Gates : gate[g].outcome = "verdict" => gate'[g].outcome = "verdict"]_vars
=============================================================================
