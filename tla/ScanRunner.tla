----------------------------- MODULE ScanRunner -----------------------------
(***************************************************************************)
(* Scans of the server mode (apps/api/src/runner.ts, db.ts, ingest.ts,     *)
(* scanners/portable-server-recovery.ts): a launch reserves a slot, awaits *)
(* its checks and spawns a worker; the worker's ledger on disk outlives    *)
(* it; whoever finds a worker dead resumes the scan under its own id.      *)
(* Every change of a row is written here; the gates are another module.    *)
(***************************************************************************)
EXTENDS Integers, FiniteSets

CONSTANTS
    Scans,          \* one launch, at most, for each
    MaxConcurrent,  \* CSB_MAX_CONCURRENT_SCANS
    MaxRestarts,    \* automatic restarts of each scan: the code's 2, or what is left of it
    MaxEnds         \* bound: ends of the process, killed or drained

ASSUME ScansAssumption ==
    /\ IsFiniteSet(Scans)
    /\ MaxConcurrent \in Nat \ {0}
    /\ MaxRestarts \in [Scans -> Nat]
    /\ MaxEnds \in Nat

VARIABLES
    scan,       \* the row, the files and the processes of each scan
    phase,      \* of the server
    update,     \* the maintenance reservation of an engine update
    ends

runnerVars == <<scan, phase, update, ends>>

ActiveStatus   == {"queued", "running"}
TerminalStatus == {"completed", "incomplete", "failed", "cancelled"}

NoScan == [status |-> "none", lease |-> FALSE, launch |-> "idle",
           direct |-> FALSE, resumed |-> 0, handle |-> "none", ledger |-> "none",
           answer |-> "none", pending |-> 0, probing |-> 0, spawning |-> FALSE,
           journal |-> 0]

\* The row, the files and the processes of a scan.
ScanRecord ==
    [status   : {"none"} \cup ActiveStatus \cup TerminalStatus,
     lease    : BOOLEAN,       \* a reservation that has no row yet
     launch   : {"idle", "asked", "preflight", "started", "refused", "lost"},
     direct   : BOOLEAN,       \* the worker this process spawned at the launch lives
     resumed  : Nat,           \* live workers that a recovery spawned
     handle   : {"none", "active", "deleted"},  \* its child handle, in the map or not
     ledger   : {"none", "running", "completed", "failed", "cancelled"},
     answer   : {"none", "error"} \cup ActiveStatus \cup TerminalStatus,
     pending  : Nat,           \* recoveries that were scheduled
     probing  : Nat,           \* recoveries that await the probe of the connection
     spawning : BOOLEAN,       \* a recovery awaits the spawn of its worker
     journal  : Nat]

RunnerTypeOK ==
    /\ scan \in [Scans -> ScanRecord]
    /\ phase \in {"down", "booting", "serving", "draining"}
    /\ update \in {"none", "held", "stale"}
    /\ ends \in 0 .. MaxEnds

RunnerInit ==
    /\ scan = [s \in Scans |-> NoScan]
    /\ phase = "serving"
    /\ update = "none"
    /\ ends = 0

Up          == phase # "down"
Active(s)   == scan[s].status \in ActiveStatus
HasProcess(s) == scan[s].direct \/ scan[s].resumed > 0

-----------------------------------------------------------------------------
\* reserveScanCapacity: rows that are active and reservations without a row.
\* One whose owner died is forgotten after its grace.
StaleLeases == {s \in Scans : scan[s].lease /\ scan[s].launch = "lost"}
Used(gone)  == Cardinality({s \in Scans : Active(s) \/ scan[s].lease} \ gone)

\* Mutant: a launch that has no row yet is not counted.
HasRoomBesideLeases(gone) ==
    update = "none" /\ Cardinality({s \in Scans : Active(s)} \ gone) < MaxConcurrent

HasRoom(gone) == update = "none" /\ Used(gone) < MaxConcurrent
Released(gone) == [s \in Scans |-> IF s \in gone THEN [scan[s] EXCEPT !.lease = FALSE]
                                                 ELSE scan[s]]

\* What the files say of a scan whose row is running: the ledger first, then
\* the worker; a young run without one is left alone.
FromDisk(s, young, end) ==
    IF scan[s].ledger \in {"completed", "cancelled"} THEN scan[s].ledger
    ELSE IF scan[s].ledger = "failed"  THEN end
    ELSE IF HasProcess(s) \/ young     THEN "running"
    ELSE IF scan[s].ledger = "running" THEN "incomplete" ELSE end

\* reconcileRunningScansInternal on one row: an interrupted worker whose ledger
\* can be resumed is handed to the recovery.
Refreshed(s, young, end) ==
    IF scan[s].status # "running" THEN scan[s]
    ELSE LET found == FromDisk(s, young, end)
         IN  [scan[s] EXCEPT !.status = found,
                !.pending = IF found = "incomplete" /\ scan[s].ledger = "running"
                            THEN @ + 1 ELSE @]

AllRefreshed(young, end) == [s \in Scans |-> Refreshed(s, s \in young, end[s])]
Running == {s \in Scans : scan[s].status = "running"}
Ends == [Running -> {"failed", "incomplete"}]

\* The fifteen second loop.
Reconcile(young) ==
    /\ phase = "serving"
    /\ \E end \in Ends : scan' = AllRefreshed(young, end)
    /\ UNCHANGED <<phase, update, ends>>

-----------------------------------------------------------------------------
\* startScan, to its first await: the rows are reconciled before slots are
\* counted.
Ask(s) ==
    /\ scan[s].launch = "idle"
    /\ \E young \in SUBSET Running, end \in Ends :
         scan' = [AllRefreshed(young, end) EXCEPT ![s].launch = "asked"]
    /\ UNCHANGED <<phase, update, ends>>

Reserved(s) ==
    /\ scan[s].launch = "asked"
    /\ \E gone \in {{}, StaleLeases} :
         /\ HasRoom(gone)
         /\ scan' = [Released(gone) EXCEPT ![s].launch = "preflight", ![s].lease = TRUE]
    /\ UNCHANGED <<phase, update, ends>>

NoSlot(s) ==
    /\ scan[s].launch = "asked"
    /\ ~HasRoom({})
    /\ scan' = [scan EXCEPT ![s].launch = "refused"]
    /\ UNCHANGED <<phase, update, ends>>

\* One of the awaits of startReservedScan fails, or finds the launch aborted.
PreflightFails(s) ==
    /\ scan[s].launch = "preflight"
    /\ scan' = [scan EXCEPT ![s].launch = "refused", ![s].lease = FALSE]
    /\ UNCHANGED <<phase, update, ends>>

\* The rest of startReservedScan is one turn: the row, the child, its handlers.
Spawned(s) ==
    /\ scan[s].launch = "preflight" /\ phase # "draining"
    /\ scan' = [scan EXCEPT ![s].launch = "started", ![s].lease = FALSE,
                  ![s].status = "running", ![s].direct = TRUE, ![s].handle = "active"]
    /\ UNCHANGED <<phase, update, ends>>

SpawnThrows(s) ==
    /\ scan[s].launch = "preflight" /\ phase # "draining"
    /\ scan' = [scan EXCEPT ![s].launch = "refused", ![s].lease = FALSE,
                  ![s].status = "failed"]
    /\ UNCHANGED <<phase, update, ends>>

\* The child's "error" event: it never ran.  The close that follows finds the
\* row failed and leaves it so.
ChildError(s) ==
    /\ scan[s].handle = "active" /\ scan[s].direct /\ scan[s].ledger = "none"
    /\ scan' = [scan EXCEPT ![s].status = "failed", ![s].direct = FALSE,
                  ![s].handle = "none", ![s].answer = "error"]
    /\ UNCHANGED <<phase, update, ends>>

-----------------------------------------------------------------------------
\* The worker writes its ledger: a checkpoint first, its end later.  A signal
\* it could handle ends it cancelled.
WorkerWrites(s) ==
    /\ HasProcess(s)
    /\ \E next \in {"running", "completed", "failed", "cancelled"} :
         /\ scan[s].ledger = "none" <=> next = "running"
         /\ scan[s].ledger \in {"none", "running"}
         /\ scan' = [scan EXCEPT ![s].ledger = next]
    /\ UNCHANGED <<phase, update, ends>>

\* A worker ends, done or not.  The close event of a direct child comes later.
WorkerExits(s) ==
    /\ \/ /\ scan[s].direct
          /\ scan' = [scan EXCEPT ![s].direct = FALSE]
       \/ /\ scan[s].resumed > 0
          /\ scan' = [scan EXCEPT ![s].resumed = @ - 1]
    /\ UNCHANGED <<phase, update, ends>>

\* scanStatusAfterClose: a child killed by a signal has no exit code, and one
\* that ends with code 0 has completed its ledger.
AfterClose(current, quota, killed) ==
    IF current \in {"completed", "cancelled"} THEN current
    ELSE IF quota \/ current = "incomplete"   THEN "incomplete"
    ELSE IF killed THEN "cancelled" ELSE "failed"

\* Mutant: the row is not asked whether somebody cancelled.
ClosedAnyway(s, current, quota, killed) ==
    LET closed == AfterClose(current, quota, killed)
    IN  IF closed \notin {"completed", "incomplete"} /\ scan[s].ledger = "running" /\ ~quota
        THEN "incomplete" ELSE closed

\* The close handler: an end other than completed whose ledger holds a
\* checkpoint is an interruption, unless the row says cancelled.
Closed(s, current, quota, killed) ==
    LET closed == AfterClose(current, quota, killed)
    IN  IF /\ closed \notin {"completed", "incomplete"}
           /\ scan[s].status # "cancelled"
           /\ scan[s].ledger = "running" /\ ~quota
        THEN "incomplete" ELSE closed

CloseEvent(s) ==
    /\ scan[s].handle # "none" /\ ~scan[s].direct
    /\ \E young, quota, killed \in BOOLEAN, end \in {"failed", "incomplete"} :
         LET current == IF scan[s].status = "running" THEN FromDisk(s, young, end)
                                                      ELSE scan[s].status
             final   == Closed(s, current, quota, killed)
         IN  scan' = [scan EXCEPT ![s].status = final, ![s].handle = "none",
                ![s].answer  = IF @ = "none" THEN final ELSE @,
                ![s].pending = IF final = "incomplete" /\ scan[s].ledger = "running" /\ ~quota
                               THEN @ + 1 ELSE @]
    /\ UNCHANGED <<phase, update, ends>>

\* cancelScan: nothing for a scan that waits in the queue of its recovery.
Cancelled(s) ==
    IF scan[s].handle = "active" \/ scan[s].status = "running"
    THEN [scan[s] EXCEPT !.status = "cancelled",
            !.handle = IF @ = "active" THEN "deleted" ELSE @,
            !.answer = IF scan[s].handle = "active" /\ @ = "none" THEN "cancelled" ELSE @]
    ELSE scan[s]

CancelScan(s) ==
    /\ phase = "serving"
    /\ Cancelled(s) # scan[s]
    /\ scan' = [scan EXCEPT ![s] = Cancelled(s)]
    /\ UNCHANGED <<phase, update, ends>>

-----------------------------------------------------------------------------
\* recoverPortableServerRuns, from prepare to the claim of the row: the journal
\* is written before the slot is asked for.
Recoverable(s) ==
    /\ scan[s].status = "incomplete" /\ scan[s].ledger = "running"
    /\ ~HasProcess(s)
    /\ scan[s].journal < MaxRestarts[s]
    /\ phase # "draining"

RecoverySkipped(s) ==
    /\ scan[s].pending > 0
    /\ ~Recoverable(s)
    /\ scan' = [scan EXCEPT ![s].pending = @ - 1]
    /\ UNCHANGED <<phase, update, ends>>

RecoveryClaims(s) ==
    /\ scan[s].pending > 0
    /\ Recoverable(s)
    /\ \E gone \in {{}, StaleLeases} :
         \/ /\ HasRoom(gone)
            /\ scan' = [Released(gone) EXCEPT ![s].pending = @ - 1, ![s].journal = @ + 1,
                          ![s].status = "queued", ![s].probing = @ + 1]
         \/ /\ ~HasRoom(gone)
            /\ scan' = [scan EXCEPT ![s].pending = @ - 1, ![s].journal = @ + 1]
    /\ UNCHANGED <<phase, update, ends>>

\* Mutant: the claim of a failed recovery is not undone.
UnclaimedNever(s) == scan[s].status

\* The catch of startRecoveredHttpWorker: only its own claim is undone.
Unclaimed(s) == IF scan[s].status = "queued" THEN "incomplete" ELSE scan[s].status

ProbeFails(s) ==
    /\ scan[s].probing > 0
    /\ scan' = [scan EXCEPT ![s].probing = @ - 1, ![s].status = Unclaimed(s)]
    /\ UNCHANGED <<phase, update, ends>>

\* Mutant: the worker is spawned without looking for another.
MayResumeBeside(s) == scan[s].status = "queued" /\ phase # "draining"

MayResume(s) == scan[s].status = "queued" /\ phase # "draining" /\ ~HasProcess(s)

ProbePasses(s) ==
    /\ scan[s].probing > 0
    /\ MayResume(s)
    /\ scan' = [scan EXCEPT ![s].probing = @ - 1, ![s].resumed = @ + 1, ![s].spawning = TRUE]
    /\ UNCHANGED <<phase, update, ends>>

\* The spawn event: the row is running, if nothing came in between.
SpawnConfirmed(s) ==
    /\ scan[s].spawning
    /\ scan' = [scan EXCEPT ![s].spawning = FALSE, ![s].status =
            IF @ = "queued" /\ phase # "draining" /\ scan[s].resumed > 0
            THEN "running" ELSE Unclaimed(s)]
    /\ UNCHANGED <<phase, update, ends>>

-----------------------------------------------------------------------------
\* acquireEngineMaintenance: one transaction with the admission of scans.
BeginUpdate ==
    /\ phase = "serving" /\ update = "none"
    /\ \E gone \in {{}, StaleLeases} :
         /\ Used(gone) = 0
         /\ scan' = Released(gone)
    /\ update' = "held"
    /\ UNCHANGED <<phase, ends>>

EndUpdate ==
    /\ update # "none"
    /\ update' = "none"
    /\ UNCHANGED <<scan, phase, ends>>

\* SIGTERM: admission stops and every active scan is cancelled.
Drain ==
    /\ phase = "serving" /\ ends < MaxEnds
    /\ phase' = "draining"
    /\ ends' = ends + 1
    /\ scan' = [s \in Scans |-> IF Active(s) THEN Cancelled(s) ELSE scan[s]]
    /\ UNCHANGED update

\* The container is replaced: its processes end with it, rows and files stay.
Gone ==
    /\ phase' = "down"
    /\ scan' = [s \in Scans |-> [scan[s] EXCEPT
            !.direct = FALSE, !.resumed = 0, !.handle = "none", !.answer = "none",
            !.pending = 0, !.probing = 0, !.spawning = FALSE,
            !.launch = IF @ \in {"asked", "preflight"} THEN "lost" ELSE @]]
    /\ update' = IF update = "held" THEN "stale" ELSE update

Exit  == phase = "draining" /\ Gone /\ UNCHANGED ends
Crash == Up /\ ends < MaxEnds /\ Gone /\ ends' = ends + 1

\* interruptActiveRunsAfterServerRestart: of the ends found on disk, two are kept.
Boot ==
    /\ phase = "down"
    /\ phase' = "booting"
    /\ scan' = [s \in Scans |->
            IF ~Active(s) THEN scan[s]
            ELSE [scan[s] EXCEPT !.pending = 1, !.status =
                    IF @ = "running" /\ scan[s].ledger \in {"completed", "cancelled"}
                    THEN scan[s].ledger ELSE "incomplete"]]
    /\ UNCHANGED <<update, ends>>

\* The recovery of boot is awaited before the server listens.
Serve ==
    /\ phase = "booting"
    /\ \A s \in Scans : scan[s].pending + scan[s].probing = 0 /\ ~scan[s].spawning
    /\ phase' = "serving"
    /\ UNCHANGED <<scan, update, ends>>

\* What happens to a scan whoever asked for it.
ScanStep(s) ==
    \/ ChildError(s) \/ WorkerWrites(s) \/ WorkerExits(s) \/ CloseEvent(s)
    \/ CancelScan(s) \/ RecoverySkipped(s) \/ RecoveryClaims(s)
    \/ ProbeFails(s) \/ ProbePasses(s) \/ SpawnConfirmed(s)

\* The outcome of a launch, which its caller awaits.
LaunchRefused(s) == NoSlot(s) \/ PreflightFails(s) \/ SpawnThrows(s)

ServerStep ==
    \/ \E young \in SUBSET Running : Reconcile(young)
    \/ BeginUpdate \/ EndUpdate \/ Drain \/ Boot \/ Serve

RunnerFairness ==
    /\ WF_runnerVars(Exit) /\ WF_runnerVars(Boot) /\ WF_runnerVars(Serve) /\ WF_runnerVars(EndUpdate)
    /\ WF_runnerVars(Reconcile({}))
    /\ \A s \in Scans :
         /\ WF_runnerVars(WorkerExits(s)) /\ WF_runnerVars(CloseEvent(s))
         /\ WF_runnerVars(RecoverySkipped(s) \/ RecoveryClaims(s))
         /\ WF_runnerVars(ProbeFails(s) \/ ProbePasses(s))
         /\ WF_runnerVars(SpawnConfirmed(s))

-----------------------------------------------------------------------------
\* Rows, reservations of launches and claims of recoveries never exceed the
\* configured slots, and no scan is admitted beside the update of an engine.
CapacityHeld ==
    /\ Used(StaleLeases) <= MaxConcurrent
    /\ update = "held" => Used(StaleLeases) = 0

\* One scan never has two workers, whoever found its worker dead and however
\* many recoveries raced for it.
OneWorker == \A s \in Scans : scan[s].resumed + (IF scan[s].direct THEN 1 ELSE 0) <= 1

\* A cancelled scan stays so: not the close of its worker, a recovery, a
\* reconciliation, a late spawn or a boot changes it.
CancelledScanStays ==
    [][\A s \in Scans : scan[s].status = "cancelled" => scan'[s].status = "cancelled"]_runnerVars

\* No scan keeps a slot for ever: its row leaves the active ones through
\* every crash, failed probe and lost worker.
ScanSettles == \A s \in Scans : Active(s) ~> ~Active(s)
=============================================================================
