---------------------------- MODULE EngineUpdates ----------------------------
(***************************************************************************)
(* The managed runtimes of the engines: scanners/engine-updates.ts installs, *)
(* activates and rolls back versions of a command-line engine, recorded in   *)
(* one manifest file (managed-runtime-store.ts).  What keeps two API         *)
(* processes, and the scans, apart is one reservation row of the database,   *)
(* renewed while its holder lives (engine-updates-api.ts, db.ts).            *)
(*                                                                         *)
(* The unit of time is a minute: the row is renewed twice in one.            *)
(***************************************************************************)
EXTENDS Integers

CONSTANTS
  Processes,    \* API processes over one data directory
  Engines,      \* the engines npm installs
  Versions,
  Broken,       \* the versions that fail the probes of the command line
  Probes,       \* commands run one after the other to verify a runtime
  CallLimit,    \* INSTALL_TIMEOUT_MS: the longest that a command runs
  Grace,        \* CAPACITY_RESERVATION_GRACE_MS
  CheckTtl,     \* ENGINE_UPDATE_CHECK_TTL_MS
  RenewalsFail, \* may a renewal throw?
  None          \* no version, no check, no operation, no row, a dead process

ASSUME UpdatesAssumption ==
  /\ Broken \subseteq Versions
  /\ Probes \in Nat \ {0} /\ CallLimit \in Nat
  /\ Grace \in Nat \ {0} /\ CheckTtl \in Nat
  /\ RenewalsFail \in BOOLEAN
  /\ None \notin Processes \cup Versions
  /\ None \notin [of: Processes \cup {None}, age: 0..Grace]

VARIABLES
  manifest,   \* the file: what each engine runs and ran, and its last check
  disk,       \* disk[e]: the versions under versions/
  lease,      \* the reservation row of maintenance
  scanning,   \* is a scan active, or a slot reserved for one?
  fetch,      \* fetch[p]: checkInFlight
  asked,      \* asked[p]: a request that waits for it
  op          \* op[p]: the update or rollback of process p (its `busy`)

vars == <<manifest, disk, lease, scanning, fetch, asked, op>>

\* Ages beyond the windows read alike.
CheckAges == 0..(CheckTtl + 1)

\* latest: the version a registry answered, or None when it did not.
Check == [latest: Versions \cup {None}, age: CheckAges]

Manifest == [active: [Engines -> Versions \cup {None}],
             previous: [Engines -> Versions \cup {None}],
             check: [Engines -> Check \cup {None}]]

Request == [action: {"update"}, engine: Engines, version: Versions]
             \cup [action: {"rollback"}, engine: Engines, version: {None}]

\* at: the await; seen: the manifest read before it; version: the one to activate;
\* left: commands still to run; lag: how long the one that runs has taken.
Operation == [at: {"reading", "installing", "verifying", "writing"},
              action: {"update", "rollback"}, engine: Engines,
              version: Versions \cup {None}, seen: Manifest,
              left: 0..(2 * Probes + 1), lag: 0..CallLimit]

TypeOK ==
  /\ manifest \in Manifest
  /\ disk \in [Engines -> SUBSET Versions]
  /\ lease \in [of: Processes \cup {None}, age: 0..Grace] \cup {None}
  /\ scanning \in BOOLEAN
  /\ fetch \in [Processes -> CheckAges \cup {None}]
  /\ asked \in [Processes -> Request \cup {None}]
  /\ op \in [Processes -> Operation \cup {None}]

Nothing == [e \in Engines |-> None]

Init ==
  /\ manifest = [active |-> Nothing, previous |-> Nothing, check |-> Nothing]
  /\ disk = [e \in Engines |-> {}]
  /\ lease = None
  /\ scanning = FALSE
  /\ fetch = [p \in Processes |-> None]
  /\ asked = [p \in Processes |-> None]
  /\ op = [p \in Processes |-> None]

-----------------------------------------------------------------------------
(* The reservation.                                                          *)

Busy(p) == op[p] # None

\* A row that nobody renewed for the grace period is deleted by the next
\* reservation, and blocks nobody.
Maintained == lease # None /\ lease.age < Grace

\* Mutant of Free: another process's operation is not asked for.
FreeOfScans(p) == ~Busy(p) /\ ~scanning

\* reserveScanCapacity(id, 1) of maintenance, after `busy` and blockingReason.
Free(p) == ~Busy(p) /\ ~scanning /\ ~Maintained

\* Mutant of Released: a failed operation leaves its row and its timer.
ReleasedNever(p) == lease

\* releaseScanCapacity deletes the caller's own row, if it is still there.
Released(p) == IF lease # None /\ lease.of = p THEN None ELSE lease

-----------------------------------------------------------------------------
(* Checks.                                                                   *)

\* checkOnce: the time of the check is read before the registries are asked.
CheckStarts(p) ==
  /\ fetch[p] = None
  /\ fetch' = [fetch EXCEPT ![p] = 0]
  /\ UNCHANGED <<manifest, disk, lease, scanning, asked, op>>

\* commitChecks reads, merges and writes in one turn, under a reservation it takes
\* and gives back (one that was stale goes with it).
CheckCommits(p) ==
  /\ fetch[p] # None
  /\ Free(p)
  /\ \E latest \in [Engines -> Versions \cup {None}] :
       manifest' = [manifest EXCEPT !.check =
                      [e \in Engines |-> [latest |-> latest[e], age |-> fetch[p]]]]
  /\ lease' = None
  /\ fetch' = [fetch EXCEPT ![p] = None]
  /\ UNCHANGED <<disk, scanning, asked, op>>

\* The result is lost, the write throws, or it finds an operation or a scan; a
\* request that waited for it fails with it.
CheckFails(p) ==
  /\ fetch[p] # None
  /\ lease' = IF Free(p) THEN None ELSE lease
  /\ fetch' = [fetch EXCEPT ![p] = None]
  /\ asked' = [asked EXCEPT ![p] = None]
  /\ UNCHANGED <<manifest, disk, scanning, op>>

-----------------------------------------------------------------------------
(* Updates and rollbacks.                                                    *)

\* mutate, and the body of the operation up to the await of the runtime in use: the
\* manifest is read before it.
Begin(p, request) ==
  /\ Free(p)
  /\ lease' = [of |-> p, age |-> 0]
  /\ op' = [op EXCEPT ![p] =
       [at |-> "reading", action |-> request.action, engine |-> request.engine,
        version |-> request.version, seen |-> manifest, left |-> 0, lag |-> 0]]

\* A request that finds a check in flight awaits it.
Ask(p) ==
  /\ \E request \in Request :
       IF fetch[p] = None
       THEN Begin(p, request) /\ UNCHANGED asked
       ELSE /\ asked[p] = None
            /\ asked' = [asked EXCEPT ![p] = request]
            /\ UNCHANGED <<lease, op>>
  /\ UNCHANGED <<manifest, disk, scanning, fetch>>

CheckAwaited(p) ==
  /\ asked[p] # None /\ fetch[p] = None
  /\ asked' = [asked EXCEPT ![p] = None]
  /\ \/ Begin(p, asked[p])
     \/ ~Free(p) /\ UNCHANGED <<lease, op>>
  /\ UNCHANGED <<manifest, disk, scanning, fetch>>

\* Every await of an operation may throw: an override of the command, npm, a probe,
\* the write.  recordFailure writes the manifest as it is.
OperationFails(p) ==
  /\ Busy(p)
  /\ op' = [op EXCEPT ![p] = None]
  /\ lease' = Released(p)
  /\ UNCHANGED <<manifest, disk, scanning, fetch, asked>>

At(p, await) == Busy(p) /\ op[p].at = await

FreshlyChecked(check, version) ==
  check # None /\ check.latest = version /\ check.age <= CheckTtl

\* A version that is on disk already, left there by an earlier operation or a crash,
\* is verified and not installed again.
UpdateReads(p) ==
  LET e == op[p].engine
  IN /\ op[p].action = "update"
     /\ op[p].seen.active[e] # None => op[p].seen.active[e] \in disk[e]
     /\ op[p].seen.active[e] # op[p].version
     /\ FreshlyChecked(op[p].seen.check[e], op[p].version)
     /\ op' = IF op[p].version \in disk[e]
              THEN [op EXCEPT ![p].at = "verifying", ![p].left = Probes]
              ELSE [op EXCEPT ![p].at = "installing", ![p].left = Probes + 1]

\* Both versions are verified, the one to leave first.
RollbackReads(p) ==
  LET e == op[p].engine
  IN /\ op[p].action = "rollback"
     /\ op[p].seen.active[e] # None /\ op[p].seen.previous[e] # None
     /\ {op[p].seen.active[e], op[p].seen.previous[e]} \subseteq disk[e]
     /\ op' = [op EXCEPT ![p].at = "verifying", ![p].left = 2 * Probes,
                         ![p].version = op[p].seen.previous[e]]

RuntimeRead(p) ==
  /\ At(p, "reading")
  /\ UpdateReads(p) \/ RollbackReads(p)
  /\ UNCHANGED <<manifest, disk, lease, scanning, fetch, asked>>

\* A command of an installation or verification ends well, and another follows.
CommandEnds(p) ==
  /\ At(p, "installing") \/ At(p, "verifying")
  /\ op[p].left > 1
  /\ op' = [op EXCEPT ![p].left = @ - 1, ![p].lag = 0]
  /\ UNCHANGED <<manifest, disk, lease, scanning, fetch, asked>>

\* Mutant of Sound: what npm installed is not probed.
SoundUnprobed(version) == version \in Versions

\* The probes of the command line pass.
Sound(version) == version \in Versions \ Broken

\* The last probe passes: the staging directory takes the version's name, unless the
\* name was taken meanwhile, which must be verified for itself.
Installed(p) ==
  LET e == op[p].engine
  IN /\ At(p, "installing") /\ op[p].left = 1 /\ Sound(op[p].version)
     /\ disk' = [disk EXCEPT ![e] = @ \cup {op[p].version}]
     /\ op' = IF op[p].version \in disk[e]
              THEN [op EXCEPT ![p].at = "verifying", ![p].left = Probes, ![p].lag = 0]
              ELSE [op EXCEPT ![p].at = "writing", ![p].left = 0, ![p].lag = 0]
     /\ UNCHANGED <<manifest, lease, scanning, fetch, asked>>

Verified(p) ==
  /\ At(p, "verifying") /\ op[p].left = 1
  /\ op[p].version \in disk[op[p].engine] /\ Sound(op[p].version)
  /\ op' = [op EXCEPT ![p].at = "writing", ![p].left = 0, ![p].lag = 0]
  /\ UNCHANGED <<manifest, disk, lease, scanning, fetch, asked>>

\* The manifest an operation writes is the one it read before its awaits, with its
\* engine changed.
Selected(o) ==
  [o.seen EXCEPT !.active[o.engine] = o.version,
                 !.previous[o.engine] = o.seen.active[o.engine]]

\* The temporary file is renamed over the manifest, the commands of this process are
\* resolved again, and the reservation is given back, in one turn.
Activated(p) ==
  /\ At(p, "writing")
  /\ manifest' = Selected(op[p])
  /\ op' = [op EXCEPT ![p] = None]
  /\ lease' = Released(p)
  /\ UNCHANGED <<disk, scanning, fetch, asked>>

-----------------------------------------------------------------------------
(* Scans, the end of a process, and the clock.                               *)

\* A reservation of a scan: it finds no maintenance, and removes a stale row.
ScanStarts ==
  /\ ~scanning /\ ~Maintained
  /\ scanning' = TRUE /\ lease' = None
  /\ UNCHANGED <<manifest, disk, fetch, asked, op>>

ScanEnds ==
  /\ scanning
  /\ scanning' = FALSE
  /\ UNCHANGED <<manifest, disk, lease, fetch, asked, op>>

\* The process dies and is started again: the files and the row stay, nobody renews it.
Restart(p) ==
  /\ Busy(p) \/ fetch[p] # None \/ asked[p] # None
  /\ fetch' = [fetch EXCEPT ![p] = None]
  /\ asked' = [asked EXCEPT ![p] = None]
  /\ op' = [op EXCEPT ![p] = None]
  /\ lease' = IF lease # None /\ lease.of = p THEN [lease EXCEPT !.of = None] ELSE lease
  /\ UNCHANGED <<manifest, disk, scanning>>

Capped(age, longest) == IF age < longest THEN age + 1 ELSE age

Aged(m) ==
  [m EXCEPT !.check = [e \in Engines |->
     IF m.check[e] = None THEN None
     ELSE [m.check[e] EXCEPT !.age = Capped(@, CheckTtl + 1)]]]

\* Mutant of Renewed: the timer is cleared when the commands begin.
RenewedWhileReading(p) == \A q \in Processes : At(q, "installing") => p # q

\* The timer of the row's holder fires.
Renewed(p) == p # None

LeaseAged ==
  IF lease = None THEN {None}
  ELSE {[lease EXCEPT !.age = 0] : p \in {q \in {lease.of} : Renewed(q)}}
         \cup {[lease EXCEPT !.age = Capped(@, Grace)] :
                 p \in {q \in {lease.of} : RenewalsFail \/ ~Renewed(q)}}

\* A command is killed at its timeout, the other awaits take seconds.
Limit(await) == IF await \in {"installing", "verifying"} THEN CallLimit ELSE 0

ClockTick ==
  /\ \A p \in Processes : Busy(p) => op[p].lag < Limit(op[p].at)
  /\ lease' \in LeaseAged
  /\ manifest' = Aged(manifest)
  /\ op' = [p \in Processes |->
       IF Busy(p) THEN [op[p] EXCEPT !.lag = @ + 1, !.seen = Aged(@)] ELSE None]
  /\ fetch' = [p \in Processes |->
       IF fetch[p] = None THEN None ELSE Capped(fetch[p], CheckTtl + 1)]
  /\ UNCHANGED <<disk, scanning, asked>>

Step(p) ==
  \/ RuntimeRead(p) \/ CommandEnds(p) \/ Installed(p) \/ Verified(p) \/ Activated(p)
  \/ OperationFails(p)

Next ==
  \/ \E p \in Processes :
       \/ CheckStarts(p) \/ CheckCommits(p) \/ CheckFails(p)
       \/ Ask(p) \/ CheckAwaited(p) \/ Step(p) \/ Restart(p)
  \/ ScanStarts \/ ScanEnds \/ ClockTick

Spec == Init /\ [][Next]_vars

\* Awaits end and time passes.
FairSpec ==
  /\ Spec
  /\ \A p \in Processes : WF_vars(Step(p))
  /\ WF_vars(ClockTick)

-----------------------------------------------------------------------------
(* Properties.                                                               *)

\* While a process works on an engine no scan runs, no other process does, and the
\* row that keeps them out is its own and not stale ("Maintenance takes an exclusive
\* slot", reserveScanCapacity).
OperationIsAlone == \A p \in Processes : Busy(p) =>
  /\ ~scanning
  /\ Maintained /\ lease.of = p
  /\ \A q \in Processes \ {p} : ~Busy(q)

\* What the manifest says runs, or ran before, is on disk and passed the probes,
\* whatever crashed between the renames of the version and of the manifest.
SelectionIsInstalled == \A e \in Engines :
  \A v \in {manifest.active[e], manifest.previous[e]} \ {None} :
    v \in disk[e] /\ v \notin Broken

\* An activation leaves what ran as the version to go back to, and touches neither
\* another engine nor a check: no clone of a manifest read before an await erases
\* what was written since (commitChecks: "cannot erase a just-activated runtime").
ActivationKeepsTheRest == [][
  \A e \in Engines : manifest'.active[e] # manifest.active[e] =>
    /\ manifest'.previous[e] = manifest.active[e]
    /\ manifest'.check = manifest.check
    /\ \A d \in Engines \ {e} :
         /\ manifest'.active[d] = manifest.active[d]
         /\ manifest'.previous[d] = manifest.previous[d]]_vars

\* Maintenance ends: an operation whose commands hang, fail or die with their process
\* does not keep the scans out for ever.
ScansGetTheirTurn == []<>~Maintained

\* "A bounded install remains covered by the five-minute lease"
\* (acquireEngineMaintenance, of renewals that throw).
InstallIsCovered == \A p \in Processes : Busy(p) => Maintained
=============================================================================
