-------------------------- MODULE ActionReconciler --------------------------
(***************************************************************************)
(* reconcileGitHubActions of apps/api/src/github-actions/reconciler.ts: the *)
(* periodic cycle that reads what GitHub would have told us and records the *)
(* commits no delivery brought.  The enabled actions are read before the    *)
(* listings are awaited, and the transaction that follows works with that   *)
(* reading.  singleFlightReconcile and the loop never overlap two cycles.   *)
(***************************************************************************)
EXTENDS ActionDispatch

VARIABLE rec

Stages == {"idle", "scope", "pulls", "branches", "recording", "dispatching"}

Idle == [stage |-> "idle", acts |-> [a \in {} |-> {}], seen |-> [t \in {} |-> {}],
         todo |-> {}, current |-> {}]

Listing == [sha: Shas, observed: Nat]

ReconcilerTypeOK ==
  /\ DOMAIN rec = {"stage", "acts", "seen", "todo", "current"}
  /\ rec.stage \in Stages
  /\ DOMAIN rec.acts \subseteq Actions
  /\ \A a \in DOMAIN rec.acts : rec.acts[a] \in Action
  /\ DOMAIN rec.seen \subseteq Targets
  /\ \A t \in DOMAIN rec.seen : rec.seen[t] \in Listing
  /\ rec.todo \subseteq Actions \X EventKey
  /\ rec.current \subseteq Actions \X EventKey

ReconcilerInit == rec = Idle

-----------------------------------------------------------------------------
\* reconcileOrphans at the head of a cycle spares the dispatches in flight.
CycleStarts ==
  /\ rec.stage = "idle"
  /\ ~draining
  /\ rec' = [rec EXCEPT !.stage = "scope"]
  /\ events' = OrphansFailed(InFlight)
  /\ UNCHANGED <<draining, turn, disp, gates, actions, claimed, sincePrune>>

\* The rule "read only what some action follows", as the next stage.
AfterScope(acts) ==
  IF acts = {} THEN "idle"
  ELSE IF \E a \in acts : actions[a].follows \cap PullRequests # {} THEN "pulls"
  ELSE "branches"

AfterPulls(acts) ==
  IF \E a \in DOMAIN acts : acts[a].follows \cap Branches # {}
  THEN "branches" ELSE "recording"

\* readGitHubInstallationScopes: an installation that could not be read is absent
\* from the report, and absent disables nothing.
AfterReport == {actions} \cup (IF reachable THEN {} ELSE {AllDisabled})

\* The report is applied, and the enabled actions are read in the same turn.
ScopeRead ==
  /\ rec.stage = "scope"
  /\ actions' \in AfterReport
  /\ LET acts == {a \in Actions : actions'[a].enabled}
     IN rec' = [rec EXCEPT !.stage = AfterScope(acts),
                           !.acts = [a \in acts |-> actions[a]]]
  /\ UNCHANGED <<draining, turn, disp, gates, events, claimed, sincePrune>>

\* What GitHub lists now.  Pull requests carry updated_at; branches no clock.
OpenHeads(ts) ==
  [t \in {u \in ts : tip[u].open} |->
     [sha |-> tip[t].sha, observed |-> IF t \in PullRequests THEN tip[t].clock ELSE Null]]

PullsListed ==
  /\ rec.stage = "pulls"
  /\ reachable
  /\ rec' = [rec EXCEPT !.stage = AfterPulls(rec.acts), !.seen = OpenHeads(PullRequests)]
  /\ UNCHANGED <<storeVars, dispatchVars>>

BranchesListed ==
  /\ rec.stage = "branches"
  /\ reachable
  /\ LET heads == OpenHeads(Branches)
     IN rec' = [rec EXCEPT !.stage = "recording",
                  !.seen = [t \in DOMAIN @ \cup DOMAIN heads |->
                              IF t \in DOMAIN heads THEN heads[t] ELSE @[t]]]
  /\ UNCHANGED <<storeVars, dispatchVars>>

\* Mutant of ListingFails: the error leaves the single-flight guard taken.
ListingFailsInFlight ==
  /\ rec.stage \in {"pulls", "branches"}
  /\ rec' = [rec EXCEPT !.stage = "failed"]
  /\ UNCHANGED <<storeVars, dispatchVars>>

\* A read fails: the cycle records the error on the actions and ends.
ListingFails ==
  /\ rec.stage \in {"pulls", "branches"}
  /\ rec' = Idle
  /\ UNCHANGED <<storeVars, dispatchVars>>

-----------------------------------------------------------------------------
(* The transaction.  Everything about an action but its rows is what the    *)
(* cycle read before the listings.                                          *)

FirstRun(a) == ~rec.acts[a].baseline

Unseen(a) ==
  {t \in DOMAIN rec.seen : /\ t \in rec.acts[a].follows
                           /\ t \in Forks => rec.acts[a].forks
                           /\ ~HasEventForHead(events[a], rec.seen[t].sha)}

\* One commit under two targets yields one event, for the target listed first.
Recovered(a) ==
  {t \in Unseen(a) : \A u \in Unseen(a) : rec.seen[u].sha = rec.seen[t].sha => t <= u}

RecoveredKey(a, t) == [revision |-> rec.acts[a].revision, target |-> t,
                       sha |-> rec.seen[t].sha, checkRun |-> Null]

RecoveredKeys(a) == {RecoveredKey(a, t) : t \in Recovered(a)}

RecoveredEvent(a, t) ==
  NewEvent(events[a], IF FirstRun(a) THEN "observed" ELSE "queued",
           "reconciliation", rec.acts[a].cost, now, rec.seen[t].observed)

\* The boundary of a recovered head: its own clock, or ours for a branch.
CancelledByRecovery(a, k) ==
  /\ ~FirstRun(a)
  /\ \E t \in Recovered(a) :
       LET new == RecoveredEvent(a, t)
       IN Obsolete(k, events[a][k], t, rec.seen[t].sha, Clock(new), new.row)

\* MAX_QUEUED_AGE_MS, by our own clock: 24 hours
Expired(e) == e.status = "queued" /\ now - e.detected > DayLength

Waiting(a, k) ==
  IF CancelledByRecovery(a, k) THEN SupersededAs(events[a][k], "head_superseded")
  ELSE IF ~FirstRun(a) /\ Expired(events[a][k])
  THEN [events[a][k] EXCEPT !.status = "skipped"]
  ELSE events[a][k]

Reconciled(a) ==
  [k \in DOMAIN events[a] \cup RecoveredKeys(a) |->
     IF k \in RecoveredKeys(a) THEN RecoveredEvent(a, k.target) ELSE Waiting(a, k)]

\* Mutant of QueuedForDispatch: a cycle dispatches only what it recovered.
RecoveredForDispatch(a, rows) ==
  {k \in RecoveredKeys(a) : rows[k].status = "queued"}

\* queuedForDispatch: everything waiting, not only what this cycle recovered.
QueuedForDispatch(a, rows) == {k \in DOMAIN rows : rows[k].status = "queued"}

\* recordGitHubActionReconciliation: only an empty baseline is filled.
BaselineFilled(a) ==
  IF a \in DOMAIN rec.acts /\ FirstRun(a) /\ actions[a].exists
  THEN [actions[a] EXCEPT !.baseline = TRUE] ELSE actions[a]

\* An event cannot be inserted for an action deleted since (foreign key).
OrphanedRecovery == \E a \in DOMAIN rec.acts : ~actions[a].exists /\ Recovered(a) # {}

Record ==
  /\ rec.stage = "recording"
  /\ ~OrphanedRecovery
  /\ events' = [a \in Actions |-> IF a \in DOMAIN rec.acts THEN Reconciled(a) ELSE events[a]]
  /\ actions' = [a \in Actions |-> BaselineFilled(a)]
  /\ rec' = [rec EXCEPT !.stage = "dispatching",
       !.todo = UNION {{a} \X QueuedForDispatch(a, events'[a]) :
                         a \in {b \in DOMAIN rec.acts : ~FirstRun(b)}}]
  /\ UNCHANGED <<draining, turn, disp, gates, claimed, sincePrune>>

RecordFails ==
  /\ rec.stage = "recording"
  /\ OrphanedRecovery
  /\ rec' = Idle
  /\ UNCHANGED <<storeVars, dispatchVars>>

-----------------------------------------------------------------------------
\* The queue is dispatched one awaited event at a time: actions in order, and
\* within an action the change detected first.
Detected(r) == IF HasRow(r) THEN Row(r).detected ELSE Null

Before(r, q) == r[1] < q[1] \/ (r[1] = q[1] /\ Detected(r) < Detected(q))

Awaiting == rec.current \cap (turn \cup InFlight) # {}

DispatchNext ==
  /\ rec.stage = "dispatching"
  /\ ~Awaiting
  /\ \E r \in rec.todo :
       /\ \A q \in rec.todo : ~Before(q, r)
       /\ rec' = [rec EXCEPT !.todo = @ \ {r}, !.current = {r}]
       /\ turn' = {r}
  /\ UNCHANGED <<draining, disp, gates, storeVars>>

CycleEnds ==
  /\ rec.stage = "dispatching"
  /\ ~Awaiting
  /\ rec.todo = {}
  /\ rec' = Idle
  /\ UNCHANGED <<storeVars, dispatchVars>>

ReconcilerStep ==
  /\ turn = {}
  /\ \/ CycleStarts \/ ScopeRead \/ PullsListed \/ BranchesListed \/ ListingFails
     \/ Record \/ RecordFails \/ DispatchNext \/ CycleEnds

ReconcilerRestart == rec' = Idle
=============================================================================
