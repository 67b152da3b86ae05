----------------------------- MODULE ActionStore -----------------------------
(***************************************************************************)
(* The three tables of apps/api/src/github-actions/store.ts and the SQL     *)
(* statements over them, as operators: the actions an operator configured,  *)
(* the events (one per commit an action has seen) and the webhook           *)
(* deliveries already claimed.  better-sqlite3 is synchronous and the API   *)
(* is one process, so a statement or a transaction is one atomic step.      *)
(*                                                                         *)
(* An event is addressed by its UNIQUE key, so "INSERT refused by UNIQUE"   *)
(* is "the key is already in the table".  `row` is its rowid.               *)
(***************************************************************************)
EXTENDS GitHubRemote, Sequences, FiniteSetsExt

CONSTANTS
  Actions,         \* actions, numbered in the order listGitHubActions returns
  InitialActions,  \* InitialActions[a]: the action as created
  FollowChoices,   \* the sets of targets an edit of the patterns can follow
  CostChoices,     \* the ceilings an edit of cost_ceiling_usd can set
  Edits,           \* the operations the operator uses
  EditsInCycle,    \* may the operator edit while a reconciliation is running?
  MaxRevision,     \* bound: edits of what an action observes
  DayLength,       \* clock units in one UTC day
  Retention,       \* WEBHOOK_DELIVERY_RETENTION
  PruneEvery       \* WEBHOOK_DELIVERY_PRUNE_EVERY

\* What the store keeps of an action.  `baseline` is baseline_initialized_at IS
\* NOT NULL; `daily` is NULL when the action has no daily ceiling of its own.
Action == [exists: BOOLEAN, enabled: BOOLEAN, revision: 1..MaxRevision, cost: Nat,
           daily: Nat, follows: SUBSET Targets, forks: BOOLEAN, baseline: BOOLEAN]

\* trigger_kind: an action follows pull requests (by their base branch) or the
\* branches themselves.
OneKind(follows) ==
  follows # {} /\ (follows \subseteq PullRequests \/ follows \cap PullRequests = {})

ASSUME StoreAssumption ==
  /\ Actions \subseteq Nat
  /\ IsFiniteSet(Actions)
  /\ InitialActions \in [Actions -> Action]
  /\ \A a \in Actions : OneKind(InitialActions[a].follows)
  /\ FollowChoices \subseteq SUBSET Targets
  /\ \A follows \in FollowChoices : OneKind(follows)
  /\ CostChoices \subseteq Nat
  /\ Edits \subseteq {"observe", "toggle", "cost", "delete"}
  /\ EditsInCycle \in BOOLEAN
  /\ MaxRevision \in Nat \ {0}
  /\ \A a \in Actions : InitialActions[a].exists /\ InitialActions[a].revision = 1
  /\ DayLength \in Nat \ {0}
  /\ Retention \in Nat \ {0}
  /\ PruneEvery \in Nat \ {0}

Statuses == {"observed", "queued", "dispatching", "launched",
             "skipped", "failed", "superseded"}
Origins == {"webhook", "reconciliation", "manual"}
Reasons == {"none", "head_superseded", "pull_request_closed"}

\* UNIQUE (action_id, action_revision, target_identity): the identity is the
\* target and the commit, suffixed with the check run for a rerun.
EventKey == [revision: 1..MaxRevision, target: Targets, sha: Shas,
             checkRun: 0..MaxReruns]

Event == [status: Statuses, origin: Origins, reason: Reasons, cost: Nat,
          detected: Nat, observed: Nat, dispatched: Nat,
          gate: Nat \X Nat, row: Nat]

VARIABLES
  actions,      \* github_actions
  events,       \* events[a]: the rows of github_action_events of action a
  claimed,      \* github_webhook_deliveries, oldest first
  sincePrune    \* deliveryInsertsSincePrune (memory of the process)

storeVars == <<actions, events, claimed, sincePrune>>

IsTable(rows) ==
  /\ DOMAIN rows \subseteq EventKey
  /\ IsFiniteSet(DOMAIN rows)
  /\ \A k \in DOMAIN rows : rows[k] \in Event

StoreTypeOK ==
  /\ actions \in [Actions -> Action]
  /\ DOMAIN events = Actions
  /\ \A a \in Actions : IsTable(events[a])
  /\ claimed \in Seq(Nat \ {0})
  /\ sincePrune \in 0..PruneEvery

NoEvents == [k \in {} |-> {}]

-----------------------------------------------------------------------------
(* Events: the clock, the lookups and the writes.                           *)

\* COALESCE(observed_at, detected_at)
Clock(e) == IF e.observed = Null THEN e.detected ELSE e.observed

\* newestObservedEventAt: NULL when the action has nothing for the target
NewestObserved(rows, t) ==
  Max({Null} \cup {Clock(rows[k]) : k \in {j \in DOMAIN rows : j.target = t}})

\* What makes an event the analysis of its commit (hasAnalysedCommit).
Analysed(e) ==
  \/ e.status \in {"dispatching", "launched"}
  \/ e.status \in {"skipped", "failed"} /\ e.gate # NoGate

HasAnalysedCommit(rows, s) == \E k \in DOMAIN rows : k.sha = s /\ Analysed(rows[k])

\* hasGitHubActionEventForHeadSha.  Rows skipped as server_draining, which it
\* passes over, are only left by a release that terminated them.
HasEventForHead(rows, s) == \E k \in DOMAIN rows : k.sha = s

\* createGitHubActionEvent, its INSERT: the row a new event becomes.
NewEvent(rows, status, origin, cost, detected, observed) ==
  [status |-> status, origin |-> origin, reason |-> "none", cost |-> cost,
   detected |-> detected, observed |-> observed, dispatched |-> Null,
   gate |-> NoGate, row |-> Cardinality(DOMAIN rows) + 1]

\* The rows of an action that is past its first run: every open head observed,
\* one row for a commit that is the head of several targets.
Baseline(action) ==
  LET open == {t \in action.follows : t \in Forks => action.forks}
      first == {t \in open : \A u \in open : FirstHead[u] = FirstHead[t] => t <= u}
      keys == {[revision |-> 1, target |-> t, sha |-> FirstHead[t], checkRun |-> Null] :
                 t \in first}
  IN IF action.baseline
     THEN [k \in keys |->
             NewEvent(NoEvents, "observed", "reconciliation", action.cost, 1,
                      IF k.target \in PullRequests THEN 1 ELSE Null)]
     ELSE NoEvents

StoreInit ==
  /\ actions = InitialActions
  /\ events = [a \in Actions |-> Baseline(InitialActions[a])]
  /\ claimed = <<>>
  /\ sincePrune = PruneEvery - 1

\* Mutant of Obsolete: a new head cancels the rest of the queue, older or not.
ObsoleteUnordered(k, e, t, s, before, row) ==
  e.status = "queued" /\ k.target = t /\ k.sha # s

\* supersedeQueuedEvents, its WHERE: queued for the target, at another head, and
\* either older than `before` or, on a tie, inserted before `row`.
Obsolete(k, e, t, s, before, row) ==
  /\ e.status = "queued"
  /\ k.target = t
  /\ k.sha # s
  /\ \/ Clock(e) < before
     \/ Clock(e) = before /\ e.row < row

SupersededAs(e, reason) == [e EXCEPT !.status = "superseded", !.reason = reason]

\* No event of the table has rowid 0: without beforeEventId a tie cancels nothing.
NoRow == 0

SupersedeOlder(rows, t, s, before, row) ==
  [k \in DOMAIN rows |->
     IF Obsolete(k, rows[k], t, s, before, row)
     THEN SupersededAs(rows[k], "head_superseded") ELSE rows[k]]

\* The same statement for a closed pull request: the whole queue, no clock.
SupersedeClosed(rows, t) ==
  [k \in DOMAIN rows |->
     IF rows[k].status = "queued" /\ k.target = t
     THEN SupersededAs(rows[k], "pull_request_closed") ELSE rows[k]]

Insert(rows, k, e) == [j \in DOMAIN rows \cup {k} |-> IF j = k THEN e ELSE rows[j]]

-----------------------------------------------------------------------------
(* Rows across actions.  A row of the whole table is <<action, key>>.       *)

Rows == UNION {{a} \X DOMAIN events[a] : a \in Actions}

HasRow(r) == r[2] \in DOMAIN events[r[1]]
Row(r) == events[r[1]][r[2]]
StatusOf(r) == Row(r).status

\* patchGitHubActionEvent: an UPDATE of a row a cascade deleted changes nothing.
Patched(r, e) ==
  IF HasRow(r) THEN [events EXCEPT ![r[1]] = [@ EXCEPT ![r[2]] = e]] ELSE events

Day(time) == time \div DayLength

\* Mutant of Booked: a failure gives its reservation back.
BookedUnlessFailed(e) == e.status \in {"dispatching", "launched"}

\* The statuses that hold a reservation.  `failed` counts: a failure is
\* ambiguity after the launch, and the run may be spending.
Booked(e) == e.status \in {"dispatching", "launched", "failed"}

ReservedRows(day) ==
  {r \in Rows : Booked(Row(r)) /\ Row(r).dispatched # Null
                               /\ Day(Row(r).dispatched) = day}

\* reservedGitHubActionCostForUtcDay, and the SUM inside the reservation: the
\* ceilings are summed by counting their units.
ReservedUnits(day) == UNION {{r} \X (1..Row(r).cost) : r \in ReservedRows(day)}

ReservedOn(day) == Cardinality(ReservedUnits(day))

DailyCap(a) == IF actions[a].daily = Null THEN actions[a].cost ELSE actions[a].daily

\* The WHERE of reserveGitHubActionEventDispatch.
CanReserve(r) ==
  LET a == r[1] IN
  /\ StatusOf(r) = "queued"
  /\ actions[a].enabled
  /\ actions[a].revision = r[2].revision
  /\ ReservedOn(Day(now)) + actions[a].cost <= DailyCap(a)

\* Mutant of OrphansFailed: an orphan is retried.
OrphansRetried(live) ==
  [a \in Actions |-> [k \in DOMAIN events[a] |->
     IF events[a][k].status = "dispatching" /\ <<a, k>> \notin live
     THEN [events[a][k] EXCEPT !.status = "queued"] ELSE events[a][k]]]

\* Mutant of OrphansFailed: the sweep does not spare what is running.
AllDispatchingFailed(live) ==
  [a \in Actions |-> [k \in DOMAIN events[a] |->
     IF events[a][k].status = "dispatching"
     THEN [events[a][k] EXCEPT !.status = "failed"] ELSE events[a][k]]]

\* failOrphanedGitHubActionDispatches
OrphansFailed(live) ==
  [a \in Actions |-> [k \in DOMAIN events[a] |->
     IF events[a][k].status = "dispatching" /\ <<a, k>> \notin live
     THEN [events[a][k] EXCEPT !.status = "failed"] ELSE events[a][k]]]

-----------------------------------------------------------------------------
(* Deliveries: recordWebhookDelivery.                                       *)

Claimed(id) == \E i \in DOMAIN claimed : claimed[i] = id

Newest(s, n) == IF Len(s) <= n THEN s ELSE SubSeq(s, Len(s) - n + 1, Len(s))

RecordDelivery(id) ==
  IF sincePrune + 1 >= PruneEvery
  THEN /\ claimed' = Newest(Append(claimed, id), Retention)
       /\ sincePrune' = 0
  ELSE /\ claimed' = Append(claimed, id)
       /\ sincePrune' = sincePrune + 1

-----------------------------------------------------------------------------
(* What the operator does to an action.                                     *)

\* Mutant of Observing: the baseline survives the edit.
ObservingOnBaseline(action, follows, forks) ==
  [action EXCEPT !.follows = follows, !.forks = forks, !.revision = @ + 1]

\* Editing what an action observes bumps the revision and forgets the baseline.
Observing(action, follows, forks) ==
  [action EXCEPT !.follows = follows, !.forks = forks,
                 !.revision = @ + 1, !.baseline = FALSE]

PatchObserved(a, follows, forks) ==
  /\ "observe" \in Edits
  /\ actions[a].exists
  /\ actions[a].revision < MaxRevision
  /\ <<follows, forks>> # <<actions[a].follows, actions[a].forks>>
  /\ actions' = [actions EXCEPT ![a] = Observing(@, follows, forks)]
  /\ UNCHANGED <<events, claimed, sincePrune>>

PatchEnabled(a) ==
  /\ "toggle" \in Edits
  /\ actions[a].exists
  /\ actions' = [actions EXCEPT ![a].enabled = ~@]
  /\ UNCHANGED <<events, claimed, sincePrune>>

PatchCost(a, cost) ==
  /\ "cost" \in Edits
  /\ actions[a].exists
  /\ actions[a].cost # cost
  /\ actions' = [actions EXCEPT ![a].cost = cost]
  /\ UNCHANGED <<events, claimed, sincePrune>>

\* ON DELETE CASCADE takes the events, and their reservations, along.
DeleteAction(a) ==
  /\ "delete" \in Edits
  /\ actions[a].exists
  /\ actions' = [actions EXCEPT ![a].exists = FALSE, ![a].enabled = FALSE]
  /\ events' = [events EXCEPT ![a] = NoEvents]
  /\ UNCHANGED <<claimed, sincePrune>>

\* Mutant of AllDisabled: the repository's actions are left as they are.
NoneDisabled == actions

\* disableGitHubActionsForRepository: the revision is left alone.
AllDisabled == [a \in Actions |-> [actions[a] EXCEPT !.enabled = FALSE]]
=============================================================================
