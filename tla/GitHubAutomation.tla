-------------------------- MODULE GitHubAutomation --------------------------
(***************************************************************************)
(* The whole GitHub automation: webhook deliveries, the reconciliation      *)
(* cycle, the dispatches in flight, the operator's edits, a shutdown and    *)
(* restarts, over the shared tables of ActionStore.                         *)
(***************************************************************************)
EXTENDS WebhookIngest, ActionReconciler

CONSTANT MaxRestarts  \* bound: how often the process exits and boots

ASSUME RestartAssumption == MaxRestarts \in Nat

VARIABLES
  restarts,  \* how often the process has restarted
  backlog    \* backlog[a]: open heads that were there when a began observing as
             \* it does now, and that have not changed since (history)

vars == <<remoteVars, storeVars, dispatchVars, rec, restarts, backlog>>

Heads(follows) == {<<t, tip[t].sha>> : t \in {u \in follows : tip[u].open}}

\* A head that moves, or whose pull request closes, is no backlog any more.
Changed(t) == backlog' = [a \in Actions |-> {h \in backlog[a] : h[1] # t}]

TypeOK ==
  /\ RemoteTypeOK
  /\ StoreTypeOK
  /\ DispatchTypeOK
  /\ ReconcilerTypeOK
  /\ restarts \in 0..MaxRestarts
  /\ backlog \in [Actions -> SUBSET (Targets \X Shas)]

Init ==
  /\ RemoteInit
  /\ StoreInit
  /\ DispatchInit
  /\ ReconcilerInit
  /\ restarts = 0
  /\ backlog = [a \in Actions |->
                  IF InitialActions[a].baseline THEN {} ELSE Heads(InitialActions[a].follows)]

-----------------------------------------------------------------------------
(* Outside the process.  A turn is too short for the outside to be seen in. *)

Moves(t, s) == Push(t, s) /\ Changed(t)

\* "Re-run" on the check of the n-th gate of action a.
AsksRerun(a, n) ==
  /\ n <= MaxReruns
  /\ Rerequest(gates[a][n].key.target, gates[a][n].key.sha, <<a, n>>, n)
  /\ UNCHANGED backlog

Quiet(t) == (Close(t) \/ Reopen(t)) /\ Changed(t)

Access == (Reach \/ \E t \in Targets : Unreach(t)) /\ UNCHANGED backlog

Passes == Tick /\ UNCHANGED backlog

OutsideStep ==
  /\ turn = {}
  /\ \/ \E t \in Targets : Quiet(t) \/ \E s \in Shas : Moves(t, s)
     \/ \E a \in Actions : \E n \in DOMAIN gates[a] : AsksRerun(a, n)
     \/ Access
     \/ Passes
  /\ UNCHANGED <<storeVars, dispatchVars, rec, restarts>>

-----------------------------------------------------------------------------
(* The operator, through PATCH and DELETE /github/actions/:actionId.        *)

Reobserved(a, follows, forks) ==
  /\ PatchObserved(a, follows, forks)
  /\ backlog' = [backlog EXCEPT ![a] = Heads(follows)]

Edited(a) ==
  /\ \/ PatchEnabled(a)
     \/ \E cost \in CostChoices : PatchCost(a, cost)
     \/ DeleteAction(a)
  /\ UNCHANGED backlog

OperatorStep ==
  /\ turn = {}
  /\ EditsInCycle \/ rec.stage = "idle"
  /\ \E a \in Actions :
       \/ Edited(a)
       \/ \E follows \in FollowChoices, forks \in BOOLEAN : Reobserved(a, follows, forks)
  /\ UNCHANGED <<remoteVars, dispatchVars, rec, restarts>>

-----------------------------------------------------------------------------
(* The process.                                                             *)

DeliveryStep ==
  /\ \E d \in sent : Deliver(d)
  /\ UNCHANGED <<remoteVars, rec, restarts, backlog>>

TurnStep ==
  /\ \E r \in turn : Dispatch(r)
  /\ UNCHANGED <<remoteVars, rec, restarts, backlog>>

AwaitedStep ==
  /\ turn = {}
  /\ DispatchStep
  /\ UNCHANGED <<remoteVars, rec, restarts, backlog>>

CycleStep ==
  /\ ReconcilerStep
  /\ UNCHANGED <<remoteVars, restarts, backlog>>

DrainStep ==
  /\ turn = {}
  /\ restarts < MaxRestarts
  /\ Drain
  /\ UNCHANGED <<remoteVars, rec, restarts, backlog>>

Restart ==
  /\ restarts < MaxRestarts
  /\ restarts' = restarts + 1
  /\ DispatchRestart
  /\ ReconcilerRestart
  /\ UNCHANGED <<remoteVars, backlog>>

Next ==
  \/ OutsideStep \/ OperatorStep
  \/ DeliveryStep \/ TurnStep \/ AwaitedStep \/ CycleStep
  \/ DrainStep \/ Restart

Spec == Init /\ [][Next]_vars

-----------------------------------------------------------------------------
(* Fairness.  The event loop runs what is ready: turns, awaited answers and *)
(* the reconciliation timer.  A listing GitHub is asked for again and again *)
(* is answered once (its clients have timeouts, so an await always ends),   *)
(* and a process that began to drain exits and is started again.            *)

CycleAnswer(stage) ==
  CycleStep /\ rec.stage = stage /\ rec'.stage # "idle"

ScopeAnswer == CycleStep /\ rec.stage = "scope" /\ (reachable \/ actions' = AllDisabled)

Fairness ==
  /\ WF_vars(TurnStep)
  /\ WF_vars(AwaitedStep)
  /\ WF_vars(CycleStep)
  /\ SF_vars(ScopeAnswer)
  /\ SF_vars(CycleAnswer("pulls"))
  /\ SF_vars(CycleAnswer("branches"))
  /\ WF_vars(draining /\ Restart)

FairSpec == Spec /\ Fairness
-----------------------------------------------------------------------------
(* Safety.                                                                  *)

\* An event is launched at most once: neither the webhook's dispatch racing the
\* reconciliation's, nor an orphan sweep, nor a crash after the reservation can
\* create a second gate for it (dispatch.ts, store.ts: "never retried blindly").
LaunchedOnce ==
  \A a \in Actions : \A m, n \in DOMAIN gates[a] :
    gates[a][m].key = gates[a][n].key => m = n

\* A dispatch in flight still owns its row: as long as the row exists it is
\* `dispatching`, so the outcome is written over nobody else's verdict
\* (dispatch.ts: the patches that end a dispatch do not look at the row).
FlightOwnsItsRow ==
  \A r \in InFlight : HasRow(r) => StatusOf(r) = "dispatching"

\* A launched row names a gate that was created for it.
LaunchedNamesItsGate ==
  \A r \in Rows : StatusOf(r) = "launched" =>
    LET g == Row(r).gate
    IN g[1] = r[1] /\ g[2] \in DOMAIN gates[g[1]] /\ gates[g[1]][g[2]].key = r[2]

\* A deleted action takes its reservations, and what they paid for, with it.
GatesOfDay(day) ==
  {g \in UNION {{a} \X DOMAIN gates[a] : a \in {b \in Actions : actions[b].exists}} :
     gates[g[1]][g[2]].day = day}

SpentUnits(day) == UNION {{g} \X (1..gates[g[1]][g[2]].cost) : g \in GatesOfDay(day)}

SpentOn(day) == Cardinality(SpentUnits(day))

\* What the gates launched on the reservations of one UTC day may cost never
\* exceeds the largest daily cap an action of the repository has (store.ts: "this
\* repository may reserve at most $X today").
SpendWithinCap ==
  \A day \in 0..Day(MaxTime) :
    SpentOn(day) > 0 => \E a \in Actions : SpentOn(day) <= DailyCap(a)

\* The event that records the latest change of an open target is never cancelled
\* by something older (design: a late delivery never cancels the current head).
CurrentHeadKept ==
  \A r \in Rows :
    LET t == tip[r[2].target]
    IN ~ /\ StatusOf(r) = "superseded"
         /\ t.open /\ t.sha = r[2].sha
         /\ t.clock # 0 /\ Row(r).observed = t.clock

\* The same commit is never paid for twice by one action, reruns aside (store.ts
\* at hasAnalysedCommit).
PaidOncePerCommit ==
  \A a \in Actions : \A m, n \in DOMAIN gates[a] :
    /\ gates[a][m].key.sha = gates[a][n].key.sha
    /\ "manual" \notin {gates[a][m].origin, gates[a][n].origin}
    => m = n

-----------------------------------------------------------------------------
(* What a step may never do.                                                *)

EventRows == Actions \X EventKey

StatusSeen(r) ==
  IF HasRow(r) THEN StatusOf(r) ELSE IF actions[r[1]].exists THEN "absent" ELSE "gone"

GatesFor(r) == {n \in DOMAIN gates[r[1]] : gates[r[1]][n].key = r[2]}

Lifecycle == INSTANCE EventLifecycle WITH
  EventIds <- EventRows,
  status   <- [r \in EventRows |-> StatusSeen(r)],
  charges  <- [r \in EventRows |-> Cardinality(GatesFor(r))]

\* The automation implements the lifecycle an event is promised: a terminal event
\* is never reopened, only a reservation without a gate is given back, and a gate
\* is created once, on a live reservation.
EventsFollowLifecycle == Lifecycle!Spec

NewGates == {g \in UNION {{a} \X DOMAIN gates'[a] : a \in Actions} :
               g[2] \notin DOMAIN gates[g[1]]}

GateMade(g) == gates'[g[1]][g[2]]

\* A gate is only ever created by an enabled action, for a fork only with the
\* opt-in still given, and for a target its action follows at that moment, unless
\* a person asked for the re-run (rerun.ts mints it at the revision that is live,
\* whatever the patterns have become): the revision re-read after the preview
\* stands for all of it.
CreatedWithinScope ==
  [][\A g \in NewGates :
       LET a == actions[g[1]]
           t == GateMade(g).key.target
       IN /\ a.enabled
          /\ t \in Forks => a.forks
          /\ GateMade(g).origin # "manual" => t \in a.follows]_vars

\* A head that was already there when the action began observing what it observes
\* now is never charged by the reconciliation (store.ts at patchGitHubAction: "as
\* observed instead of charging for a backlog nobody asked to rescan").
BacklogNotCharged ==
  [][\A g \in NewGates :
       GateMade(g).origin = "reconciliation" =>
         <<GateMade(g).key.target, GateMade(g).key.sha>> \notin backlog[g[1]]]_vars

-----------------------------------------------------------------------------
(* Liveness.                                                                *)

Wants(a, t, s) ==
  /\ actions[a].enabled
  /\ t \in actions[a].follows
  /\ t \in Forks => actions[a].forks
  /\ tip[t].open /\ tip[t].sha = s
  /\ reachable

\* A head an enabled action follows is recorded even if every delivery about it is
\* lost, refused or late, and even if the process dies meanwhile (reconciler.ts:
\* the safety net under the webhook).
HeadSeen ==
  \A a \in Actions, t \in Targets, s \in Shas :
    Wants(a, t, s) ~> (HasEventForHead(events[a], s) \/ ~Wants(a, t, s))

\* Is the event reserved, or queued for an action that may launch it?
Pending(a, k) ==
  /\ HasRow(<<a, k>>)
  /\ \/ StatusOf(<<a, k>>) = "dispatching"
     \/ StatusOf(<<a, k>>) = "queued" /\ actions[a].enabled /\ reachable

\* While the day has room, an event does not wait for ever: a dispatch that a
\* draining server refused or a crash never began is taken up by a later cycle, and
\* one whose outcome was not written is ended by the orphan sweep.
EventsSettle == \A a \in Actions : \A k \in EventKey : Pending(a, k) ~> ~Pending(a, k)

\* A repository the installation lost does not keep its actions enabled: GitHub
\* redelivers no installation webhook, the scope read of a cycle notices.
AccessLossObeyed ==
  ~reachable ~> (reachable \/ \A a \in Actions : ~actions[a].enabled)
=============================================================================
