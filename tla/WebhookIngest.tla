---------------------------- MODULE WebhookIngest ----------------------------
(***************************************************************************)
(* ingestGitHubWebhook of apps/api/src/github-actions/webhook-ingest.ts and *)
(* rerunGitHubActionGate of rerun.ts: one verified delivery, in the one     *)
(* IMMEDIATE transaction that claims its id, records its events, supersedes *)
(* what they make obsolete, and (after the commit, in the same turn) hands  *)
(* the created events to the dispatcher.  The signature is verified before  *)
(* the transaction, so only deliveries GitHub sent reach this module.       *)
(***************************************************************************)
EXTENDS ActionDispatch

\* MAX_CHANGE_AGE_MS: 24 hours
TooOld(d) == d.observed # Null /\ now - d.observed > DayLength

Matched(d) == {a \in Actions : actions[a].exists /\ d.target \in actions[a].follows}

\* A fork needs the opt-in of each action.
Eligible(d) == {a \in Matched(d) : d.target \in Forks => actions[a].forks}

\* The ordering guard: older than what the action already has for the target.
Overtaken(a, d) == d.observed < NewestObserved(events[a], d.target)

HeadKey(a, d) == [revision |-> actions[a].revision, target |-> d.target,
                  sha |-> d.sha, checkRun |-> Null]

\* The actions for which a change creates an event.
Creating(d) ==
  {a \in Eligible(d) : /\ ~Overtaken(a, d)
                       /\ actions[a].enabled
                       /\ HeadKey(a, d) \notin DOMAIN events[a]}

\* A disabled action records nothing, but its queue must not outlive its head.
OnlySuperseding(d) == {a \in Eligible(d) : ~Overtaken(a, d) /\ ~actions[a].enabled}

HeadEvent(a, d) ==
  NewEvent(events[a],
           IF HasAnalysedCommit(events[a], d.sha) THEN "skipped" ELSE "queued",
           "webhook", actions[a].cost, now, d.observed)

\* createEvents, for one action: record the head, then cancel what is older.
HeadRecorded(a, d) ==
  LET new == HeadEvent(a, d)
  IN Insert(SupersedeOlder(events[a], d.target, d.sha, d.observed, new.row),
            HeadKey(a, d), new)

ChangeDelivered(d) ==
  /\ d.kind = "change"
  /\ ~TooOld(d)
  /\ events' = [a \in Actions |->
       IF a \in Creating(d) THEN HeadRecorded(a, d)
       ELSE IF a \in OnlySuperseding(d)
       THEN SupersedeOlder(events[a], d.target, d.sha, d.observed, NoRow)
       ELSE events[a]]
  /\ turn' = {<<a, HeadKey(a, d)>> : a \in
                {b \in Creating(d) : HeadEvent(b, d).status = "queued"}}
  /\ UNCHANGED actions

\* A closed pull request stops its queue, whatever the clocks say, and for the
\* actions that are disabled or do not scan forks too.
ClosedDelivered(d) ==
  /\ d.kind = "closed"
  /\ ~TooOld(d)
  /\ events' = [a \in Actions |-> IF a \in Matched(d)
                                  THEN SupersedeClosed(events[a], d.target)
                                  ELSE events[a]]
  /\ UNCHANGED <<turn, actions>>

StaleDelivered(d) == TooOld(d) /\ UNCHANGED <<events, turn, actions>>

\* The repository left the installation: its actions stay, disabled.
RemovedDelivered(d) ==
  /\ d.kind = "removed"
  /\ actions' = AllDisabled
  /\ UNCHANGED <<events, turn>>

\* findGitHubActionEventByGateId: the row a gate id belongs to.
RowsOfGate(gate) == {r \in Rows : Row(r).gate = gate}

MayRerun(r) ==
  /\ actions[r[1]].enabled
  /\ r[2].target \in Forks => actions[r[1]].forks

RerunKey(r, d) == [revision |-> actions[r[1]].revision, target |-> r[2].target,
                   sha |-> d.sha, checkRun |-> d.checkRun]

\* A rerun is judged by today's action and is exempt from the repeated commit.
RerunDelivered(d) ==
  /\ d.kind = "rerequested"
  /\ \/ \E r \in RowsOfGate(d.gate) :
          LET a == r[1]
              new == NewEvent(events[a], "queued", "manual", actions[a].cost, now, now)
          IN /\ MayRerun(r)
             /\ RerunKey(r, d) \notin DOMAIN events[a]
             /\ events' = [events EXCEPT ![a] = Insert(@, RerunKey(r, d), new)]
             /\ turn' = {<<a, RerunKey(r, d)>>}
     \/ /\ \A r \in RowsOfGate(d.gate) :
             MayRerun(r) => RerunKey(r, d) \in DOMAIN events[r[1]]
        /\ UNCHANGED <<events, turn>>
  /\ UNCHANGED actions

\* A delivery whose id is claimed is rolled back as a duplicate.
Deliver(d) ==
  /\ d \in sent
  /\ turn = {}
  /\ ~Claimed(d.id)
  /\ RecordDelivery(d.id)
  /\ \/ StaleDelivered(d)
     \/ ChangeDelivered(d)
     \/ ClosedDelivered(d)
     \/ RemovedDelivered(d)
     \/ RerunDelivered(d)
  /\ UNCHANGED <<draining, disp, gates>>
=============================================================================
