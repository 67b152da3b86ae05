------------------------------ MODULE OpsAlerts ------------------------------
(***************************************************************************)
(* The operational alerts: apps/api/src/email/ops-notifications.ts, its     *)
(* table ops-alert-store.ts and the loop that samples three conditions      *)
(* (no engine can scan, a connection is broken, a gate is not published).   *)
(*                                                                         *)
(* Times are kept relative: how long before now a row's activeSince and     *)
(* lastSentAt lie, up to the window that still matters.  A message is told  *)
(* when it is in the outbox; EmailOutbox says what becomes of it.  A closed *)
(* row reads like no row in every statement, so it is none.                 *)
(***************************************************************************)
EXTENDS Integers

CONSTANTS
  Engine,       \* OPS_ENGINE_TARGET
  Connections,  \* the ids of provider connections
  Gates,        \* the ids of gates the server runs and publishes
  Grace,        \* OPS_ENGINE_GRACE_MS, OPS_CONNECTION_GRACE_MS
  Repeat,       \* OPS_ALERT_REPEAT_MS
  ProbeTtl,     \* OPS_ENGINE_PROBE_TTL_MS
  MaxLag,       \* bound: how long a scanner probe keeps a pass waiting
  MaxCalls,     \* bound: publications of one gate in flight at once
  MailTurns,    \* may the switch, or the set of recipients, change?
  WritesFail,   \* may a condition's statements throw?
  None          \* no row, no stamp, no message, no memo

Targets == {Engine} \cup Connections \cup Gates

ASSUME OpsAssumption ==
  /\ Engine \notin Connections \cup Gates /\ Connections \cap Gates = {}
  /\ Grace \in Nat /\ Repeat \in Nat \ {0} /\ ProbeTtl \in Nat /\ MaxLag \in Nat
  /\ MaxCalls \in Nat
  /\ MailTurns \in BOOLEAN /\ WritesFail \in BOOLEAN
  /\ None \notin Nat /\ None \notin {"alert", "over"}
  /\ None \notin [since: Nat, sent: Nat \cup {None}]

VARIABLES
  engine,      \* can the host run a scanner?
  connection,  \* connection[c]: its status
  gate,        \* gate[g]: its publish_status, the publications that wait for
               \* GitHub, and does it still exist?
  mail,        \* the switch of the outbox and whether an administrator listens
  rows,        \* ops_alert_state
  pass,        \* the tick in flight and the scanner probe it awaits
  memo,        \* cachedProbe
  last,        \* last[t]: the last message about t (history)
  streak       \* streak[t]: how long ago the samples of t began to say active,
               \* or None when the last one said it is not (history)

world == <<engine, connection, gate, mail>>
vars == <<engine, connection, gate, mail, rows, pass, memo, last, streak>>

Least(a, b) == IF a < b THEN a ELSE b

\* An interval longer than every window reads like the longest one.
Ages == 0..(Grace + MaxLag)
Quiets == 0..(Repeat + MaxLag)

\* since: activeSince; sent: lastSentAt
OpenRow == [since: Ages, sent: Quiets \cup {None}]

Gate == [check: {"none", "publishing", "failed", "published"},
         calls: 0..MaxCalls, exists: BOOLEAN]

TypeOK ==
  /\ engine \in BOOLEAN
  /\ connection \in [Connections -> {"ready", "setup", "broken", "deleted"}]
  /\ gate \in [Gates -> Gate]
  /\ mail \in {"on", "off", "unread"}
  /\ rows \in [Targets -> OpenRow \cup {None}]
  /\ pass \in [at: {"idle", "probing"}, lag: 0..MaxLag, up: BOOLEAN]
  /\ memo \in [up: BOOLEAN, age: 0..ProbeTtl] \cup {None}
  /\ last \in [Targets -> [kind: {None, "alert", "over"}, ago: Quiets]]
  /\ streak \in [Targets -> Ages \cup {None}]

Idle == [at |-> "idle", lag |-> 0, up |-> TRUE]

Init ==
  /\ engine = TRUE
  /\ connection \in [Connections -> {"ready", "deleted"}]
  /\ gate \in [Gates -> {[check |-> "none", calls |-> 0, exists |-> e] : e \in BOOLEAN}]
  /\ mail = "on"
  /\ rows = [t \in Targets |-> None]
  /\ pass = Idle
  /\ memo = None
  /\ last = [t \in Targets |-> [kind |-> None, ago |-> 0]]
  /\ streak = [t \in Targets |-> None]

-----------------------------------------------------------------------------
(* One sample of one condition: stepOpsCondition.  `lag` is the time since   *)
(* the `now` it was given was read.                                          *)

GraceOf(t) == IF t \in Gates THEN 0 ELSE Grace

\* queueOps writes at least one message.
Heard == mail = "on"

Ongoing(t) == rows[t] # None

\* The row of the episode the sample belongs to, one that starts now if need be.
Episode(t, lag) == IF Ongoing(t) THEN rows[t] ELSE [since |-> lag, sent |-> None]

InGrace(t, lag) == Episode(t, lag).since - lag < GraceOf(t)

InWindow(t, lag) ==
  LET sent == Episode(t, lag).sent
  IN sent # None /\ sent - lag < Repeat

\* Mutant of AlertRow: the window is spent whoever received the alert.
AlertRowSpent(t, lag) == [Episode(t, lag) EXCEPT !.sent = lag]

\* Past the grace period, with no alert in the window: the row takes the stamp of
\* the send only if somebody was sent something.
AlertRow(t, lag) ==
  IF Heard THEN [Episode(t, lag) EXCEPT !.sent = lag] ELSE Episode(t, lag)

ActiveRow(t, lag) ==
  IF InGrace(t, lag) \/ InWindow(t, lag) THEN Episode(t, lag) ELSE AlertRow(t, lag)

\* Mutant of OverRow: the episode is closed whether its end was told or not.
OverRowAlways(t) == None

\* Mutant of OverRow: a blip nobody was told about is kept.
OverRowKept(t) ==
  IF Ongoing(t) /\ rows[t].sent = None THEN rows[t] ELSE IF Heard THEN None ELSE rows[t]

\* The end of an episode closes its row when nobody was told it began, or when
\* somebody is told it is over.
OverRow(t) ==
  IF ~Ongoing(t) \/ rows[t].sent = None \/ Heard THEN None ELSE rows[t]

\* publishCondition: a gate that was deleted is forgotten, not announced.
Deleted(t) == t \in Gates /\ ~gate[t].exists

SampledRow(t, active, lag) ==
  IF Deleted(t) THEN None ELSE IF active THEN ActiveRow(t, lag) ELSE OverRow(t)

\* The message the sample writes.
Told(t, active, lag) ==
  IF ~Heard \/ Deleted(t) THEN None
  ELSE IF active THEN IF InGrace(t, lag) \/ InWindow(t, lag) THEN None ELSE "alert"
  ELSE IF Ongoing(t) /\ rows[t].sent # None THEN "over" ELSE None

LastAfter(t, active, lag) ==
  IF Told(t, active, lag) = None THEN last[t]
  ELSE [kind |-> Told(t, active, lag), ago |-> lag]

StreakAfter(t, active, lag) ==
  IF ~active \/ Deleted(t) THEN None ELSE IF streak[t] = None THEN lag ELSE streak[t]

\* The samples of the targets in ts, of which those in `active` are found active;
\* what a throw leaves unsampled keeps its row.
Sampled(ts, active, lag) ==
  /\ rows' = [t \in Targets |->
       IF t \in ts THEN SampledRow(t, t \in active, lag[t]) ELSE rows[t]]
  /\ last' = [t \in Targets |->
       IF t \in ts THEN LastAfter(t, t \in active, lag[t]) ELSE last[t]]
  /\ streak' = [t \in Targets |->
       IF t \in ts THEN StreakAfter(t, t \in active, lag[t]) ELSE streak[t]]

-----------------------------------------------------------------------------
(* The evaluator.                                                            *)

\* With e-mail off and no open episode a pass has nothing to do.
Skipped == mail = "off" /\ \A t \in Targets : ~Ongoing(t)

\* Mutant of Fresh: an answer is reused until the process ends.
FreshForever == memo # None

Fresh == memo # None /\ memo.age < ProbeTtl

\* runOpsEvaluatorTick up to its await: `now` is read, then the probe is asked or
\* the one before it reused.
TickStarts ==
  /\ pass.at = "idle"
  /\ ~Skipped
  /\ pass' = [at |-> "probing", lag |-> 0, up |-> IF Fresh THEN memo.up ELSE engine]
  /\ memo' = IF Fresh THEN memo ELSE [up |-> engine, age |-> 0]
  /\ UNCHANGED <<world, rows, last, streak>>

Routed == \E c \in Connections : connection[c] = "ready"

\* What the samples of a pass find.  The scanners are as the probe found them, the
\* connections and gates as they are.
Active ==
  {t \in {Engine} : ~pass.up /\ ~Routed}
    \cup {c \in Connections : connection[c] = "broken"}
    \cup {g \in Gates : gate[g].check = "failed"}

\* Only the engine's `now` is older than the answer of the probe.
Lag == [t \in Targets |-> IF t = Engine THEN pass.lag ELSE 0]

\* evaluatePublishRecovery looks only at the gates whose failure the hook has seen.
Watched(t) == t \in Gates => Ongoing(t)

\* The rest of the pass, without another await.
PassEnds(missed) ==
  /\ pass.at = "probing"
  /\ Sampled({t \in Targets \ missed : Watched(t)}, Active, Lag)
  /\ pass' = Idle
  /\ UNCHANGED <<world, memo>>

PassFails == WritesFail /\ \E missed \in SUBSET Targets \ {{}} : PassEnds(missed)

\* The probe rejects: the next pass asks again.
ProbeFails ==
  /\ WritesFail
  /\ pass.at = "probing"
  /\ Sampled({t \in Targets \ {Engine} : Watched(t)}, Active, Lag)
  /\ pass' = Idle /\ memo' = None
  /\ UNCHANGED world

\* The process exits: the tick, the memo and the calls are in memory, the rows not.
Restart ==
  /\ pass # Idle \/ memo # None \/ \E g \in Gates : gate[g].calls > 0
  /\ pass' = Idle /\ memo' = None
  /\ gate' = [g \in Gates |-> [gate[g] EXCEPT !.calls = 0]]
  /\ UNCHANGED <<engine, connection, mail, rows, last, streak>>

\* An engine update clears the memo; the pass in flight keeps its answer.
EngineUpdated ==
  /\ memo # None
  /\ engine' \in BOOLEAN /\ memo' = None
  /\ UNCHANGED <<connection, gate, mail, rows, pass, last, streak>>

-----------------------------------------------------------------------------
(* A gate's publication, and the hook of a failed one.                       *)

\* notifyGitHubPublishFailed: the hook samples the gate as active, or throws.
Hook(g) ==
  \/ Sampled({g}, {g}, [t \in Targets |-> 0])
  \/ WritesFail /\ UNCHANGED <<rows, last, streak>>

\* A gate publishes its check, or POST /guardrails/gates/:id/publish tries again,
\* whether another try waits or not.
PublishStarts(g) ==
  /\ gate[g].exists /\ gate[g].calls < MaxCalls
  /\ gate' = [gate EXCEPT ![g].check = "publishing", ![g].calls = @ + 1]
  /\ UNCHANGED <<engine, connection, mail, rows, pass, memo, last, streak>>

\* The answer of GitHub, for a gate that may be gone.
Answered(g, check) ==
  /\ gate[g].calls > 0
  /\ gate' = [gate EXCEPT ![g].check = check, ![g].calls = @ - 1]

Published(g) ==
  /\ Answered(g, "published")
  /\ UNCHANGED <<engine, connection, mail, rows, pass, memo, last, streak>>

\* The row first, then the hook.
PublishFails(g) ==
  /\ Answered(g, "failed")
  /\ Hook(g)
  /\ UNCHANGED <<engine, connection, mail, pass, memo>>

\* publishGateComment, or POST /guardrails/gates/:id/comment: the hook is called for
\* a gate whose publish_status says nothing of it, and which may be gone.
CommentFails(g) ==
  /\ Hook(g)
  /\ UNCHANGED <<world, pass, memo>>

\* DELETE /guardrails/gates/:id, of an ended gate: one that was cancelled, or is
\* published again, may still wait for GitHub.
DeleteGate(g) ==
  /\ gate[g].exists
  /\ gate' = [gate EXCEPT ![g].exists = FALSE]
  /\ UNCHANGED <<engine, connection, mail, rows, pass, memo, last, streak>>

-----------------------------------------------------------------------------
(* The world and the clock.                                                  *)

EngineChanges ==
  /\ engine' = ~engine
  /\ UNCHANGED <<connection, gate, mail, rows, pass, memo, last, streak>>

ConnectionChanges(c) ==
  /\ connection[c] # "deleted"
  /\ \E status \in {"ready", "setup", "broken", "deleted"} \ {connection[c]} :
       connection' = [connection EXCEPT ![c] = status]
  /\ UNCHANGED <<engine, gate, mail, rows, pass, memo, last, streak>>

MailChanges ==
  /\ MailTurns
  /\ mail' \in {"on", "off", "unread"} \ {mail}
  /\ UNCHANGED <<engine, connection, gate, rows, pass, memo, last, streak>>

Older(age, longest) == IF age = None THEN None ELSE Least(age + 1, longest)

\* A probe has a timeout, so a pass does not wait for ever.
ClockTick ==
  /\ pass.at = "idle" \/ pass.lag < MaxLag
  /\ rows' = [t \in Targets |->
       IF Ongoing(t) THEN [since |-> Older(rows[t].since, Grace + MaxLag),
                           sent |-> Older(rows[t].sent, Repeat + MaxLag)]
       ELSE None]
  /\ last' = [t \in Targets |->
       IF last[t].kind = None THEN last[t]
       ELSE [last[t] EXCEPT !.ago = Older(@, Repeat + MaxLag)]]
  /\ streak' = [t \in Targets |-> Older(streak[t], Grace + MaxLag)]
  /\ pass' = IF pass.at = "idle" THEN pass ELSE [pass EXCEPT !.lag = @ + 1]
  /\ memo' = IF memo = None THEN None ELSE [memo EXCEPT !.age = Least(@ + 1, ProbeTtl)]
  /\ UNCHANGED world

Evaluator == TickStarts \/ PassEnds({}) \/ PassFails \/ ProbeFails

Publication == \E g \in Gates :
  \/ PublishStarts(g) \/ Published(g) \/ PublishFails(g)
  \/ CommentFails(g) \/ DeleteGate(g)

World ==
  \/ EngineChanges \/ MailChanges \/ EngineUpdated
  \/ \E c \in Connections : ConnectionChanges(c)

Next == Evaluator \/ Publication \/ World \/ Restart \/ ClockTick

Spec == Init /\ [][Next]_vars

\* A tick is a timer of the process, and a pass that fails or is cut off by a restart
\* is followed by another; not all of them are.
FairSpec ==
  /\ Spec
  /\ WF_vars(TickStarts) /\ SF_vars(PassEnds({})) /\ WF_vars(ClockTick)

-----------------------------------------------------------------------------
(* Properties.                                                               *)

NewAlert(t) ==
  last'[t].kind = "alert" /\ (last[t].kind # "alert" \/ last'[t].ago < last[t].ago)

NewOver(t) ==
  last'[t].kind = "over" /\ (last[t].kind # "over" \/ last'[t].ago < last[t].ago)

\* A row says that an alert went out exactly while somebody knows of a condition and
\* has not heard of its end, and dates the window from that message: no window is
\* spent on a message nobody received, no announced outage is forgotten
\* (stepOpsCondition), whatever the switch and restarts do.  A deleted gate is.
RowRemembersAlert == \A t \in Targets :
  ~Deleted(t) =>
    /\ last[t].kind = "alert" <=> Ongoing(t) /\ rows[t].sent # None
    /\ last[t].kind = "alert" => rows[t].sent = last[t].ago

\* Two alerts with nothing between them are a window apart (OPS_ALERT_REPEAT_MS).
AlertsSpaced == [][\A t \in Targets :
  NewAlert(t) /\ last[t].kind = "alert" => last[t].ago - last'[t].ago >= Repeat]_vars

\* Nobody hears of the end of what nobody heard of, nor twice of one end.
OverFollowsAlert == [][\A t \in Targets : NewOver(t) => last[t].kind = "alert"]_vars

\* The first alert of an episode follows a grace period in which every sample said
\* that the condition lasts: a blink is no outage.
FirstAlertAfterGrace == [][\A t \in Targets :
  NewAlert(t) /\ last[t].kind # "alert" =>
    streak'[t] # None /\ streak'[t] - last'[t].ago >= GraceOf(t)]_vars

\* "an engine that blinks is not an outage" (ops-notifications.ts, above
\* OPS_ENGINE_GRACE_MS), of every alert.
AlertAfterGrace == [][\A t \in Targets :
  NewAlert(t) => streak'[t] # None /\ streak'[t] - last'[t].ago >= GraceOf(t)]_vars

Down(t) ==
  CASE t = Engine -> ~engine /\ ~Routed
    [] t \in Connections -> connection[t] = "broken"
    [] OTHER -> gate[t].check = "failed"

\* While the engine or a connection is down and somebody listens, the alerts go on.
OutageKeepsBeingTold == \A t \in {Engine} \cup Connections :
  <>[](Down(t) /\ Heard) => []<><<NewAlert(t)>>_vars

EndTold(t) == []<>(last[t].kind # "alert")

\* When an announced condition stays over and somebody listens, its end is told.  For
\* the engine that is a scanner, or a provider, that stays: a sample joins an older
\* answer of the probe to the connections of now.
EndIsTold ==
  /\ \A t \in Targets \ {Engine} : <>[](~Down(t) /\ Heard /\ ~Deleted(t)) => EndTold(t)
  /\ <>[](engine /\ Heard) => EndTold(Engine)
  /\ <>[](Routed /\ Heard) => EndTold(Engine)

\* The all-clear of a gate means that its check reached GitHub: "Closes the alerts
\* whose gate has since published" (evaluatePublishRecovery).
OverMeansPublished == [][\A g \in Gates : NewOver(g) => gate[g].check = "published"]_vars
=============================================================================
