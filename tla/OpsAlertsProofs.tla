--------------------------- MODULE OpsAlertsProofs ---------------------------
(***************************************************************************)
(* What OpsAlerts promises for every set of targets and every window: the   *)
(* table remembers exactly the alerts whose end is still to be told, so     *)
(* that alerts are a window apart, an end follows an alert, and the first   *)
(* alert of an episode a grace period.                                      *)
(***************************************************************************)
EXTENDS OpsAlerts, TLAPS

\* A row agrees with the last message about its target, and a row nobody was told
\* about with the run of samples that still say active.
Agree(row, message, run) ==
  /\ message.kind = "alert" <=> row # None /\ row.sent # None
  /\ message.kind = "alert" => row.sent = message.ago
  /\ row # None /\ row.sent = None => run = row.since
  /\ row = None => run = None

IInv ==
  /\ TypeOK
  /\ \A t \in Targets : ~Deleted(t) => Agree(rows[t], last[t], streak[t])

-----------------------------------------------------------------------------
(* The sample of one target.                                                 *)

LEMMA NoneIsNoRow ==
  /\ None \notin Ages /\ None \notin Quiets /\ None \notin OpenRow
  /\ None # "alert" /\ None # "over"
  /\ Ages \subseteq Nat /\ Quiets \subseteq Nat
<1>1. None \notin Nat /\ None # "alert" /\ None # "over"
  BY OpsAssumption
<1>2. Ages \subseteq Nat /\ Quiets \subseteq Nat
  BY OpsAssumption DEF Ages, Quiets
<1>3. OpenRow \subseteq [since: Nat, sent: Nat \cup {None}]
  BY <1>2 DEF OpenRow
<1> QED BY <1>1, <1>2, <1>3, OpsAssumption

LEMMA Stamped ==
  ASSUME NEW r \in OpenRow, NEW stamp
  PROVE  [r EXCEPT !.sent = stamp].sent = stamp
BY DEF OpenRow

LEMMA ActiveRowOpen ==
  ASSUME TypeOK, NEW t \in Targets, NEW lag \in 0..MaxLag
  PROVE  ActiveRow(t, lag) \in OpenRow
<1>1. lag \in Ages /\ lag \in Quiets
  BY OpsAssumption DEF Ages, Quiets
<1>2. Episode(t, lag) \in OpenRow
  <2>1. CASE Ongoing(t)
    BY <2>1 DEF Episode, Ongoing, TypeOK
  <2>2. CASE ~Ongoing(t)
    BY <2>2, <1>1 DEF Episode, OpenRow
  <2> QED BY <2>1, <2>2
<1>3. AlertRow(t, lag) \in OpenRow
  BY <1>1, <1>2 DEF AlertRow, OpenRow
<1> QED BY <1>2, <1>3 DEF ActiveRow

LEMMA SampleTypes ==
  ASSUME TypeOK, NEW t \in Targets, NEW active \in BOOLEAN, NEW lag \in 0..MaxLag
  PROVE  /\ SampledRow(t, active, lag) \in OpenRow \cup {None}
         /\ LastAfter(t, active, lag) \in [kind: {None, "alert", "over"}, ago: Quiets]
         /\ StreakAfter(t, active, lag) \in Ages \cup {None}
<1>1. lag \in Ages /\ lag \in Quiets
  BY OpsAssumption DEF Ages, Quiets
<1>4. ActiveRow(t, lag) \in OpenRow
  BY ActiveRowOpen
<1>5. OverRow(t) \in OpenRow \cup {None}
  BY DEF OverRow, TypeOK
<1>6. SampledRow(t, active, lag) \in OpenRow \cup {None}
  BY <1>4, <1>5 DEF SampledRow
<1>7. Told(t, active, lag) \in {None, "alert", "over"}
  BY DEF Told
<1>8. LastAfter(t, active, lag) \in [kind: {None, "alert", "over"}, ago: Quiets]
  BY <1>1, <1>7 DEF LastAfter, TypeOK
<1>9. StreakAfter(t, active, lag) \in Ages \cup {None}
  BY <1>1 DEF StreakAfter, TypeOK
<1> QED BY <1>6, <1>8, <1>9

\* What a sample leaves behind agrees with the last message and with the samples.
LEMMA SampleRemembers ==
  ASSUME IInv, NEW t \in Targets, ~Deleted(t),
         NEW active \in BOOLEAN, NEW lag \in 0..MaxLag
  PROVE  Agree(SampledRow(t, active, lag), LastAfter(t, active, lag),
               StreakAfter(t, active, lag))
<1> DEFINE row == SampledRow(t, active, lag)
           message == LastAfter(t, active, lag)
           run == StreakAfter(t, active, lag)
           e == Episode(t, lag)
<1> SUFFICES Agree(row, message, run)
  OBVIOUS
<1>0. /\ lag \in Nat /\ lag # None
      /\ None # "alert" /\ None # "over"
      /\ row \in OpenRow \cup {None} /\ None \notin OpenRow
  BY SampleTypes, NoneIsNoRow, OpsAssumption DEF IInv
<1>1. Agree(rows[t], last[t], streak[t])
  BY DEF IInv
<1>2. CASE active
  <2>1. row = ActiveRow(t, lag)
    BY <1>2 DEF SampledRow
  <2>2. run = IF streak[t] = None THEN lag ELSE streak[t]
    BY <1>2 DEF StreakAfter
  <2>3. e \in OpenRow
    <3>1. CASE Ongoing(t)
      BY <3>1 DEF Episode, Ongoing, IInv, TypeOK
    <3>2. CASE ~Ongoing(t)
      BY <3>2, NoneIsNoRow, OpsAssumption DEF Episode, OpenRow, Ages
    <3> QED BY <3>1, <3>2
  <2>4. e.sent = None => run = e.since
    <3>1. CASE Ongoing(t)
      BY <3>1, <2>2, <1>1, <2>3, NoneIsNoRow DEF Episode, OpenRow, Agree, Ongoing
    <3>2. CASE ~Ongoing(t)
      BY <3>2, <2>2, <1>1 DEF Episode, Agree, Ongoing
    <3> QED BY <3>1, <3>2
  <2>5. CASE InGrace(t, lag) \/ InWindow(t, lag)
    <3>1. row = e /\ message = last[t]
      BY <2>5, <1>2, <2>1, <1>0 DEF ActiveRow, LastAfter, Told
    <3>2. e.sent # None <=> Ongoing(t) /\ rows[t].sent # None
      BY DEF Episode
    <3>3. Ongoing(t) => e = rows[t]
      BY DEF Episode
    <3> QED BY <3>1, <3>2, <3>3, <1>1, <2>3, <2>4, <1>0 DEF Agree, Ongoing
  <2>6. CASE ~InGrace(t, lag) /\ ~InWindow(t, lag) /\ Heard
    <3>1. row = [e EXCEPT !.sent = lag]
      BY <2>6, <2>1 DEF ActiveRow, AlertRow
    <3>2. message = [kind |-> "alert", ago |-> lag]
      BY <2>6, <1>2, <1>0 DEF LastAfter, Told
    <3>3. row.sent = lag
      BY <3>1, <2>3, Stamped
    <3>4. row # None
      BY <2>1, <1>0, ActiveRowOpen DEF IInv
    <3> HIDE DEF row, message, e
    <3> QED BY <3>2, <3>3, <3>4, <1>0 DEF Agree
  <2>7. CASE ~InGrace(t, lag) /\ ~InWindow(t, lag) /\ ~Heard
    <3>1. row = e /\ message = last[t]
      BY <2>7, <2>1 DEF ActiveRow, AlertRow, LastAfter, Told
    <3>2. e.sent # None <=> Ongoing(t) /\ rows[t].sent # None
      BY DEF Episode
    <3>3. Ongoing(t) => e = rows[t]
      BY DEF Episode
    <3> QED BY <3>1, <3>2, <3>3, <1>1, <2>3, <2>4, <1>0 DEF Agree, Ongoing
  <2> QED BY <2>5, <2>6, <2>7
<1>3. CASE ~active
  <2>1. row = OverRow(t) /\ run = None
    BY <1>3 DEF SampledRow, StreakAfter
  <2>2. CASE ~Ongoing(t) \/ rows[t].sent = None
    <3>1. row = None /\ message = last[t]
      BY <2>2, <2>1, <1>3 DEF OverRow, LastAfter, Told
    <3> QED BY <3>1, <2>1, <2>2, <1>1 DEF Agree, Ongoing
  <2>3. CASE Ongoing(t) /\ rows[t].sent # None /\ Heard
    <3>1. row = None
      BY <2>3, <2>1 DEF OverRow
    <3>2. message.kind = "over"
      BY <2>3, <1>3, <1>0 DEF LastAfter, Told
    <3> QED BY <3>1, <3>2, <2>1 DEF Agree
  <2>4. CASE Ongoing(t) /\ rows[t].sent # None /\ ~Heard
    <3>1. row = rows[t] /\ message = last[t]
      BY <2>4, <2>1 DEF OverRow, LastAfter, Told
    <3> QED BY <3>1, <2>1, <2>4, <1>1 DEF Ongoing, Agree
  <2> QED BY <2>2, <2>3, <2>4
<1> QED BY <1>2, <1>3

-----------------------------------------------------------------------------
(* The steps.                                                                *)

\* Nothing brings a gate back.
LEMMA DeletedStays ==
  ASSUME TypeOK, [Next]_vars, NEW t \in Targets, Deleted(t)
  PROVE  Deleted(t)'
<1>1. CASE UNCHANGED gate
  BY <1>1 DEF Deleted
<1>2. ASSUME NEW g \in Gates, NEW c, NEW n,
             gate' = [gate EXCEPT ![g].check = c, ![g].calls = n]
      PROVE  Deleted(t)'
  BY <1>2 DEF Deleted, TypeOK, Gate
<1>3. ASSUME NEW g \in Gates, gate' = [gate EXCEPT ![g].exists = FALSE]
      PROVE  Deleted(t)'
  BY <1>3 DEF Deleted, TypeOK, Gate
<1>4. CASE Evaluator \/ World \/ ClockTick \/ UNCHANGED vars
  BY <1>4, <1>1 DEF Evaluator, World, ClockTick, TickStarts, PassEnds, PassFails,
     ProbeFails, EngineChanges, MailChanges, EngineUpdated, ConnectionChanges, vars, world
<1>5. CASE Restart
  BY <1>5 DEF Restart, Deleted, TypeOK, Gate
<1>6. CASE Publication
  <2>1. PICK g \in Gates :
          \/ PublishStarts(g) \/ Published(g) \/ PublishFails(g)
          \/ CommentFails(g) \/ DeleteGate(g)
    BY <1>6 DEF Publication
  <2>2. CASE PublishStarts(g)
    BY <2>2, <1>2 DEF PublishStarts
  <2>3. CASE Published(g) \/ PublishFails(g)
    BY <2>3, <1>2 DEF Published, PublishFails, Answered
  <2>4. CASE CommentFails(g)
    BY <2>4, <1>1 DEF CommentFails, world
  <2>5. CASE DeleteGate(g)
    BY <2>5, <1>3 DEF DeleteGate
  <2> QED BY <2>1, <2>2, <2>3, <2>4, <2>5
<1> QED BY <1>4, <1>5, <1>6 DEF Next

\* A set of samples keeps what it needs to.
LEMMA SampledKeeps ==
  ASSUME IInv, NEW ts, NEW active, NEW lag \in [Targets -> 0..MaxLag],
         Sampled(ts, active, lag)
  PROVE  /\ rows' \in [Targets -> OpenRow \cup {None}]
         /\ last' \in [Targets -> [kind: {None, "alert", "over"}, ago: Quiets]]
         /\ streak' \in [Targets -> Ages \cup {None}]
         /\ \A t \in Targets : ~Deleted(t) => Agree(rows'[t], last'[t], streak'[t])
<1>1. ASSUME NEW t \in Targets
      PROVE  /\ rows'[t] \in OpenRow \cup {None}
             /\ last'[t] \in [kind: {None, "alert", "over"}, ago: Quiets]
             /\ streak'[t] \in Ages \cup {None}
             /\ ~Deleted(t) => Agree(rows'[t], last'[t], streak'[t])
  <2>1. lag[t] \in 0..MaxLag /\ (t \in active) \in BOOLEAN
    OBVIOUS
  <2>2. CASE t \in ts
    <3>1. /\ rows'[t] = SampledRow(t, t \in active, lag[t])
          /\ last'[t] = LastAfter(t, t \in active, lag[t])
          /\ streak'[t] = StreakAfter(t, t \in active, lag[t])
      BY <2>2 DEF Sampled
    <3>2. TypeOK
      BY DEF IInv
    <3>3. /\ SampledRow(t, t \in active, lag[t]) \in OpenRow \cup {None}
          /\ LastAfter(t, t \in active, lag[t]) \in [kind: {None, "alert", "over"}, ago: Quiets]
          /\ StreakAfter(t, t \in active, lag[t]) \in Ages \cup {None}
      BY <2>1, <3>2, SampleTypes
    <3>4. ~Deleted(t) => Agree(SampledRow(t, t \in active, lag[t]),
                LastAfter(t, t \in active, lag[t]), StreakAfter(t, t \in active, lag[t]))
      BY <2>1, SampleRemembers
    <3> QED BY <3>1, <3>3, <3>4
  <2>3. CASE t \notin ts
    <3>1. rows'[t] = rows[t] /\ last'[t] = last[t] /\ streak'[t] = streak[t]
      BY <2>3 DEF Sampled
    <3> QED BY <3>1 DEF IInv, TypeOK
  <2> QED BY <2>2, <2>3
<1>2. /\ rows' = [t \in Targets |-> rows'[t]] /\ last' = [t \in Targets |-> last'[t]]
      /\ streak' = [t \in Targets |-> streak'[t]]
  BY DEF Sampled
<1> QED BY <1>1, <1>2

LEMMA OlderTypes ==
  ASSUME NEW longest \in Nat, NEW age \in 0..longest
  PROVE  /\ Older(age, longest) \in 0..longest /\ Older(age, longest) >= age
         /\ Older(age, longest) # None
<1>1. age # None /\ age \in Nat
  BY OpsAssumption
<1>2. Older(age, longest) \in 0..longest /\ Older(age, longest) >= age
  BY <1>1 DEF Older, Least
<1> QED BY <1>2, OpsAssumption

LEMMA OlderNone == \A longest : Older(None, longest) = None
BY DEF Older

\* What the clock does to one target.
LEMMA ClockKeeps ==
  ASSUME IInv, ClockTick, NEW t \in Targets
  PROVE  /\ rows'[t] \in OpenRow \cup {None}
         /\ last'[t] \in [kind: {None, "alert", "over"}, ago: Quiets]
         /\ streak'[t] \in Ages \cup {None}
         /\ last'[t].kind = last[t].kind /\ last'[t].ago >= last[t].ago
         /\ Agree(rows[t], last[t], streak[t]) => Agree(rows'[t], last'[t], streak'[t])
<1> DEFINE a == Grace + MaxLag
           q == Repeat + MaxLag
<1>1. /\ rows[t] \in OpenRow \cup {None}
      /\ last[t] \in [kind: {None, "alert", "over"}, ago: Quiets]
      /\ streak[t] \in Ages \cup {None}
  BY DEF IInv, TypeOK
<1>2. a \in Nat /\ q \in Nat /\ Ages = 0..a /\ Quiets = 0..q
  BY OpsAssumption DEF Ages, Quiets
<1>3. streak'[t] = Older(streak[t], a)
  BY DEF ClockTick
<1>4. streak'[t] \in Ages \cup {None}
  BY <1>1, <1>2, <1>3, OlderTypes, OlderNone
<1>5. /\ last'[t] \in [kind: {None, "alert", "over"}, ago: Quiets]
      /\ last'[t].kind = last[t].kind /\ last'[t].ago >= last[t].ago
      /\ last[t].kind # None => last'[t].ago = Older(last[t].ago, q)
  <2>1. CASE last[t].kind = None
    <3>1. last'[t] = last[t] /\ last[t].ago \in 0..q
      BY <2>1, <1>1, <1>2 DEF ClockTick
    <3> QED BY <3>1, <2>1, <1>1, <1>2
  <2>2. CASE last[t].kind # None
    <3>1. last'[t] = [last[t] EXCEPT !.ago = Older(last[t].ago, q)]
      BY <2>2 DEF ClockTick
    <3>2. Older(last[t].ago, q) \in Quiets /\ Older(last[t].ago, q) >= last[t].ago
      BY <1>1, <1>2, OlderTypes
    <3> QED BY <3>1, <3>2, <1>1
  <2> QED BY <2>1, <2>2
<1>6. CASE Ongoing(t)
  <2>1. rows[t] \in OpenRow
    BY <1>6, <1>1 DEF Ongoing
  <2>2. rows'[t] = [since |-> Older(rows[t].since, a), sent |-> Older(rows[t].sent, q)]
    BY <1>6 DEF ClockTick
  <2>3. rows[t].since \in Ages /\ rows[t].sent \in Quiets \cup {None}
    BY <2>1 DEF OpenRow
  <2>4. /\ Older(rows[t].since, a) \in Ages
        /\ Older(rows[t].sent, q) \in Quiets \cup {None}
        /\ Older(rows[t].sent, q) = None <=> rows[t].sent = None
    BY <2>3, <1>2, OlderTypes, OlderNone
  <2>5. rows'[t] \in OpenRow /\ rows'[t] # None
    BY <2>2, <2>4, NoneIsNoRow DEF OpenRow
  <2>6. rows'[t].since = Older(rows[t].since, a) /\ rows'[t].sent = Older(rows[t].sent, q)
    BY <2>2
  <2>7. "alert" # None /\ rows[t] # None
    BY NoneIsNoRow, <1>6 DEF Ongoing
  <2> HIDE DEF a, q
  <2> QED BY <1>3, <1>4, <1>5, <2>4, <2>5, <2>6, <2>7 DEF Agree
<1>7. CASE ~Ongoing(t)
  <2>1. rows[t] = None /\ rows'[t] = None
    BY <1>7 DEF ClockTick, Ongoing
  <2> QED BY <2>1, <1>3, <1>4, <1>5, OlderNone DEF Agree
<1> QED BY <1>6, <1>7

\* A step samples some targets, or it tells nobody anything.
LEMMA StepSamples ==
  ASSUME IInv, [Next]_vars
  PROVE  \/ \E ts \in SUBSET Targets, active \in SUBSET Targets,
               lag \in [Targets -> 0..MaxLag] : Sampled(ts, active, lag)
         \/ UNCHANGED <<rows, last, streak>>
         \/ ClockTick
<1>1. Lag \in [Targets -> 0..MaxLag] /\ Active \in SUBSET Targets
  BY OpsAssumption DEF Lag, Active, Targets, IInv, TypeOK
<1>2. ASSUME NEW missed \in SUBSET Targets, PassEnds(missed)
      PROVE  \E ts \in SUBSET Targets, active \in SUBSET Targets,
               lag \in [Targets -> 0..MaxLag] : Sampled(ts, active, lag)
  <2>1. Sampled({t \in Targets \ missed : Watched(t)}, Active, Lag)
    BY <1>2 DEF PassEnds
  <2>2. {t \in Targets \ missed : Watched(t)} \in SUBSET Targets
    OBVIOUS
  <2> QED BY <2>1, <2>2, <1>1
<1>3. CASE Evaluator
  <2>1. CASE TickStarts
    BY <2>1 DEF TickStarts
  <2>2. CASE PassEnds({})
    BY <2>2, <1>2
  <2>3. CASE PassFails
    <3>1. PICK missed \in SUBSET Targets : PassEnds(missed)
      BY <2>3 DEF PassFails
    <3> QED BY <3>1, <1>2
  <2>4. CASE ProbeFails
    <3>1. Sampled({t \in Targets \ {Engine} : Watched(t)}, Active, Lag)
      BY <2>4 DEF ProbeFails
    <3>2. {t \in Targets \ {Engine} : Watched(t)} \in SUBSET Targets
      OBVIOUS
    <3> QED BY <3>1, <3>2, <1>1
  <2> QED BY <1>3, <2>1, <2>2, <2>3, <2>4 DEF Evaluator
<1>4. ASSUME NEW g \in Gates, Hook(g)
      PROVE  \/ \E ts \in SUBSET Targets, active \in SUBSET Targets,
                   lag \in [Targets -> 0..MaxLag] : Sampled(ts, active, lag)
             \/ UNCHANGED <<rows, last, streak>>
  <2>1. {g} \in SUBSET Targets /\ [t \in Targets |-> 0] \in [Targets -> 0..MaxLag]
    BY OpsAssumption DEF Targets
  <2> QED BY <1>4, <2>1 DEF Hook
<1>5. CASE Publication
  BY <1>5, <1>4 DEF Publication, PublishStarts, Published, PublishFails, CommentFails, DeleteGate
<1>6. CASE World \/ Restart \/ UNCHANGED vars
  BY <1>6 DEF World, Restart, EngineChanges, MailChanges, EngineUpdated, ConnectionChanges, vars
<1> QED BY <1>3, <1>5, <1>6 DEF Next

\* The rest of the types.
LEMMA WorldTypes ==
  ASSUME IInv, [Next]_vars
  PROVE  /\ engine' \in BOOLEAN
         /\ connection' \in [Connections -> {"ready", "setup", "broken", "deleted"}]
         /\ gate' \in [Gates -> Gate]
         /\ mail' \in {"on", "off", "unread"}
         /\ pass' \in [at: {"idle", "probing"}, lag: 0..MaxLag, up: BOOLEAN]
         /\ memo' \in [up: BOOLEAN, age: 0..ProbeTtl] \cup {None}
<1> USE DEF IInv, TypeOK
<1>1. 0 \in 0..MaxLag /\ 0 \in 0..ProbeTtl /\ MaxLag \in Nat /\ ProbeTtl \in Nat
  BY OpsAssumption
<1>2. Idle \in [at: {"idle", "probing"}, lag: 0..MaxLag, up: BOOLEAN]
  BY <1>1 DEF Idle
<1>3. CASE TickStarts
  <2>1. Fresh => memo.up \in BOOLEAN
    BY DEF Fresh
  <2> QED BY <1>3, <1>1, <2>1 DEF TickStarts, world
<1>4. CASE Evaluator /\ ~TickStarts
  <2>1. pass' = Idle /\ memo' \in {memo, None} /\ UNCHANGED world
    BY <1>4 DEF Evaluator, PassEnds, PassFails, ProbeFails
  <2> QED BY <2>1, <1>2 DEF world
<1>5. CASE Publication
  <2>1. PICK g \in Gates :
          \/ PublishStarts(g) \/ Published(g) \/ PublishFails(g)
          \/ CommentFails(g) \/ DeleteGate(g)
    BY <1>5 DEF Publication
  <2>2. gate \in [Gates -> Gate] /\ gate[g] \in Gate /\ MaxCalls \in Nat
    BY OpsAssumption
  <2>3. gate' \in [Gates -> Gate]
    <3>1. ASSUME NEW c \in {"none", "publishing", "failed", "published"}, NEW n \in 0..MaxCalls,
                 gate' = [gate EXCEPT ![g].check = c, ![g].calls = n]
          PROVE  gate' \in [Gates -> Gate]
      BY <3>1, <2>2 DEF Gate
    <3>2. CASE PublishStarts(g)
      <4>1. gate[g].calls + 1 \in 0..MaxCalls
        BY <3>2, <2>2 DEF PublishStarts, Gate
      <4> QED BY <4>1, <3>1, <3>2 DEF PublishStarts
    <3>3. CASE Published(g) \/ PublishFails(g)
      <4>1. gate[g].calls - 1 \in 0..MaxCalls
        BY <3>3, <2>2 DEF Published, PublishFails, Answered, Gate
      <4> QED BY <4>1, <3>1, <3>3 DEF Published, PublishFails, Answered
    <3>4. CASE CommentFails(g)
      BY <3>4, <2>2 DEF CommentFails, world
    <3>5. CASE DeleteGate(g)
      BY <3>5, <2>2 DEF DeleteGate, Gate
    <3> QED BY <2>1, <3>2, <3>3, <3>4, <3>5
  <2>4. UNCHANGED <<engine, connection, mail, pass, memo>>
    BY <2>1 DEF PublishStarts, Published, PublishFails, CommentFails, DeleteGate, world
  <2> QED BY <2>3, <2>4
<1>6. CASE World
  BY <1>6, ZenonT(60) DEF World, EngineChanges, MailChanges, EngineUpdated, ConnectionChanges
<1>7. CASE Restart
  <2>1. \A g \in Gates : [gate[g] EXCEPT !.calls = 0] \in Gate
    BY OpsAssumption DEF Gate
  <2> QED BY <1>7, <1>2, <2>1 DEF Restart
<1>8. CASE ClockTick
  <2>1. pass' \in [at: {"idle", "probing"}, lag: 0..MaxLag, up: BOOLEAN]
    <3>1. CASE pass.at = "idle"
      BY <3>1, <1>8 DEF ClockTick
    <3>2. CASE pass.at # "idle"
      <4>1. pass' = [pass EXCEPT !.lag = pass.lag + 1] /\ pass.lag < MaxLag
        BY <3>2, <1>8 DEF ClockTick
      <4>2. pass.lag + 1 \in 0..MaxLag
        BY <4>1, <1>1
      <4> QED BY <4>1, <4>2
    <3> QED BY <3>1, <3>2
  <2>2. memo' \in [up: BOOLEAN, age: 0..ProbeTtl] \cup {None}
    <3>1. CASE memo = None
      BY <3>1, <1>8 DEF ClockTick
    <3>2. CASE memo # None
      <4>1. memo' = [memo EXCEPT !.age = Least(memo.age + 1, ProbeTtl)]
        BY <3>2, <1>8 DEF ClockTick
      <4>2. Least(memo.age + 1, ProbeTtl) \in 0..ProbeTtl
        BY <3>2, <1>1 DEF Least
      <4> QED BY <4>1, <4>2, <3>2
    <3> QED BY <3>1, <3>2
  <2> QED BY <2>1, <2>2, <1>8 DEF ClockTick, world
<1>9. CASE UNCHANGED vars
  BY <1>9 DEF vars, world
<1> QED BY <1>3, <1>4, <1>5, <1>6, <1>7, <1>8, <1>9 DEF Next

LEMMA Inductive == Spec => []IInv
<1>1. Init => IInv
  <2> SUFFICES ASSUME Init PROVE IInv
    OBVIOUS
  <2>1. 0 \in Quiets /\ 0 \in 0..MaxLag
    BY OpsAssumption DEF Quiets
  <2>2. None # "alert"
    BY NoneIsNoRow
  <2>3. TypeOK
    BY <2>1, OpsAssumption DEF Init, TypeOK, Gate, Idle
  <2>4. \A t \in Targets : Agree(rows[t], last[t], streak[t])
    BY <2>2 DEF Init, Agree
  <2> QED BY <2>3, <2>4 DEF IInv
<1>2. IInv /\ [Next]_vars => IInv'
  <2> SUFFICES ASSUME IInv, [Next]_vars PROVE IInv'
    OBVIOUS
  <2> DEFINE Kept ==
        /\ rows' \in [Targets -> OpenRow \cup {None}]
        /\ last' \in [Targets -> [kind: {None, "alert", "over"}, ago: Quiets]]
        /\ streak' \in [Targets -> Ages \cup {None}]
        /\ \A t \in Targets : ~Deleted(t) => Agree(rows'[t], last'[t], streak'[t])
  <2>1. ASSUME NEW ts \in SUBSET Targets, NEW active \in SUBSET Targets,
               NEW lag \in [Targets -> 0..MaxLag], Sampled(ts, active, lag)
        PROVE  Kept
    BY <2>1, SampledKeeps
  <2>2. ASSUME UNCHANGED <<rows, last, streak>>
        PROVE  Kept
    BY <2>2 DEF IInv, TypeOK
  <2>3. ASSUME ClockTick
        PROVE  Kept
    <3>1. /\ rows' = [t \in Targets |-> rows'[t]] /\ last' = [t \in Targets |-> last'[t]]
          /\ streak' = [t \in Targets |-> streak'[t]]
      BY <2>3 DEF ClockTick
    <3>2. \A t \in Targets :
            /\ rows'[t] \in OpenRow \cup {None}
            /\ last'[t] \in [kind: {None, "alert", "over"}, ago: Quiets]
            /\ streak'[t] \in Ages \cup {None}
            /\ ~Deleted(t) => Agree(rows'[t], last'[t], streak'[t])
      BY <2>3, ClockKeeps DEF IInv
    <3> QED BY <3>1, <3>2
  <2>4. Kept
    <3> HIDE DEF Kept
    <3> QED BY <2>1, <2>2, <2>3, StepSamples
  <2>5. TypeOK'
    BY <2>4, WorldTypes DEF TypeOK
  <2>6. \A t \in Targets : ~Deleted(t)' => Agree(rows'[t], last'[t], streak'[t])
    BY <2>4, DeletedStays DEF IInv
  <2> QED BY <2>5, <2>6 DEF IInv
<1> QED BY <1>1, <1>2, PTL DEF Spec

-----------------------------------------------------------------------------
(* The promises.                                                             *)

\* The table and the history keep their types, for any targets and windows.
THEOREM TypeCorrect == Spec => []TypeOK
<1>1. IInv => TypeOK
  BY DEF IInv
<1> QED BY <1>1, Inductive, PTL

\* A row says that an alert went out exactly while its end is to be told, and dates
\* the window from the last one (stepOpsCondition).
THEOREM AlertsRemembered == Spec => []RowRemembersAlert
<1>1. IInv => RowRemembersAlert
  BY DEF IInv, Agree, RowRemembersAlert, Ongoing
<1> QED BY <1>1, Inductive, PTL

\* What a sample tells, and of whom.
LEMMA SampleTells ==
  ASSUME IInv, NEW t \in Targets, NEW active \in BOOLEAN, NEW lag \in 0..MaxLag
  PROVE  /\ Told(t, active, lag) \in {None, "alert", "over"}
         /\ Told(t, active, lag) = "alert" /\ last[t].kind = "alert" =>
              last[t].ago - lag >= Repeat
         /\ Told(t, active, lag) = "over" => last[t].kind = "alert"
         /\ Told(t, active, lag) = "alert" /\ last[t].kind # "alert" =>
              /\ StreakAfter(t, active, lag) # None
              /\ StreakAfter(t, active, lag) - lag >= GraceOf(t)
<1>0. None # "alert" /\ None # "over" /\ lag \in Nat /\ lag # None /\ None \notin Nat
  BY OpsAssumption
<1>1. Told(t, active, lag) # None => Agree(rows[t], last[t], streak[t])
  BY DEF Told, IInv
<1>2. Told(t, active, lag) \in {None, "alert", "over"}
  BY DEF Told
<1>3. Told(t, active, lag) = "over" => last[t].kind = "alert"
  BY <1>0, <1>1 DEF Told, Agree, Ongoing
<1>4. ASSUME Told(t, active, lag) = "alert"
      PROVE  active /\ ~Deleted(t) /\ ~InGrace(t, lag) /\ ~InWindow(t, lag)
  BY <1>0, <1>4 DEF Told
<1>5. ASSUME Told(t, active, lag) = "alert", last[t].kind = "alert"
      PROVE  last[t].ago - lag >= Repeat
  <2>1. Ongoing(t) /\ rows[t].sent # None /\ rows[t].sent = last[t].ago
    BY <1>0, <1>1, <1>5 DEF Agree, Ongoing
  <2>2. Episode(t, lag).sent = last[t].ago /\ Episode(t, lag).sent # None
    BY <2>1 DEF Episode
  <2>3. ~(last[t].ago - lag < Repeat)
    BY <1>4, <1>5, <2>2 DEF InWindow
  <2>4. last[t].ago \in Nat /\ Repeat \in Nat
    BY NoneIsNoRow, OpsAssumption DEF IInv, TypeOK
  <2> QED BY <2>3, <2>4, <1>0
<1>6. ASSUME Told(t, active, lag) = "alert", last[t].kind # "alert"
      PROVE  /\ StreakAfter(t, active, lag) # None
             /\ StreakAfter(t, active, lag) - lag >= GraceOf(t)
  <2>1. StreakAfter(t, active, lag) = IF streak[t] = None THEN lag ELSE streak[t]
    BY <1>4, <1>6 DEF StreakAfter
  <2>2. Agree(rows[t], last[t], streak[t])
    BY <1>0, <1>1, <1>6
  <2>3. rows[t] \in OpenRow \cup {None}
    BY DEF IInv, TypeOK
  <2>4. StreakAfter(t, active, lag) = Episode(t, lag).since
        /\ Episode(t, lag).since \in Nat
    <3>1. CASE Ongoing(t)
      <4>1. rows[t].since \in Ages /\ streak[t] = rows[t].since
        BY <3>1, <2>2, <2>3, <1>6 DEF Agree, Ongoing, OpenRow
      <4> QED BY <4>1, <3>1, <2>1, NoneIsNoRow DEF Episode
    <3>2. CASE ~Ongoing(t)
      BY <3>2, <2>1, <2>2, <1>0 DEF Agree, Ongoing, Episode
    <3> QED BY <3>1, <3>2
  <2>5. ~(Episode(t, lag).since - lag < GraceOf(t)) /\ GraceOf(t) \in Nat
    BY <1>4, <1>6, OpsAssumption DEF InGrace, GraceOf
  <2> QED BY <2>4, <2>5, <1>0
<1> QED BY <1>2, <1>3, <1>5, <1>6

\* What a step tells about a target, it tells by a sample of it.
LEMMA NewsIsSampled ==
  ASSUME IInv, [Next]_vars, NEW t \in Targets, NewAlert(t) \/ NewOver(t)
  PROVE  \E active \in BOOLEAN, lag \in 0..MaxLag :
           /\ last'[t] = [kind |-> Told(t, active, lag), ago |-> lag]
           /\ streak'[t] = StreakAfter(t, active, lag)
<1>0. last[t].ago \in Nat
  BY NoneIsNoRow DEF IInv, TypeOK
<1>1. ASSUME NEW ts \in SUBSET Targets, NEW active \in SUBSET Targets,
             NEW lag \in [Targets -> 0..MaxLag], Sampled(ts, active, lag)
      PROVE  \E a \in BOOLEAN, l \in 0..MaxLag :
               /\ last'[t] = [kind |-> Told(t, a, l), ago |-> l]
               /\ streak'[t] = StreakAfter(t, a, l)
  <2>1. CASE t \notin ts
    <3>1. last'[t] = last[t]
      BY <1>1, <2>1 DEF Sampled
    <3> QED BY <3>1, <1>0 DEF NewAlert, NewOver
  <2>2. CASE t \in ts
    <3>1. last'[t] = LastAfter(t, t \in active, lag[t])
          /\ streak'[t] = StreakAfter(t, t \in active, lag[t])
      BY <1>1, <2>2 DEF Sampled
    <3>2. last'[t] # last[t]
      BY <1>0 DEF NewAlert, NewOver
    <3>3. last'[t] = [kind |-> Told(t, t \in active, lag[t]), ago |-> lag[t]]
      BY <3>1, <3>2 DEF LastAfter
    <3>4. (t \in active) \in BOOLEAN /\ lag[t] \in 0..MaxLag
      OBVIOUS
    <3> QED BY <3>1, <3>3, <3>4
  <2> QED BY <2>1, <2>2
<1>2. ~UNCHANGED <<rows, last, streak>>
  BY <1>0 DEF NewAlert, NewOver
<1>3. ~ClockTick
  <2> SUFFICES ASSUME ClockTick PROVE FALSE
    OBVIOUS
  <2>1. last'[t].kind = last[t].kind /\ last'[t].ago >= last[t].ago
        /\ last'[t] \in [kind: {None, "alert", "over"}, ago: Quiets]
    BY ClockKeeps
  <2>2. last'[t].ago \in Nat
    BY <2>1, NoneIsNoRow
  <2> QED BY <2>1, <2>2, <1>0 DEF NewAlert, NewOver
<1> QED BY <1>1, <1>2, <1>3, StepSamples

LEMMA StepTells ==
  ASSUME IInv, [Next]_vars, NEW t \in Targets
  PROVE  /\ NewAlert(t) /\ last[t].kind = "alert" => last[t].ago - last'[t].ago >= Repeat
         /\ NewOver(t) => last[t].kind = "alert"
         /\ NewAlert(t) /\ last[t].kind # "alert" =>
              streak'[t] # None /\ streak'[t] - last'[t].ago >= GraceOf(t)
<1> SUFFICES ASSUME NewAlert(t) \/ NewOver(t)
             PROVE  /\ NewAlert(t) /\ last[t].kind = "alert" =>
                         last[t].ago - last'[t].ago >= Repeat
                    /\ NewOver(t) => last[t].kind = "alert"
                    /\ NewAlert(t) /\ last[t].kind # "alert" =>
                         streak'[t] # None /\ streak'[t] - last'[t].ago >= GraceOf(t)
  OBVIOUS
<1>1. PICK active \in BOOLEAN, lag \in 0..MaxLag :
        /\ last'[t] = [kind |-> Told(t, active, lag), ago |-> lag]
        /\ streak'[t] = StreakAfter(t, active, lag)
  BY NewsIsSampled
<1>2. last'[t].kind = Told(t, active, lag) /\ last'[t].ago = lag
  BY <1>1
<1>3. NewAlert(t) => Told(t, active, lag) = "alert"
  BY <1>2 DEF NewAlert
<1>4. NewOver(t) => Told(t, active, lag) = "over"
  BY <1>2 DEF NewOver
<1> QED BY <1>1, <1>2, <1>3, <1>4, SampleTells

\* Alerts of one episode are a window apart, for any window and any delay of a probe.
THEOREM AlertsAreSpaced == Spec => AlertsSpaced
<1>1. IInv /\ [Next]_vars => [\A t \in Targets :
        NewAlert(t) /\ last[t].kind = "alert" => last[t].ago - last'[t].ago >= Repeat]_vars
  BY StepTells
<1> QED BY <1>1, Inductive, PTL DEF Spec, AlertsSpaced

\* The end of a condition is told once, and only after its beginning.
THEOREM OverAfterAlert == Spec => OverFollowsAlert
<1>1. IInv /\ [Next]_vars =>
        [\A t \in Targets : NewOver(t) => last[t].kind = "alert"]_vars
  BY StepTells
<1> QED BY <1>1, Inductive, PTL DEF Spec, OverFollowsAlert

\* The first alert of an episode comes after a grace period of active samples.
THEOREM FirstAlertWaits == Spec => FirstAlertAfterGrace
<1>1. IInv /\ [Next]_vars => [\A t \in Targets :
        NewAlert(t) /\ last[t].kind # "alert" =>
          streak'[t] # None /\ streak'[t] - last'[t].ago >= GraceOf(t)]_vars
  BY StepTells
<1> QED BY <1>1, Inductive, PTL DEF Spec, FirstAlertAfterGrace
=============================================================================
