----------------------- MODULE GitHubAutomationProofs -----------------------
(***************************************************************************)
(* Theorems about GitHubAutomation, for every set of actions, targets and   *)
(* commits, and every bound.                                                *)
(*                                                                         *)
(* First, types: one lemma for each step.  Then, why an event is never      *)
(* launched twice.  The invariant to prove is not inductive: that a second  *)
(* gate cannot be created for an event follows from where the row of that   *)
(* event can still be, which in turn rests on every dispatch in flight      *)
(* owning a row that nobody else moves.                                     *)
(*                                                                         *)
(* On that invariant rest five more: the lifecycle of EventLifecycle is     *)
(* implemented, gates are created within what their action follows, the     *)
(* current head is not cancelled, a backlog is not charged for, and a day   *)
(* is not overspent.  Each adds the facts it needs at its place below.      *)
(***************************************************************************)
EXTENDS GitHubAutomation, FiniteSetTheorems, SequenceTheorems, WellFoundedInduction, TLAPS

-----------------------------------------------------------------------------
(* Events and tables of events.                                             *)

\* Any status may replace the status of an event.
LEMMA StatusChanged ==
  ASSUME NEW e \in Event, NEW s \in Statuses
  PROVE  [e EXCEPT !.status = s] \in Event
BY DEF Event

LEMMA EventReserved ==
  ASSUME NEW e \in Event, now \in Nat
  PROVE  ReservedEvent(e) \in Event
BY DEF Event, ReservedEvent, Statuses

LEMMA EventReleased ==
  ASSUME NEW e \in Event
  PROVE  [e EXCEPT !.status = "queued", !.dispatched = Null] \in Event
BY DEF Event, Statuses, Null

LEMMA EventLaunched ==
  ASSUME NEW e \in Event, NEW g \in Nat \X Nat
  PROVE  [e EXCEPT !.status = "launched", !.gate = g] \in Event
BY DEF Event, Statuses

\* What a statement over events keeps of StoreTypeOK.
Tables(evs) == DOMAIN evs = Actions /\ \A a \in Actions : IsTable(evs[a])

LEMMA PatchedTyped ==
  ASSUME Tables(events), NEW r \in Actions \X EventKey,
         NEW e, HasRow(r) => e \in Event
  PROVE  Tables(Patched(r, e))
<1>1. CASE ~HasRow(r)
  BY <1>1 DEF Patched
<1>2. CASE HasRow(r)
  <2> DEFINE rows == [events[r[1]] EXCEPT ![r[2]] = e]
  <2>1. IsTable(rows)
    BY <1>2 DEF Tables, IsTable
  <2>2. Patched(r, e) = [events EXCEPT ![r[1]] = rows]
    BY <1>2 DEF Patched
  <2> HIDE DEF rows
  <2> QED BY <2>1, <2>2 DEF Tables
<1> QED BY <1>1, <1>2

LEMMA WithStatusTyped ==
  ASSUME Tables(events), NEW r \in Actions \X EventKey, NEW s \in Statuses
  PROVE  Tables(WithStatus(r, s))
<1>1. HasRow(r) => [Row(r) EXCEPT !.status = s] \in Event
  BY StatusChanged DEF Tables, IsTable, HasRow, Row
<1> QED BY <1>1, PatchedTyped DEF WithStatus

-----------------------------------------------------------------------------
(* Steps outside the process.                                               *)

LEMMA SendTyped ==
  ASSUME RemoteTypeOK, NEW kind \in {"change", "closed", "rerequested", "removed"},
         NEW t \in Targets, NEW s \in Shas, NEW observed \in Nat,
         NEW gate \in Nat \X Nat, NEW checkRun \in 0..MaxReruns,
         Send(kind, t, s, observed, gate, checkRun)
  PROVE  sent' \subseteq Delivery /\ IsFiniteSet(sent')
<1> DEFINE d == [id |-> Cardinality(sent) + 1, kind |-> kind, target |-> t, sha |-> s,
                 observed |-> observed, gate |-> gate, checkRun |-> checkRun]
<1>1. sent' = sent \cup {d}
  BY DEF Send
<1>2. Cardinality(sent) \in Nat
  BY FS_CardinalityType DEF RemoteTypeOK
<1>3. d \in Delivery
  BY <1>2 DEF Delivery
<1>4. IsFiniteSet(sent')
  BY <1>1, FS_AddElement DEF RemoteTypeOK
<1> HIDE DEF d
<1> QED BY <1>1, <1>3, <1>4 DEF RemoteTypeOK

LEMMA NoGateTyped == NoGate \in Nat \X Nat /\ Null \in Nat /\ Null \in 0..MaxReruns
BY RemoteAssumption DEF NoGate, Null

LEMMA OutsideTyped ==
  ASSUME TypeOK, OutsideStep
  PROVE  TypeOK'
<1> USE RemoteAssumption
<1> DEFINE Goal == RemoteTypeOK' /\ backlog' \in [Actions -> SUBSET (Targets \X Shas)]
<1>a. now \in Nat /\ now \in 1..MaxTime
  BY DEF TypeOK, RemoteTypeOK
<1>1. RemoteTypeOK /\ UNCHANGED <<storeVars, dispatchVars, rec, restarts>>
  BY DEF TypeOK, OutsideStep
<1>2. ASSUME \E t \in Targets : Quiet(t) PROVE Goal
  <2> PICK t \in Targets : Quiet(t)
    BY <1>2
  <2>1. tip[t].sha \in Shas
    BY <1>1 DEF RemoteTypeOK
  <2>2. now' = now /\ reachable' = reachable
    BY DEF Quiet, Close, Reopen
  <2>3. tip' \in [Targets -> [sha: Shas, clock: 1..MaxTime, open: BOOLEAN]]
    <3>1. CASE Close(t)
      BY <1>1, <1>a, <3>1 DEF Close, RemoteTypeOK
    <3>2. CASE Reopen(t)
      BY <1>1, <1>a, <3>2 DEF Reopen, RemoteTypeOK
    <3> QED BY <3>1, <3>2 DEF Quiet
  <2>4. sent' \subseteq Delivery /\ IsFiniteSet(sent')
    BY <1>1, <1>a, <2>1, SendTyped, NoGateTyped DEF Quiet, Close, Reopen
  <2>5. backlog' \in [Actions -> SUBSET (Targets \X Shas)]
    BY DEF Quiet, Changed, TypeOK
  <2> QED BY <1>1, <2>2, <2>3, <2>4, <2>5 DEF TypeOK, RemoteTypeOK
<1>3. ASSUME \E t \in Targets, s \in Shas : Moves(t, s) PROVE Goal
  <2> PICK t \in Targets, s \in Shas : Moves(t, s)
    BY <1>3
  <2>2. now' = now /\ reachable' = reachable
    BY DEF Moves, Push
  <2>3. tip' \in [Targets -> [sha: Shas, clock: 1..MaxTime, open: BOOLEAN]]
    BY <1>1, <1>a DEF Moves, Push, RemoteTypeOK
  <2>4. sent' \subseteq Delivery /\ IsFiniteSet(sent')
    BY <1>1, <1>a, SendTyped, NoGateTyped DEF Moves, Push
  <2>5. backlog' \in [Actions -> SUBSET (Targets \X Shas)]
    BY DEF Moves, Changed, TypeOK
  <2> QED BY <1>1, <2>2, <2>3, <2>4, <2>5 DEF TypeOK, RemoteTypeOK
<1>4. ASSUME \E a \in Actions : \E n \in DOMAIN gates[a] : AsksRerun(a, n) PROVE Goal
  <2> PICK a \in Actions : \E n \in DOMAIN gates[a] : AsksRerun(a, n)
    BY <1>4
  <2> PICK n \in DOMAIN gates[a] : AsksRerun(a, n)
    OBVIOUS
  <2>1. gates[a] \in Seq(Gate)
    BY DEF TypeOK, DispatchTypeOK
  <2>2. gates[a][n] \in Gate /\ n \in Nat
    BY <2>1
  <2>3. gates[a][n].key.target \in Targets /\ gates[a][n].key.sha \in Shas
    BY <2>2 DEF Gate, EventKey
  <2>4. <<a, n>> \in Nat \X Nat /\ n \in 0..MaxReruns
    BY <2>2, StoreAssumption DEF AsksRerun
  <2>5. sent' \subseteq Delivery /\ IsFiniteSet(sent')
    BY <1>1, <2>3, <2>4, SendTyped, NoGateTyped DEF AsksRerun, Rerequest
  <2> QED BY <1>1, <2>5 DEF AsksRerun, Rerequest, TypeOK, RemoteTypeOK
<1>5. ASSUME Access PROVE Goal
  <2>1. CASE Reach
    BY <1>1, <1>5, <2>1 DEF Access, Reach, TypeOK, RemoteTypeOK
  <2>2. CASE \E t \in Targets : Unreach(t)
    <3> PICK t \in Targets : Unreach(t)
      BY <2>2
    <3>1. tip[t].sha \in Shas
      BY <1>1 DEF RemoteTypeOK
    <3>2. sent' \subseteq Delivery /\ IsFiniteSet(sent')
      BY <1>1, <3>1, SendTyped, NoGateTyped DEF Unreach
    <3> QED BY <1>1, <1>5, <3>2 DEF Access, Unreach, TypeOK, RemoteTypeOK
  <2> QED BY <1>5, <2>1, <2>2 DEF Access
<1>6. ASSUME Passes PROVE Goal
  BY <1>1, <1>6 DEF Passes, Tick, TypeOK, RemoteTypeOK
<1>7. StoreTypeOK' /\ DispatchTypeOK' /\ ReconcilerTypeOK' /\ (restarts \in 0..MaxRestarts)'
  BY <1>1 DEF TypeOK, StoreTypeOK, DispatchTypeOK, ReconcilerTypeOK, InFlight,
              storeVars, dispatchVars
<1> QED BY <1>2, <1>3, <1>4, <1>5, <1>6, <1>7 DEF OutsideStep, TypeOK

-----------------------------------------------------------------------------
(* Deliveries.                                                              *)

\* The statements that only change the status of rows keep a table a table.
LEMMA RowsTyped ==
  ASSUME NEW rows, IsTable(rows), NEW new,
         DOMAIN new = DOMAIN rows,
         \A k \in DOMAIN rows : new[k] \in Event
  PROVE  IsTable(new)
BY DEF IsTable

LEMMA SupersededTyped ==
  ASSUME NEW e \in Event, NEW reason \in Reasons
  PROVE  SupersededAs(e, reason) \in Event
BY DEF Event, SupersededAs, Statuses

LEMMA SupersedeOlderTyped ==
  ASSUME NEW rows, IsTable(rows), NEW t, NEW s, NEW before, NEW row
  PROVE  /\ IsTable(SupersedeOlder(rows, t, s, before, row))
         /\ DOMAIN SupersedeOlder(rows, t, s, before, row) = DOMAIN rows
<1>1. \A k \in DOMAIN rows : SupersedeOlder(rows, t, s, before, row)[k] \in Event
  BY SupersededTyped DEF SupersedeOlder, IsTable, Reasons
<1> QED BY <1>1, RowsTyped DEF SupersedeOlder

LEMMA SupersedeClosedTyped ==
  ASSUME NEW rows, IsTable(rows), NEW t
  PROVE  IsTable(SupersedeClosed(rows, t))
<1>1. \A k \in DOMAIN rows : SupersedeClosed(rows, t)[k] \in Event
  BY SupersededTyped DEF SupersedeClosed, IsTable, Reasons
<1> QED BY <1>1, RowsTyped DEF SupersedeClosed

LEMMA InsertTyped ==
  ASSUME NEW rows, IsTable(rows), NEW k \in EventKey, NEW e \in Event
  PROVE  IsTable(Insert(rows, k, e))
<1>1. IsFiniteSet(DOMAIN rows \cup {k})
  BY FS_AddElement DEF IsTable
<1> QED BY <1>1 DEF IsTable, Insert

LEMMA NewEventTyped ==
  ASSUME NEW rows, IsFiniteSet(DOMAIN rows), NEW status \in Statuses, NEW origin \in Origins,
         NEW cost \in Nat, NEW detected \in Nat, NEW observed \in Nat
  PROVE  NewEvent(rows, status, origin, cost, detected, observed) \in Event
<1>1. Cardinality(DOMAIN rows) \in Nat
  BY FS_CardinalityType
<1> QED BY <1>1, NoGateTyped DEF NewEvent, Event, Reasons

LEMMA RecordDeliveryTyped ==
  ASSUME StoreTypeOK, NEW id \in Nat \ {0}, RecordDelivery(id)
  PROVE  claimed' \in Seq(Nat \ {0}) /\ sincePrune' \in 0..PruneEvery
<1> DEFINE longer == Append(claimed, id)
<1>1. longer \in Seq(Nat \ {0})
  BY DEF StoreTypeOK
<1>2. Newest(longer, Retention) \in Seq(Nat \ {0})
  <2>1. Len(longer) \in Nat /\ Retention \in Nat \ {0}
    BY <1>1, StoreAssumption
  <2> HIDE DEF longer
  <2>2. CASE Len(longer) <= Retention
    BY <1>1, <2>2 DEF Newest
  <2>3. CASE ~(Len(longer) <= Retention)
    <3> DEFINE m == Len(longer) - Retention + 1
    <3>1. m \in Int /\ Len(longer) \in Int /\ m..Len(longer) \subseteq 1..Len(longer)
      BY <2>1, <2>3
    <3>2. \A i \in m..Len(longer) : longer[i] \in Nat \ {0}
      BY <1>1, <3>1
    <3>3. SubSeq(longer, m, Len(longer)) \in Seq(Nat \ {0})
      BY <3>1, <3>2, SubSeqProperties
    <3> QED BY <2>3, <3>3 DEF Newest
  <2> QED BY <2>2, <2>3
<1>3. sincePrune \in 0..PruneEvery /\ PruneEvery \in Nat \ {0}
  BY StoreAssumption DEF StoreTypeOK
<1>4. claimed' = longer \/ claimed' = Newest(longer, Retention)
  BY DEF RecordDelivery
<1>5. sincePrune' \in 0..PruneEvery
  BY <1>3 DEF RecordDelivery
<1> HIDE DEF longer
<1> QED BY <1>1, <1>2, <1>4, <1>5

LEMMA HeadEventTyped ==
  ASSUME StoreTypeOK, RemoteTypeOK, NEW a \in Actions, NEW d \in Delivery
  PROVE  HeadKey(a, d) \in EventKey /\ HeadEvent(a, d) \in Event
<1>1. actions[a] \in Action /\ IsTable(events[a])
  BY DEF StoreTypeOK
<1>2. HeadKey(a, d) \in EventKey
  BY <1>1, NoGateTyped DEF HeadKey, EventKey, Action, Delivery
<1>3. now \in Nat /\ d.observed \in Nat /\ actions[a].cost \in Nat
  BY <1>1, RemoteAssumption DEF RemoteTypeOK, Delivery, Action
<1>4. IsFiniteSet(DOMAIN events[a])
  BY <1>1 DEF IsTable
<1>5. HeadEvent(a, d) \in Event
  BY <1>3, <1>4, NewEventTyped DEF HeadEvent, Statuses, Origins
<1> QED BY <1>2, <1>5

LEMMA HeadRecordedTyped ==
  ASSUME StoreTypeOK, RemoteTypeOK, NEW a \in Actions, NEW d \in Delivery
  PROVE  IsTable(HeadRecorded(a, d))
<1>1. IsTable(events[a])
  BY DEF StoreTypeOK
<1>2. HeadKey(a, d) \in EventKey /\ HeadEvent(a, d) \in Event
  BY HeadEventTyped
<1> QED BY <1>1, <1>2, SupersedeOlderTyped, InsertTyped DEF HeadRecorded

LEMMA RerunTyped ==
  ASSUME StoreTypeOK, RemoteTypeOK, NEW r \in Actions \X EventKey, NEW d \in Delivery
  PROVE  /\ RerunKey(r, d) \in EventKey
         /\ NewEvent(events[r[1]], "queued", "manual", actions[r[1]].cost, now, now) \in Event
<1>1. actions[r[1]] \in Action /\ IsTable(events[r[1]])
  BY DEF StoreTypeOK
<1>2. RerunKey(r, d) \in EventKey
  BY <1>1 DEF RerunKey, EventKey, Action, Delivery
<1>3. now \in Nat /\ actions[r[1]].cost \in Nat
  BY <1>1, RemoteAssumption DEF RemoteTypeOK, Action
<1> QED BY <1>1, <1>2, <1>3, NewEventTyped DEF IsTable, Statuses, Origins

LEMMA AllDisabledTyped ==
  ASSUME StoreTypeOK
  PROVE  AllDisabled \in [Actions -> Action]
<1>1. \A a \in Actions : [actions[a] EXCEPT !.enabled = FALSE] \in Action
  BY DEF StoreTypeOK, Action
<1> QED BY <1>1 DEF AllDisabled

LEMMA DeliveryTyped ==
  ASSUME TypeOK, DeliveryStep
  PROVE  TypeOK'
<1>1. /\ RemoteTypeOK /\ StoreTypeOK /\ DispatchTypeOK /\ ReconcilerTypeOK
      /\ UNCHANGED <<remoteVars, rec, restarts, backlog>>
  BY DEF TypeOK, DeliveryStep
<1> PICK d \in sent : Deliver(d)
  BY DEF DeliveryStep
<1>2. d \in Delivery /\ d.id \in Nat \ {0}
  BY <1>1 DEF RemoteTypeOK, Delivery
<1>3. claimed' \in Seq(Nat \ {0}) /\ sincePrune' \in 0..PruneEvery
  BY <1>1, <1>2, RecordDeliveryTyped DEF Deliver
<1> DEFINE Goal == /\ Tables(events') /\ actions' \in [Actions -> Action]
                   /\ turn' \subseteq Actions \X EventKey
<1>4. Tables(events) /\ actions \in [Actions -> Action] /\ turn \subseteq Actions \X EventKey
  BY <1>1 DEF StoreTypeOK, DispatchTypeOK, Tables
<1>5. ASSUME StaleDelivered(d) PROVE Goal
  BY <1>4, <1>5 DEF StaleDelivered
<1>6. ASSUME ChangeDelivered(d) PROVE Goal
  <2>1. Tables(events')
    BY <1>1, <1>2, <1>4, <1>6, HeadRecordedTyped, SupersedeOlderTyped DEF ChangeDelivered, Tables
  <2>2. turn' \subseteq Actions \X EventKey
    BY <1>1, <1>2, <1>6, HeadEventTyped DEF ChangeDelivered, Creating, Eligible, Matched
  <2> QED BY <1>4, <1>6, <2>1, <2>2 DEF ChangeDelivered
<1>7. ASSUME ClosedDelivered(d) PROVE Goal
  BY <1>4, <1>7, SupersedeClosedTyped DEF ClosedDelivered, Tables
<1>8. ASSUME RemovedDelivered(d) PROVE Goal
  BY <1>1, <1>4, <1>8, AllDisabledTyped DEF RemovedDelivered
<1>9. ASSUME RerunDelivered(d) PROVE Goal
  <2>1. CASE UNCHANGED <<events, turn>>
    BY <1>4, <1>9, <2>1 DEF RerunDelivered
  <2>2. CASE ~UNCHANGED <<events, turn>>
    <3> DEFINE new(r) == NewEvent(events[r[1]], "queued", "manual", actions[r[1]].cost, now, now)
    <3>1. PICK r \in RowsOfGate(d.gate) :
            /\ events' = [events EXCEPT ![r[1]] = Insert(@, RerunKey(r, d), new(r))]
            /\ turn' = {<<r[1], RerunKey(r, d)>>}
      BY <1>9, <2>2 DEF RerunDelivered
    <3>2. r \in Actions \X EventKey
      BY <1>4 DEF RowsOfGate, Rows, Tables, IsTable
    <3>3. RerunKey(r, d) \in EventKey /\ new(r) \in Event
      BY <1>1, <1>2, <3>2, RerunTyped
    <3> HIDE DEF new
    <3>4. IsTable(Insert(events[r[1]], RerunKey(r, d), new(r)))
      BY <1>4, <3>2, <3>3, InsertTyped DEF Tables
    <3> QED BY <1>4, <1>9, <3>1, <3>2, <3>3, <3>4 DEF RerunDelivered, Tables
  <2> QED BY <2>1, <2>2
<1>10. Goal
  BY <1>5, <1>6, <1>7, <1>8, <1>9 DEF Deliver
<1>11. StoreTypeOK'
  BY <1>3, <1>10 DEF StoreTypeOK, Tables
<1>12. DispatchTypeOK'
  BY <1>1, <1>10 DEF Deliver, DispatchTypeOK, InFlight
<1>13. RemoteTypeOK' /\ ReconcilerTypeOK'
  BY <1>1 DEF RemoteTypeOK, ReconcilerTypeOK, remoteVars
<1> QED BY <1>1, <1>11, <1>12, <1>13 DEF TypeOK

-----------------------------------------------------------------------------
(* The operator.                                                            *)

LEMMA ObservedTyped ==
  ASSUME NEW a \in Action, a.revision < MaxRevision,
         NEW follows \in SUBSET Targets, NEW forks \in BOOLEAN
  PROVE  Observing(a, follows, forks) \in Action
<1>1. a.revision + 1 \in 1..MaxRevision
  BY StoreAssumption DEF Action
<1> DEFINE followed == [a EXCEPT !.follows = follows, !.forks = forks]
           revised  == [followed EXCEPT !.revision = a.revision + 1]
<1>2. followed \in Action /\ followed.revision = a.revision
  BY DEF Action
<1>3. Observing(a, follows, forks) = [revised EXCEPT !.baseline = FALSE]
  BY DEF Observing
<1> HIDE DEF followed
<1>4. revised \in Action
  BY <1>1, <1>2 DEF Action
<1> HIDE DEF revised
<1> QED BY <1>3, <1>4 DEF Action

LEMMA OperatorTyped ==
  ASSUME TypeOK, OperatorStep
  PROVE  TypeOK'
<1>1. /\ RemoteTypeOK /\ StoreTypeOK /\ DispatchTypeOK /\ ReconcilerTypeOK
      /\ UNCHANGED <<remoteVars, dispatchVars, rec, restarts>>
  BY DEF TypeOK, OperatorStep
<1>2. actions \in [Actions -> Action] /\ Tables(events)
  BY <1>1 DEF StoreTypeOK, Tables
<1> DEFINE Goal == /\ actions' \in [Actions -> Action]
                   /\ Tables(events')
                   /\ UNCHANGED <<claimed, sincePrune>>
                   /\ backlog' \in [Actions -> SUBSET (Targets \X Shas)]
<1>3. ASSUME NEW a \in Actions, PatchEnabled(a) /\ UNCHANGED backlog PROVE Goal
  <2>1. [actions[a] EXCEPT !.enabled = ~@] \in Action
    BY <1>2 DEF Action
  <2> QED BY <1>2, <1>3, <2>1 DEF PatchEnabled, TypeOK
<1>4. ASSUME NEW a \in Actions, NEW cost \in CostChoices, PatchCost(a, cost) /\ UNCHANGED backlog
      PROVE  Goal
  <2>1. [actions[a] EXCEPT !.cost = cost] \in Action
    BY <1>2, <1>4, StoreAssumption DEF Action
  <2> QED BY <1>2, <1>4, <2>1 DEF PatchCost, TypeOK
<1>5. ASSUME NEW a \in Actions, DeleteAction(a) /\ UNCHANGED backlog PROVE Goal
  <2>1. actions' \in [Actions -> Action]
    BY <1>2, <1>5, ZenonT(60) DEF DeleteAction, Action
  <2>2. IsTable(NoEvents)
    BY FS_EmptySet DEF NoEvents, IsTable
  <2> QED BY <1>2, <1>5, <2>1, <2>2 DEF DeleteAction, Tables, TypeOK
<1>6. ASSUME NEW a \in Actions, NEW follows \in FollowChoices, NEW forks \in BOOLEAN,
             Reobserved(a, follows, forks)
      PROVE  Goal
  <2>1. follows \in SUBSET Targets
    BY StoreAssumption
  <2>2. Observing(actions[a], follows, forks) \in Action
    BY <1>2, <1>6, <2>1, ObservedTyped DEF Reobserved, PatchObserved
  <2>3. Heads(follows) \subseteq Targets \X Shas
    BY <1>1, <2>1 DEF Heads, RemoteTypeOK
  <2> QED BY <1>2, <1>6, <2>2, <2>3 DEF Reobserved, PatchObserved, TypeOK
<1>7. Goal
  BY <1>3, <1>4, <1>5, <1>6 DEF OperatorStep, Edited
<1>8. StoreTypeOK'
  BY <1>1, <1>7 DEF StoreTypeOK, Tables
<1>9. RemoteTypeOK' /\ DispatchTypeOK' /\ ReconcilerTypeOK'
  BY <1>1 DEF RemoteTypeOK, DispatchTypeOK, ReconcilerTypeOK, InFlight, remoteVars, dispatchVars
<1> QED BY <1>1, <1>7, <1>8, <1>9 DEF TypeOK

-----------------------------------------------------------------------------
(* Turns and dispatches.                                                    *)

Flight == [wait: Waits, event: Event, action: Action, gate: Nat \X Nat]

LEMMA EndedTyped ==
  ASSUME DispatchTypeOK, NEW r \in InFlight, disp' = Ended(r)
  PROVE  /\ InFlight' \subseteq Actions \X EventKey
         /\ \A q \in InFlight' : disp'[q] \in Flight
BY DEF DispatchTypeOK, Ended, InFlight, Flight

LEMMA TurnTyped ==
  ASSUME TypeOK, TurnStep
  PROVE  TypeOK'
<1>1. /\ RemoteTypeOK /\ StoreTypeOK /\ DispatchTypeOK /\ ReconcilerTypeOK
      /\ UNCHANGED <<remoteVars, rec, restarts, backlog>>
  BY DEF TypeOK, TurnStep
<1> PICK r \in turn : Dispatch(r)
  BY DEF TurnStep
<1>2. r \in Actions \X EventKey /\ actions[r[1]] \in Action /\ Tables(events)
  BY <1>1 DEF DispatchTypeOK, StoreTypeOK, Tables
<1>3. HasRow(r) => Row(r) \in Event
  BY <1>2 DEF HasRow, Row, Tables, IsTable
<1>4. HasRow(r) => ReservedEvent(Row(r)) \in Event
  BY <1>1, <1>3, EventReserved, RemoteAssumption DEF RemoteTypeOK
<1>5. Tables(events')
  <2>1. Tables(WithStatus(r, "skipped"))
    BY <1>2, WithStatusTyped DEF Statuses
  <2>2. Tables(Patched(r, ReservedEvent(Row(r))))
    BY <1>2, <1>4, PatchedTyped
  <2> QED BY <1>2, <2>1, <2>2 DEF Dispatch
<1>6. /\ InFlight' \subseteq Actions \X EventKey
      /\ \A q \in InFlight' : disp'[q] \in Flight
  <2>1. CASE disp' = disp
    BY <1>1, <2>1 DEF DispatchTypeOK, InFlight, Flight
  <2>2. CASE HasRow(r) /\ disp' = Begun(r)
    BY <1>1, <1>2, <1>4, <2>2, NoGateTyped DEF DispatchTypeOK, Begun, InFlight, Flight, Waits
  <2> QED BY <2>1, <2>2 DEF Dispatch
<1>7. StoreTypeOK'
  BY <1>1, <1>5 DEF Dispatch, StoreTypeOK, Tables
<1>8. DispatchTypeOK'
  BY <1>1, <1>6 DEF Dispatch, DispatchTypeOK, Flight
<1>9. RemoteTypeOK' /\ ReconcilerTypeOK'
  BY <1>1 DEF RemoteTypeOK, ReconcilerTypeOK, remoteVars
<1> QED BY <1>1, <1>7, <1>8, <1>9 DEF TypeOK

LEMMA OutcomeTyped ==
  ASSUME Tables(events), DispatchTypeOK, NEW r \in InFlight, NEW s \in Statuses
  PROVE  /\ Tables(WithStatus(r, s))
         /\ Tables(BackInQueue(r))
         /\ Tables(Launched(r))
<1>1. r \in Actions \X EventKey /\ disp[r].gate \in Nat \X Nat
  BY DEF DispatchTypeOK
<1>2. HasRow(r) => Row(r) \in Event
  BY <1>1 DEF HasRow, Row, Tables, IsTable
<1>3. Tables(BackInQueue(r))
  BY <1>1, <1>2, EventReleased, PatchedTyped DEF BackInQueue
<1>4. Tables(Launched(r))
  BY <1>1, <1>2, EventLaunched, PatchedTyped DEF Launched
<1> QED BY <1>1, <1>3, <1>4, WithStatusTyped

LEMMA GateTyped ==
  ASSUME TypeOK, NEW r \in InFlight, GateCreated(r)
  PROVE  DispatchTypeOK'
<1>1. StoreTypeOK /\ DispatchTypeOK
  BY DEF TypeOK
<1>2. /\ r[1] \in Actions /\ r[2] \in EventKey
      /\ disp[r].event \in Event /\ disp[r].action \in Action
  BY <1>1 DEF DispatchTypeOK
<1> DEFINE gate == [key |-> r[2], origin |-> disp[r].event.origin,
                    cost |-> disp[r].action.cost, day |-> Day(disp[r].event.dispatched)]
<1>3. gate \in Gate
  <2>1. \A n \in Nat : Day(n) \in Nat
    BY StoreAssumption DEF Day
  <2> QED BY <1>2, <2>1 DEF Gate, Event, Action
<1>4. /\ gates' = [gates EXCEPT ![r[1]] = Append(@, gate)]
      /\ disp' = [disp EXCEPT ![r].wait = "launching",
                              ![r].gate = <<r[1], Len(gates[r[1]]) + 1>>]
      /\ UNCHANGED <<draining, turn>>
  BY DEF GateCreated
<1> HIDE DEF gate
<1>5. gates[r[1]] \in Seq(Gate)
  BY <1>1, <1>2 DEF DispatchTypeOK
<1>6. gates' \in [Actions -> Seq(Gate)]
  BY <1>1, <1>2, <1>3, <1>4, <1>5 DEF DispatchTypeOK
<1>7. <<r[1], Len(gates[r[1]]) + 1>> \in Nat \X Nat
  <2>1. r[1] \in Nat
    BY <1>2, StoreAssumption
  <2>2. Len(gates[r[1]]) \in Nat
    BY <1>5, LenProperties
  <2> QED BY <2>1, <2>2
<1>8. \A q \in InFlight : disp'[q] \in Flight
  BY <1>1, <1>4, <1>7, ZenonT(60) DEF DispatchTypeOK, Flight, Waits, InFlight
<1> QED BY <1>1, <1>4, <1>6, <1>8 DEF DispatchTypeOK, InFlight, Flight

LEMMA AwaitedTyped ==
  ASSUME TypeOK, AwaitedStep
  PROVE  TypeOK'
<1>1. /\ RemoteTypeOK /\ StoreTypeOK /\ DispatchTypeOK /\ ReconcilerTypeOK
      /\ UNCHANGED <<remoteVars, rec, restarts, backlog>>
  BY DEF TypeOK, AwaitedStep
<1>2. Tables(events)
  BY <1>1 DEF StoreTypeOK, Tables
<1> PICK r \in InFlight : \/ DrainRefused(r) \/ PreviewAnswers(r) \/ PreDispatchRefused(r)
                          \/ GateCreated(r) \/ LaunchAnswered(r) \/ DispatchFails(r)
                          \/ OutcomeUnwritten(r)
  BY DEF AwaitedStep, DispatchStep
<1>3. Tables(events') /\ UNCHANGED <<actions, claimed, sincePrune>>
  BY <1>1, <1>2, OutcomeTyped
  DEF DrainRefused, PreviewAnswers, PreDispatchRefused, GateCreated, LaunchAnswered,
      DispatchFails, OutcomeUnwritten, Statuses, storeVars
<1>4. StoreTypeOK'
  BY <1>1, <1>3 DEF StoreTypeOK, Tables
<1>5. DispatchTypeOK'
  <2>1. CASE GateCreated(r)
    BY <2>1, GateTyped
  <2>2. CASE PreviewAnswers(r)
    BY <1>1, <2>2, ZenonT(60) DEF PreviewAnswers, DispatchTypeOK, InFlight, Waits
  <2>3. CASE disp' = Ended(r) /\ UNCHANGED <<draining, turn, gates>>
    BY <1>1, <2>3, EndedTyped DEF DispatchTypeOK, Flight
  <2> QED BY <2>1, <2>2, <2>3
          DEF DrainRefused, PreDispatchRefused, LaunchAnswered, DispatchFails, OutcomeUnwritten
<1>6. RemoteTypeOK' /\ ReconcilerTypeOK'
  BY <1>1 DEF RemoteTypeOK, ReconcilerTypeOK, remoteVars
<1> QED BY <1>1, <1>4, <1>5, <1>6 DEF TypeOK

LEMMA SweptTyped ==
  ASSUME Tables(events), NEW live
  PROVE  Tables(OrphansFailed(live))
<1>1. \A a \in Actions : \A k \in DOMAIN events[a] : OrphansFailed(live)[a][k] \in Event
  BY StatusChanged DEF OrphansFailed, Tables, IsTable, Statuses
<1>2. \A a \in Actions : DOMAIN OrphansFailed(live)[a] = DOMAIN events[a]
  BY DEF OrphansFailed
<1>3. DOMAIN OrphansFailed(live) = Actions
  BY DEF OrphansFailed
<1> QED BY <1>1, <1>2, <1>3, RowsTyped DEF Tables

LEMMA ProcessTyped ==
  ASSUME TypeOK, DrainStep \/ Restart
  PROVE  TypeOK'
<1>1. /\ RemoteTypeOK /\ StoreTypeOK /\ DispatchTypeOK /\ ReconcilerTypeOK
      /\ UNCHANGED <<remoteVars, backlog>>
  BY DEF TypeOK, DrainStep, Restart
<1>2. RemoteTypeOK'
  BY <1>1 DEF RemoteTypeOK, remoteVars
<1>3. CASE DrainStep
  BY <1>1, <1>2, <1>3 DEF DrainStep, Drain, TypeOK, StoreTypeOK, DispatchTypeOK, InFlight,
                          ReconcilerTypeOK, storeVars
<1>4. CASE Restart
  <2>1. StoreTypeOK'
    <3>1. Tables(events')
      BY <1>1, <1>4, SweptTyped DEF Restart, DispatchRestart, StoreTypeOK, Tables
    <3> QED BY <1>1, <1>4, <3>1, StoreAssumption DEF Restart, DispatchRestart, StoreTypeOK, Tables
  <2>2. DispatchTypeOK'
    BY <1>1, <1>4 DEF Restart, DispatchRestart, DispatchTypeOK, InFlight
  <2>3. ReconcilerTypeOK'
    BY <1>4 DEF Restart, ReconcilerRestart, Idle, ReconcilerTypeOK, Stages
  <2>4. restarts' \in 0..MaxRestarts
    BY <1>4, RestartAssumption DEF Restart, TypeOK
  <2> QED BY <1>1, <1>2, <2>1, <2>2, <2>3, <2>4 DEF TypeOK
<1> QED BY <1>3, <1>4

-----------------------------------------------------------------------------
(* The reconciliation cycle.                                                *)

\* The recovered keys of an action are as finite as the targets: a key names its target.
LEMMA RecoveredFinite ==
  ASSUME ReconcilerTypeOK, NEW a
  PROVE  IsFiniteSet(RecoveredKeys(a))
<1>1. Recovered(a) \subseteq Targets
  BY DEF ReconcilerTypeOK, Recovered, Unseen
<1>2. IsFiniteSet(Recovered(a))
  BY <1>1, FS_Subset, RemoteAssumption
<1> DEFINE f == [t \in Recovered(a) |-> RecoveredKey(a, t)]
<1>3. f \in Surjection(Recovered(a), RecoveredKeys(a))
  BY DEF RecoveredKeys, Surjection
<1> QED BY <1>2, <1>3, FS_Surjection

LEMMA RecoveredTyped ==
  ASSUME TypeOK, NEW a \in DOMAIN rec.acts, NEW t \in Recovered(a)
  PROVE  RecoveredKey(a, t) \in EventKey /\ RecoveredEvent(a, t) \in Event
<1>1. /\ RemoteTypeOK /\ StoreTypeOK /\ ReconcilerTypeOK
  BY DEF TypeOK
<1>2. a \in Actions /\ rec.acts[a] \in Action
  BY <1>1 DEF ReconcilerTypeOK
<1>3. t \in Targets /\ rec.seen[t].sha \in Shas /\ rec.seen[t].observed \in Nat
  BY <1>1 DEF ReconcilerTypeOK, Listing, Recovered, Unseen
<1>4. RecoveredKey(a, t) \in EventKey
  BY <1>2, <1>3, NoGateTyped DEF RecoveredKey, EventKey, Action
<1>5. IsFiniteSet(DOMAIN events[a]) /\ now \in Nat /\ rec.acts[a].cost \in Nat
  BY <1>1, <1>2, RemoteAssumption DEF StoreTypeOK, IsTable, RemoteTypeOK, Action
<1> QED BY <1>3, <1>4, <1>5, NewEventTyped DEF RecoveredEvent, Statuses, Origins

LEMMA ReconciledTyped ==
  ASSUME TypeOK, NEW a \in DOMAIN rec.acts
  PROVE  IsTable(Reconciled(a))
<1>1. StoreTypeOK /\ ReconcilerTypeOK
  BY DEF TypeOK
<1>2. IsTable(events[a])
  BY <1>1 DEF StoreTypeOK, ReconcilerTypeOK
<1>3. IsFiniteSet(DOMAIN events[a] \cup RecoveredKeys(a))
  BY <1>1, <1>2, RecoveredFinite, FS_Union DEF IsTable
<1>4. ASSUME NEW k \in RecoveredKeys(a) PROVE k \in EventKey /\ RecoveredEvent(a, k.target) \in Event
  <2>1. PICK t \in Recovered(a) : k = RecoveredKey(a, t)
    BY DEF RecoveredKeys
  <2>2. k.target = t
    BY <2>1 DEF RecoveredKey
  <2> QED BY <2>1, <2>2, RecoveredTyped
<1>5. ASSUME NEW k \in DOMAIN events[a] PROVE Waiting(a, k) \in Event
  <2>1. events[a][k] \in Event
    BY <1>2 DEF IsTable
  <2> QED BY <2>1, SupersededTyped, StatusChanged DEF Waiting, Reasons, Statuses
<1> QED BY <1>2, <1>3, <1>4, <1>5 DEF IsTable, Reconciled

LEMMA RecordTyped ==
  ASSUME TypeOK, Record
  PROVE  StoreTypeOK' /\ ReconcilerTypeOK'
<1>1. StoreTypeOK /\ ReconcilerTypeOK
  BY DEF TypeOK
<1>2. Tables(events')
  BY <1>1, ReconciledTyped DEF Record, StoreTypeOK, Tables
<1>3. actions' \in [Actions -> Action]
  <2>1. \A a \in Actions : BaselineFilled(a) \in Action
    BY <1>1 DEF BaselineFilled, StoreTypeOK, Action
  <2> QED BY <2>1 DEF Record
<1>4. rec'.todo \subseteq Actions \X EventKey
  <2>1. \A a \in DOMAIN rec.acts : a \in Actions /\ QueuedForDispatch(a, events'[a]) \subseteq EventKey
    BY <1>1, <1>2 DEF QueuedForDispatch, ReconcilerTypeOK, Tables, IsTable
  <2>2. rec'.todo = UNION {{a} \X QueuedForDispatch(a, events'[a]) :
                             a \in {b \in DOMAIN rec.acts : ~FirstRun(b)}}
    BY <1>1 DEF Record, ReconcilerTypeOK
  <2> QED BY <2>1, <2>2
<1>5. StoreTypeOK'
  BY <1>1, <1>2, <1>3 DEF Record, StoreTypeOK, Tables
<1>6. ReconcilerTypeOK'
  BY <1>1, <1>4 DEF Record, ReconcilerTypeOK, Stages
<1> QED BY <1>5, <1>6

LEMMA ScopeTyped ==
  ASSUME TypeOK, ScopeRead
  PROVE  StoreTypeOK' /\ ReconcilerTypeOK'
<1>1. StoreTypeOK /\ ReconcilerTypeOK
  BY DEF TypeOK
<1>2. actions' \in [Actions -> Action]
  BY <1>1, AllDisabledTyped DEF ScopeRead, AfterReport, StoreTypeOK
<1>3. PICK acts \in SUBSET Actions :
        rec' = [rec EXCEPT !.stage = AfterScope(acts), !.acts = [a \in acts |-> actions[a]]]
  BY DEF ScopeRead
<1>4. AfterScope(acts) \in Stages
  BY DEF AfterScope, Stages
<1>5. ReconcilerTypeOK'
  BY <1>1, <1>3, <1>4 DEF ReconcilerTypeOK, StoreTypeOK
<1> QED BY <1>1, <1>2, <1>5 DEF ScopeRead, AfterReport, StoreTypeOK

LEMMA ListedTyped ==
  ASSUME TypeOK, PullsListed \/ BranchesListed
  PROVE  ReconcilerTypeOK'
<1>1. RemoteTypeOK /\ ReconcilerTypeOK
  BY DEF TypeOK
<1>2. ASSUME NEW ts \in SUBSET Targets, NEW t \in DOMAIN OpenHeads(ts)
      PROVE  t \in Targets /\ OpenHeads(ts)[t] \in Listing
  BY <1>1, <1>2, NoGateTyped DEF OpenHeads, Listing, RemoteTypeOK
<1>3. CASE PullsListed
  <2>1. PullRequests \subseteq Targets /\ AfterPulls(rec.acts) \in Stages
    BY RemoteAssumption DEF AfterPulls, Stages
  <2> QED BY <1>1, <1>2, <1>3, <2>1 DEF PullsListed, ReconcilerTypeOK
<1>4. CASE BranchesListed
  <2>1. Branches \subseteq Targets
    BY DEF Branches
  <2> QED BY <1>1, <1>2, <1>4, <2>1 DEF BranchesListed, ReconcilerTypeOK, Stages
<1> QED BY <1>3, <1>4

LEMMA CycleTyped ==
  ASSUME TypeOK, CycleStep
  PROVE  TypeOK'
<1>1. /\ RemoteTypeOK /\ StoreTypeOK /\ DispatchTypeOK /\ ReconcilerTypeOK
      /\ UNCHANGED <<remoteVars, restarts, backlog>>
  BY DEF TypeOK, CycleStep
<1> DEFINE Goal == StoreTypeOK' /\ DispatchTypeOK' /\ ReconcilerTypeOK'
<1>2. UNCHANGED dispatchVars => DispatchTypeOK'
  BY <1>1 DEF DispatchTypeOK, InFlight, dispatchVars
<1>3. UNCHANGED storeVars => StoreTypeOK'
  BY <1>1 DEF StoreTypeOK, storeVars
<1>4. ASSUME CycleStarts PROVE Goal
  <2>1. Tables(events')
    BY <1>1, <1>4, SweptTyped DEF CycleStarts, StoreTypeOK, Tables
  <2>2. StoreTypeOK'
    BY <1>1, <1>4, <2>1 DEF CycleStarts, StoreTypeOK, Tables
  <2>3. ReconcilerTypeOK'
    BY <1>1, <1>4 DEF CycleStarts, ReconcilerTypeOK, Stages
  <2> QED BY <1>2, <1>4, <2>2, <2>3 DEF CycleStarts, dispatchVars
<1>5. ASSUME ScopeRead PROVE Goal
  BY <1>2, <1>5, ScopeTyped DEF ScopeRead, dispatchVars
<1>6. ASSUME PullsListed \/ BranchesListed PROVE Goal
  BY <1>2, <1>3, <1>6, ListedTyped DEF PullsListed, BranchesListed
<1>7. ASSUME Record PROVE Goal
  BY <1>2, <1>7, RecordTyped DEF Record, dispatchVars
<1>8. ASSUME DispatchNext PROVE Goal
  <2> PICK r \in rec.todo : /\ rec' = [rec EXCEPT !.todo = @ \ {r}, !.current = {r}]
                            /\ turn' = {r}
                            /\ UNCHANGED <<draining, disp, gates, storeVars>>
    BY <1>8 DEF DispatchNext
  <2>1. r \in Actions \X EventKey
    BY <1>1 DEF ReconcilerTypeOK
  <2>2. DispatchTypeOK'
    BY <1>1, <2>1 DEF DispatchTypeOK, InFlight
  <2>3. ReconcilerTypeOK'
    BY <1>1, <2>1 DEF ReconcilerTypeOK
  <2> QED BY <1>3, <2>2, <2>3
<1>9. ASSUME ListingFails \/ RecordFails \/ CycleEnds PROVE Goal
  <2>1. rec' = Idle /\ UNCHANGED <<storeVars, dispatchVars>>
    BY <1>9 DEF ListingFails, RecordFails, CycleEnds
  <2>2. ReconcilerTypeOK'
    BY <2>1 DEF Idle, ReconcilerTypeOK, Stages
  <2> QED BY <1>2, <1>3, <2>1, <2>2
<1>10. Goal
  BY <1>4, <1>5, <1>6, <1>7, <1>8, <1>9 DEF CycleStep, ReconcilerStep
<1>11. RemoteTypeOK'
  BY <1>1 DEF RemoteTypeOK, remoteVars
<1> QED BY <1>1, <1>10, <1>11 DEF TypeOK

-----------------------------------------------------------------------------
(* The start, and the theorem.                                              *)

LEMMA BaselineTyped ==
  ASSUME NEW a \in Action, a.revision = 1
  PROVE  IsTable(Baseline(a))
<1> USE RemoteAssumption, StoreAssumption
<1> DEFINE open  == {t \in a.follows : t \in Forks => a.forks}
           first == {t \in open : \A u \in open : FirstHead[u] = FirstHead[t] => t <= u}
           key(t) == [revision |-> 1, target |-> t, sha |-> FirstHead[t], checkRun |-> Null]
           keys  == {key(t) : t \in first}
           row(k) == NewEvent(NoEvents, "observed", "reconciliation", a.cost, 1,
                              IF k.target \in PullRequests THEN 1 ELSE Null)
<1>1. first \subseteq Targets
  BY DEF Action
<1>2. IsFiniteSet(keys)
  <2> DEFINE f == [t \in first |-> key(t)]
  <2> HIDE DEF first, key
  <2>1. IsFiniteSet(first)
    BY <1>1, FS_Subset
  <2>2. f \in Surjection(first, keys)
    BY DEF Surjection
  <2> QED BY <2>1, <2>2, FS_Surjection
<1>3. keys \subseteq EventKey
  <2>1. \A t \in Targets : key(t) \in EventKey
    BY NoGateTyped DEF EventKey
  <2> HIDE DEF first, key
  <2> QED BY <1>1, <2>1
<1>4. \A k \in keys : row(k) \in Event
  <2>1. IsFiniteSet(DOMAIN NoEvents) /\ a.cost \in Nat
    BY FS_EmptySet DEF NoEvents, Action
  <2> HIDE DEF keys
  <2> QED BY <2>1, NewEventTyped, NoGateTyped DEF Statuses, Origins
<1>5. CASE a.baseline
  <2>1. Baseline(a) = [k \in keys |-> row(k)]
    BY <1>5 DEF Baseline
  <2> HIDE DEF keys, row
  <2> QED BY <1>2, <1>3, <1>4, <2>1 DEF IsTable
<1>6. CASE ~a.baseline
  BY <1>6, FS_EmptySet DEF Baseline, NoEvents, IsTable
<1> QED BY <1>5, <1>6

LEMMA InitTyped ==
  ASSUME Init
  PROVE  TypeOK
<1> USE RemoteAssumption, StoreAssumption
<1>1. RemoteTypeOK
  BY FS_EmptySet DEF Init, RemoteInit, RemoteTypeOK
<1>2. StoreTypeOK
  <2>1. \A a \in Actions : IsTable(Baseline(InitialActions[a]))
    BY BaselineTyped
  <2> QED BY <2>1 DEF Init, StoreInit, StoreTypeOK
<1>3. DispatchTypeOK
  <2>1. gates \in [Actions -> Seq(Gate)]
    BY EmptySeq DEF Init, DispatchInit
  <2>2. InFlight = {} /\ turn = {} /\ draining = FALSE
    BY DEF Init, DispatchInit, InFlight
  <2> QED BY <2>1, <2>2 DEF DispatchTypeOK
<1>4. ReconcilerTypeOK
  BY DEF Init, ReconcilerInit, Idle, ReconcilerTypeOK, Stages
<1>5. backlog \in [Actions -> SUBSET (Targets \X Shas)]
  <2>1. \A follows \in SUBSET Targets : Heads(follows) \subseteq Targets \X Shas
    BY <1>1 DEF Heads, RemoteTypeOK
  <2>2. \A a \in Actions : InitialActions[a].follows \in SUBSET Targets
    BY DEF Action
  <2> QED BY <2>1, <2>2 DEF Init
<1> QED BY <1>1, <1>2, <1>3, <1>4, <1>5, RestartAssumption DEF Init, TypeOK

LEMMA TypedStep ==
  ASSUME TypeOK, [Next]_vars
  PROVE  TypeOK'
<1>1. CASE UNCHANGED vars
  BY <1>1 DEF vars, remoteVars, storeVars, dispatchVars, TypeOK, RemoteTypeOK, StoreTypeOK,
              DispatchTypeOK, InFlight, ReconcilerTypeOK
<1>2. CASE Next
  BY <1>2, OutsideTyped, OperatorTyped, DeliveryTyped, TurnTyped, AwaitedTyped, CycleTyped,
     ProcessTyped DEF Next
<1> QED BY <1>1, <1>2

\* Every variable keeps its type, whoever acts: tables of the store stay tables
\* of events, what is in flight stays a dispatch of an event, and the cycle only
\* ever holds what it may have read.
THEOREM TypeCorrect == Spec => []TypeOK
<1>1. Init => TypeOK
  BY InitTyped
<1>2. TypeOK /\ [Next]_vars => TypeOK'
  BY TypedStep
<1> QED BY <1>1, <1>2, PTL DEF Spec

-----------------------------------------------------------------------------
(* The inductive invariant of a launch.                                      *)

\* An event with a gate is past the queue for ever, unless its action is deleted.
GateKeptByRow ==
  \A a \in Actions : \A n \in DOMAIN gates[a] :
    actions[a].exists =>
      /\ gates[a][n].key \in DOMAIN events[a]
      /\ events[a][gates[a][n].key].status \in {"dispatching", "launched", "failed"}

\* Before the executor is called nothing was created for the event.
NothingLaunchedYet ==
  \A r \in InFlight : disp[r].wait # "launching" =>
    \A n \in DOMAIN gates[r[1]] : gates[r[1]][n].key # r[2]

\* From then on the dispatch carries the gate that was created for it.
FlightNamesItsGate ==
  \A r \in InFlight : disp[r].wait = "launching" =>
    /\ disp[r].gate[1] = r[1]
    /\ disp[r].gate[2] \in DOMAIN gates[r[1]]
    /\ gates[r[1]][disp[r].gate[2]].key = r[2]

\* A row only leaves by the cascade of its action, which leaves no row at all.
FlightHasRow == \A r \in InFlight : actions[r[1]].exists => HasRow(r)

DeletedIsEmpty == \A a \in Actions : ~actions[a].exists => DOMAIN events[a] = {}

LaunchedRow(a, k) ==
  events[a][k].status = "launched" =>
    LET g == events[a][k].gate
    IN g[1] = a /\ g[2] \in DOMAIN gates[a] /\ gates[a][g[2]].key = k

LaunchedRows == \A a \in Actions : \A k \in DOMAIN events[a] : LaunchedRow(a, k)

IInv ==
  /\ LaunchedOnce
  /\ FlightOwnsItsRow
  /\ GateKeptByRow
  /\ NothingLaunchedYet
  /\ FlightNamesItsGate
  /\ FlightHasRow
  /\ DeletedIsEmpty
  /\ LaunchedRows

-----------------------------------------------------------------------------
(* The start.                                                               *)

LEMMA IInvAtStart ==
  ASSUME Init
  PROVE  IInv
<1>1. gates = [a \in Actions |-> <<>>] /\ InFlight = {}
  BY DEF Init, DispatchInit, InFlight
<1>2. \A a \in Actions : DOMAIN gates[a] = {}
  BY <1>1
<1>3. \A a \in Actions : actions[a].exists
  BY StoreAssumption DEF Init, StoreInit
<1>4. ASSUME NEW a \in Actions, NEW k \in DOMAIN events[a]
      PROVE  events[a][k].status = "observed"
  <2>1. events[a] = Baseline(InitialActions[a])
    BY DEF Init, StoreInit
  <2> QED BY <2>1 DEF Baseline, NoEvents, NewEvent
<1> QED BY <1>1, <1>2, <1>3, <1>4
        DEF IInv, LaunchedOnce, FlightOwnsItsRow, GateKeptByRow, NothingLaunchedYet,
            FlightNamesItsGate, FlightHasRow, DeletedIsEmpty, LaunchedRows, LaunchedRow

-----------------------------------------------------------------------------
(* Most steps are quiet: they leave the gates and the dispatches alone, they *)
(* only move rows that wait in the queue or that nobody holds, and only an   *)
(* action that exists is given new rows, none of them launched.              *)

\* What no statement ever rewrites: who asked for the event, its clocks, and what it
\* may cost.
Kept(e, f) ==
  /\ f.origin = e.origin /\ f.cost = e.cost
  /\ f.detected = e.detected /\ f.observed = e.observed

QuietRow(a, k) ==
  /\ Kept(events[a][k], events'[a][k])
  /\ \/ events'[a][k] = events[a][k]
     \/ /\ events[a][k].status = "queued"
        /\ events'[a][k].status \in {"skipped", "superseded"}
     \/ /\ events[a][k].status = "dispatching"
        /\ <<a, k>> \notin InFlight
        /\ events'[a][k].status = "failed"
        /\ events'[a][k].dispatched = events[a][k].dispatched

\* How an event is recorded.
Fresh == {"observed", "queued", "skipped"}

\* Who records a new event, for which target and at what ceiling: a delivery, under
\* the action as it is; a re-run; or a cycle, under the action as the cycle read it.
RecoveredNow(a, k) ==
  /\ rec.stage = "recording" /\ a \in DOMAIN rec.acts
  /\ k \in RecoveredKeys(a) /\ k.target \in Recovered(a)
  /\ FirstRun(a) => events'[a][k].status = "observed"

Recorded(a, k) ==
  LET origin == events'[a][k].origin
      cost   == events'[a][k].cost
  IN \/ /\ origin = "manual" /\ k.revision = actions[a].revision
        /\ cost = actions[a].cost
     \/ /\ origin = "webhook" /\ k.revision = actions[a].revision
        /\ k.target \in actions[a].follows
        /\ cost = actions[a].cost
     \/ /\ origin = "reconciliation" /\ RecoveredNow(a, k)
        /\ cost = rec.acts[a].cost

QuietTable(a) ==
  /\ DOMAIN events[a] \subseteq DOMAIN events'[a]
  /\ \A k \in DOMAIN events[a] : QuietRow(a, k)
  /\ \A k \in DOMAIN events'[a] \ DOMAIN events[a] :
       actions[a].exists /\ events'[a][k].status \in Fresh /\ Recorded(a, k)

QuietStep ==
  /\ UNCHANGED <<gates, disp>>
  /\ \A a \in Actions : actions'[a].exists = actions[a].exists
  /\ \A a \in Actions : QuietTable(a)

LEMMA QuietKeepsIInv ==
  ASSUME TypeOK, IInv, QuietStep
  PROVE  IInv'
<1>1. gates' = gates /\ InFlight' = InFlight /\ disp' = disp
  BY DEF QuietStep, InFlight
<1>2. ASSUME NEW r \in InFlight
      PROVE  r[1] \in Actions /\ r[2] \in EventKey /\ r = <<r[1], r[2]>>
  BY DEF TypeOK, DispatchTypeOK
<1>3. LaunchedOnce'
  BY <1>1 DEF IInv, LaunchedOnce
<1>4. FlightOwnsItsRow'
  <2> SUFFICES ASSUME NEW r \in InFlight, r[2] \in DOMAIN events'[r[1]]
               PROVE  events'[r[1]][r[2]].status = "dispatching"
    BY <1>1 DEF FlightOwnsItsRow, HasRow, StatusOf, Row
  <2>1. r[2] \in DOMAIN events[r[1]]
    BY <1>2 DEF QuietStep, QuietTable, IInv, FlightHasRow, HasRow
  <2>2. events[r[1]][r[2]].status = "dispatching"
    BY <2>1 DEF IInv, FlightOwnsItsRow, HasRow, StatusOf, Row
  <2> QED BY <1>2, <2>1, <2>2 DEF QuietStep, QuietTable, QuietRow
<1>5. GateKeptByRow'
  <2> SUFFICES ASSUME NEW a \in Actions, NEW n \in DOMAIN gates[a], actions'[a].exists
               PROVE  /\ gates[a][n].key \in DOMAIN events'[a]
                      /\ events'[a][gates[a][n].key].status \in {"dispatching", "launched", "failed"}
    BY <1>1 DEF GateKeptByRow
  <2> DEFINE k == gates[a][n].key
  <2>1. k \in DOMAIN events[a] /\ events[a][k].status \in {"dispatching", "launched", "failed"}
    BY DEF QuietStep, IInv, GateKeptByRow
  <2>2. k \in DOMAIN events'[a] /\ QuietRow(a, k)
    BY <2>1 DEF QuietStep, QuietTable
  <2> HIDE DEF k
  <2>3. events'[a][k].status \in {"dispatching", "launched", "failed"}
    BY <2>1, <2>2 DEF QuietRow
  <2> QED BY <2>2, <2>3 DEF k
<1>6. NothingLaunchedYet' /\ FlightNamesItsGate'
  BY <1>1 DEF IInv, NothingLaunchedYet, FlightNamesItsGate
<1>7. FlightHasRow'
  BY <1>1, <1>2 DEF IInv, FlightHasRow, HasRow, QuietStep, QuietTable
<1>8. DeletedIsEmpty'
  BY DEF IInv, DeletedIsEmpty, QuietStep, QuietTable
<1>9. LaunchedRows'
  <2> SUFFICES ASSUME NEW a \in Actions, NEW k \in DOMAIN events'[a],
                      events'[a][k].status = "launched"
               PROVE  LaunchedRow(a, k)'
    BY DEF LaunchedRows, LaunchedRow
  <2>1. k \in DOMAIN events[a] /\ QuietRow(a, k)
    BY DEF QuietStep, QuietTable, Fresh
  <2>2. events'[a][k] = events[a][k]
    BY <2>1 DEF QuietRow
  <2> QED BY <1>1, <2>1, <2>2 DEF IInv, LaunchedRows, LaunchedRow
<1> QED BY <1>3, <1>4, <1>5, <1>6, <1>7, <1>8, <1>9 DEF IInv

-----------------------------------------------------------------------------
(* A dispatch that begins, and one that ends.                               *)

LEMMA PatchedRows ==
  ASSUME DOMAIN events = Actions, NEW r \in Actions \X EventKey, NEW e, events' = Patched(r, e)
  PROVE  /\ \A a \in Actions : DOMAIN events'[a] = DOMAIN events[a]
         /\ \A a \in Actions : \A k \in DOMAIN events[a] :
              IF <<a, k>> = r THEN events'[a][k] = e ELSE events'[a][k] = events[a][k]
<1>1. r[1] \in Actions /\ r = <<r[1], r[2]>>
  OBVIOUS
<1>2. CASE HasRow(r)
  BY <1>1, <1>2 DEF Patched, HasRow
<1>3. CASE ~HasRow(r)
  BY <1>1, <1>3 DEF Patched, HasRow
<1> QED BY <1>2, <1>3

Begins(r) ==
  /\ HasRow(r) /\ StatusOf(r) = "queued" /\ ~RefusedAtOnce(r) /\ CanReserve(r)
  /\ events' = Patched(r, ReservedEvent(Row(r))) /\ disp' = Begun(r)
  /\ UNCHANGED <<gates, actions>>

LEMMA BegunKeepsIInv ==
  ASSUME TypeOK, IInv, NEW r \in Actions \X EventKey, Begins(r)
  PROVE  IInv'
<1> USE DEF Begins
<1>1. r[1] \in Actions /\ r[2] \in DOMAIN events[r[1]] /\ events[r[1]][r[2]].status = "queued"
  BY DEF HasRow, StatusOf, Row
<1>2. actions[r[1]].exists /\ r \notin InFlight
  BY <1>1 DEF IInv, DeletedIsEmpty, FlightOwnsItsRow
<1>3. \A n \in DOMAIN gates[r[1]] : gates[r[1]][n].key # r[2]
  BY <1>1, <1>2 DEF IInv, GateKeptByRow
<1>4. /\ \A a \in Actions : DOMAIN events'[a] = DOMAIN events[a]
      /\ \A a \in Actions : \A k \in DOMAIN events[a] :
           IF <<a, k>> = r THEN events'[a][k] = ReservedEvent(Row(r))
                           ELSE events'[a][k] = events[a][k]
  BY PatchedRows DEF TypeOK, StoreTypeOK
<1>5. ReservedEvent(Row(r)).status = "dispatching"
  BY <1>1 DEF ReservedEvent, Row, HasRow, TypeOK, StoreTypeOK, IsTable, Event
<1>6. /\ InFlight' = InFlight \cup {r}
      /\ disp'[r].wait # "launching"
      /\ \A q \in InFlight : disp'[q] = disp[q]
  BY <1>2 DEF Begun, InFlight
<1>7. \A q \in InFlight' : q[1] \in Actions /\ q = <<q[1], q[2]>>
  BY <1>6 DEF TypeOK, DispatchTypeOK
<1>8. LaunchedOnce' /\ DeletedIsEmpty'
  BY <1>4 DEF IInv, LaunchedOnce, DeletedIsEmpty
<1>9. FlightOwnsItsRow' /\ FlightHasRow'
  BY <1>1, <1>4, <1>5, <1>6, <1>7, SMTT(30) DEF IInv, FlightOwnsItsRow, FlightHasRow, HasRow, StatusOf, Row
<1>10. GateKeptByRow'
  BY <1>3, <1>4 DEF IInv, GateKeptByRow
<1>11. NothingLaunchedYet' /\ FlightNamesItsGate'
  BY <1>3, <1>6 DEF IInv, NothingLaunchedYet, FlightNamesItsGate
<1>12. LaunchedRows'
  BY <1>4, <1>5 DEF IInv, LaunchedRows, LaunchedRow
<1> QED BY <1>8, <1>9, <1>10, <1>11, <1>12 DEF IInv

\* Whatever the outcome, it is written over a row the dispatch still owns; an
\* outcome that reopens or discards the row is only possible before the launch.
Outcome(r, e) ==
  \/ e.status = "failed"
  \/ e.status \in {"queued", "skipped"} /\ disp[r].wait # "launching"
  \/ e.status = "launched" /\ disp[r].wait = "launching" /\ e.gate = disp[r].gate

EndsWith(r, e) ==
  /\ events' = Patched(r, e) /\ disp' = Ended(r)
  /\ UNCHANGED <<gates, actions>>
  /\ HasRow(r) => Outcome(r, e) /\ Kept(Row(r), e)
                 /\ (Booked(e) => e.dispatched = Row(r).dispatched)

LEMMA EndedKeepsIInv ==
  ASSUME TypeOK, IInv, NEW r \in InFlight, NEW e, EndsWith(r, e)
  PROVE  IInv'
<1> USE DEF EndsWith, Outcome
<1>1. r \in Actions \X EventKey
  BY DEF TypeOK, DispatchTypeOK
<1>2. /\ \A a \in Actions : DOMAIN events'[a] = DOMAIN events[a]
      /\ \A a \in Actions : \A k \in DOMAIN events[a] :
           IF <<a, k>> = r THEN events'[a][k] = e ELSE events'[a][k] = events[a][k]
  BY <1>1, PatchedRows DEF TypeOK, StoreTypeOK
<1>3. InFlight' = InFlight \ {r} /\ \A q \in InFlight' : disp'[q] = disp[q]
  BY DEF Ended, InFlight
<1>4. \A q \in InFlight : q[1] \in Actions /\ q = <<q[1], q[2]>>
  BY DEF TypeOK, DispatchTypeOK
<1>5. LaunchedOnce' /\ DeletedIsEmpty'
  BY <1>2 DEF IInv, LaunchedOnce, DeletedIsEmpty
<1>6. FlightOwnsItsRow' /\ FlightHasRow'
  BY <1>2, <1>3, <1>4 DEF IInv, FlightOwnsItsRow, FlightHasRow, HasRow, StatusOf, Row
<1>7. GateKeptByRow'
  <2> SUFFICES ASSUME NEW a \in Actions, NEW n \in DOMAIN gates[a], actions[a].exists
               PROVE  /\ gates[a][n].key \in DOMAIN events'[a]
                      /\ events'[a][gates[a][n].key].status \in {"dispatching", "launched", "failed"}
    BY DEF GateKeptByRow
  <2> DEFINE k == gates[a][n].key
  <2>1. k \in DOMAIN events[a] /\ events[a][k].status \in {"dispatching", "launched", "failed"}
    BY DEF IInv, GateKeptByRow
  <2>2. CASE <<a, k>> # r
    BY <1>2, <2>1, <2>2
  <2>3. CASE <<a, k>> = r
    <3>1. disp[r].wait = "launching" /\ HasRow(r)
      BY <2>1, <2>3 DEF IInv, NothingLaunchedYet, HasRow
    <3>2. e.status \in {"dispatching", "launched", "failed"}
      BY <3>1
    <3> QED BY <1>2, <2>1, <2>3, <3>2
  <2> QED BY <2>2, <2>3
<1>8. NothingLaunchedYet' /\ FlightNamesItsGate'
  BY <1>3 DEF IInv, NothingLaunchedYet, FlightNamesItsGate
<1>9. LaunchedRows'
  <2> SUFFICES ASSUME NEW a \in Actions, NEW k \in DOMAIN events[a],
                      events'[a][k].status = "launched"
               PROVE  LET g == events'[a][k].gate
                      IN g[1] = a /\ g[2] \in DOMAIN gates[a] /\ gates[a][g[2]].key = k
    BY <1>2 DEF LaunchedRows, LaunchedRow
  <2>1. CASE <<a, k>> # r
    BY <1>2, <2>1 DEF IInv, LaunchedRows, LaunchedRow
  <2>2. CASE <<a, k>> = r
    <3>1. HasRow(r) /\ events'[a][k] = e
      BY <1>2, <2>2 DEF HasRow
    <3>2. disp[r].wait = "launching" /\ e.gate = disp[r].gate
      BY <3>1
    <3> QED BY <2>2, <3>1, <3>2 DEF IInv, FlightNamesItsGate
  <2> QED BY <2>1, <2>2
<1> QED BY <1>5, <1>6, <1>7, <1>8, <1>9 DEF IInv

\* What holds of rows and gates still does when neither they nor more dispatches move.
LEMMA SameRowsKept ==
  ASSUME IInv, UNCHANGED <<events, actions, gates>>, InFlight' \subseteq InFlight
  PROVE  /\ LaunchedOnce' /\ GateKeptByRow' /\ DeletedIsEmpty' /\ LaunchedRows'
         /\ FlightOwnsItsRow' /\ FlightHasRow'
<1>1. LaunchedOnce' /\ GateKeptByRow' /\ DeletedIsEmpty'
  BY DEF IInv, LaunchedOnce, GateKeptByRow, DeletedIsEmpty
<1>2. LaunchedRows'
  BY DEF IInv, LaunchedRows, LaunchedRow
<1>3. FlightOwnsItsRow' /\ FlightHasRow'
  BY DEF IInv, FlightOwnsItsRow, FlightHasRow, HasRow, StatusOf, Row
<1> QED BY <1>1, <1>2, <1>3

LEMMA UnwrittenKeepsIInv ==
  ASSUME TypeOK, IInv, NEW r \in InFlight, OutcomeUnwritten(r)
  PROVE  IInv'
<1>1. /\ UNCHANGED <<events, actions, gates>>
      /\ InFlight' = InFlight \ {r} /\ \A q \in InFlight' : disp'[q] = disp[q]
  BY DEF OutcomeUnwritten, Ended, InFlight, storeVars
<1>2. NothingLaunchedYet' /\ FlightNamesItsGate'
  BY <1>1 DEF IInv, NothingLaunchedYet, FlightNamesItsGate
<1> QED BY <1>1, <1>2, SameRowsKept DEF IInv

LEMMA PreviewKeepsIInv ==
  ASSUME TypeOK, IInv, NEW r \in InFlight, PreviewAnswers(r)
  PROVE  IInv'
<1>1. /\ UNCHANGED <<events, actions, gates>>
      /\ InFlight' = InFlight
      /\ disp[r].wait = "previewing"
      /\ disp'[r].wait = "accepting"
      /\ \A q \in InFlight \ {r} : disp'[q] = disp[q]
  BY DEF PreviewAnswers, InFlight, storeVars, TypeOK, DispatchTypeOK
<1>2. NothingLaunchedYet' /\ FlightNamesItsGate'
  BY <1>1 DEF IInv, NothingLaunchedYet, FlightNamesItsGate
<1> QED BY <1>1, <1>2, SameRowsKept DEF IInv

\* The step that matters: the one gate of the event is created.
LEMMA GateKeepsIInv ==
  ASSUME TypeOK, IInv, NEW r \in InFlight, GateCreated(r)
  PROVE  IInv'
<1>1. r[1] \in Actions /\ r = <<r[1], r[2]>> /\ gates[r[1]] \in Seq(Gate)
  BY DEF TypeOK, DispatchTypeOK
<1> DEFINE a == r[1]
           n == Len(gates[a]) + 1
<1> DEFINE gate == [key |-> r[2], origin |-> disp[r].event.origin,
                    cost |-> disp[r].action.cost, day |-> Day(disp[r].event.dispatched)]
<1>2. /\ gate.key = r[2]
      /\ gates' = [gates EXCEPT ![a] = Append(@, gate)]
      /\ disp' = [disp EXCEPT ![r].wait = "launching", ![r].gate = <<a, n>>]
  BY DEF GateCreated
<1> HIDE DEF gate
<1>3. UNCHANGED <<events, actions>> /\ disp[r].wait = "accepting"
  BY DEF GateCreated, storeVars
<1>4. /\ InFlight' = InFlight
      /\ disp'[r].wait = "launching" /\ disp'[r].gate = <<a, n>>
      /\ \A q \in InFlight \ {r} : disp'[q] = disp[q]
  <2>1. r \in DOMAIN disp /\ disp[r] \in Flight
    BY DEF InFlight, TypeOK, DispatchTypeOK, Flight
  <2>2. disp'[r] = [disp[r] EXCEPT !.wait = "launching", !.gate = <<a, n>>]
    BY <1>2, <2>1
  <2>3. disp'[r].wait = "launching" /\ disp'[r].gate = <<a, n>>
    BY <2>1, <2>2 DEF Flight
  <2> QED BY <1>2, <2>3 DEF InFlight
<1>5. /\ DOMAIN gates'[a] = DOMAIN gates[a] \cup {n} /\ n \notin DOMAIN gates[a]
      /\ gates'[a][n] = gate
      /\ \A m \in DOMAIN gates[a] : gates'[a][m] = gates[a][m]
  <2>1. gates'[a] = Append(gates[a], gate)
    BY <1>1, <1>2 DEF TypeOK, DispatchTypeOK
  <2>2. Len(gates[a]) \in Nat /\ DOMAIN gates[a] = 1..Len(gates[a])
    BY <1>1, LenProperties
  <2>3. /\ DOMAIN Append(gates[a], gate) = 1..n
        /\ Append(gates[a], gate)[n] = gate
        /\ \A m \in 1..Len(gates[a]) : Append(gates[a], gate)[m] = gates[a][m]
    BY <1>1, <2>2
  <2> QED BY <2>1, <2>2, <2>3
<1>6. \A b \in Actions \ {a} : gates'[b] = gates[b]
  BY <1>1, <1>2 DEF TypeOK, DispatchTypeOK
<1> HIDE DEF n
<1>7. \A m \in DOMAIN gates[a] : gates[a][m].key # r[2]
  BY <1>3 DEF IInv, NothingLaunchedYet
<1>8. LaunchedOnce'
  BY <1>2, <1>5, <1>6, <1>7 DEF IInv, LaunchedOnce
<1>9. FlightOwnsItsRow' /\ FlightHasRow' /\ DeletedIsEmpty'
  BY <1>3, <1>4 DEF IInv, FlightOwnsItsRow, FlightHasRow, DeletedIsEmpty, HasRow, StatusOf, Row
<1>10. GateKeptByRow'
  <2>1. actions[a].exists => r[2] \in DOMAIN events[a] /\ events[a][r[2]].status = "dispatching"
    BY <1>1, SMTT(30) DEF IInv, FlightOwnsItsRow, FlightHasRow, HasRow, StatusOf, Row
  <2> QED BY <1>2, <1>3, <1>5, <1>6, <2>1, SMTT(30) DEF IInv, GateKeptByRow
<1>11. \A q \in InFlight \ {r} : q[1] \in Actions /\ q = <<q[1], q[2]>> /\ (q[1] = a => q[2] # r[2])
  BY <1>1 DEF TypeOK, DispatchTypeOK
<1>12. NothingLaunchedYet'
  <2> SUFFICES ASSUME NEW q \in InFlight, disp'[q].wait # "launching", NEW m \in DOMAIN gates'[q[1]]
               PROVE  gates'[q[1]][m].key # q[2]
    BY <1>4 DEF NothingLaunchedYet
  <2>1. q # r /\ disp[q].wait # "launching"
    BY <1>4
  <2>2. \A j \in DOMAIN gates[q[1]] : gates[q[1]][j].key # q[2]
    BY <2>1 DEF IInv, NothingLaunchedYet
  <2>3. CASE q[1] = a
    BY <1>2, <1>5, <1>11, <2>1, <2>2, <2>3
  <2>4. CASE q[1] # a
    BY <1>6, <1>11, <2>1, <2>2, <2>4
  <2> QED BY <2>3, <2>4
<1>13. FlightNamesItsGate'
  <2> SUFFICES ASSUME NEW q \in InFlight, disp'[q].wait = "launching"
               PROVE  /\ disp'[q].gate[1] = q[1]
                      /\ disp'[q].gate[2] \in DOMAIN gates'[q[1]]
                      /\ gates'[q[1]][disp'[q].gate[2]].key = q[2]
    BY <1>4 DEF FlightNamesItsGate
  <2>1. CASE q = r
    <3>1. disp'[q].gate[1] = a /\ disp'[q].gate[2] = n
      BY <1>4, <2>1
    <3> QED BY <1>2, <1>5, <2>1, <3>1
  <2>2. CASE q # r
    <3>1. /\ disp'[q] = disp[q]
          /\ disp[q].gate[1] = q[1]
          /\ disp[q].gate[2] \in DOMAIN gates[q[1]]
          /\ gates[q[1]][disp[q].gate[2]].key = q[2]
      BY <1>4, <2>2 DEF IInv, FlightNamesItsGate
    <3>2. CASE q[1] = a
      BY <1>5, <3>1, <3>2
    <3>3. CASE q[1] # a
      BY <1>6, <1>11, <2>2, <3>1, <3>3
    <3> QED BY <3>2, <3>3
  <2> QED BY <2>1, <2>2
<1>14. LaunchedRows'
  BY <1>3, <1>5, <1>6 DEF IInv, LaunchedRows, LaunchedRow
<1> QED BY <1>8, <1>9, <1>10, <1>12, <1>13, <1>14 DEF IInv

LEMMA AwaitedKind ==
  ASSUME TypeOK, AwaitedStep
  PROVE  \E r \in InFlight : \/ \E e : EndsWith(r, e)
                             \/ PreviewAnswers(r) \/ GateCreated(r) \/ OutcomeUnwritten(r)
<1> PICK r \in InFlight : \/ DrainRefused(r) \/ PreviewAnswers(r) \/ PreDispatchRefused(r)
                          \/ GateCreated(r) \/ LaunchAnswered(r) \/ DispatchFails(r)
                          \/ OutcomeUnwritten(r)
  BY DEF AwaitedStep, DispatchStep
<1>1. HasRow(r) => Row(r) \in Event
  BY DEF TypeOK, StoreTypeOK, DispatchTypeOK, IsTable, HasRow, Row
<1>2. CASE DrainRefused(r)
  <2> DEFINE e == [Row(r) EXCEPT !.status = "queued", !.dispatched = Null]
  <2>1. HasRow(r) => e.status = "queued" /\ Kept(Row(r), e)
    BY <1>1 DEF Event, Kept
  <2>2. EndsWith(r, e)
    BY <1>2, <2>1 DEF DrainRefused, BackInQueue, EndsWith, Outcome, Booked
  <2> QED BY <2>2
<1>3. CASE PreDispatchRefused(r)
  <2> DEFINE e == [Row(r) EXCEPT !.status = "skipped"]
  <2>1. HasRow(r) => e.status = "skipped" /\ Kept(Row(r), e)
    BY <1>1 DEF Event, Kept
  <2>2. EndsWith(r, e)
    BY <1>3, <2>1 DEF PreDispatchRefused, WithStatus, EndsWith, Outcome
  <2> QED BY <2>2
<1>4. CASE DispatchFails(r)
  <2> DEFINE e == [Row(r) EXCEPT !.status = "failed"]
  <2>1. HasRow(r) => e.status = "failed" /\ Kept(Row(r), e)
    BY <1>1 DEF Event, Kept
  <2>2. EndsWith(r, e)
    BY <1>4, <2>1 DEF DispatchFails, WithStatus, EndsWith, Outcome
  <2> QED BY <2>2
<1>5. CASE LaunchAnswered(r)
  <2> DEFINE e == [Row(r) EXCEPT !.status = "launched", !.gate = disp[r].gate]
  <2>1. HasRow(r) => e.status = "launched" /\ e.gate = disp[r].gate /\ Kept(Row(r), e)
    BY <1>1 DEF Event, Kept
  <2>2. EndsWith(r, e)
    BY <1>5, <2>1 DEF LaunchAnswered, Launched, EndsWith, Outcome
  <2> QED BY <2>2
<1> QED BY <1>2, <1>3, <1>4, <1>5

-----------------------------------------------------------------------------
(* The quiet steps.                                                         *)

\* A step that touches neither the events nor who exists.
LEMMA UntouchedIsQuiet ==
  ASSUME UNCHANGED <<events, gates, disp>>,
         \A a \in Actions : actions'[a].exists = actions[a].exists
  PROVE  QuietStep
BY DEF QuietStep, QuietTable, QuietRow, Kept

LEMMA TurnKind ==
  ASSUME TypeOK, TurnStep
  PROVE  QuietStep \/ \E r \in Actions \X EventKey : Begins(r)
<1> PICK r \in turn : Dispatch(r)
  BY DEF TurnStep
<1>1. r \in Actions \X EventKey /\ DOMAIN events = Actions
  BY DEF TypeOK, DispatchTypeOK, StoreTypeOK
<1>2. UNCHANGED <<gates, actions>>
  BY DEF Dispatch
<1>3. CASE UNCHANGED <<events, disp>>
  BY <1>2, <1>3, UntouchedIsQuiet
<1>4. CASE HasRow(r) /\ StatusOf(r) = "queued" /\ events' = WithStatus(r, "skipped")
           /\ UNCHANGED disp
  <2> DEFINE e == [Row(r) EXCEPT !.status = "skipped"]
  <2>1. e.status = "skipped" /\ Kept(Row(r), e)
    BY <1>1, <1>4 DEF TypeOK, StoreTypeOK, IsTable, Event, HasRow, Row, Kept
  <2>2. /\ \A a \in Actions : DOMAIN events'[a] = DOMAIN events[a]
        /\ \A a \in Actions : \A k \in DOMAIN events[a] :
             IF <<a, k>> = r THEN events'[a][k] = e ELSE events'[a][k] = events[a][k]
    BY <1>1, <1>4, PatchedRows DEF WithStatus
  <2>3. \A a \in Actions : \A k \in DOMAIN events[a] :
          <<a, k>> = r => events[a][k].status = "queued"
    BY <1>4 DEF StatusOf, Row
  <2> HIDE DEF e
  <2>4. QuietStep
    BY <1>2, <1>4, <2>1, <2>2, <2>3 DEF QuietStep, QuietTable, QuietRow, Kept, Row
  <2> QED BY <2>4
<1>5. CASE HasRow(r) /\ StatusOf(r) = "queued" /\ ~RefusedAtOnce(r) /\ disp' = Begun(r)
           /\ CanReserve(r) /\ events' = Patched(r, ReservedEvent(Row(r)))
  BY <1>1, <1>2, <1>5 DEF Begins
<1> QED BY <1>3, <1>4, <1>5 DEF Dispatch

LEMMA OutsideIsQuiet ==
  ASSUME OutsideStep \/ DrainStep
  PROVE  QuietStep
<1>1. UNCHANGED <<events, gates, disp, actions>>
  BY DEF OutsideStep, DrainStep, Drain, storeVars, dispatchVars
<1> QED BY <1>1, UntouchedIsQuiet

\* The cascade of a deleted action.
Deletes(a) == DeleteAction(a) /\ UNCHANGED <<gates, disp>>

LEMMA OperatorKind ==
  ASSUME TypeOK, OperatorStep
  PROVE  QuietStep \/ \E a \in Actions : Deletes(a)
<1>1. UNCHANGED <<gates, disp>> /\ actions \in [Actions -> Action] /\ DOMAIN events = Actions
  BY DEF OperatorStep, dispatchVars, TypeOK, StoreTypeOK
<1>2. ASSUME NEW a \in Actions,
             \/ PatchEnabled(a)
             \/ \E cost \in CostChoices : PatchCost(a, cost)
             \/ \E follows \in FollowChoices, forks \in BOOLEAN : Reobserved(a, follows, forks)
      PROVE  QuietStep
  <2>1. /\ UNCHANGED events
        /\ \/ actions' = [actions EXCEPT ![a].enabled = ~@]
           \/ \E cost \in CostChoices : actions' = [actions EXCEPT ![a].cost = cost]
           \/ \E follows \in FollowChoices, forks \in BOOLEAN :
                actions' = [actions EXCEPT ![a] = Observing(@, follows, forks)]
    BY <1>2 DEF PatchEnabled, PatchCost, Reobserved, PatchObserved
  <2>2. \A follows, forks : Observing(actions[a], follows, forks).exists = actions[a].exists
    BY <1>1 DEF Observing, Action
  <2>3. \A b \in Actions : actions'[b].exists = actions[b].exists
    BY <1>1, <2>1, <2>2 DEF Action
  <2> QED BY <1>1, <2>1, <2>3, UntouchedIsQuiet
<1> QED BY <1>1, <1>2 DEF OperatorStep, Edited, Deletes

LEMMA DeleteKeepsIInv ==
  ASSUME TypeOK, IInv, NEW a \in Actions, Deletes(a)
  PROVE  IInv'
<1>1. UNCHANGED <<gates, disp>> /\ actions \in [Actions -> Action] /\ DOMAIN events = Actions
  BY DEF Deletes, TypeOK, StoreTypeOK
<1>2. /\ ~actions'[a].exists /\ DOMAIN events'[a] = {}
      /\ \A b \in Actions \ {a} : actions'[b] = actions[b] /\ events'[b] = events[b]
  BY <1>1 DEF Deletes, DeleteAction, NoEvents, Action
<1>3. InFlight' = InFlight /\ \A r \in InFlight : r[1] \in Actions
  BY <1>1 DEF InFlight, TypeOK, DispatchTypeOK
<1>4. LaunchedOnce' /\ NothingLaunchedYet' /\ FlightNamesItsGate'
  BY <1>1, <1>3 DEF IInv, LaunchedOnce, NothingLaunchedYet, FlightNamesItsGate
<1>5. FlightOwnsItsRow' /\ FlightHasRow'
  BY <1>2, <1>3 DEF IInv, FlightOwnsItsRow, FlightHasRow, HasRow, StatusOf, Row
<1>6. GateKeptByRow' /\ DeletedIsEmpty'
  BY <1>1, <1>2 DEF IInv, GateKeptByRow, DeletedIsEmpty
<1>7. LaunchedRows'
  BY <1>1, <1>2 DEF IInv, LaunchedRows, LaunchedRow
<1> QED BY <1>4, <1>5, <1>6, <1>7 DEF IInv

LEMMA RestartKeepsIInv ==
  ASSUME TypeOK, IInv, Restart
  PROVE  IInv'
<1>1. InFlight' = {} /\ UNCHANGED <<gates, actions>> /\ events' = OrphansFailed({})
  BY DEF Restart, DispatchRestart, InFlight
<1>2. \A a \in Actions :
        /\ DOMAIN events'[a] = DOMAIN events[a]
        /\ \A k \in DOMAIN events[a] :
             \/ events'[a][k] = events[a][k]
             \/ events[a][k].status = "dispatching" /\ events'[a][k].status = "failed"
  BY <1>1 DEF OrphansFailed, TypeOK, StoreTypeOK, IsTable, Event
<1>3. LaunchedOnce' /\ FlightOwnsItsRow' /\ NothingLaunchedYet' /\ FlightNamesItsGate' /\ FlightHasRow'
  BY <1>1 DEF IInv, LaunchedOnce, FlightOwnsItsRow, NothingLaunchedYet, FlightNamesItsGate,
              FlightHasRow
<1>4. GateKeptByRow' /\ DeletedIsEmpty'
  BY <1>1, <1>2 DEF IInv, GateKeptByRow, DeletedIsEmpty
<1>5. LaunchedRows'
  BY <1>1, <1>2 DEF IInv, LaunchedRows, LaunchedRow
<1> QED BY <1>3, <1>4, <1>5 DEF IInv

\* What a transaction may do to a table: cancel what waits, and add rows that are
\* not launched.
Quieted(rows, new) ==
  /\ DOMAIN rows \subseteq DOMAIN new
  /\ \A k \in DOMAIN rows :
       /\ Kept(rows[k], new[k])
       /\ \/ new[k] = rows[k]
          \/ rows[k].status = "queued" /\ new[k].status \in {"skipped", "superseded"}
  /\ \A k \in DOMAIN new \ DOMAIN rows : new[k].status \in Fresh

LEMMA QuietedTable ==
  ASSUME NEW a \in Actions, Quieted(events[a], events'[a]),
         \A k \in DOMAIN events'[a] \ DOMAIN events[a] : actions[a].exists /\ Recorded(a, k)
  PROVE  QuietTable(a)
BY DEF Quieted, QuietTable, QuietRow

LEMMA SupersededRows ==
  ASSUME NEW rows, NEW t, NEW s, NEW before, NEW row,
         \A k \in DOMAIN rows : rows[k] \in Event
  PROVE  LET new == SupersedeOlder(rows, t, s, before, row)
         IN DOMAIN new = DOMAIN rows /\ Quieted(rows, new)
<1>1. \A e \in Event : \A reason : /\ SupersededAs(e, reason).status = "superseded"
                                    /\ Kept(e, SupersededAs(e, reason))
  BY DEF SupersededAs, Event, Kept
<1> QED BY <1>1 DEF SupersedeOlder, Obsolete, Quieted, Kept

LEMMA ClosedRows ==
  ASSUME NEW rows, NEW t, \A k \in DOMAIN rows : rows[k] \in Event
  PROVE  DOMAIN SupersedeClosed(rows, t) = DOMAIN rows /\ Quieted(rows, SupersedeClosed(rows, t))
<1>1. \A e \in Event : \A reason : /\ SupersededAs(e, reason).status = "superseded"
                                    /\ Kept(e, SupersededAs(e, reason))
  BY DEF SupersededAs, Event, Kept
<1> QED BY <1>1 DEF SupersedeClosed, Quieted, Kept

LEMMA InsertedRows ==
  ASSUME NEW rows, NEW new, DOMAIN new = DOMAIN rows, Quieted(rows, new),
         NEW k, k \notin DOMAIN rows, NEW e, e.status \in Fresh
  PROVE  Quieted(rows, Insert(new, k, e))
BY DEF Insert, Quieted

LEMMA HeadRecordedRows ==
  ASSUME TypeOK, NEW a \in Actions, NEW d \in Delivery, HeadKey(a, d) \notin DOMAIN events[a]
  PROVE  /\ Quieted(events[a], HeadRecorded(a, d))
         /\ DOMAIN HeadRecorded(a, d) = DOMAIN events[a] \cup {HeadKey(a, d)}
         /\ HeadRecorded(a, d)[HeadKey(a, d)].origin = "webhook"
         /\ HeadRecorded(a, d)[HeadKey(a, d)].cost = actions[a].cost
<1> DEFINE new  == HeadEvent(a, d)
           rows == SupersedeOlder(events[a], d.target, d.sha, d.observed, new.row)
<1>1. \A k \in DOMAIN events[a] : events[a][k] \in Event
  BY DEF TypeOK, StoreTypeOK, IsTable
<1>2. DOMAIN rows = DOMAIN events[a] /\ Quieted(events[a], rows)
  BY <1>1, SupersededRows
<1>3. new.status \in Fresh /\ new.origin = "webhook" /\ new.cost = actions[a].cost
  BY DEF HeadEvent, NewEvent, Fresh
<1>4. HeadRecorded(a, d) = Insert(rows, HeadKey(a, d), new)
  BY DEF HeadRecorded
<1> HIDE DEF rows, new
<1> QED BY <1>2, <1>3, <1>4, InsertedRows DEF Insert

LEMMA DeliveryIsQuiet ==
  ASSUME TypeOK, IInv, DeliveryStep
  PROVE  QuietStep
<1> PICK d \in sent : Deliver(d)
  BY DEF DeliveryStep
<1>1. /\ UNCHANGED <<gates, disp>> /\ d \in Delivery
      /\ actions \in [Actions -> Action] /\ DOMAIN events = Actions
      /\ \A a \in Actions : \A k \in DOMAIN events[a] : events[a][k] \in Event
  BY DEF Deliver, TypeOK, RemoteTypeOK, StoreTypeOK, IsTable
<1>2. CASE StaleDelivered(d)
  BY <1>1, <1>2, UntouchedIsQuiet DEF StaleDelivered
<1>3. CASE RemovedDelivered(d)
  <2>1. \A a \in Actions : actions'[a].exists = actions[a].exists
    BY <1>1, <1>3 DEF RemovedDelivered, AllDisabled, Action
  <2> QED BY <1>1, <1>3, <2>1, UntouchedIsQuiet DEF RemovedDelivered
<1>4. CASE ClosedDelivered(d)
  <2>1. ASSUME NEW a \in Actions PROVE QuietTable(a)
    <3>1. events'[a] \in {events[a], SupersedeClosed(events[a], d.target)}
      BY <1>4 DEF ClosedDelivered
    <3>2. DOMAIN events'[a] = DOMAIN events[a] /\ Quieted(events[a], events'[a])
      BY <1>1, <3>1, ClosedRows DEF Quieted, Kept
    <3> QED BY <3>2, QuietedTable
  <2> QED BY <1>1, <1>4, <2>1 DEF ClosedDelivered, QuietStep
<1>5. CASE ChangeDelivered(d)
  <2>1. ASSUME NEW a \in Actions PROVE QuietTable(a)
    <3>1. CASE a \in Creating(d)
      <4>1. events'[a] = HeadRecorded(a, d)
        BY <1>5, <3>1 DEF ChangeDelivered
      <4>2. /\ HeadKey(a, d) \notin DOMAIN events[a] /\ actions[a].exists
            /\ d.target \in actions[a].follows
        BY <3>1 DEF Creating, Eligible, Matched
      <4>3. /\ Quieted(events[a], events'[a])
            /\ DOMAIN events'[a] = DOMAIN events[a] \cup {HeadKey(a, d)}
            /\ events'[a][HeadKey(a, d)].origin = "webhook"
            /\ events'[a][HeadKey(a, d)].cost = actions[a].cost
        BY <1>1, <4>1, <4>2, HeadRecordedRows
      <4>4. \A k \in DOMAIN events'[a] \ DOMAIN events[a] :
              /\ k = HeadKey(a, d)
              /\ events'[a][k].origin = "webhook" /\ events'[a][k].cost = actions[a].cost
        BY <4>3
      <4>5. HeadKey(a, d).revision = actions[a].revision /\ HeadKey(a, d).target = d.target
        BY DEF HeadKey
      <4>6. \A k \in DOMAIN events'[a] \ DOMAIN events[a] : Recorded(a, k)
        BY <4>2, <4>4, <4>5 DEF Recorded
      <4> QED BY <4>2, <4>3, <4>6, QuietedTable
    <3>2. CASE a \notin Creating(d)
      <4>1. events'[a] \in {events[a], SupersedeOlder(events[a], d.target, d.sha, d.observed, NoRow)}
        BY <1>5, <3>2 DEF ChangeDelivered
      <4>2. DOMAIN events'[a] = DOMAIN events[a] /\ Quieted(events[a], events'[a])
        BY <1>1, <4>1, SupersededRows DEF Quieted, Kept
      <4> QED BY <4>2, QuietedTable
    <3> QED BY <3>1, <3>2
  <2> QED BY <1>1, <1>5, <2>1 DEF ChangeDelivered, QuietStep
<1>6. CASE RerunDelivered(d)
  <2>1. CASE UNCHANGED events
    BY <1>1, <1>6, <2>1, UntouchedIsQuiet DEF RerunDelivered
  <2>2. CASE ~UNCHANGED events
    <3> DEFINE new(r) == NewEvent(events[r[1]], "queued", "manual", actions[r[1]].cost, now, now)
    <3>1. PICK r \in RowsOfGate(d.gate) :
            /\ RerunKey(r, d) \notin DOMAIN events[r[1]]
            /\ events' = [events EXCEPT ![r[1]] = Insert(@, RerunKey(r, d), new(r))]
      BY <1>6, <2>2 DEF RerunDelivered
    <3>2. r[1] \in Actions /\ DOMAIN events[r[1]] # {}
      BY DEF RowsOfGate, Rows
    <3>3. /\ actions[r[1]].exists /\ new(r).status \in Fresh
          /\ new(r).origin = "manual" /\ new(r).cost = actions[r[1]].cost
      BY <3>2 DEF IInv, DeletedIsEmpty, NewEvent, Fresh
    <3> HIDE DEF new
    <3>4. Quieted(events[r[1]], events[r[1]])
      BY DEF Quieted, Kept
    <3>5. /\ Quieted(events[r[1]], events'[r[1]])
          /\ \A k \in DOMAIN events'[r[1]] \ DOMAIN events[r[1]] : Recorded(r[1], k)
      <4>1. events'[r[1]] = Insert(events[r[1]], RerunKey(r, d), new(r))
        BY <1>1, <3>1, <3>2
      <4>2. Quieted(events[r[1]], events'[r[1]])
        BY <3>1, <3>3, <3>4, <4>1, InsertedRows
      <4>3. \A k \in DOMAIN events'[r[1]] \ DOMAIN events[r[1]] :
              k = RerunKey(r, d) /\ events'[r[1]][k] = new(r)
        BY <4>1 DEF Insert
      <4> QED BY <3>3, <4>2, <4>3 DEF Recorded, RerunKey
    <3>6. \A a \in Actions \ {r[1]} : events'[a] = events[a]
      BY <1>1, <3>1
    <3>7. \A a \in Actions : QuietTable(a)
      BY <3>2, <3>3, <3>5, <3>6, QuietedTable DEF Quieted, Kept
    <3> QED BY <1>1, <1>6, <3>7 DEF RerunDelivered, QuietStep
  <2> QED BY <2>1, <2>2
<1> QED BY <1>2, <1>3, <1>4, <1>5, <1>6 DEF Deliver

\* A head a cycle recovers has no row yet under any key.
LEMMA ReconciledRows ==
  ASSUME TypeOK, NEW a \in DOMAIN rec.acts
  PROVE  /\ Quieted(events[a], Reconciled(a))
         /\ DOMAIN Reconciled(a) = DOMAIN events[a] \cup RecoveredKeys(a)
         /\ \A k \in RecoveredKeys(a) :
              /\ k.target \in Recovered(a) /\ Reconciled(a)[k].origin = "reconciliation"
              /\ Reconciled(a)[k].cost = rec.acts[a].cost
              /\ FirstRun(a) => Reconciled(a)[k].status = "observed"
<1>1. \A k \in DOMAIN events[a] : events[a][k] \in Event
  BY DEF TypeOK, StoreTypeOK, ReconcilerTypeOK, IsTable
<1>2. \A k \in RecoveredKeys(a) : k \notin DOMAIN events[a]
  BY DEF RecoveredKeys, RecoveredKey, Recovered, Unseen, HasEventForHead
<1>3. \A k \in RecoveredKeys(a) :
        /\ k.target \in Recovered(a)
        /\ Reconciled(a)[k].status \in Fresh /\ Reconciled(a)[k].origin = "reconciliation"
        /\ Reconciled(a)[k].cost = rec.acts[a].cost
        /\ FirstRun(a) => Reconciled(a)[k].status = "observed"
  BY DEF Reconciled, RecoveredEvent, NewEvent, Fresh, RecoveredKeys, RecoveredKey
<1>4. ASSUME NEW k \in DOMAIN events[a]
      PROVE  /\ Kept(events[a][k], Waiting(a, k))
             /\ \/ Waiting(a, k) = events[a][k]
                \/ /\ events[a][k].status = "queued"
                   /\ Waiting(a, k).status \in {"skipped", "superseded"}
  BY <1>1 DEF Waiting, CancelledByRecovery, Obsolete, Expired, SupersededAs, Event, Kept
<1>5. /\ DOMAIN Reconciled(a) = DOMAIN events[a] \cup RecoveredKeys(a)
      /\ \A k \in DOMAIN events[a] : Reconciled(a)[k] = Waiting(a, k)
  BY <1>2 DEF Reconciled
<1> QED BY <1>2, <1>3, <1>4, <1>5 DEF Quieted

LEMMA CycleIsQuiet ==
  ASSUME TypeOK, IInv, CycleStep
  PROVE  QuietStep
<1>1. actions \in [Actions -> Action] /\ DOMAIN events = Actions
  BY DEF TypeOK, StoreTypeOK
<1>2. CASE CycleStarts
  <2>1. UNCHANGED <<actions, gates, disp>> /\ events' = OrphansFailed(InFlight)
    BY <1>2 DEF CycleStarts
  <2>2. \A a \in Actions : QuietTable(a)
    BY <2>1 DEF OrphansFailed, QuietTable, QuietRow, Kept, TypeOK, StoreTypeOK, IsTable, Event
  <2> QED BY <2>1, <2>2 DEF QuietStep
<1>3. CASE ScopeRead
  <2>1. UNCHANGED <<events, gates, disp>> /\ actions' \in {actions, AllDisabled}
    BY <1>3 DEF ScopeRead, AfterReport
  <2>2. \A a \in Actions : actions'[a].exists = actions[a].exists
    BY <1>1, <2>1 DEF AllDisabled, Action
  <2> QED BY <2>1, <2>2, UntouchedIsQuiet
<1>4. CASE Record
  <2>1. UNCHANGED <<gates, disp>> /\ ~OrphanedRecovery
    BY <1>4 DEF Record
  <2>2. \A a \in Actions : actions'[a].exists = actions[a].exists
    BY <1>1, <1>4 DEF Record, BaselineFilled, Action
  <2>3. ASSUME NEW a \in Actions PROVE QuietTable(a)
    <3>1. CASE a \in DOMAIN rec.acts
      <4>1. events'[a] = Reconciled(a)
        BY <1>4, <3>1 DEF Record
      <4>2. actions[a].exists \/ Recovered(a) = {}
        BY <2>1, <3>1 DEF OrphanedRecovery
      <4>3. \A k \in DOMAIN events'[a] \ DOMAIN events[a] : actions[a].exists /\ Recorded(a, k)
        <5>1. rec.stage = "recording"
          BY <1>4 DEF Record
        <5>2. ASSUME NEW k \in DOMAIN events'[a] \ DOMAIN events[a]
              PROVE  /\ k \in RecoveredKeys(a) /\ k.target \in Recovered(a)
                     /\ events'[a][k].origin = "reconciliation"
                     /\ events'[a][k].cost = rec.acts[a].cost
                     /\ FirstRun(a) => events'[a][k].status = "observed"
          BY <3>1, <4>1, ReconciledRows, ZenonT(60)
        <5> QED BY <3>1, <4>2, <5>1, <5>2 DEF Recorded, RecoveredNow
      <4> QED BY <3>1, <4>1, <4>3, ReconciledRows, QuietedTable
    <3>2. CASE a \notin DOMAIN rec.acts
      <4>1. events'[a] = events[a]
        BY <1>4, <3>2 DEF Record
      <4> QED BY <4>1 DEF QuietTable, QuietRow, Kept
    <3> QED BY <3>1, <3>2
  <2> QED BY <2>1, <2>2, <2>3 DEF QuietStep
<1>5. CASE \/ PullsListed \/ BranchesListed \/ ListingFails \/ RecordFails
           \/ DispatchNext \/ CycleEnds
  <2>1. UNCHANGED <<events, gates, disp, actions>>
    BY <1>5 DEF PullsListed, BranchesListed, ListingFails, RecordFails, DispatchNext, CycleEnds,
                storeVars, dispatchVars
  <2> QED BY <2>1, UntouchedIsQuiet
<1> QED BY <1>2, <1>3, <1>4, <1>5 DEF CycleStep, ReconcilerStep

-----------------------------------------------------------------------------
(* The theorems.                                                            *)

\* A step is quiet, or it begins, moves or ends one dispatch, or deletes an
\* action, or restarts the process.
LEMMA StepKind ==
  ASSUME TypeOK, IInv, [Next]_vars
  PROVE  \/ QuietStep
         \/ \E r \in Actions \X EventKey : Begins(r)
         \/ \E r \in InFlight : \/ \E e : EndsWith(r, e)
                               \/ PreviewAnswers(r) \/ GateCreated(r) \/ OutcomeUnwritten(r)
         \/ \E a \in Actions : Deletes(a)
         \/ Restart
<1>1. CASE UNCHANGED vars
  BY <1>1, UntouchedIsQuiet DEF vars, storeVars, dispatchVars
<1>2. CASE Next
  BY <1>2, OutsideIsQuiet, OperatorKind, DeliveryIsQuiet, TurnKind, AwaitedKind, CycleIsQuiet
  DEF Next
<1> QED BY <1>1, <1>2

LEMMA Inductive == TypeOK /\ IInv /\ [Next]_vars => IInv'
<1> SUFFICES ASSUME TypeOK, IInv, [Next]_vars PROVE IInv'
  OBVIOUS
<1> QED BY StepKind, QuietKeepsIInv, BegunKeepsIInv, EndedKeepsIInv, PreviewKeepsIInv,
           GateKeepsIInv, UnwrittenKeepsIInv, DeleteKeepsIInv, RestartKeepsIInv

LEMMA Invariant == Spec => []IInv
<1>1. Init => IInv
  BY IInvAtStart
<1> QED BY <1>1, Inductive, TypeCorrect, PTL DEF Spec

\* No event is ever launched twice, however many actions, heads, deliveries,
\* failures, edits and restarts there are.
THEOREM LaunchedAtMostOnce == Spec => []LaunchedOnce
<1>1. IInv => LaunchedOnce
  BY DEF IInv
<1> QED BY <1>1, Invariant, PTL

\* As long as a dispatch is in flight nobody else moves its row: the outcome is
\* never written over an orphan sweep, a cancellation or another dispatch.
THEOREM FlightKeepsItsRow == Spec => []FlightOwnsItsRow
<1>1. IInv => FlightOwnsItsRow
  BY DEF IInv
<1> QED BY <1>1, Invariant, PTL

\* The gate id in a launched row is the gate that was created for that event.
THEOREM LaunchedRowNamesItsGate == Spec => []LaunchedNamesItsGate
<1>1. ASSUME IInv PROVE LaunchedNamesItsGate
  <2> SUFFICES ASSUME NEW r \in Rows, StatusOf(r) = "launched"
               PROVE  LET g == Row(r).gate
                      IN g[1] = r[1] /\ g[2] \in DOMAIN gates[g[1]] /\ gates[g[1]][g[2]].key = r[2]
    BY DEF LaunchedNamesItsGate
  <2>1. PICK a \in Actions : r \in {a} \X DOMAIN events[a]
    BY DEF Rows
  <2>2. a = r[1] /\ r[2] \in DOMAIN events[a]
    BY <2>1
  <2>3. LaunchedRow(a, r[2]) /\ Row(r) = events[a][r[2]]
    BY <1>1, <2>2 DEF IInv, LaunchedRows, Row
  <2> QED BY <2>2, <2>3 DEF LaunchedRow, StatusOf
<1> QED BY <1>1, Invariant, PTL

-----------------------------------------------------------------------------
(* The automation implements the lifecycle of EventLifecycle.  Every row    *)
(* makes one of its moves in every step, so the steps need no stuttering.   *)

\* A deleted action stays disabled: nothing is launched for it any more.
EnabledExist == \A a \in Actions : actions[a].enabled => actions[a].exists

\* Who writes to the actions table.
LEMMA ActionsKind ==
  ASSUME [Next]_vars
  PROVE  UNCHANGED actions \/ actions' = AllDisabled \/ Record \/ OperatorStep
<1>1. CASE DeliveryStep
  BY <1>1 DEF DeliveryStep, Deliver, StaleDelivered, ChangeDelivered, ClosedDelivered,
              RemovedDelivered, RerunDelivered
<1>2. CASE CycleStep
  BY <1>2 DEF CycleStep, ReconcilerStep, CycleStarts, ScopeRead, AfterReport, PullsListed,
              BranchesListed, ListingFails, RecordFails, DispatchNext, CycleEnds, storeVars
<1>3. CASE TurnStep \/ AwaitedStep
  BY <1>3 DEF TurnStep, Dispatch, AwaitedStep, DispatchStep, DrainRefused, PreviewAnswers,
              PreDispatchRefused, GateCreated, LaunchAnswered, DispatchFails, OutcomeUnwritten,
              storeVars
<1>4. CASE OutsideStep \/ DrainStep \/ Restart \/ UNCHANGED vars
  BY <1>4 DEF OutsideStep, DrainStep, Drain, Restart, DispatchRestart, vars, storeVars
<1> QED BY <1>1, <1>2, <1>3, <1>4 DEF Next

LEMMA EnabledExistKept == Spec => []EnabledExist
<1>1. Init => EnabledExist
  BY StoreAssumption DEF Init, StoreInit, EnabledExist
<1>2. TypeOK /\ EnabledExist /\ [Next]_vars => EnabledExist'
  <2> SUFFICES ASSUME TypeOK, EnabledExist, [Next]_vars PROVE EnabledExist'
    OBVIOUS
  <2>1. actions \in [Actions -> Action]
    BY DEF TypeOK, StoreTypeOK
  <2>2. CASE UNCHANGED actions
    BY <2>2 DEF EnabledExist
  <2>3. CASE actions' = AllDisabled
    BY <2>1, <2>3 DEF AllDisabled, EnabledExist, Action
  <2>4. CASE Record
    BY <2>1, <2>4 DEF Record, BaselineFilled, EnabledExist, Action
  <2>5. CASE OperatorStep
    <3>1. PICK a \in Actions :
            \/ Edited(a)
            \/ \E follows \in FollowChoices, forks \in BOOLEAN : Reobserved(a, follows, forks)
      BY <2>5 DEF OperatorStep
    <3>2. \A b \in Actions \ {a} : actions'[b] = actions[b]
      BY <2>1, <3>1 DEF Edited, PatchEnabled, PatchCost, DeleteAction, Reobserved, PatchObserved
    <3>3. CASE DeleteAction(a)
      BY <2>1, <3>2, <3>3 DEF DeleteAction, EnabledExist, Action
    <3>4. CASE ~DeleteAction(a)
      <4>1. actions[a].exists
        BY <3>1, <3>4 DEF Edited, PatchEnabled, PatchCost, Reobserved, PatchObserved
      <4>2. \A follows, forks : Observing(actions[a], follows, forks).exists = actions[a].exists
        BY <2>1 DEF Observing, Action
      <4>3. actions'[a].exists = actions[a].exists
        BY <2>1, <3>1, <3>4, <4>2
        DEF Edited, PatchEnabled, PatchCost, Reobserved, PatchObserved, Action
      <4> QED BY <3>2, <4>1, <4>3 DEF EnabledExist
    <3> QED BY <3>3, <3>4
  <2>6. \/ UNCHANGED actions \/ actions' = AllDisabled \/ Record \/ OperatorStep
    BY ActionsKind
  <2> QED BY <2>2, <2>3, <2>4, <2>5, <2>6
<1> QED BY <1>1, <1>2, TypeCorrect, PTL DEF Spec

\* What an event was charged, by what its gates are.
LEMMA ChargesOf ==
  ASSUME LaunchedOnce, NEW r \in EventRows
  PROVE  /\ (\A n \in DOMAIN gates[r[1]] : gates[r[1]][n].key # r[2]) =>
              Cardinality(GatesFor(r)) = 0
         /\ \A n \in DOMAIN gates[r[1]] : gates[r[1]][n].key = r[2] =>
              Cardinality(GatesFor(r)) = 1
<1>1. r[1] \in Actions
  BY DEF EventRows
<1>2. ASSUME \A n \in DOMAIN gates[r[1]] : gates[r[1]][n].key # r[2]
      PROVE  Cardinality(GatesFor(r)) = 0
  <2>1. GatesFor(r) = {}
    BY <1>2 DEF GatesFor
  <2> QED BY <2>1, FS_EmptySet
<1>3. ASSUME NEW n \in DOMAIN gates[r[1]], gates[r[1]][n].key = r[2]
      PROVE  Cardinality(GatesFor(r)) = 1
  <2>1. GatesFor(r) = {n}
    BY <1>1, <1>3 DEF GatesFor, LaunchedOnce
  <2> QED BY <2>1, FS_Singleton
<1> QED BY <1>2, <1>3

LEMMA SameCharges ==
  ASSUME UNCHANGED gates, NEW r \in EventRows
  PROVE  Cardinality(GatesFor(r))' = Cardinality(GatesFor(r))
BY DEF GatesFor

\* A row as the lifecycle sees it.
LEMMA SeenAs ==
  ASSUME NEW r \in EventRows
  PROVE  /\ HasRow(r) => StatusSeen(r) = events[r[1]][r[2]].status
         /\ ~HasRow(r) => StatusSeen(r) = IF actions[r[1]].exists THEN "absent" ELSE "gone"
         /\ HasRow(r)' => StatusSeen(r)' = events'[r[1]][r[2]].status
         /\ ~HasRow(r)' => StatusSeen(r)' = IF actions'[r[1]].exists THEN "absent" ELSE "gone"
BY DEF StatusSeen, StatusOf, Row, HasRow

LEMMA StaysPut ==
  ASSUME NEW r \in EventRows, StatusSeen(r)' = StatusSeen(r),
         Cardinality(GatesFor(r))' = Cardinality(GatesFor(r))
  PROVE  Lifecycle!Moves(r)
BY DEF Lifecycle!Moves, Lifecycle!Stays

LEMMA QuietMoves ==
  ASSUME QuietStep, NEW r \in EventRows
  PROVE  Lifecycle!Moves(r)
<1>1. r[1] \in Actions /\ r = <<r[1], r[2]>>
  BY DEF EventRows
<1>2. Cardinality(GatesFor(r))' = Cardinality(GatesFor(r))
  BY SameCharges DEF QuietStep
<1>3. QuietTable(r[1]) /\ actions'[r[1]].exists = actions[r[1]].exists
  BY <1>1 DEF QuietStep
<1>4. CASE HasRow(r)
  <2>1. HasRow(r)' /\ QuietRow(r[1], r[2])
    BY <1>3, <1>4 DEF QuietTable, HasRow
  <2>2. StatusSeen(r) = events[r[1]][r[2]].status /\ StatusSeen(r)' = events'[r[1]][r[2]].status
    BY <1>4, <2>1, SeenAs
  <2>3. CASE StatusSeen(r)' = StatusSeen(r)
    BY <1>2, <2>3, StaysPut
  <2>4. CASE StatusSeen(r) = "queued" /\ StatusSeen(r)' \in {"skipped", "superseded"}
    BY <1>2, <2>4 DEF Lifecycle!Moves, Lifecycle!Retired
  <2>5. CASE StatusSeen(r) = "dispatching" /\ StatusSeen(r)' = "failed"
    BY <1>2, <2>5 DEF Lifecycle!Moves, Lifecycle!Failed
  <2> QED BY <2>1, <2>2, <2>3, <2>4, <2>5 DEF QuietRow
<1>5. CASE ~HasRow(r) /\ ~HasRow(r)'
  <2>1. StatusSeen(r)' = StatusSeen(r)
    BY <1>3, <1>5, SeenAs
  <2> QED BY <1>2, <2>1, StaysPut
<1>6. CASE ~HasRow(r) /\ HasRow(r)'
  <2>1. actions[r[1]].exists /\ events'[r[1]][r[2]].status \in Fresh
    BY <1>3, <1>6 DEF QuietTable, HasRow
  <2>2. StatusSeen(r) = "absent" /\ StatusSeen(r)' \in {"observed", "queued", "skipped"}
    BY <1>6, <2>1, SeenAs DEF Fresh
  <2> QED BY <1>2, <2>2 DEF Lifecycle!Moves, Lifecycle!Recorded
<1> QED BY <1>4, <1>5, <1>6

\* Patching one row moves that row only.
LEMMA OneRowMoves ==
  ASSUME TypeOK, NEW r \in Actions \X EventKey, NEW e, events' = Patched(r, e),
         UNCHANGED <<gates, actions>>,
         HasRow(r) /\ StatusSeen(r)' = e.status => Lifecycle!Moves(r),
         NEW q \in EventRows
  PROVE  Lifecycle!Moves(q)
<1>1. /\ \A a \in Actions : DOMAIN events'[a] = DOMAIN events[a]
      /\ \A a \in Actions : \A k \in DOMAIN events[a] :
           IF <<a, k>> = r THEN events'[a][k] = e ELSE events'[a][k] = events[a][k]
  BY PatchedRows DEF TypeOK, StoreTypeOK
<1>2. q[1] \in Actions /\ q = <<q[1], q[2]>>
  BY DEF EventRows
<1>3. HasRow(q)' = HasRow(q) /\ Cardinality(GatesFor(q))' = Cardinality(GatesFor(q))
  BY <1>1, <1>2, SameCharges DEF HasRow
<1>4. CASE ~HasRow(q)
  <2>1. StatusSeen(q)' = StatusSeen(q)
    BY <1>3, <1>4, SeenAs
  <2> QED BY <1>3, <2>1, StaysPut
<1>5. CASE HasRow(q) /\ q # r
  <2>1. StatusSeen(q)' = StatusSeen(q)
    BY <1>1, <1>2, <1>3, <1>5, SeenAs DEF HasRow
  <2> QED BY <1>3, <2>1, StaysPut
<1>6. CASE HasRow(q) /\ q = r
  <2>1. StatusSeen(q)' = e.status
    BY <1>1, <1>2, <1>3, <1>6, SeenAs DEF HasRow
  <2> QED BY <1>6, <2>1
<1> QED BY <1>4, <1>5, <1>6

LEMMA BegunMoves ==
  ASSUME TypeOK, NEW r \in Actions \X EventKey, Begins(r), NEW q \in EventRows
  PROVE  Lifecycle!Moves(q)
<1>1. r \in EventRows /\ StatusSeen(r) = "queued"
  BY SeenAs DEF EventRows, Begins, StatusOf, Row
<1>2. Cardinality(GatesFor(r))' = Cardinality(GatesFor(r))
  BY <1>1, SameCharges DEF Begins
<1>3. ReservedEvent(Row(r)).status = "dispatching"
  BY DEF ReservedEvent, Row, HasRow, TypeOK, StoreTypeOK, IsTable, Event, Begins
<1>4. StatusSeen(r)' = ReservedEvent(Row(r)).status => Lifecycle!Moves(r)
  BY <1>1, <1>2, <1>3 DEF Lifecycle!Moves, Lifecycle!Reserved
<1> QED BY <1>4, OneRowMoves DEF Begins

\* An outcome is one of the three moves out of a reservation, and which one
\* depends on whether its gate was created.
LEMMA EndedMoves ==
  ASSUME TypeOK, IInv, NEW r \in InFlight, NEW e, EndsWith(r, e), NEW q \in EventRows
  PROVE  Lifecycle!Moves(q)
<1>1. r \in Actions \X EventKey /\ r \in EventRows
  BY DEF TypeOK, DispatchTypeOK, EventRows
<1>2. Cardinality(GatesFor(r))' = Cardinality(GatesFor(r))
  BY <1>1, SameCharges DEF EndsWith
<1>3. ASSUME HasRow(r), StatusSeen(r)' = e.status PROVE Lifecycle!Moves(r)
  <2>1. StatusSeen(r) = "dispatching"
    BY <1>1, <1>3, SeenAs DEF IInv, FlightOwnsItsRow, StatusOf, Row
  <2>2. CASE e.status = "failed"
    BY <1>1, <1>2, <1>3, <2>1, <2>2 DEF Lifecycle!Moves, Lifecycle!Failed
  <2>3. CASE e.status \in {"queued", "skipped"} /\ disp[r].wait # "launching"
    <3>1. Cardinality(GatesFor(r)) = 0
      BY <1>1, <2>3, ChargesOf DEF IInv, NothingLaunchedYet
    <3> QED BY <1>1, <1>2, <1>3, <2>1, <2>3, <3>1 DEF Lifecycle!Moves, Lifecycle!Released
  <2>4. CASE e.status = "launched" /\ disp[r].wait = "launching"
    <3>1. Cardinality(GatesFor(r)) = 1
      BY <1>1, <2>4, ChargesOf DEF IInv, FlightNamesItsGate
    <3> QED BY <1>1, <1>2, <1>3, <2>1, <2>4, <3>1 DEF Lifecycle!Moves, Lifecycle!Launched
  <2> QED BY <1>3, <2>2, <2>3, <2>4 DEF EndsWith, Outcome
<1> QED BY <1>1, <1>3, OneRowMoves DEF EndsWith

LEMMA UntouchedMoves ==
  ASSUME UNCHANGED <<events, actions, gates>>, NEW q \in EventRows
  PROVE  Lifecycle!Moves(q)
<1>1. StatusSeen(q)' = StatusSeen(q)
  BY DEF StatusSeen, StatusOf, Row, HasRow
<1> QED BY <1>1, SameCharges, StaysPut

\* A gate is created for the event that is in flight, whose row is reserved: its
\* action is enabled, so it was not deleted under the launch.
LEMMA GateMoves ==
  ASSUME TypeOK, IInv, EnabledExist, NEW r \in InFlight, GateCreated(r), NEW q \in EventRows
  PROVE  Lifecycle!Moves(q)
<1>1. r \in EventRows /\ r[1] \in Actions /\ r = <<r[1], r[2]>> /\ gates[r[1]] \in Seq(Gate)
  BY DEF TypeOK, DispatchTypeOK, EventRows
<1>2. StatusSeen(q)' = StatusSeen(q)
  BY DEF GateCreated, storeVars, StatusSeen, StatusOf, Row, HasRow
<1>3. q[1] \in Actions /\ q = <<q[1], q[2]>>
  BY DEF EventRows
<1> DEFINE gate == [key |-> r[2], origin |-> disp[r].event.origin,
                    cost |-> disp[r].action.cost, day |-> Day(disp[r].event.dispatched)]
<1>4. gates' = [gates EXCEPT ![r[1]] = Append(@, gate)] /\ gate.key = r[2]
  BY DEF GateCreated
<1> HIDE DEF gate
<1>5. CASE q[1] # r[1]
  <2>1. gates'[q[1]] = gates[q[1]]
    BY <1>1, <1>3, <1>4, <1>5 DEF TypeOK, DispatchTypeOK
  <2>2. Cardinality(GatesFor(q))' = Cardinality(GatesFor(q))
    BY <2>1 DEF GatesFor
  <2> QED BY <1>2, <2>2, StaysPut
<1>6. CASE q[1] = r[1]
  <2> DEFINE n == Len(gates[q[1]]) + 1
  <2>1. gates'[q[1]] = Append(gates[q[1]], gate)
    BY <1>1, <1>4, <1>6 DEF TypeOK, DispatchTypeOK
  <2>2. /\ DOMAIN gates'[q[1]] = DOMAIN gates[q[1]] \cup {n} /\ n \notin DOMAIN gates[q[1]]
        /\ gates'[q[1]][n] = gate
        /\ \A m \in DOMAIN gates[q[1]] : gates'[q[1]][m] = gates[q[1]][m]
    <3>1. Len(gates[q[1]]) \in Nat /\ DOMAIN gates[q[1]] = 1..Len(gates[q[1]])
      BY <1>1, <1>6, LenProperties
    <3>2. /\ DOMAIN Append(gates[q[1]], gate) = 1..n
          /\ Append(gates[q[1]], gate)[n] = gate
          /\ \A m \in 1..Len(gates[q[1]]) : Append(gates[q[1]], gate)[m] = gates[q[1]][m]
      BY <1>1, <1>6, <3>1
    <3> QED BY <2>1, <3>1, <3>2
  <2> HIDE DEF n
  <2>3. CASE q # r
    <3>1. q[2] # r[2]
      BY <1>1, <1>3, <1>6, <2>3
    <3>2. GatesFor(q)' = GatesFor(q)
      BY <1>4, <2>2, <3>1 DEF GatesFor
    <3> QED BY <1>2, <3>2, StaysPut
  <2>4. CASE q = r
    <3>1. HasRow(r) /\ StatusSeen(r) = "dispatching"
      BY <1>1, SeenAs DEF GateCreated, StillCurrent, EnabledExist, IInv, FlightHasRow,
                          FlightOwnsItsRow, StatusOf, Row
    <3>2. \A m \in DOMAIN gates[r[1]] : gates[r[1]][m].key # r[2]
      BY DEF GateCreated, IInv, NothingLaunchedYet
    <3>3. Cardinality(GatesFor(r)) = 0
      BY <1>1, <3>2, ChargesOf DEF IInv
    <3>4. GatesFor(r)' = {n}
      BY <1>4, <1>6, <2>2, <2>4, <3>2 DEF GatesFor
    <3>5. Cardinality(GatesFor(r))' = 1
      BY <3>4, FS_Singleton
    <3> QED BY <1>1, <1>2, <2>4, <3>1, <3>3, <3>5 DEF Lifecycle!Moves, Lifecycle!Charged
  <2> QED BY <2>3, <2>4
<1> QED BY <1>5, <1>6

LEMMA DeleteMoves ==
  ASSUME TypeOK, NEW a \in Actions, Deletes(a), NEW q \in EventRows
  PROVE  Lifecycle!Moves(q)
<1>1. Cardinality(GatesFor(q))' = Cardinality(GatesFor(q)) /\ q[1] \in Actions
  BY SameCharges DEF Deletes, EventRows
<1>2. /\ ~actions'[a].exists /\ DOMAIN events'[a] = {}
      /\ \A b \in Actions \ {a} : actions'[b] = actions[b] /\ events'[b] = events[b]
  BY DEF Deletes, DeleteAction, NoEvents, Action, TypeOK, StoreTypeOK
<1>3. CASE q[1] = a
  <2>1. StatusSeen(q)' = "gone"
    BY <1>2, <1>3, SeenAs DEF HasRow
  <2> QED BY <1>1, <2>1 DEF Lifecycle!Moves, Lifecycle!Erased
<1>4. CASE q[1] # a
  <2>1. HasRow(q)' = HasRow(q) /\ StatusSeen(q)' = StatusSeen(q)
    BY <1>1, <1>2, <1>4, SeenAs DEF HasRow
  <2> QED BY <1>1, <2>1, StaysPut
<1> QED BY <1>3, <1>4

LEMMA RestartMoves ==
  ASSUME TypeOK, Restart, NEW q \in EventRows
  PROVE  Lifecycle!Moves(q)
<1>1. UNCHANGED <<gates, actions>> /\ events' = OrphansFailed({})
  BY DEF Restart, DispatchRestart
<1>2. Cardinality(GatesFor(q))' = Cardinality(GatesFor(q)) /\ q[1] \in Actions
  BY <1>1, SameCharges DEF EventRows
<1>3. \A a \in Actions :
        /\ DOMAIN events'[a] = DOMAIN events[a]
        /\ \A k \in DOMAIN events[a] :
             \/ events'[a][k] = events[a][k]
             \/ events[a][k].status = "dispatching" /\ events'[a][k].status = "failed"
  BY <1>1 DEF OrphansFailed, TypeOK, StoreTypeOK, IsTable, Event
<1>4. HasRow(q)' = HasRow(q)
  BY <1>2, <1>3 DEF HasRow
<1>5. \/ StatusSeen(q)' = StatusSeen(q)
      \/ StatusSeen(q) = "dispatching" /\ StatusSeen(q)' = "failed"
  BY <1>1, <1>2, <1>3, <1>4, SeenAs DEF HasRow
<1> QED BY <1>2, <1>5, StaysPut DEF Lifecycle!Moves, Lifecycle!Failed

LEMMA LifecycleInit ==
  ASSUME Init
  PROVE  Lifecycle!Init
<1>1. ASSUME NEW r \in EventRows
      PROVE  StatusSeen(r) \in {"absent", "observed"} /\ Cardinality(GatesFor(r)) = 0
  <2>1. r[1] \in Actions /\ actions[r[1]].exists /\ events[r[1]] = Baseline(InitialActions[r[1]])
    BY StoreAssumption DEF EventRows, Init, StoreInit
  <2>2. \A k \in DOMAIN events[r[1]] : events[r[1]][k].status = "observed"
    BY <2>1 DEF Baseline, NoEvents, NewEvent
  <2>3. StatusSeen(r) \in {"absent", "observed"}
    BY <2>1, <2>2 DEF StatusSeen, StatusOf, Row, HasRow
  <2>4. GatesFor(r) = {}
    BY <2>1 DEF Init, DispatchInit, GatesFor
  <2> QED BY <2>3, <2>4, FS_EmptySet
<1> QED BY <1>1 DEF Lifecycle!Init

\* Every step the automation takes is, for every event, a step its lifecycle
\* allows: a terminal status is left only by deleting the action, a reservation
\* is given back only while nothing was launched on it, and its one gate is
\* created while the row is reserved.
THEOREM ImplementsLifecycle == Spec => EventsFollowLifecycle
<1>1. Init => Lifecycle!Init
  BY LifecycleInit
<1>2. TypeOK /\ IInv /\ EnabledExist /\ [Next]_vars => Lifecycle!Next
  <2> SUFFICES ASSUME TypeOK, IInv, EnabledExist, [Next]_vars, NEW q \in EventRows
               PROVE  Lifecycle!Moves(q)
    BY DEF Lifecycle!Next
  <2>1. CASE \E r \in InFlight : PreviewAnswers(r) \/ OutcomeUnwritten(r)
    BY <2>1, UntouchedMoves DEF PreviewAnswers, OutcomeUnwritten, storeVars
  <2> QED BY <2>1, StepKind, QuietMoves, BegunMoves, EndedMoves, GateMoves, DeleteMoves, RestartMoves
<1> QED BY <1>1, <1>2, Invariant, TypeCorrect, EnabledExistKept, PTL
        DEF Spec, EventsFollowLifecycle, Lifecycle!Spec

-----------------------------------------------------------------------------
(* Why a gate is created within the scope of its action.  Whoever recorded  *)
(* the event looked at the action's patterns, and that was before one or    *)
(* two awaits.  What carries over is the revision: every edit of what an    *)
(* action observes raises it, so whoever holds an older reading of the      *)
(* action and finds the revision unchanged holds the same patterns.         *)

SameView(x, y) ==
  /\ x.revision <= y.revision
  /\ x.revision = y.revision => x.follows = y.follows /\ x.forks = y.forks

RowsInScope ==
  \A a \in Actions : \A k \in DOMAIN events[a] :
    /\ k.revision <= actions[a].revision
    /\ events[a][k].origin # "manual" /\ k.revision = actions[a].revision =>
         k.target \in actions[a].follows

CycleView == \A a \in DOMAIN rec.acts : SameView(rec.acts[a], actions[a])

FlightsInScope ==
  \A r \in InFlight :
    /\ SameView(disp[r].action, actions[r[1]])
    /\ r[2].target \in Forks => disp[r].action.forks
    /\ disp[r].event.origin # "manual" => r[2].target \in disp[r].action.follows

ScopeInv == RowsInScope /\ CycleView /\ FlightsInScope

LEMMA SameViewTrans ==
  ASSUME NEW x \in Action, NEW y \in Action, NEW z \in Action, SameView(x, y), SameView(y, z)
  PROVE  SameView(x, z)
BY DEF SameView, Action

LEMMA SameViewSelf == ASSUME NEW x \in Action PROVE SameView(x, x)
BY DEF SameView, Action

\* An action goes on observing what it observes, and its baseline is only filled by
\* a cycle that found it empty; or it is deleted, or edited.
Observed(a) ==
  /\ actions'[a].revision = actions[a].revision
  /\ actions'[a].follows = actions[a].follows
  /\ actions'[a].forks = actions[a].forks

GoesOn(a) ==
  /\ Observed(a)
  /\ actions'[a].exists = actions[a].exists
  /\ \/ actions'[a].baseline = actions[a].baseline
     \/ Record /\ a \in DOMAIN rec.acts /\ FirstRun(a)

IsDeleted(a) == OperatorStep /\ DeleteAction(a) /\ Observed(a) /\ ~actions'[a].exists

IsReobserved(a) ==
  /\ OperatorStep
  /\ \E follows \in FollowChoices, forks \in BOOLEAN :
       /\ Reobserved(a, follows, forks)
       /\ actions'[a] = Observing(actions[a], follows, forks)

LEMMA ActionEvolves ==
  ASSUME TypeOK, [Next]_vars, NEW a \in Actions
  PROVE  GoesOn(a) \/ IsDeleted(a) \/ IsReobserved(a)
<1>1. actions \in [Actions -> Action] /\ actions[a] \in Action
  BY DEF TypeOK, StoreTypeOK
<1>2. ASSUME \/ actions'[a] = actions[a]
             \/ \E b \in BOOLEAN : actions'[a] = [actions[a] EXCEPT !.enabled = b]
             \/ \E cost \in CostChoices : actions'[a] = [actions[a] EXCEPT !.cost = cost]
      PROVE  GoesOn(a)
  BY <1>1, <1>2 DEF Action, GoesOn, Observed
<1>3. CASE UNCHANGED actions
  BY <1>2, <1>3
<1>4. CASE actions' = AllDisabled
  BY <1>2, <1>4 DEF AllDisabled
<1>5. CASE Record
  <2>1. CASE actions'[a] = actions[a]
    BY <1>2, <2>1
  <2>2. CASE /\ a \in DOMAIN rec.acts /\ FirstRun(a)
             /\ actions'[a] = [actions[a] EXCEPT !.baseline = TRUE]
    BY <1>1, <1>5, <2>2 DEF Action, GoesOn, Observed
  <2> QED BY <1>5, <2>1, <2>2 DEF Record, BaselineFilled
<1>6. CASE OperatorStep
  <2>1. PICK b \in Actions :
          \/ Edited(b)
          \/ \E follows \in FollowChoices, forks \in BOOLEAN : Reobserved(b, follows, forks)
    BY <1>6 DEF OperatorStep
  <2>2. CASE PatchEnabled(b)
    <3>1. (~actions[a].enabled) \in BOOLEAN
      BY <1>1 DEF Action
    <3>2. actions'[a] \in {actions[a], [actions[a] EXCEPT !.enabled = ~actions[a].enabled]}
      BY <1>1, <2>2 DEF PatchEnabled
    <3> QED BY <1>2, <3>1, <3>2
  <2>3. CASE \E cost \in CostChoices : PatchCost(b, cost)
    BY <1>1, <1>2, <2>3 DEF PatchCost
  <2>4. CASE DeleteAction(b)
    <3>1. CASE a # b
      BY <1>1, <1>2, <2>4, <3>1 DEF DeleteAction
    <3>2. CASE a = b
      <4>1. actions'[a] = [actions[a] EXCEPT !.exists = FALSE, !.enabled = FALSE]
        BY <1>1, <2>4, <3>2 DEF DeleteAction
      <4> QED BY <1>1, <1>6, <2>4, <3>2, <4>1 DEF Action, IsDeleted, Observed
    <3> QED BY <3>1, <3>2
  <2>5. ASSUME NEW follows \in FollowChoices, NEW forks \in BOOLEAN, Reobserved(b, follows, forks)
        PROVE  GoesOn(a) \/ IsReobserved(a)
    <3>1. CASE a # b
      BY <1>1, <1>2, <2>5, <3>1 DEF Reobserved, PatchObserved
    <3>2. CASE a = b
      <4>1. actions'[a] = Observing(actions[a], follows, forks)
        BY <1>1, <2>5, <3>2 DEF Reobserved, PatchObserved
      <4> QED BY <1>6, <2>5, <3>2, <4>1 DEF IsReobserved
    <3> QED BY <3>1, <3>2
  <2> QED BY <2>1, <2>2, <2>3, <2>4, <2>5 DEF Edited
<1> QED BY <1>3, <1>4, <1>5, <1>6, ActionsKind

\* What an edit of the patterns leaves.
LEMMA ObservingRaises ==
  ASSUME NEW x \in Action, NEW follows, NEW forks
  PROVE  LET y == Observing(x, follows, forks)
         IN /\ y.revision = x.revision + 1 /\ y.follows = follows /\ y.forks = forks
            /\ ~y.baseline
BY DEF Observing, Action

\* Nobody changes what an action observes without raising its revision.
LEMMA ActionsOnward ==
  ASSUME TypeOK, [Next]_vars, NEW a \in Actions
  PROVE  SameView(actions[a], actions'[a])
<1>1. actions[a] \in Action /\ actions[a].revision \in Nat
  BY StoreAssumption DEF TypeOK, StoreTypeOK, Action
<1>2. CASE Observed(a)
  BY <1>1, <1>2 DEF Observed, SameView
<1>3. CASE IsReobserved(a)
  <2>1. actions'[a].revision = actions[a].revision + 1
    BY <1>1, <1>3, ObservingRaises DEF IsReobserved
  <2> QED BY <1>1, <2>1 DEF SameView
<1> QED BY <1>2, <1>3, ActionEvolves DEF GoesOn, IsDeleted

\* A row is new, and Recorded says by whom, or it keeps its origin and its clocks.
LEMMA RowsEvolve ==
  ASSUME TypeOK, IInv, [Next]_vars, NEW a \in Actions, NEW k \in DOMAIN events'[a]
  PROVE  IF k \in DOMAIN events[a] THEN Kept(events[a][k], events'[a][k]) ELSE Recorded(a, k)
<1> DEFINE Goal == IF k \in DOMAIN events[a]
                   THEN Kept(events[a][k], events'[a][k]) ELSE Recorded(a, k)
<1>1. CASE QuietStep
  BY <1>1 DEF QuietStep, QuietTable, QuietRow
<1>2. ASSUME NEW r \in Actions \X EventKey, NEW e, events' = Patched(r, e),
             HasRow(r) => Kept(Row(r), e)
      PROVE  Goal
  <2>1. DOMAIN events'[a] = DOMAIN events[a]
    BY <1>2, PatchedRows DEF TypeOK, StoreTypeOK
  <2>2. IF <<a, k>> = r THEN events'[a][k] = e ELSE events'[a][k] = events[a][k]
    BY <1>2, <2>1, PatchedRows DEF TypeOK, StoreTypeOK
  <2>3. <<a, k>> = r => HasRow(r) /\ Row(r) = events[a][k]
    BY <2>1 DEF HasRow, Row
  <2> QED BY <1>2, <2>1, <2>2, <2>3 DEF Kept
<1>3. CASE \E r \in Actions \X EventKey : Begins(r)
  <2> PICK r \in Actions \X EventKey : Begins(r)
    BY <1>3
  <2>1. Kept(Row(r), ReservedEvent(Row(r)))
    BY DEF Kept, ReservedEvent, Row, HasRow, TypeOK, StoreTypeOK, IsTable, Event, Begins
  <2> QED BY <1>2, <2>1 DEF Begins
<1>4. CASE \E r \in InFlight : \E e : EndsWith(r, e)
  <2> PICK r \in InFlight : \E e : EndsWith(r, e)
    BY <1>4
  <2> PICK e : EndsWith(r, e)
    OBVIOUS
  <2>1. r \in Actions \X EventKey
    BY DEF TypeOK, DispatchTypeOK
  <2> QED BY <1>2, <2>1 DEF EndsWith
<1>5. CASE \E r \in InFlight : PreviewAnswers(r) \/ GateCreated(r) \/ OutcomeUnwritten(r)
  BY <1>5 DEF PreviewAnswers, GateCreated, OutcomeUnwritten, storeVars, Kept
<1>6. CASE \E b \in Actions : Deletes(b)
  BY <1>6 DEF Deletes, DeleteAction, NoEvents, TypeOK, StoreTypeOK, Kept
<1>7. CASE Restart
  BY <1>7 DEF Restart, DispatchRestart, OrphansFailed, TypeOK, StoreTypeOK, IsTable, Event, Kept
<1> QED BY <1>1, <1>3, <1>4, <1>5, <1>6, <1>7, StepKind

\* What a dispatch holds of its event and its action is what it began with.
LEMMA FlightsEvolve ==
  ASSUME TypeOK, IInv, [Next]_vars, NEW r \in InFlight'
  PROVE  \/ /\ r \in InFlight
            /\ disp'[r].action = disp[r].action /\ disp'[r].event = disp[r].event
         \/ /\ r \in Actions \X EventKey /\ HasRow(r) /\ StatusOf(r) = "queued"
            /\ ~RefusedAtOnce(r) /\ Begins(r)
            /\ disp'[r].action = actions[r[1]]
            /\ disp'[r].event.origin = Row(r).origin
            /\ disp'[r].event.dispatched = now
<1>1. CASE QuietStep \/ \E a \in Actions : Deletes(a)
  BY <1>1 DEF QuietStep, Deletes, InFlight
<1>2. CASE \E q \in Actions \X EventKey : Begins(q)
  <2> PICK q \in Actions \X EventKey : Begins(q)
    BY <1>2
  <2>1. q \notin InFlight
    BY DEF Begins, IInv, FlightOwnsItsRow
  <2>2. InFlight' = InFlight \cup {q} /\ \A p \in InFlight : disp'[p] = disp[p]
    BY <2>1 DEF Begins, Begun, InFlight
  <2>3. disp'[q].action = actions[q[1]] /\ disp'[q].event = ReservedEvent(Row(q))
    BY DEF Begins, Begun
  <2>4. ReservedEvent(Row(q)).origin = Row(q).origin /\ ReservedEvent(Row(q)).dispatched = now
    BY DEF ReservedEvent, Row, HasRow, TypeOK, StoreTypeOK, IsTable, Event, Begins
  <2> QED BY <2>2, <2>3, <2>4 DEF Begins
<1>3. CASE \E q \in InFlight : (\E e : EndsWith(q, e)) \/ OutcomeUnwritten(q)
  BY <1>3 DEF EndsWith, OutcomeUnwritten, Ended, InFlight
<1>4. CASE \E q \in InFlight : PreviewAnswers(q) \/ GateCreated(q)
  <2> PICK q \in InFlight : PreviewAnswers(q) \/ GateCreated(q)
    BY <1>4
  <2>1. disp[q] \in Flight
    BY DEF TypeOK, DispatchTypeOK, Flight
  <2>2. /\ InFlight' = InFlight
        /\ \A p \in InFlight \ {q} : disp'[p] = disp[p]
        /\ \/ disp'[q] = [disp[q] EXCEPT !.wait = "accepting"]
           \/ disp'[q] = [disp[q] EXCEPT !.wait = "launching",
                                         !.gate = <<q[1], Len(gates[q[1]]) + 1>>]
    BY DEF PreviewAnswers, GateCreated, InFlight
  <2>3. disp'[q].action = disp[q].action /\ disp'[q].event = disp[q].event
    BY <2>1, <2>2 DEF Flight
  <2> QED BY <2>2, <2>3
<1>5. CASE Restart
  BY <1>5 DEF Restart, DispatchRestart, InFlight
<1> QED BY <1>1, <1>2, <1>3, <1>4, <1>5, StepKind

\* What a cycle holds of an action is what it read when it read its scope.
LEMMA CycleEvolves ==
  ASSUME [Next]_vars, ReconcilerTypeOK, NEW a \in DOMAIN rec'.acts
  PROVE  \/ a \in DOMAIN rec.acts /\ rec'.acts[a] = rec.acts[a]
         \/ a \in Actions /\ rec'.acts[a] = actions[a]
<1>1. CASE UNCHANGED rec
  BY <1>1
<1>2. CASE rec' = Idle
  BY <1>2 DEF Idle
<1>3. CASE ScopeRead
  BY <1>3 DEF ScopeRead, ReconcilerTypeOK
<1>4. CASE CycleStarts \/ PullsListed \/ BranchesListed \/ Record \/ DispatchNext
  <2>1. rec'.acts = rec.acts
    BY <1>4 DEF CycleStarts, PullsListed, BranchesListed, Record, DispatchNext, ReconcilerTypeOK
  <2> QED BY <2>1
<1> QED BY <1>1, <1>2, <1>3, <1>4
        DEF Next, OutsideStep, OperatorStep, DeliveryStep, TurnStep, AwaitedStep, CycleStep,
            DrainStep, Restart, ReconcilerStep, ReconcilerRestart, ListingFails, RecordFails,
            CycleEnds, vars

LEMMA ScopeAtStart ==
  ASSUME Init
  PROVE  ScopeInv
<1>1. ASSUME NEW a \in Actions, NEW k \in DOMAIN events[a]
      PROVE  k.revision = 1 /\ k.target \in actions[a].follows
  <2>1. events[a] = Baseline(InitialActions[a]) /\ actions[a] = InitialActions[a]
    BY DEF Init, StoreInit
  <2> QED BY <2>1 DEF Baseline, NoEvents
<1>2. \A a \in Actions : actions[a].revision = 1
  BY StoreAssumption DEF Init, StoreInit
<1>3. DOMAIN rec.acts = {} /\ InFlight = {}
  BY DEF Init, ReconcilerInit, Idle, DispatchInit, InFlight
<1> QED BY <1>1, <1>2, <1>3 DEF ScopeInv, RowsInScope, CycleView, FlightsInScope

LEMMA ScopeKept ==
  ASSUME TypeOK, TypeOK', IInv, ScopeInv, [Next]_vars
  PROVE  ScopeInv'
<1>1. ASSUME NEW a \in Actions
      PROVE  actions[a] \in Action /\ actions'[a] \in Action /\ SameView(actions[a], actions'[a])
  BY ActionsOnward DEF TypeOK, StoreTypeOK
<1>2. ASSUME NEW a \in DOMAIN rec.acts
      PROVE  a \in Actions /\ rec.acts[a] \in Action
  BY DEF TypeOK, ReconcilerTypeOK
<1>3. RowsInScope'
  <2> SUFFICES ASSUME NEW a \in Actions, NEW k \in DOMAIN events'[a]
               PROVE  /\ k.revision <= actions'[a].revision
                      /\ events'[a][k].origin # "manual" /\ k.revision = actions'[a].revision =>
                           k.target \in actions'[a].follows
    BY DEF RowsInScope
  <2> DEFINE InScope(x) == /\ k.revision <= x.revision
                           /\ k.revision = x.revision => k.target \in x.follows
  <2>1. k.revision \in Nat
    BY StoreAssumption DEF TypeOK, StoreTypeOK, IsTable, EventKey
  <2>2. \A x \in Action : x.revision \in Nat
    BY StoreAssumption DEF Action
  <2>3. ASSUME NEW x \in Action, InScope(x), SameView(x, actions'[a])
        PROVE  InScope(actions'[a])
    BY <1>1, <2>1, <2>2, <2>3 DEF SameView
  <2>4. CASE k \in DOMAIN events[a]
    <3>1. events'[a][k].origin = events[a][k].origin
      BY <2>4, RowsEvolve DEF Kept
    <3>2. CASE events[a][k].origin = "manual"
      <4>1. k.revision <= actions[a].revision
        BY <2>4 DEF ScopeInv, RowsInScope
      <4> QED BY <1>1, <2>1, <2>2, <3>1, <3>2, <4>1 DEF SameView
    <3>3. CASE events[a][k].origin # "manual"
      <4>1. InScope(actions[a])
        BY <2>4, <3>3 DEF ScopeInv, RowsInScope
      <4> QED BY <1>1, <2>3, <4>1
    <3> QED BY <3>2, <3>3
  <2>5. CASE k \notin DOMAIN events[a]
    <3>1. Recorded(a, k)
      BY <2>5, RowsEvolve
    <3>2. CASE events'[a][k].origin = "manual" /\ k.revision = actions[a].revision
      BY <1>1, <2>1, <2>2, <3>2 DEF SameView
    <3>3. CASE k.revision = actions[a].revision /\ k.target \in actions[a].follows
      <4>1. InScope(actions[a])
        BY <1>1, <2>2, <3>3
      <4> QED BY <1>1, <2>3, <4>1
    <3>4. CASE RecoveredNow(a, k)
      <4>1. /\ a \in DOMAIN rec.acts /\ k.revision = rec.acts[a].revision
            /\ k.target \in rec.acts[a].follows
        BY <3>4 DEF RecoveredNow, RecoveredKeys, RecoveredKey, Recovered, Unseen
      <4>2. InScope(rec.acts[a])
        BY <1>2, <2>2, <4>1
      <4>3. SameView(rec.acts[a], actions'[a])
        BY <1>1, <1>2, <4>1, SameViewTrans DEF ScopeInv, CycleView
      <4> QED BY <1>2, <2>3, <4>1, <4>2, <4>3
    <3> QED BY <3>1, <3>2, <3>3, <3>4 DEF Recorded
  <2> QED BY <2>4, <2>5
<1>4. CycleView'
  <2> SUFFICES ASSUME NEW a \in DOMAIN rec'.acts
               PROVE  SameView(rec'.acts[a], actions'[a])
    BY DEF CycleView
  <2>1. CASE a \in DOMAIN rec.acts /\ rec'.acts[a] = rec.acts[a]
    BY <1>1, <1>2, <2>1, SameViewTrans DEF ScopeInv, CycleView
  <2>2. CASE a \in Actions /\ rec'.acts[a] = actions[a]
    BY <1>1, <2>2
  <2> QED BY <2>1, <2>2, CycleEvolves DEF TypeOK
<1>5. FlightsInScope'
  <2> SUFFICES ASSUME NEW r \in InFlight'
               PROVE  /\ SameView(disp'[r].action, actions'[r[1]])
                      /\ r[2].target \in Forks => disp'[r].action.forks
                      /\ disp'[r].event.origin # "manual" => r[2].target \in disp'[r].action.follows
    BY DEF FlightsInScope
  <2>1. CASE /\ r \in InFlight
             /\ disp'[r].action = disp[r].action /\ disp'[r].event = disp[r].event
    <3>1. r[1] \in Actions /\ disp[r].action \in Action
      BY <2>1 DEF TypeOK, DispatchTypeOK
    <3>2. SameView(disp[r].action, actions'[r[1]])
      BY <1>1, <2>1, <3>1, SameViewTrans DEF ScopeInv, FlightsInScope
    <3> QED BY <2>1, <3>2 DEF ScopeInv, FlightsInScope
  <2>2. CASE /\ r \in Actions \X EventKey /\ HasRow(r) /\ StatusOf(r) = "queued"
             /\ ~RefusedAtOnce(r)
             /\ disp'[r].action = actions[r[1]]
             /\ disp'[r].event.origin = Row(r).origin
    <3>1. r[1] \in Actions /\ r[2] \in DOMAIN events[r[1]]
      BY <2>2 DEF HasRow
    <3>2. actions[r[1]].revision = r[2].revision
      BY <2>2 DEF RefusedAtOnce
    <3>3. r[2].target \in Forks => actions[r[1]].forks
      BY <2>2 DEF RefusedAtOnce
    <3>4. Row(r).origin # "manual" => r[2].target \in actions[r[1]].follows
      BY <3>1, <3>2 DEF ScopeInv, RowsInScope, Row
    <3> QED BY <1>1, <2>2, <3>1, <3>3, <3>4
  <2> QED BY <2>1, <2>2, FlightsEvolve
<1> QED BY <1>3, <1>4, <1>5 DEF ScopeInv

LEMMA ScopeInvariant == Spec => []ScopeInv
<1>1. Init => ScopeInv
  BY ScopeAtStart
<1>2. TypeOK /\ TypeOK' /\ IInv /\ ScopeInv /\ [Next]_vars => ScopeInv'
  BY ScopeKept
<1> QED BY <1>1, <1>2, TypeCorrect, Invariant, PTL DEF Spec

\* A gate is new only in the step that launches its event, and takes its key and
\* its origin from the dispatch.
LEMMA NewGateOf ==
  ASSUME TypeOK, IInv, [Next]_vars, NEW g \in NewGates
  PROVE  \E r \in InFlight : /\ GateCreated(r) /\ g[1] = r[1] /\ r[1] \in Actions
                             /\ GateMade(g).key = r[2]
                             /\ GateMade(g).origin = disp[r].event.origin
                             /\ GateMade(g).cost = disp[r].action.cost
                             /\ GateMade(g).day = Day(disp[r].event.dispatched)
<1>1. g[1] \in Actions /\ g[2] \in DOMAIN gates'[g[1]] \ DOMAIN gates[g[1]]
  BY DEF NewGates
<1>2. gates' # gates
  BY <1>1
<1>3. PICK r \in InFlight : GateCreated(r)
  BY <1>2, StepKind DEF QuietStep, Begins, EndsWith, PreviewAnswers, OutcomeUnwritten, Deletes,
                        Restart, DispatchRestart
<1>4. r[1] \in Actions /\ gates[r[1]] \in Seq(Gate)
  BY DEF TypeOK, DispatchTypeOK
<1> DEFINE gate == [key |-> r[2], origin |-> disp[r].event.origin,
                    cost |-> disp[r].action.cost, day |-> Day(disp[r].event.dispatched)]
<1>5. gates' = [gates EXCEPT ![r[1]] = Append(@, gate)]
  BY <1>3 DEF GateCreated
<1>6. /\ gate.key = r[2] /\ gate.origin = disp[r].event.origin
      /\ gate.cost = disp[r].action.cost /\ gate.day = Day(disp[r].event.dispatched)
  OBVIOUS
<1> HIDE DEF gate
<1>7. \A b \in Actions \ {r[1]} : gates'[b] = gates[b]
  BY <1>4, <1>5 DEF TypeOK, DispatchTypeOK
<1>8. g[1] = r[1]
  BY <1>1, <1>7
<1>9. gates'[r[1]] = Append(gates[r[1]], gate)
  BY <1>4, <1>5 DEF TypeOK, DispatchTypeOK
<1>10. /\ DOMAIN gates[r[1]] = 1..Len(gates[r[1]]) /\ Len(gates[r[1]]) \in Nat
       /\ DOMAIN gates'[r[1]] = 1..(Len(gates[r[1]]) + 1)
       /\ gates'[r[1]][Len(gates[r[1]]) + 1] = gate
  BY <1>4, <1>9, LenProperties
<1>11. g[2] = Len(gates[r[1]]) + 1
  BY <1>1, <1>8, <1>10
<1>12. GateMade(g) = gate
  BY <1>8, <1>10, <1>11 DEF GateMade
<1> QED BY <1>3, <1>4, <1>6, <1>8, <1>12

\* Whatever the operator edits between the recording of an event and its launch,
\* the gate is for a target the action follows now, opted into now, and enabled.
THEOREM GatesWithinScope == Spec => CreatedWithinScope
<1>1. ASSUME TypeOK, IInv, ScopeInv, [Next]_vars, NEW g \in NewGates
      PROVE  LET a == actions[g[1]]
                 t == GateMade(g).key.target
             IN /\ a.enabled
                /\ t \in Forks => a.forks
                /\ GateMade(g).origin # "manual" => t \in a.follows
  <2>1. PICK r \in InFlight : /\ GateCreated(r) /\ g[1] = r[1] /\ r[1] \in Actions
                              /\ GateMade(g).key = r[2]
                              /\ GateMade(g).origin = disp[r].event.origin
    BY <1>1, NewGateOf
  <2>2. actions[r[1]].enabled /\ actions[r[1]].revision = disp[r].action.revision
    BY <2>1 DEF GateCreated, StillCurrent
  <2>3. /\ disp[r].action.follows = actions[r[1]].follows
        /\ disp[r].action.forks = actions[r[1]].forks
    BY <1>1, <2>2 DEF ScopeInv, FlightsInScope, SameView
  <2> QED BY <1>1, <2>1, <2>2, <2>3 DEF ScopeInv, FlightsInScope
<1>2. TypeOK /\ IInv /\ ScopeInv /\ [Next]_vars =>
        [\A g \in NewGates :
           LET a == actions[g[1]]
               t == GateMade(g).key.target
           IN /\ a.enabled
              /\ t \in Forks => a.forks
              /\ GateMade(g).origin # "manual" => t \in a.follows]_vars
  BY <1>1
<1> QED BY <1>2, TypeCorrect, Invariant, ScopeInvariant, PTL DEF Spec, CreatedWithinScope

-----------------------------------------------------------------------------
(* Why the event of the current head is never cancelled by an older one.    *)
(* Whoever cancels the queue of a target (a delivery, or a cycle with its   *)
(* listing) holds a clock that GitHub gave it with a head, and GitHub only  *)
(* moves on: the clock is that of the current head only if the head is the  *)
(* current one too, and that head is spared.                                *)

Behind(observed, s, t) ==
  /\ observed <= tip[t].clock
  /\ observed = tip[t].clock => s = tip[t].sha

DeliveriesBehind ==
  \A d \in sent :
    d.kind # "closed" /\ (d.kind = "change" => Behind(d.observed, d.sha, d.target))

ListingsBehind ==
  \A t \in DOMAIN rec.seen :
    rec.seen[t].observed # Null /\ Behind(rec.seen[t].observed, rec.seen[t].sha, t)

SupersededBehind ==
  \A a \in Actions : \A k \in DOMAIN events[a] :
    events[a][k].status = "superseded" =>
      /\ events[a][k].observed <= tip[k.target].clock
      /\ events[a][k].observed = tip[k.target].clock => k.sha # tip[k.target].sha

HeadInv == DeliveriesBehind /\ ListingsBehind /\ SupersededBehind

\* Two changes of one target never share a second, so its clock grows with each.
LEMMA TipOnward ==
  ASSUME TypeOK, [Next]_vars, ~TiedClocks, NEW t \in Targets
  PROVE  tip'[t] = tip[t] \/ tip[t].clock < tip'[t].clock
<1>1. tip \in [Targets -> [sha: Shas, clock: 1..MaxTime, open: BOOLEAN]] /\ now \in Nat
  BY RemoteAssumption DEF TypeOK, RemoteTypeOK
<1>2. CASE UNCHANGED tip
  BY <1>2
<1>3. CASE OutsideStep /\ tip' # tip
  <2>1. PICK u \in Targets : Quiet(u) \/ \E s \in Shas : Moves(u, s)
    BY <1>3 DEF OutsideStep, AsksRerun, Rerequest, Access, Reach, Unreach, Passes, Tick
  <2>2. /\ tip[u].clock < now
        /\ \/ \E s \in Shas : tip' = [tip EXCEPT ![u].sha = s, ![u].clock = now]
           \/ \E b \in BOOLEAN : tip' = [tip EXCEPT ![u].open = b, ![u].clock = now]
    BY <2>1 DEF Quiet, Close, Reopen, Moves, Push, ClockMoved
  <2>3. tip'[u].clock = now /\ \A v \in Targets \ {u} : tip'[v] = tip[v]
    <3>1. CASE \E s \in Shas : tip' = [tip EXCEPT ![u].sha = s, ![u].clock = now]
      BY <1>1, <3>1
    <3>2. CASE \E b \in BOOLEAN : tip' = [tip EXCEPT ![u].open = b, ![u].clock = now]
      BY <1>1, <3>2
    <3> QED BY <2>2, <3>1, <3>2
  <2> QED BY <2>2, <2>3
<1> QED BY <1>2, <1>3 DEF Next, OperatorStep, DeliveryStep, TurnStep, AwaitedStep, CycleStep,
                           DrainStep, Restart, remoteVars, vars

\* GitHub sends the head a change left behind, with the clock of that change.
LEMMA SentOnward ==
  ASSUME TypeOK, [Next]_vars, ~PullsClose, NEW d \in sent', d \notin sent
  PROVE  \/ d.kind \in {"rerequested", "removed"}
         \/ /\ d.kind = "change" /\ d.target \in Targets
            /\ d.observed = tip'[d.target].clock /\ d.sha = tip'[d.target].sha
<1>1. tip \in [Targets -> [sha: Shas, clock: 1..MaxTime, open: BOOLEAN]] /\ now \in Nat
  BY RemoteAssumption DEF TypeOK, RemoteTypeOK
<1>2. OutsideStep
  BY DEF Next, OperatorStep, DeliveryStep, TurnStep, AwaitedStep, CycleStep,
         DrainStep, Restart, remoteVars, vars
<1>3. ASSUME NEW kind, NEW t, NEW s, NEW observed, NEW gate, NEW checkRun,
             Send(kind, t, s, observed, gate, checkRun)
      PROVE  d.kind = kind /\ d.target = t /\ d.sha = s /\ d.observed = observed
  BY <1>3 DEF Send
<1>4. CASE \E t \in Targets : Quiet(t)
  <2> PICK t \in Targets : Quiet(t)
    BY <1>4
  <2>1. Reopen(t)
    BY DEF Quiet, Close
  <2>2. d.kind = "change" /\ d.target = t /\ d.sha = tip[t].sha /\ d.observed = now
    BY <1>3, <2>1 DEF Reopen
  <2>3. tip'[t].clock = now /\ tip'[t].sha = tip[t].sha
    BY <1>1, <2>1 DEF Reopen
  <2> QED BY <2>2, <2>3
<1>5. CASE \E t \in Targets, s \in Shas : Moves(t, s)
  <2> PICK t \in Targets, s \in Shas : Moves(t, s)
    BY <1>5
  <2>1. d.kind = "change" /\ d.target = t /\ d.sha = s /\ d.observed = now
    BY <1>3 DEF Moves, Push
  <2>2. tip'[t].clock = now /\ tip'[t].sha = s
    BY <1>1 DEF Moves, Push
  <2> QED BY <2>1, <2>2
<1>6. CASE \E a \in Actions : \E n \in DOMAIN gates[a] : AsksRerun(a, n)
  BY <1>3, <1>6 DEF AsksRerun, Rerequest
<1>7. CASE Access
  BY <1>3, <1>7 DEF Access, Reach, Unreach
<1> QED BY <1>2, <1>4, <1>5, <1>6, <1>7 DEF OutsideStep, Passes, Tick

\* Only a delivery and the record of a cycle supersede.
LEMMA SupersededBefore ==
  ASSUME TypeOK, [Next]_vars, ~DeliveryStep, ~Record,
         NEW a \in Actions, NEW k \in DOMAIN events'[a], events'[a][k].status = "superseded"
  PROVE  k \in DOMAIN events[a] /\ events[a][k].status = "superseded"
<1> DEFINE Goal == k \in DOMAIN events[a] /\ events[a][k].status = "superseded"
<1>1. CASE UNCHANGED events
  BY <1>1
<1>2. ASSUME NEW r \in Actions \X EventKey, NEW e, events' = Patched(r, e),
             HasRow(r) => e.status # "superseded"
      PROVE  Goal
  <2>1. DOMAIN events'[a] = DOMAIN events[a]
    BY <1>2, PatchedRows DEF TypeOK, StoreTypeOK
  <2>2. IF <<a, k>> = r THEN events'[a][k] = e ELSE events'[a][k] = events[a][k]
    BY <1>2, <2>1, PatchedRows DEF TypeOK, StoreTypeOK
  <2> QED BY <1>2, <2>1, <2>2 DEF HasRow
<1>3. CASE TurnStep
  <2> PICK r \in turn : Dispatch(r)
    BY <1>3 DEF TurnStep
  <2>1. r \in Actions \X EventKey
    BY DEF TypeOK, DispatchTypeOK
  <2>2. HasRow(r) => /\ [Row(r) EXCEPT !.status = "skipped"].status = "skipped"
                     /\ ReservedEvent(Row(r)).status = "dispatching"
    BY <2>1 DEF TypeOK, StoreTypeOK, IsTable, Event, HasRow, Row, ReservedEvent
  <2> QED BY <1>1, <1>2, <2>1, <2>2 DEF Dispatch, WithStatus
<1>4. CASE AwaitedStep
  <2> PICK r \in InFlight : \/ \E e : EndsWith(r, e)
                            \/ PreviewAnswers(r) \/ GateCreated(r) \/ OutcomeUnwritten(r)
    BY <1>4, AwaitedKind
  <2>1. r \in Actions \X EventKey
    BY DEF TypeOK, DispatchTypeOK
  <2>2. CASE \E e : EndsWith(r, e)
    BY <1>2, <2>1, <2>2 DEF EndsWith, Outcome
  <2> QED BY <1>1, <2>2 DEF PreviewAnswers, GateCreated, OutcomeUnwritten, storeVars
<1>5. CASE \E live : events' = OrphansFailed(live)
  BY <1>5 DEF OrphansFailed, TypeOK, StoreTypeOK, IsTable, Event
<1>6. CASE \E b \in Actions : DeleteAction(b)
  BY <1>6 DEF DeleteAction, NoEvents, TypeOK, StoreTypeOK
<1>7. CASE CycleStep
  BY <1>1, <1>5, <1>7
  DEF CycleStep, ReconcilerStep, CycleStarts, ScopeRead, PullsListed, BranchesListed,
      ListingFails, RecordFails, DispatchNext, CycleEnds, storeVars
<1>8. CASE OperatorStep
  BY <1>1, <1>6, <1>8 DEF OperatorStep, Edited, PatchEnabled, PatchCost, Reobserved, PatchObserved
<1>9. CASE OutsideStep \/ DrainStep \/ UNCHANGED vars
  BY <1>1, <1>9 DEF OutsideStep, DrainStep, Drain, vars, storeVars
<1>10. CASE Restart
  BY <1>5, <1>10 DEF Restart, DispatchRestart
<1> QED BY <1>3, <1>4, <1>7, <1>8, <1>9, <1>10 DEF Next

\* What supersedes an event: something about another head of its target, and not older.
Superseding(e, k, s, before) ==
  /\ e.status = "queued" /\ k.sha # s
  /\ Clock(e) <= before

LEMMA ObsoleteSuperseding ==
  ASSUME NEW k, NEW e, NEW t, NEW s, NEW before \in Nat, NEW row,
         e \in Event, Obsolete(k, e, t, s, before, row)
  PROVE  k.target = t /\ Superseding(e, k, s, before)
BY DEF Obsolete, Superseding, Clock, Event

LEMMA SupersededByDelivery ==
  ASSUME TypeOK, DeliveryStep, \A d \in sent : d.kind # "closed",
         NEW a \in Actions, NEW k \in DOMAIN events'[a], events'[a][k].status = "superseded"
  PROVE  /\ k \in DOMAIN events[a]
         /\ \/ events[a][k].status = "superseded"
            \/ \E d \in sent : /\ d.kind = "change" /\ d.target = k.target
                               /\ Superseding(events[a][k], k, d.sha, d.observed)
<1> PICK d \in sent : Deliver(d)
  BY DEF DeliveryStep
<1>1. /\ d \in Delivery /\ DOMAIN events = Actions
      /\ \A j \in DOMAIN events[a] : events[a][j] \in Event
  BY DEF TypeOK, RemoteTypeOK, StoreTypeOK, IsTable
<1>2. CASE UNCHANGED events
  BY <1>2
<1>3. CASE ChangeDelivered(d)
  <2>1. ASSUME NEW row, k \in DOMAIN events[a],
               events'[a][k] = SupersedeOlder(events[a], d.target, d.sha, d.observed, row)[k]
        PROVE  \/ events[a][k].status = "superseded"
               \/ d.target = k.target /\ Superseding(events[a][k], k, d.sha, d.observed)
    <3>1. d.observed \in Nat
      BY <1>1 DEF Delivery
    <3>2. CASE Obsolete(k, events[a][k], d.target, d.sha, d.observed, row)
      BY <1>1, <2>1, <3>1, <3>2, ObsoleteSuperseding
    <3>3. CASE ~Obsolete(k, events[a][k], d.target, d.sha, d.observed, row)
      BY <2>1, <3>3 DEF SupersedeOlder
    <3> QED BY <3>2, <3>3
  <2>2. CASE a \in Creating(d)
    <3> DEFINE new  == HeadEvent(a, d)
               rows == SupersedeOlder(events[a], d.target, d.sha, d.observed, new.row)
    <3>1. events'[a] = Insert(rows, HeadKey(a, d), new)
      BY <1>3, <2>2 DEF ChangeDelivered, HeadRecorded
    <3>2. DOMAIN rows = DOMAIN events[a]
      BY DEF SupersedeOlder
    <3>3. new.status # "superseded"
      BY DEF HeadEvent, NewEvent
    <3> HIDE DEF new, rows
    <3>4. k \in DOMAIN events[a] /\ events'[a][k] = rows[k]
      BY <3>1, <3>2, <3>3 DEF Insert
    <3> QED BY <1>3, <2>1, <3>4 DEF ChangeDelivered, rows
  <2>3. CASE a \notin Creating(d)
    <3>1. events'[a] \in {events[a], SupersedeOlder(events[a], d.target, d.sha, d.observed, NoRow)}
      BY <1>3, <2>3 DEF ChangeDelivered
    <3>2. k \in DOMAIN events[a]
      BY <3>1 DEF SupersedeOlder
    <3> QED BY <1>3, <2>1, <3>1, <3>2 DEF ChangeDelivered
  <2> QED BY <2>2, <2>3
<1>4. CASE RerunDelivered(d) /\ ~UNCHANGED events
  <2> DEFINE new(r) == NewEvent(events[r[1]], "queued", "manual", actions[r[1]].cost, now, now)
  <2>1. PICK r \in RowsOfGate(d.gate) :
          events' = [events EXCEPT ![r[1]] = Insert(@, RerunKey(r, d), new(r))]
    BY <1>4 DEF RerunDelivered
  <2>2. new(r).status = "queued"
    BY DEF NewEvent
  <2> HIDE DEF new
  <2>3. events'[a] = events[a] \/ events'[a] = Insert(events[a], RerunKey(r, d), new(r))
    BY <1>1, <2>1
  <2> QED BY <2>2, <2>3 DEF Insert
<1> QED BY <1>2, <1>3, <1>4 DEF Deliver, StaleDelivered, RemovedDelivered, ClosedDelivered

LEMMA SupersededByCycle ==
  ASSUME TypeOK, Record, \A t \in DOMAIN rec.seen : rec.seen[t].observed # Null,
         NEW a \in Actions, NEW k \in DOMAIN events'[a], events'[a][k].status = "superseded"
  PROVE  /\ k \in DOMAIN events[a]
         /\ \/ events[a][k].status = "superseded"
            \/ /\ k.target \in DOMAIN rec.seen
               /\ Superseding(events[a][k], k, rec.seen[k.target].sha, rec.seen[k.target].observed)
<1>1. CASE a \notin DOMAIN rec.acts
  BY <1>1 DEF Record
<1>2. CASE a \in DOMAIN rec.acts
  <2>1. events'[a] = Reconciled(a)
    BY <1>2 DEF Record
  <2>2. k \notin RecoveredKeys(a)
    BY <2>1 DEF Reconciled, RecoveredEvent, NewEvent
  <2>3. k \in DOMAIN events[a] /\ events'[a][k] = Waiting(a, k)
    BY <2>1, <2>2 DEF Reconciled
  <2>4. events[a][k] \in Event
    BY <2>3 DEF TypeOK, StoreTypeOK, IsTable
  <2>5. CASE CancelledByRecovery(a, k)
    <3> DEFINE new(t) == RecoveredEvent(a, t)
    <3>1. PICK t \in Recovered(a) :
            Obsolete(k, events[a][k], t, rec.seen[t].sha, Clock(new(t)), new(t).row)
      BY <2>5 DEF CancelledByRecovery
    <3>2. t \in DOMAIN rec.seen
      BY DEF Recovered, Unseen
    <3>3. Clock(new(t)) = rec.seen[t].observed
      BY <3>2 DEF RecoveredEvent, NewEvent, Clock
    <3>4. rec.seen[t].observed \in Nat
      BY <3>2 DEF TypeOK, ReconcilerTypeOK, Listing
    <3> HIDE DEF new
    <3> QED BY <2>3, <2>4, <3>1, <3>2, <3>3, <3>4, ObsoleteSuperseding
  <2>6. CASE ~CancelledByRecovery(a, k)
    <3>1. [events[a][k] EXCEPT !.status = "skipped"].status = "skipped"
      BY <2>4 DEF Event
    <3> QED BY <2>3, <2>6, <3>1 DEF Waiting
  <2> QED BY <2>5, <2>6
<1> QED BY <1>1, <1>2

\* A listing gives a pull request its head and its clock of this moment.
LEMMA ListingOnward ==
  ASSUME TypeOK, [Next]_vars, PullRequests = Targets, NEW t \in DOMAIN rec'.seen
  PROVE  \/ t \in DOMAIN rec.seen /\ rec'.seen[t] = rec.seen[t]
         \/ /\ t \in Targets /\ tip' = tip
            /\ rec'.seen[t].observed = tip[t].clock /\ rec'.seen[t].sha = tip[t].sha
<1>1. ReconcilerTypeOK
  BY DEF TypeOK
<1>2. CASE UNCHANGED rec
  BY <1>2
<1>3. CASE rec' = Idle
  BY <1>3 DEF Idle
<1>4. CASE CycleStarts \/ ScopeRead \/ Record \/ DispatchNext
  <2>1. rec'.seen = rec.seen
    BY <1>1, <1>4 DEF CycleStarts, ScopeRead, Record, DispatchNext, ReconcilerTypeOK
  <2> QED BY <2>1
<1>5. CASE CycleStep /\ PullsListed
  <2>1. rec'.seen = OpenHeads(PullRequests)
    BY <1>1, <1>5 DEF PullsListed, ReconcilerTypeOK
  <2> QED BY <1>5, <2>1 DEF OpenHeads, CycleStep, remoteVars
<1>6. CASE BranchesListed
  <2>1. DOMAIN OpenHeads(Branches) = {}
    BY DEF Branches, OpenHeads
  <2>2. rec'.seen = [u \in DOMAIN rec.seen |-> rec.seen[u]]
    BY <1>1, <1>6, <2>1 DEF BranchesListed, ReconcilerTypeOK
  <2> QED BY <2>2
<1> QED BY <1>2, <1>3, <1>4, <1>5, <1>6
        DEF Next, OutsideStep, OperatorStep, DeliveryStep, TurnStep, AwaitedStep, CycleStep,
            DrainStep, Restart, ReconcilerStep, ReconcilerRestart, ListingFails, RecordFails,
            CycleEnds, vars

LEMMA HeadAtStart ==
  ASSUME Init
  PROVE  HeadInv
<1>1. ASSUME NEW a \in Actions, NEW k \in DOMAIN events[a]
      PROVE  events[a][k].status = "observed"
  <2>1. events[a] = Baseline(InitialActions[a])
    BY DEF Init, StoreInit
  <2> QED BY <2>1 DEF Baseline, NoEvents, NewEvent
<1> QED BY <1>1 DEF Init, RemoteInit, ReconcilerInit, Idle, HeadInv, DeliveriesBehind,
                    ListingsBehind, SupersededBehind

LEMMA HeadKept ==
  ASSUME PullRequests = Targets, ~PullsClose, ~TiedClocks,
         TypeOK, IInv, HeadInv, [Next]_vars
  PROVE  HeadInv'
<1>1. ASSUME NEW t \in Targets
      PROVE  tip[t].clock \in Nat \ {0} /\ tip'[t].clock \in Nat
  <2>1. tip[t].clock \in Nat \ {0}
    BY RemoteAssumption DEF TypeOK, RemoteTypeOK
  <2>2. TypeOK'
    BY TypedStep
  <2>3. tip'[t].clock \in Nat
    BY <2>2, RemoteAssumption DEF TypeOK, RemoteTypeOK
  <2> QED BY <2>1, <2>3
<1>2. ASSUME NEW t \in Targets
      PROVE  tip'[t] = tip[t] \/ tip[t].clock < tip'[t].clock
  BY TipOnward
<1>3. ASSUME NEW t \in Targets, NEW observed \in Nat, NEW s, Behind(observed, s, t)
      PROVE  observed <= tip'[t].clock /\ (observed = tip'[t].clock => s = tip'[t].sha)
  BY <1>1, <1>2, <1>3 DEF Behind
<1>4. DeliveriesBehind'
  <2> SUFFICES ASSUME NEW d \in sent'
               PROVE  /\ d.kind # "closed"
                      /\ d.kind = "change" =>
                           /\ d.observed <= tip'[d.target].clock
                           /\ d.observed = tip'[d.target].clock => d.sha = tip'[d.target].sha
    BY DEF DeliveriesBehind, Behind
  <2>1. CASE d \in sent
    <3>1. d.target \in Targets /\ d.observed \in Nat
      BY <2>1 DEF TypeOK, RemoteTypeOK, Delivery
    <3> QED BY <1>3, <2>1, <3>1 DEF HeadInv, DeliveriesBehind
  <2>2. CASE d \notin sent
    BY <1>1, <2>2, SentOnward
  <2> QED BY <2>1, <2>2
<1>5. ListingsBehind'
  <2> SUFFICES ASSUME NEW t \in DOMAIN rec'.seen
               PROVE  /\ rec'.seen[t].observed # Null
                      /\ rec'.seen[t].observed <= tip'[t].clock
                      /\ rec'.seen[t].observed = tip'[t].clock => rec'.seen[t].sha = tip'[t].sha
    BY DEF ListingsBehind, Behind
  <2>1. CASE t \in DOMAIN rec.seen /\ rec'.seen[t] = rec.seen[t]
    <3>1. t \in Targets /\ rec.seen[t].observed \in Nat
      BY <2>1 DEF TypeOK, ReconcilerTypeOK, Listing
    <3>2. rec.seen[t].observed # Null /\ Behind(rec.seen[t].observed, rec.seen[t].sha, t)
      BY <2>1 DEF HeadInv, ListingsBehind
    <3> QED BY <1>1, <1>2, <2>1, <3>1, <3>2 DEF Behind
  <2>2. CASE /\ t \in Targets /\ tip' = tip
             /\ rec'.seen[t].observed = tip[t].clock /\ rec'.seen[t].sha = tip[t].sha
    BY <1>1, <2>2 DEF Null
  <2> QED BY <2>1, <2>2, ListingOnward
<1>6. SupersededBehind'
  <2> SUFFICES ASSUME NEW a \in Actions, NEW k \in DOMAIN events'[a],
                      events'[a][k].status = "superseded"
               PROVE  /\ events'[a][k].observed <= tip'[k.target].clock
                      /\ events'[a][k].observed = tip'[k.target].clock => k.sha # tip'[k.target].sha
    BY DEF SupersededBehind
  <2>1. ASSUME k \in DOMAIN events[a], events[a][k].status = "superseded"
        PROVE  /\ events[a][k].observed <= tip[k.target].clock
               /\ events[a][k].observed = tip[k.target].clock => k.sha # tip[k.target].sha
    BY <2>1 DEF HeadInv, SupersededBehind
  <2>2. ASSUME k \in DOMAIN events[a], NEW s, NEW before \in Nat, k.target \in Targets,
               Behind(before, s, k.target), Superseding(events[a][k], k, s, before)
        PROVE  /\ events[a][k].observed <= tip[k.target].clock
               /\ events[a][k].observed = tip[k.target].clock => k.sha # tip[k.target].sha
    <3>1. events[a][k].observed \in Nat
      BY <2>2 DEF TypeOK, StoreTypeOK, IsTable, Event
    <3>2. CASE events[a][k].observed = Null
      BY <1>1, <2>2, <3>2 DEF Null
    <3>3. CASE events[a][k].observed # Null
      <4>1. Clock(events[a][k]) = events[a][k].observed
        BY <3>3 DEF Clock
      <4> QED BY <1>1, <2>2, <3>1, <4>1 DEF Superseding, Behind
    <3> QED BY <3>2, <3>3
  <2>3. /\ k \in DOMAIN events[a]
        /\ \/ events[a][k].status = "superseded"
           \/ \E s : \E before \in Nat : /\ Behind(before, s, k.target)
                                         /\ Superseding(events[a][k], k, s, before)
    <3>1. CASE DeliveryStep
      <4>1. \A d \in sent : d.observed \in Nat
        BY DEF TypeOK, RemoteTypeOK, Delivery
      <4> QED BY <3>1, <4>1, SupersededByDelivery DEF HeadInv, DeliveriesBehind
    <3>2. CASE Record
      <4>1. \A t \in DOMAIN rec.seen : rec.seen[t].observed \in Nat
        BY DEF TypeOK, ReconcilerTypeOK, Listing
      <4> QED BY <3>2, <4>1, SupersededByCycle DEF HeadInv, ListingsBehind
    <3>3. CASE ~DeliveryStep /\ ~Record
      BY <3>3, SupersededBefore
    <3> QED BY <3>1, <3>2, <3>3
  <2>4. k.target \in Targets /\ events[a][k].observed \in Nat
    BY <2>3 DEF TypeOK, StoreTypeOK, IsTable, EventKey, Event
  <2>5. /\ events[a][k].observed <= tip[k.target].clock
        /\ events[a][k].observed = tip[k.target].clock => k.sha # tip[k.target].sha
    BY <2>1, <2>2, <2>3, <2>4
  <2>6. events'[a][k].observed = events[a][k].observed
    BY <2>3, RowsEvolve DEF Kept
  <2> QED BY <1>1, <1>2, <2>4, <2>5, <2>6
<1> QED BY <1>4, <1>5, <1>6 DEF HeadInv

\* Deliveries may be late, lost, repeated or overtaken by a cycle, and listings may
\* be stale when they are recorded: the event of an open head that is still the
\* current one is not cancelled.  For pull requests that are not closed meanwhile
\* and do not change twice in a second; each of the three is needed.
THEOREM CurrentHeadNeverCancelled ==
  ASSUME PullRequests = Targets, ~PullsClose, ~TiedClocks
  PROVE  Spec => []CurrentHeadKept
<1>1. Init => HeadInv
  BY HeadAtStart
<1>2. TypeOK /\ IInv /\ HeadInv /\ [Next]_vars => HeadInv'
  BY HeadKept
<1>3. ASSUME HeadInv PROVE CurrentHeadKept
  <2> SUFFICES ASSUME NEW r \in Rows, StatusOf(r) = "superseded",
                      tip[r[2].target].sha = r[2].sha,
                      Row(r).observed = tip[r[2].target].clock
               PROVE  FALSE
    BY DEF CurrentHeadKept
  <2>1. r[1] \in Actions /\ r[2] \in DOMAIN events[r[1]]
    BY DEF Rows
  <2> QED BY <1>3, <2>1 DEF HeadInv, SupersededBehind, StatusOf, Row
<1> QED BY <1>1, <1>2, <1>3, TypeCorrect, Invariant, PTL DEF Spec

-----------------------------------------------------------------------------
(* Why the reconciliation never charges for a backlog.  What was there when *)
(* an action began to observe is recorded as observed by the first cycle,   *)
(* and is seen from then on; until then the action has no baseline and      *)
(* nothing is queued.  All of it rests on a cycle writing under the action  *)
(* as it still is, so the operator does not edit while a cycle runs: one    *)
(* that does is `EditDuringCycle`, where this fails.                        *)

\* A backlog is of open heads the action follows.
BacklogIsHead ==
  \A a \in Actions : \A h \in backlog[a] :
    h[1] \in actions[a].follows /\ tip[h[1]].open /\ tip[h[1]].sha = h[2]

OptedIn(a, t) == t \in Forks => actions[a].forks

\* The head of an action with a baseline has an event, be it only observed.
BacklogSeen ==
  \A a \in Actions : \A h \in backlog[a] :
    actions[a].exists /\ actions[a].baseline /\ OptedIn(a, h[1])
      => HasEventForHead(events[a], h[2])

BacklogNotQueued ==
  \A a \in Actions : \A k \in DOMAIN events[a] :
    /\ events[a][k].origin = "reconciliation"
    /\ k.revision = actions[a].revision
    /\ <<k.target, k.sha>> \in backlog[a]
    => events[a][k].status \notin {"queued", "dispatching"}

BacklogNotInFlight ==
  \A r \in InFlight :
    /\ disp[r].event.origin = "reconciliation"
    /\ disp[r].action.revision = actions[r[1]].revision
    => <<r[2].target, r[2].sha>> \notin backlog[r[1]]

Recording == {"pulls", "branches", "recording"}

\* What a cycle holds of an action is still so when it records.
CycleExact ==
  rec.stage \in Recording =>
    \A a \in DOMAIN rec.acts :
      /\ actions[a].exists
      /\ rec.acts[a].revision = actions[a].revision
      /\ rec.acts[a].follows = actions[a].follows
      /\ rec.acts[a].forks = actions[a].forks
      /\ rec.acts[a].baseline = actions[a].baseline

\* And its listings hold the whole backlog, once they were read.
IsListed(h) == h[1] \in DOMAIN rec.seen /\ rec.seen[h[1]].sha = h[2]

BacklogListed ==
  \A a \in DOMAIN rec.acts : \A h \in backlog[a] :
    /\ rec.stage = "branches" /\ h[1] \in PullRequests => IsListed(h)
    /\ rec.stage = "recording" => IsListed(h)

BacklogInv ==
  /\ BacklogIsHead /\ BacklogSeen /\ BacklogNotQueued /\ BacklogNotInFlight
  /\ CycleExact /\ BacklogListed

\* A head stays in the backlog untouched, or joins it by an edit, between cycles.
StaysIn(a, h) ==
  /\ h \in backlog[a]
  /\ tip'[h[1]] = tip[h[1]]
  /\ GoesOn(a) \/ IsDeleted(a)

Joins(a, h) ==
  /\ IsReobserved(a)
  /\ rec.stage = "idle"
  /\ UNCHANGED <<tip, events, disp, rec>>
  /\ h \in Heads(actions'[a].follows)

LEMMA BacklogEvolves ==
  ASSUME ~EditsInCycle, TypeOK, [Next]_vars, NEW a \in Actions, NEW h \in backlog'[a]
  PROVE  StaysIn(a, h) \/ Joins(a, h)
<1>1. /\ backlog \in [Actions -> SUBSET (Targets \X Shas)] /\ actions[a] \in Action
      /\ tip \in [Targets -> [sha: Shas, clock: 1..MaxTime, open: BOOLEAN]]
  BY DEF TypeOK, RemoteTypeOK, StoreTypeOK
<1>2. GoesOn(a) \/ IsDeleted(a) \/ IsReobserved(a)
  BY ActionEvolves
<1>3. CASE IsReobserved(a)
  <2>1. PICK follows \in FollowChoices, forks \in BOOLEAN :
          Reobserved(a, follows, forks) /\ actions'[a] = Observing(actions[a], follows, forks)
    BY <1>3 DEF IsReobserved
  <2>2. h \in Heads(actions'[a].follows)
    BY <1>1, <2>1, ObservingRaises DEF Reobserved
  <2>3. rec.stage = "idle" /\ UNCHANGED <<tip, events, disp, rec>>
    BY <1>3, <2>1 DEF IsReobserved, OperatorStep, Reobserved, PatchObserved, remoteVars, dispatchVars
  <2> QED BY <1>3, <2>2, <2>3 DEF Joins
<1>4. CASE ~IsReobserved(a)
  <2>1. h \in backlog[a] /\ tip'[h[1]] = tip[h[1]]
    <3>1. CASE OutsideStep
      <4>1. CASE UNCHANGED <<tip, backlog>>
        BY <4>1
      <4>2. ASSUME NEW t \in Targets, Changed(t), \A u \in Targets \ {t} : tip'[u] = tip[u]
            PROVE  h \in backlog[a] /\ tip'[h[1]] = tip[h[1]]
        <5>1. h \in backlog[a] /\ h[1] # t
          BY <4>2 DEF Changed
        <5> QED BY <1>1, <4>2, <5>1
      <4>3. CASE \E t \in Targets : Quiet(t)
        BY <1>1, <4>2, <4>3 DEF Quiet, Close, Reopen
      <4>4. CASE \E t \in Targets, s \in Shas : Moves(t, s)
        BY <1>1, <4>2, <4>4 DEF Moves, Push
      <4>5. CASE \/ \E b \in Actions : \E n \in DOMAIN gates[b] : AsksRerun(b, n)
                 \/ Access \/ Passes
        BY <4>1, <4>5 DEF AsksRerun, Rerequest, Access, Reach, Unreach, Passes, Tick
      <4> QED BY <3>1, <4>3, <4>4, <4>5 DEF OutsideStep
    <3>2. CASE OperatorStep
      <4>1. UNCHANGED tip
        BY <3>2 DEF OperatorStep, remoteVars
      <4>2. PICK b \in Actions :
              \/ Edited(b)
              \/ \E follows \in FollowChoices, forks \in BOOLEAN : Reobserved(b, follows, forks)
        BY <3>2 DEF OperatorStep
      <4>3. CASE Edited(b)
        BY <4>1, <4>3 DEF Edited
      <4>4. ASSUME NEW follows \in FollowChoices, NEW forks \in BOOLEAN, Reobserved(b, follows, forks)
            PROVE  h \in backlog[a]
        <5>1. CASE a = b
          <6>1. actions'[a] = Observing(actions[a], follows, forks)
            BY <4>4, <5>1 DEF Reobserved, PatchObserved, TypeOK, StoreTypeOK
          <6> QED BY <1>4, <3>2, <4>4, <5>1, <6>1 DEF IsReobserved
        <5>2. CASE a # b
          BY <1>1, <4>4, <5>2 DEF Reobserved
        <5> QED BY <5>1, <5>2
      <4> QED BY <4>1, <4>2, <4>3, <4>4
    <3>3. CASE UNCHANGED <<tip, backlog>>
      BY <3>3
    <3> QED BY <3>1, <3>2, <3>3
            DEF Next, DeliveryStep, TurnStep, AwaitedStep, CycleStep, DrainStep, Restart,
                remoteVars, vars
  <2> QED BY <1>2, <1>4, <2>1 DEF StaysIn
<1> QED BY <1>3, <1>4

\* Rows are only lost with their action.
LEMMA RowsStay ==
  ASSUME TypeOK, IInv, [Next]_vars, NEW a \in Actions, actions'[a].exists
  PROVE  DOMAIN events[a] \subseteq DOMAIN events'[a]
<1>1. CASE QuietStep
  BY <1>1 DEF QuietStep, QuietTable
<1>2. CASE \E r \in Actions \X EventKey : \E e : events' = Patched(r, e)
  BY <1>2, PatchedRows DEF TypeOK, StoreTypeOK
<1>3. CASE \E r \in InFlight : PreviewAnswers(r) \/ GateCreated(r) \/ OutcomeUnwritten(r)
  BY <1>3 DEF PreviewAnswers, GateCreated, OutcomeUnwritten, storeVars
<1>4. CASE \E b \in Actions : Deletes(b)
  BY <1>4 DEF Deletes, DeleteAction, TypeOK, StoreTypeOK, Action
<1>5. CASE Restart
  BY <1>5 DEF Restart, DispatchRestart, OrphansFailed
<1>6. \A r \in InFlight : r \in Actions \X EventKey
  BY DEF TypeOK, DispatchTypeOK
<1> QED BY <1>1, <1>2, <1>3, <1>4, <1>5, <1>6, StepKind DEF Begins, EndsWith

\* A row that is queued or dispatching was so before, or is new.
LEMMA PendingEvolves ==
  ASSUME TypeOK, IInv, [Next]_vars, NEW a \in Actions, NEW k \in DOMAIN events[a],
         k \in DOMAIN events'[a], events'[a][k].status \in {"queued", "dispatching"}
  PROVE  events[a][k].status \in {"queued", "dispatching"}
<1> DEFINE Goal == events[a][k].status \in {"queued", "dispatching"}
<1>1. CASE QuietStep
  BY <1>1 DEF QuietStep, QuietTable, QuietRow
<1>2. ASSUME NEW r \in Actions \X EventKey, NEW e, events' = Patched(r, e),
             HasRow(r) => StatusOf(r) \in {"queued", "dispatching"}
      PROVE  Goal
  <2>1. IF <<a, k>> = r THEN events'[a][k] = e ELSE events'[a][k] = events[a][k]
    BY <1>2, PatchedRows DEF TypeOK, StoreTypeOK
  <2> QED BY <1>2, <2>1 DEF HasRow, StatusOf, Row
<1>3. CASE \E r \in Actions \X EventKey : Begins(r)
  BY <1>2, <1>3 DEF Begins
<1>4. CASE \E r \in InFlight : \E e : EndsWith(r, e)
  <2> PICK r \in InFlight : \E e : EndsWith(r, e)
    BY <1>4
  <2>1. r \in Actions \X EventKey
    BY DEF TypeOK, DispatchTypeOK
  <2> QED BY <1>2, <2>1 DEF EndsWith, IInv, FlightOwnsItsRow
<1>5. CASE \E r \in InFlight : PreviewAnswers(r) \/ GateCreated(r) \/ OutcomeUnwritten(r)
  BY <1>5 DEF PreviewAnswers, GateCreated, OutcomeUnwritten, storeVars
<1>6. CASE \E b \in Actions : Deletes(b)
  BY <1>6 DEF Deletes, DeleteAction, NoEvents, TypeOK, StoreTypeOK
<1>7. CASE Restart
  BY <1>7 DEF Restart, DispatchRestart, OrphansFailed, TypeOK, StoreTypeOK, IsTable, Event
<1> QED BY <1>1, <1>3, <1>4, <1>5, <1>6, <1>7, StepKind

-----------------------------------------------------------------------------
(* Who writes to the stages of a cycle.                                     *)

\* A cycle that lists or records either goes on with what it holds, or has just read
\* its scope, or has just read the heads of one kind of target.
CycleScoped == CycleStep /\ ScopeRead

CycleListsPulls == CycleStep /\ PullsListed

CycleListsBranches == CycleStep /\ BranchesListed

LEMMA StageEvolves ==
  ASSUME TypeOK, [Next]_vars, rec'.stage \in Recording
  PROVE  UNCHANGED rec \/ CycleScoped \/ CycleListsPulls \/ CycleListsBranches
<1>1. ReconcilerTypeOK
  BY DEF TypeOK
<1>2. rec' # Idle
  BY DEF Idle, Recording
<1>3. ~CycleStarts /\ ~Record
  BY <1>1 DEF CycleStarts, Record, ReconcilerTypeOK, Recording
<1>4. ASSUME DispatchNext
      PROVE  FALSE
  <2>1. rec'.stage = "dispatching"
    BY <1>1, <1>4 DEF DispatchNext, ReconcilerTypeOK
  <2> QED BY <2>1 DEF Recording
<1> QED BY <1>2, <1>3, <1>4
        DEF Next, OutsideStep, OperatorStep, DeliveryStep, TurnStep, AwaitedStep, CycleStep,
            DrainStep, Restart, ReconcilerStep, ReconcilerRestart, ListingFails, RecordFails,
            CycleEnds, vars, CycleScoped, CycleListsPulls, CycleListsBranches

\* An operator leaves a cycle that runs alone.
LEMMA EditsWait ==
  ASSUME ~EditsInCycle, TypeOK, [Next]_vars, rec'.stage \in Recording, NEW a \in Actions
  PROVE  GoesOn(a)
<1>1. ASSUME OperatorStep
      PROVE  FALSE
  <2>1. rec.stage = "idle" /\ UNCHANGED rec
    BY <1>1 DEF OperatorStep
  <2> QED BY <2>1 DEF Recording
<1> QED BY <1>1, ActionEvolves DEF IsDeleted, IsReobserved

LEMMA CycleExactKept ==
  ASSUME ~EditsInCycle, TypeOK, EnabledExist, CycleExact, [Next]_vars
  PROVE  CycleExact'
<1> SUFFICES ASSUME rec'.stage \in Recording, NEW a \in DOMAIN rec'.acts
             PROVE  /\ actions'[a].exists
                    /\ rec'.acts[a].revision = actions'[a].revision
                    /\ rec'.acts[a].follows = actions'[a].follows
                    /\ rec'.acts[a].forks = actions'[a].forks
                    /\ rec'.acts[a].baseline = actions'[a].baseline
  BY DEF CycleExact
<1>1. ReconcilerTypeOK /\ actions \in [Actions -> Action]
  BY DEF TypeOK, StoreTypeOK
<1>2. ~Record
  BY <1>1 DEF Record, ReconcilerTypeOK, Recording
<1>3. CASE \/ rec.stage \in Recording /\ rec'.acts = rec.acts
  <2>1. a \in Actions
    BY <1>1, <1>3 DEF ReconcilerTypeOK
  <2> QED BY <1>2, <1>3, <2>1, EditsWait DEF CycleExact, GoesOn, Observed
<1>4. CASE CycleScoped
  <2>1. /\ a \in Actions /\ actions'[a].enabled /\ rec'.acts[a] = actions[a]
        /\ actions' \in {actions, AllDisabled}
    BY <1>1, <1>4 DEF CycleScoped, ScopeRead, AfterReport, ReconcilerTypeOK
  <2>2. actions[a].exists
    BY <1>1, <2>1 DEF AllDisabled, EnabledExist, Action
  <2> QED BY <1>2, <2>1, <2>2, EditsWait DEF GoesOn, Observed
<1>5. CASE CycleListsPulls \/ CycleListsBranches
  BY <1>1, <1>3, <1>5
  DEF CycleListsPulls, CycleListsBranches, PullsListed, BranchesListed, ReconcilerTypeOK, Recording
<1> QED BY <1>3, <1>4, <1>5, StageEvolves

LEMMA BacklogListedKept ==
  ASSUME ~EditsInCycle, TypeOK, BacklogInv, CycleExact', [Next]_vars
  PROVE  BacklogListed'
<1> SUFFICES ASSUME NEW a \in DOMAIN rec'.acts, NEW h \in backlog'[a],
                    \/ rec'.stage = "branches" /\ h[1] \in PullRequests
                    \/ rec'.stage = "recording"
             PROVE  IsListed(h)'
  BY DEF BacklogListed
<1>1. /\ ReconcilerTypeOK /\ rec'.stage \in Recording
      /\ tip \in [Targets -> [sha: Shas, clock: 1..MaxTime, open: BOOLEAN]]
      /\ PullRequests \subseteq Targets
  BY RemoteAssumption DEF TypeOK, RemoteTypeOK, Recording
<1>2. a \in Actions
  <2>1. TypeOK'
    BY TypedStep
  <2> QED BY <2>1 DEF TypeOK, ReconcilerTypeOK
<1>3. /\ h \in backlog[a] /\ h[1] \in actions[a].follows
      /\ tip[h[1]].open /\ tip[h[1]].sha = h[2] /\ h[1] \in Targets
  <2>1. h \in backlog[a]
    <3>1. ~Joins(a, h)
      BY <1>1, <1>2, EditsWait DEF Joins, Recording
    <3> QED BY <1>2, <3>1, BacklogEvolves DEF StaysIn
  <2>2. backlog[a] \subseteq Targets \X Shas
    BY <1>2 DEF TypeOK
  <2> QED BY <1>2, <2>1, <2>2 DEF BacklogInv, BacklogIsHead
<1>4. CASE UNCHANGED rec
  BY <1>3, <1>4 DEF BacklogInv, BacklogListed, IsListed
<1>5. CASE CycleScoped
  <2>1. rec'.stage = AfterScope({b \in Actions : actions'[b].enabled})
        /\ a \in {b \in Actions : actions'[b].enabled}
    BY <1>1, <1>5 DEF CycleScoped, ScopeRead, ReconcilerTypeOK
  <2>2. rec'.stage = "branches" /\ actions[a].follows \cap PullRequests = {}
    BY <1>1, <2>1 DEF AfterScope, Recording
  <2> QED BY <1>3, <2>2
<1>6. CASE CycleListsPulls
  <2>1. /\ rec.stage = "pulls" /\ rec'.stage = AfterPulls(rec.acts)
        /\ rec'.seen = OpenHeads(PullRequests) /\ rec'.acts = rec.acts
    BY <1>1, <1>6 DEF CycleListsPulls, PullsListed, ReconcilerTypeOK
  <2>2. h[1] \in PullRequests
    <3>1. CASE rec'.stage = "recording"
      <4>1. rec.acts[a].follows \cap Branches = {}
        BY <2>1, <3>1 DEF AfterPulls
      <4>2. rec.acts[a].follows = actions[a].follows
        BY <2>1 DEF BacklogInv, CycleExact, Recording
      <4> QED BY <1>3, <4>1, <4>2 DEF Branches
    <3> QED BY <3>1
  <2> QED BY <1>3, <2>1, <2>2 DEF OpenHeads, IsListed
<1>7. CASE CycleListsBranches
  <2> DEFINE heads == OpenHeads(Branches)
  <2>1. /\ rec.stage = "branches" /\ rec'.acts = rec.acts
        /\ rec'.seen = [t \in DOMAIN rec.seen \cup DOMAIN heads |->
                          IF t \in DOMAIN heads THEN heads[t] ELSE rec.seen[t]]
    BY <1>1, <1>7 DEF CycleListsBranches, BranchesListed, ReconcilerTypeOK
  <2>2. DOMAIN heads = {t \in Branches : tip[t].open}
        /\ \A t \in DOMAIN heads : heads[t].sha = tip[t].sha
    BY DEF OpenHeads
  <2> HIDE DEF heads
  <2>3. CASE h[1] \in PullRequests
    <3>1. IsListed(h)
      BY <1>3, <2>1, <2>3 DEF BacklogInv, BacklogListed
    <3> QED BY <2>1, <2>2, <2>3, <3>1 DEF IsListed, Branches
  <2>4. CASE h[1] \notin PullRequests
    BY <1>3, <2>1, <2>2, <2>4 DEF IsListed, Branches
  <2> QED BY <2>3, <2>4
<1> QED BY <1>1, <1>4, <1>5, <1>6, <1>7, StageEvolves

-----------------------------------------------------------------------------
(* The backlog through every step.                                          *)

\* A cycle recovers the head of every target it lists and has no event for, under
\* that target or the first that has the same head.
LEMMA FirstOfSet ==
  ASSUME NEW S, S \subseteq Nat, S # {}
  PROVE  \E x \in S : \A y \in S : x <= y
<1> DEFINE R == OpToRel(<, Nat)
<1>1. IsWellFoundedOn(R, Nat)
  BY NatLessThanWellFounded
<1>2. \A x, y \in Nat : x < y => <<x, y>> \in R
  BY DEF OpToRel
<1> HIDE DEF R
<1>3. PICK x \in S : \A y \in S : ~(<<y, x>> \in R)
  BY <1>1, WFMin
<1>4. ASSUME NEW y \in S PROVE x <= y
  <2>1. x \in Nat /\ y \in Nat
    OBVIOUS
  <2>2. ~(y < x)
    BY <1>2, <1>3, <2>1
  <2> QED BY <2>1, <2>2
<1> QED BY <1>4

LEMMA UnseenIsRecovered ==
  ASSUME TypeOK, NEW a \in DOMAIN rec.acts, NEW t \in Unseen(a)
  PROVE  \E u \in Recovered(a) : rec.seen[u].sha = rec.seen[t].sha
<1> DEFINE S == {u \in Unseen(a) : rec.seen[u].sha = rec.seen[t].sha}
<1>1. S \subseteq Nat /\ S # {}
  BY RemoteAssumption DEF TypeOK, ReconcilerTypeOK, Unseen
<1>2. PICK u \in S : \A v \in S : u <= v
  <2> HIDE DEF S
  <2> QED BY <1>1, FirstOfSet
<1>3. u \in Recovered(a)
  BY <1>2 DEF Recovered
<1> QED BY <1>2, <1>3

LEMMA BacklogIsHeadKept ==
  ASSUME ~EditsInCycle, TypeOK, BacklogInv, [Next]_vars
  PROVE  BacklogIsHead'
<1> SUFFICES ASSUME NEW a \in Actions, NEW h \in backlog'[a]
             PROVE  h[1] \in actions'[a].follows /\ tip'[h[1]].open /\ tip'[h[1]].sha = h[2]
  BY DEF BacklogIsHead
<1>1. CASE StaysIn(a, h)
  BY <1>1 DEF StaysIn, GoesOn, IsDeleted, Observed, BacklogInv, BacklogIsHead
<1>2. CASE Joins(a, h)
  BY <1>2 DEF Joins, Heads
<1> QED BY <1>1, <1>2, BacklogEvolves

LEMMA BacklogSeenKept ==
  ASSUME ~EditsInCycle, TypeOK, IInv, BacklogInv, [Next]_vars
  PROVE  BacklogSeen'
<1> SUFFICES ASSUME NEW a \in Actions, NEW h \in backlog'[a],
                    actions'[a].exists, actions'[a].baseline,
                    h[1] \in Forks => actions'[a].forks
             PROVE  \E k \in DOMAIN events'[a] : k.sha = h[2]
  BY DEF BacklogSeen, OptedIn, HasEventForHead
<1>1. ~Joins(a, h)
  BY ObservingRaises DEF Joins, IsReobserved, TypeOK, StoreTypeOK
<1>2. h \in backlog[a] /\ GoesOn(a)
  BY <1>1, BacklogEvolves DEF StaysIn, IsDeleted
<1>3. actions[a].exists /\ OptedIn(a, h[1]) /\ h[1] \in actions[a].follows
  BY <1>2 DEF GoesOn, Observed, OptedIn, BacklogInv, BacklogIsHead
<1>4. CASE HasEventForHead(events[a], h[2])
  BY <1>4, RowsStay DEF HasEventForHead
<1>5. CASE ~HasEventForHead(events[a], h[2])
  <2>1. Record /\ a \in DOMAIN rec.acts
    BY <1>2, <1>3, <1>5 DEF GoesOn, BacklogInv, BacklogSeen
  <2>2. IsListed(h) /\ rec.acts[a].follows = actions[a].follows /\ rec.acts[a].forks = actions[a].forks
    BY <1>2, <2>1 DEF Record, BacklogInv, BacklogListed, CycleExact, Recording
  <2>3. h[1] \in Unseen(a) /\ rec.seen[h[1]].sha = h[2]
    BY <1>3, <1>5, <2>2 DEF Unseen, IsListed, OptedIn
  <2>4. PICK u \in Recovered(a) : rec.seen[u].sha = h[2]
    BY <2>1, <2>3, UnseenIsRecovered
  <2>5. RecoveredKey(a, u) \in DOMAIN events'[a]
    BY <2>1 DEF Record, Reconciled, RecoveredKeys
  <2>6. RecoveredKey(a, u).sha = h[2]
    BY <2>4 DEF RecoveredKey
  <2> QED BY <2>5, <2>6
<1> QED BY <1>4, <1>5

LEMMA BacklogNotQueuedKept ==
  ASSUME ~EditsInCycle, TypeOK, TypeOK', IInv, ScopeInv, BacklogInv, [Next]_vars
  PROVE  BacklogNotQueued'
<1> SUFFICES ASSUME NEW a \in Actions, NEW k \in DOMAIN events'[a],
                    events'[a][k].origin = "reconciliation",
                    k.revision = actions'[a].revision,
                    <<k.target, k.sha>> \in backlog'[a],
                    events'[a][k].status \in {"queued", "dispatching"}
             PROVE  FALSE
  BY DEF BacklogNotQueued
<1> DEFINE h == <<k.target, k.sha>>
<1>1. actions[a] \in Action /\ actions[a].revision \in Nat
  BY StoreAssumption, SMTT(30) DEF TypeOK, StoreTypeOK, Action
<1>2. ~Joins(a, h)
  <2>1. SUFFICES ASSUME Joins(a, h) PROVE FALSE
    OBVIOUS
  <2>2. k \in DOMAIN events[a] /\ k.revision = actions[a].revision + 1
    BY <1>1, <2>1, ObservingRaises DEF Joins, IsReobserved
  <2> QED BY <1>1, <2>2 DEF ScopeInv, RowsInScope
<1>3. h \in backlog[a] /\ k.revision = actions[a].revision /\ h[1] = k.target /\ h[2] = k.sha
  BY <1>2, BacklogEvolves DEF StaysIn, GoesOn, IsDeleted, Observed
<1>4. CASE k \in DOMAIN events[a]
  <2>1. events[a][k].origin = "reconciliation"
    BY <1>4, RowsEvolve DEF Kept
  <2> QED BY <1>3, <1>4, <2>1, PendingEvolves DEF BacklogInv, BacklogNotQueued
<1>5. CASE k \notin DOMAIN events[a]
  <2>1. RecoveredNow(a, k)
    BY <1>5, RowsEvolve DEF Recorded
  <2>2. a \in DOMAIN rec.acts /\ rec.acts[a].baseline /\ rec.stage \in Recording
    BY <2>1 DEF RecoveredNow, FirstRun, Recording
  <2>3. /\ actions[a].exists /\ actions[a].baseline
        /\ rec.acts[a].forks = actions[a].forks
    BY <2>2 DEF BacklogInv, CycleExact
  <2>4. PICK t \in Recovered(a) : k = RecoveredKey(a, t)
    BY <2>1 DEF RecoveredNow, RecoveredKeys
  <2>5. t = k.target /\ rec.seen[t].sha = k.sha
    BY <2>4 DEF RecoveredKey
  <2>6. OptedIn(a, h[1]) /\ ~HasEventForHead(events[a], h[2])
    BY <1>3, <2>3, <2>4, <2>5 DEF Recovered, Unseen, OptedIn
  <2> QED BY <1>3, <2>3, <2>6 DEF BacklogInv, BacklogSeen
<1> QED BY <1>4, <1>5

LEMMA BacklogNotInFlightKept ==
  ASSUME ~EditsInCycle, TypeOK, IInv, ScopeInv, BacklogInv, [Next]_vars
  PROVE  BacklogNotInFlight'
<1> SUFFICES ASSUME NEW r \in InFlight',
                    disp'[r].event.origin = "reconciliation",
                    disp'[r].action.revision = actions'[r[1]].revision,
                    <<r[2].target, r[2].sha>> \in backlog'[r[1]]
             PROVE  FALSE
  BY DEF BacklogNotInFlight
<1> DEFINE a == r[1]
           h == <<r[2].target, r[2].sha>>
<1>1. a \in Actions
  BY FlightsEvolve DEF TypeOK, DispatchTypeOK
<1>2. actions[a] \in Action /\ actions[a].revision \in Nat
  <2>1. actions[a] \in Action
    BY <1>1 DEF TypeOK, StoreTypeOK
  <2> QED BY <2>1, StoreAssumption DEF Action
<1>3. ~Joins(a, h)
  <2>1. SUFFICES ASSUME Joins(a, h) PROVE FALSE
    OBVIOUS
  <2>2. r \in InFlight /\ disp[r].action.revision = actions[a].revision + 1
    BY <1>1, <1>2, <2>1, ObservingRaises DEF Joins, IsReobserved, InFlight
  <2> QED BY <1>2, <2>2 DEF ScopeInv, FlightsInScope, SameView
<1>4. h \in backlog[a] /\ actions'[a].revision = actions[a].revision
  BY <1>1, <1>3, BacklogEvolves DEF StaysIn, GoesOn, IsDeleted, Observed
<1>5. CASE /\ r \in InFlight
           /\ disp'[r].action = disp[r].action /\ disp'[r].event = disp[r].event
  BY <1>4, <1>5 DEF BacklogInv, BacklogNotInFlight
<1>6. CASE /\ r \in Actions \X EventKey /\ HasRow(r) /\ StatusOf(r) = "queued"
           /\ ~RefusedAtOnce(r)
           /\ disp'[r].action = actions[r[1]]
           /\ disp'[r].event.origin = Row(r).origin
  BY <1>4, <1>6 DEF BacklogInv, BacklogNotQueued, HasRow, StatusOf, Row, RefusedAtOnce
<1> QED BY <1>5, <1>6, FlightsEvolve

LEMMA BacklogAtStart ==
  ASSUME Init
  PROVE  BacklogInv
<1>1. /\ actions = InitialActions
      /\ \A a \in Actions : events[a] = Baseline(InitialActions[a])
      /\ \A a \in Actions :
           backlog[a] = IF InitialActions[a].baseline THEN {} ELSE Heads(InitialActions[a].follows)
      /\ InFlight = {} /\ DOMAIN rec.acts = {}
  BY DEF Init, StoreInit, DispatchInit, ReconcilerInit, Idle, InFlight
<1>2. \A a \in Actions : actions[a].baseline => backlog[a] = {}
  BY <1>1
<1>3. \A a \in Actions : ~actions[a].baseline => DOMAIN events[a] = {}
  BY <1>1 DEF Baseline, NoEvents
<1>4. BacklogIsHead
  <2> SUFFICES ASSUME NEW a \in Actions, NEW h \in backlog[a]
               PROVE  h[1] \in actions[a].follows /\ tip[h[1]].open /\ tip[h[1]].sha = h[2]
    BY DEF BacklogIsHead
  <2>1. h \in Heads(actions[a].follows)
    BY <1>1
  <2>2. PICK t \in actions[a].follows : tip[t].open /\ h = <<t, tip[t].sha>>
    BY <2>1 DEF Heads
  <2> QED BY <2>2
<1> QED BY <1>1, <1>2, <1>3, <1>4
        DEF BacklogInv, BacklogSeen, BacklogNotQueued, BacklogNotInFlight, CycleExact, BacklogListed

LEMMA BacklogInvariant == ASSUME ~EditsInCycle PROVE Spec => []BacklogInv
<1>1. Init => BacklogInv
  BY BacklogAtStart
<1>2. TypeOK /\ TypeOK' /\ IInv /\ ScopeInv /\ EnabledExist /\ BacklogInv /\ [Next]_vars
        => BacklogInv'
  <2> SUFFICES ASSUME TypeOK, TypeOK', IInv, ScopeInv, EnabledExist, BacklogInv, [Next]_vars
               PROVE  BacklogInv'
    OBVIOUS
  <2>1. CycleExact'
    BY CycleExactKept DEF BacklogInv
  <2> QED BY <2>1, BacklogIsHeadKept, BacklogSeenKept, BacklogNotQueuedKept,
             BacklogNotInFlightKept, BacklogListedKept DEF BacklogInv
<1> QED BY <1>1, <1>2, TypeCorrect, Invariant, ScopeInvariant, EnabledExistKept, PTL DEF Spec

\* If the operator edits only between cycles, no gate the reconciliation asked for is
\* of a head that was already there when the action began to observe what it
\* observes: not after an edit, a second edit, a failed listing or a restart.
THEOREM BacklogIsFree == ASSUME ~EditsInCycle PROVE Spec => BacklogNotCharged
<1>1. ASSUME TypeOK, IInv, BacklogInv, [Next]_vars, NEW g \in NewGates,
             GateMade(g).origin = "reconciliation"
      PROVE  <<GateMade(g).key.target, GateMade(g).key.sha>> \notin backlog[g[1]]
  <2>1. PICK r \in InFlight : /\ GateCreated(r) /\ g[1] = r[1] /\ r[1] \in Actions
                              /\ GateMade(g).key = r[2]
                              /\ GateMade(g).origin = disp[r].event.origin
    BY <1>1, NewGateOf
  <2>2. disp[r].action.revision = actions[r[1]].revision
    BY <2>1 DEF GateCreated, StillCurrent
  <2> QED BY <1>1, <2>1, <2>2 DEF BacklogInv, BacklogNotInFlight
<1>2. TypeOK /\ IInv /\ BacklogInv /\ [Next]_vars =>
        [\A g \in NewGates :
           GateMade(g).origin = "reconciliation" =>
             <<GateMade(g).key.target, GateMade(g).key.sha>> \notin backlog[g[1]]]_vars
  BY <1>1
<1> QED BY <1>2, TypeCorrect, Invariant, BacklogInvariant, PTL DEF Spec, BacklogNotCharged

-----------------------------------------------------------------------------
(* Why a day is never overspent.  The reservation adds the ceiling of the   *)
(* action to the ceilings already recorded under the day, and a reservation *)
(* is only given back before anything was launched on it: so the gates of a *)
(* day are paid for, one to one, by rows that are still reserved under it.  *)
(* An edit of the ceiling breaks the tie between what a row reserved and    *)
(* what its gate may cost (RaisedCost), and is excluded.                    *)

CostsAsCreated ==
  /\ \A a \in Actions : /\ actions[a].cost = InitialActions[a].cost
                        /\ actions[a].daily = InitialActions[a].daily
  /\ \A a \in DOMAIN rec.acts : rec.acts[a].cost = InitialActions[a].cost
  /\ \A r \in InFlight : disp[r].action.cost = InitialActions[r[1]].cost
  /\ \A a \in Actions : \A k \in DOMAIN events[a] :
       events[a][k].cost = InitialActions[a].cost

\* A dispatch in flight knows the moment of the reservation of its row.
FlightIsDated ==
  \A r \in InFlight :
    /\ disp[r].event.dispatched # Null
    /\ HasRow(r) => Row(r).dispatched = disp[r].event.dispatched

\* A gate is of the day its row is reserved under, and costs what the row reserved.
GateIsPaid ==
  \A a \in Actions : \A n \in DOMAIN gates[a] :
    actions[a].exists =>
      LET e == events[a][gates[a][n].key]
      IN /\ e.dispatched # Null /\ Day(e.dispatched) = gates[a][n].day
         /\ gates[a][n].cost = e.cost

WithinACap(sum) == sum > 0 => \E a \in Actions : sum <= DailyCap(a)

DaysReserved ==
  \A day \in 0..Day(MaxTime) :
    IsFiniteSet(ReservedUnits(day)) /\ WithinACap(Cardinality(ReservedUnits(day)))

SpendInv == CostsAsCreated /\ FlightIsDated /\ GateIsPaid /\ DaysReserved

\* Nobody edits a ceiling.
LEMMA ActionKeepsCost ==
  ASSUME "cost" \notin Edits, TypeOK, [Next]_vars, NEW a \in Actions
  PROVE  actions'[a].cost = actions[a].cost /\ actions'[a].daily = actions[a].daily
<1>1. actions \in [Actions -> Action] /\ actions[a] \in Action
  BY DEF TypeOK, StoreTypeOK
<1>2. CASE UNCHANGED actions \/ actions' = AllDisabled
  BY <1>1, <1>2 DEF AllDisabled, Action
<1>3. CASE Record
  BY <1>1, <1>3 DEF Record, BaselineFilled, Action
<1>4. CASE OperatorStep
  <2>1. PICK b \in Actions :
          \/ Edited(b)
          \/ \E follows \in FollowChoices, forks \in BOOLEAN : Reobserved(b, follows, forks)
    BY <1>4 DEF OperatorStep
  <2>2. CASE PatchEnabled(b)
    BY <1>1, <2>2 DEF PatchEnabled, Action
  <2>3. CASE DeleteAction(b)
    BY <1>1, <2>3 DEF DeleteAction, Action
  <2>4. ASSUME NEW follows, NEW forks, PatchObserved(b, follows, forks)
        PROVE  actions'[a].cost = actions[a].cost /\ actions'[a].daily = actions[a].daily
    <3>1. actions' = [actions EXCEPT ![b] = Observing(@, follows, forks)]
      BY <2>4 DEF PatchObserved
    <3>2. /\ Observing(actions[b], follows, forks).cost = actions[b].cost
          /\ Observing(actions[b], follows, forks).daily = actions[b].daily
      BY <1>1 DEF Observing, Action
    <3> QED BY <1>1, <3>1, <3>2
  <2> QED BY <2>1, <2>2, <2>3, <2>4 DEF Edited, PatchCost, Reobserved
<1> QED BY <1>2, <1>3, <1>4, ActionsKind

\* A row that holds a reservation held the same one before, or is reserved now.
LEMMA BookedEvolves ==
  ASSUME TypeOK, IInv, [Next]_vars, NEW a \in Actions, NEW k \in DOMAIN events'[a],
         Booked(events'[a][k])
  PROVE  /\ k \in DOMAIN events[a]
         /\ \/ /\ Booked(events[a][k])
               /\ events'[a][k].dispatched = events[a][k].dispatched
            \/ /\ Begins(<<a, k>>) /\ <<a, k>> \in Actions \X EventKey
               /\ events'[a][k].dispatched = now
<1> DEFINE Goal == /\ k \in DOMAIN events[a]
                   /\ \/ /\ Booked(events[a][k])
                         /\ events'[a][k].dispatched = events[a][k].dispatched
                      \/ /\ Begins(<<a, k>>) /\ <<a, k>> \in Actions \X EventKey
                         /\ events'[a][k].dispatched = now
<1>1. CASE QuietStep
  <2>1. QuietTable(a)
    BY <1>1 DEF QuietStep
  <2>2. k \in DOMAIN events[a]
    BY <2>1 DEF QuietTable, Fresh, Booked
  <2> QED BY <2>1, <2>2 DEF QuietTable, QuietRow, Booked
<1>2. CASE \E r \in Actions \X EventKey : Begins(r)
  <2> PICK r \in Actions \X EventKey : Begins(r)
    BY <1>2
  <2>1. k \in DOMAIN events[a]
        /\ IF <<a, k>> = r THEN events'[a][k] = ReservedEvent(Row(r))
           ELSE events'[a][k] = events[a][k]
    BY PatchedRows DEF Begins, TypeOK, StoreTypeOK
  <2>2. CASE <<a, k>> = r
    <3>1. Row(r) \in Event
      BY DEF Begins, Row, HasRow, TypeOK, StoreTypeOK, IsTable
    <3>2. ReservedEvent(Row(r)).dispatched = now
      BY <3>1 DEF ReservedEvent, Event
    <3> QED BY <2>1, <2>2, <3>2
  <2>3. CASE <<a, k>> # r
    BY <2>1, <2>3
  <2> QED BY <2>2, <2>3
<1>3. CASE \E r \in InFlight : \E e : EndsWith(r, e)
  <2> PICK r \in InFlight : \E e : EndsWith(r, e)
    BY <1>3
  <2> PICK e : EndsWith(r, e)
    OBVIOUS
  <2>1. r \in Actions \X EventKey
    BY DEF TypeOK, DispatchTypeOK
  <2>2. k \in DOMAIN events[a]
        /\ IF <<a, k>> = r THEN events'[a][k] = e ELSE events'[a][k] = events[a][k]
    BY <2>1, PatchedRows DEF EndsWith, TypeOK, StoreTypeOK
  <2>3. CASE <<a, k>> = r
    <3>1. HasRow(r) /\ Row(r) = events[a][k]
      BY <2>2, <2>3 DEF HasRow, Row
    <3>2. events[a][k].status = "dispatching"
      BY <3>1 DEF IInv, FlightOwnsItsRow, StatusOf
    <3> QED BY <2>2, <2>3, <3>1, <3>2 DEF EndsWith, Booked
  <2>4. CASE <<a, k>> # r
    BY <2>2, <2>4
  <2> QED BY <2>3, <2>4
<1>4. CASE \E r \in InFlight : PreviewAnswers(r) \/ GateCreated(r) \/ OutcomeUnwritten(r)
  BY <1>4 DEF PreviewAnswers, GateCreated, OutcomeUnwritten, storeVars
<1>5. CASE \E b \in Actions : Deletes(b)
  BY <1>5 DEF Deletes, DeleteAction, NoEvents, TypeOK, StoreTypeOK
<1>6. CASE Restart
  BY <1>6 DEF Restart, DispatchRestart, OrphansFailed, TypeOK, StoreTypeOK, IsTable, Event, Booked
<1> QED BY <1>1, <1>2, <1>3, <1>4, <1>5, <1>6, StepKind

LEMMA CostsKept ==
  ASSUME "cost" \notin Edits, TypeOK, TypeOK', IInv, CostsAsCreated, [Next]_vars
  PROVE  CostsAsCreated'
<1>1. \A a \in Actions : /\ actions'[a].cost = InitialActions[a].cost
                         /\ actions'[a].daily = InitialActions[a].daily
  BY ActionKeepsCost DEF CostsAsCreated
<1>2. \A a \in DOMAIN rec'.acts : rec'.acts[a].cost = InitialActions[a].cost
  BY CycleEvolves DEF CostsAsCreated, TypeOK
<1>3. \A r \in InFlight' : disp'[r].action.cost = InitialActions[r[1]].cost
  BY FlightsEvolve DEF CostsAsCreated
<1>4. ASSUME NEW a \in Actions, NEW k \in DOMAIN events'[a]
      PROVE  events'[a][k].cost = InitialActions[a].cost
  BY RowsEvolve DEF Kept, Recorded, RecoveredNow, CostsAsCreated
<1> QED BY <1>1, <1>2, <1>3, <1>4 DEF CostsAsCreated

LEMMA FlightStaysDated ==
  ASSUME TypeOK, IInv, IInv', FlightIsDated, [Next]_vars
  PROVE  FlightIsDated'
<1> SUFFICES ASSUME NEW r \in InFlight'
             PROVE  /\ disp'[r].event.dispatched # Null
                    /\ HasRow(r)' => Row(r)'.dispatched = disp'[r].event.dispatched
  BY DEF FlightIsDated
<1> DEFINE a == r[1]
           k == r[2]
<1>1. now \in Nat /\ now # Null
  BY DEF TypeOK, RemoteTypeOK, Null
<1>2. HasRow(r)' => Booked(events'[a][k])
  BY DEF IInv, FlightOwnsItsRow, StatusOf, Row, Booked
<1>3. CASE r \in InFlight /\ disp'[r].event = disp[r].event
  <2>1. a \in Actions /\ r = <<a, k>>
    BY <1>3 DEF TypeOK, DispatchTypeOK
  <2>2. ASSUME HasRow(r)' PROVE events'[a][k].dispatched = disp[r].event.dispatched
    <3>1. /\ k \in DOMAIN events[a]
          /\ \/ events'[a][k].dispatched = events[a][k].dispatched
             \/ Begins(<<a, k>>)
      BY <1>2, <2>1, <2>2, BookedEvolves DEF HasRow
    <3>2. ~Begins(<<a, k>>)
      BY <1>3, <2>1 DEF Begins, IInv, FlightOwnsItsRow
    <3> QED BY <1>3, <3>1, <3>2 DEF FlightIsDated, HasRow, Row
  <2> QED BY <1>3, <2>2 DEF FlightIsDated, Row
<1>4. CASE /\ r \in Actions \X EventKey /\ Begins(r)
           /\ disp'[r].event.dispatched = now
  <2>1. a \in Actions /\ r = <<a, k>>
    BY <1>4
  <2>2. ASSUME HasRow(r)' PROVE events'[a][k].dispatched = now
    <3>1. \/ Booked(events[a][k])
          \/ events'[a][k].dispatched = now
      BY <1>2, <2>1, <2>2, BookedEvolves DEF HasRow
    <3>2. ~Booked(events[a][k])
      BY <1>4 DEF Begins, StatusOf, Row, Booked
    <3> QED BY <3>1, <3>2
  <2> QED BY <1>1, <1>4, <2>2 DEF Row
<1> QED BY <1>3, <1>4, FlightsEvolve

\* A gate that exists is never rewritten.
LEMMA GatesStay ==
  ASSUME TypeOK, [Next]_vars, IInv, NEW a \in Actions, NEW n \in DOMAIN gates[a]
  PROVE  gates'[a][n] = gates[a][n]
<1>1. CASE gates' = gates
  BY <1>1
<1>2. CASE \E r \in InFlight : GateCreated(r)
  <2> PICK r \in InFlight : GateCreated(r)
    BY <1>2
  <2>1. gates \in [Actions -> Seq(Gate)] /\ r[1] \in Actions
    BY DEF TypeOK, DispatchTypeOK
  <2>2. PICK gate : gates' = [gates EXCEPT ![r[1]] = Append(@, gate)]
    BY DEF GateCreated
  <2>3. CASE a = r[1]
    <3>1. gates'[a] = Append(gates[a], gate) /\ gates[a] \in Seq(Gate)
      BY <2>1, <2>2, <2>3
    <3>2. n \in 1..Len(gates[a])
      BY <3>1, LenProperties
    <3> QED BY <3>1, <3>2
  <2> QED BY <2>1, <2>2, <2>3
<1> QED BY <1>1, <1>2, StepKind DEF QuietStep, Begins, EndsWith, PreviewAnswers,
                                    OutcomeUnwritten, Deletes, Restart, DispatchRestart

\* A gate that is created is paid by the reservation its dispatch made; a gate that
\* was there keeps its row, and with it the reservation.
LEMMA GateIsPaidKept ==
  ASSUME TypeOK, IInv, IInv', CostsAsCreated, CostsAsCreated', FlightIsDated, GateIsPaid,
         [Next]_vars
  PROVE  GateIsPaid'
<1> SUFFICES ASSUME NEW a \in Actions, NEW n \in DOMAIN gates'[a], actions'[a].exists
             PROVE  LET e == events'[a][gates'[a][n].key]
                    IN /\ e.dispatched # Null /\ Day(e.dispatched) = gates'[a][n].day
                       /\ gates'[a][n].cost = e.cost
  BY DEF GateIsPaid
<1> DEFINE k == gates'[a][n].key
<1>1. k \in DOMAIN events'[a] /\ Booked(events'[a][k])
  BY DEF IInv, GateKeptByRow, Booked
<1>2. events'[a][k].cost = InitialActions[a].cost
  BY <1>1 DEF CostsAsCreated
<1>3. /\ k \in DOMAIN events[a]
      /\ \/ events'[a][k].dispatched = events[a][k].dispatched
         \/ Begins(<<a, k>>)
  BY <1>1, BookedEvolves
<1>4. actions[a].exists
  BY <1>3 DEF IInv, DeletedIsEmpty
<1>5. CASE n \in DOMAIN gates[a]
  <2>1. gates'[a][n] = gates[a][n]
    BY <1>5, GatesStay
  <2>2. Booked(events[a][k])
    BY <1>4, <1>5, <2>1 DEF IInv, GateKeptByRow, Booked
  <2>3. events'[a][k].dispatched = events[a][k].dispatched
    BY <1>3, <2>2 DEF Begins, StatusOf, Row, Booked
  <2>4. /\ events[a][k].dispatched # Null /\ Day(events[a][k].dispatched) = gates[a][n].day
        /\ gates[a][n].cost = events[a][k].cost
    BY <1>4, <1>5, <2>1 DEF GateIsPaid
  <2>5. events[a][k].cost = InitialActions[a].cost
    BY <1>3 DEF CostsAsCreated
  <2> HIDE DEF k
  <2>6. /\ events'[a][k].dispatched # Null /\ Day(events'[a][k].dispatched) = gates'[a][n].day
        /\ gates'[a][n].cost = events'[a][k].cost
    BY <1>2, <2>1, <2>3, <2>4, <2>5
  <2> QED BY <2>6 DEF k
<1>6. CASE n \notin DOMAIN gates[a]
  <2> DEFINE g == <<a, n>>
  <2>1. g \in NewGates
    BY <1>6 DEF NewGates
  <2> HIDE DEF g
  <2>2. PICK r \in InFlight : /\ GateCreated(r) /\ g[1] = r[1] /\ r[1] \in Actions
                              /\ GateMade(g).key = r[2]
                              /\ GateMade(g).cost = disp[r].action.cost
                              /\ GateMade(g).day = Day(disp[r].event.dispatched)
    BY <2>1, NewGateOf
  <2>3. GateMade(g) = gates'[a][n] /\ g[1] = a
    BY DEF GateMade, g
  <2>4. r[1] = a /\ r[2] = k /\ events' = events
    BY <2>2, <2>3 DEF GateCreated, storeVars
  <2>5. HasRow(r) /\ Row(r) = events'[a][k]
    BY <1>3, <2>4 DEF HasRow, Row
  <2>6. events'[a][k].dispatched = disp[r].event.dispatched /\ disp[r].event.dispatched # Null
    BY <2>5 DEF FlightIsDated
  <2>7. disp[r].action.cost = InitialActions[a].cost
    BY <2>4 DEF CostsAsCreated
  <2> HIDE DEF k
  <2>8. /\ events'[a][k].dispatched # Null /\ Day(events'[a][k].dispatched) = gates'[a][n].day
        /\ gates'[a][n].cost = events'[a][k].cost
    BY <1>2, <2>2, <2>3, <2>6, <2>7
  <2> QED BY <2>8 DEF k
<1> QED BY <1>5, <1>6

-----------------------------------------------------------------------------
(* The sum of a day.                                                        *)

ReservedUnder(a, k, day) ==
  LET e == events[a][k] IN Booked(e) /\ e.dispatched # Null /\ Day(e.dispatched) = day

LEMMA UnitsOf ==
  ASSUME NEW day, NEW x
  PROVE  x \in ReservedUnits(day) <=>
           \E a \in Actions : \E k \in DOMAIN events[a] : \E i \in 1..events[a][k].cost :
             ReservedUnder(a, k, day) /\ x = <<<<a, k>>, i>>
<1>1. ASSUME NEW r PROVE r \in Rows <=> \E a \in Actions : \E k \in DOMAIN events[a] : r = <<a, k>>
  BY DEF Rows
<1>2. ASSUME NEW a \in Actions, NEW k \in DOMAIN events[a]
      PROVE  <<a, k>> \in ReservedRows(day) <=> ReservedUnder(a, k, day)
  BY <1>1 DEF ReservedRows, ReservedUnder, Row
<1>3. ASSUME NEW r \in ReservedRows(day)
      PROVE  \E a \in Actions : \E k \in DOMAIN events[a] : r = <<a, k>>
  BY <1>1 DEF ReservedRows
<1>4. x \in ReservedUnits(day) <=>
        \E r \in ReservedRows(day) : \E i \in 1..Row(r).cost : x = <<r, i>>
  BY DEF ReservedUnits
<1>5. \A a, k : Row(<<a, k>>) = events[a][k]
  BY DEF Row
<1> QED BY <1>2, <1>3, <1>4, <1>5

LEMMA UnitsOfNext ==
  ASSUME NEW day, NEW x
  PROVE  x \in ReservedUnits(day)' <=>
           \E a \in Actions : \E k \in DOMAIN events'[a] : \E i \in 1..events'[a][k].cost :
             ReservedUnder(a, k, day)' /\ x = <<<<a, k>>, i>>
<1>1. ASSUME NEW r PROVE r \in Rows' <=> \E a \in Actions : \E k \in DOMAIN events'[a] : r = <<a, k>>
  BY DEF Rows
<1>2. ASSUME NEW a \in Actions, NEW k \in DOMAIN events'[a]
      PROVE  <<a, k>> \in ReservedRows(day)' <=> ReservedUnder(a, k, day)'
  BY <1>1 DEF ReservedRows, ReservedUnder, Row
<1>3. ASSUME NEW r \in ReservedRows(day)'
      PROVE  \E a \in Actions : \E k \in DOMAIN events'[a] : r = <<a, k>>
  BY <1>1 DEF ReservedRows
<1>4. x \in ReservedUnits(day)' <=>
        \E r \in ReservedRows(day)' : \E i \in 1..Row(r)'.cost : x = <<r, i>>
  BY DEF ReservedUnits
<1>5. \A a, k : Row(<<a, k>>)' = events'[a][k]
  BY DEF Row
<1> QED BY <1>2, <1>3, <1>4, <1>5

LEMMA UnitsOfOne ==
  ASSUME NEW r, NEW cost \in Nat
  PROVE  IsFiniteSet({r} \X (1..cost)) /\ Cardinality({r} \X (1..cost)) = cost
<1>1. IsFiniteSet(1..cost) /\ Cardinality(1..cost) = IF 1 > cost THEN 0 ELSE cost - 1 + 1
  BY FS_Interval
<1>2. Cardinality(1..cost) = cost
  BY <1>1
<1>3. IsFiniteSet({r}) /\ Cardinality({r}) = 1
  BY FS_Singleton
<1> DEFINE T == 1..cost
           S == {r}
<1> HIDE DEF T, S
<1>4. IsFiniteSet(S \X T) /\ Cardinality(S \X T) = Cardinality(S) * Cardinality(T)
  BY <1>1, <1>3, FS_Product DEF T, S
<1> QED BY <1>2, <1>3, <1>4 DEF T, S

\* Only a reservation adds to a day, its ceiling to the current one, where it was
\* seen to fit.
LEMMA DaysReservedKept ==
  ASSUME "cost" \notin Edits, TypeOK, TypeOK', IInv, CostsAsCreated, CostsAsCreated',
         DaysReserved, [Next]_vars
  PROVE  DaysReserved'
<1> SUFFICES ASSUME NEW day \in 0..Day(MaxTime)
             PROVE  /\ IsFiniteSet(ReservedUnits(day))'
                    /\ WithinACap(Cardinality(ReservedUnits(day)))'
  BY DEF DaysReserved
<1> DEFINE U == ReservedUnits(day)
           V == ReservedUnits(day)'
<1>1. IsFiniteSet(U) /\ WithinACap(Cardinality(U)) /\ Cardinality(U) \in Nat
  BY FS_CardinalityType DEF DaysReserved
<1>2. \A a \in Actions : DailyCap(a)' = DailyCap(a) /\ DailyCap(a) \in Nat
  BY ActionKeepsCost DEF DailyCap, TypeOK, StoreTypeOK, Action
<1>3. ASSUME NEW x \in V
      PROVE  \/ x \in U
             \/ \E a \in Actions : \E k \in EventKey : \E i \in 1..actions[a].cost :
                  /\ Begins(<<a, k>>) /\ day = Day(now) /\ x = <<<<a, k>>, i>>
  <2> PICK a \in Actions : \E k \in DOMAIN events'[a] : \E i \in 1..events'[a][k].cost :
             ReservedUnder(a, k, day)' /\ x = <<<<a, k>>, i>>
    BY UnitsOfNext
  <2> PICK k \in DOMAIN events'[a] : \E i \in 1..events'[a][k].cost :
             ReservedUnder(a, k, day)' /\ x = <<<<a, k>>, i>>
    OBVIOUS
  <2>1. PICK i \in 1..events'[a][k].cost : ReservedUnder(a, k, day)' /\ x = <<<<a, k>>, i>>
    OBVIOUS
  <2>2. Booked(events'[a][k]) /\ events'[a][k].dispatched # Null /\ Day(events'[a][k].dispatched) = day
    BY <2>1 DEF ReservedUnder, Booked, Day
  <2>3. k \in DOMAIN events[a]
    BY <2>2, BookedEvolves
  <2>4. events'[a][k].cost = events[a][k].cost /\ events[a][k].cost = actions[a].cost
    BY <2>3 DEF CostsAsCreated
  <2>5. CASE Booked(events[a][k]) /\ events'[a][k].dispatched = events[a][k].dispatched
    <3>1. ReservedUnder(a, k, day)
      BY <2>2, <2>5 DEF ReservedUnder
    <3> QED BY <2>1, <2>3, <2>4, <3>1, UnitsOf
  <2>6. CASE Begins(<<a, k>>) /\ <<a, k>> \in Actions \X EventKey /\ events'[a][k].dispatched = now
    BY <2>1, <2>2, <2>4, <2>6
  <2> QED BY <2>2, <2>5, <2>6, BookedEvolves
<1>4. CASE V \subseteq U
  <2>1. IsFiniteSet(V) /\ Cardinality(V) <= Cardinality(U) /\ Cardinality(V) \in Nat
    BY <1>1, <1>4, FS_Subset, FS_CardinalityType
  <2> HIDE DEF U, V
  <2> QED BY <1>1, <1>2, <2>1 DEF WithinACap, V
<1>5. CASE ~(V \subseteq U)
  <2>0. ASSUME NEW r, Begins(r) PROVE InFlight' = InFlight \cup {r} /\ r \notin InFlight
    BY <2>0 DEF Begins, Begun, InFlight, IInv, FlightOwnsItsRow
  <2>1. PICK a \in Actions, k \in EventKey : Begins(<<a, k>>) /\ day = Day(now)
    BY <1>3, <1>5
  <2> DEFINE New == {<<a, k>>} \X (1..actions[a].cost)
  <2>2. V \subseteq U \cup New
    <3> SUFFICES ASSUME NEW x \in V, x \notin U PROVE x \in New
      OBVIOUS
    <3> PICK b \in Actions : \E j \in EventKey : \E i \in 1..actions[b].cost :
               Begins(<<b, j>>) /\ x = <<<<b, j>>, i>>
      BY <1>3, ZenonT(60)
    <3>1. PICK j \in EventKey : \E i \in 1..actions[b].cost :
                 Begins(<<b, j>>) /\ x = <<<<b, j>>, i>>
      OBVIOUS
    <3>2. /\ InFlight' = InFlight \cup {<<a, k>>} /\ InFlight' = InFlight \cup {<<b, j>>}
          /\ <<a, k>> \notin InFlight /\ <<b, j>> \notin InFlight
      BY <2>0, <2>1, <3>1
    <3>3. a = b /\ k = j
      BY <3>2
    <3> QED BY <3>1, <3>3
  <2>3. actions[a].cost \in Nat
    BY DEF TypeOK, StoreTypeOK, Action
  <2>4. IsFiniteSet(New) /\ Cardinality(New) = actions[a].cost
    BY <2>3, UnitsOfOne
  <2>5. Cardinality(U) + actions[a].cost <= DailyCap(a)
    BY <2>1 DEF Begins, CanReserve, ReservedOn
  <2> HIDE DEF U, V, New
  <2>6. /\ IsFiniteSet(U \cup New) /\ Cardinality(U \cap New) \in Nat
        /\ Cardinality(U \cup New) = Cardinality(U) + Cardinality(New) - Cardinality(U \cap New)
    <3>1. U \cap New \in SUBSET New
      OBVIOUS
    <3> QED BY <1>1, <2>4, <3>1, FS_Union, FS_Subset, FS_CardinalityType
  <2>7. IsFiniteSet(V) /\ Cardinality(V) <= Cardinality(U \cup New) /\ Cardinality(V) \in Nat
        /\ Cardinality(U \cup New) \in Nat
    BY <2>2, <2>6, FS_Subset, FS_CardinalityType
  <2>8. Cardinality(V) <= DailyCap(a)
    BY <1>1, <1>2, <2>3, <2>4, <2>5, <2>6, <2>7
  <2> QED BY <1>2, <2>7, <2>8 DEF WithinACap, V
<1> QED BY <1>4, <1>5

LEMMA SpendAtStart ==
  ASSUME Init
  PROVE  SpendInv
<1>1. actions = InitialActions /\ InFlight = {} /\ rec.acts = NoEvents
  BY DEF Init, StoreInit, DispatchInit, InFlight, ReconcilerInit, Idle, NoEvents
<1>2. \A a \in Actions : DOMAIN gates[a] = {}
  BY DEF Init, DispatchInit
<1>3. ASSUME NEW a \in Actions, NEW k \in DOMAIN events[a]
      PROVE  events[a][k].status = "observed" /\ events[a][k].cost = InitialActions[a].cost
  <2>1. events[a] = Baseline(InitialActions[a])
    BY DEF Init, StoreInit
  <2> QED BY <2>1 DEF Baseline, NoEvents, NewEvent
<1>4. CostsAsCreated
  BY <1>1, <1>3 DEF CostsAsCreated, NoEvents
<1>5. FlightIsDated /\ GateIsPaid
  BY <1>1, <1>2 DEF FlightIsDated, GateIsPaid
<1>6. ASSUME NEW day PROVE ReservedUnits(day) = {}
  <2> SUFFICES ASSUME NEW x \in ReservedUnits(day) PROVE FALSE
    OBVIOUS
  <2> QED BY <1>3, UnitsOf DEF ReservedUnder, Booked
<1>7. DaysReserved
  BY <1>6, FS_EmptySet DEF DaysReserved, WithinACap
<1> QED BY <1>4, <1>5, <1>7 DEF SpendInv

LEMMA SpendInvariant == ASSUME "cost" \notin Edits PROVE Spec => []SpendInv
<1>1. Init => SpendInv
  BY SpendAtStart
<1>2. TypeOK /\ TypeOK' /\ IInv /\ IInv' /\ SpendInv /\ [Next]_vars => SpendInv'
  <2> SUFFICES ASSUME TypeOK, TypeOK', IInv, IInv', SpendInv, [Next]_vars PROVE SpendInv'
    OBVIOUS
  <2>1. CostsAsCreated'
    BY CostsKept DEF SpendInv
  <2>2. FlightIsDated'
    BY FlightStaysDated DEF SpendInv
  <2>3. GateIsPaid'
    BY <2>1, GateIsPaidKept DEF SpendInv
  <2>4. DaysReserved'
    BY <2>1, DaysReservedKept DEF SpendInv
  <2> QED BY <2>1, <2>2, <2>3, <2>4 DEF SpendInv
<1> QED BY <1>1, <1>2, TypeCorrect, Invariant, PTL DEF Spec

\* Each gate has a row of its own that pays for it: what the gates of a day may cost
\* is at most what is reserved under that day.
LEMMA SpentIsReserved ==
  ASSUME TypeOK, IInv, GateIsPaid, NEW day, IsFiniteSet(ReservedUnits(day))
  PROVE  SpentOn(day) \in Nat /\ SpentOn(day) <= ReservedOn(day)
<1> DEFINE S == SpentUnits(day)
           T == ReservedUnits(day)
           KeyOf(g) == gates[g[1]][g[2]].key
           f == [x \in S |-> <<<<x[1][1], KeyOf(x[1])>>, x[2]>>]
<1>1. ASSUME NEW x \in S
      PROVE  \E a \in Actions : \E n \in DOMAIN gates[a] : \E i \in 1..gates[a][n].cost :
               /\ actions[a].exists /\ gates[a][n].day = day
               /\ x = <<<<a, n>>, i>>
  <2>1. PICK g \in GatesOfDay(day) : x \in {g} \X (1..gates[g[1]][g[2]].cost)
    BY DEF SpentUnits
  <2>2. PICK a \in Actions : \E n \in DOMAIN gates[a] :
               g = <<a, n>> /\ actions[a].exists /\ gates[a][n].day = day
    BY DEF GatesOfDay
  <2> QED BY <2>1, <2>2
<1>2. ASSUME NEW x \in S PROVE f[x] \in T
  <2> PICK a \in Actions : \E n \in DOMAIN gates[a] : \E i \in 1..gates[a][n].cost :
             actions[a].exists /\ gates[a][n].day = day /\ x = <<<<a, n>>, i>>
    BY <1>1
  <2> PICK n \in DOMAIN gates[a] : \E i \in 1..gates[a][n].cost :
             actions[a].exists /\ gates[a][n].day = day /\ x = <<<<a, n>>, i>>
    OBVIOUS
  <2>1. PICK i \in 1..gates[a][n].cost :
               actions[a].exists /\ gates[a][n].day = day /\ x = <<<<a, n>>, i>>
    OBVIOUS
  <2> DEFINE k == gates[a][n].key
  <2>2. f[x] = <<<<a, k>>, i>>
    BY <2>1
  <2>3. k \in DOMAIN events[a] /\ Booked(events[a][k])
    BY <2>1 DEF IInv, GateKeptByRow, Booked
  <2>4. /\ events[a][k].dispatched # Null /\ Day(events[a][k].dispatched) = day
        /\ gates[a][n].cost = events[a][k].cost
    BY <2>1 DEF GateIsPaid
  <2> HIDE DEF k, f
  <2>5. ReservedUnder(a, k, day)
    BY <2>3, <2>4 DEF ReservedUnder
  <2>6. i \in 1..events[a][k].cost
    BY <2>4
  <2> QED BY <2>2, <2>3, <2>5, <2>6, UnitsOf
<1>3. ASSUME NEW x \in S, NEW y \in S, f[x] = f[y] PROVE x = y
  <2> PICK a \in Actions : \E n \in DOMAIN gates[a] : \E i : x = <<<<a, n>>, i>>
    BY <1>1
  <2>1. PICK n \in DOMAIN gates[a] : \E i : x = <<<<a, n>>, i>>
    OBVIOUS
  <2> PICK b \in Actions : \E m \in DOMAIN gates[b] : \E j : y = <<<<b, m>>, j>>
    BY <1>1
  <2>2. PICK m \in DOMAIN gates[b] : \E j : y = <<<<b, m>>, j>>
    OBVIOUS
  <2>3. a = b /\ gates[a][n].key = gates[b][m].key /\ x[2] = y[2]
    BY <1>3, <2>1, <2>2
  <2>4. n = m
    BY <2>3 DEF IInv, LaunchedOnce
  <2> QED BY <2>1, <2>2, <2>3, <2>4
<1>4. f \in Injection(S, T)
  BY <1>2, <1>3 DEF Injection, IsInjective
<1> HIDE DEF S, T, f
<1>5. IsFiniteSet(S) /\ Cardinality(S) <= Cardinality(T)
  BY <1>4, FS_Injection DEF T
<1> QED BY <1>5, FS_CardinalityType DEF S, T, SpentOn, ReservedOn

\* As long as nobody edits a ceiling, the gates launched on the reservations of one
\* UTC day cost at most the largest daily cap of the repository's actions, whatever
\* fails, restarts or is deleted on the way.
THEOREM SpendsWithinCap == ASSUME "cost" \notin Edits PROVE Spec => []SpendWithinCap
<1>1. ASSUME TypeOK, IInv, SpendInv PROVE SpendWithinCap
  <2> SUFFICES ASSUME NEW day \in 0..Day(MaxTime), SpentOn(day) > 0
               PROVE  \E a \in Actions : SpentOn(day) <= DailyCap(a)
    BY DEF SpendWithinCap
  <2>1. SpentOn(day) \in Nat /\ SpentOn(day) <= ReservedOn(day)
    BY <1>1, SpentIsReserved DEF SpendInv, DaysReserved
  <2>2. ReservedOn(day) \in Nat
    BY <1>1, FS_CardinalityType DEF SpendInv, DaysReserved, ReservedOn
  <2>3. PICK a \in Actions : ReservedOn(day) <= DailyCap(a)
    BY <1>1, <2>1, <2>2 DEF SpendInv, DaysReserved, WithinACap, ReservedOn
  <2>4. DailyCap(a) \in Nat
    BY <1>1 DEF DailyCap, TypeOK, StoreTypeOK, Action
  <2> QED BY <2>1, <2>2, <2>3, <2>4
<1> QED BY <1>1, TypeCorrect, Invariant, SpendInvariant, PTL
=============================================================================
