------------------------- MODULE EngineUpdatesProofs -------------------------
(***************************************************************************)
(* Type correctness, the exclusion of an operation, and what an activation  *)
(* leaves behind, for any processes, engines, versions and delays.          *)
(***************************************************************************)
EXTENDS EngineUpdates, TLAPS

USE DEF CheckAges, Check, Request

-----------------------------------------------------------------------------
(* Helpers.                                                                  *)

\* A manifest that grew a minute older is one.
LEMMA AgedType ==
  ASSUME NEW m \in Manifest
  PROVE Aged(m) \in Manifest
<1>. DEFINE c == [e \in Engines |-> IF m.check[e] = None THEN None
                    ELSE [m.check[e] EXCEPT !.age = Capped(@, CheckTtl + 1)]]
<1>1. ASSUME NEW e \in Engines PROVE c[e] \in Check \cup {None}
  <2>1. CASE m.check[e] = None
    BY <2>1
  <2>2. CASE m.check[e] # None
    <3>1. m.check[e] \in Check
      BY <2>2 DEF Manifest
    <3>2. m.check[e].age \in 0..(CheckTtl + 1)
      BY <3>1
    <3>3. Capped(m.check[e].age, CheckTtl + 1) \in 0..(CheckTtl + 1)
      BY <3>2, UpdatesAssumption DEF Capped
    <3>. QED BY <2>2, <3>1, <3>3
  <2>. QED BY <2>1, <2>2
<1>2. c \in [Engines -> Check \cup {None}]
  BY <1>1
<1>3. Aged(m) = [m EXCEPT !.check = c]
  BY DEF Aged
<1>. HIDE DEF c
<1>. QED BY <1>2, <1>3 DEF Manifest

\* Age does not touch what an engine runs and ran.
LEMMA AgedSelection ==
  ASSUME NEW m \in Manifest
  PROVE Aged(m).active = m.active /\ Aged(m).previous = m.previous
BY DEF Aged, Manifest

\* The manifest of an operation is one.
LEMMA SelectedType ==
  ASSUME NEW o \in Operation
  PROVE /\ Selected(o) \in Manifest
        /\ Selected(o).check = o.seen.check
        /\ Selected(o).active = [o.seen.active EXCEPT ![o.engine] = o.version]
        /\ Selected(o).previous =
             [o.seen.previous EXCEPT ![o.engine] = o.seen.active[o.engine]]
BY DEF Operation, Manifest, Selected

\* The row that a release leaves.
LEMMA ReleasedType ==
  ASSUME TypeOK, NEW p \in Processes
  PROVE Released(p) \in [of: Processes \cup {None}, age: 0..Grace] \cup {None}
BY DEF TypeOK, Released

\* The operation of a process as a step of it leaves it.
LEMMA OpType ==
  ASSUME TypeOK, NEW p \in Processes, Busy(p)
  PROVE op[p] \in Operation
BY DEF TypeOK, Busy

-----------------------------------------------------------------------------
(* Type correctness.                                                         *)

LEMMA BeginType ==
  ASSUME TypeOK, NEW p \in Processes, NEW request \in Request, Begin(p, request)
  PROVE /\ lease' \in [of: Processes \cup {None}, age: 0..Grace] \cup {None}
        /\ op' \in [Processes -> Operation \cup {None}]
<1>1. 0 \in 0..Grace /\ 0 \in 0..(2 * Probes + 1) /\ 0 \in 0..CallLimit
  BY UpdatesAssumption
<1>2. [at |-> "reading", action |-> request.action, engine |-> request.engine,
       version |-> request.version, seen |-> manifest, left |-> 0, lag |-> 0] \in Operation
  BY <1>1 DEF TypeOK, Operation
<1>. QED BY <1>1, <1>2 DEF Begin, TypeOK

LEMMA StepType ==
  ASSUME TypeOK, NEW p \in Processes, Step(p)
  PROVE TypeOK'
<1>. USE DEF TypeOK
<1>0. Released(p) \in [of: Processes \cup {None}, age: 0..Grace] \cup {None}
  BY ReleasedType
<1>1. CASE RuntimeRead(p)
  <2>1. op[p] \in Operation
    BY <1>1, OpType DEF RuntimeRead, At
  <2>2. /\ Probes \in 0..(2 * Probes + 1) /\ Probes + 1 \in 0..(2 * Probes + 1)
        /\ 2 * Probes \in 0..(2 * Probes + 1)
    BY UpdatesAssumption
  <2>3. CASE UpdateReads(p)
    <3>1. op' \in [Processes -> Operation \cup {None}]
      BY <2>1, <2>2, <2>3 DEF UpdateReads, Operation
    <3>. QED BY <3>1, <1>1 DEF RuntimeRead
  <2>4. CASE RollbackReads(p)
    <3>1. op[p].seen.previous[op[p].engine] \in Versions \cup {None}
      BY <2>1 DEF Operation, Manifest
    <3>2. op' \in [Processes -> Operation \cup {None}]
      BY <2>1, <2>2, <2>4, <3>1 DEF RollbackReads, Operation
    <3>. QED BY <3>2, <1>1 DEF RuntimeRead
  <2>. QED BY <2>3, <2>4, <1>1 DEF RuntimeRead
<1>2. CASE CommandEnds(p)
  <2>1. op[p] \in Operation
    BY <1>2, OpType DEF CommandEnds, At
  <2>2. op[p].left - 1 \in 0..(2 * Probes + 1) /\ 0 \in 0..CallLimit
    BY <2>1, <1>2, UpdatesAssumption DEF CommandEnds, Operation
  <2>. QED BY <2>1, <2>2, <1>2 DEF CommandEnds, Operation
<1>3. CASE Installed(p)
  <2>1. op[p] \in Operation
    BY <1>3, OpType DEF Installed, At
  <2>2. /\ Probes \in 0..(2 * Probes + 1) /\ 0 \in 0..(2 * Probes + 1)
        /\ 0 \in 0..CallLimit
    BY UpdatesAssumption
  <2>3. op[p].version \in Versions
    BY <1>3 DEF Installed, Sound
  <2>4. disk' \in [Engines -> SUBSET Versions]
    BY <2>1, <2>3, <1>3 DEF Installed, Operation
  <2>5. op' \in [Processes -> Operation \cup {None}]
    BY <2>1, <2>2, <1>3 DEF Installed, Operation
  <2>. QED BY <2>4, <2>5, <1>3 DEF Installed
<1>4. CASE Verified(p)
  <2>1. op[p] \in Operation
    BY <1>4, OpType DEF Verified, At
  <2>2. 0 \in 0..(2 * Probes + 1) /\ 0 \in 0..CallLimit
    BY UpdatesAssumption
  <2>. QED BY <2>1, <2>2, <1>4 DEF Verified, Operation
<1>5. CASE Activated(p)
  <2>1. op[p] \in Operation
    BY <1>5, OpType DEF Activated, At
  <2>2. manifest' \in Manifest
    BY <2>1, <1>5, SelectedType DEF Activated
  <2>. QED BY <1>0, <2>2, <1>5 DEF Activated
<1>6. CASE OperationFails(p)
  BY <1>0, <1>6 DEF OperationFails
<1>. QED BY <1>1, <1>2, <1>3, <1>4, <1>5, <1>6 DEF Step

LEMMA ClockType ==
  ASSUME TypeOK, ClockTick
  PROVE TypeOK'
<1>. USE DEF TypeOK
<1>1. manifest' \in Manifest
  BY AgedType DEF ClockTick
<1>2. lease' \in [of: Processes \cup {None}, age: 0..Grace] \cup {None}
  <2>1. CASE lease = None
    BY <2>1 DEF ClockTick, LeaseAged
  <2>2. CASE lease # None
    <3>1. lease \in [of: Processes \cup {None}, age: 0..Grace] /\ lease.age \in 0..Grace
      BY <2>2
    <3>2. 0 \in 0..Grace /\ Capped(lease.age, Grace) \in 0..Grace
      BY <3>1, UpdatesAssumption DEF Capped
    <3>3. lease' \in {[lease EXCEPT !.age = 0], [lease EXCEPT !.age = Capped(@, Grace)]}
      BY <2>2 DEF ClockTick, LeaseAged
    <3>. QED BY <3>1, <3>2, <3>3
  <2>. QED BY <2>1, <2>2
<1>3. op' \in [Processes -> Operation \cup {None}]
  <2>1. ASSUME NEW p \in Processes, Busy(p)
        PROVE [op[p] EXCEPT !.lag = @ + 1, !.seen = Aged(@)] \in Operation
    <3>1. op[p] \in Operation
      BY <2>1, OpType
    <3>2. Aged(op[p].seen) \in Manifest
      BY <3>1, AgedType DEF Operation
    <3>3. op[p].lag + 1 \in 0..CallLimit
      <4>1. op[p].lag < Limit(op[p].at) /\ Limit(op[p].at) \in {0, CallLimit}
        BY <2>1 DEF ClockTick, Limit
      <4>. QED BY <3>1, <4>1, UpdatesAssumption DEF Operation
    <3>. QED BY <3>1, <3>2, <3>3 DEF Operation
  <2>. QED BY <2>1 DEF ClockTick
<1>4. fetch' \in [Processes -> CheckAges \cup {None}]
  <2>1. ASSUME NEW p \in Processes, fetch[p] # None
        PROVE Capped(fetch[p], CheckTtl + 1) \in CheckAges
    BY <2>1, UpdatesAssumption DEF Capped
  <2>. QED BY <2>1 DEF ClockTick
<1>. QED BY <1>1, <1>2, <1>3, <1>4 DEF ClockTick

\* A check that is committed is the check of a manifest.
LEMMA CommitType ==
  ASSUME TypeOK, NEW p \in Processes, CheckCommits(p)
  PROVE manifest' \in Manifest
<1>1. PICK latest \in [Engines -> Versions \cup {None}] :
        manifest' = [manifest EXCEPT !.check =
                       [e \in Engines |-> [latest |-> latest[e], age |-> fetch[p]]]]
  BY DEF CheckCommits
<1>2. fetch[p] \in CheckAges
  BY DEF TypeOK, CheckCommits
<1>3. [e \in Engines |-> [latest |-> latest[e], age |-> fetch[p]]]
        \in [Engines -> Check \cup {None}]
  BY <1>2
<1>. QED BY <1>1, <1>3 DEF TypeOK, Manifest

\* Every variable keeps its type.
THEOREM TypeCorrect == Spec => []TypeOK
<1>1. Init => TypeOK
  <2>1. /\ Nothing \in [Engines -> Versions \cup {None}]
        /\ Nothing \in [Engines -> Check \cup {None}]
    BY DEF Nothing
  <2>2. [active |-> Nothing, previous |-> Nothing, check |-> Nothing] \in Manifest
    BY <2>1 DEF Manifest
  <2>. QED BY <2>2 DEF Init, TypeOK
<1>2. TypeOK /\ [Next]_vars => TypeOK'
  <2>. SUFFICES ASSUME TypeOK, [Next]_vars PROVE TypeOK'
    OBVIOUS
  <2>1. ASSUME NEW p \in Processes, CheckStarts(p) PROVE TypeOK'
    BY <2>1, UpdatesAssumption DEF CheckStarts, TypeOK
  <2>2. ASSUME NEW p \in Processes, CheckCommits(p) PROVE TypeOK'
    BY <2>2, CommitType DEF CheckCommits, TypeOK
  <2>3. ASSUME NEW p \in Processes, CheckFails(p) PROVE TypeOK'
    BY <2>3 DEF CheckFails, TypeOK
  <2>4. ASSUME NEW p \in Processes, Ask(p) PROVE TypeOK'
    <3>1. PICK request \in Request :
            IF fetch[p] = None
            THEN Begin(p, request) /\ UNCHANGED asked
            ELSE /\ asked[p] = None
                 /\ asked' = [asked EXCEPT ![p] = request]
                 /\ UNCHANGED <<lease, op>>
      BY <2>4 DEF Ask
    <3>2. CASE fetch[p] = None
      BY <3>1, <3>2, <2>4, BeginType DEF Ask, TypeOK
    <3>3. CASE fetch[p] # None
      BY <3>1, <3>3, <2>4 DEF Ask, TypeOK
    <3>. QED BY <3>2, <3>3
  <2>5. ASSUME NEW p \in Processes, CheckAwaited(p) PROVE TypeOK'
    <3>1. asked[p] \in Request
      BY <2>5 DEF CheckAwaited, TypeOK
    <3>2. CASE Begin(p, asked[p])
      BY <2>5, <3>1, <3>2, BeginType DEF CheckAwaited, TypeOK
    <3>3. CASE UNCHANGED <<lease, op>>
      BY <2>5, <3>3 DEF CheckAwaited, TypeOK
    <3>. QED BY <2>5, <3>2, <3>3 DEF CheckAwaited
  <2>6. ASSUME NEW p \in Processes, Step(p) PROVE TypeOK'
    BY <2>6, StepType
  <2>7. ASSUME NEW p \in Processes, Restart(p) PROVE TypeOK'
    BY <2>7 DEF Restart, TypeOK
  <2>8. CASE ScanStarts
    BY <2>8 DEF ScanStarts, TypeOK
  <2>9. CASE ScanEnds
    BY <2>9 DEF ScanEnds, TypeOK
  <2>10. CASE ClockTick
    BY <2>10, ClockType
  <2>11. CASE UNCHANGED vars
    BY <2>11 DEF vars, TypeOK
  <2>. QED
    BY <2>1, <2>2, <2>3, <2>4, <2>5, <2>6, <2>7, <2>8, <2>9, <2>10, <2>11 DEF Next
<1>. QED BY <1>1, <1>2, PTL DEF Spec

-----------------------------------------------------------------------------
(* The versions that are selected are on disk.  This needs no lease: a file   *)
(* never leaves, and what an operation read before its awaits was true then.  *)

\* What a manifest selects is on disk.
Kept(m, files) == \A e \in Engines :
  /\ m.active[e] # None => m.active[e] \in files[e]
  /\ m.previous[e] # None => m.previous[e] \in files[e]

DiskInv ==
  /\ \A e \in Engines : disk[e] \cap Broken = {}
  /\ Kept(manifest, disk)
  /\ \A p \in Processes : Busy(p) =>
       /\ Kept(op[p].seen, disk)
       /\ op[p].at = "writing" => op[p].version \in disk[op[p].engine]

LEMMA StepKeepsDisk ==
  ASSUME TypeOK, DiskInv, NEW p \in Processes, Step(p)
  PROVE DiskInv'
<1>. USE DEF Busy, DiskInv
<1>0. Busy(p) /\ op[p] \in Operation /\ op \in [Processes -> Operation \cup {None}]
  BY OpType DEF Step, RuntimeRead, CommandEnds, Installed, Verified, Activated,
       OperationFails, At, TypeOK
<1>1. CASE RuntimeRead(p)
  <2>1. /\ \A q \in Processes \ {p} : op'[q] = op[q]
        /\ op'[p].seen = op[p].seen /\ op'[p].at \in {"verifying", "installing"}
    <3>1. CASE UpdateReads(p)
      BY <1>0, <3>1 DEF UpdateReads, Operation
    <3>2. CASE RollbackReads(p)
      BY <1>0, <3>2 DEF RollbackReads, Operation
    <3>. QED BY <1>1, <3>1, <3>2 DEF RuntimeRead
  <2>2. UNCHANGED <<manifest, disk>>
    BY <1>1 DEF RuntimeRead
  <2>. QED BY <1>0, <2>1, <2>2 DEF Kept
<1>2. CASE CommandEnds(p)
  <2>1. /\ \A q \in Processes \ {p} : op'[q] = op[q]
        /\ op'[p].seen = op[p].seen /\ op'[p].at = op[p].at /\ op[p].at # "writing"
    BY <1>0, <1>2 DEF CommandEnds, Operation, At
  <2>2. UNCHANGED <<manifest, disk>>
    BY <1>2 DEF CommandEnds
  <2>. QED BY <1>0, <2>1, <2>2 DEF Kept
<1>3. CASE Installed(p)
  <2>1. /\ \A q \in Processes \ {p} : op'[q] = op[q]
        /\ op'[p].seen = op[p].seen /\ op'[p].version = op[p].version
        /\ op'[p].engine = op[p].engine
    BY <1>0, <1>3 DEF Installed, Operation
  <2>2. /\ op[p].engine \in Engines /\ disk \in [Engines -> SUBSET Versions]
        /\ disk' = [disk EXCEPT ![op[p].engine] = @ \cup {op[p].version}]
        /\ op[p].version \notin Broken
    BY <1>0, <1>3 DEF Installed, Operation, TypeOK, Sound
  <2>3. \A e \in Engines : disk[e] \subseteq disk'[e] /\ disk'[e] \cap Broken = {}
    BY <2>2
  <2>4. op[p].version \in disk'[op[p].engine]
    BY <2>2
  <2>5. \A q \in Processes : Busy(q)' => Busy(q) /\ op'[q].seen = op[q].seen
    BY <1>0, <2>1
  <2>6. \A q \in Processes : Busy(q)' => Kept(op[q].seen, disk')
    BY <2>3, <2>5 DEF Kept
  <2>7. Kept(manifest', disk')
    BY <2>3, <1>3 DEF Kept, Installed
  <2>8. \A q \in Processes \ {p} : Busy(q)' /\ op'[q].at = "writing" =>
          op'[q].version \in disk'[op'[q].engine]
    <3>. SUFFICES ASSUME NEW q \in Processes \ {p}, Busy(q), op[q].at = "writing"
                  PROVE op[q].version \in disk'[op[q].engine]
      BY <2>1
    <3>1. op[q].engine \in Engines
      BY OpType DEF Operation
    <3>. QED BY <3>1, <2>3
  <2>. QED BY <2>1, <2>3, <2>4, <2>5, <2>6, <2>7, <2>8
<1>4. CASE Verified(p)
  <2>1. /\ \A q \in Processes \ {p} : op'[q] = op[q]
        /\ op'[p].seen = op[p].seen /\ op'[p].version = op[p].version
        /\ op'[p].engine = op[p].engine /\ op[p].version \in disk[op[p].engine]
    BY <1>0, <1>4 DEF Verified, Operation
  <2>2. UNCHANGED <<manifest, disk>>
    BY <1>4 DEF Verified
  <2>. QED BY <1>0, <2>1, <2>2 DEF Kept
<1>5. CASE Activated(p)
  <2>1. /\ \A q \in Processes \ {p} : op'[q] = op[q]
        /\ op'[p] = None /\ UNCHANGED disk
    BY <1>0, <1>5 DEF Activated
  <2>2. /\ manifest' = Selected(op[p]) /\ op[p].version \in disk[op[p].engine]
        /\ Kept(op[p].seen, disk) /\ op[p].engine \in Engines
        /\ op[p].seen.active \in [Engines -> Versions \cup {None}]
        /\ op[p].seen.previous \in [Engines -> Versions \cup {None}]
    BY <1>0, <1>5 DEF Activated, At, Operation, Manifest
  <2>3. /\ manifest'.active = [op[p].seen.active EXCEPT ![op[p].engine] = op[p].version]
        /\ manifest'.previous =
             [op[p].seen.previous EXCEPT ![op[p].engine] = op[p].seen.active[op[p].engine]]
    BY <1>0, <2>2, SelectedType
  <2>4. ASSUME NEW e \in Engines
        PROVE /\ manifest'.active[e] # None => manifest'.active[e] \in disk[e]
              /\ manifest'.previous[e] # None => manifest'.previous[e] \in disk[e]
    <3>1. CASE e = op[p].engine
      BY <2>2, <2>3, <3>1 DEF Kept
    <3>2. CASE e # op[p].engine
      BY <2>2, <2>3, <3>2 DEF Kept
    <3>. QED BY <3>1, <3>2
  <2>5. Kept(manifest', disk')
    BY <2>1, <2>4 DEF Kept
  <2>. QED BY <2>1, <2>5
<1>6. CASE OperationFails(p)
  <2>1. /\ \A q \in Processes \ {p} : op'[q] = op[q]
        /\ op'[p] = None /\ UNCHANGED <<manifest, disk>>
    BY <1>0, <1>6 DEF OperationFails
  <2>. QED BY <2>1
<1>. QED BY <1>1, <1>2, <1>3, <1>4, <1>5, <1>6 DEF Step

\* A request that begins reads the manifest.
LEMMA BeginKeepsDisk ==
  ASSUME TypeOK, DiskInv, NEW p \in Processes, NEW request \in Request,
         Begin(p, request), UNCHANGED <<manifest, disk>>
  PROVE DiskInv'
<1>1. /\ \A q \in Processes \ {p} : op'[q] = op[q]
      /\ op'[p].seen = manifest /\ op'[p].at = "reading"
  BY DEF Begin, TypeOK
<1>. QED BY <1>1 DEF DiskInv, Busy, Kept

LEMMA DiskInvariant == Spec => []DiskInv
<1>1. Init => DiskInv
  BY DEF Init, DiskInv, Kept, Nothing, Busy
<1>2. TypeOK /\ DiskInv /\ [Next]_vars => DiskInv'
  <2>. SUFFICES ASSUME TypeOK, DiskInv, [Next]_vars PROVE DiskInv'
    OBVIOUS
  <2>1. ASSUME NEW p \in Processes, CheckStarts(p) PROVE DiskInv'
    BY <2>1 DEF CheckStarts, DiskInv, Busy, Kept
  <2>2. ASSUME NEW p \in Processes, CheckCommits(p) PROVE DiskInv'
    <3>1. UNCHANGED <<disk, op>>
      BY <2>2 DEF CheckCommits
    <3>2. manifest'.active = manifest.active /\ manifest'.previous = manifest.previous
      BY <2>2 DEF CheckCommits, TypeOK, Manifest
    <3>. QED BY <3>1, <3>2 DEF DiskInv, Busy, Kept
  <2>3. ASSUME NEW p \in Processes, CheckFails(p) PROVE DiskInv'
    BY <2>3 DEF CheckFails, DiskInv, Busy, Kept
  <2>4. ASSUME NEW p \in Processes, Ask(p) PROVE DiskInv'
    <3>1. UNCHANGED <<manifest, disk>>
      BY <2>4 DEF Ask
    <3>2. CASE \E request \in Request : Begin(p, request)
      BY <3>1, <3>2, BeginKeepsDisk
    <3>3. CASE UNCHANGED op
      BY <3>1, <3>3 DEF DiskInv, Busy, Kept
    <3>. QED BY <2>4, <3>2, <3>3 DEF Ask
  <2>5. ASSUME NEW p \in Processes, CheckAwaited(p) PROVE DiskInv'
    <3>1. UNCHANGED <<manifest, disk>> /\ asked[p] \in Request
      BY <2>5 DEF CheckAwaited, TypeOK
    <3>2. CASE Begin(p, asked[p])
      BY <3>1, <3>2, BeginKeepsDisk
    <3>3. CASE UNCHANGED op
      BY <3>1, <3>3 DEF DiskInv, Busy, Kept
    <3>. QED BY <2>5, <3>2, <3>3 DEF CheckAwaited
  <2>6. ASSUME NEW p \in Processes, Step(p) PROVE DiskInv'
    BY <2>6, StepKeepsDisk
  <2>7. ASSUME NEW p \in Processes, Restart(p) PROVE DiskInv'
    <3>1. UNCHANGED <<manifest, disk>> /\ op' = [op EXCEPT ![p] = None]
      BY <2>7 DEF Restart
    <3>. QED BY <3>1 DEF DiskInv, Busy, Kept, TypeOK
  <2>8. CASE ScanStarts
    BY <2>8 DEF ScanStarts, DiskInv, Busy, Kept
  <2>9. CASE ScanEnds
    BY <2>9 DEF ScanEnds, DiskInv, Busy, Kept
  <2>10. CASE ClockTick
    <3>1. UNCHANGED disk /\ manifest' = Aged(manifest) /\ manifest \in Manifest
      BY <2>10 DEF ClockTick, TypeOK
    <3>2. manifest'.active = manifest.active /\ manifest'.previous = manifest.previous
      BY <3>1, AgedSelection
    <3>3. ASSUME NEW p \in Processes, Busy(p)'
          PROVE /\ Busy(p) /\ op'[p].at = op[p].at /\ op'[p].engine = op[p].engine
                /\ op'[p].version = op[p].version /\ op'[p].seen = Aged(op[p].seen)
                /\ op[p].seen \in Manifest
      <4>1. Busy(p)
        BY <2>10, <3>3 DEF ClockTick, Busy
      <4>2. op[p] \in Operation
        BY <4>1, OpType
      <4>3. op'[p] = [op[p] EXCEPT !.lag = @ + 1, !.seen = Aged(@)]
        BY <2>10, <4>1 DEF ClockTick
      <4>. QED BY <4>1, <4>2, <4>3 DEF Operation
    <3>4. ASSUME NEW p \in Processes, Busy(p)'
          PROVE Kept(op'[p].seen, disk)
      BY <3>3, <3>4, AgedSelection DEF DiskInv, Kept
    <3>5. Kept(manifest', disk')
      BY <3>1, <3>2 DEF DiskInv, Kept
    <3>. QED BY <3>1, <3>3, <3>4, <3>5 DEF DiskInv
  <2>11. CASE UNCHANGED vars
    BY <2>11 DEF vars, DiskInv, Busy, Kept
  <2>. QED
    BY <2>1, <2>2, <2>3, <2>4, <2>5, <2>6, <2>7, <2>8, <2>9, <2>10, <2>11 DEF Next
<1>. QED BY <1>1, <1>2, TypeCorrect, PTL DEF Spec

\* What the manifest says runs, or ran before, is on disk and passed its probes, with or
\* without a reservation that holds.
THEOREM SelectionInstalled == Spec => []SelectionIsInstalled
<1>1. TypeOK /\ DiskInv => SelectionIsInstalled
  <2>. SUFFICES ASSUME TypeOK, DiskInv, NEW e \in Engines,
                       NEW v \in {manifest.active[e], manifest.previous[e]} \ {None}
                PROVE v \in disk[e] /\ v \notin Broken
    BY DEF SelectionIsInstalled
  <2>. QED BY DEF DiskInv, Kept
<1>. QED BY <1>1, TypeCorrect, DiskInvariant, PTL

-----------------------------------------------------------------------------
(* The exclusion.  It needs renewals that do not fail.                        *)

\* An operation holds a reservation that was renewed this minute, no scan runs, and what
\* it read before its awaits is what the manifest still says.
Alone == \A p \in Processes : Busy(p) =>
  /\ ~scanning
  /\ lease # None /\ lease.of = p /\ lease.age = 0
  /\ op[p].seen = manifest

\* A reservation that can be taken says that nobody works.
LEMMA FreeIsIdle ==
  ASSUME Alone, ~Maintained
  PROVE \A q \in Processes : ~Busy(q)
BY UpdatesAssumption DEF Alone, Maintained

\* Nobody works beside a process that does.
LEMMA OnlyOne ==
  ASSUME Alone, NEW p \in Processes, Busy(p)
  PROVE \A q \in Processes \ {p} : ~Busy(q)
BY DEF Alone

LEMMA BeginKeepsAlone ==
  ASSUME TypeOK, Alone, NEW p \in Processes, NEW request \in Request,
         Begin(p, request), UNCHANGED <<manifest, scanning>>
  PROVE Alone'
<1>1. \A q \in Processes : ~Busy(q)
  BY FreeIsIdle DEF Begin, Free
<1>2. /\ \A q \in Processes \ {p} : op'[q] = op[q]
      /\ op'[p].seen = manifest /\ lease' = [of |-> p, age |-> 0] /\ ~scanning
  BY DEF Begin, TypeOK, Free
<1>3. /\ lease' # None /\ lease'.of = p /\ lease'.age = 0
  <2>1. lease' \in [of: Processes \cup {None}, age: 0..Grace] \cup {None}
    BY BeginType
  <2>. QED BY <1>2, <2>1, UpdatesAssumption
<1>. QED BY <1>1, <1>2, <1>3 DEF Alone, Busy

LEMMA StepKeepsAlone ==
  ASSUME TypeOK, Alone, NEW p \in Processes, Step(p)
  PROVE Alone'
<1>0. Busy(p) /\ op[p] \in Operation /\ op \in [Processes -> Operation \cup {None}]
  BY OpType DEF Step, RuntimeRead, CommandEnds, Installed, Verified, Activated,
       OperationFails, At, TypeOK
<1>1. \A q \in Processes \ {p} : op[q] = None
  BY <1>0, OnlyOne DEF Busy
<1>2. CASE /\ UNCHANGED <<manifest, scanning, lease>>
           /\ op'[p].seen = op[p].seen
           /\ \A q \in Processes \ {p} : op'[q] = op[q]
  BY <1>0, <1>1, <1>2 DEF Alone, Busy
<1>3. CASE op' = [op EXCEPT ![p] = None]
  BY <1>0, <1>1, <1>3 DEF Alone, Busy
<1>4. CASE RuntimeRead(p)
  <2>1. CASE UpdateReads(p)
    BY <1>0, <1>2, <1>4, <2>1 DEF RuntimeRead, UpdateReads, Operation
  <2>2. CASE RollbackReads(p)
    BY <1>0, <1>2, <1>4, <2>2 DEF RuntimeRead, RollbackReads, Operation
  <2>. QED BY <1>4, <2>1, <2>2 DEF RuntimeRead
<1>5. CASE CommandEnds(p)
  BY <1>0, <1>2, <1>5 DEF CommandEnds, Operation
<1>6. CASE Installed(p)
  BY <1>0, <1>2, <1>6 DEF Installed, Operation
<1>7. CASE Verified(p)
  BY <1>0, <1>2, <1>7 DEF Verified, Operation
<1>8. CASE Activated(p) \/ OperationFails(p)
  BY <1>3, <1>8 DEF Activated, OperationFails
<1>. QED BY <1>4, <1>5, <1>6, <1>7, <1>8 DEF Step

LEMMA AloneInvariant ==
  ASSUME RenewalsFail = FALSE
  PROVE Spec => []Alone
<1>1. Init => Alone
  BY DEF Init, Alone, Busy
<1>2. TypeOK /\ Alone /\ [Next]_vars => Alone'
  <2>. SUFFICES ASSUME TypeOK, Alone, [Next]_vars PROVE Alone'
    OBVIOUS
  <2>1. ASSUME NEW p \in Processes, CheckStarts(p) PROVE Alone'
    BY <2>1 DEF CheckStarts, Alone, Busy
  <2>2. ASSUME NEW p \in Processes, CheckCommits(p) PROVE Alone'
    <3>1. \A q \in Processes : ~Busy(q)
      BY <2>2, FreeIsIdle DEF CheckCommits, Free
    <3>. QED BY <2>2, <3>1 DEF CheckCommits, Alone, Busy
  <2>3. ASSUME NEW p \in Processes, CheckFails(p) PROVE Alone'
    <3>1. CASE Free(p)
      <4>1. \A q \in Processes : ~Busy(q)
        BY <3>1, FreeIsIdle DEF Free
      <4>. QED BY <2>3, <4>1 DEF CheckFails, Alone, Busy
    <3>2. CASE ~Free(p)
      BY <2>3, <3>2 DEF CheckFails, Alone, Busy
    <3>. QED BY <3>1, <3>2
  <2>4. ASSUME NEW p \in Processes, Ask(p) PROVE Alone'
    <3>1. UNCHANGED <<manifest, scanning>>
      BY <2>4 DEF Ask
    <3>2. CASE \E request \in Request : Begin(p, request)
      BY <3>1, <3>2, BeginKeepsAlone
    <3>3. CASE UNCHANGED <<lease, op>>
      BY <3>1, <3>3 DEF Alone, Busy
    <3>. QED BY <2>4, <3>2, <3>3 DEF Ask
  <2>5. ASSUME NEW p \in Processes, CheckAwaited(p) PROVE Alone'
    <3>1. UNCHANGED <<manifest, scanning>> /\ asked[p] \in Request
      BY <2>5 DEF CheckAwaited, TypeOK
    <3>2. CASE Begin(p, asked[p])
      BY <3>1, <3>2, BeginKeepsAlone
    <3>3. CASE UNCHANGED <<lease, op>>
      BY <3>1, <3>3 DEF Alone, Busy
    <3>. QED BY <2>5, <3>2, <3>3 DEF CheckAwaited
  <2>6. ASSUME NEW p \in Processes, Step(p) PROVE Alone'
    BY <2>6, StepKeepsAlone
  <2>7. ASSUME NEW p \in Processes, Restart(p) PROVE Alone'
    <3>1. /\ UNCHANGED <<manifest, scanning>> /\ op' = [op EXCEPT ![p] = None]
          /\ op'[p] = None
      BY <2>7 DEF Restart, TypeOK
    <3>2. CASE lease # None /\ lease.of = p
      <4>1. \A q \in Processes \ {p} : ~Busy(q)
        BY <3>2 DEF Alone
      <4>. QED BY <3>1, <4>1 DEF Alone, Busy
    <3>3. CASE ~(lease # None /\ lease.of = p)
      BY <2>7, <3>1, <3>3 DEF Restart, Alone, Busy
    <3>. QED BY <3>2, <3>3
  <2>8. CASE ScanStarts
    <3>1. \A q \in Processes : ~Busy(q)
      BY <2>8, FreeIsIdle DEF ScanStarts
    <3>. QED BY <2>8, <3>1 DEF ScanStarts, Alone, Busy
  <2>9. CASE ScanEnds
    BY <2>9 DEF ScanEnds, Alone, Busy
  <2>10. CASE ClockTick
    <3>. SUFFICES ASSUME NEW p \in Processes, Busy(p)'
                  PROVE /\ ~scanning' /\ lease' # None /\ lease'.of = p
                        /\ lease'.age = 0 /\ op'[p].seen = manifest'
      BY DEF Alone
    <3>1. Busy(p) /\ op'[p] = [op[p] EXCEPT !.lag = @ + 1, !.seen = Aged(@)]
      BY <2>10 DEF ClockTick, Busy
    <3>2. op'[p].seen = Aged(manifest)
      BY <3>1, OpType DEF Operation, Alone
    <3>3. lease \in [of: Processes \cup {None}, age: 0..Grace] /\ lease.of = p /\ lease # None
      BY <3>1 DEF Alone, TypeOK
    <3>4. Renewed(p) /\ RenewalsFail = FALSE
      BY UpdatesAssumption DEF Renewed
    <3>5. lease' = [lease EXCEPT !.age = 0]
      BY <2>10, <3>3, <3>4 DEF ClockTick, LeaseAged
    <3>6. lease' \in [of: Processes \cup {None}, age: 0..Grace]
      BY <3>3, <3>5, UpdatesAssumption
    <3>7. lease'.of = p /\ lease'.age = 0 /\ lease' # None
      BY <3>3, <3>5, <3>6, UpdatesAssumption
    <3>8. ~scanning' /\ manifest' = Aged(manifest)
      BY <2>10, <3>1 DEF ClockTick, Alone
    <3>. QED BY <3>2, <3>7, <3>8
  <2>11. CASE UNCHANGED vars
    BY <2>11 DEF vars, Alone, Busy
  <2>. QED
    BY <2>1, <2>2, <2>3, <2>4, <2>5, <2>6, <2>7, <2>8, <2>9, <2>10, <2>11 DEF Next
<1>. QED BY <1>1, <1>2, TypeCorrect, PTL DEF Spec

\* While renewals succeed, whoever works on an engine is alone: no scan, no other
\* operation of any process, and a reservation of its own that holds.
THEOREM OperationsAreAlone ==
  ASSUME RenewalsFail = FALSE
  PROVE Spec => []OperationIsAlone
<1>1. Alone => OperationIsAlone
  <2>. SUFFICES ASSUME Alone, NEW p \in Processes, Busy(p)
                PROVE /\ ~scanning /\ Maintained /\ lease.of = p
                      /\ \A q \in Processes \ {p} : ~Busy(q)
    BY DEF OperationIsAlone
  <2>. QED BY OnlyOne, UpdatesAssumption DEF Alone, Maintained
<1>. QED BY <1>1, AloneInvariant, PTL

\* While renewals succeed, an activation changes what it means to change, and keeps the
\* version it replaces.
THEOREM ActivationsKeepTheRest ==
  ASSUME RenewalsFail = FALSE
  PROVE Spec => ActivationKeepsTheRest
<1>. DEFINE Rest(e) ==
       /\ manifest'.previous[e] = manifest.active[e]
       /\ manifest'.check = manifest.check
       /\ \A d \in Engines \ {e} :
            /\ manifest'.active[d] = manifest.active[d]
            /\ manifest'.previous[d] = manifest.previous[d]
<1>1. ASSUME TypeOK, Alone, [Next]_vars, NEW e \in Engines,
             manifest'.active[e] # manifest.active[e]
      PROVE Rest(e)
  <2>1. CASE manifest'.active = manifest.active
    BY <1>1, <2>1
  <2>2. ASSUME NEW p \in Processes, Activated(p) PROVE Rest(e)
    <3>1. Busy(p) /\ op[p] \in Operation /\ op[p].seen = manifest
      BY <1>1, <2>2, OpType DEF Activated, At, Alone
    <3>2. /\ manifest' = Selected(op[p]) /\ op[p].engine \in Engines
          /\ manifest.active \in [Engines -> Versions \cup {None}]
          /\ manifest.previous \in [Engines -> Versions \cup {None}]
      BY <1>1, <2>2, <3>1 DEF Activated, Operation, TypeOK, Manifest
    <3>3. /\ manifest'.check = manifest.check
          /\ manifest'.active = [manifest.active EXCEPT ![op[p].engine] = op[p].version]
          /\ manifest'.previous =
               [manifest.previous EXCEPT ![op[p].engine] = manifest.active[op[p].engine]]
      BY <3>1, <3>2, SelectedType
    <3>4. e = op[p].engine
      BY <1>1, <3>2, <3>3
    <3>. QED BY <3>2, <3>3, <3>4
  <2>3. ASSUME NEW p \in Processes, CheckCommits(p) PROVE Rest(e)
    BY <1>1, <2>1, <2>3 DEF CheckCommits, TypeOK, Manifest
  <2>4. CASE ClockTick
    BY <1>1, <2>1, <2>4, AgedSelection DEF ClockTick, TypeOK
  <2>5. CASE UNCHANGED manifest
    BY <2>1, <2>5
  <2>. HIDE DEF Rest
  <2>. QED BY <1>1, <2>2, <2>3, <2>4, <2>5 DEF Next, vars, Step, CheckStarts, CheckFails,
         Ask, CheckAwaited, RuntimeRead, CommandEnds, Installed, Verified, OperationFails,
         Restart, ScanStarts, ScanEnds
<1>2. TypeOK /\ Alone /\ [Next]_vars =>
        [\A e \in Engines : manifest'.active[e] # manifest.active[e] => Rest(e)]_vars
  BY <1>1
<1>. QED BY <1>2, TypeCorrect, AloneInvariant, PTL DEF Spec, ActivationKeepsTheRest
=============================================================================
