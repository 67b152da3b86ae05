----------------------- MODULE GateOrchestratorProofs -----------------------
(***************************************************************************)
(* For any scans, gates and bounds: a scan has one worker and one slot, a  *)
(* cancelled scan stays so, a managed gate decides on a completed scan and *)
(* ends once.  Proofs about ScanRunner and GateOrchestrator.               *)
(***************************************************************************)
EXTENDS GateOrchestrator, FiniteSetTheorems, TLAPS

Workers(r) == r.resumed + (IF r.direct THEN 1 ELSE 0)

\* Nothing was ever started for a scan whose launch did not get that far.
Unstarted(r) ==
    /\ r.status \in {"none", "failed"}
    /\ r.launch # "refused" => r.status = "none"
    /\ ~r.direct /\ r.resumed = 0 /\ r.handle = "none"
    /\ r.ledger = "none" /\ r.answer = "none"
    /\ r.pending = 0 /\ r.probing = 0 /\ ~r.spawning

\* A record that says so for good: no step takes it back.
Settled(r) == r.status = "completed" /\ r.handle = "none"

\* What ties the row of a scan, its files and its processes.
Sound(r) ==
    /\ Workers(r) <= 1
    /\ r.launch # "started" => Unstarted(r)
    /\ r.launch = "preflight" => r.lease
    /\ r.lease => r.launch \in {"preflight", "lost"}
    /\ r.status = "completed" => r.ledger = "completed"
    /\ r.status = "cancelled" /\ r.handle = "active" => r.ledger = "cancelled"
    /\ r.answer = "completed" => Settled(r)

RInv == RunnerTypeOK /\ \A s \in Scans : Sound(scan[s])

\* A record that counts against the slots.
Busy(r) == r.status \in ActiveStatus \/ (r.lease /\ r.launch # "lost")

\* What no step does to the record of a scan.
Kept(r, q) ==
    /\ r.status = "cancelled" => q.status = "cancelled"
    /\ Settled(r) => Settled(q)

\* A step that takes no slot.
Moves(r, q) == q \in ScanRecord /\ Sound(q) /\ Kept(r, q) /\ (Busy(q) => Busy(r))

ScansMove == \A s \in Scans : Moves(scan[s], scan'[s])

-----------------------------------------------------------------------------
(* THE STEPS OF A SCAN *)

LEMMA RInvAtStart == RunnerInit => RInv
<1> SUFFICES ASSUME RunnerInit PROVE RInv
  OBVIOUS
<1>1. NoScan \in ScanRecord
  BY DEF NoScan, ScanRecord
<1>2. RunnerTypeOK
  BY <1>1, ScansAssumption DEF RunnerInit, RunnerTypeOK
<1>3. ASSUME NEW s \in Scans PROVE Sound(scan[s])
  BY DEF RunnerInit, NoScan, Sound, Workers, Unstarted
<1> QED BY <1>2, <1>3 DEF RInv

LEMMA SameMoves == ASSUME NEW r \in ScanRecord, Sound(r) PROVE Moves(r, r)
BY DEF Moves, Kept

\* Most steps concern one scan.
LEMMA OneScanMoves ==
  ASSUME RInv, NEW s \in Scans, NEW record, Moves(scan[s], record),
         scan' = [scan EXCEPT ![s] = record], UNCHANGED <<phase, update, ends>>
  PROVE  RInv' /\ ScansMove
<1>1. scan \in [Scans -> ScanRecord] /\ record \in ScanRecord /\ Sound(record)
  BY DEF RInv, RunnerTypeOK, Moves
<1>2. scan'[s] = record /\ \A t \in Scans \ {s} : scan'[t] = scan[t]
  BY <1>1
<1>3. RunnerTypeOK'
  BY <1>1 DEF RInv, RunnerTypeOK
<1>4. \A t \in Scans : Sound(scan[t])
  BY DEF RInv
<1>5. \A t \in Scans : Sound(scan'[t])
  BY <1>1, <1>2, <1>4
<1>6. ScansMove
  BY <1>1, <1>2, <1>4, SameMoves DEF ScansMove
<1> QED BY <1>3, <1>5, <1>6 DEF RInv

LEMMA RecordOf ==
  ASSUME RInv, NEW s \in Scans PROVE scan[s] \in ScanRecord /\ Sound(scan[s])
BY DEF RInv, RunnerTypeOK

LEMMA ChildErrorMoves ==
  ASSUME RInv, NEW s \in Scans, ChildError(s) PROVE RInv' /\ ScansMove
<1> DEFINE record == [scan[s] EXCEPT !.status = "failed", !.direct = FALSE,
                                     !.handle = "none", !.answer = "error"]
<1>1. scan' = [scan EXCEPT ![s] = record] /\ UNCHANGED <<phase, update, ends>>
  BY DEF ChildError
<1>2. scan[s] \in ScanRecord /\ Sound(scan[s])
  BY RecordOf
<1>3. record \in ScanRecord
  BY <1>2 DEF ScanRecord, ActiveStatus, TerminalStatus
<1>4. Sound(record) /\ Kept(scan[s], record) /\ (Busy(record) => Busy(scan[s]))
  BY <1>2 DEF ChildError, Sound, Workers, Unstarted, Settled, Kept, Busy,
     ScanRecord, ActiveStatus
<1> QED BY <1>1, <1>3, <1>4, OneScanMoves DEF Moves

LEMMA WorkerWritesMoves ==
  ASSUME RInv, NEW s \in Scans, WorkerWrites(s) PROVE RInv' /\ ScansMove
<1>1. PICK next \in {"running", "completed", "failed", "cancelled"} :
         /\ scan[s].ledger \in {"none", "running"}
         /\ scan' = [scan EXCEPT ![s].ledger = next]
  BY DEF WorkerWrites
<1> DEFINE record == [scan[s] EXCEPT !.ledger = next]
<1>2. scan' = [scan EXCEPT ![s] = record] /\ UNCHANGED <<phase, update, ends>>
  BY <1>1 DEF WorkerWrites
<1>3. Moves(scan[s], record)
  BY <1>1, RecordOf DEF WorkerWrites, HasProcess, Moves, Sound, Workers, Unstarted, Settled,
     Kept, Busy, ScanRecord
<1> QED BY <1>2, <1>3, OneScanMoves

LEMMA WorkerExitsMoves ==
  ASSUME RInv, NEW s \in Scans, WorkerExits(s) PROVE RInv' /\ ScansMove
<1>1. scan[s] \in ScanRecord /\ Sound(scan[s])
  BY RecordOf
<1>2. CASE scan[s].direct /\ scan' = [scan EXCEPT ![s].direct = FALSE]
  <2> DEFINE record == [scan[s] EXCEPT !.direct = FALSE]
  <2>1. scan' = [scan EXCEPT ![s] = record] /\ UNCHANGED <<phase, update, ends>>
    BY <1>2 DEF WorkerExits
  <2>2. record \in ScanRecord
    BY <1>1 DEF ScanRecord
  <2>3. Sound(record) /\ Kept(scan[s], record) /\ (Busy(record) => Busy(scan[s]))
    BY <1>1, <1>2 DEF Sound, Workers, Unstarted, Settled, Kept, Busy, ScanRecord
  <2> QED BY <2>1, <2>2, <2>3, OneScanMoves DEF Moves
<1>3. CASE scan[s].resumed > 0 /\ scan' = [scan EXCEPT ![s].resumed = @ - 1]
  <2> DEFINE record == [scan[s] EXCEPT !.resumed = @ - 1]
  <2>1. scan' = [scan EXCEPT ![s] = record] /\ UNCHANGED <<phase, update, ends>>
    BY <1>3 DEF WorkerExits
  <2>2. scan[s].resumed \in Nat /\ scan[s].resumed - 1 \in Nat
    BY <1>1, <1>3 DEF ScanRecord
  <2>3. record \in ScanRecord
    BY <1>1, <2>2 DEF ScanRecord
  <2>4. Sound(record) /\ Kept(scan[s], record) /\ (Busy(record) => Busy(scan[s]))
    BY <1>1, <1>3 DEF Sound, Workers, Unstarted, Settled, Kept, Busy, ScanRecord
  <2> QED BY <2>1, <2>3, <2>4, OneScanMoves DEF Moves
<1> QED BY <1>2, <1>3 DEF WorkerExits

\* What the files say: an end is in the ledger, or the row was running.
LEMMA DiskSays ==
  ASSUME NEW s \in Scans, NEW young, NEW end \in {"failed", "incomplete"}
  PROVE  /\ FromDisk(s, young, end)
              \in {"running", "completed", "cancelled", "incomplete", "failed"}
         /\ FromDisk(s, young, end) = "completed" => scan[s].ledger = "completed"
         /\ FromDisk(s, young, end) = "cancelled" => scan[s].ledger = "cancelled"
BY DEF FromDisk

LEMMA CloseSays ==
  ASSUME NEW s \in Scans, NEW current, NEW quota \in BOOLEAN, NEW killed \in BOOLEAN
  PROVE  /\ Closed(s, current, quota, killed) \in TerminalStatus
         /\ Closed(s, current, quota, killed) = "completed" => current = "completed"
         /\ scan[s].status = "cancelled" /\ current = "cancelled"
              => Closed(s, current, quota, killed) = "cancelled"
<1>1. /\ AfterClose(current, quota, killed) \in TerminalStatus
      /\ AfterClose(current, quota, killed) = "completed" => current = "completed"
      /\ current = "cancelled" => AfterClose(current, quota, killed) = "cancelled"
  BY DEF AfterClose, TerminalStatus
<1> QED BY <1>1 DEF Closed, TerminalStatus

LEMMA CloseEventMoves ==
  ASSUME RInv, NEW s \in Scans, CloseEvent(s) PROVE RInv' /\ ScansMove
<1>1. PICK young \in BOOLEAN, quota \in BOOLEAN, killed \in BOOLEAN,
           end \in {"failed", "incomplete"} :
         LET current == IF scan[s].status = "running" THEN FromDisk(s, young, end)
                                                      ELSE scan[s].status
             final   == Closed(s, current, quota, killed)
         IN  scan' = [scan EXCEPT ![s].status = final, ![s].handle = "none",
                ![s].answer  = IF @ = "none" THEN final ELSE @,
                ![s].pending = IF final = "incomplete" /\ scan[s].ledger = "running" /\ ~quota
                               THEN @ + 1 ELSE @]
  BY DEF CloseEvent
<1> DEFINE current == IF scan[s].status = "running" THEN FromDisk(s, young, end)
                                                    ELSE scan[s].status
           final  == Closed(s, current, quota, killed)
           answer == IF scan[s].answer = "none" THEN final ELSE scan[s].answer
           pending == IF final = "incomplete" /\ scan[s].ledger = "running" /\ ~quota
                      THEN scan[s].pending + 1 ELSE scan[s].pending
           record == [scan[s] EXCEPT !.status = final, !.handle = "none",
                                     !.answer = answer, !.pending = pending]
<1>2. scan[s] \in ScanRecord /\ Sound(scan[s]) /\ scan[s].handle # "none" /\ ~scan[s].direct
  BY RecordOf DEF CloseEvent
<1>3. scan' = [scan EXCEPT ![s] = record] /\ UNCHANGED <<phase, update, ends>>
  <2>1. scan \in [Scans -> ScanRecord]
    BY DEF RInv, RunnerTypeOK
  <2> HIDE DEF final
  <2> QED BY <1>1, <1>2, <2>1 DEF CloseEvent, ScanRecord, final
<1>4. /\ current = "completed" => scan[s].ledger = "completed"
      /\ scan[s].status = "cancelled" => current = "cancelled"
  <2>1. CASE scan[s].status = "running"
    BY <2>1, DiskSays
  <2>2. CASE scan[s].status # "running"
    BY <1>2, <2>2 DEF Sound
  <2> QED BY <2>1, <2>2
<1>5. /\ final \in TerminalStatus
      /\ final = "completed" => current = "completed"
      /\ scan[s].status = "cancelled" => final = "cancelled"
  BY <1>4, CloseSays
<1> HIDE DEF current, final
<1>6. answer \in {"none", "error"} \cup ActiveStatus \cup TerminalStatus /\ pending \in Nat
  BY <1>2, <1>5 DEF ScanRecord
<1>7. answer = "completed" => final = "completed"
  BY <1>2 DEF Sound, Settled
<1> HIDE DEF answer, pending
<1>8. record \in ScanRecord
  BY <1>2, <1>5, <1>6 DEF ScanRecord
<1>9. Sound(record) /\ Kept(scan[s], record) /\ (Busy(record) => Busy(scan[s]))
  BY <1>2, <1>4, <1>5, <1>7 DEF Sound, Workers, Unstarted, Settled, Kept, Busy, ScanRecord,
     ActiveStatus, TerminalStatus
<1> QED BY <1>3, <1>8, <1>9, OneScanMoves DEF Moves

LEMMA CancelledMoves ==
  ASSUME RInv, NEW s \in Scans PROVE Moves(scan[s], Cancelled(s))
<1>1. scan[s] \in ScanRecord /\ Sound(scan[s])
  BY RecordOf
<1>2. CASE ~(scan[s].handle = "active" \/ scan[s].status = "running")
  BY <1>1, <1>2, SameMoves DEF Cancelled
<1>3. CASE scan[s].handle = "active"
  <2>1. Cancelled(s) \in ScanRecord
    BY <1>1, <1>3, ZenonT(60) DEF Cancelled, ScanRecord, TerminalStatus
  <2>2. Sound(Cancelled(s)) /\ Kept(scan[s], Cancelled(s)) /\ (Busy(Cancelled(s)) => Busy(scan[s]))
    BY <1>1, <1>3 DEF Cancelled, Sound, Workers, Unstarted, Settled, Kept, Busy, ScanRecord,
       ActiveStatus
  <2> QED BY <2>1, <2>2 DEF Moves
<1>4. CASE scan[s].handle # "active" /\ scan[s].status = "running"
  <2>1. Cancelled(s) \in ScanRecord
    BY <1>1, <1>4 DEF Cancelled, ScanRecord, TerminalStatus
  <2>2. Sound(Cancelled(s)) /\ Kept(scan[s], Cancelled(s)) /\ (Busy(Cancelled(s)) => Busy(scan[s]))
    BY <1>1, <1>4 DEF Cancelled, Sound, Workers, Unstarted, Settled, Kept, Busy, ScanRecord,
       ActiveStatus
  <2> QED BY <2>1, <2>2 DEF Moves
<1> QED BY <1>2, <1>3, <1>4

LEMMA CancelScanMoves ==
  ASSUME RInv, NEW s \in Scans, CancelScan(s) PROVE RInv' /\ ScansMove
BY CancelledMoves, OneScanMoves DEF CancelScan

-----------------------------------------------------------------------------
(* RECOVERIES *)

\* A recovery that was scheduled or claimed belongs to a launch that went through.
LEMMA RecoverySkippedMoves ==
  ASSUME RInv, NEW s \in Scans, RecoverySkipped(s) PROVE RInv' /\ ScansMove
<1> DEFINE record == [scan[s] EXCEPT !.pending = @ - 1]
<1>1. scan' = [scan EXCEPT ![s] = record] /\ UNCHANGED <<phase, update, ends>>
  BY DEF RecoverySkipped
<1>2. scan[s] \in ScanRecord /\ Sound(scan[s]) /\ scan[s].pending > 0
  BY RecordOf DEF RecoverySkipped
<1>3. scan[s].pending \in Nat /\ scan[s].pending - 1 \in Nat
  BY <1>2 DEF ScanRecord
<1>4. record \in ScanRecord
  BY <1>2, <1>3 DEF ScanRecord
<1>5. Sound(record) /\ Kept(scan[s], record) /\ (Busy(record) => Busy(scan[s]))
  BY <1>2 DEF Sound, Workers, Unstarted, Settled, Kept, Busy, ScanRecord
<1> QED BY <1>1, <1>4, <1>5, OneScanMoves DEF Moves

LEMMA ProbeFailsMoves ==
  ASSUME RInv, NEW s \in Scans, ProbeFails(s) PROVE RInv' /\ ScansMove
<1> DEFINE record == [scan[s] EXCEPT !.probing = @ - 1, !.status = Unclaimed(s)]
<1>1. scan' = [scan EXCEPT ![s] = record] /\ UNCHANGED <<phase, update, ends>>
  BY DEF ProbeFails
<1>2. scan[s] \in ScanRecord /\ Sound(scan[s]) /\ scan[s].probing > 0
  BY RecordOf DEF ProbeFails
<1>3. scan[s].probing \in Nat /\ scan[s].probing - 1 \in Nat
  BY <1>2 DEF ScanRecord
<1>4. record \in ScanRecord
  BY <1>2, <1>3 DEF ScanRecord, Unclaimed, ActiveStatus, TerminalStatus
<1>5. Sound(record) /\ Kept(scan[s], record) /\ (Busy(record) => Busy(scan[s]))
  BY <1>2 DEF Sound, Workers, Unstarted, Settled, Kept, Busy, ScanRecord, Unclaimed,
     ActiveStatus
<1> QED BY <1>1, <1>4, <1>5, OneScanMoves DEF Moves

LEMMA ProbePassesMoves ==
  ASSUME RInv, NEW s \in Scans, ProbePasses(s) PROVE RInv' /\ ScansMove
<1> DEFINE record == [scan[s] EXCEPT !.probing = @ - 1, !.resumed = @ + 1, !.spawning = TRUE]
<1>1. scan' = [scan EXCEPT ![s] = record] /\ UNCHANGED <<phase, update, ends>>
  BY DEF ProbePasses
<1>2. scan[s] \in ScanRecord /\ Sound(scan[s]) /\ scan[s].probing > 0
  BY RecordOf DEF ProbePasses
<1>3. scan[s].probing \in Nat /\ scan[s].probing - 1 \in Nat /\ scan[s].resumed \in Nat
  BY <1>2 DEF ScanRecord
<1>4. scan[s].resumed = 0 /\ ~scan[s].direct
  BY <1>3 DEF ProbePasses, MayResume, HasProcess
<1>5. record \in ScanRecord
  <2>1. scan[s].resumed + 1 \in Nat
    BY <1>3
  <2> QED BY <1>2, <1>3, <2>1 DEF ScanRecord
<1>6. Sound(record) /\ Kept(scan[s], record) /\ (Busy(record) => Busy(scan[s]))
  BY <1>2, <1>4 DEF Sound, Workers, Unstarted, Settled, Kept, Busy, ScanRecord
<1> QED BY <1>1, <1>5, <1>6, OneScanMoves DEF Moves

LEMMA SpawnConfirmedMoves ==
  ASSUME RInv, NEW s \in Scans, SpawnConfirmed(s) PROVE RInv' /\ ScansMove
<1> DEFINE status == IF scan[s].status = "queued" /\ phase # "draining" /\ scan[s].resumed > 0
                     THEN "running" ELSE Unclaimed(s)
           record == [scan[s] EXCEPT !.spawning = FALSE, !.status = status]
<1>1. scan[s] \in ScanRecord /\ Sound(scan[s]) /\ scan[s].spawning
  BY RecordOf DEF SpawnConfirmed
<1>2. scan' = [scan EXCEPT ![s] = record] /\ UNCHANGED <<phase, update, ends>>
  <2>1. scan \in [Scans -> ScanRecord]
    BY DEF RInv, RunnerTypeOK
  <2> QED BY <1>1, <2>1 DEF SpawnConfirmed, ScanRecord
<1>3. /\ scan[s].status # "queued" => status = scan[s].status
      /\ scan[s].status = "queued" => status \in {"running", "incomplete"}
  BY DEF Unclaimed
<1> HIDE DEF status
<1>4. record \in ScanRecord
  BY <1>1, <1>3 DEF ScanRecord, ActiveStatus, TerminalStatus
<1>5. Sound(record) /\ Kept(scan[s], record) /\ (Busy(record) => Busy(scan[s]))
  BY <1>1, <1>3 DEF Sound, Workers, Unstarted, Settled, Kept, Busy, ScanRecord, ActiveStatus
<1> QED BY <1>2, <1>4, <1>5, OneScanMoves DEF Moves

\* The reservations of launches whose owner died hold no slot.
LEMMA ReleasedMoves ==
  ASSUME RInv, NEW gone \in {{}, StaleLeases}, NEW s \in Scans
  PROVE  /\ Moves(scan[s], Released(gone)[s])
         /\ scan[s].launch # "lost" => Released(gone)[s] = scan[s]
<1>1. scan[s] \in ScanRecord /\ Sound(scan[s])
  BY RecordOf
<1>2. CASE s \notin gone
  BY <1>1, <1>2, SameMoves DEF Released
<1>3. CASE s \in gone
  <2> DEFINE record == [scan[s] EXCEPT !.lease = FALSE]
  <2>1. Released(gone)[s] = record /\ scan[s].launch = "lost"
    BY <1>3 DEF Released, StaleLeases
  <2>2. record \in ScanRecord
    BY <1>1 DEF ScanRecord
  <2>3. Sound(record) /\ Kept(scan[s], record) /\ (Busy(record) => Busy(scan[s]))
    BY <1>1, <2>1 DEF Sound, Workers, Unstarted, Settled, Kept, Busy, ScanRecord
  <2> QED BY <2>1, <2>2, <2>3 DEF Moves
<1> QED BY <1>2, <1>3

\* The steps that take a slot find one free.
Takes(s) ==
    /\ update = "none" /\ update' = "none"
    /\ \E gone \in {{}, StaleLeases} : HasRoom(gone)
    /\ \A t \in Scans \ {s} : Moves(scan[t], scan'[t])
    /\ Kept(scan[s], scan'[s])

\* A step that concerns every scan, and one of them more than the others.
LEMMA AllScansMove ==
  ASSUME RInv, NEW s \in Scans, NEW F, NEW record,
         F = [t \in Scans |-> F[t]],
         \A t \in Scans \ {s} : Moves(scan[t], F[t]),
         record \in ScanRecord, Sound(record),
         scan' = [F EXCEPT ![s] = record], UNCHANGED <<phase, update, ends>>
  PROVE  /\ RInv'
         /\ scan'[s] = record
         /\ \A t \in Scans \ {s} : Moves(scan[t], scan'[t])
<1>1. scan'[s] = record /\ \A t \in Scans \ {s} : scan'[t] = F[t]
  OBVIOUS
<1>2. \A t \in Scans : scan'[t] \in ScanRecord /\ Sound(scan'[t])
  BY <1>1 DEF Moves
<1>3. scan' = [t \in Scans |-> scan'[t]]
  OBVIOUS
<1>4. scan' \in [Scans -> ScanRecord]
  BY <1>2, <1>3
<1> QED BY <1>1, <1>2, <1>4 DEF RInv, RunnerTypeOK

LEMMA RecoveryClaimsMoves ==
  ASSUME RInv, NEW s \in Scans, RecoveryClaims(s)
  PROVE  RInv' /\ (ScansMove \/ Takes(s))
<1>1. scan[s] \in ScanRecord /\ Sound(scan[s]) /\ scan[s].pending > 0
      /\ scan[s].status = "incomplete"
  BY RecordOf DEF RecoveryClaims, Recoverable
<1>2. /\ scan[s].pending \in Nat /\ scan[s].pending - 1 \in Nat
      /\ scan[s].journal \in Nat /\ scan[s].journal + 1 \in Nat
      /\ scan[s].probing \in Nat /\ scan[s].probing + 1 \in Nat
  BY <1>1 DEF ScanRecord
<1>3. scan \in [Scans -> ScanRecord]
  BY DEF RInv, RunnerTypeOK
<1>4. PICK gone \in {{}, StaleLeases} :
         \/ /\ HasRoom(gone)
            /\ scan' = [Released(gone) EXCEPT ![s].pending = @ - 1, ![s].journal = @ + 1,
                          ![s].status = "queued", ![s].probing = @ + 1]
         \/ /\ ~HasRoom(gone)
            /\ scan' = [scan EXCEPT ![s].pending = @ - 1, ![s].journal = @ + 1]
  BY DEF RecoveryClaims
<1>5. UNCHANGED <<phase, update, ends>>
  BY DEF RecoveryClaims
<1>6. CASE /\ HasRoom(gone)
           /\ scan' = [Released(gone) EXCEPT ![s].pending = @ - 1, ![s].journal = @ + 1,
                         ![s].status = "queued", ![s].probing = @ + 1]
  <2> DEFINE record == [scan[s] EXCEPT !.pending = @ - 1, !.journal = @ + 1,
                                       !.status = "queued", !.probing = @ + 1]
  <2>1. Released(gone)[s] = scan[s]
    BY <1>1, ReleasedMoves DEF Sound, Unstarted
  <2>2. Released(gone) = [t \in Scans |-> Released(gone)[t]]
    BY DEF Released
  <2>3. scan' = [Released(gone) EXCEPT ![s] = record]
    BY <1>1, <1>6, <2>1, <2>2 DEF ScanRecord
  <2>4. record \in ScanRecord
    BY <1>1, <1>2 DEF ScanRecord, ActiveStatus
  <2>5. Sound(record) /\ Kept(scan[s], record)
    BY <1>1 DEF Sound, Workers, Unstarted, Settled, Kept, ScanRecord
  <2>6. /\ RInv' /\ scan'[s] = record
        /\ \A t \in Scans \ {s} : Moves(scan[t], scan'[t])
    BY <1>5, <2>2, <2>3, <2>4, <2>5, ReleasedMoves, AllScansMove
  <2> QED BY <1>5, <1>6, <2>5, <2>6 DEF Takes, HasRoom
<1>7. CASE scan' = [scan EXCEPT ![s].pending = @ - 1, ![s].journal = @ + 1]
  <2> DEFINE record == [scan[s] EXCEPT !.pending = @ - 1, !.journal = @ + 1]
  <2>1. scan' = [scan EXCEPT ![s] = record]
    BY <1>1, <1>3, <1>7 DEF ScanRecord
  <2>2. record \in ScanRecord
    BY <1>1, <1>2 DEF ScanRecord
  <2>3. Sound(record) /\ Kept(scan[s], record) /\ (Busy(record) => Busy(scan[s]))
    BY <1>1 DEF Sound, Workers, Unstarted, Settled, Kept, Busy, ScanRecord
  <2> QED BY <1>5, <2>1, <2>2, <2>3, OneScanMoves DEF Moves
<1> QED BY <1>4, <1>6, <1>7

-----------------------------------------------------------------------------
(* LAUNCHES *)

\* A row whose scan was running was launched; an end is what the files say.
LEMMA RefreshedMoves ==
  ASSUME RInv, NEW s \in Scans, NEW young, NEW end,
         s \in Running => end \in {"failed", "incomplete"}
  PROVE  /\ Moves(scan[s], Refreshed(s, young, end))
         /\ scan[s].launch = "idle" => Refreshed(s, young, end) = scan[s]
<1>1. scan[s] \in ScanRecord /\ Sound(scan[s])
  BY RecordOf
<1>2. CASE scan[s].status # "running"
  BY <1>1, <1>2, SameMoves DEF Refreshed
<1>3. CASE scan[s].status = "running"
  <2> DEFINE found == FromDisk(s, young, end)
             pending == IF found = "incomplete" /\ scan[s].ledger = "running"
                        THEN scan[s].pending + 1 ELSE scan[s].pending
             record == [scan[s] EXCEPT !.status = found, !.pending = pending]
  <2>1. /\ found \in {"running", "completed", "cancelled", "incomplete", "failed"}
        /\ found = "completed" => scan[s].ledger = "completed"
        /\ found = "cancelled" => scan[s].ledger = "cancelled"
    BY <1>3, DiskSays DEF Running
  <2> HIDE DEF found
  <2>2. Refreshed(s, young, end) = record
    BY <1>1, <1>3 DEF Refreshed, ScanRecord, found
  <2>3. pending \in Nat
    BY <1>1 DEF ScanRecord
  <2> HIDE DEF pending
  <2>4. record \in ScanRecord
    BY <1>1, <2>1, <2>3 DEF ScanRecord, ActiveStatus, TerminalStatus
  <2>5. Sound(record) /\ Kept(scan[s], record) /\ (Busy(record) => Busy(scan[s]))
    BY <1>1, <1>3, <2>1 DEF Sound, Workers, Unstarted, Settled, Kept, Busy, ScanRecord,
       ActiveStatus
  <2> QED BY <1>1, <1>3, <2>2, <2>4, <2>5 DEF Moves, Sound, Unstarted
<1> QED BY <1>2, <1>3

LEMMA AskMoves ==
  ASSUME RInv, NEW s \in Scans, Ask(s) PROVE RInv' /\ ScansMove
<1>1. PICK young \in SUBSET Running, end \in Ends :
         scan' = [AllRefreshed(young, end) EXCEPT ![s].launch = "asked"]
  BY DEF Ask
<1> DEFINE F == AllRefreshed(young, end)
           record == [scan[s] EXCEPT !.launch = "asked"]
<1>2. F = [t \in Scans |-> F[t]] /\ \A t \in Scans : F[t] = Refreshed(t, t \in young, end[t])
  BY DEF AllRefreshed
<1>3. \A t \in Scans : Moves(scan[t], F[t]) /\ (scan[t].launch = "idle" => F[t] = scan[t])
  BY <1>2, RefreshedMoves DEF Ends
<1> HIDE DEF F
<1>4. scan[s] \in ScanRecord /\ Sound(scan[s]) /\ scan[s].launch = "idle"
  BY RecordOf DEF Ask
<1>5. scan' = [F EXCEPT ![s] = record]
  BY <1>1, <1>2, <1>3, <1>4 DEF F
<1>6. record \in ScanRecord
  BY <1>4 DEF ScanRecord
<1>7. Sound(record) /\ Kept(scan[s], record) /\ (Busy(record) => Busy(scan[s]))
  BY <1>4 DEF Sound, Workers, Unstarted, Settled, Kept, Busy, ScanRecord
<1>8. /\ RInv' /\ scan'[s] = record
      /\ \A t \in Scans \ {s} : Moves(scan[t], scan'[t])
  <2>1. UNCHANGED <<phase, update, ends>>
    BY DEF Ask
  <2> QED BY <1>2, <1>3, <1>5, <1>6, <1>7, <2>1, AllScansMove
<1> QED BY <1>6, <1>7, <1>8 DEF ScansMove, Moves

LEMMA ReservedMoves ==
  ASSUME RInv, NEW s \in Scans, Reserved(s) PROVE RInv' /\ Takes(s)
<1>1. scan[s] \in ScanRecord /\ Sound(scan[s]) /\ scan[s].launch = "asked"
  BY RecordOf DEF Reserved
<1>2. PICK gone \in {{}, StaleLeases} :
         /\ HasRoom(gone)
         /\ scan' = [Released(gone) EXCEPT ![s].launch = "preflight", ![s].lease = TRUE]
  BY DEF Reserved
<1> DEFINE record == [scan[s] EXCEPT !.launch = "preflight", !.lease = TRUE]
<1>3. Released(gone)[s] = scan[s]
  BY <1>1, ReleasedMoves
<1>4. Released(gone) = [t \in Scans |-> Released(gone)[t]]
  BY DEF Released
<1>5. scan' = [Released(gone) EXCEPT ![s] = record]
  BY <1>1, <1>2, <1>3, <1>4 DEF ScanRecord
<1>6. record \in ScanRecord
  BY <1>1 DEF ScanRecord
<1>7. Sound(record) /\ Kept(scan[s], record)
  BY <1>1 DEF Sound, Workers, Unstarted, Settled, Kept, ScanRecord
<1>8. UNCHANGED <<phase, update, ends>>
  BY DEF Reserved
<1>9. /\ RInv' /\ scan'[s] = record
      /\ \A t \in Scans \ {s} : Moves(scan[t], scan'[t])
  BY <1>4, <1>5, <1>6, <1>7, <1>8, ReleasedMoves, AllScansMove
<1> QED BY <1>2, <1>7, <1>8, <1>9 DEF Takes, HasRoom

LEMMA LaunchRefusedMoves ==
  ASSUME RInv, NEW s \in Scans, LaunchRefused(s) PROVE RInv' /\ ScansMove
<1>1. scan[s] \in ScanRecord /\ Sound(scan[s])
  BY RecordOf
<1>2. CASE NoSlot(s)
  <2> DEFINE record == [scan[s] EXCEPT !.launch = "refused"]
  <2>1. scan' = [scan EXCEPT ![s] = record] /\ UNCHANGED <<phase, update, ends>>
    BY <1>2 DEF NoSlot
  <2>2. record \in ScanRecord
    BY <1>1 DEF ScanRecord
  <2>3. Sound(record) /\ Kept(scan[s], record) /\ (Busy(record) => Busy(scan[s]))
    BY <1>1, <1>2 DEF NoSlot, Sound, Workers, Unstarted, Settled, Kept, Busy, ScanRecord
  <2> QED BY <2>1, <2>2, <2>3, OneScanMoves DEF Moves
<1>3. CASE PreflightFails(s)
  <2> DEFINE record == [scan[s] EXCEPT !.launch = "refused", !.lease = FALSE]
  <2>1. scan' = [scan EXCEPT ![s] = record] /\ UNCHANGED <<phase, update, ends>>
    BY <1>3 DEF PreflightFails
  <2>2. record \in ScanRecord
    BY <1>1 DEF ScanRecord
  <2>3. Sound(record) /\ Kept(scan[s], record) /\ (Busy(record) => Busy(scan[s]))
    BY <1>1, <1>3 DEF PreflightFails, Sound, Workers, Unstarted, Settled, Kept, Busy,
       ScanRecord
  <2> QED BY <2>1, <2>2, <2>3, OneScanMoves DEF Moves
<1>4. CASE SpawnThrows(s)
  <2> DEFINE record == [scan[s] EXCEPT !.launch = "refused", !.lease = FALSE,
                                       !.status = "failed"]
  <2>1. scan' = [scan EXCEPT ![s] = record] /\ UNCHANGED <<phase, update, ends>>
    BY <1>4 DEF SpawnThrows
  <2>2. record \in ScanRecord
    BY <1>1 DEF ScanRecord, TerminalStatus
  <2>3. Sound(record) /\ Kept(scan[s], record) /\ (Busy(record) => Busy(scan[s]))
    BY <1>1, <1>4 DEF SpawnThrows, Sound, Workers, Unstarted, Settled, Kept, Busy,
       ScanRecord, ActiveStatus
  <2> QED BY <2>1, <2>2, <2>3, OneScanMoves DEF Moves
<1> QED BY <1>2, <1>3, <1>4 DEF LaunchRefused

\* The reservation becomes the row: the slot is the same.
LEMMA SpawnedMoves ==
  ASSUME RInv, NEW s \in Scans, Spawned(s) PROVE RInv' /\ ScansMove
<1> DEFINE record == [scan[s] EXCEPT !.launch = "started", !.lease = FALSE,
                        !.status = "running", !.direct = TRUE, !.handle = "active"]
<1>1. scan' = [scan EXCEPT ![s] = record] /\ UNCHANGED <<phase, update, ends>>
  BY DEF Spawned
<1>2. scan[s] \in ScanRecord /\ Sound(scan[s]) /\ scan[s].launch = "preflight"
  BY RecordOf DEF Spawned
<1>3. record \in ScanRecord
  BY <1>2 DEF ScanRecord, ActiveStatus
<1>4. Sound(record) /\ Kept(scan[s], record) /\ (Busy(record) => Busy(scan[s]))
  BY <1>2 DEF Sound, Workers, Unstarted, Settled, Kept, Busy, ScanRecord
<1> QED BY <1>1, <1>3, <1>4, OneScanMoves DEF Moves

-----------------------------------------------------------------------------
(* THE SERVER *)

LEMMA EveryScanMoves ==
  ASSUME RInv, NEW F, scan' = [t \in Scans |-> F[t]],
         \A t \in Scans : Moves(scan[t], F[t]),
         phase' \in {"down", "booting", "serving", "draining"},
         update' \in {"none", "held", "stale"}, ends' \in 0 .. MaxEnds
  PROVE  RInv' /\ ScansMove
<1>1. \A t \in Scans : scan'[t] = F[t]
  OBVIOUS
<1>2. ScansMove
  BY <1>1 DEF ScansMove
<1>3. scan' \in [Scans -> ScanRecord]
  BY DEF Moves
<1>4. \A t \in Scans : Sound(scan'[t])
  BY <1>1 DEF Moves
<1> QED BY <1>2, <1>3, <1>4 DEF RInv, RunnerTypeOK

LEMMA ReconcileMoves ==
  ASSUME RInv, NEW young \in SUBSET Running, Reconcile(young) PROVE RInv' /\ ScansMove
<1>1. PICK end \in Ends : scan' = AllRefreshed(young, end)
  BY DEF Reconcile
<1> DEFINE F == AllRefreshed(young, end)
<1>2. F = [t \in Scans |-> F[t]] /\ \A t \in Scans : F[t] = Refreshed(t, t \in young, end[t])
  BY DEF AllRefreshed
<1>3. \A t \in Scans : Moves(scan[t], F[t])
  BY <1>2, RefreshedMoves DEF Ends
<1> HIDE DEF F
<1>4. scan' = [t \in Scans |-> F[t]]
  BY <1>1, <1>2 DEF F
<1>5. UNCHANGED <<phase, update, ends>>
  BY DEF Reconcile
<1> QED BY <1>3, <1>4, <1>5, EveryScanMoves DEF RInv, RunnerTypeOK

LEMMA UnchangedMoves ==
  ASSUME RInv, UNCHANGED scan,
         phase' \in {"down", "booting", "serving", "draining"},
         update' \in {"none", "held", "stale"}, ends' \in 0 .. MaxEnds
  PROVE  RInv' /\ ScansMove
<1>1. \A t \in Scans : Moves(scan[t], scan'[t])
  BY SameMoves, RecordOf
<1> QED BY <1>1 DEF RInv, RunnerTypeOK, ScansMove

LEMMA DrainMoves == ASSUME RInv, Drain PROVE RInv' /\ ScansMove
<1> DEFINE F == [t \in Scans |-> IF Active(t) THEN Cancelled(t) ELSE scan[t]]
<1>1. \A t \in Scans : F[t] = IF Active(t) THEN Cancelled(t) ELSE scan[t]
  OBVIOUS
<1>2. \A t \in Scans : Moves(scan[t], F[t])
  BY <1>1, CancelledMoves, SameMoves, RecordOf
<1>3. F = [t \in Scans |-> F[t]]
  OBVIOUS
<1>4. scan' = F
  BY DEF Drain
<1> HIDE DEF F
<1>5. /\ phase' \in {"down", "booting", "serving", "draining"}
      /\ update' \in {"none", "held", "stale"} /\ ends' \in 0 .. MaxEnds
  BY ScansAssumption DEF Drain, RInv, RunnerTypeOK
<1> QED BY <1>2, <1>3, <1>4, <1>5, EveryScanMoves

\* The rows, the ledgers and the journal outlive the process.
LEMMA GoneMoves ==
  ASSUME RInv, Exit \/ Crash PROVE RInv' /\ ScansMove
<1> DEFINE F == [t \in Scans |-> [scan[t] EXCEPT
                    !.direct = FALSE, !.resumed = 0, !.handle = "none", !.answer = "none",
                    !.pending = 0, !.probing = 0, !.spawning = FALSE,
                    !.launch = IF @ \in {"asked", "preflight"} THEN "lost" ELSE @]]
<1>1. ASSUME NEW t \in Scans PROVE Moves(scan[t], F[t])
  <2> DEFINE record == [scan[t] EXCEPT
                    !.direct = FALSE, !.resumed = 0, !.handle = "none", !.answer = "none",
                    !.pending = 0, !.probing = 0, !.spawning = FALSE,
                    !.launch = IF @ \in {"asked", "preflight"} THEN "lost" ELSE @]
  <2>1. scan[t] \in ScanRecord /\ Sound(scan[t])
    BY RecordOf
  <2>2. record \in ScanRecord
    BY <2>1, ZenonT(60) DEF ScanRecord
  <2>3. Sound(record) /\ Kept(scan[t], record) /\ (Busy(record) => Busy(scan[t]))
    BY <2>1 DEF Sound, Workers, Unstarted, Settled, Kept, Busy, ScanRecord
  <2> QED BY <2>2, <2>3 DEF Moves
<1>2. F = [t \in Scans |-> F[t]]
  OBVIOUS
<1>3. scan' = F
  BY DEF Exit, Crash, Gone
<1> HIDE DEF F
<1>4. /\ phase' \in {"down", "booting", "serving", "draining"}
      /\ update' \in {"none", "held", "stale"} /\ ends' \in 0 .. MaxEnds
  <2>1. phase' = "down" /\ update' = (IF update = "held" THEN "stale" ELSE update)
    BY DEF Exit, Crash, Gone
  <2>2. ends' = ends \/ (ends < MaxEnds /\ ends' = ends + 1)
    BY DEF Exit, Crash
  <2> QED BY <2>1, <2>2, ScansAssumption DEF RInv, RunnerTypeOK
<1> QED BY <1>1, <1>2, <1>3, <1>4, EveryScanMoves

LEMMA BootMoves == ASSUME RInv, Boot PROVE RInv' /\ ScansMove
<1> DEFINE status(t) == IF /\ scan[t].status = "running"
                           /\ scan[t].ledger \in {"completed", "cancelled"}
                        THEN scan[t].ledger ELSE "incomplete"
           record(t) == [scan[t] EXCEPT !.pending = 1, !.status = status(t)]
           F == [t \in Scans |-> IF ~Active(t) THEN scan[t] ELSE record(t)]
<1>1. ASSUME NEW t \in Scans PROVE Moves(scan[t], F[t])
  <2>1. scan[t] \in ScanRecord /\ Sound(scan[t])
    BY RecordOf
  <2>2. CASE ~Active(t)
    BY <2>1, <2>2, SameMoves
  <2>3. CASE Active(t)
    <3>1. /\ status(t) \in {"completed", "cancelled", "incomplete"}
          /\ status(t) # "incomplete" => status(t) = scan[t].ledger
      OBVIOUS
    <3> HIDE DEF status
    <3>2. record(t) \in ScanRecord
      BY <2>1, <3>1 DEF ScanRecord, TerminalStatus
    <3>3. Sound(record(t)) /\ Kept(scan[t], record(t)) /\ (Busy(record(t)) => Busy(scan[t]))
      BY <2>1, <2>3, <3>1 DEF Active, Sound, Workers, Unstarted, Settled, Kept, Busy,
         ScanRecord, ActiveStatus
    <3> QED BY <2>3, <3>2, <3>3 DEF Moves
  <2> QED BY <2>2, <2>3
<1>2. F = [t \in Scans |-> F[t]]
  OBVIOUS
<1>3. scan' = F
  BY RecordOf DEF Boot, ScanRecord
<1> HIDE DEF F
<1>4. /\ phase' \in {"down", "booting", "serving", "draining"}
      /\ update' \in {"none", "held", "stale"} /\ ends' \in 0 .. MaxEnds
  BY DEF Boot, RInv, RunnerTypeOK
<1> QED BY <1>1, <1>2, <1>3, <1>4, EveryScanMoves

LEMMA BeginUpdateMoves == ASSUME RInv, BeginUpdate PROVE RInv' /\ ScansMove
<1>1. PICK gone \in {{}, StaleLeases} : Used(gone) = 0 /\ scan' = Released(gone)
  BY DEF BeginUpdate
<1>2. Released(gone) = [t \in Scans |-> Released(gone)[t]]
  BY DEF Released
<1>3. \A t \in Scans : Moves(scan[t], Released(gone)[t])
  BY ReleasedMoves
<1>4. /\ phase' \in {"down", "booting", "serving", "draining"}
      /\ update' \in {"none", "held", "stale"} /\ ends' \in 0 .. MaxEnds
  BY DEF BeginUpdate, RInv, RunnerTypeOK
<1> QED BY <1>1, <1>2, <1>3, <1>4, EveryScanMoves

LEMMA ServerStepMoves == ASSUME RInv, ServerStep PROVE RInv' /\ ScansMove
<1>1. CASE \E young \in SUBSET Running : Reconcile(young)
  BY <1>1, ReconcileMoves
<1>2. CASE EndUpdate \/ Serve
  BY <1>2, UnchangedMoves DEF EndUpdate, Serve, RInv, RunnerTypeOK
<1> QED BY <1>1, <1>2, BeginUpdateMoves, DrainMoves, BootMoves DEF ServerStep

LEMMA ScanStepMoves ==
  ASSUME RInv, NEW s \in Scans, ScanStep(s) PROVE RInv' /\ (ScansMove \/ Takes(s))
BY ChildErrorMoves, WorkerWritesMoves, WorkerExitsMoves, CloseEventMoves, CancelScanMoves,
   RecoverySkippedMoves, RecoveryClaimsMoves, ProbeFailsMoves, ProbePassesMoves,
   SpawnConfirmedMoves DEF ScanStep

-----------------------------------------------------------------------------
(* SLOTS *)

\* With the invariant, what is counted is what is busy.
BusyScans == {s \in Scans : Busy(scan[s])}

LEMMA UsedIsBusy ==
  ASSUME RInv
  PROVE  /\ IsFiniteSet(BusyScans)
         /\ Used(StaleLeases) = Cardinality(BusyScans)
         /\ \A gone \in {{}, StaleLeases} :
              /\ Cardinality(BusyScans) <= Used(gone)
              /\ Used(gone) \in Nat
<1> DEFINE All == {s \in Scans : Active(s) \/ scan[s].lease}
<1>1. All \ StaleLeases = BusyScans
  BY DEF RInv, Sound, Unstarted, StaleLeases, BusyScans, Busy, Active, ActiveStatus
<1>2. IsFiniteSet(All) /\ IsFiniteSet(BusyScans) /\ BusyScans \subseteq All
  BY <1>1, ScansAssumption, FS_Subset
<1>3. Used(StaleLeases) = Cardinality(BusyScans) /\ Used({}) = Cardinality(All)
  <2>1. All \ {} = All
    OBVIOUS
  <2> QED BY <1>1, <2>1 DEF Used
<1>4. Cardinality(BusyScans) <= Cardinality(All)
  BY <1>2, FS_Subset
<1>5. Cardinality(All) \in Nat /\ Cardinality(BusyScans) \in Nat
  BY <1>2, FS_CardinalityType
<1> QED BY <1>2, <1>3, <1>4, <1>5

CapacityInv == RInv /\ CapacityHeld

LEMMA CapacityByMove ==
  ASSUME CapacityInv, RInv', ScansMove, update' = "held" => update = "held"
  PROVE  CapacityHeld'
<1>1. BusyScans' \subseteq BusyScans
  BY DEF ScansMove, Moves, BusyScans
<1>2. Cardinality(BusyScans') <= Cardinality(BusyScans)
  BY <1>1, UsedIsBusy, FS_Subset DEF CapacityInv
<1>3. Used(StaleLeases) = Cardinality(BusyScans) /\ Cardinality(BusyScans) \in Nat
  BY UsedIsBusy, FS_CardinalityType DEF CapacityInv
<1>4. (Used(StaleLeases) = Cardinality(BusyScans))' /\ Cardinality(BusyScans') \in Nat
  <2>1. (IsFiniteSet(BusyScans) /\ Used(StaleLeases) = Cardinality(BusyScans))'
    BY UsedIsBusy, PTL
  <2> QED BY <2>1, FS_CardinalityType
<1> QED BY <1>2, <1>3, <1>4, ScansAssumption DEF CapacityInv, CapacityHeld

\* One slot more, where one was free.
LEMMA CapacityByTake ==
  ASSUME CapacityInv, RInv', NEW s \in Scans, Takes(s)
  PROVE  CapacityHeld'
<1>1. BusyScans' \subseteq BusyScans \cup {s}
  BY DEF Takes, Moves, BusyScans
<1>2. IsFiniteSet(BusyScans) /\ Cardinality(BusyScans) \in Nat
  BY UsedIsBusy, FS_CardinalityType DEF CapacityInv
<1>3. /\ IsFiniteSet(BusyScans \cup {s})
      /\ Cardinality(BusyScans \cup {s}) <= Cardinality(BusyScans) + 1
  <2>1. /\ IsFiniteSet(BusyScans \cup {s})
        /\ Cardinality(BusyScans \cup {s})
             = IF s \in BusyScans THEN Cardinality(BusyScans) ELSE Cardinality(BusyScans) + 1
    BY <1>2, FS_AddElement, Zenon
  <2> QED BY <1>2, <2>1
<1>4. /\ Cardinality(BusyScans') <= Cardinality(BusyScans \cup {s})
      /\ Cardinality(BusyScans') \in Nat /\ Cardinality(BusyScans \cup {s}) \in Nat
  BY <1>1, <1>3, FS_Subset, FS_CardinalityType
<1>5. Cardinality(BusyScans) < MaxConcurrent
  <2>1. PICK gone \in {{}, StaleLeases} : Used(gone) < MaxConcurrent
    BY DEF Takes, HasRoom
  <2> QED BY <1>2, <2>1, UsedIsBusy, ScansAssumption DEF CapacityInv
<1>6. (Used(StaleLeases) = Cardinality(BusyScans))'
  BY UsedIsBusy, PTL
<1>7. update' # "held"
  BY DEF Takes
<1> QED BY <1>2, <1>3, <1>4, <1>5, <1>6, <1>7, ScansAssumption DEF CapacityHeld

LEMMA CapacityAtUpdate ==
  ASSUME CapacityInv, RInv', ScansMove, BeginUpdate
  PROVE  CapacityHeld'
<1>1. PICK gone \in {{}, StaleLeases} : Used(gone) = 0
  BY DEF BeginUpdate
<1>2. IsFiniteSet(BusyScans) /\ Cardinality(BusyScans) = 0
  BY <1>1, UsedIsBusy, FS_CardinalityType DEF CapacityInv
<1>3. BusyScans' \subseteq BusyScans
  BY DEF ScansMove, Moves, BusyScans
<1>4. Cardinality(BusyScans') = 0
  BY <1>2, <1>3, FS_EmptySet
<1>5. (Used(StaleLeases) = Cardinality(BusyScans))'
  BY UsedIsBusy, PTL
<1> QED BY <1>4, <1>5, ScansAssumption DEF CapacityHeld

-----------------------------------------------------------------------------
(* THE RUNNER, AND ITS GATES *)

\* Every step of the gates' specification, as the runner sees it.
RunnerMoves == ScansMove \/ \E s \in Scans : Takes(s)

LEMMA NextMoves ==
  ASSUME CapacityInv, [Next]_vars
  PROVE  CapacityInv' /\ RunnerMoves
<1> USE DEF CapacityInv
<1>1. ASSUME RInv', RunnerMoves, update' = "held" => update = "held" \/ BeginUpdate
      PROVE  CapacityInv' /\ RunnerMoves
  BY <1>1, CapacityByMove, CapacityByTake, CapacityAtUpdate DEF RunnerMoves, Takes
<1>2. ASSUME NEW s \in Scans,
             ScanStep(s) \/ Reserved(s) \/ Ask(s) \/ Spawned(s) \/ LaunchRefused(s)
      PROVE  CapacityInv' /\ RunnerMoves
  <2>1. RInv' /\ RunnerMoves
    BY <1>2, ScanStepMoves, ReservedMoves, AskMoves, SpawnedMoves, LaunchRefusedMoves
       DEF RunnerMoves
  <2>2. UNCHANGED update
    BY <1>2 DEF ScanStep, ChildError, WorkerWrites, WorkerExits, CloseEvent, CancelScan,
       RecoverySkipped, RecoveryClaims, ProbeFails, ProbePasses, SpawnConfirmed, Reserved,
       Ask, Spawned, LaunchRefused, NoSlot, PreflightFails, SpawnThrows
  <2> QED BY <1>1, <2>1, <2>2
<1>3. ASSUME ServerStep PROVE CapacityInv' /\ RunnerMoves
  <2>1. RInv' /\ RunnerMoves
    BY <1>3, ServerStepMoves DEF RunnerMoves
  <2>2. update' = "held" => update = "held" \/ BeginUpdate
    BY <1>3 DEF ServerStep, Reconcile, EndUpdate, Drain, Boot, Serve
  <2> QED BY <1>1, <2>1, <2>2
<1>4. ASSUME Exit \/ Crash PROVE CapacityInv' /\ RunnerMoves
  <2>1. RInv' /\ RunnerMoves
    BY <1>4, GoneMoves DEF RunnerMoves
  <2>2. update' = "held" => update = "held"
    BY <1>4 DEF Exit, Crash, Gone
  <2> QED BY <1>1, <2>1, <2>2
<1>5. ASSUME Quiet \/ UNCHANGED vars PROVE CapacityInv' /\ RunnerMoves
  <2>1. RInv' /\ RunnerMoves
    BY <1>5, UnchangedMoves DEF Quiet, vars, runnerVars, RInv, RunnerTypeOK, RunnerMoves
  <2>2. UNCHANGED update
    BY <1>5 DEF Quiet, vars, runnerVars
  <2> QED BY <1>1, <2>1, <2>2
<1>6. ASSUME NEW g \in Gates, CancelGate(g) PROVE CapacityInv' /\ RunnerMoves
  <2>1. CASE gate[g].linked
    <3>1. scan' = [scan EXCEPT ![g] = Cancelled(g)] /\ UNCHANGED <<phase, update, ends>>
      BY <1>6, <2>1 DEF CancelGate
    <3>2. RInv' /\ RunnerMoves
      BY <3>1, CancelledMoves, OneScanMoves, GatesAssumption DEF RunnerMoves
    <3> QED BY <1>1, <3>1, <3>2
  <2>2. CASE ~gate[g].linked
    <3>1. Quiet
      BY <1>6, <2>2 DEF CancelGate, Quiet, runnerVars
    <3> QED BY <1>5, <3>1
  <2> QED BY <2>1, <2>2
<1>7. ASSUME NEW g \in Gates, TaskStep(g)
      PROVE  Quiet \/ Ask(g) \/ Spawned(g) \/ LaunchRefused(g)
  BY <1>7 DEF TaskStep, Materialized, BaselineRead, ScanStarted, ScanRefused, ScanAnswered,
     Compared, Checked, Commented, SnapshotReleased, CatchReached, Diffed, Rediffed,
     WatchEnds, ScanCalled
<1>8. ASSUME NEW g \in Gates, StartGate(g) \/ ReadGate(g) \/ SubscribeGate(g)
      PROVE  Quiet
  BY <1>8 DEF StartGate, ReadGate, SubscribeGate
<1>9. CASE Next
  BY <1>2, <1>3, <1>4, <1>5, <1>6, <1>7, <1>8, <1>9, GatesAssumption DEF Next, RequestScan
<1> QED BY <1>5, <1>9

LEMMA CapacityAtStart == Init => CapacityInv
<1> SUFFICES ASSUME Init PROVE CapacityInv
  OBVIOUS
<1>1. RInv
  BY RInvAtStart DEF Init
<1>2. BusyScans = {}
  BY DEF Init, RunnerInit, NoScan, BusyScans, Busy, ActiveStatus
<1>3. Used(StaleLeases) = 0
  BY <1>1, <1>2, UsedIsBusy, FS_EmptySet
<1> QED BY <1>1, <1>3, ScansAssumption DEF CapacityInv, CapacityHeld

LEMMA CapacityInvHolds == Spec => []CapacityInv
BY CapacityAtStart, NextMoves, PTL DEF Spec

\* Active rows, reservations and claims of recoveries never exceed the slots of
\* the server (db.ts, reserveScanCapacity), and none is beside the update of an
\* engine.
THEOREM CapacityIsHeld == Spec => []CapacityHeld
BY CapacityInvHolds, PTL DEF CapacityInv

\* A scan never has two workers: neither a recovery that raced another, nor one
\* that raced the close of the first worker, spawns a second (runner.ts,
\* startRecoveredHttpWorker).
THEOREM OneWorkerEach == Spec => []OneWorker
<1>1. CapacityInv => OneWorker
  BY DEF CapacityInv, RInv, Sound, Workers, OneWorker
<1> QED BY <1>1, CapacityInvHolds, PTL

\* A scan that somebody cancelled is cancelled for good, through closes,
\* recoveries, late spawns, crashes and boots.
THEOREM CancelledStays == Spec => CancelledScanStays
<1>1. ASSUME CapacityInv, [Next]_vars
      PROVE  [\A s \in Scans : scan[s].status = "cancelled"
                => scan'[s].status = "cancelled"]_runnerVars
  <2>1. \A s \in Scans : Kept(scan[s], scan'[s])
    BY <1>1, NextMoves DEF RunnerMoves, ScansMove, Takes, Moves
  <2> QED BY <2>1 DEF Kept
<1> QED BY <1>1, CapacityInvHolds, PTL DEF Spec, CancelledScanStays

-----------------------------------------------------------------------------
(* GATES *)

LocalTasks == {"none", "diffing", "rediffing", "watching", "launching", "waiting"}
Undecided  == {"materializing", "baseline", "launching", "waiting", "comparing"}

\* What ties the row of a managed gate, its task and the record of its scan.
ManagedFits(r, q) ==
    /\ r.task \notin {"diffing", "rediffing", "watching"}
    /\ r.task \in {"materializing", "baseline", "launching"} => ~r.linked
    /\ r.task \in Undecided => r.outcome = "none"
    /\ r.seen = "completed" => Settled(q)
    /\ r.linked /\ r.outcome = "decision" => Settled(q)
    /\ r.task # "none" /\ r.status = "cancelled" => r.aborted
    /\ r.task # "none" => r.status \notin {"completed", "error"}
    /\ r.status = "scanning" => r.outcome = "none"

Fits(r, q) ==
    /\ r.kind = "none" => r.status = "none" /\ r.outcome = "none" /\ ~r.linked
                            /\ r.task = "none" /\ r.seen = "none"
    /\ r.kind # "none" => r.status # "none"
    /\ r.kind = "local" => r.task \in LocalTasks /\ r.seen = "none"
    /\ r.kind = "managed" => ManagedFits(r, q)

\* What no step does to the row of a managed gate.
Lasts(r, n) ==
    r.kind = "managed" =>
        /\ n.kind = "managed"
        /\ r.outcome # "none" => n.outcome = r.outcome
        /\ r.status \in Finished => n.status = r.status

Goes(r, n, q) == n \in GateRecord /\ Fits(n, q) /\ Lasts(r, n)

GateMoves(g) == \E n : Becomes(g, n) /\ Goes(gate[g], n, scan[g])

GInv ==
    /\ CapacityInv
    /\ gate \in [Gates -> GateRecord]
    /\ \A g \in Gates : Fits(gate[g], scan[g])

LEMMA FitsKept ==
  ASSUME NEW r, NEW q, NEW p, Fits(r, q), Kept(q, p) PROVE Fits(r, p)
BY DEF Fits, ManagedFits, Kept

LEMMA GoesOn ==
  ASSUME NEW r, NEW m, NEW n, NEW q, Lasts(r, m), Goes(m, n, q) PROVE Goes(r, n, q)
BY DEF Goes, Lasts

\* A local gate: nothing is promised of its status.
LEMMA LocalGoes ==
  ASSUME NEW r \in GateRecord, NEW n \in GateRecord, NEW q,
         r.kind = "local", n.kind = "local", n.status # "none",
         n.task \in LocalTasks, n.seen = "none"
  PROVE  Goes(r, n, q)
BY DEF Goes, Fits, Lasts

LEMMA LocalFailedGoes ==
  ASSUME NEW r \in GateRecord, NEW q, r.kind = "local", Fits(r, q)
  PROVE  Goes(r, LocalFailed(r), q)
<1>1. /\ LocalFailed(r) \in GateRecord
      /\ LocalFailed(r).kind = "local" /\ LocalFailed(r).status # "none"
      /\ LocalFailed(r).task \in LocalTasks /\ LocalFailed(r).seen = "none"
  BY DEF LocalFailed, GateRecord, Fits, LocalTasks, Finished
<1> QED BY <1>1, LocalGoes

LEMMA EvaluatedGoes ==
  ASSUME NEW r \in GateRecord, NEW q, r.kind = "local", Fits(r, q)
  PROVE  Goes(r, Evaluated(r), q)
<1>1. /\ Evaluated(r) \in GateRecord
      /\ Evaluated(r).kind = "local" /\ Evaluated(r).status # "none"
      /\ Evaluated(r).task \in LocalTasks /\ Evaluated(r).seen = "none"
  BY DEF Evaluated, GateRecord, Fits, LocalTasks, Finished
<1> QED BY <1>1, LocalGoes

\* An exception in a task leaves what the row already says.
LEMMA FailedGoes ==
  ASSUME NEW r \in GateRecord, NEW q, r.kind # "none", r.task # "none", Fits(r, q)
  PROVE  Goes(r, Failed(r), q)
<1>1. CASE r.kind = "managed"
  <2> DEFINE n == [r EXCEPT !.task = "unwinding"]
  <2>1. n \in GateRecord
    BY DEF GateRecord
  <2>2. Fits(n, q) /\ Lasts(r, n)
    BY <1>1 DEF Fits, ManagedFits, Lasts, GateRecord, Undecided
  <2> QED BY <1>1, <2>1, <2>2 DEF Failed, Goes
<1>2. CASE r.kind # "managed"
  <2>1. r.kind = "local"
    BY <1>2 DEF GateRecord
  <2> QED BY <2>1, LocalFailedGoes DEF Failed
<1> QED BY <1>1, <1>2

\* The row has its outcome once, while its task is the only one to write it.
LEMMA FinalizedGoes ==
  ASSUME NEW g \in Gates, NEW q, NEW outcome \in {"decision", "error"},
         gate[g] \in GateRecord, Fits(gate[g], q), Managed(g), gate[g].task \in Undecided,
         gate[g].linked /\ outcome = "decision" => Settled(q),
         Finalized(g, gate[g], outcome)
  PROVE  \E n : Becomes(g, n) /\ Goes(gate[g], n, q)
<1> DEFINE r == gate[g]
           checking == [r EXCEPT !.status = "publishing", !.publish = "publishing",
                                 !.outcome = outcome, !.task = "checking"]
           commenting == [r EXCEPT !.status = "evaluating", !.outcome = outcome,
                                   !.task = "commenting"]
           evaluating == [r EXCEPT !.status = "evaluating"]
<1>1. r \in GateRecord /\ r.kind = "managed" /\ r.task # "none" /\ Fits(r, q)
  BY DEF Managed, Undecided
<1>2. CASE r.status = "cancelled" /\ Becomes(g, Failed(r))
  BY <1>1, <1>2, FailedGoes
<1>3. CASE r.status # "cancelled" /\ Becomes(g, checking)
  <2>1. checking \in GateRecord
    BY <1>1 DEF GateRecord
  <2>2. Fits(checking, q) /\ Lasts(r, checking)
    BY <1>1, <1>3 DEF Fits, ManagedFits, Lasts, GateRecord, Undecided, Finished
  <2> QED BY <1>3, <2>1, <2>2 DEF Goes
<1>4. CASE r.status # "cancelled" /\ Becomes(g, commenting)
  <2>1. commenting \in GateRecord
    BY <1>1 DEF GateRecord
  <2>2. Fits(commenting, q) /\ Lasts(r, commenting)
    BY <1>1, <1>4 DEF Fits, ManagedFits, Lasts, GateRecord, Undecided, Finished
  <2> QED BY <1>4, <2>1, <2>2 DEF Goes
<1>5. CASE r.status # "cancelled" /\ Becomes(g, Failed(evaluating))
  <2>1. evaluating \in GateRecord
    BY <1>1 DEF GateRecord
  <2>2. /\ Fits(evaluating, q) /\ Lasts(r, evaluating)
        /\ evaluating.kind # "none" /\ evaluating.task # "none"
    BY <1>1, <1>5 DEF Fits, ManagedFits, Lasts, GateRecord, Undecided, Finished
  <2> QED BY <1>5, <2>1, <2>2, FailedGoes, GoesOn
<1> QED BY <1>2, <1>3, <1>4, <1>5 DEF Finalized

\* The call of startScan, by a task that has nothing to show yet.
LEMMA ScanCalledGoes ==
  ASSUME NEW g \in Gates, NEW q, NEW row \in GateRecord, Fits(row, q), Lasts(gate[g], row),
         row.kind # "none", row.task \in {"materializing", "baseline", "diffing"},
         ScanCalled(g, row)
  PROVE  (Quiet \/ Ask(g)) /\ \E n : Becomes(g, n) /\ Goes(gate[g], n, q)
<1> DEFINE launching == [row EXCEPT !.task = "launching"]
<1>1. CASE Ask(g) /\ Becomes(g, launching)
  <2>1. launching \in GateRecord
    BY DEF GateRecord
  <2>2. Fits(launching, q) /\ Lasts(row, launching)
    BY DEF Fits, ManagedFits, Lasts, GateRecord, Undecided, LocalTasks
  <2> QED BY <1>1, <2>1, <2>2, GoesOn DEF Goes
<1>2. CASE Quiet /\ Becomes(g, Failed(row))
  BY <1>2, FailedGoes, GoesOn
<1> QED BY <1>1, <1>2 DEF ScanCalled

LEMMA GateOf ==
  ASSUME GInv, NEW g \in Gates
  PROVE  /\ gate[g] \in GateRecord /\ Fits(gate[g], scan[g])
         /\ scan[g] \in ScanRecord /\ Sound(scan[g])
BY RecordOf, GatesAssumption DEF GInv, CapacityInv

LEMMA StartGateGoes == ASSUME GInv, NEW g \in Gates, StartGate(g) PROVE GateMoves(g)
<1> DEFINE managed == [NoGate EXCEPT !.kind = "managed", !.status = "resolving",
                                     !.task = "materializing"]
           local == [NoGate EXCEPT !.kind = "local", !.status = "resolving",
                                   !.task = "diffing"]
<1>1. managed \in GateRecord /\ local \in GateRecord
  BY DEF NoGate, GateRecord
<1>2. \A n \in {managed, local} : Fits(n, scan[g]) /\ Lasts(gate[g], n)
  BY DEF StartGate, NoGate, Fits, ManagedFits, Lasts, LocalTasks, Undecided
<1> QED BY <1>1, <1>2 DEF StartGate, GateMoves, Goes

LEMMA MaterializedGoes ==
  ASSUME GInv, NEW g \in Gates, Materialized(g)
  PROVE  (Quiet \/ Ask(g)) /\ GateMoves(g)
<1> DEFINE baseline == [gate[g] EXCEPT !.task = "baseline"]
<1>1. /\ gate[g] \in GateRecord /\ Fits(gate[g], scan[g])
      /\ gate[g].task = "materializing" /\ Managed(g) /\ ~gate[g].linked
  BY GateOf DEF Materialized, Fits, ManagedFits, LocalTasks, GateRecord, Managed
<1>2. CASE Quiet /\ Becomes(g, Failed(gate[g]))
  BY <1>1, <1>2, FailedGoes DEF GateMoves, Managed
<1>3. CASE Quiet /\ (Finalized(g, gate[g], "error") \/ Finalized(g, gate[g], "decision"))
  BY <1>1, <1>3, FinalizedGoes DEF GateMoves, Undecided
<1>4. CASE Quiet /\ Becomes(g, baseline)
  <2>1. baseline \in GateRecord
    BY <1>1 DEF GateRecord
  <2>2. Fits(baseline, scan[g]) /\ Lasts(gate[g], baseline)
    BY <1>1 DEF Fits, ManagedFits, Lasts, GateRecord, Undecided, Managed
  <2> QED BY <1>4, <2>1, <2>2 DEF GateMoves, Goes
<1>5. CASE ScanCalled(g, gate[g])
  BY <1>1, <1>5, ScanCalledGoes DEF GateMoves, Managed, Lasts
<1> QED BY <1>2, <1>3, <1>4, <1>5 DEF Materialized

LEMMA BaselineReadGoes ==
  ASSUME GInv, NEW g \in Gates, BaselineRead(g)
  PROVE  (Quiet \/ Ask(g)) /\ GateMoves(g)
<1>1. /\ gate[g] \in GateRecord /\ Fits(gate[g], scan[g])
      /\ gate[g].task = "baseline" /\ Managed(g)
  BY GateOf DEF BaselineRead, Fits, LocalTasks, GateRecord, Managed
<1>2. CASE Quiet /\ Becomes(g, Failed(gate[g]))
  BY <1>1, <1>2, FailedGoes DEF GateMoves, Managed
<1>3. CASE Quiet /\ Finalized(g, gate[g], "error")
  BY <1>1, <1>3, FinalizedGoes DEF GateMoves, Undecided
<1>4. CASE ScanCalled(g, gate[g])
  BY <1>1, <1>4, ScanCalledGoes DEF GateMoves, Managed, Lasts
<1> QED BY <1>2, <1>3, <1>4 DEF BaselineRead

\* The signal of a cancelled gate is aborted: it does not link a scan.
LEMMA ScanStartedGoes ==
  ASSUME GInv, NEW g \in Gates, ScanStarted(g) PROVE Spawned(g) /\ GateMoves(g)
<1> DEFINE n == [gate[g] EXCEPT !.linked = TRUE, !.task = "waiting",
                    !.status = IF Managed(g) THEN "scanning" ELSE @]
<1>1. /\ gate[g] \in GateRecord /\ Fits(gate[g], scan[g])
      /\ gate[g].task = "launching" /\ ~gate[g].aborted
  BY GateOf DEF ScanStarted
<1>2. n \in GateRecord
  BY <1>1 DEF GateRecord
<1>3. Fits(n, scan[g]) /\ Lasts(gate[g], n)
  BY <1>1 DEF Fits, ManagedFits, Lasts, GateRecord, Undecided, Managed, LocalTasks, Finished
<1> QED BY <1>2, <1>3 DEF ScanStarted, GateMoves, Goes

LEMMA ScanRefusedGoes ==
  ASSUME GInv, NEW g \in Gates, ScanRefused(g) PROVE LaunchRefused(g) /\ GateMoves(g)
<1>1. /\ gate[g] \in GateRecord /\ Fits(gate[g], scan[g]) /\ gate[g].task = "launching"
      /\ gate[g].kind # "none"
  BY GateOf DEF ScanRefused, Fits
<1> QED BY <1>1, FailedGoes DEF ScanRefused, GateMoves

LEMMA LocalEndsGoes ==
  ASSUME GInv, NEW g \in Gates, gate[g].kind = "local", NEW answer, LocalEnds(g, answer)
  PROVE  GateMoves(g)
<1> DEFINE n == [gate[g] EXCEPT !.task = "none"]
<1>1. gate[g] \in GateRecord /\ Fits(gate[g], scan[g])
  BY GateOf
<1>2. CASE Becomes(g, n)
  <2>1. n \in GateRecord
    BY <1>1 DEF GateRecord
  <2>2. n.kind = "local" /\ n.status # "none" /\ n.task \in LocalTasks /\ n.seen = "none"
    BY <1>1 DEF GateRecord, Fits, LocalTasks
  <2> QED BY <1>1, <1>2, <2>1, <2>2, LocalGoes DEF GateMoves
<1>3. CASE Becomes(g, Evaluated(gate[g])) \/ Becomes(g, LocalFailed(gate[g]))
  BY <1>1, <1>3, EvaluatedGoes, LocalFailedGoes DEF GateMoves
<1> QED BY <1>2, <1>3 DEF LocalEnds

LEMMA ScanAnsweredGoes ==
  ASSUME GInv, NEW g \in Gates, ScanAnswered(g) PROVE Quiet /\ GateMoves(g)
<1> DEFINE answer == scan[g].answer
           comparing == [gate[g] EXCEPT !.task = "comparing", !.seen = answer]
<1>1. /\ gate[g] \in GateRecord /\ Fits(gate[g], scan[g]) /\ gate[g].task = "waiting"
      /\ gate[g].kind # "none" /\ scan[g] \in ScanRecord /\ Sound(scan[g])
  BY GateOf DEF ScanAnswered, Fits
<1>2. CASE ~Managed(g) /\ LocalEnds(g, answer)
  BY <1>1, <1>2, LocalEndsGoes DEF ScanAnswered, Managed, GateRecord
<1>3. CASE Becomes(g, Failed(gate[g]))
  BY <1>1, <1>3, FailedGoes DEF ScanAnswered, GateMoves
<1>4. CASE Managed(g) /\ Becomes(g, comparing)
  <2>1. comparing \in GateRecord
    BY <1>1 DEF GateRecord, ScanRecord
  <2>2. Fits(comparing, scan[g]) /\ Lasts(gate[g], comparing)
    BY <1>1, <1>4 DEF Fits, ManagedFits, Lasts, GateRecord, Undecided, Managed, Sound
  <2> QED BY <1>4, <2>1, <2>2 DEF ScanAnswered, GateMoves, Goes
<1>5. CASE Managed(g) /\ Finalized(g, gate[g], DecisionOf(answer))
  <2>1. DecisionOf(answer) = "decision" => Settled(scan[g])
    BY <1>1 DEF DecisionOf, Sound
  <2>2. DecisionOf(answer) \in {"decision", "error"}
    BY DEF DecisionOf
  <2> QED BY <1>1, <1>5, <2>1, <2>2, FinalizedGoes DEF ScanAnswered, GateMoves, Undecided
<1> QED BY <1>2, <1>3, <1>4, <1>5 DEF ScanAnswered

LEMMA ComparedGoes ==
  ASSUME GInv, NEW g \in Gates, Compared(g) PROVE Quiet /\ GateMoves(g)
<1>1. /\ gate[g] \in GateRecord /\ Fits(gate[g], scan[g])
      /\ gate[g].task = "comparing" /\ Managed(g)
  BY GateOf DEF Compared, Fits, LocalTasks, GateRecord, Managed
<1>2. /\ DecisionOf(gate[g].seen) = "decision" => Settled(scan[g])
      /\ DecisionOf(gate[g].seen) \in {"decision", "error"}
  BY <1>1 DEF DecisionOf, Fits, ManagedFits, Managed
<1>3. CASE Becomes(g, Failed(gate[g]))
  BY <1>1, <1>3, FailedGoes DEF Compared, GateMoves, Managed
<1>4. CASE Finalized(g, gate[g], "error") \/ Finalized(g, gate[g], DecisionOf(gate[g].seen))
  BY <1>1, <1>2, <1>4, FinalizedGoes DEF Compared, GateMoves, Undecided
<1> QED BY <1>3, <1>4 DEF Compared

LEMMA CheckedGoes ==
  ASSUME GInv, NEW g \in Gates, Checked(g) \/ Commented(g) PROVE Quiet /\ GateMoves(g)
<1>1. /\ gate[g] \in GateRecord /\ Fits(gate[g], scan[g]) /\ Managed(g)
      /\ gate[g].task \in {"checking", "commenting"}
  BY GateOf DEF Checked, Commented, Fits, LocalTasks, GateRecord, Managed
<1>2. ASSUME Checked(g), NEW answer \in {"published", "failed"},
             Becomes(g, [gate[g] EXCEPT !.publish = answer, !.task = "commenting"])
      PROVE  Quiet /\ GateMoves(g)
  <2> DEFINE n == [gate[g] EXCEPT !.publish = answer, !.task = "commenting"]
  <2>1. n \in GateRecord
    BY <1>1 DEF GateRecord
  <2>2. Fits(n, scan[g]) /\ Lasts(gate[g], n)
    BY <1>1 DEF Fits, ManagedFits, Lasts, GateRecord, Undecided, Managed
  <2> QED BY <1>2, <2>1, <2>2 DEF Checked, GateMoves, Goes
<1>3. CASE Checked(g) /\ Becomes(g, Failed(gate[g]))
  BY <1>1, <1>3, FailedGoes DEF Checked, GateMoves, Managed
<1>4. CASE Commented(g)
  <2> DEFINE n == [gate[g] EXCEPT !.task = "releasing"]
  <2>1. n \in GateRecord
    BY <1>1 DEF GateRecord
  <2>2. Fits(n, scan[g]) /\ Lasts(gate[g], n)
    BY <1>1 DEF Fits, ManagedFits, Lasts, GateRecord, Undecided, Managed
  <2> QED BY <1>4, <2>1, <2>2 DEF Commented, GateMoves, Goes
<1> QED BY <1>2, <1>3, <1>4 DEF Checked

\* The end of the task: an outcome in the row is the gate's, and so is its
\* cancellation.
LEMMA UnwoundGoes ==
  ASSUME NEW r \in GateRecord, NEW q, r.kind = "managed", r.task # "none", Fits(r, q)
  PROVE  Goes(r, Completed(r), q) /\ Goes(r, Unwound(r), q)
<1> DEFINE stopped == [r EXCEPT !.task = "none"]
           completed == [r EXCEPT !.task = "none",
                                  !.status = IF @ = "cancelled" THEN @ ELSE "completed"]
           failed == [r EXCEPT !.task = "none", !.status = "error", !.outcome = "error"]
<1>1. completed \in GateRecord /\ stopped \in GateRecord /\ failed \in GateRecord
  BY ZenonT(60) DEF GateRecord, Finished
<1>2. Fits(completed, q) /\ Lasts(r, completed)
  BY DEF Fits, ManagedFits, Lasts, GateRecord, Undecided, Finished
<1>3. Fits(stopped, q) /\ Lasts(r, stopped)
  BY DEF Fits, ManagedFits, Lasts, GateRecord, Undecided, Finished
<1>4. ASSUME r.status # "cancelled", r.outcome = "none"
      PROVE  Fits(failed, q) /\ Lasts(r, failed)
  BY <1>4 DEF Fits, ManagedFits, Lasts, GateRecord, Undecided, Finished
<1>5. Completed(r) = completed
  BY DEF Completed
<1>6. \/ Unwound(r) = completed
      \/ Unwound(r) = stopped
      \/ r.status # "cancelled" /\ r.outcome = "none" /\ Unwound(r) = failed
  BY <1>5 DEF Unwound, LocalFailed
<1> HIDE DEF completed, stopped, failed
<1> QED BY <1>1, <1>2, <1>3, <1>4, <1>5, <1>6 DEF Goes

LEMMA TaskEndGoes ==
  ASSUME GInv, NEW g \in Gates, SnapshotReleased(g) \/ CatchReached(g)
  PROVE  Quiet /\ GateMoves(g)
<1>1. /\ gate[g] \in GateRecord /\ Fits(gate[g], scan[g]) /\ Managed(g)
      /\ gate[g].task # "none"
  BY GateOf DEF SnapshotReleased, CatchReached, Fits, LocalTasks, GateRecord, Managed
<1> QED BY <1>1, UnwoundGoes DEF SnapshotReleased, CatchReached, GateMoves, Managed

LEMMA LocalTaskGoes ==
  ASSUME GInv, NEW g \in Gates, Diffed(g) \/ Rediffed(g) \/ WatchEnds(g)
  PROVE  (Quiet \/ Ask(g)) /\ GateMoves(g)
<1>1. /\ gate[g] \in GateRecord /\ Fits(gate[g], scan[g]) /\ gate[g].kind = "local"
      /\ gate[g].task \in {"diffing", "rediffing", "watching"}
  BY GateOf DEF Diffed, Rediffed, WatchEnds, Fits, ManagedFits, GateRecord
<1>2. CASE Quiet /\ (Becomes(g, LocalFailed(gate[g])) \/ Becomes(g, Evaluated(gate[g])))
  BY <1>1, <1>2, EvaluatedGoes, LocalFailedGoes DEF GateMoves
<1>3. CASE gate[g].task = "diffing" /\ ScanCalled(g, [gate[g] EXCEPT !.status = "scanning"])
  <2> DEFINE row == [gate[g] EXCEPT !.status = "scanning"]
  <2>1. row \in GateRecord
    BY <1>1 DEF GateRecord
  <2>2. Fits(row, scan[g]) /\ Lasts(gate[g], row) /\ row.kind # "none" /\ row.task = "diffing"
    BY <1>1, <1>3 DEF Fits, Lasts, GateRecord, LocalTasks
  <2> QED BY <1>3, <2>1, <2>2, ScanCalledGoes DEF GateMoves
<1>4. CASE Quiet /\ Becomes(g, [gate[g] EXCEPT !.task = "watching"])
  <2> DEFINE n == [gate[g] EXCEPT !.task = "watching"]
  <2>1. n \in GateRecord
    BY <1>1 DEF GateRecord
  <2>2. n.kind = "local" /\ n.status # "none" /\ n.task \in LocalTasks /\ n.seen = "none"
    BY <1>1 DEF GateRecord, Fits, LocalTasks
  <2> QED BY <1>1, <1>4, <2>1, <2>2, LocalGoes DEF GateMoves
<1>5. CASE WatchEnds(g)
  BY <1>1, <1>5, LocalEndsGoes DEF WatchEnds
<1> QED BY <1>2, <1>3, <1>4, <1>5 DEF Diffed, Rediffed

\* The cancellation aborts the signal of a task that runs.
LEMMA CancelGateGoes ==
  ASSUME GInv, NEW g \in Gates, CancelGate(g) PROVE GateMoves(g)
<1> DEFINE n == [gate[g] EXCEPT !.status = "cancelled",
                    !.aborted = Managed(g) /\ gate[g].task # "none"]
<1>1. /\ gate[g] \in GateRecord /\ Fits(gate[g], scan[g])
      /\ gate[g].kind # "none" /\ gate[g].status \notin Finished
  BY GateOf DEF CancelGate, Terminal
<1>2. n \in GateRecord
  BY <1>1 DEF GateRecord, Finished
<1>3. Fits(n, scan[g]) /\ Lasts(gate[g], n)
  BY <1>1, ZenonT(60) DEF Fits, ManagedFits, Lasts, GateRecord, Undecided, Managed, LocalTasks
<1> QED BY <1>2, <1>3 DEF CancelGate, GateMoves, Goes

\* A read projects the end of a scan on a row that has no outcome.
LEMMA ReadGateGoes ==
  ASSUME GInv, NEW g \in Gates, ReadGate(g) PROVE Quiet /\ GateMoves(g)
<1> DEFINE cancelled == [gate[g] EXCEPT !.status = "cancelled"]
           failed == [gate[g] EXCEPT !.status = "error", !.outcome = "error"]
<1>1. /\ gate[g] \in GateRecord /\ Fits(gate[g], scan[g])
      /\ gate[g].status = "scanning" /\ gate[g].task = "none"
  BY GateOf DEF ReadGate, Orphan
<1>2. cancelled \in GateRecord /\ failed \in GateRecord
  BY <1>1 DEF GateRecord, Finished
<1>3. \A n \in {cancelled, failed} : Fits(n, scan[g]) /\ Lasts(gate[g], n)
  BY <1>1 DEF Fits, ManagedFits, Lasts, GateRecord, Undecided, LocalTasks, Finished
<1> QED BY <1>2, <1>3 DEF ReadGate, GateMoves, Goes

LEMMA SubscribeGateGoes ==
  ASSUME GInv, NEW g \in Gates, SubscribeGate(g) PROVE Quiet /\ GateMoves(g)
<1> DEFINE n == [gate[g] EXCEPT !.task = "rediffing"]
<1>1. /\ gate[g] \in GateRecord /\ Fits(gate[g], scan[g]) /\ gate[g].kind = "local"
  BY GateOf DEF SubscribeGate, Fits, GateRecord, Managed
<1>2. n \in GateRecord
  BY <1>1 DEF GateRecord
<1>3. n.kind = "local" /\ n.status # "none" /\ n.task \in LocalTasks /\ n.seen = "none"
  BY <1>1 DEF GateRecord, Fits, LocalTasks
<1> QED BY <1>1, <1>2, <1>3, LocalGoes DEF SubscribeGate, GateMoves

-----------------------------------------------------------------------------
(* THE THEOREMS *)

\* A task's step, with what it calls of the runner.
LEMMA TaskStepGoes ==
  ASSUME GInv, NEW g \in Gates, TaskStep(g) PROVE GateMoves(g)
BY MaterializedGoes, BaselineReadGoes, ScanStartedGoes, ScanRefusedGoes, ScanAnsweredGoes,
   ComparedGoes, CheckedGoes, TaskEndGoes, LocalTaskGoes DEF TaskStep

\* The row of every gate, in every step.
GatesGo == \A g \in Gates : Goes(gate[g], gate'[g], scan[g])

LEMMA NextGoes ==
  ASSUME GInv, [Next]_vars
  PROVE  gate' \in [Gates -> GateRecord] /\ GatesGo
<1>1. gate \in [Gates -> GateRecord] /\ \A g \in Gates : Goes(gate[g], gate[g], scan[g])
  BY GateOf DEF GInv, Goes, Lasts
<1>2. CASE UNCHANGED gate
  BY <1>1, <1>2 DEF GatesGo
<1>3. ASSUME NEW g \in Gates, GateMoves(g)
      PROVE  gate' \in [Gates -> GateRecord] /\ GatesGo
  <2>1. PICK n : Becomes(g, n) /\ Goes(gate[g], n, scan[g])
    BY <1>3 DEF GateMoves
  <2>2. gate'[g] = n /\ \A t \in Gates \ {g} : gate'[t] = gate[t]
    BY <1>1, <2>1 DEF Becomes
  <2> QED BY <1>1, <2>1, <2>2 DEF Becomes, GatesGo, Goes
<1>4. CASE TasksGone
  <2>1. ASSUME NEW g \in Gates PROVE Goes(gate[g], gate'[g], scan[g])
    <3> DEFINE n == [gate[g] EXCEPT !.task = "none", !.aborted = FALSE, !.seen = "none"]
    <3>1. gate[g] \in GateRecord /\ Fits(gate[g], scan[g])
      BY GateOf
    <3>2. n \in GateRecord
      BY <3>1 DEF GateRecord
    <3>3. Fits(n, scan[g]) /\ Lasts(gate[g], n)
      BY <3>1 DEF Fits, ManagedFits, Lasts, GateRecord, Undecided, LocalTasks
    <3>4. gate'[g] = n
      BY <1>4 DEF TasksGone
    <3> QED BY <3>2, <3>3, <3>4 DEF Goes
  <2>2. gate' = [g \in Gates |-> gate'[g]]
    BY <1>4 DEF TasksGone
  <2>3. gate' \in [Gates -> GateRecord]
    BY <2>1, <2>2 DEF Goes
  <2> QED BY <2>1, <2>3 DEF GatesGo
<1>5. ASSUME NEW g \in Gates,
             StartGate(g) \/ TaskStep(g) \/ CancelGate(g) \/ ReadGate(g) \/ SubscribeGate(g)
      PROVE  GateMoves(g)
  BY <1>5, StartGateGoes, TaskStepGoes, CancelGateGoes, ReadGateGoes, SubscribeGateGoes
<1> QED BY <1>2, <1>3, <1>4, <1>5 DEF Next, vars

LEMMA GInvKept == ASSUME GInv, [Next]_vars PROVE GInv'
<1>1. CapacityInv' /\ \A s \in Scans : Kept(scan[s], scan'[s])
  BY NextMoves DEF GInv, RunnerMoves, ScansMove, Takes, Moves
<1>2. \A g \in Gates : Fits(gate'[g], scan'[g])
  BY <1>1, NextGoes, FitsKept, GatesAssumption DEF GatesGo, Goes
<1> QED BY <1>1, <1>2, NextGoes DEF GInv

LEMMA GInvAtStart == Init => GInv
<1> SUFFICES ASSUME Init PROVE GInv
  OBVIOUS
<1>1. NoGate \in GateRecord /\ \A q : Fits(NoGate, q)
  BY DEF NoGate, GateRecord, Fits
<1> QED BY <1>1, CapacityAtStart DEF Init, GInv

LEMMA GInvHolds == Spec => []GInv
BY GInvAtStart, GInvKept, PTL DEF Spec

\* Every variable of the runner and of its gates has its type.
THEOREM TypeCorrect == Spec => []TypeOK
<1>1. GInv => TypeOK
  BY DEF GInv, CapacityInv, RInv, TypeOK
<1> QED BY <1>1, GInvHolds, PTL

\* The decision of a managed gate that names a scan rests on a completed one
\* (sentinel-managed-executor.ts, #artifact), whatever became of the row, the
\* task or the process since.
THEOREM DecisionNeedsCompletedScan == Spec => []DecisionNeedsScan
<1>1. GInv => DecisionNeedsScan
  BY DEF GInv, Fits, ManagedFits, Managed, Settled, DecisionNeedsScan
<1> QED BY <1>1, GInvHolds, PTL

\* The outcome of a managed gate is written once, and its end is final: no
\* await that returns after a cancellation, and no catch, moves it again.
THEOREM ManagedEndIsFinal == Spec => ManagedEndsForGood
<1>1. ASSUME GInv, [Next]_vars
      PROVE  [\A g \in Gates : Managed(g) =>
                /\ gate[g].outcome # "none" => gate'[g].outcome = gate[g].outcome
                /\ Terminal(g) => gate'[g].status = gate[g].status]_vars
  BY <1>1, NextGoes DEF GatesGo, Goes, Lasts, Managed, Terminal
<1> QED BY <1>1, GInvHolds, PTL DEF Spec, ManagedEndsForGood
=============================================================================
