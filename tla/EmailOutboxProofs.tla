-------------------------- MODULE EmailOutboxProofs --------------------------
(***************************************************************************)
(* For any messages, limits and delays, with writes that fail and a        *)
(* process that dies anywhere: a message is tried at most MaxAttempts      *)
(* times, and one that is finished stays so.  Proofs about EmailOutbox.    *)
(***************************************************************************)
EXTENDS EmailOutbox, TLAPS

\* The attempts a row counts, and the sends of its message: one send is not
\* counted yet while the row is `sending`.
RowFits(row, sent) ==
  /\ row \in OutboxRow
  /\ row.status \in {"queued", "sending"} => row.attempts < MaxAttempts
  /\ row.status = "queued" => sent <= row.attempts
  /\ row.status = "sending" => sent <= row.attempts + 1
  /\ sent \in 0..MaxAttempts

Fits(rows, sends) ==
  /\ DOMAIN rows \subseteq Messages
  /\ \A m \in DOMAIN rows : RowFits(rows[m], sends[m])
  /\ \A m \in Messages \ DOMAIN rows : sends[m] = 0

\* What this process is about to send is claimed, and counted.
Claimed(rows, sends, batch) ==
  \A m \in batch :
    m \in DOMAIN rows /\ rows[m].status = "sending" /\ sends[m] <= rows[m].attempts

BatchInv ==
  /\ worker.current \in worker.batch =>
       worker.current \in DOMAIN outbox /\ outbox[worker.current].status = "sending"
  /\ Claimed(outbox, tries, worker.batch \ {worker.current})

TestingInv ==
  \A m \in testing : m \in DOMAIN outbox /\ outbox[m].status = "sending" /\ ~outbox[m].before

IInv == TypeOK /\ Fits(outbox, tries) /\ BatchInv /\ TestingInv

\* A statement that touches the rows of `ms` and none that is finished.
Touches(rows, next, ms) ==
  /\ DOMAIN next = DOMAIN rows
  /\ ms \subseteq DOMAIN rows
  /\ \A m \in ms : rows[m].status \notin Finished
  /\ \A m \in DOMAIN rows \ ms : next[m] = rows[m]

-----------------------------------------------------------------------------
(* THE STATEMENTS *)

LEMMA InitFits == Init => IInv
<1> SUFFICES ASSUME Init PROVE IInv
  OBVIOUS
<1>1. DOMAIN outbox = {}
  BY DEF Init
<1>2. TypeOK
  <2>1. NewWorker \in Worker
    BY DEF NewWorker, Worker
  <2>2. restarts \in 0..MaxRestarts
    BY EmailAssumption DEF Init
  <2> QED BY <1>1, <2>1, <2>2 DEF Init, TypeOK, NewWorker
<1>3. Fits(outbox, tries)
  BY <1>1 DEF Init, Fits
<1>4. BatchInv /\ TestingInv
  BY DEF Init, NewWorker, BatchInv, TestingInv, Claimed
<1> QED BY <1>2, <1>3, <1>4 DEF IInv

LEMMA EndedFits ==
  ASSUME NEW m, NEW row, NEW sent, RowFits(row, sent), NEW status \in Finished
  PROVE  RowFits(Ended(m, row, status), sent) /\ Ended(m, row, status).status = status
<1> DEFINE body == m \notin Links
           ages == 0..(LinkTtl + 1)
           counts == 0..MaxAttempts
<1>1. Ended(m, row, status) \in OutboxRow
  <2>1. body \in BOOLEAN /\ 0 \in ages /\ 0 \in Nat /\ status \in Statuses
    BY EmailAssumption DEF Statuses, Finished
  <2>2. Ended(m, row, status) = [row EXCEPT !.status = status, !.wait = 0, !.age = 0,
                                            !.before = FALSE, !.body = body]
    BY DEF Ended
  <2>3. OutboxRow = [status: Statuses, attempts: counts, wait: Nat, age: ages,
                     before: BOOLEAN, body: BOOLEAN]
    BY DEF OutboxRow
  <2>4. row \in OutboxRow
    BY DEF RowFits
  <2> HIDE DEF body, ages, counts
  <2> QED BY <2>1, <2>2, <2>3, <2>4
<1>2. Ended(m, row, status).status = status
  BY DEF Ended, RowFits, OutboxRow
<1> QED BY <1>1, <1>2 DEF RowFits, Finished

LEMMA GivenUpFits ==
  ASSUME NEW m, NEW row, NEW sent, RowFits(row, sent), row.status \in {"queued", "sending"}
  PROVE  RowFits(GivenUp(m, row), sent) /\ GivenUp(m, row).status = "failed"
<1> DEFINE ended == Ended(m, row, "failed")
<1>1. RowFits(ended, sent) /\ ended.status = "failed"
  BY EndedFits DEF Finished
<1>2. ended.attempts = row.attempts /\ row.attempts + 1 \in 0..MaxAttempts
  BY EmailAssumption DEF Ended, RowFits, OutboxRow
<1> HIDE DEF ended
<1>3. GivenUp(m, row) = [ended EXCEPT !.attempts = row.attempts + 1]
  BY <1>1, <1>2 DEF GivenUp, ended, RowFits, OutboxRow
<1>4. GivenUp(m, row) \in OutboxRow /\ GivenUp(m, row).status = "failed"
  BY <1>1, <1>2, <1>3 DEF RowFits, OutboxRow
<1> QED BY <1>1, <1>4 DEF RowFits

LEMMA RetriedFits ==
  ASSUME NEW m, NEW row, NEW sent, RowFits(row, sent), row.status = "sending"
  PROVE  RowFits(Retried(m, row), sent)
<1>1. CASE LastAttempt(row)
  BY <1>1, GivenUpFits DEF Retried
<1>2. CASE ~LastAttempt(row)
  <2>1. row.attempts \in 0..(MaxAttempts - 1) /\ row.attempts + 1 < MaxAttempts
        /\ row.attempts + 1 \in 0..MaxAttempts
    BY <1>2, EmailAssumption DEF LastAttempt, RowFits, OutboxRow
  <2>2. RetryDelay[row.attempts] \in Nat
    BY <2>1, EmailAssumption
  <2>3. /\ Requeued(row) \in OutboxRow
        /\ Requeued(row).status = "queued" /\ Requeued(row).attempts = row.attempts + 1
    BY <2>1, <2>2 DEF Requeued, RowFits, OutboxRow, Statuses
  <2> QED BY <1>2, <2>1, <2>3 DEF Retried, RowFits
<1> QED BY <1>1, <1>2

LEMMA CancelledFits ==
  ASSUME NEW rows, NEW sends, Fits(rows, sends), NEW ms \in SUBSET DOMAIN rows,
         \A m \in ms : rows[m].status \notin Finished
  PROVE  Fits(Cancelled(rows, ms), sends) /\ Touches(rows, Cancelled(rows, ms), ms)
<1>1. \A m \in DOMAIN rows : Cancelled(rows, ms)[m] =
        IF m \in ms THEN Ended(m, rows[m], "cancelled") ELSE rows[m]
  BY DEF Cancelled
<1>2. DOMAIN Cancelled(rows, ms) = DOMAIN rows
  BY DEF Cancelled
<1>3. \A m \in DOMAIN rows : RowFits(Cancelled(rows, ms)[m], sends[m])
  BY <1>1, EndedFits DEF Fits, Finished
<1> QED BY <1>1, <1>2, <1>3 DEF Fits, Touches

LEMMA BodyLeftFits ==
  ASSUME NEW rows, NEW sends, Fits(rows, sends), NEW ms
  PROVE  /\ Fits(BodyLeft(rows, ms), sends)
         /\ DOMAIN BodyLeft(rows, ms) = DOMAIN rows
         /\ \A m \in DOMAIN rows \ ms : BodyLeft(rows, ms)[m] = rows[m]
         /\ \A m \in DOMAIN rows : BodyLeft(rows, ms)[m].status = rows[m].status
<1> DEFINE left(m) == [rows[m] EXCEPT !.body = TRUE]
<1>1. \A m \in DOMAIN rows : BodyLeft(rows, ms)[m] = IF m \in ms THEN left(m) ELSE rows[m]
  BY DEF BodyLeft
<1>2. DOMAIN BodyLeft(rows, ms) = DOMAIN rows
  BY DEF BodyLeft
<1>3. ASSUME NEW m \in DOMAIN rows
      PROVE  RowFits(left(m), sends[m]) /\ left(m).status = rows[m].status
  <2>1. RowFits(rows[m], sends[m])
    BY DEF Fits
  <2>2. /\ left(m) \in OutboxRow /\ left(m).status = rows[m].status
        /\ left(m).attempts = rows[m].attempts
    BY <2>1 DEF RowFits, OutboxRow
  <2> QED BY <2>1, <2>2 DEF RowFits
<1> HIDE DEF left
<1> QED BY <1>1, <1>2, <1>3 DEF Fits

LEMMA ResolvedFits ==
  ASSUME NEW rows, NEW sends, Fits(rows, sends), NEW m \in DOMAIN rows, NEW row,
         RowFits(row, sends[m]), rows[m].status \notin Finished
  PROVE  Fits(Resolved(rows, m, row), sends) /\ Touches(rows, Resolved(rows, m, row), {m})
BY DEF Resolved, Fits, Touches

\* A recovery: what a dead process was sending, and nothing else.
LEMMA RecoveredFits ==
  ASSUME NEW sends, Fits(outbox, sends), NEW ms \in SUBSET Interrupted
  PROVE  Fits(Recovered(ms), sends) /\ Touches(outbox, Recovered(ms), ms)
<1>1. \A m \in ms : m \in DOMAIN outbox /\ outbox[m].status = "sending"
  BY DEF Interrupted
<1>2. \A m \in DOMAIN outbox :
        Recovered(ms)[m] = IF m \in ms THEN AfterInterruption(m) ELSE outbox[m]
  BY DEF Recovered
<1>3. DOMAIN Recovered(ms) = DOMAIN outbox
  BY DEF Recovered
<1>4. ASSUME NEW m \in ms PROVE RowFits(AfterInterruption(m), sends[m])
  <2>1. RowFits(outbox[m], sends[m]) /\ outbox[m].status = "sending"
    BY <1>1 DEF Fits
  <2> QED BY <2>1, GivenUpFits, RetriedFits DEF AfterInterruption
<1>5. \A m \in DOMAIN outbox : RowFits(Recovered(ms)[m], sends[m])
  BY <1>2, <1>4 DEF Fits
<1> QED BY <1>1, <1>2, <1>3, <1>5 DEF Fits, Touches, Finished

-----------------------------------------------------------------------------
(* THE WORKER *)

LEMMA FitsGrow ==
  ASSUME NEW rows, NEW sends \in [Messages -> Nat], Fits(rows, sends), NEW m \in DOMAIN rows,
         rows[m].status = "sending", sends[m] <= rows[m].attempts
  PROVE  Fits(rows, [sends EXCEPT ![m] = @ + 1])
<1> DEFINE more == [sends EXCEPT ![m] = @ + 1]
<1>1. more[m] = sends[m] + 1 /\ \A n \in Messages \ {m} : more[n] = sends[n]
  BY DEF Fits
<1>2. RowFits(rows[m], more[m])
  BY <1>1, EmailAssumption DEF Fits, RowFits, OutboxRow
<1> QED BY <1>1, <1>2 DEF Fits

\* The worker after a step: idle, or with a claimed batch.
WorkerFits(w) ==
  /\ w \in Worker
  /\ w.stage # "sending" => w.batch = {} /\ w.current = None
  /\ w.stage = "sending" => w.current \in w.batch

LEMMA TickOverFits ==
  ASSUME worker \in Worker PROVE WorkerFits(TickOver) /\ TickOver.batch = {}
BY DEF TickOver, Worker, WorkerFits

\* The loop between two awaits: some rows of the batch are cancelled, at most
\* one is handed to the provider, and the rest stays claimed.
LEMMA LoopFits ==
  ASSUME NEW rows, NEW batch \in SUBSET (Notices \cup Links),
         Fits(rows, tries), tries \in [Messages -> Nat], worker \in Worker,
         Claimed(rows, tries, batch), LoopRuns(batch, rows)
  PROVE  /\ Fits(outbox', tries') /\ tries' \in [Messages -> Nat]
         /\ Touches(rows, outbox', batch)
         /\ \A m \in Messages \ batch : tries'[m] = tries[m]
         /\ WorkerFits(worker')
         /\ BatchInv'
<1>1. PICK skipped \in SUBSET batch :
        \/ \E m \in batch \ skipped :
             /\ outbox' = Cancelled(rows, skipped)
             /\ worker' = [worker EXCEPT !.stage = "sending", !.batch = batch \ skipped,
                                         !.current = m]
             /\ tries' = [tries EXCEPT ![m] = @ + 1]
        \/ /\ skipped = batch
           /\ outbox' = Cancelled(rows, batch)
           /\ worker' = TickOver
           /\ UNCHANGED tries
        \/ \E half \in SUBSET skipped :
             /\ outbox' = BodyLeft(Cancelled(rows, skipped), half)
             /\ worker' = TickOver
             /\ UNCHANGED tries
  BY DEF LoopRuns
<1>2. skipped \in SUBSET DOMAIN rows /\ \A m \in batch : rows[m].status \notin Finished
  BY DEF Claimed, Finished
<1> DEFINE next == Cancelled(rows, skipped)
<1>3. Fits(next, tries) /\ Touches(rows, next, skipped)
  BY <1>2, CancelledFits
<1>4. Touches(rows, next, batch) /\ Claimed(next, tries, batch \ skipped)
  BY <1>2, <1>3 DEF Touches, Claimed
<1>5. CASE \E m \in batch \ skipped :
             /\ outbox' = Cancelled(rows, skipped)
             /\ worker' = [worker EXCEPT !.stage = "sending", !.batch = batch \ skipped,
                                         !.current = m]
             /\ tries' = [tries EXCEPT ![m] = @ + 1]
  <2>1. PICK m \in batch \ skipped :
             /\ outbox' = next
             /\ worker' = [worker EXCEPT !.stage = "sending", !.batch = batch \ skipped,
                                         !.current = m]
             /\ tries' = [tries EXCEPT ![m] = @ + 1]
    BY <1>5
  <2> HIDE DEF next
  <2>2. m \in Messages /\ m \in DOMAIN next /\ next[m].status = "sending"
        /\ tries[m] <= next[m].attempts
    BY <1>4 DEF Claimed, Messages
  <2>3. Fits(outbox', tries') /\ tries' \in [Messages -> Nat]
    <3>1. Fits(next, [tries EXCEPT ![m] = @ + 1])
      BY <1>3, <2>2, FitsGrow
    <3>2. tries[m] + 1 \in Nat
      BY <2>2
    <3> QED BY <2>1, <3>1, <3>2
  <2>4. \A n \in Messages \ {m} : tries'[n] = tries[n]
    BY <2>1
  <2>5. /\ worker'.current = m /\ worker'.batch = batch \ skipped
        /\ WorkerFits(worker')
    BY <2>1, <2>2 DEF Worker, WorkerFits
  <2>6. BatchInv'
    <3>1. \A n \in (batch \ skipped) \ {m} : n \in Messages
      BY DEF Messages
    <3> QED BY <1>4, <2>1, <2>2, <2>4, <2>5, <3>1 DEF BatchInv, Claimed
  <2> QED BY <1>4, <2>1, <2>3, <2>4, <2>5, <2>6
<1>6. CASE outbox' = next /\ worker' = TickOver /\ UNCHANGED tries
  <2> HIDE DEF next
  <2> QED BY <1>3, <1>4, <1>6, TickOverFits DEF BatchInv, Claimed
<1>7. CASE \E half \in SUBSET skipped :
             /\ outbox' = BodyLeft(next, half)
             /\ worker' = TickOver
             /\ UNCHANGED tries
  <2> HIDE DEF next
  <2>1. PICK half \in SUBSET skipped : outbox' = BodyLeft(next, half)
    BY <1>7
  <2>2. Fits(outbox', tries)
    BY <1>3, <2>1, BodyLeftFits
  <2>3. Touches(rows, outbox', batch)
    BY <1>3, <1>4, <2>1, BodyLeftFits DEF Touches
  <2> QED BY <1>7, <2>2, <2>3, TickOverFits DEF BatchInv, Claimed
<1> QED BY <1>1, <1>5, <1>6, <1>7

\* What FinishedForGood asks of a step.
FinishedKept ==
  \A m \in DOMAIN outbox :
    outbox[m].status \in Finished =>
      outbox'[m].status = outbox[m].status /\ tries'[m] = tries[m]

LEMMA TouchesTwice ==
  ASSUME NEW rows, NEW mid, NEW next, NEW ms, NEW ns,
         Touches(rows, mid, ms), Touches(mid, next, ns)
  PROVE  Touches(rows, next, ms \cup ns)
<1>1. DOMAIN next = DOMAIN rows /\ ms \cup ns \subseteq DOMAIN rows
  BY DEF Touches
<1>2. \A m \in ms \cup ns : rows[m].status \notin Finished
  BY DEF Touches
<1>3. \A m \in DOMAIN rows \ (ms \cup ns) : next[m] = rows[m]
  BY DEF Touches
<1> QED BY <1>1, <1>2, <1>3 DEF Touches

\* Most steps touch the rows of somebody who is awaited by nobody's test send.
LEMMA TouchStep ==
  ASSUME IInv, NEW ms, Touches(outbox, outbox', ms), Fits(outbox', tries'),
         tries' \in [Messages -> Nat], \A m \in Messages \ ms : tries'[m] = tries[m],
         WorkerFits(worker'), BatchInv',
         testing' \subseteq testing, ms \cap testing' = {},
         UNCHANGED <<provider, restarts>>
  PROVE  IInv' /\ FinishedKept
<1>1. TypeOK'
  BY DEF IInv, TypeOK, Fits, RowFits, WorkerFits
<1>2. TestingInv'
  BY DEF IInv, TestingInv, Touches
<1>3. FinishedKept
  BY DEF IInv, TypeOK, Touches, FinishedKept
<1> QED BY <1>1, <1>2, <1>3 DEF IInv

LEMMA WorkerOf ==
  ASSUME IInv
  PROVE  /\ worker \in Worker /\ WorkerFits(worker)
         /\ worker.batch \in SUBSET (Notices \cup Links)
         /\ tries \in [Messages -> Nat]
         /\ testing \subseteq Tests /\ Tests \cap (Notices \cup Links) = {}
BY EmailAssumption DEF IInv, TypeOK, WorkerFits, Worker

LEMMA NoTouch == ASSUME NEW rows PROVE Touches(rows, rows, {})
BY DEF Touches

LEMMA BootRowsFit ==
  ASSUME IInv
  PROVE  /\ Fits(BootRows, tries) /\ Interrupted \cap testing = {}
         /\ \E ms \in SUBSET Interrupted : Touches(outbox, BootRows, ms)
<1>1. Interrupted \cap testing = {}
  BY DEF IInv, TestingInv, Interrupted
<1>2. CASE worker.recovered
  BY <1>1, <1>2, NoTouch DEF BootRows, IInv
<1>3. CASE ~worker.recovered
  BY <1>1, <1>3, RecoveredFits DEF BootRows, IInv
<1> QED BY <1>2, <1>3

LEMMA TickStartsKeeps == ASSUME IInv, TickStarts PROVE IInv' /\ FinishedKept
<1> DEFINE rows == BootRows
           dead == DeadLinks(rows)
<1>1. PICK ms \in SUBSET Interrupted : Touches(outbox, rows, ms)
  BY BootRowsFit
<1>2. Fits(rows, tries)
  BY BootRowsFit
<1>3. dead \in SUBSET DOMAIN rows /\ \A m \in dead : rows[m].status \notin Finished
  BY DEF DeadLinks, Finished
<1>4. outbox' = Cancelled(rows, dead) /\ UNCHANGED <<provider, testing, restarts, tries>>
  BY DEF TickStarts
<1>5. dead \cap testing = {}
  BY WorkerOf DEF DeadLinks
<1> HIDE DEF rows, dead
<1>6. Fits(outbox', tries') /\ Touches(outbox, outbox', ms \cup dead)
  BY <1>1, <1>2, <1>3, <1>4, CancelledFits, TouchesTwice
<1>7. WorkerFits(worker') /\ worker'.batch = {}
  <2>1. (provider = "ready") \in BOOLEAN
    OBVIOUS
  <2> QED BY <2>1, WorkerOf DEF TickStarts, WorkerFits, Worker
<1>8. BatchInv'
  BY <1>7 DEF BatchInv, Claimed
<1> QED BY <1>1, <1>4, <1>5, <1>6, <1>7, <1>8, BootRowsFit, WorkerOf, TouchStep

LEMMA TickFailsKeeps == ASSUME IInv, TickFails PROVE IInv' /\ FinishedKept
<1>1. UNCHANGED <<provider, testing, restarts, tries>> /\ worker.batch = {}
  BY WorkerOf DEF TickFails, WorkerFits
<1>2. CASE /\ UNCHANGED worker
           /\ \E ms \in SUBSET Interrupted : \E half \in SUBSET ms :
                outbox' = BodyLeft(Recovered(ms), half)
  <2>0. PICK ms \in SUBSET Interrupted :
          \E half \in SUBSET ms : outbox' = BodyLeft(Recovered(ms), half)
    BY <1>2
  <2>1. PICK half \in SUBSET ms : outbox' = BodyLeft(Recovered(ms), half)
    BY <2>0
  <2>2. Fits(Recovered(ms), tries) /\ Touches(outbox, Recovered(ms), ms)
    BY RecoveredFits DEF IInv
  <2>3. Fits(outbox', tries') /\ Touches(outbox, outbox', ms)
    BY <1>1, <2>1, <2>2, BodyLeftFits DEF Touches
  <2>4. BatchInv'
    BY <1>1, <1>2 DEF BatchInv, Claimed
  <2> QED BY <1>1, <1>2, <2>3, <2>4, BootRowsFit, WorkerOf, TouchStep
<1>3. CASE outbox' = BootRows /\ worker' = [worker EXCEPT !.recovered = TRUE]
  <2>1. PICK ms \in SUBSET Interrupted : Touches(outbox, outbox', ms)
    BY <1>3, BootRowsFit
  <2>2. WorkerFits(worker') /\ worker'.batch = {}
    BY <1>1, <1>3, WorkerOf DEF WorkerFits, Worker
  <2>3. BatchInv'
    BY <2>2 DEF BatchInv, Claimed
  <2> QED BY <1>1, <1>3, <2>1, <2>2, <2>3, BootRowsFit, WorkerOf, TouchStep
<1> QED BY <1>2, <1>3 DEF TickFails

LEMMA IdleKeeps ==
  ASSUME IInv, NothingToSend \/ ClaimFails PROVE IInv' /\ FinishedKept
<1>1. worker' = TickOver /\ UNCHANGED <<outbox, provider, testing, restarts, tries>>
  BY DEF NothingToSend, ClaimFails
<1>2. WorkerFits(worker') /\ worker'.batch = {}
  BY <1>1, WorkerOf, TickOverFits
<1>3. BatchInv'
  BY <1>2 DEF BatchInv, Claimed
<1> QED BY <1>1, <1>2, <1>3, NoTouch, WorkerOf, TouchStep DEF IInv

\* A claim counts nothing: the attempt is counted with its outcome.
LEMMA ClaimsKeeps == ASSUME IInv, Claims PROVE IInv' /\ FinishedKept
<1>1. PICK batch \in Batches : LoopRuns(batch, ClaimedRows(batch))
  BY DEF Claims
<1> DEFINE rows == ClaimedRows(batch)
<1>2. batch \in SUBSET Due
  BY DEF Batches
<1>3. \A m \in batch : m \in DOMAIN outbox /\ m \notin Tests /\ outbox[m].status = "queued"
  BY <1>2 DEF Due
<1>4. batch \in SUBSET (Notices \cup Links)
  BY <1>3 DEF IInv, Fits, Messages
<1>5. /\ DOMAIN rows = DOMAIN outbox
      /\ \A m \in DOMAIN outbox :
           rows[m] = IF m \in batch THEN [outbox[m] EXCEPT !.status = "sending"] ELSE outbox[m]
  BY DEF ClaimedRows
<1>6. ASSUME NEW m \in batch
      PROVE  /\ RowFits(rows[m], tries[m]) /\ rows[m].status = "sending"
             /\ tries[m] <= rows[m].attempts
  <2> DEFINE row == [outbox[m] EXCEPT !.status = "sending"]
  <2>1. RowFits(outbox[m], tries[m]) /\ outbox[m].status = "queued" /\ rows[m] = row
    BY <1>3, <1>5 DEF IInv, Fits
  <2>2. row \in OutboxRow /\ row.status = "sending" /\ row.attempts = outbox[m].attempts
    BY <2>1 DEF RowFits, OutboxRow, Statuses
  <2>3. row.attempts \in Nat
    BY <2>2, EmailAssumption DEF OutboxRow
  <2> HIDE DEF row, rows
  <2> QED BY <2>1, <2>2, <2>3, EmailAssumption DEF RowFits
<1> HIDE DEF rows
<1>7. Fits(rows, tries)
  BY <1>3, <1>5, <1>6 DEF IInv, Fits
<1>8. Claimed(rows, tries, batch) /\ Touches(outbox, rows, batch)
  BY <1>3, <1>5, <1>6 DEF Claimed, Touches, Finished
<1>9. UNCHANGED <<provider, testing, restarts>> /\ LoopRuns(batch, rows)
  BY <1>1 DEF Claims, rows
<1>10. /\ Fits(outbox', tries') /\ tries' \in [Messages -> Nat]
       /\ Touches(rows, outbox', batch)
       /\ \A m \in Messages \ batch : tries'[m] = tries[m]
       /\ WorkerFits(worker') /\ BatchInv'
  BY <1>4, <1>7, <1>8, <1>9, WorkerOf, LoopFits
<1>11. Touches(outbox, outbox', batch)
  <2>1. Touches(outbox, outbox', batch \cup batch)
    BY <1>8, <1>10, TouchesTwice
  <2> QED BY <2>1 DEF Touches
<1> QED BY <1>4, <1>9, <1>10, <1>11, WorkerOf, TouchStep

\* The row that is being sent, and what becomes of it.
LEMMA CurrentRow ==
  ASSUME IInv, worker.stage = "sending"
  PROVE  /\ worker.current \in worker.batch /\ worker.current \in Notices \cup Links
         /\ worker.current \in DOMAIN outbox /\ outbox[worker.current].status = "sending"
         /\ RowFits(outbox[worker.current], tries[worker.current])
         /\ Claimed(outbox, tries, worker.batch \ {worker.current})
BY WorkerOf DEF WorkerFits, IInv, BatchInv, Fits

LEMMA OutcomeFits ==
  ASSUME IInv, NEW m \in DOMAIN outbox, outbox[m].status = "sending",
         NEW rows \in {MarkedSent(outbox, m), Resolved(outbox, m, GivenUp(m, outbox[m])),
                       Resolved(outbox, m, Retried(m, outbox[m]))}
  PROVE  Fits(rows, tries) /\ Touches(outbox, rows, {m})
<1>1. RowFits(outbox[m], tries[m]) /\ Fits(outbox, tries) /\ outbox[m].status \notin Finished
  BY DEF IInv, Fits, Finished
<1>2. RowFits(Ended(m, outbox[m], "sent"), tries[m])
  BY <1>1, EndedFits DEF Finished
<1>3. RowFits(GivenUp(m, outbox[m]), tries[m]) /\ RowFits(Retried(m, outbox[m]), tries[m])
  BY <1>1, GivenUpFits, RetriedFits
<1> QED BY <1>1, <1>2, <1>3, ResolvedFits DEF MarkedSent

LEMMA SendEndsKeeps == ASSUME IInv, SendEnds PROVE IInv' /\ FinishedKept
<1> DEFINE m == worker.current
           batch == worker.batch \ {m}
<1>1. worker.stage = "sending" /\ UNCHANGED <<provider, testing, restarts>>
  BY DEF SendEnds
<1>2. PICK rows \in Answered(m) : LoopRuns(batch, rows)
  BY DEF SendEnds
<1>3. Fits(rows, tries) /\ Touches(outbox, rows, {m})
  BY <1>1, CurrentRow, OutcomeFits DEF Answered
<1>4. batch \in SUBSET (Notices \cup Links) /\ {m} \cup batch \subseteq Notices \cup Links
  BY <1>1, WorkerOf, CurrentRow
<1>5. Claimed(rows, tries, batch)
  BY <1>1, <1>3, CurrentRow DEF Claimed, Touches
<1> HIDE DEF batch
<1>6. /\ Fits(outbox', tries') /\ tries' \in [Messages -> Nat]
      /\ Touches(rows, outbox', batch)
      /\ \A n \in Messages \ batch : tries'[n] = tries[n]
      /\ WorkerFits(worker') /\ BatchInv'
  BY <1>2, <1>3, <1>4, <1>5, WorkerOf, LoopFits
<1>7. Touches(outbox, outbox', {m} \cup batch)
  BY <1>3, <1>6, TouchesTwice
<1> QED BY <1>1, <1>4, <1>6, <1>7, WorkerOf, TouchStep

LEMMA SendUnrecordedKeeps == ASSUME IInv, SendUnrecorded PROVE IInv' /\ FinishedKept
<1> DEFINE m == worker.current
<1>1. /\ worker.stage = "sending" /\ worker' = TickOver
      /\ UNCHANGED <<provider, testing, restarts, tries>>
  BY DEF SendUnrecorded
<1>2. WorkerFits(worker') /\ BatchInv'
  BY <1>1, WorkerOf, TickOverFits DEF BatchInv, Claimed
<1>3. PICK rows \in {outbox, MarkedSent(outbox, m), Resolved(outbox, m, GivenUp(m, outbox[m]))} :
        outbox' = rows \/ outbox' = BodyLeft(rows, {m})
  BY DEF SendUnrecorded
<1>4. Fits(rows, tries) /\ Touches(outbox, rows, {m})
  <2>1. CASE rows = outbox
    BY <1>1, <2>1, CurrentRow DEF IInv, Touches, Finished
  <2>2. CASE rows # outbox
    BY <1>1, <1>3, <2>2, CurrentRow, OutcomeFits
  <2> QED BY <2>1, <2>2
<1>5. Fits(outbox', tries') /\ Touches(outbox, outbox', {m})
  BY <1>1, <1>3, <1>4, BodyLeftFits DEF Touches
<1> QED BY <1>1, <1>2, <1>5, CurrentRow, WorkerOf, TouchStep

-----------------------------------------------------------------------------
(* REQUESTS, THE CLOCK AND THE PROCESS *)

LEMMA NewRowFits ==
  ASSUME NEW status \in {"queued", "sending"}
  PROVE  /\ RowFits(NewRow(status), 0) /\ NewRow(status).status = status
         /\ NewRow(status).attempts = 0 /\ ~NewRow(status).before
<1>1. NewRow(status) \in OutboxRow
  BY EmailAssumption DEF NewRow, OutboxRow, Statuses
<1> QED BY <1>1, EmailAssumption DEF NewRow, RowFits

LEMMA InsertedFits ==
  ASSUME IInv, NEW m \in Messages \ DOMAIN outbox, NEW status \in {"queued", "sending"}
  PROVE  /\ Fits(Inserted(m, status), tries)
         /\ DOMAIN Inserted(m, status) = DOMAIN outbox \cup {m}
         /\ Inserted(m, status)[m] = NewRow(status)
         /\ \A n \in DOMAIN outbox : Inserted(m, status)[n] = outbox[n]
<1>1. /\ DOMAIN Inserted(m, status) = DOMAIN outbox \cup {m}
      /\ Inserted(m, status)[m] = NewRow(status)
      /\ \A n \in DOMAIN outbox : Inserted(m, status)[n] = outbox[n]
  BY DEF Inserted
<1>2. tries[m] = 0
  BY DEF IInv, Fits
<1> QED BY <1>1, <1>2, NewRowFits DEF IInv, Fits

LEMMA EnqueueKeeps ==
  ASSUME IInv, NEW m \in Messages, Enqueue(m) PROVE IInv' /\ FinishedKept
<1>1. /\ m \notin DOMAIN outbox /\ outbox' = Inserted(m, "queued")
      /\ UNCHANGED <<provider, worker, testing, restarts, tries>>
  BY DEF Enqueue
<1>2. /\ Fits(outbox', tries')
      /\ DOMAIN outbox' = DOMAIN outbox \cup {m}
      /\ \A n \in DOMAIN outbox : outbox'[n] = outbox[n]
  BY <1>1, InsertedFits
<1>3. TypeOK'
  BY <1>1, <1>2 DEF IInv, TypeOK, Fits, RowFits
<1>4. BatchInv' /\ TestingInv'
  BY <1>1, <1>2 DEF IInv, BatchInv, Claimed, TestingInv
<1> QED BY <1>1, <1>2, <1>3, <1>4 DEF IInv, FinishedKept

\* The request of a test send has its row, and counts its one send.
LEMMA TestStartsKeeps ==
  ASSUME IInv, NEW m \in Messages, TestStarts(m) PROVE IInv' /\ FinishedKept
<1>1. /\ m \in Tests /\ m \notin DOMAIN outbox /\ outbox' = Inserted(m, "sending")
      /\ testing' = testing \cup {m} /\ tries' = [tries EXCEPT ![m] = @ + 1]
      /\ UNCHANGED <<provider, worker, restarts>>
  BY DEF TestStarts
<1> DEFINE rows == Inserted(m, "sending")
<1>2. /\ Fits(rows, tries)
      /\ DOMAIN rows = DOMAIN outbox \cup {m}
      /\ \A n \in DOMAIN outbox : rows[n] = outbox[n]
      /\ rows[m].status = "sending" /\ rows[m].attempts = 0 /\ ~rows[m].before
  BY <1>1, InsertedFits, NewRowFits
<1> HIDE DEF rows
<1>3. tries[m] = 0 /\ tries \in [Messages -> Nat]
  BY <1>1 DEF IInv, Fits, TypeOK
<1>4. Fits(rows, [tries EXCEPT ![m] = @ + 1])
  <2>1. m \in DOMAIN rows /\ rows[m].status = "sending" /\ tries[m] <= rows[m].attempts
    BY <1>2, <1>3
  <2> QED BY <1>2, <1>3, <2>1, FitsGrow
<1>5. outbox' = rows
  BY <1>1 DEF rows
<1>6. tries' \in [Messages -> Nat] /\ \A n \in DOMAIN outbox : tries'[n] = tries[n]
  <2>1. tries[m] + 1 \in Nat
    BY <1>3
  <2> QED BY <1>1, <1>3, <2>1 DEF IInv, Fits
<1>7. TypeOK'
  BY <1>1, <1>4, <1>5, <1>6 DEF IInv, TypeOK, Fits, RowFits
<1>8. BatchInv'
  BY <1>1, <1>2, <1>5, <1>6, WorkerOf DEF IInv, BatchInv, Claimed
<1>9. TestingInv'
  BY <1>1, <1>2, <1>5 DEF IInv, TestingInv
<1> QED BY <1>1, <1>2, <1>4, <1>5, <1>6, <1>7, <1>8, <1>9 DEF IInv, FinishedKept

LEMMA TestEndsKeeps ==
  ASSUME IInv, NEW m \in Messages, TestEnds(m) PROVE IInv' /\ FinishedKept
<1>1. /\ m \in testing /\ testing' = testing \ {m}
      /\ UNCHANGED <<provider, worker, restarts, tries>>
  BY DEF TestEnds
<1>2. m \in DOMAIN outbox /\ outbox[m].status = "sending"
  BY <1>1 DEF IInv, TestingInv
<1>3. outbox' \in {outbox, MarkedSent(outbox, m), Resolved(outbox, m, GivenUp(m, outbox[m]))}
  BY DEF TestEnds
<1>4. Fits(outbox', tries') /\ Touches(outbox, outbox', {m})
  <2>1. CASE outbox' = outbox
    BY <1>1, <1>2, <2>1 DEF IInv, Touches, Finished
  <2>2. CASE outbox' # outbox
    BY <1>1, <1>2, <1>3, <2>2, OutcomeFits
  <2> QED BY <2>1, <2>2
<1>5. m \notin worker.batch
  BY <1>1, WorkerOf
<1>6. BatchInv'
  BY <1>1, <1>4, <1>5 DEF IInv, BatchInv, Claimed, Touches
<1> QED BY <1>1, <1>4, <1>6, WorkerOf, TouchStep

\* Time, and the boot that makes every row an older process's.
LEMMA RowsAge ==
  ASSUME IInv, DOMAIN outbox' = DOMAIN outbox,
         \A m \in DOMAIN outbox :
           /\ outbox'[m] \in OutboxRow
           /\ outbox'[m].status = outbox[m].status
           /\ outbox'[m].attempts = outbox[m].attempts,
         UNCHANGED tries
  PROVE  Fits(outbox', tries') /\ FinishedKept
BY DEF IInv, Fits, RowFits, FinishedKept

LEMMA PassesKeeps == ASSUME IInv, Passes PROVE IInv' /\ FinishedKept
<1> DEFINE aged(m) == [outbox[m] EXCEPT
                        !.wait = Less(@),
                        !.age = IF m \in Links /\ @ <= LinkTtl /\ ~Has(m, Finished)
                                THEN @ + 1 ELSE @]
<1>1. /\ DOMAIN outbox' = DOMAIN outbox /\ \A m \in DOMAIN outbox : outbox'[m] = aged(m)
      /\ UNCHANGED <<provider, worker, testing, restarts, tries>>
  BY DEF Passes
<1>2. ASSUME NEW m \in DOMAIN outbox
      PROVE  /\ aged(m) \in OutboxRow
             /\ aged(m).status = outbox[m].status
             /\ aged(m).attempts = outbox[m].attempts
             /\ aged(m).before = outbox[m].before
  <2> DEFINE wait == Less(outbox[m].wait)
             age == IF m \in Links /\ outbox[m].age <= LinkTtl /\ ~Has(m, Finished)
                    THEN outbox[m].age + 1 ELSE outbox[m].age
  <2>1. outbox[m] \in OutboxRow
    BY DEF IInv, TypeOK
  <2>2. wait \in Nat
    BY <2>1 DEF Less, OutboxRow
  <2>3. age \in 0..(LinkTtl + 1)
    BY <2>1, EmailAssumption DEF OutboxRow
  <2>4. aged(m) = [outbox[m] EXCEPT !.wait = wait, !.age = age]
    BY <2>1 DEF OutboxRow
  <2> HIDE DEF wait, age, aged
  <2> QED BY <2>1, <2>2, <2>3, <2>4 DEF OutboxRow
<1> HIDE DEF aged
<1>3. Fits(outbox', tries') /\ FinishedKept
  BY <1>1, <1>2, RowsAge
<1>4. TypeOK'
  BY <1>1, <1>3 DEF IInv, TypeOK, Fits, RowFits
<1>5. BatchInv' /\ TestingInv'
  BY <1>1, <1>2 DEF IInv, BatchInv, Claimed, TestingInv
<1> QED BY <1>3, <1>4, <1>5 DEF IInv

LEMMA RestartKeeps == ASSUME IInv, Restart PROVE IInv' /\ FinishedKept
<1> DEFINE older(m) == ~Has(m, Finished)
           row(m) == [outbox[m] EXCEPT !.before = older(m)]
<1>1. /\ DOMAIN outbox' = DOMAIN outbox /\ \A m \in DOMAIN outbox : outbox'[m] = row(m)
      /\ worker' = NewWorker /\ testing' = {} /\ UNCHANGED <<provider, tries>>
      /\ restarts < MaxRestarts /\ restarts' = restarts + 1
  BY DEF Restart
<1>2. ASSUME NEW m \in DOMAIN outbox
      PROVE  /\ row(m) \in OutboxRow
             /\ row(m).status = outbox[m].status
             /\ row(m).attempts = outbox[m].attempts
  <2>1. outbox[m] \in OutboxRow /\ older(m) \in BOOLEAN
    BY DEF IInv, TypeOK, Has
  <2> HIDE DEF older
  <2> QED BY <2>1 DEF OutboxRow
<1> HIDE DEF row
<1>3. Fits(outbox', tries') /\ FinishedKept
  BY <1>1, <1>2, RowsAge
<1>4. TypeOK'
  <2>1. NewWorker \in Worker /\ NewWorker.batch = {} /\ NewWorker.current = None
        /\ NewWorker.stage = "idle"
    BY DEF NewWorker, Worker
  <2>2. restarts' \in 0..MaxRestarts
    BY <1>1, EmailAssumption DEF IInv, TypeOK
  <2> QED BY <1>1, <1>3, <2>1, <2>2 DEF IInv, TypeOK, Fits, RowFits
<1>5. BatchInv' /\ TestingInv'
  BY <1>1 DEF BatchInv, Claimed, TestingInv, NewWorker
<1> QED BY <1>3, <1>4, <1>5 DEF IInv

LEMMA OtherKeeps ==
  ASSUME IInv, Configured \/ Stops \/ UNCHANGED vars PROVE IInv' /\ FinishedKept
<1>1. UNCHANGED <<outbox, testing, restarts, tries>>
  BY DEF Configured, Stops, vars
<1>2. worker' = worker \/ worker' = [worker EXCEPT !.stopped = TRUE]
  BY DEF Configured, Stops, vars
<1>3. worker' \in Worker /\ worker'.batch = worker.batch /\ worker'.current = worker.current
      /\ worker'.stage = worker.stage
  BY <1>2, WorkerOf DEF Worker
<1>4. provider' \in {"ready", "incomplete", "disabled"}
  BY DEF Configured, Stops, vars, IInv, TypeOK
<1>5. TypeOK'
  BY <1>1, <1>3, <1>4 DEF IInv, TypeOK
<1>6. BatchInv' /\ TestingInv'
  BY <1>1, <1>3 DEF IInv, BatchInv, Claimed, TestingInv
<1> QED BY <1>1, <1>5, <1>6 DEF IInv, FinishedKept

LEMMA NextKeeps == ASSUME IInv, [Next]_vars PROVE IInv' /\ FinishedKept
<1>1. CASE WorkerStep
  BY <1>1, TickStartsKeeps, TickFailsKeeps, IdleKeeps, ClaimsKeeps, SendEndsKeeps,
     SendUnrecordedKeeps DEF WorkerStep
<1>2. CASE RequestStep
  BY <1>2, EnqueueKeeps, TestStartsKeeps, TestEndsKeeps DEF RequestStep
<1>3. CASE OutsideStep \/ Stops \/ Restart \/ UNCHANGED vars
  BY <1>3, PassesKeeps, RestartKeeps, OtherKeeps DEF OutsideStep
<1> QED BY <1>1, <1>2, <1>3 DEF Next

LEMMA IInvHolds == Spec => []IInv
BY InitFits, NextKeeps, PTL DEF Spec

-----------------------------------------------------------------------------
(* THE THEOREMS *)

\* Every variable of the outbox and its worker has its type.
THEOREM TypeCorrect == Spec => []TypeOK
<1>1. IInv => TypeOK
  BY DEF IInv
<1> QED BY <1>1, IInvHolds, PTL

\* No message is handed to the provider more than EMAIL_MAX_ATTEMPTS times,
\* through every restart in the middle of a send (worker.ts: a requeue of the
\* recovery costs an attempt).
THEOREM AttemptsAreBounded == Spec => []AttemptsBounded
<1>1. IInv => AttemptsBounded
  BY EmailAssumption DEF IInv, Fits, RowFits, AttemptsBounded
<1> QED BY <1>1, IInvHolds, PTL

\* A message that was sent, given up on or cancelled keeps its outcome, and is
\* not sent again: the statements of the recovery, the expiry and the claim
\* never take a finished row.
THEOREM FinishedIsFinal == Spec => FinishedForGood
<1>1. ASSUME IInv, [Next]_vars
      PROVE  [\A m \in DOMAIN outbox :
                outbox[m].status \in Finished =>
                  outbox'[m].status = outbox[m].status /\ tries'[m] = tries[m]]_vars
  BY <1>1, NextKeeps DEF FinishedKept
<1> QED BY <1>1, IInvHolds, PTL DEF Spec, FinishedForGood
=============================================================================
