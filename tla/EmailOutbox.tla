----------------------------- MODULE EmailOutbox -----------------------------
(***************************************************************************)
(* The outbox of e-mails and the worker that empties it:                    *)
(* apps/api/src/email/outbox-store.ts and worker.ts, with the test send of  *)
(* email-api.ts, which writes to the same table and is not the worker's.    *)
(*                                                                         *)
(* A message is its dedupe key, so it is a row at most once.  Times are     *)
(* kept relative (how long until a retry is due, how old a link is), which  *)
(* is all the statements compare.  The order of the rows of one batch is    *)
(* left open.                                                               *)
(***************************************************************************)
EXTENDS Integers, FiniteSets

CONSTANTS
  Notices,      \* messages without a credential in their body
  Links,        \* invites and resets: LINK_BEARING_EMAIL_EVENTS
  Tests,        \* account.test: sent by the request that asked for it
  MaxAttempts,  \* EMAIL_MAX_ATTEMPTS
  RetryDelay,   \* RetryDelay[n]: EMAIL_RETRY_DELAYS_MS, after n attempts
  BatchLimit,   \* EMAIL_WORKER_BATCH
  LinkTtl,      \* INVITE_TTL_MS
  WritesFail,   \* may a statement throw (SQLITE_BUSY, a full disk), or the
                \* process die between two statements that go together?
  MaxRestarts   \* bound: how often the process exits and boots

ASSUME EmailAssumption ==
  /\ IsFiniteSet(Notices) /\ IsFiniteSet(Links) /\ IsFiniteSet(Tests)
  /\ Notices \cap Links = {} /\ Tests \cap (Notices \cup Links) = {}
  /\ MaxAttempts \in Nat \ {0}
  /\ RetryDelay \in [0..(MaxAttempts - 1) -> Nat]
  /\ BatchLimit \in Nat \ {0}
  /\ LinkTtl \in Nat
  /\ WritesFail \in BOOLEAN
  /\ MaxRestarts \in Nat

Messages == Notices \cup Links \cup Tests

VARIABLES
  outbox,     \* email_outbox: the messages that have a row
  provider,   \* the settings: can a message be sent, and is the switch on?
  worker,     \* the loop of startEmailWorker, its tick and the send it awaits
  testing,    \* test sends whose request is still open
  restarts,   \* how often the process has restarted
  tries       \* tries[m]: sends of m handed to the provider (history)

vars == <<outbox, provider, worker, testing, restarts, tries>>

Statuses == {"queued", "sending", "sent", "failed", "cancelled"}
Finished == {"sent", "failed", "cancelled"}

\* `wait`: until next_attempt_at; `age`: since created_at, for a link; `before`:
\* created_at < startedAt; `body`: html and text are not empty.
OutboxRow == [status: Statuses, attempts: 0..MaxAttempts, wait: Nat,
              age: 0..(LinkTtl + 1), before: BOOLEAN, body: BOOLEAN]

\* No message: a worker that is not sending.
None == "none"

Worker == [stage: {"idle", "configuring", "sending"}, batch: SUBSET (Notices \cup Links),
           current: Messages \cup {None}, ready: BOOLEAN, recovered: BOOLEAN,
           stopped: BOOLEAN]

TypeOK ==
  /\ DOMAIN outbox \subseteq Messages
  /\ \A m \in DOMAIN outbox : outbox[m] \in OutboxRow
  /\ provider \in {"ready", "incomplete", "disabled"}
  /\ worker \in Worker
  /\ worker.stage # "sending" => worker.batch = {} /\ worker.current = None
  /\ worker.stage = "sending" => worker.current \in worker.batch
  /\ testing \subseteq Tests
  /\ restarts \in 0..MaxRestarts
  /\ tries \in [Messages -> Nat]

NewWorker == [stage |-> "idle", batch |-> {}, current |-> None, ready |-> FALSE,
              recovered |-> FALSE, stopped |-> FALSE]

Init ==
  /\ outbox = [m \in {} |-> {}]
  /\ provider = "ready"
  /\ worker = NewWorker
  /\ testing = {}
  /\ restarts = 0
  /\ tries = [m \in Messages |-> 0]

Has(m, statuses) == m \in DOMAIN outbox /\ outbox[m].status \in statuses

-----------------------------------------------------------------------------
(* The statements of outbox-store.ts, over a table `rows`.                  *)

NewRow(status) == [status |-> status, attempts |-> 0, wait |-> 0, age |-> 0,
                   before |-> FALSE, body |-> TRUE]

\* insertOutboxRow: ON CONFLICT(dedupe_key) DO NOTHING
Inserted(m, status) ==
  [n \in DOMAIN outbox \cup {m} |-> IF n = m THEN NewRow(status) ELSE outbox[n]]

\* dropLinkBody: what will not be sent again loses the token it carried.  No
\* statement compares the age of a finished row.
Ended(m, row, status) ==
  [row EXCEPT !.status = status, !.wait = 0, !.age = 0, !.before = FALSE,
              !.body = m \notin Links]

Resolved(rows, m, row) == [rows EXCEPT ![m] = row]

\* markEmailSent, markEmailFailed and markEmailCancelled are two statements each and
\* no transaction: the second, dropLinkBody, may throw alone.
BodyLeft(rows, ms) ==
  [m \in DOMAIN rows |-> IF m \in ms THEN [rows[m] EXCEPT !.body = TRUE] ELSE rows[m]]

MarkedSent(rows, m) == Resolved(rows, m, Ended(m, rows[m], "sent"))

Cancelled(rows, ms) ==
  [m \in DOMAIN rows |-> IF m \in ms THEN Ended(m, rows[m], "cancelled") ELSE rows[m]]

\* markEmailFailed without a next attempt: the message is given up on.
GivenUp(m, row) == [Ended(m, row, "failed") EXCEPT !.attempts = @ + 1]

\* markEmailFailed with one.
Requeued(row) ==
  [row EXCEPT !.status = "queued", !.attempts = @ + 1, !.wait = RetryDelay[row.attempts]]

\* nextEmailAttemptAt: the last attempt is the end of the road.
LastAttempt(row) == row.attempts + 1 >= MaxAttempts

Retried(m, row) == IF LastAttempt(row) THEN GivenUp(m, row) ELSE Requeued(row)

\* Mutant of Interrupted: whatever is being sent is taken for an orphan.
InterruptedOrLive == {m \in DOMAIN outbox : outbox[m].status = "sending"}

\* listInterruptedEmails: claimed, and older than this process.
Interrupted == {m \in DOMAIN outbox : outbox[m].status = "sending" /\ outbox[m].before}

\* Mutant of AfterInterruption: an interruption costs no attempt.
AfterInterruptionFree(m) ==
  IF m \in Tests THEN GivenUp(m, outbox[m])
  ELSE [outbox[m] EXCEPT !.status = "queued", !.wait = RetryDelay[0]]

\* Mutant of AfterInterruption: a test send goes back to a queue nobody takes it from.
AfterInterruptionQueued(m) == Retried(m, outbox[m])

\* recoverInterruptedEmails, for one row: a requeue costs an attempt.
AfterInterruption(m) ==
  IF m \in Tests THEN GivenUp(m, outbox[m]) ELSE Retried(m, outbox[m])

Recovered(ms) ==
  [m \in DOMAIN outbox |-> IF m \in ms THEN AfterInterruption(m) ELSE outbox[m]]

\* Mutant of DeadLinks: a row somebody claimed is left alone.
DeadQueuedLinks(rows) ==
  {m \in Links \cap DOMAIN rows : rows[m].status = "queued" /\ rows[m].age > LinkTtl}

\* expireLinkBearingEmails: `sending` too.
DeadLinks(rows) ==
  {m \in Links \cap DOMAIN rows :
     rows[m].status \in {"queued", "sending"} /\ rows[m].age > LinkTtl}

\* The condition of claimDueEmails: a test send is its request's, in any status.
Due == {m \in DOMAIN outbox \ Tests : outbox[m].status = "queued" /\ outbox[m].wait = 0}

\* claimDueEmails: the limit, or everything that is due.
Batches == {ms \in SUBSET Due :
              IF Cardinality(Due) <= BatchLimit THEN ms = Due
              ELSE Cardinality(ms) = BatchLimit}

ClaimedRows(ms) ==
  [m \in DOMAIN outbox |->
     IF m \in ms THEN [outbox[m] EXCEPT !.status = "sending"] ELSE outbox[m]]

-----------------------------------------------------------------------------
(* The worker.                                                              *)

\* A tick that ends or throws: `running` is false again, the batch forgotten.
TickOver == [worker EXCEPT !.stage = "idle", !.batch = {}, !.current = None,
                           !.ready = FALSE]

\* The loop of runEmailWorkerTick up to its next await.  Accounts and grants are
\* read at each row and belong to others: any row may prove to be `skipped`, whose
\* recipient no longer qualifies.  A check or a cancellation that throws is caught
\* by nobody but the tick.
LoopRuns(batch, rows) == \E skipped \in SUBSET batch :
  \/ \E m \in batch \ skipped :
       /\ outbox' = Cancelled(rows, skipped)
       /\ worker' = [worker EXCEPT !.stage = "sending", !.batch = batch \ skipped,
                                   !.current = m]
       /\ tries' = [tries EXCEPT ![m] = @ + 1]
  \/ /\ skipped = batch
     /\ outbox' = Cancelled(rows, batch)
     /\ worker' = TickOver
     /\ UNCHANGED tries
  \/ \E half \in SUBSET skipped :
       /\ WritesFail
       /\ Cardinality(half) = 1 \/ (half = {} /\ skipped # batch)
       /\ outbox' = BodyLeft(Cancelled(rows, skipped), half)
       /\ worker' = TickOver
       /\ UNCHANGED tries

BootRows == IF worker.recovered THEN outbox ELSE Recovered(Interrupted)

\* The first tick that manages it recovers; every tick expires the dead links
\* before the provider is looked at, reads the settings and then awaits the vault.
TickStarts ==
  /\ worker.stage = "idle" /\ ~worker.stopped
  /\ outbox' = Cancelled(BootRows, DeadLinks(BootRows))
  /\ worker' = [worker EXCEPT !.stage = "configuring", !.recovered = TRUE,
                            !.ready = (provider = "ready")]
  /\ UNCHANGED <<provider, testing, restarts, tries>>

\* A recovery that throws half way is tried again by the next tick; so is the expiry.
TickFails ==
  /\ WritesFail
  /\ worker.stage = "idle" /\ ~worker.stopped /\ ~worker.recovered
  /\ \/ \E ms \in SUBSET Interrupted : \E half \in SUBSET ms :
          /\ \/ half = {} /\ ms # Interrupted
             \/ Cardinality(half) = 1
                /\ \A m \in half : AfterInterruption(m).status = "failed"
          /\ outbox' = BodyLeft(Recovered(ms), half)
          /\ UNCHANGED worker
     \/ /\ outbox' = BootRows
        /\ worker' = [worker EXCEPT !.recovered = TRUE]
  /\ UNCHANGED <<provider, testing, restarts, tries>>

NothingToSend ==
  /\ worker.stage = "configuring"
  /\ ~worker.ready \/ Due = {}
  /\ worker' = TickOver
  /\ UNCHANGED <<outbox, provider, testing, restarts, tries>>

Claims ==
  /\ worker.stage = "configuring"
  /\ worker.ready /\ Due # {}
  /\ \E batch \in Batches : LoopRuns(batch, ClaimedRows(batch))
  /\ UNCHANGED <<provider, testing, restarts>>

\* The vault cannot be read, or the claim throws.
ClaimFails ==
  /\ worker.stage = "configuring"
  /\ worker' = TickOver
  /\ UNCHANGED <<outbox, provider, testing, restarts, tries>>

\* Delivered and recorded; given up on; or retried, which is also what becomes of
\* a delivery whose answer, or whose record, was lost.
Answered(m) ==
  {MarkedSent(outbox, m),
   Resolved(outbox, m, GivenUp(m, outbox[m])),
   Resolved(outbox, m, Retried(m, outbox[m]))}

SendEnds ==
  /\ worker.stage = "sending"
  /\ \E rows \in Answered(worker.current) :
       LoopRuns(worker.batch \ {worker.current}, rows)
  /\ UNCHANGED <<provider, testing, restarts>>

\* Neither the delivery nor the failure can be recorded, or only the first half of
\* it: the tick dies with the rest of its batch claimed.
SendUnrecorded ==
  /\ WritesFail
  /\ worker.stage = "sending"
  /\ LET m == worker.current
     IN outbox' \in {outbox, BodyLeft(MarkedSent(outbox, m), {m}),
                     BodyLeft(Resolved(outbox, m, GivenUp(m, outbox[m])), {m})}
  /\ worker' = TickOver
  /\ UNCHANGED <<provider, testing, restarts, tries>>

WorkerStep ==
  \/ TickStarts \/ TickFails
  \/ NothingToSend \/ Claims \/ ClaimFails
  \/ SendEnds \/ SendUnrecorded

-----------------------------------------------------------------------------
(* The rest of the process, its operator and the clock.                     *)

\* enqueueEmail honours the switch; a taken dedupe key is refused.
Enqueue(m) ==
  /\ m \in Notices \cup Links
  /\ m \notin DOMAIN outbox
  /\ provider # "disabled"
  /\ outbox' = Inserted(m, "queued")
  /\ UNCHANGED <<provider, worker, testing, restarts, tries>>

\* POST /email/test needs a complete configuration, not the switch.
TestStarts(m) ==
  /\ m \in Tests
  /\ m \notin DOMAIN outbox
  /\ provider # "incomplete"
  /\ outbox' = Inserted(m, "sending")
  /\ testing' = testing \cup {m}
  /\ tries' = [tries EXCEPT ![m] = @ + 1]
  /\ UNCHANGED <<provider, worker, restarts>>

TestEnds(m) ==
  /\ m \in testing
  /\ outbox' \in {MarkedSent(outbox, m), Resolved(outbox, m, GivenUp(m, outbox[m]))}
                 \cup (IF WritesFail THEN {outbox} ELSE {})
  /\ testing' = testing \ {m}
  /\ UNCHANGED <<provider, worker, restarts, tries>>

RequestStep == \E m \in Messages : Enqueue(m) \/ TestStarts(m) \/ TestEnds(m)

Configured ==
  /\ provider' \in {"ready", "incomplete", "disabled"} \ {provider}
  /\ UNCHANGED <<outbox, worker, testing, restarts, tries>>

Less(n) == IF n = 0 THEN 0 ELSE n - 1

Passes ==
  /\ outbox' = [m \in DOMAIN outbox |->
                  [outbox[m] EXCEPT
                     !.wait = Less(@),
                     !.age = IF m \in Links /\ @ <= LinkTtl /\ ~Has(m, Finished)
                             THEN @ + 1 ELSE @]]
  /\ UNCHANGED <<provider, worker, testing, restarts, tries>>

\* stop(): no tick starts any more, and the one in flight is awaited.
Stops ==
  /\ restarts < MaxRestarts
  /\ ~worker.stopped
  /\ worker' = [worker EXCEPT !.stopped = TRUE]
  /\ UNCHANGED <<outbox, provider, testing, restarts, tries>>

\* The process exits, or is killed wherever it is, and boots.
Restart ==
  /\ restarts < MaxRestarts
  /\ restarts' = restarts + 1
  /\ worker' = NewWorker
  /\ testing' = {}
  /\ outbox' = [m \in DOMAIN outbox |-> [outbox[m] EXCEPT !.before = ~Has(m, Finished)]]
  /\ UNCHANGED <<provider, tries>>

OutsideStep == Configured \/ Passes

Next == WorkerStep \/ RequestStep \/ OutsideStep \/ Stops \/ Restart

Spec == Init /\ [][Next]_vars

\* The timer fires, an awaited answer arrives (both transports have timeouts), time
\* passes, a process that was stopped is started again, and a vault and a database
\* that are asked again and again answer once.
Fairness ==
  /\ WF_vars(TickStarts)
  /\ WF_vars(NothingToSend)
  /\ SF_vars(Claims)
  /\ WF_vars(SendEnds \/ SendUnrecorded)
  /\ WF_vars(\E m \in Tests : TestEnds(m))
  /\ WF_vars(Passes)
  /\ WF_vars(worker.stopped /\ Restart)

FairSpec == Spec /\ Fairness

-----------------------------------------------------------------------------
\* No message is handed to the provider more often than EMAIL_MAX_ATTEMPTS, however
\* often the process dies while sending it (worker.ts: "handing it straight back
\* would let one poisonous row restart the API forever").
AttemptsBounded == \A m \in Messages : tries[m] <= MaxAttempts

\* ... and an invite or reset that was delivered, given up on or cancelled keeps no
\* token: dropLinkBody empties "the bodies of a row that will never be sent again".
TokenOnlyWhileNeeded ==
  \A m \in Links \cap DOMAIN outbox : outbox[m].body => outbox[m].status \notin Finished

\* A message that is finished is never sent again and never changes its outcome:
\* not by the recovery of a boot, the expiry of links, a later tick, or the request
\* of a test send that was still open.
FinishedForGood ==
  [][\A m \in DOMAIN outbox :
       outbox[m].status \in Finished =>
         outbox'[m].status = outbox[m].status /\ tries'[m] = tries[m]]_vars

Held(m) == m \in worker.batch \cup testing

Recoverable(m) == outbox[m].before /\ ~worker.recovered

\* `sending` means that somebody has the row right now (outbox-store.ts at
\* listInterruptedEmails), or that this process has yet to recover it.
SendingIsHeld ==
  \A m \in DOMAIN outbox : outbox[m].status = "sending" => Held(m) \/ Recoverable(m)

Abandoned(m) == Has(m, {"sending"}) /\ ~Held(m) /\ ~Recoverable(m)

\* A queued or interrupted message does not wait for ever: it is delivered, given
\* up on or cancelled, unless the provider is not available or the writes that
\* failed left the row claimed by nobody (SendingIsHeld).
EveryMessageEnds ==
  \A m \in Messages :
    Has(m, {"queued", "sending"})
      ~> (Has(m, Finished) \/ Abandoned(m) \/ provider # "ready")

\* An invite whose link is dead does not stay in the queue, with no provider at
\* all, and even when a failed write left its row claimed.
DeadLinksEnd ==
  \A m \in Links :
    (Has(m, {"queued", "sending"}) /\ outbox[m].age > LinkTtl) ~> Has(m, Finished)
=============================================================================
