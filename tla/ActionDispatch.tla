--------------------------- MODULE ActionDispatch ---------------------------
(***************************************************************************)
(* One queued event, start to finish: dispatchGitHubActionEvent of          *)
(* apps/api/src/github-actions/dispatch.ts and the paid launch it awaits,   *)
(* automaticGitHubScanDispatcher of apps/api/src/github-monitor-dispatch.ts.*)
(*                                                                         *)
(* A JavaScript turn runs to completion: everything up to the first await   *)
(* is one step, and what a turn still has to dispatch is in `turn`; while   *)
(* it is not empty nothing else of the process runs.  Each await is a place *)
(* where every other actor may act, and a crash forgets `disp`.             *)
(***************************************************************************)
EXTENDS ActionStore

VARIABLES
  draining,  \* isDraining(): the shutdown began
  turn,      \* rows the running turn has yet to dispatch
  disp,      \* the dispatches in flight; DOMAIN disp is `inFlight`
  gates      \* gates[a]: every gate ever created for action a, in order

dispatchVars == <<draining, turn, disp, gates>>

InFlight == DOMAIN disp

\* Where a dispatch in flight is waiting: for the rejection of a draining
\* server, for the preview, for its acceptance, for the executor's answer.
Waits == {"draining", "previewing", "accepting", "launching"}

Gate == [key: EventKey, origin: Origins, cost: Nat, day: Nat]

DispatchTypeOK ==
  /\ draining \in BOOLEAN
  /\ turn \subseteq Actions \X EventKey
  /\ InFlight \subseteq Actions \X EventKey
  /\ \A r \in InFlight :
       disp[r] \in [wait: Waits, event: Event, action: Action, gate: Nat \X Nat]
  /\ gates \in [Actions -> Seq(Gate)]

DispatchInit ==
  /\ draining = FALSE
  /\ turn = {}
  /\ disp = [r \in {} |-> {}]
  /\ gates = [a \in Actions |-> <<>>]

-----------------------------------------------------------------------------
\* The refusals dispatchGitHubActionEvent makes before it reserves anything.
RefusedAtOnce(r) ==
  \/ ~actions[r[1]].enabled
  \/ r[2].target \in Forks /\ ~actions[r[1]].forks
  \/ actions[r[1]].revision # r[2].revision

\* The reservation's UPDATE.
ReservedEvent(e) == [e EXCEPT !.status = "dispatching", !.dispatched = now]

WithStatus(r, status) == Patched(r, [Row(r) EXCEPT !.status = status])

Launched(r) == Patched(r, [Row(r) EXCEPT !.status = "launched", !.gate = disp[r].gate])

BackInQueue(r) == Patched(r, [Row(r) EXCEPT !.status = "queued", !.dispatched = Null])

Begun(r) ==
  [q \in InFlight \cup {r} |->
     IF q = r THEN [wait |-> IF draining THEN "draining" ELSE "previewing",
                    event |-> ReservedEvent(Row(r)),
                    action |-> actions[r[1]],
                    gate |-> NoGate]
     ELSE disp[q]]

Ended(r) == [q \in InFlight \ {r} |-> disp[q]]

-----------------------------------------------------------------------------
\* The synchronous head of dispatchGitHubActionEvent: a row that is gone or not
\* queued is left alone; a refusal is `skipped`; a spent day leaves it queued.
Dispatch(r) ==
  /\ r \in turn
  /\ \A q \in turn : r[1] <= q[1]
  /\ turn' = turn \ {r}
  /\ \/ /\ HasRow(r) => StatusOf(r) # "queued"
        /\ UNCHANGED <<events, disp>>
     \/ /\ HasRow(r) /\ StatusOf(r) = "queued"
        /\ RefusedAtOnce(r)
        /\ events' = WithStatus(r, "skipped")
        /\ UNCHANGED disp
     \/ /\ HasRow(r) /\ StatusOf(r) = "queued"
        /\ ~RefusedAtOnce(r) /\ ~CanReserve(r)
        /\ UNCHANGED <<events, disp>>
     \/ /\ HasRow(r) /\ StatusOf(r) = "queued"
        /\ ~RefusedAtOnce(r) /\ CanReserve(r)
        /\ events' = Patched(r, ReservedEvent(Row(r)))
        /\ disp' = Begun(r)
  /\ UNCHANGED <<draining, gates, actions, claimed, sincePrune>>

\* A draining server threw server_draining: the reservation is released.
DrainRefused(r) ==
  /\ r \in InFlight /\ disp[r].wait = "draining"
  /\ events' = BackInQueue(r)
  /\ disp' = Ended(r)
  /\ UNCHANGED <<draining, turn, gates, actions, claimed, sincePrune>>

\* The preview resolved the head the event names, now.
HeadUnmoved(r) == tip[r[2].target].sha = r[2].sha

PreviewAnswers(r) ==
  /\ r \in InFlight /\ disp[r].wait = "previewing"
  /\ HeadUnmoved(r)
  /\ disp' = [disp EXCEPT ![r].wait = "accepting"]
  /\ UNCHANGED <<draining, turn, gates, storeVars>>

\* Mutant of PreDispatchRefused: the code alone decides, whatever was launched.
RefusedAnyTime(r) ==
  /\ r \in InFlight
  /\ events' = WithStatus(r, "skipped")
  /\ disp' = Ended(r)
  /\ UNCHANGED <<draining, turn, gates, actions, claimed, sincePrune>>

\* A PRE_DISPATCH_CODES refusal while nothing was launched: the head moved, the
\* budget or the executor does not fit, the preview expired, the action changed.
PreDispatchRefused(r) ==
  /\ r \in InFlight /\ disp[r].wait \in {"previewing", "accepting"}
  /\ events' = WithStatus(r, "skipped")
  /\ disp' = Ended(r)
  /\ UNCHANGED <<draining, turn, gates, actions, claimed, sincePrune>>

\* Mutant of StillCurrent: the action is not read again after the preview.
StillAsPreviewed(r) == TRUE

\* The action read again once the preview was accepted: still this revision?
StillCurrent(r) ==
  /\ actions[r[1]].enabled
  /\ actions[r[1]].revision = disp[r].action.revision

\* The gate is inserted in the turn that checks the revision, by either executor.
GateCreated(r) ==
  /\ r \in InFlight /\ disp[r].wait = "accepting"
  /\ StillCurrent(r)
  /\ LET a == r[1]
         gate == [key |-> r[2], origin |-> disp[r].event.origin,
                  cost |-> disp[r].action.cost,
                  day |-> Day(disp[r].event.dispatched)]
     IN /\ gates' = [gates EXCEPT ![a] = Append(@, gate)]
        /\ disp' = [disp EXCEPT ![r].wait = "launching",
                                ![r].gate = <<a, Len(gates[a]) + 1>>]
  /\ UNCHANGED <<draining, turn, storeVars>>

LaunchAnswered(r) ==
  /\ r \in InFlight /\ disp[r].wait = "launching"
  /\ events' = Launched(r)
  /\ disp' = Ended(r)
  /\ UNCHANGED <<draining, turn, gates, actions, claimed, sincePrune>>

\* Any other error: the scan may have reached its provider, so it is `failed`.
DispatchFails(r) ==
  /\ r \in InFlight /\ disp[r].wait # "draining"
  /\ events' = WithStatus(r, "failed")
  /\ disp' = Ended(r)
  /\ UNCHANGED <<draining, turn, gates, actions, claimed, sincePrune>>

\* The write of the outcome throws, and so does the write of that failure: the
\* `finally` still forgets the dispatch, and the row stays `dispatching`.
OutcomeUnwritten(r) ==
  /\ r \in InFlight
  /\ disp' = Ended(r)
  /\ UNCHANGED <<draining, turn, gates, storeVars>>

DispatchStep ==
  \E r \in InFlight : \/ DrainRefused(r)
                      \/ PreviewAnswers(r)
                      \/ PreDispatchRefused(r)
                      \/ GateCreated(r)
                      \/ LaunchAnswered(r)
                      \/ DispatchFails(r)
                      \/ OutcomeUnwritten(r)

Drain ==
  /\ ~draining
  /\ draining' = TRUE
  /\ UNCHANGED <<turn, disp, gates, storeVars>>

\* The process exits or is killed, and boots: the dispatches are forgotten, and
\* every row they left is an orphan before the first request is served.
DispatchRestart ==
  /\ draining' = FALSE
  /\ turn' = {}
  /\ disp' = [r \in {} |-> {}]
  /\ events' = OrphansFailed({})
  /\ sincePrune' = PruneEvery - 1
  /\ UNCHANGED <<gates, actions, claimed>>
=============================================================================
