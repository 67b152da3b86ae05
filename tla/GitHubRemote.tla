---------------------------- MODULE GitHubRemote ----------------------------
(***************************************************************************)
(* GitHub and the wall clock, as the code under apps/api/src/github-actions *)
(* uses them: heads that move, and signed deliveries that are sent once and *)
(* may arrive in any order, more than once (Redeliver) or never.  Nothing   *)
(* here is code of the repository; the module is the environment of the     *)
(* GitHub automation.                                                       *)
(*                                                                         *)
(* One repository is modelled.  A target is what an action can follow: an   *)
(* open pull request or a branch.  Targets are numbered in the order in     *)
(* which GitHub lists them.                                                 *)
(***************************************************************************)
EXTENDS Integers, FiniteSets

CONSTANTS
  Targets,        \* pull requests and branches, numbered in listing order
  PullRequests,   \* the targets that are pull requests
  Forks,          \* the pull requests whose head lives in a fork
  Shas,           \* commits
  FirstHead,      \* FirstHead[t]: the head of t when the model starts
  MaxTime,        \* bound: the last value of the clock
  MaxSent,        \* bound: deliveries GitHub sends
  MaxReruns,      \* bound: "Re-run" clicks, and the check runs they are for
  PullsClose,     \* may pull requests be closed and reopened?
  AccessChanges,  \* may the installation lose and regain the repository?
  TiedClocks      \* may two changes of one target share a second?

ASSUME RemoteAssumption ==
  /\ Targets \subseteq Nat
  /\ IsFiniteSet(Targets)
  /\ PullRequests \subseteq Targets
  /\ Forks \subseteq PullRequests
  /\ FirstHead \in [Targets -> Shas]
  /\ MaxTime \in Nat \ {0, 1}
  /\ MaxSent \in Nat
  /\ MaxReruns \in Nat
  /\ {PullsClose, AccessChanges, TiedClocks} \subseteq BOOLEAN

Branches == Targets \ PullRequests

\* NULL in a column that holds a clock, a check run or a gate; real ones are > 0.
Null == 0

VARIABLES
  now,          \* the clock of both GitHub and the server, from 2
  tip,          \* tip[t]: the head of t, when it last changed, whether t is open
  sent,         \* every delivery GitHub has sent
  reachable     \* does the installation still reach the repository?

remoteVars == <<now, tip, sent, reachable>>

\* A delivery: its X-GitHub-Delivery id, what happened, and the payload fields
\* the routes read.  `gate` and `checkRun` are only set for "rerequested".
Delivery == [id: Nat \ {0},
             kind: {"change", "closed", "rerequested", "removed"},
             target: Targets, sha: Shas, observed: Nat,
             gate: Nat \X Nat, checkRun: 0..MaxReruns]

NoGate == <<Null, Null>>

RemoteTypeOK ==
  /\ now \in 2..MaxTime
  /\ tip \in [Targets -> [sha: Shas, clock: 1..MaxTime, open: BOOLEAN]]
  /\ sent \subseteq Delivery
  /\ IsFiniteSet(sent)
  /\ reachable \in BOOLEAN

RemoteInit ==
  /\ now = 2
  /\ tip = [t \in Targets |-> [sha |-> FirstHead[t], clock |-> 1, open |-> TRUE]]
  /\ sent = {}
  /\ reachable = TRUE

-----------------------------------------------------------------------------
Send(kind, t, s, observed, gate, checkRun) ==
  /\ Cardinality(sent) < MaxSent
  /\ sent' = sent \cup
       {[id |-> Cardinality(sent) + 1, kind |-> kind, target |-> t, sha |-> s,
         observed |-> observed, gate |-> gate, checkRun |-> checkRun]}

\* `updated_at` and `pushed_at` have a resolution of one second.
ClockMoved(t) == TiedClocks \/ tip[t].clock < now

\* A push, or a force push, moves a head; GitHub sends pull_request.synchronize
\* or push with its own clock.
Push(t, s) ==
  /\ tip[t].open
  /\ s # tip[t].sha
  /\ ClockMoved(t)
  /\ tip' = [tip EXCEPT ![t].sha = s, ![t].clock = now]
  /\ Send("change", t, s, now, NoGate, Null)
  /\ UNCHANGED <<now, reachable>>

Close(t) ==
  /\ PullsClose
  /\ t \in PullRequests
  /\ tip[t].open
  /\ ClockMoved(t)
  /\ tip' = [tip EXCEPT ![t].open = FALSE, ![t].clock = now]
  /\ Send("closed", t, tip[t].sha, now, NoGate, Null)
  /\ UNCHANGED <<now, reachable>>

\* reopened and ready_for_review: the same head becomes reviewable.  A closed
\* pull request stands for a draft too, which the routes and the listing ignore.
Reopen(t) ==
  /\ ~tip[t].open
  /\ ClockMoved(t)
  /\ tip' = [tip EXCEPT ![t].open = TRUE, ![t].clock = now]
  /\ Send("change", t, tip[t].sha, now, NoGate, Null)
  /\ UNCHANGED <<now, reachable>>

\* Somebody presses "Re-run" on the check of a gate (check_run.rerequested): the
\* gate id travels back as the check's external_id.
Rerequest(t, s, gate, checkRun) ==
  /\ Cardinality({d \in sent : d.kind = "rerequested"}) < MaxReruns
  /\ Send("rerequested", t, s, Null, gate, checkRun)
  /\ UNCHANGED <<now, tip, reachable>>

\* The repository is taken out of the installation; GitHub never redelivers it.
Unreach(t) ==
  /\ AccessChanges
  /\ reachable
  /\ reachable' = FALSE
  /\ Send("removed", t, tip[t].sha, Null, NoGate, Null)
  /\ UNCHANGED <<now, tip>>

Reach ==
  /\ ~reachable
  /\ reachable' = TRUE
  /\ UNCHANGED <<now, tip, sent>>

Tick ==
  /\ now < MaxTime
  /\ now' = now + 1
  /\ UNCHANGED <<tip, sent, reachable>>
=============================================================================
