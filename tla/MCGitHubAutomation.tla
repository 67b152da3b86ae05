------------------------- MODULE MCGitHubAutomation -------------------------
(***************************************************************************)
(* Small instances of GitHubAutomation for TLC: who the actions are, what   *)
(* they follow, and where the heads are.                                    *)
(***************************************************************************)
EXTENDS GitHubAutomation, TLC

CONSTANTS A, B, C, D\* commits

MCAction(follows, cost, daily, baseline) ==
  [exists |-> TRUE, enabled |-> TRUE, revision |-> 1, cost |-> cost, daily |-> daily,
   follows |-> follows, forks |-> FALSE, baseline |-> baseline]

\* One action past its first run, following target 1, with room for one run a day.
OneAction == [a \in {1} |-> MCAction({1}, 1, 1, TRUE)]

\* The same with room for three runs a day.
RoomyAction == [a \in {1} |-> MCAction({1}, 1, 3, TRUE)]

\* An action that has not seen its first reconciliation yet.
NewAction == [a \in {1} |-> MCAction({1}, 1, 2, FALSE)]

\* One action over targets 1 and 2, with room for two runs a day.
TwoTargets == [a \in {1} |-> MCAction({1, 2}, 1, 2, TRUE)]

\* An action over a pull request and a fork, opted into forks, beside a dearer action
\* over the pull request: one repository, one day.
TwoRules == [a \in {1, 2} |->
  IF a = 1 THEN [MCAction({1, 2}, 1, 2, FALSE) EXCEPT !.forks = TRUE]
  ELSE MCAction({1}, 2, 2, TRUE)]

\* An action whose day always has room.
Ample == [a \in {1} |-> MCAction({1}, 1, 9, TRUE)]

HeadA == [t \in Targets |-> A]

HeadsDiffer == [t \in Targets |-> IF t = 1 THEN A ELSE B]

Commits == Permutations({B, C, D})
=============================================================================
