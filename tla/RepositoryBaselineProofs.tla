----------------------- MODULE RepositoryBaselineProofs -----------------------
(***************************************************************************)
(* Theorems about the decision of a gate, for every input, finitely many   *)
(* findings or not; and about RepositoryBaseline, for any branches,        *)
(* settings, findings and number of gates.                                 *)
(***************************************************************************)
EXTENDS RepositoryBaseline, WellFoundedInduction, TLAPS

-----------------------------------------------------------------------------
(* THE DECISION OF A GATE *)

\* b is asked what a is asked, of no fewer findings and with no more forgiven.
Harder(a, b) ==
    /\ b.changed = a.changed
    /\ b.baseline = a.baseline
    /\ b.historical = a.historical
    /\ b.rules = a.rules
    /\ b.branch = a.branch
    /\ b.now = a.now
    /\ a.current \subseteq b.current
    /\ b.exceptions \subseteq a.exceptions
    /\ b.falsePositives \subseteq a.falsePositives

\* The decisions a comparison can end with, from the mildest.
Rank(outcome) == IF outcome = "blocked" THEN 2 ELSE IF outcome = "warning" THEN 1 ELSE 0

LEMMA HarderRows ==
  ASSUME NEW a, NEW b, Harder(a, b)
  PROVE  Rows(a) \subseteq Rows(b)
<1>1. SUFFICES ASSUME NEW h \in Rows(a) PROVE h \in Rows(b)
  OBVIOUS
<1>2. /\ h \in Judged(a) \X DOMAIN a.rules
      /\ Matches(a, h[1], h[2]) /\ ~Excepted(a, h[1], h[2])
  BY DEF Rows
<1>3. h[1] \in Judged(b)
  <2>1. /\ h[1] \in ClassifyGateFindings(a) /\ h[1].lifecycle # "fixed"
        /\ h[1].finding.identity \notin a.falsePositives
    BY <1>2 DEF Judged
  <2>2. PICK f \in a.current :
           \/ a.baseline.kind = "absent" /\ h[1] = [finding |-> f, lifecycle |-> "new"]
           \/ /\ a.baseline.kind # "absent"
              /\ h[1] = [finding |-> f, lifecycle |-> LifecycleOf(f, a)]
    BY <2>1 DEF ClassifyGateFindings
  <2>3. f \in b.current /\ LifecycleOf(f, b) = LifecycleOf(f, a)
    BY <2>2 DEF Harder, LifecycleOf
  <2>4. h[1] \in ClassifyGateFindings(b)
    BY <2>2, <2>3 DEF ClassifyGateFindings, Harder
  <2> QED BY <2>1, <2>4 DEF Judged, Harder
<1>4. Matches(b, h[1], h[2])
  BY <1>2 DEF Matches, Harder
<1>5. ~Excepted(b, h[1], h[2])
  BY <1>2 DEF Excepted, Harder
<1>6. h \in Judged(b) \X DOMAIN b.rules
  BY <1>2, <1>3 DEF Harder
<1> QED BY <1>4, <1>5, <1>6 DEF Rows

\* The decision is monotone: a finding more, an exception that expired or was
\* withdrawn, or a triage taken back never makes a gate milder (evaluateGate).
THEOREM HarderIsNotMilder ==
  ASSUME NEW a, NEW b, Harder(a, b)
  PROVE  Rank(EvaluateGate(a)) <= Rank(EvaluateGate(b))
<1>1. Rows(a) \subseteq Rows(b) /\ b.rules = a.rules
  BY HarderRows DEF Harder
<1>2. Violations(a) \subseteq Violations(b)
  BY <1>1 DEF Violations
<1>3. Warnings(a) # {} => Violations(b) # {} \/ Warnings(b) # {}
  BY <1>1 DEF Warnings
<1>4. b.changed = a.changed /\ b.baseline = a.baseline
  BY DEF Harder
<1> QED BY <1>2, <1>3, <1>4 DEF EvaluateGate, Rank

\* A change that adds nothing to its baseline is not blocked by rules that block
\* only what is new or reopened, whatever was seen before the baseline.
THEOREM NothingNewIsNotBlocked ==
  ASSUME NEW input,
         Identities(input.current) \subseteq Identities(input.baseline.findings),
         \A r \in DOMAIN input.rules :
            input.rules[r].decision = "block" =>
              input.rules[r].lifecycle \subseteq {"new", "reopened"}
  PROVE  EvaluateGate(input) # "blocked"
<1>1. SUFFICES ASSUME EvaluateGate(input) = "blocked" PROVE FALSE
  OBVIOUS
<1>2. input.baseline.kind # "absent" /\ Violations(input) # {}
  BY <1>1 DEF EvaluateGate
<1>3. PICK h \in Rows(input) : input.rules[h[2]].decision = "block"
  BY <1>2 DEF Violations
<1>4. /\ h[1] \in ClassifyGateFindings(input) /\ h[1].lifecycle # "fixed"
      /\ h[1].lifecycle \in {"new", "reopened"}
  BY <1>3 DEF Rows, Judged, Matches
<1>5. PICK f \in input.current : h[1] = [finding |-> f, lifecycle |-> LifecycleOf(f, input)]
  BY <1>2, <1>4 DEF ClassifyGateFindings
<1>6. f.identity \in Identities(input.baseline.findings)
  BY <1>5 DEF Identities
<1> QED BY <1>4, <1>5, <1>6 DEF LifecycleOf

-----------------------------------------------------------------------------
(* THE NEWEST OF SOME GATES *)

LEMMA HasLeast ==
  ASSUME NEW S, S \subseteq Nat, S # {}
  PROVE  \E x \in S : \A y \in S : x <= y
<1> DEFINE R == OpToRel(<, Nat)
<1>1. IsWellFoundedOn(R, Nat)
  BY NatLessThanWellFounded
<1>2. \A x, y \in Nat : x < y => <<x, y>> \in R
  BY DEF OpToRel
<1> HIDE DEF R
<1>3. PICK x \in S : \A y \in S : ~(<<y, x>> \in R)
  BY <1>1, WFMin
<1>4. \A y \in S : x <= y
  <2>1. SUFFICES ASSUME NEW y \in S PROVE ~(y < x)
    OBVIOUS
  <2>2. x \in Nat /\ y \in Nat
    OBVIOUS
  <2> QED BY <1>2, <1>3, <2>2
<1> QED BY <1>4

LEMMA HasGreatest ==
  ASSUME NEW N \in Nat, NEW S, S \subseteq 1..N, S # {}
  PROVE  \E x \in S : \A y \in S : y <= x
<1> DEFINE T == {N - x : x \in S}
<1>1. \A x \in S : x \in Int /\ N - x \in Nat
  OBVIOUS
<1>2. T \subseteq Nat
  BY <1>1
<1>3. T # {}
  OBVIOUS
<1>4. PICK t \in T : \A u \in T : t <= u
  <2> HIDE DEF T
  <2> QED BY <1>2, <1>3, HasLeast
<1>5. PICK x \in S : t = N - x
  BY <1>4
<1>6. \A y \in S : N - x <= N - y
  BY <1>4, <1>5
<1> QED BY <1>1, <1>6

\* The newest of a set of gates is one of them, and the only one not older than any.
LEMMA NewestIsOne ==
  ASSUME NEW S, S \subseteq Ids, S # {}
  PROVE  /\ Newest(S) \in S
         /\ \A h \in S : h <= Newest(S)
<1>1. \E x \in S : \A y \in S : y <= x
  BY HasGreatest, BaselineAssumption, ZenonT(60) DEF Ids
<1> QED BY <1>1, SMTT(30) DEF Newest

\* A set loses a gate that is not its newest, and keeps its newest.
LEMMA NewestOfFewer ==
  ASSUME NEW S, S \subseteq Ids, NEW g, Newest(S) # g, Newest(S) \in S
  PROVE  Newest(S \ {g}) = Newest(S)
<1> DEFINE n == Newest(S)
           m == Newest(S \ {g})
<1>1. n \in S /\ \A h \in S : h <= n
  BY NewestIsOne
<1>2. S \ {g} # {} /\ S \ {g} \subseteq Ids
  BY <1>1
<1>3. m \in S \ {g} /\ \A h \in S \ {g} : h <= m
  BY <1>2, NewestIsOne
<1>4. n # g
  OBVIOUS
<1> HIDE DEF n, m
<1>5. n \in Int /\ m \in Int
  BY <1>1, <1>3 DEF Ids
<1>6. n <= m /\ m <= n
  BY <1>1, <1>3, <1>4
<1>7. n = m
  BY <1>5, <1>6
<1> QED BY <1>7 DEF n, m

-----------------------------------------------------------------------------
(* TYPES *)

GateType ==
    [shape    : {"none", "branch", "change"},
     plane    : {"managed", "actions"},
     branch   : Branches,
     eligible : BOOLEAN,
     lineage  : Scans \cup {FileScan},
     head     : 0..MaxHead,
     pressed  : BOOLEAN,
     from     : 0..MaxGates,
     status   : {"running", "cancelling"} \cup Terminal,
     outcome  : Outcomes,
     artifact : Outcomes,
     compared : 0..MaxGates,
     findings : SUBSET Findings,
     deleted  : BOOLEAN]

RowType == [word : Words, gate : 0..MaxGates, branch : Branches \cup {NoBranch},
            reason : Reasons]

PressType == [at : {"idle", "preflight", "dispatching"}, branch : Branches,
              plane : {"managed", "actions"}, gate : 0..MaxGates]

PolicyType == [branches : Protections, scan : Scans]

LEMMA TypeParts ==
  TypeOK <=> /\ gates \in [Ids -> GateType]
             /\ started \in 0..MaxGates
             /\ policy \in PolicyType
             /\ head \in 1..MaxHead
             /\ row \in RowType
             /\ press \in [Presses -> PressType]
BY DEF TypeOK, GateType, RowType, PressType, PolicyType

LEMMA ConstantTypes ==
  /\ NoGate \in GateType
  /\ Absent \in RowType
  /\ Idle \in PressType
BY BaselineAssumption
   DEF NoGate, GateType, Absent, RowType, Idle, PressType, Outcomes, Words, Reasons, NoBranch

LEMMA ProtectedType ==
  ASSUME NEW pol \in PolicyType
  PROVE  ProtectedBranch(pol) \in Branches
<1>1. pol.branches \in SUBSET Branches /\ pol.branches # {}
  BY BaselineAssumption DEF PolicyType
<1> QED BY <1>1, BaselineAssumption DEF ProtectedBranch

LEMMA CandidateType ==
  ASSUME NEW gs, NEW pol
  PROVE  /\ Candidate(gs, pol) \in 0..MaxGates
         /\ Candidate(gs, pol) # 0 => Candidate(gs, pol) \in Candidates(gs)
<1> DEFINE on == {g \in Candidates(gs) : gs[g].branch = ProtectedBranch(pol)}
<1>1. Candidates(gs) \subseteq Ids /\ on \subseteq Candidates(gs)
  BY DEF Candidates, BranchGates, Listed
<1>2. on # {} => Newest(on) \in on
  BY <1>1, NewestIsOne
<1>3. Candidates(gs) # {} => Newest(Candidates(gs)) \in Candidates(gs)
  BY <1>1, NewestIsOne
<1>4. Candidate(gs, pol) = IF on # {} THEN Newest(on)
        ELSE IF Candidates(gs) # {} THEN Newest(Candidates(gs)) ELSE 0
  BY DEF Candidate
<1> HIDE DEF on
<1>5. Candidate(gs, pol) = 0 \/ Candidate(gs, pol) \in Candidates(gs)
  BY <1>1, <1>2, <1>3, <1>4
<1> QED BY <1>1, <1>5, BaselineAssumption DEF Ids

LEMMA DerivedType ==
  ASSUME NEW gs \in [Ids -> GateType], NEW pol, row \in RowType
  PROVE  Derived(gs, pol) \in RowType
<1>1. Candidate(gs, pol) \in 0..MaxGates
  BY CandidateType
<1>2. Candidate(gs, pol) # 0 => gs[Candidate(gs, pol)].branch \in Branches
  BY <1>1, BaselineAssumption DEF Ids, GateType
<1>3. row.reason \in Reasons
  BY DEF RowType
<1> QED BY <1>1, <1>2, <1>3, ConstantTypes DEF Derived, RowType, Words, Reasons

LEMMA MarkedTypes ==
  /\ row \in RowType => MarkedBuilding \in RowType
  /\ \A base \in RowType, reason \in Reasons : MarkedStale(base, reason) \in RowType
BY DEF MarkedBuilding, MarkedStale, RowType, Words

LEMMA PreviewType ==
  ASSUME policy \in PolicyType, NEW shape \in {"branch", "change"},
         NEW pl \in {"managed", "actions"}, NEW b \in Branches
  PROVE  Preview(shape, pl, b) \in GateType
<1> DEFINE eligible == IF pl = "managed" THEN b \in policy.branches ELSE b = Main
           lineage  == IF pl = "managed" THEN policy.scan ELSE FileScan
<1>1. eligible \in BOOLEAN
  <2>1. (b \in policy.branches) \in BOOLEAN /\ (b = Main) \in BOOLEAN
    OBVIOUS
  <2> QED BY <2>1, Zenon
<1>2. lineage \in Scans \cup {FileScan}
  BY DEF PolicyType
<1>3. Preview(shape, pl, b) =
        [NoGate EXCEPT !.shape = shape, !.plane = pl, !.branch = b,
                       !.eligible = eligible, !.lineage = lineage]
  BY DEF Preview
<1> HIDE DEF eligible, lineage
<1> QED BY <1>1, <1>2, <1>3, ConstantTypes, ZenonT(60) DEF GateType

LEMMA ManagedBaselineIsOne ==
  ASSUME NEW gate
  PROVE  \/ ManagedBaseline(gate) = 0
         \/ /\ ManagedBaseline(gate) \in BranchGates(gates)
            /\ gates[ManagedBaseline(gate)].status = "completed"
            /\ SelectGateBaseline(Context(gate), Artifact(gates[ManagedBaseline(gate)]))
<1> DEFINE S == {b \in BranchGates(gates) :
                   /\ gates[b].status = "completed"
                   /\ gates[b].branch = Context(gate).branch
                   /\ SelectGateBaseline(Context(gate), Artifact(gates[b]))}
<1>1. S \subseteq Ids
  BY DEF BranchGates, Listed
<1>2. S # {} => Newest(S) \in S
  <2> HIDE DEF S
  <2> QED BY <1>1, NewestIsOne
<1>3. ManagedBaseline(gate) = IF S = {} THEN 0 ELSE Newest(S)
  BY DEF ManagedBaseline
<1> QED BY <1>2, <1>3

LEMMA ManagedBaselineType ==
  ASSUME NEW gate
  PROVE  ManagedBaseline(gate) \in 0..MaxGates
BY ManagedBaselineIsOne, BaselineAssumption DEF BranchGates, Listed, Ids

LEMMA ActionsBaselineType ==
  ASSUME NEW gate \in GateType, NEW expired
  PROVE  ActionsBaseline(gate, expired) \in 0..MaxGates
BY BaselineAssumption DEF ActionsBaseline, GateType

LEMMA EvaluationType ==
  ASSUME NEW gate \in GateType, NEW changed, NEW found \in SUBSET Findings,
         NEW base \in 0..MaxGates
  PROVE  Evaluation(gate, changed, found, base) \in GateType
<1>1. \A input : EvaluateGate(input) \in Outcomes
  BY DEF EvaluateGate, Outcomes
<1>2. \A o \in Outcomes : Completed(gate, o) \in GateType
  BY DEF Completed, GateType, Terminal
<1>3. PICK o \in Outcomes :
         Evaluation(gate, changed, found, base) =
           [Completed(gate, o) EXCEPT !.compared = base, !.findings = found]
  BY <1>1 DEF Evaluation
<1> QED BY <1>2, <1>3, ZenonT(60) DEF GateType

-----------------------------------------------------------------------------
(***************************************************************************)
(* THE INDUCTIVE INVARIANT.  What a gate refers to, a baseline compared    *)
(* with or named by a dispatch, was completed when it was read and is kept *)
(* as it was.  So is the gate of a row that says ready.                    *)
(***************************************************************************)
\* No rule blocks what the baseline has too; the shipped rules ask for a review of it.
BlocksOnlyNew ==
    \A r \in DOMAIN Rules : Rules[r].decision = "block" => "persistent" \notin Rules[r].lifecycle

Ended(gs, b) == b # 0 /\ gs[b].shape = "branch" /\ gs[b].status = "completed"

Proved(gs, gate) ==
    /\ Ended(gs, gate.compared)
    /\ gs[gate.compared].branch = gate.branch
    /\ gs[gate.compared].lineage = gate.lineage
    /\ BlocksOnlyNew =>
         ~(Identities(gate.findings)
             \subseteq Identities(Recognized(gate, gs[gate.compared].findings)))

GateInv(gs, gate) ==
    /\ gate.from # 0 => Ended(gs, gate.from)
    /\ gate.pressed => gate.shape = "branch" /\ gate.plane = "actions"
    /\ gate.outcome = "blocked" => Proved(gs, gate)

ReadyInv(gs, pol, r) ==
    r.word = "ready" =>
        /\ Ended(gs, r.gate)
        /\ ~gs[r.gate].deleted => /\ r.branch = ProtectedBranch(pol)
                                  /\ r.gate = Candidate(gs, pol)

BuildInv(gs, r) ==
    (r.word = "building" /\ \A g \in Ids : gs[g].shape = "branch" => gs[g].plane = "managed")
        => BuildRunning(gs)

PressInv(gs, one) ==
    one.at = "dispatching" =>
        /\ one.gate # 0
        /\ gs[one.gate].shape = "branch"
        /\ gs[one.gate].plane = "actions"

Unstarted == \A g \in Ids : g > started => gates[g] = NoGate

IInv ==
    /\ Unstarted
    /\ \A g \in Ids : GateInv(gates, gates[g])
    /\ ReadyInv(gates, policy, row)
    /\ BuildInv(gates, row)
    /\ \A p \in Presses : PressInv(gates, press[p])

Inv == TypeOK /\ IInv

\* What no step takes back from a gate that was started.
Kept(old, new) ==
    /\ new.shape = old.shape
    /\ new.plane = old.plane
    /\ new.branch = old.branch
    /\ new.lineage = old.lineage
    /\ old.status = "completed" => new.status = "completed" /\ new.findings = old.findings

Grown(gs, next) == \A g \in Ids : gs[g].shape # "none" => Kept(gs[g], next[g])

LEMMA GrownEnded ==
  ASSUME NEW gs, NEW next, Grown(gs, next), NEW b \in 0..MaxGates, Ended(gs, b)
  PROVE  /\ Ended(next, b)
         /\ next[b].branch = gs[b].branch
         /\ next[b].lineage = gs[b].lineage
         /\ next[b].findings = gs[b].findings
BY BaselineAssumption DEF Grown, Kept, Ended, Ids

LEMMA GrownGateInv ==
  ASSUME NEW gs, NEW next, Grown(gs, next), NEW gate \in GateType, GateInv(gs, gate)
  PROVE  GateInv(next, gate)
<1>1. gate.from \in 0..MaxGates /\ gate.compared \in 0..MaxGates
  BY DEF GateType
<1>2. gate.from # 0 => Ended(next, gate.from)
  BY <1>1, GrownEnded DEF GateInv
<1>3. gate.outcome = "blocked" => Proved(next, gate)
  BY <1>1, GrownEnded DEF GateInv, Proved
<1> QED BY <1>2, <1>3 DEF GateInv

LEMMA GrownPressInv ==
  ASSUME NEW gs, NEW next, Grown(gs, next), NEW one \in PressType, PressInv(gs, one)
  PROVE  PressInv(next, one)
BY BaselineAssumption DEF Grown, Kept, PressInv, PressType, Ids

\* The candidate depends on the gates that completed, and on their branches.
LEMMA SameCandidate ==
  ASSUME NEW gs, NEW next, NEW pol, Candidates(next) = Candidates(gs),
         \A g \in Candidates(gs) : next[g].branch = gs[g].branch
  PROVE  Candidate(next, pol) = Candidate(gs, pol)
<1>1. {g \in Candidates(next) : next[g].branch = ProtectedBranch(pol)}
        = {g \in Candidates(gs) : gs[g].branch = ProtectedBranch(pol)}
  OBVIOUS
<1> QED BY <1>1 DEF Candidate

LEMMA CandidateKept ==
  ASSUME Candidates(gates') = Candidates(gates),
         \A g \in Candidates(gates) : gates'[g].branch = gates[g].branch
  PROVE  Candidate(gates', policy) = Candidate(gates, policy)
<1> DEFINE next == gates'
<1>1. /\ Candidates(next) = Candidates(gates)
      /\ \A g \in Candidates(gates) : next[g].branch = gates[g].branch
  OBVIOUS
<1> HIDE DEF next
<1>2. Candidate(next, policy) = Candidate(gates, policy)
  BY <1>1, SameCandidate
<1> QED BY <1>2 DEF next

\* Without one that is not the candidate, the candidate is the same.
LEMMA CandidateOfFewer ==
  ASSUME NEW gs, NEW next, NEW pol, NEW g, Candidates(next) = Candidates(gs) \ {g},
         \A h \in Candidates(gs) : next[h].branch = gs[h].branch,
         Candidate(gs, pol) # g, Candidate(gs, pol) # 0
  PROVE  Candidate(next, pol) = Candidate(gs, pol)
<1> DEFINE all  == Candidates(gs)
           on   == {h \in all : gs[h].branch = ProtectedBranch(pol)}
<1>1. all \subseteq Ids /\ on \subseteq all
  BY DEF Candidates, BranchGates, Listed
<1>2. {h \in Candidates(next) : next[h].branch = ProtectedBranch(pol)} = on \ {g}
  OBVIOUS
<1>3. Candidate(gs, pol) = IF on # {} THEN Newest(on)
                           ELSE IF all # {} THEN Newest(all) ELSE 0
  BY DEF Candidate
<1>4. Candidate(next, pol) = IF on \ {g} # {} THEN Newest(on \ {g})
                             ELSE IF all \ {g} # {} THEN Newest(all \ {g}) ELSE 0
  BY <1>2 DEF Candidate
<1> HIDE DEF all, on
<1>5. CASE on # {}
  <2>1. Newest(on) \in on /\ Newest(on) # g /\ Newest(on \ {g}) = Newest(on)
    BY <1>1, <1>3, <1>5, NewestIsOne, NewestOfFewer
  <2> QED BY <1>3, <1>4, <1>5, <2>1
<1>6. CASE on = {}
  <2>1. all # {} /\ Newest(all) \in all /\ Newest(all) # g
    BY <1>1, <1>3, <1>6, NewestIsOne
  <2>2. Newest(all \ {g}) = Newest(all)
    BY <1>1, <2>1, NewestOfFewer
  <2> QED BY <1>3, <1>4, <1>6, <2>1, <2>2
<1> QED BY <1>5, <1>6

\* A row derived from the gates says ready of the candidate, and building of a build.
LEMMA DerivedInv ==
  ASSUME NEW gs \in [Ids -> GateType], NEW pol
  PROVE  /\ ReadyInv(gs, pol, Derived(gs, pol))
         /\ BuildInv(gs, Derived(gs, pol))
<1> DEFINE c == Candidate(gs, pol)
<1>1. c # 0 => Ended(gs, c)
  BY CandidateType DEF Ended, Candidates, BranchGates
<1>2. \/ c = 0 /\ Derived(gs, pol) = Absent
      \/ c = 0 /\ Derived(gs, pol) = row /\ row.word = "building" /\ BuildRunning(gs)
      \/ c # 0 /\ Derived(gs, pol).word = "stale"
      \/ /\ c # 0 /\ Derived(gs, pol).word = "ready" /\ Derived(gs, pol).gate = c
         /\ Derived(gs, pol).branch = ProtectedBranch(pol)
  BY DEF Derived
<1> QED BY <1>1, <1>2 DEF ReadyInv, BuildInv, Absent

\* Marking a row stale leaves it building, absent or stale, never ready.
LEMMA MarkedStaleInv ==
  ASSUME NEW gs, NEW pol, NEW base \in RowType, NEW reason, BuildInv(gs, base)
  PROVE  /\ ReadyInv(gs, pol, MarkedStale(base, reason))
         /\ BuildInv(gs, MarkedStale(base, reason))
BY DEF MarkedStale, ReadyInv, BuildInv, RowType

LEMMA MarkedBuildingInv ==
  ASSUME NEW gs, NEW pol, row \in RowType,
         \/ BuildRunning(gs)
         \/ \E g \in Ids : gs[g].shape = "branch" /\ gs[g].plane = "actions"
  PROVE  ReadyInv(gs, pol, MarkedBuilding) /\ BuildInv(gs, MarkedBuilding)
BY DEF MarkedBuilding, ReadyInv, BuildInv, RowType

-----------------------------------------------------------------------------
(* THE KINDS OF STEP *)

\* What a step establishes whatever it does to the row.
GatesInv ==
    /\ gates \in [Ids -> GateType]
    /\ started \in 0..MaxGates
    /\ Unstarted
    /\ \A g \in Ids : GateInv(gates, gates[g])

LEMMA BeginStep ==
  ASSUME Inv, NEW new \in GateType, Begin(new),
         new.shape # "none", new.status = "running", ~new.deleted, GateInv(gates, new)
  PROVE  /\ GatesInv'
         /\ Grown(gates, gates')
         /\ gates'[started + 1] = new
         /\ Candidates(gates') = Candidates(gates)
         /\ \A g \in Candidates(gates) : gates'[g].branch = gates[g].branch
         /\ BuildRunning(gates) => BuildRunning(gates')
         /\ new.shape = "branch" => BuildRunning(gates')
<1> DEFINE n == started + 1
<1>1. /\ gates \in [Ids -> GateType] /\ started \in 0..MaxGates
      /\ n \in Ids /\ started' = n /\ n \in 0..MaxGates
      /\ gates' = [gates EXCEPT ![n] = new]
  BY BaselineAssumption, TypeParts DEF Inv, Begin, Ids
<1>2. gates[n] = NoGate
  BY <1>1 DEF Inv, IInv, Unstarted
<1> HIDE DEF n
<1>3. /\ gates' \in [Ids -> GateType] /\ gates'[n] = new
      /\ \A g \in Ids : g # n => gates'[g] = gates[g]
  BY <1>1
<1>4. Grown(gates, gates')
  BY <1>2, <1>3 DEF Grown, Kept, NoGate
<1>5. Unstarted'
  <2>1. \A g \in Ids : g > started' => g > started /\ g # n
    BY <1>1 DEF n, Ids
  <2> QED BY <1>3, <2>1 DEF Unstarted, Inv, IInv
<1>6. \A g \in Ids : GateInv(gates', gates'[g])
  <2>1. SUFFICES ASSUME NEW g \in Ids PROVE GateInv(gates', gates'[g])
    OBVIOUS
  <2>2. gates'[g] \in GateType /\ GateInv(gates, gates'[g])
    BY <1>1, <1>3 DEF Inv, IInv
  <2> QED BY <1>4, <2>2, GrownGateInv
<1>7. /\ Candidates(gates') = Candidates(gates)
      /\ \A g \in Candidates(gates) : gates'[g].branch = gates[g].branch
  BY <1>2, <1>3 DEF Candidates, BranchGates, Listed, NoGate
<1>8. /\ BuildRunning(gates) => BuildRunning(gates')
      /\ new.shape = "branch" => BuildRunning(gates')
  BY <1>1, <1>2, <1>3 DEF BuildRunning, BranchGates, Listed, NoGate, Terminal
<1> QED BY <1>1, <1>3, <1>4, <1>5, <1>6, <1>7, <1>8 DEF GatesInv, n

\* The gate that ends keeps what it was started with.
SameStart(old, new) ==
    /\ new.shape = old.shape
    /\ new.plane = old.plane
    /\ new.branch = old.branch
    /\ new.lineage = old.lineage
    /\ new.from = old.from
    /\ new.pressed = old.pressed
    /\ new.deleted = old.deleted

LEMMA GateStep ==
  ASSUME Inv, NEW g \in Ids, NEW gate \in GateType,
         gates[g].shape # "none",
         gates[g].status \in {"running", "cancelling"} \/ gate = [gates[g] EXCEPT !.deleted = TRUE],
         gates' = [gates EXCEPT ![g] = gate], started' = started,
         gates[g].status \in {"running", "cancelling"} => SameStart(gates[g], gate),
         gate.outcome = "blocked" => Proved(gates, gate)
  PROVE  GatesInv' /\ Grown(gates, gates')
<1>1. gates \in [Ids -> GateType] /\ started \in 0..MaxGates /\ gates[g] \in GateType
  BY TypeParts DEF Inv
<1>2. /\ gates' \in [Ids -> GateType] /\ gates'[g] = gate
      /\ \A h \in Ids : h # g => gates'[h] = gates[h]
  BY <1>1
<1>3. Kept(gates[g], gate)
  BY <1>1 DEF Kept, SameStart, GateType
<1>4. Grown(gates, gates')
  BY <1>2, <1>3 DEF Grown, Kept
<1>5. Unstarted'
  <2>1. ~(g > started)
    BY DEF Unstarted, Inv, IInv, NoGate
  <2> QED BY <1>2, <2>1 DEF Unstarted, Inv, IInv
<1>6. GateInv(gates, gate)
  <2>1. gate.from = gates[g].from /\ gate.pressed = gates[g].pressed
        /\ gate.shape = gates[g].shape /\ gate.plane = gates[g].plane
    BY <1>1 DEF SameStart, GateType
  <2>2. GateInv(gates, gates[g])
    BY DEF Inv, IInv
  <2> QED BY <2>1, <2>2 DEF GateInv
<1>7. \A h \in Ids : GateInv(gates', gates'[h])
  <2>1. SUFFICES ASSUME NEW h \in Ids PROVE GateInv(gates', gates'[h])
    OBVIOUS
  <2>2. gates'[h] \in GateType /\ GateInv(gates, gates'[h])
    BY <1>1, <1>2, <1>6 DEF Inv, IInv
  <2> QED BY <1>4, <2>2, GrownGateInv
<1> QED BY <1>1, <1>2, <1>4, <1>5, <1>7 DEF GatesInv

\* A gate on Actions that ends without a result leaves the candidate, and the builds
\* unless it is one: then the row may say building of nothing.
LEMMA QuietStep ==
  ASSUME Inv, NEW g \in Ids, NEW gate \in GateType,
         gates[g].shape # "none", gates[g].plane = "actions",
         gates[g].status \in {"running", "cancelling"},
         gates' = [gates EXCEPT ![g] = gate], SameStart(gates[g], gate),
         gate.status # "completed", row' = row, policy' = policy
  PROVE  /\ ReadyInv(gates', policy', row')
         /\ BuildInv(gates', row')
<1>1. gates \in [Ids -> GateType]
  BY TypeParts DEF Inv
<1>2. /\ gates'[g] = gate
      /\ \A h \in Ids : h # g => gates'[h] = gates[h]
  BY <1>1
<1>3. /\ Candidates(gates') = Candidates(gates)
      /\ \A h \in Candidates(gates) : gates'[h].branch = gates[h].branch
  BY <1>2 DEF Candidates, BranchGates, Listed, SameStart
<1>4. Candidate(gates', policy) = Candidate(gates, policy)
  BY <1>3, CandidateKept
<1>5. ReadyInv(gates, policy, row) /\ row \in RowType
  BY TypeParts DEF Inv, IInv
<1>6. (Ended(gates, row.gate) /\ row.gate \in Ids) => gates'[row.gate] = gates[row.gate]
  BY <1>2 DEF Ended
<1>7. row.gate # 0 => row.gate \in Ids
  BY <1>5, BaselineAssumption DEF RowType, Ids
<1>8. ReadyInv(gates', policy', row')
  BY <1>4, <1>5, <1>6, <1>7 DEF ReadyInv, Ended
<1>9. BuildInv(gates', row')
  <2>1. CASE gate.shape = "branch"
    BY <1>2, <2>1 DEF BuildInv, SameStart
  <2>2. CASE gate.shape # "branch"
    <3>1. BranchGates(gates') = BranchGates(gates)
      BY <1>2, <2>2 DEF BranchGates, Listed, SameStart
    <3>2. \A h \in BranchGates(gates) : h # g
      BY <2>2 DEF BranchGates, SameStart
    <3>3. BuildRunning(gates') <=> BuildRunning(gates)
      BY <1>2, <3>1, <3>2 DEF BuildRunning, BranchGates, Listed
    <3>4. \A h \in Ids : gates'[h].shape = gates[h].shape /\ gates'[h].plane = gates[h].plane
      BY <1>2 DEF SameStart
    <3> QED BY <3>3, <3>4 DEF BuildInv, Inv, IInv
  <2> QED BY <2>1, <2>2
<1> QED BY <1>8, <1>9

LEMMA DeleteStep ==
  ASSUME Inv, NEW g \in Ids, DeleteGate(g)
  PROVE  /\ ReadyInv(gates', policy', row')
         /\ BuildInv(gates', row')
<1>1. /\ gates \in [Ids -> GateType] /\ row \in RowType
      /\ row' = row /\ policy' = policy
  BY TypeParts DEF Inv, DeleteGate
<1>2. /\ gates'[g] = [gates[g] EXCEPT !.deleted = TRUE]
      /\ \A h \in Ids : h # g => gates'[h] = gates[h]
  BY <1>1 DEF DeleteGate
<1>3. /\ gates'[g].deleted
      /\ \A h \in Ids : /\ gates'[h].shape = gates[h].shape
                        /\ gates'[h].plane = gates[h].plane
                        /\ gates'[h].branch = gates[h].branch
                        /\ gates'[h].status = gates[h].status
                        /\ gates'[h].outcome = gates[h].outcome
  BY <1>1, <1>2 DEF GateType
<1>4. ReadyInv(gates', policy', row')
  <2> DEFINE next == gates'
             c    == row.gate
  <2>1. SUFFICES ASSUME row.word = "ready" PROVE ReadyInv(gates', policy, row)
    BY <1>1 DEF ReadyInv
  <2>2. c \in Ids /\ Ended(gates, c)
    BY <1>1, <2>1, BaselineAssumption DEF Inv, IInv, ReadyInv, Ended, RowType, Ids
  <2>3. Ended(next, c)
    BY <1>3, <2>2 DEF Ended
  <2>4. ASSUME ~next[c].deleted
        PROVE  row.branch = ProtectedBranch(policy) /\ c = Candidate(next, policy)
    <3>1. c # g /\ ~gates[c].deleted
      BY <1>2, <1>3, <2>2, <2>4
    <3>2. row.branch = ProtectedBranch(policy) /\ c = Candidate(gates, policy)
      BY <2>1, <3>1 DEF Inv, IInv, ReadyInv
    <3>3. Candidates(next) = Candidates(gates) \ {g}
      BY <1>2, <1>3 DEF Candidates, BranchGates, Listed
    <3>4. \A h \in Candidates(gates) : next[h].branch = gates[h].branch
      BY <1>3 DEF Candidates, BranchGates, Listed
    <3>5. c # 0
      BY <2>2 DEF Ended
    <3> HIDE DEF next, c
    <3> QED BY <3>1, <3>2, <3>3, <3>4, <3>5, CandidateOfFewer
  <2> QED BY <2>3, <2>4 DEF ReadyInv
<1>5. BuildInv(gates', row')
  <2>1. gates[g].status \in Terminal
    BY DEF DeleteGate
  <2>2. BuildRunning(gates) => BuildRunning(gates')
    BY <1>2, <1>3, <2>1 DEF BuildRunning, BranchGates, Listed
  <2> QED BY <1>1, <1>3, <2>2 DEF BuildInv, Inv, IInv
<1> QED BY <1>4, <1>5

-----------------------------------------------------------------------------
(* WHAT A JUDGEMENT ESTABLISHES *)

\* An input that is blocked has a comparable baseline without one of its findings.
LEMMA BlockedInput ==
  ASSUME NEW input, input.rules = Rules, EvaluateGate(input) = "blocked"
  PROVE  /\ input.baseline.kind \notin {"absent", "unavailable", "incompatible"}
         /\ BlocksOnlyNew =>
              ~(Identities(input.current) \subseteq Identities(input.baseline.findings))
<1>1. /\ input.baseline.kind \notin {"absent", "unavailable", "incompatible"}
      /\ Violations(input) # {}
  BY DEF EvaluateGate
<1>2. PICK h \in Rows(input) : input.rules[h[2]].decision = "block"
  BY <1>1 DEF Violations
<1>3. /\ h[1] \in Judged(input) /\ h[2] \in DOMAIN Rules
      /\ h[1].lifecycle \in Rules[h[2]].lifecycle
      /\ Rules[h[2]].decision = "block"
  BY <1>2 DEF Rows, Matches
<1>4. h[1] \in ClassifyGateFindings(input) /\ h[1].lifecycle # "fixed"
  BY <1>3 DEF Judged
<1>5. PICK f \in input.current : h[1] = [finding |-> f, lifecycle |-> LifecycleOf(f, input)]
  BY <1>1, <1>4 DEF ClassifyGateFindings
<1>6. BlocksOnlyNew => f.identity \notin Identities(input.baseline.findings)
  BY <1>3, <1>5 DEF BlocksOnlyNew, LifecycleOf
<1> QED BY <1>1, <1>5, <1>6 DEF Identities

\* What redaction left its identity goes to the evaluation under that identity.
LEMMA RecognizedIsKnown ==
  ASSUME NEW gate, NEW known
  PROVE  Identities(Recognized(gate, known)) \subseteq Identities(BaselineFindings(gate, known))
<1> SUFFICES ASSUME NEW f \in known, gate.plane = "managed" \/ f.recomputed = f.identity
             PROVE  \E b \in BaselineFindings(gate, known) : b.identity = f.identity
  BY DEF Identities, Recognized
<1>1. CASE gate.plane = "managed"
  BY <1>1 DEF BaselineFindings
<1>2. CASE gate.plane # "managed"
  <2>1. FindingSummary(f) \in BaselineFindings(gate, known)
    BY <1>2 DEF BaselineFindings
  <2>2. FindingSummary(f).identity = f.identity
    BY <1>2 DEF FindingSummary
  <2> QED BY <2>1, <2>2
<1> QED BY <1>1, <1>2

LEMMA EvaluationProved ==
  ASSUME NEW gate \in GateType, NEW changed, NEW found \in SUBSET Findings,
         NEW base \in 0..MaxGates,
         base # 0 => /\ Ended(gates, base)
                     /\ SelectGateBaseline(Context(gate), Artifact(gates[base])),
         Evaluation(gate, changed, found, base).outcome = "blocked"
  PROVE  Proved(gates, Evaluation(gate, changed, found, base))
<1> DEFINE input == [changed |-> changed, current |-> found, historical |-> {},
                  baseline |-> IF base = 0 THEN [kind |-> "absent", findings |-> {}]
                               ELSE [kind     |-> "comparable",
                                     findings |-> BaselineFindings(gate, gates[base].findings)],
                  falsePositives |-> {}, rules |-> Rules, exceptions |-> {},
                  branch |-> gate.branch, now |-> 0]
           end == Evaluation(gate, changed, found, base)
<1>1. end = [Completed(gate, EvaluateGate(input)) EXCEPT !.compared = base, !.findings = found]
  BY DEF Evaluation
<1>2. /\ input.rules = Rules /\ input.current = found
      /\ base = 0 => input.baseline.kind = "absent"
      /\ base # 0 => input.baseline.findings = BaselineFindings(gate, gates[base].findings)
  OBVIOUS
<1> HIDE DEF input
<1>3. /\ end.outcome = EvaluateGate(input) /\ end.compared = base /\ end.findings = found
      /\ end.branch = gate.branch /\ end.lineage = gate.lineage /\ end.plane = gate.plane
  BY <1>1 DEF Completed, GateType
<1>4. base # 0
  BY <1>2, <1>3, BlockedInput
<1>6. BlocksOnlyNew =>
        ~(Identities(found) \subseteq Identities(Recognized(gate, gates[base].findings)))
  BY <1>2, <1>3, <1>4, BlockedInput, RecognizedIsKnown
<1>7. Recognized(end, gates[base].findings) = Recognized(gate, gates[base].findings)
  BY <1>3 DEF Recognized
<1>5. gates[base].branch = gate.branch /\ gates[base].lineage = gate.lineage
  BY <1>4 DEF SelectGateBaseline, Incompatibility, Context, Artifact
<1> QED BY <1>3, <1>4, <1>5, <1>6, <1>7 DEF Proved

LEMMA EvaluationKeeps ==
  ASSUME NEW gate \in GateType, NEW changed, NEW found, NEW base
  PROVE  /\ SameStart(gate, Evaluation(gate, changed, found, base))
         /\ Evaluation(gate, changed, found, base).status = "completed"
<1>1. PICK o : Evaluation(gate, changed, found, base) =
                 [Completed(gate, o) EXCEPT !.compared = base, !.findings = found]
  BY DEF Evaluation
<1> QED BY <1>1 DEF Completed, SameStart, GateType

LEMMA ManagedBaselineEnded ==
  ASSUME NEW gate, ManagedBaseline(gate) # 0
  PROVE  /\ Ended(gates, ManagedBaseline(gate))
         /\ SelectGateBaseline(Context(gate), Artifact(gates[ManagedBaseline(gate)]))
BY ManagedBaselineIsOne DEF Ended, BranchGates

LEMMA ActionsBaselineEnded ==
  ASSUME NEW gate, GateInv(gates, gate), NEW expired, ActionsBaseline(gate, expired) # 0
  PROVE  /\ Ended(gates, ActionsBaseline(gate, expired))
         /\ SelectGateBaseline(Context(gate), Artifact(gates[ActionsBaseline(gate, expired)]))
BY DEF ActionsBaseline, GateInv

-----------------------------------------------------------------------------
(* EVERY STEP *)

LEMMA InitInv == Init => Inv
<1> SUFFICES ASSUME Init PROVE Inv
  OBVIOUS
<1>1. TypeOK
  <2>1. policy \in PolicyType
    BY BaselineAssumption DEF Init, PolicyType
  <2> QED BY <2>1, ConstantTypes, TypeParts, BaselineAssumption DEF Init
<1>2. \A g \in Ids : gates[g] = NoGate
  BY DEF Init
<1>3. IInv
  BY <1>2 DEF Init, IInv, Unstarted, GateInv, ReadyInv, BuildInv, PressInv, NoGate, Absent, Idle
<1> QED BY <1>1, <1>3 DEF Inv

\* The row and the gates of a step make the invariant of the next state.
LEMMA Together ==
  ASSUME GatesInv', policy' \in PolicyType, head' \in 1..MaxHead,
         row' \in RowType, press' \in [Presses -> PressType],
         ReadyInv(gates', policy', row'), BuildInv(gates', row'),
         \A p \in Presses : PressInv(gates', press'[p])
  PROVE  Inv'
<1>1. TypeOK'
  BY DEF GatesInv, TypeOK, GateType, RowType, PressType, PolicyType
<1>2. IInv'
  BY DEF GatesInv, IInv
<1> QED BY <1>1, <1>2 DEF Inv

LEMMA PressKept ==
  ASSUME Inv, Grown(gates, gates'), NEW p \in Presses, press'[p] = press[p]
  PROVE  PressInv(gates', press'[p])
<1>1. press[p] \in PressType /\ PressInv(gates, press[p])
  BY TypeParts DEF Inv, IInv
<1> QED BY <1>1, GrownPressInv

\* A gate starts: the row is as it was, or says building of the new gate.
LEMMA StartedRow ==
  ASSUME Inv, NEW new \in GateType, Begin(new),
         new.shape # "none", new.status = "running", ~new.deleted, GateInv(gates, new),
         policy' = policy,
         row' = row \/ (row' = MarkedBuilding /\ new.shape = "branch")
  PROVE  /\ ReadyInv(gates', policy', row')
         /\ BuildInv(gates', row')
         /\ row' \in RowType
<1>1. /\ GatesInv' /\ Grown(gates, gates')
      /\ Candidate(gates', policy) = Candidate(gates, policy)
      /\ BuildRunning(gates) => BuildRunning(gates')
      /\ new.shape = "branch" => BuildRunning(gates')
  BY BeginStep, CandidateKept
<1>2. /\ row \in RowType /\ ReadyInv(gates, policy, row) /\ BuildInv(gates, row)
      /\ gates \in [Ids -> GateType]
  BY TypeParts DEF Inv, IInv
<1>3. CASE row' = row
  <2>1. ASSUME row.word = "ready" PROVE /\ Ended(gates', row.gate)
                                        /\ gates'[row.gate].deleted = gates[row.gate].deleted
    <3>1. Ended(gates, row.gate) /\ row.gate \in Ids
      BY <1>2, <2>1, BaselineAssumption DEF ReadyInv, Ended, RowType, Ids
    <3>2. row.gate # started + 1
      BY <3>1, BaselineAssumption, TypeParts DEF Inv, IInv, Unstarted, Ended, NoGate, Begin, Ids
    <3>3. gates'[row.gate] = gates[row.gate]
      BY <1>2, <3>1, <3>2 DEF Begin
    <3> QED BY <3>1, <3>3 DEF Ended
  <2>2. ReadyInv(gates', policy', row')
    BY <1>1, <1>2, <1>3, <2>1 DEF ReadyInv
  <2>3. \A g \in Ids : gates[g].shape = "branch" =>
                         /\ gates'[g].shape = "branch"
                         /\ gates'[g].plane = gates[g].plane
    BY <1>1 DEF Grown, Kept
  <2>4. BuildInv(gates', row')
    BY <1>1, <1>2, <1>3, <2>3 DEF BuildInv
  <2> QED BY <1>2, <1>3, <2>2, <2>4
<1>4. CASE row' = MarkedBuilding /\ new.shape = "branch"
  BY <1>1, <1>2, <1>4, MarkedTypes DEF MarkedBuilding, ReadyInv, BuildInv, RowType
<1> QED BY <1>3, <1>4

\* A gate ends, and the row is derived again.
LEMMA SettledRow ==
  ASSUME Inv, gates' \in [Ids -> GateType], policy' \in PolicyType,
         \/ row' = Derived(gates', policy')
         \/ \E reason \in Reasons : row' = MarkedStale(Derived(gates', policy'), reason)
  PROVE  /\ ReadyInv(gates', policy', row')
         /\ BuildInv(gates', row')
         /\ row' \in RowType
<1> DEFINE next == gates'
           pol  == policy'
<1>1. row \in RowType /\ next \in [Ids -> GateType]
  BY TypeParts DEF Inv
<1>2. \/ row' = Derived(next, pol)
      \/ \E reason \in Reasons : row' = MarkedStale(Derived(next, pol), reason)
  OBVIOUS
<1> HIDE DEF next, pol
<1>3. /\ Derived(next, pol) \in RowType
      /\ ReadyInv(next, pol, Derived(next, pol))
      /\ BuildInv(next, Derived(next, pol))
  BY <1>1, DerivedType, DerivedInv
<1>4. \A reason \in Reasons :
         /\ MarkedStale(Derived(next, pol), reason) \in RowType
         /\ ReadyInv(next, pol, MarkedStale(Derived(next, pol), reason))
         /\ BuildInv(next, MarkedStale(Derived(next, pol), reason))
  BY <1>3, MarkedTypes, MarkedStaleInv
<1>5. row' \in RowType /\ ReadyInv(next, pol, row') /\ BuildInv(next, row')
  BY <1>2, <1>3, <1>4
<1> QED BY <1>5 DEF next, pol

LEMMA NewGate ==
  ASSUME Inv, NEW shape \in {"branch", "change"}, NEW pl \in {"managed", "actions"},
         NEW b \in Branches
  PROVE  LET new == Preview(shape, pl, b)
         IN  /\ new \in GateType
             /\ new.shape = shape /\ new.plane = pl
             /\ new.status = "running" /\ ~new.deleted
             /\ new.outcome = "none" /\ ~new.pressed /\ new.from = 0
<1>1. Preview(shape, pl, b) \in GateType
  BY PreviewType, TypeParts DEF Inv
<1> QED BY <1>1 DEF Preview, NoGate

LEMMA BaselineRunEnded ==
  ASSUME Inv
  PROVE  /\ BaselineRun \in 0..MaxGates
         /\ BaselineRun # 0 => Ended(gates, BaselineRun)
BY TypeParts, BaselineAssumption DEF BaselineRun, Inv, IInv, ReadyInv, RowType

LEMMA StartBranchGateStep ==
  ASSUME Inv, NEW b \in Branches, NEW pl \in Planes, StartBranchGate(b, pl)
  PROVE  Inv'
<1> DEFINE new == Preview("branch", pl, b)
<1>1. pl \in {"managed", "actions"}
  BY BaselineAssumption
<1>2. /\ new \in GateType /\ new.shape = "branch" /\ new.status = "running" /\ ~new.deleted
      /\ GateInv(gates, new)
  BY <1>1, NewGate DEF GateInv
<1>3. Begin(new) /\ UNCHANGED <<policy, head, row, press>>
  BY DEF StartBranchGate
<1> HIDE DEF new
<1>4. GatesInv' /\ Grown(gates, gates')
  BY <1>2, <1>3, BeginStep
<1>5. ReadyInv(gates', policy', row') /\ BuildInv(gates', row') /\ row' \in RowType
  BY <1>2, <1>3, StartedRow
<1>6. \A p \in Presses : PressInv(gates', press'[p])
  BY <1>3, <1>4, PressKept
<1> QED BY <1>3, <1>4, <1>5, <1>6, Together, TypeParts DEF Inv

LEMMA StartChangeGateStep ==
  ASSUME Inv, NEW b \in Bases, NEW pl \in Planes, StartChangeGate(b, pl)
  PROVE  Inv'
<1> DEFINE old == Preview("change", pl, b)
           new == [old EXCEPT !.from = IF pl = "actions" THEN BaselineRun ELSE 0]
<1>1. pl \in {"managed", "actions"} /\ b \in Branches
  BY BaselineAssumption
<1>2. /\ old \in GateType /\ old.shape = "change" /\ old.status = "running" /\ ~old.deleted
      /\ old.outcome = "none" /\ ~old.pressed
  BY <1>1, NewGate
<1>3. Begin(new) /\ UNCHANGED <<policy, head, row, press>>
  BY DEF StartChangeGate
<1>4. new = [old EXCEPT !.from = IF pl = "actions" THEN BaselineRun ELSE 0]
  OBVIOUS
<1> HIDE DEF old, new
<1>5. new \in GateType
  BY <1>2, <1>4, BaselineRunEnded, BaselineAssumption DEF GateType
<1>6. /\ new.shape = "change" /\ new.status = "running" /\ ~new.deleted
      /\ new.outcome = "none" /\ ~new.pressed
      /\ new.from # 0 => new.from = BaselineRun
  BY <1>2, <1>4 DEF GateType
<1>7. GateInv(gates, new)
  BY <1>6, BaselineRunEnded DEF GateInv
<1>8. GatesInv' /\ Grown(gates, gates')
  BY <1>3, <1>5, <1>6, <1>7, BeginStep
<1>9. ReadyInv(gates', policy', row') /\ BuildInv(gates', row') /\ row' \in RowType
  BY <1>3, <1>5, <1>6, <1>7, StartedRow
<1>10. \A p \in Presses : PressInv(gates', press'[p])
  BY <1>3, <1>8, PressKept
<1> QED BY <1>3, <1>8, <1>9, <1>10, Together, TypeParts DEF Inv

LEMMA BuildManagedStep ==
  ASSUME Inv, NEW p \in Presses, BuildManaged(p)
  PROVE  Inv'
<1> DEFINE new == Preview("branch", "managed", press[p].branch)
<1>1. press \in [Presses -> PressType] /\ press[p].branch \in Branches
  BY TypeParts DEF Inv, PressType
<1>2. /\ new \in GateType /\ new.shape = "branch" /\ new.status = "running" /\ ~new.deleted
      /\ GateInv(gates, new)
  BY <1>1, NewGate DEF GateInv
<1>3. /\ Begin(new) /\ row' = MarkedBuilding /\ policy' = policy /\ head' = head
      /\ press' = [press EXCEPT ![p] = Idle]
  BY DEF BuildManaged, Answered
<1> HIDE DEF new
<1>4. GatesInv' /\ Grown(gates, gates')
  BY <1>2, <1>3, BeginStep
<1>5. ReadyInv(gates', policy', row') /\ BuildInv(gates', row') /\ row' \in RowType
  BY <1>2, <1>3, StartedRow
<1>6. \A q \in Presses : PressInv(gates', press'[q])
  <2>1. SUFFICES ASSUME NEW q \in Presses PROVE PressInv(gates', press'[q])
    OBVIOUS
  <2>2. q # p => press'[q] = press[q]
    BY <1>1, <1>3
  <2>3. PressInv(gates', Idle)
    BY DEF PressInv, Idle
  <2> QED BY <1>1, <1>3, <1>4, <2>2, <2>3, PressKept
<1>7. press' \in [Presses -> PressType]
  BY <1>1, <1>3, ConstantTypes
<1> QED BY <1>3, <1>4, <1>5, <1>6, <1>7, Together, TypeParts DEF Inv

LEMMA BuildOnActionsStep ==
  ASSUME Inv, NEW p \in Presses, BuildOnActions(p)
  PROVE  Inv'
<1> DEFINE b   == press[p].branch
           old == Preview("branch", "actions", b)
           new == [old EXCEPT !.pressed = TRUE, !.head = Commit(b), !.from = BaselineRun]
<1>1. /\ press \in [Presses -> PressType] /\ press[p] \in PressType /\ b \in Branches
      /\ head \in 1..MaxHead /\ started \in 0..MaxGates
  BY TypeParts DEF Inv, PressType
<1>2. /\ old \in GateType /\ old.shape = "branch" /\ old.plane = "actions"
      /\ old.status = "running" /\ ~old.deleted /\ old.outcome = "none"
  BY <1>1, NewGate
<1>3. /\ Begin(new) /\ policy' = policy /\ head' = head /\ row' = row
      /\ press' = [press EXCEPT ![p].at = "dispatching", ![p].gate = started + 1]
  BY DEF BuildOnActions
<1>4. new = [old EXCEPT !.pressed = TRUE, !.head = Commit(b), !.from = BaselineRun]
  OBVIOUS
<1>5. Commit(b) \in 0..MaxHead
  BY <1>1, BaselineAssumption DEF Commit
<1> HIDE DEF b, old, new
<1>6. new \in GateType
  BY <1>2, <1>4, <1>5, BaselineRunEnded DEF GateType
<1>7. /\ new.shape = "branch" /\ new.plane = "actions" /\ new.status = "running"
      /\ ~new.deleted /\ new.outcome = "none" /\ new.from = BaselineRun
  BY <1>2, <1>4 DEF GateType
<1>8. GateInv(gates, new)
  BY <1>7, BaselineRunEnded DEF GateInv
<1>9. /\ GatesInv' /\ Grown(gates, gates') /\ gates'[started + 1] = new
      /\ started + 1 \in 0..MaxGates /\ started + 1 # 0
  <2>1. started + 1 \in 0..MaxGates /\ started + 1 # 0
    BY <1>1, <1>3, BaselineAssumption DEF Begin
  <2> QED BY <1>3, <1>6, <1>7, <1>8, <2>1, BeginStep
<1>10. ReadyInv(gates', policy', row') /\ BuildInv(gates', row') /\ row' \in RowType
  BY <1>3, <1>6, <1>7, <1>8, StartedRow
<1>11. press'[p] = [press[p] EXCEPT !.at = "dispatching", !.gate = started + 1]
  BY <1>1, <1>3
<1>12. press' \in [Presses -> PressType]
  BY <1>1, <1>3, <1>9 DEF PressType
<1>13. \A q \in Presses : PressInv(gates', press'[q])
  <2>1. SUFFICES ASSUME NEW q \in Presses PROVE PressInv(gates', press'[q])
    OBVIOUS
  <2>2. q # p => press'[q] = press[q]
    BY <1>1, <1>3
  <2>3. press'[p].gate = started + 1
    BY <1>1, <1>11 DEF PressType
  <2>4. PressInv(gates', press'[p])
    BY <1>7, <1>9, <2>3 DEF PressInv
  <2> QED BY <1>9, <2>2, <2>4, PressKept
<1> QED BY <1>3, <1>9, <1>10, <1>12, <1>13, Together, TypeParts DEF Inv

\* The gates stay as they were.
LEMMA SameGates ==
  ASSUME Inv, gates' = gates, started' = started
  PROVE  GatesInv' /\ Grown(gates, gates')
<1>1. gates \in [Ids -> GateType] /\ started \in 0..MaxGates
  BY TypeParts DEF Inv
<1> QED BY <1>1 DEF GatesInv, Grown, Kept, Unstarted, Inv, IInv

LEMMA RowStep ==
  ASSUME Inv, gates' = gates, started' = started, policy' \in PolicyType, head' \in 1..MaxHead,
         press' \in [Presses -> PressType],
         \A p \in Presses : press'[p] = press[p] \/ press'[p].at # "dispatching",
         \/ row' = row /\ policy' = policy
         \/ /\ row' = MarkedBuilding /\ policy' = policy
            /\ \E g \in Ids : gates[g].shape = "branch" /\ gates[g].plane = "actions"
         \/ \E reason \in Reasons : row' = MarkedStale(row, reason)
         \/ row' = Derived(gates', policy')
         \/ \E reason \in Reasons : row' = MarkedStale(Derived(gates', policy'), reason)
  PROVE  Inv'
<1>1. GatesInv' /\ Grown(gates, gates')
  BY SameGates
<1>2. /\ row \in RowType /\ ReadyInv(gates, policy, row) /\ BuildInv(gates, row)
      /\ gates' \in [Ids -> GateType]
  BY TypeParts DEF Inv, IInv
<1>3. ReadyInv(gates', policy', row') /\ BuildInv(gates', row') /\ row' \in RowType
  <2>1. CASE row' = row /\ policy' = policy
    BY <1>2, <2>1
  <2>2. CASE /\ row' = MarkedBuilding /\ policy' = policy
             /\ \E g \in Ids : gates[g].shape = "branch" /\ gates[g].plane = "actions"
    BY <1>2, <2>2, MarkedTypes, MarkedBuildingInv
  <2>3. CASE \E reason \in Reasons : row' = MarkedStale(row, reason)
    <3>1. PICK reason \in Reasons : row' = MarkedStale(row, reason)
      BY <2>3
    <3>2. row' \in RowType /\ BuildInv(gates, row') /\ row'.word # "ready"
      BY <1>2, <3>1, MarkedTypes DEF MarkedStale, BuildInv, RowType, Words
    <3> QED BY <3>2 DEF ReadyInv
  <2>4. CASE \/ row' = Derived(gates', policy')
             \/ \E reason \in Reasons : row' = MarkedStale(Derived(gates', policy'), reason)
    BY <1>2, <2>4, SettledRow
  <2> QED BY <2>1, <2>2, <2>3, <2>4
<1>4. \A p \in Presses : PressInv(gates', press'[p])
  BY <1>1, PressKept DEF PressInv
<1> QED BY <1>1, <1>3, <1>4, Together

LEMMA AnsweredTypes ==
  ASSUME Inv, NEW p \in Presses, Answered(p)
  PROVE  /\ press' \in [Presses -> PressType]
         /\ \A q \in Presses : press'[q] = press[q] \/ press'[q].at # "dispatching"
<1>1. press \in [Presses -> PressType]
  BY TypeParts DEF Inv
<1> QED BY <1>1, ConstantTypes DEF Answered, Idle

LEMMA PressBuildStep ==
  ASSUME Inv, NEW p \in Presses, NEW pl \in Planes, PressBuild(p, pl)
  PROVE  Inv'
<1>1. /\ press \in [Presses -> PressType] /\ policy \in PolicyType /\ head \in 1..MaxHead
      /\ pl \in {"managed", "actions"}
  BY TypeParts, BaselineAssumption DEF Inv
<1>2. ProtectedBranch(policy) \in Branches
  BY <1>1, ProtectedType
<1> DEFINE one == [Idle EXCEPT !.at = "preflight", !.plane = pl, !.branch = ProtectedBranch(policy)]
<1>3. one \in PressType /\ one.at = "preflight"
  BY <1>1, <1>2, ConstantTypes DEF PressType, Idle
<1>4. press' = [press EXCEPT ![p] = one] /\ UNCHANGED <<gates, started, policy, head, row>>
  BY DEF PressBuild
<1> HIDE DEF one
<1>5. /\ press' \in [Presses -> PressType]
      /\ \A q \in Presses : press'[q] = press[q] \/ press'[q].at # "dispatching"
  BY <1>1, <1>3, <1>4
<1> QED BY <1>1, <1>4, <1>5, RowStep

LEMMA AnswerStep ==
  ASSUME Inv, NEW p \in Presses, PreviewRefused(p) \/ BuildReused(p) \/ Dispatched(p)
  PROVE  Inv'
<1>1. /\ press' \in [Presses -> PressType]
      /\ \A q \in Presses : press'[q] = press[q] \/ press'[q].at # "dispatching"
  BY AnsweredTypes DEF PreviewRefused, BuildReused, Dispatched
<1>2. /\ policy \in PolicyType /\ head \in 1..MaxHead
      /\ press \in [Presses -> PressType] /\ gates \in [Ids -> GateType]
  BY TypeParts DEF Inv
<1>3. UNCHANGED <<gates, started, policy, head>>
  BY DEF PreviewRefused, BuildReused, Dispatched
<1>4. \/ row' = row
      \/ /\ row' = MarkedBuilding
         /\ \E g \in Ids : gates[g].shape = "branch" /\ gates[g].plane = "actions"
  <2>1. CASE PreviewRefused(p)
    BY <2>1 DEF PreviewRefused
  <2>2. CASE BuildReused(p)
    <3>1. PICK g \in SameKey(press[p].branch) : TRUE
      BY <2>2 DEF BuildReused
    <3>2. g \in Ids /\ gates[g].pressed
      BY <3>1 DEF SameKey, Listed
    <3>3. gates[g].shape = "branch" /\ gates[g].plane = "actions"
      BY <3>2 DEF Inv, IInv, GateInv
    <3> QED BY <2>2, <3>2, <3>3 DEF BuildReused
  <2>3. CASE Dispatched(p)
    <3>1. press[p] \in PressType /\ press[p].at = "dispatching" /\ PressInv(gates, press[p])
      BY <1>2, <2>3 DEF Dispatched, Inv, IInv
    <3>2. press[p].gate \in Ids
      BY <3>1, BaselineAssumption DEF PressInv, PressType, Ids
    <3> QED BY <2>3, <3>1, <3>2 DEF Dispatched, PressInv
  <2> QED BY <2>1, <2>2, <2>3
<1> QED BY <1>1, <1>2, <1>3, <1>4, RowStep

LEMMA PolicyStep ==
  ASSUME Inv,
         \/ \E branches \in Protections, scan \in Scans : PutPolicy(branches, scan)
         \/ \E scan \in Scans : EditScanner(scan)
         \/ PushCommit
  PROVE  Inv'
<1>1. /\ policy \in PolicyType /\ head \in 1..MaxHead /\ press \in [Presses -> PressType]
  BY TypeParts DEF Inv
<1>2. "scan_lineage" \in Reasons
  BY DEF Reasons
<1>3. ASSUME NEW branches \in Protections, NEW scan \in Scans, PutPolicy(branches, scan)
      PROVE  Inv'
  <2>1. /\ policy' = [branches |-> branches, scan |-> scan]
        /\ UNCHANGED <<gates, started, head, press>>
        /\ \/ row' = Derived(gates', policy')
           \/ row' = MarkedStale(Derived(gates', policy'), "scan_lineage")
    BY <1>3 DEF PutPolicy
  <2>2. policy' \in PolicyType
    BY <2>1 DEF PolicyType
  <2> QED BY <1>1, <1>2, <2>1, <2>2, RowStep
<1>4. ASSUME NEW scan \in Scans, EditScanner(scan)
      PROVE  Inv'
  <2>1. /\ policy' = [policy EXCEPT !.scan = scan]
        /\ UNCHANGED <<gates, started, head, press>>
        /\ row' = MarkedStale(row, "scan_lineage")
    BY <1>4 DEF EditScanner
  <2>2. policy' \in PolicyType
    BY <1>1, <2>1 DEF PolicyType
  <2> QED BY <1>1, <1>2, <2>1, <2>2, RowStep
<1>5. CASE PushCommit
  <2>1. head' \in 1..MaxHead /\ UNCHANGED <<gates, started, policy, row, press>>
    BY <1>1, <1>5, BaselineAssumption DEF PushCommit
  <2> QED BY <1>1, <2>1, RowStep
<1> QED BY <1>3, <1>4, <1>5

\* A gate on Actions moves on without a result.
LEMMA QuietEnd ==
  ASSUME Inv, NEW g \in Ids, NEW gate \in GateType,
         gates[g].shape # "none", gates[g].plane = "actions",
         gates[g].status \in {"running", "cancelling"},
         gates' = [gates EXCEPT ![g] = gate], SameStart(gates[g], gate),
         gate.status # "completed", gate.outcome = "blocked" => Proved(gates, gate),
         UNCHANGED <<started, policy, head, row>>, press' \in [Presses -> PressType],
         \A p \in Presses : press'[p] = press[p] \/ press'[p].at # "dispatching"
  PROVE  Inv'
<1>1. GatesInv' /\ Grown(gates, gates')
  BY GateStep
<1>2. ReadyInv(gates', policy', row') /\ BuildInv(gates', row')
  BY QuietStep
<1>3. \A p \in Presses : PressInv(gates', press'[p])
  BY <1>1, PressKept DEF PressInv
<1> QED BY <1>1, <1>2, <1>3, Together, TypeParts DEF Inv

\* A gate ends and settles the row.
LEMMA SettledEnd ==
  ASSUME Inv, NEW g \in Ids, NEW gate \in GateType,
         gates[g].shape # "none", gates[g].status \in {"running", "cancelling"},
         gates' = [gates EXCEPT ![g] = gate], SameStart(gates[g], gate),
         gate.outcome = "blocked" => Proved(gates, gate),
         UNCHANGED <<started, policy, head, press>>,
         \/ row' = Derived(gates', policy')
         \/ \E reason \in Reasons : row' = MarkedStale(Derived(gates', policy'), reason)
  PROVE  Inv'
<1>1. GatesInv' /\ Grown(gates, gates')
  BY GateStep
<1>2. policy' \in PolicyType
  BY TypeParts DEF Inv
<1>3. ReadyInv(gates', policy', row') /\ BuildInv(gates', row') /\ row' \in RowType
  BY <1>1, <1>2, SettledRow DEF GatesInv
<1>4. \A p \in Presses : PressInv(gates', press'[p])
  BY <1>1, PressKept
<1> QED BY <1>1, <1>2, <1>3, <1>4, Together, TypeParts DEF Inv

LEMMA DispatchRejectedStep ==
  ASSUME Inv, NEW p \in Presses, DispatchRejected(p)
  PROVE  Inv'
<1> DEFINE g == press[p].gate
<1>1. /\ press' \in [Presses -> PressType]
      /\ \A q \in Presses : press'[q] = press[q] \/ press'[q].at # "dispatching"
  BY AnsweredTypes DEF DispatchRejected
<1>2. /\ gates \in [Ids -> GateType] /\ policy \in PolicyType /\ head \in 1..MaxHead
      /\ press \in [Presses -> PressType]
  BY TypeParts DEF Inv
<1>3. /\ press[p] \in PressType /\ PressInv(gates, press[p]) /\ press[p].at = "dispatching"
  BY <1>2 DEF DispatchRejected, Inv, IInv
<1>4. /\ g \in Ids /\ gates[g] \in GateType
      /\ gates[g].shape = "branch" /\ gates[g].plane = "actions"
  BY <1>2, <1>3, BaselineAssumption DEF PressInv, PressType, Ids
<1>5. /\ gates' = [gates EXCEPT ![g] = ActionsFailed(gates[g])]
      /\ UNCHANGED <<started, policy, head, row>>
  BY DEF DispatchRejected
<1> HIDE DEF g
<1>6. CASE gates[g].status = "running"
  <2> DEFINE gate == [gates[g] EXCEPT !.status = "error", !.outcome = "error"]
  <2>1. gate \in GateType /\ SameStart(gates[g], gate) /\ gate.status = "error"
        /\ gate.outcome = "error"
    BY <1>4 DEF GateType, SameStart, Terminal, Outcomes
  <2>2. gates' = [gates EXCEPT ![g] = gate]
    BY <1>5, <1>6 DEF ActionsFailed
  <2> HIDE DEF gate
  <2> QED BY <1>1, <1>4, <1>5, <1>6, <2>1, <2>2, QuietEnd
<1>7. CASE gates[g].status # "running"
  <2>1. gates' = gates
    BY <1>2, <1>5, <1>7 DEF ActionsFailed
  <2> QED BY <1>1, <1>2, <1>5, <2>1, RowStep
<1> QED BY <1>6, <1>7

LEMMA RunStep ==
  ASSUME Inv, NEW g \in Ids, RunFails(g) \/ CancelRequested(g) \/ CancelConfirmed(g)
  PROVE  Inv'
<1>1. /\ gates[g] \in GateType /\ press \in [Presses -> PressType]
  BY TypeParts DEF Inv
<1>2. /\ gates[g].shape # "none" /\ gates[g].plane = "actions"
      /\ gates[g].status \in {"running", "cancelling"}
      /\ UNCHANGED <<started, policy, head, row, press>>
  BY DEF RunFails, CancelRequested, CancelConfirmed, Live
<1>3. PICK status \in {"error", "cancelling", "cancelled"},
           outcome \in {"error", gates[g].outcome} :
        gates' = [gates EXCEPT ![g] = [gates[g] EXCEPT !.status = status, !.outcome = outcome]]
  <2>1. CASE RunFails(g)
    <3>1. gates' = [gates EXCEPT ![g] =
                      [gates[g] EXCEPT !.status = "error", !.outcome = "error"]]
      BY <2>1 DEF RunFails, ActionsFailed
    <3> QED BY <3>1
  <2>2. CASE CancelRequested(g)
    <3>1. [gates[g] EXCEPT !.status = "cancelling"]
            = [gates[g] EXCEPT !.status = "cancelling", !.outcome = gates[g].outcome]
      BY <1>1 DEF GateType
    <3> QED BY <2>2, <3>1 DEF CancelRequested
  <2>3. CASE CancelConfirmed(g)
    <3>1. [gates[g] EXCEPT !.status = "cancelled"]
            = [gates[g] EXCEPT !.status = "cancelled", !.outcome = gates[g].outcome]
      BY <1>1 DEF GateType
    <3> QED BY <2>3, <3>1 DEF CancelConfirmed
  <2> QED BY <2>1, <2>2, <2>3
<1> DEFINE gate == [gates[g] EXCEPT !.status = status, !.outcome = outcome]
<1>4. /\ gate \in GateType /\ SameStart(gates[g], gate)
      /\ gate.status = status /\ gate.outcome = outcome
      /\ gate.compared = gates[g].compared /\ gate.findings = gates[g].findings
  BY <1>1 DEF GateType, SameStart, Terminal, Outcomes
<1>5. gates' = [gates EXCEPT ![g] = gate]
  BY <1>3
<1>6. gate.outcome = "blocked" => Proved(gates, gate)
  <2>1. GateInv(gates, gates[g])
    BY DEF Inv, IInv
  <2> HIDE DEF gate
  <2> QED BY <1>4, <2>1 DEF GateInv, Proved, Recognized, SameStart
<1> HIDE DEF gate
<1> QED BY <1>1, <1>2, <1>4, <1>5, <1>6, QuietEnd

LEMMA CompletedGate ==
  ASSUME NEW gate \in GateType, NEW o \in Outcomes, o # "blocked", NEW found \in SUBSET Findings
  PROVE  /\ Completed(gate, o) \in GateType
         /\ SameStart(gate, Completed(gate, o))
         /\ Completed(gate, o).outcome # "blocked"
         /\ [Completed(gate, o) EXCEPT !.findings = found] \in GateType
         /\ SameStart(gate, [Completed(gate, o) EXCEPT !.findings = found])
         /\ [Completed(gate, o) EXCEPT !.findings = found].outcome # "blocked"
BY DEF Completed, GateType, SameStart, Terminal

\* A managed gate fails or is cancelled, a gate errs, or a build completes.
LEMMA UnjudgedStep ==
  ASSUME Inv, NEW g \in Ids,
         \/ ManagedFails(g) \/ ManagedErrs(g) \/ RunErrs(g)
         \/ \E found \in SUBSET Findings : BuildCompletes(g, found)
  PROVE  Inv'
<1>1. gates[g] \in GateType
  BY TypeParts DEF Inv
<1>2. gates[g].shape # "none" /\ gates[g].status = "running"
  BY DEF ManagedFails, ManagedErrs, RunErrs, BuildCompletes, Live
<1>3. PICK gate \in GateType :
         /\ Settle(g, gate) /\ SameStart(gates[g], gate) /\ gate.outcome # "blocked"
  <2>1. CASE ManagedFails(g)
    <3>1. PICK status \in {"error", "cancelled"} :
             Settle(g, [gates[g] EXCEPT !.status = status,
                          !.outcome = IF status = "error" THEN "error" ELSE "none"])
      BY <2>1 DEF ManagedFails
    <3>2. PICK o \in {"error", "none"} :
             Settle(g, [gates[g] EXCEPT !.status = status, !.outcome = o])
      BY <3>1
    <3> DEFINE gate == [gates[g] EXCEPT !.status = status, !.outcome = o]
    <3>3. gate \in GateType /\ SameStart(gates[g], gate) /\ gate.outcome # "blocked"
      BY <1>1 DEF GateType, SameStart, Terminal, Outcomes
    <3>4. Settle(g, gate)
      BY <3>2
    <3> HIDE DEF gate
    <3> QED BY <3>3, <3>4
  <2>2. CASE ManagedErrs(g) \/ RunErrs(g)
    <3>1. Settle(g, Completed(gates[g], "error"))
      BY <2>2 DEF ManagedErrs, RunErrs
    <3> QED BY <1>1, <3>1, CompletedGate DEF Outcomes
  <2>3. CASE \E found \in SUBSET Findings : BuildCompletes(g, found)
    <3>1. PICK found \in SUBSET Findings :
             Settle(g, [Completed(gates[g], "bootstrap") EXCEPT !.findings = found])
      BY <2>3 DEF BuildCompletes
    <3> QED BY <1>1, <3>1, CompletedGate DEF Outcomes
  <2> QED BY <2>1, <2>2, <2>3
<1>4. /\ gates' = [gates EXCEPT ![g] = gate] /\ row' = Derived(gates', policy')
      /\ UNCHANGED <<started, policy, head, press>>
  BY <1>3 DEF Settle, Refresh
<1> QED BY <1>2, <1>3, <1>4, SettledEnd

LEMMA JudgedGate ==
  ASSUME Inv, NEW g \in Ids, NEW changed, NEW found \in SUBSET Findings,
         NEW base \in 0..MaxGates,
         base # 0 => /\ Ended(gates, base)
                     /\ SelectGateBaseline(Context(gates[g]), Artifact(gates[base]))
  PROVE  LET end == Evaluation(gates[g], changed, found, base)
         IN  /\ end \in GateType /\ SameStart(gates[g], end)
             /\ end.outcome = "blocked" => Proved(gates, end)
<1>1. gates[g] \in GateType
  BY TypeParts DEF Inv
<1> QED BY <1>1, EvaluationType, EvaluationKeeps, EvaluationProved

LEMMA ChangeJudgedStep ==
  ASSUME Inv, NEW g \in Ids, NEW changed \in BOOLEAN, NEW found \in SUBSET Findings,
         ChangeJudged(g, changed, found)
  PROVE  Inv'
<1> DEFINE base == IF changed THEN ManagedBaseline(gates[g]) ELSE 0
           end  == Evaluation(gates[g], changed, found, base)
<1>1. /\ gates[g].shape # "none" /\ gates[g].status = "running"
      /\ Settle(g, end)
  BY DEF ChangeJudged, Live
<1>2. /\ base \in 0..MaxGates
      /\ base # 0 => /\ Ended(gates, base)
                     /\ SelectGateBaseline(Context(gates[g]), Artifact(gates[base]))
  BY ManagedBaselineType, ManagedBaselineEnded, BaselineAssumption
<1> HIDE DEF base
<1>3. /\ end \in GateType /\ SameStart(gates[g], end)
      /\ end.outcome = "blocked" => Proved(gates, end)
  BY <1>2, JudgedGate
<1>4. /\ gates' = [gates EXCEPT ![g] = end] /\ row' = Derived(gates', policy')
      /\ UNCHANGED <<started, policy, head, press>>
  BY <1>1 DEF Settle, Refresh
<1> HIDE DEF end
<1> QED BY <1>1, <1>3, <1>4, SettledEnd

LEMMA ImportChangeStep ==
  ASSUME Inv, NEW g \in Ids, NEW changed \in BOOLEAN, NEW expired \in BOOLEAN,
         NEW found \in SUBSET Findings, ImportChange(g, changed, found, expired)
  PROVE  Inv'
<1> DEFINE base == IF changed THEN ActionsBaseline(gates[g], expired) ELSE 0
           end  == Evaluation(gates[g], changed, found, base)
           gate == [end EXCEPT !.status = "error", !.outcome = "error"]
<1>1. /\ gates[g].shape # "none" /\ gates[g].plane = "actions"
      /\ gates[g].status = "running"
      /\ UNCHANGED <<started, policy, head, press>>
  BY DEF ImportChange, Live
<1>2. /\ gates[g] \in GateType /\ GateInv(gates, gates[g])
      /\ press \in [Presses -> PressType]
  BY TypeParts DEF Inv, IInv
<1>3. /\ base \in 0..MaxGates
      /\ base # 0 => /\ Ended(gates, base)
                     /\ SelectGateBaseline(Context(gates[g]), Artifact(gates[base]))
  BY <1>2, ActionsBaselineType, ActionsBaselineEnded, BaselineAssumption
<1>4. \/ gates' = [gates EXCEPT ![g] = gate] /\ row' = row
      \/ /\ gates' = [gates EXCEPT ![g] = end]
         /\ \/ row' = Derived(gates', policy')
            \/ row' = MarkedStale(Derived(gates', policy'), "baseline_artifact_expired")
  BY DEF ImportChange
<1> HIDE DEF base
<1>5. /\ end \in GateType /\ SameStart(gates[g], end)
      /\ end.outcome = "blocked" => Proved(gates, end)
  BY <1>3, JudgedGate
<1> HIDE DEF end
<1>6. /\ gate \in GateType /\ SameStart(gates[g], gate)
      /\ gate.status = "error" /\ gate.outcome = "error"
  BY <1>5 DEF GateType, SameStart, Terminal, Outcomes
<1> HIDE DEF gate
<1>7. CASE gates' = [gates EXCEPT ![g] = gate] /\ row' = row
  BY <1>1, <1>2, <1>6, <1>7, QuietEnd
<1>8. CASE /\ gates' = [gates EXCEPT ![g] = end]
           /\ \/ row' = Derived(gates', policy')
              \/ row' = MarkedStale(Derived(gates', policy'), "baseline_artifact_expired")
  BY <1>1, <1>5, <1>8, SettledEnd DEF Reasons
<1> QED BY <1>4, <1>7, <1>8

LEMMA DeleteGateStep ==
  ASSUME Inv, NEW g \in Ids, DeleteGate(g)
  PROVE  Inv'
<1>1. gates[g] \in GateType /\ GateInv(gates, gates[g])
  BY TypeParts DEF Inv, IInv
<1> DEFINE gate == [gates[g] EXCEPT !.deleted = TRUE]
<1>2. /\ gates' = [gates EXCEPT ![g] = gate]
      /\ UNCHANGED <<started, policy, head, row, press>>
      /\ gates[g].shape # "none" /\ gates[g].status \notin {"running", "cancelling"}
  BY DEF DeleteGate, Listed, Terminal
<1>3. gate \in GateType
  BY <1>1 DEF GateType
<1>4. gate.outcome = "blocked" => Proved(gates, gate)
  BY <1>1 DEF GateInv, Proved, Recognized, GateType
<1>5. GatesInv' /\ Grown(gates, gates')
  BY <1>2, <1>3, <1>4, GateStep
<1>6. \A p \in Presses : PressInv(gates', press'[p])
  BY <1>2, <1>5, PressKept
<1> QED BY <1>2, <1>5, <1>6, DeleteStep, Together, TypeParts DEF Inv

LEMMA NextInv ==
  ASSUME Inv, [Next]_vars
  PROVE  Inv'
<1>1. CASE Building
  <2>1. PICK p \in Presses :
           \/ \E pl \in Planes : PressBuild(p, pl)
           \/ PreviewRefused(p) \/ BuildManaged(p) \/ BuildOnActions(p) \/ BuildReused(p)
           \/ Dispatched(p) \/ DispatchRejected(p)
    BY <1>1 DEF Building
  <2> QED BY <2>1, PressBuildStep, AnswerStep, BuildManagedStep, BuildOnActionsStep,
             DispatchRejectedStep
<1>2. CASE Ending
  <2>1. PICK g \in Ids :
           \/ ManagedFails(g) \/ ManagedErrs(g)
           \/ RunFails(g) \/ CancelRequested(g) \/ CancelConfirmed(g) \/ RunErrs(g)
           \/ \E found \in SUBSET Findings :
                \/ BuildCompletes(g, found)
                \/ \E changed \in BOOLEAN :
                     \/ ChangeJudged(g, changed, found)
                     \/ \E expired \in BOOLEAN : ImportChange(g, changed, found, expired)
    BY <1>2 DEF Ending
  <2>2. CASE ManagedFails(g) \/ ManagedErrs(g) \/ RunErrs(g)
    BY <2>2, UnjudgedStep
  <2>3. CASE RunFails(g) \/ CancelRequested(g) \/ CancelConfirmed(g)
    BY <2>3, RunStep
  <2>4. ASSUME NEW found \in SUBSET Findings, BuildCompletes(g, found) PROVE Inv'
    BY <2>4, UnjudgedStep
  <2>5. ASSUME NEW found \in SUBSET Findings, NEW changed \in BOOLEAN,
               ChangeJudged(g, changed, found)
        PROVE  Inv'
    BY <2>5, ChangeJudgedStep
  <2>6. ASSUME NEW found \in SUBSET Findings, NEW changed \in BOOLEAN,
               NEW expired \in BOOLEAN, ImportChange(g, changed, found, expired)
        PROVE  Inv'
    BY <2>6, ImportChangeStep
  <2> QED BY <2>1, <2>2, <2>3, <2>4, <2>5, <2>6
<1>3. ASSUME NEW b \in Branches, NEW pl \in Planes, StartBranchGate(b, pl) PROVE Inv'
  BY <1>3, StartBranchGateStep
<1>4. ASSUME NEW b \in Bases, NEW pl \in Planes, StartChangeGate(b, pl) PROVE Inv'
  BY <1>4, StartChangeGateStep
<1>5. CASE \/ \E branches \in Protections, scan \in Scans : PutPolicy(branches, scan)
           \/ \E scan \in Scans : EditScanner(scan)
           \/ PushCommit
  BY <1>5, PolicyStep
<1>6. ASSUME NEW g \in Ids, DeleteGate(g) PROVE Inv'
  BY <1>6, DeleteGateStep
<1>7. CASE UNCHANGED vars
  BY <1>7 DEF vars, Inv, TypeOK, IInv, Unstarted
<1> QED BY <1>1, <1>2, <1>3, <1>4, <1>5, <1>6, <1>7 DEF Next

\* What a step may do to the row.
LEMMA RowChange ==
  ASSUME [Next]_vars
  PROVE  \/ row' = row
         \/ row' = MarkedBuilding
         \/ row' = Derived(gates', policy')
         \/ \E reason \in Reasons : row' = MarkedStale(row, reason)
         \/ \E reason \in Reasons : row' = MarkedStale(Derived(gates', policy'), reason)
<1> DEFINE Changed == \/ row' = row
                      \/ row' = MarkedBuilding
                      \/ row' = Derived(gates', policy')
                      \/ \E reason \in Reasons : row' = MarkedStale(row, reason)
                      \/ \E reason \in Reasons :
                           row' = MarkedStale(Derived(gates', policy'), reason)
<1>1. "scan_lineage" \in Reasons /\ "baseline_artifact_expired" \in Reasons
  BY DEF Reasons
<1>2. CASE Building
  <2>1. PICK p \in Presses :
           \/ \E pl \in Planes : PressBuild(p, pl)
           \/ PreviewRefused(p) \/ BuildManaged(p) \/ BuildOnActions(p) \/ BuildReused(p)
           \/ Dispatched(p) \/ DispatchRejected(p)
    BY <1>2 DEF Building
  <2> QED BY <2>1 DEF PressBuild, PreviewRefused, BuildManaged, BuildOnActions, BuildReused,
                      Dispatched, DispatchRejected
<1>3. ASSUME NEW g, NEW gate, Settle(g, gate) PROVE Changed
  BY <1>3 DEF Settle, Refresh
<1>4. CASE Ending
  <2>1. PICK g \in Ids :
           \/ ManagedFails(g) \/ ManagedErrs(g)
           \/ RunFails(g) \/ CancelRequested(g) \/ CancelConfirmed(g) \/ RunErrs(g)
           \/ \E found \in SUBSET Findings :
                \/ BuildCompletes(g, found)
                \/ \E changed \in BOOLEAN :
                     \/ ChangeJudged(g, changed, found)
                     \/ \E expired \in BOOLEAN : ImportChange(g, changed, found, expired)
    BY <1>4 DEF Ending
  <2>2. CASE ManagedFails(g) \/ ManagedErrs(g) \/ RunErrs(g)
    BY <1>3, <2>2 DEF ManagedFails, ManagedErrs, RunErrs
  <2>3. CASE RunFails(g) \/ CancelRequested(g) \/ CancelConfirmed(g)
    BY <2>3 DEF RunFails, CancelRequested, CancelConfirmed
  <2>4. ASSUME NEW found, BuildCompletes(g, found) PROVE Changed
    BY <1>3, <2>4 DEF BuildCompletes
  <2>5. ASSUME NEW found, NEW changed, ChangeJudged(g, changed, found) PROVE Changed
    BY <1>3, <2>5 DEF ChangeJudged
  <2>6. ASSUME NEW found, NEW changed, NEW expired, ImportChange(g, changed, found, expired)
        PROVE  Changed
    BY <1>1, <2>6 DEF ImportChange
  <2> QED BY <2>1, <2>2, <2>3, <2>4, <2>5, <2>6
<1>5. ASSUME NEW branches, NEW scan, PutPolicy(branches, scan) PROVE Changed
  <2>1. policy' = [branches |-> branches, scan |-> scan] /\ gates' = gates
    BY <1>5 DEF PutPolicy
  <2> QED BY <1>1, <1>5, <2>1 DEF PutPolicy
<1>6. ASSUME NEW scan, EditScanner(scan) PROVE Changed
  BY <1>1, <1>6 DEF EditScanner
<1>7. CASE \/ PushCommit \/ UNCHANGED vars
           \/ \E b \in Branches, pl \in Planes : StartBranchGate(b, pl)
           \/ \E b \in Bases, pl \in Planes : StartChangeGate(b, pl)
           \/ \E g \in Ids : DeleteGate(g)
  BY <1>7 DEF PushCommit, vars, StartBranchGate, StartChangeGate, DeleteGate
<1> QED BY <1>2, <1>4, <1>5, <1>6, <1>7 DEF Next

-----------------------------------------------------------------------------
(* THE THEOREMS *)

\* Every behaviour of the gates and of the row keeps the types and the invariant.
THEOREM TypeCorrect == Spec => []Inv
BY InitInv, NextInv, PTL DEF Spec

\* Whatever the order in which gates start and end on the two executors, policies
\* change and gates are deleted, a row that says ready names the newest gate of the
\* branch the policy protects.
THEOREM ReadyNamesTheNewest == Spec => []ReadyIsNewest
<1>1. Inv => ReadyIsNewest
  BY DEF Inv, IInv, ReadyInv, ReadyIsNewest
<1> QED BY <1>1, TypeCorrect, PTL

\* Building is taken back by every end of a managed build.
THEOREM ManagedBuildIsTakenBack == Spec => []ManagedBuildHasARun
<1>1. Inv => ManagedBuildHasARun
  BY DEF Inv, IInv, BuildInv, ManagedBuildHasARun
<1> QED BY <1>1, TypeCorrect, PTL

\* The row of the baseline is true of the gates.
THEOREM RowStaysTrue == Spec => []RowIsTrue
<1>1. ReadyIsNewest /\ ManagedBuildHasARun => RowIsTrue
  BY DEF RowIsTrue
<1> QED BY <1>1, ReadyNamesTheNewest, ManagedBuildIsTakenBack, PTL

\* A change is blocked only by the proof of a comparable baseline, under rules that
\* block nothing the baseline has too.
THEOREM BlockedNeedsProof ==
  ASSUME BlocksOnlyNew
  PROVE  Spec => []BlockedOnProof
<1>1. Inv => BlockedOnProof
  <2> SUFFICES ASSUME Inv, NEW g \in Ids, gates[g].outcome = "blocked"
               PROVE  Proved(gates, gates[g])
    BY DEF BlockedOnProof, Proved, Ended
  <2> QED BY DEF Inv, IInv, GateInv
<1> QED BY <1>1, TypeCorrect, PTL

\* No step turns a row from stale to ready of the same gate.
THEOREM StaleIsKept == Spec => StaleIsSticky
<1> DEFINE Sticky == row.word = "stale" /\ row'.word = "ready" => row'.gate # row.gate
<1>1. ASSUME Inv, [Next]_vars PROVE Sticky
  <2>1. row \in RowType /\ Inv'
    BY <1>1, NextInv, TypeParts DEF Inv
  <2>2. gates' \in [Ids -> GateType]
    BY <2>1 DEF Inv, TypeOK, GateType
  <2>3. CASE row' = row
    BY <2>3
  <2>4. CASE row' = MarkedBuilding
    BY <2>1, <2>4 DEF MarkedBuilding, RowType
  <2>5. CASE row' = Derived(gates', policy')
    BY <2>5 DEF Derived, Absent
  <2>6. CASE \E reason \in Reasons : row' = MarkedStale(row, reason)
    BY <2>1, <2>6 DEF MarkedStale, RowType
  <2>7. CASE \E reason \in Reasons : row' = MarkedStale(Derived(gates', policy'), reason)
    <3>1. Derived(gates', policy') \in RowType
      BY <2>1, <2>2, DerivedType
    <3> QED BY <2>7, <3>1 DEF MarkedStale, RowType
  <2> QED BY <1>1, <2>3, <2>4, <2>5, <2>6, <2>7, RowChange
<1> QED BY <1>1, TypeCorrect, PTL DEF Spec, StaleIsSticky
=============================================================================
