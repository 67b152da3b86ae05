------------------------- MODULE ActionsGateProofs -------------------------
(***************************************************************************)
(* For any gates and any bounds: a key is dispatched once, a verdict is of *)
(* the attempt its gate correlated, a cancellation is never overwritten    *)
(* and an end is final.  Proofs about ActionsGate.                         *)
(***************************************************************************)
EXTENDS ActionsGate, TLAPS

Polled == {"getting", "cancelling", "artifacts", "downloading"}

\* What ties the rows of a gate, the pass that polls it and GitHub's run: a
\* pass that waits on a run has a run and an open gate, and a verdict leaves
\* nothing for a pass to write but the publication.
GateInv(g) ==
    /\ dispatch[g].state = "none" <=> gate[g].status = "none"
    /\ dispatch[g].state = "none" =>
         remote[g].posts = 0 /\ remote[g].request = "none" /\ poll[g].at = "idle"
    /\ remote[g].posts <= 1
    /\ remote[g].run # "none" => remote[g].request = "taken"
    /\ dispatch[g].attempt # 0 => remote[g].run # "none"
    /\ poll[g].at \in Polled => remote[g].run # "none" /\ ~Terminal(g)
    /\ poll[g].at = "listing" => ~Terminal(g) \/ remote[g].request = "refused"
    /\ poll[g].at = "counting" => remote[g].run # "none" /\ gate[g].status = "completed"
    /\ gate[g].status = "error" => gate[g].outcome = "error"
    /\ gate[g].outcome = "verdict" =>
         /\ gate[g].status = "completed" /\ artifact[g] = "validated"
         /\ gate[g].of = dispatch[g].attempt
         /\ remote[g].run # "none"
         /\ poll[g].at \in {"idle", "counting"}
    /\ poll[g].at = "artifacts" => artifact[g] \in {"none", "pending"}
    /\ poll[g].at = "downloading" => artifact[g] = "pending"
    /\ artifact[g] \in {"validated", "rejected"} => Terminal(g) \/ gate[g].status = "cancelling"

IInv == \A g \in Gates : GateInv(g)

Inv == TypeOK /\ IInv


-----------------------------------------------------------------------------
LEMMA InitTypeOK == Init => TypeOK
<1> USE GatesAssumption
<1>1. NoGate \in GateRow
  BY DEF NoGate, GateRow
<1>2. NoDispatch \in DispatchRow
  BY DEF NoDispatch, DispatchRow, States
<1>3. Idle \in Pass
  BY DEF Idle, Pass
<1>4. NoRemote \in RemoteRun
  BY DEF NoRemote, RemoteRun
<1> QED
  BY <1>1, <1>2, <1>3, <1>4 DEF Init, TypeOK

LEMMA FailTypes ==
    ASSUME TypeOK, NEW g \in Gates, Fail(g)
    PROVE  gate' \in [Gates -> GateRow] /\ dispatch' \in [Gates -> DispatchRow]
<1>1. gate' \in [Gates -> GateRow]
  BY DEF Fail, TypeOK, GateRow, TerminalStatus
<1>2. dispatch' \in [Gates -> DispatchRow]
  BY SMTT(30) DEF Fail, TypeOK, DispatchRow, States, TerminalState
<1> QED BY <1>1, <1>2

LEMMA EndedPassTypes ==
    ASSUME TypeOK, NEW g \in Gates, PollEnds(g)
    PROVE  poll' \in [Gates -> Pass]
<1>1. Idle \in Pass
  BY GatesAssumption DEF Idle, Pass
<1> QED BY <1>1 DEF PollEnds, TypeOK

LEMMA CaughtTypes ==
    ASSUME TypeOK, NEW g \in Gates, Caught(g)
    PROVE  /\ gate' \in [Gates -> GateRow]
           /\ dispatch' \in [Gates -> DispatchRow]
           /\ poll' \in [Gates -> Pass]
<1>1. poll' \in [Gates -> Pass]
  BY EndedPassTypes DEF Caught
<1>2. gate' \in [Gates -> GateRow]
  BY FailTypes DEF Caught, TypeOK
<1>3. CASE Fail(g)
  BY <1>1, <1>2, <1>3, FailTypes
<1>4. CASE dispatch' = [dispatch EXCEPT ![g].error = "other"]
  <2>1. dispatch' \in [Gates -> DispatchRow]
    BY <1>4 DEF TypeOK, DispatchRow
  <2> QED BY <1>1, <1>2, <2>1
<1> QED BY <1>3, <1>4 DEF Caught

LEMMA StartTypes ==
    ASSUME TypeOK, NEW g \in Gates, Start(g) PROVE TypeOK'
<1>0. /\ gate \in [Gates -> GateRow] /\ dispatch \in [Gates -> DispatchRow]
      /\ remote \in [Gates -> RemoteRun]
  BY DEF TypeOK
<1>1. gate' \in [Gates -> GateRow]
  <2> DEFINE r == [gate[g] EXCEPT !.status = "resolving",
                      !.publish = IF g \in Eligible THEN "waiting" ELSE "not_configured"]
  <2>1. r \in GateRow
    BY <1>0 DEF GateRow, OpenStatus
  <2>2. gate' = gate \/ gate' = [gate EXCEPT ![g] = r]
    BY DEF Start
  <2> HIDE DEF r
  <2> QED BY <1>0, <2>1, <2>2
<1>2. dispatch' \in [Gates -> DispatchRow]
  BY <1>0 DEF Start, DispatchRow, States
<1>3. remote' \in [Gates -> RemoteRun]
  <2> DEFINE more == remote[g].posts + 1
             r    == [remote[g] EXCEPT !.request = "sent", !.posts = more]
  <2>1. remote[g] \in RemoteRun /\ remote[g].posts \in Nat
    BY <1>0 DEF RemoteRun
  <2>2. more \in Nat
    BY <2>1
  <2>3. remote' = remote \/ remote' = [remote EXCEPT ![g] = r]
    BY DEF Start
  <2> HIDE DEF more
  <2>4. r \in RemoteRun
    BY <2>1, <2>2 DEF RemoteRun
  <2> HIDE DEF r
  <2> QED BY <1>0, <2>3, <2>4
<1>4. posting' \in [Gates -> BOOLEAN]
  BY DEF Start, TypeOK
<1>5. calls' \in [Gates -> 0 .. MaxStarts]
  <2>1. calls[g] + 1 \in 0 .. MaxStarts
    BY GatesAssumption DEF Start, TypeOK
  <2> QED BY <2>1 DEF Start, TypeOK
<1> QED BY <1>1, <1>2, <1>3, <1>4, <1>5 DEF Start, TypeOK

LEMMA PostAnsweredTypes ==
    ASSUME TypeOK, NEW g \in Gates, PostAnswered(g) PROVE TypeOK'
<1>1. gate' \in [Gates -> GateRow]
  BY FailTypes DEF PostAnswered, TypeOK
<1>2. dispatch' \in [Gates -> DispatchRow]
  <2>1. dispatch \in [Gates -> DispatchRow] /\ dispatch[g] \in DispatchRow
    BY DEF TypeOK
  <2>2. CASE Fail(g)
    BY <2>2, FailTypes
  <2>3. ASSUME NEW row \in DispatchRow, dispatch' = [dispatch EXCEPT ![g] = row]
        PROVE  dispatch' \in [Gates -> DispatchRow]
    BY <2>1, <2>3
  <2>4. ASSUME NEW said \in {"none", "other"}
        PROVE  /\ [dispatch[g] EXCEPT !.state = "dispatch_accepted", !.error = said] \in DispatchRow
               /\ [dispatch[g] EXCEPT !.error = said] \in DispatchRow
    BY <2>1 DEF DispatchRow, States
  <2>5. [dispatch[g] EXCEPT !.error = dispatch[g].error] \in DispatchRow
    BY <2>1 DEF DispatchRow
  <2> QED BY <2>2, <2>3, <2>4, <2>5, ZenonT(30) DEF PostAnswered
<1>3. posting' \in [Gates -> BOOLEAN]
  BY DEF PostAnswered, TypeOK
<1> QED BY <1>1, <1>2, <1>3 DEF PostAnswered, TypeOK

LEMMA PollStartsTypes ==
    ASSUME TypeOK, NEW g \in Gates, PollStarts(g) PROVE TypeOK'
<1>1. dispatch' \in [Gates -> DispatchRow]
  BY DEF PollStarts, TypeOK, DispatchRow, States
<1>2. 0 \in 0 .. MaxAttempts
  BY GatesAssumption
<1>3. poll' \in [Gates -> Pass]
  <2> DEFINE looks == [Idle EXCEPT !.at = "listing"]
             asks  == [at |-> "getting", attempt |-> dispatch[g].attempt,
                       error |-> dispatch[g].error, pick |-> 0]
  <2>1. looks \in Pass
    BY <1>2 DEF Pass, Awaits, Idle
  <2>2. dispatch[g] \in DispatchRow /\ poll \in [Gates -> Pass]
    BY DEF TypeOK
  <2>3. asks \in Pass
    BY <1>2, <2>2 DEF DispatchRow, Pass, Awaits
  <2>4. poll' = [poll EXCEPT ![g] = looks] \/ poll' = [poll EXCEPT ![g] = asks]
    BY DEF PollStarts
  <2> HIDE DEF looks, asks
  <2> QED BY <2>1, <2>2, <2>3, <2>4
<1> QED BY <1>1, <1>2, <1>3 DEF PollStarts, Rest, TypeOK

LEMMA ListAnsweredTypes ==
    ASSUME TypeOK, NEW g \in Gates, ListAnswered(g) PROVE TypeOK'
<1>1. CASE NotFound(g) /\ PollEnds(g)
  <2>1. gate' \in [Gates -> GateRow] /\ dispatch' \in [Gates -> DispatchRow]
    BY <1>1, FailTypes DEF NotFound, TypeOK
  <2> QED BY <1>1, <2>1, EndedPassTypes DEF ListAnswered, Rest, TypeOK
<1>2. CASE /\ Found(g)
           /\ poll' = [poll EXCEPT ![g] = [at |-> "getting", attempt |-> remote[g].attempt,
                                            error |-> "none", pick |-> 0]]
  <2>0. remote[g].attempt \in 0 .. MaxAttempts /\ 0 \in 0 .. MaxAttempts
    BY GatesAssumption DEF TypeOK, RemoteRun
  <2>1. gate' \in [Gates -> GateRow]
    BY <1>2, SMTT(30) DEF Found, TypeOK, GateRow, OpenStatus
  <2>2. dispatch' \in [Gates -> DispatchRow]
    <3> DEFINE r == [dispatch[g] EXCEPT
      !.state = "running", !.attempt = remote[g].attempt, !.error = "none"]
    <3>1. r \in DispatchRow
      BY <2>0 DEF TypeOK, DispatchRow, States
    <3>2. dispatch' = [dispatch EXCEPT ![g] = r]
      BY <1>2 DEF Found
    <3> HIDE DEF r
    <3> QED BY <3>1, <3>2 DEF TypeOK
  <2>3. poll' \in [Gates -> Pass]
    BY <1>2, <2>0 DEF TypeOK, Pass, Awaits
  <2> QED BY <2>1, <2>2, <2>3 DEF ListAnswered, Rest, TypeOK
<1> QED BY <1>1, <1>2 DEF ListAnswered

LEMMA CancellationTypes ==
    ASSUME TypeOK, NEW g \in Gates, CancellationSeen(g)
    PROVE  /\ gate' \in [Gates -> GateRow]
           /\ dispatch' \in [Gates -> DispatchRow]
           /\ poll' \in [Gates -> Pass]
<1>1. gate' \in [Gates -> GateRow]
  BY SMTT(30) DEF CancellationSeen, TypeOK, GateRow, TerminalStatus
<1>2. dispatch' \in [Gates -> DispatchRow]
  <2>1. CASE Ended(g)
    <3> DEFINE r == [dispatch[g] EXCEPT !.state = "cancelled",
          !.error = IF remote[g].run = "cancelled" THEN "none" ELSE "other"]
    <3>1. r \in DispatchRow
      BY ZenonT(60) DEF TypeOK, DispatchRow, States, TerminalState
    <3>2. dispatch' = [dispatch EXCEPT ![g] = r]
      BY <2>1 DEF CancellationSeen
    <3> HIDE DEF r
    <3> QED BY <3>1, <3>2 DEF TypeOK
  <2>2. CASE ~Ended(g)
    BY <2>2 DEF CancellationSeen, TypeOK, DispatchRow
  <2> QED BY <2>1, <2>2
<1>3. poll' \in [Gates -> Pass]
  <2>1. CASE PollEnds(g)
    BY <2>1, EndedPassTypes
  <2>2. CASE WaitIn(g, "cancelling")
    BY <2>2, SMTT(30) DEF WaitIn, TypeOK, Pass, Awaits
  <2> QED BY <2>1, <2>2 DEF CancellationSeen
<1> QED BY <1>1, <1>2, <1>3

LEMMA GetAnsweredTypes ==
    ASSUME TypeOK, NEW g \in Gates, GetAnswered(g) PROVE TypeOK'
<1>1. CASE Caught(g)
  BY <1>1, CaughtTypes DEF GetAnswered, Rest, TypeOK
<1>2. CASE CancellationSeen(g)
  BY <1>2, CancellationTypes DEF GetAnswered, Rest, TypeOK
<1>3. CASE /\ dispatch' = [dispatch EXCEPT ![g].state =
                             IF Ended(g) THEN "artifact_pending" ELSE "running"]
           /\ IF Ended(g) THEN WaitIn(g, "artifacts") ELSE PollEnds(g)
           /\ UNCHANGED gate
  <2>1. dispatch' \in [Gates -> DispatchRow]
    BY <1>3 DEF TypeOK, DispatchRow, States
  <2>2. CASE WaitIn(g, "artifacts")
    <3>1. poll' \in [Gates -> Pass]
      BY <2>2, SMTT(30) DEF WaitIn, TypeOK, Pass, Awaits
    <3> QED BY <1>3, <2>1, <3>1 DEF GetAnswered, Rest, TypeOK
  <2>3. CASE PollEnds(g)
    BY <1>3, <2>1, <2>3, EndedPassTypes DEF GetAnswered, Rest, TypeOK
  <2> QED BY <1>3, <2>2, <2>3
<1> QED BY <1>1, <1>2, <1>3 DEF GetAnswered

LEMMA CancelAnsweredTypes ==
    ASSUME TypeOK, NEW g \in Gates, CancelAnswered(g) PROVE TypeOK'
<1>1. dispatch' \in [Gates -> DispatchRow]
  BY DEF CancelAnswered, TypeOK, DispatchRow
<1>2. remote' \in [Gates -> RemoteRun]
  <2> DEFINE r == [remote[g] EXCEPT !.stop = TRUE]
  <2>0. remote[g] \in RemoteRun
    BY DEF TypeOK
  <2>1. r \in RemoteRun
    BY <2>0 DEF RemoteRun
  <2>2. remote' = [remote EXCEPT ![g] = r]
    BY DEF CancelAnswered
  <2> HIDE DEF r
  <2> QED BY <2>1, <2>2 DEF TypeOK
<1>3. poll' \in [Gates -> Pass]
  BY EndedPassTypes DEF CancelAnswered
<1> QED BY <1>1, <1>2, <1>3 DEF CancelAnswered, Rest, TypeOK

LEMMA ArtifactsAnsweredTypes ==
    ASSUME TypeOK, NEW g \in Gates, ArtifactsAnswered(g) PROVE TypeOK'
<1>1. CASE Fail(g) /\ PollEnds(g) /\ UNCHANGED artifact
  BY <1>1, FailTypes, EndedPassTypes DEF ArtifactsAnswered, Rest, TypeOK
<1>2. CASE /\ artifact' = [artifact EXCEPT ![g] = IF @ = "none" THEN "pending" ELSE @]
           /\ poll' = [poll EXCEPT ![g].at = "downloading", ![g].pick = remote[g].made]
           /\ UNCHANGED <<gate, dispatch>>
  <2>1. artifact' \in [Gates -> {"none", "pending", "validated", "rejected"}]
    BY <1>2 DEF TypeOK
  <2>2. remote[g].made \in 0 .. MaxAttempts
    BY DEF TypeOK, RemoteRun
  <2>3. poll' \in [Gates -> Pass]
    <3> DEFINE r == [poll[g] EXCEPT !.at = "downloading", !.pick = remote[g].made]
    <3>1. r \in Pass
      BY <2>2, ZenonT(60) DEF TypeOK, Pass, Awaits
    <3>2. poll' = [poll EXCEPT ![g] = r]
      BY <1>2
    <3> HIDE DEF r
    <3> QED BY <3>1, <3>2 DEF TypeOK
  <2> QED BY <1>2, <2>1, <2>3 DEF ArtifactsAnswered, Rest, TypeOK
<1> QED BY <1>1, <1>2 DEF ArtifactsAnswered

LEMMA DownloadedTypes ==
    ASSUME TypeOK, NEW g \in Gates, Downloaded(g) PROVE TypeOK'
<1>1. artifact' \in [Gates -> {"none", "pending", "validated", "rejected"}]
  BY DEF Downloaded, Rejected, Imported, TypeOK
<1>2. CASE Caught(g)
  BY <1>1, <1>2, CaughtTypes DEF Downloaded, Rest, TypeOK
<1>3. CASE PollEnds(g) /\ UNCHANGED <<gate, dispatch>>
  BY <1>1, <1>3, EndedPassTypes DEF Downloaded, Rest, TypeOK
<1>4. CASE /\ gate' = [gate EXCEPT ![g].status = "completed", ![g].outcome = "verdict",
                ![g].of = poll[g].pick,
                ![g].publish = IF g \in Eligible THEN "waiting" ELSE "not_configured"]
           /\ dispatch' = [dispatch EXCEPT ![g].state = "completed", ![g].error = "none"]
           /\ IF g \in Eligible THEN WaitIn(g, "counting") ELSE PollEnds(g)
  <2>1. poll[g].pick \in 0 .. MaxAttempts
    BY DEF TypeOK, Pass
  <2>2. gate' \in [Gates -> GateRow]
    <3> DEFINE r == [gate[g] EXCEPT
      !.status = "completed", !.outcome = "verdict", !.of = poll[g].pick,
      !.publish = IF g \in Eligible THEN "waiting" ELSE "not_configured"]
    <3>1. r \in GateRow
      BY <2>1, ZenonT(60) DEF TypeOK, GateRow, TerminalStatus
    <3>2. gate' = [gate EXCEPT ![g] = r]
      BY <1>4
    <3> HIDE DEF r
    <3> QED BY <3>1, <3>2 DEF TypeOK
  <2>3. dispatch' \in [Gates -> DispatchRow]
    <3> DEFINE r == [dispatch[g] EXCEPT !.state = "completed", !.error = "none"]
    <3>0. dispatch[g] \in DispatchRow
      BY DEF TypeOK
    <3>1. r \in DispatchRow
      BY <3>0 DEF DispatchRow, States, TerminalState
    <3>2. dispatch' = [dispatch EXCEPT ![g] = r]
      BY <1>4
    <3> HIDE DEF r
    <3> QED BY <3>1, <3>2 DEF TypeOK
  <2>4. poll' \in [Gates -> Pass]
    <3>1. CASE WaitIn(g, "counting")
      BY <3>1 DEF WaitIn, TypeOK, Pass, Awaits
    <3>2. CASE PollEnds(g)
      BY <3>2, EndedPassTypes
    <3> QED BY <1>4, <3>1, <3>2
  <2> QED BY <1>1, <2>2, <2>3, <2>4 DEF Downloaded, Rest, TypeOK
<1> QED BY <1>2, <1>3, <1>4 DEF Downloaded, Rejected, Imported

LEMMA CountedTypes ==
    ASSUME TypeOK, NEW g \in Gates, Counted(g) PROVE TypeOK'
<1>1. gate' \in [Gates -> GateRow]
  <2> DEFINE r == [gate[g] EXCEPT
    !.publish = IF remote[g].check THEN "published" ELSE "failed"]
  <2>1. r \in GateRow
    BY SMTT(30) DEF TypeOK, GateRow
  <2>2. gate' = [gate EXCEPT ![g] = r]
    BY DEF Counted
  <2> HIDE DEF r
  <2> QED BY <2>1, <2>2 DEF TypeOK
<1>2. poll' \in [Gates -> Pass]
  BY EndedPassTypes DEF Counted
<1> QED BY <1>1, <1>2 DEF Counted, Rest, TypeOK

LEMMA CallFailsTypes ==
    ASSUME TypeOK, NEW g \in Gates, RemoteCallFails(g) PROVE TypeOK'
BY CaughtTypes DEF RemoteCallFails, Rest, TypeOK

LEMMA CancelTypes ==
    ASSUME TypeOK, NEW g \in Gates, Cancel(g) PROVE TypeOK'
<1>1. gate' \in [Gates -> GateRow]
  BY DEF Cancel, TypeOK, GateRow, OpenStatus
<1>2. dispatch' \in [Gates -> DispatchRow]
  BY DEF Cancel, TypeOK, DispatchRow
<1> QED BY <1>1, <1>2 DEF Cancel, server, TypeOK

LEMMA RemoteTypes ==
    ASSUME TypeOK, NEW g \in Gates, GitHubStep(g) \/ RunsAgain(g) PROVE TypeOK'
<1>0. remote \in [Gates -> RemoteRun] /\ overdue[g] \in BOOLEAN
  BY DEF TypeOK
<1>1. CASE RequestDecided(g)
  <2>1. remote' \in [Gates -> RemoteRun]
    BY <1>0, <1>1 DEF RequestDecided, RemoteRun
  <2> QED BY <1>1, <2>1 DEF RequestDecided, rows, server, TypeOK
<1>2. CASE RunAppears(g)
  <2>1. 1 \in 0 .. MaxAttempts
    BY GatesAssumption
  <2>2. remote' \in [Gates -> RemoteRun]
    <3> DEFINE r == [remote[g] EXCEPT
      !.run = "active", !.attempt = 1, !.late = overdue[g]]
    <3>1. r \in RemoteRun
      BY <1>0, <2>1 DEF RemoteRun
    <3>2. remote' = [remote EXCEPT ![g] = r]
      BY <1>2 DEF RunAppears
    <3> HIDE DEF r
    <3> QED BY <3>1, <3>2 DEF TypeOK
  <2> QED BY <1>2, <2>2 DEF RunAppears, rows, server, TypeOK
<1>3. CASE RunEnds(g)
  <2>1. remote' \in [Gates -> RemoteRun]
    <3>1. ASSUME NEW valid \in BOOLEAN, NEW check \in BOOLEAN,
                 remote' = [remote EXCEPT ![g].run = "success", ![g].made = remote[g].attempt,
                                          ![g].valid = valid, ![g].check = check]
          PROVE  remote' \in [Gates -> RemoteRun]
      <4> DEFINE r == [remote[g] EXCEPT !.run = "success", !.made = remote[g].attempt,
                                        !.valid = valid, !.check = check]
      <4>1. r \in RemoteRun
        BY <1>0, ZenonT(60) DEF RemoteRun
      <4>2. remote' = [remote EXCEPT ![g] = r]
        BY <3>1
      <4> HIDE DEF r
      <4> QED BY <1>0, <4>1, <4>2
    <3>2. CASE remote' = [remote EXCEPT ![g].run =
                             IF remote[g].stop THEN "cancelled" ELSE "success"]
      <4> DEFINE r == [remote[g] EXCEPT !.run =
                          IF remote[g].stop THEN "cancelled" ELSE "success"]
      <4>1. r \in RemoteRun
        BY <1>0 DEF RemoteRun
      <4>2. remote' = [remote EXCEPT ![g] = r]
        BY <3>2
      <4> HIDE DEF r
      <4> QED BY <1>0, <4>1, <4>2
    <3> QED BY <1>3, <3>1, <3>2 DEF RunEnds
  <2> QED BY <1>3, <2>1 DEF RunEnds, rows, server, TypeOK
<1>4. CASE RunsAgain(g)
  <2>1. remote[g].attempt + 1 \in 0 .. MaxAttempts
    BY <1>0, <1>4, GatesAssumption DEF RunsAgain, RemoteRun
  <2>2. remote' \in [Gates -> RemoteRun]
    BY <1>0, <1>4, <2>1 DEF RunsAgain, RemoteRun
  <2> QED BY <1>4, <2>2 DEF RunsAgain, rows, server, TypeOK
<1> QED BY <1>1, <1>2, <1>3, <1>4 DEF GitHubStep

LEMMA ProcessTypes ==
    ASSUME TypeOK, Crash \/ Boot PROVE TypeOK'
<1>1. Idle \in Pass
  BY GatesAssumption DEF Idle, Pass
<1>2. CASE Crash
  <2>1. crashes' \in 0 .. MaxCrashes
    BY <1>2, GatesAssumption DEF Crash, TypeOK
  <2> QED BY <1>1, <1>2, <2>1 DEF Crash, rows, TypeOK
<1>3. CASE Boot
  BY <1>3 DEF Boot, rows, TypeOK
<1> QED BY <1>2, <1>3

LEMMA WindowTypes ==
    ASSUME TypeOK, NEW g \in Gates, WindowPasses(g) PROVE TypeOK'
BY DEF WindowPasses, rows, server, TypeOK

LEMMA NextTypes == TypeOK /\ [Next]_vars => TypeOK'
<1> SUFFICES ASSUME TypeOK, [Next]_vars PROVE TypeOK'
  OBVIOUS
<1>1. CASE UNCHANGED vars
  BY <1>1 DEF vars, rows, server, TypeOK
<1>2. CASE Crash \/ Boot
  BY <1>2, ProcessTypes
<1>3. CASE \E g \in Gates :
              \/ Start(g) \/ PostAnswered(g) \/ Cancel(g)
              \/ PollStarts(g) \/ Answer(g) \/ RemoteCallFails(g)
              \/ GitHubStep(g) \/ RunsAgain(g) \/ WindowPasses(g)
  BY <1>3, StartTypes, PostAnsweredTypes, CancelTypes, PollStartsTypes, ListAnsweredTypes,
     GetAnsweredTypes, CancelAnsweredTypes, ArtifactsAnsweredTypes, DownloadedTypes,
     CountedTypes, CallFailsTypes, RemoteTypes, WindowTypes DEF Answer
<1> QED BY <1>1, <1>2, <1>3 DEF Next

-----------------------------------------------------------------------------
LEMMA InitIInv == Init => IInv
BY DEF Init, IInv, GateInv, NoGate, NoDispatch, Idle, NoRemote, Polled, Terminal,
       TerminalStatus

\* A step that moves one gate leaves the conditions of the others alone.
OthersKept(g) ==
    \A h \in Gates \ {g} :
        /\ gate'[h] = gate[h] /\ dispatch'[h] = dispatch[h] /\ artifact'[h] = artifact[h]
        /\ poll'[h] = poll[h] /\ remote'[h] = remote[h]

LEMMA OneGateMoves ==
    ASSUME IInv, NEW g \in Gates, OthersKept(g), GateInv(g)' PROVE IInv'
<1> SUFFICES ASSUME NEW h \in Gates, h # g PROVE GateInv(h)'
  BY DEF IInv
<1>1. GateInv(h)
  BY DEF IInv
<1> QED BY <1>1 DEF GateInv, OthersKept, Terminal

LEMMA FailMoves ==
    ASSUME TypeOK, NEW g \in Gates, Fail(g)
    PROVE  /\ \A h \in Gates \ {g} : gate'[h] = gate[h] /\ dispatch'[h] = dispatch[h]
           /\ gate'[g].of = gate[g].of
           /\ dispatch'[g].attempt = dispatch[g].attempt
           /\ \/ /\ gate[g].status \in {"cancelled", "cancelling"}
                 /\ gate'[g].status = gate[g].status
                 /\ gate'[g].outcome = gate[g].outcome
                 /\ dispatch'[g].state = dispatch[g].state
              \/ /\ gate[g].status \notin {"cancelled", "cancelling"}
                 /\ gate'[g].status = "error"
                 /\ gate'[g].outcome = "error"
                 /\ dispatch'[g].state = "failed"
<1>1. gate \in [Gates -> GateRow] /\ dispatch \in [Gates -> DispatchRow]
  BY DEF TypeOK
<1> QED BY <1>1 DEF Fail, GateRow, DispatchRow


LEMMA CaughtMoves ==
    ASSUME TypeOK, NEW g \in Gates, Caught(g)
    PROVE  /\ PollEnds(g)
           /\ dispatch'[g].attempt = dispatch[g].attempt
           /\ \A h \in Gates \ {g} : gate'[h] = gate[h] /\ dispatch'[h] = dispatch[h]
           /\ \/ /\ gate[g].status \in {"cancelled", "cancelling"}
                 /\ gate'[g].status = gate[g].status
                 /\ gate'[g].outcome = gate[g].outcome
                 /\ dispatch'[g].state = dispatch[g].state
              \/ /\ gate[g].status \notin {"cancelled", "cancelling"}
                 /\ gate'[g].status = "error"
                 /\ gate'[g].outcome = "error"
                 /\ dispatch'[g].state = "failed"
<1>1. CASE gate[g].status = "cancelling"
  <2>1. dispatch \in [Gates -> DispatchRow]
    BY DEF TypeOK
  <2> QED BY <1>1, <2>1 DEF Caught, DispatchRow
<1>2. CASE gate[g].status # "cancelling"
  BY <1>2, FailMoves DEF Caught
<1> QED BY <1>1, <1>2

\* A failure that ends a pass: nobody polls the gate, and either it is an error
\* or its cancellation stands.
LEMMA FailedPassKeeps ==
    ASSUME TypeOK, IInv, NEW g \in Gates, PollEnds(g), UNCHANGED remote,
           \A h \in Gates \ {g} : artifact'[h] = artifact[h],
           \A h \in Gates \ {g} : gate'[h] = gate[h] /\ dispatch'[h] = dispatch[h],
           \/ /\ gate[g].status \in {"cancelled", "cancelling"}
              /\ gate'[g].status = gate[g].status
              /\ gate'[g].outcome = gate[g].outcome
              /\ dispatch'[g].state = dispatch[g].state
           \/ /\ gate'[g].status = "error"
              /\ gate'[g].outcome = "error"
              /\ dispatch'[g].state = "failed",
           dispatch'[g].attempt = dispatch[g].attempt
    PROVE  IInv'
<1>0. GateInv(g)
  BY DEF IInv
<1>1. poll'[g].at = "idle" /\ \A h \in Gates \ {g} : poll'[h] = poll[h]
  BY DEF PollEnds, Idle, TypeOK
<1>2. OthersKept(g)
  BY <1>1 DEF OthersKept
<1>3. GateInv(g)'
  BY <1>0, <1>1 DEF GateInv, Polled, Terminal, TerminalStatus
<1> QED BY <1>2, <1>3, OneGateMoves

LEMMA StartKeeps ==
    ASSUME TypeOK, IInv, NEW g \in Gates, Start(g) PROVE IInv'
<1>0. GateInv(g)
  BY DEF IInv
<1>1. CASE Exists(g)
  <2>1. UNCHANGED <<gate, dispatch, artifact, poll, remote>>
    BY <1>1 DEF Start
  <2> QED BY <2>1 DEF IInv, GateInv, Terminal
<1>2. CASE ~Exists(g)
  <2>1. /\ gate \in [Gates -> GateRow] /\ dispatch \in [Gates -> DispatchRow]
        /\ remote \in [Gates -> RemoteRun]
    BY DEF TypeOK
  <2>2. OthersKept(g)
    BY <1>2, <2>1 DEF Start, OthersKept
  <2>3. /\ gate'[g].status = "resolving" /\ gate'[g].outcome = gate[g].outcome
        /\ gate'[g].of = gate[g].of
        /\ dispatch'[g].state = "dispatch_requested"
        /\ dispatch'[g].attempt = dispatch[g].attempt
        /\ remote'[g].posts = remote[g].posts + 1 /\ remote'[g].run = remote[g].run
        /\ UNCHANGED <<artifact, poll>>
    BY <1>2, <2>1 DEF Start, GateRow, DispatchRow, RemoteRun
  <2>4. dispatch[g].state = "none"
    BY <1>2 DEF Exists
  <2>5. GateInv(g)'
    BY <1>0, <2>3, <2>4 DEF GateInv, Polled, Terminal, TerminalStatus
  <2> QED BY <2>2, <2>5, OneGateMoves
<1> QED BY <1>1, <1>2

LEMMA PostAnsweredKeeps ==
    ASSUME TypeOK, IInv, NEW g \in Gates, PostAnswered(g) PROVE IInv'
<1>0. GateInv(g) /\ UNCHANGED <<artifact, poll, remote>>
  BY DEF IInv, PostAnswered
<1>1. CASE remote[g].request = "refused" /\ Fail(g)
  <2>1. OthersKept(g)
    BY <1>0, <1>1, FailMoves DEF OthersKept
  <2>2. GateInv(g)'
    BY <1>0, <1>1, FailMoves DEF GateInv, Polled, Terminal, TerminalStatus
  <2> QED BY <2>1, <2>2, OneGateMoves
<1>2. CASE /\ remote[g].request = "taken"
           /\ dispatch' = [dispatch EXCEPT ![g].state = "dispatch_accepted",
                ![g].error = IF gate[g].status = "cancelling" THEN "other" ELSE "none"]
           /\ UNCHANGED gate
  <2>1. /\ dispatch'[g].state = "dispatch_accepted"
        /\ dispatch'[g].attempt = dispatch[g].attempt
        /\ \A h \in Gates \ {g} : dispatch'[h] = dispatch[h]
    BY <1>2 DEF TypeOK, DispatchRow
  <2>2. OthersKept(g)
    BY <1>0, <1>2, <2>1 DEF OthersKept
  <2>3. GateInv(g)'
    BY <1>0, <1>2, <2>1 DEF GateInv, Terminal
  <2> QED BY <2>2, <2>3, OneGateMoves
<1>3. CASE /\ dispatch' = [dispatch EXCEPT
                ![g].error = IF gate[g].status = "cancelling" THEN @ ELSE "other"]
           /\ UNCHANGED gate
  <2>1. /\ dispatch'[g].state = dispatch[g].state
        /\ dispatch'[g].attempt = dispatch[g].attempt
        /\ \A h \in Gates \ {g} : dispatch'[h] = dispatch[h]
    BY <1>3 DEF TypeOK, DispatchRow
  <2>2. OthersKept(g)
    BY <1>0, <1>3, <2>1 DEF OthersKept
  <2>3. GateInv(g)'
    BY <1>0, <1>3, <2>1 DEF GateInv, Terminal
  <2> QED BY <2>2, <2>3, OneGateMoves
<1> QED BY <1>1, <1>2, <1>3 DEF PostAnswered

LEMMA PollStartsKeeps ==
    ASSUME TypeOK, IInv, NEW g \in Gates, PollStarts(g) PROVE IInv'
<1>0. GateInv(g) /\ UNCHANGED <<gate, artifact, remote>>
  BY DEF IInv, PollStarts
<1>1. CASE dispatch[g].attempt = 0
  <2>1. /\ dispatch' = [dispatch EXCEPT ![g].state = "correlating"]
        /\ poll' = [poll EXCEPT ![g] = [Idle EXCEPT !.at = "listing"]]
    BY <1>1 DEF PollStarts
  <2>2. /\ dispatch'[g].state = "correlating" /\ dispatch'[g].attempt = dispatch[g].attempt
        /\ poll'[g].at = "listing"
        /\ \A h \in Gates \ {g} : dispatch'[h] = dispatch[h] /\ poll'[h] = poll[h]
    BY <2>1 DEF TypeOK, DispatchRow, Idle
  <2>3. OthersKept(g)
    BY <1>0, <2>2 DEF OthersKept
  <2>4. ~Terminal(g) /\ Exists(g)
    BY DEF PollStarts
  <2>5. GateInv(g)'
    BY <1>0, <2>2, <2>4 DEF GateInv, Polled, Terminal, TerminalStatus, Exists
  <2> QED BY <2>3, <2>5, OneGateMoves
<1>2. CASE dispatch[g].attempt # 0
  <2>1. /\ poll' = [poll EXCEPT ![g] = [at |-> "getting", attempt |-> dispatch[g].attempt,
                                         error |-> dispatch[g].error, pick |-> 0]]
        /\ UNCHANGED dispatch
    BY <1>2 DEF PollStarts
  <2>2. poll'[g].at = "getting" /\ \A h \in Gates \ {g} : poll'[h] = poll[h]
    BY <2>1 DEF TypeOK
  <2>3. OthersKept(g)
    BY <1>0, <2>1, <2>2 DEF OthersKept
  <2>4. ~Terminal(g) /\ Exists(g) /\ poll[g].at = "idle"
    BY DEF PollStarts
  <2>5. gate[g].outcome # "verdict"
    BY <1>0, <2>4 DEF GateInv, Terminal, TerminalStatus
  <2>6. GateInv(g)'
    BY <1>0, <1>2, <2>1, <2>2, <2>4, <2>5 DEF GateInv, Polled, Terminal, Exists
  <2> QED BY <2>3, <2>6, OneGateMoves
<1> QED BY <1>1, <1>2

LEMMA ListAnsweredKeeps ==
    ASSUME TypeOK, IInv, NEW g \in Gates, ListAnswered(g) PROVE IInv'
<1>0. GateInv(g) /\ poll[g].at = "listing" /\ UNCHANGED <<artifact, remote>>
  BY DEF IInv, ListAnswered
<1>1. CASE NotFound(g) /\ PollEnds(g)
  <2>1. CASE Fail(g)
    BY <1>0, <1>1, <2>1, FailMoves, FailedPassKeeps
  <2>2. CASE UNCHANGED <<gate, dispatch>>
    <3>1. poll'[g].at = "idle" /\ \A h \in Gates \ {g} : poll'[h] = poll[h]
      BY <1>1 DEF PollEnds, Idle, TypeOK
    <3>2. OthersKept(g)
      BY <1>0, <2>2, <3>1 DEF OthersKept
    <3>3. GateInv(g)'
      BY <1>0, <2>2, <3>1 DEF GateInv, Polled, Terminal
    <3> QED BY <3>2, <3>3, OneGateMoves
  <2> QED BY <1>1, <2>1, <2>2 DEF NotFound
<1>2. CASE /\ Correlated(g) /\ Found(g)
           /\ poll' = [poll EXCEPT ![g] = [at |-> "getting", attempt |-> remote[g].attempt,
                                            error |-> "none", pick |-> 0]]
  <2>1. /\ gate'[g].status = IF gate[g].status = "cancelling" THEN "cancelling" ELSE "scanning"
        /\ gate'[g].outcome = gate[g].outcome
        /\ \A h \in Gates \ {g} : gate'[h] = gate[h]
    BY <1>2 DEF Found, TypeOK, GateRow
  <2>2. /\ dispatch'[g].state = "running" /\ poll'[g].at = "getting"
        /\ \A h \in Gates \ {g} : dispatch'[h] = dispatch[h] /\ poll'[h] = poll[h]
    BY <1>2 DEF Found, TypeOK, DispatchRow
  <2>3. OthersKept(g)
    BY <1>0, <2>1, <2>2 DEF OthersKept
  <2>4. remote[g].run # "none" /\ remote[g].request = "taken"
    BY <1>0, <1>2 DEF Correlated, GateInv
  <2>5. ~Terminal(g) /\ (artifact[g] \in {"validated", "rejected"} => gate[g].status = "cancelling")
    BY <1>0, <2>4 DEF GateInv
  <2>6. gate[g].outcome # "verdict"
    BY <1>0 DEF GateInv
  <2>7. GateInv(g)'
    BY <1>0, <2>1, <2>2, <2>4, <2>5, <2>6 DEF GateInv, Polled, Terminal, TerminalStatus
  <2> QED BY <2>3, <2>7, OneGateMoves
<1> QED BY <1>1, <1>2 DEF ListAnswered

LEMMA GetAnsweredKeeps ==
    ASSUME TypeOK, IInv, NEW g \in Gates, GetAnswered(g) PROVE IInv'
<1>0. GateInv(g) /\ poll[g].at = "getting" /\ UNCHANGED <<artifact, remote>>
  BY DEF IInv, GetAnswered
<1>a. /\ ~Terminal(g) /\ remote[g].run # "none" /\ gate[g].outcome # "verdict"
      /\ dispatch[g].state # "none" /\ gate[g].status \notin {"none", "error"}
  BY <1>0 DEF GateInv, Polled, Terminal, TerminalStatus
<1>1. CASE Caught(g)
  BY <1>0, <1>1, CaughtMoves, FailedPassKeeps
<1>2. CASE gate[g].status = "cancelling" /\ CancellationSeen(g)
  <2>1. CASE /\ gate' = [gate EXCEPT ![g].status = "cancelled"]
             /\ dispatch' = [dispatch EXCEPT ![g].state = "cancelled",
                   ![g].error = IF remote[g].run = "cancelled" THEN "none" ELSE "other"]
             /\ PollEnds(g)
    <3>1. /\ gate'[g].status = "cancelled" /\ gate'[g].outcome = gate[g].outcome
          /\ \A h \in Gates \ {g} : gate'[h] = gate[h]
      BY <2>1 DEF TypeOK, GateRow
    <3>2. /\ dispatch'[g].state = "cancelled" /\ dispatch'[g].attempt = dispatch[g].attempt
          /\ \A h \in Gates \ {g} : dispatch'[h] = dispatch[h]
      BY <2>1 DEF TypeOK, DispatchRow
    <3>3. poll'[g].at = "idle" /\ \A h \in Gates \ {g} : poll'[h] = poll[h]
      BY <2>1 DEF PollEnds, Idle, TypeOK
    <3>4. OthersKept(g)
      BY <1>0, <3>1, <3>2, <3>3 DEF OthersKept
    <3>5. GateInv(g)'
      BY <1>0, <1>a, <3>1, <3>2, <3>3 DEF GateInv, Polled, Terminal, TerminalStatus
    <3> QED BY <3>4, <3>5, OneGateMoves
  <2>2. CASE WaitIn(g, "cancelling") /\ UNCHANGED <<gate, dispatch>>
    <3>1. poll'[g].at = "cancelling" /\ \A h \in Gates \ {g} : poll'[h] = poll[h]
      BY <2>2 DEF WaitIn, TypeOK, Pass
    <3>2. OthersKept(g)
      BY <1>0, <2>2, <3>1 DEF OthersKept
    <3>3. GateInv(g)'
      BY <1>0, <1>a, <2>2, <3>1 DEF GateInv, Polled, Terminal
    <3> QED BY <3>2, <3>3, OneGateMoves
  <2>3. CASE /\ dispatch' = [dispatch EXCEPT ![g].error = "requested"]
             /\ PollEnds(g) /\ UNCHANGED gate
    <3>1. /\ dispatch'[g].state = dispatch[g].state
          /\ dispatch'[g].attempt = dispatch[g].attempt
          /\ \A h \in Gates \ {g} : dispatch'[h] = dispatch[h]
      BY <2>3 DEF TypeOK, DispatchRow
    <3>2. poll'[g].at = "idle" /\ \A h \in Gates \ {g} : poll'[h] = poll[h]
      BY <2>3 DEF PollEnds, Idle, TypeOK
    <3>3. OthersKept(g)
      BY <1>0, <2>3, <3>1, <3>2 DEF OthersKept
    <3>4. GateInv(g)'
      BY <1>0, <1>a, <2>3, <3>1, <3>2 DEF GateInv, Polled, Terminal
    <3> QED BY <3>3, <3>4, OneGateMoves
  <2> QED BY <1>2, <2>1, <2>2, <2>3 DEF CancellationSeen
<1>3. CASE /\ dispatch' = [dispatch EXCEPT ![g].state =
                             IF Ended(g) THEN "artifact_pending" ELSE "running"]
           /\ IF Ended(g) THEN WaitIn(g, "artifacts") ELSE PollEnds(g)
           /\ UNCHANGED gate
           /\ gate[g].status # "cancelling"
  <2>1. /\ dispatch'[g].state # "none" /\ dispatch'[g].attempt = dispatch[g].attempt
        /\ \A h \in Gates \ {g} : dispatch'[h] = dispatch[h]
    BY <1>3 DEF TypeOK, DispatchRow
  <2>2. poll'[g].at \in {"idle", "artifacts"} /\ \A h \in Gates \ {g} : poll'[h] = poll[h]
    BY <1>3 DEF WaitIn, PollEnds, Idle, TypeOK, Pass
  <2>3. OthersKept(g)
    BY <1>0, <1>3, <2>1, <2>2 DEF OthersKept
  <2>4. artifact[g] \in {"none", "pending"}
    BY <1>0, <1>a, <1>3 DEF GateInv, TypeOK
  <2>5. GateInv(g)'
    BY <1>0, <1>a, <1>3, <2>1, <2>2, <2>4 DEF GateInv, Polled, Terminal
  <2> QED BY <2>3, <2>5, OneGateMoves
<1> QED BY <1>1, <1>2, <1>3 DEF GetAnswered

LEMMA CancelAnsweredKeeps ==
    ASSUME TypeOK, IInv, NEW g \in Gates, CancelAnswered(g) PROVE IInv'
<1>0. GateInv(g) /\ UNCHANGED <<gate, artifact>>
  BY DEF IInv, CancelAnswered
<1>1. /\ dispatch'[g].state = dispatch[g].state /\ dispatch'[g].attempt = dispatch[g].attempt
      /\ \A h \in Gates \ {g} : dispatch'[h] = dispatch[h]
  BY DEF CancelAnswered, TypeOK, DispatchRow
<1>2. /\ remote'[g].posts = remote[g].posts /\ remote'[g].request = remote[g].request
      /\ remote'[g].run = remote[g].run
      /\ \A h \in Gates \ {g} : remote'[h] = remote[h]
  BY DEF CancelAnswered, TypeOK, RemoteRun
<1>3. poll'[g].at = "idle" /\ \A h \in Gates \ {g} : poll'[h] = poll[h]
  BY DEF CancelAnswered, PollEnds, Idle, TypeOK
<1>4. OthersKept(g)
  BY <1>0, <1>1, <1>2, <1>3 DEF OthersKept
<1>5. GateInv(g)'
  BY <1>0, <1>1, <1>2, <1>3 DEF GateInv, Polled, Terminal
<1> QED BY <1>4, <1>5, OneGateMoves

LEMMA ArtifactsAnsweredKeeps ==
    ASSUME TypeOK, IInv, NEW g \in Gates, ArtifactsAnswered(g) PROVE IInv'
<1>0. GateInv(g) /\ poll[g].at = "artifacts" /\ UNCHANGED remote
  BY DEF IInv, ArtifactsAnswered
<1>1. CASE Fail(g) /\ PollEnds(g) /\ UNCHANGED artifact
  BY <1>0, <1>1, FailMoves, FailedPassKeeps
<1>2. CASE /\ artifact' = [artifact EXCEPT ![g] = IF @ = "none" THEN "pending" ELSE @]
           /\ poll' = [poll EXCEPT ![g].at = "downloading", ![g].pick = remote[g].made]
           /\ UNCHANGED <<gate, dispatch>>
  <2>1. artifact[g] \in {"none", "pending"}
    BY <1>0 DEF GateInv
  <2>2. artifact'[g] = "pending" /\ \A h \in Gates \ {g} : artifact'[h] = artifact[h]
    BY <1>2, <2>1 DEF TypeOK
  <2>3. poll'[g].at = "downloading" /\ \A h \in Gates \ {g} : poll'[h] = poll[h]
    BY <1>2 DEF TypeOK, Pass
  <2>4. OthersKept(g)
    BY <1>0, <1>2, <2>2, <2>3 DEF OthersKept
  <2>5. GateInv(g)'
    BY <1>0, <1>2, <2>2, <2>3 DEF GateInv, Polled, Terminal
  <2> QED BY <2>4, <2>5, OneGateMoves
<1> QED BY <1>1, <1>2 DEF ArtifactsAnswered

LEMMA DownloadedKeeps ==
    ASSUME TypeOK, IInv, NEW g \in Gates, Downloaded(g) PROVE IInv'
<1>0. GateInv(g) /\ poll[g].at = "downloading" /\ UNCHANGED remote
  BY DEF IInv, Downloaded
<1>a. /\ ~Terminal(g) /\ remote[g].run # "none" /\ dispatch[g].state # "none"
      /\ gate[g].status # "none" /\ gate[g].outcome # "verdict"
  BY <1>0 DEF GateInv, Polled
<1>1. CASE artifact' = [artifact EXCEPT ![g] = "rejected"] /\ Caught(g)
  <2>1. \A h \in Gates \ {g} : artifact'[h] = artifact[h]
    BY <1>1 DEF TypeOK
  <2> QED BY <1>0, <1>1, <2>1, CaughtMoves, FailedPassKeeps
<1>2. CASE Imported(g) /\ Closed(g) /\ PollEnds(g) /\ UNCHANGED <<gate, dispatch>>
  <2>1. artifact'[g] = "validated" /\ \A h \in Gates \ {g} : artifact'[h] = artifact[h]
    BY <1>2 DEF Imported, TypeOK
  <2>2. poll'[g].at = "idle" /\ \A h \in Gates \ {g} : poll'[h] = poll[h]
    BY <1>2 DEF PollEnds, Idle, TypeOK
  <2>3. OthersKept(g)
    BY <1>0, <1>2, <2>1, <2>2 DEF OthersKept
  <2>4. GateInv(g)'
    BY <1>0, <1>2, <1>a, <2>1, <2>2 DEF GateInv, Polled, Terminal, Closed
  <2> QED BY <2>3, <2>4, OneGateMoves
<1>3. CASE /\ Genuine(g)
           /\ artifact' = [artifact EXCEPT ![g] = "validated"]
           /\ gate' = [gate EXCEPT ![g].status = "completed", ![g].outcome = "verdict",
                ![g].of = poll[g].pick,
                ![g].publish = IF g \in Eligible THEN "waiting" ELSE "not_configured"]
           /\ dispatch' = [dispatch EXCEPT ![g].state = "completed", ![g].error = "none"]
           /\ IF g \in Eligible THEN WaitIn(g, "counting") ELSE PollEnds(g)
  <2>1. artifact'[g] = "validated" /\ \A h \in Gates \ {g} : artifact'[h] = artifact[h]
    BY <1>3 DEF TypeOK
  <2>2. /\ gate'[g].status = "completed" /\ gate'[g].outcome = "verdict"
        /\ gate'[g].of = dispatch[g].attempt
        /\ \A h \in Gates \ {g} : gate'[h] = gate[h]
    BY <1>3 DEF Genuine, TypeOK, GateRow
  <2>3. /\ dispatch'[g].state = "completed" /\ dispatch'[g].attempt = dispatch[g].attempt
        /\ \A h \in Gates \ {g} : dispatch'[h] = dispatch[h]
    BY <1>3 DEF TypeOK, DispatchRow
  <2>4. poll'[g].at \in {"idle", "counting"} /\ \A h \in Gates \ {g} : poll'[h] = poll[h]
    BY <1>3 DEF WaitIn, PollEnds, Idle, TypeOK, Pass
  <2>5. OthersKept(g)
    BY <1>0, <2>1, <2>2, <2>3, <2>4 DEF OthersKept
  <2>6. GateInv(g)'
    BY <1>0, <1>a, <2>1, <2>2, <2>3, <2>4 DEF GateInv, Polled, Terminal, TerminalStatus
  <2> QED BY <2>5, <2>6, OneGateMoves
<1> QED BY <1>1, <1>2, <1>3 DEF Downloaded, Rejected, Imported

LEMMA CountedKeeps ==
    ASSUME TypeOK, IInv, NEW g \in Gates, Counted(g) PROVE IInv'
<1>0. GateInv(g) /\ poll[g].at = "counting" /\ UNCHANGED <<dispatch, artifact, remote>>
  BY DEF IInv, Counted
<1>1. /\ gate'[g].status = gate[g].status /\ gate'[g].outcome = gate[g].outcome
      /\ gate'[g].of = gate[g].of
      /\ \A h \in Gates \ {g} : gate'[h] = gate[h]
  BY DEF Counted, TypeOK, GateRow
<1>2. poll'[g].at = "idle" /\ \A h \in Gates \ {g} : poll'[h] = poll[h]
  BY DEF Counted, PollEnds, Idle, TypeOK
<1>3. OthersKept(g)
  BY <1>0, <1>1, <1>2 DEF OthersKept
<1>4. GateInv(g)'
  BY <1>0, <1>1, <1>2 DEF GateInv, Polled, Terminal
<1> QED BY <1>3, <1>4, OneGateMoves

LEMMA CallFailsKeeps ==
    ASSUME TypeOK, IInv, NEW g \in Gates, RemoteCallFails(g) PROVE IInv'
<1>1. Caught(g) /\ UNCHANGED <<artifact, remote>>
  BY DEF RemoteCallFails
<1> QED BY <1>1, CaughtMoves, FailedPassKeeps

LEMMA CancelKeeps ==
    ASSUME TypeOK, IInv, NEW g \in Gates, Cancel(g) PROVE IInv'
<1>0. GateInv(g) /\ UNCHANGED <<artifact, poll, remote>>
  BY DEF IInv, Cancel, server
<1>1. /\ gate'[g].status = "cancelling" /\ gate'[g].outcome = gate[g].outcome
      /\ \A h \in Gates \ {g} : gate'[h] = gate[h]
  BY DEF Cancel, TypeOK, GateRow
<1>2. /\ dispatch'[g].state = dispatch[g].state /\ dispatch'[g].attempt = dispatch[g].attempt
      /\ \A h \in Gates \ {g} : dispatch'[h] = dispatch[h]
  BY DEF Cancel, TypeOK, DispatchRow
<1>3. OthersKept(g)
  BY <1>0, <1>1, <1>2 DEF OthersKept
<1>4. ~Terminal(g) /\ dispatch[g].state # "none"
  BY DEF Cancel, Exists
<1>5. GateInv(g)'
  BY <1>0, <1>1, <1>2, <1>4 DEF GateInv, Polled, Terminal, TerminalStatus
<1> QED BY <1>3, <1>5, OneGateMoves

LEMMA RemoteKeeps ==
    ASSUME TypeOK, IInv, NEW g \in Gates, GitHubStep(g) \/ RunsAgain(g) PROVE IInv'
<1>0. GateInv(g) /\ UNCHANGED <<gate, dispatch, artifact, poll>>
  BY DEF IInv, GitHubStep, RequestDecided, RunAppears, RunEnds, RunsAgain, rows, server
<1>1. CASE RequestDecided(g)
  <2>1. /\ remote[g].request = "sent" /\ remote'[g].request \in {"taken", "refused"}
        /\ remote'[g].run = remote[g].run /\ remote'[g].posts = remote[g].posts
        /\ \A h \in Gates \ {g} : remote'[h] = remote[h]
    BY <1>1 DEF RequestDecided, TypeOK, RemoteRun
  <2>2. OthersKept(g)
    BY <1>0, <2>1 DEF OthersKept
  <2>3. GateInv(g)'
    BY <1>0, <2>1 DEF GateInv, Terminal
  <2> QED BY <2>2, <2>3, OneGateMoves
<1>2. CASE RunAppears(g) \/ RunEnds(g) \/ RunsAgain(g)
  <2>1. /\ remote'[g].run # "none" /\ remote'[g].posts = remote[g].posts
        /\ remote'[g].request = remote[g].request
        /\ remote[g].request = "taken"
        /\ \A h \in Gates \ {g} : remote'[h] = remote[h]
    <3>1. remote \in [Gates -> RemoteRun]
      BY DEF TypeOK
    <3>2. CASE RunAppears(g)
      BY <3>1, <3>2 DEF RunAppears, RemoteRun
    <3>3. CASE RunEnds(g)
      <4>1. remote[g].run # "none" /\ remote[g].request = "taken"
        BY <1>0, <3>3 DEF RunEnds, GateInv
      <4>2. ASSUME NEW valid \in BOOLEAN, NEW check \in BOOLEAN,
                   remote' = [remote EXCEPT ![g].run = "success", ![g].made = remote[g].attempt,
                                            ![g].valid = valid, ![g].check = check]
            PROVE  /\ remote'[g].run # "none" /\ remote'[g].posts = remote[g].posts
                   /\ remote'[g].request = remote[g].request
                   /\ \A h \in Gates \ {g} : remote'[h] = remote[h]
        BY <3>1, <4>2 DEF RemoteRun
      <4>3. CASE remote' = [remote EXCEPT ![g].run =
                               IF remote[g].stop THEN "cancelled" ELSE "success"]
        BY <3>1, <4>1, <4>3 DEF RemoteRun
      <4> QED BY <3>3, <4>1, <4>2, <4>3 DEF RunEnds
    <3>4. CASE RunsAgain(g)
      BY <1>0, <3>1, <3>4 DEF RunsAgain, Ended, RemoteRun, GateInv
    <3> QED BY <1>2, <3>2, <3>3, <3>4
  <2>2. OthersKept(g)
    BY <1>0, <2>1 DEF OthersKept
  <2>3. GateInv(g)'
    BY <1>0, <2>1 DEF GateInv, Terminal
  <2> QED BY <2>2, <2>3, OneGateMoves
<1> QED BY <1>1, <1>2 DEF GitHubStep

LEMMA CrashKeeps ==
    ASSUME TypeOK, IInv, Crash PROVE IInv'
<1> SUFFICES ASSUME NEW g \in Gates PROVE GateInv(g)'
  BY DEF IInv
<1>1. GateInv(g) /\ UNCHANGED <<gate, dispatch, artifact, remote>> /\ poll'[g].at = "idle"
  BY DEF IInv, Crash, rows, Idle
<1> QED BY <1>1 DEF GateInv, Polled, Terminal

LEMMA NextKeeps == TypeOK /\ IInv /\ [Next]_vars => IInv'
<1> SUFFICES ASSUME TypeOK, IInv, [Next]_vars PROVE IInv'
  OBVIOUS
<1>1. ASSUME UNCHANGED <<gate, dispatch, artifact, poll, remote>> PROVE IInv'
  BY <1>1 DEF IInv, GateInv, Terminal
<1>2. CASE UNCHANGED vars \/ Boot \/ \E g \in Gates : WindowPasses(g)
  BY <1>1, <1>2 DEF vars, Boot, WindowPasses, rows, server
<1>3. CASE Crash
  BY <1>3, CrashKeeps
<1>4. CASE \E g \in Gates :
              \/ Start(g) \/ PostAnswered(g) \/ Cancel(g)
              \/ PollStarts(g) \/ Answer(g) \/ RemoteCallFails(g)
              \/ GitHubStep(g) \/ RunsAgain(g)
  BY <1>4, StartKeeps, PostAnsweredKeeps, CancelKeeps, PollStartsKeeps, ListAnsweredKeeps,
     GetAnsweredKeeps, CancelAnsweredKeeps, ArtifactsAnsweredKeeps, DownloadedKeeps,
     CountedKeeps, CallFailsKeeps, RemoteKeeps DEF Answer
<1> QED BY <1>2, <1>3, <1>4 DEF Next

-----------------------------------------------------------------------------
\* Every value the gate rows, the dispatch rows, a pass and GitHub take is one
\* the types name, and the conditions that tie them hold throughout.
THEOREM TypeCorrect == Spec => []Inv
<1>1. Init => Inv
  BY InitTypeOK, InitIInv DEF Inv
<1>2. Inv /\ [Next]_vars => Inv'
  BY NextTypes, NextKeeps DEF Inv
<1> QED BY <1>1, <1>2, PTL DEF Spec

\* start() dispatches the workflow of a key once at most, however often it is
\* called, whatever becomes of the answer and whenever the process dies.
THEOREM OneDispatchForEachKey == Spec => []DispatchedOnce
<1>1. Inv => DispatchedOnce
  BY DEF Inv, IInv, GateInv, DispatchedOnce
<1> QED BY <1>1, TypeCorrect, PTL

\* The importer takes a verdict from a validated artifact of the attempt the
\* gate correlated only, and always finds the row it reserved pending.
THEOREM VerdictOfItsAttempt == Spec => []VerdictIsOfItsRun
<1>1. Inv => VerdictIsOfItsRun
  BY DEF Inv, IInv, GateInv, VerdictIsOfItsRun
<1> QED BY <1>1, TypeCorrect, PTL

\* What a step may do to a gate that waits for its cancellation, or has ended.
LEMMA CancellingStays ==
    ASSUME Inv, Next, NEW h \in Gates, gate[h].status = "cancelling"
    PROVE  gate'[h].status \in {"cancelling", "cancelled"} /\ gate'[h].outcome = gate[h].outcome
<1>0. gate \in [Gates -> GateRow] /\ GateInv(h)
  BY DEF Inv, IInv, TypeOK
<1>1. CASE UNCHANGED gate
  BY <1>1
<1>2. ASSUME NEW g \in Gates, Start(g) PROVE gate'[h] = gate[h]
  <2>1. CASE Exists(g)
    BY <1>2, <2>1 DEF Start
  <2>2. CASE ~Exists(g)
    <3>1. g # h
      BY <1>0, <2>2 DEF Exists, GateInv
    <3> QED BY <1>0, <1>2, <2>2, <3>1 DEF Start
  <2> QED BY <2>1, <2>2
<1>3. ASSUME NEW g \in Gates, Fail(g) PROVE gate'[h] = gate[h]
  BY <1>0, <1>3 DEF Fail
<1>4. ASSUME NEW g \in Gates, Found(g)
      PROVE  gate'[h].status = "cancelling" /\ gate'[h].outcome = gate[h].outcome
  BY <1>0, <1>4 DEF Found, GateRow
<1>5. ASSUME NEW g \in Gates, CancellationSeen(g)
      PROVE  gate'[h].status \in {"cancelling", "cancelled"} /\ gate'[h].outcome = gate[h].outcome
  BY <1>0, <1>5 DEF CancellationSeen, GateRow
<1>6. ASSUME NEW g \in Gates, Imported(g) PROVE gate'[h] = gate[h]
  BY <1>0, <1>6 DEF Imported, Closed
<1>7. ASSUME NEW g \in Gates, Counted(g)
      PROVE  gate'[h].status = gate[h].status /\ gate'[h].outcome = gate[h].outcome
  BY <1>0, <1>7 DEF Counted, GateRow
<1>8. ASSUME NEW g \in Gates, Cancel(g) PROVE gate'[h] = gate[h]
  BY <1>0, <1>8 DEF Cancel
<1>9. ASSUME NEW g \in Gates, Caught(g) PROVE gate'[h] = gate[h]
  BY <1>3, <1>9 DEF Caught
<1>10. ASSUME NEW g \in Gates, Answer(g)
       PROVE  gate'[h].status \in {"cancelling", "cancelled"} /\ gate'[h].outcome = gate[h].outcome
  <2>1. CASE ListAnswered(g)
    BY <1>1, <1>3, <1>4, <2>1 DEF ListAnswered, NotFound
  <2>2. CASE GetAnswered(g)
    BY <1>1, <1>5, <1>9, <2>2 DEF GetAnswered
  <2>3. CASE ArtifactsAnswered(g)
    BY <1>1, <1>3, <2>3 DEF ArtifactsAnswered
  <2>4. CASE Downloaded(g)
    BY <1>6, <1>9, <2>4 DEF Downloaded, Rejected
  <2>5. CASE CancelAnswered(g) \/ Counted(g)
    BY <1>1, <1>7, <2>5 DEF CancelAnswered
  <2> QED BY <1>10, <2>1, <2>2, <2>3, <2>4, <2>5 DEF Answer
<1>11. ASSUME NEW g \in Gates, PostAnswered(g) PROVE gate'[h] = gate[h]
  BY <1>1, <1>3, <1>11 DEF PostAnswered
<1>12. ASSUME NEW g \in Gates, RemoteCallFails(g) PROVE gate'[h] = gate[h]
  BY <1>9, <1>12 DEF RemoteCallFails
<1>13. ASSUME NEW g \in Gates,
              PollStarts(g) \/ GitHubStep(g) \/ RunsAgain(g) \/ WindowPasses(g)
       PROVE  UNCHANGED gate
  BY <1>13 DEF PollStarts, GitHubStep, RequestDecided, RunAppears, RunEnds, RunsAgain,
               WindowPasses, rows
<1>14. CASE Crash \/ Boot
  BY <1>1, <1>14 DEF Crash, Boot, rows
<1> QED BY <1>1, <1>2, <1>8, <1>10, <1>11, <1>12, <1>13, <1>14 DEF Next

\* No poll, failure or artifact overwrites a cancellation that was asked for:
\* cancel() of github-actions-executor.ts wins over every await around it.
THEOREM CancellationIsHeld == Spec => CancellationHeld
<1>1. Inv /\ [Next]_vars =>
        [\A g \in Gates : gate[g].status = "cancelling" =>
            /\ gate'[g].status \in {"cancelling", "cancelled"}
            /\ gate'[g].outcome = gate[g].outcome]_vars
  BY CancellingStays
<1> QED BY <1>1, TypeCorrect, PTL DEF Spec, CancellationHeld

\* What a step may do to a gate that has ended: polls find nothing more to
\* write but the count of the check, or an error in its place.
LEMMA EndedStays ==
    ASSUME Inv, Next, NEW h \in Gates, Terminal(h)
    PROVE  /\ gate[h].status \in {"error", "cancelled"} => gate'[h] = gate[h]
           /\ gate[h].status = "completed" => gate'[h].status \in {"completed", "error"}
<1> DEFINE Ends == /\ gate[h].status \in {"error", "cancelled"} => gate'[h] = gate[h]
                   /\ gate[h].status = "completed" => gate'[h].status \in {"completed", "error"}
<1>0. gate \in [Gates -> GateRow] /\ GateInv(h)
  BY DEF Inv, IInv, TypeOK
<1>1. ASSUME gate'[h] = gate[h] PROVE Ends
  BY <1>1
<1>2. ASSUME NEW g \in Gates, Fail(g) PROVE Ends
  <2>1. CASE g # h
    BY <1>0, <1>1, <1>2, <2>1 DEF Fail
  <2>2. CASE g = h /\ gate[h].status = "error"
    <3>1. gate[h].outcome = "error"
      BY <1>0, <2>2 DEF GateInv
    <3>2. gate' = [gate EXCEPT ![h].status = "error", ![h].outcome = "error"]
      BY <1>2, <2>2 DEF Fail
    <3>3. gate'[h] = gate[h]
      BY <1>0, <2>2, <3>1, <3>2 DEF GateRow
    <3> QED BY <1>1, <3>3
  <2>3. CASE g = h /\ gate[h].status = "cancelled"
    BY <1>1, <1>2, <2>3 DEF Fail
  <2>4. CASE g = h /\ gate[h].status = "completed"
    BY <1>0, <1>2, <2>4 DEF Fail, GateRow
  <2> QED BY <2>1, <2>2, <2>3, <2>4 DEF Terminal, TerminalStatus
<1>3. ASSUME NEW g \in Gates, Caught(g) PROVE Ends
  BY <1>1, <1>2, <1>3 DEF Caught
<1>4. ASSUME NEW g \in Gates, ListAnswered(g) PROVE Ends
  <2>1. CASE Correlated(g) /\ Found(g)
    <3>1. g # h
      BY <1>0, <1>4, <2>1 DEF ListAnswered, Correlated, GateInv
    <3>2. gate'[h] = gate[h]
      BY <1>0, <2>1, <3>1 DEF Found
    <3> QED BY <1>1, <3>2
  <2> QED BY <1>1, <1>2, <1>4, <2>1 DEF ListAnswered, NotFound
<1>5. ASSUME NEW g \in Gates, GetAnswered(g) PROVE Ends
  <2>1. CASE gate[g].status = "cancelling" /\ CancellationSeen(g)
    <3>1. g # h
      BY <2>1 DEF Terminal, TerminalStatus
    <3>2. gate'[h] = gate[h]
      BY <1>0, <2>1, <3>1 DEF CancellationSeen
    <3> QED BY <1>1, <3>2
  <2> QED BY <1>1, <1>3, <1>5, <2>1 DEF GetAnswered
<1>6. ASSUME NEW g \in Gates, Downloaded(g) PROVE Ends
  <2>1. CASE Imported(g)
    <3>1. gate'[h] = gate[h]
      BY <1>0, <2>1 DEF Imported, Closed
    <3> QED BY <1>1, <3>1
  <2> QED BY <1>3, <1>6, <2>1 DEF Downloaded, Rejected
<1>7. ASSUME NEW g \in Gates, Counted(g) PROVE Ends
  <2>1. CASE g = h
    <3>1. gate[h].status = "completed"
      BY <1>0, <1>7, <2>1 DEF Counted, GateInv
    <3>2. gate'[h].status = gate[h].status
      BY <1>0, <1>7, <2>1 DEF Counted, GateRow
    <3> QED BY <3>1, <3>2
  <2>2. CASE g # h
    BY <1>0, <1>1, <1>7, <2>2 DEF Counted
  <2> QED BY <2>1, <2>2
<1>8. ASSUME NEW g \in Gates, Answer(g) PROVE Ends
  <2>1. CASE ArtifactsAnswered(g) \/ CancelAnswered(g)
    BY <1>1, <1>2, <2>1 DEF ArtifactsAnswered, CancelAnswered
  <2> QED BY <1>4, <1>5, <1>6, <1>7, <1>8, <2>1 DEF Answer
<1>9. ASSUME NEW g \in Gates, Start(g) \/ Cancel(g) PROVE Ends
  <2>1. dispatch[h].state # "none"
    BY <1>0 DEF GateInv, Terminal, TerminalStatus
  <2>2. CASE Start(g)
    BY <1>0, <2>1, <2>2 DEF Start, Exists
  <2>3. CASE Cancel(g)
    BY <1>0, <2>3 DEF Cancel
  <2> QED BY <1>1, <1>9, <2>2, <2>3
<1>10. ASSUME NEW g \in Gates, PostAnswered(g) \/ RemoteCallFails(g) PROVE Ends
  BY <1>1, <1>2, <1>3, <1>10 DEF PostAnswered, RemoteCallFails
<1>11. ASSUME NEW g \in Gates,
              PollStarts(g) \/ GitHubStep(g) \/ RunsAgain(g) \/ WindowPasses(g)
       PROVE  Ends
  BY <1>1, <1>11 DEF PollStarts, GitHubStep, RequestDecided, RunAppears, RunEnds, RunsAgain,
               WindowPasses, rows
<1>12. ASSUME Crash \/ Boot PROVE Ends
  BY <1>1, <1>12 DEF Crash, Boot, rows
<1> HIDE DEF Ends
<1>13. Ends
  BY <1>1, <1>8, <1>9, <1>10, <1>11, <1>12 DEF Next
<1> QED BY <1>13 DEF Ends

\* An error and a cancellation stay as they were written, and a completed gate
\* never runs again: reconcileGate leaves terminal rows alone, and the passes
\* already under way when a gate ends write nothing that reopens it.
THEOREM EndIsFinal == Spec => EndedForGood
<1>1. Inv /\ [Next]_vars =>
        [\A g \in Gates :
            /\ gate[g].status \in {"error", "cancelled"} => gate'[g] = gate[g]
            /\ gate[g].status = "completed" => gate'[g].status \in {"completed", "error"}]_vars
  BY EndedStays DEF Terminal, TerminalStatus
<1> QED BY <1>1, TypeCorrect, PTL DEF Spec, EndedForGood
=============================================================================
