----------------------- MODULE WebhookAdmissionProofs -----------------------
(***************************************************************************)
(* The budgets of the webhook endpoint are exact, nobody overtakes who     *)
(* waits, and a request is only shed by a full line, for any number of     *)
(* requests and addresses and for any limits: proofs about                 *)
(* WebhookAdmission.                                                       *)
(***************************************************************************)
EXTENDS WebhookAdmission, FiniteSetTheorems, SequenceTheorems,
        WellFoundedInduction, TLAPS

\* A set of naturals has a least element: the initial segments of its
\* elements are finite sets, which strict inclusion orders well.
LEMMA LeastOf ==
    ASSUME NEW S \in SUBSET Nat, S # {}
    PROVE  \E x \in S : \A y \in S : x <= y
<1> DEFINE T == {1 .. x : x \in S}
<1>1. T \subseteq FiniteSubsetsOf(Nat)
  <2> SUFFICES ASSUME NEW x \in S PROVE 1 .. x \in FiniteSubsetsOf(Nat)
    OBVIOUS
  <2>1. IsFiniteSet(1 .. x)
    BY FS_Interval
  <2> QED BY <2>1 DEF FiniteSubsetsOf
<1>2. T # {}
  OBVIOUS
<1>3. PICK t \in T : \A u \in T : ~ (<<u, t>> \in StrictSubsetOrdering(Nat))
  BY <1>1, <1>2, FS_StrictSubsetOrderingWellFounded, WFMin
<1>4. PICK x \in S : t = 1 .. x
  OBVIOUS
<1>5. ASSUME NEW y \in S, y < x PROVE FALSE
  <2>1. 1 .. y \in T
    BY <1>5
  <2>2. 1 .. y \subseteq 1 .. x /\ x \in 1 .. x /\ x \notin 1 .. y
    BY <1>5
  <2>3. 1 .. y # 1 .. x
    BY <2>2
  <2>4. <<1 .. y, 1 .. x>> \in (SUBSET Nat) \X (SUBSET Nat)
    OBVIOUS
  <2>5. <<1 .. y, 1 .. x>> \in StrictSubsetOrdering(Nat)
    BY <2>2, <2>3, <2>4 DEF StrictSubsetOrdering
  <2> QED BY <1>3, <1>4, <2>1, <2>5
<1> QED BY <1>5

\* The position NextLive returns is that of the first waiter still unsettled.
LEMMA NextLiveFinds ==
    ASSUME NEW S, NEW queue \in Seq(S), NEW live
    PROVE  LET k == NextLive(queue, live)
           IN  /\ k \in 0 .. Len(queue)
               /\ k # 0 => queue[k] \in live
               /\ \A i \in 1 .. Len(queue) : queue[i] \in live => k # 0 /\ k <= i
<1> DEFINE alive == {i \in 1 .. Len(queue) : queue[i] \in live}
<1>1. Len(queue) \in Nat
  OBVIOUS
<1>2. CASE alive = {}
  BY <1>1, <1>2 DEF NextLive
<1>3. CASE alive # {}
  <2>1. alive \in SUBSET Nat
    OBVIOUS
  <2>2. \E i \in alive : \A j \in alive : i <= j
    BY <1>3, <2>1, LeastOf
  <2>3. NextLive(queue, live) = CHOOSE i \in alive : \A j \in alive : i <= j
    BY <1>3 DEF NextLive
  <2>4. NextLive(queue, live) \in alive /\ \A j \in alive : NextLive(queue, live) <= j
    BY <2>2, <2>3
  <2> QED BY <1>1, <2>4
<1> QED BY <1>2, <1>3

\* A slot is handed to at most one waiter, an unsettled one.
LEMMA HandedToOneLiveWaiter ==
    ASSUME NEW p \in PoolType, NEW live
    PROVE  \/ Handed(p, live) = {}
           \/ \E w \in live : Handed(p, live) = {w}
<1>1. p.waiting \in Seq(Requests)
  BY DEF PoolType
<1> QED BY <1>1, NextLiveFinds DEF Handed

\* What a release makes of a pool: the slot stays taken when a waiter gets
\* it, and is given back otherwise.
LEMMA ReleasedKeepsCount ==
    ASSUME NEW p \in PoolType, NEW live, p.active > 0
    PROVE  /\ Released(p, live) \in PoolType
           /\ Released(p, live).active =
                IF Handed(p, live) = {} THEN p.active - 1 ELSE p.active
<1>0. PICK k : k = NextLive(p.waiting, live)
  OBVIOUS
<1>1. p.waiting \in Seq(Requests) /\ p.active \in Nat
  BY DEF PoolType
<1>2. k \in 0 .. Len(p.waiting)
  BY <1>0, <1>1, NextLiveFinds
<1>3. CASE k = 0
  <2>1. Handed(p, live) = {}
    BY <1>0, <1>3 DEF Handed
  <2>2. Released(p, live) = [active |-> p.active - 1, waiting |-> <<>>]
    BY <1>0, <1>1, <1>3 DEF Released
  <2>3. <<>> \in Seq(Requests)
    OBVIOUS
  <2> QED BY <1>1, <2>1, <2>2, <2>3 DEF PoolType
<1>4. CASE k # 0
  <2>1. p.waiting[k] \in live
    BY <1>0, <1>1, <1>4, NextLiveFinds
  <2>2. Handed(p, live) # {}
    BY <1>0, <1>4, <2>1 DEF Handed
  <2>3. SubSeq(p.waiting, k + 1, Len(p.waiting)) \in Seq(Requests)
    BY <1>1, <1>2, SubSeqProperties
  <2>4. Released(p, live) =
          [p EXCEPT !.waiting = SubSeq(p.waiting, k + 1, Len(p.waiting))]
    BY <1>0, <1>4 DEF Released
  <2> QED BY <1>1, <2>2, <2>3, <2>4 DEF PoolType
<1> QED BY <1>3, <1>4

LEMMA PrunedType ==
    ASSUME NEW p \in PoolType, NEW live
    PROVE  Pruned(p, live) \in PoolType /\ Pruned(p, live).active = p.active
<1>0. PICK k : k = NextLive(p.waiting, live)
  OBVIOUS
<1>1. p.waiting \in Seq(Requests) /\ p.active \in Nat
  BY DEF PoolType
<1>2. k \in 0 .. Len(p.waiting)
  BY <1>0, <1>1, NextLiveFinds
<1>3. CASE k = 0
  <2>1. Pruned(p, live) = [p EXCEPT !.waiting = <<>>]
    BY <1>0, <1>3 DEF Pruned
  <2>2. <<>> \in Seq(Requests)
    OBVIOUS
  <2> QED BY <1>1, <2>1, <2>2 DEF PoolType
<1>4. CASE k # 0
  <2>1. SubSeq(p.waiting, k, Len(p.waiting)) \in Seq(Requests)
    BY <1>1, <1>2, <1>4, SubSeqProperties
  <2>2. Pruned(p, live) = [p EXCEPT !.waiting = SubSeq(p.waiting, k, Len(p.waiting))]
    BY <1>0, <1>4 DEF Pruned
  <2> QED BY <1>1, <2>1, <2>2 DEF PoolType
<1> QED BY <1>3, <1>4

LEMMA QueuedType ==
    ASSUME NEW p \in PoolType, NEW r \in Requests
    PROVE  Queued(p, r) \in PoolType /\ Queued(p, r).active = p.active
<1>1. Append(p.waiting, r) \in Seq(Requests)
  BY AppendProperties DEF PoolType
<1>2. Queued(p, r) = [active |-> p.active, waiting |-> Append(p.waiting, r)]
  BY DEF Queued, PoolType
<1> QED BY <1>1, <1>2 DEF PoolType

-----------------------------------------------------------------------------
(***************************************************************************)
(* The invariant.  BudgetsExact needs only the types of what it counts     *)
(* beside it: the pools of the addresses do not matter to it.              *)
(***************************************************************************)
Counters ==
    /\ pc \in [Requests -> PcValues]
    /\ reads \in Nat
    /\ hashes \in PoolType

IInv == Counters /\ BudgetsExact

\* Who holds a slot is a finite set, before and after any step.
LEMMA HoldersFinite ==
    ASSUME NEW p
    PROVE  IsFiniteSet(InPc(p)) /\ IsFiniteSet(InPc(p)')
<1>1. InPc(p) \in SUBSET Requests /\ InPc(p)' \in SUBSET Requests
  BY DEF InPc
<1> QED BY <1>1, FS_Subset, LimitsAssumption

\* A step that leaves both budgets and their holders alone keeps IInv.
LEMMA BudgetsUntouched ==
    ASSUME IInv, pc' \in [Requests -> PcValues], UNCHANGED <<reads, hashes>>,
           InPc("reading")' = InPc("reading"),
           InPc("hashing")' = InPc("hashing")
    PROVE  IInv'
BY DEF IInv, Counters, BudgetsExact

LEMMA ArriveKeeps ==
    ASSUME IInv, NEW r \in Requests, NEW a \in Addresses, Arrive(r, a)
    PROVE  IInv'
<1>1. PICK next \in {"admitted", "waitRead", "shed"} :
         pc' = [pc EXCEPT ![r] = next]
  BY DEF Arrive
<1>2. pc' \in [Requests -> PcValues] /\ pc[r] = "new"
  BY <1>1 DEF IInv, Counters, Arrive, PcValues, Waiting, Refused
<1>3. InPc("reading")' = InPc("reading") /\ InPc("hashing")' = InPc("hashing")
  BY <1>1, <1>2 DEF InPc, IInv, Counters
<1>4. UNCHANGED <<reads, hashes>>
  BY DEF Arrive
<1> QED BY <1>2, <1>3, <1>4, BudgetsUntouched

LEMMA ExpireKeeps ==
    ASSUME IInv, NEW r \in Requests, Expire(r)
    PROVE  IInv'
<1>1. /\ pc[r] \in Waiting
      /\ \E next \in {"expired", "hashBusy"} : pc' = [pc EXCEPT ![r] = next]
      /\ UNCHANGED <<reads, hashes>>
  BY DEF Expire, ReadWaitExpires, HashWaitExpires, Waiting
<1>2. pc' \in [Requests -> PcValues]
  BY <1>1 DEF IInv, Counters, PcValues, Refused
<1>3. InPc("reading")' = InPc("reading") /\ InPc("hashing")' = InPc("hashing")
  BY <1>1 DEF InPc, IInv, Counters, Waiting
<1> QED BY <1>1, <1>2, <1>3, BudgetsUntouched

\* Giving back the slot of an address moves the request on, and admits at
\* most one that waited: no other request changes place.
LEMMA ReleaseAddressMoves ==
    ASSUME IInv, NEW r \in Requests, NEW next \in PcValues,
           ReleaseAddress(r, next)
    PROVE  /\ pc' \in [Requests -> PcValues]
           /\ pc'[r] = next
           /\ \A q \in Requests \ {r} :
                 pc'[q] = pc[q] \/ (pc'[q] = "admitted" /\ pc[q] = "waitRead")
<1>1. pc \in [Requests -> PcValues] /\ "admitted" \in PcValues
  BY DEF IInv, Counters, PcValues
<1>2. CASE ~Mapped(addr[r])
  <2>1. pc' = [pc EXCEPT ![r] = next]
    BY <1>2 DEF ReleaseAddress
  <2> QED BY <1>1, <2>1
<1>3. CASE Mapped(addr[r])
  <2> DEFINE served == Handed(pools[pool[addr[r]]], LiveReads)
  <2>1. pc' = [q \in Requests |-> IF q = r THEN next
                                  ELSE IF q \in served THEN "admitted" ELSE pc[q]]
    BY <1>3 DEF ReleaseAddress
  <2>2. \A q \in served : q \in Requests => pc[q] = "waitRead"
    BY DEF Handed, LiveReads, InPc
  <2> QED BY <1>1, <2>1, <2>2
<1> QED BY <1>2, <1>3

LEMMA StartReadKeeps ==
    ASSUME IInv, NEW r \in Requests, StartRead(r)
    PROVE  IInv'
<1>1. pc \in [Requests -> PcValues] /\ pc[r] = "admitted" /\ reads \in Nat
  BY DEF IInv, Counters, StartRead
<1>2. CASE /\ reads < MaxReads
           /\ reads' = reads + 1
           /\ pc' = [pc EXCEPT ![r] = "reading"]
  <2>1. pc' \in [Requests -> PcValues]
    BY <1>1, <1>2 DEF PcValues
  <2>2. /\ InPc("reading")' = InPc("reading") \cup {r}
        /\ InPc("hashing")' = InPc("hashing")
        /\ r \notin InPc("reading")
    BY <1>1, <1>2 DEF InPc
  <2>3. Cardinality(InPc("reading") \cup {r}) = Cardinality(InPc("reading")) + 1
    BY <2>2, HoldersFinite, FS_AddElement
  <2>4. UNCHANGED hashes
    BY DEF StartRead
  <2>5. Counters'
    BY <1>1, <1>2, <2>1, <2>4 DEF IInv, Counters
  <2>6. reads' = Cardinality(InPc("reading") \cup {r})
    BY <1>2, <2>3 DEF IInv, BudgetsExact
  <2>7. reads' <= MaxReads
    BY <1>1, <1>2, LimitsAssumption
  <2> QED BY <2>2, <2>4, <2>5, <2>6, <2>7 DEF IInv, BudgetsExact
<1>3. CASE UNCHANGED reads /\ ReleaseAddress(r, "noReadSlot")
  <2>1. /\ pc' \in [Requests -> PcValues]
        /\ pc'[r] = "noReadSlot"
        /\ \A q \in Requests \ {r} :
              pc'[q] = pc[q] \/ (pc'[q] = "admitted" /\ pc[q] = "waitRead")
    BY <1>3, ReleaseAddressMoves DEF PcValues, Refused
  <2>2. InPc("reading")' = InPc("reading") /\ InPc("hashing")' = InPc("hashing")
    BY <1>1, <2>1 DEF InPc
  <2>3. UNCHANGED <<reads, hashes>>
    BY <1>3 DEF StartRead
  <2> QED BY <2>1, <2>2, <2>3, BudgetsUntouched
<1> QED BY <1>2, <1>3 DEF StartRead

LEMMA EndReadKeeps ==
    ASSUME IInv, NEW r \in Requests, EndRead(r)
    PROVE  IInv'
<1>1. /\ pc \in [Requests -> PcValues] /\ pc[r] = "reading" /\ reads \in Nat
      /\ reads' = reads - 1 /\ UNCHANGED hashes
  BY DEF IInv, Counters, EndRead
<1>2. PICK next \in {"read", "readFailed"} : ReleaseAddress(r, next)
  BY DEF EndRead
<1>3. /\ pc' \in [Requests -> PcValues]
      /\ pc'[r] = next
      /\ \A q \in Requests \ {r} :
            pc'[q] = pc[q] \/ (pc'[q] = "admitted" /\ pc[q] = "waitRead")
  BY <1>2, ReleaseAddressMoves DEF PcValues, Refused
<1>4. /\ InPc("reading")' = InPc("reading") \ {r}
      /\ InPc("hashing")' = InPc("hashing")
      /\ r \in InPc("reading")
  BY <1>1, <1>3 DEF InPc
<1>5. Cardinality(InPc("reading") \ {r}) = Cardinality(InPc("reading")) - 1
  BY <1>4, HoldersFinite, FS_RemoveElement
<1>6. Cardinality(InPc("reading") \ {r}) \in Nat
  BY HoldersFinite, FS_RemoveElement, FS_CardinalityType
<1>7. reads = Cardinality(InPc("reading"))
      /\ hashes.active = Cardinality(InPc("hashing"))
      /\ reads <= MaxReads /\ hashes.active <= MaxHashes
  BY DEF IInv, BudgetsExact
<1>8. reads' = Cardinality(InPc("reading") \ {r}) /\ reads' \in Nat
  BY <1>1, <1>5, <1>6, <1>7
<1>9. reads' <= MaxReads
  BY <1>1, <1>7, LimitsAssumption
<1>10. BudgetsExact'
  BY <1>1, <1>4, <1>7, <1>8, <1>9 DEF BudgetsExact
<1>11. Counters'
  BY <1>1, <1>3, <1>8 DEF IInv, Counters
<1> QED BY <1>10, <1>11 DEF IInv

LEMMA AskHashKeeps ==
    ASSUME IInv, NEW r \in Requests, AskHash(r)
    PROVE  IInv'
<1>1. /\ pc \in [Requests -> PcValues] /\ pc[r] = "read" /\ UNCHANGED reads
      /\ hashes \in PoolType
  BY DEF IInv, Counters, AskHash
<1>2. CASE /\ HasSlot(hashes, MaxHashes)
           /\ hashes' = Taken(hashes)
           /\ pc' = [pc EXCEPT ![r] = "hashing"]
  <2>1. pc' \in [Requests -> PcValues]
    BY <1>1, <1>2 DEF PcValues
  <2>2. /\ InPc("hashing")' = InPc("hashing") \cup {r}
        /\ InPc("reading")' = InPc("reading")
        /\ r \notin InPc("hashing")
    BY <1>1, <1>2 DEF InPc
  <2>3. Cardinality(InPc("hashing") \cup {r}) = Cardinality(InPc("hashing")) + 1
    BY <2>2, HoldersFinite, FS_AddElement
  <2>4. hashes' \in PoolType /\ hashes'.active = hashes.active + 1
    BY <1>1, <1>2 DEF Taken, PoolType
  <2>5. hashes.active \in Nat /\ hashes.active < MaxHashes /\ MaxHashes \in Nat
    BY <1>1, <1>2, LimitsAssumption DEF HasSlot, PoolType
  <2> QED BY <1>1, <2>1, <2>2, <2>3, <2>4, <2>5 DEF IInv, Counters, BudgetsExact
<1>3. CASE \E next \in {"waitHash", "hashBusy"} :
              /\ pc' = [pc EXCEPT ![r] = next]
              /\ \/ hashes' = Queued(Pruned(hashes, LiveHashes), r)
                 \/ hashes' = Pruned(hashes, LiveHashes)
  <2>1. pc' \in [Requests -> PcValues]
    BY <1>1, <1>3 DEF PcValues, Waiting, Refused
  <2>2. InPc("hashing")' = InPc("hashing") /\ InPc("reading")' = InPc("reading")
    BY <1>1, <1>3 DEF InPc
  <2>3. hashes' \in PoolType /\ hashes'.active = hashes.active
    BY <1>1, <1>3, PrunedType, QueuedType
  <2> QED BY <1>1, <2>1, <2>2, <2>3 DEF IInv, Counters, BudgetsExact
<1> QED BY <1>2, <1>3 DEF AskHash

LEMMA EndHashKeeps ==
    ASSUME IInv, NEW r \in Requests, EndHash(r)
    PROVE  IInv'
<1> DEFINE served == Handed(hashes, LiveHashes)
<1>1. /\ pc \in [Requests -> PcValues] /\ pc[r] = "hashing" /\ UNCHANGED reads
      /\ hashes \in PoolType
      /\ hashes' = Released(hashes, LiveHashes)
      /\ pc' = [q \in Requests |-> IF q = r THEN "verified"
                                   ELSE IF q \in served THEN "hashing" ELSE pc[q]]
  BY DEF IInv, Counters, EndHash
<1>2. r \in InPc("hashing") /\ r \in Requests
  BY <1>1 DEF InPc
<1>3. Cardinality(InPc("hashing")) > 0 /\ Cardinality(InPc("hashing")) \in Nat
  BY <1>2, HoldersFinite, FS_EmptySet, FS_CardinalityType
<1>4. hashes.active > 0
  BY <1>3 DEF IInv, BudgetsExact
<1>5. /\ hashes' \in PoolType
      /\ hashes'.active = IF served = {} THEN hashes.active - 1 ELSE hashes.active
  BY <1>1, <1>4, ReleasedKeepsCount
<1>6. pc' \in [Requests -> PcValues]
  BY <1>1 DEF PcValues
<1>7. \A q \in served : q \in Requests /\ pc[q] = "waitHash"
  BY DEF Handed, LiveHashes, InPc
<1>8. /\ InPc("reading")' = InPc("reading")
      /\ InPc("hashing")' = (InPc("hashing") \ {r}) \cup served
  BY <1>1, <1>7 DEF InPc
<1>9. /\ Cardinality(InPc("hashing") \ {r}) = Cardinality(InPc("hashing")) - 1
      /\ IsFiniteSet(InPc("hashing") \ {r})
  BY <1>2, HoldersFinite, FS_RemoveElement
<1>10. Cardinality(InPc("hashing")') = hashes'.active
  <2>1. CASE served = {}
    BY <1>5, <1>8, <1>9, <2>1 DEF IInv, BudgetsExact
  <2>2. CASE served # {}
    <3>1. PICK w \in LiveHashes : served = {w}
      BY <1>1, <2>2, HandedToOneLiveWaiter
    <3>2. w \notin InPc("hashing") \ {r}
      BY <3>1 DEF LiveHashes, InPc
    <3>3. Cardinality((InPc("hashing") \ {r}) \cup {w}) =
            Cardinality(InPc("hashing") \ {r}) + 1
      BY <1>9, <3>2, FS_AddElement
    <3>4. Cardinality(InPc("hashing")') = Cardinality(InPc("hashing"))
      BY <1>3, <1>8, <1>9, <3>1, <3>3
    <3> QED BY <1>5, <2>2, <3>4 DEF IInv, BudgetsExact
  <2> QED BY <2>1, <2>2
<1>11. hashes'.active <= MaxHashes
  BY <1>1, <1>4, <1>5, LimitsAssumption DEF IInv, BudgetsExact, PoolType
<1> QED BY <1>1, <1>5, <1>6, <1>8, <1>10, <1>11 DEF IInv, Counters, BudgetsExact

LEMMA InitHolds ==
    ASSUME Init
    PROVE  IInv
<1>1. InPc("reading") = {} /\ InPc("hashing") = {}
  BY DEF Init, InPc
<1>2. <<>> \in Seq(Requests)
  OBVIOUS
<1>3. EmptyPool \in PoolType
  BY <1>2 DEF EmptyPool, PoolType
<1>4. pc \in [Requests -> PcValues] /\ reads = 0 /\ hashes = EmptyPool
  BY DEF Init, PcValues
<1>5. Counters
  BY <1>3, <1>4 DEF Counters
<1>6. Cardinality(InPc("reading")) = 0 /\ Cardinality(InPc("hashing")) = 0
  BY <1>1, FS_EmptySet
<1>7. hashes.active = 0
  BY <1>4 DEF EmptyPool
<1>8. BudgetsExact
  BY <1>4, <1>6, <1>7, LimitsAssumption DEF BudgetsExact
<1> QED BY <1>5, <1>8 DEF IInv

LEMMA NextKeeps ==
    ASSUME IInv, [Next]_vars
    PROVE  IInv'
<1>1. ASSUME NEW r \in Requests, Proceed(r) PROVE IInv'
  BY <1>1, StartReadKeeps, EndReadKeeps, AskHashKeeps, EndHashKeeps DEF Proceed
<1>2. CASE UNCHANGED vars
  BY <1>2 DEF vars, IInv, Counters, BudgetsExact, InPc
<1>3. CASE AllAnswered
  BY <1>2, <1>3 DEF AllAnswered
<1> QED BY <1>1, <1>2, <1>3, ArriveKeeps, ExpireKeeps DEF Next

\* However many requests arrive from however many addresses, wait, expire
\* and are refused, the read and hash budgets of the endpoint count exactly
\* the requests that hold them and never exceed their limits.
THEOREM BudgetsStayExact == Spec => []BudgetsExact
<1>1. Init => IInv
  BY InitHolds
<1>2. IInv /\ [Next]_vars => IInv'
  BY NextKeeps
<1>3. IInv => BudgetsExact
  BY DEF IInv
<1> QED BY <1>1, <1>2, <1>3, PTL DEF Spec

-----------------------------------------------------------------------------
(***************************************************************************)
(* The order of the waiters.  A queue may hold waiters that gave up, but   *)
(* the timers of one queue fire in its order, so they are all in front of  *)
(* those that still wait; and while one waits, no slot of its pool is      *)
(* free.  That is what keeps a newcomer from overtaking, and from being    *)
(* shed by a queue of waiters that left.                                   *)
(***************************************************************************)
Queue(p) == {p.waiting[i] : i \in 1 .. Len(p.waiting)}

InOrder(queue, live, cap) ==
    /\ \A i, j \in 1 .. Len(queue) : queue[i] = queue[j] => i = j
    /\ \A i, j \in 1 .. Len(queue) : i < j /\ queue[i] \in live => queue[j] \in live
    /\ \A i \in 1 .. Len(queue) : queue[i] \in live => Len(queue) - i < cap

Line(p, live, limit, cap) ==
    /\ InOrder(p.waiting, live, cap)
    /\ LiveWaiters(p, live) # {} => limit <= p.active

LEMMA LiveWaitersOf ==
    ASSUME NEW p, NEW live
    PROVE  LiveWaiters(p, live) = Queue(p) \cap live
BY DEF LiveWaiters, Queue

\* Only those who are in the queue count as its waiters.
LEMMA SameLine ==
    ASSUME NEW p \in PoolType, NEW live, NEW others, NEW limit, NEW cap,
           Line(p, live, limit, cap), Queue(p) \cap others = Queue(p) \cap live
    PROVE  Line(p, others, limit, cap)
<1>1. \A i \in 1 .. Len(p.waiting) : p.waiting[i] \in others <=> p.waiting[i] \in live
  BY DEF Queue
<1>2. InOrder(p.waiting, others, cap)
  BY <1>1 DEF Line, InOrder
<1> QED BY <1>2, LiveWaitersOf DEF Line

\* The first that still waits gives up.
LEMMA FirstLeaves ==
    ASSUME NEW p \in PoolType, NEW live, NEW limit, NEW cap, Line(p, live, limit, cap),
           NEW r, FirstToExpire(p, live, r)
    PROVE  Line(p, live \ {r}, limit, cap)
<1>1. p.waiting \in Seq(Requests)
  BY DEF PoolType
<1>2. PICK k \in 1 .. Len(p.waiting) :
         /\ p.waiting[k] = r
         /\ \A i \in 1 .. Len(p.waiting) : p.waiting[i] \in live => k <= i
  BY <1>1, NextLiveFinds DEF FirstToExpire
<1>3. Len(p.waiting) \in Nat
  BY <1>1
<1>4. ASSUME NEW i \in 1 .. Len(p.waiting), NEW j \in 1 .. Len(p.waiting),
             i < j, p.waiting[i] \in live \ {r}
      PROVE  p.waiting[j] \in live \ {r}
  <2>1. p.waiting[j] \in live /\ k <= i
    BY <1>2, <1>4 DEF Line, InOrder
  <2>2. j # k
    BY <1>3, <1>4, <2>1
  <2>3. p.waiting[j] # p.waiting[k]
    BY <2>2 DEF Line, InOrder
  <2> QED BY <1>2, <2>1, <2>3
<1>5. InOrder(p.waiting, live \ {r}, cap)
  BY <1>4 DEF Line, InOrder
<1> QED BY <1>5, LiveWaitersOf DEF Line

\* What a queue becomes when its front is cut off.
LEMMA CutInOrder ==
    ASSUME NEW queue \in Seq(Requests), NEW live, NEW cap, InOrder(queue, live, cap),
           NEW k \in 1 .. Len(queue) + 1
    PROVE  LET rest == SubSeq(queue, k, Len(queue))
           IN  /\ rest \in Seq(Requests) /\ Len(rest) = Len(queue) - k + 1
               /\ \A i \in 1 .. Len(rest) : rest[i] = queue[k + i - 1]
               /\ InOrder(rest, live, cap)
<1> DEFINE n    == Len(queue)
           rest == SubSeq(queue, k, n)
<1>1. n \in Nat
  OBVIOUS
<1>2. \A i \in k .. n : queue[i] \in Requests
  BY <1>1
<1>3. /\ rest \in Seq(Requests) /\ Len(rest) = n - k + 1
      /\ \A i \in 1 .. n - k + 1 : rest[i] = queue[k + i - 1]
  BY <1>1, <1>2, SubSeqProperties
<1> HIDE DEF rest
<1>4. \A i \in 1 .. Len(rest) : rest[i] = queue[k + i - 1] /\ k + i - 1 \in 1 .. n
  BY <1>1, <1>3
<1>5. ASSUME NEW i \in 1 .. Len(rest), NEW j \in 1 .. Len(rest)
      PROVE  /\ rest[i] = rest[j] => i = j
             /\ i < j /\ rest[i] \in live => rest[j] \in live
             /\ rest[i] \in live => Len(rest) - i < cap
  <2>1. /\ rest[i] = queue[k + i - 1] /\ k + i - 1 \in 1 .. n
        /\ rest[j] = queue[k + j - 1] /\ k + j - 1 \in 1 .. n
    BY <1>4
  <2>2. /\ queue[k + i - 1] = queue[k + j - 1] => k + i - 1 = k + j - 1
        /\ k + i - 1 < k + j - 1 /\ queue[k + i - 1] \in live => queue[k + j - 1] \in live
        /\ queue[k + i - 1] \in live => n - (k + i - 1) < cap
    BY <2>1 DEF InOrder
  <2>3. i \in Int /\ j \in Int /\ k \in Int /\ n - (k + i - 1) = Len(rest) - i
    BY <1>1, <1>3
  <2> QED BY <1>1, <2>1, <2>2, <2>3
<1>6. InOrder(rest, live, cap)
  BY <1>5 DEF InOrder
<1> QED BY <1>3, <1>6 DEF rest

\* Forgetting the waiters that gave up leaves a queue of those that wait,
\* never longer than the cap.
LEMMA PrunedLine ==
    ASSUME NEW p \in PoolType, NEW live, NEW limit, NEW cap \in Nat,
           Line(p, live, limit, cap)
    PROVE  LET z == Pruned(p, live)
           IN  /\ z \in PoolType /\ z.active = p.active
               /\ Queue(z) = LiveWaiters(p, live)
               /\ Len(z.waiting) <= cap
               /\ Line(z, live, limit, cap)
<1> DEFINE z == Pruned(p, live)
           n == Len(p.waiting)
<1>0. PICK k : k = NextLive(p.waiting, live)
  OBVIOUS
<1>1. p.waiting \in Seq(Requests) /\ n \in Nat
  BY DEF PoolType
<1>2. /\ k \in 0 .. n
      /\ k # 0 => p.waiting[k] \in live
      /\ \A i \in 1 .. n : p.waiting[i] \in live => k # 0 /\ k <= i
  BY <1>0, <1>1, NextLiveFinds
<1>3. z \in PoolType /\ z.active = p.active
  BY PrunedType
<1>4. InOrder(p.waiting, live, cap)
  BY DEF Line
<1>5. CASE k = 0
  <2>1. z.waiting = <<>>
    BY <1>0, <1>5 DEF Pruned, PoolType
  <2>2. Queue(z) = {} /\ LiveWaiters(p, live) = {} /\ LiveWaiters(z, live) = {}
    BY <1>2, <1>5, <2>1 DEF Queue, LiveWaiters
  <2>3. Len(z.waiting) = 0 /\ InOrder(z.waiting, live, cap)
    BY <2>1 DEF InOrder
  <2> QED BY <1>3, <2>2, <2>3 DEF Line
<1>6. CASE k # 0
  <2>1. z.waiting = SubSeq(p.waiting, k, n)
    BY <1>0, <1>6 DEF Pruned, PoolType
  <2>2. /\ Len(z.waiting) = n - k + 1
        /\ \A i \in 1 .. Len(z.waiting) : z.waiting[i] = p.waiting[k + i - 1]
        /\ InOrder(z.waiting, live, cap)
    BY <1>1, <1>2, <1>4, <1>6, <2>1, CutInOrder
  <2>3. \A j \in k .. n : p.waiting[j] \in live
    BY <1>1, <1>2, <1>4, <1>6 DEF InOrder
  <2>4. ASSUME NEW q \in Queue(z) PROVE q \in LiveWaiters(p, live)
    <3>1. PICK i \in 1 .. Len(z.waiting) : q = z.waiting[i]
      BY DEF Queue
    <3>2. q = p.waiting[k + i - 1] /\ k + i - 1 \in k .. n /\ k + i - 1 \in 1 .. n
      BY <1>1, <1>2, <1>6, <2>2, <3>1
    <3> QED BY <2>3, <3>2 DEF LiveWaiters
  <2>5. ASSUME NEW q \in LiveWaiters(p, live) PROVE q \in Queue(z)
    <3>1. PICK j \in 1 .. n : q = p.waiting[j] /\ q \in live
      BY DEF LiveWaiters
    <3>2. j - k + 1 \in 1 .. Len(z.waiting) /\ k + (j - k + 1) - 1 = j
      BY <1>1, <1>2, <1>6, <2>2, <3>1
    <3>3. z.waiting[j - k + 1] = q
      BY <2>2, <3>1, <3>2
    <3> QED BY <3>2, <3>3 DEF Queue
  <2>6. Queue(z) = LiveWaiters(p, live)
    BY <2>4, <2>5
  <2>7. n - k < cap
    BY <1>1, <1>2, <1>4, <1>6 DEF InOrder
  <2>8. Len(z.waiting) <= cap
    BY <1>1, <1>2, <2>2, <2>7
  <2>9. LiveWaiters(z, live) # {} => limit <= z.active
    BY <1>3, <2>6, LiveWaitersOf DEF Line
  <2> QED BY <1>3, <2>2, <2>6, <2>8, <2>9 DEF Line
<1> QED BY <1>5, <1>6

\* A newcomer queues behind all those that wait.
LEMMA QueuedLine ==
    ASSUME NEW z \in PoolType, NEW live, NEW limit, NEW cap \in Nat,
           Line(z, live, limit, cap), Queue(z) \subseteq live,
           Len(z.waiting) < cap, limit <= z.active,
           NEW r \in Requests, r \notin Queue(z)
    PROVE  /\ Queued(z, r) \in PoolType
           /\ Queue(Queued(z, r)) = Queue(z) \cup {r}
           /\ Line(Queued(z, r), live \cup {r}, limit, cap)
<1> DEFINE n == Len(z.waiting)
           w == Queued(z, r).waiting
<1>1. z.waiting \in Seq(Requests) /\ n \in Nat
  BY DEF PoolType
<1>2. Queued(z, r) \in PoolType /\ Queued(z, r).active = z.active
  BY QueuedType
<1>3. w = Append(z.waiting, r)
  BY DEF Queued, PoolType
<1>4. Len(w) = n + 1 /\ w[n + 1] = r /\ \A i \in 1 .. n : w[i] = z.waiting[i]
  BY <1>1, <1>3, AppendProperties
<1> HIDE DEF w
<1>5. \A i \in 1 .. Len(w) : i = n + 1 \/ i \in 1 .. n
  BY <1>1, <1>4
<1>6. Queue(Queued(z, r)) = Queue(z) \cup {r}
  <2>1. ASSUME NEW q \in Queue(Queued(z, r)) PROVE q \in Queue(z) \cup {r}
    <3>1. PICK i \in 1 .. Len(w) : q = w[i]
      BY DEF Queue, w
    <3> QED BY <1>4, <1>5, <3>1 DEF Queue
  <2>2. ASSUME NEW i \in 1 .. n PROVE z.waiting[i] \in Queue(Queued(z, r))
    <3>1. i \in 1 .. Len(w) /\ w[i] = z.waiting[i]
      BY <1>1, <1>4
    <3> QED BY <3>1 DEF Queue, w
  <2>3. n + 1 \in 1 .. Len(w)
    BY <1>1, <1>4
  <2>4. r \in Queue(Queued(z, r))
    BY <1>4, <2>3 DEF Queue, w
  <2> QED BY <2>1, <2>2, <2>4 DEF Queue
<1>7. \A i \in 1 .. n : z.waiting[i] # r /\ z.waiting[i] \in live
  BY DEF Queue
<1>8. \A i, j \in 1 .. n : z.waiting[i] = z.waiting[j] => i = j
  BY DEF Line, InOrder
<1>9. InOrder(w, live \cup {r}, cap)
  <2>1. \A i, j \in 1 .. Len(w) : w[i] = w[j] => i = j
    BY <1>4, <1>5, <1>7, <1>8
  <2>2. \A j \in 1 .. Len(w) : w[j] \in live \cup {r}
    BY <1>4, <1>5, <1>7
  <2>3. \A i \in 1 .. Len(w) : Len(w) - i < cap
    BY <1>1, <1>4
  <2> QED BY <2>1, <2>2, <2>3 DEF InOrder
<1> QED BY <1>2, <1>6, <1>9 DEF Line, w

\* A release passes over those that gave up and takes the first that waits
\* out of the line.
LEMMA ReleasedLine ==
    ASSUME NEW p \in PoolType, NEW live, NEW limit, NEW cap \in Nat,
           Line(p, live, limit, cap)
    PROVE  LET z      == Released(p, live)
               served == Handed(p, live)
           IN  /\ z \in PoolType
               /\ Queue(z) \subseteq Queue(p)
               /\ Queue(z) \cap live = LiveWaiters(p, live) \ served
               /\ Line(z, live, limit, cap)
<1> DEFINE z == Released(p, live)
           n == Len(p.waiting)
<1>0. PICK k : k = NextLive(p.waiting, live)
  OBVIOUS
<1>1. p.waiting \in Seq(Requests) /\ n \in Nat /\ p.active \in Nat
  BY DEF PoolType
<1>2. /\ k \in 0 .. n
      /\ k # 0 => p.waiting[k] \in live
      /\ \A i \in 1 .. n : p.waiting[i] \in live => k # 0 /\ k <= i
  BY <1>0, <1>1, NextLiveFinds
<1>4. InOrder(p.waiting, live, cap)
  BY DEF Line
<1>5. CASE k = 0
  <2>1. z = [active  |-> IF p.active > 0 THEN p.active - 1 ELSE 0, waiting |-> <<>>]
    BY <1>0, <1>5 DEF Released
  <2>2. z.waiting = <<>> /\ z \in PoolType
    <3>1. <<>> \in Seq(Requests)
      OBVIOUS
    <3>2. (IF p.active > 0 THEN p.active - 1 ELSE 0) \in Nat
      BY <1>1
    <3> QED BY <2>1, <3>1, <3>2 DEF PoolType
  <2>3. Queue(z) = {} /\ LiveWaiters(p, live) = {} /\ LiveWaiters(z, live) = {}
    BY <1>2, <1>5, <2>2 DEF Queue, LiveWaiters
  <2>4. InOrder(z.waiting, live, cap)
    BY <2>2 DEF InOrder
  <2> QED BY <2>2, <2>3, <2>4 DEF Line
<1>6. CASE k # 0
  <2>0. z = [p EXCEPT !.waiting = SubSeq(p.waiting, k + 1, n)]
    BY <1>0, <1>6 DEF Released
  <2>1. z.waiting = SubSeq(p.waiting, k + 1, n) /\ z.active = p.active
    BY <2>0 DEF PoolType
  <2>a. k + 1 \in 1 .. n + 1
    BY <1>1, <1>2
  <2>2. /\ z.waiting \in Seq(Requests)
        /\ Len(z.waiting) = n - (k + 1) + 1
        /\ \A i \in 1 .. Len(z.waiting) : z.waiting[i] = p.waiting[(k + 1) + i - 1]
        /\ InOrder(z.waiting, live, cap)
    BY <1>1, <1>4, <2>1, <2>a, CutInOrder
  <2>b. /\ Len(z.waiting) = n - k
        /\ \A i \in 1 .. Len(z.waiting) : z.waiting[i] = p.waiting[k + i] /\ k + i \in 1 .. n
    BY <1>1, <1>2, <2>2, SMTT(30)
  <2>3. z \in PoolType
    BY <1>1, <2>0, <2>1, <2>2 DEF PoolType
  <2>4. Queue(z) \subseteq Queue(p)
    BY <2>b DEF Queue
  <2>5. Handed(p, live) = {p.waiting[k]}
    BY <1>0, <1>2, <1>6 DEF Handed
  <2>6. p.waiting[k] \notin Queue(z)
    <3>1. ASSUME NEW i \in 1 .. Len(z.waiting), z.waiting[i] = p.waiting[k] PROVE FALSE
      <4>1. k + i = k
        BY <1>2, <1>4, <1>6, <2>b, <3>1 DEF InOrder
      <4> QED BY <1>1, <1>2, <2>b, <4>1
    <3> QED BY <3>1 DEF Queue
  <2>7. ASSUME NEW q \in LiveWaiters(p, live), q # p.waiting[k] PROVE q \in Queue(z)
    <3>1. PICK j \in 1 .. n : q = p.waiting[j] /\ q \in live
      BY DEF LiveWaiters
    <3>2. k <= j /\ k # j
      BY <1>2, <2>7, <3>1
    <3>3. j - k \in 1 .. Len(z.waiting) /\ k + (j - k) = j
      BY <1>1, <1>2, <2>b, <3>1, <3>2
    <3>4. z.waiting[j - k] = q
      BY <2>b, <3>1, <3>3
    <3> QED BY <3>3, <3>4 DEF Queue
  <2>8. Queue(z) \cap live = LiveWaiters(p, live) \ Handed(p, live)
    BY <2>4, <2>5, <2>6, <2>7, LiveWaitersOf
  <2>9. LiveWaiters(z, live) # {} => limit <= z.active
    BY <2>1, <2>8, LiveWaitersOf DEF Line
  <2> QED BY <2>2, <2>3, <2>4, <2>8, <2>9 DEF Line
<1> QED BY <1>5, <1>6

\* Nobody is twice in a line, so its length counts who is in it.
LEMMA LineCounts ==
    ASSUME NEW p \in PoolType, NEW live, NEW limit, NEW cap, Line(p, live, limit, cap)
    PROVE  Cardinality(Queue(p)) = Len(p.waiting)
<1> DEFINE n == Len(p.waiting)
           f == [i \in 1 .. n |-> p.waiting[i]]
<1>1. n \in Nat
  BY DEF PoolType
<1>2. f \in [1 .. n -> Queue(p)] /\ \A q \in Queue(p) : \E i \in 1 .. n : f[i] = q
  BY DEF Queue
<1>3. \A i, j \in 1 .. n : f[i] = f[j] => i = j
  BY DEF Line, InOrder
<1> HIDE DEF f
<1>4. f \in Bijection(1 .. n, Queue(p))
  BY <1>2, <1>3 DEF Bijection, Injection, Surjection, IsInjective
<1>5. ExistsBijection(1 .. n, Queue(p))
  BY <1>4 DEF ExistsBijection
<1> QED BY <1>1, <1>5, FS_CountingElements

-----------------------------------------------------------------------------
(***************************************************************************)
(* The lines of the addresses.  A pool the map forgot keeps its line: its  *)
(* waiters still name it, and nobody waits in two of them.                 *)
(***************************************************************************)
Placed ==
    /\ pc \in [Requests -> PcValues]
    /\ addr \in [Requests -> Addresses \cup {NoAddr}]
    /\ held \in [Requests -> PoolIds \cup {NoPool}]
    /\ pools \in [PoolIds -> PoolType]
    /\ pool \in [Addresses -> PoolIds \cup {NoPool}]
    /\ hashes \in PoolType
    /\ \A r \in Requests : pc[r] # "new" => addr[r] \in Addresses

EachInItsLine ==
    \A p \in PoolIds : Line(pools[p], LiveReads, PerAddress, ReadWaiters)

QueuedWhereHeld ==
    \A p \in PoolIds : \A q \in Queue(pools[p]) :
        /\ pc[q] # "new"
        /\ q \in LiveReads => held[q] = p

WaitersQueue ==
    \A q \in LiveReads : held[q] \in PoolIds /\ q \in Queue(pools[held[q]])

ReadersInLine == EachInItsLine /\ QueuedWhereHeld /\ WaitersQueue

\* The line to hash.  Who left it for a slot or for its deadline never asks
\* again.
Asked == {"waitHash", "hashing", "hashBusy", "verified"}

HashersInLine ==
    /\ Line(hashes, LiveHashes, MaxHashes, HashWaiters)
    /\ \A q \in Queue(hashes) : pc[q] \in Asked
    /\ LiveHashes \subseteq Queue(hashes)

LineInv == Placed /\ ReadersInLine /\ HashersInLine

LEMMA QueueType ==
    ASSUME NEW p \in PoolType
    PROVE  Queue(p) \subseteq Requests
BY DEF PoolType, Queue

\* A step that leaves every line of the addresses as it was, and nobody
\* enters or leaves the wait for a read.
LEMMA ReadersStay ==
    ASSUME LineInv, UNCHANGED <<held, pools>>, LiveReads' = LiveReads,
           \A q \in Requests : pc'[q] = "new" => pc[q] = "new"
    PROVE  ReadersInLine'
<1>1. EachInItsLine'
  BY DEF LineInv, ReadersInLine, EachInItsLine
<1>2. \A p \in PoolIds : Queue(pools[p]) \subseteq Requests
  BY QueueType DEF LineInv, Placed
<1>3. QueuedWhereHeld'
  BY <1>2 DEF LineInv, ReadersInLine, QueuedWhereHeld
<1>4. WaitersQueue'
  BY DEF LineInv, ReadersInLine, WaitersQueue
<1> QED BY <1>1, <1>3, <1>4 DEF ReadersInLine

\* A step that leaves the line to hash as it was.
LEMMA HashersStay ==
    ASSUME LineInv, UNCHANGED hashes, LiveHashes' = LiveHashes,
           \A q \in Requests : pc[q] \in Asked => pc'[q] = pc[q]
    PROVE  HashersInLine'
<1>1. Queue(hashes) \subseteq Requests
  BY QueueType DEF LineInv, Placed
<1> QED BY <1>1 DEF LineInv, HashersInLine

\* A step at one pool object: its line changes, and of those who wait for a
\* read only its own waiters come or go.
LEMMA OnePoolMoves ==
    ASSUME LineInv, NEW p \in PoolIds, NEW z \in PoolType,
           pools' = [pools EXCEPT ![p] = z],
           Line(z, LiveReads', PerAddress, ReadWaiters),
           \A q \in Requests : pc'[q] = "new" => pc[q] = "new",
           \A q \in Queue(z) : pc'[q] # "new",
           \A q \in Queue(z) : q \in LiveReads' => held'[q] = p,
           \A q \in LiveReads' :
              IF q \in LiveReads /\ held[q] # p
              THEN held'[q] = held[q]
              ELSE held'[q] = p /\ q \in Queue(z),
           \A q \in LiveReads : held[q] # p => q \in LiveReads',
           \A q \in LiveReads' : q \in LiveReads \/ pc[q] = "new"
    PROVE  ReadersInLine'
<1>1. pools \in [PoolIds -> PoolType] /\ pools'[p] = z
  BY DEF LineInv, Placed
<1>2. \A o \in PoolIds \ {p} : pools'[o] = pools[o] /\ Queue(pools[o]) \subseteq Requests
  BY <1>1, QueueType
<1>3. ASSUME NEW o \in PoolIds, o # p
      PROVE  /\ Queue(pools[o]) \cap LiveReads' = Queue(pools[o]) \cap LiveReads
             /\ Line(pools[o], LiveReads', PerAddress, ReadWaiters)
             /\ \A q \in Queue(pools[o]) :
                   pc'[q] # "new" /\ (q \in LiveReads' => held'[q] = o)
  <2>1. ASSUME NEW q \in Queue(pools[o])
        PROVE  /\ q \in Requests /\ pc[q] # "new" /\ pc'[q] # "new"
               /\ q \in LiveReads => held[q] = o
               /\ q \in LiveReads <=> q \in LiveReads'
    BY <1>2, <1>3 DEF LineInv, ReadersInLine, QueuedWhereHeld
  <2>2. Queue(pools[o]) \cap LiveReads' = Queue(pools[o]) \cap LiveReads
    BY <2>1
  <2>3. Line(pools[o], LiveReads, PerAddress, ReadWaiters) /\ pools[o] \in PoolType
    BY <1>1 DEF LineInv, ReadersInLine, EachInItsLine
  <2>4. Line(pools[o], LiveReads', PerAddress, ReadWaiters)
    BY <2>2, <2>3, SameLine
  <2>5. ASSUME NEW q \in Queue(pools[o]), q \in LiveReads' PROVE held'[q] = o
    <3>1. q \in LiveReads /\ held[q] = o
      BY <2>1, <2>5
    <3> QED BY <1>3, <2>5, <3>1
  <2> QED BY <2>1, <2>2, <2>4, <2>5
<1>4. EachInItsLine'
  BY <1>1, <1>2, <1>3 DEF EachInItsLine
<1>5. QueuedWhereHeld'
  BY <1>1, <1>2, <1>3 DEF QueuedWhereHeld
<1>6. ASSUME NEW q \in LiveReads' PROVE held'[q] \in PoolIds /\ q \in Queue(pools'[held'[q]])
  <2>1. CASE q \in LiveReads /\ held[q] # p
    BY <1>2, <1>6, <2>1 DEF LineInv, ReadersInLine, WaitersQueue
  <2>2. CASE ~ (q \in LiveReads /\ held[q] # p)
    BY <1>1, <1>6, <2>2
  <2> QED BY <2>1, <2>2
<1>7. WaitersQueue'
  BY <1>6 DEF WaitersQueue
<1> QED BY <1>4, <1>5, <1>7 DEF ReadersInLine

\* Who waits for a read, and where, when one step moves one request.
LEMMA ArriveInLine ==
    ASSUME LineInv, NEW r \in Requests, NEW a \in Addresses, Arrive(r, a)
    PROVE  ReadersInLine'
<1> DEFINE found == Lookup(r, a)
           p     == found.id
           q0    == pools[p]
<1>1. /\ pc \in [Requests -> PcValues] /\ held \in [Requests -> PoolIds \cup {NoPool}]
      /\ pools \in [PoolIds -> PoolType] /\ pc[r] = "new"
  BY DEF LineInv, Placed, Arrive
<1>2. p \in PoolIds
  BY DEF Lookup, Mapped, LineInv, Placed, PoolIds
<1>3. q0 \in PoolType /\ Line(q0, LiveReads, PerAddress, ReadWaiters)
  BY <1>1, <1>2 DEF LineInv, ReadersInLine, EachInItsLine
<1>4. \A q \in Queue(q0) :
         q \in Requests /\ pc[q] # "new" /\ (q \in LiveReads => held[q] = p)
  BY <1>2, <1>3, QueueType DEF LineInv, ReadersInLine, QueuedWhereHeld
<1>5. \A q \in LiveReads : held[q] = p => q \in LiveWaiters(q0, LiveReads)
  BY <1>2, LiveWaitersOf DEF LineInv, ReadersInLine, WaitersQueue
<1>6. r \notin LiveReads /\ LiveReads \subseteq Requests /\ LiveReads' \subseteq Requests
  BY <1>1 DEF LiveReads, InPc
<1> HIDE DEF found
<1>7. CASE /\ HasSlot(q0, PerAddress)
           /\ pc' = [pc EXCEPT ![r] = "admitted"]
           /\ pools' = [pools EXCEPT ![p] = Taken(q0)]
           /\ UNCHANGED held
  <2>1. LiveReads' = LiveReads
    BY <1>1, <1>7 DEF LiveReads, InPc
  <2>2. Taken(q0) \in PoolType /\ Taken(q0).waiting = q0.waiting
        /\ Taken(q0).active = q0.active + 1 /\ q0.active \in Nat
    BY <1>3 DEF Taken, PoolType
  <2>3. LiveWaiters(q0, LiveReads) = {}
    BY <1>3, <1>7, LimitsAssumption, <2>2 DEF Line, HasSlot
  <2>4. Queue(Taken(q0)) = Queue(q0) /\ LiveWaiters(Taken(q0), LiveReads) = {}
    BY <2>2, <2>3 DEF Queue, LiveWaiters
  <2>5. Line(Taken(q0), LiveReads', PerAddress, ReadWaiters)
    BY <1>3, <2>1, <2>2, <2>4 DEF Line
  <2>6. \A q \in LiveReads : held[q] # p
    BY <1>5, <2>3
  <2> DEFINE z == Taken(q0)
  <2>7. z \in PoolType /\ pools' = [pools EXCEPT ![p] = z]
    BY <1>7, <2>2
  <2>8. \A q \in Requests : pc'[q] = "new" => pc[q] = "new"
    BY <1>1, <1>7
  <2>9. \A q \in Queue(z) : pc'[q] # "new" /\ (q \in LiveReads' => held'[q] = p)
    BY <1>4, <1>7, <2>1, <2>4, <2>8
  <2>10. \A q \in LiveReads' : IF q \in LiveReads /\ held[q] # p
                               THEN held'[q] = held[q]
                               ELSE held'[q] = p /\ q \in Queue(z)
    BY <1>7, <2>1, <2>6
  <2>11. Line(z, LiveReads', PerAddress, ReadWaiters)
    BY <2>5
  <2> HIDE DEF z, q0, p
  <2> QED BY <1>2, <2>1, <2>11, <2>7, <2>8, <2>9, <2>10, OnePoolMoves
<1>8. CASE /\ ~HasSlot(q0, PerAddress)
           /\ QueueLength(q0, LiveReads) < ReadWaiters
           /\ pc' = [pc EXCEPT ![r] = "waitRead"]
           /\ held' = [held EXCEPT ![r] = p]
           /\ pools' = [pools EXCEPT ![p] = Queued(Pruned(q0, LiveReads), r)]
  <2> DEFINE z == Pruned(q0, LiveReads)
  <2>1. LiveReads' = LiveReads \cup {r}
    BY <1>1, <1>8 DEF LiveReads, InPc
  <2>2. /\ z \in PoolType /\ z.active = q0.active
        /\ Queue(z) = LiveWaiters(q0, LiveReads)
        /\ Line(z, LiveReads, PerAddress, ReadWaiters)
    BY <1>3, PrunedLine, LimitsAssumption
  <2>3. Queue(z) \subseteq LiveReads /\ Queue(z) \subseteq Queue(q0)
    BY <2>2, LiveWaitersOf
  <2>4. PerAddress <= z.active
    BY <1>3, <1>8, <2>2, LimitsAssumption DEF HasSlot, PoolType
  <2>5. Len(z.waiting) < ReadWaiters
    BY <1>8 DEF QueueLength
  <2> HIDE DEF z
  <2>6. /\ Queued(z, r) \in PoolType
        /\ Queue(Queued(z, r)) = Queue(z) \cup {r}
        /\ Line(Queued(z, r), LiveReads \cup {r}, PerAddress, ReadWaiters)
    BY <1>6, <2>2, <2>3, <2>4, <2>5, QueuedLine, LimitsAssumption
  <2>7. \A q \in Requests : q # r => pc'[q] = pc[q] /\ held'[q] = held[q]
    BY <1>1, <1>8
  <2>8. pc'[r] = "waitRead" /\ held'[r] = p
    BY <1>1, <1>2, <1>8
  <2>9. \A q \in Queue(Queued(z, r)) :
           pc'[q] # "new" /\ (q \in LiveReads' => held'[q] = p)
    BY <1>4, <2>1, <2>3, <2>6, <2>7, <2>8
  <2>10. \A q \in LiveReads' : IF q \in LiveReads /\ held[q] # p
                               THEN held'[q] = held[q]
                               ELSE held'[q] = p /\ q \in Queue(Queued(z, r))
    BY <1>5, <1>6, <2>1, <2>2, <2>6, <2>7, <2>8
  <2>11. pools' = [pools EXCEPT ![p] = Queued(z, r)]
    BY <1>8 DEF z
  <2>12. Line(Queued(z, r), LiveReads', PerAddress, ReadWaiters)
    BY <2>1, <2>6
  <2>13. \A q \in Requests : pc'[q] = "new" => pc[q] = "new"
    BY <2>7, <2>8
  <2>14. /\ \A q \in LiveReads : held[q] # p => q \in LiveReads'
         /\ \A q \in LiveReads' : q \in LiveReads \/ pc[q] = "new"
    BY <1>1, <2>1
  <2> DEFINE y == Queued(z, r)
  <2>15. /\ y \in PoolType /\ pools' = [pools EXCEPT ![p] = y]
         /\ Line(y, LiveReads', PerAddress, ReadWaiters)
         /\ \A q \in Queue(y) : pc'[q] # "new" /\ (q \in LiveReads' => held'[q] = p)
         /\ \A q \in LiveReads' : IF q \in LiveReads /\ held[q] # p
                                  THEN held'[q] = held[q]
                                  ELSE held'[q] = p /\ q \in Queue(y)
    BY <2>6, <2>9, <2>10, <2>11, <2>12
  <2> HIDE DEF y, q0, p
  <2> QED BY <1>2, <2>13, <2>14, <2>15, OnePoolMoves
<1>9. CASE /\ pc' = [pc EXCEPT ![r] = "shed"]
           /\ pools' = [pools EXCEPT ![p] = Pruned(q0, LiveReads)]
           /\ UNCHANGED held
  <2> DEFINE z == Pruned(q0, LiveReads)
  <2>1. LiveReads' = LiveReads
    BY <1>1, <1>9 DEF LiveReads, InPc
  <2>2. /\ z \in PoolType
        /\ Queue(z) = LiveWaiters(q0, LiveReads)
        /\ Line(z, LiveReads, PerAddress, ReadWaiters)
    BY <1>3, PrunedLine, LimitsAssumption
  <2>3. Queue(z) \subseteq Queue(q0)
    BY <2>2, LiveWaitersOf
  <2>4. pools' = [pools EXCEPT ![p] = z]
    BY <1>9
  <2> HIDE DEF z
  <2>5. \A q \in Requests : pc'[q] = "new" => pc[q] = "new"
    BY <1>1, <1>9
  <2>6. \A q \in Queue(z) : pc'[q] # "new" /\ (q \in LiveReads' => held'[q] = p)
    BY <1>4, <1>9, <2>1, <2>3, <2>5
  <2>7. \A q \in LiveReads' : IF q \in LiveReads /\ held[q] # p
                               THEN held'[q] = held[q]
                               ELSE held'[q] = p /\ q \in Queue(z)
    BY <1>5, <1>9, <2>1, <2>2
  <2>8. Line(z, LiveReads', PerAddress, ReadWaiters)
    BY <2>1, <2>2
  <2> HIDE DEF q0, p
  <2> QED BY <1>2, <2>1, <2>2, <2>4, <2>5, <2>6, <2>7, <2>8, OnePoolMoves
<1> QED BY <1>7, <1>8, <1>9 DEF Arrive, found

LEMMA ReadWaitInLine ==
    ASSUME LineInv, NEW r \in Requests, ReadWaitExpires(r)
    PROVE  ReadersInLine'
<1> DEFINE p == held[r]
<1>1. /\ pc \in [Requests -> PcValues] /\ held \in [Requests -> PoolIds \cup {NoPool}]
      /\ pools \in [PoolIds -> PoolType]
      /\ pc[r] = "waitRead" /\ r \in LiveReads
  BY DEF LineInv, Placed, ReadWaitExpires, LiveReads, InPc
<1>2. p \in PoolIds
  BY <1>1 DEF LineInv, ReadersInLine, WaitersQueue
<1>3. /\ pc' = [pc EXCEPT ![r] = "expired"]
      /\ held' = [held EXCEPT ![r] = NoPool]
      /\ UNCHANGED pools
  BY DEF ReadWaitExpires
<1>4. LiveReads' = LiveReads \ {r}
  BY <1>1, <1>3 DEF LiveReads, InPc
<1>5. pools[p] \in PoolType /\ Line(pools[p], LiveReads, PerAddress, ReadWaiters)
  BY <1>1, <1>2 DEF LineInv, ReadersInLine, EachInItsLine
<1>6. Line(pools[p], LiveReads', PerAddress, ReadWaiters)
  BY <1>4, <1>5, FirstLeaves DEF ReadWaitExpires
<1>7. pools' = [pools EXCEPT ![p] = pools[p]]
  BY <1>1, <1>3
<1>8. \A q \in Queue(pools[p]) : q \in Requests /\ pc[q] # "new"
                                 /\ (q \in LiveReads => held[q] = p)
  BY <1>2, <1>5, QueueType DEF LineInv, ReadersInLine, QueuedWhereHeld
<1>9. \A q \in LiveReads : held[q] = p => q \in Queue(pools[p])
  BY <1>2 DEF LineInv, ReadersInLine, WaitersQueue
<1>10. \A q \in Requests : /\ pc'[q] = "new" => pc[q] = "new"
                           /\ q # r => held'[q] = held[q]
  BY <1>1, <1>3
<1>11. LiveReads \subseteq Requests
  BY DEF LiveReads, InPc
<1> QED BY <1>2, <1>4, <1>5, <1>6, <1>7, <1>8, <1>9, <1>10, <1>11, OnePoolMoves

LEMMA ReleaseInLine ==
    ASSUME LineInv, NEW r \in Requests, pc[r] \in {"admitted", "reading"},
           NEW next \in {"noReadSlot", "read", "readFailed"}, ReleaseAddress(r, next)
    PROVE  ReadersInLine'
<1> DEFINE a == addr[r]
           p == pool[a]
           served == Handed(pools[p], LiveReads)
           z == Released(pools[p], LiveReads)
<1>1. /\ pc \in [Requests -> PcValues] /\ held \in [Requests -> PoolIds \cup {NoPool}]
      /\ pools \in [PoolIds -> PoolType] /\ a \in Addresses
      /\ pool \in [Addresses -> PoolIds \cup {NoPool}]
  BY DEF LineInv, Placed
<1>2. CASE ~Mapped(a)
  <2>1. pc' = [pc EXCEPT ![r] = next] /\ UNCHANGED <<held, pools>>
    BY <1>2 DEF ReleaseAddress
  <2>2. LiveReads' = LiveReads /\ \A q \in Requests : pc'[q] = "new" => pc[q] = "new"
    BY <1>1, <2>1 DEF LiveReads, InPc
  <2> QED BY <2>1, <2>2, ReadersStay
<1>3. CASE Mapped(a)
  <2>1. /\ pc' = [q \in Requests |-> IF q = r THEN next
                                     ELSE IF q \in served THEN "admitted" ELSE pc[q]]
        /\ held' = [q \in Requests |-> IF q \in served THEN NoPool ELSE held[q]]
        /\ pools' = [pools EXCEPT ![p] = z]
    BY <1>3 DEF ReleaseAddress
  <2>2. p \in PoolIds
    BY <1>1, <1>3 DEF Mapped
  <2>3. pools[p] \in PoolType /\ Line(pools[p], LiveReads, PerAddress, ReadWaiters)
    BY <1>1, <2>2 DEF LineInv, ReadersInLine, EachInItsLine
  <2>4. /\ z \in PoolType /\ Queue(z) \subseteq Queue(pools[p])
        /\ Queue(z) \cap LiveReads = LiveWaiters(pools[p], LiveReads) \ served
        /\ Line(z, LiveReads, PerAddress, ReadWaiters)
    BY <2>3, ReleasedLine, LimitsAssumption
  <2>5. served \subseteq LiveReads /\ LiveReads \subseteq Requests /\ r \notin LiveReads
    BY DEF Handed, LiveReads, InPc
  <2>6. served \subseteq LiveWaiters(pools[p], LiveReads)
    <3>1. pools[p].waiting \in Seq(Requests)
      BY <2>3 DEF PoolType
    <3>2. NextLive(pools[p].waiting, LiveReads) \in 0 .. Len(pools[p].waiting)
      BY <3>1, NextLiveFinds
    <3> QED BY <3>1, <3>2 DEF Handed, LiveWaiters
  <2> HIDE DEF served, z
  <2>7. LiveReads' = LiveReads \ served
    BY <1>1, <2>1, <2>5 DEF LiveReads, InPc
  <2>8. Line(z, LiveReads', PerAddress, ReadWaiters)
    BY <2>4, <2>7, SameLine
  <2>9. \A q \in Queue(pools[p]) : q \in Requests /\ pc[q] # "new"
                                   /\ (q \in LiveReads => held[q] = p)
    BY <2>2, <2>3, QueueType DEF LineInv, ReadersInLine, QueuedWhereHeld
  <2>10. \A q \in LiveReads : held[q] = p => q \in LiveWaiters(pools[p], LiveReads)
    BY <2>2, LiveWaitersOf DEF LineInv, ReadersInLine, WaitersQueue
  <2>11. \A q \in Requests : /\ pc'[q] = "new" => pc[q] = "new"
                             /\ q \notin served => held'[q] = held[q]
    BY <1>1, <2>1
  <2>12. \A q \in served : held[q] = p
    BY <2>5, <2>6, <2>9, LiveWaitersOf
  <2>13. \A q \in Queue(z) : pc'[q] # "new" /\ (q \in LiveReads' => held'[q] = p)
    BY <2>4, <2>7, <2>9, <2>11
  <2>14. \A q \in LiveReads' : IF q \in LiveReads /\ held[q] # p
                               THEN held'[q] = held[q]
                               ELSE held'[q] = p /\ q \in Queue(z)
    BY <2>4, <2>5, <2>7, <2>10, <2>11
  <2>15. \A q \in LiveReads : held[q] # p => q \in LiveReads'
    BY <2>7, <2>12
  <2>16. z \in PoolType /\ pools' = [pools EXCEPT ![p] = z]
    BY <2>1, <2>4 DEF z, served
  <2>17. \A q \in LiveReads' : q \in LiveReads
    BY <2>7
  <2> HIDE DEF p
  <2> QED BY <2>2, <2>8, <2>11, <2>13, <2>14, <2>15, <2>16, <2>17, OnePoolMoves
<1> QED BY <1>2, <1>3

LEMMA AskHashInLine ==
    ASSUME LineInv, NEW r \in Requests, AskHash(r)
    PROVE  HashersInLine'
<1>1. /\ pc \in [Requests -> PcValues] /\ hashes \in PoolType /\ pc[r] = "read"
  BY DEF LineInv, Placed, AskHash
<1>2. /\ Line(hashes, LiveHashes, MaxHashes, HashWaiters)
      /\ \A q \in Queue(hashes) : q \in Requests /\ pc[q] \in Asked
      /\ LiveHashes \subseteq Queue(hashes)
  BY <1>1, QueueType DEF LineInv, HashersInLine
<1>3. r \notin Queue(hashes) /\ r \notin LiveHashes
  BY <1>1, <1>2 DEF Asked
<1>4. CASE /\ HasSlot(hashes, MaxHashes)
           /\ hashes' = Taken(hashes)
           /\ pc' = [pc EXCEPT ![r] = "hashing"]
  <2>1. LiveHashes' = LiveHashes
    BY <1>1, <1>4 DEF LiveHashes, InPc
  <2>2. /\ hashes'.waiting = hashes.waiting /\ hashes'.active = hashes.active + 1
        /\ hashes.active \in Nat
    BY <1>1, <1>4 DEF Taken, PoolType
  <2>3. LiveWaiters(hashes, LiveHashes) = {}
    BY <1>2, <1>4, <2>2, LimitsAssumption DEF Line, HasSlot
  <2>4. Queue(hashes)' = Queue(hashes) /\ LiveWaiters(hashes', LiveHashes) = {}
    BY <2>2, <2>3 DEF Queue, LiveWaiters
  <2>5. Line(hashes', LiveHashes', MaxHashes, HashWaiters)
    BY <1>2, <2>1, <2>2, <2>4 DEF Line
  <2>6. \A q \in Queue(hashes') : pc'[q] \in Asked
    BY <1>1, <1>2, <1>4, <2>4 DEF Asked
  <2> QED BY <1>2, <2>1, <2>4, <2>5, <2>6 DEF HashersInLine
<1> DEFINE z == Pruned(hashes, LiveHashes)
<1>5. /\ z \in PoolType /\ z.active = hashes.active
      /\ Queue(z) = LiveWaiters(hashes, LiveHashes)
      /\ Line(z, LiveHashes, MaxHashes, HashWaiters)
  BY <1>1, <1>2, PrunedLine, LimitsAssumption
<1>6. Queue(z) = LiveHashes
  BY <1>2, <1>5, LiveWaitersOf
<1>7. CASE /\ ~HasSlot(hashes, MaxHashes)
           /\ QueueLength(hashes, LiveHashes) < HashWaiters
           /\ hashes' = Queued(z, r)
           /\ pc' = [pc EXCEPT ![r] = "waitHash"]
  <2>1. LiveHashes' = LiveHashes \cup {r}
    BY <1>1, <1>7 DEF LiveHashes, InPc
  <2>2. MaxHashes <= z.active
    BY <1>1, <1>5, <1>7, LimitsAssumption DEF HasSlot, PoolType
  <2>3. Len(z.waiting) < HashWaiters
    BY <1>7 DEF QueueLength
  <2> HIDE DEF z
  <2>4. /\ Queue(Queued(z, r)) = Queue(z) \cup {r}
        /\ Line(Queued(z, r), LiveHashes \cup {r}, MaxHashes, HashWaiters)
    BY <1>3, <1>5, <1>6, <2>2, <2>3, QueuedLine, LimitsAssumption
  <2>5. \A q \in Queue(hashes') : pc'[q] \in Asked
    BY <1>1, <1>2, <1>6, <1>7, <2>4 DEF Asked
  <2> QED BY <1>6, <1>7, <2>1, <2>4, <2>5 DEF HashersInLine
<1>8. CASE /\ hashes' = z
           /\ pc' = [pc EXCEPT ![r] = "hashBusy"]
  <2>1. LiveHashes' = LiveHashes
    BY <1>1, <1>8 DEF LiveHashes, InPc
  <2> HIDE DEF z
  <2>2. \A q \in Queue(hashes') : pc'[q] \in Asked
    BY <1>1, <1>2, <1>6, <1>8 DEF Asked
  <2> QED BY <1>5, <1>6, <1>8, <2>1, <2>2 DEF HashersInLine
<1> QED BY <1>4, <1>7, <1>8 DEF AskHash

LEMMA HashWaitInLine ==
    ASSUME LineInv, NEW r \in Requests, HashWaitExpires(r)
    PROVE  HashersInLine'
<1>1. /\ pc \in [Requests -> PcValues] /\ hashes \in PoolType /\ pc[r] = "waitHash"
      /\ pc' = [pc EXCEPT ![r] = "hashBusy"] /\ UNCHANGED hashes
  BY DEF LineInv, Placed, HashWaitExpires
<1>2. LiveHashes' = LiveHashes \ {r}
  BY <1>1 DEF LiveHashes, InPc
<1>3. Line(hashes, LiveHashes', MaxHashes, HashWaiters)
  BY <1>1, <1>2, FirstLeaves DEF LineInv, HashersInLine, HashWaitExpires
<1>4. \A q \in Queue(hashes) : q \in Requests /\ pc'[q] \in Asked
  BY <1>1, QueueType DEF LineInv, HashersInLine, Asked
<1> QED BY <1>1, <1>2, <1>3, <1>4 DEF LineInv, HashersInLine

LEMMA EndHashInLine ==
    ASSUME LineInv, NEW r \in Requests, EndHash(r)
    PROVE  HashersInLine'
<1> DEFINE served == Handed(hashes, LiveHashes)
           z == Released(hashes, LiveHashes)
<1>1. /\ pc \in [Requests -> PcValues] /\ hashes \in PoolType /\ pc[r] = "hashing"
      /\ hashes' = z
      /\ pc' = [q \in Requests |-> IF q = r THEN "verified"
                                   ELSE IF q \in served THEN "hashing" ELSE pc[q]]
  BY DEF LineInv, Placed, EndHash
<1>2. /\ Line(hashes, LiveHashes, MaxHashes, HashWaiters)
      /\ \A q \in Queue(hashes) : q \in Requests /\ pc[q] \in Asked
      /\ LiveHashes \subseteq Queue(hashes)
  BY <1>1, QueueType DEF LineInv, HashersInLine
<1>3. /\ Queue(z) \subseteq Queue(hashes)
      /\ Queue(z) \cap LiveHashes = LiveWaiters(hashes, LiveHashes) \ served
      /\ Line(z, LiveHashes, MaxHashes, HashWaiters) /\ z \in PoolType
  BY <1>1, <1>2, ReleasedLine, LimitsAssumption
<1>4. served \subseteq LiveHashes /\ r \notin LiveHashes /\ LiveHashes \subseteq Requests
  BY <1>1 DEF Handed, LiveHashes, InPc
<1> HIDE DEF served, z
<1>5. LiveHashes' = LiveHashes \ served
  BY <1>1, <1>4 DEF LiveHashes, InPc
<1>6. LiveWaiters(hashes, LiveHashes) = LiveHashes
  BY <1>2, LiveWaitersOf
<1>7. Line(z, LiveHashes', MaxHashes, HashWaiters)
  BY <1>3, <1>5, <1>6, SameLine
<1>8. \A q \in Queue(z) : pc'[q] \in Asked
  BY <1>1, <1>2, <1>3 DEF Asked
<1> QED BY <1>1, <1>3, <1>5, <1>6, <1>7, <1>8 DEF HashersInLine

-----------------------------------------------------------------------------
(* Every step keeps the lines. *)

LEMMA LookupType ==
    ASSUME Placed, NEW r \in Requests, NEW a \in Addresses
    PROVE  /\ Lookup(r, a).id \in PoolIds
           /\ Lookup(r, a).pool \in [Addresses -> PoolIds \cup {NoPool}]
           /\ Lookup(r, a).pool[a] = Lookup(r, a).id
<1>1. CASE Mapped(a)
  BY <1>1 DEF Lookup, Placed, Mapped, PoolIds
<1>2. CASE ~Mapped(a)
  BY <1>2 DEF Lookup, Placed, PoolIds
<1> QED BY <1>1, <1>2

LEMMA ReleasedType ==
    ASSUME NEW p \in PoolType, NEW live
    PROVE  Released(p, live) \in PoolType
<1>0. PICK k : k = NextLive(p.waiting, live)
  OBVIOUS
<1>1. p.waiting \in Seq(Requests) /\ p.active \in Nat /\ k \in 0 .. Len(p.waiting)
  BY <1>0, NextLiveFinds DEF PoolType
<1>2. CASE k = 0
  <2>1. <<>> \in Seq(Requests) /\ (IF p.active > 0 THEN p.active - 1 ELSE 0) \in Nat
    BY <1>1
  <2> QED BY <1>0, <1>2, <2>1 DEF Released, PoolType
<1>3. CASE k # 0
  <2>1. SubSeq(p.waiting, k + 1, Len(p.waiting)) \in Seq(Requests)
    BY <1>1, SubSeqProperties
  <2> QED BY <1>0, <1>3, <2>1 DEF Released, PoolType
<1> QED BY <1>2, <1>3

LEMMA DroppedType ==
    ASSUME Placed, NEW a, NEW p, NEW live, DroppedIfIdle(a, p, live)
    PROVE  pool' \in [Addresses -> PoolIds \cup {NoPool}]
BY DEF Placed, DroppedIfIdle

LEMMA ReleaseTypes ==
    ASSUME Placed, NEW r \in Requests, pc[r] \in {"admitted", "reading"},
           NEW next \in {"noReadSlot", "read", "readFailed"}, ReleaseAddress(r, next),
           UNCHANGED <<addr, hashes>>
    PROVE  /\ Placed'
           /\ pc'[r] = next
           /\ \A q \in Requests \ {r} :
                 pc'[q] = pc[q] \/ (pc'[q] = "admitted" /\ pc[q] = "waitRead")
<1> DEFINE a == addr[r]
           p == pools[pool[a]]
           served == Handed(p, LiveReads)
<1>1. /\ pc \in [Requests -> PcValues] /\ next \in PcValues /\ "admitted" \in PcValues
      /\ a \in Addresses /\ addr' = addr /\ hashes' = hashes
  BY DEF Placed, PcValues, Refused
<1>2. CASE ~Mapped(a)
  <2>1. pc' = [pc EXCEPT ![r] = next] /\ UNCHANGED <<held, pools, pool>>
    BY <1>2 DEF ReleaseAddress
  <2> QED BY <1>1, <2>1 DEF Placed
<1>3. CASE Mapped(a)
  <2>1. /\ pc' = [q \in Requests |-> IF q = r THEN next
                                     ELSE IF q \in served THEN "admitted" ELSE pc[q]]
        /\ held' = [q \in Requests |-> IF q \in served THEN NoPool ELSE held[q]]
        /\ pools' = [pools EXCEPT ![pool[a]] = Released(p, LiveReads)]
        /\ DroppedIfIdle(a, Released(p, LiveReads), LiveReads \ served)
    BY <1>3 DEF ReleaseAddress
  <2>2. p \in PoolType
    BY <1>1, <1>3 DEF Placed, Mapped
  <2>3. pools' \in [PoolIds -> PoolType]
    BY <2>1, <2>2, ReleasedType DEF Placed
  <2>4. pool' \in [Addresses -> PoolIds \cup {NoPool}]
    BY <2>1, DroppedType
  <2>5. \A q \in served : q \in Requests /\ pc[q] = "waitRead"
    BY DEF Handed, LiveReads, InPc
  <2> HIDE DEF served
  <2>6. pc' \in [Requests -> PcValues] /\ held' \in [Requests -> PoolIds \cup {NoPool}]
    BY <1>1, <2>1 DEF Placed
  <2>7. pc'[r] = next
    BY <2>1
  <2>8. \A q \in Requests \ {r} :
           pc'[q] = pc[q] \/ (pc'[q] = "admitted" /\ pc[q] = "waitRead")
    BY <2>1, <2>5
  <2>9. \A q \in Requests : pc'[q] # "new" => pc[q] # "new"
    BY <2>8
  <2> QED BY <1>1, <2>3, <2>4, <2>6, <2>7, <2>8, <2>9 DEF Placed
<1> QED BY <1>2, <1>3

\* A step is one request's: besides it, only somebody who waits can move.
OnlyMoves(r) == \A q \in Requests \ {r} : pc'[q] = pc[q] \/ pc[q] \in Waiting

LEMMA ArriveKeepsLines ==
    ASSUME LineInv, NEW r \in Requests, NEW a \in Addresses, Arrive(r, a)
    PROVE  LineInv' /\ OnlyMoves(r)
<1> DEFINE found == Lookup(r, a)
           p == pools[found.id]
<1>1. /\ Placed /\ pc \in [Requests -> PcValues] /\ pc[r] = "new"
      /\ addr' = [addr EXCEPT ![r] = a] /\ UNCHANGED hashes
      /\ pool' = found.pool
  BY DEF LineInv, Placed, Arrive
<1>2. /\ found.id \in PoolIds /\ p \in PoolType
      /\ found.pool \in [Addresses -> PoolIds \cup {NoPool}]
  BY <1>1, LookupType DEF Placed
<1>3. PICK next \in {"admitted", "waitRead", "shed"} : pc' = [pc EXCEPT ![r] = next]
  BY DEF Arrive
<1>4. PICK z \in PoolType : pools' = [pools EXCEPT ![found.id] = z]
  <2>1. Taken(p) \in PoolType
    BY <1>2 DEF Taken, PoolType
  <2>2. Pruned(p, LiveReads) \in PoolType
    BY <1>2, PrunedType
  <2>3. Queued(Pruned(p, LiveReads), r) \in PoolType
    BY <2>2, QueuedType
  <2> QED BY <2>1, <2>2, <2>3 DEF Arrive
<1>5. held' = held \/ held' = [held EXCEPT ![r] = found.id]
  BY DEF Arrive
<1> HIDE DEF found
<1>6. next \in PcValues
  BY DEF PcValues, Waiting, Refused
<1>7. Placed'
  <2>1. pc' \in [Requests -> PcValues] /\ pools' \in [PoolIds -> PoolType]
    BY <1>1, <1>3, <1>4, <1>6 DEF Placed
  <2>2. held' \in [Requests -> PoolIds \cup {NoPool}]
    BY <1>1, <1>2, <1>5 DEF Placed
  <2>3. addr' \in [Requests -> Addresses \cup {NoAddr}]
        /\ \A q \in Requests : pc'[q] # "new" => addr'[q] \in Addresses
    BY <1>1, <1>3 DEF Placed
  <2> QED BY <1>1, <1>2, <2>1, <2>2, <2>3 DEF Placed
<1>8. LiveHashes' = LiveHashes /\ \A q \in Requests : pc[q] \in Asked => pc'[q] = pc[q]
  BY <1>1, <1>3 DEF LiveHashes, InPc, Asked
<1>9. HashersInLine'
  BY <1>1, <1>8, HashersStay
<1>10. OnlyMoves(r)
  BY <1>1, <1>3 DEF OnlyMoves
<1> QED BY <1>7, <1>9, <1>10, ArriveInLine DEF LineInv

LEMMA ExpireKeepsLines ==
    ASSUME LineInv, NEW r \in Requests, Expire(r)
    PROVE  LineInv' /\ OnlyMoves(r)
<1>1. pc \in [Requests -> PcValues]
  BY DEF LineInv, Placed
<1>2. CASE ReadWaitExpires(r)
  <2>1. /\ pc[r] = "waitRead" /\ pc' = [pc EXCEPT ![r] = "expired"]
        /\ held' = [held EXCEPT ![r] = NoPool]
        /\ UNCHANGED <<addr, pools, hashes>>
        /\ DroppedIfIdle(addr[r], pools[held[r]], LiveReads \ {r})
    BY <1>2 DEF ReadWaitExpires
  <2>2. pool' \in [Addresses -> PoolIds \cup {NoPool}]
    BY <2>1, DroppedType DEF LineInv
  <2>3. Placed'
    BY <2>1, <2>2 DEF LineInv, Placed, PcValues, Refused
  <2>4. LiveHashes' = LiveHashes /\ \A q \in Requests : pc[q] \in Asked => pc'[q] = pc[q]
    BY <1>1, <2>1 DEF LiveHashes, InPc, Asked
  <2>5. HashersInLine'
    BY <2>1, <2>4, HashersStay
  <2>6. OnlyMoves(r)
    BY <1>1, <2>1 DEF OnlyMoves
  <2> QED BY <1>2, <2>3, <2>5, <2>6, ReadWaitInLine DEF LineInv
<1>3. CASE HashWaitExpires(r)
  <2>1. /\ pc[r] = "waitHash" /\ pc' = [pc EXCEPT ![r] = "hashBusy"]
        /\ UNCHANGED <<addr, held, pools, pool, hashes>>
    BY <1>3 DEF HashWaitExpires
  <2>2. Placed'
    BY <2>1 DEF LineInv, Placed, PcValues, Refused
  <2>3. LiveReads' = LiveReads /\ \A q \in Requests : pc'[q] = "new" => pc[q] = "new"
    BY <1>1, <2>1 DEF LiveReads, InPc
  <2>4. ReadersInLine'
    BY <2>1, <2>3, ReadersStay
  <2>5. OnlyMoves(r)
    BY <1>1, <2>1 DEF OnlyMoves
  <2> QED BY <1>3, <2>2, <2>4, <2>5, HashWaitInLine DEF LineInv
<1> QED BY <1>2, <1>3 DEF Expire

LEMMA ReadKeepsLines ==
    ASSUME LineInv, NEW r \in Requests, StartRead(r) \/ EndRead(r)
    PROVE  LineInv' /\ OnlyMoves(r)
<1>1. /\ pc \in [Requests -> PcValues] /\ pc[r] \in {"admitted", "reading"}
      /\ UNCHANGED <<addr, hashes>>
  BY DEF LineInv, Placed, StartRead, EndRead
<1>2. CASE /\ pc' = [pc EXCEPT ![r] = "reading"]
           /\ UNCHANGED <<held, pools, keys, pool>>
  <2>1. Placed'
    BY <1>1, <1>2 DEF LineInv, Placed, PcValues
  <2>2. /\ LiveReads' = LiveReads /\ LiveHashes' = LiveHashes
        /\ \A q \in Requests : pc'[q] = "new" => pc[q] = "new"
        /\ \A q \in Requests : pc[q] \in Asked => pc'[q] = pc[q]
    BY <1>1, <1>2 DEF LiveReads, LiveHashes, InPc, Asked
  <2>3. ReadersInLine' /\ HashersInLine'
    BY <1>1, <1>2, <2>2, ReadersStay, HashersStay
  <2> QED BY <1>1, <1>2, <2>1, <2>3 DEF LineInv, OnlyMoves
<1>3. CASE \E next \in {"noReadSlot", "read", "readFailed"} : ReleaseAddress(r, next)
  <2>1. PICK next \in {"noReadSlot", "read", "readFailed"} : ReleaseAddress(r, next)
    BY <1>3
  <2>2. /\ Placed' /\ pc'[r] = next
        /\ \A q \in Requests \ {r} :
              pc'[q] = pc[q] \/ (pc'[q] = "admitted" /\ pc[q] = "waitRead")
    BY <1>1, <2>1, ReleaseTypes DEF LineInv
  <2>3. LiveHashes' = LiveHashes /\ \A q \in Requests : pc[q] \in Asked => pc'[q] = pc[q]
    BY <1>1, <2>2 DEF LiveHashes, InPc, Asked
  <2>4. HashersInLine'
    BY <1>1, <2>3, HashersStay
  <2>5. ReadersInLine'
    BY <1>1, <2>1, ReleaseInLine
  <2>6. OnlyMoves(r)
    BY <2>2 DEF OnlyMoves, Waiting
  <2> QED BY <2>2, <2>4, <2>5, <2>6 DEF LineInv
<1> QED BY <1>2, <1>3 DEF StartRead, EndRead

LEMMA HashKeepsLines ==
    ASSUME LineInv, NEW r \in Requests, AskHash(r) \/ EndHash(r)
    PROVE  LineInv' /\ OnlyMoves(r)
<1>1. /\ pc \in [Requests -> PcValues] /\ hashes \in PoolType
      /\ pc[r] \in {"read", "hashing"} /\ UNCHANGED <<addr, held, pools, pool>>
  BY DEF LineInv, Placed, AskHash, EndHash
<1>2. CASE AskHash(r)
  <2>1. PICK next \in {"hashing", "waitHash", "hashBusy"} : pc' = [pc EXCEPT ![r] = next]
    BY <1>2 DEF AskHash
  <2>2. hashes' \in PoolType
    <3>1. Taken(hashes) \in PoolType
      BY <1>1 DEF Taken, PoolType
    <3>2. Pruned(hashes, LiveHashes) \in PoolType
      BY <1>1, PrunedType
    <3>3. Queued(Pruned(hashes, LiveHashes), r) \in PoolType
      BY <3>2, QueuedType
    <3> QED BY <1>2, <3>1, <3>2, <3>3 DEF AskHash
  <2>3. Placed'
    BY <1>1, <2>1, <2>2 DEF LineInv, Placed, PcValues, Waiting, Refused
  <2>4. LiveReads' = LiveReads /\ \A q \in Requests : pc'[q] = "new" => pc[q] = "new"
    BY <1>1, <2>1 DEF LiveReads, InPc
  <2>5. ReadersInLine'
    BY <1>1, <2>4, ReadersStay
  <2>6. OnlyMoves(r)
    BY <1>1, <2>1 DEF OnlyMoves
  <2> QED BY <1>2, <2>3, <2>5, <2>6, AskHashInLine DEF LineInv
<1>3. CASE EndHash(r)
  <2> DEFINE served == Handed(hashes, LiveHashes)
  <2>1. /\ pc' = [q \in Requests |-> IF q = r THEN "verified"
                                     ELSE IF q \in served THEN "hashing" ELSE pc[q]]
        /\ hashes' = Released(hashes, LiveHashes)
    BY <1>3 DEF EndHash
  <2>2. hashes' \in PoolType
    BY <1>1, <2>1, ReleasedType
  <2>3. \A q \in served : q \in Requests /\ pc[q] = "waitHash"
    BY DEF Handed, LiveHashes, InPc
  <2> HIDE DEF served
  <2>4. \A q \in Requests : pc'[q] = "new" => pc[q] = "new"
    BY <2>1
  <2>5. pc' \in [Requests -> PcValues]
    BY <1>1, <2>1 DEF PcValues
  <2>6. Placed'
    <3>1. \A q \in Requests : pc'[q] # "new" => addr'[q] \in Addresses
      <4>1. \A q \in Requests : pc[q] # "new" => addr[q] \in Addresses
        BY DEF LineInv, Placed
      <4>2. \A q \in Requests : pc[q] = "new" => pc'[q] = "new"
        BY <1>1, <1>3, <2>1, <2>3 DEF EndHash
      <4> QED BY <1>1, <4>1, <4>2
    <3> QED BY <1>1, <2>2, <2>5, <3>1 DEF LineInv, Placed
  <2>7. LiveReads' = LiveReads
    BY <1>1, <2>1, <2>3 DEF LiveReads, InPc
  <2>8. ReadersInLine'
    BY <1>1, <2>4, <2>7, ReadersStay
  <2>9. OnlyMoves(r)
    BY <1>1, <2>1, <2>3 DEF OnlyMoves, Waiting
  <2> QED BY <1>3, <2>6, <2>8, <2>9, EndHashInLine DEF LineInv
<1> QED BY <1>2, <1>3

LEMMA LinesAtStart ==
    ASSUME Init
    PROVE  LineInv
<1>1. EmptyPool \in PoolType /\ EmptyPool.waiting = <<>>
  <2>1. <<>> \in Seq(Requests)
    OBVIOUS
  <2> QED BY <2>1 DEF EmptyPool, PoolType
<1>2. LiveReads = {} /\ LiveHashes = {}
  BY DEF Init, LiveReads, LiveHashes, InPc
<1>3. ASSUME NEW limit, NEW cap PROVE Line(EmptyPool, {}, limit, cap)
  BY <1>1 DEF Line, InOrder, LiveWaiters
<1>4. Queue(EmptyPool) = {}
  BY <1>1 DEF Queue
<1>5. Placed
  BY <1>1 DEF Init, Placed, PcValues
<1>6. ReadersInLine
  BY <1>2, <1>3, <1>4
     DEF Init, ReadersInLine, EachInItsLine, QueuedWhereHeld, WaitersQueue
<1>7. HashersInLine
  BY <1>2, <1>3, <1>4 DEF Init, HashersInLine
<1> QED BY <1>5, <1>6, <1>7 DEF LineInv

LEMMA LinesKept ==
    ASSUME LineInv, [Next]_vars
    PROVE  LineInv'
<1>1. ASSUME NEW r \in Requests, Proceed(r) PROVE LineInv'
  BY <1>1, ReadKeepsLines, HashKeepsLines DEF Proceed
<1>2. CASE UNCHANGED vars
  <2>1. LiveReads' = LiveReads /\ LiveHashes' = LiveHashes
    BY <1>2 DEF vars, LiveReads, LiveHashes, InPc
  <2>2. ReadersInLine' /\ HashersInLine'
    BY <1>2, <2>1, ReadersStay, HashersStay DEF vars
  <2> QED BY <1>2, <2>2 DEF vars, LineInv, Placed
<1>3. CASE AllAnswered
  BY <1>2, <1>3 DEF AllAnswered
<1> QED BY <1>1, <1>2, <1>3, ArriveKeepsLines, ExpireKeepsLines DEF Next

LEMMA LinesHold == Spec => []LineInv
BY LinesAtStart, LinesKept, PTL DEF Spec

\* Who arrives, and who asks to hash, does so in its own step.
LEMMA InItsOwnStep ==
    ASSUME LineInv, Next, NEW r \in Requests
    PROVE  /\ (pc[r] = "new" /\ pc'[r] # "new") => \E a \in Addresses : Arrive(r, a)
           /\ (pc[r] = "read" /\ pc'[r] # "read") => AskHash(r)
<1>1. ASSUME NEW q \in Requests, NEW a \in Addresses, Arrive(q, a)
      PROVE  OnlyMoves(q) /\ pc[q] = "new"
  BY <1>1, ArriveKeepsLines DEF Arrive
<1>2. ASSUME NEW q \in Requests, Proceed(q)
      PROVE  OnlyMoves(q) /\ pc[q] # "new" /\ (pc[q] = "read" => AskHash(q))
  BY <1>2, ReadKeepsLines, HashKeepsLines
     DEF Proceed, StartRead, EndRead, AskHash, EndHash
<1>3. ASSUME NEW q \in Requests, Expire(q)
      PROVE  OnlyMoves(q) /\ pc[q] # "new" /\ pc[q] # "read"
  BY <1>3, ExpireKeepsLines DEF Expire, ReadWaitExpires, HashWaitExpires
<1>4. pc[r] \in {"new", "read"} => pc[r] \notin Waiting
  BY DEF Waiting
<1>5. CASE \E q \in Requests : \E a \in Addresses : Arrive(q, a)
  BY <1>1, <1>4, <1>5 DEF OnlyMoves
<1>6. CASE \E q \in Requests : Proceed(q)
  BY <1>2, <1>4, <1>6 DEF OnlyMoves
<1>7. CASE \E q \in Requests : Expire(q)
  BY <1>3, <1>4, <1>7 DEF OnlyMoves
<1>8. CASE AllAnswered
  BY <1>8 DEF AllAnswered, vars
<1> QED BY <1>5, <1>6, <1>7, <1>8 DEF Next

\* Whatever the requests, the addresses and the limits, and however the map
\* of pools evicts and forgets: a request that has just arrived never takes
\* the slot of one that waits in the same pool, nor a body read that of one
\* that waits to be hashed.
THEOREM NewcomersWait == Spec => NoOvertaking
<1>1. ASSUME LineInv, Next
      PROVE  \A r \in Requests :
                /\ (pc[r] = "new" /\ pc'[r] = "admitted")
                     => \A q \in LiveReads : held[q] # pool'[addr'[r]]
                /\ (pc[r] = "read" /\ pc'[r] = "hashing") => LiveHashes = {}
  <2> SUFFICES ASSUME NEW r \in Requests
               PROVE  /\ (pc[r] = "new" /\ pc'[r] = "admitted")
                           => \A q \in LiveReads : held[q] # pool'[addr'[r]]
                      /\ (pc[r] = "read" /\ pc'[r] = "hashing") => LiveHashes = {}
    OBVIOUS
  <2>1. ASSUME pc[r] = "new", pc'[r] = "admitted"
        PROVE  \A q \in LiveReads : held[q] # pool'[addr'[r]]
    <3>1. PICK a \in Addresses : Arrive(r, a)
      BY <1>1, <2>1, InItsOwnStep
    <3> DEFINE found == Lookup(r, a)
               p == pools[found.id]
    <3>2. found.id \in PoolIds /\ pool'[addr'[r]] = found.id
      <4>1. addr'[r] = a
        BY <1>1, <3>1 DEF Arrive, LineInv, Placed
      <4> QED BY <1>1, <3>1, <4>1, LookupType DEF Arrive, LineInv
    <3>3. HasSlot(p, PerAddress)
      BY <1>1, <2>1, <3>1 DEF Arrive, LineInv, Placed
    <3>4. p \in PoolType /\ Line(p, LiveReads, PerAddress, ReadWaiters)
      BY <1>1, <3>2 DEF LineInv, Placed, ReadersInLine, EachInItsLine
    <3>5. LiveWaiters(p, LiveReads) = {}
      BY <3>3, <3>4, LimitsAssumption DEF Line, HasSlot, PoolType
    <3>6. Queue(p) \cap LiveReads = {}
      BY <3>5, LiveWaitersOf
    <3>7. \A q \in LiveReads : held[q] # found.id
      BY <1>1, <3>6 DEF LineInv, ReadersInLine, WaitersQueue
    <3> QED BY <3>2, <3>7
  <2>2. ASSUME pc[r] = "read", pc'[r] = "hashing"
        PROVE  LiveHashes = {}
    <3>1. AskHash(r)
      BY <1>1, <2>2, InItsOwnStep
    <3>2. HasSlot(hashes, MaxHashes)
      BY <1>1, <2>2, <3>1 DEF AskHash, LineInv, Placed
    <3>3. LiveWaiters(hashes, LiveHashes) = {}
      BY <1>1, <3>2, LimitsAssumption
         DEF LineInv, Placed, HashersInLine, Line, HasSlot, PoolType
    <3> QED BY <1>1, <3>3, LiveWaitersOf DEF LineInv, HashersInLine
  <2> QED BY <2>1, <2>2
<1>2. ASSUME LineInv, [Next]_vars
      PROVE  [\A r \in Requests :
                /\ (pc[r] = "new" /\ pc'[r] = "admitted")
                     => \A q \in LiveReads : held[q] # pool'[addr'[r]]
                /\ (pc[r] = "read" /\ pc'[r] = "hashing") => LiveHashes = {}]_vars
  BY <1>1, <1>2
<1> QED BY <1>2, LinesHold, PTL DEF Spec, NoOvertaking

\* A request is refused at once only by a full line of requests that still
\* wait: those that gave up and are still queued take nobody's place, in
\* any pool and with any cap.
THEOREM ShedsWhenFull == Spec => ShedOnlyWhenFull
<1>0. ASSUME NEW p \in PoolType, NEW live, NEW limit, NEW cap \in Nat,
             Line(p, live, limit, cap), QueueLength(p, live) >= cap
      PROVE  Cardinality(LiveWaiters(p, live)) = cap
  <2> DEFINE z == Pruned(p, live)
  <2>1. /\ z \in PoolType /\ Queue(z) = LiveWaiters(p, live)
        /\ Len(z.waiting) <= cap /\ Line(z, live, limit, cap)
    BY <1>0, PrunedLine
  <2>2. Len(z.waiting) >= cap
    BY <1>0 DEF QueueLength
  <2> HIDE DEF z
  <2>3. Len(z.waiting) \in Nat
    BY <2>1 DEF PoolType
  <2>4. Len(z.waiting) = cap
    BY <2>1, <2>2, <2>3
  <2> QED BY <2>1, <2>4, LineCounts
<1>1. ASSUME LineInv, Next, NEW r \in Requests
      PROVE  /\ (pc[r] = "new" /\ pc'[r] = "shed")
                  => Cardinality(LiveWaiters(pools[pool'[addr'[r]]], LiveReads))
                         = ReadWaiters
             /\ (pc[r] = "read" /\ pc'[r] = "hashBusy")
                  => Cardinality(LiveHashes) = HashWaiters
  <2>1. ASSUME pc[r] = "new", pc'[r] = "shed"
        PROVE  Cardinality(LiveWaiters(pools[pool'[addr'[r]]], LiveReads)) = ReadWaiters
    <3>1. PICK a \in Addresses : Arrive(r, a)
      BY <1>1, <2>1, InItsOwnStep
    <3> DEFINE found == Lookup(r, a)
               p == pools[found.id]
    <3>2. found.id \in PoolIds /\ pool'[addr'[r]] = found.id
      <4>1. addr'[r] = a
        BY <1>1, <3>1 DEF Arrive, LineInv, Placed
      <4> QED BY <1>1, <3>1, <4>1, LookupType DEF Arrive, LineInv
    <3>3. QueueLength(p, LiveReads) >= ReadWaiters
      BY <1>1, <2>1, <3>1 DEF Arrive, LineInv, Placed
    <3>4. p \in PoolType /\ Line(p, LiveReads, PerAddress, ReadWaiters)
      BY <1>1, <3>2 DEF LineInv, Placed, ReadersInLine, EachInItsLine
    <3> HIDE DEF found
    <3> QED BY <1>0, <3>2, <3>3, <3>4, LimitsAssumption
  <2>2. ASSUME pc[r] = "read", pc'[r] = "hashBusy"
        PROVE  Cardinality(LiveHashes) = HashWaiters
    <3>1. AskHash(r)
      BY <1>1, <2>2, InItsOwnStep
    <3>2. QueueLength(hashes, LiveHashes) >= HashWaiters
      BY <1>1, <2>2, <3>1 DEF AskHash, LineInv, Placed
    <3>3. hashes \in PoolType /\ Line(hashes, LiveHashes, MaxHashes, HashWaiters)
      BY <1>1 DEF LineInv, Placed, HashersInLine
    <3>4. Cardinality(LiveWaiters(hashes, LiveHashes)) = HashWaiters
      BY <1>0, <3>2, <3>3, LimitsAssumption
    <3>5. LiveWaiters(hashes, LiveHashes) = LiveHashes
      BY <1>1, LiveWaitersOf DEF LineInv, HashersInLine
    <3> QED BY <3>4, <3>5
  <2> QED BY <2>1, <2>2
<1>2. ASSUME LineInv, [Next]_vars
      PROVE  [\A r \in Requests :
                /\ (pc[r] = "new" /\ pc'[r] = "shed")
                     => Cardinality(LiveWaiters(pools[pool'[addr'[r]]], LiveReads))
                            = ReadWaiters
                /\ (pc[r] = "read" /\ pc'[r] = "hashBusy")
                     => Cardinality(LiveHashes) = HashWaiters]_vars
  BY <1>1, <1>2
<1> QED BY <1>2, LinesHold, PTL DEF Spec, ShedOnlyWhenFull
=============================================================================
