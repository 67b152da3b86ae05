-------------------------- MODULE WebhookAdmission --------------------------
(***************************************************************************)
(* How the webhook endpoint admits deliveries                              *)
(* (apps/api/src/github-actions/webhook-api.ts): a slot of the calling     *)
(* address, for which a request waits; a slot to read its body, for which  *)
(* it does not; and, the body read, a slot to hash it, for which it waits  *)
(* again.  The pools of the addresses are kept in a map bounded by         *)
(* MaxKeys (KeyedWorkSlots of work-slots.ts), which evicts.                *)
(***************************************************************************)
EXTENDS WorkSlots, FiniteSets

CONSTANTS
    Requests,        \* the deliveries posted to the endpoint
    Addresses,       \* the addresses they come from
    PerAddress,      \* reads one address may have in flight
    ReadWaiters,     \* requests of one address that may wait for a read
    MaxReads,        \* reads in flight, all addresses together
    MaxHashes,       \* bodies hashed at once
    HashWaiters,     \* bodies that may wait to be hashed
    MaxKeys          \* pools the map of addresses may hold

ASSUME LimitsAssumption ==
    /\ IsFiniteSet(Requests)
    /\ PerAddress \in Nat \ {0}
    /\ ReadWaiters \in Nat
    /\ MaxReads \in Nat \ {0}
    /\ MaxHashes \in Nat \ {0}
    /\ HashWaiters \in Nat
    /\ MaxKeys \in Nat \ {0}

VARIABLES
    pc,       \* where each request is
    addr,     \* the address it came from
    held,     \* the pool object it waits in
    pools,    \* every pool object: the map and the objects it forgot
    keys,     \* the map of KeyedWorkSlots: its keys, oldest insertion first
    pool,     \* the pool object each key of the map names
    reads,    \* the global read budget
    hashes    \* the hash budget

vars == <<pc, addr, held, pools, keys, pool, reads, hashes>>

\* Pool objects are named by the request that created them.
PoolIds == Requests
NoPool  == "no pool"
NoAddr  == "no address"

Waiting == {"waitRead", "waitHash"}
Refused == {"shed", "expired", "noReadSlot", "readFailed", "hashBusy"}
PcValues == {"new", "admitted", "reading", "read", "hashing", "verified"}
            \cup Waiting \cup Refused

InPc(p) == {r \in Requests : pc[r] = p}
Range1(s) == {s[i] : i \in 1 .. Len(s)}
Mapped(a) == pool[a] # NoPool

PoolType == [active : Nat, waiting : Seq(Requests)]

\* One type invariant: every request is at one line of the handler, and the
\* map names a pool object for each of its keys and for no other address.
TypeOK ==
    /\ pc \in [Requests -> PcValues]
    /\ addr \in [Requests -> Addresses \cup {NoAddr}]
    /\ held \in [Requests -> PoolIds \cup {NoPool}]
    /\ pools \in [PoolIds -> PoolType]
    /\ keys \in Seq(Addresses)
    /\ pool \in [Addresses -> PoolIds \cup {NoPool}]
    /\ \A a \in Addresses : Mapped(a) <=> a \in Range1(keys)
    /\ reads \in Nat
    /\ hashes \in PoolType

Init ==
    /\ pc = [r \in Requests |-> "new"]
    /\ addr = [r \in Requests |-> NoAddr]
    /\ held = [r \in Requests |-> NoPool]
    /\ pools = [p \in PoolIds |-> EmptyPool]
    /\ keys = <<>>
    /\ pool = [a \in Addresses |-> NoPool]
    /\ reads = 0
    /\ hashes = EmptyPool

-----------------------------------------------------------------------------
\* The waiters of a budget that are not settled yet.
LiveReads  == InPc("waitRead")
LiveHashes == InPc("waitHash")

Without(ks, gone) == SelectSeq(ks, LAMBDA k : k \notin gone)

\* What #evictIdle drops from a full map: the idle pools, and the oldest
\* insertion when none of them was idle.
EvictedKeys(size) ==
    LET idle == {a \in Range1(keys) : Idle(pools[pool[a]], LiveReads)}
    IN  IF size < MaxKeys THEN {}
        ELSE IF size - Cardinality(idle) >= MaxKeys THEN idle \cup {keys[1]}
        ELSE idle

\* The pool of an address is found in the map or created, after an eviction.
Lookup(r, a) ==
    LET gone == EvictedKeys(Len(keys))
    IN  IF Mapped(a)
        THEN [id |-> pool[a], keys |-> keys, pool |-> pool]
        ELSE [id   |-> r,
              keys |-> Append(Without(keys, gone), a),
              pool |-> [b \in Addresses |->
                          IF b = a THEN r
                          ELSE IF b \in gone THEN NoPool ELSE pool[b]]]

\* #dropIfIdle: the key is deleted when the pool at hand is idle, whichever
\* pool object the key names by then.
DroppedIfIdle(a, p, live) ==
    IF Idle(p, live)
    THEN /\ keys' = Without(keys, {a})
         /\ pool' = [pool EXCEPT ![a] = NoPool]
    ELSE UNCHANGED <<keys, pool>>

\* Mutant: the queue is capped without forgetting the waiters that gave up.
CappedUnpruned(p, live) == Len(p.waiting)

\* What the cap of the queue counts.
QueueLength(p, live) == Len(Pruned(p, live).waiting)

-----------------------------------------------------------------------------
\* POST of a delivery: the slot of its address is taken, waited for or shed.
Arrive(r, a) ==
    LET found == Lookup(r, a)
        p     == pools[found.id]
    IN  /\ pc[r] = "new"
        /\ addr' = [addr EXCEPT ![r] = a]
        /\ keys' = found.keys
        /\ pool' = found.pool
        /\ \/ /\ HasSlot(p, PerAddress)
              /\ pc' = [pc EXCEPT ![r] = "admitted"]
              /\ pools' = [pools EXCEPT ![found.id] = Taken(p)]
              /\ UNCHANGED held
           \/ /\ ~HasSlot(p, PerAddress)
              /\ QueueLength(p, LiveReads) < ReadWaiters
              /\ pc' = [pc EXCEPT ![r] = "waitRead"]
              /\ held' = [held EXCEPT ![r] = found.id]
              /\ pools' = [pools EXCEPT ![found.id] =
                              Queued(Pruned(p, LiveReads), r)]
           \/ /\ ~HasSlot(p, PerAddress)
              /\ QueueLength(p, LiveReads) >= ReadWaiters
              /\ pc' = [pc EXCEPT ![r] = "shed"]
              /\ pools' = [pools EXCEPT ![found.id] = Pruned(p, LiveReads)]
              /\ UNCHANGED held
        /\ UNCHANGED <<reads, hashes>>

\* The timers of one pool were set with one delay: they fire in queue order.
FirstToExpire(p, live, r) ==
    LET k == NextLive(p.waiting, live) IN k # 0 /\ p.waiting[k] = r

\* Mutant: the callers of an address wait for as long as it takes.
ReadWaitUntimed(r) == FALSE /\ pc[r] = "waitRead" /\ UNCHANGED vars

\* The wait for the address expires: the waiter is settled where it stands.
ReadWaitExpires(r) ==
    /\ pc[r] = "waitRead"
    /\ FirstToExpire(pools[held[r]], LiveReads, r)
    /\ pc' = [pc EXCEPT ![r] = "expired"]
    /\ held' = [held EXCEPT ![r] = NoPool]
    /\ DroppedIfIdle(addr[r], pools[held[r]], LiveReads \ {r})
    /\ UNCHANGED <<addr, pools, reads, hashes>>


\* addressReads.release(address): the pool the map names now, if any, hands
\* the slot on.  The request that releases goes on at "next".
ReleaseAddress(r, next) ==
    LET a == addr[r]
    IN  IF ~Mapped(a)
        THEN /\ pc' = [pc EXCEPT ![r] = next]
             /\ UNCHANGED <<held, pools, keys, pool>>
        ELSE LET p      == pools[pool[a]]
                 served == Handed(p, LiveReads)
             IN  /\ pc' = [q \in Requests |->
                             IF q = r THEN next
                             ELSE IF q \in served THEN "admitted" ELSE pc[q]]
                 /\ held' = [q \in Requests |->
                               IF q \in served THEN NoPool ELSE held[q]]
                 /\ pools' = [pools EXCEPT ![pool[a]] = Released(p, LiveReads)]
                 /\ DroppedIfIdle(a, Released(p, LiveReads), LiveReads \ served)

\* The read budget of the process is shed, never queued.
StartRead(r) ==
    /\ pc[r] = "admitted"
    /\ \/ /\ reads < MaxReads
          /\ reads' = reads + 1
          /\ pc' = [pc EXCEPT ![r] = "reading"]
          /\ UNCHANGED <<held, pools, keys, pool>>
       \/ /\ reads >= MaxReads
          /\ ReleaseAddress(r, "noReadSlot")
          /\ UNCHANGED reads
    /\ UNCHANGED <<addr, hashes>>

\* The body is read, is too large, or its sender stalls: both slots go back.
EndRead(r) ==
    /\ pc[r] = "reading"
    /\ reads' = reads - 1
    /\ \E next \in {"read", "readFailed"} : ReleaseAddress(r, next)
    /\ UNCHANGED <<addr, hashes>>

-----------------------------------------------------------------------------
\* The verification asks for a hash slot.
AskHash(r) ==
    /\ pc[r] = "read"
    /\ \/ /\ HasSlot(hashes, MaxHashes)
          /\ hashes' = Taken(hashes)
          /\ pc' = [pc EXCEPT ![r] = "hashing"]
       \/ /\ ~HasSlot(hashes, MaxHashes)
          /\ QueueLength(hashes, LiveHashes) < HashWaiters
          /\ hashes' = Queued(Pruned(hashes, LiveHashes), r)
          /\ pc' = [pc EXCEPT ![r] = "waitHash"]
       \/ /\ ~HasSlot(hashes, MaxHashes)
          /\ QueueLength(hashes, LiveHashes) >= HashWaiters
          /\ hashes' = Pruned(hashes, LiveHashes)
          /\ pc' = [pc EXCEPT ![r] = "hashBusy"]
    /\ UNCHANGED <<addr, held, pools, keys, pool, reads>>

HashWaitExpires(r) ==
    /\ pc[r] = "waitHash"
    /\ FirstToExpire(hashes, LiveHashes, r)
    /\ pc' = [pc EXCEPT ![r] = "hashBusy"]
    /\ UNCHANGED <<addr, held, pools, keys, pool, reads, hashes>>

\* Mutant: the slot is given back and the waiter is left to its timer.
EndHashWithoutHandoff(r) ==
    /\ pc[r] = "hashing"
    /\ hashes' = [hashes EXCEPT !.active = @ - 1]
    /\ pc' = [pc EXCEPT ![r] = "verified"]
    /\ UNCHANGED <<addr, held, pools, keys, pool, reads>>

\* The hash and the compare are over, with any verdict: the slot goes on.
EndHash(r) ==
    LET served == Handed(hashes, LiveHashes)
    IN  /\ pc[r] = "hashing"
        /\ hashes' = Released(hashes, LiveHashes)
        /\ pc' = [q \in Requests |->
                    IF q = r THEN "verified"
                    ELSE IF q \in served THEN "hashing" ELSE pc[q]]
        /\ UNCHANGED <<addr, held, pools, keys, pool, reads>>

\* A request between two awaits: the process always takes its next step.
Proceed(r) == StartRead(r) \/ EndRead(r) \/ AskHash(r) \/ EndHash(r)

Expire(r) == ReadWaitExpires(r) \/ HashWaitExpires(r)

Answered(r) == pc[r] \in Refused \cup {"verified"}

\* Every request is answered: nothing is left to do.
AllAnswered == (\A r \in Requests : Answered(r)) /\ UNCHANGED vars

Next ==
    \/ \E r \in Requests : (\E a \in Addresses : Arrive(r, a))
                           \/ Proceed(r) \/ Expire(r)
    \/ AllAnswered

Spec == Init /\ [][Next]_vars

\* A request that holds a slot is never stuck in it: a body read has a
\* deadline, a hash is a computation; and a timer that is set fires.
FairSpec ==
    /\ Spec
    /\ \A r \in Requests : WF_vars(Proceed(r)) /\ WF_vars(Expire(r))

-----------------------------------------------------------------------------
\* The budgets of the process count exactly the requests that hold them, and
\* never more than their limit: no path of the handler, refused or expired,
\* leaks a slot, frees one twice or hands one to a waiter that gave up.
BudgetsExact ==
    /\ reads = Cardinality(InPc("reading"))
    /\ hashes.active = Cardinality(InPc("hashing"))
    /\ reads <= MaxReads
    /\ hashes.active <= MaxHashes

\* A slot freed goes to who waits: a delivery that has just arrived is never
\* admitted, nor hashed, past one that waits for the same budget.
NoOvertaking ==
    [][\A r \in Requests :
        /\ (pc[r] = "new" /\ pc'[r] = "admitted")
             => \A q \in LiveReads : held[q] # pool'[addr'[r]]
        /\ (pc[r] = "read" /\ pc'[r] = "hashing") => LiveHashes = {}]_vars

\* Waiters that gave up cost nobody a place: a request is refused at once
\* only when as many as the cap are really waiting in the pool it came to.
ShedOnlyWhenFull ==
    [][\A r \in Requests :
        /\ (pc[r] = "new" /\ pc'[r] = "shed")
             => Cardinality(LiveWaiters(pools[pool'[addr'[r]]], LiveReads))
                    = ReadWaiters
        /\ (pc[r] = "read" /\ pc'[r] = "hashBusy")
             => Cardinality(LiveHashes) = HashWaiters]_vars

\* Every delivery that arrived is answered: none waits for ever for a slot,
\* not even in a pool the map forgot.
EveryRequestAnswered ==
    \A r \in Requests : (pc[r] # "new") ~> Answered(r)
=============================================================================
