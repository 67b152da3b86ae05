------------------------------ MODULE WorkSlots ------------------------------
(***************************************************************************)
(* The counting semaphore of apps/api/src/github-actions/work-slots.ts as  *)
(* operators on its state: a pool is the number of holders and the queue   *)
(* of callers that asked to wait.  A waiter that gave up stays in the      *)
(* queue, settled, until a release or a prune passes over it, so every     *)
(* operator takes the set of waiters still unsettled.                      *)
(***************************************************************************)
EXTENDS Integers, Sequences

EmptyPool == [active |-> 0, waiting |-> <<>>]

\* The position of the first waiter nobody settled, 0 when there is none.
NextLive(queue, live) ==
    LET alive == {i \in 1 .. Len(queue) : queue[i] \in live}
    IN  IF alive = {} THEN 0
        ELSE CHOOSE i \in alive : \A j \in alive : i <= j

LiveWaiters(pool, live) ==
    {pool.waiting[i] : i \in 1 .. Len(pool.waiting)} \cap live

\* The pool holds nothing at all: nobody has a slot, nobody waits for one.
Idle(pool, live) == pool.active = 0 /\ LiveWaiters(pool, live) = {}

HasSlot(pool, limit) == pool.active < limit

Taken(pool) == [pool EXCEPT !.active = @ + 1]

\* Settled waiters at the head of the queue are forgotten, no others.
Pruned(pool, live) ==
    LET first == NextLive(pool.waiting, live)
    IN  [pool EXCEPT !.waiting =
            IF first = 0 THEN <<>> ELSE SubSeq(@, first, Len(@))]

Queued(pool, r) == [pool EXCEPT !.waiting = Append(@, r)]

\* A release hands the slot to the first live waiter, or gives it back.
Handed(pool, live) ==
    LET k == NextLive(pool.waiting, live)
    IN  {r \in live : k # 0 /\ r = pool.waiting[k]}

\* Mutant: the slot handed over is also given back.
ReleasedTwice(pool, live) ==
    LET k == NextLive(pool.waiting, live)
    IN  [active  |-> IF pool.active > 0 THEN pool.active - 1 ELSE 0,
         waiting |-> IF k = 0 THEN <<>>
                     ELSE SubSeq(pool.waiting, k + 1, Len(pool.waiting))]

Released(pool, live) ==
    LET k == NextLive(pool.waiting, live)
    IN  IF k = 0
        THEN [active  |-> IF pool.active > 0 THEN pool.active - 1 ELSE 0,
              waiting |-> <<>>]
        ELSE [pool EXCEPT !.waiting = SubSeq(@, k + 1, Len(@))]
=============================================================================
