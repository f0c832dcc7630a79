------------------------------- MODULE BufPool -------------------------------
(***************************************************************************)
(* The framebuffer pool, service/src/buffer-mgr/vf-buff-pool.c: a fixed    *)
(* array of slots guarded by one mutex, and a condition variable on which  *)
(* vf_buf_pool_acquire_blocking waits for a slot.                          *)
(*                                                                         *)
(* Every function holds pool->lock from its first to its last access of    *)
(* the pool, so one critical section is one action; pthread_cond_wait ends *)
(* a critical section and the wake-up starts another.  pool_reset alone    *)
(* stores without the lock: it is a single atomic store, an action too.    *)
(***************************************************************************)
EXTENDS Naturals, FiniteSets

CONSTANTS Threads,   \* the threads that call the pool
          Capacity   \* slot_count given to vf_buf_pool_init

ASSUME PoolAssumption == /\ IsFiniteSet(Threads)
                         /\ Capacity \in Nat \ {0}

VARIABLES inUse,      \* pool->in_use
          available,  \* pool->available
          shutdown,   \* pool->shutdown
          pc,         \* per thread: "idle", "asleep" in cond_wait, or "woken"
          held        \* per thread: the slots it was handed and nobody released

vars == <<inUse, available, shutdown, pc, held>>

Slots == 0 .. Capacity - 1

Free == {s \in Slots : ~inUse[s]}

Asleep == {t \in Threads : pc[t] = "asleep"}

Woken == {t \in Threads : pc[t] = "woken"}

-----------------------------------------------------------------------------

Init == /\ inUse = [s \in Slots |-> FALSE]
        /\ available = Capacity
        /\ shutdown = FALSE
        /\ pc = [t \in Threads |-> "idle"]
        /\ held = [t \in Threads |-> {}]

\* Mutant: hands out the lowest free slot and forgets to mark it.
TakeUnmarked(t) ==
    \E s \in Free :
        /\ \A r \in Free : s <= r
        /\ available' = available - 1
        /\ held' = [held EXCEPT ![t] = @ \cup {s}]
        /\ UNCHANGED inUse

\* The scan for the lowest free slot, shared by both acquire functions.
Take(t) ==
    \E s \in Free :
        /\ \A r \in Free : s <= r
        /\ inUse' = [inUse EXCEPT ![s] = TRUE]
        /\ available' = available - 1
        /\ held' = [held EXCEPT ![t] = @ \cup {s}]

\* vf_buf_pool_acquire; with no slot available it returns VF_OOM and changes nothing.
Acquire(t) ==
    /\ pc[t] = "idle"
    /\ available # 0
    /\ Take(t)
    /\ UNCHANGED <<shutdown, pc>>

\* The loop of vf_buf_pool_acquire_blocking, from one evaluation of its
\* condition to the return or to the next pthread_cond_wait.
TestAndTake(t) ==
    /\ \/ /\ available # 0
          /\ Take(t)
          /\ pc' = [pc EXCEPT ![t] = "idle"]
       \/ /\ available = 0
          /\ shutdown                             \* VF_QUEUE_SHUTDOWN
          /\ pc' = [pc EXCEPT ![t] = "idle"]
          /\ UNCHANGED <<inUse, available, held>>
       \/ /\ available = 0
          /\ ~shutdown
          /\ pc' = [pc EXCEPT ![t] = "asleep"]
          /\ UNCHANGED <<inUse, available, held>>
    /\ UNCHANGED shutdown

AcquireBlocking(t) == pc[t] = "idle" /\ TestAndTake(t)

\* A woken thread has the mutex again and re-evaluates the loop condition.
Recheck(t) == pc[t] = "woken" /\ TestAndTake(t)

\* POSIX lets pthread_cond_wait return without a signal.
SpuriousWakeup(t) ==
    /\ pc[t] = "asleep"
    /\ pc' = [pc EXCEPT ![t] = "woken"]
    /\ UNCHANGED <<inUse, available, shutdown, held>>

\* Mutant: release without pthread_cond_signal.
NoSignal == UNCHANGED pc

\* pthread_cond_signal: one sleeper wakes, if there is one.
Signal ==
    IF Asleep = {}
    THEN UNCHANGED pc
    ELSE \E t \in Asleep : pc' = [pc EXCEPT ![t] = "woken"]

\* The freeing branch of vf_buf_pool_release.
FreeSlot(s) ==
    /\ inUse' = [inUse EXCEPT ![s] = FALSE]
    /\ available' = available + 1
    /\ Signal
    /\ held' = [owner \in Threads |-> held[owner] \ {s}]

\* Mutant: frees the slot without asking whether it was in use.
ReleaseUnchecked(t, s) ==
    /\ pc[t] = "idle"
    /\ FreeSlot(s)
    /\ UNCHANGED shutdown

\* vf_buf_pool_release: a frame travels between threads, so the one that
\* releases a slot need not be the one that acquired it; a slot released
\* a second time is left alone.
Release(t, s) ==
    /\ pc[t] = "idle"
    /\ \/ /\ inUse[s]
          /\ FreeSlot(s)
       \/ /\ ~inUse[s]
          /\ UNCHANGED <<inUse, available, pc, held>>
    /\ UNCHANGED shutdown

\* Mutant: pthread_cond_signal where the code broadcasts.
ShutdownSignalsOne ==
    /\ shutdown' = TRUE
    /\ Signal
    /\ UNCHANGED <<inUse, available, held>>

\* vf_buf_pool_shutdown: the flag and the broadcast, under the lock.
Shutdown ==
    /\ shutdown' = TRUE
    /\ pc' = [t \in Threads |-> IF pc[t] = "asleep" THEN "woken" ELSE pc[t]]
    /\ UNCHANGED <<inUse, available, held>>

\* vf_buf_pool_reset: the only function that does not take the lock.
Reset ==
    /\ shutdown' = FALSE
    /\ UNCHANGED <<inUse, available, pc, held>>

ThreadStep(t) ==
    \/ Acquire(t)
    \/ AcquireBlocking(t)
    \/ Recheck(t)
    \/ SpuriousWakeup(t)
    \/ \E s \in Slots : Release(t, s)

Next == \/ \E t \in Threads : ThreadStep(t)
        \/ Shutdown
        \/ Reset

\* A runnable thread gets the mutex; nothing obliges a thread to call the pool.
Fairness == \A t \in Threads : WF_vars(Recheck(t))

Spec == Init /\ [][Next]_vars /\ Fairness

-----------------------------------------------------------------------------

TypeOK == /\ inUse \in [Slots -> BOOLEAN]
          /\ available \in 0 .. Capacity
          /\ shutdown \in BOOLEAN
          /\ pc \in [Threads -> {"idle", "asleep", "woken"}]
          /\ held \in [Threads -> SUBSET Slots]

\* The counter that the wait loop tests agrees with the flags the scan reads:
\* a thread that saw available # 0 finds a slot, and none is ever stranded
\* (vf_buf_pool_acquire_blocking would else return success with a NULL frame).
AvailableCountsFree == available = Cardinality(Free)

\* A slot is busy exactly while one thread is answerable for it: two callers
\* never share a buffer, whatever the order of acquires and releases.
SlotsExclusive ==
    /\ \A s \in Slots : inUse[s] <=> \E t \in Threads : s \in held[t]
    /\ \A t, u \in Threads : t # u => held[t] \cap held[u] = {}

\* release signals one thread, not all: while a thread sleeps, every free slot
\* is still covered by a thread that was woken and has not run yet.
NoLostWakeup == Asleep # {} => available <= Cardinality(Woken)

\* After vf_buf_pool_shutdown nobody sleeps on the pool, including a caller
\* that tested the flag just before it was set.
ShutdownWakesAll == shutdown => Asleep = {}

\* Free slots do not stay unused while a thread sleeps waiting for one.
FreeSlotIsTaken ==
    (available # 0 /\ Asleep # {}) ~> (available = 0 \/ Asleep = {})

\* Once shut down, every blocked acquire returns, unless a reset comes first.
ShutdownUnblocks ==
    \A t \in Threads :
        (shutdown /\ pc[t] # "idle") ~> (pc[t] = "idle" \/ ~shutdown)
=============================================================================
