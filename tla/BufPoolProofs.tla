---------------------------- MODULE BufPoolProofs ----------------------------
(***************************************************************************)
(* The safety properties of BufPool for every number of threads and slots. *)
(*                                                                         *)
(* The five invariants are inductive together.  AvailableCountsFree is     *)
(* what bounds the counter (TypeOK) and what makes the scan for a free     *)
(* slot succeed; NoLostWakeup needs it to know that available is a number  *)
(* that a release raises and a take lowers by exactly one.                 *)
(***************************************************************************)
EXTENDS BufPool, FiniteSetTheorems, TLAPS

\* What a step may not disturb in the slots: the part of the invariant that
\* does not mention the waiting threads.
SlotsInv == /\ inUse \in [Slots -> BOOLEAN]
            /\ available \in 0 .. Capacity
            /\ held \in [Threads -> SUBSET Slots]
            /\ AvailableCountsFree
            /\ SlotsExclusive

\* ... and the part about the waiting threads.
WaitInv == /\ shutdown \in BOOLEAN
           /\ pc \in [Threads -> {"idle", "asleep", "woken"}]
           /\ NoLostWakeup
           /\ ShutdownWakesAll

\* Slots is finite and has Capacity members; so has every subset of it at most.
LEMMA SlotsFinite ==
  /\ IsFiniteSet(Slots)
  /\ Cardinality(Slots) = Capacity
  /\ \A S \in SUBSET Slots : /\ IsFiniteSet(S)
                             /\ Cardinality(S) \in 0 .. Capacity
<1>1. IsFiniteSet(Slots) /\ Cardinality(Slots) = Capacity
  <2>1. 0 \in Int /\ Capacity - 1 \in Int /\ ~(0 > Capacity - 1)
    BY PoolAssumption
  <2> QED
    BY <2>1, FS_Interval, PoolAssumption DEF Slots
<1>2. ASSUME NEW S \in SUBSET Slots
      PROVE  IsFiniteSet(S) /\ Cardinality(S) \in 0 .. Capacity
  <2>1. IsFiniteSet(S) /\ Cardinality(S) <= Cardinality(Slots)
    BY <1>1, FS_Subset
  <2>2. Cardinality(S) \in Nat
    BY <2>1, FS_CardinalityType
  <2> QED
    BY <1>1, <2>1, <2>2, PoolAssumption
<1> QED
  BY <1>1, <1>2

\* The sets of sleeping and of woken threads are finite.
LEMMA WaitersFinite ==
  /\ IsFiniteSet(Asleep) /\ IsFiniteSet(Woken)
  /\ Cardinality(Woken) \in Nat
<1>1. Asleep \in SUBSET Threads /\ Woken \in SUBSET Threads
  BY DEF Asleep, Woken
<1>2. IsFiniteSet(Asleep) /\ IsFiniteSet(Woken)
  BY <1>1, FS_Subset, PoolAssumption
<1> QED
  BY <1>2, FS_CardinalityType

\* The scan of the two acquire functions hands out a slot nobody has.
LEMMA TakeSlots ==
  ASSUME NEW t \in Threads, SlotsInv, available # 0, Take(t)
  PROVE  SlotsInv' /\ available' = available - 1
<1> PICK s \in Free : /\ inUse' = [inUse EXCEPT ![s] = TRUE]
                      /\ available' = available - 1
                      /\ held' = [held EXCEPT ![t] = @ \cup {s}]
  BY DEF Take
<1>1. s \in Slots /\ ~inUse[s]
  BY DEF Free
<1>2. /\ inUse' \in [Slots -> BOOLEAN]
      /\ held' \in [Threads -> SUBSET Slots]
      /\ available' \in 0 .. Capacity
  BY <1>1, PoolAssumption DEF SlotsInv
<1>3. AvailableCountsFree'
  <2>1. Free' = Free \ {s}
    BY <1>1 DEF Free, SlotsInv
  <2>2. IsFiniteSet(Free)
    BY SlotsFinite DEF Free
  <2>3. Cardinality(Free \ {s}) = Cardinality(Free) - 1
    BY <2>2, FS_RemoveElement
  <2> QED
    BY <2>1, <2>3 DEF AvailableCountsFree, SlotsInv
<1>4. SlotsExclusive'
  <2>1. \A u \in Threads : s \notin held[u]
    BY <1>1 DEF SlotsInv, SlotsExclusive
  <2>2. \A u \in Threads : held'[u] = IF u = t THEN held[u] \cup {s} ELSE held[u]
    BY DEF SlotsInv
  <2>3. \A r \in Slots : inUse'[r] <=> (inUse[r] \/ r = s)
    BY <1>1 DEF SlotsInv
  <2>4. \A r \in Slots : inUse'[r] <=> \E u \in Threads : r \in held'[u]
    BY <2>2, <2>3 DEF SlotsInv, SlotsExclusive
  <2>5. ASSUME NEW u \in Threads, NEW v \in Threads, u # v
        PROVE  held'[u] \cap held'[v] = {}
    BY <2>1, <2>2, <2>5 DEF SlotsInv, SlotsExclusive
  <2> QED
    BY <2>4, <2>5 DEF SlotsExclusive
<1> QED
  BY <1>2, <1>3, <1>4 DEF SlotsInv

\* A release raises the counter by one and takes the slot from its holder.
LEMMA FreeSlots ==
  ASSUME NEW s \in Slots, SlotsInv, inUse[s], FreeSlot(s)
  PROVE  SlotsInv' /\ available' = available + 1
<1>1. /\ inUse' = [inUse EXCEPT ![s] = FALSE]
      /\ available' = available + 1
      /\ held' = [owner \in Threads |-> held[owner] \ {s}]
  BY DEF FreeSlot
<1>2. /\ inUse' \in [Slots -> BOOLEAN]
      /\ held' \in [Threads -> SUBSET Slots]
  BY <1>1 DEF SlotsInv
<1>3. AvailableCountsFree' /\ available' \in 0 .. Capacity
  <2>1. Free' = Free \cup {s} /\ s \notin Free
    BY <1>1 DEF Free, SlotsInv
  <2>2. IsFiniteSet(Free) /\ Free' \in SUBSET Slots
    BY SlotsFinite DEF Free
  <2>3. Cardinality(Free \cup {s}) = Cardinality(Free) + 1
    BY <2>1, <2>2, FS_AddElement
  <2>4. Cardinality(Free') \in 0 .. Capacity
    BY <2>2, SlotsFinite
  <2> QED
    BY <1>1, <2>1, <2>3, <2>4 DEF AvailableCountsFree, SlotsInv
<1>4. SlotsExclusive'
  <2>1. \A u \in Threads : held'[u] = held[u] \ {s}
    BY <1>1
  <2>2. \A r \in Slots : inUse'[r] <=> (inUse[r] /\ r # s)
    BY <1>1 DEF SlotsInv
  <2> QED
    BY <2>1, <2>2 DEF SlotsInv, SlotsExclusive
<1> QED
  BY <1>1, <1>2, <1>3, <1>4 DEF SlotsInv

\* One signal for one slot keeps the free slots covered by woken threads.
LEMMA SignalWaiters ==
  ASSUME SlotsInv, WaitInv, Signal, available' = available + 1, UNCHANGED shutdown
  PROVE  WaitInv'
<1>1. CASE Asleep = {}
  <2>1. UNCHANGED pc
    BY <1>1 DEF Signal
  <2>2. Asleep' = {}
    BY <1>1, <2>1 DEF Asleep
  <2> QED
    BY <2>1, <2>2 DEF WaitInv, NoLostWakeup, ShutdownWakesAll
<1>2. CASE Asleep # {}
  <2> PICK t \in Asleep : pc' = [pc EXCEPT ![t] = "woken"]
    BY <1>2 DEF Signal
  <2>1. t \in Threads /\ pc[t] = "asleep"
    BY DEF Asleep
  <2>2. pc' \in [Threads -> {"idle", "asleep", "woken"}]
    BY <2>1 DEF WaitInv
  <2>3. Woken' = Woken \cup {t} /\ t \notin Woken
    BY <2>1 DEF Woken, WaitInv
  <2>4. Cardinality(Woken') = Cardinality(Woken) + 1
    BY <2>3, WaitersFinite, FS_AddElement
  <2>5. available <= Cardinality(Woken)
    BY <1>2 DEF WaitInv, NoLostWakeup
  <2>6. NoLostWakeup'
    BY <2>4, <2>5, WaitersFinite DEF NoLostWakeup, SlotsInv
  <2>7. ShutdownWakesAll'
    BY <1>2 DEF WaitInv, ShutdownWakesAll
  <2> QED
    BY <2>2, <2>6, <2>7 DEF WaitInv
<1> QED
  BY <1>1, <1>2

\* One evaluation of the wait loop by a thread that is not asleep.
LEMMA TestAndTakeStep ==
  ASSUME NEW t \in Threads, SlotsInv, WaitInv, pc[t] # "asleep", TestAndTake(t)
  PROVE  SlotsInv' /\ WaitInv'
<1>1. CASE available # 0 /\ Take(t) /\ pc' = [pc EXCEPT ![t] = "idle"]
  <2>1. SlotsInv' /\ available' = available - 1
    BY <1>1, TakeSlots
  <2>2. pc' \in [Threads -> {"idle", "asleep", "woken"}]
    BY <1>1 DEF WaitInv
  <2>3. Asleep' = Asleep /\ Woken' = Woken \ {t}
    BY <1>1 DEF WaitInv, Asleep, Woken
  <2>4. Cardinality(Woken') >= Cardinality(Woken) - 1
    <3>1. Cardinality(Woken \ {t}) = IF t \in Woken THEN Cardinality(Woken) - 1
                                                   ELSE Cardinality(Woken)
      BY WaitersFinite, FS_RemoveElement
    <3>2. Cardinality(Woken) \in Nat
      BY WaitersFinite
    <3>3. Cardinality(Woken \ {t}) >= Cardinality(Woken) - 1
      BY <3>1, <3>2
    <3> QED
      BY <2>3, <3>3
  <2>5. Cardinality(Woken') \in Nat
    BY <2>3, WaitersFinite, FS_RemoveElement, FS_CardinalityType
  <2>6. NoLostWakeup'
    BY <2>1, <2>3, <2>4, <2>5, WaitersFinite DEF SlotsInv, WaitInv, NoLostWakeup
  <2>7. ShutdownWakesAll' /\ shutdown' \in BOOLEAN
    BY <2>3 DEF TestAndTake, WaitInv, ShutdownWakesAll
  <2> QED
    BY <2>1, <2>2, <2>6, <2>7 DEF WaitInv
<1>2. CASE /\ available = 0
           /\ shutdown
           /\ pc' = [pc EXCEPT ![t] = "idle"]
           /\ UNCHANGED <<inUse, available, held>>
  <2>1. SlotsInv'
    BY <1>2 DEF SlotsInv, AvailableCountsFree, SlotsExclusive, Free
  <2>2. pc' \in [Threads -> {"idle", "asleep", "woken"}]
    BY <1>2 DEF WaitInv
  <2>3. Asleep' = Asleep /\ Asleep = {}
    BY <1>2 DEF WaitInv, ShutdownWakesAll, Asleep
  <2> QED
    BY <2>1, <2>2, <2>3 DEF TestAndTake, WaitInv, NoLostWakeup, ShutdownWakesAll
<1>3. CASE /\ available = 0
           /\ ~shutdown
           /\ pc' = [pc EXCEPT ![t] = "asleep"]
           /\ UNCHANGED <<inUse, available, held>>
  <2>1. SlotsInv'
    BY <1>3 DEF SlotsInv, AvailableCountsFree, SlotsExclusive, Free
  <2>2. pc' \in [Threads -> {"idle", "asleep", "woken"}]
    BY <1>3 DEF WaitInv
  <2>3. Woken' = Woken \ {t}
    BY <1>3 DEF WaitInv, Woken
  <2>4. Cardinality(Woken') \in Nat
    BY <2>3, WaitersFinite, FS_RemoveElement, FS_CardinalityType
  <2>5. NoLostWakeup'
    BY <1>3, <2>4 DEF NoLostWakeup
  <2> QED
    BY <1>3, <2>1, <2>2, <2>5 DEF TestAndTake, WaitInv, ShutdownWakesAll
<1> QED
  BY <1>1, <1>2, <1>3 DEF TestAndTake

\* Every step of the pool, of any thread, preserves both parts.
LEMMA NextInv == SlotsInv /\ WaitInv /\ [Next]_vars => SlotsInv' /\ WaitInv'
<1> SUFFICES ASSUME SlotsInv, WaitInv, [Next]_vars
             PROVE  SlotsInv' /\ WaitInv'
  OBVIOUS
<1>1. ASSUME NEW t \in Threads, Acquire(t)
      PROVE  SlotsInv' /\ WaitInv'
  <2>1. SlotsInv' /\ available' = available - 1
    BY <1>1, TakeSlots DEF Acquire
  <2>2. UNCHANGED <<shutdown, pc>>
    BY <1>1 DEF Acquire
  <2>3. Asleep' = Asleep /\ Woken' = Woken
    BY <2>2 DEF Asleep, Woken
  <2>4. NoLostWakeup'
    BY <2>1, <2>3, WaitersFinite DEF SlotsInv, WaitInv, NoLostWakeup
  <2> QED
    BY <2>1, <2>2, <2>3, <2>4 DEF WaitInv, ShutdownWakesAll
<1>2. ASSUME NEW t \in Threads, AcquireBlocking(t) \/ Recheck(t)
      PROVE  SlotsInv' /\ WaitInv'
  BY <1>2, TestAndTakeStep DEF AcquireBlocking, Recheck
<1>3. ASSUME NEW t \in Threads, SpuriousWakeup(t)
      PROVE  SlotsInv' /\ WaitInv'
  <2>1. SlotsInv'
    BY <1>3 DEF SpuriousWakeup, SlotsInv, AvailableCountsFree, SlotsExclusive, Free
  <2>2. /\ pc[t] = "asleep"
        /\ pc' = [pc EXCEPT ![t] = "woken"]
        /\ UNCHANGED <<available, shutdown>>
    BY <1>3 DEF SpuriousWakeup
  <2>3. pc' \in [Threads -> {"idle", "asleep", "woken"}]
    BY <2>2 DEF WaitInv
  <2>4. t \in Asleep /\ Woken' = Woken \cup {t} /\ t \notin Woken
    BY <2>2 DEF Asleep, Woken, WaitInv
  <2>5. Cardinality(Woken') = Cardinality(Woken) + 1
    BY <2>4, WaitersFinite, FS_AddElement
  <2>6. NoLostWakeup'
    BY <2>2, <2>4, <2>5, WaitersFinite DEF SlotsInv, WaitInv, NoLostWakeup
  <2>7. ~shutdown
    BY <2>4 DEF WaitInv, ShutdownWakesAll
  <2> QED
    BY <2>1, <2>2, <2>3, <2>6, <2>7 DEF WaitInv, ShutdownWakesAll
<1>4. ASSUME NEW t \in Threads, NEW s \in Slots, Release(t, s)
      PROVE  SlotsInv' /\ WaitInv'
  <2>1. CASE inUse[s] /\ FreeSlot(s) /\ UNCHANGED shutdown
    <3>1. SlotsInv' /\ available' = available + 1
      BY <2>1, FreeSlots
    <3> QED
      BY <2>1, <3>1, SignalWaiters DEF FreeSlot
  <2>2. CASE UNCHANGED vars
    BY <2>2 DEF vars, SlotsInv, WaitInv, AvailableCountsFree, SlotsExclusive, Free,
                NoLostWakeup, ShutdownWakesAll, Asleep, Woken
  <2> QED
    BY <1>4, <2>1, <2>2 DEF Release, vars
<1>5. ASSUME Shutdown
      PROVE  SlotsInv' /\ WaitInv'
  <2>1. SlotsInv'
    BY <1>5 DEF Shutdown, SlotsInv, AvailableCountsFree, SlotsExclusive, Free
  <2>2. pc' \in [Threads -> {"idle", "asleep", "woken"}]
    BY <1>5 DEF Shutdown, WaitInv
  <2>3. Asleep' = {}
    BY <1>5 DEF Shutdown, Asleep
  <2> QED
    BY <1>5, <2>1, <2>2, <2>3 DEF Shutdown, WaitInv, NoLostWakeup, ShutdownWakesAll
<1>6. ASSUME Reset
      PROVE  SlotsInv' /\ WaitInv'
  BY <1>6 DEF Reset, SlotsInv, WaitInv, AvailableCountsFree, SlotsExclusive, Free,
              NoLostWakeup, ShutdownWakesAll, Asleep, Woken
<1>7. CASE UNCHANGED vars
  BY <1>7 DEF vars, SlotsInv, WaitInv, AvailableCountsFree, SlotsExclusive, Free,
              NoLostWakeup, ShutdownWakesAll, Asleep, Woken
<1> QED
  BY <1>1, <1>2, <1>3, <1>4, <1>5, <1>6, <1>7 DEF Next, ThreadStep

\* A pool that vf_buf_pool_init has just set up satisfies both parts.
LEMMA InitInv == Init => SlotsInv /\ WaitInv
<1> SUFFICES ASSUME Init
             PROVE  SlotsInv /\ WaitInv
  OBVIOUS
<1>1. Free = Slots
  BY DEF Init, Free
<1>2. Asleep = {}
  BY DEF Init, Asleep
<1>3. available = Cardinality(Free)
  BY <1>1, SlotsFinite DEF Init
<1>4. available \in 0 .. Capacity
  BY PoolAssumption DEF Init
<1>5. inUse \in [Slots -> BOOLEAN] /\ held \in [Threads -> SUBSET Slots]
  BY DEF Init
<1>6. SlotsExclusive
  <2>1. \A s \in Slots : ~inUse[s]
    BY DEF Init
  <2>2. \A t \in Threads : held[t] = {}
    BY DEF Init
  <2> QED
    BY <2>1, <2>2 DEF SlotsExclusive
<1>7. WaitInv
  <2>1. shutdown = FALSE /\ pc \in [Threads -> {"idle", "asleep", "woken"}]
    BY DEF Init
  <2> QED
    BY <1>2, <2>1 DEF WaitInv, NoLostWakeup, ShutdownWakesAll
<1> QED
  BY <1>3, <1>4, <1>5, <1>6, <1>7 DEF SlotsInv, AvailableCountsFree

\* Both parts hold in every reachable state.
LEMMA PoolInvariant == Spec => [](SlotsInv /\ WaitInv)
  BY InitInv, NextInv, PTL DEF Spec

\* The variables stay in their types; in particular the counter neither
\* passes the capacity nor goes below zero.
THEOREM PoolTypeOK == Spec => []TypeOK
<1>1. SlotsInv /\ WaitInv => TypeOK
  BY DEF SlotsInv, WaitInv, TypeOK
<1> QED
  BY <1>1, PoolInvariant, PTL

\* The counter the wait loop tests is the number of slots the scan can find.
THEOREM PoolCountsFree == Spec => []AvailableCountsFree
<1>1. SlotsInv /\ WaitInv => AvailableCountsFree
  BY DEF SlotsInv
<1> QED
  BY <1>1, PoolInvariant, PTL

\* No slot is ever handed to two threads.
THEOREM PoolExclusive == Spec => []SlotsExclusive
<1>1. SlotsInv /\ WaitInv => SlotsExclusive
  BY DEF SlotsInv
<1> QED
  BY <1>1, PoolInvariant, PTL

\* Signalling one thread per release loses no wake-up.
THEOREM PoolNoLostWakeup == Spec => []NoLostWakeup
<1>1. SlotsInv /\ WaitInv => NoLostWakeup
  BY DEF WaitInv
<1> QED
  BY <1>1, PoolInvariant, PTL

\* Once the shutdown flag is set nobody sleeps on the pool.
THEOREM PoolShutdownWakesAll == Spec => []ShutdownWakesAll
<1>1. SlotsInv /\ WaitInv => ShutdownWakesAll
  BY DEF WaitInv
<1> QED
  BY <1>1, PoolInvariant, PTL
=============================================================================
