---------------------------- MODULE BufQueueProofs ----------------------------
(***************************************************************************)
(* The safety properties of BufQueue for every number of consumers, every  *)
(* set of frames and every capacity, and that it implements FrameFifo.     *)
(*                                                                         *)
(* The ring is reasoned about without its remainders: At(h, i) is the      *)
(* place i after h, and no cursor moves by more than Capacity at a time.   *)
(***************************************************************************)
EXTENDS BufQueue, FiniteSetTheorems, SequenceTheorems, TLAPS

At(h, i) == IF h + i < Capacity THEN h + i ELSE h + i - Capacity

\* The ring: the part of the invariant that does not mention the waiting.
RingInv == /\ slots \in [Indices -> Frames \cup {NoFrame}]
           /\ head \in Indices
           /\ tail \in Indices
           /\ count \in 0 .. Capacity
           /\ result \in [Consumers -> Frames \cup {NoFrame, EndOfStream}]
           /\ tail = At(head, count)
           /\ \A i \in Indices : (slots[At(head, i)] # NoFrame) <=> (i < count)

\* ... and the part about the waiting consumers.
WaitInv == /\ shutdown \in BOOLEAN
           /\ pc \in [Consumers -> {"idle", "asleep", "woken"}]
           /\ NoLostWakeup
           /\ ShutdownWakesAll

\* One wrap is all that a cursor moved by at most Capacity places needs.
LEMMA Wrap ==
  \A h \in Indices, i \in 0 .. Capacity : (h + i) % Capacity = At(h, i)
<1>1. \A k \in 0 .. 2 * Capacity - 1 :
         k % Capacity = IF k < Capacity THEN k ELSE k - Capacity
  BY QueueAssumption
<1>2. ASSUME NEW h \in Indices, NEW i \in 0 .. Capacity
      PROVE  (h + i) % Capacity = At(h, i)
  <2>1. h + i \in 0 .. 2 * Capacity - 1
    BY QueueAssumption DEF Indices
  <2> QED
    BY <1>1, <2>1, QueueAssumption DEF Indices, At
<1> QED
  BY <1>2

\* At leads to an index, and to different ones from different distances.
LEMMA AtIndex ==
  ASSUME NEW h \in Indices
  PROVE  /\ \A i \in 0 .. Capacity : At(h, i) \in Indices
         /\ \A i, j \in Indices : At(h, i) = At(h, j) => i = j
         /\ At(h, 0) = h
  BY QueueAssumption DEF Indices, At

\* The next index, without the remainder.
LEMMA NextIndex ==
  ASSUME NEW h \in Indices
  PROVE  After(h) = At(h, 1) /\ After(h) \in Indices
<1>1. 1 \in 0 .. Capacity
  BY QueueAssumption
<1> QED
  BY <1>1, AtIndex, Wrap DEF After

\* A step of one, then i more.
LEMMA AtNext ==
  ASSUME NEW h \in Indices, NEW i \in Indices
  PROVE  /\ At(At(h, 1), i) = At(h, i + 1)
         /\ At(At(h, i), 1) = At(h, i + 1)
         /\ i + 1 = Capacity => At(h, i + 1) = h
         /\ i + 1 # Capacity => i + 1 \in Indices
  BY QueueAssumption DEF Indices, At

\* A push into a ring with room leaves it consistent.
LEMMA PushRing ==
  ASSUME NEW f \in Frames, RingInv, Push(f)
  PROVE  RingInv' /\ count' = count + 1 /\ UNCHANGED head
                  /\ \A i \in Indices : slots'[At(head, i)] =
                                          IF i = count THEN f ELSE slots[At(head, i)]
<1>1. /\ count < Capacity
      /\ slots' = [slots EXCEPT ![tail] = f]
      /\ tail' = After(tail)
      /\ count' = count + 1
      /\ UNCHANGED <<head, result>>
  BY DEF Push
<1>2. /\ slots' \in [Indices -> Frames \cup {NoFrame}]
      /\ tail' \in Indices
      /\ count' \in 0 .. Capacity
      /\ count \in Indices
  BY <1>1, NextIndex, QueueAssumption DEF RingInv, Indices
<1>3. tail' = At(head', count')
  BY <1>1, <1>2, NextIndex, AtNext DEF RingInv
<1>4. ASSUME NEW i \in Indices
      PROVE  /\ slots'[At(head, i)] = IF i = count THEN f ELSE slots[At(head, i)]
             /\ (slots'[At(head', i)] # NoFrame) <=> (i < count')
  <2>1. i \in 0 .. Capacity /\ i \in Int
    BY QueueAssumption DEF Indices
  <2>2. At(head, i) = tail <=> i = count
    BY <1>2, AtIndex DEF RingInv
  <2>3. slots'[At(head, i)] = IF i = count THEN f ELSE slots[At(head, i)]
    BY <1>1, <2>1, <2>2, AtIndex DEF RingInv
  <2>4. (slots[At(head, i)] # NoFrame) <=> (i < count)
    BY DEF RingInv
  <2>5. f # NoFrame
    BY QueueAssumption
  <2>6. i < count' <=> (i < count \/ i = count)
    BY <1>1, <2>1, QueueAssumption DEF RingInv
  <2> QED
    BY <1>1, <2>3, <2>4, <2>5, <2>6 DEF RingInv
<1> QED
  BY <1>1, <1>2, <1>3, <1>4 DEF RingInv

\* What is dequeued is a frame, and the ring stays consistent.
LEMMA DequeueRing ==
  ASSUME NEW c \in Consumers, RingInv, count # 0, Dequeue(c)
  PROVE  /\ RingInv'
         /\ count' = count - 1
         /\ slots[head] \in Frames
         /\ \A i \in Indices : i < count' => slots'[At(head', i)] = slots[At(head, i + 1)]
<1>1. /\ result' = [result EXCEPT ![c] = slots[head]]
      /\ slots' = [slots EXCEPT ![head] = NoFrame]
      /\ head' = After(head)
      /\ count' = count - 1
      /\ UNCHANGED tail
  BY DEF Dequeue
<1>2. /\ slots' \in [Indices -> Frames \cup {NoFrame}]
      /\ head' = At(head, 1)
      /\ head' \in Indices
      /\ count' \in 0 .. Capacity
      /\ count' \in Indices
      /\ count = count' + 1
      /\ result' \in [Consumers -> Frames \cup {NoFrame, EndOfStream}]
  BY <1>1, NextIndex, QueueAssumption DEF RingInv, Indices
<1>3. tail' = At(head', count')
  BY <1>1, <1>2, AtNext DEF RingInv
<1>4. ASSUME NEW i \in Indices
      PROVE  /\ (slots'[At(head', i)] # NoFrame) <=> (i < count')
             /\ i < count' => slots'[At(head', i)] = slots[At(head, i + 1)]
  <2>1. At(head', i) = At(head, i + 1) /\ i \in Int
    BY <1>2, AtNext DEF RingInv, Indices
  <2>2. CASE i + 1 = Capacity
    <3>1. At(head', i) = head
      BY <2>1, <2>2, AtNext DEF RingInv
    <3>2. slots'[head] = NoFrame
      BY <1>1 DEF RingInv
    <3>3. ~(i < count')
      BY <1>1, <2>1, <2>2, QueueAssumption DEF RingInv
    <3> QED
      BY <3>1, <3>2, <3>3
  <2>3. CASE i + 1 # Capacity
    <3>1. i + 1 \in Indices /\ 0 \in Indices /\ i + 1 # 0
      BY <2>3, QueueAssumption DEF Indices
    <3>2. At(head, i + 1) # head /\ At(head, i + 1) \in Indices
      <4>1. At(head, 0) = head /\ At(head, i + 1) # At(head, 0)
        BY <3>1, AtIndex DEF RingInv
      <4>2. i + 1 \in 0 .. Capacity
        BY <3>1, QueueAssumption DEF Indices
      <4> QED
        BY <4>1, <4>2, AtIndex DEF RingInv
    <3>3. slots'[At(head', i)] = slots[At(head, i + 1)]
      BY <1>1, <2>1, <3>2 DEF RingInv
    <3>4. (slots[At(head, i + 1)] # NoFrame) <=> (i + 1 < count)
      BY <3>1 DEF RingInv
    <3>5. i + 1 < count <=> i < count'
      BY <1>1, <2>1, QueueAssumption DEF RingInv
    <3> QED
      BY <3>3, <3>4, <3>5
  <2> QED
    BY <2>2, <2>3
<1>5. slots[head] \in Frames
  <2>1. 0 \in Indices /\ 0 < count /\ At(head, 0) = head
    BY AtIndex, QueueAssumption DEF Indices, RingInv
  <2>2. slots[At(head, 0)] # NoFrame
    BY <2>1 DEF RingInv
  <2> QED
    BY <2>1, <2>2 DEF RingInv
<1> QED
  BY <1>1, <1>2, <1>3, <1>4, <1>5 DEF RingInv

\* The sets of sleeping and of woken consumers are finite.
LEMMA WaitersFinite ==
  /\ IsFiniteSet(Asleep) /\ IsFiniteSet(Woken)
  /\ Cardinality(Woken) \in Nat
<1>1. Asleep \in SUBSET Consumers /\ Woken \in SUBSET Consumers
  BY DEF Asleep, Woken
<1>2. IsFiniteSet(Asleep) /\ IsFiniteSet(Woken)
  BY <1>1, FS_Subset, QueueAssumption
<1> QED
  BY <1>2, FS_CardinalityType

\* One signal for one frame keeps the queued frames covered by woken consumers.
LEMMA SignalWaiters ==
  ASSUME RingInv, WaitInv, Signal, count' = count + 1, UNCHANGED shutdown
  PROVE  WaitInv'
<1>1. CASE Asleep = {}
  <2>1. UNCHANGED pc
    BY <1>1 DEF Signal
  <2>2. Asleep' = {}
    BY <1>1, <2>1 DEF Asleep
  <2> QED
    BY <2>1, <2>2 DEF WaitInv, NoLostWakeup, ShutdownWakesAll
<1>2. CASE Asleep # {}
  <2> PICK c \in Asleep : pc' = [pc EXCEPT ![c] = "woken"]
    BY <1>2 DEF Signal
  <2>1. c \in Consumers /\ pc[c] = "asleep"
    BY DEF Asleep
  <2>2. pc' \in [Consumers -> {"idle", "asleep", "woken"}]
    BY <2>1 DEF WaitInv
  <2>3. Woken' = Woken \cup {c} /\ c \notin Woken
    BY <2>1 DEF Woken, WaitInv
  <2>4. Cardinality(Woken') = Cardinality(Woken) + 1
    BY <2>3, WaitersFinite, FS_AddElement
  <2>5. count <= Cardinality(Woken)
    BY <1>2 DEF WaitInv, NoLostWakeup
  <2>6. NoLostWakeup'
    BY <2>4, <2>5, WaitersFinite DEF NoLostWakeup, RingInv
  <2>7. ShutdownWakesAll'
    BY <1>2 DEF WaitInv, ShutdownWakesAll
  <2> QED
    BY <2>2, <2>6, <2>7 DEF WaitInv
<1> QED
  BY <1>1, <1>2

\* A consumer that stops waiting takes its frame with it: at most one woken
\* consumer fewer for one frame fewer.
LEMMA TakerWaiters ==
  ASSUME NEW c \in Consumers, RingInv, WaitInv, pc[c] # "asleep",
         count' = count - 1, UNCHANGED shutdown, pc' = [pc EXCEPT ![c] = "idle"]
  PROVE  WaitInv'
<1>1. pc' \in [Consumers -> {"idle", "asleep", "woken"}]
  BY DEF WaitInv
<1>2. Asleep' = Asleep /\ Woken' = Woken \ {c}
  BY DEF WaitInv, Asleep, Woken
<1>3. Cardinality(Woken') \in Nat /\ Cardinality(Woken') >= Cardinality(Woken) - 1
  <2>1. Cardinality(Woken \ {c}) = IF c \in Woken THEN Cardinality(Woken) - 1
                                                 ELSE Cardinality(Woken)
    BY WaitersFinite, FS_RemoveElement
  <2>2. Cardinality(Woken) \in Nat /\ Cardinality(Woken \ {c}) \in Nat
    BY WaitersFinite, FS_RemoveElement, FS_CardinalityType
  <2>3. Cardinality(Woken \ {c}) >= Cardinality(Woken) - 1
    BY <2>1, <2>2
  <2> QED
    BY <1>2, <2>2, <2>3
<1>4. NoLostWakeup'
  BY <1>2, <1>3, WaitersFinite DEF RingInv, WaitInv, NoLostWakeup
<1> QED
  BY <1>1, <1>2, <1>4 DEF WaitInv, ShutdownWakesAll

\* One evaluation of the wait loop by a consumer that is not asleep.
LEMMA TestAndPopStep ==
  ASSUME NEW c \in Consumers, RingInv, WaitInv, pc[c] # "asleep", TestAndPop(c)
  PROVE  RingInv' /\ WaitInv'
<1>0. UNCHANGED shutdown
  BY DEF TestAndPop
<1>1. CASE count # 0 /\ Dequeue(c) /\ pc' = [pc EXCEPT ![c] = "idle"]
  BY <1>0, <1>1, DequeueRing, TakerWaiters
<1>2. CASE /\ count = 0
           /\ shutdown
           /\ pc' = [pc EXCEPT ![c] = "idle"]
           /\ result' = [result EXCEPT ![c] = EndOfStream]
           /\ UNCHANGED ring
  <2>1. RingInv'
    BY <1>2 DEF RingInv, ring
  <2>2. pc' \in [Consumers -> {"idle", "asleep", "woken"}]
    BY <1>2 DEF WaitInv
  <2>3. Asleep' = {}
    BY <1>2 DEF WaitInv, ShutdownWakesAll, Asleep
  <2> QED
    BY <1>0, <2>1, <2>2, <2>3 DEF WaitInv, NoLostWakeup, ShutdownWakesAll
<1>3. CASE /\ count = 0
           /\ ~shutdown
           /\ pc' = [pc EXCEPT ![c] = "asleep"]
           /\ result' = [result EXCEPT ![c] = NoFrame]
           /\ UNCHANGED ring
  <2>1. RingInv'
    BY <1>3 DEF RingInv, ring
  <2>2. pc' \in [Consumers -> {"idle", "asleep", "woken"}]
    BY <1>3 DEF WaitInv
  <2>3. Woken' = Woken \ {c}
    BY <1>3 DEF WaitInv, Woken
  <2>4. Cardinality(Woken') \in Nat /\ count' = 0
    BY <1>3, <2>3, WaitersFinite, FS_RemoveElement, FS_CardinalityType DEF ring
  <2>5. NoLostWakeup'
    BY <2>4 DEF NoLostWakeup
  <2> QED
    BY <1>0, <1>3, <2>1, <2>2, <2>5 DEF WaitInv, ShutdownWakesAll
<1> QED
  BY <1>1, <1>2, <1>3 DEF TestAndPop

\* What leaves the ring and the waiting alone leaves the invariant alone.
LEMMA StutterInv ==
  ASSUME RingInv, WaitInv, UNCHANGED vars
  PROVE  RingInv' /\ WaitInv'
  BY DEF vars, RingInv, WaitInv, NoLostWakeup, ShutdownWakesAll, Asleep, Woken

\* Every step of the queue, of any thread, preserves both parts.
LEMMA NextInv == RingInv /\ WaitInv /\ [Next]_vars => RingInv' /\ WaitInv'
<1> SUFFICES ASSUME RingInv, WaitInv, [Next]_vars
             PROVE  RingInv' /\ WaitInv'
  OBVIOUS
<1>1. ASSUME NEW f \in Frames, Push(f)
      PROVE  RingInv' /\ WaitInv'
  <2>1. RingInv' /\ count' = count + 1
    BY <1>1, PushRing
  <2>2. Signal /\ UNCHANGED shutdown
    BY <1>1 DEF Push
  <2> QED
    BY <2>1, <2>2, SignalWaiters
<1>2. ASSUME NEW c \in Consumers, Pop(c)
      PROVE  RingInv' /\ WaitInv'
  <2>1. pc[c] = "idle" /\ UNCHANGED <<shutdown, pc>>
    BY <1>2 DEF Pop
  <2>2. CASE count # 0 /\ Dequeue(c)
    <3>1. pc' = [pc EXCEPT ![c] = "idle"]
      BY <2>1 DEF WaitInv
    <3> QED
      BY <2>1, <2>2, <3>1, DequeueRing, TakerWaiters
  <2>3. CASE count = 0 /\ result' = [result EXCEPT ![c] = NoFrame] /\ UNCHANGED ring
    <3>1. RingInv'
      BY <2>3 DEF RingInv, ring
    <3> QED
      BY <2>1, <2>3, <3>1 DEF ring, WaitInv, NoLostWakeup, ShutdownWakesAll, Asleep, Woken
  <2> QED
    BY <1>2, <2>2, <2>3 DEF Pop
<1>3. ASSUME NEW c \in Consumers, PopBlocking(c) \/ Recheck(c)
      PROVE  RingInv' /\ WaitInv'
  BY <1>3, TestAndPopStep DEF PopBlocking, Recheck
<1>4. ASSUME NEW c \in Consumers, SpuriousWakeup(c)
      PROVE  RingInv' /\ WaitInv'
  <2>1. /\ pc[c] = "asleep"
        /\ pc' = [pc EXCEPT ![c] = "woken"]
        /\ UNCHANGED <<ring, shutdown, result>>
    BY <1>4 DEF SpuriousWakeup
  <2>2. RingInv'
    BY <2>1 DEF RingInv, ring
  <2>3. pc' \in [Consumers -> {"idle", "asleep", "woken"}]
    BY <2>1 DEF WaitInv
  <2>4. c \in Asleep /\ Woken' = Woken \cup {c} /\ c \notin Woken
    BY <2>1 DEF Asleep, Woken, WaitInv
  <2>5. Cardinality(Woken') = Cardinality(Woken) + 1
    BY <2>4, WaitersFinite, FS_AddElement
  <2>6. UNCHANGED count
    BY <2>1 DEF ring
  <2>7. NoLostWakeup'
    BY <2>4, <2>5, <2>6, WaitersFinite DEF RingInv, WaitInv, NoLostWakeup
  <2>8. ~shutdown
    BY <2>4 DEF WaitInv, ShutdownWakesAll
  <2> QED
    BY <2>1, <2>2, <2>3, <2>7, <2>8 DEF WaitInv, ShutdownWakesAll
<1>5. ASSUME Shutdown
      PROVE  RingInv' /\ WaitInv'
  <2>1. RingInv'
    BY <1>5 DEF Shutdown, RingInv, ring
  <2>2. pc' \in [Consumers -> {"idle", "asleep", "woken"}]
    BY <1>5 DEF Shutdown, WaitInv
  <2>3. Asleep' = {}
    BY <1>5 DEF Shutdown, Asleep
  <2> QED
    BY <1>5, <2>1, <2>2, <2>3 DEF Shutdown, WaitInv, NoLostWakeup, ShutdownWakesAll
<1>6. ASSUME Reset
      PROVE  RingInv' /\ WaitInv'
  BY <1>6 DEF Reset, RingInv, ring, WaitInv, NoLostWakeup, ShutdownWakesAll, Asleep, Woken
<1>7. CASE UNCHANGED vars
  BY <1>7, StutterInv
<1> QED
  BY <1>1, <1>2, <1>3, <1>4, <1>5, <1>6, <1>7 DEF Next, ConsumerStep

\* A queue that vf_buf_queue_init has just set up satisfies both parts.
LEMMA InitInv == Init => RingInv /\ WaitInv
<1> SUFFICES ASSUME Init
             PROVE  RingInv /\ WaitInv
  OBVIOUS
<1>1. 0 \in Indices /\ At(0, 0) = 0
  BY QueueAssumption DEF Indices, At
<1>2. ASSUME NEW i \in Indices
      PROVE  slots[At(head, i)] = NoFrame /\ ~(i < count)
  <2>1. At(0, i) \in Indices
    BY QueueAssumption DEF Indices, At
  <2> QED
    BY <2>1, QueueAssumption DEF Init, Indices
<1>3. RingInv
  <2>1. /\ slots \in [Indices -> Frames \cup {NoFrame}]
        /\ head = 0 /\ tail = 0 /\ count = 0
        /\ result \in [Consumers -> Frames \cup {NoFrame, EndOfStream}]
    BY DEF Init
  <2> QED
    BY <1>1, <1>2, <2>1, QueueAssumption DEF RingInv
<1>4. Asleep = {}
  BY DEF Init, Asleep
<1>5. shutdown = FALSE /\ pc \in [Consumers -> {"idle", "asleep", "woken"}]
  BY DEF Init
<1> QED
  BY <1>3, <1>4, <1>5 DEF WaitInv, NoLostWakeup, ShutdownWakesAll

\* Both parts hold in every reachable state.
LEMMA QueueInvariant == Spec => [](RingInv /\ WaitInv)
  BY InitInv, NextInv, PTL DEF Spec

\* The variables stay in their types: count never passes the capacity, and
\* both cursors stay inside the array.
THEOREM QueueTypeOK == Spec => []TypeOK
<1>1. RingInv /\ WaitInv => TypeOK
  BY DEF RingInv, WaitInv, TypeOK
<1> QED
  BY <1>1, QueueInvariant, PTL

\* tail is count places after head, and the occupied slots lie between them.
THEOREM QueueRingConsistent == Spec => []RingConsistent
<1>1. RingInv => RingConsistent
  <2> SUFFICES ASSUME RingInv
               PROVE  RingConsistent
    OBVIOUS
  <2>1. Place(count) = At(head, count)
    BY Wrap DEF RingInv, Place
  <2>2. ASSUME NEW i \in Indices
        PROVE  Place(i) = At(head, i)
    <3>1. i \in 0 .. Capacity
      BY QueueAssumption DEF Indices
    <3> QED
      BY <3>1, Wrap DEF RingInv, Place
  <2> QED
    BY <2>1, <2>2 DEF RingInv, RingConsistent
<1> QED
  BY <1>1, QueueInvariant, PTL

\* Signalling one consumer per push loses no wake-up.
THEOREM QueueNoLostWakeup == Spec => []NoLostWakeup
<1>1. RingInv /\ WaitInv => NoLostWakeup
  BY DEF WaitInv
<1> QED
  BY <1>1, QueueInvariant, PTL

\* Once the shutdown flag is set nobody sleeps on the queue.
THEOREM QueueShutdownWakesAll == Spec => []ShutdownWakesAll
<1>1. RingInv /\ WaitInv => ShutdownWakesAll
  BY DEF WaitInv
<1> QED
  BY <1>1, QueueInvariant, PTL

-----------------------------------------------------------------------------
(* The ring implements the channel.                                        *)

\* What the n places of a ring s after h hold, oldest first.
Held(s, h, n) == [i \in 1 .. n |-> s[(h + (i - 1)) % Capacity]]

\* In a consistent ring that is a sequence of n frames.
LEMMA RingContents ==
  ASSUME NEW s \in [Indices -> Frames \cup {NoFrame}],
         NEW h \in Indices,
         NEW n \in 0 .. Capacity,
         \A i \in Indices : (s[At(h, i)] # NoFrame) <=> (i < n)
  PROVE  /\ Held(s, h, n) \in Seq(Frames)
         /\ Len(Held(s, h, n)) = n
         /\ \A i \in Indices : i < n => Held(s, h, n)[i + 1] = s[At(h, i)]
<1> DEFINE q == [i \in 1 .. n |-> s[(h + (i - 1)) % Capacity]]
<1>1. ASSUME NEW i \in 1 .. n
      PROVE  q[i] = s[At(h, i - 1)] /\ q[i] \in Frames
  <2>1. i - 1 \in Indices /\ i - 1 \in 0 .. Capacity /\ i - 1 < n
    BY QueueAssumption DEF Indices
  <2>2. At(h, i - 1) = (h + (i - 1)) % Capacity
    BY <2>1, Wrap
  <2>3. s[At(h, i - 1)] \in Frames
    BY <2>1, AtIndex
  <2> QED
    BY <2>2, <2>3
<1>2. q \in [1 .. n -> Frames]
  BY <1>1
<1>3. n \in Nat
  BY QueueAssumption
<1>4. q \in Seq(Frames) /\ Len(q) = n
  BY <1>2, <1>3
<1>5. ASSUME NEW i \in Indices, i < n
      PROVE  q[i + 1] = s[At(h, i)]
  <2>1. i + 1 \in 1 .. n /\ (i + 1) - 1 = i
    BY <1>3, <1>5, QueueAssumption DEF Indices
  <2> QED
    BY <1>1, <2>1
<1> QED
  BY <1>4, <1>5 DEF Held

\* ... for the queue before a step ...
LEMMA ContentsBefore ==
  ASSUME RingInv
  PROVE  /\ Contents \in Seq(Frames)
         /\ Len(Contents) = count
         /\ \A i \in Indices : i < count => Contents[i + 1] = slots[At(head, i)]
<1>1. Contents = Held(slots, head, count)
  BY DEF Contents, Place, Held
<1>2. /\ slots \in [Indices -> Frames \cup {NoFrame}]
      /\ head \in Indices
      /\ count \in 0 .. Capacity
      /\ \A i \in Indices : (slots[At(head, i)] # NoFrame) <=> (i < count)
  BY DEF RingInv
<1> QED
  BY <1>1, <1>2, RingContents

\* ... and after it.
LEMMA ContentsAfter ==
  ASSUME RingInv'
  PROVE  /\ Contents' \in Seq(Frames)
         /\ Len(Contents') = count'
         /\ \A i \in Indices : i < count' => Contents'[i + 1] = slots'[At(head', i)]
<1>1. /\ slots' \in [Indices -> Frames \cup {NoFrame}]
      /\ head' \in Indices
      /\ count' \in 0 .. Capacity
      /\ \A i \in Indices : (slots'[At(head', i)] # NoFrame) <=> (i < count')
  BY DEF RingInv
<1>2. Contents' = Held(slots', head', count')
  BY DEF Contents, Place, Held
<1> QED
  BY <1>1, <1>2, RingContents

\* The channel is empty exactly when the counter is zero.
LEMMA EmptyContents ==
  ASSUME RingInv
  PROVE  count = 0 <=> Contents = <<>>
  BY ContentsBefore, EmptySeq

\* A push appends to the contents.
LEMMA PushContents ==
  ASSUME NEW f \in Frames, RingInv, Push(f)
  PROVE  Contents' = Append(Contents, f)
<1>1. /\ RingInv'
      /\ count' = count + 1
      /\ UNCHANGED head
      /\ \A i \in Indices :
            slots'[At(head, i)] = IF i = count THEN f ELSE slots[At(head, i)]
  BY PushRing
<1>2. /\ Contents' \in Seq(Frames) /\ Len(Contents') = count + 1
      /\ \A i \in Indices : i < count + 1 => Contents'[i + 1] = slots'[At(head, i)]
  BY <1>1, ContentsAfter
<1>3. /\ Append(Contents, f) \in Seq(Frames)
      /\ Len(Append(Contents, f)) = count + 1
      /\ \A i \in 1 .. count + 1 :
            Append(Contents, f)[i] = IF i = count + 1 THEN f ELSE Contents[i]
  BY ContentsBefore
<1>4. ASSUME NEW j \in 1 .. count + 1
      PROVE  Contents'[j] = Append(Contents, f)[j]
  <2>1. /\ j - 1 \in Indices /\ (j - 1) + 1 = j /\ j - 1 < count + 1
        /\ j - 1 = count <=> j = count + 1
        /\ j # count + 1 => j - 1 < count
    BY <1>1, QueueAssumption DEF RingInv, Indices
  <2>2. Contents'[j] = IF j = count + 1 THEN f ELSE slots[At(head, j - 1)]
    BY <1>1, <1>2, <2>1
  <2>3. j # count + 1 => Contents[j] = slots[At(head, j - 1)]
    BY <2>1, ContentsBefore
  <2> QED
    BY <1>3, <2>2, <2>3
<1> QED
  BY <1>2, <1>3, <1>4, SeqEqual

\* What is dequeued is the head of the contents, and their tail remains.
LEMMA DequeueContents ==
  ASSUME NEW c \in Consumers, RingInv, count # 0, Dequeue(c)
  PROVE  /\ Contents # <<>>
         /\ slots[head] = Head(Contents)
         /\ Contents' = Tail(Contents)
<1>1. /\ RingInv'
      /\ count' = count - 1
      /\ \A i \in Indices : i < count' => slots'[At(head', i)] = slots[At(head, i + 1)]
  BY DequeueRing
<1>2. /\ Contents' \in Seq(Frames) /\ Len(Contents') = count - 1
      /\ \A i \in Indices : i < count' => Contents'[i + 1] = slots'[At(head', i)]
  BY <1>1, ContentsAfter
<1>3. Contents # <<>>
  BY EmptyContents
<1>4. /\ Tail(Contents) \in Seq(Frames) /\ Len(Tail(Contents)) = count - 1
      /\ \A i \in 1 .. count - 1 : Tail(Contents)[i] = Contents[i + 1]
  BY <1>3, ContentsBefore, HeadTailProperties
<1>5. slots[head] = Head(Contents)
  <2>1. 0 \in Indices /\ 0 < count /\ 0 + 1 = 1 /\ At(head, 0) = head
    BY AtIndex, QueueAssumption DEF RingInv, Indices
  <2>2. Contents[1] = slots[head]
    BY <2>1, ContentsBefore
  <2> QED
    BY <1>3, <2>2, ContentsBefore
<1>6. ASSUME NEW j \in 1 .. count - 1
      PROVE  Contents'[j] = Tail(Contents)[j]
  <2>1. /\ j - 1 \in Indices /\ (j - 1) + 1 = j /\ j - 1 < count'
        /\ j \in Indices /\ j < count
    BY <1>1, QueueAssumption DEF RingInv, Indices
  <2>2. Contents'[j] = slots[At(head, j)]
    BY <1>1, <1>2, <2>1
  <2>3. Contents[j + 1] = slots[At(head, j)]
    BY <2>1, ContentsBefore
  <2> QED
    BY <1>4, <2>2, <2>3
<1>7. Contents' = Tail(Contents)
  BY <1>2, <1>4, <1>6, SeqEqual
<1> QED
  BY <1>3, <1>5, <1>7

\* A dequeue by a consumer is a Get of the channel.
LEMMA DequeueIsGet ==
  ASSUME NEW c \in Consumers, RingInv, count # 0, Dequeue(c), UNCHANGED shutdown
  PROVE  Fifo!Get(c)
  BY DequeueContents DEF Dequeue, Fifo!Get

\* A step that leaves the ring alone leaves the contents alone.
LEMMA SameContents ==
  ASSUME UNCHANGED ring
  PROVE  UNCHANGED Contents
  BY DEF ring, Contents, Place

\* Every evaluation of the wait loop is a Get, a Refuse or an Ask.
LEMMA TestAndPopIsFifo ==
  ASSUME NEW c \in Consumers, RingInv, TestAndPop(c)
  PROVE  Fifo!Get(c) \/ Fifo!Refuse(c) \/ Fifo!Ask(c)
<1>0. UNCHANGED shutdown
  BY DEF TestAndPop
<1>1. CASE count # 0 /\ Dequeue(c)
  BY <1>0, <1>1, DequeueIsGet
<1>2. CASE /\ count = 0
           /\ shutdown
           /\ result' = [result EXCEPT ![c] = EndOfStream]
           /\ UNCHANGED ring
  BY <1>0, <1>2, EmptyContents, SameContents DEF Fifo!Refuse
<1>3. CASE /\ count = 0
           /\ result' = [result EXCEPT ![c] = NoFrame]
           /\ UNCHANGED ring
  BY <1>0, <1>3, EmptyContents, SameContents DEF Fifo!Ask
<1> QED
  BY <1>1, <1>2, <1>3 DEF TestAndPop

\* Every step of the queue is a step of the channel, or changes nothing of it.
LEMMA NextIsFifo == RingInv /\ [Next]_vars => [Fifo!Next]_(Fifo!fifoVars)
<1> SUFFICES ASSUME RingInv, [Next]_vars
             PROVE  [Fifo!Next]_(Fifo!fifoVars)
  OBVIOUS
<1>1. ASSUME NEW f \in Frames, Push(f)
      PROVE  Fifo!Next
  <2>1. Contents' = Append(Contents, f)
    BY <1>1, PushContents
  <2>2. Len(Contents) < Capacity /\ UNCHANGED <<shutdown, result>>
    BY <1>1, ContentsBefore DEF Push
  <2>3. Fifo!Put(f)
    BY <2>1, <2>2 DEF Fifo!Put
  <2> QED
    BY <2>3 DEF Fifo!Next
<1>2. ASSUME NEW c \in Consumers, Pop(c)
      PROVE  Fifo!Next
  <2>1. CASE count # 0 /\ Dequeue(c)
    <3>1. Fifo!Get(c)
      BY <1>2, <2>1, DequeueIsGet DEF Pop
    <3> QED
      BY <3>1 DEF Fifo!Next
  <2>2. CASE count = 0 /\ result' = [result EXCEPT ![c] = NoFrame] /\ UNCHANGED ring
    <3>1. Fifo!Ask(c)
      BY <1>2, <2>2, EmptyContents, SameContents DEF Pop, Fifo!Ask
    <3> QED
      BY <3>1 DEF Fifo!Next
  <2> QED
    BY <1>2, <2>1, <2>2 DEF Pop
<1>3. ASSUME NEW c \in Consumers, PopBlocking(c) \/ Recheck(c)
      PROVE  Fifo!Next
  BY <1>3, TestAndPopIsFifo DEF PopBlocking, Recheck, Fifo!Next
<1>4. ASSUME NEW c \in Consumers, SpuriousWakeup(c)
      PROVE  UNCHANGED Fifo!fifoVars
  BY <1>4, SameContents DEF SpuriousWakeup, Fifo!fifoVars
<1>5. ASSUME Shutdown
      PROVE  Fifo!Next
  BY <1>5, SameContents DEF Shutdown, Fifo!Next, Fifo!Close
<1>6. ASSUME Reset
      PROVE  Fifo!Next
  BY <1>6, SameContents DEF Reset, Fifo!Next, Fifo!Reopen
<1>7. CASE UNCHANGED vars
  BY <1>7, SameContents DEF vars, ring, Fifo!fifoVars
<1> QED
  BY <1>1, <1>2, <1>3, <1>4, <1>5, <1>6, <1>7 DEF Next, ConsumerStep

\* The ring, its lock and its condition variable implement the closable
\* channel: frames come out once each, in push order, none lost by a shutdown.
THEOREM QueueImplementsFifo == Spec => ImplementsFifo
<1>1. Init => Fifo!Init
  <2> SUFFICES ASSUME Init
               PROVE  Fifo!Init
    OBVIOUS
  <2>1. RingInv /\ count = 0 /\ shutdown = FALSE
        /\ result = [c \in Consumers |-> NoFrame]
    BY InitInv DEF Init
  <2> QED
    BY <2>1, EmptyContents DEF Fifo!Init
<1>2. RingInv /\ [Next]_vars => [Fifo!Next]_(Fifo!fifoVars)
  BY NextIsFifo
<1> QED
  BY <1>1, <1>2, QueueInvariant, PTL DEF Spec, ImplementsFifo, Fifo!Spec
=============================================================================
