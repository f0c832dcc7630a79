------------------------------ MODULE BufQueue ------------------------------
(***************************************************************************)
(* The frame queue between two units, service/src/buffer-mgr/              *)
(* vf-buff-queue.c: a ring of frame pointers guarded by one mutex, and a   *)
(* condition variable on which vf_buf_queue_pop_blocking waits.            *)
(*                                                                         *)
(* As in BufPool, a critical section is one action, and pthread_cond_wait  *)
(* separates two of them.                                                  *)
(***************************************************************************)
EXTENDS Naturals, Sequences, FiniteSets

CONSTANTS Consumers,   \* the threads that pop
          Frames,      \* the frame pointers that are pushed
          Capacity,    \* queue->capacity
          NoFrame,     \* NULL
          EndOfStream  \* VF_QUEUE_SHUTDOWN

ASSUME QueueAssumption == /\ IsFiniteSet(Consumers)
                          /\ Capacity \in Nat \ {0}
                          /\ NoFrame \notin Frames
                          /\ EndOfStream \notin Frames \cup {NoFrame}

VARIABLES slots, head, tail, count,  \* the ring
          shutdown,                  \* queue->shutdown
          pc,       \* per consumer: "idle", "asleep" in cond_wait, or "woken"
          result    \* per consumer: what the last pop stored or returned

ring == <<slots, head, tail, count>>

vars == <<slots, head, tail, count, shutdown, pc, result>>

Indices == 0 .. Capacity - 1

Asleep == {c \in Consumers : pc[c] = "asleep"}

Woken == {c \in Consumers : pc[c] = "woken"}

After(i) == (i + 1) % Capacity

-----------------------------------------------------------------------------

Init == /\ slots = [i \in Indices |-> NoFrame]
        /\ head = 0
        /\ tail = 0
        /\ count = 0
        /\ shutdown = FALSE
        /\ pc = [c \in Consumers |-> "idle"]
        /\ result = [c \in Consumers |-> NoFrame]

\* Mutant: push without pthread_cond_signal.
NoSignal == UNCHANGED pc

\* pthread_cond_signal: one sleeper wakes, if there is one.
Signal ==
    IF Asleep = {}
    THEN UNCHANGED pc
    ELSE \E c \in Asleep : pc' = [pc EXCEPT ![c] = "woken"]

\* Mutant: off by one in the fullness test.
PushOverFull(f) ==
    /\ count <= Capacity
    /\ slots' = [slots EXCEPT ![tail] = f]
    /\ tail' = After(tail)
    /\ count' = count + 1
    /\ Signal
    /\ UNCHANGED <<head, shutdown, result>>

\* vf_buf_queue_push; on a full queue it returns VF_OOM and changes nothing.
Push(f) ==
    /\ count < Capacity
    /\ slots' = [slots EXCEPT ![tail] = f]
    /\ tail' = After(tail)
    /\ count' = count + 1
    /\ Signal
    /\ UNCHANGED <<head, shutdown, result>>

Dequeue(c) ==
    /\ result' = [result EXCEPT ![c] = slots[head]]
    /\ slots' = [slots EXCEPT ![head] = NoFrame]
    /\ head' = After(head)
    /\ count' = count - 1
    /\ UNCHANGED tail

\* vf_buf_queue_pop: it never waits; on an empty queue only *out_fb changes.
Pop(c) ==
    /\ pc[c] = "idle"
    /\ \/ /\ count # 0
          /\ Dequeue(c)
       \/ /\ count = 0
          /\ result' = [result EXCEPT ![c] = NoFrame]
          /\ UNCHANGED ring
    /\ UNCHANGED <<shutdown, pc>>

\* Mutant: the flag is looked at before the count, so that a shutdown
\* refuses a consumer while frames are still queued.
ShutdownFirst(c) ==
    /\ \/ /\ shutdown
          /\ pc' = [pc EXCEPT ![c] = "idle"]
          /\ result' = [result EXCEPT ![c] = EndOfStream]
          /\ UNCHANGED ring
       \/ /\ ~shutdown
          /\ count # 0
          /\ Dequeue(c)
          /\ pc' = [pc EXCEPT ![c] = "idle"]
       \/ /\ ~shutdown
          /\ count = 0
          /\ pc' = [pc EXCEPT ![c] = "asleep"]
          /\ result' = [result EXCEPT ![c] = NoFrame]
          /\ UNCHANGED ring
    /\ UNCHANGED shutdown

\* The loop of vf_buf_queue_pop_blocking, from one evaluation of its
\* condition to the return or to the next pthread_cond_wait.
TestAndPop(c) ==
    /\ \/ /\ count # 0
          /\ Dequeue(c)
          /\ pc' = [pc EXCEPT ![c] = "idle"]
       \/ /\ count = 0
          /\ shutdown
          /\ pc' = [pc EXCEPT ![c] = "idle"]
          /\ result' = [result EXCEPT ![c] = EndOfStream]
          /\ UNCHANGED ring
       \/ /\ count = 0
          /\ ~shutdown
          /\ pc' = [pc EXCEPT ![c] = "asleep"]
          /\ result' = [result EXCEPT ![c] = NoFrame]
          /\ UNCHANGED ring
    /\ UNCHANGED shutdown

PopBlocking(c) == pc[c] = "idle" /\ TestAndPop(c)

\* A woken consumer has the mutex again and re-evaluates the loop condition.
Recheck(c) == pc[c] = "woken" /\ TestAndPop(c)

\* POSIX lets pthread_cond_wait return without a signal.
SpuriousWakeup(c) ==
    /\ pc[c] = "asleep"
    /\ pc' = [pc EXCEPT ![c] = "woken"]
    /\ UNCHANGED <<ring, shutdown, result>>

\* Mutant: pthread_cond_signal where the code broadcasts.
ShutdownSignalsOne ==
    /\ shutdown' = TRUE
    /\ Signal
    /\ UNCHANGED <<ring, result>>

\* vf_buf_queue_shutdown: the flag and the broadcast, under the lock.
Shutdown ==
    /\ shutdown' = TRUE
    /\ pc' = [c \in Consumers |-> IF pc[c] = "asleep" THEN "woken" ELSE pc[c]]
    /\ UNCHANGED <<ring, result>>

\* vf_buf_queue_reset: only the flag; frames left in the ring stay there.
Reset ==
    /\ shutdown' = FALSE
    /\ UNCHANGED <<ring, pc, result>>

ConsumerStep(c) ==
    \/ Pop(c)
    \/ PopBlocking(c)
    \/ Recheck(c)
    \/ SpuriousWakeup(c)

Next == \/ \E f \in Frames : Push(f)
        \/ \E c \in Consumers : ConsumerStep(c)
        \/ Shutdown
        \/ Reset

\* A runnable consumer gets the mutex; nothing obliges anyone to push or pop.
Fairness == \A c \in Consumers : WF_vars(Recheck(c))

Spec == Init /\ [][Next]_vars /\ Fairness

-----------------------------------------------------------------------------

TypeOK == /\ slots \in [Indices -> Frames \cup {NoFrame}]
          /\ head \in Indices
          /\ tail \in Indices
          /\ count \in 0 .. Capacity
          /\ shutdown \in BOOLEAN
          /\ pc \in [Consumers -> {"idle", "asleep", "woken"}]
          /\ result \in [Consumers -> Frames \cup {NoFrame, EndOfStream}]

\* The i-th oldest frame of the ring is i places after head.
Place(i) == (head + i) % Capacity

\* The three cursors of the ring never drift apart: tail is count places
\* after head, and the occupied slots are exactly those between them.
RingConsistent ==
    /\ tail = Place(count)
    /\ \A i \in Indices : (slots[Place(i)] # NoFrame) <=> (i < count)

\* push signals one consumer, not all: while a consumer sleeps, every queued
\* frame is still covered by a consumer that was woken and has not run yet.
NoLostWakeup == Asleep # {} => count <= Cardinality(Woken)

\* After vf_buf_queue_shutdown nobody sleeps on the queue, including a
\* consumer that tested the flag just before it was set.
ShutdownWakesAll == shutdown => Asleep = {}

\* Queued frames do not stay unclaimed while a consumer sleeps.
FrameIsClaimed ==
    (count # 0 /\ Asleep # {}) ~> (count = 0 \/ Asleep = {})

Contents == [i \in 1 .. count |-> slots[Place(i - 1)]]

Fifo == INSTANCE FrameFifo WITH contents <- Contents,
                                closed <- shutdown,
                                answer <- result

\* The ring implements the closable channel: frames come out once each, in
\* push order, and end-of-stream is only ever reported on an empty queue.
ImplementsFifo == Fifo!Spec
=============================================================================
