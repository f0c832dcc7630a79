------------------------------ MODULE VfService ------------------------------
(***************************************************************************)
(* The camera service: four units, each on its own thread, joined by three *)
(* queues, fed from two pools, and started and stopped by a controller.    *)
(*                                                                         *)
(*   pool_in --> 1 camera --q1--> 2 stream provider --q2--> 3 conversion   *)
(*                 pool_out --> 3 conversion --q3--> 4 file --> disk       *)
(*                                                                         *)
(* A unit's thread runs get_data, process_data and send_data in a loop     *)
(* (core/vf-processing-unit.c).  Pool and queue calls are single actions   *)
(* here, enabled when they can return: BufPool and BufQueue are the models *)
(* of what happens inside them.  Starts and stops come from the control    *)
(* thread or from main, one at a time, and a start is only asked of a      *)
(* stopped service.                                                        *)
(***************************************************************************)
EXTENDS Naturals, Sequences, FiniteSets, SequencesExt

CONSTANTS PoolSlots,         \* POOL_SLOT_COUNT: the slots of each pool
          QueueCapacity,     \* VF_BUF_QUEUE_MAX_CAPACITY
          MaxStarts,         \* bound: how often the service is started
          MaxCreateFailures  \* bound: how often pthread_create fails

ASSUME ServiceAssumption == /\ PoolSlots \in Nat \ {0}
                            /\ QueueCapacity \in Nat \ {0}
                            /\ MaxStarts \in Nat
                            /\ MaxCreateFailures \in Nat

NULL == 0
InSlots == 1 .. PoolSlots
OutSlots == PoolSlots + 1 .. 2 * PoolSlots
AllSlots == InSlots \cup OutSlots

Camera == 1
Provider == 2
Conversion == 3
FileOut == 4
Units == 1 .. 4
Queues == 1 .. 3   \* queue u leads from unit u to unit u + 1

VARIABLES
    busy,       \* the slots of both pools whose in_use flag is set
    poolDown,   \* the pools ("in", "out") whose shutdown flag is set
    queue,      \* per queue: its frames, oldest first
    queueDown,  \* the queues whose shutdown flag is set
    running,    \* the units whose running flag is set
    pc,         \* per unit: where its thread is, "none" when it has none
    fb,         \* per unit: current_fb, and in_fb for the conversion unit
    outFb,      \* the conversion unit's out_fb
    refs,       \* per pool_in slot: the frame's ref_count
    ctl,        \* the call the controller is in, and how far it got
    starts, failures,  \* what MaxStarts and MaxCreateFailures bound
    order       \* history: frames captured and not yet written or lost

pools == <<busy, poolDown>>
threads == <<running, pc>>
frames == <<fb, outFb, refs>>
control == <<ctl, starts, failures>>
vars == <<busy, poolDown, queue, queueDown, running, pc, fb, outFb, refs, ctl,
          starts, failures, order>>

Init == /\ busy = {}
        /\ poolDown = {}
        /\ queue = [q \in Queues |-> <<>>]
        /\ queueDown = {}
        /\ running = {}
        /\ pc = [u \in Units |-> "none"]
        /\ fb = [u \in Units |-> NULL]
        /\ outFb = NULL
        /\ refs = [s \in InSlots |-> 0]
        /\ ctl = [phase |-> "stopped", unit |-> 0, step |-> "none"]
        /\ starts = 0
        /\ failures = 0
        /\ order = <<>>

-----------------------------------------------------------------------------
(* Pools, queues and reference counts, as the units see them.              *)

\* Mutant: the slot that is handed out is not marked as used.
AcquireUnmarked(slots, s) ==
    /\ s \in slots \ busy
    /\ \A r \in slots \ busy : s <= r
    /\ UNCHANGED <<busy, poolDown>>

\* acquire_blocking returning the lowest free slot s of a pool.
AcquireSlot(slots, s) ==
    /\ s \in slots \ busy
    /\ \A r \in slots \ busy : s <= r
    /\ busy' = busy \cup {s}
    /\ UNCHANGED poolDown

\* acquire_blocking returning VF_QUEUE_SHUTDOWN.
PoolShutDown(pool, slots) == slots \subseteq busy /\ pool \in poolDown

ReleaseSlot(s) == busy' = busy \ {s} /\ UNCHANGED poolDown

CONSUMER_COUNT == 1

\* Mutant: the provider believes that two units will drop the frame.
TwoReferences(s) == refs' = [refs EXCEPT ![s] = @ + 2]

\* Mutant: the provider forgets to take the consumers' references.
NoReference(s) == UNCHANGED refs

\* One vf_framebuffer_ref per consumer.
Ref(s) == refs' = [refs EXCEPT ![s] = @ + CONSUMER_COUNT]

\* vf_framebuffer_unref: the last reference, or a frame without any, goes
\* back to its pool.
Unref(s) ==
    /\ refs' = [refs EXCEPT ![s] = IF @ = 0 THEN 0 ELSE @ - 1]
    /\ IF refs[s] <= 1 THEN ReleaseSlot(s) ELSE UNCHANGED pools

Room(q) == Len(queue[q]) < QueueCapacity

Push(q, s) == queue' = [queue EXCEPT ![q] = Append(@, s)]

\* Mutant: the youngest frame of the queue is popped.
PopYoungest(u, s) ==
    /\ queue[u - 1] # <<>>
    /\ s = Last(queue[u - 1])
    /\ queue' = [queue EXCEPT ![u - 1] = Front(@)]

\* pop_blocking on unit u's in_queue returning frame s ...
PopFrame(u, s) ==
    /\ queue[u - 1] # <<>>
    /\ s = Head(queue[u - 1])
    /\ queue' = [queue EXCEPT ![u - 1] = Tail(@)]

\* ... or returning VF_QUEUE_SHUTDOWN.
QueueShutDown(u) == queue[u - 1] = <<>> /\ u - 1 \in queueDown

Forget(s) == order' = RemoveFirst(order, s)

-----------------------------------------------------------------------------
(* The unit threads.                                                       *)

Goto(u, from, to) == pc[u] = from /\ pc' = [pc EXCEPT ![u] = to]

\* The head of the loop of vf_unit_thread_fn.  get_data begins by handing
\* the address of the unit's frame pointer to the pool or to the queue, and
\* those store NULL in it before anything else: whatever it held is gone.
BeginRun(u) ==
    /\ \/ /\ u \in running
          /\ Goto(u, "loop", "get")
          /\ fb' = [fb EXCEPT ![u] = NULL]
          /\ Forget(fb[u])
       \/ /\ u \notin running
          /\ Goto(u, "loop", "done")
          /\ UNCHANGED <<fb, order>>
    /\ UNCHANGED <<pools, queue, queueDown, running, outFb, refs, control>>

\* A get_data or process_data that returns VF_QUEUE_SHUTDOWN ends the thread.
\* Where it had a frame in its pointer, the pointer keeps it.
GiveUp(u) ==
    /\ \/ /\ Goto(u, "get", "done")
          /\ \/ u = Camera /\ PoolShutDown("in", InSlots)
             \/ u # Camera /\ QueueShutDown(u)
       \/ /\ u = Conversion
          /\ Goto(u, "process", "done")
          /\ PoolShutDown("out", OutSlots)
    /\ UNCHANGED <<pools, queue, queueDown, running, frames, control, order>>

\* vf_camera_unit_get_data.  In a started camera vf_camera_acquire_frame
\* always returns VF_SUCCESS: its failures are reported as VF_ERROR_MIN = 0.
CameraGet ==
    /\ Goto(Camera, "get", "send")
    /\ \E s \in InSlots :
        /\ AcquireSlot(InSlots, s)
        /\ fb' = [fb EXCEPT ![Camera] = s]
        /\ order' = Append(order, s)
    /\ UNCHANGED <<queue, queueDown, running, outFb, refs, control>>

\* Mutant: the slot of a dropped frame is released, its pointer kept.
CameraSendDangling ==
    /\ Goto(Camera, "send", "loop")
    /\ \/ /\ Room(Camera)
          /\ Push(Camera, fb[Camera])
          /\ fb' = [fb EXCEPT ![Camera] = NULL]
          /\ UNCHANGED <<pools, order>>
       \/ /\ ~Room(Camera)
          /\ ReleaseSlot(fb[Camera])
          /\ Forget(fb[Camera])
          /\ UNCHANGED <<queue, fb>>
    /\ UNCHANGED <<queueDown, running, outFb, refs, control>>

\* vf_camera_unit_send_data; on a full queue the frame is dropped.
CameraSend ==
    /\ Goto(Camera, "send", "loop")
    /\ fb' = [fb EXCEPT ![Camera] = NULL]
    /\ \/ /\ Room(Camera)
          /\ Push(Camera, fb[Camera])
          /\ UNCHANGED <<pools, order>>
       \/ /\ ~Room(Camera)
          /\ ReleaseSlot(fb[Camera])
          /\ Forget(fb[Camera])
          /\ UNCHANGED queue
    /\ UNCHANGED <<queueDown, running, outFb, refs, control>>

\* vf_stream_provider_unit_get_data
ProviderGet ==
    /\ Goto(Provider, "get", "send")
    /\ \E s \in InSlots :
        /\ PopFrame(Provider, s)
        /\ fb' = [fb EXCEPT ![Provider] = s]
        /\ Ref(s)
    /\ UNCHANGED <<pools, queueDown, running, outFb, control, order>>

\* vf_stream_provider_unit_send_data; on a full queue the frame is dropped.
ProviderSend ==
    /\ Goto(Provider, "send", "loop")
    /\ fb' = [fb EXCEPT ![Provider] = NULL]
    /\ \/ /\ Room(Provider)
          /\ Push(Provider, fb[Provider])
          /\ UNCHANGED <<pools, refs, order>>
       \/ /\ ~Room(Provider)
          /\ Unref(fb[Provider])
          /\ Forget(fb[Provider])
          /\ UNCHANGED queue
    /\ UNCHANGED <<queueDown, running, outFb, control>>

\* vf_conversion_unit_get_data
ConversionGet ==
    /\ Goto(Conversion, "get", "process")
    /\ \E s \in InSlots :
        /\ PopFrame(Conversion, s)
        /\ fb' = [fb EXCEPT ![Conversion] = s]
    /\ UNCHANGED <<pools, queueDown, running, outFb, refs, control, order>>

\* vf_conversion_unit_process_data.  The formats of the two pools are fixed
\* and convertible, so vf_conversion_process succeeds.
ConversionProcess ==
    /\ Goto(Conversion, "process", "send")
    /\ \E s \in OutSlots :
        /\ AcquireSlot(OutSlots, s)
        /\ outFb' = s
    /\ UNCHANGED <<queue, queueDown, running, fb, refs, control, order>>

\* vf_conversion_unit_send_data up to the push.  A full queue drops the
\* output frame and leaves the input frame in its pointer.
ConversionSend ==
    /\ outFb' = NULL
    /\ \/ /\ Room(Conversion)
          /\ Goto(Conversion, "send", "unref")
          /\ Push(Conversion, outFb)
          /\ order' = [i \in DOMAIN order |->
                          IF order[i] = fb[Conversion] THEN outFb ELSE order[i]]
          /\ UNCHANGED pools
       \/ /\ ~Room(Conversion)
          /\ Goto(Conversion, "send", "loop")
          /\ ReleaseSlot(outFb)
          /\ UNCHANGED <<queue, order>>
    /\ UNCHANGED <<queueDown, running, fb, refs, control>>

\* The rest of vf_conversion_unit_send_data: the input frame is let go.
ConversionUnref ==
    /\ Goto(Conversion, "unref", "loop")
    /\ Unref(fb[Conversion])
    /\ fb' = [fb EXCEPT ![Conversion] = NULL]
    /\ UNCHANGED <<queue, queueDown, running, outFb, control, order>>

\* vf_file_unit_get_data in FILE_OUT mode
FileGet ==
    /\ Goto(FileOut, "get", "send")
    /\ \E s \in OutSlots :
        /\ PopFrame(FileOut, s)
        /\ fb' = [fb EXCEPT ![FileOut] = s]
    /\ UNCHANGED <<pools, queueDown, running, outFb, refs, control, order>>

\* Mutant: the write path returns without giving the slot back.
FileSendKeeping ==
    /\ Goto(FileOut, "send", "loop")
    /\ Forget(fb[FileOut])
    /\ fb' = [fb EXCEPT ![FileOut] = NULL]
    /\ UNCHANGED <<pools, queue, queueDown, running, outFb, refs, control>>

\* vf_file_unit_send_data in FILE_OUT mode.  Written or not (open and write
\* errors), the slot goes back to pool_out and the thread loops.
FileSend ==
    /\ Goto(FileOut, "send", "loop")
    /\ ReleaseSlot(fb[FileOut])
    /\ Forget(fb[FileOut])
    /\ fb' = [fb EXCEPT ![FileOut] = NULL]
    /\ UNCHANGED <<queue, queueDown, running, outFb, refs, control>>

UnitStep(u) ==
    \/ BeginRun(u)
    \/ GiveUp(u)
    \/ u = Camera /\ (CameraGet \/ CameraSend)
    \/ u = Provider /\ (ProviderGet \/ ProviderSend)
    \/ u = Conversion /\ (ConversionGet \/ ConversionProcess
                          \/ ConversionSend \/ ConversionUnref)
    \/ u = FileOut /\ (FileGet \/ FileSend)

-----------------------------------------------------------------------------
(* The controller: vf_service_start and vf_service_stop, and below them    *)
(* vf_pipeline_start, vf_pipeline_stop and vf_unit_stop.                   *)

Enter(phase, unit, step) == ctl' = [phase |-> phase, unit |-> unit, step |-> step]

\* vf_service_start up to the call of vf_pipeline_start: the five resets.
\* No thread of the units exists, so they need no step of their own.
ServiceStart ==
    /\ ctl.phase = "stopped"
    /\ starts < MaxStarts
    /\ starts' = starts + 1
    /\ poolDown' = {}
    /\ queueDown' = {}
    /\ Enter("starting", Camera, "create")
    /\ UNCHANGED <<busy, queue, threads, frames, failures, order>>

\* vf_unit_start for the next unit of vf_pipeline_start's loop.
UnitStart ==
    /\ ctl.phase = "starting"
    /\ running' = running \cup {ctl.unit}
    /\ pc' = [pc EXCEPT ![ctl.unit] = "loop"]
    /\ IF ctl.unit = FileOut
       THEN Enter("up", 0, "none")
       ELSE Enter("starting", ctl.unit + 1, "create")
    /\ UNCHANGED <<pools, queue, queueDown, frames, starts, failures, order>>

\* Mutant: the error is returned at once, the units before keep running.
UnitStartFailsAtOnce ==
    /\ ctl.phase = "starting"
    /\ failures < MaxCreateFailures
    /\ failures' = failures + 1
    /\ Enter("stopped", 0, "none")
    /\ UNCHANGED <<pools, queue, queueDown, threads, frames, starts, order>>

\* vf_unit_start when pthread_create fails: the units before it are stopped,
\* the nearest first; with none before it the error is returned.
UnitStartFails ==
    /\ ctl.phase = "starting"
    /\ failures < MaxCreateFailures
    /\ failures' = failures + 1
    /\ IF ctl.unit = Camera
       THEN Enter("stopped", 0, "none")
       ELSE Enter("rollback", ctl.unit - 1, "clear")
    /\ UNCHANGED <<pools, queue, queueDown, threads, frames, starts, order>>

\* Mutant: vf_service_stop forgets the output pool.
ServiceStopHalf ==
    /\ ctl.phase \in {"up", "stopped"}
    /\ poolDown' = poolDown \cup {"in"}
    /\ Enter("stopping", FileOut, "clear")
    /\ UNCHANGED <<busy, queue, queueDown, threads, frames, starts, failures, order>>

\* vf_service_stop begins with pool_in; a stopped service may be stopped again.
ServiceStop ==
    /\ ctl.phase \in {"up", "stopped"}
    /\ poolDown' = poolDown \cup {"in"}
    /\ Enter("stopping", FileOut, "pool_out")
    /\ UNCHANGED <<busy, queue, queueDown, threads, frames, starts, failures, order>>

StopOutPool ==
    /\ ctl.phase = "stopping"
    /\ ctl.step = "pool_out"
    /\ poolDown' = poolDown \cup {"out"}
    /\ Enter("stopping", FileOut, "clear")
    /\ UNCHANGED <<busy, queue, queueDown, threads, frames, starts, failures, order>>

\* Where vf_unit_stop returns to: the loop goes on with the unit before.
\* vf_pipeline_start's error path returns what the last vf_unit_stop
\* returned, VF_SUCCESS, so that its caller takes the service to be up.
UnitStopReturns ==
    IF ctl.unit > Camera
    THEN Enter(ctl.phase, ctl.unit - 1, "clear")
    ELSE Enter(IF ctl.phase = "rollback" THEN "up" ELSE "stopped", 0, "none")

\* vf_unit_stop reads the running flag and clears it.
UnitStopClear ==
    /\ ctl.phase \in {"stopping", "rollback"}
    /\ ctl.step = "clear"
    /\ \/ /\ ctl.unit \notin running
          /\ UnitStopReturns
       \/ /\ ctl.unit \in running
          /\ Enter(ctl.phase, ctl.unit, "wake")
    /\ running' = running \ {ctl.unit}
    /\ UNCHANGED <<pools, queue, queueDown, pc, frames, starts, failures, order>>

\* vf_unit_stop shuts the unit's in_queue down; the camera has none.
UnitStopWake ==
    /\ ctl.step = "wake"
    /\ queueDown' = queueDown \cup ({ctl.unit - 1} \cap Queues)
    /\ Enter(ctl.phase, ctl.unit, "join")
    /\ UNCHANGED <<pools, queue, threads, frames, starts, failures, order>>

\* pthread_join returns when the unit's thread has ended.
UnitStopJoin ==
    /\ ctl.step = "join"
    /\ Goto(ctl.unit, "done", "none")
    /\ UnitStopReturns
    /\ UNCHANGED <<pools, queue, queueDown, running, frames, starts, failures, order>>

ControlStep == \/ UnitStart
               \/ UnitStartFails
               \/ StopOutPool
               \/ UnitStopClear
               \/ UnitStopWake
               \/ UnitStopJoin

Next == \/ \E u \in Units : UnitStep(u)
        \/ ServiceStart
        \/ ServiceStop
        \/ ControlStep

\* Every thread that can run does run: the units', and the controller's once
\* it is inside a call.  Nobody is obliged to start or to stop the service.
Fairness == /\ \A u \in Units : WF_vars(UnitStep(u))
            /\ WF_vars(ControlStep)

Spec == Init /\ [][Next]_vars /\ Fairness

-----------------------------------------------------------------------------

TypeOK ==
    /\ busy \subseteq AllSlots
    /\ poolDown \subseteq {"in", "out"}
    /\ queue \in [Queues -> Seq(AllSlots)]
    /\ queueDown \subseteq Queues
    /\ running \subseteq Units
    /\ pc \in [Units -> {"none", "loop", "get", "process", "send", "unref", "done"}]
    /\ fb \in [Units -> AllSlots \cup {NULL}]
    /\ outFb \in OutSlots \cup {NULL}
    /\ refs \in [InSlots -> 0 .. CONSUMER_COUNT]
    /\ ctl \in [phase : {"stopped", "starting", "up", "stopping", "rollback"},
                unit : 0 .. 4,
                step : {"none", "create", "pool_out", "clear", "wake", "join"}]
    /\ starts \in 0 .. MaxStarts
    /\ failures \in 0 .. MaxCreateFailures
    /\ order \in Seq(AllSlots)

\* A pointer as a sequence: empty when NULL.
AtMostOne(s) == IF s = NULL THEN <<>> ELSE <<s>>

\* The conversion unit's input frame, unless its converted twin is already
\* in queue 3.
Unconverted == IF pc[Conversion] = "unref" THEN <<>> ELSE AtMostOne(fb[Conversion])

\* The frames of the pipeline, from the disk back to the camera.
Pipeline == AtMostOne(fb[FileOut]) \o queue[3] \o Unconverted \o queue[2]
                \o AtMostOne(fb[Provider]) \o queue[1] \o AtMostOne(fb[Camera])

\* Every place where a slot can be reached: the pipeline, and the two
\* pointers the conversion unit holds beside it.
Places == Pipeline \o AtMostOne(outFb)
              \o (IF pc[Conversion] = "unref" THEN AtMostOne(fb[Conversion]) ELSE <<>>)

Reachable == {Places[i] : i \in DOMAIN Places}

\* Slots marked as used that no unit and no queue knows any more.
Lost == busy \ Reachable

\* A frame is in one place at a time and its slot is in use all the while: no
\* unit reads or writes a buffer that the pool may hand to another unit.
FramesOwned == /\ \A i, j \in DOMAIN Places : i # j => Places[i] # Places[j]
               /\ Reachable \subseteq busy

\* Frames stay in capture order through three queues, two threads' pointers,
\* the change of pool in the conversion unit, stops and restarts: whatever
\* file_out has in hand is the oldest frame that was captured and not lost.
FramesInOrder == order = Pipeline

\* A pool_in frame carries one reference exactly from the provider's
\* get_data to the conversion unit's unref, so that unref gives it back.
RefsMatchHolders ==
    \A s \in InSlots \cap Reachable :
        refs[s] = IF \/ s \in {fb[Provider], fb[Conversion]}
                     \/ \E i \in DOMAIN queue[2] : queue[2][i] = s
                  THEN CONSUMER_COUNT
                  ELSE 0

\* A pool has no more slots than a queue has places, so no unit ever finds
\* its out_queue full, however the consumers stall: vf_buf_queue_push's
\* VF_OOM, and the dropping of frames that answers it, never happen.
QueueHasRoom == \A u \in Queues : pc[u] = "send" => Room(u)

\* What restarts cost: a slot of pool_in goes missing only when the
\* conversion unit is stopped with a frame in hand and started again, at
\* most one each time; slots of pool_out never go missing.
LossBounded == /\ Lost \subseteq InSlots
               /\ starts > 0 => Cardinality(Lost) < starts
               /\ starts = 0 => Lost = {}

\* Units that the service believes to be up have a thread and have not been
\* told to stop.
UpMeansRunning == ctl.phase = "up" => running = Units

\* Between two calls of the controller every thread belongs to a unit that
\* is running, so the next stop will join it, and a stopped service has none
\* that could go on using the frames: no start overwrites the handle of a
\* thread that is still alive, also after a start that failed part-way.
ThreadsAccounted ==
    /\ ctl.phase \in {"up", "stopped"} =>
           \A u \in Units : pc[u] # "none" <=> u \in running
    /\ ctl.phase = "stopped" => running = {}

\* vf_service_stop returns, whatever each unit is doing when it is called:
\* nobody stays in a pool or a queue that the teardown order did not wake.
StopReturns == ctl.phase = "stopping" ~> ctl.phase = "stopped"

\* As long as the service stays up and one slot of pool_in is left, frames
\* keep reaching the disk.
FramesFlow ==
    (<>[](ctl.phase = "up") /\ []<>(~(InSlots \subseteq Lost))) => []<>(pc[FileOut] = "send")

\* What the service promises end to end: the frames in its pointers and queues
\* are a line that only a capture lengthens, at its end, and only the file unit
\* shortens, at its head; in between a frame is converted in its turn and keeps
\* its place.  Nothing else loses a frame but a restart, and at most one each.
Line == INSTANCE FrameLine WITH line <- Pipeline,
                                lost <- Lost,
                                Captured <- InSlots,
                                Converted <- OutSlots
ImplementsLine == Line!Spec

\* ADR-005: stop and start leave the pipeline fit to run again on the same
\* buffers -- every slot marked as used is still known to somebody.
NoSlotLost == Lost = {}

\* A start that fails part-way stops what it had started and returns.
RollbackReturns == ctl.phase = "rollback" ~> ctl.phase # "rollback"
=============================================================================
