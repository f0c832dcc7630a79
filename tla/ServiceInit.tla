----------------------------- MODULE ServiceInit -----------------------------
(***************************************************************************)
(* Building the service and taking it apart: vf_service_init and           *)
(* vf_service_deinit, and below them the pools, the queues, the pipeline   *)
(* and its four units, with the camera of module Camera.                   *)
(*                                                                         *)
(* Everything that is acquired may fail, and each function undoes its own  *)
(* part before it returns the error.  One thread runs all of this; beside  *)
(* it only the driver is active.  A mutex, condition variable, buffer or   *)
(* structure is a resource that counts how often it is held: more than     *)
(* once is a resource set up over a live one, less than zero a double free.*)
(***************************************************************************)
EXTENDS Integers, Camera

CONSTANTS PoolSlots,    \* POOL_SLOT_COUNT: the framebuffers of each pool
          MaxAttempts   \* bound: how often the service is initialised

ASSUME InitAssumption == PoolSlots \in Nat \ {0} /\ MaxAttempts \in Nat

CameraUnit == 1
ConversionUnit == 3
Units == 1 .. 4
Queues == 1 .. 3   \* queue u leads from unit u to unit u + 1
Pools == {"pool_in", "pool_out"}

Framebuffer(p, k) == <<"framebuffer", p, k>>
Mutex(part) == <<"mutex", part, 0>>
Cond(part) == <<"cond", part, 0>>
QueueParts(q) == {<<"mutex", "queue", q>>, <<"cond", "queue", q>>}
Notifier(u) == <<"notifier", "unit", u>>
Data(u) == <<"data", "unit", u>>

Framebuffers(p) == {Framebuffer(p, k) : k \in 1 .. PoolSlots}
PoolParts(p) == {Mutex(p), Cond(p)} \cup Framebuffers(p)
UnitParts(u) == {Notifier(u), Data(u)}

Resources == (UNION {PoolParts(p) : p \in Pools})
                 \cup (UNION {QueueParts(q) : q \in Queues})
                 \cup (UNION {UnitParts(u) : u \in Units})

VARIABLES
    held,      \* per resource: how often it is held
    poolUp,    \* the pools whose initialized flag is set
    queueUp,   \* the queues whose initialized flag is set
    unitUp,    \* the units whose initialized flag is set
    svcUp,     \* svc->initialized
    at,        \* the step that comes next, "idle" between two calls
    inFb,      \* the conversion unit has a frame of pool_in
    attempts, slotFailures   \* calls of vf_service_init; framebuffers not allocated

svcVars == <<held, poolUp, queueUp, unitUp, svcUp, at, inFb, attempts, slotFailures>>
vars == <<held, poolUp, queueUp, unitUp, svcUp, at, inFb, attempts, slotFailures,
          camVars>>

flags == <<poolUp, queueUp, unitUp, svcUp>>
counts == <<inFb, attempts, slotFailures>>

Init == /\ held = [r \in Resources |-> 0]
        /\ poolUp = {}
        /\ queueUp = {}
        /\ unitUp = {}
        /\ svcUp = FALSE
        /\ at = [op |-> "idle", i |-> 0]
        /\ inFb = FALSE
        /\ attempts = 0
        /\ slotFailures = 0
        /\ CameraInit

Goto(op, i) == at' = [op |-> op, i |-> i]

Hold(S) == held' = [r \in Resources |-> IF r \in S THEN held[r] + 1 ELSE held[r]]
Release(S) == held' = [r \in Resources |-> IF r \in S THEN held[r] - 1 ELSE held[r]]

-----------------------------------------------------------------------------
(* vf_service_init                                                         *)

ServiceInit ==
    /\ at.op = "idle"
    /\ ~svcUp
    /\ attempts < MaxAttempts
    /\ attempts' = attempts + 1
    /\ Goto("pool_in", 0)
    /\ UNCHANGED <<held, flags, inFb, slotFailures, camVars>>

\* The pool that at is about; its steps are numbered: 0 the mutex, 1 the
\* condition variable, and from 2 on the framebuffers.
BuildingPool == at.op \in Pools

\* A pool that cannot be set up: nothing but pool_in is there before pool_out.
PoolFails == IF at.op = "pool_in" THEN Goto("idle", 0) ELSE Goto("deinit_pools", 0)

PoolMutex ==
    /\ BuildingPool /\ at.i = 0
    /\ \/ Hold({Mutex(at.op)}) /\ Goto(at.op, 1)
       \/ UNCHANGED held /\ PoolFails
    /\ UNCHANGED <<flags, counts, camVars>>

PoolCond ==
    /\ BuildingPool /\ at.i = 1
    /\ \/ Hold({Cond(at.op)}) /\ Goto(at.op, 2)
       \/ Release({Mutex(at.op)}) /\ PoolFails
    /\ UNCHANGED <<flags, counts, camVars>>

\* Mutant: the unwinding loop begins with the slot that failed.
SlotsUnwoundPast(k) == {Framebuffer(at.op, j) : j \in 1 .. k}

\* The framebuffers that are freed when slot k cannot be allocated.
SlotsUnwound(k) == {Framebuffer(at.op, j) : j \in 1 .. k - 1}

PoolSlot ==
    /\ BuildingPool /\ at.i >= 2
    /\ LET k == at.i - 1 IN
       \/ /\ Hold({Framebuffer(at.op, k)})
          /\ \/ k < PoolSlots /\ Goto(at.op, at.i + 1) /\ UNCHANGED poolUp
             \/ /\ k = PoolSlots
                /\ poolUp' = poolUp \cup {at.op}
                /\ IF at.op = "pool_in" THEN Goto("pool_out", 0) ELSE Goto("queue_mutex", 1)
          /\ UNCHANGED slotFailures
       \/ /\ Release(SlotsUnwound(k) \cup {Mutex(at.op)})   \* not the condition variable
          /\ slotFailures' = slotFailures + 1
          /\ PoolFails
          /\ UNCHANGED poolUp
    /\ UNCHANGED <<queueUp, unitUp, svcUp, inFb, attempts, camVars>>

\* vf_buf_queue_init in the first loop of vf_pipeline_create.
QueueMutex ==
    /\ at.op = "queue_mutex"
    /\ \/ Hold({<<"mutex", "queue", at.i>>}) /\ Goto("queue_cond", at.i)
       \/ UNCHANGED held /\ Goto("destroy_queues", 0)
    /\ UNCHANGED <<flags, counts, camVars>>

\* Mutant: one queue too few is set up.
LastQueueShort == 2

LastQueue == 3   \* q_count = unit_count - 1

QueueCond ==
    /\ at.op = "queue_cond"
    /\ \/ /\ Hold({<<"cond", "queue", at.i>>})
          /\ queueUp' = queueUp \cup {at.i}
          /\ IF at.i = LastQueue THEN Goto("notifier", 1) ELSE Goto("queue_mutex", at.i + 1)
       \/ /\ Release({<<"mutex", "queue", at.i>>})
          /\ Goto("destroy_queues", 0)
          /\ UNCHANGED queueUp
    /\ UNCHANGED <<poolUp, unitUp, svcUp, counts, camVars>>

\* vf_unit_create in the second loop; where it fails for unit u, the units
\* before u are destroyed, the nearest first.
UnitFails(u) == Goto("cleanup_units", u - 1)

UnitNotifier ==
    /\ at.op = "notifier"
    /\ \/ Hold({Notifier(at.i)}) /\ Goto("data", at.i)
       \/ UNCHANGED held /\ UnitFails(at.i)
    /\ UNCHANGED <<flags, counts, camVars>>

\* vf_unit_create after the unit's init operation has succeeded; after the
\* last unit, pipeline and service are marked as initialised.
UnitCreated(u) ==
    /\ unitUp' = unitUp \cup {u}
    /\ svcUp' = (u = 4)
    /\ IF u = 4 THEN Goto("idle", 0) ELSE Goto("notifier", u + 1)

\* The init operation: the unit's structure, and what belongs to it.  The
\* formats given to vf_conversion_init are constants it accepts, and a
\* FILE_OUT unit that splits its output opens nothing.
UnitInit ==
    /\ at.op = "data"
    /\ \/ Release({Notifier(at.i)}) /\ UnitFails(at.i) /\ UNCHANGED <<unitUp, svcUp>>
       \/ /\ Hold({Data(at.i)})
          /\ \/ at.i = CameraUnit /\ Goto("open_camera", at.i) /\ UNCHANGED <<unitUp, svcUp>>
             \/ at.i # CameraUnit /\ UnitCreated(at.i)
    /\ UNCHANGED <<poolUp, queueUp, counts, camVars>>

CameraOpens ==
    /\ at.op = "open_camera"
    /\ OpenDevice
    /\ Goto("init_camera", CameraUnit)
    /\ UNCHANGED <<held, flags, counts>>

CameraContinues ==
    /\ at.op = "init_camera"
    /\ CameraInitStep
    /\ UNCHANGED svcVars

\* vf_camera_init has returned without an error.  vf_camera_start, which
\* follows, returns none either.
CameraStarts ==
    /\ at.op = "init_camera"
    /\ StartDevice
    /\ UnitCreated(CameraUnit)
    /\ UNCHANGED <<held, poolUp, queueUp, counts>>

\* vf_camera_init has failed: the structure and the notifier are given up.
CameraFails ==
    /\ at.op = "init_camera"
    /\ fd = "closed"
    /\ Release(UnitParts(CameraUnit))
    /\ UnitFails(CameraUnit)
    /\ UNCHANGED <<flags, counts, camVars>>

-----------------------------------------------------------------------------
(* Taking apart: the error labels, vf_pipeline_destroy, vf_service_deinit  *)

\* vf_unit_destroy; the conversion unit gives its input frame back.
DestroyUnit(u) ==
    /\ Release(UnitParts(u))
    /\ unitUp' = unitUp \ {u}
    /\ inFb' = (inFb /\ u # ConversionUnit)
    /\ IF u = CameraUnit
       THEN camState # "RUNNING" /\ CloseCamera
       ELSE UNCHANGED camVars

\* The label cleanup_units.
CleanupUnits ==
    /\ at.op = "cleanup_units"
    /\ \/ /\ at.i = 0
          /\ Goto("destroy_queues", 0)
          /\ UNCHANGED <<held, unitUp, inFb, camVars>>
       \/ /\ at.i > 0
          /\ Goto("cleanup_units", at.i - 1)
          /\ DestroyUnit(at.i)
    /\ UNCHANGED <<poolUp, queueUp, svcUp, attempts, slotFailures>>

\* vf_camera_unit_deinit begins with vf_camera_stop.
StopCamera ==
    /\ at.op \in {"cleanup_units", "destroy_units"}
    /\ at.i = CameraUnit
    /\ StopDevice
    /\ UNCHANGED svcVars

\* Mutant: the pools are taken down before the pipeline that uses them.
ServiceDeinitPoolsFirst ==
    /\ at.op = "idle"
    /\ svcUp
    /\ Release(UNION {PoolParts(p) : p \in poolUp})
    /\ poolUp' = {}
    /\ Goto("destroy_units", 1)
    /\ UNCHANGED <<queueUp, unitUp, svcUp, counts, camVars>>

\* vf_service_deinit of an initialised, stopped service.
ServiceDeinit ==
    /\ at.op = "idle"
    /\ svcUp
    /\ Goto("destroy_units", 1)
    /\ UNCHANGED <<held, flags, counts, camVars>>

\* The unit loop of vf_pipeline_destroy.
DestroyUnits ==
    /\ at.op = "destroy_units"
    /\ DestroyUnit(at.i)
    /\ IF at.i = 4 THEN Goto("destroy_queues", 0) ELSE Goto("destroy_units", at.i + 1)
    /\ UNCHANGED <<poolUp, queueUp, svcUp, attempts, slotFailures>>

\* The label cleanup_queues, and the same loop in vf_pipeline_destroy: only
\* queues that are marked as initialised are touched.
DestroyQueues ==
    /\ at.op = "destroy_queues"
    /\ Release(UNION {QueueParts(q) : q \in queueUp})
    /\ queueUp' = {}
    /\ Goto("deinit_pools", 0)
    /\ UNCHANGED <<poolUp, unitUp, svcUp, counts, camVars>>

\* Mutant: a pool keeps its initialized flag.
DeinitPoolsUnflagged ==
    /\ at.op = "deinit_pools"
    /\ Release(UNION {PoolParts(p) : p \in poolUp})
    /\ svcUp' = FALSE
    /\ Goto("idle", 0)
    /\ UNCHANGED <<poolUp, queueUp, unitUp, counts, camVars>>

\* The label cleanup_pools, and the end of vf_service_deinit.
DeinitPools ==
    /\ at.op = "deinit_pools"
    /\ Release(UNION {PoolParts(p) : p \in poolUp})
    /\ poolUp' = {}
    /\ svcUp' = FALSE
    /\ Goto("idle", 0)
    /\ UNCHANGED <<queueUp, unitUp, counts, camVars>>

-----------------------------------------------------------------------------

\* Between init and deinit the service is started and stopped: the driver and
\* vf_camera_acquire_frame are active ...
Capture ==
    /\ at.op = "idle"
    /\ svcUp
    /\ FillBuffer \/ Acquire
    /\ UNCHANGED svcVars

\* ... and a stop may leave the conversion unit with a frame (VfService).
StopLeavesFrame ==
    /\ at.op = "idle"
    /\ svcUp
    /\ ~inFb
    /\ inFb' = TRUE
    /\ UNCHANGED <<held, flags, at, attempts, slotFailures, camVars>>

Build == \/ PoolMutex \/ PoolCond \/ PoolSlot
         \/ QueueMutex \/ QueueCond
         \/ UnitNotifier \/ UnitInit
         \/ CameraOpens \/ CameraContinues \/ CameraStarts \/ CameraFails

TakeApart == \/ CleanupUnits \/ StopCamera \/ DestroyUnits
             \/ DestroyQueues \/ DeinitPools

Next == \/ ServiceInit \/ Build
        \/ Capture \/ StopLeavesFrame
        \/ ServiceDeinit \/ TakeApart

Spec == Init /\ [][Next]_vars

-----------------------------------------------------------------------------

\* Nothing is set up over a live one and nothing is freed twice.  What a pool
\* loses when a slot cannot be allocated -- its condition variable is not
\* destroyed -- is counted in LeftoversNamed.
TypeOK ==
    /\ \A r \in Resources :
          held[r] \in 0 .. (IF r \in {Cond(p) : p \in Pools} THEN 1 + slotFailures ELSE 1)
    /\ poolUp \subseteq Pools
    /\ queueUp \subseteq Queues
    /\ unitUp \subseteq Units
    /\ svcUp \in BOOLEAN
    /\ at \in [op : Pools \cup {"idle", "queue_mutex", "queue_cond", "notifier", "data",
                      "open_camera", "init_camera", "cleanup_units", "destroy_units",
                      "destroy_queues", "deinit_pools"},
               i : 0 .. PoolSlots + 4]
    /\ inFb \in BOOLEAN
    /\ attempts \in 0 .. MaxAttempts
    /\ slotFailures \in 0 .. attempts
    /\ CameraTypeOK

\* Whichever step failed, and after a deinit, nothing is left but one
\* condition variable for each pool whose slots could not all be allocated;
\* the camera is closed and unmapped.
LeftoversNamed ==
    at.op = "idle" /\ ~svcUp =>
        /\ \A r \in Resources \ {Cond(p) : p \in Pools} : held[r] = 0
        /\ held[Cond("pool_in")] + held[Cond("pool_out")] = slotFailures
        /\ fd = "closed"
        /\ mapped = {}

\* An initialised service is complete: every pool, queue and unit is there
\* with all its parts, and the camera is open and RUNNING.  That is what lets
\* vf_camera_acquire_frame never return an error to the camera unit.
UpIsComplete ==
    at.op = "idle" /\ svcUp =>
        /\ poolUp = Pools /\ queueUp = Queues /\ unitUp = Units
        /\ \A r \in Resources : held[r] >= 1
        /\ fd = "open" /\ camState = "RUNNING"

\* A part outlives what uses it: a unit's queues and pools are there as long
\* as the unit is, so that a deinit operation can still give a frame back.
PartsOutliveUsers ==
    /\ \A u \in unitUp : {u - 1, u} \cap Queues \subseteq queueUp
    /\ unitUp # {} => poolUp = Pools
    /\ inFb => ConversionUnit \in unitUp /\ "pool_in" \in poolUp

\* The initialized flags, by which the deinit functions decide what to free,
\* tell the truth at every step of every error path.
FlagsTellTruth ==
    /\ \A p \in Pools : /\ p \in poolUp => \A r \in PoolParts(p) : held[r] >= 1
                        /\ p \notin poolUp /\ at.op # p =>
                              \A r \in PoolParts(p) \ {Cond(p)} : held[r] = 0
    /\ \A q \in queueUp : \A r \in QueueParts(q) : held[r] = 1
    /\ \A u \in unitUp : \A r \in UnitParts(u) : held[r] = 1
    /\ CameraUnit \in unitUp => fd = "open"
=============================================================================
