--------------------------- MODULE ServiceInitProofs ---------------------------
(***************************************************************************)
(* Building the service and taking it apart, for every number of slots, of *)
(* camera buffers, of refused requests and of attempts.                    *)
(*                                                                         *)
(* The properties speak of some of the steps; they are made inductive by   *)
(* saying of every step what is marked as initialised when it comes next   *)
(* (Stage), and of every resource by which of these marks, or by which     *)
(* step under way, it is held (HeldInv).  The camera is described in the   *)
(* same way by how far its own initialisation got (CamStage), and tied to  *)
(* the unit that owns it (CamLink).                                        *)
(***************************************************************************)
EXTENDS ServiceInit, FiniteSetTheorems, TLAPS

\* What is marked as initialised, by the step that comes next.
Stage ==
    /\ at.op = "idle" =>
          IF svcUp THEN poolUp = Pools /\ queueUp = Queues /\ unitUp = Units
                   ELSE poolUp = {} /\ queueUp = {} /\ unitUp = {}
    /\ at.op \in Pools =>
          /\ at.i \in 0 .. PoolSlots + 1
          /\ queueUp = {} /\ unitUp = {} /\ ~svcUp
          /\ slotFailures < attempts
    /\ at.op = "pool_in" => poolUp = {}
    /\ at.op = "pool_out" => poolUp = {"pool_in"}
    /\ at.op \notin Pools \cup {"idle", "deinit_pools"} => poolUp = Pools
    /\ at.op \in {"queue_mutex", "queue_cond"} =>
          at.i \in Queues /\ queueUp = 1 .. at.i - 1 /\ unitUp = {} /\ ~svcUp
    /\ at.op \in {"notifier", "data"} =>
          at.i \in Units /\ queueUp = Queues /\ unitUp = 1 .. at.i - 1 /\ ~svcUp
    /\ at.op \in {"open_camera", "init_camera"} =>
          at.i = CameraUnit /\ queueUp = Queues /\ unitUp = {} /\ ~svcUp
    /\ at.op = "cleanup_units" =>
          at.i \in 0 .. 3 /\ queueUp = Queues /\ unitUp = 1 .. at.i /\ ~svcUp
    /\ at.op = "destroy_units" =>
          at.i \in Units /\ queueUp = Queues /\ unitUp = at.i .. 4 /\ svcUp
    /\ at.op \in {"destroy_queues", "deinit_pools"} => unitUp = {}
    /\ at.op = "deinit_pools" => queueUp = {}
    /\ inFb => ConversionUnit \in unitUp
    /\ slotFailures <= attempts

QueueMutexOf(q) == <<"mutex", "queue", q>>
QueueCondOf(q) == <<"cond", "queue", q>>

\* Whether a resource other than a pool's condition variable is held: its
\* owner is marked as initialised, or is being built and has come past it.
MutexDue(p) == p \in poolUp \/ (at.op = p /\ at.i >= 1)
SlotDue(p, k) == p \in poolUp \/ (at.op = p /\ k < at.i - 1)
QueueMutexDue(q) == q \in queueUp \/ (at.op = "queue_cond" /\ at.i = q)
QueueCondDue(q) == q \in queueUp
InCamera(u) == u = CameraUnit /\ at.op \in {"open_camera", "init_camera"}
NotifierDue(u) == u \in unitUp \/ (at.op = "data" /\ at.i = u) \/ InCamera(u)
DataDue(u) == u \in unitUp \/ InCamera(u)

Count(due) == IF due THEN 1 ELSE 0

CondLive(p) == Count(p \in poolUp \/ (at.op = p /\ at.i >= 2))

\* Each resource is held once where it is due and not at all elsewhere; the
\* condition variables of the pools are held beyond that by one for each pool
\* whose slots could not all be allocated.
PoolsHeld ==
    \A p \in Pools :
        /\ held[Mutex(p)] = Count(MutexDue(p))
        /\ \A k \in 1 .. PoolSlots : held[Framebuffer(p, k)] = Count(SlotDue(p, k))

QueuesHeld ==
    \A q \in Queues : /\ held[QueueMutexOf(q)] = Count(QueueMutexDue(q))
                      /\ held[QueueCondOf(q)] = Count(QueueCondDue(q))

UnitsHeld ==
    \A u \in Units : /\ held[Notifier(u)] = Count(NotifierDue(u))
                     /\ held[Data(u)] = Count(DataDue(u))

CondsHeld ==
    /\ \A p \in Pools : held[Cond(p)] >= CondLive(p)
    /\ held[Cond("pool_in")] + held[Cond("pool_out")]
          = slotFailures + CondLive("pool_in") + CondLive("pool_out")

HeldInv ==
    /\ held \in [Resources -> Int]
    /\ PoolsHeld
    /\ QueuesHeld
    /\ UnitsHeld
    /\ CondsHeld

\* How far the camera's initialisation got, and what the driver has.
NoRepeat(seq) == \A i, j \in 1 .. Len(seq) : i # j => seq[i] # seq[j]

CamStage ==
    /\ CameraTypeOK
    /\ fd = "closed" => /\ ~allocated /\ ~streaming /\ queued = {} /\ filled = << >>
                        /\ mapped = {} /\ camAt.op = "none"
    /\ camAt.op # "none" => camState = "STOPPED" /\ ~streaming /\ filled = << >>
    /\ camAt.op = "setup" => mapped = {} /\ queued = {}
    /\ camAt.op = "map" => mapped = 0 .. camAt.i - 1 /\ queued = {}
    /\ camAt.op = "queue" =>
          /\ mapped = Buffers
          /\ queued \subseteq 0 .. camAt.i - 1
          /\ Cardinality((0 .. camAt.i - 1) \ queued) <= refused
    /\ Ready => mapped = Buffers
    /\ NoRepeat(filled)
    /\ DriverBuffersMapped

\* The camera is open while its unit is initialised or is opening it, and has
\* lost no more buffers than were refused while it may come to run.
CamLink ==
    /\ CameraUnit \in unitUp => Ready
    /\ CameraUnit \notin unitUp /\ at.op # "init_camera" => fd = "closed"
    /\ at.op # "init_camera" => camAt.op = "none"
    /\ at.op = "idle" /\ svcUp => camState = "RUNNING"
    /\ at.op \in {"notifier", "data"} /\ CameraUnit \in unitUp => camState = "RUNNING"
    /\ camState = "RUNNING" => CameraUnit \in unitUp
    /\ Ready /\ (at.op = "init_camera" \/ camState = "RUNNING") =>
          Cardinality(Buffers \ WithDriver) <= refused

Position ==
    [op : Pools \cup {"idle", "queue_mutex", "queue_cond", "notifier", "data",
                   "open_camera", "init_camera", "cleanup_units", "destroy_units",
                   "destroy_queues", "deinit_pools"},
     i : 0 .. PoolSlots + 4]

\* The types of what the other parts do not fix.
StepTypes ==
    /\ poolUp \subseteq Pools /\ queueUp \subseteq Queues /\ unitUp \subseteq Units
    /\ svcUp \in BOOLEAN /\ inFb \in BOOLEAN
    /\ at \in Position
    /\ attempts \in 0 .. MaxAttempts
    /\ slotFailures \in Nat

ServiceInv == StepTypes /\ Stage /\ HeldInv

InitInv == ServiceInv /\ CamStage /\ CamLink

-----------------------------------------------------------------------------
(* What is held.                                                            *)

LEMMA KindsHeld ==
  /\ \A p \in Pools : Mutex(p) \in Resources /\ Cond(p) \in Resources
  /\ \A p \in Pools : \A k \in 1 .. PoolSlots : Framebuffer(p, k) \in Resources
  /\ \A q \in Queues : /\ QueueMutexOf(q) \in Resources
                       /\ QueueCondOf(q) \in Resources
  /\ \A u \in Units : Notifier(u) \in Resources /\ Data(u) \in Resources
<1>1. /\ \A p \in Pools : PoolParts(p) \subseteq Resources
      /\ \A q \in Queues : QueueParts(q) \subseteq Resources
      /\ \A u \in Units : UnitParts(u) \subseteq Resources
  <2> DEFINE P == UNION {PoolParts(p) : p \in Pools}
             Q == UNION {QueueParts(q) : q \in Queues}
             U == UNION {UnitParts(u) : u \in Units}
  <2>1. /\ \A p \in Pools : PoolParts(p) \subseteq P
        /\ \A q \in Queues : QueueParts(q) \subseteq Q
        /\ \A u \in Units : UnitParts(u) \subseteq U
    OBVIOUS
  <2>2. Resources = P \cup Q \cup U
    BY DEF Resources
  <2> HIDE DEF P, Q, U
  <2> QED
    BY <2>1, <2>2
<1>2. \A p \in Pools : Mutex(p) \in PoolParts(p) /\ Cond(p) \in PoolParts(p)
  BY DEF PoolParts
<1>3. \A p \in Pools : \A k \in 1 .. PoolSlots : Framebuffer(p, k) \in PoolParts(p)
  BY DEF PoolParts, Framebuffers
<1> QED
  BY <1>1, <1>2, <1>3 DEF QueueParts, QueueMutexOf, QueueCondOf, UnitParts

\* What holding and releasing a set does to each kind of resource.
LEMMA HoldFacts ==
  ASSUME HeldInv, NEW S, Hold(S)
  PROVE  /\ held' \in [Resources -> Int]
         /\ \A p \in Pools :
               /\ held'[Mutex(p)] = held[Mutex(p)] + Count(Mutex(p) \in S)
               /\ held'[Cond(p)] = held[Cond(p)] + Count(Cond(p) \in S)
               /\ \A k \in 1 .. PoolSlots :
                     held'[Framebuffer(p, k)]
                        = held[Framebuffer(p, k)] + Count(Framebuffer(p, k) \in S)
         /\ \A q \in Queues :
               /\ held'[QueueMutexOf(q)] = held[QueueMutexOf(q)] + Count(QueueMutexOf(q) \in S)
               /\ held'[QueueCondOf(q)] = held[QueueCondOf(q)] + Count(QueueCondOf(q) \in S)
         /\ \A u \in Units :
               /\ held'[Notifier(u)] = held[Notifier(u)] + Count(Notifier(u) \in S)
               /\ held'[Data(u)] = held[Data(u)] + Count(Data(u) \in S)
<1>1. /\ held' \in [Resources -> Int]
      /\ \A r \in Resources : held'[r] = held[r] + Count(r \in S)
  BY DEF HeldInv, Hold, Count
<1> QED
  BY ONLY <1>1, KindsHeld

LEMMA ReleaseFacts ==
  ASSUME HeldInv, NEW S, Release(S)
  PROVE  /\ held' \in [Resources -> Int]
         /\ \A p \in Pools :
               /\ held'[Mutex(p)] = held[Mutex(p)] - Count(Mutex(p) \in S)
               /\ held'[Cond(p)] = held[Cond(p)] - Count(Cond(p) \in S)
               /\ \A k \in 1 .. PoolSlots :
                     held'[Framebuffer(p, k)]
                        = held[Framebuffer(p, k)] - Count(Framebuffer(p, k) \in S)
         /\ \A q \in Queues :
               /\ held'[QueueMutexOf(q)] = held[QueueMutexOf(q)] - Count(QueueMutexOf(q) \in S)
               /\ held'[QueueCondOf(q)] = held[QueueCondOf(q)] - Count(QueueCondOf(q) \in S)
         /\ \A u \in Units :
               /\ held'[Notifier(u)] = held[Notifier(u)] - Count(Notifier(u) \in S)
               /\ held'[Data(u)] = held[Data(u)] - Count(Data(u) \in S)
<1>1. /\ held' \in [Resources -> Int]
      /\ \A r \in Resources : held'[r] = held[r] - Count(r \in S)
  BY DEF HeldInv, Release, Count
<1> QED
  BY ONLY <1>1, KindsHeld

\* A step that holds a set S of resources makes just these due, ...
PoolDuesGrow(S) ==
    \A p \in Pools :
        /\ Mutex(p) \in S => ~MutexDue(p)
        /\ MutexDue(p)' <=> MutexDue(p) \/ Mutex(p) \in S
        /\ \A k \in 1 .. PoolSlots :
              /\ Framebuffer(p, k) \in S => ~SlotDue(p, k)
              /\ SlotDue(p, k)' <=> SlotDue(p, k) \/ Framebuffer(p, k) \in S

QueueDuesGrow(S) ==
    \A q \in Queues :
        /\ QueueMutexOf(q) \in S => ~QueueMutexDue(q)
        /\ QueueMutexDue(q)' <=> QueueMutexDue(q) \/ QueueMutexOf(q) \in S
        /\ QueueCondOf(q) \in S => ~QueueCondDue(q)
        /\ QueueCondDue(q)' <=> QueueCondDue(q) \/ QueueCondOf(q) \in S

UnitDuesGrow(S) ==
    \A u \in Units :
        /\ Notifier(u) \in S => ~NotifierDue(u)
        /\ NotifierDue(u)' <=> NotifierDue(u) \/ Notifier(u) \in S
        /\ Data(u) \in S => ~DataDue(u)
        /\ DataDue(u)' <=> DataDue(u) \/ Data(u) \in S

\* ... and one that releases S makes just these no longer due.
PoolDuesShrink(S) ==
    \A p \in Pools :
        /\ Mutex(p) \in S => MutexDue(p)
        /\ MutexDue(p)' <=> MutexDue(p) /\ Mutex(p) \notin S
        /\ \A k \in 1 .. PoolSlots :
              /\ Framebuffer(p, k) \in S => SlotDue(p, k)
              /\ SlotDue(p, k)' <=> SlotDue(p, k) /\ Framebuffer(p, k) \notin S

QueueDuesShrink(S) ==
    \A q \in Queues :
        /\ QueueMutexOf(q) \in S => QueueMutexDue(q)
        /\ QueueMutexDue(q)' <=> QueueMutexDue(q) /\ QueueMutexOf(q) \notin S
        /\ QueueCondOf(q) \in S => QueueCondDue(q)
        /\ QueueCondDue(q)' <=> QueueCondDue(q) /\ QueueCondOf(q) \notin S

UnitDuesShrink(S) ==
    \A u \in Units :
        /\ Notifier(u) \in S => NotifierDue(u)
        /\ NotifierDue(u)' <=> NotifierDue(u) /\ Notifier(u) \notin S
        /\ Data(u) \in S => DataDue(u)
        /\ DataDue(u)' <=> DataDue(u) /\ Data(u) \notin S

LEMMA HoldDues ==
  ASSUME HeldInv, NEW S, Hold(S),
         PoolDuesGrow(S), QueueDuesGrow(S), UnitDuesGrow(S), CondsHeld'
  PROVE  HeldInv'
<1>1. PoolsHeld'
  BY HoldFacts DEF HeldInv, PoolsHeld, PoolDuesGrow, Count
<1>2. QueuesHeld'
  BY HoldFacts DEF HeldInv, QueuesHeld, QueueDuesGrow, Count
<1>3. UnitsHeld'
  BY HoldFacts DEF HeldInv, UnitsHeld, UnitDuesGrow, Count
<1>4. held' \in [Resources -> Int]
  BY HoldFacts
<1> QED
  BY <1>1, <1>2, <1>3, <1>4 DEF HeldInv

LEMMA ReleaseDues ==
  ASSUME HeldInv, NEW S, Release(S),
         PoolDuesShrink(S), QueueDuesShrink(S), UnitDuesShrink(S), CondsHeld'
  PROVE  HeldInv'
<1>1. PoolsHeld'
  BY ReleaseFacts DEF HeldInv, PoolsHeld, PoolDuesShrink, Count
<1>2. QueuesHeld'
  BY ReleaseFacts DEF HeldInv, QueuesHeld, QueueDuesShrink, Count
<1>3. UnitsHeld'
  BY ReleaseFacts DEF HeldInv, UnitsHeld, UnitDuesShrink, Count
<1>4. held' \in [Resources -> Int]
  BY ReleaseFacts
<1> QED
  BY <1>1, <1>2, <1>3, <1>4 DEF HeldInv

\* A step that leaves the pools' condition variables alone.
LEMMA SameConds ==
  ASSUME HeldInv, NEW S, Hold(S) \/ Release(S),
         \A p \in Pools : Cond(p) \notin S /\ CondLive(p)' = CondLive(p),
         UNCHANGED slotFailures
  PROVE  CondsHeld'
<1>1. \A p \in Pools : held'[Cond(p)] = held[Cond(p)]
  <2>1. Hold(S) => \A p \in Pools : held'[Cond(p)] = held[Cond(p)] + Count(Cond(p) \in S)
    BY HoldFacts
  <2>2. Release(S) => \A p \in Pools : held'[Cond(p)] = held[Cond(p)] - Count(Cond(p) \in S)
    BY ReleaseFacts
  <2>3. \A p \in Pools : held[Cond(p)] \in Int
    BY KindsHeld DEF HeldInv
  <2> QED
    BY <2>1, <2>2, <2>3 DEF Count
<1>2. "pool_in" \in Pools /\ "pool_out" \in Pools
  BY DEF Pools
<1> QED
  BY <1>1, <1>2 DEF HeldInv, CondsHeld

LEMMA SameDues ==
  ASSUME HeldInv, UNCHANGED held,
         \A p \in Pools : /\ MutexDue(p)' <=> MutexDue(p)
                          /\ \A k \in 1 .. PoolSlots : SlotDue(p, k)' <=> SlotDue(p, k),
         \A q \in Queues : /\ QueueMutexDue(q)' <=> QueueMutexDue(q)
                           /\ QueueCondDue(q)' <=> QueueCondDue(q),
         \A u \in Units : /\ NotifierDue(u)' <=> NotifierDue(u)
                          /\ DataDue(u)' <=> DataDue(u),
         \A p \in Pools : CondLive(p)' = CondLive(p),
         UNCHANGED slotFailures
  PROVE  HeldInv'
<1>1. CondsHeld'
  BY DEF HeldInv, CondsHeld, Pools
<1> QED
  BY <1>1 DEF HeldInv, PoolsHeld, QueuesHeld, UnitsHeld, Count

\* The intervals that grow or shrink by one where a loop goes on.
LEMMA Steps ==
  /\ \A i \in 1 .. 4 : 1 .. (i + 1) - 1 = (1 .. i - 1) \cup {i}
  /\ \A i \in 1 .. 4 : 1 .. i = (1 .. i - 1) \cup {i}
  /\ \A i \in 1 .. 4 : (i + 1) .. 4 = (i .. 4) \ {i}
  /\ 1 .. 1 - 1 = {} /\ 1 .. 0 = {} /\ 1 .. 2 - 1 = {1}
  /\ (1 .. 3 - 1) \cup {3} = 1 .. 3 /\ (1 .. 4 - 1) \cup {4} = 1 .. 4
  OBVIOUS

\* vf_service_init begins with the mutex of pool_in.
LEMMA ServiceInitInv ==
  ASSUME ServiceInv, ServiceInit
  PROVE  ServiceInv'
<1>1. StepTypes' /\ Stage'
  BY InitAssumption, Steps
  DEF ServiceInv, Goto, flags, counts, Pools, ServiceInit, StepTypes, Stage, Units,
      Queues, Position
<1>2. HeldInv /\ UNCHANGED held
  BY DEF ServiceInv, Goto, flags, counts, Pools, ServiceInit
<1>3. \A p \in Pools : /\ MutexDue(p)' <=> MutexDue(p)
                       /\ \A k \in 1 .. PoolSlots : SlotDue(p, k)' <=> SlotDue(p, k)
  BY Steps
  DEF ServiceInv, Goto, flags, counts, Pools, ServiceInit, StepTypes, Stage, Units,
      Queues, Position, MutexDue, SlotDue
<1>4. \A q \in Queues : /\ QueueMutexDue(q)' <=> QueueMutexDue(q)
                        /\ QueueCondDue(q)' <=> QueueCondDue(q)
  BY Steps
  DEF ServiceInv, Goto, flags, counts, Pools, ServiceInit, StepTypes, Stage, Units,
      Queues, Position, QueueMutexDue, QueueCondDue
<1>5. \A u \in Units : /\ NotifierDue(u)' <=> NotifierDue(u)
                       /\ DataDue(u)' <=> DataDue(u)
  BY Steps
  DEF ServiceInv, Goto, flags, counts, Pools, ServiceInit, NotifierDue, DataDue,
      InCamera
<1>6. /\ \A p \in Pools : CondLive(p)' = CondLive(p)
      /\ UNCHANGED slotFailures
  BY DEF ServiceInv, Goto, flags, counts, Pools, ServiceInit, CondLive, Count
<1>7. HeldInv'
  BY ONLY <1>2, <1>3, <1>4, <1>5, <1>6, SameDues
<1> QED
  BY <1>1, <1>7 DEF ServiceInv

\* vf_buf_pool_init: the mutex,
LEMMA PoolMutexInv ==
  ASSUME ServiceInv, PoolMutex
  PROVE  ServiceInv'
<1>0. at.op \in Pools
  BY DEF PoolMutex, BuildingPool
<1>1. CASE Hold({Mutex(at.op)}) /\ Goto(at.op, 1)
  <2>1. StepTypes' /\ Stage'
    BY <1>1, <1>0, InitAssumption, Steps
    DEF ServiceInv, Goto, flags, counts, Pools, PoolMutex, BuildingPool, PoolFails,
        StepTypes, Stage, Units, Queues, Position
  <2>2. /\ \A o \in Pools : /\ (Mutex(o) \in {Mutex(at.op)} <=> o = at.op)
                            /\ Cond(o) \notin {Mutex(at.op)}
                            /\ \A j \in 1 .. PoolSlots :
                                 Framebuffer(o, j) \notin {Mutex(at.op)}
        /\ \A r \in Queues : /\ QueueMutexOf(r) \notin {Mutex(at.op)}
                             /\ QueueCondOf(r) \notin {Mutex(at.op)}
        /\ \A v \in Units : /\ Notifier(v) \notin {Mutex(at.op)}
                            /\ Data(v) \notin {Mutex(at.op)}
    BY <1>0
    DEF Mutex, Cond, Framebuffer, QueueMutexOf, QueueCondOf, Notifier, Data, Pools,
        Units, Queues
  <2>3. Hold({Mutex(at.op)}) /\ HeldInv
    BY <1>1
    DEF ServiceInv, Goto, flags, counts, Pools, PoolMutex, BuildingPool, PoolFails
  <2>4. PoolDuesGrow({Mutex(at.op)})
    BY <1>1, <1>0, <2>2, Steps
    DEF ServiceInv, Goto, flags, counts, Pools, PoolMutex, BuildingPool, PoolFails,
        StepTypes, Stage, Units, Queues, Position, PoolDuesGrow, MutexDue, SlotDue
  <2>5. QueueDuesGrow({Mutex(at.op)})
    BY <1>1, <1>0, <2>2, Steps
    DEF ServiceInv, Goto, flags, counts, Pools, PoolMutex, BuildingPool, PoolFails,
        StepTypes, Stage, Units, Queues, Position, QueueDuesGrow, QueueMutexDue,
        QueueCondDue
  <2>6. UnitDuesGrow({Mutex(at.op)})
    BY <1>1, <1>0, <2>2, Steps
    DEF ServiceInv, Goto, flags, counts, Pools, PoolMutex, BuildingPool, PoolFails,
        UnitDuesGrow, NotifierDue, DataDue, InCamera
  <2>7. CondsHeld'
    <3>1. \A p \in Pools : CondLive(p)' = CondLive(p)
      BY <1>1, <1>0
      DEF ServiceInv, Goto, flags, counts, Pools, PoolMutex, BuildingPool,
          PoolFails, CondLive, Count
    <3>2. UNCHANGED slotFailures
      BY <1>1, <1>0
      DEF ServiceInv, Goto, flags, counts, Pools, PoolMutex, BuildingPool, PoolFails
    <3> QED
      BY <2>2, <2>3, <3>1, <3>2, SameConds
  <2>8. HeldInv'
    BY ONLY <2>3, <2>4, <2>5, <2>6, <2>7, HoldDues
  <2> QED
    BY <2>1, <2>8 DEF ServiceInv
<1>2. CASE UNCHANGED held /\ PoolFails
  <2>1. StepTypes' /\ Stage'
    BY <1>2, <1>0, InitAssumption, Steps
    DEF ServiceInv, Goto, flags, counts, Pools, PoolMutex, BuildingPool, PoolFails,
        StepTypes, Stage, Units, Queues, Position
  <2>2. HeldInv /\ UNCHANGED held
    BY <1>2
    DEF ServiceInv, Goto, flags, counts, Pools, PoolMutex, BuildingPool, PoolFails
  <2>3. \A p \in Pools : /\ MutexDue(p)' <=> MutexDue(p)
                         /\ \A k \in 1 .. PoolSlots : SlotDue(p, k)' <=> SlotDue(p, k)
    BY <1>2, <1>0, Steps
    DEF ServiceInv, Goto, flags, counts, Pools, PoolMutex, BuildingPool, PoolFails,
        StepTypes, Stage, Units, Queues, Position, MutexDue, SlotDue
  <2>4. \A q \in Queues : /\ QueueMutexDue(q)' <=> QueueMutexDue(q)
                          /\ QueueCondDue(q)' <=> QueueCondDue(q)
    BY <1>2, <1>0, Steps
    DEF ServiceInv, Goto, flags, counts, Pools, PoolMutex, BuildingPool, PoolFails,
        StepTypes, Stage, Units, Queues, Position, QueueMutexDue, QueueCondDue
  <2>5. \A u \in Units : /\ NotifierDue(u)' <=> NotifierDue(u)
                         /\ DataDue(u)' <=> DataDue(u)
    BY <1>2, <1>0, Steps
    DEF ServiceInv, Goto, flags, counts, Pools, PoolMutex, BuildingPool, PoolFails,
        NotifierDue, DataDue, InCamera
  <2>6. /\ \A p \in Pools : CondLive(p)' = CondLive(p)
        /\ UNCHANGED slotFailures
    BY <1>2, <1>0
    DEF ServiceInv, Goto, flags, counts, Pools, PoolMutex, BuildingPool, PoolFails,
        CondLive, Count
  <2>7. HeldInv'
    BY ONLY <2>2, <2>3, <2>4, <2>5, <2>6, SameDues
  <2> QED
    BY <2>1, <2>7 DEF ServiceInv
<1> QED
  BY <1>0, <1>1, <1>2
  DEF ServiceInv, Goto, flags, counts, Pools, PoolMutex, BuildingPool, PoolFails

\* ... the condition variable,
LEMMA PoolCondInv ==
  ASSUME ServiceInv, PoolCond
  PROVE  ServiceInv'
<1>0. at.op \in Pools
  BY DEF PoolCond, BuildingPool
<1>1. CASE Hold({Cond(at.op)}) /\ Goto(at.op, 2)
  <2>1. StepTypes' /\ Stage'
    BY <1>1, <1>0, InitAssumption, Steps
    DEF ServiceInv, Goto, flags, counts, Pools, PoolCond, BuildingPool, PoolFails,
        StepTypes, Stage, Units, Queues, Position
  <2>2. /\ \A o \in Pools : /\ Mutex(o) \notin {Cond(at.op)}
                            /\ (Cond(o) \in {Cond(at.op)} <=> o = at.op)
                            /\ \A j \in 1 .. PoolSlots :
                                 Framebuffer(o, j) \notin {Cond(at.op)}
        /\ \A r \in Queues : /\ QueueMutexOf(r) \notin {Cond(at.op)}
                             /\ QueueCondOf(r) \notin {Cond(at.op)}
        /\ \A v \in Units : /\ Notifier(v) \notin {Cond(at.op)}
                            /\ Data(v) \notin {Cond(at.op)}
    BY <1>0
    DEF Mutex, Cond, Framebuffer, QueueMutexOf, QueueCondOf, Notifier, Data, Pools,
        Units, Queues
  <2>3. Hold({Cond(at.op)}) /\ HeldInv
    BY <1>1
    DEF ServiceInv, Goto, flags, counts, Pools, PoolCond, BuildingPool, PoolFails
  <2>4. PoolDuesGrow({Cond(at.op)})
    BY <1>1, <1>0, <2>2, Steps
    DEF ServiceInv, Goto, flags, counts, Pools, PoolCond, BuildingPool, PoolFails,
        StepTypes, Stage, Units, Queues, Position, PoolDuesGrow, MutexDue, SlotDue
  <2>5. QueueDuesGrow({Cond(at.op)})
    BY <1>1, <1>0, <2>2, Steps
    DEF ServiceInv, Goto, flags, counts, Pools, PoolCond, BuildingPool, PoolFails,
        StepTypes, Stage, Units, Queues, Position, QueueDuesGrow, QueueMutexDue,
        QueueCondDue
  <2>6. UnitDuesGrow({Cond(at.op)})
    BY <1>1, <1>0, <2>2, Steps
    DEF ServiceInv, Goto, flags, counts, Pools, PoolCond, BuildingPool, PoolFails,
        UnitDuesGrow, NotifierDue, DataDue, InCamera
  <2>7. CondsHeld'
    <3>1. \A p \in Pools : /\ held'[Cond(p)] = held[Cond(p)] + Count(p = at.op)
                           /\ held[Cond(p)] \in Int
      BY <2>2, <2>3, HoldFacts, KindsHeld DEF HeldInv, Count
    <3>2. \A p \in Pools : CondLive(p)' = CondLive(p) + Count(p = at.op)
      <4>1. /\ at.op \notin poolUp /\ at.i = 1
            /\ poolUp' = poolUp /\ at'.op = at.op /\ at'.i = 2
        BY <1>1, <1>0 DEF ServiceInv, Stage, Goto, Pools, PoolCond, flags
      <4> QED
        BY <4>1 DEF CondLive, Count
    <3>3. UNCHANGED slotFailures
      BY DEF PoolCond, counts
    <3> QED
      <4>1. "pool_in" \in Pools /\ "pool_out" \in Pools /\ at.op \in {"pool_in", "pool_out"}
        BY <1>0 DEF Pools
      <4>2. \A p \in Pools : CondLive(p) \in 0 .. 1 /\ CondLive(p)' \in 0 .. 1
        BY DEF CondLive, Count
      <4>3. /\ Count("pool_in" = at.op) + Count("pool_out" = at.op) = 1
            /\ \A p \in Pools : Count(p = at.op) \in 0 .. 1
        BY <4>1 DEF Count
      <4>4. slotFailures \in Nat
        BY DEF ServiceInv, StepTypes
      <4> QED
        BY <3>1, <3>2, <3>3, <2>3, <4>1, <4>2, <4>3, <4>4 DEF HeldInv, CondsHeld
  <2>8. HeldInv'
    BY ONLY <2>3, <2>4, <2>5, <2>6, <2>7, HoldDues
  <2> QED
    BY <2>1, <2>8 DEF ServiceInv
<1>2. CASE Release({Mutex(at.op)}) /\ PoolFails
  <2>1. StepTypes' /\ Stage'
    BY <1>2, <1>0, InitAssumption, Steps
    DEF ServiceInv, Goto, flags, counts, Pools, PoolCond, BuildingPool, PoolFails,
        StepTypes, Stage, Units, Queues, Position
  <2>2. /\ \A o \in Pools : /\ (Mutex(o) \in {Mutex(at.op)} <=> o = at.op)
                            /\ Cond(o) \notin {Mutex(at.op)}
                            /\ \A j \in 1 .. PoolSlots :
                                 Framebuffer(o, j) \notin {Mutex(at.op)}
        /\ \A r \in Queues : /\ QueueMutexOf(r) \notin {Mutex(at.op)}
                             /\ QueueCondOf(r) \notin {Mutex(at.op)}
        /\ \A v \in Units : /\ Notifier(v) \notin {Mutex(at.op)}
                            /\ Data(v) \notin {Mutex(at.op)}
    BY <1>0
    DEF Mutex, Cond, Framebuffer, QueueMutexOf, QueueCondOf, Notifier, Data, Pools,
        Units, Queues
  <2>3. Release({Mutex(at.op)}) /\ HeldInv
    BY <1>2
    DEF ServiceInv, Goto, flags, counts, Pools, PoolCond, BuildingPool, PoolFails
  <2>4. PoolDuesShrink({Mutex(at.op)})
    BY <1>2, <1>0, <2>2, Steps
    DEF ServiceInv, Goto, flags, counts, Pools, PoolCond, BuildingPool, PoolFails,
        StepTypes, Stage, Units, Queues, Position, PoolDuesShrink, MutexDue, SlotDue
  <2>5. QueueDuesShrink({Mutex(at.op)})
    BY <1>2, <1>0, <2>2, Steps
    DEF ServiceInv, Goto, flags, counts, Pools, PoolCond, BuildingPool, PoolFails,
        StepTypes, Stage, Units, Queues, Position, QueueDuesShrink, QueueMutexDue,
        QueueCondDue
  <2>6. UnitDuesShrink({Mutex(at.op)})
    BY <1>2, <1>0, <2>2, Steps
    DEF ServiceInv, Goto, flags, counts, Pools, PoolCond, BuildingPool, PoolFails,
        UnitDuesShrink, NotifierDue, DataDue, InCamera
  <2>7. CondsHeld'
    <3>1. \A p \in Pools : CondLive(p)' = CondLive(p)
      BY <1>2, <1>0
      DEF ServiceInv, Goto, flags, counts, Pools, PoolCond, BuildingPool,
          PoolFails, CondLive, Count
    <3>2. UNCHANGED slotFailures
      BY <1>2, <1>0
      DEF ServiceInv, Goto, flags, counts, Pools, PoolCond, BuildingPool, PoolFails
    <3> QED
      BY <2>2, <2>3, <3>1, <3>2, SameConds
  <2>8. HeldInv'
    BY ONLY <2>3, <2>4, <2>5, <2>6, <2>7, ReleaseDues
  <2> QED
    BY <2>1, <2>8 DEF ServiceInv
<1> QED
  BY <1>0, <1>1, <1>2
  DEF ServiceInv, Goto, flags, counts, Pools, PoolCond, BuildingPool, PoolFails

\* ... and the framebuffers, which are freed again when one of them fails.
LEMMA PoolSlotInv ==
  ASSUME ServiceInv, PoolSlot
  PROVE  ServiceInv'
<1> DEFINE k == at.i - 1
<1>0. at.op \in Pools /\ k \in 1 .. PoolSlots /\ PoolSlots \in Nat /\ at.i \in Nat
  BY InitAssumption DEF ServiceInv, StepTypes, Stage, PoolSlot, BuildingPool
<1>1. CASE /\ Hold({Framebuffer(at.op, k)}) /\ k < PoolSlots /\ Goto(at.op, at.i + 1)
          /\ UNCHANGED <<poolUp, slotFailures>>
  <2>1. StepTypes' /\ Stage'
    BY <1>1, <1>0, InitAssumption, Steps
    DEF ServiceInv, Goto, flags, counts, Pools, PoolSlot, BuildingPool, PoolFails,
        StepTypes, Stage, Units, Queues, Position
  <2>2. /\ \A o \in Pools : /\ Mutex(o) \notin {Framebuffer(at.op, k)}
                            /\ Cond(o) \notin {Framebuffer(at.op, k)}
                            /\ \A j \in 1 .. PoolSlots :
                                 (Framebuffer(o, j) \in {Framebuffer(at.op, k)} <=> o = at.op /\ j = k)
        /\ \A r \in Queues : /\ QueueMutexOf(r) \notin {Framebuffer(at.op, k)}
                             /\ QueueCondOf(r) \notin {Framebuffer(at.op, k)}
        /\ \A v \in Units : /\ Notifier(v) \notin {Framebuffer(at.op, k)}
                            /\ Data(v) \notin {Framebuffer(at.op, k)}
    BY <1>0
    DEF Mutex, Cond, Framebuffer, QueueMutexOf, QueueCondOf, Notifier, Data, Pools,
        Units, Queues
  <2>3. Hold({Framebuffer(at.op, k)}) /\ HeldInv
    BY <1>1
    DEF ServiceInv, Goto, flags, counts, Pools, PoolSlot, BuildingPool, PoolFails
  <2>4. PoolDuesGrow({Framebuffer(at.op, k)})
    BY <1>1, <1>0, <2>2, Steps
    DEF ServiceInv, Goto, flags, counts, Pools, PoolSlot, BuildingPool, PoolFails,
        StepTypes, Stage, Units, Queues, Position, PoolDuesGrow, MutexDue, SlotDue
  <2>5. QueueDuesGrow({Framebuffer(at.op, k)})
    BY <1>1, <1>0, <2>2, Steps
    DEF ServiceInv, Goto, flags, counts, Pools, PoolSlot, BuildingPool, PoolFails,
        StepTypes, Stage, Units, Queues, Position, QueueDuesGrow, QueueMutexDue,
        QueueCondDue
  <2>6. UnitDuesGrow({Framebuffer(at.op, k)})
    BY <1>1, <1>0, <2>2, Steps
    DEF ServiceInv, Goto, flags, counts, Pools, PoolSlot, BuildingPool, PoolFails,
        UnitDuesGrow, NotifierDue, DataDue, InCamera
  <2>7. CondsHeld'
    <3>1. \A p \in Pools : CondLive(p)' = CondLive(p)
      BY <1>1, <1>0
      DEF ServiceInv, Goto, flags, counts, Pools, PoolSlot, BuildingPool,
          PoolFails, CondLive, Count
    <3>2. UNCHANGED slotFailures
      BY <1>1, <1>0
      DEF ServiceInv, Goto, flags, counts, Pools, PoolSlot, BuildingPool, PoolFails
    <3> QED
      BY <2>2, <2>3, <3>1, <3>2, SameConds
  <2>8. HeldInv'
    BY ONLY <2>3, <2>4, <2>5, <2>6, <2>7, HoldDues
  <2> QED
    BY <2>1, <2>8 DEF ServiceInv
<1>2. CASE /\ Hold({Framebuffer(at.op, k)}) /\ k = PoolSlots /\ poolUp' = poolUp \cup {at.op}
          /\ IF at.op = "pool_in" THEN Goto("pool_out", 0) ELSE Goto("queue_mutex", 1)
          /\ UNCHANGED slotFailures
  <2>1. StepTypes' /\ Stage'
    <3>1. at' \in Position
      BY <1>2, <1>0, InitAssumption
      DEF ServiceInv, Goto, flags, counts, Pools, PoolSlot, BuildingPool,
          PoolFails, StepTypes, Stage, Units, Queues, Position
    <3>2. poolUp' \subseteq Pools /\ queueUp' \subseteq Queues /\ unitUp' \subseteq Units
      BY <1>2, <1>0
      DEF ServiceInv, Goto, flags, counts, Pools, PoolSlot, BuildingPool,
          PoolFails, StepTypes, Stage, Units, Queues
    <3>3. attempts' \in 0 .. MaxAttempts /\ slotFailures' \in Nat
      BY <1>2, <1>0
      DEF ServiceInv, Goto, flags, counts, Pools, PoolSlot, BuildingPool,
          PoolFails, StepTypes
    <3>4. inFb' \in BOOLEAN
      BY <1>2, <1>0
      DEF ServiceInv, Goto, flags, counts, Pools, PoolSlot, BuildingPool,
          PoolFails, StepTypes
    <3>5. svcUp' \in BOOLEAN
      <4>1. svcUp' = svcUp
        BY <1>2, <1>0
        DEF ServiceInv, Goto, flags, counts, Pools, PoolSlot, BuildingPool,
            PoolFails
      <4> QED
        BY <4>1 DEF ServiceInv, StepTypes
    <3>6. Stage'
      <4>1. CASE at.op = "pool_in"
        <5>1. /\ at' = [op |-> "pool_out", i |-> 0] /\ poolUp' = {"pool_in"} /\ queueUp' = {}
          BY <4>1, <1>2, <1>0, InitAssumption, Steps
          DEF ServiceInv, Goto, flags, counts, Pools, PoolSlot, BuildingPool,
              PoolFails, StepTypes, Stage, Units, Queues, Position
        <5>2. /\ unitUp' = {} /\ ~svcUp' /\ ~inFb' /\ slotFailures' < attempts'
          BY <4>1, <1>2, <1>0, InitAssumption, Steps
          DEF ServiceInv, Goto, flags, counts, Pools, PoolSlot, BuildingPool,
              PoolFails, StepTypes, Stage, Units, Queues, Position
        <5>3. /\ slotFailures' \in Nat /\ attempts' \in Nat
          BY <4>1, <1>2, <1>0, InitAssumption, Steps
          DEF ServiceInv, Goto, flags, counts, Pools, PoolSlot, BuildingPool,
              PoolFails, StepTypes, Stage, Units, Queues, Position
        <5> QED
          BY ONLY <5>1, <5>2, <5>3, InitAssumption, Steps
          DEF Stage, Pools, Queues, Units, ConversionUnit
      <4>2. CASE at.op = "pool_out"
        <5>1. /\ at' = [op |-> "queue_mutex", i |-> 1] /\ poolUp' = Pools /\ queueUp' = 1 .. 0
          BY <4>2, <1>2, <1>0, InitAssumption, Steps
          DEF ServiceInv, Goto, flags, counts, Pools, PoolSlot, BuildingPool,
              PoolFails, StepTypes, Stage, Units, Queues, Position
        <5>2. /\ unitUp' = {} /\ ~svcUp' /\ ~inFb' /\ slotFailures' <= attempts'
          BY <4>2, <1>2, <1>0, InitAssumption, Steps
          DEF ServiceInv, Goto, flags, counts, Pools, PoolSlot, BuildingPool,
              PoolFails, StepTypes, Stage, Units, Queues, Position
        <5> QED
          BY ONLY <5>1, <5>2, InitAssumption, Steps
          DEF Stage, Pools, Queues, Units, ConversionUnit
      <4> QED
        BY <1>2, <1>0, <4>1, <4>2 DEF Pools
    <3> QED
      BY <3>1, <3>2, <3>3, <3>4, <3>5, <3>6 DEF StepTypes, Position
  <2>2. /\ \A o \in Pools : /\ Mutex(o) \notin {Framebuffer(at.op, k)}
                            /\ Cond(o) \notin {Framebuffer(at.op, k)}
                            /\ \A j \in 1 .. PoolSlots :
                                 (Framebuffer(o, j) \in {Framebuffer(at.op, k)} <=> o = at.op /\ j = k)
        /\ \A r \in Queues : /\ QueueMutexOf(r) \notin {Framebuffer(at.op, k)}
                             /\ QueueCondOf(r) \notin {Framebuffer(at.op, k)}
        /\ \A v \in Units : /\ Notifier(v) \notin {Framebuffer(at.op, k)}
                            /\ Data(v) \notin {Framebuffer(at.op, k)}
    BY <1>0
    DEF Mutex, Cond, Framebuffer, QueueMutexOf, QueueCondOf, Notifier, Data, Pools,
        Units, Queues
  <2>3. Hold({Framebuffer(at.op, k)}) /\ HeldInv
    BY <1>2
    DEF ServiceInv, Goto, flags, counts, Pools, PoolSlot, BuildingPool, PoolFails
  <2>4. PoolDuesGrow({Framebuffer(at.op, k)})
    BY <1>2, <1>0, <2>2, Steps
    DEF ServiceInv, Goto, flags, counts, Pools, PoolSlot, BuildingPool, PoolFails,
        StepTypes, Stage, Units, Queues, Position, PoolDuesGrow, MutexDue, SlotDue
  <2>5. QueueDuesGrow({Framebuffer(at.op, k)})
    BY <1>2, <1>0, <2>2, Steps
    DEF ServiceInv, Goto, flags, counts, Pools, PoolSlot, BuildingPool, PoolFails,
        StepTypes, Stage, Units, Queues, Position, QueueDuesGrow, QueueMutexDue,
        QueueCondDue
  <2>6. UnitDuesGrow({Framebuffer(at.op, k)})
    BY <1>2, <1>0, <2>2, Steps
    DEF ServiceInv, Goto, flags, counts, Pools, PoolSlot, BuildingPool, PoolFails,
        UnitDuesGrow, NotifierDue, DataDue, InCamera
  <2>7. CondsHeld'
    <3>1. \A p \in Pools : CondLive(p)' = CondLive(p)
      BY <1>2, <1>0
      DEF ServiceInv, Goto, flags, counts, Pools, PoolSlot, BuildingPool,
          PoolFails, CondLive, Count
    <3>2. UNCHANGED slotFailures
      BY <1>2, <1>0
      DEF ServiceInv, Goto, flags, counts, Pools, PoolSlot, BuildingPool, PoolFails
    <3> QED
      BY <2>2, <2>3, <3>1, <3>2, SameConds
  <2>8. HeldInv'
    BY ONLY <2>3, <2>4, <2>5, <2>6, <2>7, HoldDues
  <2> QED
    BY <2>1, <2>8 DEF ServiceInv
<1>3. CASE /\ Release(SlotsUnwound(k) \cup {Mutex(at.op)})
          /\ slotFailures' = slotFailures + 1 /\ PoolFails /\ UNCHANGED poolUp
  <2>1. StepTypes' /\ Stage'
    BY <1>3, <1>0, InitAssumption, Steps
    DEF ServiceInv, Goto, flags, counts, Pools, PoolSlot, BuildingPool, PoolFails,
        StepTypes, Stage, Units, Queues, Position
  <2>2. /\ \A o \in Pools : /\ (Mutex(o) \in (SlotsUnwound(k) \cup {Mutex(at.op)}) <=> o = at.op)
                            /\ Cond(o) \notin (SlotsUnwound(k) \cup {Mutex(at.op)})
                            /\ \A j \in 1 .. PoolSlots :
                                 (Framebuffer(o, j) \in (SlotsUnwound(k) \cup {Mutex(at.op)}) <=> (o = at.op /\ j < k))
        /\ \A r \in Queues : /\ QueueMutexOf(r) \notin (SlotsUnwound(k) \cup {Mutex(at.op)})
                             /\ QueueCondOf(r) \notin (SlotsUnwound(k) \cup {Mutex(at.op)})
        /\ \A v \in Units : /\ Notifier(v) \notin (SlotsUnwound(k) \cup {Mutex(at.op)})
                            /\ Data(v) \notin (SlotsUnwound(k) \cup {Mutex(at.op)})
    BY <1>0
    DEF Mutex, Cond, Framebuffer, QueueMutexOf, QueueCondOf, Notifier, Data, Pools,
        Units, Queues, SlotsUnwound
  <2>3. Release((SlotsUnwound(k) \cup {Mutex(at.op)})) /\ HeldInv
    BY <1>3
    DEF ServiceInv, Goto, flags, counts, Pools, PoolSlot, BuildingPool, PoolFails
  <2>4. PoolDuesShrink((SlotsUnwound(k) \cup {Mutex(at.op)}))
    BY <1>3, <1>0, <2>2, Steps
    DEF ServiceInv, Goto, flags, counts, Pools, PoolSlot, BuildingPool, PoolFails,
        StepTypes, Stage, Units, Queues, Position, PoolDuesShrink, MutexDue, SlotDue
  <2>5. QueueDuesShrink((SlotsUnwound(k) \cup {Mutex(at.op)}))
    BY <1>3, <1>0, <2>2, Steps
    DEF ServiceInv, Goto, flags, counts, Pools, PoolSlot, BuildingPool, PoolFails,
        StepTypes, Stage, Units, Queues, Position, QueueDuesShrink, QueueMutexDue,
        QueueCondDue
  <2>6. UnitDuesShrink((SlotsUnwound(k) \cup {Mutex(at.op)}))
    BY <1>3, <1>0, <2>2, Steps
    DEF ServiceInv, Goto, flags, counts, Pools, PoolSlot, BuildingPool, PoolFails,
        UnitDuesShrink, NotifierDue, DataDue, InCamera
  <2>7. CondsHeld'
    <3>1. \A p \in Pools : held'[Cond(p)] = held[Cond(p)]
      BY <2>2, <2>3, ReleaseFacts, KindsHeld DEF HeldInv, Count
    <3>2. \A p \in Pools : CondLive(p) = CondLive(p)' + Count(p = at.op)
      <4>1. /\ at.op \notin poolUp /\ at.i >= 2
            /\ poolUp' = poolUp /\ at'.op \notin Pools
        BY <1>3, <1>0 DEF ServiceInv, Stage, Goto, Pools, PoolSlot, PoolFails
      <4> QED
        BY <4>1 DEF CondLive, Count
    <3>3. slotFailures' = slotFailures + 1
      BY <1>3
    <3>4. \A p \in Pools : held[Cond(p)] \in Int
      BY KindsHeld DEF HeldInv, ServiceInv
    <3> QED
      <4>1. "pool_in" \in Pools /\ "pool_out" \in Pools /\ at.op \in {"pool_in", "pool_out"}
        BY <1>0 DEF Pools
      <4>2. \A p \in Pools : CondLive(p) \in 0 .. 1 /\ CondLive(p)' \in 0 .. 1
        BY DEF CondLive, Count
      <4>3. /\ Count("pool_in" = at.op) + Count("pool_out" = at.op) = 1
            /\ \A p \in Pools : Count(p = at.op) \in 0 .. 1
        BY <4>1 DEF Count
      <4>4. slotFailures \in Nat
        BY DEF ServiceInv, StepTypes
      <4> QED
        BY <3>1, <3>2, <3>3, <3>4, <2>3, <4>1, <4>2, <4>3, <4>4
        DEF HeldInv, CondsHeld
  <2>8. HeldInv'
    BY ONLY <2>3, <2>4, <2>5, <2>6, <2>7, ReleaseDues
  <2> QED
    BY <2>1, <2>8 DEF ServiceInv
<1> QED
  BY <1>0, <1>1, <1>2, <1>3
  DEF ServiceInv, Goto, flags, counts, Pools, PoolSlot, BuildingPool, PoolFails

\* vf_buf_queue_init.
LEMMA QueueMutexInv ==
  ASSUME ServiceInv, QueueMutex
  PROVE  ServiceInv'
<1>1. CASE Hold({QueueMutexOf(at.i)}) /\ Goto("queue_cond", at.i)
  <2>1. StepTypes' /\ Stage'
    BY <1>1, InitAssumption, Steps
    DEF ServiceInv, Goto, flags, counts, Pools, QueueMutex, StepTypes, Stage,
        Units, Queues, Position
  <2>2. /\ \A o \in Pools : /\ Mutex(o) \notin {QueueMutexOf(at.i)}
                            /\ Cond(o) \notin {QueueMutexOf(at.i)}
                            /\ \A j \in 1 .. PoolSlots :
                                 Framebuffer(o, j) \notin {QueueMutexOf(at.i)}
        /\ \A r \in Queues : /\ (QueueMutexOf(r) \in {QueueMutexOf(at.i)} <=> r = at.i)
                             /\ QueueCondOf(r) \notin {QueueMutexOf(at.i)}
        /\ \A v \in Units : /\ Notifier(v) \notin {QueueMutexOf(at.i)}
                            /\ Data(v) \notin {QueueMutexOf(at.i)}
    BY
    DEF Mutex, Cond, Framebuffer, QueueMutexOf, QueueCondOf, Notifier, Data, Pools,
        Units, Queues
  <2>3. Hold({QueueMutexOf(at.i)}) /\ HeldInv
    BY <1>1 DEF ServiceInv, Goto, flags, counts, Pools, QueueMutex, QueueMutexOf
  <2>4. PoolDuesGrow({QueueMutexOf(at.i)})
    BY <1>1, <2>2, Steps
    DEF ServiceInv, Goto, flags, counts, Pools, QueueMutex, StepTypes, Stage,
        Units, Queues, Position, PoolDuesGrow, MutexDue, SlotDue
  <2>5. QueueDuesGrow({QueueMutexOf(at.i)})
    BY <1>1, <2>2, Steps
    DEF ServiceInv, Goto, flags, counts, Pools, QueueMutex, StepTypes, Stage,
        Units, Queues, Position, QueueDuesGrow, QueueMutexDue, QueueCondDue
  <2>6. UnitDuesGrow({QueueMutexOf(at.i)})
    BY <1>1, <2>2, Steps
    DEF ServiceInv, Goto, flags, counts, Pools, QueueMutex, UnitDuesGrow,
        NotifierDue, DataDue, InCamera
  <2>7. CondsHeld'
    <3>1. \A p \in Pools : CondLive(p)' = CondLive(p)
      BY <1>1
      DEF ServiceInv, Goto, flags, counts, Pools, QueueMutex, CondLive, Count
    <3>2. UNCHANGED slotFailures
      BY <1>1 DEF ServiceInv, Goto, flags, counts, Pools, QueueMutex, QueueMutexOf
    <3> QED
      BY <2>2, <2>3, <3>1, <3>2, SameConds
  <2>8. HeldInv'
    BY ONLY <2>3, <2>4, <2>5, <2>6, <2>7, HoldDues
  <2> QED
    BY <2>1, <2>8 DEF ServiceInv
<1>2. CASE UNCHANGED held /\ Goto("destroy_queues", 0)
  <2>1. StepTypes' /\ Stage'
    BY <1>2, InitAssumption, Steps
    DEF ServiceInv, Goto, flags, counts, Pools, QueueMutex, StepTypes, Stage,
        Units, Queues, Position
  <2>2. HeldInv /\ UNCHANGED held
    BY <1>2 DEF ServiceInv, Goto, flags, counts, Pools, QueueMutex, QueueMutexOf
  <2>3. \A p \in Pools : /\ MutexDue(p)' <=> MutexDue(p)
                         /\ \A k \in 1 .. PoolSlots : SlotDue(p, k)' <=> SlotDue(p, k)
    BY <1>2, Steps
    DEF ServiceInv, Goto, flags, counts, Pools, QueueMutex, StepTypes, Stage,
        Units, Queues, Position, MutexDue, SlotDue
  <2>4. \A q \in Queues : /\ QueueMutexDue(q)' <=> QueueMutexDue(q)
                          /\ QueueCondDue(q)' <=> QueueCondDue(q)
    BY <1>2, Steps
    DEF ServiceInv, Goto, flags, counts, Pools, QueueMutex, StepTypes, Stage,
        Units, Queues, Position, QueueMutexDue, QueueCondDue
  <2>5. \A u \in Units : /\ NotifierDue(u)' <=> NotifierDue(u)
                         /\ DataDue(u)' <=> DataDue(u)
    BY <1>2, Steps
    DEF ServiceInv, Goto, flags, counts, Pools, QueueMutex, NotifierDue, DataDue,
        InCamera
  <2>6. /\ \A p \in Pools : CondLive(p)' = CondLive(p)
        /\ UNCHANGED slotFailures
    BY <1>2 DEF ServiceInv, Goto, flags, counts, Pools, QueueMutex, CondLive, Count
  <2>7. HeldInv'
    BY ONLY <2>2, <2>3, <2>4, <2>5, <2>6, SameDues
  <2> QED
    BY <2>1, <2>7 DEF ServiceInv
<1> QED
  BY <1>1, <1>2 DEF ServiceInv, Goto, flags, counts, Pools, QueueMutex, QueueMutexOf

\* The queue is marked as initialised once its condition variable is there.
LEMMA QueueCondInv ==
  ASSUME ServiceInv, QueueCond
  PROVE  ServiceInv'
<1>1. CASE /\ Hold({QueueCondOf(at.i)}) /\ queueUp' = queueUp \cup {at.i}
          /\ IF at.i = LastQueue THEN Goto("notifier", 1) ELSE Goto("queue_mutex", at.i + 1)
  <2>1. StepTypes' /\ Stage'
    <3>1. at' \in Position
      BY <1>1, InitAssumption
      DEF ServiceInv, Goto, flags, counts, Pools, QueueCond, LastQueue, StepTypes,
          Stage, Units, Queues, Position
    <3>2. poolUp' \subseteq Pools /\ queueUp' \subseteq Queues /\ unitUp' \subseteq Units
      BY <1>1
      DEF ServiceInv, Goto, flags, counts, Pools, QueueCond, LastQueue, StepTypes,
          Stage, Units, Queues
    <3>3. attempts' \in 0 .. MaxAttempts /\ slotFailures' \in Nat
      BY <1>1
      DEF ServiceInv, Goto, flags, counts, Pools, QueueCond, LastQueue, StepTypes
    <3>4. inFb' \in BOOLEAN
      BY <1>1
      DEF ServiceInv, Goto, flags, counts, Pools, QueueCond, LastQueue, StepTypes
    <3>5. svcUp' \in BOOLEAN
      <4>1. svcUp' = svcUp
        BY <1>1
        DEF ServiceInv, Goto, flags, counts, Pools, QueueCond, LastQueue,
            QueueMutexOf, QueueCondOf
      <4> QED
        BY <4>1 DEF ServiceInv, StepTypes
    <3>6. Stage'
      <4>1. CASE at.i = 3
        <5>1. /\ at' = [op |-> "notifier", i |-> 1] /\ poolUp' = Pools /\ queueUp' = Queues
          BY <4>1, <1>1, InitAssumption, Steps
          DEF ServiceInv, Goto, flags, counts, Pools, QueueCond, LastQueue,
              StepTypes, Stage, Units, Queues, Position
        <5>2. /\ unitUp' = 1 .. 0 /\ ~svcUp' /\ ~inFb' /\ slotFailures' <= attempts'
          BY <4>1, <1>1, InitAssumption, Steps
          DEF ServiceInv, Goto, flags, counts, Pools, QueueCond, LastQueue,
              StepTypes, Stage, Units, Queues, Position
        <5> QED
          BY ONLY <5>1, <5>2, InitAssumption, Steps
          DEF Stage, Pools, Queues, Units, ConversionUnit
      <4>2. CASE at.i # 3
        <5> QED
          BY <4>2, <1>1, InitAssumption, Steps
          DEF ServiceInv, Goto, flags, counts, Pools, QueueCond, LastQueue,
              StepTypes, Stage, Units, Queues, Position
      <4> QED
        BY <1>1, <4>1, <4>2 DEF Pools
    <3> QED
      BY <3>1, <3>2, <3>3, <3>4, <3>5, <3>6 DEF StepTypes, Position
  <2>2. /\ \A o \in Pools : /\ Mutex(o) \notin {QueueCondOf(at.i)}
                            /\ Cond(o) \notin {QueueCondOf(at.i)}
                            /\ \A j \in 1 .. PoolSlots :
                                 Framebuffer(o, j) \notin {QueueCondOf(at.i)}
        /\ \A r \in Queues : /\ QueueMutexOf(r) \notin {QueueCondOf(at.i)}
                             /\ (QueueCondOf(r) \in {QueueCondOf(at.i)} <=> r = at.i)
        /\ \A v \in Units : /\ Notifier(v) \notin {QueueCondOf(at.i)}
                            /\ Data(v) \notin {QueueCondOf(at.i)}
    BY
    DEF Mutex, Cond, Framebuffer, QueueMutexOf, QueueCondOf, Notifier, Data, Pools,
        Units, Queues
  <2>3. Hold({QueueCondOf(at.i)}) /\ HeldInv
    BY <1>1
    DEF ServiceInv, Goto, flags, counts, Pools, QueueCond, LastQueue, QueueMutexOf,
        QueueCondOf
  <2>4. PoolDuesGrow({QueueCondOf(at.i)})
    BY <1>1, <2>2, Steps
    DEF ServiceInv, Goto, flags, counts, Pools, QueueCond, LastQueue, StepTypes,
        Stage, Units, Queues, Position, PoolDuesGrow, MutexDue, SlotDue
  <2>5. QueueDuesGrow({QueueCondOf(at.i)})
    BY <1>1, <2>2, Steps
    DEF ServiceInv, Goto, flags, counts, Pools, QueueCond, LastQueue, StepTypes,
        Stage, Units, Queues, Position, QueueDuesGrow, QueueMutexDue, QueueCondDue
  <2>6. UnitDuesGrow({QueueCondOf(at.i)})
    BY <1>1, <2>2, Steps
    DEF ServiceInv, Goto, flags, counts, Pools, QueueCond, LastQueue, UnitDuesGrow,
        NotifierDue, DataDue, InCamera
  <2>7. CondsHeld'
    <3>1. \A p \in Pools : CondLive(p)' = CondLive(p)
      BY <1>1
      DEF ServiceInv, Goto, flags, counts, Pools, QueueCond, LastQueue, CondLive,
          Count
    <3>2. UNCHANGED slotFailures
      BY <1>1
      DEF ServiceInv, Goto, flags, counts, Pools, QueueCond, LastQueue,
          QueueMutexOf, QueueCondOf
    <3> QED
      BY <2>2, <2>3, <3>1, <3>2, SameConds
  <2>8. HeldInv'
    BY ONLY <2>3, <2>4, <2>5, <2>6, <2>7, HoldDues
  <2> QED
    BY <2>1, <2>8 DEF ServiceInv
<1>2. CASE /\ Release({QueueMutexOf(at.i)}) /\ Goto("destroy_queues", 0)
          /\ UNCHANGED queueUp
  <2>1. StepTypes' /\ Stage'
    BY <1>2, InitAssumption, Steps
    DEF ServiceInv, Goto, flags, counts, Pools, QueueCond, LastQueue, StepTypes,
        Stage, Units, Queues, Position
  <2>2. /\ \A o \in Pools : /\ Mutex(o) \notin {QueueMutexOf(at.i)}
                            /\ Cond(o) \notin {QueueMutexOf(at.i)}
                            /\ \A j \in 1 .. PoolSlots :
                                 Framebuffer(o, j) \notin {QueueMutexOf(at.i)}
        /\ \A r \in Queues : /\ (QueueMutexOf(r) \in {QueueMutexOf(at.i)} <=> r = at.i)
                             /\ QueueCondOf(r) \notin {QueueMutexOf(at.i)}
        /\ \A v \in Units : /\ Notifier(v) \notin {QueueMutexOf(at.i)}
                            /\ Data(v) \notin {QueueMutexOf(at.i)}
    BY
    DEF Mutex, Cond, Framebuffer, QueueMutexOf, QueueCondOf, Notifier, Data, Pools,
        Units, Queues
  <2>3. Release({QueueMutexOf(at.i)}) /\ HeldInv
    BY <1>2
    DEF ServiceInv, Goto, flags, counts, Pools, QueueCond, LastQueue, QueueMutexOf,
        QueueCondOf
  <2>4. PoolDuesShrink({QueueMutexOf(at.i)})
    BY <1>2, <2>2, Steps
    DEF ServiceInv, Goto, flags, counts, Pools, QueueCond, LastQueue, StepTypes,
        Stage, Units, Queues, Position, PoolDuesShrink, MutexDue, SlotDue
  <2>5. QueueDuesShrink({QueueMutexOf(at.i)})
    BY <1>2, <2>2, Steps
    DEF ServiceInv, Goto, flags, counts, Pools, QueueCond, LastQueue, StepTypes,
        Stage, Units, Queues, Position, QueueDuesShrink, QueueMutexDue, QueueCondDue
  <2>6. UnitDuesShrink({QueueMutexOf(at.i)})
    BY <1>2, <2>2, Steps
    DEF ServiceInv, Goto, flags, counts, Pools, QueueCond, LastQueue,
        UnitDuesShrink, NotifierDue, DataDue, InCamera
  <2>7. CondsHeld'
    <3>1. \A p \in Pools : CondLive(p)' = CondLive(p)
      BY <1>2
      DEF ServiceInv, Goto, flags, counts, Pools, QueueCond, LastQueue, CondLive,
          Count
    <3>2. UNCHANGED slotFailures
      BY <1>2
      DEF ServiceInv, Goto, flags, counts, Pools, QueueCond, LastQueue,
          QueueMutexOf, QueueCondOf
    <3> QED
      BY <2>2, <2>3, <3>1, <3>2, SameConds
  <2>8. HeldInv'
    BY ONLY <2>3, <2>4, <2>5, <2>6, <2>7, ReleaseDues
  <2> QED
    BY <2>1, <2>8 DEF ServiceInv
<1> QED
  BY <1>1, <1>2
  DEF ServiceInv, Goto, flags, counts, Pools, QueueCond, LastQueue, QueueMutexOf,
      QueueCondOf

\* vf_unit_create: the notifier,
LEMMA UnitNotifierInv ==
  ASSUME ServiceInv, UnitNotifier
  PROVE  ServiceInv'
<1>1. CASE Hold({Notifier(at.i)}) /\ Goto("data", at.i)
  <2>1. StepTypes' /\ Stage'
    BY <1>1, InitAssumption, Steps
    DEF ServiceInv, Goto, flags, counts, Pools, UnitNotifier, UnitFails, StepTypes,
        Stage, Units, Queues, Position
  <2>2. /\ \A o \in Pools : /\ Mutex(o) \notin {Notifier(at.i)}
                            /\ Cond(o) \notin {Notifier(at.i)}
                            /\ \A j \in 1 .. PoolSlots :
                                 Framebuffer(o, j) \notin {Notifier(at.i)}
        /\ \A r \in Queues : /\ QueueMutexOf(r) \notin {Notifier(at.i)}
                             /\ QueueCondOf(r) \notin {Notifier(at.i)}
        /\ \A v \in Units : /\ (Notifier(v) \in {Notifier(at.i)} <=> v = at.i)
                            /\ Data(v) \notin {Notifier(at.i)}
    BY
    DEF Mutex, Cond, Framebuffer, QueueMutexOf, QueueCondOf, Notifier, Data, Pools,
        Units, Queues
  <2>3. Hold({Notifier(at.i)}) /\ HeldInv
    BY <1>1 DEF ServiceInv, Goto, flags, counts, Pools, UnitNotifier, UnitFails
  <2>4. PoolDuesGrow({Notifier(at.i)})
    BY <1>1, <2>2, Steps
    DEF ServiceInv, Goto, flags, counts, Pools, UnitNotifier, UnitFails,
        PoolDuesGrow, MutexDue, SlotDue
  <2>5. QueueDuesGrow({Notifier(at.i)})
    BY <1>1, <2>2, Steps
    DEF ServiceInv, Goto, flags, counts, Pools, UnitNotifier, UnitFails,
        QueueDuesGrow, QueueMutexDue, QueueCondDue
  <2>6. UnitDuesGrow({Notifier(at.i)})
    BY <1>1, <2>2, Steps
    DEF ServiceInv, Goto, flags, counts, Pools, UnitNotifier, UnitFails, StepTypes,
        Stage, Units, Queues, Position, UnitDuesGrow, NotifierDue, DataDue, InCamera
  <2>7. CondsHeld'
    <3>1. \A p \in Pools : CondLive(p)' = CondLive(p)
      BY <1>1
      DEF ServiceInv, Goto, flags, counts, Pools, UnitNotifier, UnitFails,
          CondLive, Count
    <3>2. UNCHANGED slotFailures
      BY <1>1 DEF ServiceInv, Goto, flags, counts, Pools, UnitNotifier, UnitFails
    <3> QED
      BY <2>2, <2>3, <3>1, <3>2, SameConds
  <2>8. HeldInv'
    BY ONLY <2>3, <2>4, <2>5, <2>6, <2>7, HoldDues
  <2> QED
    BY <2>1, <2>8 DEF ServiceInv
<1>2. CASE UNCHANGED held /\ UnitFails(at.i)
  <2>1. StepTypes' /\ Stage'
    BY <1>2, InitAssumption, Steps
    DEF ServiceInv, Goto, flags, counts, Pools, UnitNotifier, UnitFails, StepTypes,
        Stage, Units, Queues, Position
  <2>2. HeldInv /\ UNCHANGED held
    BY <1>2 DEF ServiceInv, Goto, flags, counts, Pools, UnitNotifier, UnitFails
  <2>3. \A p \in Pools : /\ MutexDue(p)' <=> MutexDue(p)
                         /\ \A k \in 1 .. PoolSlots : SlotDue(p, k)' <=> SlotDue(p, k)
    BY <1>2, Steps
    DEF ServiceInv, Goto, flags, counts, Pools, UnitNotifier, UnitFails, MutexDue,
        SlotDue
  <2>4. \A q \in Queues : /\ QueueMutexDue(q)' <=> QueueMutexDue(q)
                          /\ QueueCondDue(q)' <=> QueueCondDue(q)
    BY <1>2, Steps
    DEF ServiceInv, Goto, flags, counts, Pools, UnitNotifier, UnitFails,
        QueueMutexDue, QueueCondDue
  <2>5. \A u \in Units : /\ NotifierDue(u)' <=> NotifierDue(u)
                         /\ DataDue(u)' <=> DataDue(u)
    BY <1>2, Steps
    DEF ServiceInv, Goto, flags, counts, Pools, UnitNotifier, UnitFails, StepTypes,
        Stage, Units, Queues, Position, NotifierDue, DataDue, InCamera
  <2>6. /\ \A p \in Pools : CondLive(p)' = CondLive(p)
        /\ UNCHANGED slotFailures
    BY <1>2
    DEF ServiceInv, Goto, flags, counts, Pools, UnitNotifier, UnitFails, CondLive,
        Count
  <2>7. HeldInv'
    BY ONLY <2>2, <2>3, <2>4, <2>5, <2>6, SameDues
  <2> QED
    BY <2>1, <2>7 DEF ServiceInv
<1> QED
  BY <1>1, <1>2 DEF ServiceInv, Goto, flags, counts, Pools, UnitNotifier, UnitFails

\* ... and the init operation of the unit.
LEMMA UnitInitInv ==
  ASSUME ServiceInv, UnitInit
  PROVE  ServiceInv'
<1>1. CASE Release({Notifier(at.i)}) /\ UnitFails(at.i) /\ UNCHANGED <<unitUp, svcUp>>
  <2>1. StepTypes' /\ Stage'
    BY <1>1, InitAssumption, Steps
    DEF ServiceInv, Goto, flags, counts, Pools, UnitInit, UnitFails, UnitCreated,
        CameraUnit, StepTypes, Stage, Units, Queues, Position
  <2>2. /\ \A o \in Pools : /\ Mutex(o) \notin {Notifier(at.i)}
                            /\ Cond(o) \notin {Notifier(at.i)}
                            /\ \A j \in 1 .. PoolSlots :
                                 Framebuffer(o, j) \notin {Notifier(at.i)}
        /\ \A r \in Queues : /\ QueueMutexOf(r) \notin {Notifier(at.i)}
                             /\ QueueCondOf(r) \notin {Notifier(at.i)}
        /\ \A v \in Units : /\ (Notifier(v) \in {Notifier(at.i)} <=> v = at.i)
                            /\ Data(v) \notin {Notifier(at.i)}
    BY
    DEF Mutex, Cond, Framebuffer, QueueMutexOf, QueueCondOf, Notifier, Data, Pools,
        Units, Queues
  <2>3. Release({Notifier(at.i)}) /\ HeldInv
    BY <1>1
    DEF ServiceInv, Goto, flags, counts, Pools, UnitInit, UnitFails, UnitCreated,
        CameraUnit
  <2>4. PoolDuesShrink({Notifier(at.i)})
    BY <1>1, <2>2, Steps
    DEF ServiceInv, Goto, flags, counts, Pools, UnitInit, UnitFails, UnitCreated,
        CameraUnit, PoolDuesShrink, MutexDue, SlotDue
  <2>5. QueueDuesShrink({Notifier(at.i)})
    BY <1>1, <2>2, Steps
    DEF ServiceInv, Goto, flags, counts, Pools, UnitInit, UnitFails, UnitCreated,
        CameraUnit, QueueDuesShrink, QueueMutexDue, QueueCondDue
  <2>6. UnitDuesShrink({Notifier(at.i)})
    BY <1>1, <2>2, Steps
    DEF ServiceInv, Goto, flags, counts, Pools, UnitInit, UnitFails, UnitCreated,
        CameraUnit, StepTypes, Stage, Units, Queues, Position, UnitDuesShrink,
        NotifierDue, DataDue, InCamera
  <2>7. CondsHeld'
    <3>1. \A p \in Pools : CondLive(p)' = CondLive(p)
      BY <1>1
      DEF ServiceInv, Goto, flags, counts, Pools, UnitInit, UnitFails, UnitCreated,
          CameraUnit, CondLive, Count
    <3>2. UNCHANGED slotFailures
      BY <1>1
      DEF ServiceInv, Goto, flags, counts, Pools, UnitInit, UnitFails, UnitCreated,
          CameraUnit
    <3> QED
      BY <2>2, <2>3, <3>1, <3>2, SameConds
  <2>8. HeldInv'
    BY ONLY <2>3, <2>4, <2>5, <2>6, <2>7, ReleaseDues
  <2> QED
    BY <2>1, <2>8 DEF ServiceInv
<1>2. CASE Hold({Data(at.i)}) /\ at.i = CameraUnit /\ Goto("open_camera", at.i) /\ UNCHANGED <<unitUp, svcUp>>
  <2>1. StepTypes' /\ Stage'
    BY <1>2, InitAssumption, Steps
    DEF ServiceInv, Goto, flags, counts, Pools, UnitInit, UnitFails, UnitCreated,
        CameraUnit, StepTypes, Stage, Units, Queues, Position
  <2>2. /\ \A o \in Pools : /\ Mutex(o) \notin {Data(at.i)}
                            /\ Cond(o) \notin {Data(at.i)}
                            /\ \A j \in 1 .. PoolSlots :
                                 Framebuffer(o, j) \notin {Data(at.i)}
        /\ \A r \in Queues : /\ QueueMutexOf(r) \notin {Data(at.i)}
                             /\ QueueCondOf(r) \notin {Data(at.i)}
        /\ \A v \in Units : /\ Notifier(v) \notin {Data(at.i)}
                            /\ (Data(v) \in {Data(at.i)} <=> v = at.i)
    BY
    DEF Mutex, Cond, Framebuffer, QueueMutexOf, QueueCondOf, Notifier, Data, Pools,
        Units, Queues
  <2>3. Hold({Data(at.i)}) /\ HeldInv
    BY <1>2
    DEF ServiceInv, Goto, flags, counts, Pools, UnitInit, UnitFails, UnitCreated,
        CameraUnit
  <2>4. PoolDuesGrow({Data(at.i)})
    BY <1>2, <2>2, Steps
    DEF ServiceInv, Goto, flags, counts, Pools, UnitInit, UnitFails, UnitCreated,
        CameraUnit, PoolDuesGrow, MutexDue, SlotDue
  <2>5. QueueDuesGrow({Data(at.i)})
    BY <1>2, <2>2, Steps
    DEF ServiceInv, Goto, flags, counts, Pools, UnitInit, UnitFails, UnitCreated,
        CameraUnit, QueueDuesGrow, QueueMutexDue, QueueCondDue
  <2>6. UnitDuesGrow({Data(at.i)})
    BY <1>2, <2>2, Steps
    DEF ServiceInv, Goto, flags, counts, Pools, UnitInit, UnitFails, UnitCreated,
        CameraUnit, StepTypes, Stage, Units, Queues, Position, UnitDuesGrow,
        NotifierDue, DataDue, InCamera
  <2>7. CondsHeld'
    <3>1. \A p \in Pools : CondLive(p)' = CondLive(p)
      BY <1>2
      DEF ServiceInv, Goto, flags, counts, Pools, UnitInit, UnitFails, UnitCreated,
          CameraUnit, CondLive, Count
    <3>2. UNCHANGED slotFailures
      BY <1>2
      DEF ServiceInv, Goto, flags, counts, Pools, UnitInit, UnitFails, UnitCreated,
          CameraUnit
    <3> QED
      BY <2>2, <2>3, <3>1, <3>2, SameConds
  <2>8. HeldInv'
    BY ONLY <2>3, <2>4, <2>5, <2>6, <2>7, HoldDues
  <2> QED
    BY <2>1, <2>8 DEF ServiceInv
<1>3. CASE Hold({Data(at.i)}) /\ at.i # CameraUnit /\ UnitCreated(at.i)
  <2>1. StepTypes' /\ Stage'
    <3>1. at' \in Position
      BY <1>3, InitAssumption
      DEF ServiceInv, Goto, flags, counts, Pools, UnitInit, UnitFails, UnitCreated,
          CameraUnit, StepTypes, Stage, Units, Queues, Position
    <3>2. poolUp' \subseteq Pools /\ queueUp' \subseteq Queues /\ unitUp' \subseteq Units
      BY <1>3
      DEF ServiceInv, Goto, flags, counts, Pools, UnitInit, UnitFails, UnitCreated,
          CameraUnit, StepTypes, Stage, Units, Queues
    <3>3. attempts' \in 0 .. MaxAttempts /\ slotFailures' \in Nat
      BY <1>3
      DEF ServiceInv, Goto, flags, counts, Pools, UnitInit, UnitFails, UnitCreated,
          CameraUnit, StepTypes
    <3>4. inFb' \in BOOLEAN
      BY <1>3
      DEF ServiceInv, Goto, flags, counts, Pools, UnitInit, UnitFails, UnitCreated,
          CameraUnit, StepTypes
    <3>5. svcUp' \in BOOLEAN
      <4>1. svcUp' = (at.i = 4)
        BY <1>3
        DEF ServiceInv, Goto, flags, counts, Pools, UnitInit, UnitFails,
            UnitCreated, CameraUnit
      <4> QED
        BY <4>1 DEF ServiceInv, StepTypes
    <3>6. Stage'
      <4>1. CASE at.i = 4
        <5>1. /\ at' = [op |-> "idle", i |-> 0] /\ poolUp' = Pools /\ queueUp' = Queues
          BY <4>1, <1>3, InitAssumption, Steps
          DEF ServiceInv, Goto, flags, counts, Pools, UnitInit, UnitFails,
              UnitCreated, CameraUnit, StepTypes, Stage, Units, Queues, Position
        <5>2. /\ unitUp' = Units /\ svcUp' /\ inFb' \in BOOLEAN /\ slotFailures' <= attempts'
          BY <4>1, <1>3, InitAssumption, Steps
          DEF ServiceInv, Goto, flags, counts, Pools, UnitInit, UnitFails,
              UnitCreated, CameraUnit, StepTypes, Stage, Units, Queues, Position
        <5> QED
          BY ONLY <5>1, <5>2, InitAssumption, Steps
          DEF Stage, Pools, Queues, Units, ConversionUnit
      <4>2. CASE at.i # 4
        <5> QED
          BY <4>2, <1>3, InitAssumption, Steps
          DEF ServiceInv, Goto, flags, counts, Pools, UnitInit, UnitFails,
              UnitCreated, CameraUnit, StepTypes, Stage, Units, Queues, Position
      <4> QED
        BY <1>3, <4>1, <4>2 DEF Pools
    <3> QED
      BY <3>1, <3>2, <3>3, <3>4, <3>5, <3>6 DEF StepTypes, Position
  <2>2. /\ \A o \in Pools : /\ Mutex(o) \notin {Data(at.i)}
                            /\ Cond(o) \notin {Data(at.i)}
                            /\ \A j \in 1 .. PoolSlots :
                                 Framebuffer(o, j) \notin {Data(at.i)}
        /\ \A r \in Queues : /\ QueueMutexOf(r) \notin {Data(at.i)}
                             /\ QueueCondOf(r) \notin {Data(at.i)}
        /\ \A v \in Units : /\ Notifier(v) \notin {Data(at.i)}
                            /\ (Data(v) \in {Data(at.i)} <=> v = at.i)
    BY
    DEF Mutex, Cond, Framebuffer, QueueMutexOf, QueueCondOf, Notifier, Data, Pools,
        Units, Queues
  <2>3. Hold({Data(at.i)}) /\ HeldInv
    BY <1>3
    DEF ServiceInv, Goto, flags, counts, Pools, UnitInit, UnitFails, UnitCreated,
        CameraUnit
  <2>4. PoolDuesGrow({Data(at.i)})
    BY <1>3, <2>2, Steps
    DEF ServiceInv, Goto, flags, counts, Pools, UnitInit, UnitFails, UnitCreated,
        CameraUnit, PoolDuesGrow, MutexDue, SlotDue
  <2>5. QueueDuesGrow({Data(at.i)})
    BY <1>3, <2>2, Steps
    DEF ServiceInv, Goto, flags, counts, Pools, UnitInit, UnitFails, UnitCreated,
        CameraUnit, QueueDuesGrow, QueueMutexDue, QueueCondDue
  <2>6. UnitDuesGrow({Data(at.i)})
    BY <1>3, <2>2, Steps
    DEF ServiceInv, Goto, flags, counts, Pools, UnitInit, UnitFails, UnitCreated,
        CameraUnit, StepTypes, Stage, Units, Queues, Position, UnitDuesGrow,
        NotifierDue, DataDue, InCamera
  <2>7. CondsHeld'
    <3>1. \A p \in Pools : CondLive(p)' = CondLive(p)
      BY <1>3
      DEF ServiceInv, Goto, flags, counts, Pools, UnitInit, UnitFails, UnitCreated,
          CameraUnit, CondLive, Count
    <3>2. UNCHANGED slotFailures
      BY <1>3
      DEF ServiceInv, Goto, flags, counts, Pools, UnitInit, UnitFails, UnitCreated,
          CameraUnit
    <3> QED
      BY <2>2, <2>3, <3>1, <3>2, SameConds
  <2>8. HeldInv'
    BY ONLY <2>3, <2>4, <2>5, <2>6, <2>7, HoldDues
  <2> QED
    BY <2>1, <2>8 DEF ServiceInv
<1> QED
  BY <1>1, <1>2, <1>3
  DEF ServiceInv, Goto, flags, counts, Pools, UnitInit, UnitFails, UnitCreated,
      CameraUnit

\* The camera is opened,
LEMMA CameraOpensInv ==
  ASSUME ServiceInv, CameraOpens
  PROVE  ServiceInv'
<1>1. StepTypes' /\ Stage'
  BY InitAssumption, Steps
  DEF ServiceInv, Goto, flags, counts, Pools, CameraOpens, CameraUnit, StepTypes,
      Stage, Units, Queues, Position
<1>2. HeldInv /\ UNCHANGED held
  BY DEF ServiceInv, Goto, flags, counts, Pools, CameraOpens, CameraUnit
<1>3. \A p \in Pools : /\ MutexDue(p)' <=> MutexDue(p)
                       /\ \A k \in 1 .. PoolSlots : SlotDue(p, k)' <=> SlotDue(p, k)
  BY Steps
  DEF ServiceInv, Goto, flags, counts, Pools, CameraOpens, CameraUnit, MutexDue,
      SlotDue
<1>4. \A q \in Queues : /\ QueueMutexDue(q)' <=> QueueMutexDue(q)
                        /\ QueueCondDue(q)' <=> QueueCondDue(q)
  BY Steps
  DEF ServiceInv, Goto, flags, counts, Pools, CameraOpens, CameraUnit,
      QueueMutexDue, QueueCondDue
<1>5. \A u \in Units : /\ NotifierDue(u)' <=> NotifierDue(u)
                       /\ DataDue(u)' <=> DataDue(u)
  BY Steps
  DEF ServiceInv, Goto, flags, counts, Pools, CameraOpens, CameraUnit, StepTypes,
      Stage, Units, Queues, Position, NotifierDue, DataDue, InCamera
<1>6. /\ \A p \in Pools : CondLive(p)' = CondLive(p)
      /\ UNCHANGED slotFailures
  BY
  DEF ServiceInv, Goto, flags, counts, Pools, CameraOpens, CameraUnit, CondLive,
      Count
<1>7. HeldInv'
  BY ONLY <1>2, <1>3, <1>4, <1>5, <1>6, SameDues
<1> QED
  BY <1>1, <1>7 DEF ServiceInv

\* ... and its unit created once it runs,
LEMMA CameraStartsInv ==
  ASSUME ServiceInv, CameraStarts
  PROVE  ServiceInv'
<1>1. StepTypes' /\ Stage'
  <2>1. at' \in Position
    BY InitAssumption
    DEF ServiceInv, Goto, flags, counts, Pools, CameraStarts, UnitCreated,
        CameraUnit, StepTypes, Stage, Units, Queues, Position
  <2>2. poolUp' \subseteq Pools /\ queueUp' \subseteq Queues /\ unitUp' \subseteq Units
    BY 
    DEF ServiceInv, Goto, flags, counts, Pools, CameraStarts, UnitCreated,
        CameraUnit, StepTypes, Stage, Units, Queues
  <2>3. attempts' \in 0 .. MaxAttempts /\ slotFailures' \in Nat
    BY
    DEF ServiceInv, Goto, flags, counts, Pools, CameraStarts, UnitCreated,
        CameraUnit, StepTypes
  <2>4. inFb' \in BOOLEAN
    BY
    DEF ServiceInv, Goto, flags, counts, Pools, CameraStarts, UnitCreated,
        CameraUnit, StepTypes
  <2>5. svcUp' \in BOOLEAN
    <3>1. svcUp' = (CameraUnit = 4)
      BY
      DEF ServiceInv, Goto, flags, counts, Pools, CameraStarts, UnitCreated,
          CameraUnit
    <3> QED
      BY <3>1 DEF ServiceInv, StepTypes
  <2>6. Stage'
    <3>1. /\ at' = [op |-> "notifier", i |-> 2] /\ poolUp' = Pools /\ queueUp' = Queues
      BY InitAssumption, Steps
      DEF ServiceInv, Goto, flags, counts, Pools, CameraStarts, UnitCreated,
          CameraUnit, StepTypes, Stage, Units, Queues, Position
    <3>2. /\ unitUp' = {1} /\ ~inFb' /\ slotFailures' <= attempts'
      BY InitAssumption, Steps
      DEF ServiceInv, Goto, flags, counts, Pools, CameraStarts, UnitCreated,
          CameraUnit, StepTypes, Stage, Units, Queues, Position
    <3>3. ~svcUp'
      BY InitAssumption, Steps
      DEF ServiceInv, Goto, flags, counts, Pools, CameraStarts, UnitCreated,
          CameraUnit, StepTypes, Stage, Units, Queues, Position
    <3> QED
      BY ONLY <3>1, <3>2, <3>3, InitAssumption, Steps
      DEF Stage, Pools, Queues, Units, ConversionUnit
  <2> QED
    BY <2>1, <2>2, <2>3, <2>4, <2>5, <2>6 DEF StepTypes, Position
<1>2. HeldInv /\ UNCHANGED held
  BY
  DEF ServiceInv, Goto, flags, counts, Pools, CameraStarts, UnitCreated, CameraUnit
<1>3. \A p \in Pools : /\ MutexDue(p)' <=> MutexDue(p)
                       /\ \A k \in 1 .. PoolSlots : SlotDue(p, k)' <=> SlotDue(p, k)
  BY Steps
  DEF ServiceInv, Goto, flags, counts, Pools, CameraStarts, UnitCreated,
      CameraUnit, MutexDue, SlotDue
<1>4. \A q \in Queues : /\ QueueMutexDue(q)' <=> QueueMutexDue(q)
                        /\ QueueCondDue(q)' <=> QueueCondDue(q)
  BY Steps
  DEF ServiceInv, Goto, flags, counts, Pools, CameraStarts, UnitCreated,
      CameraUnit, QueueMutexDue, QueueCondDue
<1>5. \A u \in Units : /\ NotifierDue(u)' <=> NotifierDue(u)
                       /\ DataDue(u)' <=> DataDue(u)
  BY Steps
  DEF ServiceInv, Goto, flags, counts, Pools, CameraStarts, UnitCreated,
      CameraUnit, StepTypes, Stage, Units, Queues, Position, NotifierDue, DataDue,
      InCamera
<1>6. /\ \A p \in Pools : CondLive(p)' = CondLive(p)
      /\ UNCHANGED slotFailures
  BY
  DEF ServiceInv, Goto, flags, counts, Pools, CameraStarts, UnitCreated,
      CameraUnit, CondLive, Count
<1>7. HeldInv'
  BY ONLY <1>2, <1>3, <1>4, <1>5, <1>6, SameDues
<1> QED
  BY <1>1, <1>7 DEF ServiceInv

\* ... or given up.
LEMMA CameraFailsInv ==
  ASSUME ServiceInv, CameraFails
  PROVE  ServiceInv'
<1>1. StepTypes' /\ Stage'
  BY InitAssumption, Steps
  DEF ServiceInv, Goto, flags, counts, Pools, CameraFails, UnitFails, CameraUnit,
      StepTypes, Stage, Units, Queues, Position
<1>2. /\ \A o \in Pools : /\ Mutex(o) \notin UnitParts(CameraUnit)
                          /\ Cond(o) \notin UnitParts(CameraUnit)
                          /\ \A j \in 1 .. PoolSlots :
                               Framebuffer(o, j) \notin UnitParts(CameraUnit)
      /\ \A r \in Queues : /\ QueueMutexOf(r) \notin UnitParts(CameraUnit)
                           /\ QueueCondOf(r) \notin UnitParts(CameraUnit)
      /\ \A v \in Units : /\ (Notifier(v) \in UnitParts(CameraUnit) <=> v = CameraUnit)
                          /\ (Data(v) \in UnitParts(CameraUnit) <=> v = CameraUnit)
  BY
  DEF Mutex, Cond, Framebuffer, QueueMutexOf, QueueCondOf, Notifier, Data, Pools,
      Units, Queues, UnitParts
<1>3. Release(UnitParts(CameraUnit)) /\ HeldInv
  BY DEF ServiceInv, Goto, flags, counts, Pools, CameraFails, UnitFails, CameraUnit
<1>4. PoolDuesShrink(UnitParts(CameraUnit))
  BY <1>2, Steps
  DEF ServiceInv, Goto, flags, counts, Pools, CameraFails, UnitFails, CameraUnit,
      PoolDuesShrink, MutexDue, SlotDue
<1>5. QueueDuesShrink(UnitParts(CameraUnit))
  BY <1>2, Steps
  DEF ServiceInv, Goto, flags, counts, Pools, CameraFails, UnitFails, CameraUnit,
      QueueDuesShrink, QueueMutexDue, QueueCondDue
<1>6. UnitDuesShrink(UnitParts(CameraUnit))
  BY <1>2, Steps
  DEF ServiceInv, Goto, flags, counts, Pools, CameraFails, UnitFails, CameraUnit,
      StepTypes, Stage, Units, Queues, Position, UnitDuesShrink, NotifierDue,
      DataDue, InCamera
<1>7. CondsHeld'
  <2>1. \A p \in Pools : CondLive(p)' = CondLive(p)
    BY
    DEF ServiceInv, Goto, flags, counts, Pools, CameraFails, UnitFails, CameraUnit,
        CondLive, Count
  <2>2. UNCHANGED slotFailures
    BY
    DEF ServiceInv, Goto, flags, counts, Pools, CameraFails, UnitFails, CameraUnit
  <2> QED
    BY <1>2, <1>3, <2>1, <2>2, SameConds
<1>8. HeldInv'
  BY ONLY <1>3, <1>4, <1>5, <1>6, <1>7, ReleaseDues
<1> QED
  BY <1>1, <1>8 DEF ServiceInv

\* vf_service_deinit begins with the units.
LEMMA ServiceDeinitInv ==
  ASSUME ServiceInv, ServiceDeinit
  PROVE  ServiceInv'
<1>1. StepTypes' /\ Stage'
  BY InitAssumption, Steps
  DEF ServiceInv, Goto, flags, counts, Pools, ServiceDeinit, StepTypes, Stage,
      Units, Queues, Position
<1>2. HeldInv /\ UNCHANGED held
  BY DEF ServiceInv, Goto, flags, counts, Pools, ServiceDeinit
<1>3. \A p \in Pools : /\ MutexDue(p)' <=> MutexDue(p)
                       /\ \A k \in 1 .. PoolSlots : SlotDue(p, k)' <=> SlotDue(p, k)
  BY Steps
  DEF ServiceInv, Goto, flags, counts, Pools, ServiceDeinit, StepTypes, Stage,
      Units, Queues, Position, MutexDue, SlotDue
<1>4. \A q \in Queues : /\ QueueMutexDue(q)' <=> QueueMutexDue(q)
                        /\ QueueCondDue(q)' <=> QueueCondDue(q)
  BY Steps
  DEF ServiceInv, Goto, flags, counts, Pools, ServiceDeinit, StepTypes, Stage,
      Units, Queues, Position, QueueMutexDue, QueueCondDue
<1>5. \A u \in Units : /\ NotifierDue(u)' <=> NotifierDue(u)
                       /\ DataDue(u)' <=> DataDue(u)
  BY Steps
  DEF ServiceInv, Goto, flags, counts, Pools, ServiceDeinit, StepTypes, Stage,
      Units, Queues, Position, NotifierDue, DataDue, InCamera
<1>6. /\ \A p \in Pools : CondLive(p)' = CondLive(p)
      /\ UNCHANGED slotFailures
  BY DEF ServiceInv, Goto, flags, counts, Pools, ServiceDeinit, CondLive, Count
<1>7. HeldInv'
  BY ONLY <1>2, <1>3, <1>4, <1>5, <1>6, SameDues
<1> QED
  BY <1>1, <1>7 DEF ServiceInv

\* Between init and deinit only the frame of the conversion unit changes.
LEMMA StopLeavesFrameInv ==
  ASSUME ServiceInv, StopLeavesFrame
  PROVE  ServiceInv'
<1>1. StepTypes' /\ Stage'
  BY InitAssumption, Steps
  DEF ServiceInv, Goto, flags, counts, Pools, StopLeavesFrame, ConversionUnit,
      StepTypes, Stage, Units, Queues, Position
<1>2. HeldInv /\ UNCHANGED held
  BY DEF ServiceInv, Goto, flags, counts, Pools, StopLeavesFrame, ConversionUnit
<1>3. \A p \in Pools : /\ MutexDue(p)' <=> MutexDue(p)
                       /\ \A k \in 1 .. PoolSlots : SlotDue(p, k)' <=> SlotDue(p, k)
  BY Steps
  DEF ServiceInv, Goto, flags, counts, Pools, StopLeavesFrame, ConversionUnit,
      StepTypes, Stage, Units, Queues, Position, MutexDue, SlotDue
<1>4. \A q \in Queues : /\ QueueMutexDue(q)' <=> QueueMutexDue(q)
                        /\ QueueCondDue(q)' <=> QueueCondDue(q)
  BY Steps
  DEF ServiceInv, Goto, flags, counts, Pools, StopLeavesFrame, ConversionUnit,
      StepTypes, Stage, Units, Queues, Position, QueueMutexDue, QueueCondDue
<1>5. \A u \in Units : /\ NotifierDue(u)' <=> NotifierDue(u)
                       /\ DataDue(u)' <=> DataDue(u)
  BY Steps
  DEF ServiceInv, Goto, flags, counts, Pools, StopLeavesFrame, ConversionUnit,
      StepTypes, Stage, Units, Queues, Position, NotifierDue, DataDue, InCamera
<1>6. /\ \A p \in Pools : CondLive(p)' = CondLive(p)
      /\ UNCHANGED slotFailures
  BY
  DEF ServiceInv, Goto, flags, counts, Pools, StopLeavesFrame, ConversionUnit,
      CondLive, Count
<1>7. HeldInv'
  BY ONLY <1>2, <1>3, <1>4, <1>5, <1>6, SameDues
<1> QED
  BY <1>1, <1>7 DEF ServiceInv

\* The units that were created are destroyed, the last one first, ...
LEMMA CleanupUnitsInv ==
  ASSUME ServiceInv, CleanupUnits
  PROVE  ServiceInv'
<1>1. CASE /\ at.i = 0 /\ Goto("destroy_queues", 0)
          /\ UNCHANGED <<held, unitUp, inFb, camVars>>
  <2>1. StepTypes' /\ Stage'
    BY <1>1, InitAssumption, Steps
    DEF ServiceInv, Goto, flags, counts, Pools, CleanupUnits, DestroyUnit,
        ConversionUnit, CameraUnit, StepTypes, Stage, Units, Queues, Position
  <2>2. HeldInv /\ UNCHANGED held
    BY <1>1
    DEF ServiceInv, Goto, flags, counts, Pools, CleanupUnits, DestroyUnit,
        ConversionUnit, CameraUnit
  <2>3. \A p \in Pools : /\ MutexDue(p)' <=> MutexDue(p)
                         /\ \A k \in 1 .. PoolSlots : SlotDue(p, k)' <=> SlotDue(p, k)
    BY <1>1, Steps
    DEF ServiceInv, Goto, flags, counts, Pools, CleanupUnits, DestroyUnit,
        ConversionUnit, CameraUnit, StepTypes, Stage, Units, Queues, Position,
        MutexDue, SlotDue
  <2>4. \A q \in Queues : /\ QueueMutexDue(q)' <=> QueueMutexDue(q)
                          /\ QueueCondDue(q)' <=> QueueCondDue(q)
    BY <1>1, Steps
    DEF ServiceInv, Goto, flags, counts, Pools, CleanupUnits, DestroyUnit,
        ConversionUnit, CameraUnit, StepTypes, Stage, Units, Queues, Position,
        QueueMutexDue, QueueCondDue
  <2>5. \A u \in Units : /\ NotifierDue(u)' <=> NotifierDue(u)
                         /\ DataDue(u)' <=> DataDue(u)
    BY <1>1, Steps
    DEF ServiceInv, Goto, flags, counts, Pools, CleanupUnits, DestroyUnit,
        ConversionUnit, CameraUnit, StepTypes, Stage, Units, Queues, Position,
        NotifierDue, DataDue, InCamera
  <2>6. /\ \A p \in Pools : CondLive(p)' = CondLive(p)
        /\ UNCHANGED slotFailures
    BY <1>1
    DEF ServiceInv, Goto, flags, counts, Pools, CleanupUnits, DestroyUnit,
        ConversionUnit, CameraUnit, CondLive, Count
  <2>7. HeldInv'
    BY ONLY <2>2, <2>3, <2>4, <2>5, <2>6, SameDues
  <2> QED
    BY <2>1, <2>7 DEF ServiceInv
<1>2. CASE at.i > 0 /\ Goto("cleanup_units", at.i - 1) /\ DestroyUnit(at.i)
  <2>1. StepTypes' /\ Stage'
    BY <1>2, InitAssumption, Steps
    DEF ServiceInv, Goto, flags, counts, Pools, CleanupUnits, DestroyUnit,
        ConversionUnit, CameraUnit, StepTypes, Stage, Units, Queues, Position
  <2>2. /\ \A o \in Pools : /\ Mutex(o) \notin UnitParts(at.i)
                            /\ Cond(o) \notin UnitParts(at.i)
                            /\ \A j \in 1 .. PoolSlots :
                                 Framebuffer(o, j) \notin UnitParts(at.i)
        /\ \A r \in Queues : /\ QueueMutexOf(r) \notin UnitParts(at.i)
                             /\ QueueCondOf(r) \notin UnitParts(at.i)
        /\ \A v \in Units : /\ (Notifier(v) \in UnitParts(at.i) <=> v = at.i)
                            /\ (Data(v) \in UnitParts(at.i) <=> v = at.i)
    BY
    DEF Mutex, Cond, Framebuffer, QueueMutexOf, QueueCondOf, Notifier, Data, Pools,
        Units, Queues, UnitParts
  <2>3. Release(UnitParts(at.i)) /\ HeldInv
    BY <1>2
    DEF ServiceInv, Goto, flags, counts, Pools, CleanupUnits, DestroyUnit,
        ConversionUnit, CameraUnit
  <2>4. PoolDuesShrink(UnitParts(at.i))
    BY <1>2, <2>2, Steps
    DEF ServiceInv, Goto, flags, counts, Pools, CleanupUnits, DestroyUnit,
        ConversionUnit, CameraUnit, StepTypes, Stage, Units, Queues, Position,
        PoolDuesShrink, MutexDue, SlotDue
  <2>5. QueueDuesShrink(UnitParts(at.i))
    BY <1>2, <2>2, Steps
    DEF ServiceInv, Goto, flags, counts, Pools, CleanupUnits, DestroyUnit,
        ConversionUnit, CameraUnit, StepTypes, Stage, Units, Queues, Position,
        QueueDuesShrink, QueueMutexDue, QueueCondDue
  <2>6. UnitDuesShrink(UnitParts(at.i))
    BY <1>2, <2>2, Steps
    DEF ServiceInv, Goto, flags, counts, Pools, CleanupUnits, DestroyUnit,
        ConversionUnit, CameraUnit, StepTypes, Stage, Units, Queues, Position,
        UnitDuesShrink, NotifierDue, DataDue, InCamera
  <2>7. CondsHeld'
    <3>1. \A p \in Pools : CondLive(p)' = CondLive(p)
      BY <1>2
      DEF ServiceInv, Goto, flags, counts, Pools, CleanupUnits, DestroyUnit,
          ConversionUnit, CameraUnit, CondLive, Count
    <3>2. UNCHANGED slotFailures
      BY <1>2
      DEF ServiceInv, Goto, flags, counts, Pools, CleanupUnits, DestroyUnit,
          ConversionUnit, CameraUnit
    <3> QED
      BY <2>2, <2>3, <3>1, <3>2, SameConds
  <2>8. HeldInv'
    BY ONLY <2>3, <2>4, <2>5, <2>6, <2>7, ReleaseDues
  <2> QED
    BY <2>1, <2>8 DEF ServiceInv
<1> QED
  BY <1>1, <1>2
  DEF ServiceInv, Goto, flags, counts, Pools, CleanupUnits, DestroyUnit,
      ConversionUnit, CameraUnit

\* ... or all of them, the first one first;
LEMMA DestroyUnitsInv ==
  ASSUME ServiceInv, DestroyUnits
  PROVE  ServiceInv'
<1>1. StepTypes' /\ Stage'
  <2>1. at' \in Position
    BY InitAssumption
    DEF ServiceInv, Goto, flags, counts, Pools, DestroyUnits, DestroyUnit,
        ConversionUnit, CameraUnit, StepTypes, Stage, Units, Queues, Position
  <2>2. poolUp' \subseteq Pools /\ queueUp' \subseteq Queues /\ unitUp' \subseteq Units
    BY 
    DEF ServiceInv, Goto, flags, counts, Pools, DestroyUnits, DestroyUnit,
        ConversionUnit, CameraUnit, StepTypes, Stage, Units, Queues
  <2>3. attempts' \in 0 .. MaxAttempts /\ slotFailures' \in Nat
    BY
    DEF ServiceInv, Goto, flags, counts, Pools, DestroyUnits, DestroyUnit,
        ConversionUnit, CameraUnit, StepTypes
  <2>4. inFb' \in BOOLEAN
    BY
    DEF ServiceInv, Goto, flags, counts, Pools, DestroyUnits, DestroyUnit,
        ConversionUnit, CameraUnit, StepTypes
  <2>5. svcUp' \in BOOLEAN
    <3>1. svcUp' = svcUp
      BY
      DEF ServiceInv, Goto, flags, counts, Pools, DestroyUnits, DestroyUnit,
          ConversionUnit, CameraUnit
    <3> QED
      BY <3>1 DEF ServiceInv, StepTypes
  <2>6. Stage'
    <3>1. CASE at.i = 4
      <4>1. at' = [op |-> "destroy_queues", i |-> 0]
        BY <3>1, InitAssumption, Steps
        DEF ServiceInv, Goto, flags, counts, Pools, DestroyUnits, DestroyUnit,
            ConversionUnit, CameraUnit, StepTypes, Stage, Units, Queues, Position
      <4>2. /\ poolUp' = Pools /\ queueUp' = Queues
        BY <3>1, InitAssumption, Steps
        DEF ServiceInv, Goto, flags, counts, Pools, DestroyUnits, DestroyUnit,
            ConversionUnit, CameraUnit, StepTypes, Stage, Units, Queues, Position
      <4>3. unitUp' = {}
        BY <3>1, InitAssumption, Steps
        DEF ServiceInv, Goto, flags, counts, Pools, DestroyUnits, DestroyUnit,
            ConversionUnit, CameraUnit, StepTypes, Stage, Units, Queues, Position
      <4>4. ~inFb'
        BY <3>1, InitAssumption, Steps
        DEF ServiceInv, Goto, flags, counts, Pools, DestroyUnits, DestroyUnit,
            ConversionUnit, CameraUnit, StepTypes, Stage, Units, Queues, Position
      <4>5. slotFailures' <= attempts'
        BY <3>1, InitAssumption, Steps
        DEF ServiceInv, Goto, flags, counts, Pools, DestroyUnits, DestroyUnit,
            ConversionUnit, CameraUnit, StepTypes, Stage, Units, Queues, Position
      <4> QED
        BY ONLY <4>1, <4>2, <4>3, <4>4, <4>5, InitAssumption, Steps
        DEF Stage, Pools, Queues, Units, ConversionUnit
    <3>2. CASE at.i # 4
      <4>1. at' = [op |-> "destroy_units", i |-> at.i + 1]
        BY <3>2, InitAssumption, Steps
        DEF ServiceInv, Goto, flags, counts, Pools, DestroyUnits, DestroyUnit,
            ConversionUnit, CameraUnit, StepTypes, Stage, Units, Queues, Position
      <4>2. /\ at.i \in 1 .. 3 /\ poolUp' = Pools /\ queueUp' = Queues
        BY <3>2, InitAssumption, Steps
        DEF ServiceInv, Goto, flags, counts, Pools, DestroyUnits, DestroyUnit,
            ConversionUnit, CameraUnit, StepTypes, Stage, Units, Queues, Position
      <4>3. unitUp' = at.i + 1 .. 4
        BY <3>2, InitAssumption, Steps
        DEF ServiceInv, Goto, flags, counts, Pools, DestroyUnits, DestroyUnit,
            ConversionUnit, CameraUnit, StepTypes, Stage, Units, Queues, Position
      <4>4. inFb' => ConversionUnit \in unitUp'
        BY <3>2, InitAssumption, Steps
        DEF ServiceInv, Goto, flags, counts, Pools, DestroyUnits, DestroyUnit,
            ConversionUnit, CameraUnit, StepTypes, Stage, Units, Queues, Position
      <4>5. svcUp'
        BY <3>2, InitAssumption, Steps
        DEF ServiceInv, Goto, flags, counts, Pools, DestroyUnits, DestroyUnit,
            ConversionUnit, CameraUnit, StepTypes, Stage, Units, Queues, Position
      <4>6. slotFailures' <= attempts'
        BY <3>2, InitAssumption, Steps
        DEF ServiceInv, Goto, flags, counts, Pools, DestroyUnits, DestroyUnit,
            ConversionUnit, CameraUnit, StepTypes, Stage, Units, Queues, Position
      <4> QED
        BY ONLY <4>1, <4>2, <4>3, <4>4, <4>5, <4>6, InitAssumption, Steps
        DEF Stage, Pools, Queues, Units, ConversionUnit
    <3> QED
      BY <3>1, <3>2 DEF Pools
  <2> QED
    BY <2>1, <2>2, <2>3, <2>4, <2>5, <2>6 DEF StepTypes, Position
<1>2. /\ \A o \in Pools : /\ Mutex(o) \notin UnitParts(at.i)
                          /\ Cond(o) \notin UnitParts(at.i)
                          /\ \A j \in 1 .. PoolSlots :
                               Framebuffer(o, j) \notin UnitParts(at.i)
      /\ \A r \in Queues : /\ QueueMutexOf(r) \notin UnitParts(at.i)
                           /\ QueueCondOf(r) \notin UnitParts(at.i)
      /\ \A v \in Units : /\ (Notifier(v) \in UnitParts(at.i) <=> v = at.i)
                          /\ (Data(v) \in UnitParts(at.i) <=> v = at.i)
  BY
  DEF Mutex, Cond, Framebuffer, QueueMutexOf, QueueCondOf, Notifier, Data, Pools,
      Units, Queues, UnitParts
<1>3. Release(UnitParts(at.i)) /\ HeldInv
  BY
  DEF ServiceInv, Goto, flags, counts, Pools, DestroyUnits, DestroyUnit,
      ConversionUnit, CameraUnit
<1>4. PoolDuesShrink(UnitParts(at.i))
  BY <1>2, Steps
  DEF ServiceInv, Goto, flags, counts, Pools, DestroyUnits, DestroyUnit,
      ConversionUnit, CameraUnit, StepTypes, Stage, Units, Queues, Position,
      PoolDuesShrink, MutexDue, SlotDue
<1>5. QueueDuesShrink(UnitParts(at.i))
  BY <1>2, Steps
  DEF ServiceInv, Goto, flags, counts, Pools, DestroyUnits, DestroyUnit,
      ConversionUnit, CameraUnit, StepTypes, Stage, Units, Queues, Position,
      QueueDuesShrink, QueueMutexDue, QueueCondDue
<1>6. UnitDuesShrink(UnitParts(at.i))
  BY <1>2, Steps
  DEF ServiceInv, Goto, flags, counts, Pools, DestroyUnits, DestroyUnit,
      ConversionUnit, CameraUnit, StepTypes, Stage, Units, Queues, Position,
      UnitDuesShrink, NotifierDue, DataDue, InCamera
<1>7. CondsHeld'
  <2>1. \A p \in Pools : CondLive(p)' = CondLive(p)
    BY
    DEF ServiceInv, Goto, flags, counts, Pools, DestroyUnits, DestroyUnit,
        ConversionUnit, CameraUnit, CondLive, Count
  <2>2. UNCHANGED slotFailures
    BY
    DEF ServiceInv, Goto, flags, counts, Pools, DestroyUnits, DestroyUnit,
        ConversionUnit, CameraUnit
  <2> QED
    BY <1>2, <1>3, <2>1, <2>2, SameConds
<1>8. HeldInv'
  BY ONLY <1>3, <1>4, <1>5, <1>6, <1>7, ReleaseDues
<1> QED
  BY <1>1, <1>8 DEF ServiceInv

\* then the queues that are marked as initialised, ...
LEMMA DestroyQueuesInv ==
  ASSUME ServiceInv, DestroyQueues
  PROVE  ServiceInv'
<1>1. StepTypes' /\ Stage'
  BY InitAssumption, Steps
  DEF ServiceInv, Goto, flags, counts, Pools, DestroyQueues, StepTypes, Stage,
      Units, Queues, Position
<1>2. /\ \A o \in Pools : /\ Mutex(o) \notin (UNION {QueueParts(q) : q \in queueUp})
                          /\ Cond(o) \notin (UNION {QueueParts(q) : q \in queueUp})
                          /\ \A j \in 1 .. PoolSlots :
                               Framebuffer(o,
                               j) \notin (UNION {QueueParts(q) : q \in queueUp})
      /\ \A r \in Queues : /\ (QueueMutexOf(r) \in (UNION {QueueParts(q) : q \in queueUp}) <=> r \in queueUp)
                           /\ (QueueCondOf(r) \in (UNION {QueueParts(q) : q \in queueUp}) <=> r \in queueUp)
      /\ \A v \in Units : /\ Notifier(v) \notin (UNION {QueueParts(q) : q \in queueUp})
                          /\ Data(v) \notin (UNION {QueueParts(q) : q \in queueUp})
  BY
  DEF Mutex, Cond, Framebuffer, QueueMutexOf, QueueCondOf, Notifier, Data, Pools,
      Units, Queues, QueueParts
<1>3. Release((UNION {QueueParts(q) : q \in queueUp})) /\ HeldInv
  BY DEF ServiceInv, Goto, flags, counts, Pools, DestroyQueues
<1>4. PoolDuesShrink((UNION {QueueParts(q) : q \in queueUp}))
  BY <1>2, Steps
  DEF ServiceInv, Goto, flags, counts, Pools, DestroyQueues, StepTypes, Stage,
      Units, Queues, Position, PoolDuesShrink, MutexDue, SlotDue
<1>5. QueueDuesShrink((UNION {QueueParts(q) : q \in queueUp}))
  BY <1>2, Steps
  DEF ServiceInv, Goto, flags, counts, Pools, DestroyQueues, StepTypes, Stage,
      Units, Queues, Position, QueueDuesShrink, QueueMutexDue, QueueCondDue
<1>6. UnitDuesShrink((UNION {QueueParts(q) : q \in queueUp}))
  BY <1>2, Steps
  DEF ServiceInv, Goto, flags, counts, Pools, DestroyQueues, StepTypes, Stage,
      Units, Queues, Position, UnitDuesShrink, NotifierDue, DataDue, InCamera
<1>7. CondsHeld'
  <2>1. \A p \in Pools : CondLive(p)' = CondLive(p)
    BY DEF ServiceInv, Goto, flags, counts, Pools, DestroyQueues, CondLive, Count
  <2>2. UNCHANGED slotFailures
    BY DEF ServiceInv, Goto, flags, counts, Pools, DestroyQueues
  <2> QED
    BY <1>2, <1>3, <2>1, <2>2, SameConds
<1>8. HeldInv'
  BY ONLY <1>3, <1>4, <1>5, <1>6, <1>7, ReleaseDues
<1> QED
  BY <1>1, <1>8 DEF ServiceInv

\* and the pools.
LEMMA DeinitPoolsInv ==
  ASSUME ServiceInv, DeinitPools
  PROVE  ServiceInv'
<1>1. StepTypes' /\ Stage'
  <2>1. at' \in Position
    BY InitAssumption
    DEF ServiceInv, Goto, flags, counts, Pools, DeinitPools, StepTypes, Stage,
        Units, Queues, Position
  <2>2. poolUp' \subseteq Pools /\ queueUp' \subseteq Queues /\ unitUp' \subseteq Units
    BY 
    DEF ServiceInv, Goto, flags, counts, Pools, DeinitPools, StepTypes, Stage,
        Units, Queues
  <2>3. attempts' \in 0 .. MaxAttempts /\ slotFailures' \in Nat
    BY DEF ServiceInv, Goto, flags, counts, Pools, DeinitPools, StepTypes
  <2>4. inFb' \in BOOLEAN
    BY DEF ServiceInv, Goto, flags, counts, Pools, DeinitPools, StepTypes
  <2>5. svcUp' \in BOOLEAN
    <3>1. svcUp' = FALSE
      BY DEF ServiceInv, Goto, flags, counts, Pools, DeinitPools
    <3> QED
      BY <3>1 DEF ServiceInv, StepTypes
  <2>6. Stage'
    <3>1. at' = [op |-> "idle", i |-> 0]
      BY InitAssumption, Steps
      DEF ServiceInv, Goto, flags, counts, Pools, DeinitPools, StepTypes, Stage,
          Units, Queues, Position
    <3>2. /\ poolUp' = {} /\ queueUp' = {} /\ unitUp' = {}
      BY InitAssumption, Steps
      DEF ServiceInv, Goto, flags, counts, Pools, DeinitPools, StepTypes, Stage,
          Units, Queues, Position
    <3>3. ~svcUp'
      BY InitAssumption, Steps
      DEF ServiceInv, Goto, flags, counts, Pools, DeinitPools, StepTypes, Stage,
          Units, Queues, Position
    <3>4. ~inFb'
      BY InitAssumption, Steps
      DEF ServiceInv, Goto, flags, counts, Pools, DeinitPools, StepTypes, Stage,
          Units, Queues, Position
    <3>5. slotFailures' <= attempts'
      BY InitAssumption, Steps
      DEF ServiceInv, Goto, flags, counts, Pools, DeinitPools, StepTypes, Stage,
          Units, Queues, Position
    <3> QED
      BY ONLY <3>1, <3>2, <3>3, <3>4, <3>5, InitAssumption, Steps
      DEF Stage, Pools, Queues, Units, ConversionUnit
  <2> QED
    BY <2>1, <2>2, <2>3, <2>4, <2>5, <2>6 DEF StepTypes, Position
<1>2. /\ \A o \in Pools : /\ (Mutex(o) \in (UNION {PoolParts(p) : p \in poolUp}) <=> o \in poolUp)
                          /\ (Cond(o) \in (UNION {PoolParts(p) : p \in poolUp}) <=> o \in poolUp)
                          /\ \A j \in 1 .. PoolSlots :
                               (Framebuffer(o, j) \in (UNION {PoolParts(p) : p \in poolUp}) <=> o \in poolUp)
      /\ \A r \in Queues : /\ QueueMutexOf(r) \notin (UNION {PoolParts(p) : p \in poolUp})
                           /\ QueueCondOf(r) \notin (UNION {PoolParts(p) : p \in poolUp})
      /\ \A v \in Units : /\ Notifier(v) \notin (UNION {PoolParts(p) : p \in poolUp})
                          /\ Data(v) \notin (UNION {PoolParts(p) : p \in poolUp})
  BY
  DEF Mutex, Cond, Framebuffer, QueueMutexOf, QueueCondOf, Notifier, Data, Pools,
      Units, Queues, PoolParts, Framebuffers
<1>3. Release((UNION {PoolParts(p) : p \in poolUp})) /\ HeldInv
  BY DEF ServiceInv, Goto, flags, counts, Pools, DeinitPools
<1>4. PoolDuesShrink((UNION {PoolParts(p) : p \in poolUp}))
  BY <1>2, Steps
  DEF ServiceInv, Goto, flags, counts, Pools, DeinitPools, StepTypes, Stage, Units,
      Queues, Position, PoolDuesShrink, MutexDue, SlotDue
<1>5. QueueDuesShrink((UNION {PoolParts(p) : p \in poolUp}))
  BY <1>2, Steps
  DEF ServiceInv, Goto, flags, counts, Pools, DeinitPools, StepTypes, Stage, Units,
      Queues, Position, QueueDuesShrink, QueueMutexDue, QueueCondDue
<1>6. UnitDuesShrink((UNION {PoolParts(p) : p \in poolUp}))
  BY <1>2, Steps
  DEF ServiceInv, Goto, flags, counts, Pools, DeinitPools, StepTypes, Stage, Units,
      Queues, Position, UnitDuesShrink, NotifierDue, DataDue, InCamera
<1>7. CondsHeld'
  <2>1. \A p \in Pools : /\ held'[Cond(p)] = held[Cond(p)] - Count(p \in poolUp)
                         /\ held[Cond(p)] \in Int
    BY <1>2, <1>3, ReleaseFacts, KindsHeld DEF HeldInv, Count
  <2>2. \A p \in Pools : CondLive(p) = Count(p \in poolUp) /\ CondLive(p)' = 0
    BY DEF DeinitPools, Goto, Pools, CondLive, Count
  <2>3. \A p \in Pools : Count(p \in poolUp) \in Int
    BY DEF Count
  <2>4. UNCHANGED slotFailures /\ slotFailures \in Nat
    BY DEF DeinitPools, counts, ServiceInv, StepTypes
  <2>5. "pool_in" \in Pools /\ "pool_out" \in Pools
    BY DEF Pools
  <2> QED
    BY <2>1, <2>2, <2>3, <2>4, <2>5, <1>3 DEF HeldInv, CondsHeld
<1>8. HeldInv'
  BY ONLY <1>3, <1>4, <1>5, <1>6, <1>7, ReleaseDues
<1> QED
  BY <1>1, <1>8 DEF ServiceInv

-----------------------------------------------------------------------------
(* The camera.                                                              *)

\* How many buffers are out of the driver's reach.
Lost == Cardinality(Buffers \ WithDriver)

LEMMA BuffersFinite ==
  /\ \A S \in SUBSET Buffers : IsFiniteSet(S) /\ Cardinality(S) \in Nat
  /\ \A i \in Buffers : 0 .. i - 1 \subseteq Buffers /\ 0 .. i \subseteq Buffers
<1>1. IsFiniteSet(Buffers)
  BY CameraAssumption, FS_Interval DEF Buffers
<1>2. \A S \in SUBSET Buffers : IsFiniteSet(S)
  BY <1>1, FS_Subset
<1> QED
  BY <1>2, FS_CardinalityType, CameraAssumption DEF Buffers

\* What a buffer that is filled, or taken out, does to the filled ones.
LEMMA FilledGrows ==
  ASSUME CamStage, NEW b \in Buffers, b \notin Range(filled), filled' = Append(filled, b)
  PROVE  /\ Range(filled)' = Range(filled) \cup {b}
         /\ NoRepeat(filled)'
         /\ filled' \in Seq(Buffers)
         /\ Len(filled)' = Cardinality(Range(filled)')
<1>1. filled \in Seq(Buffers) /\ Range(filled) \in SUBSET Buffers
  BY DEF CamStage, CameraTypeOK, Range
<1>2. /\ Len(filled') = Len(filled) + 1 /\ filled'[Len(filled) + 1] = b
      /\ \A i \in 1 .. Len(filled) : filled'[i] = filled[i]
      /\ DOMAIN filled' = 1 .. Len(filled) + 1 /\ DOMAIN filled = 1 .. Len(filled)
  BY <1>1
<1>3. Range(filled)' = Range(filled) \cup {b}
  BY <1>1, <1>2 DEF Range
<1>4. NoRepeat(filled)'
  <2>1. \A i \in 1 .. Len(filled) : filled[i] # b
    BY <1>2 DEF Range
  <2>2. NoRepeat(filled)
    BY DEF CamStage
  <2> QED
    BY <1>1, <1>2, <2>1, <2>2 DEF NoRepeat
<1>5. Cardinality(Range(filled) \cup {b}) = Cardinality(Range(filled)) + 1
  BY <1>1, BuffersFinite, FS_AddElement
<1>6. Len(filled) = Cardinality(Range(filled))
  BY DEF CamStage, DriverBuffersMapped
<1>7. filled' \in Seq(Buffers)
  BY <1>1
<1> QED
  BY <1>2, <1>3, <1>4, <1>5, <1>6, <1>7

LEMMA FilledShrinks ==
  ASSUME CamStage, filled # << >>, filled' = Tail(filled)
  PROVE  /\ Head(filled) \in Range(filled) /\ Head(filled) \in Buffers
         /\ Range(filled)' = Range(filled) \ {Head(filled)}
         /\ NoRepeat(filled)'
         /\ filled' \in Seq(Buffers)
         /\ Len(filled)' = Cardinality(Range(filled)')
<1>1. filled \in Seq(Buffers) /\ Range(filled) \in SUBSET Buffers
  BY DEF CamStage, CameraTypeOK, Range
<1>2. /\ Len(filled) \in Nat \ {0} /\ Len(filled') = Len(filled) - 1
      /\ Head(filled) = filled[1]
      /\ \A i \in 1 .. Len(filled) - 1 : filled'[i] = filled[i + 1]
      /\ DOMAIN filled' = 1 .. Len(filled) - 1 /\ DOMAIN filled = 1 .. Len(filled)
  BY <1>1
<1>3. NoRepeat(filled)
  BY DEF CamStage
<1>4. Head(filled) \in Range(filled) /\ Head(filled) \in Buffers
  BY <1>1, <1>2 DEF Range
<1>5. Range(filled)' = Range(filled) \ {Head(filled)}
  <2>1. \A x \in Range(filled)' : x \in Range(filled) /\ x # Head(filled)
    BY <1>2, <1>3 DEF Range, NoRepeat
  <2>2. ASSUME NEW x \in Range(filled), x # Head(filled)
        PROVE  x \in Range(filled)'
    <3>1. PICK i \in 1 .. Len(filled) : x = filled[i]
      BY <1>2 DEF Range
    <3>2. i # 1
      BY <3>1, <1>2, <2>2
    <3>3. i - 1 \in 1 .. Len(filled) - 1 /\ filled'[i - 1] = x
      BY <3>1, <3>2, <1>2
    <3> QED
      BY <3>3, <1>2 DEF Range
  <2> QED
    BY <2>1, <2>2
<1>6. NoRepeat(filled)'
  BY <1>2, <1>3 DEF NoRepeat
<1>7. Cardinality(Range(filled) \ {Head(filled)}) = Cardinality(Range(filled)) - 1
  BY <1>1, <1>4, BuffersFinite, FS_RemoveElement
<1>8. Len(filled) = Cardinality(Range(filled))
  BY DEF CamStage, DriverBuffersMapped
<1>9. filled' \in Seq(Buffers)
  BY <1>1
<1> QED
  BY <1>2, <1>4, <1>5, <1>6, <1>7, <1>8, <1>9

\* An empty list of filled buffers.
LEMMA NothingFilled ==
  /\ Range(<< >>) = {} /\ NoRepeat(<< >>) /\ << >> \in Seq(Buffers)
  /\ Len(<< >>) = Cardinality({})
<1>1. Cardinality({}) = 0
  BY FS_EmptySet
<1> QED
  BY <1>1 DEF Range, NoRepeat

LEMMA OpenDeviceStage ==
  ASSUME CamStage, OpenDevice
  PROVE  CamStage'
<1>1. CameraTypeOK'
  BY CameraAssumption DEF CamStage, CameraTypeOK, OpenDevice, InitAt, driver, Buffers
<1> QED
  BY <1>1 DEF CamStage, OpenDevice, InitAt, driver, Ready, DriverBuffersMapped, WithDriver,
              NoRepeat

LEMMA ClosedStage ==
  ASSUME CamStage, CloseDevice, mapped' = {}, camState' \in {"ERROR", "STOPPED"},
         camAt'.op = "none", camAt'.i \in Buffers, camAt' = [op |-> "none", i |-> camAt'.i],
         UNCHANGED <<refused, image>>
  PROVE  CamStage'
<1>1. CameraTypeOK'
  BY NothingFilled DEF CamStage, CameraTypeOK, CloseDevice
<1> QED
  BY <1>1, NothingFilled DEF CamStage, CloseDevice, Ready, DriverBuffersMapped, WithDriver

LEMMA AbandonStage ==
  ASSUME CamStage, Abandon
  PROVE  CamStage'
<1>1. 0 \in Buffers
  BY CameraAssumption DEF Buffers
<1> QED
  BY <1>1, ClosedStage DEF Abandon, InitAt

\* What a request to queue a buffer that the driver does not have adds to the
\* lost ones is a refusal.
LEMMA InitStepStage ==
  ASSUME CamStage, CameraInitStep
  PROVE  CamStage' /\ (Ready' => Lost' <= refused')
<1>1. CASE SetUpDevice
  <2>1. CASE Abandon
    BY <2>1, AbandonStage DEF Abandon, CloseDevice, Ready
  <2>2. CASE ~Abandon
    <3>1. /\ camAt.op = "setup" /\ mapped = {} /\ queued = {} /\ filled = << >>
          /\ camState = "STOPPED" /\ ~streaming /\ fd = "open"
      BY <1>1 DEF CamStage, CameraTypeOK, SetUpDevice
    <3>2. /\ allocated' \in BOOLEAN /\ camAt' = [op |-> "map", i |-> 0]
          /\ UNCHANGED <<fd, camState, mapped, streaming, queued, filled, refused, image>>
      BY <1>1, <2>2 DEF SetUpDevice, InitAt
    <3>3. 0 \in Buffers /\ 0 .. 0 - 1 = {}
      BY CameraAssumption DEF Buffers
    <3>4. CameraTypeOK'
      BY <3>2, <3>3 DEF CamStage, CameraTypeOK
    <3> QED
      BY <3>1, <3>2, <3>3, <3>4 DEF CamStage, Ready, DriverBuffersMapped, WithDriver
  <2> QED
    BY <2>1, <2>2
<1>2. CASE MapBuffer
  <2>1. CASE Abandon
    BY <2>1, AbandonStage DEF Abandon, CloseDevice, Ready
  <2>2. CASE ~Abandon
    <3>1. /\ camAt.op = "map" /\ camAt.i \in Buffers /\ mapped = 0 .. camAt.i - 1
          /\ queued = {} /\ filled = << >> /\ camState = "STOPPED" /\ ~streaming
          /\ fd = "open" /\ refused \in Nat
          /\ mapped' = mapped \cup {camAt.i}
          /\ UNCHANGED <<fd, camState, allocated, streaming, queued, filled, refused, image>>
      BY <1>2, <2>2 DEF CamStage, CameraTypeOK, MapBuffer, driver
    <3>2. (0 .. camAt.i - 1) \cup {camAt.i} = 0 .. camAt.i
      BY <3>1 DEF Buffers
    <3>3. CASE camAt.i = BufferCount - 1
      <4>1. camAt' = [op |-> "queue", i |-> 0] /\ mapped' = Buffers
        BY <1>2, <2>2, <3>1, <3>2, <3>3 DEF MapBuffer, InitAt, Buffers
      <4>2. CameraTypeOK'
        BY <3>1, <4>1, CameraAssumption DEF CamStage, CameraTypeOK, Buffers
      <4>3. (0 .. 0 - 1) \ {} = {} /\ Cardinality({}) = 0
        BY FS_EmptySet
      <4> QED
        BY <3>1, <4>1, <4>2, <4>3
        DEF CamStage, Ready, DriverBuffersMapped, WithDriver
    <3>4. CASE camAt.i # BufferCount - 1
      <4>1. /\ camAt' = [op |-> "map", i |-> camAt.i + 1] /\ mapped' = 0 .. camAt.i
            /\ camAt.i + 1 \in Buffers /\ 0 .. camAt.i = 0 .. (camAt.i + 1) - 1
            /\ mapped' \subseteq Buffers
        BY <1>2, <2>2, <3>1, <3>2, <3>4, CameraAssumption DEF MapBuffer, InitAt, Buffers
      <4>2. CameraTypeOK'
        BY <3>1, <4>1 DEF CamStage, CameraTypeOK
      <4> QED
        BY <3>1, <4>1, <4>2
        DEF CamStage, Ready, DriverBuffersMapped, WithDriver
    <3> QED
      BY <3>3, <3>4
  <2> QED
    BY <2>1, <2>2
<1>3. CASE QueueBuffer
  <2> DEFINE i == camAt.i
             Out == (0 .. i - 1) \ queued
  <2>1. /\ camAt.op = "queue" /\ i \in Buffers /\ mapped = Buffers
        /\ queued \subseteq 0 .. i - 1 /\ filled = << >> /\ camState = "STOPPED" /\ ~streaming
        /\ fd = "open" /\ refused \in 0 .. MaxRefused
        /\ Cardinality(Out) <= refused
        /\ UNCHANGED <<fd, camState, mapped, allocated, streaming, filled, image>>
    BY <1>3 DEF CamStage, CameraTypeOK, QueueBuffer
  <2>2. /\ queued' \subseteq 0 .. i /\ refused' \in 0 .. MaxRefused
        /\ Cardinality((0 .. i) \ queued') <= refused'
    <3>1. CASE queued' = queued \cup {i} /\ UNCHANGED refused
      <4>1. (0 .. i) \ queued' = Out
        BY <2>1, <3>1 DEF Buffers
      <4>2. queued' \subseteq 0 .. i
        <5>1. 0 .. i - 1 \subseteq 0 .. i /\ i \in 0 .. i
          BY <2>1 DEF Buffers
        <5> QED
          BY <2>1, <3>1, <5>1
      <4>3. Cardinality((0 .. i) \ queued') <= refused'
        BY <2>1, <3>1, <4>1
      <4> QED
        BY <2>1, <3>1, <4>2, <4>3
    <3>2. CASE refused < MaxRefused /\ refused' = refused + 1 /\ UNCHANGED queued
      <4>1. (0 .. i) \ queued' = Out \cup {i} /\ i \notin Out
        BY <2>1, <3>2 DEF Buffers
      <4>2. Out \in SUBSET Buffers
        BY <2>1, BuffersFinite
      <4>3. Cardinality(Out \cup {i}) = Cardinality(Out) + 1 /\ Cardinality(Out) \in Nat
        BY <4>1, <4>2, BuffersFinite, FS_AddElement
      <4>4. queued' \subseteq 0 .. i
        BY <2>1, <3>2 DEF Buffers
      <4>5. Cardinality((0 .. i) \ queued') = Cardinality(Out) + 1
        BY <4>1, <4>3
      <4>6. refused' \in 0 .. MaxRefused
        BY <2>1, <3>2, CameraAssumption
      <4>7. Cardinality(Out) + 1 <= refused'
        BY <2>1, <3>2, <4>3, CameraAssumption
      <4> QED
        BY <4>4, <4>5, <4>6, <4>7
    <3> QED
      BY <1>3, <3>1, <3>2 DEF QueueBuffer, GiveToDriver
  <2>3. queued' \subseteq Buffers /\ WithDriver' = queued'
    BY <2>1, <2>2, BuffersFinite, NothingFilled DEF WithDriver
  <2>4. NoRepeat(filled)' /\ DriverBuffersMapped'
    BY <2>1, <2>3, NothingFilled DEF DriverBuffersMapped, WithDriver
  <2>5. CASE i = BufferCount - 1
    <3>1. camAt' = [op |-> "none", i |-> 0] /\ 0 \in Buffers /\ 0 .. i = Buffers
      BY <1>3, <2>5, CameraAssumption DEF QueueBuffer, InitAt, Buffers
    <3>2. CameraTypeOK'
      BY <2>1, <2>2, <2>3, <3>1 DEF CamStage, CameraTypeOK
    <3>3. Lost' <= refused'
      BY <2>2, <2>3, <3>1 DEF Lost
    <3> QED
      BY <2>1, <2>4, <3>1, <3>2, <3>3 DEF CamStage, Ready
  <2>6. CASE i # BufferCount - 1
    <3>1. /\ camAt' = [op |-> "queue", i |-> i + 1] /\ i + 1 \in Buffers
          /\ 0 .. i = 0 .. (i + 1) - 1
      BY <1>3, <2>1, <2>6, CameraAssumption DEF QueueBuffer, InitAt, Buffers
    <3>2. CameraTypeOK'
      BY <2>1, <2>2, <2>3, <3>1 DEF CamStage, CameraTypeOK
    <3> QED
      BY <2>1, <2>2, <2>4, <3>1, <3>2 DEF CamStage, Ready
  <2> QED
    BY <2>5, <2>6
<1> QED
  BY <1>1, <1>2, <1>3 DEF CameraInitStep

LEMMA StartStage ==
  ASSUME CamStage, StartDevice
  PROVE  CamStage' /\ Ready' /\ Lost' = Lost
<1>1. WithDriver' = WithDriver
  BY DEF StartDevice, WithDriver
<1> QED
  BY <1>1 DEF CamStage, CameraTypeOK, StartDevice, Ready, DriverBuffersMapped, Lost

LEMMA StopStage ==
  ASSUME CamStage, StopDevice
  PROVE  CamStage' /\ Ready' /\ camState' = "STOPPED"
<1>1. CASE streaming' = FALSE /\ queued' = {} /\ filled' = << >>
  <2>1. CameraTypeOK'
    BY <1>1, NothingFilled DEF CamStage, CameraTypeOK, StopDevice
  <2> QED
    BY <1>1, <2>1, NothingFilled
    DEF CamStage, StopDevice, Ready, DriverBuffersMapped, WithDriver
<1>2. CASE UNCHANGED <<streaming, queued, filled>>
  <2>1. CameraTypeOK'
    BY <1>2 DEF CamStage, CameraTypeOK, StopDevice
  <2> QED
    BY <1>2, <2>1 DEF CamStage, StopDevice, Ready, DriverBuffersMapped, WithDriver
<1> QED
  BY <1>1, <1>2 DEF StopDevice

LEMMA CloseStage ==
  ASSUME CamStage, CloseCamera
  PROVE  CamStage' /\ fd' = "closed" /\ camState' = "STOPPED" /\ camAt'.op = "none"
<1>1. camAt' = camAt /\ camAt.op = "none" /\ camAt.i \in Buffers
      /\ camAt = [op |-> "none", i |-> camAt.i]
  BY DEF CloseCamera, Ready, CamStage, CameraTypeOK
<1> QED
  BY <1>1, ClosedStage DEF CloseCamera, CloseDevice

\* The driver and vf_camera_acquire_frame, while the camera runs.
LEMMA CaptureStage ==
  ASSUME CamStage, Ready, FillBuffer \/ Acquire, Lost <= refused
  PROVE  CamStage' /\ Lost' <= refused' /\ UNCHANGED <<fd, camState, camAt>>
<1>0. /\ filled \in Seq(Buffers) /\ queued \subseteq Buffers /\ Range(filled) \subseteq Buffers
      /\ mapped = Buffers /\ refused \in 0 .. MaxRefused
      /\ queued \cap Range(filled) = {}
  BY DEF CamStage, CameraTypeOK, DriverBuffersMapped, WithDriver
<1>1. CASE FillBuffer
  <2>1. PICK b \in queued : queued' = queued \ {b} /\ filled' = Append(filled, b)
    BY <1>1 DEF FillBuffer
  <2>2. b \in Buffers /\ b \notin Range(filled)
    BY <1>0, <2>1
  <2>3. WithDriver' = WithDriver
    BY <2>1, <2>2, FilledGrows DEF WithDriver
  <2>4. CameraTypeOK'
    BY <1>0, <1>1, <2>1, <2>2, FilledGrows DEF CamStage, CameraTypeOK, FillBuffer
  <2>5. DriverBuffersMapped'
    BY <1>0, <1>1, <2>1, <2>2, <2>3, FilledGrows
    DEF CamStage, DriverBuffersMapped, FillBuffer
  <2> QED
    BY <1>1, <2>1, <2>2, <2>3, <2>4, <2>5, FilledGrows DEF CamStage, FillBuffer, Ready, Lost
<1>2. CASE AcquireFilled
  <2> DEFINE h == Head(filled)
  <2>1. /\ filled # << >> /\ filled' = Tail(filled)
        /\ UNCHANGED <<fd, camState, camAt, mapped, allocated, streaming>> /\ image' = "new"
        /\ GiveToDriver(h)
    BY <1>2 DEF AcquireFilled
  <2>2. /\ h \in Range(filled) /\ h \in Buffers /\ Range(filled)' = Range(filled) \ {h}
        /\ NoRepeat(filled)' /\ filled' \in Seq(Buffers)
        /\ Len(filled)' = Cardinality(Range(filled)')
    BY <2>1, FilledShrinks
  <2>3. /\ queued' \subseteq queued \cup {h} /\ refused' \in 0 .. MaxRefused
        /\ Lost' <= refused'
    <3>1. CASE queued' = queued \cup {h} /\ UNCHANGED refused
      <4>1. WithDriver' = WithDriver
        BY <2>2, <3>1 DEF WithDriver
      <4> QED
        BY <1>0, <3>1, <4>1 DEF Lost
    <3>2. CASE refused < MaxRefused /\ refused' = refused + 1 /\ UNCHANGED queued
      <4>1. /\ Buffers \ WithDriver' = (Buffers \ WithDriver) \cup {h}
            /\ h \notin Buffers \ WithDriver
        BY <1>0, <2>2, <3>2 DEF WithDriver
      <4>2. /\ Cardinality((Buffers \ WithDriver) \cup {h}) = Lost + 1
            /\ Lost \in Nat
        BY <4>1, BuffersFinite, FS_AddElement DEF Lost
      <4>3. Lost' = Lost + 1
        BY <4>1, <4>2 DEF Lost
      <4> QED
        BY <1>0, <3>2, <4>2, <4>3, CameraAssumption
    <3> QED
      BY <2>1, <3>1, <3>2 DEF GiveToDriver
  <2>4. CameraTypeOK'
    BY <1>0, <2>1, <2>2, <2>3 DEF CamStage, CameraTypeOK
  <2>5. DriverBuffersMapped'
    BY <1>0, <2>1, <2>2, <2>3 DEF DriverBuffersMapped, WithDriver
  <2>6. filled' = << >> \/ camAt.op = "none"
    BY DEF Ready
  <2> QED
    BY <2>1, <2>2, <2>3, <2>4, <2>5 DEF CamStage, Ready
<1>3. CASE AcquireNothing
  <2>1. /\ image' = "old"
        /\ UNCHANGED <<fd, camState, camAt, mapped, allocated, streaming, queued, filled,
                       refused>>
    BY <1>3 DEF AcquireNothing, driver
  <2>2. WithDriver' = WithDriver
    BY <2>1 DEF WithDriver
  <2> QED
    BY <2>1, <2>2 DEF CamStage, CameraTypeOK, DriverBuffersMapped, Ready, Lost
<1>4. CASE AcquireRefused
  <2>1. /\ image' = "old"
        /\ UNCHANGED <<fd, camState, camAt, mapped, allocated, streaming, filled>>
    BY <1>4 DEF AcquireRefused
  <2>2. CASE UNCHANGED <<queued, refused>>
    <3>1. WithDriver' = WithDriver
      BY <2>1, <2>2 DEF WithDriver
    <3> QED
      BY <2>1, <2>2, <3>1 DEF CamStage, CameraTypeOK, DriverBuffersMapped, Ready, Lost
  <2>3. CASE 0 \notin WithDriver /\ queued' = queued \cup {0} /\ UNCHANGED refused
    <3>1. 0 \in Buffers
      BY CameraAssumption DEF Buffers
    <3>2. Buffers \ WithDriver' \subseteq Buffers \ WithDriver
      BY <2>1, <2>3 DEF WithDriver
    <3>3. Lost' <= Lost /\ Lost' \in Nat /\ Lost \in Nat
      <4>1. IsFiniteSet(Buffers \ WithDriver)
        BY BuffersFinite
      <4> QED
        BY <3>2, <4>1, FS_Subset, FS_CardinalityType DEF Lost
    <3>4. CameraTypeOK'
      BY <1>0, <2>1, <2>3, <3>1 DEF CamStage, CameraTypeOK
    <3>5. DriverBuffersMapped'
      BY <1>0, <2>1, <2>3, <3>1 DEF CamStage, DriverBuffersMapped, WithDriver
    <3> QED
      BY <1>0, <2>1, <2>3, <3>3, <3>4, <3>5 DEF CamStage, Ready
  <2>4. CASE /\ refused < MaxRefused /\ refused' = refused + 1 /\ UNCHANGED queued
    <3>1. WithDriver' = WithDriver
      BY <2>1, <2>4 DEF WithDriver
    <3>2. Lost \in Nat
      BY BuffersFinite DEF Lost
    <3>3. refused' \in 0 .. MaxRefused
      BY <1>0, <2>4, CameraAssumption
    <3>4. CameraTypeOK'
      BY <1>0, <2>1, <2>4, <3>3 DEF CamStage, CameraTypeOK
    <3>5. Lost' <= refused'
      BY <1>0, <2>4, <3>1, <3>2, CameraAssumption DEF Lost
    <3> QED
      BY <1>0, <2>1, <2>4, <3>1, <3>4, <3>5 DEF CamStage, DriverBuffersMapped, Ready
  <2> QED
    BY <1>4, <2>2, <2>3, <2>4 DEF AcquireRefused, GiveToDriver
<1> QED
  BY <1>1, <1>2, <1>3, <1>4 DEF Acquire

-----------------------------------------------------------------------------
(* The invariant.                                                           *)

\* A step that leaves the camera alone.
LEMMA SameCamera ==
  ASSUME InitInv, UNCHANGED camVars,
         at.op # "init_camera" \/ fd = "closed", at'.op # "init_camera",
         CameraUnit \in unitUp' <=> CameraUnit \in unitUp,
         at'.op \in {"notifier", "data"} /\ CameraUnit \in unitUp' => camState = "RUNNING",
         at'.op = "idle" /\ svcUp' => camState = "RUNNING"
  PROVE  CamStage' /\ CamLink'
<1>1. CamStage'
  BY DEF InitInv, CamStage, CameraTypeOK, camVars, Ready, NoRepeat, DriverBuffersMapped,
         WithDriver
<1>2. /\ UNCHANGED <<fd, camState, camAt, queued, filled, refused>>
      /\ Ready' = Ready /\ WithDriver' = WithDriver
  BY DEF camVars, Ready, WithDriver
<1>3. camAt.op = "none"
  BY DEF InitInv, CamStage, CamLink
<1>4. camState = "RUNNING" => CameraUnit \in unitUp'
  BY DEF InitInv, CamLink
<1>5. CameraUnit \in unitUp' => Ready'
  BY <1>2 DEF InitInv, CamLink
<1>6. CameraUnit \notin unitUp' => fd' = "closed"
  BY <1>2 DEF InitInv, CamLink
<1>7. Ready' /\ camState = "RUNNING" => Cardinality(Buffers \ WithDriver') <= refused'
  BY <1>2 DEF InitInv, CamLink
<1>8. CamLink'
  BY <1>2, <1>3, <1>4, <1>5, <1>6, <1>7 DEF CamLink
<1> QED
  BY <1>1, <1>8

LEMMA SameService ==
  ASSUME ServiceInv, UNCHANGED svcVars
  PROVE  ServiceInv'
<1>1. StepTypes' /\ Stage'
  BY DEF ServiceInv, StepTypes, Stage, svcVars
<1>2. HeldInv'
  BY SameDues DEF ServiceInv, svcVars, MutexDue, SlotDue, QueueMutexDue, QueueCondDue,
                  NotifierDue, DataDue, InCamera, CondLive
<1> QED
  BY <1>1, <1>2 DEF ServiceInv

LEMMA InitInvHolds == Init => InitInv
<1> SUFFICES ASSUME Init PROVE InitInv
  OBVIOUS
<1>1. StepTypes
  <2>1. at \in Position
    BY InitAssumption DEF Init, Position
  <2>2. poolUp \subseteq Pools /\ queueUp \subseteq Queues /\ unitUp \subseteq Units
    BY DEF Init
  <2>3. attempts \in 0 .. MaxAttempts /\ slotFailures \in Nat
    BY InitAssumption DEF Init
  <2> QED
    BY <2>1, <2>2, <2>3 DEF Init, StepTypes
<1>2. Stage
  BY InitAssumption DEF Init, Stage, Pools
<1>3. HeldInv
  <2>1. \A r \in Resources : held[r] = 0
    BY DEF Init
  <2>2. CondsHeld
    BY <2>1, KindsHeld DEF Init, CondsHeld, CondLive, Count, Pools
  <2>3. PoolsHeld
    BY <2>1, KindsHeld DEF Init, PoolsHeld, MutexDue, SlotDue, Count, Pools
  <2>4. QueuesHeld
    BY <2>1, KindsHeld DEF Init, QueuesHeld, QueueMutexDue, QueueCondDue, Count
  <2>5. UnitsHeld
    BY <2>1, KindsHeld DEF Init, UnitsHeld, NotifierDue, DataDue, InCamera, Count
  <2> QED
    BY <2>2, <2>3, <2>4, <2>5 DEF Init, HeldInv
<1>4. CamStage
  <2>1. CameraTypeOK
    <3>1. 0 \in Buffers /\ 0 \in 0 .. MaxRefused
      BY CameraAssumption DEF Buffers
    <3>2. camAt \in [op : {"none", "setup", "map", "queue"}, i : Buffers]
      BY <3>1 DEF Init, CameraInit
    <3> QED
      BY <3>1, <3>2, NothingFilled DEF Init, CameraInit, CameraTypeOK
  <2> QED
    BY <2>1, NothingFilled
    DEF Init, CameraInit, CamStage, Ready, DriverBuffersMapped, WithDriver
<1>5. CamLink
  BY DEF Init, CameraInit, CamLink, Ready, CameraUnit
<1> QED
  BY <1>1, <1>2, <1>3, <1>4, <1>5 DEF InitInv, ServiceInv

\* Every step of the service's code keeps the invariant.
LEMMA BuildKeeps ==
  ASSUME InitInv, Build
  PROVE  InitInv'
<1>0. ServiceInv /\ Stage /\ CamStage /\ CamLink
  BY DEF InitInv, ServiceInv
<1>1. CASE PoolMutex
  <2>1. ServiceInv'
    BY <1>0, <1>1, PoolMutexInv
  <2>2. /\ UNCHANGED camVars /\ at.op # "init_camera" /\ at'.op # "init_camera"
        /\ CameraUnit \in unitUp' <=> CameraUnit \in unitUp
        /\ at'.op \in {"notifier", "data"} /\ CameraUnit \in unitUp' => camState = "RUNNING"
        /\ at'.op = "idle" /\ svcUp' => camState = "RUNNING"
    BY <1>0, <1>1 DEF PoolMutex, PoolFails, BuildingPool, Stage, CamLink, Goto, flags, Pools
  <2> QED
    BY <2>1, <2>2, SameCamera DEF InitInv
<1>2. CASE PoolCond
  <2>1. ServiceInv'
    BY <1>0, <1>2, PoolCondInv
  <2>2. /\ UNCHANGED camVars /\ at.op # "init_camera" /\ at'.op # "init_camera"
        /\ CameraUnit \in unitUp' <=> CameraUnit \in unitUp
        /\ at'.op \in {"notifier", "data"} /\ CameraUnit \in unitUp' => camState = "RUNNING"
        /\ at'.op = "idle" /\ svcUp' => camState = "RUNNING"
    BY <1>0, <1>2 DEF PoolCond, PoolFails, BuildingPool, Stage, CamLink, Goto, flags, Pools
  <2> QED
    BY <2>1, <2>2, SameCamera DEF InitInv
<1>3. CASE PoolSlot
  <2>1. ServiceInv'
    BY <1>0, <1>3, PoolSlotInv
  <2>2. /\ UNCHANGED camVars /\ at.op # "init_camera" /\ at'.op # "init_camera"
        /\ CameraUnit \in unitUp' <=> CameraUnit \in unitUp
        /\ at'.op \in {"notifier", "data"} /\ CameraUnit \in unitUp' => camState = "RUNNING"
        /\ at'.op = "idle" /\ svcUp' => camState = "RUNNING"
    BY <1>0, <1>3 DEF PoolSlot, PoolFails, BuildingPool, Stage, CamLink, Goto, flags, Pools
  <2> QED
    BY <2>1, <2>2, SameCamera DEF InitInv
<1>4. CASE QueueMutex
  <2>1. ServiceInv'
    BY <1>0, <1>4, QueueMutexInv
  <2>2. /\ UNCHANGED camVars /\ at.op # "init_camera" /\ at'.op # "init_camera"
        /\ CameraUnit \in unitUp' <=> CameraUnit \in unitUp
        /\ at'.op \in {"notifier", "data"} /\ CameraUnit \in unitUp' => camState = "RUNNING"
        /\ at'.op = "idle" /\ svcUp' => camState = "RUNNING"
    BY <1>0, <1>4 DEF QueueMutex, Stage, CamLink, Goto, flags, Pools
  <2> QED
    BY <2>1, <2>2, SameCamera DEF InitInv
<1>5. CASE QueueCond
  <2>1. ServiceInv'
    BY <1>0, <1>5, QueueCondInv
  <2>2. /\ UNCHANGED camVars /\ at.op # "init_camera" /\ at'.op # "init_camera"
        /\ CameraUnit \in unitUp' <=> CameraUnit \in unitUp
        /\ at'.op \in {"notifier", "data"} /\ CameraUnit \in unitUp' => camState = "RUNNING"
        /\ at'.op = "idle" /\ svcUp' => camState = "RUNNING"
    BY <1>0, <1>5 DEF QueueCond, Stage, CamLink, Goto, flags, Pools
  <2> QED
    BY <2>1, <2>2, SameCamera DEF InitInv
<1>6. CASE UnitNotifier
  <2>1. ServiceInv'
    BY <1>0, <1>6, UnitNotifierInv
  <2>2. /\ UNCHANGED camVars /\ at.op # "init_camera" /\ at'.op # "init_camera"
        /\ CameraUnit \in unitUp' <=> CameraUnit \in unitUp
        /\ at'.op \in {"notifier", "data"} /\ CameraUnit \in unitUp' => camState = "RUNNING"
        /\ at'.op = "idle" /\ svcUp' => camState = "RUNNING"
    BY <1>0, <1>6 DEF UnitNotifier, UnitFails, Stage, CamLink, Goto, flags, Pools
  <2> QED
    BY <2>1, <2>2, SameCamera DEF InitInv
<1>7. CASE UnitInit
  <2>1. ServiceInv'
    BY <1>0, <1>7, UnitInitInv
  <2>2. /\ UNCHANGED camVars /\ at.op # "init_camera" /\ at'.op # "init_camera"
        /\ CameraUnit \in unitUp' <=> CameraUnit \in unitUp
        /\ at'.op \in {"notifier", "data"} /\ CameraUnit \in unitUp' => camState = "RUNNING"
        /\ at'.op = "idle" /\ svcUp' => camState = "RUNNING"
    <3>1. at.op = "data" /\ UNCHANGED camVars /\ at.i \in 1 .. 4 /\ unitUp = 1 .. at.i - 1
      BY <1>0, <1>7 DEF UnitInit, Stage, Units
    <3>2. CASE UnitFails(at.i) /\ UNCHANGED <<unitUp, svcUp>>
      BY <3>1, <3>2 DEF UnitFails, Goto
    <3>3. CASE Goto("open_camera", at.i) /\ UNCHANGED <<unitUp, svcUp>>
      BY <3>1, <3>3 DEF Goto
    <3>4. CASE at.i # CameraUnit /\ UnitCreated(at.i)
      <4>1. CameraUnit \in unitUp /\ CameraUnit \in unitUp'
        BY <3>1, <3>4 DEF CameraUnit, UnitCreated
      <4>2. camState = "RUNNING"
        BY <1>0, <3>1, <4>1 DEF CamLink
      <4>3. at'.op \in {"idle", "notifier"}
        BY <3>4 DEF UnitCreated, Goto
      <4> QED
        BY <3>1, <4>1, <4>2, <4>3
    <3> QED
      BY <1>7, <3>2, <3>3, <3>4 DEF UnitInit
  <2> QED
    BY <2>1, <2>2, SameCamera DEF InitInv
<1>8. CASE CameraOpens
  <2>1. ServiceInv' /\ OpenDevice
    BY <1>0, <1>8, CameraOpensInv DEF CameraOpens
  <2>2. CamStage'
    BY <1>0, <2>1, OpenDeviceStage
  <2>3. CamLink'
    BY <1>0, <1>8, <2>2
    DEF CamLink, Stage, CameraOpens, OpenDevice, InitAt, Goto, flags, Ready, CameraUnit
  <2> QED
    BY <2>1, <2>2, <2>3 DEF InitInv
<1>9. CASE CameraContinues
  <2>1. ServiceInv' /\ CameraInitStep
    BY <1>0, <1>9, SameService DEF CameraContinues
  <2>2. CamStage' /\ (Ready' => Lost' <= refused')
    BY <1>0, <2>1, InitStepStage
  <2>3. /\ at.op = "init_camera" /\ UNCHANGED <<at, unitUp, svcUp>> /\ unitUp = {}
        /\ camState' # "RUNNING"
    BY <1>0, <1>9
    DEF CameraContinues, svcVars, Stage, CamStage, CameraInitStep, SetUpDevice, MapBuffer,
        QueueBuffer, Abandon
  <2>4. CamLink'
    BY <2>2, <2>3 DEF CamLink, Lost
  <2> QED
    BY <2>1, <2>2, <2>4 DEF InitInv
<1>10. CASE CameraStarts
  <2>1. ServiceInv' /\ StartDevice
    BY <1>0, <1>10, CameraStartsInv DEF CameraStarts
  <2>2. CamStage' /\ Ready' /\ Lost' = Lost
    BY <1>0, <2>1, StartStage
  <2>3. Lost <= refused /\ UNCHANGED refused /\ camState' = "RUNNING"
    BY <1>0, <1>10, <2>1 DEF CamLink, CameraStarts, StartDevice, Lost
  <2>4. CameraUnit \in unitUp' /\ at'.op = "notifier" /\ camAt'.op = "none"
    BY <1>10, <2>1 DEF CameraStarts, UnitCreated, CameraUnit, Goto, StartDevice, Ready
  <2>5. CamLink'
    BY <2>2, <2>3, <2>4 DEF CamLink, Lost
  <2> QED
    BY <2>1, <2>2, <2>5 DEF InitInv
<1>11. CASE CameraFails
  <2>1. ServiceInv'
    BY <1>0, <1>11, CameraFailsInv
  <2>2. /\ UNCHANGED camVars /\ UNCHANGED unitUp /\ fd = "closed"
        /\ at'.op = "cleanup_units"
    BY <1>11 DEF CameraFails, flags, UnitFails, Goto
  <2> QED
    BY <2>1, <2>2, SameCamera DEF InitInv
<1> QED
  BY <1>1, <1>2, <1>3, <1>4, <1>5, <1>6, <1>7, <1>8, <1>9, <1>10, <1>11 DEF Build

LEMMA TakeApartKeeps ==
  ASSUME InitInv, TakeApart
  PROVE  InitInv'
<1>0. ServiceInv /\ Stage /\ CamStage /\ CamLink
  BY DEF InitInv, ServiceInv
<1>1. ASSUME ServiceInv', DestroyUnit(at.i), at.i = CameraUnit,
             at'.op \notin {"init_camera", "idle", "notifier", "data"},
             at.op \in {"cleanup_units", "destroy_units"}
      PROVE  InitInv'
  <2>1. /\ CamStage' /\ fd' = "closed" /\ camState' = "STOPPED" /\ camAt'.op = "none"
        /\ unitUp' = unitUp \ {CameraUnit}
    BY <1>0, <1>1, CloseStage DEF DestroyUnit
  <2>2. CamLink'
    BY <1>1, <2>1 DEF CamLink, Ready
  <2> QED
    BY <1>1, <2>1, <2>2 DEF InitInv
<1>2. CASE CleanupUnits
  <2>1. ServiceInv' /\ at.op = "cleanup_units" /\ at'.op \in {"cleanup_units", "destroy_queues"}
    BY <1>0, <1>2, CleanupUnitsInv DEF CleanupUnits, Goto
  <2>2. CASE at.i = CameraUnit
    <3>1. DestroyUnit(at.i)
      BY <1>2, <2>2 DEF CleanupUnits, CameraUnit
    <3> QED
      BY <1>1, <2>1, <2>2, <3>1
  <2>3. CASE at.i # CameraUnit
    <3>1. UNCHANGED camVars /\ (CameraUnit \in unitUp' <=> CameraUnit \in unitUp)
      BY <1>2, <2>3 DEF CleanupUnits, DestroyUnit
    <3> QED
      BY <2>1, <3>1, SameCamera DEF InitInv
  <2> QED
    BY <2>2, <2>3
<1>3. CASE DestroyUnits
  <2>1. ServiceInv' /\ at.op = "destroy_units" /\ at'.op \in {"destroy_units", "destroy_queues"}
    BY <1>0, <1>3, DestroyUnitsInv DEF DestroyUnits, Goto
  <2>2. CASE at.i = CameraUnit
    BY <1>1, <1>3, <2>1, <2>2 DEF DestroyUnits
  <2>3. CASE at.i # CameraUnit
    <3>1. UNCHANGED camVars /\ (CameraUnit \in unitUp' <=> CameraUnit \in unitUp)
      BY <1>3, <2>3 DEF DestroyUnits, DestroyUnit
    <3> QED
      BY <2>1, <3>1, SameCamera DEF InitInv
  <2> QED
    BY <2>2, <2>3
<1>4. CASE StopCamera
  <2>1. ServiceInv' /\ StopDevice /\ UNCHANGED <<at, unitUp, svcUp>>
    BY <1>0, <1>4, SameService DEF StopCamera, svcVars
  <2>2. CamStage' /\ Ready' /\ camState' = "STOPPED"
    BY <1>0, <2>1, StopStage
  <2>3. /\ at.op \in {"cleanup_units", "destroy_units"}
        /\ fd = "open" /\ camAt'.op = "none"
    BY <1>4, <2>1, <2>2 DEF StopCamera, StopDevice, Ready
  <2>4. CamLink'
    BY <1>0, <2>1, <2>2, <2>3 DEF CamLink
  <2> QED
    BY <2>1, <2>2, <2>4 DEF InitInv
<1>5. CASE DestroyQueues
  <2>1. ServiceInv'
    BY <1>0, <1>5, DestroyQueuesInv
  <2>2. /\ UNCHANGED camVars /\ UNCHANGED unitUp
        /\ at.op = "destroy_queues" /\ at'.op = "deinit_pools"
    BY <1>5 DEF DestroyQueues, Goto
  <2> QED
    BY <2>1, <2>2, SameCamera DEF InitInv
<1>6. CASE DeinitPools
  <2>1. ServiceInv'
    BY <1>0, <1>6, DeinitPoolsInv
  <2>2. /\ UNCHANGED camVars /\ UNCHANGED unitUp /\ svcUp' = FALSE
        /\ at.op = "deinit_pools" /\ at'.op = "idle"
    BY <1>6 DEF DeinitPools, Goto
  <2> QED
    BY <2>1, <2>2, SameCamera DEF InitInv
<1> QED
  BY <1>2, <1>3, <1>4, <1>5, <1>6 DEF TakeApart

LEMMA InitInvInductive ==
  ASSUME InitInv, [Next]_vars
  PROVE  InitInv'
<1>0. ServiceInv /\ Stage /\ CamStage /\ CamLink
  BY DEF InitInv, ServiceInv
<1>1. CASE ServiceInit
  <2>1. ServiceInv'
    BY <1>0, <1>1, ServiceInitInv
  <2>2. /\ UNCHANGED camVars /\ UNCHANGED unitUp
        /\ at.op = "idle" /\ at'.op = "pool_in"
    BY <1>1 DEF ServiceInit, Goto, flags
  <2> QED
    BY <2>1, <2>2, SameCamera DEF InitInv
<1>2. CASE Build
  BY <1>2, BuildKeeps
<1>3. CASE Capture
  <2>1. ServiceInv' /\ UNCHANGED <<at, unitUp, svcUp>> /\ at.op = "idle" /\ svcUp
    BY <1>0, <1>3, SameService DEF Capture, svcVars
  <2>2. Ready /\ camState = "RUNNING" /\ Lost <= refused
    BY <1>0, <2>1 DEF CamLink, Lost
  <2>3. CamStage' /\ Lost' <= refused' /\ UNCHANGED <<fd, camState, camAt>>
    BY <1>0, <1>3, <2>2, CaptureStage DEF Capture
  <2>4. CamLink'
    BY <1>0, <2>1, <2>2, <2>3 DEF CamLink, Lost, Ready
  <2> QED
    BY <2>1, <2>3, <2>4 DEF InitInv
<1>4. CASE StopLeavesFrame
  <2>1. ServiceInv'
    BY <1>0, <1>4, StopLeavesFrameInv
  <2>2. /\ UNCHANGED camVars /\ UNCHANGED <<at, unitUp, svcUp>> /\ at.op = "idle"
    BY <1>4 DEF StopLeavesFrame, flags
  <2> QED
    BY <1>0, <2>1, <2>2, SameCamera DEF InitInv, CamLink
<1>5. CASE ServiceDeinit
  <2>1. ServiceInv'
    BY <1>0, <1>5, ServiceDeinitInv
  <2>2. /\ UNCHANGED camVars /\ UNCHANGED unitUp
        /\ at.op = "idle" /\ at'.op = "destroy_units"
    BY <1>5 DEF ServiceDeinit, Goto, flags
  <2> QED
    BY <2>1, <2>2, SameCamera DEF InitInv
<1>6. CASE TakeApart
  BY <1>6, TakeApartKeeps
<1>7. CASE UNCHANGED vars
  <2>1. UNCHANGED svcVars /\ UNCHANGED camVars /\ UNCHANGED <<at, unitUp, svcUp>>
    BY <1>7 DEF vars, svcVars
  <2>2. ServiceInv'
    BY <1>0, <2>1, SameService
  <2>3. CamStage' /\ CamLink'
    BY <1>0, <2>1 DEF CamStage, CamLink, CameraTypeOK, camVars, Ready, NoRepeat,
                      DriverBuffersMapped, WithDriver
  <2> QED
    BY <2>2, <2>3 DEF InitInv
<1> QED
  BY <1>1, <1>2, <1>3, <1>4, <1>5, <1>6, <1>7 DEF Next

LEMMA InitInvAlways == Spec => []InitInv
<1>1. Init => InitInv
  BY InitInvHolds
<1>2. InitInv /\ [Next]_vars => InitInv'
  BY InitInvInductive
<1> QED
  BY <1>1, <1>2, PTL DEF Spec

-----------------------------------------------------------------------------
(* What follows from it.                                                    *)

LEMMA EveryKind ==
  ASSUME NEW r \in Resources
  PROVE  \/ \E p \in Pools : \/ r = Mutex(p) \/ r = Cond(p)
                             \/ \E k \in 1 .. PoolSlots : r = Framebuffer(p, k)
         \/ \E q \in Queues : r = QueueMutexOf(q) \/ r = QueueCondOf(q)
         \/ \E u \in Units : r = Notifier(u) \/ r = Data(u)
<1>1. CASE \E p \in Pools : r \in PoolParts(p)
  BY <1>1 DEF PoolParts, Framebuffers
<1>2. CASE \E q \in Queues : r \in QueueParts(q)
  BY <1>2 DEF QueueParts, QueueMutexOf, QueueCondOf
<1>3. CASE \E u \in Units : r \in UnitParts(u)
  BY <1>3 DEF UnitParts
<1> QED
  BY <1>1, <1>2, <1>3 DEF Resources

\* The count of every resource but the pools' condition variables is 0 or 1,
\* and that of a condition variable is bounded by the failures.
LEMMA CountsBounded ==
  ASSUME ServiceInv
  PROVE  /\ \A r \in Resources : held[r] \in Int
         /\ \A r \in Resources \ {Cond(p) : p \in Pools} : held[r] \in 0 .. 1
         /\ \A p \in Pools : held[Cond(p)] \in 0 .. 1 + slotFailures
<1>1. \A r \in Resources : held[r] \in Int
  BY DEF ServiceInv, HeldInv
<1>2. \A r \in Resources \ {Cond(p) : p \in Pools} : held[r] \in 0 .. 1
  BY EveryKind DEF ServiceInv, HeldInv, PoolsHeld, QueuesHeld, UnitsHeld, Count
<1>3. \A p \in Pools : held[Cond(p)] \in 0 .. 1 + slotFailures
  <2>1. \A p \in Pools : CondLive(p) \in 0 .. 1
    BY DEF CondLive, Count
  <2>2. \A p \in Pools : held[Cond(p)] \in Int /\ slotFailures \in Nat
    BY <1>1, KindsHeld DEF ServiceInv, StepTypes
  <2> QED
    BY <2>1, <2>2 DEF ServiceInv, HeldInv, CondsHeld, Pools
<1> QED
  BY <1>1, <1>2, <1>3

\* Types: nothing is ever set up over a live one, nothing is freed twice, and
\* every step of every error path stays within its part, however many slots,
\* buffers and failures there are.
THEOREM InitTypeOK == Spec => []TypeOK
<1>1. InitInv => TypeOK
  <2> SUFFICES ASSUME InitInv PROVE TypeOK
    OBVIOUS
  <2>0. ServiceInv /\ CamStage
    BY DEF InitInv
  <2>1. \A r \in Resources :
           held[r] \in 0 .. (IF r \in {Cond(p) : p \in Pools} THEN 1 + slotFailures ELSE 1)
    BY <2>0, CountsBounded
  <2>2. slotFailures \in 0 .. attempts /\ attempts \in 0 .. MaxAttempts
    BY <2>0, InitAssumption DEF ServiceInv, StepTypes, Stage
  <2>3. /\ poolUp \subseteq Pools /\ queueUp \subseteq Queues /\ unitUp \subseteq Units
        /\ at \in Position
    BY <2>0 DEF ServiceInv, StepTypes
  <2>4. svcUp \in BOOLEAN /\ inFb \in BOOLEAN
    BY <2>0 DEF ServiceInv, StepTypes
  <2>5. CameraTypeOK
    BY <2>0 DEF CamStage
  <2> QED
    BY <2>1, <2>2, <2>3, <2>4, <2>5 DEF TypeOK, Position
<1> QED
  BY <1>1, InitInvAlways, PTL

\* After a failed vf_service_init, whichever of its steps it was that failed,
\* and after vf_service_deinit, nothing is left behind but one condition
\* variable for every pool whose slots could not all be allocated.
THEOREM InitLeftoversNamed == Spec => []LeftoversNamed
<1>1. InitInv => LeftoversNamed
  <2> SUFFICES ASSUME InitInv, at.op = "idle", ~svcUp PROVE LeftoversNamed
    BY DEF LeftoversNamed
  <2>0. HeldInv /\ Stage /\ ServiceInv
    BY DEF InitInv, ServiceInv
  <2>1. poolUp = {} /\ queueUp = {} /\ unitUp = {} /\ at.op \notin Pools
    BY <2>0 DEF Stage, Pools
  <2>2. \A r \in Resources \ {Cond(p) : p \in Pools} : held[r] = 0
    BY <2>0, <2>1, EveryKind
    DEF HeldInv, PoolsHeld, QueuesHeld, UnitsHeld, Count, MutexDue, SlotDue, QueueMutexDue,
        QueueCondDue, NotifierDue, DataDue, InCamera
  <2>3. held[Cond("pool_in")] + held[Cond("pool_out")] = slotFailures
    <3>1. CondLive("pool_in") = 0 /\ CondLive("pool_out") = 0
      BY <2>1 DEF CondLive, Count, Pools
    <3>2. slotFailures \in Nat
      BY <2>0 DEF ServiceInv, StepTypes
    <3> QED
      BY <2>0, <3>1, <3>2 DEF HeldInv, CondsHeld
  <2>4. fd = "closed" /\ mapped = {}
    BY <2>1 DEF InitInv, CamLink, CamStage
  <2> QED
    BY <2>2, <2>3, <2>4 DEF LeftoversNamed
<1> QED
  BY <1>1, InitInvAlways, PTL

\* A service that vf_service_init reports as initialised has all its parts,
\* and a camera that is open and RUNNING.
THEOREM InitUpIsComplete == Spec => []UpIsComplete
<1>1. InitInv => UpIsComplete
  <2> SUFFICES ASSUME InitInv, at.op = "idle", svcUp PROVE UpIsComplete
    BY DEF UpIsComplete
  <2>0. HeldInv /\ Stage /\ CamLink
    BY DEF InitInv, ServiceInv
  <2>1. poolUp = Pools /\ queueUp = Queues /\ unitUp = Units
    BY <2>0 DEF Stage
  <2>2. \A p \in Pools : held[Cond(p)] >= 1
    BY <2>0, <2>1 DEF HeldInv, CondsHeld, CondLive, Count
  <2>3. \A r \in Resources : held[r] >= 1
    BY <2>0, <2>1, <2>2, EveryKind
    DEF HeldInv, PoolsHeld, QueuesHeld, UnitsHeld, Count, MutexDue, SlotDue, QueueMutexDue,
        QueueCondDue, NotifierDue, DataDue
  <2>4. fd = "open" /\ camState = "RUNNING"
    BY <2>0, <2>1 DEF CamLink, Ready, CameraUnit, Units
  <2> QED
    BY <2>1, <2>3, <2>4 DEF UpIsComplete
<1> QED
  BY <1>1, InitInvAlways, PTL

\* No unit outlives its queues or the pools, so that the conversion unit's
\* deinit can give its input frame back to a pool that is still there.
THEOREM InitPartsOutliveUsers == Spec => []PartsOutliveUsers
<1>1. InitInv => PartsOutliveUsers
  <2> SUFFICES ASSUME InitInv PROVE PartsOutliveUsers
    OBVIOUS
  <2>0. Stage /\ StepTypes
    BY DEF InitInv, ServiceInv
  <2>1. unitUp # {} => poolUp = Pools /\ queueUp = Queues
    BY <2>0 DEF Stage, StepTypes, Position
  <2>2. inFb => ConversionUnit \in unitUp
    BY <2>0 DEF Stage
  <2>3. "pool_in" \in Pools
    BY DEF Pools
  <2> QED
    BY <2>1, <2>2, <2>3 DEF PartsOutliveUsers
<1> QED
  BY <1>1, InitInvAlways, PTL

\* The initialized flags of pools, queues and units say of every part whether
\* it is there, at every step of every error path: what the deinit functions
\* free by them is exactly what there is.
THEOREM InitFlagsTellTruth == Spec => []FlagsTellTruth
<1>1. InitInv => FlagsTellTruth
  <2> SUFFICES ASSUME InitInv PROVE FlagsTellTruth
    OBVIOUS
  <2>0. HeldInv /\ Stage /\ CamLink /\ StepTypes
    BY DEF InitInv, ServiceInv
  <2>1. ASSUME NEW p \in Pools
        PROVE  /\ p \in poolUp => \A r \in PoolParts(p) : held[r] >= 1
               /\ p \notin poolUp /\ at.op # p =>
                     \A r \in PoolParts(p) \ {Cond(p)} : held[r] = 0
    <3>1. p \in poolUp => held[Cond(p)] >= 1
      BY <2>0 DEF HeldInv, CondsHeld, CondLive, Count
    <3> QED
      BY <2>0, <3>1
      DEF HeldInv, PoolsHeld, PoolParts, Framebuffers, MutexDue, SlotDue, Count
  <2>2. \A q \in queueUp : \A r \in QueueParts(q) : held[r] = 1
    BY <2>0 DEF StepTypes, HeldInv, QueuesHeld, QueueParts, QueueMutexOf, QueueCondOf,
                QueueMutexDue, QueueCondDue, Count
  <2>3. \A u \in unitUp : \A r \in UnitParts(u) : held[r] = 1
    BY <2>0 DEF StepTypes, HeldInv, UnitsHeld, UnitParts, NotifierDue, DataDue, Count
  <2>4. CameraUnit \in unitUp => fd = "open"
    BY <2>0 DEF CamLink, Ready
  <2> QED
    BY <2>1, <2>2, <2>3, <2>4 DEF FlagsTellTruth
<1> QED
  BY <1>1, InitInvAlways, PTL

\* Every buffer the driver may hand back is mapped and none is with it twice,
\* whichever requests it refuses unnoticed.
THEOREM InitDriverBuffersMapped == Spec => []DriverBuffersMapped
<1>1. InitInv => DriverBuffersMapped
  BY DEF InitInv, CamStage
<1> QED
  BY <1>1, InitInvAlways, PTL

\* A camera that runs has lost no more buffers than requests to queue one were
\* refused: with fewer refusals than buffers it never starves.
THEOREM InitBuffersNotDrained == Spec => []BuffersNotDrained
<1>1. InitInv => BuffersNotDrained
  BY DEF InitInv, CamLink, BuffersNotDrained
<1> QED
  BY <1>1, InitInvAlways, PTL
===============================================================================
