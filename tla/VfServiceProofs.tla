---------------------------- MODULE VfServiceProofs ----------------------------
(***************************************************************************)
(* The threads and the frames of VfService, for pools and queues of every  *)
(* size and any number of starts and of failing thread creations.          *)
(*                                                                         *)
(* Threads: ThreadsAccounted speaks of the moments between two calls.  It  *)
(* is made inductive by saying, for every point inside a start, a rollback *)
(* and a stop, which units have a thread and which of those are still told *)
(* to run: the units on one side of the loop's index are settled, those on *)
(* the other side are untouched, and the one at the index is in between.   *)
(*                                                                         *)
(* Frames: a slot can be held in eight places, three queues, the frame     *)
(* pointers of four units, and the conversion unit's output pointer.       *)
(* Every step takes a slot from its pool, moves one from a place to        *)
(* another, or lets go of one, and touches no other slot (SlotMoves).      *)
(* What the places hold is therefore always apart and in use, and a        *)
(* reference count follows from the place a slot is in.                    *)
(***************************************************************************)
EXTENDS VfService, SequenceTheorems, FiniteSetTheorems, TLAPS

ControlTypes ==
    /\ running \subseteq Units
    /\ pc \in [Units -> {"none", "loop", "get", "process", "send", "unref", "done"}]
    /\ ctl \in [phase : {"stopped", "starting", "up", "stopping", "rollback"},
                unit : 0 .. 4,
                step : {"none", "create", "pool_out", "clear", "wake", "join"}]

\* Unit u has a thread exactly when it is told to run.
Settled(u) == pc[u] # "none" <=> u \in running

\* Unit u has neither.
Gone(u) == pc[u] = "none" /\ u \notin running

Tearing == ctl.phase \in {"stopping", "rollback"}

Accounts ==
    /\ ctl.phase = "stopped" => \A u \in Units : Gone(u)
    /\ ctl.phase = "up" => \A u \in Units : Settled(u)
    /\ ctl.phase = "starting" =>
           /\ ctl.unit \in Units
           /\ ctl.step = "create"
           /\ \A u \in Units : IF u < ctl.unit THEN Settled(u) ELSE Gone(u)
    /\ Tearing =>
           /\ ctl.unit \in Units
           /\ ctl.step \in {"pool_out", "clear", "wake", "join"}
           /\ ctl.step = "pool_out" => ctl.unit = FileOut
           /\ \A u \in Units : u < ctl.unit => Settled(u)
           /\ \A u \in Units : u > ctl.unit => Gone(u)
           /\ IF ctl.step \in {"wake", "join"}
              THEN pc[ctl.unit] # "none" /\ ctl.unit \notin running
              ELSE Settled(ctl.unit)
    /\ ~Tearing => ctl.step \in {"none", "create"}

ThreadInv == ControlTypes /\ Accounts

-----------------------------------------------------------------------------

\* A step of a unit's thread keeps it a thread, and changes no other.
LEMMA UnitStepKeepsThread ==
  ASSUME NEW u \in Units, ControlTypes, UnitStep(u)
  PROVE  /\ pc[u] # "none"
         /\ \E to \in {"loop", "get", "process", "send", "unref", "done"} :
               pc' = [pc EXCEPT ![u] = to]
         /\ UNCHANGED <<running, ctl>>
  BY DEF UnitStep, BeginRun, GiveUp, CameraGet, CameraSend, ProviderGet, ProviderSend,
         ConversionGet, ConversionProcess, ConversionSend, ConversionUnref, FileGet,
         FileSend, Goto, control, frames, threads, Camera, Provider, Conversion, FileOut

\* The steps of the unit threads.
LEMMA UnitInv ==
  ASSUME NEW u \in Units, ThreadInv, UnitStep(u)
  PROVE  ThreadInv'
<1>1. /\ pc[u] # "none"
      /\ \E to \in {"loop", "get", "process", "send", "unref", "done"} :
            pc' = [pc EXCEPT ![u] = to]
      /\ UNCHANGED <<running, ctl>>
  BY UnitStepKeepsThread DEF ThreadInv
<1>2. ControlTypes'
  BY <1>1 DEF ThreadInv, ControlTypes
<1>3. \A v \in Units : pc'[v] # "none" <=> pc[v] # "none"
  BY <1>1 DEF ThreadInv, ControlTypes
<1>4. Accounts'
  BY <1>1, <1>3 DEF ThreadInv, Accounts, Settled, Gone, Tearing
<1> QED
  BY <1>2, <1>4 DEF ThreadInv

\* The end of vf_unit_stop: unit ctl.unit is gone, and the loop goes on.
LEMMA UnitStopReturnsInv ==
  ASSUME ControlTypes, Tearing, ctl.unit \in Units, UnitStopReturns,
         \A u \in Units : u < ctl.unit => (pc'[u] # "none" <=> u \in running'),
         \A u \in Units : u >= ctl.unit => (pc'[u] = "none" /\ u \notin running')
  PROVE  Accounts'
<1>1. CASE ctl.unit > Camera
  <2>1. /\ ctl' = [phase |-> ctl.phase, unit |-> ctl.unit - 1, step |-> "clear"]
        /\ ctl.phase \in {"stopping", "rollback"}
        /\ ctl.unit - 1 \in Units
    BY <1>1 DEF UnitStopReturns, Enter, Units, Camera, Tearing
  <2>2. /\ \A u \in Units : u < ctl.unit - 1 => (pc'[u] # "none" <=> u \in running')
        /\ \A u \in Units : u > ctl.unit - 1 => (pc'[u] = "none" /\ u \notin running')
        /\ pc'[ctl.unit - 1] # "none" <=> ctl.unit - 1 \in running'
    BY <2>1 DEF Units
  <2>3. /\ ctl'.phase = ctl.phase
        /\ ctl'.unit = ctl.unit - 1
        /\ ctl'.step = "clear"
    BY <2>1
  <2>4. pc'[ctl'.unit] # "none" <=> ctl'.unit \in running'
    BY <2>2, <2>3
  <2> QED
    BY <2>1, <2>2, <2>3, <2>4 DEF Accounts, Tearing, Settled, Gone
<1>2. CASE ~(ctl.unit > Camera)
  <2>1. /\ ctl'.phase \in {"up", "stopped"}
        /\ ctl'.step = "none"
    BY <1>2 DEF UnitStopReturns, Enter, Tearing
  <2>2. \A u \in Units : pc'[u] = "none" /\ u \notin running'
    BY <1>2 DEF Units, Camera
  <2> QED
    BY <2>1, <2>2 DEF Accounts, Tearing, Settled, Gone
<1> QED
  BY <1>1, <1>2

\* What UnitStopReturns stores in ctl has the type of ctl.
LEMMA UnitStopReturnsType ==
  ASSUME ControlTypes, Tearing, ctl.unit \in Units, UnitStopReturns
  PROVE  ctl' \in [phase : {"stopped", "starting", "up", "stopping", "rollback"},
                   unit : 0 .. 4,
                   step : {"none", "create", "pool_out", "clear", "wake", "join"}]
  BY DEF ControlTypes, Tearing, UnitStopReturns, Enter, Units, Camera

\* The controller's steps inside a start.
LEMMA StartingInv ==
  ASSUME ThreadInv, ServiceStart \/ UnitStart \/ UnitStartFails
  PROVE  ThreadInv'
<1> USE DEF ThreadInv, threads
<1>1. CASE ServiceStart
  <2>1. /\ ctl' = [phase |-> "starting", unit |-> 1, step |-> "create"]
        /\ UNCHANGED <<running, pc>>
        /\ ctl.phase = "stopped"
    BY <1>1 DEF ServiceStart, Enter, Camera
  <2> QED
    BY <2>1 DEF ControlTypes, Accounts, Settled, Gone, Tearing, Units
<1>2. CASE UnitStart
  <2>1. /\ ctl.phase = "starting" /\ ctl.unit \in Units
        /\ \A u \in Units : IF u < ctl.unit THEN Settled(u) ELSE Gone(u)
        /\ running' = running \cup {ctl.unit}
        /\ pc' = [pc EXCEPT ![ctl.unit] = "loop"]
    BY <1>2 DEF UnitStart, Accounts
  <2>2. \A u \in Units : IF u <= ctl.unit THEN Settled(u)' ELSE Gone(u)'
    <3>1. ASSUME NEW u \in Units
          PROVE  IF u <= ctl.unit THEN Settled(u)' ELSE Gone(u)'
      <4>1. CASE u = ctl.unit
        BY <2>1, <4>1 DEF ControlTypes, Settled, Units
      <4>2. CASE u # ctl.unit
        <5>1. /\ pc'[u] = pc[u] /\ (u \in running' <=> u \in running)
              /\ u <= ctl.unit <=> u < ctl.unit
          BY <2>1, <4>2 DEF ControlTypes, Units
        <5> QED
          BY <2>1, <5>1 DEF Settled, Gone
      <4> QED
        BY <4>1, <4>2
    <3> QED
      BY <3>1
  <2>3. CASE ctl.unit = FileOut
    <3>1. ctl' = [phase |-> "up", unit |-> 0, step |-> "none"]
      BY <1>2, <2>3 DEF UnitStart, Enter
    <3>2. \A u \in Units : Settled(u)'
      BY <2>2, <2>3 DEF Units, FileOut
    <3>3. ControlTypes'
      BY <2>1, <3>1 DEF ControlTypes
    <3> QED
      BY <3>1, <3>2, <3>3 DEF Accounts, Tearing
  <2>4. CASE ctl.unit # FileOut
    <3>1. ctl' = [phase |-> "starting", unit |-> ctl.unit + 1, step |-> "create"]
      BY <1>2, <2>4 DEF UnitStart, Enter
    <3>2. ctl.unit + 1 \in Units
      BY <2>1, <2>4 DEF Units, FileOut
    <3>3. \A u \in Units : IF u < ctl.unit + 1 THEN Settled(u)' ELSE Gone(u)'
      BY <2>1, <2>2 DEF Units
    <3>4. ctl' \in [phase : {"stopped", "starting", "up", "stopping", "rollback"},
                    unit : 0 .. 4,
                    step : {"none", "create", "pool_out", "clear", "wake", "join"}]
      BY <3>1, <3>2 DEF Units
    <3>5. ControlTypes'
      BY <2>1, <3>4 DEF ControlTypes
    <3> QED
      BY <3>1, <3>2, <3>3, <3>5 DEF Accounts, Tearing
  <2> QED
    BY <2>3, <2>4
<1>3. CASE UnitStartFails
  <2>1. /\ ctl.phase = "starting" /\ ctl.unit \in Units
        /\ \A u \in Units : IF u < ctl.unit THEN Settled(u) ELSE Gone(u)
        /\ UNCHANGED <<running, pc>>
    BY <1>3 DEF UnitStartFails, Accounts
  <2>2. CASE ctl.unit = Camera
    <3>1. ctl' = [phase |-> "stopped", unit |-> 0, step |-> "none"]
      BY <1>3, <2>2 DEF UnitStartFails, Enter
    <3>2. \A u \in Units : Gone(u)
      BY <2>1, <2>2 DEF Units, Camera
    <3> QED
      BY <2>1, <3>1, <3>2 DEF ControlTypes, Accounts, Tearing, Gone
  <2>3. CASE ctl.unit # Camera
    <3>1. ctl' = [phase |-> "rollback", unit |-> ctl.unit - 1, step |-> "clear"]
      BY <1>3, <2>3 DEF UnitStartFails, Enter
    <3>2. ctl.unit - 1 \in Units
      BY <2>1, <2>3 DEF Units, Camera
    <3>3. /\ \A u \in Units : u <= ctl.unit - 1 => Settled(u)
          /\ \A u \in Units : u > ctl.unit - 1 => Gone(u)
      BY <2>1 DEF Units
    <3>4. ControlTypes'
      BY <2>1, <3>1, <3>2 DEF ControlTypes, Units
    <3> QED
      BY <2>1, <3>1, <3>2, <3>3, <3>4 DEF Accounts, Tearing, Settled, Gone, Units
  <2> QED
    BY <2>2, <2>3
<1> QED
  BY <1>1, <1>2, <1>3

\* The controller's steps inside a stop or a rollback.
LEMMA TearingInv ==
  ASSUME ThreadInv,
         ServiceStop \/ StopOutPool \/ UnitStopClear \/ UnitStopWake \/ UnitStopJoin
  PROVE  ThreadInv'
<1> USE DEF ThreadInv, threads
<1>1. CASE ServiceStop
  <2>1. /\ ctl.phase \in {"up", "stopped"}
        /\ ctl' = [phase |-> "stopping", unit |-> 4, step |-> "pool_out"]
        /\ UNCHANGED <<running, pc>>
    BY <1>1 DEF ServiceStop, Enter, FileOut
  <2>2. \A u \in Units : Settled(u) /\ ~(u > 4)
    BY <2>1 DEF Accounts, Settled, Gone, Units
  <2> QED
    BY <2>1, <2>2 DEF ControlTypes, Accounts, Settled, Gone, Tearing, Units, FileOut
<1>2. CASE StopOutPool
  <2>1. /\ ctl.phase = "stopping" /\ ctl.step = "pool_out" /\ ctl.unit = 4
        /\ ctl' = [phase |-> "stopping", unit |-> 4, step |-> "clear"]
        /\ UNCHANGED <<running, pc>>
    BY <1>2 DEF StopOutPool, Enter, FileOut, Accounts, Tearing
  <2> QED
    BY <2>1 DEF ControlTypes, Accounts, Settled, Gone, Tearing
<1>3. CASE UnitStopClear
  <2>1. /\ Tearing /\ ctl.step = "clear" /\ ctl.unit \in Units
        /\ \A u \in Units : u < ctl.unit => Settled(u)
        /\ \A u \in Units : u > ctl.unit => Gone(u)
        /\ Settled(ctl.unit)
        /\ running' = running \ {ctl.unit}
        /\ UNCHANGED pc
    BY <1>3 DEF UnitStopClear, Accounts, Tearing
  <2>2. /\ \A u \in Units : u < ctl.unit => Settled(u)'
        /\ \A u \in Units : u > ctl.unit => Gone(u)'
    BY <2>1 DEF Settled, Gone, Units
  <2>3. CASE ctl.unit \notin running /\ UnitStopReturns
    <3>1. ControlTypes'
      BY <2>1, <2>3, UnitStopReturnsType DEF ControlTypes
    <3>2. /\ \A u \in Units : u < ctl.unit => (pc'[u] # "none" <=> u \in running')
          /\ \A u \in Units : u >= ctl.unit => (pc'[u] = "none" /\ u \notin running')
      BY <2>1, <2>3 DEF Settled, Gone, Units
    <3> QED
      BY <2>1, <2>3, <3>1, <3>2, UnitStopReturnsInv
  <2>4. CASE ctl.unit \in running /\ Enter(ctl.phase, ctl.unit, "wake")
    <3>1. ctl' = [phase |-> ctl.phase, unit |-> ctl.unit, step |-> "wake"]
      BY <2>4 DEF Enter
    <3>2. ControlTypes'
      BY <2>1, <3>1 DEF ControlTypes, Units
    <3>3. pc'[ctl.unit] # "none" /\ ctl.unit \notin running'
      BY <2>1, <2>4 DEF Settled
    <3> QED
      BY <2>1, <2>2, <3>1, <3>2, <3>3 DEF Accounts, Tearing, Settled, Gone
  <2> QED
    BY <1>3, <2>3, <2>4 DEF UnitStopClear
<1>4. CASE UnitStopWake
  <2>1. /\ Tearing /\ ctl.step = "wake"
        /\ ctl' = [phase |-> ctl.phase, unit |-> ctl.unit, step |-> "join"]
        /\ UNCHANGED <<running, pc>>
    BY <1>4 DEF UnitStopWake, Enter, Accounts, ControlTypes
  <2> QED
    BY <2>1 DEF ControlTypes, Accounts, Settled, Gone, Tearing
<1>5. CASE UnitStopJoin
  <2>1. /\ Tearing /\ ctl.step = "join" /\ ctl.unit \in Units
        /\ \A u \in Units : u < ctl.unit => Settled(u)
        /\ \A u \in Units : u > ctl.unit => Gone(u)
        /\ ctl.unit \notin running
        /\ pc' = [pc EXCEPT ![ctl.unit] = "none"]
        /\ UnitStopReturns
        /\ UNCHANGED running
    BY <1>5 DEF UnitStopJoin, Goto, Accounts
  <2>2. /\ \A u \in Units : u < ctl.unit => (pc'[u] # "none" <=> u \in running')
        /\ \A u \in Units : u >= ctl.unit => (pc'[u] = "none" /\ u \notin running')
    BY <2>1 DEF Settled, Gone, Units, ControlTypes
  <2>3. ControlTypes'
    BY <2>1, UnitStopReturnsType DEF ControlTypes
  <2> QED
    BY <2>1, <2>2, <2>3, UnitStopReturnsInv
<1> QED
  BY <1>1, <1>2, <1>3, <1>4, <1>5
-----------------------------------------------------------------------------

LEMMA InitThreads == Init => ThreadInv
<1> SUFFICES ASSUME Init PROVE ThreadInv
  OBVIOUS
<1>1. /\ running = {}
      /\ pc = [u \in Units |-> "none"]
      /\ ctl = [phase |-> "stopped", unit |-> 0, step |-> "none"]
  BY DEF Init
<1> QED
  BY <1>1 DEF ThreadInv, ControlTypes, Accounts, Gone, Tearing

LEMMA NextThreads == ThreadInv /\ [Next]_vars => ThreadInv'
<1> SUFFICES ASSUME ThreadInv, [Next]_vars PROVE ThreadInv'
  OBVIOUS
<1>1. ASSUME NEW u \in Units, UnitStep(u) PROVE ThreadInv'
  BY <1>1, UnitInv
<1>2. CASE ServiceStart \/ UnitStart \/ UnitStartFails
  BY <1>2, StartingInv
<1>3. CASE ServiceStop \/ StopOutPool \/ UnitStopClear \/ UnitStopWake \/ UnitStopJoin
  BY <1>3, TearingInv
<1>4. CASE UNCHANGED vars
  BY <1>4 DEF vars, ThreadInv, ControlTypes, Accounts, Settled, Gone, Tearing
<1> QED
  BY <1>1, <1>2, <1>3, <1>4 DEF Next, ControlStep

LEMMA ThreadInvariant == Spec => []ThreadInv
  BY InitThreads, NextThreads, PTL DEF Spec

\* Between two calls of start and stop every thread belongs to a unit that is
\* told to run, so that the next stop joins it and no start overwrites the
\* handle of a live thread, whatever thread creations failed before.
THEOREM ServiceThreadsAccounted == Spec => []ThreadsAccounted
<1>1. ThreadInv => ThreadsAccounted
  BY DEF ThreadInv, Accounts, ThreadsAccounted, Settled, Gone, ControlTypes
<1> QED
  BY <1>1, ThreadInvariant, PTL

-----------------------------------------------------------------------------

\* Where no thread creation fails there is no rollback, and a start has
\* started every unit before the one it is at.
StartInv ==
    /\ ControlTypes
    /\ failures = 0
    /\ ctl.phase # "rollback"
    /\ ctl.phase = "up" => Units \subseteq running
    /\ ctl.phase = "starting" =>
           /\ ctl.unit \in Units
           /\ \A u \in Units : u < ctl.unit => u \in running

LEMMA NextStart ==
  ASSUME MaxCreateFailures = 0, ThreadInv, StartInv, [Next]_vars
  PROVE  StartInv'
<1>1. ControlTypes'
  BY NextThreads DEF ThreadInv
<1>2. CASE \E u \in Units : UnitStep(u)
  <2>1. UNCHANGED <<running, ctl, failures>>
    BY <1>2, UnitStepKeepsThread DEF ThreadInv, UnitStep, BeginRun, GiveUp, CameraGet,
       CameraSend, ProviderGet, ProviderSend, ConversionGet, ConversionProcess,
       ConversionSend, ConversionUnref, FileGet, FileSend, control, threads
  <2> QED
    BY <1>1, <2>1 DEF StartInv
<1>3. CASE ServiceStart
  <2>1. /\ ctl' = [phase |-> "starting", unit |-> 1, step |-> "create"]
        /\ UNCHANGED <<running, failures>>
    BY <1>3 DEF ServiceStart, Enter, Camera, threads
  <2> QED
    BY <1>1, <2>1 DEF StartInv, Units
<1>4. CASE UnitStart
  <2>1. /\ ctl.phase = "starting" /\ ctl.unit \in Units
        /\ \A u \in Units : u < ctl.unit => u \in running
        /\ running' = running \cup {ctl.unit}
        /\ UNCHANGED failures
    BY <1>4 DEF UnitStart, StartInv
  <2>2. \A u \in Units : u <= ctl.unit => u \in running'
    BY <2>1 DEF Units
  <2>3. CASE ctl.unit = FileOut
    <3>1. ctl' = [phase |-> "up", unit |-> 0, step |-> "none"]
      BY <1>4, <2>3 DEF UnitStart, Enter
    <3>2. Units \subseteq running'
      BY <2>2, <2>3 DEF Units, FileOut
    <3> QED
      BY <1>1, <2>1, <3>1, <3>2 DEF StartInv
  <2>4. CASE ctl.unit # FileOut
    <3>1. ctl' = [phase |-> "starting", unit |-> ctl.unit + 1, step |-> "create"]
      BY <1>4, <2>4 DEF UnitStart, Enter
    <3>2. ctl.unit + 1 \in Units
      BY <2>1, <2>4 DEF Units, FileOut
    <3>3. \A u \in Units : u < ctl.unit + 1 => u \in running'
      BY <2>1, <2>2 DEF Units
    <3> QED
      BY <1>1, <2>1, <3>1, <3>2, <3>3 DEF StartInv
  <2> QED
    BY <2>3, <2>4
<1>5. CASE UnitStartFails
  BY <1>5 DEF UnitStartFails, StartInv
<1>6. CASE ServiceStop
  <2>1. ctl'.phase = "stopping" /\ UNCHANGED failures
    BY <1>6 DEF ServiceStop, Enter
  <2> QED
    BY <1>1, <2>1 DEF StartInv
<1>7. CASE StopOutPool
  <2>1. ctl'.phase = "stopping" /\ UNCHANGED failures
    BY <1>7 DEF StopOutPool, Enter
  <2> QED
    BY <1>1, <2>1 DEF StartInv
<1>8. CASE UnitStopClear \/ UnitStopWake \/ UnitStopJoin
  <2>1. ctl.phase = "stopping"
    BY <1>8 DEF UnitStopClear, UnitStopWake, UnitStopJoin, StartInv, ThreadInv, Accounts, Tearing
  <2>2. ctl'.phase \in {"stopping", "stopped"} /\ UNCHANGED failures
    BY <1>8, <2>1 DEF UnitStopClear, UnitStopWake, UnitStopJoin, UnitStopReturns, Enter
  <2> QED
    BY <1>1, <2>2 DEF StartInv
<1>9. CASE UNCHANGED vars
  BY <1>1, <1>9 DEF vars, StartInv
<1> QED
  BY <1>2, <1>3, <1>4, <1>5, <1>6, <1>7, <1>8, <1>9 DEF Next, ControlStep

\* A service that is taken to be up runs all its units, if threads can be
\* created; without that assumption the code refutes it (run start_result).
THEOREM ServiceUpMeansRunning ==
  ASSUME MaxCreateFailures = 0
  PROVE  Spec => []UpMeansRunning
<1>1. Init => StartInv
  BY InitThreads DEF Init, ThreadInv, StartInv
<1>2. ThreadInv /\ StartInv /\ [Next]_vars => StartInv'
  BY NextStart
<1>3. StartInv => UpMeansRunning
  BY DEF StartInv, UpMeansRunning, ControlTypes
<1> QED
  BY <1>1, <1>2, <1>3, ThreadInvariant, PTL DEF Spec

-----------------------------------------------------------------------------
(* Frames.                                                                  *)

Slots(seq) == {seq[i] : i \in 1 .. Len(seq)}

NoRepeat(seq) == \A i, j \in 1 .. Len(seq) : i # j => seq[i] # seq[j]

LEMMA AppendSlots ==
  ASSUME NEW S, NEW seq \in Seq(S), NEW s \in S
  PROVE  /\ Append(seq, s) \in Seq(S)
         /\ Slots(Append(seq, s)) = Slots(seq) \cup {s}
         /\ NoRepeat(seq) /\ s \notin Slots(seq) => NoRepeat(Append(seq, s))
<1> DEFINE t == Append(seq, s)
           n == Len(seq)
<1>1. /\ t \in Seq(S)
      /\ Len(t) = n + 1
      /\ \A i \in 1 .. n : t[i] = seq[i]
      /\ t[n + 1] = s
      /\ n \in Nat
  BY AppendProperties, LenProperties
<1> HIDE DEF t
<1>2. 1 .. n + 1 = (1 .. n) \cup {n + 1}
  BY <1>1
<1>3. Slots(t) = Slots(seq) \cup {s}
  BY <1>1, <1>2 DEF Slots
<1>4. ASSUME NoRepeat(seq), s \notin Slots(seq)
      PROVE  NoRepeat(t)
  BY <1>1, <1>2, <1>4 DEF NoRepeat, Slots
<1> QED
  BY <1>1, <1>3, <1>4 DEF t

LEMMA TailSlots ==
  ASSUME NEW S, NEW seq \in Seq(S), seq # << >>, NoRepeat(seq)
  PROVE  /\ Tail(seq) \in Seq(S)
         /\ Head(seq) \in Slots(seq)
         /\ Slots(Tail(seq)) = Slots(seq) \ {Head(seq)}
         /\ NoRepeat(Tail(seq))
<1> DEFINE t == Tail(seq)
           n == Len(seq)
<1>1. /\ t \in Seq(S)
      /\ Len(t) = n - 1
      /\ \A i \in 1 .. n - 1 : t[i] = seq[i + 1]
      /\ n \in Nat /\ n > 0
      /\ Head(seq) = seq[1]
  BY HeadTailProperties, LenProperties, EmptySeq
<1> HIDE DEF t
<1>2. Slots(t) \subseteq Slots(seq) \ {seq[1]}
  BY <1>1 DEF Slots, NoRepeat
<1>3. ASSUME NEW i \in 1 .. n, seq[i] # seq[1]
      PROVE  seq[i] \in Slots(t)
  <2>1. i - 1 \in 1 .. n - 1 /\ t[i - 1] = seq[i]
    BY <1>1, <1>3
  <2> QED
    BY <1>1, <2>1 DEF Slots
<1>4. Slots(seq) \ {seq[1]} \subseteq Slots(t)
  BY <1>3 DEF Slots
<1>5. NoRepeat(t)
  BY <1>1 DEF NoRepeat
<1>6. seq[1] \in Slots(seq)
  BY <1>1 DEF Slots
<1> QED
  BY <1>1, <1>2, <1>4, <1>5, <1>6 DEF t

-----------------------------------------------------------------------------

Ptr(s) == {s} \ {NULL}

\* What each of the eight places holds.
hold == << Slots(queue[1]), Slots(queue[2]), Slots(queue[3]),
           Ptr(fb[1]), Ptr(fb[2]), Ptr(fb[3]), Ptr(fb[4]), Ptr(outFb) >>

Apart(H) == \A a, b \in 1 .. 8 : a # b => H[a] \cap H[b] = {}

Within(H, B) == \A a \in 1 .. 8 : H[a] \subseteq B

FrameTypes ==
    /\ busy \subseteq AllSlots
    /\ queue \in [Queues -> Seq(AllSlots)]
    /\ fb \in [Units -> AllSlots \cup {NULL}]
    /\ outFb \in OutSlots \cup {NULL}
    /\ refs \in [InSlots -> 0 .. 1]

Repeats == \A q \in Queues : NoRepeat(queue[q])

\* The pool whose slots a place holds.
Kinds ==
    /\ \A a \in {1, 2, 4, 5, 6} : hold[a] \subseteq InSlots
    /\ \A a \in {3, 7, 8} : hold[a] \subseteq OutSlots

\* What a unit's pointers are at each point of its loop.
Pointers ==
    /\ \A u \in {1, 2, 4} : fb[u] # NULL <=> pc[u] = "send"
    /\ pc[3] \in {"process", "send", "unref"} => fb[3] # NULL
    /\ pc[3] = "get" => fb[3] = NULL
    /\ outFb # NULL <=> pc[3] = "send"

RefInv ==
    /\ \A s \in InSlots \ busy : refs[s] = 0
    /\ \A s \in hold[1] \cup hold[4] : refs[s] = 0
    /\ \A s \in hold[2] \cup hold[5] \cup hold[6] : refs[s] = 1

FrameInv ==
    /\ FrameTypes
    /\ Repeats
    /\ Apart(hold)
    /\ Within(hold, busy)
    /\ Kinds
    /\ Pointers
    /\ RefInv

\* A step that concerns one slot, which is afterwards held in one place at
\* most, and is in use if it is held at all.
LEMMA SlotMoves ==
  ASSUME NEW H, NEW H2, NEW B, NEW B2, NEW s, NEW c \in 1 .. 8,
         Apart(H), Within(H, B),
         \A a \in 1 .. 8 : H2[a] \ {s} \subseteq H[a],
         \A a \in 1 .. 8 : a # c => s \notin H2[a],
         B \ {s} \subseteq B2,
         s \in H2[c] => s \in B2
  PROVE  Apart(H2) /\ Within(H2, B2)
  BY DEF Apart, Within

LEMMA SlotSets ==
  /\ InSlots \subseteq AllSlots /\ OutSlots \subseteq AllSlots
  /\ InSlots \cap OutSlots = {}
  /\ NULL \notin AllSlots
  BY ServiceAssumption DEF InSlots, OutSlots, AllSlots, NULL

LEMMA HoldMoves ==
  ASSUME NEW s, NEW c \in 1 .. 8, Apart(hold), Within(hold, busy),
         \A a \in 1 .. 8 : hold'[a] \ {s} \subseteq hold[a],
         \A a \in 1 .. 8 : a # c => s \notin hold'[a],
         busy \ {s} \subseteq busy',
         s \in hold'[c] => s \in busy'
  PROVE  Apart(hold)' /\ Within(hold, busy)'
<1>1. Apart(hold') /\ Within(hold', busy')
  BY SlotMoves
<1> QED
  BY <1>1 DEF Apart, Within

\* Slots that are marked as used and held nowhere.
Astray == {s \in busy : \A a \in 1 .. 8 : s \notin hold[a]}

LEMMA AstrayStays ==
  ASSUME NEW s,
         \A a \in 1 .. 8 : hold'[a] \ {s} = hold[a] \ {s},
         busy' \ {s} = busy \ {s},
         s \notin busy \/ \E a \in 1 .. 8 : s \in hold[a],
         s \notin busy' \/ \E a \in 1 .. 8 : s \in hold'[a]
  PROVE  Astray' = Astray
  BY DEF Astray

\* The slot a unit points to is held nowhere else.
LEMMA HeldOnce ==
  ASSUME FrameInv, NEW b \in 1 .. 8, NEW s, hold[b] = {s}
  PROVE  \A a \in 1 .. 8 : a # b => s \notin hold[a]
  BY DEF FrameInv, Apart

\* vf_buf_queue_push and vf_buf_queue_pop_blocking, seen from the places.
LEMMA PushFacts ==
  ASSUME FrameInv, NEW q \in Queues, NEW s \in AllSlots, s \notin Slots(queue[q]),
         Push(q, s)
  PROVE  /\ queue' \in [Queues -> Seq(AllSlots)]
         /\ Repeats'
         /\ Slots(queue'[q]) = Slots(queue[q]) \cup {s}
         /\ \A r \in Queues : r # q => queue'[r] = queue[r]
<1>1. /\ queue \in [Queues -> Seq(AllSlots)]
      /\ queue[q] \in Seq(AllSlots) /\ NoRepeat(queue[q])
      /\ queue' = [queue EXCEPT ![q] = Append(@, s)]
  BY DEF FrameInv, FrameTypes, Repeats, Push
<1>2. /\ Append(queue[q], s) \in Seq(AllSlots)
      /\ Slots(Append(queue[q], s)) = Slots(queue[q]) \cup {s}
      /\ NoRepeat(Append(queue[q], s))
  BY <1>1, AppendSlots
<1>3. /\ queue'[q] = Append(queue[q], s)
      /\ \A r \in Queues : r # q => queue'[r] = queue[r]
      /\ queue' \in [Queues -> Seq(AllSlots)]
  BY <1>1, <1>2
<1>4. Repeats'
  BY <1>2, <1>3 DEF FrameInv, Repeats
<1> QED
  BY <1>2, <1>3, <1>4

LEMMA PopFacts ==
  ASSUME FrameInv, NEW u \in 2 .. 4, NEW s, PopFrame(u, s)
  PROVE  /\ queue' \in [Queues -> Seq(AllSlots)]
         /\ Repeats'
         /\ s \in Slots(queue[u - 1])
         /\ Slots(queue'[u - 1]) = Slots(queue[u - 1]) \ {s}
         /\ \A r \in Queues : r # u - 1 => queue'[r] = queue[r]
<1> DEFINE q == u - 1
<1>0. q \in Queues
  BY DEF Queues
<1>1. /\ queue \in [Queues -> Seq(AllSlots)]
      /\ queue[q] \in Seq(AllSlots) /\ NoRepeat(queue[q])
      /\ queue[q] # << >> /\ s = Head(queue[q])
      /\ queue' = [queue EXCEPT ![q] = Tail(@)]
  BY <1>0 DEF FrameInv, FrameTypes, Repeats, PopFrame
<1> HIDE DEF q
<1>2. /\ Tail(queue[q]) \in Seq(AllSlots)
      /\ s \in Slots(queue[q])
      /\ Slots(Tail(queue[q])) = Slots(queue[q]) \ {s}
      /\ NoRepeat(Tail(queue[q]))
  BY <1>1, TailSlots
<1>3. /\ queue'[q] = Tail(queue[q])
      /\ \A r \in Queues : r # q => queue'[r] = queue[r]
      /\ queue' \in [Queues -> Seq(AllSlots)]
  BY <1>0, <1>1, <1>2
<1>4. Repeats'
  BY <1>2, <1>3 DEF FrameInv, Repeats
<1> QED
  BY <1>2, <1>3, <1>4 DEF q

\* vf_camera_unit_get_data takes a free slot.
LEMMA CameraGetFrames ==
  ASSUME ThreadInv, FrameInv, CameraGet
  PROVE  FrameInv' /\ Astray' = Astray
<1>1. PICK s \in InSlots : AcquireSlot(InSlots, s) /\ fb' = [fb EXCEPT ![1] = s]
  BY DEF CameraGet, Camera
<1>2. /\ s \notin busy /\ busy' = busy \cup {s}
      /\ fb[1] = NULL /\ pc[1] = "get" /\ pc' = [pc EXCEPT ![1] = "send"]
      /\ UNCHANGED <<queue, outFb, refs>>
      /\ s # NULL /\ s \in AllSlots
  BY <1>1, SlotSets DEF CameraGet, AcquireSlot, Goto, Camera, FrameInv, Pointers
<1>3. /\ hold' = [hold EXCEPT ![4] = {s}]
      /\ hold[4] = {}
  BY <1>1, <1>2 DEF hold, Ptr, FrameInv, FrameTypes, Units
<1>4. Apart(hold)' /\ Within(hold, busy)'
  <2>1. \A a \in 1 .. 8 : hold'[a] \ {s} \subseteq hold[a]
    BY <1>3 DEF hold
  <2>2. \A a \in 1 .. 8 : a # 4 => s \notin hold'[a]
    BY <1>2, <1>3 DEF FrameInv, Within, hold
  <2>3. s \in busy'
    BY <1>2 DEF FrameInv, Within
  <2>4. busy \ {s} \subseteq busy'
    BY <1>2
  <2>5. Apart(hold) /\ Within(hold, busy)
    BY DEF FrameInv
  <2> QED
    BY ONLY <2>1, <2>2, <2>3, <2>4, <2>5, HoldMoves
<1>5. FrameTypes'
  BY <1>1, <1>2 DEF FrameInv, FrameTypes
<1>6. Repeats'
  BY <1>2 DEF FrameInv, Repeats
<1>7. Kinds'
  BY <1>3 DEF FrameInv, Kinds, hold
<1>8. Pointers'
  BY <1>1, <1>2 DEF FrameInv, FrameTypes, Pointers, ThreadInv, ControlTypes, Units
<1>9. RefInv'
  BY <1>2, <1>3 DEF FrameInv, RefInv, hold
<1>10. Astray' = Astray
  <2>1. \A a \in 1 .. 8 : hold'[a] \ {s} = hold[a] \ {s}
    BY <1>3 DEF hold
  <2>2. busy' \ {s} = busy \ {s}
    BY <1>2
  <2>3. /\ s \notin busy \/ \E a \in 1 .. 8 : s \in hold[a]
        /\ s \notin busy' \/ \E a \in 1 .. 8 : s \in hold'[a]
    BY <1>2, <1>3 DEF hold
  <2> QED
    BY ONLY <2>1, <2>2, <2>3, AstrayStays
<1> QED
  BY <1>10, <1>4, <1>5, <1>6, <1>7, <1>8, <1>9 DEF FrameInv

\* vf_camera_unit_send_data hands its slot to queue 1 or to the pool.
LEMMA CameraSendFrames ==
  ASSUME ThreadInv, FrameInv, CameraSend
  PROVE  FrameInv' /\ Astray' = Astray
<1> DEFINE s == fb[1]
<1>1. /\ pc[1] = "send" /\ pc' = [pc EXCEPT ![1] = "loop"]
      /\ fb' = [fb EXCEPT ![1] = NULL]
      /\ s # NULL
      /\ UNCHANGED <<outFb, refs>>
  BY DEF CameraSend, Goto, Camera, FrameInv, Pointers
<1>2. hold[4] = {s}
  BY <1>1 DEF hold, Ptr
<1>3. s \in InSlots /\ s \in AllSlots
  BY <1>2, SlotSets DEF FrameInv, Kinds
<1>4. \A a \in 1 .. 8 : a # 4 => s \notin hold[a]
  BY <1>2, HeldOnce
<1>5. Pointers'
  BY <1>1 DEF FrameInv, FrameTypes, Pointers, ThreadInv, ControlTypes, Units
<1>6. refs[s] = 0
  BY <1>2 DEF FrameInv, RefInv
<1> HIDE DEF s
<1>7. CASE Room(1) /\ Push(1, s) /\ UNCHANGED pools
  <2>1. busy' = busy
    BY <1>7 DEF pools
  <2>2. s \notin Slots(queue[1])
    BY <1>4 DEF hold
  <2>3. /\ queue' \in [Queues -> Seq(AllSlots)]
        /\ Repeats'
        /\ Slots(queue'[1]) = Slots(queue[1]) \cup {s}
        /\ queue'[2] = queue[2] /\ queue'[3] = queue[3]
    BY <1>3, <1>7, <2>2, PushFacts DEF Queues
  <2>4. hold' = [hold EXCEPT ![1] = hold[1] \cup {s}, ![4] = {}]
    <3>1. fb'[1] = NULL /\ fb'[2] = fb[2] /\ fb'[3] = fb[3] /\ fb'[4] = fb[4]
      BY <1>1 DEF FrameInv, FrameTypes, Units
    <3>2. Slots(queue'[1]) = hold[1] \cup {s}
      BY <2>3 DEF hold
    <3> QED
      BY <1>1, <2>3, <3>1, <3>2 DEF hold, Ptr
  <2>5. Apart(hold)' /\ Within(hold, busy)'
    <3>1. \A a \in 1 .. 8 : hold'[a] \ {s} \subseteq hold[a]
      BY <2>4 DEF hold
    <3>2. \A a \in 1 .. 8 : a # 1 => s \notin hold'[a]
      BY <1>4, <2>4 DEF hold
    <3>3. s \in busy'
      BY <1>2, <2>1 DEF FrameInv, Within
    <3>4. busy \ {s} \subseteq busy'
      BY <2>1
    <3>5. Apart(hold) /\ Within(hold, busy)
      BY DEF FrameInv
    <3> QED
      BY ONLY <3>1, <3>2, <3>3, <3>4, <3>5, HoldMoves
  <2>6. FrameTypes'
    BY <1>1, <2>1, <2>3 DEF FrameInv, FrameTypes
  <2>7. Kinds'
    BY <1>3, <2>4 DEF FrameInv, Kinds, hold
  <2>8. RefInv'
    BY <1>1, <1>6, <2>1, <2>4 DEF FrameInv, RefInv, hold
  <2>10. Astray' = Astray
    <3>1. \A a \in 1 .. 8 : hold'[a] \ {s} = hold[a] \ {s}
      BY <1>2, <2>4 DEF hold
    <3>2. busy' \ {s} = busy \ {s}
      BY <2>1
    <3>3. /\ s \notin busy \/ \E a \in 1 .. 8 : s \in hold[a]
          /\ s \notin busy' \/ \E a \in 1 .. 8 : s \in hold'[a]
      BY <1>2, <2>4 DEF hold
    <3> QED
      BY ONLY <3>1, <3>2, <3>3, AstrayStays
  <2> QED
    BY <2>10, <1>5, <2>3, <2>5, <2>6, <2>7, <2>8 DEF FrameInv
<1>8. CASE ReleaseSlot(s) /\ UNCHANGED queue
  <2>1. busy' = busy \ {s} /\ UNCHANGED queue
    BY <1>8 DEF ReleaseSlot
  <2>2. hold' = [hold EXCEPT ![4] = {}]
    BY <1>1, <2>1 DEF hold, Ptr, FrameInv, FrameTypes, Units
  <2>3. Apart(hold)' /\ Within(hold, busy)'
    <3>1. \A a \in 1 .. 8 : hold'[a] \ {s} \subseteq hold[a]
      BY <2>2 DEF hold
    <3>2. \A a \in 1 .. 8 : s \notin hold'[a]
      BY <1>4, <2>2 DEF hold
    <3>3. busy \ {s} \subseteq busy'
      BY <2>1
    <3>4. Apart(hold) /\ Within(hold, busy)
      BY DEF FrameInv
    <3> QED
      BY ONLY <3>1, <3>2, <3>3, <3>4, HoldMoves
  <2>4. FrameTypes'
    BY <1>1, <2>1 DEF FrameInv, FrameTypes
  <2>5. Repeats'
    BY <2>1 DEF FrameInv, Repeats
  <2>6. Kinds'
    BY <2>2 DEF FrameInv, Kinds, hold
  <2>7. RefInv'
    BY <1>1, <1>6, <2>1, <2>2 DEF FrameInv, RefInv, hold
  <2>10. Astray' = Astray
    <3>1. \A a \in 1 .. 8 : hold'[a] \ {s} = hold[a] \ {s}
      BY <1>2, <2>2 DEF hold
    <3>2. busy' \ {s} = busy \ {s}
      BY <2>1
    <3>3. /\ s \notin busy \/ \E a \in 1 .. 8 : s \in hold[a]
          /\ s \notin busy' \/ \E a \in 1 .. 8 : s \in hold'[a]
      BY <1>2, <2>1 DEF hold
    <3> QED
      BY ONLY <3>1, <3>2, <3>3, AstrayStays
  <2> QED
    BY <2>10, <1>5, <2>3, <2>4, <2>5, <2>6, <2>7 DEF FrameInv
<1> QED
  BY <1>7, <1>8 DEF CameraSend, Camera, s

\* vf_stream_provider_unit_get_data pops from queue 1 and takes a reference.
LEMMA ProviderGetFrames ==
  ASSUME ThreadInv, FrameInv, ProviderGet
  PROVE  FrameInv' /\ Astray' = Astray
<1>1. PICK s \in InSlots :
         PopFrame(2, s) /\ fb' = [fb EXCEPT ![2] = s] /\ Ref(s)
  BY DEF ProviderGet, Provider
<1>2. /\ refs' = [refs EXCEPT ![s] = @ + 1]
      /\ fb[2] = NULL /\ pc[2] = "get" /\ pc' = [pc EXCEPT ![2] = "send"]
      /\ UNCHANGED <<busy, outFb>>
      /\ s # NULL /\ s \in AllSlots
  BY <1>1, SlotSets
     DEF ProviderGet, Ref, CONSUMER_COUNT, Goto, Provider, FrameInv, Pointers, pools
<1>3. /\ queue' \in [Queues -> Seq(AllSlots)]
      /\ Repeats'
      /\ s \in Slots(queue[1])
      /\ Slots(queue'[1]) = Slots(queue[1]) \ {s}
      /\ queue'[2] = queue[2] /\ queue'[3] = queue[3]
  BY <1>1, PopFacts DEF Queues
<1>4. fb'[1] = fb[1] /\ fb'[2] = s /\ fb'[3] = fb[3] /\ fb'[4] = fb[4]
  BY <1>1 DEF FrameInv, FrameTypes, Units
<1> DEFINE rest == Slots(queue[1]) \ {s}
<1>5. /\ hold' = [hold EXCEPT ![1] = rest, ![5] = {s}]
      /\ rest = hold[1] \ {s} /\ s \in hold[1] /\ hold[5] = {}
  <2>1. rest = hold[1] \ {s} /\ s \in hold[1] /\ hold[5] = {}
    BY <1>2, <1>3 DEF hold, Ptr
  <2>2. Slots(queue'[1]) = rest /\ Ptr(fb'[2]) = {s}
    BY <1>2, <1>3, <1>4 DEF Ptr
  <2> HIDE DEF rest
  <2>3. hold' = << rest, Slots(queue[2]), Slots(queue[3]),
                   Ptr(fb[1]), {s}, Ptr(fb[3]), Ptr(fb[4]), Ptr(outFb) >>
    BY <1>2, <1>3, <1>4, <2>2 DEF hold
  <2>4. hold' = [hold EXCEPT ![1] = rest, ![5] = {s}]
    BY <2>3 DEF hold
  <2> QED
    BY <2>1, <2>4
<1> HIDE DEF rest
<1>6. \A a \in 1 .. 8 : a # 1 => s \notin hold[a]
  BY <1>5 DEF FrameInv, Apart
<1>7. Apart(hold)' /\ Within(hold, busy)'
  <2>1. \A a \in 1 .. 8 : hold'[a] \ {s} \subseteq hold[a]
    BY <1>5 DEF hold
  <2>2. \A a \in 1 .. 8 : a # 5 => s \notin hold'[a]
    BY <1>5, <1>6 DEF hold
  <2>3. s \in busy'
    BY <1>2, <1>5 DEF FrameInv, Within
  <2>4. busy \ {s} \subseteq busy'
    BY <1>2
  <2>5. Apart(hold) /\ Within(hold, busy)
    BY DEF FrameInv
  <2> QED
    BY ONLY <2>1, <2>2, <2>3, <2>4, <2>5, HoldMoves
<1>8. refs[s] = 0
  BY <1>5 DEF FrameInv, RefInv
<1>9. FrameTypes'
  <2>1. refs' \in [InSlots -> 0 .. 1]
    BY <1>2, <1>8 DEF FrameInv, FrameTypes
  <2> QED
    BY <1>1, <1>2, <1>3, <2>1 DEF FrameInv, FrameTypes
<1>10. Kinds'
  BY <1>5 DEF FrameInv, Kinds, hold
<1>11. Pointers'
  BY <1>1, <1>2 DEF FrameInv, FrameTypes, Pointers, ThreadInv, ControlTypes, Units
<1>12. RefInv'
  <2>1. s \in busy
    BY <1>5 DEF FrameInv, Within
  <2>2. refs'[s] = 1 /\ \A r \in InSlots : r # s => refs'[r] = refs[r]
    BY <1>1, <1>2, <1>8 DEF FrameInv, FrameTypes
  <2>3. \A a \in {1, 2, 4, 5, 6} : hold[a] \subseteq InSlots
    BY DEF FrameInv, Kinds
  <2> QED
    BY <1>2, <1>5, <1>6, <2>1, <2>2, <2>3 DEF FrameInv, RefInv, hold
<1>13. Astray' = Astray
  <2>1. \A a \in 1 .. 8 : hold'[a] \ {s} = hold[a] \ {s}
    BY <1>5 DEF hold
  <2>2. busy' \ {s} = busy \ {s}
    BY <1>2
  <2>3. /\ s \notin busy \/ \E a \in 1 .. 8 : s \in hold[a]
        /\ s \notin busy' \/ \E a \in 1 .. 8 : s \in hold'[a]
    BY <1>5, <1>5 DEF hold
  <2> QED
    BY ONLY <2>1, <2>2, <2>3, AstrayStays
<1> QED
  BY <1>13, <1>3, <1>7, <1>9, <1>10, <1>11, <1>12 DEF FrameInv

\* vf_stream_provider_unit_send_data hands the slot on, or drops the only
\* reference there is.
LEMMA ProviderSendFrames ==
  ASSUME ThreadInv, FrameInv, ProviderSend
  PROVE  FrameInv' /\ Astray' = Astray
<1> DEFINE s == fb[2]
<1>1. /\ pc[2] = "send" /\ pc' = [pc EXCEPT ![2] = "loop"]
      /\ fb' = [fb EXCEPT ![2] = NULL]
      /\ s # NULL
      /\ UNCHANGED outFb
  BY DEF ProviderSend, Goto, Provider, FrameInv, Pointers
<1>2. hold[5] = {s}
  BY <1>1 DEF hold, Ptr
<1>3. s \in InSlots /\ s \in AllSlots
  BY <1>2, SlotSets DEF FrameInv, Kinds
<1>4. \A a \in 1 .. 8 : a # 5 => s \notin hold[a]
  BY <1>2, HeldOnce
<1>5. Pointers'
  BY <1>1 DEF FrameInv, FrameTypes, Pointers, ThreadInv, ControlTypes, Units
<1>6. refs[s] = 1 /\ s \in busy
  BY <1>2 DEF FrameInv, RefInv, Within
<1>7. fb'[1] = fb[1] /\ fb'[2] = NULL /\ fb'[3] = fb[3] /\ fb'[4] = fb[4]
  BY <1>1 DEF FrameInv, FrameTypes, Units
<1> HIDE DEF s
<1>8. CASE Push(2, s) /\ UNCHANGED <<pools, refs>>
  <2>1. busy' = busy /\ refs' = refs
    BY <1>8 DEF pools
  <2>2. s \notin Slots(queue[2])
    BY <1>4 DEF hold
  <2>3. /\ queue' \in [Queues -> Seq(AllSlots)]
        /\ Repeats'
        /\ Slots(queue'[2]) = Slots(queue[2]) \cup {s}
        /\ queue'[1] = queue[1] /\ queue'[3] = queue[3]
    BY <1>3, <1>8, <2>2, PushFacts DEF Queues
  <2>4. hold' = [hold EXCEPT ![2] = hold[2] \cup {s}, ![5] = {}]
    <3>1. Slots(queue'[2]) = hold[2] \cup {s}
      BY <2>3 DEF hold
    <3> QED
      BY <1>1, <1>7, <2>3, <3>1 DEF hold, Ptr
  <2>5. Apart(hold)' /\ Within(hold, busy)'
    <3>1. \A a \in 1 .. 8 : hold'[a] \ {s} \subseteq hold[a]
      BY <2>4 DEF hold
    <3>2. \A a \in 1 .. 8 : a # 2 => s \notin hold'[a]
      BY <1>4, <2>4 DEF hold
    <3>3. s \in busy'
      BY <1>6, <2>1 DEF FrameInv, Within
    <3>4. busy \ {s} \subseteq busy'
      BY <1>6, <2>1
    <3>5. Apart(hold) /\ Within(hold, busy)
      BY DEF FrameInv
    <3> QED
      BY ONLY <3>1, <3>2, <3>3, <3>4, <3>5, HoldMoves
  <2>6. FrameTypes'
    BY <1>1, <2>1, <2>3 DEF FrameInv, FrameTypes
  <2>7. Kinds'
    BY <1>3, <2>4 DEF FrameInv, Kinds, hold
  <2>8. RefInv'
    BY <1>6, <2>1, <2>4 DEF FrameInv, RefInv, hold
  <2>10. Astray' = Astray
    <3>1. \A a \in 1 .. 8 : hold'[a] \ {s} = hold[a] \ {s}
      BY <1>2, <2>4 DEF hold
    <3>2. busy' \ {s} = busy \ {s}
      BY <2>1
    <3>3. /\ s \notin busy \/ \E a \in 1 .. 8 : s \in hold[a]
          /\ s \notin busy' \/ \E a \in 1 .. 8 : s \in hold'[a]
      BY <1>2, <2>4 DEF hold
    <3> QED
      BY ONLY <3>1, <3>2, <3>3, AstrayStays
  <2> QED
    BY <2>10, <1>5, <2>3, <2>5, <2>6, <2>7, <2>8 DEF FrameInv
<1>9. CASE Unref(s) /\ UNCHANGED queue
  <2>1. /\ busy' = busy \ {s}
        /\ refs'[s] = 0 /\ \A r \in InSlots : r # s => refs'[r] = refs[r]
        /\ refs' \in [InSlots -> 0 .. 1]
        /\ UNCHANGED queue
    BY <1>3, <1>6, <1>9 DEF Unref, ReleaseSlot, FrameInv, FrameTypes
  <2>2. hold' = [hold EXCEPT ![5] = {}]
    BY <1>1, <1>7, <2>1 DEF hold, Ptr
  <2>3. \A a \in 1 .. 8 : s \notin hold'[a]
    BY <1>4, <2>2 DEF hold
  <2>4. Apart(hold)' /\ Within(hold, busy)'
    <3>1. \A a \in 1 .. 8 : hold'[a] \ {s} \subseteq hold[a]
      BY <2>2 DEF hold
    <3>2. busy \ {s} \subseteq busy'
      BY <2>1
    <3>3. Apart(hold) /\ Within(hold, busy)
      BY DEF FrameInv
    <3> QED
      BY ONLY <2>3, <3>1, <3>2, <3>3, HoldMoves
  <2>5. FrameTypes'
    BY <1>1, <2>1 DEF FrameInv, FrameTypes
  <2>6. Repeats'
    BY <2>1 DEF FrameInv, Repeats
  <2>7. Kinds'
    BY <2>2 DEF FrameInv, Kinds, hold
  <2>8. RefInv'
    <3>1. \A a \in {1, 2, 4, 5, 6} : hold'[a] \subseteq InSlots /\ hold'[a] \subseteq hold[a]
      BY <2>2 DEF FrameInv, Kinds, hold
    <3>2. \A r \in InSlots \ busy' : refs'[r] = 0
      BY <2>1 DEF FrameInv, RefInv
    <3> QED
      BY <2>1, <2>3, <3>1, <3>2 DEF FrameInv, RefInv
  <2>10. Astray' = Astray
    <3>1. \A a \in 1 .. 8 : hold'[a] \ {s} = hold[a] \ {s}
      BY <1>2, <2>2 DEF hold
    <3>2. busy' \ {s} = busy \ {s}
      BY <2>1
    <3>3. /\ s \notin busy \/ \E a \in 1 .. 8 : s \in hold[a]
          /\ s \notin busy' \/ \E a \in 1 .. 8 : s \in hold'[a]
      BY <1>2, <2>1 DEF hold
    <3> QED
      BY ONLY <3>1, <3>2, <3>3, AstrayStays
  <2> QED
    BY <2>10, <1>5, <2>4, <2>5, <2>6, <2>7, <2>8 DEF FrameInv
<1> QED
  BY <1>8, <1>9 DEF ProviderSend, Provider, s

\* vf_conversion_unit_get_data pops from queue 2.
LEMMA ConversionGetFrames ==
  ASSUME ThreadInv, FrameInv, ConversionGet
  PROVE  FrameInv' /\ Astray' = Astray
<1>1. PICK s \in InSlots : PopFrame(3, s) /\ fb' = [fb EXCEPT ![3] = s]
  BY DEF ConversionGet, Conversion
<1>2. /\ fb[3] = NULL /\ pc[3] = "get" /\ pc' = [pc EXCEPT ![3] = "process"]
      /\ UNCHANGED <<busy, outFb, refs>>
      /\ s # NULL /\ s \in AllSlots
  BY <1>1, SlotSets DEF ConversionGet, Goto, Conversion, FrameInv, Pointers, pools
<1>3. /\ queue' \in [Queues -> Seq(AllSlots)]
      /\ Repeats'
      /\ s \in Slots(queue[2])
      /\ Slots(queue'[2]) = Slots(queue[2]) \ {s}
      /\ queue'[1] = queue[1] /\ queue'[3] = queue[3]
  BY <1>1, PopFacts DEF Queues
<1>4. fb'[1] = fb[1] /\ fb'[2] = fb[2] /\ fb'[3] = s /\ fb'[4] = fb[4]
  BY <1>1 DEF FrameInv, FrameTypes, Units
<1> DEFINE rest == Slots(queue[2]) \ {s}
<1>5. /\ hold' = [hold EXCEPT ![2] = rest, ![6] = {s}]
      /\ rest = hold[2] \ {s} /\ s \in hold[2] /\ hold[6] = {}
  <2>1. rest = hold[2] \ {s} /\ s \in hold[2] /\ hold[6] = {}
    BY <1>2, <1>3 DEF hold, Ptr
  <2>2. Slots(queue'[2]) = rest /\ Ptr(fb'[3]) = {s}
    BY <1>2, <1>3, <1>4 DEF Ptr
  <2> HIDE DEF rest
  <2>3. hold' = << Slots(queue[1]), rest, Slots(queue[3]),
                   Ptr(fb[1]), Ptr(fb[2]), {s}, Ptr(fb[4]), Ptr(outFb) >>
    BY <1>2, <1>3, <1>4, <2>2 DEF hold
  <2>4. hold' = [hold EXCEPT ![2] = rest, ![6] = {s}]
    BY <2>3 DEF hold
  <2> QED
    BY <2>1, <2>4
<1> HIDE DEF rest
<1>6. \A a \in 1 .. 8 : a # 2 => s \notin hold[a]
  BY <1>5 DEF FrameInv, Apart
<1>7. Apart(hold)' /\ Within(hold, busy)'
  <2>1. \A a \in 1 .. 8 : hold'[a] \ {s} \subseteq hold[a]
    BY <1>5 DEF hold
  <2>2. \A a \in 1 .. 8 : a # 6 => s \notin hold'[a]
    BY <1>5, <1>6 DEF hold
  <2>3. s \in busy'
    BY <1>2, <1>5 DEF FrameInv, Within
  <2>4. busy \ {s} \subseteq busy'
    BY <1>2
  <2>5. Apart(hold) /\ Within(hold, busy)
    BY DEF FrameInv
  <2> QED
    BY ONLY <2>1, <2>2, <2>3, <2>4, <2>5, HoldMoves
<1>8. FrameTypes'
  BY <1>1, <1>2, <1>3 DEF FrameInv, FrameTypes
<1>9. Kinds'
  BY <1>5 DEF FrameInv, Kinds, hold
<1>10. Pointers'
  BY <1>1, <1>2 DEF FrameInv, FrameTypes, Pointers, ThreadInv, ControlTypes, Units
<1>11. RefInv'
  BY <1>2, <1>5 DEF FrameInv, RefInv, hold
<1>12. Astray' = Astray
  <2>1. \A a \in 1 .. 8 : hold'[a] \ {s} = hold[a] \ {s}
    BY <1>5 DEF hold
  <2>2. busy' \ {s} = busy \ {s}
    BY <1>2
  <2>3. /\ s \notin busy \/ \E a \in 1 .. 8 : s \in hold[a]
        /\ s \notin busy' \/ \E a \in 1 .. 8 : s \in hold'[a]
    BY <1>5, <1>5 DEF hold
  <2> QED
    BY ONLY <2>1, <2>2, <2>3, AstrayStays
<1> QED
  BY <1>12, <1>3, <1>7, <1>8, <1>9, <1>10, <1>11 DEF FrameInv

\* vf_conversion_unit_process_data takes a free slot of the output pool.
LEMMA ConversionProcessFrames ==
  ASSUME ThreadInv, FrameInv, ConversionProcess
  PROVE  FrameInv' /\ Astray' = Astray
<1>1. PICK s \in OutSlots : AcquireSlot(OutSlots, s) /\ outFb' = s
  BY DEF ConversionProcess
<1>2. /\ s \notin busy /\ busy' = busy \cup {s}
      /\ outFb = NULL /\ pc[3] = "process" /\ pc' = [pc EXCEPT ![3] = "send"]
      /\ UNCHANGED <<queue, fb, refs>>
      /\ s # NULL /\ s \in AllSlots /\ s \notin InSlots
  BY <1>1, SlotSets DEF ConversionProcess, AcquireSlot, Goto, Conversion, FrameInv, Pointers
<1>3. /\ hold' = [hold EXCEPT ![8] = {s}]
      /\ hold[8] = {}
  BY <1>1, <1>2 DEF hold, Ptr
<1>4. Apart(hold)' /\ Within(hold, busy)'
  <2>1. \A a \in 1 .. 8 : hold'[a] \ {s} \subseteq hold[a]
    BY <1>3 DEF hold
  <2>2. \A a \in 1 .. 8 : a # 8 => s \notin hold'[a]
    BY <1>2, <1>3 DEF FrameInv, Within, hold
  <2>3. busy \ {s} \subseteq busy' /\ s \in busy'
    BY <1>2
  <2>4. Apart(hold) /\ Within(hold, busy)
    BY DEF FrameInv
  <2> QED
    BY ONLY <2>1, <2>2, <2>3, <2>4, HoldMoves
<1>5. FrameTypes'
  BY <1>1, <1>2 DEF FrameInv, FrameTypes
<1>6. Repeats'
  BY <1>2 DEF FrameInv, Repeats
<1>7. Kinds'
  BY <1>3 DEF FrameInv, Kinds, hold
<1>8. Pointers'
  BY <1>1, <1>2 DEF FrameInv, FrameTypes, Pointers, ThreadInv, ControlTypes, Units
<1>9. RefInv'
  BY <1>2, <1>3 DEF FrameInv, RefInv, hold
<1>10. Astray' = Astray
  <2>1. \A a \in 1 .. 8 : hold'[a] \ {s} = hold[a] \ {s}
    BY <1>3 DEF hold
  <2>2. busy' \ {s} = busy \ {s}
    BY <1>2
  <2>3. /\ s \notin busy \/ \E a \in 1 .. 8 : s \in hold[a]
        /\ s \notin busy' \/ \E a \in 1 .. 8 : s \in hold'[a]
    BY <1>2, <1>3 DEF hold
  <2> QED
    BY ONLY <2>1, <2>2, <2>3, AstrayStays
<1> QED
  BY <1>10, <1>4, <1>5, <1>6, <1>7, <1>8, <1>9 DEF FrameInv

\* vf_conversion_unit_send_data hands the output slot to queue 3 or to the pool.
LEMMA ConversionSendFrames ==
  ASSUME ThreadInv, FrameInv, ConversionSend
  PROVE  FrameInv' /\ Astray' = Astray
<1> DEFINE s == outFb
<1>1. /\ pc[3] = "send"
      /\ outFb' = NULL
      /\ s # NULL
      /\ UNCHANGED <<fb, refs>>
  BY DEF ConversionSend, Goto, Conversion, FrameInv, Pointers
<1>2. hold[8] = {s} /\ fb[3] # NULL
  BY <1>1 DEF hold, Ptr, FrameInv, Pointers
<1>3. s \in OutSlots /\ s \in AllSlots /\ s \notin InSlots
  BY <1>2, SlotSets DEF FrameInv, Kinds
<1>4. \A a \in 1 .. 8 : a # 8 => s \notin hold[a]
  BY <1>2, HeldOnce
<1>5. s \in busy
  BY <1>2 DEF FrameInv, Within
<1>6. ASSUME NEW to \in {"unref", "loop"}, pc' = [pc EXCEPT ![3] = to]
      PROVE  Pointers'
  BY <1>1, <1>2, <1>6 DEF FrameInv, FrameTypes, Pointers, ThreadInv, ControlTypes, Units
<1>7. CASE Push(3, s) /\ UNCHANGED pools /\ pc' = [pc EXCEPT ![3] = "unref"]
  <2>1. busy' = busy /\ refs' = refs
    BY <1>1, <1>7 DEF pools
  <2>2. s \notin Slots(queue[3])
    BY <1>4 DEF hold
  <2>3. /\ queue' \in [Queues -> Seq(AllSlots)]
        /\ Repeats'
        /\ Slots(queue'[3]) = Slots(queue[3]) \cup {s}
        /\ queue'[1] = queue[1] /\ queue'[2] = queue[2]
    BY <1>3, <1>7, <2>2, PushFacts DEF Queues
  <2>4. hold' = [hold EXCEPT ![3] = hold[3] \cup {s}, ![8] = {}]
    <3>1. Slots(queue'[3]) = hold[3] \cup {s}
      BY <2>3 DEF hold
    <3> QED
      BY <1>1, <2>3, <3>1 DEF hold, Ptr
  <2>5. Apart(hold)' /\ Within(hold, busy)'
    <3>1. \A a \in 1 .. 8 : hold'[a] \ {s} \subseteq hold[a]
      BY <2>4 DEF hold
    <3>2. \A a \in 1 .. 8 : a # 3 => s \notin hold'[a]
      BY <1>4, <2>4 DEF hold
    <3>3. s \in busy'
      BY <1>5, <2>1 DEF FrameInv, Within
    <3>4. busy \ {s} \subseteq busy'
      BY <1>5, <2>1
    <3>5. Apart(hold) /\ Within(hold, busy)
      BY DEF FrameInv
    <3> QED
      BY ONLY <3>1, <3>2, <3>3, <3>4, <3>5, HoldMoves
  <2>6. FrameTypes'
    BY <1>1, <2>1, <2>3 DEF FrameInv, FrameTypes
  <2>7. Kinds'
    BY <1>3, <2>4 DEF FrameInv, Kinds, hold
  <2>8. RefInv'
    BY <2>1, <2>4 DEF FrameInv, RefInv, hold
  <2>10. Astray' = Astray
    <3>1. \A a \in 1 .. 8 : hold'[a] \ {s} = hold[a] \ {s}
      BY <1>2, <2>4 DEF hold
    <3>2. busy' \ {s} = busy \ {s}
      BY <2>1
    <3>3. /\ s \notin busy \/ \E a \in 1 .. 8 : s \in hold[a]
          /\ s \notin busy' \/ \E a \in 1 .. 8 : s \in hold'[a]
      BY <1>2, <2>4 DEF hold
    <3> QED
      BY ONLY <3>1, <3>2, <3>3, AstrayStays
  <2> QED
    BY <2>10, <1>6, <1>7, <2>3, <2>5, <2>6, <2>7, <2>8 DEF FrameInv
<1>8. CASE ReleaseSlot(s) /\ UNCHANGED queue /\ pc' = [pc EXCEPT ![3] = "loop"]
  <2>1. busy' = busy \ {s} /\ UNCHANGED <<queue, refs>>
    BY <1>1, <1>8 DEF ReleaseSlot
  <2>2. hold' = [hold EXCEPT ![8] = {}]
    BY <1>1, <2>1 DEF hold, Ptr
  <2>3. \A a \in 1 .. 8 : s \notin hold'[a]
    BY <1>4, <2>2 DEF hold
  <2>4. Apart(hold)' /\ Within(hold, busy)'
    <3>1. \A a \in 1 .. 8 : hold'[a] \ {s} \subseteq hold[a]
      BY <2>2 DEF hold
    <3>2. busy \ {s} \subseteq busy'
      BY <2>1
    <3>3. Apart(hold) /\ Within(hold, busy)
      BY DEF FrameInv
    <3> QED
      BY ONLY <2>3, <3>1, <3>2, <3>3, HoldMoves
  <2>5. FrameTypes'
    BY <1>1, <2>1 DEF FrameInv, FrameTypes
  <2>6. Repeats'
    BY <2>1 DEF FrameInv, Repeats
  <2>7. Kinds'
    BY <2>2 DEF FrameInv, Kinds, hold
  <2>8. RefInv'
    BY <1>3, <2>1, <2>2 DEF FrameInv, RefInv, hold
  <2>10. Astray' = Astray
    <3>1. \A a \in 1 .. 8 : hold'[a] \ {s} = hold[a] \ {s}
      BY <1>2, <2>2 DEF hold
    <3>2. busy' \ {s} = busy \ {s}
      BY <2>1
    <3>3. /\ s \notin busy \/ \E a \in 1 .. 8 : s \in hold[a]
          /\ s \notin busy' \/ \E a \in 1 .. 8 : s \in hold'[a]
      BY <1>2, <2>1 DEF hold
    <3> QED
      BY ONLY <3>1, <3>2, <3>3, AstrayStays
  <2> QED
    BY <2>10, <1>6, <1>8, <2>4, <2>5, <2>6, <2>7, <2>8 DEF FrameInv
<1> QED
  BY <1>7, <1>8 DEF ConversionSend, Conversion, Goto

\* The end of vf_conversion_unit_send_data drops the input slot's reference.
LEMMA ConversionUnrefFrames ==
  ASSUME ThreadInv, FrameInv, ConversionUnref
  PROVE  FrameInv' /\ Astray' = Astray
<1> DEFINE s == fb[3]
<1>1. /\ pc[3] = "unref" /\ pc' = [pc EXCEPT ![3] = "loop"]
      /\ fb' = [fb EXCEPT ![3] = NULL]
      /\ s # NULL
      /\ Unref(s)
      /\ UNCHANGED <<outFb, queue>>
  BY DEF ConversionUnref, Goto, Conversion, FrameInv, Pointers
<1>2. hold[6] = {s}
  BY <1>1 DEF hold, Ptr
<1>3. s \in InSlots
  BY <1>2 DEF FrameInv, Kinds
<1>4. \A a \in 1 .. 8 : a # 6 => s \notin hold[a]
  BY <1>2, HeldOnce
<1>5. Pointers'
  BY <1>1 DEF FrameInv, FrameTypes, Pointers, ThreadInv, ControlTypes, Units
<1>6. refs[s] = 1
  BY <1>2 DEF FrameInv, RefInv
<1>7. fb'[1] = fb[1] /\ fb'[2] = fb[2] /\ fb'[3] = NULL /\ fb'[4] = fb[4]
  BY <1>1 DEF FrameInv, FrameTypes, Units
<1> HIDE DEF s
<1>8. /\ busy' = busy \ {s}
      /\ refs'[s] = 0 /\ \A r \in InSlots : r # s => refs'[r] = refs[r]
      /\ refs' \in [InSlots -> 0 .. 1]
  BY <1>1, <1>3, <1>6 DEF Unref, ReleaseSlot, FrameInv, FrameTypes
<1>9. hold' = [hold EXCEPT ![6] = {}]
  BY <1>1, <1>7 DEF hold, Ptr
<1>10. \A a \in 1 .. 8 : s \notin hold'[a]
  BY <1>4, <1>9 DEF hold
<1>11. Apart(hold)' /\ Within(hold, busy)'
  <2>1. \A a \in 1 .. 8 : hold'[a] \ {s} \subseteq hold[a]
    BY <1>9 DEF hold
  <2>2. busy \ {s} \subseteq busy'
    BY <1>8
  <2>3. Apart(hold) /\ Within(hold, busy)
    BY DEF FrameInv
  <2> QED
    BY ONLY <1>10, <2>1, <2>2, <2>3, HoldMoves
<1>12. FrameTypes'
  BY <1>1, <1>8 DEF FrameInv, FrameTypes
<1>13. Repeats'
  BY <1>1 DEF FrameInv, Repeats
<1>14. Kinds'
  BY <1>9 DEF FrameInv, Kinds, hold
<1>15. RefInv'
  <2>1. \A a \in {1, 2, 4, 5, 6} : hold'[a] \subseteq InSlots /\ hold'[a] \subseteq hold[a]
    BY <1>9 DEF FrameInv, Kinds, hold
  <2>2. \A r \in InSlots \ busy' : refs'[r] = 0
    BY <1>8 DEF FrameInv, RefInv
  <2> QED
    BY <1>8, <1>10, <2>1, <2>2 DEF FrameInv, RefInv
<1>16. Astray' = Astray
  <2>1. \A a \in 1 .. 8 : hold'[a] \ {s} = hold[a] \ {s}
    BY <1>2, <1>9 DEF hold
  <2>2. busy' \ {s} = busy \ {s}
    BY <1>8
  <2>3. /\ s \notin busy \/ \E a \in 1 .. 8 : s \in hold[a]
        /\ s \notin busy' \/ \E a \in 1 .. 8 : s \in hold'[a]
    BY <1>2, <1>8 DEF hold
  <2> QED
    BY ONLY <2>1, <2>2, <2>3, AstrayStays
<1> QED
  BY <1>16, <1>5, <1>11, <1>12, <1>13, <1>14, <1>15 DEF FrameInv

\* vf_file_unit_get_data pops from queue 3.
LEMMA FileGetFrames ==
  ASSUME ThreadInv, FrameInv, FileGet
  PROVE  FrameInv' /\ Astray' = Astray
<1>1. PICK s \in OutSlots : PopFrame(4, s) /\ fb' = [fb EXCEPT ![4] = s]
  BY DEF FileGet, FileOut
<1>2. /\ fb[4] = NULL /\ pc[4] = "get" /\ pc' = [pc EXCEPT ![4] = "send"]
      /\ UNCHANGED <<busy, outFb, refs>>
      /\ s # NULL /\ s \in AllSlots
  BY <1>1, SlotSets DEF FileGet, Goto, FileOut, FrameInv, Pointers, pools
<1>3. /\ queue' \in [Queues -> Seq(AllSlots)]
      /\ Repeats'
      /\ s \in Slots(queue[3])
      /\ Slots(queue'[3]) = Slots(queue[3]) \ {s}
      /\ queue'[1] = queue[1] /\ queue'[2] = queue[2]
  BY <1>1, PopFacts DEF Queues
<1>4. fb'[1] = fb[1] /\ fb'[2] = fb[2] /\ fb'[3] = fb[3] /\ fb'[4] = s
  BY <1>1 DEF FrameInv, FrameTypes, Units
<1> DEFINE rest == Slots(queue[3]) \ {s}
<1>5. /\ hold' = [hold EXCEPT ![3] = rest, ![7] = {s}]
      /\ rest = hold[3] \ {s} /\ s \in hold[3] /\ hold[7] = {}
  <2>1. rest = hold[3] \ {s} /\ s \in hold[3] /\ hold[7] = {}
    BY <1>2, <1>3 DEF hold, Ptr
  <2>2. Slots(queue'[3]) = rest /\ Ptr(fb'[4]) = {s}
    BY <1>2, <1>3, <1>4 DEF Ptr
  <2> HIDE DEF rest
  <2>3. hold' = << Slots(queue[1]), Slots(queue[2]), rest,
                   Ptr(fb[1]), Ptr(fb[2]), Ptr(fb[3]), {s}, Ptr(outFb) >>
    BY <1>2, <1>3, <1>4, <2>2 DEF hold
  <2>4. hold' = [hold EXCEPT ![3] = rest, ![7] = {s}]
    BY <2>3 DEF hold
  <2> QED
    BY <2>1, <2>4
<1> HIDE DEF rest
<1>6. \A a \in 1 .. 8 : a # 3 => s \notin hold[a]
  BY <1>5 DEF FrameInv, Apart
<1>7. Apart(hold)' /\ Within(hold, busy)'
  <2>1. \A a \in 1 .. 8 : hold'[a] \ {s} \subseteq hold[a]
    BY <1>5 DEF hold
  <2>2. \A a \in 1 .. 8 : a # 7 => s \notin hold'[a]
    BY <1>5, <1>6 DEF hold
  <2>3. s \in busy'
    BY <1>2, <1>5 DEF FrameInv, Within
  <2>4. busy \ {s} \subseteq busy'
    BY <1>2
  <2>5. Apart(hold) /\ Within(hold, busy)
    BY DEF FrameInv
  <2> QED
    BY ONLY <2>1, <2>2, <2>3, <2>4, <2>5, HoldMoves
<1>8. FrameTypes'
  BY <1>1, <1>2, <1>3 DEF FrameInv, FrameTypes
<1>9. Kinds'
  BY <1>5 DEF FrameInv, Kinds, hold
<1>10. Pointers'
  BY <1>1, <1>2 DEF FrameInv, FrameTypes, Pointers, ThreadInv, ControlTypes, Units
<1>11. RefInv'
  BY <1>2, <1>5 DEF FrameInv, RefInv, hold
<1>12. Astray' = Astray
  <2>1. \A a \in 1 .. 8 : hold'[a] \ {s} = hold[a] \ {s}
    BY <1>5 DEF hold
  <2>2. busy' \ {s} = busy \ {s}
    BY <1>2
  <2>3. /\ s \notin busy \/ \E a \in 1 .. 8 : s \in hold[a]
        /\ s \notin busy' \/ \E a \in 1 .. 8 : s \in hold'[a]
    BY <1>5, <1>5 DEF hold
  <2> QED
    BY ONLY <2>1, <2>2, <2>3, AstrayStays
<1> QED
  BY <1>12, <1>3, <1>7, <1>8, <1>9, <1>10, <1>11 DEF FrameInv

\* vf_file_unit_send_data gives its slot back.
LEMMA FileSendFrames ==
  ASSUME ThreadInv, FrameInv, FileSend
  PROVE  FrameInv' /\ Astray' = Astray
<1> DEFINE s == fb[4]
<1>1. /\ pc[4] = "send" /\ pc' = [pc EXCEPT ![4] = "loop"]
      /\ fb' = [fb EXCEPT ![4] = NULL]
      /\ s # NULL
      /\ busy' = busy \ {s}
      /\ UNCHANGED <<outFb, queue, refs>>
  BY DEF FileSend, ReleaseSlot, Goto, FileOut, FrameInv, Pointers
<1>2. hold[7] = {s}
  BY <1>1 DEF hold, Ptr
<1>3. s \in OutSlots /\ s \notin InSlots
  BY <1>2, SlotSets DEF FrameInv, Kinds
<1>4. \A a \in 1 .. 8 : a # 7 => s \notin hold[a]
  BY <1>2, HeldOnce
<1>5. Pointers'
  BY <1>1 DEF FrameInv, FrameTypes, Pointers, ThreadInv, ControlTypes, Units
<1>6. fb'[1] = fb[1] /\ fb'[2] = fb[2] /\ fb'[3] = fb[3] /\ fb'[4] = NULL
  BY <1>1 DEF FrameInv, FrameTypes, Units
<1> HIDE DEF s
<1>7. hold' = [hold EXCEPT ![7] = {}]
  BY <1>1, <1>6 DEF hold, Ptr
<1>8. \A a \in 1 .. 8 : s \notin hold'[a]
  BY <1>4, <1>7 DEF hold
<1>9. Apart(hold)' /\ Within(hold, busy)'
  <2>1. \A a \in 1 .. 8 : hold'[a] \ {s} \subseteq hold[a]
    BY <1>7 DEF hold
  <2>2. busy \ {s} \subseteq busy'
    BY <1>1
  <2>3. Apart(hold) /\ Within(hold, busy)
    BY DEF FrameInv
  <2> QED
    BY ONLY <1>8, <2>1, <2>2, <2>3, HoldMoves
<1>10. FrameTypes'
  BY <1>1 DEF FrameInv, FrameTypes
<1>11. Repeats'
  BY <1>1 DEF FrameInv, Repeats
<1>12. Kinds'
  BY <1>7 DEF FrameInv, Kinds, hold
<1>13. RefInv'
  BY <1>1, <1>3, <1>7 DEF FrameInv, RefInv, hold
<1>14. Astray' = Astray
  <2>1. \A a \in 1 .. 8 : hold'[a] \ {s} = hold[a] \ {s}
    BY <1>2, <1>7 DEF hold
  <2>2. busy' \ {s} = busy \ {s}
    BY <1>1
  <2>3. /\ s \notin busy \/ \E a \in 1 .. 8 : s \in hold[a]
        /\ s \notin busy' \/ \E a \in 1 .. 8 : s \in hold'[a]
    BY <1>2, <1>1 DEF hold
  <2> QED
    BY ONLY <2>1, <2>2, <2>3, AstrayStays
<1> QED
  BY <1>14, <1>5, <1>9, <1>10, <1>11, <1>12, <1>13 DEF FrameInv

\* The head of the loop clears a pointer; only the conversion unit's can hold
\* a slot there, which is in no place from then on.
LEMMA BeginRunFrames ==
  ASSUME ThreadInv, FrameInv, NEW u \in Units, BeginRun(u)
  PROVE  FrameInv'
<1>1. /\ pc[u] = "loop"
      /\ UNCHANGED <<busy, queue, outFb, refs>>
      /\ \/ fb' = [fb EXCEPT ![u] = NULL] /\ pc' = [pc EXCEPT ![u] = "get"]
         \/ fb' = fb /\ pc' = [pc EXCEPT ![u] = "done"]
  BY DEF BeginRun, Goto, pools
<1>2. \A v \in Units : fb'[v] = fb[v] \/ fb'[v] = NULL
  BY <1>1 DEF FrameInv, FrameTypes
<1>3. \A a \in 1 .. 8 : hold'[a] \subseteq hold[a]
  <2>1. \A v \in Units : Ptr(fb'[v]) \subseteq Ptr(fb[v])
    BY <1>2 DEF Ptr
  <2> QED
    BY <1>1, <2>1 DEF hold, Units
<1>4. Apart(hold)' /\ Within(hold, busy)'
  BY <1>1, <1>3 DEF FrameInv, Apart, Within
<1>5. FrameTypes'
  BY <1>1, <1>2 DEF FrameInv, FrameTypes
<1>6. Repeats'
  BY <1>1 DEF FrameInv, Repeats
<1>7. Kinds'
  BY <1>3 DEF FrameInv, Kinds
<1>8. Pointers'
  BY <1>1 DEF FrameInv, FrameTypes, Pointers, ThreadInv, ControlTypes, Units
<1>9. RefInv'
  BY <1>1, <1>3 DEF FrameInv, RefInv
<1> QED
  BY <1>4, <1>5, <1>6, <1>7, <1>8, <1>9 DEF FrameInv

\* Steps that leave the frames alone: a thread that gives up or ends, the
\* start of one, and whatever the controller does to flags.
LEMMA StillFrames ==
  ASSUME ThreadInv, FrameInv, UNCHANGED <<busy, queue, fb, outFb, refs>>,
         \/ UNCHANGED pc
         \/ \E u \in Units :
               \/ pc[u] = "none" /\ pc' = [pc EXCEPT ![u] = "loop"]
               \/ pc[u] = "done" /\ pc' = [pc EXCEPT ![u] = "none"]
               \/ pc[u] \in {"get", "process"} /\ pc' = [pc EXCEPT ![u] = "done"]
  PROVE  FrameInv'
<1>1. Pointers'
  BY DEF FrameInv, Pointers, ThreadInv, ControlTypes, Units
<1>2. hold' = hold
  BY DEF hold
<1>3. FrameTypes' /\ Repeats'
  BY DEF FrameInv, FrameTypes, Repeats
<1> QED
  BY <1>1, <1>2, <1>3 DEF FrameInv, Apart, Within, Kinds, RefInv

LEMMA GiveUpFrames ==
  ASSUME ThreadInv, FrameInv, NEW u \in Units, GiveUp(u)
  PROVE  FrameInv'
<1>1. /\ pc[u] \in {"get", "process"} /\ pc' = [pc EXCEPT ![u] = "done"]
      /\ UNCHANGED <<busy, queue, fb, outFb, refs>>
  BY DEF GiveUp, Goto, Conversion, pools, frames
<1> QED
  BY <1>1, StillFrames

LEMMA UnitFrames ==
  ASSUME ThreadInv, FrameInv, NEW u \in Units, UnitStep(u)
  PROVE  FrameInv'
<1>1. CASE BeginRun(u)
  BY <1>1, BeginRunFrames
<1>2. CASE GiveUp(u)
  BY <1>2, GiveUpFrames
<1>3. CASE CameraGet \/ CameraSend
  BY <1>3, CameraGetFrames, CameraSendFrames
<1>4. CASE ProviderGet \/ ProviderSend
  BY <1>4, ProviderGetFrames, ProviderSendFrames
<1>5. CASE ConversionGet \/ ConversionProcess \/ ConversionSend \/ ConversionUnref
  BY <1>5, ConversionGetFrames, ConversionProcessFrames, ConversionSendFrames,
     ConversionUnrefFrames
<1>6. CASE FileGet \/ FileSend
  BY <1>6, FileGetFrames, FileSendFrames
<1> QED
  BY <1>1, <1>2, <1>3, <1>4, <1>5, <1>6 DEF UnitStep

LEMMA ControlFrames ==
  ASSUME ThreadInv, FrameInv, ServiceStart \/ ServiceStop \/ ControlStep
  PROVE  FrameInv'
<1>1. UNCHANGED <<busy, queue, fb, outFb, refs>>
  BY DEF ServiceStart, ServiceStop, ControlStep, UnitStart, UnitStartFails, StopOutPool,
         UnitStopClear, UnitStopWake, UnitStopJoin, pools, frames
<1>2. CASE UnitStart
  <2>1. ctl.unit \in Units /\ pc[ctl.unit] = "none" /\ pc' = [pc EXCEPT ![ctl.unit] = "loop"]
    BY <1>2 DEF UnitStart, ThreadInv, Accounts, Gone, Units
  <2> QED
    BY <1>1, <2>1, StillFrames
<1>3. CASE UnitStopJoin
  <2>1. ctl.unit \in Units /\ pc[ctl.unit] = "done" /\ pc' = [pc EXCEPT ![ctl.unit] = "none"]
    <3>1. ctl.step = "join"
      BY <1>3 DEF UnitStopJoin
    <3>2. Tearing
      BY <3>1 DEF ThreadInv, Accounts
    <3> QED
      BY <1>3, <3>2 DEF UnitStopJoin, Goto, ThreadInv, Accounts
  <2> QED
    BY <1>1, <2>1, StillFrames
<1>4. CASE ServiceStart \/ ServiceStop \/ UnitStartFails \/ StopOutPool \/ UnitStopClear
           \/ UnitStopWake
  <2>1. UNCHANGED pc
    BY <1>4 DEF ServiceStart, ServiceStop, UnitStartFails, StopOutPool, UnitStopClear,
                UnitStopWake, threads
  <2> QED
    BY <1>1, <2>1, StillFrames
<1> QED
  BY <1>2, <1>3, <1>4 DEF ControlStep

LEMMA InitFrames == Init => FrameInv
<1> SUFFICES ASSUME Init PROVE FrameInv
  OBVIOUS
<1>1. /\ busy = {} /\ outFb = 0
      /\ queue = [q \in Queues |-> << >>]
      /\ pc = [u \in Units |-> "none"]
      /\ fb = [u \in Units |-> 0]
      /\ refs = [r \in InSlots |-> 0]
  BY DEF Init, NULL
<1>2. hold = << {}, {}, {}, {}, {}, {}, {}, {} >>
  BY <1>1 DEF hold, Slots, Ptr, NULL, Queues, Units
<1>3. FrameTypes
  BY <1>1 DEF FrameTypes, NULL
<1>4. Repeats
  BY <1>1 DEF Repeats, NoRepeat
<1>5. Pointers
  BY <1>1 DEF Pointers, Units, NULL
<1>6. Apart(hold) /\ Within(hold, busy) /\ Kinds
  BY <1>2 DEF Apart, Within, Kinds
<1>7. RefInv
  BY <1>1, <1>2 DEF RefInv
<1> QED
  BY <1>3, <1>4, <1>5, <1>6, <1>7 DEF FrameInv

LEMMA NextFrames == ThreadInv /\ FrameInv /\ [Next]_vars => FrameInv'
<1> SUFFICES ASSUME ThreadInv, FrameInv, [Next]_vars PROVE FrameInv'
  OBVIOUS
<1>1. CASE \E u \in Units : UnitStep(u)
  BY <1>1, UnitFrames
<1>2. CASE ServiceStart \/ ServiceStop \/ ControlStep
  BY <1>2, ControlFrames
<1>3. CASE UNCHANGED vars
  BY <1>3, StillFrames DEF vars
<1> QED
  BY <1>1, <1>2, <1>3 DEF Next

LEMMA FrameInvariant == Spec => []FrameInv
  BY InitFrames, NextFrames, ThreadInvariant, PTL DEF Spec

-----------------------------------------------------------------------------

LEMMA ConcatSlots ==
  ASSUME NEW S, NEW s \in Seq(S), NEW t \in Seq(S), NoRepeat(s), NoRepeat(t),
         Slots(s) \cap Slots(t) = {}
  PROVE  /\ s \o t \in Seq(S)
         /\ Slots(s \o t) = Slots(s) \cup Slots(t)
         /\ NoRepeat(s \o t)
<1> DEFINE r == s \o t
           m == Len(s)
           n == Len(t)
<1>1. /\ r \in Seq(S) /\ Len(r) = m + n
      /\ \A i \in 1 .. m + n : r[i] = IF i <= m THEN s[i] ELSE t[i - m]
      /\ m \in Nat /\ n \in Nat
  BY ConcatProperties, LenProperties
<1> HIDE DEF r
<1>2. \A i \in 1 .. m : i \in 1 .. m + n /\ r[i] = s[i]
  BY <1>1
<1>3. ASSUME NEW i \in 1 .. n
      PROVE  i + m \in 1 .. m + n /\ r[i + m] = t[i]
  <2>1. i + m \in 1 .. m + n /\ ~(i + m <= m) /\ (i + m) - m = i
    BY <1>1
  <2> QED
    BY <1>1, <2>1
<1>4. \A i \in 1 .. m + n : \/ i \in 1 .. m
                            \/ i - m \in 1 .. n /\ i = (i - m) + m /\ ~(i <= m)
  BY <1>1
<1>5. Slots(r) \subseteq Slots(s) \cup Slots(t)
  <2>1. ASSUME NEW i \in 1 .. m + n
        PROVE  r[i] \in Slots(s) \cup Slots(t)
    <3>1. CASE i \in 1 .. m
      BY <1>2, <3>1 DEF Slots
    <3>2. CASE i - m \in 1 .. n /\ ~(i <= m)
      BY <1>1, <3>2 DEF Slots
    <3> QED
      BY <1>4, <3>1, <3>2
  <2> QED
    BY <1>1, <2>1 DEF Slots
<1>6. Slots(s) \subseteq Slots(r)
  BY <1>1, <1>2 DEF Slots
<1>7. Slots(t) \subseteq Slots(r)
  BY <1>1, <1>3 DEF Slots
<1>8. ASSUME NEW i \in 1 .. m + n, NEW j \in 1 .. m + n, i # j
      PROVE  r[i] # r[j]
  <2>1. CASE i \in 1 .. m /\ j \in 1 .. m
    BY <1>2, <1>8, <2>1 DEF NoRepeat
  <2>2. CASE i - m \in 1 .. n /\ j - m \in 1 .. n
    <3>1. i - m # j - m /\ r[i] = t[i - m] /\ r[j] = t[j - m]
      BY <1>1, <1>8, <2>2
    <3> QED
      BY <2>2, <3>1 DEF NoRepeat
  <2>3. CASE i \in 1 .. m /\ j - m \in 1 .. n
    <3>1. r[i] \in Slots(s) /\ r[j] \in Slots(t)
      BY <1>1, <2>3 DEF Slots
    <3> QED
      BY <3>1
  <2>4. CASE i - m \in 1 .. n /\ j \in 1 .. m
    <3>1. r[i] \in Slots(t) /\ r[j] \in Slots(s)
      BY <1>1, <2>4 DEF Slots
    <3> QED
      BY <3>1
  <2> QED
    BY <1>4, <2>1, <2>2, <2>3, <2>4
<1>9. NoRepeat(r)
  BY <1>1, <1>8 DEF NoRepeat
<1> QED
  BY <1>1, <1>5, <1>6, <1>7, <1>9 DEF r

LEMMA PtrSeq ==
  ASSUME NEW s \in AllSlots \cup {NULL}
  PROVE  /\ AtMostOne(s) \in Seq(AllSlots)
         /\ Slots(AtMostOne(s)) = Ptr(s)
         /\ NoRepeat(AtMostOne(s))
<1>1. CASE s = NULL
  BY <1>1, EmptySeq DEF AtMostOne, Slots, Ptr, NoRepeat
<1>2. CASE s # NULL
  <2>1. AtMostOne(s) = <<s>> /\ s \in AllSlots /\ Ptr(s) = {s}
    BY <1>2 DEF AtMostOne, Ptr
  <2>2. Len(<<s>>) = 1 /\ <<s>>[1] = s /\ <<s>> \in Seq(AllSlots)
    BY <2>1
  <2>3. Slots(<<s>>) = {s} /\ NoRepeat(<<s>>)
    BY <2>2 DEF Slots, NoRepeat
  <2> QED
    BY <2>1, <2>2, <2>3
<1> QED
  BY <1>1, <1>2

\* The conversion unit's input frame is in the pipeline or beside it.
Beside == IF pc[3] = "unref" THEN AtMostOne(fb[3]) ELSE << >>

LEMMA ConversionPtr ==
  ASSUME FrameInv
  PROVE  /\ Unconverted \in Seq(AllSlots) /\ NoRepeat(Unconverted)
         /\ Beside \in Seq(AllSlots) /\ NoRepeat(Beside)
         /\ Slots(Unconverted) \cap Slots(Beside) = {}
         /\ Slots(Unconverted) \cup Slots(Beside) = hold[6]
<1>1. /\ AtMostOne(fb[3]) \in Seq(AllSlots) /\ NoRepeat(AtMostOne(fb[3]))
      /\ Slots(AtMostOne(fb[3])) = hold[6]
  BY PtrSeq DEF FrameInv, FrameTypes, Units, hold
<1>2. << >> \in Seq(AllSlots) /\ NoRepeat(<< >>) /\ Slots(<< >>) = {}
  BY EmptySeq DEF Slots, NoRepeat
<1> QED
  BY <1>1, <1>2 DEF Unconverted, Beside, Conversion

\* The pipeline, as a sequence, holds exactly what the places hold.
LEMMA PlacesHold ==
  ASSUME FrameInv
  PROVE  /\ Places \in Seq(AllSlots)
         /\ NoRepeat(Places)
         /\ Slots(Places) = hold[1] \cup hold[2] \cup hold[3] \cup hold[4]
                               \cup hold[5] \cup hold[6] \cup hold[7] \cup hold[8]
         /\ Pipeline \in Seq(AllSlots)
         /\ NoRepeat(Pipeline)
<1> DEFINE p1 == AtMostOne(fb[4])
           p2 == p1 \o queue[3]
           p3 == p2 \o Unconverted
           p4 == p3 \o queue[2]
           p5 == p4 \o AtMostOne(fb[2])
           p6 == p5 \o queue[1]
           p7 == p6 \o AtMostOne(fb[1])
           p8 == p7 \o AtMostOne(outFb)
<1>1. Places = p8 \o Beside /\ Pipeline = p7
  BY DEF Places, Pipeline, Beside, FileOut, Provider, Camera, Conversion
<1>2. /\ p1 \in Seq(AllSlots) /\ NoRepeat(p1) /\ Slots(p1) = hold[7]
      /\ AtMostOne(fb[2]) \in Seq(AllSlots) /\ NoRepeat(AtMostOne(fb[2]))
      /\ Slots(AtMostOne(fb[2])) = hold[5]
      /\ AtMostOne(fb[1]) \in Seq(AllSlots) /\ NoRepeat(AtMostOne(fb[1]))
      /\ Slots(AtMostOne(fb[1])) = hold[4]
  BY PtrSeq DEF FrameInv, FrameTypes, Units, hold
<1>3. /\ AtMostOne(outFb) \in Seq(AllSlots) /\ NoRepeat(AtMostOne(outFb))
      /\ Slots(AtMostOne(outFb)) = hold[8]
  <2>1. outFb \in AllSlots \cup {NULL}
    BY SlotSets DEF FrameInv, FrameTypes
  <2> QED
    BY <2>1, PtrSeq DEF hold
<1>4. /\ queue[1] \in Seq(AllSlots) /\ NoRepeat(queue[1]) /\ Slots(queue[1]) = hold[1]
      /\ queue[2] \in Seq(AllSlots) /\ NoRepeat(queue[2]) /\ Slots(queue[2]) = hold[2]
      /\ queue[3] \in Seq(AllSlots) /\ NoRepeat(queue[3]) /\ Slots(queue[3]) = hold[3]
  BY DEF FrameInv, FrameTypes, Repeats, Queues, hold
<1>5. /\ Unconverted \in Seq(AllSlots) /\ NoRepeat(Unconverted)
      /\ Beside \in Seq(AllSlots) /\ NoRepeat(Beside)
      /\ Slots(Unconverted) \cap Slots(Beside) = {}
      /\ Slots(Unconverted) \cup Slots(Beside) = hold[6]
  BY ConversionPtr
<1>6. Apart(hold)
  BY DEF FrameInv
<1> HIDE DEF p1
<1>7. p2 \in Seq(AllSlots) /\ NoRepeat(p2) /\ Slots(p2) = hold[7] \cup hold[3]
  <2>1. hold[7] \cap hold[3] = {}
    BY <1>6 DEF Apart
  <2> QED
    BY <1>2, <1>4, <2>1, ConcatSlots
<1> HIDE DEF p2
<1>8. /\ p3 \in Seq(AllSlots) /\ NoRepeat(p3)
      /\ Slots(p3) = Slots(p2) \cup Slots(Unconverted)
  <2>1. Slots(p2) \cap hold[6] = {}
    BY <1>6, <1>7 DEF Apart
  <2>2. Slots(p2) \cap Slots(Unconverted) = {}
    BY <1>5, <2>1
  <2> QED
    BY <1>5, <1>7, <2>2, ConcatSlots
<1> HIDE DEF p3
<1>9. /\ p4 \in Seq(AllSlots) /\ NoRepeat(p4)
      /\ Slots(p4) = Slots(p3) \cup hold[2]
  <2>1. (Slots(p2) \cup hold[6]) \cap hold[2] = {}
    BY <1>6, <1>7 DEF Apart
  <2>2. Slots(p3) \cap Slots(queue[2]) = {}
    BY <1>4, <1>5, <1>8, <2>1
  <2> QED
    BY <1>4, <1>8, <2>2, ConcatSlots
<1> HIDE DEF p4
<1>10. /\ p5 \in Seq(AllSlots) /\ NoRepeat(p5)
       /\ Slots(p5) = Slots(p4) \cup hold[5]
  <2>1. (Slots(p2) \cup hold[6] \cup hold[2]) \cap hold[5] = {}
    BY <1>6, <1>7 DEF Apart
  <2>2. Slots(p4) \cap hold[5] = {}
    BY <1>5, <1>8, <1>9, <2>1
  <2> QED
    BY <1>2, <1>9, <2>2, ConcatSlots
<1> HIDE DEF p5
<1>11. /\ p6 \in Seq(AllSlots) /\ NoRepeat(p6)
       /\ Slots(p6) = Slots(p5) \cup hold[1]
  <2>1. (Slots(p2) \cup hold[6] \cup hold[2] \cup hold[5]) \cap hold[1] = {}
    BY <1>6, <1>7 DEF Apart
  <2>2. Slots(p5) \cap Slots(queue[1]) = {}
    BY <1>4, <1>5, <1>8, <1>9, <1>10, <2>1
  <2> QED
    BY <1>4, <1>10, <2>2, ConcatSlots
<1> HIDE DEF p6
<1>12. /\ p7 \in Seq(AllSlots) /\ NoRepeat(p7)
       /\ Slots(p7) = Slots(p6) \cup hold[4]
  <2>1. (Slots(p2) \cup hold[6] \cup hold[2] \cup hold[5] \cup hold[1]) \cap hold[4] = {}
    BY <1>6, <1>7 DEF Apart
  <2>2. Slots(p6) \cap hold[4] = {}
    BY <1>5, <1>8, <1>9, <1>10, <1>11, <2>1
  <2> QED
    BY <1>2, <1>11, <2>2, ConcatSlots
<1> HIDE DEF p7
<1>13. /\ p8 \in Seq(AllSlots) /\ NoRepeat(p8)
       /\ Slots(p8) = Slots(p7) \cup hold[8]
  <2>1. (Slots(p2) \cup hold[6] \cup hold[2] \cup hold[5] \cup hold[1] \cup hold[4])
           \cap hold[8] = {}
    BY <1>6, <1>7 DEF Apart
  <2>2. Slots(p7) \cap hold[8] = {}
    BY <1>5, <1>8, <1>9, <1>10, <1>11, <1>12, <2>1
  <2> QED
    BY <1>3, <1>12, <2>2, ConcatSlots
<1> HIDE DEF p8
<1>14. Slots(p8) \cap Slots(Beside) = {}
  <2>1. (hold[7] \cup hold[3] \cup hold[2] \cup hold[5] \cup hold[1] \cup hold[4] \cup hold[8])
           \cap hold[6] = {}
    BY <1>6 DEF Apart
  <2> QED
    BY <1>5, <1>7, <1>8, <1>9, <1>10, <1>11, <1>12, <1>13, <2>1
<1>15. /\ Places \in Seq(AllSlots) /\ NoRepeat(Places)
       /\ Slots(Places) = Slots(p8) \cup Slots(Beside)
  BY <1>1, <1>5, <1>13, <1>14, ConcatSlots
<1> QED
  BY <1>1, <1>5, <1>7, <1>8, <1>9, <1>10, <1>11, <1>12, <1>13, <1>15

-----------------------------------------------------------------------------

LEMMA OwnedHolds == FrameInv => FramesOwned
<1> SUFFICES ASSUME FrameInv PROVE FramesOwned
  OBVIOUS
<1>1. /\ Places \in Seq(AllSlots) /\ NoRepeat(Places)
      /\ Slots(Places) \subseteq busy
  BY PlacesHold DEF FrameInv, Within
<1>2. DOMAIN Places = 1 .. Len(Places)
  BY <1>1, LenProperties
<1> QED
  BY <1>1, <1>2 DEF FramesOwned, Reachable, Slots, NoRepeat

LEMMA RefsHold == FrameInv => RefsMatchHolders
<1> SUFFICES ASSUME FrameInv, NEW s \in InSlots \cap Reachable
             PROVE  refs[s] = IF \/ s \in {fb[2], fb[3]}
                                 \/ \E i \in DOMAIN queue[2] : queue[2][i] = s
                              THEN 1
                              ELSE 0
  BY DEF RefsMatchHolders, CONSUMER_COUNT, Provider, Conversion
<1>1. s \in hold[1] \cup hold[2] \cup hold[4] \cup hold[5] \cup hold[6]
  <2>1. Places \in Seq(AllSlots)
    BY PlacesHold
  <2>2. s \in Slots(Places)
    BY <2>1, LenProperties DEF Reachable, Slots
  <2>3. s \notin hold[3] \cup hold[7] \cup hold[8]
    BY SlotSets DEF FrameInv, Kinds
  <2> QED
    BY <2>2, <2>3, PlacesHold
<1>2. s # NULL
  BY SlotSets
<1>3. /\ s = fb[2] <=> s \in hold[5]
      /\ s = fb[3] <=> s \in hold[6]
  BY <1>2 DEF hold, Ptr
<1>4. (\E i \in DOMAIN queue[2] : queue[2][i] = s) <=> s \in hold[2]
  <2>1. queue[2] \in Seq(AllSlots)
    BY DEF FrameInv, FrameTypes, Queues
  <2>2. DOMAIN queue[2] = 1 .. Len(queue[2])
    BY <2>1, LenProperties
  <2> QED
    BY <2>2 DEF hold, Slots
<1>5. CASE s \in hold[2] \cup hold[5] \cup hold[6]
  BY <1>3, <1>4, <1>5 DEF FrameInv, RefInv
<1>6. CASE s \in hold[1] \cup hold[4]
  <2>1. s \notin hold[2] \cup hold[5] \cup hold[6]
    BY <1>6 DEF FrameInv, Apart
  <2>2. refs[s] = 0
    BY <1>6 DEF FrameInv, RefInv
  <2> QED
    BY <1>3, <1>4, <2>1, <2>2
<1> QED
  BY <1>1, <1>5, <1>6

\* Frames without repetition among n slots, one of which is elsewhere, are
\* fewer than n.
LEMMA FewerThanSlots ==
  ASSUME NEW a \in Nat, NEW b \in Nat, a <= b, NEW s \in a .. b,
         NEW seq \in Seq(a .. b), NoRepeat(seq), s \notin Slots(seq)
  PROVE  Len(seq) < (b - a) + 1
<1> DEFINE T == (a .. b) \ {s}
<1>1. IsFiniteSet(a .. b) /\ Cardinality(a .. b) = (b - a) + 1
  BY FS_Interval
<1>2. IsFiniteSet(T) /\ Cardinality(T) = ((b - a) + 1) - 1
  BY <1>1, FS_RemoveElement
<1>3. Len(seq) \in Nat /\ seq \in [1 .. Len(seq) -> a .. b]
  BY LenProperties
<1>4. seq \in Injection(1 .. Len(seq), T)
  <2>1. seq \in [1 .. Len(seq) -> T]
    BY <1>3 DEF Slots
  <2>2. IsInjective(seq)
    BY <1>3 DEF IsInjective, NoRepeat
  <2> QED
    BY <2>1, <2>2 DEF Injection
<1> HIDE DEF T
<1>5. Cardinality(1 .. Len(seq)) <= Cardinality(T)
  BY <1>2, <1>4, FS_Injection
<1>6. Cardinality(1 .. Len(seq)) = Len(seq)
  <2>1. PICK n \in Int : n = Len(seq) /\ n >= 0
    <3>1. Len(seq) \in Nat
      BY LenProperties
    <3> QED
      BY <3>1
  <2>2. Cardinality(1 .. n) = IF 1 > n THEN 0 ELSE (n - 1) + 1
    BY FS_Interval
  <2> QED
    BY <2>1, <2>2
<1> QED
  BY <1>2, <1>3, <1>5, <1>6

LEMMA SlotsAreSeq ==
  ASSUME NEW S, NEW T, NEW seq \in Seq(S), Slots(seq) \subseteq T
  PROVE  seq \in Seq(T)
<1>1. Len(seq) \in Nat /\ seq \in [1 .. Len(seq) -> S]
  BY LenProperties
<1>2. seq \in [1 .. Len(seq) -> T]
  BY <1>1 DEF Slots
<1> QED
  BY <1>1, <1>2, SeqDef

LEMMA RoomHolds ==
  ASSUME PoolSlots <= QueueCapacity, FrameInv
  PROVE  QueueHasRoom
<1> SUFFICES ASSUME NEW u \in Queues, pc[u] = "send"
             PROVE  Len(queue[u]) < QueueCapacity
  BY DEF QueueHasRoom, Room
<1>1. PoolSlots \in Nat /\ PoolSlots > 0 /\ QueueCapacity \in Nat
  BY ServiceAssumption
<1>2. queue[u] \in Seq(AllSlots) /\ NoRepeat(queue[u]) /\ Slots(queue[u]) = hold[u]
  BY DEF FrameInv, FrameTypes, Repeats, Queues, hold
<1>3. CASE u \in {1, 2}
  <2>1. PICK s \in InSlots : s \notin hold[u]
    <3>1. fb[u] # NULL
      BY <1>3 DEF FrameInv, Pointers
    <3>2. hold[u + 3] = {fb[u]}
      BY <1>3, <3>1 DEF hold, Ptr
    <3>3. hold[u + 3] \subseteq InSlots /\ u + 3 \in 1 .. 8 /\ u \in 1 .. 8 /\ u + 3 # u
      BY <1>3 DEF FrameInv, Kinds
    <3>4. hold[u] \cap hold[u + 3] = {}
      BY <3>3 DEF FrameInv, Apart
    <3> QED
      BY <3>2, <3>3, <3>4
  <2>2. hold[u] \subseteq 1 .. PoolSlots
    BY <1>3 DEF FrameInv, Kinds, InSlots
  <2>3. queue[u] \in Seq(1 .. PoolSlots)
    BY <1>2, <2>2, SlotsAreSeq
  <2>4. Len(queue[u]) < (PoolSlots - 1) + 1
    BY <1>1, <1>2, <2>1, <2>3, FewerThanSlots DEF InSlots
  <2> QED
    BY <1>1, <1>2, <2>4, LenProperties
<1>4. CASE u = 3
  <2>1. PICK s \in OutSlots : s \notin hold[3]
    <3>1. outFb # NULL
      BY <1>4 DEF FrameInv, Pointers
    <3>2. hold[8] = {outFb}
      BY <3>1 DEF hold, Ptr
    <3> QED
      BY <3>2 DEF FrameInv, Apart, Kinds
  <2>2. queue[3] \in Seq(AllSlots) /\ Slots(queue[3]) \subseteq OutSlots
    BY <1>2, <1>4 DEF FrameInv, Kinds
  <2>3. queue[3] \in Seq(PoolSlots + 1 .. 2 * PoolSlots)
    <3>1. queue[3] \in Seq(OutSlots)
      BY <2>2, SlotsAreSeq
    <3> QED
      BY <3>1 DEF OutSlots
  <2>4. Len(queue[3]) < (2 * PoolSlots - (PoolSlots + 1)) + 1
    BY <1>1, <1>2, <1>4, <2>1, <2>3, FewerThanSlots DEF OutSlots
  <2> QED
    BY <1>1, <1>2, <1>4, <2>4, LenProperties
<1> QED
  BY <1>3, <1>4 DEF Queues

-----------------------------------------------------------------------------

\* The conversion unit is about to enter its loop with a frame in its input
\* pointer, which get_data will overwrite: a stop has left it there.
AtRisk ==
    /\ fb[3] # NULL
    /\ pc[3] = "loop" \/ (ctl.phase = "starting" /\ pc[3] = "none")

LossInv ==
    /\ Astray \subseteq InSlots
    /\ starts \in Nat
    /\ starts > 0 => Cardinality(Astray) + (IF AtRisk THEN 1 ELSE 0) < starts
    /\ starts = 0 => /\ Astray = {}
                     /\ fb[3] = NULL
                     /\ \A u \in Units : pc[u] = "none"
                     /\ ctl.phase \in {"stopped", "stopping"}

LEMMA AstrayFinite ==
  ASSUME Astray \subseteq InSlots
  PROVE  IsFiniteSet(Astray) /\ Cardinality(Astray) \in Nat
<1>1. IsFiniteSet(InSlots)
  BY ServiceAssumption, FS_Interval DEF InSlots
<1> QED
  BY <1>1, FS_Subset, FS_CardinalityType

\* Steps that lose nothing and put nothing at risk.
LEMMA NoLoss ==
  ASSUME LossInv, starts > 0, UNCHANGED starts, Astray' = Astray, AtRisk' => AtRisk
  PROVE  LossInv'
  BY AstrayFinite DEF LossInv

\* The conversion unit's thread.
LEMMA ConversionLoss ==
  ASSUME PoolSlots <= QueueCapacity, ThreadInv, FrameInv, LossInv, starts > 0, UnitStep(3)
  PROVE  LossInv'
<1>1. UNCHANGED starts
  BY DEF UnitStep, BeginRun, GiveUp, CameraGet, CameraSend, ProviderGet, ProviderSend,
         ConversionGet, ConversionProcess, ConversionSend, ConversionUnref, FileGet,
         FileSend, control
<1>2. pc'[3] # "none"
  <2>1. 3 \in Units
    BY DEF Units
  <2>2. \E to \in {"loop", "get", "process", "send", "unref", "done"} :
           pc' = [pc EXCEPT ![3] = to]
    BY <2>1, UnitStepKeepsThread DEF ThreadInv
  <2> QED
    BY <2>1, <2>2 DEF ThreadInv, ControlTypes
<1>3. CASE BeginRun(3)
  <2>1. /\ pc[3] = "loop" /\ pc'[3] \in {"get", "done"}
        /\ UNCHANGED <<busy, queue, outFb>>
        /\ fb' = fb \/ fb' = [fb EXCEPT ![3] = NULL]
    BY <1>3 DEF BeginRun, Goto, pools, ThreadInv, ControlTypes, Units
  <2>2. ~AtRisk'
    BY <1>2, <2>1 DEF AtRisk
  <2>3. CASE fb' = fb \/ fb[3] = NULL
    <3>1. fb' = fb
      BY <2>1, <2>3 DEF FrameInv, FrameTypes, Units
    <3>2. hold' = hold
      BY <2>1, <3>1 DEF hold
    <3>3. Astray' = Astray
      BY <2>1, <3>2 DEF Astray
    <3> QED
      BY <1>1, <2>2, <3>3, NoLoss
  <2>4. CASE fb' = [fb EXCEPT ![3] = NULL] /\ fb[3] # NULL
    <3>1. fb'[1] = fb[1] /\ fb'[2] = fb[2] /\ fb'[3] = NULL /\ fb'[4] = fb[4]
      BY <2>4 DEF FrameInv, FrameTypes, Units
    <3>2. hold' = [hold EXCEPT ![6] = {}] /\ hold[6] = {fb[3]}
      BY <2>1, <2>4, <3>1 DEF hold, Ptr
    <3>3. Astray' \subseteq Astray \cup {fb[3]}
      <4>1. \A a \in 1 .. 8 : hold[a] \subseteq hold'[a] \cup {fb[3]}
        BY <3>2 DEF hold
      <4>2. busy' = busy
        BY <2>1
      <4> QED
        BY ONLY <4>1, <4>2 DEF Astray
    <3>4. fb[3] \in InSlots
      BY <3>2 DEF FrameInv, Kinds
    <3>5. /\ IsFiniteSet(Astray \cup {fb[3]})
          /\ Cardinality(Astray \cup {fb[3]}) <= Cardinality(Astray) + 1
      BY AstrayFinite, FS_AddElement DEF LossInv
    <3>6. Astray' \subseteq InSlots
      BY <3>3, <3>4 DEF LossInv
    <3>7. Cardinality(Astray') <= Cardinality(Astray \cup {fb[3]})
      BY <3>3, <3>5, FS_Subset
    <3>8. Cardinality(Astray') \in Nat /\ Cardinality(Astray \cup {fb[3]}) \in Nat
      <4>1. IsFiniteSet(Astray')
        BY <3>3, <3>5, FS_Subset
      <4> QED
        BY <3>5, <4>1, FS_CardinalityType
    <3>9. AtRisk
      BY <2>1, <2>4 DEF AtRisk
    <3>10. Cardinality(Astray) + 1 < starts /\ Cardinality(Astray) \in Nat
      BY <3>9, AstrayFinite DEF LossInv
    <3>11. starts' \in Nat /\ starts' > 0 /\ starts' = starts
      BY <1>1 DEF LossInv
    <3>12. Cardinality(Astray') + 0 < starts'
      BY <3>5, <3>7, <3>8, <3>10, <3>11
    <3> QED
      BY <2>2, <3>6, <3>11, <3>12 DEF LossInv
  <2> QED
    BY <2>1, <2>3, <2>4
<1>4. CASE GiveUp(3)
  <2>1. /\ pc'[3] = "done" /\ UNCHANGED <<busy, queue, fb, outFb>>
    BY <1>4 DEF GiveUp, Goto, pools, frames, ThreadInv, ControlTypes, Units
  <2>2. Astray' = Astray /\ ~AtRisk'
    BY <2>1 DEF Astray, hold, AtRisk
  <2> QED
    BY <1>1, <2>2, NoLoss
<1>5. CASE ConversionGet \/ ConversionProcess \/ ConversionUnref
  <2>1. Astray' = Astray
    BY <1>5, ConversionGetFrames, ConversionProcessFrames, ConversionUnrefFrames
  <2>2. pc'[3] \in {"process", "send"} \/ (pc'[3] = "loop" /\ fb'[3] = NULL)
    BY <1>5 DEF ConversionGet, ConversionProcess, ConversionUnref, Goto, Conversion,
                ThreadInv, ControlTypes, FrameInv, FrameTypes, Units
  <2>3. ~AtRisk'
    BY <2>2 DEF AtRisk
  <2> QED
    BY <1>1, <2>1, <2>3, NoLoss
<1>6. CASE ConversionSend
  <2>1. Astray' = Astray
    BY <1>6, ConversionSendFrames
  <2>2. Room(3)
    BY <1>6, RoomHolds DEF QueueHasRoom, ConversionSend, Goto, Conversion, Queues
  <2>3. pc'[3] = "unref"
    BY <1>6, <2>2 DEF ConversionSend, Goto, Conversion, ThreadInv, ControlTypes, Units
  <2>4. ~AtRisk'
    BY <2>3 DEF AtRisk
  <2> QED
    BY <1>1, <2>1, <2>4, NoLoss
<1> QED
  BY <1>3, <1>4, <1>5, <1>6 DEF UnitStep, Camera, Provider, Conversion, FileOut

LEMMA UnitLoss ==
  ASSUME PoolSlots <= QueueCapacity, ThreadInv, FrameInv, LossInv,
         NEW u \in Units, UnitStep(u)
  PROVE  LossInv'
<1>1. pc[u] # "none" /\ UNCHANGED ctl
  BY UnitStepKeepsThread DEF ThreadInv
<1>2. starts > 0
  BY <1>1 DEF LossInv
<1>3. CASE u = 3
  BY <1>2, <1>3, ConversionLoss
<1>4. CASE u \in {1, 2, 4}
  <2>1. /\ UNCHANGED starts
        /\ pc'[3] = pc[3] /\ fb'[3] = fb[3]
    BY <1>4 DEF UnitStep, BeginRun, GiveUp, CameraGet, CameraSend, ProviderGet,
                ProviderSend, FileGet, FileSend, Goto, control, frames, Camera, Provider,
                Conversion, FileOut, ThreadInv, ControlTypes, FrameInv, FrameTypes, Units
  <2>2. AtRisk' <=> AtRisk
    BY <1>1, <2>1 DEF AtRisk
  <2>3. Astray' = Astray
    <3>1. CASE BeginRun(u) \/ GiveUp(u)
      <4>1. UNCHANGED <<busy, queue, fb, outFb>>
        <5>1. CASE GiveUp(u)
          BY <5>1 DEF GiveUp, pools, frames
        <5>2. CASE BeginRun(u)
          <6>1. fb[u] = NULL
            BY <1>4, <5>2 DEF BeginRun, Goto, FrameInv, Pointers
          <6> QED
            BY <5>2, <6>1 DEF BeginRun, pools, FrameInv, FrameTypes
        <5> QED
          BY <3>1, <5>1, <5>2
      <4> QED
        BY <4>1 DEF Astray, hold
    <3>2. CASE CameraGet \/ CameraSend
      BY <3>2, CameraGetFrames, CameraSendFrames
    <3>3. CASE ProviderGet \/ ProviderSend
      BY <3>3, ProviderGetFrames, ProviderSendFrames
    <3>4. CASE FileGet \/ FileSend
      BY <3>4, FileGetFrames, FileSendFrames
    <3> QED
      BY <1>4, <3>1, <3>2, <3>3, <3>4 DEF UnitStep, Camera, Provider, Conversion, FileOut
  <2> QED
    BY <1>2, <2>1, <2>2, <2>3, NoLoss
<1> QED
  BY <1>3, <1>4 DEF Units

LEMMA ControlLoss ==
  ASSUME ThreadInv, FrameInv, LossInv, ServiceStart \/ ServiceStop \/ ControlStep
  PROVE  LossInv'
<1>1. UNCHANGED <<busy, queue, fb, outFb>>
  BY DEF ServiceStart, ServiceStop, ControlStep, UnitStart, UnitStartFails, StopOutPool,
         UnitStopClear, UnitStopWake, UnitStopJoin, pools, frames
<1>2. Astray' = Astray
  BY <1>1 DEF Astray, hold
<1>3. CASE ServiceStart
  <2>1. starts' = starts + 1 /\ UNCHANGED pc
    BY <1>3 DEF ServiceStart, threads
  <2>2. CASE starts > 0
    BY <1>2, <2>1, <2>2, AstrayFinite DEF LossInv
  <2>3. CASE starts = 0
    <3>1. Astray = {} /\ ~AtRisk' /\ Cardinality(Astray) = 0
      BY <1>1, <2>3, FS_EmptySet DEF LossInv, AtRisk
    <3> QED
      BY <1>2, <2>1, <2>3, <3>1 DEF LossInv
  <2> QED
    BY <2>2, <2>3 DEF LossInv
<1>4. CASE ServiceStop \/ ControlStep
  <2>1. UNCHANGED starts
    BY <1>4 DEF ServiceStop, ControlStep, UnitStart, UnitStartFails, StopOutPool,
                UnitStopClear, UnitStopWake, UnitStopJoin
  <2>2. /\ ctl'.phase = "starting" => ctl.phase = "starting"
        /\ UnitStart \/ (pc'[3] = "loop" => pc[3] = "loop")
        /\ UnitStart \/ UnitStopJoin \/ UNCHANGED pc
        /\ UnitStopJoin => ctl'.phase # "starting"
    BY <1>4 DEF ServiceStop, ControlStep, UnitStart, UnitStartFails, StopOutPool,
                UnitStopClear, UnitStopWake, UnitStopJoin, UnitStopReturns, Enter, Goto,
                threads, ThreadInv, ControlTypes, Accounts, Tearing, Units
  <2>3. UnitStart => /\ ctl.phase = "starting" /\ ctl.unit \in Units
                     /\ pc' = [pc EXCEPT ![ctl.unit] = "loop"]
                     /\ pc[ctl.unit] = "none"
    BY DEF UnitStart, ThreadInv, Accounts, Gone, Units
  <2>4. AtRisk' => AtRisk
    BY <1>1, <2>2, <2>3 DEF AtRisk, ThreadInv, ControlTypes, Units
  <2>5. CASE starts > 0
    BY <1>2, <2>1, <2>4, <2>5, NoLoss
  <2>6. CASE starts = 0
    <3>1. ~UnitStart /\ ~UnitStopJoin
      <4>1. ctl.phase \in {"stopped", "stopping"} /\ \A u \in Units : pc[u] = "none"
        BY <2>6 DEF LossInv
      <4>2. UnitStopJoin => pc[ctl.unit] = "done" /\ ctl.unit \in Units
        BY DEF UnitStopJoin, Goto, ThreadInv, Accounts
      <4> QED
        BY <2>3, <4>1, <4>2
    <3>2. ctl'.phase \in {"stopped", "stopping"}
      BY <1>4, <2>6, <3>1 DEF LossInv, ServiceStop, ControlStep, UnitStartFails,
                StopOutPool, UnitStopClear, UnitStopWake, UnitStopReturns, Enter
    <3> QED
      BY <1>1, <1>2, <2>1, <2>2, <2>6, <3>1, <3>2 DEF LossInv
  <2> QED
    BY <2>5, <2>6 DEF LossInv
<1> QED
  BY <1>3, <1>4

LEMMA LossStep ==
  ASSUME PoolSlots <= QueueCapacity, ThreadInv, FrameInv, LossInv, [Next]_vars
  PROVE  LossInv'
<1>1. CASE \E u \in Units : UnitStep(u)
  BY <1>1, UnitLoss
<1>2. CASE ServiceStart \/ ServiceStop \/ ControlStep
  BY <1>2, ControlLoss
<1>3. CASE UNCHANGED vars
  BY <1>3 DEF vars, LossInv, Astray, hold, AtRisk
<1> QED
  BY <1>1, <1>2, <1>3 DEF Next

LEMMA LossInit == Init => LossInv
<1> SUFFICES ASSUME Init PROVE LossInv
  OBVIOUS
<1>1. busy = {} /\ fb[3] = NULL /\ starts = 0 /\ ctl.phase = "stopped"
      /\ \A u \in Units : pc[u] = "none"
  BY DEF Init, Units
<1>2. Astray = {}
  BY <1>1 DEF Astray
<1> QED
  BY <1>1, <1>2 DEF LossInv

LEMMA LossHolds == FrameInv /\ LossInv => LossBounded
<1> SUFFICES ASSUME FrameInv, LossInv PROVE LossBounded
  OBVIOUS
<1>1. Reachable = Slots(Places)
  BY PlacesHold, LenProperties DEF Reachable, Slots
<1>2. Lost = Astray
  BY <1>1, PlacesHold DEF Lost, Astray
<1> QED
  BY <1>2, AstrayFinite DEF LossInv, LossBounded

-----------------------------------------------------------------------------

\* No two units ever have the same buffer: a frame is in one queue or in one
\* unit's pointer, and its slot stays marked as used until it is let go of,
\* so that vf_framebuffer_acquire_blocking hands out no buffer in use.
THEOREM ServiceFramesOwned == Spec => []FramesOwned
  BY FrameInvariant, OwnedHolds, PTL

\* A frame of pool_in carries one reference from the provider's get_data to
\* the conversion unit's unref and none before: vf_framebuffer_unref returns
\* the slot to its pool at the one call the pipeline makes for it.
THEOREM ServiceRefsMatch == Spec => []RefsMatchHolders
  BY FrameInvariant, RefsHold, PTL

\* When a pool has no more slots than a queue has places, as POOL_SLOT_COUNT
\* and VF_BUF_QUEUE_MAX_CAPACITY do, vf_buf_queue_push never finds its queue
\* full, and no unit drops a frame.
THEOREM ServiceQueueHasRoom ==
  ASSUME PoolSlots <= QueueCapacity
  PROVE  Spec => []QueueHasRoom
<1>1. FrameInv => QueueHasRoom
  BY RoomHolds
<1> QED
  BY <1>1, FrameInvariant, PTL

\* Restarts cost at most one slot of pool_in each, and none of pool_out: the
\* only frame a stop can strand is the conversion unit's input, and the only
\* place that forgets it is the head of the unit's loop after the next start.
THEOREM ServiceLossBounded ==
  ASSUME PoolSlots <= QueueCapacity
  PROVE  Spec => []LossBounded
<1>1. ThreadInv /\ FrameInv /\ LossInv /\ [Next]_vars => LossInv'
  BY LossStep
<1>2. Init => LossInv
  BY LossInit
<1>3. FrameInv /\ LossInv => LossBounded
  BY LossHolds
<1> QED
  BY <1>1, <1>2, <1>3, ThreadInvariant, FrameInvariant, PTL DEF Spec
=============================================================================
