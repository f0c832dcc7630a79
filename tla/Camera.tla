------------------------------- MODULE Camera -------------------------------
(***************************************************************************)
(* The V4L2 capture device and its user, libraries/vf_camera.              *)
(*                                                                         *)
(* Any request to the driver may fail.  camera_ioctl reports a failure as  *)
(* VF_ERROR_MIN, which has the value of VF_SUCCESS, so that its callers go *)
(* on as if the request had been carried out; what does fail is open,      *)
(* mmap, and the tests of what a request should have filled in.  The pixel *)
(* format that VIDIOC_S_FMT settles on is left out.                        *)
(***************************************************************************)
EXTENDS Naturals, Sequences, FiniteSets, SequencesExt

CONSTANTS BufferCount,  \* the number of buffers that VIDIOC_REQBUFS grants
          MaxRefused    \* bound: how many VIDIOC_QBUF requests fail

ASSUME CameraAssumption == BufferCount \in Nat \ {0} /\ MaxRefused \in Nat

Buffers == 0 .. BufferCount - 1   \* VF_CAMERA_DEFAULT_BUFFER_COUNT is 4

VARIABLES
    fd,         \* camera->fd: "open" or "closed"
    camState,   \* camera->state
    camAt,      \* how far vf_camera_init got, "none" outside it
    mapped,     \* the buffers whose start is mapped
    allocated,  \* driver: VIDIOC_REQBUFS has been granted
    streaming,  \* driver: between STREAMON and STREAMOFF
    queued,     \* driver: the buffers it may fill
    filled,     \* driver: the buffers it has filled, oldest first
    refused,    \* what MaxRefused bounds
    image       \* what the last frame returned with VF_SUCCESS shows

driver == <<allocated, streaming, queued, filled>>
camVars == <<fd, camState, camAt, mapped, allocated, streaming, queued, filled,
             refused, image>>

CameraInit == /\ fd = "closed"
              /\ camState = "STOPPED"
              /\ camAt = [op |-> "none", i |-> 0]
              /\ mapped = {}
              /\ allocated = FALSE
              /\ streaming = FALSE
              /\ queued = {}
              /\ filled = <<>>
              /\ refused = 0
              /\ image = "none"

\* The buffers the driver has: it fills them, or has filled them.
WithDriver == queued \cup Range(filled)

InitAt(op, i) == camAt' = [op |-> op, i |-> i]

\* close: the driver gives up its buffers and stops.
CloseDevice == /\ fd' = "closed"
               /\ allocated' = FALSE
               /\ streaming' = FALSE
               /\ queued' = {}
               /\ filled' = <<>>

-----------------------------------------------------------------------------
(* vf_camera_init                                                          *)

\* The structure is cleared and the device opened.
OpenDevice ==
    /\ fd = "closed"
    /\ camAt.op = "none"
    /\ camState' = "STOPPED"
    /\ mapped' = {}
    /\ \/ fd' = "open" /\ InitAt("setup", 0)
       \/ UNCHANGED <<fd, camAt>>
    /\ UNCHANGED <<driver, refused, image>>

\* Mutant: the buffers that were mapped stay mapped.
AbandonMapped ==
    /\ CloseDevice
    /\ camState' = "ERROR"
    /\ InitAt("none", 0)
    /\ UNCHANGED <<mapped, refused, image>>

\* The labels unmap_buffers and close_fd.
Abandon ==
    /\ mapped' = {}
    /\ CloseDevice
    /\ camState' = "ERROR"
    /\ InitAt("none", 0)
    /\ UNCHANGED <<refused, image>>

\* From VIDIOC_QUERYCAP to VIDIOC_REQBUFS.  A failed QUERYCAP leaves cap
\* without capabilities, which is found; a failed REQBUFS is not.
SetUpDevice ==
    /\ camAt.op = "setup"
    /\ \/ Abandon
       \/ /\ allocated' \in BOOLEAN
          /\ InitAt("map", 0)
          /\ UNCHANGED <<fd, camState, mapped, streaming, queued, filled, refused, image>>

\* VIDIOC_QUERYBUF and mmap of the next buffer.  Without an answer to
\* QUERYBUF the length is 0 and mmap refuses it.
MapBuffer ==
    /\ camAt.op = "map"
    /\ \/ Abandon
       \/ /\ allocated
          /\ mapped' = mapped \cup {camAt.i}
          /\ IF camAt.i = BufferCount - 1
             THEN InitAt("queue", 0)
             ELSE InitAt("map", camAt.i + 1)
          /\ UNCHANGED <<fd, camState, driver, refused, image>>

\* VIDIOC_QBUF for a buffer the process has: granted, or refused unnoticed.
GiveToDriver(b) ==
    \/ queued' = queued \cup {b} /\ UNCHANGED refused
    \/ refused < MaxRefused /\ refused' = refused + 1 /\ UNCHANGED queued

\* The loop that queues every buffer.
QueueBuffer ==
    /\ camAt.op = "queue"
    /\ GiveToDriver(camAt.i)
    /\ IF camAt.i = BufferCount - 1
       THEN InitAt("none", 0)
       ELSE InitAt("queue", camAt.i + 1)
    /\ UNCHANGED <<fd, camState, mapped, allocated, streaming, filled, image>>

CameraInitStep == SetUpDevice \/ MapBuffer \/ QueueBuffer

-----------------------------------------------------------------------------

Ready == fd = "open" /\ camAt.op = "none"

\* vf_camera_start: RUNNING, whether or not VIDIOC_STREAMON was granted.
StartDevice ==
    /\ Ready
    /\ camState = "STOPPED"
    /\ streaming' \in BOOLEAN
    /\ camState' = "RUNNING"
    /\ UNCHANGED <<fd, camAt, mapped, allocated, queued, filled, refused, image>>

\* The driver fills a buffer.
FillBuffer ==
    /\ streaming
    /\ \E b \in queued : /\ queued' = queued \ {b}
                         /\ filled' = Append(filled, b)
    /\ UNCHANGED <<fd, camState, camAt, mapped, allocated, streaming, refused, image>>

\* Mutant: the buffer is not queued again.
AcquireFilledKept ==
    /\ Ready
    /\ camState = "RUNNING"
    /\ filled # <<>>
    /\ filled' = Tail(filled)
    /\ image' = "new"
    /\ UNCHANGED <<fd, camState, camAt, mapped, allocated, streaming, queued, refused>>

\* vf_camera_acquire_frame with a frame: dequeued, copied and queued again.
AcquireFilled ==
    /\ Ready
    /\ camState = "RUNNING"
    /\ filled # <<>>
    /\ filled' = Tail(filled)
    /\ GiveToDriver(Head(filled))
    /\ image' = "new"
    /\ UNCHANGED <<fd, camState, camAt, mapped, allocated, streaming>>

\* ... when select times out or is interrupted: VF_SUCCESS all the same, and
\* the framebuffer as it was.
AcquireNothing ==
    /\ Ready
    /\ camState = "RUNNING"
    /\ image' = "old"
    /\ UNCHANGED <<fd, camState, camAt, mapped, driver, refused>>

\* Mutant: buffer 0 is queued although the driver may still have it.
AcquireRefusedRequeue ==
    /\ Ready
    /\ camState = "RUNNING"
    /\ image' = "old"
    /\ queued' = queued \cup {0}
    /\ UNCHANGED <<fd, camState, camAt, mapped, allocated, streaming, filled, refused>>

\* ... and when VIDIOC_DQBUF fails: no byte is copied, and VIDIOC_QBUF is
\* asked for index 0, which the driver grants if it does not have that buffer.
AcquireRefused ==
    /\ Ready
    /\ camState = "RUNNING"
    /\ image' = "old"
    /\ \/ 0 \notin WithDriver /\ GiveToDriver(0)
       \/ 0 \in WithDriver /\ UNCHANGED <<queued, refused>>
    /\ UNCHANGED <<fd, camState, camAt, mapped, allocated, streaming, filled>>

Acquire == AcquireFilled \/ AcquireNothing \/ AcquireRefused

\* vf_camera_stop: STOPPED, whether or not VIDIOC_STREAMOFF was granted.  When
\* it was, the driver has given every buffer back.
StopDevice ==
    /\ Ready
    /\ camState = "RUNNING"
    /\ camState' = "STOPPED"
    /\ \/ streaming' = FALSE /\ queued' = {} /\ filled' = <<>>
       \/ UNCHANGED <<streaming, queued, filled>>
    /\ UNCHANGED <<fd, camAt, mapped, allocated, refused, image>>

\* vf_camera_deinit of an open camera; a running one is stopped on the way.
CloseCamera ==
    /\ Ready
    /\ mapped' = {}
    /\ CloseDevice
    /\ camState' = "STOPPED"
    /\ UNCHANGED <<camAt, refused, image>>

CameraNext == \/ OpenDevice
              \/ CameraInitStep
              \/ StartDevice
              \/ FillBuffer
              \/ Acquire
              \/ StopDevice
              \/ CloseCamera

CameraSpec == CameraInit /\ [][CameraNext]_camVars

-----------------------------------------------------------------------------

CameraTypeOK ==
    /\ fd \in {"open", "closed"}
    /\ camState \in {"STOPPED", "RUNNING", "ERROR"}
    /\ camAt \in [op : {"none", "setup", "map", "queue"}, i : Buffers]
    /\ mapped \subseteq Buffers
    /\ allocated \in BOOLEAN
    /\ streaming \in BOOLEAN
    /\ queued \subseteq Buffers
    /\ filled \in Seq(Buffers)
    /\ refused \in 0 .. MaxRefused
    /\ image \in {"none", "new", "old"}

\* Every buffer the driver may hand back can be read: DQBUF never returns the
\* index of a buffer that is not mapped, and no buffer is with the driver
\* twice, although failed requests go unnoticed and a failed DQBUF is
\* followed by a QBUF of a buffer nobody took out.
DriverBuffersMapped ==
    /\ WithDriver \subseteq mapped
    /\ queued \cap Range(filled) = {}
    /\ Len(filled) = Cardinality(Range(filled))

\* A buffer is out of the driver's reach only for a QBUF that was refused: with
\* fewer refusals than buffers the camera never starves.
BuffersNotDrained ==
    camState = "RUNNING" => Cardinality(Buffers \ WithDriver) <= refused

\* vf_camera_acquire_frame logs "no frame received" when it has none; what it
\* returns with VF_SUCCESS is a frame that the driver has filled.
SuccessMeansNewFrame == image # "old"
=============================================================================
