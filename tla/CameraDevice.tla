----------------------------- MODULE CameraDevice -----------------------------
(***************************************************************************)
(* camera_open, the loop of camera__thread_proc as far as it talks to the  *)
(* video driver, and camera_frame around the compression of JpegDest.      *)
(*                                                                         *)
(* The buffers are shared with the driver: a queued one is the driver's to *)
(* fill, a filled one waits for VIDIOC_DQBUF, and a dequeued one is the    *)
(* program's until VIDIOC_QBUF.  camera_open leaves at the first failure   *)
(* with whatever it has done so far, and main does not look at its result. *)
(***************************************************************************)
EXTENDS JpegDest, FiniteSets

CONSTANTS
  MaxBuffers, \* bound: buffers the driver grants
  MaxFailures \* bound: dequeues that fail

ASSUME CameraAssumption == MaxBuffers \in Nat \ {0} /\ MaxFailures \in Nat

VARIABLES
  step,     \* where camera_open is, then the camera thread
  fits,     \* the driver took the format that was asked for
  granted,  \* req.count
  owner,    \* of each buffer
  held,     \* buf.index of the last dequeue
  failures  \* dequeues that failed

camera == <<fits, granted, owner, held, failures>>
cameraVars == <<vars, step, camera>>

Buffer == 1..MaxBuffers
mbuf_count_ == Cardinality({b \in Buffer : owner[b] # "unmapped"})

Opening == {"open", "caps", "format", "request", "map", "queue", "start"}
Thread == {"stream", "select", "dequeue", "compress", "requeue"}
Over == {"failed", "threadless", "ended", "aborted", "faulted"}

CameraTypeOK ==
  /\ TypeOK
  /\ step \in Opening \cup Thread \cup Over
  /\ fits \in BOOLEAN /\ granted \in 0..MaxBuffers
  /\ owner \in [Buffer -> {"unmapped", "program", "queued", "filled"}]
  /\ held \in 0..MaxBuffers /\ failures \in 0..MaxFailures

CameraInit ==
  /\ Init
  /\ step = "open" /\ fits = TRUE /\ granted = 0
  /\ owner = [b \in Buffer |-> "unmapped"]
  /\ held = 0 /\ failures = 0

Goes(from, to) == step = from /\ step' \in to
Device == UNCHANGED <<vars, fits, granted, held, failures>>

-----------------------------------------------------------------------------
(* camera_open *)

Open == Goes("open", {"caps", "failed"}) /\ UNCHANGED <<vars, camera>>

(* Not a V4L2 device, no video capture, or no streaming. *)
QueryCaps == Goes("caps", {"format", "failed"}) /\ UNCHANGED <<vars, camera>>

(* The driver may adjust the format; only the structure is corrected here, *)
(* and the size asked for is used later.                                   *)
SetFormat ==
  /\ Goes("format", {"request", "failed"})
  /\ fits' \in IF step' = "request" THEN BOOLEAN ELSE {fits}
  /\ UNCHANGED <<vars, granted, owner, held, failures>>

mutRequestTakesAny ==
  /\ Goes("request", {"map", "aborted"})
  /\ granted' \in IF step' = "map" THEN Buffer ELSE {granted}
  /\ UNCHANGED <<vars, fits, owner, held, failures>>

(* The driver grants as many buffers as it likes; one is not enough.       *)
RequestBuffers ==
  /\ Goes("request", {"map", "failed", "aborted"})
  /\ \/ step' = "map" /\ granted' \in Buffer \ {1}
     \/ step' = "failed" /\ granted' = 1
     \/ step' = "aborted" /\ granted' = granted
  /\ UNCHANGED <<vars, fits, owner, held, failures>>

(* One buffer after the other: QUERYBUF is asserted, mmap may fail and     *)
(* leaves the buffers before mapped.                                       *)
MapBuffer ==
  /\ Goes("map", {"map", "queue", "failed", "aborted"}) /\ Device
  /\ \/ /\ step' \in {"map", "queue"}
        /\ owner' = [owner EXCEPT ![mbuf_count_ + 1] = "program"]
        /\ (step' = "queue") = (mbuf_count_ + 1 = granted)
     \/ step' \in {"failed", "aborted"} /\ UNCHANGED owner

(* The loop of QBUF, and the buffers are the driver's. *)
QueueAll ==
  /\ Goes("queue", {"start", "aborted"}) /\ Device
  /\ owner' = [b \in Buffer |-> IF step' = "start" /\ b <= mbuf_count_
                                  THEN "queued" ELSE owner[b]]

(* The result of pthread_create is not looked at. *)
StartThread == Goes("start", {"stream", "threadless"}) /\ UNCHANGED <<vars, camera>>

camera_open ==
  Open \/ QueryCaps \/ SetFormat \/ RequestBuffers \/ MapBuffer \/ QueueAll \/ StartThread

-----------------------------------------------------------------------------
(* The driver *)

(* While it streams, it fills queued buffers. *)
Fill ==
  /\ step \in Thread \ {"stream"}
  /\ \E b \in Buffer : owner[b] = "queued" /\ owner' = [owner EXCEPT ![b] = "filled"]
  /\ UNCHANGED step /\ Device

-----------------------------------------------------------------------------
(* The camera thread *)

StreamOn == Goes("stream", {"select", "aborted"}) /\ UNCHANGED <<vars, camera>>

Select ==
  /\ Goes("select", {"dequeue"})
  /\ \E b \in Buffer : owner[b] = "filled"
  /\ UNCHANGED <<vars, camera>>

(* An error or an exception leaves the loop, and STREAMOFF takes the       *)
(* buffers back; a timeout or EINTR goes round again.                      *)
SelectFails ==
  /\ Goes("select", {"ended", "aborted"}) /\ Device
  /\ owner' = [b \in Buffer |-> IF owner[b] = "unmapped" THEN "unmapped" ELSE "program"]

Dequeue ==
  /\ Goes("dequeue", {"compress"}) /\ image < MaxImages
  /\ \E b \in Buffer : /\ owner[b] = "filled" /\ held' = b
                       /\ owner' = [owner EXCEPT ![b] = "program"]
  /\ UNCHANGED <<vars, fits, granted, failures>>

(* camera_frame returns without a frame and without a buffer; the thread   *)
(* goes on with whatever its variable frame holds (FrameChannel).          *)
DequeueFails ==
  /\ Goes("dequeue", {"select", "faulted"}) /\ failures < MaxFailures
  /\ failures' = failures + 1
  /\ UNCHANGED <<vars, fits, granted, owner, held>>

Compressing == step = "compress"
Writes == step' = (IF phase' = "overrun" THEN "faulted" ELSE "compress")

Compress ==
  /\ Compressing /\ UNCHANGED camera
  /\ \/ (init_destination \/ Emit) /\ UNCHANGED step
     \/ empty_output_buffer /\ Writes
     \/ term_destination /\ step' = IF phase' = "overrun" THEN "faulted" ELSE "requeue"

(* A buffer of the adjusted format may end before the lines that are read. *)
ReadsPast ==
  /\ Compressing /\ phase = "compress" /\ ~fits
  /\ step' = "faulted"
  /\ UNCHANGED <<vars, camera>>

mutRequeueForgets ==
  /\ Goes("requeue", {"select", "aborted"}) /\ Device
  /\ UNCHANGED owner

Requeue ==
  /\ Goes("requeue", {"select", "aborted"}) /\ Device
  /\ owner' = IF step' = "select" THEN [owner EXCEPT ![held] = "queued"] ELSE owner

Loop ==
  StreamOn \/ Select \/ Dequeue \/ DequeueFails \/ Compress \/ ReadsPast \/ Requeue

camera__thread_proc == Loop \/ SelectFails

CameraNext == camera_open \/ Fill \/ camera__thread_proc

(* The thread is scheduled and the driver goes on filling buffers; select  *)
(* need not fail, so that a thread without a buffer would wait for ever.   *)
CameraSpec ==
  CameraInit /\ [][CameraNext]_cameraVars
    /\ WF_cameraVars(Fill) /\ WF_cameraVars(Loop)

-----------------------------------------------------------------------------
(* Properties *)

(* camera.c:146-247: however camera_open comes to its end, the thread only *)
(* runs over buffers that are all mapped; and camera.c:199-204, 405-434:   *)
(* whatever the thread does to a buffer, while it streams the driver has   *)
(* another one, so that no image is waited for in vain.                    *)
DriverHasBuffer ==
  step \in Thread =>
    /\ mbuf_count_ = granted
    /\ \E b \in Buffer : owner[b] \in {"queued", "filled"}

(* camera.c:425-434: the compression reads a buffer the driver does not    *)
(* write.                                                                  *)
ExclusiveRead == Compressing => owner[held] = "program"

(* camera.c:146-247, 405-434: both together: how buffers are shared.       *)
BuffersShared == DriverHasBuffer /\ ExclusiveRead

(* camera.c:417-434: every image needs a free buffer and gives it back:    *)
(* the thread that waits in select comes to another image, unless an ioctl *)
(* or select fails or the format was adjusted.                             *)
ImagesFlow ==
  step = "select" /\ image < MaxImages ~> step = "requeue" \/ step \in Over

(* camera.c:288-336, 405-439: FrameIsImage and OverrunOnlyTooLarge under   *)
(* the device; and the thread dies only after a failed dequeue, of an      *)
(* adjusted format, or of an image larger than its pixels.                 *)
FramesAreImages ==
  /\ FrameIsImage /\ OverrunOnlyTooLarge
  /\ step = "faulted" => failures > 0 \/ ~fits \/ emitted > Size
=============================================================================
