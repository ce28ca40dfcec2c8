----------------------------- MODULE FrameChannel -----------------------------
(***************************************************************************)
(* The camera thread (camera__thread_proc, camera_frame) and camera_proc   *)
(* in the main thread.  A frame is allocated by the one and freed by the   *)
(* other; in between its address travels through a socket pair, on which   *)
(* the camera thread blocks when it is full.                               *)
(*                                                                         *)
(* An action is what a thread does between two accesses to what they       *)
(* share: the channel, the heap and the frames.  Frames are numbered in    *)
(* the order of their capture.                                             *)
(***************************************************************************)
EXTENDS Naturals, Sequences

CONSTANTS
  ChannelSize, \* addresses that fit into the socket pair
  MaxFrames,   \* bound: frames that are captured
  MaxFailures  \* bound: VIDIOC_DQBUF that fail

ASSUME ChannelAssumption ==
  ChannelSize \in Nat \ {0} /\ MaxFrames \in Nat /\ MaxFailures \in Nat

VARIABLES
  cam,        \* where the camera thread stands
  frame,      \* its local variable; 0 while it was never set
  good,       \* frame_len is a length, not the result of a failure
  main,       \* where camera_proc stands
  taken,      \* the address it has received
  channel,    \* the addresses in the socket pair
  live,       \* the frames that are allocated
  spoilt,     \* those whose body_len_ is the result of a failed camera_frame
  connected,  \* accepted_fd_ > 0
  polled,     \* the event loop comes to the poller of the channel: it is on the list,
              \* and select has not come to fail for good
  active_,    \* sctx_->active_
  process,    \* "running", or how it ended
  captured,   \* history: frames captured so far
  failures,   \* history: VIDIOC_DQBUF that failed
  early,      \* history: frames dropped within 33 ms of the last one
  unwatched,  \* history: frames dropped without a client, or while stopping
  sent        \* history: the last frame sent to a client

thread == <<cam, frame, good>>
proc == <<main, taken>>
heap == <<live, spoilt>>
server == <<connected, polled, active_>>
history == <<captured, failures, early, unwatched, sent>>
vars == <<thread, proc, channel, heap, server, process, history>>

FrameId == 1..MaxFrames

TypeOK ==
  /\ cam \in {"select", "frame", "stamp", "clock", "send", "ended"}
  /\ main \in {"poll", "send", "free"}
  /\ frame \in 0..MaxFrames /\ taken \in 0..MaxFrames
  /\ channel \in Seq(FrameId) /\ Len(channel) <= ChannelSize
  /\ live \subseteq FrameId /\ spoilt \subseteq FrameId
  /\ good \in BOOLEAN /\ connected \in BOOLEAN /\ polled \in BOOLEAN
  /\ active_ \in BOOLEAN
  /\ process \in {"running", "crashed", "aborted", "killed", "exited"}
  /\ captured \in 0..MaxFrames /\ failures \in 0..MaxFailures
  /\ early \subseteq FrameId /\ unwatched \subseteq FrameId
  /\ sent \in 0..MaxFrames

(* camera_open has started the thread; the main loop is about to start.    *)
Init ==
  /\ cam = "select" /\ frame = 0 /\ good = FALSE
  /\ main = "poll" /\ taken = 0
  /\ channel = <<>> /\ live = {} /\ spoilt = {}
  /\ connected = FALSE /\ polled = TRUE /\ active_ = TRUE /\ process = "running"
  /\ captured = 0 /\ failures = 0 /\ early = {} /\ unwatched = {} /\ sent = 0

-----------------------------------------------------------------------------
(* The camera thread *)

Camera(at) == process = "running" /\ cam = at

(* A timeout or EINTR, a frame, or an error or exception.                  *)
Select ==
  /\ Camera("select")
  /\ cam' \in {"select", "frame", "ended"}
  /\ UNCHANGED <<frame, good, proc, channel, heap, server, process, history>>

mutCaptureReuses ==
  /\ Camera("frame") /\ captured < MaxFrames
  /\ captured' = captured + 1
  /\ frame' = IF frame = 0 THEN captured' ELSE frame
  /\ live' = live \cup {frame'}
  /\ cam' = "stamp" /\ good' = TRUE
  /\ UNCHANGED <<proc, channel, spoilt, server, process, failures, early, unwatched, sent>>

(* camera_frame dequeues a buffer, compresses it, queues it again and      *)
(* allocates the frame.                                                    *)
Capture ==
  /\ Camera("frame") /\ captured < MaxFrames
  /\ captured' = captured + 1
  /\ frame' = captured' /\ live' = live \cup {captured'}
  /\ cam' = "stamp" /\ good' = TRUE
  /\ UNCHANGED <<proc, channel, spoilt, server, process, failures, early, unwatched, sent>>

(* It returns 0 or -1 and leaves frame alone, which still holds the last   *)
(* address: it is a local of the loop body, always in the same place.      *)
CaptureFails ==
  /\ Camera("frame") /\ failures < MaxFailures
  /\ failures' = failures + 1 /\ good' = FALSE
  /\ cam' = "stamp"
  /\ UNCHANGED <<frame, proc, channel, heap, server, process, captured, early, unwatched, sent>>

(* The length goes in front of the frame, where body_len_ of the package   *)
(* will be; a pointer that was never set faults, a freed frame may.        *)
Stamp ==
  /\ Camera("stamp") /\ frame # 0
  /\ spoilt' = IF good THEN spoilt ELSE spoilt \cup {frame}
  /\ cam' = "clock"
  /\ UNCHANGED <<frame, good, proc, channel, live, server, process, history>>

StampFaults ==
  /\ Camera("stamp") /\ frame \notin live
  /\ process' = "crashed"
  /\ UNCHANGED <<thread, proc, channel, heap, server, history>>

(* More than 33 ms after the last frame that was sent, ...                 *)
Due ==
  /\ Camera("clock") /\ cam' = "send"
  /\ UNCHANGED <<frame, good, proc, channel, heap, server, process, history>>

(* ... or not: the frame is neither sent nor freed.                        *)
TooEarly ==
  /\ Camera("clock") /\ cam' = "select"
  /\ early' = early \cup {frame}
  /\ UNCHANGED <<frame, good, proc, channel, heap, server, process, captured, failures,
                 unwatched, sent>>

mutSendInFront ==
  /\ Camera("send") /\ Len(channel) < ChannelSize
  /\ channel' = <<frame>> \o channel
  /\ cam' = "select"
  /\ UNCHANGED <<frame, good, proc, heap, server, process, history>>

(* send on the socket pair blocks until there is room. *)
Send ==
  /\ Camera("send") /\ Len(channel) < ChannelSize
  /\ channel' = Append(channel, frame)
  /\ cam' = "select"
  /\ UNCHANGED <<frame, good, proc, heap, server, process, history>>

(* It fails: the frame is freed, unless it already is, and free aborts.    *)
SendFails ==
  /\ Camera("send")
  /\ live' = live \ {frame}
  /\ process' = IF frame \in live THEN process ELSE "aborted"
  /\ cam' = "select"
  /\ UNCHANGED <<frame, good, proc, channel, spoilt, server, history>>

CameraStep ==
  Select \/ Capture \/ CaptureFails \/ Stamp \/ StampFaults \/ Due \/ TooEarly \/ Send
    \/ SendFails

-----------------------------------------------------------------------------
(* camera_proc *)

Main(at) == process = "running" /\ main = at
Serving == active_ /\ connected

mutRecvKeeps ==
  /\ Main("poll") /\ polled /\ channel # <<>>
  /\ taken' = Head(channel) /\ channel' = channel
  /\ \/ Serving /\ main' = "send" /\ UNCHANGED unwatched
     \/ ~Serving /\ main' = main /\ unwatched' = unwatched \cup {Head(channel)}
  /\ UNCHANGED <<thread, heap, server, process, captured, failures, early, sent>>

(* Without a client, and after a signal, the frame is not freed.           *)
Recv ==
  /\ Main("poll") /\ polled /\ channel # <<>>
  /\ taken' = Head(channel) /\ channel' = Tail(channel)
  /\ \/ Serving /\ main' = "send" /\ UNCHANGED unwatched
     \/ ~Serving /\ main' = main /\ unwatched' = unwatched \cup {Head(channel)}
  /\ UNCHANGED <<thread, heap, server, process, captured, failures, early, sent>>

(* server_context_send reads the frame.  It may close the connection and   *)
(* register the listener again.                                            *)
SendToClient ==
  /\ Main("send")
  /\ sent' = taken /\ main' = "free"
  /\ \/ UNCHANGED <<connected, polled>>
     \/ connected' = FALSE /\ polled' \in {polled, FALSE}
  /\ UNCHANGED <<taken, thread, channel, heap, active_, process, captured, failures,
                 early, unwatched>>

(* Or it raises SIGPIPE. *)
SendKilled ==
  /\ Main("send") /\ process' = "killed"
  /\ UNCHANGED <<thread, proc, channel, heap, server, history>>

mutFreeForgets ==
  /\ Main("free")
  /\ main' = "poll"
  /\ UNCHANGED <<live, process, taken, thread, channel, spoilt, server, history>>

Free ==
  /\ Main("free")
  /\ live' = live \ {taken}
  /\ process' = IF taken \in live THEN process ELSE "aborted"
  /\ main' = "poll"
  /\ UNCHANGED <<taken, thread, channel, spoilt, server, history>>

(* Between two calls of camera_proc clients come and go.  Either registers *)
(* a poller, which may cut that of the channel off the list; and one that  *)
(* goes may leave a poller that makes select fail for good: see EventLoop. *)
ClientComesOrGoes ==
  /\ Main("poll")
  /\ connected' = ~connected /\ polled' \in {polled, FALSE}
  /\ UNCHANGED <<thread, proc, channel, heap, active_, process, history>>

signal_handler ==
  /\ process = "running" /\ active_
  /\ active_' = FALSE
  /\ UNCHANGED <<thread, proc, channel, heap, connected, polled, process, history>>

(* The main loop sees active_: main returns, and the camera thread ends    *)
(* with it wherever it stands.                                             *)
Exit ==
  /\ Main("poll") /\ ~active_
  /\ process' = "exited"
  /\ UNCHANGED <<thread, proc, channel, heap, server, history>>

MainStep == Recv \/ SendToClient \/ SendKilled \/ Free \/ Exit

Next == CameraStep \/ MainStep \/ ClientComesOrGoes \/ signal_handler

Spec == Init /\ [][Next]_vars

(* Both threads are scheduled; and while the loop comes to the poller of   *)
(* the channel, it takes what is there (TakesFrames of EventLoop).         *)
FairSpec == Spec /\ WF_vars(Send) /\ WF_vars(MainStep)

-----------------------------------------------------------------------------
(* Properties *)

InChannel == {channel[i] : i \in 1..Len(channel)}
OfCamera == IF cam \in {"stamp", "clock", "send"} THEN {frame} ELSE {}
OfMain == IF main \in {"send", "free"} THEN {taken} ELSE {}

(* camera.c:88-108, main.c:134-164: until a dequeue fails, a frame belongs *)
(* to one of the camera thread, the channel and main, is allocated as long *)
(* as one of them has it, and has its length when main reads it.           *)
OneOwner ==
  failures = 0 /\ process = "running" =>
    /\ OfCamera \cap (InChannel \cup OfMain) = {} /\ InChannel \cap OfMain = {}
    /\ \A i, j \in 1..Len(channel) : i # j => channel[i] # channel[j]
    /\ OfCamera \cup InChannel \cup OfMain \subseteq live
    /\ OfMain \cap spoilt = {}

(* camera.c:96, main.c:154-156: a frame that nobody has any more is freed, *)
(* but for those dropped early and those dropped without a client: these   *)
(* two ways, and no others, leak.                                          *)
LeaksExplained ==
  failures = 0 /\ process = "running" =>
    live \ (OfCamera \cup InChannel \cup OfMain) = (early \cup unwatched)

(* camera.c:88-91, 97, main.c:164: the process does not die of a frame     *)
(* before a dequeue has failed.                                            *)
DiesOnlyAfterFailure == process \in {"crashed", "aborted"} => failures > 0

(* camera.c:88-108, main.c:134-164: both together: until a dequeue fails,  *)
(* no frame is used by two threads, or after it was freed.                 *)
OwnedUntilFailure == OneOwner /\ DiesOnlyAfterFailure

(* camera.c:96-108, main.c:134-160: a client gets frames in the order of   *)
(* their capture, none twice, until a dequeue fails.                       *)
SentInOrder == [][SendToClient /\ failures = 0 => taken > sent]_vars

(* camera.c:97: the camera thread does not block in send for ever, unless  *)
(* the event loop has lost the poller of the channel or select has come to *)
(* fail for good; then it does, once the channel is full.                  *)
SendGoesOn == cam = "send" ~> cam # "send" \/ ~polled \/ process # "running"
=============================================================================
