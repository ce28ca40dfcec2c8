------------------------------- MODULE SendQueue -------------------------------
(***************************************************************************)
(* The send side of server.c: camera_proc hands frames to                  *)
(* server_context_send, which sends what the kernel takes and keeps the    *)
(* rest in sendbuf_, and sctx__on_write flushes sendbuf_ when select says  *)
(* that the socket is writeable.                                           *)
(*                                                                         *)
(* All of it runs in the main thread, so a call is one action.  The kernel *)
(* has room for SockBuf bytes, and takes as many of a send as it likes.    *)
(***************************************************************************)
EXTENDS Naturals, Sequences, SequencesExt

CONSTANTS
  Byte,      \* what packages are made of
  Frame,     \* the packages, as sequences of bytes
  Capacity,  \* SCTX_SENDBUF_CAPACITY
  SockBuf,   \* room in the kernel's send buffer
  MaxFrames, \* bound: frames that the camera delivers
  MaxClients \* bound: clients that connect

ASSUME SendAssumption ==
  /\ Frame \subseteq Seq(Byte) \ {<<>>}
  /\ Capacity \in Nat \ {0} /\ SockBuf \in Nat \ {0}
  /\ MaxFrames \in Nat /\ MaxClients \in Nat

VARIABLES
  conn,     \* accepted_fd_ is not 0
  peer,     \* the client: "open", "closed", or "reset" (its RST has arrived)
  sendbuf_, \* the first sendlen_ bytes of the buffer
  capacity, \* sendbuf_capacity_
  writer,   \* a poller for SEL_WRITEABLE on the client's descriptor is listed
  socket,   \* bytes in the kernel's send buffer
  process,  \* "running", "killed" by SIGPIPE, or "overrun": out of sendbuf_
  handed,   \* history: what an earlier connection left, then the bytes handed over
  carried,  \* history: how many of them an earlier connection left
  wire,     \* history: the bytes the kernel has taken in this connection
  mixed,    \* history: only the first so many of them may be in a wrong order
  frames, clients \* counters for the bounds

history == <<handed, carried, wire, mixed>>
vars == <<conn, peer, sendbuf_, capacity, writer, socket, process, history, frames, clients>>

sendlen_ == Len(sendbuf_)

TypeOK ==
  /\ conn \in BOOLEAN /\ writer \in BOOLEAN
  /\ peer \in {"open", "closed", "reset"}
  /\ capacity \in Nat
  /\ sendbuf_ \in Seq(Byte) /\ sendlen_ <= capacity
  /\ socket \in 0..SockBuf
  /\ process \in {"running", "killed", "overrun"}
  /\ handed \in Seq(Byte) /\ wire \in Seq(Byte)
  /\ carried \in 0..Len(handed) /\ mixed \in 0..Len(handed)
  /\ frames \in 0..MaxFrames /\ clients \in 0..MaxClients

Init ==
  /\ conn = FALSE /\ peer = "closed"
  /\ sendbuf_ = <<>> /\ capacity = Capacity /\ writer = FALSE
  /\ socket = 0 /\ process = "running"
  /\ handed = <<>> /\ wire = <<>> /\ carried = 0 /\ mixed = 0
  /\ frames = 0 /\ clients = 0

First(s, n) == SubSeq(s, 1, n)
Rest(s, n) == SubSeq(s, n + 1, Len(s))
Least(m, n) == IF m < n THEN m ELSE n

-----------------------------------------------------------------------------
(* The client and the kernel *)

(* A client connects and sctx__on_accpect takes it.  Neither it nor the    *)
(* close before it touches sendbuf_: what an earlier client left waits for *)
(* this one.  It has a writer if that client was closed in the same walk   *)
(* of the loop, and none if the closed poller was cut off the list.        *)
Connect ==
  /\ process = "running" /\ ~conn /\ clients < MaxClients
  /\ conn' = TRUE /\ peer' = "open" /\ socket' = 0
  /\ handed' = sendbuf_ /\ carried' = sendlen_ /\ wire' = <<>> /\ mixed' = 0
  /\ clients' = clients + 1
  /\ UNCHANGED <<sendbuf_, capacity, writer, process, frames>>

ClientReads ==
  /\ peer = "open" /\ socket > 0
  /\ socket' \in 0..(socket - 1)
  /\ UNCHANGED <<conn, peer, sendbuf_, capacity, writer, process, history, frames, clients>>

ClientGoes ==
  /\ conn
  /\ \/ peer = "open" /\ peer' \in {"closed", "reset"}
     \/ peer = "closed" /\ peer' = "reset"
  /\ UNCHANGED <<conn, sendbuf_, capacity, writer, socket, process, history, frames, clients>>

(* The numbers of bytes a send of len may take; 0 stands for EAGAIN.  A    *)
(* connection that was reset takes none: an error, or SIGPIPE.             *)
Taken(len) ==
  IF peer = "reset" THEN {}
  ELSE IF socket = SockBuf THEN {0} ELSE 1..Least(len, SockBuf - socket)

Killed ==
  /\ peer = "reset" /\ process' = "killed"
  /\ UNCHANGED <<conn, peer, sendbuf_, capacity, writer, socket, history, frames, clients>>

-----------------------------------------------------------------------------
(* server_context_send *)

(* The rest of a frame goes behind sendbuf_, which grows by its length if  *)
(* that is more than what is free, and a writer is registered.             *)
mutEnqueueNoGrowth(rest) ==
  /\ sendbuf_' = sendbuf_ \o rest
  /\ capacity' = capacity
  /\ writer' = TRUE

mutEnqueueNoWriter(rest) ==
  /\ sendbuf_' = sendbuf_ \o rest
  /\ capacity' = IF capacity - sendlen_ < Len(rest) THEN capacity + Len(rest) ELSE capacity
  /\ writer' = writer

Enqueue(rest) ==
  /\ sendbuf_' = sendbuf_ \o rest
  /\ capacity' = IF capacity - sendlen_ < Len(rest) THEN capacity + Len(rest) ELSE capacity
  /\ writer' = TRUE

Counted ==
  /\ process = "running" /\ conn /\ frames < MaxFrames
  /\ frames' = frames + 1

mutSendDirectResendsHead(f) ==
  /\ Counted /\ sendlen_ = 0
  /\ \E n \in Taken(Len(f)) :
       /\ wire' = wire \o First(f, n) /\ socket' = socket + n
       /\ \/ n = Len(f) /\ UNCHANGED <<sendbuf_, capacity, writer>>
          \/ n < Len(f) /\ Enqueue(f)
  /\ handed' = handed \o f
  /\ UNCHANGED <<conn, peer, process, carried, mixed, clients>>

mutSendDirectAlways(f) ==
  /\ Counted
  /\ \E n \in Taken(Len(f)) :
       /\ wire' = wire \o First(f, n) /\ socket' = socket + n
       /\ \/ n = Len(f) /\ UNCHANGED <<sendbuf_, capacity, writer>>
          \/ n < Len(f) /\ Enqueue(Rest(f, n))
  /\ handed' = handed \o f
  /\ UNCHANGED <<conn, peer, process, carried, mixed, clients>>

(* Nothing is waiting: the frame goes to the kernel first. *)
SendDirect(f) ==
  /\ Counted /\ sendlen_ = 0
  /\ \E n \in Taken(Len(f)) :
       /\ wire' = wire \o First(f, n) /\ socket' = socket + n
       /\ \/ n = Len(f) /\ UNCHANGED <<sendbuf_, capacity, writer>>
          \/ n < Len(f) /\ Enqueue(Rest(f, n))
  /\ handed' = handed \o f
  /\ UNCHANGED <<conn, peer, process, carried, mixed, clients>>

SendBehind(f) ==
  /\ Counted /\ sendlen_ > 0
  /\ Enqueue(f)
  /\ handed' = handed \o f
  /\ UNCHANGED <<conn, peer, socket, process, carried, wire, mixed, clients>>

(* Another error than EAGAIN: the connection is closed here. *)
SendFails ==
  /\ Counted /\ sendlen_ = 0 /\ peer = "reset"
  /\ conn' = FALSE
  /\ UNCHANGED <<peer, sendbuf_, capacity, writer, socket, process, history, clients>>

SendKilled == process = "running" /\ conn /\ frames < MaxFrames /\ sendlen_ = 0 /\ Killed

-----------------------------------------------------------------------------
(* sctx__on_write, while there is a connection *)

Writeable == process = "running" /\ conn /\ writer /\ socket < SockBuf

mutFlushAllKeepsWriter ==
  /\ Writeable /\ sendlen_ \in Taken(sendlen_)
  /\ wire' = wire \o sendbuf_ /\ socket' = socket + sendlen_
  /\ sendbuf_' = <<>>
  /\ UNCHANGED <<conn, peer, capacity, writer, process, handed, carried, mixed, frames, clients>>

FlushAll ==
  /\ Writeable /\ sendlen_ \in Taken(sendlen_)
  /\ wire' = wire \o sendbuf_ /\ socket' = socket + sendlen_
  /\ sendbuf_' = <<>> /\ writer' = FALSE
  /\ UNCHANGED <<conn, peer, capacity, process, handed, carried, mixed, frames, clients>>

(* The remaining bytes are copied behind sendbuf_ instead of to its front, *)
(* past its end if there is no room for them: what is kept to be sent are  *)
(* as many bytes from the front, which have been sent already.             *)
FlushPart ==
  /\ Writeable
  /\ \E n \in Taken(sendlen_) \ {sendlen_} :
       LET remain == sendlen_ - n
       IN /\ wire' = wire \o First(sendbuf_, n) /\ socket' = socket + n
          /\ sendbuf_' = First(sendbuf_, remain)
          /\ process' = IF sendlen_ + remain > capacity THEN "overrun" ELSE process
  /\ mixed' = Len(handed)
  /\ UNCHANGED <<conn, peer, capacity, writer, handed, carried, frames, clients>>

(* An error other than SIGPIPE is reported, and changes nothing. *)
WriteKilled == Writeable /\ Killed

on_write == FlushAll \/ FlushPart \/ WriteKilled

(* sctx__on_read sees the end of the stream, ECONNRESET or a package that  *)
(* is too long.  It resets neither sendlen_ nor the writer, but may cut    *)
(* the closed poller off the list when it registers the listener again.    *)
on_read ==
  /\ process = "running" /\ conn
  /\ conn' = FALSE /\ writer' \in {writer, FALSE}
  /\ UNCHANGED <<peer, sendbuf_, capacity, socket, process, history, frames, clients>>

-----------------------------------------------------------------------------
Next ==
  \/ Connect \/ ClientReads \/ ClientGoes
  \/ (\E f \in Frame : SendDirect(f) \/ SendBehind(f)) \/ SendFails \/ SendKilled
  \/ on_write \/ on_read

Spec == Init /\ [][Next]_vars

(* select reports a writeable socket, or that the client has gone, and the *)
(* loop calls back; a client that stays goes on reading.                   *)
FairSpec ==
  /\ Spec /\ WF_vars(on_write) /\ WF_vars(peer # "open" /\ on_read)
  /\ WF_vars(ClientReads)

-----------------------------------------------------------------------------
(* Properties *)

(* What an earlier client left, with nothing handed over to this one yet:  *)
(* such bytes may wait without a writer.                                   *)
Inherited == ~writer /\ Len(handed) = carried

(* server.c:103-106, 211-215: the socket is watched for room only while    *)
(* bytes wait, or the loop would spin; and while the connection has bytes  *)
(* that wait, at the latest from its first frame on, or they would wait    *)
(* for ever.                                                               *)
WaitingIsWatched ==
  process # "overrun" =>
    /\ writer => sendlen_ > 0
    /\ conn /\ sendlen_ > 0 => writer \/ Inherited

(* server.c:91-113, 180-218: the client is sent as many bytes as an        *)
(* earlier one left and were handed over, even when a flush is split and   *)
(* its bytes are mixed up: the frames behind begin at the right distance   *)
(* from the first byte.                                                    *)
EveryByteCounted ==
  process # "overrun" => Len(wire) + sendlen_ = Len(handed)

(* server.c:91-113, 180-218: the client gets what an earlier one left and  *)
(* then the frames, all in order but for those that were waiting, or sent  *)
(* before, when a flush was split.                                         *)
Pipe == INSTANCE BytePipe WITH delivered <- wire
ImplementsPipe == Pipe!Spec

(* server.c:97-106: bytes that wait are flushed, as long as the client     *)
(* reads them, unless they were left by an earlier one.                    *)
Flushed ==
  sendlen_ > 0 ~>
    sendlen_ = 0 \/ ~conn \/ process # "running" \/ peer # "open" \/ Inherited
=============================================================================
