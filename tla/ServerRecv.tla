------------------------------ MODULE ServerRecv ------------------------------
(***************************************************************************)
(* The receiving half of server.c: sctx__on_read cuts the byte stream of   *)
(* the accepted connection into packages (a header whose last field is     *)
(* body_len_, then the body) and hands each to package_cb_.                *)
(*                                                                         *)
(* A byte is an abstract element of Byte, and body_len_ of a header is the *)
(* constant function HeaderBodyLen, so nothing below depends on how a      *)
(* length is encoded.  recvlen_ is Len(recvbuf_): the model keeps only the *)
(* bytes that count.                                                       *)
(***************************************************************************)
EXTENDS Integers, Sequences

CONSTANTS
  Byte,                  \* the values of a byte
  PACKAGE_HEAD_LEN,      \* package.h
  SCTX_MAX_PKG_BODY_LEN, \* server.c
  SCTX_RECVBUF_CAPACITY, \* server.c
  HeaderBodyLen,         \* what (struct package *)->body_len_ reads in a header
  MaxBytes               \* bound: bytes the clients send altogether

ASSUME RecvAssumption ==
  /\ PACKAGE_HEAD_LEN \in Nat \ {0}
  /\ SCTX_MAX_PKG_BODY_LEN \in Nat
  /\ SCTX_RECVBUF_CAPACITY \in Nat
  /\ SCTX_RECVBUF_CAPACITY >= PACKAGE_HEAD_LEN + SCTX_MAX_PKG_BODY_LEN
  /\ HeaderBodyLen \in [[1..PACKAGE_HEAD_LEN -> Byte] -> Nat]
  /\ MaxBytes \in Nat

VARIABLES
  connected, \* accepted_fd_ # 0
  recvbuf_,  \* the first recvlen_ bytes of recvbuf_; survives a connection
  buf,       \* the local buf, len: the bytes this call still has to parse
  pc,        \* where sctx__on_read stands; "idle": not running
  inbound,   \* the kernel's receive queue of the connection
  peer,      \* "open", or the peer sent "fin" or "rst"
  sent,      \* bytes sent so far by all clients (bound)
  seen,      \* history: recvbuf_ at accept, then every byte received since
  parsed,    \* history: the bytes of the packages of this connection, in order
  delivered  \* history: the packages given to package_cb_ on this connection

code == <<connected, recvbuf_, buf, pc>>
world == <<inbound, peer, sent>>
history == <<seen, parsed, delivered>>
vars == <<code, world, history>>

(* Types; no byte is ever kept or parsed beyond the end of the allocation  *)
(* of recvbuf_ (SCTX_RECVBUF_CAPACITY bytes, server.c:168).                *)
TypeOK ==
  /\ connected \in BOOLEAN
  /\ recvbuf_ \in Seq(Byte)
  /\ buf \in Seq(Byte)
  /\ Len(recvbuf_) <= SCTX_RECVBUF_CAPACITY
  /\ Len(buf) <= SCTX_RECVBUF_CAPACITY
  /\ pc \in {"idle", "read", "parse"}
  /\ inbound \in Seq(Byte)
  /\ peer \in {"open", "fin", "rst"}
  /\ sent \in 0..MaxBytes
  /\ seen \in Seq(Byte)
  /\ parsed \in Seq(Byte)
  /\ delivered \in Seq(Seq(Byte))

Init ==
  /\ connected = FALSE
  /\ recvbuf_ = <<>>
  /\ buf = <<>>
  /\ pc = "idle"
  /\ inbound = <<>>
  /\ peer = "open"
  /\ sent = 0
  /\ seen = <<>>
  /\ parsed = <<>>
  /\ delivered = <<>>

-----------------------------------------------------------------------------
(* package.h *)

Header(bytes) == SubSeq(bytes, 1, PACKAGE_HEAD_LEN)
BodyLen(bytes) == HeaderBodyLen[Header(bytes)]
package_len(bytes) == PACKAGE_HEAD_LEN + BodyLen(bytes)

Short(bytes) == Len(bytes) < PACKAGE_HEAD_LEN
Oversize(bytes) == BodyLen(bytes) > SCTX_MAX_PKG_BODY_LEN

-----------------------------------------------------------------------------
(* The client and the kernel *)

ClientSends(b) ==
  /\ connected /\ peer = "open" /\ sent < MaxBytes
  /\ inbound' = Append(inbound, b)
  /\ sent' = sent + 1
  /\ UNCHANGED <<code, peer, history>>

ClientEnds(how) ==
  /\ connected /\ peer = "open"
  /\ peer' = how
  /\ UNCHANGED <<code, inbound, sent, history>>

-----------------------------------------------------------------------------
(* sctx__on_accpect, as far as it concerns the receive buffer: recvlen_ is *)
(* left as the previous connection left it.                                *)
Accept ==
  /\ ~connected
  /\ connected' = TRUE
  /\ inbound' = <<>>
  /\ peer' = "open"
  /\ seen' = recvbuf_
  /\ parsed' = <<>>
  /\ delivered' = <<>>
  /\ UNCHANGED <<recvbuf_, buf, pc, sent>>

(* The event loop calls sctx__on_read when the descriptor is readable. *)
OnRead ==
  /\ connected /\ pc = "idle"
  /\ inbound # <<>> \/ peer # "open"
  /\ pc' = "read"
  /\ UNCHANGED <<connected, recvbuf_, buf, world, history>>

(* The label close: close(2) drops the queue; recvlen_ is not reset. *)
CloseConnection ==
  /\ connected' = FALSE
  /\ pc' = "idle"
  /\ buf' = <<>>
  /\ inbound' = <<>>
  /\ UNCHANGED <<recvbuf_, peer, sent, history>>

Min2(m, n) == IF m < n THEN m ELSE n

(* The third argument of recv. *)
Room == SCTX_RECVBUF_CAPACITY - Len(recvbuf_)

mutRecvOverwrites ==
  /\ pc = "read" /\ inbound # <<>> /\ Room > 0
  /\ LET n == Min2(Len(inbound), Room)
     IN  /\ buf' = SubSeq(inbound, 1, n)
         /\ inbound' = SubSeq(inbound, n + 1, Len(inbound))
         /\ seen' = seen \o SubSeq(inbound, 1, n)
  /\ pc' = "parse"
  /\ UNCHANGED <<connected, recvbuf_, peer, sent, parsed, delivered>>

(* The label read: recv appends to the bytes kept from the last call. *)
RecvBytes ==
  /\ pc = "read" /\ inbound # <<>> /\ Room > 0
  /\ LET n == Min2(Len(inbound), Room)
     IN  /\ buf' = recvbuf_ \o SubSeq(inbound, 1, n)
         /\ inbound' = SubSeq(inbound, n + 1, Len(inbound))
         /\ seen' = seen \o SubSeq(inbound, 1, n)
  /\ pc' = "parse"
  /\ UNCHANGED <<connected, recvbuf_, peer, sent, parsed, delivered>>

(* recv returns 0 at the end of the stream, and also when it is asked for  *)
(* no byte at all; ECONNRESET (104) closes the connection too.             *)
RecvCloses ==
  /\ pc = "read"
  /\ \/ inbound = <<>> /\ peer # "open"
     \/ inbound # <<>> /\ Room = 0
  /\ CloseConnection

(* EAGAIN: everything was read, return 0. *)
RecvWouldBlock ==
  /\ pc = "read" /\ inbound = <<>> /\ peer = "open"
  /\ pc' = "idle"
  /\ UNCHANGED <<connected, recvbuf_, buf, world, history>>

(* Any other error is reported once by the kernel and the callback returns *)
(* 0; the next recv of that socket sees the end of the stream.             *)
RecvError ==
  /\ pc = "read" /\ inbound = <<>> /\ peer = "rst"
  /\ pc' = "idle"
  /\ peer' = "fin"
  /\ UNCHANGED <<connected, recvbuf_, buf, inbound, sent, history>>

-----------------------------------------------------------------------------
(* The parsing loop *)

mutKeepShortLoops ==
  /\ pc = "parse" /\ Short(buf)
  /\ recvbuf_' = buf
  /\ UNCHANGED <<connected, buf, pc, world, history>>

mutKeepShortOffByOne ==
  /\ pc = "parse" /\ Len(buf) <= PACKAGE_HEAD_LEN
  /\ recvbuf_' = buf
  /\ buf' = <<>>
  /\ pc' = "idle"
  /\ UNCHANGED <<connected, world, history>>

(* Fewer bytes than a header: keep them (none when len is 0), return 0. *)
KeepShort ==
  /\ pc = "parse" /\ Short(buf)
  /\ recvbuf_' = buf
  /\ buf' = <<>>
  /\ pc' = "idle"
  /\ UNCHANGED <<connected, world, history>>

mutRejectOversizeAtLimit ==
  /\ pc = "parse" /\ ~Short(buf) /\ BodyLen(buf) >= SCTX_MAX_PKG_BODY_LEN
  /\ CloseConnection

RejectOversize ==
  /\ pc = "parse" /\ ~Short(buf) /\ Oversize(buf)
  /\ CloseConnection

(* Part of a body: keep the bytes and goto read. *)
KeepPartial ==
  /\ pc = "parse" /\ ~Short(buf) /\ ~Oversize(buf)
  /\ package_len(buf) > Len(buf)
  /\ recvbuf_' = buf
  /\ buf' = <<>>
  /\ pc' = "read"
  /\ UNCHANGED <<connected, world, history>>

mutDeliverSkipsBody ==
  /\ pc = "parse" /\ ~Short(buf) /\ ~Oversize(buf)
  /\ package_len(buf) <= Len(buf)
  /\ LET pkg == SubSeq(buf, 1, package_len(buf))
     IN  /\ delivered' = Append(delivered, pkg)
         /\ parsed' = parsed \o pkg
  /\ buf' = SubSeq(buf, BodyLen(buf) + 1, Len(buf))
  /\ UNCHANGED <<connected, recvbuf_, pc, world, seen>>

(* A whole package: package_cb_, then go on behind it. *)
Deliver ==
  /\ pc = "parse" /\ ~Short(buf) /\ ~Oversize(buf)
  /\ package_len(buf) <= Len(buf)
  /\ LET pkg == SubSeq(buf, 1, package_len(buf))
     IN  /\ delivered' = Append(delivered, pkg)
         /\ parsed' = parsed \o pkg
  /\ buf' = SubSeq(buf, package_len(buf) + 1, Len(buf))
  /\ UNCHANGED <<connected, recvbuf_, pc, world, seen>>

-----------------------------------------------------------------------------
on_read ==
  \/ RecvBytes \/ RecvCloses \/ RecvWouldBlock \/ RecvError
  \/ KeepShort \/ RejectOversize \/ KeepPartial \/ Deliver

Next ==
  \/ \E b \in Byte : ClientSends(b)
  \/ \E how \in {"fin", "rst"} : ClientEnds(how)
  \/ Accept
  \/ OnRead
  \/ on_read

Spec == Init /\ [][Next]_vars

(* The main loop keeps calling the callback of a readable descriptor, and  *)
(* the callback, once called, runs.                                        *)
FairSpec == Spec /\ WF_vars(OnRead) /\ WF_vars(on_read)

-----------------------------------------------------------------------------
(* Properties *)

(* What the connection has received and no package took yet. *)
Unparsed == IF pc = "parse" THEN buf ELSE recvbuf_

(* server.c:54-80: however the stream is cut into recv calls, the packages *)
(* handed on and then the bytes kept are exactly the bytes received, in    *)
(* order: none lost, duplicated or reordered when a package straddles the  *)
(* end of the buffer.                                                      *)
StreamPreserved == connected => parsed \o Unparsed = seen

WholePackage(pkg) ==
  /\ Len(pkg) >= PACKAGE_HEAD_LEN
  /\ Len(pkg) = PACKAGE_HEAD_LEN + BodyLen(pkg)
  /\ BodyLen(pkg) <= SCTX_MAX_PKG_BODY_LEN

(* server.c:67-77: package_cb_ only ever sees one whole package whose body *)
(* is within SCTX_MAX_PKG_BODY_LEN, never a part of one or two together.   *)
WholePackages == \A k \in 1..Len(delivered) : WholePackage(delivered[k])

(* The start of a package, and not all of it. *)
Incomplete(bytes) ==
  \/ Short(bytes)
  \/ ~Oversize(bytes) /\ PACKAGE_HEAD_LEN + BodyLen(bytes) > Len(bytes)

(* server.c:56-75: what stays in recvbuf_ between two calls (and, because  *)
(* the label close does not reset recvlen_, between two connections) never *)
(* holds a whole package, so no command waits for bytes that may not come. *)
NothingLeftBehind == Incomplete(recvbuf_)

(* server.c:54-80: both together: only whole packages are handed on, and   *)
(* all that are whole.                                                     *)
Framed == WholePackages /\ NothingLeftBehind

(* server.c:38-52, 67: the server ends a connection only because the peer  *)
(* did or because of a body over the limit; in particular recv is never    *)
(* asked for 0 bytes, whose 0 would be taken for the end of the stream.    *)
ClosedForCause ==
  [][connected /\ ~connected' =>
       \/ peer # "open" /\ inbound = <<>>
       \/ pc = "parse" /\ ~Short(buf) /\ BodyLen(buf) > SCTX_MAX_PKG_BODY_LEN]_vars

Package == {pkg \in Seq(Byte) : WholePackage(pkg)}
Ideal == INSTANCE PackageStream WITH bytes <- seen, taken <- Len(parsed)

(* server.c:36-80: recv calls, kept bytes and the two loops together are   *)
(* an ideal parser that sees the stream as one sequence.                   *)
ImplementsPackageStream == Ideal!Spec

(* server.c:36-80: bytes that reached the socket are consumed and the      *)
(* callback returns to the event loop: the two loops of sctx__on_read (the *)
(* while and the goto read) end.                                           *)
Drained == inbound # <<>> ~> inbound = <<>> /\ pc = "idle"
=============================================================================
