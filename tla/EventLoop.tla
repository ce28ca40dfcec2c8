------------------------------ MODULE EventLoop ------------------------------
(***************************************************************************)
(* The main thread: the list of pollers of select.c, and the callbacks of  *)
(* server.c and main.c that edit that list while selecter_poll walks it.   *)
(*                                                                         *)
(* The list lives in a small heap, because selecter_poll frees a poller    *)
(* without unlinking it and selecter_add may then be given the same chunk  *)
(* by malloc.  A pointer "poller_t **" is the slot it points into: head_   *)
(* or the next_ field of a chunk.  The content of packages and frames is   *)
(* left out: a callback either succeeds, fails or ends the connection.     *)
(***************************************************************************)
EXTENDS Integers, FiniteSets

CONSTANTS
  NChunks,    \* bound: chunks of the heap large enough for a poller_t
  Builds,     \* what a freed poller_t may do that is read from the list; see Init
  MaxClients, \* bound: clients that ever connect
  MaxFrames   \* bound: frames waiting in the channel

ASSUME EventLoopAssumption ==
  /\ NChunks \in Nat /\ NChunks >= 3
  /\ Builds \subseteq SUBSET {"abort", "anyFd"}
  /\ MaxClients \in Nat /\ MaxFrames \in Nat

(* Descriptors, in the order main() creates them: accept gives the same    *)
(* number again after close.                                               *)
Listen == 3
Channel == 5
Conn == 7
Fd == {Listen, Channel, Conn}
NoFd == 0

Chunk == 1..NChunks
NULL == 0
Head == NChunks + 1 \* the slot head_

READABLE == "READABLE"
WRITEABLE == "WRITEABLE"

VARIABLES
  build,        \* what freed pollers do in this build
  heap,         \* head_, the chunks, and whether the process has died
  rfs, wfs,     \* the fd_sets of selecter_poll: same stack slot each call
  pc,           \* where the main thread stands in selecter_poll
  sel,          \* its cursor: a slot
  accepted_fd_, \* sctx_->accepted_fd_
  pending,      \* sctx_->sendlen_ # 0
  active_,      \* sctx_->active_
  waiting,      \* clients in the backlog of the listening socket
  clients,      \* clients that have connected so far (bound)
  input,        \* what the connection has to read: "none", "data" or "end"
  frames,       \* frame addresses in the channel
  closes        \* history: connections closed so far

loop == <<pc, sel>>
sets == <<rfs, wfs>>
server == <<accepted_fd_, pending>>
world == <<waiting, clients, input, frames>>
vars == <<build, heap, sets, loop, server, active_, world, closes>>

Slot == Chunk \cup {Head}
Poller == [fd_ : Fd \cup {NoFd}, sel_fn_ : SUBSET {READABLE, WRITEABLE},
           next_ : Chunk \cup {NULL}, state : {"fresh", "live", "freed"}]

TypeOK ==
  /\ build \in Builds
  /\ heap \in [head_ : Chunk \cup {NULL}, node : [Chunk -> Poller], dead : BOOLEAN]
  /\ rfs \subseteq Fd /\ wfs \subseteq Fd
  /\ pc \in {"poll", "read", "write", "reap", "exit", "killed"}
  /\ sel \in Slot
  /\ accepted_fd_ \in {0, Conn}
  /\ pending \in BOOLEAN
  /\ active_ \in BOOLEAN
  /\ clients \in 0..MaxClients
  /\ waiting \in 0..clients
  /\ input \in {"none", "data", "end"}
  /\ frames \in 0..MaxFrames
  /\ closes \in 0..clients

-----------------------------------------------------------------------------
(* The list *)

At(h, s) == IF s = Head THEN h.head_ ELSE h.node[s].next_

Store(h, s, c) ==
  IF s = Head THEN [h EXCEPT !.head_ = c] ELSE [h EXCEPT !.node[s].next_ = c]

Dead(h) == [h EXCEPT !.dead = TRUE]

mutFindSlotTail(h, fd) ==
  LET walk[s \in Slot] == IF At(h, s) = NULL THEN s ELSE walk[At(h, s)]
  IN  walk[Head]

(* The slot a walk from head_ ends in: the first one that holds NULL or a  *)
(* poller of fd.                                                           *)
FindSlot(h, fd) ==
  LET walk[s \in Slot] ==
        LET c == At(h, s)
        IN  IF c = NULL \/ h.node[c].fd_ = fd THEN s ELSE walk[c]
  IN  walk[Head]

(* malloc(sizeof(poller_t)): any chunk freed before, or the next one that  *)
(* was never used.                                                         *)
Malloc(h) ==
  {c \in Chunk : \/ h.node[c].state = "freed"
                 \/ /\ h.node[c].state = "fresh"
                    /\ \A d \in 1..(c - 1) : h.node[d].state # "fresh"}

(* The chunk is written through *sel: when malloc returns the chunk sel    *)
(* itself points into, next_ = NULL makes *sel NULL for line 47.           *)
Append(h, s, c, fd, fn) ==
  IF s = c THEN Dead(h)
  ELSE [Store(h, s, c) EXCEPT
          !.node[c] = [fd_ |-> fd, sel_fn_ |-> {fn}, next_ |-> NULL, state |-> "live"]]

selecter_add(h, fd, fn) ==
  LET s == FindSlot(h, fd)
      c == At(h, s)
  IN  IF c = NULL THEN {Append(h, s, new, fd, fn) : new \in Malloc(h)}
      ELSE {[h EXCEPT !.node[c].sel_fn_ = @ \cup {fn}]}

mutSelecterRemoveNothing(h, fd, fn) == h

selecter_remove(h, fd, fn) ==
  LET c == At(h, FindSlot(h, fd))
  IN  IF c = NULL THEN h ELSE [h EXCEPT !.node[c].sel_fn_ = @ \ {fn}]

(* After a callback returned ret: sel_fn_ ^= fn, through the cursor, which *)
(* is read again.                                                          *)
Toggle(h, fn, ret) ==
  LET c == At(h, sel)
  IN  CASE ret = 0 -> h
        [] ret = 1 /\ c = NULL -> Dead(h)
        [] ret = 1 /\ c # NULL ->
             [h EXCEPT !.node[c].sel_fn_ = IF fn \in @ THEN @ \ {fn} ELSE @ \cup {fn}]

(* The pollers a walk from head_ meets. *)
OnList(h) ==
  LET walk[s \in Slot] ==
        LET c == At(h, s) IN IF c = NULL THEN {} ELSE {c} \cup walk[c]
  IN  walk[Head]

(* In one build a freed poller looks inert; in another its fd_ is anything *)
(* and freeing it again aborts.  Nothing but build decides.                *)
Init ==
  /\ build \in Builds
  /\ heap = [head_ |-> 1, dead |-> FALSE,
             node |-> [c \in Chunk |->
               CASE c = 1 -> [fd_ |-> Listen, sel_fn_ |-> {READABLE},
                              next_ |-> 2, state |-> "live"]
                 [] c = 2 -> [fd_ |-> Channel, sel_fn_ |-> {READABLE},
                              next_ |-> NULL, state |-> "live"]
                 [] OTHER -> [fd_ |-> NoFd, sel_fn_ |-> {},
                              next_ |-> NULL, state |-> "fresh"]]]
  /\ rfs \in SUBSET Fd /\ wfs \in SUBSET Fd  \* never FD_ZEROed
  /\ pc = "poll" /\ sel = Head
  /\ accepted_fd_ = 0 /\ pending = FALSE /\ active_ = TRUE
  /\ waiting = 0 /\ clients = 0 /\ input = "none" /\ frames = 0
  /\ closes = 0

-----------------------------------------------------------------------------
(* The clients, the camera thread and signals *)

Running == ~heap.dead /\ pc \notin {"exit", "killed"}

ClientConnects ==
  /\ Running /\ clients < MaxClients
  /\ waiting' = waiting + 1 /\ clients' = clients + 1
  /\ UNCHANGED <<heap, sets, loop, server, active_, input, frames, closes>>

ClientSends ==
  /\ Running /\ accepted_fd_ # 0
  /\ \/ input = "none" /\ input' \in {"data", "end"}
     \/ input = "data" /\ input' = "end"
  /\ UNCHANGED <<heap, sets, loop, server, active_, waiting, clients, frames, closes>>

CameraSends ==
  /\ Running /\ frames < MaxFrames
  /\ frames' = frames + 1
  /\ UNCHANGED <<heap, sets, loop, server, active_, waiting, clients, input, closes>>

signal_handler ==
  /\ Running /\ active_
  /\ active_' = FALSE
  /\ UNCHANGED <<heap, sets, loop, server, world, closes>>

-----------------------------------------------------------------------------
(* select(2), over the descriptors below nfds + 1 *)

Interest(h, fn) ==
  {h.node[c].fd_ : c \in {d \in OnList(h) : fn \in h.node[d].sel_fn_}}

(* The fd_ of a freed poller may be whatever the allocator put there.      *)
Nfds(h) ==
  {CHOOSE m \in 0..Conn : LET fds == {h.node[c].fd_ : c \in OnList(h)} \cup {0}
                          IN  m \in fds /\ \A n \in fds : n <= m}
  \cup IF "anyFd" \in build /\ \E c \in OnList(h) : h.node[c].state = "freed"
       THEN {Conn} ELSE {}

Open(fd) == fd # Conn \/ accepted_fd_ # 0

Readable(fd) ==
  \/ fd = Listen /\ waiting > 0
  \/ fd = Channel /\ frames > 0
  \/ fd = Conn /\ accepted_fd_ # 0 /\ input # "none"

(* What the two sets are once selecter_poll has added its pollers. *)
WantRead == rfs \cup Interest(heap, READABLE)
WantWrite == wfs \cup Interest(heap, WRITEABLE)
BadFd(nfds) == \E fd \in WantRead \cup WantWrite : fd <= nfds /\ ~Open(fd)

(* EBADF: selecter_poll returns at once and the sets keep their bits. *)
PollFails ==
  /\ Running /\ pc = "poll" /\ active_
  /\ \E nfds \in Nfds(heap) : BadFd(nfds)
  /\ rfs' = WantRead /\ wfs' = WantWrite
  /\ UNCHANGED <<heap, loop, server, active_, world, closes>>

mutPollIgnoresActive ==
  /\ Running /\ pc = "poll"
  /\ \E nfds \in Nfds(heap) :
       /\ ~BadFd(nfds)
       /\ rfs' = {fd \in WantRead : fd <= nfds /\ Readable(fd)}
       /\ wfs' \in SUBSET {fd \in WantWrite : fd <= nfds}
  /\ pc' = IF rfs' \cup wfs' = {} THEN "poll" ELSE "read"
  /\ sel' = Head
  /\ UNCHANGED <<heap, server, active_, world, closes>>

(* The sets become the ready descriptors; when there is none (a timeout)   *)
(* selecter_poll returns.  A socket is writable when the kernel says so.   *)
Poll ==
  /\ Running /\ pc = "poll" /\ active_
  /\ \E nfds \in Nfds(heap) :
       /\ ~BadFd(nfds)
       /\ rfs' = {fd \in WantRead : fd <= nfds /\ Readable(fd)}
       /\ wfs' \in SUBSET {fd \in WantWrite : fd <= nfds}
  /\ pc' = IF rfs' \cup wfs' = {} THEN "poll" ELSE "read"
  /\ sel' = Head
  /\ UNCHANGED <<heap, server, active_, world, closes>>

(* The main loop ends; main() then releases the server. *)
Exit ==
  /\ Running /\ pc = "poll" /\ ~active_
  /\ pc' = "exit"
  /\ UNCHANGED <<heap, sets, sel, server, active_, world, closes>>

-----------------------------------------------------------------------------
(* The walk of selecter_poll over the list *)

Current == heap.node[At(heap, sel)]
Fires(fn, set) ==
  /\ At(heap, sel) # NULL
  /\ fn \in Current.sel_fn_ /\ Current.fd_ \in set

EndOfList ==
  /\ Running /\ pc = "read" /\ At(heap, sel) = NULL
  /\ pc' = "poll"
  /\ UNCHANGED <<heap, sets, sel, server, active_, world, closes>>

SkipRead ==
  /\ Running /\ pc = "read" /\ At(heap, sel) # NULL /\ ~Fires(READABLE, rfs)
  /\ pc' = "write"
  /\ UNCHANGED <<heap, sets, sel, server, active_, world, closes>>

ReadReturns == pc' = "write" /\ UNCHANGED <<sets, sel, active_, clients>>

(* accept fails when no client is waiting, when the client is already gone *)
(* or, dropping it, when addr_len, which is not initialised, is bad.       *)
on_accept ==
  /\ Running /\ pc = "read" /\ Fires(READABLE, rfs) /\ Current.fd_ = Listen
  /\ IF accepted_fd_ # 0
     THEN heap' = Toggle(heap, READABLE, 1) /\ UNCHANGED <<accepted_fd_, waiting, input>>
     ELSE /\ waiting' = IF waiting > 0 THEN waiting - 1 ELSE 0
          /\ \/ UNCHANGED <<heap, accepted_fd_, input>>
             \/ /\ waiting > 0
                /\ accepted_fd_' = Conn /\ input' = "none"
                /\ \E h \in selecter_add(heap, Conn, READABLE) :
                     heap' = Toggle(h, READABLE, 1)
  /\ UNCHANGED <<pending, frames, closes>>
  /\ ReadReturns

mutOnReadForgetsListen ==
  /\ Running /\ pc = "read" /\ Fires(READABLE, rfs) /\ Current.fd_ = Conn
  /\ \/ /\ input' = IF input = "data" THEN "none" ELSE input
        /\ UNCHANGED <<heap, accepted_fd_, closes>>
     \/ /\ input # "none"
        /\ accepted_fd_' = 0 /\ input' = "none" /\ closes' = closes + 1
        /\ heap' = Toggle(heap, READABLE, 1)
  /\ UNCHANGED <<pending, waiting, frames>>
  /\ ReadReturns

(* sctx__on_read: either what there is to read was consumed (or recv       *)
(* failed), or the connection ends, at the end of the stream or at a       *)
(* package that is too long.                                               *)
on_read ==
  /\ Running /\ pc = "read" /\ Fires(READABLE, rfs) /\ Current.fd_ = Conn
  /\ \/ /\ input' = IF input = "data" THEN "none" ELSE input
        /\ UNCHANGED <<heap, accepted_fd_, closes>>
     \/ /\ input # "none"
        /\ accepted_fd_' = 0 /\ input' = "none" /\ closes' = closes + 1
        /\ \E h \in selecter_add(heap, Listen, READABLE) :
             heap' = Toggle(h, READABLE, 1)
  /\ UNCHANGED <<pending, waiting, frames>>
  /\ ReadReturns

(* server_context_send, with a connection: everything is sent; or some of  *)
(* it is left in sendbuf_; or send(2) fails, which ends the connection or, *)
(* by SIGPIPE, the process.                                                *)
Send ==
  \/ ~pending /\ ReadReturns /\ UNCHANGED <<heap, server, input, closes>>
  \/ /\ pending' = TRUE
     /\ heap' \in selecter_add(heap, Conn, WRITEABLE)
     /\ ReadReturns /\ UNCHANGED <<accepted_fd_, input, closes>>
  \/ /\ ~pending
     /\ accepted_fd_' = 0 /\ input' = "none" /\ closes' = closes + 1
     /\ heap' \in selecter_add(selecter_remove(heap, Conn, READABLE), Listen, READABLE)
     /\ ReadReturns /\ UNCHANGED pending
  \/ /\ ~pending
     /\ pc' = "killed"
     /\ UNCHANGED <<heap, sets, sel, server, active_, clients, input, closes>>

(* One frame is taken; it is sent when there is a connection. *)
camera_proc ==
  /\ Running /\ pc = "read" /\ Fires(READABLE, rfs) /\ Current.fd_ = Channel
  /\ frames > 0 /\ frames' = frames - 1
  /\ IF active_ /\ accepted_fd_ # 0 THEN Send
     ELSE ReadReturns /\ UNCHANGED <<heap, server, input, closes>>
  /\ UNCHANGED waiting

mutOnWriteKeepsInterest ==
  /\ Running /\ pc = "write" /\ Fires(WRITEABLE, wfs)
  /\ pc' = "reap"
  /\ pending' \in {pending, FALSE}
  /\ UNCHANGED <<heap, sets, sel, accepted_fd_, active_, world, closes>>

(* sctx__on_write: sendbuf_ is emptied (return 1), or bytes are left, or   *)
(* there were none, or send(2) fails: on descriptor 0 when the connection  *)
(* has been closed since; or it raises SIGPIPE.                            *)
on_write ==
  /\ Running /\ pc = "write" /\ Fires(WRITEABLE, wfs)
  /\ \/ pc' = "reap" /\ UNCHANGED <<heap, pending>>
     \/ /\ pending /\ accepted_fd_ # 0
        /\ pc' = "reap" /\ pending' = FALSE
        /\ heap' = Toggle(heap, WRITEABLE, 1)
     \/ /\ pending /\ accepted_fd_ # 0
        /\ pc' = "killed" /\ UNCHANGED <<heap, pending>>
  /\ UNCHANGED <<sets, sel, accepted_fd_, active_, world, closes>>

(* The list may have been cut at the cursor by the read callback: then     *)
(* line 138 reads through NULL.                                            *)
SkipWrite ==
  /\ Running /\ pc = "write" /\ ~Fires(WRITEABLE, wfs)
  /\ pc' = "reap"
  /\ heap' = IF At(heap, sel) = NULL THEN Dead(heap) ELSE heap
  /\ UNCHANGED <<sets, sel, server, active_, world, closes>>

mutReapSkipsOne ==
  /\ Running /\ pc = "reap"
  /\ pc' = "read" /\ sel' = Current.next_
  /\ UNCHANGED <<heap, sets, server, active_, world, closes>>

(* A poller without interest is freed and stays on the list.  Reading one  *)
(* that was freed before is undefined: it looks inert, or it is freed      *)
(* again, which the allocator answers with abort().                        *)
Reap ==
  /\ Running /\ pc = "reap"
  /\ pc' = "read" /\ sel' = At(heap, sel)
  /\ \/ /\ Current.sel_fn_ # {} \/ Current.state = "freed"
        /\ UNCHANGED heap
     \/ /\ Current.sel_fn_ = {} /\ Current.state = "live"
        /\ heap' = [heap EXCEPT !.node[At(heap, sel)] =
                      [fd_ |-> NoFd, sel_fn_ |-> {}, next_ |-> @.next_, state |-> "freed"]]
     \/ /\ Current.state = "freed" /\ "abort" \in build
        /\ heap' = Dead(heap)
  /\ UNCHANGED <<sets, server, active_, world, closes>>

-----------------------------------------------------------------------------
Main ==
  \/ PollFails \/ Poll \/ Exit
  \/ EndOfList \/ SkipRead \/ on_accept \/ on_read \/ camera_proc
  \/ SkipWrite \/ on_write \/ Reap

Next ==
  /\ Main \/ ClientConnects \/ ClientSends \/ CameraSends \/ signal_handler
  /\ UNCHANGED build

Spec == Init /\ [][Next]_vars

(* The main thread is never blocked for good: select has a timeout. *)
FairSpec == Spec /\ WF_vars(Main /\ UNCHANGED build)

-----------------------------------------------------------------------------
(* Properties *)

(* A walk over the list meets a poller of fd interested in fn. *)
Watched(fd, fn) ==
  \E c \in OnList(heap) : heap.node[c].fd_ = fd /\ fn \in heap.node[c].sel_fn_

AtPoll == Running /\ pc = "poll"

(* select.c:26-52: however chunks are freed and reused under the walk, the *)
(* list never holds two pollers of one descriptor, so a callback is called *)
(* once per ready descriptor and interest is never split between two.      *)
OnePollerPerFd ==
  \A c, d \in OnList(heap) :
    /\ heap.node[c].state = "live" /\ heap.node[d].state = "live"
    /\ heap.node[c].fd_ = heap.node[d].fd_
    => c = d

(* server.c:82-88, 115-134, 190-197: when the loop goes back to select, it *)
(* listens for a client exactly when it has none and reads from the        *)
(* connection exactly while it has one, through every path that opens or   *)
(* closes a connection, with the list being cut or not.                    *)
InterestFollowsConnection ==
  AtPoll => /\ Watched(Listen, READABLE) <=> accepted_fd_ = 0
            /\ Watched(Conn, READABLE) <=> accepted_fd_ # 0

(* select.c:26-52, 144-149, main.c:68: as long as no connection was closed *)
(* the poller of the camera channel stays on the list, and no chunk is     *)
(* reused so that the main thread follows a null pointer, unless the build *)
(* aborts by itself.                                                       *)
SoundUntilClose ==
  closes = 0 =>
    /\ Watched(Channel, READABLE)
    /\ heap.dead => "abort" \in build

(* server.c:91-113, 206-215: until the first close, the loop waits to      *)
(* write exactly while sendbuf_ holds bytes: none are stuck, and there is  *)
(* no busy loop on a writable descriptor.                                  *)
WriteInterestUntilClose ==
  AtPoll /\ closes = 0 => (Watched(Conn, WRITEABLE) <=> pending)

(* select.c:26-52, server.c:91-113: until the first close, nothing is lost *)
(* of the list, and all of its pollers ask for what is needed.             *)
UntilClose == SoundUntilClose /\ WriteInterestUntilClose

(* main.c:134, server.c:38, 121: the read callbacks are never called on    *)
(* ready bits that an earlier callback of the same walk made stale: recv   *)
(* of the blocking channel finds a frame, and recv of accepted_fd_ is not  *)
(* a recv of descriptor 0; nor is accept called while there is one.        *)
ReadyBitsAreFresh ==
  Running /\ pc = "read" /\ Fires(READABLE, rfs) =>
    /\ Current.fd_ = Listen => accepted_fd_ = 0
    /\ Current.fd_ = Channel => frames > 0
    /\ Current.fd_ = Conn => accepted_fd_ # 0

(* select.c:122-127, where a freed poller looks inert: select only fails   *)
(* with EBADF when the connection was closed by its reader with output     *)
(* pending, whose poller keeps asking to write; a stale bit of rfs or wfs  *)
(* never does it.                                                          *)
PollFailsOnlyAfterLostOutput ==
  [][PollFails /\ build = {} => accepted_fd_ = 0 /\ Watched(Conn, WRITEABLE)]_vars

(* The poller of a closed connection asks to write: select fails for good. *)
Stuck == accepted_fd_ = 0 /\ Watched(Conn, WRITEABLE)

(* server.c:115-134: a client that waits while there is no connection is   *)
(* accepted, or dropped by accept, unless the process ends or select has   *)
(* come to fail for good.                                                  *)
AcceptsWaiting ==
  accepted_fd_ = 0 /\ waiting > 0
    ~> accepted_fd_ # 0 \/ waiting = 0 \/ ~Running \/ Stuck \/ build # {}

(* main.c:126-137, select.c:133-136: a frame in the channel is taken,      *)
(* unless moreover the poller of the channel has been cut off the list.    *)
TakesFrames ==
  frames > 0
    ~> \/ frames = 0 \/ ~Watched(Channel, READABLE)
       \/ ~Running \/ Stuck \/ build # {}

(* server.c:115-134, main.c:126-137: neither a client nor a frame waits    *)
(* for ever in front of a loop that goes on.                               *)
NobodyWaits == AcceptsWaiting /\ TakesFrames

(* main.c:72-74, 87-88: once a signal has cleared active_ the main loop    *)
(* ends: no walk over the list is endless, and select failing over and     *)
(* over does not keep it from looking.                                     *)
Stops == ~active_ ~> ~Running

(* server.c:88, "return 1; // remove sel_readable": when sctx__on_read     *)
(* closes the connection, the poller it was called for is left without     *)
(* SEL_READABLE.  It is not when line 87 gets the freed chunk back that    *)
(* the cursor points into: then *sel is NULL at select.c:135.              *)
RemovesReadable ==
  [][pc = "read" /\ Fires(READABLE, rfs) /\ Current.fd_ = Conn /\ accepted_fd_' = 0
       => READABLE \notin heap'.node[At(heap, sel)].sel_fn_]_vars
=============================================================================
