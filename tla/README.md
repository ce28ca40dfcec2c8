# Verification of raspberry-car

raspberry-car is the program of a remote-controlled car: a Raspberry Pi
listens on TCP port 5760 for one client at a time, turns its packages into
levels of the pins and PWM channels that drive two motors, and sends it the
pictures of a camera as JPEG.  It is about 1300 lines of C (`main.c`,
`server.c`, `select.c`, `car.c`, `camera.c`, `iobyte.c`, `package.h`) on top of
a vendored copy of the bcm2835 library.  It has no tests and no documentation
but a few comments, so the properties below are what its code is evidently
meant to do and what those comments say.

This directory holds TLA+ modules for its parts, TLC configurations that check
them on small instances, and proofs for all instances, checked by TLAPS.

    tlc -config CarControl.cfg MCCarControl.tla      # a run; see the table
    tlapm CarControlProofs.tla                       # a module of proofs

## 1. The system

Two threads and a signal handler:

* the **main thread** runs `selecter_poll` in a loop; everything the server
  does is a callback of it;
* the **camera thread** waits for the device, compresses a picture, and sends
  the *address* of the frame through a socket pair to the main thread, which
  sends the frame to the client and frees it;
* **`signal_handler`** (SIGINT, SIGTERM) clears `active_` and unmaps the
  registers of the BCM2835, whatever the main thread is doing.

| Component | State | Operations | Talks to |
|---|---|---|---|
| Package framing (`server.c:27-89`, `package.h`) | `recvbuf_`, `recvlen_`, `accepted_fd_` | `sctx__on_read` | called by the event loop; calls `package_proc`; adds the listening poller |
| Send queue (`server.c:91-113, 180-218`) | `sendbuf_`, `sendlen_`, `sendbuf_capacity_` | `server_context_send`, `sctx__on_write` | called by `camera_proc` and the event loop; adds and removes pollers |
| Event loop (`select.c`, callbacks) | `head_` and its pollers, `rfs`, `wfs` | `selecter_add`, `_remove`, `_poll`, `sctx__on_accpect` | all callbacks |
| Motor control and process life (`main.c`, `car.c`) | `state_`, `sctx_`, `active_`, pins, PWM data, mapped registers | `main`, `package_proc`, `car_*`, `signal_handler` | bcm2835 |
| Frame channel (`camera.c:43-114`, `main.c:126-167`) | the frame of each thread, the socket pair, the heap of frames | `camera__thread_proc`, `camera_proc` | send queue, event loop |
| JPEG destination (`camera.c:288-439`) | `tmpframe_`, `written`, the manager's cursor and buffer | `init_destination`, `empty_output_buffer`, `term_destination` | libjpeg |
| Byte streams (`iobyte.c`) | `buffer_`, `pos_`, `capacity_` | `ibstream_*`, `obstream_*` | `package_proc` uses `ibstream_read_int16` only |
| Camera device (`camera.c:135-265, 405-439`) | the device, the owner of each buffer | `camera_open`, `camera_frame`, the thread's `ioctl`s, `camera_close` (never called) | V4L2 |
| bcm2835, as the car uses it (`car.c:27-51`) | pointers to register blocks, the registers | init, close, `gpio_fsel`, `pwm_set_clock`, `_mode`, `_range`, pins, PWM data | the hardware, other processes |
| bcm2835, the peripherals | their controllers' FIFOs and status, the timer, dividers | I2C, SPI0, auxiliary SPI, delays, speeds | the hardware |

What makes it hard:

* **Callbacks edit the list that is being walked.**  `selecter_poll` frees a
  poller without interest but leaves it on the list, and reads `*sel` again
  after each callback; `malloc` may hand the chunk out again meanwhile.
* **A signal between any two instructions** unmaps the registers under a
  command, or finds `sctx_` null.
* **Ownership passes between threads** as an address in a socket pair that
  blocks when full; errors leave stale addresses behind.
* **Partial reads and writes** at every byte of the stream; buffers, lengths
  and pollers that outlive the connection they belong to.
* **Registers outlive processes.**  `main` initialises the car before it finds
  out that the port is taken, so a second start works on the registers of the
  running one; fields of a word are set by a read, a change and a write.
* **Buffers and FIFOs shared with hardware** that works on while the program
  looks: V4L2 buffers, the controllers of I2C and SPI, a timer read in halves.
* **Widths**: int16 to uint32_t, lengths unsigned on one side and signed on
  the other, positions that wrap, dividers cut to 16 bits.

## 2. The modules

Names follow the source.  Operators called `mut...` are variants of the
definition that follows them, each with one plausible mistake, that no
specification uses: they show that a property is able to fail.

### ServerRecv — framing

`recvbuf_` is the sequence of its first `recvlen_` bytes, `buf` is what the
call still has to parse (`buf`, `len`), and `pc` stands at the label `read`, in
the parsing loop, or outside.  `RecvBytes`, `RecvCloses`, `RecvWouldBlock` and
`RecvError` are the outcomes of `recv` at line 38; `KeepShort`,
`RejectOversize`, `KeepPartial` and `Deliver` the branches of lines 56-79;
`CloseConnection` is the label `close`, which does not reset `recvlen_`: `seen`
starts with the bytes left over, as the next connection really does.  A client
sends single bytes and the callback may run after any of them, so every way of
cutting the stream into `recv` calls occurs.  `body_len_` is a function constant
of the header, so nothing depends on its encoding.

`PackageStream` is what this half of a connection promises: a parser that sees the
bytes as one sequence and hands on the whole package that stands first, before
anything more is received.  `ServerRecv` implements it
(`ImplementsPackageStream`, with `bytes <- seen` and `taken <- Len(parsed)`): how
`recv` cuts the stream, the bytes moved to the front of `recvbuf_` and the two
loops are not visible in the packages.

### SendQueue and BytePipe — sending

One call is one action, since all of it runs in the main thread.  The kernel has
`SockBuf` bytes of room and takes any part of a send (`Taken`); 0 is EAGAIN.
`SendDirect` and `SendBehind` are the two ways through `server_context_send`,
`SendFails` its error path, `FlushAll` and `FlushPart` the two ways through
`sctx__on_write`.  `FlushPart` does what line 110 does: the bytes that remain are
copied behind `sendlen_`, so the next flush sends bytes from the front again.
Neither a close nor `sctx__on_accpect` touches `sendbuf_`, so `handed` starts with
what the last connection left (`carried` bytes): the next client is sent that
first.  Whether it has a writer then depends on the list of pollers, as EventLoop
shows.  If the close and the accept fall in one walk of the loop, the writer is still
there.  If the listener's `selecter_add` (`server.c:87`) got a chunk back that cuts the
closed poller off the list, there is none (`on_read` leaves `writer` or clears it), and
the bytes wait until the first frame for the new client registers one (`Inherited`).
Otherwise select fails for good and nobody connects, which `Connect` need not do.

`BytePipe` is the abstract specification: bytes come out in the order they were
handed in, behind those the last connection left (`Reconnect`).  A flush the kernel
takes only a part of (`Split`) may mix up what was handed over so far and nothing
later: `mixed` is that number of bytes, of which only the count is right.  The
refinement mapping is `delivered <- wire`.

### EventLoop — pollers and callbacks

The list lives in a heap of `NChunks` chunks; `sel` is a *slot* (a
`poller_t **`), `head_` or the `next_` of a chunk; `At` and `Store` go through a
slot.  `Malloc` returns any freed chunk or the next fresh one.  One action per
step of the walk: `EndOfList`, `SkipRead` or a read callback, `SkipWrite` or
`on_write`, and `Reap` (lines 144-151).  `Toggle` applies a callback's return
value to the poller that the slot points to *now*.  `rfs` and `wfs` start with
any content and keep their bits when select fails.  What a freed poller looks
like when it is read is undefined; `build`, chosen at the start from `Builds`,
says what it does:

* `{}`: it is inert.  So it is with the 32-bit glibc of 2.29 to 2.33: the first
  two words of a freed chunk are the allocator's, `sel_fn_` is the second one, an
  aligned pointer with neither interest bit set, and `next_` is not touched;
* `{"abort", "anyFd"}`: its `fd_` may be any descriptor, and freeing it again makes
  the allocator abort.

An allocator that leaves an interest bit set there and a number beyond FD_SETSIZE
in `fd_` makes `FD_SET` write outside the set; from there on anything can happen,
and the model stops short of it.

Contents are left out: a callback consumes, fails, or ends the connection; the
two modules above say when.  Each `send`, in `camera_proc` and in `on_write`, may
also kill the process by SIGPIPE.

### CarControl — motors and the life of the process

One action is one access to a register.  `Start` takes a command out of a
package, `GpioWrite` writes its four pins in the order of `car.c`, `PwmCheck` and
`PwmStore` are the test and the write of `bcm2835_pwm_set_data`; `signal_handler`
may come between any two.  `maps` says which register blocks are mapped: all
for root, GPIO only for others, none after a failed init or a close.  `pins`
and `data` start with whatever an earlier process left.  A signal that finds
`sctx_` null, and an access through an unmapped pointer, crash; `PWM_RANGE` is
the 1024 of `car_init` and `U32` is 2^32.

### FrameChannel — the two threads

Frames are numbered in the order of their capture.  `cam` and `main` say where
the threads stand, `channel` holds the addresses in the socket pair.  An action
is what a thread does between two accesses to shared things.  `CaptureFails`
leaves `frame` alone: it is a local of the loop body that keeps its value in
practice.  `polled` says that the event loop comes to the poller of the channel.
It no longer does once that poller has been cut off the list, or select has come to
fail for good, both of which EventLoop shows: `ClientComesOrGoes`, what the loop
does between two frames, and a `SendToClient` that closes the connection may make it
false.  Not modelled: that `malloc` may give the address of a freed
frame to a new one (numbers are never reused), and a failing `malloc`.

### CameraDevice and JpegDest — from the driver to a frame

`JpegDest` has no behaviour of its own: it is the operations of the destination
manager.  `Emit` is libjpeg storing a byte; the three callbacks, the static
`written` and `tmpframe_` are as in `camera.c:288-336`; a byte carries the number
of its image, so bytes of an earlier image are seen.

`CameraDevice` runs them under the device.  `step` goes through `camera_open`
(one action per call that may fail) and then through the camera thread's loop;
`owner` says of each buffer whether it is unmapped, the program's, queued or
filled.  `Fill` is the driver.  `fits` is false when the driver adjusted the format,
which `camera_open` notices only in the structure: the compression may then
read past a buffer (`ReadsPast`), and whether it does is the hardware's choice.
`Compress` interleaves the callbacks with the driver, one byte at a time.
A failed dequeue returns without a buffer, as in FrameChannel, or crashes.

### CarStart — car_init in several processes

The calls of `car_init` are a sequence (`Calls`), each with its steps: a field of
a shared word is read (`ReadWord`) and written back (`WriteWord`) in two actions;
the PWM clock is stopped, waited for, divided and enabled.  Two processes run
it, start again after they end, and may end anywhere.  `done` is a history
variable: the blocks a process has configured since the last disturbance, which
is a write back of a stale word or an end within `car_init`.  CarControl then
takes the pins and channels as configured.

### Bcm2835 and its peripherals

`Bcm2835` is a program that uses one of five peripherals, each a module: they
share no register and no state of the library, so all interleavings between
them are left out by choosing the `unit` at the start.

* `I2c`: the four transfers of `bcm2835.c:1287-1623` as loops over the status
  register, against a controller that shifts one byte at a time.  The program
  may be late: `missed` records that a repeated start was requested when the
  write had already ended.  No call asks whether the bus is idle, so the next one may
  overlap the transfer at work (`overlaps`): `Begin` clears and fills the FIFO under
  it, `Start` requests a transfer of its own, and what the running one does in
  between counts for the new call.  `Stale` is a byte of a read that an earlier call
  requested.
* `Spi0`, `AuxSpi`: what a call has stored, what the controller has exchanged,
  and what was read back; bytes carry the number of their call, so answers of an
  earlier call are seen.  `Garbage` is what an empty FIFO returns.
* `SysTimer`: the counter of two words, the retry of `st_read`, the sleep and the
  loop of a delay.  While the program reads the timer the low word wraps at
  most once (it takes more than an hour).
* `ClockDividers`: the three ways a speed becomes a divider.  Two of them divide by a
  speed of zero, which leaves some divider or ends the process (`DividesByZero`).

The controllers are external, modelled from how the code uses them; the top of
each module says what is taken from that.

### ByteStream — iobyte.c

A writer puts integers and strings into an obstream, and then a reader reads the
same types back.  `B` and `U32` stand for 2^8 and 2^32, so that sign bits and
wrap-around come within reach of short strings.  `obstream_write` is a set of
outcomes, since `realloc` may fail.  At a capacity of 0 it is asked for no bytes: it
gives a block without room, which the write overruns, or frees the buffer and
returns NULL, and `buffer_` is left dangling (`Refuse` counts the frees).  An overrun or
a second free ends the model: what the program does afterwards is undefined.

## 3. The runs

| Run | Checks | Bounds, and why they are enough | States |
|---|---|---|---|
| `server_recv` | implements `PackageStream`; order, whole packages, nothing left behind, closing, progress | head 2, limit 2, buffer 4 (as small as the assumption allows), 6 bytes of 4 values: packages of every legal length and one over the limit, three packages, two or more connections | 541 503 |
| `send_queue` | the pipe, the writer, the count, flushing | two frames of 3 and 2 distinct bytes, room for 3, capacity 5, 3 frames, 2 clients: split sends and flushes, growth, overruns, a second client with and without leftovers and writer | 117 136 |
| `event_loop` | interest, fresh bits, progress of clients and frames, stopping | 4 chunks for 3 descriptors, 3 clients, 1 frame: two closes suffice for reuse to truncate the list, the third client is served by the truncated one; both builds | 454 792 |
| `car_control` | pins, order of writes, crashes, ending | speeds -1, 3, 7 with range 4 and width 16; batches of 2: interrupted and reversed commands | 106 050 |
| `frame_channel` | ownership, leaks, order, blocking | channel of 2, 4 frames, 1 failure: full channel, each thread holding one | 248 870 |
| `camera` | how `camera_open` ends, who has a buffer, the frame is the image, images go on | buffer 3, `tmpframe_` 7, images of up to 8 bytes, 3 images, 3 V4L2 buffers, 1 failed dequeue: whole and partial buffers, overflow, a driver that runs short | 115 740 |
| `car_start` | functions, modes and ranges kept, the wait for the clock | 2 processes, 3 starts: two at once, and a third that repairs or disturbs | 215 926 |
| `byte_stream` | reading back, overruns, frees | `B` 4, `U32` 48, strings up to 15 bytes, capacities at 0, at the ends and between, 3 items | 108 820 |
| `bcm2835` | transfers, delays, speeds, returning | FIFOs of 2; I2C 3 bytes and 2 calls, SPI 5 bytes and 2 calls, auxiliary SPI words of 3 bytes, 8 bytes and 3 calls: longer than a FIFO, a second call over what the first left; low word of 4 with a counter to 11: two wraps; 100 Hz core, 5 bits of divider: every speed, all zeros | 273 577 |

Three more runs are expected to find a violation, each of one sentence of a
comment or a header (`findings` in PROJECT.json quotes both sides):

* `event_loop_removes` — "remove sel_readable" (`server.c:88`): the return value
  is applied to `*sel`, read again after the callback; when the listener's new poller is
  the freed chunk that the cursor points into, that is NULL, and `select.c:135`
  dereferences it.  It takes two closes, and 3 chunks suffice;
* `car_data_in_range` — "Can vary from 0 to RANGE" (`bcm2835.h:1981`): speeds are
  not limited, and negative ones become huge;
* `car_speeds_on_pins` — P1-12 is PWM channel 0 and P1-35 channel 1
  (`bcm2835.h:895, 929`): by the names in `car.c` the speeds are swapped (unless
  the wiring swaps them back).

What the passing runs show, in short.

* The *framing* is right for every cut, and its buffer cannot fill up; what is
  left of one connection does start the next.
* The *send side* is right but for the bytes that were handed over when the kernel
  takes a part of a flush: of these the client gets as many, but wrong ones.  A
  client may first get what an earlier one left.
* The *event loop* keeps its interest in step with the connection even with a
  truncated list; what a truncated list loses is the camera (`UntilClose`
  holds up to the first close only), and with pending output a reader's close
  makes select fail for good, unless the list is cut or the next client is accepted
  in the same walk.  But for these, neither a client nor a frame waits for ever
  (`NobodyWaits`).
* The *motors* follow the last command.  A crash has one of three causes
  (`CrashHasCause`): a signal while `sctx_` is null, a failed `car_init` whose result
  `main` ignores, or the handler that closes the library under a command.
* The *configuration* of the pins survives a second start, which stops only the
  PWM clock for a moment, unless the two interleave within a word or one ends half way
  (`Configured`); the wait for the clock is endless only when another process
  has enabled it again (`ClockWaitEnds`).
* The *frames* have one owner until a dequeue fails; there are two leaks, and no
  other.
* The *camera* thread runs only over buffers that are all mapped, the driver
  always has one, and what is compressed is not written meanwhile; `main` never
  learns that the thread does not run.
* *Byte streams*: a length with the sign bit is not read back (`SignClear`
  in `ReadsBack`), whatever `[len(1 byte), str(len byte)]` (`iobyte.h:33`) lets a reader
  expect; an auto-extending stream doubles its capacity once per write, whatever
  "automatically expanded" (`iobyte.h:50`) does: `OverrunOnlyWhenShort` says when that
  is too little.  A stream made with the capacity 0 never grows, and its buffer
  may be freed twice, only there (`FreedOnlyWhenEmpty`).
* *I2C*: OK always means a full buffer, and, of a call that found the bus idle, a
  complete transfer of its own bytes.  A repeated start requested when
  the write has already ended leaves the call early (`EarlyReturnExplained`) with the
  read still to come.  The next call then overlaps it: it may return OK with bytes of
  that read, or without its own sent, or wait for ever for a transfer whose FIFO
  nobody empties or fills.  A write before a repeated start that is longer than the
  FIFO never ends either (`I2cReturns`): `remaining` is overwritten by the length of
  the read.
* *SPI*: calls exchange their bytes.  The auxiliary one does so only when nothing
  was left in its FIFOs and a `transfernb` fits them; `bcm2835_aux_spi_write` leaves
  its answer there.
* *Delays* are long enough, except one that reads the timer as zero and whose sleep is
  refused or interrupted; *speeds* are held but for the extremes `SpeedIsHeld` names.

Properties that are conditional (`...UntilClose`, `...UntilFailure`, `...OnlyWhenShort`,
`Sound => ...`) are so because the code breaks them beyond the condition;
TLC finds a trace as soon as the condition is dropped.

### Fairness

* `ServerRecv`: `WF(OnRead)`, `WF(on_read)`: the loop calls the callback of a
  readable descriptor, and a call runs.
* `SendQueue`: `WF(on_write)` for the same reason, and `WF(peer # "open" /\ on_read)`:
  the end of a client is readable.  The loop watches a connection as long as it
  lasts (`InterestFollowsConnection` of EventLoop), and select does not fail for good
  meanwhile (`PollFailsOnlyAfterLostOutput`).  `WF(ClientReads)` is an assumption on a
  client that stays, and `Flushed` is only claimed for one.  That the camera goes on
  sending is not assumed.
* `EventLoop`, `CarControl`: `WF(Main)`: select has a timeout of a second, so the
  main thread is never blocked for good.  No fairness for clients, camera or
  signals.
* `FrameChannel`: `WF(MainStep)`, where reading the channel needs `polled`: while the loop
  comes to the channel it takes what is there, which is `TakesFrames` of EventLoop,
  checked there under the fairness of the loop alone.  And `WF(Send)`: a `send` with
  room returns.  The camera thread owes nothing else.
* `CameraDevice`: `WF(Loop)`, the thread is scheduled, and `WF(Fill)`: a streaming
  driver fills the buffers it has.  That select fails is never forced.
* `CarStart`: `WF(ClockStops)`, the hardware stops a disabled clock, and
  `WF(car_init(p))`: a process that has started goes on.
* `Bcm2835`: for I2C and both SPIs, a call that was started goes on and a controller with
  work to do does it.  None for new calls, for failures on the bus, for the timer.

`CHECK_DEADLOCK FALSE` stands in the configurations of programs that end: the
process exits, crashes or is killed, or a bound is reached.

## 4. The proofs

Every invariant and action property that a passing run checks is also proved,
for all values of the constants that the named assumptions admit; what is left to
TLC alone is liveness.  Each component has an inductive invariant (`Inv`; one per
peripheral in Bcm2835Proofs), one lemma per action, or group of actions
that leave the interesting variables alone, and `SpecInv == Spec => []Inv`, from
which the theorems follow.  The invariants below say *why* a property holds.

**ServerRecvProofs** (from `RecvAssumption`: the buffer holds a largest package, a
header has at least one byte).  `Inv` is the type invariant, `StreamPreserved`, both
parts of `Framed`, and `RunsConnected`.  They need each other: the bound in `TypeOK` and
`ClosedForCause` need `NothingLeftBehind`, which keeps `recvbuf_` shorter than one
largest package, so that every `recv` asks for at least a byte; `WholePackages`
needs that the length read from a header is that of the first package cut off
(`FirstPackage`).  The refinement needs two facts more: what is not yet parsed is
what the abstract parser still has to take (`PieceBehind`), and an incomplete package
never begins with a whole one (`NoneInIncomplete`), so `recv` is called only when
nothing is left to hand on.  Theorems: `RecvTypeOK`, `RecvStreamPreserved`,
`RecvWholePackages`, `RecvNothingLeftBehind`, `RecvFramed`,
`RecvClosedForCause`, `RecvImplementsPackageStream`, and `RecvCallEnds`: every
step of the callback lowers a measure (bytes in the kernel, then bytes to parse)
or returns, which is what `Drained` rests on beside fairness.

The same module proves ByteStream, through which `package_proc` reads what was
delivered (from `StreamAssumption`: lengths fit their prefix, capacities
`uint32_t`).  Where an item begins depends on all the lengths before it;
instead of a recursive sum, `StreamInv` says that a function of positions *exists*
such that each item, its length in front, stands between two of them (`Laid`), and that
the reader stands at the one that follows what it has got (`AtItem`), unless an
item was torn or has a sign bit.  A successful write extends that function by
a place.  The proof showed that `OverrunOnlyWhenShort` needs the model to end at the
first overrun of a string: after a length that was written past a buffer of one byte, the
string would have doubled it once more.  Theorems: `StreamTypeCorrect`,
`StreamReadsBack`, `StreamBothHold`.  A freed buffer needs little more: only a stream
of the capacity 0 is refused that way, and its capacity stays 0.

**CarControlProofs** (from `CarAssumption`: speeds and the range fit the width).
The properties speak of states between commands; `Inv` adds the middle of one:
pins before `step` show the command being written and the others the last one
(`Written`), and who may have unmapped what (`Mapped`).  That no interleaving
brakes both motors follows from `Written`, step by step.  Theorems: `CarTypeOK`,
`CarPinsShowLastCommand`, `CarNeverBothBraked`, `CarCrashHasCause`,
`CarIgnoredOnlyUnopened`, `CarNewSpeedNewDirection`.

**SendQueueProofs** (from `SendAssumption`: frames are not empty).  `Inv` adds to the
invariants that behind the first `mixed` bytes `wire \o sendbuf_` is `handed`
(`InOrder`), for what waits too, since it may be the next client's.  Each action
lemma proves `Inv'` and, with it, the step of `BytePipe` the action maps to, so
`SendImplementsPipe` (`Spec => Pipe!Spec`) is the refinement for all frames,
capacities and socket buffers.  Theorems: `SendTypeOK`, `SendWaitingIsWatched`,
`SendEveryByteCounted`, `SendImplementsPipe`, and `SendDrains`, on which `Flushed`
rests: while bytes wait, watched, for a client that is there, a flush can take some of them or
the client has some to read, and each step but the taking of a frame leaves fewer
waiting, or as many and more room in the kernel, or ends the wait.

**FrameChannelProofs** (from `ChannelAssumption`: the channel holds a frame).  "One
owner" is not inductive: a step that moves a frame needs to know that nobody
else has it.  `Inv` says why, by the order of capture (`Ordered`): what main sends
is older than everything in the channel, which is in order and older than what
the camera thread has.  `Owned` adds that the frames in use and the ones dropped
are exactly those allocated.  Both end with the first failed dequeue.  Theorems:
`FrameTypeOK`, `FrameOwnedUntilFailure`, `FrameLeaksExplained`, `FrameSentInOrder`, and
`FrameSendNotInVain`, on which `SendGoesOn` rests: while the camera thread is blocked
and the loop comes to the poller of the channel (`polled`), main has a frame to read, send or free;
each step of main lowers `MainRank`, and no other step raises it.

**EventLoopProofs** (from `EventLoopAssumption`).  The model walks the list with
recursive functions.  The proofs replace a walk by `Reach`, the smallest set closed
under `next_`: what is to be shown of all pollers a walk meets is shown of a
closed set, without induction.  Lemmas say what each operation of the
list does to `Reach`: appending a chunk (`AppendReach`), finding a slot
(`FindSlotIs`), `selecter_add`, `_remove` and the free of the reaping pass
(`AddOK`, `RemoveOK`, `FreeOK`).  `Inv` then has a part about the heap and one about
the walk.

* The heap (`HeapOK`): the list has no circle and ends (`Sane`), no two of its pollers
  that may be called are of one descriptor, and chunks 1 and 2 are what
  `main` made them; only the first chunk ever leads to the camera's.  After an
  early free the list is shorter than it should be, but it is a list.
* `InStep`: exactly one poller besides the camera's asks to be readable, it is on the
  list, and it is of the descriptor the server serves now.  This is what makes
  `InterestFollowsConnection` survive truncation.
* The walk: a bit that select set is still true when its poller is met (`Fresh`); the
  reaping pass never stands at the end of the list (`Standing`), and a poller
  of a connection that was closed in this walk is still ahead of the walk
  (`Leftover`), so the next `select` does not see it; unless the callback has cut the
  list at the cursor and the walk is about to fault (`Doomed`).
* `Counted` and `Before`: before the first close the list is as `main` or `accept` left it.

Theorems: `LoopTypeOK`, `LoopOnePollerPerFd`, `LoopInterestFollowsConnection`,
`LoopUntilClose`, `LoopReadyBitsAreFresh`, `LoopPollFailsOnlyAfterLostOutput`, and
`LoopListEnds`: no sequence of callbacks makes the list a ring, so a walk of
`selecter_poll` ends, whatever was freed during it.

**CarStartProofs** (any number of processes and starts).  `Inv` follows the processes
that started after the last disturbance: what such a process has passed in `car_init`
is made and stays made (`Behind`, `Lasting`), because writing back a word that is
not stale changes the one field it is for (`Standing` says which).  The
clock is the exception: any process may stop it, but then it stands before the
call that starts it again (`ClockOn`).  Theorems: `StartTypeOK`, `StartConfigured`.

**CameraProofs** (any size of buffers and images, any number of buffers).  `Cut` says
how an image is divided while it is made: what is written of it stands at the start
of `tmpframe_`, the bytes in the manager's buffer are those that follow, and the
cursor agrees with both.  `Shared` says which buffers are mapped and who has each at
every step of `camera_open` and of the thread, `Died` what a fault may come from.
Theorems: `CameraTypeCorrect`, `CameraFramesAreImages`, `CameraBuffersShared`, and
`CameraOpenEnds`: every step of `camera_open` leaves it, goes further, or maps one
more of the buffers that were granted.

**Bcm2835Proofs** (from `I2cAssumption`, `SpiAssumption`, `AuxAssumption`,
`TimerAssumption`, `ClockAssumption`).  The peripherals leave each other alone, so
each has its invariant, and `BcmInv` is all of them.  A queue holds the elements of a
known sequence that follow the first *n* (`Follows`): for the controllers the
invariants say which *n*, as numbers (`I2cPlaces`, `SpiPlaces`, `AuxPlaces`) and as
data (`...Data`), so that the bytes sent, waiting and not yet stored are always the whole call,
and so are the answers.  `I2cOutcome` and `I2cWaits` add what the status bits mean to the
program that waits for them.  For I2C all of that (`I2cAlone`) is of a call that
found the bus idle; of one that did not, `I2cInv` keeps the types, the place in the call
(`I2cPlaces`) and that the bytes read and those still to read are `buf_len`
(`I2cCounts`), from which "OK" means a full buffer.  `TimerInv` says of which moment each word read
is (`Moments`) and uses that the low word wraps at most once between the
reads; `ClockInv` is an argument about integer division.  Theorems: `BcmTypeCorrect`,
`BcmI2cIsTrue`, `BcmBytesExchanged`, `BcmTimerIsTrue`, `BcmSpeedIsHeld`.  These proofs
made three assumptions explicit that the instance of the run had hidden: the
core clock divided by the slowest speed of the auxiliary SPI fits its divider, the largest
reading of the timer is past one wrap, and an auxiliary transfer has room for two
bytes.

Every transfer polls status flags without a limit.  `BcmNoVainWait` is what makes the
calls return, beside fairness: while a flag that is polled is not set (`...Ready`), the
controller has something to do (`...Works`).  It needs three facts more than
`BcmInv`: a transfer that is not over is requested or runs (`I2cBusy`); while
`bcm2835_spi_writenb` waits for room, both FIFOs together hold at most one FIFO of
bytes, since it reads before it waits, and the two answers that `bcm2835_spi_write` does not
read always have room (`SpiRoom`); a sound `bcm2835_aux_spi_write` finds an empty FIFO
(`AuxRoom`).  A write before a repeated start that does not fit the FIFO (`NeverFits`)
and a call that overlaps an earlier transfer are excepted: there both may wait for
ever, as in `I2cReturns`.

What is proved and in no run: `CarIgnoredOnlyUnopened`, which says that the test of
`state_` in `car.c:57-59, 73-75` never stops a command of a car that was
initialised, since nothing but `car_init` sets `state_`; `LoopListEnds`;
`RecvCallEnds`; `SendDrains`; `FrameSendNotInVain`; `CameraOpenEnds`;
`BcmNoVainWait`; and the type invariants of `ServerRecv`, `CarControl`, `CarStart`, `FrameChannel` and
`CameraDevice`.

What is only model-checked: the liveness properties (`Drained`, `Flushed`,
`NobodyWaits`, `Stops`, `SignalEnds`, `SendGoesOn`, `ImagesFlow`, `ClockWaitEnds`,
`CallsReturn`), since TLAPS does not reason about fairness or `ENABLED`.

## 5. Not modelled

* `camera_close`: its only call (`main.c:79`) is commented out.
* bcm2835: event detection, pull-ups, pads, the multi-pin variants, `begin` and `end`,
  chip select, mode and bit order, the parsing of the device tree in
  `bcm2835_init`, the register constants of `bcm2835.h`.  They set fields of
  registers, and nothing in the repository uses them; one combination would
  matter, `bcm2835_aux_spi_begin` next to the car, as it takes P1-35, the car's `LEN`.
* JPEG compression, the contents of pictures, `printf`, the build.
* `obstream_destory` and `ibstream_release`: they free, once.
* What a send to descriptor 0 does, when `sctx__on_write` runs after the
  connection was closed in the same walk: it depends on what stdin is.
* `sendbuf_` without a limit and `int` lengths near 2^31: there is no promise in the
  code to check them against; `SendQueue`'s capacity and counts are unbounded
  integers.
* A timer read that is preempted for a whole wrap of the low word (over an hour).

## 6. Plan

Done: all the parts above as models; proofs of their safety and action properties.
The order was that of what the program stands or falls with: commands arrive
whole and reach the motors, then video, then the device and the library.

Next: what the remaining liveness properties rest on, as `RecvCallEnds`, `SendDrains`,
`FrameSendNotInVain`, `CameraOpenEnds` and `BcmNoVainWait` do for theirs: that a
walk of the event loop comes to the poller of a waiting client or frame (`NobodyWaits`), and that
after a signal each step of the car's process brings its end nearer (`Stops`,
`SignalEnds`).
