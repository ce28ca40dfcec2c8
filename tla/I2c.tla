--------------------------------- MODULE I2c ----------------------------------
(***************************************************************************)
(* The four transfers of the I2C part of bcm2835.c against the serial      *)
(* controller (BSC): the program polls a status register and moves bytes   *)
(* into or out of a short FIFO while the controller works on the bus.      *)
(*                                                                         *)
(* The controller is external; it is modelled from how the code uses it:   *)
(* a requested transfer starts when the bus is idle, or right after the    *)
(* one that runs (the repeated start); DONE is set when a transfer ends    *)
(* and none is requested, and stays set until it is cleared; a missing     *)
(* acknowledge or a clock stretched too long ends the transfer at once.    *)
(*                                                                         *)
(* A call does not ask whether the bus is idle.  When it is not, because a *)
(* call before it returned early, the two overlap: the transfer at work    *)
(* gets the FIFO and the status of the new call.                           *)
(*                                                                         *)
(* A byte is the number of its call and its place in the transfer.         *)
(***************************************************************************)
EXTENDS Integers, Sequences

CONSTANTS
  BSC_FIFO_SIZE,
  MaxI2cBytes, \* bound: bytes written, and bytes read, by a call
  MaxI2cCalls  \* bound: calls

ASSUME I2cAssumption ==
  BSC_FIFO_SIZE \in Nat \ {0} /\ MaxI2cBytes \in Nat \ {0} /\ MaxI2cCalls \in Nat

VARIABLES
  i2c, \* the program: its place, the call and its locals
  bsc  \* the controller

i2cVars == <<i2c, bsc>>

Op == {"none", "write", "read", "register", "write_read"}
Transfer == {"idle", "write", "read"}
Reason == {"OK", "ERROR_NACK", "ERROR_CLKT", "ERROR_DATA"}
Length == 0..MaxI2cBytes

Stale == <<0, 1>> \* a byte from a read that an earlier call requested
I2cByte == ((1..MaxI2cCalls) \X (1..MaxI2cBytes)) \cup {Stale}
I2cBytes(call, from, to) == [k \in 1 .. to - from + 1 |-> <<call, from + k - 1>>]

I2cTypeOK ==
  /\ i2c.pc \in {"idle", "start", "fill", "started", "restart", "drain", "rest", "err", "clkt"}
  /\ i2c.op \in Op /\ i2c.call \in 0..MaxI2cCalls
  /\ i2c.len \in Length     \* bytes to write
  /\ i2c.buf_len \in Length \* bytes to read
  /\ i2c.remaining \in Length /\ i2c.buf \in Seq(I2cByte)
  /\ i2c.reason \in Reason
  /\ i2c.missed \in BOOLEAN \* the read was requested after the write had ended
  /\ i2c.overlaps \in BOOLEAN \* the call found the bus at work, or about to be
  /\ bsc.bus \in Transfer /\ bsc.left \in Length
  /\ bsc.foreign \in BOOLEAN \* the transfer was requested by an earlier call
  /\ bsc.request \in Transfer /\ bsc.dlen \in Length
  /\ bsc.tx \in Seq(I2cByte) /\ Len(bsc.tx) <= BSC_FIFO_SIZE
  /\ bsc.rx \in Seq(I2cByte) /\ Len(bsc.rx) <= BSC_FIFO_SIZE
  /\ bsc.sent \in Seq(I2cByte) \* what the slave has got in this call
  /\ bsc.DONE \in BOOLEAN /\ bsc.ERR \in BOOLEAN /\ bsc.CLKT \in BOOLEAN

I2cInit ==
  /\ i2c = [pc |-> "idle", op |-> "none", call |-> 0, len |-> 0, buf_len |-> 0,
            remaining |-> 0, buf |-> <<>>, reason |-> "OK", missed |-> FALSE,
            overlaps |-> FALSE]
  /\ bsc = [bus |-> "idle", left |-> 0, foreign |-> FALSE, request |-> "idle", dlen |-> 0,
            tx |-> <<>>, rx |-> <<>>, sent |-> <<>>,
            DONE |-> FALSE, ERR |-> FALSE, CLKT |-> FALSE]

-----------------------------------------------------------------------------
(* The controller *)

TA == bsc.bus # "idle"
At(pc) == i2c.pc = pc

(* What is requested while the program prepares a call, an earlier call    *)
(* has requested.                                                          *)
BusStarts ==
  /\ bsc.bus = "idle" /\ bsc.request # "idle"
  /\ bsc' = [bsc EXCEPT !.bus = bsc.request, !.left = bsc.dlen, !.request = "idle",
                        !.foreign = At("start")]
  /\ UNCHANGED i2c

BusWrites ==
  /\ bsc.bus = "write" /\ bsc.left > 0 /\ bsc.tx # <<>>
  /\ bsc' = [bsc EXCEPT !.left = @ - 1, !.tx = Tail(@), !.sent = Append(@, Head(bsc.tx))]
  /\ UNCHANGED i2c

BusReads ==
  /\ bsc.bus = "read" /\ bsc.left > 0 /\ Len(bsc.rx) < BSC_FIFO_SIZE
  /\ LET byte == IF bsc.foreign THEN Stale ELSE <<i2c.call, i2c.buf_len - bsc.left + 1>>
     IN  bsc' = [bsc EXCEPT !.left = @ - 1, !.rx = Append(@, byte)]
  /\ UNCHANGED i2c

BusEnds ==
  /\ bsc.bus # "idle" /\ bsc.left = 0
  /\ bsc' = [bsc EXCEPT !.bus = "idle", !.DONE = @ \/ bsc.request = "idle"]
  /\ UNCHANGED i2c

BusFails ==
  /\ bsc.bus # "idle"
  /\ \E nack \in BOOLEAN :
       bsc' = [bsc EXCEPT !.bus = "idle", !.request = "idle", !.DONE = TRUE,
                          !.ERR = @ \/ nack, !.CLKT = @ \/ ~nack]
  /\ UNCHANGED i2c

-----------------------------------------------------------------------------
(* The program *)

Kind(op) == IF op = "read" THEN "read" ELSE "write"
AtMost(n, limit) == IF n < limit THEN n ELSE limit

(* The start of every call: the FIFO and the status are cleared, the       *)
(* length is set and the FIFO is filled.                                   *)
Begin(op, n, m) ==
  /\ At("idle") /\ i2c.call < MaxI2cCalls
  /\ LET call == i2c.call + 1
         pre  == AtMost(n, BSC_FIFO_SIZE)
     IN  /\ i2c' = [pc |-> "start", op |-> op, call |-> call, len |-> n, buf_len |-> m,
                    remaining |-> IF op = "read" THEN m ELSE n - pre,
                    buf |-> <<>>, reason |-> "OK", missed |-> FALSE,
                    overlaps |-> TA \/ bsc.request # "idle"]
         /\ bsc' = [bsc EXCEPT !.foreign = TA, !.dlen = IF op = "read" THEN m ELSE n,
                               !.tx = I2cBytes(call, 1, pre), !.rx = <<>>, !.sent = <<>>,
                               !.DONE = FALSE, !.ERR = FALSE, !.CLKT = FALSE]

(* ... and then the transfer is requested.                                 *)
Start(next) ==
  /\ At("start")
  /\ i2c' = [i2c EXCEPT !.pc = next]
  /\ bsc' = [bsc EXCEPT !.request = Kind(i2c.op)]

mutFillNever ==
  /\ At("fill") /\ bsc.DONE
  /\ i2c' = [i2c EXCEPT !.pc = "err"] /\ UNCHANGED bsc

mutFillUnchecked ==
  /\ At("fill")
  /\ \/ bsc.DONE /\ i2c' = [i2c EXCEPT !.pc = "err"] /\ UNCHANGED bsc
     \/ /\ i2c.remaining > 0
        /\ i2c' = [i2c EXCEPT !.remaining = @ - 1]
        /\ bsc' = [bsc EXCEPT !.tx = Append(@, <<i2c.call, i2c.len - i2c.remaining + 1>>)]

(* The loop of bcm2835_i2c_write: until DONE, bytes go into the FIFO as    *)
(* long as TXD says that there is room.                                    *)
Fill ==
  /\ At("fill")
  /\ \/ bsc.DONE /\ i2c' = [i2c EXCEPT !.pc = "err"] /\ UNCHANGED bsc
     \/ /\ i2c.remaining > 0 /\ Len(bsc.tx) < BSC_FIFO_SIZE
        /\ i2c' = [i2c EXCEPT !.remaining = @ - 1]
        /\ bsc' = [bsc EXCEPT !.tx = Append(@, <<i2c.call, i2c.len - i2c.remaining + 1>>)]

(* Polling for the start of the transfer, or its end if that was missed.   *)
Started ==
  /\ At("started") /\ (TA \/ bsc.DONE)
  /\ i2c' = [i2c EXCEPT !.pc = "restart"] /\ UNCHANGED bsc

(* The read is requested.  If the write has ended by now, DONE stays set.  *)
Restart ==
  /\ At("restart")
  /\ i2c' = [i2c EXCEPT !.pc = "drain", !.remaining = i2c.buf_len, !.missed = bsc.DONE]
  /\ bsc' = [bsc EXCEPT !.request = "read", !.dlen = i2c.buf_len]

(* A byte from the FIFO into the buffer. *)
Take ==
  /\ i2c.remaining > 0 /\ bsc.rx # <<>>
  /\ i2c' = [i2c EXCEPT !.remaining = @ - 1, !.buf = Append(@, Head(bsc.rx))]
  /\ bsc' = [bsc EXCEPT !.rx = Tail(@)]

mutDrainForgetsRest ==
  /\ At("drain")
  /\ \/ bsc.DONE /\ i2c' = [i2c EXCEPT !.pc = "err"] /\ UNCHANGED bsc
     \/ ~bsc.DONE /\ Take

Drain ==
  /\ At("drain")
  /\ \/ bsc.DONE /\ i2c' = [i2c EXCEPT !.pc = "rest"] /\ UNCHANGED bsc
     \/ ~bsc.DONE /\ Take

Rest ==
  /\ At("rest")
  /\ \/ Take
     \/ /\ i2c.remaining = 0 \/ bsc.rx = <<>>
        /\ i2c' = [i2c EXCEPT !.pc = "err"] /\ UNCHANGED bsc

Return(reason) == i2c' = [i2c EXCEPT !.pc = "idle", !.reason = reason]

(* ERR, then CLKT, then what remains, each with a read of its own.  Only   *)
(* bcm2835_i2c_read clears DONE; the others write to the control register. *)
Verdict ==
  \/ At("err") /\ bsc.ERR /\ Return("ERROR_NACK")
  \/ At("err") /\ ~bsc.ERR /\ i2c' = [i2c EXCEPT !.pc = "clkt"]
  \/ /\ At("clkt")
     /\ Return(IF bsc.CLKT THEN "ERROR_CLKT"
               ELSE IF i2c.remaining > 0 THEN "ERROR_DATA" ELSE "OK")

Finish ==
  /\ Verdict
  /\ bsc' = IF i2c'.pc = "idle" /\ i2c.op = "read" THEN [bsc EXCEPT !.DONE = FALSE] ELSE bsc

bcm2835_i2c_write ==
  \/ \E n \in Length : Begin("write", n, 0)
  \/ i2c.op = "write" /\ (Start("fill") \/ Fill \/ Finish)

bcm2835_i2c_read ==
  \/ \E m \in Length : Begin("read", 0, m)
  \/ i2c.op = "read" /\ (Start("drain") \/ Drain \/ Rest \/ Finish)

bcm2835_i2c_read_register_rs ==
  \/ \E m \in Length : Begin("register", 1, m)
  \/ /\ i2c.op = "register"
     /\ Start("started") \/ Started \/ Restart \/ Drain \/ Rest \/ Finish

bcm2835_i2c_write_read_rs ==
  \/ \E n, m \in Length : Begin("write_read", n, m)
  \/ /\ i2c.op = "write_read"
     /\ Start("started") \/ Started \/ Restart \/ Drain \/ Rest \/ Finish

Program ==
  bcm2835_i2c_write \/ bcm2835_i2c_read \/ bcm2835_i2c_read_register_rs
    \/ bcm2835_i2c_write_read_rs
Bus == BusStarts \/ BusWrites \/ BusReads \/ BusEnds

I2cNext == Program \/ Bus \/ BusFails

(* The program runs and the bus goes on; neither call nor failure need come. *)
I2cFairness ==
  /\ WF_i2cVars(i2c.pc # "idle" /\ Program)
  /\ WF_i2cVars(Bus)

-----------------------------------------------------------------------------
(* Properties *)

Called == i2c.op # "none"
Returned == At("idle") /\ Called

(* bcm2835.c:1303-1421, 1570-1615: a call that returns OK has filled its   *)
(* buffer.  If it found the bus idle, it has sent all of its bytes, and    *)
(* the buffer is what it asked for, in order, and with nothing of an       *)
(* earlier call, also when the program missed the end of the write.        *)
OkIsComplete ==
  Returned /\ i2c.reason = "OK" =>
    /\ Len(i2c.buf) = i2c.buf_len
    /\ ~i2c.overlaps =>
         /\ bsc.sent = I2cBytes(i2c.call, 1, i2c.len)
         /\ i2c.buf = I2cBytes(i2c.call, 1, i2c.buf_len)

(* bcm2835.c:1464-1481, 1563-1585: only when the write had ended before    *)
(* the read was requested, so that DONE was still set, does a call that    *)
(* found the bus idle return with the bus at work or with "not all data".  *)
EarlyReturnExplained ==
  Returned /\ ~i2c.missed /\ ~i2c.overlaps =>
    ~TA /\ bsc.request = "idle" /\ i2c.reason # "ERROR_DATA"

(* bcm2835.c:1323-1332, 1388-1397, 1485-1494: the program and the          *)
(* controller never wait for each other, but for two cases.  A write       *)
(* before a repeated start does not fit the FIFO: what remains is never    *)
(* written.  Or the call found the bus at work, and the earlier transfer   *)
(* waits for a program that no longer moves its bytes.                     *)
BusWaits ==
  /\ bsc.bus # "idle" /\ bsc.left > 0
  /\ IF bsc.bus = "read" THEN Len(bsc.rx) = BSC_FIFO_SIZE ELSE bsc.tx = <<>>

I2cReturns ==
  Called ~>
    \/ At("idle")
    \/ i2c.op = "write_read" /\ i2c.len > BSC_FIFO_SIZE
    \/ i2c.overlaps /\ BusWaits
=============================================================================
