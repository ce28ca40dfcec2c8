----------------------------- MODULE Bcm2835Proofs -----------------------------
(***************************************************************************)
(* Theorems about Bcm2835: the peripherals of bcm2835.c beside the pins,   *)
(* for every size of the FIFOs and the transfers, and every width of the   *)
(* timer and the dividers.                                                 *)
(*                                                                         *)
(* Each peripheral has an invariant of its own, and leaves the others      *)
(* alone.  Those of the three controllers say which bytes of the call are  *)
(* in each queue (Follows), and what a controller at rest means for the    *)
(* program that waits for it.                                              *)
(***************************************************************************)
EXTENDS Bcm2835, SequenceTheorems, TLAPS

-----------------------------------------------------------------------------
(* Queues *)

(* s holds the elements of all that come after the first n.                *)
Follows(s, all, n) == \A k \in 1..Len(s) : s[k] = all[n + k]

LEMMA FollowsEmpty ==
  ASSUME NEW all, NEW n PROVE Follows(<<>>, all, n)
BY EmptySeq DEF Follows

LEMMA SequenceOf ==
  ASSUME NEW T, NEW n \in Nat, NEW s \in [1..n -> T]
  PROVE  s \in Seq(T) /\ Len(s) = n
OBVIOUS

LEMMA FollowsAppend ==
  ASSUME NEW T, NEW s \in Seq(T), NEW all, NEW n \in Nat, Follows(s, all, n),
         NEW x \in T, x = all[n + Len(s) + 1]
  PROVE  /\ Append(s, x) \in Seq(T) /\ Len(Append(s, x)) = Len(s) + 1
         /\ Follows(Append(s, x), all, n)
<1>1. /\ Append(s, x) \in Seq(T) /\ Len(Append(s, x)) = Len(s) + 1
      /\ \A i \in 1..Len(s) : Append(s, x)[i] = s[i]
      /\ Append(s, x)[Len(s) + 1] = x
  BY AppendProperties
<1>2. Len(s) \in Nat
  BY LenProperties
<1> DEFINE t == Append(s, x)
<1>3. ASSUME NEW k \in 1..Len(s) + 1 PROVE t[k] = all[n + k]
  <2>1. CASE k \in 1..Len(s)
    BY <1>1, <2>1 DEF Follows
  <2>2. CASE k = Len(s) + 1
    <3>1. n + k = n + Len(s) + 1
      BY <1>2, <2>2
    <3> QED BY <1>1, <2>2, <3>1
  <2> QED BY <1>2, <2>1, <2>2
<1> QED BY <1>1, <1>3 DEF Follows

LEMMA FollowsTail ==
  ASSUME NEW T, NEW s \in Seq(T), NEW all, NEW n \in Nat, Follows(s, all, n), s # <<>>
  PROVE  /\ Tail(s) \in Seq(T) /\ Len(Tail(s)) = Len(s) - 1 /\ Len(s) > 0
         /\ Head(s) \in T /\ Head(s) = all[n + 1]
         /\ Follows(Tail(s), all, n + 1)
<1>1. /\ Tail(s) \in Seq(T) /\ Len(Tail(s)) = Len(s) - 1 /\ Head(s) \in T
      /\ Head(s) = s[1] /\ \A i \in 1 .. Len(s) - 1 : Tail(s)[i] = s[i + 1]
  BY HeadTailProperties
<1>2. Len(s) \in Nat /\ Len(s) # 0
  BY LenProperties, EmptySeq
<1>3. ASSUME NEW k \in 1 .. Len(s) - 1 PROVE Tail(s)[k] = all[n + 1 + k]
  <2>1. k + 1 \in 1..Len(s) /\ n + (k + 1) = n + 1 + k
    BY <1>2
  <2> QED BY <1>1, <2>1 DEF Follows
<1>4. 1 \in 1..Len(s)
  BY <1>2
<1> QED BY <1>1, <1>2, <1>3, <1>4 DEF Follows

LEMMA FollowsConcat ==
  ASSUME NEW T, NEW s \in Seq(T), NEW t \in Seq(T), NEW all, NEW n \in Nat,
         Follows(s, all, n), Follows(t, all, n + Len(s))
  PROVE  /\ s \o t \in Seq(T) /\ Len(s \o t) = Len(s) + Len(t)
         /\ Follows(s \o t, all, n)
<1>1. /\ s \o t \in Seq(T) /\ Len(s \o t) = Len(s) + Len(t)
      /\ \A i \in 1 .. Len(s) + Len(t) :
           (s \o t)[i] = IF i <= Len(s) THEN s[i] ELSE t[i - Len(s)]
  BY ConcatProperties
<1>2. Len(s) \in Nat /\ Len(t) \in Nat
  BY LenProperties
<1> DEFINE st == s \o t
<1> HIDE DEF st
<1>3. ASSUME NEW k \in 1 .. Len(s) + Len(t) PROVE st[k] = all[n + k]
  <2>1. CASE k <= Len(s)
    <3>1. k \in 1..Len(s)
      BY <1>2, <2>1
    <3> QED BY <1>1, <2>1, <3>1 DEF Follows, st
  <2>2. CASE ~(k <= Len(s))
    <3>1. k - Len(s) \in 1..Len(t) /\ n + Len(s) + (k - Len(s)) = n + k
      BY <1>2, <2>2
    <3> QED BY <1>1, <2>2, <3>1 DEF Follows, st
  <2> QED BY <2>1, <2>2
<1> QED BY <1>1, <1>3 DEF Follows, st

LEMMA FollowsSub ==
  ASSUME NEW T, NEW s \in Seq(T), NEW all, NEW m \in Nat, NEW n \in Nat,
         m + n <= Len(s), \A k \in m + 1 .. Len(s) : s[k] = all[k]
  PROVE  /\ SubSeq(s, m + 1, m + n) \in Seq(T) /\ Len(SubSeq(s, m + 1, m + n)) = n
         /\ Follows(SubSeq(s, m + 1, m + n), all, m)
<1>1. Len(s) \in Nat
  BY LenProperties
<1>2. \A i \in m + 1 .. m + n : i \in 1..Len(s)
  BY <1>1
<1>3. \A i \in m + 1 .. m + n : s[i] \in T
  BY <1>2, ElementOfSeq
<1> DEFINE b == m + 1  e == m + n  t == SubSeq(s, b, e)
<1>4. b \in Int /\ e \in Int /\ e - b + 1 = n
  OBVIOUS
<1>5. /\ t \in Seq(T) /\ Len(t) = IF b <= e THEN e - b + 1 ELSE 0
      /\ \A i \in 1 .. e - b + 1 : t[i] = s[b + i - 1]
  <2> HIDE DEF b, e
  <2> QED BY <1>2, <1>3, <1>4, SubSeqProperties DEF b, e
<1>6. Len(t) = n
  BY <1>4, <1>5
<1>7. ASSUME NEW k \in 1..n PROVE t[k] = all[m + k]
  <2>1. b + k - 1 = m + k /\ m + k \in m + 1 .. Len(s) /\ k \in 1 .. e - b + 1
    BY <1>1
  <2>2. t[k] = s[m + k]
    <3> HIDE DEF b, e, t
    <3> QED BY <1>5, <2>1
  <2> QED BY <2>1, <2>2
<1> QED BY <1>5, <1>6, <1>7 DEF Follows

(* A queue that holds all of the elements is the sequence of them.         *)
LEMMA FollowsAll ==
  ASSUME NEW T, NEW s \in Seq(T), NEW all, Follows(s, all, 0)
  PROVE  s = [k \in 1..Len(s) |-> all[k]]
<1>1. s \in [1..Len(s) -> T]
  BY LenProperties
<1>2. ASSUME NEW k \in 1..Len(s) PROVE s[k] = all[k]
  <2>1. 0 + k = k
    BY LenProperties
  <2> QED BY <2>1 DEF Follows
<1> QED BY <1>1, <1>2

-----------------------------------------------------------------------------
(* Numbers *)

LEMMA ProductGrows ==
  ASSUME NEW a \in Nat, NEW m \in Int, NEW n \in Int, m <= n
  PROVE  a * m <= a * n
<1>1. PICK d \in Nat : n = m + d
  <2>1. n - m \in Nat /\ n = m + (n - m)
    OBVIOUS
  <2> QED BY <2>1
<1>2. a * n = a * m + a * d
  BY <1>1
<1>3. a * d \in Nat /\ a * m \in Int
  OBVIOUS
<1> QED BY <1>2, <1>3

LEMMA Division ==
  ASSUME NEW n \in Nat, NEW d \in Nat \ {0}
  PROVE  /\ n \div d \in Nat /\ n % d \in 0 .. d - 1
         /\ n = d * (n \div d) + (n % d) /\ (n \div d) * d = d * (n \div d)
         /\ d * (n \div d) \in Nat /\ d * (n \div d) <= n /\ n < d * (n \div d) + d
<1>1. n \div d \in Int /\ n % d \in 0 .. d - 1
  OBVIOUS
<1>2. n = d * (n \div d) + (n % d)
  OBVIOUS
<1>3. n \div d \in Nat
  <2> DEFINE q == n \div d
  <2>1. SUFFICES ASSUME q <= -1 PROVE FALSE
    BY <1>1
  <2>2. d * q <= d * (-1) /\ d * (-1) = -d
    <3> HIDE DEF q
    <3> QED BY <1>1, <2>1, ProductGrows DEF q
  <2> QED BY <1>1, <1>2, <2>2
<1>4. d * (n \div d) \in Nat
  BY <1>3
<1> QED BY <1>1, <1>2, <1>3, <1>4

LEMMA QuotientOf ==
  ASSUME NEW n \in Nat, NEW d \in Nat \ {0}, NEW q \in Int, d * q <= n, n < d * q + d
  PROVE  n \div d = q
<1> DEFINE p == n \div d
<1>1. p \in Nat /\ d * p <= n /\ n < d * p + d
  BY Division
<1> HIDE DEF p
<1>2. d * (p + 1) = d * p + d /\ d * (q + 1) = d * q + d /\ d * p \in Int /\ d * q \in Int
  BY <1>1
<1>3. ~(p + 1 <= q)
  BY <1>1, <1>2, ProductGrows
<1>4. ~(q + 1 <= p)
  BY <1>1, <1>2, ProductGrows
<1> QED BY <1>1, <1>3, <1>4 DEF p

-----------------------------------------------------------------------------
(* I2C *)

I2cPlace == {"idle", "start", "fill", "started", "restart", "drain", "rest", "err", "clkt"}

I2cProgram ==
  [pc : I2cPlace, op : Op, call : 0..MaxI2cCalls, len : Length, buf_len : Length,
   remaining : Length, buf : Seq(I2cByte), reason : Reason, missed : BOOLEAN,
   overlaps : BOOLEAN]

BscState ==
  [bus : Transfer, left : Length, foreign : BOOLEAN, request : Transfer, dlen : Length,
   tx : Seq(I2cByte), rx : Seq(I2cByte), sent : Seq(I2cByte),
   DONE : BOOLEAN, ERR : BOOLEAN, CLKT : BOOLEAN]

I2cAll == [k \in Nat |-> <<i2c.call, k>>]
Restarts == i2c.op \in {"register", "write_read"}

(* How many bytes there are in each queue. *)
Gone == Len(bsc.sent)
Queued == Len(bsc.tx)
Come == Len(bsc.rx)
Got == Len(i2c.buf)

I2cShape ==
  /\ i2c \in I2cProgram /\ bsc \in BscState
  /\ Queued <= BSC_FIFO_SIZE /\ Come <= BSC_FIFO_SIZE

(* Where each call goes, and what it has. *)
I2cPlaces ==
  /\ i2c.op = "none" => At("idle")
  /\ i2c.op = "write" => i2c.pc \in {"start", "fill", "err", "clkt", "idle"}
  /\ i2c.op = "read" => i2c.pc \in {"start", "drain", "rest", "err", "clkt", "idle"}
  /\ Restarts => i2c.pc # "fill"
  /\ i2c.op # "none" => i2c.call \in 1..MaxI2cCalls
  /\ i2c.op \in {"none", "read"} => i2c.len = 0
  /\ i2c.op \in {"none", "write"} => i2c.buf_len = 0 /\ i2c.buf = <<>>
  /\ i2c.missed => Restarts

(* What holds of every call, whatever transfer it finds at work: it counts *)
(* the bytes it moves, and a read it requested has its length.             *)
I2cCounts ==
  /\ i2c.op = "none" => bsc.bus = "idle" /\ bsc.request = "idle"
  /\ bsc.bus = "read" /\ ~bsc.foreign => bsc.left <= i2c.buf_len
  /\ bsc.request = "read" /\ ~At("start") => bsc.dlen = i2c.buf_len
  /\ i2c.op = "read" /\ At("start") => bsc.dlen = i2c.buf_len
  /\ i2c.pc \in {"start", "started", "restart"} => i2c.buf = <<>>
  /\ i2c.op = "write" => i2c.remaining <= i2c.len
  /\ i2c.op = "read" \/ (Restarts /\ i2c.pc \notin {"start", "started", "restart"}) =>
       i2c.remaining = i2c.buf_len - Got
  /\ At("idle") /\ i2c.reason = "OK" => Got = i2c.buf_len

(* A transfer that is requested or runs. *)
I2cTransfers ==
  /\ At("start") =>
       /\ bsc.bus = "idle" /\ bsc.request = "idle" /\ ~bsc.DONE /\ bsc.sent = <<>>
       /\ bsc.dlen = IF i2c.op = "read" THEN i2c.buf_len ELSE i2c.len
  /\ bsc.request = "write" =>
       bsc.bus = "idle" /\ ~bsc.DONE /\ bsc.sent = <<>> /\ bsc.dlen = i2c.len
  /\ bsc.bus = "write" => ~bsc.DONE /\ bsc.left = i2c.len - Gone
  /\ bsc.request = "read" =>
       bsc.dlen = i2c.buf_len /\ i2c.buf = <<>> /\ bsc.rx = <<>> /\ bsc.bus # "read"
  /\ bsc.bus = "read" => ~bsc.foreign /\ Got + Come = i2c.buf_len - bsc.left

(* The transfers at each place of the program. *)
I2cWaits ==
  /\ i2c.pc \in {"start", "fill", "started", "restart"} =>
       bsc.bus # "read" /\ bsc.request # "read" /\ i2c.buf = <<>> /\ bsc.rx = <<>>
  /\ At("restart") => bsc.request # "write" /\ (bsc.bus = "write" \/ bsc.DONE)
  /\ At("drain") =>
       bsc.request # "write" /\ (bsc.bus = "write" => bsc.request = "read")
  /\ i2c.pc \in {"rest", "err", "clkt"} => bsc.DONE
  /\ i2c.pc \in {"rest", "err", "clkt", "idle"} => bsc.request # "write" /\ bsc.bus # "write"

(* The bytes in the queues. *)
I2cData ==
  /\ Follows(bsc.sent, I2cAll, 0) /\ Follows(bsc.tx, I2cAll, Gone)
  /\ Gone + Queued <= i2c.len
  /\ Follows(i2c.buf, I2cAll, 0) /\ Follows(bsc.rx, I2cAll, Got)
  /\ i2c.op = "write" => i2c.remaining = i2c.len - Gone - Queued

Failed == bsc.ERR \/ bsc.CLKT
Sent == Gone = i2c.len

(* What has become of the transfers that are over. *)
I2cOutcome ==
  /\ bsc.bus # "write" /\ bsc.request # "write" /\ ~At("start") => Sent \/ Failed
  /\ ~i2c.missed /\ bsc.DONE /\ i2c.pc \in {"fill", "drain", "rest"} =>
       Failed \/ Got + Come = i2c.buf_len
  /\ ~i2c.missed /\ (bsc.DONE \/ At("idle")) /\ i2c.pc \notin {"started", "restart"} =>
       bsc.bus = "idle" /\ bsc.request = "idle"
  /\ At("err") /\ ~i2c.missed => Failed \/ i2c.remaining = 0
  /\ At("clkt") => (Sent \/ bsc.CLKT) /\ (~i2c.missed => bsc.CLKT \/ i2c.remaining = 0)
  /\ At("idle") /\ i2c.reason = "OK" => Sent
  /\ At("idle") /\ ~i2c.missed => i2c.reason # "ERROR_DATA"

(* The invariant of a call that found the bus idle.                        *)
I2cAlone == I2cTransfers /\ I2cWaits /\ I2cData /\ I2cOutcome

I2cInv == I2cShape /\ I2cPlaces /\ I2cCounts /\ (~i2c.overlaps => I2cAlone)

(* The types the steps need. *)
LEMMA I2cTypes ==
  ASSUME I2cInv
  PROVE  /\ bsc.bus \in Transfer /\ bsc.request \in Transfer /\ i2c.op \in Op
         /\ bsc.tx \in Seq(I2cByte) /\ bsc.rx \in Seq(I2cByte)
         /\ bsc.sent \in Seq(I2cByte) /\ i2c.buf \in Seq(I2cByte)
BY DEF I2cInv, I2cShape, I2cProgram, BscState

LEMMA I2cNumbers ==
  ASSUME I2cInv
  PROVE  /\ bsc.left \in Length /\ bsc.dlen \in Length
         /\ bsc.left \in Int /\ bsc.dlen \in Int
         /\ i2c.len \in Int /\ i2c.buf_len \in Int /\ i2c.remaining \in Int
         /\ bsc.left >= 0 /\ i2c.len >= 0 /\ i2c.buf_len >= 0 /\ i2c.remaining >= 0
         /\ i2c.len <= MaxI2cBytes /\ i2c.buf_len <= MaxI2cBytes
         /\ i2c.remaining <= MaxI2cBytes /\ bsc.left <= MaxI2cBytes
         /\ Queued \in Nat /\ Come \in Nat /\ Gone \in Nat /\ Got \in Nat
         /\ MaxI2cBytes \in Nat /\ BSC_FIFO_SIZE \in Nat
<1>1. /\ bsc.left \in 0..MaxI2cBytes /\ bsc.dlen \in 0..MaxI2cBytes
      /\ i2c.len \in 0..MaxI2cBytes /\ i2c.buf_len \in 0..MaxI2cBytes
      /\ i2c.remaining \in 0..MaxI2cBytes
  BY DEF I2cInv, I2cShape, I2cProgram, BscState, Length
<1>2. Queued \in Nat /\ Come \in Nat /\ Gone \in Nat /\ Got \in Nat
  BY I2cTypes, LenProperties DEF Queued, Come, Gone, Got
<1> QED BY <1>1, <1>2, I2cAssumption DEF Length

LEMMA EmptyQueues ==
  /\ bsc.tx = <<>> => Queued = 0
  /\ bsc.rx = <<>> => Come = 0
  /\ bsc.sent = <<>> => Gone = 0
  /\ i2c.buf = <<>> => Got = 0
BY EmptySeq DEF Queued, Come, Gone, Got

LEMMA BusStartsInv == ASSUME I2cInv, BusStarts PROVE I2cInv'
<1> DEFINE foreign == At("start")
<1>1. bsc' = [bsc EXCEPT !.bus = bsc.request, !.left = bsc.dlen, !.request = "idle",
                         !.foreign = foreign]
  BY DEF BusStarts
<1>2. /\ i2c' = i2c /\ bsc.bus = "idle" /\ bsc.request \in {"write", "read"}
      /\ I2cAll' = I2cAll
  BY I2cTypes DEF BusStarts, Transfer, I2cAll
<1>3. foreign \in BOOLEAN /\ (~foreign => ~At("start"))
  BY DEF At
<1> HIDE DEF foreign
<1>4. /\ bsc'.bus = bsc.request /\ bsc'.left = bsc.dlen /\ bsc'.request = "idle"
      /\ bsc'.foreign = foreign
      /\ bsc'.dlen = bsc.dlen /\ bsc'.tx = bsc.tx /\ bsc'.rx = bsc.rx /\ bsc'.sent = bsc.sent
      /\ bsc'.DONE = bsc.DONE /\ bsc'.ERR = bsc.ERR /\ bsc'.CLKT = bsc.CLKT
  BY <1>1 DEF I2cInv, I2cShape, BscState
<1>5. Gone' = Gone /\ Queued' = Queued /\ Come' = Come /\ Got' = Got
  BY <1>2, <1>4 DEF Gone, Queued, Come, Got
<1>6. I2cShape'
  BY <1>1, <1>2, <1>3, <1>5, I2cNumbers DEF I2cInv, I2cShape, BscState, Transfer
<1>7. I2cPlaces'
  BY <1>2 DEF I2cInv, I2cPlaces, Restarts, At
<1>8. I2cCounts'
  <2>1. bsc.request = "read" /\ ~foreign => bsc.dlen <= i2c.buf_len
    BY <1>3, I2cNumbers DEF I2cInv, I2cCounts
  <2> QED BY <1>2, <1>4, <1>5, <2>1 DEF I2cInv, I2cCounts, Restarts, At
<1> SUFFICES ASSUME I2cAlone PROVE I2cAlone'
  BY <1>2, <1>6, <1>7, <1>8 DEF I2cInv
<1>10. ~At("start") /\ ~foreign
  BY <1>2 DEF I2cAlone, I2cTransfers, foreign
<1>11. I2cData'
  BY <1>2, <1>4, <1>5 DEF I2cAlone, I2cData
<1>12. I2cTransfers'
  <2>1. I2cTransfers
    BY DEF I2cAlone
  <2>2. CASE bsc.request = "write"
    <3>1. ~bsc.DONE /\ bsc.sent = <<>> /\ bsc.dlen = i2c.len
      BY <2>1, <2>2 DEF I2cTransfers
    <3>2. i2c.len = i2c.len - Gone
      BY <3>1, EmptyQueues, I2cNumbers
    <3> QED BY <1>2, <1>4, <1>5, <1>10, <2>1, <2>2, <3>1, <3>2 DEF I2cTransfers, At
  <2>3. CASE bsc.request = "read"
    <3>1. bsc.dlen = i2c.buf_len /\ i2c.buf = <<>> /\ bsc.rx = <<>>
      BY <2>1, <2>3 DEF I2cTransfers
    <3>2. Got + Come = i2c.buf_len - i2c.buf_len
      BY <3>1, EmptyQueues, I2cNumbers
    <3>3. bsc'.foreign = FALSE
      BY <1>3, <1>4, <1>10
    <3> QED BY <1>2, <1>4, <1>5, <1>10, <2>1, <2>3, <3>1, <3>2, <3>3 DEF I2cTransfers, At
  <2> QED BY <1>2, <2>2, <2>3
<1>13. I2cWaits'
  BY <1>2, <1>4 DEF I2cAlone, I2cTransfers, I2cWaits, At
<1>14. I2cOutcome'
  BY <1>2, <1>4, <1>5 DEF I2cAlone, I2cTransfers, I2cWaits, I2cOutcome, At, Sent, Failed
<1> QED BY <1>11, <1>12, <1>13, <1>14 DEF I2cAlone

LEMMA BusWritesInv == ASSUME I2cInv, BusWrites PROVE I2cInv'
<1> DEFINE sent == Append(bsc.sent, Head(bsc.tx))
           tx == Tail(bsc.tx)
<1>1. bsc' = [bsc EXCEPT !.left = bsc.left - 1, !.tx = tx, !.sent = sent]
  BY DEF BusWrites
<1>2. /\ i2c' = i2c /\ bsc.bus = "write" /\ bsc.left > 0 /\ bsc.tx # <<>>
      /\ I2cAll' = I2cAll
  BY DEF BusWrites, I2cAll
<1>3. /\ tx \in Seq(I2cByte) /\ Len(tx) = Queued - 1 /\ Queued > 0
      /\ Head(bsc.tx) \in I2cByte
  <2>1. bsc.tx \in Seq(I2cByte) /\ Queued \in Nat
    BY I2cTypes, I2cNumbers
  <2>2. Len(bsc.tx) # 0
    BY <1>2, <2>1, EmptySeq
  <2> QED BY <1>2, <2>1, <2>2, HeadTailProperties DEF Queued
<1>4. sent \in Seq(I2cByte) /\ Len(sent) = Gone + 1
  BY <1>3, I2cTypes, AppendProperties DEF Gone
<1>5. I2cAlone =>
        /\ Follows(tx, I2cAll, Gone + 1)
        /\ Follows(sent, I2cAll, 0)
  <2>1. SUFFICES ASSUME I2cAlone PROVE Follows(tx, I2cAll, Gone + 1) /\ Follows(sent, I2cAll, 0)
    OBVIOUS
  <2>2. /\ bsc.tx \in Seq(I2cByte) /\ Gone \in Nat /\ Follows(bsc.tx, I2cAll, Gone)
        /\ Follows(bsc.sent, I2cAll, 0) /\ Gone + 1 = 0 + Gone + 1
    BY <2>1, I2cTypes, I2cNumbers DEF I2cAlone, I2cData
  <2>3. Head(bsc.tx) = I2cAll[Gone + 1] /\ Follows(tx, I2cAll, Gone + 1)
    BY <1>2, <2>2, FollowsTail
  <2> QED BY <1>3, <2>2, <2>3, I2cTypes, FollowsAppend DEF Gone
<1> HIDE DEF sent, tx
<1>6. /\ bsc'.bus = bsc.bus /\ bsc'.left = bsc.left - 1 /\ bsc'.request = bsc.request
      /\ bsc'.foreign = bsc.foreign
      /\ bsc'.dlen = bsc.dlen /\ bsc'.tx = tx /\ bsc'.rx = bsc.rx /\ bsc'.sent = sent
      /\ bsc'.DONE = bsc.DONE /\ bsc'.ERR = bsc.ERR /\ bsc'.CLKT = bsc.CLKT
  BY <1>1 DEF I2cInv, I2cShape, BscState
<1>7. Gone' = Gone + 1 /\ Queued' = Queued - 1 /\ Come' = Come /\ Got' = Got
  BY <1>2, <1>3, <1>4, <1>6 DEF Gone, Queued, Come, Got
<1>8. I2cShape'
  <2>1. bsc.left - 1 \in Length
    BY <1>2, I2cNumbers DEF Length
  <2>2. Queued' <= BSC_FIFO_SIZE
    BY <1>7, I2cNumbers DEF I2cInv, I2cShape
  <2> QED BY <1>1, <1>2, <1>3, <1>4, <1>7, <2>1, <2>2 DEF I2cInv, I2cShape, BscState
<1>9. I2cPlaces' /\ I2cCounts'
  BY <1>2, <1>6, <1>7 DEF I2cInv, I2cPlaces, I2cCounts, Restarts, At
<1> SUFFICES ASSUME I2cAlone PROVE I2cAlone'
  BY <1>2, <1>8, <1>9 DEF I2cInv
<1>11. /\ bsc.request # "write" /\ ~bsc.DONE /\ bsc.left = i2c.len - Gone
       /\ i2c.pc \notin {"start", "rest", "err", "clkt", "idle"}
  BY <1>2 DEF I2cAlone, I2cTransfers, I2cWaits, At
<1>12. I2cTransfers'
  <2>1. bsc'.left = i2c.len - Gone'
    BY <1>6, <1>7, <1>11, I2cNumbers
  <2> QED BY <1>2, <1>6, <1>7, <1>11, <2>1 DEF I2cAlone, I2cTransfers, At
<1>13. I2cWaits'
  BY <1>2, <1>6 DEF I2cAlone, I2cWaits, At
<1>14. I2cData'
  <2>1. /\ Gone' + Queued' <= i2c.len
        /\ i2c.len - Gone' - Queued' = i2c.len - Gone - Queued
    <3>1. Gone + Queued <= i2c.len
      BY DEF I2cAlone, I2cData
    <3> QED BY <1>7, <3>1, I2cNumbers
  <2>2. Follows(bsc'.tx, I2cAll', Gone') /\ Follows(bsc'.sent, I2cAll', 0)
    BY <1>2, <1>5, <1>6, <1>7
  <2> QED BY <1>2, <1>6, <1>7, <2>1, <2>2 DEF I2cAlone, I2cData
<1>15. I2cOutcome'
  BY <1>2, <1>6, <1>7, <1>11 DEF I2cAlone, I2cOutcome, At, Failed
<1> QED BY <1>12, <1>13, <1>14, <1>15 DEF I2cAlone

LEMMA BusReadsInv == ASSUME I2cInv, BusReads PROVE I2cInv'
<1> DEFINE own == <<i2c.call, i2c.buf_len - bsc.left + 1>>
           byte == IF bsc.foreign THEN Stale ELSE own
           rx == Append(bsc.rx, byte)
<1>1. bsc' = [bsc EXCEPT !.left = bsc.left - 1, !.rx = rx]
  BY DEF BusReads
<1>2. /\ i2c' = i2c /\ bsc.bus = "read" /\ bsc.left > 0 /\ Come < BSC_FIFO_SIZE
      /\ I2cAll' = I2cAll
  BY DEF BusReads, I2cAll, Come
<1>3. byte \in I2cByte
  <2>1. CASE bsc.foreign
    BY <2>1 DEF I2cByte
  <2>2. CASE ~bsc.foreign
    <3>1. bsc.left <= i2c.buf_len /\ i2c.call \in 1..MaxI2cCalls
      BY <1>2, <2>2 DEF I2cInv, I2cCounts, I2cPlaces
    <3>2. i2c.buf_len - bsc.left + 1 \in 1..MaxI2cBytes
      BY <1>2, <3>1, I2cNumbers
    <3> QED BY <2>2, <3>1, <3>2 DEF I2cByte
  <2> QED BY <2>1, <2>2
<1>4. rx \in Seq(I2cByte) /\ Len(rx) = Come + 1
  <2> HIDE DEF byte
  <2> QED BY <1>3, I2cTypes, AppendProperties DEF Come
<1>5. I2cAlone => Follows(rx, I2cAll, Got)
  <2>1. SUFFICES ASSUME I2cAlone PROVE Follows(rx, I2cAll, Got)
    OBVIOUS
  <2>2. /\ ~bsc.foreign /\ Got + Come = i2c.buf_len - bsc.left
        /\ bsc.rx \in Seq(I2cByte) /\ Got \in Nat /\ Follows(bsc.rx, I2cAll, Got)
    BY <1>2, <2>1, I2cTypes, I2cNumbers DEF I2cAlone, I2cTransfers, I2cData
  <2>3. i2c.buf_len - bsc.left + 1 = Got + Come + 1 /\ Got + Come + 1 \in Nat
    BY <2>2, I2cNumbers
  <2>4. byte = I2cAll[Got + Come + 1]
    BY <2>2, <2>3 DEF I2cAll
  <2> HIDE DEF byte
  <2> QED BY <1>3, <2>2, <2>4, FollowsAppend DEF Come
<1> HIDE DEF own, byte, rx
<1>6. /\ bsc'.bus = bsc.bus /\ bsc'.left = bsc.left - 1 /\ bsc'.request = bsc.request
      /\ bsc'.foreign = bsc.foreign
      /\ bsc'.dlen = bsc.dlen /\ bsc'.tx = bsc.tx /\ bsc'.rx = rx
      /\ bsc'.sent = bsc.sent
      /\ bsc'.DONE = bsc.DONE /\ bsc'.ERR = bsc.ERR /\ bsc'.CLKT = bsc.CLKT
  BY <1>1 DEF I2cInv, I2cShape, BscState
<1>7. Gone' = Gone /\ Queued' = Queued /\ Come' = Come + 1 /\ Got' = Got
  BY <1>2, <1>4, <1>6 DEF Gone, Queued, Come, Got
<1>8. I2cShape'
  <2>1. bsc.left - 1 \in Length
    BY <1>2, I2cNumbers DEF Length
  <2>2. Come' <= BSC_FIFO_SIZE
    BY <1>2, <1>7, I2cNumbers
  <2> QED BY <1>1, <1>2, <1>4, <1>7, <2>1, <2>2 DEF I2cInv, I2cShape, BscState
<1>9. I2cPlaces' /\ I2cCounts'
  <2>1. bsc.left <= i2c.buf_len => bsc.left - 1 <= i2c.buf_len
    BY I2cNumbers
  <2> QED BY <1>2, <1>6, <1>7, <2>1 DEF I2cInv, I2cPlaces, I2cCounts, Restarts, At
<1> SUFFICES ASSUME I2cAlone PROVE I2cAlone'
  BY <1>2, <1>8, <1>9 DEF I2cInv
<1>11. /\ bsc.request = "idle" /\ Got + Come = i2c.buf_len - bsc.left
       /\ i2c.pc \notin {"start", "fill", "started", "restart"}
  <2>1. bsc.request \in {"idle", "write", "read"}
    BY I2cTypes DEF Transfer
  <2> QED BY <1>2, <2>1 DEF I2cAlone, I2cTransfers, I2cWaits
<1>12. I2cTransfers'
  <2>1. Got' + Come' = i2c.buf_len - bsc'.left
    BY <1>6, <1>7, <1>11, I2cNumbers
  <2> QED BY <1>2, <1>6, <1>7, <1>11, <2>1 DEF I2cAlone, I2cTransfers, At
<1>13. I2cWaits'
  BY <1>2, <1>6, <1>11 DEF I2cAlone, I2cWaits, At
<1>14. I2cData'
  <2>1. Follows(bsc'.rx, I2cAll', Got')
    BY <1>2, <1>5, <1>6, <1>7
  <2> QED BY <1>2, <1>6, <1>7, <2>1 DEF I2cAlone, I2cData
<1>15. I2cOutcome'
  <2>1. ~(~i2c.missed /\ (bsc.DONE \/ At("idle")))
    BY <1>2, <1>11 DEF I2cAlone, I2cOutcome
  <2> QED BY <1>2, <1>6, <1>7, <2>1 DEF I2cAlone, I2cOutcome, At, Failed, Sent
<1> QED BY <1>12, <1>13, <1>14, <1>15 DEF I2cAlone

LEMMA BusEndsInv == ASSUME I2cInv, BusEnds PROVE I2cInv'
<1> DEFINE done == bsc.DONE \/ bsc.request = "idle"
<1>1. bsc' = [bsc EXCEPT !.bus = "idle", !.DONE = done]
  BY DEF BusEnds
<1>2. /\ i2c' = i2c /\ bsc.bus \in {"write", "read"} /\ bsc.left = 0 /\ I2cAll' = I2cAll
  BY I2cTypes DEF BusEnds, Transfer, I2cAll
<1>3. /\ bsc'.bus = "idle" /\ bsc'.left = bsc.left /\ bsc'.request = bsc.request
      /\ bsc'.dlen = bsc.dlen /\ bsc'.tx = bsc.tx /\ bsc'.rx = bsc.rx
      /\ bsc'.sent = bsc.sent /\ bsc'.foreign = bsc.foreign
      /\ bsc'.ERR = bsc.ERR /\ bsc'.CLKT = bsc.CLKT
  BY <1>1 DEF I2cInv, I2cShape, BscState
<1>4. bsc'.DONE <=> bsc.DONE \/ bsc.request = "idle"
  <2> HIDE DEF done
  <2>1. bsc'.DONE = done
    BY <1>1 DEF I2cInv, I2cShape, BscState
  <2> QED BY <2>1, Zenon DEF done
<1>5. Gone' = Gone /\ Queued' = Queued /\ Come' = Come /\ Got' = Got
  BY <1>2, <1>3 DEF Gone, Queued, Come, Got
<1>6. I2cShape'
  <2>1. done \in BOOLEAN
    OBVIOUS
  <2> HIDE DEF done
  <2> QED BY <1>1, <1>2, <1>5, <2>1 DEF I2cInv, I2cShape, BscState, Transfer
<1>7. I2cPlaces' /\ I2cCounts'
  BY <1>2, <1>3, <1>5 DEF I2cInv, I2cPlaces, I2cCounts, Restarts, At
<1> SUFFICES ASSUME I2cAlone PROVE I2cAlone'
  BY <1>2, <1>6, <1>7 DEF I2cInv
<1>9. /\ I2cTransfers' /\ I2cData'
      /\ I2cWaits'
  <2>1. I2cTransfers'
    BY <1>2, <1>3, <1>4, <1>5 DEF I2cAlone, I2cTransfers, At
  <2>2. I2cData'
    BY <1>2, <1>3, <1>5 DEF I2cAlone, I2cData
  <2>3. I2cWaits'
    BY <1>2, <1>3, <1>4, I2cTypes DEF I2cAlone, I2cTransfers, I2cWaits, At, Transfer
  <2> QED BY <2>1, <2>2, <2>3
<1>10. CASE bsc.bus = "write"
  <2>1. bsc.left = i2c.len - Gone
    BY <1>10 DEF I2cAlone, I2cTransfers
  <2>2. Gone = i2c.len
    BY <1>2, <2>1, I2cNumbers
  <2>3. /\ bsc.request # "write" /\ ~bsc.DONE
        /\ i2c.pc \notin {"start", "rest", "err", "clkt", "idle"}
    BY <1>10 DEF I2cAlone, I2cTransfers, I2cWaits, At
  <2>4. bsc'.DONE => i2c.pc # "drain" /\ bsc.request = "idle"
    BY <1>4, <1>10, <2>3 DEF I2cAlone, I2cWaits, At
  <2>5. At("fill") => Got + Come = i2c.buf_len
    <3>1. At("fill") => i2c.op = "write"
      BY I2cTypes DEF I2cInv, I2cPlaces, At, Restarts, Op
    <3>2. At("fill") => i2c.buf_len = 0 /\ i2c.buf = <<>> /\ bsc.rx = <<>>
      BY <3>1 DEF I2cInv, I2cPlaces, I2cAlone, I2cWaits, At
    <3> QED BY <3>2, EmptyQueues
  <2>6. Sent'
    BY <1>2, <1>5, <2>2 DEF Sent
  <2>7. I2cOutcome'
    BY <1>2, <1>3, <1>5, <2>3, <2>4, <2>5, <2>6 DEF I2cOutcome, At
  <2> QED BY <1>9, <2>7 DEF I2cAlone
<1>11. CASE bsc.bus = "read"
  <2>1. /\ bsc.request # "write" /\ bsc.request # "read"
        /\ Got + Come = i2c.buf_len - bsc.left
    BY <1>11 DEF I2cAlone, I2cTransfers
  <2>2. bsc.request = "idle" /\ Got + Come = i2c.buf_len
    BY <1>2, <2>1, I2cTypes, I2cNumbers DEF Transfer
  <2>3. i2c.pc \notin {"start", "started", "restart"}
    BY <1>11 DEF I2cAlone, I2cWaits
  <2>4. /\ Sent \/ Failed
        /\ (Sent => Sent') /\ (Failed => Failed') /\ (bsc.CLKT => bsc'.CLKT)
    BY <1>2, <1>3, <1>5, <1>11, <2>2, <2>3 DEF I2cAlone, I2cOutcome, Failed, Sent, At
  <2>5. ~(~i2c.missed /\ i2c.pc \in {"err", "clkt", "idle"})
    BY <1>11 DEF I2cAlone, I2cOutcome, I2cWaits, At
  <2>6. I2cOutcome'
    BY <1>2, <1>3, <1>5, <2>2, <2>3, <2>4, <2>5 DEF I2cAlone, I2cOutcome, At
  <2> QED BY <1>9, <2>6 DEF I2cAlone
<1> QED BY <1>2, <1>10, <1>11

LEMMA BusFailsInv == ASSUME I2cInv, BusFails PROVE I2cInv'
<1>1. PICK nack \in BOOLEAN :
        bsc' = [bsc EXCEPT !.bus = "idle", !.request = "idle", !.DONE = TRUE,
                           !.ERR = bsc.ERR \/ nack, !.CLKT = bsc.CLKT \/ ~nack]
  BY DEF BusFails
<1>2. i2c' = i2c /\ bsc.bus # "idle" /\ I2cAll' = I2cAll
  BY DEF BusFails, I2cAll
<1> DEFINE err == bsc.ERR \/ nack  clkt == bsc.CLKT \/ ~nack
<1>3. err \in BOOLEAN /\ clkt \in BOOLEAN /\ (err \/ clkt) /\ (bsc.CLKT => clkt)
  OBVIOUS
<1>4. bsc' = [bsc EXCEPT !.bus = "idle", !.request = "idle", !.DONE = TRUE,
                         !.ERR = err, !.CLKT = clkt]
  BY <1>1
<1> HIDE DEF err, clkt
<1>5. /\ bsc'.bus = "idle" /\ bsc'.left = bsc.left /\ bsc'.request = "idle"
      /\ bsc'.dlen = bsc.dlen /\ bsc'.tx = bsc.tx /\ bsc'.rx = bsc.rx
      /\ bsc'.sent = bsc.sent /\ bsc'.foreign = bsc.foreign
      /\ bsc'.DONE = TRUE /\ bsc'.ERR = err /\ bsc'.CLKT = clkt
  BY <1>4 DEF I2cInv, I2cShape, BscState
<1>6. Gone' = Gone /\ Queued' = Queued /\ Come' = Come /\ Got' = Got
  BY <1>2, <1>5 DEF Gone, Queued, Come, Got
<1>7. I2cShape'
  BY <1>2, <1>3, <1>4, <1>6 DEF I2cInv, I2cShape, BscState, Transfer
<1>8. I2cPlaces' /\ I2cCounts'
  BY <1>2, <1>5, <1>6 DEF I2cInv, I2cPlaces, I2cCounts, Restarts, At
<1> SUFFICES ASSUME I2cAlone PROVE I2cAlone'
  BY <1>2, <1>7, <1>8 DEF I2cInv
<1>10. I2cData'
  BY <1>2, <1>5, <1>6 DEF I2cAlone, I2cData
<1>11. I2cTransfers' /\ I2cWaits'
  BY <1>2, <1>5 DEF I2cAlone, I2cTransfers, I2cWaits, At
<1>12. Failed' /\ (bsc.CLKT => bsc'.CLKT) /\ (Sent => Sent')
  BY <1>2, <1>3, <1>5, <1>6 DEF Failed, Sent
<1>13. I2cOutcome'
  BY <1>2, <1>5, <1>6, <1>12 DEF I2cAlone, I2cOutcome, At
<1> QED BY <1>10, <1>11, <1>13 DEF I2cAlone

(* The start of the four calls. *)
LEMMA I2cBytesFollow ==
  ASSUME NEW call \in 1..MaxI2cCalls, NEW n \in 0..MaxI2cBytes, NEW all,
         all = [k \in Nat |-> <<call, k>>]
  PROVE  /\ I2cBytes(call, 1, n) \in Seq(I2cByte) /\ Len(I2cBytes(call, 1, n)) = n
         /\ Follows(I2cBytes(call, 1, n), all, 0)
         /\ I2cBytes(call, 1, n) = [k \in 1..n |-> all[k]]
<1>1. n \in Nat /\ n - 1 + 1 = n
  BY I2cAssumption
<1>2. ASSUME NEW k \in 1..n
      PROVE  /\ 1 + k - 1 = k /\ 0 + k = k /\ all[k] = <<call, k>> /\ <<call, k>> \in I2cByte
  BY <1>1, I2cAssumption DEF I2cByte
<1>3. I2cBytes(call, 1, n) = [k \in 1..n |-> all[k]]
  BY <1>1, <1>2 DEF I2cBytes
<1> DEFINE s == [k \in 1..n |-> all[k]]
<1>4. s \in [1..n -> I2cByte]
  BY <1>2
<1>5. s \in Seq(I2cByte) /\ Len(s) = n
  <2> HIDE DEF s
  <2> QED BY <1>1, <1>4, SequenceOf
<1>6. Follows(s, all, 0)
  BY <1>2, <1>5 DEF Follows
<1> QED BY <1>3, <1>5, <1>6

LEMMA BeginInv ==
  ASSUME I2cInv, NEW op \in Op \ {"none"}, NEW n \in Length, NEW m \in Length,
         Begin(op, n, m), op = "write" => m = 0, op = "read" => n = 0
  PROVE  I2cInv'
<1> DEFINE call == i2c.call + 1
           pre == AtMost(n, BSC_FIFO_SIZE)
           rest == IF op = "read" THEN m ELSE n - pre
           dlen == IF op = "read" THEN m ELSE n
           tx == I2cBytes(call, 1, pre)
           foreign == TA
           overlaps == TA \/ bsc.request # "idle"
<1>1. /\ i2c' = [pc |-> "start", op |-> op, call |-> call, len |-> n, buf_len |-> m,
                 remaining |-> rest, buf |-> <<>>, reason |-> "OK", missed |-> FALSE,
                 overlaps |-> overlaps]
      /\ bsc' = [bsc EXCEPT !.foreign = foreign, !.dlen = dlen, !.tx = tx, !.rx = <<>>,
                            !.sent = <<>>, !.DONE = FALSE, !.ERR = FALSE, !.CLKT = FALSE]
      /\ i2c.call < MaxI2cCalls
  BY DEF Begin
<1>2. call \in 1..MaxI2cCalls
  BY <1>1, I2cAssumption DEF I2cInv, I2cShape, I2cProgram
<1>3. /\ pre \in 0..MaxI2cBytes /\ pre <= n /\ pre <= BSC_FIFO_SIZE
      /\ n \in Nat /\ m \in Nat
  BY I2cAssumption DEF AtMost, Length
<1>4. rest \in Length /\ dlen \in Length
  BY <1>3, I2cAssumption DEF Length
<1>5. /\ I2cAll' = [k \in Nat |-> <<call, k>>]
      /\ tx \in Seq(I2cByte) /\ Len(tx) = pre /\ Follows(tx, I2cAll', 0)
  <2> HIDE DEF call, pre
  <2>1. I2cAll' = [k \in Nat |-> <<call, k>>]
    BY <1>1 DEF I2cAll
  <2> QED BY <1>2, <1>3, <2>1, I2cBytesFollow
<1>6. /\ op = "read" => dlen = m /\ rest = m
      /\ op # "read" => dlen = n /\ rest = n - pre
  OBVIOUS
<1>7. /\ foreign \in BOOLEAN /\ overlaps \in BOOLEAN
      /\ ~foreign => bsc.bus = "idle"
      /\ ~overlaps => bsc.bus = "idle" /\ bsc.request = "idle"
  BY DEF TA
<1> HIDE DEF call, pre, rest, dlen, tx, foreign, overlaps
<1>8. /\ bsc'.bus = bsc.bus /\ bsc'.request = bsc.request /\ bsc'.foreign = foreign
      /\ bsc'.dlen = dlen /\ bsc'.tx = tx /\ bsc'.rx = <<>> /\ bsc'.sent = <<>>
      /\ bsc'.DONE = FALSE /\ bsc'.ERR = FALSE /\ bsc'.CLKT = FALSE
  BY <1>1 DEF I2cInv, I2cShape, BscState
<1>9. /\ i2c'.pc = "start" /\ i2c'.op = op /\ i2c'.call = call /\ i2c'.len = n
      /\ i2c'.buf_len = m /\ i2c'.remaining = rest /\ i2c'.buf = <<>>
      /\ i2c'.reason = "OK" /\ i2c'.missed = FALSE /\ i2c'.overlaps = overlaps
  BY <1>1
<1>10. /\ Gone' = 0 /\ Queued' = pre /\ Come' = 0 /\ Got' = 0
  BY <1>5, <1>8, <1>9, EmptySeq DEF Gone, Queued, Come, Got
<1>11. I2cShape'
  <2>1. i2c' \in I2cProgram
    <3>1. call \in 0..MaxI2cCalls /\ <<>> \in Seq(I2cByte)
      BY <1>2
    <3> QED BY <1>1, <1>4, <1>7, <3>1 DEF I2cProgram, I2cPlace, Reason
  <2>2. bsc' \in BscState
    <3>1. <<>> \in Seq(I2cByte)
      OBVIOUS
    <3> QED BY <1>1, <1>4, <1>5, <1>7, <3>1 DEF I2cInv, I2cShape, BscState
  <2> QED BY <1>3, <1>10, <2>1, <2>2, I2cAssumption DEF I2cShape
<1>12. I2cPlaces'
  BY <1>2, <1>9 DEF I2cPlaces, Restarts, At, Op
<1>13. I2cCounts'
  <2>1. rest = n - pre => rest <= n
    BY <1>3
  <2>2. m = m - 0
    BY <1>3
  <2>3. bsc.bus = "read" => foreign
    BY <1>7
  <2> QED BY <1>6, <1>8, <1>9, <1>10, <2>1, <2>2, <2>3 DEF I2cCounts, Restarts, At
<1> SUFFICES ASSUME ~overlaps PROVE I2cAlone'
  BY <1>9, <1>11, <1>12, <1>13 DEF I2cInv
<1>14. bsc.bus = "idle" /\ bsc.request = "idle"
  BY <1>7
<1>15. I2cTransfers'
  BY <1>6, <1>8, <1>9, <1>14 DEF I2cTransfers, At
<1>16. I2cWaits'
  BY <1>8, <1>9, <1>14 DEF I2cWaits, At
<1>17. I2cData'
  <2>1. /\ Follows(<<>>, I2cAll', 0) /\ Follows(tx, I2cAll', 0)
    BY <1>5, FollowsEmpty
  <2>2. /\ 0 + pre <= n /\ n - pre = n - 0 - pre
    BY <1>3
  <2>3. op = "write" => i2c'.remaining = i2c'.len - Gone' - Queued'
    BY <1>6, <1>9, <1>10, <2>2
  <2>4. Gone' + Queued' <= i2c'.len
    BY <1>9, <1>10, <2>2
  <2> QED BY <1>8, <1>9, <1>10, <2>1, <2>3, <2>4 DEF I2cData
<1>18. I2cOutcome'
  BY <1>8, <1>9, <1>14 DEF I2cOutcome, At
<1> QED BY <1>15, <1>16, <1>17, <1>18 DEF I2cAlone

(* The request, which has the length that was set before. *)
LEMMA StartInv ==
  ASSUME I2cInv, NEW next \in {"fill", "drain", "started"}, Start(next), i2c.op # "none",
         i2c.op = "write" <=> next = "fill",
         i2c.op = "read" <=> next = "drain",
         Restarts <=> next = "started"
  PROVE  I2cInv'
<1> DEFINE kind == Kind(i2c.op)
<1>1. /\ i2c' = [i2c EXCEPT !.pc = next] /\ bsc' = [bsc EXCEPT !.request = kind]
      /\ At("start")
  BY DEF Start
<1>2. /\ kind \in {"read", "write"} /\ (kind = "read" <=> i2c.op = "read")
  BY DEF Kind
<1> HIDE DEF kind
<1>3. /\ i2c'.pc = next /\ i2c'.op = i2c.op /\ i2c'.call = i2c.call /\ i2c'.len = i2c.len
      /\ i2c'.buf_len = i2c.buf_len /\ i2c'.remaining = i2c.remaining
      /\ i2c'.buf = i2c.buf /\ i2c'.reason = i2c.reason /\ i2c'.missed = i2c.missed
      /\ i2c'.overlaps = i2c.overlaps
  BY <1>1 DEF I2cInv, I2cShape, I2cProgram
<1>4. /\ bsc'.bus = bsc.bus /\ bsc'.left = bsc.left /\ bsc'.foreign = bsc.foreign
      /\ bsc'.request = kind /\ bsc'.dlen = bsc.dlen /\ bsc'.tx = bsc.tx /\ bsc'.rx = bsc.rx
      /\ bsc'.sent = bsc.sent
      /\ bsc'.DONE = bsc.DONE /\ bsc'.ERR = bsc.ERR /\ bsc'.CLKT = bsc.CLKT
  BY <1>1 DEF I2cInv, I2cShape, BscState
<1>5. /\ Gone' = Gone /\ Queued' = Queued /\ Come' = Come /\ Got' = Got
      /\ I2cAll' = I2cAll /\ Restarts' = Restarts
  BY <1>3, <1>4 DEF Gone, Queued, Come, Got, I2cAll, Restarts
<1>6. I2cShape'
  BY <1>1, <1>2, <1>5 DEF I2cInv, I2cShape, I2cProgram, I2cPlace, BscState, Transfer
<1>7. I2cPlaces'
  BY <1>1, <1>3, <1>5 DEF I2cInv, I2cPlaces, At
<1>8. I2cCounts'
  BY <1>1, <1>2, <1>3, <1>4, <1>5 DEF I2cInv, I2cCounts, At
<1> SUFFICES ASSUME I2cAlone PROVE I2cAlone'
  BY <1>3, <1>6, <1>7, <1>8 DEF I2cInv
<1>9. /\ bsc.bus = "idle" /\ bsc.request = "idle" /\ ~bsc.DONE /\ bsc.sent = <<>>
      /\ bsc.dlen = IF i2c.op = "read" THEN i2c.buf_len ELSE i2c.len
      /\ i2c.buf = <<>> /\ bsc.rx = <<>>
  BY <1>1 DEF I2cAlone, I2cTransfers, I2cWaits, At
<1>10. I2cTransfers'
  BY <1>2, <1>3, <1>4, <1>9 DEF I2cTransfers, At
<1>11. I2cWaits'
  BY <1>2, <1>3, <1>4, <1>9 DEF I2cWaits, At, Restarts
<1>12. I2cData'
  BY <1>3, <1>4, <1>5 DEF I2cAlone, I2cData
<1>13. I2cOutcome'
  <2>1. i2c.op = "read" => Sent'
    <3>1. i2c.op = "read" => i2c.len = 0
      BY DEF I2cInv, I2cPlaces
    <3>2. Gone' = 0
      BY <1>5, <1>9, EmptyQueues
    <3> QED BY <1>3, <3>1, <3>2 DEF Sent
  <2> QED BY <1>2, <1>3, <1>4, <1>9, <2>1 DEF I2cOutcome, At
<1> QED BY <1>10, <1>11, <1>12, <1>13 DEF I2cAlone

(* A step to another place. *)
LEMMA I2cGoes ==
  ASSUME I2cInv, bsc' = bsc, NEW pc \in I2cPlace, i2c' = [i2c EXCEPT !.pc = pc]
  PROVE  /\ I2cShape' /\ I2cAll' = I2cAll /\ Restarts' = Restarts
         /\ i2c'.pc = pc /\ i2c'.op = i2c.op /\ i2c'.call = i2c.call /\ i2c'.len = i2c.len
         /\ i2c'.buf_len = i2c.buf_len /\ i2c'.remaining = i2c.remaining
         /\ i2c'.buf = i2c.buf /\ i2c'.reason = i2c.reason /\ i2c'.missed = i2c.missed
         /\ i2c'.overlaps = i2c.overlaps
         /\ Gone' = Gone /\ Queued' = Queued /\ Come' = Come /\ Got' = Got
         /\ Sent' = Sent /\ Failed' = Failed
<1>1. /\ i2c'.pc = pc /\ i2c'.op = i2c.op /\ i2c'.call = i2c.call /\ i2c'.len = i2c.len
      /\ i2c'.buf_len = i2c.buf_len /\ i2c'.remaining = i2c.remaining
      /\ i2c'.buf = i2c.buf /\ i2c'.reason = i2c.reason /\ i2c'.missed = i2c.missed
      /\ i2c'.overlaps = i2c.overlaps
  BY DEF I2cInv, I2cShape, I2cProgram
<1>2. Gone' = Gone /\ Queued' = Queued /\ Come' = Come /\ Got' = Got
  BY <1>1 DEF Gone, Queued, Come, Got
<1>3. I2cShape'
  BY <1>2 DEF I2cInv, I2cShape, I2cProgram
<1>4. I2cAll' = I2cAll /\ Restarts' = Restarts /\ Sent' = Sent /\ Failed' = Failed
  BY <1>1, <1>2 DEF I2cAll, Restarts, Sent, Failed
<1> QED BY <1>1, <1>2, <1>3, <1>4

LEMMA FillDoneInv ==
  ASSUME I2cInv, i2c.op = "write", At("fill"), bsc.DONE,
         i2c' = [i2c EXCEPT !.pc = "err"], bsc' = bsc
  PROVE  I2cInv'
<1>1. "err" \in I2cPlace
  BY DEF I2cPlace
<1>2. I2cPlaces' /\ I2cCounts'
  BY <1>1, I2cGoes DEF I2cInv, I2cPlaces, I2cCounts, Restarts, At
<1> SUFFICES ASSUME I2cAlone PROVE I2cAlone'
  BY <1>1, <1>2, I2cGoes DEF I2cInv
<1>3. /\ bsc.request # "write" /\ bsc.bus # "write" /\ ~i2c.missed
  BY DEF I2cInv, I2cAlone, I2cTransfers, I2cPlaces, Restarts
<1>4. Failed \/ i2c.remaining = 0
  <2>1. CASE Sent
    <3>1. i2c.remaining = i2c.len - Gone - Queued /\ Gone = i2c.len /\ Gone + Queued <= i2c.len
      BY <2>1 DEF I2cAlone, I2cData, Sent
    <3> QED BY <3>1, I2cNumbers
  <2> QED BY <1>3, <2>1 DEF I2cAlone, I2cOutcome, At
<1>5. I2cTransfers' /\ I2cData'
  BY <1>1, I2cGoes DEF I2cAlone, I2cTransfers, I2cData, At
<1>6. I2cWaits'
  BY <1>1, <1>3, I2cGoes DEF I2cAlone, I2cWaits, At
<1>7. I2cOutcome'
  BY <1>1, <1>3, <1>4, I2cGoes DEF I2cAlone, I2cOutcome, At
<1> QED BY <1>5, <1>6, <1>7 DEF I2cAlone

(* The byte that is written is the next one. *)
LEMMA FillPlace ==
  ASSUME I2cInv, i2c.op = "write", i2c.remaining > 0
  PROVE  /\ i2c.len - i2c.remaining + 1 \in 1..MaxI2cBytes
         /\ I2cAlone =>
              /\ i2c.len - i2c.remaining + 1 = Gone + Queued + 1
              /\ Gone + Queued + 1 \in Nat
              /\ i2c.remaining - 1 = i2c.len - Gone - (Queued + 1)
              /\ Gone + (Queued + 1) <= i2c.len
<1>1. i2c.remaining <= i2c.len
  BY DEF I2cInv, I2cCounts
<1>2. I2cAlone => i2c.remaining = i2c.len - Gone - Queued /\ Gone + Queued <= i2c.len
  BY DEF I2cAlone, I2cData
<1> QED BY <1>1, <1>2, I2cNumbers

LEMMA FillPutsInv ==
  ASSUME I2cInv, i2c.op = "write", At("fill"), i2c.remaining > 0,
         Len(bsc.tx) < BSC_FIFO_SIZE,
         i2c' = [i2c EXCEPT !.remaining = i2c.remaining - 1],
         bsc' = [bsc EXCEPT
                   !.tx = Append(bsc.tx, <<i2c.call, i2c.len - i2c.remaining + 1>>)]
  PROVE  I2cInv'
<1> DEFINE byte == <<i2c.call, i2c.len - i2c.remaining + 1>>
           tx == Append(bsc.tx, byte)
<1>1. i2c.call \in 1..MaxI2cCalls /\ Queued < BSC_FIFO_SIZE
  BY DEF I2cInv, I2cPlaces, Queued
<1>2. byte \in I2cByte
  BY <1>1, FillPlace DEF I2cByte
<1>3. tx \in Seq(I2cByte) /\ Len(tx) = Queued + 1
  <2> HIDE DEF byte
  <2> QED BY <1>2, I2cTypes, AppendProperties DEF Queued
<1>4. I2cAlone => Follows(tx, I2cAll, Gone)
  <2>1. SUFFICES ASSUME I2cAlone PROVE Follows(tx, I2cAll, Gone)
    OBVIOUS
  <2>2. byte = I2cAll[Gone + Queued + 1]
    BY <2>1, FillPlace DEF I2cAll
  <2>3. bsc.tx \in Seq(I2cByte) /\ Gone \in Nat /\ Follows(bsc.tx, I2cAll, Gone)
    BY <2>1, I2cTypes, I2cNumbers DEF I2cAlone, I2cData
  <2> HIDE DEF byte
  <2> QED BY <1>2, <2>2, <2>3, FollowsAppend DEF Queued
<1> HIDE DEF byte, tx
<1>5. bsc' = [bsc EXCEPT !.tx = tx]
  BY DEF tx, byte
<1>6. /\ bsc'.bus = bsc.bus /\ bsc'.left = bsc.left /\ bsc'.request = bsc.request
      /\ bsc'.foreign = bsc.foreign
      /\ bsc'.dlen = bsc.dlen /\ bsc'.tx = tx /\ bsc'.rx = bsc.rx
      /\ bsc'.sent = bsc.sent
      /\ bsc'.DONE = bsc.DONE /\ bsc'.ERR = bsc.ERR /\ bsc'.CLKT = bsc.CLKT
  BY <1>5 DEF I2cInv, I2cShape, BscState
<1>7. /\ i2c'.pc = i2c.pc /\ i2c'.op = i2c.op /\ i2c'.call = i2c.call /\ i2c'.len = i2c.len
      /\ i2c'.buf_len = i2c.buf_len /\ i2c'.remaining = i2c.remaining - 1
      /\ i2c'.buf = i2c.buf /\ i2c'.reason = i2c.reason /\ i2c'.missed = i2c.missed
      /\ i2c'.overlaps = i2c.overlaps
  BY DEF I2cInv, I2cShape, I2cProgram
<1>8. /\ Gone' = Gone /\ Queued' = Queued + 1 /\ Come' = Come /\ Got' = Got
      /\ I2cAll' = I2cAll
  BY <1>3, <1>6, <1>7 DEF Gone, Queued, Come, Got, I2cAll
<1>9. I2cShape'
  <2>1. i2c.remaining - 1 \in Length
    BY I2cNumbers DEF Length
  <2>2. i2c' \in I2cProgram
    BY <2>1 DEF I2cInv, I2cShape, I2cProgram
  <2>3. bsc' \in BscState
    BY <1>3, <1>5 DEF I2cInv, I2cShape, BscState
  <2>4. Queued' <= BSC_FIFO_SIZE /\ Come' <= BSC_FIFO_SIZE
    BY <1>1, <1>8, I2cNumbers DEF I2cInv, I2cShape
  <2> QED BY <2>2, <2>3, <2>4 DEF I2cShape
<1>10. I2cPlaces' /\ I2cCounts'
  <2>1. i2c.remaining - 1 <= i2c.len
    BY I2cNumbers DEF I2cInv, I2cCounts
  <2> QED BY <1>6, <1>7, <1>8, <2>1 DEF I2cInv, I2cPlaces, I2cCounts, Restarts, At
<1> SUFFICES ASSUME I2cAlone PROVE I2cAlone'
  BY <1>7, <1>9, <1>10 DEF I2cInv
<1>11. I2cTransfers' /\ I2cWaits'
  BY <1>6, <1>7, <1>8 DEF I2cAlone, I2cTransfers, I2cWaits, At
<1>12. I2cData'
  <2>1. /\ i2c'.remaining = i2c.len - Gone' - Queued' /\ Gone' + Queued' <= i2c.len
    BY <1>7, <1>8, FillPlace
  <2>2. Follows(bsc'.tx, I2cAll', Gone')
    BY <1>4, <1>6, <1>8
  <2> QED BY <1>6, <1>7, <1>8, <2>1, <2>2 DEF I2cAlone, I2cData
<1>13. I2cOutcome'
  BY <1>6, <1>7, <1>8 DEF I2cAlone, I2cOutcome, At, Sent, Failed
<1> QED BY <1>11, <1>12, <1>13 DEF I2cAlone

LEMMA StartedInv ==
  ASSUME I2cInv, Restarts, Started PROVE I2cInv'
<1>1. /\ i2c' = [i2c EXCEPT !.pc = "restart"] /\ bsc' = bsc /\ At("started")
      /\ TA \/ bsc.DONE
      /\ "restart" \in I2cPlace
  BY DEF Started, I2cPlace
<1>2. I2cPlaces' /\ I2cCounts'
  BY <1>1, I2cGoes DEF I2cInv, I2cPlaces, I2cCounts, Restarts, At
<1> SUFFICES ASSUME I2cAlone PROVE I2cAlone'
  BY <1>1, <1>2, I2cGoes DEF I2cInv
<1>3. bsc.request # "write" /\ (bsc.bus = "write" \/ bsc.DONE)
  <2>1. CASE bsc.DONE
    BY <2>1 DEF I2cAlone, I2cTransfers
  <2>2. CASE TA
    <3>1. bsc.bus = "write"
      BY <1>1, <2>2, I2cTypes DEF I2cAlone, I2cWaits, TA, Transfer, At
    <3> QED BY <3>1 DEF I2cAlone, I2cTransfers
  <2> QED BY <1>1, <2>1, <2>2
<1>4. I2cTransfers' /\ I2cData'
  BY <1>1, I2cGoes DEF I2cAlone, I2cTransfers, I2cData, At
<1>5. I2cWaits'
  BY <1>1, <1>3, I2cGoes DEF I2cAlone, I2cWaits, At
<1>6. I2cOutcome'
  BY <1>1, I2cGoes DEF I2cAlone, I2cOutcome, At
<1> QED BY <1>4, <1>5, <1>6 DEF I2cAlone

LEMMA RestartInv ==
  ASSUME I2cInv, Restarts, Restart PROVE I2cInv'
<1> DEFINE missed == bsc.DONE
<1>1. /\ i2c' = [i2c EXCEPT !.pc = "drain", !.remaining = i2c.buf_len, !.missed = missed]
      /\ bsc' = [bsc EXCEPT !.request = "read", !.dlen = i2c.buf_len]
      /\ At("restart")
  BY DEF Restart
<1>2. missed \in BOOLEAN
  BY DEF I2cInv, I2cShape, BscState
<1>3. (missed <=> bsc.DONE)
  OBVIOUS
<1> HIDE DEF missed
<1>4. /\ i2c'.pc = "drain" /\ i2c'.op = i2c.op /\ i2c'.call = i2c.call /\ i2c'.len = i2c.len
      /\ i2c'.buf_len = i2c.buf_len /\ i2c'.remaining = i2c.buf_len
      /\ i2c'.buf = i2c.buf /\ i2c'.reason = i2c.reason /\ i2c'.missed = missed
      /\ i2c'.overlaps = i2c.overlaps
  BY <1>1 DEF I2cInv, I2cShape, I2cProgram
<1>5. /\ bsc'.bus = bsc.bus /\ bsc'.left = bsc.left /\ bsc'.request = "read"
      /\ bsc'.dlen = i2c.buf_len /\ bsc'.tx = bsc.tx /\ bsc'.rx = bsc.rx
      /\ bsc'.sent = bsc.sent /\ bsc'.foreign = bsc.foreign
      /\ bsc'.DONE = bsc.DONE /\ bsc'.ERR = bsc.ERR /\ bsc'.CLKT = bsc.CLKT
  BY <1>1 DEF I2cInv, I2cShape, BscState
<1>6. /\ Gone' = Gone /\ Queued' = Queued /\ Come' = Come /\ Got' = Got
      /\ I2cAll' = I2cAll
  BY <1>4, <1>5 DEF Gone, Queued, Come, Got, I2cAll
<1>7. I2cShape'
  <2>1. i2c.buf_len \in Length
    BY DEF I2cInv, I2cShape, I2cProgram
  <2>2. i2c' \in I2cProgram
    BY <1>1, <1>2, <2>1 DEF I2cInv, I2cShape, I2cProgram, I2cPlace
  <2>3. bsc' \in BscState
    BY <1>1, <2>1 DEF I2cInv, I2cShape, BscState, Transfer
  <2> QED BY <1>6, <2>2, <2>3 DEF I2cInv, I2cShape
<1>8. I2cPlaces' /\ I2cCounts'
  <2>1. i2c.buf = <<>> /\ Got = 0 /\ i2c.buf_len = i2c.buf_len - 0
    BY <1>1, EmptyQueues, I2cNumbers DEF I2cInv, I2cCounts, At
  <2> QED BY <1>1, <1>4, <1>5, <1>6, <2>1 DEF I2cInv, I2cPlaces, I2cCounts, Restarts, At
<1> SUFFICES ASSUME I2cAlone PROVE I2cAlone'
  BY <1>4, <1>7, <1>8 DEF I2cInv
<1>9. /\ bsc.bus # "read" /\ bsc.request # "read" /\ i2c.buf = <<>> /\ bsc.rx = <<>>
      /\ bsc.request # "write" /\ i2c.op \notin {"none", "write"} /\ ~At("start")
  BY <1>1 DEF I2cAlone, I2cWaits, At, Restarts
<1>10. I2cWaits' /\ I2cTransfers' /\ I2cData'
  <2>1. I2cWaits'
    BY <1>4, <1>5, <1>9 DEF I2cAlone, I2cWaits, At
  <2>2. I2cTransfers'
    BY <1>4, <1>5, <1>6, <1>9 DEF I2cAlone, I2cTransfers, At
  <2>3. I2cData'
    BY <1>4, <1>5, <1>6, <1>9 DEF I2cAlone, I2cData
  <2> QED BY <2>1, <2>2, <2>3
<1>11. I2cOutcome'
  <2>1. (Sent \/ Failed) \/ bsc.bus = "write"
    BY <1>9 DEF I2cAlone, I2cOutcome
  <2>2. i2c'.missed \/ ~bsc'.DONE
    BY <1>3, <1>4, <1>5
  <2>3. (Sent => Sent') /\ (Failed => Failed')
    BY <1>4, <1>5, <1>6 DEF Sent, Failed
  <2> QED BY <1>4, <1>5, <2>1, <2>2, <2>3 DEF I2cOutcome, At
<1> QED BY <1>10, <1>11 DEF I2cAlone

LEMMA TakeInv ==
  ASSUME I2cInv, i2c.pc \in {"drain", "rest"}, Take PROVE I2cInv'
<1> DEFINE buf == Append(i2c.buf, Head(bsc.rx))
           rx == Tail(bsc.rx)
<1>1. /\ i2c' = [i2c EXCEPT !.remaining = i2c.remaining - 1, !.buf = buf]
      /\ bsc' = [bsc EXCEPT !.rx = rx]
      /\ i2c.remaining > 0 /\ bsc.rx # <<>>
  BY DEF Take
<1>2. /\ rx \in Seq(I2cByte) /\ Len(rx) = Come - 1 /\ Come > 0
      /\ Head(bsc.rx) \in I2cByte
  <2>1. bsc.rx \in Seq(I2cByte) /\ Come \in Nat /\ Len(bsc.rx) # 0
    BY <1>1, I2cTypes, I2cNumbers, EmptySeq
  <2> QED BY <1>1, <2>1, HeadTailProperties DEF Come
<1>3. buf \in Seq(I2cByte) /\ Len(buf) = Got + 1
  BY <1>2, I2cTypes, AppendProperties DEF Got
<1>4. I2cAlone => Follows(rx, I2cAll, Got + 1) /\ Follows(buf, I2cAll, 0)
  <2>1. SUFFICES ASSUME I2cAlone PROVE Follows(rx, I2cAll, Got + 1) /\ Follows(buf, I2cAll, 0)
    OBVIOUS
  <2>2. /\ bsc.rx \in Seq(I2cByte) /\ Got \in Nat /\ Follows(bsc.rx, I2cAll, Got)
        /\ Follows(i2c.buf, I2cAll, 0) /\ Got + 1 = 0 + Got + 1
    BY <2>1, I2cTypes, I2cNumbers DEF I2cAlone, I2cData
  <2>3. Head(bsc.rx) = I2cAll[Got + 1] /\ Follows(rx, I2cAll, Got + 1)
    BY <1>1, <2>2, FollowsTail
  <2> QED BY <1>2, <2>2, <2>3, I2cTypes, FollowsAppend DEF Got
<1> HIDE DEF buf, rx
<1>5. /\ i2c'.pc = i2c.pc /\ i2c'.op = i2c.op /\ i2c'.call = i2c.call /\ i2c'.len = i2c.len
      /\ i2c'.buf_len = i2c.buf_len /\ i2c'.remaining = i2c.remaining - 1
      /\ i2c'.buf = buf /\ i2c'.reason = i2c.reason /\ i2c'.missed = i2c.missed
      /\ i2c'.overlaps = i2c.overlaps
  BY <1>1 DEF I2cInv, I2cShape, I2cProgram
<1>6. /\ bsc'.bus = bsc.bus /\ bsc'.left = bsc.left /\ bsc'.request = bsc.request
      /\ bsc'.dlen = bsc.dlen /\ bsc'.tx = bsc.tx /\ bsc'.rx = rx
      /\ bsc'.sent = bsc.sent /\ bsc'.foreign = bsc.foreign
      /\ bsc'.DONE = bsc.DONE /\ bsc'.ERR = bsc.ERR /\ bsc'.CLKT = bsc.CLKT
  BY <1>1 DEF I2cInv, I2cShape, BscState
<1>7. /\ Gone' = Gone /\ Queued' = Queued /\ Come' = Come - 1 /\ Got' = Got + 1
      /\ I2cAll' = I2cAll
  BY <1>2, <1>3, <1>5, <1>6 DEF Gone, Queued, Come, Got, I2cAll
<1>8. i2c.op \notin {"none", "write"} /\ i2c.remaining = i2c.buf_len - Got
  <2>1. i2c.op = "read" \/ (Restarts /\ i2c.pc \notin {"start", "started", "restart"})
    BY I2cTypes DEF I2cInv, I2cPlaces, Restarts, Op, At
  <2> QED BY <2>1 DEF I2cInv, I2cCounts, Restarts
<1>9. I2cShape'
  <2>1. i2c.remaining - 1 \in Length
    BY <1>1, I2cNumbers DEF Length
  <2>2. i2c' \in I2cProgram
    BY <1>1, <1>3, <2>1 DEF I2cInv, I2cShape, I2cProgram
  <2>3. bsc' \in BscState
    BY <1>1, <1>2 DEF I2cInv, I2cShape, BscState
  <2>4. Queued' <= BSC_FIFO_SIZE /\ Come' <= BSC_FIFO_SIZE
    BY <1>7, I2cNumbers DEF I2cInv, I2cShape
  <2> QED BY <2>2, <2>3, <2>4 DEF I2cShape
<1>10. I2cPlaces' /\ I2cCounts'
  <2>1. i2c'.remaining = i2c'.buf_len - Got'
    BY <1>5, <1>7, <1>8, I2cNumbers
  <2>2. I2cPlaces'
    BY <1>5, <1>8 DEF I2cInv, I2cPlaces, Restarts, At
  <2>3. I2cCounts'
    BY <1>5, <1>6, <1>8, <2>1 DEF I2cInv, I2cCounts, Restarts, At
  <2> QED BY <2>2, <2>3
<1> SUFFICES ASSUME I2cAlone PROVE I2cAlone'
  BY <1>5, <1>9, <1>10 DEF I2cInv
<1>11. bsc.request # "read" /\ Got' + Come' = Got + Come
  <2>1. bsc.request # "read"
    BY <1>1 DEF I2cAlone, I2cTransfers
  <2> QED BY <1>7, <2>1, I2cNumbers
<1>12. I2cTransfers' /\ I2cWaits'
  BY <1>5, <1>6, <1>7, <1>11 DEF I2cAlone, I2cTransfers, I2cWaits, At
<1>13. I2cData'
  BY <1>4, <1>5, <1>6, <1>7, <1>8 DEF I2cAlone, I2cData
<1>14. I2cOutcome'
  BY <1>5, <1>6, <1>7, <1>11 DEF I2cAlone, I2cOutcome, At, Sent, Failed
<1> QED BY <1>12, <1>13, <1>14 DEF I2cAlone

(* DONE is seen: what is left in the FIFO comes next. *)
LEMMA DrainDoneInv ==
  ASSUME I2cInv, At("drain"), bsc.DONE, i2c' = [i2c EXCEPT !.pc = "rest"], bsc' = bsc
  PROVE  I2cInv'
<1>1. "rest" \in I2cPlace
  BY DEF I2cPlace
<1>2. I2cPlaces' /\ I2cCounts'
  BY <1>1, I2cGoes DEF I2cInv, I2cPlaces, I2cCounts, Restarts, At
<1> SUFFICES ASSUME I2cAlone PROVE I2cAlone'
  BY <1>1, <1>2, I2cGoes DEF I2cInv
<1>3. bsc.request # "write" /\ bsc.bus # "write"
  BY DEF I2cAlone, I2cTransfers
<1>4. I2cTransfers' /\ I2cData'
  BY <1>1, I2cGoes DEF I2cAlone, I2cTransfers, I2cData, At
<1>5. I2cWaits'
  BY <1>1, <1>3, I2cGoes DEF I2cAlone, I2cWaits, At
<1>6. I2cOutcome'
  BY <1>1, I2cGoes DEF I2cAlone, I2cOutcome, At
<1> QED BY <1>4, <1>5, <1>6 DEF I2cAlone

LEMMA RestDoneInv ==
  ASSUME I2cInv, At("rest"), i2c.remaining = 0 \/ bsc.rx = <<>>,
         i2c' = [i2c EXCEPT !.pc = "err"], bsc' = bsc
  PROVE  I2cInv'
<1>1. "err" \in I2cPlace
  BY DEF I2cPlace
<1>2. I2cPlaces' /\ I2cCounts'
  BY <1>1, I2cGoes DEF I2cInv, I2cPlaces, I2cCounts, Restarts, At
<1> SUFFICES ASSUME I2cAlone PROVE I2cAlone'
  BY <1>1, <1>2, I2cGoes DEF I2cInv
<1>3. bsc.DONE
  BY DEF I2cAlone, I2cWaits, At
<1>4. ~i2c.missed => Failed \/ i2c.remaining = 0
  <2>1. CASE ~i2c.missed /\ bsc.rx = <<>> /\ ~Failed
    <3>1. Got + Come = i2c.buf_len
      BY <1>3, <2>1 DEF I2cAlone, I2cOutcome, At
    <3>2. i2c.remaining = i2c.buf_len - Got
      <4>1. i2c.op = "read" \/ (Restarts /\ i2c.pc \notin {"start", "started", "restart"})
        BY I2cTypes DEF I2cInv, I2cPlaces, At, Restarts, Op
      <4> QED BY <4>1 DEF I2cInv, I2cCounts
    <3> QED BY <2>1, <3>1, <3>2, EmptyQueues, I2cNumbers
  <2> QED BY <2>1
<1>5. I2cTransfers' /\ I2cData'
  BY <1>1, I2cGoes DEF I2cAlone, I2cTransfers, I2cData, At
<1>6. I2cWaits'
  BY <1>1, I2cGoes DEF I2cAlone, I2cWaits, At
<1>7. I2cOutcome'
  BY <1>1, <1>3, <1>4, I2cGoes DEF I2cAlone, I2cOutcome, At
<1> QED BY <1>5, <1>6, <1>7 DEF I2cAlone

(* What the program finds out when the transfers are over. *)
LEMMA FinishInv ==
  ASSUME I2cInv, i2c.op # "none", Finish PROVE I2cInv'
<1>0. "clkt" \in I2cPlace /\ "idle" \in I2cPlace
  BY DEF I2cPlace
<1>1. CASE At("err") /\ ~bsc.ERR /\ i2c' = [i2c EXCEPT !.pc = "clkt"]
  <2>1. bsc' = bsc
    <3>1. i2c'.pc = "clkt"
      BY <1>1 DEF I2cInv, I2cShape, I2cProgram
    <3> QED BY <3>1 DEF Finish
  <2>2. I2cPlaces' /\ I2cCounts'
    BY <1>0, <1>1, <2>1, I2cGoes DEF I2cInv, I2cPlaces, I2cCounts, Restarts, At
  <2> SUFFICES ASSUME I2cAlone PROVE I2cAlone'
    BY <1>0, <1>1, <2>1, <2>2, I2cGoes DEF I2cInv
  <2>3. bsc.DONE /\ bsc.request # "write" /\ bsc.bus # "write"
    BY <1>1 DEF I2cAlone, I2cWaits, At
  <2>4. (Sent \/ bsc.CLKT) /\ (~i2c.missed => bsc.CLKT \/ i2c.remaining = 0)
    BY <1>1, <2>3 DEF I2cAlone, I2cOutcome, Failed, At
  <2>5. I2cTransfers' /\ I2cData'
    BY <1>0, <1>1, <2>1, I2cGoes DEF I2cAlone, I2cTransfers, I2cData, At
  <2>6. I2cWaits'
    BY <1>0, <1>1, <2>1, <2>3, I2cGoes DEF I2cAlone, I2cWaits, At
  <2>7. I2cOutcome'
    BY <1>0, <1>1, <2>1, <2>3, <2>4, I2cGoes DEF I2cAlone, I2cOutcome, At
  <2> QED BY <2>5, <2>6, <2>7 DEF I2cAlone
<1>2. ASSUME i2c.pc \in {"err", "clkt"}, NEW reason \in Reason, Return(reason),
             reason = "OK" => i2c.remaining = 0,
             I2cAlone /\ reason = "OK" => Sent,
             I2cAlone /\ ~i2c.missed => reason # "ERROR_DATA"
      PROVE  I2cInv'
  <2> USE <1>2
  <2>1. i2c' = [i2c EXCEPT !.pc = "idle", !.reason = reason]
    BY DEF Return
  <2>2. /\ i2c'.pc = "idle" /\ i2c'.op = i2c.op /\ i2c'.call = i2c.call /\ i2c'.len = i2c.len
        /\ i2c'.buf_len = i2c.buf_len /\ i2c'.remaining = i2c.remaining
        /\ i2c'.buf = i2c.buf /\ i2c'.reason = reason /\ i2c'.missed = i2c.missed
        /\ i2c'.overlaps = i2c.overlaps
    BY <2>1 DEF I2cInv, I2cShape, I2cProgram
  <2>3. /\ bsc'.bus = bsc.bus /\ bsc'.left = bsc.left /\ bsc'.request = bsc.request
        /\ bsc'.dlen = bsc.dlen /\ bsc'.tx = bsc.tx /\ bsc'.rx = bsc.rx
        /\ bsc'.foreign = bsc.foreign
        /\ bsc'.sent = bsc.sent /\ bsc'.ERR = bsc.ERR /\ bsc'.CLKT = bsc.CLKT
        /\ bsc' \in BscState
    <3>1. bsc \in BscState /\ (bsc' = bsc \/ bsc' = [bsc EXCEPT !.DONE = FALSE])
      BY DEF Finish, I2cInv, I2cShape
    <3> QED BY <3>1 DEF BscState
  <2>4. /\ Gone' = Gone /\ Queued' = Queued /\ Come' = Come /\ Got' = Got
        /\ I2cAll' = I2cAll
    BY <2>2, <2>3 DEF Gone, Queued, Come, Got, I2cAll
  <2>5. I2cShape'
    <3>1. i2c' \in I2cProgram
      BY <2>1, <1>0 DEF I2cInv, I2cShape, I2cProgram
    <3> QED BY <2>3, <2>4, <3>1 DEF I2cInv, I2cShape
  <2>6. reason = "OK" => Got' = i2c'.buf_len
    <3>1. CASE i2c.op = "write"
      <4>1. i2c.buf_len = 0 /\ i2c.buf = <<>>
        BY <3>1 DEF I2cInv, I2cPlaces
      <4> QED BY <2>2, <2>4, <4>1, EmptyQueues
    <3>2. CASE i2c.op # "write"
      <4>1. i2c.op = "read" \/ (Restarts /\ i2c.pc \notin {"start", "started", "restart"})
        BY <3>2, I2cTypes DEF Restarts, Op
      <4>2. i2c.remaining = i2c.buf_len - Got
        BY <4>1 DEF I2cInv, I2cCounts
      <4>3. i2c.remaining = 0 => Got = i2c.buf_len
        BY <4>2, I2cNumbers
      <4> QED BY <2>2, <2>4, <4>3
    <3> QED BY <3>1, <3>2
  <2>7. I2cPlaces' /\ I2cCounts'
    <3>1. I2cPlaces'
      BY <2>2 DEF I2cInv, I2cPlaces, Restarts, At
    <3>2. I2cCounts'
      BY <2>2, <2>3, <2>4, <2>6 DEF I2cInv, I2cCounts, Restarts, At
    <3> QED BY <3>1, <3>2
  <2> SUFFICES ASSUME I2cAlone PROVE I2cAlone'
    BY <2>2, <2>5, <2>7 DEF I2cInv
  <2>8. bsc.DONE /\ bsc.request # "write" /\ bsc.bus # "write" /\ ~At("start")
    BY DEF I2cAlone, I2cWaits, At
  <2>9. I2cWaits' /\ I2cTransfers' /\ I2cData'
    <3>1. I2cWaits'
      BY <2>2, <2>3, <2>8 DEF I2cAlone, I2cWaits, At
    <3>2. I2cTransfers'
      BY <2>2, <2>3, <2>4, <2>8 DEF I2cAlone, I2cTransfers, At
    <3>3. I2cData'
      BY <2>2, <2>3, <2>4 DEF I2cAlone, I2cData
    <3> QED BY <3>1, <3>2, <3>3
  <2>10. I2cOutcome'
    <3>1. ~i2c.missed => bsc.bus = "idle" /\ bsc.request = "idle"
      BY <2>8 DEF I2cAlone, I2cOutcome
    <3>2. Sent' \/ Failed'
      <4>1. Sent \/ Failed
        BY <2>8 DEF I2cAlone, I2cOutcome
      <4> QED BY <2>2, <2>3, <2>4, <4>1 DEF Sent, Failed
    <3>3. reason = "OK" => Sent'
      BY <2>2, <2>4 DEF Sent
    <3> QED BY <2>2, <2>3, <3>1, <3>2, <3>3 DEF I2cOutcome, At
  <2> QED BY <2>9, <2>10 DEF I2cAlone
<1>3. CASE At("err") /\ Return("ERROR_NACK")
  BY <1>2, <1>3 DEF At, Reason
<1>4. CASE At("clkt") /\ Return(IF bsc.CLKT THEN "ERROR_CLKT"
                                ELSE IF i2c.remaining > 0 THEN "ERROR_DATA" ELSE "OK")
  <2>1. I2cAlone =>
          (Sent \/ bsc.CLKT) /\ (~i2c.missed => bsc.CLKT \/ i2c.remaining = 0)
    BY <1>4 DEF I2cAlone, I2cOutcome
  <2>2. CASE bsc.CLKT
    <3>1. Return("ERROR_CLKT")
      BY <1>4, <2>2, Zenon
    <3> QED BY <1>2, <1>4, <3>1 DEF At, Reason
  <2>3. CASE ~bsc.CLKT /\ i2c.remaining > 0
    <3>1. Return("ERROR_DATA")
      BY <1>4, <2>3, Zenon
    <3>2. I2cAlone => i2c.missed
      BY <2>1, <2>3
    <3> QED BY <1>2, <1>4, <3>1, <3>2 DEF At, Reason
  <2>4. CASE ~bsc.CLKT /\ ~(i2c.remaining > 0)
    <3>1. Return("OK")
      BY <1>4, <2>4, Zenon
    <3>2. i2c.remaining = 0
      BY <2>4, I2cNumbers
    <3> QED BY <1>2, <1>4, <2>1, <2>4, <3>1, <3>2 DEF At, Reason
  <2> QED BY <2>2, <2>3, <2>4
<1> QED BY <1>1, <1>3, <1>4, Zenon DEF Finish, Verdict

LEMMA I2cProgramInv == ASSUME I2cInv, Program PROVE I2cInv'
<1>1. 0 \in Length /\ 1 \in Length
  BY I2cAssumption DEF Length
<1>2. CASE \/ \E n \in Length : Begin("write", n, 0)
           \/ \E m \in Length : Begin("read", 0, m)
  BY <1>1, <1>2, BeginInv DEF Op
<1>3. CASE \/ \E m \in Length : Begin("register", 1, m)
           \/ \E n, m \in Length : Begin("write_read", n, m)
  BY <1>1, <1>3, BeginInv DEF Op
<1>4. CASE \/ i2c.op = "write" /\ Start("fill")
           \/ i2c.op = "read" /\ Start("drain")
           \/ Restarts /\ Start("started")
  BY <1>4, StartInv DEF Restarts
<1>5. CASE i2c.op = "write" /\ Fill
  BY <1>5, FillDoneInv, FillPutsInv DEF Fill
<1>6. CASE Restarts /\ (Started \/ Restart)
  BY <1>6, StartedInv, RestartInv
<1>7. CASE Drain
  BY <1>7, DrainDoneInv, TakeInv DEF Drain, At
<1>8. CASE Rest
  BY <1>8, RestDoneInv, TakeInv DEF Rest, At
<1>9. CASE i2c.op # "none" /\ Finish
  BY <1>9, FinishInv
<1> QED BY <1>2, <1>3, <1>4, <1>5, <1>6, <1>7, <1>8, <1>9
        DEF Program, bcm2835_i2c_write, bcm2835_i2c_read, bcm2835_i2c_read_register_rs,
            bcm2835_i2c_write_read_rs, Restarts

LEMMA I2cNextInv == I2cInv /\ [I2cNext]_i2cVars => I2cInv'
<1> SUFFICES ASSUME I2cInv, [I2cNext]_i2cVars PROVE I2cInv'
  OBVIOUS
<1>1. CASE UNCHANGED i2cVars
  <2>1. i2c' = i2c /\ bsc' = bsc
    BY <1>1 DEF i2cVars
  <2>2. /\ Gone' = Gone /\ Queued' = Queued /\ Come' = Come /\ Got' = Got
        /\ I2cAll' = I2cAll
    BY <2>1 DEF Gone, Queued, Come, Got, I2cAll
  <2>3. I2cShape' /\ I2cPlaces' /\ I2cCounts'
    BY <2>1, <2>2 DEF I2cInv, I2cShape, I2cPlaces, I2cCounts, Restarts, At
  <2> SUFFICES ASSUME I2cAlone PROVE I2cAlone'
    BY <2>1, <2>3 DEF I2cInv
  <2>4. I2cTransfers' /\ I2cWaits' /\ I2cData'
    BY <2>1, <2>2 DEF I2cAlone, I2cTransfers, I2cWaits, I2cData, At
  <2>5. I2cOutcome'
    BY <2>1, <2>2 DEF I2cAlone, I2cOutcome, At, Sent, Failed
  <2> QED BY <2>4, <2>5 DEF I2cAlone
<1> QED BY <1>1, I2cProgramInv, BusStartsInv, BusWritesInv, BusReadsInv, BusEndsInv,
           BusFailsInv DEF I2cNext, Bus

LEMMA I2cInitInv == I2cInit => I2cInv
<1> SUFFICES ASSUME I2cInit PROVE I2cInv
  OBVIOUS
<1> USE DEF I2cInit
<1>1. Gone = 0 /\ Queued = 0 /\ Come = 0 /\ Got = 0
  BY EmptyQueues
<1>2. I2cShape
  <2>1. <<>> \in Seq(I2cByte) /\ 0 \in Length /\ 0 \in 0..MaxI2cCalls
    BY I2cAssumption DEF Length
  <2> QED BY <1>1, <2>1, I2cAssumption
          DEF I2cShape, I2cProgram, I2cPlace, BscState, Op, Transfer, Reason
<1>3. I2cPlaces /\ I2cCounts /\ I2cTransfers /\ I2cWaits
  BY <1>1 DEF I2cPlaces, I2cCounts, I2cTransfers, I2cWaits, Restarts, At
<1>4. I2cData
  BY <1>1, FollowsEmpty DEF I2cData
<1>5. I2cOutcome
  BY <1>1 DEF I2cOutcome, At, Sent
<1> QED BY <1>2, <1>3, <1>4, <1>5 DEF I2cInv, I2cAlone

LEMMA I2cInvIsTrue == I2cInv => I2cTypeOK /\ I2cIsTrue
<1> SUFFICES ASSUME I2cInv PROVE I2cTypeOK /\ I2cIsTrue
  OBVIOUS
<1>1. I2cTypeOK
  BY DEF I2cInv, I2cShape, I2cProgram, I2cPlace, BscState, I2cTypeOK, Queued, Come
<1>2. ASSUME Returned, i2c.reason = "OK" PROVE Len(i2c.buf) = i2c.buf_len
  BY <1>2 DEF I2cInv, I2cCounts, Returned, Got
<1>3. ASSUME Returned, i2c.reason = "OK", ~i2c.overlaps
      PROVE  /\ bsc.sent = I2cBytes(i2c.call, 1, i2c.len)
             /\ i2c.buf = I2cBytes(i2c.call, 1, i2c.buf_len)
  <2>1. /\ Gone = i2c.len /\ Got = i2c.buf_len
        /\ Follows(bsc.sent, I2cAll, 0) /\ Follows(i2c.buf, I2cAll, 0)
        /\ i2c.call \in 1..MaxI2cCalls
    BY <1>3 DEF I2cInv, I2cCounts, I2cAlone, I2cOutcome, I2cData, I2cPlaces, Returned,
                Called, Sent
  <2>2. /\ bsc.sent = [k \in 1..Gone |-> I2cAll[k]]
        /\ i2c.buf = [k \in 1..Got |-> I2cAll[k]]
    BY <2>1, I2cTypes, FollowsAll DEF Gone, Got
  <2>3. i2c.len \in 0..MaxI2cBytes /\ i2c.buf_len \in 0..MaxI2cBytes
    BY I2cNumbers
  <2>4. /\ I2cBytes(i2c.call, 1, i2c.len) = [k \in 1..i2c.len |-> I2cAll[k]]
        /\ I2cBytes(i2c.call, 1, i2c.buf_len) = [k \in 1..i2c.buf_len |-> I2cAll[k]]
    BY <2>1, <2>3, I2cBytesFollow DEF I2cAll
  <2> QED BY <2>1, <2>2, <2>4
<1>4. EarlyReturnExplained
  BY DEF I2cInv, I2cAlone, I2cOutcome, EarlyReturnExplained, Returned, TA, At
<1> QED BY <1>1, <1>2, <1>3, <1>4 DEF I2cIsTrue, OkIsComplete

-----------------------------------------------------------------------------
(* SPI *)

SpiProgramState ==
  [pc : {"idle", "send", "receive", "done"},
   op : {"none", "transfer", "transfernb", "transfern", "writenb", "write"},
   call : 0..MaxSpiCalls, len : 0..MaxSpiBytes, tx_cnt : 0..MaxSpiBytes,
   rx_cnt : 0..MaxSpiBytes, tbuf : Seq(SpiByte), rbuf : Seq(SpiByte)]

SpiState ==
  [TA : BOOLEAN, tx : Seq(SpiByte), rx : Seq(SpiByte), slave : Seq(SpiByte)]

SpiOut == [k \in Nat |-> <<"out", spi.call, k>>]
SpiIn == [k \in Nat |-> <<"in", spi.call, k>>]

(* The calls that read what the slave answers. *)
Listens == spi.op \in {"none", "transfer", "transfernb", "transfern"}

Sending == Len(cs.tx)
Answers == Len(cs.rx)
Served == Len(cs.slave)

SpiShape ==
  /\ spi \in SpiProgramState /\ cs \in SpiState
  /\ Sending <= SPI_FIFO_SIZE /\ Answers <= SPI_FIFO_SIZE

SpiPlaces ==
  /\ spi.op = "none" => SpiAt("idle")
  /\ spi.op # "none" => spi.call \in 1..MaxSpiCalls
  /\ spi.op = "transfer" => spi.len = 1 /\ (SpiAt("receive") => spi.tx_cnt = 1)
  /\ spi.op = "write" => spi.len = 2 /\ (SpiAt("send") => spi.tx_cnt = 0)
  /\ spi.pc \in {"done", "idle"} =>
       spi.tx_cnt = spi.len /\ (Listens => spi.rx_cnt = spi.len)
  /\ SpiAt("idle") => cs.tx = <<>>

(* What has been sent is with the slave or on its way, and so the bytes    *)
(* that transfern overwrites are not needed any more.                      *)
SpiData ==
  /\ Served + Sending = spi.tx_cnt /\ spi.tx_cnt <= spi.len
  /\ Follows(cs.slave, SpiOut, 0) /\ Follows(cs.tx, SpiOut, Served)
  /\ Len(spi.tbuf) = spi.len
  /\ \A k \in spi.tx_cnt + 1 .. spi.len : spi.tbuf[k] = SpiOut[k]
  /\ Len(spi.rbuf) = spi.rx_cnt /\ spi.rx_cnt <= spi.len
  /\ Follows(spi.rbuf, SpiIn, 0)
  /\ Listens => Served = spi.rx_cnt + Answers /\ Follows(cs.rx, SpiIn, spi.rx_cnt)
  /\ ~Listens => spi.rx_cnt = 0

SpiInv == SpiShape /\ SpiPlaces /\ SpiData

LEMMA SpiTypes ==
  ASSUME SpiInv
  PROVE  /\ cs.tx \in Seq(SpiByte) /\ cs.rx \in Seq(SpiByte) /\ cs.slave \in Seq(SpiByte)
         /\ spi.tbuf \in Seq(SpiByte) /\ spi.rbuf \in Seq(SpiByte)
BY DEF SpiInv, SpiShape, SpiProgramState, SpiState

LEMMA SpiNumbers ==
  ASSUME SpiInv
  PROVE  /\ spi.len \in Int /\ spi.tx_cnt \in Int /\ spi.rx_cnt \in Int
         /\ spi.len >= 0 /\ spi.tx_cnt >= 0 /\ spi.rx_cnt >= 0
         /\ spi.len <= MaxSpiBytes
         /\ Sending \in Nat /\ Answers \in Nat /\ Served \in Nat
         /\ MaxSpiBytes \in Nat /\ SPI_FIFO_SIZE \in Nat /\ SPI_FIFO_SIZE >= 2
         /\ MaxSpiBytes >= 2
<1>1. /\ spi.len \in 0..MaxSpiBytes /\ spi.tx_cnt \in 0..MaxSpiBytes
      /\ spi.rx_cnt \in 0..MaxSpiBytes
  BY DEF SpiInv, SpiShape, SpiProgramState
<1>2. Sending \in Nat /\ Answers \in Nat /\ Served \in Nat
  BY SpiTypes, LenProperties DEF Sending, Answers, Served
<1> QED BY <1>1, <1>2, SpiAssumption

LEMMA SpiEmpty ==
  /\ (cs.tx = <<>> => Sending = 0) /\ (cs.rx = <<>> => Answers = 0)
  /\ (cs.slave = <<>> => Served = 0)
BY EmptySeq DEF Sending, Answers, Served

LEMMA SpiNotEmpty ==
  ASSUME SpiInv
  PROVE  (cs.tx # <<>> => Sending > 0) /\ (cs.rx # <<>> => Answers > 0)
BY SpiTypes, EmptySeq DEF Sending, Answers

(* A byte out for a byte in: both stay where the counters say. *)
LEMMA ExchangeInv == ASSUME SpiInv, Exchange PROVE SpiInv'
<1> DEFINE reply == <<"in", spi.call, Served + 1>>
           tx == Tail(cs.tx)
           rx == Append(cs.rx, reply)
           slave == Append(cs.slave, Head(cs.tx))
<1>1. /\ cs' = [cs EXCEPT !.tx = tx, !.rx = rx, !.slave = slave] /\ spi' = spi
      /\ cs.tx # <<>> /\ Answers < SPI_FIFO_SIZE
  BY DEF Exchange, Served, Answers
<1>2. SpiOut' = SpiOut /\ SpiIn' = SpiIn
  BY <1>1 DEF SpiOut, SpiIn
<1>3. /\ tx \in Seq(SpiByte) /\ Len(tx) = Sending - 1 /\ Sending > 0
      /\ Head(cs.tx) \in SpiByte /\ Head(cs.tx) = SpiOut[Served + 1]
      /\ Follows(tx, SpiOut, Served + 1)
  <2>1. cs.tx \in Seq(SpiByte) /\ Served \in Nat /\ Follows(cs.tx, SpiOut, Served)
    BY SpiTypes, SpiNumbers DEF SpiInv, SpiData
  <2> QED BY <1>1, <2>1, FollowsTail DEF Sending
<1>4. slave \in Seq(SpiByte) /\ Len(slave) = Served + 1 /\ Follows(slave, SpiOut, 0)
  <2>1. Follows(cs.slave, SpiOut, 0) /\ Served + 1 = 0 + Served + 1
    BY SpiNumbers DEF SpiInv, SpiData
  <2> QED BY <1>3, <2>1, SpiTypes, FollowsAppend DEF Served
<1>5. Served + 1 \in 1..MaxSpiBytes /\ spi.op # "none" /\ Served + 1 \in Nat
  <2>1. Served + Sending = spi.tx_cnt /\ spi.tx_cnt <= spi.len
    BY DEF SpiInv, SpiData
  <2>2. Served + 1 \in 1..MaxSpiBytes
    <3>1. \A a, b, c, d, e \in Int :
            a >= 0 /\ b > 0 /\ a + b = c /\ c <= d /\ d <= e => a + 1 \in 1..e
      OBVIOUS
    <3> HIDE DEF reply, tx, rx, slave
    <3>2. /\ Served \in Int /\ Sending \in Int /\ spi.tx_cnt \in Int /\ spi.len \in Int
          /\ MaxSpiBytes \in Int /\ Served >= 0 /\ spi.len <= MaxSpiBytes
      BY SpiNumbers
    <3> QED BY <1>3, <2>1, <3>1, <3>2
  <2>3. spi.op # "none"
    BY <1>1 DEF SpiInv, SpiPlaces
  <2> QED BY <2>2, <2>3, SpiNumbers
<1>6. reply \in SpiByte /\ reply = SpiIn[Served + 1]
  BY <1>5 DEF SpiInv, SpiPlaces, SpiByte, SpiIn
<1>7. /\ rx \in Seq(SpiByte) /\ Len(rx) = Answers + 1
      /\ Listens => Follows(rx, SpiIn, spi.rx_cnt)
  <2> HIDE DEF reply
  <2>1. rx \in Seq(SpiByte) /\ Len(rx) = Answers + 1
    BY <1>6, SpiTypes, AppendProperties DEF Answers
  <2>2. ASSUME Listens PROVE Follows(rx, SpiIn, spi.rx_cnt)
    <3>1. Served = spi.rx_cnt + Answers /\ Follows(cs.rx, SpiIn, spi.rx_cnt)
      BY <2>2 DEF SpiInv, SpiData
    <3>2. spi.rx_cnt \in Nat /\ spi.rx_cnt + Answers + 1 = Served + 1
      BY <3>1, SpiNumbers
    <3> QED BY <1>6, <3>1, <3>2, SpiTypes, FollowsAppend DEF Answers
  <2> QED BY <2>1, <2>2
<1> HIDE DEF tx, rx, slave, reply
<1>8. cs'.TA = cs.TA /\ cs'.tx = tx /\ cs'.rx = rx /\ cs'.slave = slave /\ cs' \in SpiState
  BY <1>1, <1>3, <1>4, <1>7 DEF SpiInv, SpiShape, SpiState
<1>9. Sending' = Sending - 1 /\ Served' = Served + 1 /\ Answers' = Answers + 1
  BY <1>3, <1>4, <1>7, <1>8 DEF Sending, Served, Answers
<1>10. SpiShape'
  <2>1. Sending' <= SPI_FIFO_SIZE /\ Answers' <= SPI_FIFO_SIZE
    BY <1>1, <1>9, SpiNumbers DEF SpiInv, SpiShape
  <2> QED BY <1>1, <1>8, <2>1 DEF SpiInv, SpiShape
<1>11. SpiPlaces'
  BY <1>1 DEF SpiInv, SpiPlaces, SpiAt, Listens
<1>12. SpiData'
  <2>1. Served' + Sending' = Served + Sending
    BY <1>9, SpiNumbers
  <2>2. /\ Follows(cs'.slave, SpiOut', 0) /\ Follows(cs'.tx, SpiOut', Served')
        /\ Listens => Follows(cs'.rx, SpiIn', spi.rx_cnt)
    BY <1>2, <1>3, <1>4, <1>7, <1>8, <1>9
  <2>3. Listens => Served' = spi.rx_cnt + Answers'
    <3>1. Listens => Served = spi.rx_cnt + Answers
      BY DEF SpiInv, SpiData
    <3> QED BY <1>9, <3>1, SpiNumbers
  <2> QED BY <1>1, <1>2, <2>1, <2>2, <2>3 DEF SpiInv, SpiData, Listens
<1> QED BY <1>10, <1>11, <1>12 DEF SpiInv

(* The start of the calls. *)
LEMMA SpiBytesFollow ==
  ASSUME NEW dir \in {"out", "in"}, NEW call \in 1..MaxSpiCalls, NEW n \in 0..MaxSpiBytes,
         NEW all, all = [k \in Nat |-> <<dir, call, k>>]
  PROVE  /\ SpiBytes(dir, call, n) \in Seq(SpiByte) /\ Len(SpiBytes(dir, call, n)) = n
         /\ SpiBytes(dir, call, n) = [k \in 1..n |-> all[k]]
<1>1. n \in Nat
  BY SpiAssumption
<1>2. ASSUME NEW k \in 1..n
      PROVE  all[k] = <<dir, call, k>> /\ <<dir, call, k>> \in SpiByte
  BY <1>1, SpiAssumption DEF SpiByte
<1>3. SpiBytes(dir, call, n) = [k \in 1..n |-> all[k]]
  BY <1>2 DEF SpiBytes
<1> DEFINE s == [k \in 1..n |-> all[k]]
<1>4. s \in [1..n -> SpiByte]
  BY <1>2
<1>5. s \in Seq(SpiByte) /\ Len(s) = n
  <2> HIDE DEF s
  <2> QED BY <1>1, <1>4, SequenceOf
<1> QED BY <1>3, <1>5

LEMMA SpiBeginInv ==
  ASSUME SpiInv,
         NEW op \in {"transfer", "transfernb", "transfern", "writenb", "write"},
         NEW n \in 0..MaxSpiBytes, SpiBegin(op, n),
         op = "transfer" => n = 1, op = "write" => n = 2
  PROVE  SpiInv'
<1> DEFINE call == spi.call + 1
           tbuf == SpiBytes("out", call, n)
<1>1. /\ spi' = [pc |-> "send", op |-> op, call |-> call, len |-> n, tx_cnt |-> 0,
                 rx_cnt |-> 0, tbuf |-> tbuf, rbuf |-> <<>>]
      /\ cs' = [TA |-> TRUE, tx |-> <<>>, rx |-> <<>>, slave |-> <<>>]
      /\ spi.call < MaxSpiCalls
  BY DEF SpiBegin
<1>2. call \in 1..MaxSpiCalls /\ n \in Nat
  BY <1>1, SpiAssumption DEF SpiInv, SpiShape, SpiProgramState
<1>3. /\ SpiOut' = [k \in Nat |-> <<"out", call, k>>]
      /\ tbuf \in Seq(SpiByte) /\ Len(tbuf) = n /\ \A k \in 1..n : tbuf[k] = SpiOut'[k]
  <2> HIDE DEF call
  <2>1. SpiOut' = [k \in Nat |-> <<"out", call, k>>]
    BY <1>1 DEF SpiOut
  <2>2. /\ tbuf \in Seq(SpiByte) /\ Len(tbuf) = n /\ tbuf = [k \in 1..n |-> SpiOut'[k]]
    BY <1>2, <2>1, SpiBytesFollow
  <2> HIDE DEF tbuf
  <2> QED BY <2>1, <2>2
<1> HIDE DEF call, tbuf
<1>4. /\ spi'.pc = "send" /\ spi'.op = op /\ spi'.call = call /\ spi'.len = n
      /\ spi'.tx_cnt = 0 /\ spi'.rx_cnt = 0 /\ spi'.tbuf = tbuf /\ spi'.rbuf = <<>>
      /\ cs'.tx = <<>> /\ cs'.rx = <<>> /\ cs'.slave = <<>>
  BY <1>1
<1>5. Sending' = 0 /\ Answers' = 0 /\ Served' = 0 /\ Len(<<>>) = 0
  BY <1>4, EmptySeq DEF Sending, Answers, Served
<1>6. SpiShape'
  <2>1. <<>> \in Seq(SpiByte) /\ call \in 0..MaxSpiCalls /\ 0 \in 0..MaxSpiBytes
    BY <1>2, SpiAssumption
  <2>2. spi' \in SpiProgramState /\ cs' \in SpiState
    BY <1>1, <1>3, <2>1 DEF SpiProgramState, SpiState
  <2> QED BY <1>5, <2>2, SpiAssumption DEF SpiShape
<1>7. SpiPlaces'
  BY <1>2, <1>4 DEF SpiPlaces, SpiAt
<1>8. SpiData'
  <2>1. Follows(<<>>, SpiOut', 0) /\ Follows(<<>>, SpiIn', 0)
    BY FollowsEmpty
  <2>2. 0 + 0 = 0 /\ 0 <= n /\ 0 + 1 = 1
    BY <1>2
  <2> QED BY <1>3, <1>4, <1>5, <2>1, <2>2 DEF SpiData
<1> QED BY <1>6, <1>7, <1>8 DEF SpiInv

(* n bytes go from the buffer into the FIFO.  What becomes of the places   *)
(* is for each call to say, below.                                         *)
LEMMA PutData ==
  ASSUME SpiInv, NEW n \in {1, 2}, NEW pc \in {"send", "receive", "done"}, Put(n, pc),
         Sending + n <= SPI_FIFO_SIZE, spi.op # "none"
  PROVE  /\ SpiShape' /\ SpiData'
         /\ spi'.pc = pc /\ spi'.op = spi.op /\ spi'.call = spi.call /\ spi'.len = spi.len
         /\ spi'.tx_cnt = spi.tx_cnt + n /\ spi'.rx_cnt = spi.rx_cnt
<1> DEFINE bytes == SubSeq(spi.tbuf, spi.tx_cnt + 1, spi.tx_cnt + n)
           tx == cs.tx \o bytes
<1>1. /\ spi' = [spi EXCEPT !.tx_cnt = spi.tx_cnt + n, !.pc = pc]
      /\ cs' = [cs EXCEPT !.tx = tx] /\ spi.tx_cnt + n <= spi.len
  BY DEF Put
<1>2. /\ spi'.pc = pc /\ spi'.op = spi.op /\ spi'.call = spi.call /\ spi'.len = spi.len
      /\ spi'.tx_cnt = spi.tx_cnt + n /\ spi'.rx_cnt = spi.rx_cnt
      /\ spi'.tbuf = spi.tbuf /\ spi'.rbuf = spi.rbuf
  BY <1>1 DEF SpiInv, SpiShape, SpiProgramState
<1>3. SpiOut' = SpiOut /\ SpiIn' = SpiIn /\ Listens' = Listens
  BY <1>2 DEF SpiOut, SpiIn, Listens
<1>4. bytes \in Seq(SpiByte) /\ Len(bytes) = n /\ Follows(bytes, SpiOut, spi.tx_cnt)
  <2>1. /\ spi.tbuf \in Seq(SpiByte) /\ spi.tx_cnt \in Nat /\ n \in Nat
        /\ spi.tx_cnt + n <= Len(spi.tbuf)
        /\ \A k \in spi.tx_cnt + 1 .. Len(spi.tbuf) : spi.tbuf[k] = SpiOut[k]
    <3>1. /\ Len(spi.tbuf) = spi.len
          /\ \A k \in spi.tx_cnt + 1 .. spi.len : spi.tbuf[k] = SpiOut[k]
      BY DEF SpiInv, SpiData
    <3>2. spi.tbuf \in Seq(SpiByte) /\ spi.tx_cnt \in Nat /\ n \in Nat
      BY SpiTypes, SpiNumbers
    <3> QED BY <1>1, <3>1, <3>2
  <2> QED BY <2>1, FollowsSub
<1>5. tx \in Seq(SpiByte) /\ Len(tx) = Sending + n /\ Follows(tx, SpiOut, Served)
  <2>1. /\ cs.tx \in Seq(SpiByte) /\ Served \in Nat /\ Follows(cs.tx, SpiOut, Served)
        /\ spi.tx_cnt = Served + Sending
    BY SpiTypes, SpiNumbers DEF SpiInv, SpiData
  <2> HIDE DEF bytes
  <2> QED BY <1>4, <2>1, FollowsConcat DEF Sending
<1> HIDE DEF bytes, tx
<1>6. cs'.TA = cs.TA /\ cs'.tx = tx /\ cs'.rx = cs.rx /\ cs'.slave = cs.slave
  BY <1>1 DEF SpiInv, SpiShape, SpiState
<1>7. Sending' = Sending + n /\ Served' = Served /\ Answers' = Answers
  BY <1>5, <1>6 DEF Sending, Served, Answers
<1>8. SpiShape'
  <2>1. spi.tx_cnt + n \in 0..MaxSpiBytes
    BY <1>1, SpiNumbers
  <2>2. spi' \in SpiProgramState
    BY <1>1, <2>1 DEF SpiInv, SpiShape, SpiProgramState
  <2>3. cs' \in SpiState
    BY <1>1, <1>5 DEF SpiInv, SpiShape, SpiState
  <2> QED BY <1>7, <2>2, <2>3 DEF SpiInv, SpiShape
<1>9. SpiData'
  <2>1. Served' + Sending' = spi'.tx_cnt /\ spi'.tx_cnt <= spi'.len
    <3>1. Served + Sending = spi.tx_cnt
      BY DEF SpiInv, SpiData
    <3> QED BY <1>1, <1>2, <1>7, <3>1, SpiNumbers
  <2>2. \A k \in spi'.tx_cnt + 1 .. spi'.len : k \in spi.tx_cnt + 1 .. spi.len
    BY <1>2, SpiNumbers
  <2>3. \A k \in spi'.tx_cnt + 1 .. spi'.len : spi'.tbuf[k] = SpiOut'[k]
    BY <1>2, <1>3, <2>2 DEF SpiInv, SpiData
  <2>4. Follows(cs'.tx, SpiOut', Served') /\ Follows(cs'.slave, SpiOut', 0)
    BY <1>3, <1>5, <1>6, <1>7 DEF SpiInv, SpiData
  <2> QED BY <1>2, <1>3, <1>6, <1>7, <2>1, <2>3, <2>4 DEF SpiInv, SpiData
<1> QED BY <1>2, <1>8, <1>9

(* A byte goes from the FIFO into the buffer; in transfern over one that   *)
(* has been sent.                                                          *)
LEMMA GetData ==
  ASSUME SpiInv, NEW pc \in {"receive", "done"}, Get(pc), Listens, spi.op # "none",
         cs.rx # <<>>
  PROVE  /\ SpiShape' /\ SpiData'
         /\ spi'.pc = pc /\ spi'.op = spi.op /\ spi'.call = spi.call /\ spi'.len = spi.len
         /\ spi'.tx_cnt = spi.tx_cnt /\ spi'.rx_cnt = spi.rx_cnt + 1
<1> DEFINE byte == Head(cs.rx)
           rx == Tail(cs.rx)
           rbuf == Append(spi.rbuf, byte)
           tbuf == IF spi.op = "transfern" THEN [spi.tbuf EXCEPT ![spi.rx_cnt + 1] = byte]
                                           ELSE spi.tbuf
<1>1. /\ spi' = [spi EXCEPT !.pc = pc, !.rx_cnt = spi.rx_cnt + 1, !.rbuf = rbuf,
                            !.tbuf = tbuf]
      /\ cs' = [cs EXCEPT !.rx = rx] /\ spi.rx_cnt < spi.len
  BY DEF Get
<1>2. /\ rx \in Seq(SpiByte) /\ Len(rx) = Answers - 1 /\ byte \in SpiByte
      /\ byte = SpiIn[spi.rx_cnt + 1] /\ Follows(rx, SpiIn, spi.rx_cnt + 1)
  <2>1. cs.rx \in Seq(SpiByte) /\ spi.rx_cnt \in Nat /\ Follows(cs.rx, SpiIn, spi.rx_cnt)
    BY SpiTypes, SpiNumbers DEF SpiInv, SpiData
  <2> QED BY <2>1, FollowsTail DEF Answers
<1>3. rbuf \in Seq(SpiByte) /\ Len(rbuf) = spi.rx_cnt + 1 /\ Follows(rbuf, SpiIn, 0)
  <2>1. /\ Follows(spi.rbuf, SpiIn, 0) /\ Len(spi.rbuf) = spi.rx_cnt
        /\ spi.rx_cnt + 1 = 0 + spi.rx_cnt + 1
    BY SpiNumbers DEF SpiInv, SpiData
  <2> HIDE DEF byte
  <2>2. byte = SpiIn[0 + Len(spi.rbuf) + 1]
    BY <1>2, <2>1
  <2>3. /\ rbuf \in Seq(SpiByte) /\ Len(rbuf) = Len(spi.rbuf) + 1
        /\ Follows(rbuf, SpiIn, 0)
    BY <1>2, <2>1, <2>2, SpiTypes, FollowsAppend
  <2> QED BY <2>1, <2>3
<1>4. /\ spi.rx_cnt + 1 \in 1..spi.len /\ spi.rx_cnt + 1 <= spi.tx_cnt
      /\ Answers > 0
  <2>1. Served + Sending = spi.tx_cnt /\ Served = spi.rx_cnt + Answers /\ Answers > 0
    BY SpiNotEmpty DEF SpiInv, SpiData
  <2> QED BY <1>1, <2>1, SpiNumbers
<1>5. /\ tbuf \in Seq(SpiByte) /\ Len(tbuf) = spi.len
      /\ \A k \in spi.tx_cnt + 1 .. spi.len : tbuf[k] = spi.tbuf[k]
  <2> DEFINE i == spi.rx_cnt + 1
  <2>1. spi.tbuf \in Seq(SpiByte) /\ Len(spi.tbuf) = spi.len
    BY SpiTypes DEF SpiInv, SpiData
  <2>2. CASE spi.op = "transfern"
    <3>1. i \in 1..Len(spi.tbuf) /\ byte \in SpiByte
      BY <1>2, <1>4, <2>1
    <3>2. tbuf = [spi.tbuf EXCEPT ![i] = byte]
      BY <2>2
    <3>3. \A k \in spi.tx_cnt + 1 .. spi.len : k # i /\ k \in 1..Len(spi.tbuf)
      BY <1>4, <2>1, SpiNumbers
    <3> HIDE DEF i, byte, tbuf
    <3>4. /\ [spi.tbuf EXCEPT ![i] = byte] \in Seq(SpiByte)
          /\ Len([spi.tbuf EXCEPT ![i] = byte]) = Len(spi.tbuf)
          /\ \A j \in 1 .. Len(spi.tbuf) :
               [spi.tbuf EXCEPT ![i] = byte][j] = IF j = i THEN byte ELSE spi.tbuf[j]
      BY <2>1, <3>1, ExceptSeq
    <3> QED BY <2>1, <3>2, <3>3, <3>4
  <2>3. CASE spi.op # "transfern"
    BY <2>1, <2>3
  <2> QED BY <2>2, <2>3
<1> HIDE DEF byte, rx, rbuf, tbuf
<1>6. /\ spi'.pc = pc /\ spi'.op = spi.op /\ spi'.call = spi.call /\ spi'.len = spi.len
      /\ spi'.tx_cnt = spi.tx_cnt /\ spi'.rx_cnt = spi.rx_cnt + 1
      /\ spi'.tbuf = tbuf /\ spi'.rbuf = rbuf
  BY <1>1 DEF SpiInv, SpiShape, SpiProgramState
<1>7. cs'.TA = cs.TA /\ cs'.tx = cs.tx /\ cs'.rx = rx /\ cs'.slave = cs.slave
  BY <1>1 DEF SpiInv, SpiShape, SpiState
<1>8. /\ Sending' = Sending /\ Served' = Served /\ Answers' = Answers - 1
      /\ SpiOut' = SpiOut /\ SpiIn' = SpiIn /\ Listens' = Listens
  BY <1>2, <1>6, <1>7 DEF Sending, Served, Answers, SpiOut, SpiIn, Listens
<1>9. SpiShape'
  <2>1. spi.rx_cnt + 1 \in 0..MaxSpiBytes
    BY <1>4, SpiNumbers
  <2>2. spi' \in SpiProgramState
    BY <1>1, <1>3, <1>5, <2>1 DEF SpiInv, SpiShape, SpiProgramState
  <2>3. cs' \in SpiState
    BY <1>1, <1>2 DEF SpiInv, SpiShape, SpiState
  <2>4. Answers' <= SPI_FIFO_SIZE
    BY <1>8, SpiNumbers DEF SpiInv, SpiShape
  <2> QED BY <1>8, <2>2, <2>3, <2>4 DEF SpiInv, SpiShape
<1>10. SpiData'
  <2>1. Served' = spi'.rx_cnt + Answers' /\ spi'.rx_cnt <= spi'.len
    <3>1. Served = spi.rx_cnt + Answers
      BY DEF SpiInv, SpiData
    <3> QED BY <1>4, <1>6, <1>8, <3>1, SpiNumbers
  <2>2. \A k \in spi'.tx_cnt + 1 .. spi'.len : spi'.tbuf[k] = SpiOut'[k]
    BY <1>5, <1>6, <1>8 DEF SpiInv, SpiData
  <2>3. /\ Follows(cs'.rx, SpiIn', spi'.rx_cnt) /\ Follows(spi'.rbuf, SpiIn', 0)
        /\ Len(spi'.rbuf) = spi'.rx_cnt /\ Len(spi'.tbuf) = spi'.len
    BY <1>2, <1>3, <1>5, <1>6, <1>7, <1>8
  <2> QED BY <1>6, <1>7, <1>8, <2>1, <2>2, <2>3 DEF SpiInv, SpiData
<1> QED BY <1>6, <1>9, <1>10

(* A step to another place; the last one clears TA. *)
LEMMA SpiGoesData ==
  ASSUME SpiInv, NEW pc \in {"idle", "send", "receive", "done"},
         spi' = [spi EXCEPT !.pc = pc], cs' = cs \/ cs' = [cs EXCEPT !.TA = FALSE]
  PROVE  /\ SpiShape' /\ SpiData'
         /\ spi'.pc = pc /\ spi'.op = spi.op /\ spi'.call = spi.call /\ spi'.len = spi.len
         /\ spi'.tx_cnt = spi.tx_cnt /\ spi'.rx_cnt = spi.rx_cnt
         /\ cs'.tx = cs.tx
<1>1. /\ spi'.pc = pc /\ spi'.op = spi.op /\ spi'.call = spi.call /\ spi'.len = spi.len
      /\ spi'.tx_cnt = spi.tx_cnt /\ spi'.rx_cnt = spi.rx_cnt
      /\ spi'.tbuf = spi.tbuf /\ spi'.rbuf = spi.rbuf
  BY DEF SpiInv, SpiShape, SpiProgramState
<1>2. /\ cs'.tx = cs.tx /\ cs'.rx = cs.rx /\ cs'.slave = cs.slave /\ cs' \in SpiState
  BY DEF SpiInv, SpiShape, SpiState
<1>3. /\ Sending' = Sending /\ Served' = Served /\ Answers' = Answers
      /\ SpiOut' = SpiOut /\ SpiIn' = SpiIn /\ Listens' = Listens
  BY <1>1, <1>2 DEF Sending, Served, Answers, SpiOut, SpiIn, Listens
<1>4. SpiShape'
  <2>1. spi' \in SpiProgramState
    BY DEF SpiInv, SpiShape, SpiProgramState
  <2> QED BY <1>2, <1>3, <2>1 DEF SpiInv, SpiShape
<1>5. SpiData'
  BY <1>1, <1>2, <1>3 DEF SpiInv, SpiData
<1> QED BY <1>1, <1>2, <1>4, <1>5

LEMMA DiscardInv ==
  ASSUME SpiInv, Discard, ~Listens PROVE SpiInv'
<1> DEFINE rx == Tail(cs.rx)
<1>1. spi' = spi /\ cs' = [cs EXCEPT !.rx = rx] /\ cs.rx # <<>>
  BY DEF Discard, RXD
<1>2. rx \in Seq(SpiByte) /\ Len(rx) = Answers - 1 /\ Answers > 0
  BY <1>1, SpiTypes, SpiNotEmpty, HeadTailProperties DEF Answers
<1> HIDE DEF rx
<1>3. cs'.tx = cs.tx /\ cs'.rx = rx /\ cs'.slave = cs.slave /\ cs' \in SpiState
  BY <1>1, <1>2 DEF SpiInv, SpiShape, SpiState
<1>4. /\ Sending' = Sending /\ Served' = Served /\ Answers' = Answers - 1
      /\ SpiOut' = SpiOut /\ SpiIn' = SpiIn /\ Listens' = Listens
  BY <1>1, <1>2, <1>3 DEF Sending, Served, Answers, SpiOut, SpiIn, Listens
<1>5. SpiShape'
  <2>1. Answers' <= SPI_FIFO_SIZE
    BY <1>4, SpiNumbers DEF SpiInv, SpiShape
  <2> QED BY <1>1, <1>3, <1>4, <2>1 DEF SpiInv, SpiShape
<1>6. SpiPlaces' /\ SpiData'
  BY <1>1, <1>3, <1>4 DEF SpiInv, SpiPlaces, SpiData, SpiAt
<1> QED BY <1>5, <1>6 DEF SpiInv

LEMMA SpiReturnInv ==
  ASSUME SpiInv, SpiAt("done"), SpiReturn PROVE SpiInv'
<1>1. spi' = [spi EXCEPT !.pc = "idle"] /\ cs' = [cs EXCEPT !.TA = FALSE] /\ cs.tx = <<>>
  BY DEF SpiReturn, SpiDONE
<1>2. SpiPlaces'
  BY <1>1, SpiGoesData DEF SpiInv, SpiPlaces, SpiAt, Listens
<1> QED BY <1>1, <1>2, SpiGoesData DEF SpiInv

LEMMA TransferInv ==
  ASSUME SpiInv, bcm2835_spi_transfer PROVE SpiInv'
<1>1. CASE SpiBegin("transfer", 1)
  BY <1>1, SpiBeginInv, SpiAssumption
<1>2. CASE spi.op = "transfer" /\ SpiAt("send") /\ Put(1, "receive")
  <2>1. Sending + 1 <= SPI_FIFO_SIZE
    <3>1. Sending < SPI_FIFO_SIZE
      BY <1>2 DEF Put, TXD, Sending
    <3> QED BY <3>1, SpiNumbers
  <2>2. spi'.tx_cnt = 1
    <3>1. spi.len = 1 /\ spi.tx_cnt + 1 <= spi.len
      BY <1>2 DEF SpiInv, SpiPlaces, Put
    <3>2. spi.tx_cnt = 0
      BY <3>1, SpiNumbers
    <3> QED BY <1>2, <2>1, <3>2, PutData
  <2>3. SpiPlaces'
    BY <1>2, <2>1, <2>2, PutData DEF SpiInv, SpiPlaces, SpiAt, Listens
  <2> QED BY <1>2, <2>1, <2>3, PutData DEF SpiInv
<1>3. CASE spi.op = "transfer" /\ SpiAt("receive") /\ SpiDONE /\ Get("done")
  <2>1. cs.rx # <<>>
    <3>1. /\ Served + Sending = spi.tx_cnt /\ Served = spi.rx_cnt + Answers
          /\ spi.tx_cnt = 1 /\ spi.len = 1 /\ spi.rx_cnt < spi.len /\ Sending = 0
      BY <1>3, SpiEmpty DEF SpiInv, SpiPlaces, SpiData, Listens, SpiDONE, Get
    <3>2. Answers # 0
      BY <3>1, SpiNumbers
    <3> QED BY <3>2, SpiEmpty
  <2>2. spi'.rx_cnt = 1
    <3>1. spi.len = 1 /\ spi.rx_cnt < spi.len
      BY <1>3 DEF SpiInv, SpiPlaces, Get
    <3>2. spi.rx_cnt + 1 = 1
      BY <3>1, SpiNumbers
    <3> QED BY <1>3, <2>1, <3>2, GetData DEF Listens
  <2>3. SpiPlaces'
    BY <1>3, <2>1, <2>2, GetData DEF SpiInv, SpiPlaces, SpiAt, Listens
  <2> QED BY <1>3, <2>1, <2>3, GetData DEF SpiInv, Listens
<1>4. CASE spi.op = "transfer" /\ SpiAt("done") /\ SpiReturn
  BY <1>4, SpiReturnInv
<1> QED BY <1>1, <1>2, <1>3, <1>4 DEF bcm2835_spi_transfer

LEMMA TransfernbInv ==
  ASSUME SpiInv, bcm2835_spi_transfernb PROVE SpiInv'
<1>1. CASE \E n \in 0..MaxSpiBytes, op \in {"transfernb", "transfern"} : SpiBegin(op, n)
  BY <1>1, SpiBeginInv
<1>2. ASSUME spi.op \in {"transfernb", "transfern"}, Put(1, "send") PROVE SpiInv'
  <2>1. Sending + 1 <= SPI_FIFO_SIZE
    <3>1. Sending < SPI_FIFO_SIZE
      BY <1>2 DEF Put, TXD, Sending
    <3> QED BY <3>1, SpiNumbers
  <2>2. SpiPlaces'
    BY <1>2, <2>1, PutData DEF SpiInv, SpiPlaces, SpiAt, Listens
  <2> QED BY <1>2, <2>1, <2>2, PutData DEF SpiInv
<1>3. ASSUME spi.op \in {"transfernb", "transfern"}, RXD, Get("receive") PROVE SpiInv'
  <2>1. SpiPlaces'
    BY <1>3, GetData DEF SpiInv, SpiPlaces, SpiAt, Listens, RXD
  <2> QED BY <1>3, <2>1, GetData DEF SpiInv, Listens, RXD
<1>4. ASSUME spi.op \in {"transfernb", "transfern"}, NEW pc \in {"send", "receive", "done"},
             SpiGoes(pc), pc = "done" => ~(spi.tx_cnt < spi.len \/ spi.rx_cnt < spi.len)
      PROVE  SpiInv'
  <2>1. spi' = [spi EXCEPT !.pc = pc] /\ cs' = cs
    BY <1>4 DEF SpiGoes
  <2>2. pc = "done" => spi.tx_cnt = spi.len /\ spi.rx_cnt = spi.len
    <3>1. spi.tx_cnt <= spi.len /\ spi.rx_cnt <= spi.len
      BY DEF SpiInv, SpiData
    <3> QED BY <1>4, <3>1, SpiNumbers
  <2>3. SpiPlaces'
    BY <1>4, <2>1, <2>2, SpiGoesData DEF SpiInv, SpiPlaces, SpiAt, Listens
  <2> QED BY <2>1, <2>3, SpiGoesData DEF SpiInv
<1>5. CASE SpiAt("done") /\ SpiReturn
  BY <1>5, SpiReturnInv
<1> QED BY <1>1, <1>2, <1>3, <1>4, <1>5 DEF bcm2835_spi_transfernb

LEMMA WritenbInv ==
  ASSUME SpiInv, bcm2835_spi_writenb PROVE SpiInv'
<1>1. CASE \E n \in 0..MaxSpiBytes : SpiBegin("writenb", n)
  BY <1>1, SpiBeginInv
<1>2. ASSUME spi.op = "writenb", Put(1, "receive") PROVE SpiInv'
  <2>1. Sending + 1 <= SPI_FIFO_SIZE
    <3>1. Sending < SPI_FIFO_SIZE
      BY <1>2 DEF Put, TXD, Sending
    <3> QED BY <3>1, SpiNumbers
  <2>2. SpiPlaces'
    BY <1>2, <2>1, PutData DEF SpiInv, SpiPlaces, SpiAt
  <2> QED BY <1>2, <2>1, <2>2, PutData DEF SpiInv
<1>3. ASSUME spi.op = "writenb", NEW pc \in {"send", "done"}, SpiGoes(pc),
             pc = "done" => spi.tx_cnt = spi.len
      PROVE  SpiInv'
  <2>1. spi' = [spi EXCEPT !.pc = pc] /\ cs' = cs
    BY <1>3 DEF SpiGoes
  <2>2. SpiPlaces'
    BY <1>3, <2>1, SpiGoesData DEF SpiInv, SpiPlaces, SpiAt, Listens
  <2> QED BY <2>1, <2>2, SpiGoesData DEF SpiInv
<1>4. CASE spi.op = "writenb" /\ Discard
  BY <1>4, DiscardInv DEF Listens
<1>5. CASE SpiAt("done") /\ SpiReturn
  BY <1>5, SpiReturnInv
<1> QED BY <1>1, <1>2, <1>3, <1>4, <1>5 DEF bcm2835_spi_writenb

(* Two bytes fit, because the FIFO was cleared. *)
LEMMA WriteInv ==
  ASSUME SpiInv, bcm2835_spi_write PROVE SpiInv'
<1>1. CASE SpiBegin("write", 2)
  BY <1>1, SpiBeginInv, SpiAssumption
<1>2. CASE spi.op = "write" /\ SpiAt("send") /\ Put(2, "done")
  <2>1. Sending + 2 <= SPI_FIFO_SIZE /\ spi.tx_cnt + 2 = spi.len
    <3>1. spi.tx_cnt = 0 /\ spi.len = 2 /\ Served + Sending = spi.tx_cnt
      BY <1>2 DEF SpiInv, SpiPlaces, SpiData
    <3> QED BY <3>1, SpiNumbers
  <2>2. SpiPlaces'
    BY <1>2, <2>1, PutData DEF SpiInv, SpiPlaces, SpiAt, Listens
  <2> QED BY <1>2, <2>1, <2>2, PutData DEF SpiInv
<1>3. CASE SpiAt("done") /\ SpiReturn
  BY <1>3, SpiReturnInv
<1> QED BY <1>1, <1>2, <1>3 DEF bcm2835_spi_write

LEMMA SpiNextInv == SpiInv /\ [SpiNext]_spiVars => SpiInv'
<1> SUFFICES ASSUME SpiInv, [SpiNext]_spiVars PROVE SpiInv'
  OBVIOUS
<1>1. CASE UNCHANGED spiVars
  <2>1. spi' = spi /\ cs' = cs
    BY <1>1 DEF spiVars
  <2>2. /\ Sending' = Sending /\ Served' = Served /\ Answers' = Answers
        /\ SpiOut' = SpiOut /\ SpiIn' = SpiIn /\ Listens' = Listens
    BY <2>1 DEF Sending, Served, Answers, SpiOut, SpiIn, Listens
  <2> QED BY <2>1, <2>2 DEF SpiInv, SpiShape, SpiPlaces, SpiData, SpiAt
<1> QED BY <1>1, ExchangeInv, TransferInv, TransfernbInv, WritenbInv, WriteInv
        DEF SpiNext, SpiProgram

LEMMA SpiInitInv == SpiInit => SpiInv
<1> SUFFICES ASSUME SpiInit PROVE SpiInv
  OBVIOUS
<1> USE DEF SpiInit
<1>1. Sending = 0 /\ Answers = 0 /\ Served = 0 /\ Len(<<>>) = 0
  BY EmptySeq DEF Sending, Answers, Served
<1>2. SpiShape
  <2>1. <<>> \in Seq(SpiByte) /\ 0 \in 0..MaxSpiCalls /\ 0 \in 0..MaxSpiBytes
    BY SpiAssumption
  <2> QED BY <1>1, <2>1, SpiAssumption DEF SpiShape, SpiProgramState, SpiState
<1>3. SpiPlaces
  BY DEF SpiPlaces, SpiAt
<1>4. SpiData
  BY <1>1, FollowsEmpty DEF SpiData, Listens
<1> QED BY <1>2, <1>3, <1>4 DEF SpiInv

LEMMA SpiInvIsTrue == SpiInv => SpiTypeOK /\ SpiExchanges
<1> SUFFICES ASSUME SpiInv PROVE SpiTypeOK /\ SpiExchanges
  OBVIOUS
<1>1. SpiTypeOK
  <2>1. spi.tx_cnt \in 0..spi.len /\ spi.rx_cnt \in 0..spi.len
    BY SpiNumbers DEF SpiInv, SpiData
  <2> QED BY <2>1 DEF SpiInv, SpiShape, SpiProgramState, SpiState, SpiTypeOK, Sending, Answers
<1>2. ASSUME SpiAt("idle"), spi.op # "none"
      PROVE  /\ cs.slave = SpiBytes("out", spi.call, spi.len)
             /\ spi.rbuf = IF spi.op \in {"writenb", "write"} THEN <<>>
                           ELSE SpiBytes("in", spi.call, spi.len)
  <2>1. /\ spi.call \in 1..MaxSpiCalls /\ cs.tx = <<>> /\ spi.tx_cnt = spi.len
        /\ Served + Sending = spi.tx_cnt
        /\ Follows(cs.slave, SpiOut, 0) /\ Follows(spi.rbuf, SpiIn, 0)
        /\ Len(spi.rbuf) = spi.rx_cnt
    BY <1>2 DEF SpiInv, SpiPlaces, SpiData, SpiAt
  <2>2. Served = spi.len /\ spi.len \in 0..MaxSpiBytes
    BY <2>1, SpiEmpty, SpiNumbers
  <2>3. cs.slave = [k \in 1..spi.len |-> SpiOut[k]]
    <3>1. cs.slave = [k \in 1..Len(cs.slave) |-> SpiOut[k]]
      BY <2>1, SpiTypes, FollowsAll
    <3> QED BY <2>2, <3>1 DEF Served
  <2>4. /\ SpiBytes("out", spi.call, spi.len) = [k \in 1..spi.len |-> SpiOut[k]]
        /\ SpiBytes("in", spi.call, spi.len) = [k \in 1..spi.len |-> SpiIn[k]]
    <3>1. \A k \in 1..spi.len : /\ SpiOut[k] = <<"out", spi.call, k>>
                                /\ SpiIn[k] = <<"in", spi.call, k>>
      BY <2>2, SpiAssumption DEF SpiOut, SpiIn
    <3> QED BY <3>1 DEF SpiBytes
  <2>5. CASE spi.op \in {"writenb", "write"}
    <3>1. Len(spi.rbuf) = 0
      BY <2>1, <2>5 DEF SpiInv, SpiData, Listens
    <3>2. spi.rbuf = <<>>
      BY <3>1, SpiTypes, EmptySeq
    <3> QED BY <2>3, <2>4, <2>5, <3>2
  <2>6. CASE spi.op \notin {"writenb", "write"}
    <3>1. Listens
      BY <2>6 DEF SpiInv, SpiShape, SpiProgramState, Listens
    <3>2. Len(spi.rbuf) = spi.len
      BY <1>2, <2>1, <3>1 DEF SpiInv, SpiPlaces, SpiAt
    <3>3. spi.rbuf = [k \in 1..Len(spi.rbuf) |-> SpiIn[k]]
      BY <2>1, SpiTypes, FollowsAll
    <3> QED BY <2>3, <2>4, <2>6, <3>2, <3>3
  <2> QED BY <2>5, <2>6
<1> QED BY <1>1, <1>2 DEF SpiExchanges

-----------------------------------------------------------------------------
(* The auxiliary SPI *)

(* A word on its way out or in; a read of an empty FIFO gives Garbage.     *)
OutWord == {"out"} \X (1..MaxAuxCalls) \X (1..MaxAuxBytes) \X (1..MaxAuxBytes)
InWord == {"in"} \X (1..MaxAuxCalls) \X (1..MaxAuxBytes) \X (1..MaxAuxBytes)

AuxProgramState ==
  [pc : {"idle", "send", "receive", "settle", "busy"},
   op : {"none", "write", "writenb", "transfernb", "transfer"},
   call : 0..MaxAuxCalls, len : 0..MaxAuxBytes, tx_len : 0..MaxAuxBytes,
   rx_len : 0..MaxAuxBytes, rx : Seq(AuxWord), found : BOOLEAN]

AuxState == [tx : Seq(OutWord), rx : Seq(InWord), slave : Seq(OutWord)]

(* The words of a call: how many it has put into the FIFO and taken out of *)
(* the other one, and where they are.                                      *)
AuxOut ==
  [k \in Nat |-> <<"out", aux.call, k, Smaller(WORD_BYTES, aux.len - WORD_BYTES * (k - 1))>>]
AuxIn ==
  [k \in Nat |-> <<"in", aux.call, k, Smaller(WORD_BYTES, aux.len - WORD_BYTES * (k - 1))>>]

Placed == WordsOf(aux.len) - WordsOf(aux.tx_len)
Taken == WordsOf(aux.len) - WordsOf(aux.rx_len)
OnWay == Len(spi1.tx)
Back == Len(spi1.rx)
Shifted == Len(spi1.slave)
Kept == Len(aux.rx)

AuxShape ==
  /\ aux \in AuxProgramState /\ spi1 \in AuxState
  /\ OnWay <= AUX_FIFO_SIZE /\ Back <= AUX_FIFO_SIZE
  /\ aux.tx_len <= aux.len /\ aux.rx_len <= aux.len

(* All words but the last are full.                                        *)
AuxPlaces ==
  /\ aux.op = "none" => AuxAt("idle")
  /\ aux.op # "none" => aux.call \in 1..MaxAuxCalls
  /\ aux.tx_len > 0 => aux.tx_len = aux.len - WORD_BYTES * Placed
  /\ aux.op = "transfer" =>
       /\ aux.len = 1 /\ aux.pc \in {"send", "busy", "receive", "idle"}
       /\ aux.tx_len = (IF AuxAt("send") THEN 1 ELSE 0)
       /\ aux.rx_len = (IF aux.pc \in {"send", "busy"} THEN 1 ELSE 0)
  /\ aux.op = "writenb" =>
       aux.pc \in {"send", "busy", "idle"} /\ (AuxAt("idle") => aux.tx_len = 0)
  /\ aux.op = "transfernb" =>
       /\ aux.pc \in {"send", "receive", "settle", "idle"}
       /\ AuxAt("idle") => aux.tx_len = 0 /\ aux.rx_len = 0

(* A call that found nothing in the FIFOs, and waits for its answers.      *)
Whole == Sound /\ aux.op \in {"writenb", "transfernb", "transfer"}

(* When all words of transfernb fit, the first loop ends with all of them  *)
(* put; and so the third one reads only what is there.                     *)
AuxData ==
  Whole =>
    /\ Shifted + OnWay = Placed
    /\ Follows(spi1.slave, AuxOut, 0) /\ Follows(spi1.tx, AuxOut, Shifted)
    /\ aux.op = "writenb" =>
         /\ Kept = 0
         /\ AuxAt("busy") => OnWay + Back = 1
         /\ ~AuxAt("busy") => OnWay = 0 /\ Back = 0
    /\ aux.op # "writenb" =>
         /\ Shifted = Taken + Back /\ Kept = Taken
         /\ Follows(spi1.rx, AuxIn, Taken) /\ Follows(aux.rx, AuxIn, 0)
    /\ aux.op = "transfernb" /\ aux.pc \in {"receive", "settle"} => aux.tx_len = 0

AuxInv == AuxShape /\ AuxPlaces /\ AuxData

LEMMA WordsOfIs ==
  ASSUME NEW n \in Nat
  PROVE  /\ WordsOf(n) \in Nat /\ WordsOf(n) <= n /\ WordsOf(0) = 0
         /\ n > 0 => WordsOf(n) > 0 /\ WordsOf(n - Smaller(n, WORD_BYTES)) = WordsOf(n) - 1
<1> DEFINE b == WORD_BYTES
           q == (n + b - 1) \div b
<1>1. b \in Nat \ {0} /\ n + b - 1 \in Nat /\ b - 1 \in Nat
  BY AuxAssumption
<1>2. q \in Nat /\ b * q \in Nat /\ b * q <= n + b - 1 /\ n + b - 1 < b * q + b
  BY <1>1, Division
<1>3. WordsOf(n) = q /\ b = WORD_BYTES
  BY DEF WordsOf
<1> HIDE DEF q
<1>4. WordsOf(0) = 0
  <2>1. 0 \in Int /\ b * 0 = 0 /\ 0 + b - 1 = b - 1 /\ b * 0 <= b - 1 /\ b - 1 < b * 0 + b
    BY <1>1
  <2>2. (b - 1) \div b = 0
    BY <1>1, <2>1, QuotientOf
  <2> QED BY <1>3, <2>1, <2>2 DEF WordsOf
<1> HIDE DEF b
<1>5. q <= n
  <2>1. SUFFICES ASSUME n + 1 <= q PROVE FALSE
    BY <1>2
  <2>2. b * (n + 1) <= b * q /\ b * (n + 1) = b * n + b
    BY <1>1, <1>2, <2>1, ProductGrows
  <2>3. n <= b * n
    <3>1. n * 1 <= n * b /\ n * b = b * n
      BY <1>1, ProductGrows
    <3> QED BY <3>1
  <2> QED BY <1>1, <1>2, <2>2, <2>3
<1>6. ASSUME n > 0 PROVE q > 0
  <2>1. q = 0 => b * q = 0
    BY <1>1
  <2> QED BY <1>1, <1>2, <1>6, <2>1
<1>7. ASSUME n > 0 PROVE WordsOf(n - Smaller(n, WORD_BYTES)) = q - 1
  <2>1. CASE n < b
    <3>1. n - Smaller(n, WORD_BYTES) = 0
      BY <1>3, <2>1 DEF Smaller
    <3>2. q = 1
      <4>1. q >= 2 => b * 2 <= b * q /\ b * 2 = b + b
        BY <1>1, <1>2, ProductGrows
      <4> QED BY <1>1, <1>2, <1>6, <1>7, <2>1, <4>1
    <3> QED BY <1>4, <3>1, <3>2
  <2>2. CASE ~(n < b)
    <3> DEFINE m == n - b
    <3>1. n - Smaller(n, WORD_BYTES) = m /\ m \in Nat /\ m + b - 1 \in Nat
      BY <1>1, <1>3, <2>2 DEF Smaller
    <3>2. b * (q - 1) = b * q - b
      BY <1>1, <1>2
    <3>3. b * (q - 1) <= m + b - 1 /\ m + b - 1 < b * (q - 1) + b /\ q - 1 \in Int
      BY <1>1, <1>2, <3>2
    <3> HIDE DEF m
    <3>4. (m + b - 1) \div b = q - 1
      <4> DEFINE k == m + b - 1  p == q - 1
      <4>1. k \in Nat /\ p \in Int /\ b * p <= k /\ k < b * p + b
        BY <3>1, <3>3
      <4> HIDE DEF k, p
      <4>2. k \div b = p
        BY <1>1, <4>1, QuotientOf
      <4> QED BY <4>2 DEF k, p
    <3> QED BY <1>3, <3>1, <3>4 DEF WordsOf
  <2> QED BY <2>1, <2>2
<1> QED BY <1>2, <1>3, <1>4, <1>5, <1>6, <1>7

LEMMA AuxTypes ==
  ASSUME AuxInv
  PROVE  /\ spi1.tx \in Seq(OutWord) /\ spi1.rx \in Seq(InWord)
         /\ spi1.slave \in Seq(OutWord) /\ aux.rx \in Seq(AuxWord)
BY DEF AuxInv, AuxShape, AuxProgramState, AuxState

LEMMA AuxNumbers ==
  ASSUME AuxInv
  PROVE  /\ aux.len \in Nat /\ aux.tx_len \in Nat /\ aux.rx_len \in Nat
         /\ aux.len <= MaxAuxBytes /\ aux.tx_len <= aux.len /\ aux.rx_len <= aux.len
         /\ OnWay \in Nat /\ Back \in Nat /\ Shifted \in Nat /\ Kept \in Nat
         /\ Placed \in Int /\ Taken \in Int
         /\ MaxAuxBytes \in Nat /\ WORD_BYTES \in Nat /\ AUX_FIFO_SIZE \in Nat
         /\ WORD_BYTES > 0 /\ AUX_FIFO_SIZE > 0 /\ MaxAuxBytes > 0
<1>1. /\ aux.len \in 0..MaxAuxBytes /\ aux.tx_len \in 0..MaxAuxBytes
      /\ aux.rx_len \in 0..MaxAuxBytes /\ aux.tx_len <= aux.len /\ aux.rx_len <= aux.len
  BY DEF AuxInv, AuxShape, AuxProgramState
<1>2. OnWay \in Nat /\ Back \in Nat /\ Shifted \in Nat /\ Kept \in Nat
  BY AuxTypes, LenProperties DEF OnWay, Back, Shifted, Kept
<1>3. aux.len \in Nat /\ aux.tx_len \in Nat /\ aux.rx_len \in Nat
  BY <1>1, AuxAssumption
<1>4. WordsOf(aux.len) \in Nat /\ WordsOf(aux.tx_len) \in Nat /\ WordsOf(aux.rx_len) \in Nat
  BY <1>3, WordsOfIs
<1>5. Placed \in Int /\ Taken \in Int
  BY <1>4 DEF Placed, Taken
<1> QED BY <1>1, <1>2, <1>3, <1>5, AuxAssumption

LEMMA AuxNotEmpty ==
  ASSUME AuxInv
  PROVE  /\ spi1.tx # <<>> <=> OnWay > 0
         /\ spi1.rx # <<>> <=> Back > 0
<1>1. (spi1.tx # <<>> <=> OnWay # 0) /\ (spi1.rx # <<>> <=> Back # 0)
  BY AuxTypes, EmptySeq DEF OnWay, Back
<1> QED BY <1>1, AuxNumbers

LEMMA WordTurns ==
  ASSUME NEW w \in OutWord
  PROVE  /\ [w EXCEPT ![1] = "in"] \in InWord
         /\ \A c, k, n : w = <<"out", c, k, n>> => [w EXCEPT ![1] = "in"] = <<"in", c, k, n>>
BY DEF OutWord, InWord

(* A word out for a word in. *)
LEMMA ShiftInv == ASSUME AuxInv, Shift PROVE AuxInv'
<1> DEFINE word == Head(spi1.tx)
           answer == [word EXCEPT ![1] = "in"]
           tx == Tail(spi1.tx)
           rx == Append(spi1.rx, answer)
           slave == Append(spi1.slave, word)
<1>1. /\ spi1' = [tx |-> tx, rx |-> rx, slave |-> slave] /\ aux' = aux
      /\ spi1.tx # <<>> /\ Back < AUX_FIFO_SIZE
  BY DEF Shift, BUSY, Back
<1>2. AuxOut' = AuxOut /\ AuxIn' = AuxIn /\ Placed' = Placed /\ Taken' = Taken /\ Kept' = Kept
      /\ Whole' = Whole
  BY <1>1 DEF AuxOut, AuxIn, Placed, Taken, Kept, Whole, Sound
<1>3. /\ tx \in Seq(OutWord) /\ Len(tx) = OnWay - 1 /\ word \in OutWord
  BY <1>1, AuxTypes, HeadTailProperties DEF OnWay
<1>4. answer \in InWord
  <2> HIDE DEF word
  <2> QED BY <1>3, WordTurns
<1>5. /\ rx \in Seq(InWord) /\ Len(rx) = Back + 1
      /\ slave \in Seq(OutWord) /\ Len(slave) = Shifted + 1
  <2> HIDE DEF word, answer
  <2> QED BY <1>3, <1>4, AuxTypes, AppendProperties DEF Back, Shifted
<1>6. ASSUME Whole
      PROVE  /\ word = AuxOut[Shifted + 1]
             /\ Follows(tx, AuxOut, Shifted + 1) /\ Follows(slave, AuxOut, 0)
  <2>1. /\ Follows(spi1.tx, AuxOut, Shifted) /\ Follows(spi1.slave, AuxOut, 0)
        /\ Shifted \in Nat /\ 0 + Shifted + 1 = Shifted + 1
    BY <1>6, AuxNumbers DEF AuxInv, AuxData
  <2>2. word = AuxOut[Shifted + 1] /\ Follows(tx, AuxOut, Shifted + 1)
    BY <1>1, <2>1, AuxTypes, FollowsTail
  <2> HIDE DEF word
  <2>3. Follows(slave, AuxOut, 0)
    BY <1>3, <2>1, <2>2, AuxTypes, FollowsAppend DEF Shifted
  <2> QED BY <2>2, <2>3
<1>7. ASSUME Whole, aux.op # "writenb"
      PROVE  Follows(rx, AuxIn, Taken) /\ Shifted + 1 = Taken + (Back + 1)
  <2>1. Shifted = Taken + Back /\ Kept = Taken /\ Follows(spi1.rx, AuxIn, Taken)
    BY <1>7 DEF AuxInv, AuxData
  <2>2. Taken \in Nat /\ Shifted + 1 = Taken + (Back + 1) /\ Taken + Back + 1 = Shifted + 1
        /\ Shifted + 1 \in Nat
    BY <2>1, AuxNumbers
  <2>3. answer = AuxIn[Shifted + 1]
    <3> DEFINE k == Shifted + 1
    <3> HIDE DEF k, word
    <3>1. k \in Nat /\ word = AuxOut[k]
      BY <1>6, <1>7, <2>2 DEF k
    <3> DEFINE n == Smaller(WORD_BYTES, aux.len - WORD_BYTES * (k - 1))
    <3>2. AuxOut[k] = <<"out", aux.call, k, n>> /\ AuxIn[k] = <<"in", aux.call, k, n>>
      BY <3>1 DEF AuxOut, AuxIn
    <3> HIDE DEF n
    <3>3. answer = <<"in", aux.call, k, n>>
      BY <1>3, <3>1, <3>2, WordTurns
    <3> QED BY <3>2, <3>3 DEF k
  <2> HIDE DEF answer
  <2>4. Follows(rx, AuxIn, Taken)
    BY <1>4, <2>1, <2>2, <2>3, AuxTypes, FollowsAppend DEF Back
  <2> QED BY <2>2, <2>4
<1> HIDE DEF word, answer, tx, rx, slave
<1>8. /\ spi1'.tx = tx /\ spi1'.rx = rx /\ spi1'.slave = slave /\ spi1' \in AuxState
  BY <1>1, <1>3, <1>5 DEF AuxState
<1>9. OnWay' = OnWay - 1 /\ Back' = Back + 1 /\ Shifted' = Shifted + 1 /\ OnWay > 0
  BY <1>1, <1>3, <1>5, <1>8, AuxNotEmpty DEF OnWay, Back, Shifted
<1>10. AuxShape'
  <2>1. OnWay' <= AUX_FIFO_SIZE /\ Back' <= AUX_FIFO_SIZE
    BY <1>1, <1>9, AuxNumbers DEF AuxInv, AuxShape
  <2> QED BY <1>1, <1>8, <2>1 DEF AuxInv, AuxShape
<1>11. AuxPlaces'
  BY <1>1, <1>2 DEF AuxInv, AuxPlaces, AuxAt
<1>12. AuxData'
  <2>1. ASSUME Whole PROVE Shifted' + OnWay' = Placed
    <3>1. Shifted + OnWay = Placed
      BY <2>1 DEF AuxInv, AuxData
    <3> QED BY <1>9, <3>1, AuxNumbers
  <2>2. ASSUME Whole, aux.op = "writenb"
        PROVE  /\ AuxAt("busy") /\ OnWay' + Back' = 1
               /\ Kept = 0
    <3>1. AuxAt("busy") /\ Kept = 0 /\ OnWay + Back = 1
      BY <1>9, <2>2, AuxNumbers DEF AuxInv, AuxData
    <3> QED BY <1>9, <3>1, AuxNumbers
  <2>3. ASSUME Whole, aux.op # "writenb"
        PROVE  /\ Shifted' = Taken + Back' /\ Kept = Taken
               /\ Follows(aux.rx, AuxIn, 0)
    BY <1>7, <1>9, <2>3 DEF AuxInv, AuxData
  <2>4. Whole => (aux.op = "transfernb" /\ aux.pc \in {"receive", "settle"} => aux.tx_len = 0)
    BY DEF AuxInv, AuxData
  <2> QED BY <1>1, <1>2, <1>6, <1>7, <1>8, <1>9, <2>1, <2>2, <2>3, <2>4 DEF AuxData, AuxAt
<1> QED BY <1>10, <1>11, <1>12 DEF AuxInv

LEMMA AuxBeginInv ==
  ASSUME AuxInv, NEW op \in {"write", "writenb", "transfernb", "transfer"},
         NEW n \in 0..MaxAuxBytes, AuxBegin(op, n), op = "transfer" => n = 1
  PROVE  AuxInv'
<1> DEFINE call == aux.call + 1
           found == BUSY \/ ~RX_EMPTY
<1>1. /\ aux' = [pc |-> "send", op |-> op, call |-> call, len |-> n, tx_len |-> n,
                 rx_len |-> n, rx |-> <<>>, found |-> found]
      /\ spi1' = [spi1 EXCEPT !.slave = <<>>]
      /\ aux.call < MaxAuxCalls
  BY DEF AuxBegin
<1>2. call \in 1..MaxAuxCalls /\ n \in Nat /\ found \in BOOLEAN
  <2>1. aux.call \in 0..MaxAuxCalls
    BY DEF AuxInv, AuxShape, AuxProgramState
  <2> QED BY <1>1, <2>1, AuxAssumption
<1>3. ~found => spi1.tx = <<>> /\ spi1.rx = <<>>
  BY DEF BUSY, RX_EMPTY
<1> HIDE DEF call, found
<1>4. /\ aux'.pc = "send" /\ aux'.op = op /\ aux'.call = call /\ aux'.len = n
      /\ aux'.tx_len = n /\ aux'.rx_len = n /\ aux'.rx = <<>> /\ aux'.found = found
  BY <1>1
<1>5. /\ spi1'.tx = spi1.tx /\ spi1'.rx = spi1.rx /\ spi1'.slave = <<>> /\ spi1' \in AuxState
  <2>1. <<>> \in Seq(OutWord)
    OBVIOUS
  <2> QED BY <1>1, <2>1 DEF AuxInv, AuxShape, AuxState
<1>6. OnWay' = OnWay /\ Back' = Back /\ Shifted' = 0 /\ Kept' = 0
  BY <1>4, <1>5, EmptySeq DEF OnWay, Back, Shifted, Kept
<1>7. Placed' = 0 /\ Taken' = 0
  <2>1. WordsOf(n) \in Nat
    BY <1>2, WordsOfIs
  <2> QED BY <1>4, <2>1 DEF Placed, Taken
<1>8. AuxShape'
  <2>1. <<>> \in Seq(AuxWord) /\ call \in 0..MaxAuxCalls /\ n <= n
    BY <1>2, AuxAssumption
  <2>2. aux' \in AuxProgramState
    BY <1>1, <1>2, <2>1 DEF AuxProgramState
  <2> QED BY <1>4, <1>5, <1>6, <2>1, <2>2 DEF AuxInv, AuxShape
<1>9. AuxPlaces'
  <2>1. n = n - WORD_BYTES * 0
    BY <1>2, AuxAssumption
  <2> QED BY <1>2, <1>4, <1>7, <2>1 DEF AuxPlaces, AuxAt
<1>10. AuxData'
  <2>1. ASSUME Whole' PROVE spi1.tx = <<>> /\ spi1.rx = <<>> /\ OnWay = 0 /\ Back = 0
    <3>1. spi1.tx = <<>> /\ spi1.rx = <<>>
      BY <1>3, <1>4, <2>1 DEF Whole, Sound
    <3> QED BY <3>1, EmptySeq DEF OnWay, Back
  <2>2. /\ Follows(<<>>, AuxOut', 0) /\ Follows(<<>>, AuxIn', 0) /\ 0 + 0 = 0
    BY FollowsEmpty
  <2> QED BY <1>4, <1>5, <1>6, <1>7, <2>1, <2>2 DEF AuxData, AuxAt
<1> QED BY <1>8, <1>9, <1>10 DEF AuxInv

(* The next word, whatever the counters are. *)
LEMMA NextWord ==
  ASSUME AuxInv, aux.tx_len > 0, aux.op # "none",
         NEW count, count = Smaller(aux.tx_len, WORD_BYTES),
         NEW n, n = aux.tx_len - count
  PROVE  /\ n \in 0..MaxAuxBytes /\ n < aux.tx_len
         /\ WordsOf(n) = WordsOf(aux.tx_len) - 1
         /\ <<"out", aux.call, Placed + 1, count>> \in OutWord
         /\ <<"out", aux.call, Placed + 1, count>> = AuxOut[Placed + 1]
         /\ n > 0 => n = aux.len - WORD_BYTES * (Placed + 1)
<1> DEFINE t == aux.tx_len  b == WORD_BYTES  l == aux.len  p == Placed  max == MaxAuxBytes
           wl == WordsOf(l)  wt == WordsOf(t)
<1>1. /\ t \in Nat /\ b \in Nat /\ l \in Nat /\ b > 0 /\ t > 0 /\ t <= l /\ l <= max
      /\ max \in Nat /\ t = l - b * p /\ p = wl - wt
  BY AuxNumbers DEF AuxInv, AuxPlaces, Placed
<1>2. count = (IF t < b THEN t ELSE b) /\ n = t - count
  BY DEF Smaller
<1>3. /\ wl \in Nat /\ wt \in Nat /\ wl <= l /\ wt > 0
      /\ WordsOf(t - Smaller(t, b)) = wt - 1
  <2> HIDE DEF t, l
  <2> QED BY <1>1, WordsOfIs
<1>4. WordsOf(n) = wt - 1
  BY <1>3
<1> HIDE DEF t, b, l, p, max, wl, wt
<1>5. count \in 1..max /\ n \in 0..max /\ n < t /\ count <= b
  BY <1>1, <1>2
<1>6. p + 1 \in 1..max /\ p \in Int
  <2>1. p >= 0
    <3>1. p <= -1 => b * p <= b * (-1) /\ b * (-1) = -b
      BY <1>1, <1>3, ProductGrows
    <3> QED BY <1>1, <1>3, <3>1
  <2> QED BY <1>1, <1>3, <2>1
<1>7. /\ n > 0 => n = l - b * (p + 1)
      /\ count = Smaller(b, l - b * ((p + 1) - 1))
  <2>1. b * (p + 1) = b * p + b /\ (p + 1) - 1 = p /\ b * p \in Int
    BY <1>1, <1>6
  <2>2. n > 0 => n = l - b * (p + 1)
    BY <1>1, <1>2, <2>1
  <2>3. count = Smaller(b, t)
    BY <1>1, <1>2 DEF Smaller
  <2> QED BY <1>1, <2>1, <2>2, <2>3
<1>8. aux.call \in 1..MaxAuxCalls
  BY DEF AuxInv, AuxPlaces
<1>9. <<"out", aux.call, p + 1, count>> \in OutWord
  BY <1>5, <1>6, <1>8 DEF OutWord, max
<1>10. <<"out", aux.call, p + 1, count>> = AuxOut[p + 1]
  <2>1. p + 1 \in Nat
    BY <1>1, <1>6
  <2>2. AuxOut[p + 1] = <<"out", aux.call, p + 1, Smaller(b, l - b * ((p + 1) - 1))>>
    BY <2>1 DEF AuxOut, b, l
  <2> QED BY <1>7, <2>2
<1> QED BY <1>4, <1>5, <1>7, <1>9, <1>10 DEF t, b, l, p, max, wt

(* A word goes into the FIFO.  What becomes of the places is for each call *)
(* to say, below.                                                          *)
LEMMA PutWordData ==
  ASSUME AuxInv, NEW pc \in {"send", "busy", "idle"}, PutWord(pc), aux.op # "none",
         Whole => ~TX_FULL
  PROVE  /\ AuxShape'
         /\ aux'.pc = pc /\ aux'.op = aux.op /\ aux'.call = aux.call /\ aux'.len = aux.len
         /\ aux'.rx_len = aux.rx_len /\ aux'.rx = aux.rx /\ aux'.found = aux.found
         /\ aux'.tx_len = aux.tx_len - Smaller(aux.tx_len, WORD_BYTES)
         /\ aux'.tx_len > 0 => aux'.tx_len = aux.len - WORD_BYTES * Placed'
         /\ spi1'.rx = spi1.rx /\ spi1'.slave = spi1.slave /\ Placed' = Placed + 1
         /\ Whole => OnWay' = OnWay + 1 /\ Follows(spi1'.tx, AuxOut, Shifted)
<1> DEFINE count == Smaller(aux.tx_len, WORD_BYTES)
           word == <<"out", aux.call, WordsOf(aux.len) - WordsOf(aux.tx_len) + 1, count>>
           n == aux.tx_len - count
           tx == IF TX_FULL THEN spi1.tx ELSE Append(spi1.tx, word)
<1>1. /\ aux.tx_len > 0 /\ spi1' = [spi1 EXCEPT !.tx = tx]
      /\ aux' = [aux EXCEPT !.pc = pc, !.tx_len = n]
  BY DEF PutWord
<1>2. word = <<"out", aux.call, Placed + 1, count>>
  BY DEF Placed
<1>3. /\ n \in 0..MaxAuxBytes /\ n < aux.tx_len
      /\ WordsOf(n) = WordsOf(aux.tx_len) - 1
      /\ word \in OutWord /\ word = AuxOut[Placed + 1]
      /\ n > 0 => n = aux.len - WORD_BYTES * (Placed + 1)
  <2> HIDE DEF count, n, word
  <2>1. count = Smaller(aux.tx_len, WORD_BYTES) /\ n = aux.tx_len - count
    BY DEF count, n
  <2> QED BY <1>1, <1>2, <2>1, NextWord
<1>4. n = aux.tx_len - Smaller(aux.tx_len, WORD_BYTES)
  OBVIOUS
<1> HIDE DEF count, n, word
<1>5. /\ Append(spi1.tx, word) \in Seq(OutWord) /\ Len(Append(spi1.tx, word)) = OnWay + 1
  BY <1>3, AuxTypes, AppendProperties DEF OnWay
<1>6. /\ tx \in Seq(OutWord) /\ Len(tx) <= AUX_FIFO_SIZE
      /\ ~TX_FULL => Len(tx) = OnWay + 1
  <2>1. CASE TX_FULL
    <3>1. tx = spi1.tx /\ OnWay <= AUX_FIFO_SIZE
      BY <2>1 DEF AuxInv, AuxShape
    <3> QED BY <2>1, <3>1, AuxTypes DEF OnWay
  <2>2. CASE ~TX_FULL
    <3>1. OnWay <= AUX_FIFO_SIZE /\ OnWay # AUX_FIFO_SIZE
      BY <2>2 DEF AuxInv, AuxShape, TX_FULL, OnWay
    <3>2. OnWay + 1 <= AUX_FIFO_SIZE
      BY <3>1, AuxNumbers
    <3> QED BY <1>5, <2>2, <3>2
  <2> QED BY <2>1, <2>2
<1>7. ASSUME Whole PROVE Follows(tx, AuxOut, Shifted)
  <2>1. Follows(spi1.tx, AuxOut, Shifted) /\ Shifted \in Nat /\ Shifted + OnWay + 1 = Placed + 1
    <3>1. Shifted + OnWay = Placed /\ Follows(spi1.tx, AuxOut, Shifted)
      BY <1>7 DEF AuxInv, AuxData
    <3> QED BY <3>1, AuxNumbers
  <2>2. Follows(Append(spi1.tx, word), AuxOut, Shifted)
    BY <1>3, <2>1, AuxTypes, FollowsAppend DEF OnWay
  <2> QED BY <1>7, <2>2
<1> HIDE DEF tx
<1>8. /\ aux'.pc = pc /\ aux'.op = aux.op /\ aux'.call = aux.call /\ aux'.len = aux.len
      /\ aux'.rx_len = aux.rx_len /\ aux'.rx = aux.rx /\ aux'.found = aux.found
      /\ aux'.tx_len = n /\ aux' \in AuxProgramState
  BY <1>1, <1>3 DEF AuxInv, AuxShape, AuxProgramState
<1>9. /\ spi1'.tx = tx /\ spi1'.rx = spi1.rx /\ spi1'.slave = spi1.slave /\ spi1' \in AuxState
  BY <1>1, <1>6 DEF AuxInv, AuxShape, AuxState
<1>10. OnWay' = Len(tx) /\ Back' = Back
  BY <1>9 DEF OnWay, Back
<1>11. AuxShape'
  <2>1. n <= aux.len
    BY <1>3, AuxNumbers
  <2> QED BY <1>6, <1>8, <1>9, <1>10, <2>1 DEF AuxInv, AuxShape
<1>12. Placed' = Placed + 1
  <2>1. aux.len \in Nat /\ aux.tx_len \in Nat
    BY AuxNumbers
  <2>2. WordsOf(aux.len) \in Nat /\ WordsOf(aux.tx_len) \in Nat
    BY <2>1, WordsOfIs
  <2>3. Placed' = WordsOf(aux.len) - WordsOf(n)
    BY <1>8 DEF Placed
  <2> QED BY <1>3, <2>2, <2>3 DEF Placed
<1> QED BY <1>3, <1>4, <1>6, <1>7, <1>8, <1>9, <1>10, <1>11, <1>12

(* A word comes out of the FIFO, or none; and in a whole call there is one.  *)
LEMMA GetWordData ==
  ASSUME AuxInv, NEW pc \in {"receive", "settle"}, GetWord(pc), aux.op # "writenb",
         Whole => ~RX_EMPTY
  PROVE  /\ AuxShape'
         /\ aux'.pc = pc /\ aux'.op = aux.op /\ aux'.call = aux.call /\ aux'.len = aux.len
         /\ aux'.tx_len = aux.tx_len /\ aux'.found = aux.found
         /\ aux'.rx_len = aux.rx_len - Smaller(aux.rx_len, WORD_BYTES)
         /\ spi1'.tx = spi1.tx /\ spi1'.slave = spi1.slave
         /\ Whole => /\ Shifted = Taken' + Back' /\ Kept' = Taken'
                     /\ Follows(spi1'.rx, AuxIn, Taken') /\ Follows(aux'.rx, AuxIn, 0)
<1> DEFINE word == IF RX_EMPTY THEN Garbage ELSE Head(spi1.rx)
           queue == IF RX_EMPTY THEN spi1.rx ELSE Tail(spi1.rx)
           n == aux.rx_len - Smaller(aux.rx_len, WORD_BYTES)
           rx == Append(aux.rx, word)
<1>1. /\ aux.rx_len > 0 /\ spi1' = [spi1 EXCEPT !.rx = queue]
      /\ aux' = [aux EXCEPT !.pc = pc, !.rx_len = n, !.rx = rx]
  BY DEF GetWord
<1>2. /\ n \in 0..MaxAuxBytes /\ n <= aux.len
      /\ WordsOf(n) = WordsOf(aux.rx_len) - 1
  <2>1. WordsOf(n) = WordsOf(aux.rx_len) - 1
    BY <1>1, AuxNumbers, WordsOfIs
  <2>2. n \in 0..MaxAuxBytes /\ n <= aux.len
    BY <1>1, AuxNumbers DEF Smaller
  <2> QED BY <2>1, <2>2
<1> HIDE DEF n
<1>3. /\ queue \in Seq(InWord) /\ Len(queue) <= Back /\ word \in AuxWord
      /\ ~RX_EMPTY => /\ Len(queue) = Back - 1 /\ word = Head(spi1.rx)
                      /\ queue = Tail(spi1.rx)
  <2>1. CASE RX_EMPTY
    <3>1. queue = spi1.rx /\ word = Garbage /\ Len(queue) = Back
      BY <2>1 DEF Back
    <3>2. Back <= Back
      BY AuxNumbers
    <3> QED BY <2>1, <3>1, <3>2, AuxTypes DEF AuxWord
  <2>2. CASE ~RX_EMPTY
    <3>1. spi1.rx # <<>> /\ queue = Tail(spi1.rx) /\ word = Head(spi1.rx)
      BY <2>2 DEF RX_EMPTY
    <3> HIDE DEF queue, word
    <3>2. queue \in Seq(InWord) /\ Len(queue) = Back - 1 /\ word \in InWord
      BY <3>1, AuxTypes, HeadTailProperties DEF Back
    <3>3. word \in AuxWord
      BY <3>2 DEF InWord, AuxWord
    <3>4. Back - 1 <= Back
      BY AuxNumbers
    <3> QED BY <3>1, <3>2, <3>3, <3>4
  <2> QED BY <2>1, <2>2
<1> HIDE DEF word, queue
<1>4. rx \in Seq(AuxWord) /\ Len(rx) = Kept + 1
  BY <1>3, AuxTypes, AppendProperties DEF Kept
<1>5. Taken + 1 = WordsOf(aux.len) - WordsOf(n)
  <2>1. aux.len \in Nat /\ aux.rx_len \in Nat
    BY AuxNumbers
  <2>2. WordsOf(aux.len) \in Nat /\ WordsOf(aux.rx_len) \in Nat
    BY <2>1, WordsOfIs
  <2> QED BY <1>2, <2>2 DEF Taken
<1>6. ASSUME Whole
      PROVE  /\ Shifted = Taken + 1 + (Back - 1) /\ Kept + 1 = Taken + 1
             /\ Len(queue) = Back - 1
             /\ Follows(queue, AuxIn, Taken + 1) /\ Follows(rx, AuxIn, 0)
  <2>1. /\ Shifted = Taken + Back /\ Kept = Taken
        /\ Follows(spi1.rx, AuxIn, Taken) /\ Follows(aux.rx, AuxIn, 0)
    BY <1>6 DEF AuxInv, AuxData
  <2>2. Taken \in Nat /\ 0 + Kept + 1 = Taken + 1 /\ Shifted = Taken + 1 + (Back - 1)
    BY <2>1, AuxNumbers
  <2>3. ~RX_EMPTY /\ spi1.rx # <<>>
    BY <1>6 DEF RX_EMPTY
  <2>4. word = AuxIn[Taken + 1] /\ Follows(queue, AuxIn, Taken + 1)
    <3>1. /\ Head(spi1.rx) = AuxIn[Taken + 1]
          /\ Follows(Tail(spi1.rx), AuxIn, Taken + 1)
      BY <2>1, <2>2, <2>3, AuxTypes, FollowsTail
    <3> QED BY <1>3, <2>3, <3>1
  <2>5. Follows(rx, AuxIn, 0)
    BY <1>3, <2>1, <2>2, <2>4, AuxTypes, FollowsAppend DEF Kept
  <2> QED BY <1>3, <2>1, <2>2, <2>3, <2>4, <2>5
<1> HIDE DEF rx
<1>7. /\ aux'.pc = pc /\ aux'.op = aux.op /\ aux'.call = aux.call /\ aux'.len = aux.len
      /\ aux'.tx_len = aux.tx_len /\ aux'.rx = rx /\ aux'.found = aux.found
      /\ aux'.rx_len = n /\ aux' \in AuxProgramState
  BY <1>1, <1>2, <1>4 DEF AuxInv, AuxShape, AuxProgramState
<1>8. /\ spi1'.tx = spi1.tx /\ spi1'.rx = queue /\ spi1'.slave = spi1.slave
      /\ spi1' \in AuxState
  BY <1>1, <1>3 DEF AuxInv, AuxShape, AuxState
<1>9. OnWay' = OnWay /\ Back' = Len(queue) /\ Kept' = Kept + 1 /\ Taken' = Taken + 1
  BY <1>4, <1>5, <1>7, <1>8 DEF OnWay, Back, Kept, Taken
<1>10. AuxShape'
  <2>1. Back <= AUX_FIFO_SIZE /\ Len(queue) \in Nat
    BY <1>3, LenProperties DEF AuxInv, AuxShape
  <2>2. Back' <= AUX_FIFO_SIZE
    BY <1>3, <1>9, <2>1, AuxNumbers
  <2> QED BY <1>2, <1>7, <1>8, <1>9, <2>2 DEF AuxInv, AuxShape
<1> QED BY <1>6, <1>7, <1>8, <1>9, <1>10 DEF n

(* A word is put, and the call goes on. *)
LEMMA PutWordInv ==
  ASSUME AuxInv, NEW pc \in {"send", "busy", "idle"}, PutWord(pc), AuxAt("send"),
         ~TX_FULL \/ aux.op = "transfer",
         \/ aux.op = "write" /\ pc = "idle"
         \/ aux.op \in {"writenb", "transfer"} /\ pc = "busy"
         \/ aux.op = "transfernb" /\ pc = "send"
  PROVE  AuxInv'
<1>1. aux.op # "none"
  OBVIOUS
<1>2. Whole => ~TX_FULL
  <2>1. ASSUME Whole, aux.op = "transfer" PROVE OnWay = 0
    <3>1. aux.len = 1 /\ aux.tx_len = 1
      BY <2>1 DEF AuxInv, AuxPlaces
    <3>2. Placed = 0
      <4>1. WordsOf(1) \in Nat
        BY WordsOfIs
      <4> QED BY <3>1, <4>1 DEF Placed
    <3>3. Shifted + OnWay = 0
      BY <2>1, <3>2 DEF AuxInv, AuxData
    <3> QED BY <3>3, AuxNumbers
  <2>2. OnWay = 0 => ~TX_FULL
    BY AuxNumbers DEF TX_FULL, OnWay
  <2> QED BY <2>1, <2>2
<1>3. /\ AuxShape'
      /\ aux'.pc = pc /\ aux'.op = aux.op /\ aux'.call = aux.call /\ aux'.len = aux.len
      /\ aux'.rx_len = aux.rx_len /\ aux'.rx = aux.rx /\ aux'.found = aux.found
      /\ aux'.tx_len = aux.tx_len - Smaller(aux.tx_len, WORD_BYTES)
      /\ aux'.tx_len > 0 => aux'.tx_len = aux.len - WORD_BYTES * Placed'
      /\ spi1'.rx = spi1.rx /\ spi1'.slave = spi1.slave /\ Placed' = Placed + 1
      /\ Whole => OnWay' = OnWay + 1 /\ Follows(spi1'.tx, AuxOut, Shifted)
  BY <1>1, <1>2, PutWordData
<1>4. /\ AuxOut' = AuxOut /\ AuxIn' = AuxIn /\ Taken' = Taken /\ Kept' = Kept
      /\ Back' = Back /\ Shifted' = Shifted /\ Whole' = Whole
  BY <1>3 DEF AuxOut, AuxIn, Taken, Kept, Back, Shifted, Whole, Sound
<1>5. AuxPlaces'
  <2>1. aux.op = "transfer" => /\ aux.len = 1 /\ aux.rx_len = 1 /\ aux'.tx_len = 0
    <3>1. aux.op = "transfer" => aux.len = 1 /\ aux.rx_len = 1 /\ aux.tx_len = 1
      BY DEF AuxInv, AuxPlaces, AuxAt
    <3>2. aux.tx_len = 1 => Smaller(aux.tx_len, WORD_BYTES) = 1
      BY AuxNumbers DEF Smaller
    <3>3. 1 - 1 = 0
      OBVIOUS
    <3> QED BY <1>3, <3>1, <3>2, <3>3
  <2>2. aux.call \in 1..MaxAuxCalls
    BY <1>1 DEF AuxInv, AuxPlaces
  <2> QED BY <1>1, <1>3, <2>1, <2>2 DEF AuxPlaces, AuxAt
<1>6. AuxData'
  <2>1. ASSUME Whole PROVE Shifted + OnWay' = Placed'
    <3>1. Shifted + OnWay = Placed
      BY <2>1 DEF AuxInv, AuxData
    <3> QED BY <1>3, <2>1, <3>1, AuxNumbers
  <2>2. ASSUME Whole, aux.op = "writenb" PROVE Kept = 0 /\ pc = "busy" /\ OnWay' + Back = 1
    <3>1. Kept = 0 /\ OnWay = 0 /\ Back = 0
      BY <2>2 DEF AuxInv, AuxData, AuxAt
    <3> QED BY <1>3, <2>2, <3>1
  <2>3. ASSUME Whole, aux.op # "writenb"
        PROVE  /\ Shifted = Taken + Back /\ Kept = Taken
               /\ Follows(spi1.rx, AuxIn, Taken) /\ Follows(aux.rx, AuxIn, 0)
    BY <2>3 DEF AuxInv, AuxData
  <2>4. Whole => Follows(spi1.slave, AuxOut, 0)
    BY DEF AuxInv, AuxData
  <2> QED BY <1>3, <1>4, <2>1, <2>2, <2>3, <2>4 DEF AuxData, AuxAt
<1> QED BY <1>3, <1>5, <1>6 DEF AuxInv

(* A word is taken, by the call that has room for it.  In a whole call     *)
(* there is one: all that has been put and not been taken has come back,   *)
(* once the controller is not busy.                                        *)
LEMMA GetWordInv ==
  ASSUME AuxInv, NEW pc \in {"receive", "settle"}, GetWord(pc),
         \/ aux.op = "transfernb" /\ AuxAt("receive") /\ pc = "receive" /\ ~RX_EMPTY
         \/ aux.op = "transfernb" /\ AuxAt("settle") /\ pc = "settle" /\ ~BUSY
         \/ aux.op = "transfer" /\ AuxAt("busy") /\ pc = "receive" /\ ~BUSY
  PROVE  AuxInv'
<1>1. aux.op # "none" /\ aux.op # "writenb"
  OBVIOUS
<1>2. Whole => ~RX_EMPTY
  <2>1. SUFFICES ASSUME Whole, RX_EMPTY, ~BUSY PROVE FALSE
    BY DEF AuxAt
  <2>2. OnWay = 0 /\ Back = 0
    BY <2>1, EmptySeq DEF RX_EMPTY, BUSY, OnWay, Back
  <2>3. Shifted + OnWay = Placed /\ Shifted = Taken + Back
    BY <1>1, <2>1 DEF AuxInv, AuxData
  <2>4. Placed = Taken
    BY <2>2, <2>3, AuxNumbers
  <2>5. aux.tx_len = 0
    BY <2>1 DEF AuxInv, AuxPlaces, AuxData, AuxAt, RX_EMPTY
  <2>6. aux.rx_len > 0 /\ aux.rx_len \in Nat
    BY AuxNumbers DEF GetWord
  <2>7. WordsOf(aux.len) \in Nat /\ WordsOf(aux.rx_len) \in Nat /\ WordsOf(aux.rx_len) > 0
        /\ WordsOf(0) = 0
    <3>1. aux.len \in Nat
      BY AuxNumbers
    <3> QED BY <2>6, <3>1, WordsOfIs
  <2> QED BY <2>4, <2>5, <2>7 DEF Placed, Taken
<1>3. /\ AuxShape'
      /\ aux'.pc = pc /\ aux'.op = aux.op /\ aux'.call = aux.call /\ aux'.len = aux.len
      /\ aux'.tx_len = aux.tx_len /\ aux'.found = aux.found
      /\ aux'.rx_len = aux.rx_len - Smaller(aux.rx_len, WORD_BYTES)
      /\ spi1'.tx = spi1.tx /\ spi1'.slave = spi1.slave
      /\ Whole => /\ Shifted = Taken' + Back' /\ Kept' = Taken'
                  /\ Follows(spi1'.rx, AuxIn, Taken') /\ Follows(aux'.rx, AuxIn, 0)
  BY <1>1, <1>2, GetWordData
<1>4. /\ AuxOut' = AuxOut /\ AuxIn' = AuxIn /\ Placed' = Placed /\ OnWay' = OnWay
      /\ Shifted' = Shifted /\ Whole' = Whole
  BY <1>3 DEF AuxOut, AuxIn, Placed, OnWay, Shifted, Whole, Sound
<1>5. AuxPlaces'
  <2>1. aux.op = "transfer" => aux.len = 1 /\ aux.tx_len = 0 /\ aux'.rx_len = 0
    <3>1. aux.op = "transfer" => aux.len = 1 /\ aux.tx_len = 0 /\ aux.rx_len = 1
      BY DEF AuxInv, AuxPlaces, AuxAt
    <3>2. aux.rx_len = 1 => Smaller(aux.rx_len, WORD_BYTES) = 1
      BY AuxNumbers DEF Smaller
    <3>3. 1 - 1 = 0
      OBVIOUS
    <3> QED BY <1>3, <3>1, <3>2, <3>3
  <2>2. aux.tx_len > 0 => aux.tx_len = aux.len - WORD_BYTES * Placed
    BY DEF AuxInv, AuxPlaces
  <2>3. aux.call \in 1..MaxAuxCalls
    BY <1>1 DEF AuxInv, AuxPlaces
  <2>4. aux.op = "transfer" => pc = "receive"
    OBVIOUS
  <2> QED BY <1>1, <1>3, <1>4, <2>1, <2>2, <2>3, <2>4 DEF AuxPlaces, AuxAt
<1>6. AuxData'
  <2>1. Whole => /\ Shifted + OnWay = Placed
                 /\ Follows(spi1.slave, AuxOut, 0) /\ Follows(spi1.tx, AuxOut, Shifted)
    BY DEF AuxInv, AuxData
  <2>2. Whole /\ aux.op = "transfernb" => aux.tx_len = 0
    BY DEF AuxInv, AuxData, AuxAt
  <2> QED BY <1>1, <1>3, <1>4, <2>1, <2>2 DEF AuxData, AuxAt
<1> QED BY <1>3, <1>5, <1>6 DEF AuxInv

(* A step of transfernb and writenb from one loop to another. *)
LEMMA AuxGoesInv ==
  ASSUME AuxInv, NEW pc \in {"idle", "send", "receive", "settle"}, AuxGoes(pc),
         \/ aux.op = "writenb" /\ AuxAt("send") /\ aux.tx_len = 0 /\ pc = "idle"
         \/ /\ aux.op = "transfernb" /\ AuxAt("send") /\ pc = "receive"
            /\ TX_FULL \/ aux.tx_len = 0
         \/ aux.op = "transfernb" /\ AuxAt("receive") /\ pc = "settle"
         \/ /\ aux.op = "transfernb" /\ AuxAt("settle") /\ pc \in {"send", "idle"}
            /\ pc = "idle" => ~(aux.tx_len > 0 \/ aux.rx_len > 0)
  PROVE  AuxInv'
<1>1. /\ aux' = [aux EXCEPT !.pc = pc] /\ spi1' = spi1
      /\ aux.op \in {"writenb", "transfernb"}
  BY DEF AuxGoes
<1>2. /\ aux'.pc = pc /\ aux'.op = aux.op /\ aux'.call = aux.call /\ aux'.len = aux.len
      /\ aux'.rx_len = aux.rx_len /\ aux'.rx = aux.rx /\ aux'.found = aux.found
      /\ aux'.tx_len = aux.tx_len /\ aux' \in AuxProgramState
  BY <1>1 DEF AuxInv, AuxShape, AuxProgramState
<1>3. /\ AuxOut' = AuxOut /\ AuxIn' = AuxIn /\ Placed' = Placed /\ Taken' = Taken
      /\ OnWay' = OnWay /\ Back' = Back /\ Shifted' = Shifted /\ Kept' = Kept /\ Whole' = Whole
  BY <1>1, <1>2
     DEF AuxOut, AuxIn, Placed, Taken, OnWay, Back, Shifted, Kept, Whole, Sound
<1>4. AuxShape'
  BY <1>1, <1>2, <1>3 DEF AuxInv, AuxShape
<1>5. AuxPlaces'
  <2>1. aux.tx_len > 0 => aux.tx_len = aux.len - WORD_BYTES * Placed
    BY DEF AuxInv, AuxPlaces
  <2>2. aux.call \in 1..MaxAuxCalls
    BY <1>1 DEF AuxInv, AuxPlaces
  <2>3. aux.op = "writenb" => pc = "idle" /\ aux.tx_len = 0
    BY <1>1
  <2>4. aux.op = "transfernb" /\ pc = "idle" => aux.tx_len = 0 /\ aux.rx_len = 0
    BY AuxNumbers DEF AuxAt
  <2> QED BY <1>1, <1>2, <1>3, <2>1, <2>2, <2>3, <2>4 DEF AuxPlaces, AuxAt
<1>6. ASSUME Whole, TX_FULL, aux.op = "transfernb" PROVE aux.tx_len = 0
  <2>1. WordsOf(aux.len) <= AUX_FIFO_SIZE /\ OnWay = AUX_FIFO_SIZE /\ Shifted + OnWay = Placed
    BY <1>6 DEF Whole, Sound, TX_FULL, OnWay, AuxInv, AuxData
  <2>2. /\ WordsOf(aux.len) \in Nat /\ WordsOf(aux.tx_len) \in Nat
        /\ aux.tx_len > 0 => WordsOf(aux.tx_len) > 0
    <3>1. aux.len \in Nat /\ aux.tx_len \in Nat
      BY AuxNumbers
    <3> QED BY <3>1, WordsOfIs
  <2>3. Placed = WordsOf(aux.len) - WordsOf(aux.tx_len)
    BY DEF Placed
  <2> QED BY <2>1, <2>2, <2>3, AuxNumbers
<1>7. AuxData'
  <2>1. Whole => /\ Shifted + OnWay = Placed
                 /\ Follows(spi1.slave, AuxOut, 0) /\ Follows(spi1.tx, AuxOut, Shifted)
    BY DEF AuxInv, AuxData
  <2>2. Whole /\ aux.op = "writenb" => Kept = 0 /\ OnWay = 0 /\ Back = 0 /\ pc = "idle"
    BY DEF AuxInv, AuxData, AuxAt
  <2>3. Whole /\ aux.op = "transfernb" =>
          /\ Shifted = Taken + Back /\ Kept = Taken
          /\ Follows(spi1.rx, AuxIn, Taken) /\ Follows(aux.rx, AuxIn, 0)
    BY DEF AuxInv, AuxData
  <2>4. Whole /\ aux.op = "transfernb" /\ pc \in {"receive", "settle"} => aux.tx_len = 0
    BY <1>6 DEF AuxInv, AuxData, AuxAt
  <2> QED BY <1>1, <1>2, <1>3, <2>1, <2>2, <2>3, <2>4 DEF AuxData, AuxAt
<1> QED BY <1>4, <1>5, <1>7 DEF AuxInv

(* writenb reads its answer away. *)
LEMMA AuxDiscardInv ==
  ASSUME AuxInv, aux.op = "writenb", AuxAt("busy"), ~BUSY,
         aux' = [aux EXCEPT !.pc = "send"],
         spi1' = [spi1 EXCEPT !.rx = IF RX_EMPTY THEN @ ELSE Tail(@)]
  PROVE  AuxInv'
<1> DEFINE rx == IF RX_EMPTY THEN spi1.rx ELSE Tail(spi1.rx)
<1>1. spi1' = [spi1 EXCEPT !.rx = rx]
  OBVIOUS
<1>2. rx \in Seq(InWord) /\ Len(rx) = IF RX_EMPTY THEN Back ELSE Back - 1
  <2>1. CASE RX_EMPTY
    BY <2>1, AuxTypes DEF Back
  <2>2. CASE ~RX_EMPTY
    <3>1. spi1.rx # <<>> /\ rx = Tail(spi1.rx)
      BY <2>2 DEF RX_EMPTY
    <3> HIDE DEF rx
    <3> QED BY <2>2, <3>1, AuxTypes, HeadTailProperties DEF Back
  <2> QED BY <2>1, <2>2
<1> HIDE DEF rx
<1>3. /\ aux'.pc = "send" /\ aux'.op = "writenb" /\ aux'.call = aux.call /\ aux'.len = aux.len
      /\ aux'.rx_len = aux.rx_len /\ aux'.rx = aux.rx /\ aux'.found = aux.found
      /\ aux'.tx_len = aux.tx_len /\ aux' \in AuxProgramState
  BY DEF AuxInv, AuxShape, AuxProgramState
<1>4. /\ spi1'.tx = spi1.tx /\ spi1'.rx = rx /\ spi1'.slave = spi1.slave
      /\ spi1' \in AuxState
  BY <1>1, <1>2 DEF AuxInv, AuxShape, AuxState
<1>5. /\ AuxOut' = AuxOut /\ Placed' = Placed /\ OnWay' = OnWay
      /\ Back' = (IF RX_EMPTY THEN Back ELSE Back - 1)
      /\ Shifted' = Shifted /\ Kept' = Kept /\ Whole' = Whole
  BY <1>2, <1>3, <1>4 DEF AuxOut, Placed, OnWay, Back, Shifted, Kept, Whole, Sound
<1>6. AuxShape'
  <2>1. Back' <= AUX_FIFO_SIZE
    BY <1>5, AuxNumbers DEF AuxInv, AuxShape
  <2> QED BY <1>3, <1>4, <1>5, <2>1 DEF AuxInv, AuxShape
<1>7. AuxPlaces'
  <2>1. aux.tx_len > 0 => aux.tx_len = aux.len - WORD_BYTES * Placed
    BY DEF AuxInv, AuxPlaces
  <2> QED BY <1>3, <1>5, <2>1 DEF AuxInv, AuxPlaces, AuxAt
<1>8. AuxData'
  <2>1. Whole => /\ Shifted + OnWay = Placed /\ Kept = 0 /\ OnWay + Back = 1
                 /\ Follows(spi1.slave, AuxOut, 0) /\ Follows(spi1.tx, AuxOut, Shifted)
    BY DEF AuxInv, AuxData
  <2>2. OnWay = 0 /\ (RX_EMPTY => Back = 0)
    BY EmptySeq DEF BUSY, RX_EMPTY, OnWay, Back
  <2>3. Whole => Back' = 0
    BY <1>5, <2>1, <2>2, AuxNumbers
  <2> QED BY <1>3, <1>4, <1>5, <2>1, <2>2, <2>3 DEF AuxData, AuxAt
<1> QED BY <1>6, <1>7, <1>8 DEF AuxInv

(* bcm2835_aux_spi_reset: after a whole transfer there is nothing to clear. *)
LEMMA AuxResetInv ==
  ASSUME AuxInv, aux.op = "transfer", AuxAt("receive"),
         aux' = [aux EXCEPT !.pc = "idle"], spi1' = [spi1 EXCEPT !.tx = <<>>, !.rx = <<>>]
  PROVE  AuxInv'
<1>1. /\ aux'.pc = "idle" /\ aux'.op = "transfer" /\ aux'.call = aux.call
      /\ aux'.len = aux.len /\ aux'.rx_len = aux.rx_len /\ aux'.rx = aux.rx
      /\ aux'.found = aux.found /\ aux'.tx_len = aux.tx_len /\ aux' \in AuxProgramState
  BY DEF AuxInv, AuxShape, AuxProgramState
<1>2. /\ spi1'.tx = <<>> /\ spi1'.rx = <<>> /\ spi1'.slave = spi1.slave
      /\ spi1' \in AuxState
  <2>1. <<>> \in Seq(OutWord) /\ <<>> \in Seq(InWord)
    OBVIOUS
  <2> QED BY <2>1 DEF AuxInv, AuxShape, AuxState
<1>3. /\ AuxOut' = AuxOut /\ AuxIn' = AuxIn /\ Placed' = Placed /\ Taken' = Taken
      /\ OnWay' = 0 /\ Back' = 0 /\ Shifted' = Shifted /\ Kept' = Kept /\ Whole' = Whole
  BY <1>1, <1>2, EmptySeq
     DEF AuxOut, AuxIn, Placed, Taken, OnWay, Back, Shifted, Kept, Whole, Sound
<1>4. AuxShape'
  BY <1>1, <1>2, <1>3, AuxNumbers DEF AuxInv, AuxShape
<1>5. aux.len = 1 /\ aux.tx_len = 0 /\ aux.rx_len = 0
  BY DEF AuxInv, AuxPlaces, AuxAt
<1>6. AuxPlaces'
  BY <1>1, <1>3, <1>5 DEF AuxInv, AuxPlaces, AuxAt
<1>7. AuxData'
  <2>1. Whole => /\ Shifted + OnWay = Placed /\ Shifted = Taken + Back /\ Kept = Taken
                 /\ Follows(spi1.slave, AuxOut, 0) /\ Follows(aux.rx, AuxIn, 0)
    BY DEF AuxInv, AuxData
  <2>2. Placed = Taken
    BY <1>5 DEF Placed, Taken
  <2>3. Whole => Shifted + 0 = Placed /\ Shifted = Taken + 0
    BY <2>1, <2>2, AuxNumbers
  <2>4. Follows(<<>>, AuxOut, Shifted) /\ Follows(<<>>, AuxIn, Taken)
    BY FollowsEmpty
  <2> QED BY <1>1, <1>2, <1>3, <2>1, <2>3, <2>4 DEF AuxData, AuxAt
<1> QED BY <1>4, <1>6, <1>7 DEF AuxInv

LEMMA AuxWriteInv == ASSUME AuxInv, bcm2835_aux_spi_write PROVE AuxInv'
<1>1. CASE AuxBegin("write", Smaller(2, WORD_BYTES))
  <2> DEFINE n == Smaller(2, WORD_BYTES)
  <2>1. CASE n \in 0..MaxAuxBytes
    <3> HIDE DEF n
    <3> QED BY <1>1, <2>1, AuxBeginInv DEF n
  <2>2. n \in 0..MaxAuxBytes
    BY AuxAssumption DEF Smaller
  <2> QED BY <2>1, <2>2
<1>2. CASE aux.op = "write" /\ AuxAt("send") /\ ~TX_FULL /\ PutWord("idle")
  BY <1>2, PutWordInv
<1> QED BY <1>1, <1>2 DEF bcm2835_aux_spi_write

LEMMA AuxWritenbInv == ASSUME AuxInv, bcm2835_aux_spi_writenb PROVE AuxInv'
<1>1. CASE \E n \in 0..MaxAuxBytes : AuxBegin("writenb", n)
  BY <1>1, AuxBeginInv
<1>2. CASE aux.op = "writenb" /\ AuxAt("send") /\ ~TX_FULL /\ PutWord("busy")
  BY <1>2, PutWordInv
<1>3. CASE aux.op = "writenb" /\ AuxAt("send") /\ aux.tx_len = 0 /\ AuxGoes("idle")
  BY <1>3, AuxGoesInv
<1>4. CASE /\ aux.op = "writenb" /\ AuxAt("busy") /\ ~BUSY
           /\ aux' = [aux EXCEPT !.pc = "send"]
           /\ spi1' = [spi1 EXCEPT !.rx = IF RX_EMPTY THEN @ ELSE Tail(@)]
  BY <1>4, AuxDiscardInv
<1> QED BY <1>1, <1>2, <1>3, <1>4 DEF bcm2835_aux_spi_writenb

LEMMA AuxTransfernbInv == ASSUME AuxInv, bcm2835_aux_spi_transfernb PROVE AuxInv'
<1>1. CASE \E n \in 0..MaxAuxBytes : AuxBegin("transfernb", n)
  BY <1>1, AuxBeginInv
<1>2. CASE aux.op = "transfernb" /\ AuxAt("send") /\ ~TX_FULL /\ PutWord("send")
  BY <1>2, PutWordInv
<1>3. CASE /\ aux.op = "transfernb" /\ AuxAt("send") /\ (TX_FULL \/ aux.tx_len = 0)
           /\ AuxGoes("receive")
  BY <1>3, AuxGoesInv
<1>4. CASE aux.op = "transfernb" /\ AuxAt("receive") /\ ~RX_EMPTY /\ GetWord("receive")
  BY <1>4, GetWordInv
<1>5. CASE aux.op = "transfernb" /\ AuxAt("receive") /\ AuxGoes("settle")
  BY <1>5, AuxGoesInv
<1>6. CASE aux.op = "transfernb" /\ AuxAt("settle") /\ ~BUSY /\ GetWord("settle")
  BY <1>6, GetWordInv
<1>7. CASE /\ aux.op = "transfernb" /\ AuxAt("settle")
           /\ AuxGoes(IF aux.tx_len > 0 \/ aux.rx_len > 0 THEN "send" ELSE "idle")
  <2>1. CASE aux.tx_len > 0 \/ aux.rx_len > 0
    BY <1>7, <2>1, AuxGoesInv
  <2>2. CASE ~(aux.tx_len > 0 \/ aux.rx_len > 0)
    BY <1>7, <2>2, AuxGoesInv
  <2> QED BY <2>1, <2>2
<1> QED BY <1>1, <1>2, <1>3, <1>4, <1>5, <1>6, <1>7 DEF bcm2835_aux_spi_transfernb

LEMMA AuxTransferInv == ASSUME AuxInv, bcm2835_aux_spi_transfer PROVE AuxInv'
<1>1. CASE AuxBegin("transfer", 1)
  BY <1>1, AuxBeginInv, AuxAssumption
<1>2. CASE aux.op = "transfer" /\ AuxAt("send") /\ PutWord("busy")
  BY <1>2, PutWordInv
<1>3. CASE aux.op = "transfer" /\ AuxAt("busy") /\ ~BUSY /\ GetWord("receive")
  BY <1>3, GetWordInv
<1>4. CASE /\ aux.op = "transfer" /\ AuxAt("receive")
           /\ aux' = [aux EXCEPT !.pc = "idle"]
           /\ spi1' = [spi1 EXCEPT !.tx = <<>>, !.rx = <<>>]
  BY <1>4, AuxResetInv
<1> QED BY <1>1, <1>2, <1>3, <1>4 DEF bcm2835_aux_spi_transfer

LEMMA AuxNextInv == AuxInv /\ [AuxNext]_auxVars => AuxInv'
<1> SUFFICES ASSUME AuxInv, [AuxNext]_auxVars PROVE AuxInv'
  OBVIOUS
<1>1. CASE UNCHANGED auxVars
  <2>1. aux' = aux /\ spi1' = spi1
    BY <1>1 DEF auxVars
  <2>2. /\ AuxOut' = AuxOut /\ AuxIn' = AuxIn /\ Placed' = Placed /\ Taken' = Taken
        /\ OnWay' = OnWay /\ Back' = Back /\ Shifted' = Shifted /\ Kept' = Kept
        /\ Whole' = Whole
    BY <2>1 DEF AuxOut, AuxIn, Placed, Taken, OnWay, Back, Shifted, Kept, Whole, Sound
  <2> QED BY <2>1, <2>2 DEF AuxInv, AuxShape, AuxPlaces, AuxData, AuxAt
<1> QED BY <1>1, AuxWriteInv, AuxWritenbInv, AuxTransfernbInv, AuxTransferInv, ShiftInv
        DEF AuxNext, AuxProgram

LEMMA AuxInitInv == AuxInit => AuxInv
<1> SUFFICES ASSUME AuxInit PROVE AuxInv
  OBVIOUS
<1> USE DEF AuxInit
<1>1. OnWay = 0 /\ Back = 0
  BY EmptySeq DEF OnWay, Back
<1>2. AuxShape
  <2>1. /\ <<>> \in Seq(OutWord) /\ <<>> \in Seq(InWord) /\ <<>> \in Seq(AuxWord)
        /\ 0 \in 0..MaxAuxCalls /\ 0 \in 0..MaxAuxBytes
    BY AuxAssumption
  <2> QED BY <1>1, <2>1, AuxAssumption DEF AuxShape, AuxProgramState, AuxState
<1>3. AuxPlaces
  BY DEF AuxPlaces, AuxAt
<1>4. AuxData
  BY DEF AuxData, Whole
<1> QED BY <1>2, <1>3, <1>4 DEF AuxInv

LEMMA AuxInvIsTrue == AuxInv => AuxTypeOK /\ AuxExchanges
<1> SUFFICES ASSUME AuxInv PROVE AuxTypeOK /\ AuxExchanges
  OBVIOUS
<1>1. AuxTypeOK
  <2>1. /\ spi1.tx \in Seq(AuxWord) /\ spi1.rx \in Seq(AuxWord)
        /\ spi1.slave \in Seq(AuxWord)
    <3>1. \A w : w \in OutWord \/ w \in InWord => w \in AuxWord
      BY DEF OutWord, InWord, AuxWord
    <3> QED BY <3>1, AuxTypes
  <2>2. aux.tx_len \in 0..aux.len /\ aux.rx_len \in 0..aux.len
    BY AuxNumbers
  <2> QED BY <2>1, <2>2 DEF AuxInv, AuxShape, AuxProgramState, AuxTypeOK, OnWay, Back
<1>2. ASSUME AuxAt("idle"), Whole
      PROVE  /\ spi1.slave = AuxWords("out", aux.call, aux.len)
             /\ aux.rx = IF aux.op = "writenb" THEN <<>> ELSE AuxWords("in", aux.call, aux.len)
             /\ ~BUSY /\ RX_EMPTY
  <2> DEFINE words == WordsOf(aux.len)
  <2>1. words \in Nat /\ WordsOf(0) = 0
    <3>1. aux.len \in Nat
      BY AuxNumbers
    <3> QED BY <3>1, WordsOfIs
  <2>2. aux.tx_len = 0 /\ (aux.op # "writenb" => aux.rx_len = 0)
    BY <1>2 DEF AuxInv, AuxPlaces, AuxAt, Whole
  <2>3. Placed = words /\ (aux.op # "writenb" => Taken = words)
    BY <2>1, <2>2 DEF Placed, Taken
  <2>4. /\ Shifted + OnWay = Placed /\ Follows(spi1.slave, AuxOut, 0)
        /\ aux.op = "writenb" => Kept = 0 /\ OnWay = 0 /\ Back = 0
        /\ aux.op # "writenb" => /\ Shifted = Taken + Back /\ Kept = Taken
                                 /\ Follows(aux.rx, AuxIn, 0)
    BY <1>2 DEF AuxInv, AuxData, AuxAt
  <2> HIDE DEF words
  <2>5. /\ Shifted = words /\ OnWay = 0 /\ Back = 0
        /\ aux.op = "writenb" => Kept = 0
        /\ aux.op # "writenb" => Kept = words
    BY <2>1, <2>3, <2>4, AuxNumbers
  <2>6. ~BUSY /\ RX_EMPTY
    <3>1. ~(OnWay > 0) /\ ~(Back > 0)
      BY <2>5
    <3> QED BY <3>1, AuxNotEmpty DEF BUSY, RX_EMPTY
  <2>7. \A k \in 1..words :
          /\ AuxOut[k] = <<"out", aux.call, k,
                           Smaller(WORD_BYTES, aux.len - WORD_BYTES * (k - 1))>>
          /\ AuxIn[k] = <<"in", aux.call, k,
                          Smaller(WORD_BYTES, aux.len - WORD_BYTES * (k - 1))>>
    BY <2>1 DEF AuxOut, AuxIn
  <2>8. /\ AuxWords("out", aux.call, aux.len) = [k \in 1..words |-> AuxOut[k]]
        /\ AuxWords("in", aux.call, aux.len) = [k \in 1..words |-> AuxIn[k]]
    BY <2>7 DEF AuxWords, words
  <2>9. spi1.slave = [k \in 1..words |-> AuxOut[k]]
    <3>1. spi1.slave = [k \in 1..Len(spi1.slave) |-> AuxOut[k]]
      BY <2>4, AuxTypes, FollowsAll
    <3> QED BY <2>5, <3>1 DEF Shifted
  <2>10. CASE aux.op = "writenb"
    <3>1. aux.rx = <<>>
      BY <2>5, <2>10, AuxTypes, EmptySeq DEF Kept
    <3> QED BY <2>6, <2>8, <2>9, <2>10, <3>1
  <2>11. CASE aux.op # "writenb"
    <3>1. aux.rx = [k \in 1..Len(aux.rx) |-> AuxIn[k]]
      BY <2>4, <2>11, AuxTypes, FollowsAll
    <3>2. aux.rx = [k \in 1..words |-> AuxIn[k]]
      BY <2>5, <2>11, <3>1 DEF Kept
    <3> QED BY <2>6, <2>8, <2>9, <2>11, <3>2
  <2> QED BY <2>10, <2>11
<1>3. ASSUME Sound, aux.op # "none", aux.op # "write" PROVE Whole
  BY <1>3 DEF AuxInv, AuxShape, AuxProgramState, Whole
<1>4. AuxExchanges
  BY <1>2, <1>3 DEF AuxExchanges
<1> QED BY <1>1, <1>4

-----------------------------------------------------------------------------
(* The timer *)

TimerState ==
  [pc : {"idle", "hi", "lo", "check", "again", "sleep", "test"}, mapped : BOOLEAN,
   called : 0..MaxClock, begun : 0..MaxClock, hi : 0..MaxClock, lo : 0 .. LO - 1,
   st : 0..MaxClock, start : -1..MaxClock, micros : Micros, cut : BOOLEAN]

(* What the reads of the words have found: while st_read goes on the low   *)
(* word comes round at most once, and if it does the high word has         *)
(* changed.                                                                *)
Words ==
  /\ Reading => timer.mapped /\ clock < timer.begun + LO /\ timer.hi = timer.begun \div LO
  /\ TimerAt("check") => \E m \in timer.begun .. clock : timer.lo = m % LO
  /\ TimerAt("again") =>
       clock \div LO # timer.begun \div LO /\ timer.st = (clock \div LO) * LO

(* The delay began when it was called, and its start is a later moment.    *)
Moments ==
  /\ timer.called <= clock /\ timer.begun <= clock
  /\ Reading \/ (TimerAt("test") /\ timer.mapped) => timer.called <= timer.begun
  /\ TimerAt("test") /\ ~timer.mapped => timer.st = 0
  /\ timer.start \notin {-1, 0} => timer.mapped /\ timer.called <= timer.start
  /\ timer.start = 0 => timer.pc \in {"sleep", "idle"}
  /\ TimerAt("sleep") => timer.start # -1
  /\ TimerAt("sleep") /\ timer.start # 0 => timer.micros > SHORT

TimerInv ==
  /\ clock \in 0..MaxClock /\ timer \in TimerState
  /\ Words /\ Moments /\ ReadIsAMoment /\ DelayLastsLongEnough

LEMMA TimerNumbers ==
  ASSUME TimerInv
  PROVE  /\ clock \in Nat /\ timer.called \in Nat /\ timer.begun \in Nat
         /\ timer.hi \in Nat /\ timer.lo \in Nat /\ timer.st \in Nat
         /\ timer.micros \in Nat /\ timer.start \in Int
         /\ LO \in Nat \ {0, 1} /\ MaxClock \in Nat /\ SHORT \in Nat /\ EARLY \in Nat
         /\ EARLY <= SHORT /\ MaxDelay \in Nat /\ clock <= MaxClock
<1>1. /\ clock \in 0..MaxClock /\ timer.called \in 0..MaxClock /\ timer.begun \in 0..MaxClock
      /\ timer.hi \in 0..MaxClock /\ timer.lo \in 0 .. LO - 1 /\ timer.st \in 0..MaxClock
      /\ timer.start \in -1..MaxClock /\ timer.micros \in 0..MaxDelay
  BY DEF TimerInv, TimerState, Micros
<1> QED BY <1>1, TimerAssumption

(* The high word of a moment less than LO after another.                   *)
LEMMA HighWord ==
  ASSUME NEW m \in Nat, NEW n \in Nat, NEW d \in Nat \ {0}, m <= n, n < m + d
  PROVE  n \div d \in {m \div d, m \div d + 1}
<1> DEFINE p == m \div d
           q == n \div d
<1>1. /\ p \in Nat /\ q \in Nat /\ d * p <= m /\ m < d * p + d
      /\ d * q <= n /\ n < d * q + d
  BY Division
<1> HIDE DEF p, q
<1>2. /\ d * (p + 2) = d * p + 2 * d /\ d * (q + 1) = d * q + d
      /\ d * p \in Int /\ d * q \in Int
  BY <1>1
<1>3. ~(p + 2 <= q)
  BY <1>1, <1>2, ProductGrows
<1>4. ~(q + 1 <= p)
  BY <1>1, <1>2, ProductGrows
<1> QED BY <1>1, <1>3, <1>4 DEF p, q

LEMMA TickInv == ASSUME TimerInv, Tick PROVE TimerInv'
<1>1. /\ clock < MaxClock /\ (Reading => clock + 1 < timer.begun + LO)
      /\ clock' = clock + 1 /\ timer' = timer
  BY DEF Tick
<1>2. clock' \in 0..MaxClock /\ timer' \in TimerState
  <2>1. clock + 1 \in 0..MaxClock
    BY <1>1, TimerNumbers
  <2> QED BY <1>1, <2>1 DEF TimerInv
<1>3. clock <= clock + 1
  BY TimerNumbers
<1>4. Words'
  <2>1. ASSUME Reading
        PROVE timer.mapped /\ clock + 1 < timer.begun + LO /\ timer.hi = timer.begun \div LO
    BY <1>1, <2>1 DEF TimerInv, Words
  <2>2. ASSUME TimerAt("check") PROVE \E m \in timer.begun .. clock + 1 : timer.lo = m % LO
    <3>1. PICK m \in timer.begun .. clock : timer.lo = m % LO
      BY <2>2 DEF TimerInv, Words
    <3>2. m \in timer.begun .. clock + 1
      BY TimerNumbers
    <3> QED BY <3>1, <3>2
  <2>3. ASSUME TimerAt("again")
        PROVE  /\ (clock + 1) \div LO # timer.begun \div LO
               /\ timer.st = ((clock + 1) \div LO) * LO
    <3>1. Reading
      BY <2>3 DEF Reading, TimerAt
    <3>2. clock \div LO # timer.begun \div LO /\ timer.st = (clock \div LO) * LO
      BY <2>3 DEF TimerInv, Words
    <3>3. timer.begun <= clock /\ clock < timer.begun + LO /\ clock + 1 < timer.begun + LO
      BY <1>1, <2>1, <3>1, TimerNumbers DEF TimerInv, Moments, Words
    <3> DEFINE b == timer.begun
               c == clock
    <3>4. b \in Nat /\ c \in Nat /\ c + 1 \in Nat /\ LO \in Nat \ {0, 1} /\ b <= c + 1 /\ b <= c
          /\ c < b + LO /\ c + 1 < b + LO
      BY <3>3, TimerNumbers
    <3> HIDE DEF b, c
    <3>5. /\ c \div LO \in {b \div LO, b \div LO + 1}
          /\ (c + 1) \div LO \in {b \div LO, b \div LO + 1}
      BY <3>4, HighWord
    <3>6. (c + 1) \div LO \in {c \div LO, c \div LO + 1}
      <4>1. c <= c + 1 /\ c + 1 < c + LO
        BY <3>4
      <4> QED BY <3>4, <4>1, HighWord
    <3>7. b \div LO \in Nat /\ c \div LO \in Nat /\ (c + 1) \div LO \in Nat
      BY <3>4, Division
    <3>8. (c + 1) \div LO = c \div LO
      BY <3>2, <3>5, <3>6, <3>7 DEF b, c
    <3> QED BY <3>2, <3>8 DEF b, c
  <2> QED BY <1>1, <2>1, <2>2, <2>3 DEF Words, Reading, TimerAt
<1>5. Moments'
  <2>1. timer.called <= clock + 1 /\ timer.begun <= clock + 1
    BY TimerNumbers DEF TimerInv, Moments
  <2> QED BY <1>1, <2>1 DEF TimerInv, Moments, Reading, TimerAt
<1>6. ReadIsAMoment'
  <2>1. ASSUME TimerAt("test"), timer.mapped PROVE timer.st \in timer.begun .. clock + 1
    <3>1. timer.st \in timer.begun .. clock
      BY <2>1 DEF TimerInv, ReadIsAMoment
    <3> QED BY <3>1, TimerNumbers
  <2> QED BY <1>1, <2>1 DEF ReadIsAMoment, TimerAt
<1>7. DelayLastsLongEnough'
  <2>1. ASSUME TimerAt("idle"), ~(timer.start = 0 /\ timer.cut)
        PROVE  clock + 1 >= timer.called + timer.micros
    <3>1. clock >= timer.called + timer.micros
      BY <2>1 DEF TimerInv, DelayLastsLongEnough
    <3> QED BY <3>1, TimerNumbers
  <2> QED BY <1>1, <2>1 DEF DelayLastsLongEnough, TimerAt
<1> QED BY <1>2, <1>4, <1>5, <1>6, <1>7 DEF TimerInv

LEMMA StReadBeginsInv == ASSUME TimerInv, ReadUnmapped \/ ReadHi \/ ReadLo PROVE TimerInv'
<1>1. clock' = clock /\ clock \in 0..MaxClock /\ clock <= clock
  BY TimerNumbers DEF TimerInv, ReadUnmapped, ReadHi, ReadLo, Read
<1>2. CASE ReadUnmapped
  <2>1. /\ timer' = [timer EXCEPT !.pc = "test", !.st = 0]
        /\ ~timer.mapped /\ timer.pc = "hi" /\ timer \in TimerState
    BY <1>2 DEF ReadUnmapped, Read, TimerAt, TimerInv
  <2>2. timer' \in TimerState
    <3>1. 0 \in 0..MaxClock
      BY TimerNumbers
    <3> QED BY <2>1, <3>1 DEF TimerState
  <2>3. /\ timer'.pc = "test" /\ timer'.st = 0 /\ timer'.mapped = timer.mapped
        /\ timer'.called = timer.called /\ timer'.begun = timer.begun
        /\ timer'.start = timer.start
    BY <2>1 DEF TimerState
  <2>4. Words' /\ ReadIsAMoment' /\ DelayLastsLongEnough'
    BY <2>1, <2>3 DEF Words, Reading, TimerAt, ReadIsAMoment, DelayLastsLongEnough
  <2>5. Moments'
    BY <1>1, <2>1, <2>3 DEF TimerInv, Moments, Reading, TimerAt
  <2> QED BY <1>1, <2>2, <2>4, <2>5 DEF TimerInv
<1>3. CASE ReadHi
  <2> DEFINE hi == clock \div LO
  <2>1. /\ timer' = [timer EXCEPT !.pc = "lo", !.hi = hi, !.begun = clock]
        /\ timer.mapped /\ timer.pc = "hi" /\ timer \in TimerState
    BY <1>3 DEF ReadHi, TimerAt, TimerInv
  <2>2. hi \in 0..MaxClock /\ clock < clock + LO
    <3>1. hi \in Nat /\ LO * hi <= clock /\ LO * hi \in Nat
      <4>1. clock \in Nat /\ LO \in Nat \ {0}
        BY TimerNumbers
      <4> QED BY <4>1, Division
    <3> HIDE DEF hi
    <3>2. hi <= LO * hi
      <4>1. hi * 1 <= hi * LO /\ hi * LO = LO * hi /\ hi * 1 = hi
        BY <3>1, TimerNumbers, ProductGrows
      <4> QED BY <4>1
    <3> QED BY <3>1, <3>2, TimerNumbers
  <2>3. /\ timer'.pc = "lo" /\ timer'.mapped = timer.mapped /\ timer'.hi = hi
        /\ timer'.called = timer.called /\ timer'.begun = clock
        /\ timer'.start = timer.start /\ timer' \in TimerState
    <3> HIDE DEF hi
    <3> QED BY <1>1, <2>1, <2>2 DEF TimerState
  <2>4. Words' /\ ReadIsAMoment' /\ DelayLastsLongEnough'
    BY <1>1, <2>1, <2>2, <2>3 DEF Words, Reading, TimerAt, ReadIsAMoment, DelayLastsLongEnough
  <2>5. Moments'
    BY <1>1, <2>1, <2>3 DEF TimerInv, Moments, Reading, TimerAt
  <2> QED BY <1>1, <2>3, <2>4, <2>5 DEF TimerInv
<1>4. CASE ReadLo
  <2> DEFINE lo == clock % LO
  <2>1. /\ timer' = [timer EXCEPT !.pc = "check", !.lo = lo]
        /\ timer.pc = "lo" /\ timer \in TimerState
    BY <1>4 DEF ReadLo, TimerAt, TimerInv
  <2>2. lo \in 0 .. LO - 1
    BY TimerNumbers, Division
  <2>3. /\ timer'.pc = "check" /\ timer'.mapped = timer.mapped /\ timer'.hi = timer.hi
        /\ timer'.called = timer.called /\ timer'.begun = timer.begun /\ timer'.lo = lo
        /\ timer'.start = timer.start /\ timer' \in TimerState
    <3> HIDE DEF lo
    <3> QED BY <2>1, <2>2 DEF TimerState
  <2>4. clock \in timer.begun .. clock
    BY TimerNumbers DEF TimerInv, Moments
  <2>5. Words'
    BY <1>1, <2>1, <2>3, <2>4 DEF TimerInv, Words, Reading, TimerAt
  <2>6. ReadIsAMoment' /\ DelayLastsLongEnough'
    BY <2>3 DEF TimerAt, ReadIsAMoment, DelayLastsLongEnough
  <2>7. Moments'
    BY <1>1, <2>1, <2>3 DEF TimerInv, Moments, Reading, TimerAt
  <2> QED BY <1>1, <2>3, <2>5, <2>6, <2>7 DEF TimerInv
<1> QED BY <1>2, <1>3, <1>4

(* However the test comes out, the words give a moment since begun.        *)
LEMMA WordsAreAMoment ==
  ASSUME TimerInv
  PROVE  /\ TimerAt("check") /\ clock \div LO = timer.hi =>
              timer.hi * LO + timer.lo \in timer.begun .. clock
         /\ (clock \div LO) * LO \in 0 .. clock
         /\ TimerAt("again") => timer.st + (clock % LO) = clock
<1>1. /\ clock \div LO \in Nat /\ clock % LO \in 0 .. LO - 1
      /\ clock = LO * (clock \div LO) + (clock % LO)
      /\ (clock \div LO) * LO = LO * (clock \div LO)
      /\ LO * (clock \div LO) \in Nat /\ LO * (clock \div LO) <= clock
  <2>1. clock \in Nat /\ LO \in Nat \ {0}
    BY TimerNumbers
  <2> QED BY <2>1, Division
<1>2. ASSUME TimerAt("check"), clock \div LO = timer.hi
      PROVE  timer.hi * LO + timer.lo \in timer.begun .. clock
  <2>1. PICK m \in timer.begun .. clock : timer.lo = m % LO
    BY <1>2 DEF TimerInv, Words
  <2>2. timer.hi = timer.begun \div LO
    BY <1>2 DEF TimerInv, Words, Reading, TimerAt
  <2>3. m \in Nat /\ timer.begun <= m /\ m <= clock
    BY TimerNumbers
  <2>4. /\ m = LO * (m \div LO) + (m % LO) /\ (m \div LO) * LO = LO * (m \div LO)
        /\ m \div LO \in Nat
    BY <2>3, TimerNumbers, Division
  <2>5. m \div LO = timer.hi
    <3> DEFINE q == timer.hi
    <3>1. timer.begun \in Nat /\ clock \in Nat /\ LO \in Nat \ {0}
      BY TimerNumbers
    <3>2. LO * q <= timer.begun /\ q \in Nat /\ LO * q \in Nat
      BY <2>2, <3>1, Division
    <3>3. clock < LO * q + LO
      <4>1. clock < LO * (clock \div LO) + LO
        BY <3>1, Division
      <4> QED BY <1>2, <4>1
    <3> HIDE DEF q
    <3>4. LO * q <= m /\ m < LO * q + LO
      BY <2>3, <3>1, <3>2, <3>3
    <3>5. m \in Nat /\ q \in Int /\ LO \in Nat \ {0}
      BY <2>3, <3>1, <3>2
    <3>6. m \div LO = q
      BY <3>4, <3>5, QuotientOf
    <3> QED BY <3>6 DEF q
  <2>6. timer.hi * LO + timer.lo = m
    BY <2>1, <2>4, <2>5
  <2> QED BY <2>6
<1>3. (clock \div LO) * LO \in 0 .. clock
  <2> DEFINE p == LO * (clock \div LO)
  <2>1. p \in Nat /\ p <= clock /\ (clock \div LO) * LO = p /\ clock \in Nat
    BY <1>1, TimerNumbers
  <2> HIDE DEF p
  <2> QED BY <2>1
<1>4. TimerAt("again") => timer.st + (clock % LO) = clock
  BY <1>1 DEF TimerInv, Words
<1> QED BY <1>2, <1>3, <1>4

(* A value that is read: TestForOverflow and ReadLoAgain.                  *)
LEMMA ReadInv ==
  ASSUME TimerInv, Reading, NEW st \in timer.begun .. clock, Read("test", st)
  PROVE  TimerInv'
<1>1. /\ timer' = [timer EXCEPT !.pc = "test", !.st = st] /\ clock' = clock
      /\ timer \in TimerState /\ clock \in 0..MaxClock
      /\ timer.pc \in {"lo", "check", "again"}
  BY DEF Read, TimerInv, Reading
<1>2. st \in 0..MaxClock
  BY TimerNumbers
<1>3. /\ timer'.pc = "test" /\ timer'.mapped = timer.mapped /\ timer'.st = st
      /\ timer'.called = timer.called /\ timer'.begun = timer.begun
      /\ timer'.start = timer.start /\ timer' \in TimerState
  BY <1>1, <1>2 DEF TimerState
<1>4. Words' /\ ReadIsAMoment' /\ DelayLastsLongEnough'
  BY <1>1, <1>3 DEF Words, Reading, TimerAt, ReadIsAMoment, DelayLastsLongEnough
<1>5. Moments'
  <2>1. timer.mapped
    BY DEF TimerInv, Words
  <2> QED BY <1>1, <1>3, <2>1 DEF TimerInv, Moments, Reading, TimerAt
<1> QED BY <1>1, <1>3, <1>4, <1>5 DEF TimerInv

LEMMA StReadEndsInv == ASSUME TimerInv, TestForOverflow \/ ReadLoAgain PROVE TimerInv'
<1>1. CASE TimerAt("check") /\ clock \div LO = timer.hi /\ Read("test", timer.hi * LO + timer.lo)
  <2>1. timer.hi * LO + timer.lo \in timer.begun .. clock /\ Reading
    BY <1>1, WordsAreAMoment DEF Reading, TimerAt
  <2> QED BY <1>1, <2>1, ReadInv
<1>2. CASE ReadLoAgain
  <2>1. /\ TimerAt("again") /\ Read("test", timer.st + (clock % LO))
        /\ timer.st + (clock % LO) = clock
    BY <1>2, WordsAreAMoment DEF ReadLoAgain
  <2>2. clock \in timer.begun .. clock /\ Reading
    BY <2>1, TimerNumbers DEF TimerInv, Moments, Reading, TimerAt
  <2> QED BY <2>1, <2>2, ReadInv
<1>3. CASE TimerAt("check") /\ clock \div LO # timer.hi /\ Read("again", (clock \div LO) * LO)
  <2> DEFINE st == (clock \div LO) * LO
  <2>1. /\ timer' = [timer EXCEPT !.pc = "again", !.st = st] /\ clock' = clock
        /\ timer \in TimerState /\ clock \in 0..MaxClock /\ timer.pc = "check"
        /\ clock \div LO # timer.begun \div LO
    BY <1>3 DEF Read, TimerInv, Words, Reading, TimerAt
  <2>2. st \in 0..MaxClock
    <3>1. st \in 0..clock
      BY WordsAreAMoment
    <3> HIDE DEF st
    <3> QED BY <3>1, TimerNumbers
  <2>3. /\ timer'.pc = "again" /\ timer'.mapped = timer.mapped /\ timer'.st = st
        /\ timer'.called = timer.called /\ timer'.begun = timer.begun
        /\ timer'.hi = timer.hi
        /\ timer'.start = timer.start /\ timer' \in TimerState
    <3> HIDE DEF st
    <3> QED BY <2>1, <2>2 DEF TimerState
  <2>4. Words'
    BY <2>1, <2>3 DEF TimerInv, Words, Reading, TimerAt
  <2>5. ReadIsAMoment' /\ DelayLastsLongEnough'
    BY <2>3 DEF TimerAt, ReadIsAMoment, DelayLastsLongEnough
  <2>6. Moments'
    BY <2>1, <2>3 DEF TimerInv, Moments, Reading, TimerAt
  <2> QED BY <2>1, <2>3, <2>4, <2>5, <2>6 DEF TimerInv
<1> QED BY <1>1, <1>2, <1>3 DEF TestForOverflow

LEMMA DelayInv == ASSUME TimerInv, Delay PROVE TimerInv'
<1>1. PICK micros \in Micros :
        timer' = [timer EXCEPT !.pc = "hi", !.micros = micros, !.start = -1,
                               !.called = clock, !.cut = FALSE]
  BY DEF Delay
<1>2. clock' = clock /\ clock \in 0..MaxClock /\ timer \in TimerState
  BY DEF Delay, TimerInv
<1>3. -1 \in -1..MaxClock
  BY TimerNumbers
<1>4. /\ timer'.pc = "hi" /\ timer'.start = -1 /\ timer'.called = clock
      /\ timer'.begun = timer.begun /\ timer' \in TimerState
  BY <1>1, <1>2, <1>3 DEF TimerState
<1>5. Words' /\ ReadIsAMoment' /\ DelayLastsLongEnough'
  BY <1>4 DEF Words, Reading, TimerAt, ReadIsAMoment, DelayLastsLongEnough
<1>6. Moments'
  <2>1. clock <= clock /\ timer.begun <= clock
    BY TimerNumbers DEF TimerInv, Moments
  <2> QED BY <1>2, <1>4, <2>1 DEF Moments, Reading, TimerAt
<1> QED BY <1>2, <1>4, <1>5, <1>6 DEF TimerInv

LEMMA DelayStartsInv == ASSUME TimerInv, DelayStarts PROVE TimerInv'
<1> DEFINE pc == IF timer.st = 0 \/ timer.micros > SHORT THEN "sleep" ELSE "hi"
<1>1. /\ timer' = [timer EXCEPT !.start = timer.st, !.pc = pc] /\ clock' = clock
      /\ timer.pc = "test" /\ clock \in 0..MaxClock /\ timer \in TimerState
  BY DEF DelayStarts, TimerInv, TimerAt
<1>2. /\ pc \in {"sleep", "hi"} /\ (timer.st = 0 => pc = "sleep")
      /\ pc = "sleep" => timer.st = 0 \/ timer.micros > SHORT
  OBVIOUS
<1> HIDE DEF pc
<1>3. timer.st \in -1..MaxClock /\ timer.st # -1
  <2>1. timer.st \in 0..MaxClock
    BY <1>1 DEF TimerState
  <2> QED BY <2>1
<1>4. /\ timer'.pc = pc /\ timer'.start = timer.st /\ timer'.called = timer.called
      /\ timer'.begun = timer.begun /\ timer'.mapped = timer.mapped
      /\ timer'.micros = timer.micros /\ timer' \in TimerState
  BY <1>1, <1>2, <1>3 DEF TimerState
<1>5. Words' /\ ReadIsAMoment' /\ DelayLastsLongEnough'
  BY <1>2, <1>4 DEF Words, Reading, TimerAt, ReadIsAMoment, DelayLastsLongEnough
<1>6. ASSUME timer.st # 0 PROVE timer.mapped /\ timer.called <= timer.st
  <2>1. timer.mapped
    BY <1>1, <1>6 DEF TimerInv, Moments, TimerAt
  <2>2. timer.called <= timer.begun /\ timer.st \in timer.begun .. clock
    BY <1>1, <2>1 DEF TimerInv, Moments, ReadIsAMoment, TimerAt
  <2> QED BY <2>1, <2>2, TimerNumbers
<1>7. Moments'
  BY <1>1, <1>2, <1>3, <1>4, <1>6 DEF TimerInv, Moments, Reading, TimerAt
<1> QED BY <1>1, <1>4, <1>5, <1>7 DEF TimerInv

LEMMA SleepInv == ASSUME TimerInv, Sleep \/ SleepCut PROVE TimerInv'
<1> DEFINE pc == IF timer.start = 0 THEN "idle" ELSE "hi"
<1>1. PICK cut \in BOOLEAN :
        /\ timer' = [timer EXCEPT !.pc = pc, !.cut = cut]
        /\ ~cut => Sleep
  <2>1. timer.cut \in BOOLEAN /\ timer \in TimerState
    BY DEF TimerInv, TimerState
  <2>2. CASE Sleep
    <3>1. timer' = [timer EXCEPT !.pc = pc, !.cut = timer.cut]
      BY <2>1, <2>2 DEF Sleep, Woken, TimerState
    <3> QED BY <2>1, <2>2, <3>1
  <2>3. CASE ~Sleep
    <3>1. timer' = [timer EXCEPT !.pc = pc, !.cut = TRUE]
      BY <2>3 DEF SleepCut
    <3> QED BY <2>3, <3>1
  <2> QED BY <2>2, <2>3
<1>2. timer.pc = "sleep" /\ timer \in TimerState /\ pc \in {"idle", "hi"}
      /\ (timer.start # 0 => pc = "hi")
  BY DEF Sleep, SleepCut, TimerAt, TimerInv
<1>3. /\ clock' \in 0..MaxClock /\ clock <= clock'
      /\ Sleep /\ timer.start = 0 => clock' >= timer.called + timer.micros
  <2>1. CASE Sleep
    <3>1. clock' \in clock + Asleep .. MaxClock
      BY <2>1 DEF Sleep
    <3>2. Asleep \in Int /\ Asleep >= 0 /\ (timer.start = 0 => Asleep = timer.micros)
      <4>1. timer.start # 0 => timer.micros > SHORT
        BY <1>2 DEF TimerInv, Moments, TimerAt
      <4> QED BY <4>1, TimerNumbers DEF Asleep
    <3>3. timer.called <= clock
      BY DEF TimerInv, Moments
    <3> QED BY <3>1, <3>2, <3>3, TimerNumbers
  <2>2. CASE ~Sleep
    BY <2>2, TimerNumbers DEF SleepCut
  <2> QED BY <2>1, <2>2
<1> HIDE DEF pc
<1>4. /\ timer'.pc = pc /\ timer'.start = timer.start /\ timer'.called = timer.called
      /\ timer'.begun = timer.begun /\ timer'.mapped = timer.mapped /\ timer'.cut = cut
      /\ timer'.micros = timer.micros /\ timer' \in TimerState
  BY <1>1, <1>2 DEF TimerState
<1>5. Words' /\ ReadIsAMoment'
  BY <1>2, <1>4 DEF Words, Reading, TimerAt, ReadIsAMoment
<1>6. DelayLastsLongEnough'
  <2>1. ASSUME pc = "idle", ~(timer.start = 0 /\ cut) PROVE clock' >= timer.called + timer.micros
    BY <1>1, <1>2, <1>3, <2>1
  <2> QED BY <1>4, <2>1 DEF DelayLastsLongEnough, TimerAt
<1>7. Moments'
  <2>1. timer.called <= clock' /\ timer.begun <= clock'
    <3>1. timer.called <= clock /\ timer.begun <= clock
      BY DEF TimerInv, Moments
    <3> QED BY <1>3, <3>1, TimerNumbers
  <2>2. /\ timer.start \notin {-1, 0} => timer.mapped /\ timer.called <= timer.start
        /\ timer.start = 0 => pc = "idle"
    BY DEF TimerInv, Moments, pc
  <2> QED BY <1>2, <1>4, <2>1, <2>2 DEF Moments, Reading, TimerAt
<1> QED BY <1>3, <1>4, <1>5, <1>6, <1>7 DEF TimerInv

LEMMA StDelayInv == ASSUME TimerInv, bcm2835_st_delay PROVE TimerInv'
<1> DEFINE pc == IF timer.st < timer.start + timer.micros THEN "hi" ELSE "idle"
<1>1. /\ timer' = [timer EXCEPT !.pc = pc] /\ clock' = clock
      /\ timer.pc = "test" /\ timer.start # -1 /\ timer.start # 0
      /\ clock \in 0..MaxClock /\ timer \in TimerState
  BY DEF bcm2835_st_delay, TimerInv, TimerAt, Moments
<1>2. /\ pc \in {"idle", "hi"}
      /\ pc = "idle" => timer.st >= timer.start + timer.micros
  BY TimerNumbers
<1> HIDE DEF pc
<1>3. /\ timer'.pc = pc /\ timer'.start = timer.start /\ timer'.called = timer.called
      /\ timer'.begun = timer.begun /\ timer'.mapped = timer.mapped
      /\ timer'.micros = timer.micros /\ timer' \in TimerState
  BY <1>1, <1>2 DEF TimerState
<1>4. Words' /\ ReadIsAMoment'
  BY <1>2, <1>3 DEF Words, Reading, TimerAt, ReadIsAMoment
<1>5. Moments'
  BY <1>1, <1>2, <1>3 DEF TimerInv, Moments, Reading, TimerAt
<1>6. DelayLastsLongEnough'
  <2>1. ASSUME pc = "idle" PROVE clock >= timer.called + timer.micros
    <3>1. timer.mapped /\ timer.called <= timer.start
      BY <1>1 DEF TimerInv, Moments
    <3>2. timer.st \in timer.begun .. clock
      BY <1>1, <3>1 DEF TimerInv, ReadIsAMoment, TimerAt
    <3> QED BY <1>2, <2>1, <3>1, <3>2, TimerNumbers
  <2> QED BY <1>1, <1>3, <2>1 DEF DelayLastsLongEnough, TimerAt
<1> QED BY <1>1, <1>3, <1>4, <1>5, <1>6 DEF TimerInv

LEMMA TimerNextInv == TimerInv /\ [TimerNext]_timerVars => TimerInv'
<1> SUFFICES ASSUME TimerInv, [TimerNext]_timerVars PROVE TimerInv'
  OBVIOUS
<1>1. CASE UNCHANGED timerVars
  BY <1>1 DEF timerVars, TimerInv, Words, Moments, ReadIsAMoment, DelayLastsLongEnough,
              Reading, TimerAt
<1> QED BY <1>1, TickInv, StReadBeginsInv, StReadEndsInv, DelayInv, DelayStartsInv, SleepInv,
           StDelayInv DEF TimerNext, bcm2835_delayMicroseconds, bcm2835_st_read

LEMMA TimerInitInv == TimerInit => TimerInv
<1> SUFFICES ASSUME TimerInit PROVE TimerInv
  OBVIOUS
<1>1. PICK mapped \in BOOLEAN :
        timer = [pc |-> "idle", mapped |-> mapped, called |-> clock, begun |-> clock,
                 hi |-> 0, lo |-> 0, st |-> 0, start |-> -1, micros |-> 0, cut |-> FALSE]
  BY DEF TimerInit
<1>2. clock \in 0..MaxClock /\ clock <= clock /\ clock >= clock + 0
  BY TimerAssumption DEF TimerInit
<1>3. 0 \in 0..MaxClock /\ 0 \in 0 .. LO - 1 /\ -1 \in -1..MaxClock /\ 0 \in Micros
  BY TimerAssumption DEF Micros
<1>4. timer \in TimerState
  BY <1>1, <1>2, <1>3 DEF TimerState
<1>5. Words /\ ReadIsAMoment
  BY <1>1 DEF Words, ReadIsAMoment, Reading, TimerAt
<1>6. Moments /\ DelayLastsLongEnough
  BY <1>1, <1>2 DEF Moments, DelayLastsLongEnough, Reading, TimerAt
<1> QED BY <1>2, <1>4, <1>5, <1>6 DEF TimerInv

-----------------------------------------------------------------------------
(* The clocks *)

ClockInv == ClockTypeOK /\ SpeedIsHeld

LEMMA Remainder ==
  ASSUME NEW n \in Nat, NEW d \in Nat \ {0}, n < d
  PROVE  n % d = n
OBVIOUS

LEMMA EvenIs ==
  ASSUME NEW n \in Nat
  PROVE  Even(n) \in Nat /\ Even(n) \in {n - 1, n} /\ (n >= 2 => Even(n) # 0)
<1>1. n % 2 \in {0, 1} /\ n = 2 * (n \div 2) + (n % 2) /\ n \div 2 \in Nat
  BY Division
<1> QED BY <1>1 DEF Even

LEMMA EvenDividerHolds ==
  ASSUME NEW of \in {"spi", "i2c"}, NEW asked \in Speed \ {0},
         clk' = [of |-> of, asked |-> asked,
                 divider |-> Even((CORE_CLK_HZ \div asked) % DIVIDERS)]
  PROVE  ClockInv'
<1> DEFINE wanted == CORE_CLK_HZ \div asked
           cut == wanted % DIVIDERS
<1>1. wanted \in Nat
  <2>1. CORE_CLK_HZ \in Nat /\ asked \in Nat \ {0}
    BY ClockAssumption DEF Speed
  <2> QED BY <2>1, Division
<1>2. cut \in 0 .. DIVIDERS - 1 /\ (wanted < DIVIDERS => cut = wanted)
  <2> HIDE DEF wanted
  <2> QED BY <1>1, ClockAssumption, Division, Remainder
<1>3. /\ Even(cut) \in 0 .. DIVIDERS - 1 /\ Even(cut) \in {cut - 1, cut}
      /\ cut >= 2 => Even(cut) # 0
  <2> HIDE DEF cut
  <2>1. cut \in Nat /\ DIVIDERS \in Nat
    BY <1>2, ClockAssumption
  <2> QED BY <1>2, <2>1, EvenIs
<1>4. clk' = [of |-> of, asked |-> asked, divider |-> Even(cut)]
  OBVIOUS
<1> HIDE DEF cut
<1>5. ClockTypeOK'
  BY <1>3, <1>4 DEF ClockTypeOK
<1>6. ASSUME wanted \in 2 .. DIVIDERS - 1 PROVE Cycles' \in {wanted - 1, wanted}
  <2>1. cut = wanted
    BY <1>2, <1>6, ClockAssumption
  <2>2. Even(cut) # 0 /\ Even(cut) \in {wanted - 1, wanted}
    BY <1>3, <1>6, <2>1
  <2>3. Cycles' = Even(cut)
    <3>1. clk'.of # "aux" /\ clk'.divider = Even(cut)
      BY <1>4
    <3> QED BY <2>2, <3>1 DEF Cycles
  <2> QED BY <2>2, <2>3
<1>7. clk'.of # "aux" /\ clk'.asked = asked
  BY <1>4
<1> HIDE DEF wanted
<1>8. SpeedIsHeld'
  BY <1>6, <1>7 DEF SpeedIsHeld, wanted
<1> QED BY <1>5, <1>8 DEF ClockInv

(* Whatever the quotient of a division by zero is, it is made even. *)
LEMMA ZeroHolds ==
  ASSUME NEW of \in {"spi", "i2c"}, ClockTypeOK, DividesByZero(of)
  PROVE  ClockInv'
<1>1. PICK killed \in {of, "killed"}, divider \in 0 .. DIVIDERS - 1 :
        clk' = [of |-> killed, asked |-> 0, divider |-> divider]
  <2>1. CASE Set("killed", 0, clk.divider)
    BY <2>1 DEF Set, ClockTypeOK
  <2>2. ASSUME NEW quotient \in 0 .. DIVIDERS - 1, Set(of, 0, Even(quotient))
        PROVE  /\ Even(quotient) \in 0 .. DIVIDERS - 1
               /\ clk' = [of |-> of, asked |-> 0, divider |-> Even(quotient)]
    <3>1. quotient \in Nat /\ DIVIDERS \in Nat
      BY ClockAssumption
    <3>2. Even(quotient) \in Nat /\ Even(quotient) \in {quotient - 1, quotient}
      BY <3>1, EvenIs
    <3> QED BY <2>2, <3>1, <3>2 DEF Set
  <2> QED BY <2>1, <2>2 DEF DividesByZero
<1>2. clk'.of # "aux" /\ clk'.of \in {"spi", "i2c", "killed"} /\ clk'.asked = 0
      /\ clk'.divider \in 0 .. DIVIDERS - 1
  BY <1>1
<1>3. ClockTypeOK'
  BY <1>2, ClockAssumption DEF ClockTypeOK, Speed
<1>4. SpeedIsHeld'
  BY <1>2 DEF SpeedIsHeld
<1> QED BY <1>3, <1>4 DEF ClockInv

LEMMA LimitedIs ==
  ASSUME NEW asked \in Speed
  PROVE  /\ Limited(asked) \in Nat \ {0} /\ Limited(asked) >= AUX_CLOCK_MIN
         /\ asked >= AUX_CLOCK_MIN => Limited(asked) <= asked
BY ClockAssumption DEF Limited, Speed

(* The rounded quotient, made smaller by one and cut to 16 bits, is not    *)
(* changed by that.                                                        *)
LEMMA AuxDivider ==
  ASSUME NEW s \in Nat \ {0}, s >= AUX_CLOCK_MIN
  PROVE  \E q \in 1..DIVIDERS : /\ DIV_ROUND_UP(CORE_CLK_HZ, 2 * s) = q
                                /\ (q - 1) % DIVIDERS = q - 1
                                /\ 2 * s * q >= CORE_CLK_HZ
<1> DEFINE d == 2 * s
           n == CORE_CLK_HZ + d - 1
           q == n \div d
<1>1. d \in Nat \ {0} /\ n \in Nat /\ n >= d /\ DIVIDERS \in Nat \ {0}
  BY ClockAssumption
<1>2. CORE_CLK_HZ <= d * DIVIDERS
  <2>1. DIVIDERS * AUX_CLOCK_MIN <= DIVIDERS * s
    BY ClockAssumption, ProductGrows
  <2>2. 2 * DIVIDERS * AUX_CLOCK_MIN = 2 * (DIVIDERS * AUX_CLOCK_MIN)
        /\ d * DIVIDERS = 2 * (DIVIDERS * s)
    BY ClockAssumption
  <2> QED BY <2>1, <2>2, ClockAssumption
<1> HIDE DEF d
<1>3. q \in Nat /\ n = d * q + (n % d) /\ n % d \in 0 .. d - 1
  <2> HIDE DEF n
  <2> QED BY <1>1, Division
<1> HIDE DEF q
<1>4. d * q >= CORE_CLK_HZ
  BY <1>1, <1>3, ClockAssumption
<1>5. q # 0
  BY <1>1, <1>4, ClockAssumption
<1>6. q <= DIVIDERS
  <2>1. SUFFICES ASSUME DIVIDERS + 1 <= q PROVE FALSE
    BY <1>1, <1>3
  <2>2. d * (DIVIDERS + 1) <= d * q
    BY <1>1, <1>3, <2>1, ProductGrows
  <2>3. d * (DIVIDERS + 1) = d * DIVIDERS + d
    BY <1>1
  <2> QED BY <1>1, <1>2, <1>3, <2>2, <2>3, ClockAssumption
<1>7. (q - 1) % DIVIDERS = q - 1
  <2> DEFINE p == q - 1
  <2>1. p \in Nat /\ p < DIVIDERS
    BY <1>1, <1>3, <1>5, <1>6
  <2> HIDE DEF p
  <2>2. p % DIVIDERS = p
    BY <1>1, <2>1, Remainder
  <2> QED BY <2>2 DEF p
<1>8. q \in 1..DIVIDERS
  BY <1>1, <1>3, <1>5, <1>6
<1> QED BY <1>4, <1>7, <1>8 DEF d, q, DIV_ROUND_UP

LEMMA AuxDividerHolds ==
  ASSUME NEW asked \in Speed,
         clk' = [of |-> "aux", asked |-> asked, divider |-> CalcClockDivider(Limited(asked))]
  PROVE  ClockInv'
<1> DEFINE s == Limited(asked)
           d == CalcClockDivider(s)
<1>1. s \in Nat \ {0} /\ s >= AUX_CLOCK_MIN /\ (asked >= AUX_CLOCK_MIN => s <= asked)
  BY LimitedIs
<1> HIDE DEF s
<1>2. PICK q \in 1..DIVIDERS : /\ DIV_ROUND_UP(CORE_CLK_HZ, 2 * s) = q
                               /\ (q - 1) % DIVIDERS = q - 1
                               /\ 2 * s * q >= CORE_CLK_HZ
  BY <1>1, AuxDivider
<1>3. d = IF q - 1 > AUX_SPEED_MAX THEN AUX_SPEED_MAX ELSE q - 1
  BY <1>2 DEF CalcClockDivider
<1> HIDE DEF d
<1>4. clk' = [of |-> "aux", asked |-> asked, divider |-> d]
  BY DEF d, s
<1>5. d \in 0 .. DIVIDERS - 1
  BY <1>2, <1>3, ClockAssumption
<1>6. ClockTypeOK'
  BY <1>4, <1>5 DEF ClockTypeOK
<1>7. Cycles' = 2 * (d + 1) /\ clk'.of = "aux" /\ clk'.asked = asked
  <2>1. clk'.of = "aux" /\ clk'.asked = asked /\ clk'.divider = d
    BY <1>4
  <2> QED BY <2>1 DEF Cycles
<1>8. \/ 2 * (d + 1) * asked >= CORE_CLK_HZ
      \/ 2 * (AUX_SPEED_MAX + 1) * asked < CORE_CLK_HZ
  <2>1. asked \in Nat /\ AUX_SPEED_MAX \in Nat /\ AUX_CLOCK_MIN \in Nat /\ CORE_CLK_HZ \in Nat
        /\ DIVIDERS \in Nat
    BY ClockAssumption DEF Speed
  <2>2. CASE asked < AUX_CLOCK_MIN
    <3> DEFINE m == 2 * (AUX_SPEED_MAX + 1)
    <3>1. m \in Nat /\ m > 0 /\ m * AUX_CLOCK_MIN <= CORE_CLK_HZ
      BY <2>1, ClockAssumption
    <3> HIDE DEF m
    <3>2. m * asked <= m * (AUX_CLOCK_MIN - 1) /\ m * (AUX_CLOCK_MIN - 1) = m * AUX_CLOCK_MIN - m
      BY <2>1, <2>2, <3>1, ProductGrows
    <3>3. m * asked < CORE_CLK_HZ
      BY <2>1, <3>1, <3>2
    <3> QED BY <3>3 DEF m
  <2>3. CASE asked >= AUX_CLOCK_MIN /\ d = q - 1
    <3>1. q * s <= q * asked
      BY <1>1, <1>2, <2>1, <2>3, ProductGrows
    <3>2. 2 * s * q = 2 * (q * s) /\ 2 * (d + 1) * asked = 2 * (q * asked)
      BY <1>1, <1>2, <2>1, <2>3
    <3>3. q * s \in Int /\ q * asked \in Int
      BY <1>1, <1>2, <2>1
    <3> QED BY <1>2, <2>1, <3>1, <3>2, <3>3
  <2>4. CASE d = AUX_SPEED_MAX
    BY <2>1, <2>4
  <2> QED BY <1>2, <1>3, <2>1, <2>2, <2>3, <2>4
<1>9. SpeedIsHeld'
  BY <1>7, <1>8 DEF SpeedIsHeld
<1> QED BY <1>6, <1>9 DEF ClockInv

LEMMA ClockNextInv == ClockInv /\ [ClockNext]_clk => ClockInv'
<1> SUFFICES ASSUME ClockInv, [ClockNext]_clk PROVE ClockInv'
  OBVIOUS
<1>1. CASE UNCHANGED clk
  BY <1>1 DEF ClockInv, ClockTypeOK, SpeedIsHeld, Cycles
<1>2. CASE bcm2835_spi_set_speed_hz \/ bcm2835_i2c_set_baudrate
  <2>1. PICK of \in {"spi", "i2c"} : SetSpeed(of) \/ DividesByZero(of)
    BY <1>2 DEF bcm2835_spi_set_speed_hz, bcm2835_i2c_set_baudrate
  <2>2. CASE SetSpeed(of)
    BY <2>2, EvenDividerHolds DEF SetSpeed, Set
  <2>3. CASE DividesByZero(of)
    BY <2>3, ZeroHolds DEF ClockInv
  <2> QED BY <2>1, <2>2, <2>3
<1>3. CASE bcm2835_aux_spi_CalcClockDivider
  BY <1>3, AuxDividerHolds DEF bcm2835_aux_spi_CalcClockDivider, Set
<1> QED BY <1>1, <1>2, <1>3 DEF ClockNext

LEMMA ClockInitInv == ClockInit => ClockInv
BY ClockAssumption DEF ClockInit, ClockInv, ClockTypeOK, SpeedIsHeld, Speed

-----------------------------------------------------------------------------
(* The peripherals together *)

BcmInv == unit \in Unit /\ I2cInv /\ SpiInv /\ AuxInv /\ TimerInv /\ ClockInv

LEMMA BcmInitInv == BcmInit => BcmInv
BY I2cInitInv, SpiInitInv, AuxInitInv, TimerInitInv, ClockInitInv DEF BcmInit, BcmInv

(* A step is one of a single peripheral, and the others stutter. *)
LEMMA BcmNextInv == BcmInv /\ [BcmNext]_unitVars => BcmInv'
<1> SUFFICES ASSUME BcmInv, [BcmNext]_unitVars PROVE BcmInv'
  OBVIOUS
<1>1. /\ [I2cNext]_i2cVars /\ [SpiNext]_spiVars /\ [AuxNext]_auxVars
      /\ [TimerNext]_timerVars /\ [ClockNext]_clk /\ unit' = unit
  BY DEF BcmNext, UseI2c, UseSpi, UseAux, UseTimer, UseClock, unitVars
<1> QED BY <1>1, I2cNextInv, SpiNextInv, AuxNextInv, TimerNextInv, ClockNextInv DEF BcmInv

LEMMA BcmInvHolds == BcmFairSpec => []BcmInv
<1>1. BcmSpec => []BcmInv
  BY BcmInitInv, BcmNextInv, PTL DEF BcmSpec
<1> QED BY <1>1, PTL DEF BcmFairSpec

LEMMA BcmInvIsTrue ==
  BcmInv => BcmTypeOK /\ I2cIsTrue /\ BytesExchanged /\ TimerIsTrue /\ SpeedIsHeld
<1> SUFFICES ASSUME BcmInv
             PROVE  BcmTypeOK /\ I2cIsTrue /\ BytesExchanged /\ TimerIsTrue /\ SpeedIsHeld
  OBVIOUS
<1>1. I2cTypeOK /\ I2cIsTrue /\ SpiTypeOK /\ SpiExchanges /\ AuxTypeOK /\ AuxExchanges
  BY I2cInvIsTrue, SpiInvIsTrue, AuxInvIsTrue DEF BcmInv
<1>2. TimerTypeOK /\ TimerIsTrue
  <2>1. TimerTypeOK
    BY DEF BcmInv, TimerInv, TimerState, TimerTypeOK
  <2> QED BY <2>1 DEF BcmInv, TimerInv, TimerIsTrue
<1>3. ClockTypeOK /\ SpeedIsHeld
  BY DEF BcmInv, ClockInv
<1> QED BY <1>1, <1>2, <1>3 DEF BcmInv, BcmTypeOK, BytesExchanged

(* The state of every peripheral, controller and register has its type:    *)
(* no queue is longer than its FIFO, and no counter of bytes leaves the    *)
(* buffer of its call (bcm2835.c:534-1656).                                *)
THEOREM BcmTypeCorrect == BcmFairSpec => []BcmTypeOK
BY BcmInvHolds, BcmInvIsTrue, PTL

(* bcm2835.c:1287-1623: for every size of the FIFO and of the transfer, an *)
(* I2C call says OK only with its buffer filled.  One that found the bus   *)
(* idle says it only of a complete transfer of its own, and returns before *)
(* the controller is done only when it missed the end of the write.        *)
THEOREM BcmI2cIsTrue == BcmFairSpec => []I2cIsTrue
BY BcmInvHolds, BcmInvIsTrue, PTL

(* bcm2835.c:754-934, 997-1200: the bytes of a call of either SPI go out   *)
(* in their order, and their answers come into its buffer: with transfern  *)
(* that overwrites the buffer it sends from, and with the unguarded reads  *)
(* of the auxiliary SPI, when the call is sound.                           *)
THEOREM BcmBytesExchanged == BcmFairSpec => []BytesExchanged
BY BcmInvHolds, BcmInvIsTrue, PTL

(* bcm2835.c:534-569, 1638-1656: what st_read returns was the timer's      *)
(* value at one moment of the call, for words of every width, and a delay  *)
(* is not too short.                                                       *)
THEOREM BcmTimerIsTrue == BcmFairSpec => []TimerIsTrue
BY BcmInvHolds, BcmInvIsTrue, PTL

(* bcm2835.c:739-744, 969-988, 1278-1284: the dividers of the three clocks *)
(* hold the speed that was asked for, for every frequency and width.       *)
THEOREM BcmSpeedIsHeld == BcmFairSpec => []SpeedIsHeld
BY BcmInvHolds, BcmInvIsTrue, PTL

-----------------------------------------------------------------------------
(* Polling.  Every call polls flags of its controller, without a limit:    *)
(* it ends only if the controller is never the one that waits.  What each  *)
(* controller can do, and where the program need not wait for it:          *)

BusWorks ==
  \/ bsc.bus = "idle" /\ bsc.request # "idle"
  \/ bsc.bus # "idle" /\ bsc.left = 0
  \/ bsc.bus = "write" /\ bsc.tx # <<>>
  \/ bsc.bus = "read" /\ Len(bsc.rx) < BSC_FIFO_SIZE

I2cReady ==
  \/ i2c.pc \in {"idle", "start", "restart", "rest", "err", "clkt"}
  \/ At("fill") /\ i2c.remaining > 0 /\ Len(bsc.tx) < BSC_FIFO_SIZE
  \/ At("started") /\ TA
  \/ At("drain") /\ i2c.remaining > 0 /\ bsc.rx # <<>>
  \/ bsc.DONE

(* What does not fit the FIFO before a repeated start is never written.    *)
NeverFits == i2c.op = "write_read" /\ i2c.len > BSC_FIFO_SIZE

(* A transfer that was at work when the call came may wait for bytes or    *)
(* for room that the program does not give it.                             *)
I2cNoVainWait == I2cReady \/ BusWorks \/ NeverFits \/ (i2c.overlaps /\ BusWaits)

SpiWorks == cs.TA /\ cs.tx # <<>> /\ Len(cs.rx) < SPI_FIFO_SIZE

SpiReady ==
  \/ SpiAt("idle")
  \/ SpiAt("done") /\ (SpiDONE \/ (spi.op = "writenb" /\ RXD))
  \/ spi.op \in {"transfer", "write"} /\ SpiAt("send") /\ TXD
  \/ spi.op = "transfer" /\ SpiAt("receive") /\ SpiDONE
  \/ /\ spi.op \in {"transfernb", "transfern"} /\ spi.pc \in {"send", "receive"}
     /\ \/ TXD /\ spi.tx_cnt < spi.len
        \/ RXD /\ spi.rx_cnt < spi.len
        \/ spi.tx_cnt = spi.len /\ spi.rx_cnt = spi.len
  \/ spi.op = "writenb" /\ SpiAt("send") /\ (TXD \/ spi.tx_cnt = spi.len)
  \/ spi.op = "writenb" /\ SpiAt("receive")

SpiNoVainWait == SpiReady \/ SpiWorks

AuxWorks == BUSY /\ Len(spi1.rx) < AUX_FIFO_SIZE

AuxReady ==
  \/ AuxAt("idle")
  \/ aux.op \in {"write", "writenb"} /\ AuxAt("send") /\ ~TX_FULL
  \/ aux.op \in {"writenb", "transfer"} /\ AuxAt("busy") /\ ~BUSY
  \/ aux.op = "transfer" /\ aux.pc \in {"send", "receive"}
  \/ /\ aux.op = "transfernb"
     /\ \/ ~TX_FULL /\ aux.tx_len > 0
        \/ (~RX_EMPTY \/ ~BUSY) /\ aux.rx_len > 0
        \/ aux.tx_len = 0 /\ aux.rx_len = 0

AuxNoVainWait == Sound => AuxReady \/ AuxWorks

NoVainWait == I2cNoVainWait /\ SpiNoVainWait /\ AuxNoVainWait

(* What the invariants above do not say: a transfer that is not over is    *)
(* requested or runs; what fits the FIFO was put there at once;            *)
I2cBusy ==
  /\ i2c.pc \in {"fill", "started", "drain"} /\ ~bsc.DONE =>
       bsc.bus # "idle" \/ bsc.request # "idle"
  /\ Restarts /\ i2c.len <= BSC_FIFO_SIZE => Gone + Queued = i2c.len
  /\ i2c.op = "register" => i2c.len = 1

(* the answers nobody reads have room: those of writenb, because its       *)
(* receive FIFO is empty when it waits for room to transmit, those of      *)
(* bcm2835_spi_write because there are only two;                           *)
SpiRoom ==
  /\ ~SpiAt("idle") => cs.TA
  /\ spi.op = "writenb" /\ SpiAt("send") => Sending + Answers <= SPI_FIFO_SIZE
  /\ spi.op = "write" => Answers = Served /\ ~SpiAt("receive")

(* and the word of a sound bcm2835_aux_spi_write finds an empty FIFO.      *)
AuxRoom ==
  aux.op = "write" => AuxAt("idle") \/ (AuxAt("send") /\ (OnWay = 0 \/ aux.found))

LEMMA I2cBusyBegins ==
  ASSUME I2cInv, NEW op \in Op \ {"none"}, NEW n \in Length, NEW m \in Length,
         Begin(op, n, m), op = "register" => n = 1
  PROVE  I2cBusy'
<1> DEFINE call == i2c.call + 1
           pre == AtMost(n, BSC_FIFO_SIZE)
           rest == IF op = "read" THEN m ELSE n - pre
           dlen == IF op = "read" THEN m ELSE n
           tx == I2cBytes(call, 1, pre)
<1>1. /\ i2c' = [pc |-> "start", op |-> op, call |-> call, len |-> n, buf_len |-> m,
                 remaining |-> rest, buf |-> <<>>, reason |-> "OK", missed |-> FALSE,
                 overlaps |-> TA \/ bsc.request # "idle"]
      /\ bsc' = [bsc EXCEPT !.foreign = TA, !.dlen = dlen, !.tx = tx, !.rx = <<>>,
                            !.sent = <<>>, !.DONE = FALSE, !.ERR = FALSE, !.CLKT = FALSE]
      /\ i2c.call < MaxI2cCalls
  BY DEF Begin
<1>2. call \in 1..MaxI2cCalls
  BY <1>1, I2cAssumption DEF I2cInv, I2cShape, I2cProgram
<1>3. /\ pre \in 0..MaxI2cBytes /\ n \in Nat /\ pre \in Nat
      /\ n <= BSC_FIFO_SIZE => pre = n
  BY I2cAssumption DEF AtMost, Length
<1>4. Len(tx) = pre
  <2> DEFINE all == [k \in Nat |-> <<call, k>>]
  <2>1. all = [k \in Nat |-> <<call, k>>]
    OBVIOUS
  <2> HIDE DEF call, pre, all
  <2> QED BY <1>2, <1>3, <2>1, I2cBytesFollow
<1> HIDE DEF call, pre, rest, dlen, tx
<1>5. bsc'.tx = tx /\ bsc'.sent = <<>>
  BY <1>1 DEF I2cInv, I2cShape, BscState
<1>6. i2c'.op = op /\ i2c'.len = n /\ i2c'.pc = "start"
  BY <1>1
<1>7. Gone' = 0 /\ Queued' = pre
  BY <1>4, <1>5, EmptySeq DEF Gone, Queued
<1>8. n <= BSC_FIFO_SIZE => Gone' + Queued' = n
  BY <1>3, <1>7
<1> QED BY <1>6, <1>8 DEF I2cBusy

LEMMA I2cBusyBus ==
  ASSUME I2cInv, I2cBusy, Bus \/ BusFails PROVE I2cBusy'
<1>1. CASE BusWrites
  <2> DEFINE sent == Append(bsc.sent, Head(bsc.tx))
             tx == Tail(bsc.tx)
  <2>1. /\ bsc' = [bsc EXCEPT !.left = @ - 1, !.tx = tx, !.sent = sent]
        /\ i2c' = i2c /\ bsc.tx # <<>> /\ bsc.bus = "write"
    BY <1>1 DEF BusWrites
  <2>2. Len(tx) = Queued - 1 /\ Len(sent) = Gone + 1
    <3>1. bsc.tx \in Seq(I2cByte) /\ bsc.sent \in Seq(I2cByte)
      BY I2cTypes
    <3>2. Head(bsc.tx) \in I2cByte /\ Len(tx) = Len(bsc.tx) - 1
      BY <2>1, <3>1, HeadTailProperties
    <3> QED BY <3>1, <3>2, AppendProperties DEF Queued, Gone
  <2> HIDE DEF sent, tx
  <2>3. bsc'.tx = tx /\ bsc'.sent = sent /\ bsc'.bus = "write"
    BY <2>1 DEF I2cInv, I2cShape, BscState
  <2>4. Gone' + Queued' = Gone + Queued
    <3>1. Gone' = Gone + 1 /\ Queued' = Queued - 1
      BY <2>2, <2>3 DEF Gone, Queued
    <3> QED BY <3>1, I2cNumbers
  <2> QED BY <2>1, <2>3, <2>4 DEF I2cBusy, Restarts
<1>2. ASSUME NEW b \in BscState, bsc' = b, i2c' = i2c, b.tx = bsc.tx, b.sent = bsc.sent,
             b.bus # "idle" \/ b.request # "idle" \/ b.DONE
      PROVE  I2cBusy'
  BY <1>2 DEF I2cBusy, Restarts, Gone, Queued
<1>3. CASE BusStarts
  <2> DEFINE b == [bsc EXCEPT !.bus = bsc.request, !.left = bsc.dlen, !.request = "idle",
                              !.foreign = At("start")]
  <2>1. bsc' = b /\ i2c' = i2c /\ bsc.request # "idle"
    BY <1>3 DEF BusStarts
  <2>2. /\ b \in BscState /\ b.bus = bsc.request /\ b.tx = bsc.tx /\ b.sent = bsc.sent
    BY I2cTypes, I2cNumbers DEF I2cInv, I2cShape, BscState, Transfer, At
  <2> HIDE DEF b
  <2> QED BY <1>2, <2>1, <2>2
<1>4. CASE BusReads \/ BusEnds \/ BusFails
  <2>1. /\ i2c' = i2c /\ bsc'.tx = bsc.tx /\ bsc'.sent = bsc.sent
        /\ bsc'.bus # "idle" \/ bsc'.request # "idle" \/ bsc'.DONE
    BY <1>4, I2cTypes DEF BusReads, BusEnds, BusFails, I2cInv, I2cShape, BscState
  <2> QED BY <2>1 DEF I2cBusy, Restarts, Gone, Queued
<1> QED BY <1>1, <1>3, <1>4 DEF Bus

(* The program only goes where a transfer is under way, and puts nothing   *)
(* into the FIFO before a repeated start but at its beginning.             *)
LEMMA I2cBusyProgram ==
  ASSUME I2cInv, I2cBusy, Program PROVE I2cBusy'
<1>1. 0 \in Length /\ 1 \in Length
  BY I2cAssumption DEF Length
<1>2. CASE \/ \E n \in Length : Begin("write", n, 0)
           \/ \E m \in Length : Begin("read", 0, m)
           \/ \E m \in Length : Begin("register", 1, m)
           \/ \E n, m \in Length : Begin("write_read", n, m)
  BY <1>1, <1>2, I2cBusyBegins DEF Op
<1>3. ASSUME NEW next, Start(next) PROVE I2cBusy'
  <2>1. /\ i2c'.op = i2c.op /\ i2c'.len = i2c.len
        /\ bsc'.tx = bsc.tx /\ bsc'.sent = bsc.sent /\ bsc'.request # "idle"
    BY <1>3 DEF Start, Kind, I2cInv, I2cShape, I2cProgram, BscState
  <2> QED BY <2>1 DEF I2cBusy, Restarts, Gone, Queued
<1>4. CASE i2c.op = "write" /\ Fill
  <2>1. /\ i2c'.op = "write" /\ bsc'.bus = bsc.bus /\ bsc'.request = bsc.request
        /\ bsc'.DONE = bsc.DONE /\ i2c'.pc \in {"fill", "err"} /\ At("fill")
        /\ i2c'.pc = "err" => bsc.DONE
    BY <1>4 DEF Fill, At, I2cInv, I2cShape, I2cProgram, BscState
  <2> QED BY <2>1 DEF I2cBusy, Restarts, At
<1>5. CASE Started \/ Restart \/ Drain \/ Rest \/ Finish
  <2>1. /\ i2c'.op = i2c.op /\ i2c'.len = i2c.len
        /\ bsc'.tx = bsc.tx /\ bsc'.sent = bsc.sent
        /\ i2c'.pc \in {"fill", "started", "drain"} =>
             bsc'.request = "read" \/ (i2c'.pc = i2c.pc /\ bsc'.bus = bsc.bus
               /\ bsc'.request = bsc.request /\ bsc'.DONE = bsc.DONE)
    <3>1. CASE Started \/ Restart
      BY <3>1 DEF Started, Restart, At, I2cInv, I2cShape, I2cProgram, BscState
    <3>2. CASE Drain \/ Rest
      BY <3>2 DEF Drain, Rest, Take, At, I2cInv, I2cShape, I2cProgram, BscState
    <3>3. CASE Finish
      <4>1. \/ bsc' = bsc
            \/ bsc' = [bsc EXCEPT !.DONE = FALSE]
        BY <3>3 DEF Finish
      <4>2. bsc'.tx = bsc.tx /\ bsc'.sent = bsc.sent
        BY <4>1 DEF I2cInv, I2cShape, BscState
      <4>3. i2c'.op = i2c.op /\ i2c'.len = i2c.len /\ i2c'.pc \in {"idle", "clkt"}
        BY <3>3 DEF Finish, Verdict, Return, At, I2cInv, I2cShape, I2cProgram
      <4> QED BY <4>2, <4>3
    <3> QED BY <1>5, <3>1, <3>2, <3>3
  <2> QED BY <2>1 DEF I2cBusy, Restarts, Gone, Queued
<1> QED BY <1>2, <1>3, <1>4, <1>5
        DEF Program, bcm2835_i2c_write, bcm2835_i2c_read, bcm2835_i2c_read_register_rs,
            bcm2835_i2c_write_read_rs

LEMMA I2cBusyNext == I2cInv /\ I2cBusy /\ [I2cNext]_i2cVars => I2cBusy'
<1> SUFFICES ASSUME I2cInv, I2cBusy, [I2cNext]_i2cVars PROVE I2cBusy'
  OBVIOUS
<1>1. CASE UNCHANGED i2cVars
  BY <1>1 DEF i2cVars, I2cBusy, Restarts, Gone, Queued
<1> QED BY <1>1, I2cBusyBus, I2cBusyProgram DEF I2cNext

(* The bus waits for bytes only while the program has some to write, and   *)
(* for room only while the program has to read.                            *)
LEMMA I2cWaitIsNotVain == I2cInv /\ I2cBusy => I2cNoVainWait
<1> SUFFICES ASSUME I2cInv, I2cBusy, ~I2cReady, ~BusWorks, ~NeverFits
             PROVE  i2c.overlaps /\ BusWaits
  BY DEF I2cNoVainWait
<1>1. i2c.pc \in {"start", "fill", "started", "drain"} /\ ~bsc.DONE
  BY DEF I2cReady, I2cInv, I2cShape, I2cProgram, I2cPlace
<1>2. ~At("start")
  BY DEF I2cReady, At
<1>3. bsc.bus \in {"write", "read"} /\ bsc.left > 0
  <2>1. bsc.bus # "idle" /\ bsc.left # 0
    BY <1>1, <1>2 DEF BusWorks, I2cBusy, At
  <2> QED BY <2>1, I2cTypes, I2cNumbers DEF Transfer
<1>4. BusWaits
  <2>1. bsc.bus = "read" => Come = BSC_FIFO_SIZE
    BY I2cNumbers DEF BusWorks, I2cInv, I2cShape, Come
  <2> QED BY <1>3, <2>1 DEF BusWaits, BusWorks, Come
<1> SUFFICES ASSUME ~i2c.overlaps PROVE FALSE
  BY <1>4
<1>5. I2cAlone
  BY DEF I2cInv
<1>6. ~At("started")
  BY <1>3 DEF I2cReady, TA
<1>7. CASE bsc.bus = "write"
  <2>1. bsc.tx = <<>> /\ Queued = 0 /\ bsc.left = i2c.len - Gone
    BY <1>5, <1>7, EmptyQueues DEF BusWorks, I2cAlone, I2cTransfers
  <2>2. CASE At("fill")
    <3>1. i2c.op = "write"
      BY <2>2, I2cTypes DEF I2cInv, I2cPlaces, Op, Restarts, At
    <3>2. i2c.remaining > 0
      <4>1. i2c.remaining = i2c.len - Gone - Queued
        BY <1>5, <3>1 DEF I2cAlone, I2cData
      <4> QED BY <1>3, <2>1, <4>1, I2cNumbers
    <3>3. Len(bsc.tx) < BSC_FIFO_SIZE
      BY <2>1, I2cAssumption DEF Queued
    <3> QED BY <2>2, <3>2, <3>3 DEF I2cReady
  <2>3. CASE At("drain")
    <3>1. Restarts
      <4>1. i2c.len > 0
        BY <1>3, <2>1, I2cNumbers
      <4>2. i2c.op \notin {"none", "read"}
        BY <4>1 DEF I2cInv, I2cPlaces
      <4> QED BY <2>3, <4>2, I2cTypes DEF I2cInv, I2cPlaces, Op, Restarts, At
    <3>2. i2c.len <= BSC_FIFO_SIZE
      BY <3>1, I2cNumbers, I2cAssumption DEF NeverFits, I2cBusy, Restarts
    <3>3. Gone + Queued = i2c.len
      BY <3>1, <3>2 DEF I2cBusy
    <3> QED BY <1>3, <2>1, <3>3, I2cNumbers
  <2> QED BY <1>1, <1>2, <1>6, <2>2, <2>3 DEF At
<1>8. CASE bsc.bus = "read"
  <2>1. At("drain")
    BY <1>1, <1>2, <1>5, <1>6, <1>8 DEF I2cAlone, I2cWaits, At
  <2>2. Got + Come = i2c.buf_len - bsc.left /\ Come >= BSC_FIFO_SIZE
    BY <1>5, <1>8, I2cNumbers DEF I2cAlone, I2cTransfers, BusWorks, Come
  <2>3. i2c.remaining = i2c.buf_len - Got
    <3>1. i2c.op = "read" \/ Restarts
      BY <2>1, I2cTypes DEF I2cInv, I2cPlaces, Op, Restarts, At
    <3> QED BY <2>1, <3>1 DEF I2cInv, I2cCounts, At
  <2>4. i2c.remaining > 0
    BY <1>3, <2>2, <2>3, I2cNumbers
  <2>5. bsc.rx # <<>>
    BY <2>2, EmptyQueues, I2cAssumption
  <2> QED BY <2>1, <2>4, <2>5 DEF I2cReady
<1> QED BY <1>3, <1>7, <1>8

LEMMA SpiRoomBegins ==
  ASSUME SpiInv, NEW op, NEW n, SpiBegin(op, n) PROVE SpiRoom'
<1>1. /\ spi'.pc = "send" /\ cs'.TA /\ cs'.tx = <<>> /\ cs'.rx = <<>> /\ cs'.slave = <<>>
  BY DEF SpiBegin
<1>2. Sending' = 0 /\ Answers' = 0 /\ Served' = 0
  BY <1>1, EmptySeq DEF Sending, Answers, Served
<1> QED BY <1>1, <1>2, SpiAssumption DEF SpiRoom, SpiAt

(* What the controller exchanges leaves one FIFO for the other. *)
LEMMA SpiRoomExchange ==
  ASSUME SpiInv, SpiRoom, Exchange PROVE SpiRoom'
<1> DEFINE reply == <<"in", spi.call, Len(cs.slave) + 1>>
           tx == Tail(cs.tx)
           rx == Append(cs.rx, reply)
           slave == Append(cs.slave, Head(cs.tx))
<1>1. /\ cs' = [cs EXCEPT !.tx = tx, !.rx = rx, !.slave = slave]
      /\ spi' = spi /\ cs.tx # <<>>
  BY DEF Exchange
<1>2. /\ Len(tx) = Sending - 1 /\ Len(rx) = Answers + 1 /\ Len(slave) = Served + 1
  <2>1. Len(tx) = Sending - 1
    BY <1>1, SpiTypes, HeadTailProperties DEF Sending
  <2>2. Len(rx) = Answers + 1 /\ Len(slave) = Served + 1
    BY SpiTypes DEF Answers, Served
  <2> QED BY <2>1, <2>2
<1> HIDE DEF tx, rx, slave
<1>3. cs'.TA = cs.TA /\ cs'.tx = tx /\ cs'.rx = rx /\ cs'.slave = slave
  BY <1>1 DEF SpiInv, SpiShape, SpiState
<1>4. Sending' = Sending - 1 /\ Answers' = Answers + 1 /\ Served' = Served + 1
  BY <1>2, <1>3 DEF Sending, Answers, Served
<1>5. Sending' + Answers' = Sending + Answers
  BY <1>4, SpiNumbers
<1> QED BY <1>1, <1>3, <1>4, <1>5 DEF SpiRoom, SpiAt

(* A step of the program that begins no call. *)
LEMMA SpiRoomKeeps ==
  ASSUME SpiInv, SpiRoom, spi'.op = spi.op,
         cs'.TA = cs.TA \/ SpiAt("idle")',
         spi.op = "writenb" /\ SpiAt("send")' => ~RXD' /\ Sending' \in 0..SPI_FIFO_SIZE,
         spi.op = "write" =>
           cs'.rx = cs.rx /\ cs'.slave = cs.slave /\ ~SpiAt("receive")',
         SpiAt("idle") => SpiAt("idle")'
  PROVE  SpiRoom'
<1>1. spi.op = "write" => Answers' = Answers /\ Served' = Served
  BY DEF Answers, Served
<1>2. ~RXD' => Answers' = 0
  BY EmptySeq DEF RXD, Answers
<1>3. spi.op = "writenb" /\ SpiAt("send")' => Sending' + Answers' <= SPI_FIFO_SIZE
  <2>1. SUFFICES ASSUME spi.op = "writenb", SpiAt("send")'
                 PROVE  Sending' + Answers' <= SPI_FIFO_SIZE
    OBVIOUS
  <2>2. Answers' = 0 /\ Sending' \in 0..SPI_FIFO_SIZE
    BY <1>2, <2>1
  <2>3. \A x \in 0..SPI_FIFO_SIZE : x + 0 <= SPI_FIFO_SIZE
    BY SpiAssumption
  <2> QED BY <2>2, <2>3
<1> QED BY <1>1, <1>3 DEF SpiRoom

LEMMA SpiRoomProgram ==
  ASSUME SpiInv, SpiRoom, SpiProgram PROVE SpiRoom'
<1>0. spi \in SpiProgramState /\ cs \in SpiState
  BY DEF SpiInv, SpiShape
<1>1. ASSUME NEW op, NEW n, SpiBegin(op, n) PROVE SpiRoom'
  BY <1>1, SpiRoomBegins
<1>2. ASSUME spi.op \in {"transfer", "transfernb", "transfern"}, ~SpiAt("idle"),
             NEW n, NEW pc \in {"send", "receive", "done"}, Put(n, pc) \/ Get(pc) \/ SpiGoes(pc)
      PROVE  SpiRoom'
  <2>1. spi'.op = spi.op /\ cs'.TA = cs.TA
    BY <1>0, <1>2 DEF Put, Get, SpiGoes, SpiProgramState, SpiState
  <2> QED BY <1>2, <2>1, SpiRoomKeeps
<1>3. ASSUME SpiReturn PROVE SpiRoom'
  <2>1. /\ spi'.op = spi.op /\ spi'.pc = "idle"
        /\ cs'.rx = cs.rx /\ cs'.slave = cs.slave
    BY <1>0, <1>3 DEF SpiReturn, SpiProgramState, SpiState
  <2> QED BY <2>1, SpiRoomKeeps DEF SpiAt
<1>4. ASSUME spi.op = "writenb", ~SpiAt("idle"),
             Put(1, "receive") \/ SpiGoes("done") \/ (Discard /\ ~SpiAt("send"))
      PROVE  SpiRoom'
  <2>1. spi'.op = spi.op /\ cs'.TA = cs.TA /\ spi'.pc # "send"
    BY <1>0, <1>4 DEF Put, SpiGoes, Discard, SpiProgramState, SpiState, SpiAt
  <2> QED BY <1>4, <2>1, SpiRoomKeeps DEF SpiAt
<1>5. ASSUME spi.op = "writenb", ~SpiAt("idle"), ~RXD, SpiGoes("send") PROVE SpiRoom'
  <2>1. spi'.op = spi.op /\ cs' = cs
    BY <1>0, <1>5 DEF SpiGoes, SpiProgramState
  <2>2. ~RXD' /\ Sending' = Sending
    BY <1>5, <2>1 DEF RXD, Sending
  <2>3. Sending \in 0..SPI_FIFO_SIZE
    BY SpiNumbers DEF SpiInv, SpiShape
  <2> QED BY <1>5, <2>1, <2>2, <2>3, SpiRoomKeeps
<1>6. ASSUME spi.op = "write", ~SpiAt("idle"), Put(2, "done") PROVE SpiRoom'
  <2>1. /\ spi'.op = spi.op /\ spi'.pc = "done" /\ cs'.TA = cs.TA
        /\ cs'.rx = cs.rx /\ cs'.slave = cs.slave
    BY <1>0, <1>6 DEF Put, SpiProgramState, SpiState
  <2> QED BY <1>6, <2>1, SpiRoomKeeps DEF SpiAt
<1>7. CASE bcm2835_spi_transfer
  BY <1>1, <1>2, <1>3, <1>7 DEF bcm2835_spi_transfer, SpiAt
<1>8. CASE bcm2835_spi_transfernb
  BY <1>1, <1>2, <1>3, <1>8 DEF bcm2835_spi_transfernb, SpiAt
<1>9. CASE bcm2835_spi_writenb
  BY <1>1, <1>3, <1>4, <1>5, <1>9 DEF bcm2835_spi_writenb, SpiAt
<1>10. CASE bcm2835_spi_write
  BY <1>1, <1>3, <1>6, <1>10 DEF bcm2835_spi_write, SpiAt
<1> QED BY <1>7, <1>8, <1>9, <1>10 DEF SpiProgram

LEMMA SpiRoomNext == SpiInv /\ SpiRoom /\ [SpiNext]_spiVars => SpiRoom'
<1> SUFFICES ASSUME SpiInv, SpiRoom, [SpiNext]_spiVars PROVE SpiRoom'
  OBVIOUS
<1>1. CASE UNCHANGED spiVars
  BY <1>1 DEF spiVars, SpiRoom, SpiAt, Sending, Answers, Served
<1> QED BY <1>1, SpiRoomExchange, SpiRoomProgram DEF SpiNext

(* The controller waits for room only when there is something to read, and *)
(* for bytes only when there is room to transmit or none is missing.       *)
LEMMA SpiWaitIsNotVain == SpiInv /\ SpiRoom => SpiNoVainWait
<1> SUFFICES ASSUME SpiInv, SpiRoom, ~SpiReady, ~SpiWorks PROVE FALSE
  BY DEF SpiNoVainWait
<1>1. /\ spi.pc \in {"send", "receive", "done"} /\ cs.TA
      /\ spi.op \in {"transfer", "transfernb", "transfern", "writenb", "write"}
  BY DEF SpiReady, SpiRoom, SpiAt, SpiInv, SpiShape, SpiProgramState, SpiPlaces
<1>2. cs.tx = <<>> \/ Answers = SPI_FIFO_SIZE
  BY <1>1, SpiNumbers DEF SpiWorks, SpiInv, SpiShape, Answers
<1>3. /\ Served + Sending = spi.tx_cnt /\ spi.tx_cnt <= spi.len /\ spi.rx_cnt <= spi.len
      /\ Listens => Served = spi.rx_cnt + Answers
  BY DEF SpiInv, SpiData
<1>4. /\ TXD <=> Sending < SPI_FIFO_SIZE
      /\ RXD <=> Answers > 0
      /\ SpiDONE <=> Sending = 0
  BY <1>1, SpiEmpty, SpiNotEmpty, SpiNumbers DEF TXD, RXD, SpiDONE, Sending
<1>5. Sending = 0 \/ Answers = SPI_FIFO_SIZE
  BY <1>2, SpiEmpty
<1>6. CASE SpiAt("done")
  <2>1. ~SpiDONE /\ Answers = SPI_FIFO_SIZE /\ spi.op # "writenb"
    BY <1>4, <1>5, <1>6, SpiNumbers DEF SpiReady
  <2>2. spi.tx_cnt = spi.len /\ (Listens => spi.rx_cnt = spi.len)
    BY <1>6 DEF SpiInv, SpiPlaces, SpiAt
  <2>3. CASE Listens
    BY <1>3, <1>4, <2>1, <2>2, <2>3, SpiNumbers
  <2>4. CASE spi.op = "write"
    <3>1. Answers = Served /\ spi.len = 2
      BY <2>4 DEF SpiRoom, SpiInv, SpiPlaces
    <3> QED BY <1>3, <1>4, <2>1, <2>2, <3>1, SpiNumbers
  <2> QED BY <1>1, <2>1, <2>3, <2>4 DEF Listens
<1>7. CASE spi.op \in {"transfer", "write"} /\ SpiAt("send")
  <2>1. Sending >= SPI_FIFO_SIZE
    BY <1>4, <1>7, SpiNumbers DEF SpiReady
  <2>2. spi.len = 1 \/ spi.tx_cnt = 0
    BY <1>7 DEF SpiInv, SpiPlaces
  <2> QED BY <1>3, <2>1, <2>2, SpiNumbers
<1>8. CASE spi.op = "transfer" /\ SpiAt("receive")
  <2>1. ~SpiDONE /\ spi.len = 1
    BY <1>8 DEF SpiReady, SpiInv, SpiPlaces
  <2> QED BY <1>3, <1>4, <1>5, <2>1, SpiNumbers, <1>8 DEF Listens
<1>9. CASE spi.op \in {"transfernb", "transfern"} /\ spi.pc \in {"send", "receive"}
  <2>1. /\ ~(TXD /\ spi.tx_cnt < spi.len) /\ ~(RXD /\ spi.rx_cnt < spi.len)
        /\ ~(spi.tx_cnt = spi.len /\ spi.rx_cnt = spi.len)
    BY <1>9 DEF SpiReady
  <2>2. Served = spi.rx_cnt + Answers
    BY <1>3, <1>9 DEF Listens
  <2> QED BY <1>3, <1>4, <1>5, <2>1, <2>2, SpiNumbers
<1>10. CASE spi.op = "writenb" /\ SpiAt("send")
  <2>1. ~TXD /\ Sending + Answers <= SPI_FIFO_SIZE
    BY <1>10 DEF SpiReady, SpiRoom
  <2> QED BY <1>4, <1>5, <2>1, SpiNumbers
<1>11. CASE spi.op = "writenb" /\ SpiAt("receive")
  BY <1>11 DEF SpiReady
<1>12. ~(spi.op = "write" /\ SpiAt("receive"))
  BY DEF SpiRoom
<1> QED BY <1>1, <1>6, <1>7, <1>8, <1>9, <1>10, <1>11, <1>12 DEF SpiAt

LEMMA AuxRoomNext == AuxInv /\ AuxRoom /\ [AuxNext]_auxVars => AuxRoom'
<1> SUFFICES ASSUME AuxInv, AuxRoom, [AuxNext]_auxVars PROVE AuxRoom'
  OBVIOUS
<1>0. aux \in AuxProgramState /\ spi1 \in AuxState
  BY DEF AuxInv, AuxShape
<1>1. ASSUME NEW op, NEW n, AuxBegin(op, n) PROVE AuxRoom'
  <2>1. aux'.found = (BUSY \/ ~RX_EMPTY) /\ spi1'.tx = spi1.tx /\ aux'.pc = "send"
    BY <1>0, <1>1 DEF AuxBegin, AuxState
  <2>2. ~BUSY => OnWay' = 0
    BY <2>1, AuxNotEmpty, AuxNumbers DEF BUSY, OnWay
  <2> QED BY <2>1, <2>2 DEF AuxRoom, AuxAt
<1>2. CASE Shift
  <2>1. aux' = aux /\ OnWay > 0
    BY <1>2, AuxNotEmpty DEF Shift, BUSY
  <2> QED BY <2>1, AuxNumbers DEF AuxRoom, AuxAt
<1>3. CASE UNCHANGED auxVars
  BY <1>3 DEF auxVars, AuxRoom, AuxAt, OnWay
<1>4. ASSUME aux'.op = aux.op, aux.op # "write" \/ aux'.pc = "idle" PROVE AuxRoom'
  BY <1>4 DEF AuxRoom, AuxAt
<1>5. CASE bcm2835_aux_spi_write
  <2>1. ASSUME aux.op = "write", PutWord("idle") PROVE AuxRoom'
    BY <1>0, <1>4, <2>1 DEF PutWord, AuxProgramState
  <2> QED BY <1>1, <1>5, <2>1 DEF bcm2835_aux_spi_write
<1>6. CASE bcm2835_aux_spi_writenb
  <2>1. ASSUME aux.op = "writenb", NEW pc, PutWord(pc) \/ AuxGoes(pc)
                  \/ aux' = [aux EXCEPT !.pc = pc]
        PROVE  AuxRoom'
    BY <1>0, <1>4, <2>1 DEF PutWord, AuxGoes, AuxProgramState
  <2> QED BY <1>1, <1>6, <2>1 DEF bcm2835_aux_spi_writenb
<1>7. CASE bcm2835_aux_spi_transfernb
  <2>1. ASSUME aux.op = "transfernb", NEW pc, PutWord(pc) \/ GetWord(pc) \/ AuxGoes(pc)
        PROVE  AuxRoom'
    BY <1>0, <1>4, <2>1 DEF PutWord, GetWord, AuxGoes, AuxProgramState
  <2> QED BY <1>1, <1>7, <2>1 DEF bcm2835_aux_spi_transfernb
<1>8. CASE bcm2835_aux_spi_transfer
  <2>1. ASSUME aux.op = "transfer", NEW pc, PutWord(pc) \/ GetWord(pc)
                  \/ aux' = [aux EXCEPT !.pc = pc]
        PROVE  AuxRoom'
    BY <1>0, <1>4, <2>1 DEF PutWord, GetWord, AuxProgramState
  <2> QED BY <1>1, <1>8, <2>1 DEF bcm2835_aux_spi_transfer
<1> QED BY <1>2, <1>3, <1>5, <1>6, <1>7, <1>8 DEF AuxNext, AuxProgram

(* A word is answered by the time there is none on its way; and the        *)
(* controller waits for room only when there is something to read.         *)
LEMMA AuxWaitIsNotVain == AuxInv /\ AuxRoom => AuxNoVainWait
<1> SUFFICES ASSUME AuxInv, AuxRoom, Sound, ~AuxReady, ~AuxWorks PROVE FALSE
  BY DEF AuxNoVainWait
<1>1. /\ BUSY <=> OnWay > 0
      /\ RX_EMPTY <=> Back = 0
      /\ TX_FULL <=> OnWay = AUX_FIFO_SIZE
      /\ OnWay <= AUX_FIFO_SIZE /\ Back <= AUX_FIFO_SIZE
  BY AuxNotEmpty, AuxNumbers DEF BUSY, RX_EMPTY, TX_FULL, OnWay, AuxInv, AuxShape
<1>2. OnWay = 0 \/ Back = AUX_FIFO_SIZE
  BY <1>1, AuxNumbers DEF AuxWorks, Back
<1>3. /\ aux.pc \in {"send", "receive", "settle", "busy"}
      /\ aux.op \in {"write", "writenb", "transfernb", "transfer"}
  BY DEF AuxReady, AuxAt, AuxInv, AuxShape, AuxProgramState, AuxPlaces
<1>4. CASE aux.op = "write"
  <2>1. AuxAt("send") /\ OnWay = 0
    BY <1>3, <1>4 DEF AuxRoom, AuxAt, Sound
  <2> QED BY <1>1, <1>4, <2>1, AuxNumbers DEF AuxReady
<1>5. CASE aux.op = "writenb"
  <2>1. /\ AuxAt("busy") => OnWay + Back = 1
        /\ ~AuxAt("busy") => OnWay = 0
    BY <1>5 DEF AuxInv, AuxData, Whole
  <2>2. aux.pc \in {"send", "busy"}
    BY <1>3, <1>5 DEF AuxInv, AuxPlaces
  <2> QED BY <1>1, <1>2, <1>5, <2>1, <2>2, AuxNumbers DEF AuxReady, AuxAt
<1>6. CASE aux.op \in {"transfernb", "transfer"}
  <2>1. Shifted + OnWay = Placed /\ Shifted = Taken + Back
    BY <1>6 DEF AuxInv, AuxData, Whole
  <2>2. /\ WordsOf(aux.len) \in Nat /\ WordsOf(aux.tx_len) \in Nat
        /\ WordsOf(aux.rx_len) \in Nat /\ WordsOf(0) = 0
    BY AuxNumbers, WordsOfIs
  <2>3. WordsOf(aux.rx_len) - WordsOf(aux.tx_len) = Back + OnWay
    BY <2>1, <2>2, AuxNumbers DEF Placed, Taken
  <2>4. aux.rx_len = 0 => Back = 0 /\ OnWay = 0 /\ WordsOf(aux.tx_len) = 0
    BY <2>2, <2>3, AuxNumbers
  <2>5. CASE aux.op = "transfernb"
    <3>1. /\ TX_FULL \/ aux.tx_len = 0
          /\ (RX_EMPTY /\ BUSY) \/ aux.rx_len = 0
          /\ ~(aux.tx_len = 0 /\ aux.rx_len = 0)
      BY <2>5, AuxNumbers DEF AuxReady
    <3>2. aux.rx_len # 0
      BY <1>1, <2>4, <3>1, AuxNumbers
    <3> QED BY <1>1, <1>2, <3>1, <3>2, AuxNumbers
  <2>6. CASE aux.op = "transfer"
    <3>1. AuxAt("busy") /\ BUSY
      BY <1>3, <2>6 DEF AuxReady, AuxAt, AuxInv, AuxPlaces
    <3>2. aux.len = 1 /\ aux.tx_len = 0 /\ aux.rx_len = 1
      BY <2>6, <3>1 DEF AuxInv, AuxPlaces, AuxAt
    <3>3. WordsOf(1) <= 1
      BY WordsOfIs
    <3> QED BY <1>1, <1>2, <2>2, <2>3, <3>1, <3>2, <3>3, AuxNumbers
  <2> QED BY <1>6, <2>5, <2>6
<1> QED BY <1>3, <1>4, <1>5, <1>6

BcmGoes == BcmInv /\ I2cBusy /\ SpiRoom /\ AuxRoom

LEMMA BcmGoesHolds == BcmFairSpec => []BcmGoes
<1>1. BcmInit => BcmGoes
  <2> SUFFICES ASSUME BcmInit PROVE BcmGoes
    OBVIOUS
  <2>1. I2cBusy
    BY DEF BcmInit, I2cInit, I2cBusy, Restarts
  <2>2. SpiRoom
    BY DEF BcmInit, SpiInit, SpiRoom, SpiAt
  <2>3. AuxRoom
    BY DEF BcmInit, AuxInit, AuxRoom
  <2> QED BY <2>1, <2>2, <2>3, BcmInitInv DEF BcmGoes
<1>2. BcmGoes /\ [BcmNext]_unitVars => BcmGoes'
  <2> SUFFICES ASSUME BcmGoes, [BcmNext]_unitVars PROVE BcmGoes'
    OBVIOUS
  <2>1. [I2cNext]_i2cVars /\ [SpiNext]_spiVars /\ [AuxNext]_auxVars
    BY DEF BcmNext, UseI2c, UseSpi, UseAux, UseTimer, UseClock, unitVars
  <2>2. BcmInv'
    BY BcmNextInv DEF BcmGoes
  <2> QED BY <2>1, <2>2, I2cBusyNext, SpiRoomNext, AuxRoomNext DEF BcmGoes, BcmInv
<1> QED BY <1>1, <1>2, PTL DEF BcmFairSpec, BcmSpec

(* bcm2835.c:754-934, 997-1200, 1287-1623: program and controller never    *)
(* wait for each other: while a call polls a flag that is not set, its     *)
(* controller has something to do; except for a write before a repeated    *)
(* start that does not fit the FIFO, an I2C call that found the bus at     *)
(* work, and an unsound auxiliary transfer.                                *)
(* This is what CallsReturn rests on beside fairness.                      *)
THEOREM BcmNoVainWait == BcmFairSpec => []NoVainWait
<1>1. BcmGoes => NoVainWait
  BY I2cWaitIsNotVain, SpiWaitIsNotVain, AuxWaitIsNotVain DEF BcmGoes, BcmInv, NoVainWait
<1> QED BY <1>1, BcmGoesHolds, PTL
=============================================================================
