---------------------------- MODULE SendQueueProofs ----------------------------
(***************************************************************************)
(* Theorems about SendQueue, for all frames, capacities, socket buffers    *)
(* and numbers of clients, the kernel taking any part of any send.         *)
(*                                                                         *)
(* Inv is inductive: what is in sendbuf_ is what wire lacks of handed, but *)
(* for the order of the first mixed bytes, and a new connection begins     *)
(* with exactly that; a writer is missing only for bytes that an earlier   *)
(* client left, until the first frame brings one.                          *)
(***************************************************************************)
EXTENDS SendQueue, SequenceTheorems, TLAPS

(* Behind the mixed bytes, what was sent and what waits is what was handed *)
(* over.                                                                   *)
InOrder == Pipe!Right(handed, wire \o sendbuf_, mixed)

(* WaitingIsWatched, without its premise. *)
WriterInv ==
  /\ writer => sendlen_ > 0
  /\ conn /\ sendlen_ > 0 => writer \/ Len(handed) = carried

Inv ==
  /\ TypeOK
  /\ WriterInv
  /\ Len(wire) + sendlen_ = Len(handed)
  /\ InOrder

-----------------------------------------------------------------------------
(* Sequences *)

LEMMA Cut ==
  ASSUME NEW s \in Seq(Byte), NEW n \in 0..Len(s)
  PROVE  /\ First(s, n) \in Seq(Byte) /\ Len(First(s, n)) = n
         /\ Rest(s, n) \in Seq(Byte) /\ Len(Rest(s, n)) = Len(s) - n
         /\ First(s, n) \o Rest(s, n) = s
<1> USE DEF First, Rest
<1>1. Len(s) \in Nat /\ \A i \in 1..Len(s) : s[i] \in Byte
  BY LenProperties, ElementOfSeq
<1>2. SubSeq(s, 1, n) \in Seq(Byte) /\ Len(SubSeq(s, 1, n)) = n
  <2>1. \A i \in 1..n : s[i] \in Byte
    BY <1>1
  <2> QED BY <1>1, <2>1, SubSeqProperties, SMT
<1>3. /\ SubSeq(s, n + 1, Len(s)) \in Seq(Byte)
      /\ Len(SubSeq(s, n + 1, Len(s))) = Len(s) - n
  <2>1. \A i \in n + 1 .. Len(s) : s[i] \in Byte
    BY <1>1
  <2> QED BY <1>1, <2>1, SubSeqProperties, SMT
<1>4. SubSeq(s, 1, n) \o SubSeq(s, n + 1, Len(s)) = SubSeq(s, 1, Len(s))
  <2>1. 1 \in 1 .. Len(s) + 1 /\ n \in 1 - 1 .. Len(s) /\ Len(s) \in n .. Len(s)
    BY <1>1
  <2> QED BY <2>1, ConcatAdjacentSubSeq
<1> QED BY <1>2, <1>3, <1>4, SubSeqFull

LEMMA Joined ==
  ASSUME NEW s \in Seq(Byte), NEW t \in Seq(Byte)
  PROVE  s \o t \in Seq(Byte) /\ Len(s \o t) = Len(s) + Len(t)
BY ConcatProperties

LEMMA Associative ==
  \A r, s, t \in Seq(Byte) : (r \o s) \o t = r \o (s \o t)
<1> SUFFICES ASSUME NEW r \in Seq(Byte), NEW s \in Seq(Byte), NEW t \in Seq(Byte)
             PROVE  (r \o s) \o t = r \o (s \o t)
  OBVIOUS
<1> QED BY ConcatAssociative

LEMMA Prefixed ==
  ASSUME NEW s \in Seq(Byte), NEW t \in Seq(Byte) PROVE Pipe!IsPrefix(s, s \o t)
<1>1. Len(s) \in Nat /\ Len(t) \in Nat /\ Len(s \o t) = Len(s) + Len(t)
  BY Joined, LenProperties
<1>2. SubSeq(s \o t, 1, Len(s)) = s /\ SubSeq(s, 1, Len(s)) = s
  BY SubSeqOfConcat1, SubSeqFull
<1> QED BY <1>1, <1>2 DEF Pipe!IsPrefix

LEMMA PrefixSelf == ASSUME NEW s \in Seq(Byte) PROVE Pipe!IsPrefix(s, s)
<1>1. Len(s) \in Nat
  BY LenProperties
<1> QED BY <1>1 DEF Pipe!IsPrefix

(* Right goes on from a sequence to its front, and from two sequences of a  *)
(* length to what the same bytes make of them.                             *)
LEMMA RightFront ==
  ASSUME NEW h \in Seq(Byte), NEW s \in Seq(Byte), NEW t \in Seq(Byte), NEW m \in Nat,
         Pipe!Right(h, s \o t, m)
  PROVE  Pipe!Right(h, s, m)
<1>1. Len(s) \in Nat /\ Len(t) \in Nat /\ Len(h) \in Nat
  BY LenProperties
<1>2. /\ Len(s \o t) = Len(s) + Len(t)
      /\ \A i \in 1..(Len(s) + Len(t)) :
           (s \o t)[i] = IF i <= Len(s) THEN s[i] ELSE t[i - Len(s)]
  BY ConcatProperties, Zenon
<1> QED BY <1>1, <1>2 DEF Pipe!Right

LEMMA RightBehind ==
  ASSUME NEW h \in Seq(Byte), NEW s \in Seq(Byte), NEW f \in Seq(Byte), NEW m \in Nat,
         Pipe!Right(h, s, m), Len(s) = Len(h)
  PROVE  Pipe!Right(h \o f, s \o f, m)
<1>1. Len(h) \in Nat /\ Len(f) \in Nat
  BY LenProperties
<1>2. /\ Len(s \o f) = Len(h) + Len(f)
      /\ \A i \in 1..(Len(h) + Len(f)) :
           (s \o f)[i] = IF i <= Len(h) THEN s[i] ELSE f[i - Len(h)]
  <2>1. /\ Len(s \o f) = Len(s) + Len(f)
        /\ \A i \in 1..(Len(s) + Len(f)) :
             (s \o f)[i] = IF i <= Len(s) THEN s[i] ELSE f[i - Len(s)]
    BY ConcatProperties, Zenon
  <2> QED BY <2>1, Zenon
<1>3. /\ Len(h \o f) = Len(h) + Len(f)
      /\ \A i \in 1..(Len(h) + Len(f)) :
           (h \o f)[i] = IF i <= Len(h) THEN h[i] ELSE f[i - Len(h)]
  BY ConcatProperties, Zenon
<1> QED BY <1>1, <1>2, <1>3 DEF Pipe!Right

(* What send may take. *)
LEMMA TakenType ==
  ASSUME NEW len \in Nat, NEW n \in Taken(len), socket \in 0..SockBuf
  PROVE  /\ n \in 0..len /\ socket + n \in 0..SockBuf
         /\ socket < SockBuf => len = 0 \/ n > 0
BY SendAssumption DEF Taken, Least

-----------------------------------------------------------------------------

LEMMA InitInv == Init => Inv
<1> SUFFICES ASSUME Init PROVE Inv
  OBVIOUS
<1>1. <<>> \in Seq(Byte) /\ Len(<<>>) = 0
  BY EmptySeq
<1>2. <<>> \o <<>> = <<>>
  BY <1>1, ConcatEmptySeq
<1>3. wire = <<>> /\ sendbuf_ = <<>> /\ handed = <<>> /\ mixed = 0 /\ carried = 0
  BY DEF Init
<1>4. conn \in BOOLEAN /\ writer \in BOOLEAN /\ writer = FALSE
  BY Zenon DEF Init
<1>5. TypeOK
  BY <1>1, <1>3, <1>4, SendAssumption DEF Init, TypeOK, sendlen_
<1>6. ~(sendlen_ > 0) /\ Len(wire) + sendlen_ = Len(handed)
  BY <1>1, <1>3 DEF sendlen_
<1>7. InOrder
  BY <1>1, <1>2, <1>3 DEF InOrder, Pipe!Right
<1> QED BY <1>4, <1>5, <1>6, <1>7, Zenon DEF Inv, WriterInv

(* Facts that every step starts from. *)
LEMMA Types ==
  ASSUME Inv
  PROVE  /\ sendbuf_ \in Seq(Byte) /\ wire \in Seq(Byte) /\ handed \in Seq(Byte)
         /\ sendlen_ \in Nat /\ Len(wire) \in Nat /\ Len(handed) \in Nat
         /\ capacity \in Nat /\ sendlen_ <= capacity /\ socket \in 0..SockBuf
         /\ Len(wire) + sendlen_ = Len(handed)
         /\ carried \in 0..Len(handed) /\ mixed \in 0..Len(handed) /\ mixed \in Nat
         /\ Pipe!Right(handed, wire \o sendbuf_, mixed)
<1>1. TypeOK /\ Len(wire) + sendlen_ = Len(handed) /\ InOrder
  BY Zenon DEF Inv
<1> QED BY <1>1, LenProperties DEF TypeOK, sendlen_, InOrder

(* What Enqueue does to sendbuf_, its capacity and the writer.             *)
LEMMA EnqueueInv ==
  ASSUME Inv, NEW rest \in Seq(Byte), rest # <<>>, Enqueue(rest)
  PROVE  /\ sendbuf_' \in Seq(Byte) /\ sendbuf_' = sendbuf_ \o rest
         /\ sendlen_' = sendlen_ + Len(rest) /\ sendlen_' > 0
         /\ capacity' \in Nat /\ sendlen_' <= capacity'
         /\ writer' = TRUE
<1>1. sendbuf_' = sendbuf_ \o rest /\ writer' = TRUE
  BY DEF Enqueue
<1>2. sendbuf_' \in Seq(Byte) /\ Len(sendbuf_') = sendlen_ + Len(rest)
  BY <1>1, Types, Joined DEF sendlen_
<1>3. Len(rest) \in Nat /\ Len(rest) > 0
  BY EmptySeq, LenProperties
<1>4. sendlen_ \in Nat /\ capacity \in Nat /\ sendlen_ <= capacity
  BY Types DEF Inv, TypeOK
<1>5. capacity' = IF capacity - sendlen_ < Len(rest) THEN capacity + Len(rest) ELSE capacity
  BY DEF Enqueue
<1>6. capacity' \in Nat /\ sendlen_ + Len(rest) <= capacity'
  BY <1>3, <1>4, <1>5
<1> QED BY <1>1, <1>2, <1>3, <1>4, <1>6 DEF sendlen_

LEMMA ConnectInv == ASSUME Inv, Connect PROVE Inv' /\ Pipe!Reconnect
<1>1. /\ handed' = sendbuf_ /\ carried' = sendlen_ /\ wire' = <<>> /\ mixed' = 0
      /\ UNCHANGED <<sendbuf_, capacity, writer, process>>
  BY DEF Connect
<1>2. <<>> \in Seq(Byte) /\ Len(<<>>) = 0
  BY EmptySeq
<1>3. sendlen_' = sendlen_ /\ Len(handed') = sendlen_
  BY <1>1 DEF sendlen_
<1>4. wire' \o sendbuf_' = sendbuf_
  BY <1>1, Types, ConcatEmptySeq
<1>5. TypeOK'
  <2>1. conn' \in BOOLEAN /\ writer' \in BOOLEAN
    BY Zenon DEF Connect, Inv, TypeOK
  <2>2. peer' = "open" /\ socket' \in 0..SockBuf /\ clients' \in 0..MaxClients
    BY SendAssumption DEF Connect, Inv, TypeOK
  <2>3. carried' \in 0..Len(handed') /\ mixed' \in 0..Len(handed')
    BY <1>1, <1>3, Types
  <2> QED BY <1>1, <1>2, <1>3, <2>1, <2>2, <2>3, Types DEF Connect, Inv, TypeOK
<1>6. Len(wire') + sendlen_' = Len(handed')
  BY <1>1, <1>2, <1>3, Types
<1>7. InOrder'
  <2>1. Pipe!Right(sendbuf_, sendbuf_, 0)
    BY Types DEF Pipe!Right, sendlen_
  <2> QED BY <1>1, <1>4, <2>1 DEF InOrder
<1>8. WriterInv'
  BY <1>1, <1>3, Zenon DEF Inv, WriterInv
<1>9. Pipe!Reconnect
  <2>1. Len(handed') = Len(handed) - Len(wire)
    BY <1>3, Types
  <2>2. /\ Len(wire \o sendbuf_) = Len(wire) + sendlen_
        /\ \A i \in 1..(Len(wire) + sendlen_) :
             (wire \o sendbuf_)[i]
               = IF i <= Len(wire) THEN wire[i] ELSE sendbuf_[i - Len(wire)]
    BY Types, ConcatProperties, Zenon DEF sendlen_
  <2>3. /\ sendlen_ \in Nat /\ Len(wire) \in Nat /\ mixed \in Nat
        /\ Len(wire) + sendlen_ = Len(handed)
    BY Types
  <2>4. \A j \in (mixed + 1)..(Len(wire) + sendlen_) : (wire \o sendbuf_)[j] = handed[j]
    BY <2>2, Types DEF Pipe!Right
  <2>5. ASSUME NEW i \in 1..sendlen_, Len(wire) + i > mixed
        PROVE  sendbuf_[i] = handed[Len(wire) + i]
    <3>1. /\ Len(wire) + i \in (mixed + 1)..(Len(wire) + sendlen_)
          /\ Len(wire) + i \in 1..(Len(wire) + sendlen_)
          /\ ~(Len(wire) + i <= Len(wire)) /\ (Len(wire) + i) - Len(wire) = i
      BY <2>3, <2>5
    <3>2. (wire \o sendbuf_)[Len(wire) + i] = sendbuf_[(Len(wire) + i) - Len(wire)]
      BY <2>2, <3>1, Zenon
    <3> QED BY <2>4, <3>1, <3>2, Zenon
  <2> QED BY <1>1, <1>3, <2>1, <2>5 DEF Pipe!Reconnect
<1> QED BY <1>5, <1>6, <1>7, <1>8, <1>9, Zenon DEF Inv

(* The steps that touch neither the queue nor the history. *)
LEMMA QuietInv ==
  ASSUME Inv,
         \/ ClientReads \/ ClientGoes \/ SendFails \/ SendKilled \/ WriteKilled
         \/ on_read
  PROVE  Inv' /\ UNCHANGED history
<1>1. UNCHANGED <<sendbuf_, capacity, handed, carried, wire, mixed, clients>>
  BY DEF ClientReads, ClientGoes, SendFails, SendKilled, WriteKilled, Killed, on_read, history
<1>2. conn' \in BOOLEAN /\ writer' \in BOOLEAN /\ (conn' => conn) /\ (writer' => writer)
  <2>1. conn \in BOOLEAN /\ writer \in BOOLEAN
    BY Zenon DEF Inv, TypeOK
  <2>2. CASE ClientReads \/ ClientGoes \/ SendKilled \/ WriteKilled
    <3>1. conn' = conn /\ writer' = writer
      BY <2>2 DEF ClientReads, ClientGoes, SendKilled, WriteKilled, Killed
    <3> QED BY <2>1, <3>1, Zenon
  <2>3. CASE SendFails
    <3>1. conn' = FALSE /\ writer' = writer
      BY <2>3 DEF SendFails
    <3> QED BY <2>1, <3>1, Zenon
  <2>4. CASE on_read
    <3>1. conn' = FALSE /\ writer' \in {writer, FALSE}
      BY <2>4 DEF on_read
    <3>2. CASE writer' = writer
      BY <2>1, <3>1, <3>2, Zenon
    <3>3. CASE writer' = FALSE
      BY <3>1, <3>3, Zenon
    <3>4. writer' = writer \/ writer' = FALSE
      BY <3>1
    <3> QED BY <3>2, <3>3, <3>4, Zenon
  <2> QED BY <2>2, <2>3, <2>4
<1>3. /\ peer' \in {"open", "closed", "reset"}
      /\ process' \in {"running", "killed", "overrun"}
  BY DEF ClientReads, ClientGoes, SendFails, SendKilled, WriteKilled, Killed, on_read, Inv, TypeOK
<1>4. socket' \in 0..SockBuf /\ frames' \in 0..MaxFrames
  <2>1. CASE SendFails
    BY <2>1, SendAssumption DEF SendFails, Counted, Inv, TypeOK
  <2>2. CASE ClientReads
    BY <2>2, SendAssumption DEF ClientReads, Inv, TypeOK
  <2>3. CASE ClientGoes \/ SendKilled \/ WriteKilled \/ on_read
    BY <2>3 DEF ClientGoes, SendKilled, WriteKilled, Killed, on_read, Inv, TypeOK
  <2> QED BY <2>1, <2>2, <2>3
<1>5. TypeOK'
  BY <1>1, <1>2, <1>3, <1>4 DEF Inv, TypeOK, sendlen_
<1>6. WriterInv'
  <2>1. sendlen_' = sendlen_ /\ Len(handed') = Len(handed) /\ carried' = carried
    BY <1>1 DEF sendlen_
  <2>2. WriterInv
    BY Zenon DEF Inv
  <2>3. CASE conn' /\ writer' = writer
    BY <1>2, <2>1, <2>2, <2>3, Zenon DEF WriterInv
  <2>4. CASE ~conn'
    BY <1>2, <2>1, <2>2, <2>4, Zenon DEF WriterInv
  <2>5. conn' => writer' = writer
    BY DEF ClientReads, ClientGoes, SendFails, SendKilled, WriteKilled, Killed, on_read
  <2> QED BY <2>3, <2>4, <2>5, Zenon
<1> QED BY <1>1, <1>5, <1>6, Zenon DEF Inv, InOrder, sendlen_, history

-----------------------------------------------------------------------------
(* server_context_send *)

LEMMA SendDirectInv ==
  ASSUME Inv, NEW f \in Frame, SendDirect(f) PROVE Inv' /\ Pipe!Pass
<1>0. PICK n \in Taken(Len(f)) :
      /\ wire' = wire \o First(f, n) /\ socket' = socket + n
      /\ \/ n = Len(f) /\ UNCHANGED <<sendbuf_, capacity, writer>>
         \/ n < Len(f) /\ Enqueue(Rest(f, n))
  BY DEF SendDirect
<1>1. f \in Seq(Byte) /\ Len(f) \in Nat
  BY SendAssumption, LenProperties
<1>2. n \in 0..Len(f) /\ socket + n \in 0..SockBuf
  BY <1>1, Types, TakenType
<1>3. /\ First(f, n) \in Seq(Byte) /\ Len(First(f, n)) = n
      /\ Rest(f, n) \in Seq(Byte) /\ Len(Rest(f, n)) = Len(f) - n
      /\ First(f, n) \o Rest(f, n) = f
  BY <1>1, <1>2, Cut
<1>4. sendlen_ = 0 /\ sendbuf_ = <<>>
  BY Types, EmptySeq DEF SendDirect, sendlen_
<1>5. handed' = handed \o f /\ mixed' = mixed /\ carried' = carried
  BY DEF SendDirect
<1>6. /\ sendbuf_' \in Seq(Byte) /\ sendbuf_' = Rest(f, n)
      /\ sendlen_' = Len(f) - n
      /\ capacity' \in Nat /\ sendlen_' <= capacity'
      /\ writer' \in BOOLEAN
  <2>1. CASE n = Len(f) /\ UNCHANGED <<sendbuf_, capacity, writer>>
    <3>1. Rest(f, n) = <<>>
      BY <1>1, <1>3, <2>1, EmptySeq
    <3> QED BY <1>1, <1>4, <2>1, <3>1, Types DEF Inv, TypeOK, sendlen_
  <2>2. CASE n < Len(f) /\ Enqueue(Rest(f, n))
    <3>1. Rest(f, n) # <<>>
      BY <1>1, <1>2, <1>3, <2>2, EmptySeq
    <3>2. /\ sendbuf_' \in Seq(Byte) /\ sendbuf_' = sendbuf_ \o Rest(f, n)
          /\ sendlen_' = sendlen_ + Len(Rest(f, n))
          /\ capacity' \in Nat /\ sendlen_' <= capacity'
          /\ writer' = TRUE
      BY <1>3, <2>2, <3>1, EnqueueInv
    <3>3. sendbuf_ \o Rest(f, n) = Rest(f, n)
      BY <1>3, <1>4, ConcatEmptySeq
    <3> QED BY <1>1, <1>2, <1>3, <1>4, <3>2, <3>3
  <2> QED BY <1>0, <2>1, <2>2
<1>7. WriterInv'
  <2>1. CASE n = Len(f) /\ UNCHANGED <<sendbuf_, capacity, writer>>
    <3>1. ~(sendlen_ > 0) /\ ~(sendlen_' > 0)
      BY <1>1, <1>4, <1>6, <2>1
    <3> QED BY <2>1, <3>1, Zenon DEF Inv, WriterInv
  <2>2. CASE n < Len(f) /\ Enqueue(Rest(f, n))
    <3>1. sendlen_' > 0
      BY <1>1, <1>2, <1>6, <2>2
    <3> QED BY <2>2, <3>1, Zenon DEF Enqueue, WriterInv
  <2> QED BY <1>0, <2>1, <2>2
<1>8. /\ wire' \in Seq(Byte) /\ Len(wire') = Len(wire) + n
      /\ handed' \in Seq(Byte) /\ Len(handed') = Len(handed) + Len(f)
  <2>1. wire' \in Seq(Byte) /\ Len(wire') = Len(wire) + Len(First(f, n))
    BY <1>0, <1>3, Types, Joined, Zenon
  <2>2. handed' \in Seq(Byte) /\ Len(handed') = Len(handed) + Len(f)
    BY <1>1, <1>5, Types, Joined, Zenon
  <2> QED BY <1>3, <2>1, <2>2, Zenon
<1>9. Len(wire') + sendlen_' = Len(handed')
  <2>1. /\ Len(wire') = Len(wire) + n /\ sendlen_' = Len(f) - n
        /\ Len(handed') = Len(handed) + Len(f) /\ Len(handed) = Len(wire)
    BY <1>4, <1>6, <1>8, Types
  <2> QED BY <1>1, <1>2, <2>1, Types
<1>10. Pipe!Right(handed', wire' \o sendbuf_', mixed')
  <2>1. wire \o sendbuf_ = wire /\ Len(wire) = Len(handed)
    BY <1>4, Types, ConcatEmptySeq
  <2>2. Pipe!Right(handed \o f, wire \o f, mixed)
    BY <1>1, <2>1, Types, RightBehind
  <2>3. (wire \o First(f, n)) \o Rest(f, n) = wire \o (First(f, n) \o Rest(f, n))
    BY <1>3, Types, Associative, Zenon
  <2> QED BY <1>0, <1>3, <1>5, <1>6, <2>2, <2>3, Zenon
<1>11. TypeOK'
  <2>1. conn' \in BOOLEAN
    BY Zenon DEF SendDirect, Inv, TypeOK
  <2>2. frames' \in 0..MaxFrames
    BY SendAssumption DEF SendDirect, Counted, Inv, TypeOK
  <2>3. carried' \in 0..Len(handed') /\ mixed' \in 0..Len(handed')
    BY <1>1, <1>5, <1>8, Types
  <2> QED BY <1>0, <1>2, <1>6, <1>8, <2>1, <2>2, <2>3 DEF SendDirect, Inv, TypeOK
<1>12. Pipe!Pass
  <2>1. Pipe!IsPrefix(handed, handed') /\ Pipe!IsPrefix(wire, wire')
    BY <1>0, <1>1, <1>3, <1>5, Types, Prefixed, Zenon
  <2>2. Pipe!Right(handed', wire', mixed)
    BY <1>5, <1>6, <1>8, <1>10, Types, RightFront, Zenon
  <2> QED BY <1>5, <2>1, <2>2 DEF Pipe!Pass
<1> QED BY <1>7, <1>9, <1>10, <1>11, <1>12, Zenon DEF Inv, InOrder

LEMMA SendBehindInv ==
  ASSUME Inv, NEW f \in Frame, SendBehind(f) PROVE Inv' /\ Pipe!Pass
<1>1. f \in Seq(Byte) /\ f # <<>> /\ Len(f) \in Nat
  BY SendAssumption, LenProperties
<1>2. /\ Enqueue(f) /\ handed' = handed \o f /\ wire' = wire
      /\ mixed' = mixed /\ carried' = carried
  BY DEF SendBehind
<1>3. /\ sendbuf_' \in Seq(Byte) /\ sendbuf_' = sendbuf_ \o f
      /\ sendlen_' = sendlen_ + Len(f) /\ sendlen_' > 0
      /\ capacity' \in Nat /\ sendlen_' <= capacity'
      /\ writer' = TRUE
  BY <1>1, <1>2, EnqueueInv
<1>4. handed' \in Seq(Byte) /\ Len(handed') = Len(handed) + Len(f)
  BY <1>1, <1>2, Types, Joined, Zenon
<1>5. Len(wire') + sendlen_' = Len(handed')
  <2>1. Len(wire') = Len(wire)
    BY <1>2, Zenon
  <2>2. sendlen_' = sendlen_ + Len(f)
    BY <1>3, Zenon
  <2>3. Len(f) \in Nat /\ Len(handed') = Len(handed) + Len(f)
    BY <1>1, <1>4, Zenon
  <2>4. sendlen_ \in Nat /\ Len(wire) \in Nat /\ Len(wire) + sendlen_ = Len(handed)
    BY Types, Zenon
  <2> QED BY <2>1, <2>2, <2>3, <2>4
<1>6. Pipe!Right(handed', wire' \o sendbuf_', mixed')
  <2>1. (wire \o sendbuf_) \o f = wire \o (sendbuf_ \o f)
    BY <1>1, Types, Associative, Zenon
  <2>2. /\ wire \o sendbuf_ \in Seq(Byte)
        /\ Len(wire \o sendbuf_) = Len(handed)
    <3>1. wire \o sendbuf_ \in Seq(Byte) /\ Len(wire \o sendbuf_) = Len(wire) + sendlen_
      BY Types, Joined DEF sendlen_
    <3> QED BY <3>1, Types
  <2>3. Pipe!Right(handed \o f, (wire \o sendbuf_) \o f, mixed)
    BY <1>1, <2>2, Types, RightBehind, Zenon
  <2> QED BY <1>2, <1>3, <2>1, <2>3, Zenon
<1>7. TypeOK'
  <2>1. conn' \in BOOLEAN /\ writer' \in BOOLEAN
    BY <1>3, Zenon DEF SendBehind, Inv, TypeOK
  <2>2. frames' \in 0..MaxFrames
    BY SendAssumption DEF SendBehind, Counted, Inv, TypeOK
  <2>3. carried' \in 0..Len(handed') /\ mixed' \in 0..Len(handed')
    BY <1>1, <1>2, <1>4, Types
  <2> QED BY <1>2, <1>3, <1>4, <2>1, <2>2, <2>3 DEF SendBehind, Inv, TypeOK
<1>8. Pipe!Pass
  <2>1. Pipe!IsPrefix(handed, handed') /\ Pipe!IsPrefix(wire, wire')
    BY <1>1, <1>2, Types, Prefixed, PrefixSelf
  <2>2. Pipe!Right(handed', wire', mixed)
    <3>1. wire' \in Seq(Byte)
      BY <1>2, Types, Zenon
    <3> QED BY <1>2, <1>3, <1>4, <1>6, <3>1, Types, RightFront, Zenon
  <2> QED BY <1>2, <2>1, <2>2 DEF Pipe!Pass
<1>9. WriterInv'
  BY <1>3, Zenon DEF WriterInv
<1> QED BY <1>5, <1>6, <1>7, <1>8, <1>9, Zenon DEF Inv, InOrder

-----------------------------------------------------------------------------
(* sctx__on_write *)

(* What a flush of n bytes does to wire. *)
LEMMA FlushWire ==
  ASSUME Inv, NEW n \in 0..sendlen_, wire' = wire \o First(sendbuf_, n)
  PROVE  /\ wire' \in Seq(Byte) /\ Len(wire') = Len(wire) + n
         /\ Pipe!IsPrefix(wire, wire')
         /\ Pipe!Right(handed, wire', mixed)
<1>1. /\ First(sendbuf_, n) \in Seq(Byte) /\ Len(First(sendbuf_, n)) = n
      /\ Rest(sendbuf_, n) \in Seq(Byte)
      /\ First(sendbuf_, n) \o Rest(sendbuf_, n) = sendbuf_
  BY Types, Cut DEF sendlen_
<1>2. wire' \in Seq(Byte) /\ Len(wire') = Len(wire) + n
  <2>1. wire' \in Seq(Byte) /\ Len(wire') = Len(wire) + Len(First(sendbuf_, n))
    BY <1>1, Types, Joined, Zenon
  <2> QED BY <1>1, <2>1, Zenon
<1>3. Pipe!IsPrefix(wire, wire')
  BY <1>1, Types, Prefixed
<1>4. wire' \o Rest(sendbuf_, n) = wire \o sendbuf_
  <2>1. (wire \o First(sendbuf_, n)) \o Rest(sendbuf_, n)
          = wire \o (First(sendbuf_, n) \o Rest(sendbuf_, n))
    BY <1>1, Types, Associative, Zenon
  <2> QED BY <1>1, <2>1, Zenon
<1>5. Pipe!Right(handed, wire', mixed)
  <2>1. Pipe!Right(handed, wire' \o Rest(sendbuf_, n), mixed)
    BY <1>4, Types, Zenon
  <2> QED BY <1>1, <1>2, <2>1, Types, RightFront, Zenon
<1> QED BY <1>2, <1>3, <1>5, Zenon

LEMMA FlushAllInv == ASSUME Inv, FlushAll PROVE Inv' /\ Pipe!Pass
<1>1. /\ sendlen_ \in Taken(sendlen_)
      /\ wire' = wire \o sendbuf_ /\ socket' = socket + sendlen_
      /\ sendbuf_' = <<>> /\ writer' = FALSE
      /\ handed' = handed /\ mixed' = mixed /\ carried' = carried /\ capacity' = capacity
  BY DEF FlushAll
<1>2. First(sendbuf_, sendlen_) = sendbuf_
  BY Types, SubSeqFull DEF First, sendlen_
<1>3. /\ wire' \in Seq(Byte) /\ Len(wire') = Len(wire) + sendlen_
      /\ Pipe!IsPrefix(wire, wire')
      /\ Pipe!Right(handed, wire', mixed)
  <2>1. sendlen_ \in 0..sendlen_
    BY Types
  <2> QED BY <1>1, <1>2, <2>1, FlushWire, Zenon
<1>4. sendbuf_' \in Seq(Byte) /\ sendlen_' = 0
  BY <1>1, EmptySeq DEF sendlen_
<1>5. Len(wire') + sendlen_' = Len(handed')
  <2>1. Len(wire') = Len(wire) + sendlen_ /\ sendlen_' = 0 /\ Len(handed') = Len(handed)
    BY <1>1, <1>3, <1>4, Zenon
  <2>2. sendlen_ \in Nat /\ Len(wire) \in Nat /\ Len(wire) + sendlen_ = Len(handed)
    BY Types, Zenon
  <2> QED BY <2>1, <2>2, SMT
<1>6. Pipe!Right(handed', wire' \o sendbuf_', mixed')
  BY <1>1, <1>3, ConcatEmptySeq
<1>7. TypeOK'
  <2>1. conn' \in BOOLEAN /\ writer' \in BOOLEAN
    BY <1>1, Zenon DEF FlushAll, Inv, TypeOK
  <2>2. socket' \in 0..SockBuf
    BY <1>1, Types, TakenType
  <2> QED BY <1>1, <1>3, <1>4, <2>1, <2>2, Types DEF FlushAll, Inv, TypeOK
<1>8. Pipe!Pass
  <2>1. Pipe!IsPrefix(handed, handed')
    BY <1>1, Types, PrefixSelf
  <2> QED BY <1>1, <1>3, <2>1 DEF Pipe!Pass
<1>9. WriterInv'
  <2>1. ~(sendlen_' > 0)
    BY <1>4
  <2> QED BY <1>1, <2>1, Zenon DEF WriterInv
<1> QED BY <1>1, <1>5, <1>6, <1>7, <1>8, <1>9, Zenon DEF Inv, InOrder

LEMMA FlushPartInv == ASSUME Inv, FlushPart PROVE Inv' /\ Pipe!Split
<1>0. PICK n \in Taken(sendlen_) \ {sendlen_} :
      /\ wire' = wire \o First(sendbuf_, n) /\ socket' = socket + n
      /\ sendbuf_' = First(sendbuf_, sendlen_ - n)
      /\ process' = IF sendlen_ + (sendlen_ - n) > capacity THEN "overrun" ELSE process
  BY DEF FlushPart
<1>1. n \in 0..sendlen_ /\ socket + n \in 0..SockBuf /\ n < sendlen_ /\ n > 0
  <2>1. writer /\ socket < SockBuf
    BY DEF FlushPart, Writeable
  <2>2. sendlen_ > 0
    BY <2>1, Zenon DEF Inv, WriterInv
  <2> QED BY <2>1, <2>2, Types, TakenType
<1>2. /\ wire' \in Seq(Byte) /\ Len(wire') = Len(wire) + n
      /\ Pipe!IsPrefix(wire, wire')
      /\ Pipe!Right(handed, wire', mixed)
  BY <1>0, <1>1, FlushWire, Zenon
<1>3. sendbuf_' \in Seq(Byte) /\ sendlen_' = sendlen_ - n
  <2>1. sendlen_ - n \in 0..sendlen_
    BY <1>1, Types
  <2> QED BY <1>0, <2>1, Types, Cut, Zenon DEF sendlen_
<1>4. /\ mixed' = Len(handed) /\ carried' = carried
      /\ writer' = writer /\ handed' = handed /\ capacity' = capacity
  BY DEF FlushPart
<1>5. Len(wire') + sendlen_' = Len(handed')
  <2>1. Len(handed') = Len(handed)
    BY <1>4, Zenon
  <2>2. Len(wire') = Len(wire) + n /\ sendlen_' = sendlen_ - n /\ n \in 0..sendlen_
    BY <1>1, <1>2, <1>3, Zenon
  <2>3. sendlen_ \in Nat /\ Len(wire) \in Nat /\ Len(wire) + sendlen_ = Len(handed)
    BY Types, Zenon
  <2> QED BY <2>1, <2>2, <2>3, SMT
<1>6. TypeOK'
  <2>1. conn' \in BOOLEAN /\ writer' \in BOOLEAN
    BY <1>4, Zenon DEF FlushPart, Inv, TypeOK
  <2>2. sendlen_' <= capacity'
    BY <1>1, <1>3, <1>4, Types DEF Inv, TypeOK
  <2>3. process' \in {"running", "killed", "overrun"}
    BY <1>0 DEF Inv, TypeOK
  <2>4. handed' \in Seq(Byte) /\ carried' \in 0..Len(handed') /\ mixed' \in 0..Len(handed')
    BY <1>4, Types
  <2> QED BY <1>0, <1>1, <1>2, <1>3, <1>4, <2>1, <2>2, <2>3, <2>4
       DEF FlushPart, Inv, TypeOK
<1>7. WriterInv'
  <2>1. sendlen_' > 0
    BY <1>1, <1>3, Types
  <2>2. writer
    BY DEF FlushPart, Writeable
  <2>3. writer'
    BY <1>4, <2>2, Zenon
  <2> QED BY <2>1, <2>3, Zenon DEF WriterInv
<1>9. Pipe!Right(handed', wire' \o sendbuf_', mixed')
  <2>1. Len(wire' \o sendbuf_') = Len(handed')
    BY <1>2, <1>3, <1>5, Joined DEF sendlen_
  <2> QED BY <1>4, <2>1, Types DEF Pipe!Right
<1>8. Pipe!Split
  <2>1. Len(wire) < Len(wire') /\ Len(wire') < Len(handed)
    <3>1. /\ Len(wire') = Len(wire) + n /\ n \in 0..sendlen_ /\ n < sendlen_ /\ n > 0
          /\ sendlen_ \in Nat /\ Len(wire) \in Nat /\ Len(wire) + sendlen_ = Len(handed)
      BY <1>1, <1>2, Types, Zenon
    <3> QED BY <3>1, SMT
  <2> QED BY <1>2, <1>4, <2>1 DEF Pipe!Split
<1> QED BY <1>5, <1>6, <1>7, <1>8, <1>9, Zenon DEF Inv, InOrder

-----------------------------------------------------------------------------

(* Every step keeps the invariant, and is a step of the pipe or none.      *)
LEMMA Step == ASSUME Inv, [Next]_vars PROVE Inv' /\ [Pipe!Next]_(Pipe!pipe)
<1>1. CASE Connect
  BY <1>1, ConnectInv DEF Pipe!Next
<1>2. CASE \E f \in Frame : SendDirect(f) \/ SendBehind(f)
  BY <1>2, SendDirectInv, SendBehindInv DEF Pipe!Next
<1>3. CASE FlushAll
  BY <1>3, FlushAllInv DEF Pipe!Next
<1>4. CASE FlushPart
  BY <1>4, FlushPartInv DEF Pipe!Next
<1>5. CASE ClientReads \/ ClientGoes \/ SendFails \/ SendKilled \/ WriteKilled \/ on_read
  BY <1>5, QuietInv DEF history, Pipe!pipe
<1>6. CASE UNCHANGED vars
  <2>1. UNCHANGED <<conn, peer, sendbuf_, capacity, writer, socket, process, handed,
                    carried, wire, mixed, frames, clients>>
    BY <1>6 DEF vars, history
  <2> QED BY <2>1, Zenon DEF Inv, TypeOK, WriterInv, InOrder, sendlen_, Pipe!pipe
<1> QED BY <1>1, <1>2, <1>3, <1>4, <1>5, <1>6 DEF Next, on_write

LEMMA SpecInv == Spec => []Inv
<1>1. Inv /\ [Next]_vars => Inv'
  BY Step
<1> QED BY <1>1, InitInv, PTL DEF Spec

(* server.c:206-211: sendlen_ stays within the capacity of sendbuf_.       *)
THEOREM SendTypeOK == Spec => []TypeOK
<1>1. Inv => TypeOK
  BY DEF Inv
<1> QED BY <1>1, SpecInv, PTL

(* server.c:103-106, 211-215: a writer is registered only while bytes wait *)
(* and, from the first frame on, while they do.                            *)
THEOREM SendWaitingIsWatched == Spec => []WaitingIsWatched
<1>1. Inv => WaitingIsWatched
  BY Zenon DEF Inv, WriterInv, WaitingIsWatched, Inherited
<1> QED BY <1>1, SpecInv, PTL

(* server.c:91-113, 180-218: every byte handed over is sent or waits, or   *)
(* another one in its place.                                               *)
THEOREM SendEveryByteCounted == Spec => []EveryByteCounted
<1>1. Inv => EveryByteCounted
  BY DEF Inv, EveryByteCounted
<1> QED BY <1>1, SpecInv, PTL

(* server.c:91-113, 180-218: the send side of the server is a byte pipe,   *)
(* in order but for what was handed over before a flush was split.         *)
THEOREM SendImplementsPipe == Spec => ImplementsPipe
<1>1. Init => Pipe!Init
  BY DEF Init, Pipe!Init
<1>2. Inv /\ [Next]_vars => [Pipe!Next]_(Pipe!pipe)
  BY Step
<1> QED BY <1>1, <1>2, SpecInv, PTL DEF Spec, ImplementsPipe, Pipe!Spec

-----------------------------------------------------------------------------
(* Draining: what Flushed rests on beside fairness.                        *)

(* Bytes wait for a client that is there and reads, not only what an       *)
(* earlier one left.                                                       *)
Waiting ==
  process = "running" /\ conn /\ peer = "open" /\ sendlen_ > 0 /\ ~Inherited

(* What they wait for can come: there is room, and then a writer to use it *)
(* and a number of bytes that a send may take, or there are bytes for the  *)
(* client to read.                                                         *)
CanDrain ==
  Waiting =>
    \/ Writeable /\ (\E n \in Taken(sendlen_) : n \in 1..sendlen_)
    \/ ~Writeable /\ socket > 0

(* A frame was taken, or the wait is over, or fewer bytes wait, or as many *)
(* with more room in the kernel.                                           *)
DrainNearer ==
  \/ frames < frames' /\ frames' <= MaxFrames
  \/ ~Waiting'
  \/ sendlen_' < sendlen_
  \/ sendlen_' = sendlen_ /\ socket' < socket

LEMMA CanDrainInv == ASSUME Inv PROVE CanDrain
<1> SUFFICES ASSUME Waiting
             PROVE  \/ Writeable /\ (\E n \in Taken(sendlen_) : n \in 1..sendlen_)
                    \/ ~Writeable /\ socket > 0
  BY DEF CanDrain
<1>1. writer
  BY Zenon DEF Waiting, Inherited, Inv, WriterInv
<1>2. sendlen_ \in Nat /\ sendlen_ > 0 /\ socket \in 0..SockBuf
  BY Types DEF Waiting
<1>3. CASE socket < SockBuf
  <2>1. Writeable
    BY <1>1, <1>3, Zenon DEF Waiting, Writeable
  <2>2. Taken(sendlen_) = 1..Least(sendlen_, SockBuf - socket)
    BY <1>2, <1>3, SendAssumption DEF Waiting, Taken
  <2>3. 1 \in Taken(sendlen_) /\ 1 \in 1..sendlen_
    BY <1>2, <1>3, <2>2, SendAssumption DEF Least
  <2> QED BY <2>1, <2>3
<1>4. CASE socket = SockBuf
  <2>1. ~(socket < SockBuf) /\ socket > 0
    BY <1>4, SendAssumption
  <2> QED BY <2>1 DEF Writeable
<1> QED BY <1>2, <1>3, <1>4, SendAssumption

LEMMA DrainStep == ASSUME Inv, Waiting, [Next]_vars PROVE DrainNearer \/ UNCHANGED vars
<1>1. CASE Connect
  BY <1>1, Zenon DEF Connect, Waiting
<1>2. CASE ClientReads
  <2>1. sendlen_' = sendlen_ /\ socket' < socket
    BY <1>2, Types DEF ClientReads, sendlen_
  <2> QED BY <2>1, Zenon DEF DrainNearer
<1>3. CASE ClientGoes
  <2>1. ~Waiting'
    BY <1>3 DEF ClientGoes, Waiting
  <2> QED BY <2>1, Zenon DEF DrainNearer
<1>4. CASE \E f \in Frame : SendDirect(f) \/ SendBehind(f)
  <2>1. frames < frames' /\ frames' <= MaxFrames
    BY <1>4, SendAssumption DEF SendDirect, SendBehind, Counted, Inv, TypeOK
  <2> QED BY <2>1, Zenon DEF DrainNearer
<1>5. CASE SendFails \/ SendKilled \/ WriteKilled
  BY <1>5 DEF SendFails, SendKilled, WriteKilled, Killed, Waiting
<1>6. CASE FlushAll
  <2>1. sendlen_' = 0 /\ sendlen_ > 0
    BY <1>6, EmptySeq DEF FlushAll, Waiting, sendlen_
  <2> QED BY <2>1 DEF DrainNearer
<1>7. CASE FlushPart
  <2>0. PICK n \in Taken(sendlen_) \ {sendlen_} :
          sendbuf_' = First(sendbuf_, sendlen_ - n)
    BY <1>7 DEF FlushPart
  <2>1. sendlen_ > 0 /\ socket < SockBuf
    BY <1>7 DEF Waiting, FlushPart, Writeable
  <2>2. n \in 1..sendlen_ /\ sendlen_ - n \in 0..sendlen_
    BY <2>1, Types, TakenType
  <2>3. sendlen_' = sendlen_ - n
    BY <2>0, <2>2, Types, Cut, Zenon DEF sendlen_
  <2>4. sendlen_' < sendlen_
    BY <2>2, <2>3, Types
  <2> QED BY <2>4, Zenon DEF DrainNearer
<1>8. CASE on_read
  <2>1. ~conn'
    BY <1>8 DEF on_read
  <2> QED BY <2>1, Zenon DEF Waiting, DrainNearer
<1> QED BY <1>1, <1>2, <1>3, <1>4, <1>5, <1>6, <1>7, <1>8, Zenon DEF Next, on_write

(* server.c:97-106, 180-218: bytes that wait for a client that reads never *)
(* wait in vain, and each step brings the end of the wait nearer, but for  *)
(* the frames that are taken meanwhile.                                    *)
THEOREM SendDrains == Spec => []CanDrain /\ [][Waiting => DrainNearer]_vars
<1>1. Inv => CanDrain
  BY CanDrainInv
<1>2. Inv /\ [Next]_vars => [Waiting => DrainNearer]_vars
  BY DrainStep
<1> QED BY <1>1, <1>2, SpecInv, PTL DEF Spec
=============================================================================
