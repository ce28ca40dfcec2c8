--------------------------- MODULE ServerRecvProofs ---------------------------
(***************************************************************************)
(* Theorems about how bytes come in.                                       *)
(*                                                                         *)
(* About ServerRecv, for every set of byte values, every header length,    *)
(* every limit and every buffer that RecvAssumption admits, and for every  *)
(* stream cut into recv calls in every way.  Inv is inductive:             *)
(* StreamPreserved needs to know that recvbuf_ is what is left unparsed    *)
(* whenever the parsing loop is not running, and ClosedForCause and the    *)
(* bounds in TypeOK need NothingLeftBehind, which keeps recvbuf_ shorter   *)
(* than one largest package and so leaves room for at least one byte in    *)
(* every recv.                                                             *)
(*                                                                         *)
(* About ByteStream, the streams of iobyte.c, for all widths, lengths and  *)
(* capacities of StreamAssumption.  StreamInv says that the buffer is the  *)
(* items written, laid one behind the other, and that the reader stands    *)
(* between two of them.                                                    *)
(***************************************************************************)
EXTENDS ServerRecv, ByteStream, SequenceTheorems, TLAPS

(* sctx__on_read only runs for an accepted connection. *)
RunsConnected == pc # "idle" => connected

Inv ==
  /\ TypeOK
  /\ RunsConnected
  /\ StreamPreserved
  /\ WholePackages
  /\ NothingLeftBehind

-----------------------------------------------------------------------------

(* body_len_ of at least a header of bytes is a natural number. *)
LEMMA BodyLenType ==
  ASSUME NEW b \in Seq(Byte), ~Short(b)
  PROVE  /\ BodyLen(b) \in Nat
         /\ package_len(b) \in Nat
         /\ package_len(b) >= PACKAGE_HEAD_LEN
<1> USE RecvAssumption
<1>1. Len(b) \in Nat /\ Len(b) >= PACKAGE_HEAD_LEN
  BY DEF Short
<1>2. \A i \in 1..PACKAGE_HEAD_LEN : b[i] \in Byte
  BY <1>1, ElementOfSeq
<1>3. /\ Header(b) \in Seq(Byte)
      /\ Len(Header(b)) = PACKAGE_HEAD_LEN
  BY <1>2, SubSeqProperties, SMT DEF Header
<1>4. Header(b) \in [1..PACKAGE_HEAD_LEN -> Byte]
  BY <1>3, LenProperties
<1>5. BodyLen(b) \in Nat
  BY <1>4 DEF BodyLen
<1> QED
  BY <1>5 DEF package_len

(* What is kept between calls is shorter than one largest package. *)
LEMMA IncompleteIsShort ==
  ASSUME NEW b \in Seq(Byte), Incomplete(b)
  PROVE  Len(b) < PACKAGE_HEAD_LEN + SCTX_MAX_PKG_BODY_LEN
<1>1. CASE Short(b)
  BY <1>1, RecvAssumption, LenProperties DEF Short
<1>2. CASE ~Short(b)
  BY <1>2, RecvAssumption, BodyLenType, LenProperties DEF Incomplete, Oversize
<1> QED BY <1>1, <1>2

(* Cutting a sequence in two loses nothing. *)
LEMMA CutInTwo ==
  ASSUME NEW S, NEW s \in Seq(S), NEW n \in 0..Len(s)
  PROVE  /\ SubSeq(s, 1, n) \in Seq(S)
         /\ Len(SubSeq(s, 1, n)) = n
         /\ SubSeq(s, n + 1, Len(s)) \in Seq(S)
         /\ Len(SubSeq(s, n + 1, Len(s))) = Len(s) - n
         /\ SubSeq(s, 1, n) \o SubSeq(s, n + 1, Len(s)) = s
<1>1. Len(s) \in Nat /\ \A i \in 1..Len(s) : s[i] \in S
  BY LenProperties, ElementOfSeq
<1>2. SubSeq(s, 1, n) \in Seq(S) /\ Len(SubSeq(s, 1, n)) = n
  <2>1. \A i \in 1..n : s[i] \in S
    BY <1>1
  <2> QED BY <1>1, <2>1, SubSeqProperties, SMT
<1>3. /\ SubSeq(s, n + 1, Len(s)) \in Seq(S)
      /\ Len(SubSeq(s, n + 1, Len(s))) = Len(s) - n
  <2>1. \A i \in n + 1 .. Len(s) : s[i] \in S
    BY <1>1
  <2> QED BY <1>1, <2>1, SubSeqProperties, SMT
<1>4. SubSeq(s, 1, n) \o SubSeq(s, n + 1, Len(s)) = SubSeq(s, 1, Len(s))
  <2>1. 1 \in 1 .. Len(s) + 1 /\ n \in 1 - 1 .. Len(s) /\ Len(s) \in n .. Len(s)
    BY <1>1
  <2> QED BY <2>1, ConcatAdjacentSubSeq
<1> QED BY <1>2, <1>3, <1>4, SubSeqFull

LEMMA Associative ==
  \A r, s, t \in Seq(Byte) : (r \o s) \o t = r \o (s \o t)
<1> SUFFICES ASSUME NEW r \in Seq(Byte), NEW s \in Seq(Byte), NEW t \in Seq(Byte)
             PROVE  (r \o s) \o t = r \o (s \o t)
  OBVIOUS
<1> QED BY ConcatAssociative

(* A package cut from the buffer has the header of the buffer. *)
LEMMA FirstPackage ==
  ASSUME NEW b \in Seq(Byte), ~Short(b), package_len(b) <= Len(b)
  PROVE  BodyLen(SubSeq(b, 1, package_len(b))) = BodyLen(b)
<1> DEFINE n == package_len(b)
<1>1. n \in Nat /\ n >= PACKAGE_HEAD_LEN /\ PACKAGE_HEAD_LEN \in Nat \ {0}
  BY BodyLenType, RecvAssumption
<1>2. 1 \in 1..Len(b) /\ n \in 1..Len(b) /\ Len(b) \in Nat
  BY <1>1, LenProperties
<1>3. 1 \in 1..n /\ PACKAGE_HEAD_LEN \in 1..n
  BY <1>1
<1>4. SubSeq(SubSeq(b, 1, n), 1, PACKAGE_HEAD_LEN) = SubSeq(b, 1, PACKAGE_HEAD_LEN)
  <2> HIDE DEF n
  <2>1. 1 \in 1 .. n - 1 + 1 /\ PACKAGE_HEAD_LEN \in 1 .. n - 1 + 1
    BY <1>1, <1>3
  <2>2. SubSeq(SubSeq(b, 1, n), 1, PACKAGE_HEAD_LEN)
          = SubSeq(b, 1 + 1 - 1, 1 + PACKAGE_HEAD_LEN - 1)
    BY <1>2, <2>1, SubSeqOfSubSeq
  <2>3. 1 + 1 - 1 = 1 /\ 1 + PACKAGE_HEAD_LEN - 1 = PACKAGE_HEAD_LEN
    BY <1>1
  <2> QED BY <2>2, <2>3
<1> QED
  BY <1>4 DEF BodyLen, Header

-----------------------------------------------------------------------------

LEMMA InitInv == Init => Inv
<1> SUFFICES ASSUME Init PROVE Inv
  OBVIOUS
<1> USE RecvAssumption DEF Init
<1>1. TypeOK
  <2>1. <<>> \in Seq(Byte) /\ <<>> \in Seq(Seq(Byte)) /\ Len(<<>>) = 0
    BY EmptySeq
  <2>2. Len(recvbuf_) <= SCTX_RECVBUF_CAPACITY /\ Len(buf) <= SCTX_RECVBUF_CAPACITY
    BY <2>1
  <2>3. sent \in 0..MaxBytes
    OBVIOUS
  <2>4. /\ recvbuf_ \in Seq(Byte) /\ buf \in Seq(Byte) /\ inbound \in Seq(Byte)
        /\ seen \in Seq(Byte) /\ parsed \in Seq(Byte) /\ delivered \in Seq(Seq(Byte))
    BY <2>1, Zenon
  <2> QED BY <2>2, <2>3, <2>4 DEF TypeOK
<1>2. RunsConnected /\ StreamPreserved /\ WholePackages
  BY DEF RunsConnected, StreamPreserved, WholePackages
<1>3. NothingLeftBehind
  BY DEF NothingLeftBehind, Incomplete, Short
<1> QED BY <1>1, <1>2, <1>3 DEF Inv

(* The actions that touch neither the buffers nor the histories. *)
LEMMA SendsInv == ASSUME Inv, NEW b \in Byte, ClientSends(b) PROVE Inv'
<1>1. TypeOK'
  <2>1. Append(inbound, b) \in Seq(Byte)
    BY DEF Inv, TypeOK
  <2> QED
    BY <2>1, RecvAssumption DEF Inv, TypeOK, ClientSends, code, history
<1> QED
  BY <1>1 DEF Inv, ClientSends, code, history, RunsConnected, StreamPreserved,
     Unparsed, WholePackages, NothingLeftBehind

LEMMA EndsInv ==
  ASSUME Inv, NEW how \in {"fin", "rst"}, ClientEnds(how) PROVE Inv'
BY DEF Inv, TypeOK, ClientEnds, code, history, RunsConnected, StreamPreserved,
   Unparsed, WholePackages, NothingLeftBehind

LEMMA AcceptInv == ASSUME Inv, Accept PROVE Inv'
<1>1. pc = "idle"
  BY DEF Inv, RunsConnected, Accept
<1>2. TypeOK'
  BY EmptySeq DEF Inv, TypeOK, Accept
<1>3. StreamPreserved'
  <2>1. Unparsed' = recvbuf_ /\ parsed' = <<>> /\ seen' = recvbuf_
    BY <1>1 DEF Accept, Unparsed
  <2>2. <<>> \o recvbuf_ = recvbuf_
    BY ConcatEmptySeq DEF Inv, TypeOK
  <2> QED BY <2>1, <2>2 DEF StreamPreserved
<1>4. (RunsConnected /\ WholePackages /\ NothingLeftBehind)'
  BY <1>1 DEF Inv, Accept, RunsConnected, WholePackages, NothingLeftBehind
<1> QED BY <1>2, <1>3, <1>4 DEF Inv

LEMMA OnReadInv == ASSUME Inv, OnRead PROVE Inv'
BY DEF Inv, TypeOK, OnRead, world, history, RunsConnected, StreamPreserved,
   Unparsed, WholePackages, NothingLeftBehind

-----------------------------------------------------------------------------

(* A connection that closes leaves recvbuf_ as it was. *)
LEMMA CloseInv == ASSUME Inv, CloseConnection PROVE Inv'
<1>1. TypeOK'
  <2>1. <<>> \in Seq(Byte) /\ Len(<<>>) = 0
    BY EmptySeq
  <2>2. Len(buf') <= SCTX_RECVBUF_CAPACITY
    BY <2>1, RecvAssumption DEF CloseConnection
  <2>3. buf' \in Seq(Byte) /\ inbound' \in Seq(Byte)
    BY <2>1, Zenon DEF CloseConnection
  <2> QED
    BY <2>2, <2>3 DEF Inv, TypeOK, CloseConnection, history
<1> QED
  BY <1>1 DEF Inv, CloseConnection, history, RunsConnected, StreamPreserved,
     WholePackages, NothingLeftBehind

LEMMA QuietInv ==
  ASSUME Inv, RecvWouldBlock \/ RecvError PROVE Inv'
BY DEF Inv, TypeOK, RecvWouldBlock, RecvError, world, history, RunsConnected,
   StreamPreserved, Unparsed, WholePackages, NothingLeftBehind

LEMMA RecvBytesInv == ASSUME Inv, RecvBytes PROVE Inv'
<1> DEFINE n == Min2(Len(inbound), Room)
           chunk == SubSeq(inbound, 1, n)
           rest == SubSeq(inbound, n + 1, Len(inbound))
<1>1. /\ inbound \in Seq(Byte) /\ recvbuf_ \in Seq(Byte)
      /\ seen \in Seq(Byte) /\ parsed \in Seq(Byte)
  BY DEF Inv, TypeOK
<1>2. Len(inbound) \in Nat /\ Len(recvbuf_) \in Nat
  BY <1>1, LenProperties
<1>3. n \in 0..Len(inbound) /\ n <= SCTX_RECVBUF_CAPACITY - Len(recvbuf_)
  BY <1>2, RecvAssumption DEF RecvBytes, Min2, Room
<1>4. chunk \in Seq(Byte) /\ Len(chunk) = n /\ rest \in Seq(Byte)
  BY <1>1, <1>3, CutInTwo
<1>5. buf' = recvbuf_ \o chunk /\ inbound' = rest /\ seen' = seen \o chunk
  BY DEF RecvBytes
<1> HIDE DEF n, chunk, rest
<1>6. buf' \in Seq(Byte) /\ Len(buf') = Len(recvbuf_) + n
  BY <1>1, <1>4, <1>5, ConcatProperties
<1>7. seen' \in Seq(Byte)
  BY <1>1, <1>4, <1>5, ConcatProperties
<1>8. TypeOK'
  <2>1. Len(buf') <= SCTX_RECVBUF_CAPACITY
    BY <1>2, <1>3, <1>6, RecvAssumption
  <2>2. inbound' \in Seq(Byte)
    BY <1>4, <1>5
  <2>3. /\ pc' = "parse"
        /\ UNCHANGED <<connected, recvbuf_, peer, sent, parsed, delivered>>
    BY DEF RecvBytes
  <2> QED BY <1>6, <1>7, <2>1, <2>2, <2>3 DEF Inv, TypeOK
<1>9. StreamPreserved'
  <2>1. connected /\ parsed \o recvbuf_ = seen
    BY DEF Inv, StreamPreserved, Unparsed, RunsConnected, RecvBytes
  <2>2. (parsed \o recvbuf_) \o chunk = parsed \o (recvbuf_ \o chunk)
    BY <1>1, <1>4, Associative, Zenon
  <2>3. Unparsed' = buf' /\ parsed' = parsed
    BY DEF RecvBytes, Unparsed
  <2> QED BY <1>5, <2>1, <2>2, <2>3 DEF StreamPreserved
<1>10. (RunsConnected /\ WholePackages /\ NothingLeftBehind)'
  BY DEF Inv, RecvBytes, RunsConnected, WholePackages, NothingLeftBehind
<1> QED BY <1>8, <1>9, <1>10 DEF Inv

LEMMA KeepInv == ASSUME Inv, KeepShort \/ KeepPartial PROVE Inv'
<1>1. /\ pc = "parse" /\ recvbuf_' = buf /\ buf' = <<>>
      /\ pc' \in {"idle", "read"} /\ UNCHANGED <<connected, world, history>>
  BY DEF KeepShort, KeepPartial
<1>2. TypeOK'
  BY <1>1, EmptySeq, RecvAssumption DEF Inv, TypeOK, world, history
<1>3. NothingLeftBehind'
  <2>1. Incomplete(buf)
    BY DEF KeepShort, KeepPartial, Incomplete, package_len
  <2> QED BY <1>1, <2>1 DEF NothingLeftBehind
<1>4. (RunsConnected /\ StreamPreserved /\ WholePackages)'
  BY <1>1 DEF Inv, history, RunsConnected, StreamPreserved, Unparsed, WholePackages
<1> QED BY <1>2, <1>3, <1>4 DEF Inv

LEMMA DeliverInv == ASSUME Inv, Deliver PROVE Inv'
<1> DEFINE n == package_len(buf)
           pkg == SubSeq(buf, 1, n)
           rest == SubSeq(buf, n + 1, Len(buf))
<1>1. buf \in Seq(Byte) /\ parsed \in Seq(Byte) /\ delivered \in Seq(Seq(Byte))
  BY DEF Inv, TypeOK
<1>2. ~Short(buf) /\ ~Oversize(buf) /\ n <= Len(buf) /\ pc = "parse"
  BY DEF Deliver
<1>3. /\ BodyLen(buf) \in Nat /\ n \in Nat /\ Len(buf) \in Nat
      /\ n = PACKAGE_HEAD_LEN + BodyLen(buf) /\ n >= PACKAGE_HEAD_LEN
  BY <1>1, <1>2, BodyLenType, LenProperties DEF package_len
<1>4. n \in 0..Len(buf)
  BY <1>2, <1>3
<1>5. BodyLen(pkg) = BodyLen(buf)
  BY <1>1, <1>2, FirstPackage
<1>6. BodyLen(buf) <= SCTX_MAX_PKG_BODY_LEN
  BY <1>2, <1>3, RecvAssumption DEF Oversize
<1>7. /\ delivered' = Append(delivered, pkg)
      /\ parsed' = parsed \o pkg
      /\ buf' = rest
      /\ UNCHANGED <<connected, recvbuf_, pc, world, seen>>
  BY DEF Deliver
<1> HIDE DEF n, pkg
<1>8. /\ pkg \in Seq(Byte) /\ Len(pkg) = n
      /\ rest \in Seq(Byte) /\ Len(rest) = Len(buf) - n
      /\ pkg \o rest = buf
  BY <1>1, <1>4, CutInTwo DEF pkg
<1> HIDE DEF rest
<1>9. parsed' \in Seq(Byte)
  BY <1>1, <1>7, <1>8, ConcatProperties
<1>10. TypeOK'
  BY <1>1, <1>3, <1>7, <1>8, <1>9, RecvAssumption DEF Inv, TypeOK, world
<1>11. StreamPreserved'
  <2>1. connected => parsed \o buf = seen
    BY <1>2 DEF Inv, StreamPreserved, Unparsed
  <2>2. (parsed \o pkg) \o rest = parsed \o (pkg \o rest)
    BY <1>1, <1>8, Associative, Zenon
  <2>3. Unparsed' = rest
    BY <1>2, <1>7 DEF Unparsed
  <2> QED BY <1>7, <1>8, <2>1, <2>2, <2>3 DEF StreamPreserved
<1>12. WholePackages'
  <2>1. WholePackage(pkg)
    BY <1>3, <1>5, <1>6, <1>8, RecvAssumption DEF WholePackage
  <2>2. ASSUME NEW k \in 1..Len(delivered') PROVE WholePackage(delivered'[k])
    <3>1. CASE k \in 1..Len(delivered)
      <4>1. delivered'[k] = delivered[k]
        BY <1>1, <1>7, <1>8, <3>1
      <4>2. WholePackage(delivered[k])
        BY <3>1 DEF Inv, WholePackages
      <4> QED BY <4>1, <4>2
    <3>2. CASE k = Len(delivered) + 1
      BY <1>1, <1>7, <1>8, <2>1, <3>2
    <3> QED BY <1>1, <1>7, <1>8, <3>1, <3>2, <2>2
  <2> QED BY <2>2 DEF WholePackages, WholePackage, BodyLen, Header
<1>13. (RunsConnected /\ NothingLeftBehind)'
  BY <1>7 DEF Inv, RunsConnected, NothingLeftBehind
<1> QED BY <1>10, <1>11, <1>12, <1>13 DEF Inv

-----------------------------------------------------------------------------

LEMMA NextInv == Inv /\ [Next]_vars => Inv'
<1> SUFFICES ASSUME Inv, [Next]_vars PROVE Inv'
  OBVIOUS
<1>1. CASE \E b \in Byte : ClientSends(b)
  BY <1>1, SendsInv
<1>2. CASE \E how \in {"fin", "rst"} : ClientEnds(how)
  BY <1>2, EndsInv
<1>3. CASE Accept
  BY <1>3, AcceptInv
<1>4. CASE OnRead
  BY <1>4, OnReadInv
<1>5. CASE on_read
  <2>1. CASE RecvBytes
    BY <2>1, RecvBytesInv
  <2>2. CASE RecvCloses \/ RejectOversize
    BY <2>2, CloseInv DEF RecvCloses, RejectOversize
  <2>3. CASE RecvWouldBlock \/ RecvError
    BY <2>3, QuietInv
  <2>4. CASE KeepShort \/ KeepPartial
    BY <2>4, KeepInv
  <2>5. CASE Deliver
    BY <2>5, DeliverInv
  <2> QED BY <1>5, <2>1, <2>2, <2>3, <2>4, <2>5 DEF on_read
<1>6. CASE UNCHANGED vars
  BY <1>6 DEF vars, code, world, history, Inv, TypeOK, RunsConnected,
     StreamPreserved, Unparsed, WholePackages, NothingLeftBehind
<1> QED BY <1>1, <1>2, <1>3, <1>4, <1>5, <1>6 DEF Next

LEMMA SpecInv == Spec => []Inv
BY InitInv, NextInv, PTL DEF Spec

(* server.c:37-80: the variables keep their types, and sctx__on_read never *)
(* writes or parses past the end of recvbuf_.                              *)
THEOREM RecvTypeOK == Spec => []TypeOK
<1>1. Inv => TypeOK
  BY DEF Inv
<1> QED BY <1>1, SpecInv, PTL

(* server.c:54-80: for every way of cutting the stream into recv calls, no *)
(* byte of it is lost, duplicated or reordered.                            *)
THEOREM RecvStreamPreserved == Spec => []StreamPreserved
<1>1. Inv => StreamPreserved
  BY DEF Inv
<1> QED BY <1>1, SpecInv, PTL

(* server.c:67-77: package_cb_ is only given whole packages within the     *)
(* limit.                                                                  *)
THEOREM RecvWholePackages == Spec => []WholePackages
<1>1. Inv => WholePackages
  BY DEF Inv
<1> QED BY <1>1, SpecInv, PTL

(* server.c:56-75: no whole package stays in recvbuf_ between calls.       *)
THEOREM RecvNothingLeftBehind == Spec => []NothingLeftBehind
<1>1. Inv => NothingLeftBehind
  BY DEF Inv
<1> QED BY <1>1, SpecInv, PTL

(* server.c:54-80: package_cb_ is only given whole packages within the     *)
(* limit, and no whole package stays in recvbuf_ between calls.            *)
THEOREM RecvFramed == Spec => []Framed
<1>1. Inv => Framed
  BY DEF Inv, Framed
<1> QED BY <1>1, SpecInv, PTL

(* server.c:38-52, 67: a connection is closed only because its peer ended  *)
(* it or announced a body over the limit, never because the buffer is full.*)
THEOREM RecvClosedForCause == Spec => ClosedForCause
<1> DEFINE Cause == \/ peer # "open" /\ inbound = <<>>
                    \/ /\ pc = "parse" /\ ~Short(buf)
                       /\ BodyLen(buf) > SCTX_MAX_PKG_BODY_LEN
<1>1. Inv /\ [Next]_vars => [connected /\ ~connected' => Cause]_vars
  <2> SUFFICES ASSUME Inv, Next, connected, ~connected' PROVE Cause
    BY DEF vars
  <2>1. RecvCloses \/ RejectOversize
    BY DEF Next, ClientSends, ClientEnds, Accept, OnRead, on_read, RecvBytes,
       RecvWouldBlock, RecvError, KeepShort, KeepPartial, Deliver, code
  <2>2. CASE RecvCloses
    <3>1. Room > 0
      BY IncompleteIsShort, LenProperties, RecvAssumption
      DEF Inv, TypeOK, NothingLeftBehind, Room
    <3> QED BY <2>2, <3>1, RecvAssumption DEF RecvCloses
  <2>3. CASE RejectOversize
    BY <2>3 DEF RejectOversize, Oversize
  <2> QED BY <2>1, <2>2, <2>3
<1> QED BY <1>1, SpecInv, PTL DEF ClosedForCause, Spec

(* The pieces of the ideal parser are those of what is not yet parsed.     *)
LEMMA PieceBehind ==
  ASSUME NEW p \in Seq(Byte), NEW u \in Seq(Byte)
  PROVE  /\ Len(p \o u) - Len(p) = Len(u)
         /\ \A n \in 1..Len(u) : SubSeq(p \o u, Len(p) + 1, Len(p) + n) = SubSeq(u, 1, n)
<1> DEFINE l == Len(p)
           k == Len(u)
<1>1. l \in Nat /\ k \in Nat /\ Len(p \o u) = l + k
  BY ConcatProperties
<1>2. ASSUME NEW n \in 1..k PROVE SubSeq(p \o u, l + 1, l + n) = SubSeq(u, 1, n)
  <2>1. l + 1 \in l + 1 .. l + k /\ l + n \in l + 1 .. l + k
        /\ (l + 1) - l = 1 /\ (l + n) - l = n
    BY <1>1
  <2>2. SubSeq(p \o u, l + 1, l + n) = SubSeq(u, (l + 1) - l, (l + n) - l)
    BY <2>1, SubSeqOfConcat2
  <2> QED BY <2>1, <2>2
<1> HIDE DEF l, k
<1>3. Len(p \o u) - l = k
  BY <1>1
<1> QED BY <1>2, <1>3 DEF l, k

(* An incomplete package does not begin with a whole one.                  *)
LEMMA NoneInIncomplete ==
  ASSUME NEW r \in Seq(Byte), Incomplete(r), NEW n \in 1..Len(r)
  PROVE  SubSeq(r, 1, n) \notin Package
<1> DEFINE p == SubSeq(r, 1, n)
<1>1. SUFFICES ASSUME WholePackage(p) PROVE FALSE
  BY DEF Package
<1>2. Len(r) \in Nat /\ n \in 0..Len(r)
  BY LenProperties
<1>3. p \in Seq(Byte) /\ Len(p) = n
  BY <1>2, CutInTwo
<1>4. n >= PACKAGE_HEAD_LEN /\ PACKAGE_HEAD_LEN \in Nat \ {0}
  BY <1>1, <1>3, RecvAssumption DEF WholePackage
<1>5. ~Short(r) /\ ~Short(p)
  BY <1>2, <1>3, <1>4 DEF Short
<1>6. BodyLen(p) = BodyLen(r)
  <2>1. 1 \in 1..Len(r) /\ n \in 1..Len(r)
    BY <1>2
  <2>2. 1 \in 1 .. n - 1 + 1 /\ PACKAGE_HEAD_LEN \in 1 .. n - 1 + 1
        /\ 1 + 1 - 1 = 1 /\ 1 + PACKAGE_HEAD_LEN - 1 = PACKAGE_HEAD_LEN
    BY <1>2, <1>4
  <2>3. SubSeq(p, 1, PACKAGE_HEAD_LEN) = SubSeq(r, 1 + 1 - 1, 1 + PACKAGE_HEAD_LEN - 1)
    BY <2>1, <2>2, SubSeqOfSubSeq
  <2> QED BY <2>2, <2>3 DEF BodyLen, Header
<1> HIDE DEF p
<1>7. BodyLen(r) \in Nat /\ n = PACKAGE_HEAD_LEN + BodyLen(r) /\ BodyLen(r) <= SCTX_MAX_PKG_BODY_LEN
  BY <1>1, <1>3, <1>5, <1>6, BodyLenType DEF WholePackage
<1>8. ~Oversize(r)
  BY <1>7, RecvAssumption DEF Oversize
<1>9. PACKAGE_HEAD_LEN + BodyLen(r) > Len(r)
  BY <1>5, <1>8 DEF Incomplete
<1> QED BY <1>2, <1>4, <1>7, <1>9

(* What is received extends what was.                                      *)
LEMMA Prefixed ==
  ASSUME NEW s \in Seq(Byte), NEW t \in Seq(Byte) PROVE Ideal!IsPrefix(s, s \o t)
<1>1. Len(s) \in Nat /\ Len(t) \in Nat /\ Len(s \o t) = Len(s) + Len(t)
  BY ConcatProperties, LenProperties
<1>2. SubSeq(s \o t, 1, Len(s)) = s /\ SubSeq(s, 1, Len(s)) = s
  BY SubSeqOfConcat1, SubSeqFull
<1> QED BY <1>1, <1>2 DEF Ideal!IsPrefix

(* recv is asked for more only when no whole package is left.             *)
LEMMA IdealReceive == ASSUME Inv, RecvBytes PROVE Ideal!Receive
<1> DEFINE chunk == SubSeq(inbound, 1, Min2(Len(inbound), Room))
<1>1. /\ connected /\ recvbuf_ \in Seq(Byte) /\ parsed \in Seq(Byte) /\ seen \in Seq(Byte)
      /\ Incomplete(recvbuf_) /\ parsed \o recvbuf_ = seen
  BY DEF Inv, TypeOK, RecvBytes, RunsConnected, NothingLeftBehind, StreamPreserved, Unparsed
<1>2. Ideal!NoneIsWhole
  <2>1. /\ Len(seen) - Len(parsed) = Len(recvbuf_)
        /\ \A n \in 1..Len(recvbuf_) :
             SubSeq(seen, Len(parsed) + 1, Len(parsed) + n) = SubSeq(recvbuf_, 1, n)
    BY <1>1, PieceBehind
  <2>2. \A n \in 1..Len(recvbuf_) : SubSeq(recvbuf_, 1, n) \notin Package
    BY <1>1, NoneInIncomplete
  <2> QED BY <2>1, <2>2 DEF Ideal!NoneIsWhole, Ideal!Lengths, Ideal!Piece
<1>3. Ideal!IsPrefix(seen, seen')
  <2>1. seen' = seen \o chunk /\ chunk \in Seq(Byte)
    <3>1. inbound \in Seq(Byte) /\ inbound # <<>> /\ Room > 0
      BY DEF Inv, TypeOK, RecvBytes
    <3>2. Min2(Len(inbound), Room) \in 0..Len(inbound)
      BY <1>1, <3>1, LenProperties, RecvAssumption DEF Min2, Room
    <3>3. chunk \in Seq(Byte)
      BY <3>1, <3>2, CutInTwo
    <3> QED BY <3>3 DEF RecvBytes
  <2> HIDE DEF chunk
  <2>2. Ideal!IsPrefix(seen, seen \o chunk)
    BY <1>1, <2>1, Prefixed
  <2> QED BY <2>1, <2>2
<1>4. UNCHANGED <<parsed, delivered>>
  BY DEF RecvBytes
<1> QED BY <1>2, <1>3, <1>4 DEF Ideal!Receive

(* What package_cb_ gets is the whole package that stands first.          *)
LEMMA IdealDeliver == ASSUME Inv, Deliver PROVE Ideal!Deliver
<1> DEFINE n == package_len(buf)
           pkg == SubSeq(buf, 1, n)
<1>1. /\ buf \in Seq(Byte) /\ parsed \in Seq(Byte) /\ ~Short(buf) /\ ~Oversize(buf)
      /\ n <= Len(buf) /\ connected /\ parsed \o buf = seen
  BY DEF Inv, TypeOK, Deliver, RunsConnected, StreamPreserved, Unparsed
<1>2. n \in 1..Len(buf) /\ Len(buf) \in Nat /\ BodyLen(buf) \in Nat
      /\ n = PACKAGE_HEAD_LEN + BodyLen(buf) /\ n >= PACKAGE_HEAD_LEN
  BY <1>1, BodyLenType, LenProperties, RecvAssumption DEF package_len
<1>3. BodyLen(pkg) = BodyLen(buf)
  BY <1>1, FirstPackage
<1>4. delivered' = Append(delivered, pkg) /\ parsed' = parsed \o pkg /\ seen' = seen
  BY DEF Deliver
<1> HIDE DEF n
<1>5. pkg \in Seq(Byte) /\ Len(pkg) = n
  <2>1. n \in 0..Len(buf)
    BY <1>2
  <2> QED BY <1>1, <2>1, CutInTwo
<1>6. pkg \in Package
  <2>1. BodyLen(buf) <= SCTX_MAX_PKG_BODY_LEN
    BY <1>1, <1>2, RecvAssumption DEF Oversize
  <2>2. WholePackage(pkg)
    BY <1>2, <1>3, <1>5, <2>1 DEF WholePackage
  <2> QED BY <1>5, <2>2 DEF Package
<1>7. /\ Len(seen) - Len(parsed) = Len(buf)
      /\ SubSeq(seen, Len(parsed) + 1, Len(parsed) + n) = pkg
  BY <1>1, <1>2, PieceBehind
<1> HIDE DEF pkg
<1>8. Len(parsed') = Len(parsed) + n
  BY <1>1, <1>4, <1>5, ConcatProperties
<1>9. n \in Ideal!Lengths /\ Ideal!Piece(n) = pkg
  BY <1>2, <1>7 DEF Ideal!Lengths, Ideal!Piece
<1> QED BY <1>4, <1>6, <1>8, <1>9 DEF Ideal!Deliver

(* A connection starts with what the last one kept, never a whole package.*)
LEMMA IdealConnect == ASSUME Inv, Accept PROVE Ideal!Connect
<1>1. seen' = recvbuf_ /\ parsed' = <<>> /\ delivered' = <<>>
  BY DEF Accept
<1>2. recvbuf_ \in Seq(Byte) /\ Incomplete(recvbuf_) /\ Len(parsed') = 0
  BY <1>1, EmptySeq DEF Inv, TypeOK, NothingLeftBehind
<1>3. ASSUME NEW n \in 1 .. Len(seen') - Len(parsed')
      PROVE  SubSeq(seen', Len(parsed') + 1, Len(parsed') + n) \notin Package
  <2>1. n \in 1..Len(recvbuf_) /\ 0 + 1 = 1 /\ 0 + n = n
    BY <1>1, <1>2, LenProperties
  <2> QED BY <1>1, <1>2, <2>1, NoneInIncomplete
<1>4. Ideal!NoneIsWhole'
  BY <1>3 DEF Ideal!NoneIsWhole, Ideal!Lengths, Ideal!Piece, Package, WholePackage, BodyLen, Header
<1> QED BY <1>1, <1>2, <1>4 DEF Ideal!Connect

(* server.c:36-80: recv calls of any size, kept bytes, the goto and the    *)
(* while loop together are the parser of PackageStream: the packages of a  *)
(* connection depend on its bytes and on nothing else.                     *)
THEOREM RecvImplementsPackageStream == Spec => ImplementsPackageStream
<1>1. Init => Ideal!Init
  BY EmptySeq DEF Init, Ideal!Init
<1>2. Inv /\ [Next]_vars => [Ideal!Next]_<<seen, Len(parsed), delivered>>
  <2> SUFFICES ASSUME Inv, [Next]_vars
               PROVE  Ideal!Next \/ UNCHANGED <<seen, Len(parsed), delivered>>
    OBVIOUS
  <2>1. CASE RecvBytes
    BY <2>1, IdealReceive DEF Ideal!Next
  <2>2. CASE Deliver
    BY <2>2, IdealDeliver DEF Ideal!Next
  <2>3. CASE Accept
    BY <2>3, IdealConnect DEF Ideal!Next
  <2>4. CASE UNCHANGED history
    BY <2>4 DEF history
  <2>5. RecvBytes \/ Deliver \/ Accept \/ UNCHANGED history
    BY DEF Next, on_read, vars, history, ClientSends, ClientEnds, OnRead, RecvCloses,
       CloseConnection, RecvWouldBlock, RecvError, KeepShort, RejectOversize, KeepPartial
  <2> QED BY <2>1, <2>2, <2>3, <2>4, <2>5
<1> QED BY <1>1, <1>2, SpecInv, PTL DEF Spec, ImplementsPackageStream, Ideal!Spec

(* Every step of the callback brings its return nearer: it returns, or the *)
(* kernel has fewer bytes for it, or it leaves the inner loop, or there it *)
(* has fewer bytes to parse.                                               *)
Nearer ==
  \/ pc' = "idle"
  \/ Len(inbound') < Len(inbound)
  \/ inbound' = inbound /\ pc = "parse" /\ (pc' = "read" \/ Len(buf') < Len(buf))

(* server.c:36-80: neither the goto read nor the while loop goes round     *)
(* without taking bytes, so a call of sctx__on_read ends unless the client *)
(* sends for ever.  This is the measure on which Drained rests.            *)
THEOREM RecvCallEnds == Spec => [][on_read => Nearer]_vars
<1>1. Inv /\ [Next]_vars => [on_read => Nearer]_vars
  <2> SUFFICES ASSUME Inv, on_read PROVE Nearer
    OBVIOUS
  <2>1. CASE RecvBytes
    <3> DEFINE n == Min2(Len(inbound), Room)
               rest == SubSeq(inbound, n + 1, Len(inbound))
    <3>1. inbound \in Seq(Byte) /\ recvbuf_ \in Seq(Byte) /\ inbound # <<>> /\ Room > 0
      BY <2>1 DEF Inv, TypeOK, RecvBytes
    <3>2. Len(inbound) \in Nat \ {0} /\ Room \in Int
      BY <3>1, EmptySeq, LenProperties, RecvAssumption DEF Room
    <3>3. n \in 0..Len(inbound) /\ n > 0
      BY <3>1, <3>2 DEF Min2
    <3>4. inbound' = rest
      BY <2>1 DEF RecvBytes
    <3> HIDE DEF n
    <3>5. Len(rest) = Len(inbound) - n
      BY <3>1, <3>3, CutInTwo
    <3> HIDE DEF rest
    <3>6. Len(inbound') < Len(inbound)
      BY <3>2, <3>3, <3>4, <3>5
    <3> QED BY <3>6 DEF Nearer
  <2>2. CASE Deliver
    <3> DEFINE n == package_len(buf)
               rest == SubSeq(buf, n + 1, Len(buf))
    <3>1. buf \in Seq(Byte) /\ ~Short(buf) /\ n <= Len(buf) /\ pc = "parse" /\ inbound' = inbound
      BY <2>2 DEF Inv, TypeOK, Deliver, world
    <3>2. n \in 1..Len(buf) /\ Len(buf) \in Nat
      BY <3>1, BodyLenType, LenProperties, RecvAssumption
    <3>3. buf' = rest
      BY <2>2 DEF Deliver
    <3> HIDE DEF n
    <3>4. Len(rest) = Len(buf) - n
      BY <3>1, <3>2, CutInTwo
    <3> HIDE DEF rest
    <3>5. Len(buf') < Len(buf)
      BY <3>2, <3>3, <3>4
    <3> QED BY <3>1, <3>5 DEF Nearer
  <2>3. CASE KeepPartial
    BY <2>3 DEF KeepPartial, Nearer, world
  <2>4. CASE RecvCloses \/ RejectOversize \/ RecvWouldBlock \/ RecvError \/ KeepShort
    BY <2>4 DEF RecvCloses, RejectOversize, RecvWouldBlock, RecvError, KeepShort,
       CloseConnection, Nearer
  <2> QED BY <2>1, <2>2, <2>3, <2>4 DEF on_read
<1> QED BY <1>1, SpecInv, PTL DEF Spec

-----------------------------------------------------------------------------
(* The byte streams, through which package_proc reads what was delivered.  *)

Octet == 0..(B - 1)
Stream ==
  [buffer : Seq(Octet), capacity : 0..(U32 - 1), auto_extend : BOOLEAN, frees : 0..2]

(* The bytes of item, its length in front, stand between two positions.    *)
Encoded(item, buffer, from, to) ==
  /\ to <= Len(buffer)
  /\ to = from + Len(Prefix(item)) + Len(item.bytes)
  /\ SubSeq(buffer, from + 1, from + Len(Prefix(item))) = Prefix(item)
  /\ SubSeq(buffer, from + Len(Prefix(item)) + 1, to) = item.bytes

(* The buffer is the items, one after the other; pos[i] is where the i-th  *)
(* ends.                                                                   *)
Laid(pos, items, buffer) ==
  /\ pos \in [0..Len(items) -> Nat]
  /\ pos[0] = 0 /\ pos[Len(items)] = Len(buffer)
  /\ \A i \in 1..Len(items) : Encoded(items[i], buffer, pos[i - 1], pos[i])

SignsClear == \A i \in 1..Len(written) : SignClear(written[i])

(* The reader stands at the end of an item, and has read all before it.    *)
AtItem(pos) ==
  /\ mode \in {"write", "read"}
  /\ Len(got) <= Len(written) /\ ibs = pos[Len(got)]
  /\ \A i \in 1..Len(got) : got[i] = written[i]

Got == [type : {"int", "sstr", "lstr", "none"}, bytes : Seq(Octet)]
StreamTypes ==
  /\ obs \in Stream
  /\ ibs \in Nat
  /\ written \in Seq(Item) /\ writes \in Nat /\ Len(written) <= writes /\ writes <= MaxItems
  /\ torn \in BOOLEAN
  /\ got \in Seq(Got)
  /\ mode \in {"write", "read"} \cup Ended

(* The invariant of the byte streams.  Where each item begins depends on   *)
(* all the lengths before it, so the positions are a function that exists. *)
StreamInv ==
  /\ StreamTypes
  /\ mode # "overrun" => ~Overruns(obs)
  /\ mode = "write" => ~FreedTwice(obs)
  /\ OverrunOnlyWhenShort /\ FreedOnlyWhenEmpty
  /\ mode \in {"write", "overrun", "corrupted"} => got = <<>> /\ ibs = 0
  /\ ~torn /\ mode \notin {"overrun", "corrupted"} =>
       \E pos \in [0..Len(written) -> Nat] :
          Laid(pos, written, obs.buffer) /\ (SignsClear => AtItem(pos))

-----------------------------------------------------------------------------
(* The two bytes of a length are bytes, and give the length back.          *)
LEMMA LittleEndian ==
  ASSUME NEW b \in Nat, b > 1, NEW n \in 0..(b * b - 1)
  PROVE  n % b \in 0..(b - 1) /\ n \div b \in 0..(b - 1) /\ (n % b) + b * (n \div b) = n
<1> DEFINE q == n \div b
           r == n % b
<1>1. b * b \in Nat
  OBVIOUS
<1>2. q \in Int /\ r \in 0..(b - 1) /\ n = b * q + r
  OBVIOUS
<1> HIDE DEF q, r
<1>3. q >= 0
  <2>1. SUFFICES ASSUME q <= -1 PROVE FALSE
    BY <1>2
  <2>2. b * q <= -b
    BY <1>2, <2>1
  <2> QED BY <1>1, <1>2, <2>2
<1>4. q <= b - 1
  <2>1. SUFFICES ASSUME q >= b PROVE FALSE
    BY <1>2
  <2>2. b * q >= b * b
    BY <1>2, <2>1
  <2> QED BY <1>1, <1>2, <2>2
<1>5. r + b * q = n
  BY <1>2
<1> QED BY <1>2, <1>3, <1>4, <1>5 DEF q, r

(* What an item is made of.                                                *)
LEMMA ItemTypes ==
  ASSUME NEW item \in Item
  PROVE  /\ item.type \in {"int", "sstr", "lstr"}
         /\ item = [type |-> item.type, bytes |-> item.bytes]
         /\ item.bytes \in Seq(Octet) /\ Len(item.bytes) \in Nat
         /\ Len(item.bytes) \in Lengths \cup IntSizes
         /\ item.type # "int" => Len(item.bytes) \in 0..(B * B - 1)
         /\ item.type = "sstr" => Len(item.bytes) \in Octet
<1>1. \A n \in Nat : \A s \in [1..n -> Data] : s \in Seq(Octet) /\ Len(s) = n
  <2> SUFFICES ASSUME NEW n \in Nat, NEW s \in [1..n -> Data]
               PROVE  s \in Seq(Octet) /\ Len(s) = n
    OBVIOUS
  <2>1. s \in [1..n -> Octet]
    BY StreamAssumption DEF Octet
  <2>2. s \in Seq(Octet)
    BY <2>1
  <2>3. Len(s) = n
    BY <2>1, <2>2, LenProperties
  <2> QED BY <2>2, <2>3
<1>2. /\ Lengths \subseteq Nat /\ IntSizes \subseteq Nat
      /\ Lengths \subseteq 0..(B * B - 1)
  BY StreamAssumption
<1>3. \A L \in SUBSET Nat : \A s \in Strings(L) : s \in Seq(Octet) /\ Len(s) \in L
  <2> SUFFICES ASSUME NEW L \in SUBSET Nat, NEW s \in Strings(L)
               PROVE  s \in Seq(Octet) /\ Len(s) \in L
    OBVIOUS
  <2>1. PICK n \in L : s \in [1..n -> Data]
    BY DEF Strings
  <2> QED BY <1>1, <2>1
<1>4. /\ \A s \in Strings(IntSizes) : s \in Seq(Octet) /\ Len(s) \in IntSizes
      /\ \A s \in Strings(Lengths) : s \in Seq(Octet) /\ Len(s) \in Lengths
      /\ \A s \in Strings(Lengths \cap 0..(B - 1)) :
           s \in Seq(Octet) /\ Len(s) \in Lengths \cap 0..(B - 1)
  <2>1. Lengths \cap 0..(B - 1) \in SUBSET Nat
    BY <1>2
  <2> QED BY <1>2, <1>3, <2>1
<1>5. CASE item \in [type : {"int"}, bytes : Strings(IntSizes)]
  BY <1>2, <1>4, <1>5
<1>6. CASE item \in [type : {"sstr"}, bytes : Strings(Lengths \cap 0..(B - 1))]
  BY <1>2, <1>4, <1>6 DEF Octet
<1>7. CASE item \in [type : {"lstr"}, bytes : Strings(Lengths)]
  BY <1>2, <1>4, <1>7
<1> QED BY <1>5, <1>6, <1>7 DEF Item

(* The length in front of an item: no, one or two bytes, and its value.    *)
LEMMA PrefixIs ==
  ASSUME NEW item \in Item
  PROVE  /\ Prefix(item) \in Seq(Octet)
         /\ Len(Prefix(item)) = PrefixLen(item.type)
         /\ PrefixLen(item.type) \in {0, 1, 2}
         /\ item.type = "int" <=> PrefixLen(item.type) = 0
         /\ item.type = "sstr" => Prefix(item)[1] = Len(item.bytes)
         /\ item.type = "lstr" => Prefix(item)[1] + B * Prefix(item)[2] = Len(item.bytes)
<1> DEFINE n == Len(item.bytes)
<1>1. item.type \in {"int", "sstr", "lstr"}
  BY ItemTypes
<1>2. CASE item.type = "int"
  BY <1>2 DEF Prefix, PrefixLen
<1>3. CASE item.type = "sstr"
  <2>1. Prefix(item) = <<n>> /\ PrefixLen(item.type) = 1
    BY <1>3 DEF Prefix, PrefixLen
  <2>2. n \in Octet
    BY <1>3, ItemTypes
  <2> QED BY <1>3, <2>1, <2>2
<1>4. CASE item.type = "lstr"
  <2>1. Prefix(item) = <<n % B, n \div B>> /\ PrefixLen(item.type) = 2
    BY <1>4 DEF Prefix, PrefixLen
  <2>2. n \in 0..(B * B - 1)
    BY <1>4, ItemTypes
  <2> HIDE DEF n
  <2>3. n % B \in Octet /\ n \div B \in Octet /\ (n % B) + B * (n \div B) = n
    BY <2>2, LittleEndian, StreamAssumption DEF Octet
  <2>4. Prefix(item)[1] = n % B /\ Prefix(item)[2] = n \div B
    BY <2>1
  <2>5. Prefix(item) \in Seq(Octet) /\ Len(Prefix(item)) = 2
    BY <2>1, <2>3
  <2>6. Prefix(item)[1] + B * Prefix(item)[2] = n
    BY <2>3, <2>4
  <2> QED BY <1>4, <2>1, <2>5, <2>6 DEF n
<1> QED BY <1>1, <1>2, <1>3, <1>4

(* The reader sees the length that was written, if its sign bit is clear.  *)
LEMMA SignedIs ==
  ASSUME NEW item \in Item, item.type # "int", SignClear(item)
  PROVE  Signed(item.type, Prefix(item)) = Len(item.bytes)
<1> DEFINE n == Len(item.bytes)
<1>1. n \in Nat /\ item.type \in {"sstr", "lstr"}
  BY ItemTypes
<1>2. CASE item.type = "sstr"
  <2>1. 2 * n < B /\ Prefix(item)[1] = n
    BY <1>2, PrefixIs DEF SignClear
  <2> QED BY <1>2, <2>1 DEF Signed
<1>3. CASE item.type = "lstr"
  <2>1. 2 * n < B * B /\ Prefix(item)[1] + B * Prefix(item)[2] = n
    BY <1>3, PrefixIs DEF SignClear
  <2> QED BY <1>3, <2>1 DEF Signed
<1> QED BY <1>1, <1>2, <1>3

(* obstream_write leaves the bytes as they were, or longer by all the      *)
(* bytes; when it overruns, OverrunOnlyWhenShort says why, and when it     *)
(* frees the buffer, FreedOnlyWhenEmpty does.                              *)
LEMMA WriteIs ==
  ASSUME NEW o \in Stream, ~Overruns(o), ~FreedTwice(o), NEW bytes \in Seq(Octet),
         NEW q \in obstream_write(o, bytes)
  PROVE  /\ q \in Stream
         /\ q.buffer = o.buffer \/ q.buffer = o.buffer \o bytes
         /\ Overruns(q) => \/ q.auto_extend /\ q.capacity < 2 * Len(bytes)
                          \/ q.capacity + Len(bytes) >= U32
         /\ FreedTwice(q) => q.auto_extend /\ q.capacity = 0
<1> DEFINE b == o.buffer
           c == o.capacity
           x == o.auto_extend
           k == o.frees
           n == Len(bytes)
           m == Len(b)
           both == b \o bytes
<1>1. b \in Seq(Octet) /\ c \in Nat /\ c < U32 /\ x \in BOOLEAN /\ U32 \in Nat /\ k \in 0..1
  BY StreamAssumption DEF Stream, FreedTwice
<1>2. n \in Nat /\ m \in Nat /\ m <= c
  BY <1>1 DEF Overruns
<1>3. both \in Seq(Octet) /\ Len(both) = m + n
  BY <1>1, ConcatProperties
<1>4. o = [buffer |-> b, capacity |-> c, auto_extend |-> x, frees |-> k]
  BY DEF Stream
<1>5. CASE Fits(o, n)
  <2>1. q = [buffer |-> both, capacity |-> c, auto_extend |-> x, frees |-> k]
    BY <1>4, <1>5 DEF obstream_write
  <2>2. q.buffer = both /\ q.capacity = c /\ q.auto_extend = x /\ q.frees = k
    BY <2>1
  <2>3. q \in Stream
    BY <1>1, <1>3, <2>1 DEF Stream
  <2>4. (m + n) % U32 <= c
    BY <1>5 DEF Fits
  <2>5. ASSUME Overruns(q) PROVE c + n >= U32
    <3>1. m + n > c
      BY <1>3, <2>2, <2>5 DEF Overruns
    <3> HIDE DEF m, n, c
    <3>2. m + n < U32 => (m + n) % U32 = m + n
      BY <1>1, <1>2
    <3> QED BY <1>1, <1>2, <2>4, <3>1, <3>2
  <2>6. ~FreedTwice(q)
    BY <1>1, <2>2 DEF FreedTwice
  <2> QED BY <2>2, <2>3, <2>5, <2>6
<1>6. CASE ~Fits(o, n) /\ q = Refuse(o)
  <2>1. CASE x /\ c = 0
    <3>1. q = [buffer |-> b, capacity |-> c, auto_extend |-> x, frees |-> k + 1]
      BY <1>4, <1>6, <2>1 DEF Refuse
    <3>2. q.buffer = b /\ q.capacity = c /\ q.auto_extend = x
      BY <3>1
    <3>3. q \in Stream
      BY <1>1, <3>1 DEF Stream
    <3>4. ~Overruns(q)
      BY <1>1, <1>2, <3>2 DEF Overruns
    <3> QED BY <2>1, <3>2, <3>3, <3>4
  <2>2. CASE ~(x /\ c = 0)
    <3>1. q = o
      BY <1>6, <2>2 DEF Refuse
    <3> QED BY <3>1
  <2> QED BY <2>1, <2>2
<1>7. CASE ~Fits(o, n) /\ q # Refuse(o)
  <2>1. PICK e \in Extend(o) : q = [e EXCEPT !.buffer = both]
    BY <1>7 DEF obstream_write
  <2>2. x /\ 2 * c < U32 - 1 /\ e = [o EXCEPT !.capacity = 2 * c]
    BY <2>1 DEF Extend
  <2>3. q = [buffer |-> both, capacity |-> 2 * c, auto_extend |-> x, frees |-> k]
    BY <1>4, <2>1, <2>2
  <2>4. q.buffer = both /\ q.capacity = 2 * c /\ q.auto_extend = x /\ q.frees = k
    BY <2>3
  <2>5. q \in Stream
    BY <1>1, <1>3, <2>2, <2>3 DEF Stream
  <2>6. ASSUME Overruns(q) PROVE 2 * c < 2 * n
    <3>1. m + n > 2 * c
      BY <1>3, <2>4, <2>6 DEF Overruns
    <3> HIDE DEF m, n, c
    <3> QED BY <1>1, <1>2, <3>1
  <2>7. ~FreedTwice(q)
    BY <1>1, <2>4 DEF FreedTwice
  <2> QED BY <2>2, <2>4, <2>5, <2>6, <2>7
<1> QED BY <1>5, <1>6, <1>7

(* What is appended changes nothing before it.                             *)
LEMMA KeptPart ==
  ASSUME NEW S, NEW b \in Seq(S), NEW t \in Seq(S),
         NEW m \in Nat \ {0}, NEW n \in Nat, n <= Len(b)
  PROVE  SubSeq(b \o t, m, n) = SubSeq(b, m, n)
<1>1. CASE n < m
  BY <1>1, SubSeqEmpty
<1>2. CASE m <= n
  <2>1. m \in 1..Len(b) /\ n \in 1..Len(b)
    BY <1>2
  <2> QED BY <2>1, SubSeqOfConcat1
<1> QED BY <1>1, <1>2

(* And what was appended stands where it was appended.                     *)
LEMMA MiddlePart ==
  ASSUME NEW S, NEW b \in Seq(S), NEW p \in Seq(S), NEW s \in Seq(S)
  PROVE  SubSeq((b \o p) \o s, Len(b) + 1, Len(b) + Len(p)) = p
<1> DEFINE all == (b \o p) \o s
           i == Len(b)
           j == Len(p)
           k == Len(s)
           part == SubSeq(all, i + 1, i + j)
<1>1. i \in Nat /\ j \in Nat /\ k \in Nat
  OBVIOUS
<1>2. /\ b \o p \in Seq(S) /\ Len(b \o p) = i + j
      /\ \A a \in 1 .. i + j : (b \o p)[a] = IF a <= i THEN b[a] ELSE p[a - i]
  BY ConcatProperties
<1>3. /\ all \in Seq(S) /\ Len(all) = i + j + k
      /\ \A a \in 1 .. i + j + k : all[a] = IF a <= i + j THEN (b \o p)[a] ELSE s[a - (i + j)]
  BY <1>2, ConcatProperties
<1> HIDE DEF all, i, j, k
<1>4. \A a \in i + 1 .. i + j : a \in 1 .. i + j /\ a \in 1 .. i + j + k /\ ~(a <= i)
                               /\ a - i \in 1 .. j
  BY <1>1
<1>5. ASSUME NEW a \in i + 1 .. i + j PROVE all[a] = p[a - i]
  <2>1. /\ a \in 1 .. i + j /\ a \in 1 .. i + j + k /\ ~(a <= i) /\ a <= i + j
    BY <1>1
  <2>2. all[a] = (b \o p)[a]
    BY <1>3, <2>1
  <2>3. (b \o p)[a] = p[a - i]
    BY <1>2, <2>1
  <2> QED BY <2>2, <2>3
<1>6. \A a \in i + 1 .. i + j : p[a - i] \in S
  BY <1>4, ElementOfSeq DEF j
<1>7. /\ part \in Seq(S) /\ Len(part) = IF i + 1 <= i + j THEN (i + j) - (i + 1) + 1 ELSE 0
      /\ \A a \in 1 .. (i + j) - (i + 1) + 1 : part[a] = all[(i + 1) + a - 1]
  <2>1. \A a \in i + 1 .. i + j : all[a] \in S
    BY <1>5, <1>6
  <2>2. i + 1 \in Int /\ i + j \in Int
    BY <1>1
  <2> HIDE DEF part
  <2> QED BY <2>1, <2>2, SubSeqProperties DEF part
<1> HIDE DEF part
<1>8. Len(part) = j
  BY <1>1, <1>7
<1>9. ASSUME NEW a \in 1 .. j PROVE part[a] = p[a]
  <2>1. /\ a \in 1 .. (i + j) - (i + 1) + 1 /\ (i + 1) + a - 1 = i + a
        /\ i + a \in i + 1 .. i + j /\ (i + a) - i = a
    BY <1>1
  <2>2. part[a] = all[i + a]
    BY <1>7, <2>1
  <2> QED BY <1>5, <2>1, <2>2
<1>10. part = p
  BY <1>7, <1>8, <1>9, SeqEqual DEF j
<1> QED BY <1>10 DEF part, all, i, j

(* The same for the end.                                                   *)
LEMMA LastPart ==
  ASSUME NEW S, NEW b \in Seq(S), NEW p \in Seq(S), NEW s \in Seq(S)
  PROVE  SubSeq((b \o p) \o s, Len(b) + Len(p) + 1, Len(b) + Len(p) + Len(s)) = s
<1>1. b \o p \in Seq(S) /\ Len(b \o p) = Len(b) + Len(p) /\ <<>> \in Seq(S)
  BY ConcatProperties
<1>2. (b \o p) \o s \in Seq(S) /\ ((b \o p) \o s) \o <<>> = (b \o p) \o s
  BY <1>1, ConcatProperties, ConcatEmptySeq
<1>3. SubSeq(((b \o p) \o s) \o <<>>, Len(b \o p) + 1, Len(b \o p) + Len(s)) = s
  BY <1>1, MiddlePart
<1> QED BY <1>1, <1>2, <1>3

(* An item written whole is laid behind the others.                        *)
LEMMA LaidGrows ==
  ASSUME NEW items \in Seq(Item), NEW b \in Seq(Octet), NEW item \in Item,
         NEW pos \in [0..Len(items) -> Nat], Laid(pos, items, b)
  PROVE  \E npos \in [0..Len(Append(items, item)) -> Nat] :
           /\ Laid(npos, Append(items, item), (b \o Prefix(item)) \o item.bytes)
           /\ npos[0] = 0
<1> DEFINE k == Len(items)
           more == Append(items, item)
           pre == Prefix(item)
           s == item.bytes
           all == (b \o pre) \o s
           tail == pre \o s
           m == Len(b)
           p == Len(pre)
           n == Len(s)
           npos == [i \in 0..Len(more) |-> IF i <= k THEN pos[i] ELSE m + p + n]
<1>1. /\ k \in Nat /\ more \in Seq(Item) /\ Len(more) = k + 1
      /\ \A i \in 1..k : more[i] = items[i]
      /\ more[k + 1] = item
  BY AppendProperties
<1>2. pre \in Seq(Octet) /\ s \in Seq(Octet)
  BY PrefixIs, ItemTypes
<1> HIDE DEF pre, s
<1>3. m \in Nat /\ p \in Nat /\ n \in Nat
  BY <1>2
<1>4. tail \in Seq(Octet) /\ all = b \o tail
  BY <1>2, ConcatAssociative, ConcatProperties
<1>5. Len(all) = m + p + n
  <2>1. b \o pre \in Seq(Octet) /\ Len(b \o pre) = m + p
    BY <1>2, ConcatProperties
  <2> QED BY <1>2, <2>1, ConcatProperties
<1>6. /\ SubSeq(all, m + 1, m + p) = pre
      /\ SubSeq(all, m + p + 1, m + p + n) = s
  BY <1>2, MiddlePart, LastPart
<1>7. /\ pos[0] = 0 /\ pos[k] = m
      /\ \A i \in 1..k : Encoded(items[i], b, pos[i - 1], pos[i])
  BY DEF Laid
<1> HIDE DEF k, more, all, tail, m, p, n
<1>8. npos \in [0..Len(more) -> Nat] /\ npos[0] = 0 /\ npos[k] = m /\ npos[k + 1] = m + p + n
      /\ \A i \in 0..k : npos[i] = pos[i]
  <2>1. \A i \in 0..k : pos[i] \in Nat
    BY DEF k
  <2> HIDE DEF npos
  <2>2. 0 \in 0..Len(more) /\ k \in 0..Len(more) /\ k + 1 \in 0..Len(more)
    BY <1>1
  <2>3. ASSUME NEW i \in 0..k PROVE npos[i] = pos[i] /\ i \in 0..Len(more)
    <3>1. i \in 0..Len(more) /\ i <= k
      BY <1>1
    <3> QED BY <3>1 DEF npos
  <2>4. npos[k + 1] = m + p + n
    <3>1. ~(k + 1 <= k)
      BY <1>1
    <3> QED BY <2>2, <3>1 DEF npos
  <2>5. npos \in [0..Len(more) -> Nat]
    <3>1. ASSUME NEW i \in 0..Len(more)
          PROVE  (IF i <= k THEN pos[i] ELSE m + p + n) \in Nat
      <4>1. CASE i <= k
        BY <1>1, <2>1, <4>1
      <4>2. CASE ~(i <= k)
        BY <1>3, <4>2
      <4> QED BY <4>1, <4>2
    <3> QED BY <3>1 DEF npos
  <2>6. 0 \in 0..k /\ k \in 0..k
    BY <1>1
  <2> QED BY <1>7, <2>3, <2>4, <2>5, <2>6
<1> HIDE DEF npos
<1>9. ASSUME NEW i \in 1..k PROVE Encoded(more[i], all, npos[i - 1], npos[i])
  <2> DEFINE it == items[i]
             from == pos[i - 1]
             to == pos[i]
             l == Len(Prefix(it))
             h == Len(it.bytes)
  <2>1. it \in Item /\ from \in Nat /\ to \in Nat
    <3>1. it \in Item
      BY ElementOfSeq DEF k
    <3>2. i - 1 \in 0..k /\ i \in 0..k
      BY <1>1
    <3> QED BY <3>1, <3>2 DEF k
  <2>2. l \in Nat /\ h \in Nat
    BY <2>1, PrefixIs, ItemTypes
  <2>3. /\ to <= m /\ to = from + l + h
        /\ SubSeq(b, from + 1, from + l) = Prefix(it)
        /\ SubSeq(b, from + l + 1, to) = it.bytes
    BY <1>7 DEF Encoded, m
  <2>4. more[i] = it /\ npos[i - 1] = from /\ npos[i] = to
    <3>1. i - 1 \in 0..k /\ i \in 0..k
      BY <1>1
    <3> QED BY <1>1, <1>8, <3>1
  <2> HIDE DEF it, from, to, l, h
  <2>5. /\ from + 1 \in Nat \ {0} /\ from + l \in Nat /\ from + l <= m
        /\ from + l + 1 \in Nat \ {0} /\ to \in Nat /\ to <= m /\ to <= m + p + n
    <3>1. from + l <= from + l + h
      BY <2>1, <2>2
    <3>2. from + l <= m /\ m <= m + p + n
      BY <1>3, <2>1, <2>2, <2>3
    <3> QED BY <1>3, <2>1, <2>2, <2>3, <3>2
  <2>6. /\ SubSeq(all, from + 1, from + l) = SubSeq(b, from + 1, from + l)
        /\ SubSeq(all, from + l + 1, to) = SubSeq(b, from + l + 1, to)
    <3>1. \A a \in Nat \ {0}, e \in Nat :
            e <= m => SubSeq(b \o tail, a, e) = SubSeq(b, a, e)
      BY <1>4, KeptPart DEF m
    <3> QED BY <1>4, <2>5, <3>1
  <2> QED BY <1>5, <2>3, <2>4, <2>5, <2>6 DEF Encoded, l, h
<1>10. Encoded(more[k + 1], all, npos[k], npos[k + 1])
  <2>1. /\ m + p + n <= Len(all)
        /\ m + p + n = m + p + n
        /\ SubSeq(all, m + 1, m + p) = pre
        /\ SubSeq(all, m + p + 1, m + p + n) = s
    BY <1>3, <1>5, <1>6
  <2>2. Encoded(item, all, m, m + p + n)
    BY <2>1 DEF Encoded, pre, s, p, n
  <2> QED BY <1>1, <1>8, <2>2
<1>11. Laid(npos, more, all)
  <2>1. ASSUME NEW i \in 1..Len(more) PROVE Encoded(more[i], all, npos[i - 1], npos[i])
    <3>1. CASE i \in 1..k
      BY <1>9, <3>1
    <3>2. CASE i = k + 1
      <4>1. i - 1 = k
        BY <1>1, <3>2
      <4> QED BY <1>10, <3>2, <4>1
    <3> QED BY <1>1, <3>1, <3>2
  <2> QED BY <1>1, <1>5, <1>8, <2>1 DEF Laid
<1> QED BY <1>8, <1>11 DEF more, all, pre, s

(* q is b and the bytes of pre and s, by its length. *)
AllThere(q, b, pre, s) == Len(q) - Len(b) = Len(pre) + Len(s)

(* Two writes, of pre and of s: if all their bytes are there they are in   *)
(* order, and if none is, nothing changed.                                 *)
LEMMA AllWritten ==
  ASSUME NEW S, NEW b \in Seq(S), NEW pre \in Seq(S), NEW s \in Seq(S), NEW p, NEW q,
         p = b \/ p = b \o pre, q = p \/ q = p \o s, AllThere(q, b, pre, s)
  PROVE  q = (b \o pre) \o s
<1>1. b \o pre \in Seq(S) /\ Len(b \o pre) = Len(b) + Len(pre)
  BY ConcatProperties
<1>2. p \in Seq(S) /\ (p # b \o pre => Len(p) = Len(b) /\ p = b)
  BY <1>1
<1>3. p \o s \in Seq(S) /\ Len(p \o s) = Len(p) + Len(s)
  BY <1>2, ConcatProperties
<1>4. Len(b) \in Nat /\ Len(pre) \in Nat /\ Len(s) \in Nat
  OBVIOUS
<1>5. ASSUME p # b \o pre PROVE pre = <<>>
  <2>1. p = b /\ Len(p) = Len(b)
    BY <1>2, <1>5
  <2>2. q = p \/ Len(q) = Len(p) + Len(s)
    BY <1>3
  <2>3. Len(pre) = 0
    BY <1>4, <2>1, <2>2 DEF AllThere
  <2> QED BY <2>3, EmptySeq
<1>6. ASSUME q # p \o s PROVE s = <<>>
  <2>1. Len(s) = 0
    BY <1>1, <1>2, <1>3, <1>4, <1>6 DEF AllThere
  <2> QED BY <2>1, EmptySeq
<1>7. p = b \o pre
  BY <1>2, <1>5, ConcatEmptySeq
<1>8. q = p \o s
  BY <1>2, <1>6, ConcatEmptySeq
<1> QED BY <1>7, <1>8

LEMMA NoneWritten ==
  ASSUME NEW S, NEW b \in Seq(S), NEW pre \in Seq(S), NEW s \in Seq(S), NEW p, NEW q,
         p = b \/ p = b \o pre, q = p \/ q = p \o s,
         ~(Len(q) - Len(b) > 0)
  PROVE  q = b
<1>1. b \o pre \in Seq(S) /\ Len(b \o pre) = Len(b) + Len(pre)
  BY ConcatProperties
<1>2. p \in Seq(S) /\ (p = b \/ p = b \o pre)
  BY <1>1
<1>3. p \o s \in Seq(S) /\ Len(p \o s) = Len(p) + Len(s)
  BY <1>2, ConcatProperties
<1>4. Len(b) \in Nat /\ Len(pre) \in Nat /\ Len(s) \in Nat
  OBVIOUS
<1>5. p = b
  <2>1. ASSUME p # b PROVE pre = <<>>
    <3>1. p = b \o pre
      BY <2>1
    <3>2. Len(pre) = 0
      BY <1>1, <1>3, <1>4, <3>1
    <3> QED BY <3>2, EmptySeq
  <2> QED BY <1>2, <2>1, ConcatEmptySeq
<1>6. q = p
  <2>1. ASSUME q # p PROVE s = <<>>
    <3>1. q = p \o s
      BY <2>1
    <3>2. Len(s) = 0
      BY <1>3, <1>4, <1>5, <3>1
    <3> QED BY <3>2, EmptySeq
  <2> QED BY <1>2, <2>1, ConcatEmptySeq
<1> QED BY <1>5, <1>6

-----------------------------------------------------------------------------
(* obstream_create establishes the invariant.                              *)
LEMMA StreamInitInv ==
  ASSUME StreamInit
  PROVE  StreamInv
<1>1. PICK c \in Capacity, ext \in BOOLEAN :
        obs = [buffer |-> <<>>, capacity |-> c, auto_extend |-> ext, frees |-> 0]
  BY DEF StreamInit
<1>2. c \in 0..(U32 - 1) /\ MaxItems \in Nat
  BY StreamAssumption
<1>3. obs \in Stream /\ obs.buffer = <<>> /\ ~Overruns(obs) /\ ~FreedTwice(obs)
  BY <1>1, <1>2 DEF Stream, Overruns, FreedTwice
<1>4. StreamTypes
  <2>1. obs \in Stream /\ ibs = 0 /\ written = <<>> /\ writes = 0 /\ torn = FALSE
        /\ got = <<>> /\ mode = "write"
    BY <1>3 DEF StreamInit
  <2>2. Len(written) <= writes /\ writes <= MaxItems
    BY <1>2, <2>1
  <2>3. written \in Seq(Item) /\ got \in Seq(Got)
    BY <2>1, EmptySeq
  <2> QED BY <2>1, <2>2, <2>3 DEF StreamTypes
<1>5. Len(written) = 0 /\ Len(got) = 0 /\ Len(obs.buffer) = 0
  BY <1>3 DEF StreamInit
<1> DEFINE pos == [i \in 0..0 |-> 0]
<1>6. pos \in [0..Len(written) -> Nat] /\ pos[0] = 0
  BY <1>5
<1>7. Laid(pos, written, obs.buffer)
  BY <1>5, <1>6 DEF Laid
<1>8. AtItem(pos)
  BY <1>5, <1>6 DEF AtItem, StreamInit
<1>9. mode = "write" /\ got = <<>> /\ ibs = 0
  BY DEF StreamInit
<1> QED BY <1>3, <1>4, <1>6, <1>7, <1>8, <1>9
        DEF StreamInv, OverrunOnlyWhenShort, FreedOnlyWhenEmpty

(* Why the capacity was too short, for a part of some length.              *)
LEMMA TooShort ==
  ASSUME NEW o \in Stream, NEW n \in {0, 1, 2} \cup Lengths \cup IntSizes,
         \/ o.auto_extend /\ o.capacity < 2 * n
         \/ o.capacity + n >= U32
  PROVE  \E k \in Lengths \cup IntSizes \cup {2} :
           \/ o.auto_extend /\ o.capacity < 2 * k
           \/ o.capacity + k >= U32
<1>1. o.capacity \in Nat /\ U32 \in Nat
  BY StreamAssumption DEF Stream
<1>2. CASE n \in Lengths \cup IntSizes
  BY <1>2
<1>3. CASE n \in {0, 1, 2}
  <2>1. \/ o.auto_extend /\ o.capacity < 2 * 2
        \/ o.capacity + 2 >= U32
    <3> HIDE DEF Stream
    <3> DEFINE c == o.capacity
    <3>1. c < 2 * n => c < 2 * 2
      BY <1>1, <1>3
    <3>2. c + n >= U32 => c + 2 >= U32
      BY <1>1, <1>3
    <3> QED BY <3>1, <3>2
  <2> QED BY <2>1
<1> QED BY <1>2, <1>3

(* The outcomes of writing an item: nothing changed, all of it, or a part. *)
LEMMA WriteInv ==
  ASSUME StreamInv, NEW item \in Item, Write(item)
  PROVE  StreamInv'
<1> DEFINE b == obs.buffer
           pre == Prefix(item)
           s == item.bytes
           whole == Len(obs'.buffer) - Len(b) = Len(pre) + Len(s)
<1>1. /\ mode = "write" /\ writes < MaxItems /\ writes' = writes + 1
      /\ ibs' = ibs /\ got' = got
  BY DEF Write
<1>2. PICK p \in obstream_write(obs, pre) :
      \E o \in IF Overruns(p) \/ FreedTwice(p) THEN {p} ELSE obstream_write(p, s) :
        /\ obs' = o
        /\ written' = IF Len(o.buffer) - Len(b) = Len(pre) + Len(s)
                      THEN Append(written, item) ELSE written
        /\ torn' = (torn \/ (~(Len(o.buffer) - Len(b) = Len(pre) + Len(s))
                              /\ Len(o.buffer) - Len(b) > 0))
        /\ mode' = CASE Overruns(o) -> "overrun"
                     [] ~Overruns(o) /\ FreedTwice(o) -> "corrupted"
                     [] OTHER -> mode
  BY DEF Write
<1>3. /\ obs' \in IF Overruns(p) \/ FreedTwice(p) THEN {p} ELSE obstream_write(p, s)
      /\ written' = IF whole THEN Append(written, item) ELSE written
      /\ torn' = (torn \/ (~whole /\ Len(obs'.buffer) - Len(b) > 0))
      /\ Overruns(obs') => mode' = "overrun"
      /\ ~Overruns(obs') /\ FreedTwice(obs') => mode' = "corrupted"
      /\ ~Overruns(obs') /\ ~FreedTwice(obs') => mode' = mode
  BY <1>2
<1>4. obs \in Stream /\ ~Overruns(obs) /\ ~FreedTwice(obs) /\ b \in Seq(Octet)
  BY <1>1 DEF StreamInv, StreamTypes, Stream
<1>5. /\ pre \in Seq(Octet) /\ s \in Seq(Octet)
      /\ Len(pre) \in {0, 1, 2} /\ Len(s) \in Lengths \cup IntSizes
  BY PrefixIs, ItemTypes
<1>6. /\ p \in Stream
      /\ p.buffer = b \/ p.buffer = b \o pre
      /\ Overruns(p) => \/ p.auto_extend /\ p.capacity < 2 * Len(pre)
                       \/ p.capacity + Len(pre) >= U32
      /\ FreedTwice(p) => p.auto_extend /\ p.capacity = 0
  BY <1>2, <1>4, <1>5, WriteIs
<1>7. /\ obs' \in Stream
      /\ obs'.buffer = p.buffer \/ obs'.buffer = p.buffer \o s
      /\ Overruns(obs') =>
           \E n \in {0, 1, 2} \cup Lengths \cup IntSizes :
             \/ obs'.auto_extend /\ obs'.capacity < 2 * n
             \/ obs'.capacity + n >= U32
      /\ FreedTwice(obs') => obs'.auto_extend /\ obs'.capacity = 0
  <2>1. CASE Overruns(p) \/ FreedTwice(p)
    <3>1. obs' = p
      BY <1>3, <2>1
    <3>2. Len(pre) \in {0, 1, 2} \cup Lengths \cup IntSizes
      BY <1>5
    <3>3. Overruns(obs') => \/ obs'.auto_extend /\ obs'.capacity < 2 * Len(pre)
                            \/ obs'.capacity + Len(pre) >= U32
      BY <1>6, <3>1
    <3>4. /\ obs' \in Stream /\ obs'.buffer = p.buffer
          /\ FreedTwice(obs') => obs'.auto_extend /\ obs'.capacity = 0
      BY <1>6, <3>1
    <3> HIDE DEF pre
    <3> QED BY <3>2, <3>3, <3>4
  <2>2. CASE ~Overruns(p) /\ ~FreedTwice(p)
    <3>1. obs' \in obstream_write(p, s)
      BY <1>3, <2>2
    <3>2. Len(s) \in {0, 1, 2} \cup Lengths \cup IntSizes
      BY <1>5
    <3> HIDE DEF s
    <3>3. /\ obs' \in Stream
          /\ obs'.buffer = p.buffer \/ obs'.buffer = p.buffer \o s
          /\ Overruns(obs') => \/ obs'.auto_extend /\ obs'.capacity < 2 * Len(s)
                              \/ obs'.capacity + Len(s) >= U32
          /\ FreedTwice(obs') => obs'.auto_extend /\ obs'.capacity = 0
      <4>1. \A q \in obstream_write(p, s) :
              /\ q \in Stream
              /\ q.buffer = p.buffer \/ q.buffer = p.buffer \o s
              /\ Overruns(q) => \/ q.auto_extend /\ q.capacity < 2 * Len(s)
                               \/ q.capacity + Len(s) >= U32
              /\ FreedTwice(q) => q.auto_extend /\ q.capacity = 0
        BY <1>5, <1>6, <2>2, WriteIs
      <4> QED BY <3>1, <4>1
    <3> QED BY <3>2, <3>3
  <2> QED BY <2>1, <2>2
<1>8. OverrunOnlyWhenShort'
  <2>1. SUFFICES ASSUME mode' = "overrun"
                 PROVE  \E n \in Lengths \cup IntSizes \cup {2} :
                          \/ obs'.auto_extend /\ obs'.capacity < 2 * n
                          \/ obs'.capacity + n >= U32
    BY DEF OverrunOnlyWhenShort
  <2>2. Overruns(obs')
    BY <1>1, <1>3, <2>1
  <2> QED BY <1>7, <2>2, TooShort
<1>15. FreedOnlyWhenEmpty'
  <2>1. mode' = "corrupted" => FreedTwice(obs')
    BY <1>1, <1>3
  <2> QED BY <1>7, <2>1 DEF FreedOnlyWhenEmpty
<1>9. /\ written \in Seq(Item) /\ Len(written) <= writes /\ writes \in Nat
      /\ MaxItems \in Nat
  BY StreamAssumption DEF StreamInv, StreamTypes
<1>10. StreamTypes'
  <2>1. written' \in Seq(Item) /\ Len(written') <= Len(written) + 1 /\ Len(written) \in Nat
    <3>1. Append(written, item) \in Seq(Item) /\ Len(Append(written, item)) = Len(written) + 1
      BY <1>9, AppendProperties
    <3>2. written' = Append(written, item) \/ written' = written
      BY <1>3
    <3>3. Len(written) \in Nat
      BY <1>9
    <3> QED BY <1>9, <3>1, <3>2, <3>3
  <2>2. Len(written') \in Nat /\ Len(written') <= writes' /\ writes' \in Nat /\ writes' <= MaxItems
    BY <1>1, <1>9, <2>1
  <2>3. torn' \in BOOLEAN /\ mode' \in {"write", "read"} \cup Ended
    BY <1>1, <1>3 DEF StreamInv, StreamTypes, Ended
  <2>4. ibs' \in Nat /\ got' \in Seq(Got)
    BY <1>1 DEF StreamInv, StreamTypes
  <2> QED BY <1>7, <2>1, <2>2, <2>3, <2>4 DEF StreamTypes
<1>11. got' = <<>> /\ ibs' = 0
  BY <1>1 DEF StreamInv
<1>12. /\ mode' # "overrun" => ~Overruns(obs')
       /\ mode' \notin {"overrun", "corrupted"} => mode' = "write"
       /\ mode' = "write" => ~FreedTwice(obs')
  BY <1>1, <1>3
<1>13. ASSUME ~torn', mode' \notin {"overrun", "corrupted"}
       PROVE  \E pos \in [0..Len(written') -> Nat] :
                Laid(pos, written', obs'.buffer) /\ pos[0] = 0
  <2>1. ~torn /\ mode = "write"
    BY <1>1, <1>3, <1>13
  <2>2. PICK pos \in [0..Len(written) -> Nat] : Laid(pos, written, b)
    BY <2>1 DEF StreamInv
  <2>3. CASE whole
    <3>1. written' = Append(written, item)
      BY <1>3, <2>3
    <3>2. obs'.buffer = (b \o pre) \o s
      <4> DEFINE x == p.buffer
                 y == obs'.buffer
      <4>1. (x = b \/ x = b \o pre) /\ (y = x \/ y = x \o s) /\ Len(y) - Len(b) = Len(pre) + Len(s)
        BY <1>6, <1>7, <2>3
      <4> HIDE DEF x, y, b, pre, s
      <4>2. pre \in Seq(Octet) /\ s \in Seq(Octet) /\ b \in Seq(Octet)
        BY <1>4, <1>5
      <4>3. x = b \/ x = b \o pre
        BY <4>1
      <4>4. y = x \/ y = x \o s
        BY <4>1
      <4>5. AllThere(y, b, pre, s)
        BY <4>1 DEF AllThere
      <4>6. y = (b \o pre) \o s
        BY <4>2, <4>3, <4>4, <4>5, AllWritten
      <4> QED BY <4>6 DEF y
    <3> QED BY <1>4, <1>9, <2>2, <3>1, <3>2, LaidGrows
  <2>4. CASE ~whole
    <3>1. written' = written /\ ~(Len(obs'.buffer) - Len(b) > 0)
      BY <1>3, <1>13, <2>4
    <3>2. obs'.buffer = b
      <4> DEFINE x == p.buffer
                 y == obs'.buffer
      <4>1. (x = b \/ x = b \o pre) /\ (y = x \/ y = x \o s) /\ ~(Len(y) - Len(b) > 0)
        BY <1>6, <1>7, <3>1
      <4> HIDE DEF x, y, b, pre, s
      <4>2. y = b
        BY <1>4, <1>5, <4>1, NoneWritten
      <4> QED BY <4>2 DEF y
    <3>3. pos[0] = 0
      BY <2>2 DEF Laid
    <3> QED BY <2>2, <3>1, <3>2, <3>3
  <2> QED BY <2>3, <2>4
<1>14. ASSUME ~torn', mode' \notin {"overrun", "corrupted"}
       PROVE  \E pos \in [0..Len(written') -> Nat] :
                Laid(pos, written', obs'.buffer) /\ AtItem(pos)'
  <2>1. PICK pos \in [0..Len(written') -> Nat] :
          Laid(pos, written', obs'.buffer) /\ pos[0] = 0
    BY <1>13, <1>14
  <2>2. Len(got') = 0 /\ Len(written') \in Nat
    BY <1>10, <1>11 DEF StreamTypes
  <2>3. AtItem(pos)'
    BY <1>11, <1>12, <1>14, <2>1, <2>2 DEF AtItem
  <2> QED BY <2>1, <2>3
<1> QED BY <1>8, <1>10, <1>11, <1>12, <1>14, <1>15 DEF StreamInv

(* The reader starts at the first item.                                    *)
LEMMA StartReadingInv ==
  ASSUME StreamInv, StartReading
  PROVE  StreamInv'
<1>1. /\ mode = "write" /\ mode' = "read"
      /\ UNCHANGED <<obs, ibs, written, writes, torn, got>>
  BY DEF StartReading
<1>2. StreamTypes' /\ ~Overruns(obs)' /\ OverrunOnlyWhenShort' /\ FreedOnlyWhenEmpty'
  BY <1>1 DEF StreamInv, StreamTypes, Overruns, OverrunOnlyWhenShort, FreedOnlyWhenEmpty
<1>3. \A pos : (SignsClear => AtItem(pos)) => (SignsClear => AtItem(pos))'
  BY <1>1 DEF SignsClear, AtItem
<1> QED BY <1>1, <1>2, <1>3 DEF StreamInv

(* The numbers of a read: what the stream holds ends before positions      *)
(* wrap, and the bytes of a read are octets.                               *)
LEMMA ReadIs ==
  ASSUME StreamInv, Reading
  PROVE  /\ End \in Nat /\ End < U32 /\ U32 \in Nat /\ U32 > 0
         /\ Len(got) \in Nat /\ Len(written) \in Nat
         /\ Len(got) + 1 \in 1..Len(written)
         /\ Expected \in Item
         /\ \A from \in Nat, n \in Nat : ReadSucceeds(from, n) =>
              /\ from + n <= End
              /\ Bytes(from, n) \in Seq(Octet) /\ Len(Bytes(from, n)) = n
<1>1. mode = "read" /\ Len(got) < Len(written)
  BY DEF Reading
<1>2. obs \in Stream /\ ~Overruns(obs) /\ obs.buffer \in Seq(Octet) /\ obs.capacity \in 0..(U32 - 1)
  BY <1>1 DEF StreamInv, StreamTypes, Stream
<1>3. End \in Nat /\ End <= obs.capacity /\ U32 \in Nat
  BY <1>2, StreamAssumption DEF Overruns, End
<1>4. End < U32 /\ U32 > 0
  <2> DEFINE c == obs.capacity
  <2>1. c \in 0..(U32 - 1) /\ End <= c
    BY <1>2, <1>3
  <2> HIDE DEF c
  <2> QED BY <1>3, <2>1
<1>5. written \in Seq(Item) /\ Len(got) \in Nat /\ Len(written) \in Nat
  BY DEF StreamInv, StreamTypes
<1>6. Len(got) + 1 \in 1..Len(written)
  BY <1>1, <1>5
<1>7. Expected \in Item
  BY <1>5, <1>6, ElementOfSeq DEF Expected
<1>8. ASSUME NEW from \in Nat, NEW n \in Nat, ReadSucceeds(from, n)
      PROVE  /\ from + n <= End
             /\ Bytes(from, n) \in Seq(Octet) /\ Len(Bytes(from, n)) = n
  <2>1. (from + n) % U32 <= End /\ from + n < U32
    BY <1>8 DEF ReadSucceeds
  <2>2. from + n <= End
    BY <1>3, <2>1
  <2>3. \A i \in from + 1 .. from + n : obs.buffer[i] \in Octet
    <3> SUFFICES ASSUME NEW i \in from + 1 .. from + n PROVE obs.buffer[i] \in Octet
      OBVIOUS
    <3>1. i \in 1..End
      BY <1>3, <2>2
    <3> QED BY <1>2, <3>1, ElementOfSeq DEF End
  <2>4. /\ Bytes(from, n) \in Seq(Octet)
        /\ Len(Bytes(from, n)) = IF from + 1 <= from + n THEN (from + n) - (from + 1) + 1 ELSE 0
    <3> DEFINE m == from + 1
               k == from + n
    <3>1. m \in Int /\ k \in Int /\ \A i \in m..k : obs.buffer[i] \in Octet
      BY <2>3
    <3> HIDE DEF m, k
    <3>2. SubSeq(obs.buffer, m, k) \in Seq(Octet)
          /\ Len(SubSeq(obs.buffer, m, k)) = IF m <= k THEN k - m + 1 ELSE 0
      BY <3>1, SubSeqProperties
    <3> QED BY <3>2 DEF Bytes, m, k
  <2> QED BY <2>2, <2>4
<1> QED BY <1>3, <1>4, <1>5, <1>6, <1>7, <1>8

(* Whatever is read, the position it is asked for is a number.             *)
LEMMA AskedIs ==
  ASSUME StreamInv, Reading, PrefixThere
  PROVE  Asked \in Nat /\ Body \in Nat
<1> DEFINE l == PrefixLen(Expected.type)
           w == Bytes(ibs, l)
<1>1. Expected \in Item /\ U32 \in Nat /\ U32 > 0 /\ ibs \in Nat
  BY ReadIs DEF StreamInv, StreamTypes
<1>2. l \in {0, 1, 2} /\ Expected.type \in {"int", "sstr", "lstr"}
  BY <1>1, PrefixIs, ItemTypes
<1>3. Body \in Nat
  BY <1>1, <1>2 DEF Body
<1>4. w \in Seq(Octet) /\ Len(w) = l
  BY <1>1, <1>2, ReadIs DEF PrefixThere
<1>5. CASE Expected.type = "int"
  BY <1>1, <1>3, <1>5, ItemTypes DEF Asked
<1>6. CASE Expected.type # "int"
  <2>1. B \in Nat
    BY StreamAssumption
  <2>2. w[1] \in Int /\ (Expected.type = "lstr" => w[2] \in Int)
    <3>1. l = IF Expected.type = "sstr" THEN 1 ELSE 2
      BY <1>2, <1>6 DEF PrefixLen
    <3>2. 1 \in 1..Len(w) /\ (Expected.type = "lstr" => 2 \in 1..Len(w))
      BY <1>4, <3>1
    <3>3. \A i \in 1..Len(w) : w[i] \in Int
      BY <1>4, <2>1, ElementOfSeq DEF Octet
    <3> QED BY <3>2, <3>3
  <2>3. Signed(Expected.type, w) \in Int
    <3> HIDE DEF w
    <3>1. CASE Expected.type = "sstr"
      BY <2>1, <2>2, <3>1 DEF Signed
    <3>2. CASE Expected.type = "lstr"
      <4>1. B * B \in Int /\ w[1] + B * w[2] \in Int
        BY <2>1, <2>2, <3>2
      <4> QED BY <3>2, <4>1 DEF Signed
    <3> QED BY <1>2, <1>6, <3>1, <3>2
  <2>4. Asked = Signed(Expected.type, w) % U32
    BY <1>6 DEF Asked
  <2>5. Asked \in Nat
    <3> DEFINE v == Signed(Expected.type, w)
    <3>1. v \in Int /\ Asked = v % U32
      BY <2>3, <2>4
    <3> HIDE DEF v
    <3> QED BY <1>1, <3>1
  <2> QED BY <1>3, <2>5
<1> QED BY <1>5, <1>6

(* A reader at an item whose sign bit is clear finds it whole.             *)
LEMMA FindsItem ==
  ASSUME StreamInv, Reading, SignsClear,
         NEW pos \in [0..Len(written) -> Nat],
         Laid(pos, written, obs.buffer), AtItem(pos)
  PROVE  /\ PrefixThere /\ ~NoString /\ ReadSucceeds(Body, Asked)
         /\ [type |-> Expected.type, bytes |-> Bytes(Body, Asked)] = Expected
         /\ Body + Asked = pos[Len(got) + 1]
         /\ ~ReadAsserts(ibs, PrefixLen(Expected.type))
         /\ ~ReadAsserts(Body, Asked) /\ ~ReadWraps(Body, Asked)
<1> DEFINE g == Len(got)
           x == Expected
           l == Len(Prefix(x))
           n == Len(x.bytes)
           from == pos[g]
           to == pos[g + 1]
<1>1. /\ End \in Nat /\ End < U32 /\ U32 \in Nat /\ U32 > 0
      /\ g \in Nat /\ g + 1 \in 1..Len(written) /\ x \in Item
      /\ Len(written) \in Nat
  BY ReadIs
<1>2. from = ibs
  BY DEF AtItem
<1>3. from \in Nat /\ to \in Nat
  <2>1. g \in 0..Len(written) /\ g + 1 \in 0..Len(written)
    BY <1>1
  <2> QED BY <2>1
<1>4. l = PrefixLen(x.type) /\ l \in Nat /\ (x.type # "int" => l >= 1)
  BY <1>1, PrefixIs, ItemTypes
<1>5. n \in Nat /\ x = [type |-> x.type, bytes |-> x.bytes]
  BY <1>1, ItemTypes
<1>6. /\ to <= End /\ to = from + l + n
      /\ Bytes(from, l) = Prefix(x)
      /\ SubSeq(obs.buffer, from + l + 1, to) = x.bytes
  <2>1. (g + 1) - 1 = g
    BY <1>1
  <2>2. Encoded(x, obs.buffer, from, to)
    BY <1>1, <2>1 DEF Laid, Expected
  <2> QED BY <2>2 DEF Encoded, End, Bytes
<1>7. SignClear(x)
  BY <1>1 DEF SignsClear, Expected
<1>8. Asked = n
  <2>1. CASE x.type = "int"
    BY <2>1 DEF Asked
  <2>2. CASE x.type # "int"
    <3>1. Signed(x.type, Bytes(ibs, PrefixLen(x.type))) = n
      BY <1>1, <1>2, <1>4, <1>6, <1>7, <2>2, SignedIs
    <3>2. Asked = n % U32
      BY <2>2, <3>1 DEF Asked
    <3> HIDE DEF n, l, from, to
    <3>3. n < U32
      BY <1>1, <1>3, <1>4, <1>5, <1>6
    <3>4. \A a, b \in Nat : a < b => a % b = a
      OBVIOUS
    <3> QED BY <1>1, <1>5, <3>2, <3>3, <3>4
  <2> QED BY <2>1, <2>2
<1>9. Body = from + l
  BY <1>2, <1>4 DEF Body
<1>10. Bytes(Body, Asked) = x.bytes
  BY <1>6, <1>8, <1>9 DEF Bytes
<1>11. [type |-> Expected.type, bytes |-> Bytes(Body, Asked)] = Expected
  BY <1>5, <1>10
<1>12. x.type # "int" => Asked # U32 - 1
  <2> HIDE DEF n, l, from, to, x
  <2> QED BY <1>1, <1>3, <1>4, <1>5, <1>6, <1>8
<1> HIDE DEF n, l, from, to, g
<1>13. ASSUME NEW a \in Nat, NEW k \in Nat, a + k <= End
       PROVE  ReadSucceeds(a, k) /\ ~ReadAsserts(a, k) /\ ~ReadWraps(a, k)
  <2>1. a + k < U32 /\ (a + k) % U32 = a + k
    BY <1>1, <1>13
  <2> QED BY <1>1, <1>13, <2>1 DEF ReadSucceeds, ReadAsserts, ReadWraps
<1>14. from + l <= End /\ (from + l) + n <= End /\ from + l \in Nat /\ (from + l) + n = to
  BY <1>1, <1>3, <1>4, <1>5, <1>6
<1>15. PrefixThere /\ ~ReadAsserts(ibs, PrefixLen(x.type))
  BY <1>2, <1>3, <1>4, <1>13, <1>14 DEF PrefixThere
<1>16. ReadSucceeds(Body, Asked) /\ ~ReadAsserts(Body, Asked) /\ ~ReadWraps(Body, Asked)
  BY <1>5, <1>8, <1>9, <1>13, <1>14
<1>17. ~NoString
  BY <1>12 DEF NoString
<1>18. Body + Asked = pos[Len(got) + 1]
  BY <1>8, <1>9, <1>14 DEF to, g
<1> QED BY <1>11, <1>15, <1>16, <1>17, <1>18

(* A read goes on to the next item.                                        *)
LEMMA ReadItemInv ==
  ASSUME StreamInv, ReadItem
  PROVE  StreamInv'
<1> DEFINE new == [type |-> Expected.type, bytes |-> Bytes(Body, Asked)]
<1>1. /\ Reading /\ PrefixThere /\ ReadSucceeds(Body, Asked)
      /\ got' = Append(got, new) /\ ibs' = Body + Asked
      /\ UNCHANGED <<obs, written, writes, torn, mode>>
  BY DEF ReadItem
<1>2. mode = "read" /\ mode' = "read"
  BY <1>1 DEF Reading
<1>3. Asked \in Nat /\ Body \in Nat /\ Bytes(Body, Asked) \in Seq(Octet) /\ Expected \in Item
  BY <1>1, AskedIs, ReadIs
<1>4. new \in Got
  BY <1>3, ItemTypes DEF Got
<1>5. got \in Seq(Got)
  BY DEF StreamInv, StreamTypes
<1> HIDE DEF new
<1>6. /\ got' \in Seq(Got) /\ Len(got') = Len(got) + 1
      /\ \A i \in 1..Len(got) : got'[i] = got[i]
      /\ got'[Len(got) + 1] = new
  BY <1>1, <1>4, <1>5, AppendProperties
<1>7. StreamTypes'
  <2>1. ibs' \in Nat
    BY <1>1, <1>3
  <2> QED BY <1>1, <1>6, <2>1 DEF StreamInv, StreamTypes
<1>8. ~Overruns(obs)' /\ OverrunOnlyWhenShort' /\ FreedOnlyWhenEmpty'
  BY <1>1, <1>2 DEF StreamInv, Overruns, OverrunOnlyWhenShort, FreedOnlyWhenEmpty
<1>9. ASSUME ~torn'
      PROVE  \E pos \in [0..Len(written') -> Nat] :
               Laid(pos, written', obs'.buffer) /\ (SignsClear' => AtItem(pos)')
  <2>1. PICK pos \in [0..Len(written) -> Nat] :
          Laid(pos, written, obs.buffer) /\ (SignsClear => AtItem(pos))
    BY <1>1, <1>2, <1>9 DEF StreamInv
  <2>2. ASSUME SignsClear' PROVE AtItem(pos)'
    <3>1. SignsClear
      BY <1>1, <2>2 DEF SignsClear
    <3>2. /\ new = Expected /\ ibs' = pos[Len(got) + 1]
      BY <1>1, <2>1, <3>1, FindsItem DEF new
    <3>3. Len(got) + 1 \in 1..Len(written) /\ Len(got) \in Nat
      BY <1>1, ReadIs
    <3>4. \A i \in 1..Len(got) : got[i] = written[i]
      BY <2>1, <3>1 DEF AtItem
    <3>5. ASSUME NEW i \in 1..Len(got') PROVE got'[i] = written[i]
      <4>1. CASE i \in 1..Len(got)
        BY <1>6, <3>4, <4>1
      <4>2. CASE i = Len(got) + 1
        BY <1>6, <3>2, <4>2 DEF Expected
      <4> QED BY <1>6, <3>3, <4>1, <4>2
    <3>6. Len(got') <= Len(written) /\ ibs' = pos[Len(got')]
      BY <1>6, <3>2, <3>3
    <3> QED BY <1>1, <1>2, <3>5, <3>6 DEF AtItem
  <2> QED BY <1>1, <2>1, <2>2
<1> QED BY <1>2, <1>7, <1>8, <1>9 DEF StreamInv

(* The remaining reads only happen to a torn stream or to one with a sign. *)
LEMMA OtherReadsInv ==
  ASSUME StreamInv, ReadNoString \/ ReadFails
  PROVE  StreamInv'
<1>1. /\ Reading
      /\ UNCHANGED <<obs, written, writes, torn>>
  BY DEF ReadNoString, ReadFails
<1>2. mode = "read" /\ mode' \in {"read", "aborted", "crashed"}
  BY <1>1 DEF Reading, ReadNoString, ReadFails
<1>3. ibs' \in Nat /\ got' \in Seq(Got)
  <2>1. ibs \in Nat /\ got \in Seq(Got)
    BY DEF StreamInv, StreamTypes
  <2>2. CASE ReadFails
    BY <2>1, <2>2 DEF ReadFails
  <2>3. CASE ReadNoString
    <3>1. PrefixThere /\ ibs' = Body /\ got' = Append(got, [type |-> "none", bytes |-> <<>>])
      BY <2>3 DEF ReadNoString
    <3>2. Body \in Nat
      BY <1>1, <3>1, AskedIs
    <3>3. [type |-> "none", bytes |-> <<>>] \in Got
      BY EmptySeq DEF Got
    <3> QED BY <2>1, <3>1, <3>2, <3>3, AppendProperties
  <2> QED BY <2>2, <2>3
<1>4. StreamTypes'
  BY <1>1, <1>2, <1>3 DEF StreamInv, StreamTypes, Ended
<1>5. ~Overruns(obs)' /\ OverrunOnlyWhenShort' /\ FreedOnlyWhenEmpty'
  BY <1>1, <1>2 DEF StreamInv, Overruns, OverrunOnlyWhenShort, FreedOnlyWhenEmpty
<1>6. ASSUME ~torn'
      PROVE  \E pos \in [0..Len(written') -> Nat] :
               Laid(pos, written', obs'.buffer) /\ (SignsClear' => AtItem(pos)')
  <2>1. PICK pos \in [0..Len(written) -> Nat] :
          Laid(pos, written, obs.buffer) /\ (SignsClear => AtItem(pos))
    BY <1>1, <1>2, <1>6 DEF StreamInv
  <2>2. ~SignsClear
    <3>1. SUFFICES ASSUME SignsClear PROVE FALSE
      OBVIOUS
    <3>2. /\ ~NoString /\ ~ReadAsserts(ibs, PrefixLen(Expected.type))
          /\ ~ReadAsserts(Body, Asked) /\ ~ReadWraps(Body, Asked)
      BY <1>1, <2>1, <3>1, FindsItem
    <3> QED BY <3>2 DEF ReadNoString, ReadFails
  <2>3. ~SignsClear'
    BY <1>1, <2>2 DEF SignsClear
  <2> QED BY <1>1, <2>1, <2>3
<1> QED BY <1>2, <1>4, <1>5, <1>6 DEF StreamInv

(* One lemma per action, put together.                                     *)
LEMMA StreamNextInv ==
  ASSUME StreamInv, [StreamNext]_streamVars
  PROVE  StreamInv'
<1>1. CASE \E item \in Item : Write(item)
  BY <1>1, WriteInv
<1>2. CASE StartReading
  BY <1>2, StartReadingInv
<1>3. CASE ReadItem
  BY <1>3, ReadItemInv
<1>4. CASE ReadNoString \/ ReadFails
  BY <1>4, OtherReadsInv
<1>5. CASE UNCHANGED streamVars
  <2>1. UNCHANGED <<obs, ibs, written, writes, torn, got, mode>>
    BY <1>5 DEF streamVars
  <2>2. /\ StreamTypes' /\ OverrunOnlyWhenShort' /\ FreedOnlyWhenEmpty'
        /\ (Overruns(obs)' <=> Overruns(obs)) /\ (FreedTwice(obs)' <=> FreedTwice(obs))
    BY <2>1 DEF StreamInv, StreamTypes, Overruns, FreedTwice, OverrunOnlyWhenShort,
                FreedOnlyWhenEmpty
  <2>3. \A pos : (SignsClear => AtItem(pos)) => (SignsClear => AtItem(pos))'
    BY <2>1 DEF SignsClear, AtItem
  <2> QED BY <2>1, <2>2, <2>3 DEF StreamInv
<1> QED BY <1>1, <1>2, <1>3, <1>4, <1>5 DEF StreamNext

(* The invariant of the byte streams.                                      *)
LEMMA StreamSpecInv == StreamSpec => []StreamInv
<1>1. StreamInit => StreamInv
  BY StreamInitInv
<1>2. StreamInv /\ [StreamNext]_streamVars => StreamInv'
  BY StreamNextInv
<1> QED BY <1>1, <1>2, PTL DEF StreamSpec

(* iobyte.c:8-35, 84-131: the types; every byte stored or read is one, and *)
(* the capacity never passes UINT32_MAX.                                   *)
THEOREM StreamTypeCorrect == StreamSpec => []StreamTypeOK
<1>1. StreamInv => StreamTypeOK
  <2> SUFFICES ASSUME StreamInv PROVE StreamTypeOK
    OBVIOUS
  <2>1. obs \in [buffer : Seq(0..(B - 1)), capacity : 0..(U32 - 1), auto_extend : BOOLEAN,
              frees : 0..2]
    BY DEF StreamInv, StreamTypes, Stream, Octet
  <2>2. \A i \in 1..Len(got) : got[i].bytes \in Seq(0..(B - 1))
    <3>1. got \in Seq(Got)
      BY DEF StreamInv, StreamTypes
    <3>2. \A i \in 1..Len(got) : got[i] \in Got
      BY <3>1, ElementOfSeq
    <3> QED BY <3>2 DEF Got, Octet
  <2> QED BY <2>1, <2>2 DEF StreamInv, StreamTypes, StreamTypeOK
<1> QED BY <1>1, StreamSpecInv, PTL

(* iobyte.c:109-131, 21-28, 66-78: what was written whole is read back,    *)
(* item for item, if no string reaches the sign bit of its length, for     *)
(* every width and every mixture of writes that fail and succeed.          *)
THEOREM StreamReadsBack == StreamSpec => []ReadsBack
<1>1. StreamInv => ReadsBack
  <2> SUFFICES ASSUME StreamInv, ~torn, SignsClear PROVE AsWritten
    BY DEF ReadsBack, SignsClear
  <2>1. CASE mode \in {"overrun", "corrupted"}
    <3>1. got = <<>>
      BY <2>1 DEF StreamInv
    <3> QED BY <2>1, <3>1 DEF AsWritten
  <2>2. CASE mode \notin {"overrun", "corrupted"}
    <3>1. PICK pos \in [0..Len(written) -> Nat] : SignsClear => AtItem(pos)
      BY <2>2 DEF StreamInv
    <3> QED BY <3>1 DEF AtItem, AsWritten
  <2> QED BY <2>1, <2>2
<1> QED BY <1>1, StreamSpecInv, PTL

(* iobyte.c:109-131, 21-78: that; the one doubling of a write is too       *)
(* little only for a string longer than the capacity had reached, or at    *)
(* the end of uint32_t; and only a stream created with the capacity 0 has  *)
(* its buffer freed by the realloc of a write.                             *)
THEOREM StreamBothHold == StreamSpec => []StreamsHold
<1>1. StreamInv => OverrunOnlyWhenShort /\ FreedOnlyWhenEmpty
  BY DEF StreamInv
<1>2. ReadsBack /\ OverrunOnlyWhenShort /\ FreedOnlyWhenEmpty => StreamsHold
  BY DEF StreamsHold
<1> QED BY <1>1, <1>2, StreamReadsBack, StreamSpecInv, PTL
=============================================================================
