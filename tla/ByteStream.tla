------------------------------ MODULE ByteStream ------------------------------
(***************************************************************************)
(* iobyte.c: an obstream into which integers and strings are written, and  *)
(* an ibstream that reads the bytes back in the same order.                *)
(*                                                                         *)
(* A string is its length, in one byte (sstr) or two (lstr), and then its  *)
(* bytes.  The writers take the length as an unsigned integer, the readers *)
(* as a signed one, and both streams compare positions in uint32_t.  The   *)
(* widths are constants, so that TLC meets their limits with short strings.*)
(***************************************************************************)
EXTENDS Integers, Sequences

CONSTANTS
  B,         \* 2^8: the values of a byte
  U32,       \* 2^32
  Data,      \* the bytes that integers and strings are made of
  IntSizes,  \* sizeof of the integers and floats
  Lengths,   \* the lengths of the strings
  Capacity,  \* the initial capacities of the obstream
  MaxItems   \* bound: writes to the obstream, also those that fail

ASSUME StreamAssumption ==
  /\ B \in Nat /\ B > 1 /\ B % 2 = 0
  /\ U32 \in Nat /\ MaxItems \in Nat
  /\ IntSizes \subseteq 1..8
  /\ Lengths \subseteq 0..(B * B - 1)
  /\ Capacity \subseteq 0..(U32 - 1)
  /\ Data \subseteq 0..(B - 1)

VARIABLES
  obs,     \* the obstream: buffer_ up to pos_, capacity_, auto_extend_, and how
           \* often realloc has freed what buffer_ points to
  ibs,     \* pos_ of the ibstream
  written, \* history: the items that were written whole, in order
  writes,  \* history: the writes so far
  torn,    \* history: of some item only a part was written
  got,     \* the items that were read, in order
  mode     \* "write", then "read"; or how the process ended

streamVars == <<obs, ibs, written, writes, torn, got, mode>>

Strings(lengths) == UNION {[1..n -> Data] : n \in lengths}
Item ==
  [type : {"int"}, bytes : Strings(IntSizes)]
    \cup [type : {"sstr"}, bytes : Strings(Lengths \cap 0..(B - 1))]
    \cup [type : {"lstr"}, bytes : Strings(Lengths)]

Ended == {"overrun", "corrupted", "aborted", "crashed"}

StreamTypeOK ==
  /\ obs \in [buffer : Seq(0..(B - 1)), capacity : 0..(U32 - 1), auto_extend : BOOLEAN,
              frees : 0..2]
  /\ ibs \in Nat
  /\ written \in Seq(Item) /\ Len(written) <= writes /\ writes <= MaxItems
  /\ torn \in BOOLEAN
  /\ \A i \in 1..Len(got) : got[i].bytes \in Seq(0..(B - 1))
  /\ mode \in {"write", "read"} \cup Ended

(* obstream_create *)
StreamInit ==
  /\ \E c \in Capacity, ext \in BOOLEAN :
       obs = [buffer |-> <<>>, capacity |-> c, auto_extend |-> ext, frees |-> 0]
  /\ ibs = 0 /\ written = <<>> /\ writes = 0 /\ torn = FALSE /\ got = <<>>
  /\ mode = "write"

-----------------------------------------------------------------------------
(* Writing *)

Fits(o, n) == (Len(o.buffer) + n) % U32 <= o.capacity

mutExtendUnchecked(o) ==
  IF o.auto_extend THEN {[o EXCEPT !.capacity = 2 * o.capacity]} ELSE {}

(* The capacity doubles, once; never at the end of uint32_t.               *)
Extend(o) ==
  IF o.auto_extend /\ 2 * o.capacity < U32 - 1
  THEN {[o EXCEPT !.capacity = 2 * o.capacity]} ELSE {}

(* There is no extension, or realloc returns NULL, which changes nothing   *)
(* but for a capacity of 0: realloc(buffer_, 0) frees the buffer and       *)
(* buffer_ still points to it.                                             *)
Refuse(o) ==
  IF o.auto_extend /\ o.capacity = 0 THEN [o EXCEPT !.frees = o.frees + 1] ELSE o

(* The streams that obstream_write can leave.  It does not ask again       *)
(* whether the bytes fit the extended buffer; written beyond it, they are  *)
(* an overrun.                                                             *)
obstream_write(o, bytes) ==
  IF Fits(o, Len(bytes)) THEN {[o EXCEPT !.buffer = o.buffer \o bytes]}
  ELSE {Refuse(o)} \cup {[e EXCEPT !.buffer = o.buffer \o bytes] : e \in Extend(o)}

Overruns(o) == Len(o.buffer) > o.capacity
FreedTwice(o) == o.frees > 1

(* The length in front of a string, in little endian; none for an integer. *)
Prefix(item) ==
  CASE item.type = "int" -> <<>>
    [] item.type = "sstr" -> <<Len(item.bytes)>>
    [] item.type = "lstr" -> <<Len(item.bytes) % B, Len(item.bytes) \div B>>

(* obstream_write_sstr and obstream_write_lstr write the bytes whether the *)
(* length could be written or not, and neither undoes the other.  An       *)
(* integer is a single obstream_write.  Nothing is said of what follows an *)
(* overrun or a second free of the buffer, so the model ends there.        *)
Write(item) ==
  /\ mode = "write" /\ writes < MaxItems /\ writes' = writes + 1
  /\ \E p \in obstream_write(obs, Prefix(item)) :
     \E o \in IF Overruns(p) \/ FreedTwice(p) THEN {p} ELSE obstream_write(p, item.bytes) :
       LET stored == Len(o.buffer) - Len(obs.buffer)
           whole == stored = Len(Prefix(item)) + Len(item.bytes)
       IN /\ obs' = o
          /\ written' = IF whole THEN Append(written, item) ELSE written
          /\ torn' = (torn \/ (~whole /\ stored > 0))
          /\ mode' = CASE Overruns(o) -> "overrun"
                       [] ~Overruns(o) /\ FreedTwice(o) -> "corrupted"
                       [] OTHER -> mode
  /\ UNCHANGED <<ibs, got>>

(* ibstream_from_buf, over the bytes of the obstream. *)
StartReading ==
  /\ mode = "write" /\ mode' = "read"
  /\ UNCHANGED <<obs, ibs, written, writes, torn, got>>

-----------------------------------------------------------------------------
(* Reading *)

End == Len(obs.buffer)

(* ibstream_read: the test passes, and the n bytes are there.              *)
ReadSucceeds(pos, n) == (pos + n) % U32 <= End /\ pos + n < U32

(* The test passes because pos_ + len wraps: memcpy runs off the buffer.   *)
ReadWraps(pos, n) == (pos + n) % U32 <= End /\ pos + n >= U32

(* The assert(0) of ibstream_read. *)
ReadAsserts(pos, n) == (pos + n) % U32 > End

Bytes(pos, n) == SubSeq(obs.buffer, pos + 1, pos + n)

PrefixLen(type) == CASE type = "int" -> 0 [] type = "sstr" -> 1 [] type = "lstr" -> 2

mutSigned(type, bytes) ==
  IF type = "sstr" THEN bytes[1] ELSE bytes[2] + B * bytes[1]

(* The length as ibstream_read_sstr and ibstream_read_lstr see it, an      *)
(* int8_t and an int16_t.                                                  *)
Signed(type, bytes) ==
  LET range == IF type = "sstr" THEN B ELSE B * B
      u == IF type = "sstr" THEN bytes[1] ELSE bytes[1] + B * bytes[2]
  IN IF 2 * u < range THEN u ELSE u - range

(* The item that comes next, as the reader that knows the types reads it.  *)
Expected == written[Len(got) + 1]
Reading == mode = "read" /\ Len(got) < Len(written)

(* How many bytes the read at position pos asks for, as a uint32_t.        *)
Asked ==
  IF Expected.type = "int" THEN Len(Expected.bytes)
  ELSE Signed(Expected.type, Bytes(ibs, PrefixLen(Expected.type))) % U32
Body == ibs + PrefixLen(Expected.type)
PrefixThere == ReadSucceeds(ibs, PrefixLen(Expected.type))

(* A length of -1 is returned, without a string. *)
NoString == Expected.type # "int" /\ Asked = U32 - 1

ReadItem ==
  /\ Reading /\ PrefixThere /\ ~NoString /\ ReadSucceeds(Body, Asked)
  /\ got' = Append(got, [type |-> Expected.type, bytes |-> Bytes(Body, Asked)])
  /\ ibs' = Body + Asked
  /\ UNCHANGED <<obs, written, writes, torn, mode>>

ReadNoString ==
  /\ Reading /\ PrefixThere /\ NoString
  /\ got' = Append(got, [type |-> "none", bytes |-> <<>>])
  /\ ibs' = Body
  /\ UNCHANGED <<obs, written, writes, torn, mode>>

ReadFails ==
  /\ Reading
  /\ \/ ReadAsserts(ibs, PrefixLen(Expected.type)) /\ mode' = "aborted"
     \/ PrefixThere /\ ~NoString /\ ReadAsserts(Body, Asked) /\ mode' = "aborted"
     \/ PrefixThere /\ ~NoString /\ ReadWraps(Body, Asked) /\ mode' = "crashed"
  /\ UNCHANGED <<obs, ibs, written, writes, torn, got>>

StreamNext ==
  \/ \E item \in Item : Write(item)
  \/ StartReading
  \/ ReadItem \/ ReadNoString \/ ReadFails

StreamSpec == StreamInit /\ [][StreamNext]_streamVars

-----------------------------------------------------------------------------
(* Properties *)

(* iobyte.c:109-131, 21-28, 66-78: what was written whole is read back,    *)
(* item for item, if no string reaches the sign bit of its length, which   *)
(* the formats of iobyte.h:33-36 do not rule out; the reads never run into *)
(* the assert or off the buffer.                                           *)
SignClear(item) ==
  CASE item.type = "int" -> TRUE
    [] item.type = "sstr" -> 2 * Len(item.bytes) < B
    [] item.type = "lstr" -> 2 * Len(item.bytes) < B * B

AsWritten ==
  /\ mode \notin {"aborted", "crashed"}
  /\ \A i \in 1..Len(got) : got[i] = written[i]

ReadsBack == ~torn /\ (\A i \in 1..Len(written) : SignClear(written[i])) => AsWritten

(* iobyte.c:110-126: the expansion that iobyte.h:50 promises for a full    *)
(* stream is enough for one whose capacity has reached the longest string: *)
(* only a shorter one is written past its end, or one so large that        *)
(* pos_ + len wraps.                                                       *)
OverrunOnlyWhenShort ==
  mode = "overrun" => \E n \in Lengths \cup IntSizes \cup {2} :
    \/ obs.auto_extend /\ obs.capacity < 2 * n
    \/ obs.capacity + n >= U32

(* iobyte.c:113-119: only a stream that was created with the capacity 0    *)
(* and is to be expanded is freed under the writer.                        *)
FreedOnlyWhenEmpty == mode = "corrupted" => obs.auto_extend /\ obs.capacity = 0

(* iobyte.c:109-131, 21-78: all together.                                  *)
StreamsHold == ReadsBack /\ OverrunOnlyWhenShort /\ FreedOnlyWhenEmpty
=============================================================================
