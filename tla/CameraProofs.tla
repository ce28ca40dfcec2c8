------------------------------ MODULE CameraProofs -----------------------------
(***************************************************************************)
(* Theorems about CameraDevice and the destination manager of JpegDest,    *)
(* for every size of the buffers and images, and any number of buffers.    *)
(*                                                                         *)
(* The inductive invariant says how an image is cut while it is made: what *)
(* is written of it stands at the start of tmpframe_, and the bytes in the *)
(* buffer are those that follow (Cut).  Of the device it says which        *)
(* buffers are mapped and who has them at every step (Shared).             *)
(***************************************************************************)
EXTENDS CameraDevice, SequenceTheorems, FiniteSetTheorems, TLAPS

(* An image in the making. *)
Cut ==
  phase \in {"compress", "full"} =>
    /\ free > 0 <=> phase = "compress"
    /\ Len(buffer) + free = OUTPUT_BUF_SIZE
    /\ written = cursor /\ cursor <= Size /\ emitted = cursor + Len(buffer)
    /\ \A k \in 1..Len(buffer) : buffer[k] = <<image, cursor + k>>
    /\ \A k \in 1..cursor : tmpframe_[k] = <<image, k>>
    /\ image \in 1..MaxImages

DestInv == TypeOK /\ Cut /\ FrameIsImage /\ OverrunOnlyTooLarge

(* The first n buffers are mapped. *)
Mapped(n) == \A b \in Buffer : owner[b] # "unmapped" <=> b <= n

Others == \A b \in 1..granted : b # held => owner[b] \in {"queued", "filled"}

Shared ==
  /\ step \in {"open", "caps", "format", "request"} => Mapped(0)
  /\ step = "map" => \E n \in 0 .. granted - 1 : Mapped(n)
  /\ step \in {"map", "queue", "start"} \cup Thread => granted \in 2..MaxBuffers
  /\ step \in {"queue", "start"} \cup Thread => Mapped(granted)
  /\ step \in {"start", "stream", "select", "dequeue"} =>
       \A b \in 1..granted : owner[b] \in {"queued", "filled"}
  /\ step \in {"compress", "requeue"} =>
       held \in 1..granted /\ owner[held] = "program" /\ Others

Died == step = "faulted" => failures > 0 \/ ~fits \/ emitted > Size

Inv == DestInv /\ CameraTypeOK /\ Shared /\ Died

-----------------------------------------------------------------------------
(* The destination manager *)

LEMMA DestInit == Init => DestInv
<1> SUFFICES ASSUME Init PROVE DestInv
  OBVIOUS
<1>1. TypeOK
  BY DestAssumption DEF Init, TypeOK
<1>2. Cut /\ OverrunOnlyTooLarge
  BY DEF Init, Cut, OverrunOnlyTooLarge
<1>3. FrameIsImage
  BY DEF Init, FrameIsImage
<1> QED BY <1>1, <1>2, <1>3 DEF DestInv

LEMMA DestinationInv == DestInv /\ init_destination => DestInv'
<1> SUFFICES ASSUME DestInv, init_destination PROVE DestInv'
  OBVIOUS
<1> USE DEF init_destination, camera__compress_to_jpeg
<1>1. TypeOK'
  BY DestAssumption DEF DestInv, TypeOK
<1>2. Cut'
  BY DestAssumption DEF DestInv, TypeOK, Cut
<1>3. FrameIsImage' /\ OverrunOnlyTooLarge'
  BY DEF FrameIsImage, OverrunOnlyTooLarge
<1> QED BY <1>1, <1>2, <1>3 DEF DestInv

LEMMA EmitInv == DestInv /\ Emit => DestInv'
<1> SUFFICES ASSUME DestInv, Emit PROVE DestInv'
  OBVIOUS
<1> USE DEF Emit
<1>1. /\ buffer \in Seq(Byte) /\ Len(buffer) \in Nat /\ <<image, emitted + 1>> \in Byte
      /\ emitted \in 0..MaxBytes /\ free \in 1..OUTPUT_BUF_SIZE /\ OUTPUT_BUF_SIZE \in Nat
      /\ cursor \in Nat
  BY DestAssumption, LenProperties DEF DestInv, TypeOK, Cut, Byte
<1>2. /\ buffer' \in Seq(Byte) /\ Len(buffer') = Len(buffer) + 1
      /\ \A k \in 1..Len(buffer) : buffer'[k] = buffer[k]
      /\ buffer'[Len(buffer) + 1] = <<image, emitted + 1>>
  BY <1>1, AppendProperties
<1>3. /\ free' = free - 1 /\ free' \in 0..OUTPUT_BUF_SIZE
      /\ Len(buffer') + free' = OUTPUT_BUF_SIZE
      /\ phase' \in {"compress", "full"} /\ (free' > 0 <=> phase' = "compress")
  <2>1. Len(buffer) + free = OUTPUT_BUF_SIZE
    BY DEF DestInv, Cut
  <2>2. free' = free - 1 /\ phase' = IF free' = 0 THEN "full" ELSE "compress"
    OBVIOUS
  <2>3. ASSUME NEW m \in Nat, NEW k \in Nat, m = Len(buffer), k = Len(buffer')
        PROVE  free' \in 0..OUTPUT_BUF_SIZE /\ Len(buffer') + free' = OUTPUT_BUF_SIZE
    <3>1. k = m + 1 /\ m + free = OUTPUT_BUF_SIZE
      BY <1>2, <2>1, <2>3
    <3> HIDE DEF Emit
    <3> QED BY <1>1, <2>2, <2>3, <3>1
  <2>4. Len(buffer') \in Nat
    BY <1>2, LenProperties
  <2>5. free' \in 0..OUTPUT_BUF_SIZE /\ Len(buffer') + free' = OUTPUT_BUF_SIZE
    BY <1>1, <2>3, <2>4
  <2> HIDE DEF Emit
  <2>6. CASE free' = 0
    <3>1. phase' = "full" /\ phase' # "compress"
      BY <2>2, <2>6
    <3>2. ~(free' > 0)
      BY <2>6
    <3> QED BY <2>2, <2>5, <3>1, <3>2, Zenon
  <2>7. CASE free' # 0
    BY <1>1, <2>2, <2>5, <2>7
  <2> QED BY <2>6, <2>7
<1>6. emitted' = emitted + 1 /\ emitted' \in 0..MaxBytes
  BY <1>1, DestAssumption
<1>7. TypeOK'
  BY <1>2, <1>3, <1>6 DEF DestInv, TypeOK
<1>4. Cut'
  <2>1. \A k \in 1..Len(buffer') : k = Len(buffer) + 1 \/ k \in 1..Len(buffer)
    BY <1>1, <1>2
  <2>2. /\ emitted = cursor + Len(buffer)
        /\ \A k \in 1..Len(buffer) : buffer[k] = <<image, cursor + k>>
    BY DEF DestInv, Cut
  <2>3. \A k \in 1..Len(buffer') : buffer'[k] = <<image, cursor + k>>
    BY <1>1, <1>2, <2>1, <2>2
  <2>4. emitted' = cursor + Len(buffer')
    BY <1>1, <1>2, <1>6, <2>2
  <2>5. /\ written = cursor /\ cursor <= Size /\ image \in 1..MaxImages
        /\ \A k \in 1..cursor : tmpframe_[k] = <<image, k>>
    BY DEF DestInv, Cut
  <2> QED BY <1>3, <2>3, <2>4, <2>5 DEF Cut
<1>5. FrameIsImage' /\ OverrunOnlyTooLarge'
  BY DEF FrameIsImage, OverrunOnlyTooLarge
<1> QED BY <1>4, <1>5, <1>7 DEF DestInv

(* The whole buffer is copied, by either of the callbacks. *)
LEMMA CopyAll ==
  ASSUME DestInv, phase \in {"compress", "full"}, NEW n, n = Len(buffer), Copy(n),
         image' = image, emitted' = emitted
  PROVE  /\ n \in Nat /\ cursor' = emitted /\ written' = emitted
         /\ tmpframe_' \in [1..Size -> Byte \cup {Garbage}]
         /\ \A k \in 1..Size : k <= emitted => tmpframe_'[k] = <<image, k>>
<1>1. /\ n \in Nat /\ buffer \in Seq(Byte) /\ cursor \in Nat /\ emitted = cursor + n
      /\ written = cursor /\ Size \in Nat
      /\ tmpframe_ \in [1..Size -> Byte \cup {Garbage}]
      /\ \A k \in 1..n : buffer[k] = <<image, cursor + k>>
      /\ \A k \in 1..cursor : tmpframe_[k] = <<image, k>>
  BY DestAssumption, LenProperties DEF DestInv, TypeOK, Cut
<1>2. \A k \in 1..n : buffer[k] \in Byte
  BY <1>1, ElementOfSeq
<1>3. tmpframe_' = [i \in 1..Size |-> IF i \in cursor + 1 .. cursor + n
                                        THEN buffer[i - cursor] ELSE tmpframe_[i]]
  BY DEF Copy
<1>4. \A i \in cursor + 1 .. cursor + n : i - cursor \in 1..n /\ cursor + (i - cursor) = i
  BY <1>1
<1>5. tmpframe_' \in [1..Size -> Byte \cup {Garbage}]
  BY <1>1, <1>2, <1>3, <1>4
<1>6. ASSUME NEW k \in 1..Size, k <= emitted PROVE tmpframe_'[k] = <<image, k>>
  <2>1. CASE k \in cursor + 1 .. cursor + n
    BY <1>1, <1>3, <1>4, <2>1
  <2>2. CASE k \in 1..cursor
    BY <1>1, <1>3, <2>2
  <2> QED BY <1>1, <1>6, <2>1, <2>2
<1> QED BY <1>1, <1>5, <1>6 DEF Copy

LEMMA EmptyInv == DestInv /\ empty_output_buffer => DestInv'
<1> SUFFICES ASSUME DestInv, empty_output_buffer PROVE DestInv'
  OBVIOUS
<1>1. OUTPUT_BUF_SIZE = Len(buffer) /\ OUTPUT_BUF_SIZE \in Nat \ {0} /\ emitted \in Nat
        /\ Size \in Nat
  BY DestAssumption, LenProperties DEF DestInv, TypeOK, Cut, empty_output_buffer
<1>2. /\ cursor' = emitted /\ written' = emitted
      /\ tmpframe_' \in [1..Size -> Byte \cup {Garbage}]
      /\ \A k \in 1..Size : k <= emitted => tmpframe_'[k] = <<image, k>>
  BY <1>1, CopyAll DEF empty_output_buffer
<1>3. TypeOK'
  BY <1>1, <1>2 DEF DestInv, TypeOK, empty_output_buffer
<1>4. Cut'
  BY <1>1, <1>2 DEF DestInv, Cut, empty_output_buffer
<1>5. FrameIsImage' /\ OverrunOnlyTooLarge'
  BY <1>1, <1>2 DEF FrameIsImage, OverrunOnlyTooLarge, empty_output_buffer
<1> QED BY <1>3, <1>4, <1>5 DEF DestInv

LEMMA TermInv == DestInv /\ term_destination => DestInv'
<1> SUFFICES ASSUME DestInv, term_destination PROVE DestInv'
  OBVIOUS
<1>1. /\ OUTPUT_BUF_SIZE - free = Len(buffer) /\ emitted \in Nat /\ Size \in Nat
      /\ frame \in Seq(Byte \cup {Garbage})
  BY DestAssumption, LenProperties DEF DestInv, TypeOK, Cut, term_destination
<1>2. /\ cursor' = emitted /\ written' = emitted
      /\ tmpframe_' \in [1..Size -> Byte \cup {Garbage}]
      /\ \A k \in 1..Size : k <= emitted => tmpframe_'[k] = <<image, k>>
  BY <1>1, CopyAll DEF term_destination
<1>3. CASE emitted > Size
  <2>1. frame' = frame /\ phase' = "overrun"
    BY <1>1, <1>2, <1>3 DEF term_destination, camera_frame
  <2>2. TypeOK'
    BY <1>1, <1>2, <2>1 DEF DestInv, TypeOK, term_destination
  <2> QED BY <1>1, <1>3, <2>1, <2>2
          DEF DestInv, Cut, FrameIsImage, OverrunOnlyTooLarge, term_destination
<1>4. CASE ~(emitted > Size)
  <2>1. frame' = SubSeq(tmpframe_', 1, emitted) /\ phase' = "idle"
    BY <1>1, <1>2, <1>4 DEF term_destination, camera_frame
  <2>2. \A i \in 1..emitted : i \in 1..Size /\ tmpframe_'[i] \in Byte \cup {Garbage}
    BY <1>1, <1>2, <1>4
  <2>3. /\ frame' \in Seq(Byte \cup {Garbage}) /\ Len(frame') = emitted
        /\ \A i \in 1..emitted : frame'[i] = tmpframe_'[i]
    BY <1>1, <2>1, <2>2, SubSeqProperties
  <2>4. frame' = [k \in 1..emitted |-> <<image, k>>]
    <3>1. frame' \in [1..emitted -> Byte \cup {Garbage}]
      BY <2>3, LenProperties
    <3>2. \A i \in 1..emitted : frame'[i] = <<image, i>>
      BY <1>2, <2>2, <2>3
    <3> QED BY <3>1, <3>2
  <2>5. TypeOK'
    BY <1>1, <1>2, <2>1, <2>3 DEF DestInv, TypeOK, term_destination
  <2> QED BY <2>1, <2>4, <2>5
          DEF DestInv, Cut, FrameIsImage, OverrunOnlyTooLarge, term_destination
<1> QED BY <1>3, <1>4

LEMMA DestIdle == DestInv /\ UNCHANGED vars => DestInv'
BY DEF DestInv, TypeOK, Cut, FrameIsImage, OverrunOnlyTooLarge, vars, dest

-----------------------------------------------------------------------------
(* camera_open *)

DeviceOK ==
  /\ step \in Opening \cup Thread \cup Over
  /\ fits \in BOOLEAN /\ granted \in 0..MaxBuffers
  /\ owner \in [Buffer -> {"unmapped", "program", "queued", "filled"}]
  /\ held \in 0..MaxBuffers /\ failures \in 0..MaxFailures

LEMMA CameraTypeSplit == CameraTypeOK <=> TypeOK /\ DeviceOK
BY Zenon DEF CameraTypeOK, DeviceOK

LEMMA MappedCount ==
  ASSUME CameraTypeOK, NEW n \in 0..MaxBuffers, Mapped(n)
  PROVE  mbuf_count_ = n
<1>1. {b \in Buffer : owner[b] # "unmapped"} = 1..n
  BY CameraAssumption DEF Mapped, Buffer
<1>2. n \in Nat
  BY CameraAssumption
<1>3. Cardinality(1..n) = IF 1 > n THEN 0 ELSE n - 1 + 1
  BY <1>2, FS_Interval
<1>4. mbuf_count_ = Cardinality(1..n)
  BY <1>1 DEF mbuf_count_
<1> QED BY <1>2, <1>3, <1>4

LEMMA CameraInitInv == CameraInit => Inv
<1> SUFFICES ASSUME CameraInit PROVE Inv
  OBVIOUS
<1>1. DestInv
  BY DestInit DEF CameraInit
<1>2. CameraTypeOK
  <2>1. fits \in BOOLEAN
    BY DEF CameraInit
  <2> QED BY <1>1, <2>1, CameraAssumption DEF CameraInit, DestInv, CameraTypeOK, Opening
<1>3. Shared /\ Died
  BY CameraAssumption DEF CameraInit, Shared, Died, Mapped, Buffer, Thread
<1> QED BY <1>1, <1>2, <1>3 DEF Inv

(* Steps that do not touch the buffers, up to the request. *)
LEMMA OpenInv ==
  ASSUME Inv, Open \/ QueryCaps \/ SetFormat PROVE Inv'
<1>1. UNCHANGED vars /\ granted' = granted /\ owner' = owner /\ held' = held
        /\ failures' = failures
  BY DEF Open, QueryCaps, SetFormat, camera
<1>2. fits' \in BOOLEAN
  <2>1. fits \in BOOLEAN
    BY DEF Inv, CameraTypeOK
  <2>2. CASE fits' = fits
    BY <2>1, <2>2
  <2>3. CASE SetFormat
    BY <2>1, <2>3 DEF SetFormat
  <2> QED BY <2>2, <2>3 DEF Open, QueryCaps, camera
<1>3. /\ step' \in {"caps", "format", "request", "failed"}
      /\ step \in {"open", "caps", "format"}
  BY DEF Open, QueryCaps, SetFormat, Goes
<1>4. DestInv'
  BY <1>1, DestIdle DEF Inv
<1>5. CameraTypeOK'
  <2>1. TypeOK'
    BY <1>4 DEF DestInv
  <2> QED BY <1>1, <1>2, <1>3, <2>1, CameraTypeSplit
          DEF Inv, DeviceOK, CameraTypeOK, Opening, Over
<1>6. Shared' /\ Died'
  BY <1>1, <1>3 DEF Inv, Shared, Died, Mapped, Thread
<1> QED BY <1>4, <1>5, <1>6 DEF Inv

(* A step of the program or the driver that leaves the image alone. *)
LEMMA DeviceStep ==
  ASSUME Inv, UNCHANGED vars, fits' = fits,
         step' \in Opening \cup Thread \cup Over, granted' \in 0..MaxBuffers,
         owner' \in [Buffer -> {"unmapped", "program", "queued", "filled"}],
         held' \in 0..MaxBuffers, failures' \in 0..MaxFailures
  PROVE  DestInv' /\ CameraTypeOK'
<1>1. DestInv'
  BY DestIdle DEF Inv
<1>2. fits' \in BOOLEAN
  BY DEF Inv, CameraTypeOK
<1> QED BY <1>1, <1>2, CameraTypeSplit DEF DestInv, DeviceOK, CameraTypeOK

LEMMA RequestInv == ASSUME Inv, RequestBuffers PROVE Inv'
<1> USE DEF RequestBuffers, Goes
<1>1. /\ step = "request" /\ Mapped(0)
      /\ granted \in 0..MaxBuffers /\ held \in 0..MaxBuffers /\ failures \in 0..MaxFailures
      /\ owner \in [Buffer -> {"unmapped", "program", "queued", "filled"}]
  BY DEF Inv, Shared, CameraTypeOK
<1>2. /\ UNCHANGED vars /\ fits' = fits /\ owner' = owner /\ held' = held
      /\ failures' = failures
  OBVIOUS
<1>3. \/ step' = "map" /\ granted' \in 2..MaxBuffers
      \/ step' \in {"failed", "aborted"} /\ granted' \in 0..MaxBuffers
  BY <1>1, CameraAssumption DEF Buffer
<1> HIDE DEF RequestBuffers
<1>4. DestInv' /\ CameraTypeOK'
  BY <1>1, <1>2, <1>3, DeviceStep DEF Opening, Thread, Over
<1>5. Mapped(0)'
  BY <1>1, <1>2 DEF Mapped
<1>6. Shared' /\ Died'
  <2>1. CASE step' = "map"
    <3>0. granted' \in 2..MaxBuffers
      BY <1>3, <2>1
    <3>1. 0 \in 0 .. granted' - 1
      <4>1. \A m \in 2..MaxBuffers : 0 \in 0 .. m - 1
        BY CameraAssumption
      <4> QED BY <3>0, <4>1
    <3>2. (\E n \in 0 .. granted - 1 : Mapped(n))'
      BY <1>5, <3>1
    <3> QED BY <1>3, <2>1, <3>2 DEF Shared, Died, Thread
  <2>2. CASE step' \in {"failed", "aborted"}
    BY <2>2 DEF Shared, Died, Thread
  <2> QED BY <1>3, <2>1, <2>2
<1> QED BY <1>4, <1>6 DEF Inv

LEMMA MapInv == ASSUME Inv, MapBuffer PROVE Inv'
<1>1. /\ step = "map" /\ granted \in 2..MaxBuffers
      /\ held \in 0..MaxBuffers /\ failures \in 0..MaxFailures
      /\ owner \in [Buffer -> {"unmapped", "program", "queued", "filled"}]
  BY DEF Inv, Shared, CameraTypeOK, MapBuffer, Goes
<1>2. PICK n \in 0 .. granted - 1 : Mapped(n)
  BY <1>1 DEF Inv, Shared
<1>3. n \in 0..MaxBuffers /\ n + 1 \in Buffer /\ granted \in Nat /\ n \in Nat
  BY <1>1, <1>2, CameraAssumption DEF Buffer
<1>4. mbuf_count_ = n
  BY <1>2, <1>3, MappedCount DEF Inv
<1>5. /\ UNCHANGED vars /\ fits' = fits /\ granted' = granted /\ held' = held
      /\ failures' = failures
  BY DEF MapBuffer, Device
<1>6. CASE step' \in {"map", "queue"}
  <2>1. owner' = [owner EXCEPT ![n + 1] = "program"] /\ (step' = "queue" <=> n + 1 = granted)
    BY <1>4, <1>6, Zenon DEF MapBuffer
  <2>2. owner' \in [Buffer -> {"unmapped", "program", "queued", "filled"}]
    BY <1>1, <2>1
  <2>3. DestInv' /\ CameraTypeOK'
    BY <1>1, <1>5, <1>6, <2>2, DeviceStep, CameraAssumption DEF Opening
  <2>4. Mapped(n + 1)'
    BY <1>1, <1>2, <1>3, <2>1 DEF Mapped, Buffer
  <2>5. CASE step' = "queue"
    <3>1. Mapped(granted)'
      BY <1>5, <2>1, <2>4, <2>5
    <3> QED BY <1>1, <1>5, <2>3, <2>5, <3>1 DEF Inv, Shared, Died, Thread
  <2>6. CASE step' = "map"
    <3>1. n + 1 \in 0 .. granted' - 1
      BY <1>2, <1>3, <1>5, <2>1, <2>6
    <3>2. (\E m \in 0 .. granted - 1 : Mapped(m))'
      BY <2>4, <3>1
    <3> QED BY <1>1, <1>5, <2>3, <2>6, <3>2 DEF Inv, Shared, Died, Thread
  <2> QED BY <1>6, <2>5, <2>6
<1>7. CASE step' \in {"failed", "aborted"}
  <2>1. owner' = owner
    BY <1>7 DEF MapBuffer
  <2>2. DestInv' /\ CameraTypeOK'
    BY <1>1, <1>5, <1>7, <2>1, DeviceStep, CameraAssumption DEF Over
  <2> QED BY <1>7, <2>2 DEF Inv, Shared, Died, Thread
<1> QED BY <1>6, <1>7 DEF MapBuffer, Goes

LEMMA QueueInv == ASSUME Inv, QueueAll PROVE Inv'
<1>1. /\ step = "queue" /\ granted \in 2..MaxBuffers /\ Mapped(granted)
      /\ held \in 0..MaxBuffers /\ failures \in 0..MaxFailures
      /\ owner \in [Buffer -> {"unmapped", "program", "queued", "filled"}]
  BY DEF Inv, Shared, CameraTypeOK, QueueAll, Goes
<1>2. mbuf_count_ = granted
  BY <1>1, MappedCount, CameraAssumption DEF Inv
<1>3. /\ UNCHANGED vars /\ fits' = fits /\ granted' = granted /\ held' = held
      /\ failures' = failures /\ step' \in {"start", "aborted"}
      /\ owner' = [b \in Buffer |-> IF step' = "start" /\ b <= granted
                                    THEN "queued" ELSE owner[b]]
  BY <1>2 DEF QueueAll, Device, Goes
<1>4. owner' \in [Buffer -> {"unmapped", "program", "queued", "filled"}]
  BY <1>1, <1>3
<1>5. DestInv' /\ CameraTypeOK'
  BY <1>1, <1>3, <1>4, DeviceStep, CameraAssumption DEF Opening, Over
<1>6. CASE step' = "start"
  <2>1. \A b \in Buffer : owner'[b] = IF b <= granted THEN "queued" ELSE owner[b]
    BY <1>3, <1>6
  <2>2. Mapped(granted)'
    BY <1>1, <1>3, <2>1 DEF Mapped
  <2>3. \A b \in 1..granted : b \in Buffer /\ b <= granted
    BY <1>1, CameraAssumption DEF Buffer
  <2>4. \A b \in 1..granted : owner'[b] \in {"queued", "filled"}
    BY <2>1, <2>3
  <2> QED BY <1>1, <1>3, <1>5, <1>6, <2>2, <2>4 DEF Inv, Shared, Died, Thread
<1>7. CASE step' = "aborted"
  BY <1>5, <1>7 DEF Inv, Shared, Died, Thread
<1> QED BY <1>3, <1>6, <1>7

LEMMA StartInv == ASSUME Inv, StartThread \/ StreamOn \/ Select PROVE Inv'
<1>1. /\ UNCHANGED vars /\ fits' = fits /\ granted' = granted /\ owner' = owner
      /\ held' = held /\ failures' = failures
      /\ step \in {"start", "stream", "select"}
      /\ step' \in {"stream", "select", "dequeue"} \cup (Over \ {"faulted"})
  BY DEF StartThread, StreamOn, Select, Goes, camera, Over
<1>2. DestInv' /\ CameraTypeOK'
  BY <1>1, DeviceStep DEF Inv, CameraTypeOK, Opening, Thread
<1>3. Shared' /\ Died'
  BY <1>1 DEF Inv, Shared, Died, Mapped, Thread, Over
<1> QED BY <1>2, <1>3 DEF Inv

-----------------------------------------------------------------------------
(* The driver and the thread *)

LEMMA FillInv == ASSUME Inv, Fill PROVE Inv'
<1>1. /\ UNCHANGED vars /\ fits' = fits /\ granted' = granted
      /\ held' = held /\ failures' = failures /\ step' = step
      /\ step \in Thread \ {"stream"}
  BY DEF Fill, Device
<1>2. PICK b \in Buffer : owner[b] = "queued" /\ owner' = [owner EXCEPT ![b] = "filled"]
  BY DEF Fill
<1>3. /\ owner \in [Buffer -> {"unmapped", "program", "queued", "filled"}]
      /\ granted \in 2..MaxBuffers /\ Mapped(granted)
      /\ held \in 0..MaxBuffers /\ failures \in 0..MaxFailures
  BY <1>1 DEF Inv, CameraTypeOK, Shared
<1>4. \A c \in Buffer : owner'[c] = IF c = b THEN "filled" ELSE owner[c]
  BY <1>2, <1>3
<1>5. DestInv' /\ CameraTypeOK'
  <2>1. owner' \in [Buffer -> {"unmapped", "program", "queued", "filled"}]
    BY <1>2, <1>3
  <2> QED BY <1>1, <1>3, <2>1, DeviceStep, CameraAssumption
<1>6. Mapped(granted)'
  BY <1>1, <1>2, <1>3, <1>4 DEF Mapped
<1>7. \A c \in 1..granted : c \in Buffer
  BY <1>3, CameraAssumption DEF Buffer
<1>8. Shared'
  <2>1. step \in {"select", "dequeue"} => \A c \in 1..granted : owner'[c] \in {"queued", "filled"}
    BY <1>4, <1>7 DEF Inv, Shared
  <2>2. step \in {"compress", "requeue"} =>
          held \in 1..granted /\ owner'[held] = "program" /\ Others'
    BY <1>1, <1>2, <1>4, <1>7 DEF Inv, Shared, Others
  <2> QED BY <1>1, <1>3, <1>6, <2>1, <2>2 DEF Shared, Thread
<1>9. Died'
  BY <1>1 DEF Died, Thread
<1> QED BY <1>5, <1>8, <1>9 DEF Inv

LEMMA DequeueInv == ASSUME Inv, Dequeue PROVE Inv'
<1>1. /\ UNCHANGED vars /\ fits' = fits /\ granted' = granted
      /\ failures' = failures /\ step = "dequeue" /\ step' = "compress"
  BY DEF Dequeue, Goes
<1>2. PICK b \in Buffer : /\ owner[b] = "filled" /\ held' = b
                          /\ owner' = [owner EXCEPT ![b] = "program"]
  BY DEF Dequeue
<1>3. /\ owner \in [Buffer -> {"unmapped", "program", "queued", "filled"}]
      /\ granted \in 2..MaxBuffers /\ Mapped(granted)
      /\ failures \in 0..MaxFailures
      /\ \A c \in 1..granted : owner[c] \in {"queued", "filled"}
  BY <1>1 DEF Inv, CameraTypeOK, Shared, Thread
<1>4. \A c \in Buffer : owner'[c] = IF c = b THEN "program" ELSE owner[c]
  BY <1>2, <1>3
<1>5. b \in 0..MaxBuffers /\ b \in 1..granted
  BY <1>2, <1>3, CameraAssumption DEF Mapped, Buffer
<1>6. DestInv' /\ CameraTypeOK'
  <2>1. owner' \in [Buffer -> {"unmapped", "program", "queued", "filled"}]
    BY <1>2, <1>3
  <2> QED BY <1>1, <1>2, <1>3, <1>5, <2>1, DeviceStep, CameraAssumption DEF Thread
<1>7. Mapped(granted)'
  BY <1>1, <1>2, <1>3, <1>4 DEF Mapped
<1>8. held' \in 1..granted /\ owner'[held'] = "program" /\ Others'
  <2>1. \A c \in 1..granted : c \in Buffer
    BY <1>3, CameraAssumption DEF Buffer
  <2> QED BY <1>1, <1>2, <1>3, <1>4, <1>5, <2>1 DEF Others
<1>9. Shared' /\ Died'
  BY <1>1, <1>3, <1>7, <1>8 DEF Shared, Died, Thread
<1> QED BY <1>6, <1>9 DEF Inv

LEMMA DequeueFailsInv == ASSUME Inv, DequeueFails PROVE Inv'
<1>1. /\ UNCHANGED vars /\ fits' = fits /\ granted' = granted /\ owner' = owner
      /\ held' = held /\ failures' = failures + 1 /\ failures < MaxFailures
      /\ step = "dequeue" /\ step' \in {"select", "faulted"}
  BY DEF DequeueFails, Goes
<1>2. failures \in 0..MaxFailures /\ failures' \in 0..MaxFailures /\ failures' > 0
  BY <1>1, CameraAssumption DEF Inv, CameraTypeOK
<1>3. DestInv' /\ CameraTypeOK'
  BY <1>1, <1>2, DeviceStep DEF Inv, CameraTypeOK, Thread, Over
<1>4. Shared' /\ Died'
  BY <1>1, <1>2 DEF Inv, Shared, Died, Mapped, Thread
<1> QED BY <1>3, <1>4 DEF Inv

(* An image that is too large ends the thread. *)
LEMMA CompressInv == ASSUME Inv, Compress PROVE Inv'
<1>1. /\ fits' = fits /\ granted' = granted /\ owner' = owner
      /\ held' = held /\ failures' = failures /\ step = "compress"
  BY DEF Compress, Compressing, camera
<1>2. DestInv'
  BY DestinationInv, EmitInv, EmptyInv, TermInv DEF Inv, Compress
<1>3. /\ step' \in {"compress", "requeue", "faulted"}
      /\ step' = "faulted" => phase' = "overrun"
  BY <1>1 DEF Compress, Writes
<1>4. CameraTypeOK'
  <2>1. DeviceOK /\ TypeOK'
    BY <1>2, CameraTypeSplit DEF Inv, DestInv
  <2>2. fits' \in BOOLEAN
    BY <1>1, <2>1 DEF DeviceOK
  <2>3. DeviceOK'
    BY <1>1, <1>3, <2>1, <2>2 DEF DeviceOK, Thread, Over
  <2> QED BY <2>1, <2>3, Zenon DEF CameraTypeOK, DeviceOK
<1>5. Shared'
  BY <1>1, <1>3 DEF Inv, Shared, Mapped, Others, Thread
<1>6. Died'
  BY <1>2, <1>3 DEF Died, DestInv, OverrunOnlyTooLarge
<1> QED BY <1>2, <1>4, <1>5, <1>6 DEF Inv

LEMMA ReadsPastInv == ASSUME Inv, ReadsPast PROVE Inv'
<1>1. /\ UNCHANGED vars /\ fits' = fits /\ ~fits /\ granted' = granted /\ owner' = owner
      /\ held' = held /\ failures' = failures /\ step' = "faulted"
  BY DEF ReadsPast, camera
<1>2. DestInv' /\ CameraTypeOK'
  BY <1>1, DeviceStep DEF Inv, CameraTypeOK, Over
<1>3. Shared'
  BY <1>1 DEF Shared, Thread
<1>4. Died'
  BY <1>1, Zenon DEF Died
<1> QED BY <1>2, <1>3, <1>4 DEF Inv

LEMMA RequeueInv == ASSUME Inv, Requeue PROVE Inv'
<1>1. /\ UNCHANGED vars /\ fits' = fits /\ granted' = granted
      /\ held' = held /\ failures' = failures
      /\ step = "requeue" /\ step' \in {"select", "aborted"}
      /\ owner' = IF step' = "select" THEN [owner EXCEPT ![held] = "queued"] ELSE owner
  BY DEF Requeue, Goes, Device
<1>2. /\ owner \in [Buffer -> {"unmapped", "program", "queued", "filled"}]
      /\ granted \in 2..MaxBuffers /\ Mapped(granted)
      /\ failures \in 0..MaxFailures /\ held \in 0..MaxBuffers
      /\ held \in 1..granted /\ owner[held] = "program" /\ Others
  BY <1>1 DEF Inv, CameraTypeOK, Shared, Thread
<1>3. DestInv' /\ CameraTypeOK'
  <2>1. owner' \in [Buffer -> {"unmapped", "program", "queued", "filled"}]
    BY <1>1, <1>2
  <2> QED BY <1>1, <1>2, <2>1, DeviceStep, CameraAssumption DEF Thread, Over
<1>4. CASE step' = "select"
  <2>1. held \in Buffer /\ \A c \in 1..granted : c \in Buffer
    BY <1>2, CameraAssumption DEF Buffer
  <2>2. \A c \in Buffer : owner'[c] = IF c = held THEN "queued" ELSE owner[c]
    BY <1>1, <1>2, <1>4
  <2>3. Mapped(granted)'
    BY <1>1, <1>2, <2>1, <2>2 DEF Mapped
  <2>4. \A c \in 1..granted : owner'[c] \in {"queued", "filled"}
    BY <1>2, <2>1, <2>2 DEF Others
  <2> QED BY <1>1, <1>2, <1>3, <1>4, <2>3, <2>4 DEF Inv, Shared, Died, Thread
<1>5. CASE step' = "aborted"
  BY <1>3, <1>5 DEF Inv, Shared, Died, Thread
<1> QED BY <1>1, <1>4, <1>5

LEMMA SelectFailsInv == ASSUME Inv, SelectFails PROVE Inv'
<1>1. /\ UNCHANGED vars /\ fits' = fits /\ granted' = granted
      /\ held' = held /\ failures' = failures /\ step' \in {"ended", "aborted"}
      /\ owner' = [b \in Buffer |-> IF owner[b] = "unmapped" THEN "unmapped" ELSE "program"]
  BY DEF SelectFails, Goes, Device
<1>2. owner' \in [Buffer -> {"unmapped", "program", "queued", "filled"}]
  BY <1>1
<1>3. DestInv' /\ CameraTypeOK'
  BY <1>1, <1>2, DeviceStep DEF Inv, CameraTypeOK, Over
<1> QED BY <1>1, <1>3 DEF Inv, Shared, Died, Thread

LEMMA StillInv == ASSUME Inv, UNCHANGED cameraVars PROVE Inv'
<1>1. /\ UNCHANGED vars /\ step' = step /\ fits' = fits /\ granted' = granted
      /\ owner' = owner /\ held' = held /\ failures' = failures
  BY DEF cameraVars, camera
<1>2. emitted' = emitted
  BY <1>1 DEF vars
<1>3. DestInv' /\ CameraTypeOK'
  BY <1>1, DeviceStep DEF Inv, CameraTypeOK
<1>4. Shared'
  BY <1>1 DEF Inv, Shared, Mapped, Others
<1>5. Died'
  BY <1>1, <1>2, Zenon DEF Inv, Died
<1> QED BY <1>3, <1>4, <1>5 DEF Inv

LEMMA CameraNextInv == Inv /\ [CameraNext]_cameraVars => Inv'
<1> SUFFICES ASSUME Inv, [CameraNext]_cameraVars PROVE Inv'
  OBVIOUS
<1>1. CASE camera_open
  BY <1>1, OpenInv, RequestInv, MapInv, QueueInv, StartInv DEF camera_open
<1>2. CASE Fill
  BY <1>2, FillInv
<1>3. CASE Loop
  BY <1>3, StartInv, DequeueInv, DequeueFailsInv, CompressInv, ReadsPastInv, RequeueInv
     DEF Loop
<1>4. CASE SelectFails
  BY <1>4, SelectFailsInv
<1>5. CASE UNCHANGED cameraVars
  BY <1>5, StillInv
<1> QED BY <1>1, <1>2, <1>3, <1>4, <1>5 DEF CameraNext, camera__thread_proc

LEMMA CameraInvariant == CameraSpec => []Inv
<1>1. CameraInit => Inv
  BY CameraInitInv
<1>2. Inv /\ [CameraNext]_cameraVars => Inv'
  BY CameraNextInv
<1> QED BY <1>1, <1>2, PTL DEF CameraSpec

-----------------------------------------------------------------------------
(* Theorems *)

(* camera.c:136-247, 262-336, 396-439: the device and the destination      *)
(* manager are in the states their declarations mean; the counter of free  *)
(* bytes goes with what is in the buffer.                                  *)
THEOREM CameraTypeCorrect == CameraSpec => []CameraTypeOK
<1>1. Inv => CameraTypeOK
  BY DEF Inv
<1> QED BY <1>1, CameraInvariant, PTL

(* camera.c:288-336, 405-439: a frame is the image that was compressed     *)
(* last, byte for byte, however often the small buffer was emptied on the  *)
(* way; and the thread only dies of a failed dequeue, an adjusted format   *)
(* or an image larger than its pixels.                                     *)
THEOREM CameraFramesAreImages == CameraSpec => []FramesAreImages
<1>1. Inv => FramesAreImages
  BY DEF Inv, DestInv, Died, FramesAreImages
<1> QED BY <1>1, CameraInvariant, PTL

(* camera.c:146-247, 405-434: the thread runs over buffers that are all    *)
(* mapped, compresses one the driver does not write, and always leaves     *)
(* another to the driver, for any number of buffers.                       *)
THEOREM CameraBuffersShared == CameraSpec => []BuffersShared
<1>1. Inv => BuffersShared
  <2> SUFFICES ASSUME Inv PROVE BuffersShared
    OBVIOUS
  <2>1. ExclusiveRead
    BY DEF Inv, Shared, ExclusiveRead, Compressing
  <2>2. ASSUME step \in Thread PROVE mbuf_count_ = granted
    <3>1. granted \in 0..MaxBuffers /\ Mapped(granted)
      BY <2>2 DEF Inv, CameraTypeOK, Shared
    <3> QED BY <3>1, MappedCount DEF Inv
  <2>3. ASSUME step \in Thread
        PROVE  \E b \in Buffer : owner[b] \in {"queued", "filled"}
    <3>1. granted \in 2..MaxBuffers /\ 1 \in Buffer /\ 2 \in Buffer
      BY <2>3, CameraAssumption DEF Inv, Shared, Buffer
    <3>2. 1 \in 1..granted /\ 2 \in 1..granted
      BY <3>1, CameraAssumption
    <3>3. \E b \in {1, 2} : owner[b] \in {"queued", "filled"}
      <4>1. CASE step \in {"stream", "select", "dequeue"}
        BY <3>2, <4>1 DEF Inv, Shared
      <4>2. CASE step \in {"compress", "requeue"}
        BY <3>2, <4>2 DEF Inv, Shared, Others
      <4> QED BY <2>3, <4>1, <4>2 DEF Thread
    <3> QED BY <3>1, <3>3
  <2> QED BY <2>1, <2>2, <2>3 DEF BuffersShared, DriverHasBuffer
<1> QED BY <1>1, CameraInvariant, PTL

OpenRank ==
  [open |-> 1, caps |-> 2, format |-> 3, request |-> 4, map |-> 5, queue |-> 6, start |-> 7]

(* camera_open is over, further, or has mapped one of the granted buffers. *)
OpenNearer ==
  \/ step' \notin Opening
  \/ OpenRank[step'] > OpenRank[step]
  \/ step' = step /\ granted' = granted /\ mbuf_count_ < mbuf_count_' /\ mbuf_count_' < granted

LEMMA MappedCounts ==
  CameraTypeOK => \A n \in 0..MaxBuffers : Mapped(n) => mbuf_count_ = n
BY MappedCount

LEMMA MappedCountsNext ==
  CameraTypeOK' => \A n \in 0..MaxBuffers : Mapped(n)' => mbuf_count_' = n
<1>1. (CameraTypeOK => \A n \in 0..MaxBuffers : Mapped(n) => mbuf_count_ = n)'
  BY MappedCounts, PTL
<1> QED BY <1>1

(* camera.c:136-247: however the driver answers, every step of camera_open *)
(* brings its end nearer: the loop over the buffers maps one after the     *)
(* other, and stops at the number that was granted.                        *)
THEOREM CameraOpenEnds == CameraSpec => [][camera_open => OpenNearer]_cameraVars
<1>1. Inv /\ Inv' /\ [CameraNext]_cameraVars => [camera_open => OpenNearer]_cameraVars
  <2> SUFFICES ASSUME Inv, Inv', camera_open PROVE OpenNearer
    OBVIOUS
  <2>1. CASE MapBuffer /\ step' = "map"
    <3>1. /\ step = "map" /\ granted \in 2..MaxBuffers /\ granted' = granted
          /\ owner \in [Buffer -> {"unmapped", "program", "queued", "filled"}]
      BY <2>1 DEF Inv, Shared, CameraTypeOK, MapBuffer, Goes, Device
    <3>2. PICK n \in 0 .. granted - 1 : Mapped(n)
      BY <3>1 DEF Inv, Shared
    <3>3. n \in 0..MaxBuffers /\ n + 1 \in 0..MaxBuffers /\ n + 1 \in Buffer
          /\ granted \in Nat /\ n \in Nat
      BY <3>1, <3>2, CameraAssumption DEF Buffer
    <3>4. mbuf_count_ = n
      BY <3>2, <3>3, MappedCount DEF Inv
    <3>5. owner' = [owner EXCEPT ![n + 1] = "program"] /\ ~(n + 1 = granted)
      BY <2>1, <3>4, Zenon DEF MapBuffer
    <3>6. Mapped(n + 1)'
      BY <3>1, <3>2, <3>3, <3>5 DEF Mapped, Buffer
    <3>7. mbuf_count_' = n + 1
      BY <3>3, <3>6, MappedCountsNext DEF Inv
    <3> QED BY <2>1, <3>1, <3>2, <3>3, <3>4, <3>5, <3>7 DEF OpenNearer
  <2>2. CASE MapBuffer /\ step' # "map"
    BY <2>2 DEF MapBuffer, Goes, OpenNearer, OpenRank, Opening
  <2>3. CASE Open \/ QueryCaps \/ SetFormat \/ RequestBuffers
    BY <2>3 DEF Open, QueryCaps, SetFormat, RequestBuffers, Goes, OpenNearer, OpenRank, Opening
  <2>4. CASE QueueAll \/ StartThread
    BY <2>4 DEF QueueAll, StartThread, Goes, OpenNearer, OpenRank, Opening
  <2> QED BY <2>1, <2>2, <2>3, <2>4 DEF camera_open
<1> QED BY <1>1, CameraInvariant, PTL DEF CameraSpec
=============================================================================
