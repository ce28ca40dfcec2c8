------------------------------- MODULE JpegDest -------------------------------
(***************************************************************************)
(* camera_frame and camera__compress_to_jpeg: libjpeg writes an image into *)
(* a small buffer, and the destination manager of camera.c copies it,      *)
(* whenever the buffer is full and at the end, to tmpframe_, from where it *)
(* is copied into the frame.  tmpframe_ and the counter written are kept   *)
(* from one image to the next.                                             *)
(*                                                                         *)
(* A byte is the number of its image and its place in it.                  *)
(***************************************************************************)
EXTENDS Integers, Sequences

CONSTANTS
  OUTPUT_BUF_SIZE,
  Size,     \* bytes of tmpframe_: three for each pixel
  MaxBytes, \* bound: bytes of an image
  MaxImages \* bound: images that are compressed

ASSUME DestAssumption ==
  /\ OUTPUT_BUF_SIZE \in Nat \ {0} /\ Size \in Nat
  /\ MaxBytes \in Nat /\ MaxImages \in Nat

VARIABLES
  phase,     \* "idle", "compress", "full", or "overrun": out of tmpframe_
  image,     \* the image being compressed
  emitted,   \* the bytes libjpeg has emitted of it
  buffer,    \* dest->buffer, up to next_output_byte
  free,      \* dest->pub.free_in_buffer
  tmpframe_,
  cursor,    \* dest->outbuffer_cursor, from the start of tmpframe_
  written,
  frame      \* what camera_frame returned last

dest == <<buffer, free, tmpframe_, cursor, written>>
vars == <<phase, image, emitted, dest, frame>>

Byte == (1..MaxImages) \X (1..MaxBytes)
Garbage == <<0, 0>>

TypeOK ==
  /\ phase \in {"idle", "compress", "full", "overrun"}
  /\ image \in 0..MaxImages /\ emitted \in 0..MaxBytes
  /\ buffer \in Seq(Byte) /\ free \in 0..OUTPUT_BUF_SIZE
  /\ phase \in {"compress", "full"} => Len(buffer) + free = OUTPUT_BUF_SIZE
  /\ tmpframe_ \in [1..Size -> Byte \cup {Garbage}]
  /\ cursor \in Nat /\ written \in Nat
  /\ frame \in Seq(Byte \cup {Garbage})

Init ==
  /\ phase = "idle" /\ image = 0 /\ emitted = 0
  /\ buffer = <<>> /\ free = 0
  /\ tmpframe_ = [i \in 1..Size |-> Garbage]
  /\ cursor = 0 /\ written = 0
  /\ frame = <<>>

(* memcpy(outbuffer_cursor, buffer, n), and both counters move on.         *)
Copy(n) ==
  /\ cursor' = cursor + n /\ written' = written + n
  /\ tmpframe_' = [i \in 1..Size |-> IF i \in cursor + 1 .. cursor + n
                                       THEN buffer[i - cursor] ELSE tmpframe_[i]]

(* Up to jpeg_start_compress, which calls init_destination: the cursor is  *)
(* set to the start of tmpframe_ for each image.                           *)
camera__compress_to_jpeg ==
  /\ phase = "idle" /\ image < MaxImages
  /\ image' = image + 1 /\ emitted' = 0
  /\ cursor' = 0

(* After the compression: written bytes of tmpframe_ become a new frame.   *)
camera_frame ==
  frame' = IF written' > Size THEN frame ELSE SubSeq(tmpframe_', 1, written')

mutInitKeepsWritten ==
  /\ camera__compress_to_jpeg
  /\ buffer' = <<>> /\ free' = OUTPUT_BUF_SIZE
  /\ phase' = "compress"
  /\ UNCHANGED <<tmpframe_, written, frame>>

init_destination ==
  /\ camera__compress_to_jpeg
  /\ written' = 0 /\ buffer' = <<>> /\ free' = OUTPUT_BUF_SIZE
  /\ phase' = "compress"
  /\ UNCHANGED <<tmpframe_, frame>>

(* libjpeg stores a byte, and asks for a new buffer when none is free.     *)
Emit ==
  /\ phase = "compress" /\ emitted < MaxBytes
  /\ emitted' = emitted + 1
  /\ buffer' = Append(buffer, <<image, emitted'>>) /\ free' = free - 1
  /\ phase' = IF free' = 0 THEN "full" ELSE "compress"
  /\ UNCHANGED <<image, tmpframe_, cursor, written, frame>>

empty_output_buffer ==
  /\ phase = "full"
  /\ Copy(OUTPUT_BUF_SIZE)
  /\ buffer' = <<>> /\ free' = OUTPUT_BUF_SIZE
  /\ phase' = IF cursor' > Size THEN "overrun" ELSE "compress"
  /\ UNCHANGED <<image, emitted, frame>>

(* jpeg_finish_compress calls term_destination, and camera_frame goes on.  *)
term_destination ==
  /\ phase = "compress"
  /\ Copy(OUTPUT_BUF_SIZE - free)
  /\ phase' = IF cursor' > Size THEN "overrun" ELSE "idle"
  /\ camera_frame
  /\ UNCHANGED <<image, emitted, buffer, free>>

-----------------------------------------------------------------------------
(* Properties *)

(* camera.c:288-336, 431-438: the frame is the image, all of its bytes in  *)
(* their order and nothing of the image before.                            *)
FrameIsImage ==
  phase = "idle" => frame = [k \in 1..emitted |-> <<image, k>>]

(* camera.c:311, 333: tmpframe_ only overflows when the image is really    *)
(* larger than the pixels, not because of the size of the buffer.          *)
OverrunOnlyTooLarge == phase = "overrun" => emitted > Size
=============================================================================
