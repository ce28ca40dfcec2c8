------------------------------- MODULE BytePipe -------------------------------
(***************************************************************************)
(* What the send side of a connection promises: the bytes that have been   *)
(* handed to it come out in order, none lost and none twice.  A flush that *)
(* the kernel takes only a part of breaks the promise for the bytes handed *)
(* over so far: of them only the number is right.  The next connection     *)
(* begins with what this one has not taken.                                *)
(***************************************************************************)
EXTENDS Naturals, Sequences, SequencesExt

VARIABLES
  handed,    \* what the last connection left, then all bytes handed over
  delivered, \* those the kernel has taken
  mixed      \* how many of the first may come out in a wrong order

pipe == <<handed, delivered, mixed>>

Init == handed = <<>> /\ delivered = <<>> /\ mixed = 0

(* Behind the first m, the bytes of out are those of in. *)
Right(in, out, m) ==
  /\ Len(out) <= Len(in)
  /\ \A i \in (m + 1)..Len(out) : out[i] = in[i]

(* Bytes are handed over, taken, or both, in order. *)
Pass ==
  /\ IsPrefix(handed, handed') /\ IsPrefix(delivered, delivered')
  /\ Right(handed', delivered', mixed)
  /\ mixed' = mixed

(* A flush takes some of the bytes that are waiting, but not all. *)
Split ==
  /\ handed' = handed /\ IsPrefix(delivered, delivered')
  /\ Len(delivered) < Len(delivered') /\ Len(delivered') < Len(handed)
  /\ Right(handed, delivered', mixed)
  /\ mixed' = Len(handed)

Reconnect ==
  /\ Len(handed') = Len(handed) - Len(delivered)
  /\ \A i \in 1..Len(handed') :
       Len(delivered) + i > mixed => handed'[i] = handed[Len(delivered) + i]
  /\ delivered' = <<>> /\ mixed' = 0

Next == Pass \/ Split \/ Reconnect

Spec == Init /\ [][Next]_pipe
=============================================================================
