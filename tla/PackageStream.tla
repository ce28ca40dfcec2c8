----------------------------- MODULE PackageStream -----------------------------
(***************************************************************************)
(* What the receiving half of a connection promises: the stream is cut     *)
(* into packages from its beginning, each begins where the last one ended, *)
(* and every package that is whole is handed on before more bytes are      *)
(* received.  No package is the beginning of another, so the packages are  *)
(* a function of the bytes, whatever pieces they arrive in.                *)
(***************************************************************************)
EXTENDS Naturals, Sequences, SequencesExt

CONSTANT Package  \* the sequences of bytes that are one package

VARIABLES
  bytes,    \* received in this connection, and what the last one left
  taken,    \* how many of them have been handed on
  delivered \* as which packages

Piece(n) == SubSeq(bytes, taken + 1, taken + n)
Lengths == 1 .. Len(bytes) - taken

NoneIsWhole == \A n \in Lengths : Piece(n) \notin Package

Init == bytes = <<>> /\ taken = 0 /\ delivered = <<>>

Receive ==
  /\ NoneIsWhole
  /\ IsPrefix(bytes, bytes')
  /\ UNCHANGED <<taken, delivered>>

Deliver ==
  \E n \in Lengths :
    /\ Piece(n) \in Package
    /\ delivered' = Append(delivered, Piece(n))
    /\ taken' = taken + n
    /\ bytes' = bytes

Connect == taken' = 0 /\ delivered' = <<>> /\ NoneIsWhole'

Next == Receive \/ Deliver \/ Connect

Spec == Init /\ [][Next]_<<bytes, taken, delivered>>
=============================================================================
