---------------------------- MODULE MCCarControl ----------------------------
(* Speeds below zero, in the range of the PWM and above it; two to the     *)
(* power of 32 and the range are scaled down together.                     *)
EXTENDS CarControl

MCSpeed == {-1, 3, 7}
=============================================================================
