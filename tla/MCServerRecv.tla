---------------------------- MODULE MCServerRecv ----------------------------
(* Two-byte headers <<pkg_id_, body_len_>> and a limit of two body bytes:  *)
(* of the four byte values, read as lengths, 3 is over the limit.  The     *)
(* buffer is as small as RecvAssumption allows.                            *)
EXTENDS ServerRecv

MCHeaderBodyLen == [h \in [1..PACKAGE_HEAD_LEN -> Byte] |-> h[PACKAGE_HEAD_LEN]]
=============================================================================
