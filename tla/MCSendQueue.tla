------------------------------ MODULE MCSendQueue ------------------------------
(* Values for the constants of SendQueue: two frames whose bytes can be    *)
(* told apart.                                                             *)
EXTENDS SendQueue

MCByte == {"a1", "a2", "a3", "b1", "b2"}
MCFrame == {<<"a1", "a2", "a3">>, <<"b1", "b2">>}
=============================================================================
