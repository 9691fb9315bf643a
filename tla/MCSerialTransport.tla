------------------------- MODULE MCSerialTransport -------------------------
(* TLC instances of SerialTransport. *)
EXTENDS SerialTransport
=============================================================================
