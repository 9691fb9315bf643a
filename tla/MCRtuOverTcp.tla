---------------------------- MODULE MCRtuOverTcp ----------------------------
(* TLC instances of RtuOverTcp. *)
EXTENDS RtuOverTcp
=============================================================================
