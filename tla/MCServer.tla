------------------------------ MODULE MCServer ------------------------------
(* The TLC run of Server; its constants are set in server.cfg. *)
EXTENDS Server
=============================================================================
