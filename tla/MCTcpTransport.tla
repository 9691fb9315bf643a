--------------------------- MODULE MCTcpTransport ---------------------------
(* TLC instances of TcpTransport. *)
EXTENDS TcpTransport, TLC

\* Calls that no constant tells apart are interchangeable.
CallSymmetry == Permutations(Calls \ (Malformed \cup Cancellable))
=============================================================================
