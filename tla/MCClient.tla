------------------------------ MODULE MCClient ------------------------------
(* One caller whose policy allows no attempt, one that may retry once. *)
EXTENDS Client
CONSTANTS t0, t2
MCMaxAttempts == [t \in Callers |-> IF t = t0 THEN 0 ELSE 2]
=============================================================================
