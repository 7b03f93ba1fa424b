-------------------------- MODULE MCResourceLocking --------------------------
(***************************************************************************)
(* Instance of ResourceLocking for TLC: a quote (rank 1), two accounts       *)
(* (2, 3), and requests that share some of them.                             *)
(***************************************************************************)
EXTENDS ResourceLocking

\* Every resource has a key of its own.
DistinctKeys == [r \in Resources |-> r]
=============================================================================
