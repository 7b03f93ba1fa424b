---------------------------- MODULE MCRfqWorkflow ----------------------------
(***************************************************************************)
(* Instance of RfqServedAlone for TLC.  Requests are interchangeable.          *)
(***************************************************************************)
EXTENDS RfqServedAlone, TLC

CONSTANTS q1, q2

TaskSymmetry == Permutations(Tasks)
=============================================================================
