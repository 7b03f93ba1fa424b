--------------------------- MODULE MCRfqLifecycle ---------------------------
(***************************************************************************)
(* Instance of RfqLifecycle for TLC: two quotes of this RFQ and one that     *)
(* answers another RFQ.                                                      *)
(***************************************************************************)
EXTENDS RfqLifecycle

CONSTANTS q1, q2, q3
=============================================================================
