----------------------------- MODULE MCFixOrders -----------------------------
(***************************************************************************)
(* Instance of FixOrders for TLC: an order and a quote request that share     *)
(* the session and a channel of one message.                                 *)
(***************************************************************************)
EXTENDS FixOrders
=============================================================================
