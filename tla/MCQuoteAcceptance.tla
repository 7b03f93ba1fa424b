-------------------------- MODULE MCQuoteAcceptance --------------------------
(***************************************************************************)
(* Instance of QuoteAcceptance for TLC.  No symmetry: LocksEnd is a liveness *)
(* property.                                                                 *)
(***************************************************************************)
EXTENDS QuoteAcceptance
=============================================================================
