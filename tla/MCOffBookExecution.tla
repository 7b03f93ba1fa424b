------------------------- MODULE MCOffBookExecution -------------------------
(***************************************************************************)
(* Instance of BlockTradeReporting for TLC: trades are interchangeable, and  *)
(* so are workers.                                                           *)
(***************************************************************************)
EXTENDS BlockTradeReporting, TLC

Symmetry == Permutations(Trades) \cup Permutations(Workers)
=============================================================================
