-------------------------- MODULE MCCapacityManager -------------------------
(***************************************************************************)
(* Instance of CapacityManager for TLC: a configuration with room for both    *)
(* RFQs and one with room for either instrument alone.                       *)
(***************************************************************************)
EXTENDS CapacityManager, TLC

MCInstruments == {"spot", "future"}
MCNotional    == [i \in MCInstruments |-> IF i = "spot" THEN 1 ELSE 2]
Limits(q, n, s, f) ==
  [quotes |-> q, notional |-> n, limit |-> [i \in MCInstruments |-> IF i = "spot" THEN s ELSE f]]
MCConfigs     == {Limits(2, 4, 2, 3), Limits(2, 2, 1, 2)}
Symmetry      == Permutations(Calls) \cup Permutations(Rfqs)
=============================================================================
