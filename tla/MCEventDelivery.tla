--------------------------- MODULE MCEventDelivery --------------------------
(***************************************************************************)
(* Instance of EventDelivery for TLC: two position updates, of two messages   *)
(* each, from two requests; a third message finds the channel full.          *)
(***************************************************************************)
EXTENDS EventDelivery

MCEvents == {"p", "q"}
MCParts  == [e \in MCEvents |-> 2]
=============================================================================
