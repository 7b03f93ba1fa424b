------------------------ MODULE MCMultiLegExecution ------------------------
(***************************************************************************)
(* Instance of MultiLegExecution for TLC.                                    *)
(***************************************************************************)
EXTENDS MultiLegExecution
=============================================================================
