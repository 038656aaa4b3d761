------------------------- MODULE MCHistorianRuntime -------------------------
(* HistorianRuntime on a small instance. *)
EXTENDS HistorianRuntime
=============================================================================
