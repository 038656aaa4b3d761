-------------------------- MODULE MCHistorianWorker --------------------------
(* HistorianWorker on a small instance: one process and its web process. *)
EXTENDS HistorianWorker
=============================================================================
