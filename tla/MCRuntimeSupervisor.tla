------------------------- MODULE MCRuntimeSupervisor -------------------------
(* RuntimeSupervisor on a small instance. *)
EXTENDS RuntimeSupervisor
=============================================================================
