--------------------------- MODULE RebuildContract ---------------------------
(***************************************************************************)
(* What the historian runtime promises to whoever changes the registry     *)
(* (the "rebuild acknowledgement contract" of the Phase 4.11A slice 3      *)
(* notes): every committed change gets a generation, and a generation is   *)
(* acknowledged only after the tags were loaded from a registry that has   *)
(* it; pending says whether the latest generation still is to be.          *)
(* Processes, pipes, retries and crashes are not seen at this level.       *)
(***************************************************************************)
EXTENDS Naturals

VARIABLES
    requested,  \* generations notified so far
    loaded,     \* the latest generation some load of the tags has covered
    acked,      \* the latest generation acknowledged in full
    pending     \* a rebuild is owed

contractVars == <<requested, loaded, acked, pending>>

ContractInit == requested = 0 /\ loaded = 0 /\ acked = 0 /\ pending = FALSE

Request ==
    /\ requested' = requested + 1
    /\ pending' = TRUE
    /\ UNCHANGED <<loaded, acked>>

Load ==
    /\ loaded' = requested
    /\ UNCHANGED <<requested, acked, pending>>

Acknowledge(g) ==
    /\ acked < g /\ g <= loaded
    /\ acked' = g
    /\ pending' = (g < requested)
    /\ UNCHANGED <<requested, loaded>>

ContractNext == Request \/ Load \/ \E g \in 1..loaded : Acknowledge(g)

ContractSpec == ContractInit /\ [][ContractNext]_contractVars
=============================================================================
