---------------------- MODULE MCTagRegistryDeployments -----------------------
(***************************************************************************)
(* The two ways TagMaster is deployed: shared by lines, or written by one  *)
(* process without a line name.  They do not mix, so that of all Lines     *)
(* only those `deployed' move.                                             *)
(***************************************************************************)
EXTENDS MCTagRegistry

EitherWay == [l \in {A, B, none} |-> IF l = B THEN {p2} ELSE {p1, p2}]

VARIABLE deployed

Rests(l) == /\ web'[l] = "boot" /\ reconciler'[l] = IdleReconciler
            /\ \A s \in Syncers : syncer'[s].line # l \/ syncer'[s] = IdleSyncer

DeploymentInit == RegistryInit /\ deployed \in {{A, B}, {none}}
DeploymentNext == /\ RegistryNext /\ UNCHANGED deployed
                  /\ \A l \in Lines \ deployed : Rests(l)
DeploymentSpec == DeploymentInit /\ [][DeploymentNext]_<<registryVars, deployed>>
=============================================================================
