---------------------------- MODULE MCDeployment ----------------------------
(***************************************************************************)
(* Instances of Deployment for TLC.                                        *)
(***************************************************************************)
EXTENDS Deployment, TLC

\* Services of the same mode are alike.
ServiceSymmetry == Permutations(Services)
=============================================================================
