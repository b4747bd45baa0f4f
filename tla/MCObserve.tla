----------------------------- MODULE MCObserve -----------------------------
(***************************************************************************)
(* Two environments in one project, whose services have names of their     *)
(* own, next to a service without a manifest.                              *)
(***************************************************************************)
EXTENDS Observe, TLC

CONSTANTS dev, prod, api, image, other

MCProject == dev :> "project" @@ prod :> "project"
MCRunName == dev :> (api :> "api-dev") @@ prod :> (api :> "api-prod")
MCDigest == image :> "d1" @@ other :> "d2"
OneOrTwo == {<<100>>, <<90, 10>>}
Three == {<<100>>, <<40, 30, 30>>}
=============================================================================
