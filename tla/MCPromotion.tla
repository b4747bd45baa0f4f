----------------------------- MODULE MCPromotion -----------------------------
(***************************************************************************)
(* Small instances of Promotion: "dev" has policy auto, "prod" has its own *)
(* repository (imageCopy).                                                 *)
(***************************************************************************)
EXTENDS Promotion, TLC

CONSTANTS dev, prod, shared, own

\* dev -> prod, the chain of the examples.
TwoRepositories == (dev :> shared @@ prod :> own)
=============================================================================
