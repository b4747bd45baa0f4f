----------------------------- MODULE MCDelivery -----------------------------
(***************************************************************************)
(* One service with two images; Prod and Dev start with the same one.      *)
(***************************************************************************)
EXTENDS Delivery
=============================================================================
