--------------------------- MODULE MCPushDelivery ---------------------------
(***************************************************************************)
(* PushDelivery with two endpoints and a dispatch after another; what two  *)
(* dispatches at a time do to the store is proved in PushDelivery_proofs.  *)
(***************************************************************************)
EXTENDS PushDelivery
=============================================================================
