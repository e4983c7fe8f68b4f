---------------------------- MODULE MC_AuditTrail ----------------------------
(* Four requests over three starts of the exchange. *)
EXTENDS AuditTrail
=============================================================================
