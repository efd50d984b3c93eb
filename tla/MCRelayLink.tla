----------------------------- MODULE MCRelayLink -----------------------------
(* Instances of RelayLink for TLC: two add-ons share the relay. *)
EXTENDS RelayLink
CONSTANTS dev, prod
=============================================================================
