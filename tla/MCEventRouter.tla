---------------------------- MODULE MCEventRouter ----------------------------
(* Instances of EventRouter for TLC: model values for its constants. *)
EXTENDS EventRouter
CONSTANTS s1, s2, kitchen, office
=============================================================================
