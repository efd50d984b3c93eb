------------------------------ MODULE MCAddon ------------------------------
(* Instances of Addon for TLC: one task stands for watcher and renewer. *)
EXTENDS Addon
CONSTANTS p1, p2, p3
=============================================================================
