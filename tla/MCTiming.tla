------------------------------ MODULE MCTiming ------------------------------
(* Instances of Timing for TLC: times in small units. *)
EXTENDS Timing
CONSTANTS s1, s2, watcher, renewer
=============================================================================
