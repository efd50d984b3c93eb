------------------------------- MODULE Timing -------------------------------
(***************************************************************************)
(* The parts whose correctness is a matter of time, on one clock: the      *)
(* renewal loop and the token cache of the client it calls Graph with.     *)
(***************************************************************************)
EXTENDS RenewalClock, TokenCache

vars == <<clockVars, tokenVars>>

Init == ClockInit /\ TokenInit

Next ==
  \/ RenewalStep /\ UNCHANGED tokenVars
  \/ TokenStep /\ UNCHANGED clockVars
  \/ TimePasses /\ TokensAge

Spec == Init /\ [][Next]_vars

TimingTypeOK == ClockTypeOK /\ TokenTypeOK
=============================================================================
