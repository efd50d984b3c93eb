---------------------------- MODULE RelayService ----------------------------
(***************************************************************************)
(* What the relay promises, whatever its table, its pages and the events   *)
(* of API Gateway do: a connection that listens does so until it ends, and *)
(* a broadcast is acknowledged when everyone who has listened since it     *)
(* began was reached or cost a failure.                                    *)
(***************************************************************************)
EXTENDS Naturals

CONSTANT Conns  \* connections

VARIABLES
  listening,  \* connections that are open and registered, for all to see
  casting,    \* a broadcast is under way
  owed,       \* those it still has to reach
  failed      \* failures so far

serviceVars == <<listening, casting, owed, failed>>

Init == listening = {} /\ casting = FALSE /\ owed = {} /\ failed = 0

Register(k) ==
  /\ listening' = listening \cup {k}
  /\ UNCHANGED <<casting, owed, failed>>

(* The connection ends by itself, or because its client failed. *)
End(k) ==
  /\ listening' = listening \ {k} /\ owed' = owed \ {k}
  /\ failed' \in {failed, failed + 1}
  /\ UNCHANGED casting

Begin ==
  /\ ~casting /\ casting' = TRUE /\ owed' = listening
  /\ UNCHANGED <<listening, failed>>

(* A connection is posted to, or its call fails. *)
Reach(k) == casting /\ owed' = owed \ {k} /\ UNCHANGED <<listening, casting, failed>>
Skip(k) ==
  /\ casting /\ owed' = owed \ {k} /\ failed' = failed + 1
  /\ UNCHANGED <<listening, casting>>

Acknowledge ==
  /\ casting /\ owed = {} /\ casting' = FALSE
  /\ UNCHANGED <<listening, owed, failed>>
GiveUp ==
  /\ casting /\ casting' = FALSE /\ owed' = {} /\ failed' = failed + 1
  /\ UNCHANGED listening

(* A hello or a disconnect that fails: nothing else is lost by it. *)
Fail == failed' = failed + 1 /\ UNCHANGED <<listening, casting, owed>>

Next ==
  \/ Begin \/ Acknowledge \/ GiveUp \/ Fail
  \/ \E k \in Conns : Register(k) \/ End(k) \/ Reach(k) \/ Skip(k)

Spec == Init /\ [][Next]_serviceVars
=============================================================================
