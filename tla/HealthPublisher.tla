--------------------------- MODULE HealthPublisher ---------------------------
(***************************************************************************)
(* health.py and health_publisher.py: the figures the tasks share, and the *)
(* task that takes a snapshot of them every 30 seconds and posts it to     *)
(* Home Assistant, one sensor after the other.  Of the figures, two stand  *)
(* for all: the relay's connection, and the activity the others report.    *)
(***************************************************************************)
EXTENDS Naturals, Sequences

CONSTANTS
  MaxActivity,  \* bound on the changes of the activity in a process
  MaxLosses     \* bound on the posts to Home Assistant that fail

ASSUME HealthAssumption == MaxActivity \in Nat /\ MaxLosses \in Nat

VARIABLES
  health,  \* Health
  snap,    \* the snapshot _publish_once is posting
  at,      \* the sensor it has come to, 0 while run sleeps
  shown,   \* the sensors' states in Home Assistant
  late,    \* posts given up by the add-on that Home Assistant may still handle
  losses   \* posts that may yet fail

healthVars == <<health, snap, at, shown, late, losses>>

Sensors == <<"link", "activity">>
Figures == [link : BOOLEAN, activity : 0..MaxActivity]
NoFigures == [link |-> FALSE, activity |-> 0]

HealthTypeOK ==
  /\ {health, snap, shown} \subseteq Figures
  /\ at \in 0..Len(Sensors)
  /\ late \subseteq ({"link"} \X BOOLEAN) \cup ({"activity"} \X (0..MaxActivity))
  /\ losses \in 0..MaxLosses

HealthInit ==
  /\ health = NoFigures /\ snap = NoFigures /\ shown = NoFigures
  /\ at = 0 /\ late = {} /\ losses = MaxLosses

Update(name, value) ==
  /\ health' = [health EXCEPT ![name] = value]
  /\ UNCHANGED <<snap, at, shown, late, losses>>

TakesSnapshot ==
  /\ at = 0 /\ at' = 1 /\ snap' = health
  /\ UNCHANGED <<health, shown, late, losses>>

(* Mutant: one sensor too many. *)
NextSensor_TooFar == at' = IF at <= Len(Sensors) THEN at + 1 ELSE 0

NextSensor == at' = IF at < Len(Sensors) THEN at + 1 ELSE 0

(* A failed post is logged and the next one made; Home Assistant may have
   handled it, or do so later. *)
Posts ==
  /\ at > 0 /\ NextSensor
  /\ LET name == Sensors[at] IN
     \/ /\ shown' = [shown EXCEPT ![name] = snap[name]]
        /\ UNCHANGED <<late, losses>>
     \/ /\ losses > 0 /\ losses' = losses - 1
        /\ late' \in {late, late \cup {<<name, snap[name]>>}}
        /\ UNCHANGED shown
  /\ UNCHANGED <<health, snap>>

(* Mutant: only what changed since the last snapshot is posted. *)
PublishStep_Changes ==
  \/ at = 0 /\ snap # health /\ TakesSnapshot
  \/ Posts

PublishStep == TakesSnapshot \/ Posts

HandledLate ==
  /\ \E p \in late : shown' = [shown EXCEPT ![p[1]] = p[2]] /\ late' = late \ {p}
  /\ UNCHANGED <<health, snap, at, losses>>

(* A new process has new figures; Home Assistant keeps the old. *)
ForgetHealth ==
  /\ health' = NoFigures /\ snap' = NoFigures /\ at' = 0
  /\ UNCHANGED <<shown, late, losses>>
=============================================================================
