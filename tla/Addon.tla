-------------------------------- MODULE Addon --------------------------------
(***************************************************************************)
(* The add-on's process (main.py): it loads the pair, runs its tasks, and  *)
(* at SIGTERM cancels them, waits for each and cleans up.  The relay task  *)
(* (relay_ws_client.py) is modelled down to the await it is cancelled at;  *)
(* of the others it matters here only that they end when cancelled.        *)
(***************************************************************************)
EXTENDS CertStore, HealthPublisher

CONSTANT Workers  \* calendar-watcher and subscription-renewer, as configured

Tasks == {"relay", "publisher"} \cup Workers

ASSUME WorkersAssumption == Workers \cap {"relay", "publisher"} = {}

VARIABLES
  main,       \* _amain: "down", "start", "run", "join" or "cleanup"
  alive,      \* tasks that have not ended
  cancelled,  \* tasks whose cancellation is about to be delivered
  link        \* the relay task: "sleep", "dial", "listen", or "reap" its pinger

vars == <<certVars, healthVars, main, alive, cancelled, link>>

AddonTypeOK ==
  /\ CertTypeOK /\ HealthTypeOK
  /\ main \in {"down", "start", "run", "join", "cleanup"}
  /\ alive \subseteq Tasks /\ cancelled \subseteq alive
  /\ (main \in {"down", "start", "run"} => cancelled = {})
  /\ link \in {"sleep", "dial", "listen", "reap"}

Init ==
  /\ CertInit /\ HealthInit
  /\ main = "down" /\ alive = {} /\ cancelled = {} /\ link = "dial"

Starts ==
  /\ main = "down" /\ main' = "start" /\ BeginLoad
  /\ UNCHANGED <<healthVars, alive, cancelled, link>>

(* load_or_generate, then the tasks. *)
Loading ==
  /\ main = "start" /\ LoadStep
  /\ IF loading' = "done"
       THEN main' = "run" /\ alive' = Tasks /\ link' = "dial"
       ELSE UNCHANGED <<main, alive, link>>
  /\ UNCHANGED <<healthVars, cancelled>>

Exit ==
  /\ main' = "down" /\ ForgetPair /\ ForgetHealth
  /\ alive' = {} /\ cancelled' = {} /\ link' = "dial"

(* The exception of a pair that cannot be loaded or saved ends the process. *)
StartFails == main = "start" /\ loading \in {"failed", "error"} /\ Exit

(***************************************************************************)
(* RelayWSClient.run and _run_once.                                        *)
(***************************************************************************)
Runs(t) == t \in alive \ cancelled

(* The loop of run goes on to its sleep. *)
LoopEnds == link' = "sleep" /\ Update("link", FALSE)

Sleeps == link = "sleep" /\ link' = "dial" /\ UNCHANGED healthVars
Dials == link = "dial" /\ (LoopEnds \/ (link' = "listen" /\ Update("link", TRUE)))

(* The pinger has ended: its CancelledError is passed over. *)
Reaped == link = "reap" /\ LoopEnds

RelayStep ==
  /\ Runs("relay")
  /\ Sleeps \/ Dials \/ Reaped
  /\ UNCHANGED <<certVars, main, alive, cancelled>>

(* The connection ends or a handler raises: the pinger is cancelled and
   awaited. *)
ConnectionEnds ==
  /\ Runs("relay") /\ link = "listen" /\ link' = "reap"
  /\ UNCHANGED <<certVars, healthVars, main, alive, cancelled>>

Publishes ==
  /\ Runs("publisher") /\ PublishStep
  /\ UNCHANGED <<certVars, main, alive, cancelled, link>>

(* Another task reports something. *)
Activity ==
  /\ alive # {} /\ health.activity < MaxActivity
  /\ Update("activity", health.activity + 1)
  /\ UNCHANGED <<certVars, main, alive, cancelled, link>>

(***************************************************************************)
(* SIGTERM, cancellation, the joining of tasks, the cleanup.               *)
(***************************************************************************)
Signalled ==
  /\ main = "run" /\ main' = "join" /\ cancelled' = alive
  /\ UNCHANGED <<certVars, healthVars, alive, link>>

(* Mutant: whatever a cancelled connection raises, run goes on. *)
Swallows_Listening(t) == t = "relay" /\ link \in {"listen", "reap"}

(* A cancellation that finds the relay task at "await pinger" is taken for
   the pinger's own, and passed over. *)
Swallows(t) == t = "relay" /\ link = "reap"

CancelDelivered(t) ==
  /\ t \in cancelled /\ cancelled' = cancelled \ {t}
  /\ IF Swallows(t) THEN LoopEnds /\ UNCHANGED alive
                    ELSE alive' = alive \ {t} /\ UNCHANGED <<healthVars, link>>
  /\ UNCHANGED <<certVars, main>>

Joined ==
  /\ main = "join" /\ alive = {} /\ main' = "cleanup"
  /\ UNCHANGED <<certVars, healthVars, alive, cancelled, link>>

(* cleanup_all ends, in ten seconds at most. *)
CleanedUp == main = "cleanup" /\ Exit

Killed == main # "down" /\ Exit

MainStep == Loading \/ StartFails \/ Joined \/ CleanedUp

HomeAssistant == HandledLate /\ UNCHANGED <<certVars, main, alive, cancelled, link>>

Next ==
  \/ Starts \/ MainStep \/ Signalled \/ Killed
  \/ RelayStep \/ ConnectionEnds \/ Publishes \/ Activity \/ HomeAssistant
  \/ \E t \in Tasks : CancelDelivered(t)

Spec == Init /\ [][Next]_vars

(* The event loop runs every task on and delivers every cancellation; signals,
   kills, starts and ends of connections are nobody's duty. *)
FairSpec ==
  /\ Spec
  /\ WF_vars(MainStep) /\ WF_vars(RelayStep) /\ WF_vars(Publishes) /\ WF_vars(HomeAssistant)
  /\ \A t \in Tasks : WF_vars(CancelDelivered(t))

(***************************************************************************)
(* Properties.                                                             *)
(***************************************************************************)

(* If the relay's connection settles, up or down, and the others have nothing
   more to report, the sensors end up telling so, though posts are lost or
   handled late and an earlier process left them at other values. *)
SensorsAgree ==
  /\ <>[](main = "run") /\ <>[][UNCHANGED health.activity]_vars
  => /\ <>[](link = "listen") => <>[](shown.link)
     /\ <>[](link \in {"sleep", "dial"}) => <>[](~shown.link)
     /\ <>[](shown.activity = health.activity)

(* Once main has cancelled its tasks, it gets past them to the cleanup,
   unless the cancellation finds the relay task awaiting its pinger. *)
StopEnds == main = "join" /\ "relay" \in cancelled /\ link # "reap" ~> main # "join"

(* Claim: a stop always gets to the cleanup, which deletes every held
   subscription (README.md:19 "On clean shutdown, all held subscriptions are
   DELETEd from Graph"); main.py waits for every task it cancelled. *)
StopCleansUp == main = "join" ~> main # "join"
=============================================================================
