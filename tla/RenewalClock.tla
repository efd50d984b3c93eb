---------------------------- MODULE RenewalClock ----------------------------
(***************************************************************************)
(* The renewal loop of subscription_manager.py against the clock: records  *)
(* are looked at once a period and renewed when they expire within the     *)
(* headroom, while the watcher holds the lock for a time, calls take time, *)
(* and some rounds are cut short by a lost answer.  SubscriptionLifecycle  *)
(* says which steps interleave, this module how long they take.            *)
(***************************************************************************)
EXTENDS Integers

CONSTANTS
  Subs,      \* subscriptions
  Lifetime,  \* subscription_lifetime_minutes
  Headroom,  \* renewal_headroom_minutes
  Period,    \* renewal_check_seconds
  Hold,      \* bound on the time a task holds the manager's lock
  Grace      \* bound on the time lost with rounds that are cut short

(* From one round's look at the records to the end of the next, at most. *)
Cycle == Period + 2 * Hold

ASSUME ClockAssumption ==
  /\ {Lifetime, Headroom, Period, Hold, Grace} \subseteq Nat
  /\ Headroom >= Cycle + 2 * Hold + Grace
  /\ Lifetime > Cycle + Hold + Grace

VARIABLES
  held,     \* subscriptions with a record
  expires,  \* time until the record's expires_at, 0 once it has passed
  round,    \* the renewal task: "sleep", "lock" or "renew"
  timer,    \* how long it has been there
  list,     \* due records of the round not renewed yet
  loaded,   \* records of the file that are due and not renewed since the start
  grace     \* what is left of Grace

clockVars == <<held, expires, round, timer, list, loaded, grace>>

ClockTypeOK ==
  /\ held \subseteq Subs /\ loaded \subseteq held
  /\ list \subseteq (IF round = "renew" THEN held ELSE {})
  /\ expires \in [Subs -> 0..Lifetime]
  /\ round \in {"sleep", "lock", "renew"}
  /\ timer \in 0..(IF round = "sleep" THEN Period ELSE Hold)
  /\ grace \in 0..Grace

ClockInit ==
  /\ held = {} /\ list = {} /\ loaded = {}
  /\ expires = [i \in Subs |-> 0]
  /\ round = "lock" /\ timer = 0 /\ grace = Grace

Enter(place) == round' = place /\ timer' = 0

Wakes ==
  /\ round = "sleep" /\ timer = Period
  /\ Enter("lock")
  /\ UNCHANGED <<held, expires, list, loaded, grace>>

(* Mutant: records are due once they have expired. *)
Due_Late == {i \in held : expires[i] <= 0}

(* The deadline is taken before the wait for the lock, the list after it. *)
Due == {i \in held : expires[i] <= Headroom - timer}

Locked ==
  /\ round = "lock" /\ Enter("renew")
  /\ list' = Due /\ loaded' = loaded \cap Due
  /\ UNCHANGED <<held, expires, grace>>

(* A record made or renewed now asked for its expiry when the call began. *)
Asked(i, waited) == \E d \in 0..waited : expires' = [expires EXCEPT ![i] = Lifetime - d]

Renewed(i) ==
  /\ round = "renew" /\ i \in list
  /\ Asked(i, timer)
  /\ list' = list \ {i} /\ loaded' = loaded \ {i}
  /\ UNCHANGED <<held, round, timer, grace>>

(* Mutant: a dropped record keeps its turn in the list. *)
Refused_Listed(i) ==
  /\ round = "renew" /\ i \in list
  /\ held' = held \ {i} /\ loaded' = loaded \ {i}
  /\ UNCHANGED <<expires, round, timer, list, grace>>

(* GraphAuthError: the record is dropped. *)
Refused(i) ==
  /\ round = "renew" /\ i \in list
  /\ held' = held \ {i} /\ list' = list \ {i} /\ loaded' = loaded \ {i}
  /\ UNCHANGED <<expires, round, timer, grace>>

RoundEnds ==
  /\ round = "renew" /\ list = {}
  /\ Enter("sleep")
  /\ UNCHANGED <<held, expires, list, loaded, grace>>

(* Any other exception: the rest waits for the next round. *)
RoundLost ==
  /\ round = "renew" /\ list # {}
  /\ grace >= Cycle /\ grace' = grace - Cycle
  /\ Enter("sleep") /\ list' = {}
  /\ UNCHANGED <<held, expires, loaded>>

(* The watcher, who has the lock while the renewal task sleeps or waits. *)
Created(i) ==
  /\ round # "renew" /\ i \notin held
  /\ held' = held \cup {i} /\ Asked(i, Hold)
  /\ UNCHANGED <<round, timer, list, loaded, grace>>

Deleted(i) ==
  /\ round # "renew" /\ i \in held
  /\ held' = held \ {i} /\ loaded' = loaded \ {i}
  /\ UNCHANGED <<expires, round, timer, list, grace>>

After(time) ==
  [i \in Subs |-> IF expires[i] > time THEN expires[i] - time ELSE 0]

(* A new process loads the records and renews at once. *)
Restarts ==
  /\ \E down \in 0..Lifetime : expires' = After(down)
  /\ loaded' = held /\ list' = {} /\ Enter("lock")
  /\ UNCHANGED <<held, grace>>

(* A sleep, a wait for the lock and a hold of it end in time. *)
TimePasses ==
  /\ timer < (IF round = "sleep" THEN Period ELSE Hold)
  /\ timer' = timer + 1
  /\ expires' = After(1)
  /\ UNCHANGED <<held, round, list, loaded, grace>>

RenewalStep ==
  \/ Wakes \/ Locked \/ RoundEnds \/ RoundLost \/ Restarts
  \/ \E i \in Subs : Renewed(i) \/ Refused(i) \/ Created(i) \/ Deleted(i)

ClockSpec == ClockInit /\ [][RenewalStep \/ TimePasses]_clockVars

(* No record passes its expires_at in a running add-on, however its rounds fall
   and though as many are lost as Grace has room for.  (A record loaded at the
   start may have passed it while nothing ran.) *)
RenewedInTime == \A i \in held \ loaded : expires[i] > 0
=============================================================================
