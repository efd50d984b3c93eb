-------------------------- MODULE MCSubscriptions --------------------------
(* Instances of SubscriptionLifecycle for TLC: event ids by room. *)
EXTENDS SubscriptionClaims, TLC

CONSTANTS s1, s2, s3, a1, a2, b1, Graph, Disk, Crashes, Stops, Lapses

MCBudget == [graph |-> Graph, disk |-> Disk, crash |-> Crashes,
             stop |-> Stops, lapse |-> Lapses]

(* Two rooms; a1 and a2 are meetings of room 1, b1 of room 2. *)
MCEventRoom == [e \in Events |-> IF e = b1 THEN 2 ELSE 1]
MCEventUrl == [e \in Events |-> IF e = b1 THEN "urlB" ELSE "urlA"]

(* At most this many faults, of whatever kinds, in one behaviour. *)
CONSTANT MaxFaults
FewFaults == FaultsSpent <= MaxFaults

(* A calendar changes only just before it is read: any other moment gives the
   same behaviour of everything but the calendar itself, which none of the
   properties mentions but Converges, for calendars that change no more. *)
CalendarChangesLate ==
  \A room \in Rooms : calendar'[room] # calendar[room] =>
    proc = "up" /\ w.pc = "get" /\ w.room = room

MCSymmetry == Permutations(SubIds)
=============================================================================
