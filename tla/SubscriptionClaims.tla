------------------------- MODULE SubscriptionClaims -------------------------
(***************************************************************************)
(* Sentences of the add-on's documentation and comments about the life of  *)
(* subscriptions that its code does not keep.                              *)
(***************************************************************************)
EXTENDS SubscriptionProperties

Missing(room) ==
  /\ proc = "up" /\ calendar[room] # NoEvent
  /\ current[room] = calendar[room] /\ IdsOfRoom(bySubscription, room) = {}

(* "will recreate next poll" (subscription_manager.py:101): a watched meeting
   whose record was dropped gets a new subscription. *)
RecreatedNextPoll ==
  Settled => \A room \in Rooms : Missing(room) ~> ~Missing(room)

Stale(room) ==
  /\ proc = "up"
  /\ \E id \in IdsOfRoom(bySubscription, room) : bySubscription[id] # calendar[room]

(* "on startup the records are available so the manager can DELETE any that no
   longer correspond to a watched meeting" (subscription_store.py:23). *)
StaleRecordsDeleted ==
  Settled => \A room \in Rooms : Stale(room) ~> ~Stale(room)

(* "The add-on's shutdown path DELETEs every held subscription so hand-off
   between instances is clean" (architecture.md:79). *)
HandoffClean == proc = "stopped" => live = EmptyRegistry

(* "Poll each configured room mailbox's calendarView" (architecture.md:13): a
   mailbox that answers is read, whatever the others do. *)
EveryMailboxPolled ==
  Settled /\ <>[](proc = "up") =>
    \A room \in Rooms \ FailingMailboxes : <>(current[room] = calendar[room])
=============================================================================
