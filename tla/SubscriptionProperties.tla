----------------------- MODULE SubscriptionProperties -----------------------
(***************************************************************************)
(* What must be true of the life of subscriptions (SubscriptionLifecycle). *)
(***************************************************************************)
EXTENDS SubscriptionLifecycle

(* A room never has two records: on_meeting_change looks only at the first
   (_existing_for_room), so a second one would never be deleted nor its
   notifications stop, and both the watcher and the renewer write the store. *)
OneRecordPerRoom ==
  \A room \in Rooms : \A i, j \in IdsOfRoom(bySubscription, room) : i = j

(* The index by meeting is the exact inverse of the registry, through every
   order of upsert, renewal, removal and reload (subscription_store.py). *)
IndexAgrees ==
  \A e \in Events, id \in SubIds : byMeeting[e] = id <=> bySubscription[id] = e

(* While the add-on runs, a record enters the store only when the answer to
   the watcher's POST does: a renewal in flight never brings back a record
   that was deleted meanwhile (the lock of _renew_due). *)
NoResurrection ==
  [][proc = "up" =>
       \A id \in Ids(bySubscription') \ Ids(bySubscription) :
         w.pc = "postReply" /\ w.sub = id]_vars

(* While the add-on runs, the record of the meeting a room is watching goes
   only because Graph refused its renewal. *)
WatchedNotDropped ==
  [][proc = "up" /\ proc' = "up" =>
       \A id \in Ids(bySubscription) \ Ids(bySubscription') :
         \/ current[EventRoom[bySubscription[id]]] # bySubscription[id]
         \/ r.pc = "patchReply" /\ r.sub = id /\ r.reply = "refused"]_vars

Spent(kind) == Budget[kind] - left[kind]
FaultsSpent ==
  Spent("graph") + Spent("disk") + Spent("crash") + Spent("stop") + Spent("lapse")

(* Subscriptions at Graph that neither the process nor its file knows. *)
Orphans ==
  {id \in Ids(live) : /\ bySubscription[id] = NoEvent /\ disk[id] = NoEvent
                      /\ ~(w.pc = "postReply" /\ w.sub = id)}

(* A lost answer, a failed save, a crash or a stop costs at most one
   subscription that lives on at Graph unknown to the add-on. *)
OneOrphanPerFault == Cardinality(Orphans) <= FaultsSpent

(* on_meeting_change is at work for the room. *)
Busy(room) ==
  w.room = room /\ w.pc \in {"lock", "delete", "deleteReply", "post", "postReply"}

(* The meeting the watcher knows of has no subscription that is recorded and
   alive: nothing will tell the room that it begins. *)
Deaf(room) ==
  /\ current[room] # NoEvent /\ ~Busy(room)
  /\ \A id \in SubIds : ~(bySubscription[id] = current[room] /\ live[id] = current[room])

UrlsOfOneRoom ==
  \A e, f \in Events : EventUrl[e] = EventUrl[f] => EventRoom[e] = EventRoom[f]

(* Until the first restart (while the add-on is down, Graph may drop anything),
   a faulty answer, a failed save or a dropped subscription costs at most one
   room its notifications, however rounds, renewals and meetings go on: no task
   takes another room's subscription with it. *)
OneRoomPerFault ==
  UrlsOfOneRoom /\ proc = "up" /\ Spent("stop") = 0 /\ Spent("crash") = 0
    => Cardinality({room \in Rooms : Deaf(room)}) <= FaultsSpent

(* The lock is held by a task that was just handed it or has a call in flight:
   no exception, cancellation or restart leaves it held by nobody (each task
   takes it with "async with"), and the renewal task has a record to go on with. *)
LockNotLeaked ==
  /\ holder = "watcher" => w.pc \in {"lock", "delete", "deleteReply", "post", "postReply"}
  /\ holder = "renewer" =>
       \/ r.pc = "lock"
       \/ r.pc \in {"patch", "patchReply"} /\ Ids(r.list) # {}

(* A stop that meets no fault leaves no record in the file: the next start
   has nothing stale to load (cleanup_all). *)
CleanStopLeavesNoRecord ==
  proc = "stopped" /\ (\A kind \in {"graph", "disk", "crash"} : Spent(kind) = 0)
    => disk = EmptyRegistry

Differences(S, T) == (S \ T) \cup (T \ S)

(* The records that active_subscriptions or next_subscription_renewal has wrong:
   counted but gone, not counted, or by an expires_at it had before. *)
WrongFigures ==
  Differences(reported.active, Ids(bySubscription))
    \cup Differences(reported.expiries, Ids(bySubscription))
FiguresTrue == WrongFigures = {}

(* While the renewal task sleeps, the published figures have at most one record
   wrong for each save that ever failed, and none if none did: a failed save
   under the watcher is the one path that skips _update_health. *)
HealthAgrees ==
  proc = "up" /\ r.pc = "sleep" => Cardinality(WrongFigures) <= Spent("disk")

(* Figures that a failed save left wrong come right while the add-on runs: the
   renewal loop reports after each iteration, however that one ended. *)
FiguresMended == proc = "up" /\ ~FiguresTrue ~> FiguresTrue \/ proc # "up"

(* The watcher always gets through the lock: a renewal iteration, however
   its calls end, releases it. *)
ChangeServed == w.pc = "lock" ~> w.pc # "lock"

Waiting(id) == proc = "up" /\ id \in due /\ id \in Ids(bySubscription)

(* The record's renewal, or that of one before it in the dict, always fails. *)
BehindFailing(id) ==
  \E j \in {id} \cup older[id] : bySubscription[j] \in FailingRenewals

(* A record within the headroom is renewed, dropped or left to a restart, whatever
   single faults end iterations early.  One whose renewal fails every time, by
   another exception than GraphAuthError, holds up those after it in the dict's
   order for good, but never one before it. *)
DueServed == \A id \in SubIds : Waiting(id) ~> ~Waiting(id) \/ BehindFailing(id)

Settled == <>[][UNCHANGED calendar]_vars

(* A failing mailbox ends the round before the rooms configured after it. *)
Served == {room \in Rooms : \A failing \in FailingMailboxes : room < failing}

(* If the calendars settle and nothing fails, the add-on ends up with exactly the subscription
   of the meeting of every room that is polled, live at Graph, in the file,
   and no other. *)
InStep ==
  /\ \A room \in Served : {bySubscription[id] : id \in IdsOfRoom(bySubscription, room)}
                           = {calendar[room]} \ {NoEvent}
  /\ live = bySubscription /\ disk = bySubscription
Converges ==
  Settled /\ <>[](proc = "up") /\ [](FaultsSpent = 0) => <>[]InStep

(* RoomRegistry is what the lifecycle implements: a room's slot is its record. *)
Slots(reg) ==
  [room \in Rooms |-> IF IdsOfRoom(reg, room) = {} THEN NoEvent
                      ELSE reg[CHOOSE id \in SubIds : id \in IdsOfRoom(reg, room)]]
Registered == INSTANCE RoomRegistry WITH
  held <- Slots(bySubscription), saved <- Slots(disk),
  running <- proc \in {"up", "stopping"}

(* Each step of the watcher, the renewer, the cleanup or main changes at most
   one room's slot, from empty to full or back, or none. *)
RefinesRoomRegistry == Registered!Spec

(***************************************************************************)
(* The inductive invariant behind OneRecordPerRoom and the action          *)
(* properties: what the lock protects while a call is in flight.           *)
(***************************************************************************)
OnePerRoom(reg) ==
  \A i, j \in Ids(reg) : EventRoom[reg[i]] = EventRoom[reg[j]] => i = j

StoreInv == OnePerRoom(bySubscription) /\ OnePerRoom(disk) /\ IndexAgrees

OfTheirRoom(meetings) ==
  \A room \in Rooms : meetings[room] # NoEvent => EventRoom[meetings[room]] = room

(* Replacing a room's record: it is the room's own until it is removed, and
   nothing takes its place before the POST is answered. *)
WatcherInLock ==
  /\ w.pc \in {"delete", "deleteReply"} =>
       /\ holder = "watcher" /\ w.sub \in IdsOfRoom(bySubscription, w.room)
       /\ bySubscription[w.sub] # current[w.room]
  /\ w.pc \in {"post", "postReply"} =>
       /\ holder = "watcher" /\ current[w.room] # NoEvent
       /\ IdsOfRoom(bySubscription, w.room) = {}
  /\ w.pc = "postReply" /\ w.reply = "ok" => w.sub \in SubIds \ Ids(bySubscription)

(* The renewer's snapshot stays true of the store. *)
RenewerInLock ==
  /\ r.pc \in {"patch", "patchReply"} =>
       /\ holder = "renewer"
       /\ \A id \in Ids(r.list) : bySubscription[id] = r.list[id]
  /\ r.pc = "patchReply" => r.sub \in Ids(r.list)

TasksOnlyWhileUp == proc # "up" => w.pc = "idle" /\ r.pc = "idle"

(* The invariant the proofs induct on (SubscriptionManager._lock at work). *)
IInv ==
  /\ TypeOK
  /\ StoreInv
  /\ OfTheirRoom(calendar) /\ OfTheirRoom(current)
  /\ WatcherInLock /\ RenewerInLock /\ TasksOnlyWhileUp
=============================================================================
