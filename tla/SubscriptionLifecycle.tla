------------------------ MODULE SubscriptionLifecycle ------------------------
(***************************************************************************)
(* The life of the add-on's Graph subscriptions: the calendar watcher, the *)
(* subscription manager with its asyncio.Lock, the renewal loop, shutdown  *)
(* and restart, over the store and Graph.                                  *)
(*                                                                         *)
(* One step runs from one await to the next.  An HTTP call is two steps:   *)
(* it takes effect at Graph (pc "delete", "post", "patch"), then its       *)
(* answer is handled (pc "deleteReply", ...), so that anything, a crash or *)
(* a cancellation included, may come between the two.                      *)
(***************************************************************************)
EXTENDS SubscriptionStore, GraphService

CONSTANTS
  FailingMailboxes,  \* rooms whose calendarView is never answered
  FailingRenewals    \* events whose subscription's PATCH is never answered

ASSUME MailboxesAssumption == FailingMailboxes \subseteq Rooms
ASSUME RenewalsAssumption == FailingRenewals \subseteq Events

VARIABLES
  proc,      \* the add-on's process: "up", "stopping", "stopped", "crashed"
  calendar,  \* the meeting in each room's look-ahead window, at Graph
  current,   \* CalendarWatcher._current
  w,         \* the watcher task, with the on_meeting_change it awaits
  r,         \* the renewal task
  c,         \* cleanup_all, in the main task
  holder,    \* who holds SubscriptionManager._lock
  reported   \* the records the last _update_health counted, and those of them
             \* whose expires_at is still the one it saw

taskVars == <<w, r, c, holder>>
vars == <<bySubscription, byMeeting, disk, due, older, live, left,
          proc, calendar, current, w, r, c, holder, reported>>

(* pc "get" is both the sleep before a round and the await of the GET. *)
Watcher(pc, room) == [pc |-> pc, room |-> room, sub |-> NoSub, reply |-> "none"]
Renewer(pc, seen) ==
  [pc |-> pc, seen |-> seen, list |-> EmptyRegistry, sub |-> NoSub, reply |-> "none"]
Figures(active, expiries) == [active |-> active, expiries |-> expiries]
Cleanup(todo) == [todo |-> todo, sub |-> NoSub, reply |-> "none"]

WatcherStates ==
  [pc : {"idle", "get", "lock", "delete", "deleteReply", "post", "postReply"},
   room : Rooms, sub : SubOrNone, reply : Replies]
RenewerStates ==
  [pc : {"idle", "sleep", "lock", "patch", "patchReply"},
   seen : SUBSET SubIds, list : Registry, sub : SubOrNone, reply : Replies]
CleanupStates == [todo : SUBSET SubIds, sub : SubOrNone, reply : Replies]

TypeOK ==
  /\ StoreTypeOK /\ GraphTypeOK
  /\ left \in [Kinds -> Nat]
  /\ proc \in {"up", "stopping", "stopped", "crashed"}
  /\ calendar \in [Rooms -> EventOrNone]
  /\ current \in [Rooms -> EventOrNone]
  /\ w \in WatcherStates /\ r \in RenewerStates /\ c \in CleanupStates
  /\ holder \in {"free", "watcher", "renewer"}
  /\ reported \in [active : SUBSET SubIds, expiries : SUBSET SubIds]

Init ==
  /\ StoreInit /\ GraphInit
  /\ left = Budget
  /\ proc = "stopped"
  /\ calendar \in {cal \in [Rooms -> EventOrNone] :
       \A room \in Rooms : cal[room] # NoEvent => EventRoom[cal[room]] = room}
  /\ current = [room \in Rooms |-> NoEvent]
  /\ w = Watcher("idle", 1) /\ r = Renewer("idle", {}) /\ c = Cleanup({})
  /\ holder = "free"
  /\ reported = Figures({}, {})

(***************************************************************************)
(* The lock: asyncio.Lock is first in, first out, and two tasks contend.   *)
(***************************************************************************)
(* Mutant: nobody waits for the lock. *)
LockFree_Ignored(self) == TRUE

LockFree(self) == holder \in {"free", self}

(* Mutant: the renewal loop keeps the lock. *)
RenewerReleases_Never == UNCHANGED holder

(* Mutant: the watcher keeps the lock. *)
WatcherReleases_Never == UNCHANGED holder

WatcherReleases == holder' = IF r.pc = "lock" THEN "renewer" ELSE "free"
RenewerReleases == holder' = IF w.pc = "lock" THEN "watcher" ELSE "free"

UpdateHealth == reported' = Figures(Ids(bySubscription'), Ids(bySubscription'))

(* The record gets another expires_at, the figures stay. *)
Rewritten(id) == reported' = [reported EXCEPT !.expiries = @ \ {id}]

(***************************************************************************)
(* CalendarWatcher.run and _poll_once.                                     *)
(***************************************************************************)
(* Mutant: a meeting that disappears is not a change. *)
Changed_OnlyNew(previous, meeting) == meeting # NoEvent /\ previous # meeting

Changed(previous, meeting) == previous # meeting

EndRound == w' = Watcher("get", 1)
(* Mutant: one room too many. *)
NextRoom_TooFar == w' = Watcher("get", IF w.room <= NRooms THEN w.room + 1 ELSE 1)

NextRoom == w' = Watcher("get", IF w.room < NRooms THEN w.room + 1 ELSE 1)

PollRoom ==
  /\ proc = "up" /\ w.pc = "get" /\ w.room \notin FailingMailboxes
  /\ LET meeting == calendar[w.room] IN
     \/ /\ Changed(current[w.room], meeting)
        /\ current' = [current EXCEPT ![w.room] = meeting]
        /\ w' = Watcher("lock", w.room)
     \/ /\ ~Changed(current[w.room], meeting)
        /\ NextRoom
        /\ UNCHANGED current
  /\ UNCHANGED <<storeVars, live, left, proc, calendar, r, c, holder, reported>>

(* _find_meeting raises: the rest of the round is skipped. *)
PollFails ==
  /\ proc = "up" /\ w.pc = "get"
  /\ \/ w.room \in FailingMailboxes /\ UNCHANGED left
     \/ w.room \notin FailingMailboxes /\ UseUp("graph")
  /\ EndRound
  /\ UNCHANGED <<storeVars, live, proc, calendar, current, r, c, holder, reported>>

(***************************************************************************)
(* SubscriptionManager.on_meeting_change, awaited by the watcher.          *)
(***************************************************************************)
(* Mutant: the room's record is looked up by its new meeting. *)
ExistingForRoom_ByMeeting(room) ==
  {IF current[room] = NoEvent THEN NoSub ELSE byMeeting[current[room]]}

ExistingForRoom(room) ==
  LET found == IdsOfRoom(bySubscription, room)
  IN  IF found = {} THEN {NoSub} ELSE found

(* Mutant: any record of the room will do for its new meeting. *)
NothingToDo_AnyRecord(existing, meeting) == existing = NoSub <=> meeting = NoEvent

NothingToDo(existing, meeting) ==
  IF existing = NoSub THEN meeting = NoEvent
                      ELSE bySubscription[existing] = meeting

(* Mutant: the new subscription is created before the old one is deleted. *)
FirstCall_CreateFirst(existing, meeting) ==
  IF meeting = NoEvent THEN "delete" ELSE "post"

FirstCall(existing, meeting) == IF existing = NoSub THEN "post" ELSE "delete"

ChangeLocked ==
  /\ proc = "up" /\ w.pc = "lock" /\ LockFree("watcher")
  /\ \E existing \in ExistingForRoom(w.room) :
       \/ /\ NothingToDo(existing, current[w.room])
          /\ NextRoom /\ WatcherReleases
       \/ /\ ~NothingToDo(existing, current[w.room])
          /\ holder' = "watcher"
          /\ w' = [w EXCEPT !.pc = FirstCall(existing, current[w.room]),
                            !.sub = existing]
  /\ UNCHANGED <<storeVars, live, left, proc, calendar, current, r, c, reported>>

WatcherDelete ==
  /\ proc = "up" /\ w.pc = "delete"
  /\ \E reply \in Replies :
       /\ DeleteCall(w.sub, reply)
       /\ w' = [w EXCEPT !.pc = "deleteReply", !.reply = reply]
  /\ UNCHANGED <<storeVars, proc, calendar, current, r, c, holder, reported>>

(* An exception other than GraphAuthError leaves _delete and ends the round,
   with the record still in the store; so does a save that fails, without
   it. *)
WatcherDeleted ==
  /\ proc = "up" /\ w.pc = "deleteReply"
  /\ \/ /\ w.reply = "lost"
        /\ EndRound /\ WatcherReleases
        /\ UNCHANGED <<storeVars, left, reported>>
     \/ /\ w.reply # "lost" /\ Remove(w.sub, TRUE) /\ UpdateHealth
        /\ IF current[w.room] = NoEvent
             THEN NextRoom /\ WatcherReleases
             ELSE w' = Watcher("post", w.room) /\ UNCHANGED holder
     \/ /\ w.reply # "lost" /\ Remove(w.sub, FALSE)
        /\ EndRound /\ WatcherReleases
        /\ UNCHANGED reported
  /\ UNCHANGED <<live, proc, calendar, current, r, c>>

(* Ids that nothing in the system names any more. *)
Forgotten ==
  {id \in SubIds : /\ live[id] = NoEvent /\ bySubscription[id] = NoEvent
                   /\ disk[id] = NoEvent /\ r.list[id] = NoEvent}

WatcherPost ==
  /\ proc = "up" /\ w.pc = "post"
  /\ \E id \in Forgotten, reply \in Replies :
       /\ PostCall(current[w.room], id, reply)
       /\ w' = [w EXCEPT !.pc = "postReply", !.reply = reply,
                         !.sub = IF reply = "ok" THEN id ELSE NoSub]
  /\ UNCHANGED <<storeVars, proc, calendar, current, r, c, holder, reported>>

WatcherPosted ==
  /\ proc = "up" /\ w.pc = "postReply"
  /\ \/ /\ w.reply = "ok" /\ Upsert(w.sub, current[w.room], TRUE) /\ UpdateHealth
        /\ NextRoom
     \/ /\ w.reply = "ok" /\ Upsert(w.sub, current[w.room], FALSE)
        /\ EndRound
        /\ Rewritten(w.sub)
     \/ /\ w.reply = "refused" /\ NextRoom
        /\ UNCHANGED <<storeVars, left, reported>>
     \/ /\ w.reply = "lost" /\ EndRound
        /\ UNCHANGED <<storeVars, left, reported>>
  /\ WatcherReleases
  /\ UNCHANGED <<live, proc, calendar, current, r, c>>

(***************************************************************************)
(* SubscriptionManager.run_renewal_loop and _renew_due.  The deadline is   *)
(* taken before the wait for the lock (seen); the records are those of the *)
(* moment it is acquired (list), dealt with in the dict's order.  However  *)
(* the iteration ends, _update_health follows.                             *)
(***************************************************************************)
(* Mutant: the renewal loop runs once. *)
RenewerEnds_Once == r' = Renewer("idle", {}) /\ RenewerReleases /\ UpdateHealth

(* Mutant: an iteration ends without _update_health. *)
RenewerEnds_Silent == r' = Renewer("sleep", {}) /\ RenewerReleases /\ UNCHANGED reported

RenewerEnds == r' = Renewer("sleep", {}) /\ RenewerReleases /\ UpdateHealth

RenewerWakes ==
  /\ proc = "up" /\ r.pc = "sleep"
  /\ r' = Renewer("lock", due)
  /\ UNCHANGED <<storeVars, live, left, proc, calendar, current, w, c, holder, reported>>

DueRecords ==
  [id \in SubIds |-> IF id \in r.seen \cap due THEN bySubscription[id] ELSE NoEvent]

RenewerLocked ==
  /\ proc = "up" /\ r.pc = "lock" /\ LockFree("renewer")
  /\ \/ /\ DueRecords = EmptyRegistry
        /\ UNCHANGED bySubscription
        /\ RenewerEnds
     \/ /\ DueRecords # EmptyRegistry
        /\ r' = [r EXCEPT !.pc = "patch", !.seen = {}, !.list = DueRecords]
        /\ holder' = "renewer"
        /\ UNCHANGED <<bySubscription, reported>>
  /\ UNCHANGED <<byMeeting, disk, due, older, live, left, proc, calendar, current, w, c>>

(* Mutant: the last record comes first. *)
First_Last(list) == {id \in Ids(list) : \A j \in Ids(list) \ {id} : j \in older[id]}

First(list) == {id \in Ids(list) : older[id] \cap Ids(list) = {}}

RenewalCall(id, reply) ==
  \/ r.list[id] \in FailingRenewals /\ reply = "lost" /\ UNCHANGED <<live, left>>
  \/ r.list[id] \notin FailingRenewals /\ PatchCall(id, reply)

RenewerPatch ==
  /\ proc = "up" /\ r.pc = "patch"
  /\ \E id \in First(r.list), reply \in Replies :
       /\ RenewalCall(id, reply)
       /\ r' = [r EXCEPT !.pc = "patchReply", !.sub = id, !.reply = reply]
  /\ UNCHANGED <<storeVars, proc, calendar, current, w, c, holder, reported>>

(* The rest of the iteration, once the record r.sub is dealt with. *)
NextDue ==
  LET rest == [r.list EXCEPT ![r.sub] = NoEvent] IN
  IF rest = EmptyRegistry
    THEN RenewerEnds
    ELSE /\ r' = [r EXCEPT !.pc = "patch", !.list = rest, !.sub = NoSub, !.reply = "none"]
         /\ Rewritten(r.sub)
         /\ UNCHANGED holder

(* Mutant: every exception is taken for a refusal. *)
RenewalRefused_AnyError(reply) == reply \in {"refused", "lost"}

RenewalRefused(reply) == reply = "refused"

(* An exception other than GraphAuthError, a failed save included, gives up
   the remaining records until the next iteration. *)
RenewerPatched ==
  /\ proc = "up" /\ r.pc = "patchReply"
  /\ \/ /\ r.reply = "ok" /\ Upsert(r.sub, r.list[r.sub], TRUE)
        /\ NextDue
     \/ /\ r.reply = "ok" /\ Upsert(r.sub, r.list[r.sub], FALSE)
        /\ RenewerEnds
     \/ /\ RenewalRefused(r.reply) /\ Remove(r.sub, TRUE)
        /\ NextDue
     \/ /\ RenewalRefused(r.reply) /\ Remove(r.sub, FALSE)
        /\ RenewerEnds
     \/ /\ r.reply = "lost" /\ UNCHANGED <<storeVars, left>>
        /\ RenewerEnds
  /\ UNCHANGED <<live, proc, calendar, current, w, c>>

(***************************************************************************)
(* main: start, SIGTERM, cleanup_all, exit; and a crash.                   *)
(***************************************************************************)
Start ==
  /\ proc \in {"stopped", "crashed"}
  /\ proc' = "up"
  /\ Load
  /\ current' = [room \in Rooms |-> NoEvent]
  /\ w' = Watcher("get", 1) /\ r' = Renewer("lock", due)
  /\ UNCHANGED <<live, left, calendar, c, holder, reported>>

(* Every task is cancelled at the await it is in; the lock is released. *)
Stop ==
  /\ proc = "up" /\ UseUp("stop")
  /\ proc' = "stopping"
  /\ w' = Watcher("idle", 1) /\ r' = Renewer("idle", {}) /\ holder' = "free"
  /\ c' = Cleanup(Ids(bySubscription))
  /\ UNCHANGED <<storeVars, live, calendar, current, reported>>

(* The process is gone and its memory with it. *)
Ends(how) ==
  /\ proc' = how
  /\ Forget
  /\ current' = [room \in Rooms |-> NoEvent]
  /\ w' = Watcher("idle", 1) /\ r' = Renewer("idle", {}) /\ c' = Cleanup({})
  /\ holder' = "free"
  /\ reported' = Figures({}, {})

CleanupDelete ==
  /\ proc = "stopping" /\ c.sub = NoSub
  /\ \E id \in c.todo, reply \in Replies :
       DeleteCall(id, reply) /\ c' = [c EXCEPT !.sub = id, !.reply = reply]
  /\ UNCHANGED <<storeVars, proc, calendar, current, w, r, holder, reported>>

(* Mutant: what was deleted stays in the store and its file. *)
CleanupDeleted_Kept ==
  /\ proc = "stopping" /\ c.sub # NoSub /\ c.reply \in {"ok", "refused"}
  /\ c' = Cleanup(c.todo \ {c.sub})
  /\ UNCHANGED <<storeVars, live, left, proc, calendar, current, w, r, holder, reported>>

CleanupDeleted ==
  /\ proc = "stopping" /\ c.sub # NoSub /\ c.reply \in {"ok", "refused"}
  /\ Remove(c.sub, TRUE)
  /\ c' = Cleanup(c.todo \ {c.sub})
  /\ UNCHANGED <<live, proc, calendar, current, w, r, holder, reported>>

CleanupDone ==
  /\ proc = "stopping" /\ c.todo = {}
  /\ Ends("stopped")
  /\ UNCHANGED <<live, left, calendar>>

(* cleanup_all raises (a lost answer; a failed save), or takes more than the
   10 seconds main grants it (answers too slow, a fault of Graph's). *)
CleanupFails ==
  /\ proc = "stopping" /\ c.todo # {}
  /\ \/ c.reply = "lost" /\ UNCHANGED left
     \/ c.reply \in {"ok", "refused"} /\ UseUp("disk")
     \/ UseUp("graph")
  /\ Ends("stopped")
  /\ UNCHANGED <<live, calendar>>

Crash ==
  /\ proc \in {"up", "stopping"} /\ UseUp("crash")
  /\ Ends("crashed")
  /\ UNCHANGED <<live, calendar>>

(***************************************************************************)
(* The environment: calendars, time, and subscriptions that end at Graph   *)
(* (dropping one the running add-on relies on is a fault).                 *)
(***************************************************************************)
CalendarChanges ==
  /\ \E room \in Rooms : \E e \in {x \in Events : EventRoom[x] = room} \cup {NoEvent} :
       e # calendar[room] /\ calendar' = [calendar EXCEPT ![room] = e]
  /\ UNCHANGED <<storeVars, live, left, proc, current, taskVars, reported>>

RecordComesDue ==
  /\ \E id \in SubIds : ComesDue(id)
  /\ UNCHANGED <<live, left, proc, calendar, current, taskVars, reported>>

InUse(id) == bySubscription[id] # NoEvent \/ (w.pc = "postReply" /\ w.sub = id)

Lapse ==
  /\ \E id \in Ids(live) :
       /\ Drop(id)
       /\ IF InUse(id) THEN UseUp("lapse") ELSE UNCHANGED left
  /\ UNCHANGED <<storeVars, proc, calendar, current, taskVars, reported>>

(***************************************************************************)
(* The event loop runs every ready task and every call ends (aiohttp's     *)
(* timeout), so tasks are fair; faults, calendars and restarts are not.    *)
(***************************************************************************)
WatcherStep ==
  PollRoom \/ PollFails \/ ChangeLocked \/ WatcherDelete \/ WatcherDeleted
    \/ WatcherPost \/ WatcherPosted
RenewerStep == RenewerWakes \/ RenewerLocked \/ RenewerPatch \/ RenewerPatched
CleanupStep == CleanupDelete \/ CleanupDeleted \/ CleanupDone \/ CleanupFails
Environment == CalendarChanges \/ RecordComesDue \/ Lapse

Next == WatcherStep \/ RenewerStep \/ CleanupStep \/ Start \/ Stop \/ Crash \/ Environment

Spec == Init /\ [][Next]_vars
FairSpec ==
  Spec /\ WF_vars(WatcherStep) /\ WF_vars(RenewerStep) /\ WF_vars(CleanupStep)
=============================================================================
