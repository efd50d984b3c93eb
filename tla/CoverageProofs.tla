---------------------------- MODULE CoverageProofs ----------------------------
(***************************************************************************)
(* What a fault may cost the rooms until the first restart: one of them,   *)
(* its notifications (OneRoomPerFault).  The count of deaf rooms is not    *)
(* inductive: a lost answer or a dropped subscription makes its room deaf  *)
(* only when the next meeting or the answer comes.  Marked holds of a room *)
(* as soon as a fault has done so.                                         *)
(***************************************************************************)
EXTENDS FaultProofs

(***************************************************************************)
(* The first life of the process.                                          *)
(***************************************************************************)

FirstLife == left["stop"] = Budget["stop"] /\ left["crash"] = Budget["crash"]

(* A record and the subscription of its id are of one meeting. *)
Agree ==
  /\ \A id \in SubIds :
       bySubscription[id] # NoEvent /\ live[id] # NoEvent => bySubscription[id] = live[id]
  /\ w.pc = "postReply" /\ w.reply = "ok" => live[w.sub] \in {current[w.room], NoEvent}

NothingYet ==
  /\ live = EmptyRegistry /\ disk = EmptyRegistry /\ bySubscription = EmptyRegistry
  /\ \A room \in Rooms : current[room] = NoEvent

EarlyLife == proc \in {"up", "stopped"} /\ (proc = "stopped" => NothingYet) /\ Agree

LEMMA FirstLifeSpendsNone ==
  ASSUME IInv, WithinBudget, [Next]_vars, FirstLife'
  PROVE  FirstLife /\ ~UseUp("stop") /\ ~UseUp("crash")
<1>1. LeftTypeOK
  BY DEF IInv, TypeOK, LeftTypeOK
<1>2. \A k \in Kinds : left[k] \in Nat /\ Budget[k] \in Nat
  BY <1>1, BudgetAssumption DEF LeftTypeOK
<1>3. FirstLife
  BY StaysSpent DEF FirstLife, Kinds
<1>4. ASSUME NEW kind \in {"stop", "crash"}, UseUp(kind) PROVE FALSE
  BY <1>1, <1>2, <1>3, <1>4, SpendsOne DEF FirstLife, Kinds
<1> QED BY <1>3, <1>4

(* The actions of a running first life keep records and Graph of one mind. *)
LEMMA WatcherAgrees ==
  ASSUME IInv, Agree, WatcherStep
  PROVE  Agree'
<1>0. TypeOK /\ GraphTypeOK /\ StoreTypeOK
  BY DEF IInv, TypeOK
<1>1. CASE PollRoom \/ PollFails \/ ChangeLocked
  <2>1. w'.pc # "postReply" /\ live' = live
    BY <1>1, WatcherMoves
  <2>2. bySubscription' = bySubscription
    BY <1>1 DEF PollRoom, PollFails, ChangeLocked, storeVars
  <2> QED BY <2>1, <2>2 DEF Agree
<1>2. CASE WatcherDelete
  <2>1. PICK reply \in Replies :
          DeleteCall(w.sub, reply) /\ w' = [w EXCEPT !.pc = "deleteReply", !.reply = reply]
    BY <1>2 DEF WatcherDelete
  <2>2. w.sub \in SubIds /\ bySubscription' = bySubscription
    BY <1>2 DEF WatcherDelete, storeVars, IInv, WatcherInLock, IdsOfRoom, Ids
  <2>3. w'.pc = "deleteReply"
    BY <1>0, <2>1 DEF TypeOK, WatcherStates
  <2>4. \A id \in SubIds : live'[id] \in {live[id], NoEvent}
    BY <1>0, <2>1, <2>2, DeleteEffect
  <2> QED BY <2>2, <2>3, <2>4 DEF Agree
<1>3. CASE WatcherDeleted
  <2>1. w'.pc # "postReply" /\ live' = live
    BY <1>3, WatcherMoves
  <2>2. \A id \in SubIds : bySubscription'[id] \in {bySubscription[id], NoEvent}
    BY <1>3, DeletedRemoves
  <2> QED BY <2>1, <2>2 DEF Agree
<1>4. CASE WatcherPost
  <2>1. PICK id \in Forgotten, reply \in Replies :
          /\ PostCall(current[w.room], id, reply)
          /\ w' = [w EXCEPT !.pc = "postReply", !.reply = reply,
                            !.sub = IF reply = "ok" THEN id ELSE NoSub]
    BY <1>4 DEF WatcherPost
  <2>2. /\ w'.reply = reply /\ w'.room = w.room /\ id \in SubIds
        /\ w'.sub = (IF reply = "ok" THEN id ELSE NoSub) /\ bySubscription[id] = NoEvent
    BY <1>0, <2>1 DEF TypeOK, WatcherStates, Forgotten
  <2>3. UNCHANGED <<bySubscription, current>>
    BY <1>4 DEF WatcherPost, storeVars
  <2>4. \A other \in SubIds \ {id} : live'[other] = live[other]
    BY <1>0, <2>1, <2>2 DEF PostCall, Create, GraphTypeOK, Registry
  <2>5. reply = "ok" => live'[id] = current[w.room]
    BY <1>0, <2>1, <2>2 DEF PostCall, Create, Fault, GraphTypeOK, Registry
  <2> QED BY <2>2, <2>3, <2>4, <2>5 DEF Agree
<1>5. CASE WatcherPosted
  <2>1. w'.pc # "postReply" /\ live' = live /\ w.pc = "postReply"
    BY <1>5, WatcherMoves DEF WatcherPosted
  <2>2. \/ bySubscription' = bySubscription
        \/ /\ w.reply = "ok"
           /\ bySubscription' = [bySubscription EXCEPT ![w.sub] = current[w.room]]
    BY <1>5 DEF WatcherPosted, Upsert, storeVars
  <2> QED BY <1>0, <2>1, <2>2 DEF Agree, StoreTypeOK, Registry
<1> QED BY <1>1, <1>2, <1>3, <1>4, <1>5 DEF WatcherStep

LEMMA RenewerAgrees ==
  ASSUME IInv, Agree, RenewerStep
  PROVE  Agree'
<1>1. UNCHANGED <<w, live, current>>
  BY DEF RenewerStep, RenewerWakes, RenewerLocked, RenewerPatch, RenewerPatched,
         RenewalCall, PatchCall
<1>2. \A id \in SubIds : bySubscription'[id] \in {bySubscription[id], NoEvent}
  <2>1. CASE RenewerPatched
    <3>1. \/ bySubscription' = [bySubscription EXCEPT ![r.sub] = r.list[r.sub]]
          \/ bySubscription' = [bySubscription EXCEPT ![r.sub] = NoEvent]
          \/ bySubscription' = bySubscription
      BY <2>1, RemoveEffect DEF RenewerPatched, Upsert, storeVars, IInv, TypeOK
    <3>2. r.list[r.sub] = bySubscription[r.sub]
      BY <2>1 DEF RenewerPatched, IInv, RenewerInLock
    <3> QED BY <3>1, <3>2 DEF IInv, TypeOK, StoreTypeOK, Registry
  <2> QED BY <2>1 DEF RenewerStep, RenewerWakes, RenewerLocked, RenewerPatch, storeVars
<1> QED BY <1>1, <1>2 DEF Agree

LEMMA FirstStep ==
  ASSUME IInv, AnswersTrue, EarlyLife, [Next]_vars, ~UseUp("stop"), ~UseUp("crash")
  PROVE  EarlyLife'
<1>1. CASE WatcherStep
  <2>1. proc = "up" /\ proc' = "up"
    BY <1>1 DEF WatcherStep, PollRoom, PollFails, ChangeLocked, WatcherDelete,
                WatcherDeleted, WatcherPost, WatcherPosted
  <2> QED BY <1>1, <2>1, WatcherAgrees DEF EarlyLife
<1>2. CASE RenewerStep
  <2>1. proc = "up" /\ proc' = "up"
    BY <1>2 DEF RenewerStep, RenewerWakes, RenewerLocked, RenewerPatch, RenewerPatched
  <2> QED BY <1>2, <2>1, RenewerAgrees DEF EarlyLife
<1>3. CASE CleanupStep \/ Stop \/ Crash
  BY <1>3 DEF CleanupStep, CleanupDelete, CleanupDeleted, CleanupDone, CleanupFails,
              Stop, Crash, EarlyLife
<1>4. CASE Start
  <2>1. proc' = "up" /\ w'.pc = "get" /\ live' = live /\ bySubscription' = disk
    BY <1>4 DEF Start, Load, Watcher
  <2>2. live = EmptyRegistry
    BY <1>4 DEF Start, EarlyLife, NothingYet
  <2> QED BY <2>1, <2>2 DEF EarlyLife, Agree, EmptyRegistry
<1>5. CASE Environment \/ UNCHANGED vars
  <2>1. UNCHANGED <<bySubscription, disk, current, proc, w>>
    BY <1>5 DEF Environment, CalendarChanges, RecordComesDue, ComesDue, Lapse, vars,
                storeVars, taskVars
  <2>2. \A id \in SubIds : live'[id] \in {live[id], NoEvent}
    BY <1>5, DropLess
       DEF Environment, CalendarChanges, RecordComesDue, Lapse, vars, Ids, IInv, TypeOK
  <2>3. live = EmptyRegistry => live' = EmptyRegistry
    BY <1>5 DEF Environment, CalendarChanges, RecordComesDue, Lapse, vars, Ids, EmptyRegistry
  <2>4. w.pc = "postReply" /\ w.reply = "ok" => w.sub \in SubIds
    BY DEF IInv, WatcherInLock
  <2> QED BY <2>1, <2>2, <2>3, <2>4 DEF EarlyLife, NothingYet, Agree
<1> QED BY <1>1, <1>2, <1>3, <1>4, <1>5 DEF Next

(***************************************************************************)
(* The rooms a fault has marked.                                           *)
(***************************************************************************)

(* The DELETE of the id was answered and its record goes next. *)
Deleted(id) == w.pc = "deleteReply" /\ w.sub = id /\ w.reply = "ok"

(* Alive at Graph and unknown here: it takes the joinUrl of its meeting. *)
Stray(id) == live[id] # NoEvent /\ bySubscription[id] = NoEvent /\ ~InFlight(id)

(* Recorded and gone at Graph: it keeps the room from a subscription. *)
Phantom(id) == bySubscription[id] # NoEvent /\ live[id] = NoEvent /\ ~Deleted(id)

(* The watcher is about to handle an answer that leaves the room without. *)
Failing(room) ==
  /\ w.room = room
  /\ \/ w.pc = "deleteReply" /\ w.reply # "ok"
     \/ w.pc = "postReply" /\ (w.reply = "ok" => live[w.sub] = NoEvent)

(* The renewal of the room's record was refused. *)
Refused(room) ==
  r.pc = "patchReply" /\ r.reply = "refused" /\ EventRoom[bySubscription[r.sub]] = room

Marked(room) ==
  \/ Deaf(room) \/ Failing(room) \/ Refused(room)
  \/ \E id \in SubIds : \/ Stray(id) /\ EventRoom[live[id]] = room
                        \/ Phantom(id) /\ EventRoom[bySubscription[id]] = room

MarkedRooms == {room \in Rooms : Marked(room)}

(* A step that marks no room, and one that a fault makes mark one. *)
Keeps(room) == Marked(room)' => Marked(room)
MarksNone == \A room \in Rooms : Keeps(room)
MarksOne(kind) == UseUp(kind) /\ \E new : \A room \in Rooms \ {new} : Keeps(room)
Spares == MarksNone \/ \E kind \in Kinds : MarksOne(kind)

(* Rooms whose task, records and subscriptions a step leaves alone. *)
LEMMA KeepsUnless ==
  ASSUME NEW room \in Rooms,
         Deaf(room)' => Marked(room), Failing(room)' => Marked(room),
         Refused(room)' => Marked(room),
         \A id \in SubIds : Stray(id)' /\ EventRoom[live'[id]] = room => Marked(room),
         \A id \in SubIds :
           Phantom(id)' /\ EventRoom[bySubscription'[id]] = room => Marked(room)
  PROVE  Keeps(room)
BY DEF Keeps, Marked

(* A record of the room's meeting is of the room. *)
LEMMA RoomOfCurrent ==
  ASSUME IInv, NEW room \in Rooms, current[room] # NoEvent
  PROVE  EventRoom[current[room]] = room
BY DEF IInv, OfTheirRoom

LEMMA PollSpares ==
  ASSUME IInv, Agree, PollRoom \/ PollFails \/ ChangeLocked
  PROVE  MarksNone
<1>0. w \in WatcherStates
  BY DEF IInv, TypeOK
<1>1. /\ w'.pc \notin {"deleteReply", "postReply"} /\ live' = live /\ r' = r
      /\ w.pc \notin {"deleteReply", "postReply"}
  BY WatcherMoves DEF PollRoom, PollFails, ChangeLocked
<1>2. bySubscription' = bySubscription
  BY DEF PollRoom, PollFails, ChangeLocked, storeVars
<1>3. ASSUME NEW room \in Rooms, Deaf(room)' => Marked(room) PROVE Keeps(room)
  BY <1>1, <1>2, <1>3
     DEF Keeps, Marked, Failing, Refused, Stray, Phantom, InFlight, Deleted
<1>4. CASE PollFails
  BY <1>1, <1>2, <1>3, <1>4 DEF MarksNone, PollFails, Deaf, Busy, Marked
<1>5. CASE PollRoom
  <2>1. ASSUME NEW room \in Rooms, room # w.room \/ current'[room] = current[room], Deaf(room)'
        PROVE  Marked(room)
    <3>1. current'[room] = current[room] /\ w.pc = "get"
      BY <1>5, <2>1 DEF PollRoom, IInv, TypeOK
    <3> QED BY <1>1, <1>2, <2>1, <3>1 DEF Deaf, Busy, Marked
  <2>2. ASSUME NEW room \in Rooms, room = w.room, current'[room] # current[room]
        PROVE  ~Deaf(room)'
    <3>1. w' = Watcher("lock", w.room)
      BY <1>5, <2>2 DEF PollRoom
    <3>2. w'.pc = "lock" /\ w'.room = room
      BY <2>2, <3>1 DEF Watcher
    <3> QED BY <3>2 DEF Deaf, Busy
  <2> QED BY <1>3, <2>1, <2>2 DEF MarksNone
<1>6. CASE ChangeLocked
  <2>1. PICK existing \in ExistingForRoom(w.room) :
          \/ NothingToDo(existing, current[w.room]) /\ NextRoom
          \/ w' = [w EXCEPT !.pc = FirstCall(existing, current[w.room]), !.sub = existing]
    BY <1>6 DEF ChangeLocked
  <2>2. current' = current
    BY <1>6 DEF ChangeLocked
  <2>3. ASSUME NEW room \in Rooms, room # w.room, Deaf(room)' PROVE Marked(room)
    BY <1>1, <1>2, <2>2, <2>3 DEF Deaf, Busy, Marked
  <2>4. ASSUME NEW room \in Rooms, room = w.room, Deaf(room)' PROVE Marked(room)
    <3>1. CASE NothingToDo(existing, current[w.room])
      <4>1. current[room] # NoEvent
        BY <2>2, <2>4 DEF Deaf
      <4>2. existing # NoSub /\ bySubscription[existing] = current[room]
        BY <2>4, <3>1, <4>1 DEF NothingToDo
      <4>3. existing \in SubIds
        BY <4>2 DEF ExistingForRoom, IdsOfRoom, Ids
      <4>4. live[existing] # current[room]
        BY <1>1, <1>2, <2>2, <2>4, <4>2, <4>3 DEF Deaf
      <4>5. Phantom(existing)
        BY <1>1, <4>1, <4>2, <4>3, <4>4 DEF Phantom, Agree, Deleted
      <4> QED BY <4>1, <4>2, <4>3, <4>5, RoomOfCurrent DEF Marked
    <3>2. CASE w' = [w EXCEPT !.pc = FirstCall(existing, current[w.room]), !.sub = existing]
      <4>1. w'.pc \in {"post", "delete"} /\ w'.room = room
        BY <1>0, <2>4, <3>2 DEF FirstCall, WatcherStates
      <4> QED BY <2>4, <4>1 DEF Deaf, Busy
    <3> QED BY <2>1, <3>1, <3>2
  <2> QED BY <1>3, <2>3, <2>4 DEF MarksNone
<1> QED BY <1>4, <1>5, <1>6

LEMMA DeleteSpares ==
  ASSUME IInv, Agree, WatcherDelete
  PROVE  Spares
<1>0. TypeOK /\ GraphTypeOK
  BY DEF IInv, TypeOK
<1>1. PICK reply \in Replies :
        DeleteCall(w.sub, reply) /\ w' = [w EXCEPT !.pc = "deleteReply", !.reply = reply]
  BY DEF WatcherDelete
<1>2. /\ w.sub \in SubIds /\ w.pc = "delete"
      /\ bySubscription[w.sub] # NoEvent /\ EventRoom[bySubscription[w.sub]] = w.room
  BY DEF WatcherDelete, IInv, WatcherInLock, IdsOfRoom, Ids
<1>3. w'.pc = "deleteReply" /\ w'.reply = reply /\ w'.sub = w.sub /\ w'.room = w.room
  BY <1>0, <1>1 DEF TypeOK, WatcherStates
<1>4. UNCHANGED <<bySubscription, current, r>>
  BY DEF WatcherDelete, storeVars
<1>5. /\ \A id \in SubIds : live'[id] \in {live[id], NoEvent}
      /\ \A id \in SubIds \ {w.sub} : live'[id] = live[id]
      /\ reply # "ok" => UseUp("graph")
  BY <1>0, <1>1, <1>2, DeleteEffect
<1>6. ASSUME NEW room \in Rooms, room # w.room \/ reply = "ok" PROVE Keeps(room)
  <2>1. Deaf(room)' => Marked(room)
    <3> SUFFICES ASSUME Deaf(room)' PROVE Deaf(room)
      BY DEF Marked
    <3>1. room # w.room /\ current[room] # NoEvent
      BY <1>3, <1>4 DEF Deaf, Busy
    <3>2. \A id \in SubIds : bySubscription[id] = current[room] => live'[id] = live[id]
      BY <1>2, <1>5, <3>1, RoomOfCurrent
    <3> QED BY <1>4, <3>1, <3>2 DEF Deaf, Busy
  <2>2. ~Failing(room)'
    BY <1>3, <1>6 DEF Failing
  <2>3. Refused(room)' => Marked(room)
    BY <1>4 DEF Refused, Marked
  <2>4. ASSUME NEW id \in SubIds, Stray(id)', EventRoom[live'[id]] = room PROVE Marked(room)
    <3>1. live'[id] = live[id]
      BY <1>5, <2>4 DEF Stray
    <3> QED BY <1>2, <1>4, <2>4, <3>1 DEF Stray, InFlight, Marked
  <2>5. ASSUME NEW id \in SubIds, Phantom(id)', EventRoom[bySubscription'[id]] = room
        PROVE  Marked(room)
    <3>1. id # w.sub
      BY <1>2, <1>3, <1>4, <1>6, <2>5 DEF Phantom, Deleted
    <3> QED BY <1>2, <1>4, <1>5, <2>5, <3>1 DEF Phantom, Deleted, Marked
  <2> QED BY <2>1, <2>2, <2>3, <2>4, <2>5, KeepsUnless
<1>7. CASE reply = "ok"
  BY <1>6, <1>7 DEF Spares, MarksNone
<1>8. CASE reply # "ok"
  BY <1>5, <1>6, <1>8 DEF Spares, MarksOne, Kinds
<1> QED BY <1>7, <1>8

LEMMA DeletedSpares ==
  ASSUME IInv, Agree, AnswersTrue, WatcherDeleted
  PROVE  Spares
<1>0. TypeOK /\ StoreTypeOK
  BY DEF IInv, TypeOK
<1>1. /\ w'.pc \notin {"deleteReply", "postReply"} /\ live' = live /\ r' = r
      /\ w.pc = "deleteReply" /\ current' = current
  BY WatcherMoves DEF WatcherDeleted
<1>2. /\ w.sub \in SubIds /\ r.pc # "patchReply"
      /\ bySubscription[w.sub] # NoEvent /\ EventRoom[bySubscription[w.sub]] = w.room
  BY <1>1 DEF IInv, WatcherInLock, RenewerInLock, IdsOfRoom, Ids
<1>3. /\ \A id \in SubIds : bySubscription'[id] \in {bySubscription[id], NoEvent}
      /\ \A id \in SubIds \ {w.sub} : bySubscription'[id] = bySubscription[id]
  BY DeletedRemoves
<1>4. w.reply # "ok" => Failing(w.room)
  BY <1>1 DEF Failing
<1>5. live[w.sub] # NoEvent => w.reply # "ok" /\ EventRoom[live[w.sub]] = w.room
  BY <1>1, <1>2 DEF AnswersTrue, Agree
<1>6. ASSUME NEW room \in Rooms, room # w.room \/ ~Deaf(room)' PROVE Keeps(room)
  <2>1. Deaf(room)' => Marked(room)
    <3> SUFFICES ASSUME Deaf(room)' PROVE Deaf(room)
      BY DEF Marked
    <3>1. room # w.room /\ current[room] # NoEvent
      BY <1>1, <1>6 DEF Deaf
    <3>2. \A id \in SubIds : bySubscription[id] = current[room] =>
            bySubscription'[id] = bySubscription[id]
      BY <1>2, <1>3, <3>1, RoomOfCurrent
    <3> QED BY <1>1, <3>1, <3>2 DEF Deaf, Busy
  <2>2. ~Failing(room)' /\ ~Refused(room)'
    BY <1>1, <1>2 DEF Failing, Refused
  <2>3. ASSUME NEW id \in SubIds, Stray(id)', EventRoom[live'[id]] = room PROVE Marked(room)
    <3>1. CASE bySubscription[id] = NoEvent
      BY <1>1, <2>3, <3>1 DEF Stray, InFlight, Marked
    <3>2. CASE bySubscription[id] # NoEvent
      <4>1. id = w.sub /\ live[id] # NoEvent
        BY <1>1, <1>3, <2>3, <3>2 DEF Stray
      <4> QED BY <1>1, <1>4, <1>5, <2>3, <4>1 DEF Marked
    <3> QED BY <3>1, <3>2
  <2>4. ASSUME NEW id \in SubIds, Phantom(id)', EventRoom[bySubscription'[id]] = room
        PROVE  Marked(room)
    <3>1. bySubscription'[id] = bySubscription[id] /\ bySubscription[id] # NoEvent
      BY <1>3, <2>4 DEF Phantom
    <3>2. CASE Deleted(id)
      <4>1. w.reply = "ok" /\ id = w.sub
        BY <3>2 DEF Deleted
      <4>2. bySubscription'[w.sub] = NoEvent
        BY <1>0, <1>2, <4>1, RemoveEffect DEF WatcherDeleted, StoreTypeOK, Registry
      <4> QED BY <3>1, <4>1, <4>2
    <3>3. CASE ~Deleted(id)
      BY <1>1, <2>4, <3>1, <3>3 DEF Phantom, Marked
    <3> QED BY <3>2, <3>3
  <2> QED BY <2>1, <2>2, <2>3, <2>4, KeepsUnless
<1>7. CASE w.reply # "ok"
  <2>1. ASSUME NEW room \in Rooms, room = w.room PROVE Keeps(room)
    BY <1>4, <1>7, <2>1 DEF Keeps, Marked
  <2> QED BY <1>6, <2>1 DEF Spares, MarksNone
<1>8. CASE Remove(w.sub, TRUE) /\ w' = Watcher("post", w.room)
  <2>1. w'.pc = "post" /\ w'.room = w.room
    BY <1>8 DEF Watcher
  <2>2. ASSUME NEW room \in Rooms, room = w.room PROVE ~Deaf(room)'
    BY <2>1, <2>2 DEF Deaf, Busy
  <2> QED BY <1>6, <2>2 DEF Spares, MarksNone
<1>9. CASE current[w.room] = NoEvent
  <2>1. ASSUME NEW room \in Rooms, room = w.room PROVE ~Deaf(room)'
    BY <1>1, <1>9, <2>1 DEF Deaf
  <2> QED BY <1>6, <2>1 DEF Spares, MarksNone
<1>10. CASE UseUp("disk")
  BY <1>6, <1>10 DEF Spares, MarksOne, Kinds
<1>11. Remove(w.sub, FALSE) => UseUp("disk")
  BY <1>2 DEF Remove, Persist
<1> QED BY <1>7, <1>8, <1>9, <1>10, <1>11 DEF WatcherDeleted

(* A POST that Graph refuses without a fault meets a stray of the same room,
   for a joinUrl is of one room. *)
LEMMA PostSpares ==
  ASSUME IInv, Agree, UrlsOfOneRoom, WatcherPost
  PROVE  Spares
<1>0. TypeOK /\ GraphTypeOK
  BY DEF IInv, TypeOK
<1>1. PICK id \in Forgotten, reply \in Replies :
        /\ PostCall(current[w.room], id, reply)
        /\ w' = [w EXCEPT !.pc = "postReply", !.reply = reply,
                          !.sub = IF reply = "ok" THEN id ELSE NoSub]
  BY DEF WatcherPost
<1>2. /\ w'.pc = "postReply" /\ w'.reply = reply /\ w'.room = w.room /\ id \in SubIds
      /\ w'.sub = (IF reply = "ok" THEN id ELSE NoSub)
      /\ bySubscription[id] = NoEvent /\ live[id] = NoEvent
  BY <1>0, <1>1 DEF TypeOK, WatcherStates, Forgotten
<1>3. /\ UNCHANGED <<bySubscription, current, r>> /\ w.pc = "post" /\ w.room \in Rooms
      /\ current[w.room] # NoEvent /\ IdsOfRoom(bySubscription, w.room) = {}
      /\ current[w.room] \in Events /\ EventRoom[current[w.room]] = w.room
  BY <1>0, RoomOfCurrent
     DEF WatcherPost, storeVars, IInv, WatcherInLock, TypeOK, WatcherStates, EventOrNone
<1>4. \A other \in SubIds \ {id} : live'[other] = live[other]
  BY <1>0, <1>1, <1>2 DEF PostCall, Create, GraphTypeOK, Registry
<1>5. live'[id] \in {NoEvent, current[w.room]}
  BY <1>0, <1>1, <1>2 DEF PostCall, Create, GraphTypeOK, Registry
<1>6. reply = "ok" => live'[id] = current[w.room]
  BY <1>0, <1>1, <1>2 DEF PostCall, Create, Fault, GraphTypeOK, Registry
<1>7. ASSUME NEW room \in Rooms, Failing(room)' => Marked(room),
             live'[id] = NoEvent \/ reply = "ok" \/ room # w.room
      PROVE  Keeps(room)
  <2>1. Deaf(room)' => Marked(room)
    <3> SUFFICES ASSUME Deaf(room)' PROVE Deaf(room)
      BY DEF Marked
    <3> QED BY <1>2, <1>3, <1>4 DEF Deaf, Busy
  <2>2. Refused(room)' => Marked(room)
    BY <1>3 DEF Refused, Marked
  <2>3. ASSUME NEW other \in SubIds, Stray(other)', EventRoom[live'[other]] = room
        PROVE  Marked(room)
    <3>1. other # id
      BY <1>2, <1>3, <1>5, <1>7, <2>3 DEF Stray, InFlight
    <3> QED BY <1>3, <1>4, <2>3, <3>1 DEF Stray, InFlight, Marked
  <2>4. ASSUME NEW other \in SubIds, Phantom(other)', EventRoom[bySubscription'[other]] = room
        PROVE  Marked(room)
    <3>1. other # id
      BY <1>2, <1>3, <2>4 DEF Phantom
    <3> QED BY <1>3, <1>4, <2>4, <3>1 DEF Phantom, Deleted, Marked
  <2> QED BY <1>7, <2>1, <2>2, <2>3, <2>4, KeepsUnless
<1>8. \A room \in Rooms \ {w.room} : Keeps(room)
  BY <1>2, <1>7 DEF Failing
<1>9. CASE reply = "ok"
  <2>1. \A room \in Rooms : ~Failing(room)'
    BY <1>2, <1>3, <1>6, <1>9 DEF Failing
  <2> QED BY <1>7, <1>9, <2>1 DEF Spares, MarksNone
<1>10. CASE UseUp("graph")
  BY <1>8, <1>10 DEF Spares, MarksOne, Kinds
<1>11. CASE UrlTaken(current[w.room]) /\ live' = live
  <2>1. PICK other \in SubIds : live[other] # NoEvent
                                /\ EventUrl[live[other]] = EventUrl[current[w.room]]
    BY <1>11 DEF UrlTaken, Ids
  <2>2. live[other] \in Events /\ EventRoom[live[other]] = w.room
    <3>1. live[other] \in Events
      BY <1>0, <2>1 DEF GraphTypeOK, Registry, EventOrNone
    <3> QED BY <1>3, <2>1, <3>1 DEF UrlsOfOneRoom
  <2>3. bySubscription[other] = NoEvent
    BY <1>3, <2>1, <2>2 DEF Agree, IdsOfRoom, Ids
  <2>4. Marked(w.room)
    BY <1>3, <2>1, <2>2, <2>3 DEF Stray, InFlight, Marked
  <2>5. ASSUME NEW room \in Rooms, room = w.room PROVE Keeps(room)
    BY <2>4, <2>5 DEF Keeps
  <2> QED BY <1>8, <2>5 DEF Spares, MarksNone
<1> QED BY <1>1, <1>9, <1>10, <1>11 DEF PostCall, Fault

LEMMA PostedSpares ==
  ASSUME IInv, Agree, AnswersTrue, WatcherPosted
  PROVE  MarksNone
<1>0. TypeOK /\ StoreTypeOK
  BY DEF IInv, TypeOK
<1>1. /\ w'.pc \notin {"deleteReply", "postReply"} /\ live' = live /\ r' = r
      /\ w.pc = "postReply" /\ current' = current
  BY WatcherMoves DEF WatcherPosted
<1>2. /\ r.pc # "patchReply" /\ current[w.room] # NoEvent /\ w.room \in Rooms
      /\ w.reply = "ok" => w.sub \in SubIds /\ bySubscription[w.sub] = NoEvent
  BY <1>0, <1>1 DEF IInv, WatcherInLock, RenewerInLock, Ids, TypeOK, WatcherStates
<1>3. \A id \in SubIds : bySubscription'[id] =
        IF w.reply = "ok" /\ id = w.sub THEN current[w.room] ELSE bySubscription[id]
  BY <1>0, <1>2 DEF WatcherPosted, Upsert, storeVars, StoreTypeOK, Registry
<1>4. \A id \in SubIds : InFlight(id) => w.reply = "ok" /\ id = w.sub
  BY <1>1, NullsAssumption DEF AnswersTrue, InFlight
<1>5. Failing(w.room) \/ (w.reply = "ok" /\ live[w.sub] = current[w.room])
  BY <1>1 DEF Failing, Agree
<1>6. EventRoom[current[w.room]] = w.room
  BY <1>2, RoomOfCurrent
<1> SUFFICES ASSUME NEW room \in Rooms PROVE Keeps(room)
  BY DEF MarksNone
<1>7. ASSUME Deaf(room)' PROVE Marked(room)
  <2>1. CASE room = w.room
    <3>1. ~(w.reply = "ok" /\ live[w.sub] = current[w.room])
      BY <1>1, <1>2, <1>3, <1>7, <2>1 DEF Deaf
    <3> QED BY <1>5, <2>1, <3>1 DEF Marked
  <2>2. CASE room # w.room
    <3>1. current[room] # NoEvent
      BY <1>1, <1>7 DEF Deaf
    <3>2. \A id \in SubIds : bySubscription[id] = current[room] =>
            bySubscription'[id] = bySubscription[id]
      BY <1>2, <1>3, <3>1
    <3>3. Deaf(room)
      BY <1>1, <1>7, <2>2, <3>1, <3>2 DEF Deaf, Busy
    <3> QED BY <3>3 DEF Marked
  <2> QED BY <2>1, <2>2
<1>8. ~Failing(room)' /\ ~Refused(room)'
  BY <1>1, <1>2 DEF Failing, Refused
<1>9. ASSUME NEW id \in SubIds, Stray(id)', EventRoom[live'[id]] = room PROVE Marked(room)
  <2>1. bySubscription[id] = NoEvent /\ ~InFlight(id)
    BY <1>2, <1>3, <1>4, <1>9 DEF Stray
  <2> QED BY <1>1, <1>9, <2>1 DEF Stray, Marked
<1>10. ASSUME NEW id \in SubIds, Phantom(id)', EventRoom[bySubscription'[id]] = room
       PROVE  Marked(room)
  <2>1. CASE w.reply = "ok" /\ id = w.sub
    <3>1. live[w.sub] = NoEvent /\ room = w.room
      BY <1>1, <1>3, <1>6, <1>10, <2>1 DEF Phantom
    <3> QED BY <1>2, <1>5, <3>1 DEF Marked
  <2>2. CASE ~(w.reply = "ok" /\ id = w.sub)
    BY <1>1, <1>3, <1>10, <2>2 DEF Phantom, Deleted, Marked
  <2> QED BY <2>1, <2>2
<1> QED BY <1>7, <1>8, <1>9, <1>10, KeepsUnless

(* A renewal that is refused without a fault is that of a phantom. *)
LEMMA RenewerSpares ==
  ASSUME IInv, Agree, RenewerStep
  PROVE  Spares
<1>0. TypeOK /\ StoreTypeOK /\ r \in RenewerStates
  BY DEF IInv, TypeOK
<1>1. UNCHANGED <<w, live, current>>
  BY DEF RenewerStep, RenewerWakes, RenewerLocked, RenewerPatch, RenewerPatched,
         RenewalCall, PatchCall
<1>2. ASSUME UNCHANGED bySubscription, NEW room \in Rooms, Refused(room)' => Marked(room)
      PROVE  Keeps(room)
  <2>1. (Deaf(room)' => Deaf(room)) /\ (Failing(room)' => Failing(room))
        /\ \A id \in SubIds : (Stray(id)' => Stray(id)) /\ (Phantom(id)' => Phantom(id))
    BY <1>1, <1>2 DEF Deaf, Busy, Failing, Stray, Phantom, InFlight, Deleted
  <2> QED BY <1>1, <1>2, <2>1 DEF Keeps, Marked
<1>3. CASE RenewerWakes \/ RenewerLocked
  <2>1. r'.pc # "patchReply"
    <3>1. RenewerWakes => r'.pc = "lock"
      BY DEF RenewerWakes, Renewer
    <3>2. RenewerEnds => r'.pc = "sleep"
      BY DEF RenewerEnds, Renewer
    <3>3. r' = [r EXCEPT !.pc = "patch", !.seen = {}, !.list = DueRecords] => r'.pc = "patch"
      BY <1>0 DEF RenewerStates
    <3> QED BY <1>3, <3>1, <3>2, <3>3 DEF RenewerLocked
  <2>2. UNCHANGED bySubscription
    BY <1>3 DEF RenewerWakes, RenewerLocked, storeVars
  <2> QED BY <1>2, <2>1, <2>2 DEF Spares, MarksNone, Refused
<1>4. CASE RenewerPatch
  <2>1. PICK id \in Ids(r.list), reply \in Replies :
          RenewalCall(id, reply) /\ r' = [r EXCEPT !.pc = "patchReply", !.sub = id, !.reply = reply]
    BY <1>4 DEF RenewerPatch, First
  <2>2. r'.sub = id /\ r'.reply = reply /\ r.pc = "patch" /\ bySubscription' = bySubscription
    BY <1>0, <1>4, <2>1 DEF RenewerPatch, RenewerStates, storeVars
  <2>3. /\ id \in SubIds /\ bySubscription[id] # NoEvent /\ w.pc # "deleteReply"
    BY <2>1, <2>2 DEF IInv, RenewerInLock, WatcherInLock, Ids
  <2>4. \A room \in Rooms \ {EventRoom[bySubscription[id]]} : Keeps(room)
    BY <1>2, <2>2 DEF Refused
  <2>5. CASE UseUp("graph")
    BY <2>4, <2>5 DEF Spares, MarksOne, Kinds
  <2>6. CASE reply # "refused"
    BY <1>2, <2>2, <2>6 DEF Refused, Spares, MarksNone
  <2>7. CASE live[id] = NoEvent
    <3>1. ASSUME NEW room \in Rooms, room = EventRoom[bySubscription[id]] PROVE Keeps(room)
      BY <2>3, <2>7, <3>1 DEF Phantom, Deleted, Keeps, Marked
    <3> QED BY <2>4, <3>1 DEF Spares, MarksNone
  <2> QED BY <2>1, <2>5, <2>6, <2>7 DEF RenewalCall, PatchCall, Fault
<1>5. CASE RenewerPatched
  <2>1. /\ r.pc = "patchReply" /\ r.sub \in Ids(bySubscription)
        /\ \A id \in SubIds \ {r.sub} : bySubscription'[id] = bySubscription[id]
        /\ r.reply # "refused" => bySubscription' = bySubscription
    BY <1>5, RenewalKeeps
  <2>2. r'.pc # "patchReply"
    <3>1. RenewerEnds => r'.pc = "sleep"
      BY DEF RenewerEnds, Renewer
    <3>2. ASSUME NEW rest,
                 r' = [r EXCEPT !.pc = "patch", !.list = rest, !.sub = NoSub, !.reply = "none"]
          PROVE  r'.pc = "patch"
      BY <1>0, <3>2 DEF RenewerStates
    <3> QED BY <1>5, <3>1, <3>2 DEF RenewerPatched, NextDue
  <2>3. CASE UNCHANGED bySubscription
    BY <1>2, <2>2, <2>3 DEF Spares, MarksNone, Refused
  <2>4. CASE r.reply = "refused" /\ bySubscription' = [bySubscription EXCEPT ![r.sub] = NoEvent]
    <3> DEFINE mine == EventRoom[bySubscription[r.sub]]
    <3>1. Refused(mine) /\ r.sub \in SubIds /\ bySubscription[r.sub] # NoEvent
      BY <2>1, <2>4 DEF Refused, Ids
    <3>2. bySubscription'[r.sub] = NoEvent
      BY <1>0, <2>4, <3>1 DEF StoreTypeOK, Registry
    <3>3. ASSUME NEW room \in Rooms, room # mine PROVE Keeps(room)
      <4>1. ASSUME Deaf(room)' PROVE Deaf(room)
        <5>1. current[room] # NoEvent
          BY <1>1, <4>1 DEF Deaf
        <5>2. \A id \in SubIds : bySubscription[id] = current[room] =>
                bySubscription'[id] = bySubscription[id]
          BY <2>1, <3>3, <5>1, RoomOfCurrent
        <5> QED BY <1>1, <4>1, <5>1, <5>2 DEF Deaf, Busy
      <4>2. Failing(room)' => Failing(room)
        BY <1>1 DEF Failing
      <4>3. ~Refused(room)'
        BY <2>2 DEF Refused
      <4>4. ASSUME NEW id \in SubIds, Stray(id)', EventRoom[live'[id]] = room
            PROVE  Stray(id)
        <5>1. id # r.sub
          BY <1>1, <3>1, <3>3, <4>4 DEF Stray, Agree
        <5> QED BY <1>1, <2>1, <4>4, <5>1 DEF Stray, InFlight
      <4>5. ASSUME NEW id \in SubIds, Phantom(id)'
            PROVE  Phantom(id) /\ bySubscription'[id] = bySubscription[id]
        <5>1. id # r.sub
          BY <3>2, <4>5 DEF Phantom
        <5> QED BY <1>1, <2>1, <4>5, <5>1 DEF Phantom, Deleted
      <4> QED BY <1>1, <4>1, <4>2, <4>3, <4>4, <4>5 DEF Keeps, Marked
    <3>4. ASSUME NEW room \in Rooms, room = mine PROVE Keeps(room)
      BY <3>1, <3>4 DEF Keeps, Marked
    <3> HIDE DEF mine
    <3> QED BY <3>3, <3>4 DEF Spares, MarksNone
  <2>5. \/ UNCHANGED bySubscription
        \/ r.reply = "refused" /\ bySubscription' = [bySubscription EXCEPT ![r.sub] = NoEvent]
    <3>1. RenewalRefused(r.reply) <=> r.reply = "refused"
      BY DEF RenewalRefused
    <3> QED BY <1>0, <1>5, <2>1, <3>1, RemoveEffect DEF RenewerPatched
  <2> QED BY <2>3, <2>4, <2>5
<1> QED BY <1>3, <1>4, <1>5 DEF RenewerStep

(* Graph's dropping of a subscription in use marks its own room. *)
LEMMA OthersSpare ==
  ASSUME IInv, AnswersTrue, EarlyLife, Start \/ Environment \/ UNCHANGED vars
  PROVE  Spares
<1>0. TypeOK /\ GraphTypeOK
  BY DEF IInv, TypeOK
<1>1. CASE Start
  <2>1. /\ bySubscription' = EmptyRegistry /\ live' = EmptyRegistry /\ w'.pc = "get" /\ r'.pc = "lock"
    BY <1>1 DEF Start, Load, Watcher, Renewer, EarlyLife, NothingYet
  <2>2. \A room \in Rooms : current'[room] = NoEvent
    BY <1>1 DEF Start
  <2>3. \A id \in SubIds : live'[id] = NoEvent /\ bySubscription'[id] = NoEvent
    BY <2>1 DEF EmptyRegistry
  <2>4. \A room \in Rooms : ~Marked(room)'
    BY <2>1, <2>2, <2>3 DEF Marked, Deaf, Failing, Refused, Stray, Phantom
  <2> QED BY <2>4 DEF Spares, MarksNone, Keeps
<1>2. CASE CalendarChanges \/ RecordComesDue \/ UNCHANGED vars
  <2>1. UNCHANGED <<bySubscription, live, current, w, r>>
    BY <1>2 DEF CalendarChanges, RecordComesDue, ComesDue, vars, storeVars, taskVars
  <2>2. \A room \in Rooms : Keeps(room)
    BY <2>1 DEF Keeps, Marked, Deaf, Busy, Failing, Refused, Stray, Phantom, InFlight, Deleted
  <2> QED BY <2>2 DEF Spares, MarksNone
<1>3. CASE Lapse
  <2>1. UNCHANGED <<bySubscription, current, w, r>>
    BY <1>3 DEF Lapse, storeVars, taskVars
  <2>2. PICK id \in Ids(live) : Drop(id) /\ (InUse(id) => UseUp("lapse"))
    BY <1>3 DEF Lapse
  <2>3. /\ id \in SubIds /\ live[id] # NoEvent /\ live'[id] = NoEvent
        /\ \A other \in SubIds \ {id} : live'[other] = live[other]
    BY <1>0, <2>2, DropLess DEF Ids
  <2> DEFINE mine == EventRoom[live[id]]
  <2>4. bySubscription[id] # NoEvent => bySubscription[id] = live[id]
    BY <2>3 DEF EarlyLife, Agree
  <2>5. ASSUME w.pc = "postReply", w.reply = "ok", w.sub = id
        PROVE  mine = w.room /\ InUse(id)
    <3>1. live[id] = current[w.room] /\ w.room \in Rooms
      BY <1>0, <2>3, <2>5 DEF EarlyLife, Agree, TypeOK, WatcherStates
    <3>2. mine = w.room
      BY <2>3, <3>1, RoomOfCurrent
    <3> QED BY <2>5, <3>2 DEF InUse
  <2>6. w.pc = "postReply" /\ w.reply = "ok" => w.sub \in SubIds
    BY DEF IInv, WatcherInLock
  <2>7. ASSUME NEW room \in Rooms, room # mine \/ ~InUse(id) PROVE Keeps(room)
    <3>1. ASSUME Deaf(room)' PROVE Deaf(room)
      <4>1. current[room] # NoEvent /\ EventRoom[current[room]] = room
        BY <2>1, <3>1, RoomOfCurrent DEF Deaf
      <4>2. ~(bySubscription[id] = current[room] /\ live[id] = current[room])
        BY <2>7, <4>1 DEF InUse
      <4> QED BY <2>1, <2>3, <3>1, <4>1, <4>2 DEF Deaf, Busy
    <3>2. ASSUME Failing(room)' PROVE Failing(room)
      BY <2>1, <2>3, <2>5, <2>6, <2>7, <3>2 DEF Failing
    <3>3. Refused(room)' => Refused(room)
      BY <2>1 DEF Refused
    <3>4. ASSUME NEW other \in SubIds, Stray(other)'
          PROVE  Stray(other) /\ live'[other] = live[other]
      BY <2>1, <2>3, <3>4 DEF Stray, InFlight
    <3>5. ASSUME NEW other \in SubIds, Phantom(other)', EventRoom[bySubscription'[other]] = room
          PROVE  Phantom(other)
      <4>1. other # id
        BY <2>1, <2>4, <2>7, <3>5 DEF Phantom, InUse
      <4> QED BY <2>1, <2>3, <3>5, <4>1 DEF Phantom, Deleted
    <3> QED BY <2>1, <3>1, <3>2, <3>3, <3>4, <3>5 DEF Keeps, Marked
  <2> HIDE DEF mine
  <2>8. CASE InUse(id)
    <3>1. \A room \in Rooms \ {mine} : Keeps(room)
      BY <2>7
    <3> QED BY <2>2, <2>8, <3>1 DEF Spares, MarksOne, Kinds
  <2>9. CASE ~InUse(id)
    BY <2>7, <2>9 DEF Spares, MarksNone
  <2> QED BY <2>8, <2>9
<1> QED BY <1>1, <1>2, <1>3 DEF Environment

LEMMA StepSpares ==
  ASSUME IInv, AnswersTrue, EarlyLife, UrlsOfOneRoom, [Next]_vars,
         ~UseUp("stop"), ~UseUp("crash")
  PROVE  Spares
<1>1. ~CleanupStep /\ ~Stop /\ ~Crash
  BY DEF CleanupStep, CleanupDelete, CleanupDeleted, CleanupDone, CleanupFails, Stop, Crash, EarlyLife
<1>2. CASE WatcherStep
  <2>1. PollRoom \/ PollFails \/ ChangeLocked \/ WatcherPosted => Spares
    BY PollSpares, PostedSpares DEF EarlyLife, Spares
  <2> QED BY <1>2, <2>1, DeleteSpares, DeletedSpares, PostSpares DEF EarlyLife, WatcherStep
<1>3. CASE RenewerStep
  BY <1>3, RenewerSpares DEF EarlyLife
<1>4. CASE Start \/ Environment \/ UNCHANGED vars
  BY <1>4, OthersSpare
<1> QED BY <1>1, <1>2, <1>3, <1>4 DEF Next

(***************************************************************************)
(* The count.                                                              *)
(***************************************************************************)

(* A set that may gain one member. *)
LEMMA GainsOne ==
  ASSUME NEW S, NEW T, NEW new, IsFiniteSet(S), T \subseteq S \cup {new}
  PROVE  /\ IsFiniteSet(T) /\ Cardinality(S) \in Nat /\ Cardinality(T) \in Nat
         /\ Cardinality(T) <= Cardinality(S) + 1
<1> DEFINE U == S \cup {new}
<1>1. /\ IsFiniteSet(U)
      /\ Cardinality(U) = IF new \in S THEN Cardinality(S) ELSE Cardinality(S) + 1
  BY FS_AddElement
<1>2. IsFiniteSet(T) /\ Cardinality(T) <= Cardinality(U)
  BY <1>1, FS_Subset
<1>3. Cardinality(S) \in Nat /\ Cardinality(T) \in Nat /\ Cardinality(U) \in Nat
  BY <1>1, <1>2, FS_CardinalityType
<1> QED BY <1>1, <1>2, <1>3

(* And one that gains none. *)
LEMMA GainsNone ==
  ASSUME NEW S, NEW T, IsFiniteSet(S), T \subseteq S
  PROVE  /\ IsFiniteSet(T) /\ Cardinality(S) \in Nat /\ Cardinality(T) \in Nat
         /\ Cardinality(T) <= Cardinality(S)
BY FS_Subset, FS_CardinalityType

MarkedInv ==
  IsFiniteSet(MarkedRooms) /\ Cardinality(MarkedRooms) <= FaultsSpent

LEMMA MarkedStep ==
  ASSUME IInv, MarkedInv, [Next]_vars, Spares
  PROVE  MarkedInv'
<1>0. LeftTypeOK /\ LeftTypeOK'
  BY NextInv DEF IInv, TypeOK, LeftTypeOK
<1>1. FaultsSpent \in Int /\ FaultsSpent' \in Int
  <2>1. \A kind \in Kinds : Spent(kind) \in Int /\ Spent(kind)' \in Int
    BY <1>0, BudgetAssumption DEF LeftTypeOK, Spent
  <2> QED BY <2>1 DEF FaultsSpent, Kinds
<1>2. CASE MarksNone
  <2>1. MarkedRooms' \subseteq MarkedRooms
    BY <1>2 DEF MarksNone, Keeps, MarkedRooms
  <2>2. /\ IsFiniteSet(MarkedRooms') /\ Cardinality(MarkedRooms) \in Nat
        /\ Cardinality(MarkedRooms') \in Nat
        /\ Cardinality(MarkedRooms') <= Cardinality(MarkedRooms)
    BY <2>1, GainsNone DEF MarkedInv
  <2>3. FaultsSpent' >= FaultsSpent
    <3>1. UNCHANGED left => FaultsSpent' = FaultsSpent
      BY DEF FaultsSpent, Spent
    <3> QED BY <1>0, <1>1, <3>1, OneMore, StepSpends
  <2> QED BY <1>1, <2>2, <2>3 DEF MarkedInv
<1>3. ASSUME NEW kind \in Kinds, MarksOne(kind) PROVE MarkedInv'
  <2>1. PICK new : \A room \in Rooms \ {new} : Keeps(room)
    BY <1>3 DEF MarksOne
  <2>2. MarkedRooms' \subseteq MarkedRooms \cup {new}
    BY <2>1 DEF Keeps, MarkedRooms
  <2>3. /\ IsFiniteSet(MarkedRooms') /\ Cardinality(MarkedRooms) \in Nat
        /\ Cardinality(MarkedRooms') \in Nat
        /\ Cardinality(MarkedRooms') <= Cardinality(MarkedRooms) + 1
    BY <2>2, GainsOne DEF MarkedInv
  <2>4. FaultsSpent' = FaultsSpent + 1
    BY <1>0, <1>3, OneMore DEF MarksOne
  <2> QED BY <1>1, <2>3, <2>4 DEF MarkedInv
<1> QED BY <1>2, <1>3 DEF Spares

(* The inductive invariant: what holds in the first life, and the count where
   a joinUrl is of one room. *)
CoverInv == FirstLife => EarlyLife /\ (UrlsOfOneRoom => MarkedInv)

LEMMA CoverInit == Init => CoverInv
<1> SUFFICES ASSUME Init PROVE EarlyLife /\ MarkedInv
  BY DEF CoverInv
<1>1. /\ \A id \in SubIds : bySubscription[id] = NoEvent /\ live[id] = NoEvent
      /\ \A room \in Rooms : current[room] = NoEvent
      /\ w.pc = "idle" /\ r.pc = "idle"
  BY DEF Init, StoreInit, GraphInit, EmptyRegistry, Watcher, Renewer
<1>2. EarlyLife
  BY <1>1 DEF Init, StoreInit, GraphInit, EarlyLife, NothingYet, Agree
<1>3. MarkedRooms = {}
  BY <1>1 DEF MarkedRooms, Marked, Deaf, Failing, Refused, Stray, Phantom
<1>4. FaultsSpent = 0
  <2>1. \A kind \in Kinds : Spent(kind) = 0
    BY BudgetAssumption DEF Init, Spent
  <2> QED BY <2>1 DEF FaultsSpent, Kinds
<1> QED BY <1>2, <1>3, <1>4, FS_EmptySet DEF MarkedInv

LEMMA CoverStep ==
  ASSUME IInv, WithinBudget, AnswersTrue, CoverInv, [Next]_vars
  PROVE  CoverInv'
<1> SUFFICES ASSUME FirstLife' PROVE EarlyLife' /\ (UrlsOfOneRoom => MarkedInv')
  BY DEF CoverInv, UrlsOfOneRoom
<1>1. FirstLife /\ ~UseUp("stop") /\ ~UseUp("crash")
  BY FirstLifeSpendsNone
<1>2. EarlyLife'
  BY <1>1, FirstStep DEF CoverInv
<1>3. UrlsOfOneRoom => MarkedInv'
  BY <1>1, StepSpares, MarkedStep DEF CoverInv
<1> QED BY <1>2, <1>3

LEMMA CoverInvariant == Spec => []CoverInv
<1>1. IInv /\ CleanInv /\ AnswersTrue /\ CoverInv /\ [Next]_vars => CoverInv'
  BY CoverStep DEF CleanInv
<1> QED BY <1>1, CoverInit, InductiveInvariant, CleanInvariant, ChargedInvariant, PTL DEF Spec

(* Until the first restart, each faulty answer, failed save or subscription
   dropped by Graph leaves at most one room without notifications, whatever
   else goes on, where no joinUrl is shared by two rooms. *)
THEOREM OneRoom == Spec => []OneRoomPerFault
<1>1. IInv /\ CoverInv => OneRoomPerFault
  <2> SUFFICES ASSUME IInv, CoverInv, UrlsOfOneRoom, Spent("stop") = 0, Spent("crash") = 0
               PROVE  Cardinality({room \in Rooms : Deaf(room)}) <= FaultsSpent
    BY DEF OneRoomPerFault
  <2> DEFINE deafRooms == {room \in Rooms : Deaf(room)}
  <2>1. FirstLife
    BY SpentNone DEF IInv, FirstLife, Kinds
  <2>2. deafRooms \subseteq MarkedRooms
    BY DEF MarkedRooms, Marked
  <2>3. /\ Cardinality(deafRooms) \in Nat /\ Cardinality(MarkedRooms) \in Nat
        /\ Cardinality(deafRooms) <= Cardinality(MarkedRooms)
    BY <2>1, <2>2, GainsNone DEF CoverInv, MarkedInv
  <2>4. FaultsSpent \in Int
    BY SpentType DEF FaultsSpent, Kinds, IInv, TypeOK, LeftTypeOK
  <2> HIDE DEF deafRooms
  <2>5. Cardinality(deafRooms) <= FaultsSpent
    BY <2>1, <2>3, <2>4 DEF CoverInv, MarkedInv
  <2> QED BY <2>5 DEF deafRooms
<1> QED BY <1>1, InductiveInvariant, CoverInvariant, PTL
=============================================================================
