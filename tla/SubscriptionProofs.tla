-------------------------- MODULE SubscriptionProofs --------------------------
(***************************************************************************)
(* Proofs about SubscriptionLifecycle, for any number of rooms, meetings,  *)
(* subscriptions and faults.                                               *)
(***************************************************************************)
EXTENDS SubscriptionProperties, TLAPS

LeftTypeOK == left \in [Kinds -> Nat]

(***************************************************************************)
(* Types of the store's operations.                                        *)
(***************************************************************************)

(* A fault spends one unit of its kind. *)
LEMMA UseUpType ==
  ASSUME LeftTypeOK, NEW kind \in Kinds, UseUp(kind)
  PROVE  LeftTypeOK'
BY DEF LeftTypeOK, UseUp

Orders == [SubIds -> SUBSET SubIds]

(* A new record comes last, one that is there keeps its place. *)
LEMMA PutLastType ==
  ASSUME StoreTypeOK, NEW id
  PROVE  PutLast(id) \in Orders
BY DEF PutLast, StoreTypeOK, Orders, Ids

(* _persist_locked leaves a well-typed file, in the order of the records. *)
LEMMA PersistType ==
  ASSUME StoreTypeOK, LeftTypeOK, bySubscription' \in Registry,
         NEW order \in Orders, NEW saved, Persist(order, saved)
  PROVE  disk' \in Registry /\ older' \in Orders /\ LeftTypeOK'
<1>1. CASE saved
  BY <1>1 DEF Persist, LeftTypeOK, Among, Orders, Ids
<1>2. CASE ~saved
  BY <1>2, UseUpType DEF Persist, StoreTypeOK, Kinds
<1> QED BY <1>1, <1>2

(* upsert keeps the store well-typed. *)
LEMMA UpsertType ==
  ASSUME StoreTypeOK, LeftTypeOK, NEW id \in SubOrNone, NEW e,
         id \in SubIds => e \in EventOrNone, NEW saved, Upsert(id, e, saved)
  PROVE  StoreTypeOK' /\ LeftTypeOK'
<1>1. bySubscription' \in Registry
  BY DEF Upsert, StoreTypeOK, Registry
<1>2. byMeeting' \in [Events -> SubOrNone] /\ due' \in SUBSET SubIds
  BY DEF Upsert, StoreTypeOK
<1> QED BY <1>1, <1>2, PutLastType, PersistType DEF Upsert, StoreTypeOK, Orders

(* remove keeps the store well-typed. *)
LEMMA RemoveType ==
  ASSUME StoreTypeOK, LeftTypeOK, NEW id, NEW saved, Remove(id, saved)
  PROVE  StoreTypeOK' /\ LeftTypeOK'
<1>1. CASE bySubscription[id] = NoEvent
  BY <1>1 DEF Remove, StoreTypeOK, storeVars, LeftTypeOK
<1>2. CASE bySubscription[id] # NoEvent
  <2>1. bySubscription' \in Registry
    BY <1>2 DEF Remove, StoreTypeOK, Registry, EventOrNone
  <2>2. byMeeting' \in [Events -> SubOrNone] /\ due' \in SUBSET SubIds
    BY <1>2 DEF Remove, Unindex, StoreTypeOK, SubOrNone
  <2> QED BY <1>2, <2>1, <2>2, PersistType DEF Remove, StoreTypeOK, Orders
<1> QED BY <1>1, <1>2

(* _load and the end of the process keep the store well-typed. *)
LEMMA LoadType == StoreTypeOK /\ Load => StoreTypeOK'
BY DEF StoreTypeOK, Load, IndexOf, SubOrNone

LEMMA ForgetType == StoreTypeOK /\ Forget => StoreTypeOK'
BY DEF StoreTypeOK, Forget, EmptyRegistry, Registry, EventOrNone, SubOrNone

LEMMA StoreUnchanged ==
  StoreTypeOK /\ UNCHANGED storeVars => StoreTypeOK'
BY DEF StoreTypeOK, storeVars

(***************************************************************************)
(* Types of Graph's answers.                                               *)
(***************************************************************************)

LEMMA FaultType ==
  ASSUME LeftTypeOK, NEW reply, Fault(reply)
  PROVE  LeftTypeOK'
BY UseUpType DEF Fault, Kinds

LEMMA CreateType ==
  ASSUME GraphTypeOK, NEW id, NEW e \in EventOrNone, Create(id, e)
  PROVE  GraphTypeOK'
BY DEF GraphTypeOK, Create, Registry

LEMMA DropType ==
  ASSUME GraphTypeOK, NEW id, Drop(id)
  PROVE  GraphTypeOK'
BY DEF GraphTypeOK, Drop, Registry, EventOrNone

LEMMA PostType ==
  ASSUME GraphTypeOK, LeftTypeOK, NEW id, NEW e \in EventOrNone, NEW reply,
         PostCall(e, id, reply)
  PROVE  GraphTypeOK' /\ LeftTypeOK'
BY CreateType, FaultType DEF PostCall, GraphTypeOK, LeftTypeOK

LEMMA PatchType ==
  ASSUME GraphTypeOK, LeftTypeOK, NEW id, NEW reply, PatchCall(id, reply)
  PROVE  GraphTypeOK' /\ LeftTypeOK'
BY FaultType DEF PatchCall, GraphTypeOK, LeftTypeOK

LEMMA RenewalType ==
  ASSUME GraphTypeOK, LeftTypeOK, NEW id, NEW reply, RenewalCall(id, reply)
  PROVE  GraphTypeOK' /\ LeftTypeOK'
BY PatchType DEF RenewalCall, GraphTypeOK, LeftTypeOK

LEMMA DeleteType ==
  ASSUME GraphTypeOK, LeftTypeOK, NEW id, NEW reply, DeleteCall(id, reply)
  PROVE  GraphTypeOK' /\ LeftTypeOK'
BY DropType, FaultType DEF DeleteCall, GraphTypeOK, LeftTypeOK

(***************************************************************************)
(* TypeOK: one step per action of the lifecycle.                           *)
(***************************************************************************)

(* What the tasks' records may become. *)
LEMMA WatcherType ==
  ASSUME TypeOK, NEW pc \in {"idle", "get", "lock", "post"}, NEW room \in Rooms
  PROVE  /\ Watcher(pc, room) \in WatcherStates
         /\ Watcher(pc, room).pc = pc /\ Watcher(pc, room).room = room
BY DEF Watcher, WatcherStates, SubOrNone, Replies

LEMMA RenewerType ==
  ASSUME NEW pc \in {"idle", "sleep", "lock"}, NEW seen \in SUBSET SubIds
  PROVE  Renewer(pc, seen) \in RenewerStates
BY DEF Renewer, RenewerStates, EmptyRegistry, Registry, EventOrNone, SubOrNone, Replies

LEMMA CleanupType ==
  ASSUME NEW todo \in SUBSET SubIds
  PROVE  Cleanup(todo) \in CleanupStates
BY DEF Cleanup, CleanupStates, SubOrNone, Replies

LEMMA NextRoomType ==
  ASSUME TypeOK, NextRoom \/ EndRound
  PROVE  w' \in WatcherStates
<1>1. 1 \in Rooms /\ (w.room < NRooms => w.room + 1 \in Rooms)
  BY RoomsAssumption DEF TypeOK, WatcherStates, Rooms
<1>2. CASE NextRoom
  BY <1>1, <1>2, WatcherType DEF NextRoom
<1>3. CASE EndRound
  BY <1>1, <1>3, WatcherType DEF EndRound
<1> QED BY <1>2, <1>3

LEMMA ReleaseType ==
  (WatcherReleases \/ RenewerReleases) => holder' \in {"free", "watcher", "renewer"}
BY DEF WatcherReleases, RenewerReleases

Reports == [active : SUBSET SubIds, expiries : SUBSET SubIds]

LEMMA HealthType == UpdateHealth => reported' \in Reports
BY DEF UpdateHealth, Figures, Reports, Ids

LEMMA RewrittenType ==
  ASSUME TypeOK, NEW id, Rewritten(id)
  PROVE  reported' \in Reports
BY DEF TypeOK, Rewritten, Reports

(* The types of an ended process. *)
LEMMA EndsType ==
  ASSUME TypeOK, NEW how \in {"stopped", "crashed"}, Ends(how),
         live' = live, LeftTypeOK', calendar' = calendar
  PROVE  TypeOK'
<1>1. StoreTypeOK'
  BY ForgetType DEF Ends, TypeOK
<1>2. w' \in WatcherStates
  BY WatcherType, RoomsAssumption DEF Ends, Rooms
<1>3. r' \in RenewerStates
  BY RenewerType DEF Ends
<1>4. c' \in CleanupStates
  BY CleanupType DEF Ends
<1>5. /\ current' \in [Rooms -> EventOrNone]
      /\ holder' \in {"free", "watcher", "renewer"} /\ reported' \in Reports
      /\ proc' \in {"up", "stopping", "stopped", "crashed"}
  BY DEF Ends, EventOrNone, Figures, Reports
<1>6. GraphTypeOK' /\ calendar' \in [Rooms -> EventOrNone]
  BY DEF TypeOK, GraphTypeOK
<1> QED BY <1>1, <1>2, <1>3, <1>4, <1>5, <1>6 DEF TypeOK, LeftTypeOK, Reports

LEMMA WatcherStepType ==
  ASSUME TypeOK, WatcherStep
  PROVE  TypeOK'
<1> USE DEF TypeOK, WatcherStates
<1>0. LeftTypeOK
  BY DEF LeftTypeOK
<1>1. CASE PollRoom
  <2>1. StoreTypeOK' /\ GraphTypeOK'
    BY <1>1, StoreUnchanged DEF PollRoom, GraphTypeOK
  <2>2. w' \in WatcherStates
    BY <1>1, NextRoomType, WatcherType DEF PollRoom
  <2> QED BY <1>1, <2>1, <2>2 DEF PollRoom
<1>2. CASE PollFails
  <2>1. StoreTypeOK' /\ GraphTypeOK'
    BY <1>2, StoreUnchanged DEF PollFails, GraphTypeOK
  <2>2. LeftTypeOK'
    BY <1>2, <1>0, UseUpType DEF PollFails, Kinds, LeftTypeOK
  <2> QED BY <1>2, <2>1, <2>2, NextRoomType DEF PollFails, LeftTypeOK
<1>3. CASE ChangeLocked
  <2>1. StoreTypeOK' /\ GraphTypeOK'
    BY <1>3, StoreUnchanged DEF ChangeLocked, GraphTypeOK
  <2>2. PICK existing \in ExistingForRoom(w.room) :
          \/ NextRoom /\ WatcherReleases
          \/ /\ holder' = "watcher"
             /\ w' = [w EXCEPT !.pc = FirstCall(existing, current[w.room]), !.sub = existing]
    BY <1>3 DEF ChangeLocked
  <2>3. existing \in SubOrNone
    BY DEF ExistingForRoom, IdsOfRoom, Ids, SubOrNone
  <2>4. w' \in WatcherStates
    BY <2>2, <2>3, NextRoomType DEF FirstCall
  <2> QED BY <1>3, <2>1, <2>2, <2>4, ReleaseType DEF ChangeLocked
<1>4. CASE WatcherDelete
  <2>1. PICK reply \in Replies : DeleteCall(w.sub, reply)
                     /\ w' = [w EXCEPT !.pc = "deleteReply", !.reply = reply]
    BY <1>4 DEF WatcherDelete
  <2>2. StoreTypeOK' /\ GraphTypeOK' /\ LeftTypeOK'
    BY <1>4, <1>0, <2>1, StoreUnchanged, DeleteType DEF WatcherDelete
  <2> QED BY <1>4, <2>1, <2>2 DEF WatcherDelete, LeftTypeOK
<1>5. CASE WatcherDeleted
  <2>1. StoreTypeOK' /\ LeftTypeOK'
    BY <1>5, <1>0, StoreUnchanged, RemoveType DEF WatcherDeleted, LeftTypeOK
  <2>2. w' \in WatcherStates
    <3>1. NextRoom \/ EndRound \/ w' = Watcher("post", w.room)
      BY <1>5 DEF WatcherDeleted
    <3>2. Watcher("post", w.room) \in WatcherStates
      BY WatcherType
    <3> QED BY <3>1, <3>2, NextRoomType
  <2>3. holder' \in {"free", "watcher", "renewer"} /\ reported' \in Reports
    BY <1>5, ReleaseType, HealthType DEF WatcherDeleted, Reports
  <2> QED BY <1>5, <2>1, <2>2, <2>3 DEF WatcherDeleted, GraphTypeOK, LeftTypeOK, Reports
<1>6. CASE WatcherPost
  <2>1. PICK id \in Forgotten, reply \in Replies :
          /\ PostCall(current[w.room], id, reply)
          /\ w' = [w EXCEPT !.pc = "postReply", !.reply = reply,
                            !.sub = IF reply = "ok" THEN id ELSE NoSub]
    BY <1>6 DEF WatcherPost
  <2>2. StoreTypeOK' /\ GraphTypeOK' /\ LeftTypeOK'
    BY <1>6, <1>0, <2>1, StoreUnchanged, PostType DEF WatcherPost
  <2>3. id \in SubOrNone /\ NoSub \in SubOrNone
    BY DEF Forgotten, SubOrNone
  <2> QED BY <1>6, <2>1, <2>2, <2>3 DEF WatcherPost, LeftTypeOK
<1>7. CASE WatcherPosted
  <2>1. StoreTypeOK' /\ LeftTypeOK'
    BY <1>7, <1>0, StoreUnchanged, UpsertType DEF WatcherPosted, LeftTypeOK
  <2>2. w' \in WatcherStates
    BY <1>7, NextRoomType DEF WatcherPosted
  <2>3. holder' \in {"free", "watcher", "renewer"} /\ reported' \in Reports
    BY <1>7, ReleaseType, HealthType, RewrittenType DEF WatcherPosted, Reports
  <2> QED BY <1>7, <2>1, <2>2, <2>3 DEF WatcherPosted, GraphTypeOK, LeftTypeOK, Reports
<1> QED BY <1>1, <1>2, <1>3, <1>4, <1>5, <1>6, <1>7 DEF WatcherStep

LEMMA RenewerStepType ==
  ASSUME TypeOK, RenewerStep
  PROVE  TypeOK'
<1> USE DEF TypeOK
<1>0. LeftTypeOK /\ Renewer("sleep", {}) \in RenewerStates
  BY RenewerType DEF LeftTypeOK
<1>1. CASE RenewerWakes
  <2>1. StoreTypeOK' /\ GraphTypeOK'
    BY <1>1, StoreUnchanged DEF RenewerWakes, GraphTypeOK
  <2>2. Renewer("lock", due) \in RenewerStates
    BY RenewerType DEF StoreTypeOK
  <2> QED BY <1>1, <2>1, <2>2 DEF RenewerWakes
<1>2. CASE RenewerLocked
  <2>1. StoreTypeOK' /\ GraphTypeOK'
    BY <1>2 DEF RenewerLocked, StoreTypeOK, GraphTypeOK
  <2>2. DueRecords \in Registry
    BY DEF DueRecords, StoreTypeOK, Registry, EventOrNone
  <2>3. r' \in RenewerStates
    BY <1>0, <1>2, <2>2 DEF RenewerLocked, RenewerEnds, RenewerStates
  <2> QED BY <1>2, <2>1, <2>3, ReleaseType, HealthType
          DEF RenewerLocked, RenewerEnds, Reports
<1>3. CASE RenewerPatch
  <2>1. PICK id \in Ids(r.list), reply \in Replies :
          /\ RenewalCall(id, reply)
          /\ r' = [r EXCEPT !.pc = "patchReply", !.sub = id, !.reply = reply]
    BY <1>3 DEF RenewerPatch, First
  <2>2. StoreTypeOK' /\ GraphTypeOK' /\ LeftTypeOK'
    BY <1>0, <1>3, <2>1, StoreUnchanged, RenewalType DEF RenewerPatch
  <2>3. r' \in RenewerStates
    BY <2>1 DEF RenewerStates, Ids, SubOrNone
  <2> QED BY <1>3, <2>2, <2>3 DEF RenewerPatch, LeftTypeOK
<1>4. CASE RenewerPatched
  <2>1. r.sub \in SubOrNone /\ (r.sub \in SubIds => r.list[r.sub] \in EventOrNone)
    BY DEF RenewerStates, Registry
  <2>2. StoreTypeOK' /\ LeftTypeOK'
    BY <1>0, <1>4, <2>1, StoreUnchanged, UpsertType, RemoveType
       DEF RenewerPatched, LeftTypeOK
  <2>3. NextDue \/ RenewerEnds
    BY <1>4 DEF RenewerPatched
  <2>4. r' \in RenewerStates
    <3>1. [r.list EXCEPT ![r.sub] = NoEvent] \in Registry
      BY DEF RenewerStates, Registry, EventOrNone
    <3> QED BY <1>0, <2>3, <3>1
            DEF NextDue, RenewerEnds, RenewerStates, SubOrNone, Replies
  <2>5. holder' \in {"free", "watcher", "renewer"} /\ reported' \in Reports
    BY <2>3, ReleaseType, HealthType, RewrittenType DEF NextDue, RenewerEnds
  <2> QED BY <1>4, <2>2, <2>4, <2>5 DEF RenewerPatched, GraphTypeOK, LeftTypeOK, Reports
<1> QED BY <1>1, <1>2, <1>3, <1>4 DEF RenewerStep

LEMMA CleanupStepType ==
  ASSUME TypeOK, CleanupStep
  PROVE  TypeOK'
<1> USE DEF TypeOK
<1>0. LeftTypeOK
  BY DEF LeftTypeOK
<1>1. CASE CleanupDelete
  <2>1. PICK id \in c.todo, reply \in Replies :
          DeleteCall(id, reply) /\ c' = [c EXCEPT !.sub = id, !.reply = reply]
    BY <1>1 DEF CleanupDelete
  <2>2. StoreTypeOK' /\ GraphTypeOK' /\ LeftTypeOK'
    BY <1>0, <1>1, <2>1, StoreUnchanged, DeleteType DEF CleanupDelete
  <2>3. c' \in CleanupStates
    BY <2>1 DEF CleanupStates, SubOrNone
  <2> QED BY <1>1, <2>2, <2>3 DEF CleanupDelete, LeftTypeOK
<1>2. CASE CleanupDeleted
  <2>1. StoreTypeOK' /\ LeftTypeOK'
    BY <1>0, <1>2, RemoveType DEF CleanupDeleted
  <2>2. c' \in CleanupStates
    <3>1. c.todo \ {c.sub} \in SUBSET SubIds
      BY DEF CleanupStates
    <3> QED BY <1>2, <3>1, CleanupType DEF CleanupDeleted
  <2> QED BY <1>2, <2>1, <2>2 DEF CleanupDeleted, GraphTypeOK, LeftTypeOK
<1>3. CASE CleanupDone
  BY <1>0, <1>3, EndsType DEF CleanupDone, LeftTypeOK
<1>4. CASE CleanupFails
  <2>1. LeftTypeOK'
    BY <1>0, <1>4, UseUpType DEF CleanupFails, Kinds, LeftTypeOK
  <2> QED BY <1>4, <2>1, EndsType DEF CleanupFails
<1> QED BY <1>1, <1>2, <1>3, <1>4 DEF CleanupStep

LEMMA MainStepType ==
  ASSUME TypeOK, Start \/ Stop \/ Crash
  PROVE  TypeOK'
<1> USE DEF TypeOK
<1>0. LeftTypeOK /\ 1 \in Rooms /\ NoEvent \in EventOrNone
  BY RoomsAssumption DEF LeftTypeOK, Rooms, EventOrNone
<1>1. CASE Start
  <2>1. Watcher("get", 1) \in WatcherStates
    BY <1>0, WatcherType
  <2>2. Renewer("lock", due) \in RenewerStates
    BY RenewerType DEF StoreTypeOK
  <2>3. StoreTypeOK' /\ GraphTypeOK'
    BY <1>1, LoadType DEF Start, GraphTypeOK
  <2> QED BY <1>0, <1>1, <2>1, <2>2, <2>3 DEF Start
<1>2. CASE Stop
  <2>1. Watcher("idle", 1) \in WatcherStates /\ Renewer("idle", {}) \in RenewerStates
    BY <1>0, WatcherType, RenewerType
  <2>2. Cleanup(Ids(bySubscription)) \in CleanupStates
    BY CleanupType DEF Ids
  <2>3. StoreTypeOK' /\ GraphTypeOK'
    BY <1>2, StoreUnchanged DEF Stop, GraphTypeOK
  <2>4. LeftTypeOK'
    BY <1>0, <1>2, UseUpType DEF Stop, Kinds
  <2> QED BY <1>2, <2>1, <2>2, <2>3, <2>4 DEF Stop, LeftTypeOK
<1>3. CASE Crash
  <2>1. LeftTypeOK'
    BY <1>0, <1>3, UseUpType DEF Crash, Kinds
  <2> QED BY <1>3, <2>1, EndsType DEF Crash
<1> QED BY <1>1, <1>2, <1>3

LEMMA EnvironmentType ==
  ASSUME TypeOK, Environment
  PROVE  TypeOK'
<1> USE DEF TypeOK
<1>0. LeftTypeOK
  BY DEF LeftTypeOK
<1>1. CASE CalendarChanges
  <2>1. StoreTypeOK' /\ GraphTypeOK'
    BY <1>1, StoreUnchanged DEF CalendarChanges, GraphTypeOK
  <2>2. calendar' \in [Rooms -> EventOrNone]
    BY <1>1 DEF CalendarChanges, EventOrNone
  <2> QED BY <1>1, <2>1, <2>2 DEF CalendarChanges, taskVars
<1>2. CASE RecordComesDue
  <2>1. StoreTypeOK' /\ GraphTypeOK'
    BY <1>2 DEF RecordComesDue, ComesDue, StoreTypeOK, GraphTypeOK
  <2> QED BY <1>2, <2>1 DEF RecordComesDue, taskVars
<1>3. CASE Lapse
  <2>1. StoreTypeOK' /\ GraphTypeOK'
    BY <1>3, StoreUnchanged, DropType DEF Lapse
  <2>2. LeftTypeOK'
    BY <1>0, <1>3, UseUpType DEF Lapse, Kinds, LeftTypeOK
  <2> QED BY <1>3, <2>1, <2>2 DEF Lapse, taskVars, LeftTypeOK
<1> QED BY <1>1, <1>2, <1>3 DEF Environment

LEMMA InitType == Init => TypeOK
<1> SUFFICES ASSUME Init PROVE TypeOK
  OBVIOUS
<1>1. StoreTypeOK /\ GraphTypeOK
  BY DEF Init, StoreInit, GraphInit, StoreTypeOK, GraphTypeOK, EmptyRegistry,
         Registry, EventOrNone, SubOrNone
<1>2. 1 \in Rooms /\ NoEvent \in EventOrNone
  BY RoomsAssumption DEF Rooms, EventOrNone
<1>3. w = Watcher("idle", 1) /\ r = Renewer("idle", {}) /\ c = Cleanup({})
  BY DEF Init
<1>4. w \in WatcherStates
  BY <1>2, <1>3 DEF Watcher, WatcherStates, SubOrNone, Replies
<1>5. r \in RenewerStates /\ c \in CleanupStates
  BY <1>3, RenewerType, CleanupType
<1> QED BY <1>1, <1>2, <1>4, <1>5, BudgetAssumption DEF Init, TypeOK, Figures

LEMMA StutterType == TypeOK /\ UNCHANGED vars => TypeOK'
BY StoreUnchanged DEF TypeOK, vars, storeVars, GraphTypeOK

LEMMA NextType == TypeOK /\ [Next]_vars => TypeOK'
BY WatcherStepType, RenewerStepType, CleanupStepType, MainStepType,
   EnvironmentType, StutterType DEF Next

(* Every variable of the add-on, its file and Graph keeps its type. *)
THEOREM TypeCorrect == Spec => []TypeOK
BY InitType, NextType, PTL DEF Spec

(***************************************************************************)
(* One record per room: what the store's operations do to it.              *)
(***************************************************************************)

LEMMA DropOne ==
  ASSUME NEW reg \in Registry, NEW id, OnePerRoom(reg)
  PROVE  OnePerRoom([reg EXCEPT ![id] = NoEvent])
BY DEF OnePerRoom, Ids, Registry

LEMMA AddOne ==
  ASSUME NEW reg \in Registry, NEW id \in SubIds, NEW e \in Events,
         IdsOfRoom(reg, EventRoom[e]) = {}, OnePerRoom(reg)
  PROVE  OnePerRoom([reg EXCEPT ![id] = e])
BY DEF OnePerRoom, IdsOfRoom, Ids, Registry

(* The file is left alone or becomes a copy of the registry. *)
LEMMA PersistEffect ==
  ASSUME NEW order, NEW saved, Persist(order, saved)
  PROVE  disk' = disk \/ disk' = bySubscription'
BY DEF Persist

LEMMA RemoveEffect ==
  ASSUME StoreTypeOK, NEW id, NEW saved, Remove(id, saved)
  PROVE  /\ bySubscription' = [bySubscription EXCEPT ![id] = NoEvent]
         /\ disk' = disk \/ disk' = bySubscription'
<1>1. CASE bySubscription[id] = NoEvent
  BY <1>1 DEF Remove, StoreTypeOK, storeVars, Registry
<1>2. CASE bySubscription[id] # NoEvent
  BY <1>2, PersistEffect DEF Remove
<1> QED BY <1>1, <1>2

LEMMA RemoveKeepsOne ==
  ASSUME StoreTypeOK, StoreInv, NEW id \in SubIds, NEW saved, Remove(id, saved)
  PROVE  StoreInv'
<1>1. OnePerRoom(bySubscription') /\ OnePerRoom(disk')
  BY RemoveEffect, DropOne DEF StoreInv, StoreTypeOK
<1>2. IndexAgrees'
  <2>1. CASE bySubscription[id] = NoEvent
    BY <2>1 DEF Remove, storeVars, StoreInv, IndexAgrees
  <2>2. CASE bySubscription[id] # NoEvent
    <3>1. /\ bySubscription' = [bySubscription EXCEPT ![id] = NoEvent]
          /\ byMeeting' = [byMeeting EXCEPT ![bySubscription[id]] = NoSub]
      BY <2>2 DEF Remove, Unindex
    <3> QED BY <2>2, <3>1, NullsAssumption
            DEF StoreInv, IndexAgrees, StoreTypeOK, Registry, EventOrNone, SubOrNone
  <2> QED BY <2>1, <2>2
<1> QED BY <1>1, <1>2 DEF StoreInv

LEMMA UpsertKeepsOne ==
  ASSUME StoreTypeOK, StoreInv, NEW id \in SubIds, NEW e \in Events, NEW saved,
         \/ bySubscription[id] = e
         \/ bySubscription[id] = NoEvent /\ IdsOfRoom(bySubscription, EventRoom[e]) = {},
         Upsert(id, e, saved)
  PROVE  StoreInv'
<1>0. byMeeting' = [byMeeting EXCEPT ![e] = id]
  BY DEF Upsert
<1>1. bySubscription' = [bySubscription EXCEPT ![id] = e]
      /\ (disk' = disk \/ disk' = bySubscription')
  BY PersistEffect DEF Upsert
<1>2. CASE bySubscription[id] = e
  <2>1. bySubscription' = bySubscription
    BY <1>1, <1>2 DEF StoreTypeOK, Registry
  <2>2. byMeeting' = byMeeting
    BY <1>0, <1>2 DEF StoreInv, IndexAgrees, StoreTypeOK
  <2> QED BY <1>1, <2>1, <2>2 DEF StoreInv, IndexAgrees
<1>3. CASE bySubscription[id] = NoEvent /\ IdsOfRoom(bySubscription, EventRoom[e]) = {}
  <2>1. OnePerRoom([bySubscription EXCEPT ![id] = e])
    BY <1>3, AddOne DEF StoreTypeOK, StoreInv
  <2>2. \A i \in SubIds : bySubscription[i] # e
    BY <1>3, NullsAssumption DEF IdsOfRoom, Ids
  <2>3. IndexAgrees'
    BY <1>0, <1>1, <1>3, <2>2, NullsAssumption
       DEF StoreInv, IndexAgrees, StoreTypeOK, Registry
  <2> QED BY <1>1, <2>1, <2>3 DEF StoreInv
<1> QED BY <1>2, <1>3

(* A reload rebuilds the index: no two records of the file share a meeting. *)
LEMMA LoadKeepsOne ==
  ASSUME StoreTypeOK, OnePerRoom(disk), Load
  PROVE  StoreInv'
<1>1. bySubscription' = disk /\ disk' = disk /\ byMeeting' = IndexOf(disk)
  BY DEF Load
<1>2. \A e \in Events, id \in SubIds : disk[id] = e => IndexOf(disk)[e] = id
  <2> TAKE e \in Events, id \in SubIds
  <2> HAVE disk[id] = e
  <2>1. \A i \in SubIds : disk[i] = e => i = id
    BY NullsAssumption DEF OnePerRoom, Ids
  <2> QED BY <2>1 DEF IndexOf
<1>3. \A e \in Events, id \in SubIds : IndexOf(disk)[e] = id => disk[id] = e
  BY NullsAssumption DEF IndexOf
<1> QED BY <1>1, <1>2, <1>3 DEF StoreInv, IndexAgrees

LEMMA StoreSame ==
  StoreInv /\ UNCHANGED <<bySubscription, byMeeting, disk>> => StoreInv'
BY DEF StoreInv, OnePerRoom, IndexAgrees

LEMMA ForgetKeepsOne ==
  ASSUME OnePerRoom(disk), Forget
  PROVE  StoreInv'
BY NullsAssumption DEF Forget, StoreInv, OnePerRoom, Ids, EmptyRegistry, IndexAgrees

(***************************************************************************)
(* The inductive invariant, action by action.                              *)
(***************************************************************************)

LEMMA WatcherStepInv ==
  ASSUME IInv, WatcherStep
  PROVE  IInv'
<1> USE DEF IInv
<1>0. TypeOK' /\ StoreTypeOK /\ StoreInv
  BY WatcherStepType DEF TypeOK
<1>a. UNCHANGED storeVars => StoreInv'
  BY StoreSame DEF storeVars
<1>1. CASE PollRoom
  <2>1. w'.pc \in {"get", "lock"}
    BY <1>1 DEF PollRoom, NextRoom, Watcher
  <2>2. OfTheirRoom(current')
    BY <1>1 DEF PollRoom, OfTheirRoom, TypeOK, WatcherStates
  <2>3. WatcherInLock'
    BY <2>1 DEF WatcherInLock
  <2> QED BY <1>0, <1>a, <1>1, <2>2, <2>3
          DEF PollRoom, storeVars, OfTheirRoom, RenewerInLock, TasksOnlyWhileUp
<1>2. CASE PollFails
  <2>1. WatcherInLock'
    BY <1>2 DEF PollFails, EndRound, Watcher, WatcherInLock
  <2> QED BY <1>0, <1>a, <1>2, <2>1
          DEF PollFails, storeVars, OfTheirRoom, RenewerInLock, TasksOnlyWhileUp
<1>3. CASE ChangeLocked
  <2>1. r.pc \notin {"patch", "patchReply"} /\ r' = r
    BY <1>3 DEF ChangeLocked, LockFree, RenewerInLock
  <2>2. WatcherInLock'
    <3>1. PICK existing \in ExistingForRoom(w.room) :
            \/ NextRoom
            \/ /\ ~NothingToDo(existing, current[w.room])
               /\ holder' = "watcher"
               /\ w' = [w EXCEPT !.pc = FirstCall(existing, current[w.room]),
                                 !.sub = existing]
      BY <1>3 DEF ChangeLocked
    <3>2. CASE NextRoom
      BY <3>2 DEF NextRoom, Watcher, WatcherInLock
    <3>3. CASE /\ ~NothingToDo(existing, current[w.room])
               /\ holder' = "watcher"
               /\ w' = [w EXCEPT !.pc = FirstCall(existing, current[w.room]),
                                 !.sub = existing]
      <4>1. UNCHANGED <<bySubscription, current>>
        BY <1>3 DEF ChangeLocked, storeVars
      <4>2. CASE existing = NoSub
        <5>1. IdsOfRoom(bySubscription, w.room) = {} /\ current[w.room] # NoEvent
          BY <3>3, <4>2, NullsAssumption
             DEF ExistingForRoom, NothingToDo, IdsOfRoom, Ids
        <5> QED BY <3>3, <4>1, <4>2, <5>1
                DEF FirstCall, WatcherInLock, TypeOK, WatcherStates
      <4>3. CASE existing # NoSub
        <5>1. /\ existing \in IdsOfRoom(bySubscription, w.room)
              /\ bySubscription[existing] # current[w.room]
          BY <3>3, <4>3 DEF ExistingForRoom, NothingToDo
        <5> QED BY <3>3, <4>1, <4>3, <5>1
                DEF FirstCall, WatcherInLock, TypeOK, WatcherStates
      <4> QED BY <4>2, <4>3
    <3> QED BY <3>1, <3>2, <3>3
  <2> QED BY <1>0, <1>a, <1>3, <2>1, <2>2
          DEF ChangeLocked, storeVars, OfTheirRoom, RenewerInLock, TasksOnlyWhileUp
<1>4. CASE WatcherDelete
  <2>1. /\ w'.pc = "deleteReply" /\ w'.sub = w.sub /\ w'.room = w.room
    BY <1>4 DEF WatcherDelete, TypeOK, WatcherStates
  <2>2. WatcherInLock'
    BY <1>4, <2>1 DEF WatcherDelete, storeVars, WatcherInLock
  <2> QED BY <1>0, <1>a, <1>4, <2>2
          DEF WatcherDelete, storeVars, OfTheirRoom, RenewerInLock, TasksOnlyWhileUp
<1>5. CASE WatcherDeleted
  <2>1. r' = r /\ r.pc \notin {"patch", "patchReply"}
    BY <1>5 DEF WatcherDeleted, WatcherInLock, RenewerInLock
  <2>2. StoreInv'
    <3>1. w.sub \in SubIds
      BY <1>5 DEF WatcherDeleted, WatcherInLock, IdsOfRoom, Ids
    <3> QED BY <1>0, <1>a, <1>5, <3>1, RemoveKeepsOne DEF WatcherDeleted
  <2>3. WatcherInLock'
    <3>1. CASE NextRoom \/ EndRound
      BY <3>1 DEF NextRoom, EndRound, Watcher, WatcherInLock
    <3>2. CASE /\ Remove(w.sub, TRUE) /\ current[w.room] # NoEvent
               /\ w' = Watcher("post", w.room) /\ holder' = holder
      <4>1. /\ w'.pc = "post" /\ w'.room = w.room /\ current' = current
            /\ holder = "watcher" /\ w.sub \in IdsOfRoom(bySubscription, w.room)
        BY <1>5, <3>2 DEF WatcherDeleted, Watcher, WatcherInLock
      <4>2. bySubscription' = [bySubscription EXCEPT ![w.sub] = NoEvent]
        BY <1>0, <3>2, RemoveEffect
      <4>3. IdsOfRoom(bySubscription', w.room) = {}
        BY <1>0, <4>1, <4>2
           DEF StoreInv, IdsOfRoom, Ids, OnePerRoom, StoreTypeOK, Registry
      <4> QED BY <3>2, <4>1, <4>3 DEF WatcherInLock
    <3> QED BY <1>5, <3>1, <3>2 DEF WatcherDeleted
  <2> QED BY <1>0, <1>a, <1>5, <2>1, <2>2, <2>3
          DEF WatcherDeleted, OfTheirRoom, RenewerInLock, TasksOnlyWhileUp
<1>6. CASE WatcherPost
  <2>1. /\ w'.pc = "postReply" /\ w'.room = w.room
        /\ w'.reply = "ok" => w'.sub \in SubIds \ Ids(bySubscription)
    BY <1>6 DEF WatcherPost, Forgotten, Ids, TypeOK, WatcherStates
  <2>2. WatcherInLock'
    BY <1>6, <2>1 DEF WatcherPost, storeVars, WatcherInLock
  <2> QED BY <1>0, <1>a, <1>6, <2>2
          DEF WatcherPost, storeVars, OfTheirRoom, RenewerInLock, TasksOnlyWhileUp
<1>7. CASE WatcherPosted
  <2>1. r' = r /\ r.pc \notin {"patch", "patchReply"}
    BY <1>7 DEF WatcherPosted, WatcherInLock, RenewerInLock
  <2>2. StoreInv'
    <3>1. /\ current[w.room] \in Events
          /\ IdsOfRoom(bySubscription, EventRoom[current[w.room]]) = {}
      BY <1>7 DEF WatcherPosted, WatcherInLock, OfTheirRoom, TypeOK, WatcherStates,
                  EventOrNone
    <3>2. CASE w.reply = "ok"
      <4>1. w.sub \in SubIds /\ bySubscription[w.sub] = NoEvent
        BY <1>7, <3>2 DEF WatcherPosted, WatcherInLock, Ids
      <4> QED BY <1>0, <1>7, <3>1, <3>2, <4>1, UpsertKeepsOne DEF WatcherPosted
    <3>3. CASE w.reply # "ok"
      BY <1>a, <1>7, <3>3 DEF WatcherPosted
    <3> QED BY <3>2, <3>3
  <2>3. WatcherInLock'
    <3>1. NextRoom \/ EndRound
      BY <1>7 DEF WatcherPosted
    <3> QED BY <3>1 DEF NextRoom, EndRound, Watcher, WatcherInLock
  <2> QED BY <1>0, <1>a, <1>7, <2>1, <2>2, <2>3
          DEF WatcherPosted, OfTheirRoom, RenewerInLock, TasksOnlyWhileUp
<1> QED BY <1>1, <1>2, <1>3, <1>4, <1>5, <1>6, <1>7 DEF WatcherStep

LEMMA RenewerStepInv ==
  ASSUME IInv, RenewerStep
  PROVE  IInv'
<1> USE DEF IInv
<1>0. TypeOK' /\ StoreTypeOK /\ StoreInv
  BY RenewerStepType DEF TypeOK
<1>a. UNCHANGED storeVars => StoreInv'
  BY StoreSame DEF storeVars
<1>1. CASE RenewerWakes
  <2>1. r'.pc = "lock"
    BY <1>1 DEF RenewerWakes, Renewer
  <2> QED BY <1>0, <1>a, <1>1, <2>1
          DEF RenewerWakes, storeVars, OfTheirRoom, WatcherInLock, RenewerInLock,
              TasksOnlyWhileUp
<1>2. CASE RenewerLocked
  <2>1. w' = w /\ w.pc \notin {"delete", "deleteReply", "post", "postReply"}
    BY <1>2 DEF RenewerLocked, LockFree, WatcherInLock
  <2>2. UNCHANGED <<bySubscription, byMeeting, disk, calendar, current, proc>>
    BY <1>2 DEF RenewerLocked
  <2>3. RenewerInLock'
    <3>1. CASE RenewerEnds
      BY <3>1 DEF RenewerEnds, Renewer, RenewerInLock
    <3>2. CASE /\ holder' = "renewer"
               /\ r' = [r EXCEPT !.pc = "patch", !.seen = {}, !.list = DueRecords]
      <4>1. r'.pc = "patch" /\ r'.list = DueRecords
        BY <3>2 DEF TypeOK, RenewerStates
      <4>2. \A id \in Ids(DueRecords) : bySubscription[id] = DueRecords[id]
        BY DEF DueRecords, Ids
      <4> QED BY <2>2, <3>2, <4>1, <4>2 DEF RenewerInLock
    <3> QED BY <1>2, <3>1, <3>2 DEF RenewerLocked
  <2> QED BY <1>0, <1>2, <2>1, <2>2, <2>3, StoreSame
          DEF RenewerLocked, OfTheirRoom, WatcherInLock, TasksOnlyWhileUp
<1>3. CASE RenewerPatch
  <2>1. /\ r'.pc = "patchReply" /\ r'.list = r.list /\ r'.sub \in Ids(r.list)
    BY <1>3 DEF RenewerPatch, First, TypeOK, RenewerStates
  <2>2. RenewerInLock'
    BY <1>3, <2>1 DEF RenewerPatch, storeVars, RenewerInLock
  <2> QED BY <1>0, <1>a, <1>3, <2>2
          DEF RenewerPatch, storeVars, OfTheirRoom, WatcherInLock, TasksOnlyWhileUp
<1>4. CASE RenewerPatched
  <2>1. w' = w /\ w.pc \notin {"delete", "deleteReply", "post", "postReply"}
    BY <1>4 DEF RenewerPatched, WatcherInLock, RenewerInLock
  <2>2. /\ holder = "renewer" /\ r.sub \in Ids(r.list)
        /\ \A id \in Ids(r.list) : bySubscription[id] = r.list[id]
    BY <1>4 DEF RenewerPatched, RenewerInLock
  <2>3. r.sub \in SubIds /\ r.list \in Registry /\ r.list[r.sub] \in Events
    BY <2>2 DEF Ids, TypeOK, RenewerStates, Registry, EventOrNone
  <2>4. StoreInv'
    <3>1. bySubscription[r.sub] = r.list[r.sub]
      BY <2>2
    <3> QED BY <1>0, <1>a, <1>4, <2>3, <3>1, RemoveKeepsOne, UpsertKeepsOne
            DEF RenewerPatched
  <2>5. \A id \in SubIds \ {r.sub} : bySubscription'[id] = bySubscription[id]
    <3>1. \/ bySubscription' = [bySubscription EXCEPT ![r.sub] = r.list[r.sub]]
          \/ bySubscription' = [bySubscription EXCEPT ![r.sub] = NoEvent]
          \/ bySubscription' = bySubscription
      BY <1>0, <1>4, RemoveEffect DEF RenewerPatched, Upsert, storeVars
    <3> QED BY <1>0, <3>1 DEF StoreTypeOK, Registry
  <2>6. RenewerInLock'
    <3>1. CASE RenewerEnds
      BY <3>1 DEF RenewerEnds, Renewer, RenewerInLock
    <3>2. CASE NextDue /\ ~RenewerEnds
      <4> DEFINE rest == [r.list EXCEPT ![r.sub] = NoEvent]
      <4>1. /\ holder' = holder
            /\ r' = [r EXCEPT !.pc = "patch", !.list = rest, !.sub = NoSub, !.reply = "none"]
        BY <3>2 DEF NextDue
      <4>2. r'.pc = "patch" /\ r'.list = rest
        BY <4>1 DEF TypeOK, RenewerStates
      <4>3. \A id \in Ids(rest) : id \in Ids(r.list) \ {r.sub} /\ rest[id] = r.list[id]
        BY <2>3 DEF Ids, Registry
      <4>4. \A id \in Ids(rest) : bySubscription'[id] = rest[id]
        BY <2>2, <2>5, <4>3 DEF Ids
      <4> HIDE DEF rest
      <4> QED BY <2>2, <4>1, <4>2, <4>4 DEF RenewerInLock
    <3>3. NextDue \/ RenewerEnds
      BY <1>4 DEF RenewerPatched
    <3> QED BY <3>1, <3>2, <3>3
  <2> QED BY <1>0, <1>a, <1>4, <2>1, <2>4, <2>6
          DEF RenewerPatched, OfTheirRoom, WatcherInLock, TasksOnlyWhileUp
<1> QED BY <1>1, <1>2, <1>3, <1>4 DEF RenewerStep

(* The process's end discards every task and every meeting it watched. *)
LEMMA EndsInv ==
  ASSUME IInv, NEW how \in {"stopped", "crashed"}, Ends(how), TypeOK',
         calendar' = calendar
  PROVE  IInv'
<1>1. w'.pc = "idle" /\ r'.pc = "idle"
  BY DEF Ends, Watcher, Renewer
<1>2. StoreInv'
  BY ForgetKeepsOne DEF IInv, StoreInv, Ends
<1>3. OfTheirRoom(current') /\ OfTheirRoom(calendar')
  BY DEF IInv, Ends, OfTheirRoom
<1> QED BY <1>1, <1>2, <1>3 DEF IInv, WatcherInLock, RenewerInLock, TasksOnlyWhileUp

LEMMA MainStepInv ==
  ASSUME IInv, CleanupStep \/ Start \/ Stop \/ Crash
  PROVE  IInv'
<1> USE DEF IInv
<1>0. TypeOK' /\ StoreTypeOK /\ StoreInv
  BY CleanupStepType, MainStepType DEF TypeOK
<1>a. UNCHANGED storeVars => StoreInv'
  BY StoreSame DEF storeVars
<1>1. CASE CleanupDelete
  BY <1>0, <1>a, <1>1 DEF CleanupDelete, storeVars, OfTheirRoom, WatcherInLock,
                    RenewerInLock, TasksOnlyWhileUp
<1>2. CASE CleanupDeleted
  <2>1. w' = w /\ r' = r /\ w.pc = "idle" /\ r.pc = "idle"
    BY <1>2 DEF CleanupDeleted, TasksOnlyWhileUp
  <2>2. StoreInv'
    <3>1. c.sub \in SubIds
      BY <1>2 DEF CleanupDeleted, TypeOK, CleanupStates, SubOrNone
    <3> QED BY <1>0, <1>2, <3>1, RemoveKeepsOne DEF CleanupDeleted
  <2> QED BY <1>0, <1>a, <1>2, <2>1, <2>2
          DEF CleanupDeleted, OfTheirRoom, WatcherInLock, RenewerInLock,
              TasksOnlyWhileUp
<1>3. CASE CleanupDone \/ CleanupFails \/ Crash
  BY <1>0, <1>3, EndsInv DEF CleanupDone, CleanupFails, Crash
<1>4. CASE Start
  <2>1. w'.pc = "get" /\ r'.pc = "lock" /\ proc' = "up"
    BY <1>4 DEF Start, Watcher, Renewer
  <2>2. StoreInv'
    BY <1>0, <1>4, LoadKeepsOne DEF Start, StoreInv
  <2>3. OfTheirRoom(current') /\ OfTheirRoom(calendar')
    BY <1>4 DEF Start, OfTheirRoom
  <2> QED BY <1>0, <1>a, <2>1, <2>2, <2>3
          DEF WatcherInLock, RenewerInLock, TasksOnlyWhileUp
<1>5. CASE Stop
  <2>1. w'.pc = "idle" /\ r'.pc = "idle"
    BY <1>5 DEF Stop, Watcher, Renewer
  <2> QED BY <1>0, <1>a, <1>5, <2>1
          DEF Stop, storeVars, OfTheirRoom, WatcherInLock, RenewerInLock,
              TasksOnlyWhileUp
<1> QED BY <1>1, <1>2, <1>3, <1>4, <1>5 DEF CleanupStep

LEMMA EnvironmentInv ==
  ASSUME IInv, Environment \/ UNCHANGED vars
  PROVE  IInv'
<1> USE DEF IInv
<1>0. TypeOK'
  BY EnvironmentType, StutterType
<1>1. OfTheirRoom(calendar')
  BY DEF Environment, CalendarChanges, RecordComesDue, Lapse, vars, OfTheirRoom, TypeOK
<1>2. UNCHANGED <<bySubscription, byMeeting, disk, proc, current, w, r, holder>>
  BY DEF Environment, CalendarChanges, RecordComesDue, ComesDue, Lapse, vars,
         storeVars, taskVars
<1> QED BY <1>0, <1>1, <1>2, StoreSame
        DEF OfTheirRoom, WatcherInLock, RenewerInLock, TasksOnlyWhileUp

LEMMA InitInv == Init => IInv
<1> SUFFICES ASSUME Init PROVE IInv
  OBVIOUS
<1>1. w.pc = "idle" /\ r.pc = "idle"
  BY DEF Init, Watcher, Renewer
<1>2. StoreInv
  BY NullsAssumption
     DEF Init, StoreInit, StoreInv, OnePerRoom, Ids, EmptyRegistry, IndexAgrees
<1> QED BY <1>1, <1>2, InitType
        DEF Init, IInv, OfTheirRoom, WatcherInLock, RenewerInLock, TasksOnlyWhileUp

LEMMA NextInv == IInv /\ [Next]_vars => IInv'
BY WatcherStepInv, RenewerStepInv, MainStepInv, EnvironmentInv DEF Next

(* The lock keeps a replacement of a room's record apart from every renewal. *)
THEOREM InductiveInvariant == Spec => []IInv
BY InitInv, NextInv, PTL DEF Spec

(* No interleaving of the watcher, the renewals, shutdown, crashes, restarts
   and faults gives a room two records, or its file. *)
THEOREM OneRecord == Spec => []OneRecordPerRoom
<1>1. IInv => OneRecordPerRoom
  BY DEF IInv, StoreInv, OneRecordPerRoom, OnePerRoom, IdsOfRoom
<1> QED BY <1>1, InductiveInvariant, PTL

(* The index by meeting is exact after any upsert, renewal, removal, failed
   save and reload. *)
THEOREM IndexExact == Spec => []IndexAgrees
<1>1. IInv => IndexAgrees
  BY DEF IInv, StoreInv
<1> QED BY <1>1, InductiveInvariant, PTL

(***************************************************************************)
(* Who adds a record to the store of a running add-on, and who removes one.*)
(***************************************************************************)

(* The steps that leave the registry of a running add-on alone. *)
LEMMA OthersLeaveRegistry ==
  ASSUME proc = "up", [Next]_vars,
         ~WatcherDeleted, ~WatcherPosted, ~RenewerPatched, proc' = "up"
  PROVE  bySubscription' = bySubscription
<1>1. CASE WatcherStep
  BY <1>1 DEF WatcherStep, PollRoom, PollFails, ChangeLocked, WatcherDelete, WatcherPost,
              storeVars
<1>2. CASE RenewerStep
  BY <1>2 DEF RenewerStep, RenewerWakes, RenewerLocked, RenewerPatch, storeVars
<1>3. CASE CleanupStep \/ Start \/ Stop \/ Crash
  BY <1>3 DEF CleanupStep, CleanupDelete, CleanupDeleted, CleanupDone, CleanupFails,
              Start, Stop, Crash, Ends
<1>4. CASE Environment \/ UNCHANGED vars
  BY <1>4 DEF Environment, CalendarChanges, RecordComesDue, ComesDue, Lapse, vars,
              storeVars
<1> QED BY <1>1, <1>2, <1>3, <1>4 DEF Next

(* What WatcherPosted may add is the id its POST was answered with. *)
LEMMA PostedAdds ==
  ASSUME IInv, WatcherPosted
  PROVE  /\ w.pc = "postReply"
         /\ \A id \in SubIds \ {w.sub} : bySubscription'[id] = bySubscription[id]
         /\ \A id \in Ids(bySubscription) : bySubscription'[id] = bySubscription[id]
<1>1. w.pc = "postReply" /\ StoreTypeOK
  BY DEF WatcherPosted, IInv, TypeOK
<1>2. \/ /\ bySubscription' = [bySubscription EXCEPT ![w.sub] = current[w.room]]
         /\ w.reply = "ok"
      \/ bySubscription' = bySubscription
  BY DEF WatcherPosted, Upsert, storeVars
<1>3. w.reply = "ok" => w.sub \notin Ids(bySubscription)
  BY <1>1 DEF IInv, WatcherInLock
<1> QED BY <1>1, <1>2, <1>3 DEF StoreTypeOK, Registry, Ids

(* A removal by the watcher takes the record of a meeting no longer current. *)
LEMMA DeletedRemoves ==
  ASSUME IInv, WatcherDeleted
  PROVE  /\ \A id \in SubIds : bySubscription'[id] \in {bySubscription[id], NoEvent}
         /\ \A id \in SubIds \ {w.sub} : bySubscription'[id] = bySubscription[id]
         /\ w.sub \in SubIds
         /\ bySubscription[w.sub] # current[EventRoom[bySubscription[w.sub]]]
<1>1. w.pc = "deleteReply" /\ StoreTypeOK
  BY DEF WatcherDeleted, IInv, TypeOK
<1>2. w.sub \in IdsOfRoom(bySubscription, w.room) /\ bySubscription[w.sub] # current[w.room]
  BY <1>1 DEF IInv, WatcherInLock
<1>3. \/ bySubscription' = [bySubscription EXCEPT ![w.sub] = NoEvent]
      \/ bySubscription' = bySubscription
  BY <1>1, RemoveEffect DEF WatcherDeleted, storeVars
<1> QED BY <1>1, <1>2, <1>3 DEF IdsOfRoom, Ids, StoreTypeOK, Registry

(* A renewal rewrites the record it read, or removes it when refused. *)
LEMMA RenewalKeeps ==
  ASSUME IInv, RenewerPatched
  PROVE  /\ r.pc = "patchReply" /\ r.sub \in Ids(bySubscription)
         /\ \A id \in SubIds \ {r.sub} : bySubscription'[id] = bySubscription[id]
         /\ r.reply # "refused" => bySubscription' = bySubscription
<1>1. r.pc = "patchReply" /\ StoreTypeOK
  BY DEF RenewerPatched, IInv, TypeOK
<1>2. r.sub \in Ids(bySubscription) /\ bySubscription[r.sub] = r.list[r.sub]
  BY <1>1 DEF IInv, RenewerInLock, Ids
<1>3. \/ bySubscription' = [bySubscription EXCEPT ![r.sub] = r.list[r.sub]]
      \/ bySubscription' = bySubscription
      \/ /\ bySubscription' = [bySubscription EXCEPT ![r.sub] = NoEvent]
         /\ r.reply = "refused"
  BY <1>1, RemoveEffect DEF RenewerPatched, RenewalRefused, Upsert, storeVars
<1> QED BY <1>1, <1>2, <1>3 DEF StoreTypeOK, Registry

(* While the add-on runs, only the answer to the watcher's POST adds a record:
   no renewal brings back what the watcher deleted. *)
THEOREM NothingResurrected == Spec => NoResurrection
<1> DEFINE Step == proc = "up" =>
       \A id \in Ids(bySubscription') \ Ids(bySubscription) :
         w.pc = "postReply" /\ w.sub = id
<1>1. ASSUME IInv, [Next]_vars PROVE Step
  <2> SUFFICES ASSUME proc = "up",
                      NEW id \in Ids(bySubscription') \ Ids(bySubscription)
               PROVE  w.pc = "postReply" /\ w.sub = id
    OBVIOUS
  <2>1. bySubscription'[id] # bySubscription[id] /\ id \in SubIds
    BY DEF Ids
  <2>2. proc' = "up"
    <3>1. proc' # "up" => bySubscription' \in {bySubscription, EmptyRegistry}
      BY <1>1 DEF Next, WatcherStep, PollRoom, PollFails, ChangeLocked, WatcherDelete,
           WatcherDeleted, WatcherPost, WatcherPosted, RenewerStep, RenewerWakes,
           RenewerLocked, RenewerPatch, RenewerPatched, CleanupStep, CleanupDelete,
           CleanupDeleted, CleanupDone, CleanupFails, Start, Stop, Crash, Ends, Forget,
           Environment, CalendarChanges, RecordComesDue, Lapse, vars, storeVars
    <3> QED BY <2>1, <3>1 DEF Ids, EmptyRegistry
  <2>3. CASE WatcherPosted
    BY <1>1, <2>1, <2>3, PostedAdds
  <2>4. CASE WatcherDeleted
    BY <1>1, <2>1, <2>4, DeletedRemoves DEF Ids
  <2>5. CASE RenewerPatched
    BY <1>1, <2>1, <2>5, RenewalKeeps DEF Ids
  <2> QED BY <1>1, <2>1, <2>2, <2>3, <2>4, <2>5, OthersLeaveRegistry
<1>2. IInv /\ [Next]_vars => [Step]_vars
  BY <1>1
<1>3. Spec => [][Step]_vars
  BY <1>2, InductiveInvariant, PTL DEF Spec
<1> QED BY <1>3 DEF NoResurrection

(* While the add-on runs, the record of a meeting its room watches goes only
   when Graph refuses to renew it. *)
THEOREM WatchedKept == Spec => WatchedNotDropped
<1> DEFINE Step == proc = "up" /\ proc' = "up" =>
       \A id \in Ids(bySubscription) \ Ids(bySubscription') :
         \/ current[EventRoom[bySubscription[id]]] # bySubscription[id]
         \/ r.pc = "patchReply" /\ r.sub = id /\ r.reply = "refused"
<1>1. ASSUME IInv, [Next]_vars PROVE Step
  <2> SUFFICES ASSUME proc = "up", proc' = "up",
                      NEW id \in Ids(bySubscription) \ Ids(bySubscription')
               PROVE  \/ current[EventRoom[bySubscription[id]]] # bySubscription[id]
                      \/ r.pc = "patchReply" /\ r.sub = id /\ r.reply = "refused"
    OBVIOUS
  <2>1. bySubscription'[id] # bySubscription[id] /\ id \in SubIds
    BY DEF Ids
  <2>2. CASE WatcherPosted
    BY <1>1, <2>1, <2>2, PostedAdds
  <2>3. CASE WatcherDeleted
    BY <1>1, <2>1, <2>3, DeletedRemoves
  <2>4. CASE RenewerPatched
    BY <1>1, <2>1, <2>4, RenewalKeeps
  <2> QED BY <1>1, <2>1, <2>2, <2>3, <2>4, OthersLeaveRegistry
<1>2. IInv /\ [Next]_vars => [Step]_vars
  BY <1>1
<1>3. Spec => [][Step]_vars
  BY <1>2, InductiveInvariant, PTL DEF Spec
<1> QED BY <1>3 DEF WatchedNotDropped

(***************************************************************************)
(* The lock is never left behind.                                          *)
(***************************************************************************)

LEMMA RecordsLeft ==
  ASSUME NEW reg \in Registry, reg # EmptyRegistry
  PROVE  Ids(reg) # {}
BY DEF Registry, EmptyRegistry, Ids

(* Releasing hands the lock to a task that waits for it, or to nobody. *)
LEMMA HandedOver ==
  /\ WatcherReleases /\ r' = r => LockNotLeaked'
  /\ RenewerReleases /\ w' = w => LockNotLeaked'
BY DEF WatcherReleases, RenewerReleases, LockNotLeaked

LEMMA WatcherLocks ==
  ASSUME IInv, LockNotLeaked, WatcherStep
  PROVE  LockNotLeaked'
<1>0. w \in WatcherStates /\ r' = r
  BY DEF IInv, TypeOK, WatcherStep, PollRoom, PollFails, ChangeLocked, WatcherDelete,
         WatcherDeleted, WatcherPost, WatcherPosted
<1>1. CASE PollRoom \/ PollFails
  BY <1>0, <1>1 DEF PollRoom, PollFails, LockNotLeaked
<1>2. CASE ChangeLocked
  <2>1. CASE WatcherReleases
    BY <1>0, <2>1, HandedOver
  <2>2. ASSUME NEW existing, holder' = "watcher",
               w' = [w EXCEPT !.pc = FirstCall(existing, current[w.room]), !.sub = existing]
        PROVE  LockNotLeaked'
    <3>1. w'.pc \in {"post", "delete"}
      BY <1>0, <2>2 DEF WatcherStates, FirstCall
    <3> QED BY <2>2, <3>1 DEF LockNotLeaked
  <2> QED BY <1>2, <2>1, <2>2 DEF ChangeLocked
<1>3. CASE WatcherDelete \/ WatcherPost
  <2>1. w'.pc \in {"deleteReply", "postReply"} /\ holder' = holder
    <3>1. WatcherDelete => w'.pc = "deleteReply"
      BY <1>0 DEF WatcherDelete, WatcherStates
    <3>2. WatcherPost => w'.pc = "postReply"
      BY <1>0 DEF WatcherPost, WatcherStates
    <3> QED BY <1>3, <3>1, <3>2 DEF WatcherDelete, WatcherPost
  <2> QED BY <1>0, <2>1 DEF LockNotLeaked
<1>4. CASE WatcherDeleted
  <2>1. CASE WatcherReleases
    BY <1>0, <2>1, HandedOver
  <2>2. CASE w' = Watcher("post", w.room) /\ holder' = holder
    <3>1. w'.pc = "post"
      BY <2>2 DEF Watcher
    <3> QED BY <1>0, <2>2, <3>1 DEF LockNotLeaked
  <2> QED BY <1>4, <2>1, <2>2 DEF WatcherDeleted
<1>5. CASE WatcherPosted
  BY <1>0, <1>5, HandedOver DEF WatcherPosted
<1> QED BY <1>1, <1>2, <1>3, <1>4, <1>5 DEF WatcherStep

LEMMA RenewerLocks ==
  ASSUME IInv, LockNotLeaked, RenewerStep
  PROVE  LockNotLeaked'
<1>0. r \in RenewerStates /\ w' = w /\ StoreTypeOK
  BY DEF IInv, TypeOK, RenewerStep, RenewerWakes, RenewerLocked, RenewerPatch, RenewerPatched
<1>1. CASE RenewerWakes
  BY <1>0, <1>1 DEF RenewerWakes, LockNotLeaked
<1>2. CASE RenewerEnds
  BY <1>0, <1>2, HandedOver DEF RenewerEnds
<1>3. ASSUME RenewerLocked, ~RenewerEnds PROVE LockNotLeaked'
  <2>1. /\ DueRecords # EmptyRegistry /\ holder' = "renewer"
        /\ r' = [r EXCEPT !.pc = "patch", !.seen = {}, !.list = DueRecords]
    BY <1>3 DEF RenewerLocked
  <2>2. r'.pc = "patch" /\ r'.list = DueRecords
    BY <1>0, <2>1 DEF RenewerStates
  <2>3. DueRecords \in Registry
    BY <1>0 DEF DueRecords, StoreTypeOK, Registry, EventOrNone
  <2>4. Ids(DueRecords) # {}
    BY <2>1, <2>3, RecordsLeft
  <2> QED BY <2>1, <2>2, <2>4 DEF LockNotLeaked
<1>4. CASE RenewerPatch
  <2>1. r.pc = "patch" /\ r'.pc = "patchReply" /\ r'.list = r.list /\ holder' = holder
    BY <1>0, <1>4 DEF RenewerPatch, RenewerStates
  <2> QED BY <1>0, <2>1 DEF LockNotLeaked
<1>5. ASSUME RenewerPatched, ~RenewerEnds PROVE LockNotLeaked'
  <2> DEFINE rest == [r.list EXCEPT ![r.sub] = NoEvent]
  <2>1. /\ rest # EmptyRegistry /\ holder' = holder
        /\ r' = [r EXCEPT !.pc = "patch", !.list = rest, !.sub = NoSub, !.reply = "none"]
    BY <1>5 DEF RenewerPatched, NextDue
  <2>2. r'.pc = "patch" /\ r'.list = rest
    BY <1>0, <2>1 DEF RenewerStates
  <2>3. rest \in Registry
    BY <1>0 DEF RenewerStates, Registry, EventOrNone
  <2>4. Ids(rest) # {}
    BY <2>1, <2>3, RecordsLeft
  <2> HIDE DEF rest
  <2> QED BY <1>0, <1>5, <2>1, <2>2, <2>4 DEF RenewerPatched, LockNotLeaked, IInv, RenewerInLock
<1> QED BY <1>1, <1>2, <1>3, <1>4, <1>5 DEF RenewerStep

LEMMA OthersLock ==
  ASSUME IInv, LockNotLeaked, CleanupStep \/ Start \/ Stop \/ Crash \/ Environment \/ UNCHANGED vars
  PROVE  LockNotLeaked'
<1>1. CASE CleanupDone \/ CleanupFails \/ Stop \/ Crash
  BY <1>1 DEF CleanupDone, CleanupFails, Stop, Crash, Ends, LockNotLeaked
<1>2. CASE CleanupDelete \/ CleanupDeleted \/ Start
  <2>1. w.pc = "idle" /\ r.pc = "idle" /\ holder' = holder
    BY <1>2 DEF CleanupDelete, CleanupDeleted, Start, IInv, TasksOnlyWhileUp
  <2> QED BY <2>1 DEF LockNotLeaked
<1>3. CASE Environment \/ UNCHANGED vars
  <2>1. UNCHANGED <<w, r, holder>>
    BY <1>3 DEF Environment, CalendarChanges, RecordComesDue, Lapse, taskVars, vars
  <2> QED BY <2>1 DEF LockNotLeaked
<1> QED BY <1>1, <1>2, <1>3 DEF CleanupStep

(* Whatever becomes of the calls and of the tasks, the lock is held only by a
   task that goes on: no exception, cancellation or restart leaves it held. *)
THEOREM LockReleased == Spec => []LockNotLeaked
<1>1. Init => LockNotLeaked
  BY DEF Init, LockNotLeaked
<1>2. IInv /\ LockNotLeaked /\ [Next]_vars => LockNotLeaked'
  BY WatcherLocks, RenewerLocks, OthersLock DEF Next
<1> QED BY <1>1, <1>2, InductiveInvariant, PTL DEF Spec
=============================================================================
