--------------------------- MODULE RegistryProofs ---------------------------
(***************************************************************************)
(* The subscription lifecycle implements RoomRegistry: every step of the   *)
(* watcher, the renewer, the cleanup, main and the environment changes at  *)
(* most one room's slot, for any rooms, meetings, ids and faults.          *)
(***************************************************************************)
EXTENDS SubscriptionProofs

Running == proc \in {"up", "stopping"}
registryVars == <<Slots(bySubscription), Slots(disk), Running>>
RegistryStep == Registered!Next \/ UNCHANGED registryVars

(***************************************************************************)
(* Slots: what a registry with at most one record per room shows of them.  *)
(***************************************************************************)

(* Slots are a function on rooms. *)
LEMMA SlotsFunction ==
  ASSUME NEW reg  PROVE Slots(reg) = [room \in Rooms |-> Slots(reg)[room]]
BY DEF Slots

(* A room's slot is its record, or empty without one. *)
LEMMA SlotOf ==
  ASSUME NEW reg \in Registry, OnePerRoom(reg), NEW room \in Rooms
  PROVE  /\ \A id \in IdsOfRoom(reg, room) : Slots(reg)[room] = reg[id]
         /\ IdsOfRoom(reg, room) = {} => Slots(reg)[room] = NoEvent
<1>1. ASSUME NEW id \in IdsOfRoom(reg, room)  PROVE Slots(reg)[room] = reg[id]
  <2>1. \A j \in SubIds : j \in IdsOfRoom(reg, room) => j = id
    BY <1>1 DEF OnePerRoom, IdsOfRoom
  <2>2. (CHOOSE j \in SubIds : j \in IdsOfRoom(reg, room)) = id
    BY <1>1, <2>1 DEF IdsOfRoom, Ids
  <2> QED  BY <1>1, <2>2 DEF Slots
<1> QED  BY <1>1 DEF Slots

(* An empty registry shows empty slots (subscription_store.py __init__). *)
LEMMA EmptySlots == Slots(EmptyRegistry) = Registered!Empty
BY DEF Slots, EmptyRegistry, IdsOfRoom, Ids, Registered!Empty

(* A record of a room without one fills its slot (upsert). *)
LEMMA SlotFilled ==
  ASSUME NEW reg \in Registry, NEW id \in SubIds, NEW e \in Events, reg[id] = NoEvent,
         OnePerRoom(reg), IdsOfRoom(reg, EventRoom[e]) = {}
  PROVE  /\ Slots(reg)[EventRoom[e]] = NoEvent
         /\ Slots([reg EXCEPT ![id] = e]) = [Slots(reg) EXCEPT ![EventRoom[e]] = e]
<1> DEFINE new == [reg EXCEPT ![id] = e]
<1>1. new \in Registry /\ OnePerRoom(new)
  BY AddOne DEF Registry, EventOrNone
<1>2. EventRoom[e] \in Rooms
  BY EventsAssumption
<1>3. ASSUME NEW room \in Rooms
      PROVE  Slots(new)[room] = IF room = EventRoom[e] THEN e ELSE Slots(reg)[room]
  <2>1. CASE room = EventRoom[e]
    <3>1. id \in IdsOfRoom(new, room) /\ new[id] = e
      BY <2>1, NullsAssumption DEF IdsOfRoom, Ids, Registry
    <3> HIDE DEF new
    <3> QED  BY <2>1, <3>1, <1>1, SlotOf
  <2>2. CASE room # EventRoom[e]
    <3>1. IdsOfRoom(new, room) = IdsOfRoom(reg, room)
      BY <2>2, NullsAssumption DEF IdsOfRoom, Ids, Registry
    <3>2. \A j \in IdsOfRoom(reg, room) : new[j] = reg[j]
      BY DEF IdsOfRoom, Ids, Registry
    <3> HIDE DEF new
    <3> QED  BY <2>2, <3>1, <3>2, <1>1, SlotOf
  <2> QED  BY <2>1, <2>2
<1>4. Slots(reg)[EventRoom[e]] = NoEvent
  BY <1>2, SlotOf
<1> QED
  <2> HIDE DEF new
  <2>1. Slots(new) = [Slots(reg) EXCEPT ![EventRoom[e]] = e]
    <3>1. Slots(new) = [room \in Rooms |-> Slots(new)[room]]
      BY SlotsFunction
    <3>2. Slots(reg) = [room \in Rooms |-> Slots(reg)[room]]
      BY SlotsFunction
    <3> QED  BY <3>1, <3>2, <1>3, <1>2
  <2> QED  BY <2>1, <1>4 DEF new

(* Without its record a room's slot is empty (remove). *)
LEMMA SlotCleared ==
  ASSUME NEW reg \in Registry, NEW id \in Ids(reg), OnePerRoom(reg)
  PROVE  /\ EventRoom[reg[id]] \in Rooms
         /\ Slots(reg)[EventRoom[reg[id]]] # NoEvent
         /\ Slots([reg EXCEPT ![id] = NoEvent])
              = [Slots(reg) EXCEPT ![EventRoom[reg[id]]] = NoEvent]
<1> DEFINE new == [reg EXCEPT ![id] = NoEvent]
           theirs == EventRoom[reg[id]]
<1>1. new \in Registry /\ OnePerRoom(new)
  BY DropOne DEF Registry, EventOrNone
<1>2. theirs \in Rooms /\ reg[id] # NoEvent /\ id \in IdsOfRoom(reg, theirs)
  BY EventsAssumption DEF Registry, EventOrNone, Ids, IdsOfRoom
<1>3. ASSUME NEW room \in Rooms
      PROVE  Slots(new)[room] = IF room = theirs THEN NoEvent ELSE Slots(reg)[room]
  <2>1. CASE room = theirs
    <3>1. IdsOfRoom(new, room) = {}
      BY <2>1 DEF OnePerRoom, IdsOfRoom, Ids, Registry
    <3> HIDE DEF new
    <3> QED  BY <2>1, <3>1, <1>1, SlotOf
  <2>2. CASE room # theirs
    <3>1. IdsOfRoom(new, room) = IdsOfRoom(reg, room)
      BY <2>2 DEF IdsOfRoom, Ids, Registry
    <3>2. \A j \in IdsOfRoom(reg, room) : new[j] = reg[j]
      BY <2>2 DEF IdsOfRoom, Ids, Registry
    <3> HIDE DEF new, theirs
    <3> QED  BY <2>2, <3>1, <3>2, <1>1, SlotOf
  <2> QED  BY <2>1, <2>2
<1>4. Slots(reg)[theirs] # NoEvent
  <2> HIDE DEF theirs
  <2> QED  BY <1>2, SlotOf
<1> QED
  <2>1. Slots(new) = [Slots(reg) EXCEPT ![theirs] = NoEvent]
    <3> HIDE DEF new, theirs
    <3>1. Slots(new) = [room \in Rooms |-> Slots(new)[room]]
      BY SlotsFunction
    <3>2. Slots(reg) = [room \in Rooms |-> Slots(reg)[room]]
      BY SlotsFunction
    <3> QED  BY <3>1, <3>2, <1>3, <1>2
  <2> QED  BY <2>1, <1>2, <1>4

(***************************************************************************)
(* The store's operations are steps of the registry.                       *)
(***************************************************************************)

(* remove, with or without its save (subscription_store.py). *)
LEMMA RemoveStep ==
  ASSUME IInv, Running, Running' = Running, NEW id \in SubIds, NEW saved, Remove(id, saved)
  PROVE  RegistryStep
<1>0. bySubscription \in Registry /\ OnePerRoom(bySubscription)
  BY DEF IInv, TypeOK, StoreTypeOK, StoreInv
<1>1. CASE bySubscription[id] = NoEvent
  BY <1>1 DEF Remove, storeVars, RegistryStep, registryVars
<1>2. CASE bySubscription[id] # NoEvent
  <2> DEFINE room == EventRoom[bySubscription[id]]
  <2>1. bySubscription' = [bySubscription EXCEPT ![id] = NoEvent]
    BY <1>2 DEF Remove
  <2>2. disk' = disk \/ disk' = bySubscription'
    BY <1>2, PersistEffect DEF Remove
  <2>3. /\ room \in Rooms /\ Slots(bySubscription)[room] # NoEvent
        /\ Slots(bySubscription') = [Slots(bySubscription) EXCEPT ![room] = NoEvent]
    BY <1>0, <1>2, <2>1, SlotCleared DEF Ids
  <2>4. Registered!Clear(room)
    <3> HIDE DEF room
    <3> QED  BY <2>2, <2>3 DEF Registered!Clear, Registered!Save, Running
  <2>5. Registered!Next
    <3> HIDE DEF room
    <3> QED  BY <2>3, <2>4 DEF Registered!Next
  <2> QED  BY <2>5 DEF RegistryStep
<1> QED  BY <1>1, <1>2

(* upsert of a new record in a room without one, with or without its save. *)
LEMMA InsertStep ==
  ASSUME IInv, Running, Running' = Running, NEW id \in SubIds, NEW e \in Events,
         bySubscription[id] = NoEvent, IdsOfRoom(bySubscription, EventRoom[e]) = {},
         NEW saved, Upsert(id, e, saved)
  PROVE  RegistryStep
<1>1. bySubscription \in Registry /\ OnePerRoom(bySubscription)
  BY DEF IInv, TypeOK, StoreTypeOK, StoreInv
<1>2. bySubscription' = [bySubscription EXCEPT ![id] = e]
      /\ (disk' = disk \/ disk' = bySubscription')
  BY PersistEffect DEF Upsert
<1>3. /\ Slots(bySubscription)[EventRoom[e]] = NoEvent
      /\ Slots(bySubscription') = [Slots(bySubscription) EXCEPT ![EventRoom[e]] = e]
  BY <1>1, <1>2, SlotFilled
<1>4. Registered!Fill(EventRoom[e], e)
  BY <1>2, <1>3 DEF Registered!Fill, Registered!Save, Running
<1> QED  BY <1>4 DEF RegistryStep, Registered!Next

(* upsert of a record the store has, with a later expiry. *)
LEMMA RewriteStep ==
  ASSUME IInv, Running, Running' = Running, NEW id \in SubIds,
         NEW saved, Upsert(id, bySubscription[id], saved)
  PROVE  RegistryStep
<1>1. bySubscription' = bySubscription
  BY DEF Upsert, IInv, TypeOK, StoreTypeOK, Registry
<1>2. disk' = disk \/ disk' = bySubscription
  BY <1>1, PersistEffect DEF Upsert
<1>3. CASE disk' = disk
  BY <1>1, <1>3 DEF RegistryStep, registryVars
<1>4. CASE disk' = bySubscription
  <2>1. Registered!Rewrite
    BY <1>1, <1>4 DEF Registered!Rewrite, Running
  <2> QED  BY <2>1 DEF RegistryStep, Registered!Next
<1> QED  BY <1>2, <1>3, <1>4

(* The process's end, however it comes (main.py). *)
LEMMA EndsStep ==
  ASSUME Running, NEW how \in {"stopped", "crashed"}, Ends(how)
  PROVE  RegistryStep
<1>1. bySubscription' = EmptyRegistry /\ disk' = disk /\ ~Running'
  BY DEF Ends, Forget, Running
<1>2. Slots(bySubscription') = Registered!Empty
  BY <1>1, EmptySlots
<1>3. Registered!End
  BY <1>1, <1>2 DEF Registered!End, Running
<1> QED  BY <1>3 DEF RegistryStep, Registered!Next

(***************************************************************************)
(* Every step of the lifecycle is a step of the registry or none.          *)
(***************************************************************************)

(* A step that leaves store and process alone is none. *)
LEMMA NoRegistryStep == UNCHANGED <<bySubscription, disk, proc>> => RegistryStep
BY DEF RegistryStep, registryVars, Running

LEMMA WatcherRegistry ==
  ASSUME IInv, WatcherStep  PROVE RegistryStep
<1>1. CASE PollRoom \/ PollFails \/ ChangeLocked \/ WatcherDelete \/ WatcherPost
  BY <1>1, NoRegistryStep
  DEF PollRoom, PollFails, ChangeLocked, WatcherDelete, WatcherPost, storeVars
<1>2. CASE WatcherDeleted
  <2>1. w.sub \in SubIds /\ Running /\ Running' = Running
    BY <1>2 DEF WatcherDeleted, IInv, WatcherInLock, IdsOfRoom, Ids, Running
  <2>2. UNCHANGED storeVars \/ \E saved \in BOOLEAN : Remove(w.sub, saved)
    BY <1>2 DEF WatcherDeleted
  <2>3. UNCHANGED proc
    BY <1>2 DEF WatcherDeleted
  <2> QED  BY <2>1, <2>2, <2>3, RemoveStep, NoRegistryStep DEF storeVars
<1>3. CASE WatcherPosted
  <2>1. UNCHANGED proc /\ Running /\ Running' = Running
    BY <1>3 DEF WatcherPosted, Running
  <2>2. CASE UNCHANGED storeVars
    BY <2>1, <2>2, NoRegistryStep DEF storeVars
  <2>3. CASE \E saved \in BOOLEAN : w.reply = "ok" /\ Upsert(w.sub, current[w.room], saved)
    <3>1. w.sub \in SubIds /\ bySubscription[w.sub] = NoEvent
      BY <1>3, <2>3 DEF WatcherPosted, IInv, WatcherInLock, Ids
    <3>2. w.room \in Rooms /\ current[w.room] \in Events /\ EventRoom[current[w.room]] = w.room
      BY <1>3
      DEF WatcherPosted, IInv, WatcherInLock, OfTheirRoom, TypeOK, WatcherStates, EventOrNone
    <3>3. IdsOfRoom(bySubscription, EventRoom[current[w.room]]) = {}
      BY <1>3, <3>2 DEF WatcherPosted, IInv, WatcherInLock
    <3> QED  BY <2>1, <2>3, <3>1, <3>2, <3>3, InsertStep
  <2> QED  BY <1>3, <2>2, <2>3 DEF WatcherPosted
<1> QED  BY <1>1, <1>2, <1>3 DEF WatcherStep

LEMMA RenewerRegistry ==
  ASSUME IInv, RenewerStep  PROVE RegistryStep
<1>1. CASE RenewerWakes \/ RenewerLocked \/ RenewerPatch
  BY <1>1, NoRegistryStep DEF RenewerWakes, RenewerLocked, RenewerPatch, storeVars
<1>2. CASE RenewerPatched
  <2>1. UNCHANGED proc /\ Running /\ Running' = Running
    BY <1>2 DEF RenewerPatched, Running
  <2>2. r.sub \in SubIds /\ r.list[r.sub] = bySubscription[r.sub]
    BY <1>2 DEF RenewerPatched, IInv, RenewerInLock, Ids
  <2>3. \/ UNCHANGED storeVars
        \/ \E saved \in BOOLEAN : Remove(r.sub, saved) \/ Upsert(r.sub, r.list[r.sub], saved)
    BY <1>2 DEF RenewerPatched
  <2> QED
    BY <2>1, <2>2, <2>3, RemoveStep, RewriteStep, NoRegistryStep DEF storeVars
<1> QED  BY <1>1, <1>2 DEF RenewerStep

LEMMA MainRegistry ==
  ASSUME IInv, CleanupStep \/ Start \/ Stop \/ Crash  PROVE RegistryStep
<1>1. CASE CleanupDelete
  BY <1>1, NoRegistryStep DEF CleanupDelete, storeVars
<1>2. CASE CleanupDeleted
  <2>1. c.sub \in SubIds /\ Running /\ Running' = Running
    BY <1>2 DEF CleanupDeleted, IInv, TypeOK, CleanupStates, SubOrNone, Running
  <2> QED  BY <1>2, <2>1, RemoveStep DEF CleanupDeleted
<1>3. CASE CleanupDone \/ CleanupFails \/ Crash
  BY <1>3, EndsStep DEF CleanupDone, CleanupFails, Crash, Running
<1>4. CASE Start
  <2>1. Registered!Begin
    BY <1>4 DEF Start, Load, Registered!Begin
  <2> QED  BY <2>1 DEF RegistryStep, Registered!Next
<1>5. CASE Stop
  BY <1>5 DEF Stop, storeVars, RegistryStep, registryVars, Running
<1> QED  BY <1>1, <1>2, <1>3, <1>4, <1>5 DEF CleanupStep

(* Each step of the lifecycle is one of the registry, or leaves it alone. *)
LEMMA StepRefines == IInv /\ [Next]_vars => RegistryStep
<1> SUFFICES ASSUME IInv, [Next]_vars  PROVE RegistryStep
  OBVIOUS
<1>1. CASE Environment \/ UNCHANGED vars
  BY <1>1, NoRegistryStep
  DEF Environment, CalendarChanges, RecordComesDue, ComesDue, Lapse, vars, storeVars
<1> QED  BY <1>1, WatcherRegistry, RenewerRegistry, MainRegistry DEF Next

(* The lifecycle implements the registry of one slot per room with its saved
   copy (subscription_manager.py and subscription_store.py). *)
THEOREM ImplementsRegistry == Spec => RefinesRoomRegistry
<1>1. Init => Registered!Init
  BY EmptySlots DEF Init, StoreInit, EmptyRegistry, Registered!Init
<1>2. IInv /\ [Next]_vars =>
        [Registered!Next]_<<Slots(bySubscription), Slots(disk), proc \in {"up", "stopping"}>>
  BY StepRefines DEF RegistryStep, registryVars, Running
<1> QED
  BY <1>1, <1>2, InductiveInvariant, PTL DEF Spec, RefinesRoomRegistry, Registered!Spec
=============================================================================
