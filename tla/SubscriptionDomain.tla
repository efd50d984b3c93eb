------------------------- MODULE SubscriptionDomain -------------------------
(***************************************************************************)
(* The data the add-on's subscription modules share: rooms in the order of *)
(* the configuration, calendar events (each belongs to one room's mailbox  *)
(* and carries a joinUrl), Graph subscription ids, and the budget of       *)
(* faults a behaviour may spend.  A subscription record is abstracted to   *)
(* its calendar event: the event determines the room and the joinUrl.      *)
(***************************************************************************)
EXTENDS Naturals, FiniteSets

CONSTANTS
  SubIds,     \* ids Graph may give to subscriptions (opaque)
  Events,     \* ids of online Teams events (meeting_id)
  NRooms,     \* number of configured rooms
  EventRoom,  \* the room whose calendar holds the event
  EventUrl,   \* the event's joinUrl; several events may share one
  NoSub,      \* Python None, where a subscription is expected
  NoEvent,    \* Python None, where a meeting or a record is expected
  Budget      \* bound on how often each kind of fault may happen

(* graph: a faulty answer of Graph; disk: a failed save; crash: the process
   dies; stop: SIGTERM; lapse: Graph drops a subscription that is in use. *)
Kinds == {"graph", "disk", "crash", "stop", "lapse"}

(* config.rooms, polled in this order. *)
Rooms == 1..NRooms

ASSUME RoomsAssumption == NRooms \in Nat \ {0}
ASSUME EventsAssumption == EventRoom \in [Events -> Rooms]
ASSUME NullsAssumption == NoSub \notin SubIds /\ NoEvent \notin Events
ASSUME BudgetAssumption == Budget \in [Kinds -> Nat]

EventOrNone == Events \cup {NoEvent}
SubOrNone == SubIds \cup {NoSub}

(* A dict from subscription id to record, and the empty one. *)
Registry == [SubIds -> EventOrNone]
EmptyRegistry == [id \in SubIds |-> NoEvent]
Ids(reg) == {id \in SubIds : reg[id] # NoEvent}
IdsOfRoom(reg, room) == {id \in Ids(reg) : EventRoom[reg[id]] = room}

VARIABLE left  \* what remains of Budget

UseUp(kind) == left[kind] > 0 /\ left' = [left EXCEPT ![kind] = @ - 1]
=============================================================================
