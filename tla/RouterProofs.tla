---------------------------- MODULE RouterProofs ----------------------------
(***************************************************************************)
(* Proofs about EventRouter, for any rooms, records, window and messages.  *)
(***************************************************************************)
EXTENDS EventRouter, TLAPS

(* RouterTypeOK but for the clocks, which OnTime types. *)
Typed ==
  /\ records \in [SubIds -> Records \cup {NoRecord}]
  /\ posted \in Made \cup {NoRecord}
  /\ batch \in Seq(Notifications) /\ Len(batch) <= MaxBatch
  /\ buffered \in 0..MaxBuffered
  /\ call \in Records \cup {NoRecord}
  /\ options \in Options /\ linked \in BOOLEAN /\ restarts \in 0..MaxRestarts
  /\ fired \subseteq Rooms

(* The measured time differs from the time that passed by no more than the clock
   was set, as far as either is counted. *)
OnTime ==
  /\ jumps \in 0..MaxJump
  /\ since \in [Rooms -> Int] /\ quiet \in [Rooms -> 0..LongAgo]
  /\ \A room \in Rooms :
       /\ -Shift <= since[room] /\ since[room] <= LongAgo
       /\ since[room] <= quiet[room] + Shift /\ quiet[room] <= since[room] + Shift

(* A message the relay forwards is a sequence of notifications. *)
LEMMA MessageType ==
  \A message \in Message : message \in Seq(Notifications) /\ Len(message) <= MaxBatch
<1> SUFFICES ASSUME NEW n \in 0..MaxBatch, NEW message \in [1..n -> Notifications]
             PROVE  message \in Seq(Notifications) /\ Len(message) <= MaxBatch
  BY DEF Message
<1>1. message \in Seq(Notifications) /\ Len(message) = n
  BY RouterAssumption
<1> QED BY <1>1, RouterAssumption

LEMMA EmptyBatch == <<>> \in Seq(Notifications) /\ Len(<<>>) <= MaxBatch
BY RouterAssumption

LEMMA InitTyped == Init => Typed
<1> SUFFICES ASSUME Init PROVE Typed
  OBVIOUS
<1>1. linked \in BOOLEAN
  BY Zenon DEF Init
<1> QED BY <1>1, EmptyBatch, RouterAssumption DEF Init, Typed

(* Handling a notification only looks at records that are there. *)
LEMMA HandleTyped ==
  ASSUME Typed, HandleOne
  PROVE  Typed'
<1>1. /\ batch # <<>> /\ Head(batch) \in Notifications
      /\ Tail(batch) \in Seq(Notifications) /\ Len(Tail(batch)) = Len(batch) - 1
  BY DEF Typed, HandleOne
<1>4. Len(Tail(batch)) <= MaxBatch
  BY <1>1, RouterAssumption DEF Typed
<1>2. batch' = Tail(batch)
  BY DEF HandleOne, Ignore, Debounce, Fire
<1>3. call' \in Records \cup {NoRecord}
  BY <1>1 DEF HandleOne, Ignore, Debounce, Fire, Typed, Notifications
<1>5. fired' \subseteq Rooms
  BY <1>1 DEF HandleOne, Ignore, Debounce, Fire, Typed, Notifications, Triggers, Ignored, Breaks, Records
<1> QED BY <1>1, <1>2, <1>3, <1>4, <1>5 DEF HandleOne, Typed

(* The manager's records are those of configured rooms and modes. *)
LEMMA RecordsTyped ==
  ASSUME Typed, RecordsChange
  PROVE  Typed'
<1>1. CASE Answered
  <2>1. posted \in Made
    BY <1>1 DEF Typed, Answered
  <2>2. [room |-> posted.room, mode |-> options.mode[posted.room]] \in Records
    BY <2>1 DEF Typed, Made, Options, Records
  <2> QED BY <1>1, <2>2 DEF RecordsChange, Answered, Typed
<1>2. CASE Posts
  BY <1>2 DEF RecordsChange, Posts, Typed
<1>3. CASE Removes
  BY <1>3 DEF RecordsChange, Removes, Typed
<1> QED BY <1>1, <1>2, <1>3 DEF RecordsChange

LEMMA NextTyped == Typed /\ [Next]_vars => Typed'
<1> SUFFICES ASSUME Typed, [Next]_vars PROVE Typed'
  OBVIOUS
<1>1. CASE HandleOne
  BY <1>1, HandleTyped
<1>2. CASE HandlerBreaks
  <2>1. linked' \in BOOLEAN
    BY <1>2, Zenon DEF HandlerBreaks
  <2> QED BY <1>2, <2>1, EmptyBatch, RouterAssumption DEF HandlerBreaks, Typed
<1>8. CASE CallEnds \/ Reconnect
  BY <1>8 DEF CallEnds, Reconnect, Typed
<1>3. CASE Receive
  BY <1>3, MessageType, RouterAssumption DEF Receive, Typed
<1>4. CASE Arrives
  BY <1>4, RouterAssumption DEF Arrives, Typed
<1>5. CASE ConnectionEnds \/ Tick \/ ClockSet \/ UNCHANGED vars
  BY <1>5 DEF ConnectionEnds, Tick, ClockSet, vars, Typed
<1>6. CASE RecordsChange
  BY <1>6, RecordsTyped
<1>7. CASE Restart
  <2>1. linked' \in BOOLEAN
    BY <1>7, Zenon DEF Restart
  <2> QED BY <1>7, <2>1, EmptyBatch, RouterAssumption DEF Restart, Typed
<1> QED BY <1>1, <1>2, <1>3, <1>4, <1>5, <1>6, <1>7, <1>8 DEF Next, RouterStep

(***************************************************************************)
(* The dedupe window.                                                      *)
(***************************************************************************)

LEMMA InitOnTime == Init => OnTime
BY RouterAssumption DEF Init, OnTime, Never, LongAgo, Shift

(* A trigger starts both times of its room again. *)
LEMMA FireOnTime ==
  ASSUME OnTime, jumps' = jumps, NEW room,
         since' = [since EXCEPT ![room] = 0], quiet' = [quiet EXCEPT ![room] = 0]
  PROVE  OnTime'
<1>1. /\ LongAgo \in Nat /\ Shift \in Nat /\ Shift' = Shift
      /\ since \in [Rooms -> Int] /\ quiet \in [Rooms -> 0..LongAgo]
  BY RouterAssumption DEF OnTime, LongAgo, Shift
<1>2. since' \in [Rooms -> Int] /\ quiet' \in [Rooms -> 0..LongAgo]
  <2>1. 0 \in Int /\ 0 \in 0..LongAgo
    BY <1>1
  <2> QED BY <1>1, <2>1
<1>3. \A other \in Rooms :
        \/ since'[other] = 0 /\ quiet'[other] = 0
        \/ since'[other] = since[other] /\ quiet'[other] = quiet[other]
  BY <1>1
<1> QED BY <1>1, <1>2, <1>3 DEF OnTime

(* Both grow alike until they reach their bounds. *)
LEMMA TickOnTime ==
  ASSUME OnTime, jumps' = jumps,
         since' = Later(since, LongAgo), quiet' = Later(quiet, LongAgo)
  PROVE  OnTime'
<1>1. /\ LongAgo \in Nat /\ Shift \in Nat /\ Shift' = Shift
  BY RouterAssumption DEF OnTime, LongAgo, Shift
<1>2. since' \in [Rooms -> Int] /\ quiet' \in [Rooms -> 0..LongAgo]
  BY <1>1 DEF OnTime, Later
<1>3. \A room \in Rooms :
        /\ since'[room] = IF since[room] < LongAgo THEN since[room] + 1 ELSE LongAgo
        /\ quiet'[room] = IF quiet[room] < LongAgo THEN quiet[room] + 1 ELSE LongAgo
        /\ since[room] \in Int /\ quiet[room] \in Int
  BY <1>1 DEF OnTime, Later
<1> QED BY <1>1, <1>2, <1>3 DEF OnTime

(* Setting the clock parts the two times by as much. *)
LEMMA SetOnTime ==
  ASSUME OnTime, ClockSet
  PROVE  OnTime'
<1>1. PICK d \in 1..jumps :
        /\ jumps' = jumps - d
        /\ \/ since' = [room \in Rooms |-> since[room] - d]
           \/ since' = [room \in Rooms |->
                          IF since[room] + d < LongAgo THEN since[room] + d ELSE LongAgo]
  BY DEF ClockSet
<1>2. /\ LongAgo \in Nat /\ Shift \in Nat /\ Shift' = Shift + d /\ d \in Nat
      /\ jumps' \in 0..MaxJump
  BY <1>1, RouterAssumption DEF OnTime, LongAgo, Shift
<1>3. since' \in [Rooms -> Int] /\ quiet' = quiet
  BY <1>1, <1>2 DEF OnTime, ClockSet
<1>4. \A room \in Rooms :
        /\ \/ since'[room] = since[room] - d
           \/ since'[room] = IF since[room] + d < LongAgo THEN since[room] + d ELSE LongAgo
        /\ since[room] \in Int /\ quiet[room] \in 0..LongAgo
  BY <1>1, <1>2 DEF OnTime
<1>5. \A room \in Rooms :
        /\ -Shift' <= since'[room] /\ since'[room] <= LongAgo
        /\ since'[room] <= quiet[room] + Shift' /\ quiet[room] <= since'[room] + Shift'
  BY <1>2, <1>4 DEF OnTime
<1> QED BY <1>2, <1>3, <1>5 DEF OnTime

(* Both times advance together, and start together. *)
LEMMA NextOnTime == OnTime /\ [Next]_vars => OnTime'
<1> SUFFICES ASSUME OnTime, [Next]_vars PROVE OnTime'
  OBVIOUS
<1> USE RouterAssumption
<1>1. CASE HandleOne
  <2>1. CASE UNCHANGED <<since, quiet>>
    BY <1>1, <2>1 DEF HandleOne, OnTime, Shift
  <2>2. CASE Fire(Head(batch))
    BY <1>1, <2>2, FireOnTime DEF HandleOne, Fire, Marked
  <2> QED BY <1>1, <2>1, <2>2 DEF HandleOne, Ignore, Debounce
<1>2. CASE UNCHANGED clockVars
  BY <1>2 DEF clockVars, OnTime, Shift
<1>3. CASE Tick
  BY <1>3, TickOnTime DEF Tick
<1>4. CASE ClockSet
  BY <1>4, SetOnTime
<1> QED BY <1>1, <1>2, <1>3, <1>4
       DEF Next, RouterStep, HandlerBreaks, CallEnds, Receive, Reconnect,
           Arrives, ConnectionEnds, RecordsChange, Restart, vars

(* The batch, the record in use and the clocks keep their types and bounds,
   however often the clock is set (event_router.py:50-127). *)
THEOREM RouterTypeCorrect == Spec => []RouterTypeOK
<1>1. Init => Typed /\ OnTime
  BY InitTyped, InitOnTime
<1>2. Typed /\ OnTime => RouterTypeOK
  <2> SUFFICES ASSUME Typed, OnTime PROVE RouterTypeOK
    OBVIOUS
  <2>1. LongAgo \in Int /\ MaxJump \in Nat
    BY RouterAssumption DEF LongAgo
  <2>2. \A room \in Rooms : since[room] \in -MaxJump..LongAgo
    BY <2>1 DEF OnTime, Shift
  <2>3. since \in [Rooms -> -MaxJump..LongAgo]
    BY <2>2 DEF OnTime
  <2> QED BY <2>3 DEF Typed, OnTime, RouterTypeOK
<1> QED BY <1>1, <1>2, NextTyped, NextOnTime, PTL DEF Spec

(* In one life of the process, run_mode is called for a room at most once a
   window, whatever notifications and records come and whatever the calls end in;
   settings of the wall clock, however many, shorten the window by no more than
   they amount to (event_router.py:93-103). *)
THEOREM Spaced == Spec => SpacedTriggers
<1> DEFINE Step == call' # call /\ call' # NoRecord /\ call'.room \in fired
                     => quiet[call'.room] >= Window - Shift
<1>1. Spec => [](Typed /\ OnTime)
  BY InitTyped, NextTyped, InitOnTime, NextOnTime, PTL DEF Spec
<1>2. Typed /\ OnTime /\ [Next]_vars => [Step]_vars
  <2> SUFFICES ASSUME Typed, OnTime, [Next]_vars, call' # call, call' # NoRecord,
                      call'.room \in fired
               PROVE  quiet[call'.room] >= Window - Shift
    OBVIOUS
  <2>1. HandleOne /\ Fire(Head(batch))
    BY DEF Next, RouterStep, HandleOne, Ignore, Debounce, HandlerBreaks, CallEnds,
           Receive, Reconnect, Arrives, ConnectionEnds, RecordsChange, Tick,
           ClockSet, Restart, clockVars, vars
  <2>2. PICK record \in Records : record = call' /\ ~Debounced(record.room)
    <3>1. Head(batch) \in Notifications
      BY <2>1 DEF HandleOne, Typed
    <3>2. call' = records[Head(batch).sub] /\ ~Debounced(call'.room)
      BY <2>1 DEF Fire
    <3> QED BY <3>1, <3>2 DEF Typed, Notifications
  <2>3. record.room \in Rooms /\ ~(since[record.room] < Window)
    BY <2>2 DEF Records, Debounced
  <2> QED BY <2>2, <2>3, RouterAssumption DEF OnTime, Shift, LongAgo
<1>3. Spec => [][Step]_vars
  BY <1>1, <1>2, PTL DEF Spec
<1> QED BY <1>3 DEF SpacedTriggers

(***************************************************************************)
(* Nothing is passed over.                                                 *)
(***************************************************************************)

(* A room has one record at most, also once the answer of a POST brings one. *)
OneEach ==
  /\ \A i, j \in SubIds :
       records[i] # NoRecord /\ records[j] # NoRecord /\ records[i].room = records[j].room => i = j
  /\ posted # NoRecord =>
       /\ records[posted.sub] = NoRecord
       /\ \A id \in SubIds : records[id] # NoRecord => records[id].room # posted.room

LEMMA NextOneEach == Typed /\ OneEach /\ [Next]_vars => OneEach'
<1> SUFFICES ASSUME Typed, OneEach, [Next]_vars PROVE OneEach'
  OBVIOUS
<1>1. CASE UNCHANGED <<records, posted>>
  BY <1>1 DEF OneEach
<1>2. CASE Restart
  BY <1>2 DEF Restart, Typed, OneEach
<1>3. CASE RecordsChange
  <2>1. CASE Posts
    BY <2>1 DEF Posts, Made, OneEach
  <2>2. CASE Answered /\ UNCHANGED records
    BY <2>2 DEF Answered, OneEach
  <2>3. CASE Answered /\ ~UNCHANGED records
    <3>1. posted \in Made /\ posted.sub \in SubIds
      BY <2>3 DEF Answered, Typed, Made
    <3>2. PICK record : /\ records' = [records EXCEPT ![posted.sub] = record]
                        /\ record.room = posted.room
      BY <2>3 DEF Answered
    <3>3. \A id \in SubIds : records'[id] = IF id = posted.sub THEN record ELSE records[id]
      BY <3>1, <3>2 DEF Typed
    <3> QED BY <2>3, <3>1, <3>2, <3>3 DEF Answered, OneEach
  <2>4. CASE Removes
    <3>1. \A id \in SubIds : records'[id] \in {records[id], NoRecord}
      BY <2>4 DEF Removes, Typed
    <3>2. posted' = posted /\ (posted # NoRecord => posted.sub \in SubIds)
      BY <2>4 DEF Removes, Typed, Made
    <3> QED BY <3>1, <3>2 DEF OneEach
  <2> QED BY <1>3, <2>1, <2>2, <2>3, <2>4 DEF RecordsChange
<1> QED BY <1>1, <1>2, <1>3
       DEF Next, RouterStep, HandleOne, HandlerBreaks, CallEnds, Receive, Reconnect,
           Arrives, ConnectionEnds, Tick, ClockSet, vars

(* A notification that is handled leaves the others of its message awaiting. *)
LEMMA HandledAwaits ==
  ASSUME Typed, OnTime, HandleOne, NEW room \in Rooms, Awaiting(room), ~Awaiting(room)'
  PROVE  quiet'[room] < Window + Shift
<1>1. PICK i \in 1..Len(batch) : Triggers(batch[i]) /\ records[batch[i].sub].room = room
  BY DEF Awaiting
<1>2. /\ batch \in Seq(Notifications) /\ batch # <<>> /\ batch' = Tail(batch) /\ UNCHANGED records
  BY DEF HandleOne, Ignore, Debounce, Fire, Typed
<1>3. i = 1
  <2>1. SUFFICES ASSUME i # 1 PROVE FALSE
    OBVIOUS
  <2>2. i - 1 \in 1..Len(Tail(batch)) /\ Tail(batch)[i - 1] = batch[i]
    BY <1>2, <2>1
  <2> DEFINE n == batch[i]
  <2>3. n = batch'[i - 1] /\ i - 1 \in 1..Len(batch') /\ UNCHANGED records
    BY <1>2, <2>2
  <2>4. (records[n.sub] # NoRecord /\ n.kind \notin {"forged", "broken", "unusable"}) /\ records[n.sub].room = room
    BY <1>1 DEF Triggers, Ignored, Breaks
  <2> HIDE DEF n
  <2> QED BY <2>3, <2>4 DEF Awaiting, Triggers, Ignored, Breaks
<1>4. Head(batch) = batch[1]
  BY <1>2
<1>5. CASE Debounce(Head(batch))
  <2>1. room \in fired /\ since[room] < Window /\ quiet' = quiet
    BY <1>1, <1>3, <1>4, <1>5 DEF Debounce, Debounced
  <2> QED BY <2>1, RouterAssumption DEF OnTime, Shift, LongAgo
<1>6. CASE Fire(Head(batch))
  <2>1. quiet' = [quiet EXCEPT ![room] = 0]
    BY <1>1, <1>3, <1>4, <1>6 DEF Fire
  <2> QED BY <2>1, RouterAssumption DEF OnTime, Shift, LongAgo
<1> QED BY <1>1, <1>3, <1>4, <1>5, <1>6 DEF HandleOne, Ignore, Triggers

(* A record that comes or goes takes nothing from the rooms that keep theirs. *)
LEMMA ChangedAwaits ==
  ASSUME Typed, OneEach, RecordsChange, NEW room \in Rooms, Awaiting(room), ~Awaiting(room)'
  PROVE  \A id \in SubIds : records'[id] = NoRecord \/ records'[id].room # room
<1>1. PICK i \in 1..Len(batch) : Triggers(batch[i]) /\ records[batch[i].sub].room = room
  BY DEF Awaiting
<1>2. batch' = batch /\ batch[i] \in Notifications /\ batch[i].sub \in SubIds
  <2>1. batch' = batch
    BY DEF RecordsChange
  <2>2. batch \in Seq(Notifications) /\ i \in 1..Len(batch)
    BY DEF Typed
  <2>3. batch[i] \in Notifications
    BY <2>2
  <2> QED BY <2>1, <2>3 DEF Notifications
<1>3. records[batch[i].sub] # NoRecord
  BY <1>1 DEF Triggers, Ignored, Breaks
<1>4. records'[batch[i].sub] # records[batch[i].sub]
  BY <1>1, <1>2 DEF Awaiting, Triggers, Ignored, Breaks
<1>5. ~Posts
  BY <1>4 DEF Posts
<1>6. ~Answered
  <2>1. SUFFICES ASSUME Answered PROVE FALSE
    OBVIOUS
  <2>2. posted.sub # batch[i].sub
    BY <1>3, <2>1 DEF Answered, OneEach
  <2> QED BY <1>2, <1>4, <2>1, <2>2 DEF Answered, Typed
<1>7. Removes
  BY <1>5, <1>6 DEF RecordsChange
<1>8. records' = [records EXCEPT ![batch[i].sub] = NoRecord]
  BY <1>2, <1>4, <1>7 DEF Removes, Typed
<1> QED BY <1>1, <1>2, <1>3, <1>8 DEF OneEach, Typed

(* Every notification that concerns a room finds it triggered within the window
   (longer by what the wall clock was set), or its record or the process gone, or
   the handler broken before it (event_router.py:50-127). *)
THEOREM NonePassedOver == Spec => NoneSkipped
<1> DEFINE Excused(room) ==
             \/ quiet'[room] < Window + Shift
             \/ \A id \in SubIds : records'[id] = NoRecord \/ records'[id].room # room
             \/ restarts' # restarts
             \/ Breaks(Head(batch))
           Step == \A room \in Rooms : Awaiting(room) /\ ~Awaiting(room)' => Excused(room)
<1>1. Init => OneEach
  BY DEF Init, OneEach
<1>2. Spec => [](Typed /\ OnTime /\ OneEach)
  BY <1>1, InitTyped, NextTyped, InitOnTime, NextOnTime, NextOneEach, PTL DEF Spec
<1>3. Typed /\ OnTime /\ OneEach /\ [Next]_vars => [Step]_vars
  <2> SUFFICES ASSUME Typed, OnTime, OneEach, Next,
                      NEW room \in Rooms, Awaiting(room), ~Awaiting(room)'
               PROVE  Excused(room)
    OBVIOUS
  <2>1. CASE HandleOne
    BY <2>1, HandledAwaits
  <2>2. CASE RecordsChange
    BY <2>2, ChangedAwaits
  <2>3. CASE HandlerBreaks
    BY <2>3 DEF HandlerBreaks
  <2>4. CASE Restart
    BY <2>4 DEF Restart, Typed
  <2>5. CASE Receive
    BY <2>5 DEF Receive, Idle, Awaiting
  <2>6. ~(UNCHANGED <<batch, records>>)
    BY DEF Awaiting, Triggers, Ignored, Breaks
  <2> QED BY <2>1, <2>2, <2>3, <2>4, <2>5, <2>6
         DEF Next, RouterStep, CallEnds, Reconnect, Arrives, ConnectionEnds, Tick, ClockSet
<1>4. Spec => [][Step]_vars
  BY <1>2, <1>3, PTL DEF Spec
<1> QED BY <1>4 DEF NoneSkipped
=============================================================================
