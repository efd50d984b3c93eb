----------------------------- MODULE EventRouter -----------------------------
(***************************************************************************)
(* event_router.py behind the receiving side of relay_ws_client.py: one    *)
(* task takes messages off the WebSocket and handles the notifications of  *)
(* each in turn.  It awaits only the next message and Home Assistant's     *)
(* answer (the lock is never contended), so the rest of the add-on moves   *)
(* only then (AtAwait).                                                    *)
(***************************************************************************)
EXTENDS Integers, Sequences

CONSTANTS
  SubIds,      \* subscription ids
  Rooms,       \* configured rooms
  Modes,       \* room modes of Home Assistant
  NoRecord,    \* Python None, where a record is expected
  Window,      \* dedupe_window_seconds, in ticks
  MaxBatch,    \* bound on the notifications of a message
  MaxBuffered, \* bound on the messages the WebSocket buffers
  MaxJump,     \* bound on the ticks time.time() is set forward or back
  MaxRestarts  \* bound on the restarts of the add-on

ASSUME RouterAssumption ==
  /\ Window \in Nat \ {0} /\ MaxJump \in Nat /\ MaxRestarts \in Nat
  /\ MaxBatch \in Nat /\ MaxBuffered \in Nat
  /\ NoRecord \notin [room : Rooms, mode : Modes] \cup [sub : SubIds, room : Rooms]

(* good: from Graph, readable or not (a DecryptionError is only logged);
   broken: from Graph, decryption raises something else; forged: the wrong
   clientState; unusable: no JSON object, so that .get raises. *)
Kinds == {"good", "broken", "forged", "unusable"}
Notifications == [sub : SubIds, kind : Kinds]

(* A record keeps the room's configuration of when it was made. *)
Records == [room : Rooms, mode : Modes]
Options == [mode : [Rooms -> Modes], armed : BOOLEAN]
Made == [sub : SubIds, room : Rooms]

(* A time long enough ago: no setting of the clock brings it back. *)
LongAgo == Window + MaxJump

VARIABLES
  records,  \* the store's records, by subscription id
  posted,   \* the subscription Graph made and the store does not know yet
  options,  \* mode_id per room and trigger_modes, as configured
  linked,   \* the relay can reach the add-on
  buffered, \* how many messages are received and not yet taken by the client
  batch,    \* notifications of the current message still to handle
  call,     \* the record run_room_mode was called for, until it ends
  fired,    \* the rooms _last_fire has a time for
  since,    \* time.time() less the time the room was last triggered at
  quiet,    \* the time that really passed since then, restarts or not
  jumps, restarts  \* what is left of MaxJump and MaxRestarts

clockVars == <<since, quiet, jumps>>
vars == <<records, posted, options, linked, buffered, batch, call, fired, clockVars, restarts>>

RouterTypeOK ==
  /\ records \in [SubIds -> Records \cup {NoRecord}]
  /\ options \in Options
  /\ linked \in BOOLEAN
  /\ posted \in Made \cup {NoRecord}
  /\ buffered \in 0..MaxBuffered
  /\ batch \in Seq(Notifications) /\ Len(batch) <= MaxBatch
  /\ call \in Records \cup {NoRecord}
  /\ fired \subseteq Rooms
  /\ since \in [Rooms -> -MaxJump..LongAgo]
  /\ quiet \in [Rooms -> 0..LongAgo]
  /\ jumps \in 0..MaxJump /\ restarts \in 0..MaxRestarts

Never == [room \in Rooms |-> LongAgo]

Init ==
  /\ records = [id \in SubIds |-> NoRecord] /\ posted = NoRecord
  /\ options \in Options
  /\ linked = FALSE /\ buffered = 0 /\ batch = <<>> /\ call = NoRecord
  /\ fired = {} /\ since = Never /\ quiet = Never
  /\ jumps = MaxJump /\ restarts = MaxRestarts

Calling == call # NoRecord
AtAwait == batch = <<>> \/ Calling

(***************************************************************************)
(* EventRouter._handle_one, for the first notification of the batch.       *)
(***************************************************************************)
(* No record for the subscription, or not its clientState. *)
Ignored(n) == n.kind # "unusable" /\ (records[n.sub] = NoRecord \/ n.kind = "forged")

(* An exception: .get of what is no object, or decryption's if it is no
   DecryptionError (malformed base64 or padding). *)
Breaks(n) == ~Ignored(n) /\ n.kind \in {"broken", "unusable"}

Triggers(n) == ~Ignored(n) /\ ~Breaks(n)

Debounced(room) == room \in fired /\ since[room] < Window

(* Mutant: the rest of the message is ignored too. *)
Ignore_Return(n) == Ignored(n) /\ batch' = <<>> /\ UNCHANGED <<call, fired, since, quiet>>

Ignore(n) == Ignored(n) /\ batch' = Tail(batch) /\ UNCHANGED <<call, fired, since, quiet>>

Debounce(n) ==
  /\ Triggers(n) /\ Debounced(records[n.sub].room)
  /\ batch' = Tail(batch)
  /\ UNCHANGED <<call, fired, since, quiet>>

(* Mutant: the time of the trigger is kept only by an instance in dry run. *)
Marked_DryRun(room) == IF options.armed THEN since ELSE [since EXCEPT ![room] = 0]

(* Mutant: the end of the window is kept instead of the time. *)
Marked_WindowEnd(room) == [since EXCEPT ![room] = -Window]

(* _last_fire is set before Home Assistant is called. *)
Marked(room) == [since EXCEPT ![room] = 0]

(* In dry run everything but the call is done. *)
Fire(n) ==
  LET record == records[n.sub] IN
  /\ Triggers(n) /\ ~Debounced(record.room)
  /\ batch' = Tail(batch)
  /\ since' = Marked(record.room) /\ fired' = fired \cup {record.room}
  /\ quiet' = [quiet EXCEPT ![record.room] = 0]
  /\ call' = IF options.armed THEN record ELSE NoRecord

HandleOne ==
  /\ ~Calling /\ batch # <<>>
  /\ Ignore(Head(batch)) \/ Debounce(Head(batch)) \/ Fire(Head(batch))
  /\ UNCHANGED <<records, posted, options, linked, buffered, jumps, restarts>>

(* The exception leaves handle and _run_once: the rest of the message and the
   buffered ones are lost with the connection. *)
HandlerBreaks ==
  /\ ~Calling /\ batch # <<>> /\ Breaks(Head(batch))
  /\ batch' = <<>> /\ buffered' = 0 /\ linked' = FALSE
  /\ UNCHANGED <<records, posted, options, call, fired, clockVars, restarts>>

(* Mutant: nothing limits the call's time and Home Assistant never answers. *)
CallEnds_Hangs == Calling /\ UNCHANGED vars

(* Home Assistant answers; a failure is logged and forgotten. *)
CallEnds ==
  /\ Calling
  /\ call' = NoRecord
  /\ UNCHANGED <<records, posted, options, linked, buffered, batch, fired, clockVars, restarts>>

(***************************************************************************)
(* RelayWSClient.run, _run_once and _dispatch.                             *)
(***************************************************************************)
Idle == batch = <<>> /\ ~Calling

(* A message holds any notifications; one without any, or of another type,
   counts as empty, and one that is no object as an unusable notification. *)
Message == UNION {[1..n -> Notifications] : n \in 0..MaxBatch}

(* Messages that were received are still taken once the connection ended. *)
Receive ==
  /\ Idle /\ buffered > 0
  /\ batch' \in Message /\ buffered' = buffered - 1
  /\ UNCHANGED <<records, posted, options, linked, call, fired, clockVars, restarts>>

Reconnect ==
  /\ ~linked /\ Idle /\ buffered = 0
  /\ linked' = TRUE
  /\ UNCHANGED <<records, posted, options, buffered, batch, call, fired, clockVars, restarts>>

(***************************************************************************)
(* What happens meanwhile.                                                 *)
(***************************************************************************)
(* The relay forwards a message. *)
Arrives ==
  /\ linked /\ AtAwait /\ buffered < MaxBuffered
  /\ buffered' = buffered + 1
  /\ UNCHANGED <<records, posted, options, linked, batch, call, fired, clockVars, restarts>>

ConnectionEnds ==
  /\ linked /\ AtAwait
  /\ linked' = FALSE
  /\ UNCHANGED <<records, posted, options, buffered, batch, call, fired, clockVars, restarts>>

(* The subscription manager, one call of Graph at a time: a POST makes the
   subscription of a room without a record, its answer brings the record, with
   the configured mode, or is lost; and records are removed. *)
Posts ==
  /\ posted = NoRecord
  /\ posted' \in {made \in Made : /\ records[made.sub] = NoRecord
                                 /\ \A id \in SubIds : records[id] # NoRecord
                                      => records[id].room # made.room}
  /\ UNCHANGED records

Answered ==
  /\ posted # NoRecord /\ posted' = NoRecord
  /\ \/ records' = [records EXCEPT ![posted.sub] =
                       [room |-> posted.room, mode |-> options.mode[posted.room]]]
     \/ UNCHANGED records

Removes ==
  /\ \E id \in SubIds : records[id] # NoRecord /\ records' = [records EXCEPT ![id] = NoRecord]
  /\ UNCHANGED posted

RecordsChange ==
  /\ AtAwait
  /\ Posts \/ Answered \/ Removes
  /\ UNCHANGED <<options, linked, buffered, batch, call, fired, clockVars, restarts>>

Later(elapsed, most) ==
  [room \in Rooms |-> IF elapsed[room] < most THEN elapsed[room] + 1 ELSE most]

Tick ==
  /\ AtAwait
  /\ since' = Later(since, LongAgo) /\ quiet' = Later(quiet, LongAgo)
  /\ UNCHANGED <<records, posted, options, linked, buffered, batch, call, fired, jumps, restarts>>

(* time.time() follows the wall clock, which is set at times. *)
ClockSet ==
  /\ AtAwait
  /\ \E d \in 1..jumps :
       /\ jumps' = jumps - d
       /\ \/ since' = [room \in Rooms |-> since[room] - d]
          \/ since' = [room \in Rooms |->
                         IF since[room] + d < LongAgo THEN since[room] + d ELSE LongAgo]
  /\ UNCHANGED <<records, posted, options, linked, buffered, batch, call, fired, quiet, restarts>>

(* The process ends and starts again, with other options perhaps, the records
   of the file and an empty _last_fire. *)
Restart ==
  /\ restarts > 0 /\ restarts' = restarts - 1 /\ AtAwait
  /\ options' \in Options
  /\ \E kept \in SUBSET SubIds :
       records' = [id \in SubIds |-> IF id \in kept THEN records[id] ELSE NoRecord]
  /\ posted' = NoRecord /\ linked' = FALSE
  /\ buffered' = 0 /\ batch' = <<>> /\ call' = NoRecord
  /\ fired' = {}
  /\ UNCHANGED clockVars

RouterStep == HandleOne \/ HandlerBreaks \/ CallEnds \/ Receive \/ Reconnect

Next ==
  \/ RouterStep
  \/ Arrives \/ ConnectionEnds \/ RecordsChange \/ Tick \/ ClockSet \/ Restart

Spec == Init /\ [][Next]_vars

(* The task runs when it is ready, Home Assistant's answer or aiohttp's time
   limit ends a call, and backoff ends in a new connection. *)
FairSpec == Spec /\ WF_vars(RouterStep)

(***************************************************************************)
(* Properties.                                                             *)
(***************************************************************************)

(* The ticks the clock was set forward and back by so far. *)
Shift == MaxJump - jumps

(* As long as the process lives (it forgets _last_fire when it ends), run_mode is
   not called for a room within the dedupe window of its last match, whichever
   subscription each came from and whether the calls succeeded; settings of the
   wall clock shorten the window by no more than they amount to. *)
SpacedTriggers ==
  [][call' # call /\ call' # NoRecord /\ call'.room \in fired
       => quiet[call'.room] >= Window - Shift]_vars

(* A notification of Graph waiting in the current message for this room. *)
Awaiting(room) ==
  \E i \in 1..Len(batch) :
    Triggers(batch[i]) /\ records[batch[i].sub].room = room

(* A notification that concerns a room is not passed over: either the room was
   triggered within the window (longer by what the wall clock was set), or the
   record went or the process did, or another notification of the message broke
   the handler. *)
NoneSkipped ==
  [][\A room \in Rooms : Awaiting(room) /\ ~Awaiting(room)' =>
       \/ quiet'[room] < Window + Shift
       \/ \A id \in SubIds : records'[id] = NoRecord \/ records'[id].room # room
       \/ restarts' # restarts
       \/ Breaks(Head(batch))]_vars

(* However the connection ends, and whatever is still buffered or being
   called, the add-on comes back to the relay. *)
LinkedAgain == ~linked ~> linked

(* A notification Graph sent for the subscription of this room's meeting. *)
Genuine(n, room) ==
  /\ n.kind = "good"
  /\ \/ posted = [sub |-> n.sub, room |-> room]
     \/ records[n.sub] # NoRecord /\ records[n.sub].room = room

(* "any meetingCallEvents notification for a watched meeting triggers the mode"
   (README.md:3): when it is handled, the room has been triggered within the
   window. *)
AnyNotificationTriggers ==
  [][\A room \in Rooms :
       HandleOne /\ Genuine(Head(batch), room) => quiet'[room] < Window]_vars
=============================================================================
