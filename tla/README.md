# A model of ha-teams-events

TLA+ models of the Home Assistant add-on (`addon/teams_events/app`) and of the
relay it listens to (`relay/lambda`): what TLC checks of them on small
instances, and what TLAPS proves of them for every instance.

## The system

Rooms have Microsoft 365 mailboxes. The add-on, one asyncio process, polls the
calendars, holds one Graph subscription per room with a meeting, and when Graph
posts a notification for it, calls a Home Assistant room mode. Graph posts to
the relay (API Gateway, four Lambda functions, a DynamoDB table), which
broadcasts to the WebSocket connections of the add-ons.

| component | state | operations | interacts with |
|---|---|---|---|
| `calendar_watcher.py` | `_current` per room | a round of polls; a callback on change | Graph (GET), the manager (awaited callback) |
| `subscription_manager.py` | an `asyncio.Lock` | `on_meeting_change`, renewal loop, `cleanup_all` | Graph (POST, PATCH, DELETE), store, health |
| `subscription_store.py` | records by id, index by meeting, a JSON file | `upsert`, `remove`, queries, reload | called by manager and router |
| `graph_client.py` | token and its expiry | four HTTP calls | Graph |
| `main.py` | tasks, signal future | start, stop, clean up | everything |
| `event_router.py` | `_last_fire` per room | `handle` | store (lookup), Home Assistant |
| `relay_ws_client.py` | connection, backoff | connect, hello, ping, dispatch | relay, router (awaited callback) |
| `relay/lambda` | table of connections | hello, disconnect, webhook broadcast | API Gateway, DynamoDB |
| `cert_store.py` | certificate and key files | load or generate | main (start), manager, router |
| `health.py`, `health_publisher.py` | the figures; a snapshot of them | update, post every 30 s | everyone, Home Assistant |
| `notification_decrypt.py`, `ha_client.py`, `config.py`, `models.py`, `infra/cdk` | none of their own | | |

What is hard: three tasks and the shutdown interleave at every await over one
store and a remote service whose answers may be lost; the store's memory and
file may part; the process may die between an effect at Graph and its record;
the watcher reports changes only once; the relay's functions run side by side
in any order over a table without transactions; the dedupe window is measured
by a clock that may be set; renewals and tokens have to come in time; the key
files are written in place; a cancellation may find a task at an await that
catches it; scans of the relay's table may be outdated. `PROJECT.json` lists these hazards line by line.

What makes each part correct, in short: one record per room and an exact index
(store); nothing lost, brought back or dropped that should not be, and in the
end exactly the calendars' meetings (manager, watcher); shutdown ends and leaves
nothing behind (main); registered connections stay registered and are reached
(relay); a process fires a mode once per window and passes over no notification
(router);
no record expires and no request carries an expired token (renewals, tokens); a
running add-on can decrypt for every certificate it subscribed with (certificate
store); the sensors end up true (publisher).

## Modules

```
SubscriptionDomain   rooms, meetings, ids, budget of faults
 +- SubscriptionStore     subscription_store.py
 +- GraphService          Graph's subscriptions; what graph_client.py makes of answers
     +- SubscriptionLifecycle   watcher, manager, renewals, start, stop, crash
         +- SubscriptionProperties   properties, the refinement, the inductive invariant
             +- SubscriptionClaims -> MCSubscriptions   documented claims; TLC instances
             +- SubscriptionProofs -> RegistryProofs                       TLAPS
                 +- FaultProofs -> CoverageProofs
RoomRegistry         what manager and store promise (abstract)

Relay                the Lambda functions and their table
 +- RelayLink -> MCRelayLink       with the add-ons' RelayWSClient; properties
     +- RelayProofs                TLAPS
RelayService         what the relay promises (abstract)

EventRouter -> MCEventRouter       event_router.py behind the client's receiving side
 +- RouterProofs                   TLAPS

RenewalClock         the renewal loop against the clock
TokenCache           the token of graph_client.py
 +- Timing -> MCTiming             both on one clock
     +- TimingProofs               TLAPS

CertStore            cert_store.py
HealthPublisher      health.py, health_publisher.py
 +- Addon -> MCAddon               main.py's process with them and the relay task
     +- AddonProofs                TLAPS
```

### SubscriptionLifecycle

A step runs from one await to the next, as asyncio does. An HTTP call is two
steps: it takes effect at Graph (`WatcherPost`), then its answer is handled
(`WatcherPosted`); a crash, a cancellation or anything of another task may come
between. The answers are those the code tells apart: `ok`, `refused`
(`GraphAuthError`: status 400 and above, or no token) and `lost` (any other
exception); a faulty answer may come with or without the effect.

| variable | code |
|---|---|
| `bySubscription`, `byMeeting`, `disk` | the store's two dicts and its file; a record is its meeting, which determines room and joinUrl |
| `due` | ids whose `expires_at` is within the headroom; `RecordComesDue` is time passing |
| `live` | Graph's subscriptions |
| `calendar`, `current` | the meeting in each room's look-ahead window, and what the watcher knows of it |
| `w`, `r`, `c`, `holder` | the watcher with the callback it awaits, the renewal task, `cleanup_all`, and the lock's owner (first in, first out) |
| `older` | which records come before each in the store's dict, an order the file keeps |
| `reported` | what the last `_update_health` saw: the active ids, and those whose `expires_at` it had right |
| `proc`, `left` | the process, and the faults that may still happen |

`PollRoom` .. `WatcherPosted` are the watcher's actions, `RenewerWakes` ..
`RenewerPatched` the renewals', `Cleanup...` those of `cleanup_all`. Renewals go
through the records in the dict's order (`First`). `FailingMailboxes` and
`FailingRenewals` are the rooms and the meetings whose calls fail every time. A failed
save (`saved = FALSE`) leaves the dicts changed and the file as it was, and ends
the caller's round as the exception does. Pc `get` stands for both the sleep
before a round and the GET.

### Relay, RelayLink

API Gateway invokes the functions of one connection side by side: `hello` and
`leave` hold the invocations not yet handled, and any may be handled first. No
scan asks for `ConsistentRead`, so one may show, of each id in `stale`, the row as
it is or as it was before (`Views`), until the write `Propagates`. `cast` is one
broadcast: it reads the table in pages, posts to each row, prunes those answered
`GoneException`. Other webhook invocations run beside it; all they change for it
is the rows they prune (`OtherPrunes`). `cast.owed` is history: the open
connections that every scan showed when the broadcast began and that it has not
posted to. `client` is each add-on's
`run`: waiting, connected, listening. Ids of forgotten connections are used
again, which stands for the fresh ones API Gateway gives.

### EventRouter

The router awaits only the next message and Home Assistant (its lock is never
contended, as one task handles all messages), so everything else moves at those
points (`AtAwait`). `buffered` counts the messages received and not yet taken;
what is in one is chosen when it is taken. `fired` is the rooms `_last_fire` has a
time for, `since` is `time.time()` less that time and `quiet` the time that really
passed; `ClockSet` makes them differ. A restart forgets `fired` and leaves both
running. Both stop
counting once larger values make no difference, so behaviours are infinite and
time is unbounded. Kinds of notification stand for what the code tells apart:
decrypted or with a `DecryptionError` that is only logged, another exception, a
wrong `clientState`, no JSON object at all (`.get` raises and the connection
ends; so it does when the message is none). A record carries its room's `mode_id` as it was configured
when it was made. `Posts` and `Answered` are the manager's POST seen from here:
between them (`posted`) Graph notifies for a subscription the store does not know.

### RenewalClock, TokenCache, Timing

`expires` is the time until each record's `expires_at`; `round` and `timer` say
where the renewal task is and for how long. `Locked` is its look at the records:
the deadline was computed before the wait for the lock, hence
`Headroom - timer`. A new expiry is counted from when the call began, hence
`Asked`. `RoundLost` is an exception other than `GraphAuthError`; `Created` and
`Deleted` are the watcher's work under the lock. `call` is what each task's
request is doing: fetching a token (`_fetch_token`), waiting with one issued, or
under way with it; `token` and `fresh` are the client's `_token` and
`_token_expires_at`. Both `expires_at` and `_token_expires_at` are compared with
wall clocks (graph_client.py:65, 71), which are taken here not to be set. In `Timing` a tick passes for both.

### CertStore, HealthPublisher, Addon

`write_bytes` empties a file and then fills it, so each file is written in two
steps and may be left `Cut`, by a kill or by a write that fails (`IOFails`), which
ends the start as well. `relied` is history: certificates a running add-on
has subscribed with. `snap` and `at` are the publisher's snapshot and the sensor
it has come to; a lost post may be handled by Home Assistant `late`, after newer
ones. In `Addon`, `link` is the await the relay task is at. `reap` is the
`await pinger` in the `finally` of `_run_once`, whose `except
asyncio.CancelledError` also catches main's cancellation (`Swallows`). Every
other await lets it through and the task ends. A kill (`Killed`) may come at any
step. `Workers` are the watcher and the renewer where they are configured; they
matter here only as tasks that are cancelled and joined.

## Runs

`PROJECT.json` names each run's properties.

| run | instance | shows |
|---|---|---|
| `subs_safety` | two rooms, three meetings, every kind of fault once, at most two in one behaviour (`FewFaults`) | types; `RoomRegistry` is implemented; one record per room; exact index; published figures with at most one record wrong for each failed save; one orphan and one room without its subscription at most for each fault; the lock never left held; clean stops; renewals resurrect nothing; watched records stay |
| `subs_progress` | three rooms, the last one's mailbox always fails; a meeting whose renewal always fails (`b1`); one faulty answer or failed save at any point | the lock reaches the watcher; every due record not behind the failing one is dealt with; figures that are off come right; without a fault, calendars and Graph converge for the other rooms |
| `relay` | two add-ons, two connections, pages of one, eventually consistent scans, two faults | rows of open connections stay; acknowledged broadcasts reached everyone whose row had propagated; `RelayService` is implemented; add-ons register for good; ghosts go |
| `router` | two rooms and subscriptions, messages of up to two notifications, one buffered; one restart, one setting of the clock | a process fires a mode once per window and passes nothing over, within what the clock was set; the add-on comes back to the relay |
| `timing` | two subscriptions, two tasks; lifetime 10, headroom 8, period 1, hold 1, one lost round (grace 3); tokens of 4, margin 2, latency 1 | no record of a running add-on expires; no request arrives with an expired token |
| `addon` | three pairs, one worker, activity up to 2 and back at every start, two lost posts; kills and write errors without bound | keys fit the certificates relied on; starts fail only on a key cut short; sensors end up true; a stop gets past its tasks, one case excepted |

Why these bounds are enough for every case to happen. Two rooms are the fewest
for which one can hold up another; room 1 has two meetings (one replaced by the
other); three subscription ids leave one free while one is orphaned and one in
use. Budgets bound each kind of fault; two together give a fault during the
recovery from another. In `subs_progress` the failing record may come first, so
that a record of room 1 waits behind it, or last; the one fault may be spent in
any iteration and on any record. Two connections with pages of one give a broadcast of two
pages and a disconnect that finds nothing on the first, and as an add-on may be
between connections, a ghost before or behind a live row. In `timing` the headroom is the least that `ClockAssumption` allows, so one tick
less anywhere would show (the mutant `Due_Late` does). Three pairs let a pair be
made, cut off and made again. The `addon` run has no bound on starts and kills.
Its state is finite without one.

`subs_safety` and `subs_progress` use `CalendarChangesLate`: a calendar changes
only just before it is read, which hides no behaviour of the add-on, since
nothing else reads it. It and `FewFaults` remove only steps of the calendar and
faults, which no fairness condition demands, so no fair behaviour is cut short.
Symmetry (subscription ids) is used in `subs_safety` only. `quiet`, `cast.owed` and
`relied` are history for the properties: no guard of an action that models code
reads them, except that a generated pair is new (`relied` in `Generates`).

A `claim_*` run checks a sentence of the documentation, a comment or a log line
against the code, and finds it violated; the findings in `PROJECT.json` quote it.

| run | counterexample |
|---|---|
| `claim_recreated` | Graph drops a subscription, its renewal is refused, the record is removed; the watcher sees no change and never asks again |
| `claim_stale` | crash, the meeting ends, restart: the loaded record matches no meeting, and no change is ever reported for its room |
| `claim_handoff` | SIGTERM while the POST is answered |
| `claim_shutdown` | SIGTERM finds the relay task at `await pinger`, `except asyncio.CancelledError` passes over it, the task goes on, `await task` in main never returns and `cleanup_all` never runs |
| `claim_any_notification` | a notification is handled while the POST of its subscription is still being answered |
| `claim_each_mailbox` | the first mailbox fails in each round |

More gaps were met that no run is spent on:

- a hello handled after its connection's disconnect leaves a row of a closed
  connection until a broadcast removes it (`GhostsGo`);
- a restart forgets `_last_fire` (event_router.py:47): a duplicate that comes
  after it fires the mode again within the window. `SpacedTriggers` promises the
  spacing for the triggers of one process only;
- a setting of the wall clock makes the dedupe window longer or shorter by as
  much (`SpacedTriggers` and `NoneSkipped` allow for it);
- an acknowledged broadcast can miss a connection that has just registered, as
  the scans do not ask for `ConsistentRead` (connections.py:41, 53), whereas
  docs/architecture.md:22 and forwarder.py:26 speak of every connection.
  `AcknowledgedReached` promises it for rows that had propagated;
- a refused or failed hello leaves the add-on listening to nothing until the
  connection ends (relay_ws_client.py:64), hence `NoFaults` in `Reregisters`;
- a record whose renewal fails every time by another exception than
  `GraphAuthError` keeps those after it in the dict from ever being renewed
  (subscription_manager.py:95-105). `DueServed` promises progress to all others;
- two rooms in one meeting: the second POST is answered 409 and not tried again;
- a restart with other options keeps the modes of the records in the file;
- the options admit timings `ClockAssumption` excludes. The defaults (55 minutes,
  15 minutes, a look every 60 seconds) allow holds of the lock of up to 210
  seconds, or of 10 seconds and nine lost rounds in all. A headroom of one minute
  (`int(1,240)`) allows none, and one above the lifetime (`int(5,4230)`) makes
  every record due in every round.

## Fairness

Tasks of an event loop run when they are ready, HTTP calls end (aiohttp's five
minute limit), sleeps end, and invoked functions end: weak fairness of the
watcher, the renewal loop, the cleanup, each client, each invocation, the
propagation of each written row, and the router; in `Addon`, of main, the relay task, the publisher, each cancellation and
the posts Home Assistant has yet to handle. Start, stop, signals, kills, crashes,
faults, calendars, drops, ends of connections, webhook posts and what other
invocations prune are never fair.
`Timing` has none. `GhostsGo` and `Reregisters` assume in their own antecedents
that broadcasts keep coming and end; `Converges` that calendars settle and the
process stays up; `Reregisters` that connections stop ending; `SensorsAgree` that
the process stays up and the figures settle.

## Proofs

All hold for any sets, finite or not, and any values of the bounds that satisfy
the assumptions named in the modules; TLC evaluates those in every run. No
module that is proved about declares a recursive operator.

`SubscriptionProofs` proves types (`TypeCorrect`), one record per room
(`OneRecord`), the exact index (`IndexExact`), and the action properties
`NothingResurrected` and `WatchedKept`. One record per room is not inductive
alone: a POST's answer adds a record, trusting that the room had none since the
call. `IInv` adds what the lock protects: the file too has one record per room (a
restart loads it); while the watcher deletes, the record it deletes is its
room's; while it posts, its room has none (`WatcherInLock`); while a renewal is
in flight, the renewer holds the lock and its snapshot is true of the store
(`RenewerInLock`). Each step keeps it, one lemma per task. `LockNotLeaked`, the
other direction (the lock is held only by a task that goes on under it), follows
step by step: an answer that ends a hold either passes the lock to the task in
line or frees it.

`RegistryProofs` proves that the lifecycle implements `RoomRegistry`
(`ImplementsRegistry`): under `IInv` a room's slot is its one record, so that
`Upsert` fills or rewrites a slot, `Remove` clears one, `Start` begins from the
file, the ends of the process empty the slots, and every other step stutters.

`FaultProofs` is about what faults cost, with three invariants over `IInv`. A
stop without faults ends only when nothing is left to delete, and until then the
file says what memory says (`CleanStops`). While the renewal task sleeps, the
published figures have at most one record wrong for each failed save
(`FiguresAgree`): a failed save under the watcher skips `_update_health` for the
one record it changed, and every other way out of a change, the end of a
renewal iteration included, reports. The count of
orphans is not inductive, as a refused DELETE or a failed save makes one only
with a later step; the count of what is at stake (`Charged`: subscriptions missing from
the file or from a running store, or whose record goes next) is: a step that adds
one spends a fault, and none adds two (`OneOrphan`).

`CoverageProofs` is the counterpart for the rooms: a fault costs at most one its
notifications (`OneRoom`). Rooms without a subscription are no inductive count
either, for a step that spends no fault can make one: the watcher gives up when
a stray subscription at Graph has the joinUrl, and does nothing when a record
without a subscription is in its way. `Marked` rooms are those that have lost it
or are about to, through the answer or the renewal in flight (`Failing`, `Refused`),
a subscription without a record (`Stray`) or a record without a subscription
(`Phantom`). A step marks one room more only if it spends a fault. Two conditions
are the code's, and TLC finds the property violated without either: a joinUrl
is of one room (else rooms compete for Graph's one subscription), and the add-on
is in its first life (while it is down, all may be dropped; after a start the
watcher knows no meeting and the file's records may be old).

`RouterProofs` proves types, `SpacedTriggers` and `NoneSkipped`. The invariant
(`OnTime`) is that the time the router measures is the time that passed, as far
as either is counted, up to what the clock was set in all (`Shift`). Not further ahead, it triggers no mode twice; not further behind, it
suppresses no notification that is due. `NoneSkipped` also needs that a room has
one record at most (`OneEach`), so that a record that comes or goes is not that
of a room that keeps one.

`RelayProofs` proves types, `RegisteredStays` and `AcknowledgedReached`, for any
table and page size and whatever each scan shows of rows still propagating:
whoever is owed the broadcast has a row that every scan shows, and is in the
page being posted or beyond the scan's key, so at the end of the last page no
one is. From the same invariant it proves the refinement (`ImplementsService`):
the service's listeners are the open connections whose row has propagated, and
every step of clients, functions and API Gateway makes one listen, end, be
reached or cost a failure, begins or ends a broadcast, or stutters (scans,
prunings, rows of connections that are gone).

`TimingProofs` proves `RenewedInTime` from `ClockAssumption` (the headroom covers
a cycle of the loop, two more holds of the lock and the lost rounds; the lifetime
covers a cycle, a hold and the lost rounds) and `ValidOnArrival` from
`TokenAssumption` (the margin is at least twice the latency). The invariants say
how much time every record and token has left at each place of the loop and the
call.

`AddonProofs` proves types, `KeepsDecrypting` and `FailsOnlyCut`: the key's file
is written only while no complete certificate has been relied on, so that the
files grow in the one order from which a start can always tell what to do,
wherever kills and write errors fall.

Only model-checked: the properties under fairness (`ChangeServed`, `DueServed`,
`FiguresMended`, `Converges`, `Reregisters`, `GhostsGo`, `LinkedAgain`, `SensorsAgree`,
`StopEnds`). Liveness is outside the prover's reach, as is `ENABLED`. Every
invariant, action property and refinement of the runs is proved.

## Not modelled

- Times of meetings, and which event of a calendarView counts: each room has the
  one meeting its window shows.
- A calendar event that keeps its id and changes its joinUrl.
- Cryptography: the router has the three outcomes of decryption.
- Reading and checking options; deployment.
- Six of the eight sensors, which are posted like the two modelled, and the
  formatting of all.
- Main's wait when no credentials are configured, and a task that ends by itself.
- Lengths of the client's backoff; pings, which change nothing at the relay.
- Home Assistant's own behaviour beyond answering, late or never.

The certificate's and the key's paths can be configured apart; `CertStore` has two
files wherever they are.

## Plan

1. Done: the lifecycle with its refinement and its faults; relay with its clients;
   router; renewal and token timing; certificate store, publisher and process.
2. `Delivery`: lifecycle, relay and router composed, with the abstract
   specification that a meeting's first notification fires its room's mode.
   `EventRouter` has the manager's two steps that matter to it until then.
3. joinUrls that change or are shared between rooms; the lengths of the backoff.
4. The safety half of the liveness properties, as invariants with proofs: what
   `Converges` and `SensorsAgree` rest on once calendars and figures are settled.
