------------------------------ MODULE RelayLink ------------------------------
(***************************************************************************)
(* The add-ons' RelayWSClient (relay_ws_client.py) with the relay: connect,*)
(* hello, listen, and after any end of the connection wait and do it again.*)
(* The lengths of the waits are left out.                                  *)
(***************************************************************************)
EXTENDS Relay

CONSTANT Addons  \* add-on instances, each its own site

VARIABLE client  \* run's position and connection, per add-on

vars == <<relayVars, client>>

Waiting == [pc |-> "waiting", conn |-> 0]

LinkTypeOK ==
  /\ RelayTypeOK
  /\ client \in [Addons -> [pc : {"waiting", "connected", "listening"}, conn : 0..NConns]]

Init == RelayInit /\ client = [a \in Addons |-> Waiting]

(* Connection ids nothing refers to; API Gateway never gives one twice, and a
   forgotten one is as good as new. *)
Unused ==
  {k \in Conns : /\ k \notin open \cup table \cup stale \cup hello /\ leave[k] = "none"
                 /\ k \notin cast.page
                 /\ \A a \in Addons : client[a].conn # k}

(* $connect accepts it: the token comes with hello. *)
Connect(a) ==
  /\ client[a].pc = "waiting"
  /\ \E k \in Unused :
       /\ open' = open \cup {k}
       /\ client' = [client EXCEPT ![a] = [pc |-> "connected", conn |-> k]]
  /\ UNCHANGED <<table, stale, hello, leave, cast, faults>>

(* Mutant: the connection is made without a hello. *)
SendHello_None(a) ==
  /\ client[a].pc = "connected" /\ client[a].conn \in open
  /\ client' = [client EXCEPT ![a].pc = "listening"]
  /\ UNCHANGED <<open, table, stale, hello, leave, cast, faults>>

SendHello(a) ==
  /\ client[a].pc = "connected" /\ client[a].conn \in open
  /\ hello' = hello \cup {client[a].conn}
  /\ client' = [client EXCEPT ![a].pc = "listening"]
  /\ UNCHANGED <<open, table, stale, leave, cast, faults>>

(* send or recv finds the connection closed. *)
Notices(a) ==
  /\ client[a].pc # "waiting" /\ client[a].conn \notin open
  /\ client' = [client EXCEPT ![a] = Waiting]
  /\ UNCHANGED relayVars

Close(k) ==
  /\ open' = open \ {k} /\ leave' = [leave EXCEPT ![k] = "sent"]
  /\ cast' = [cast EXCEPT !.owed = @ \ {k}]

(* on_message raises: the loop ends and the client closes the connection. *)
HandlerRaises(a) ==
  /\ client[a].pc = "listening" /\ client[a].conn \in open /\ Fault
  /\ Close(client[a].conn)
  /\ client' = [client EXCEPT ![a] = Waiting]
  /\ UNCHANGED <<table, stale, hello>>

(* The network or API Gateway (idle and two-hour limits) ends a connection. *)
Drops ==
  /\ \E k \in open : Close(k)
  /\ UNCHANGED <<table, stale, hello, faults, client>>

ClientStep(a) == Connect(a) \/ SendHello(a) \/ Notices(a)
Registers(k) == HelloHandled(k) /\ UNCHANGED client
Leaves(k) == LeaveStep(k) /\ UNCHANGED client
Broadcasts == CastStep /\ UNCHANGED client
Settles(k) == Propagates(k) /\ UNCHANGED client
PrunedBeside(k) == OtherPrunes(k) /\ UNCHANGED client

Next ==
  \/ \E a \in Addons : ClientStep(a) \/ HandlerRaises(a)
  \/ \E k \in Conns : Registers(k) \/ Leaves(k) \/ Settles(k) \/ PrunedBeside(k)
  \/ CastBegins /\ UNCHANGED client
  \/ Broadcasts \/ Drops

Spec == Init /\ [][Next]_vars

(* Clients' loops and invoked functions run on and written rows propagate; drops
   and notifications, and so the other broadcasts, are nobody's duty. *)
FairSpec ==
  /\ Spec
  /\ \A a \in Addons : WF_vars(ClientStep(a))
  /\ \A k \in Conns : WF_vars(Registers(k)) /\ WF_vars(Leaves(k)) /\ WF_vars(Settles(k))
  /\ WF_vars(Broadcasts)

(***************************************************************************)
(* Properties.                                                             *)
(***************************************************************************)

(* The row of an open connection is never removed, whatever broadcasts,
   errors and disconnects of others do: its add-on would hear nothing more,
   as it sends hello only when it connects (relay_ws_client.py:64). *)
RegisteredStays == [][table \cap open \cap open' \subseteq table']_vars

(* When the webhook answers 202, every connection still open whose row every scan
   showed when the broadcast began was posted to, unless its own call failed:
   pages, rows that come and go and outdated reads of others skip nobody.  (One
   that was registered just before may be missed: its row need not show yet.) *)
AcknowledgedReached ==
  Answering => cast.owed = {}

Ghost(k) == k \in table /\ k \notin open

NoFaults == [](faults = MaxFaults)

(* Rows of connections that are gone do not outlive the broadcasts. *)
GhostsGo ==
  NoFaults /\ []<>(~cast.on) /\ []<>cast.on =>
    \A k \in Conns : Ghost(k) ~> ~Ghost(k)

Registered(a) ==
  client[a].pc = "listening" /\ client[a].conn \in open \cap Settled

(* Once connections stop ending and nothing fails, each add-on gets registered, for
   every scan to see, and stays so, though earlier connections end at any point
   of connect, hello and disconnect.  (Broadcasts go on: they remove the rows of
   gone connections, whose ids the bounded instance needs again.) *)
Reregisters ==
  NoFaults /\ <>[][open \subseteq open']_vars /\ []<>(~cast.on) /\ []<>cast.on =>
    \A a \in Addons : <>[]Registered(a)

(* RelayService is what clients, functions and table implement together. *)
Service == INSTANCE RelayService WITH
  listening <- Settled \cap open, casting <- cast.on, owed <- cast.owed,
  failed <- MaxFaults - faults

(* Each step lets one connection listen, end, be reached or fail, or none: no
   page, stale row, late disconnect or pruning touches any other, and a 202
   leaves nobody out who cost no failure. *)
RefinesRelayService == Service!Spec
=============================================================================
