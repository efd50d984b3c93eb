---------------------------- MODULE GraphService ----------------------------
(***************************************************************************)
(* Microsoft Graph's subscriptions, as graph_client.py and the manager use *)
(* them (external), and what GraphClient makes of an answer: a call ends   *)
(* "ok", "refused" (status >= 400 or no token: GraphAuthError) or "lost"   *)
(* (connection error, timeout, unusable body: any other exception).  A     *)
(* fault may happen before or after the request took effect.               *)
(***************************************************************************)
EXTENDS SubscriptionDomain

VARIABLE live  \* the subscriptions Graph holds, by id

Replies == {"none", "ok", "refused", "lost"}

GraphTypeOK == live \in Registry
GraphInit == live = EmptyRegistry

(* Graph refuses a second subscription for one joinUrl with a 409. *)
UrlTaken(e) == \E id \in Ids(live) : EventUrl[live[id]] = EventUrl[e]

Create(id, e) == ~UrlTaken(e) /\ live[id] = NoEvent
                 /\ live' = [live EXCEPT ![id] = e]
Drop(id) == live' = [live EXCEPT ![id] = NoEvent]

Fault(reply) == reply \in {"refused", "lost"} /\ UseUp("graph")

PostCall(e, id, reply) ==
  \/ reply = "ok" /\ Create(id, e) /\ UNCHANGED left
  \/ reply = "refused" /\ UrlTaken(e) /\ UNCHANGED <<live, left>>
  \/ Fault(reply) /\ (Create(id, e) \/ UNCHANGED live)

PatchCall(id, reply) ==
  /\ UNCHANGED live
  /\ \/ reply = "ok" /\ live[id] # NoEvent /\ UNCHANGED left
     \/ reply = "refused" /\ live[id] = NoEvent /\ UNCHANGED left
     \/ Fault(reply)

(* A 404 is a success for GraphClient.delete. *)
DeleteCall(id, reply) ==
  \/ reply = "ok" /\ Drop(id) /\ UNCHANGED left
  \/ Fault(reply) /\ (Drop(id) \/ UNCHANGED live)
=============================================================================
