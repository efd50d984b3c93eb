----------------------------- MODULE TokenCache -----------------------------
(***************************************************************************)
(* graph_client.py: the token every call carries, cached by one client for *)
(* all tasks.  Nothing keeps two tasks from fetching one at the same time, *)
(* and the answers may come in any order.  The code measures by            *)
(* time.time(), which is taken here not to be set.                         *)
(***************************************************************************)
EXTENDS Integers

CONSTANTS
  Tasks,      \* tasks that call Graph
  TokenLife,  \* expires_in of Entra ID's tokens
  Margin,     \* the 60 seconds taken off it
  Latency     \* bound on the way of an answer or a request

ASSUME TokenAssumption ==
  /\ {TokenLife, Margin, Latency} \subseteq Nat
  /\ 2 * Latency <= Margin /\ 2 * Latency < TokenLife

VARIABLES
  token,  \* time the cached token is still valid, 0 when it is not or none is there
  fresh,  \* time until _token_expires_at
  call    \* per task: where its call is, for how long, and the token it carries

tokenVars == <<token, fresh, call>>

NoCall == [at |-> "none", age |-> 0, token |-> 0]

TokenTypeOK ==
  /\ token \in 0..TokenLife /\ fresh \in 0..TokenLife
  /\ call \in [Tasks -> [at : {"none", "fetch", "issued", "sent"},
                         age : 0..Latency, token : 0..TokenLife]]

TokenInit == token = 0 /\ fresh = 0 /\ call = [t \in Tasks |-> NoCall]

Goes(t, at, carried) ==
  call' = [call EXCEPT ![t] = [at |-> at, age |-> 0, token |-> carried]]

(* _auth_header: the cached token, or first a new one. *)
Calls(t) ==
  /\ call[t].at = "none"
  /\ IF fresh > 0 THEN Goes(t, "sent", token) ELSE Goes(t, "fetch", 0)
  /\ UNCHANGED <<token, fresh>>

Issued(t) ==
  /\ call[t].at = "fetch" /\ Goes(t, "issued", TokenLife)
  /\ UNCHANGED <<token, fresh>>

(* Mutant: the whole expires_in is trusted. *)
Trusted_Whole == TokenLife

(* How long a token is used, from when its answer arrives. *)
Trusted == IF TokenLife > Margin THEN TokenLife - Margin ELSE 0

(* _fetch_token's answer replaces whatever is cached, an earlier token than
   another task's perhaps. *)
Fetched(t) ==
  /\ call[t].at = "issued"
  /\ token' = call[t].token /\ fresh' = Trusted
  /\ Goes(t, "sent", token')

(* The request arrives and is answered, or the fetch or the call fails. *)
CallOver(t) ==
  /\ call[t].at # "none" /\ call' = [call EXCEPT ![t] = NoCall]
  /\ UNCHANGED <<token, fresh>>

Less(time) == IF time > 0 THEN time - 1 ELSE 0

(* An issued token and a request are not on their way for longer than Latency. *)
TokensAge ==
  /\ \A t \in Tasks : call[t].at \in {"issued", "sent"} => call[t].age < Latency
  /\ token' = Less(token) /\ fresh' = Less(fresh)
  /\ call' = [t \in Tasks |->
                IF call[t].at \in {"issued", "sent"}
                  THEN [call[t] EXCEPT !.age = @ + 1, !.token = Less(@)]
                  ELSE call[t]]

TokenStep == \E t \in Tasks : Calls(t) \/ Issued(t) \/ Fetched(t) \/ CallOver(t)

TokenSpec == TokenInit /\ [][TokenStep \/ TokensAge]_tokenVars

(* However the fetches of two tasks overlap and age, no request arrives with a
   token that has expired. *)
ValidOnArrival == \A t \in Tasks : call[t].at = "sent" => call[t].token > 0
=============================================================================
