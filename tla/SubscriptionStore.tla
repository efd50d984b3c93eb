-------------------------- MODULE SubscriptionStore --------------------------
(***************************************************************************)
(* subscription_store.py: the registry of Graph subscriptions, its index   *)
(* by meeting, and the JSON file it rewrites on every mutation.  Each      *)
(* operation runs between two awaits of the event loop, so it is one step; *)
(* _persist_locked comes after the change of the dicts, so a failed save   *)
(* leaves them changed and raises OSError to the caller (saved = FALSE).   *)
(***************************************************************************)
EXTENDS SubscriptionDomain

VARIABLES
  bySubscription,  \* _by_subscription
  byMeeting,       \* _by_meeting
  disk,            \* the records of the JSON file
  due,             \* ids whose recorded expires_at is within the headroom
  older            \* per id, those _by_subscription had when it was put in: the
                   \* dict's order, which the file keeps

storeVars == <<bySubscription, byMeeting, disk, due, older>>

StoreTypeOK ==
  /\ bySubscription \in Registry
  /\ byMeeting \in [Events -> SubOrNone]
  /\ disk \in Registry
  /\ due \in SUBSET SubIds
  /\ older \in [SubIds -> SUBSET SubIds]

StoreInit ==
  /\ bySubscription = EmptyRegistry
  /\ byMeeting = [e \in Events |-> NoSub]
  /\ disk = EmptyRegistry
  /\ due = {}
  /\ older = [id \in SubIds |-> {}]

(* A new key comes last in a dict; one that is there keeps its place. *)
PutLast(id) ==
  IF bySubscription[id] # NoEvent THEN older
  ELSE [j \in SubIds |-> IF j = id THEN Ids(bySubscription) ELSE older[j] \ {id}]

(* What is left of an order when only some ids are. *)
Among(ids, order) == [id \in SubIds |-> IF id \in ids THEN order[id] \cap ids ELSE {}]

Persist(order, saved) ==
  IF saved THEN /\ disk' = bySubscription'
                /\ older' = Among(Ids(bySubscription'), order)
                /\ UNCHANGED left
           ELSE UseUp("disk") /\ older' = order /\ UNCHANGED disk

(* Mutant: the record is indexed by its meeting only. *)
Upsert_IndexOnly(id, e, saved) ==
  /\ UNCHANGED bySubscription
  /\ byMeeting' = [byMeeting EXCEPT ![e] = id]
  /\ due' = due \ {id}
  /\ Persist(PutLast(id), saved)

Upsert(id, e, saved) ==
  /\ bySubscription' = [bySubscription EXCEPT ![id] = e]
  /\ byMeeting' = [byMeeting EXCEPT ![e] = id]
  /\ due' = due \ {id}
  /\ Persist(PutLast(id), saved)

(* Mutant: the index by meeting is not popped. *)
Unindex_Kept(e) == byMeeting

(* remove pops the record's entry of the index by meeting. *)
Unindex(e) == [byMeeting EXCEPT ![e] = NoSub]

Remove(id, saved) ==
  IF bySubscription[id] = NoEvent
    THEN saved /\ UNCHANGED <<storeVars, left>>
    ELSE /\ bySubscription' = [bySubscription EXCEPT ![id] = NoEvent]
         /\ byMeeting' = Unindex(bySubscription[id])
         /\ due' = due \ {id}
         /\ Persist(older, saved)

(* The index _load builds from the records of the file. *)
IndexOf(reg) ==
  [e \in Events |-> IF \E id \in SubIds : reg[id] = e
                      THEN CHOOSE id \in SubIds : reg[id] = e
                      ELSE NoSub]

Load ==
  /\ bySubscription' = disk
  /\ byMeeting' = IndexOf(disk)
  /\ UNCHANGED <<disk, due, older>>

(* The process's memory is gone; the file stays. *)
Forget ==
  /\ bySubscription' = EmptyRegistry
  /\ byMeeting' = [e \in Events |-> NoSub]
  /\ UNCHANGED <<disk, due, older>>

(* Time passes: a record's expires_at comes within the headroom. *)
ComesDue(id) ==
  /\ id \in Ids(bySubscription) \ due
  /\ due' = due \cup {id}
  /\ UNCHANGED <<bySubscription, byMeeting, disk, older>>
=============================================================================
