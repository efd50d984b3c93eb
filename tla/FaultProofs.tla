----------------------------- MODULE FaultProofs -----------------------------
(***************************************************************************)
(* What faults may cost: a stop without any leaves nothing in the file,    *)
(* each failed save puts one record of the figures wrong at most, and each *)
(* fault makes one orphan at most.                                         *)
(***************************************************************************)
EXTENDS SubscriptionProofs, FiniteSetTheorems

Running == proc \in {"up", "stopping"}

(***************************************************************************)
(* Every step spends one fault at most.                                    *)
(***************************************************************************)

WithinBudget == \A kind \in Kinds : left[kind] <= Budget[kind]

LEMMA SpendsOne ==
  ASSUME LeftTypeOK, NEW kind \in Kinds, UseUp(kind)
  PROVE  /\ left[kind] > 0 /\ left'[kind] = left[kind] - 1
         /\ \A k \in Kinds \ {kind} : left'[k] = left[k]
BY DEF LeftTypeOK, UseUp

LEMMA PersistSpends ==
  ASSUME NEW order, NEW saved, Persist(order, saved)
  PROVE  UNCHANGED left \/ UseUp("disk")
BY DEF Persist

LEMMA RemoveSpends ==
  ASSUME NEW id, NEW saved, Remove(id, saved)
  PROVE  UNCHANGED left \/ UseUp("disk")
BY PersistSpends DEF Remove

LEMMA UpsertSpends ==
  ASSUME NEW id, NEW e, NEW saved, Upsert(id, e, saved)
  PROVE  UNCHANGED left \/ UseUp("disk")
BY PersistSpends DEF Upsert

LEMMA StepSpends ==
  ASSUME [Next]_vars
  PROVE  UNCHANGED left \/ \E kind \in Kinds : UseUp(kind)
<1> USE DEF Kinds
<1>1. CASE WatcherStep
  <2>1. CASE PollRoom \/ PollFails \/ ChangeLocked
    BY <2>1 DEF PollRoom, PollFails, ChangeLocked
  <2>2. CASE WatcherDelete \/ WatcherPost
    BY <2>2 DEF WatcherDelete, WatcherPost, DeleteCall, PostCall, Fault
  <2>3. CASE WatcherDeleted
    BY <2>3, RemoveSpends DEF WatcherDeleted
  <2>4. CASE WatcherPosted
    BY <2>4, UpsertSpends DEF WatcherPosted
  <2> QED BY <1>1, <2>1, <2>2, <2>3, <2>4 DEF WatcherStep
<1>2. CASE RenewerStep
  <2>1. CASE RenewerWakes \/ RenewerLocked
    BY <2>1 DEF RenewerWakes, RenewerLocked
  <2>2. CASE RenewerPatch
    BY <2>2 DEF RenewerPatch, RenewalCall, PatchCall, Fault
  <2>3. CASE RenewerPatched
    BY <2>3, RemoveSpends, UpsertSpends DEF RenewerPatched
  <2> QED BY <1>2, <2>1, <2>2, <2>3 DEF RenewerStep
<1>3. CASE CleanupStep
  BY <1>3, RemoveSpends
     DEF CleanupStep, CleanupDelete, CleanupDeleted, CleanupDone, CleanupFails,
         DeleteCall, Fault
<1>4. CASE Start \/ Stop \/ Crash \/ Environment \/ UNCHANGED vars
  BY <1>4 DEF Start, Stop, Crash, Environment, CalendarChanges, RecordComesDue, Lapse, vars
<1> QED BY <1>1, <1>2, <1>3, <1>4 DEF Next

(* What was spent stays spent. *)
LEMMA StaysSpent ==
  ASSUME IInv, WithinBudget, [Next]_vars
  PROVE  /\ WithinBudget'
         /\ \A kind \in Kinds : left'[kind] = Budget[kind] => left[kind] = Budget[kind]
<1>1. LeftTypeOK /\ LeftTypeOK'
  BY NextInv DEF IInv, TypeOK, LeftTypeOK
<1>2. CASE UNCHANGED left
  BY <1>2 DEF WithinBudget
<1>3. ASSUME NEW kind \in Kinds, UseUp(kind)
      PROVE  \A k \in Kinds : left'[k] <= left[k]
  BY <1>1, <1>3, SpendsOne DEF LeftTypeOK
<1>4. \A k \in Kinds : left[k] \in Nat /\ left'[k] \in Nat /\ Budget[k] \in Nat
  BY <1>1, BudgetAssumption DEF LeftTypeOK
<1> QED BY <1>2, <1>3, <1>4, StepSpends DEF WithinBudget

(* The properties speak of what was spent. *)
LEMMA SpentNone ==
  ASSUME TypeOK, NEW kind \in Kinds
  PROVE  Spent(kind) = 0 <=> left[kind] = Budget[kind]
<1>1. left[kind] \in Nat /\ Budget[kind] \in Nat
  BY BudgetAssumption DEF TypeOK
<1> QED BY <1>1 DEF Spent

(***************************************************************************)
(* Clean stops.                                                            *)
(***************************************************************************)

Clean == \A kind \in {"graph", "disk", "crash"} : left[kind] = Budget[kind]

(* The file is the store's, and cleanup_all has every record before it. *)
Kept ==
  /\ proc # "crashed"
  /\ Running => disk = bySubscription
  /\ proc = "stopping" => Ids(bySubscription) \subseteq c.todo /\ c.reply # "lost"
  /\ proc = "stopped" => disk = EmptyRegistry

CleanInv == WithinBudget /\ (Clean => Kept)

LEMMA CleanSpendsNone ==
  ASSUME IInv, WithinBudget, [Next]_vars, Clean'
  PROVE  Clean /\ ~UseUp("graph") /\ ~UseUp("disk") /\ ~UseUp("crash")
<1>1. LeftTypeOK
  BY DEF IInv, TypeOK, LeftTypeOK
<1>2. \A k \in Kinds : left[k] \in Nat /\ Budget[k] \in Nat
  BY <1>1, BudgetAssumption DEF LeftTypeOK
<1>3. Clean
  BY StaysSpent DEF Clean, Kinds
<1>4. ASSUME NEW kind \in {"graph", "disk", "crash"}, UseUp(kind) PROVE FALSE
  BY <1>1, <1>2, <1>3, <1>4, SpendsOne DEF Clean, Kinds
<1> QED BY <1>3, <1>4

LEMMA PersistsWhole ==
  ASSUME NEW order, NEW saved, Persist(order, saved), ~UseUp("disk")
  PROVE  disk' = bySubscription'
BY DEF Persist

LEMMA SavedWhole ==
  ASSUME disk = bySubscription, ~UseUp("disk"), NEW id, NEW e, NEW saved,
         Remove(id, saved) \/ Upsert(id, e, saved)
  PROVE  disk' = bySubscription'
BY PersistsWhole DEF Remove, Upsert, storeVars

LEMMA KeptStep ==
  ASSUME IInv, Kept, [Next]_vars,
         ~UseUp("graph"), ~UseUp("disk"), ~UseUp("crash")
  PROVE  Kept'
<1> USE DEF Kept, Running
<1>0. TypeOK
  BY DEF IInv
<1>1. CASE WatcherStep
  <2>1. proc = "up" /\ proc' = "up"
    BY <1>1 DEF WatcherStep, PollRoom, PollFails, ChangeLocked, WatcherDelete,
                WatcherDeleted, WatcherPost, WatcherPosted
  <2>2. disk' = bySubscription'
    BY <1>1, <2>1, SavedWhole
       DEF WatcherStep, PollRoom, PollFails, ChangeLocked, WatcherDelete,
           WatcherDeleted, WatcherPost, WatcherPosted, storeVars
  <2> QED BY <2>1, <2>2
<1>2. CASE RenewerStep
  <2>1. proc = "up" /\ proc' = "up"
    BY <1>2 DEF RenewerStep, RenewerWakes, RenewerLocked, RenewerPatch, RenewerPatched
  <2>2. disk' = bySubscription'
    BY <1>2, <2>1, SavedWhole
       DEF RenewerStep, RenewerWakes, RenewerLocked, RenewerPatch, RenewerPatched, storeVars
  <2> QED BY <2>1, <2>2
<1>3. CASE CleanupDelete
  <2>1. PICK id \in c.todo, reply \in Replies :
          DeleteCall(id, reply) /\ c' = [c EXCEPT !.sub = id, !.reply = reply]
    BY <1>3 DEF CleanupDelete
  <2>2. reply # "lost"
    BY <2>1 DEF DeleteCall, Fault
  <2>3. c'.todo = c.todo /\ c'.reply = reply
    BY <1>0, <2>1 DEF TypeOK, CleanupStates
  <2> QED BY <1>3, <2>2, <2>3 DEF CleanupDelete, storeVars
<1>4. CASE CleanupDeleted
  <2>1. Remove(c.sub, TRUE) /\ proc = "stopping" /\ proc' = "stopping"
        /\ c' = Cleanup(c.todo \ {c.sub})
    BY <1>4 DEF CleanupDeleted
  <2>2. c'.todo = c.todo \ {c.sub} /\ c'.reply = "none"
    BY <2>1 DEF Cleanup
  <2>3. disk' = bySubscription'
    BY <2>1, SavedWhole
  <2>4. Ids(bySubscription') \subseteq c'.todo
    BY <1>0, <2>1, <2>2 DEF Remove, storeVars, Ids, TypeOK, StoreTypeOK, Registry
  <2> QED BY <2>1, <2>2, <2>3, <2>4
<1>5. CASE CleanupDone
  <2>1. Ids(bySubscription) = {} /\ disk = bySubscription
    BY <1>5 DEF CleanupDone
  <2>2. disk = EmptyRegistry
    BY <1>0, <2>1 DEF Ids, EmptyRegistry, TypeOK, StoreTypeOK, Registry
  <2> QED BY <1>5, <2>2 DEF CleanupDone, Ends, Forget
<1>6. CASE CleanupFails \/ Crash
  BY <1>6 DEF CleanupFails, Crash
<1>7. CASE Start
  BY <1>7 DEF Start, Load
<1>8. CASE Stop
  <2>1. c'.todo = Ids(bySubscription) /\ c'.reply = "none"
    BY <1>8 DEF Stop, Cleanup
  <2> QED BY <1>8, <2>1 DEF Stop, storeVars
<1>9. CASE Environment \/ UNCHANGED vars
  BY <1>9 DEF Environment, CalendarChanges, RecordComesDue, ComesDue, Lapse, vars,
              storeVars, taskVars
<1> QED BY <1>1, <1>2, <1>3, <1>4, <1>5, <1>6, <1>7, <1>8, <1>9 DEF Next, CleanupStep

LEMMA CleanInductive == IInv /\ CleanInv /\ [Next]_vars => CleanInv'
<1> SUFFICES ASSUME IInv, CleanInv, [Next]_vars PROVE CleanInv'
  OBVIOUS
<1>1. WithinBudget'
  BY StaysSpent DEF CleanInv
<1>2. Clean' => Kept'
  BY CleanSpendsNone, KeptStep DEF CleanInv
<1> QED BY <1>1, <1>2 DEF CleanInv

LEMMA CleanInit == Init => CleanInv
<1> SUFFICES ASSUME Init PROVE CleanInv
  OBVIOUS
<1>1. WithinBudget
  BY BudgetAssumption DEF Init, WithinBudget
<1> QED BY <1>1 DEF Init, StoreInit, CleanInv, Kept, Running

LEMMA CleanInvariant == Spec => []CleanInv
BY CleanInit, CleanInductive, InductiveInvariant, PTL DEF Spec

(* A stop that meets no fault has deleted every record: no lost answer, no
   failed save and no crash since the first start means an empty file. *)
THEOREM CleanStops == Spec => []CleanStopLeavesNoRecord
<1>1. IInv /\ CleanInv => CleanStopLeavesNoRecord
  <2> SUFFICES ASSUME IInv, CleanInv, proc = "stopped",
                      \A kind \in {"graph", "disk", "crash"} : Spent(kind) = 0
               PROVE  disk = EmptyRegistry
    BY DEF CleanStopLeavesNoRecord
  <2>1. Clean
    BY SpentNone DEF IInv, Clean, Kinds
  <2> QED BY <2>1 DEF CleanInv, Kept
<1> QED BY <1>1, InductiveInvariant, CleanInvariant, PTL

(***************************************************************************)
(* The published figures.                                                  *)
(***************************************************************************)

(* The count says nothing of sets that are not known to be finite. *)
Few(S, n) == IsFiniteSet(S) /\ Cardinality(S) <= n

Sleeping == proc = "up" /\ r.pc = "sleep"
FiguresInv == Sleeping => Few(WrongFigures, Spent("disk"))

LEMMA NoneWrong ==
  ASSUME TypeOK', UpdateHealth, WithinBudget'
  PROVE  FiguresInv'
<1>1. WrongFigures' = {}
  BY DEF UpdateHealth, Figures, WrongFigures, Differences
<1>2. Spent("disk")' \in Nat
  BY BudgetAssumption DEF WithinBudget, Spent, Kinds, TypeOK
<1> QED BY <1>1, <1>2, FS_EmptySet DEF FiguresInv, Few

(* Fewer wrong, and what was spent stays spent. *)
LEMMA NoMoreWrong ==
  ASSUME IInv, WithinBudget, FiguresInv, [Next]_vars, Sleeping,
         WrongFigures' \subseteq WrongFigures
  PROVE  FiguresInv'
<1>1. Few(WrongFigures, Spent("disk"))
  BY DEF FiguresInv
<1>2. IsFiniteSet(WrongFigures') /\ Cardinality(WrongFigures') <= Cardinality(WrongFigures)
  BY <1>1, FS_Subset DEF Few
<1>3. Cardinality(WrongFigures') \in Nat /\ Cardinality(WrongFigures) \in Nat
  BY <1>1, <1>2, FS_CardinalityType DEF Few
<1>4. LeftTypeOK /\ LeftTypeOK'
  BY NextInv DEF IInv, TypeOK, LeftTypeOK
<1>5. Spent("disk") \in Int /\ Spent("disk")' \in Int /\ Spent("disk") <= Spent("disk")'
  <2>1. \A kind \in Kinds : left[kind] \in Nat /\ left'[kind] \in Nat /\ Budget[kind] \in Nat
    BY <1>4, BudgetAssumption DEF LeftTypeOK
  <2>2. left'["disk"] <= left["disk"]
    BY <1>4, <2>1, StepSpends, SpendsOne DEF Kinds
  <2> QED BY <2>1, <2>2 DEF Spent, Kinds
<1> QED BY <1>1, <1>2, <1>3, <1>5 DEF FiguresInv, Few

(* A failed save makes one more. *)
LEMMA OneMoreWrong ==
  ASSUME IInv, FiguresInv, Sleeping, UseUp("disk"), NEW new,
         WrongFigures' \subseteq WrongFigures \cup {new}
  PROVE  FiguresInv'
<1> DEFINE Before == WrongFigures
           After == Before \cup {new}
<1>1. IsFiniteSet(Before) /\ Cardinality(Before) <= Spent("disk")
  BY DEF FiguresInv, Few
<1>2. Cardinality(Before) \in Nat
  BY <1>1, FS_CardinalityType
<1>3. /\ IsFiniteSet(After)
      /\ Cardinality(After) = IF new \in Before THEN Cardinality(Before) ELSE Cardinality(Before) + 1
  BY <1>1, FS_AddElement
<1>4. Cardinality(After) \in Nat /\ Cardinality(After) <= Cardinality(Before) + 1
  BY <1>2, <1>3
<1>5. /\ IsFiniteSet(WrongFigures') /\ Cardinality(WrongFigures') <= Cardinality(After)
  BY <1>3, FS_Subset
<1>6. Cardinality(WrongFigures') \in Nat
  BY <1>5, FS_CardinalityType
<1>7. Spent("disk") \in Int /\ Spent("disk")' = Spent("disk") + 1
  <2>1. left["disk"] \in Nat /\ Budget["disk"] \in Nat /\ left'["disk"] = left["disk"] - 1
    BY BudgetAssumption, SpendsOne DEF IInv, TypeOK, LeftTypeOK, Kinds
  <2> QED BY <2>1 DEF Spent
<1> HIDE DEF Before, After
<1>8. Cardinality(WrongFigures') <= Spent("disk")'
  BY <1>1, <1>2, <1>4, <1>5, <1>6, <1>7 DEF Before
<1> QED BY <1>5, <1>8 DEF FiguresInv, Few

LEMMA WatcherFigures ==
  ASSUME IInv, WithinBudget, WithinBudget', FiguresInv, WatcherStep
  PROVE  FiguresInv'
<1>0. TypeOK /\ StoreTypeOK /\ TypeOK'
  BY NextInv DEF IInv, TypeOK, Next
<1>1. r' = r /\ proc = "up" /\ proc' = "up"
  BY DEF WatcherStep, PollRoom, PollFails, ChangeLocked, WatcherDelete,
         WatcherDeleted, WatcherPost, WatcherPosted
<1>2. CASE ~Sleeping
  BY <1>1, <1>2 DEF FiguresInv, Sleeping
<1>3. CASE UpdateHealth
  BY <1>0, <1>3, NoneWrong
<1>4. CASE Sleeping /\ UNCHANGED <<bySubscription, reported>>
  <2>1. WrongFigures' = WrongFigures
    BY <1>4 DEF WrongFigures
  <2> QED BY <1>4, <2>1, NoMoreWrong DEF Next
<1>5. CASE Sleeping /\ WatcherDeleted /\ Remove(w.sub, FALSE) /\ UNCHANGED reported
  <2>1. UseUp("disk")
    BY <1>5 DEF Remove, Persist
  <2>2. WrongFigures' \subseteq WrongFigures \cup {w.sub}
    <3>1. \A id \in SubIds \ {w.sub} : bySubscription'[id] = bySubscription[id]
      BY <1>0, <1>5, DeletedRemoves
    <3> QED BY <1>5, <3>1 DEF WrongFigures, Differences, Ids
  <2> QED BY <1>5, <2>1, <2>2, OneMoreWrong
<1>6. CASE Sleeping /\ WatcherPosted /\ Rewritten(w.sub) /\ UseUp("disk")
  <2>1. \A id \in SubIds \ {w.sub} : bySubscription'[id] = bySubscription[id]
    BY <1>6, PostedAdds
  <2>2. reported'.active = reported.active /\ reported'.expiries = reported.expiries \ {w.sub}
    BY <1>0, <1>6 DEF Rewritten, TypeOK
  <2>3. WrongFigures' \subseteq WrongFigures \cup {w.sub}
    BY <2>1, <2>2 DEF WrongFigures, Differences, Ids
  <2> QED BY <1>6, <2>3, OneMoreWrong
<1>7. CASE WatcherDeleted
  <2>1. \/ UpdateHealth \/ UNCHANGED <<bySubscription, reported>>
        \/ Remove(w.sub, FALSE) /\ UNCHANGED reported
    BY <1>7 DEF WatcherDeleted, storeVars
  <2> QED BY <1>2, <1>3, <1>4, <1>5, <1>7, <2>1
<1>8. CASE WatcherPosted
  <2>1. \/ UpdateHealth \/ UNCHANGED <<bySubscription, reported>>
        \/ Rewritten(w.sub) /\ UseUp("disk")
    BY <1>8 DEF WatcherPosted, Upsert, Persist, storeVars
  <2> QED BY <1>2, <1>3, <1>4, <1>6, <1>8, <2>1
<1>9. CASE PollRoom \/ PollFails \/ ChangeLocked \/ WatcherDelete \/ WatcherPost
  <2>1. UNCHANGED <<bySubscription, reported>>
    BY <1>9 DEF PollRoom, PollFails, ChangeLocked, WatcherDelete, WatcherPost, storeVars
  <2> QED BY <1>2, <1>4, <2>1
<1> QED BY <1>7, <1>8, <1>9 DEF WatcherStep

(* The renewal task sleeps again only after _update_health. *)
LEMMA RenewerFigures ==
  ASSUME IInv, WithinBudget', RenewerStep
  PROVE  FiguresInv'
<1>0. r \in RenewerStates /\ TypeOK'
  BY NextInv DEF IInv, TypeOK, Next
<1>1. CASE RenewerEnds
  BY <1>0, <1>1, NoneWrong DEF RenewerEnds
<1>2. CASE r'.pc # "sleep"
  BY <1>2 DEF FiguresInv, Sleeping
<1>3. RenewerWakes => r'.pc # "sleep"
  BY DEF RenewerWakes, Renewer
<1>4. RenewerPatch => r'.pc # "sleep"
  BY <1>0 DEF RenewerPatch, RenewerStates
<1>5. RenewerLocked => r'.pc # "sleep" \/ RenewerEnds
  BY <1>0 DEF RenewerLocked, RenewerStates
<1>6. RenewerPatched => r'.pc # "sleep" \/ RenewerEnds
  <2>1. ASSUME NEW rest,
               r' = [r EXCEPT !.pc = "patch", !.list = rest, !.sub = NoSub, !.reply = "none"]
        PROVE  r'.pc = "patch"
    BY <1>0, <2>1 DEF RenewerStates
  <2> QED BY <2>1 DEF RenewerPatched, NextDue
<1> QED BY <1>1, <1>2, <1>3, <1>4, <1>5, <1>6 DEF RenewerStep

LEMMA OthersFigures ==
  ASSUME IInv, WithinBudget, FiguresInv,
         CleanupStep \/ Start \/ Stop \/ Crash \/ Environment \/ UNCHANGED vars
  PROVE  FiguresInv'
<1>1. CASE CleanupStep \/ Stop \/ Crash
  BY <1>1 DEF CleanupStep, CleanupDelete, CleanupDeleted, CleanupDone, CleanupFails,
              Stop, Crash, Ends, FiguresInv, Sleeping
<1>2. CASE Start
  BY <1>2 DEF Start, Renewer, FiguresInv, Sleeping
<1>3. CASE Environment \/ UNCHANGED vars
  <2>1. UNCHANGED <<proc, r, bySubscription, reported>>
    BY <1>3 DEF Environment, CalendarChanges, RecordComesDue, ComesDue, Lapse, vars,
                storeVars, taskVars
  <2>2. WrongFigures' = WrongFigures
    BY <2>1 DEF WrongFigures
  <2>3. Sleeping' => Sleeping
    BY <2>1 DEF Sleeping
  <2> QED BY <1>3, <2>2, <2>3, NoMoreWrong DEF Next, FiguresInv
<1> QED BY <1>1, <1>2, <1>3

(* However saves fail under the watcher, each puts at most one record of both
   published figures wrong while the renewal task sleeps: every other path of
   the watcher and every end of a renewal iteration goes by _update_health. *)
THEOREM FiguresAgree == Spec => []HealthAgrees
<1>1. Init => FiguresInv
  BY DEF Init, FiguresInv, Sleeping
<1>2. IInv /\ CleanInv /\ FiguresInv /\ [Next]_vars => FiguresInv'
  <2> SUFFICES ASSUME IInv, CleanInv, FiguresInv, [Next]_vars PROVE FiguresInv'
    OBVIOUS
  <2>1. WithinBudget /\ WithinBudget'
    BY StaysSpent DEF CleanInv
  <2> QED BY <2>1, WatcherFigures, RenewerFigures, OthersFigures DEF Next
<1>3. FiguresInv => HealthAgrees
  BY DEF FiguresInv, HealthAgrees, Sleeping, Few
<1> QED BY <1>1, <1>2, <1>3, InductiveInvariant, CleanInvariant, PTL DEF Spec

(***************************************************************************)
(* Orphans.  The count of orphans is not inductive: a failed save or a     *)
(* refused DELETE makes one only later, with the end of the process or the *)
(* next save.  Charged holds what a fault has put at stake already.        *)
(***************************************************************************)

InFlight(id) == w.pc = "postReply" /\ w.sub = id

(* The record goes next, whatever became of the subscription. *)
Doomed(id) ==
  \/ w.pc = "deleteReply" /\ w.sub = id /\ w.reply = "refused"
  \/ r.pc = "patchReply" /\ r.sub = id /\ r.reply = "refused"
  \/ proc = "stopping" /\ c.sub = id /\ c.reply = "refused"

AtStake(id) ==
  /\ live[id] # NoEvent /\ ~InFlight(id)
  /\ \/ disk[id] = NoEvent \/ Doomed(id)
     \/ Running /\ bySubscription[id] = NoEvent

Charged == {id \in SubIds : AtStake(id)}

(* What an answer that is waiting to be handled says of Graph. *)
AnswersTrue ==
  /\ w.pc = "deleteReply" => w.reply \in {"refused", "lost"} \/ live[w.sub] = NoEvent
  /\ w.pc = "postReply" /\ w.reply # "ok" => w.sub = NoSub
  /\ proc = "stopping" /\ c.sub # NoSub /\ c.reply = "ok" => live[c.sub] = NoEvent

ChargedInv == IsFiniteSet(Charged) /\ Cardinality(Charged) <= FaultsSpent

(* A step that puts nothing at stake, and one that a fault makes put one. *)
AddsNone == \A id \in SubIds : AtStake(id)' => AtStake(id)
AddsOne(kind) ==
  UseUp(kind) /\ \E new : \A id \in SubIds \ {new} : AtStake(id)' => AtStake(id)
Pays == AddsNone \/ \E kind \in Kinds : AddsOne(kind)

(* Where the store stays, nothing new is at stake. *)
LEMMA StakeSame ==
  ASSUME NEW id, UNCHANGED <<bySubscription, disk>>, Running' => Running,
         live'[id] # NoEvent => live[id] # NoEvent,
         InFlight(id) => InFlight(id)', Doomed(id)' => Doomed(id),
         AtStake(id)'
  PROVE  AtStake(id)
BY DEF AtStake

(* A save of the store takes from the file only what was at stake. *)
LEMMA StakeSaved ==
  ASSUME NEW id, Running, live' = live, disk' \in {disk, bySubscription'},
         bySubscription'[id] = NoEvent => bySubscription[id] = NoEvent \/ Doomed(id),
         ~InFlight(id), Doomed(id)' => Doomed(id),
         AtStake(id)'
  PROVE  AtStake(id)
BY DEF AtStake

LEMMA DropLess ==
  ASSUME GraphTypeOK, NEW id \in SubIds, Drop(id)
  PROVE  live'[id] = NoEvent /\ \A other \in SubIds \ {id} : live'[other] = live[other]
BY DEF GraphTypeOK, Registry, Drop

LEMMA DeleteEffect ==
  ASSUME GraphTypeOK, NEW id \in SubIds, NEW reply, DeleteCall(id, reply)
  PROVE  /\ \A other \in SubIds : live'[other] \in {live[other], NoEvent}
         /\ \A other \in SubIds \ {id} : live'[other] = live[other]
         /\ reply = "ok" => live'[id] = NoEvent
         /\ reply # "ok" => UseUp("graph") /\ reply \in {"refused", "lost"}
BY DropLess DEF DeleteCall, Fault

(* What the watcher's actions do to its task. *)
LEMMA WatcherMoves ==
  ASSUME IInv, PollRoom \/ PollFails \/ ChangeLocked \/ WatcherDeleted \/ WatcherPosted
  PROVE  w'.pc \notin {"deleteReply", "postReply"} /\ r' = r /\ c' = c /\ proc' = proc /\ live' = live
<1>1. NextRoom \/ EndRound => w'.pc = "get"
  BY DEF NextRoom, EndRound, Watcher
<1>2. ChangeLocked => w'.pc \notin {"deleteReply", "postReply"}
  BY <1>1 DEF ChangeLocked, FirstCall, IInv, TypeOK, WatcherStates
<1>3. PollRoom \/ PollFails => w'.pc \notin {"deleteReply", "postReply"}
  BY <1>1 DEF PollRoom, PollFails, Watcher
<1>4. WatcherDeleted => w'.pc \notin {"deleteReply", "postReply"}
  <2>1. WatcherDeleted => NextRoom \/ EndRound \/ w' = Watcher("post", w.room)
    BY DEF WatcherDeleted
  <2>2. w' = Watcher("post", w.room) => w'.pc = "post"
    BY DEF Watcher
  <2> QED BY <1>1, <2>1, <2>2
<1>5. WatcherPosted => w'.pc \notin {"deleteReply", "postReply"}
  BY <1>1 DEF WatcherPosted
<1>6. UNCHANGED <<r, c, proc, live>>
  BY DEF PollRoom, PollFails, ChangeLocked, WatcherDeleted, WatcherPosted
<1> QED BY <1>2, <1>3, <1>4, <1>5, <1>6

LEMMA WatcherPays ==
  ASSUME IInv, AnswersTrue, WatcherStep
  PROVE  Pays
<1> USE DEF Pays, Kinds
<1>0. TypeOK /\ GraphTypeOK /\ StoreTypeOK
  BY DEF IInv, TypeOK
<1>1. CASE PollRoom \/ PollFails \/ ChangeLocked
  <2>1. /\ w'.pc \notin {"deleteReply", "postReply"} /\ r' = r /\ c' = c /\ proc' = proc
        /\ live' = live /\ w.pc # "postReply"
    BY <1>1, WatcherMoves DEF PollRoom, PollFails, ChangeLocked
  <2>2. UNCHANGED <<bySubscription, disk>>
    BY <1>1 DEF PollRoom, PollFails, ChangeLocked, storeVars
  <2>3. AddsNone
    BY <2>1, <2>2, StakeSame DEF AddsNone, InFlight, Doomed, Running
  <2> QED BY <2>3
<1>2. CASE WatcherDelete
  <2>1. PICK reply \in Replies :
          DeleteCall(w.sub, reply) /\ w' = [w EXCEPT !.pc = "deleteReply", !.reply = reply]
    BY <1>2 DEF WatcherDelete
  <2>2. w.sub \in SubIds /\ w.pc = "delete"
    BY <1>2 DEF WatcherDelete, IInv, WatcherInLock, IdsOfRoom, Ids
  <2>3. w'.pc = "deleteReply" /\ w'.reply = reply /\ w'.sub = w.sub
    BY <1>0, <2>1 DEF TypeOK, WatcherStates
  <2>4. UNCHANGED <<bySubscription, disk, proc, r, c>>
    BY <1>2 DEF WatcherDelete, storeVars
  <2>5. \A id \in SubIds \ {w.sub} : AtStake(id)' => AtStake(id)
    BY <1>0, <2>1, <2>2, <2>3, <2>4, DeleteEffect, StakeSame DEF InFlight, Doomed, Running
  <2>6. reply = "ok" => \A id \in SubIds : id = w.sub => ~AtStake(id)'
    <3>1. reply = "ok" => live'[w.sub] = NoEvent
      BY <1>0, <2>1, <2>2, DeleteEffect
    <3> QED BY <3>1 DEF AtStake
  <2>7. reply # "ok" => UseUp("graph")
    BY <1>0, <2>1, <2>2, DeleteEffect
  <2> QED BY <2>5, <2>6, <2>7 DEF AddsNone, AddsOne
<1>3. CASE WatcherDeleted
  <2>1. /\ w'.pc \notin {"deleteReply", "postReply"} /\ r' = r /\ c' = c /\ proc' = proc
        /\ live' = live /\ w.pc = "deleteReply" /\ proc = "up"
    BY <1>3, WatcherMoves DEF WatcherDeleted
  <2>2. CASE UNCHANGED storeVars
    <3>1. AddsNone
      BY <2>1, <2>2, StakeSame DEF AddsNone, InFlight, Doomed, Running, storeVars
    <3> QED BY <3>1
  <2>3. ASSUME NEW saved \in BOOLEAN, Remove(w.sub, saved), w.reply # "lost"
        PROVE  AddsNone
    <3>1. disk' \in {disk, bySubscription'}
      BY <2>3 DEF Remove, Persist, storeVars
    <3>2. \A id \in SubIds : bySubscription'[id] = NoEvent =>
             bySubscription[id] = NoEvent \/ id = w.sub
      BY <1>0, <2>3 DEF Remove, storeVars, StoreTypeOK, Registry
    <3>3. live[w.sub] # NoEvent => Doomed(w.sub)
      BY <2>1, <2>3 DEF AnswersTrue, Doomed
    <3> SUFFICES ASSUME NEW id \in SubIds, AtStake(id)' PROVE AtStake(id)
      BY DEF AddsNone
    <3>4. live[id] # NoEvent
      BY <2>1 DEF AtStake
    <3> QED BY <2>1, <3>1, <3>2, <3>3, <3>4, StakeSaved DEF InFlight, Doomed, Running
  <2> QED BY <1>3, <2>2, <2>3 DEF WatcherDeleted
<1>4. CASE WatcherPost
  <2>1. PICK id \in Forgotten, reply \in Replies :
          /\ PostCall(current[w.room], id, reply)
          /\ w' = [w EXCEPT !.pc = "postReply", !.reply = reply,
                            !.sub = IF reply = "ok" THEN id ELSE NoSub]
    BY <1>4 DEF WatcherPost
  <2>2. /\ w'.pc = "postReply" /\ id \in SubIds
        /\ w'.sub = (IF reply = "ok" THEN id ELSE NoSub)
    BY <1>0, <2>1 DEF TypeOK, WatcherStates, Forgotten
  <2>3. UNCHANGED <<bySubscription, disk, proc, r, c>> /\ w.pc = "post"
    BY <1>4 DEF WatcherPost, storeVars
  <2>4. \A other \in SubIds \ {id} : live'[other] = live[other]
    BY <1>0, <2>1, <2>2 DEF PostCall, Create, GraphTypeOK, Registry
  <2>5. \A other \in SubIds \ {id} : AtStake(other)' => AtStake(other)
    BY <2>2, <2>3, <2>4, StakeSame DEF InFlight, Doomed, Running
  <2>6. CASE reply = "ok"
    <3>1. ~AtStake(id)'
      BY <2>2, <2>6 DEF AtStake, InFlight
    <3> QED BY <2>5, <3>1 DEF AddsNone
  <2>7. CASE UseUp("graph")
    BY <2>5, <2>7 DEF AddsOne
  <2>8. CASE reply # "ok" /\ live' = live
    <3>1. AtStake(id)' => AtStake(id)
      BY <2>2, <2>3, <2>8, StakeSame DEF InFlight, Doomed, Running
    <3> QED BY <2>5, <3>1 DEF AddsNone
  <2> QED BY <2>1, <2>6, <2>7, <2>8 DEF PostCall, Fault
<1>5. CASE WatcherPosted
  <2>1. /\ w'.pc \notin {"deleteReply", "postReply"} /\ r' = r /\ c' = c /\ proc' = proc
        /\ live' = live /\ w.pc = "postReply" /\ proc = "up"
    BY <1>5, WatcherMoves DEF WatcherPosted
  <2>2. r.pc # "patchReply"
    BY <2>1 DEF IInv, WatcherInLock, RenewerInLock
  <2>3. \A id \in SubIds : ~Doomed(id)'
    BY <2>1, <2>2 DEF Doomed
  <2>4. CASE w.reply # "ok"
    <3>1. \A id \in SubIds : ~InFlight(id)
      BY <2>1, <2>4, NullsAssumption DEF AnswersTrue, InFlight
    <3>2. UNCHANGED storeVars
      BY <1>5, <2>4 DEF WatcherPosted
    <3>3. AddsNone
      BY <2>1, <2>3, <3>1, <3>2, StakeSame DEF AddsNone, Running, storeVars
    <3> QED BY <3>3
  <2>5. ASSUME w.reply = "ok", NEW saved \in BOOLEAN, Upsert(w.sub, current[w.room], saved)
        PROVE  Pays
    <3>1. \A id \in SubIds \ {w.sub} : bySubscription'[id] = bySubscription[id] /\ ~InFlight(id)
      BY <1>0, <2>5 DEF Upsert, StoreTypeOK, Registry, InFlight
    <3>2. disk' \in {disk, bySubscription'}
      BY <2>5 DEF Upsert, Persist
    <3>3. \A id \in SubIds \ {w.sub} : AtStake(id)' => AtStake(id)
      BY <2>1, <2>3, <3>1, <3>2, StakeSaved DEF Running
    <3>4. CASE saved
      <4>1. w.sub \in SubIds /\ current[w.room] # NoEvent
        BY <2>1, <2>5 DEF IInv, WatcherInLock
      <4>2. bySubscription'[w.sub] # NoEvent /\ disk'[w.sub] # NoEvent
        BY <1>0, <2>5, <3>4, <4>1 DEF Upsert, Persist, StoreTypeOK, Registry
      <4>3. \A id \in SubIds : id = w.sub => ~AtStake(id)'
        BY <2>3, <4>1, <4>2 DEF AtStake
      <4> QED BY <3>3, <4>3 DEF AddsNone
    <3>5. CASE ~saved
      <4>1. UseUp("disk")
        BY <2>5, <3>5 DEF Upsert, Persist
      <4> QED BY <3>3, <4>1 DEF AddsOne
    <3> QED BY <3>4, <3>5
  <2> QED BY <1>5, <2>4, <2>5 DEF WatcherPosted
<1> QED BY <1>1, <1>2, <1>3, <1>4, <1>5 DEF WatcherStep

LEMMA RenewerPays ==
  ASSUME IInv, AnswersTrue, RenewerStep
  PROVE  Pays
<1> USE DEF Pays, Kinds
<1>0. TypeOK /\ GraphTypeOK /\ StoreTypeOK
  BY DEF IInv, TypeOK
<1>1. UNCHANGED <<w, c, proc, live>>
  BY DEF RenewerStep, RenewerWakes, RenewerLocked, RenewerPatch, RenewerPatched,
         RenewalCall, PatchCall
<1>2. CASE RenewerWakes \/ RenewerLocked
  <2>1. r'.pc # "patchReply"
    <3>1. RenewerWakes => r'.pc = "lock"
      BY DEF RenewerWakes, Renewer
    <3>2. CASE RenewerLocked
      <4>1. CASE RenewerEnds
        BY <4>1 DEF RenewerEnds, Renewer
      <4>2. CASE r' = [r EXCEPT !.pc = "patch", !.seen = {}, !.list = DueRecords]
        <5>1. r \in RenewerStates
          BY <1>0 DEF TypeOK
        <5> QED BY <4>2, <5>1 DEF RenewerStates
      <4> QED BY <3>2, <4>1, <4>2 DEF RenewerLocked
    <3> QED BY <1>2, <3>1, <3>2
  <2>2. UNCHANGED <<bySubscription, disk>>
    BY <1>2 DEF RenewerWakes, RenewerLocked, storeVars
  <2>3. AddsNone
    BY <1>1, <2>1, <2>2, StakeSame DEF AddsNone, InFlight, Doomed, Running
  <2> QED BY <2>3
<1>3. CASE RenewerPatch
  <2>1. PICK id \in Ids(r.list), reply \in Replies :
          RenewalCall(id, reply) /\ r' = [r EXCEPT !.pc = "patchReply", !.sub = id, !.reply = reply]
    BY <1>3 DEF RenewerPatch, First
  <2>2. r'.sub = id /\ r'.reply = reply
    BY <1>0, <2>1 DEF TypeOK, RenewerStates
  <2>3. UNCHANGED <<bySubscription, disk>>
    BY <1>3 DEF RenewerPatch, storeVars
  <2>4. \A other \in SubIds \ {id} : AtStake(other)' => AtStake(other)
    BY <1>1, <2>2, <2>3, StakeSame DEF InFlight, Doomed, Running
  <2>5. CASE UseUp("graph")
    BY <2>4, <2>5 DEF AddsOne
  <2>6. CASE reply # "refused"
    <3>1. AtStake(id)' => AtStake(id)
      BY <1>1, <2>2, <2>3, <2>6, StakeSame DEF InFlight, Doomed, Running
    <3> QED BY <2>4, <3>1 DEF AddsNone
  <2>7. CASE live[id] = NoEvent
    <3>1. ~AtStake(id)'
      BY <1>1, <2>7 DEF AtStake
    <3> QED BY <2>4, <3>1 DEF AddsNone
  <2> QED BY <2>1, <2>5, <2>6, <2>7 DEF RenewalCall, PatchCall, Fault
<1>4. CASE RenewerPatched
  <2>1. r.pc = "patchReply" /\ proc = "up" /\ r.sub \in SubIds
        /\ bySubscription[r.sub] = r.list[r.sub] /\ r.list[r.sub] # NoEvent
    BY <1>4 DEF RenewerPatched, IInv, RenewerInLock, Ids
  <2>2. r'.pc # "patchReply"
    <3>1. NextDue \/ RenewerEnds
      BY <1>4 DEF RenewerPatched
    <3>2. RenewerEnds => r'.pc = "sleep"
      BY DEF RenewerEnds, Renewer
    <3>3. ASSUME NEW rest,
                 r' = [r EXCEPT !.pc = "patch", !.list = rest, !.sub = NoSub, !.reply = "none"]
          PROVE  r'.pc = "patch"
      BY <1>0, <3>3 DEF TypeOK, RenewerStates
    <3> QED BY <3>1, <3>2, <3>3 DEF NextDue
  <2>3. w.pc # "postReply"
    BY <2>1 DEF IInv, WatcherInLock, RenewerInLock
  <2>4. \A id \in SubIds : ~InFlight(id) /\ (Doomed(id)' => Doomed(id))
    BY <1>1, <2>2, <2>3 DEF InFlight, Doomed
  <2>5. disk' \in {disk, bySubscription'}
    BY <1>4 DEF RenewerPatched, Remove, Upsert, Persist, storeVars
  <2>6. \A id \in SubIds : bySubscription'[id] = NoEvent =>
          bySubscription[id] = NoEvent \/ Doomed(id)
    <3>1. \/ bySubscription' = [bySubscription EXCEPT ![r.sub] = r.list[r.sub]]
          \/ bySubscription' = bySubscription
          \/ /\ bySubscription' = [bySubscription EXCEPT ![r.sub] = NoEvent]
             /\ r.reply = "refused"
      BY <1>0, <1>4, <2>1, RemoveEffect DEF RenewerPatched, RenewalRefused, Upsert, storeVars
    <3> QED BY <1>0, <2>1, <3>1 DEF StoreTypeOK, Registry, Doomed
  <2>7. AddsNone
    BY <1>1, <2>1, <2>4, <2>5, <2>6, StakeSaved DEF AddsNone, Running
  <2> QED BY <2>7
<1> QED BY <1>2, <1>3, <1>4 DEF RenewerStep

LEMMA CleanupPays ==
  ASSUME IInv, AnswersTrue, CleanupStep
  PROVE  Pays
<1> USE DEF Pays, Kinds
<1>0. TypeOK /\ GraphTypeOK /\ StoreTypeOK
  BY DEF IInv, TypeOK
<1>1. proc = "stopping" /\ w.pc = "idle" /\ r.pc = "idle"
  BY DEF CleanupStep, CleanupDelete, CleanupDeleted, CleanupDone, CleanupFails,
         IInv, TasksOnlyWhileUp
<1>2. CASE CleanupDelete
  <2>1. PICK id \in c.todo, reply \in Replies :
          DeleteCall(id, reply) /\ c' = [c EXCEPT !.sub = id, !.reply = reply]
    BY <1>2 DEF CleanupDelete
  <2>2. c'.sub = id /\ c'.reply = reply /\ id \in SubIds
    BY <1>0, <2>1 DEF TypeOK, CleanupStates
  <2>3. UNCHANGED <<bySubscription, disk, proc, w, r>>
    BY <1>2 DEF CleanupDelete, storeVars
  <2>4. \A other \in SubIds \ {id} : AtStake(other)' => AtStake(other)
    BY <1>0, <2>1, <2>2, <2>3, DeleteEffect, StakeSame DEF InFlight, Doomed, Running
  <2>5. reply = "ok" => ~AtStake(id)'
    <3>1. reply = "ok" => live'[id] = NoEvent
      BY <1>0, <2>1, <2>2, DeleteEffect
    <3> QED BY <3>1 DEF AtStake
  <2>6. reply # "ok" => UseUp("graph")
    BY <1>0, <2>1, <2>2, DeleteEffect
  <2> QED BY <2>4, <2>5, <2>6 DEF AddsNone, AddsOne
<1>3. CASE CleanupDeleted
  <2>1. /\ Remove(c.sub, TRUE) /\ c.sub \in SubIds /\ c.reply \in {"ok", "refused"}
        /\ UNCHANGED <<live, proc, w, r>> /\ c'.reply = "none"
    BY <1>0, <1>3 DEF CleanupDeleted, Cleanup, TypeOK, CleanupStates, SubOrNone
  <2>2. disk' \in {disk, bySubscription'}
    BY <2>1 DEF Remove, Persist, storeVars
  <2>3. \A id \in SubIds : bySubscription'[id] = NoEvent =>
          bySubscription[id] = NoEvent \/ id = c.sub
    BY <1>0, <2>1 DEF Remove, storeVars, StoreTypeOK, Registry
  <2>4. live[c.sub] # NoEvent => Doomed(c.sub)
    BY <1>1, <2>1, NullsAssumption DEF AnswersTrue, Doomed
  <2>5. ASSUME NEW id \in SubIds, AtStake(id)' PROVE AtStake(id)
    <3>1. live[id] # NoEvent
      BY <2>1, <2>5 DEF AtStake
    <3>2. ~InFlight(id) /\ ~Doomed(id)'
      BY <1>1, <2>1 DEF InFlight, Doomed
    <3> QED BY <1>1, <2>1, <2>2, <2>3, <2>4, <2>5, <3>1, <3>2, StakeSaved DEF Running
  <2> QED BY <2>5 DEF AddsNone
<1>4. CASE CleanupDone \/ CleanupFails
  <2>1. /\ proc' = "stopped" /\ UNCHANGED <<live, disk>>
        /\ w'.pc = "idle" /\ r'.pc = "idle"
    BY <1>4 DEF CleanupDone, CleanupFails, Ends, Forget, Watcher, Renewer
  <2>2. AddsNone
    BY <1>1, <2>1 DEF AddsNone, AtStake, InFlight, Doomed, Running
  <2> QED BY <2>2
<1> QED BY <1>2, <1>3, <1>4 DEF CleanupStep

LEMMA OthersPay ==
  ASSUME IInv, AnswersTrue, Start \/ Stop \/ Crash \/ Environment \/ UNCHANGED vars
  PROVE  Pays
<1> USE DEF Pays, Kinds
<1>0. TypeOK /\ GraphTypeOK /\ StoreTypeOK
  BY DEF IInv, TypeOK
<1>1. CASE Start
  <2>1. /\ bySubscription' = disk /\ UNCHANGED <<disk, live>> /\ proc' = "up"
        /\ w'.pc = "get" /\ r'.pc = "lock" /\ w.pc = "idle"
    BY <1>1 DEF Start, Load, Watcher, Renewer, IInv, TasksOnlyWhileUp
  <2>2. AddsNone
    BY <2>1 DEF AddsNone, AtStake, InFlight, Doomed
  <2> QED BY <2>2
<1>2. CASE Stop
  <2>1. /\ UNCHANGED <<bySubscription, disk, live>> /\ proc = "up" /\ UseUp("stop")
        /\ w'.pc = "idle" /\ r'.pc = "idle" /\ c'.reply = "none"
    BY <1>2 DEF Stop, Watcher, Renewer, Cleanup, storeVars
  <2>2. \A id \in SubIds \ {w.sub} : AtStake(id)' => AtStake(id)
    BY <2>1, StakeSame DEF InFlight, Doomed, Running
  <2> QED BY <2>1, <2>2 DEF AddsOne
<1>3. CASE Crash
  <2>1. /\ UNCHANGED <<disk, live>> /\ proc' = "crashed" /\ UseUp("crash")
        /\ w'.pc = "idle" /\ r'.pc = "idle"
    BY <1>3 DEF Crash, Ends, Forget, Watcher, Renewer
  <2>2. \A id \in SubIds \ {w.sub} : AtStake(id)' => AtStake(id)
    BY <2>1 DEF AtStake, InFlight, Doomed, Running
  <2> QED BY <2>1, <2>2 DEF AddsOne
<1>4. CASE Environment \/ UNCHANGED vars
  <2>1. UNCHANGED <<bySubscription, disk, proc, w, r, c>>
    BY <1>4 DEF Environment, CalendarChanges, RecordComesDue, ComesDue, Lapse, vars,
                storeVars, taskVars
  <2>2. \A id \in SubIds : live'[id] \in {live[id], NoEvent}
    BY <1>0, <1>4, DropLess
       DEF Environment, CalendarChanges, RecordComesDue, Lapse, vars, Ids
  <2>3. AddsNone
    BY <2>1, <2>2, StakeSame DEF AddsNone, InFlight, Doomed, Running
  <2> QED BY <2>3
<1> QED BY <1>1, <1>2, <1>3, <1>4

(* The answers stay true until they are handled: nothing takes a subscription's
   id again, and Graph makes none while a DELETE is waiting for its answer. *)
LEMMA AnswersStep ==
  ASSUME IInv, AnswersTrue, [Next]_vars
  PROVE  AnswersTrue'
<1>0. TypeOK /\ GraphTypeOK
  BY DEF IInv, TypeOK
<1>1. CASE PollRoom \/ PollFails \/ ChangeLocked \/ WatcherDeleted \/ WatcherPosted
  <2>1. proc = "up"
    BY <1>1 DEF PollRoom, PollFails, ChangeLocked, WatcherDeleted, WatcherPosted
  <2> QED BY <1>1, <2>1, WatcherMoves DEF AnswersTrue
<1>2. CASE WatcherDelete
  <2>1. PICK reply \in Replies :
          DeleteCall(w.sub, reply) /\ w' = [w EXCEPT !.pc = "deleteReply", !.reply = reply]
    BY <1>2 DEF WatcherDelete
  <2>2. w.sub \in SubIds /\ proc' = "up"
    BY <1>2 DEF WatcherDelete, IInv, WatcherInLock, IdsOfRoom, Ids
  <2>3. w'.pc = "deleteReply" /\ w'.reply = reply /\ w'.sub = w.sub
    BY <1>0, <2>1 DEF TypeOK, WatcherStates
  <2> QED BY <1>0, <2>1, <2>2, <2>3, DeleteEffect DEF AnswersTrue
<1>3. CASE WatcherPost
  <2>1. PICK id \in Forgotten, reply \in Replies :
          w' = [w EXCEPT !.pc = "postReply", !.reply = reply,
                         !.sub = IF reply = "ok" THEN id ELSE NoSub]
    BY <1>3 DEF WatcherPost
  <2>2. w'.pc = "postReply" /\ w'.reply = reply /\ (reply # "ok" => w'.sub = NoSub)
    BY <1>0, <2>1 DEF TypeOK, WatcherStates
  <2> QED BY <1>3, <2>2 DEF WatcherPost, AnswersTrue
<1>4. CASE RenewerStep
  <2>1. UNCHANGED <<w, c, proc, live>>
    BY <1>4 DEF RenewerStep, RenewerWakes, RenewerLocked, RenewerPatch, RenewerPatched,
         RenewalCall, PatchCall
  <2> QED BY <2>1 DEF AnswersTrue
<1>5. CASE CleanupDelete
  <2>1. PICK id \in c.todo, reply \in Replies :
          DeleteCall(id, reply) /\ c' = [c EXCEPT !.sub = id, !.reply = reply]
    BY <1>5 DEF CleanupDelete
  <2>2. c'.sub = id /\ c'.reply = reply /\ id \in SubIds
    BY <1>0, <2>1 DEF TypeOK, CleanupStates
  <2>3. w' = w /\ w.pc = "idle"
    BY <1>5 DEF CleanupDelete, IInv, TasksOnlyWhileUp
  <2> QED BY <1>0, <2>1, <2>2, <2>3, DeleteEffect DEF AnswersTrue
<1>6. CASE CleanupDeleted
  <2>1. w' = w /\ w.pc = "idle" /\ c'.reply = "none"
    BY <1>6 DEF CleanupDeleted, Cleanup, IInv, TasksOnlyWhileUp
  <2> QED BY <2>1 DEF AnswersTrue
<1>7. CASE CleanupDone \/ CleanupFails \/ Start \/ Stop \/ Crash
  <2>1. w'.pc \in {"idle", "get"} /\ (proc' = "stopping" => c'.sub = NoSub)
    BY <1>7 DEF CleanupDone, CleanupFails, Start, Stop, Crash, Ends, Watcher, Cleanup
  <2> QED BY <2>1 DEF AnswersTrue
<1>8. CASE Environment \/ UNCHANGED vars
  <2>1. UNCHANGED <<proc, w, c>>
    BY <1>8 DEF Environment, CalendarChanges, RecordComesDue, Lapse, vars, taskVars
  <2>2. \A id \in SubIds : live[id] = NoEvent => live'[id] = NoEvent
    BY <1>0, <1>8, DropLess
       DEF Environment, CalendarChanges, RecordComesDue, Lapse, vars, Ids
  <2>3. (w.pc = "deleteReply" => w.sub \in SubIds) /\ (c.sub # NoSub => c.sub \in SubIds)
    BY <1>0 DEF IInv, WatcherInLock, IdsOfRoom, Ids, TypeOK, CleanupStates, SubOrNone
  <2> QED BY <2>1, <2>2, <2>3 DEF AnswersTrue
<1> QED BY <1>1, <1>2, <1>3, <1>4, <1>5, <1>6, <1>7, <1>8 DEF Next, WatcherStep, CleanupStep

LEMMA SpentType ==
  ASSUME LeftTypeOK
  PROVE  \A kind \in Kinds : Spent(kind) \in Int
BY BudgetAssumption DEF LeftTypeOK, Spent

LEMMA OneMore ==
  ASSUME LeftTypeOK, NEW kind \in Kinds, UseUp(kind)
  PROVE  FaultsSpent' = FaultsSpent + 1
<1>1. \A k \in Kinds : left[k] \in Nat /\ Budget[k] \in Nat
  BY BudgetAssumption DEF LeftTypeOK
<1>2. \A k \in Kinds : Spent(k)' = IF k = kind THEN Spent(k) + 1 ELSE Spent(k)
  BY <1>1, SpendsOne DEF Spent
<1> QED BY <1>2, SpentType DEF FaultsSpent, Kinds

LEMMA ChargedStep ==
  ASSUME IInv, AnswersTrue, ChargedInv, [Next]_vars
  PROVE  ChargedInv'
<1>0. LeftTypeOK /\ LeftTypeOK'
  BY NextInv DEF IInv, TypeOK, LeftTypeOK
<1>1. FaultsSpent \in Int /\ FaultsSpent' \in Int
  <2>1. \A kind \in Kinds : Spent(kind) \in Int /\ Spent(kind)' \in Int
    BY <1>0, BudgetAssumption DEF LeftTypeOK, Spent
  <2> QED BY <2>1 DEF FaultsSpent, Kinds
<1>2. IsFiniteSet(Charged) /\ Cardinality(Charged) \in Nat
  BY FS_CardinalityType DEF ChargedInv
<1>3. Pays
  BY WatcherPays, RenewerPays, CleanupPays, OthersPay DEF Next
<1>4. CASE AddsNone
  <2>1. Charged' \subseteq Charged
    BY <1>4 DEF AddsNone, Charged
  <2>2. IsFiniteSet(Charged') /\ Cardinality(Charged') <= Cardinality(Charged)
    BY <1>2, <2>1, FS_Subset
  <2>3. FaultsSpent' >= FaultsSpent
    <3>1. UNCHANGED left => FaultsSpent' = FaultsSpent
      BY DEF FaultsSpent, Spent
    <3> QED BY <1>0, <1>1, <3>1, OneMore, StepSpends
  <2>4. Cardinality(Charged') \in Nat
    BY <2>2, FS_CardinalityType
  <2> QED BY <1>1, <1>2, <2>2, <2>3, <2>4 DEF ChargedInv
<1>5. ASSUME NEW kind \in Kinds, AddsOne(kind) PROVE ChargedInv'
  <2>1. PICK new : \A id \in SubIds \ {new} : AtStake(id)' => AtStake(id)
    BY <1>5 DEF AddsOne
  <2>2. Charged' \subseteq Charged \cup {new}
    BY <2>1 DEF Charged
  <2>3. /\ IsFiniteSet(Charged \cup {new}) /\ Cardinality(Charged \cup {new}) \in Nat
        /\ Cardinality(Charged \cup {new}) <= Cardinality(Charged) + 1
    <3> DEFINE Before == Charged
               After == Before \cup {new}
    <3>1. /\ IsFiniteSet(After)
          /\ Cardinality(After) = IF new \in Before THEN Cardinality(Before) ELSE Cardinality(Before) + 1
      BY <1>2, FS_AddElement
    <3>2. Cardinality(After) \in Nat
      BY <3>1, FS_CardinalityType
    <3> QED BY <1>2, <3>1, <3>2
  <2>4. IsFiniteSet(Charged') /\ Cardinality(Charged') <= Cardinality(Charged \cup {new})
    BY <2>2, <2>3, FS_Subset
  <2>5. Cardinality(Charged') \in Nat
    BY <2>4, FS_CardinalityType
  <2>6. FaultsSpent' = FaultsSpent + 1
    BY <1>0, <1>5, OneMore DEF AddsOne
  <2> QED BY <1>1, <1>2, <2>3, <2>4, <2>5, <2>6 DEF ChargedInv
<1> QED BY <1>3, <1>4, <1>5 DEF Pays

LEMMA ChargedInit == Init => ChargedInv /\ AnswersTrue
<1> SUFFICES ASSUME Init PROVE ChargedInv /\ AnswersTrue
  OBVIOUS
<1>1. Charged = {}
  BY DEF Init, GraphInit, EmptyRegistry, Charged, AtStake
<1>2. FaultsSpent = 0
  <2>1. \A kind \in Kinds : Spent(kind) = 0
    BY BudgetAssumption DEF Init, Spent
  <2> QED BY <2>1 DEF FaultsSpent, Kinds
<1>3. AnswersTrue
  BY DEF Init, Watcher, AnswersTrue
<1> QED BY <1>1, <1>2, <1>3, FS_EmptySet DEF ChargedInv

LEMMA ChargedInvariant == Spec => [](ChargedInv /\ AnswersTrue)
<1>1. IInv /\ (ChargedInv /\ AnswersTrue) /\ [Next]_vars => (ChargedInv /\ AnswersTrue)'
  BY ChargedStep, AnswersStep
<1> QED BY <1>1, ChargedInit, InductiveInvariant, PTL DEF Spec

(* However faults fall between any two steps of any task, each leaves at most
   one subscription at Graph that neither the process nor its file knows. *)
THEOREM OneOrphan == Spec => []OneOrphanPerFault
<1>1. ChargedInv /\ IInv => OneOrphanPerFault
  <2> SUFFICES ASSUME ChargedInv, IInv PROVE Cardinality(Orphans) <= FaultsSpent
    BY DEF OneOrphanPerFault
  <2>1. Orphans \subseteq Charged
    BY DEF Orphans, Charged, AtStake, InFlight, Ids
  <2>2. IsFiniteSet(Orphans) /\ Cardinality(Orphans) <= Cardinality(Charged)
    BY <2>1, FS_Subset DEF ChargedInv
  <2>3. Cardinality(Orphans) \in Nat /\ Cardinality(Charged) \in Nat
    BY <2>2, FS_CardinalityType DEF ChargedInv
  <2>4. FaultsSpent \in Int
    BY SpentType DEF FaultsSpent, Kinds, IInv, TypeOK, LeftTypeOK
  <2> QED BY <2>2, <2>3, <2>4 DEF ChargedInv
<1> QED BY <1>1, InductiveInvariant, ChargedInvariant, PTL
=============================================================================
