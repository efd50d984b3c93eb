---------------------------- MODULE RoomRegistry ----------------------------
(***************************************************************************)
(* What the subscription manager and its store promise, whatever the tasks *)
(* that share them do: one slot per room, filled when empty, emptied when  *)
(* full, never switched from one meeting to another in a step; and a saved *)
(* copy that is some earlier state of the slots, from which a restart      *)
(* begins.                                                                 *)
(***************************************************************************)
CONSTANTS Rooms, Events, EventRoom, NoEvent

VARIABLES held, saved, running

Empty == [room \in Rooms |-> NoEvent]

Init == held = Empty /\ saved = Empty /\ running = FALSE

(* A change of the slots is written out, or the save fails. *)
Save == saved' \in {saved, held'}

Fill(room, e) ==
  /\ running /\ held[room] = NoEvent
  /\ held' = [held EXCEPT ![room] = e]
  /\ Save /\ UNCHANGED running

Clear(room) ==
  /\ running /\ held[room] # NoEvent
  /\ held' = [held EXCEPT ![room] = NoEvent]
  /\ Save /\ UNCHANGED running

(* A renewal rewrites the file without touching the slots. *)
Rewrite == running /\ saved' = held /\ UNCHANGED <<held, running>>

Begin == ~running /\ running' = TRUE /\ held' = saved /\ UNCHANGED saved
End == running /\ running' = FALSE /\ held' = Empty /\ UNCHANGED saved

Next ==
  \/ Rewrite \/ Begin \/ End
  \/ \E room \in Rooms : Clear(room)
  \/ \E e \in Events : Fill(EventRoom[e], e)

Spec == Init /\ [][Next]_<<held, saved, running>>
=============================================================================
