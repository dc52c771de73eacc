----------------------------- MODULE RoomSlots -----------------------------
(***************************************************************************)
(* What the room task store promises, with the files and the sessions left *)
(* out.  For each kind of task, model and room there is one slot.  It is   *)
(* free, or a task waits in it, or a session works in it under a ticket.   *)
(* A ticket is given only to a slot that waits, and never a second time.   *)
(***************************************************************************)
CONSTANTS
  Keys,     \* kind, model and room of a task
  Tickets,  \* one for each go of a session at a task
  Free,     \* a slot with no live task; no ticket
  Waiting   \* a slot whose task waits to be handed over; no ticket either

VARIABLES
  slot,   \* what each slot holds
  spent   \* the tickets given so far

Init == slot = [k \in Keys |-> Free] /\ spent = {}

\* A person queues a task, new or finished before.
Queue(k) ==
  /\ slot[k] = Free
  /\ slot' = [slot EXCEPT ![k] = Waiting]
  /\ UNCHANGED spent

\* A claim hands over the tasks of `ks`, each under a ticket of its own.
HandOver(ks, ticket) ==
  /\ \A k \in ks : slot[k] = Waiting /\ ticket[k] \notin spent
  /\ \A j, k \in ks : ticket[j] = ticket[k] => j = k
  /\ slot' = [k \in Keys |-> IF k \in ks THEN ticket[k] ELSE slot[k]]
  /\ spent' = spent \cup {ticket[k] : k \in ks}

\* Tasks reported, or dismissed.
Vacate(ks) ==
  /\ \A k \in ks : slot[k] # Free
  /\ slot' = [k \in Keys |-> IF k \in ks THEN Free ELSE slot[k]]
  /\ UNCHANGED spent

\* A person takes a task back from a session and queues it again.
TakeBack(k) ==
  /\ slot[k] \in Tickets
  /\ slot' = [slot EXCEPT ![k] = Waiting]
  /\ UNCHANGED spent

Next ==
  \/ \E k \in Keys : Queue(k) \/ TakeBack(k)
  \/ \E ks \in SUBSET Keys : Vacate(ks) \/ \E ticket \in [ks -> Tickets] : HandOver(ks, ticket)

Spec == Init /\ [][Next]_<<slot, spent>>
=============================================================================
