---------------------------- MODULE EventDelivery ----------------------------
(***************************************************************************)
(* What the event queues of a core promise the application.  Each event    *)
(* type is a first-in first-out channel.  The worker takes one event at a  *)
(* time, hands the callback exactly what was raised and takes no other     *)
(* event before that callback has returned.  Nothing is lost, duplicated   *)
(* or reordered within a type, and no event that waits is changed.         *)
(***************************************************************************)
EXTENDS Sequences

CONSTANTS
  Events      \* the event types

VARIABLES
  pending,    \* each event type's channel: a sequence of items
  current     \* the item being executed, if any: a sequence of one item

vars == <<pending, current>>

Init ==
  /\ pending = [e \in Events |-> <<>>]
  /\ current = <<>>

\* Any item joins the tail of the channel.
Raise(e) ==
  LET q == pending'[e]
  IN  /\ q # <<>>
      /\ pending' = [pending EXCEPT ![e] = Append(@, q[Len(q)])]
      /\ UNCHANGED current

Deliver(e) ==
  /\ current = <<>>
  /\ pending[e] # <<>>
  /\ current' = <<Head(pending[e])>>
  /\ pending' = [pending EXCEPT ![e] = Tail(@)]

Complete ==
  /\ current # <<>>
  /\ current' = <<>>
  /\ UNCHANGED pending

Next ==
  \/ \E e \in Events : Raise(e) \/ Deliver(e)
  \/ Complete

Spec == Init /\ [][Next]_vars
=============================================================================
