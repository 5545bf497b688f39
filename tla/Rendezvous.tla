----------------------------- MODULE Rendezvous -----------------------------
(***************************************************************************)
(* What a synchronisation barrier promises: the participants arrive one by *)
(* one, and none leaves before all have arrived.                           *)
(***************************************************************************)
CONSTANTS Participants

VARIABLES arrived, left

vars == <<arrived, left>>

Init == arrived = {} /\ left = {}

Arrive(p) ==
  /\ p \notin arrived
  /\ arrived' = arrived \cup {p}
  /\ UNCHANGED left

Leave(p) ==
  /\ arrived = Participants
  /\ p \notin left
  /\ left' = left \cup {p}
  /\ UNCHANGED arrived

Next == \E p \in Participants : Arrive(p) \/ Leave(p)

Spec == Init /\ [][Next]_vars
=============================================================================
