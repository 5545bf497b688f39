--------------------------- MODULE CommandService ---------------------------
(***************************************************************************)
(* What the dispatcher and the cores together promise the host: every core *)
(* has a queue of accepted commands, which it executes one at a time, in   *)
(* the order of acceptance.  One command may be accepted for several       *)
(* cores.                                                                  *)
(***************************************************************************)
EXTENDS Sequences

CONSTANTS Cores, Commands

VARIABLES
  pending,    \* core -> the commands accepted and not yet executed
  executed    \* core -> the command it executed last, or none

vars == <<pending, executed>>

Init ==
  /\ pending = [n \in Cores |-> <<>>]
  /\ executed = [n \in Cores |-> <<>>]

Accept(D, m) ==
  /\ pending' = [n \in Cores |-> IF n \in D THEN Append(pending[n], m)
                                 ELSE pending[n]]
  /\ UNCHANGED executed

Execute(n) ==
  /\ pending[n] # <<>>
  /\ executed' = [executed EXCEPT ![n] = <<Head(pending[n])>>]
  /\ pending' = [pending EXCEPT ![n] = Tail(@)]

\* The command accepted, if there is one, is the newest of some core.
Newest(n) == pending'[n][Len(pending'[n])]

Next ==
  \/ \E D \in SUBSET Cores : \E n \in D :
       /\ pending'[n] # <<>>
       /\ Newest(n) \in Commands
       /\ Accept(D, Newest(n))
  \/ \E n \in Cores : Execute(n)

Spec == Init /\ [][Next]_vars
=============================================================================
