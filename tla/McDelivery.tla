----------------------------- MODULE McDelivery -----------------------------
(***************************************************************************)
(* What the multicast router delivers.  McRouter with a record of one      *)
(* iteration of the dispatcher's loop: the packets taken from the cores'   *)
(* sockets and the ones sent to each core.  The record is compared with    *)
(* the destinations that the tables name, computed over the whole board.   *)
(* It also says whether the tables have made trees from the start, which   *)
(* the order of packets over several iterations depends on.                *)
(***************************************************************************)
EXTENDS McRouter, SequencesExt

\* The chips a packet with key k from chip c comes to, in n hops at most.
Reached(c, k) ==
  LET hops[n \in 0 .. NUM_CHIPS - 1] ==
        IF n = 0 THEN {c}
        ELSE LET R == hops[n - 1]
             IN  R \cup UNION {LinkTargets(d, k) : d \in R}
  IN  hops[NUM_CHIPS - 1]

\* The cores the tables name for such a packet.
Destinations(c, k) ==
  {p \in Chips \X Cores :
     p[1] \in Reached(c, k) /\ p[2] \in RouteOf(p[1], k).cores}

\* No chip is entered twice.
IsTree(c, k) ==
  \A d, e \in Reached(c, k) :
    /\ c \notin LinkTargets(d, k)
    /\ LinkTargets(d, k) \cap LinkTargets(e, k) # {} => d = e

AllTrees == \A c \in Chips, k \in Keys : IsTree(c, k)

-----------------------------------------------------------------------------
VARIABLES
  taken,      \* the packets queued since the last flush, with their chip
  delivered,  \* the packets sent to each core since the last flush
  overflow,   \* a multicast queue has dropped a packet since the last flush
  trees       \* the tables have made trees from the start

flushVars == <<taken, delivered, overflow>>
recordVars == <<flushVars, trees>>

NothingDelivered == [c \in Chips |-> [i \in Cores |-> <<>>]]

RecordInit ==
  /\ Init
  /\ taken = {} /\ delivered = NothingDelivered /\ overflow = FALSE
  /\ trees = AllTrees

RecordTaken ==
  /\ dispatch_mc
  /\ IF Accepts(mc_queue[chip])
     THEN taken' = taken \cup {[at |-> chip, packet |-> Head(Polled)]}
          /\ UNCHANGED overflow
     ELSE overflow' = TRUE /\ UNCHANGED taken
  /\ UNCHANGED <<delivered, trees>>

RecordRouted ==
  LET p == Head(mc_queue[chip])
  IN  /\ route_mc
      /\ delivered' = [delivered EXCEPT ![chip] =
           [i \in Cores |-> IF i \in RouteOf(chip, p.key).cores
                            THEN Append(@[i], p) ELSE @[i]]]
      /\ overflow' = (overflow \/ \E t \in LinkTargets(chip, p.key) :
                                    ~Accepts(mc_queue[t]))
      /\ UNCHANGED <<taken, trees>>

RecordStored ==
  /\ store_route
  /\ trees' = (trees /\ AllTrees')
  /\ UNCHANGED flushVars

RecordReset ==
  /\ FlushEnd
  /\ taken' = {} /\ delivered' = NothingDelivered /\ overflow' = FALSE
  /\ UNCHANGED trees

RecordDispatcher ==
  /\ \/ RecordTaken \/ RecordRouted \/ RecordStored \/ RecordReset
     \/ /\ PollNext \/ FlushBegin \/ RouteNext
        /\ UNCHANGED recordVars
  /\ UNCHANGED sends

RecordNext ==
  \/ RecordDispatcher
  \/ \E c \in Chips, i \in Cores : Core(c, i) /\ UNCHANGED recordVars

RecordSpec == RecordInit /\ [][RecordNext]_<<vars, recordVars>>

\* The dispatcher polls without ever waiting.
RecordFairSpec ==
  RecordSpec /\ WF_<<vars, recordVars>>(RecordDispatcher)

-----------------------------------------------------------------------------
\* When a flush is over every packet it took has been sent to all the cores
\* the tables name and to no other, and just once where the tables make a
\* tree: neither the order of the chips' queues nor the number of rounds
\* matters.  A queue that overflows is the only exception.
ExactDelivery ==
  pc = "flush" /\ ~mc_pending /\ ~overflow =>
    \A d \in Chips, i \in Cores :
      /\ ToSet(delivered[d][i]) =
           {t.packet : t \in {u \in taken :
              <<d, i>> \in Destinations(u.at, u.packet.key)}}
      /\ (\A t \in taken : IsTree(t.at, t.packet.key)) =>
           IsInjective(delivered[d][i])

\* As long as the tables make trees, packets of one core with one key are read
\* by every core in the order they were sent, over any number of flushes and
\* whichever queues and sockets have been full.
InOrder ==
  trees =>
    \A d \in Chips, i \in Cores :
      \A m, n \in DOMAIN down[d][i] :
        LET p == down[d][i][m]
            q == down[d][i][n]
        IN  m < n /\ p.chip = q.chip /\ p.core = q.core /\ p.key = q.key
              => p.n > q.n
=============================================================================
