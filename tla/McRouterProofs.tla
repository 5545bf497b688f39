--------------------------- MODULE McRouterProofs ---------------------------
(***************************************************************************)
(* Proofs about McRouter: every variable keeps its type, and when          *)
(* flush_mc_queues returns no packet is left on any chip, for boards,      *)
(* tables, queues and sockets of any size.                                 *)
(***************************************************************************)
EXTENDS McRouter, SequenceTheorems, WellFoundedInduction, TLAPS

LEMMA SomeChip == NUM_CHIPS \in Nat \ {0} /\ 0 \in Chips
  BY BoardAssumption DEF NUM_CHIPS, Chips

LEMMA SomeCore == 0 \in Cores
  BY RouterAssumption DEF Cores

\* What both bounded queues return.
LEMMA QueueMcType ==
  ASSUME NEW S, NEW q \in Seq(S), NEW p \in S
  PROVE  queue_mc(q, p) \in Seq(S)
  BY DEF queue_mc

LEMMA SendMcType ==
  ASSUME NEW S, NEW s \in Seq(S), NEW p \in S
  PROVE  spin_emu_send_mc(s, p) \in Seq(S)
  BY DEF spin_emu_send_mc

\* A queue that does not accept a packet is left as it was.
LEMMA QueueMcFull ==
  ASSUME NEW q, NEW p, Len(q) \in Int, ~Accepts(q)
  PROVE  queue_mc(q, p) = q
  BY RouterAssumption DEF queue_mc, Accepts

Packets == McPackets \cup RoutePackets

LEMMA LessOnNat == IsWellFoundedOn({p \in Nat \X Nat : p[1] < p[2]}, Nat)
  BY NatLessThanWellFounded DEF OpToRel

LEMMA FirstInSet ==
  ASSUME NEW S \in SUBSET Nat, S # {}
  PROVE  First(S) \in S /\ \A j \in S : First(S) <= j
<1> DEFINE R == {p \in Nat \X Nat : p[1] < p[2]}
<1>1. PICK x \in S : \A y \in S : ~(<<y, x>> \in R)
  BY LessOnNat, WFMin, Zenon
<1>2. ASSUME NEW j \in S PROVE x <= j
  <2>1. j \in Nat /\ x \in Nat /\ ~(<<j, x>> \in R)
    BY <1>1
  <2> QED
    BY <2>1
<1> QED
  BY <1>2 DEF First

\* What a table returns for a key: one of its entries that match, or none.
LEMMA RouteIsEntry ==
  ASSUME TypeOK, NEW c \in Chips, NEW k
  PROVE  \/ RouteOf(c, k) = Unset
         \/ \E i \in Indices : /\ RouteOf(c, k) = spin_emu_routes[c][i]
                               /\ k \in spin_emu_routes[c][i].keys
<1>1. CASE Matching(c, k) # {}
  <2>1. Matching(c, k) \in SUBSET Nat
    BY DEF Matching, Indices
  <2>2. First(Matching(c, k)) \in Matching(c, k)
    BY <1>1, <2>1, FirstInSet
  <2> QED
    BY <1>1, <2>2 DEF RouteOf, Matching
<1> QED
  BY <1>1 DEF RouteOf

-----------------------------------------------------------------------------
LEMMA InitType == Init => TypeOK
<1> SUFFICES ASSUME Init PROVE TypeOK
  OBVIOUS
<1>1. spin_emu_routes \in [Chips -> [Indices -> Routes]]
  BY RouterAssumption DEF Init, RouterInit
<1>2. chip \in Chips /\ core \in Cores
  BY SomeChip, SomeCore DEF Init, RouterInit
<1>3. sends \in Nat
  BY RouterAssumption DEF Init
<1> QED
  BY <1>1, <1>2, <1>3 DEF Init, RouterInit, TypeOK

\* The socket the dispatcher is polling.
LEMMA PolledType ==
  ASSUME TypeOK
  PROVE  /\ Polled \in Seq(Packets)
         /\ Polled # <<>> => Tail(Polled) \in Seq(Packets)
                             /\ Head(Polled) \in Packets
         /\ Polled # <<>> /\ Head(Polled).type = "mc" =>
              Head(Polled) \in McPackets
         /\ Polled # <<>> /\ Head(Polled).type = "route" =>
              Head(Polled) \in RoutePackets
<1>1. Polled \in Seq(Packets)
  BY DEF TypeOK, Polled, Packets
<1>2. Polled # <<>> => Tail(Polled) \in Seq(Packets)
                       /\ Head(Polled) \in Packets
  BY <1>1
<1>3. ASSUME NEW p \in Packets
      PROVE  /\ p.type = "mc" => p \in McPackets
             /\ p.type = "route" => p \in RoutePackets
  BY DEF Packets, McPackets, RoutePackets
<1> QED
  BY <1>1, <1>2, <1>3

LEMMA DispatcherType ==
  ASSUME TypeOK, Dispatcher, UNCHANGED sends
  PROVE  TypeOK'
<1> USE DEF dispatcher
<1>1. CASE dispatch_mc
  <2> DEFINE p == Head(Polled)
  <2>1. p \in McPackets /\ Tail(Polled) \in Seq(Packets)
    BY <1>1, PolledType DEF dispatch_mc
  <2>2. up' \in [Chips -> [Cores -> Seq(Packets)]]
    BY <1>1, <2>1 DEF dispatch_mc, TypeOK, Polled, Packets
  <2>3. queue_mc(mc_queue[chip], p) \in Seq(McPackets)
    BY <2>1, QueueMcType DEF TypeOK
  <2>4. mc_queue' \in [Chips -> Seq(McPackets)]
    BY <1>1, <2>3 DEF dispatch_mc, TypeOK
  <2>5. mc_pending' \in BOOLEAN
    BY <1>1 DEF dispatch_mc, TypeOK
  <2> QED
    BY <1>1, <2>2, <2>4, <2>5 DEF dispatch_mc, TypeOK, Packets
<1>2. CASE store_route
  <2> DEFINE p == Head(Polled)
  <2>1. p \in RoutePackets /\ Tail(Polled) \in Seq(Packets)
    BY <1>2, PolledType DEF store_route
  <2>2. up' \in [Chips -> [Cores -> Seq(Packets)]]
    BY <1>2, <2>1 DEF store_route, TypeOK, Polled, Packets
  <2>3. p.index \in Indices /\ p.entry \in Routes
    BY <2>1 DEF RoutePackets
  <2>4. spin_emu_routes' \in [Chips -> [Indices -> Routes]]
    BY <1>2, <2>3 DEF store_route, TypeOK
  <2> QED
    BY <1>2, <2>2, <2>4 DEF store_route, TypeOK, Packets
<1>3. CASE PollNext
  <2>1. core' \in Cores
    BY <1>3, SomeCore, RouterAssumption
    DEF PollNext, MoreCores, TypeOK, Cores
  <2>2. chip' \in {chip, 0} \/ (chip < NUM_CHIPS - 1 /\ chip' = chip + 1)
    BY <1>3 DEF PollNext
  <2>3. chip' \in Chips
    <3>1. chip \in Chips
      BY DEF TypeOK
    <3> QED
      BY <2>2, <3>1, SomeChip DEF Chips
  <2>4. pc' \in {"poll", "flush", "route"}
    BY <1>3 DEF PollNext
  <2> QED
    BY <1>3, <2>1, <2>3, <2>4 DEF PollNext, TypeOK
<1>4. CASE FlushBegin
  BY <1>4, SomeChip DEF FlushBegin, PendingCleared, TypeOK
<1>5. CASE FlushEnd
  BY <1>5, SomeChip DEF FlushEnd, TypeOK
<1>6. CASE route_mc
  <2> DEFINE p == Head(mc_queue[chip])
             T == LinkTargets(chip, p.key)
  <2>1. p \in McPackets /\ Tail(mc_queue[chip]) \in Seq(McPackets)
    BY <1>6 DEF route_mc, TypeOK
  <2>2. ASSUME NEW c \in Chips
        PROVE  queue_mc(mc_queue[c], p) \in Seq(McPackets)
    BY <2>1, QueueMcType DEF TypeOK
  <2>3. mc_queue' \in [Chips -> Seq(McPackets)]
    <3>1. mc_queue' = [c \in Chips |->
            IF c = chip THEN Tail(mc_queue[c])
            ELSE IF c \in T THEN queue_mc(mc_queue[c], p)
            ELSE mc_queue[c]]
      BY <1>6 DEF route_mc
    <3> HIDE DEF p, T
    <3> QED
      BY <3>1, <2>1, <2>2 DEF TypeOK
  <2>4. mc_pending' \in BOOLEAN
    BY <1>6 DEF route_mc, TypeOK
  <2>5. ASSUME NEW i \in Cores
        PROVE  spin_emu_send_mc(down[chip][i], p) \in Seq(McPackets)
    BY <2>1, SendMcType DEF TypeOK
  <2>6. down' \in [Chips -> [Cores -> Seq(McPackets)]]
    <3> DEFINE R == RouteOf(chip, p.key).cores
    <3>1. down' = [down EXCEPT ![chip] =
            [i \in Cores |-> IF i \in R THEN spin_emu_send_mc(@[i], p)
                             ELSE @[i]]]
      BY <1>6 DEF route_mc
    <3> HIDE DEF p, R
    <3> QED
      BY <3>1, <2>5 DEF TypeOK
  <2> QED
    BY <1>6, <2>3, <2>4, <2>6 DEF route_mc, TypeOK
<1>7. CASE RouteNext
  <2>1. pc' \in {"poll", "flush", "route"}
    BY <1>7 DEF RouteNext
  <2>2. chip' \in Chips
    <3>1. CASE chip < NUM_CHIPS - 1
      <4>1. chip' = chip + 1
        BY <1>7, <3>1 DEF RouteNext
      <4> QED
        BY <4>1, <3>1, SomeChip DEF TypeOK, Chips
    <3>2. CASE ~(chip < NUM_CHIPS - 1)
      BY <1>7, <3>2, SomeChip DEF RouteNext
    <3> QED
      BY <3>1, <3>2
  <2> QED
    BY <1>7, <2>1, <2>2 DEF RouteNext, PendingAfterWalk, TypeOK
<1> QED
  BY <1>1, <1>2, <1>3, <1>4, <1>5, <1>6, <1>7 DEF Dispatcher

LEMMA CoreType ==
  ASSUME TypeOK, NEW c \in Chips, NEW i \in Cores, Core(c, i)
  PROVE  TypeOK'
<1> USE DEF dispatcher
<1>1. ASSUME NEW k \in Keys, spin1_send_mc_packet(c, i, k) PROVE TypeOK'
  <2> DEFINE p == [type |-> "mc", key |-> k, chip |-> c, core |-> i,
                   n |-> sends]
  <2>1. p \in Packets
    BY DEF Packets, McPackets, TypeOK
  <2>2. spin_emu_send_mc(up[c][i], p) \in Seq(Packets)
    BY <2>1, SendMcType DEF TypeOK, Packets
  <2>3. up' \in [Chips -> [Cores -> Seq(Packets)]]
    <3>1. up' = [up EXCEPT ![c][i] = spin_emu_send_mc(@, p)]
      BY <1>1 DEF spin1_send_mc_packet, SendMc
    <3> HIDE DEF p
    <3> QED
      BY <3>1, <2>2 DEF TypeOK, Packets
  <2>4. sends' \in Nat
    BY <1>1 DEF spin1_send_mc_packet, TypeOK
  <2> QED
    BY <1>1, <2>3, <2>4 DEF spin1_send_mc_packet, SendMc, TypeOK, Packets
<1>2. ASSUME NEW a \in AppEntries[c], spin1_set_mc_table_entry(c, i, a)
      PROVE  TypeOK'
  <2> DEFINE r == [type |-> "route", index |-> a.entry + SYS_MC_ENTRIES,
                   entry |-> a.route]
  <2>1. a \in [entry : Nat, route : Routes]
    BY RouterAssumption
  <2>2. a.entry + SYS_MC_ENTRIES \in Indices
    BY <1>2, <2>1, RouterAssumption
    DEF spin1_set_mc_table_entry, SYS_MC_ENTRIES, APP_MC_ENTRIES, Indices
  <2>3. r \in Packets
    BY <2>1, <2>2 DEF Packets, RoutePackets
  <2>4. up' \in [Chips -> [Cores -> Seq(Packets)]]
    <3>1. up' = [up EXCEPT ![c][i] = Append(@, r)]
      BY <1>2 DEF spin1_set_mc_table_entry, spin_emu_send_route
    <3>2. Append(up[c][i], r) \in Seq(Packets)
      BY <2>3 DEF TypeOK, Packets
    <3> HIDE DEF r
    <3> QED
      BY <3>1, <3>2 DEF TypeOK, Packets
  <2>5. sends' \in Nat
    BY <1>2 DEF spin1_set_mc_table_entry, TypeOK
  <2> QED
    BY <1>2, <2>4, <2>5
    DEF spin1_set_mc_table_entry, spin_emu_send_route, TypeOK, Packets
<1>3. CASE read_packets(c, i) /\ UNCHANGED sends
  <2>1. Tail(down[c][i]) \in Seq(McPackets)
    BY <1>3 DEF read_packets, TypeOK
  <2>2. down' \in [Chips -> [Cores -> Seq(McPackets)]]
    BY <1>3, <2>1 DEF read_packets, TypeOK
  <2> QED
    BY <1>3, <2>2 DEF read_packets, TypeOK
<1> QED
  BY <1>1, <1>2, <1>3 DEF Core

LEMMA NextType == TypeOK /\ [Next]_vars => TypeOK'
<1> SUFFICES ASSUME TypeOK, [Next]_vars PROVE TypeOK'
  OBVIOUS
<1>1. CASE Dispatcher /\ UNCHANGED sends
  BY <1>1, DispatcherType
<1>2. ASSUME NEW c \in Chips, NEW i \in Cores, Core(c, i) PROVE TypeOK'
  BY <1>2, CoreType
<1>3. CASE UNCHANGED vars
  BY <1>3 DEF vars, routerVars, dispatcher, TypeOK
<1> QED
  BY <1>1, <1>2, <1>3 DEF Next

\* Every variable of the router keeps its type (spin_emu_dispatcher.c): the
\* table index of a stored entry is in range, and only packets are queued.
THEOREM RouterTypeCorrect == Spec => []TypeOK
<1>1. Init => TypeOK
  BY InitType
<1>2. TypeOK /\ [Next]_vars => TypeOK'
  BY NextType
<1> QED
  BY <1>1, <1>2, PTL DEF Spec

-----------------------------------------------------------------------------
\* While no packet is reported pending, only the walk itself can still find
\* one, on the chip it has come to or on a later one.
OnlyAheadOfWalk ==
  ~mc_pending =>
    \A c \in Chips : mc_queue[c] = <<>> \/ (pc = "route" /\ c >= chip)

LEMMA DispatcherWalk ==
  ASSUME TypeOK, OnlyAheadOfWalk, Dispatcher
  PROVE  OnlyAheadOfWalk'
<1> USE DEF dispatcher
<1> SUFFICES ASSUME ~mc_pending', NEW c \in Chips
             PROVE  mc_queue'[c] = <<>> \/ (pc' = "route" /\ c >= chip')
  BY DEF OnlyAheadOfWalk
<1>1. CASE dispatch_mc
  <2>1. ~mc_pending /\ ~Accepts(mc_queue[chip]) /\ pc = "poll"
    BY <1>1 DEF dispatch_mc
  <2>2. queue_mc(mc_queue[chip], Head(Polled)) = mc_queue[chip]
    BY <2>1, QueueMcFull DEF TypeOK
  <2>3. mc_queue'[c] = mc_queue[c]
    BY <1>1, <2>2 DEF dispatch_mc, TypeOK
  <2> QED
    BY <2>1, <2>3 DEF OnlyAheadOfWalk
<1>2. CASE store_route
  BY <1>2 DEF store_route, OnlyAheadOfWalk
<1>3. CASE PollNext
  BY <1>3 DEF PollNext, OnlyAheadOfWalk
<1>4. CASE FlushBegin
  BY <1>4 DEF FlushBegin, Chips
<1>5. CASE FlushEnd
  BY <1>5 DEF FlushEnd, OnlyAheadOfWalk
<1>6. CASE route_mc
  <2> DEFINE p == Head(mc_queue[chip])
             T == LinkTargets(chip, p.key)
  <2>1. pc' = "route" /\ chip' = chip /\ chip \in Int /\ pc = "route"
    BY <1>6 DEF route_mc, TypeOK, Chips
  <2>2. ~mc_pending /\ \A t \in T : ~Accepts(mc_queue[t])
    BY <1>6 DEF route_mc
  <2>3. CASE c = chip
    BY <2>1, <2>3
  <2>4. CASE c # chip
    <3>1. c \in T => queue_mc(mc_queue[c], p) = mc_queue[c]
      BY <2>2, QueueMcFull DEF TypeOK
    <3>2. mc_queue'[c] = mc_queue[c]
      <4>1. mc_queue'[c] = IF c \in T THEN queue_mc(mc_queue[c], p)
                           ELSE mc_queue[c]
        BY <1>6, <2>4 DEF route_mc
      <4> QED
        BY <4>1, <3>1
    <3> QED
      BY <2>1, <2>2, <3>2 DEF OnlyAheadOfWalk
  <2> QED
    BY <2>3, <2>4
<1>7. CASE RouteNext
  <2>1. ~mc_pending /\ mc_queue[chip] = <<>> /\ mc_queue' = mc_queue
    BY <1>7 DEF RouteNext, PendingAfterWalk
  <2>2. mc_queue[c] = <<>> \/ c > chip
    BY <2>1 DEF OnlyAheadOfWalk, TypeOK, Chips
  <2> QED
    BY <1>7, <2>1, <2>2, SomeChip DEF RouteNext, TypeOK, Chips
<1> QED
  BY <1>1, <1>2, <1>3, <1>4, <1>5, <1>6, <1>7 DEF Dispatcher

LEMMA CoreWalk ==
  ASSUME OnlyAheadOfWalk, NEW c \in Chips, NEW i \in Cores, Core(c, i)
  PROVE  OnlyAheadOfWalk'
<1>1. UNCHANGED dispatcher
  BY DEF Core, spin1_send_mc_packet, SendMc, spin1_set_mc_table_entry,
         spin_emu_send_route, read_packets
<1> QED
  BY <1>1 DEF dispatcher, OnlyAheadOfWalk

\* When flush_mc_queues returns no chip has a packet left
\* (spin_emu_dispatcher.c, mc_pending), for every board and every table.
THEOREM FlushCorrect == Spec => []FlushLeavesNothing
<1>1. Init => OnlyAheadOfWalk
  BY DEF Init, RouterInit, OnlyAheadOfWalk
<1>2. TypeOK /\ OnlyAheadOfWalk /\ [Next]_vars => OnlyAheadOfWalk'
  <2> SUFFICES ASSUME TypeOK, OnlyAheadOfWalk, [Next]_vars
               PROVE  OnlyAheadOfWalk'
    OBVIOUS
  <2>1. CASE Dispatcher
    BY <2>1, DispatcherWalk
  <2>2. ASSUME NEW c \in Chips, NEW i \in Cores, Core(c, i)
        PROVE  OnlyAheadOfWalk'
    BY <2>2, CoreWalk
  <2>3. CASE UNCHANGED vars
    BY <2>3 DEF vars, routerVars, dispatcher, OnlyAheadOfWalk
  <2> QED
    BY <2>1, <2>2, <2>3 DEF Next
<1>3. OnlyAheadOfWalk => FlushLeavesNothing
  BY DEF OnlyAheadOfWalk, FlushLeavesNothing
<1> QED
  BY <1>1, <1>2, <1>3, RouterTypeCorrect, PTL DEF Spec
=============================================================================
