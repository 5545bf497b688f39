------------------------------ MODULE McRouter ------------------------------
(***************************************************************************)
(* Multicast packets: the part of the dispatcher's loop that takes them    *)
(* from the cores' sockets, routes them from chip to chip by the tables    *)
(* the cores have installed and sends them to the cores                    *)
(* (spin_emu_dispatcher.c), and the calls by which the cores send packets  *)
(* and table entries (spin_emu_api.c, spin_emu_util.c).                    *)
(*                                                                         *)
(* The dispatcher is one thread; the cores run beside it.  One iteration   *)
(* of its loop polls every core's socket until it is empty (pc = "poll"),  *)
(* then routes what is queued, chip by chip (pc = "route"), again and      *)
(* again while that has queued more (pc = "flush").                        *)
(*                                                                         *)
(* A table entry matches a set of keys, the keys k with k & mask = key,    *)
(* and names links and cores.                                              *)
(***************************************************************************)
EXTENDS Topology, Sequences, FiniteSets

CONSTANTS
  NUM_CPUS,      \* cores of a chip
  NUM_ROUTES,    \* entries of a routing table
  QUEUE_SIZE,    \* SPIN_EMU_MC_QUEUE_SIZE
  SOCKET_SIZE,   \* datagrams that a socket holds
  Keys,          \* routing keys
  Senders,       \* the cores that send packets
  AppEntries,    \* chip -> the table entries its cores install
  Tables,        \* the tables at the start of a behaviour
  MaxSends       \* bound: packets and table entries sent by the cores

SYS_MC_ENTRIES == 1
WholeTable == NUM_ROUTES
APP_MC_ENTRIES == NUM_ROUTES - SYS_MC_ENTRIES
Cores == 0 .. NUM_CPUS - 1
Indices == 0 .. NUM_ROUTES - 1
Routes == [keys : SUBSET Keys, links : SUBSET Links, cores : SUBSET Cores]

\* n tells packets apart: it is part of the payload.
McPackets == [type : {"mc"}, key : Keys, chip : Chips, core : Cores,
              n : Nat]
RoutePackets == [type : {"route"}, index : Indices, entry : Routes]

\* key 0xFFFFFFFF and mask 0 match nothing.
Unset == [keys |-> {}, links |-> {}, cores |-> {}]
UnsetTables == [c \in Chips |-> [i \in Indices |-> Unset]]

ASSUME RouterAssumption ==
  /\ NUM_CPUS \in Nat \ {0}
  /\ NUM_ROUTES \in Nat \ {0}
  /\ QUEUE_SIZE \in Nat \ {0}
  /\ SOCKET_SIZE \in Nat \ {0}
  /\ Senders \subseteq Chips \X Cores
  /\ AppEntries \in [Chips -> SUBSET [entry : Nat, route : Routes]]
  /\ Tables \subseteq [Chips -> [Indices -> Routes]]
  /\ MaxSends \in Nat

VARIABLES
  spin_emu_routes,  \* the routing tables
  mc_queue,         \* mc_queue[chip][0]; the queues of other cores stay empty
  mc_pending,
  up,               \* what a core has sent and the dispatcher has not read
  down,             \* what the dispatcher has sent and a core has not read
  pc, chip, core,   \* the dispatcher's place in its loop
  sends             \* packets and entries the cores may still send

dispatcher == <<mc_queue, mc_pending, pc, chip, core>>
routerVars == <<spin_emu_routes, dispatcher, up, down>>
vars == <<routerVars, sends>>

RouterInit ==
  /\ spin_emu_routes \in Tables
  /\ mc_queue = [c \in Chips |-> <<>>]
  /\ mc_pending = FALSE
  /\ up = [c \in Chips |-> [i \in Cores |-> <<>>]]
  /\ down = [c \in Chips |-> [i \in Cores |-> <<>>]]
  /\ pc = "poll" /\ chip = 0 /\ core = 0

Init == RouterInit /\ sends = MaxSends

-----------------------------------------------------------------------------
(* The dispatcher.                                                         *)

\* The packet that does not fit is dropped.
QueuedAtHead(q, p) == IF Len(q) >= QUEUE_SIZE THEN q ELSE <<p>> \o q
QueuedBelowSize(q, p) == IF Len(q) >= QUEUE_SIZE - 1 THEN q ELSE Append(q, p)
queue_mc(q, p) == IF Len(q) >= QUEUE_SIZE THEN q ELSE Append(q, p)

\* send with MSG_DONTWAIT: a datagram for a full socket is dropped.
spin_emu_send_mc(s, p) == IF Len(s) >= SOCKET_SIZE THEN s ELSE Append(s, p)

Polled == up[chip][core]

\* queue_mc sets mc_pending when it has queued the packet.
Accepts(q) == Len(q) < QUEUE_SIZE

dispatch_mc ==
  /\ pc = "poll"
  /\ Polled # <<>>
  /\ Head(Polled).type = "mc"
  /\ up' = [up EXCEPT ![chip][core] = Tail(@)]
  /\ mc_queue' = [mc_queue EXCEPT ![chip] = queue_mc(@, Head(Polled))]
  /\ mc_pending' = (mc_pending \/ Accepts(mc_queue[chip]))
  /\ UNCHANGED <<spin_emu_routes, down, pc, chip, core>>

store_route ==
  /\ pc = "poll"
  /\ Polled # <<>>
  /\ Head(Polled).type = "route"
  /\ up' = [up EXCEPT ![chip][core] = Tail(@)]
  /\ spin_emu_routes' =
       [spin_emu_routes EXCEPT ![chip][Head(Polled).index] =
          Head(Polled).entry]
  /\ UNCHANGED <<dispatcher, down>>

MoreCores == core < NUM_CPUS - 1

\* recv has nothing more: the next core, or the queues after the last one.
PollNext ==
  /\ pc = "poll"
  /\ Polled = <<>>
  /\ IF MoreCores THEN core' = core + 1 /\ UNCHANGED <<pc, chip>>
     ELSE /\ core' = 0
          /\ IF chip < NUM_CHIPS - 1 THEN chip' = chip + 1 /\ UNCHANGED pc
             ELSE chip' = 0 /\ pc' = "flush"
  /\ UNCHANGED <<spin_emu_routes, mc_queue, mc_pending, up, down>>

PendingKept == UNCHANGED mc_pending
PendingCleared == mc_pending' = FALSE

FlushBegin ==
  /\ pc = "flush"
  /\ mc_pending
  /\ PendingCleared
  /\ pc' = "route"
  /\ chip' = 0
  /\ UNCHANGED <<spin_emu_routes, mc_queue, up, down, core>>

FlushEnd ==
  /\ pc = "flush"
  /\ ~mc_pending
  /\ pc' = "poll"
  /\ chip' = 0
  /\ UNCHANGED <<spin_emu_routes, mc_queue, mc_pending, up, down, core>>

\* The entries of chip c that match key k; the one of least index counts.
Matching(c, k) == {i \in Indices : k \in spin_emu_routes[c][i].keys}
First(S) == CHOOSE i \in S : \A j \in S : i <= j
RouteOf(c, k) ==
  IF Matching(c, k) = {} THEN Unset
  ELSE spin_emu_routes[c][First(Matching(c, k))]

LinkTargets(c, k) ==
  {channel_targets(c, l) : l \in RouteOf(c, k).links} \ {-1}

\* The packet leaves its queue only after it has been copied to the others.
route_mc ==
  LET p == Head(mc_queue[chip])
      T == LinkTargets(chip, p.key)
  IN  /\ pc = "route"
      /\ mc_queue[chip] # <<>>
      /\ mc_queue' = [c \in Chips |->
           IF c = chip THEN Tail(mc_queue[c])
           ELSE IF c \in T THEN queue_mc(mc_queue[c], p)
           ELSE mc_queue[c]]
      /\ mc_pending' = (mc_pending \/ \E t \in T : Accepts(mc_queue[t]))
      /\ down' = [down EXCEPT ![chip] =
           [i \in Cores |-> IF i \in RouteOf(chip, p.key).cores
                            THEN spin_emu_send_mc(@[i], p) ELSE @[i]]]
      /\ UNCHANGED <<spin_emu_routes, up, pc, chip, core>>

PendingClearedAfter ==
  mc_pending' = (mc_pending /\ chip < NUM_CHIPS - 1)
PendingAfterWalk == UNCHANGED mc_pending

RouteNext ==
  /\ pc = "route"
  /\ mc_queue[chip] = <<>>
  /\ IF chip < NUM_CHIPS - 1 THEN chip' = chip + 1 /\ UNCHANGED pc
     ELSE chip' = 0 /\ pc' = "flush"
  /\ PendingAfterWalk
  /\ UNCHANGED <<spin_emu_routes, mc_queue, up, down, core>>

Dispatcher ==
  \/ dispatch_mc \/ store_route \/ PollNext
  \/ FlushBegin \/ FlushEnd
  \/ route_mc \/ RouteNext

-----------------------------------------------------------------------------
(* The cores.                                                              *)

SendMc(c, i, p) ==
  /\ up' = [up EXCEPT ![c][i] = spin_emu_send_mc(@, p)]
  /\ UNCHANGED <<spin_emu_routes, dispatcher, down>>

\* send without MSG_DONTWAIT: the core waits for room.
spin_emu_send_route(c, i, index, r) ==
  /\ Len(up[c][i]) < SOCKET_SIZE
  /\ up' = [up EXCEPT ![c][i] =
       Append(@, [type |-> "route", index |-> index, entry |-> r])]
  /\ UNCHANGED <<spin_emu_routes, dispatcher, down>>

spin1_send_mc_packet(c, i, k) ==
  /\ sends > 0
  /\ sends' = sends - 1
  /\ SendMc(c, i, [type |-> "mc", key |-> k, chip |-> c, core |-> i,
                   n |-> sends])

spin1_set_mc_table_entry(c, i, a) ==
  /\ sends > 0
  /\ sends' = sends - 1
  /\ a.entry < APP_MC_ENTRIES
  /\ spin_emu_send_route(c, i, a.entry + SYS_MC_ENTRIES, a.route)

read_packets(c, i) ==
  /\ down[c][i] # <<>>
  /\ down' = [down EXCEPT ![c][i] = Tail(@)]
  /\ UNCHANGED <<spin_emu_routes, dispatcher, up>>

Core(c, i) ==
  \/ /\ <<c, i>> \in Senders
     /\ \/ \E k \in Keys : spin1_send_mc_packet(c, i, k)
        \/ \E a \in AppEntries[c] : spin1_set_mc_table_entry(c, i, a)
  \/ read_packets(c, i) /\ UNCHANGED sends

Next ==
  \/ Dispatcher /\ UNCHANGED sends
  \/ \E c \in Chips, i \in Cores : Core(c, i)

Spec == Init /\ [][Next]_vars

-----------------------------------------------------------------------------
(* Properties.                                                             *)

TypeOK ==
  /\ spin_emu_routes \in [Chips -> [Indices -> Routes]]
  /\ mc_queue \in [Chips -> Seq(McPackets)]
  /\ mc_pending \in BOOLEAN
  /\ up \in [Chips -> [Cores -> Seq(McPackets \cup RoutePackets)]]
  /\ down \in [Chips -> [Cores -> Seq(McPackets)]]
  /\ pc \in {"poll", "flush", "route"}
  /\ chip \in Chips
  /\ core \in Cores
  /\ sends \in Nat

\* mc_pending is cleared before the queues are walked and set by every packet
\* queued, the ones queued on a chip already walked included: when
\* flush_mc_queues returns, nothing is left on any chip.
FlushLeavesNothing ==
  pc = "flush" /\ ~mc_pending => \A c \in Chips : mc_queue[c] = <<>>

\* Where no chip's table sends a packet back to where it has been, the only
\* tables the runs have, flush_mc_queues returns and the dispatcher comes back
\* to its sockets.  Nothing ages a packet: a cycle would hold it there.
FlushEnds == pc # "poll" ~> pc = "poll"
=============================================================================
