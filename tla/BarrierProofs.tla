---------------------------- MODULE BarrierProofs ----------------------------
(***************************************************************************)
(* Proofs about Barrier, for every board, every map of the application     *)
(* cores, every table size, and any number of starts of the cores.         *)
(***************************************************************************)
EXTENDS Barrier, McRouterProofs, TopologyProofs, FiniteSetTheorems

-----------------------------------------------------------------------------
(* Constants.                                                              *)

LEMMA SmallSet ==
  ASSUME NEW a, NEW b, NEW c
  PROVE  Cardinality({a, b, c}) \in 0 .. 3
<1>1. IsFiniteSet({a}) /\ Cardinality({a}) = 1
  BY FS_Singleton
<1>2. /\ IsFiniteSet({a} \cup {b})
      /\ Cardinality({a} \cup {b}) \in 1 .. 2
  BY <1>1, FS_AddElement
<1>3. Cardinality(({a} \cup {b}) \cup {c}) \in 0 .. 3
  BY <1>2, FS_AddElement
<1>4. ({a} \cup {b}) \cup {c} = {a, b, c}
  OBVIOUS
<1> QED
  BY <1>3, <1>4

LEMMA KeysApart ==
  /\ RDYGO # RDY1 /\ RDYGO # RDY2 /\ RDYGO # GO
  /\ RDY1 # RDY2 /\ RDY1 # GO /\ RDY2 # GO
<1> SUFFICES ASSUME \/ RDYGO = RDY1 \/ RDYGO = RDY2 \/ RDYGO = GO
                    \/ RDY1 = RDY2 \/ RDY1 = GO \/ RDY2 = GO
             PROVE  FALSE
  OBVIOUS
<1>1. \E a, b, c : BarrierKeys = {a, b, c}
  <2>1. CASE RDYGO \in {RDY1, RDY2, GO}
    <3>1. BarrierKeys = {RDY1, RDY2, GO}
      BY <2>1 DEF BarrierKeys
    <3> QED
      BY <3>1
  <2>2. CASE RDY1 \in {RDY2, GO}
    <3>1. BarrierKeys = {RDYGO, RDY2, GO}
      BY <2>2 DEF BarrierKeys
    <3> QED
      BY <3>1
  <2>3. CASE RDY2 = GO
    <3>1. BarrierKeys = {RDYGO, RDY1, RDY2}
      BY <2>3 DEF BarrierKeys
    <3> QED
      BY <3>1
  <2> QED
    BY <2>1, <2>2, <2>3
<1>2. Cardinality(BarrierKeys) \in 0 .. 3
  BY <1>1, SmallSet
<1> QED
  BY <1>2, BarrierAssumption

LEMMA AppCoreType ==
  ASSUME NEW a \in AppCores
  PROVE  a[1] \in Chips /\ a[2] \in Cores /\ a = <<a[1], a[2]>>
         /\ a[2] \in core_map[a[1]] /\ a[2] # 0
  BY BarrierAssumption DEF AppCores

LEMMA BarrierConstants ==
  /\ BarrierKeys \subseteq Keys
  /\ {0, 1, 2, 3} \subseteq Indices
  /\ \A c \in Chips : core_map[c] \subseteq Cores \ {0}
  BY BarrierAssumption, RouterAssumption DEF Indices

\* The tables' entries that the barrier installs.
LEMMA RouteTypes ==
  ASSUME NEW c \in Chips, NEW i \in Cores
  PROVE  /\ To(RDY1, {}, {i}) \in Routes
         /\ rdygo_route(c) \in Routes
         /\ rdy2_route(c, i) \in Routes
         /\ go_route(c) \in Routes
<1>1. off_route(c) \subseteq Links
  BY DEF off_route, Links, NUM_LINKS, NORTH, EAST, NORTH_EAST
<1>2. p2p_get(c) \in Links
  BY DEF p2p_get, Links, NUM_LINKS, SOUTH_WEST, WEST, SOUTH, EAST
<1>3. ASSUME NEW k \in BarrierKeys, NEW ls \in SUBSET Links,
             NEW cs \in SUBSET Cores
      PROVE  To(k, ls, cs) \in Routes
  BY BarrierConstants DEF To, Routes
<1>4. RDYGO \in BarrierKeys /\ RDY1 \in BarrierKeys /\ RDY2 \in BarrierKeys
      /\ GO \in BarrierKeys
  BY DEF BarrierKeys
<1>5. To(RDY1, {}, {i}) \in Routes
  BY <1>3, <1>4
<1>6. rdygo_route(c) \in Routes
  <2>1. To(RDYGO, off_route(c), {}) \in Routes
    BY <1>1, <1>3, <1>4
  <2>2. ASSUME NEW b
        PROVE  To(RDYGO, off_route(c) \cup (Links \cap {b}),
                  Cores \cap {b - NUM_LINKS}) \in Routes
    BY <1>1, <1>3, <1>4
  <2> QED
    BY <2>1, <2>2 DEF rdygo_route
<1>7. rdy2_route(c, i) \in Routes
  <2>1. To(RDY2, {}, {i}) \in Routes /\ To(RDY2, {p2p_get(c)}, {}) \in Routes
    BY <1>2, <1>3, <1>4
  <2> QED
    BY <2>1 DEF rdy2_route
<1>8. go_route(c) \in Routes
  <2>1. core_map[c] \subseteq Cores
    BY BarrierConstants
  <2> QED
    BY <1>1, <1>3, <1>4, <2>1 DEF go_route
<1> QED
  BY <1>5, <1>6, <1>7, <1>8

-----------------------------------------------------------------------------
(* Types.                                                                  *)

LEMMA StoreType ==
  ASSUME TypeOK, NEW a \in AppCores, NEW index \in Indices, NEW r \in Routes,
         StoreRoute(a, index, r), UNCHANGED sends
  PROVE  TypeOK'
<1> DEFINE p == [type |-> "route", index |-> index, entry |-> r]
<1>1. up' = [up EXCEPT ![a[1]][a[2]] = Append(@, p)]
  BY DEF StoreRoute, spin_emu_send_route
<1>2. p \in Packets
  BY DEF Packets, RoutePackets
<1> HIDE DEF p
<1>3. up' \in [Chips -> [Cores -> Seq(Packets)]]
  <2>1. Append(up[a[1]][a[2]], p) \in Seq(Packets)
    BY <1>2, AppCoreType DEF TypeOK, Packets
  <2> QED
    BY <1>1, <2>1, AppCoreType DEF TypeOK, Packets
<1> QED
  BY <1>3 DEF StoreRoute, spin_emu_send_route, dispatcher, TypeOK, Packets

Message(a, k) == [type |-> "mc", key |-> k, chip |-> a[1], core |-> a[2],
                  n |-> 0]

LEMMA MessageType ==
  ASSUME NEW a \in AppCores, NEW k \in BarrierKeys
  PROVE  Message(a, k) \in McPackets
  BY AppCoreType, BarrierConstants DEF Message, McPackets

LEMMA SendType ==
  ASSUME TypeOK, NEW a \in AppCores, NEW k \in BarrierKeys, Send(a, k),
         UNCHANGED sends
  PROVE  TypeOK'
<1> DEFINE p == Message(a, k)
<1>1. up' = [up EXCEPT ![a[1]][a[2]] = spin_emu_send_mc(@, p)]
  BY DEF Send, SendMc, Message
<1>2. p \in Packets
  BY MessageType DEF Packets
<1> HIDE DEF p
<1>3. up' \in [Chips -> [Cores -> Seq(Packets)]]
  <2>1. spin_emu_send_mc(up[a[1]][a[2]], p) \in Seq(Packets)
    BY <1>2, SendMcType, AppCoreType DEF TypeOK, Packets
  <2> QED
    BY <1>1, <2>1, AppCoreType DEF TypeOK, Packets
<1> QED
  BY <1>3 DEF Send, SendMc, dispatcher, TypeOK, Packets

\* What a step of a worker does to the router: nothing, or it sends an entry
\* or a packet of the barrier.
Installs(a) ==
  \E index \in Indices :
    \E r \in {To(RDY1, {}, {a[2]}), rdygo_route(a[1]),
              rdy2_route(a[1], a[2]), go_route(a[1])} :
      /\ place[a] \in {"rdy1Route", "rdygoRoute", "rdy2Route", "goRoute"}
      /\ StoreRoute(a, index, r)

Sends(a) ==
  \E k \in BarrierKeys :
    /\ Send(a, k)
    /\ k = RDY1 => SendRdy1(a)
    /\ k = RDY2 => SendRdy2(a)
    /\ k = GO => SendGo(a)

LEMMA WorkerOnRouter ==
  ASSUME NEW a \in AppCores, Worker(a)
  PROVE  UNCHANGED routerVars \/ Installs(a) \/ Sends(a)
<1> USE BarrierConstants
<1>1. CASE SendRdy1Route(a)
  BY <1>1 DEF SendRdy1Route, Installs, Moves
<1>2. CASE BarrierSetup(a)
  BY <1>2 DEF BarrierSetup, Installs, Moves
<1>3. CASE \/ SendRdygo(a) \/ ResendRdygo(a) \/ SendGo(a) \/ SendRdy2(a)
           \/ SendRdy1(a)
  <2>1. {RDYGO, RDY1, RDY2, GO} \subseteq BarrierKeys
    BY DEF BarrierKeys
  <2>2. CASE SendRdygo(a) \/ ResendRdygo(a)
    <3>1. Send(a, RDYGO)
      BY <2>2 DEF SendRdygo, ResendRdygo
    <3> QED
      BY <2>1, <3>1, KeysApart DEF Sends
  <2>3. CASE SendGo(a)
    <3>1. Send(a, GO)
      BY <2>3 DEF SendGo
    <3> QED
      BY <2>1, <2>3, <3>1, KeysApart DEF Sends
  <2>4. CASE SendRdy2(a)
    <3>1. Send(a, RDY2)
      BY <2>4 DEF SendRdy2
    <3> QED
      BY <2>1, <2>4, <3>1, KeysApart DEF Sends
  <2>5. CASE SendRdy1(a)
    <3>1. Send(a, RDY1)
      BY <2>5 DEF SendRdy1
    <3> QED
      BY <2>1, <2>5, <3>1, KeysApart DEF Sends
  <2> QED
    BY <1>3, <2>2, <2>3, <2>4, <2>5
<1>4. CASE \/ TryLock(a) \/ InitCounts(a) \/ LetGo(a) \/ WaitRouter(a)
           \/ SetCoreMap(a) \/ BarrierEnter(a) \/ Go(a) \/ GiveUp(a)
  BY <1>4 DEF TryLock, InitCounts, LetGo, WaitRouter, SetCoreMap,
              BarrierEnter, Go, GiveUp
<1> QED
  BY <1>1, <1>2, <1>3, <1>4 DEF Worker, Advance

LEMMA WorkerType ==
  ASSUME TypeOK, NEW a \in AppCores, Worker(a)
  PROVE  TypeOK'
<1>1. UNCHANGED sends
  BY DEF Worker
<1>2. CASE UNCHANGED routerVars
  BY <1>1, <1>2 DEF routerVars, dispatcher, TypeOK
<1>3. CASE Installs(a)
  <2>1. PICK index \in Indices, r \in Routes : StoreRoute(a, index, r)
    BY <1>3, RouteTypes, AppCoreType DEF Installs
  <2> QED
    BY <1>1, <2>1, StoreType
<1>4. CASE Sends(a)
  BY <1>1, <1>4, SendType DEF Sends
<1> QED
  BY <1>2, <1>3, <1>4, WorkerOnRouter

LEMMA SetEntryType ==
  ASSUME TypeOK, NEW a \in AppCores, SetEntry(a)
  PROVE  TypeOK'
<1>1. PICK e \in AppEntries[a[1]] :
        /\ e.entry < APP_MC_ENTRIES
        /\ StoreRoute(a, e.entry + SYS_MC_ENTRIES, e.route)
  BY DEF SetEntry
<1>2. e.route \in Routes /\ e.entry + SYS_MC_ENTRIES \in Indices
  BY <1>1, RouterAssumption, AppCoreType
  DEF SYS_MC_ENTRIES, APP_MC_ENTRIES, Indices
<1> DEFINE p == [type |-> "route", index |-> e.entry + SYS_MC_ENTRIES,
                 entry |-> e.route]
<1>3. up' = [up EXCEPT ![a[1]][a[2]] = Append(@, p)]
  BY <1>1 DEF StoreRoute, spin_emu_send_route
<1>4. p \in Packets
  BY <1>2 DEF Packets, RoutePackets
<1> HIDE DEF p
<1>5. up' \in [Chips -> [Cores -> Seq(Packets)]]
  <2>1. Append(up[a[1]][a[2]], p) \in Seq(Packets)
    BY <1>4, AppCoreType DEF TypeOK, Packets
  <2> QED
    BY <1>3, <2>1, AppCoreType DEF TypeOK, Packets
<1>6. sends' \in Nat
  BY DEF SetEntry, TypeOK
<1> QED
  BY <1>1, <1>5, <1>6 DEF StoreRoute, spin_emu_send_route, dispatcher,
                          TypeOK, Packets

LEMMA ReadType ==
  ASSUME TypeOK, NEW a \in Chips \X Cores, read_packets(a[1], a[2]),
         UNCHANGED sends
  PROVE  TypeOK'
<1>1. a[1] \in Chips /\ a[2] \in Cores
  OBVIOUS
<1>2. Core(a[1], a[2])
  BY DEF Core
<1> QED
  BY <1>1, <1>2, CoreType

BarrierVarsType ==
  /\ place \in [AppCores -> Places]
  /\ lockedBy \in [Chips -> Cores \cup {-1}]
  /\ rootAp \in [AppCores -> BOOLEAN]
  /\ launches \in [AppCores -> 1 .. MaxLaunches]
  /\ svLock \in [Chips -> CLEAR_LCK .. RDYGO_LCK]
  /\ barrier_rdy1_cnt \in [AppCores -> Nat]
  /\ barrier_rdy2_cnt \in [AppCores -> Nat]
  /\ barrier_rdygo \in [AppCores -> BOOLEAN]
  /\ barrier_go \in [AppCores -> BOOLEAN]

LEMMA WorkerVarsType ==
  ASSUME BarrierVarsType, NEW a \in AppCores, Worker(a)
  PROVE  BarrierVarsType'
<1> USE AppCoreType
    DEF BarrierVarsType, locks, counts, flags, Places, Waits, Moves,
        CLEAR_LCK, RTR_INIT_LCK, RDYGO_LCK
<1>1. CASE TryLock(a)
  BY <1>1 DEF TryLock
<1>2. CASE SendRdy1Route(a) \/ BarrierSetup(a)
  BY <1>2 DEF SendRdy1Route, BarrierSetup
<1>3. CASE InitCounts(a)
  BY <1>3 DEF InitCounts
<1>4. CASE LetGo(a)
  BY <1>4 DEF LetGo
<1>5. CASE WaitRouter(a) \/ SetCoreMap(a) \/ Go(a) \/ GiveUp(a)
  <2>1. CASE WaitRouter(a)
    BY <2>1 DEF WaitRouter
  <2>2. CASE SetCoreMap(a)
    <3>1. PICK p \in {"rdygoRoute", "spin1_start"} :
            place' = [place EXCEPT ![a] = p]
      BY <2>2 DEF SetCoreMap
    <3> QED
      BY <2>2, <3>1 DEF SetCoreMap
  <2>3. CASE Go(a)
    BY <2>3 DEF Go
  <2>4. CASE GiveUp(a)
    BY <2>4 DEF GiveUp
  <2> QED
    BY <1>5, <2>1, <2>2, <2>3, <2>4
<1>6. CASE BarrierEnter(a)
  <2>1. PICK p \in {"sendRdygo", "waitReady", "waitLock"} :
          place' = [place EXCEPT ![a] = p]
    BY <1>6 DEF BarrierEnter
  <2>2. svLock' \in [Chips -> CLEAR_LCK .. RDYGO_LCK]
    BY <1>6 DEF BarrierEnter
  <2> QED
    BY <1>6, <2>1, <2>2 DEF BarrierEnter
<1>7. CASE \/ SendRdygo(a) \/ SendGo(a) \/ SendRdy2(a) \/ SendRdy1(a)
  BY <1>7 DEF SendRdygo, SendGo, SendRdy2, SendRdy1
<1>8. CASE ResendRdygo(a)
  BY <1>8 DEF ResendRdygo, barrierVars
<1> QED
  BY <1>1, <1>2, <1>3, <1>4, <1>5, <1>6, <1>7, <1>8 DEF Worker, Advance

LEMMA ReadVarsType ==
  ASSUME BarrierVarsType, NEW a \in Chips \X Cores, read_mc(a)
  PROVE  BarrierVarsType'
<1>1. ASSUME NEW f \in [AppCores -> Nat], NEW b
      PROVE  Plus(f, a, b) \in [AppCores -> Nat]
  BY DEF Plus
<1>2. ASSUME NEW f \in [AppCores -> BOOLEAN], NEW b
      PROVE  Raised(f, a, b) \in [AppCores -> BOOLEAN]
  BY DEF Raised
<1> DEFINE k == Head(down[a[1]][a[2]]).key
<1>3. /\ barrier_rdy1_cnt' = Plus(barrier_rdy1_cnt, a, k = RDY1)
      /\ barrier_rdy2_cnt' = Plus(barrier_rdy2_cnt, a, k = RDY2)
      /\ barrier_rdygo' = Raised(barrier_rdygo, a, k = RDYGO)
      /\ barrier_go' = Raised(barrier_go, a, k = GO)
      /\ UNCHANGED <<place, locks, svLock>>
  BY DEF read_mc
<1> HIDE DEF k
<1> QED
  BY <1>1, <1>2, <1>3 DEF BarrierVarsType, locks

LEMMA RelaunchVarsType ==
  ASSUME BarrierVarsType, NEW a \in AppCores, cmd_as(a)
  PROVE  BarrierVarsType'
<1>1. launches[a] + 1 \in 1 .. MaxLaunches
  BY BarrierAssumption DEF BarrierVarsType, cmd_as
<1> QED
  BY <1>1 DEF BarrierVarsType, cmd_as, LockKept, Places

LEMMA BarrierInitType == BarrierInit => BarrierTypeOK
<1> SUFFICES ASSUME BarrierInit PROVE BarrierTypeOK
  OBVIOUS
<1>1. TypeOK
  <2>1. MaxSends \in Nat /\ Tables \subseteq [Chips -> [Indices -> Routes]]
    BY RouterAssumption
  <2> QED
    BY <2>1, InitType DEF BarrierInit, Init
<1>2. BarrierVarsType
  BY BarrierAssumption
  DEF BarrierInit, BarrierVarsType, Places, CLEAR_LCK, RDYGO_LCK
<1> QED
  BY <1>1, <1>2 DEF BarrierTypeOK, BarrierVarsType

LEMMA BarrierNextType ==
  BarrierTypeOK /\ [BarrierNext]_<<vars, barrierVars>> => BarrierTypeOK'
<1> SUFFICES ASSUME BarrierTypeOK, [BarrierNext]_<<vars, barrierVars>>
             PROVE  TypeOK' /\ BarrierVarsType'
  BY DEF BarrierTypeOK, BarrierVarsType
<1>0. TypeOK /\ BarrierVarsType
  BY DEF BarrierTypeOK, BarrierVarsType
<1>1. CASE Dispatcher /\ UNCHANGED <<sends, barrierVars>>
  <2>1. TypeOK'
    BY <1>0, <1>1, DispatcherType
  <2> QED
    BY <1>0, <1>1, <2>1 DEF BarrierVarsType, barrierVars, counts, flags
<1>2. ASSUME NEW a \in AppCores, Worker(a)
      PROVE  TypeOK' /\ BarrierVarsType'
  BY <1>0, <1>2, WorkerType, WorkerVarsType
<1>3. ASSUME NEW a \in AppCores, SetEntry(a)
      PROVE  TypeOK' /\ BarrierVarsType'
  <2>1. UNCHANGED barrierVars
    BY <1>3 DEF SetEntry
  <2> QED
    BY <1>0, <1>3, <2>1, SetEntryType
    DEF BarrierVarsType, barrierVars, counts, flags
<1>4. ASSUME NEW a \in AppCores, cmd_as(a)
      PROVE  TypeOK' /\ BarrierVarsType'
  <2>1. TypeOK'
    BY <1>0, <1>4 DEF cmd_as, routerVars, dispatcher, TypeOK
  <2> QED
    BY <1>0, <1>4, <2>1, RelaunchVarsType
<1>5. ASSUME NEW a \in Chips \X Cores, read_mc(a)
      PROVE  TypeOK' /\ BarrierVarsType'
  <2>1. TypeOK'
    BY <1>0, <1>5, ReadType DEF read_mc
  <2> QED
    BY <1>0, <1>5, <2>1, ReadVarsType
<1>6. CASE UNCHANGED <<vars, barrierVars>>
  BY <1>0, <1>6 DEF vars, routerVars, dispatcher, TypeOK, BarrierVarsType,
                    barrierVars, counts, flags
<1> QED
  BY <1>1, <1>2, <1>3, <1>4, <1>5, <1>6 DEF BarrierNext

\* Every variable of the barrier and of the router below it keeps its type:
\* the workers (barrier_wait, barrier_setup of spin_emu_api.c) only send table
\* entries that fit the table, and the counters count up from 0.
THEOREM BarrierTypeCorrect == BarrierSpec => []BarrierTypeOK
  BY BarrierInitType, BarrierNextType, PTL DEF BarrierSpec

-----------------------------------------------------------------------------
(* The lock and the root cores.                                            *)

RootPlaces ==
  {"rdy1Route", "counts", "letGo", "rdygoRoute", "rdy2Route", "goRoute",
   "sendRdygo", "waitReady"}

\* What the place p of core a, the number l of its starts and its rootAp r
\* say of each other and of the holder h of its chip's lock.
Control(a, p, l, r, h) ==
  /\ p # "start" \/ l > 1 => h # -1
  /\ r => h = a[2] /\ l = 1
  /\ h = a[2] /\ l = 1 => r
  /\ p \in RootPlaces => r
  /\ p \in {"start", "waitRouter", "waitLock"} => ~r
  /\ p = "sendRdygo" => a[1] = RootChip

\* The lock is never given back: only the first start can have a root core.
\* No core is started again before every one has started.
ControlInv ==
  /\ \A a \in AppCores :
       Control(a, place[a], launches[a], rootAp[a], lockedBy[a[1]])
  /\ \A c \in Chips : lockedBy[c] # -1 => lockedBy[c] \in core_map[c]
  /\ (\A a \in AppCores : launches[a] = 1) \/ (\A a \in AppCores : StartedOnce(a))

LEMMA ControlInit == BarrierInit => ControlInv
  BY AppCoreType DEF BarrierInit, ControlInv, Control, RootPlaces, Cores

LEMMA TryLockControl ==
  ASSUME BarrierTypeOK, ControlInv, NEW a \in AppCores, TryLock(a)
  PROVE  ControlInv'
<1> USE DEF BarrierTypeOK
<1>1. /\ place[a] = "start" /\ place' = [place EXCEPT ![a] = place'[a]]
      /\ launches' = launches
      /\ a[1] \in Chips /\ a[2] \in Cores /\ a[2] \in core_map[a[1]]
  BY AppCoreType DEF TryLock, Moves
<1>2. CASE LockFree(a)
  <2>1. /\ lockedBy[a[1]] = -1
        /\ lockedBy' = [lockedBy EXCEPT ![a[1]] = a[2]]
        /\ rootAp' = [rootAp EXCEPT ![a] = TRUE]
        /\ place' = [place EXCEPT ![a] = "rdy1Route"]
    BY <1>2 DEF TryLock, LockFree, Moves
  <2>2. ASSUME NEW b \in AppCores
        PROVE  Control(b, place'[b], launches'[b], rootAp'[b], lockedBy'[b[1]])
    <3>1. Control(b, place[b], launches[b], rootAp[b], lockedBy[b[1]])
      BY DEF ControlInv
    <3>2. b[1] \in Chips /\ b = <<b[1], b[2]>> /\ a = <<a[1], a[2]>>
      BY AppCoreType
    <3>3. CASE b = a
      <4>1. launches[a] = 1
        BY <2>1, <3>1, <3>3 DEF Control
      <4> QED
        BY <1>1, <2>1, <3>3, <4>1 DEF Control, RootPlaces, Cores
    <3>4. CASE b # a /\ b[1] = a[1]
      <4>1. place'[b] = place[b] /\ rootAp'[b] = rootAp[b]
            /\ lockedBy'[b[1]] = a[2] /\ b[2] # a[2] /\ a[2] # -1
        BY <1>1, <2>1, <3>2, <3>4 DEF Cores
      <4>2. ~rootAp[b]
        BY <2>1, <3>1, <3>4, AppCoreType DEF Control, Cores
      <4> QED
        BY <1>1, <3>1, <4>1, <4>2 DEF Control
    <3>5. CASE b[1] # a[1]
      BY <1>1, <2>1, <3>1, <3>2, <3>5
    <3> QED
      BY <3>3, <3>4, <3>5
  <2>3. ASSUME NEW c \in Chips, lockedBy'[c] # -1
        PROVE  lockedBy'[c] \in core_map[c]
    BY <1>1, <2>1, <2>3 DEF ControlInv
  <2>4. \/ \A b \in AppCores : launches'[b] = 1
        \/ \A b \in AppCores : StartedOnce(b)'
    BY <1>1, <2>1 DEF ControlInv, StartedOnce
  <2> QED
    BY <2>2, <2>3, <2>4 DEF ControlInv
<1>3. CASE ~LockFree(a)
  <2>1. /\ lockedBy[a[1]] # -1
        /\ UNCHANGED <<lockedBy, rootAp>>
        /\ place' = [place EXCEPT ![a] = "waitRouter"]
    BY <1>3 DEF TryLock, LockFree, Moves
  <2>2. ASSUME NEW b \in AppCores
        PROVE  Control(b, place'[b], launches'[b], rootAp'[b], lockedBy'[b[1]])
    <3>1. Control(b, place[b], launches[b], rootAp[b], lockedBy[b[1]])
      BY DEF ControlInv
    <3> QED
      BY <1>1, <2>1, <3>1 DEF Control, RootPlaces
  <2> QED
    BY <1>1, <2>1, <2>2 DEF ControlInv, StartedOnce
<1> QED
  BY <1>2, <1>3

\* A step of a worker that is past the lock.
LEMMA MoveControl ==
  ASSUME BarrierTypeOK, ControlInv, NEW a \in AppCores, Worker(a), ~TryLock(a)
  PROVE  ControlInv' /\ UNCHANGED locks
<1> DEFINE C(p) == Control(a, p, launches[a], rootAp[a], lockedBy[a[1]])
<1>1. C(place[a])
  BY DEF ControlInv
<1>2. /\ UNCHANGED locks
      /\ \E p : place' = [place EXCEPT ![a] = p]
      /\ place'[a] # "start" /\ C(place'[a])
      /\ place[a] = "running" => place'[a] = "running"
  <2> USE DEF BarrierTypeOK, Moves, Control, RootPlaces
  <2>1. CASE SendRdy1Route(a)
    BY <1>1, <2>1 DEF SendRdy1Route
  <2>2. CASE BarrierSetup(a)
    BY <1>1, <2>2 DEF BarrierSetup
  <2>3. CASE InitCounts(a) \/ LetGo(a)
    BY <1>1, <2>3 DEF InitCounts, LetGo
  <2>4. CASE WaitRouter(a)
    BY <1>1, <2>4 DEF WaitRouter
  <2>5. CASE SetCoreMap(a)
    BY <1>1, <2>5 DEF SetCoreMap
  <2>6. CASE BarrierEnter(a)
    BY <1>1, <2>6, Zenon DEF BarrierEnter, locks
  <2>7. CASE SendRdygo(a) \/ SendGo(a) \/ SendRdy2(a) \/ SendRdy1(a)
    BY <1>1, <2>7 DEF SendRdygo, SendGo, SendRdy2, SendRdy1
  <2>8. CASE Go(a) \/ GiveUp(a)
    BY <1>1, <2>8 DEF Go, GiveUp
  <2>9. CASE ResendRdygo(a)
    BY <1>1, <2>9 DEF ResendRdygo, ResendDue, barrierVars, locks
  <2> QED
    BY <2>1, <2>2, <2>3, <2>4, <2>5, <2>6, <2>7, <2>8, <2>9 DEF Worker, Advance
<1>3. PICK p : place' = [place EXCEPT ![a] = p]
  BY <1>2
<1>4. ASSUME NEW b \in AppCores
      PROVE  Control(b, place'[b], launches'[b], rootAp'[b], lockedBy'[b[1]])
  <2>1. CASE b = a
    BY <1>2, <2>1 DEF locks
  <2>2. CASE b # a
    <3>1. place'[b] = place[b]
      BY <1>3, <2>2 DEF BarrierTypeOK
    <3> QED
      BY <1>2, <3>1 DEF locks, ControlInv
  <2> QED
    BY <2>1, <2>2
<1>5. \/ \A b \in AppCores : launches'[b] = 1
      \/ \A b \in AppCores : StartedOnce(b)'
  BY <1>2, <1>3 DEF ControlInv, locks, StartedOnce, BarrierTypeOK
<1> QED
  BY <1>2, <1>4, <1>5 DEF ControlInv, locks

LEMMA RelaunchControl ==
  ASSUME BarrierTypeOK, ControlInv, NEW a \in AppCores, cmd_as(a)
  PROVE  ControlInv'
<1>1. /\ \A b \in AppCores : StartedOnce(b)
      /\ launches' = [launches EXCEPT ![a] = @ + 1]
      /\ place' = [place EXCEPT ![a] = "start"]
      /\ rootAp' = [rootAp EXCEPT ![a] = FALSE]
      /\ lockedBy' = lockedBy
  BY DEF cmd_as, LockKept
<1>2. launches[a] \in Nat /\ launches[a] >= 1
  BY DEF BarrierTypeOK
<1>3. ASSUME NEW b \in AppCores
      PROVE  Control(b, place'[b], launches'[b], rootAp'[b], lockedBy'[b[1]])
  <2>1. Control(b, place[b], launches[b], rootAp[b], lockedBy[b[1]])
    BY DEF ControlInv
  <2>2. CASE b = a
    <3>1. place'[a] = "start" /\ launches'[a] > 1 /\ ~rootAp'[a]
          /\ launches'[a] # 1
      BY <1>1, <1>2 DEF BarrierTypeOK
    <3>2. lockedBy[a[1]] # -1
      BY <1>1, <2>1, <2>2 DEF StartedOnce, Control
    <3> QED
      BY <1>1, <2>2, <3>1, <3>2 DEF Control, RootPlaces
  <2>3. CASE b # a
    BY <1>1, <2>1, <2>3 DEF BarrierTypeOK
  <2> QED
    BY <2>2, <2>3
<1>4. ASSUME NEW b \in AppCores PROVE StartedOnce(b)'
  BY <1>1, <1>2 DEF StartedOnce, BarrierTypeOK
<1> QED
  BY <1>1, <1>3, <1>4 DEF ControlInv

LEMMA ControlNext ==
  BarrierTypeOK /\ ControlInv /\ [BarrierNext]_<<vars, barrierVars>>
  => ControlInv'
<1> SUFFICES ASSUME BarrierTypeOK, ControlInv,
                    [BarrierNext]_<<vars, barrierVars>>
             PROVE  ControlInv'
  OBVIOUS
<1>1. CASE UNCHANGED <<place, locks>>
  BY <1>1 DEF ControlInv, StartedOnce, locks
<1>2. ASSUME NEW a \in AppCores, Worker(a) PROVE ControlInv'
  BY <1>2, TryLockControl, MoveControl
<1>3. ASSUME NEW a \in AppCores, cmd_as(a) PROVE ControlInv'
  BY <1>3, RelaunchControl
<1>4. ASSUME NEW a \in AppCores, SetEntry(a) PROVE ControlInv'
  BY <1>1, <1>4 DEF SetEntry, barrierVars, locks
<1>5. ASSUME NEW a \in Chips \X Cores, read_mc(a) PROVE ControlInv'
  BY <1>1, <1>5 DEF read_mc
<1> QED
  BY <1>1, <1>2, <1>3, <1>4, <1>5 DEF BarrierNext, barrierVars, locks

LEMMA Controlled == BarrierSpec => [](BarrierTypeOK /\ ControlInv)
  BY ControlInit, ControlNext, BarrierTypeCorrect, PTL DEF BarrierSpec

-----------------------------------------------------------------------------
(* The routes of the reports.                                              *)

\* The application's keys are not the ones of the barrier's reports, and the
\* tables begin without them (cmd_p2pc leaves every entry unset).
ApplicationKeysApart ==
  /\ \A c \in Chips : \A e \in AppEntries[c] :
       e.route.keys \cap {RDY1, RDY2} = {}
  /\ \A t \in Tables : \A c \in Chips, i \in Indices :
       t[c][i].keys \cap {RDY1, RDY2} = {}

\* Entry e of chip c sends reports only to the core h that holds the lock, or
\* towards chip (0,0).
RouteSound(c, e, h) ==
  /\ RDY1 \in e.keys => h # -1 /\ e = To(RDY1, {}, {h})
  /\ RDY2 \in e.keys => h # -1 /\ e = rdy2_route(c, h)

SentSound(c, s, h) ==
  \A n \in DOMAIN s : s[n].type = "route" => RouteSound(c, s[n].entry, h)

RoutesInv ==
  \A c \in Chips :
    /\ \A i \in Indices : RouteSound(c, spin_emu_routes[c][i], lockedBy[c])
    /\ \A i \in Cores : SentSound(c, up[c][i], lockedBy[c])

LEMMA SentSoundAppend ==
  ASSUME NEW S, NEW c, NEW s \in Seq(S), NEW p \in S, NEW h,
         SentSound(c, s, h),
         p.type = "route" => RouteSound(c, p.entry, h)
  PROVE  SentSound(c, Append(s, p), h)
<1> SUFFICES ASSUME NEW n \in DOMAIN Append(s, p),
                    Append(s, p)[n].type = "route"
             PROVE  RouteSound(c, Append(s, p)[n].entry, h)
  BY DEF SentSound
<1>1. CASE n = Len(s) + 1
  BY <1>1
<1>2. CASE n # Len(s) + 1
  <2>1. n \in DOMAIN s /\ Append(s, p)[n] = s[n]
    BY <1>2
  <2> QED
    BY <2>1 DEF SentSound
<1> QED
  BY <1>1, <1>2

LEMMA SentSoundTail ==
  ASSUME NEW S, NEW c, NEW s \in Seq(S), s # <<>>, NEW h, SentSound(c, s, h)
  PROVE  SentSound(c, Tail(s), h)
<1> SUFFICES ASSUME NEW n \in DOMAIN Tail(s)
             PROVE  n + 1 \in DOMAIN s /\ Tail(s)[n] = s[n + 1]
  BY DEF SentSound
<1> QED
  OBVIOUS

\* The lock of a chip is taken once.
LEMMA LockStable ==
  ASSUME BarrierTypeOK, ControlInv, [BarrierNext]_<<vars, barrierVars>>,
         NEW c \in Chips
  PROVE  lockedBy[c] = -1 \/ lockedBy'[c] = lockedBy[c]
<1>1. ASSUME NEW a \in AppCores, TryLock(a)
      PROVE  lockedBy[c] = -1 \/ lockedBy'[c] = lockedBy[c]
  BY <1>1, AppCoreType DEF TryLock, LockFree, BarrierTypeOK
<1>2. ASSUME NEW a \in AppCores, Worker(a), ~TryLock(a)
      PROVE  lockedBy'[c] = lockedBy[c]
  BY <1>2, MoveControl DEF locks
<1>3. ASSUME NEW a \in AppCores, cmd_as(a) PROVE lockedBy'[c] = lockedBy[c]
  BY <1>3 DEF cmd_as, LockKept
<1>4. ASSUME NEW a \in AppCores, SetEntry(a) PROVE lockedBy'[c] = lockedBy[c]
  BY <1>4 DEF SetEntry, barrierVars
<1>5. ASSUME NEW a \in Chips \X Cores, read_mc(a)
      PROVE  lockedBy'[c] = lockedBy[c]
  BY <1>5 DEF read_mc, locks
<1> QED
  BY <1>1, <1>2, <1>3, <1>4, <1>5 DEF BarrierNext, barrierVars

\* The tables and the sockets stay sound when the lock is taken.
LEMMA RoutesStay ==
  ASSUME RoutesInv, NEW c \in Chips, NEW h,
         lockedBy[c] = -1 \/ h = lockedBy[c]
  PROVE  /\ \A i \in Indices : RouteSound(c, spin_emu_routes[c][i], h)
         /\ \A i \in Cores : SentSound(c, up[c][i], h)
<1>1. ASSUME NEW e, RouteSound(c, e, lockedBy[c]) PROVE RouteSound(c, e, h)
  BY <1>1 DEF RouteSound
<1>2. \A i \in Indices : RouteSound(c, spin_emu_routes[c][i], h)
  BY <1>1 DEF RoutesInv
<1>3. ASSUME NEW i \in Cores PROVE SentSound(c, up[c][i], h)
  <2>1. SentSound(c, up[c][i], lockedBy[c])
    BY DEF RoutesInv
  <2> QED
    BY <1>1, <2>1 DEF SentSound
<1> QED
  BY <1>2, <1>3

\* The sockets when one of them changes.
LEMMA OneSocket ==
  ASSUME NEW S, NEW u \in [Chips -> [Cores -> S]], NEW v,
         NEW d \in Chips, NEW j \in Cores, NEW s,
         v = [u EXCEPT ![d][j] = s],
         NEW c \in Chips, NEW i \in Cores
  PROVE  v[c][i] = IF c = d /\ i = j THEN s ELSE u[c][i]
  OBVIOUS

\* A core sends one entry or packet more.
LEMMA SendSound ==
  ASSUME BarrierTypeOK, ControlInv, RoutesInv,
         [BarrierNext]_<<vars, barrierVars>>, UNCHANGED spin_emu_routes,
         NEW a \in AppCores, NEW p \in Packets,
         \/ UNCHANGED up
         \/ up' = [up EXCEPT ![a[1]][a[2]] = Append(@, p)],
         p.type = "route" => RouteSound(a[1], p.entry, lockedBy'[a[1]])
  PROVE  RoutesInv'
<1> SUFFICES ASSUME NEW c \in Chips
             PROVE  /\ \A i \in Indices :
                         RouteSound(c, spin_emu_routes[c][i], lockedBy'[c])
                    /\ \A i \in Cores : SentSound(c, up'[c][i], lockedBy'[c])
  BY DEF RoutesInv
<1>1. /\ \A i \in Indices : RouteSound(c, spin_emu_routes[c][i], lockedBy'[c])
      /\ \A i \in Cores : SentSound(c, up[c][i], lockedBy'[c])
  BY RoutesStay, LockStable
<1>2. ASSUME NEW i \in Cores PROVE SentSound(c, up'[c][i], lockedBy'[c])
  <2>0. up \in [Chips -> [Cores -> Seq(Packets)]]
    BY DEF BarrierTypeOK, TypeOK, Packets
  <2>1. CASE up'[c][i] = up[c][i]
    BY <1>1, <2>1
  <2>2. CASE up'[c][i] # up[c][i]
    <3>1. c = a[1] /\ i = a[2] /\ up'[c][i] = Append(up[c][i], p)
      <4> DEFINE s == Append(up[a[1]][a[2]], p)
      <4>1. up' = [up EXCEPT ![a[1]][a[2]] = s]
        BY <2>2
      <4>2. a[1] \in Chips /\ a[2] \in Cores
        BY AppCoreType
      <4> HIDE DEF s
      <4>3. up'[c][i] = IF c = a[1] /\ i = a[2] THEN s ELSE up[c][i]
        BY <2>0, <4>1, <4>2, OneSocket
      <4> QED
        BY <2>2, <4>3 DEF s
    <3>2. up[c][i] \in Seq(Packets)
      BY <2>0
    <3> QED
      BY <1>1, <3>1, <3>2, SentSoundAppend
  <2> QED
    BY <2>1, <2>2
<1> QED
  BY <1>1, <1>2

LEMMA WorkerRoutes ==
  ASSUME BarrierTypeOK, ControlInv, RoutesInv, NEW a \in AppCores, Worker(a)
  PROVE  RoutesInv'
<1>0. BarrierNext
  BY DEF BarrierNext
<1>1. a[1] \in Chips /\ a[2] \in Cores
  BY AppCoreType
<1>2. CASE UNCHANGED routerVars
  <2>1. ASSUME NEW c \in Chips
        PROVE  /\ \A i \in Indices :
                    RouteSound(c, spin_emu_routes[c][i], lockedBy'[c])
               /\ \A i \in Cores : SentSound(c, up[c][i], lockedBy'[c])
    BY <1>0, RoutesStay, LockStable
  <2> QED
    BY <1>2, <2>1 DEF routerVars, RoutesInv
<1>3. CASE Installs(a)
  <2>1. PICK index \in Indices,
             r \in {To(RDY1, {}, {a[2]}), rdygo_route(a[1]),
                    rdy2_route(a[1], a[2]), go_route(a[1])} :
          /\ place[a] \in {"rdy1Route", "rdygoRoute", "rdy2Route", "goRoute"}
          /\ StoreRoute(a, index, r)
    BY <1>3 DEF Installs
  <2>2. lockedBy[a[1]] = a[2] /\ a[2] # -1
    BY <1>1, <2>1 DEF ControlInv, Control, RootPlaces, Cores
  <2>3. RouteSound(a[1], r, a[2])
    <3>1. /\ rdygo_route(a[1]).keys = {RDYGO}
          /\ go_route(a[1]).keys = {GO}
          /\ rdy2_route(a[1], a[2]).keys = {RDY2}
          /\ To(RDY1, {}, {a[2]}).keys = {RDY1}
      BY DEF rdygo_route, go_route, rdy2_route, To
    <3> QED
      BY <2>1, <2>2, <3>1, KeysApart DEF RouteSound
  <2>4. lockedBy'[a[1]] = a[2]
    BY <1>0, <1>1, <2>2, LockStable
  <2> DEFINE p == [type |-> "route", index |-> index, entry |-> r]
  <2>5. p \in Packets /\ p.entry = r
    BY <1>1, <2>1, RouteTypes DEF Packets, RoutePackets
  <2>6. /\ up' = [up EXCEPT ![a[1]][a[2]] = Append(@, p)]
        /\ UNCHANGED spin_emu_routes
    BY <2>1 DEF StoreRoute, spin_emu_send_route
  <2> HIDE DEF p
  <2> QED
    BY <1>0, <2>3, <2>4, <2>5, <2>6, SendSound
<1>4. CASE Sends(a)
  <2>1. PICK k \in BarrierKeys : Send(a, k)
    BY <1>4 DEF Sends
  <2>2. Message(a, k) \in Packets /\ Message(a, k).type # "route"
    BY MessageType DEF Packets, Message
  <2>3. /\ \/ UNCHANGED up
           \/ up' = [up EXCEPT ![a[1]][a[2]] = Append(@, Message(a, k))]
        /\ UNCHANGED spin_emu_routes
    <3>1. up' = [up EXCEPT ![a[1]][a[2]] =
                   spin_emu_send_mc(@, Message(a, k))]
          /\ UNCHANGED spin_emu_routes
      BY <2>1 DEF Send, SendMc, Message
    <3> QED
      BY <1>1, <3>1 DEF spin_emu_send_mc, BarrierTypeOK, TypeOK
  <2> QED
    BY <1>0, <2>2, <2>3, SendSound
<1> QED
  BY <1>2, <1>3, <1>4, WorkerOnRouter

LEMMA SetEntryRoutes ==
  ASSUME ApplicationKeysApart, BarrierTypeOK, ControlInv, RoutesInv,
         NEW a \in AppCores, SetEntry(a)
  PROVE  RoutesInv'
<1>0. BarrierNext
  BY DEF BarrierNext
<1>1. PICK e \in AppEntries[a[1]] :
        /\ e.entry < APP_MC_ENTRIES
        /\ StoreRoute(a, e.entry + SYS_MC_ENTRIES, e.route)
  BY DEF SetEntry
<1>2. e.route \in Routes /\ e.entry + SYS_MC_ENTRIES \in Indices
  BY <1>1, RouterAssumption, AppCoreType
  DEF SYS_MC_ENTRIES, APP_MC_ENTRIES, Indices
<1>3. RouteSound(a[1], e.route, lockedBy'[a[1]])
  BY AppCoreType DEF ApplicationKeysApart, RouteSound
<1> DEFINE p == [type |-> "route", index |-> e.entry + SYS_MC_ENTRIES,
                 entry |-> e.route]
<1>4. p \in Packets /\ p.entry = e.route
  BY <1>2 DEF Packets, RoutePackets
<1>5. /\ up' = [up EXCEPT ![a[1]][a[2]] = Append(@, p)]
      /\ UNCHANGED spin_emu_routes
  BY <1>1 DEF StoreRoute, spin_emu_send_route
<1> HIDE DEF p
<1> QED
  BY <1>0, <1>3, <1>4, <1>5, SendSound

LEMMA DispatcherRoutes ==
  ASSUME BarrierTypeOK, RoutesInv, Dispatcher, UNCHANGED lockedBy
  PROVE  RoutesInv'
<1>0. TypeOK
  BY DEF BarrierTypeOK
<1>1. CASE dispatch_mc \/ store_route
  <2>1. /\ Polled # <<>> /\ up' = [up EXCEPT ![chip][core] = Tail(@)]
        /\ chip \in Chips /\ core \in Cores /\ Polled \in Seq(Packets)
    BY <1>0, <1>1, PolledType DEF dispatch_mc, store_route, TypeOK
  <2>2. ASSUME NEW c \in Chips, NEW i \in Cores
        PROVE  SentSound(c, up'[c][i], lockedBy[c])
    <3>1. SentSound(c, up[c][i], lockedBy[c])
      BY DEF RoutesInv
    <3>2. CASE c = chip /\ i = core
      <4>1. up'[c][i] = Tail(Polled) /\ Polled = up[c][i]
        BY <1>0, <2>1, <3>2 DEF Polled, TypeOK
      <4> QED
        BY <2>1, <3>1, <4>1, SentSoundTail
    <3>3. CASE ~(c = chip /\ i = core)
      <4>1. up'[c][i] = up[c][i]
        BY <1>0, <2>1, <3>3 DEF TypeOK
      <4> QED
        BY <3>1, <4>1
    <3> QED
      BY <3>2, <3>3
  <2>3. ASSUME NEW c \in Chips, NEW i \in Indices
        PROVE  RouteSound(c, spin_emu_routes'[c][i], lockedBy[c])
    <3>1. RouteSound(c, spin_emu_routes[c][i], lockedBy[c])
      BY DEF RoutesInv
    <3>2. CASE dispatch_mc
      BY <3>1, <3>2 DEF dispatch_mc
    <3>3. CASE store_route
      <4> DEFINE p == Head(Polled)
      <4>1. /\ p.type = "route"
            /\ spin_emu_routes' =
                 [spin_emu_routes EXCEPT ![chip][p.index] = p.entry]
        BY <3>3 DEF store_route
      <4>2. RouteSound(chip, p.entry, lockedBy[chip])
        <5>1. SentSound(chip, Polled, lockedBy[chip])
          BY <2>1 DEF RoutesInv, Polled
        <5>2. 1 \in DOMAIN Polled /\ p = Polled[1]
          BY <2>1
        <5> QED
          BY <4>1, <5>1, <5>2 DEF SentSound
      <4> HIDE DEF p
      <4>3. \/ spin_emu_routes'[c][i] = spin_emu_routes[c][i]
            \/ c = chip /\ spin_emu_routes'[c][i] = p.entry
        BY <1>0, <4>1 DEF TypeOK
      <4> QED
        BY <3>1, <4>2, <4>3
    <3> QED
      BY <1>1, <3>2, <3>3
  <2> QED
    BY <2>2, <2>3 DEF RoutesInv
<1>2. CASE \/ PollNext \/ FlushBegin \/ FlushEnd \/ route_mc \/ RouteNext
  <2>1. UNCHANGED <<spin_emu_routes, up>>
    BY <1>2 DEF PollNext, FlushBegin, FlushEnd, route_mc, RouteNext
  <2> QED
    BY <2>1 DEF RoutesInv
<1> QED
  BY <1>1, <1>2 DEF Dispatcher

LEMMA RoutesNext ==
  ASSUME ApplicationKeysApart
  PROVE  BarrierTypeOK /\ ControlInv /\ RoutesInv
         /\ [BarrierNext]_<<vars, barrierVars>> => RoutesInv'
<1> SUFFICES ASSUME BarrierTypeOK, ControlInv, RoutesInv,
                    [BarrierNext]_<<vars, barrierVars>>
             PROVE  RoutesInv'
  OBVIOUS
<1>1. CASE UNCHANGED <<spin_emu_routes, up, lockedBy>>
  BY <1>1 DEF RoutesInv
<1>2. ASSUME NEW a \in AppCores, Worker(a) \/ SetEntry(a) \/ cmd_as(a)
      PROVE  RoutesInv'
  BY <1>1, <1>2, WorkerRoutes, SetEntryRoutes
  DEF cmd_as, routerVars, LockKept
<1>3. CASE Dispatcher /\ UNCHANGED <<sends, barrierVars>>
  BY <1>3, DispatcherRoutes DEF barrierVars
<1>4. ASSUME NEW a \in Chips \X Cores, read_mc(a) PROVE RoutesInv'
  BY <1>1, <1>4 DEF read_mc, read_packets, locks
<1> QED
  BY <1>1, <1>2, <1>3, <1>4
  DEF BarrierNext, barrierVars, vars, routerVars

LEMMA RoutesInit ==
  ASSUME ApplicationKeysApart
  PROVE  BarrierInit => RoutesInv
<1> SUFFICES ASSUME BarrierInit PROVE RoutesInv
  OBVIOUS
<1>1. ASSUME NEW c \in Chips, NEW i \in Indices
      PROVE  RouteSound(c, spin_emu_routes[c][i], lockedBy[c])
  BY DEF BarrierInit, RouterInit, ApplicationKeysApart, RouteSound
<1>2. ASSUME NEW c \in Chips, NEW i \in Cores
      PROVE  SentSound(c, up[c][i], lockedBy[c])
  BY DEF BarrierInit, RouterInit, SentSound
<1> QED
  BY <1>1, <1>2 DEF RoutesInv

\* The chip's lock file, sv->rootAp of each core and the RDY1 entry of the
\* routing table (rts_init) name one core of a chip, through any number of
\* starts, unless the application uses the keys of the reports itself.
THEOREM RootsAgree == ASSUME ApplicationKeysApart
                      PROVE  BarrierSpec => []RootStays
<1>1. BarrierInit => RoutesInv
  BY RoutesInit
<1>2. BarrierTypeOK /\ ControlInv /\ RoutesInv
      /\ [BarrierNext]_<<vars, barrierVars>> => RoutesInv'
  BY RoutesNext
<1>3. ControlInv /\ RoutesInv => RootStays
  <2> SUFFICES ASSUME ControlInv, RoutesInv, NEW c \in Chips
               PROVE  /\ spin_emu_routes[c][2].keys = {RDY1} =>
                           spin_emu_routes[c][2].cores = {lockedBy[c]}
                      /\ \A a \in AppCores : a[1] = c /\ rootAp[a] =>
                                               lockedBy[c] = a[2]
    BY DEF RootStays
  <2>1. ASSUME spin_emu_routes[c][2].keys = {RDY1}
        PROVE  spin_emu_routes[c][2].cores = {lockedBy[c]}
    <3>1. spin_emu_routes[c][2] = To(RDY1, {}, {lockedBy[c]})
      BY <2>1, BarrierConstants DEF RoutesInv, RouteSound
    <3> QED
      BY <3>1 DEF To
  <2> QED
    BY <2>1 DEF ControlInv, Control
<1> QED
  BY <1>1, <1>2, <1>3, Controlled, PTL DEF BarrierSpec

-----------------------------------------------------------------------------
(* Packets on their way: the sockets and queues as one family of boxes.    *)

Locations ==
  ({"up", "down"} \X Chips \X Cores) \cup ({"mc"} \X Chips \X {0})

Boxes ==
  [l \in Locations |-> IF l[1] = "up" THEN up[l[2]][l[3]]
                       ELSE IF l[1] = "down" THEN down[l[2]][l[3]]
                       ELSE mc_queue[l[2]]]

BoxTypes == [Locations -> Seq(Packets)]

\* x is in one box at most, and once; x is in none.
Single(x, B) ==
  \A l, m \in Locations : \A i \in DOMAIN B[l], j \in DOMAIN B[m] :
    B[l][i] = x /\ B[m][j] = x => l = m /\ i = j

Gone(x, B) == \A l \in Locations : \A i \in DOMAIN B[l] : B[l][i] # x

\* From B to D the first packet of box k leaves it and comes to some of the
\* boxes T.
Passes(B, D, k, T) ==
  /\ B[k] # <<>>
  /\ D[k] = Tail(B[k])
  /\ \A l \in Locations \ {k} :
       D[l] = B[l] \/ (l \in T /\ D[l] = Append(B[l], Head(B[k])))

\* From B to D packet x comes to box k, or is lost.
Gains(B, D, k, x) ==
  /\ D[k] = B[k] \/ D[k] = Append(B[k], x)
  /\ \A l \in Locations \ {k} : D[l] = B[l]

LEMMA PassOrigin ==
  ASSUME NEW B \in BoxTypes, NEW D \in BoxTypes, NEW k \in Locations, NEW T,
         Passes(B, D, k, T), NEW l \in Locations, NEW n \in DOMAIN D[l]
  PROVE  \/ l # k /\ n \in DOMAIN B[l] /\ D[l][n] = B[l][n]
         \/ l = k /\ n + 1 \in DOMAIN B[k] /\ D[l][n] = B[k][n + 1]
         \/ /\ l # k /\ l \in T /\ n = Len(B[l]) + 1
            /\ 1 \in DOMAIN B[k] /\ D[l][n] = B[k][1]
<1> DEFINE b == B[l]
           h == B[k]
<1>1. b \in Seq(Packets) /\ h \in Seq(Packets) /\ h # <<>>
  BY DEF BoxTypes, Passes
<1>2. CASE l = k
  <2>1. D[l] = Tail(h)
    BY <1>2 DEF Passes
  <2> HIDE DEF h, Packets
  <2>2. n \in DOMAIN Tail(h)
    BY <2>1
  <2>3. n + 1 \in DOMAIN h /\ Tail(h)[n] = h[n + 1]
    BY <1>1, <2>2
  <2> QED
    BY <1>2, <2>1, <2>3 DEF h
<1>3. CASE l # k /\ D[l] = B[l]
  BY <1>3
<1>4. CASE l # k /\ l \in T /\ D[l] = Append(B[l], Head(B[k]))
  <2>1. D[l] = Append(b, Head(h))
    BY <1>4
  <2> HIDE DEF b, h, Packets
  <2>2. Head(h) = h[1] /\ 1 \in DOMAIN h
    BY <1>1
  <2>3. n \in DOMAIN Append(b, Head(h))
    BY <2>1
  <2>4. \/ n \in DOMAIN b /\ Append(b, Head(h))[n] = b[n]
        \/ n = Len(b) + 1 /\ Append(b, Head(h))[n] = Head(h)
    BY <1>1, <2>3
  <2> QED
    BY <1>4, <2>1, <2>2, <2>4 DEF b, h
<1> QED
  BY <1>2, <1>3, <1>4 DEF Passes

LEMMA PassGone ==
  ASSUME NEW B \in BoxTypes, NEW D \in BoxTypes, NEW k \in Locations, NEW T,
         Passes(B, D, k, T), NEW x, Gone(x, B)
  PROVE  Gone(x, D)
<1> SUFFICES ASSUME NEW l \in Locations, NEW i \in DOMAIN D[l], D[l][i] = x
             PROVE  FALSE
  BY DEF Gone
<1>1. \/ l # k /\ i \in DOMAIN B[l] /\ D[l][i] = B[l][i]
      \/ l = k /\ i + 1 \in DOMAIN B[k] /\ D[l][i] = B[k][i + 1]
      \/ /\ l # k /\ l \in T /\ i = Len(B[l]) + 1
         /\ 1 \in DOMAIN B[k] /\ D[l][i] = B[k][1]
  BY PassOrigin
<1> QED
  BY <1>1 DEF Gone

LEMMA PassSingle ==
  ASSUME NEW B \in BoxTypes, NEW D \in BoxTypes, NEW k \in Locations, NEW T,
         Passes(B, D, k, T), NEW x, Single(x, B),
         x = B[k][1] => \A l, m \in T : l = m
  PROVE  Single(x, D)
<1> SUFFICES ASSUME NEW l \in Locations, NEW m \in Locations,
                    NEW i \in DOMAIN D[l], NEW j \in DOMAIN D[m],
                    D[l][i] = x, D[m][j] = x
             PROVE  l = m /\ i = j
  BY DEF Single
<1>1. i \in Nat \ {0} /\ j \in Nat \ {0}
  <2>1. D[l] \in Seq(Packets) /\ D[m] \in Seq(Packets)
    BY DEF BoxTypes
  <2> QED
    BY <2>1
<1>2. \/ l # k /\ i \in DOMAIN B[l] /\ B[l][i] = x
      \/ l = k /\ i + 1 \in DOMAIN B[k] /\ B[k][i + 1] = x
      \/ /\ l # k /\ l \in T /\ i = Len(B[l]) + 1
         /\ 1 \in DOMAIN B[k] /\ B[k][1] = x
  BY PassOrigin
<1>3. \/ m # k /\ j \in DOMAIN B[m] /\ B[m][j] = x
      \/ m = k /\ j + 1 \in DOMAIN B[k] /\ B[k][j + 1] = x
      \/ /\ m # k /\ m \in T /\ j = Len(B[m]) + 1
         /\ 1 \in DOMAIN B[k] /\ B[k][1] = x
  BY PassOrigin
<1>4. \A p, q \in Locations : \A u \in DOMAIN B[p], v \in DOMAIN B[q] :
        B[p][u] = x /\ B[q][v] = x => p = q /\ u = v
  BY DEF Single
<1> QED
  BY <1>1, <1>2, <1>3, <1>4

\* A packet that was in one box only and leaves it is in none.
LEMMA PassLast ==
  ASSUME NEW B \in BoxTypes, NEW D \in BoxTypes, NEW k \in Locations,
         Passes(B, D, k, {}), Single(B[k][1], B)
  PROVE  Gone(B[k][1], D)
<1> SUFFICES ASSUME NEW l \in Locations, NEW i \in DOMAIN D[l],
                    D[l][i] = B[k][1]
             PROVE  FALSE
  BY DEF Gone
<1>1. i \in Nat \ {0} /\ 1 \in DOMAIN B[k]
  <2>1. D[l] \in Seq(Packets) /\ B[k] \in Seq(Packets) /\ B[k] # <<>>
    BY DEF BoxTypes, Passes
  <2> QED
    BY <2>1
<1>2. \/ l # k /\ i \in DOMAIN B[l] /\ B[l][i] = B[k][1]
      \/ l = k /\ i + 1 \in DOMAIN B[k] /\ B[k][i + 1] = B[k][1]
  BY PassOrigin
<1>3. \A p, q \in Locations : \A u \in DOMAIN B[p], v \in DOMAIN B[q] :
        B[p][u] = B[k][1] /\ B[q][v] = B[k][1] => p = q /\ u = v
  BY DEF Single
<1> QED
  BY <1>1, <1>2, <1>3

LEMMA GainOrigin ==
  ASSUME NEW B \in BoxTypes, NEW D \in BoxTypes, NEW k \in Locations,
         NEW x \in Packets, Gains(B, D, k, x),
         NEW l \in Locations, NEW n \in DOMAIN D[l]
  PROVE  \/ n \in DOMAIN B[l] /\ D[l][n] = B[l][n]
         \/ l = k /\ n = Len(B[k]) + 1 /\ D[l][n] = x
<1> DEFINE b == B[l]
<1>1. b \in Seq(Packets)
  BY DEF BoxTypes
<1>2. CASE D[l] = B[l]
  BY <1>2
<1>3. CASE l = k /\ D[l] = Append(B[l], x)
  <2>1. D[l] = Append(b, x)
    BY <1>3
  <2> HIDE DEF b, Packets
  <2>2. n \in DOMAIN Append(b, x)
    BY <2>1
  <2>3. \/ n \in DOMAIN b /\ Append(b, x)[n] = b[n]
        \/ n = Len(b) + 1 /\ Append(b, x)[n] = x
    BY <1>1, <2>2
  <2> QED
    BY <1>3, <2>1, <2>3 DEF b
<1> QED
  BY <1>2, <1>3 DEF Gains

LEMMA GainGone ==
  ASSUME NEW B \in BoxTypes, NEW D \in BoxTypes, NEW k \in Locations,
         NEW y \in Packets, Gains(B, D, k, y), NEW x, x # y, Gone(x, B)
  PROVE  Gone(x, D)
<1> SUFFICES ASSUME NEW l \in Locations, NEW i \in DOMAIN D[l], D[l][i] = x
             PROVE  FALSE
  BY DEF Gone
<1>1. \/ i \in DOMAIN B[l] /\ D[l][i] = B[l][i]
      \/ l = k /\ i = Len(B[k]) + 1 /\ D[l][i] = y
  BY GainOrigin
<1> QED
  BY <1>1 DEF Gone

LEMMA GainSingle ==
  ASSUME NEW B \in BoxTypes, NEW D \in BoxTypes, NEW k \in Locations,
         NEW y \in Packets, Gains(B, D, k, y), NEW x, Single(x, B),
         x = y => Gone(x, B)
  PROVE  Single(x, D)
<1> SUFFICES ASSUME NEW l \in Locations, NEW m \in Locations,
                    NEW i \in DOMAIN D[l], NEW j \in DOMAIN D[m],
                    D[l][i] = x, D[m][j] = x
             PROVE  l = m /\ i = j
  BY DEF Single
<1>1. \/ i \in DOMAIN B[l] /\ B[l][i] = x
      \/ l = k /\ i = Len(B[k]) + 1 /\ x = y
  BY GainOrigin
<1>2. \/ j \in DOMAIN B[m] /\ B[m][j] = x
      \/ m = k /\ j = Len(B[k]) + 1 /\ x = y
  BY GainOrigin
<1>3. CASE x = y
  BY <1>1, <1>2, <1>3 DEF Gone
<1>4. CASE x # y
  BY <1>1, <1>2, <1>4 DEF Single
<1> QED
  BY <1>3, <1>4

\* The box at an end of a link, or at a core.
LEMMA BoxAt ==
  ASSUME NEW c \in Chips, NEW i \in Cores
  PROVE  /\ <<"up", c, i>> \in Locations /\ Boxes[<<"up", c, i>>] = up[c][i]
         /\ <<"down", c, i>> \in Locations
         /\ Boxes[<<"down", c, i>>] = down[c][i]
         /\ <<"mc", c, 0>> \in Locations /\ Boxes[<<"mc", c, 0>>] = mc_queue[c]
  BY DEF Locations, Boxes

LEMMA LocationCases ==
  ASSUME NEW l \in Locations
  PROVE  /\ l[2] \in Chips
         /\ l[1] = "up" => l[3] \in Cores /\ l = <<"up", l[2], l[3]>>
         /\ l[1] = "down" => l[3] \in Cores /\ l = <<"down", l[2], l[3]>>
         /\ l[1] = "mc" => l = <<"mc", l[2], 0>>
         /\ l[1] \in {"up", "down", "mc"}
  BY DEF Locations

\* The three families of boxes, one by one.
LEMMA BoxOf ==
  ASSUME NEW l \in Locations
  PROVE  /\ l[1] = "up" => Boxes[l] = up[l[2]][l[3]]
         /\ l[1] = "down" => Boxes[l] = down[l[2]][l[3]]
         /\ l[1] = "mc" => Boxes[l] = mc_queue[l[2]]
  BY DEF Boxes

LEMMA BoxesType == TypeOK => Boxes \in BoxTypes
<1> SUFFICES ASSUME TypeOK, NEW l \in Locations PROVE Boxes[l] \in Seq(Packets)
  BY DEF Boxes, BoxTypes
<1>1. /\ \A c \in Chips, i \in Cores :
           up[c][i] \in Seq(Packets) /\ down[c][i] \in Seq(Packets)
      /\ \A c \in Chips : mc_queue[c] \in Seq(Packets)
  BY DEF TypeOK, Packets
<1> HIDE DEF Packets
<1> QED
  BY <1>1, LocationCases, BoxOf

LEMMA ReadBoxes ==
  ASSUME TypeOK, NEW c \in Chips, NEW i \in Cores, read_packets(c, i)
  PROVE  Passes(Boxes, Boxes', <<"down", c, i>>, {})
<1> DEFINE k == <<"down", c, i>>
           s == Tail(down[c][i])
<1>1. /\ down[c][i] # <<>> /\ down' = [down EXCEPT ![c][i] = s]
      /\ UNCHANGED <<mc_queue, up>>
  BY DEF read_packets, dispatcher
<1>2. down \in [Chips -> [Cores -> Seq(McPackets)]]
  BY DEF TypeOK
<1>3. k \in Locations /\ Boxes[k] = down[c][i] /\ Boxes'[k] = s
  <2>1. Boxes'[k] = down'[c][i]
    BY BoxAt DEF Boxes
  <2> QED
    BY <1>1, <1>2, <2>1, BoxAt
<1>4. ASSUME NEW l \in Locations \ {k} PROVE Boxes'[l] = Boxes[l]
  <2> HIDE DEF s
  <2>1. CASE l[1] = "down"
    <3>1. ~(l[2] = c /\ l[3] = i)
      BY <2>1, LocationCases
    <3>2. down'[l[2]][l[3]] = down[l[2]][l[3]]
      BY <1>1, <1>2, <2>1, <3>1, LocationCases, OneSocket
    <3> QED
      BY <2>1, <3>2 DEF Boxes
  <2>2. CASE l[1] # "down"
    BY <1>1, <2>2 DEF Boxes
  <2> QED
    BY <2>1, <2>2
<1> QED
  BY <1>1, <1>3, <1>4 DEF Passes

\* A core sends packet x, which comes to its socket or is lost.
LEMMA SendBoxes ==
  ASSUME TypeOK, NEW c \in Chips, NEW i \in Cores, NEW x \in Packets,
         UNCHANGED <<mc_queue, down>>,
         \/ UNCHANGED up
         \/ up' = [up EXCEPT ![c][i] = Append(@, x)]
  PROVE  Gains(Boxes, Boxes', <<"up", c, i>>, x)
<1> DEFINE k == <<"up", c, i>>
           s == Append(up[c][i], x)
<1>1. CASE UNCHANGED up
  BY <1>1 DEF Boxes, Gains
<1>2. CASE up' = [up EXCEPT ![c][i] = s]
  <2>1. up \in [Chips -> [Cores -> Seq(Packets)]]
    BY DEF TypeOK, Packets
  <2>2. Boxes'[k] = Append(Boxes[k], x)
    <3>1. Boxes'[k] = up'[c][i]
      BY BoxAt DEF Boxes
    <3>2. up'[c][i] = s
      BY <1>2, <2>1
    <3> QED
      BY <3>1, <3>2, BoxAt
  <2>3. ASSUME NEW l \in Locations \ {k} PROVE Boxes'[l] = Boxes[l]
    <3> HIDE DEF s
    <3>1. CASE l[1] = "up"
      <4>1. ~(l[2] = c /\ l[3] = i)
        BY <3>1, LocationCases
      <4>2. up'[l[2]][l[3]] = up[l[2]][l[3]]
        BY <1>2, <2>1, <3>1, <4>1, LocationCases, OneSocket
      <4> QED
        BY <3>1, <4>2 DEF Boxes
    <3>2. CASE l[1] # "up"
      BY <3>2 DEF Boxes
    <3> QED
      BY <3>1, <3>2
  <2> QED
    BY <2>2, <2>3 DEF Gains
<1> QED
  BY <1>1, <1>2

\* What the dispatcher takes from a socket comes to the queue of the chip, or
\* is lost, or was a table entry.
LEMMA PollBoxes ==
  ASSUME TypeOK, dispatch_mc \/ store_route
  PROVE  Passes(Boxes, Boxes', <<"up", chip, core>>, {<<"mc", chip, 0>>})
<1> DEFINE k == <<"up", chip, core>>
           s == Tail(up[chip][core])
<1>0. chip \in Chips /\ core \in Cores
  BY DEF TypeOK
<1>1. /\ up[chip][core] # <<>> /\ up' = [up EXCEPT ![chip][core] = s]
      /\ UNCHANGED down
      /\ \/ UNCHANGED mc_queue
         \/ mc_queue' = [mc_queue EXCEPT ![chip] =
                           Append(@, Head(up[chip][core]))]
  <2>1. CASE dispatch_mc
    BY <1>0, <2>1 DEF dispatch_mc, Polled, queue_mc, TypeOK
  <2>2. CASE store_route
    BY <2>2 DEF store_route, Polled, dispatcher
  <2> QED
    BY <2>1, <2>2
<1>2. up \in [Chips -> [Cores -> Seq(Packets)]]
  BY DEF TypeOK, Packets
<1>3. Boxes[k] = up[chip][core] /\ Boxes'[k] = s
  <2>1. Boxes'[k] = up'[chip][core]
    BY <1>0, BoxAt DEF Boxes
  <2> QED
    BY <1>0, <1>1, <1>2, <2>1, BoxAt
<1>4. ASSUME NEW l \in Locations \ {k}
      PROVE  \/ Boxes'[l] = Boxes[l]
             \/ /\ l = <<"mc", chip, 0>>
                /\ Boxes'[l] = Append(Boxes[l], Head(up[chip][core]))
  <2> HIDE DEF s
  <2>1. CASE l[1] = "up"
    <3>1. ~(l[2] = chip /\ l[3] = core)
      BY <2>1, LocationCases
    <3>2. up'[l[2]][l[3]] = up[l[2]][l[3]]
      BY <1>0, <1>1, <1>2, <2>1, <3>1, LocationCases, OneSocket
    <3> QED
      BY <2>1, <3>2 DEF Boxes
  <2>2. CASE l[1] = "down"
    BY <1>1, <2>2 DEF Boxes
  <2>3. CASE l[1] = "mc"
    <3>1. l[2] \in Chips /\ l = <<"mc", l[2], 0>>
      BY <2>3, LocationCases
    <3>2. Boxes[l] = mc_queue[l[2]] /\ Boxes'[l] = mc_queue'[l[2]]
      BY <2>3 DEF Boxes
    <3> QED
      BY <1>0, <1>1, <3>1, <3>2 DEF TypeOK
  <2> QED
    BY <2>1, <2>2, <2>3, LocationCases
<1> QED
  BY <1>1, <1>3, <1>4 DEF Passes

\* What the dispatcher routes comes to the chips and the cores that the table
\* names, or is lost.
Copies(c, k) ==
  {<<"mc", t, 0>> : t \in LinkTargets(c, k)}
    \cup {<<"down", c, i>> : i \in RouteOf(c, k).cores}

LEMMA RouteBoxes ==
  ASSUME TypeOK, route_mc
  PROVE  /\ Passes(Boxes, Boxes', <<"mc", chip, 0>>,
                   Copies(chip, Head(mc_queue[chip]).key))
         /\ Head(mc_queue[chip]) \in McPackets
<1> DEFINE q == mc_queue[chip]
           p == Head(q)
           k == <<"mc", chip, 0>>
           T == LinkTargets(chip, p.key)
           R == RouteOf(chip, p.key).cores
<1>0. chip \in Chips /\ q \in Seq(McPackets) /\ q # <<>> /\ p \in McPackets
  BY DEF TypeOK, route_mc
<1>1. /\ mc_queue' = [c \in Chips |-> IF c = chip THEN Tail(mc_queue[c])
                                      ELSE IF c \in T THEN queue_mc(mc_queue[c], p)
                                      ELSE mc_queue[c]]
      /\ down' = [down EXCEPT ![chip] =
                    [i \in Cores |-> IF i \in R THEN spin_emu_send_mc(@[i], p)
                                     ELSE @[i]]]
      /\ UNCHANGED up
  BY DEF route_mc
<1> HIDE DEF T, R
<1>2. Boxes[k] = q /\ Boxes'[k] = Tail(q)
  <2>1. Boxes[k] = q /\ Boxes'[k] = mc_queue'[chip]
    BY <1>0, BoxAt, SomeCore DEF Boxes
  <2> QED
    BY <1>0, <1>1, <2>1
<1>3. ASSUME NEW l \in Locations \ {k}
      PROVE  \/ Boxes'[l] = Boxes[l]
             \/ /\ l \in Copies(chip, p.key)
                /\ Boxes'[l] = Append(Boxes[l], p)
  <2>1. CASE l[1] = "up"
    BY <1>1, <2>1 DEF Boxes
  <2>2. CASE l[1] = "down"
    <3>1. /\ l[2] \in Chips /\ l[3] \in Cores /\ l = <<"down", l[2], l[3]>>
          /\ Boxes[l] = down[l[2]][l[3]] /\ Boxes'[l] = down'[l[2]][l[3]]
      BY <2>2, LocationCases DEF Boxes
    <3>2. \/ down'[l[2]][l[3]] = down[l[2]][l[3]]
          \/ /\ l[2] = chip /\ l[3] \in R
             /\ down'[l[2]][l[3]] = Append(down[l[2]][l[3]], p)
      BY <1>0, <1>1, <3>1 DEF TypeOK, spin_emu_send_mc
    <3> QED
      BY <3>1, <3>2 DEF Copies, R
  <2>3. CASE l[1] = "mc"
    <3>1. /\ l[2] \in Chips /\ l = <<"mc", l[2], 0>>
          /\ Boxes[l] = mc_queue[l[2]] /\ Boxes'[l] = mc_queue'[l[2]]
      BY <2>3, LocationCases DEF Boxes
    <3>2. l[2] # chip
      BY <3>1
    <3>3. \/ mc_queue'[l[2]] = mc_queue[l[2]]
          \/ /\ l[2] \in T
             /\ mc_queue'[l[2]] = Append(mc_queue[l[2]], p)
      BY <1>1, <3>1, <3>2 DEF queue_mc
    <3> QED
      BY <3>1, <3>3 DEF Copies, T
  <2> QED
    BY <2>1, <2>2, <2>3, LocationCases
<1> QED
  BY <1>0, <1>2, <1>3 DEF Passes

-----------------------------------------------------------------------------
(* Where the reports are.                                                  *)

LEMMA LinkTargetsType ==
  ASSUME TypeOK, NEW c \in Chips, NEW k
  PROVE  /\ LinkTargets(c, k) \subseteq Chips \ {c}
         /\ RouteOf(c, k).cores \subseteq Cores
<1>1. RouteOf(c, k).links \subseteq Links /\ RouteOf(c, k).cores \subseteq Cores
  <2>1. CASE RouteOf(c, k) = Unset
    BY <2>1 DEF Unset
  <2>2. CASE RouteOf(c, k) # Unset
    <3>1. PICK i \in Indices : RouteOf(c, k) = spin_emu_routes[c][i]
      BY <2>2, RouteIsEntry
    <3>2. spin_emu_routes[c][i] \in Routes
      BY DEF TypeOK
    <3> QED
      BY <3>1, <3>2 DEF Routes
  <2> QED
    BY <2>1, <2>2
<1> QED
  BY <1>1, LinksPaired DEF LinkTargets

\* The copies of a report: RDY1 goes to the holder of the chip's lock, RDY2 to
\* one chip more or, on chip (0,0), to the holder of its lock.
LEMMA ReportRoutes ==
  ASSUME TypeOK, RoutesInv, NEW c \in Chips
  PROVE  /\ LinkTargets(c, RDY1) = {}
         /\ \A i \in RouteOf(c, RDY1).cores : i = lockedBy[c]
         /\ \A t, u \in LinkTargets(c, RDY2) : t = u
         /\ \A i \in RouteOf(c, RDY2).cores : c = RootChip /\ i = lockedBy[c]
         /\ c = RootChip => LinkTargets(c, RDY2) = {}
<1>1. ASSUME NEW k
      PROVE  \/ RouteOf(c, k) = Unset
             \/ RouteSound(c, RouteOf(c, k), lockedBy[c])
                /\ k \in RouteOf(c, k).keys
  BY RouteIsEntry DEF RoutesInv
<1>2. \/ RouteOf(c, RDY1) = Unset
      \/ RouteOf(c, RDY1) = To(RDY1, {}, {lockedBy[c]})
  BY <1>1 DEF RouteSound
<1>3. \/ RouteOf(c, RDY2) = Unset
      \/ RouteOf(c, RDY2) = rdy2_route(c, lockedBy[c])
  BY <1>1 DEF RouteSound
<1>4. /\ LinkTargets(c, RDY1) = {}
      /\ \A i \in RouteOf(c, RDY1).cores : i = lockedBy[c]
  BY <1>2 DEF LinkTargets, Unset, To
<1>5. /\ \A t, u \in LinkTargets(c, RDY2) : t = u
      /\ \A i \in RouteOf(c, RDY2).cores : c = RootChip /\ i = lockedBy[c]
      /\ c = RootChip => LinkTargets(c, RDY2) = {}
  BY <1>3 DEF LinkTargets, Unset, To, rdy2_route
<1> QED
  BY <1>4, <1>5

\* Packet p in box l, the holder of the lock of the box's chip being h.
ReportAt(l, p, h) ==
  p.type = "mc" /\ p.key \in {RDY1, RDY2} =>
    /\ \E a \in AppCores : p = Message(a, p.key)
    /\ p.key = RDY1 => p.chip = l[2]
    /\ l[1] = "down" => l[3] = h /\ (p.key = RDY2 => l[2] = RootChip)

ReportsInv ==
  \A l \in Locations : \A n \in DOMAIN Boxes[l] :
    ReportAt(l, Boxes[l][n], lockedBy[l[2]])

LEMMA ReportsStay ==
  ASSUME ReportsInv, NEW l \in Locations, NEW n \in DOMAIN Boxes[l],
         NEW h, lockedBy[l[2]] = -1 \/ h = lockedBy[l[2]]
  PROVE  ReportAt(l, Boxes[l][n], h)
<1>1. ReportAt(l, Boxes[l][n], lockedBy[l[2]])
  BY DEF ReportsInv
<1>2. l[1] = "down" => l[3] # -1
  BY LocationCases DEF Cores
<1> QED
  BY <1>1, <1>2 DEF ReportAt

LEMMA CopiesSound ==
  ASSUME TypeOK, RoutesInv, NEW c \in Chips, NEW p,
         ReportAt(<<"mc", c, 0>>, p, lockedBy[c]), p.type = "mc",
         NEW l \in Copies(c, p.key)
  PROVE  ReportAt(l, p, lockedBy[l[2]])
<1>1. CASE p.key \notin {RDY1, RDY2}
  BY <1>1 DEF ReportAt
<1>2. CASE p.key = RDY1
  <2>1. l = <<"down", c, lockedBy[c]>>
    BY <1>2, ReportRoutes DEF Copies
  <2> QED
    BY <1>2, <2>1, KeysApart DEF ReportAt
<1>3. CASE p.key = RDY2
  <2>1. \/ l[1] = "mc"
        \/ l = <<"down", c, lockedBy[c]>> /\ c = RootChip
    BY <1>3, ReportRoutes DEF Copies
  <2> QED
    BY <1>3, <2>1, KeysApart DEF ReportAt
<1> QED
  BY <1>1, <1>2, <1>3

LEMMA PassReports ==
  ASSUME TypeOK, TypeOK', ReportsInv, UNCHANGED lockedBy,
         NEW k \in Locations, NEW T, Passes(Boxes, Boxes', k, T),
         \A l \in T : ReportAt(l, Boxes[k][1], lockedBy[l[2]])
  PROVE  ReportsInv'
<1> SUFFICES ASSUME NEW l \in Locations, NEW n \in DOMAIN Boxes'[l]
             PROVE  ReportAt(l, Boxes'[l][n], lockedBy[l[2]])
  BY DEF ReportsInv
<1>1. Boxes \in BoxTypes /\ Boxes' \in BoxTypes
  <2>1. Boxes \in BoxTypes
    BY BoxesType
  <2>2. TypeOK' => (Boxes \in BoxTypes)'
    BY BoxesType, PTL
  <2> QED
    BY <2>1, <2>2
<1> DEFINE D == Boxes'
<1> HIDE DEF D
<1>2. \/ l # k /\ n \in DOMAIN Boxes[l] /\ D[l][n] = Boxes[l][n]
      \/ l = k /\ n + 1 \in DOMAIN Boxes[k] /\ D[l][n] = Boxes[k][n + 1]
      \/ /\ l # k /\ l \in T /\ n = Len(Boxes[l]) + 1
         /\ 1 \in DOMAIN Boxes[k] /\ D[l][n] = Boxes[k][1]
  BY <1>1, PassOrigin DEF D
<1> QED
  BY <1>2 DEF ReportsInv, D

LEMMA BoxesNextType ==
  ASSUME TypeOK, TypeOK'
  PROVE  Boxes \in BoxTypes /\ (Boxes \in BoxTypes)'
<1>1. Boxes \in BoxTypes
  BY BoxesType
<1>2. TypeOK' => (Boxes \in BoxTypes)'
  BY BoxesType, PTL
<1> QED
  BY <1>1, <1>2

LEMMA GainReports ==
  ASSUME BarrierTypeOK, BarrierTypeOK', ControlInv, ReportsInv,
         [BarrierNext]_<<vars, barrierVars>>,
         NEW a \in AppCores, NEW x \in Packets,
         Gains(Boxes, Boxes', <<"up", a[1], a[2]>>, x),
         x.type = "mc" => \E b \in AppCores, k \in BarrierKeys :
                            x = Message(b, k) /\ b = a
  PROVE  ReportsInv'
<1> DEFINE k == <<"up", a[1], a[2]>>
           D == Boxes'
<1>1. k \in Locations
  BY AppCoreType, BoxAt
<1>2. Boxes \in BoxTypes /\ D \in BoxTypes
  BY BoxesNextType DEF BarrierTypeOK
<1> SUFFICES ASSUME NEW l \in Locations, NEW n \in DOMAIN D[l]
             PROVE  ReportAt(l, D[l][n], lockedBy'[l[2]])
  BY DEF ReportsInv
<1> HIDE DEF D
<1>3. \/ n \in DOMAIN Boxes[l] /\ D[l][n] = Boxes[l][n]
      \/ l = k /\ n = Len(Boxes[k]) + 1 /\ D[l][n] = x
  BY <1>1, <1>2, GainOrigin DEF D
<1>4. ASSUME NEW m \in DOMAIN Boxes[l]
      PROVE  ReportAt(l, Boxes[l][m], lockedBy'[l[2]])
  BY LockStable, LocationCases, ReportsStay
<1>5. ReportAt(k, x, lockedBy'[k[2]])
  BY DEF ReportAt, Message
<1> QED
  BY <1>3, <1>4, <1>5

\* What a worker does to the boxes.
LEMMA WorkerBoxes ==
  ASSUME TypeOK, NEW a \in AppCores, Worker(a)
  PROVE  \/ UNCHANGED Boxes
         \/ \E x \in RoutePackets : Gains(Boxes, Boxes', <<"up", a[1], a[2]>>, x)
         \/ \E k \in BarrierKeys :
              /\ k = RDY1 => SendRdy1(a)
              /\ k = RDY2 => SendRdy2(a)
              /\ k = GO => SendGo(a)
              /\ Gains(Boxes, Boxes', <<"up", a[1], a[2]>>, Message(a, k))
<1>1. a[1] \in Chips /\ a[2] \in Cores
  BY AppCoreType
<1>2. CASE UNCHANGED routerVars
  BY <1>2 DEF routerVars, dispatcher, Boxes
<1>3. CASE Installs(a)
  <2>1. PICK index \in Indices, r \in Routes : StoreRoute(a, index, r)
    BY <1>1, <1>3, RouteTypes DEF Installs
  <2> DEFINE x == [type |-> "route", index |-> index, entry |-> r]
  <2>2. x \in RoutePackets
    BY DEF RoutePackets
  <2>3. /\ up' = [up EXCEPT ![a[1]][a[2]] = Append(@, x)]
        /\ UNCHANGED <<mc_queue, down>>
    BY <2>1 DEF StoreRoute, spin_emu_send_route, dispatcher
  <2> HIDE DEF x
  <2> QED
    BY <1>1, <2>2, <2>3, SendBoxes DEF Packets
<1>4. CASE Sends(a)
  <2>1. PICK k \in BarrierKeys :
          /\ Send(a, k)
          /\ k = RDY1 => SendRdy1(a)
          /\ k = RDY2 => SendRdy2(a)
          /\ k = GO => SendGo(a)
    BY <1>4 DEF Sends
  <2> DEFINE x == Message(a, k)
  <2>2. x \in Packets
    BY MessageType DEF Packets
  <2>3. /\ up' = [up EXCEPT ![a[1]][a[2]] = spin_emu_send_mc(@, x)]
        /\ UNCHANGED <<mc_queue, down>>
    BY <2>1 DEF Send, SendMc, Message, dispatcher
  <2> HIDE DEF x
  <2>4. UNCHANGED up \/ up' = [up EXCEPT ![a[1]][a[2]] = Append(@, x)]
    BY <1>1, <2>3 DEF spin_emu_send_mc, TypeOK
  <2>5. Gains(Boxes, Boxes', <<"up", a[1], a[2]>>, x)
    BY <1>1, <2>2, <2>3, <2>4, SendBoxes
  <2> QED
    BY <2>1, <2>5 DEF x
<1> QED
  BY <1>2, <1>3, <1>4, WorkerOnRouter

LEMMA SetEntryBoxes ==
  ASSUME TypeOK, NEW a \in AppCores, SetEntry(a)
  PROVE  \E x \in RoutePackets : Gains(Boxes, Boxes', <<"up", a[1], a[2]>>, x)
<1>0. a[1] \in Chips /\ a[2] \in Cores
  BY AppCoreType
<1>1. PICK e \in AppEntries[a[1]] :
        /\ e.entry < APP_MC_ENTRIES
        /\ StoreRoute(a, e.entry + SYS_MC_ENTRIES, e.route)
  BY DEF SetEntry
<1>2. e.route \in Routes /\ e.entry + SYS_MC_ENTRIES \in Indices
  BY <1>0, <1>1, RouterAssumption DEF SYS_MC_ENTRIES, APP_MC_ENTRIES, Indices
<1> DEFINE x == [type |-> "route", index |-> e.entry + SYS_MC_ENTRIES,
                 entry |-> e.route]
<1>3. x \in RoutePackets
  BY <1>2 DEF RoutePackets
<1>4. /\ up' = [up EXCEPT ![a[1]][a[2]] = Append(@, x)]
      /\ UNCHANGED <<mc_queue, down>>
  BY <1>1 DEF StoreRoute, spin_emu_send_route, dispatcher
<1> HIDE DEF x
<1> QED
  BY <1>0, <1>3, <1>4, SendBoxes DEF Packets

\* What the dispatcher does to the boxes.
LEMMA DispatcherBoxes ==
  ASSUME TypeOK, Dispatcher
  PROVE  \/ UNCHANGED Boxes
         \/ /\ dispatch_mc \/ store_route
            /\ Passes(Boxes, Boxes', <<"up", chip, core>>, {<<"mc", chip, 0>>})
         \/ /\ route_mc
            /\ Boxes[<<"mc", chip, 0>>][1] \in McPackets
            /\ Passes(Boxes, Boxes', <<"mc", chip, 0>>,
                      Copies(chip, Boxes[<<"mc", chip, 0>>][1].key))
<1>1. CASE PollNext \/ FlushBegin \/ FlushEnd \/ RouteNext
  BY <1>1 DEF PollNext, FlushBegin, FlushEnd, RouteNext, Boxes
<1>2. CASE dispatch_mc \/ store_route
  BY <1>2, PollBoxes
<1>3. CASE route_mc
  <2>1. Boxes[<<"mc", chip, 0>>] = mc_queue[chip]
    BY BoxAt, SomeCore DEF TypeOK
  <2>2. Head(mc_queue[chip]) = mc_queue[chip][1]
    BY DEF TypeOK
  <2> QED
    BY <1>3, <2>1, <2>2, RouteBoxes
<1> QED
  BY <1>1, <1>2, <1>3 DEF Dispatcher

LEMMA DispatcherReports ==
  ASSUME BarrierTypeOK, BarrierTypeOK', RoutesInv, ReportsInv, Dispatcher,
         UNCHANGED barrierVars
  PROVE  ReportsInv'
<1>0. TypeOK /\ TypeOK' /\ UNCHANGED lockedBy /\ chip \in Chips /\ core \in Cores
  BY DEF BarrierTypeOK, barrierVars, TypeOK
<1>1. CASE UNCHANGED Boxes
  BY <1>0, <1>1 DEF ReportsInv
<1>2. CASE Passes(Boxes, Boxes', <<"up", chip, core>>, {<<"mc", chip, 0>>})
  <2> DEFINE k == <<"up", chip, core>>
  <2>1. k \in Locations /\ 1 \in DOMAIN Boxes[k]
    <3>1. k \in Locations
      BY <1>0, BoxAt
    <3>2. Boxes[k] \in Seq(Packets) /\ Boxes[k] # <<>>
      BY <1>0, <1>2, <3>1, BoxesType DEF BoxTypes, Passes
    <3> QED
      BY <3>1, <3>2
  <2>2. ReportAt(k, Boxes[k][1], lockedBy[chip])
    BY <2>1 DEF ReportsInv
  <2>3. ReportAt(<<"mc", chip, 0>>, Boxes[k][1], lockedBy[chip])
    BY <2>2 DEF ReportAt
  <2> QED
    BY <1>0, <1>2, <2>1, <2>3, PassReports
<1>3. CASE /\ Boxes[<<"mc", chip, 0>>][1] \in McPackets
           /\ Passes(Boxes, Boxes', <<"mc", chip, 0>>,
                     Copies(chip, Boxes[<<"mc", chip, 0>>][1].key))
  <2> DEFINE k == <<"mc", chip, 0>>
             p == Boxes[k][1]
  <2>1. k \in Locations /\ 1 \in DOMAIN Boxes[k]
    <3>1. k \in Locations
      BY <1>0, BoxAt
    <3>2. Boxes[k] \in Seq(Packets) /\ Boxes[k] # <<>>
      BY <1>0, <1>3, <3>1, BoxesType DEF BoxTypes, Passes
    <3> QED
      BY <3>1, <3>2
  <2>2. ReportAt(k, p, lockedBy[chip])
    BY <2>1 DEF ReportsInv
  <2>3. p.type = "mc"
    BY <1>3 DEF McPackets
  <2>4. \A l \in Copies(chip, p.key) : ReportAt(l, p, lockedBy[l[2]])
    BY <1>0, <2>2, <2>3, CopiesSound
  <2> QED
    BY <1>0, <1>3, <2>1, <2>4, PassReports
<1> QED
  BY <1>0, <1>1, <1>2, <1>3, DispatcherBoxes

LEMMA ReportsNext ==
  BarrierTypeOK /\ BarrierTypeOK' /\ ControlInv /\ RoutesInv /\ ReportsInv
  /\ [BarrierNext]_<<vars, barrierVars>> => ReportsInv'
<1> SUFFICES ASSUME BarrierTypeOK, BarrierTypeOK', ControlInv, RoutesInv,
                    ReportsInv, [BarrierNext]_<<vars, barrierVars>>
             PROVE  ReportsInv'
  OBVIOUS
<1>0. TypeOK /\ TypeOK'
  BY DEF BarrierTypeOK
<1>1. CASE UNCHANGED Boxes
  <2> SUFFICES ASSUME NEW l \in Locations, NEW n \in DOMAIN Boxes[l]
               PROVE  ReportAt(l, Boxes[l][n], lockedBy'[l[2]])
    BY <1>1 DEF ReportsInv
  <2> QED
    BY LockStable, LocationCases, ReportsStay
<1>2. ASSUME NEW a \in AppCores, NEW x \in RoutePackets,
             Gains(Boxes, Boxes', <<"up", a[1], a[2]>>, x)
      PROVE  ReportsInv'
  <2>1. x \in Packets /\ x.type # "mc"
    BY DEF Packets, RoutePackets
  <2> QED
    BY <1>2, <2>1, GainReports
<1>3. ASSUME NEW a \in AppCores, Worker(a) PROVE ReportsInv'
  <2>1. ASSUME NEW k \in BarrierKeys,
               Gains(Boxes, Boxes', <<"up", a[1], a[2]>>, Message(a, k))
        PROVE  ReportsInv'
    <3>1. Message(a, k) \in Packets
      BY MessageType DEF Packets
    <3> QED
      BY <2>1, <3>1, GainReports
  <2> QED
    BY <1>0, <1>1, <1>2, <1>3, <2>1, WorkerBoxes
<1>4. ASSUME NEW a \in AppCores, SetEntry(a) PROVE ReportsInv'
  BY <1>0, <1>2, <1>4, SetEntryBoxes
<1>5. ASSUME NEW a \in AppCores, cmd_as(a) PROVE ReportsInv'
  BY <1>1, <1>5 DEF cmd_as, routerVars, dispatcher, Boxes
<1>6. CASE Dispatcher /\ UNCHANGED <<sends, barrierVars>>
  BY <1>6, DispatcherReports
<1>7. ASSUME NEW a \in Chips \X Cores, read_mc(a) PROVE ReportsInv'
  <2>1. UNCHANGED lockedBy
    BY <1>7 DEF read_mc, locks
  <2>2. Passes(Boxes, Boxes', <<"down", a[1], a[2]>>, {})
    BY <1>0, <1>7, ReadBoxes DEF read_mc
  <2>3. <<"down", a[1], a[2]>> \in Locations
    BY BoxAt
  <2> QED
    BY <1>0, <2>1, <2>2, <2>3, PassReports
<1>8. CASE UNCHANGED <<vars, barrierVars>>
  BY <1>1, <1>8 DEF vars, routerVars, dispatcher, Boxes
<1> QED
  BY <1>3, <1>4, <1>5, <1>6, <1>7, <1>8 DEF BarrierNext

LEMMA EmptyBoxes ==
  ASSUME BarrierInit, NEW l \in Locations
  PROVE  Boxes[l] = <<>>
  BY LocationCases, BoxOf DEF BarrierInit, RouterInit

LEMMA ReportsInit == BarrierInit => ReportsInv
  BY EmptyBoxes DEF ReportsInv

\* The state of the reports, at every moment.
LEMMA Reported ==
  ASSUME ApplicationKeysApart
  PROVE  BarrierSpec => [](BarrierTypeOK /\ ControlInv /\ RoutesInv /\ ReportsInv)
<1>1. BarrierInit => RoutesInv
  BY RoutesInit
<1>2. BarrierTypeOK /\ ControlInv /\ RoutesInv
      /\ [BarrierNext]_<<vars, barrierVars>> => RoutesInv'
  BY RoutesNext
<1> QED
  BY <1>1, <1>2, Controlled, ReportsInit, ReportsNext, PTL DEF BarrierSpec

-----------------------------------------------------------------------------
(* The reports that were made, are on their way or were counted, as long   *)
(* as every core has been started once only.                               *)

FirstStart == \A a \in AppCores : launches[a] = 1

\* A worker that has reported goes on waiting or runs.
LEMMA WorkerStays ==
  ASSUME BarrierTypeOK, ControlInv, NEW a \in AppCores, Worker(a),
         NEW b \in AppCores
  PROVE  /\ launches' = launches
         /\ b # a => place'[b] = place[b] /\ rootAp'[b] = rootAp[b]
         /\ place[b] \in {"waitGo", "running"} =>
              /\ place'[b] \in {"waitGo", "running"}
              /\ rootAp'[b] = rootAp[b]
<1> USE DEF BarrierTypeOK, Moves
<1>1. CASE TryLock(a)
  <2>1. /\ place[a] = "start" /\ launches' = launches
        /\ \E p : place' = [place EXCEPT ![a] = p]
        /\ \/ rootAp' = rootAp
           \/ rootAp' = [rootAp EXCEPT ![a] = TRUE]
    BY <1>1 DEF TryLock
  <2> QED
    BY <2>1
<1>2. CASE ~TryLock(a)
  <2>1. launches' = launches /\ rootAp' = rootAp
    BY <1>2, MoveControl DEF locks
  <2>2. /\ \E p : place' = [place EXCEPT ![a] = p]
        /\ place[a] \in {"waitGo", "running"} =>
             place'[a] \in {"waitGo", "running"}
    <3>1. CASE SendRdy1Route(a) \/ BarrierSetup(a) \/ InitCounts(a) \/ LetGo(a)
      BY <3>1 DEF SendRdy1Route, BarrierSetup, InitCounts, LetGo
    <3>2. CASE WaitRouter(a) \/ SetCoreMap(a)
      BY <3>2 DEF WaitRouter, SetCoreMap
    <3>3. CASE BarrierEnter(a)
      BY <3>3 DEF BarrierEnter
    <3>4. CASE SendRdygo(a) \/ SendGo(a) \/ SendRdy2(a) \/ SendRdy1(a)
      BY <3>4 DEF SendRdygo, SendGo, SendRdy2, SendRdy1
    <3>5. CASE Go(a) \/ GiveUp(a)
      BY <3>5 DEF Go, GiveUp
    <3>6. CASE ResendRdygo(a)
      BY <3>6 DEF ResendRdygo, ResendDue, barrierVars
    <3> QED
      BY <1>2, <3>1, <3>2, <3>3, <3>4, <3>5, <3>6 DEF Worker, Advance
  <2> QED
    BY <2>1, <2>2
<1> QED
  BY <1>1, <1>2

\* A core that has come to the barrier has come to it for good.
LEMMA AtGoStays ==
  ASSUME BarrierTypeOK, ControlInv, [BarrierNext]_<<vars, barrierVars>>
  PROVE  /\ AtGo \subseteq AtGo'
         /\ FirstStart' =>
              /\ FirstStart
              /\ \A a \in AtGo : rootAp'[a] = rootAp[a]
<1> SUFFICES ASSUME NEW b \in AppCores
             PROVE  /\ launches[b] > 1 => launches'[b] > 1
                    /\ place[b] \in {"waitGo", "running"} =>
                         \/ launches'[b] > 1
                         \/ place'[b] \in {"waitGo", "running"}
                    /\ launches'[b] = 1 =>
                         /\ launches[b] = 1
                         /\ place[b] \in {"waitGo", "running"} =>
                              rootAp'[b] = rootAp[b]
  <2> QED
    BY DEF AtGo, FirstStart, BarrierTypeOK
<1>0. launches[b] \in Nat /\ launches[b] >= 1
  BY DEF BarrierTypeOK
<1>1. CASE UNCHANGED <<place, locks>>
  BY <1>0, <1>1 DEF locks
<1>2. ASSUME NEW a \in AppCores, Worker(a)
      PROVE  /\ launches'[b] = launches[b]
             /\ place[b] \in {"waitGo", "running"} =>
                  /\ place'[b] \in {"waitGo", "running"}
                  /\ rootAp'[b] = rootAp[b]
  BY <1>2, WorkerStays
<1>3. ASSUME NEW a \in AppCores, cmd_as(a)
      PROVE  /\ b = a => launches'[b] = launches[b] + 1
             /\ b # a => /\ launches'[b] = launches[b]
                         /\ place'[b] = place[b] /\ rootAp'[b] = rootAp[b]
  BY <1>3 DEF cmd_as, BarrierTypeOK
<1>4. ASSUME NEW a \in AppCores, SetEntry(a) PROVE UNCHANGED <<place, locks>>
  BY <1>4 DEF SetEntry, barrierVars, locks
<1>5. ASSUME NEW a \in Chips \X Cores, read_mc(a)
      PROVE  UNCHANGED <<place, locks>>
  BY <1>5 DEF read_mc
<1> QED
  BY <1>0, <1>1, <1>2, <1>3, <1>4, <1>5 DEF BarrierNext, barrierVars, locks

LEMMA MessagesDiffer ==
  ASSUME NEW a \in AppCores, NEW b \in AppCores, NEW k, NEW m,
         Message(a, k) = Message(b, m)
  PROVE  a = b /\ k = m
<1>1. /\ Message(a, k).chip = a[1] /\ Message(a, k).core = a[2]
      /\ Message(a, k).key = k
      /\ Message(b, m).chip = b[1] /\ Message(b, m).core = b[2]
      /\ Message(b, m).key = m
  BY DEF Message
<1> QED
  BY <1>1, AppCoreType

\* Report x, the boxes being B: it is made once, and gone when it is counted.
Report(x, B, counted, sent) ==
  /\ Single(x, B)
  /\ counted => Gone(x, B)
  /\ sent \/ Gone(x, B)

\* S1 and S2 are the cores that have sent RDY1 and RDY2.  C1[c] are the cores
\* of chip c whose RDY1 was counted, C2 the chips whose RDY2 was.
Tokens(B, S1, S2, C1, C2) ==
  /\ C1 \in [Chips -> SUBSET Cores] /\ C2 \in SUBSET Chips
  /\ \A a \in AppCores :
       /\ Report(Message(a, RDY1), B, a[2] \in C1[a[1]], a \in S1)
       /\ Report(Message(a, RDY2), B, a[1] \in C2, a \in S2)
  /\ \A c \in Chips : \A i \in C1[c] : <<c, i>> \in AppCores \cap S1
  /\ \A c \in C2 : \E a \in AppCores \cap S2 : a[1] = c

LEMMA TokensGain ==
  ASSUME NEW B \in BoxTypes, NEW D \in BoxTypes, NEW k \in Locations,
         NEW x \in Packets, Gains(B, D, k, x),
         NEW S1, NEW S2, NEW R1, NEW R2, NEW C1, NEW C2,
         Tokens(B, S1, S2, C1, C2), S1 \subseteq R1, S2 \subseteq R2,
         \A a \in AppCores :
           /\ x = Message(a, RDY1) => a \notin S1 /\ a \in R1
           /\ x = Message(a, RDY2) =>
                a \in R2 /\ \A b \in AppCores \cap S2 : b[1] # a[1]
  PROVE  Tokens(D, R1, R2, C1, C2)
<1>1. ASSUME NEW y, NEW counted, NEW sent, NEW later,
             Report(y, B, counted, sent), sent => later,
             x = y => later /\ ~sent /\ ~counted
      PROVE  Report(y, D, counted, later)
  <2>1. Single(y, D)
    BY <1>1, GainSingle DEF Report
  <2>2. ASSUME x # y, Gone(y, B) PROVE Gone(y, D)
    BY <2>2, GainGone
  <2> QED
    BY <1>1, <2>1, <2>2 DEF Report
<1>2. ASSUME NEW a \in AppCores
      PROVE  Report(Message(a, RDY1), D, a[2] \in C1[a[1]], a \in R1)
  <2>1. Report(Message(a, RDY1), B, a[2] \in C1[a[1]], a \in S1)
    BY DEF Tokens
  <2>2. a \notin S1 => a[2] \notin C1[a[1]]
    BY AppCoreType DEF Tokens
  <2>3. a \in S1 => a \in R1
    OBVIOUS
  <2>4. x = Message(a, RDY1) => a \in R1 /\ a \notin S1 /\ a[2] \notin C1[a[1]]
    BY <2>2
  <2> QED
    BY <1>1, <2>1, <2>3, <2>4
<1>3. ASSUME NEW a \in AppCores
      PROVE  Report(Message(a, RDY2), D, a[1] \in C2, a \in R2)
  <2>1. Report(Message(a, RDY2), B, a[1] \in C2, a \in S2)
    BY DEF Tokens
  <2>2. x = Message(a, RDY2) => a[1] \notin C2
    BY DEF Tokens
  <2>3. a \in S2 => a \in R2
    OBVIOUS
  <2>4. x = Message(a, RDY2) => a \in R2 /\ a \notin S2 /\ a[1] \notin C2
    BY <2>2
  <2> QED
    BY <1>1, <2>1, <2>3, <2>4
<1>4. /\ C1 \in [Chips -> SUBSET Cores] /\ C2 \in SUBSET Chips
      /\ \A c \in Chips : \A i \in C1[c] : <<c, i>> \in AppCores \cap R1
      /\ \A c \in C2 : \E a \in AppCores \cap R2 : a[1] = c
  BY DEF Tokens
<1> QED
  BY <1>2, <1>3, <1>4 DEF Tokens

LEMMA TokensPass ==
  ASSUME NEW B \in BoxTypes, NEW D \in BoxTypes, NEW k \in Locations,
         NEW T, Passes(B, D, k, T), NEW S1, NEW S2, NEW C1, NEW C2,
         Tokens(B, S1, S2, C1, C2),
         \A a \in AppCores :
           B[k][1] \in {Message(a, RDY1), Message(a, RDY2)} =>
             \A l, m \in T : l = m
  PROVE  Tokens(D, S1, S2, C1, C2)
<1>1. ASSUME NEW a \in AppCores, NEW y \in {Message(a, RDY1), Message(a, RDY2)},
             NEW counted, NEW sent, Report(y, B, counted, sent)
      PROVE  Report(y, D, counted, sent)
  <2>1. Single(y, D)
    BY <1>1, PassSingle DEF Report
  <2>2. Gone(y, B) => Gone(y, D)
    BY PassGone
  <2> QED
    BY <1>1, <2>1, <2>2 DEF Report
<1> QED
  BY <1>1 DEF Tokens

\* A root core counts RDY1 of core b.
LEMMA TokensRead1 ==
  ASSUME NEW B \in BoxTypes, NEW D \in BoxTypes, NEW k \in Locations,
         Passes(B, D, k, {}), 1 \in DOMAIN B[k],
         NEW S1, NEW S2, NEW C1, NEW C2, Tokens(B, S1, S2, C1, C2),
         NEW b \in AppCores, B[k][1] = Message(b, RDY1)
  PROVE  /\ b[2] \notin C1[b[1]] /\ b \in S1
         /\ Tokens(D, S1, S2, [C1 EXCEPT ![b[1]] = @ \cup {b[2]}], C2)
<1> DEFINE E == [C1 EXCEPT ![b[1]] = @ \cup {b[2]}]
<1>1. ~Gone(Message(b, RDY1), B)
  BY DEF Gone
<1>2. b[2] \notin C1[b[1]] /\ b \in S1
  BY <1>1 DEF Tokens, Report
<1>3. Tokens(D, S1, S2, C1, C2)
  BY TokensPass
<1>4. Gone(Message(b, RDY1), D)
  BY PassLast DEF Tokens, Report
<1>5. /\ C1 \in [Chips -> SUBSET Cores]
      /\ b[1] \in Chips /\ b[2] \in Cores /\ b = <<b[1], b[2]>>
  BY AppCoreType DEF Tokens
<1>6. /\ E \in [Chips -> SUBSET Cores]
      /\ E[b[1]] = C1[b[1]] \cup {b[2]}
      /\ \A c \in Chips : c # b[1] => E[c] = C1[c]
  BY <1>5
<1> HIDE DEF E
<1>7. ASSUME NEW a \in AppCores
      PROVE  Report(Message(a, RDY1), D, a[2] \in E[a[1]], a \in S1)
  <2>1. Report(Message(a, RDY1), D, a[2] \in C1[a[1]], a \in S1)
    BY <1>3 DEF Tokens
  <2>2. CASE a = b
    BY <1>4, <2>1, <2>2 DEF Report
  <2>3. CASE a # b
    <3>1. a[2] \in E[a[1]] => a[2] \in C1[a[1]]
      BY <1>5, <1>6, <2>3, AppCoreType
    <3> QED
      BY <2>1, <3>1 DEF Report
  <2> QED
    BY <2>2, <2>3
<1>8. ASSUME NEW c \in Chips, NEW i \in E[c]
      PROVE  <<c, i>> \in AppCores \cap S1
  <2>1. \A j \in C1[c] : <<c, j>> \in AppCores \cap S1
    BY <1>3 DEF Tokens
  <2>2. i \in C1[c] \/ (c = b[1] /\ i = b[2])
    BY <1>6
  <2> QED
    BY <1>2, <1>5, <2>1, <2>2
<1>9. Tokens(D, S1, S2, E, C2)
  BY <1>3, <1>6, <1>7, <1>8 DEF Tokens
<1> QED
  BY <1>2, <1>9 DEF E

\* The root core of chip (0,0) counts RDY2 of core b.
LEMMA TokensRead2 ==
  ASSUME NEW B \in BoxTypes, NEW D \in BoxTypes, NEW k \in Locations,
         Passes(B, D, k, {}), 1 \in DOMAIN B[k],
         NEW S1, NEW S2, NEW C1, NEW C2, Tokens(B, S1, S2, C1, C2),
         NEW b \in AppCores, B[k][1] = Message(b, RDY2),
         \A a \in AppCores \cap S2 : a[1] = b[1] => a = b
  PROVE  /\ b[1] \notin C2 /\ b \in S2
         /\ Tokens(D, S1, S2, C1, C2 \cup {b[1]})
<1>1. ~Gone(Message(b, RDY2), B)
  BY DEF Gone
<1>2. b[1] \notin C2 /\ b \in S2
  BY <1>1 DEF Tokens, Report
<1>3. Tokens(D, S1, S2, C1, C2)
  BY TokensPass
<1>4. Gone(Message(b, RDY2), D)
  BY PassLast DEF Tokens, Report
<1>5. ASSUME NEW a \in AppCores
      PROVE  Report(Message(a, RDY2), D, a[1] \in C2 \cup {b[1]}, a \in S2)
  <2>1. Report(Message(a, RDY2), D, a[1] \in C2, a \in S2)
    BY <1>3 DEF Tokens
  <2>2. CASE a[1] = b[1]
    BY <1>4, <2>1, <2>2 DEF Report
  <2>3. CASE a[1] # b[1]
    BY <2>1, <2>3 DEF Report
  <2> QED
    BY <2>2, <2>3
<1>6. b[1] \in Chips
  BY AppCoreType
<1>7. Tokens(D, S1, S2, C1, C2 \cup {b[1]})
  BY <1>2, <1>3, <1>5, <1>6 DEF Tokens
<1> QED
  BY <1>2, <1>7

SentRdy1 == {a \in AtGo : ~rootAp[a]}
SentRdy2 == {a \in AtGo : rootAp[a] /\ a[1] # RootChip}

\* What the counters of a root core owe to the reports that were counted: it
\* counts itself too.
Tallies(C1, C2) ==
  \A a \in AppCores :
    /\ barrier_rdy1_cnt[a] <=
         IF rootAp[a] THEN 1 + Cardinality(C1[a[1]]) ELSE 0
    /\ barrier_rdy2_cnt[a] <=
         IF rootAp[a]
         THEN 1 + (IF a[1] = RootChip THEN Cardinality(C2) ELSE 0)
         ELSE 0

CountsInv ==
  FirstStart =>
    \E C1 \in [Chips -> SUBSET Cores], C2 \in SUBSET Chips :
      Tokens(Boxes, SentRdy1, SentRdy2, C1, C2) /\ Tallies(C1, C2)

LEMMA FiniteParts ==
  /\ \A S \in SUBSET Cores : IsFiniteSet(S) /\ Cardinality(S) \in Nat
  /\ \A S \in SUBSET Chips : IsFiniteSet(S) /\ Cardinality(S) \in Nat
<1>1. IsFiniteSet(Cores) /\ IsFiniteSet(Chips)
  BY FS_Interval, RouterAssumption, SomeChip DEF Cores, Chips
<1> QED
  BY <1>1, FS_Subset, FS_CardinalityType

\* A report is copied once.
LEMMA CopiesSingle ==
  ASSUME TypeOK, RoutesInv, NEW c \in Chips, NEW k \in {RDY1, RDY2}
  PROVE  \A l, m \in Copies(c, k) : l = m
<1>1. CASE k = RDY1
  <2>1. \A l \in Copies(c, k) : l = <<"down", c, lockedBy[c]>>
    BY <1>1, ReportRoutes DEF Copies
  <2> QED
    BY <2>1
<1>2. CASE k = RDY2 /\ c = RootChip
  <2>1. \A l \in Copies(c, k) : l = <<"down", c, lockedBy[c]>>
    BY <1>2, ReportRoutes DEF Copies
  <2> QED
    BY <2>1
<1>3. CASE k = RDY2 /\ c # RootChip
  <2>1. \A l \in Copies(c, k) : \E t \in LinkTargets(c, k) : l = <<"mc", t, 0>>
    BY <1>3, ReportRoutes DEF Copies
  <2>2. \A t, u \in LinkTargets(c, k) : t = u
    BY <1>3, ReportRoutes
  <2> QED
    BY <2>1, <2>2
<1> QED
  BY <1>1, <1>2, <1>3

\* Before any core is started again each chip has one root core at most, the
\* holder of its lock.
LEMMA OneRoot ==
  ASSUME ControlInv, NEW a \in AppCores, NEW b \in AppCores, a[1] = b[1],
         rootAp[a], rootAp[b]
  PROVE  a = b
  BY AppCoreType DEF ControlInv, Control

LEMMA SentStays ==
  ASSUME BarrierTypeOK, ControlInv, [BarrierNext]_<<vars, barrierVars>>,
         FirstStart'
  PROVE  FirstStart /\ SentRdy1 \subseteq SentRdy1' /\ SentRdy2 \subseteq SentRdy2'
  BY AtGoStays DEF SentRdy1, SentRdy2

\* What a worker does to the counters.
LEMMA WorkerTallies ==
  ASSUME BarrierTypeOK, ControlInv, NEW a \in AppCores, Worker(a),
         NEW C1 \in [Chips -> SUBSET Cores], NEW C2 \in SUBSET Chips,
         Tallies(C1, C2)
  PROVE  Tallies(C1, C2)'
<1> SUFFICES ASSUME NEW b \in AppCores
             PROVE  /\ barrier_rdy1_cnt'[b] <=
                         IF rootAp'[b] THEN 1 + Cardinality(C1[b[1]]) ELSE 0
                    /\ barrier_rdy2_cnt'[b] <=
                         IF rootAp'[b]
                         THEN 1 + (IF b[1] = RootChip THEN Cardinality(C2) ELSE 0)
                         ELSE 0
  BY DEF Tallies
<1>1. /\ Cardinality(C1[b[1]]) \in Nat /\ Cardinality(C2) \in Nat
      /\ barrier_rdy1_cnt[b] \in Nat /\ barrier_rdy2_cnt[b] \in Nat
  BY FiniteParts, AppCoreType DEF BarrierTypeOK
<1>2. /\ rootAp'[b] = rootAp[b] \/ rootAp'[b]
      /\ \/ barrier_rdy1_cnt'[b] = barrier_rdy1_cnt[b]
         \/ barrier_rdy1_cnt'[b] = 1 /\ rootAp'[b]
      /\ \/ barrier_rdy2_cnt'[b] = barrier_rdy2_cnt[b]
         \/ barrier_rdy2_cnt'[b] = 1 /\ rootAp'[b]
  <2> USE DEF BarrierTypeOK, locks, counts
  <2>1. CASE TryLock(a)
    BY <2>1 DEF TryLock
  <2>2. CASE InitCounts(a)
    <3>1. rootAp[a]
      BY <2>2 DEF InitCounts, Moves, ControlInv, Control, RootPlaces
    <3> QED
      BY <2>2, <3>1 DEF InitCounts
  <2>3. CASE SendRdy1Route(a) \/ BarrierSetup(a) \/ LetGo(a) \/ WaitRouter(a)
             \/ SetCoreMap(a)
    BY <2>3 DEF SendRdy1Route, BarrierSetup, LetGo, WaitRouter, SetCoreMap
  <2>4. CASE BarrierEnter(a) \/ Go(a) \/ GiveUp(a)
    BY <2>4 DEF BarrierEnter, Go, GiveUp
  <2>5. CASE SendRdygo(a) \/ SendGo(a) \/ SendRdy2(a) \/ SendRdy1(a)
    BY <2>5 DEF SendRdygo, SendGo, SendRdy2, SendRdy1
  <2>6. CASE ResendRdygo(a)
    BY <2>6 DEF ResendRdygo, barrierVars
  <2> QED
    BY <2>1, <2>2, <2>3, <2>4, <2>5, <2>6 DEF Worker, Advance
<1>3. /\ barrier_rdy1_cnt[b] <=
           IF rootAp[b] THEN 1 + Cardinality(C1[b[1]]) ELSE 0
      /\ barrier_rdy2_cnt[b] <=
           IF rootAp[b]
           THEN 1 + (IF b[1] = RootChip THEN Cardinality(C2) ELSE 0)
           ELSE 0
  BY DEF Tallies
<1>4. rootAp[b] \in BOOLEAN /\ rootAp[b] => rootAp'[b]
  BY <1>2 DEF BarrierTypeOK
<1> QED
  BY <1>1, <1>2, <1>3, <1>4

\* A core gets nothing, a table entry or a packet more to send.
LEMMA GainCounts ==
  ASSUME BarrierTypeOK, BarrierTypeOK', ControlInv,
         [BarrierNext]_<<vars, barrierVars>>, FirstStart',
         NEW a \in AppCores, NEW x \in Packets,
         Gains(Boxes, Boxes', <<"up", a[1], a[2]>>, x),
         x \in McPackets =>
           \E k \in BarrierKeys : /\ x = Message(a, k)
                                  /\ k = RDY1 => SendRdy1(a)
                                  /\ k = RDY2 => SendRdy2(a),
         NEW C1, NEW C2, Tokens(Boxes, SentRdy1, SentRdy2, C1, C2)
  PROVE  Tokens(Boxes, SentRdy1, SentRdy2, C1, C2)'
<1> DEFINE k == <<"up", a[1], a[2]>>
           B == Boxes
           D == Boxes'
           S1 == SentRdy1
           S2 == SentRdy2
           R1 == SentRdy1'
           R2 == SentRdy2'
<1>1. k \in Locations /\ B \in BoxTypes /\ D \in BoxTypes
  BY AppCoreType, BoxAt, BoxesNextType DEF BarrierTypeOK
<1>2. FirstStart /\ S1 \subseteq R1 /\ S2 \subseteq R2
  BY SentStays
<1>3. ASSUME NEW b \in AppCores, x = Message(b, RDY1)
      PROVE  b \notin S1 /\ b \in R1
  <2>1. x \in McPackets
    BY <1>3, MessageType DEF BarrierKeys
  <2>2. a = b /\ SendRdy1(a)
    BY <1>3, <2>1, MessagesDiffer
  <2>3. /\ place[a] = "waitLock" /\ place'[a] = "waitGo"
        /\ rootAp' = rootAp /\ launches' = launches
    BY <2>2 DEF SendRdy1, Moves, BarrierTypeOK, locks
  <2>4. ~rootAp[a] /\ launches[a] = 1
    BY <1>2, <2>3 DEF ControlInv, Control, FirstStart
  <2> QED
    BY <2>2, <2>3, <2>4 DEF SentRdy1, AtGo
<1>4. ASSUME NEW b \in AppCores, x = Message(b, RDY2)
      PROVE  b \in R2 /\ \A d \in AppCores \cap S2 : d[1] # b[1]
  <2>1. x \in McPackets
    BY <1>4, MessageType DEF BarrierKeys
  <2>2. a = b /\ SendRdy2(a)
    BY <1>4, <2>1, MessagesDiffer
  <2>3. /\ place[a] = "waitReady" /\ place'[a] = "waitGo"
        /\ rootAp' = rootAp /\ launches' = launches /\ a[1] # RootChip
    BY <2>2 DEF SendRdy2, Moves, BarrierTypeOK, locks
  <2>4. rootAp[a] /\ launches[a] = 1
    BY <1>2, <2>3 DEF ControlInv, Control, FirstStart, RootPlaces
  <2>5. b \in R2
    BY <2>2, <2>3, <2>4 DEF SentRdy2, AtGo
  <2>6. ASSUME NEW d \in AppCores \cap S2, d[1] = b[1] PROVE FALSE
    <3>1. d = b
      BY <2>2, <2>4, <2>6, OneRoot DEF SentRdy2
    <3> QED
      BY <2>2, <2>3, <2>4, <2>6, <3>1 DEF SentRdy2, AtGo
  <2> QED
    BY <2>5, <2>6
<1>5. Tokens(B, S1, S2, C1, C2)
  OBVIOUS
<1>6. Gains(B, D, k, x)
  OBVIOUS
<1> HIDE DEF k, B, D, S1, S2, R1, R2
<1>7. Tokens(D, R1, R2, C1, C2)
  BY <1>1, <1>2, <1>3, <1>4, <1>5, <1>6, TokensGain
<1>8. Tokens(D, R1, R2, C1, C2) = Tokens(Boxes, SentRdy1, SentRdy2, C1, C2)'
  BY DEF D, R1, R2, Tokens, Report, Single, Gone
<1> QED
  BY <1>7, <1>8

\* The dispatcher passes the reports on.
LEMMA DispatcherCounts ==
  ASSUME BarrierTypeOK, BarrierTypeOK', RoutesInv, Dispatcher,
         UNCHANGED barrierVars,
         NEW C1, NEW C2, Tokens(Boxes, SentRdy1, SentRdy2, C1, C2)
  PROVE  Tokens(Boxes', SentRdy1, SentRdy2, C1, C2)
<1>0. TypeOK /\ TypeOK' /\ chip \in Chips /\ core \in Cores
  BY DEF BarrierTypeOK, TypeOK
<1> DEFINE B == Boxes
           D == Boxes'
<1>1. B \in BoxTypes /\ D \in BoxTypes
  BY <1>0, BoxesNextType
<1>2. CASE UNCHANGED Boxes
  BY <1>2
<1>3. CASE Passes(B, D, <<"up", chip, core>>, {<<"mc", chip, 0>>})
  <2>1. <<"up", chip, core>> \in Locations
    BY <1>0, BoxAt
  <2> HIDE DEF B, D
  <2>2. \A l, m \in {<<"mc", chip, 0>>} : l = m
    OBVIOUS
  <2>3. Tokens(B, SentRdy1, SentRdy2, C1, C2)
    BY DEF B
  <2>4. Tokens(D, SentRdy1, SentRdy2, C1, C2)
    BY <1>1, <1>3, <2>1, <2>2, <2>3, TokensPass
  <2> QED
    BY <2>4 DEF D
<1>4. CASE Passes(B, D, <<"mc", chip, 0>>,
                  Copies(chip, B[<<"mc", chip, 0>>][1].key))
  <2> DEFINE k == <<"mc", chip, 0>>
             T == Copies(chip, B[k][1].key)
  <2>1. k \in Locations
    BY <1>0, BoxAt, SomeCore
  <2>2. ASSUME NEW a \in AppCores,
               B[k][1] \in {Message(a, RDY1), Message(a, RDY2)}
        PROVE  \A l, m \in T : l = m
    <3>1. B[k][1].key \in {RDY1, RDY2}
      BY <2>2 DEF Message
    <3> QED
      BY <1>0, <3>1, CopiesSingle
  <2>3. Tokens(B, SentRdy1, SentRdy2, C1, C2)
    OBVIOUS
  <2> HIDE DEF B, D, k, T
  <2>4. Passes(B, D, k, T)
    BY <1>4 DEF k, T
  <2>5. Tokens(D, SentRdy1, SentRdy2, C1, C2)
    BY <1>1, <2>1, <2>2, <2>3, <2>4, TokensPass
  <2> QED
    BY <2>5 DEF D
<1> QED
  BY <1>0, <1>2, <1>3, <1>4, DispatcherBoxes

\* The packet a controller reads.
LEMMA ReadHead ==
  ASSUME TypeOK, NEW a \in Chips \X Cores, read_mc(a)
  PROVE  LET k == <<"down", a[1], a[2]>>
         IN  /\ k \in Locations /\ 1 \in DOMAIN Boxes[k]
             /\ Boxes[k][1] = Head(down[a[1]][a[2]])
             /\ Boxes[k][1] \in McPackets
             /\ Passes(Boxes, Boxes', k, {})
<1> DEFINE k == <<"down", a[1], a[2]>>
           s == down[a[1]][a[2]]
<1>1. k \in Locations /\ Boxes[k] = s
  BY BoxAt
<1>2. s \in Seq(McPackets) /\ s # <<>>
  BY DEF TypeOK, read_mc, read_packets
<1>3. Passes(Boxes, Boxes', k, {})
  BY ReadBoxes DEF read_mc
<1> HIDE DEF s
<1>4. 1 \in DOMAIN s /\ s[1] = Head(s) /\ s[1] \in McPackets
  BY <1>2
<1> QED
  BY <1>1, <1>3, <1>4 DEF s

\* A controller counts a report.
LEMMA ReadCounts ==
  ASSUME BarrierTypeOK, BarrierTypeOK', ControlInv, ReportsInv, FirstStart,
         NEW a \in Chips \X Cores, read_mc(a),
         NEW C1 \in [Chips -> SUBSET Cores], NEW C2 \in SUBSET Chips,
         Tokens(Boxes, SentRdy1, SentRdy2, C1, C2), Tallies(C1, C2)
  PROVE  \E E1 \in [Chips -> SUBSET Cores], E2 \in SUBSET Chips :
           Tokens(Boxes', SentRdy1, SentRdy2, E1, E2) /\ Tallies(E1, E2)'
<1> DEFINE k == <<"down", a[1], a[2]>>
           B == Boxes
           D == Boxes'
           p == B[k][1]
           S1 == SentRdy1
           S2 == SentRdy2
           Sound(E1, E2) == Tokens(D, S1, S2, E1, E2)
<1>0. TypeOK /\ TypeOK' /\ a[1] \in Chips /\ a[2] \in Cores
  BY DEF BarrierTypeOK
<1>1. /\ k \in Locations /\ 1 \in DOMAIN B[k] /\ p \in McPackets
      /\ Passes(B, D, k, {}) /\ p = Head(down[a[1]][a[2]])
      /\ B \in BoxTypes /\ D \in BoxTypes
  BY <1>0, ReadHead, BoxesNextType
<1>2. Tokens(B, S1, S2, C1, C2)
  OBVIOUS
<1>3. /\ UNCHANGED rootAp
      /\ barrier_rdy1_cnt' = Plus(barrier_rdy1_cnt, a, p.key = RDY1)
      /\ barrier_rdy2_cnt' = Plus(barrier_rdy2_cnt, a, p.key = RDY2)
  BY <1>1 DEF read_mc, locks
<1>4. p.key \in {RDY1, RDY2} =>
        /\ a \in AppCores /\ rootAp[a]
        /\ \E b \in AppCores : p = Message(b, p.key)
        /\ p.key = RDY1 => p.chip = a[1]
        /\ p.key = RDY2 => a[1] = RootChip
  <2>1. ReportAt(k, p, lockedBy[a[1]]) /\ p.type = "mc"
    BY <1>1 DEF ReportsInv, McPackets
  <2>2. lockedBy[a[1]] # -1 => lockedBy[a[1]] \in core_map[a[1]]
    BY <1>0 DEF ControlInv
  <2>3. p.key \in {RDY1, RDY2} => a[2] = lockedBy[a[1]] /\ a \in AppCores
    BY <1>0, <2>1, <2>2 DEF ReportAt, AppCores, Cores
  <2>4. a \in AppCores /\ a[2] = lockedBy[a[1]] => rootAp[a]
    BY DEF ControlInv, Control, FirstStart
  <2> QED
    BY <2>1, <2>3, <2>4 DEF ReportAt
<1>5. /\ \A c \in Chips : Cardinality(C1[c]) \in Nat /\ IsFiniteSet(C1[c])
      /\ Cardinality(C2) \in Nat /\ IsFiniteSet(C2)
  BY FiniteParts
<1>6. /\ barrier_rdy1_cnt \in [AppCores -> Nat]
      /\ barrier_rdy2_cnt \in [AppCores -> Nat]
  BY DEF BarrierTypeOK
<1>7. \A b \in AppCores, d \in AppCores : b[1] = d[1] /\ b \in S2 /\ d \in S2
                                          => b = d
  BY OneRoot DEF SentRdy2
<1> HIDE DEF B, D, p, k, S1, S2
<1>8. CASE p.key = RDY1
  <2>1. PICK b \in AppCores : p = Message(b, RDY1) /\ b[1] = a[1]
    <3>1. PICK b \in AppCores : p = Message(b, RDY1)
      BY <1>4, <1>8
    <3>2. p.chip = b[1]
      BY <3>1 DEF Message
    <3> QED
      BY <1>4, <1>8, <3>1, <3>2
  <2> DEFINE E1 == [C1 EXCEPT ![b[1]] = @ \cup {b[2]}]
  <2>2. b[2] \notin C1[b[1]] /\ Sound(E1, C2)
    <3>1. B[k][1] = Message(b, RDY1)
      BY <2>1 DEF p
    <3>2. /\ b[2] \notin C1[b[1]]
          /\ Tokens(D, S1, S2, [C1 EXCEPT ![b[1]] = @ \cup {b[2]}], C2)
      BY <1>1, <1>2, <3>1, TokensRead1
    <3> QED
      BY <3>2
  <2>3. /\ E1 \in [Chips -> SUBSET Cores]
        /\ E1[a[1]] = C1[a[1]] \cup {b[2]}
        /\ \A c \in Chips : c # a[1] => E1[c] = C1[c]
    BY <1>0, <2>1, AppCoreType
  <2>4. Cardinality(E1[a[1]]) = Cardinality(C1[a[1]]) + 1
    <3>1. IsFiniteSet(C1[a[1]])
      BY <1>0, <1>5
    <3>2. b[2] \notin C1[a[1]]
      BY <2>1, <2>2
    <3> QED
      BY <2>3, <3>1, <3>2, FS_AddElement
  <2> HIDE DEF E1
  <2>5. /\ barrier_rdy1_cnt' = [barrier_rdy1_cnt EXCEPT ![a] = @ + 1]
        /\ barrier_rdy2_cnt' = barrier_rdy2_cnt
    BY <1>3, <1>4, <1>8, KeysApart DEF Plus
  <2>6. Tallies(E1, C2)'
    <3> SUFFICES ASSUME NEW d \in AppCores
                 PROVE  /\ barrier_rdy1_cnt'[d] <=
                             IF rootAp'[d] THEN 1 + Cardinality(E1[d[1]]) ELSE 0
                        /\ barrier_rdy2_cnt'[d] <=
                             IF rootAp'[d]
                             THEN 1 + (IF d[1] = RootChip THEN Cardinality(C2)
                                       ELSE 0)
                             ELSE 0
      BY DEF Tallies
    <3>1. /\ barrier_rdy1_cnt[d] <=
               IF rootAp[d] THEN 1 + Cardinality(C1[d[1]]) ELSE 0
          /\ barrier_rdy2_cnt[d] <=
               IF rootAp[d]
               THEN 1 + (IF d[1] = RootChip THEN Cardinality(C2) ELSE 0)
               ELSE 0
      BY DEF Tallies
    <3>2. d[1] \in Chips
      BY AppCoreType
    <3>3. CASE d = a
      BY <1>3, <1>4, <1>5, <1>6, <1>8, <2>4, <2>5, <3>1, <3>2, <3>3
    <3>4. CASE d # a
      <4>1. Cardinality(C1[d[1]]) <= Cardinality(E1[d[1]])
        BY <1>0, <1>5, <2>3, <2>4, <3>2
      <4> QED
        BY <1>3, <1>5, <1>6, <2>5, <3>1, <3>2, <3>4, <4>1, FiniteParts, <2>3
    <3> QED
      BY <3>3, <3>4
  <2> QED
    BY <2>2, <2>3, <2>6 DEF D, S1, S2, E1
<1>9. CASE p.key = RDY2
  <2>1. PICK b \in AppCores : p = Message(b, RDY2)
    BY <1>4, <1>9
  <2> DEFINE E2 == C2 \cup {b[1]}
  <2>2. b[1] \notin C2 /\ b \in S2 /\ Sound(C1, E2)
    <3>1. b \in S2
      <4>1. ~Gone(Message(b, RDY2), B)
        BY <1>1, <2>1 DEF p, Gone
      <4> QED
        BY <1>2, <4>1 DEF Tokens, Report
    <3>2. \A d \in AppCores \cap S2 : d[1] = b[1] => d = b
      BY <1>7, <3>1
    <3> QED
      BY <1>1, <1>2, <2>1, <3>2, TokensRead2 DEF p
  <2>3. E2 \in SUBSET Chips /\ Cardinality(E2) = Cardinality(C2) + 1
    <3>1. b[1] \in Chips /\ b[1] \notin C2
      BY <2>2, AppCoreType
    <3> HIDE DEF Sound
    <3>2. Cardinality(C2 \cup {b[1]}) = Cardinality(C2) + 1
      BY <1>5, <3>1, FS_AddElement
    <3> QED
      BY <3>1, <3>2
  <2> HIDE DEF E2
  <2>4. /\ barrier_rdy2_cnt' = [barrier_rdy2_cnt EXCEPT ![a] = @ + 1]
        /\ barrier_rdy1_cnt' = barrier_rdy1_cnt
    BY <1>3, <1>4, <1>9, KeysApart DEF Plus
  <2>5. Tallies(C1, E2)'
    <3> SUFFICES ASSUME NEW d \in AppCores
                 PROVE  /\ barrier_rdy1_cnt'[d] <=
                             IF rootAp'[d] THEN 1 + Cardinality(C1[d[1]]) ELSE 0
                        /\ barrier_rdy2_cnt'[d] <=
                             IF rootAp'[d]
                             THEN 1 + (IF d[1] = RootChip THEN Cardinality(E2)
                                       ELSE 0)
                             ELSE 0
      BY DEF Tallies
    <3>1. /\ barrier_rdy1_cnt[d] <=
               IF rootAp[d] THEN 1 + Cardinality(C1[d[1]]) ELSE 0
          /\ barrier_rdy2_cnt[d] <=
               IF rootAp[d]
               THEN 1 + (IF d[1] = RootChip THEN Cardinality(C2) ELSE 0)
               ELSE 0
      BY DEF Tallies
    <3>2. CASE d = a
      BY <1>3, <1>4, <1>5, <1>6, <1>9, <2>3, <2>4, <3>1, <3>2
    <3>3. CASE d # a
      BY <1>3, <1>5, <1>6, <2>3, <2>4, <3>1, <3>3
    <3> QED
      BY <3>2, <3>3
  <2> QED
    BY <2>2, <2>3, <2>5 DEF D, S1, S2, E2
<1>10. CASE p.key \notin {RDY1, RDY2}
  <2>1. \A d \in AppCores : p \notin {Message(d, RDY1), Message(d, RDY2)}
    BY <1>10 DEF Message
  <2>2. Sound(C1, C2)
    BY <1>1, <1>2, <2>1, TokensPass DEF p
  <2>3. UNCHANGED <<barrier_rdy1_cnt, barrier_rdy2_cnt>>
    BY <1>3, <1>10 DEF Plus
  <2>4. Tallies(C1, C2)'
    BY <1>3, <2>3 DEF Tallies
  <2> QED
    BY <2>2, <2>4 DEF D, S1, S2
<1> QED
  BY <1>8, <1>9, <1>10

LEMMA CountsNext ==
  BarrierTypeOK /\ BarrierTypeOK' /\ ControlInv /\ RoutesInv /\ ReportsInv
  /\ CountsInv /\ [BarrierNext]_<<vars, barrierVars>> => CountsInv'
<1> SUFFICES ASSUME BarrierTypeOK, BarrierTypeOK', ControlInv, RoutesInv,
                    ReportsInv, CountsInv,
                    [BarrierNext]_<<vars, barrierVars>>, FirstStart'
             PROVE  \E C1 \in [Chips -> SUBSET Cores], C2 \in SUBSET Chips :
                      /\ Tokens(Boxes, SentRdy1, SentRdy2, C1, C2)'
                      /\ Tallies(C1, C2)'
  BY DEF CountsInv
<1>0. TypeOK /\ TypeOK' /\ FirstStart
  BY SentStays DEF BarrierTypeOK
<1>1. PICK C1 \in [Chips -> SUBSET Cores], C2 \in SUBSET Chips :
        Tokens(Boxes, SentRdy1, SentRdy2, C1, C2) /\ Tallies(C1, C2)
  BY <1>0 DEF CountsInv
<1> DEFINE Kept == Tokens(Boxes, SentRdy1, SentRdy2, C1, C2)'
           Sound(E1, E2) == Tokens(Boxes', SentRdy1, SentRdy2, E1, E2)
<1>2. ASSUME NEW E1, NEW E2, UNCHANGED <<place, locks>>, Sound(E1, E2)
      PROVE  Tokens(Boxes, SentRdy1, SentRdy2, E1, E2)'
  <2>1. SentRdy1' = SentRdy1 /\ SentRdy2' = SentRdy2
    BY <1>2 DEF SentRdy1, SentRdy2, AtGo, locks
  <2>2. Tokens(Boxes', SentRdy1', SentRdy2', E1, E2)
    BY <1>2, <2>1
  <2> QED
    BY <2>2 DEF Tokens, Report, Single, Gone
<1>3. ASSUME UNCHANGED Boxes PROVE Kept
  <2>1. SentRdy1 \subseteq SentRdy1' /\ SentRdy2 \subseteq SentRdy2'
    BY SentStays
  <2>2. Tokens(Boxes, SentRdy1', SentRdy2', C1, C2)
    BY <1>1, <2>1 DEF Tokens, Report
  <2>3. Tokens(Boxes', SentRdy1', SentRdy2', C1, C2)
    BY <1>3, <2>2
  <2>4. Kept
    BY <2>3 DEF Tokens, Report, Single, Gone
  <2> QED
    BY <2>4
<1>4. ASSUME UNCHANGED <<rootAp, counts>> PROVE Tallies(C1, C2)'
  BY <1>1, <1>4 DEF Tallies, counts
<1>5. ASSUME NEW a \in AppCores, NEW x \in RoutePackets,
             Gains(Boxes, Boxes', <<"up", a[1], a[2]>>, x)
      PROVE  Kept
  <2>1. x \in Packets /\ x \notin McPackets
    BY DEF Packets, RoutePackets, McPackets
  <2> QED
    BY <1>1, <1>5, <2>1, GainCounts
<1>6. ASSUME NEW a \in AppCores, Worker(a)
      PROVE  Kept /\ Tallies(C1, C2)'
  <2>1. Tallies(C1, C2)'
    BY <1>1, <1>6, WorkerTallies
  <2>2. ASSUME NEW k \in BarrierKeys, k = RDY1 => SendRdy1(a),
               k = RDY2 => SendRdy2(a),
               Gains(Boxes, Boxes', <<"up", a[1], a[2]>>, Message(a, k))
        PROVE  Kept
    <3>1. Message(a, k) \in Packets
      BY MessageType DEF Packets
    <3> QED
      BY <1>1, <2>2, <3>1, GainCounts
  <2>3. Kept
    BY <1>0, <1>3, <1>5, <1>6, <2>2, WorkerBoxes
  <2> QED
    BY <2>1, <2>3
<1>7. ASSUME NEW a \in AppCores, SetEntry(a)
      PROVE  Kept /\ Tallies(C1, C2)'
  <2>1. UNCHANGED <<rootAp, counts>>
    BY <1>7 DEF SetEntry, barrierVars
  <2>2. Kept
    BY <1>0, <1>5, <1>7, SetEntryBoxes
  <2> QED
    BY <1>4, <2>1, <2>2
<1>8. ASSUME NEW a \in AppCores, cmd_as(a) PROVE FALSE
  <2>1. launches'[a] = launches[a] + 1 /\ launches[a] = 1 /\ launches'[a] = 1
    BY <1>0, <1>8 DEF cmd_as, FirstStart, BarrierTypeOK
  <2> QED
    BY <2>1
<1>9. CASE Dispatcher /\ UNCHANGED <<sends, barrierVars>>
  <2>1. UNCHANGED <<rootAp, counts>> /\ UNCHANGED <<place, locks>>
    BY <1>9 DEF barrierVars, locks
  <2>2. Sound(C1, C2)
    BY <1>1, <1>9, DispatcherCounts
  <2>3. Kept
    BY <1>2, <2>1, <2>2
  <2> QED
    BY <1>4, <2>1, <2>3
<1>10. ASSUME NEW a \in Chips \X Cores, read_mc(a)
       PROVE  \E E1 \in [Chips -> SUBSET Cores], E2 \in SUBSET Chips :
                /\ Tokens(Boxes, SentRdy1, SentRdy2, E1, E2)'
                /\ Tallies(E1, E2)'
  <2>1. PICK E1 \in [Chips -> SUBSET Cores], E2 \in SUBSET Chips :
          Tokens(Boxes', SentRdy1, SentRdy2, E1, E2) /\ Tallies(E1, E2)'
    BY <1>0, <1>1, <1>10, ReadCounts
  <2>2. UNCHANGED <<place, locks>>
    BY <1>10 DEF read_mc
  <2>3. Tokens(Boxes, SentRdy1, SentRdy2, E1, E2)'
    BY <1>2, <2>1, <2>2
  <2> QED
    BY <2>1, <2>3
<1>11. CASE UNCHANGED <<vars, barrierVars>>
  <2>1. UNCHANGED Boxes /\ UNCHANGED <<rootAp, counts>>
    BY <1>11 DEF vars, routerVars, dispatcher, Boxes, barrierVars
  <2> QED
    BY <1>3, <1>4, <2>1
<1> QED
  BY <1>6, <1>7, <1>8, <1>9, <1>10, <1>11 DEF BarrierNext

LEMMA CountsInit == BarrierInit => CountsInv
<1> SUFFICES ASSUME BarrierInit
             PROVE  \E C1 \in [Chips -> SUBSET Cores], C2 \in SUBSET Chips :
                      Tokens(Boxes, SentRdy1, SentRdy2, C1, C2)
                      /\ Tallies(C1, C2)
  BY DEF CountsInv
<1> DEFINE C1 == [c \in Chips |-> {}]
<1>1. C1 \in [Chips -> SUBSET Cores] /\ {} \in SUBSET Chips
  OBVIOUS
<1>2. ASSUME NEW x PROVE Report(x, Boxes, FALSE, FALSE)
  BY EmptyBoxes DEF Report, Single, Gone
<1>3. \A a \in AppCores : a[1] \in Chips /\ C1[a[1]] = {}
  BY AppCoreType
<1>4. Tokens(Boxes, SentRdy1, SentRdy2, C1, {})
  <2>1. ASSUME NEW a \in AppCores
        PROVE  /\ Report(Message(a, RDY1), Boxes, a[2] \in C1[a[1]], a \in SentRdy1)
               /\ Report(Message(a, RDY2), Boxes, a[1] \in {}, a \in SentRdy2)
    BY <1>2, <1>3 DEF Report
  <2> QED
    BY <2>1 DEF Tokens
<1>5. Tallies(C1, {})
  BY DEF Tallies, BarrierInit
<1> QED
  BY <1>1, <1>4, <1>5

ReportingInv ==
  BarrierTypeOK /\ ControlInv /\ RoutesInv /\ ReportsInv /\ CountsInv

LEMMA Counted ==
  ASSUME ApplicationKeysApart
  PROVE  BarrierSpec => []ReportingInv
<1>1. BarrierInit => CountsInv
  BY CountsInit
<1>2. BarrierTypeOK /\ BarrierTypeOK' /\ ControlInv /\ RoutesInv /\ ReportsInv
      /\ CountsInv /\ [BarrierNext]_<<vars, barrierVars>> => CountsInv'
  BY CountsNext
<1> QED
  BY <1>1, <1>2, Reported, PTL DEF BarrierSpec, ReportingInv

\* The cores of a chip but its root, and the chips with application cores but
\* chip (0,0), are the ones that can be counted.
Others(a) == core_map[a[1]] \ {a[2]}
OtherChips == {c \in Chips \ {RootChip} : core_map[c] # {}}

LEMMA Expected ==
  /\ \A a \in AppCores : /\ IsFiniteSet(Others(a))
                         /\ my_ncores(a[1]) = 1 + Cardinality(Others(a))
                         /\ Cardinality(Others(a)) \in Nat
  /\ IsFiniteSet(OtherChips) /\ nchips = 1 + Cardinality(OtherChips)
  /\ Cardinality(OtherChips) \in Nat
<1>1. ASSUME NEW a \in AppCores
      PROVE  /\ IsFiniteSet(Others(a))
             /\ my_ncores(a[1]) = 1 + Cardinality(Others(a))
             /\ Cardinality(Others(a)) \in Nat
  <2>1. core_map[a[1]] \in SUBSET Cores /\ a[2] \in core_map[a[1]]
    BY AppCoreType, BarrierConstants
  <2>2. IsFiniteSet(core_map[a[1]]) /\ Cardinality(core_map[a[1]]) \in Nat
    BY <2>1, FiniteParts
  <2>3. /\ IsFiniteSet(core_map[a[1]] \ {a[2]})
        /\ Cardinality(core_map[a[1]] \ {a[2]})
             = Cardinality(core_map[a[1]]) - 1
    BY <2>1, <2>2, FS_RemoveElement
  <2>4. Cardinality(core_map[a[1]] \ {a[2]}) \in Nat
    BY <2>3, FS_CardinalityType
  <2> QED
    BY <2>2, <2>3, <2>4 DEF Others, my_ncores
<1>2. OtherChips \in SUBSET Chips
  BY DEF OtherChips
<1> QED
  BY <1>1, <1>2, FiniteParts DEF OtherChips, nchips

LEMMA CountedAreOthers ==
  ASSUME BarrierTypeOK, ControlInv,
         NEW C1 \in [Chips -> SUBSET Cores], NEW C2 \in SUBSET Chips,
         Tokens(Boxes, SentRdy1, SentRdy2, C1, C2),
         NEW a \in AppCores, rootAp[a]
  PROVE  /\ C1[a[1]] \subseteq Others(a)
         /\ C2 \subseteq OtherChips
         /\ Cardinality(C1[a[1]]) <= Cardinality(Others(a))
         /\ Cardinality(C1[a[1]]) = Cardinality(Others(a)) => C1[a[1]] = Others(a)
         /\ Cardinality(C2) <= Cardinality(OtherChips)
         /\ Cardinality(C2) = Cardinality(OtherChips) => C2 = OtherChips
<1>1. C1[a[1]] \subseteq Others(a)
  <2> SUFFICES ASSUME NEW i \in C1[a[1]] PROVE i \in core_map[a[1]] \ {a[2]}
    BY DEF Others
  <2>1. <<a[1], i>> \in AppCores \cap SentRdy1
    BY AppCoreType DEF Tokens
  <2> QED
    BY <2>1, AppCoreType DEF AppCores, SentRdy1
<1>2. C2 \subseteq OtherChips
  <2> SUFFICES ASSUME NEW c \in C2 PROVE c \in OtherChips
    OBVIOUS
  <2>1. PICK b \in AppCores \cap SentRdy2 : b[1] = c
    BY DEF Tokens
  <2> QED
    BY <2>1, AppCoreType DEF OtherChips, SentRdy2
<1> QED
  BY <1>1, <1>2, Expected, FS_Subset

\* A root core never counts more reports than there are cores of its chip, or
\* chips with application cores (barrier_rdy1_cnt and barrier_rdy2_cnt of
\* spin_emu_api.c), whatever waits run out of time and whatever packets are
\* lost: a report is one packet from its sender to the core that counts it.
THEOREM CountsBounded == ASSUME ApplicationKeysApart
                         PROVE  BarrierSpec => []NeverOvercounts
<1>1. ReportingInv => NeverOvercounts
  <2> SUFFICES ASSUME ReportingInv, NEW a \in AppCores, rootAp[a],
                      place[a] # "running"
               PROVE  /\ barrier_rdy1_cnt[a] <= my_ncores(a[1])
                      /\ barrier_rdy2_cnt[a] <= nchips
    BY DEF NeverOvercounts
  <2>1. FirstStart
    <3>1. launches[a] = 1
      BY DEF ReportingInv, ControlInv, Control
    <3>2. ~StartedOnce(a)
      BY <3>1 DEF StartedOnce
    <3> QED
      BY <3>2 DEF ReportingInv, ControlInv, FirstStart
  <2>2. PICK C1 \in [Chips -> SUBSET Cores], C2 \in SUBSET Chips :
          Tokens(Boxes, SentRdy1, SentRdy2, C1, C2) /\ Tallies(C1, C2)
    BY <2>1 DEF ReportingInv, CountsInv
  <2>3. /\ Cardinality(C1[a[1]]) <= Cardinality(Others(a))
        /\ Cardinality(C2) <= Cardinality(OtherChips)
    BY <2>2, CountedAreOthers DEF ReportingInv
  <2>4. /\ barrier_rdy1_cnt[a] <= 1 + Cardinality(C1[a[1]])
        /\ barrier_rdy2_cnt[a] <=
             1 + (IF a[1] = RootChip THEN Cardinality(C2) ELSE 0)
    BY <2>2 DEF Tallies
  <2>5. /\ Cardinality(C1[a[1]]) \in Nat /\ Cardinality(C2) \in Nat
        /\ barrier_rdy1_cnt[a] \in Nat /\ barrier_rdy2_cnt[a] \in Nat
    BY FiniteParts, AppCoreType DEF ReportingInv, BarrierTypeOK
  <2> QED
    BY <2>3, <2>4, <2>5, Expected
<1> QED
  BY <1>1, Counted, PTL

-----------------------------------------------------------------------------
(* No core starts before every core has come to the barrier.               *)

\* Neither the wait for the reports nor the wait for GO is given up.
NoneGivesUp == {"waitReady", "waitGo"} \cap Timeouts = {}

\* A root core that has reported speaks for the cores of its chip, the one of
\* chip (0,0) for all.
ReadyInv ==
  FirstStart =>
    \A a \in AtGo : rootAp[a] =>
      /\ \A b \in AppCores : b[1] = a[1] => b \in AtGo
      /\ a[1] = RootChip => AtGo = AppCores

IsGo(p) == p.type = "mc" /\ p.key = GO

NoGoYet ==
  /\ \A l \in Locations : \A n \in DOMAIN Boxes[l] : ~IsGo(Boxes[l][n])
  /\ \A a \in AppCores : ~barrier_go[a] /\ ~StartedOnce(a)

GoInv == AtGo = AppCores \/ NoGoYet

\* A root core whose counters are full: every core that it waits for is at the
\* barrier.
LEMMA ChipReported ==
  ASSUME ReportingInv, FirstStart, NEW a \in AppCores, rootAp[a],
         barrier_rdy1_cnt[a] >= my_ncores(a[1]),
         NEW b \in AppCores, b[1] = a[1], b # a
  PROVE  b \in AtGo
<1>1. PICK C1 \in [Chips -> SUBSET Cores], C2 \in SUBSET Chips :
        Tokens(Boxes, SentRdy1, SentRdy2, C1, C2) /\ Tallies(C1, C2)
  BY DEF ReportingInv, CountsInv
<1>2. /\ Cardinality(C1[a[1]]) <= Cardinality(Others(a))
      /\ Cardinality(C1[a[1]]) = Cardinality(Others(a)) => C1[a[1]] = Others(a)
  BY <1>1, CountedAreOthers DEF ReportingInv
<1>3. barrier_rdy1_cnt[a] <= 1 + Cardinality(C1[a[1]])
  BY <1>1 DEF Tallies
<1>4. Cardinality(C1[a[1]]) \in Nat /\ barrier_rdy1_cnt[a] \in Nat
  BY FiniteParts, AppCoreType DEF ReportingInv, BarrierTypeOK
<1>5. C1[a[1]] = Others(a)
  BY <1>2, <1>3, <1>4, Expected
<1>6. b[2] \in C1[a[1]]
  BY <1>5, AppCoreType DEF Others
<1> QED
  BY <1>1, <1>6, AppCoreType DEF Tokens, SentRdy1

LEMMA AllReported ==
  ASSUME ReportingInv, ReadyInv, FirstStart, NEW a \in AppCores, rootAp[a],
         a[1] = RootChip, AllReady(a),
         NEW b \in AppCores, b # a
  PROVE  b \in AtGo
<1>1. CASE b[1] = a[1]
  BY <1>1, ChipReported DEF AllReady
<1>2. CASE b[1] # a[1]
  <2>1. PICK C1 \in [Chips -> SUBSET Cores], C2 \in SUBSET Chips :
          Tokens(Boxes, SentRdy1, SentRdy2, C1, C2) /\ Tallies(C1, C2)
    BY DEF ReportingInv, CountsInv
  <2>2. /\ Cardinality(C2) <= Cardinality(OtherChips)
        /\ Cardinality(C2) = Cardinality(OtherChips) => C2 = OtherChips
    BY <2>1, CountedAreOthers DEF ReportingInv
  <2>3. barrier_rdy2_cnt[a] <= 1 + Cardinality(C2)
    BY <2>1 DEF Tallies
  <2>4. Cardinality(C2) \in Nat /\ barrier_rdy2_cnt[a] \in Nat
    BY FiniteParts DEF ReportingInv, BarrierTypeOK
  <2>5. C2 = OtherChips
    BY <2>2, <2>3, <2>4, Expected DEF AllReady
  <2>6. b[1] \in C2
    BY <1>2, <2>5, AppCoreType DEF OtherChips
  <2>7. PICK r \in AppCores \cap SentRdy2 : r[1] = b[1]
    BY <2>1, <2>6 DEF Tokens
  <2> QED
    BY <2>7 DEF ReadyInv, SentRdy2
<1> QED
  BY <1>1, <1>2

\* How a worker comes to the barrier and leaves it.
LEMMA WorkerArrives ==
  ASSUME BarrierTypeOK, NEW a \in AppCores, Worker(a),
         place'[a] # place[a], {place[a], place'[a]} \cap {"waitGo", "running"} # {}
  PROVE  \/ /\ SendGo(a) \/ SendRdy2(a) \/ SendRdy1(a)
            /\ place[a] \notin {"waitGo", "running"} /\ place'[a] = "waitGo"
         \/ /\ Go(a) \/ GiveUp(a)
            /\ place[a] = "waitGo" /\ place'[a] = "running"
<1> USE DEF BarrierTypeOK, Moves
<1>1. CASE TryLock(a)
  BY <1>1 DEF TryLock
<1>2. CASE SendRdy1Route(a) \/ BarrierSetup(a) \/ InitCounts(a) \/ LetGo(a)
  BY <1>2 DEF SendRdy1Route, BarrierSetup, InitCounts, LetGo
<1>3. CASE WaitRouter(a) \/ SetCoreMap(a) \/ SendRdygo(a)
  BY <1>3 DEF WaitRouter, SetCoreMap, SendRdygo
<1>4. CASE BarrierEnter(a)
  BY <1>4 DEF BarrierEnter
<1>5. CASE SendGo(a) \/ SendRdy2(a) \/ SendRdy1(a)
  BY <1>5 DEF SendGo, SendRdy2, SendRdy1
<1>6. CASE Go(a) \/ GiveUp(a)
  BY <1>6 DEF Go, GiveUp
<1>7. CASE ResendRdygo(a)
  BY <1>7 DEF ResendRdygo, ResendDue, barrierVars
<1> QED
  BY <1>1, <1>2, <1>3, <1>4, <1>5, <1>6, <1>7 DEF Worker, Advance

\* A root core reports when those that it speaks for have.
LEMMA ReadyNext ==
  ASSUME NoneGivesUp
  PROVE  ReportingInv /\ ReadyInv /\ [BarrierNext]_<<vars, barrierVars>>
         => ReadyInv'
<1> SUFFICES ASSUME ReportingInv, ReadyInv,
                    [BarrierNext]_<<vars, barrierVars>>, FirstStart',
                    NEW a \in AtGo', rootAp'[a]
             PROVE  /\ \A b \in AppCores : b[1] = a[1] => b \in AtGo'
                    /\ a[1] = RootChip => AtGo' = AppCores
  BY DEF ReadyInv
<1>0. /\ BarrierTypeOK /\ ControlInv /\ a \in AppCores
      /\ FirstStart /\ AtGo \subseteq AtGo' /\ AtGo' \subseteq AppCores
      /\ \A b \in AtGo : rootAp'[b] = rootAp[b]
  BY AtGoStays DEF ReportingInv, AtGo
<1>1. CASE a \in AtGo
  BY <1>0, <1>1 DEF ReadyInv
<1>2. CASE a \notin AtGo
  <2>1. /\ launches[a] = 1 /\ launches'[a] = 1
        /\ place[a] \notin {"waitGo", "running"}
        /\ place'[a] \in {"waitGo", "running"}
    BY <1>0, <1>2 DEF AtGo, FirstStart
  <2>2. Worker(a)
    <3>1. ASSUME NEW b \in AppCores, Worker(b) PROVE b = a
      BY <1>0, <2>1, <3>1, WorkerStays
    <3>2. ASSUME NEW b \in AppCores, cmd_as(b) PROVE FALSE
      BY <1>0, <2>1, <3>2 DEF cmd_as, StartedOnce
    <3>3. ASSUME NEW b \in AppCores, SetEntry(b) PROVE place' = place
      BY <3>3 DEF SetEntry, barrierVars
    <3>4. ASSUME NEW b \in Chips \X Cores, read_mc(b) PROVE place' = place
      BY <3>4 DEF read_mc
    <3> QED
      BY <2>1, <3>1, <3>2, <3>3, <3>4 DEF BarrierNext, barrierVars
  <2>3. SendGo(a) \/ SendRdy2(a) \/ SendRdy1(a)
    BY <1>0, <2>1, <2>2, WorkerArrives
  <2>4. rootAp[a]
    <3>1. UNCHANGED rootAp
      BY <2>3 DEF SendGo, SendRdy2, SendRdy1, locks
    <3> QED
      BY <3>1
  <2>5. CASE SendGo(a)
    <3>1. AllReady(a) /\ a[1] = RootChip
      BY <2>5 DEF SendGo, Over, NoneGivesUp
    <3>2. \A b \in AppCores : b # a => b \in AtGo
      BY <1>0, <2>4, <3>1, AllReported
    <3> QED
      BY <1>0, <3>2
  <2>6. CASE SendRdy2(a)
    <3>1. barrier_rdy1_cnt[a] >= my_ncores(a[1]) /\ a[1] # RootChip
      BY <2>6 DEF SendRdy2, Over, ChipReady, NoneGivesUp
    <3>2. \A b \in AppCores : b[1] = a[1] /\ b # a => b \in AtGo
      BY <1>0, <2>4, <3>1, ChipReported
    <3> QED
      BY <1>0, <3>1, <3>2
  <2>7. CASE SendRdy1(a)
    <3>1. place[a] = "waitLock"
      BY <2>7 DEF SendRdy1, Moves
    <3> QED
      BY <1>0, <2>4, <3>1 DEF ControlInv, Control
  <2> QED
    BY <2>3, <2>5, <2>6, <2>7
<1> QED
  BY <1>1, <1>2

LEMMA PassNoGo ==
  ASSUME NEW B \in BoxTypes, NEW D \in BoxTypes, NEW k \in Locations,
         NEW T, Passes(B, D, k, T),
         \A l \in Locations : \A n \in DOMAIN B[l] : ~IsGo(B[l][n])
  PROVE  \A l \in Locations : \A n \in DOMAIN D[l] : ~IsGo(D[l][n])
<1> SUFFICES ASSUME NEW l \in Locations, NEW n \in DOMAIN D[l]
             PROVE  ~IsGo(D[l][n])
  OBVIOUS
<1>1. \/ l # k /\ n \in DOMAIN B[l] /\ D[l][n] = B[l][n]
      \/ l = k /\ n + 1 \in DOMAIN B[k] /\ D[l][n] = B[k][n + 1]
      \/ /\ l # k /\ l \in T /\ n = Len(B[l]) + 1
         /\ 1 \in DOMAIN B[k] /\ D[l][n] = B[k][1]
  BY PassOrigin
<1> QED
  BY <1>1

LEMMA GainNoGo ==
  ASSUME NEW B \in BoxTypes, NEW D \in BoxTypes, NEW k \in Locations,
         NEW x \in Packets, Gains(B, D, k, x), ~IsGo(x),
         \A l \in Locations : \A n \in DOMAIN B[l] : ~IsGo(B[l][n])
  PROVE  \A l \in Locations : \A n \in DOMAIN D[l] : ~IsGo(D[l][n])
<1> SUFFICES ASSUME NEW l \in Locations, NEW n \in DOMAIN D[l]
             PROVE  ~IsGo(D[l][n])
  OBVIOUS
<1>1. \/ n \in DOMAIN B[l] /\ D[l][n] = B[l][n]
      \/ l = k /\ n = Len(B[k]) + 1 /\ D[l][n] = x
  BY GainOrigin
<1> QED
  BY <1>1

\* A core that leaves has seen GO or has no GO to wait for.
LEMMA LeavesAfterAll ==
  ASSUME NoneGivesUp, ReportingInv, ReadyInv, GoInv, NEW a \in AppCores,
         Go(a) \/ GiveUp(a)
  PROVE  AtGo = AppCores
<1> SUFFICES ASSUME NoGoYet PROVE AtGo = AppCores
  BY DEF GoInv
<1>0. ControlInv /\ FirstStart
  BY DEF ReportingInv, ControlInv, FirstStart, NoGoYet
<1>1. CASE Go(a)
  BY <1>1 DEF Go, Over, NoneGivesUp, NoGoYet
<1>2. CASE GiveUp(a)
  <2> DEFINE r == <<RootChip, lockedBy[RootChip]>>
  <2>1. /\ lockedBy[RootChip] # -1
        /\ \A b \in AppCores : b[1] = RootChip /\ rootAp[b] =>
             place[b] \in {"waitGo", "running"}
    BY <1>2 DEF GiveUp, GoToCome
  <2>2. RootChip \in Chips
    BY ChipIdInverse, BoardAssumption DEF RootChip, OnBoard
  <2>3. lockedBy[RootChip] \in core_map[RootChip]
    BY <1>0, <2>1, <2>2 DEF ControlInv
  <2>4. r \in AppCores /\ r[1] = RootChip /\ r[2] = lockedBy[RootChip]
    BY <2>2, <2>3, BarrierConstants DEF AppCores
  <2>5. rootAp[r]
    BY <1>0, <2>4 DEF ControlInv, Control, FirstStart
  <2>6. r \in AtGo
    BY <2>1, <2>4, <2>5 DEF AtGo
  <2> QED
    BY <1>0, <2>4, <2>5, <2>6 DEF ReadyInv
<1> QED
  BY <1>1, <1>2

LEMMA GoNext ==
  ASSUME NoneGivesUp
  PROVE  ReportingInv /\ ReportingInv' /\ ReadyInv /\ ReadyInv' /\ GoInv
         /\ [BarrierNext]_<<vars, barrierVars>> => GoInv'
<1> SUFFICES ASSUME ReportingInv, ReportingInv', ReadyInv, ReadyInv', GoInv,
                    [BarrierNext]_<<vars, barrierVars>>, AtGo' # AppCores
             PROVE  NoGoYet'
  BY DEF GoInv
<1>0. /\ BarrierTypeOK /\ TypeOK /\ TypeOK' /\ ControlInv
      /\ AtGo # AppCores /\ NoGoYet
  <2>1. AtGo \subseteq AtGo' /\ AtGo' \subseteq AppCores
    BY AtGoStays DEF ReportingInv, AtGo
  <2>2. AtGo # AppCores
    BY <2>1
  <2> QED
    BY <2>2 DEF ReportingInv, GoInv, BarrierTypeOK
<1>1. Boxes \in BoxTypes /\ Boxes' \in BoxTypes
  BY <1>0, BoxesNextType
<1> DEFINE D == Boxes'
           NoGo == \A l \in Locations : \A n \in DOMAIN D[l] : ~IsGo(D[l][n])
<1>2. ASSUME NoGo, \A a \in AppCores : ~barrier_go'[a] /\ ~StartedOnce(a)'
      PROVE  NoGoYet'
  BY <1>2 DEF NoGoYet
<1>3. /\ \A l \in Locations : \A n \in DOMAIN Boxes[l] : ~IsGo(Boxes[l][n])
      /\ \A a \in AppCores : ~barrier_go[a] /\ ~StartedOnce(a)
  BY <1>0 DEF NoGoYet
<1>4. UNCHANGED Boxes => NoGo
  BY <1>3
<1>5. ASSUME NEW a \in AppCores, NEW x \in Packets, ~IsGo(x),
             Gains(Boxes, Boxes', <<"up", a[1], a[2]>>, x)
      PROVE  NoGo
  <2>1. <<"up", a[1], a[2]>> \in Locations
    BY BoxAt, AppCoreType
  <2> HIDE DEF D
  <2>2. Gains(Boxes, D, <<"up", a[1], a[2]>>, x) /\ D \in BoxTypes
    BY <1>1, <1>5 DEF D
  <2> QED
    BY <1>1, <1>3, <1>5, <2>1, <2>2, GainNoGo
<1>6. ASSUME NEW k \in Locations, NEW T, Passes(Boxes, Boxes', k, T)
      PROVE  NoGo
  <2> HIDE DEF D
  <2>1. Passes(Boxes, D, k, T) /\ D \in BoxTypes
    BY <1>1, <1>6 DEF D
  <2> QED
    BY <1>1, <1>3, <1>6, <2>1, PassNoGo
<1>7. ASSUME NEW a \in AppCores, NEW x \in RoutePackets,
             Gains(Boxes, Boxes', <<"up", a[1], a[2]>>, x)
      PROVE  NoGo
  <2>1. x \in Packets /\ ~IsGo(x)
    BY DEF Packets, RoutePackets, IsGo
  <2> QED
    BY <1>5, <1>7, <2>1
<1> HIDE DEF NoGo
<1>8. UNCHANGED <<place, launches, barrier_go>> =>
        \A a \in AppCores : ~barrier_go'[a] /\ ~StartedOnce(a)'
  BY <1>3 DEF StartedOnce
<1>9. ASSUME NEW a \in AppCores, Worker(a)
      PROVE  NoGo /\ \A b \in AppCores : ~barrier_go'[b] /\ ~StartedOnce(b)'
  <2>1. ~SendGo(a)
    <3> SUFFICES ASSUME SendGo(a) PROVE FALSE
      OBVIOUS
    <3>1. /\ place'[a] = "waitGo" /\ place[a] = "waitReady"
          /\ rootAp' = rootAp /\ launches' = launches /\ a[1] = RootChip
      BY <1>0 DEF SendGo, Moves, locks, BarrierTypeOK
    <3>2. rootAp[a]
      BY <1>0, <3>1 DEF ControlInv, Control, RootPlaces
    <3>3. FirstStart /\ FirstStart'
      BY <1>0, <1>3, <3>1 DEF ControlInv, FirstStart
    <3>4. a \in AtGo'
      BY <3>1 DEF AtGo
    <3> QED
      BY <3>1, <3>2, <3>3, <3>4 DEF ReadyInv
  <2>2. ~Go(a) /\ ~GiveUp(a)
    BY <1>0, LeavesAfterAll
  <2>3. launches' = launches /\ \A b \in AppCores : b # a => place'[b] = place[b]
    BY <1>0, <1>9, WorkerStays
  <2>4. place'[a] # "running"
    <3>1. CASE place'[a] = place[a]
      BY <1>3, <3>1 DEF StartedOnce
    <3>2. CASE place'[a] # place[a]
      BY <1>0, <1>9, <2>2, <3>2, WorkerArrives
    <3> QED
      BY <3>1, <3>2
  <2>5. \A b \in AppCores : ~StartedOnce(b)'
    BY <1>3, <2>3, <2>4 DEF StartedOnce
  <2>6. UNCHANGED barrier_go
    BY <1>9 DEF Worker, Advance, TryLock, SendRdy1Route, InitCounts, LetGo,
                WaitRouter, SetCoreMap, BarrierSetup, BarrierEnter, SendRdygo,
                SendGo, SendRdy2, SendRdy1, Go, GiveUp, ResendRdygo,
                barrierVars, flags
  <2>7. ASSUME NEW k \in BarrierKeys, k = GO => SendGo(a),
               Gains(Boxes, Boxes', <<"up", a[1], a[2]>>, Message(a, k))
        PROVE  NoGo
    <3>1. Message(a, k) \in Packets /\ ~IsGo(Message(a, k))
      BY <2>1, <2>7, MessageType DEF Packets, Message, IsGo
    <3> QED
      BY <1>5, <2>7, <3>1
  <2>8. NoGo
    BY <1>0, <1>4, <1>7, <1>9, <2>7, WorkerBoxes
  <2> QED
    BY <1>3, <2>5, <2>6, <2>8
<1>10. ASSUME NEW a \in AppCores, SetEntry(a) PROVE NoGoYet'
  <2>1. UNCHANGED <<place, launches, barrier_go>>
    BY <1>10 DEF SetEntry, barrierVars, flags
  <2>2. NoGo
    BY <1>0, <1>7, <1>10, SetEntryBoxes
  <2> QED
    BY <1>2, <1>8, <2>1, <2>2
<1>11. ASSUME NEW a \in AppCores, cmd_as(a) PROVE FALSE
  BY <1>3, <1>11 DEF cmd_as
<1>12. CASE Dispatcher /\ UNCHANGED <<sends, barrierVars>>
  <2>1. UNCHANGED <<place, launches, barrier_go>>
    BY <1>12 DEF barrierVars, flags
  <2>2. chip \in Chips /\ core \in Cores /\ 0 \in Cores
    BY <1>0, SomeCore DEF TypeOK
  <2>3. <<"up", chip, core>> \in Locations /\ <<"mc", chip, 0>> \in Locations
    BY <2>2, BoxAt
  <2>4. NoGo
    BY <1>0, <1>4, <1>6, <1>12, <2>3, DispatcherBoxes
  <2> QED
    BY <1>2, <1>8, <2>1, <2>4
<1>13. ASSUME NEW a \in Chips \X Cores, read_mc(a) PROVE NoGoYet'
  <2> DEFINE k == <<"down", a[1], a[2]>>
  <2>1. /\ k \in Locations /\ 1 \in DOMAIN Boxes[k]
        /\ Boxes[k][1] = Head(down[a[1]][a[2]])
        /\ Boxes[k][1] \in McPackets
        /\ Passes(Boxes, Boxes', k, {})
    BY <1>0, <1>13, ReadHead
  <2>2. Head(down[a[1]][a[2]]).key # GO
    BY <1>3, <2>1 DEF IsGo, McPackets
  <2>3. UNCHANGED <<place, launches, barrier_go>>
    BY <1>13, <2>2 DEF read_mc, Raised, locks
  <2>4. NoGo
    BY <1>6, <2>1
  <2> QED
    BY <1>2, <1>8, <2>3, <2>4
<1>14. CASE UNCHANGED <<vars, barrierVars>>
  <2>1. UNCHANGED Boxes /\ UNCHANGED <<place, launches, barrier_go>>
    BY <1>14 DEF vars, routerVars, dispatcher, Boxes, barrierVars, flags
  <2> QED
    BY <1>2, <1>4, <1>8, <2>1
<1> QED
  BY <1>2, <1>9, <1>10, <1>11, <1>12, <1>13, <1>14 DEF BarrierNext

\* Every step of the barrier is a step of the rendezvous: a core that reports
\* arrives, one that has seen GO or given it up leaves, and the others, the
\* later starts among them, are no step.
LEMMA MeetingStep ==
  ASSUME NoneGivesUp
  PROVE  ReportingInv /\ ReadyInv /\ GoInv
         /\ [BarrierNext]_<<vars, barrierVars>> => [Meeting!Next]_(Meeting!vars)
<1> SUFFICES ASSUME ReportingInv, ReadyInv, GoInv,
                    [BarrierNext]_<<vars, barrierVars>>,
                    ~(UNCHANGED <<AtGo, Running>>)
             PROVE  Meeting!Next
  BY DEF Meeting!vars
<1>0. BarrierTypeOK /\ ControlInv
  BY DEF ReportingInv
<1>1. ~(UNCHANGED <<place, launches>>)
  BY DEF AtGo, Running, StartedOnce
<1>2. ASSUME NEW a \in AppCores, cmd_as(a) PROVE FALSE
  <2>1. /\ launches' = [launches EXCEPT ![a] = @ + 1]
        /\ place' = [place EXCEPT ![a] = "start"]
        /\ \A b \in AppCores : StartedOnce(b)
    BY <1>2 DEF cmd_as
  <2>2. launches[a] \in Nat /\ launches[a] >= 1
    BY <1>0 DEF BarrierTypeOK
  <2>3. \A b \in AppCores : StartedOnce(b)'
    BY <1>0, <2>1, <2>2 DEF StartedOnce, BarrierTypeOK
  <2>4. AtGo' = AppCores /\ AtGo = AppCores
        /\ Running' = AppCores /\ Running = AppCores
    BY <2>1, <2>3 DEF AtGo, Running, StartedOnce
  <2> QED
    BY <2>4
<1>3. PICK a \in AppCores : Worker(a)
  <2>1. ASSUME NEW b \in AppCores, SetEntry(b)
        PROVE  UNCHANGED <<place, launches>>
    BY <2>1 DEF SetEntry, barrierVars
  <2>2. ASSUME NEW b \in Chips \X Cores, read_mc(b)
        PROVE  UNCHANGED <<place, launches>>
    BY <2>2 DEF read_mc, locks
  <2> QED
    BY <1>1, <1>2, <2>1, <2>2 DEF BarrierNext, barrierVars
<1>4. /\ launches' = launches
      /\ \A b \in AppCores : b # a => place'[b] = place[b]
  BY <1>0, <1>3, WorkerStays
<1>5. /\ launches[a] = 1 /\ place'[a] # place[a]
      /\ {place[a], place'[a]} \cap {"waitGo", "running"} # {}
  <2> SUFFICES ASSUME \/ launches[a] > 1 \/ place'[a] = place[a]
                      \/ {place[a], place'[a]} \cap {"waitGo", "running"} = {}
               PROVE  FALSE
    BY <1>0 DEF BarrierTypeOK
  <2>1. \A b \in AppCores :
          /\ launches'[b] > 1 \/ place'[b] \in {"waitGo", "running"}
               <=> launches[b] > 1 \/ place[b] \in {"waitGo", "running"}
          /\ launches'[b] > 1 \/ place'[b] = "running"
               <=> launches[b] > 1 \/ place[b] = "running"
    BY <1>4
  <2> QED
    BY <2>1 DEF AtGo, Running, StartedOnce
<1>6. CASE /\ place[a] \notin {"waitGo", "running"} /\ place'[a] = "waitGo"
  <2>1. a \notin AtGo /\ AtGo' = AtGo \cup {a} /\ Running' = Running
    BY <1>4, <1>5, <1>6 DEF AtGo, Running, StartedOnce
  <2> QED
    BY <2>1 DEF Meeting!Next, Meeting!Arrive
<1>7. CASE /\ Go(a) \/ GiveUp(a)
           /\ place[a] = "waitGo" /\ place'[a] = "running"
  <2>1. a \notin Running /\ Running' = Running \cup {a} /\ AtGo' = AtGo
    BY <1>4, <1>5, <1>7 DEF AtGo, Running, StartedOnce
  <2>2. AtGo = AppCores
    BY <1>7, LeavesAfterAll
  <2> QED
    BY <2>1, <2>2 DEF Meeting!Next, Meeting!Leave
<1> QED
  BY <1>0, <1>3, <1>5, <1>6, <1>7, WorkerArrives

LEMMA MeetingInit ==
  BarrierInit => ReadyInv /\ GoInv /\ Meeting!Init
<1> SUFFICES ASSUME BarrierInit PROVE ReadyInv /\ GoInv /\ Meeting!Init
  OBVIOUS
<1>1. AtGo = {} /\ Running = {}
  BY DEF BarrierInit, AtGo, Running, StartedOnce
<1>2. NoGoYet
  BY EmptyBoxes DEF BarrierInit, NoGoYet, StartedOnce
<1> QED
  BY <1>1, <1>2 DEF ReadyInv, GoInv, Meeting!Init

\* barrier_wait is a barrier: on every board and for every map of the cores no
\* core starts its simulation before every application core has reported,
\* whatever packets are lost and whatever other waits run out of time, unless
\* the waits for the reports and for GO are given up.
THEOREM BarrierImplementsRendezvous ==
  ASSUME ApplicationKeysApart, NoneGivesUp
  PROVE  BarrierSpec => NoneStartsEarly
<1>1. BarrierInit => ReadyInv /\ GoInv /\ Meeting!Init
  BY MeetingInit
<1>2. ReportingInv /\ ReadyInv /\ [BarrierNext]_<<vars, barrierVars>>
      => ReadyInv'
  BY ReadyNext
<1>3. ReportingInv /\ ReportingInv' /\ ReadyInv /\ ReadyInv' /\ GoInv
      /\ [BarrierNext]_<<vars, barrierVars>> => GoInv'
  BY GoNext
<1>4. ReportingInv /\ ReadyInv /\ GoInv
      /\ [BarrierNext]_<<vars, barrierVars>> => [Meeting!Next]_(Meeting!vars)
  BY MeetingStep
<1>5. BarrierSpec => []ReportingInv
  BY Counted
<1> QED
  BY <1>1, <1>2, <1>3, <1>4, <1>5, PTL
  DEF BarrierSpec, NoneStartsEarly, Meeting!Spec
=============================================================================
