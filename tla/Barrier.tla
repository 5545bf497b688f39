------------------------------- MODULE Barrier -------------------------------
(***************************************************************************)
(* The barrier the application cores pass before their simulation starts   *)
(* (spin_emu_api.c: rts_init, spin1_set_core_map, barrier_setup,           *)
(* barrier_wait), over the multicast router of the dispatcher.             *)
(*                                                                         *)
(* On each chip the core that takes the chip's lock first is the root      *)
(* application core.  It installs the chip's routes.  The others report to *)
(* it with RDY1, it reports to the root core of chip (0,0) with RDY2, once *)
(* RDYGO has come down the tree, and GO, down the same tree, starts all.   *)
(*                                                                         *)
(* When all have started, the host may start the application again: AS     *)
(* replaces a core's program (cmd_as of scamp_emu.c), which resets what    *)
(* the process kept in its memory.  The lock, which belongs to a file the  *)
(* process keeps open, sv->lock, which is in a file that the chip's cores  *)
(* map, the routing tables and the sockets outlive it.                     *)
(*                                                                         *)
(* A worker is at place[a]; its core's controller thread reads the socket  *)
(* beside it.  core_map is indexed by chip_id, which is what my_chip is on *)
(* the square boards barrier_setup is made for.                            *)
(***************************************************************************)
EXTENDS McRouter

CONSTANTS
  core_map,                     \* chip -> its application cores
  RDYGO, RDY1, RDY2, GO,        \* the barrier's routing keys
  Timeouts,                     \* the waits that may run out of time
  MaxLaunches                   \* bound: how often a core is started

AppCores == {a \in Chips \X Cores : a[2] \in core_map[a[1]]}
ncores == Cardinality(AppCores)
BarrierKeys == {RDYGO, RDY1, RDY2, GO}
Waits == {"waitRouter", "waitLock", "waitReady", "waitGo"}
Places == Waits \cup
  {"start", "rdy1Route", "counts", "letGo", "c_main", "rdygoRoute",
   "rdy2Route", "goRoute", "spin1_start", "sendRdygo", "running"}

ASSUME BarrierAssumption ==
  /\ NUM_CHIPS_X = NUM_CHIPS_Y
  /\ \E b \in 0 .. NUM_CHIPS_X : NUM_CHIPS_X = 2 ^ b
  /\ core_map \in [Chips -> SUBSET (Cores \ {0})]
  /\ ncores > 1    \* with one core there is no barrier
  /\ Cardinality(BarrierKeys) = 4
  /\ BarrierKeys \subseteq Keys
  /\ NUM_ROUTES > 3
  /\ Timeouts \subseteq Waits
  /\ MaxLaunches \in Nat \ {0}

VARIABLES
  place,       \* application core -> its worker's place
  lockedBy,    \* chip -> the core that holds the chip's lock, or -1
  rootAp,      \* application core -> it took the lock when it was started
  launches,    \* application core -> how often it has been started
  svLock,      \* chip -> sv->lock: CLEAR_LCK, RTR_INIT_LCK, RDYGO_LCK
  barrier_rdy1_cnt, barrier_rdy2_cnt, barrier_rdygo, barrier_go

locks == <<lockedBy, rootAp, launches>>
counts == <<barrier_rdy1_cnt, barrier_rdy2_cnt>>
flags == <<barrier_rdygo, barrier_go>>
barrierVars == <<place, lockedBy, rootAp, launches, svLock, counts, flags>>

CLEAR_LCK == 0
RTR_INIT_LCK == 1
RDYGO_LCK == 2

BarrierInit ==
  /\ RouterInit /\ sends = MaxSends
  /\ place = [a \in AppCores |-> "start"]
  /\ lockedBy = [c \in Chips |-> -1]
  /\ rootAp = [a \in AppCores |-> FALSE]
  /\ launches = [a \in AppCores |-> 1]
  /\ svLock = [c \in Chips |-> CLEAR_LCK]
  /\ barrier_rdy1_cnt = [a \in AppCores |-> 0]
  /\ barrier_rdy2_cnt = [a \in AppCores |-> 0]
  /\ barrier_rdygo = [a \in AppCores |-> FALSE]
  /\ barrier_go = [a \in AppCores |-> FALSE]

-----------------------------------------------------------------------------
(* The map and the routes.                                                 *)

my_ncores(c) == Cardinality(core_map[c])

RootChip == chip_id(0, 0)

CountedFromZero ==
  Cardinality({c \in Chips \ {RootChip} : core_map[c] # {}})
\* nchips starts at 1 and counts the other chips with application cores.
nchips == 1 + Cardinality({c \in Chips \ {RootChip} : core_map[c] # {}})

\* The links of the tree from chip c away from the root chip.
off_route(c) ==
  LET x == chip_my_x(c)
      y == chip_my_y(c)
      bside == NUM_CHIPS_Y
      Populated(d) == core_map[d] # {}
  IN  {l \in {NORTH, EAST, NORTH_EAST} :
         \/ l = NORTH /\ x = 0 /\ y < bside - 1 /\ Populated(c + 1)
         \/ l = EAST /\ y = 0 /\ x < bside - 1 /\ Populated(c + bside)
         \/ /\ l = NORTH_EAST
            /\ x < bside - 1 /\ y < bside - 1
            /\ Populated(c + bside + 1)}

To(k, ls, cs) == [keys |-> {k}, links |-> ls, cores |-> cs]

\* CORE_ROUTE of the chip's own address, (x << 8) | y: a shift of a 32-bit
\* word by that many places and NUM_LINKS more, of which the processor takes
\* the remainder by 32.  The bit may name a link or a core.
ChipAddressBit(c) == (256 * chip_my_x(c) + chip_my_y(c) + NUM_LINKS) % 32
rdygo_route(c) ==
  IF c = RootChip THEN To(RDYGO, off_route(c), {})
  ELSE LET b == ChipAddressBit(c)
       IN  To(RDYGO, off_route(c) \cup (Links \cap {b}),
              Cores \cap {b - NUM_LINKS})

rdy2_route(c, i) ==
  IF c = RootChip THEN To(RDY2, {}, {i}) ELSE To(RDY2, {p2p_get(c)}, {})

go_route(c) == To(GO, off_route(c), core_map[c])

-----------------------------------------------------------------------------
(* Steps of a worker.                                                      *)

Moves(a, from, to) == place[a] = from /\ place' = [place EXCEPT ![a] = to]

StoreRouteOneBased(a, index, r) ==
  spin_emu_send_route(a[1], a[2], index + 1, r)
StoreRoute(a, index, r) == spin_emu_send_route(a[1], a[2], index, r)

Send(a, k) ==
  SendMc(a[1], a[2], [type |-> "mc", key |-> k, chip |-> a[1],
                      core |-> a[2], n |-> 0])

\* lock_try opens the chip's lock file anew and asks for the lock without
\* waiting: a lock taken through another opening of the file refuses it, the
\* caller's own from before its last start not excepted.
LockFree(a) == lockedBy[a[1]] = -1

\* The first core of the chip becomes its root.
TryLock(a) ==
  /\ \/ /\ LockFree(a)
        /\ lockedBy' = [lockedBy EXCEPT ![a[1]] = a[2]]
        /\ rootAp' = [rootAp EXCEPT ![a] = TRUE]
        /\ Moves(a, "start", "rdy1Route")
     \/ /\ ~LockFree(a)
        /\ UNCHANGED <<lockedBy, rootAp>>
        /\ Moves(a, "start", "waitRouter")
  /\ UNCHANGED <<routerVars, launches, svLock, counts, flags>>

SendRdy1Route(a) ==
  /\ Moves(a, "rdy1Route", "counts")
  /\ StoreRoute(a, 2, To(RDY1, {}, {a[2]}))
  /\ UNCHANGED <<locks, svLock, counts, flags>>

\* The root is ready itself: it counts for both of its counters.
InitCounts(a) ==
  /\ Moves(a, "counts", "letGo")
  /\ barrier_rdy1_cnt' = [barrier_rdy1_cnt EXCEPT ![a] = 1]
  /\ barrier_rdy2_cnt' = [barrier_rdy2_cnt EXCEPT ![a] = 1]
  /\ UNCHANGED <<routerVars, locks, svLock, flags>>

LetGo(a) ==
  /\ Moves(a, "letGo", "c_main")
  /\ svLock' = [svLock EXCEPT ![a[1]] = RTR_INIT_LCK]
  /\ UNCHANGED <<routerVars, locks, counts, flags>>

\* A wait ends when its condition holds or, where allowed, on time-out.
Over(wait, condition) == condition \/ wait \in Timeouts

WaitRouter(a) ==
  /\ Over("waitRouter", svLock[a[1]] >= RTR_INIT_LCK)
  /\ Moves(a, "waitRouter", "c_main")
  /\ UNCHANGED <<routerVars, locks, svLock, counts, flags>>

\* c_main calls spin1_set_core_map: the root core goes on to barrier_setup.
SetCoreMap(a) ==
  /\ Moves(a, "c_main",
           IF rootAp[a] THEN "rdygoRoute" ELSE "spin1_start")
  /\ UNCHANGED <<routerVars, locks, svLock, counts, flags>>

BarrierSetup(a) ==
  LET c == a[1]
  IN  /\ \/ /\ Moves(a, "rdygoRoute", "rdy2Route")
            /\ StoreRoute(a, 1, rdygo_route(c))
         \/ /\ Moves(a, "rdy2Route", "goRoute")
            /\ StoreRoute(a, 3, rdy2_route(c, a[2]))
         \/ /\ Moves(a, "goRoute", "spin1_start")
            /\ StoreRoute(a, 0, go_route(c))
      /\ UNCHANGED <<locks, svLock, counts, flags>>

\* The application's own entries, installed by c_main.
SetEntry(a) ==
  /\ place[a] = "spin1_start"
  /\ sends > 0
  /\ sends' = sends - 1
  /\ \E e \in AppEntries[a[1]] :
       /\ e.entry < APP_MC_ENTRIES
       /\ StoreRoute(a, e.entry + SYS_MC_ENTRIES, e.route)
  /\ UNCHANGED barrierVars

BarrierEnter(a) ==
  /\ \/ /\ rootAp[a]
        /\ Moves(a, "spin1_start",
                 IF a[1] = RootChip THEN "sendRdygo" ELSE "waitReady")
        /\ svLock' = [svLock EXCEPT ![a[1]] = RDYGO_LCK]
     \/ /\ ~rootAp[a]
        /\ Moves(a, "spin1_start", "waitLock")
        /\ UNCHANGED svLock
  /\ UNCHANGED <<routerVars, locks, counts, flags>>

SendRdygo(a) ==
  /\ Moves(a, "sendRdygo", "waitReady")
  /\ Send(a, RDYGO)
  /\ UNCHANGED <<locks, svLock, counts, flags>>

\* Timing assumption: BARRIER_RESEND_WAIT, 100 ms, is long enough for the
\* RDYGO sent before to have come to its end.
InFlight(k) ==
  LET Has(q) == \E n \in DOMAIN q : q[n].type = "mc" /\ q[n].key = k
  IN  \E c \in Chips :
        Has(mc_queue[c]) \/ \E i \in Cores : Has(up[c][i]) \/ Has(down[c][i])

AllReady(a) ==
  /\ barrier_rdy1_cnt[a] >= my_ncores(a[1])
  /\ barrier_rdy2_cnt[a] >= nchips

NeverResent(a) == FALSE
ResendDue(a) ==
  /\ a[1] = RootChip
  /\ place[a] = "waitReady"
  /\ ~AllReady(a)
  /\ ~InFlight(RDYGO)

ResendRdygo(a) ==
  /\ ResendDue(a)
  /\ Send(a, RDYGO)
  /\ UNCHANGED barrierVars

\* The root core of the root chip, then the root cores of the others.
SendGo(a) ==
  /\ a[1] = RootChip
  /\ Over("waitReady", AllReady(a))
  /\ Moves(a, "waitReady", "waitGo")
  /\ Send(a, GO)
  /\ UNCHANGED <<locks, svLock, counts, flags>>

LocalReadyOnly(a) == barrier_rdygo[a]
ChipReady(a) == barrier_rdy1_cnt[a] >= my_ncores(a[1]) /\ barrier_rdygo[a]

SendRdy2(a) ==
  /\ a[1] # RootChip
  /\ Over("waitReady", ChipReady(a))
  /\ Moves(a, "waitReady", "waitGo")
  /\ Send(a, RDY2)
  /\ UNCHANGED <<locks, svLock, counts, flags>>

SendRdy1(a) ==
  /\ Over("waitLock", svLock[a[1]] >= RDYGO_LCK)
  /\ Moves(a, "waitLock", "waitGo")
  /\ Send(a, RDY1)
  /\ UNCHANGED <<locks, svLock, counts, flags>>

Go(a) ==
  /\ Over("waitGo", barrier_go[a])
  /\ Moves(a, "waitGo", "running")
  /\ UNCHANGED <<routerVars, locks, svLock, counts, flags>>

\* Timing assumption: a core waits for GO, BARRIER_GO_WAIT, longer than the
\* cores of a board take to report.  That time is over only where no GO can
\* come any more, since chip (0,0) has no root core that has still to send it.
GoToCome(a) ==
  \/ barrier_go[a]
  \/ InFlight(GO)
  \/ lockedBy[RootChip] = -1
  \/ \E b \in AppCores :
       /\ b[1] = RootChip /\ rootAp[b]
       /\ place[b] \notin {"waitGo", "running"}

GiveUp(a) ==
  /\ ~GoToCome(a)
  /\ Moves(a, "waitGo", "running")
  /\ UNCHANGED <<routerVars, locks, svLock, counts, flags>>

\* RDY1 is sent once: a root core waits for more of them than can come when
\* all cores of its chip have reported and none of their packets is under way.
ReportLost(a) ==
  /\ rootAp[a]
  /\ barrier_rdy1_cnt[a] < my_ncores(a[1])
  /\ ~InFlight(RDY1)
  /\ \A b \in AppCores :
       b[1] = a[1] =>
         \/ place[b] \in {"waitGo", "running"}
         \/ a = b /\ place[a] = "waitReady"

\* Timing assumption: BARRIER_RDY2_WAIT and BARRIER_RDYGO_WAIT, 25 s each, are
\* longer than the cores of a board take to report.  They run out where a
\* report has been lost, and then on every chip that still waits, in any order.
ReadyTimeout(a) ==
  /\ \E b \in AppCores : ReportLost(b)
  /\ Moves(a, "waitReady", "waitGo")
  /\ Send(a, IF a[1] = RootChip THEN GO ELSE RDY2)
  /\ UNCHANGED <<locks, svLock, counts, flags>>

Advance(a) ==
  \/ TryLock(a) \/ SendRdy1Route(a) \/ InitCounts(a) \/ LetGo(a)
  \/ WaitRouter(a) \/ SetCoreMap(a) \/ BarrierSetup(a)
  \/ BarrierEnter(a) \/ SendRdygo(a)
  \/ SendGo(a) \/ SendRdy2(a) \/ SendRdy1(a) \/ Go(a) \/ GiveUp(a)

Worker(a) == (Advance(a) \/ ResendRdygo(a)) /\ UNCHANGED sends

-----------------------------------------------------------------------------
(* Steps of a controller.                                                  *)

Plus(f, a, b) == IF b /\ a \in AppCores THEN [f EXCEPT ![a] = @ + 1] ELSE f
Raised(f, a, b) == IF b /\ a \in AppCores THEN [f EXCEPT ![a] = TRUE] ELSE f

\* Barrier keys are counted or noted; any other becomes an event.
read_mc(a) ==
  LET k == Head(down[a[1]][a[2]]).key
  IN  /\ read_packets(a[1], a[2])
      /\ barrier_rdy1_cnt' = Plus(barrier_rdy1_cnt, a, k = RDY1)
      /\ barrier_rdy2_cnt' = Plus(barrier_rdy2_cnt, a, k = RDY2)
      /\ barrier_rdygo' = Raised(barrier_rdygo, a, k = RDYGO)
      /\ barrier_go' = Raised(barrier_go, a, k = GO)
      /\ UNCHANGED <<place, locks, svLock, sends>>

\* The host starts the application again when every core has started.
StartedOnce(a) == launches[a] > 1 \/ place[a] = "running"

LockReleased(a) ==
  lockedBy' = [lockedBy EXCEPT ![a[1]] = IF @ = a[2] THEN -1 ELSE @]
LockKept(a) == UNCHANGED lockedBy

\* execv: the file of the lock stays open, and locked.
cmd_as(a) ==
  /\ \A b \in AppCores : StartedOnce(b)
  /\ launches[a] < MaxLaunches
  /\ launches' = [launches EXCEPT ![a] = @ + 1]
  /\ place' = [place EXCEPT ![a] = "start"]
  /\ rootAp' = [rootAp EXCEPT ![a] = FALSE]
  /\ barrier_rdy1_cnt' = [barrier_rdy1_cnt EXCEPT ![a] = 0]
  /\ barrier_rdy2_cnt' = [barrier_rdy2_cnt EXCEPT ![a] = 0]
  /\ barrier_rdygo' = [barrier_rdygo EXCEPT ![a] = FALSE]
  /\ barrier_go' = [barrier_go EXCEPT ![a] = FALSE]
  /\ LockKept(a)
  /\ UNCHANGED <<routerVars, sends, svLock>>

BarrierNext ==
  \/ Dispatcher /\ UNCHANGED <<sends, barrierVars>>
  \/ \E a \in AppCores : Worker(a) \/ SetEntry(a) \/ cmd_as(a)
  \/ \E a \in Chips \X Cores : read_mc(a)

BarrierSpec == BarrierInit /\ [][BarrierNext]_<<vars, barrierVars>>

\* The dispatcher, the workers and the controllers are processes and threads
\* that the operating system all runs; clock() goes on in the loops that wait,
\* so that a wait that may run out of time does.
BarrierTimedNext ==
  \/ BarrierNext
  \/ \E a \in AppCores : ReadyTimeout(a) /\ UNCHANGED sends

BarrierFairSpec ==
  /\ BarrierInit /\ [][BarrierTimedNext]_<<vars, barrierVars>>
  /\ WF_<<vars, barrierVars>>(Dispatcher /\ UNCHANGED <<sends, barrierVars>>)
  /\ \A a \in AppCores :
       /\ WF_<<vars, barrierVars>>(Advance(a) /\ UNCHANGED sends)
       /\ WF_<<vars, barrierVars>>(ResendRdygo(a) /\ UNCHANGED sends)
       /\ WF_<<vars, barrierVars>>(ReadyTimeout(a) /\ UNCHANGED sends)
  /\ \A a \in Chips \X Cores : WF_<<vars, barrierVars>>(read_mc(a))

-----------------------------------------------------------------------------
(* Properties.                                                             *)

BarrierTypeOK ==
  /\ TypeOK
  /\ place \in [AppCores -> Places]
  /\ lockedBy \in [Chips -> Cores \cup {-1}]
  /\ rootAp \in [AppCores -> BOOLEAN]
  /\ launches \in [AppCores -> 1 .. MaxLaunches]
  /\ svLock \in [Chips -> CLEAR_LCK .. RDYGO_LCK]
  /\ barrier_rdy1_cnt \in [AppCores -> Nat]
  /\ barrier_rdy2_cnt \in [AppCores -> Nat]
  /\ barrier_rdygo \in [AppCores -> BOOLEAN]
  /\ barrier_go \in [AppCores -> BOOLEAN]

\* The cores that have come to the barrier and reported, and the ones that
\* have left it, the first time they were started.
AtGo == {a \in AppCores : launches[a] > 1 \/ place[a] \in {"waitGo", "running"}}
Running == {a \in AppCores : StartedOnce(a)}

\* While neither GO nor the reports a root core waits for are given up,
\* barrier_wait is a barrier: no core starts before every core of every chip
\* has reported, whatever packets are lost.
Meeting == INSTANCE Rendezvous
             WITH Participants <- AppCores, arrived <- AtGo, left <- Running
NoneStartsEarly == Meeting!Spec

\* A root core never counts more reports than there are cores or chips to
\* make them: no report comes twice, by whatever way it is routed.
NeverOvercounts ==
  \A a \in AppCores : rootAp[a] /\ place[a] # "running" =>
    /\ barrier_rdy1_cnt[a] <= my_ncores(a[1])
    /\ barrier_rdy2_cnt[a] <= nchips

\* The lock, which is in the file system, and the RDY1 entry, which is in the
\* dispatcher, name the same core of a chip as long as the emulator runs, and
\* no other takes itself for the root, however often the cores are started.
RootStays ==
  \A c \in Chips :
    /\ spin_emu_routes[c][2].keys = {RDY1} =>
         spin_emu_routes[c][2].cores = {lockedBy[c]}
    /\ \A a \in AppCores : a[1] = c /\ rootAp[a] => lockedBy[c] = a[2]

\* Every core that is started comes to start its simulation: RDYGO is sent
\* until it has reached every chip, and a lost RDY1, which is not sent again,
\* costs the ready waits their time but stops nobody.
EveryoneStarts == []<>(\A a \in AppCores : place[a] = "running")

\* "packets to me and forward": the RDYGO entry of a chip other than the root
\* chip names the chip's root core.
RdygoComesToMe ==
  \A c \in Chips \ {RootChip} :
    RDYGO \in spin_emu_routes[c][1].keys =>
      lockedBy[c] \in spin_emu_routes[c][1].cores

\* "try to become root application core for this chip": a chip whose cores have
\* all tried, the last time they were started, has a root application core.
EveryLaunchHasRoot ==
  \A c \in Chips :
    core_map[c] # {} /\ (\A i \in core_map[c] : place[<<c, i>>] # "start") =>
      \E i \in core_map[c] : rootAp[<<c, i>>]
=============================================================================
