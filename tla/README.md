# SpiNNaker emulator: TLA+ models, model checking and proofs

The emulator runs a board of SpiNNaker chips on one Linux machine: every core
of every chip is a process, and one more process, the *dispatcher*, plays the
network: it carries the host's commands to the cores and the cores' packets to
each other.  This directory specifies the parts of that program that run
concurrently, model-checks them on small boards with TLC, and proves the most
important of their properties for every value of the constants with TLAPS.

1. Inventory: components, state, operations, interactions
2. The hard behaviours, and what makes each component correct
3. The modules, and how they correspond to the code
4. The runs: what each one shows
5. Bounds
6. Fairness
7. The proofs
8. Disagreements found
9. Abstractions and what is not modelled
10. Plan

Run a model with `tlc -config MCCoreEvents_base.cfg MCCoreEvents`, a proof with
`tlapm CoreEventsProofs.tla`.  `PROJECT.json` lists the runs, the mutants
that show that each property can fail, the source lines of every definition,
the hazards and the theorems.

## 1. Inventory

| Component | Source | State it keeps | Operations |
|---|---|---|---|
| Core run-time | `spin_emu_api.c`, `spin_emu_app.c` | `evinfo` (8 event types: priority, callback, linked queue), `evinfo_mutex`, `spin1_emu_quit`, `timer_tick`, the interval timer, `spin_emu_sim_time`, the signal masks and `spin_emu_interrupt_mode`, `dma_id` | `queue_event`, `spin1_callback_on/off`, `spin1_trigger_user_event`, `spin1_schedule_callback`, `spin1_dma_transfer`, `spin1_start`, `spin1_stop`, `spin1_kill`, `spin1_set_timer_tick`, `handle_timer_tick`, `spin1_*_disable`, `spin1_mode_restore`, `read_mc`, `read_sdp` |
| Multicast router | `spin_emu_dispatcher.c`, `spin_emu_util.c` | `spin_emu_routes` (a table per chip), `mc_queue` (a queue per chip), `mc_pending` | `dispatch_mc`, `store_route`, `queue_mc`, `route_mc`, `route_one_mc_queue`, `flush_mc_queues` |
| Synchronisation barrier | `spin_emu_api.c` | `rootAp`, `sv->lock` (shared by a chip), `barrier_rdy1_cnt`, `barrier_rdy2_cnt`, `barrier_rdygo`, `barrier_go` | `lock_try`, `rts_init`, `spin1_set_core_map`, `barrier_setup`, `barrier_wait` |
| Chip topology | `spin_emu.h`, `spin_emu_dispatcher.c`, `spin_emu_api.c` | `channel_targets` | `chip_id`, `chip_my_x`, `chip_my_y`, `p2p_get`, the link table of `cmd_p2pc` |
| Host commands, SDP queues | `spin_emu_dispatcher.c` | `sdp_queue`, `sdp_queue_tail`, the reply slot (`sendersip`, `sendersport`, `senderseq`), `floodfill`, `spin_emu_running`, `spin_emu_running_count` | `receive_msg_from_ether`, `process_message`, `queue_sdp`, `queue_sdp_xy`, `dispatch_as`, `flood_as`, `cmd_floodfill`, `dispatch_sdp_one`, `dispatch_sdp_to_ether`, `flush_sdp_queues` |
| IP tags | `spin_emu_dispatcher.c` | `iptags`, `tag_tto` | `iptag_init`, `iptag_new`, `cmd_iptag` |
| Monitor commands | `scamp_emu.c`, `spin_emu_api.c` | the memory of a chip | `cmd_write`, `cmd_read`, `cmd_ver`, `cmd_as` |
| Boot, life cycle | `spin_emu.c`, `spin_emu_app.c`, `spin_emu_dispatcher.c` | `initialised`, `NUM_CHIPS*`, child pids, sockets | `cmd_p2pc`, `spin_emu_spawn_cores`, `run_core`, `main`, `rts_cleanup` |
| Memory map | `spin_emu.c` | files mapped at fixed addresses | `spin_emu_mmap_core_mem`, ... |
| Console, configuration, declarations, test client | `spin_emu_io.c`, `lcfg_static.*`, `spin_emu_main.c`, headers, `test/test_as.c` | none of interest | |

How they interact.  The dispatcher and each core share one datagram socket
pair.  The dispatcher's loop reads the ethernet socket until it is empty, then
each core's socket until it is empty, then flushes the multicast queues and the
SDP queues.  In a core's process two threads run: the *worker* runs the
application's `c_main`, and inside it the loop of `spin1_start`; the
*controller* reads the socket and turns packets into events.  `SIGALRM` runs
`handle_timer_tick` on top of whichever thread does not block it.  The cores of
a chip share memory (`sv->lock`, SDRAM, system RAM) and a lock file.  `AS` makes
a core's process replace itself by an application; its socket survives, and so
do the locked file, the shared memory and the routing tables of the chip.

## 2. The hard behaviours, and what makes each component correct

*Core run-time.*  Three contexts use `evinfo`; `queue_event` may call an
application callback that calls `queue_event`; the handler calls it in signal
context, where a thread that holds the mutex could never release it;
`spin1_start` drops the mutex between choosing a queue and taking its head; the
timer is one-shot.  Correct means: application code never runs under the mutex;
the handler never interrupts its holder; events are delivered once, unchanged
and in order per type; no null callback is called; the timer never dies, although two threads may set it while
its period changes; queued events run; a stop is obeyed.

*Multicast router.*  `mc_pending` is cleared before the chips are walked in
order, while packets travel in all directions; queues and sockets drop what
does not fit.  Correct means: a flush ends, leaves nothing behind, delivers
exactly what the tables say, and keeps packets in order.

*Barrier.*  Entries and packets go through the same sockets in order, but
other cores of a chip are released by shared memory, which overtakes them;
packets for which no entry is stored are lost; only RDYGO is sent again.  Correct
means: nobody starts before everybody has reported, and everybody starts.

*Host commands.*  The host is answered before its command is executed, there
is one slot for the sender of the request that waits for its answer, flood-fill
blocks and start commands take different sockets, and a full socket ends the
emulator.  Correct means: what is accepted is executed once and in order; a
read sees the writes before it; a flooded program is whole when it starts;
replies go to who asked.

*IP tags, boot, life cycle.*  A tag's address is looked up when a message leaves,
not when it is made, and two hosts may hold one tag; commands may come before
the board is set up, and P2PC may be sent again; a core may be started over a
running one, with the chip's lock held by its predecessor.  Correct means: a
message goes to the host the tag was last given to; a P2PC that is repeated
disturbs nothing; a chip keeps one root core.

The full list, with the line where each hazard bites and the properties that
cover it, is `hazards` in `PROJECT.json`.

## 3. The modules

### CoreEvents, EventDelivery

`CoreEvents` models one application core.  A step of a context is the code
between two points where another context can intervene: taking `evinfo_mutex`
(`Acquire`), the section under it (`QueueUnhandled`, `QueueDirect`,
`QueueAppend`, `CallbackOn`, `CallbackOff`, `ScanFinds`, `ScanFindsNone`,
`Dequeue`), and what follows; or reading `timer_tick` and calling `setitimer`
(`ReadSeconds`, `ReadMicros`, `SetTimer`), which the handler (`TickRearm`,
`TickEnd`) and `spin1_set_timer_tick` (`SetTimerTick`, `TimerSet`) both do with
no lock.  `call[c]` is the API call context `c` is in, with
the arguments as they were evaluated *before* the mutex was taken, and
`stack[c]` the callbacks it is executing.  A queue (`queue`, `queue_tail`,
`next`) is a sequence.  `wpc` is the worker's place in `main` and
`spin1_start`.  `armed`, `sigPending` and `hthread` are the interval timer, a
pending `SIGALRM` and the thread on which the handler runs; `blocked` is the
`SIGALRM` bit of each thread's mask, `intMode` the process-wide mode beside it.
The application is any sequence of the API calls that `MainOps` and
`CallbackOps` name.

`EventDelivery` is what the queues promise: FIFO channels, one event executed
at a time, nothing lost, changed or duplicated.  `CoreEvents` implements it
under the mapping `pending <- evQueue`, `current <- Current`, where `Current` is
the outermost frame of the worker's stack.

Two constants stand for two states of the source.  `MainAssignsGlobals = FALSE`
is the code as shipped, whose `main` parses `SLOW_DOWN_TIMER` into a local; TRUE
lets the timer run so that everything that depends on it can be examined.
`core_slowdown` is the shipped code.
`EarlyTraffic` says whether packets arrive while `c_main` still registers its
callbacks, which the code allows.

### Topology

`chip_id`, `chip_my_x`, `chip_my_y`, the links, `channel_targets` and `p2p_get`
as operators, for a board of any size.

### McRouter, McDelivery

`McRouter` models the dispatcher's loop as far as multicast packets and table
entries go.  `pc` is the place in the loop: `"poll"` at core `core` of chip
`chip`, `"flush"` at the test of `mc_pending`, `"route"` at chip `chip` in the
walk.  A step reads one datagram (`dispatch_mc`, `store_route`), moves the walk
on (`PollNext`, `RouteNext`), begins or ends a flush, or routes one packet
(`route_mc`: the copies to the links' queues and the cores' sockets).  `up` and
`down` are the two directions of the sockets.  The cores send packets and
entries beside it.

`McDelivery` adds a record of one iteration (packets taken, packets sent to
each core) and compares it with destinations computed from the tables over the
whole board.  `trees` records whether the tables have made trees from the start:
the order of packets over several flushes depends on the tables of all of them, so
`InOrder` speaks of such tables.

### Barrier, Rendezvous

`Barrier` extends `McRouter`: each application core's worker goes through the
places of `rts_init`, `c_main`, `barrier_setup` and `barrier_wait`, every
datagram it sends being a step of its own, and its controller reads packets
beside it.  `Rendezvous` is the abstract barrier: none leaves before all have
arrived.

The life of an application is part of it.  `lockedBy` is the holder of the lock
file of a chip: `TryLock` (`lock_try`) fails when anyone holds it, the caller's
predecessor in the same process included, as the file is opened anew while the
old descriptor survives `execv`.  `rootAp` is the flag of the application.
`cmd_as` is a later start: the application's own variables begin again, while the lock,
`svLock`, the table entries and the packets on their way stay.  `launches` counts
the starts.  `BarrierFairSpec` adds the end of the two waits for reports
(`ReadyTimeout`), which `NoneStartsEarly` is not about.

### HostCommands, CommandService

`HostCommands` models the other half of the dispatcher's loop: ethernet socket,
command switch, SDP queues, running counters, reply slot, IP tags; with what a
core does with each command.  `booted` says whether there is a board: the
configuration sets it up before the loop starts, or a P2PC does later (`cmd_p2pc`, with
new queues and sockets), and a second P2PC is ignored.  Until then a command for
one core ends the emulator (`NoBoard`: the assertion of `chip_id`) and one for all
cores reaches none (`Board`).  `iptags` is the table of `iptag_init`; `IptagSet`,
`IptagGet`, `IptagTto`, `IptagClr` and `IptagRefused` are the branches of
`cmd_iptag`, all of which answer at once, and `ToEther` looks an address up when a
message leaves.  `app[n]` is the program of core `n` and how far it is:
`SendAs` ends a program outside `Repaired` at its first message, because the
`main` it is built with leaves `NUM_CHIPS` at 0 and `spin1_get_chip_id` asserts
otherwise.  `asOf` in an answer, like `last`, is only there for the properties.  `CommandService` is what they promise together: each core
executes the commands accepted for it one at a time, in order of acceptance.
The mapping takes a core's socket followed by its SDP queue as the abstract
channel, and the variable `last`, which exists for the mapping only, as the
last command executed.

### MC modules

`MCCoreEvents`, `MCMcDelivery`, `MCBarrier` and `MCHostCommands` give the
constants that cannot be written in a configuration file: routing tables, core
maps, scripts of host requests.

### Proof modules

`CoreEventsProofs`, `TopologyProofs`, `McRouterProofs`, and over the last two
`McDeliveryProofs` and `BarrierProofs`.  For the host's commands
`HostCommandsProofs` (types and the refinement), which `HostSafetyProofs` extends
(the other properties).  `GridArithmetic` has the lemmas on quotient and
remainder that the numbering of chips and cores needs.  See section 7.

## 4. The runs

| Run | Properties | Shows |
|---|---|---|
| `core_base` | `TypeOK` `CallbacksRunUnlocked` `DequeueFindsEvent` `NeverCallsNull` `TimerAlive` `DisabledMeansNoHandler` `DeliverySpec` | every interleaving of worker, controller and handler, each running callbacks: direct ones on the controller's thread and in the handler, queued ones on the worker's, which raise, schedule and unregister events, set the timer, disable and restore interrupts, start transfers, stop and kill |
| `core_live` | `HandlerNeverSelfDeadlocks` `EventsEventuallyRun` `StopEndsLoop` | an application that restores no interrupt mode: the handler never waits for the thread it interrupted; although `queue_event` wakes nobody, with the timer running every queued event runs and a stop by any thread ends `spin1_start` |
| `core_timer` | `TimerAlive` (violated) | a period that a callback of the controller changes from below a second to whole seconds while the handler reads it leaves the timer dead |
| `core_slowdown` | `TimerRuns` (violated) | with the shipped `main`, a timer that is set never ticks |
| `core_early` | `NeverCallsNull` (violated) | a packet during `c_main` leads to a call of the null callback |
| `router` | `TypeOK` `FlushLeavesNothing` `ExactDelivery` `InOrder` `FlushEnds` | two sets of tables on four chips, with queues that overflow, sockets that drop, and an entry installed on the way |
| `barrier_board` | `BarrierTypeOK` `NeverOvercounts` `RootStays` `NoneStartsEarly` | two chips, one with two cores, an application entry in the barrier's table, and a second start: a barrier, whatever reports are lost and whichever waits on the lock word time out; lock, table and cores agree on a chip's root through both starts |
| `barrier_live` | `EveryoneStarts` | two cores on chip (0,0) and one on (0,1), in every order of starting: RDYGO is sent until it comes, a chip's RDY1 may be lost for want of its entry, and all come through, with a time-out only where a report was lost |
| `barrier_rdygo` | `RdygoComesToMe` (violated) | the RDYGO entry of chip (1,0) names its monitor |
| `barrier_relaunch` | `EveryLaunchHasRoot` (violated) | after a second AS no core of a chip gets the lock, and there is no root core |
| `host_service` | `HostTypeOK` `ReadsSeeWrites` `FloodIsWhole` `VerRepliesToSender` `TagAsTold` `ServiceSpec` `EverythingExecuted` | a board set up by the configuration or by a P2PC sent twice; a flood begun too early, a core started twice, a program that aborts, writes then a read, two hosts asking for the version, and tags set, taken and cleared by two hosts: what is accepted is executed once and in order, and messages go where their tag says |
| `host_replies` | `RepliesToSender` (violated) | a READ's reply goes to whoever asked for a version last, or nowhere |

What a reader may argue about:

- `NeverCallsNull` holds in `core_base` because callbacks there are registered by
  `c_main` and packets come later; `core_early` is the same property without the
  second condition.  That callbacks unregister does not endanger it: in
  `core_base` the controller has read a callback and another context unregisters
  it before the mutex is taken, and the event is dropped.
- `HandlerNeverSelfDeadlocks` depends on applications not restoring the
  interrupt mode inside callbacks: `spin1_mode_restore(0)` unblocks `SIGALRM`
  although `spin1_start` blocked it, and the mode may be the other thread's.
  `core_live` and `NoSelfDeadlock` leave the restore out; `core_base` has it,
  and there only `DisabledMeansNoHandler` is claimed.
- `TimerAlive` is about the product `timer_tick * SLOW_DOWN_TIMER` *after*
  wrapping: a product that wraps to zero disarms the timer without notice.  In
  `core_base` no period is a whole number of seconds; `core_timer` shows what
  one does.
- Two DMA transfers may get the same id: `dma_id` is read before and advanced
  after `queue_event`, which may run a callback that starts another.  The model
  does so and claims nothing of ids.
- `FlushEnds` and the run of the router are about tables without a cycle.  That
  every core is served is *not* claimed: `do_dispatch` reads one socket until it
  is empty, so that a core which sends fast enough keeps the others waiting.
- `EveryoneStarts` allows for the loss of RDY1.  `sv->lock` is set when the RDY1
  entry has been sent, not when it is stored (line 1120: "router initialized --
  let other cores go!"), so that RDY1 may be routed first, and nobody sends it
  again: the root waits for BARRIER_RDY2_WAIT or BARRIER_RDYGO_WAIT, 25 s, and
  then goes on (`ReadyTimeout`).  Without the time-out the property is false.  It
  is about chips whose RDYGO entry names their root: `barrier_rdygo` has one
  that does not, and on chip (0,1) it names core 1, whichever core is the root.
- `spin_emu_running` and its count are written and never read, a core may send
  FINISHED more than once, and a core started again is counted twice: the
  model has all this and nothing is claimed of the count.
- `VerRepliesToSender` holds while one VER is outstanding at a time
  (`Concurrent = FALSE`); `host_replies` shows what the one slot does otherwise
  and for READ in any case.
- `FloodIsWhole` speaks of core 1 of each chip, the one that receives the
  blocks, and of the blocks sent after the P2PC: earlier ones are acknowledged and
  forgotten.  For the other cores nothing orders the start after the blocks.
- `EverythingExecuted` allows for the end of the emulator (`Die`, `NoBoard`),
  which a full socket or a command without a board causes, and for cores whose
  program has aborted: nobody reads their socket any more, and what is sent to
  them ends in `Die` when it is full.
- `TagAsTold` speaks of the host that was given the tag *last*.  As `iptag_new`
  marks nothing as taken, two hosts that ask for a tag get the same one and the
  first loses it; the property holds all the same.  A request that is refused
  gives nothing.
- `NoneStartsEarly` is about the first start: a later one has no root core
  (`barrier_relaunch`), and its cores start when their wait for GO is over.

Deadlock is looked for in the runs of the router and of the barrier.  It is not in the
core's runs, where a core whose worker has joined and whose API calls are used up is
at rest for good, nor in the host's, where the emulator may have died.

## 5. Bounds

| Bound | Where | Value | Why it is enough |
|---|---|---|---|
| `MaxOps` | CoreEvents | 6 (`base`), 5 (`live`), 4 (`timer`, `early`), 3 (`slowdown`) | registrations, the timer, and the calls or packets that meet in one queue or nest in one another; `live` needs two registrations, the timer, an event and a stop; `timer` a registration, the timer, a packet and the change of the period |
| `MaxTicksQueued` | CoreEvents | 1 | a second tick finds the first in the queue or being executed; more only lengthen the queue |
| `Priorities` | CoreEvents | {0, 1} (`base`), {0, 1, 2} (`live`) | the direct call, one or two queued levels |
| `AppEvents`, `NetEvents` | CoreEvents | {0, 1, 2, 4} in `base` (packet, DMA, timer, user), {0, 2} in `live`; {0} | each way an event is raised; the network's types are alike |
| `UintMod`, `Second` | CoreEvents | 3 or 4; 2 | `simTime` and `dmaId` wrap within a behaviour; one period is below a second, the other is one |
| `TickTimes` | CoreEvents | {1}; {1, 2} in `timer` | a period below a second, and a whole second |
| board | McRouter, Barrier | 2 x 2 chips, 2 or 3 cores | all six link directions that stay on a board exist on it; walks against the order of the chips, a diagonal, two ways to one chip |
| `NUM_ROUTES` | McRouter; Barrier | 2; 4 | one system and one application entry; the barrier's four |
| `QUEUE_SIZE`, `SOCKET_SIZE` | router | 2, 2 | three packets overflow both |
| | barrier | 4, 5 | nothing overflows: the real sizes are 1024 packets and the system's socket buffers, far above one board's barrier traffic |
| | host | socket 2 | a script overflows it |
| `MaxSends` | router; barrier | 3; 1 | three packets from one or two cores, or an entry among them |
| `MaxLaunches` | Barrier | 2; 1 in `barrier_live` and `barrier_rdygo` | a second start finds what the first has left; a third finds the same |
| `Repaired` | HostCommands | {1} | one program that knows the board and one that aborts |
| `Scripts` | HostCommands | eight sequences of 3 to 6 requests | each is one scenario in which order or repetition matters, whatever the cores do meanwhile |
| `MaxMessages` | HostCommands | 1 | one message or FINISHED of an application among the commands |

The core's constants other than bounds are not restricted in the proofs: they
hold for any number of callbacks, events, priorities and API calls.  The bound
`MaxTicksQueued` postpones a signal; it is a guard that TLC needs and the
theorems do not (any natural number is allowed).

## 6. Fairness

- `CoreEvents!FairSpec`: the operating system runs every runnable thread (weak
  fairness of worker, of the controller's work in hand, of the handler), an armed
  timer expires and a signal that can be taken is taken.  Packets need not come.
  The liveness properties suppose the timer on, since nothing else wakes
  the worker.
- `McDelivery!RecordFairSpec`: the dispatcher polls and never waits; its socket
  calls do not block.  Cores need neither send nor read.
- `Barrier!BarrierFairSpec`: dispatcher, workers and controllers all run.
  `ResendRdygo` is weakly fair, the loop of the root core that watches the clock.
  `GiveUp`, the end of `BARRIER_GO_WAIT`, is a step of the worker and fair as such,
  and possible only when no GO can come any more.
  `ReadyTimeout`, the end of the root cores' waits for reports, is fair because
  `clock()` goes on, and possible only when a report is lost for good: a RDYGO
  that is lost must be brought through by the retries.
- `HostCommands!FairSpec`: dispatcher and controllers.  Hosts and applications
  need not do anything.

No strong fairness is used.  Fairness of the dispatcher is one condition on its
whole next-state relation: it has one thread and nothing is
promised of a single step.

## 7. The proofs

All are safety theorems of the specifications in section 3, for every value of
the constants that satisfies the assumptions `ConstantsAssumption`,
`RouterAssumption`, `BarrierAssumption`, `HostAssumption` and the ones of
`Topology`.  Where a theorem needs more it says so after `ASSUME`; each such
assumption is named below with the reason for it, and the instances that TLC
checks the property on satisfy it.  Every safety property of a passing run is stated
by a theorem.

**CoreEventsProofs.**  The inductive invariant is

    Inv == TypeOK /\ LockInv /\ WorkerPlace /\ DequeueFindsEvent

`LockInv` adds to `CallbacksRunUnlocked` that the handler's context is idle when
no handler runs, without which a mutex held in its name could not be excluded.
`WorkerPlace` relates the worker's place to its stack and call: it is in a
callback exactly when its place says so, takes the mutex as `scan` or `dequeue`
only from the loop, and so on.  `DequeueFindsEvent` needs both: between
choosing and taking only the worker could remove an event, and it is elsewhere.

- `TypeCorrect`, `RunsUnlocked`, `DequeueSafe`: parts of `Inv`.
- `TimerSafe`: with `NoWholeSeconds` (no period, multiplied by the factor, is 0 or
  a whole number of seconds), which `core_timer` shows to be needed.  The handler
  and the controller may then read `timer_tick` while the other changes it: the
  part in microseconds, of whichever period it is, is not 0, and so
  what either gives to `setitimer` is not (`TimerInv`), whoever comes last.
- `NoSelfDeadlock`: with `NeverRestores` (no API call restores the mode),
  `MaskInv` is inductive too: the controller always blocks `SIGALRM`, the
  worker until it joins, so that the handler interrupts the worker only in
  `sigsuspend` or `pthread_join`, where it holds nothing.
- `NullSafe`: with `RegistersFirst` (callbacks are registered by `c_main` alone
  and packets come later), `NullInv`: a callback read before the mutex was taken
  is stale only towards null, and then the event is dropped.  `QuietMain` keeps
  the controller, and the handler on its thread, idle until `c_main` is
  over.  The assumption is what `core_early` shows to be necessary; restoring the
  interrupt mode is allowed.
- `DisabledIsQuiet`: `InterruptInv` is inductive.  A handler runs only on a thread
  that does not block `SIGALRM` or waits in `sigsuspend`, and what
  `spin1_int_disable` blocked stays blocked until the mode is restored, unless
  `c_main` returns in between.
- `QueuesDeliver`: `Spec => DeliverySpec`.  The initial states map to initial
  states; a step is a `Raise` (`QueueAppend`), a `Deliver` (`Dequeue`), a
  `Complete` (the worker's outermost `Return`) or a stutter.  Callbacks that run
  directly inside another one leave the outermost frame alone, which is why
  `Current` is defined by it.

**McRouterProofs.**  `RouterTypeCorrect`: `TypeOK` is inductive; it includes that no
entry is stored outside the table.  `FlushCorrect`: `FlushLeavesNothing` is
not inductive, since it says nothing of the walk.  `OnlyAheadOfWalk` is: while
`mc_pending` is false, a queue that is not empty belongs to the chip the walk
has come to, or to a later one.  It holds for every board and every tables,
with cycles or not.  The lemma `RouteIsEntry` is what later modules use of
`mc_router`: its answer is the least entry that matches (which exists, as `<` is
well founded), or no entry.

**McDeliveryProofs.**  `FlushExact`: `ExactDelivery` compares what a flush did one
packet at a time with a set computed over the whole board.  Two arguments meet:

- `ReachedLeast`: `Reached(c, k)` is the least set of chips that contains `c` and
  is closed under the links of the tables.  Closed, because of a chain of `NUM_CHIPS` sets
  that each grow one would be larger than the board.
- `FlushInv(P)` says of a set `P` of routings (a chip and a packet routed on it in
  this flush) that each packet at a chip came from its source along the links
  (`Derived`), that what was routed on a chip has come to the chips its links name unless a
  queue was full (`Complete`), and that each core was sent the routings that name it
  (`Sent`).  At the end no queue has a packet left (`FlushLeavesNothing`), so
  that the chips a packet was routed on are a closed set; with `Derived` it is the least
  one.  `P` is bound by an existential quantifier: the program keeps no
  such list, and `delivered` has only the routings that led to a core.

That a packet is sent once where the tables make a tree is the part `InLine` of
`FlushInv`: the packets of one core with one key are routed on each chip in the
order of their numbers, each before the ones still queued there.  `OneParent` is the fact
about trees it needs: all of them come to a chip over the same link.  Between flushes the
tables may change, so `InLine` is about the tables in general only at `"poll"`,
where nothing has moved (`Calm`).

`PacketsInOrder`: `DownInv` continues the order into the sockets and over many
flushes.  What a core has still to read is in order and was sent either by a routing
of this flush or before everything taken in this one, `Past` relating the
packets taken to the ones still in the sockets they came from.
Queues and sockets that drop packets are allowed for: nothing says that a
number follows another, only that it comes before.

**TopologyProofs.**  `ChipIdInverse`, `LinksPaired`, `P2pComesNearer`: the
numbering of the chips is a bijection, links are paired and different links
lead to different chips, and the route to (0,0) comes nearer at every hop.

**HostCommandsProofs.**  `HostTypeCorrect`: `HostTypeOK` is inductive.  It
includes that the walk of the loop stays on the board, that the core a command
names exists, and that `received` never passes the requests.
`CommandsInOrder`: `Spec => ServiceSpec`.  The abstract
channel of a core is `toCore[n] \o sdp_queue[n]`: `Queue` appends at its end, `Flush`
moves the border and changes nothing, a core's read takes its head.  The lemmas
are the ones on sequences that these three facts need.  `cmd_p2pc` empties
queues and sockets, which is a stutter only because nothing is in them: the
invariant `Unbooted`.

**HostSafetyProofs.**  `ReadsSeeWrites` and `FloodIsWhole` compare an answer or a
program with the requests that came before; neither is inductive.  The
invariant `Safe` says, for each core, what is owed to it: every WRITE (and, on core
1, every block of a flood) that was taken for it is either made in the memory of its chip
or still in its channel, *before* every later command (`InOrder`).  It is
stated of the requests, the memory and the channel as parameters, and each
change of a channel has a lemma.  `RepliesSent` and `RepliesGiven` carry what a
read found from the core to the host, `ProgramsWhole` what a start found.
`WritesSeen` and `FloodsWhole` follow.  `TagsKept`: the address of every tag is the one of the
last request that was given the tag (`TagsTold`), and every answer fixes it as
of its time (`AnswersTold`).

- `VersToSender` assumes `Concurrent = FALSE`, as the property does, and
  `KnownCommands`: a command is one byte.  The second is needed because
  the code compares the command with READ and IPTAG before `ntohs`: a command such as 512
  is READ to that comparison and would set the slot.  `VerAlone`: the hosts'
  rule; `OneVers`: a VER that is pending or whose reply is on its way is not yet
  answered, and a core has one of the two at most; `SlotKept`: the slot has the
  sender of the last VER taken.

**BarrierProofs.**  The barrier is proved over the router, for any board, tables,
core maps and socket sizes.  `BarrierTypeCorrect` is the type invariant.  The rest is a
chain of invariants, each of which uses the ones before:

- `ControlInv`: a worker's place, its flag `rootAp`, the number of its starts and
  the holder of the lock of its chip agree.  Because the lock is never given back, a
  chip has no second root core, and only a first start can have one.
- `RoutesInv`: an entry for RDY1 leads to the holder of the lock and nowhere
  else, one for RDY2 to that core on chip (0,0) and elsewhere over the link of
  `p2p_get`; in the tables and in the sockets on the way to them.
  `RootsAgree` (`RootStays`) follows from these two.
- `ReportsInv`: a report in a socket or queue is one its sender has made, and one in
  a core's socket is at the root core it was meant for.  Sockets and queues are one
  family of `Boxes` here, so that a step of the router is either a packet that
  moves between boxes (`Passes`) or one that is new (`Gains`).
- `CountsInv`: while no core is in its second start there are sets of the cores
  and the chips whose reports were counted such that every report is a token
  (`Tokens`): in one box at most, once, not before it was sent and not after it was
  counted; and no counter is larger than its set, with the root core itself
  (`Tallies`).  `CountsBounded` (`NeverOvercounts`) follows, as the set has the other cores of
  the chip, or the other chips, as members at most.  It is the invariant that fails when a
  report can be copied: `RoutesInv` says that it has one way to go, and
  `P2pComesNearer` that this way comes back to no chip.
- `ReadyInv`, `GoInv`: a root core that has reported speaks for its chip, the one
  of chip (0,0) for all, and no GO exists before.  With them every step maps to
  a step of `Rendezvous` or a stutter: `BarrierImplementsRendezvous`.

All but the first assume `ApplicationKeysApart`: the keys RDY1 and RDY2 appear neither
in the application's own entries nor in the tables at the start.  With an application entry for
RDY1 that is found first the reports go wherever it says, and the code does not
prevent that.  `RootsAgree` and `CountsBounded` hold whatever waits run out of time;
`BarrierImplementsRendezvous` also assumes `NoneGivesUp`: neither the wait for the
reports nor the one for GO does, after which the code starts the core regardless.

**Only model-checked**: the liveness properties (`FlushEnds`, `EventsEventuallyRun`, `StopEndsLoop`, `EveryoneStarts`, `EverythingExecuted`),
since liveness under fairness is out of the prover's reach.

## 8. Disagreements found

Each is a run that TLC ends with a counterexample; `findings` quotes the lines.

- `spin_emu_app.c:39`: `SLOW_DOWN_TIMER` is a local of `main`; the global that
  `spin1_set_timer_tick` multiplies by stays 0 and no tick ever comes.
- `spin_emu_api.c:519`: the handler reads `timer_tick` for the seconds, then for
  the microseconds, then sets the timer; `spin1_set_timer_tick` on the controller's
  thread in between is undone, and when the two reads are of a period below a second
  and of one of whole seconds the timer is disarmed for good.
- `spin_emu_api.c:224`: the callback is read before the mutex is locked, so that
  a packet that arrives during `spin1_callback_on` is queued with null.
- `spin_emu_api.c:724`: `CORE_ROUTE` is given the chip's address in place of a
  core's number.
- `spin_emu_api.c:1103`: the root core of the first start keeps the lock file
  locked through `execv`, so that a second start has no root core; line 1141
  says that not cleaning up has caused no problems.
- `spin_emu_dispatcher.c:967`: the command is compared before `ntohs`; READ and
  IPTAG are not recognised, so that their sender is not remembered.

## 9. Abstractions and what is not modelled

*Core run-time.*  Contents of packets and arguments are numbers that tell
events apart.  The handler does not
interrupt itself on the other thread: `TickStart` needs `hthread = Nobody`.  A
second handler beside the first would need a thread that blocks no `SIGALRM`
beside the worker in `sigsuspend`, which only a mode restored to 0 on the
controller's thread makes.  A callback run in the handler does not disable
interrupts; a thread saves the interrupt mode at most once before it restores
it, and a callback returns with the mode it found.  Signals other than
`SIGALRM` are left out: nothing sends `SIGUSR1`.  Freed events are not
modelled: the code never frees one.

*Router.*  A key and a mask are the set of keys they match.  A ring buffer with
`pos` and `len` is a sequence.  The queues of cores other than 0 are always
empty, since `do_dispatch` queues every packet at core 0, so that the second half
of `flush_mc_queues` does nothing.  The run's tables have no cycle; with one,
`flush_mc_queues` would not return.

*Barrier.*  Boards are square with a side that is a power of two, as
`barrier_setup` supposes, and the application cores know `NUM_CHIPS`.  There is
more than one application core (otherwise `spin1_start` skips the barrier).
Clocks are abstract: a wait named in `Timeouts` may end at any moment, and a
RDYGO is sent again only when the one before has come to its end
(`InFlight(RDYGO)`: 100 ms are taken to be enough).  The shift of `CORE_ROUTE` by
more than the width of a word, undefined in C, is taken modulo 32 as x86 does.
`NoneStartsEarly` is for waits on the lock word that may time out; a GO or a
count given up after its time-out starts the core regardless, by design.
`GiveUp` is the end of `BARRIER_GO_WAIT` when no GO can come any more,
`ReadyTimeout` that of BARRIER_RDY2_WAIT and BARRIER_RDYGO_WAIT when a report was lost.  A
core is started again only when every core has started once (`StartedOnce`); the
worker that the second start interrupts may be anywhere after the barrier.  The module is for
applications whose `main` assigns the globals (`NUM_CHIPS`); with the shipped one
`barrier_setup` ends in an assertion, which `HostCommands` models as `SendAs`.

*Host commands.*  Addresses, lengths and data of memory
accesses are abstract: a chip's memory is the set of the requests that wrote
to it.  SDP queues start empty, which `cmd_p2pc` does not see to: it
takes them from `malloc` and never sets them, so that this is an assumption on
the memory it gets.  Commands arrive in network byte order, as `test_as.c`
sends them.  The destination of a message between cores is a core of the
board (`HostAssumption`, `spin1_send_sdp_msg`); the code takes any of 32 and
would index its tables with it.  What a new
process does before it reads its socket is not a step of its own.  IPTAG GET returns the address of the entry named, as the first of those asked
for, or is refused when they do not fit; a tag's MAC address, count and time-out are stored by the
code and used nowhere.  fork, socketpair and exec succeed.

*Not modelled*: failures of the system calls that set the board up; the memory map, console and
configuration (system calls, formatting and generated code); the DMA copy and
the LED, flash and link calls (stubs or pure data).

## 10. Plan

Order of work, the most important behaviour first.  Done: the core run-time
(`CoreEvents`, then its refinement and proofs), topology, the router, the barrier
over the router with the second start of an application, the host's commands with
boot, IP tags and aborts, and the proofs of all of them.  Left:

1. The router's queues as ring buffers with an `int` position, refining the
   sequences, and what a wrap of the position does.
2. The same AS sent twice while a core is still in the barrier: its report is
   counted for another core's.
3. Proofs: a measure that a step of a flush makes smaller when the tables have
   no cycle, which is the safety half of `FlushEnds`.
