----------------------------- MODULE CoreEvents -----------------------------
(***************************************************************************)
(* The run-time system of one emulated application core (spin_emu_api.c):  *)
(* the table of event queues evinfo, guarded by evinfo_mutex, and the      *)
(* three contexts that use it                                              *)
(*                                                                         *)
(*   worker      the main thread: c_main, then the loop of spin1_start     *)
(*   controller  the thread that reads the core's socket                   *)
(*   handler     handle_timer_tick, run by SIGALRM on top of a thread      *)
(*                                                                         *)
(* A context is inside at most one API call (call[c]); the callbacks it is *)
(* executing are stack[c], innermost first.  What the application does in  *)
(* c_main and in its callbacks is any sequence of the API calls MainOps    *)
(* and CallbackOps name, at most MaxOps of them, packets received included.*)
(***************************************************************************)
EXTENDS Integers, Sequences

CONSTANTS
  Callbacks,         \* the application's callback functions
  NULL,              \* the null callback pointer
  Priorities,        \* the priorities the application registers with
  AppEvents,         \* the event types the application uses
  NetEvents,         \* the event types the controller raises
  MainOps,           \* the API calls of c_main
  CallbackOps,       \* the API calls of the callbacks
  EarlyTraffic,      \* TRUE: packets arrive before spin1_start is entered
  MainAssignsGlobals,\* FALSE: main's locals shadow the globals it parses
  ConfigSlowDown,    \* SLOW_DOWN_TIMER in the configuration file
  TickTimes,         \* the periods the application sets its timer to
  Second,            \* 10^6: the microseconds of a second
  UintMod,           \* 2^32 on the machine
  MaxOps,            \* bound: API calls and packets in one behaviour
  MaxTicksQueued     \* bound: timer events waiting when one more is queued

NUM_EVENTS == 8
Events == 0 .. NUM_EVENTS - 1
MC_PACKET_RECEIVED == 0
DMA_TRANSFER_DONE == 1
TIMER_TICK == 2
SDP_PACKET_RX == 3
USER_EVENT == 4

AppOps == {"on", "off", "trigger", "schedule", "dma", "stop", "kill",
           "timer", "disable", "restore"}

ASSUME ConstantsAssumption ==
  /\ NULL \notin Callbacks
  /\ Priorities \subseteq Int
  /\ AppEvents \subseteq Events
  /\ NetEvents \subseteq {MC_PACKET_RECEIVED, SDP_PACKET_RX}
  /\ MainOps \subseteq AppOps
  /\ CallbackOps \subseteq AppOps
  /\ EarlyTraffic \in BOOLEAN
  /\ MainAssignsGlobals \in BOOLEAN
  /\ ConfigSlowDown \in Nat
  /\ TickTimes \subseteq Nat
  /\ Second \in Nat \ {0}
  /\ UintMod \in Nat \ {0}
  /\ MaxOps \in Nat
  /\ MaxTicksQueued \in Nat

Threads == {"worker", "controller"}
Contexts == Threads \cup {"handler"}
Nobody == "nobody"

Pointers == Callbacks \cup {NULL}
Items == [cback : Pointers, arg : Nat]
Frames == [cback : Pointers, arg : Nat, dma : BOOLEAN]

LockingOps == {"scan", "dequeue", "queue", "dma", "on", "off"}
SettingOps == {"sec", "usec", "arm"}   \* the places of setting the itimer
CallOps == LockingOps \cup SettingOps \cup {"none", "dmaret"}
Calls == [op : CallOps, ev : Events, cback : Pointers, arg : Nat,
          prio : Int]
WorkerPcs == {"c_main", "loop", "suspend", "suspended", "callback",
              "returned", "joined"}
Uint == 0 .. UintMod - 1
NoSr == 2             \* no interrupt mode saved by int_disable

VARIABLES
  evPriority, evCback, evQueue,   \* evinfo
  mutex,                          \* the context that holds evinfo_mutex
  call, stack,
  wpc,                            \* the worker's place in main/spin1_start
  quit,                           \* spin1_emu_quit
  finished,                       \* FINISHED packets sent
  timerTick, armed, sigPending,   \* timer_tick, the itimer, SIGALRM
  hthread,                        \* the thread the handler interrupted
  simTime,                        \* spin_emu_sim_time
  blocked,                        \* SIGALRM in the thread's signal mask
  intMode, saved,                 \* spin_emu_interrupt_mode, its saved copy
  dmaId,                          \* dma_id of spin1_dma_transfer
  ops                             \* API calls and packets left

evinfo == <<evPriority, evCback, evQueue>>
timer == <<timerTick, armed, sigPending, hthread, simTime>>
masks == <<blocked, intMode, saved>>
vars == <<evinfo, mutex, call, stack, wpc, quit, finished, timer, masks,
          dmaId, ops>>

-----------------------------------------------------------------------------
NoCall == [op |-> "none", ev |-> 0, cback |-> NULL, arg |-> 0, prio |-> 0]
Call(op) == [NoCall EXCEPT !.op = op]

\* The arguments of queue_event, evaluated before the mutex is taken.
QueueCall(op, e, cb, arg) ==
  [NoCall EXCEPT !.op = op, !.ev = e, !.cback = cb, !.arg = arg]

\* spin_emu_app.c: main parses SLOW_DOWN_TIMER into a local of that name;
\* a main without the local would assign the global the API reads.
SlowDownTimer == IF MainAssignsGlobals THEN ConfigSlowDown ELSE 0

\* Unsigned arithmetic.
NoWrap(n) == n
Wrap(n) == n % UintMod

\* timer_tick * SLOW_DOWN_TIMER microseconds.
TickMicros(t) == Wrap(t * SlowDownTimer)

\* main blocks SIGALRM before it creates the controller, which inherits the
\* mask.
MainMaskMissing == [t \in Threads |-> FALSE]
MainMask == [t \in Threads |-> TRUE]

Init ==
  /\ evPriority = [e \in Events |-> 0]
  /\ evCback = [e \in Events |-> NULL]
  /\ evQueue = [e \in Events |-> <<>>]
  /\ mutex = Nobody
  /\ call = [c \in Contexts |-> NoCall]
  /\ stack = [c \in Contexts |-> <<>>]
  /\ wpc = "c_main"
  /\ quit = FALSE
  /\ finished = 0
  /\ timerTick = 0 /\ armed = FALSE /\ sigPending = FALSE
  /\ hthread = Nobody
  /\ simTime = 0
  /\ blocked = MainMask
  /\ intMode = 0
  /\ saved = [t \in Threads |-> NoSr]
  /\ dmaId = 0
  /\ ops = MaxOps

\* A thread stands still while the handler runs on top of it.
Runnable(c) == IF c = "handler" THEN hthread # Nobody ELSE hthread # c

\* A call through a null pointer kills the process.
Crashed == \E c \in Contexts : stack[c] # <<>> /\ stack[c][1].cback = NULL

InMain(c) == c = "worker" /\ wpc = "c_main" /\ stack[c] = <<>>

\* Context c is executing application code and is free to call op.
Calling(c, op) ==
  /\ Runnable(c)
  /\ call[c].op = "none"
  /\ ops > 0
  /\ \/ InMain(c) /\ op \in MainOps
     \/ stack[c] # <<>> /\ op \in CallbackOps
  /\ ops' = ops - 1

-----------------------------------------------------------------------------
(* queue_event and the other sections of evinfo_mutex.                     *)

Enter(c, k) == call' = [call EXCEPT ![c] = k]

Acquire(c) ==
  /\ Runnable(c)
  /\ call[c].op \in LockingOps
  /\ mutex = Nobody
  /\ mutex' = c
  /\ UNCHANGED <<evinfo, call, stack, wpc, quit, finished, timer, masks,
                 dmaId, ops>>

Holding(c, op) == Runnable(c) /\ mutex = c /\ call[c].op \in op

\* spin1_dma_transfer advances dma_id once queue_event has returned.
AfterQueue(op) == IF op = "dma" THEN Call("dmaret") ELSE NoCall

Handled(e) == evCback[e] # NULL

\* No callback is registered: the event is dropped.
QueueUnhandled(c) ==
  /\ Holding(c, {"queue", "dma"})
  /\ ~Handled(call[c].ev)
  /\ mutex' = Nobody
  /\ Enter(c, AfterQueue(call[c].op))
  /\ UNCHANGED <<evinfo, stack, wpc, quit, finished, timer, masks, dmaId,
                 ops>>

UnlockAfterCall == UNCHANGED mutex
UnlockBeforeCall == mutex' = Nobody

\* Priority 0 or below: the callback argument is called here and now.
QueueDirect(c) ==
  /\ Holding(c, {"queue", "dma"})
  /\ Handled(call[c].ev)
  /\ evPriority[call[c].ev] <= 0
  /\ UnlockBeforeCall
  /\ stack' = [stack EXCEPT ![c] =
       <<[cback |-> call[c].cback, arg |-> call[c].arg,
          dma |-> call[c].op = "dma"]>> \o @]
  /\ Enter(c, NoCall)
  /\ UNCHANGED <<evinfo, wpc, quit, finished, timer, masks, dmaId, ops>>

LinkedAtHead(q, item) == <<item>> \o q
LinkedAtTail(q, item) == Append(q, item)

\* Otherwise the event joins the tail of its queue with that argument.
QueueAppend(c) ==
  /\ Holding(c, {"queue", "dma"})
  /\ Handled(call[c].ev)
  /\ evPriority[call[c].ev] > 0
  /\ evQueue' = [evQueue EXCEPT ![call[c].ev] =
       LinkedAtTail(@, [cback |-> call[c].cback, arg |-> call[c].arg])]
  /\ mutex' = Nobody
  /\ Enter(c, AfterQueue(call[c].op))
  /\ UNCHANGED <<evPriority, evCback, stack, wpc, quit, finished, timer,
                 masks, dmaId, ops>>

DmaReturn(c) ==
  /\ Runnable(c)
  /\ call[c].op = "dmaret"
  /\ dmaId' = Wrap(dmaId + 1)
  /\ Enter(c, NoCall)
  /\ UNCHANGED <<evinfo, mutex, stack, wpc, quit, finished, timer, masks,
                 ops>>

CallbackOn(c) ==
  /\ Holding(c, {"on"})
  /\ evPriority' = [evPriority EXCEPT ![call[c].ev] = call[c].prio]
  /\ evCback' = [evCback EXCEPT ![call[c].ev] = call[c].cback]
  /\ mutex' = Nobody
  /\ Enter(c, NoCall)
  /\ UNCHANGED <<evQueue, stack, wpc, quit, finished, timer, masks, dmaId,
                 ops>>

DroppedWhenOff(q) == <<>>
KeptWhenOff(q) == q

\* The events already queued stay queued.
CallbackOff(c) ==
  /\ Holding(c, {"off"})
  /\ evPriority' = [evPriority EXCEPT ![call[c].ev] = 0]
  /\ evCback' = [evCback EXCEPT ![call[c].ev] = NULL]
  /\ evQueue' = [evQueue EXCEPT ![call[c].ev] = KeptWhenOff(@)]
  /\ mutex' = Nobody
  /\ Enter(c, NoCall)
  /\ UNCHANGED <<stack, wpc, quit, finished, timer, masks, dmaId, ops>>

-----------------------------------------------------------------------------
(* The worker.                                                             *)

\* spin1_start blocks SIGALRM before it enters the loop.
Start ==
  /\ InMain("worker")
  /\ Runnable("worker")
  /\ call["worker"].op = "none"
  /\ wpc' = "loop"
  /\ blocked' = [blocked EXCEPT !["worker"] = TRUE]
  /\ UNCHANGED <<evinfo, mutex, call, stack, quit, finished, timer, intMode,
                 saved, dmaId, ops>>

AtLoop ==
  /\ Runnable("worker")
  /\ wpc = "loop"
  /\ call["worker"].op = "none"

LoopIgnoresQuit ==
  /\ AtLoop
  /\ Enter("worker", Call("scan"))
  /\ UNCHANGED <<evinfo, mutex, stack, wpc, quit, finished, timer, masks,
                 dmaId, ops>>

LoopScan ==
  /\ AtLoop
  /\ ~quit
  /\ Enter("worker", Call("scan"))
  /\ UNCHANGED <<evinfo, mutex, stack, wpc, quit, finished, timer, masks,
                 dmaId, ops>>

LoopQuit ==
  /\ AtLoop
  /\ quit
  /\ wpc' = "returned"
  /\ UNCHANGED <<evinfo, mutex, call, stack, quit, finished, timer, masks,
                 dmaId, ops>>

ReadyUrgentOnly ==
  {e \in Events : evCback[e] # NULL /\ evQueue[e] # <<>> /\ evPriority[e] < 2}
Ready == {e \in Events : evCback[e] # NULL /\ evQueue[e] # <<>>}

\* The scan keeps the last of the event types of least priority value.
Precedes(e, f) ==
  \/ evPriority[e] < evPriority[f]
  \/ evPriority[e] = evPriority[f] /\ e >= f

ScanFinds ==
  /\ Holding("worker", {"scan"})
  /\ \E e \in Ready :
       /\ \A f \in Ready : Precedes(e, f)
       /\ Enter("worker", [Call("dequeue") EXCEPT !.ev = e])
  /\ mutex' = Nobody
  /\ UNCHANGED <<evinfo, stack, wpc, quit, finished, timer, masks, dmaId,
                 ops>>

ScanFindsNone ==
  /\ Holding("worker", {"scan"})
  /\ Ready = {}
  /\ Enter("worker", NoCall)
  /\ wpc' = "suspend"
  /\ mutex' = Nobody
  /\ UNCHANGED <<evinfo, stack, quit, finished, timer, masks, dmaId, ops>>

TakenFromTable(e) == evCback[e]
Taken(e) == evQueue[e][1].cback

\* The head of the queue is removed and its own callback is called.
Dequeue ==
  LET e == call["worker"].ev
  IN  /\ Holding("worker", {"dequeue"})
      /\ evQueue[e] # <<>>
      /\ evQueue' = [evQueue EXCEPT ![e] = Tail(@)]
      /\ stack' = [stack EXCEPT !["worker"] =
           <<[cback |-> Taken(e), arg |-> evQueue[e][1].arg,
              dma |-> FALSE]>>]
      /\ wpc' = "callback"
      /\ mutex' = Nobody
      /\ Enter("worker", NoCall)
      /\ UNCHANGED <<evPriority, evCback, quit, finished, timer, masks,
                     dmaId, ops>>

\* sigsuspend: from here to the end of a handler SIGALRM is unblocked.
Suspend ==
  /\ Runnable("worker")
  /\ wpc = "suspend"
  /\ wpc' = "suspended"
  /\ UNCHANGED <<evinfo, mutex, call, stack, quit, finished, timer, masks,
                 dmaId, ops>>

\* c_main is over, with or without spin1_start: main unblocks the signals
\* and joins the controller, which never ends.
MainReturn ==
  /\ Runnable("worker")
  /\ call["worker"].op = "none"
  /\ InMain("worker") \/ wpc = "returned"
  /\ wpc' = "joined"
  /\ blocked' = [blocked EXCEPT !["worker"] = FALSE]
  /\ UNCHANGED <<evinfo, mutex, call, stack, quit, finished, timer, intMode,
                 saved, dmaId, ops>>

-----------------------------------------------------------------------------
(* The controller: one packet that is neither a barrier key nor a command. *)

ReceivePacket(e) ==
  LET c == "controller"
  IN  /\ Runnable(c)
      /\ call[c].op = "none"
      /\ stack[c] = <<>>
      /\ EarlyTraffic \/ wpc # "c_main"
      /\ ops > 0
      /\ ops' = ops - 1
      /\ Enter(c, QueueCall("queue", e, evCback[e], ops))
      /\ UNCHANGED <<evinfo, mutex, stack, wpc, quit, finished, timer, masks,
                     dmaId>>

-----------------------------------------------------------------------------
(* The timer.                                                              *)

Expire ==
  /\ armed
  /\ armed' = FALSE
  /\ sigPending' = TRUE
  /\ UNCHANGED <<evinfo, mutex, call, stack, wpc, quit, finished, timerTick,
                 hthread, simTime, masks, dmaId, ops>>

\* The bound: a signal that would queue yet another tick is not taken.
TickQueueRoom ==
  Handled(TIMER_TICK) => Len(evQueue[TIMER_TICK]) < MaxTicksQueued

SigSuspended(t) == t = "worker" /\ wpc = "suspended"

\* SIGALRM goes to any one thread that does not block it.
TickStart(t) ==
  /\ sigPending
  /\ hthread = Nobody
  /\ ~blocked[t] \/ SigSuspended(t)
  /\ TickQueueRoom
  /\ sigPending' = FALSE
  /\ hthread' = t
  /\ simTime' = Wrap(simTime + 1)
  /\ Enter("handler",
           QueueCall("queue", TIMER_TICK, evCback[TIMER_TICK], simTime'))
  /\ UNCHANGED <<evinfo, mutex, stack, wpc, quit, finished, timerTick, armed,
                 masks, dmaId, ops>>

\* The callback, if any, has returned.
AfterTick ==
  /\ hthread # Nobody
  /\ call["handler"].op = "none"
  /\ stack["handler"] = <<>>

RearmsAfterQuit == quit
Rearms == ~quit

\* The handler sets the one-shot timer again unless the core has stopped.
TickRearm ==
  /\ AfterTick
  /\ Rearms
  /\ Enter("handler", Call("sec"))
  /\ UNCHANGED <<evinfo, mutex, stack, wpc, quit, finished, timer, masks,
                 dmaId, ops>>

HandlerReturns ==
  /\ hthread' = Nobody
  /\ wpc' = IF SigSuspended(hthread) THEN "loop" ELSE wpc

TickQuit ==
  /\ AfterTick
  /\ ~Rearms
  /\ HandlerReturns
  /\ UNCHANGED <<evinfo, mutex, call, stack, quit, finished, timerTick,
                 armed, sigPending, simTime, masks, dmaId, ops>>

\* The handler and spin1_set_timer_tick read timer_tick once for the seconds
\* and once more for the microseconds of the time they set the itimer to.
ReadSeconds(c) ==
  /\ Runnable(c)
  /\ call[c].op = "sec"
  /\ Enter(c, [Call("usec") EXCEPT !.arg = TickMicros(timerTick) \div Second])
  /\ UNCHANGED <<evinfo, mutex, stack, wpc, quit, finished, timer, masks,
                 dmaId, ops>>

ReadMicros(c) ==
  /\ Runnable(c)
  /\ call[c].op = "usec"
  /\ Enter(c, [Call("arm") EXCEPT
              !.arg = call[c].arg + (TickMicros(timerTick) % Second)])
  /\ UNCHANGED <<evinfo, mutex, stack, wpc, quit, finished, timer, masks,
                 dmaId, ops>>

\* setitimer: an itimer set to zero is disarmed.
SetTimer(c) ==
  /\ Runnable(c)
  /\ call[c].op = "arm"
  /\ armed' = (call[c].arg # 0)
  /\ Enter(c, NoCall)
  /\ UNCHANGED <<evinfo, mutex, stack, quit, finished, timerTick, sigPending,
                 simTime, masks, dmaId, ops>>

\* In the body of the handler it is the last thing done.
TickEnd ==
  /\ stack["handler"] = <<>>
  /\ SetTimer("handler")
  /\ HandlerReturns

-----------------------------------------------------------------------------
(* The application: API calls of c_main and of the callbacks.              *)

ApiUnchanged ==
  UNCHANGED <<evinfo, mutex, stack, wpc, finished, dmaId>>

AppCallbackOn(c, e, cb, p) ==
  /\ Calling(c, "on")
  /\ Enter(c, [Call("on") EXCEPT !.ev = e, !.cback = cb, !.prio = p])
  /\ ApiUnchanged
  /\ UNCHANGED <<quit, timer, masks>>

AppCallbackOff(c, e) ==
  /\ Calling(c, "off")
  /\ Enter(c, [Call("off") EXCEPT !.ev = e])
  /\ ApiUnchanged
  /\ UNCHANGED <<quit, timer, masks>>

TriggerUserEvent(c) ==
  /\ Calling(c, "trigger")
  /\ Enter(c, QueueCall("queue", USER_EVENT, evCback[USER_EVENT], ops))
  /\ ApiUnchanged
  /\ UNCHANGED <<quit, timer, masks>>

\* The priority argument of spin1_schedule_callback is not used.
ScheduleCallback(c, cb) ==
  /\ Calling(c, "schedule")
  /\ Enter(c, QueueCall("queue", USER_EVENT, cb, ops))
  /\ ApiUnchanged
  /\ UNCHANGED <<quit, timer, masks>>

DmaTransfer(c) ==
  /\ Calling(c, "dma")
  /\ Enter(c, QueueCall("dma", DMA_TRANSFER_DONE,
                        evCback[DMA_TRANSFER_DONE], dmaId))
  /\ ApiUnchanged
  /\ UNCHANGED <<quit, timer, masks>>

Stop(c) ==
  /\ Calling(c, "stop")
  /\ finished' = finished + 1
  /\ quit' = TRUE
  /\ UNCHANGED <<evinfo, mutex, call, stack, wpc, timer, masks, dmaId>>

Kill(c) ==
  /\ Calling(c, "kill")
  /\ quit' = TRUE
  /\ ApiUnchanged
  /\ UNCHANGED <<call, timer, masks>>

SetTimerTick(c, t) ==
  /\ Calling(c, "timer")
  /\ timerTick' = t
  /\ Enter(c, Call("sec"))
  /\ ApiUnchanged
  /\ UNCHANGED <<quit, armed, sigPending, hthread, simTime, masks>>

TimerSet(c) ==
  /\ c \in Threads \/ stack[c] # <<>>
  /\ SetTimer(c)
  /\ UNCHANGED <<wpc, hthread>>

\* set_interrupt_mode: mode 0 unblocks SIGUSR1 and SIGALRM in the calling
\* thread, any other mode blocks every signal.
SetOldMode(c, mode) ==
  /\ intMode' = mode
  /\ blocked' = [blocked EXCEPT ![c] = intMode # 0]

SetInterruptMode(c, mode) ==
  /\ intMode' = mode
  /\ blocked' = [blocked EXCEPT ![c] = mode # 0]

\* spin1_int_disable, irq_disable and fiq_disable return the old mode.
IntDisable(c) ==
  /\ Calling(c, "disable")
  /\ saved[c] = NoSr
  /\ saved' = [saved EXCEPT ![c] = intMode]
  /\ SetInterruptMode(c, 1)
  /\ ApiUnchanged
  /\ UNCHANGED <<call, quit, timer>>

ModeRestore(c) ==
  /\ Calling(c, "restore")
  /\ saved[c] # NoSr
  /\ SetInterruptMode(c, saved[c])
  /\ saved' = [saved EXCEPT ![c] = NoSr]
  /\ ApiUnchanged
  /\ UNCHANGED <<call, quit, timer>>

\* A callback returns, in the mode it was called in.
Return(c) ==
  /\ Runnable(c)
  /\ call[c].op = "none"
  /\ stack[c] # <<>>
  /\ c \in Threads => saved[c] = NoSr
  /\ stack' = [stack EXCEPT ![c] = Tail(@)]
  /\ Enter(c, IF stack[c][1].dma THEN Call("dmaret") ELSE NoCall)
  /\ wpc' = IF c = "worker" /\ wpc = "callback" /\ Len(stack[c]) = 1
            THEN "loop" ELSE wpc
  /\ UNCHANGED <<evinfo, mutex, quit, finished, timer, masks, dmaId, ops>>

-----------------------------------------------------------------------------
Section(c) ==
  \/ Acquire(c)
  \/ QueueUnhandled(c) \/ QueueDirect(c) \/ QueueAppend(c)
  \/ CallbackOn(c) \/ CallbackOff(c)
  \/ DmaReturn(c)
  \/ ReadSeconds(c) \/ ReadMicros(c) \/ TimerSet(c)

App(c) ==
  \/ \E e \in AppEvents, cb \in Callbacks, p \in Priorities :
       AppCallbackOn(c, e, cb, p)
  \/ \E e \in AppEvents : AppCallbackOff(c, e)
  \/ TriggerUserEvent(c)
  \/ \E cb \in Callbacks : ScheduleCallback(c, cb)
  \/ DmaTransfer(c)
  \/ Stop(c)
  \/ Kill(c)
  \/ \E t \in TickTimes : SetTimerTick(c, t)
  \/ c \in Threads /\ IntDisable(c)
  \/ c \in Threads /\ ModeRestore(c)
  \/ Return(c)

Worker ==
  \/ Section("worker") \/ App("worker")
  \/ Start \/ LoopScan \/ LoopQuit \/ ScanFinds \/ ScanFindsNone
  \/ Dequeue \/ Suspend \/ MainReturn

Controller ==
  \/ Section("controller") \/ App("controller")
  \/ \E e \in NetEvents : ReceivePacket(e)

Handler ==
  \/ Section("handler") \/ App("handler")
  \/ TickRearm \/ TickQuit \/ TickEnd

Next ==
  /\ ~Crashed
  /\ \/ Worker
     \/ Controller
     \/ Handler
     \/ Expire
     \/ \E t \in Threads : TickStart(t)

Spec == Init /\ [][Next]_vars

\* The operating system runs every runnable thread, an armed timer expires
\* and a signal that can be taken is taken; packets need not come.
Fairness ==
  /\ WF_vars(~Crashed /\ Worker)
  /\ WF_vars(~Crashed /\ (Section("controller") \/ App("controller")))
  /\ WF_vars(~Crashed /\ Handler)
  /\ WF_vars(~Crashed /\ Expire)
  /\ WF_vars(~Crashed /\ \E t \in Threads : TickStart(t))

FairSpec == Spec /\ Fairness

-----------------------------------------------------------------------------
(* Properties.                                                             *)

TypeOK ==
  /\ evPriority \in [Events -> Int]
  /\ evCback \in [Events -> Pointers]
  /\ evQueue \in [Events -> Seq(Items)]
  /\ mutex \in Contexts \cup {Nobody}
  /\ call \in [Contexts -> Calls]
  /\ stack \in [Contexts -> Seq(Frames)]
  /\ wpc \in WorkerPcs
  /\ quit \in BOOLEAN
  /\ finished \in Nat
  /\ timerTick \in Nat
  /\ armed \in BOOLEAN /\ sigPending \in BOOLEAN
  /\ hthread \in Threads \cup {Nobody}
  /\ simTime \in Uint
  /\ blocked \in [Threads -> BOOLEAN]
  /\ intMode \in 0 .. 1
  /\ saved \in [Threads -> 0 .. NoSr]
  /\ dmaId \in Uint
  /\ ops \in Nat

\* evinfo_mutex is never held by a context that executes application code
\* or waits for a packet or a signal: a callback that raises an event would
\* otherwise lock it twice.
CallbacksRunUnlocked ==
  \A c \in Contexts : mutex = c => call[c].op \in LockingOps

\* handle_timer_tick calls queue_event from signal context: it must never
\* interrupt the thread that holds evinfo_mutex, for that thread cannot
\* release it until the handler returns.
HandlerNeverSelfDeadlocks ==
  hthread # Nobody => mutex # hthread

\* spin1_start drops the mutex between choosing a queue and taking its head:
\* whatever the other contexts do in between, the head is still there.
DequeueFindsEvent ==
  call["worker"].op = "dequeue" => evQueue[call["worker"].ev] # <<>>

\* The callback argument of queue_event is read before the mutex is taken
\* and used after: no queued event and no running callback is NULL.
NeverCallsNull ==
  /\ \A e \in Events : \A i \in DOMAIN evQueue[e] :
       evQueue[e][i].cback # NULL
  /\ ~Crashed

Setting == \E c \in Contexts : call[c].op \in SettingOps
TimerOn == armed \/ sigPending \/ hthread # Nobody

\* The itimer is one-shot and is set by handle_timer_tick and, at the same
\* time, by spin1_set_timer_tick on the other thread: while the core runs
\* with a period, it is set, or its signal is on the way, or someone who
\* sets it is at work.
TimerAlive == TickMicros(timerTick) # 0 /\ ~quit => TimerOn \/ Setting

\* spin1_set_timer_tick with a period starts the ticks.
TimerRuns == timerTick # 0 /\ ~quit => TimerOn \/ Setting

\* Between int_disable and mode_restore c_main and the callbacks are not
\* interrupted: sigsuspend and the end of c_main alone lift the mask.
DisabledMeansNoHandler ==
  \A t \in Threads :
    saved[t] # NoSr /\ hthread = t =>
      t = "worker" /\ wpc \in {"suspended", "joined"}

InLoop == wpc \in {"loop", "suspend", "suspended", "callback"}

\* queue_event does not wake the worker; while the timer runs, every queued
\* event is run all the same.
EventsEventuallyRun ==
  \A e \in Events :
    (InLoop /\ TimerOn /\ evCback[e] # NULL /\ evQueue[e] # <<>>) ~>
      (evQueue[e] = <<>> \/ evCback[e] = NULL \/ quit)

\* A core that is stopped, by its own callback or by one the controller
\* runs, leaves spin1_start.
StopEndsLoop ==
  (InLoop /\ TimerOn /\ quit) ~> wpc \in {"returned", "joined"}

\* The queued callback the worker is executing: the outermost frame of its
\* stack.
Current ==
  IF wpc = "callback"
  THEN LET f == stack["worker"][Len(stack["worker"])]
       IN  <<[cback |-> f.cback, arg |-> f.arg]>>
  ELSE <<>>

\* The event queues are first-in first-out channels that lose, duplicate and
\* change nothing, and the worker runs their events one at a time: see
\* EventDelivery.
Delivery == INSTANCE EventDelivery WITH pending <- evQueue, current <- Current
DeliverySpec == Delivery!Spec
=============================================================================
