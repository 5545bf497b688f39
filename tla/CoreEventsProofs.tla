-------------------------- MODULE CoreEventsProofs --------------------------
(***************************************************************************)
(* Theorems about CoreEvents for every application: any callbacks, event   *)
(* types, priorities and API calls, any number of calls and of ticks.      *)
(***************************************************************************)
EXTENDS CoreEvents, SequenceTheorems, TLAPS

\* The API calls that go on to lock evinfo_mutex or to set the itimer.
Requests(c) ==
  \/ \E e \in AppEvents, cb \in Callbacks, p \in Priorities :
       AppCallbackOn(c, e, cb, p)
  \/ \E e \in AppEvents : AppCallbackOff(c, e)
  \/ TriggerUserEvent(c)
  \/ \E cb \in Callbacks : ScheduleCallback(c, cb)
  \/ DmaTransfer(c)
  \/ \E t \in TickTimes : SetTimerTick(c, t)

\* The steps of a call that need no mutex.
Moves(c) ==
  \/ DmaReturn(c) \/ ReadSeconds(c) \/ ReadMicros(c) \/ TimerSet(c)

\* The steps of handle_timer_tick after the callback.
Ticks == TickRearm \/ TickQuit \/ TickEnd

\* The steps of a core, one disjunct per action.
Steps ==
  \/ \E c \in Contexts :
       \/ Acquire(c)
       \/ QueueUnhandled(c)
       \/ QueueDirect(c)
       \/ QueueAppend(c)
       \/ CallbackOn(c)
       \/ CallbackOff(c)
       \/ Moves(c)
       \/ Requests(c)
       \/ Stop(c)
       \/ Kill(c)
       \/ c \in Threads /\ IntDisable(c)
       \/ c \in Threads /\ ModeRestore(c)
       \/ Return(c)
  \/ Start
  \/ LoopScan
  \/ LoopQuit
  \/ ScanFinds
  \/ ScanFindsNone
  \/ Dequeue
  \/ Suspend
  \/ MainReturn
  \/ \E e \in NetEvents : ReceivePacket(e)
  \/ Expire
  \/ \E t \in Threads : TickStart(t)
  \/ Ticks

\* Next takes no other step.
LEMMA NextSteps == Next => Steps
  BY DEF Next, Worker, Controller, Handler, Section, App, Steps, Requests,
     Moves, Ticks, Contexts, Threads

-----------------------------------------------------------------------------
(* The helpers.                                                            *)

LEMMA WrapType == \A n \in Nat : Wrap(n) \in Uint
  BY ConstantsAssumption DEF Wrap, Uint

LEMMA MicrosType == \A t \in Nat : TickMicros(t) \in Nat
  <1>1. SlowDownTimer \in Nat BY ConstantsAssumption DEF SlowDownTimer
  <1>2. \A t \in Nat : t * SlowDownTimer \in Nat BY <1>1
  <1> QED BY <1>2, WrapType DEF TickMicros, Uint

LEMMA NoCallType == NoCall \in Calls
  BY DEF NoCall, Calls, CallOps, LockingOps, Events, NUM_EVENTS, Pointers

LEMMA CallType == \A op \in CallOps : Call(op) \in Calls /\ Call(op).op = op
  BY NoCallType DEF Call, NoCall, Calls

\* What a call is, whatever its arguments.
LEMMA OpOf ==
  /\ NoCall.op = "none"
  /\ \A op : Call(op).op = op
  /\ \A op, n : /\ [Call(op) EXCEPT !.arg = n].op = op
                /\ [Call(op) EXCEPT !.arg = n].arg = n
  /\ \A op, e : [Call(op) EXCEPT !.ev = e].op = op
  /\ \A op, e, cb, p :
       [Call(op) EXCEPT !.ev = e, !.cback = cb, !.prio = p].op = op
  /\ \A op, e, cb, arg : QueueCall(op, e, cb, arg).op = op
  BY DEF Call, NoCall, QueueCall

\* The two parts of the time the itimer is set to.
LEMMA PartsType ==
  \A t \in Nat : /\ TickMicros(t) \div Second \in Nat
                /\ TickMicros(t) % Second \in Nat
  <1>1. \A a \in Nat, b \in Nat \ {0} : a \div b \in Nat /\ a % b \in Nat
    <2> TAKE a \in Nat, b \in Nat \ {0}
    <2>1. a \div b \in Int /\ a \div b >= 0 OBVIOUS
    <2>2. a % b \in Nat OBVIOUS
    <2> QED BY <2>1, <2>2
  <1> QED BY <1>1, MicrosType, ConstantsAssumption

LEMMA QueueCallType ==
  ASSUME NEW op \in CallOps, NEW e \in Events, NEW cb \in Pointers,
         NEW arg \in Nat
  PROVE  /\ QueueCall(op, e, cb, arg) \in Calls
         /\ QueueCall(op, e, cb, arg).op = op
         /\ QueueCall(op, e, cb, arg).ev = e
  BY NoCallType DEF QueueCall, NoCall, Calls

LEMMA AfterQueueType ==
  ASSUME NEW op
  PROVE  AfterQueue(op) \in Calls /\ AfterQueue(op).op \in {"none", "dmaret"}
  BY NoCallType, CallType DEF AfterQueue, CallOps, LockingOps, NoCall

\* What setting the itimer and returning from spin1_dma_transfer change.
LEMMA MovesFrame ==
  ASSUME NEW c \in Contexts, Moves(c)
  PROVE  /\ UNCHANGED <<evinfo, evPriority, evCback, evQueue, mutex, stack,
                        wpc, quit, finished, masks, blocked, intMode, saved,
                        ops, timerTick, sigPending, hthread, simTime>>
         /\ Runnable(c) /\ call[c].op \in {"dmaret", "sec", "usec", "arm"}
         /\ \E k : Enter(c, k) /\ k.op \in {"none", "usec", "arm"}
         /\ armed' = armed \/ armed' = (call[c].arg # 0)
         /\ dmaId' = dmaId \/ dmaId' = Wrap(dmaId + 1)
  <1>1. CASE DmaReturn(c)
    BY <1>1 DEF DmaReturn, NoCall, evinfo, masks, timer
  <1>2. CASE ReadSeconds(c)
    <2> DEFINE k == [Call("usec") EXCEPT
                     !.arg = TickMicros(timerTick) \div Second]
    <2>0. Enter(c, k) /\ k.op = "usec" BY <1>2, OpOf DEF ReadSeconds
    <2> HIDE DEF k
    <2>1. \E x : Enter(c, x) /\ x.op = "usec" BY <2>0
    <2> QED BY <1>2, <2>1 DEF ReadSeconds, evinfo, masks, timer
  <1>3. CASE ReadMicros(c)
    <2> DEFINE k == [Call("arm") EXCEPT
                     !.arg = call[c].arg + (TickMicros(timerTick) % Second)]
    <2>0. Enter(c, k) /\ k.op = "arm" BY <1>3, OpOf DEF ReadMicros
    <2> HIDE DEF k
    <2>1. \E x : Enter(c, x) /\ x.op = "arm" BY <2>0
    <2> QED BY <1>3, <2>1 DEF ReadMicros, evinfo, masks, timer
  <1>4. CASE TimerSet(c)
    BY <1>4 DEF TimerSet, SetTimer, NoCall, evinfo, masks
  <1> QED BY <1>1, <1>2, <1>3, <1>4 DEF Moves

LEMMA TicksFrame ==
  ASSUME TypeOK, Ticks
  PROVE  /\ UNCHANGED <<evinfo, evPriority, evCback, evQueue, mutex, stack,
                        quit, finished, masks, blocked, intMode, saved, dmaId,
                        ops, timerTick, sigPending, simTime>>
         /\ hthread # Nobody /\ stack["handler"] = <<>>
         /\ call["handler"].op \in {"none", "arm"}
         /\ \E k : Enter("handler", k) /\ k.op \in {"none", "sec"}
         /\ \/ UNCHANGED <<hthread, wpc, armed>>
            \/ HandlerReturns /\ call'["handler"].op = "none"
         /\ armed' = armed \/ armed' = (call["handler"].arg # 0)
  <1>0. "handler" \in Contexts BY DEF Contexts
  <1>1. CASE TickRearm
    BY <1>1 DEF TickRearm, AfterTick, Call, NoCall, evinfo, masks, timer
  <1>2. CASE TickQuit
    <2>1. call' = [call EXCEPT !["handler"] = call["handler"]]
      BY <1>0, <1>2 DEF TickQuit, TypeOK
    <2> QED BY <1>2, <2>1 DEF TickQuit, AfterTick, Enter, evinfo, masks
  <1>3. CASE TickEnd
    <2>1. call'["handler"].op = "none"
      BY <1>0, <1>3 DEF TickEnd, SetTimer, Enter, NoCall, TypeOK
    <2> QED BY <1>3, <2>1 DEF TickEnd, SetTimer, Runnable, NoCall, evinfo,
               masks
  <1> QED BY <1>1, <1>2, <1>3 DEF Ticks

-----------------------------------------------------------------------------
(* Type correctness.                                                       *)

LEMMA InitTypeOK == Init => TypeOK
  <1> SUFFICES ASSUME Init PROVE TypeOK OBVIOUS
  <1>1. /\ evPriority \in [Events -> Int]
        /\ evCback \in [Events -> Pointers]
        /\ evQueue \in [Events -> Seq(Items)]
    BY DEF Init, Pointers
  <1>2. call \in [Contexts -> Calls] /\ stack \in [Contexts -> Seq(Frames)]
    BY NoCallType DEF Init
  <1>3. /\ mutex \in Contexts \cup {Nobody} /\ wpc \in WorkerPcs
        /\ hthread \in Threads \cup {Nobody}
    BY DEF Init, WorkerPcs
  <1>4. simTime \in Uint /\ dmaId \in Uint /\ ops \in Nat /\ timerTick \in Nat
    BY ConstantsAssumption DEF Init, Uint
  <1>5. blocked \in [Threads -> BOOLEAN] /\ saved \in [Threads -> 0 .. NoSr]
    BY DEF Init, MainMask, NoSr
  <1>6. finished \in Nat /\ intMode \in 0 .. 1
    BY DEF Init
  <1>7. quit \in BOOLEAN /\ armed \in BOOLEAN /\ sigPending \in BOOLEAN
    BY Zenon DEF Init
  <1> QED BY <1>1, <1>2, <1>3, <1>4, <1>5, <1>6, <1>7 DEF TypeOK

\* The conjuncts of TypeOK by the part of the state they are about.
QueuesTyped ==
  /\ evPriority \in [Events -> Int]
  /\ evCback \in [Events -> Pointers]
  /\ evQueue \in [Events -> Seq(Items)]
FramesTyped ==
  /\ call \in [Contexts -> Calls]
  /\ stack \in [Contexts -> Seq(Frames)]
ControlTyped ==
  /\ mutex \in Contexts \cup {Nobody}
  /\ wpc \in WorkerPcs
  /\ quit \in BOOLEAN
  /\ finished \in Nat
  /\ ops \in Nat
  /\ dmaId \in Uint
TimerTyped ==
  /\ timerTick \in Nat
  /\ armed \in BOOLEAN /\ sigPending \in BOOLEAN
  /\ hthread \in Threads \cup {Nobody}
  /\ simTime \in Uint
MasksTyped ==
  /\ blocked \in [Threads -> BOOLEAN]
  /\ intMode \in 0 .. 1
  /\ saved \in [Threads -> 0 .. NoSr]

LEMMA TypeParts ==
  TypeOK <=> /\ QueuesTyped /\ FramesTyped /\ ControlTyped /\ TimerTyped
             /\ MasksTyped
  BY DEF TypeOK, QueuesTyped, FramesTyped, ControlTyped, TimerTyped, MasksTyped

LEMMA QueuesStep == TypeOK /\ Steps => QueuesTyped'
  <1> SUFFICES ASSUME TypeOK, Steps PROVE QueuesTyped' OBVIOUS
  <1>1. ASSUME NEW c \in Contexts, QueueAppend(c) PROVE QueuesTyped'
    <2>1. call[c] \in Calls BY DEF TypeOK
    <2>2. [cback |-> call[c].cback, arg |-> call[c].arg] \in Items
      BY <2>1 DEF Calls, Items
    <2>3. call[c].ev \in Events BY <2>1 DEF Calls
    <2> QED BY <1>1, <2>2, <2>3 DEF QueueAppend, LinkedAtTail, TypeOK,
               QueuesTyped
  <1>2. ASSUME NEW c \in Contexts, CallbackOn(c) PROVE QueuesTyped'
    BY <1>2 DEF CallbackOn, TypeOK, QueuesTyped, Calls
  <1>3. ASSUME NEW c \in Contexts, CallbackOff(c) PROVE QueuesTyped'
    BY <1>3 DEF CallbackOff, KeptWhenOff, TypeOK, QueuesTyped, Calls, Pointers
  <1>4. ASSUME Dequeue PROVE QueuesTyped'
    <2> DEFINE e == call["worker"].ev
    <2>1. e \in Events BY DEF TypeOK, Calls, Contexts, Threads
    <2>2. evQueue[e] \in Seq(Items) /\ evQueue[e] # <<>>
      BY <1>4, <2>1 DEF Dequeue, TypeOK
    <2>3. Tail(evQueue[e]) \in Seq(Items) BY <2>2
    <2>4. evQueue' = [evQueue EXCEPT ![e] = Tail(@)]
          /\ UNCHANGED <<evPriority, evCback>>
      BY <1>4 DEF Dequeue
    <2> HIDE DEF e
    <2> QED BY <2>3, <2>4 DEF TypeOK, QueuesTyped
  <1>5. ASSUME UNCHANGED evinfo PROVE QueuesTyped'
    BY <1>5 DEF evinfo, TypeOK, QueuesTyped
  <1>6. ASSUME NEW c \in Contexts,
               \/ Acquire(c) \/ QueueUnhandled(c) \/ QueueDirect(c)
               \/ Moves(c) \/ Return(c)
        PROVE  UNCHANGED evinfo
    BY <1>6, MovesFrame DEF Acquire, QueueUnhandled, QueueDirect, Return
  <1>7. ASSUME NEW c \in Contexts,
               \/ Requests(c) \/ Stop(c) \/ Kill(c)
               \/ IntDisable(c) \/ ModeRestore(c)
        PROVE  UNCHANGED evinfo
    BY <1>7 DEF Requests, AppCallbackOn, AppCallbackOff, TriggerUserEvent,
       ScheduleCallback, DmaTransfer, SetTimerTick, Stop, Kill, IntDisable,
       ModeRestore, ApiUnchanged
  <1>8. ASSUME \/ Start \/ LoopScan \/ LoopQuit \/ ScanFinds \/ ScanFindsNone
               \/ Suspend \/ MainReturn \/ Expire \/ Ticks
               \/ \E e \in NetEvents : ReceivePacket(e)
               \/ \E t \in Threads : TickStart(t)
        PROVE  UNCHANGED evinfo
    BY <1>8, TicksFrame DEF Start, LoopScan, LoopQuit, ScanFinds,
       ScanFindsNone, Suspend, MainReturn, ReceivePacket, Expire, TickStart
  <1> QED BY <1>1, <1>2, <1>3, <1>4, <1>5, <1>6, <1>7, <1>8 DEF Steps

\* spin1_callback_off leaves the queue as it is.
LEMMA OffKeeps ==
  ASSUME TypeOK, NEW c \in Contexts, CallbackOff(c)
  PROVE  UNCHANGED evQueue
  BY DEF CallbackOff, KeptWhenOff, TypeOK

LEMMA FramesStep == TypeOK /\ Steps => FramesTyped'
  <1> SUFFICES ASSUME TypeOK, Steps PROVE FramesTyped' OBVIOUS
  <1> USE DEF Enter
  <1>0. ASSUME NEW c \in Contexts, NEW k \in Calls, Enter(c, k),
               UNCHANGED stack
        PROVE  FramesTyped'
    BY <1>0 DEF TypeOK, FramesTyped
  <1>1. \A c \in Contexts : call[c] \in Calls BY DEF TypeOK
  <1>2. ASSUME NEW c \in Contexts, Acquire(c) PROVE FramesTyped'
    BY <1>2 DEF Acquire, TypeOK, FramesTyped
  <1>3. ASSUME NEW c \in Contexts, QueueUnhandled(c) \/ QueueAppend(c)
        PROVE  FramesTyped'
    BY <1>0, <1>3, AfterQueueType DEF QueueUnhandled, QueueAppend
  <1>4. ASSUME NEW c \in Contexts, QueueDirect(c) PROVE FramesTyped'
    <2> DEFINE f == [cback |-> call[c].cback, arg |-> call[c].arg,
                     dma |-> call[c].op = "dma"]
    <2>1. f \in Frames BY <1>1 DEF Calls, Frames
    <2>2. /\ stack' = [stack EXCEPT ![c] = <<f>> \o @]
          /\ call' = [call EXCEPT ![c] = NoCall]
      BY <1>4 DEF QueueDirect
    <2> HIDE DEF f
    <2>3. <<f>> \o stack[c] \in Seq(Frames) BY <2>1 DEF TypeOK
    <2> QED BY <2>2, <2>3, NoCallType DEF TypeOK, FramesTyped
  <1>5. ASSUME NEW c \in Contexts, CallbackOn(c) \/ CallbackOff(c)
        PROVE  FramesTyped'
    BY <1>0, <1>5, NoCallType DEF CallbackOn, CallbackOff
  <1>20. ASSUME NEW c \in Contexts, Moves(c) PROVE FramesTyped'
    <2>1. /\ TickMicros(timerTick) \div Second \in Nat
          /\ TickMicros(timerTick) % Second \in Nat
      BY PartsType DEF TypeOK
    <2>2. call[c].arg \in Nat BY <1>1 DEF Calls
    <2>3. "usec" \in CallOps /\ "arm" \in CallOps
      BY DEF CallOps, SettingOps
    <2>4. \A op \in CallOps, n \in Nat :
            [Call(op) EXCEPT !.arg = n] \in Calls
      BY CallType DEF Calls
    <2>5. CASE DmaReturn(c) \/ TimerSet(c)
      BY <1>0, <2>5, NoCallType DEF DmaReturn, TimerSet, SetTimer
    <2>6. CASE ReadSeconds(c)
      BY <1>0, <2>1, <2>3, <2>4, <2>6 DEF ReadSeconds
    <2>7. CASE ReadMicros(c)
      <3>1. call[c].arg + (TickMicros(timerTick) % Second) \in Nat
        BY <2>1, <2>2
      <3> QED BY <1>0, <2>3, <2>4, <2>7, <3>1 DEF ReadMicros
    <2> QED BY <1>20, <2>5, <2>6, <2>7 DEF Moves
  <1>21. ASSUME NEW c \in Contexts, NEW t \in TickTimes, SetTimerTick(c, t)
         PROVE  FramesTyped'
    <2>1. Call("sec") \in Calls BY CallType DEF CallOps, SettingOps
    <2> QED BY <1>0, <1>21, <2>1 DEF SetTimerTick, ApiUnchanged
  <1>6. ASSUME NEW c \in Contexts, NEW e \in AppEvents, NEW cb \in Callbacks,
               NEW p \in Priorities, AppCallbackOn(c, e, cb, p)
        PROVE  FramesTyped'
    <2>1. Call("on") \in Calls BY CallType DEF CallOps, LockingOps
    <2>2. e \in Events /\ cb \in Pointers /\ p \in Int
      BY ConstantsAssumption DEF Pointers
    <2>3. [Call("on") EXCEPT !.ev = e, !.cback = cb, !.prio = p] \in Calls
      BY <2>1, <2>2 DEF Calls
    <2> QED BY <1>0, <1>6, <2>3 DEF AppCallbackOn, ApiUnchanged
  <1>7. ASSUME NEW c \in Contexts, NEW e \in AppEvents, AppCallbackOff(c, e)
        PROVE  FramesTyped'
    <2>1. [Call("off") EXCEPT !.ev = e] \in Calls
      BY CallType, ConstantsAssumption DEF Calls, CallOps, LockingOps
    <2> QED BY <1>0, <1>7, <2>1 DEF AppCallbackOff, ApiUnchanged
  <1>8. ASSUME NEW c \in Contexts, NEW e \in Events, NEW cb \in Pointers,
               NEW op \in CallOps, NEW arg \in Nat,
               Enter(c, QueueCall(op, e, cb, arg)), UNCHANGED stack
        PROVE  FramesTyped'
    BY <1>0, <1>8, QueueCallType
  <1>9. /\ \A e \in Events : evCback[e] \in Pointers
        /\ ops \in Nat /\ dmaId \in Nat
    BY DEF TypeOK, Uint
  <1>10. /\ USER_EVENT \in Events /\ DMA_TRANSFER_DONE \in Events
         /\ TIMER_TICK \in Events /\ NetEvents \subseteq Events
         /\ Callbacks \subseteq Pointers
         /\ "queue" \in CallOps /\ "dma" \in CallOps
    BY ConstantsAssumption DEF USER_EVENT, DMA_TRANSFER_DONE, TIMER_TICK,
       MC_PACKET_RECEIVED, SDP_PACKET_RX, Events, NUM_EVENTS, Pointers,
       CallOps, LockingOps
  <1>11. ASSUME NEW c \in Contexts,
                \/ TriggerUserEvent(c)
                \/ \E cb \in Callbacks : ScheduleCallback(c, cb)
                \/ DmaTransfer(c)
         PROVE  FramesTyped'
    BY <1>8, <1>9, <1>10, <1>11 DEF TriggerUserEvent, ScheduleCallback,
       DmaTransfer, ApiUnchanged
  <1>12. ASSUME NEW e \in NetEvents, ReceivePacket(e) PROVE FramesTyped'
    BY <1>8, <1>9, <1>10, <1>12 DEF ReceivePacket, Contexts, Threads
  <1>13. ASSUME NEW t \in Threads, TickStart(t) PROVE FramesTyped'
    <2>1. simTime' \in Nat
      BY <1>13, WrapType DEF TickStart, TypeOK, Uint
    <2> QED BY <1>8, <1>9, <1>10, <1>13, <2>1 DEF TickStart, Contexts
  <1>14. ASSUME NEW c \in Contexts, Return(c) PROVE FramesTyped'
    <2>1. stack[c] \in Seq(Frames) /\ stack[c] # <<>>
      BY <1>14 DEF Return, TypeOK
    <2>2. Tail(stack[c]) \in Seq(Frames) BY <2>1
    <2>3. PICK k \in Calls : Enter(c, k)
      BY <1>14, NoCallType, CallType DEF Return, CallOps
    <2>4. stack' = [stack EXCEPT ![c] = Tail(@)] BY <1>14 DEF Return
    <2> QED BY <2>2, <2>3, <2>4 DEF TypeOK, FramesTyped
  <1>15. ASSUME Dequeue PROVE FramesTyped'
    <2> DEFINE e == call["worker"].ev
               f == [cback |-> evQueue[e][1].cback,
                     arg |-> evQueue[e][1].arg, dma |-> FALSE]
    <2>1. e \in Events BY DEF TypeOK, Calls, Contexts, Threads
    <2>2. evQueue[e] \in Seq(Items) /\ evQueue[e] # <<>>
      BY <1>15, <2>1 DEF Dequeue, TypeOK
    <2>3. evQueue[e][1] \in Items BY <2>2
    <2>4. f \in Frames BY <2>3 DEF Frames, Items
    <2>5. stack' = [stack EXCEPT !["worker"] = <<f>>]
          /\ call' = [call EXCEPT !["worker"] = NoCall]
      BY <1>15 DEF Dequeue, Taken
    <2> HIDE DEF f, e
    <2>6. <<f>> \in Seq(Frames) BY <2>4
    <2> QED BY <2>5, <2>6, NoCallType DEF TypeOK, FramesTyped, Contexts,
               Threads
  <1>16. ASSUME LoopScan \/ ScanFindsNone PROVE FramesTyped'
    BY <1>0, <1>16, NoCallType, CallType DEF LoopScan, ScanFindsNone, Contexts,
       Threads, CallOps, LockingOps
  <1>17. ASSUME ScanFinds PROVE FramesTyped'
    <2>1. PICK e \in Events :
            Enter("worker", [Call("dequeue") EXCEPT !.ev = e])
      BY <1>17 DEF ScanFinds, Ready
    <2>2. [Call("dequeue") EXCEPT !.ev = e] \in Calls
      BY CallType DEF Calls, CallOps, LockingOps
    <2> QED BY <1>0, <1>17, <2>1, <2>2 DEF ScanFinds, Contexts, Threads
  <1>18. ASSUME UNCHANGED <<call, stack>> PROVE FramesTyped'
    BY <1>18 DEF TypeOK, FramesTyped
  <1>22. ASSUME Ticks PROVE FramesTyped'
    <2>1. CASE TickRearm
      BY <1>0, <2>1, CallType
      DEF TickRearm, CallOps, SettingOps, Contexts
    <2>2. CASE TickQuit BY <1>18, <2>2 DEF TickQuit
    <2>3. CASE TickEnd
      BY <1>0, <2>3, NoCallType DEF TickEnd, SetTimer, Contexts
    <2> QED BY <1>22, <2>1, <2>2, <2>3 DEF Ticks
  <1>19. ASSUME \/ Start \/ LoopQuit \/ Suspend \/ MainReturn \/ Expire
                \/ \E c \in Contexts : Stop(c) \/ Kill(c) \/ IntDisable(c)
                      \/ ModeRestore(c)
         PROVE  UNCHANGED <<call, stack>>
    BY <1>19 DEF Start, LoopQuit, Suspend, MainReturn, Expire,
       Stop, Kill, IntDisable, ModeRestore, ApiUnchanged
  <1> QED BY <1>2, <1>3, <1>4, <1>5, <1>6, <1>7, <1>11, <1>12, <1>13, <1>14,
             <1>15, <1>16, <1>17, <1>18, <1>19, <1>20, <1>21, <1>22
          DEF Steps, Requests

LEMMA ControlStep == TypeOK /\ Steps => ControlTyped'
  <1> SUFFICES ASSUME TypeOK, Steps PROVE ControlTyped' OBVIOUS
  <1> USE DEF TypeOK, ControlTyped, WorkerPcs, Contexts, Threads
  <1>1. ASSUME NEW c \in Contexts,
               \/ Acquire(c) \/ QueueUnhandled(c) \/ QueueDirect(c)
               \/ QueueAppend(c) \/ CallbackOn(c) \/ CallbackOff(c)
        PROVE  ControlTyped'
    BY <1>1 DEF Acquire, QueueUnhandled, QueueDirect, UnlockBeforeCall,
       QueueAppend, CallbackOn, CallbackOff
  <1>2. ASSUME NEW c \in Contexts, Moves(c) PROVE ControlTyped'
    <2>0. dmaId \in Nat BY DEF Uint
    <2>1. Wrap(dmaId + 1) \in Uint BY <2>0, WrapType
    <2>2. dmaId' \in {dmaId, Wrap(dmaId + 1)} BY <1>2, MovesFrame, Zenon
    <2> QED BY <1>2, <2>1, <2>2, MovesFrame
  <1>3. \A c, op : Calling(c, op) => ops' \in Nat
    BY DEF Calling
  <1>4. ASSUME NEW c \in Contexts,
               \/ Requests(c)
        PROVE  ControlTyped'
    BY <1>3, <1>4 DEF Requests, AppCallbackOn, AppCallbackOff,
       TriggerUserEvent, ScheduleCallback, DmaTransfer, SetTimerTick,
       ApiUnchanged
  <1>5. ASSUME NEW c \in Contexts,
               \/ Stop(c) \/ Kill(c) \/ IntDisable(c) \/ ModeRestore(c)
        PROVE  ControlTyped'
    <2>1. quit' \in BOOLEAN
      BY <1>5, Zenon DEF Stop, Kill, IntDisable, ModeRestore
    <2>2. /\ finished' \in Nat /\ ops' \in Nat
          /\ UNCHANGED <<mutex, wpc, dmaId>>
      BY <1>3, <1>5 DEF Stop, Kill, IntDisable, ModeRestore, ApiUnchanged
    <2> QED BY <2>1, <2>2
  <1>6. ASSUME NEW c \in Contexts, Return(c) PROVE ControlTyped'
    <2>1. wpc' \in {wpc, "loop"} BY <1>6, Zenon DEF Return
    <2>2. UNCHANGED <<mutex, quit, finished, ops, dmaId>>
      BY <1>6 DEF Return
    <2> QED BY <2>1, <2>2
  <1>7. ASSUME \/ Start \/ LoopScan \/ LoopQuit \/ ScanFinds \/ ScanFindsNone
               \/ Dequeue \/ Suspend \/ MainReturn
        PROVE  ControlTyped'
    BY <1>7 DEF Start, LoopScan, LoopQuit, ScanFinds, ScanFindsNone, Dequeue,
       Suspend, MainReturn
  <1>8. ASSUME \/ \E e \in NetEvents : ReceivePacket(e)
               \/ Expire
               \/ \E t \in Threads : TickStart(t)
        PROVE  ControlTyped'
    <2>1. UNCHANGED <<mutex, wpc, quit, finished, dmaId>>
      BY <1>8 DEF ReceivePacket, Expire, TickStart
    <2>2. ops' \in Nat
      BY <1>8 DEF ReceivePacket, Expire, TickStart
    <2> QED BY <2>1, <2>2
  <1>9. ASSUME Ticks PROVE ControlTyped'
    BY <1>9, TicksFrame DEF HandlerReturns
  <1> QED BY <1>1, <1>2, <1>4, <1>5, <1>6, <1>7, <1>8, <1>9 DEF Steps

\* What the steps leave of the timer and of the signal masks.
LEMMA TimerFrame ==
  ASSUME Steps,
         \A c \in Contexts, t \in TickTimes : ~SetTimerTick(c, t),
         \A c \in Contexts : ~Moves(c),
         ~Expire, \A t \in Threads : ~TickStart(t), ~Ticks
  PROVE  UNCHANGED timer
  <1>1. ASSUME NEW c \in Contexts,
               \/ Acquire(c) \/ QueueUnhandled(c) \/ QueueDirect(c)
               \/ QueueAppend(c) \/ CallbackOn(c) \/ CallbackOff(c)
               \/ Return(c)
        PROVE  UNCHANGED timer
    BY <1>1 DEF Acquire, QueueUnhandled, QueueDirect, QueueAppend,
       CallbackOn, CallbackOff, Return
  <1>2. ASSUME NEW c \in Contexts,
               \/ Requests(c) \/ Stop(c) \/ Kill(c)
               \/ IntDisable(c) \/ ModeRestore(c)
        PROVE  UNCHANGED timer
    BY <1>2 DEF Requests, AppCallbackOn, AppCallbackOff, TriggerUserEvent,
       ScheduleCallback, DmaTransfer, SetTimerTick, Stop, Kill, IntDisable,
       ModeRestore
  <1>3. ASSUME \/ Start \/ LoopScan \/ LoopQuit \/ ScanFinds \/ ScanFindsNone
               \/ Dequeue \/ Suspend \/ MainReturn
               \/ \E e \in NetEvents : ReceivePacket(e)
        PROVE  UNCHANGED timer
    BY <1>3 DEF Start, LoopScan, LoopQuit, ScanFinds, ScanFindsNone, Dequeue,
       Suspend, MainReturn, ReceivePacket
  <1> QED BY <1>1, <1>2, <1>3 DEF Steps

LEMMA MasksFrame ==
  ASSUME TypeOK, Steps,
         \A t \in Threads : ~IntDisable(t) /\ ~ModeRestore(t),
         ~Start, ~MainReturn
  PROVE  UNCHANGED masks
  <1>1. ASSUME NEW c \in Contexts,
               \/ Acquire(c) \/ QueueUnhandled(c) \/ QueueDirect(c)
               \/ QueueAppend(c) \/ CallbackOn(c) \/ CallbackOff(c)
               \/ Moves(c) \/ Return(c)
        PROVE  UNCHANGED masks
    BY <1>1, MovesFrame DEF Acquire, QueueUnhandled, QueueDirect, QueueAppend,
       CallbackOn, CallbackOff, Return
  <1>2. ASSUME NEW c \in Contexts,
               \/ Requests(c) \/ Stop(c) \/ Kill(c)
        PROVE  UNCHANGED masks
    BY <1>2 DEF Requests, AppCallbackOn, AppCallbackOff, TriggerUserEvent,
       ScheduleCallback, DmaTransfer, SetTimerTick, Stop, Kill
  <1>3. ASSUME \/ LoopScan \/ LoopQuit \/ ScanFinds \/ ScanFindsNone
               \/ Dequeue \/ Suspend \/ Expire \/ Ticks
               \/ \E e \in NetEvents : ReceivePacket(e)
               \/ \E t \in Threads : TickStart(t)
        PROVE  UNCHANGED masks
    BY <1>3, TicksFrame DEF LoopScan, LoopQuit, ScanFinds, ScanFindsNone,
       Dequeue, Suspend, ReceivePacket, Expire, TickStart
  <1> QED BY <1>1, <1>2, <1>3 DEF Steps

LEMMA TimerStep == TypeOK /\ Steps => TimerTyped'
  <1> SUFFICES ASSUME TypeOK, Steps PROVE TimerTyped' OBVIOUS
  <1>1. ASSUME UNCHANGED timer PROVE TimerTyped'
    BY <1>1 DEF timer, TypeOK, TimerTyped
  <1>2. ASSUME NEW c \in Contexts, NEW t \in TickTimes, SetTimerTick(c, t)
        PROVE  TimerTyped'
    BY <1>2, ConstantsAssumption DEF SetTimerTick, TypeOK, TimerTyped
  <1>3. ASSUME Expire PROVE TimerTyped'
    BY <1>3 DEF Expire, TypeOK, TimerTyped
  <1>4. ASSUME NEW t \in Threads, TickStart(t) PROVE TimerTyped'
    <2>1. simTime' \in Uint BY <1>4, WrapType DEF TickStart, TypeOK, Uint
    <2>2. sigPending' \in BOOLEAN BY <1>4 DEF TickStart
    <2> QED BY <1>4, <2>1, <2>2 DEF TickStart, TypeOK, TimerTyped
  <1>5. ASSUME NEW c \in Contexts, Moves(c) PROVE TimerTyped'
    <2>1. armed' \in BOOLEAN BY <1>5, MovesFrame, Zenon DEF TypeOK
    <2> QED BY <1>5, <2>1, MovesFrame DEF TypeOK, TimerTyped
  <1>6. ASSUME Ticks PROVE TimerTyped'
    <2>1. armed' \in BOOLEAN BY <1>6, TicksFrame, Zenon DEF TypeOK
    <2> QED BY <1>6, <2>1, TicksFrame DEF HandlerReturns, TypeOK, TimerTyped
  <1> QED BY <1>1, <1>2, <1>3, <1>4, <1>5, <1>6, TimerFrame

LEMMA MasksStep == TypeOK /\ Steps => MasksTyped'
  <1> SUFFICES ASSUME TypeOK, Steps PROVE MasksTyped' OBVIOUS
  <1>1. ASSUME UNCHANGED masks PROVE MasksTyped'
    BY <1>1 DEF masks, TypeOK, MasksTyped
  <1>2. ASSUME NEW t \in Threads, NEW mode \in 0 .. 1,
               SetInterruptMode(t, mode), saved' \in [Threads -> 0 .. NoSr]
        PROVE  MasksTyped'
    BY <1>2 DEF SetInterruptMode, TypeOK, MasksTyped
  <1>3. ASSUME NEW t \in Threads, IntDisable(t) PROVE MasksTyped'
    <2>1. saved' \in [Threads -> 0 .. NoSr]
      BY <1>3 DEF IntDisable, TypeOK, NoSr
    <2> QED BY <1>2, <1>3, <2>1 DEF IntDisable
  <1>4. ASSUME NEW t \in Threads, ModeRestore(t) PROVE MasksTyped'
    <2>1. saved[t] \in 0 .. 1 /\ saved' \in [Threads -> 0 .. NoSr]
      BY <1>4 DEF ModeRestore, TypeOK, NoSr
    <2> QED BY <1>2, <1>4, <2>1 DEF ModeRestore
  <1>5. ASSUME Start \/ MainReturn PROVE MasksTyped'
    BY <1>5 DEF Start, MainReturn, TypeOK, MasksTyped, Threads
  <1> QED BY <1>1, <1>3, <1>4, <1>5, MasksFrame

\* Every variable keeps its type, unsigned counters their width: no
\* application makes evinfo, the calls in progress or the timer ill formed.
THEOREM TypeCorrect == Spec => []TypeOK
  <1>1. TypeOK /\ [Next]_vars => TypeOK'
    <2>1. TypeOK /\ Next => TypeOK'
      BY NextSteps, TypeParts, QueuesStep, FramesStep, ControlStep, TimerStep,
         MasksStep DEF TypeOK, QueuesTyped, FramesTyped, ControlTyped,
         TimerTyped, MasksTyped
    <2>2. TypeOK /\ UNCHANGED vars => TypeOK'
      BY DEF TypeOK, vars, evinfo, timer, masks
    <2> QED BY <2>1, <2>2
  <1> QED BY <1>1, InitTypeOK, PTL DEF Spec

-----------------------------------------------------------------------------
(* The mutex and the places of the contexts.                               *)

\* No handler runs: its context is empty.
HandlerIdle ==
  hthread = Nobody =>
    call["handler"].op = "none" /\ stack["handler"] = <<>>

\* What the worker can be doing at each place of spin1_start and main.  The
\* callback the loop called is the outermost frame, and no DMA completion.
WorkerPlace ==
  /\ wpc \in {"suspend", "suspended", "returned", "joined"} =>
       call["worker"].op = "none" /\ stack["worker"] = <<>>
  /\ wpc = "loop" =>
       /\ call["worker"].op \in {"none", "scan", "dequeue"}
       /\ stack["worker"] = <<>>
  /\ call["worker"].op \in {"scan", "dequeue"} => wpc = "loop"
  /\ wpc = "callback" =>
       /\ stack["worker"] # <<>>
       /\ ~stack["worker"][Len(stack["worker"])].dma

LockInv == CallbacksRunUnlocked /\ HandlerIdle

LEMMA LockStep == TypeOK /\ LockInv /\ Steps => CallbacksRunUnlocked'
  <1> SUFFICES ASSUME TypeOK, LockInv, Steps PROVE CallbacksRunUnlocked'
    OBVIOUS
  <1>1. ASSUME NEW c \in Contexts, Acquire(c) PROVE CallbacksRunUnlocked'
    BY <1>1 DEF Acquire, CallbacksRunUnlocked, Contexts, Threads, Nobody
  <1>2. ASSUME mutex' = Nobody PROVE CallbacksRunUnlocked'
    BY <1>2 DEF CallbacksRunUnlocked, Contexts, Threads, Nobody
  <1>3. ASSUME NEW c \in Contexts,
               \/ QueueUnhandled(c) \/ QueueDirect(c) \/ QueueAppend(c)
               \/ CallbackOn(c) \/ CallbackOff(c)
        PROVE  mutex' = Nobody
    BY <1>3 DEF QueueUnhandled, QueueDirect, UnlockBeforeCall, QueueAppend,
       CallbackOn, CallbackOff
  <1>4. ASSUME ScanFinds \/ ScanFindsNone \/ Dequeue PROVE mutex' = Nobody
    BY <1>4 DEF ScanFinds, ScanFindsNone, Dequeue
  <1>5. ASSUME NEW c \in Contexts, call[c].op \notin LockingOps,
               UNCHANGED mutex, \E k : Enter(c, k)
        PROVE  CallbacksRunUnlocked'
    BY <1>5 DEF TypeOK, LockInv, CallbacksRunUnlocked, Enter
  <1>6. {"none", "dmaret", "sec", "usec", "arm"} \cap LockingOps = {}
    BY DEF LockingOps
  <1>7. ASSUME NEW c \in Contexts,
               \/ Moves(c) \/ Return(c)
               \/ Requests(c)
        PROVE  CallbacksRunUnlocked'
    <2>1. /\ call[c].op \in {"none", "dmaret", "sec", "usec", "arm"}
          /\ UNCHANGED mutex
      BY <1>7, MovesFrame DEF Requests, Return, AppCallbackOn, AppCallbackOff,
         TriggerUserEvent, ScheduleCallback, DmaTransfer, SetTimerTick,
         Calling, ApiUnchanged
    <2>2. \E k : Enter(c, k)
      BY <1>7, MovesFrame DEF Requests, Return, AppCallbackOn, AppCallbackOff,
         TriggerUserEvent, ScheduleCallback, DmaTransfer, SetTimerTick
    <2> QED BY <2>1, <2>2, <1>5, <1>6
  <1>8. ASSUME NEW e \in NetEvents, ReceivePacket(e)
        PROVE  CallbacksRunUnlocked'
    <2>1. /\ call["controller"].op = "none" /\ UNCHANGED mutex
          /\ \E k : Enter("controller", k)
      BY <1>8 DEF ReceivePacket
    <2> QED BY <2>1, <1>5, <1>6 DEF Contexts, Threads
  <1>9. ASSUME LoopScan PROVE CallbacksRunUnlocked'
    <2>1. /\ call["worker"].op = "none" /\ UNCHANGED mutex
          /\ \E k : Enter("worker", k)
      BY <1>9 DEF LoopScan, AtLoop
    <2> QED BY <2>1, <1>5, <1>6 DEF Contexts, Threads
  <1>10. ASSUME NEW t \in Threads, TickStart(t) PROVE CallbacksRunUnlocked'
    <2>1. /\ call["handler"].op = "none" /\ UNCHANGED mutex
          /\ \E k : Enter("handler", k)
      BY <1>10 DEF TickStart, LockInv, HandlerIdle
    <2> QED BY <2>1, <1>5, <1>6 DEF Contexts
  <1>13. ASSUME Ticks PROVE CallbacksRunUnlocked'
    BY <1>5, <1>6, <1>13, TicksFrame DEF Contexts
  <1>11. ASSUME UNCHANGED <<mutex, call>> PROVE CallbacksRunUnlocked'
    BY <1>11 DEF LockInv, CallbacksRunUnlocked
  <1>12. ASSUME \/ Start \/ LoopQuit \/ Suspend \/ MainReturn \/ Expire
                \/ \E c \in Contexts : Stop(c) \/ Kill(c) \/ IntDisable(c)
                      \/ ModeRestore(c)
         PROVE  UNCHANGED <<mutex, call>>
    BY <1>12 DEF Start, LoopQuit, Suspend, MainReturn, Expire,
       Stop, Kill, IntDisable, ModeRestore, ApiUnchanged
  <1> QED BY <1>1, <1>2, <1>3, <1>4, <1>7, <1>8, <1>9, <1>10, <1>11, <1>12,
             <1>13 DEF Steps

\* A step of context c leaves the calls and frames of the others alone.
OnlyTouches(c) ==
  \A d \in Contexts \ {c} :
    call'[d] = call[d] /\ stack'[d] = stack[d]

LEMMA TouchesOwn ==
  ASSUME TypeOK, NEW c \in Contexts,
         \/ Acquire(c) \/ QueueUnhandled(c) \/ QueueDirect(c)
         \/ QueueAppend(c) \/ CallbackOn(c) \/ CallbackOff(c)
         \/ Moves(c) \/ Return(c)
         \/ Requests(c) \/ Stop(c) \/ Kill(c)
         \/ IntDisable(c) \/ ModeRestore(c)
  PROVE  OnlyTouches(c) /\ Runnable(c)
  <1>1. CASE \/ Acquire(c) \/ QueueUnhandled(c) \/ QueueAppend(c)
             \/ CallbackOn(c) \/ CallbackOff(c) \/ Moves(c)
    BY <1>1, MovesFrame DEF Acquire, QueueUnhandled, QueueAppend, CallbackOn,
       CallbackOff, Holding, Enter, OnlyTouches, TypeOK
  <1>2. CASE QueueDirect(c)
    <2>1. PICK s : stack' = [stack EXCEPT ![c] = s]
      BY <1>2 DEF QueueDirect
    <2> QED BY <1>2, <2>1 DEF QueueDirect, Holding, Enter, OnlyTouches, TypeOK
  <1>3. CASE Return(c)
    <2>1. PICK s : stack' = [stack EXCEPT ![c] = s]
      BY <1>3 DEF Return
    <2>2. PICK k : Enter(c, k) BY <1>3 DEF Return
    <2>3. Runnable(c) BY <1>3 DEF Return
    <2> QED BY <2>1, <2>2, <2>3 DEF Enter, OnlyTouches, TypeOK
  <1>4. CASE \/ Stop(c) \/ Kill(c) \/ IntDisable(c) \/ ModeRestore(c)
    BY <1>4 DEF Stop, Kill, IntDisable, ModeRestore, ApiUnchanged, Calling,
       OnlyTouches
  <1>5. CASE \/ Requests(c)
    <2>1. (\E k : Enter(c, k)) /\ UNCHANGED stack /\ Runnable(c)
      BY <1>5 DEF Requests, AppCallbackOn, AppCallbackOff, TriggerUserEvent,
         ScheduleCallback, DmaTransfer, SetTimerTick, Calling, ApiUnchanged
    <2> QED BY <2>1 DEF Enter, OnlyTouches, TypeOK
  <1> QED BY <1>1, <1>2, <1>3, <1>4, <1>5

LEMMA HandlerIdleStep == TypeOK /\ HandlerIdle /\ Steps => HandlerIdle'
  <1> SUFFICES ASSUME TypeOK, HandlerIdle, Steps PROVE HandlerIdle' OBVIOUS
  <1>1. ASSUME NEW c \in Contexts, OnlyTouches(c), c # "handler",
               UNCHANGED hthread
        PROVE  HandlerIdle'
    BY <1>1 DEF HandlerIdle, OnlyTouches, Contexts
  <1>2. ASSUME hthread # Nobody, UNCHANGED hthread PROVE HandlerIdle'
    BY <1>2 DEF HandlerIdle
  <1>3. ASSUME NEW c \in Contexts, OnlyTouches(c), Runnable(c),
               UNCHANGED hthread
        PROVE  HandlerIdle'
    BY <1>1, <1>2, <1>3 DEF Runnable
  <1>4. ASSUME NEW c \in Contexts,
               \/ Acquire(c) \/ QueueUnhandled(c) \/ QueueDirect(c)
               \/ QueueAppend(c) \/ CallbackOn(c) \/ CallbackOff(c)
               \/ Moves(c) \/ Return(c)
        PROVE  UNCHANGED hthread
    BY <1>4, MovesFrame DEF Acquire, QueueUnhandled, QueueDirect, QueueAppend,
       CallbackOn, CallbackOff, Return, timer
  <1>5. ASSUME NEW c \in Contexts,
               \/ Requests(c) \/ Stop(c) \/ Kill(c)
               \/ IntDisable(c) \/ ModeRestore(c)
        PROVE  UNCHANGED hthread
    BY <1>5 DEF Requests, AppCallbackOn, AppCallbackOff, TriggerUserEvent,
       ScheduleCallback, DmaTransfer, SetTimerTick, Stop, Kill, IntDisable,
       ModeRestore, timer
  <1>6. ASSUME \/ Start \/ LoopScan \/ LoopQuit \/ ScanFinds \/ ScanFindsNone
               \/ Suspend \/ MainReturn
        PROVE  UNCHANGED hthread /\ OnlyTouches("worker")
    BY <1>6 DEF Start, LoopScan, LoopQuit, ScanFinds, ScanFindsNone, Suspend,
       MainReturn, timer, OnlyTouches, Enter, TypeOK
  <1>7. ASSUME Dequeue PROVE UNCHANGED hthread /\ OnlyTouches("worker")
    <2>1. /\ \E s : stack' = [stack EXCEPT !["worker"] = s]
          /\ \E k : Enter("worker", k)
          /\ UNCHANGED timer
      BY <1>7 DEF Dequeue
    <2> QED BY <2>1 DEF timer, OnlyTouches, Enter, TypeOK
  <1>8. ASSUME NEW e \in NetEvents, ReceivePacket(e)
        PROVE  UNCHANGED hthread /\ OnlyTouches("controller")
    BY <1>8 DEF ReceivePacket, timer, OnlyTouches, Enter, TypeOK
  <1>9. CASE Expire BY <1>9 DEF Expire, HandlerIdle
  <1>10. ASSUME NEW t \in Threads, TickStart(t) PROVE HandlerIdle'
    BY <1>10 DEF TickStart, HandlerIdle, Threads, Nobody
  <1>11. CASE Ticks
    BY <1>11, TicksFrame DEF HandlerIdle, HandlerReturns
  <1>12. "worker" \in Contexts /\ "controller" \in Contexts
         /\ "worker" # "handler" /\ "controller" # "handler"
    BY DEF Contexts, Threads
  <1> QED BY <1>1, <1>3, <1>4, <1>5, <1>6, <1>7, <1>8, <1>9, <1>10, <1>11,
             <1>12, TouchesOwn DEF Steps

\* Pushing or popping a frame leaves the outermost one where it is.
LEMMA OutermostPush ==
  ASSUME NEW S, NEW f \in S, NEW s \in Seq(S), s # <<>>
  PROVE  LET r == <<f>> \o s IN r # <<>> /\ r[Len(r)] = s[Len(s)]
  OBVIOUS

LEMMA OutermostPop ==
  ASSUME NEW S, NEW s \in Seq(S), s # <<>>, Len(s) # 1
  PROVE  Tail(s) # <<>> /\ Tail(s)[Len(Tail(s))] = s[Len(s)]
  <1>1. Len(s) \in Nat /\ Len(s) # 0 BY EmptySeq, LenProperties
  <1>2. /\ Tail(s) \in Seq(S) /\ Len(Tail(s)) = Len(s) - 1
        /\ \A i \in 1 .. Len(Tail(s)) : Tail(s)[i] = s[i + 1]
    BY HeadTailProperties
  <1>3. Len(Tail(s)) \in 1 .. Len(Tail(s)) BY <1>1, <1>2
  <1> QED BY <1>1, <1>2, <1>3

LEMMA SingletonPop ==
  ASSUME NEW S, NEW s \in Seq(S), Len(s) = 1
  PROVE  Tail(s) = <<>>
  <1>1. s # <<>> OBVIOUS
  <1>2. Tail(s) \in Seq(S) /\ Len(Tail(s)) = 0 BY <1>1, HeadTailProperties
  <1> QED BY <1>2, EmptySeq

LEMMA WorkerPlaceStep == TypeOK /\ WorkerPlace /\ Steps => WorkerPlace'
  <1> SUFFICES ASSUME TypeOK, WorkerPlace, Steps PROVE WorkerPlace' OBVIOUS
  <1>0. "worker" \in Contexts /\ wpc \in WorkerPcs
    BY DEF Contexts, Threads, TypeOK
  <1>1. ASSUME UNCHANGED <<wpc, call["worker"], stack["worker"]>>
        PROVE  WorkerPlace'
    BY <1>1 DEF WorkerPlace
  <1>2. ASSUME NEW c \in Contexts, c # "worker", OnlyTouches(c), UNCHANGED wpc
        PROVE  WorkerPlace'
    BY <1>0, <1>1, <1>2 DEF OnlyTouches
  \* Calls of the worker that start, move on or end in application code.
  <1>3. ASSUME NEW k, Enter("worker", k), k.op \notin {"scan", "dequeue"},
               call["worker"].op \notin {"scan", "dequeue"},
               wpc \in {"c_main", "callback"}, UNCHANGED <<wpc, stack>>
        PROVE  WorkerPlace'
    BY <1>0, <1>3 DEF WorkerPlace, Enter, TypeOK
  <1>4. ASSUME \/ call["worker"].op \notin {"none", "scan", "dequeue"}
               \/ wpc = "c_main"
               \/ stack["worker"] # <<>>
        PROVE  wpc \in {"c_main", "callback"}
               /\ call["worker"].op \notin {"scan", "dequeue"}
    BY <1>0, <1>4 DEF WorkerPlace, WorkerPcs
  <1>5. ASSUME \/ QueueUnhandled("worker") \/ QueueAppend("worker")
               \/ CallbackOn("worker") \/ CallbackOff("worker")
               \/ Moves("worker")
        PROVE  WorkerPlace'
    <2>1. call["worker"].op \notin {"none", "scan", "dequeue"}
          /\ UNCHANGED <<wpc, stack>>
      BY <1>0, <1>5, MovesFrame DEF QueueUnhandled, QueueAppend, CallbackOn,
         CallbackOff, Holding
    <2>2. PICK k : /\ Enter("worker", k)
                   /\ k.op \in {"none", "dmaret", "usec", "arm"}
      BY <1>0, <1>5, AfterQueueType, MovesFrame DEF QueueUnhandled, QueueAppend,
         CallbackOn, CallbackOff, NoCall
    <2> QED BY <1>3, <1>4, <2>1, <2>2
  <1>6. CASE QueueDirect("worker")
    <2> DEFINE f == [cback |-> call["worker"].cback,
                     arg |-> call["worker"].arg,
                     dma |-> call["worker"].op = "dma"]
               r == <<f>> \o stack["worker"]
    <2>1. wpc \in {"c_main", "callback"} /\ UNCHANGED wpc
      BY <1>4, <1>6 DEF QueueDirect, Holding
    <2>2. stack'["worker"] = r /\ call'["worker"].op = "none"
      BY <1>0, <1>6 DEF QueueDirect, Enter, NoCall, TypeOK
    <2>3. ASSUME wpc = "callback"
          PROVE  r # <<>> /\ r[Len(r)] = stack["worker"][Len(stack["worker"])]
      BY <1>0, <2>3, OutermostPush DEF WorkerPlace, TypeOK, Calls, Frames
    <2> HIDE DEF r
    <2> QED BY <2>1, <2>2, <2>3 DEF WorkerPlace
  <1>7. CASE Return("worker")
    <2> DEFINE s == stack["worker"]
    <2>1. /\ s \in Seq(Frames) /\ s # <<>>
          /\ stack'["worker"] = Tail(s)
      BY <1>0, <1>7 DEF Return, TypeOK
    <2>2. wpc \in {"c_main", "callback"} BY <1>4, <2>1
    <2>3. call'["worker"].op = IF s[1].dma THEN "dmaret" ELSE "none"
      BY <1>0, <1>7, CallType DEF Return, Enter, NoCall, TypeOK, CallOps,
         LockingOps
    <2>4. CASE wpc = "callback" /\ Len(s) = 1
      <3>1. wpc' = "loop" BY <1>7, <2>4 DEF Return
      <3>2. Tail(s) = <<>> BY <2>1, <2>4, SingletonPop
      <3>3. call'["worker"].op = "none" BY <2>3, <2>4 DEF WorkerPlace
      <3> QED BY <2>1, <3>1, <3>2, <3>3 DEF WorkerPlace
    <2>5. CASE wpc = "callback" /\ Len(s) # 1
      <3>1. wpc' = wpc BY <1>7, <2>5 DEF Return
      <3>2. Tail(s) # <<>> /\ Tail(s)[Len(Tail(s))] = s[Len(s)]
        BY <2>1, <2>5, OutermostPop
      <3> HIDE DEF s
      <3>3. ~s[Len(s)].dma BY <2>5 DEF WorkerPlace, s
      <3> QED BY <2>1, <2>3, <2>5, <3>1, <3>2, <3>3 DEF WorkerPlace
    <2>6. CASE wpc = "c_main"
      <3>1. wpc' = wpc BY <1>7, <2>6 DEF Return
      <3> QED BY <2>3, <2>6, <3>1 DEF WorkerPlace
    <2> QED BY <2>2, <2>4, <2>5, <2>6
  <1>8. ASSUME \/ Requests("worker")
        PROVE  WorkerPlace'
    <2>1. wpc = "c_main" \/ stack["worker"] # <<>>
      BY <1>8 DEF Requests, AppCallbackOn, AppCallbackOff, TriggerUserEvent,
         ScheduleCallback, DmaTransfer, SetTimerTick, Calling, InMain
    <2>2. UNCHANGED <<wpc, stack>>
      BY <1>8 DEF Requests, AppCallbackOn, AppCallbackOff, TriggerUserEvent,
         ScheduleCallback, DmaTransfer, SetTimerTick, ApiUnchanged
    <2>3. ASSUME NEW k, Enter("worker", k),
                 k.op \in {"on", "off", "queue", "dma", "sec"}
          PROVE  WorkerPlace'
      BY <1>3, <1>4, <2>1, <2>2, <2>3
    <2>4. ASSUME NEW e \in AppEvents, NEW cb \in Callbacks,
                 NEW p \in Priorities, AppCallbackOn("worker", e, cb, p)
          PROVE  WorkerPlace'
      BY <2>3, <2>4 DEF AppCallbackOn, Call, NoCall
    <2>5. ASSUME NEW e \in AppEvents, AppCallbackOff("worker", e)
          PROVE  WorkerPlace'
      BY <2>3, <2>5 DEF AppCallbackOff, Call, NoCall
    <2>6. ASSUME \/ TriggerUserEvent("worker") \/ DmaTransfer("worker")
                 \/ \E cb \in Callbacks : ScheduleCallback("worker", cb)
          PROVE  WorkerPlace'
      BY <2>3, <2>6 DEF TriggerUserEvent, ScheduleCallback, DmaTransfer,
         QueueCall, NoCall
    <2>7. ASSUME NEW t \in TickTimes, SetTimerTick("worker", t)
          PROVE  WorkerPlace'
      BY <2>3, <2>7 DEF SetTimerTick, Call, NoCall
    <2> QED BY <1>8, <2>4, <2>5, <2>6, <2>7 DEF Requests
  <1>9. ASSUME NEW c \in Contexts,
               \/ Acquire(c) \/ Stop(c) \/ Kill(c) \/ IntDisable(c)
               \/ ModeRestore(c)
        PROVE  UNCHANGED <<wpc, call, stack>>
    BY <1>9 DEF Acquire, Stop, Kill, IntDisable, ModeRestore, ApiUnchanged
  <1>10. ASSUME NEW c \in Contexts, c # "worker",
               \/ QueueUnhandled(c) \/ QueueDirect(c)
               \/ QueueAppend(c) \/ CallbackOn(c) \/ CallbackOff(c)
               \/ Moves(c) \/ Return(c)
               \/ Requests(c)
        PROVE  UNCHANGED wpc
    BY <1>10, MovesFrame DEF Requests, QueueUnhandled, QueueDirect,
       QueueAppend, CallbackOn, CallbackOff, Return, AppCallbackOn,
       AppCallbackOff, TriggerUserEvent, ScheduleCallback, DmaTransfer,
       SetTimerTick, ApiUnchanged
  <1>11. ASSUME \/ Start \/ LoopScan \/ LoopQuit \/ Suspend \/ MainReturn
                \/ ScanFindsNone
         PROVE  WorkerPlace'
    BY <1>0, <1>11 DEF Start, LoopScan, LoopQuit, Suspend, MainReturn,
       ScanFindsNone, WorkerPlace, InMain, AtLoop, Holding, Enter, TypeOK,
       Call, NoCall
  <1>12. CASE ScanFinds
    BY <1>0, <1>12 DEF ScanFinds, WorkerPlace, Holding, Enter, TypeOK, Call,
       NoCall
  <1>13. CASE Dequeue
    <2>1. PICK cb, a : stack' = [stack EXCEPT !["worker"] =
            <<[cback |-> cb, arg |-> a, dma |-> FALSE]>>]
      BY <1>13 DEF Dequeue
    <2>2. wpc' = "callback" /\ call'["worker"].op = "none"
      BY <1>0, <1>13 DEF Dequeue, Enter, NoCall, TypeOK
    <2>3. stack'["worker"] = <<[cback |-> cb, arg |-> a, dma |-> FALSE]>>
      BY <1>0, <2>1 DEF TypeOK
    <2> QED BY <2>2, <2>3 DEF WorkerPlace
  <1>14. ASSUME NEW e \in NetEvents, ReceivePacket(e)
         PROVE  UNCHANGED <<wpc, call["worker"], stack["worker"]>>
    BY <1>0, <1>14 DEF ReceivePacket, Enter, TypeOK
  <1>15. ASSUME NEW t \in Threads, TickStart(t)
         PROVE  UNCHANGED <<wpc, call["worker"], stack["worker"]>>
    BY <1>0, <1>15 DEF TickStart, Enter, TypeOK
  <1>16. CASE Expire BY <1>1, <1>16 DEF Expire
  <1>17. CASE Ticks
    <2>1. call'["worker"] = call["worker"] /\ stack'["worker"] = stack["worker"]
      BY <1>0, <1>17, TicksFrame DEF Enter, TypeOK
    <2> QED BY <1>17, <2>1, TicksFrame DEF HandlerReturns, SigSuspended,
               WorkerPlace
  <1>18. ASSUME NEW c \in Contexts,
               \/ QueueUnhandled(c) \/ QueueDirect(c)
               \/ QueueAppend(c) \/ CallbackOn(c) \/ CallbackOff(c)
               \/ Moves(c) \/ Return(c)
               \/ Requests(c)
        PROVE  WorkerPlace'
    <2>1. CASE c # "worker" BY <1>2, <1>10, <1>18, <2>1, TouchesOwn
    <2>2. CASE c = "worker" BY <1>5, <1>6, <1>7, <1>8, <1>18, <2>2
    <2> QED BY <2>1, <2>2
  <1> QED BY <1>1, <1>9, <1>11, <1>12, <1>13, <1>14, <1>15, <1>16, <1>17,
             <1>18 DEF Steps

\* The queue the scan chose is only ever shortened by the worker itself.
LEMMA DequeueStep ==
  TypeOK /\ WorkerPlace /\ DequeueFindsEvent /\ Steps => DequeueFindsEvent'
  <1> SUFFICES ASSUME TypeOK, WorkerPlace, DequeueFindsEvent, Steps
               PROVE  DequeueFindsEvent'
    OBVIOUS
  <1>0. "worker" \in Contexts /\ WorkerPlace'
    BY WorkerPlaceStep DEF Contexts, Threads
  <1>1. ASSUME UNCHANGED <<call["worker"], evQueue>> PROVE DequeueFindsEvent'
    BY <1>1 DEF DequeueFindsEvent
  <1>2. ASSUME wpc' # "loop" \/ call'["worker"].op \notin {"dequeue"}
        PROVE  DequeueFindsEvent'
    BY <1>0, <1>2 DEF DequeueFindsEvent, WorkerPlace
  <1>3. ASSUME NEW c \in Contexts, c # "worker", OnlyTouches(c),
               UNCHANGED evQueue
        PROVE  DequeueFindsEvent'
    BY <1>0, <1>1, <1>3 DEF OnlyTouches
  <1>4. ASSUME NEW c \in Contexts, QueueAppend(c) PROVE DequeueFindsEvent'
    <2>1. CASE c = "worker"
      BY <1>0, <1>2, <1>4, <2>1, AfterQueueType DEF QueueAppend, Enter, TypeOK
    <2>2. CASE c # "worker"
      <3> DEFINE e == call["worker"].ev
      <3>1. e \in Events BY <1>0 DEF TypeOK, Calls
      <3>2. call'["worker"] = call["worker"]
        BY <1>0, <1>4, <2>2, TouchesOwn DEF OnlyTouches
      <3>3. PICK item : evQueue' = [evQueue EXCEPT ![call[c].ev] =
                                      Append(@, item)]
        BY <1>4 DEF QueueAppend, LinkedAtTail
      <3>4. evQueue[e] # <<>> => evQueue'[e] # <<>>
        <4>1. CASE e = call[c].ev
          <5>1. evQueue[e] \in Seq(Items) BY <3>1 DEF TypeOK
          <5>2. evQueue'[e] = Append(evQueue[e], item)
            BY <3>1, <3>3, <4>1 DEF TypeOK
          <5>3. Len(evQueue'[e]) = Len(evQueue[e]) + 1 BY <5>1, <5>2
          <5>4. Len(evQueue[e]) \in Nat BY <5>1
          <5> QED BY <5>3, <5>4
        <4>2. CASE e # call[c].ev BY <3>1, <3>3, <4>2 DEF TypeOK
        <4> QED BY <4>1, <4>2
      <3> QED BY <3>2, <3>4 DEF DequeueFindsEvent
    <2> QED BY <2>1, <2>2
  <1>5. ASSUME NEW c \in Contexts,
               \/ Acquire(c) \/ Stop(c) \/ Kill(c) \/ IntDisable(c)
               \/ ModeRestore(c)
        PROVE  UNCHANGED <<call, evQueue>>
    BY <1>5 DEF Acquire, Stop, Kill, IntDisable, ModeRestore, ApiUnchanged,
       evinfo
  <1>6. ASSUME NEW c \in Contexts,
               \/ QueueUnhandled(c) \/ QueueDirect(c) \/ CallbackOn(c)
               \/ CallbackOff(c) \/ Moves(c)
        PROVE  DequeueFindsEvent'
    <2>1. UNCHANGED <<evQueue, wpc>>
      BY <1>6, MovesFrame, OffKeeps DEF QueueUnhandled, QueueDirect,
         CallbackOn, CallbackOff, evinfo
    <2>2. CASE c = "worker"
      <3>1. wpc # "loop"
        BY <1>6, <2>2, MovesFrame DEF QueueUnhandled, QueueDirect, CallbackOn,
           CallbackOff, Holding, WorkerPlace
      <3> QED BY <1>2, <2>1, <3>1
    <2>3. CASE c # "worker" BY <1>3, <1>6, <2>1, <2>3, TouchesOwn
    <2> QED BY <2>2, <2>3
  <1>7. ASSUME NEW c \in Contexts,
               \/ Requests(c)
        PROVE  DequeueFindsEvent'
    <2>1. UNCHANGED <<evQueue, wpc>>
      BY <1>7 DEF Requests, AppCallbackOn, AppCallbackOff, TriggerUserEvent,
         ScheduleCallback, DmaTransfer, SetTimerTick, ApiUnchanged, evinfo
    <2>2. CASE c = "worker"
      <3>1. wpc # "loop"
        BY <1>7, <2>2 DEF Requests, AppCallbackOn, AppCallbackOff,
           TriggerUserEvent, ScheduleCallback, DmaTransfer, SetTimerTick,
           Calling, InMain, WorkerPlace
      <3> QED BY <1>2, <2>1, <3>1
    <2>3. CASE c # "worker" BY <1>3, <1>7, <2>1, <2>3, TouchesOwn
    <2> QED BY <2>2, <2>3
  <1>8. ASSUME NEW c \in Contexts, Return(c) PROVE DequeueFindsEvent'
    <2>1. UNCHANGED evQueue BY <1>8 DEF Return, evinfo
    <2>2. CASE c = "worker"
      <3>1. PICK k : Enter("worker", k) /\ k.op \in {"none", "dmaret"}
        BY <1>8, <2>2, CallType DEF Return, NoCall, CallOps, LockingOps
      <3> QED BY <1>0, <1>2, <3>1 DEF Enter, TypeOK
    <2>3. CASE c # "worker" BY <1>3, <1>8, <2>1, <2>3, TouchesOwn
    <2> QED BY <2>2, <2>3
  <1>9. ASSUME Start \/ LoopQuit \/ Suspend \/ MainReturn \/ Expire \/ Ticks
        PROVE  UNCHANGED <<call["worker"], evQueue>>
    BY <1>0, <1>9, TicksFrame DEF Start, LoopQuit, Suspend, MainReturn,
       Expire, evinfo, Enter, TypeOK
  <1>10. ASSUME LoopScan \/ ScanFindsNone \/ Dequeue
         PROVE  call'["worker"].op \in {"none", "scan"}
    BY <1>0, <1>10 DEF LoopScan, ScanFindsNone, Dequeue, Enter, Call, NoCall,
       TypeOK
  <1>11. ASSUME ScanFinds PROVE DequeueFindsEvent'
    <2>1. PICK e \in Ready :
            Enter("worker", [Call("dequeue") EXCEPT !.ev = e])
      BY <1>11 DEF ScanFinds
    <2>2. call'["worker"].ev = e
      BY <1>0, <2>1 DEF Enter, Call, NoCall, TypeOK
    <2> QED BY <1>11, <2>1, <2>2 DEF ScanFinds, Ready, DequeueFindsEvent,
               evinfo
  <1>12. ASSUME \/ \E e \in NetEvents : ReceivePacket(e)
                \/ \E t \in Threads : TickStart(t)
         PROVE  UNCHANGED <<call["worker"], evQueue>>
    BY <1>0, <1>12 DEF ReceivePacket, TickStart, Enter, TypeOK, evinfo
  <1> QED BY <1>1, <1>2, <1>4, <1>5, <1>6, <1>7, <1>8, <1>9, <1>10, <1>11,
             <1>12 DEF Steps

\* What is left of the timer once it may run again depends on the steps that
\* touch it alone.
LEMMA QuitStays == TypeOK /\ Steps => (quit => quit')
  <1> SUFFICES ASSUME TypeOK, Steps, ~\E c \in Contexts : Stop(c) \/ Kill(c)
               PROVE  UNCHANGED quit
    BY DEF Steps, Stop, Kill
  <1>1. ASSUME NEW c \in Contexts,
               \/ Acquire(c) \/ QueueUnhandled(c) \/ QueueDirect(c)
               \/ QueueAppend(c) \/ CallbackOn(c) \/ CallbackOff(c)
               \/ Moves(c) \/ Return(c)
        PROVE  UNCHANGED quit
    BY <1>1, MovesFrame DEF Acquire, QueueUnhandled, QueueDirect, QueueAppend,
       CallbackOn, CallbackOff, Return
  <1>2. ASSUME NEW c \in Contexts,
               \/ Requests(c)
               \/ IntDisable(c) \/ ModeRestore(c)
        PROVE  UNCHANGED quit
    BY <1>2 DEF Requests, AppCallbackOn, AppCallbackOff, TriggerUserEvent,
       ScheduleCallback, DmaTransfer, SetTimerTick, IntDisable, ModeRestore
  <1>3. ASSUME \/ Start \/ LoopScan \/ LoopQuit \/ ScanFinds \/ ScanFindsNone
               \/ Dequeue \/ Suspend \/ MainReturn \/ Expire \/ Ticks
               \/ \E e \in NetEvents : ReceivePacket(e)
               \/ \E t \in Threads : TickStart(t)
        PROVE  UNCHANGED quit
    BY <1>3, TicksFrame DEF Start, LoopScan, LoopQuit, ScanFinds,
       ScanFindsNone, Dequeue, Suspend, MainReturn, ReceivePacket, Expire,
       TickStart
  <1> QED BY <1>1, <1>2, <1>3 DEF Steps

-----------------------------------------------------------------------------
(* The timer.                                                              *)

\* The time read for seconds and for microseconds may be two periods: their
\* sum is a proper time as long as no period is a whole number of seconds.
NoWholeSeconds == \A t \in TickTimes : TickMicros(t) % Second # 0

TimerInv ==
  /\ TimerOn \/ Setting => timerTick \in TickTimes
  /\ \A c \in Contexts : call[c].op = "arm" => call[c].arg # 0
  /\ TimerAlive

\* The calls that are setting the itimer stay what they are.
KeepsSetting ==
  \A c \in Contexts :
    \/ call'[c] = call[c]
    \/ call[c].op \notin SettingOps /\ call'[c].op \notin SettingOps

LEMMA SettingFrame ==
  ASSUME TypeOK, Steps,
         \A c \in Contexts, t \in TickTimes : ~SetTimerTick(c, t),
         \A c \in Contexts : ~Moves(c),
         \A t \in Threads : ~TickStart(t), ~Ticks
  PROVE  KeepsSetting
  <1>0. "worker" \in Contexts /\ "controller" \in Contexts
    BY DEF Contexts, Threads
  <1>1. ASSUME NEW c \in Contexts, NEW k, Enter(c, k),
               call[c].op \notin SettingOps, k.op \notin SettingOps
        PROVE  KeepsSetting
    BY <1>1 DEF Enter, KeepsSetting, TypeOK
  <1>2. \A op \in LockingOps \cup {"none", "dmaret"} : op \notin SettingOps
    BY DEF LockingOps, SettingOps
  <1>3. ASSUME UNCHANGED call PROVE KeepsSetting
    BY <1>3 DEF KeepsSetting
  <1>4. ASSUME NEW c \in Contexts,
               \/ QueueUnhandled(c) \/ QueueDirect(c) \/ QueueAppend(c)
               \/ CallbackOn(c) \/ CallbackOff(c) \/ Return(c)
        PROVE  KeepsSetting
    <2>1. call[c].op \in LockingOps \cup {"none"}
      BY <1>4 DEF QueueUnhandled, QueueDirect, QueueAppend, CallbackOn,
         CallbackOff, Return, Holding, LockingOps
    <2>2. \E k : Enter(c, k) /\ k.op \in {"none", "dmaret"}
      BY <1>4, AfterQueueType, CallType
      DEF QueueUnhandled, QueueDirect, QueueAppend, CallbackOn, CallbackOff,
          Return, NoCall, CallOps
    <2> QED BY <1>1, <1>2, <2>1, <2>2
  <1>5. ASSUME NEW c \in Contexts, Requests(c) PROVE KeepsSetting
    <2>0. ~\E t \in TickTimes : SetTimerTick(c, t) OBVIOUS
    <2>1. call[c].op = "none"
      BY <1>5 DEF Requests, AppCallbackOn, AppCallbackOff, TriggerUserEvent,
         ScheduleCallback, DmaTransfer, SetTimerTick, Calling
    <2>2. ASSUME NEW k, Enter(c, k), k.op \in LockingOps PROVE KeepsSetting
      BY <1>1, <1>2, <2>1, <2>2
    <2>3. ASSUME NEW e \in AppEvents, NEW cb \in Callbacks,
                 NEW p \in Priorities, AppCallbackOn(c, e, cb, p)
          PROVE  KeepsSetting
      BY <2>2, <2>3 DEF AppCallbackOn, Call, NoCall, LockingOps
    <2>4. ASSUME NEW e \in AppEvents, AppCallbackOff(c, e)
          PROVE  KeepsSetting
      BY <2>2, <2>4 DEF AppCallbackOff, Call, NoCall, LockingOps
    <2>5. ASSUME \/ TriggerUserEvent(c) \/ DmaTransfer(c)
                 \/ \E cb \in Callbacks : ScheduleCallback(c, cb)
          PROVE  KeepsSetting
      BY <2>2, <2>5, OpOf
      DEF TriggerUserEvent, ScheduleCallback, DmaTransfer, LockingOps
    <2> QED BY <1>5, <2>0, <2>3, <2>4, <2>5 DEF Requests
  <1>6. ASSUME \/ LoopScan \/ ScanFinds \/ ScanFindsNone \/ Dequeue
        PROVE  KeepsSetting
    <2>1. call["worker"].op \in LockingOps \cup {"none"}
      BY <1>6 DEF LoopScan, ScanFinds, ScanFindsNone, Dequeue, AtLoop, Holding,
         LockingOps
    <2>2. ASSUME NEW k, Enter("worker", k),
                 k.op \in LockingOps \cup {"none"}
          PROVE  KeepsSetting
      BY <1>0, <1>1, <1>2, <2>1, <2>2
    <2>3. CASE ScanFinds
      BY <2>2, <2>3 DEF ScanFinds, Call, NoCall, LockingOps
    <2>4. CASE LoopScan \/ ScanFindsNone \/ Dequeue
      BY <2>2, <2>4, OpOf DEF LoopScan, ScanFindsNone, Dequeue, LockingOps
    <2> QED BY <1>6, <2>3, <2>4
  <1>7. ASSUME NEW e \in NetEvents, ReceivePacket(e) PROVE KeepsSetting
    <2>1. \E k : Enter("controller", k) /\ k.op \in LockingOps
      BY <1>7, OpOf DEF ReceivePacket, LockingOps
    <2>2. call["controller"].op = "none" BY <1>7 DEF ReceivePacket
    <2> QED BY <1>0, <1>1, <1>2, <2>1, <2>2
  <1>8. ASSUME NEW c \in Contexts,
               \/ Acquire(c) \/ Stop(c) \/ Kill(c) \/ IntDisable(c)
               \/ ModeRestore(c)
        PROVE  UNCHANGED call
    BY <1>8 DEF Acquire, Stop, Kill, IntDisable, ModeRestore
  <1>9. ASSUME \/ Start \/ LoopQuit \/ Suspend \/ MainReturn \/ Expire
        PROVE  UNCHANGED call
    BY <1>9 DEF Start, LoopQuit, Suspend, MainReturn, Expire
  <1> QED BY <1>3, <1>4, <1>5, <1>6, <1>7, <1>8, <1>9 DEF Steps

LEMMA TimerInvStep ==
  ASSUME NoWholeSeconds, TypeOK, TimerInv, Steps
  PROVE  TimerInv'
  <1>0. quit => quit' BY QuitStays
  <1>1. \A c \in Contexts : call[c] \in Calls BY DEF TypeOK
  \* A step that touches neither the timer nor a context setting it.
  <1>2. ASSUME UNCHANGED <<timerTick, armed, sigPending, hthread>>, KeepsSetting
        PROVE  TimerInv'
    <2>1. Setting' <=> Setting BY <1>2 DEF Setting, KeepsSetting
    <2>2. TimerOn' <=> TimerOn BY <1>2 DEF TimerOn
    <2>3. TimerAlive' BY <1>0, <1>2, <2>1, <2>2 DEF TimerInv, TimerAlive
    <2>4. "arm" \in SettingOps BY DEF SettingOps
    <2>5. \A c \in Contexts : call'[c].op = "arm" => call'[c].arg # 0
      BY <1>2, <2>4 DEF TimerInv, KeepsSetting
    <2> QED BY <1>2, <2>1, <2>2, <2>3, <2>5 DEF TimerInv
  \* A step after which the timer is on or being set.
  <1>3. ASSUME NEW c \in Contexts, NEW k, Enter(c, k),
               k.op = "arm" => k.arg # 0,
               timerTick' \in TickTimes, TimerOn' \/ k.op \in SettingOps
        PROVE  TimerInv'
    <2>1. /\ call'[c] = k
          /\ \A d \in Contexts \ {c} : call'[d] = call[d]
      BY <1>3 DEF Enter, TypeOK
    <2>2. TimerOn' \/ Setting' BY <1>3, <2>1 DEF Setting
    <2>3. \A d \in Contexts : call'[d].op = "arm" => call'[d].arg # 0
      BY <1>3, <2>1 DEF TimerInv
    <2> QED BY <1>3, <2>2, <2>3 DEF TimerInv, TimerAlive
  <1>4. ASSUME NEW c \in Contexts, NEW t \in TickTimes, SetTimerTick(c, t)
        PROVE  TimerInv'
    BY <1>3, <1>4 DEF SetTimerTick, Call, NoCall, SettingOps
  <1>5. ASSUME NEW c \in Contexts, call[c].op \in SettingOps
        PROVE  timerTick \in TickTimes
    BY <1>5 DEF TimerInv, Setting
  <1>6. ASSUME NEW c \in Contexts, ReadSeconds(c) PROVE TimerInv'
    <2> DEFINE k == [Call("usec") EXCEPT
                     !.arg = TickMicros(timerTick) \div Second]
    <2>1. timerTick \in TickTimes /\ timerTick' = timerTick
      BY <1>5, <1>6 DEF ReadSeconds, SettingOps, timer
    <2>2. Enter(c, k) /\ k.op = "usec" BY <1>6, OpOf DEF ReadSeconds
    <2> HIDE DEF k
    <2> QED BY <1>3, <2>1, <2>2 DEF SettingOps
  <1>7. ASSUME NEW c \in Contexts, ReadMicros(c) PROVE TimerInv'
    <2> DEFINE n == call[c].arg + (TickMicros(timerTick) % Second)
               k == [Call("arm") EXCEPT !.arg = n]
    <2>1. timerTick \in TickTimes /\ timerTick' = timerTick
      BY <1>5, <1>7 DEF ReadMicros, SettingOps, timer
    <2>2. /\ call[c].arg \in Nat /\ TickMicros(timerTick) % Second # 0
          /\ TickMicros(timerTick) % Second \in Nat
      BY <1>1, <2>1, PartsType, ConstantsAssumption DEF Calls, NoWholeSeconds
    <2>3. n # 0 BY <2>2
    <2>4. Enter(c, k) BY <1>7 DEF ReadMicros
    <2> HIDE DEF n
    <2>5. k.op = "arm" /\ k.arg # 0 BY <2>3, OpOf
    <2> HIDE DEF k
    <2> QED BY <1>3, <2>1, <2>4, <2>5 DEF SettingOps
  <1>8. ASSUME NEW c \in Contexts, SetTimer(c) PROVE TimerInv'
    <2>1. timerTick \in TickTimes /\ timerTick' = timerTick
      BY <1>5, <1>8 DEF SetTimer, SettingOps
    <2>2. armed' BY <1>8 DEF SetTimer, TimerInv
    <2>3. Enter(c, NoCall) BY <1>8 DEF SetTimer
    <2> QED BY <1>3, <2>1, <2>2, <2>3 DEF TimerOn, NoCall
  <1>9. ASSUME NEW c \in Contexts, DmaReturn(c) PROVE TimerInv'
    <2>1. KeepsSetting
      BY <1>9 DEF DmaReturn, Enter, KeepsSetting, NoCall, SettingOps, TypeOK
    <2> QED BY <1>2, <1>9, <2>1 DEF DmaReturn, timer
  <1>10. ASSUME Expire PROVE TimerInv'
    <2>1. /\ TimerOn' /\ timerTick \in TickTimes /\ timerTick' = timerTick
          /\ UNCHANGED call
      BY <1>10 DEF Expire, TimerOn, TimerInv
    <2> QED BY <2>1 DEF TimerInv, TimerAlive
  <1>11. ASSUME NEW t \in Threads, TickStart(t) PROVE TimerInv'
    <2>1. /\ TimerOn' /\ timerTick \in TickTimes /\ timerTick' = timerTick
      BY <1>11 DEF TickStart, TimerOn, TimerInv, Threads, Nobody
    <2>2. \E k : Enter("handler", k) /\ k.op = "queue"
      BY <1>11, OpOf DEF TickStart
    <2> QED BY <1>3, <2>1, <2>2 DEF Contexts
  <1>12. ASSUME Ticks PROVE TimerInv'
    <2>1. CASE TickRearm
      <3>1. timerTick \in TickTimes /\ timerTick' = timerTick
        BY <2>1 DEF TickRearm, AfterTick, TimerOn, TimerInv, timer
      <3> QED BY <1>3, <2>1, <3>1
              DEF TickRearm, Call, NoCall, SettingOps, Contexts
    <2>2. CASE TickQuit
      <3>1. /\ quit' /\ UNCHANGED <<timerTick, call>>
            /\ TimerOn' => TimerOn
        BY <2>2 DEF TickQuit, Rearms, HandlerReturns, AfterTick, TimerOn
      <3> QED BY <3>1 DEF TimerInv, TimerAlive, Setting
    <2>3. CASE TickEnd BY <1>8, <2>3 DEF TickEnd, Contexts
    <2> QED BY <1>12, <2>1, <2>2, <2>3 DEF Ticks
  <1>13. ASSUME NEW c \in Contexts, Moves(c) PROVE TimerInv'
    BY <1>6, <1>7, <1>8, <1>9, <1>13 DEF Moves, TimerSet
  <1> QED BY <1>2, <1>4, <1>10, <1>11, <1>12, <1>13, SettingFrame, TimerFrame
          DEF timer

-----------------------------------------------------------------------------
(* The signal mask.                                                        *)

\* spin1_mode_restore lifts the mask that main and spin1_start rely on; an
\* application that does not call it keeps SIGALRM out of its threads.
NeverRestores == "restore" \notin MainOps \cup CallbackOps

\* The controller is never interrupted, the worker only in sigsuspend and in
\* pthread_join.
MaskInv ==
  /\ blocked["controller"]
  /\ ~blocked["worker"] => wpc = "joined"
  /\ hthread # "controller"
  /\ hthread = "worker" => wpc \in {"suspended", "joined"}

LEMMA MaskStep ==
  ASSUME NeverRestores
  PROVE  TypeOK /\ WorkerPlace /\ MaskInv /\ Steps => MaskInv'
  <1> SUFFICES ASSUME TypeOK, WorkerPlace, MaskInv, Steps PROVE MaskInv'
    OBVIOUS
  <1>0. \A c \in Contexts : ~ModeRestore(c)
    BY DEF NeverRestores, ModeRestore, Calling
  <1>1. ASSUME UNCHANGED <<blocked, hthread, wpc>> PROVE MaskInv'
    BY <1>1 DEF MaskInv
  <1>2. ASSUME NEW c \in Contexts,
               \/ Acquire(c) \/ QueueUnhandled(c) \/ QueueDirect(c)
               \/ QueueAppend(c) \/ CallbackOn(c) \/ CallbackOff(c)
               \/ Moves(c)
        PROVE  UNCHANGED <<blocked, hthread, wpc>>
    BY <1>2, MovesFrame DEF Acquire, QueueUnhandled, QueueDirect, QueueAppend,
       CallbackOn, CallbackOff, timer, masks
  <1>3. ASSUME NEW c \in Contexts,
               \/ Requests(c) \/ Stop(c) \/ Kill(c)
        PROVE  UNCHANGED <<blocked, hthread, wpc>>
    BY <1>3 DEF Requests, AppCallbackOn, AppCallbackOff, TriggerUserEvent,
       ScheduleCallback, DmaTransfer, SetTimerTick, Stop, Kill, ApiUnchanged,
       timer, masks
  <1>4. ASSUME NEW t \in Threads, IntDisable(t) PROVE MaskInv'
    <2>1. blocked'[t] /\ \A u \in Threads \ {t} : blocked'[u] = blocked[u]
      <3>1. blocked' = [blocked EXCEPT ![t] = 1 # 0]
        BY <1>4 DEF IntDisable, SetInterruptMode
      <3>2. (1 # 0) = TRUE OBVIOUS
      <3>3. blocked'[t] = TRUE BY <3>1, <3>2, Zenon DEF TypeOK
      <3>4. \A u \in Threads \ {t} : blocked'[u] = blocked[u]
        BY <3>1 DEF TypeOK
      <3> QED BY <3>3, <3>4, Zenon
    <2>2. UNCHANGED <<hthread, wpc>>
      BY <1>4 DEF IntDisable, ApiUnchanged, timer
    <2> QED BY <2>1, <2>2 DEF MaskInv, Threads
  <1>5. ASSUME NEW c \in Contexts, Return(c) PROVE MaskInv'
    <2>1. UNCHANGED <<blocked, hthread>> BY <1>5 DEF Return, timer, masks
    <2>2. CASE c = "worker" /\ wpc # "c_main"
      <3>1. wpc = "callback" /\ hthread # "worker"
        BY <1>5, <2>2 DEF Return, Runnable, WorkerPlace, TypeOK, WorkerPcs
      <3> QED BY <2>1, <3>1 DEF MaskInv
    <2>3. CASE c # "worker" \/ wpc = "c_main"
      <3>1. wpc' = wpc BY <1>5, <2>3 DEF Return
      <3> QED BY <1>1, <2>1, <3>1
    <2> QED BY <2>2, <2>3
  <1>6. ASSUME LoopScan \/ ScanFinds \/ Expire
                 \/ \E e \in NetEvents : ReceivePacket(e)
        PROVE  UNCHANGED <<blocked, hthread, wpc>>
    BY <1>6 DEF LoopScan, ScanFinds, Expire, ReceivePacket, timer, masks
  <1>7. ASSUME Start \/ MainReturn PROVE MaskInv'
    BY <1>7 DEF Start, MainReturn, InMain, Runnable, MaskInv, TypeOK, Threads,
       timer
  <1>8. ASSUME LoopQuit \/ ScanFindsNone \/ Dequeue \/ Suspend
        PROVE  MaskInv'
    <2>1. /\ hthread # "worker" /\ wpc # "joined"
          /\ UNCHANGED <<blocked, hthread>>
      BY <1>8 DEF LoopQuit, ScanFindsNone, Dequeue, Suspend, AtLoop, Holding,
         Runnable, WorkerPlace, timer, masks
    <2> QED BY <2>1 DEF MaskInv
  <1>9. ASSUME NEW t \in Threads, TickStart(t) PROVE MaskInv'
    BY <1>9 DEF TickStart, SigSuspended, MaskInv, Threads, masks
  <1>10. ASSUME Ticks PROVE MaskInv'
    BY <1>10, TicksFrame DEF HandlerReturns, SigSuspended, MaskInv, Nobody
  <1> QED BY <1>0, <1>1, <1>2, <1>3, <1>4, <1>5, <1>6, <1>7, <1>8, <1>9,
             <1>10 DEF Steps, Contexts

-----------------------------------------------------------------------------
(* The theorems.                                                           *)

Inv == TypeOK /\ LockInv /\ WorkerPlace /\ DequeueFindsEvent

LEMMA InitInv == Init => Inv /\ MaskInv
  <1> SUFFICES ASSUME Init PROVE Inv /\ MaskInv OBVIOUS
  <1>1. TypeOK BY InitTypeOK
  <1>2. LockInv
    BY DEF Init, LockInv, CallbacksRunUnlocked, HandlerIdle, Contexts, Threads,
       Nobody, NoCall
  <1>3. WorkerPlace /\ DequeueFindsEvent
    BY DEF Init, WorkerPlace, DequeueFindsEvent, NoCall, Contexts, Threads
  <1>5. MaskInv
    BY DEF Init, MaskInv, MainMask, Threads, Nobody
  <1> QED BY <1>1, <1>2, <1>3, <1>5 DEF Inv

LEMMA InvStep == Inv /\ [Next]_vars => Inv'
  <1> SUFFICES ASSUME Inv, [Next]_vars PROVE Inv' OBVIOUS
  <1>1. CASE Next
    BY <1>1, NextSteps, TypeParts, QueuesStep, FramesStep, ControlStep,
       TimerStep, MasksStep, LockStep, HandlerIdleStep, WorkerPlaceStep,
       DequeueStep DEF Inv, LockInv, TypeOK, QueuesTyped,
       FramesTyped, ControlTyped, TimerTyped, MasksTyped
  <1>2. CASE UNCHANGED vars
    BY <1>2 DEF Inv, TypeOK, LockInv, CallbacksRunUnlocked, HandlerIdle,
       WorkerPlace, DequeueFindsEvent, vars, evinfo, timer, masks
  <1> QED BY <1>1, <1>2

LEMMA Invariance == Spec => []Inv
  BY InitInv, InvStep, PTL DEF Spec

\* evinfo_mutex is free whenever callbacks, c_main or the waiting controller
\* run, whatever they call.
THEOREM RunsUnlocked == Spec => []CallbacksRunUnlocked
  BY Invariance, PTL DEF Inv, LockInv

\* The head of the queue spin1_start chose is still there when it takes it.
THEOREM DequeueSafe == Spec => []DequeueFindsEvent
  BY Invariance, PTL DEF Inv

\* A running core whose timer has a period never loses its one-shot timer,
\* whatever threads set it and however often, as long as none of its periods
\* is a whole number of seconds: of handle_timer_tick's two reads of
\* timer_tick, the second then never leaves the itimer at zero.
THEOREM TimerSafe ==
  ASSUME NoWholeSeconds
  PROVE  Spec => []TimerAlive
  <1>1. Init => TimerInv
    <2> SUFFICES ASSUME Init PROVE TimerInv OBVIOUS
    <2>1. TickMicros(0) = 0
      BY ConstantsAssumption DEF TickMicros, Wrap, SlowDownTimer
    <2>2. ~TimerOn /\ ~Setting
      BY DEF Init, TimerOn, Setting, NoCall, SettingOps
    <2> QED BY <2>1, <2>2 DEF Init, TimerInv, TimerAlive, NoCall
  <1>2. Inv /\ TimerInv /\ [Next]_vars => TimerInv'
    <2>1. CASE Next BY <2>1, NextSteps, TimerInvStep DEF Inv
    <2>2. CASE UNCHANGED vars
      BY <2>2 DEF TimerInv, TimerAlive, TimerOn, Setting, vars, timer
    <2> QED BY <2>1, <2>2
  <1>3. TimerInv => TimerAlive BY DEF TimerInv
  <1> QED BY <1>1, <1>2, <1>3, Invariance, PTL DEF Spec

\* Without spin1_mode_restore the signal handler never waits for a mutex the
\* thread under it holds.
THEOREM NoSelfDeadlock ==
  ASSUME NeverRestores
  PROVE  Spec => []HandlerNeverSelfDeadlocks
  <1>1. Inv /\ MaskInv /\ [Next]_vars => MaskInv'
    <2>1. CASE Next BY <2>1, NextSteps, MaskStep DEF Inv
    <2>2. CASE UNCHANGED vars
      BY <2>2 DEF MaskInv, vars, timer, masks
    <2> QED BY <2>1, <2>2
  <1>2. Inv /\ MaskInv => HandlerNeverSelfDeadlocks
    BY DEF Inv, TypeOK, LockInv, CallbacksRunUnlocked, WorkerPlace, MaskInv,
       HandlerNeverSelfDeadlocks, LockingOps, Contexts, Threads, Nobody
  <1> QED BY <1>1, <1>2, InitInv, Invariance, PTL DEF Spec

-----------------------------------------------------------------------------
(* Interrupts disabled and restored.                                       *)

\* The handler runs on a thread that does not block it or is in sigsuspend.
\* What spin1_int_disable blocks stays blocked until mode_restore, unless
\* c_main returns between the two.
InterruptInv ==
  \A t \in Threads :
    /\ hthread = t => ~blocked[t] \/ SigSuspended(t)
    /\ saved[t] # NoSr => blocked[t] \/ (t = "worker" /\ wpc = "joined")

LEMMA InterruptStep ==
  TypeOK /\ WorkerPlace /\ InterruptInv /\ Steps => InterruptInv'
  <1> SUFFICES ASSUME TypeOK, WorkerPlace, InterruptInv, Steps
               PROVE  InterruptInv'
    OBVIOUS
  <1>1. ASSUME UNCHANGED <<blocked, saved, hthread, wpc>> PROVE InterruptInv'
    BY <1>1 DEF InterruptInv, SigSuspended
  <1>2. ASSUME NEW c \in Contexts,
               \/ Acquire(c) \/ QueueUnhandled(c) \/ QueueDirect(c)
               \/ QueueAppend(c) \/ CallbackOn(c) \/ CallbackOff(c)
               \/ Moves(c)
        PROVE  UNCHANGED <<blocked, saved, hthread, wpc>>
    BY <1>2, MovesFrame DEF Acquire, QueueUnhandled, QueueDirect, QueueAppend,
       CallbackOn, CallbackOff, timer, masks
  <1>3. ASSUME NEW c \in Contexts,
               \/ Requests(c) \/ Stop(c) \/ Kill(c)
        PROVE  UNCHANGED <<blocked, saved, hthread, wpc>>
    BY <1>3 DEF Requests, AppCallbackOn, AppCallbackOff, TriggerUserEvent,
       ScheduleCallback, DmaTransfer, SetTimerTick, Stop, Kill, ApiUnchanged,
       timer, masks
  <1>4. ASSUME NEW t \in Threads, IntDisable(t) PROVE InterruptInv'
    <2>1. blocked' = [blocked EXCEPT ![t] = TRUE]
      <3>1. (1 # 0) = TRUE OBVIOUS
      <3>2. blocked' = [blocked EXCEPT ![t] = 1 # 0]
        BY <1>4 DEF IntDisable, SetInterruptMode
      <3> QED BY <3>1, <3>2, Zenon
    <2>2. /\ UNCHANGED <<hthread, wpc>> /\ hthread # t
          /\ saved' = [saved EXCEPT ![t] = intMode]
      BY <1>4 DEF IntDisable, Calling, Runnable, ApiUnchanged, timer, Threads
    <2> QED BY <2>1, <2>2 DEF InterruptInv, SigSuspended, TypeOK
  <1>5. ASSUME NEW t \in Threads, ModeRestore(t) PROVE InterruptInv'
    <2>1. \A u \in Threads \ {t} : blocked'[u] = blocked[u]
      BY <1>5 DEF ModeRestore, SetInterruptMode, TypeOK
    <2>2. /\ UNCHANGED <<hthread, wpc>> /\ hthread # t
          /\ saved' = [saved EXCEPT ![t] = NoSr]
      BY <1>5 DEF ModeRestore, Calling, Runnable, ApiUnchanged, timer, Threads
    <2> QED BY <2>1, <2>2 DEF InterruptInv, SigSuspended, TypeOK
  <1>6. ASSUME NEW c \in Contexts, Return(c) PROVE InterruptInv'
    <2>1. UNCHANGED <<blocked, saved, hthread>>
      BY <1>6 DEF Return, timer, masks
    <2>2. CASE c = "worker" /\ wpc = "callback"
      <3>1. hthread # "worker" BY <1>6, <2>2 DEF Return, Runnable
      <3> QED BY <2>1, <2>2, <3>1 DEF InterruptInv, SigSuspended
    <2>3. CASE ~(c = "worker" /\ wpc = "callback")
      <3>1. wpc' = wpc BY <1>6, <2>3 DEF Return
      <3> QED BY <1>1, <2>1, <3>1
    <2> QED BY <2>2, <2>3
  <1>7. ASSUME LoopScan \/ ScanFinds \/ Expire
                 \/ \E e \in NetEvents : ReceivePacket(e)
        PROVE  UNCHANGED <<blocked, saved, hthread, wpc>>
    BY <1>7 DEF LoopScan, ScanFinds, Expire, ReceivePacket, timer, masks
  <1>8. ASSUME Start \/ MainReturn PROVE InterruptInv'
    BY <1>8 DEF Start, MainReturn, InMain, Runnable, InterruptInv,
       SigSuspended, TypeOK, Threads, timer
  <1>9. ASSUME LoopQuit \/ ScanFindsNone \/ Dequeue \/ Suspend
        PROVE  InterruptInv'
    <2>1. /\ hthread # "worker" /\ wpc # "joined"
          /\ UNCHANGED <<masks, hthread>>
      BY <1>9 DEF LoopQuit, ScanFindsNone, Dequeue, Suspend, AtLoop, Holding,
         Runnable, WorkerPlace, timer
    <2> QED BY <2>1 DEF InterruptInv, SigSuspended, masks
  <1>10. ASSUME NEW t \in Threads, TickStart(t) PROVE InterruptInv'
    BY <1>10 DEF TickStart, SigSuspended, InterruptInv, masks
  <1>11. ASSUME Ticks PROVE InterruptInv'
    BY <1>11, TicksFrame DEF HandlerReturns, SigSuspended, InterruptInv,
       Nobody, Threads
  <1> QED BY <1>1, <1>2, <1>3, <1>4, <1>5, <1>6, <1>7, <1>8, <1>9, <1>10,
             <1>11 DEF Steps

LEMMA Interrupts == Spec => []InterruptInv
  <1>1. Init => InterruptInv
    BY DEF Init, InterruptInv, Nobody, Threads, NoSr
  <1>2. Inv /\ InterruptInv /\ [Next]_vars => InterruptInv'
    <2>1. CASE Next BY <2>1, NextSteps, InterruptStep DEF Inv
    <2>2. CASE UNCHANGED vars
      BY <2>2 DEF InterruptInv, SigSuspended, vars, timer, masks
    <2> QED BY <2>1, <2>2
  <1> QED BY <1>1, <1>2, Invariance, PTL DEF Spec

\* Between spin1_int_disable and spin1_mode_restore no handler interrupts the
\* thread, unless c_main returns or the worker waits in sigsuspend.
THEOREM DisabledIsQuiet == Spec => []DisabledMeansNoHandler
  <1>1. InterruptInv => DisabledMeansNoHandler
    BY DEF InterruptInv, DisabledMeansNoHandler, SigSuspended
  <1> QED BY <1>1, Interrupts, PTL

-----------------------------------------------------------------------------
(* The event queues implement EventDelivery.                               *)

LEMMA CurrentFrame ==
  ASSUME wpc' # "callback", wpc # "callback"
  PROVE  UNCHANGED Current
  BY DEF Current

LEMMA OutermostFrame ==
  ASSUME UNCHANGED wpc,
         wpc = "callback" =>
           stack'["worker"][Len(stack'["worker"])]
             = stack["worker"][Len(stack["worker"])]
  PROVE  UNCHANGED Current
  BY DEF Current

LEMMA RaiseStep ==
  ASSUME TypeOK, NEW c \in Contexts, QueueAppend(c)
  PROVE  Delivery!Raise(call[c].ev)
  <1> DEFINE e == call[c].ev
             item == [cback |-> call[c].cback, arg |-> call[c].arg]
             q == Append(evQueue[e], item)
  <1>1. e \in Events /\ item \in Items BY DEF TypeOK, Calls, Items
  <1>2. evQueue' = [evQueue EXCEPT ![e] = q]
    BY DEF QueueAppend, LinkedAtTail
  <1>3. evQueue[e] \in Seq(Items) BY <1>1 DEF TypeOK
  <1>4. q # <<>> /\ q[Len(q)] = item
    <2> HIDE DEF item
    <2> QED BY <1>1, <1>3, AppendProperties, EmptySeq
  <1>5. evQueue'[e] = q BY <1>1, <1>2 DEF TypeOK
  <1>6. UNCHANGED Current
    BY CurrentFrame, OutermostFrame DEF QueueAppend
  <1> HIDE DEF e, item
  <1>7. evQueue' = [evQueue EXCEPT ![e] = Append(@, evQueue'[e][Len(evQueue'[e])])]
    BY <1>2, <1>4, <1>5
  <1>8. Delivery!Raise(e) BY <1>4, <1>5, <1>6, <1>7 DEF Delivery!Raise
  <1> QED BY <1>8 DEF e

LEMMA DeliverStep ==
  ASSUME Inv, Dequeue
  PROVE  call["worker"].ev \in Events /\ Delivery!Deliver(call["worker"].ev)
  <1> DEFINE e == call["worker"].ev
             f == [cback |-> evQueue[e][1].cback,
                   arg |-> evQueue[e][1].arg, dma |-> FALSE]
  <1>0. "worker" \in Contexts BY DEF Contexts, Threads
  <1>1. e \in Events BY <1>0 DEF Inv, TypeOK, Calls
  <1>2. evQueue[e] \in Seq(Items) /\ evQueue[e] # <<>>
    BY <1>1 DEF Dequeue, Inv, TypeOK
  <1>3. Head(evQueue[e]) = [cback |-> evQueue[e][1].cback,
                            arg |-> evQueue[e][1].arg]
    <2>1. evQueue[e][1] \in Items /\ Head(evQueue[e]) = evQueue[e][1]
      BY <1>2
    <2> QED BY <2>1 DEF Items
  <1>4. wpc = "loop"
    BY <1>0 DEF Dequeue, Holding, Inv, WorkerPlace
  <1>5. /\ wpc' = "callback" /\ stack' = [stack EXCEPT !["worker"] = <<f>>]
        /\ evQueue' = [evQueue EXCEPT ![e] = Tail(@)]
    BY DEF Dequeue, Taken
  <1>6. Current = <<>> BY <1>4 DEF Current
  <1>7. Current' = <<Head(evQueue[e])>>
    <2>1. stack'["worker"] = <<f>> BY <1>0, <1>5 DEF Inv, TypeOK
    <2>2. Current' = <<[cback |-> f.cback, arg |-> f.arg]>>
      BY <1>5, <2>1 DEF Current
    <2> QED BY <1>3, <2>2
  <1> HIDE DEF e
  <1>8. Delivery!Deliver(e) BY <1>2, <1>5, <1>6, <1>7 DEF Delivery!Deliver
  <1> QED BY <1>1, <1>8 DEF e

LEMMA ReturnStep ==
  ASSUME Inv, Return("worker")
  PROVE  Delivery!Complete \/ UNCHANGED <<evQueue, Current>>
  <1> DEFINE s == stack["worker"]
  <1>0. "worker" \in Contexts BY DEF Contexts, Threads
  <1>1. /\ s \in Seq(Frames) /\ s # <<>> /\ stack'["worker"] = Tail(s)
        /\ UNCHANGED evQueue
    BY <1>0 DEF Return, Inv, TypeOK, evinfo
  <1>2. CASE wpc = "callback" /\ Len(s) = 1
    <2>1. wpc' = "loop" BY <1>2 DEF Return
    <2>2. Current # <<>> /\ Current' = <<>>
      BY <1>2, <2>1 DEF Current
    <2> QED BY <1>1, <2>2 DEF Delivery!Complete
  <1>3. CASE wpc = "callback" /\ Len(s) # 1
    <2>1. wpc' = wpc BY <1>3 DEF Return
    <2>2. Tail(s)[Len(Tail(s))] = s[Len(s)] BY <1>1, <1>3, OutermostPop
    <2> QED BY <1>1, <2>1, <2>2, OutermostFrame
  <1>4. CASE wpc # "callback"
    <2>1. wpc' = wpc BY <1>4 DEF Return
    <2> QED BY <1>1, <1>4, <2>1, CurrentFrame
  <1> QED BY <1>2, <1>3, <1>4

LEMMA StutterStep ==
  ASSUME Inv, Steps, \A c \in Contexts : ~QueueAppend(c), ~Dequeue,
         ~Return("worker")
  PROVE  UNCHANGED <<evQueue, Current>>
  <1>0. "worker" \in Contexts BY DEF Contexts, Threads
  <1>1. ASSUME UNCHANGED <<wpc, stack>> PROVE UNCHANGED Current
    BY <1>1 DEF Current
  <1>2. ASSUME NEW c \in Contexts,
               \/ Acquire(c) \/ QueueUnhandled(c) \/ CallbackOn(c)
               \/ CallbackOff(c) \/ Moves(c)
        PROVE  UNCHANGED <<evQueue, wpc, stack>>
    BY <1>2, MovesFrame, OffKeeps DEF Inv, Acquire, QueueUnhandled, CallbackOn,
       CallbackOff, evinfo
  <1>3. ASSUME NEW c \in Contexts,
               \/ Requests(c) \/ Stop(c) \/ Kill(c)
               \/ IntDisable(c) \/ ModeRestore(c)
        PROVE  UNCHANGED <<evQueue, wpc, stack>>
    BY <1>3 DEF Requests, AppCallbackOn, AppCallbackOff, TriggerUserEvent,
       ScheduleCallback, DmaTransfer, SetTimerTick, Stop, Kill, IntDisable,
       ModeRestore, ApiUnchanged, evinfo
  <1>4. ASSUME NEW c \in Contexts, c # "worker", QueueDirect(c) \/ Return(c)
        PROVE  UNCHANGED <<evQueue, Current>>
    <2>1. UNCHANGED <<evQueue, wpc>>
      BY <1>4 DEF QueueDirect, Return, evinfo
    <2>2. UNCHANGED stack["worker"]
      BY <1>0, <1>4, TouchesOwn DEF OnlyTouches, Inv
    <2> QED BY <2>1, <2>2 DEF Current
  <1>5. ASSUME QueueDirect("worker") PROVE UNCHANGED <<evQueue, Current>>
    <2> DEFINE f == [cback |-> call["worker"].cback,
                     arg |-> call["worker"].arg,
                     dma |-> call["worker"].op = "dma"]
               r == <<f>> \o stack["worker"]
    <2>1. /\ UNCHANGED <<evQueue, wpc>> /\ stack'["worker"] = r
      BY <1>0, <1>5 DEF QueueDirect, Inv, TypeOK, evinfo
    <2>2. f \in Frames BY <1>0 DEF Inv, TypeOK, Calls, Frames
    <2>3. stack["worker"] \in Seq(Frames) BY <1>0 DEF Inv, TypeOK
    <2>4. ASSUME wpc = "callback"
          PROVE  r[Len(r)] = stack["worker"][Len(stack["worker"])]
      BY <2>2, <2>3, <2>4, OutermostPush DEF Inv, WorkerPlace
    <2> QED BY <2>1, <2>4, OutermostFrame
  <1>6. ASSUME \/ LoopScan \/ ScanFinds \/ Expire
               \/ \E e \in NetEvents : ReceivePacket(e)
               \/ \E t \in Threads : TickStart(t)
        PROVE  UNCHANGED <<evQueue, wpc, stack>>
    BY <1>6 DEF LoopScan, ScanFinds, ReceivePacket, Expire, TickStart, evinfo
  <1>7. ASSUME \/ Start \/ LoopQuit \/ ScanFindsNone \/ Suspend
               \/ MainReturn
        PROVE  wpc # "callback" /\ wpc' # "callback" /\ UNCHANGED evQueue
    BY <1>7 DEF Start, LoopQuit, ScanFindsNone, Suspend, MainReturn, InMain,
       AtLoop, Holding, Inv, WorkerPlace, evinfo
  <1>8. ASSUME Ticks PROVE UNCHANGED <<evQueue, Current>>
    <2>1. UNCHANGED <<evQueue, stack>> /\ wpc' \in {wpc, "loop"}
          /\ (wpc = "callback" => wpc' = wpc)
      BY <1>8, TicksFrame DEF Inv, HandlerReturns, SigSuspended
    <2> QED BY <2>1 DEF Current
  <1> QED BY <1>1, <1>2, <1>3, <1>4, <1>5, <1>6, <1>7, <1>8, CurrentFrame DEF
             Steps

\* The queues of a core are first-in first-out channels: no event is lost,
\* doubled, changed or overtaken by another of its type, and the worker runs
\* one at a time to its end, whatever the application and the signals do.
THEOREM QueuesDeliver == Spec => DeliverySpec
  <1>1. Init => Delivery!Init
    BY DEF Init, Delivery!Init, Current
  <1>2. Inv /\ [Next]_vars => [Delivery!Next]_(Delivery!vars)
    <2> SUFFICES ASSUME Inv, [Next]_vars
                 PROVE  Delivery!Next \/ UNCHANGED <<evQueue, Current>>
      BY DEF Delivery!vars
    <2>1. CASE UNCHANGED vars
      BY <2>1 DEF vars, evinfo, Current
    <2>2. ASSUME NEW c \in Contexts, QueueAppend(c) PROVE Delivery!Next
      <3>1. call[c].ev \in Events BY DEF Inv, TypeOK, Calls
      <3> QED BY <2>2, <3>1, RaiseStep DEF Inv, Delivery!Next
    <2>3. CASE Dequeue BY <2>3, DeliverStep DEF Delivery!Next
    <2>4. CASE Return("worker") BY <2>4, ReturnStep DEF Delivery!Next
    <2> QED BY <2>1, <2>2, <2>3, <2>4, NextSteps, StutterStep
  <1> QED BY <1>1, <1>2, Invariance, PTL DEF Spec, DeliverySpec, Delivery!Spec

-----------------------------------------------------------------------------
(* No null callback is called.                                             *)

\* c_main registers the callbacks, callbacks do not, and no packet comes
\* before spin1_start.
RegistersFirst ==
  /\ "on" \notin CallbackOps
  /\ EarlyTraffic = FALSE

SoundItems == [cback : Callbacks, arg : Nat]
SoundFrames == [cback : Callbacks, arg : Nat, dma : BOOLEAN]
Raising == {"queue", "dma"}

\* The callback read before the mutex was taken is stale only towards NULL:
\* registered since, never; unregistered since, maybe.
NullInv ==
  /\ evQueue \in [Events -> Seq(SoundItems)]
  /\ stack \in [Contexts -> Seq(SoundFrames)]
  /\ \A c \in Contexts :
       /\ call[c].op \in Raising =>
            call[c].cback \in Callbacks \/ evCback[call[c].ev] = NULL
       /\ call[c].op = "on" => c = "worker" /\ wpc = "c_main"
  /\ wpc = "c_main" =>
       /\ call["controller"].op = "none" /\ stack["controller"] = <<>>
       /\ blocked["controller"] /\ hthread # "controller"

LEMMA NullInvSafe == TypeOK /\ NullInv => NeverCallsNull
  <1> SUFFICES ASSUME TypeOK, NullInv PROVE NeverCallsNull OBVIOUS
  <1>0. NULL \notin Callbacks BY ConstantsAssumption
  <1>1. ASSUME NEW e \in Events, NEW i \in DOMAIN evQueue[e]
        PROVE  evQueue[e][i].cback # NULL
    <2>1. evQueue[e] \in Seq(SoundItems) BY DEF NullInv
    <2>2. evQueue[e][i] \in SoundItems BY <2>1
    <2> QED BY <1>0, <2>2 DEF SoundItems
  <1>2. ASSUME NEW c \in Contexts, stack[c] # <<>>
        PROVE  stack[c][1].cback # NULL
    <2>1. stack[c] \in Seq(SoundFrames) BY DEF NullInv
    <2>2. stack[c][1] \in SoundFrames BY <1>2, <2>1
    <2> QED BY <1>0, <2>2 DEF SoundFrames
  <1> QED BY <1>1, <1>2 DEF NeverCallsNull, Crashed

LEMMA NullQueues ==
  ASSUME TypeOK, NullInv, Steps
  PROVE  evQueue' \in [Events -> Seq(SoundItems)]
  <1>1. ASSUME UNCHANGED evQueue PROVE evQueue' \in [Events -> Seq(SoundItems)]
    BY <1>1 DEF NullInv
  <1>2. ASSUME NEW c \in Contexts, QueueAppend(c)
        PROVE  evQueue' \in [Events -> Seq(SoundItems)]
    <2> DEFINE item == [cback |-> call[c].cback, arg |-> call[c].arg]
    <2>1. call[c].ev \in Events /\ call[c].arg \in Nat
      BY DEF TypeOK, Calls
    <2>2. call[c].cback \in Callbacks
      BY <1>2 DEF QueueAppend, Holding, Handled, NullInv, Raising
    <2>3. item \in SoundItems BY <2>1, <2>2 DEF SoundItems
    <2>4. evQueue' = [evQueue EXCEPT ![call[c].ev] = Append(@, item)]
      BY <1>2 DEF QueueAppend, LinkedAtTail
    <2> HIDE DEF item
    <2> QED BY <2>1, <2>3, <2>4 DEF NullInv
  <1>3. ASSUME Dequeue PROVE evQueue' \in [Events -> Seq(SoundItems)]
    <2> DEFINE e == call["worker"].ev
    <2>1. e \in Events BY DEF TypeOK, Calls, Contexts, Threads
    <2>2. evQueue[e] \in Seq(SoundItems) /\ evQueue[e] # <<>>
      BY <1>3, <2>1 DEF Dequeue, NullInv
    <2>3. Tail(evQueue[e]) \in Seq(SoundItems) BY <2>2
    <2>4. evQueue' = [evQueue EXCEPT ![e] = Tail(@)] BY <1>3 DEF Dequeue
    <2> HIDE DEF e
    <2> QED BY <2>3, <2>4 DEF NullInv
  <1>4. ASSUME NEW c \in Contexts,
               \/ Acquire(c) \/ QueueUnhandled(c) \/ QueueDirect(c)
               \/ CallbackOn(c) \/ CallbackOff(c) \/ Moves(c)
               \/ Return(c)
        PROVE  UNCHANGED evQueue
    BY <1>4, MovesFrame, OffKeeps DEF Acquire, QueueUnhandled, QueueDirect,
       CallbackOn, CallbackOff, Return, evinfo
  <1>5. ASSUME NEW c \in Contexts,
               \/ Requests(c) \/ Stop(c) \/ Kill(c)
               \/ IntDisable(c) \/ ModeRestore(c)
        PROVE  UNCHANGED evQueue
    BY <1>5 DEF Requests, AppCallbackOn, AppCallbackOff, TriggerUserEvent,
       ScheduleCallback, DmaTransfer, SetTimerTick, Stop, Kill, IntDisable,
       ModeRestore, ApiUnchanged, evinfo
  <1>6. ASSUME \/ Start \/ LoopScan \/ LoopQuit \/ ScanFinds \/ ScanFindsNone
               \/ Suspend \/ MainReturn \/ Expire \/ Ticks
               \/ \E e \in NetEvents : ReceivePacket(e)
               \/ \E t \in Threads : TickStart(t)
        PROVE  UNCHANGED evQueue
    BY <1>6, TicksFrame DEF Start, LoopScan, LoopQuit, ScanFinds,
       ScanFindsNone, Suspend, MainReturn, ReceivePacket, Expire, TickStart,
       evinfo
  <1> QED BY <1>1, <1>2, <1>3, <1>4, <1>5, <1>6 DEF Steps

LEMMA NullFrames ==
  ASSUME TypeOK, NullInv, Steps
  PROVE  stack' \in [Contexts -> Seq(SoundFrames)]
  <1>1. ASSUME UNCHANGED stack PROVE stack' \in [Contexts -> Seq(SoundFrames)]
    BY <1>1 DEF NullInv
  <1>2. ASSUME NEW c \in Contexts, QueueDirect(c)
        PROVE  stack' \in [Contexts -> Seq(SoundFrames)]
    <2> DEFINE f == [cback |-> call[c].cback, arg |-> call[c].arg,
                     dma |-> call[c].op = "dma"]
    <2>1. call[c].arg \in Nat BY DEF TypeOK, Calls
    <2>2. call[c].cback \in Callbacks
      BY <1>2 DEF QueueDirect, Holding, Handled, NullInv, Raising
    <2>3. f \in SoundFrames BY <2>1, <2>2 DEF SoundFrames
    <2>4. stack' = [stack EXCEPT ![c] = <<f>> \o @]
      BY <1>2 DEF QueueDirect
    <2> HIDE DEF f
    <2>5. <<f>> \o stack[c] \in Seq(SoundFrames) BY <2>3 DEF NullInv
    <2> QED BY <2>4, <2>5 DEF NullInv
  <1>3. ASSUME Dequeue PROVE stack' \in [Contexts -> Seq(SoundFrames)]
    <2> DEFINE e == call["worker"].ev
               f == [cback |-> evQueue[e][1].cback,
                     arg |-> evQueue[e][1].arg, dma |-> FALSE]
    <2>1. e \in Events BY DEF TypeOK, Calls, Contexts, Threads
    <2>2. evQueue[e] \in Seq(SoundItems) /\ evQueue[e] # <<>>
      BY <1>3, <2>1 DEF Dequeue, NullInv
    <2>3. evQueue[e][1] \in SoundItems BY <2>2
    <2>4. f \in SoundFrames BY <2>3 DEF SoundItems, SoundFrames
    <2>5. stack' = [stack EXCEPT !["worker"] = <<f>>]
      BY <1>3 DEF Dequeue, Taken
    <2> HIDE DEF f
    <2>6. <<f>> \in Seq(SoundFrames) BY <2>4
    <2> QED BY <2>5, <2>6 DEF NullInv
  <1>4. ASSUME NEW c \in Contexts, Return(c)
        PROVE  stack' \in [Contexts -> Seq(SoundFrames)]
    <2>1. stack[c] \in Seq(SoundFrames) /\ stack[c] # <<>>
      BY <1>4 DEF Return, NullInv
    <2>2. Tail(stack[c]) \in Seq(SoundFrames) BY <2>1
    <2>3. stack' = [stack EXCEPT ![c] = Tail(@)] BY <1>4 DEF Return
    <2> QED BY <2>2, <2>3 DEF NullInv
  <1>5. ASSUME NEW c \in Contexts,
               \/ Acquire(c) \/ QueueUnhandled(c) \/ QueueAppend(c)
               \/ CallbackOn(c) \/ CallbackOff(c) \/ Moves(c)
        PROVE  UNCHANGED stack
    BY <1>5, MovesFrame DEF Acquire, QueueUnhandled, QueueAppend, CallbackOn,
       CallbackOff
  <1>6. ASSUME NEW c \in Contexts,
               \/ Requests(c) \/ Stop(c) \/ Kill(c)
               \/ IntDisable(c) \/ ModeRestore(c)
        PROVE  UNCHANGED stack
    BY <1>6 DEF Requests, AppCallbackOn, AppCallbackOff, TriggerUserEvent,
       ScheduleCallback, DmaTransfer, SetTimerTick, Stop, Kill, IntDisable,
       ModeRestore, ApiUnchanged
  <1>7. ASSUME \/ Start \/ LoopScan \/ LoopQuit \/ ScanFinds \/ ScanFindsNone
               \/ Suspend \/ MainReturn \/ Expire \/ Ticks
               \/ \E e \in NetEvents : ReceivePacket(e)
               \/ \E t \in Threads : TickStart(t)
        PROVE  UNCHANGED stack
    BY <1>7, TicksFrame DEF Start, LoopScan, LoopQuit, ScanFinds,
       ScanFindsNone, Suspend, MainReturn, ReceivePacket, Expire, TickStart
  <1> QED BY <1>1, <1>2, <1>3, <1>4, <1>5, <1>6, <1>7 DEF Steps

\* The part of NullInv that is about the calls in progress.
SoundCall(c) ==
  /\ call[c].op \in Raising =>
       call[c].cback \in Callbacks \/ evCback[call[c].ev] = NULL
  /\ call[c].op = "on" => c = "worker" /\ wpc = "c_main"
  /\ wpc = "c_main" /\ c = "controller" =>
       call[c].op = "none" /\ stack[c] = <<>>

\* c_main is over before the controller runs anything, and is not
\* interrupted on its thread.
QuietMain ==
  wpc = "c_main" => blocked["controller"] /\ hthread # "controller"

LEMMA NullInvCalls ==
  NullInv <=> /\ evQueue \in [Events -> Seq(SoundItems)]
              /\ stack \in [Contexts -> Seq(SoundFrames)]
              /\ \A c \in Contexts : SoundCall(c)
              /\ QuietMain
  BY DEF NullInv, SoundCall, QuietMain, Contexts, Threads

LEMMA MainIsFirst == TypeOK /\ Steps => (wpc' = "c_main" => wpc = "c_main")
  <1> SUFFICES ASSUME TypeOK, Steps, wpc' # wpc PROVE wpc' # "c_main"
    OBVIOUS
  <1>1. ASSUME NEW c \in Contexts,
               \/ Acquire(c) \/ QueueUnhandled(c) \/ QueueDirect(c)
               \/ QueueAppend(c) \/ CallbackOn(c) \/ CallbackOff(c)
               \/ Moves(c)
        PROVE  UNCHANGED wpc
    BY <1>1, MovesFrame DEF Acquire, QueueUnhandled, QueueDirect, QueueAppend,
       CallbackOn, CallbackOff
  <1>2. ASSUME NEW c \in Contexts,
               \/ Requests(c) \/ Stop(c) \/ Kill(c)
               \/ IntDisable(c) \/ ModeRestore(c)
        PROVE  UNCHANGED wpc
    BY <1>2 DEF Requests, AppCallbackOn, AppCallbackOff, TriggerUserEvent,
       ScheduleCallback, DmaTransfer, SetTimerTick, Stop, Kill, IntDisable,
       ModeRestore, ApiUnchanged
  <1>3. ASSUME NEW c \in Contexts, Return(c) PROVE wpc' \in {wpc, "loop"}
    BY <1>3, Zenon DEF Return
  <1>4. ASSUME \/ Start \/ LoopScan \/ LoopQuit \/ ScanFinds \/ ScanFindsNone
               \/ Dequeue \/ Suspend \/ MainReturn \/ Expire
               \/ \E e \in NetEvents : ReceivePacket(e)
               \/ \E t \in Threads : TickStart(t)
        PROVE  wpc' = wpc \/ wpc' # "c_main"
    BY <1>4 DEF Start, LoopScan, LoopQuit, ScanFinds, ScanFindsNone, Dequeue,
       Suspend, MainReturn, Expire, ReceivePacket, TickStart
  <1>5. ASSUME Ticks PROVE wpc' \in {wpc, "loop"}
    BY <1>5, TicksFrame, Zenon DEF HandlerReturns
  <1> QED BY <1>1, <1>2, <1>3, <1>4, <1>5 DEF Steps

LEMMA QuietStep ==
  ASSUME RegistersFirst, TypeOK, WorkerPlace, NullInv, Steps
  PROVE  QuietMain'
  <1>1. wpc' = "c_main" => wpc = "c_main"
    BY MainIsFirst
  <1> SUFFICES ASSUME wpc = "c_main"
               PROVE  blocked'["controller"] /\ hthread' # "controller"
    BY <1>1 DEF QuietMain
  <1>2. blocked["controller"] /\ hthread # "controller"
    BY DEF NullInv
  <1>3. \A op : ~Calling("controller", op)
    BY DEF Calling, InMain, NullInv
  <1>4. ASSUME NEW t \in Threads, IntDisable(t) \/ ModeRestore(t)
        PROVE  blocked'["controller"] = blocked["controller"]
    <2>1. t # "controller" BY <1>3, <1>4 DEF IntDisable, ModeRestore
    <2> QED BY <1>4, <2>1
            DEF IntDisable, ModeRestore, SetInterruptMode, TypeOK, Threads
  <1>5. ASSUME Start \/ MainReturn
        PROVE  blocked'["controller"] = blocked["controller"]
    BY <1>5 DEF Start, MainReturn, TypeOK, Threads
  <1>6. blocked'["controller"] = blocked["controller"]
    BY <1>4, <1>5, MasksFrame DEF masks
  <1>7. ASSUME NEW t \in Threads, TickStart(t) PROVE hthread' # "controller"
    BY <1>2, <1>7 DEF TickStart, SigSuspended
  <1>8. ASSUME \/ \E c \in Contexts : Moves(c)
               \/ \E c \in Contexts, t \in TickTimes : SetTimerTick(c, t)
               \/ Expire
        PROVE  hthread' = hthread
    BY <1>8, MovesFrame DEF SetTimerTick, Expire
  <1>9. ASSUME Ticks PROVE hthread' # "controller"
    BY <1>2, <1>9, TicksFrame DEF HandlerReturns, Nobody
  <1> QED BY <1>2, <1>6, <1>7, <1>8, <1>9, TimerFrame DEF timer

LEMMA NullCalls ==
  ASSUME RegistersFirst, TypeOK, HandlerIdle, WorkerPlace, NullInv, Steps
  PROVE  \A d \in Contexts : SoundCall(d)'
  <1> USE DEF Raising
  <1>0. /\ "worker" \in Contexts /\ "controller" \in Contexts
        /\ "handler" \in Contexts
        /\ \A d \in Contexts : SoundCall(d)
    BY NullInvCalls DEF Contexts, Threads
  <1>1. ASSUME UNCHANGED <<call, evCback>>, wpc' = wpc \/ wpc' # "c_main",
               \A d \in Contexts : call[d].op = "on" => wpc' = wpc,
               UNCHANGED stack
        PROVE  \A d \in Contexts : SoundCall(d)'
    BY <1>0, <1>1 DEF SoundCall
  \* One context's call changes.
  <1>2. ASSUME NEW c \in Contexts, NEW k, Enter(c, k), OnlyTouches(c),
               UNCHANGED evCback,
               \/ wpc' = wpc
               \/ c = "worker" /\ wpc' # "c_main" /\ wpc # "c_main",
               k.op \in Raising => k.cback \in Callbacks \/ evCback[k.ev] = NULL,
               k.op = "on" => c = "worker" /\ wpc' = "c_main",
               c # "controller" \/ wpc # "c_main"
        PROVE  \A d \in Contexts : SoundCall(d)'
    <2> TAKE d \in Contexts
    <2>1. CASE d = c
      <3>1. call'[c] = k BY <1>2 DEF Enter, TypeOK
      <3> QED BY <1>0, <1>2, <2>1, <3>1 DEF SoundCall
    <2>2. CASE d # c
      <3>1. call'[d] = call[d] /\ stack'[d] = stack[d]
        BY <1>2, <2>2 DEF OnlyTouches
      <3> QED BY <1>0, <1>2, <2>2, <3>1 DEF SoundCall
    <2> QED BY <2>1, <2>2
  <1>3. ASSUME NEW c \in Contexts, call[c].op # "none" \/ stack[c] # <<>>
        PROVE  c # "controller" \/ wpc # "c_main"
    BY <1>0, <1>3 DEF SoundCall
  <1>4. ASSUME NEW c \in Contexts,
               \/ QueueUnhandled(c) \/ QueueDirect(c) \/ QueueAppend(c)
               \/ Moves(c)
        PROVE  \A d \in Contexts : SoundCall(d)'
    <2>1. UNCHANGED <<evCback, wpc>> /\ call[c].op # "none"
      BY <1>4, MovesFrame DEF QueueUnhandled, QueueDirect, QueueAppend,
         Holding, evinfo
    <2>2. PICK k : /\ Enter(c, k)
                   /\ k.op \in {"none", "dmaret", "usec", "arm"}
      BY <1>4, AfterQueueType, MovesFrame DEF QueueUnhandled, QueueDirect,
         QueueAppend, NoCall
    <2> QED BY <1>2, <1>3, <1>4, <2>1, <2>2, TouchesOwn
  <1>5. ASSUME NEW c \in Contexts, CallbackOn(c)
        PROVE  \A d \in Contexts : SoundCall(d)'
    <2>1. c = "worker" /\ wpc = "c_main" /\ UNCHANGED <<wpc, stack>>
      BY <1>0, <1>5 DEF CallbackOn, Holding, SoundCall
    <2>2. call' = [call EXCEPT !["worker"] = NoCall]
      BY <1>5, <2>1 DEF CallbackOn, Enter
    <2> TAKE d \in Contexts
    <2>3. CASE d = "worker"
      <3>1. call'[d].op = "none" BY <2>2, <2>3 DEF TypeOK, NoCall
      <3> QED BY <2>3, <3>1 DEF SoundCall
    <2>4. CASE d # "worker"
      <3>1. call'[d] = call[d] /\ stack'[d] = stack[d]
        BY <2>1, <2>2, <2>4 DEF TypeOK
      <3>2. hthread = Nobody
        BY <1>5, <2>1
        DEF CallbackOn, Holding, Runnable, NullInv, TypeOK, Threads
      <3>3. call[d].op = "none"
        BY <2>1, <2>4, <3>2 DEF NullInv, HandlerIdle, Contexts, Threads
      <3> QED BY <1>0, <2>1, <2>4, <3>1, <3>3 DEF SoundCall
    <2> QED BY <2>3, <2>4
  <1>6. ASSUME NEW c \in Contexts, CallbackOff(c)
        PROVE  \A d \in Contexts : SoundCall(d)'
    <2>1. /\ UNCHANGED <<wpc, stack>> /\ call' = [call EXCEPT ![c] = NoCall]
          /\ evCback' = [evCback EXCEPT ![call[c].ev] = NULL]
      BY <1>6 DEF CallbackOff, Enter
    <2> TAKE d \in Contexts
    <2>2. CASE d = c
      <3>1. call'[d].op = "none" BY <2>1, <2>2 DEF TypeOK, NoCall
      <3> QED BY <1>0, <2>1, <2>2, <3>1 DEF SoundCall
    <2>3. CASE d # c
      <3>1. call'[d] = call[d] BY <2>1, <2>3 DEF TypeOK
      <3>2. call[d].ev \in Events BY DEF TypeOK, Calls
      <3>3. evCback[call[d].ev] = NULL => evCback'[call[d].ev] = NULL
        BY <2>1, <3>2 DEF TypeOK
      <3> QED BY <1>0, <2>1, <3>1, <3>3 DEF SoundCall
    <2> QED BY <2>2, <2>3
  <1>7. ASSUME NEW c \in Contexts, NEW op \in CallbackOps \cup MainOps,
               Calling(c, op)
        PROVE  /\ c # "controller" \/ wpc # "c_main"
               /\ op = "on" => c = "worker" /\ wpc = "c_main"
    BY <1>0, <1>3, <1>7 DEF Calling, InMain, RegistersFirst
  <1>8. ASSUME NEW c \in Contexts, NEW e \in AppEvents, NEW cb \in Callbacks,
               NEW p \in Priorities, AppCallbackOn(c, e, cb, p)
        PROVE  \A d \in Contexts : SoundCall(d)'
    <2> DEFINE k == [Call("on") EXCEPT !.ev = e, !.cback = cb, !.prio = p]
    <2>1. k.op = "on" BY DEF Call, NoCall
    <2>2. /\ Enter(c, k) /\ UNCHANGED <<evCback, wpc>>
          /\ "on" \in CallbackOps \cup MainOps /\ Calling(c, "on")
      BY <1>8 DEF AppCallbackOn, ApiUnchanged, evinfo, Calling
    <2>3. c = "worker" /\ wpc = "c_main" BY <1>7, <2>2
    <2>4. OnlyTouches(c) BY <1>8, TouchesOwn DEF Requests
    <2> HIDE DEF k
    <2> QED BY <1>2, <2>1, <2>2, <2>3, <2>4
  <1>9. ASSUME NEW c \in Contexts, NEW e \in AppEvents, AppCallbackOff(c, e)
        PROVE  \A d \in Contexts : SoundCall(d)'
    <2> DEFINE k == [Call("off") EXCEPT !.ev = e]
    <2>1. k.op = "off" BY DEF Call, NoCall
    <2>2. /\ Enter(c, k) /\ UNCHANGED <<evCback, wpc>>
          /\ "off" \in CallbackOps \cup MainOps /\ Calling(c, "off")
      BY <1>9 DEF AppCallbackOff, ApiUnchanged, evinfo, Calling
    <2>3. OnlyTouches(c) BY <1>9, TouchesOwn DEF Requests
    <2>4. c # "controller" \/ wpc # "c_main" BY <1>7, <2>2
    <2> HIDE DEF k
    <2> QED BY <1>2, <2>1, <2>2, <2>3, <2>4
  <1>10. ASSUME NEW c \in Contexts, NEW op \in Raising, NEW e \in Events,
                NEW cb \in Callbacks \cup {evCback[e]}, NEW arg,
                Enter(c, QueueCall(op, e, cb, arg)), OnlyTouches(c),
                UNCHANGED <<evCback, wpc>>, c # "controller" \/ wpc # "c_main"
         PROVE  \A d \in Contexts : SoundCall(d)'
    <2> DEFINE k == QueueCall(op, e, cb, arg)
    <2>1. k.op = op /\ k.cback = cb /\ k.ev = e BY DEF QueueCall, NoCall
    <2>2. evCback[e] \in Callbacks \/ evCback[e] = NULL
      BY DEF TypeOK, Pointers
    <2>3. k.op # "on" BY <2>1
    <2>4. Enter(c, k) BY <1>10
    <2>5. k.cback \in Callbacks \/ evCback[k.ev] = NULL BY <2>1, <2>2
    <2> HIDE DEF k
    <2> QED BY <1>2, <1>10, <2>3, <2>4, <2>5
  <1>11. /\ USER_EVENT \in Events /\ DMA_TRANSFER_DONE \in Events
         /\ TIMER_TICK \in Events /\ NetEvents \subseteq Events
    BY ConstantsAssumption DEF USER_EVENT, DMA_TRANSFER_DONE, TIMER_TICK,
       MC_PACKET_RECEIVED, SDP_PACKET_RX, Events, NUM_EVENTS
  <1>12. ASSUME NEW c \in Contexts,
                \/ TriggerUserEvent(c)
                \/ \E cb \in Callbacks : ScheduleCallback(c, cb)
                \/ DmaTransfer(c)
         PROVE  \A d \in Contexts : SoundCall(d)'
    <2>1. UNCHANGED <<evCback, wpc>> /\ OnlyTouches(c)
      BY <1>12, TouchesOwn DEF Requests, TriggerUserEvent, ScheduleCallback,
         DmaTransfer, SetTimerTick, ApiUnchanged, evinfo
    <2>2. c # "controller" \/ wpc # "c_main"
      BY <1>7, <1>12 DEF TriggerUserEvent, ScheduleCallback, DmaTransfer,
         Calling
    <2>3. CASE TriggerUserEvent(c)
      BY <1>10, <1>11, <2>1, <2>2, <2>3 DEF TriggerUserEvent
    <2>4. ASSUME NEW cb \in Callbacks, ScheduleCallback(c, cb)
          PROVE  \A d \in Contexts : SoundCall(d)'
      BY <1>10, <1>11, <2>1, <2>2, <2>4 DEF ScheduleCallback
    <2>5. CASE DmaTransfer(c)
      BY <1>10, <1>11, <2>1, <2>2, <2>5 DEF DmaTransfer
    <2> QED BY <1>12, <2>3, <2>4, <2>5
  <1>23. ASSUME NEW c \in Contexts, NEW t \in TickTimes, SetTimerTick(c, t)
         PROVE  \A d \in Contexts : SoundCall(d)'
    <2>1. /\ UNCHANGED <<evCback, wpc>>
          /\ \E k : Enter(c, k) /\ k.op = "sec"
      BY <1>23 DEF SetTimerTick, ApiUnchanged, evinfo, Call, NoCall
    <2>2. c # "controller" \/ wpc # "c_main"
      BY <1>7, <1>23 DEF SetTimerTick, Calling
    <2>3. OnlyTouches(c) BY <1>23, TouchesOwn DEF Requests
    <2> QED BY <1>2, <2>1, <2>2, <2>3
  <1>13. ASSUME NEW e \in NetEvents, ReceivePacket(e)
         PROVE  \A d \in Contexts : SoundCall(d)'
    <2>1. /\ UNCHANGED <<evCback, wpc>> /\ wpc # "c_main"
          /\ Enter("controller", QueueCall("queue", e, evCback[e], ops))
      BY <1>13 DEF ReceivePacket, RegistersFirst, evinfo
    <2>2. OnlyTouches("controller")
      BY <1>13 DEF ReceivePacket, OnlyTouches, Enter, TypeOK
    <2> QED BY <1>0, <1>10, <1>11, <2>1, <2>2
  <1>14. ASSUME NEW t \in Threads, TickStart(t)
         PROVE  \A d \in Contexts : SoundCall(d)'
    <2>1. /\ UNCHANGED <<evCback, wpc>>
          /\ Enter("handler", QueueCall("queue", TIMER_TICK,
                                        evCback[TIMER_TICK], simTime'))
      BY <1>14 DEF TickStart, evinfo
    <2>3. OnlyTouches("handler")
      BY <1>14 DEF TickStart, OnlyTouches, Enter, TypeOK
    <2> QED BY <1>0, <1>10, <1>11, <2>1, <2>3
  <1>15. ASSUME NEW c \in Contexts, Return(c)
         PROVE  \A d \in Contexts : SoundCall(d)'
    <2>1. UNCHANGED evCback /\ stack[c] # <<>>
      BY <1>15 DEF Return, evinfo
    <2>2. \/ wpc' = wpc
          \/ c = "worker" /\ wpc' # "c_main" /\ wpc # "c_main"
      <3>1. CASE c = "worker" /\ wpc = "callback" /\ Len(stack[c]) = 1
        BY <1>15, <3>1 DEF Return
      <3>2. CASE ~(c = "worker" /\ wpc = "callback" /\ Len(stack[c]) = 1)
        BY <1>15, <3>2 DEF Return
      <3> QED BY <3>1, <3>2
    <2>3. PICK k : Enter(c, k) /\ k.op \in {"none", "dmaret"}
      BY <1>15, CallType DEF Return, NoCall, CallOps, LockingOps
    <2>4. OnlyTouches(c) BY <1>15, TouchesOwn
    <2> QED BY <1>2, <1>3, <2>1, <2>2, <2>3, <2>4
  <1>16. ASSUME NEW c \in Contexts,
                \/ Acquire(c) \/ Stop(c) \/ Kill(c) \/ IntDisable(c)
                \/ ModeRestore(c)
         PROVE  UNCHANGED <<call, stack, evCback, wpc>>
    BY <1>16 DEF Acquire, Stop, Kill, IntDisable, ModeRestore, ApiUnchanged,
       evinfo
  <1>17. ASSUME LoopQuit \/ Suspend \/ Expire
         PROVE  /\ UNCHANGED <<call, stack, evCback>>
                /\ \/ wpc' = wpc
                   \/ wpc # "c_main" /\ wpc' # "c_main"
    BY <1>17 DEF LoopQuit, Suspend, Expire, AtLoop, evinfo
  <1>22. ASSUME Ticks PROVE \A d \in Contexts : SoundCall(d)'
    <2>1. /\ UNCHANGED <<stack, evCback>>
          /\ wpc' = wpc \/ (wpc # "c_main" /\ wpc' # "c_main")
      BY <1>22, TicksFrame DEF HandlerReturns, SigSuspended
    <2>2. PICK k : Enter("handler", k) /\ k.op \in {"none", "sec"}
      BY <1>22, TicksFrame
    <2>3. /\ call'["handler"].op \notin Raising \cup {"on"}
          /\ \A d \in Contexts \ {"handler"} : call'[d] = call[d]
      BY <1>0, <2>2 DEF Enter, TypeOK
    <2>4. \A d \in Contexts : call[d].op = "on" => wpc' = wpc
      <3>1. call["worker"].op = "on" => wpc = "c_main" BY <1>0 DEF SoundCall
      <3>2. wpc = "c_main" => wpc' = wpc BY <2>1
      <3> QED BY <1>0, <3>1, <3>2 DEF SoundCall
    <2> QED BY <1>0, <2>1, <2>3, <2>4 DEF SoundCall
  <1>18. ASSUME Start \/ MainReturn
         PROVE  /\ UNCHANGED <<call, stack, evCback>> /\ wpc' # "c_main"
                /\ call["worker"].op = "none"
    BY <1>18 DEF Start, MainReturn, evinfo
  <1>19. ASSUME LoopScan \/ ScanFindsNone \/ ScanFinds \/ Dequeue
         PROVE  \A d \in Contexts : SoundCall(d)'
    <2>1. /\ UNCHANGED evCback /\ OnlyTouches("worker")
          /\ wpc # "c_main" /\ wpc' # "c_main"
      <3>1. CASE LoopScan \/ ScanFindsNone \/ ScanFinds
        BY <1>0, <3>1 DEF LoopScan, ScanFindsNone, ScanFinds, AtLoop, Holding,
           Enter, OnlyTouches, WorkerPlace, TypeOK, evinfo
      <3>2. CASE Dequeue
        <4>1. PICK s : stack' = [stack EXCEPT !["worker"] = s]
          BY <3>2 DEF Dequeue
        <4>2. UNCHANGED evCback /\ Enter("worker", NoCall)
              /\ call["worker"].op = "dequeue" /\ wpc' = "callback"
          BY <3>2 DEF Dequeue, Holding
        <4> QED BY <1>0, <4>1, <4>2 DEF OnlyTouches, Enter, WorkerPlace, TypeOK
      <3> QED BY <1>19, <3>1, <3>2
    <2>2. ASSUME NEW k, Enter("worker", k), k.op \in {"none", "scan", "dequeue"}
          PROVE  \A d \in Contexts : SoundCall(d)'
      BY <1>0, <1>2, <2>1, <2>2
    <2>3. CASE LoopScan \/ ScanFindsNone \/ Dequeue
      BY <2>2, <2>3 DEF LoopScan, ScanFindsNone, Dequeue, Call, NoCall
    <2>4. CASE ScanFinds
      BY <2>2, <2>4 DEF ScanFinds, Call, NoCall
    <2> QED BY <1>19, <2>3, <2>4
  <1>20. CASE LoopQuit \/ Suspend \/ Expire
    BY <1>0, <1>1, <1>17, <1>20 DEF SoundCall
  <1>21. CASE Start \/ MainReturn
    <2>1. \A d \in Contexts : call[d].op # "on"
      BY <1>0, <1>18, <1>21 DEF SoundCall
    <2> QED BY <1>1, <1>18, <1>21, <2>1
  <1> QED BY <1>0, <1>1, <1>4, <1>5, <1>6, <1>8, <1>9, <1>12, <1>13, <1>14,
             <1>15, <1>16, <1>19, <1>20, <1>21, <1>22, <1>23
          DEF Steps, Requests, Contexts

\* An application that registers its callbacks in c_main, before any packet
\* comes, never has a null callback queued or called, even when its callbacks
\* unregister one another while events are being raised.
THEOREM NullSafe ==
  ASSUME RegistersFirst
  PROVE  Spec => []NeverCallsNull
  <1>1. Init => NullInv
    <2> SUFFICES ASSUME Init PROVE NullInv OBVIOUS
    <2> QED BY DEF Init, NullInv, Raising, NoCall, Contexts, Threads, MainMask,
               Nobody
  <1>2. Inv /\ NullInv /\ [Next]_vars => NullInv'
    <2>1. CASE Next
      <3> SUFFICES ASSUME Inv, NullInv, Steps PROVE NullInv'
        BY <2>1, NextSteps
      <3>1. /\ evQueue' \in [Events -> Seq(SoundItems)]
            /\ stack' \in [Contexts -> Seq(SoundFrames)]
            /\ \A c \in Contexts : SoundCall(c)'
            /\ QuietMain'
        BY NullQueues, NullFrames, NullCalls, QuietStep DEF Inv, LockInv
      <3> QED BY <3>1 DEF NullInv, SoundCall, QuietMain, Contexts, Threads
    <2>2. CASE UNCHANGED vars
      BY <2>2 DEF NullInv, vars, evinfo, timer, masks
    <2> QED BY <2>1, <2>2
  <1>3. Inv /\ NullInv => NeverCallsNull BY NullInvSafe DEF Inv
  <1> QED BY <1>1, <1>2, <1>3, InitInv, Invariance, PTL DEF Spec
=============================================================================
