---------------------------- MODULE HostCommands ----------------------------
(***************************************************************************)
(* The host's commands: the part of the dispatcher's loop that takes       *)
(* datagrams from the ethernet socket, answers some at once and queues     *)
(* them for the cores, the queues of SDP messages and their way to the     *)
(* cores (spin_emu_dispatcher.c), and what a core does with a command      *)
(* (read_sdp of spin_emu_api.c, scamp_emu.c).                              *)
(*                                                                         *)
(* The dispatcher is one thread.  An iteration of its loop empties the     *)
(* ethernet socket (pc = "ether"), then every core's socket (pc = "poll"), *)
(* and sends what is queued (pc = "flush"); the cores run beside it.  Core *)
(* n is core n % NUM_CPUS of chip n \div NUM_CPUS, in the order of the     *)
(* dispatcher's walks.  There are cores, queues and sockets only when the  *)
(* board has been set up, by the configuration or by a P2PC command.       *)
(***************************************************************************)
EXTENDS Integers, Sequences, FiniteSets

CONSTANTS
  NUM_CHIPS, NUM_CPUS,
  SOCKET_SIZE,     \* datagrams that a socket holds
  Repaired,        \* the programs whose main assigns NUM_CHIPS; with
                   \* spin_emu_app.c as it is there are none
  Scripts,         \* bound: the sequences of requests the hosts send
  Concurrent,      \* FALSE: no VER is sent while one is not yet answered
  MaxMessages      \* bound: messages and FINISHED sent by applications

CMD_VER == 0
CMD_READ == 2
CMD_WRITE == 3
CMD_NNP == 20
CMD_FFD == 23
CMD_AS == 24
CMD_IPTAG == 26
CMD_P2PC == 33
NN_CMD_FFS == 6
NN_CMD_FFE == 15
IPTAG_NEW == 0
IPTAG_SET == 1
IPTAG_GET == 2
IPTAG_CLR == 3
IPTAG_TTO == 4
IPTAG_MAX == 4
TAG_NONE == 255
TAG_TABLE_SIZE == 16
PoolTags == 4 .. 15
Tags == 0 .. TAG_TABLE_SIZE - 1

Chips == 0 .. NUM_CHIPS - 1
Cpus == 0 .. NUM_CPUS - 1
N == NUM_CHIPS * NUM_CPUS
Cores == 0 .. N - 1
ChipOf(n) == n \div NUM_CPUS
CpuOf(n) == n % NUM_CPUS

Requests == UNION {{s[n] : n \in DOMAIN s} : s \in Scripts}

\* op is the kind of an NNP or IPTAG command; arg the address of a program,
\* a flood's origin or the tag an IPTAG command names; to the address it is to
\* stand for, the time-out or how many entries are asked for; tag the tag in
\* the header.  A host is named by its address and port.
ASSUME HostAssumption ==
  /\ NUM_CHIPS \in Nat \ {0}
  /\ NUM_CPUS \in Nat \ {0, 1}
  /\ SOCKET_SIZE \in Nat \ {0}
  /\ Repaired \subseteq Nat
  /\ \A s \in Scripts : DOMAIN s = 1 .. Len(s)
  /\ \A r \in Requests :
       /\ r.cmd \in Nat /\ r.op \in Nat
       /\ r.core \in Cores /\ r.mask \subseteq Cpus
       /\ r.arg \in Nat /\ r.to \in Nat
       /\ r.tag \in 0 .. TAG_NONE
       /\ r.host \in Nat \ {0}
  /\ Concurrent \in BOOLEAN
  /\ MaxMessages \in Nat

\* What a core is sent: cmd_rc as process_message leaves it, the number of the
\* request, its argument and the tag in its header.
Kinds == {"VER", "READ", "WRITE", "AS", "event"}
Commands == [kind : Kinds, of : Nat, arg : Nat, tag : 0 .. TAG_NONE]

\* What a core sends: a message for the ethernet, one for a core, FINISHED.
Ethernet == [kind : {"ether"}, of : Nat, tag : 0 .. TAG_NONE, seen : SUBSET Nat]
Messages == [kind : {"sdp"}, core : Cores]
Finished == [kind : {"FINISHED"}]

\* What a core's process executes: the request that started it, its address,
\* the writes made to the chip's memory by then, and whether it still runs.
\* Until it is started it is the monitor.
Programs == [by : Nat, start : Nat, over : SUBSET Nat,
             state : {"monitor", "running", "aborted"}]
Monitor == [by |-> 0, start |-> 0, over |-> {}, state |-> "monitor"]

VARIABLES
  booted,        \* -1, then the number of the P2PC that set the board up, or
                 \* 0 if the configuration did
  requests,      \* every request sent; its number here is its seq
  received,      \* the requests the dispatcher has taken
  answers,       \* the datagrams sent to the hosts
  sendersip,     \* the host of the request whose reply is to come, 0 if none
  senderseq,     \* and its seq
  sdp_queue,
  floodfill,     \* the address where the flood fill starts
  iptags,        \* tag -> its entry
  tag_tto,
  spin_emu_running, spin_emu_running_count,
  toCore,        \* sent by the dispatcher, not yet read by the core
  fromCore,      \* sent by the core, not yet read by the dispatcher
  ram,           \* chip -> the requests that wrote to its shared memory
  app,           \* core -> the program it was started with
  last,          \* core -> the command it executed last (for CommandService)
  messages,      \* what the applications may still send
  pc, at         \* the dispatcher's place in its loop

hostVars == <<requests, received, answers>>
slot == <<sendersip, senderseq>>
tags == <<iptags, tag_tto>>
running == <<spin_emu_running, spin_emu_running_count>>
coreVars == <<ram, app, last>>
place == <<pc, at>>
vars == <<booted, hostVars, slot, sdp_queue, floodfill, tags, running, toCore,
          fromCore, coreVars, messages, place>>

\* The default tag of iptag_init, for a tubotron on this machine.
tubotron == 17892
iptag_init ==
  [t \in Tags |-> [to |-> IF t = 1 THEN tubotron ELSE 0, flags |-> 0]]

Init ==
  /\ booted \in {-1, 0}
  /\ requests = <<>> /\ received = 0 /\ answers = {}
  /\ sendersip = 0 /\ senderseq = 0
  /\ sdp_queue = [n \in Cores |-> <<>>]
  /\ floodfill = 0
  /\ iptags = iptag_init /\ tag_tto = 9
  /\ spin_emu_running = [n \in Cores |-> FALSE]
  /\ spin_emu_running_count = 0
  /\ toCore = [n \in Cores |-> <<>>]
  /\ fromCore = [n \in Cores |-> <<>>]
  /\ ram = [c \in Chips |-> {}]
  /\ app = [n \in Cores |-> Monitor]
  /\ last = [n \in Cores |-> <<>>]
  /\ messages = MaxMessages
  /\ pc = "ether" /\ at = 0

-----------------------------------------------------------------------------
(* The hosts.  A datagram that is lost is one that was not sent.           *)

Answered(n) == \E a \in answers : a.of = n /\ a.kind = "reply"

VerOutstanding ==
  \E n \in DOMAIN requests : requests[n].cmd = CMD_VER /\ ~Answered(n)

\* The hosts go on as some script says.
MayCome(r) ==
  \E s \in Scripts :
    /\ Len(requests) < Len(s)
    /\ requests = SubSeq(s, 1, Len(requests))
    /\ r = s[Len(requests) + 1]

HostSend(r) ==
  /\ MayCome(r)
  /\ r.cmd = CMD_VER /\ ~Concurrent => ~VerOutstanding
  /\ requests' = Append(requests, r)
  /\ UNCHANGED <<booted, received, answers, slot, sdp_queue, floodfill, tags,
                 running, toCore, fromCore, coreVars, messages, place>>

-----------------------------------------------------------------------------
(* receive_msg_from_ether and process_message.                             *)

initialised == booted # -1

\* chip_id asserts a board, the loops over its chips find none before.
Board == IF initialised THEN Cores ELSE {}

\* cmd_rc as it comes over the network, read as a 16-bit number of the host
\* machine.
Raw(cmd) == (cmd % 256) * 256 + cmd \div 256

\* The command is compared before ntohs.
RepliesAtOnceNever(cmd) == FALSE
RepliesAtOnce(cmd) == Raw(cmd) \notin {CMD_VER, CMD_READ, CMD_IPTAG}

Receiving == pc = "ether" /\ received < Len(requests)
Request == requests[received + 1]
Seq1 == received + 1

\* A datagram to a host; asOf is the number of requests received by then.
Datagram(kind, host, seq, of, tag, seen, value, asOf) ==
  [kind |-> kind, host |-> host, seq |-> seq, of |-> of, tag |-> tag,
   seen |-> seen, value |-> value, asOf |-> asOf]

\* The request is answered at once with RC_OK, or its sender remembered.
Acknowledged ==
  IF RepliesAtOnce(Request.cmd)
  THEN {Datagram("ok", Request.host, Seq1, Seq1, TAG_NONE, {}, 0, Seq1)}
  ELSE {}
Sender ==
  IF RepliesAtOnce(Request.cmd) THEN slot ELSE <<Request.host, Seq1>>

Receive(more) ==
  /\ received' = received + 1
  /\ answers' = answers \cup Acknowledged \cup more
  /\ sendersip' = Sender[1] /\ senderseq' = Sender[2]
  /\ UNCHANGED <<requests, coreVars, messages, at>>

KeepBoard == UNCHANGED <<booted, toCore, fromCore, pc>>

\* queue_sdp and queue_sdp_xy.
Queue(D, m) ==
  sdp_queue' = [n \in Cores |-> IF n \in D THEN Append(sdp_queue[n], m)
                                ELSE sdp_queue[n]]

Command(kind, arg) ==
  [kind |-> kind, of |-> Seq1, arg |-> arg, tag |-> Request.tag]

KindOfForwarded(cmd) ==
  CASE cmd = CMD_VER -> "VER" [] cmd = CMD_READ -> "READ" [] OTHER -> "event"
KindOf(cmd) ==
  CASE cmd = CMD_VER -> "VER"
    [] cmd = CMD_READ -> "READ"
    [] cmd = CMD_WRITE -> "WRITE"
    [] OTHER -> "event"

\* A command for one core, which an unknown command is too.
ForOneCore(cmd) == cmd \notin {CMD_NNP, CMD_FFD, CMD_AS, CMD_P2PC, CMD_IPTAG}

QueueCommand ==
  /\ Receiving
  /\ initialised /\ ForOneCore(Request.cmd)
  /\ Receive({})
  /\ Queue({Request.core}, Command(KindOf(Request.cmd), Request.arg))
  /\ KeepBoard /\ UNCHANGED <<floodfill, tags, running>>

\* The assertion of chip_id fails, the request being acknowledged or not.
NoBoard ==
  /\ Receiving
  /\ ~initialised
  /\ ForOneCore(Request.cmd) \/ Request.cmd = CMD_AS
  /\ Receive({})
  /\ pc' = "dead"
  /\ UNCHANGED <<booted, sdp_queue, floodfill, tags, running, toCore, fromCore>>

SetRunning(D) ==
  /\ spin_emu_running' =
       [n \in Cores |-> n \in D \/ spin_emu_running[n]]
  /\ spin_emu_running_count' = spin_emu_running_count + Cardinality(D)

Masked(C, mask) == {n \in Board : ChipOf(n) \in C /\ CpuOf(n) \in mask}

dispatch_as ==
  LET D == Masked({ChipOf(Request.core)}, Request.mask)
  IN  /\ Receiving
      /\ initialised /\ Request.cmd = CMD_AS
      /\ Receive({})
      /\ Queue(D, Command("AS", Request.arg))
      /\ SetRunning(D)
      /\ KeepBoard /\ UNCHANGED <<floodfill, tags>>

FloodStart ==
  /\ Receiving
  /\ Request.cmd = CMD_NNP /\ Request.op = NN_CMD_FFS
  /\ Receive({})
  /\ floodfill' = Request.arg
  /\ KeepBoard /\ UNCHANGED <<sdp_queue, tags, running>>

\* An NNP packet of any other kind does nothing.
IgnoreNnp ==
  /\ Receiving
  /\ Request.cmd = CMD_NNP /\ Request.op \notin {NN_CMD_FFS, NN_CMD_FFE}
  /\ Receive({})
  /\ KeepBoard /\ UNCHANGED <<sdp_queue, floodfill, tags, running>>

\* A block of the image becomes a WRITE for core 1 of every chip.
FloodCore0 == {n \in Board : CpuOf(n) = 0}
FloodCores == {n \in Board : CpuOf(n) = 1}

cmd_floodfill ==
  /\ Receiving
  /\ Request.cmd = CMD_FFD
  /\ Receive({})
  /\ Queue(FloodCores, Command("WRITE", Request.arg))
  /\ KeepBoard /\ UNCHANGED <<floodfill, tags, running>>

flood_as ==
  LET D == Masked(Chips, Request.mask)
  IN  /\ Receiving
      /\ Request.cmd = CMD_NNP /\ Request.op = NN_CMD_FFE
      /\ Receive({})
      /\ Queue(D, Command("AS", floodfill))
      /\ SetRunning(D)
      /\ KeepBoard /\ UNCHANGED <<floodfill, tags>>

\* New queues, new sockets, and a process for every core; what a process does
\* before it reads its socket changes nothing here.
BootsAlways == TRUE
Boots == ~initialised

cmd_p2pc ==
  /\ Receiving
  /\ Request.cmd = CMD_P2PC /\ Boots
  /\ Receive({})
  /\ booted' = Seq1
  /\ sdp_queue' = [n \in Cores |-> <<>>]
  /\ toCore' = [n \in Cores |-> <<>>]
  /\ fromCore' = [n \in Cores |-> <<>>]
  /\ UNCHANGED <<floodfill, tags, running, pc>>

IgnoreP2pc ==
  /\ Receiving
  /\ Request.cmd = CMD_P2PC /\ ~Boots
  /\ Receive({})
  /\ KeepBoard /\ UNCHANGED <<sdp_queue, floodfill, tags, running>>

EtherEmpty ==
  /\ pc = "ether" /\ initialised
  /\ received = Len(requests)
  /\ pc' = "poll" /\ at' = 0
  /\ UNCHANGED <<booted, hostVars, slot, sdp_queue, floodfill, tags, running,
                 toCore, fromCore, coreVars, messages>>

-----------------------------------------------------------------------------
(* IP tags: the addresses that messages from the board go to.              *)

\* dispatch_sdp_to_ether: to the address of the tag, or to the host remembered
\* in s and with the sequence number remembered.
ToEther(table, s, m, value, asOf) ==
  LET tagged == m.tag \in Tags
      kind == IF m.of = 0 THEN "print" ELSE "reply"
  IN  Datagram(kind, IF tagged THEN table[m.tag].to ELSE s[1],
               IF tagged THEN m.of ELSE s[2], m.of, m.tag, m.seen, value, asOf)

\* The first tag of the pool that is free.  Nothing ever sets flags.
iptag_new ==
  LET free == {t \in PoolTags : iptags[t].flags = 0}
  IN  IF free = {} THEN TAG_NONE ELSE CHOOSE t \in free : \A u \in free : t <= u

GoodTag == Request.op <= IPTAG_MAX /\ Request.arg \in Tags

\* cmd_iptag leaves a result, and whatever that is, RC_OK is sent.
AnswerTag(value, table) ==
  /\ Receiving
  /\ Request.cmd = CMD_IPTAG
  /\ iptags' = table
  /\ Receive({ToEther(table, Sender,
                      [of |-> Seq1, tag |-> Request.tag, seen |-> {}],
                      value, Seq1)})
  /\ KeepBoard /\ UNCHANGED <<sdp_queue, floodfill, running>>

StoredAsNamed(t, to) == [iptags EXCEPT ![Request.arg].to = to]
Stored(t, to) == IF t = TAG_NONE THEN iptags ELSE [iptags EXCEPT ![t].to = to]

IptagSet ==
  LET t == IF Request.op = IPTAG_NEW THEN iptag_new ELSE Request.arg
  IN  /\ Receiving /\ GoodTag
      /\ Request.op \in {IPTAG_NEW, IPTAG_SET}
      /\ AnswerTag(t, Stored(t, Request.to))
      /\ UNCHANGED tag_tto

\* The size of the entries asked for, of 24 bytes each, in 32 bits and within
\* BUF_SIZE, 256; both are taken in units of 8 bytes.
GetSize == (3 * Request.to) % 2 ^ 29
GetFits == GetSize <= 32

IptagGet ==
  /\ Receiving /\ GoodTag /\ Request.op = IPTAG_GET /\ GetFits
  /\ AnswerTag(IF GetSize = 0 THEN 0 ELSE iptags[Request.arg].to, iptags)
  /\ UNCHANGED tag_tto

IptagTto ==
  /\ Receiving /\ GoodTag /\ Request.op = IPTAG_TTO
  /\ AnswerTag(tag_tto, iptags)
  /\ tag_tto' = IF Request.to < 16 THEN Request.to ELSE tag_tto

IptagClr ==
  /\ Receiving /\ GoodTag /\ Request.op = IPTAG_CLR
  /\ AnswerTag(0, [iptags EXCEPT ![Request.arg].flags = 0])
  /\ UNCHANGED tag_tto

\* RC_ARG is overwritten before it is sent.
IptagRefused ==
  /\ Receiving
  /\ GoodTag => Request.op = IPTAG_GET /\ ~GetFits
  /\ AnswerTag(0, iptags)
  /\ UNCHANGED tag_tto

cmd_iptag == IptagSet \/ IptagGet \/ IptagTto \/ IptagClr \/ IptagRefused
-----------------------------------------------------------------------------
(* do_dispatch: what the cores send.                                       *)

Polled == fromCore[at]

TakePolled(kind) ==
  /\ pc = "poll"
  /\ Polled # <<>>
  /\ Head(Polled).kind = kind
  /\ fromCore' = [fromCore EXCEPT ![at] = Tail(@)]
  /\ UNCHANGED <<booted, requests, received, slot, floodfill, tags, toCore,
                 coreVars, messages, place>>

dispatch_sdp_to_ether ==
  /\ TakePolled("ether")
  /\ answers' = answers \cup {ToEther(iptags, slot, Head(Polled), 0, received)}
  /\ UNCHANGED <<sdp_queue, running>>

dispatch_sdp_one ==
  /\ TakePolled("sdp")
  /\ Queue({Head(Polled).core},
           [kind |-> "event", of |-> 0, arg |-> 0, tag |-> TAG_NONE])
  /\ UNCHANGED <<answers, running>>

CoreFinished ==
  /\ TakePolled("FINISHED")
  /\ spin_emu_running' = [spin_emu_running EXCEPT ![at] = FALSE]
  /\ spin_emu_running_count' = spin_emu_running_count - 1
  /\ UNCHANGED <<answers, sdp_queue>>

MoreCoresLong == at < N
MoreCoresShort == at < N - 2
MoreCores == at < N - 1

\* The next core of the walk, or the next part of the loop.
Step(to) ==
  /\ IF MoreCores THEN at' = at + 1 /\ UNCHANGED pc
     ELSE at' = 0 /\ pc' = to
  /\ UNCHANGED <<booted, hostVars, slot, sdp_queue, floodfill, tags, running,
                 toCore, fromCore, coreVars, messages>>

PollNext == pc = "poll" /\ Polled = <<>> /\ Step("flush")

-----------------------------------------------------------------------------
(* flush_sdp_queues.                                                       *)

Flush ==
  /\ pc = "flush"
  /\ sdp_queue[at] # <<>>
  /\ Len(toCore[at]) < SOCKET_SIZE
  /\ toCore' = [toCore EXCEPT ![at] = Append(@, Head(sdp_queue[at]))]
  /\ sdp_queue' = [sdp_queue EXCEPT ![at] = Tail(@)]
  /\ UNCHANGED <<booted, hostVars, slot, floodfill, tags, running, fromCore,
                 coreVars, messages, place>>

\* send fails with EAGAIN, which ends the emulator.
Die ==
  /\ pc = "flush"
  /\ sdp_queue[at] # <<>>
  /\ Len(toCore[at]) = SOCKET_SIZE
  /\ pc' = "dead"
  /\ UNCHANGED <<booted, hostVars, slot, sdp_queue, floodfill, tags, running,
                 toCore, fromCore, coreVars, messages, at>>

FlushNext == pc = "flush" /\ sdp_queue[at] = <<>> /\ Step("ether")

Dispatcher ==
  \/ QueueCommand \/ NoBoard \/ dispatch_as \/ FloodStart \/ IgnoreNnp
  \/ cmd_floodfill \/ flood_as \/ cmd_p2pc \/ IgnoreP2pc \/ cmd_iptag
  \/ EtherEmpty
  \/ dispatch_sdp_to_ether \/ dispatch_sdp_one \/ CoreFinished \/ PollNext
  \/ Flush \/ Die \/ FlushNext

-----------------------------------------------------------------------------
(* The cores: read_sdp, and the application's calls.                       *)

\* spin1_send_sdp_msg drops what the socket has no room for.
Sent(q, m) == IF Len(q) < SOCKET_SIZE THEN Append(q, m) ELSE q

Incoming(n) == Head(toCore[n])

\* The socket of a process that has aborted is still open in the others.
TakeIncoming(n, kinds) ==
  /\ app[n].state # "aborted"
  /\ toCore[n] # <<>>
  /\ Incoming(n).kind \in kinds
  /\ toCore' = [toCore EXCEPT ![n] = Tail(@)]
  /\ last' = [last EXCEPT ![n] = <<Incoming(n)>>]
  /\ UNCHANGED <<booted, hostVars, slot, sdp_queue, floodfill, tags, running,
                 messages, place>>

cmd_write(n) ==
  /\ TakeIncoming(n, {"WRITE"})
  /\ ram' = [ram EXCEPT ![ChipOf(n)] = @ \cup {Incoming(n).of}]
  /\ UNCHANGED <<fromCore, app>>

\* A message whose sender's address spin1_get_chip_id gives.  Its assertion
\* fails where NUM_CHIPS is 0.
SendAs(n, m) ==
  IF app[n].state = "monitor" \/ app[n].start \in Repaired
  THEN /\ fromCore' = [fromCore EXCEPT ![n] = Sent(@, m)]
       /\ UNCHANGED app
  ELSE /\ app' = [app EXCEPT ![n].state = "aborted"]
       /\ UNCHANGED fromCore

ToHost(of, tag, seen) ==
  [kind |-> "ether", of |-> of, tag |-> tag, seen |-> seen]

\* cmd_read and cmd_ver, with the reply that read_sdp sends.
cmd_read(n) ==
  /\ TakeIncoming(n, {"READ", "VER"})
  /\ SendAs(n, ToHost(Incoming(n).of, Incoming(n).tag,
               IF Incoming(n).kind = "READ" THEN ram[ChipOf(n)] ELSE {}))
  /\ UNCHANGED ram

\* execv replaces the process; its socket stays as it is.
cmd_as(n) ==
  /\ TakeIncoming(n, {"AS"})
  /\ app' = [app EXCEPT ![n] =
       [by |-> Incoming(n).of, start |-> Incoming(n).arg,
        over |-> ram[ChipOf(n)], state |-> "running"]]
  /\ UNCHANGED <<ram, fromCore>>

\* Anything else becomes an SDP_PACKET_RX event.
ReceiveEvent(n) ==
  /\ TakeIncoming(n, {"event"})
  /\ UNCHANGED <<ram, fromCore, app>>

AppSends(n) ==
  /\ app[n].state = "running"
  /\ messages > 0
  /\ messages' = messages - 1
  /\ UNCHANGED <<booted, hostVars, slot, sdp_queue, floodfill, tags, running,
                 toCore, ram, last, place>>

\* Every call sends FINISHED and waits for room in the socket.  A program that
\* has stopped may call again, from the callbacks of its controller, which
\* goes on.
spin1_stop(n) ==
  /\ AppSends(n)
  /\ Len(fromCore[n]) < SOCKET_SIZE
  /\ fromCore' = [fromCore EXCEPT ![n] = Append(@, [kind |-> "FINISHED"])]
  /\ UNCHANGED app

spin1_send_sdp_msg(n, d) ==
  /\ AppSends(n)
  /\ fromCore' = [fromCore EXCEPT ![n] =
       Sent(@, [kind |-> "sdp", core |-> d])]
  /\ UNCHANGED app

\* To IO_STD, which goes by tag 0.
io_printf(n) ==
  /\ AppSends(n)
  /\ SendAs(n, ToHost(0, 0, {}))

ReadPacket(n) ==
  cmd_write(n) \/ cmd_read(n) \/ cmd_as(n) \/ ReceiveEvent(n)

Next ==
  \/ \E r \in Requests : HostSend(r)
  \/ Dispatcher
  \/ \E n \in Cores :
       \/ ReadPacket(n)
       \/ spin1_stop(n)
       \/ \E d \in Cores : spin1_send_sdp_msg(n, d)
       \/ io_printf(n)

Spec == Init /\ [][Next]_vars

\* The dispatcher never waits and a core's controller reads what there is to
\* read; hosts and applications need not do anything.
FairSpec ==
  /\ Spec
  /\ WF_vars(Dispatcher)
  /\ \A n \in Cores : WF_vars(ReadPacket(n))

-----------------------------------------------------------------------------
(* Properties.                                                             *)

Datagrams ==
  [kind : {"ok", "reply", "print"}, host : Nat, seq : Nat, of : Nat,
   tag : 0 .. TAG_NONE, seen : SUBSET Nat, value : Nat, asOf : Nat]

HostTypeOK ==
  /\ booted \in Nat \cup {-1}
  /\ requests \in Seq(Requests)
  /\ received \in 0 .. Len(requests)
  /\ answers \subseteq Datagrams
  /\ sendersip \in Nat /\ senderseq \in Nat
  /\ sdp_queue \in [Cores -> Seq(Commands)]
  /\ floodfill \in Nat
  /\ iptags \in [Tags -> [to : Nat, flags : {0}]]
  /\ tag_tto \in Nat
  /\ spin_emu_running \in [Cores -> BOOLEAN]
  /\ spin_emu_running_count \in Int
  /\ toCore \in [Cores -> Seq(Commands)]
  /\ fromCore \in [Cores -> Seq(Ethernet \cup Messages \cup Finished)]
  /\ ram \in [Chips -> SUBSET Nat]
  /\ app \in [Cores -> Programs]
  /\ last \in [Cores -> Seq(Commands)]
  /\ messages \in Nat
  /\ pc \in {"ether", "poll", "flush", "dead"}
  /\ at \in Cores

\* An SDP queue and the socket behind it are one first-in first-out channel,
\* whatever is queued while it is flushed, and however often the board is set
\* up: a core executes every command accepted for it once, in the order of
\* acceptance.  See CommandService.
Pending == [n \in Cores |-> toCore[n] \o sdp_queue[n]]
Service == INSTANCE CommandService WITH pending <- Pending, executed <- last
ServiceSpec == Service!Spec

Replies(cmd) == {a \in answers : a.kind = "reply" /\ requests[a.of].cmd = cmd}

\* A write is answered before it is made.  A read through the same core finds
\* it made all the same.
ReadsSeeWrites ==
  \A a \in Replies(CMD_READ) : \A w \in 1 .. a.of :
    /\ requests[w].cmd = CMD_WRITE
    /\ requests[w].core = requests[a.of].core
    => w \in a.seen

\* A flooded program starts, on core 1 of every chip, over all the blocks
\* sent before the end of the flood, once the board is set up: a block that
\* comes earlier is acknowledged and forgotten.
FloodIsWhole ==
  \A n \in Cores :
    CpuOf(n) = 1 /\ app[n].by # 0 /\ requests[app[n].by].cmd = CMD_NNP =>
      \A b \in booted + 1 .. app[n].by :
        requests[b].cmd = CMD_FFD => b \in app[n].over

\* "stores message details to help reply later": a reply without a tag goes to
\* the host that sent the request, with the request's sequence number.
ToSender(a) ==
  a.tag \notin Tags => a.host = requests[a.of].host /\ a.seq = a.of
RepliesToSender == \A a \in answers : a.kind = "reply" => ToSender(a)

\* That holds of a VER while no second VER is sent before it is answered.
VerRepliesToSender == \A a \in Replies(CMD_VER) : ToSender(a)

\* Request k gives tag t an address: it is not refused, and it names the tag,
\* or asked for a new one and was told this one.
GivesTag(k, t) ==
  /\ requests[k].cmd = CMD_IPTAG /\ requests[k].arg \in Tags
  /\ \/ requests[k].op = IPTAG_SET /\ requests[k].arg = t
     \/ /\ requests[k].op = IPTAG_NEW
        /\ \E a \in answers : a.of = k /\ a.kind = "reply" /\ a.value = t

\* A message with a tag goes to the address that the last host to be given
\* the tag asked for, although messages wait in the sockets while the tag
\* changes hands, and although iptag_new gives every host the same tag.
TagAsTold ==
  \A a \in answers : a.tag \in Tags =>
    LET given == {k \in 1 .. a.asOf : GivesTag(k, a.tag)}
    IN  IF given = {} THEN a.host = iptag_init[a.tag].to
        ELSE \E k \in given :
               /\ \A j \in given : j <= k
               /\ a.host = requests[k].to

\* Whatever is accepted for a core is executed, unless the emulator dies or
\* the core's process has aborted.
EverythingExecuted ==
  \A n \in Cores :
    Pending[n] # <<>> ~>
      Pending[n] = <<>> \/ pc = "dead" \/ app[n].state = "aborted"
=============================================================================
