------------------------- MODULE HostCommandsProofs -------------------------
(***************************************************************************)
(* Proofs about HostCommands, for boards, sockets and scripts of any size: *)
(* every variable keeps its type, and the queues with the sockets behind   *)
(* them implement CommandService.                                          *)
(***************************************************************************)
EXTENDS HostCommands, GridArithmetic, SequenceTheorems, FiniteSetTheorems, TLAPS

LEMMA Board0 ==
  /\ N \in Nat \ {0}
  /\ 0 \in Cores
  /\ \A n \in Cores : n \in Nat /\ ChipOf(n) \in Chips
<1>1. NUM_CHIPS \in Nat \ {0} /\ NUM_CPUS \in Nat \ {0}
  BY HostAssumption
<1>2. 0 \in 0 .. NUM_CHIPS - 1 /\ 0 \in 0 .. NUM_CPUS - 1
  BY <1>1
<1>3. 0 * NUM_CPUS + 0 \in 0 .. NUM_CHIPS * NUM_CPUS - 1
  BY <1>1, <1>2, InGrid
<1>4. N \in Int
  BY <1>1 DEF N
<1>5. N \in Nat \ {0} /\ 0 \in Cores
  BY <1>3, <1>4 DEF N, Cores
<1>6. \A n \in Cores : ChipOf(n) \in Chips
  BY <1>1, QuotientInGrid DEF N, Cores, ChipOf, Chips
<1> QED
  BY <1>4, <1>5, <1>6 DEF Cores

LEMMA CoresFinite == IsFiniteSet(Cores)
<1>1. N - 1 \in Int
  BY Board0
<1> QED
  BY <1>1, FS_Interval DEF Cores

LEMMA RequestFields ==
  ASSUME NEW r \in Requests
  PROVE  /\ r.cmd \in Nat /\ r.op \in Nat /\ r.arg \in Nat /\ r.to \in Nat
         /\ r.core \in Cores /\ r.mask \subseteq Cpus
         /\ r.tag \in 0 .. TAG_NONE /\ r.host \in Nat \ {0}
  BY HostAssumption

\* The request that is being received.
LEMMA RequestType ==
  ASSUME HostTypeOK, Receiving
  PROVE  /\ Request \in Requests
         /\ Seq1 \in Nat /\ Seq1 \in 1 .. Len(requests)
         /\ received' = received + 1 => received' \in 0 .. Len(requests)
<1>1. requests \in Seq(Requests) /\ received \in Nat /\ received < Len(requests)
  BY DEF HostTypeOK, Receiving
<1>2. received + 1 \in 1 .. Len(requests)
  BY <1>1
<1> QED
  BY <1>1, <1>2, ElementOfSeq DEF Request, Seq1

\* The part of the type invariant that a step of one kind leaves alone.
HostTyped ==
  /\ requests \in Seq(Requests)
  /\ received \in 0 .. Len(requests)
  /\ answers \subseteq Datagrams
  /\ sendersip \in Nat /\ senderseq \in Nat

TableTyped ==
  /\ booted \in Nat \cup {-1}
  /\ floodfill \in Nat
  /\ iptags \in [Tags -> [to : Nat, flags : {0}]]
  /\ tag_tto \in Nat
  /\ spin_emu_running \in [Cores -> BOOLEAN]
  /\ spin_emu_running_count \in Int

QueueTyped ==
  /\ sdp_queue \in [Cores -> Seq(Commands)]
  /\ toCore \in [Cores -> Seq(Commands)]
  /\ fromCore \in [Cores -> Seq(Ethernet \cup Messages \cup Finished)]

CoreTyped ==
  /\ ram \in [Chips -> SUBSET Nat]
  /\ app \in [Cores -> Programs]
  /\ last \in [Cores -> Seq(Commands)]
  /\ messages \in Nat

PlaceTyped == pc \in {"ether", "poll", "flush", "dead"} /\ at \in Cores

LEMMA TypeParts ==
  HostTypeOK <=>
    HostTyped /\ TableTyped /\ QueueTyped /\ CoreTyped /\ PlaceTyped
  BY DEF HostTypeOK, HostTyped, TableTyped, QueueTyped, CoreTyped, PlaceTyped

LEMMA PartsType ==
  HostTyped' /\ TableTyped' /\ QueueTyped' /\ CoreTyped' /\ PlaceTyped'
    => HostTypeOK'
  BY DEF HostTypeOK, HostTyped, TableTyped, QueueTyped, CoreTyped, PlaceTyped

LEMMA InitType == Init => HostTypeOK
<1> SUFFICES ASSUME Init PROVE HostTypeOK
  OBVIOUS
<1> USE DEF Init
<1>1. HostTyped
  BY DEF HostTyped
<1>2. TableTyped
  BY DEF TableTyped, iptag_init, tubotron
<1>3. QueueTyped
  BY DEF QueueTyped
<1>4. CoreTyped
  BY HostAssumption DEF CoreTyped, Monitor, Programs
<1>5. PlaceTyped
  BY Board0 DEF PlaceTyped
<1> QED
  BY <1>1, <1>2, <1>3, <1>4, <1>5, TypeParts

-----------------------------------------------------------------------------
(* What the parts of the actions do to the types.                          *)

LEMMA DatagramType ==
  ASSUME NEW kind \in {"ok", "reply", "print"}, NEW host \in Nat, NEW seq \in Nat,
         NEW of \in Nat, NEW tag \in 0 .. TAG_NONE, NEW seen \in SUBSET Nat,
         NEW value \in Nat, NEW asOf \in Nat
  PROVE  Datagram(kind, host, seq, of, tag, seen, value, asOf) \in Datagrams
  BY DEF Datagram, Datagrams

LEMMA ReceiveType ==
  ASSUME HostTypeOK, Receiving, NEW more \in SUBSET Datagrams, Receive(more)
  PROVE  HostTyped' /\ (Sender[1] \in Nat /\ Sender[2] \in Nat)
<1>1. /\ Request \in Requests /\ Seq1 \in Nat
      /\ received' \in 0 .. Len(requests)
  BY RequestType DEF Receive
<1>2. Request.host \in Nat
  BY <1>1, RequestFields
<1>3. Acknowledged \subseteq Datagrams
  <2>1. TAG_NONE \in 0 .. TAG_NONE /\ {} \in SUBSET Nat
    BY DEF TAG_NONE
  <2>2. Datagram("ok", Request.host, Seq1, Seq1, TAG_NONE, {}, 0, Seq1)
          \in Datagrams
    BY <1>1, <1>2, <2>1, DatagramType
  <2> QED
    BY <2>2 DEF Acknowledged
<1>4. Sender[1] \in Nat /\ Sender[2] \in Nat
  BY <1>1, <1>2 DEF Sender, slot, HostTypeOK
<1> QED
  BY <1>1, <1>3, <1>4 DEF Receive, HostTyped, HostTypeOK

LEMMA QueueType ==
  ASSUME HostTypeOK, NEW D, NEW m \in Commands, Queue(D, m)
  PROVE  sdp_queue' \in [Cores -> Seq(Commands)]
  BY DEF HostTypeOK, Queue

LEMMA CommandType ==
  ASSUME HostTypeOK, Receiving, NEW kind \in Kinds, NEW arg \in Nat
  PROVE  Command(kind, arg) \in Commands
<1>1. Seq1 \in Nat /\ Request.tag \in 0 .. TAG_NONE
  BY RequestType, RequestFields
<1> QED
  BY <1>1 DEF Command, Commands

LEMMA ToEtherType ==
  ASSUME NEW table \in [Tags -> [to : Nat, flags : {0}]],
         NEW s, s[1] \in Nat, s[2] \in Nat,
         NEW m, m.of \in Nat, m.tag \in 0 .. TAG_NONE, m.seen \in SUBSET Nat,
         NEW value \in Nat, NEW asOf \in Nat
  PROVE  ToEther(table, s, m, value, asOf) \in Datagrams
<1> DEFINE tagged == m.tag \in Tags
<1>1. (IF tagged THEN table[m.tag].to ELSE s[1]) \in Nat
  OBVIOUS
<1>2. (IF tagged THEN m.of ELSE s[2]) \in Nat
  OBVIOUS
<1>3. (IF m.of = 0 THEN "print" ELSE "reply") \in {"ok", "reply", "print"}
  OBVIOUS
<1> QED
  BY <1>1, <1>2, <1>3, DatagramType DEF ToEther

LEMMA SetRunningType ==
  ASSUME HostTypeOK, NEW D \in SUBSET Cores, SetRunning(D)
  PROVE  /\ spin_emu_running' \in [Cores -> BOOLEAN]
         /\ spin_emu_running_count' \in Int
<1>1. IsFiniteSet(D)
  BY CoresFinite, FS_Subset
<1>2. Cardinality(D) \in Nat
  BY <1>1, FS_CardinalityType
<1> QED
  BY <1>2 DEF SetRunning, HostTypeOK

-----------------------------------------------------------------------------
(* Every step keeps the types.                                             *)

\* Actions that take a request and leave the board as it is.
LEMMA ReceivingType ==
  ASSUME HostTypeOK, Receiving, NEW more \in SUBSET Datagrams,
         Receive(more), KeepBoard,
         sdp_queue' \in [Cores -> Seq(Commands)], TableTyped'
  PROVE  HostTypeOK'
<1>1. HostTyped'
  BY ReceiveType
<1>2. UNCHANGED <<ram, app, last, messages, at, toCore, fromCore, pc>>
  BY DEF Receive, KeepBoard, coreVars
<1>3. QueueTyped' /\ CoreTyped' /\ PlaceTyped'
  BY <1>2, TypeParts DEF QueueTyped, CoreTyped, PlaceTyped
<1> QED
  BY <1>1, <1>3, PartsType

LEMMA QueueingType ==
  ASSUME HostTypeOK, KeepBoard,
         QueueCommand \/ dispatch_as \/ FloodStart \/ IgnoreNnp
           \/ cmd_floodfill \/ flood_as \/ IgnoreP2pc
  PROVE  HostTypeOK'
<1> USE DEF tags, running
<1>0. /\ Receiving /\ Receive({}) /\ {} \in SUBSET Datagrams
      /\ TableTyped /\ UNCHANGED booted
  BY TypeParts DEF QueueCommand, dispatch_as, FloodStart, IgnoreNnp,
     cmd_floodfill, flood_as, IgnoreP2pc, KeepBoard
<1>1. Request.arg \in Nat /\ Request.mask \subseteq Cpus
  BY <1>0, RequestType, RequestFields
<1>2. SUFFICES TableTyped' /\ sdp_queue' \in [Cores -> Seq(Commands)]
  BY <1>0, ReceivingType
<1>3. CASE QueueCommand
  <2>1. Command(KindOf(Request.cmd), Request.arg) \in Commands
    BY <1>0, <1>1, CommandType DEF KindOf, Kinds
  <2> QED
    BY <1>0, <1>3, <2>1, QueueType DEF QueueCommand, TableTyped
<1>4. CASE dispatch_as
  <2> DEFINE D == Masked({ChipOf(Request.core)}, Request.mask)
  <2>1. Command("AS", Request.arg) \in Commands
    BY <1>0, <1>1, CommandType DEF Kinds
  <2>2. D \in SUBSET Cores
    BY DEF Masked, Board
  <2>3. Queue(D, Command("AS", Request.arg)) /\ SetRunning(D)
    BY <1>4 DEF dispatch_as
  <2> HIDE DEF D
  <2>4. sdp_queue' \in [Cores -> Seq(Commands)]
    BY <2>1, <2>3, QueueType
  <2>5. /\ spin_emu_running' \in [Cores -> BOOLEAN]
        /\ spin_emu_running_count' \in Int
    BY <2>2, <2>3, SetRunningType
  <2> QED
    BY <1>0, <1>4, <2>4, <2>5 DEF dispatch_as, TableTyped
<1>5. CASE FloodStart
  BY <1>0, <1>1, <1>5 DEF FloodStart, TableTyped, HostTypeOK
<1>6. CASE IgnoreNnp \/ IgnoreP2pc
  BY <1>0, <1>6 DEF IgnoreNnp, IgnoreP2pc, TableTyped, HostTypeOK
<1>7. CASE cmd_floodfill
  <2>1. Command("WRITE", Request.arg) \in Commands
    BY <1>0, <1>1, CommandType DEF Kinds
  <2> QED
    BY <1>0, <1>7, <2>1, QueueType DEF cmd_floodfill, TableTyped
<1>8. CASE flood_as
  <2> DEFINE D == Masked(Chips, Request.mask)
  <2>1. Command("AS", floodfill) \in Commands
    BY <1>0, CommandType DEF Kinds, TableTyped
  <2>2. D \in SUBSET Cores
    BY DEF Masked, Board
  <2>3. Queue(D, Command("AS", floodfill)) /\ SetRunning(D)
    BY <1>8 DEF flood_as
  <2> HIDE DEF D
  <2>4. sdp_queue' \in [Cores -> Seq(Commands)]
    BY <2>1, <2>3, QueueType
  <2>5. /\ spin_emu_running' \in [Cores -> BOOLEAN]
        /\ spin_emu_running_count' \in Int
    BY <2>2, <2>3, SetRunningType
  <2> QED
    BY <1>0, <1>8, <2>4, <2>5 DEF flood_as, TableTyped
<1> QED
  BY <1>3, <1>4, <1>5, <1>6, <1>7, <1>8

LEMMA BootType ==
  ASSUME HostTypeOK, cmd_p2pc \/ NoBoard
  PROVE  HostTypeOK'
<1>1. /\ Receiving /\ Receive({}) /\ {} \in SUBSET Datagrams
      /\ UNCHANGED <<floodfill, iptags, tag_tto, running>>
      /\ booted' \in {booted, Seq1}
  BY DEF cmd_p2pc, NoBoard, tags
<1>2. HostTyped' /\ Seq1 \in Nat
  BY <1>1, ReceiveType, RequestType
<1>3. TableTyped'
  BY <1>1, <1>2 DEF TableTyped, HostTypeOK, running
<1>4. CoreTyped' /\ at' = at
  BY <1>1, TypeParts DEF Receive, CoreTyped, coreVars
<1>5. QueueTyped' /\ pc' \in {pc, "dead"}
  <2>1. CASE cmd_p2pc
    BY <2>1 DEF cmd_p2pc, QueueTyped
  <2>2. CASE NoBoard
    BY <2>2 DEF NoBoard, QueueTyped, HostTypeOK
  <2> QED
    BY <2>1, <2>2
<1>6. PlaceTyped'
  BY <1>4, <1>5, TypeParts DEF PlaceTyped
<1> QED
  BY <1>2, <1>3, <1>4, <1>5, <1>6, PartsType

\* Since nothing sets flags, the first tag of the pool is always free.
LEMMA FirstTag ==
  ASSUME HostTypeOK
  PROVE  iptag_new = 4
<1>0. PoolTags \subseteq Tags
  BY DEF PoolTags, Tags, TAG_TABLE_SIZE
<1>1. {t \in PoolTags : iptags[t].flags = 0} = PoolTags
  <2>1. \A t \in PoolTags : iptags[t].flags = 0
    BY <1>0 DEF HostTypeOK
  <2> QED
    BY <2>1
<1>2. 4 \in PoolTags /\ \A u \in PoolTags : 4 <= u
  BY DEF PoolTags
<1>3. \A t \in PoolTags : (\A u \in PoolTags : t <= u) => t = 4
  BY <1>2 DEF PoolTags
<1> QED
  BY <1>1, <1>2, <1>3 DEF iptag_new

LEMMA IptagType ==
  ASSUME HostTypeOK, cmd_iptag
  PROVE  HostTypeOK'
<1> DEFINE T == [Tags -> [to : Nat, flags : {0}]]
<1>0. iptags \in T /\ tag_tto \in Nat
  BY DEF HostTypeOK
<1>1. ASSUME NEW value \in Nat, NEW table \in T, AnswerTag(value, table),
             tag_tto' \in Nat
      PROVE  HostTypeOK'
  <2> DEFINE m == [of |-> Seq1, tag |-> Request.tag, seen |-> {}]
  <2>1. /\ Receiving /\ KeepBoard
        /\ Receive({ToEther(table, Sender, m, value, Seq1)})
        /\ iptags' = table /\ UNCHANGED <<sdp_queue, floodfill, running>>
    BY <1>1 DEF AnswerTag
  <2>2. Seq1 \in Nat /\ Request.tag \in 0 .. TAG_NONE
        /\ Request.host \in Nat
    BY <2>1, RequestType, RequestFields
  <2>3. Sender[1] \in Nat /\ Sender[2] \in Nat
    BY <2>2 DEF Sender, slot, HostTypeOK
  <2>4. m.of \in Nat /\ m.tag \in 0 .. TAG_NONE /\ m.seen \in SUBSET Nat
    BY <2>2
  <2>5. ToEther(table, Sender, m, value, Seq1) \in Datagrams
    <3> HIDE DEF m
    <3> QED
      BY <2>2, <2>3, <2>4, ToEtherType
  <2>6. {ToEther(table, Sender, m, value, Seq1)} \in SUBSET Datagrams
    BY <2>5
  <2>7. TableTyped' /\ sdp_queue' \in [Cores -> Seq(Commands)]
    BY <1>1, <2>1 DEF TableTyped, HostTypeOK, KeepBoard, running
  <2> HIDE DEF m, T
  <2> QED
    BY <2>1, <2>6, <2>7, ReceivingType
<1>2. ASSUME Receiving
      PROVE  Request.to \in Nat /\ Request.arg \in Nat
  BY <1>2, RequestType, RequestFields
<1>3. CASE IptagSet
  <2> DEFINE t == IF Request.op = IPTAG_NEW THEN iptag_new ELSE Request.arg
  <2>1. iptag_new \in Nat
    BY FirstTag
  <2>2. t \in Nat
    BY <1>2, <1>3, <2>1 DEF IptagSet
  <2>3. Request.to \in Nat
    BY <1>2, <1>3 DEF IptagSet
  <2>4. Stored(t, Request.to) \in T
    BY <1>0, <2>3 DEF Stored
  <2>5. AnswerTag(t, Stored(t, Request.to)) /\ UNCHANGED tag_tto
    BY <1>3 DEF IptagSet
  <2> HIDE DEF t, T
  <2> QED
    BY <1>0, <1>1, <2>2, <2>4, <2>5
<1>4. CASE IptagGet
  <2> DEFINE v == IF GetSize = 0 THEN 0 ELSE iptags[Request.arg].to
  <2>1. v \in Nat
    BY <1>0, <1>4 DEF IptagGet, GoodTag
  <2>2. AnswerTag(v, iptags) /\ UNCHANGED tag_tto
    BY <1>4 DEF IptagGet
  <2> HIDE DEF v
  <2> QED
    BY <1>0, <1>1, <2>1, <2>2
<1>5. CASE IptagTto
  <2>1. tag_tto' \in Nat
    BY <1>0, <1>2, <1>5 DEF IptagTto
  <2> QED
    BY <1>0, <1>1, <1>5, <2>1 DEF IptagTto
<1>6. CASE IptagClr
  <2>1. [iptags EXCEPT ![Request.arg].flags = 0] \in T
    BY <1>0
  <2>2. AnswerTag(0, [iptags EXCEPT ![Request.arg].flags = 0])
        /\ UNCHANGED tag_tto
    BY <1>6 DEF IptagClr
  <2> QED
    BY <1>0, <1>1, <2>1, <2>2
<1>7. CASE IptagRefused
  BY <1>0, <1>1, <1>7 DEF IptagRefused
<1> QED
  BY <1>3, <1>4, <1>5, <1>6, <1>7 DEF cmd_iptag

LEMMA PollType ==
  ASSUME HostTypeOK,
         dispatch_sdp_to_ether \/ dispatch_sdp_one \/ CoreFinished
  PROVE  HostTypeOK'
<1> DEFINE M == Ethernet \cup Messages \cup Finished
<1>0. PICK kind \in {"ether", "sdp", "FINISHED"} : TakePolled(kind)
  BY DEF dispatch_sdp_to_ether, dispatch_sdp_one, CoreFinished
<1>1. /\ Polled \in Seq(M) /\ Polled # <<>>
      /\ fromCore' = [fromCore EXCEPT ![at] = Tail(@)]
      /\ UNCHANGED <<booted, requests, received, sendersip, senderseq,
           floodfill, iptags, tag_tto, toCore, ram, app, last, messages, pc, at>>
  BY <1>0 DEF TakePolled, Polled, HostTypeOK, slot, tags, coreVars, place
<1>2. Head(Polled) \in M /\ Tail(Polled) \in Seq(M)
  BY <1>1, HeadTailProperties
<1>3. fromCore' \in [Cores -> Seq(M)]
  BY <1>1, <1>2 DEF Polled, HostTypeOK
<1>4. answers' \subseteq Datagrams
  <2>1. CASE dispatch_sdp_to_ether
    <3>1. Head(Polled) \in Ethernet
      BY <2>1, <1>2 DEF dispatch_sdp_to_ether, TakePolled, Ethernet, Messages,
         Finished
    <3>2. slot[1] \in Nat /\ slot[2] \in Nat /\ received \in Nat
      BY DEF HostTypeOK, slot
    <3>3. ToEther(iptags, slot, Head(Polled), 0, received) \in Datagrams
      BY <3>1, <3>2, ToEtherType DEF HostTypeOK, Ethernet
    <3> QED
      BY <2>1, <3>3 DEF dispatch_sdp_to_ether, HostTypeOK
  <2>2. CASE dispatch_sdp_one \/ CoreFinished
    BY <2>2 DEF dispatch_sdp_one, CoreFinished, HostTypeOK
  <2> QED
    BY <2>1, <2>2
<1>5. sdp_queue' \in [Cores -> Seq(Commands)]
  <2>1. CASE dispatch_sdp_one
    <3>1. [kind |-> "event", of |-> 0, arg |-> 0, tag |-> TAG_NONE] \in Commands
      BY DEF Commands, Kinds, TAG_NONE
    <3> QED
      BY <2>1, <3>1, QueueType DEF dispatch_sdp_one
  <2>2. CASE dispatch_sdp_to_ether \/ CoreFinished
    BY <2>2 DEF dispatch_sdp_to_ether, CoreFinished, HostTypeOK
  <2> QED
    BY <2>1, <2>2
<1>6. /\ spin_emu_running' \in [Cores -> BOOLEAN]
      /\ spin_emu_running_count' \in Int
  <2>1. CASE CoreFinished
    BY <2>1 DEF CoreFinished, HostTypeOK
  <2>2. CASE dispatch_sdp_one \/ dispatch_sdp_to_ether
    BY <2>2 DEF dispatch_sdp_to_ether, dispatch_sdp_one, HostTypeOK, running
  <2> QED
    BY <2>1, <2>2
<1> QED
  BY <1>1, <1>3, <1>4, <1>5, <1>6 DEF HostTypeOK

LEMMA WalkType ==
  ASSUME HostTypeOK, EtherEmpty \/ PollNext \/ FlushNext \/ Die
  PROVE  HostTypeOK'
<1>1. UNCHANGED <<booted, hostVars, slot, sdp_queue, floodfill, tags, running,
                  toCore, fromCore, coreVars, messages>>
  BY DEF EtherEmpty, PollNext, FlushNext, Die, Step
<1>2. pc' \in {"ether", "poll", "flush", "dead"}
  BY DEF EtherEmpty, PollNext, FlushNext, Die, Step, HostTypeOK
<1>3. at' \in {at, at + 1, 0} /\ (at' = at + 1 => at < N - 1)
  <2>1. CASE EtherEmpty \/ Die
    <3>1. at' \in {at, 0}
      BY <2>1 DEF EtherEmpty, Die
    <3>2. at \in Nat
      BY Board0 DEF HostTypeOK
    <3> QED
      BY <3>1, <3>2
  <2>2. CASE PollNext \/ FlushNext
    <3>1. IF at < N - 1 THEN at' = at + 1 ELSE at' = 0
      BY <2>2 DEF PollNext, FlushNext, Step, MoreCores
    <3>2. at \in Nat
      BY Board0 DEF HostTypeOK
    <3> QED
      BY <3>1, <3>2
  <2> QED
    BY <2>1, <2>2
<1>4. at' \in Cores
  <2>1. at \in Cores
    BY DEF HostTypeOK
  <2> QED
    BY <1>3, <2>1, Board0 DEF Cores
<1> QED
  BY <1>1, <1>2, <1>4
     DEF HostTypeOK, hostVars, slot, tags, running, coreVars

LEMMA FlushType ==
  ASSUME HostTypeOK, Flush
  PROVE  HostTypeOK'
<1>1. /\ sdp_queue[at] # <<>> /\ sdp_queue[at] \in Seq(Commands)
      /\ at \in Cores
      /\ toCore' = [toCore EXCEPT ![at] = Append(@, Head(sdp_queue[at]))]
      /\ sdp_queue' = [sdp_queue EXCEPT ![at] = Tail(@)]
      /\ toCore[at] \in Seq(Commands)
  BY DEF Flush, HostTypeOK
<1>2. Head(sdp_queue[at]) \in Commands /\ Tail(sdp_queue[at]) \in Seq(Commands)
  BY <1>1, HeadTailProperties
<1>3. Append(toCore[at], Head(sdp_queue[at])) \in Seq(Commands)
  BY <1>1, <1>2, AppendProperties
<1>4. QueueTyped'
  BY <1>1, <1>2, <1>3 DEF Flush, QueueTyped, HostTypeOK
<1>5. HostTyped' /\ TableTyped' /\ CoreTyped' /\ PlaceTyped'
  BY TypeParts DEF Flush, HostTyped, TableTyped, CoreTyped, PlaceTyped,
     hostVars, slot, tags, running, coreVars, place
<1> QED
  BY <1>4, <1>5, PartsType

\* A core takes a command from its socket.
LEMMA TakeIncomingType ==
  ASSUME HostTypeOK, NEW n \in Cores, NEW kinds, TakeIncoming(n, kinds)
  PROVE  /\ Incoming(n) \in Commands
         /\ toCore[n] # <<>> /\ toCore[n] \in Seq(Commands)
         /\ toCore' \in [Cores -> Seq(Commands)]
         /\ last' \in [Cores -> Seq(Commands)]
         /\ HostTyped' /\ TableTyped' /\ PlaceTyped'
         /\ UNCHANGED <<sdp_queue, messages>>
<1>1. /\ toCore[n] # <<>> /\ toCore[n] \in Seq(Commands)
      /\ toCore' = [toCore EXCEPT ![n] = Tail(@)]
      /\ last' = [last EXCEPT ![n] = <<Incoming(n)>>]
  BY DEF TakeIncoming, HostTypeOK
<1>2. Incoming(n) \in Commands /\ Tail(toCore[n]) \in Seq(Commands)
  BY <1>1, HeadTailProperties DEF Incoming
<1>3. toCore' \in [Cores -> Seq(Commands)] /\ last' \in [Cores -> Seq(Commands)]
  BY <1>1, <1>2 DEF HostTypeOK
<1>4. HostTyped' /\ TableTyped' /\ PlaceTyped' /\ UNCHANGED <<sdp_queue, messages>>
  BY TypeParts DEF TakeIncoming, HostTyped, TableTyped, PlaceTyped,
     hostVars, slot, tags, running, place
<1> QED
  BY <1>1, <1>2, <1>3, <1>4

LEMMA SendAsType ==
  ASSUME HostTypeOK, NEW n \in Cores, NEW m \in Ethernet, SendAs(n, m)
  PROVE  /\ fromCore' \in [Cores -> Seq(Ethernet \cup Messages \cup Finished)]
         /\ app' \in [Cores -> Programs]
<1> DEFINE M == Ethernet \cup Messages \cup Finished
<1>1. fromCore[n] \in Seq(M) /\ m \in M /\ app[n] \in Programs
  BY DEF HostTypeOK
<1>2. Append(fromCore[n], m) \in Seq(M)
  BY <1>1, AppendProperties
<1>3. Sent(fromCore[n], m) \in Seq(M)
  BY <1>1, <1>2 DEF Sent
<1>4. [app[n] EXCEPT !.state = "aborted"] \in Programs
  BY <1>1 DEF Programs
<1>5. [app EXCEPT ![n].state = "aborted"] \in [Cores -> Programs]
  BY <1>4 DEF HostTypeOK
<1>6. CASE app[n].state = "monitor" \/ app[n].start \in Repaired
  BY <1>3, <1>6 DEF SendAs, HostTypeOK
<1>7. CASE ~(app[n].state = "monitor" \/ app[n].start \in Repaired)
  BY <1>5, <1>7 DEF SendAs, HostTypeOK
<1> QED
  BY <1>6, <1>7

LEMMA ReadPacketType ==
  ASSUME HostTypeOK, NEW n \in Cores, ReadPacket(n)
  PROVE  HostTypeOK'
<1>0. PICK kinds : TakeIncoming(n, kinds)
  BY DEF ReadPacket, cmd_write, cmd_read, cmd_as, ReceiveEvent
<1>1. /\ Incoming(n) \in Commands
      /\ toCore' \in [Cores -> Seq(Commands)] /\ last' \in [Cores -> Seq(Commands)]
      /\ HostTyped' /\ TableTyped' /\ PlaceTyped'
      /\ UNCHANGED <<sdp_queue, messages>>
  BY <1>0, TakeIncomingType
<1>2. Incoming(n).of \in Nat /\ Incoming(n).arg \in Nat
      /\ Incoming(n).tag \in 0 .. TAG_NONE
  BY <1>1 DEF Commands
<1>3. ChipOf(n) \in Chips /\ ram[ChipOf(n)] \in SUBSET Nat
  BY Board0 DEF HostTypeOK
<1>4. SUFFICES /\ fromCore' \in [Cores -> Seq(Ethernet \cup Messages \cup Finished)]
               /\ app' \in [Cores -> Programs]
               /\ ram' \in [Chips -> SUBSET Nat]
  BY <1>1, PartsType DEF QueueTyped, CoreTyped, HostTypeOK
<1>5. CASE cmd_write(n)
  BY <1>2, <1>3, <1>5 DEF cmd_write, HostTypeOK
<1>6. CASE cmd_read(n)
  <2> DEFINE seen == IF Incoming(n).kind = "READ" THEN ram[ChipOf(n)] ELSE {}
  <2>1. seen \in SUBSET Nat
    BY <1>3
  <2>2. ToHost(Incoming(n).of, Incoming(n).tag, seen) \in Ethernet
    BY <1>2, <2>1 DEF ToHost, Ethernet
  <2>3. SendAs(n, ToHost(Incoming(n).of, Incoming(n).tag, seen)) /\ ram' = ram
    BY <1>6 DEF cmd_read
  <2> HIDE DEF seen
  <2> QED
    BY <2>2, <2>3, SendAsType DEF HostTypeOK
<1>7. CASE cmd_as(n)
  <2>1. [by |-> Incoming(n).of, start |-> Incoming(n).arg,
         over |-> ram[ChipOf(n)], state |-> "running"] \in Programs
    BY <1>2, <1>3 DEF Programs
  <2> QED
    BY <1>7, <2>1 DEF cmd_as, HostTypeOK
<1>8. CASE ReceiveEvent(n)
  BY <1>8 DEF ReceiveEvent, HostTypeOK
<1> QED
  BY <1>5, <1>6, <1>7, <1>8 DEF ReadPacket

LEMMA ApplicationType ==
  ASSUME HostTypeOK, NEW n \in Cores,
         \/ spin1_stop(n)
         \/ \E d \in Cores : spin1_send_sdp_msg(n, d)
         \/ io_printf(n)
  PROVE  HostTypeOK'
<1> DEFINE M == Ethernet \cup Messages \cup Finished
<1>1. HostTyped' /\ TableTyped' /\ PlaceTyped'
      /\ UNCHANGED <<sdp_queue, toCore, ram, last>>
  BY TypeParts DEF spin1_stop, spin1_send_sdp_msg, io_printf, AppSends,
     HostTyped, TableTyped, PlaceTyped, hostVars, slot, tags, running, place
<1>2. messages' \in Nat
  <2>1. AppSends(n)
    BY DEF spin1_stop, spin1_send_sdp_msg, io_printf
  <2> QED
    BY <2>1 DEF HostTypeOK, AppSends
<1>3. fromCore' \in [Cores -> Seq(M)] /\ app' \in [Cores -> Programs]
  <2>0. fromCore[n] \in Seq(M) /\ app[n] \in Programs
    BY DEF HostTypeOK
  <2>1. CASE spin1_stop(n)
    <3>1. [kind |-> "FINISHED"] \in M
      BY DEF Finished
    <3>2. Append(fromCore[n], [kind |-> "FINISHED"]) \in Seq(M)
      BY <2>0, <3>1, AppendProperties
    <3> QED
      BY <2>1, <3>2 DEF spin1_stop, HostTypeOK
  <2>2. CASE \E d \in Cores : spin1_send_sdp_msg(n, d)
    <3>1. PICK d \in Cores : spin1_send_sdp_msg(n, d)
      BY <2>2
    <3>2. [kind |-> "sdp", core |-> d] \in M
      BY DEF Messages
    <3>3. Append(fromCore[n], [kind |-> "sdp", core |-> d]) \in Seq(M)
      BY <2>0, <3>2, AppendProperties
    <3>4. Sent(fromCore[n], [kind |-> "sdp", core |-> d]) \in Seq(M)
      BY <2>0, <3>3 DEF Sent
    <3> QED
      BY <3>1, <3>4 DEF spin1_send_sdp_msg, HostTypeOK
  <2>3. CASE io_printf(n)
    <3>1. ToHost(0, 0, {}) \in Ethernet
      BY DEF ToHost, Ethernet, TAG_NONE
    <3> QED
      BY <2>3, <3>1, SendAsType DEF io_printf
  <2> QED
    BY <2>1, <2>2, <2>3
<1>4. QueueTyped' /\ CoreTyped'
  BY <1>1, <1>2, <1>3 DEF QueueTyped, CoreTyped, HostTypeOK
<1> QED
  BY <1>1, <1>4, PartsType

LEMMA HostSendType ==
  ASSUME HostTypeOK, NEW r \in Requests, HostSend(r)
  PROVE  HostTypeOK'
<1>1. requests' \in Seq(Requests) /\ Len(requests') = Len(requests) + 1
  BY AppendProperties DEF HostSend, HostTypeOK
<1>2. HostTyped'
  BY <1>1 DEF HostSend, HostTyped, HostTypeOK, slot
<1>3. TableTyped' /\ QueueTyped' /\ CoreTyped' /\ PlaceTyped'
  BY TypeParts DEF HostSend, TableTyped, QueueTyped, CoreTyped, PlaceTyped,
     tags, running, coreVars, place
<1> QED
  BY <1>2, <1>3, PartsType

LEMMA StepType == HostTypeOK /\ [Next]_vars => HostTypeOK'
<1> SUFFICES ASSUME HostTypeOK, [Next]_vars
             PROVE  HostTypeOK'
  OBVIOUS
<1>1. ASSUME NEW r \in Requests, HostSend(r)
      PROVE  HostTypeOK'
  BY <1>1, HostSendType
<1>2. CASE Dispatcher
  <2>1. CASE \/ QueueCommand \/ dispatch_as \/ FloodStart \/ IgnoreNnp
             \/ cmd_floodfill \/ flood_as \/ IgnoreP2pc
    <3>1. KeepBoard
      BY <2>1 DEF QueueCommand, dispatch_as, FloodStart, IgnoreNnp,
         cmd_floodfill, flood_as, IgnoreP2pc
    <3> QED
      BY <2>1, <3>1, QueueingType
  <2>2. CASE cmd_p2pc \/ NoBoard
    BY <2>2, BootType
  <2>3. CASE cmd_iptag
    BY <2>3, IptagType
  <2>4. CASE dispatch_sdp_to_ether \/ dispatch_sdp_one \/ CoreFinished
    BY <2>4, PollType
  <2>5. CASE EtherEmpty \/ PollNext \/ FlushNext \/ Die
    BY <2>5, WalkType
  <2>6. CASE Flush
    BY <2>6, FlushType
  <2> QED
    BY <1>2, <2>1, <2>2, <2>3, <2>4, <2>5, <2>6 DEF Dispatcher
<1>3. ASSUME NEW n \in Cores,
             \/ ReadPacket(n) \/ spin1_stop(n)
             \/ \E d \in Cores : spin1_send_sdp_msg(n, d)
             \/ io_printf(n)
      PROVE  HostTypeOK'
  BY <1>3, ReadPacketType, ApplicationType
<1>4. CASE UNCHANGED vars
  <2>1. HostTyped' /\ TableTyped' /\ QueueTyped' /\ CoreTyped' /\ PlaceTyped'
    BY <1>4, TypeParts DEF vars, HostTyped, TableTyped, QueueTyped, CoreTyped,
       PlaceTyped, hostVars, slot, tags, running, coreVars, place
  <2> QED
    BY <2>1, PartsType
<1> QED
  BY <1>1, <1>2, <1>3, <1>4 DEF Next

\* The variables of the dispatcher and of the cores keep their types, on a
\* board of any size and whatever the hosts send: the queues hold commands,
\* the walks of the loop stay on the board and no tag is ever marked as used.
THEOREM HostTypeCorrect == Spec => []HostTypeOK
<1>1. Init => HostTypeOK
  BY InitType
<1>2. HostTypeOK /\ [Next]_vars => HostTypeOK'
  BY StepType
<1> QED
  BY <1>1, <1>2, PTL DEF Spec

-----------------------------------------------------------------------------
(* The dispatcher and the cores implement CommandService: on a board of    *)
(* any size, with sockets of any size and whatever the hosts send, a core  *)
(* executes what is accepted for it once, in the order of acceptance.      *)
(*                                                                         *)
(* A queue and the socket behind it make one sequence, Pending.  A flush   *)
(* moves its middle and is a stutter.  A P2PC command makes new queues and *)
(* sockets, and is a stutter because nothing gets into the old ones: until *)
(* the board is set up, the dispatcher reads the ethernet socket only.     *)

-----------------------------------------------------------------------------
(* Sequences in two parts.                                                 *)

LEMMA AppendToSecond ==
  ASSUME NEW S, NEW s \in Seq(S), NEW t \in Seq(S), NEW e \in S
  PROVE  s \o Append(t, e) = Append(s \o t, e)
<1>1. /\ s \o t \in Seq(S) /\ <<e>> \in Seq(S)
  BY ConcatProperties
<1>2. Append(t, e) = t \o <<e>> /\ Append(s \o t, e) = (s \o t) \o <<e>>
  BY <1>1, AppendIsConcat
<1> QED
  BY <1>1, <1>2, ConcatAssociative

LEMMA ConsHeadTail ==
  ASSUME NEW S, NEW t \in Seq(S), t # <<>>
  PROVE  t = <<Head(t)>> \o Tail(t) /\ <<Head(t)>> \in Seq(S)
<1>1. /\ Head(t) \in S /\ Tail(t) \in Seq(S) /\ Len(Tail(t)) = Len(t) - 1
      /\ \A i \in 1 .. Len(Tail(t)) : Tail(t)[i] = t[i + 1]
      /\ Len(t) \in Nat \ {0}
  BY HeadTailProperties, EmptySeq
<1>2. /\ <<Head(t)>> \in Seq(S) /\ Len(<<Head(t)>>) = 1
      /\ <<Head(t)>>[1] = Head(t) /\ Head(t) = t[1]
  BY <1>1
<1>3. /\ <<Head(t)>> \o Tail(t) \in Seq(S)
      /\ Len(<<Head(t)>> \o Tail(t)) = Len(t)
  BY <1>1, <1>2, ConcatProperties
<1>4. ASSUME NEW i \in 1 .. Len(t)
      PROVE  (<<Head(t)>> \o Tail(t))[i] = t[i]
  <2>1. (<<Head(t)>> \o Tail(t))[i] =
          IF i <= 1 THEN <<Head(t)>>[i] ELSE Tail(t)[i - 1]
    BY <1>1, <1>2, ConcatProperties
  <2>2. CASE i = 1
    BY <1>2, <2>1, <2>2
  <2>3. CASE i # 1
    <3>1. i - 1 \in 1 .. Len(Tail(t)) /\ (i - 1) + 1 = i /\ ~(i <= 1)
      BY <1>1, <2>3
    <3> QED
      BY <1>1, <2>1, <3>1
  <2> QED
    BY <2>2, <2>3
<1> QED
  BY <1>2, <1>3, <1>4, SeqEqual

LEMMA MoveHead ==
  ASSUME NEW S, NEW s \in Seq(S), NEW t \in Seq(S), t # <<>>
  PROVE  Append(s, Head(t)) \o Tail(t) = s \o t
<1>1. /\ t = <<Head(t)>> \o Tail(t) /\ <<Head(t)>> \in Seq(S)
      /\ Head(t) \in S /\ Tail(t) \in Seq(S)
  BY ConsHeadTail, HeadTailProperties
<1>2. Append(s, Head(t)) = s \o <<Head(t)>>
  BY <1>1, AppendIsConcat
<1>3. (s \o <<Head(t)>>) \o Tail(t) = s \o (<<Head(t)>> \o Tail(t))
  BY <1>1, ConcatAssociative
<1> QED
  BY <1>1, <1>2, <1>3

LEMMA HeadOfFirst ==
  ASSUME NEW S, NEW s \in Seq(S), NEW t \in Seq(S), s # <<>>
  PROVE  /\ s \o t # <<>>
         /\ Head(s \o t) = Head(s)
         /\ Tail(s \o t) = Tail(s) \o t
<1>1. /\ Len(s) \in Nat \ {0} /\ Len(t) \in Nat /\ Head(s) = s[1]
      /\ Tail(s) \in Seq(S) /\ Len(Tail(s)) = Len(s) - 1
      /\ \A i \in 1 .. Len(Tail(s)) : Tail(s)[i] = s[i + 1]
  BY HeadTailProperties, EmptySeq, LenProperties
<1>2. /\ s \o t \in Seq(S) /\ Len(s \o t) = Len(s) + Len(t)
      /\ \A i \in 1 .. Len(s) + Len(t) :
           (s \o t)[i] = IF i <= Len(s) THEN s[i] ELSE t[i - Len(s)]
  BY ConcatProperties
<1>3. s \o t # <<>>
  BY <1>1, <1>2, EmptySeq
<1>4. Head(s \o t) = Head(s)
  BY <1>1, <1>2
<1>5. /\ Tail(s \o t) \in Seq(S) /\ Len(Tail(s \o t)) = Len(s) + Len(t) - 1
      /\ \A i \in 1 .. Len(Tail(s \o t)) : Tail(s \o t)[i] = (s \o t)[i + 1]
  BY <1>2, <1>3, HeadTailProperties
<1>6. /\ Tail(s) \o t \in Seq(S) /\ Len(Tail(s) \o t) = Len(s) - 1 + Len(t)
      /\ \A i \in 1 .. Len(s) - 1 + Len(t) :
           (Tail(s) \o t)[i] = IF i <= Len(s) - 1 THEN Tail(s)[i]
                               ELSE t[i - (Len(s) - 1)]
  BY <1>1, ConcatProperties
<1>7. ASSUME NEW i \in 1 .. Len(s) + Len(t) - 1
      PROVE  Tail(s \o t)[i] = (Tail(s) \o t)[i]
  <2>1. /\ i + 1 \in 1 .. Len(s) + Len(t) /\ i \in 1 .. Len(s) - 1 + Len(t)
        /\ i \in 1 .. Len(Tail(s \o t))
    BY <1>1, <1>5
  <2>2. CASE i <= Len(s) - 1
    <3>1. i + 1 <= Len(s) /\ i \in 1 .. Len(Tail(s))
      BY <1>1, <2>1, <2>2
    <3> QED
      BY <1>1, <1>2, <1>5, <1>6, <2>1, <2>2, <3>1
  <2>3. CASE ~(i <= Len(s) - 1)
    <3>1. ~(i + 1 <= Len(s)) /\ i + 1 - Len(s) = i - (Len(s) - 1)
      BY <1>1, <2>1, <2>3
    <3> QED
      BY <1>2, <1>5, <1>6, <2>1, <2>3, <3>1
  <2> QED
    BY <2>2, <2>3
<1>8. Len(Tail(s) \o t) = Len(Tail(s \o t))
  BY <1>1, <1>5, <1>6
<1>9. \A i \in 1 .. Len(Tail(s \o t)) : Tail(s \o t)[i] = (Tail(s) \o t)[i]
  BY <1>5, <1>7
<1>10. Tail(s \o t) = Tail(s) \o t
  BY <1>5, <1>6, <1>8, <1>9, SeqEqual
<1> QED
  BY <1>3, <1>4, <1>10

-----------------------------------------------------------------------------
(* Until the board is set up nothing is queued.                            *)

Unbooted ==
  ~initialised =>
    /\ pc \in {"ether", "dead"}
    /\ \A n \in Cores : toCore[n] = <<>> /\ sdp_queue[n] = <<>>

LEMMA UnbootedInit == Init => Unbooted
  BY DEF Init, Unbooted

\* Every action but cmd_p2pc leaves booted as it is.
LEMMA BootedStays ==
  ASSUME [Next]_vars, ~cmd_p2pc
  PROVE  booted' = booted
<1>1. ASSUME NEW r \in Requests, HostSend(r) PROVE booted' = booted
  BY <1>1 DEF HostSend
<1>2. CASE Dispatcher
  BY <1>2 DEF Dispatcher, QueueCommand, NoBoard, dispatch_as, FloodStart,
     IgnoreNnp, cmd_floodfill, flood_as, IgnoreP2pc, cmd_iptag, IptagSet,
     IptagGet, IptagTto, IptagClr, IptagRefused, AnswerTag, EtherEmpty,
     dispatch_sdp_to_ether, dispatch_sdp_one, CoreFinished, TakePolled,
     PollNext, Flush, Die, FlushNext, Step, KeepBoard
<1>3. ASSUME NEW n \in Cores,
             \/ ReadPacket(n) \/ spin1_stop(n)
             \/ \E d \in Cores : spin1_send_sdp_msg(n, d)
             \/ io_printf(n)
      PROVE  booted' = booted
  BY <1>3 DEF ReadPacket, cmd_write, cmd_read, cmd_as, ReceiveEvent,
     TakeIncoming, spin1_stop, spin1_send_sdp_msg, io_printf, AppSends
<1>4. CASE UNCHANGED vars
  BY <1>4 DEF vars
<1> QED
  BY <1>1, <1>2, <1>3, <1>4 DEF Next

LEMMA QueueNothing ==
  ASSUME HostTypeOK, NEW m, Queue({}, m)
  PROVE  sdp_queue' = sdp_queue
  BY DEF Queue, HostTypeOK

LEMMA UnbootedStep ==
  ASSUME HostTypeOK, Unbooted, [Next]_vars
  PROVE  Unbooted'
<1>1. CASE cmd_p2pc
  <2>1. booted' = Seq1 /\ Seq1 \in 1 .. Len(requests) /\ requests \in Seq(Requests)
    BY <1>1, RequestType DEF cmd_p2pc, HostTypeOK
  <2> QED
    BY <2>1 DEF Unbooted, initialised
<1>2. CASE ~cmd_p2pc
  <2>1. SUFFICES ASSUME ~initialised
                 PROVE  /\ pc' \in {"ether", "dead"}
                        /\ toCore' = toCore /\ sdp_queue' = sdp_queue
    BY <1>2, BootedStays DEF Unbooted, initialised
  <2>2. /\ pc \in {"ether", "dead"} /\ Board = {}
        /\ \A n \in Cores : toCore[n] = <<>> /\ sdp_queue[n] = <<>>
    BY <2>1 DEF Unbooted, Board
  <2>3. \A C, mask : Masked(C, mask) = {}
    BY <2>2 DEF Masked
  <2>4. FloodCores = {}
    BY <2>2 DEF FloodCores
  <2>5. ASSUME NEW r \in Requests, HostSend(r)
        PROVE  pc' = pc /\ toCore' = toCore /\ sdp_queue' = sdp_queue
    BY <2>5 DEF HostSend, place
  <2>6. CASE Dispatcher
    <3>1. CASE cmd_floodfill
      BY <3>1, <2>2, <2>4, QueueNothing DEF cmd_floodfill, KeepBoard
    <3>2. CASE flood_as
      BY <3>2, <2>2, <2>3, QueueNothing DEF flood_as, KeepBoard
    <3>3. CASE \/ FloodStart \/ IgnoreNnp \/ IgnoreP2pc \/ cmd_iptag \/ NoBoard
      BY <3>3, <2>2 DEF FloodStart, IgnoreNnp, IgnoreP2pc, NoBoard, cmd_iptag,
         IptagSet, IptagGet, IptagTto, IptagClr, IptagRefused, AnswerTag,
         KeepBoard
    <3>4. ~(QueueCommand \/ dispatch_as \/ EtherEmpty)
      BY <2>1 DEF QueueCommand, dispatch_as, EtherEmpty
    <3>5. ~(\/ dispatch_sdp_to_ether \/ dispatch_sdp_one \/ CoreFinished
            \/ PollNext \/ Flush \/ Die \/ FlushNext)
      BY <2>2 DEF dispatch_sdp_to_ether, dispatch_sdp_one, CoreFinished,
         TakePolled, PollNext, Flush, Die, FlushNext
    <3> QED
      BY <1>2, <2>6, <3>1, <3>2, <3>3, <3>4, <3>5, <2>2 DEF Dispatcher
  <2>7. ASSUME NEW n \in Cores,
               \/ ReadPacket(n) \/ spin1_stop(n)
               \/ \E d \in Cores : spin1_send_sdp_msg(n, d)
               \/ io_printf(n)
        PROVE  pc' = pc /\ toCore' = toCore /\ sdp_queue' = sdp_queue
    <3>1. ~ReadPacket(n)
      BY <2>2 DEF ReadPacket, cmd_write, cmd_read, cmd_as, ReceiveEvent,
         TakeIncoming
    <3> QED
      BY <2>7, <3>1 DEF spin1_stop, spin1_send_sdp_msg, io_printf, AppSends,
         place
  <2>8. CASE UNCHANGED vars
    BY <2>2, <2>8 DEF vars, place
  <2> QED
    BY <2>2, <2>5, <2>6, <2>7, <2>8 DEF Next
<1> QED
  BY <1>1, <1>2

-----------------------------------------------------------------------------
(* Every step accepts a command, executes one or changes nothing.          *)

LEMMA PendingType ==
  ASSUME HostTypeOK
  PROVE  Pending \in [Cores -> Seq(Commands)]
<1>1. \A n \in Cores : toCore[n] \in Seq(Commands) /\ sdp_queue[n] \in Seq(Commands)
  BY DEF HostTypeOK
<1>2. \A n \in Cores : toCore[n] \o sdp_queue[n] \in Seq(Commands)
  BY <1>1, ConcatProperties
<1> QED
  BY <1>2 DEF Pending

LEMMA AcceptPending ==
  ASSUME HostTypeOK, NEW D \in SUBSET Cores, NEW m \in Commands, Queue(D, m),
         UNCHANGED toCore
  PROVE  Pending' = [n \in Cores |-> IF n \in D THEN Append(Pending[n], m)
                                     ELSE Pending[n]]
<1>1. /\ sdp_queue \in [Cores -> Seq(Commands)]
      /\ toCore \in [Cores -> Seq(Commands)]
      /\ sdp_queue' = [n \in Cores |-> IF n \in D THEN Append(sdp_queue[n], m)
                                       ELSE sdp_queue[n]]
  BY DEF HostTypeOK, Queue
<1>0. \A s, t \in Seq(Commands) : s \o Append(t, m) = Append(s \o t, m)
  BY AppendToSecond
<1>2. ASSUME NEW n \in Cores
      PROVE  toCore'[n] \o sdp_queue'[n] =
               IF n \in D THEN Append(toCore[n] \o sdp_queue[n], m)
               ELSE toCore[n] \o sdp_queue[n]
  <2>1. toCore[n] \in Seq(Commands) /\ sdp_queue[n] \in Seq(Commands)
    BY <1>1
  <2>2. CASE n \in D
    <3>1. sdp_queue'[n] = Append(sdp_queue[n], m)
      BY <1>1, <2>2
    <3>2. toCore[n] \o Append(sdp_queue[n], m) =
            Append(toCore[n] \o sdp_queue[n], m)
      BY <1>0, <2>1
    <3> QED
      BY <3>1, <3>2, <2>2
  <2>3. CASE n \notin D
    BY <1>1, <2>3
  <2> QED
    BY <2>2, <2>3
<1> QED
  BY <1>2 DEF Pending

LEMMA AcceptStep ==
  ASSUME HostTypeOK, NEW D \in SUBSET Cores, NEW m \in Commands, Queue(D, m),
         UNCHANGED <<toCore, last>>
  PROVE  [Service!Next]_(Service!vars)
<1>3. Pending' = [n \in Cores |-> IF n \in D THEN Append(Pending[n], m)
                                  ELSE Pending[n]]
  BY AcceptPending
<1>4. Service!Accept(D, m)
  BY <1>3 DEF Service!Accept
<1>5. CASE D = {}
  <2>1. Pending' = Pending
    BY <1>3, <1>5, PendingType
  <2> QED
    BY <2>1 DEF Service!vars
<1>6. CASE D # {}
  <2>1. PICK n \in D : TRUE
    BY <1>6
  <2>2. Pending[n] \in Seq(Commands) /\ Pending'[n] = Append(Pending[n], m)
    BY <1>3, <2>1, PendingType
  <2>3. /\ Pending'[n] # <<>> /\ Pending'[n] \in Seq(Commands)
        /\ Pending'[n][Len(Pending'[n])] = m
    BY <2>2, AppendProperties
  <2>4. Service!Newest(n) = m
    BY <2>3 DEF Service!Newest
  <2>5. Service!Next
    BY <1>4, <2>1, <2>3, <2>4 DEF Service!Next
  <2> QED
    BY <2>5
<1> QED
  BY <1>5, <1>6

LEMMA FlushStep ==
  ASSUME HostTypeOK, Flush
  PROVE  UNCHANGED <<Pending, last>>
<1>1. /\ at \in Cores /\ sdp_queue[at] # <<>>
      /\ sdp_queue \in [Cores -> Seq(Commands)]
      /\ toCore \in [Cores -> Seq(Commands)]
      /\ toCore' = [toCore EXCEPT ![at] = Append(@, Head(sdp_queue[at]))]
      /\ sdp_queue' = [sdp_queue EXCEPT ![at] = Tail(@)]
      /\ last' = last
  BY DEF Flush, HostTypeOK, coreVars
<1>2. ASSUME NEW n \in Cores
      PROVE  toCore'[n] \o sdp_queue'[n] = toCore[n] \o sdp_queue[n]
  <2>1. toCore[n] \in Seq(Commands) /\ sdp_queue[n] \in Seq(Commands)
    BY <1>1
  <2>2. CASE n = at
    <3>1. /\ toCore'[n] = Append(toCore[n], Head(sdp_queue[n]))
          /\ sdp_queue'[n] = Tail(sdp_queue[n])
          /\ sdp_queue[n] # <<>>
      BY <1>1, <2>2
    <3> QED
      BY <2>1, <3>1, MoveHead
  <2>3. CASE n # at
    BY <1>1, <2>3
  <2> QED
    BY <2>2, <2>3
<1> QED
  BY <1>1, <1>2 DEF Pending

LEMMA ExecuteStep ==
  ASSUME HostTypeOK, NEW n \in Cores, NEW kinds, TakeIncoming(n, kinds)
  PROVE  Service!Execute(n)
<1>1. /\ toCore \in [Cores -> Seq(Commands)] /\ toCore[n] # <<>>
      /\ sdp_queue \in [Cores -> Seq(Commands)]
      /\ toCore' = [toCore EXCEPT ![n] = Tail(@)]
      /\ last' = [last EXCEPT ![n] = <<Head(toCore[n])>>]
      /\ sdp_queue' = sdp_queue
  BY DEF TakeIncoming, Incoming, HostTypeOK
<1>2. /\ Pending[n] # <<>>
      /\ Head(Pending[n]) = Head(toCore[n])
      /\ Tail(Pending[n]) = Tail(toCore[n]) \o sdp_queue[n]
  <2>1. toCore[n] \in Seq(Commands) /\ sdp_queue[n] \in Seq(Commands)
    BY <1>1
  <2>2. Pending[n] = toCore[n] \o sdp_queue[n]
    BY DEF Pending
  <2> QED
    BY <1>1, <2>1, <2>2, HeadOfFirst
<1>3. Pending' = [Pending EXCEPT ![n] = Tail(@)]
  <2>1. ASSUME NEW k \in Cores
        PROVE  toCore'[k] \o sdp_queue'[k] = [Pending EXCEPT ![n] = Tail(@)][k]
    <3>1. CASE k = n
      BY <1>1, <1>2, <3>1, PendingType
    <3>2. CASE k # n
      BY <1>1, <3>2 DEF Pending
    <3> QED
      BY <3>1, <3>2
  <2> QED
    BY <2>1, PendingType DEF Pending
<1>4. last' = [last EXCEPT ![n] = <<Head(Pending[n])>>]
  BY <1>1, <1>2
<1> QED
  BY <1>2, <1>3, <1>4 DEF Service!Execute

LEMMA BootStep ==
  ASSUME HostTypeOK, Unbooted, cmd_p2pc
  PROVE  UNCHANGED <<Pending, last>>
<1>1. /\ \A n \in Cores : toCore[n] = <<>> /\ sdp_queue[n] = <<>>
      /\ toCore' = [n \in Cores |-> <<>>]
      /\ sdp_queue' = [n \in Cores |-> <<>>]
      /\ last' = last
  BY DEF Unbooted, cmd_p2pc, Boots, Receive, coreVars
<1> QED
  BY <1>1 DEF Pending

\* The actions that neither queue a command nor execute one.
LEMMA QuietStep ==
  ASSUME UNCHANGED <<toCore, sdp_queue, last>>
  PROVE  UNCHANGED <<Pending, last>>
  BY DEF Pending

LEMMA DispatcherStep ==
  ASSUME HostTypeOK, Unbooted, Dispatcher
  PROVE  [Service!Next]_(Service!vars)
<1> USE DEF coreVars, KeepBoard, Receive
<1>0. UNCHANGED <<Pending, last>> => [Service!Next]_(Service!vars)
  BY DEF Service!vars
<1>1. CASE QueueCommand
  <2>1. /\ Receiving /\ UNCHANGED <<toCore, last>>
        /\ Queue({Request.core}, Command(KindOf(Request.cmd), Request.arg))
    BY <1>1 DEF QueueCommand
  <2>2. Request.core \in Cores /\ Request.arg \in Nat
    BY <2>1, RequestType, RequestFields
  <2>3. Command(KindOf(Request.cmd), Request.arg) \in Commands
    BY <2>1, <2>2, CommandType DEF KindOf, Kinds
  <2> QED
    BY <2>1, <2>2, <2>3, AcceptStep
<1>2. CASE dispatch_as
  <2> DEFINE D == Masked({ChipOf(Request.core)}, Request.mask)
  <2>1. /\ Receiving /\ UNCHANGED <<toCore, last>>
        /\ Queue(D, Command("AS", Request.arg))
    BY <1>2 DEF dispatch_as
  <2>2. Command("AS", Request.arg) \in Commands
    BY <2>1, RequestType, RequestFields, CommandType DEF Kinds
  <2>3. D \in SUBSET Cores
    BY DEF Masked, Board
  <2> HIDE DEF D
  <2> QED
    BY <2>1, <2>2, <2>3, AcceptStep
<1>3. CASE cmd_floodfill
  <2>1. /\ Receiving /\ UNCHANGED <<toCore, last>>
        /\ Queue(FloodCores, Command("WRITE", Request.arg))
    BY <1>3 DEF cmd_floodfill
  <2>2. Command("WRITE", Request.arg) \in Commands
    BY <2>1, RequestType, RequestFields, CommandType DEF Kinds
  <2>3. FloodCores \in SUBSET Cores
    BY DEF FloodCores, Board
  <2> QED
    BY <2>1, <2>2, <2>3, AcceptStep
<1>4. CASE flood_as
  <2> DEFINE D == Masked(Chips, Request.mask)
  <2>1. /\ Receiving /\ UNCHANGED <<toCore, last>>
        /\ Queue(D, Command("AS", floodfill))
    BY <1>4 DEF flood_as
  <2>2. Command("AS", floodfill) \in Commands
    BY <2>1, CommandType DEF Kinds, HostTypeOK
  <2>3. D \in SUBSET Cores
    BY DEF Masked, Board
  <2> HIDE DEF D
  <2> QED
    BY <2>1, <2>2, <2>3, AcceptStep
<1>5. CASE dispatch_sdp_one
  <2> DEFINE m == [kind |-> "event", of |-> 0, arg |-> 0, tag |-> TAG_NONE]
             M == Ethernet \cup Messages \cup Finished
  <2>1. /\ Polled # <<>> /\ Polled \in Seq(M) /\ Head(Polled).kind = "sdp"
        /\ Queue({Head(Polled).core}, m) /\ UNCHANGED <<toCore, last>>
    BY <1>5 DEF dispatch_sdp_one, TakePolled, Polled, HostTypeOK
  <2>2. Head(Polled) \in M
    BY <2>1, HeadTailProperties
  <2>3. Head(Polled).core \in Cores
    BY <2>1, <2>2 DEF Ethernet, Messages, Finished
  <2>4. m \in Commands
    BY DEF Commands, Kinds, TAG_NONE
  <2> HIDE DEF m
  <2> QED
    BY <2>1, <2>3, <2>4, AcceptStep
<1>6. CASE Flush
  BY <1>0, <1>6, FlushStep
<1>7. CASE cmd_p2pc
  BY <1>0, <1>7, BootStep
<1>8. CASE \/ NoBoard \/ FloodStart \/ IgnoreNnp \/ IgnoreP2pc \/ cmd_iptag
           \/ EtherEmpty \/ dispatch_sdp_to_ether \/ CoreFinished
           \/ PollNext \/ Die \/ FlushNext
  <2>1. UNCHANGED <<toCore, sdp_queue, last>>
    BY <1>8 DEF NoBoard, FloodStart, IgnoreNnp, IgnoreP2pc, cmd_iptag,
       IptagSet, IptagGet, IptagTto, IptagClr, IptagRefused, AnswerTag,
       EtherEmpty, dispatch_sdp_to_ether, CoreFinished, TakePolled,
       PollNext, Die, FlushNext, Step
  <2> QED
    BY <1>0, <2>1, QuietStep
<1> QED
  BY <1>1, <1>2, <1>3, <1>4, <1>5, <1>6, <1>7, <1>8 DEF Dispatcher

LEMMA ServiceStep ==
  ASSUME HostTypeOK, Unbooted, [Next]_vars
  PROVE  [Service!Next]_(Service!vars)
<1>0. UNCHANGED <<Pending, last>> => [Service!Next]_(Service!vars)
  BY DEF Service!vars
<1>1. ASSUME NEW r \in Requests, HostSend(r)
      PROVE  [Service!Next]_(Service!vars)
  <2>1. UNCHANGED <<toCore, sdp_queue, last>>
    BY <1>1 DEF HostSend, coreVars
  <2> QED
    BY <1>0, <2>1, QuietStep
<1>2. ASSUME NEW n \in Cores, ReadPacket(n)
      PROVE  [Service!Next]_(Service!vars)
  <2>1. PICK kinds : TakeIncoming(n, kinds)
    BY <1>2 DEF ReadPacket, cmd_write, cmd_read, cmd_as, ReceiveEvent
  <2>2. Service!Execute(n)
    BY <2>1, ExecuteStep
  <2> QED
    BY <2>2 DEF Service!Next
<1>3. ASSUME NEW n \in Cores,
             \/ spin1_stop(n)
             \/ \E d \in Cores : spin1_send_sdp_msg(n, d)
             \/ io_printf(n)
      PROVE  [Service!Next]_(Service!vars)
  <2>1. UNCHANGED <<toCore, sdp_queue, last>>
    BY <1>3 DEF spin1_stop, spin1_send_sdp_msg, io_printf, AppSends
  <2> QED
    BY <1>0, <2>1, QuietStep
<1>4. CASE UNCHANGED vars
  <2>1. UNCHANGED <<toCore, sdp_queue, last>>
    BY <1>4 DEF vars, coreVars
  <2> QED
    BY <1>0, <2>1, QuietStep
<1> QED
  BY <1>1, <1>2, <1>3, <1>4, DispatcherStep DEF Next

\* The dispatcher's queues, the sockets and the cores implement CommandService
\* on every board, whatever is queued while the queues are flushed, however
\* full the sockets are and however often a P2PC command comes.
THEOREM CommandsInOrder == Spec => ServiceSpec
<1>1. Init => Service!Init
  <2>1. ASSUME Init
        PROVE  Pending = [n \in Cores |-> <<>>]
    <3>1. \A n \in Cores : toCore[n] \o sdp_queue[n] = <<>>
      <4>1. \A n \in Cores : toCore[n] = <<>> /\ sdp_queue[n] = <<>>
        BY <2>1 DEF Init
      <4>2. <<>> \o <<>> = <<>>
        BY EmptySeq, ConcatEmptySeq
      <4> QED
        BY <4>1, <4>2
    <3> QED
      BY <3>1 DEF Pending
  <2> QED
    BY <2>1 DEF Init, Service!Init
<1>2. Spec => []Unbooted
  <2>1. HostTypeOK /\ Unbooted /\ [Next]_vars => Unbooted'
    BY UnbootedStep
  <2> QED
    BY <2>1, UnbootedInit, HostTypeCorrect, PTL DEF Spec
<1>3. HostTypeOK /\ Unbooted /\ [Next]_vars => [Service!Next]_(Service!vars)
  BY ServiceStep
<1> QED
  BY <1>1, <1>2, <1>3, HostTypeCorrect, PTL DEF Spec, ServiceSpec, Service!Spec

=============================================================================
