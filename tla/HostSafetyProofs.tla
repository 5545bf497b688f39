-------------------------- MODULE HostSafetyProofs --------------------------
(***************************************************************************)
(* What the order of the commands is good for: a read sees the writes that *)
(* were sent before it through the same core, and a flooded program starts *)
(* over the whole image.  Both rest on one invariant, InOrder: the writes  *)
(* a core owes are in memory or among its pending commands, and those that *)
(* came before a pending command come before it there.  Then the tags, the *)
(* count of the running programs and the slot that answers a VER.          *)
(***************************************************************************)
EXTENDS HostCommandsProofs

-----------------------------------------------------------------------------
(* One core, with the requests R, k of them taken, a board set up by       *)
(* request b, the writes M in its chip's memory and the commands q pending *)
(* for it.                                                                 *)

\* Request w is a write that core n has to make.
Owes(R, b, n, w) ==
  \/ R[w].cmd = CMD_WRITE /\ R[w].core = n
  \/ R[w].cmd = CMD_FFD /\ CpuOf(n) = 1 /\ b < w

Writes(m, w) == m.kind = "WRITE" /\ m.of = w

\* It has been made, or is among the first i commands pending.
Made(M, q, w, i) == w \in M \/ \E j \in 1 .. i : Writes(q[j], w)

\* A command comes from a request, and to the core that it names.
Sound(R, k, n, m) ==
  /\ m.of \in 0 .. k
  /\ m.kind # "event" => m.of # 0
  /\ m.kind = "READ" => R[m.of].cmd = CMD_READ
  /\ m.kind = "VER" => R[m.of].cmd = CMD_VER
  /\ m.kind \in {"READ", "VER"} => R[m.of].core = n

InOrder(R, k, b, M, q, n) ==
  /\ \A i \in 1 .. Len(q) : Sound(R, k, n, q[i])
  /\ \A w \in 1 .. k : Owes(R, b, n, w) => Made(M, q, w, Len(q))
  /\ \A i \in 1 .. Len(q) : \A w \in 1 .. q[i].of :
       Owes(R, b, n, w) => Made(M, q, w, i)

\* Requests taken stay what they are, and at most one more is taken.
Takes(R, k, R2, k2) ==
  /\ k2 \in {k, k + 1}
  /\ \A w \in 1 .. k2 : R2[w] = R[w]

LEMMA OwesStays ==
  ASSUME NEW R, NEW k \in Nat, NEW R2, NEW k2, Takes(R, k, R2, k2)
  PROVE  \A b, n : \A w \in 1 .. k2 : Owes(R2, b, n, w) <=> Owes(R, b, n, w)
  BY DEF Takes, Owes

LEMMA SoundStays ==
  ASSUME NEW R, NEW k \in Nat, NEW R2, NEW k2, Takes(R, k, R2, k2),
         NEW n, NEW m, Sound(R, k, n, m)
  PROVE  Sound(R2, k2, n, m)
<1>1. m.of \in 0 .. k /\ m.of \in 0 .. k2
  BY DEF Sound, Takes
<1>2. m.of # 0 => R2[m.of] = R[m.of]
  BY <1>1 DEF Takes
<1> QED
  BY <1>1, <1>2 DEF Sound

\* Nothing is queued for the core, and other cores may write to the memory.
LEMMA OrderStays ==
  ASSUME NEW R, NEW k \in Nat, NEW R2, NEW k2, Takes(R, k, R2, k2),
         NEW b, NEW M, NEW M2, M \subseteq M2,
         NEW q \in Seq(Commands), NEW n, InOrder(R, k, b, M, q, n),
         \A w \in k + 1 .. k2 : ~Owes(R, b, n, w)
  PROVE  InOrder(R2, k2, b, M2, q, n)
<1>1. ASSUME NEW w, NEW i, Made(M, q, w, i)
      PROVE  Made(M2, q, w, i)
  BY <1>1 DEF Made
<1>2. \A i \in 1 .. Len(q) : Sound(R2, k2, n, q[i])
  BY SoundStays DEF InOrder
<1>3. ASSUME NEW w \in 1 .. k2, Owes(R2, b, n, w)
      PROVE  w \in 1 .. k /\ Owes(R, b, n, w)
  <2>1. Owes(R, b, n, w)
    BY <1>3, OwesStays
  <2>2. w \notin k + 1 .. k2
    BY <2>1
  <2> QED
    BY <2>1, <2>2 DEF Takes
<1>4. \A w \in 1 .. k2 : Owes(R2, b, n, w) => Made(M2, q, w, Len(q))
  BY <1>1, <1>3 DEF InOrder
<1>5. ASSUME NEW i \in 1 .. Len(q), NEW w \in 1 .. q[i].of, Owes(R2, b, n, w)
      PROVE  Made(M2, q, w, i)
  <2>1. q[i].of \in 0 .. k2 /\ w \in 1 .. k2
    BY <1>2 DEF Sound, Takes
  <2>2. Owes(R, b, n, w)
    BY <1>3, <1>5, <2>1
  <2> QED
    BY <1>1, <2>2 DEF InOrder
<1> QED
  BY <1>2, <1>4, <1>5 DEF InOrder

LEMMA OrderAppends ==
  ASSUME NEW R, NEW k \in Nat, NEW R2, NEW k2, Takes(R, k, R2, k2),
         NEW b, NEW M, NEW q \in Seq(Commands), NEW n,
         InOrder(R, k, b, M, q, n),
         NEW m \in Commands, Sound(R2, k2, n, m),
         \A w \in k + 1 .. k2 : Owes(R, b, n, w) => Writes(m, w)
  PROVE  InOrder(R2, k2, b, M, Append(q, m), n)
<1> DEFINE p == Append(q, m)
<1>1. /\ Len(q) \in Nat /\ Len(p) = Len(q) + 1
      /\ \A i \in 1 .. Len(q) : p[i] = q[i]
      /\ p[Len(q) + 1] = m
  BY AppendProperties, LenProperties
<1> HIDE DEF p
<1>2. ASSUME NEW w, NEW i \in 0 .. Len(q), Made(M, q, w, i)
      PROVE  Made(M, p, w, i) /\ Made(M, p, w, Len(p))
  BY <1>1, <1>2 DEF Made, Writes
<1>3. \A i \in 1 .. Len(p) : Sound(R2, k2, n, p[i])
  <2>1. ASSUME NEW i \in 1 .. Len(p) PROVE Sound(R2, k2, n, p[i])
    <3>1. CASE i \in 1 .. Len(q)
      <4>1. Sound(R, k, n, q[i]) /\ p[i] = q[i]
        BY <1>1, <3>1 DEF InOrder
      <4>2. Sound(R2, k2, n, q[i])
        BY <4>1, SoundStays
      <4> QED
        BY <4>1, <4>2
    <3>2. CASE i = Len(q) + 1
      BY <1>1, <3>2
    <3> QED
      BY <1>1, <3>1, <3>2
  <2> QED
    BY <2>1
<1>4. ASSUME NEW w \in 1 .. k2, Owes(R2, b, n, w)
      PROVE  Made(M, p, w, Len(p))
  <2>1. Owes(R, b, n, w)
    BY <1>4, OwesStays
  <2>2. CASE w \in 1 .. k
    <3>1. Made(M, q, w, Len(q)) /\ Len(q) \in 0 .. Len(q)
      BY <1>1, <2>1, <2>2 DEF InOrder
    <3> QED
      BY <1>2, <3>1
  <2>3. CASE w \in k + 1 .. k2
    <3>1. Writes(m, w)
      BY <2>1, <2>3
    <3>2. Len(p) \in 1 .. Len(p) /\ p[Len(p)] = m
      BY <1>1
    <3> QED
      BY <3>1, <3>2 DEF Made
  <2> QED
    BY <2>2, <2>3 DEF Takes
<1>5. ASSUME NEW i \in 1 .. Len(p), NEW w \in 1 .. p[i].of, Owes(R2, b, n, w)
      PROVE  Made(M, p, w, i)
  <2>1. w \in 1 .. k2
    BY <1>3 DEF Sound, Takes
  <2>2. CASE i \in 1 .. Len(q)
    <3>1. w \in 1 .. q[i].of /\ Owes(R, b, n, w) /\ i \in 0 .. Len(q)
      BY <1>1, <1>5, <2>1, <2>2, OwesStays
    <3>2. Made(M, q, w, i)
      BY <2>2, <3>1 DEF InOrder
    <3> QED
      BY <1>2, <3>1, <3>2
  <2>3. CASE i = Len(p)
    BY <1>4, <1>5, <2>1, <2>3
  <2> QED
    BY <1>1, <2>2, <2>3
<1>6. InOrder(R2, k2, b, M, p, n)
  BY <1>3, <1>4, <1>5 DEF InOrder
<1> QED
  BY <1>6 DEF p

\* The core executes its first command: whatever it owed before is made.
LEMMA OrderExecutes ==
  ASSUME NEW R, NEW k \in Nat, NEW b, NEW M, NEW M2, M \subseteq M2,
         NEW q \in Seq(Commands), q # <<>>, NEW n, InOrder(R, k, b, M, q, n),
         Head(q).kind = "WRITE" => Head(q).of \in M2
  PROVE  /\ Sound(R, k, n, Head(q))
         /\ InOrder(R, k, b, M2, Tail(q), n)
         /\ \A w \in 1 .. Head(q).of : Owes(R, b, n, w) => w \in M2
<1> DEFINE p == Tail(q)
<1>1. /\ Len(q) \in Nat \ {0} /\ Len(p) = Len(q) - 1 /\ Head(q) = q[1]
      /\ \A i \in 1 .. Len(p) : p[i] = q[i + 1]
  BY HeadTailProperties, EmptySeq
<1> HIDE DEF p
<1>2. ASSUME NEW w, NEW i \in 1 .. Len(q), Made(M, q, w, i)
      PROVE  Made(M2, p, w, i - 1)
  <2>1. CASE w \in M
    BY <2>1 DEF Made
  <2>2. CASE \E j \in 1 .. i : Writes(q[j], w)
    <3>1. PICK j \in 1 .. i : Writes(q[j], w)
      BY <2>2
    <3>2. CASE j = 1
      BY <1>1, <3>1, <3>2 DEF Made, Writes
    <3>3. CASE j # 1
      <4>1. j - 1 \in 1 .. i - 1 /\ j - 1 \in 1 .. Len(p) /\ (j - 1) + 1 = j
        BY <1>1, <3>3
      <4>2. p[j - 1] = q[j]
        BY <1>1, <4>1
      <4> QED
        BY <3>1, <4>1, <4>2 DEF Made
    <3> QED
      BY <3>2, <3>3
  <2> QED
    BY <1>2, <2>1, <2>2 DEF Made
<1>3. 1 \in 1 .. Len(q) /\ Len(q) \in 1 .. Len(q)
  BY <1>1
<1>4. Sound(R, k, n, Head(q))
  BY <1>1, <1>3 DEF InOrder
<1>5. \A i \in 1 .. Len(p) : i + 1 \in 1 .. Len(q) /\ (i + 1) - 1 = i
  BY <1>1
<1>6. \A i \in 1 .. Len(p) : Sound(R, k, n, p[i])
  BY <1>1, <1>5 DEF InOrder
<1>7. \A w \in 1 .. k : Owes(R, b, n, w) => Made(M2, p, w, Len(p))
  BY <1>1, <1>2, <1>3 DEF InOrder
<1>8. ASSUME NEW i \in 1 .. Len(p), NEW w \in 1 .. p[i].of, Owes(R, b, n, w)
      PROVE  Made(M2, p, w, i)
  <2>1. p[i] = q[i + 1] /\ i + 1 \in 1 .. Len(q) /\ (i + 1) - 1 = i
    BY <1>1, <1>5
  <2>2. Made(M, q, w, i + 1)
    BY <1>8, <2>1 DEF InOrder
  <2>3. Made(M2, p, w, (i + 1) - 1)
    BY <1>2, <2>1, <2>2
  <2> QED
    BY <2>1, <2>3
<1>9. ASSUME NEW w \in 1 .. Head(q).of, Owes(R, b, n, w)
      PROVE  w \in M2
  <2>1. Made(M, q, w, 1)
    BY <1>1, <1>3, <1>9 DEF InOrder
  <2>2. Made(M2, p, w, 1 - 1)
    BY <1>2, <1>3, <2>1
  <2> QED
    BY <2>2 DEF Made
<1>10. InOrder(R, k, b, M2, p, n)
  BY <1>6, <1>7, <1>8 DEF InOrder
<1> QED
  BY <1>4, <1>9, <1>10 DEF p

LEMMA OrderBegins ==
  ASSUME NEW R, NEW k \in Nat, NEW b, NEW M, NEW n,
         \A w \in 1 .. k : ~Owes(R, b, n, w)
  PROVE  InOrder(R, k, b, M, <<>>, n)
  BY EmptySeq DEF InOrder
-----------------------------------------------------------------------------
(* The invariant of the whole board.                                       *)

Ordered ==
  initialised =>
    \A n \in Cores :
      InOrder(requests, received, booted, ram[ChipOf(n)], Pending[n], n)

\* No command for a core is taken before the board is set up and survived.
NothingLost ==
  ~initialised /\ pc # "dead" =>
    \A k \in 1 .. received : ~ForOneCore(requests[k].cmd)

\* What a read has seen.
Replied(R, k, r, seen) ==
  /\ r \in 1 .. k
  /\ R[r].cmd \in {CMD_VER, CMD_READ, CMD_IPTAG}
  /\ R[r].cmd = CMD_READ =>
       \A w \in 1 .. r :
         R[w].cmd = CMD_WRITE /\ R[w].core = R[r].core => w \in seen

Carried(R, k, m) ==
  m.kind = "ether" /\ m.of # 0 =>
    Replied(R, k, m.of, m.seen) /\ R[m.of].cmd # CMD_IPTAG

RepliesSent ==
  \A n \in Cores : \A i \in 1 .. Len(fromCore[n]) :
    Carried(requests, received, fromCore[n][i])

RepliesGiven ==
  \A a \in answers :
    a.kind = "reply" => Replied(requests, received, a.of, a.seen)

Whole(R, k, b, n, p) ==
  p.by # 0 =>
    /\ p.by <= k
    /\ \A w \in 1 .. p.by : Owes(R, b, n, w) => w \in p.over

ProgramsWhole ==
  \A n \in Cores :
    /\ app[n].by # 0 => initialised
    /\ Whole(requests, received, booted, n, app[n])

Safe ==
  /\ HostTypeOK /\ Unbooted /\ Ordered /\ NothingLost
  /\ RepliesSent /\ RepliesGiven /\ ProgramsWhole

LEMMA RepliedStays ==
  ASSUME NEW R, NEW k \in Nat, NEW R2, NEW k2, Takes(R, k, R2, k2),
         NEW r, NEW seen, Replied(R, k, r, seen)
  PROVE  Replied(R2, k2, r, seen) /\ R2[r].cmd = R[r].cmd
<1>1. r \in 1 .. k /\ r \in 1 .. k2 /\ R2[r] = R[r]
  BY DEF Replied, Takes
<1>2. \A w \in 1 .. r : R2[w] = R[w]
  BY <1>1 DEF Takes
<1> QED
  BY <1>1, <1>2 DEF Replied

LEMMA CarriedStays ==
  ASSUME NEW R, NEW k \in Nat, NEW R2, NEW k2, Takes(R, k, R2, k2),
         NEW m, Carried(R, k, m)
  PROVE  Carried(R2, k2, m)
  BY RepliedStays DEF Carried

LEMMA WholeStays ==
  ASSUME NEW R, NEW k \in Nat, NEW R2, NEW k2, Takes(R, k, R2, k2),
         NEW b, NEW n, NEW p, p.by \in Nat, Whole(R, k, b, n, p)
  PROVE  Whole(R2, k2, b, n, p)
<1>1. p.by # 0 => p.by <= k2 /\ \A w \in 1 .. p.by : w \in 1 .. k2
  BY DEF Whole, Takes
<1>2. \A w \in 1 .. k2 : Owes(R2, b, n, w) <=> Owes(R, b, n, w)
  BY OwesStays
<1> QED
  BY <1>1, <1>2 DEF Whole

\* A step takes at most one request and leaves those taken as they are.
LEMMA StepTakes ==
  ASSUME HostTypeOK, [Next]_vars
  PROVE  Takes(requests, received, requests', received') /\ received \in Nat
<1>0. received \in Nat /\ received <= Len(requests) /\ requests \in Seq(Requests)
  BY DEF HostTypeOK
<1>1. ASSUME NEW r \in Requests, HostSend(r)
      PROVE  Takes(requests, received, requests', received')
  <2>1. requests' = Append(requests, r) /\ received' = received
    BY <1>1 DEF HostSend
  <2>2. \A w \in 1 .. Len(requests) : Append(requests, r)[w] = requests[w]
    BY <1>0, AppendProperties
  <2>3. \A w \in 1 .. received : w \in 1 .. Len(requests)
    BY <1>0, LenProperties
  <2> QED
    BY <2>1, <2>2, <2>3 DEF Takes
<1>2. ASSUME requests' = requests, received' \in {received, received + 1}
      PROVE  Takes(requests, received, requests', received')
  <2>1. \A w \in 1 .. received' : requests'[w] = requests[w]
    BY <1>2
  <2>2. received' \in {received, received + 1}
    BY <1>2
  <2> QED
    BY <2>1, <2>2 DEF Takes
<1>3. CASE Dispatcher
  <2>1. requests' = requests /\ received' \in {received, received + 1}
    BY <1>3 DEF Dispatcher, QueueCommand, NoBoard, dispatch_as, FloodStart,
       IgnoreNnp, cmd_floodfill, flood_as, cmd_p2pc, IgnoreP2pc, cmd_iptag,
       IptagSet, IptagGet, IptagTto, IptagClr, IptagRefused, AnswerTag,
       EtherEmpty, dispatch_sdp_to_ether, dispatch_sdp_one, CoreFinished,
       TakePolled, PollNext, Flush, Die, FlushNext, Step, Receive, hostVars
  <2> QED
    BY <1>0, <1>2, <2>1
<1>4. ASSUME NEW n \in Cores,
             \/ ReadPacket(n) \/ spin1_stop(n)
             \/ \E d \in Cores : spin1_send_sdp_msg(n, d)
             \/ io_printf(n)
      PROVE  Takes(requests, received, requests', received')
  <2>1. requests' = requests /\ received' = received
    BY <1>4 DEF ReadPacket, cmd_write, cmd_read, cmd_as, ReceiveEvent,
       TakeIncoming, spin1_stop, spin1_send_sdp_msg, io_printf, AppSends,
       hostVars
  <2> QED
    BY <1>2, <2>1
<1>5. CASE UNCHANGED vars
  <2>1. requests' = requests /\ received' = received
    BY <1>5 DEF vars, hostVars
  <2> QED
    BY <1>0, <1>2, <2>1
<1> QED
  BY <1>0, <1>1, <1>3, <1>4, <1>5 DEF Next

-----------------------------------------------------------------------------
(* Steps of the dispatcher and the hosts keep the order.                   *)

LEMMA QuietOrdered ==
  ASSUME HostTypeOK, Ordered, [Next]_vars,
         UNCHANGED <<booted, ram, Pending>>,
         initialised => \A n \in Cores : \A w \in received + 1 .. received' :
                          ~Owes(requests, booted, n, w)
  PROVE  Ordered'
<1> SUFFICES ASSUME initialised, NEW n \in Cores
             PROVE  InOrder(requests', received', booted, ram[ChipOf(n)],
                            Pending[n], n)
  BY DEF Ordered, initialised
<1>1. Takes(requests, received, requests', received') /\ received \in Nat
  BY StepTakes
<1>2. InOrder(requests, received, booted, ram[ChipOf(n)], Pending[n], n)
  BY DEF Ordered
<1>3. Pending[n] \in Seq(Commands)
  BY PendingType
<1> QED
  BY <1>1, <1>2, <1>3, OrderStays

LEMMA AcceptOrdered ==
  ASSUME HostTypeOK, Ordered, [Next]_vars, UNCHANGED <<booted, ram, toCore>>,
         NEW D \in SUBSET Cores, NEW m \in Commands, Queue(D, m),
         initialised =>
           /\ \A n \in D : Sound(requests', received', n, m)
           /\ \A n \in Cores : \A w \in received + 1 .. received' :
                Owes(requests, booted, n, w) => n \in D /\ Writes(m, w)
  PROVE  Ordered'
<1>0. Pending' = [n \in Cores |-> IF n \in D THEN Append(Pending[n], m)
                                  ELSE Pending[n]]
  BY AcceptPending
<1> SUFFICES ASSUME initialised, NEW n \in Cores
             PROVE  InOrder(requests', received', booted, ram[ChipOf(n)],
                            Pending'[n], n)
  BY DEF Ordered, initialised
<1>1. Takes(requests, received, requests', received') /\ received \in Nat
  BY StepTakes
<1>2. InOrder(requests, received, booted, ram[ChipOf(n)], Pending[n], n)
  BY DEF Ordered
<1>3. Pending[n] \in Seq(Commands)
  BY PendingType
<1>4. CASE n \in D
  <2>1. Pending'[n] = Append(Pending[n], m)
    BY <1>0, <1>4
  <2>2. Sound(requests', received', n, m)
    BY <1>4
  <2>3. \A w \in received + 1 .. received' :
          Owes(requests, booted, n, w) => Writes(m, w)
    OBVIOUS
  <2> QED
    BY <1>1, <1>2, <1>3, <2>1, <2>2, <2>3, OrderAppends
<1>5. CASE n \notin D
  <2>1. Pending'[n] = Pending[n]
    BY <1>0, <1>5
  <2>2. \A w \in received + 1 .. received' : ~Owes(requests, booted, n, w)
    BY <1>5
  <2> QED
    BY <1>1, <1>2, <1>3, <2>1, <2>2, OrderStays
<1> QED
  BY <1>4, <1>5

\* The board is set up; nothing was owed.
LEMMA BootOrdered ==
  ASSUME HostTypeOK, NothingLost, Unbooted, cmd_p2pc
  PROVE  Ordered'
<1>1. /\ Receiving /\ ~initialised /\ pc # "dead" /\ Request.cmd = CMD_P2PC
      /\ booted' = received + 1 /\ received' = received + 1
      /\ requests' = requests /\ received \in Nat
      /\ \A n \in Cores : toCore'[n] = <<>> /\ sdp_queue'[n] = <<>>
  BY DEF cmd_p2pc, Receiving, Boots, Receive, Seq1, HostTypeOK
<1>2. \A k \in 1 .. received : requests[k].cmd # CMD_WRITE
  BY <1>1 DEF NothingLost, ForOneCore, CMD_WRITE, CMD_NNP, CMD_FFD, CMD_AS,
     CMD_P2PC, CMD_IPTAG
<1>3. requests[received + 1].cmd = CMD_P2PC
  BY <1>1 DEF Request
<1>4. \A n : \A w \in 1 .. received + 1 : ~Owes(requests, received + 1, n, w)
  BY <1>1, <1>2, <1>3 DEF Owes, CMD_WRITE, CMD_FFD, CMD_P2PC
<1>5. ASSUME NEW n \in Cores
      PROVE  InOrder(requests', received', booted', ram'[ChipOf(n)],
                     Pending'[n], n)
  <2>1. Pending'[n] = <<>>
    <3>1. <<>> \o <<>> = <<>>
      BY EmptySeq, ConcatEmptySeq
    <3> QED
      BY <1>1, <3>1 DEF Pending
  <2>2. received + 1 \in Nat
    BY <1>1
  <2>3. InOrder(requests, received + 1, received + 1, ram'[ChipOf(n)], <<>>, n)
    BY <1>4, <2>2, OrderBegins
  <2> QED
    BY <1>1, <2>1, <2>3
<1> QED
  BY <1>5 DEF Ordered
\* What is taken when a command other than a write is taken.
LEMMA OwesNothing ==
  ASSUME HostTypeOK, Receiving, Receive({}) \/ received' = Seq1,
         Request.cmd \notin {CMD_WRITE, CMD_FFD}
  PROVE  \A b, n : \A w \in received + 1 .. received' : ~Owes(requests, b, n, w)
<1>1. received' = received + 1 /\ received \in Nat
  BY DEF Receive, Seq1, HostTypeOK
<1>2. \A w \in received + 1 .. received' : w = received + 1
  BY <1>1
<1> QED
  BY <1>2 DEF Owes, Request

LEMMA DispatcherOrdered ==
  ASSUME HostTypeOK, Ordered, NothingLost, Unbooted, Dispatcher, [Next]_vars
  PROVE  Ordered'
<1> USE DEF CMD_WRITE, CMD_FFD, CMD_AS, CMD_NNP, CMD_P2PC, CMD_IPTAG, CMD_VER,
            CMD_READ
<1>0. received \in Nat /\ (Receiving => Seq1 \in Nat /\ Request \in Requests)
  BY RequestType DEF HostTypeOK
<1>1. CASE cmd_p2pc
  BY <1>1, BootOrdered
<1>2. ASSUME ~cmd_p2pc
      PROVE  booted' = booted /\ ram' = ram
  <2>1. booted' = booted
    BY <1>2, BootedStays
  <2>2. ram' = ram
    BY <1>2 DEF Dispatcher, QueueCommand, NoBoard, dispatch_as, FloodStart,
       IgnoreNnp, cmd_floodfill, flood_as, IgnoreP2pc, cmd_iptag,
       IptagSet, IptagGet, IptagTto, IptagClr, IptagRefused, AnswerTag,
       EtherEmpty, dispatch_sdp_to_ether, dispatch_sdp_one, CoreFinished,
       TakePolled, PollNext, Flush, Die, FlushNext, Step, Receive, coreVars
  <2> QED
    BY <2>1, <2>2
\* A command m is queued for the cores of D.
<1>3. ASSUME ~cmd_p2pc, NEW D \in SUBSET Cores, NEW m \in Commands, Queue(D, m),
             Receiving, Receive({}), KeepBoard,
             initialised =>
               /\ \A n \in D : Sound(requests, Seq1, n, m)
               /\ \A n \in Cores :
                    Owes(requests, booted, n, Seq1) => n \in D /\ Writes(m, Seq1)
      PROVE  Ordered'
  <2>1. /\ UNCHANGED <<booted, ram, toCore>>
        /\ requests' = requests /\ received' = Seq1
        /\ \A w \in received + 1 .. received' : w = Seq1
    BY <1>0, <1>2, <1>3 DEF KeepBoard, Receive, Seq1
  <2> QED
    BY <1>3, <2>1, AcceptOrdered
<1>4. CASE QueueCommand
  <2> DEFINE m == Command(KindOf(Request.cmd), Request.arg)
  <2>1. /\ Receiving /\ Receive({}) /\ KeepBoard /\ Queue({Request.core}, m)
        /\ ForOneCore(Request.cmd)
    BY <1>4 DEF QueueCommand
  <2>2. Request.core \in Cores /\ Request.arg \in Nat /\ Request.cmd \in Nat
    BY <1>0, <2>1, RequestFields
  <2>3. KindOf(Request.cmd) \in Kinds
    BY DEF KindOf, Kinds
  <2>4. m \in Commands
    BY <2>1, <2>2, <2>3, CommandType
  <2>5. m.of = Seq1 /\ m.kind = KindOf(Request.cmd)
    BY DEF Command
  <2>6. Sound(requests, Seq1, Request.core, m)
    <3>1. Request = requests[Seq1] /\ Seq1 \in 0 .. Seq1 /\ Seq1 # 0
      BY <1>0, <2>1 DEF Request, Seq1
    <3>2. /\ m.kind = "READ" => Request.cmd = CMD_READ
          /\ m.kind = "VER" => Request.cmd = CMD_VER
      BY <2>5 DEF KindOf
    <3> QED
      BY <2>5, <3>1, <3>2 DEF Sound
  <2>7. \A n \in Cores : Owes(requests, booted, n, Seq1) =>
          n \in {Request.core} /\ Writes(m, Seq1)
    BY <2>1, <2>5 DEF Owes, Writes, KindOf, ForOneCore, Request, Seq1
  <2>8. ~cmd_p2pc
    BY <2>1 DEF cmd_p2pc, ForOneCore
  <2> HIDE DEF m
  <2> QED
    BY <1>3, <2>1, <2>2, <2>4, <2>6, <2>7, <2>8
<1>5. CASE dispatch_as \/ flood_as
  <2>1. PICK D \in SUBSET Cores, arg \in Nat :
          Queue(D, Command("AS", arg)) /\ Receiving
    <3>1. \A C, mask : Masked(C, mask) \in SUBSET Cores
      BY DEF Masked, Board
    <3>2. CASE dispatch_as
      <4>1. Request.arg \in Nat
        BY <1>0, <3>2, RequestFields DEF dispatch_as
      <4> QED
        BY <3>1, <3>2, <4>1 DEF dispatch_as
    <3>3. CASE flood_as
      BY <3>1, <3>3 DEF flood_as, HostTypeOK
    <3> QED
      BY <1>5, <3>2, <3>3
  <2> DEFINE m == Command("AS", arg)
  <2>2. /\ Receiving /\ Receive({}) /\ KeepBoard /\ ~cmd_p2pc
        /\ Request.cmd \in {CMD_AS, CMD_NNP}
    BY <1>5 DEF dispatch_as, flood_as, cmd_p2pc
  <2>3. m \in Commands /\ m.of = Seq1 /\ m.kind = "AS"
    BY <2>1, CommandType DEF Command, Kinds
  <2>4. \A n \in D : Sound(requests, Seq1, n, m)
    BY <1>0, <2>1, <2>3 DEF Sound, Seq1
  <2>5. \A n : ~Owes(requests, booted, n, Seq1)
    BY <2>2 DEF Owes, Request, Seq1
  <2> HIDE DEF m
  <2>6. Queue(D, m)
    BY <2>1 DEF m
  <2> QED
    BY <1>3, <2>2, <2>3, <2>4, <2>5, <2>6
<1>6. CASE cmd_floodfill
  <2> DEFINE m == Command("WRITE", Request.arg)
  <2>1. /\ Receiving /\ Receive({}) /\ KeepBoard /\ Queue(FloodCores, m)
        /\ Request.cmd = CMD_FFD /\ ~cmd_p2pc
    BY <1>6 DEF cmd_floodfill, cmd_p2pc
  <2>2. m \in Commands
    <3>1. Request.arg \in Nat
      BY <1>0, <2>1, RequestFields
    <3> QED
      BY <2>1, <3>1, CommandType DEF Kinds
  <2>3. m.of = Seq1 /\ m.kind = "WRITE"
    BY DEF Command
  <2>4. \A n \in Cores : Sound(requests, Seq1, n, m)
    BY <1>0, <2>1, <2>3 DEF Sound, Seq1
  <2>5. FloodCores \in SUBSET Cores
    BY DEF FloodCores, Board
  <2>6. initialised => \A n \in Cores : Owes(requests, booted, n, Seq1) =>
          n \in FloodCores /\ Writes(m, Seq1)
    BY <2>1, <2>3 DEF Owes, Writes, FloodCores, Board, Request, Seq1
  <2> HIDE DEF m
  <2> QED
    BY <1>3, <2>1, <2>2, <2>4, <2>5, <2>6
<1>7. CASE dispatch_sdp_one
  <2> DEFINE m == [kind |-> "event", of |-> 0, arg |-> 0, tag |-> TAG_NONE]
             M == Ethernet \cup Messages \cup Finished
  <2>1. /\ Polled # <<>> /\ Polled \in Seq(M) /\ Head(Polled).kind = "sdp"
        /\ Queue({Head(Polled).core}, m)
        /\ UNCHANGED <<toCore, received, requests>>
    BY <1>7 DEF dispatch_sdp_one, TakePolled, Polled, HostTypeOK
  <2>2. Head(Polled) \in M
    BY <2>1, HeadTailProperties
  <2>3. Head(Polled).core \in Cores
    BY <2>1, <2>2 DEF Ethernet, Messages, Finished
  <2>4. m \in Commands
    BY DEF Commands, Kinds, TAG_NONE
  <2>5. \A n \in Cores : Sound(requests', received', n, m)
    BY <1>0, <2>1 DEF Sound
  <2>6. \A w : w \notin received + 1 .. received'
    BY <1>0, <2>1
  <2>7. ~cmd_p2pc
    BY <1>7 DEF dispatch_sdp_one, TakePolled, cmd_p2pc, Receiving
  <2> HIDE DEF m
  <2> QED
    BY <1>2, <2>1, <2>3, <2>4, <2>5, <2>6, <2>7, AcceptOrdered
<1>8. CASE \/ FloodStart \/ IgnoreNnp \/ IgnoreP2pc \/ cmd_iptag \/ NoBoard
           \/ EtherEmpty \/ dispatch_sdp_to_ether \/ CoreFinished
           \/ PollNext \/ Die \/ FlushNext \/ Flush
  <2>1. ~cmd_p2pc
    BY <1>8 DEF FloodStart, IgnoreNnp, IgnoreP2pc, cmd_iptag, IptagSet,
       IptagGet, IptagTto, IptagClr, IptagRefused, AnswerTag, NoBoard,
       EtherEmpty, dispatch_sdp_to_ether, CoreFinished, TakePolled, PollNext,
       Die, FlushNext, Flush, cmd_p2pc, Receiving, ForOneCore
  <2>2. Pending' = Pending
    <3>1. CASE Flush
      BY <3>1, FlushStep
    <3>2. CASE ~Flush
      <4>1. UNCHANGED <<toCore, sdp_queue>>
        BY <1>8, <3>2 DEF NoBoard, FloodStart, IgnoreNnp, IgnoreP2pc,
           cmd_iptag, IptagSet, IptagGet, IptagTto, IptagClr, IptagRefused,
           AnswerTag, EtherEmpty, dispatch_sdp_to_ether, CoreFinished,
           TakePolled, PollNext, Die, FlushNext, Step, KeepBoard
      <4> QED
        BY <4>1 DEF Pending
    <3> QED
      BY <3>1, <3>2
  <2>3. CASE NoBoard
    <3>1. ~initialised /\ booted' = booted
      BY <2>3 DEF NoBoard
    <3> QED
      BY <3>1 DEF Ordered, initialised
  <2>4. CASE FloodStart \/ IgnoreNnp \/ IgnoreP2pc \/ cmd_iptag
    <3>1. /\ Receiving /\ received' = Seq1
          /\ Request.cmd \notin {CMD_WRITE, CMD_FFD}
      BY <2>4 DEF FloodStart, IgnoreNnp, IgnoreP2pc, cmd_iptag, IptagSet,
         IptagGet, IptagTto, IptagClr, IptagRefused, AnswerTag, Receive, Seq1
    <3>2. \A n \in Cores : \A w \in received + 1 .. received' :
            ~Owes(requests, booted, n, w)
      BY <3>1, OwesNothing
    <3> QED
      BY <1>2, <2>1, <2>2, <3>2, QuietOrdered
  <2>5. CASE \/ EtherEmpty \/ dispatch_sdp_to_ether \/ CoreFinished
             \/ PollNext \/ Die \/ FlushNext \/ Flush
    <3>1. received' = received
      BY <2>5 DEF EtherEmpty, dispatch_sdp_to_ether, CoreFinished, TakePolled,
         PollNext, Die, FlushNext, Step, Flush, hostVars
    <3>2. \A w : w \notin received + 1 .. received'
      BY <1>0, <3>1
    <3> QED
      BY <1>2, <2>1, <2>2, <3>2, QuietOrdered
  <2> QED
    BY <1>8, <2>3, <2>4, <2>5
<1> QED
  BY <1>1, <1>4, <1>5, <1>6, <1>7, <1>8 DEF Dispatcher

\* A core executes a command; every write it owed until then is in memory.
LEMMA ReadOrdered ==
  ASSUME HostTypeOK, Ordered, Unbooted, NEW n \in Cores, ReadPacket(n)
  PROVE  /\ Ordered'
         /\ initialised /\ UNCHANGED <<booted, requests, received>>
         /\ Incoming(n) \in Commands
         /\ Sound(requests, received, n, Incoming(n))
         /\ \A w \in 1 .. Incoming(n).of :
              Owes(requests, booted, n, w) => w \in ram'[ChipOf(n)]
<1>0. PICK kinds : TakeIncoming(n, kinds)
  BY DEF ReadPacket, cmd_write, cmd_read, cmd_as, ReceiveEvent
<1>1. /\ toCore[n] # <<>> /\ UNCHANGED <<booted, requests, received>>
      /\ Incoming(n) \in Commands /\ received \in Nat
  <2>1. toCore[n] # <<>> /\ UNCHANGED <<booted, requests, received>>
    BY <1>0 DEF TakeIncoming, hostVars
  <2>2. Incoming(n) \in Commands
    BY <1>0, TakeIncomingType
  <2> QED
    BY <2>1, <2>2 DEF HostTypeOK
<1>2. initialised
  BY <1>1 DEF Unbooted
<1>3. /\ Pending' = [Pending EXCEPT ![n] = Tail(@)]
      /\ Pending[n] # <<>> /\ Pending[n] \in Seq(Commands)
      /\ Head(Pending[n]) = Incoming(n)
  <2>1. Service!Execute(n)
    BY <1>0, ExecuteStep
  <2>2. toCore[n] \in Seq(Commands) /\ sdp_queue[n] \in Seq(Commands)
    BY DEF HostTypeOK
  <2>3. Head(Pending[n]) = Head(toCore[n])
    BY <1>1, <2>2, HeadOfFirst DEF Pending
  <2> QED
    BY <2>1, <2>3, PendingType DEF Service!Execute, Incoming
<1>4. ASSUME NEW c \in Chips
      PROVE  ram[c] \subseteq ram'[c]
  BY DEF ReadPacket, cmd_write, cmd_read, cmd_as, ReceiveEvent, HostTypeOK
<1>5. ChipOf(n) \in Chips
  BY Board0
<1>6. Incoming(n).kind = "WRITE" => Incoming(n).of \in ram'[ChipOf(n)]
  <2>1. CASE cmd_write(n)
    BY <1>5, <2>1 DEF cmd_write, HostTypeOK
  <2>2. CASE cmd_read(n) \/ cmd_as(n) \/ ReceiveEvent(n)
    BY <2>2 DEF cmd_read, cmd_as, ReceiveEvent, TakeIncoming
  <2> QED
    BY <2>1, <2>2 DEF ReadPacket
<1>7. InOrder(requests, received, booted, ram[ChipOf(n)], Pending[n], n)
  BY <1>2 DEF Ordered
<1>8. /\ Sound(requests, received, n, Incoming(n))
      /\ InOrder(requests, received, booted, ram'[ChipOf(n)], Tail(Pending[n]), n)
      /\ \A w \in 1 .. Incoming(n).of :
           Owes(requests, booted, n, w) => w \in ram'[ChipOf(n)]
  <2>1. ram[ChipOf(n)] \subseteq ram'[ChipOf(n)]
    BY <1>4, <1>5
  <2>2. Head(Pending[n]).kind = "WRITE" =>
          Head(Pending[n]).of \in ram'[ChipOf(n)]
    BY <1>3, <1>6
  <2>3. /\ Sound(requests, received, n, Head(Pending[n]))
        /\ InOrder(requests, received, booted, ram'[ChipOf(n)],
                   Tail(Pending[n]), n)
        /\ \A w \in 1 .. Head(Pending[n]).of :
             Owes(requests, booted, n, w) => w \in ram'[ChipOf(n)]
    BY <1>1, <1>3, <1>7, <2>1, <2>2, OrderExecutes
  <2> QED
    BY <1>3, <2>3
<1>9. ASSUME NEW k \in Cores
      PROVE  InOrder(requests, received, booted, ram'[ChipOf(k)], Pending'[k], k)
  <2>1. CASE k = n
    <3>1. Pending'[k] = Tail(Pending[n])
      BY <1>3, <2>1, PendingType
    <3> QED
      BY <1>8, <2>1, <3>1
  <2>2. CASE k # n
    <3>1. Pending'[k] = Pending[k] /\ Pending[k] \in Seq(Commands)
      BY <1>3, <2>2, PendingType
    <3>2. ram[ChipOf(k)] \subseteq ram'[ChipOf(k)]
      BY <1>4, Board0
    <3>3. InOrder(requests, received, booted, ram[ChipOf(k)], Pending[k], k)
      BY <1>2 DEF Ordered
    <3>4. Takes(requests, received, requests, received)
      BY <1>1 DEF Takes
    <3>5. \A w : w \notin received + 1 .. received
      BY <1>1
    <3> QED
      BY <1>1, <3>1, <3>2, <3>3, <3>4, <3>5, OrderStays
  <2> QED
    BY <2>1, <2>2
<1>10. Ordered'
  BY <1>1, <1>9 DEF Ordered
<1> QED
  BY <1>1, <1>2, <1>8, <1>10

LEMMA OrderedStep ==
  ASSUME HostTypeOK, Ordered, NothingLost, Unbooted, [Next]_vars
  PROVE  Ordered'
<1>1. ASSUME NEW n \in Cores, ReadPacket(n)
      PROVE  Ordered'
  BY <1>1, ReadOrdered
<1>2. CASE UNCHANGED <<booted, ram, Pending, received>>
  <2>1. \A w : w \notin received + 1 .. received'
    BY <1>2 DEF HostTypeOK
  <2> QED
    BY <1>2, <2>1, QuietOrdered
<1>3. ASSUME NEW r \in Requests, HostSend(r)
      PROVE  Ordered'
  <2>1. UNCHANGED <<booted, ram, Pending, received>>
    BY <1>3 DEF HostSend, coreVars, Pending
  <2> QED
    BY <1>2, <2>1
<1>4. ASSUME NEW n \in Cores,
             \/ spin1_stop(n)
             \/ \E d \in Cores : spin1_send_sdp_msg(n, d)
             \/ io_printf(n)
      PROVE  Ordered'
  <2>1. UNCHANGED <<booted, ram, toCore, sdp_queue, received>>
    BY <1>4 DEF spin1_stop, spin1_send_sdp_msg, io_printf, AppSends, hostVars
  <2>2. Pending' = Pending
    BY <2>1 DEF Pending
  <2> QED
    BY <1>2, <2>1, <2>2
<1>5. CASE UNCHANGED vars
  <2>1. UNCHANGED <<booted, ram, toCore, sdp_queue, received>>
    BY <1>5 DEF vars, hostVars, coreVars
  <2>2. Pending' = Pending
    BY <2>1 DEF Pending
  <2> QED
    BY <1>2, <2>1, <2>2
<1> QED
  BY <1>1, <1>3, <1>4, <1>5, DispatcherOrdered DEF Next
-----------------------------------------------------------------------------
(* The replies and the programs.                                           *)

\* What the cores send stays what it is; the socket of one may change.
LEMMA SentStays ==
  ASSUME HostTypeOK, RepliesSent, [Next]_vars,
         \A n \in Cores : \A i \in 1 .. Len(fromCore'[n]) :
           \/ \E j \in 1 .. Len(fromCore[n]) : fromCore'[n][i] = fromCore[n][j]
           \/ Carried(requests', received', fromCore'[n][i])
  PROVE  RepliesSent'
<1>1. ASSUME NEW n \in Cores, NEW i \in 1 .. Len(fromCore'[n])
      PROVE  Carried(requests', received', fromCore'[n][i])
  <2>1. CASE \E j \in 1 .. Len(fromCore[n]) : fromCore'[n][i] = fromCore[n][j]
    <3>1. PICK j \in 1 .. Len(fromCore[n]) : fromCore'[n][i] = fromCore[n][j]
      BY <2>1
    <3>2. Carried(requests, received, fromCore[n][j])
      BY <3>1 DEF RepliesSent
    <3>3. Carried(requests', received', fromCore[n][j])
      BY <3>2, StepTakes, CarriedStays
    <3> QED
      BY <3>1, <3>3
  <2> QED
    BY <2>1
<1> QED
  BY <1>1 DEF RepliesSent

LEMMA SentDispatcher ==
  ASSUME HostTypeOK, RepliesSent, Dispatcher, [Next]_vars
  PROVE  RepliesSent'
<1> DEFINE M == Ethernet \cup Messages \cup Finished
<1>1. CASE fromCore' = fromCore
  BY <1>1, SentStays
<1>2. CASE cmd_p2pc
  <2>1. \A n \in Cores : fromCore'[n] = <<>>
    BY <1>2 DEF cmd_p2pc
  <2> QED
    BY <2>1, EmptySeq DEF RepliesSent
<1>3. CASE dispatch_sdp_to_ether \/ dispatch_sdp_one \/ CoreFinished
  <2>1. /\ fromCore[at] # <<>> /\ fromCore[at] \in Seq(M) /\ at \in Cores
        /\ fromCore' = [fromCore EXCEPT ![at] = Tail(@)]
    BY <1>3 DEF dispatch_sdp_to_ether, dispatch_sdp_one, CoreFinished,
       TakePolled, Polled, HostTypeOK
  <2>2. /\ Len(Tail(fromCore[at])) = Len(fromCore[at]) - 1
        /\ Len(fromCore[at]) \in Nat
        /\ \A i \in 1 .. Len(Tail(fromCore[at])) :
             Tail(fromCore[at])[i] = fromCore[at][i + 1]
    BY <2>1, HeadTailProperties, LenProperties
  <2>3. ASSUME NEW n \in Cores, NEW i \in 1 .. Len(fromCore'[n])
        PROVE  \E j \in 1 .. Len(fromCore[n]) : fromCore'[n][i] = fromCore[n][j]
    <3>1. CASE n = at
      <4>1. fromCore'[n] = Tail(fromCore[n])
        BY <2>1, <3>1 DEF HostTypeOK
      <4>2. i + 1 \in 1 .. Len(fromCore[n]) /\ fromCore'[n][i] = fromCore[n][i + 1]
        BY <2>2, <3>1, <4>1
      <4> QED
        BY <4>2
    <3>2. CASE n # at
      <4>1. fromCore'[n] = fromCore[n]
        BY <2>1, <3>2 DEF HostTypeOK
      <4> QED
        BY <4>1
    <3> QED
      BY <3>1, <3>2
  <2> QED
    BY <2>3, SentStays
<1>4. CASE ~(\/ cmd_p2pc \/ dispatch_sdp_to_ether \/ dispatch_sdp_one
             \/ CoreFinished)
  <2>1. fromCore' = fromCore
    BY <1>4 DEF Dispatcher, QueueCommand, NoBoard, dispatch_as, FloodStart,
       IgnoreNnp, cmd_floodfill, flood_as, IgnoreP2pc, cmd_iptag, IptagSet,
       IptagGet, IptagTto, IptagClr, IptagRefused, AnswerTag, EtherEmpty,
       PollNext, Flush, Die, FlushNext, Step, KeepBoard
  <2> QED
    BY <1>1, <2>1
<1> QED
  BY <1>2, <1>3, <1>4

\* A core sends a message, or the socket is full, or the core aborts.
LEMMA SentByCore ==
  ASSUME HostTypeOK, RepliesSent, [Next]_vars, NEW n \in Cores,
         NEW m \in Ethernet \cup Messages \cup Finished,
         Carried(requests', received', m),
         fromCore' \in {fromCore, [fromCore EXCEPT ![n] = Append(@, m)]}
  PROVE  RepliesSent'
<1> DEFINE M == Ethernet \cup Messages \cup Finished
<1>0. fromCore \in [Cores -> Seq(M)] /\ m \in M
  BY DEF HostTypeOK
<1> HIDE DEF M
<1>1. ASSUME NEW k \in Cores, NEW i \in 1 .. Len(fromCore'[k])
      PROVE  \/ \E j \in 1 .. Len(fromCore[k]) : fromCore'[k][i] = fromCore[k][j]
             \/ Carried(requests', received', fromCore'[k][i])
  <2>1. CASE fromCore'[k] = fromCore[k]
    BY <2>1
  <2>2. CASE k = n /\ fromCore'[k] = Append(fromCore[k], m)
    <3>1. /\ Len(fromCore[k]) \in Nat
          /\ Len(fromCore'[k]) = Len(fromCore[k]) + 1
          /\ \A j \in 1 .. Len(fromCore[k]) : fromCore'[k][j] = fromCore[k][j]
          /\ fromCore'[k][Len(fromCore[k]) + 1] = m
      BY <1>0, <2>2, AppendProperties, LenProperties
    <3>2. i \in 1 .. Len(fromCore[k]) \/ i = Len(fromCore[k]) + 1
      BY <3>1
    <3> QED
      BY <3>1, <3>2
  <2>3. fromCore'[k] = fromCore[k] \/ (k = n /\ fromCore'[k] = Append(fromCore[k], m))
    BY <1>0
  <2> QED
    BY <2>1, <2>2, <2>3
<1> QED
  BY <1>1, SentStays

LEMMA SendsAs ==
  ASSUME HostTypeOK, NEW n \in Cores, NEW m, SendAs(n, m)
  PROVE  fromCore' \in {fromCore, [fromCore EXCEPT ![n] = Append(@, m)]}
<1>1. CASE app[n].state = "monitor" \/ app[n].start \in Repaired
  <2>1. fromCore' = [fromCore EXCEPT ![n] = Sent(@, m)]
    BY <1>1 DEF SendAs
  <2>2. CASE Len(fromCore[n]) < SOCKET_SIZE
    BY <2>1, <2>2 DEF Sent
  <2>3. CASE ~(Len(fromCore[n]) < SOCKET_SIZE)
    BY <2>1, <2>3 DEF Sent, HostTypeOK
  <2> QED
    BY <2>2, <2>3
<1>2. CASE ~(app[n].state = "monitor" \/ app[n].start \in Repaired)
  BY <1>2 DEF SendAs
<1> QED
  BY <1>1, <1>2
LEMMA SentStep ==
  ASSUME HostTypeOK, Ordered, Unbooted, RepliesSent, [Next]_vars
  PROVE  RepliesSent'
<1> USE DEF CMD_READ, CMD_VER, CMD_IPTAG, CMD_WRITE
<1>1. CASE fromCore' = fromCore
  BY <1>1, SentStays
<1>2. ASSUME NEW r \in Requests, HostSend(r)
      PROVE  RepliesSent'
  BY <1>1, <1>2 DEF HostSend
<1>3. ASSUME NEW n \in Cores, cmd_read(n)
      PROVE  RepliesSent'
  <2> DEFINE c == Incoming(n)
             seen == IF c.kind = "READ" THEN ram[ChipOf(n)] ELSE {}
  <2>1. ReadPacket(n)
    BY <1>3 DEF ReadPacket
  <2>2. /\ c \in Commands /\ Sound(requests, received, n, c)
        /\ \A w \in 1 .. c.of :
             Owes(requests, booted, n, w) => w \in ram'[ChipOf(n)]
        /\ requests' = requests /\ received' = received
    BY <2>1, ReadOrdered
  <2>3. /\ c.kind \in {"READ", "VER"} /\ ram' = ram
        /\ SendAs(n, ToHost(c.of, c.tag, seen))
    BY <1>3 DEF cmd_read, TakeIncoming
  <2>4. seen \in SUBSET Nat
    BY Board0 DEF HostTypeOK
  <2> HIDE DEF c
  <2>5. /\ c.of \in 1 .. received
        /\ requests[c.of].cmd = IF c.kind = "READ" THEN CMD_READ ELSE CMD_VER
        /\ requests[c.of].core = n
    BY <2>2, <2>3 DEF Sound
  <2>6. Replied(requests, received, c.of, seen)
    <3>1. CASE c.kind = "READ"
      <4>1. \A w \in 1 .. c.of : requests[w].cmd = CMD_WRITE
              /\ requests[w].core = n => w \in seen
        BY <2>2, <2>3, <3>1 DEF Owes
      <4> QED
        BY <2>5, <3>1, <4>1 DEF Replied
    <3>2. CASE c.kind # "READ"
      BY <2>5, <3>2 DEF Replied
    <3> QED
      BY <3>1, <3>2
  <2> HIDE DEF seen
  <2> DEFINE m == ToHost(c.of, c.tag, seen)
  <2>7. m \in Ethernet /\ m.of = c.of /\ m.seen = seen
    BY <2>2, <2>4 DEF ToHost, Ethernet, Commands
  <2>8. requests[c.of].cmd # CMD_IPTAG
    BY <2>5
  <2> HIDE DEF m
  <2>9. Carried(requests', received', m)
    BY <2>2, <2>6, <2>7, <2>8 DEF Carried
  <2>10. SendAs(n, m)
    BY <2>3 DEF m
  <2> QED
    BY <2>7, <2>9, <2>10, SendsAs, SentByCore
<1>4. ASSUME NEW n \in Cores, cmd_write(n) \/ cmd_as(n) \/ ReceiveEvent(n)
      PROVE  RepliesSent'
  BY <1>1, <1>4 DEF cmd_write, cmd_as, ReceiveEvent
<1>5. ASSUME NEW n \in Cores, spin1_stop(n)
      PROVE  RepliesSent'
  <2> DEFINE m == [kind |-> "FINISHED"]
  <2>1. m \in Finished /\ m.kind # "ether"
    BY DEF Finished
  <2>2. fromCore' = [fromCore EXCEPT ![n] = Append(@, m)]
    BY <1>5 DEF spin1_stop
  <2> HIDE DEF m
  <2>3. Carried(requests', received', m)
    BY <2>1 DEF Carried
  <2> QED
    BY <2>1, <2>2, <2>3, SentByCore
<1>6. ASSUME NEW n \in Cores, NEW d \in Cores, spin1_send_sdp_msg(n, d)
      PROVE  RepliesSent'
  <2> DEFINE m == [kind |-> "sdp", core |-> d]
  <2>1. m \in Messages /\ m.kind # "ether"
    BY DEF Messages
  <2>2. fromCore' = [fromCore EXCEPT ![n] = Sent(@, m)]
    BY <1>6 DEF spin1_send_sdp_msg
  <2> HIDE DEF m
  <2>3. fromCore' \in {fromCore, [fromCore EXCEPT ![n] = Append(@, m)]}
    BY <2>2 DEF Sent, HostTypeOK
  <2>4. Carried(requests', received', m)
    BY <2>1 DEF Carried
  <2> QED
    BY <2>1, <2>3, <2>4, SentByCore
<1>7. ASSUME NEW n \in Cores, io_printf(n)
      PROVE  RepliesSent'
  <2> DEFINE m == ToHost(0, 0, {})
  <2>1. m \in Ethernet /\ m.of = 0
    BY DEF ToHost, Ethernet, TAG_NONE
  <2>2. SendAs(n, m)
    BY <1>7 DEF io_printf
  <2> HIDE DEF m
  <2>3. Carried(requests', received', m)
    BY <2>1 DEF Carried
  <2> QED
    BY <2>1, <2>2, <2>3, SendsAs, SentByCore
<1>8. CASE UNCHANGED vars
  BY <1>1, <1>8 DEF vars
<1> QED
  BY <1>2, <1>3, <1>4, <1>5, <1>6, <1>7, <1>8, SentDispatcher
     DEF Next, ReadPacket

LEMMA GivenStep ==
  ASSUME HostTypeOK, RepliesSent, RepliesGiven, [Next]_vars
  PROVE  RepliesGiven'
<1> USE DEF CMD_READ, CMD_VER, CMD_IPTAG
<1>0. received \in Nat
  BY DEF HostTypeOK
<1>1. ASSUME NEW a \in answers, a.kind = "reply"
      PROVE  Replied(requests', received', a.of, a.seen)
  BY <1>1, StepTakes, RepliedStays DEF RepliesGiven
<1>2. ASSUME \A a \in answers' : a \in answers \/ a.kind # "reply"
      PROVE  RepliesGiven'
  BY <1>1, <1>2 DEF RepliesGiven
<1>3. CASE dispatch_sdp_to_ether
  <2> DEFINE m == Head(Polled)
             x == ToEther(iptags, slot, m, 0, received)
  <2>1. /\ fromCore[at] # <<>> /\ m = Head(fromCore[at]) /\ m.kind = "ether"
        /\ answers' = answers \cup {x}
        /\ requests' = requests /\ received' = received
        /\ fromCore[at] \in Seq(Ethernet \cup Messages \cup Finished)
        /\ at \in Cores
    BY <1>3 DEF dispatch_sdp_to_ether, TakePolled, Polled, HostTypeOK
  <2>2. m = fromCore[at][1] /\ 1 \in 1 .. Len(fromCore[at])
    BY <2>1, EmptySeq, HeadTailProperties
  <2>3. Carried(requests, received, m)
    BY <2>1, <2>2 DEF RepliesSent
  <2> HIDE DEF m
  <2>4. /\ x.kind = "reply" => m.of # 0
        /\ x.of = m.of /\ x.seen = m.seen
    BY DEF ToEther, Datagram
  <2> HIDE DEF x
  <2>5. x.kind = "reply" => Replied(requests', received', x.of, x.seen)
    BY <2>1, <2>3, <2>4 DEF Carried
  <2> QED
    BY <1>1, <2>1, <2>5 DEF RepliesGiven
<1>4. ASSUME NEW value, NEW table, AnswerTag(value, table)
      PROVE  RepliesGiven'
  <2> DEFINE x == ToEther(table, Sender,
                          [of |-> Seq1, tag |-> Request.tag, seen |-> {}],
                          value, Seq1)
  <2>1. /\ Request.cmd = CMD_IPTAG
        /\ answers' = answers \cup Acknowledged \cup {x}
        /\ requests' = requests /\ received' = Seq1
    BY <1>4 DEF AnswerTag, Receive, Seq1
  <2>2. x.of = Seq1 /\ x.seen = {}
    BY DEF ToEther, Datagram
  <2> HIDE DEF x
  <2>3. Replied(requests', received', x.of, x.seen)
    BY <1>0, <2>1, <2>2 DEF Replied, Request, Seq1
  <2>4. \A a \in Acknowledged : a.kind # "reply"
    BY DEF Acknowledged, Datagram
  <2> QED
    BY <1>1, <2>1, <2>3, <2>4 DEF RepliesGiven
<1>5. CASE cmd_iptag
  BY <1>4, <1>5 DEF cmd_iptag, IptagSet, IptagGet, IptagTto, IptagClr,
     IptagRefused
<1>6. CASE Receive({})
  <2>1. \A a \in Acknowledged : a.kind # "reply"
    BY DEF Acknowledged, Datagram
  <2>2. answers' = answers \cup Acknowledged
    BY <1>6 DEF Receive
  <2> QED
    BY <1>2, <2>1, <2>2
<1>7. CASE Dispatcher
  <2>1. \/ cmd_iptag \/ dispatch_sdp_to_ether \/ Receive({})
        \/ answers' = answers
    BY <1>7 DEF Dispatcher, QueueCommand, NoBoard, dispatch_as, FloodStart,
       IgnoreNnp, cmd_floodfill, flood_as, cmd_p2pc, IgnoreP2pc, EtherEmpty,
       dispatch_sdp_one, CoreFinished, PollNext, Flush, Die, FlushNext, Step,
       hostVars
  <2> QED
    BY <1>2, <1>3, <1>5, <1>6, <2>1
<1>8. ASSUME NEW n \in Cores,
             \/ ReadPacket(n) \/ spin1_stop(n)
             \/ \E d \in Cores : spin1_send_sdp_msg(n, d)
             \/ io_printf(n)
      PROVE  RepliesGiven'
  <2>1. answers' = answers
    BY <1>8 DEF ReadPacket, cmd_write, cmd_read, cmd_as, ReceiveEvent,
       TakeIncoming, spin1_stop, spin1_send_sdp_msg, io_printf, AppSends,
       hostVars
  <2> QED
    BY <1>2, <2>1
<1>9. CASE UNCHANGED vars \/ \E r \in Requests : HostSend(r)
  <2>1. answers' = answers
    BY <1>9 DEF vars, hostVars, HostSend
  <2> QED
    BY <1>2, <2>1
<1> QED
  BY <1>7, <1>8, <1>9 DEF Next

LEMMA LostStep ==
  ASSUME HostTypeOK, Unbooted, NothingLost, [Next]_vars
  PROVE  NothingLost'
<1> SUFFICES ASSUME booted' = -1, pc' # "dead"
             PROVE  \A k \in 1 .. received' : ~ForOneCore(requests'[k].cmd)
  BY DEF NothingLost, initialised
<1>0. received \in Nat
  BY DEF HostTypeOK
<1>1. ~cmd_p2pc
  <2>1. cmd_p2pc => booted' = received + 1
    BY DEF cmd_p2pc, Seq1
  <2> QED
    BY <1>0, <2>1
<1>2. ~initialised
  BY <1>1, BootedStays DEF initialised
<1>3. Takes(requests, received, requests', received')
  BY StepTakes
<1>4. ASSUME pc # "dead", received' = received
      PROVE  \A k \in 1 .. received' : ~ForOneCore(requests'[k].cmd)
  BY <1>2, <1>3, <1>4 DEF NothingLost, Takes
<1>5. ASSUME Receiving, ~ForOneCore(Request.cmd)
      PROVE  \A k \in 1 .. received' : ~ForOneCore(requests'[k].cmd)
  <2>1. pc # "dead"
    BY <1>5 DEF Receiving
  <2>2. \A k \in 1 .. received' : k \in 1 .. received \/ k = received + 1
    BY <1>0, <1>3 DEF Takes
  <2>3. \A k \in 1 .. received' : ~ForOneCore(requests[k].cmd)
    BY <1>2, <1>5, <2>1, <2>2 DEF NothingLost, Request
  <2> QED
    BY <1>3, <2>3 DEF Takes
<1>6. CASE Dispatcher
  <2>1. CASE \/ dispatch_as \/ FloodStart \/ IgnoreNnp \/ cmd_floodfill
             \/ flood_as \/ IgnoreP2pc \/ cmd_iptag
    <3>1. Receiving /\ ~ForOneCore(Request.cmd)
      BY <2>1 DEF dispatch_as, FloodStart, IgnoreNnp, cmd_floodfill, flood_as,
         IgnoreP2pc, cmd_iptag, IptagSet, IptagGet, IptagTto, IptagClr,
         IptagRefused, AnswerTag, ForOneCore
    <3> QED
      BY <1>5, <3>1
  <2>2. ~(QueueCommand \/ NoBoard)
    BY <1>2 DEF QueueCommand, NoBoard
  <2>3. CASE \/ EtherEmpty \/ dispatch_sdp_to_ether \/ dispatch_sdp_one
             \/ CoreFinished \/ PollNext \/ Flush \/ Die \/ FlushNext
    <3>1. received' = received /\ pc # "dead"
      BY <2>3 DEF EtherEmpty, dispatch_sdp_to_ether, dispatch_sdp_one,
         CoreFinished, TakePolled, PollNext, Flush, Die, FlushNext, Step,
         hostVars
    <3> QED
      BY <1>4, <3>1
  <2> QED
    BY <1>1, <1>6, <2>1, <2>2, <2>3 DEF Dispatcher
<1>7. ASSUME NEW n \in Cores,
             \/ ReadPacket(n) \/ spin1_stop(n)
             \/ \E d \in Cores : spin1_send_sdp_msg(n, d)
             \/ io_printf(n)
      PROVE  received' = received /\ pc' = pc
  BY <1>7 DEF ReadPacket, cmd_write, cmd_read, cmd_as, ReceiveEvent,
     TakeIncoming, spin1_stop, spin1_send_sdp_msg, io_printf, AppSends,
     hostVars, place
<1>8. ASSUME UNCHANGED vars \/ \E r \in Requests : HostSend(r)
      PROVE  received' = received /\ pc' = pc
  BY <1>8 DEF vars, hostVars, HostSend, place
<1> QED
  BY <1>4, <1>6, <1>7, <1>8 DEF Next
LEMMA WholeStep ==
  ASSUME HostTypeOK, Ordered, Unbooted, ProgramsWhole, [Next]_vars
  PROVE  ProgramsWhole'
<1>0. app \in [Cores -> Programs] /\ received \in Nat
  BY DEF HostTypeOK
\* A program that does not change stays whole.
<1>1. ASSUME NEW n \in Cores, app[n].by \in Nat, booted' = booted,
             app'[n].by = app[n].by, app'[n].over = app[n].over
      PROVE  /\ app'[n].by # 0 => initialised'
             /\ Whole(requests', received', booted', n, app'[n])
  <2>1. /\ app[n].by # 0 => initialised
        /\ Whole(requests, received, booted, n, app[n])
    BY DEF ProgramsWhole
  <2>2. Whole(requests', received', booted, n, app[n])
    BY <1>1, <2>1, StepTakes, WholeStays
  <2> QED
    BY <1>1, <2>1, <2>2 DEF Whole, initialised
<1>2. \A n \in Cores : app[n].by \in Nat
  BY <1>0 DEF Programs
<1>3. ASSUME booted' = booted,
             \A n \in Cores : app'[n].by = app[n].by /\ app'[n].over = app[n].over
      PROVE  ProgramsWhole'
  BY <1>1, <1>2, <1>3 DEF ProgramsWhole
<1>4. CASE cmd_p2pc
  <2>1. ~initialised /\ app' = app
    BY <1>4 DEF cmd_p2pc, Boots, Receive, coreVars
  <2>2. \A n \in Cores : app'[n].by = 0
    BY <2>1 DEF ProgramsWhole
  <2> QED
    BY <2>2 DEF ProgramsWhole, Whole
<1>5. ASSUME ~cmd_p2pc
      PROVE  booted' = booted
  BY <1>5, BootedStays
<1>6. CASE Dispatcher
  <2>1. app' = app
    BY <1>6 DEF Dispatcher, QueueCommand, NoBoard, dispatch_as, FloodStart,
       IgnoreNnp, cmd_floodfill, flood_as, cmd_p2pc, IgnoreP2pc, cmd_iptag,
       IptagSet, IptagGet, IptagTto, IptagClr, IptagRefused, AnswerTag,
       EtherEmpty, dispatch_sdp_to_ether, dispatch_sdp_one, CoreFinished,
       TakePolled, PollNext, Flush, Die, FlushNext, Step, Receive, coreVars
  <2> QED
    BY <1>3, <1>4, <1>5, <2>1
<1>7. ASSUME NEW n \in Cores, cmd_as(n)
      PROVE  ProgramsWhole'
  <2>1. ReadPacket(n)
    BY <1>7 DEF ReadPacket
  <2>2. /\ initialised /\ UNCHANGED <<booted, requests, received>>
        /\ Incoming(n) \in Commands
        /\ Sound(requests, received, n, Incoming(n))
        /\ \A w \in 1 .. Incoming(n).of :
             Owes(requests, booted, n, w) => w \in ram'[ChipOf(n)]
    BY <2>1, ReadOrdered
  <2>3. /\ app' = [app EXCEPT ![n] =
             [by |-> Incoming(n).of, start |-> Incoming(n).arg,
              over |-> ram[ChipOf(n)], state |-> "running"]]
        /\ ram' = ram
    BY <1>7 DEF cmd_as
  <2>4. /\ app'[n].by = Incoming(n).of /\ app'[n].over = ram[ChipOf(n)]
        /\ \A k \in Cores \ {n} : app'[k] = app[k]
    BY <1>0, <2>3
  <2>5. Whole(requests', received', booted', n, app'[n])
    BY <1>0, <2>2, <2>3, <2>4 DEF Whole, Sound
  <2> QED
    BY <1>1, <1>2, <2>2, <2>4, <2>5 DEF ProgramsWhole, initialised
\* An application that aborts is still the one that was started.
<1>8. ASSUME NEW n \in Cores,
             \/ cmd_write(n) \/ cmd_read(n) \/ ReceiveEvent(n)
             \/ spin1_stop(n)
             \/ \E d \in Cores : spin1_send_sdp_msg(n, d)
             \/ io_printf(n)
      PROVE  ProgramsWhole'
  <2>1. \/ app' = app
        \/ app' = [app EXCEPT ![n].state = "aborted"]
    BY <1>8 DEF cmd_write, cmd_read, ReceiveEvent, spin1_stop,
       spin1_send_sdp_msg, io_printf, SendAs
  <2>2. \A k \in Cores : app'[k].by = app[k].by /\ app'[k].over = app[k].over
    BY <1>0, <2>1 DEF Programs
  <2>3. booted' = booted
    BY <1>8 DEF cmd_write, cmd_read, ReceiveEvent, TakeIncoming, spin1_stop,
       spin1_send_sdp_msg, io_printf, AppSends
  <2> QED
    BY <1>3, <2>2, <2>3
<1>9. CASE UNCHANGED vars \/ \E r \in Requests : HostSend(r)
  <2>1. app' = app /\ booted' = booted
    BY <1>9 DEF vars, HostSend, coreVars
  <2> QED
    BY <1>3, <2>1
<1> QED
  BY <1>6, <1>7, <1>8, <1>9 DEF Next, ReadPacket

-----------------------------------------------------------------------------
LEMMA SafeInit == Init => Safe
<1> SUFFICES ASSUME Init PROVE Safe
  OBVIOUS
<1>1. HostTypeOK /\ Unbooted /\ received = 0 /\ answers = {}
  BY InitType, UnbootedInit DEF Init
<1>2. \A w : w \notin 1 .. 0
  OBVIOUS
<1>3. Ordered
  <2>1. ASSUME NEW n \in Cores
        PROVE  InOrder(requests, received, booted, ram[ChipOf(n)], Pending[n], n)
    <3>1. toCore[n] = <<>> /\ sdp_queue[n] = <<>>
      BY DEF Init
    <3>2. <<>> \o <<>> = <<>>
      BY EmptySeq, ConcatEmptySeq
    <3>3. Pending[n] = <<>>
      BY <3>1, <3>2 DEF Pending
    <3>4. InOrder(requests, 0, booted, ram[ChipOf(n)], <<>>, n)
      BY <1>2, OrderBegins
    <3> QED
      BY <1>1, <3>3, <3>4
  <2> QED
    BY <2>1 DEF Ordered
<1>4. NothingLost /\ RepliesGiven
  BY <1>1, <1>2 DEF NothingLost, RepliesGiven
<1>5. RepliesSent
  <2>1. \A n \in Cores : fromCore[n] = <<>>
    BY DEF Init
  <2> QED
    BY <2>1, EmptySeq DEF RepliesSent
<1>6. ProgramsWhole
  <2>1. \A n \in Cores : app[n].by = 0
    BY DEF Init, Monitor
  <2> QED
    BY <2>1 DEF ProgramsWhole, Whole
<1> QED
  BY <1>1, <1>3, <1>4, <1>5, <1>6 DEF Safe

LEMMA Safety == Spec => []Safe
<1>1. Safe /\ [Next]_vars => Safe'
  <2> SUFFICES ASSUME Safe, [Next]_vars PROVE Safe'
    OBVIOUS
  <2>1. HostTypeOK' /\ Unbooted' /\ Ordered'
    BY StepType, UnbootedStep, OrderedStep DEF Safe
  <2>2. NothingLost' /\ RepliesSent' /\ RepliesGiven' /\ ProgramsWhole'
    BY LostStep, SentStep, GivenStep, WholeStep DEF Safe
  <2> QED
    BY <2>1, <2>2 DEF Safe
<1> QED
  BY <1>1, SafeInit, PTL DEF Spec

\* A READ through a core sees every WRITE that was sent before it through the
\* same core, though the host was told that the write was done before it was,
\* and though commands wait in a queue and in a socket.
THEOREM WritesSeen == Spec => []ReadsSeeWrites
<1>1. Safe => ReadsSeeWrites
  <2> SUFFICES ASSUME Safe, NEW a \in Replies(CMD_READ), NEW w \in 1 .. a.of,
                      requests[w].cmd = CMD_WRITE,
                      requests[w].core = requests[a.of].core
               PROVE  w \in a.seen
    BY DEF ReadsSeeWrites
  <2>1. a \in answers /\ a.kind = "reply" /\ requests[a.of].cmd = CMD_READ
    BY DEF Replies
  <2>2. Replied(requests, received, a.of, a.seen)
    BY <2>1 DEF Safe, RepliesGiven
  <2> QED
    BY <2>1, <2>2 DEF Replied
<1> QED
  BY <1>1, Safety, PTL

\* A flooded program starts over all the blocks of its image that were sent
\* once the board was set up, on boards of any size, however late a core comes
\* to its WRITE and AS commands.
THEOREM FloodsWhole == Spec => []FloodIsWhole
<1>1. Safe => FloodIsWhole
  <2> SUFFICES ASSUME Safe, NEW n \in Cores, CpuOf(n) = 1, app[n].by # 0,
                      NEW b \in booted + 1 .. app[n].by,
                      requests[b].cmd = CMD_FFD
               PROVE  b \in app[n].over
    BY DEF FloodIsWhole
  <2>1. /\ booted \in Nat \cup {-1} /\ app[n].by \in Nat
        /\ initialised /\ Whole(requests, received, booted, n, app[n])
    BY DEF Safe, HostTypeOK, Programs, ProgramsWhole
  <2>2. booted \in Nat /\ b \in 1 .. app[n].by /\ booted < b
    BY <2>1 DEF initialised
  <2> QED
    BY <2>1, <2>2 DEF Whole, Owes
<1> QED
  BY <1>1, Safety, PTL
-----------------------------------------------------------------------------
(* Messages with a tag go where the tag was sent last.                     *)

Givers(t) == {k \in 1 .. received : GivesTag(k, t)}

\* host is what the requests G, as far as the n-th, make of tag t.
AsTold(R, G, t, host, n) ==
  LET g == {k \in G : k <= n}
  IN  IF g = {} THEN host = iptag_init[t].to
      ELSE \E k \in g : (\A j \in g : j <= k) /\ host = R[k].to

TagsTold ==
  \A t \in Tags : AsTold(requests, Givers(t), t, iptags[t].to, received)

AnswersTold ==
  \A a \in answers :
    /\ a.asOf \in 0 .. received
    /\ a.tag \in Tags =>
         AsTold(requests, Givers(a.tag), a.tag, a.host, a.asOf)

LEMMA AsToldStays ==
  ASSUME NEW R, NEW G \in SUBSET Nat, NEW R2, NEW G2 \in SUBSET Nat,
         NEW t, NEW host, NEW n \in Nat, NEW n2 \in Nat,
         {k \in G2 : k <= n2} = {k \in G : k <= n},
         \A k \in G : k <= n => R2[k] = R[k],
         AsTold(R, G, t, host, n)
  PROVE  AsTold(R2, G2, t, host, n2)
<1> DEFINE g == {k \in G : k <= n}
<1>1. {k \in G2 : k <= n2} = g /\ \A k \in g : R2[k] = R[k]
  OBVIOUS
<1>2. IF g = {} THEN host = iptag_init[t].to
      ELSE \E k \in g : (\A j \in g : j <= k) /\ host = R[k].to
  BY DEF AsTold
<1> HIDE DEF g
<1>3. IF g = {} THEN host = iptag_init[t].to
      ELSE \E k \in g : (\A j \in g : j <= k) /\ host = R2[k].to
  BY <1>1, <1>2
<1> QED
  BY <1>1, <1>3 DEF AsTold

\* The last to be told is told.
LEMMA LastTold ==
  ASSUME NEW R, NEW G \in SUBSET Nat, NEW t, NEW n \in Nat, n \in G
  PROVE  AsTold(R, G, t, R[n].to, n)
  BY DEF AsTold

\* The replies of a step are to the request it takes, or from a core.
LEMMA NewReplies ==
  ASSUME Safe, [Next]_vars
  PROVE  /\ answers \subseteq answers'
         /\ \A a \in answers' \ answers : a.kind = "reply" =>
              \/ requests[a.of].cmd # CMD_IPTAG /\ a.of \in 1 .. received
              \/ a.of = Seq1
<1>1. CASE dispatch_sdp_to_ether
  <2> DEFINE m == Head(Polled)
             x == ToEther(iptags, slot, m, 0, received)
  <2>1. /\ fromCore[at] # <<>> /\ m = Head(fromCore[at]) /\ m.kind = "ether"
        /\ answers' = answers \cup {x}
        /\ fromCore[at] \in Seq(Ethernet \cup Messages \cup Finished)
        /\ at \in Cores
    BY <1>1 DEF dispatch_sdp_to_ether, TakePolled, Polled, Safe, HostTypeOK
  <2>2. m = fromCore[at][1] /\ 1 \in 1 .. Len(fromCore[at])
    BY <2>1, EmptySeq, HeadTailProperties
  <2>3. Carried(requests, received, m)
    BY <2>1, <2>2 DEF Safe, RepliesSent
  <2> HIDE DEF m
  <2>4. (x.kind = "reply" => m.of # 0) /\ x.of = m.of
    BY DEF ToEther, Datagram
  <2> HIDE DEF x
  <2> QED
    BY <2>1, <2>3, <2>4 DEF Carried, Replied
<1>2. ASSUME NEW value, NEW table, AnswerTag(value, table)
      PROVE  /\ answers \subseteq answers'
             /\ \A a \in answers' \ answers : a.kind = "reply" => a.of = Seq1
  BY <1>2 DEF AnswerTag, Receive, Acknowledged, ToEther, Datagram
<1>3. CASE cmd_iptag
  BY <1>2, <1>3 DEF cmd_iptag, IptagSet, IptagGet, IptagTto, IptagClr,
     IptagRefused
<1>4. CASE Receive({})
  BY <1>4 DEF Receive, Acknowledged, Datagram
<1>5. CASE Dispatcher
  <2>1. \/ cmd_iptag \/ dispatch_sdp_to_ether \/ Receive({})
        \/ answers' = answers
    BY <1>5 DEF Dispatcher, QueueCommand, NoBoard, dispatch_as, FloodStart,
       IgnoreNnp, cmd_floodfill, flood_as, cmd_p2pc, IgnoreP2pc, EtherEmpty,
       dispatch_sdp_one, CoreFinished, PollNext, Flush, Die, FlushNext, Step,
       hostVars
  <2> QED
    BY <1>1, <1>3, <1>4, <2>1
<1>6. ASSUME NEW n \in Cores,
             \/ ReadPacket(n) \/ spin1_stop(n)
             \/ \E d \in Cores : spin1_send_sdp_msg(n, d)
             \/ io_printf(n)
      PROVE  answers' = answers
  BY <1>6 DEF ReadPacket, cmd_write, cmd_read, cmd_as, ReceiveEvent,
     TakeIncoming, spin1_stop, spin1_send_sdp_msg, io_printf, AppSends,
     hostVars
<1>7. ASSUME UNCHANGED vars \/ \E r \in Requests : HostSend(r)
      PROVE  answers' = answers
  BY <1>7 DEF vars, hostVars, HostSend
<1> QED
  BY <1>5, <1>6, <1>7 DEF Next

\* Who has given a tag an address is settled when the request is taken.
LEMMA GiversSettled ==
  ASSUME Safe, [Next]_vars
  PROVE  \A t : \A k \in 1 .. received : GivesTag(k, t)' <=> GivesTag(k, t)
<1> SUFFICES ASSUME NEW t, NEW k \in 1 .. received
             PROVE  GivesTag(k, t)' <=> GivesTag(k, t)
  OBVIOUS
<1>1. received \in Nat /\ Seq1 = received + 1 /\ k # Seq1
      /\ requests'[k] = requests[k]
  <2>1. HostTypeOK /\ Takes(requests, received, requests', received')
    BY StepTakes DEF Safe
  <2> QED
    BY <2>1 DEF HostTypeOK, Takes, Seq1
<1>2. requests[k].cmd = CMD_IPTAG =>
        ((\E a \in answers' : a.of = k /\ a.kind = "reply" /\ a.value = t)
          <=> (\E a \in answers : a.of = k /\ a.kind = "reply" /\ a.value = t))
  BY <1>1, NewReplies
<1> QED
  BY <1>1, <1>2 DEF GivesTag

\* The address book and those who wrote it, in a step that writes t, if any.
LEMMA TagStep ==
  ASSUME Safe, TagsTold, AnswersTold, [Next]_vars,
         NEW W \in SUBSET Tags,
         \A t \in Tags : \A k \in received + 1 .. received' :
           GivesTag(k, t)' <=> t \in W,
         \A t \in Tags \ W : iptags'[t].to = iptags[t].to,
         \A t \in W : /\ received' = received + 1
                      /\ iptags'[t].to = requests'[received'].to,
         \A a \in answers' \ answers :
           /\ a.asOf = received'
           /\ a.tag \in Tags => a.host = iptags'[a.tag].to
  PROVE  TagsTold' /\ AnswersTold'
<1>0. /\ received \in Nat /\ received' \in Nat
      /\ received' \in {received, received + 1}
      /\ \A k \in 1 .. received' : requests'[k] = requests[k]
      /\ HostTypeOK
  <2>1. HostTypeOK /\ Takes(requests, received, requests', received')
    BY StepTakes DEF Safe
  <2>2. received \in Nat
    BY <2>1 DEF HostTypeOK
  <2>3. /\ received' \in {received, received + 1}
        /\ \A k \in 1 .. received' : requests'[k] = requests[k]
    BY <2>1 DEF Takes
  <2> QED
    BY <2>1, <2>2, <2>3
<1>1. ASSUME NEW t \in Tags
      PROVE  /\ Givers(t) \in SUBSET Nat /\ Givers(t)' \in SUBSET Nat
             /\ Givers(t) \subseteq 1 .. received
             /\ t \in W => received' \in Givers(t)'
             /\ t \notin W => Givers(t)' = Givers(t)
             /\ \A k \in 1 .. received : k \in Givers(t)' <=> k \in Givers(t)
  <2>1. /\ Givers(t) = {k \in 1 .. received : GivesTag(k, t)}
        /\ Givers(t)' = {k \in 1 .. received' : GivesTag(k, t)'}
    BY DEF Givers
  <2>2. \A k \in 1 .. received : GivesTag(k, t)' <=> GivesTag(k, t)
    BY GiversSettled
  <2>3. \A k \in 1 .. received' :
          k \in 1 .. received \/ k \in received + 1 .. received'
    BY <1>0
  <2>4. \A k \in 1 .. received : k \in 1 .. received'
    BY <1>0
  <2>5. t \in W => received' \in received + 1 .. received' /\ received' \in 1 .. received'
    BY <1>0
  <2>6. \A k \in received + 1 .. received' : GivesTag(k, t)' <=> t \in W
    OBVIOUS
  <2>7. Givers(t) \in SUBSET Nat /\ Givers(t)' \in SUBSET Nat
        /\ Givers(t) \subseteq 1 .. received
    BY <2>1
  <2>8. t \in W => received' \in Givers(t)'
    BY <2>1, <2>5, <2>6
  <2>9. \A k \in 1 .. received : k \in Givers(t)' <=> k \in Givers(t)
    BY <2>1, <2>2, <2>4
  <2>10. t \notin W => Givers(t)' = Givers(t)
    BY <2>1, <2>2, <2>3, <2>4, <2>6
  <2> QED
    BY <2>7, <2>8, <2>9, <2>10
<1>2. ASSUME NEW t \in Tags
      PROVE  AsTold(requests', Givers(t)', t, iptags'[t].to, received')
  <2>1. CASE t \in W
    BY <1>0, <1>1, <2>1, LastTold
  <2>2. CASE t \notin W
    <3>1. AsTold(requests, Givers(t), t, iptags[t].to, received)
      BY DEF TagsTold
    <3>2. {k \in Givers(t)' : k <= received'} = {k \in Givers(t) : k <= received}
      <4>1. \A k \in Givers(t) : k <= received /\ k <= received'
        BY <1>0, <1>1
      <4> QED
        BY <1>1, <2>2, <4>1
    <3>3. \A k \in Givers(t) : k <= received => requests'[k] = requests[k]
      BY <1>0, <1>1
    <3>4. AsTold(requests', Givers(t)', t, iptags[t].to, received')
      BY <1>0, <1>1, <3>1, <3>2, <3>3, AsToldStays
    <3> QED
      BY <2>2, <3>4
  <2> QED
    BY <2>1, <2>2
<1>3. ASSUME NEW a \in answers'
      PROVE  /\ a.asOf \in 0 .. received'
             /\ a.tag \in Tags =>
                  AsTold(requests', Givers(a.tag)', a.tag, a.host, a.asOf)
  <2>1. CASE a \in answers
    <3>1. /\ a.asOf \in 0 .. received
          /\ a.tag \in Tags =>
               AsTold(requests, Givers(a.tag), a.tag, a.host, a.asOf)
      BY <2>1 DEF AnswersTold
    <3>2. a.asOf \in 0 .. received' /\ a.asOf \in Nat
      BY <1>0, <3>1
    <3>3. ASSUME a.tag \in Tags
          PROVE  AsTold(requests', Givers(a.tag)', a.tag, a.host, a.asOf)
      <4>1. {k \in Givers(a.tag)' : k <= a.asOf} = {k \in Givers(a.tag) : k <= a.asOf}
        <5>1. \A k \in Givers(a.tag)' : k <= a.asOf => k \in 1 .. received
          <6>1. \A k \in Givers(a.tag)' : k \in 1 .. received'
            BY DEF Givers
          <6> QED
            BY <1>0, <3>1, <6>1
        <5> QED
          BY <1>1, <3>3, <5>1
      <4>2. \A k \in Givers(a.tag) : k <= a.asOf => requests'[k] = requests[k]
        BY <1>0, <1>1, <3>3
      <4> QED
        BY <1>1, <3>1, <3>2, <3>3, <4>1, <4>2, AsToldStays
    <3> QED
      BY <3>2, <3>3
  <2>2. CASE a \notin answers
    <3>1. a.asOf = received' /\ (a.tag \in Tags => a.host = iptags'[a.tag].to)
      BY <2>2
    <3> QED
      BY <1>0, <1>2, <3>1
  <2> QED
    BY <2>1, <2>2
<1> QED
  BY <1>2, <1>3 DEF TagsTold, AnswersTold
\* Steps that leave the tags alone.
LEMMA NoTagStep ==
  ASSUME Safe, TagsTold, AnswersTold, [Next]_vars, iptags' = iptags,
         received' = received + 1 => Request.cmd # CMD_IPTAG,
         \A a \in answers' \ answers :
           /\ a.asOf = received'
           /\ a.tag \in Tags => a.host = iptags[a.tag].to
  PROVE  TagsTold' /\ AnswersTold'
<1>1. /\ received \in Nat /\ received' \in {received, received + 1}
      /\ \A k \in 1 .. received' : requests'[k] = requests[k]
  <2>1. HostTypeOK /\ Takes(requests, received, requests', received')
    BY StepTakes DEF Safe
  <2> QED
    BY <2>1 DEF HostTypeOK, Takes
<1>2. ASSUME NEW t \in Tags, NEW k \in received + 1 .. received'
      PROVE  ~GivesTag(k, t)'
  <2>1. k = received + 1 /\ received' = received + 1 /\ requests'[k] = requests[k]
    BY <1>1
  <2>2. requests'[k].cmd # CMD_IPTAG
    BY <2>1 DEF Request
  <2> QED
    BY <2>2 DEF GivesTag
<1>3. {} \in SUBSET Tags
  OBVIOUS
<1> QED
  BY <1>2, <1>3, TagStep

LEMMA OkAnswers ==
  ASSUME Receive({})
  PROVE  \A a \in answers' \ answers : a.asOf = received' /\ a.tag \notin Tags
<1>1. TAG_NONE \notin Tags
  BY DEF TAG_NONE, Tags, TAG_TABLE_SIZE
<1> QED
  BY <1>1 DEF Receive, Acknowledged, Datagram, Seq1

\* Steps of cmd_iptag: the new table, and what the request is told.
LEMMA AnswerTagStep ==
  ASSUME Safe, TagsTold, AnswersTold, [Next]_vars, NEW value, NEW table,
         AnswerTag(value, table), NEW W \in SUBSET Tags,
         \A t \in Tags : t \in W <=>
           /\ Request.arg \in Tags
           /\ \/ Request.op = IPTAG_SET /\ Request.arg = t
              \/ Request.op = IPTAG_NEW /\ value = t,
         \A t \in Tags \ W : table[t].to = iptags[t].to,
         \A t \in W : table[t].to = Request.to
  PROVE  TagsTold' /\ AnswersTold'
<1> DEFINE x == ToEther(table, Sender,
                        [of |-> Seq1, tag |-> Request.tag, seen |-> {}],
                        value, Seq1)
<1>1. /\ requests' = requests /\ received' = received + 1 /\ iptags' = table
      /\ answers' = answers \cup Acknowledged \cup {x}
      /\ Request.cmd = CMD_IPTAG /\ Request = requests[received + 1]
      /\ received \in Nat /\ Seq1 = received + 1
  BY DEF AnswerTag, Receive, Request, Seq1, Safe, HostTypeOK
<1>2. /\ x.of = Seq1 /\ x.kind = "reply" /\ x.value = value
      /\ x.asOf = Seq1 /\ x.tag = Request.tag
      /\ x.tag \in Tags => x.host = table[x.tag].to
  BY <1>1 DEF ToEther, Datagram
<1> HIDE DEF x
<1>3. \A a \in Acknowledged :
        a.asOf = Seq1 /\ a.tag \notin Tags /\ a.kind # "reply"
  <2>1. TAG_NONE \notin Tags
    BY DEF TAG_NONE, Tags, TAG_TABLE_SIZE
  <2> QED
    BY <2>1 DEF Acknowledged, Datagram
<1>4. \A a \in answers : a.of = Seq1 => a.kind # "reply"
  <2>1. \A a \in answers : a.kind = "reply" => a.of \in 1 .. received
    BY DEF Safe, RepliesGiven, Replied
  <2> QED
    BY <1>1, <2>1
<1>5. \A t : (\E a \in answers' : a.of = Seq1 /\ a.kind = "reply" /\ a.value = t)
               <=> value = t
  BY <1>1, <1>2, <1>3, <1>4
<1>6. ASSUME NEW t \in Tags, NEW k \in received + 1 .. received'
      PROVE  GivesTag(k, t)' <=> t \in W
  <2>1. k = Seq1 /\ requests'[k] = Request
    BY <1>1
  <2> QED
    BY <1>1, <1>5, <2>1 DEF GivesTag
<1>7. \A a \in answers' \ answers :
        /\ a.asOf = received'
        /\ a.tag \in Tags => a.host = iptags'[a.tag].to
  BY <1>1, <1>2, <1>3
<1>8. /\ \A t \in Tags \ W : iptags'[t].to = iptags[t].to
      /\ \A t \in W : /\ received' = received + 1
                      /\ iptags'[t].to = requests'[received'].to
  BY <1>1
<1> QED
  BY <1>6, <1>7, <1>8, TagStep

LEMMA IptagStep ==
  ASSUME Safe, TagsTold, AnswersTold, [Next]_vars, cmd_iptag
  PROVE  TagsTold' /\ AnswersTold'
<1> USE DEF IPTAG_NEW, IPTAG_SET, IPTAG_GET, IPTAG_CLR, IPTAG_TTO, IPTAG_MAX
<1>0. iptags \in [Tags -> [to : Nat, flags : {0}]] /\ HostTypeOK
  BY DEF Safe, HostTypeOK
<1>1. ASSUME NEW value, AnswerTag(value, iptags),
             ~(Request.arg \in Tags /\ Request.op \in {IPTAG_NEW, IPTAG_SET})
      PROVE  TagsTold' /\ AnswersTold'
  <2>1. {} \in SUBSET Tags
    OBVIOUS
  <2> QED
    BY <1>1, <2>1, AnswerTagStep
<1>2. CASE IptagSet
  <2> DEFINE t == IF Request.op = IPTAG_NEW THEN iptag_new ELSE Request.arg
  <2>1. /\ GoodTag /\ Request.arg \in Tags
        /\ Request.op \in {IPTAG_NEW, IPTAG_SET}
        /\ AnswerTag(t, Stored(t, Request.to))
    BY <1>2 DEF IptagSet, GoodTag
  <2>2. t \in Tags /\ t # TAG_NONE
    BY <1>0, <2>1, FirstTag DEF Tags, TAG_TABLE_SIZE, TAG_NONE
  <2>3. /\ \A u \in Tags : u # t => Stored(t, Request.to)[u] = iptags[u]
        /\ Stored(t, Request.to)[t].to = Request.to
    <3> HIDE DEF t
    <3> QED
      BY <1>0, <2>2 DEF Stored
  <2>4. {t} \in SUBSET Tags
    BY <2>2
  <2>5. \A u \in Tags : u \in {t} <=>
           /\ Request.arg \in Tags
           /\ \/ Request.op = IPTAG_SET /\ Request.arg = u
              \/ Request.op = IPTAG_NEW /\ t = u
    BY <2>1
  <2> HIDE DEF t
  <2>6. \A u \in Tags \ {t} : Stored(t, Request.to)[u].to = iptags[u].to
    BY <2>3
  <2>7. \A u \in {t} : Stored(t, Request.to)[u].to = Request.to
    BY <2>3
  <2> QED
    BY <2>1, <2>4, <2>5, <2>6, <2>7, AnswerTagStep
<1>3. CASE IptagGet
  BY <1>1, <1>3 DEF IptagGet
<1>4. CASE IptagTto
  BY <1>1, <1>4 DEF IptagTto
<1>5. CASE IptagClr
  <2>1. /\ AnswerTag(0, [iptags EXCEPT ![Request.arg].flags = 0])
        /\ Request.op = IPTAG_CLR
    BY <1>5 DEF IptagClr
  <2>2. [iptags EXCEPT ![Request.arg].flags = 0] = iptags
    BY <1>0
  <2> QED
    BY <1>1, <2>1, <2>2
<1>6. CASE IptagRefused
  <2>1. AnswerTag(0, iptags)
        /\ ~(Request.arg \in Tags /\ Request.op \in {IPTAG_NEW, IPTAG_SET})
    BY <1>6 DEF IptagRefused, GoodTag
  <2> QED
    BY <1>1, <2>1
<1> QED
  BY <1>2, <1>3, <1>4, <1>5, <1>6 DEF cmd_iptag

LEMMA ToldStep ==
  ASSUME Safe, TagsTold, AnswersTold, [Next]_vars
  PROVE  TagsTold' /\ AnswersTold'
<1> USE DEF CMD_IPTAG, CMD_AS, CMD_NNP, CMD_FFD, CMD_P2PC
<1>0. received \in Nat
  BY DEF Safe, HostTypeOK
<1>1. ASSUME iptags' = iptags, answers' = answers, received' = received
      PROVE  TagsTold' /\ AnswersTold'
  BY <1>0, <1>1, NoTagStep
<1>2. ASSUME Receive({}), iptags' = iptags, Request.cmd # CMD_IPTAG
      PROVE  TagsTold' /\ AnswersTold'
  BY <1>2, OkAnswers, NoTagStep
<1>3. CASE dispatch_sdp_to_ether
  <2> DEFINE x == ToEther(iptags, slot, Head(Polled), 0, received)
  <2>1. /\ answers' = answers \cup {x}
        /\ iptags' = iptags /\ received' = received
    BY <1>3 DEF dispatch_sdp_to_ether, TakePolled, tags
  <2>2. x.asOf = received /\ (x.tag \in Tags => x.host = iptags[x.tag].to)
    BY DEF ToEther, Datagram
  <2> HIDE DEF x
  <2>3. \A a \in answers' \ answers : /\ a.asOf = received'
                                      /\ a.tag \in Tags => a.host = iptags[a.tag].to
    BY <2>1, <2>2
  <2> QED
    BY <1>0, <2>1, <2>3, NoTagStep
<1>4. CASE Dispatcher
  <2>1. CASE \/ QueueCommand \/ NoBoard \/ dispatch_as \/ FloodStart
             \/ IgnoreNnp \/ cmd_floodfill \/ flood_as \/ cmd_p2pc
             \/ IgnoreP2pc
    <3>1. Receive({}) /\ iptags' = iptags /\ Request.cmd # CMD_IPTAG
      BY <2>1 DEF QueueCommand, NoBoard, dispatch_as, FloodStart, IgnoreNnp,
         cmd_floodfill, flood_as, cmd_p2pc, IgnoreP2pc, ForOneCore, tags
    <3> QED
      BY <1>2, <3>1
  <2>2. CASE \/ EtherEmpty \/ dispatch_sdp_one \/ CoreFinished \/ PollNext
             \/ Flush \/ Die \/ FlushNext
    <3>1. iptags' = iptags /\ answers' = answers /\ received' = received
      BY <2>2 DEF EtherEmpty, dispatch_sdp_one, CoreFinished, TakePolled,
         PollNext, Flush, Die, FlushNext, Step, hostVars, tags
    <3> QED
      BY <1>1, <3>1
  <2> QED
    BY <1>3, <1>4, <2>1, <2>2, IptagStep DEF Dispatcher
<1>5. ASSUME NEW n \in Cores,
             \/ ReadPacket(n) \/ spin1_stop(n)
             \/ \E d \in Cores : spin1_send_sdp_msg(n, d)
             \/ io_printf(n)
      PROVE  TagsTold' /\ AnswersTold'
  <2>1. iptags' = iptags /\ answers' = answers /\ received' = received
    BY <1>5 DEF ReadPacket, cmd_write, cmd_read, cmd_as, ReceiveEvent,
       TakeIncoming, spin1_stop, spin1_send_sdp_msg, io_printf, AppSends,
       hostVars, tags
  <2> QED
    BY <1>1, <2>1
<1>6. CASE UNCHANGED vars \/ \E r \in Requests : HostSend(r)
  <2>1. iptags' = iptags /\ answers' = answers /\ received' = received
    BY <1>6 DEF vars, hostVars, tags, HostSend
  <2> QED
    BY <1>1, <2>1
<1> QED
  BY <1>4, <1>5, <1>6 DEF Next

\* Every message with a tag goes to the address that the last host to be given
\* the tag asked for, however many hosts share the tag, and though messages
\* wait in the sockets while it changes hands.
THEOREM TagsKept == Spec => []TagAsTold
<1>1. Init => TagsTold /\ AnswersTold
  <2> SUFFICES ASSUME Init PROVE TagsTold /\ AnswersTold
    OBVIOUS
  <2>1. received = 0 /\ answers = {} /\ iptags = iptag_init
    BY DEF Init
  <2>2. \A t : Givers(t) = {}
    BY <2>1 DEF Givers
  <2> QED
    BY <2>1, <2>2 DEF TagsTold, AnswersTold, AsTold
<1>2. Safe /\ TagsTold /\ AnswersTold /\ [Next]_vars => TagsTold' /\ AnswersTold'
  BY ToldStep
<1>3. Safe /\ AnswersTold => TagAsTold
  <2> SUFFICES ASSUME Safe, AnswersTold, NEW a \in answers, a.tag \in Tags
               PROVE  LET given == {k \in 1 .. a.asOf : GivesTag(k, a.tag)}
                      IN  IF given = {} THEN a.host = iptag_init[a.tag].to
                          ELSE \E k \in given :
                                 /\ \A j \in given : j <= k
                                 /\ a.host = requests[k].to
    BY DEF TagAsTold
  <2> DEFINE given == {k \in 1 .. a.asOf : GivesTag(k, a.tag)}
             g == {k \in Givers(a.tag) : k <= a.asOf}
  <2>1. /\ a.asOf \in 0 .. received
        /\ AsTold(requests, Givers(a.tag), a.tag, a.host, a.asOf)
    BY DEF AnswersTold
  <2>2. received \in Nat
    BY DEF Safe, HostTypeOK
  <2>3. given = g
    BY <2>1, <2>2 DEF Givers
  <2>4. IF g = {} THEN a.host = iptag_init[a.tag].to
        ELSE \E k \in g : (\A j \in g : j <= k) /\ a.host = requests[k].to
    BY <2>1 DEF AsTold
  <2> QED
    BY <2>3, <2>4
<1> QED
  BY <1>1, <1>2, <1>3, Safety, PTL DEF Spec

-----------------------------------------------------------------------------
(* A VER that is not yet answered is the last one.                         *)

KnownCommands == \A r \in Requests : r.cmd \in 0 .. 255

Settled == {k \in 1 .. received : Answered(k)}

\* The places of the VER commands among the pending ones, of the replies to
\* them among the packets sent.
Asked(ch) == {j \in 1 .. Len(ch) : ch[j].kind = "VER"}
Told(R, q) ==
  {i \in 1 .. Len(q) :
     q[i].kind = "ether" /\ q[i].of # 0 /\ R[q[i].of].cmd = CMD_VER}

\* With A the requests answered: core n has one VER at most to answer or on
\* its way back, and that is not yet answered.
OneVer(R, A, n, q, ch) ==
  /\ \A j \in Asked(ch) : ch[j].of \notin A
  /\ \A i \in Told(R, q) : R[q[i].of].core = n /\ q[i].of \notin A
  /\ \A i, j \in Asked(ch) : i = j
  /\ \A i, j \in Told(R, q) : i = j
  /\ Asked(ch) = {} \/ Told(R, q) = {}

LEMMA VerStays ==
  ASSUME NEW R, NEW R2, NEW A, NEW A2, NEW n, NEW q, NEW ch,
         OneVer(R, A, n, q, ch),
         \A i \in 1 .. Len(q) :
           q[i].kind = "ether" /\ q[i].of # 0 => R2[q[i].of] = R[q[i].of],
         \A j \in Asked(ch) : ch[j].of \in A2 => ch[j].of \in A,
         \A i \in Told(R, q) : q[i].of \in A2 => q[i].of \in A
  PROVE  OneVer(R2, A2, n, q, ch)
<1>1. Told(R2, q) = Told(R, q)
  BY DEF Told
<1>2. \A i \in Told(R, q) : R2[q[i].of] = R[q[i].of]
  BY DEF Told
<1> QED
  BY <1>1, <1>2 DEF OneVer

LEMMA VerSends ==
  ASSUME NEW M, NEW R, NEW A, NEW n, NEW q \in Seq(M), NEW m \in M, NEW ch,
         OneVer(R, A, n, q, ch),
         m.kind = "ether" /\ m.of # 0 => R[m.of].cmd # CMD_VER
  PROVE  OneVer(R, A, n, Append(q, m), ch)
<1> DEFINE r == Append(q, m)
<1>1. /\ Len(q) \in Nat /\ Len(r) = Len(q) + 1 /\ r[Len(q) + 1] = m
      /\ \A i \in 1 .. Len(q) : r[i] = q[i]
  BY AppendProperties, LenProperties
<1> HIDE DEF r
<1>2. Told(R, r) = Told(R, q)
  BY <1>1 DEF Told
<1>3. \A i \in Told(R, q) : r[i] = q[i]
  BY <1>1 DEF Told
<1>4. OneVer(R, A, n, r, ch)
  BY <1>2, <1>3 DEF OneVer
<1> QED
  BY <1>4 DEF r

LEMMA VerReads ==
  ASSUME NEW M, NEW R, NEW A, NEW n, NEW q \in Seq(M), q # <<>>, NEW ch,
         OneVer(R, A, n, q, ch)
  PROVE  /\ OneVer(R, A, n, Tail(q), ch)
         /\ Head(q).kind = "ether" /\ Head(q).of # 0
              /\ R[Head(q).of].cmd = CMD_VER =>
            /\ R[Head(q).of].core = n /\ Head(q).of \notin A
            /\ Asked(ch) = {} /\ Told(R, Tail(q)) = {}
<1> DEFINE r == Tail(q)
<1>1. /\ Len(q) \in Nat \ {0} /\ Len(r) = Len(q) - 1 /\ Head(q) = q[1]
      /\ \A i \in 1 .. Len(r) : r[i] = q[i + 1]
  BY HeadTailProperties, LenProperties, EmptySeq
<1> HIDE DEF r
<1>2. \A i \in Told(R, r) : /\ i + 1 \in Told(R, q) /\ i \in Nat /\ i + 1 # 1
                            /\ r[i] = q[i + 1]
  BY <1>1 DEF Told
<1>3. OneVer(R, A, n, r, ch)
  BY <1>2 DEF OneVer
<1>4. ASSUME Head(q).kind = "ether", Head(q).of # 0,
             R[Head(q).of].cmd = CMD_VER
      PROVE  /\ R[Head(q).of].core = n /\ Head(q).of \notin A
             /\ Asked(ch) = {} /\ Told(R, r) = {}
  <2>1. 1 \in Told(R, q)
    BY <1>1, <1>4 DEF Told
  <2>2. \A i \in Told(R, q) : i = 1
    BY <2>1 DEF OneVer
  <2> QED
    BY <1>1, <1>2, <2>1, <2>2 DEF OneVer
<1> QED
  BY <1>3, <1>4 DEF r

LEMMA VerAccepts ==
  ASSUME NEW C, NEW R, NEW A, NEW n, NEW q, NEW ch \in Seq(C), NEW m \in C,
         OneVer(R, A, n, q, ch),
         m.kind = "VER" => /\ Asked(ch) = {} /\ Told(R, q) = {}
                           /\ m.of \notin A
  PROVE  OneVer(R, A, n, q, Append(ch, m))
<1> DEFINE s == Append(ch, m)
<1>1. /\ Len(ch) \in Nat /\ Len(s) = Len(ch) + 1 /\ s[Len(ch) + 1] = m
      /\ \A i \in 1 .. Len(ch) : s[i] = ch[i]
  BY AppendProperties, LenProperties
<1> HIDE DEF s
<1>2. \A j \in Asked(s) : \/ j \in Asked(ch) /\ s[j] = ch[j]
                          \/ j = Len(ch) + 1 /\ m.kind = "VER" /\ s[j] = m
  BY <1>1 DEF Asked
<1>3. CASE m.kind = "VER"
  <2>1. \A j \in Asked(s) : j = Len(ch) + 1 /\ s[j] = m
    BY <1>2, <1>3
  <2>2. OneVer(R, A, n, q, s)
    BY <1>3, <2>1 DEF OneVer
  <2> QED
    BY <2>2 DEF s
<1>4. CASE m.kind # "VER"
  <2>1. \A j \in Asked(s) : j \in Asked(ch) /\ s[j] = ch[j]
    BY <1>2, <1>4
  <2>2. OneVer(R, A, n, q, s)
    BY <2>1 DEF OneVer
  <2> QED
    BY <2>2 DEF s
<1> QED
  BY <1>3, <1>4

\* A command is executed; the reply to a VER may be sent.
LEMMA VerExecutes ==
  ASSUME NEW C, NEW M, NEW R, NEW A, NEW n, NEW q \in Seq(M), NEW m \in M,
         NEW ch \in Seq(C), ch # <<>>, OneVer(R, A, n, q, ch)
  PROVE  /\ OneVer(R, A, n, q, Tail(ch))
         /\ Head(ch).kind = "VER" /\ m.of = Head(ch).of /\ R[m.of].core = n =>
              OneVer(R, A, n, Append(q, m), Tail(ch))
<1> DEFINE s == Tail(ch)
           r == Append(q, m)
<1>1. /\ Len(ch) \in Nat \ {0} /\ Len(s) = Len(ch) - 1 /\ Head(ch) = ch[1]
      /\ \A i \in 1 .. Len(s) : s[i] = ch[i + 1]
  BY HeadTailProperties, LenProperties, EmptySeq
<1>2. /\ Len(q) \in Nat /\ Len(r) = Len(q) + 1 /\ r[Len(q) + 1] = m
      /\ \A i \in 1 .. Len(q) : r[i] = q[i]
  BY AppendProperties, LenProperties
<1> HIDE DEF s, r
<1>3. \A j \in Asked(s) : /\ j + 1 \in Asked(ch) /\ j \in Nat /\ j + 1 # 1
                          /\ s[j] = ch[j + 1]
  BY <1>1 DEF Asked
<1>4. OneVer(R, A, n, q, s)
  BY <1>3 DEF OneVer
<1>5. ASSUME Head(ch).kind = "VER", m.of = Head(ch).of, R[m.of].core = n
      PROVE  OneVer(R, A, n, r, s)
  <2>1. 1 \in Asked(ch)
    BY <1>1, <1>5 DEF Asked
  <2>2. Told(R, q) = {} /\ \A j \in Asked(ch) : j = 1
    BY <2>1 DEF OneVer
  <2>3. Asked(s) = {}
    BY <1>3, <2>2
  <2>4. \A i \in Told(R, r) : i \in Told(R, q) \/ (i = Len(q) + 1 /\ r[i] = m)
    BY <1>2 DEF Told
  <2>5. \A i \in Told(R, r) : i = Len(q) + 1 /\ r[i] = m
    BY <2>2, <2>4
  <2>6. m.of \notin A
    BY <1>1, <1>5, <2>1 DEF OneVer
  <2> QED
    BY <1>5, <2>3, <2>5, <2>6 DEF OneVer
<1> QED
  BY <1>4, <1>5 DEF r, s

OneVers ==
  \A n \in Cores : OneVer(requests, Settled, n, fromCore[n], Pending[n])

\* The hosts send a VER when the one before it is answered.
VerAlone ==
  \A i, j \in 1 .. Len(requests) :
    i < j /\ requests[i].cmd = CMD_VER /\ requests[j].cmd = CMD_VER =>
      Answered(i)

\* The slot has the sender of the last VER taken.
SlotKept ==
  \A k \in 1 .. received :
    /\ requests[k].cmd = CMD_VER
    /\ \A j \in k + 1 .. received : requests[j].cmd # CMD_VER
    => sendersip = requests[k].host /\ senderseq = k

LEMMA NewAnswers ==
  ASSUME [Next]_vars
  PROVE  /\ answers \subseteq answers'
         /\ dispatch_sdp_to_ether =>
              answers' = answers \cup
                {ToEther(iptags, slot, Head(Polled), 0, received)}
         /\ ~dispatch_sdp_to_ether =>
              \A a \in answers' \ answers : a.kind = "reply" =>
                /\ Receiving /\ Request.cmd = CMD_IPTAG /\ a.of = Seq1
                /\ requests' = requests
<1>1. CASE dispatch_sdp_to_ether
  BY <1>1 DEF dispatch_sdp_to_ether
<1>2. ASSUME NEW value, NEW table, AnswerTag(value, table)
      PROVE  /\ answers \subseteq answers'
             /\ \A a \in answers' \ answers : a.kind = "reply" =>
                  /\ Receiving /\ Request.cmd = CMD_IPTAG /\ a.of = Seq1
                  /\ requests' = requests
  BY <1>2 DEF AnswerTag, Receive, Acknowledged, ToEther, Datagram
<1>3. CASE cmd_iptag
  <2>1. ~dispatch_sdp_to_ether
    BY <1>3 DEF cmd_iptag, IptagSet, IptagGet, IptagTto, IptagClr,
       IptagRefused, Receiving, dispatch_sdp_to_ether, TakePolled
  <2> QED
    BY <1>2, <1>3, <2>1 DEF cmd_iptag, IptagSet, IptagGet, IptagTto, IptagClr,
       IptagRefused
<1>4. CASE Receive({}) /\ ~dispatch_sdp_to_ether
  BY <1>4 DEF Receive, Acknowledged, Datagram
<1>5. CASE answers' = answers /\ ~dispatch_sdp_to_ether
  BY <1>5
<1>6. CASE Dispatcher
  <2>1. \/ cmd_iptag \/ dispatch_sdp_to_ether \/ Receive({})
        \/ answers' = answers
    BY <1>6 DEF Dispatcher, QueueCommand, NoBoard, dispatch_as, FloodStart,
       IgnoreNnp, cmd_floodfill, flood_as, cmd_p2pc, IgnoreP2pc, EtherEmpty,
       dispatch_sdp_one, CoreFinished, PollNext, Flush, Die, FlushNext, Step,
       hostVars
  <2> QED
    BY <1>1, <1>3, <1>4, <1>5, <2>1
<1>7. ASSUME NEW n \in Cores,
             \/ ReadPacket(n) \/ spin1_stop(n)
             \/ \E d \in Cores : spin1_send_sdp_msg(n, d)
             \/ io_printf(n)
      PROVE  answers' = answers
  BY <1>7 DEF ReadPacket, cmd_write, cmd_read, cmd_as, ReceiveEvent,
     TakeIncoming, spin1_stop, spin1_send_sdp_msg, io_printf, AppSends,
     hostVars
<1>8. ASSUME UNCHANGED vars \/ \E r \in Requests : HostSend(r)
      PROVE  answers' = answers
  BY <1>8 DEF vars, hostVars, HostSend
<1> QED
  BY <1>1, <1>5, <1>6, <1>7, <1>8 DEF Next

\* The commands and replies of a VER come from requests that were taken.
LEMMA VersTaken ==
  ASSUME Safe
  PROVE  \A n \in Cores :
           /\ \A j \in Asked(Pending[n]) :
                /\ Pending[n][j].of \in 1 .. received
                /\ requests[Pending[n][j].of].cmd = CMD_VER
                /\ requests[Pending[n][j].of].core = n
           /\ \A i \in 1 .. Len(fromCore[n]) :
                fromCore[n][i].kind = "ether" /\ fromCore[n][i].of # 0 =>
                  fromCore[n][i].of \in 1 .. received
<1> SUFFICES ASSUME NEW n \in Cores
             PROVE  /\ \A j \in Asked(Pending[n]) :
                         /\ Pending[n][j].of \in 1 .. received
                         /\ requests[Pending[n][j].of].cmd = CMD_VER
                         /\ requests[Pending[n][j].of].core = n
                    /\ \A i \in 1 .. Len(fromCore[n]) :
                         fromCore[n][i].kind = "ether" /\ fromCore[n][i].of # 0 =>
                           fromCore[n][i].of \in 1 .. received
  OBVIOUS
<1>1. CASE initialised
  <2>1. InOrder(requests, received, booted, ram[ChipOf(n)], Pending[n], n)
    BY <1>1 DEF Safe, Ordered
  <2>2. \A j \in 1 .. Len(Pending[n]) : Sound(requests, received, n, Pending[n][j])
    BY <2>1 DEF InOrder
  <2>3. ASSUME NEW j \in Asked(Pending[n])
        PROVE  /\ Pending[n][j].of \in 1 .. received
               /\ requests[Pending[n][j].of].cmd = CMD_VER
               /\ requests[Pending[n][j].of].core = n
    <3>1. Sound(requests, received, n, Pending[n][j]) /\ Pending[n][j].kind = "VER"
      BY <2>2 DEF Asked
    <3>2. received \in Nat
      BY DEF Safe, HostTypeOK
    <3> QED
      BY <3>1, <3>2 DEF Sound
  <2> QED
    BY <2>3 DEF Safe, RepliesSent, Carried, Replied
<1>2. CASE ~initialised
  <2>1. toCore[n] = <<>> /\ sdp_queue[n] = <<>>
    BY <1>2 DEF Safe, Unbooted
  <2>2. <<>> \o <<>> = <<>>
    BY EmptySeq, ConcatEmptySeq
  <2>3. Asked(Pending[n]) = {}
    <3>1. Pending[n] = <<>>
      BY <2>1, <2>2 DEF Pending
    <3>2. Asked(<<>>) = {}
      BY EmptySeq DEF Asked
    <3> QED
      BY <3>1, <3>2
  <2> QED
    BY <2>3 DEF Safe, RepliesSent, Carried, Replied
<1> QED
  BY <1>1, <1>2

\* What is answered besides the replies of the cores is a later request.
LEMMA VersStay ==
  ASSUME Safe, OneVers, [Next]_vars, ~dispatch_sdp_to_ether
  PROVE  \A n \in Cores : OneVer(requests', Settled', n, fromCore[n], Pending[n])
<1> SUFFICES ASSUME NEW n \in Cores
             PROVE  OneVer(requests', Settled', n, fromCore[n], Pending[n])
  OBVIOUS
<1>1. Takes(requests, received, requests', received') /\ received \in Nat
  BY StepTakes DEF Safe
<1>2. ASSUME NEW k \in 1 .. received, k \in Settled'
      PROVE  k \in Settled
  <2>1. PICK a \in answers' : a.of = k /\ a.kind = "reply"
    BY <1>2 DEF Settled, Answered
  <2>2. a \in answers
    BY <1>1, <2>1, NewAnswers DEF Seq1
  <2> QED
    BY <2>1, <2>2 DEF Settled, Answered
<1>3. OneVer(requests, Settled, n, fromCore[n], Pending[n])
  BY DEF OneVers
<1>4. \A k \in 1 .. received : requests'[k] = requests[k]
  BY <1>1 DEF Takes
<1>5. \A i \in 1 .. Len(fromCore[n]) :
        fromCore[n][i].kind = "ether" /\ fromCore[n][i].of # 0 =>
          requests'[fromCore[n][i].of] = requests[fromCore[n][i].of]
  BY <1>4, VersTaken
<1>6. \A j \in Asked(Pending[n]) :
        Pending[n][j].of \in Settled' => Pending[n][j].of \in Settled
  BY <1>2, VersTaken
<1>7. \A i \in Told(requests, fromCore[n]) :
        fromCore[n][i].of \in Settled' => fromCore[n][i].of \in Settled
  BY <1>2, VersTaken DEF Told
<1> QED
  BY <1>3, <1>5, <1>6, <1>7, VerStays

\* The reply of a VER is not in a socket twice, and there is none when another
\* VER is sent.
LEMMA VerCarriersAlone ==
  ASSUME Safe, OneVers, VerAlone, NEW s \in 1 .. Len(requests), s > received,
         requests[s].cmd = CMD_VER
  PROVE  \A n \in Cores : Asked(Pending[n]) = {} /\ Told(requests, fromCore[n]) = {}
<1> SUFFICES ASSUME NEW n \in Cores
             PROVE  Asked(Pending[n]) = {} /\ Told(requests, fromCore[n]) = {}
  OBVIOUS
<1>1. received \in Nat /\ received <= Len(requests) /\ Len(requests) \in Nat
  BY LenProperties DEF Safe, HostTypeOK
<1>2. \A k \in 1 .. received : requests[k].cmd = CMD_VER => k \in Settled
  BY <1>1 DEF VerAlone, Settled
<1>3. OneVer(requests, Settled, n, fromCore[n], Pending[n])
  BY DEF OneVers
<1>4. ASSUME NEW j \in Asked(Pending[n]) PROVE FALSE
  BY <1>2, <1>3, VersTaken DEF OneVer
<1>5. ASSUME NEW i \in Told(requests, fromCore[n]) PROVE FALSE
  <2>1. fromCore[n][i].of \in 1 .. received
        /\ requests[fromCore[n][i].of].cmd = CMD_VER
    BY VersTaken DEF Told
  <2> QED
    BY <1>2, <1>3, <2>1 DEF OneVer
<1> QED
  BY <1>4, <1>5

LEMMA VersChange ==
  ASSUME Safe, OneVers, [Next]_vars, ~dispatch_sdp_to_ether,
         \A n \in Cores :
           OneVer(requests', Settled', n, fromCore[n], Pending[n]) =>
             OneVer(requests', Settled', n, fromCore'[n], Pending'[n])
  PROVE  OneVers'
<1>1. \A n \in Cores : OneVer(requests', Settled', n, fromCore[n], Pending[n])
  BY VersStay
<1> QED
  BY <1>1 DEF OneVers

\* A command other than VER is queued.
LEMMA VersQueued ==
  ASSUME Safe, OneVers, [Next]_vars, ~dispatch_sdp_to_ether,
         NEW B \in SUBSET Cores, NEW m \in Commands, Queue(B, m),
         UNCHANGED toCore, m.kind # "VER",
         \A n \in Cores :
           OneVer(requests', Settled', n, fromCore[n], Pending[n]) =>
             OneVer(requests', Settled', n, fromCore'[n], Pending[n])
  PROVE  OneVers'
<1>1. Pending' = [n \in Cores |-> IF n \in B THEN Append(Pending[n], m)
                                  ELSE Pending[n]]
  BY AcceptPending DEF Safe
<1>2. ASSUME NEW n \in Cores,
             OneVer(requests', Settled', n, fromCore[n], Pending[n])
      PROVE  OneVer(requests', Settled', n, fromCore'[n], Pending'[n])
  <2>1. OneVer(requests', Settled', n, fromCore'[n], Pending[n])
    BY <1>2
  <2>2. Pending[n] \in Seq(Commands)
    BY PendingType DEF Safe
  <2>3. OneVer(requests', Settled', n, fromCore'[n], Append(Pending[n], m))
    BY <2>1, <2>2, VerAccepts
  <2>4. Pending'[n] \in {Pending[n], Append(Pending[n], m)}
    BY <1>1
  <2> QED
    BY <2>1, <2>3, <2>4
<1> QED
  BY <1>2, VersChange

LEMMA VersPolled ==
  ASSUME HostTypeOK, NEW kind, TakePolled(kind)
  PROVE  \A R, A : \A n \in Cores :
           OneVer(R, A, n, fromCore[n], Pending[n]) =>
             OneVer(R, A, n, fromCore'[n], Pending[n])
<1> DEFINE M == Ethernet \cup Messages \cup Finished
<1>1. /\ fromCore[at] # <<>> /\ fromCore[at] \in Seq(M) /\ at \in Cores
      /\ fromCore \in [Cores -> Seq(M)]
      /\ fromCore' = [fromCore EXCEPT ![at] = Tail(@)]
  BY DEF TakePolled, Polled, HostTypeOK
<1> HIDE DEF M
<1>2. ASSUME NEW R, NEW A, NEW n \in Cores,
             OneVer(R, A, n, fromCore[n], Pending[n])
      PROVE  OneVer(R, A, n, fromCore'[n], Pending[n])
  <2>1. CASE n = at
    <3>1. fromCore'[n] = Tail(fromCore[n]) /\ fromCore[n] # <<>>
          /\ fromCore[n] \in Seq(M)
      BY <1>1, <2>1
    <3>2. OneVer(R, A, n, Tail(fromCore[n]), Pending[n])
      BY <1>2, <3>1, VerReads
    <3> QED
      BY <3>1, <3>2
  <2>2. CASE n # at
    <3>1. fromCore'[n] = fromCore[n]
      BY <1>1, <2>2
    <3> QED
      BY <1>2, <3>1
  <2> QED
    BY <2>1, <2>2
<1> QED
  BY <1>2

\* A VER is taken and queued.
LEMMA VerQueued ==
  ASSUME Safe, OneVers, VerAlone, [Next]_vars, QueueCommand,
         Request.cmd = CMD_VER
  PROVE  OneVers'
<1> DEFINE m == Command("VER", Request.arg)
<1>0. HostTypeOK /\ KindOf(Request.cmd) = "VER"
  BY DEF Safe, KindOf, CMD_VER, CMD_READ, CMD_WRITE
<1>1. /\ Receiving /\ Receive({}) /\ Queue({Request.core}, m)
      /\ UNCHANGED <<requests, toCore, fromCore>>
      /\ ~dispatch_sdp_to_ether
  BY <1>0 DEF QueueCommand, KeepBoard, Receive, Receiving,
     dispatch_sdp_to_ether, TakePolled
<1>2. /\ Request.core \in Cores /\ Request.arg \in Nat
      /\ Seq1 \in 1 .. Len(requests) /\ Seq1 = received + 1 /\ received \in Nat
  BY <1>0, <1>1, RequestType, RequestFields DEF HostTypeOK, Seq1
<1>3. m \in Commands /\ m.of = Seq1
  <2>1. m \in Commands
    BY <1>0, <1>1, <1>2, CommandType DEF Kinds
  <2> QED
    BY <2>1 DEF Command
<1> HIDE DEF m
<1>4. \A n \in Cores : Asked(Pending[n]) = {} /\ Told(requests, fromCore[n]) = {}
  <2>1. requests[Seq1].cmd = CMD_VER /\ Seq1 > received
    BY <1>2 DEF Request, Seq1
  <2> QED
    BY <1>2, <2>1, VerCarriersAlone
<1>5. Seq1 \notin Settled'
  <2>1. SUFFICES ASSUME NEW a \in answers', a.of = Seq1, a.kind = "reply"
                 PROVE  FALSE
    BY DEF Settled, Answered
  <2>2. CMD_VER # CMD_IPTAG
    BY DEF CMD_VER, CMD_IPTAG
  <2>3. a \in answers
    BY <1>1, <2>1, <2>2, NewAnswers
  <2>4. a.of \in 1 .. received
    BY <2>1, <2>3 DEF Safe, RepliesGiven, Replied
  <2> QED
    BY <1>2, <2>1, <2>4
<1>6. PICK B \in SUBSET Cores : B = {Request.core}
  BY <1>2
<1>8. Pending' = [n \in Cores |-> IF n \in B THEN Append(Pending[n], m)
                                  ELSE Pending[n]]
  BY <1>0, <1>1, <1>3, <1>6, AcceptPending
<1>7. ASSUME NEW n \in Cores,
             OneVer(requests', Settled', n, fromCore[n], Pending[n])
      PROVE  OneVer(requests', Settled', n, fromCore'[n], Pending'[n])
  <2>1. Pending[n] \in Seq(Commands)
    BY PendingType DEF Safe
  <2>2. Asked(Pending[n]) = {} /\ Told(requests', fromCore[n]) = {}
    BY <1>1, <1>4
  <2>3. OneVer(requests', Settled', n, fromCore[n], Append(Pending[n], m))
    BY <1>3, <1>5, <1>7, <2>1, <2>2, VerAccepts
  <2>4. Pending'[n] \in {Pending[n], Append(Pending[n], m)} /\ fromCore' = fromCore
    BY <1>1, <1>8
  <2> QED
    BY <1>7, <2>3, <2>4
<1> QED
  BY <1>1, <1>7, VersChange

\* The reply of a core comes to the dispatcher and is sent on.
LEMMA VersAnswered ==
  ASSUME Safe, OneVers, [Next]_vars, dispatch_sdp_to_ether
  PROVE  OneVers'
<1> DEFINE M == Ethernet \cup Messages \cup Finished
           m == Head(Polled)
<1>1. /\ fromCore[at] # <<>> /\ fromCore[at] \in Seq(M) /\ at \in Cores
      /\ m = Head(fromCore[at]) /\ m.kind = "ether"
      /\ fromCore \in [Cores -> Seq(M)]
      /\ fromCore' = [fromCore EXCEPT ![at] = Tail(@)]
      /\ UNCHANGED <<requests, received, toCore, sdp_queue>>
      /\ answers' = answers \cup {ToEther(iptags, slot, m, 0, received)}
  BY DEF dispatch_sdp_to_ether, TakePolled, Polled, Safe, HostTypeOK
<1> HIDE DEF M, m
<1>2. Pending' = Pending
  BY <1>1 DEF Pending
<1>3. \A k : k \in Settled' => k \in Settled \/ (k = m.of /\ k # 0)
  <2> DEFINE x == ToEther(iptags, slot, m, 0, received)
  <2>1. x.of = m.of /\ (x.kind = "reply" => m.of # 0)
    BY DEF ToEther, Datagram
  <2> HIDE DEF x
  <2>2. answers' = answers \cup {x} /\ received' = received
    BY <1>1 DEF x
  <2> QED
    BY <2>1, <2>2 DEF Settled, Answered
<1>4. OneVers
  OBVIOUS
<1>5. ASSUME NEW n \in Cores
      PROVE  OneVer(requests, Settled, n, fromCore'[n], Pending[n])
  <2>1. TakePolled("ether") /\ HostTypeOK
    BY DEF dispatch_sdp_to_ether, Safe
  <2>2. OneVer(requests, Settled, n, fromCore[n], Pending[n])
    BY <1>4 DEF OneVers
  <2> QED
    BY <2>1, <2>2, VersPolled
<1>6. ASSUME NEW n \in Cores
      PROVE  OneVer(requests', Settled', n, fromCore'[n], Pending'[n])
  \* Nothing but the reply that was sent is of request m.of.
  <2>1. /\ \A j \in Asked(Pending[n]) : m.of # 0 => Pending[n][j].of # m.of
        /\ \A i \in Told(requests, fromCore'[n]) :
             m.of # 0 => fromCore'[n][i].of # m.of
    <3>1. CASE m.of # 0 /\ requests[m.of].cmd = CMD_VER
      <4>1. OneVer(requests, Settled, at, fromCore[at], Pending[at])
        BY <1>1, <1>4 DEF OneVers
      <4>2. /\ requests[m.of].core = at
            /\ Asked(Pending[at]) = {} /\ Told(requests, Tail(fromCore[at])) = {}
        <5>1. fromCore[at] \in Seq(M) /\ fromCore[at] # <<>>
          BY <1>1
        <5>2. LET h == Head(fromCore[at])
              IN  h.kind = "ether" /\ h.of # 0 /\ requests[h.of].cmd = CMD_VER =>
                    /\ requests[h.of].core = at /\ h.of \notin Settled
                    /\ Asked(Pending[at]) = {}
                    /\ Told(requests, Tail(fromCore[at])) = {}
          BY <4>1, <5>1, VerReads
        <5> QED
          BY <1>1, <3>1, <5>2
      <4>3. CASE n = at
        <5>1. fromCore'[n] = Tail(fromCore[at])
          BY <1>1, <4>3
        <5> QED
          BY <4>2, <4>3, <5>1
      <4>4. CASE n # at
        BY <1>5, <4>2, <4>4, VersTaken DEF OneVer
      <4> QED
        BY <4>3, <4>4
    <3>2. CASE m.of # 0 /\ requests[m.of].cmd # CMD_VER
      BY <3>2, VersTaken DEF Told
    <3> QED
      BY <3>1, <3>2
  <2>2. \A j \in Asked(Pending[n]) :
          Pending[n][j].of \in Settled' => Pending[n][j].of \in Settled
    BY <1>3, <2>1
  <2>3. \A i \in Told(requests, fromCore'[n]) :
          fromCore'[n][i].of \in Settled' => fromCore'[n][i].of \in Settled
    BY <1>3, <2>1
  <2>4. OneVer(requests, Settled', n, fromCore'[n], Pending[n])
    BY <1>5, <2>2, <2>3, VerStays
  <2> QED
    BY <1>1, <1>2, <2>4
<1> QED
  BY <1>6 DEF OneVers

LEMMA VersDispatcher ==
  ASSUME Safe, OneVers, VerAlone, Dispatcher, [Next]_vars
  PROVE  OneVers'
<1> USE DEF KeepBoard, coreVars
<1>0. /\ HostTypeOK /\ Unbooted
      /\ Receiving => Request.arg \in Nat /\ Request.core \in Cores
  BY RequestType, RequestFields DEF Safe
<1>1. CASE \/ dispatch_as \/ flood_as \/ cmd_floodfill
           \/ QueueCommand /\ Request.cmd # CMD_VER
  <2>1. PICK B \in SUBSET Cores, kind \in Kinds \ {"VER"}, arg \in Nat :
          Queue(B, Command(kind, arg)) /\ Receiving /\ KeepBoard
    <3>1. \A C, mask : Masked(C, mask) \in SUBSET Cores
      BY DEF Masked, Board
    <3>2. FloodCores \in SUBSET Cores
      BY DEF FloodCores, Board
    <3>3. Request.cmd # CMD_VER => KindOf(Request.cmd) \in Kinds \ {"VER"}
      BY DEF KindOf, Kinds
    <3>4. CASE dispatch_as
      BY <1>0, <3>1, <3>4 DEF dispatch_as, Kinds
    <3>5. CASE flood_as
      BY <1>0, <3>1, <3>5 DEF flood_as, HostTypeOK, Kinds
    <3>6. CASE cmd_floodfill
      BY <1>0, <3>2, <3>6 DEF cmd_floodfill, Kinds
    <3>7. CASE QueueCommand /\ Request.cmd # CMD_VER
      BY <1>0, <3>3, <3>7 DEF QueueCommand
    <3> QED
      BY <1>1, <3>4, <3>5, <3>6, <3>7
  <2> DEFINE m == Command(kind, arg)
  <2>2. m \in Commands /\ m.kind # "VER"
    BY <1>0, <2>1, CommandType DEF Command
  <2>3. /\ Queue(B, m) /\ UNCHANGED <<toCore, fromCore>>
        /\ ~dispatch_sdp_to_ether
    BY <2>1 DEF Receiving, dispatch_sdp_to_ether, TakePolled
  <2> HIDE DEF m
  <2>4. \A n \in Cores :
          OneVer(requests', Settled', n, fromCore[n], Pending[n]) =>
            OneVer(requests', Settled', n, fromCore'[n], Pending[n])
    BY <2>3
  <2> QED
    BY <2>2, <2>3, <2>4, VersQueued
<1>2. CASE QueueCommand /\ Request.cmd = CMD_VER
  BY <1>2, VerQueued
<1>3. CASE dispatch_sdp_one
  <2> DEFINE m == [kind |-> "event", of |-> 0, arg |-> 0, tag |-> TAG_NONE]
             M == Ethernet \cup Messages \cup Finished
  <2>1. /\ Polled # <<>> /\ Polled \in Seq(M) /\ Head(Polled).kind = "sdp"
        /\ Queue({Head(Polled).core}, m) /\ TakePolled("sdp")
        /\ UNCHANGED toCore /\ ~dispatch_sdp_to_ether
    BY <1>0, <1>3 DEF dispatch_sdp_one, TakePolled, Polled, HostTypeOK,
       dispatch_sdp_to_ether
  <2>2. Head(Polled) \in M
    BY <2>1, HeadTailProperties
  <2>3. Head(Polled).core \in Cores
    BY <2>1, <2>2 DEF Ethernet, Messages, Finished
  <2>4. m \in Commands /\ m.kind # "VER"
    BY DEF Commands, Kinds, TAG_NONE
  <2> HIDE DEF m
  <2>5. \A n \in Cores :
          OneVer(requests', Settled', n, fromCore[n], Pending[n]) =>
            OneVer(requests', Settled', n, fromCore'[n], Pending[n])
    BY <1>0, <2>1, VersPolled
  <2>6. PICK B \in SUBSET Cores : B = {Head(Polled).core}
    BY <2>3
  <2> QED
    BY <2>1, <2>4, <2>5, <2>6, VersQueued
<1>4. CASE dispatch_sdp_to_ether
  BY <1>4, VersAnswered
<1>5. CASE cmd_p2pc
  <2>1. /\ UNCHANGED Pending /\ ~dispatch_sdp_to_ether
        /\ \A n \in Cores : fromCore'[n] = <<>>
    BY <1>0, <1>5, BootStep DEF cmd_p2pc, Receiving, dispatch_sdp_to_ether,
       TakePolled
  <2>2. ASSUME NEW n \in Cores,
               OneVer(requests', Settled', n, fromCore[n], Pending[n])
        PROVE  OneVer(requests', Settled', n, <<>>, Pending[n])
    <3>1. \A R : Told(R, <<>>) = {}
      BY EmptySeq DEF Told
    <3> QED
      BY <2>2, <3>1 DEF OneVer
  <2> QED
    BY <2>1, <2>2, VersChange
<1>6. CASE CoreFinished
  <2>1. /\ TakePolled("FINISHED") /\ UNCHANGED <<toCore, sdp_queue>>
        /\ ~dispatch_sdp_to_ether
    BY <1>6 DEF CoreFinished, TakePolled, dispatch_sdp_to_ether
  <2>2. Pending' = Pending
    BY <2>1 DEF Pending
  <2>3. \A n \in Cores :
          OneVer(requests', Settled', n, fromCore[n], Pending[n]) =>
            OneVer(requests', Settled', n, fromCore'[n], Pending'[n])
    BY <1>0, <2>1, <2>2, VersPolled
  <2> QED
    BY <2>1, <2>3, VersChange
<1>7. CASE \/ FloodStart \/ IgnoreNnp \/ IgnoreP2pc \/ cmd_iptag \/ NoBoard
           \/ EtherEmpty \/ PollNext \/ Die \/ FlushNext \/ Flush
  <2>1. UNCHANGED fromCore /\ ~dispatch_sdp_to_ether
    BY <1>7 DEF FloodStart, IgnoreNnp, IgnoreP2pc, cmd_iptag, IptagSet,
       IptagGet, IptagTto, IptagClr, IptagRefused, AnswerTag, NoBoard,
       EtherEmpty, PollNext, Die, FlushNext, Flush, Step, Receiving,
       dispatch_sdp_to_ether, TakePolled
  <2>2. Pending' = Pending
    <3>1. CASE Flush
      BY <1>0, <3>1, FlushStep
    <3>2. CASE ~Flush
      <4>1. UNCHANGED <<toCore, sdp_queue>>
        BY <1>7, <3>2 DEF FloodStart, IgnoreNnp, IgnoreP2pc, cmd_iptag,
           IptagSet, IptagGet, IptagTto, IptagClr, IptagRefused, AnswerTag,
           NoBoard, EtherEmpty, PollNext, Die, FlushNext, Step
      <4> QED
        BY <4>1 DEF Pending
    <3> QED
      BY <3>1, <3>2
  <2>3. \A n \in Cores :
          OneVer(requests', Settled', n, fromCore[n], Pending[n]) =>
            OneVer(requests', Settled', n, fromCore'[n], Pending'[n])
    BY <2>1, <2>2
  <2> QED
    BY <2>1, <2>3, VersChange
<1> QED
  BY <1>1, <1>2, <1>3, <1>4, <1>5, <1>6, <1>7 DEF Dispatcher

\* A step of core n changes nothing of the others.
LEMMA VersCore ==
  ASSUME Safe, OneVers, [Next]_vars, ~dispatch_sdp_to_ether, NEW n \in Cores,
         \A k \in Cores \ {n} : fromCore'[k] = fromCore[k] /\ Pending'[k] = Pending[k],
         OneVer(requests', Settled', n, fromCore[n], Pending[n]) =>
           OneVer(requests', Settled', n, fromCore'[n], Pending'[n])
  PROVE  OneVers'
<1>1. ASSUME NEW k \in Cores,
             OneVer(requests', Settled', k, fromCore[k], Pending[k])
      PROVE  OneVer(requests', Settled', k, fromCore'[k], Pending'[k])
  <2>1. CASE k = n
    BY <1>1, <2>1
  <2>2. CASE k # n
    <3>1. fromCore'[k] = fromCore[k] /\ Pending'[k] = Pending[k]
      BY <2>2
    <3> QED
      BY <1>1, <3>1
  <2> QED
    BY <2>1, <2>2
<1> QED
  BY <1>1, VersChange

LEMMA VersRead ==
  ASSUME Safe, OneVers, [Next]_vars, ~dispatch_sdp_to_ether,
         NEW n \in Cores, ReadPacket(n)
  PROVE  OneVers'
<1> DEFINE M == Ethernet \cup Messages \cup Finished
           c == Incoming(n)
<1>0. PICK kinds : TakeIncoming(n, kinds)
  BY DEF ReadPacket, cmd_write, cmd_read, cmd_as, ReceiveEvent
<1>1. /\ HostTypeOK /\ fromCore \in [Cores -> Seq(M)]
      /\ requests' = requests /\ c \in Commands
      /\ c.kind = "VER" => requests[c.of].cmd = CMD_VER /\ requests[c.of].core = n
      /\ c.kind = "READ" => requests[c.of].cmd = CMD_READ
  <2>1. HostTypeOK
    BY DEF Safe
  <2>2. /\ requests' = requests /\ c \in Commands
        /\ Sound(requests, received, n, c)
    BY ReadOrdered DEF Safe
  <2> QED
    BY <2>1, <2>2 DEF HostTypeOK, Sound
<1>2. /\ Pending' = [Pending EXCEPT ![n] = Tail(@)]
      /\ Pending \in [Cores -> Seq(Commands)]
      /\ Pending[n] # <<>> /\ Head(Pending[n]) = c
  <2>1. Service!Execute(n)
    BY <1>0, <1>1, ExecuteStep
  <2>2. toCore[n] \in Seq(Commands) /\ sdp_queue[n] \in Seq(Commands)
    BY <1>1 DEF HostTypeOK
  <2>3. toCore[n] # <<>>
    BY <1>0 DEF TakeIncoming
  <2>4. Head(Pending[n]) = Head(toCore[n])
    BY <2>2, <2>3, HeadOfFirst DEF Pending
  <2> QED
    BY <1>1, <2>1, <2>4, PendingType DEF Service!Execute, Incoming
<1> HIDE DEF M
<1>3. /\ \A k \in Cores \ {n} : Pending'[k] = Pending[k]
      /\ Pending'[n] = Tail(Pending[n])
      /\ Pending[n] \in Seq(Commands) /\ fromCore[n] \in Seq(M)
  BY <1>1, <1>2
\* The packet that core n may send, m.
<1>4. ASSUME NEW m \in M,
             fromCore' \in {fromCore, [fromCore EXCEPT ![n] = Append(@, m)]},
             m.kind = "ether",
             m.of = c.of, c.kind \in {"READ", "VER"}
      PROVE  OneVers'
  <2>1. /\ \A k \in Cores \ {n} : fromCore'[k] = fromCore[k]
        /\ fromCore'[n] \in {fromCore[n], Append(fromCore[n], m)}
    BY <1>1, <1>4
  <2>2. ASSUME NEW A, OneVer(requests, A, n, fromCore[n], Pending[n])
        PROVE  OneVer(requests, A, n, fromCore'[n], Tail(Pending[n]))
    <3>1. OneVer(requests, A, n, fromCore[n], Tail(Pending[n]))
      BY <1>2, <1>3, <1>4, <2>2, VerExecutes
    <3>2. CASE c.kind = "VER"
      <4>1. OneVer(requests, A, n, Append(fromCore[n], m), Tail(Pending[n]))
        <5>1. Head(Pending[n]).kind = "VER" /\ m.of = Head(Pending[n]).of
              /\ requests[m.of].core = n
          BY <1>1, <1>2, <1>4, <3>2
        <5> QED
          BY <1>2, <1>3, <2>2, <5>1, VerExecutes
      <4> QED
        BY <2>1, <3>1, <4>1
    <3>3. CASE c.kind = "READ"
      <4>1. requests[m.of].cmd # CMD_VER
        BY <1>1, <1>4, <3>3 DEF CMD_VER, CMD_READ
      <4>2. OneVer(requests, A, n, Append(fromCore[n], m), Tail(Pending[n]))
        BY <1>3, <3>1, <4>1, VerSends
      <4> QED
        BY <2>1, <3>1, <4>2
    <3> QED
      BY <1>4, <3>2, <3>3
  <2>3. OneVer(requests', Settled', n, fromCore[n], Pending[n]) =>
          OneVer(requests', Settled', n, fromCore'[n], Pending'[n])
    BY <1>1, <1>3, <2>2
  <2> QED
    BY <1>3, <2>1, <2>3, VersCore
<1>5. CASE cmd_read(n)
  <2> DEFINE seen == IF c.kind = "READ" THEN ram[ChipOf(n)] ELSE {}
             m == ToHost(c.of, c.tag, seen)
  <2>1. SendAs(n, m) /\ c.kind \in {"READ", "VER"}
    BY <1>5 DEF cmd_read, TakeIncoming
  <2>2. m \in Ethernet /\ m.kind = "ether" /\ m.of = c.of
    BY <1>1, Board0 DEF ToHost, Ethernet, Commands, HostTypeOK
  <2> HIDE DEF m, c
  <2>3. m \in M
    BY <2>2 DEF M
  <2>4. fromCore' \in {fromCore, [fromCore EXCEPT ![n] = Append(@, m)]}
    BY <1>1, <2>1, SendsAs
  <2> QED
    BY <1>4, <2>1, <2>2, <2>3, <2>4
<1>6. CASE cmd_write(n) \/ cmd_as(n) \/ ReceiveEvent(n)
  <2>1. fromCore' = fromCore
    BY <1>6 DEF cmd_write, cmd_as, ReceiveEvent
  <2>2. PICK m \in M : TRUE
    <3>1. [kind |-> "FINISHED"] \in Finished
      BY DEF Finished
    <3> QED
      BY <3>1 DEF M
  <2>3. ASSUME NEW A, OneVer(requests, A, n, fromCore[n], Pending[n])
        PROVE  OneVer(requests, A, n, fromCore[n], Tail(Pending[n]))
    BY <1>2, <1>3, <2>2, <2>3, VerExecutes
  <2>4. OneVer(requests', Settled', n, fromCore[n], Pending[n]) =>
          OneVer(requests', Settled', n, fromCore'[n], Pending'[n])
    BY <1>1, <1>3, <2>1, <2>3
  <2> QED
    BY <1>3, <2>1, <2>4, VersCore
<1> QED
  BY <1>5, <1>6 DEF ReadPacket

LEMMA VersApplication ==
  ASSUME Safe, OneVers, [Next]_vars, ~dispatch_sdp_to_ether, NEW n \in Cores,
         \/ spin1_stop(n)
         \/ \E d \in Cores : spin1_send_sdp_msg(n, d)
         \/ io_printf(n)
  PROVE  OneVers'
<1> DEFINE M == Ethernet \cup Messages \cup Finished
<1>1. HostTypeOK /\ fromCore \in [Cores -> Seq(M)]
  BY DEF Safe, HostTypeOK
<1>2. UNCHANGED <<Pending, requests>>
  <2>1. UNCHANGED <<toCore, sdp_queue, requests>>
    BY DEF spin1_stop, spin1_send_sdp_msg, io_printf, AppSends, hostVars
  <2> QED
    BY <2>1 DEF Pending
<1>3. PICK m \in M :
        /\ fromCore' \in {fromCore, [fromCore EXCEPT ![n] = Append(@, m)]}
        /\ m.kind = "ether" => m.of = 0
  <2>1. CASE spin1_stop(n)
    <3>1. [kind |-> "FINISHED"] \in M
      BY DEF Finished
    <3> QED
      BY <2>1, <3>1 DEF spin1_stop
  <2>2. ASSUME NEW d \in Cores, spin1_send_sdp_msg(n, d)
        PROVE  \E m \in M :
                 /\ fromCore' \in {fromCore, [fromCore EXCEPT ![n] = Append(@, m)]}
                 /\ m.kind = "ether" => m.of = 0
    <3> DEFINE m == [kind |-> "sdp", core |-> d]
    <3>1. m \in M /\ m.kind # "ether"
      BY DEF Messages
    <3>2. fromCore' = [fromCore EXCEPT ![n] = Sent(@, m)]
      BY <2>2 DEF spin1_send_sdp_msg
    <3> HIDE DEF m, M
    <3>3. fromCore' \in {fromCore, [fromCore EXCEPT ![n] = Append(@, m)]}
      BY <1>1, <3>2 DEF Sent
    <3> QED
      BY <3>1, <3>3
  <2>3. CASE io_printf(n)
    <3> DEFINE m == ToHost(0, 0, {})
    <3>1. SendAs(n, m)
      BY <2>3 DEF io_printf
    <3>2. m \in M /\ m.of = 0
      BY DEF ToHost, Ethernet, TAG_NONE
    <3> HIDE DEF m, M
    <3>3. fromCore' \in {fromCore, [fromCore EXCEPT ![n] = Append(@, m)]}
      BY <1>1, <3>1, SendsAs
    <3> QED
      BY <3>2, <3>3
  <2> QED
    BY <2>1, <2>2, <2>3
<1> HIDE DEF M
<1>4. /\ \A k \in Cores \ {n} : fromCore'[k] = fromCore[k]
      /\ fromCore'[n] \in {fromCore[n], Append(fromCore[n], m)}
      /\ fromCore[n] \in Seq(M)
  BY <1>1, <1>3
<1>5. ASSUME NEW A, OneVer(requests, A, n, fromCore[n], Pending[n])
      PROVE  OneVer(requests, A, n, fromCore'[n], Pending[n])
  <2>1. OneVer(requests, A, n, Append(fromCore[n], m), Pending[n])
    BY <1>3, <1>4, <1>5, VerSends
  <2> QED
    BY <1>4, <1>5, <2>1
<1>6. OneVer(requests', Settled', n, fromCore[n], Pending[n]) =>
        OneVer(requests', Settled', n, fromCore'[n], Pending'[n])
  BY <1>2, <1>5
<1>7. \A k \in Cores \ {n} : fromCore'[k] = fromCore[k] /\ Pending'[k] = Pending[k]
  BY <1>2, <1>4
<1> QED
  BY <1>6, <1>7, VersCore

LEMMA OneVersStep ==
  ASSUME Safe, OneVers, VerAlone, [Next]_vars
  PROVE  OneVers'
<1>1. CASE UNCHANGED vars \/ \E r \in Requests : HostSend(r)
  <2>1. UNCHANGED <<toCore, sdp_queue, fromCore>>
    BY <1>1 DEF vars, HostSend
  <2>2. Pending' = Pending
    BY <2>1 DEF Pending
  <2>3. \A n \in Cores :
          OneVer(requests', Settled', n, fromCore[n], Pending[n]) =>
            OneVer(requests', Settled', n, fromCore'[n], Pending'[n])
    BY <2>1, <2>2
  <2> QED
    BY <2>3, VersChange, VersAnswered
<1>2. CASE dispatch_sdp_to_ether
  BY <1>2, VersAnswered
<1> QED
  BY <1>1, <1>2, VersDispatcher, VersRead, VersApplication DEF Next

\* The guard of HostSend.
LEMMA VerAloneStep ==
  ASSUME Safe, VerAlone, [Next]_vars, Concurrent = FALSE
  PROVE  VerAlone'
<1>1. \A k : Answered(k) => Answered(k)'
  BY NewAnswers DEF Answered
<1>2. CASE requests' = requests
  BY <1>1, <1>2 DEF VerAlone
<1>3. ASSUME NEW r \in Requests, HostSend(r)
      PROVE  VerAlone'
  <2>1. /\ requests' = Append(requests, r) /\ requests \in Seq(Requests)
        /\ r.cmd = CMD_VER => ~VerOutstanding
    BY <1>3 DEF HostSend, Safe, HostTypeOK
  <2>2. /\ Len(requests) \in Nat /\ Len(requests') = Len(requests) + 1
        /\ requests'[Len(requests) + 1] = r
        /\ \A k \in 1 .. Len(requests) : requests'[k] = requests[k]
        /\ DOMAIN requests = 1 .. Len(requests)
    BY <2>1, AppendProperties, LenProperties
  <2>3. SUFFICES ASSUME NEW i \in 1 .. Len(requests'), NEW j \in 1 .. Len(requests'),
                        i < j, requests'[i].cmd = CMD_VER, requests'[j].cmd = CMD_VER
                 PROVE  Answered(i)'
    BY DEF VerAlone
  <2>4. i \in 1 .. Len(requests) /\ requests[i].cmd = CMD_VER
    BY <2>2, <2>3
  <2>5. CASE j \in 1 .. Len(requests)
    BY <1>1, <2>2, <2>3, <2>4, <2>5 DEF VerAlone
  <2>6. CASE j \notin 1 .. Len(requests)
    <3>1. j = Len(requests) + 1 /\ r.cmd = CMD_VER
      BY <2>2, <2>3, <2>6
    <3> QED
      BY <1>1, <2>1, <2>2, <2>4, <3>1 DEF VerOutstanding
  <2> QED
    BY <2>5, <2>6
<1>4. CASE ~\E r \in Requests : HostSend(r)
  <2>1. CASE Dispatcher
    <3>1. requests' = requests
      BY <2>1 DEF Dispatcher, QueueCommand, NoBoard, dispatch_as, FloodStart,
         IgnoreNnp, cmd_floodfill, flood_as, cmd_p2pc, IgnoreP2pc, cmd_iptag,
         IptagSet, IptagGet, IptagTto, IptagClr, IptagRefused, AnswerTag,
         EtherEmpty, dispatch_sdp_to_ether, dispatch_sdp_one, CoreFinished,
         TakePolled, PollNext, Flush, Die, FlushNext, Step, Receive, hostVars
    <3> QED
      BY <1>2, <3>1
  <2>2. ASSUME NEW n \in Cores,
               \/ ReadPacket(n) \/ spin1_stop(n)
               \/ \E d \in Cores : spin1_send_sdp_msg(n, d)
               \/ io_printf(n)
        PROVE  requests' = requests
    BY <2>2 DEF ReadPacket, cmd_write, cmd_read, cmd_as, ReceiveEvent,
       TakeIncoming, spin1_stop, spin1_send_sdp_msg, io_printf, AppSends,
       hostVars
  <2>3. UNCHANGED vars => requests' = requests
    BY DEF vars, hostVars
  <2> QED
    BY <1>2, <1>4, <2>1, <2>2, <2>3 DEF Next
<1> QED
  BY <1>3, <1>4

\* Of the known commands VER alone is remembered.
LEMMA OnlyVer ==
  ASSUME NEW cmd \in 0 .. 255
  PROVE  RepliesAtOnce(cmd) <=> cmd # CMD_VER
<1>1. cmd % 256 = cmd /\ cmd \div 256 = 0
  OBVIOUS
<1> QED
  BY <1>1 DEF RepliesAtOnce, Raw, CMD_VER, CMD_READ, CMD_IPTAG

LEMMA SlotStep ==
  ASSUME KnownCommands, Safe, SlotKept, [Next]_vars
  PROVE  SlotKept'
<1>0. /\ Takes(requests, received, requests', received') /\ received \in Nat
      /\ HostTypeOK
  BY StepTakes DEF Safe
<1>1. CASE received' = received /\ slot' = slot
  <2>1. \A k \in 1 .. received : requests'[k] = requests[k]
    BY <1>0, <1>1 DEF Takes
  <2>2. \A k \in 1 .. received : \A j \in k + 1 .. received : j \in 1 .. received
    BY <1>0
  <2> QED
    BY <1>1, <2>1, <2>2 DEF SlotKept, slot
<1>2. ASSUME Receiving, NEW more, Receive(more)
      PROVE  SlotKept'
  <2>1. /\ received' = received + 1 /\ requests' = requests
        /\ sendersip' = Sender[1] /\ senderseq' = Sender[2]
        /\ Request \in Requests /\ Request = requests[received + 1]
        /\ Seq1 = received + 1
    BY <1>0, <1>2, RequestType DEF Receive, Request, Seq1
  <2>2. Request.cmd \in 0 .. 255
    BY <2>1 DEF KnownCommands
  <2>3. RepliesAtOnce(Request.cmd) <=> Request.cmd # CMD_VER
    BY <2>2, OnlyVer
  <2>4. CASE Request.cmd = CMD_VER
    <3>1. sendersip' = Request.host /\ senderseq' = Seq1
      BY <2>1, <2>3, <2>4 DEF Sender
    <3>2. \A k \in 1 .. received' :
            k # received + 1 => received + 1 \in k + 1 .. received'
      BY <1>0, <2>1
    <3> QED
      BY <2>1, <2>4, <3>1, <3>2 DEF SlotKept
  <2>5. CASE Request.cmd # CMD_VER
    <3>1. sendersip' = sendersip /\ senderseq' = senderseq
      BY <2>1, <2>3, <2>5 DEF Sender, slot
    <3>2. \A k \in 1 .. received : \A j \in k + 1 .. received :
            j \in k + 1 .. received'
      BY <1>0, <2>1
    <3>3. \A k \in 1 .. received' : k \in 1 .. received \/ k = received + 1
      BY <1>0, <2>1
    <3> QED
      BY <2>1, <2>5, <3>1, <3>2, <3>3 DEF SlotKept
  <2> QED
    BY <2>4, <2>5
<1>3. CASE Dispatcher
  <2>1. CASE Receiving
    <3>1. \/ \E more : Receive(more)
          \/ received' = received /\ slot' = slot
      BY <1>3, <2>1 DEF Dispatcher, QueueCommand, NoBoard, dispatch_as,
         FloodStart, IgnoreNnp, cmd_floodfill, flood_as, cmd_p2pc, IgnoreP2pc,
         cmd_iptag, IptagSet, IptagGet, IptagTto, IptagClr, IptagRefused,
         AnswerTag, EtherEmpty, dispatch_sdp_to_ether, dispatch_sdp_one,
         CoreFinished, TakePolled, PollNext, Flush, Die, FlushNext, Step,
         hostVars
    <3> QED
      BY <1>1, <1>2, <2>1, <3>1
  <2>2. CASE ~Receiving
    <3>1. received' = received /\ slot' = slot
      BY <1>3, <2>2 DEF Dispatcher, QueueCommand, NoBoard, dispatch_as,
         FloodStart, IgnoreNnp, cmd_floodfill, flood_as, cmd_p2pc, IgnoreP2pc,
         cmd_iptag, IptagSet, IptagGet, IptagTto, IptagClr, IptagRefused,
         AnswerTag, EtherEmpty, dispatch_sdp_to_ether, dispatch_sdp_one,
         CoreFinished, TakePolled, PollNext, Flush, Die, FlushNext, Step,
         hostVars
    <3> QED
      BY <1>1, <3>1
  <2> QED
    BY <2>1, <2>2
<1>4. ASSUME NEW n \in Cores,
             \/ ReadPacket(n) \/ spin1_stop(n)
             \/ \E d \in Cores : spin1_send_sdp_msg(n, d)
             \/ io_printf(n)
      PROVE  received' = received /\ slot' = slot
  BY <1>4 DEF ReadPacket, cmd_write, cmd_read, cmd_as, ReceiveEvent,
     TakeIncoming, spin1_stop, spin1_send_sdp_msg, io_printf, AppSends,
     hostVars
<1>5. ASSUME UNCHANGED vars \/ \E r \in Requests : HostSend(r)
      PROVE  received' = received /\ slot' = slot
  BY <1>5 DEF vars, hostVars, HostSend
<1> QED
  BY <1>1, <1>3, <1>4, <1>5 DEF Next

\* The reply of a core finds the slot as its request left it.
LEMMA VerReplyStep ==
  ASSUME Safe, OneVers, VerAlone, SlotKept, VerRepliesToSender, [Next]_vars
  PROVE  VerRepliesToSender'
<1>0. /\ Takes(requests, received, requests', received') /\ received \in Nat
      /\ HostTypeOK
  BY StepTakes DEF Safe
<1>1. ASSUME NEW a \in answers, a.kind = "reply", requests'[a.of].cmd = CMD_VER
      PROVE  ToSender(a)'
  <2>1. a.of \in 1 .. received
    BY <1>1 DEF Safe, RepliesGiven, Replied
  <2>2. requests'[a.of] = requests[a.of]
    BY <1>0, <2>1 DEF Takes
  <2>3. ToSender(a)
    BY <1>1, <2>2 DEF VerRepliesToSender, Replies
  <2> QED
    BY <2>2, <2>3 DEF ToSender
<1>2. CASE ~dispatch_sdp_to_ether
  <2>1. \A a \in answers' \ answers :
          a.kind = "reply" => requests'[a.of].cmd = CMD_IPTAG
    BY <1>2, NewAnswers DEF Request, Seq1
  <2> QED
    BY <1>1, <2>1 DEF VerRepliesToSender, Replies, CMD_VER, CMD_IPTAG
<1>3. CASE dispatch_sdp_to_ether
  <2> DEFINE M == Ethernet \cup Messages \cup Finished
  <2>0. PICK m, x : m = Head(Polled) /\ x = ToEther(iptags, slot, m, 0, received)
    OBVIOUS
  <2>1. /\ fromCore[at] # <<>> /\ fromCore[at] \in Seq(M) /\ at \in Cores
        /\ m = Head(fromCore[at]) /\ m.kind = "ether"
        /\ requests' = requests /\ answers' = answers \cup {x}
    BY <1>0, <1>3, <2>0 DEF dispatch_sdp_to_ether, TakePolled, Polled, HostTypeOK
  <2>2. /\ x.kind = "reply" => m.of # 0
        /\ x.of = m.of /\ x.tag = m.tag
        /\ x.tag \notin Tags => x.host = sendersip /\ x.seq = senderseq
    BY <2>0 DEF ToEther, Datagram, slot
  <2> HIDE DEF M
  <2>3. ASSUME m.of # 0, requests[m.of].cmd = CMD_VER
        PROVE  sendersip = requests[m.of].host /\ senderseq = m.of
    <3>1. m.of \notin Settled
      <4>1. OneVer(requests, Settled, at, fromCore[at], Pending[at])
        BY <2>1 DEF OneVers
      <4>2. LET h == Head(fromCore[at])
            IN  h.kind = "ether" /\ h.of # 0 /\ requests[h.of].cmd = CMD_VER =>
                  /\ requests[h.of].core = at /\ h.of \notin Settled
                  /\ Asked(Pending[at]) = {}
                  /\ Told(requests, Tail(fromCore[at])) = {}
        BY <2>1, <4>1, VerReads
      <4> QED
        BY <2>1, <2>3, <4>2
    <3>2. m.of \in 1 .. received
      <4>1. m = fromCore[at][1] /\ 1 \in 1 .. Len(fromCore[at])
        BY <2>1, EmptySeq, HeadTailProperties
      <4> QED
        BY <2>1, <2>3, <4>1, VersTaken
    <3>3. ~Answered(m.of)
      BY <3>1, <3>2 DEF Settled
    <3>4. received <= Len(requests) /\ Len(requests) \in Nat
      BY <1>0, LenProperties DEF HostTypeOK
    <3>5. \A j \in m.of + 1 .. received : requests[j].cmd # CMD_VER
      BY <1>0, <2>3, <3>2, <3>3, <3>4 DEF VerAlone
    <3> QED
      BY <2>3, <3>2, <3>5 DEF SlotKept
  <2>4. x.kind = "reply" /\ requests[x.of].cmd = CMD_VER => ToSender(x)'
    BY <2>1, <2>2, <2>3 DEF ToSender
  <2> QED
    BY <1>1, <2>1, <2>4 DEF VerRepliesToSender, Replies
<1> QED
  BY <1>2, <1>3

\* The reply to a VER goes to the host that sent it, with its sequence number,
\* though one slot remembers the sender of every request and the reply takes
\* its time: as long as no host sends a VER before the one before is answered,
\* and every command is one the protocol knows.
THEOREM VersToSender ==
  ASSUME Concurrent = FALSE, KnownCommands
  PROVE  Spec => []VerRepliesToSender
<1> DEFINE I == OneVers /\ VerAlone /\ SlotKept /\ VerRepliesToSender
<1>1. Init => I
  <2> SUFFICES ASSUME Init PROVE I
    OBVIOUS
  <2>1. requests = <<>> /\ Len(requests) = 0 /\ received = 0 /\ answers = {}
    BY EmptySeq DEF Init
  <2>2. VerAlone /\ SlotKept /\ VerRepliesToSender
    BY <2>1 DEF VerAlone, SlotKept, VerRepliesToSender, Replies
  <2>3. ASSUME NEW n \in Cores
        PROVE  OneVer(requests, Settled, n, fromCore[n], Pending[n])
    <3>1. fromCore[n] = <<>> /\ toCore[n] = <<>> /\ sdp_queue[n] = <<>>
      BY DEF Init
    <3>2. <<>> \o <<>> = <<>>
      BY EmptySeq, ConcatEmptySeq
    <3>3. Pending[n] = <<>>
      BY <3>1, <3>2 DEF Pending
    <3>4. Asked(<<>>) = {} /\ Told(requests, <<>>) = {}
      BY EmptySeq DEF Asked, Told
    <3>5. OneVer(requests, Settled, n, <<>>, <<>>)
      BY <3>4 DEF OneVer
    <3> QED
      BY <3>1, <3>3, <3>5
  <2> QED
    BY <2>2, <2>3 DEF OneVers
<1>2. Safe /\ I /\ [Next]_vars => I'
  BY OneVersStep, VerAloneStep, SlotStep, VerReplyStep
<1>3. I => VerRepliesToSender
  OBVIOUS
<1> QED
  BY <1>1, <1>2, <1>3, Safety, PTL DEF Spec

=============================================================================
