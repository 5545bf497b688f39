-------------------------- MODULE McDeliveryProofs --------------------------
(***************************************************************************)
(* Proofs about McDelivery, for boards, tables, queues and sockets of any  *)
(* size: a flush delivers every packet to the cores that the tables name,  *)
(* and packets of one core with one key do not overtake each other.        *)
(***************************************************************************)
EXTENDS McDelivery, McRouterProofs, TopologyProofs, FiniteSetTheorems

-----------------------------------------------------------------------------
(* Where a packet comes to.  Reached is the least set of chips that holds  *)
(* the first one and, with a chip, those its entry leads to: there are     *)
(* NUM_CHIPS chips, so after NUM_CHIPS - 1 hops no other can be added.     *)

LEMMA SetInduction ==
  ASSUME NEW T \in SUBSET Nat, 0 \in T, \A n \in T : n + 1 \in T
  PROVE  T = Nat
<1> SUFFICES ASSUME Nat \ T # {} PROVE FALSE
  OBVIOUS
<1> DEFINE R == {p \in Nat \X Nat : p[1] < p[2]}
<1>1. PICK x \in Nat \ T : \A y \in Nat \ T : ~(<<y, x>> \in R)
  BY LessOnNat, WFMin, Zenon
<1>2. x # 0 /\ x - 1 \in Nat /\ x - 1 < x
  OBVIOUS
<1>3. <<x - 1, x>> \in R
  BY <1>2
<1>4. x - 1 \in T
  BY <1>1, <1>2, <1>3
<1>5. (x - 1) + 1 = x
  BY <1>2
<1> QED
  BY <1>1, <1>4, <1>5

LEMMA TargetsType ==
  ASSUME TypeOK, NEW c \in Chips, NEW k
  PROVE  LinkTargets(c, k) \subseteq Chips \ {c}
<1>1. RouteOf(c, k) \in Routes
  <2>1. CASE RouteOf(c, k) = Unset
    BY <2>1 DEF Routes, Unset
  <2>2. CASE \E i \in Indices : RouteOf(c, k) = spin_emu_routes[c][i]
    BY <2>2 DEF TypeOK
  <2> QED
    BY <2>1, <2>2, RouteIsEntry
<1>2. RouteOf(c, k).links \subseteq Links
  BY <1>1 DEF Routes
<1> QED
  BY <1>2, LinksPaired DEF LinkTargets

Closed(S, k) == \A d \in S : LinkTargets(d, k) \subseteq S
OneHop(S, k) == S \cup UNION {LinkTargets(d, k) : d \in S}

LEMMA HopsExist ==
  ASSUME NEW c, NEW k
  PROVE  \E h : /\ Reached(c, k) = h[NUM_CHIPS - 1]
                /\ h[0] = {c}
                /\ \A n \in 0 .. NUM_CHIPS - 1 :
                     n # 0 => h[n] = OneHop(h[n - 1], k)
<1> DEFINE Hops(g, m) ==
             g = [n \in 0 .. m |-> IF n = 0 THEN {c} ELSE OneHop(g[n - 1], k)]
           T == {m \in Nat : \E g : Hops(g, m)}
<1>1. 0 \in T
  <2>1. Hops([n \in 0 .. 0 |-> {c}], 0)
    OBVIOUS
  <2> QED
    BY <2>1
<1>2. ASSUME NEW m \in T PROVE m + 1 \in T
  <2>1. PICK g : Hops(g, m)
    BY <1>2
  <2>2. m \in Nat
    OBVIOUS
  <2>3. PICK h : h = [n \in 0 .. m + 1 |->
                        IF n = 0 THEN {c} ELSE OneHop(g[n - 1], k)]
    OBVIOUS
  <2>4. \A n \in 0 .. m : h[n] = g[n]
    <3>1. \A n \in 0 .. m :
            g[n] = IF n = 0 THEN {c} ELSE OneHop(g[n - 1], k)
      BY <2>1, Zenon
    <3>2. \A n \in 0 .. m + 1 :
            h[n] = IF n = 0 THEN {c} ELSE OneHop(g[n - 1], k)
      BY <2>3, Zenon
    <3>3. \A n \in 0 .. m : n \in 0 .. m + 1
      BY <2>2
    <3> QED
      BY <3>1, <3>2, <3>3, Zenon
  <2>5. \A n \in 0 .. m + 1 : n # 0 => n - 1 \in 0 .. m
    BY <2>2
  <2>6. Hops(h, m + 1)
    BY <2>3, <2>4, <2>5
  <2> QED
    BY <2>2, <2>6
<1>3. T = Nat
  <2> HIDE DEF T
  <2>1. T \in SUBSET Nat
    BY DEF T
  <2> QED
    BY <1>1, <1>2, <2>1, SetInduction
<1>4. NUM_CHIPS - 1 \in Nat
  BY SomeChip
<1>5. \E g : Hops(g, NUM_CHIPS - 1)
  BY <1>3, <1>4
<1> DEFINE h == CHOOSE g : Hops(g, NUM_CHIPS - 1)
<1>6. Reached(c, k) = h[NUM_CHIPS - 1]
  BY DEF Reached, OneHop
<1>7. Hops(h, NUM_CHIPS - 1)
  <2> HIDE DEF Hops
  <2> QED
    BY <1>5
<1>8. \A n \in 0 .. NUM_CHIPS - 1 :
        h[n] = IF n = 0 THEN {c} ELSE OneHop(h[n - 1], k)
  <2> HIDE DEF h
  <2> QED
    BY <1>7, Zenon
<1> HIDE DEF h
<1>9. 0 \in 0 .. NUM_CHIPS - 1
  BY <1>4
<1> QED
  BY <1>6, <1>8, <1>9

LEMMA ReachedLeast ==
  ASSUME TypeOK, NEW c \in Chips, NEW k
  PROVE  /\ c \in Reached(c, k)
         /\ Reached(c, k) \subseteq Chips
         /\ Closed(Reached(c, k), k)
         /\ \A S : c \in S /\ Closed(S, k) => Reached(c, k) \subseteq S
<1> DEFINE M == NUM_CHIPS - 1
<1>1. M \in Nat /\ NUM_CHIPS = M + 1
  BY SomeChip
<1> HIDE DEF M
<1>2. PICK h : /\ Reached(c, k) = h[M]
               /\ h[0] = {c}
               /\ \A n \in 0 .. M : n # 0 => h[n] = OneHop(h[n - 1], k)
  BY HopsExist DEF M
<1>3. ASSUME NEW S \in SUBSET Chips, Closed(S, k)
      PROVE  OneHop(S, k) = S
  BY <1>3 DEF Closed, OneHop
<1>4. ASSUME NEW S \in SUBSET Chips
      PROVE  S \subseteq OneHop(S, k) /\ OneHop(S, k) \subseteq Chips
  BY TargetsType DEF OneHop
<1>5. ASSUME NEW m \in Nat, m + 1 <= M
      PROVE  m \in 0 .. M /\ h[m + 1] = OneHop(h[m], k)
  <2>1. m + 1 \in 0 .. M /\ m + 1 # 0 /\ (m + 1) - 1 = m
    BY <1>1, <1>5
  <2>2. h[m + 1] = OneHop(h[(m + 1) - 1], k)
    BY <1>2, <2>1
  <2>3. m \in 0 .. M
    BY <1>1, <1>5
  <2> QED
    BY <2>1, <2>2, <2>3
<1>6. \A m \in Nat : m <= M => c \in h[m] /\ h[m] \subseteq Chips
  <2> DEFINE T == {m \in Nat : m <= M => c \in h[m] /\ h[m] \subseteq Chips}
  <2>1. 0 \in T
    BY <1>2
  <2>2. ASSUME NEW m \in T PROVE m + 1 \in T
    <3>1. m \in Nat /\ (m + 1 <= M => m <= M)
      BY <1>1
    <3>2. ASSUME m + 1 <= M PROVE c \in h[m + 1] /\ h[m + 1] \subseteq Chips
      BY <3>1, <3>2, <2>2, <1>5, <1>4
    <3> QED
      BY <3>1, <3>2
  <2>3. T = Nat
    <3> HIDE DEF T
    <3>1. T \in SUBSET Nat
      BY DEF T
    <3> QED
      BY <2>1, <2>2, <3>1, SetInduction
  <2> QED
    BY <2>3
<1>7. ASSUME NEW S, c \in S, Closed(S, k)
      PROVE  h[M] \subseteq S
  <2> DEFINE T == {m \in Nat : m <= M => h[m] \subseteq S}
  <2>1. 0 \in T
    BY <1>2, <1>7
  <2>2. ASSUME NEW m \in T PROVE m + 1 \in T
    <3>1. m \in Nat /\ (m + 1 <= M => m <= M)
      BY <1>1
    <3>2. ASSUME m + 1 <= M PROVE h[m + 1] \subseteq S
      <4>1. h[m] \subseteq S /\ h[m + 1] = OneHop(h[m], k)
        BY <3>1, <3>2, <2>2, <1>5
      <4> QED
        BY <4>1, <1>7 DEF OneHop, Closed
    <3> QED
      BY <3>1, <3>2
  <2>3. T = Nat
    <3> HIDE DEF T
    <3>1. T \in SUBSET Nat
      BY DEF T
    <3> QED
      BY <2>1, <2>2, <3>1, SetInduction
  <2> QED
    BY <2>3, <1>1
<1>8. ASSUME NEW S \in SUBSET Chips
      PROVE  IsFiniteSet(S) /\ Cardinality(S) \in Nat
  <2>1. IsFiniteSet(Chips)
    BY <1>1, FS_Interval DEF Chips
  <2> QED
    BY <2>1, FS_Subset, FS_CardinalityType
<1>9. Closed(h[M], k)
  <2> DEFINE T == {m \in Nat : m <= M =>
                     Closed(h[m], k) \/ Cardinality(h[m]) >= m + 1}
  <2>1. 0 \in T
    BY <1>2, FS_Singleton
  <2>2. ASSUME NEW m \in T PROVE m + 1 \in T
    <3>1. m \in Nat /\ (m + 1 <= M => m <= M)
      BY <1>1
    <3>2. ASSUME m + 1 <= M
          PROVE  Closed(h[m + 1], k) \/ Cardinality(h[m + 1]) >= m + 2
      <4>1. h[m + 1] = OneHop(h[m], k)
        BY <3>1, <3>2, <1>5
      <4>2. /\ h[m] \in SUBSET Chips
            /\ h[m + 1] \in SUBSET Chips
            /\ h[m] \subseteq h[m + 1]
        BY <4>1, <3>1, <3>2, <1>6, <1>4
      <4>3. CASE Closed(h[m], k)
        BY <4>1, <4>2, <4>3, <1>3
      <4>4. CASE ~Closed(h[m], k)
        <5>1. PICK x : x \in h[m + 1] /\ x \notin h[m]
          BY <4>1, <4>4 DEF Closed, OneHop
        <5>2. Cardinality(h[m]) >= m + 1
          BY <4>4, <3>1, <3>2, <2>2
        <5>3. /\ IsFiniteSet(h[m]) /\ Cardinality(h[m]) \in Nat
              /\ IsFiniteSet(h[m + 1]) /\ Cardinality(h[m + 1]) \in Nat
          BY <4>2, <1>8
        <5>4. Cardinality(h[m] \cup {x}) = Cardinality(h[m]) + 1
          BY <5>1, <5>3, FS_AddElement
        <5>5. h[m] \cup {x} \in SUBSET h[m + 1]
          BY <5>1, <4>2
        <5>6. Cardinality(h[m] \cup {x}) <= Cardinality(h[m + 1])
          BY <5>3, <5>5, FS_Subset
        <5> QED
          BY <5>2, <5>3, <5>4, <5>6, <3>1
      <4> QED
        BY <4>3, <4>4
    <3> QED
      BY <3>1, <3>2
  <2>3. T = Nat
    <3> HIDE DEF T
    <3>1. T \in SUBSET Nat
      BY DEF T
    <3> QED
      BY <2>1, <2>2, <3>1, SetInduction
  <2>4. CASE Cardinality(h[M]) >= M + 1
    <3>1. h[M] \in SUBSET Chips
      BY <1>1, <1>6
    <3>2. IsFiniteSet(Chips) /\ Cardinality(Chips) = M + 1
      BY <1>1, FS_Interval DEF Chips
    <3>3. Cardinality(h[M]) \in Nat
      BY <3>1, <1>8
    <3>4. h[M] = Chips
      BY <3>1, <3>2, <3>3, <2>4, <1>1, FS_Subset
    <3> QED
      BY <3>4, TargetsType DEF Closed
  <2> QED
    BY <2>3, <2>4, <1>1
<1> QED
  BY <1>1, <1>2, <1>6, <1>7, <1>9

ReachesFirst == \A c \in Chips, k \in Keys : c \in Reached(c, k)

LEMMA FirstReached == TypeOK => ReachesFirst
  BY ReachedLeast DEF ReachesFirst

LEMMA FirstReachedNext == TypeOK' => ReachesFirst'
  BY FirstReached, PTL

\* What an entry names depends on the tables only.
LEMMA SameTables ==
  ASSUME UNCHANGED spin_emu_routes, NEW c, NEW k
  PROVE  /\ RouteOf(c, k)' = RouteOf(c, k)
         /\ LinkTargets(c, k)' = LinkTargets(c, k)
         /\ Reached(c, k)' = Reached(c, k)
         /\ IsTree(c, k)' = IsTree(c, k)
<1>1. RouteOf(c, k)' = RouteOf(c, k)
  BY DEF RouteOf, Matching
<1>2. \A d : LinkTargets(d, k)' = LinkTargets(d, k)
  BY DEF LinkTargets, RouteOf, Matching
<1>3. Reached(c, k)' = Reached(c, k)
  BY DEF Reached, LinkTargets, RouteOf, Matching
<1>4. IsTree(c, k)' = IsTree(c, k)
  BY <1>2, <1>3 DEF IsTree
<1> QED
  BY <1>1, <1>2, <1>3, <1>4

-----------------------------------------------------------------------------
(* Packets in sequence.                                                    *)

SameFlow(p, q) ==
  /\ p.type = "mc" /\ q.type = "mc"
  /\ p.chip = q.chip /\ p.core = q.core /\ p.key = q.key

\* If p and q are packets of one core with one key, p was sent before q.
Precedes(p, q) == SameFlow(p, q) => p.n > q.n

Ordered(s) ==
  \A i, j \in 1 .. Len(s) : i < j => Precedes(s[i], s[j])

LEMMA MembersOfEmpty == ToSet(<<>>) = {}
  BY DEF ToSet

LEMMA MembersType ==
  ASSUME NEW S, NEW s \in Seq(S)
  PROVE  ToSet(s) = {s[i] : i \in 1 .. Len(s)} /\ ToSet(s) \subseteq S
  BY DEF ToSet

LEMMA MembersAppend ==
  ASSUME NEW S, NEW s \in Seq(S), NEW e \in S
  PROVE  ToSet(Append(s, e)) = ToSet(s) \cup {e}
<1>1. /\ Append(s, e) \in Seq(S) /\ Len(Append(s, e)) = Len(s) + 1
      /\ \A i \in 1 .. Len(s) : Append(s, e)[i] = s[i]
      /\ Append(s, e)[Len(s) + 1] = e
      /\ Len(s) \in Nat
  BY AppendProperties
<1>2. /\ ToSet(s) = {s[i] : i \in 1 .. Len(s)}
      /\ ToSet(Append(s, e)) =
           {Append(s, e)[i] : i \in 1 .. Len(Append(s, e))}
  BY <1>1, MembersType
<1>3. 1 .. Len(s) + 1 = 1 .. Len(s) \cup {Len(s) + 1}
  BY <1>1
<1> HIDE DEF ToSet
<1> QED
  BY <1>1, <1>2, <1>3

LEMMA MembersTail ==
  ASSUME NEW S, NEW s \in Seq(S), s # <<>>
  PROVE  ToSet(s) = {Head(s)} \cup ToSet(Tail(s))
<1>1. /\ Tail(s) \in Seq(S) /\ Len(Tail(s)) = Len(s) - 1
      /\ \A i \in 1 .. Len(Tail(s)) : Tail(s)[i] = s[i + 1]
      /\ Len(s) \in Nat \ {0} /\ Head(s) = s[1]
  BY HeadTailProperties, EmptySeq
<1>2. /\ ToSet(s) = {s[i] : i \in 1 .. Len(s)}
      /\ ToSet(Tail(s)) = {Tail(s)[i] : i \in 1 .. Len(Tail(s))}
  BY <1>1, MembersType
<1>3. ASSUME NEW i \in 1 .. Len(s)
      PROVE  s[i] = Head(s) \/ s[i] \in ToSet(Tail(s))
  <2>1. CASE i = 1
    BY <2>1, <1>1
  <2>2. CASE i # 1
    <3>1. i - 1 \in 1 .. Len(Tail(s)) /\ (i - 1) + 1 = i
      BY <2>2, <1>1
    <3>2. Tail(s)[i - 1] = s[i]
      BY <3>1, <1>1
    <3> QED
      BY <3>1, <3>2, <1>2
  <2> QED
    BY <2>1, <2>2
<1>4. ASSUME NEW i \in 1 .. Len(Tail(s)) PROVE Tail(s)[i] \in ToSet(s)
  <2>1. i + 1 \in 1 .. Len(s)
    BY <1>1
  <2> QED
    BY <2>1, <1>1, <1>2
<1>5. Head(s) \in ToSet(s)
  BY <1>1, <1>2
<1> QED
  BY <1>2, <1>3, <1>4, <1>5

LEMMA OrderedAppend ==
  ASSUME NEW S, NEW s \in Seq(S), NEW e \in S,
         Ordered(s), \A x \in ToSet(s) : Precedes(x, e)
  PROVE  Ordered(Append(s, e))
<1>1. /\ Len(Append(s, e)) = Len(s) + 1
      /\ \A i \in 1 .. Len(s) : Append(s, e)[i] = s[i]
      /\ Append(s, e)[Len(s) + 1] = e
      /\ Len(s) \in Nat
  BY AppendProperties
<1>2. ASSUME NEW i \in 1 .. Len(s) + 1, NEW j \in 1 .. Len(s) + 1, i < j
      PROVE  Precedes(Append(s, e)[i], Append(s, e)[j])
  <2>1. i \in 1 .. Len(s) /\ Append(s, e)[i] = s[i]
    BY <1>1, <1>2
  <2>2. CASE j = Len(s) + 1
    <3>1. s[i] \in ToSet(s)
      BY <2>1, MembersType
    <3> QED
      BY <3>1, <2>1, <2>2, <1>1
  <2>3. CASE j # Len(s) + 1
    <3>1. j \in 1 .. Len(s) /\ Append(s, e)[j] = s[j]
      BY <1>1, <2>3
    <3> QED
      BY <3>1, <2>1, <1>2 DEF Ordered
  <2> QED
    BY <2>2, <2>3
<1> QED
  BY <1>1, <1>2 DEF Ordered

LEMMA OrderedTail ==
  ASSUME NEW S, NEW s \in Seq(S), s # <<>>, Ordered(s)
  PROVE  /\ Ordered(Tail(s))
         /\ \A x \in ToSet(Tail(s)) : Precedes(Head(s), x)
<1>1. /\ Tail(s) \in Seq(S) /\ Len(Tail(s)) = Len(s) - 1
      /\ \A i \in 1 .. Len(Tail(s)) : Tail(s)[i] = s[i + 1]
      /\ Len(s) \in Nat \ {0} /\ Head(s) = s[1]
  BY HeadTailProperties, EmptySeq
<1>2. \A i \in 1 .. Len(Tail(s)) : i + 1 \in 1 .. Len(s) /\ 1 < i + 1
  BY <1>1
<1>3. Ordered(Tail(s))
  BY <1>1, <1>2 DEF Ordered
<1>4. ASSUME NEW x \in ToSet(Tail(s)) PROVE Precedes(Head(s), x)
  <2>0. ToSet(Tail(s)) = {Tail(s)[i] : i \in 1 .. Len(Tail(s))}
    BY <1>1, MembersType
  <2>1. PICK i \in 1 .. Len(Tail(s)) : x = Tail(s)[i]
    BY <2>0
  <2>2. x = s[i + 1] /\ 1 \in 1 .. Len(s)
    BY <1>1, <2>1
  <2> QED
    BY <2>2, <1>1, <1>2 DEF Ordered
<1> QED
  BY <1>3, <1>4

\* No packet is in order with itself: an ordered sequence repeats none.
LEMMA OrderedOnce ==
  ASSUME NEW s \in Seq(McPackets), Ordered(s)
  PROVE  IsInjective(s)
<1>1. ASSUME NEW i \in 1 .. Len(s), NEW j \in 1 .. Len(s), i < j
      PROVE  s[i] # s[j]
  <2>1. Precedes(s[i], s[j]) /\ s[i] \in McPackets
    BY <1>1 DEF Ordered
  <2> QED
    BY <2>1 DEF Precedes, SameFlow, McPackets
<1>2. DOMAIN s = 1 .. Len(s) /\ 1 .. Len(s) \subseteq Int
  OBVIOUS
<1>3. ASSUME NEW i \in 1 .. Len(s), NEW j \in 1 .. Len(s), s[i] = s[j]
      PROVE  i = j
  <2>1. i < j \/ j < i \/ i = j
    BY <1>2
  <2> QED
    BY <2>1, <1>1, <1>3
<1> QED
  BY <1>2, <1>3 DEF IsInjective

-----------------------------------------------------------------------------
(* The record.                                                             *)

LEMMA RecordIsNext ==
  ASSUME [RecordNext]_<<vars, recordVars>>
  PROVE  [Next]_vars
<1>1. CASE RecordDispatcher
  <2>1. Dispatcher /\ UNCHANGED sends
    BY <1>1
    DEF RecordDispatcher, RecordTaken, RecordRouted, RecordStored,
        RecordReset, Dispatcher
  <2> QED
    BY <2>1 DEF Next
<1>2. CASE \E c \in Chips, i \in Cores : Core(c, i) /\ UNCHANGED recordVars
  BY <1>2 DEF Next
<1>3. CASE UNCHANGED <<vars, recordVars>>
  BY <1>3
<1> QED
  BY <1>1, <1>2, <1>3 DEF RecordNext

RecordTypeOK ==
  /\ taken \subseteq [at : Chips, packet : McPackets]
  /\ delivered \in [Chips -> [Cores -> Seq(McPackets)]]

LEMMA RecordType ==
  ASSUME TypeOK, RecordTypeOK, [RecordNext]_<<vars, recordVars>>
  PROVE  RecordTypeOK'
<1> USE DEF recordVars, flushVars
<1>1. CASE RecordTaken
  <2>1. Head(Polled) \in McPackets /\ chip \in Chips
    BY <1>1, PolledType DEF RecordTaken, dispatch_mc, TypeOK
  <2>2. [at |-> chip, packet |-> Head(Polled)]
          \in [at : Chips, packet : McPackets]
    BY <2>1
  <2>3. taken' \subseteq [at : Chips, packet : McPackets]
    BY <1>1, <2>2 DEF RecordTaken, RecordTypeOK
  <2> QED
    BY <1>1, <2>3 DEF RecordTaken, RecordTypeOK
<1>2. CASE RecordRouted
  <2>1. PICK p \in McPackets : p = Head(mc_queue[chip])
    BY <1>2 DEF RecordRouted, route_mc, TypeOK
  <2>2. PICK R : R = RouteOf(chip, p.key).cores
    OBVIOUS
  <2>3. delivered' = [delivered EXCEPT ![chip] =
           [i \in Cores |-> IF i \in R THEN Append(@[i], p) ELSE @[i]]]
    BY <1>2, <2>1, <2>2 DEF RecordRouted
  <2>4. \A i \in Cores : Append(delivered[chip][i], p) \in Seq(McPackets)
    BY <2>1 DEF RecordTypeOK, TypeOK
  <2>5. delivered' \in [Chips -> [Cores -> Seq(McPackets)]]
    BY <2>3, <2>4 DEF RecordTypeOK, TypeOK
  <2> QED
    BY <1>2, <2>5 DEF RecordRouted, RecordTypeOK
<1>3. CASE RecordReset
  BY <1>3 DEF RecordReset, RecordTypeOK, NothingDelivered
<1>4. CASE UNCHANGED flushVars
  BY <1>4 DEF RecordTypeOK
<1> QED
  BY <1>1, <1>2, <1>3, <1>4
  DEF RecordNext, RecordDispatcher, RecordStored

\* What core i of chip c has sent is in order, and older than what it will
\* send next.
Sockets ==
  \A c \in Chips, i \in Cores :
    /\ Ordered(up[c][i])
    /\ \A x \in ToSet(up[c][i]) :
         x.type = "mc" => x.chip = c /\ x.core = i /\ x.n > sends

\* The core that sent p has sent nothing before p that is still in its socket.
Past(p) ==
  /\ p.n > sends
  /\ \A x \in ToSet(up[p.chip][p.core]) : Precedes(p, x)

PastTaken == \A u \in taken : u.at = u.packet.chip /\ Past(u.packet)

\* A step takes the first packet of one socket at most, or a core sends one.
Taking ==
  /\ UNCHANGED sends
  /\ \A c \in Chips, i \in Cores :
       up'[c][i] = up[c][i] \/ (up[c][i] # <<>> /\ up'[c][i] = Tail(up[c][i]))

Sending(c, i, x) ==
  /\ up'[c][i] = up[c][i] \/ up'[c][i] = Append(up[c][i], x)
  /\ \A d \in Chips, j \in Cores : <<d, j>> # <<c, i>> => up'[d][j] = up[d][j]
  /\ sends' = sends - 1
  /\ x \in McPackets => x.chip = c /\ x.core = i /\ x.n = sends

LEMMA SocketSteps ==
  ASSUME TypeOK, [Next]_vars
  PROVE  Taking \/ \E c \in Chips, i \in Cores, x \in Packets : Sending(c, i, x)
<1>1. CASE Dispatcher /\ UNCHANGED sends
  <2>1. CASE dispatch_mc \/ store_route
    <3>1. /\ up' = [up EXCEPT ![chip][core] = Tail(@)]
          /\ up[chip][core] # <<>> /\ UNCHANGED sends
      BY <1>1, <2>1 DEF dispatch_mc, store_route, Polled
    <3> QED
      BY <3>1 DEF Taking, TypeOK
  <2>2. CASE UNCHANGED up
    BY <1>1, <2>2 DEF Taking
  <2> QED
    BY <1>1, <2>1, <2>2
    DEF Dispatcher, PollNext, FlushBegin, FlushEnd, route_mc, RouteNext
<1>2. ASSUME NEW c \in Chips, NEW i \in Cores, Core(c, i)
      PROVE  Taking \/ \E x \in Packets : Sending(c, i, x)
  <2>1. ASSUME NEW k \in Keys, spin1_send_mc_packet(c, i, k)
        PROVE  \E x \in Packets : Sending(c, i, x)
    <3>1. PICK x : x = [type |-> "mc", key |-> k, chip |-> c, core |-> i,
                        n |-> sends]
      OBVIOUS
    <3>2. x \in Packets /\ x.chip = c /\ x.core = i /\ x.n = sends
      BY <3>1 DEF Packets, McPackets, TypeOK
    <3>3. /\ up' = [up EXCEPT ![c][i] = spin_emu_send_mc(@, x)]
          /\ sends' = sends - 1
      BY <2>1, <3>1 DEF spin1_send_mc_packet, SendMc
    <3>4. Sending(c, i, x)
      BY <3>2, <3>3 DEF Sending, spin_emu_send_mc, TypeOK
    <3> QED
      BY <3>2, <3>4
  <2>2. ASSUME NEW a \in AppEntries[c], spin1_set_mc_table_entry(c, i, a)
        PROVE  \E x \in Packets : Sending(c, i, x)
    <3>1. PICK x : x = [type |-> "route", index |-> a.entry + SYS_MC_ENTRIES,
                        entry |-> a.route]
      OBVIOUS
    <3>2. a \in [entry : Nat, route : Routes]
      BY RouterAssumption
    <3>3. a.entry + SYS_MC_ENTRIES \in Indices
      BY <2>2, <3>2, RouterAssumption
      DEF spin1_set_mc_table_entry, SYS_MC_ENTRIES, APP_MC_ENTRIES, Indices
    <3>4. x \in RoutePackets
      BY <3>1, <3>2, <3>3 DEF RoutePackets
    <3>5. x \in Packets /\ x \notin McPackets
      BY <3>4 DEF Packets, RoutePackets, McPackets
    <3>6. /\ up' = [up EXCEPT ![c][i] = Append(@, x)]
          /\ sends' = sends - 1
      BY <2>2, <3>1 DEF spin1_set_mc_table_entry, spin_emu_send_route
    <3>7. Sending(c, i, x)
      BY <3>5, <3>6 DEF Sending, TypeOK
    <3> QED
      BY <3>5, <3>7
  <2>3. CASE read_packets(c, i) /\ UNCHANGED sends
    BY <2>3 DEF read_packets, Taking
  <2> QED
    BY <1>2, <2>1, <2>2, <2>3 DEF Core
<1>3. CASE UNCHANGED vars
  BY <1>3 DEF vars, routerVars, Taking
<1> QED
  BY <1>1, <1>2, <1>3 DEF Next

LEMMA SocketsStay ==
  ASSUME TypeOK, Sockets, [Next]_vars
  PROVE  /\ Sockets'
         /\ \A p \in McPackets : Past(p) => Past(p)'
<1> USE DEF dispatcher
<1>0. /\ \A c \in Chips, i \in Cores :
           up[c][i] \in Seq(Packets) /\ Ordered(up[c][i])
      /\ \A p \in McPackets : p.chip \in Chips /\ p.core \in Cores /\ p.n \in Nat
      /\ sends \in Nat
  <2>1. \A c \in Chips, i \in Cores : up[c][i] \in Seq(Packets)
    BY DEF TypeOK, Packets
  <2>2. \A c \in Chips, i \in Cores : Ordered(up[c][i])
    BY DEF Sockets
  <2>3. \A p \in McPackets : p.chip \in Chips /\ p.core \in Cores /\ p.n \in Nat
    BY DEF McPackets
  <2>4. sends \in Nat
    BY DEF TypeOK
  <2> QED
    BY <2>1, <2>2, <2>3, <2>4
<1>1. CASE Taking
  <2>1. ASSUME NEW c \in Chips, NEW i \in Cores
        PROVE  /\ ToSet(up'[c][i]) \subseteq ToSet(up[c][i])
               /\ Ordered(up'[c][i])
    <3>1. CASE up'[c][i] = up[c][i]
      BY <3>1, <1>0
    <3>2. CASE up[c][i] # <<>> /\ up'[c][i] = Tail(up[c][i])
      <4>1. ToSet(up[c][i]) = {Head(up[c][i])} \cup ToSet(Tail(up[c][i]))
        BY <3>2, <1>0, MembersTail
      <4>2. Ordered(Tail(up[c][i]))
        BY <3>2, <1>0, OrderedTail
      <4> QED
        BY <3>2, <4>1, <4>2
    <3> QED
      BY <3>1, <3>2, <1>1 DEF Taking
  <2>2. Sockets'
    BY <1>1, <2>1 DEF Sockets, Taking
  <2>3. ASSUME NEW p \in McPackets, Past(p) PROVE Past(p)'
    <3>1. ToSet(up'[p.chip][p.core]) \subseteq ToSet(up[p.chip][p.core])
      BY <1>0, <2>1
    <3> QED
      BY <1>1, <2>3, <3>1 DEF Past, Taking
  <2> QED
    BY <2>2, <2>3
<1>2. ASSUME NEW c \in Chips, NEW i \in Cores, NEW x \in Packets,
             Sending(c, i, x)
      PROVE  /\ Sockets'
             /\ \A p \in McPackets : Past(p) => Past(p)'
  <2>1. x.type = "mc" => x.chip = c /\ x.core = i /\ x.n = sends
    BY <1>2 DEF Sending, Packets, McPackets, RoutePackets
  <2>2. ASSUME NEW d \in Chips, NEW j \in Cores
        PROVE  /\ Ordered(up'[d][j])
               /\ \A y \in ToSet(up'[d][j]) :
                    y \in ToSet(up[d][j]) \/ (y = x /\ d = c /\ j = i)
    <3>1. CASE up'[d][j] = up[d][j]
      BY <3>1, <1>0
    <3>2. CASE up'[d][j] = Append(up[d][j], x) /\ d = c /\ j = i
      <4>1. ToSet(up'[d][j]) = ToSet(up[d][j]) \cup {x}
        BY <3>2, <1>0, MembersAppend
      <4>2. ASSUME NEW y \in ToSet(up[d][j]) PROVE Precedes(y, x)
        <5>1. y.type = "mc" => y.n > sends
          BY DEF Sockets
        <5> QED
          BY <5>1, <2>1 DEF Precedes, SameFlow
      <4>3. Ordered(up'[d][j])
        BY <3>2, <4>2, <1>0, OrderedAppend
      <4> QED
        BY <3>2, <4>1, <4>3
    <3> QED
      BY <3>1, <3>2, <1>2 DEF Sending
  <2>3. sends' = sends - 1 /\ sends - 1 < sends
    BY <1>0, <1>2 DEF Sending
  <2>4. ASSUME NEW d \in Chips, NEW j \in Cores, NEW y \in ToSet(up'[d][j]),
               y.type = "mc"
        PROVE  y.chip = d /\ y.core = j /\ y.n > sends'
    <3>1. CASE y \in ToSet(up[d][j])
      <4>1. y \in Packets
        BY <3>1, <1>0, MembersType
      <4>2. y \in McPackets
        BY <4>1, <2>4 DEF Packets, RoutePackets
      <4>3. y.chip = d /\ y.core = j /\ y.n > sends /\ y.n \in Nat
        BY <3>1, <4>2, <2>4, <1>0 DEF Sockets
      <4> QED
        BY <4>3, <2>3, <1>0
    <3>2. CASE y = x /\ d = c /\ j = i
      BY <3>2, <2>1, <2>3, <2>4, <1>0
    <3> QED
      BY <3>1, <3>2, <2>2
  <2>5. Sockets'
    BY <2>2, <2>4 DEF Sockets
  <2>6. ASSUME NEW p \in McPackets, Past(p)
        PROVE  Past(p)'
    <3>1. p.n > sends'
      BY <2>3, <2>6, <1>0 DEF Past
    <3>2. ASSUME NEW y \in ToSet(up'[p.chip][p.core]) PROVE Precedes(p, y)
      <4>1. y \in ToSet(up[p.chip][p.core]) \/ y = x
        BY <2>2, <1>0
      <4>2. x.type = "mc" => p.n > x.n
        BY <2>1, <2>6 DEF Past
      <4>3. y \in ToSet(up[p.chip][p.core]) => Precedes(p, y)
        BY <2>6 DEF Past
      <4> QED
        BY <4>1, <4>2, <4>3 DEF Precedes, SameFlow
    <3> QED
      BY <3>1, <3>2 DEF Past
  <2> QED
    BY <2>5, <2>6
<1> QED
  BY <1>1, <1>2, SocketSteps

-----------------------------------------------------------------------------
(* One flush.  P is the set of the routings of packets on chips that it    *)
(* has made so far: the record holds those only that led to a core.        *)

\* Packet p is queued on chip d or has been.
Came(P, d, p) == <<d, p>> \in P \/ p \in ToSet(mc_queue[d])

Routed(P) ==
  /\ P \subseteq Chips \X McPackets
  /\ pc = "poll" =>
       P = {} /\ \A d \in Chips, i \in Cores : delivered[d][i] = <<>>

\* A packet is where it was taken, or where a chip it has been routed on has
\* sent it.
Derived(P) ==
  \A d \in Chips, p \in McPackets : Came(P, d, p) =>
    /\ [at |-> p.chip, packet |-> p] \in taken
    /\ d \in Reached(p.chip, p.key)
    /\ d # p.chip =>
         \E e \in Chips : <<e, p>> \in P /\ d \in LinkTargets(e, p.key)

Complete(P) ==
  ~overflow =>
    /\ \A u \in taken : Came(P, u.at, u.packet)
    /\ \A d \in Chips, p \in McPackets :
         <<d, p>> \in P =>
           \A t \in LinkTargets(d, p.key) : Came(P, t, p)

Sent(P) ==
  \A d \in Chips, i \in Cores :
    ToSet(delivered[d][i]) =
      {p \in McPackets : <<d, p>> \in P /\ i \in RouteOf(d, p.key).cores}

\* While the tables may still change nothing moves between chips.
Calm == pc = "poll" \/ \A u \in taken : IsTree(u.at, u.packet.key)

\* A chip routes the packets of one core with one key in order: the ones it
\* still has queued come after the ones it has routed.
InLine(P) ==
  Calm =>
    \A d \in Chips :
      /\ Ordered(mc_queue[d])
      /\ \A i \in Cores : Ordered(delivered[d][i])
      /\ \A p \in ToSet(mc_queue[d]) : \A q \in McPackets :
           <<d, q>> \in P => Precedes(q, p)

FlushInv(P) == Routed(P) /\ Derived(P) /\ Complete(P) /\ Sent(P) /\ InLine(P)

LEMMA QuietStep ==
  ASSUME NEW P, FlushInv(P), pc' = "poll" => pc = "poll",
         UNCHANGED <<spin_emu_routes, mc_queue, flushVars>>
  PROVE  FlushInv(P)'
<1> USE DEF flushVars
<1>1. \A d, p : Came(P, d, p)' = Came(P, d, p)
  BY DEF Came
<1>2. \A c, k : /\ RouteOf(c, k)' = RouteOf(c, k)
                /\ LinkTargets(c, k)' = LinkTargets(c, k)
                /\ Reached(c, k)' = Reached(c, k)
                /\ IsTree(c, k)' = IsTree(c, k)
  BY SameTables
<1>3. Calm' => Calm
  BY <1>2 DEF Calm
<1>4. Routed(P)'
  BY DEF FlushInv, Routed
<1>5. Derived(P)'
  BY <1>1, <1>2 DEF FlushInv, Derived
<1>6. Complete(P)'
  BY <1>1, <1>2 DEF FlushInv, Complete
<1>7. Sent(P)'
  BY <1>2 DEF FlushInv, Sent
<1>8. InLine(P)'
  BY <1>3 DEF FlushInv, InLine
<1> QED
  BY <1>4, <1>5, <1>6, <1>7, <1>8 DEF FlushInv

\* An entry is stored while no packet has left the chip it was taken on.
LEMMA StoredStep ==
  ASSUME NEW P, TypeOK, TypeOK', FlushInv(P), RecordStored
  PROVE  FlushInv(P)'
<1> USE DEF flushVars, dispatcher
<1>1. /\ P = {} /\ \A d \in Chips, i \in Cores : delivered[d][i] = <<>>
      /\ pc = "poll" /\ pc' = "poll"
      /\ UNCHANGED <<mc_queue, taken, delivered, overflow>>
  BY DEF RecordStored, store_route, FlushInv, Routed
<1>2. \A d, p : Came(P, d, p)' = Came(P, d, p)
  BY <1>1 DEF Came
<1>3. Calm /\ Calm'
  BY <1>1 DEF Calm
<1>4. Derived(P)'
  <2>1. ASSUME NEW d \in Chips, NEW p \in McPackets, Came(P, d, p)
        PROVE  [at |-> p.chip, packet |-> p] \in taken /\ d = p.chip
    BY <2>1, <1>1 DEF FlushInv, Derived
  <2>2. \A c \in Chips, k \in Keys : c \in Reached(c, k)'
    BY FirstReachedNext DEF ReachesFirst
  <2>3. \A p \in McPackets : p.chip \in Chips /\ p.key \in Keys
    BY DEF McPackets
  <2> QED
    BY <1>1, <1>2, <2>1, <2>2, <2>3 DEF Derived
<1>5. Complete(P)'
  BY <1>1, <1>2 DEF FlushInv, Complete
<1>6. Sent(P)'
  BY <1>1, MembersOfEmpty DEF Sent
<1>7. InLine(P)'
  BY <1>1, <1>3 DEF FlushInv, InLine
<1> QED
  BY <1>1, <1>4, <1>5, <1>6, <1>7 DEF FlushInv, Routed

\* A packet is taken while every other one is where it was taken.
LEMMA TakenStep ==
  ASSUME NEW P, TypeOK, RecordTypeOK, Sockets, PastTaken, FlushInv(P),
         RecordTaken
  PROVE  FlushInv(P)'
<1> USE DEF flushVars, dispatcher
<1>1. PICK h : h = Head(Polled)
  OBVIOUS
<1>2. /\ P = {} /\ \A d \in Chips, i \in Cores : delivered[d][i] = <<>>
      /\ pc = "poll" /\ pc' = "poll"
      /\ UNCHANGED <<spin_emu_routes, delivered>>
  BY DEF RecordTaken, dispatch_mc, FlushInv, Routed
<1>3. /\ h \in McPackets /\ h.chip = chip /\ h.core = core
      /\ h \in ToSet(up[chip][core]) /\ chip \in Chips
      /\ h.chip \in Chips /\ h.key \in Keys
  <2>1. h \in McPackets /\ h.type = "mc" /\ up[chip][core] # <<>>
        /\ chip \in Chips /\ core \in Cores
    BY <1>1, PolledType DEF RecordTaken, dispatch_mc, Polled, TypeOK
  <2>2. up[chip][core] \in Seq(Packets)
    BY <2>1 DEF TypeOK, Packets
  <2>3. h \in ToSet(up[chip][core])
    BY <1>1, <2>1, <2>2, MembersTail DEF Polled
  <2> QED
    BY <2>1, <2>3 DEF Sockets, McPackets
<1>4. PICK u : u = [at |-> chip, packet |-> h]
  OBVIOUS
<1>5. \/ /\ Accepts(mc_queue[chip])
         /\ mc_queue' = [mc_queue EXCEPT ![chip] = Append(@, h)]
         /\ taken' = taken \cup {u} /\ UNCHANGED overflow
      \/ UNCHANGED <<mc_queue, taken>> /\ overflow' = TRUE
  <2>1. mc_queue' = [mc_queue EXCEPT ![chip] = queue_mc(@, h)]
    BY <1>1 DEF RecordTaken, dispatch_mc
  <2>2. Len(mc_queue[chip]) \in Nat
    BY DEF TypeOK
  <2>3. CASE Accepts(mc_queue[chip])
    <3>1. queue_mc(mc_queue[chip], h) = Append(mc_queue[chip], h)
      BY <2>2, <2>3, RouterAssumption DEF Accepts, queue_mc
    <3> QED
      BY <1>1, <1>4, <2>1, <2>3, <3>1 DEF RecordTaken, TypeOK
  <2>4. CASE ~Accepts(mc_queue[chip])
    <3>1. queue_mc(mc_queue[chip], h) = mc_queue[chip]
      BY <2>2, <2>4, QueueMcFull
    <3> QED
      BY <2>1, <2>4, <3>1 DEF RecordTaken, TypeOK
  <2> QED
    BY <2>3, <2>4
<1>6. \A c, k : /\ RouteOf(c, k)' = RouteOf(c, k)
                /\ Reached(c, k)' = Reached(c, k)
  BY <1>2, SameTables
<1>7. Calm /\ Calm'
  BY <1>2 DEF Calm
<1>8. CASE UNCHANGED <<mc_queue, taken>> /\ overflow' = TRUE
  <2>1. \A d, p : Came(P, d, p)' = Came(P, d, p)
    BY <1>8 DEF Came
  <2>2. Derived(P)'
    BY <1>2, <1>6, <1>8, <2>1 DEF FlushInv, Derived
  <2>3. Sent(P)'
    BY <1>2, <1>6 DEF FlushInv, Sent
  <2>4. InLine(P)'
    BY <1>2, <1>7, <1>8 DEF FlushInv, InLine
  <2> QED
    BY <1>2, <1>8, <2>2, <2>3, <2>4 DEF FlushInv, Routed, Complete
<1>9. CASE /\ mc_queue' = [mc_queue EXCEPT ![chip] = Append(@, h)]
           /\ taken' = taken \cup {u} /\ UNCHANGED overflow
  <2>1. \A d \in Chips : mc_queue[d] \in Seq(McPackets)
    BY DEF TypeOK
  <2>2. ASSUME NEW d \in Chips
        PROVE  ToSet(mc_queue'[d]) =
                 IF d = chip THEN ToSet(mc_queue[d]) \cup {h}
                 ELSE ToSet(mc_queue[d])
    <3>1. mc_queue'[d] =
            IF d = chip THEN Append(mc_queue[d], h) ELSE mc_queue[d]
      BY <1>9 DEF TypeOK
    <3>2. ToSet(Append(mc_queue[d], h)) = ToSet(mc_queue[d]) \cup {h}
      BY <2>1, <1>3, MembersAppend
    <3> QED
      BY <3>1, <3>2
  <2>3. ASSUME NEW d \in Chips, NEW p
        PROVE  Came(P, d, p)' <=> Came(P, d, p) \/ (d = chip /\ p = h)
    BY <2>2, <1>2 DEF Came
  <2>4. Derived(P)'
    <3>1. ASSUME NEW d \in Chips, NEW p \in McPackets, Came(P, d, p)
          PROVE  /\ [at |-> p.chip, packet |-> p] \in taken'
                 /\ d \in Reached(p.chip, p.key)
                 /\ d = p.chip
      BY <3>1, <1>2, <1>9 DEF FlushInv, Derived
    <3>2. /\ [at |-> h.chip, packet |-> h] \in taken'
          /\ chip \in Reached(h.chip, h.key)
          /\ chip = h.chip
      BY <1>3, <1>4, <1>9, FirstReached DEF ReachesFirst
    <3> QED
      BY <1>6, <2>3, <3>1, <3>2 DEF Derived
  <2>5. Complete(P)'
    <3>1. ASSUME ~overflow, NEW v \in taken' PROVE Came(P, v.at, v.packet)'
      <4>1. CASE v \in taken
        <5>1. Came(P, v.at, v.packet)
          BY <3>1, <4>1, <1>9 DEF FlushInv, Complete
        <5>2. v.at \in Chips
          BY <4>1 DEF RecordTypeOK
        <5> QED
          BY <5>1, <5>2, <2>3
      <4>2. CASE v = u
        BY <4>2, <1>3, <1>4, <2>3
      <4> QED
        BY <4>1, <4>2, <3>1, <1>9
    <3> QED
      BY <3>1, <1>2, <1>9 DEF Complete
  <2>6. Sent(P)'
    BY <1>2, <1>6 DEF FlushInv, Sent
  <2>7. ASSUME NEW x \in ToSet(mc_queue[chip]) PROVE Precedes(x, h)
    <3>1. x \in McPackets
      BY <2>1, <1>3, MembersType
    <3>2. [at |-> x.chip, packet |-> x] \in taken
      BY <3>1, <1>3 DEF FlushInv, Derived, Came
    <3>3. Past(x)
      BY <3>2 DEF PastTaken
    <3> QED
      BY <3>3, <1>3 DEF Past, Precedes, SameFlow
  <2>8. ASSUME NEW d \in Chips PROVE Ordered(mc_queue'[d])
    <3>1. Ordered(mc_queue[d])
      BY <1>7 DEF FlushInv, InLine
    <3>2. CASE d = chip
      <4>1. Ordered(Append(mc_queue[chip], h))
        BY <3>1, <3>2, <2>1, <2>7, <1>3, OrderedAppend
      <4> QED
        BY <3>2, <4>1, <1>9 DEF TypeOK
    <3>3. CASE d # chip
      BY <3>1, <3>3, <1>9 DEF TypeOK
    <3> QED
      BY <3>2, <3>3
  <2>9. InLine(P)'
    BY <1>2, <1>7, <2>8 DEF FlushInv, InLine
  <2> QED
    BY <1>2, <2>4, <2>5, <2>6, <2>9 DEF FlushInv, Routed
<1> QED
  BY <1>5, <1>8, <1>9

\* The flush ends when the queues are empty.
LEMMA ResetStep ==
  ASSUME RecordReset, FlushLeavesNothing
  PROVE  FlushInv({})'
<1>1. /\ taken' = {} /\ delivered' = NothingDelivered /\ overflow' = FALSE
      /\ pc' = "poll" /\ \A c \in Chips : mc_queue'[c] = <<>>
  BY DEF RecordReset, FlushEnd, FlushLeavesNothing
<1>2. \A d \in Chips, i \in Cores : delivered'[d][i] = <<>>
  BY <1>1 DEF NothingDelivered
<1>3. Ordered(<<>>)
  BY DEF Ordered
<1>4. \A d \in Chips : \A p : ~Came({}, d, p)'
  BY <1>1, MembersOfEmpty DEF Came
<1>5. Routed({})' /\ Derived({})' /\ Complete({})'
  BY <1>1, <1>2, <1>4 DEF Routed, Derived, Complete
<1>6. Sent({})'
  BY <1>2, MembersOfEmpty DEF Sent
<1>7. InLine({})'
  BY <1>1, <1>2, <1>3 DEF InLine
<1> QED
  BY <1>5, <1>6, <1>7 DEF FlushInv

\* On a tree, what one chip routes has come to none of the chips it sends it to.
LEMMA OneParent ==
  ASSUME NEW P, TypeOK, RecordTypeOK, FlushInv(P), Calm, pc # "poll",
         NEW c \in Chips, NEW p \in ToSet(mc_queue[c]),
         NEW t \in LinkTargets(c, p.key), NEW q \in McPackets,
         Came(P, t, q), SameFlow(q, p)
  PROVE  <<c, q>> \in P
<1>1. mc_queue[c] \in Seq(McPackets)
  BY DEF TypeOK
<1>2. p \in McPackets
  BY <1>1, MembersType
<1>3. q.chip = p.chip /\ q.key = p.key /\ p.chip \in Chips
  BY <1>2 DEF SameFlow, McPackets
<1>4. /\ [at |-> p.chip, packet |-> p] \in taken
      /\ c \in Reached(p.chip, p.key)
  BY <1>2 DEF FlushInv, Derived, Came
<1>5. IsTree(p.chip, p.key)
  BY <1>4 DEF Calm
<1>6. t # p.chip /\ t \in Chips
  BY <1>4, <1>5, TargetsType DEF IsTree
<1>7. PICK e \in Chips : <<e, q>> \in P /\ t \in LinkTargets(e, q.key)
  BY <1>3, <1>6 DEF FlushInv, Derived
<1>8. e \in Reached(p.chip, p.key)
  BY <1>3, <1>7 DEF FlushInv, Derived, Came
<1>9. LinkTargets(c, p.key) \cap LinkTargets(e, p.key) # {}
  BY <1>3, <1>7
<1>10. e = c
  BY <1>4, <1>5, <1>8, <1>9 DEF IsTree
<1> QED
  BY <1>7, <1>10

\* What route_mc does to the queues and to the record.
LEMMA RoutedQueues ==
  ASSUME TypeOK, RecordTypeOK, RecordRouted, NEW p, p = Head(mc_queue[chip])
  PROVE  /\ chip \in Chips /\ p \in McPackets /\ mc_queue[chip] # <<>>
         /\ mc_queue'[chip] = Tail(mc_queue[chip])
         /\ \A t \in LinkTargets(chip, p.key) :
              \/ mc_queue'[t] = Append(mc_queue[t], p)
              \/ mc_queue'[t] = mc_queue[t] /\ overflow'
         /\ \A d \in Chips \ {chip} : d \notin LinkTargets(chip, p.key) =>
              mc_queue'[d] = mc_queue[d]
         /\ overflow => overflow'
         /\ \A d \in Chips, i \in Cores :
              delivered'[d][i] =
                IF d = chip /\ i \in RouteOf(chip, p.key).cores
                THEN Append(delivered[d][i], p) ELSE delivered[d][i]

<1>1. chip \in Chips /\ p \in McPackets /\ mc_queue[chip] # <<>>
  BY DEF RecordRouted, route_mc, TypeOK
<1>2. PICK T : T = LinkTargets(chip, p.key)
  OBVIOUS
<1>3. T \subseteq Chips \ {chip}
  BY <1>1, <1>2, TargetsType
<1>4. \A d \in Chips : mc_queue'[d] =
        IF d = chip THEN Tail(mc_queue[d])
        ELSE IF d \in T THEN queue_mc(mc_queue[d], p) ELSE mc_queue[d]
  <2>1. mc_queue' = [d \in Chips |->
          IF d = chip THEN Tail(mc_queue[d])
          ELSE IF d \in T THEN queue_mc(mc_queue[d], p) ELSE mc_queue[d]]
    BY <1>2 DEF RecordRouted, route_mc
  <2> QED
    BY <2>1
<1>5. overflow' = (overflow \/ \E t \in T : ~Accepts(mc_queue[t]))
  BY <1>2 DEF RecordRouted
<1>6. ASSUME NEW t \in T
      PROVE  \/ mc_queue'[t] = Append(mc_queue[t], p)
             \/ mc_queue'[t] = mc_queue[t] /\ overflow'
  <2>1. Len(mc_queue[t]) \in Nat /\ t \in Chips /\ t # chip
    BY <1>3 DEF TypeOK
  <2>2. CASE Accepts(mc_queue[t])
    <3>1. queue_mc(mc_queue[t], p) = Append(mc_queue[t], p)
      BY <2>1, <2>2, RouterAssumption DEF Accepts, queue_mc
    <3> QED
      BY <3>1, <2>1, <1>4
  <2>3. CASE ~Accepts(mc_queue[t])
    <3>1. queue_mc(mc_queue[t], p) = mc_queue[t]
      BY <2>1, <2>3, QueueMcFull
    <3> QED
      BY <3>1, <2>1, <2>3, <1>4, <1>5
  <2> QED
    BY <2>2, <2>3
<1>7. ASSUME NEW d \in Chips, NEW i \in Cores
      PROVE  delivered'[d][i] =
               IF d = chip /\ i \in RouteOf(chip, p.key).cores
               THEN Append(delivered[d][i], p) ELSE delivered[d][i]
  <2>1. PICK R : R = RouteOf(chip, p.key).cores
    OBVIOUS
  <2>2. delivered' = [delivered EXCEPT ![chip] =
           [j \in Cores |-> IF j \in R THEN Append(@[j], p) ELSE @[j]]]
    BY <2>1 DEF RecordRouted
  <2>3. delivered'[d][i] = IF d = chip /\ i \in R
                           THEN Append(delivered[d][i], p)
                           ELSE delivered[d][i]
    BY <2>2, <1>1 DEF RecordTypeOK
  <2> QED
    BY <2>1, <2>3
<1> QED
  BY <1>1, <1>2, <1>3, <1>4, <1>5, <1>6, <1>7

LEMMA RoutedStep ==
  ASSUME NEW P, TypeOK, RecordTypeOK, FlushInv(P), RecordRouted,
         NEW p, p = Head(mc_queue[chip]), NEW Q, Q = P \cup {<<chip, p>>}
  PROVE  FlushInv(Q)'
<1> USE DEF dispatcher
<1>1. PICK c \in Chips : c = chip
  BY DEF TypeOK
<1>2. Q = P \cup {<<c, p>>}
  BY <1>1
<1>3. PICK T : T = LinkTargets(c, p.key)
  OBVIOUS
<1>4. PICK O : O = RouteOf(c, p.key).cores
  OBVIOUS
<1>5. /\ p \in McPackets /\ mc_queue[c] # <<>>
      /\ mc_queue'[c] = Tail(mc_queue[c])
      /\ \A t \in T : \/ mc_queue'[t] = Append(mc_queue[t], p)
                      \/ mc_queue'[t] = mc_queue[t] /\ overflow'
      /\ \A d \in Chips \ {c} : d \notin T => mc_queue'[d] = mc_queue[d]
      /\ overflow => overflow'
      /\ \A d \in Chips, i \in Cores :
           delivered'[d][i] = IF d = c /\ i \in O
                              THEN Append(delivered[d][i], p)
                              ELSE delivered[d][i]
  BY <1>1, <1>3, <1>4, RoutedQueues
<1>6. pc = "route" /\ pc' = "route" /\ UNCHANGED <<spin_emu_routes, taken>>
  BY DEF RecordRouted, route_mc
<1>7. T \subseteq Chips \ {c}
  BY <1>3, TargetsType
<1>8. \A d, k : /\ RouteOf(d, k)' = RouteOf(d, k)
                /\ LinkTargets(d, k)' = LinkTargets(d, k)
                /\ Reached(d, k)' = Reached(d, k)
                /\ IsTree(d, k)' = IsTree(d, k)
  BY <1>6, SameTables
<1>9. \A d \in Chips : mc_queue[d] \in Seq(McPackets)
  BY DEF TypeOK
<1>10. \A d \in Chips : ToSet(mc_queue[d]) \subseteq McPackets
  BY <1>9, MembersType
<1>11. ToSet(mc_queue[c]) = {p} \cup ToSet(mc_queue'[c])
  BY <1>1, <1>5, <1>9, MembersTail
<1>12. ASSUME NEW t \in T
       PROVE  /\ ToSet(mc_queue[t]) \subseteq ToSet(mc_queue'[t])
              /\ ToSet(mc_queue'[t]) \subseteq ToSet(mc_queue[t]) \cup {p}
              /\ overflow' \/ p \in ToSet(mc_queue'[t])
  <2>1. ToSet(Append(mc_queue[t], p)) = ToSet(mc_queue[t]) \cup {p}
    BY <1>5, <1>7, <1>9, MembersAppend
  <2> QED
    BY <2>1, <1>5
<1>13. ASSUME NEW d \in Chips, NEW x
       PROVE  /\ Came(P, d, x) => Came(Q, d, x)'
              /\ Came(Q, d, x)' => Came(P, d, x) \/ (x = p /\ d \in T)
  BY <1>2, <1>5, <1>11, <1>12 DEF Came
<1>14. Came(P, c, p)
  BY <1>11 DEF Came
<1>15. Routed(Q)'
  BY <1>2, <1>5, <1>6 DEF FlushInv, Routed
<1>16. Derived(Q)'
  <2>1. ASSUME NEW d \in Chips, NEW x \in McPackets, Came(P, d, x)
        PROVE  /\ [at |-> x.chip, packet |-> x] \in taken
               /\ d \in Reached(x.chip, x.key)
               /\ d # x.chip =>
                    \E e \in Chips : <<e, x>> \in Q /\ d \in LinkTargets(e, x.key)
    BY <2>1, <1>2 DEF FlushInv, Derived
  <2>2. ASSUME NEW d \in T
        PROVE  /\ [at |-> p.chip, packet |-> p] \in taken
               /\ d \in Reached(p.chip, p.key)
               /\ <<c, p>> \in Q /\ d \in LinkTargets(c, p.key)
    <3>1. p.chip \in Chips /\ p.key \in Keys
      BY <1>5 DEF McPackets
    <3>2. Closed(Reached(p.chip, p.key), p.key)
      BY <3>1, ReachedLeast
    <3> QED
      BY <3>2, <2>1, <1>2, <1>3, <1>5, <1>14 DEF Closed
  <2>3. ASSUME NEW d \in Chips, NEW x \in McPackets, Came(Q, d, x)'
        PROVE  /\ [at |-> x.chip, packet |-> x] \in taken
               /\ d \in Reached(x.chip, x.key)
               /\ d # x.chip =>
                    \E e \in Chips : <<e, x>> \in Q /\ d \in LinkTargets(e, x.key)
    <3>1. CASE Came(P, d, x)
      BY <2>1, <3>1
    <3>2. CASE x = p /\ d \in T
      BY <2>2, <3>2
    <3> QED
      BY <1>13, <2>3, <3>1, <3>2
  <2> QED
    BY <2>3, <1>6, <1>8 DEF Derived
<1>17. Complete(Q)'
  <2>1. ASSUME ~overflow', NEW u \in taken PROVE Came(Q, u.at, u.packet)'
    <3>1. u.at \in Chips
      BY DEF RecordTypeOK
    <3> QED
      BY <2>1, <3>1, <1>5, <1>13 DEF FlushInv, Complete
  <2>2. ASSUME ~overflow', NEW d \in Chips, NEW x \in McPackets,
               <<d, x>> \in Q, NEW t \in LinkTargets(d, x.key)
        PROVE  Came(Q, t, x)'
    <3>1. t \in Chips
      BY TargetsType
    <3>2. CASE <<d, x>> \in P
      BY <2>2, <3>1, <3>2, <1>5, <1>13 DEF FlushInv, Complete
    <3>3. CASE d = c /\ x = p
      BY <2>2, <3>3, <1>3, <1>12 DEF Came
    <3> QED
      BY <3>2, <3>3, <2>2, <1>2
  <2> QED
    BY <2>1, <2>2, <1>6, <1>8 DEF Complete
<1>18. Sent(Q)'
  <2>1. ASSUME NEW d \in Chips, NEW i \in Cores
        PROVE  ToSet(delivered'[d][i]) =
                 {x \in McPackets : <<d, x>> \in Q /\ i \in RouteOf(d, x.key).cores}
    <3>1. ToSet(delivered[d][i]) =
            {x \in McPackets : <<d, x>> \in P /\ i \in RouteOf(d, x.key).cores}
      BY DEF FlushInv, Sent
    <3>2. CASE d = c /\ i \in O
      <4>1. delivered[d][i] \in Seq(McPackets)
        BY DEF RecordTypeOK
      <4>2. ToSet(delivered'[d][i]) = ToSet(delivered[d][i]) \cup {p}
        BY <3>2, <4>1, <1>5, MembersAppend
      <4> QED
        BY <3>1, <3>2, <4>2, <1>2, <1>4, <1>5
    <3>3. CASE ~(d = c /\ i \in O)
      BY <3>1, <3>3, <1>2, <1>4, <1>5
    <3> QED
      BY <3>2, <3>3
  <2> QED
    BY <2>1, <1>8 DEF Sent
<1>19. InLine(Q)'
  <2>1. SUFFICES ASSUME Calm', NEW d \in Chips
        PROVE  /\ Ordered(mc_queue'[d])
               /\ \A i \in Cores : Ordered(delivered'[d][i])
               /\ \A x \in ToSet(mc_queue'[d]) : \A q \in McPackets :
                    <<d, q>> \in Q => Precedes(q, x)
    BY DEF InLine
  <2>2. Calm
    BY <2>1, <1>6, <1>8 DEF Calm
  <2>3. /\ Ordered(mc_queue[d])
        /\ \A i \in Cores : Ordered(delivered[d][i])
        /\ \A x \in ToSet(mc_queue[d]) : \A q \in McPackets :
             <<d, q>> \in P => Precedes(q, x)
    BY <2>2 DEF FlushInv, InLine
  <2>4. ASSUME NEW i \in Cores PROVE Ordered(delivered'[d][i])
    <3>1. CASE d = c /\ i \in O
      <4>1. delivered[d][i] \in Seq(McPackets)
        BY DEF RecordTypeOK
      <4>2. \A x \in ToSet(delivered[d][i]) : x \in McPackets /\ <<c, x>> \in P
        BY <3>1 DEF FlushInv, Sent
      <4>3. \A x \in ToSet(delivered[d][i]) : Precedes(x, p)
        BY <3>1, <4>2, <2>3, <1>11
      <4>4. Ordered(Append(delivered[d][i], p))
        BY <4>1, <4>3, <2>3, <1>5, OrderedAppend
      <4> QED
        BY <3>1, <4>4, <1>5
    <3>2. CASE ~(d = c /\ i \in O)
      BY <3>2, <2>3, <1>5
    <3> QED
      BY <3>1, <3>2
  <2>5. CASE d = c
    <3>1. /\ Ordered(mc_queue'[c])
          /\ \A x \in ToSet(mc_queue'[c]) : Precedes(p, x)
      BY <2>3, <2>5, <1>1, <1>5, <1>9, OrderedTail
    <3> QED
      BY <2>3, <2>4, <2>5, <3>1, <1>2, <1>11
  <2>6. CASE d \in T
    <3>1. ASSUME NEW q \in McPackets, Came(P, d, q) PROVE Precedes(q, p)
      <4>1. SUFFICES ASSUME SameFlow(q, p) PROVE Precedes(q, p)
        BY DEF Precedes
      <4>2. <<c, q>> \in P
        BY <4>1, <3>1, <2>2, <2>6, <1>3, <1>6, <1>11, OneParent
      <4>3. p \in ToSet(mc_queue[c])
        BY <1>11
      <4> QED
        BY <4>2, <4>3, <2>2 DEF FlushInv, InLine
    <3>2. Ordered(mc_queue'[d])
      <4>1. \A x \in ToSet(mc_queue[d]) : x \in McPackets /\ Came(P, d, x)
        BY <1>10 DEF Came
      <4>2. Ordered(Append(mc_queue[d], p))
        BY <3>1, <4>1, <2>3, <1>5, <1>9, OrderedAppend
      <4> QED
        BY <4>2, <2>3, <2>6, <1>5
    <3>3. ASSUME NEW x \in ToSet(mc_queue'[d]), NEW q \in McPackets,
                 <<d, q>> \in Q
          PROVE  Precedes(q, x)
      <4>1. <<d, q>> \in P /\ Came(P, d, q)
        BY <3>3, <2>6, <1>2, <1>7 DEF Came
      <4>2. x \in ToSet(mc_queue[d]) \/ x = p
        BY <2>6, <1>12
      <4> QED
        BY <4>1, <4>2, <3>1, <2>3
    <3> QED
      BY <2>4, <3>2, <3>3
  <2>7. CASE d # c /\ d \notin T
    BY <2>3, <2>4, <2>7, <1>2, <1>5
  <2> QED
    BY <2>5, <2>6, <2>7
<1> QED
  BY <1>15, <1>16, <1>17, <1>18, <1>19 DEF FlushInv

-----------------------------------------------------------------------------
(* Exact delivery.                                                         *)

PastInv == Sockets /\ PastTaken

LEMMA PastStep ==
  ASSUME TypeOK, RecordTypeOK, PastInv, [RecordNext]_<<vars, recordVars>>
  PROVE  PastInv'
<1> USE DEF recordVars, flushVars
<1>1. Sockets' /\ \A p \in McPackets : Past(p) => Past(p)'
  BY RecordIsNext, SocketsStay DEF PastInv
<1>2. \A u \in taken : u.packet \in McPackets
  BY DEF RecordTypeOK
<1>3. CASE UNCHANGED taken \/ taken' = {}
  BY <1>1, <1>2, <1>3 DEF PastInv, PastTaken
<1>4. CASE RecordTaken /\ UNCHANGED sends
  <2>1. PICK h : h = Head(Polled)
    OBVIOUS
  <2>2. /\ taken' \subseteq taken \cup {[at |-> chip, packet |-> h]}
        /\ up' = [up EXCEPT ![chip][core] = Tail(@)]
        /\ chip \in Chips /\ core \in Cores /\ up[chip][core] # <<>>
        /\ h = Head(up[chip][core])
    BY <1>4, <2>1 DEF RecordTaken, dispatch_mc, Polled, TypeOK
  <2>3. UNCHANGED sends
    BY <1>4
  <2>4. h \in McPackets /\ h.type = "mc"
    BY <1>4, <2>1, PolledType DEF RecordTaken, dispatch_mc
  <2>5. up[chip][core] \in Seq(Packets) /\ Ordered(up[chip][core])
    BY <2>2 DEF TypeOK, Packets, PastInv, Sockets
  <2>6. h \in ToSet(up[chip][core])
    BY <2>2, <2>5, MembersTail
  <2>7. h.chip = chip /\ h.core = core /\ h.n > sends
    BY <2>2, <2>4, <2>6 DEF PastInv, Sockets
  <2>8. \A x \in ToSet(Tail(up[chip][core])) : Precedes(h, x)
    BY <2>2, <2>5, OrderedTail
  <2>9. up'[chip][core] = Tail(up[chip][core])
    BY <2>2 DEF TypeOK
  <2>10. Past(h)'
    BY <2>3, <2>7, <2>8, <2>9 DEF Past
  <2>11. \A u \in taken' : u.at = u.packet.chip /\ Past(u.packet)'
    BY <1>1, <1>2, <2>2, <2>7, <2>10 DEF PastInv, PastTaken
  <2> QED
    BY <1>1, <2>11 DEF PastInv, PastTaken
<1> QED
  BY <1>3, <1>4
  DEF RecordNext, RecordDispatcher, RecordRouted, RecordStored, RecordReset

\* The routings that a step makes, RecordRouted adding one.
Routings(P, Q) ==
  \/ RecordRouted /\ Q = P \cup {<<chip, Head(mc_queue[chip])>>}
  \/ RecordReset /\ Q = {}
  \/ ~RecordRouted /\ ~RecordReset /\ Q = P

LEMMA FlushStep ==
  ASSUME NEW P, TypeOK, RecordTypeOK, PastInv, FlushLeavesNothing,
         FlushInv(P), [RecordNext]_<<vars, recordVars>>
  PROVE  \E Q : Routings(P, Q) /\ FlushInv(Q)'
<1> USE DEF dispatcher, routerVars, recordVars, flushVars
<1>0. TypeOK'
  BY RecordIsNext, NextType
<1>1. CASE RecordRouted
  <2>1. PICK p : p = Head(mc_queue[chip])
    OBVIOUS
  <2>2. PICK Q : Q = P \cup {<<chip, p>>}
    OBVIOUS
  <2>3. FlushInv(Q)'
    BY <1>1, <2>1, <2>2, RoutedStep
  <2> QED
    BY <1>1, <2>1, <2>2, <2>3 DEF Routings
<1>2. CASE RecordReset
  <2>1. FlushInv({})'
    BY <1>2, ResetStep
  <2> QED
    BY <1>2, <2>1 DEF Routings
<1>3. CASE ~RecordRouted /\ ~RecordReset
  <2> SUFFICES FlushInv(P)'
    BY <1>3 DEF Routings
  <2>1. CASE RecordTaken
    BY <2>1, TakenStep DEF PastInv
  <2>2. CASE RecordStored
    BY <2>2, <1>0, StoredStep
  <2>3. CASE (PollNext \/ FlushBegin \/ RouteNext) /\ UNCHANGED recordVars
    <3>1. pc' = "poll" => pc = "poll"
      BY <2>3 DEF PollNext, FlushBegin, RouteNext
    <3>2. UNCHANGED <<spin_emu_routes, mc_queue, flushVars>>
      BY <2>3 DEF PollNext, FlushBegin, RouteNext
    <3> QED
      BY <3>1, <3>2, QuietStep
  <2>4. ASSUME NEW c \in Chips, NEW i \in Cores, Core(c, i),
               UNCHANGED recordVars
        PROVE  FlushInv(P)'
    <3>1. UNCHANGED <<spin_emu_routes, dispatcher>>
      BY <2>4 DEF Core, spin1_send_mc_packet, SendMc,
                  spin1_set_mc_table_entry, spin_emu_send_route, read_packets
    <3> QED
      BY <3>1, <2>4, QuietStep
  <2>5. CASE UNCHANGED <<vars, recordVars>>
    BY <2>5, QuietStep DEF vars
  <2> QED
    BY <1>3, <2>1, <2>2, <2>3, <2>4, <2>5 DEF RecordNext, RecordDispatcher
<1> QED
  BY <1>1, <1>2, <1>3

LEMMA RecordStart ==
  ASSUME RecordInit
  PROVE  TypeOK /\ RecordTypeOK /\ PastInv /\ FlushInv({})
<1>1. TypeOK
  BY InitType DEF RecordInit
<1>2. /\ taken = {} /\ delivered = NothingDelivered /\ overflow = FALSE
      /\ pc = "poll" /\ \A c \in Chips : mc_queue[c] = <<>>
      /\ \A c \in Chips, i \in Cores : up[c][i] = <<>>
  BY DEF RecordInit, Init, RouterInit
<1>3. RecordTypeOK
  BY <1>2 DEF RecordTypeOK, NothingDelivered
<1>4. Ordered(<<>>)
  BY DEF Ordered
<1>5. PastInv
  BY <1>2, <1>4, MembersOfEmpty DEF PastInv, Sockets, PastTaken
<1>6. \A d \in Chips, i \in Cores : delivered[d][i] = <<>>
  BY <1>2 DEF NothingDelivered
<1>7. \A d \in Chips : \A p : ~Came({}, d, p)
  BY <1>2, MembersOfEmpty DEF Came
<1>8. Routed({}) /\ Derived({}) /\ Complete({}) /\ Sent({})
  BY <1>2, <1>6, <1>7, MembersOfEmpty DEF Routed, Derived, Complete, Sent
<1>9. InLine({})
  BY <1>2, <1>4, <1>6 DEF InLine
<1> QED
  BY <1>1, <1>3, <1>5, <1>8, <1>9 DEF FlushInv

LEMMA FlushDelivers ==
  ASSUME NEW P, TypeOK, RecordTypeOK, PastInv, FlushLeavesNothing, FlushInv(P)
  PROVE  ExactDelivery
<1>1. SUFFICES ASSUME pc = "flush", ~mc_pending, ~overflow,
                      NEW d \in Chips, NEW i \in Cores
               PROVE  /\ ToSet(delivered[d][i]) =
                           {t.packet : t \in {u \in taken :
                              <<d, i>> \in Destinations(u.at, u.packet.key)}}
                      /\ (\A t \in taken : IsTree(t.at, t.packet.key)) =>
                           IsInjective(delivered[d][i])
  BY DEF ExactDelivery
<1>2. \A c \in Chips : \A p : Came(P, c, p) => <<c, p>> \in P
  BY <1>1, MembersOfEmpty DEF FlushLeavesNothing, Came
<1>3. ToSet(delivered[d][i]) =
        {p \in McPackets : <<d, p>> \in P /\ i \in RouteOf(d, p.key).cores}
  BY DEF FlushInv, Sent
<1>4. \A u \in taken : u.at \in Chips /\ u.packet \in McPackets
  BY DEF RecordTypeOK
<1>5. \A u \in taken : u.at = u.packet.chip
  BY DEF PastInv, PastTaken
<1>6. ASSUME NEW u \in taken
      PROVE  <<d, i>> \in Destinations(u.at, u.packet.key)
               <=> <<d, u.packet>> \in P /\ i \in RouteOf(d, u.packet.key).cores
  <2>1. PICK p \in McPackets : p = u.packet
    BY <1>4
  <2>2. PICK S : S = {c \in Chips : <<c, p>> \in P}
    OBVIOUS
  <2>3. u.at \in S
    BY <1>1, <1>2, <1>4, <2>1, <2>2 DEF FlushInv, Complete
  <2>4. Closed(S, p.key)
    <3>1. ASSUME NEW c \in S, NEW t \in LinkTargets(c, p.key) PROVE t \in S
      <4>1. c \in Chips /\ t \in Chips
        BY <2>2, TargetsType
      <4>2. Came(P, t, p)
        BY <1>1, <2>2, <4>1 DEF FlushInv, Complete
      <4> QED
        BY <1>2, <2>2, <4>1, <4>2
    <3> QED
      BY <3>1 DEF Closed
  <2>5. Reached(u.at, p.key) \subseteq S
    BY <1>4, <2>3, <2>4, ReachedLeast
  <2>6. <<d, p>> \in P => d \in Reached(u.at, p.key)
    BY <1>5, <2>1 DEF FlushInv, Derived, Came
  <2>7. d \in Reached(u.at, p.key) <=> <<d, p>> \in P
    BY <2>2, <2>5, <2>6
  <2> QED
    BY <2>1, <2>7 DEF Destinations
<1>7. \A p \in McPackets : <<d, p>> \in P => \E u \in taken : p = u.packet
  BY DEF FlushInv, Derived, Came
<1>8. ToSet(delivered[d][i]) =
        {t.packet : t \in {u \in taken :
           <<d, i>> \in Destinations(u.at, u.packet.key)}}
  BY <1>3, <1>4, <1>6, <1>7
<1>9. ASSUME \A t \in taken : IsTree(t.at, t.packet.key)
      PROVE  IsInjective(delivered[d][i])
  <2>1. Ordered(delivered[d][i])
    BY <1>9 DEF FlushInv, InLine, Calm
  <2> QED
    BY <2>1, OrderedOnce DEF RecordTypeOK
<1> QED
  BY <1>8, <1>9

LEMMA RecordSpecIsSpec == RecordSpec => Spec
<1>1. RecordInit => Init
  BY DEF RecordInit
<1>2. [RecordNext]_<<vars, recordVars>> => [Next]_vars
  BY RecordIsNext
<1> QED
  BY <1>1, <1>2, PTL DEF RecordSpec, Spec

LEMMA RecordBasics == RecordSpec => [](TypeOK /\ FlushLeavesNothing)
  BY RecordSpecIsSpec, RouterTypeCorrect, FlushCorrect, PTL

Recorded == RecordTypeOK /\ PastInv

LEMMA RecordInvariant == RecordSpec => []Recorded
<1>1. RecordInit => Recorded
  BY RecordStart DEF Recorded
<1>2. TypeOK /\ Recorded /\ [RecordNext]_<<vars, recordVars>> => Recorded'
  BY RecordType, PastStep DEF Recorded
<1> QED
  BY <1>1, <1>2, RecordBasics, PTL DEF RecordSpec

Delivers == \E P : FlushInv(P)

\* When flush_mc_queues returns, each packet that was queued has been sent to
\* the cores that the tables of the whole board name and to no other, once
\* where they make a tree, unless a queue was full (route_mc, queue_mc): for
\* every board, every table and every order of the chips.
THEOREM FlushExact == RecordSpec => []ExactDelivery
<1>1. RecordInit => Delivers
  BY RecordStart DEF Delivers
<1>2. TypeOK /\ FlushLeavesNothing /\ Recorded /\ Delivers
        /\ [RecordNext]_<<vars, recordVars>> => Delivers'
  BY FlushStep DEF Recorded, Delivers
<1>3. TypeOK /\ FlushLeavesNothing /\ Recorded /\ Delivers => ExactDelivery
  BY FlushDelivers DEF Recorded, Delivers
<1> QED
  BY <1>1, <1>2, <1>3, RecordBasics, RecordInvariant, PTL DEF RecordSpec

-----------------------------------------------------------------------------
(* Order over many flushes.                                                *)

\* Packet q is of an earlier flush than everything taken in this one.
Earlier(q) == Past(q) /\ \A u \in taken : Precedes(q, u.packet)

\* What a core has still to read is in order, and in front of all that can
\* still come to it.
DownInv(P) ==
  trees =>
    /\ AllTrees
    /\ \A d \in Chips, i \in Cores :
         /\ Ordered(down[d][i])
         /\ \A q \in ToSet(down[d][i]) : <<d, q>> \in P \/ Earlier(q)

LEMMA EarlierStays ==
  ASSUME TypeOK, RecordTypeOK, PastInv, [RecordNext]_<<vars, recordVars>>,
         NEW q \in McPackets, Earlier(q)
  PROVE  Earlier(q)'
<1> USE DEF recordVars, flushVars
<1>1. Past(q)'
  BY RecordIsNext, SocketsStay DEF PastInv, Earlier
<1>2. CASE UNCHANGED taken \/ taken' = {}
  BY <1>1, <1>2 DEF Earlier
<1>3. CASE RecordTaken
  <2>1. PICK h : h = Head(Polled)
    OBVIOUS
  <2>2. /\ taken' \subseteq taken \cup {[at |-> chip, packet |-> h]}
        /\ chip \in Chips /\ core \in Cores /\ up[chip][core] # <<>>
        /\ h = Head(up[chip][core])
    BY <1>3, <2>1 DEF RecordTaken, dispatch_mc, Polled, TypeOK
  <2>3. h \in McPackets /\ h.type = "mc"
    BY <1>3, <2>1, PolledType DEF RecordTaken, dispatch_mc
  <2>4. up[chip][core] \in Seq(Packets)
    BY <2>2 DEF TypeOK, Packets
  <2>5. h \in ToSet(up[chip][core])
    BY <2>2, <2>4, MembersTail
  <2>6. h.chip = chip /\ h.core = core
    BY <2>2, <2>3, <2>5 DEF PastInv, Sockets
  <2>7. Precedes(q, h)
    BY <2>5, <2>6 DEF Earlier, Past, Precedes, SameFlow
  <2> QED
    BY <1>1, <2>2, <2>7 DEF Earlier
<1> QED
  BY <1>2, <1>3
  DEF RecordNext, RecordDispatcher, RecordRouted, RecordStored, RecordReset

\* What a step does to the packets sent to one core.
LEMMA DownSteps ==
  ASSUME TypeOK, [RecordNext]_<<vars, recordVars>>, ~RecordRouted,
         NEW d \in Chips, NEW i \in Cores
  PROVE  \/ down'[d][i] = down[d][i]
         \/ down[d][i] # <<>> /\ down'[d][i] = Tail(down[d][i])
<1>1. CASE UNCHANGED down
  BY <1>1
<1>2. ASSUME NEW c \in Chips, NEW j \in Cores, read_packets(c, j)
      PROVE  \/ down'[d][i] = down[d][i]
             \/ down[d][i] # <<>> /\ down'[d][i] = Tail(down[d][i])
  <2>1. down[c][j] # <<>> /\ down' = [down EXCEPT ![c][j] = Tail(@)]
    BY <1>2 DEF read_packets
  <2> QED
    BY <2>1 DEF TypeOK
<1>3. ASSUME NEW c \in Chips, NEW j \in Cores, Core(c, j)
      PROVE  UNCHANGED down \/ read_packets(c, j)
  BY <1>3 DEF Core, spin1_send_mc_packet, SendMc, spin1_set_mc_table_entry,
              spin_emu_send_route
<1>4. CASE RecordDispatcher
  <2>1. UNCHANGED down
    BY <1>4 DEF RecordDispatcher, RecordTaken, RecordStored, RecordReset,
                dispatch_mc, store_route, PollNext, FlushBegin, FlushEnd,
                RouteNext
  <2> QED
    BY <2>1
<1>5. CASE UNCHANGED <<vars, recordVars>>
  BY <1>5 DEF vars, routerVars
<1> QED
  BY <1>1, <1>2, <1>3, <1>4, <1>5 DEF RecordNext

LEMMA TreesStay ==
  ASSUME [RecordNext]_<<vars, recordVars>>, trees => AllTrees, trees'
  PROVE  trees /\ AllTrees /\ AllTrees'
<1> USE DEF recordVars, flushVars
<1>1. CASE RecordStored
  BY <1>1 DEF RecordStored
<1>2. CASE ~RecordStored
  <2>1. UNCHANGED <<spin_emu_routes, trees>>
    BY <1>2
    DEF RecordNext, RecordDispatcher, RecordTaken, RecordRouted, RecordReset,
        dispatch_mc, route_mc, FlushEnd, PollNext, FlushBegin, RouteNext,
        Core, spin1_send_mc_packet, SendMc, spin1_set_mc_table_entry,
        spin_emu_send_route, read_packets, vars, routerVars
  <2>2. \A c, k : IsTree(c, k)' = IsTree(c, k)
    BY <2>1, SameTables
  <2> QED
    BY <2>1, <2>2 DEF AllTrees
<1> QED
  BY <1>1, <1>2

LEMMA DownStep ==
  ASSUME TypeOK, RecordTypeOK, PastInv, NEW P, NEW Q, FlushInv(P),
         DownInv(P), Routings(P, Q), [RecordNext]_<<vars, recordVars>>
  PROVE  DownInv(Q)'
<1> USE DEF recordVars, flushVars
<1>1. SUFFICES ASSUME trees'
               PROVE  /\ AllTrees'
                      /\ \A d \in Chips, i \in Cores :
                           /\ Ordered(down'[d][i])
                           /\ \A q \in ToSet(down'[d][i]) :
                                <<d, q>> \in Q \/ Earlier(q)'
  BY DEF DownInv
<1>2. trees /\ AllTrees /\ AllTrees'
  BY <1>1, TreesStay DEF DownInv
<1>3. \A d \in Chips, i \in Cores :
        /\ down[d][i] \in Seq(McPackets)
        /\ Ordered(down[d][i])
        /\ ToSet(down[d][i]) \subseteq McPackets
        /\ \A q \in ToSet(down[d][i]) : <<d, q>> \in P \/ Earlier(q)
  BY <1>2, MembersType DEF TypeOK, DownInv
<1>4. ASSUME NEW d \in Chips, NEW q \in McPackets, <<d, q>> \in P \/ Earlier(q)
      PROVE  <<d, q>> \in Q \/ Earlier(q)'
  <2>1. CASE Earlier(q)
    BY <2>1, EarlierStays
  <2>2. CASE <<d, q>> \in P /\ ~RecordReset
    BY <2>2 DEF Routings
  <2>3. CASE <<d, q>> \in P /\ RecordReset
    <3>1. [at |-> q.chip, packet |-> q] \in taken
      BY <2>3 DEF FlushInv, Derived, Came
    <3>2. Past(q)
      BY <3>1 DEF PastInv, PastTaken
    <3>3. Past(q)'
      BY <3>2, RecordIsNext, SocketsStay DEF PastInv
    <3> QED
      BY <2>3, <3>3 DEF RecordReset, Earlier
  <2> QED
    BY <1>4, <2>1, <2>2, <2>3
<1>5. CASE ~RecordRouted
  <2>1. ASSUME NEW d \in Chips, NEW i \in Cores
        PROVE  /\ Ordered(down'[d][i])
               /\ ToSet(down'[d][i]) \subseteq ToSet(down[d][i])
    <3>1. CASE down'[d][i] = down[d][i]
      BY <3>1, <1>3
    <3>2. CASE down[d][i] # <<>> /\ down'[d][i] = Tail(down[d][i])
      <4>1. /\ ToSet(down[d][i]) =
                 {Head(down[d][i])} \cup ToSet(Tail(down[d][i]))
            /\ Ordered(Tail(down[d][i]))
        BY <3>2, <1>3, MembersTail, OrderedTail
      <4> QED
        BY <3>2, <4>1
    <3> QED
      BY <3>1, <3>2, <1>5, DownSteps
  <2> QED
    BY <1>2, <1>3, <1>4, <2>1
<1>6. CASE RecordRouted
  <2>1. PICK p : p = Head(mc_queue[chip])
    OBVIOUS
  <2>2. /\ chip \in Chips /\ p \in McPackets /\ mc_queue[chip] # <<>>
        /\ mc_queue[chip] \in Seq(McPackets)
    BY <1>6, <2>1 DEF RecordRouted, route_mc, TypeOK
  <2>3. p \in ToSet(mc_queue[chip])
    BY <2>1, <2>2, MembersTail
  <2>4. PICK R : R = RouteOf(chip, p.key).cores
    OBVIOUS
  <2>5. down' = [down EXCEPT ![chip] =
          [i \in Cores |-> IF i \in R THEN spin_emu_send_mc(@[i], p)
                           ELSE @[i]]]
    BY <1>6, <2>1, <2>4 DEF RecordRouted, route_mc
  <2>6. \A d \in Chips, i \in Cores :
          \/ down'[d][i] = down[d][i]
          \/ d = chip /\ down'[d][i] = Append(down[d][i], p)
    BY <2>5 DEF TypeOK, spin_emu_send_mc
  <2>7. Calm
    BY <1>2 DEF AllTrees, Calm, RecordTypeOK, McPackets
  <2>8. [at |-> p.chip, packet |-> p] \in taken
    BY <2>2, <2>3 DEF FlushInv, Derived, Came
  <2>9. ASSUME NEW q \in McPackets, <<chip, q>> \in P \/ Earlier(q)
        PROVE  Precedes(q, p)
    <3>1. CASE <<chip, q>> \in P
      BY <3>1, <2>2, <2>3, <2>7 DEF FlushInv, InLine
    <3>2. CASE Earlier(q)
      BY <3>2, <2>8 DEF Earlier
    <3> QED
      BY <3>1, <3>2, <2>9
  <2>10. <<chip, p>> \in Q
    BY <1>6, <2>1 DEF Routings, RecordRouted, RecordReset, route_mc, FlushEnd
  <2>11. ASSUME NEW d \in Chips, NEW i \in Cores
         PROVE  /\ Ordered(down'[d][i])
                /\ \A q \in ToSet(down'[d][i]) : <<d, q>> \in Q \/ Earlier(q)'
    <3>1. CASE down'[d][i] = down[d][i]
      BY <3>1, <1>3, <1>4
    <3>2. CASE d = chip /\ down'[d][i] = Append(down[d][i], p)
      <4>1. ToSet(down'[d][i]) = ToSet(down[d][i]) \cup {p}
        BY <3>2, <1>3, <2>2, MembersAppend
      <4>2. \A q \in ToSet(down[d][i]) : Precedes(q, p)
        BY <3>2, <1>3, <2>9
      <4>3. Ordered(down'[d][i])
        BY <3>2, <4>2, <1>3, <2>2, OrderedAppend
      <4> QED
        BY <3>2, <4>1, <4>3, <1>3, <1>4, <2>10
    <3> QED
      BY <3>1, <3>2, <2>6
  <2> QED
    BY <1>2, <2>11
<1> QED
  BY <1>5, <1>6

InLineAndOrder == \E P : FlushInv(P) /\ DownInv(P)

\* As long as the tables make trees, a core reads the packets of another one
\* with one key in the order they were sent (queue_mc, route_mc), from one
\* flush to the next and whichever queues and sockets have dropped packets in
\* between.
THEOREM PacketsInOrder == RecordSpec => []InOrder
<1>1. RecordInit => InLineAndOrder
  <2> SUFFICES ASSUME RecordInit PROVE FlushInv({}) /\ DownInv({})
    BY DEF InLineAndOrder
  <2>1. \A d \in Chips, i \in Cores : down[d][i] = <<>>
    BY DEF RecordInit, Init, RouterInit
  <2>2. Ordered(<<>>)
    BY DEF Ordered
  <2>3. DownInv({})
    BY <2>1, <2>2, MembersOfEmpty DEF DownInv, RecordInit
  <2> QED
    BY <2>3, RecordStart
<1>2. TypeOK /\ FlushLeavesNothing /\ Recorded /\ InLineAndOrder
        /\ [RecordNext]_<<vars, recordVars>> => InLineAndOrder'
  <2> SUFFICES ASSUME TypeOK, FlushLeavesNothing, Recorded,
                      [RecordNext]_<<vars, recordVars>>,
                      NEW P, FlushInv(P), DownInv(P)
               PROVE  InLineAndOrder'
    BY DEF InLineAndOrder
  <2>1. PICK Q : Routings(P, Q) /\ FlushInv(Q)'
    BY FlushStep DEF Recorded
  <2>2. DownInv(Q)'
    BY <2>1, DownStep DEF Recorded
  <2> QED
    BY <2>1, <2>2 DEF InLineAndOrder
<1>3. TypeOK /\ InLineAndOrder => InOrder
  <2> SUFFICES ASSUME TypeOK, NEW P, DownInv(P), trees,
                      NEW d \in Chips, NEW i \in Cores,
                      NEW m \in DOMAIN down[d][i], NEW n \in DOMAIN down[d][i],
                      m < n, down[d][i][m].chip = down[d][i][n].chip,
                      down[d][i][m].core = down[d][i][n].core,
                      down[d][i][m].key = down[d][i][n].key
               PROVE  down[d][i][m].n > down[d][i][n].n
    BY DEF InLineAndOrder, InOrder
  <2>1. Ordered(down[d][i]) /\ down[d][i] \in Seq(McPackets)
    BY DEF DownInv, TypeOK
  <2>2. /\ m \in 1 .. Len(down[d][i]) /\ n \in 1 .. Len(down[d][i])
        /\ down[d][i][m] \in McPackets /\ down[d][i][n] \in McPackets
    BY <2>1
  <2>3. Precedes(down[d][i][m], down[d][i][n])
    BY <2>1, <2>2 DEF Ordered
  <2> QED
    BY <2>2, <2>3 DEF Precedes, SameFlow, McPackets
<1> QED
  BY <1>1, <1>2, <1>3, RecordBasics, RecordInvariant, PTL DEF RecordSpec
=============================================================================
