------------------------------ MODULE MCBarrier ------------------------------
(* Barrier for TLC, on a board of two by two. *)
EXTENDS Barrier

CONSTANT appKey

unsetTables == {UnsetTables}
noEntries == [c \in Chips |-> {}]

\* c_main on the root chip installs one entry.
appEntries ==
  [c \in Chips |->
     IF c = 0
     THEN {[entry |-> 0,
            route |-> [keys |-> {appKey}, links |-> {}, cores |-> {1}]]}
     ELSE {}]

\* Chip (0,0) with one core and chip (0,1) with two.
northChip == [c \in Chips |-> IF c = 0 THEN {1}
                              ELSE IF c = 1 THEN {1, 2} ELSE {}]

\* Chip (0,0) with two cores.
rootChip == [c \in Chips |-> IF c = 0 THEN {1, 2} ELSE {}]

\* Chip (0,0) with two cores and chip (0,1) with one, to which the RDYGO entry
\* leads.
twoAndOne == [c \in Chips |-> IF c = 0 THEN {1, 2}
                              ELSE IF c = 1 THEN {1} ELSE {}]

\* Chips (0,0) and (1,0) with one core each.
eastChip == [c \in Chips |-> IF c \in {0, 2} THEN {1} ELSE {}]
=============================================================================
