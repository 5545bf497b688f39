--------------------------- MODULE GridArithmetic ---------------------------
(***************************************************************************)
(* Numbers as positions in a grid of rows of b: used for the chips of a    *)
(* board (Topology) and for the cores of its chips (HostCommands).         *)
(***************************************************************************)
EXTENDS Integers, TLAPS

LEMMA DivMod ==
  ASSUME NEW a \in Nat, NEW b \in Nat \ {0}
  PROVE  /\ a \div b \in Nat
         /\ a % b \in 0 .. b - 1
         /\ a = (a \div b) * b + (a % b)
  BY Z3

LEMMA DivModUnique ==
  ASSUME NEW x \in Int, NEW b \in Nat \ {0}, NEW y \in 0 .. b - 1
  PROVE  (x * b + y) \div b = x /\ (x * b + y) % b = y
  BY Z3

\* x * b + y is in range when x and y are.
LEMMA InGrid ==
  ASSUME NEW a \in Nat \ {0}, NEW b \in Nat \ {0},
         NEW x \in 0 .. a - 1, NEW y \in 0 .. b - 1
  PROVE  x * b + y \in 0 .. a * b - 1
<1>1. x * b \in Nat /\ (x + 1) * b = x * b + b
  BY Z3
<1>2. (x + 1) * b <= a * b
  BY Z3
<1>3. a * b \in Int
  OBVIOUS
<1> QED
  BY <1>1, <1>2, <1>3

LEMMA QuotientInGrid ==
  ASSUME NEW a \in Nat \ {0}, NEW b \in Nat \ {0}, NEW n \in 0 .. a * b - 1
  PROVE  n \div b \in 0 .. a - 1
<1> DEFINE q == n \div b
<1>1. q \in Nat /\ n = q * b + (n % b) /\ n % b \in Nat
  BY DivMod
<1>2. ASSUME q >= a PROVE FALSE
  <2>1. q * b >= a * b
    BY <1>1, <1>2, Z3
  <2> QED
    BY <1>1, <2>1
<1> QED
  BY <1>1, <1>2
=============================================================================
