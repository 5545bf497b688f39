------------------------------ MODULE Topology ------------------------------
(***************************************************************************)
(* The board: a grid of NUM_CHIPS_X by NUM_CHIPS_Y chips without           *)
(* wrap-around, each with six links to its neighbours.                     *)
(***************************************************************************)
EXTENDS Integers

CONSTANTS NUM_CHIPS_X, NUM_CHIPS_Y

ASSUME BoardAssumption ==
  /\ NUM_CHIPS_X \in Nat \ {0}
  /\ NUM_CHIPS_Y \in Nat \ {0}

NUM_CHIPS == NUM_CHIPS_X * NUM_CHIPS_Y
Chips == 0 .. NUM_CHIPS - 1

NUM_LINKS == 6
Links == 0 .. NUM_LINKS - 1
EAST == 0
NORTH_EAST == 1
NORTH == 2
WEST == 3
SOUTH_WEST == 4
SOUTH == 5

chip_id(x, y) == x * NUM_CHIPS_Y + y
chip_my_x(id) == id \div NUM_CHIPS_Y
chip_my_y(id) == id % NUM_CHIPS_Y

\* The steps along the two axes that a link makes.
StepX(l) == IF l \in {EAST, NORTH_EAST} THEN 1
            ELSE IF l \in {WEST, SOUTH_WEST} THEN -1 ELSE 0
StepY(l) == IF l \in {NORTH_EAST, NORTH} THEN 1
            ELSE IF l \in {SOUTH_WEST, SOUTH} THEN -1 ELSE 0

OnBoard(x, y) == x \in 0 .. NUM_CHIPS_X - 1 /\ y \in 0 .. NUM_CHIPS_Y - 1

\* The chip at the other end of a link; -1 off the edge of the board.
channel_targets(c, l) ==
  LET x == chip_my_x(c) + StepX(l)
      y == chip_my_y(c) + StepY(l)
  IN  IF OnBoard(x, y) THEN chip_id(x, y) ELSE -1

\* The link towards chip (0,0) that p2p_get returns on chip c.
p2p_get(c) ==
  LET x == chip_my_x(c)
      y == chip_my_y(c)
  IN  IF x > 0 /\ y > 0 THEN SOUTH_WEST
      ELSE IF x > 0 THEN WEST
      ELSE IF y > 0 THEN SOUTH
      ELSE EAST
=============================================================================
