--------------------------- MODULE TopologyProofs ---------------------------
(***************************************************************************)
(* Proofs about Topology, for boards of any size: the numbering of the     *)
(* chips, the links between them and the way p2p_get points to.            *)
(***************************************************************************)
EXTENDS Topology, GridArithmetic, TLAPS

-----------------------------------------------------------------------------
\* chip_id numbers the positions of the board without a gap or a clash, and
\* chip_my_x and chip_my_y give the position back (spin_emu.h).
THEOREM ChipIdInverse ==
  /\ \A x, y \in Int : OnBoard(x, y) =>
       /\ chip_id(x, y) \in Chips
       /\ chip_my_x(chip_id(x, y)) = x
       /\ chip_my_y(chip_id(x, y)) = y
  /\ \A c \in Chips :
       /\ OnBoard(chip_my_x(c), chip_my_y(c))
       /\ chip_id(chip_my_x(c), chip_my_y(c)) = c
<1>1. ASSUME NEW x \in Int, NEW y \in Int, OnBoard(x, y)
      PROVE  /\ chip_id(x, y) \in Chips
             /\ chip_my_x(chip_id(x, y)) = x
             /\ chip_my_y(chip_id(x, y)) = y
  <2>1. x \in 0 .. NUM_CHIPS_X - 1 /\ y \in 0 .. NUM_CHIPS_Y - 1
    BY <1>1 DEF OnBoard
  <2>2. chip_id(x, y) \in Chips
    BY <2>1, InGrid, BoardAssumption DEF chip_id, Chips, NUM_CHIPS
  <2> QED
    BY <2>1, <2>2, DivModUnique, BoardAssumption
    DEF chip_id, chip_my_x, chip_my_y
<1>2. ASSUME NEW c \in Chips
      PROVE  /\ OnBoard(chip_my_x(c), chip_my_y(c))
             /\ chip_id(chip_my_x(c), chip_my_y(c)) = c
  <2>1. c \in Nat /\ c \in 0 .. NUM_CHIPS_X * NUM_CHIPS_Y - 1
    BY BoardAssumption DEF Chips, NUM_CHIPS
  <2>2. c \div NUM_CHIPS_Y \in 0 .. NUM_CHIPS_X - 1
    BY <2>1, QuotientInGrid, BoardAssumption
  <2>3. /\ c % NUM_CHIPS_Y \in 0 .. NUM_CHIPS_Y - 1
        /\ c = (c \div NUM_CHIPS_Y) * NUM_CHIPS_Y + (c % NUM_CHIPS_Y)
    BY <2>1, DivMod, BoardAssumption
  <2> QED
    BY <2>2, <2>3 DEF OnBoard, chip_my_x, chip_my_y, chip_id
<1> QED
  BY <1>1, <1>2

\* The link that leads the other way.
Opposite(l) == (l + 3) % NUM_LINKS

LEMMA OppositeSteps ==
  ASSUME NEW l \in Links
  PROVE  /\ Opposite(l) \in Links
         /\ StepX(l) \in -1 .. 1 /\ StepY(l) \in -1 .. 1
         /\ StepX(Opposite(l)) = - StepX(l)
         /\ StepY(Opposite(l)) = - StepY(l)
<1>1. l \in {0, 1, 2, 3, 4, 5}
  BY DEF Links, NUM_LINKS
<1>2. Opposite(l) = IF l <= 2 THEN l + 3 ELSE l - 3
  BY <1>1 DEF Opposite, NUM_LINKS
<1> QED
  BY <1>1, <1>2 DEF StepX, StepY, Links, NUM_LINKS, EAST, NORTH_EAST, NORTH,
                    WEST, SOUTH_WEST, SOUTH

LEMMA TargetPosition ==
  ASSUME NEW c \in Chips, NEW l \in Links, channel_targets(c, l) # -1
  PROVE  /\ channel_targets(c, l) \in Chips
         /\ chip_my_x(channel_targets(c, l)) = chip_my_x(c) + StepX(l)
         /\ chip_my_y(channel_targets(c, l)) = chip_my_y(c) + StepY(l)
<1> DEFINE x == chip_my_x(c) + StepX(l)
           y == chip_my_y(c) + StepY(l)
<1>1. OnBoard(x, y) /\ channel_targets(c, l) = chip_id(x, y)
  BY DEF channel_targets
<1>2. x \in Int /\ y \in Int
  BY <1>1 DEF OnBoard
<1> HIDE DEF x, y
<1>3. /\ chip_id(x, y) \in Chips
      /\ chip_my_x(chip_id(x, y)) = x
      /\ chip_my_y(chip_id(x, y)) = y
  BY <1>1, <1>2, ChipIdInverse
<1> QED
  BY <1>1, <1>3 DEF x, y

LEMMA PositionType ==
  ASSUME NEW c \in Chips
  PROVE  /\ chip_my_x(c) \in 0 .. NUM_CHIPS_X - 1
         /\ chip_my_y(c) \in 0 .. NUM_CHIPS_Y - 1
  BY ChipIdInverse DEF OnBoard

\* Every link that does not leave the board (cmd_p2pc, channel_targets) comes
\* to a chip whose opposite link leads back, and different links of a chip
\* come to different chips: a packet copied to several links is queued on as
\* many chips.
THEOREM LinksPaired ==
  \A c \in Chips, l \in Links : channel_targets(c, l) # -1 =>
    /\ channel_targets(c, l) \in Chips \ {c}
    /\ channel_targets(channel_targets(c, l), Opposite(l)) = c
    /\ \A m \in Links : channel_targets(c, m) = channel_targets(c, l) => m = l
<1> SUFFICES ASSUME NEW c \in Chips, NEW l \in Links,
                    channel_targets(c, l) # -1
             PROVE  /\ channel_targets(c, l) \in Chips \ {c}
                    /\ channel_targets(channel_targets(c, l), Opposite(l)) = c
                    /\ \A m \in Links :
                         channel_targets(c, m) = channel_targets(c, l) => m = l
  OBVIOUS
<1> DEFINE d == channel_targets(c, l)
<1>1. /\ d \in Chips
      /\ chip_my_x(d) = chip_my_x(c) + StepX(l)
      /\ chip_my_y(d) = chip_my_y(c) + StepY(l)
  BY TargetPosition
<1>2. /\ chip_my_x(c) \in 0 .. NUM_CHIPS_X - 1
      /\ chip_my_y(c) \in 0 .. NUM_CHIPS_Y - 1
      /\ NUM_CHIPS_X \in Nat /\ NUM_CHIPS_Y \in Nat
  BY PositionType, BoardAssumption
<1>3. \A m \in Links :
        /\ StepX(m) \in -1 .. 1 /\ StepY(m) \in -1 .. 1
        /\ StepX(m) # 0 \/ StepY(m) # 0
        /\ StepX(m) = StepX(l) /\ StepY(m) = StepY(l) => m = l
  BY DEF StepX, StepY, Links, NUM_LINKS, EAST, NORTH_EAST, NORTH, WEST,
         SOUTH_WEST, SOUTH
<1>4. d # c
  BY <1>1, <1>2, <1>3
<1>5. channel_targets(d, Opposite(l)) = c
  <2> DEFINE x == chip_my_x(d) + StepX(Opposite(l))
             y == chip_my_y(d) + StepY(Opposite(l))
  <2>1. x = chip_my_x(c) /\ y = chip_my_y(c)
    BY <1>1, <1>2, <1>3, OppositeSteps
  <2>2. OnBoard(x, y)
    BY <1>2, <2>1 DEF OnBoard
  <2>3. chip_id(x, y) = c
    BY <2>1, ChipIdInverse
  <2> QED
    BY <2>2, <2>3 DEF channel_targets
<1>6. ASSUME NEW m \in Links, channel_targets(c, m) = d PROVE m = l
  <2>1. /\ chip_my_x(d) = chip_my_x(c) + StepX(m)
        /\ chip_my_y(d) = chip_my_y(c) + StepY(m)
    BY <1>6, TargetPosition
  <2> HIDE DEF d
  <2>2. StepX(m) = StepX(l) /\ StepY(m) = StepY(l)
    BY <1>1, <1>2, <1>3, <2>1
  <2> QED
    BY <1>3, <2>2
<1> QED
  BY <1>1, <1>4, <1>5, <1>6

\* On every chip but (0,0) the link of p2p_get comes to a chip of the board
\* that is nearer to (0,0) along one axis or both and no farther along the
\* other: the packets that follow it (RDY2) go round no loop and leave the
\* board nowhere.
THEOREM P2pComesNearer ==
  \A c \in Chips \ {chip_id(0, 0)} :
    LET d == channel_targets(c, p2p_get(c))
    IN  /\ d \in Chips
        /\ chip_my_x(d) <= chip_my_x(c) /\ chip_my_y(d) <= chip_my_y(c)
        /\ chip_my_x(d) + chip_my_y(d) < chip_my_x(c) + chip_my_y(c)
<1> SUFFICES ASSUME NEW c \in Chips \ {chip_id(0, 0)}
             PROVE  LET d == channel_targets(c, p2p_get(c))
                    IN  /\ d \in Chips
                        /\ chip_my_x(d) <= chip_my_x(c)
                        /\ chip_my_y(d) <= chip_my_y(c)
                        /\ chip_my_x(d) + chip_my_y(d) <
                             chip_my_x(c) + chip_my_y(c)
  OBVIOUS
<1> DEFINE l == p2p_get(c)
<1>1. /\ chip_my_x(c) \in 0 .. NUM_CHIPS_X - 1
      /\ chip_my_y(c) \in 0 .. NUM_CHIPS_Y - 1
      /\ NUM_CHIPS_X \in Nat /\ NUM_CHIPS_Y \in Nat
  BY PositionType, BoardAssumption
<1>2. ~(chip_my_x(c) = 0 /\ chip_my_y(c) = 0)
  BY ChipIdInverse
<1>3. /\ l \in Links
      /\ chip_my_x(c) + StepX(l) \in 0 .. chip_my_x(c)
      /\ chip_my_y(c) + StepY(l) \in 0 .. chip_my_y(c)
      /\ StepX(l) + StepY(l) < 0
      /\ StepX(l) \in Int /\ StepY(l) \in Int
  BY <1>1, <1>2 DEF p2p_get, StepX, StepY, Links, NUM_LINKS, EAST,
                    NORTH_EAST, NORTH, WEST, SOUTH_WEST, SOUTH
<1> HIDE DEF l
<1>4. channel_targets(c, l) # -1
  <2>1. OnBoard(chip_my_x(c) + StepX(l), chip_my_y(c) + StepY(l))
    BY <1>1, <1>3 DEF OnBoard
  <2>2. chip_id(chip_my_x(c) + StepX(l), chip_my_y(c) + StepY(l)) \in Chips
    BY <1>3, <2>1, ChipIdInverse
  <2> QED
    BY <2>1, <2>2, BoardAssumption DEF channel_targets, Chips
<1>5. /\ channel_targets(c, l) \in Chips
      /\ chip_my_x(channel_targets(c, l)) = chip_my_x(c) + StepX(l)
      /\ chip_my_y(channel_targets(c, l)) = chip_my_y(c) + StepY(l)
  BY <1>3, <1>4, TargetPosition
<1> QED
  BY <1>1, <1>3, <1>5 DEF l
=============================================================================
