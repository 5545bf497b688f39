--------------------------- MODULE MCHostCommands ---------------------------
(* HostCommands for TLC: two chips of two cores. *)
EXTENDS HostCommands

R(cmd, op, core, mask, arg, to, tag, host) ==
  [cmd |-> cmd, op |-> op, core |-> core, mask |-> mask, arg |-> arg,
   to |-> to, tag |-> tag, host |-> host]

VerBy(core, tag, host) == R(CMD_VER, 0, core, {}, 0, 0, tag, host)
Ver(core, host) == VerBy(core, TAG_NONE, host)
Read(core) == R(CMD_READ, 0, core, {}, 0, 0, TAG_NONE, 1)
Write(core) == R(CMD_WRITE, 0, core, {}, 0, 0, TAG_NONE, 1)
Start(core, mask, program) ==
  R(CMD_AS, 0, core, mask, program, 0, TAG_NONE, 1)
FloodBegin == R(CMD_NNP, NN_CMD_FFS, 0, {}, 1, 0, TAG_NONE, 1)
FloodBlock == R(CMD_FFD, 0, 0, {}, 1, 0, TAG_NONE, 1)
FloodEnd(mask) == R(CMD_NNP, NN_CMD_FFE, 0, mask, 1, 0, TAG_NONE, 1)
P2pc == R(CMD_P2PC, 0, 0, {}, 0, 0, TAG_NONE, 1)
Tag(op, tag, to) == R(CMD_IPTAG, op, 0, {}, tag, to, TAG_NONE, to)

Unknown(core) == R(1, 0, core, {}, 0, 0, TAG_NONE, 1)
Nothing == R(CMD_NNP, 0, 0, {}, 0, 0, TAG_NONE, 1)

\* Program 1 knows NUM_CHIPS, program 2 is built with spin_emu_app.c as it is.
repaired == {1}

scripts ==
  { <<FloodBegin, FloodBlock, P2pc, FloodBlock, FloodEnd({1})>>,
    <<Start(1, {0, 1}, 1), Start(1, {1}, 1), Nothing>>,
    <<P2pc, Write(1), Write(0), P2pc, Write(1), Read(1)>>,
    <<Ver(1, 1), Unknown(1), Ver(0, 2)>>,
    <<Start(3, {1}, 2), Read(3), Write(3)>>,
    <<Tag(IPTAG_NEW, 0, 1), VerBy(1, 4, 1), Tag(IPTAG_NEW, 0, 2),
      Tag(IPTAG_GET, 4, 2)>>,
    <<Start(0, {0}, 1), Tag(IPTAG_SET, 0, 1), Tag(IPTAG_CLR, 0, 1),
      Tag(IPTAG_SET, 0, 2)>>,
    <<Tag(IPTAG_TTO, 0, 3), Tag(IPTAG_NEW, TAG_TABLE_SIZE, 1), VerBy(0, 1, 1),
      Tag(IPTAG_GET, 1, 11)>> }

replies == { <<Ver(1, 1), Read(1)>>, <<Ver(1, 1), Ver(2, 2)>> }
=============================================================================
