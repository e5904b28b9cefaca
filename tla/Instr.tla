------------------------------- MODULE Instr -------------------------------
(***************************************************************************)
(* The instructions of softMC.inc.  A 32-bit word is a record: op is what  *)
(* its opcode field (and, for a DDR instruction, its CS/RAS/CAS/WE bits)   *)
(* selects, arg the operand (wait cycles, bus direction, interval) and     *)
(* from the source that produced it.  No circuit reads `from': it is there *)
(* for the properties.  NoInstr is "the enable line is low".               *)
(***************************************************************************)
EXTENDS Integers, Sequences

CONSTANT WAIT_MOD   \* 2^10: the wait counter and its operand have 10 bits

ASSUME WaitModAssumption == WAIT_MOD \in Nat /\ WAIT_MOD > 2

DDR_INSTR == {"ACT", "PRE", "PREA", "RD", "WR", "REF", "ZQ"}
Opcodes == DDR_INSTR \cup {"END", "WAIT", "BUSDIR", "SET_TREFI", "SET_TRFC"}

NoInstr == [op |-> "NONE", arg |-> 0, from |-> "none"]
Instruction == [op : Opcodes, arg : Nat, from : {"app", "maint"}]

App(op, arg) == [op |-> op, arg |-> arg, from |-> "app"]
Maint(op, arg) == [op |-> op, arg |-> arg, from |-> "maint"]

\* softMC.inc: the two operands of SET_BUSDIR.
BUS_DIR_READ == 0
BUS_DIR_WRITE == 2

\* The dispatcher reads only the low bits of a WAIT's operand.
Cycles(i) == i.arg % WAIT_MOD

\* The two instruction FIFOs and register stages.
Lanes == {0, 1}
=============================================================================
