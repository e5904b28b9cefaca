----------------------------- MODULE InstrCodec -----------------------------
(***************************************************************************)
(* The instruction word on its way from softmc.cpp, which builds it with   *)
(* shifts and ORs, to instr_dispatcher.v and instr_decoder.v, which pick   *)
(* it apart by bit positions of their own (softMC.inc).  A word, and every *)
(* operand, is the set of its 1 bits; a state is one call of a gen         *)
(* function.                                                               *)
(***************************************************************************)
EXTENDS Integers

CONSTANTS Banks, Rows, Cols, Patterns, Cycles, Vals    \* bounds: the operands

Bits(n) == SUBSET (0 .. n - 1)

ASSUME OperandAssumption ==
  /\ Banks \subseteq Bits(3)       \* NUM_BANKS
  /\ Rows \subseteq Bits(15)       \* NUM_ROWS
  /\ Cols \subseteq Bits(10)       \* NUM_COLS
  /\ Patterns \subseteq Bits(8)
  /\ Cycles \subseteq Bits(10)     \* genWAIT asserts 1 .. 1023
  /\ Vals \subseteq Bits(28)       \* genREF_CONFIG asserts val < 2^28

VARIABLE call

Shl(w, k) == { i + k : i \in w }
Field(w, low, n) == { i - low : i \in w \cap (low .. low + n - 1) }
Flag(set) == IF set THEN {0} ELSE {}

-----------------------------------------------------------------------------
(* softmc.h: widths and instruction types.                                 *)
BANK_OFFSET == 3
ROW_OFFSET == 16
CMD_OFFSET == 4
COL_OFFSET == 10
SIGNAL_OFFSET == 6

DDR == {3}
WAIT == {2}
SET_BUS_DIR == {0}
TREFI == {1}
TRFC == {0, 1}

Signals(cmd) ==
  Shl(DDR, 32 - CMD_OFFSET - BANK_OFFSET - ROW_OFFSET) \cup cmd

genACT(bank, row) ==
  Shl(Shl(Signals({0, 1, 5}), BANK_OFFSET) \cup bank, ROW_OFFSET) \cup row

genPRE(bank, all) ==
  IF all
  THEN Shl(Shl(Signals({1, 5}), BANK_OFFSET + ROW_OFFSET - COL_OFFSET) \cup {0}, COL_OFFSET)
  ELSE Shl(Shl(Signals({1, 5}), BANK_OFFSET) \cup bank, ROW_OFFSET)

genWRShortGap(bank, col, pattern, ap, bl) ==
  LET type == Shl(DDR, 32 - SIGNAL_OFFSET - BANK_OFFSET - ROW_OFFSET - CMD_OFFSET)
      high == Shl(type \cup Field(pattern, 2, 6), SIGNAL_OFFSET)
      cmd  == Shl(high \cup {2, 5}, BANK_OFFSET)
      low  == Shl(Shl(cmd \cup bank, 2) \cup Field(pattern, 0, 2), 1)
      len  == Shl(low \cup Flag(bl), 2)
  IN  Shl(len \cup Flag(ap), COL_OFFSET) \cup col
genWR(bank, col, pattern, ap, bl) ==
  LET type == Shl(DDR, 32 - SIGNAL_OFFSET - BANK_OFFSET - ROW_OFFSET - CMD_OFFSET)
      high == Shl(type \cup Field(pattern, 2, 6), SIGNAL_OFFSET)
      cmd  == Shl(high \cup {2, 5}, BANK_OFFSET)
      low  == Shl(Shl(cmd \cup bank, 2) \cup Field(pattern, 0, 2), 2)
      len  == Shl(low \cup Flag(bl), 2)
  IN  Shl(len \cup Flag(ap), COL_OFFSET) \cup col

genRD(bank, col, ap, bl) ==
  LET cmd == Shl({0, 2, 5}, BANK_OFFSET)
      len == Shl(Shl(cmd \cup bank, 4) \cup Flag(bl), 2)
  IN  Shl(DDR, 28) \cup Shl(len \cup Flag(ap), COL_OFFSET) \cup col

genWAIT(cycles) == Shl(WAIT, 28) \cup cycles
genBUSDIR(dir) == Shl(SET_BUS_DIR, 28) \cup dir
genEND == {}
genZQ == Shl(Signals({1, 2, 5}), BANK_OFFSET + ROW_OFFSET)
genREF == Shl(Signals({0, 5}), BANK_OFFSET + ROW_OFFSET)
genREF_CONFIG(val, r) == Shl(r, 28) \cup val

-----------------------------------------------------------------------------
(* The hardware's view of a word.                                          *)

\* softMC.inc, casex: any opcode with its top bit set is a DDR instruction.
Opcode(w) ==
  LET code == Field(w, 28, 4)
  IN  CASE 3 \in code -> "DDR"
        [] code = {} -> "END"
        [] code = {0} -> "SET_BUSDIR"
        [] code = {1} -> "SET_TREFI"
        [] code = {0, 1} -> "SET_TRFC"
        [] code = {2} -> "WAIT"
        [] OTHER -> "UNKNOWN"

\* instr_decoder.v: which of the active-low command lines are driven low.
Lines(w) == { l \in {"cs", "ras", "cas", "we"} :
                (CASE l = "cs" -> 22 [] l = "ras" -> 21
                   [] l = "cas" -> 20 [] l = "we" -> 19) \notin w }

\* What the dispatcher and the DRAM make of a word: the lines, CKE, bank and
\* address of a command and the byte of a write, or the operand.
Decode(w) ==
  IF Opcode(w) # "DDR"
  THEN [op |-> Opcode(w),
        arg |-> Field(w, 0, CASE Opcode(w) = "WAIT" -> 10
                              [] Opcode(w) = "SET_BUSDIR" -> 2
                              [] OTHER -> 28)]
  ELSE [op |-> "DDR", low |-> Lines(w), cke |-> 24 \in w,
        bank |-> Field(w, 16, 3), address |-> Field(w, 0, 15),
        byte |-> Shl(Field(w, 25, 6), 2) \cup Field(w, 14, 2)]

-----------------------------------------------------------------------------
(* The calls and what DDR3 wants to see of them.                           *)
Call(fn, bank, addr, byte, ap, bl) ==
  [fn |-> fn, bank |-> bank, addr |-> addr, byte |-> byte, ap |-> ap, bl |-> bl]

Calls ==
  { Call("ACT", b, r, {}, FALSE, FALSE) : b \in Banks, r \in Rows }
    \cup { Call("PRE", b, {}, {}, all, FALSE) : b \in Banks, all \in BOOLEAN }
    \cup { Call("WR", b, c, p, ap, bl) :
             b \in Banks, c \in Cols, p \in Patterns, ap \in BOOLEAN, bl \in BOOLEAN }
    \cup { Call("RD", b, c, {}, ap, bl) :
             b \in Banks, c \in Cols, ap \in BOOLEAN, bl \in BOOLEAN }
    \cup { Call(fn, {}, {}, {}, FALSE, FALSE) : fn \in {"ZQ", "REF", "END"} }
    \cup { Call("WAIT", {}, n, {}, FALSE, FALSE) : n \in Cycles \ {{}} }
    \cup { Call("SET_BUSDIR", {}, d, {}, FALSE, FALSE) : d \in {{}, {1}} }
    \cup { Call(fn, {}, v, {}, FALSE, FALSE) : fn \in {"SET_TREFI", "SET_TRFC"}, v \in Vals }

Gen(c) ==
  CASE c.fn = "ACT" -> genACT(c.bank, c.addr)
    [] c.fn = "PRE" -> genPRE(c.bank, c.ap)
    [] c.fn = "WR" -> genWR(c.bank, c.addr, c.byte, c.ap, c.bl)
    [] c.fn = "RD" -> genRD(c.bank, c.addr, c.ap, c.bl)
    [] c.fn = "ZQ" -> genZQ
    [] c.fn = "REF" -> genREF
    [] c.fn = "END" -> genEND
    [] c.fn = "WAIT" -> genWAIT(c.addr)
    [] c.fn = "SET_BUSDIR" -> genBUSDIR(c.addr)
    [] c.fn = "SET_TREFI" -> genREF_CONFIG(c.addr, TREFI)
    [] c.fn = "SET_TRFC" -> genREF_CONFIG(c.addr, TRFC)

\* A gen function is called, and returns.
NoCall == Call("none", {}, {}, {}, FALSE, FALSE)
CodecInit == call = NoCall
CodecNext == IF call = NoCall THEN call' \in Calls ELSE call' = NoCall
CodecSpec == CodecInit /\ [][CodecNext]_call

DDR3 == [ACT |-> {"cs", "ras"}, PRE |-> {"cs", "ras", "we"}, WR |-> {"cs", "cas", "we"},
         RD |-> {"cs", "cas"}, ZQ |-> {"cs", "we"}, REF |-> {"cs", "ras", "cas"}]

\* Every instruction the library builds is taken for what it is: the opcode is
\* not disturbed by a write's pattern, which reaches into the opcode field; a
\* command drives the lines DDR3 prescribes for it with CKE high; bank, row and
\* column arrive where the DRAM reads them, auto-precharge and all-banks on
\* address line 10, burst length on line 12; the byte is put together again.
DecodesAsWritten ==
  call # NoCall =>
  LET d == Decode(Gen(call))
  IN  IF call.fn \notin DOMAIN DDR3
      THEN d = [op |-> call.fn, arg |-> call.addr]
      ELSE /\ d.op = "DDR" /\ d.cke
           /\ d.low = DDR3[call.fn]
           /\ call.fn \in {"ACT", "WR", "RD"} \/ (call.fn = "PRE" /\ ~call.ap)
                => d.bank = call.bank
           /\ call.fn = "ACT" => d.address = call.addr
           /\ call.fn \in {"WR", "RD"} => /\ Field(d.address, 0, 10) = call.addr
                                          /\ 12 \in d.address <=> call.bl
           /\ call.fn # "ACT" => (10 \in d.address <=> call.ap)
           /\ call.fn = "WR" => d.byte = call.byte
=============================================================================
