-------------------------- MODULE InstrDispatcher --------------------------
(***************************************************************************)
(* instr_dispatcher.v: every clock it can issue two instructions, one in   *)
(* each of the two DFI command slots (the memory clock is twice as fast).  *)
(* instr_src_r says which lane feeds slot 0; the other feeds slot 1.  A    *)
(* WAIT n occupies n slots; wait_cycles_r counts them down by two.         *)
(*   burst_r  = read_burst_r, read_burst_odd_r, write_burst_r              *)
(*   aref_r   = the registered aref_set_interval/aref_set_trfc outputs     *)
(*   dfi      = the combinational outputs of the last clock: the two       *)
(*              command slots and the read/write data enables              *)
(* Inputs of a clock: head[lane], the word each register stage presents    *)
(* (NoInstr if none), dfi_ready and periodic_read_lock.  CKE is high in    *)
(* every word the host library and the handler produce, so the cke         *)
(* registers stay high and are left out, as is the write data itself.      *)
(***************************************************************************)
EXTENDS Instr

VARIABLES wait_cycles_r, instr_src_r, bus_write_r, pr_rd_ack_r, burst_r,
          aref_r, dfi

dispatcherVars == <<wait_cycles_r, instr_src_r, bus_write_r, pr_rd_ack_r,
                    burst_r, aref_r, dfi>>

NoBurst == [rd |-> FALSE, odd |-> FALSE, wr |-> FALSE]
NoArefSet == [interval |-> NoInstr, trfc |-> NoInstr]
DfiIdle == [cmd |-> <<NoInstr, NoInstr>>,
            rddata_en |-> FALSE, rddata_en_odd |-> FALSE, wrdata_en |-> FALSE]

DispatcherInit ==
  /\ wait_cycles_r = 0
  /\ instr_src_r = 0
  /\ bus_write_r = FALSE
  /\ pr_rd_ack_r = FALSE
  /\ burst_r = NoBurst
  /\ aref_r = NoArefSet
  /\ dfi = DfiIdle

-----------------------------------------------------------------------------
LaneOf(slot) == IF slot = 0 THEN instr_src_r ELSE 1 - instr_src_r

Slot0Ready(dfi_ready) == dfi_ready /\ wait_cycles_r <= 1

\* block_other_slot: a WAIT of more than one cycle in slot 0 covers slot 1.
BlocksNever(head, dfi_ready) == FALSE
Blocks(head, dfi_ready) ==
  LET i == head[LaneOf(0)]
  IN  Slot0Ready(dfi_ready) /\ i.op = "WAIT" /\ Cycles(i) > 1

Slot1ReadyLate(head, dfi_ready) ==
  ~Blocks(head, dfi_ready) /\ dfi_ready /\ wait_cycles_r <= 1
Slot1Ready(head, dfi_ready) ==
  ~Blocks(head, dfi_ready) /\ dfi_ready /\ wait_cycles_r <= 2

en_ack(head, dfi_ready) ==
  [l \in Lanes |-> IF l = LaneOf(0) THEN Slot0Ready(dfi_ready)
                                    ELSE Slot1Ready(head, dfi_ready)]

\* The instructions executed in this clock, slot 0 and slot 1.
Issue(head, dfi_ready) ==
  << IF Slot0Ready(dfi_ready) THEN head[LaneOf(0)] ELSE NoInstr,
     IF Slot1Ready(head, dfi_ready) THEN head[LaneOf(1)] ELSE NoInstr >>

\* The assignments of slot 1 stand after those of slot 0 and override them.
Latest(out, op) == IF out[2].op = op THEN out[2]
                   ELSE IF out[1].op = op THEN out[1] ELSE NoInstr

WaitNextUnderflows(out) ==
  CASE out[2].op = "WAIT" -> Cycles(out[2])
    [] out[2].op # "WAIT" /\ out[1].op = "WAIT" -> (Cycles(out[1]) - 1) % WAIT_MOD
    [] OTHER -> wait_cycles_r - 2
WaitNext(out) ==
  CASE out[2].op = "WAIT" -> Cycles(out[2])
    [] out[2].op # "WAIT" /\ out[1].op = "WAIT" -> (Cycles(out[1]) - 1) % WAIT_MOD
    [] OTHER -> IF wait_cycles_r >= 2 THEN wait_cycles_r - 2 ELSE 0

\* After a WAIT of an even length the next slot is fed by the other lane; an
\* empty dispatcher starts from lane 0.
SrcNextNoFlip(head, out) ==
  IF \A l \in Lanes : head[l] = NoInstr THEN 0 ELSE instr_src_r
SrcNext(head, out) ==
  IF \E k \in 1..2 : out[k].op = "WAIT" /\ Cycles(out[k]) % 2 = 0
  THEN 1 - instr_src_r
  ELSE IF \A l \in Lanes : head[l] = NoInstr THEN 0 ELSE instr_src_r

BusWriteNext(out) ==
  LET b == Latest(out, "BUSDIR")
  IN  IF b = NoInstr THEN bus_write_r ELSE b.arg = BUS_DIR_WRITE

Issues(out, op) == \E k \in 1..2 : out[k].op = op

BurstNext(out, lock) == [rd  |-> Issues(out, "RD"),
                         odd |-> Issues(out, "RD") /\ lock,
                         wr  |-> Issues(out, "WR")]

\* A burst enables the data path in its command's clock and in the next one.
DfiOut(out, lock) ==
  [cmd |-> out,
   rddata_en     |-> burst_r.rd \/ Issues(out, "RD"),
   rddata_en_odd |-> IF Issues(out, "RD") THEN lock ELSE burst_r.odd,
   wrdata_en     |-> burst_r.wr \/ Issues(out, "WR")]

DispatcherClk(head, dfi_ready, lock) ==
  LET out == Issue(head, dfi_ready)
  IN  /\ wait_cycles_r' = WaitNext(out)
      /\ instr_src_r' = SrcNext(head, out)
      /\ bus_write_r' = BusWriteNext(out)
      /\ pr_rd_ack_r' = Issues(out, "RD")
      /\ burst_r' = BurstNext(out, lock)
      /\ aref_r' = [interval |-> Latest(out, "SET_TREFI"),
                    trfc |-> Latest(out, "SET_TRFC")]
      /\ dfi' = DfiOut(out, lock)

\* A clock with rst high: the outputs and pr_rd_ack_r are not gated by rst.
DispatcherRst(head, dfi_ready, lock) ==
  LET out == Issue(head, dfi_ready)
  IN  /\ wait_cycles_r' = 0
      /\ instr_src_r' = 0
      /\ bus_write_r' = FALSE
      /\ pr_rd_ack_r' = Issues(out, "RD")
      /\ burst_r' = NoBurst
      /\ aref_r' = NoArefSet
      /\ dfi' = DfiOut(out, lock)
=============================================================================
