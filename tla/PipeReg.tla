------------------------------ MODULE PipeReg ------------------------------
(***************************************************************************)
(* pipe_reg.v: the two-entry register stage between an instruction FIFO    *)
(* and the instruction dispatcher.  A data register and its valid bit are  *)
(* one value of Slot: NoData is "valid bit low".  The registers are a      *)
(* record, so that a composing module can keep one per lane:               *)
(*   ready = r_ready, first = r_valid1/r_data1, second = r_valid2/r_data2. *)
(* Inputs of a clock: ready_in, and in = valid_in/data_in.                 *)
(***************************************************************************)
EXTENDS Naturals, Sequences

CONSTANTS Data, NoData

ASSUME NoDataAssumption == NoData \notin Data

Slot == Data \cup {NoData}

PipeRegs == [ready : BOOLEAN, first : Slot, second : Slot]

\* Power-up after the reset has lasted two clocks or more.
PipeRegInit == [ready |-> TRUE, first |-> NoData, second |-> NoData]

\* The register that drives data_out can take a new value in this clock.
first_buf_ready(p, ready_in) == ready_in \/ p.first = NoData

-----------------------------------------------------------------------------
(* Mutated forms of the clock edge, used to test the properties.           *)

\* r_data2 is not filled when the output stalls.
PipeRegClkDropsSecond(p, ready_in, in) ==
  [ready  |-> first_buf_ready(p, ready_in),
   first  |-> IF p.ready /\ first_buf_ready(p, ready_in) THEN in
              ELSE IF ~p.ready /\ ready_in THEN p.second ELSE p.first,
   second |-> NoData]

\* r_ready follows ready_in alone: an empty stage is never ready again.
PipeRegClkLateReady(p, ready_in, in) ==
  [ready  |-> ready_in,
   first  |-> IF p.ready /\ first_buf_ready(p, ready_in) THEN in
              ELSE IF ~p.ready /\ ready_in THEN p.second ELSE p.first,
   second |-> IF p.ready /\ ~first_buf_ready(p, ready_in) THEN in ELSE p.second]

-----------------------------------------------------------------------------
\* One rising edge with rst low.
PipeRegClk(p, ready_in, in) ==
  [ready  |-> first_buf_ready(p, ready_in),
   first  |-> IF p.ready /\ first_buf_ready(p, ready_in) THEN in
              ELSE IF ~p.ready /\ ready_in THEN p.second
              ELSE p.first,
   second |-> IF p.ready /\ ~first_buf_ready(p, ready_in) THEN in ELSE p.second]

\* One rising edge with rst high: the control assignment of r_ready stands
\* after the if/else and so overrides the reset value.
PipeRegRst(p, ready_in) ==
  [ready |-> first_buf_ready(p, ready_in), first |-> NoData, second |-> NoData]

\* What crosses the input port in a clock (valid_in while ready_out is high),
\* and the output port (valid_out while ready_in is high).
Accepted(p, in) == IF p.ready THEN in ELSE NoData
Delivered(p, ready_in) == IF ready_in THEN p.first ELSE NoData

-----------------------------------------------------------------------------
\* The data the stage holds, oldest first.  r_data2 is live only while
\* r_ready is low: afterwards it keeps a stale copy.
AsSeq(s) == IF s = NoData THEN << >> ELSE << s >>
Content(p) == IF ~p.ready /\ p.first # NoData /\ p.second # NoData
              THEN << p.first, p.second >>
              ELSE AsSeq(p.first)

\* The registers without the stale copy: SettleSound (PipeRegProofs) shows that
\* a composing module may keep these instead, which halves its state.
Settle(p) == IF p.ready THEN [p EXCEPT !.second = NoData] ELSE p

\* r_ready falls only over a full output register.
PipeRegInv(p) == p.ready \/ p.first # NoData \/ p.second = NoData
=============================================================================
