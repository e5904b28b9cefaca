---------------------------- MODULE PipeRegSpec ----------------------------
(***************************************************************************)
(* pipe_reg.v in an arbitrary environment: every clock the environment     *)
(* chooses rst, ready_in and what it offers at the input.  took and gave   *)
(* record what crossed the two ports in the last clock.                    *)
(***************************************************************************)
EXTENDS PipeReg

VARIABLES reg, took, gave

regVars == <<reg, took, gave>>

RegInit == reg = PipeRegInit /\ took = NoData /\ gave = NoData

RegClk(ready_in, in) ==
  /\ reg' = PipeRegClk(reg, ready_in, in)
  /\ took' = Accepted(reg, in)
  /\ gave' = Delivered(reg, ready_in)

RegRst(ready_in) ==
  /\ reg' = PipeRegRst(reg, ready_in)
  /\ took' = NoData
  /\ gave' = NoData

RegNext == \/ \E ready_in \in BOOLEAN, in \in Slot : RegClk(ready_in, in)
           \/ \E ready_in \in BOOLEAN : RegRst(ready_in)

RegSpec == RegInit /\ [][RegNext]_regVars

-----------------------------------------------------------------------------
\* Types of the registers.
RegTypeOK == reg \in PipeRegs /\ took \in Slot /\ gave \in Slot

\* pipe_reg.v deasserts ready_out only over a full output register (or, one
\* clock after a reset, with both registers empty), so that the datum it then
\* keeps in r_data2 is never the older of the two.
StageInv == RegTypeOK /\ PipeRegInv(reg)

\* The stage is a two-place FIFO: pipe_reg.v may switch between its two
\* registers and keep stale bits in r_data2 without losing, repeating or
\* overtaking a datum that crossed its input port.
Fifo == INSTANCE TwoPlaceFifo WITH queue <- Content(reg)
ImplementsFifo == Fifo!Spec
=============================================================================
