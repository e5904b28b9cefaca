----------------------------- MODULE IseqPath -----------------------------
(***************************************************************************)
(* The instruction path of softMC.v: the register of softMC_pcie_app.v     *)
(* that holds the host's next word, instr_receiver, the two instruction    *)
(* FIFOs, iseq_dispatcher with its two register stages, instr_dispatcher.  *)
(* Everything is clocked by one clock: a step is one rising edge, and the  *)
(* parts read each other's registers as they were before it.               *)
(*   app        = app_en_r/rx_data_r                                       *)
(*   fifo[l]    = the words in instruction FIFO l, oldest first            *)
(*   fresh[l]   = how many of them its output does not show yet            *)
(*   pipe[l]    = the register stage behind FIFO l, settled                *)
(***************************************************************************)
EXTENDS InstrReceiver, InstrDispatcher

CONSTANTS
  FifoDepth,    \* words an instruction FIFO holds (1024 in instr_fifo.xco)
  FifoLatency   \* clocks from a write until the FIFO's output shows it, less 1

ASSUME PathAssumption ==
  /\ FifoDepth \in Nat \ {0}
  /\ FifoLatency \in {0, 1}

VARIABLES app, fifo, fresh, dispatcher_busy_r, pipe

pathVars == <<receiverVars, dispatcherVars, app, fifo, fresh,
              dispatcher_busy_r, pipe>>

INSTANCE PipeReg WITH Data <- Instruction, NoData <- NoInstr

PathInit ==
  /\ ReceiverInit
  /\ DispatcherInit
  /\ app = NoInstr
  /\ fifo = [l \in Lanes |-> << >>]
  /\ fresh = [l \in Lanes |-> 0]
  /\ dispatcher_busy_r = FALSE
  /\ pipe = [l \in Lanes |-> PipeRegInit]

-----------------------------------------------------------------------------
(* The program the path holds, in the order the host wrote it: what the    *)
(* lanes hold, taken alternately from the lane whose turn it is, and then  *)
(* the word on its way from the receiver to a FIFO.                        *)

Head0 == [l \in Lanes |-> pipe[l].first]
Loaded == \E l \in Lanes : pipe[l].first # NoInstr
Lane(l) == Content(pipe[l]) \o fifo[l]

\* The lane whose turn it is: an even wait count ends in slot 1.
Turn == IF ~Loaded THEN 0
        ELSE IF wait_cycles_r > 0 /\ wait_cycles_r % 2 = 0
             THEN 1 - instr_src_r ELSE instr_src_r
NextLane == IF Lane(Turn) = << >> THEN 1 - Turn ELSE Turn

Merge(a, b) ==
  [k \in 1..(Len(a) + Len(b)) |->
     LET j == (k + 1) \div 2
     IN  IF k % 2 = 1
         THEN IF j <= Len(a) THEN a[j] ELSE NoInstr
         ELSE IF j <= Len(b) THEN b[j] ELSE NoInstr]

Dealt == Merge(Lane(NextLane), Lane(1 - NextLane))
Program == Dealt \o AsSeq(instr_r)
Owed == IF wait_cycles_r > 1 THEN wait_cycles_r - 1 ELSE 0

-----------------------------------------------------------------------------
\* softMC_pcie_app.v: the word the channel offers (rx, NoInstr if none) is
\* registered once the held one has been taken.
RxDataRen == app = NoInstr \/ app_ack(app, ~dispatcher_busy_r)
AppNext(rx) == IF RxDataRen THEN rx ELSE app

\* instr_fifo: the output shows a word, a read takes it, a write into a full
\* FIFO is dropped.
Shows(l) == Len(fifo[l]) > fresh[l]
FifoRd(l) == pipe[l].ready /\ dispatcher_busy_r
FifoWr(l) == sel_fifo = l /\ instr_r # NoInstr

FifoNextRereads(l) ==
  fifo[l] \o (IF FifoWr(l) /\ Len(fifo[l]) < FifoDepth THEN <<instr_r>> ELSE << >>)
FifoNext(l) ==
  (IF FifoRd(l) /\ Shows(l) THEN Tail(fifo[l]) ELSE fifo[l])
    \o (IF FifoWr(l) /\ Len(fifo[l]) < FifoDepth THEN <<instr_r>> ELSE << >>)

FifoClk ==
  /\ fifo' = [l \in Lanes |-> FifoNext(l)]
  /\ fresh' = [l \in Lanes |-> IF FifoWr(l) /\ Len(fifo[l]) < FifoDepth
                               THEN FifoLatency ELSE 0]
FifoRst ==
  /\ fifo' = [l \in Lanes |-> << >>]
  /\ fresh' = [l \in Lanes |-> 0]

\* iseq_dispatcher.v: busy from process_iseq until both FIFOs and both
\* register stages have nothing to show.  rst masks process_iseq only.
Remains == \E l \in Lanes : Shows(l) \/ pipe[l].first # NoInstr
BusyNextIgnoresStages(rst) ==
  \/ ~rst /\ process_iseq_r
  \/ dispatcher_busy_r /\ (\E l \in Lanes : Shows(l))
BusyNext(rst) == \/ ~rst /\ process_iseq_r
                 \/ dispatcher_busy_r /\ Remains

PipeIn(l) == IF dispatcher_busy_r /\ Shows(l) THEN Head(fifo[l]) ELSE NoInstr

PipeClk(ack) ==
  pipe' = [l \in Lanes |-> Settle(PipeRegClk(pipe[l], ack[l], PipeIn(l)))]
PipeRst(ack) ==
  pipe' = [l \in Lanes |-> PipeRegRst(pipe[l], ack[l])]

-----------------------------------------------------------------------------
\* One clock of the path.  rx is the host's word, maint the maintenance
\* handler's, lock its periodic_read_lock.
PathClk(rx, maint, dfi_ready, lock) ==
  /\ app' = AppNext(rx)
  /\ ReceiverClk(app, maint, ~dispatcher_busy_r)
  /\ FifoClk
  /\ dispatcher_busy_r' = BusyNext(FALSE)
  /\ PipeClk(en_ack(Head0, dfi_ready))
  /\ DispatcherClk(Head0, dfi_ready, lock)

\* One clock with rst high.  The host's word register has no reset.
PathRst(rx, dfi_ready, lock) ==
  /\ app' = AppNext(rx)
  /\ ReceiverRst
  /\ FifoRst
  /\ dispatcher_busy_r' = BusyNext(TRUE)
  /\ PipeRst(en_ack(Head0, dfi_ready))
  /\ DispatcherRst(Head0, dfi_ready, lock)

-----------------------------------------------------------------------------
\* Types of the path's registers.
PathTypeOK ==
  /\ state_r \in {"IDLE", "APP", "MAINT"}
  /\ process_iseq_r \in BOOLEAN
  /\ sel_fifo \in Lanes
  /\ instr_r \in Instruction \cup {NoInstr}
  /\ wait_cycles_r \in 0 .. WAIT_MOD - 1
  /\ instr_src_r \in Lanes
  /\ bus_write_r \in BOOLEAN
  /\ pr_rd_ack_r \in BOOLEAN
  /\ burst_r \in [rd : BOOLEAN, odd : BOOLEAN, wr : BOOLEAN]
  /\ app \in Instruction \cup {NoInstr}
  /\ fifo \in [Lanes -> Seq(Instruction)]
  /\ fresh \in [Lanes -> {0, 1}]
  /\ dispatcher_busy_r \in BOOLEAN
  /\ pipe \in [Lanes -> PipeRegs]

\* A register stage not ready has both its registers full, or its output one.
StagesOrdered ==
  \A l \in Lanes : /\ PipeRegInv(pipe[l])
                   /\ pipe[l].ready => pipe[l].second = NoInstr

\* instr_receiver.v ignores the FIFOs' full flags, so a word written into a
\* full FIFO disappears.  None does while a sequence fits the two FIFOs.
NoInstructionDropped ==
  \A l \in Lanes : FifoWr(l) => Len(fifo[l]) < FifoDepth

\* The receiver fills the FIFOs only while the dispatcher is idle, and when it
\* starts a sequence nothing of the previous one is left in a FIFO or a stage
\* (iseq_dispatcher.v's busy must not fall before the last word has shown).
OneSequenceAtATime ==
  /\ state_r # "IDLE" => ~dispatcher_busy_r
  /\ MayStart(~dispatcher_busy_r) => Program = << >>

\* The two lanes, the wait counter and instr_src_r together issue the host's
\* instructions in program order, none twice, none lost, each WAIT keeping
\* exactly its slots.
InOrder == INSTANCE InOrderDispatch
             WITH program <- Program, owed <- Owed, slots <- dfi.cmd
IssuesInOrder == InOrder!Spec

=============================================================================
