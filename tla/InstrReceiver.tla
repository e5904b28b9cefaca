--------------------------- MODULE InstrReceiver ---------------------------
(***************************************************************************)
(* instr_receiver.v: takes one instruction sequence at a time from the     *)
(* host (app) or from the maintenance handler (maint), deals it out to     *)
(* two FIFOs alternately and tells the dispatcher when it is complete.     *)
(*   instr_r = instr_en_r/instr_r, the write port of the FIFOs.            *)
(* Inputs of a clock: the two instruction ports and dispatcher_ready.      *)
(***************************************************************************)
EXTENDS Instr

VARIABLES state_r, process_iseq_r, sel_fifo, instr_r

receiverVars == <<state_r, process_iseq_r, sel_fifo, instr_r>>

ReceiverInit ==
  /\ state_r = "IDLE"
  /\ process_iseq_r = FALSE
  /\ sel_fifo = 0
  /\ instr_r = NoInstr

MayStartWhileBusy(dispatcher_ready) == state_r = "IDLE" /\ ~process_iseq_r
MayStart(dispatcher_ready) ==
  state_r = "IDLE" /\ dispatcher_ready /\ ~process_iseq_r

\* The combinational acknowledges.  The host has priority over maintenance.
app_ack(app, dispatcher_ready) ==
  state_r = "APP" \/ (MayStart(dispatcher_ready) /\ app # NoInstr)
maint_ack(app, maint, dispatcher_ready) ==
  \/ state_r = "MAINT"
  \/ MayStart(dispatcher_ready) /\ app = NoInstr /\ maint # NoInstr

\* The FIFO select toggles on every word written and returns to FIFO 0
\* in the clock that starts the dispatcher.
SelNextNoToggle == IF process_iseq_r THEN 0 ELSE sel_fifo
SelNext == IF process_iseq_r THEN 0
           ELSE IF instr_r # NoInstr THEN 1 - sel_fifo ELSE sel_fifo

Load(next_state, process, instr) ==
  /\ state_r' = next_state
  /\ process_iseq_r' = process
  /\ instr_r' = instr
  /\ sel_fifo' = SelNext

Stay(app, maint, dispatcher_ready) ==
  /\ state_r = "IDLE"
  /\ ~MayStart(dispatcher_ready) \/ (app = NoInstr /\ maint = NoInstr)
  /\ Load("IDLE", FALSE, NoInstr)

\* The first word of a sequence is forwarded without looking at its opcode.
StartApp(app, dispatcher_ready) ==
  /\ MayStart(dispatcher_ready)
  /\ app # NoInstr
  /\ Load("APP", FALSE, app)

StartMaint(app, maint, dispatcher_ready) ==
  /\ MayStart(dispatcher_ready)
  /\ app = NoInstr /\ maint # NoInstr
  /\ Load("MAINT", FALSE, maint)

\* END closes the sequence; the host's END is itself dispatched ...
TakeApp(app) ==
  /\ state_r = "APP"
  /\ IF app.op = "END" THEN Load("IDLE", TRUE, app)
                       ELSE Load("APP", FALSE, app)

\* ... and the maintenance handler's is not.
TakeMaint(maint) ==
  /\ state_r = "MAINT"
  /\ IF maint.op = "END" THEN Load("IDLE", TRUE, NoInstr)
                         ELSE Load("MAINT", FALSE, maint)

ReceiverClk(app, maint, dispatcher_ready) ==
  \/ Stay(app, maint, dispatcher_ready)
  \/ StartApp(app, dispatcher_ready)
  \/ StartMaint(app, maint, dispatcher_ready)
  \/ TakeApp(app)
  \/ TakeMaint(maint)

ReceiverRst ==
  /\ state_r' = "IDLE"
  /\ process_iseq_r' = FALSE
  /\ sel_fifo' = 0
  /\ instr_r' = NoInstr
=============================================================================
