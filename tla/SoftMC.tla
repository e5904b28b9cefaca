------------------------------ MODULE SoftMC ------------------------------
(***************************************************************************)
(* softMC.v: the instruction path together with the maintenance timers and *)
(* the maintenance handler, which share the receiver and the dispatcher    *)
(* with the host.  The PHY is external: it raises dfi_init_complete once   *)
(* after reset.  The read-back side is modelled apart (ReadBack), so       *)
(* dfi_ready is high.                                                      *)
(*   sent    = the words of its current sequence the host has delivered    *)
(*   app_dir = history: the bus direction the host set last                *)
(*   late    = history: auto-refreshes issued since the host disabled them *)
(*             (RefreshOn while it has not)                                *)
(***************************************************************************)
EXTENDS IseqPath, MaintHandler, MaintCtrl

CONSTANTS
  Programs,    \* bound: the sequences the host sends, over and over
  MayReset     \* whether rst may rise once the system runs

ASSUME ProgramsAssumption ==
  /\ \A p \in Programs :
       p \in Seq([op : Opcodes, arg : Nat, from : {"app"}]) /\ p # << >>
  /\ MayReset \in BOOLEAN

VARIABLES dfi_init_complete, sent, app_dir, late

vars == <<pathVars, handlerVars, ctrlVars, dfi_init_complete, sent, app_dir, late>>

Init ==
  /\ PathInit
  /\ HandlerInit
  /\ CtrlInit
  /\ dfi_init_complete = FALSE
  /\ sent = << >>
  /\ app_dir = BUS_DIR_READ
  /\ late = 0

-----------------------------------------------------------------------------
\* The host delivers the words of one of its sequences, then of another.
WordsAfter(s) ==
  { p[Len(s) + 1] : p \in { q \in Programs : /\ Len(q) > Len(s)
                                             /\ SubSeq(q, 1, Len(s)) = s } }
Deliver(rx) ==
  sent' = IF rx = NoInstr THEN sent
          ELSE IF Append(sent, rx) \in Programs THEN << >> ELSE Append(sent, rx)

\* What the history variables see of a clock's commands.
RefreshOn == -1
Commands(op, from) == \E k \in 1..2 : dfi'.cmd[k].op = op /\ dfi'.cmd[k].from = from
Observe ==
  LET dirs == { k \in 1..2 : dfi'.cmd[k].op = "BUSDIR" /\ dfi'.cmd[k].from = "app" }
  IN  /\ app_dir' = IF dirs = {} THEN app_dir
                    ELSE IF 2 \in dirs THEN dfi'.cmd[2].arg ELSE dfi'.cmd[1].arg
      /\ late' = IF Commands("SET_TREFI", "app")
                 THEN IF Latest(dfi'.cmd, "SET_TREFI").arg = 0 THEN 0 ELSE RefreshOn
                 ELSE IF late \in 0..1 /\ Commands("REF", "maint") THEN late + 1 ELSE late

cur_bus_dir == IF bus_write_r THEN BUS_DIR_WRITE ELSE BUS_DIR_READ
MaintAcked == maint_ack(app, MaintWord(aref_trfc), ~dispatcher_busy_r)

MaintClk(rst) ==
  /\ HandlerClk(periodic_rd_request_r, zq_request(dfi_init_complete),
                autoref_request_r, cur_bus_dir, MaintAcked, pr_rd_ack_r, aref_trfc, rst)
  /\ CtrlClk(dfi_init_complete, pr_rd_ack_r, zq_ack, autoref_ack, aref_r, rst)

Clk == \E rx \in {NoInstr} \cup WordsAfter(sent) :
         /\ rx # NoInstr => RxDataRen
         /\ PathClk(rx, MaintWord(aref_trfc), TRUE, lock_pr_rd_r)
         /\ MaintClk(FALSE)
         /\ dfi_init_complete' \in {dfi_init_complete, TRUE}
         /\ Deliver(rx)
         /\ Observe

\* rst also restarts the PHY.
Rst == /\ MayReset
       /\ PathRst(NoInstr, TRUE, lock_pr_rd_r)
       /\ MaintClk(TRUE)
       /\ dfi_init_complete' = FALSE
       /\ app_dir' = BUS_DIR_READ
       /\ late' = 0
       /\ UNCHANGED sent

Next == Clk \/ Rst

Spec == Init /\ [][Next]_vars /\ WF_vars(Clk)

-----------------------------------------------------------------------------
\* Types of the maintenance registers and of the path's.
SoftMCTypeOK ==
  /\ PathTypeOK
  /\ process \in [pr_rd : BOOLEAN, zq : BOOLEAN, autoref : BOOLEAN]
  /\ maint_state \in 0 .. MAINT_FIN
  /\ lock_pr_rd_r \in BOOLEAN
  /\ cur_bus_dir_r \in {BUS_DIR_READ, BUS_DIR_WRITE}
  /\ maint_prescaler_r \in 0 .. MAINT_PRESCALER_DIV
  /\ periodic_rd_timer_r \in 0 .. PERIODIC_RD_TIMER_DIV
  /\ zq_timer_r \in 0 .. ZQ_TIMER_DIV

\* Who may act when, at the handover between handler, receiver and dispatcher:
\* the receiver fills the FIFOs only while the dispatcher is idle; a loaded
\* stage, and the acknowledge of a read just dispatched, keep the dispatcher
\* busy; at most one maintenance sequence is under way, and the handler is past
\* its first word exactly while the receiver is taking it.
AtMostOneSequence ==
  /\ ~(process.pr_rd /\ process.zq)
  /\ ~(process.pr_rd /\ process.autoref)
  /\ ~(process.zq /\ process.autoref)
HandlerInStep ==
  /\ state_r = "MAINT" => maint_process /\ maint_state # 0
  /\ maint_process =>
       \/ maint_state = 0
       \/ /\ state_r = "MAINT"
          /\ maint_state < Len(Sequence(aref_trfc)) \/ maint_state = MAINT_FIN
Handover ==
  /\ StagesOrdered
  /\ state_r # "IDLE" => ~dispatcher_busy_r /\ ~process_iseq_r
  /\ Loaded => dispatcher_busy_r
  /\ pr_rd_ack_r => dispatcher_busy_r
  /\ AtMostOneSequence
  /\ HandlerInStep

\* While the receiver is in the middle of a maintenance sequence the handler is
\* still sending that one and no other: the acknowledge of an earlier read,
\* which clears pr_rd_process_r (maint_handler.v:323), must not cut a sequence
\* off and leave the receiver waiting for ever, deaf to the host.
MaintSequenceUninterrupted ==
  state_r = "MAINT" => \E k \in {"pr_rd", "zq", "autoref"} :
    \A j \in {"pr_rd", "zq", "autoref"} : process[j] <=> j = k

\* A read is tagged as the controller's own (rddata_en_odd, which keeps its data
\* from the host) exactly when the maintenance handler issued it, although the
\* tag is a lock that is set and cleared clocks away from the read itself.
PeriodicReadTagged ==
  \A k \in 1..2 : dfi.cmd[k].op = "RD" =>
    (dfi.rddata_en_odd <=> dfi.cmd[k].from = "maint")

\* The host finds the bus in the direction it set: a periodic read in between
\* saves and restores it.
BusDirectionKept ==
  [][\A k \in 1..2 : dfi'.cmd[k].op \in {"RD", "WR"} /\ dfi'.cmd[k].from = "app" =>
       (bus_write_r' <=> app_dir' = BUS_DIR_WRITE)]_vars

\* A host whose sequences turn the bus before every access finds it turned: the
\* BUSDIR is executed before the read or write that follows it in the sequence.
AccessAfterBusdir ==
  \A k \in 1..2 : dfi.cmd[k].from = "app" =>
    /\ dfi.cmd[k].op = "WR" => bus_write_r
    /\ dfi.cmd[k].op = "RD" => ~bus_write_r

\* Writing 0 to tREFI stops auto-refresh, which is off after reset as well: at
\* most the one refresh that was already on its way is still issued.
RefreshStops == late <= 1

\* Once the PHY is up every maintenance request is served or withdrawn.  The
\* periodic read, the handler's first choice, needs only a host that leaves the
\* receiver without a word again and again; calibration and auto-refresh, which
\* give way to it, need a host that has fallen silent between two sequences.
HostPauses == MayStart(~dispatcher_busy_r) /\ app = NoInstr
HostSilent == state_r # "APP" /\ app = NoInstr
MaintenanceServed ==
  <>[]dfi_init_complete =>
    /\ []<>HostPauses => periodic_rd_request_r ~> ~periodic_rd_request_r
    /\ <>[]HostSilent => /\ zq_request_r ~> (zq_ack \/ ~zq_request_r)
                         /\ autoref_request_r ~> ~autoref_request_r
=============================================================================
