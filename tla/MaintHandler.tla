--------------------------- MODULE MaintHandler ---------------------------
(***************************************************************************)
(* maint_handler.v: turns a maintenance request (periodic read, ZQ         *)
(* calibration, auto-refresh) into an instruction sequence for the         *)
(* receiver, one word per acknowledge.                                     *)
(*   process     = pr_rd_process_r, zq_process_r, autoref_process_r        *)
(*   maint_state = index of the word to send; MAINT_FIN is the END         *)
(* Inputs of a clock: the three requests, cur_bus_dir, maint_ack,          *)
(* pr_rd_ack (a read was dispatched) and trfc.                             *)
(***************************************************************************)
EXTENDS Instr

CONSTANTS DEF_TRP, DEF_TRCD, DEF_TRAS, DEF_TZQCS   \* memory clocks

ASSUME TimingAssumption ==
  /\ {DEF_TRP, DEF_TRCD, DEF_TRAS, DEF_TZQCS} \subseteq Nat
  /\ DEF_TRCD <= DEF_TRAS

VARIABLES process, maint_state, lock_pr_rd_r, cur_bus_dir_r

handlerVars == <<process, maint_state, lock_pr_rd_r, cur_bus_dir_r>>

HandlerInit ==
  /\ process = [pr_rd |-> FALSE, zq |-> FALSE, autoref |-> FALSE]
  /\ maint_state = 0
  /\ lock_pr_rd_r = FALSE
  /\ cur_bus_dir_r = BUS_DIR_READ

-----------------------------------------------------------------------------
MAINT_FIN == 10
PR_RD_IO == 0
PR_RD_WAIT_PRE2 == 8

\* The words of the three sequences, indexed by maint_state + 1.
PeriodicRead ==
  << Maint("BUSDIR", BUS_DIR_READ), Maint("PRE", 0), Maint("WAIT", DEF_TRP),
     Maint("ACT", 0), Maint("WAIT", DEF_TRCD), Maint("RD", 0),
     Maint("WAIT", DEF_TRAS - DEF_TRCD), Maint("PRE", 0),
     Maint("WAIT", DEF_TRP), Maint("BUSDIR", BUS_DIR_WRITE) >>
ZQCalibration ==
  << Maint("PREA", 0), Maint("WAIT", DEF_TRP), Maint("ZQ", 0),
     Maint("WAIT", DEF_TZQCS) >>
AutoRefresh(trfc) ==
  << Maint("PREA", 0), Maint("WAIT", DEF_TRP), Maint("REF", 0),
     Maint("WAIT", trfc) >>

Sequence(trfc) == IF process.pr_rd THEN PeriodicRead
                  ELSE IF process.zq THEN ZQCalibration
                  ELSE AutoRefresh(trfc)

maint_process == process.pr_rd \/ process.zq \/ process.autoref

\* maint_instr_en/maint_instr.
MaintWord(trfc) ==
  IF ~maint_process THEN NoInstr
  ELSE IF maint_state < Len(Sequence(trfc)) THEN Sequence(trfc)[maint_state + 1]
  ELSE Maint("END", 0)

\* MAINT_FIN lasts one clock and does not look at maint_ack.
Finishing == maint_process /\ maint_state = MAINT_FIN
zq_ack == Finishing /\ ~process.pr_rd /\ process.zq
autoref_ack == Finishing /\ ~process.pr_rd /\ ~process.zq

-----------------------------------------------------------------------------
\* The handler is free: requests by priority.
Enter(pr_rd_req, zq_req, autoref_req) ==
  LET pr == pr_rd_req /\ ~lock_pr_rd_r
      zq == ~pr /\ zq_req
      ar == ~pr /\ ~zq /\ autoref_req
  IN  [next |-> [pr_rd |-> pr, zq |-> zq, autoref |-> ar],
       state |-> IF pr \/ zq \/ ar THEN 0 ELSE maint_state]

\* The word after the current one; the write direction is restored only if it
\* was found.
StateNextAlwaysRead(ack, trfc) ==
  IF ~ack \/ maint_state >= Len(Sequence(trfc)) THEN maint_state
  ELSE IF process.pr_rd /\ maint_state = PR_RD_WAIT_PRE2 THEN MAINT_FIN
  ELSE IF maint_state + 1 = Len(Sequence(trfc)) THEN MAINT_FIN
  ELSE maint_state + 1
StateNextRunsOn(ack, trfc) == IF ack THEN maint_state + 1 ELSE maint_state
StateNext(ack, trfc) ==
  IF ~ack \/ maint_state >= Len(Sequence(trfc)) THEN maint_state
  ELSE IF process.pr_rd /\ maint_state = PR_RD_WAIT_PRE2
          /\ cur_bus_dir_r = BUS_DIR_READ THEN MAINT_FIN
  ELSE IF maint_state + 1 = Len(Sequence(trfc)) THEN MAINT_FIN
  ELSE maint_state + 1

\* Only the flag of the sequence that finishes is cleared.
AfterFin ==
  IF process.pr_rd THEN [process EXCEPT !.pr_rd = FALSE]
  ELSE IF process.zq THEN [process EXCEPT !.zq = FALSE]
  ELSE [process EXCEPT !.autoref = FALSE]

\* lock_pr_rd_ns: from the end of a periodic read's sequence until a read has
\* been dispatched, reads belong to the controller.
LockNextNever(pr_rd_ack) == FALSE
LockNextSticky(pr_rd_ack) == lock_pr_rd_r \/ (Finishing /\ process.pr_rd)
LockNext(pr_rd_ack) ==
  ~pr_rd_ack /\ (lock_pr_rd_r \/ (Finishing /\ process.pr_rd))

\* The process flags have no reset; the other registers do.
HandlerClk(pr_rd_req, zq_req, autoref_req, cur_bus_dir, ack, pr_rd_ack, trfc, rst) ==
  LET enter == Enter(pr_rd_req, zq_req, autoref_req)
      next  == IF ~maint_process THEN enter.next
               ELSE IF Finishing THEN AfterFin ELSE process
  IN  /\ process' = [next EXCEPT !.pr_rd = @ /\ ~pr_rd_ack]
      /\ maint_state' = IF rst THEN 0
                        ELSE IF maint_process THEN StateNext(ack, trfc) ELSE enter.state
      /\ lock_pr_rd_r' = (~rst /\ LockNext(pr_rd_ack))
      /\ cur_bus_dir_r' = IF rst THEN BUS_DIR_READ
                          ELSE IF process.pr_rd /\ maint_state = PR_RD_IO
                          THEN cur_bus_dir ELSE cur_bus_dir_r
=============================================================================
