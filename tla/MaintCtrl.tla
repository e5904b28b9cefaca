----------------------------- MODULE MaintCtrl -----------------------------
(***************************************************************************)
(* maint_ctrl.v and autoref_config.v: a prescaler and three timers that    *)
(* raise the maintenance requests, and the auto-refresh settings the host  *)
(* writes with SET_TREFI and SET_TRFC.  An interval counts prescaler ticks.*)
(* Register values before reset do not matter: while the PHY initialises   *)
(* (dfi_init_complete low) every timer is reloaded each clock.             *)
(***************************************************************************)
EXTENDS Instr

CONSTANTS
  MAINT_PRESCALER_DIV,     \* clocks per tick (40)
  PERIODIC_RD_TIMER_DIV,   \* ticks between reads (5)
  ZQ_TIMER_DIV             \* ticks between calibrations (640000)

ASSUME CtrlAssumption ==
  {MAINT_PRESCALER_DIV, PERIODIC_RD_TIMER_DIV, ZQ_TIMER_DIV} \subseteq Nat \ {0}

VARIABLES maint_prescaler_r, maint_prescaler_tick_r,
          periodic_rd_timer_r, periodic_rd_request_r,
          zq_timer_r, zq_request_r,
          autoref_timer_r, autoref_request_r, ref_en_r,
          aref_en, aref_interval, aref_trfc

ctrlVars == <<maint_prescaler_r, maint_prescaler_tick_r, periodic_rd_timer_r,
              periodic_rd_request_r, zq_timer_r, zq_request_r, autoref_timer_r,
              autoref_request_r, ref_en_r, aref_en, aref_interval, aref_trfc>>

CtrlInit ==
  /\ maint_prescaler_r = MAINT_PRESCALER_DIV
  /\ maint_prescaler_tick_r = FALSE
  /\ periodic_rd_timer_r = 0
  /\ periodic_rd_request_r = FALSE
  /\ zq_timer_r = ZQ_TIMER_DIV
  /\ zq_request_r = FALSE
  /\ autoref_timer_r = 0
  /\ autoref_request_r = FALSE
  /\ ref_en_r = FALSE
  /\ aref_en = FALSE
  /\ aref_interval = 0
  /\ aref_trfc = 0

-----------------------------------------------------------------------------
CountDown(timer, tick) == IF timer > 0 /\ tick THEN timer - 1 ELSE timer

PrescalerClk(init_complete) ==
  LET tick == maint_prescaler_r = 1
  IN  /\ maint_prescaler_r' = IF ~init_complete \/ tick THEN MAINT_PRESCALER_DIV
                              ELSE CountDown(maint_prescaler_r, TRUE)
      /\ maint_prescaler_tick_r' = tick

\* A periodic read is due a while after the last read of any kind; before the
\* first read there is no request.
PeriodicRdClk(init_complete, ack, rst) ==
  LET one == maint_prescaler_tick_r /\ periodic_rd_timer_r = 1
  IN  /\ periodic_rd_timer_r' = IF ~init_complete THEN 0
                                ELSE IF ack THEN PERIODIC_RD_TIMER_DIV
                                ELSE CountDown(periodic_rd_timer_r, maint_prescaler_tick_r)
      /\ periodic_rd_request_r' = (~rst /\ ~ack /\ (periodic_rd_request_r \/ one))

\* Calibration is due after initialisation and then periodically, whether or
\* not the last request has been served.
ZqClk(init_complete, ack, rst) ==
  LET tick == zq_timer_r = 1 /\ maint_prescaler_tick_r
  IN  /\ zq_timer_r' = IF ~init_complete \/ tick THEN ZQ_TIMER_DIV
                       ELSE CountDown(zq_timer_r, maint_prescaler_tick_r)
      /\ zq_request_r' = (~rst /\ (~init_complete \/ (zq_request_r /\ ~ack) \/ tick))
zq_request(init_complete) == init_complete /\ zq_request_r

\* The refresh timer restarts when a refresh is acknowledged and when
\* auto-refresh is switched on; switching it off withdraws the request.
AutorefRequest(init_complete, ack, one) ==
  init_complete /\ aref_en /\ ~ack /\ (autoref_request_r \/ one)
AutorefClk(init_complete, ack, rst) ==
  LET one == maint_prescaler_tick_r /\ autoref_timer_r = 1
  IN  /\ autoref_timer_r' = IF ~init_complete \/ ack \/ (~ref_en_r /\ aref_en)
                            THEN aref_interval
                            ELSE CountDown(autoref_timer_r, maint_prescaler_tick_r)
      /\ autoref_request_r' = (~rst /\ AutorefRequest(init_complete, ack, one))
      /\ ref_en_r' = aref_en

\* autoref_config.v: set holds the words the dispatcher registered.
ArefConfigClkIgnoresZero(set, rst) ==
  LET interval == set.interval # NoInstr /\ set.interval.arg # 0
  IN  /\ aref_en' = (~rst /\ (interval \/ aref_en))
      /\ aref_interval' = IF rst THEN 0
                          ELSE IF interval THEN set.interval.arg ELSE aref_interval
      /\ aref_trfc' = IF rst THEN 0
                      ELSE IF set.trfc # NoInstr THEN set.trfc.arg ELSE aref_trfc
ArefConfigClk(set, rst) ==
  /\ aref_en' = IF rst THEN FALSE
                ELSE IF set.interval # NoInstr THEN set.interval.arg # 0 ELSE aref_en
  /\ aref_interval' = IF rst THEN 0
                      ELSE IF set.interval # NoInstr THEN set.interval.arg ELSE aref_interval
  /\ aref_trfc' = IF rst THEN 0
                  ELSE IF set.trfc # NoInstr THEN set.trfc.arg ELSE aref_trfc

CtrlClk(init_complete, pr_rd_ack, zq_ackd, autoref_ackd, set, rst) ==
  /\ PrescalerClk(init_complete)
  /\ PeriodicRdClk(init_complete, pr_rd_ack, rst)
  /\ ZqClk(init_complete, zq_ackd, rst)
  /\ AutorefClk(init_complete, autoref_ackd, rst)
  /\ ArefConfigClk(set, rst)
=============================================================================
