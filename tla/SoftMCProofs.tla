---------------------------- MODULE SoftMCProofs ----------------------------
(***************************************************************************)
(* Types, the handover between the maintenance handler, the receiver and   *)
(* the dispatcher, and what the sequences of the handler and of the host   *)
(* do to each other: for every set of host programs and every setting of   *)
(* the timers, waits and FIFOs.                                            *)
(***************************************************************************)
EXTENDS SoftMC, IseqPathProofs

\* The type invariant of softMC.v's registers with the types of those the
\* runs leave unbounded.
TypeInv ==
  /\ SoftMCTypeOK
  /\ aref_r \in [interval : InstrOrNone, trfc : InstrOrNone]
  /\ aref_trfc \in Nat
  /\ sent \in Seq(Instruction)

USE DEF InstrOrNone

-----------------------------------------------------------------------------
(* What the inputs of a clock can be.                                      *)

LEMMA RxType ==
  ASSUME TypeInv, NEW rx \in {NoInstr} \cup WordsAfter(sent)
  PROVE  rx \in InstrOrNone
<1>1. CASE rx = NoInstr
  BY <1>1
<1>2. CASE rx \in WordsAfter(sent)
  <2> DEFINE R == [op : Opcodes, arg : Nat, from : {"app"}]
  <2>1. PICK p \in Programs : Len(p) > Len(sent) /\ rx = p[Len(sent) + 1]
    BY <1>2 DEF WordsAfter
  <2>2. p \in Seq(R)
    BY ProgramsAssumption
  <2>3. Len(sent) \in Nat
    BY DEF TypeInv
  <2>4. R \subseteq Instruction
    BY DEF Instruction
  <2> HIDE DEF R
  <2>5. rx \in R
    BY <2>1, <2>2, <2>3
  <2>6. QED BY <2>4, <2>5
<1>3. QED BY <1>1, <1>2

LEMMA MaintIsInstruction ==
  ASSUME NEW op \in Opcodes, NEW arg \in Nat
  PROVE  Maint(op, arg) \in Instruction
  BY DEF Maint, Instruction

LEMMA SequenceType ==
  ASSUME NEW trfc \in Nat
  PROVE  /\ Sequence(trfc) \in Seq(Instruction)
         /\ Len(Sequence(trfc)) = IF process.pr_rd THEN 10 ELSE 4
<1> USE DEF BUS_DIR_READ, BUS_DIR_WRITE
<1>1. DEF_TRAS - DEF_TRCD \in Nat
  BY TimingAssumption
<1>2. PeriodicRead \in Seq(Instruction) /\ Len(PeriodicRead) = 10
  BY <1>1, TimingAssumption, MaintIsInstruction DEF PeriodicRead, Opcodes, DDR_INSTR
<1>3. ZQCalibration \in Seq(Instruction) /\ Len(ZQCalibration) = 4
  BY TimingAssumption, MaintIsInstruction DEF ZQCalibration, Opcodes, DDR_INSTR
<1>4. AutoRefresh(trfc) \in Seq(Instruction) /\ Len(AutoRefresh(trfc)) = 4
  BY TimingAssumption, MaintIsInstruction DEF AutoRefresh, Opcodes, DDR_INSTR
<1>5. QED BY <1>2, <1>3, <1>4 DEF Sequence

LEMMA MaintWordType ==
  ASSUME NEW trfc \in Nat, maint_state \in 0 .. MAINT_FIN
  PROVE  MaintWord(trfc) \in InstrOrNone
<1>1. maint_state < Len(Sequence(trfc)) => Sequence(trfc)[maint_state + 1] \in Instruction
  BY SequenceType
<1>2. Maint("END", 0) \in Instruction
  BY MaintIsInstruction DEF Opcodes
<1>3. QED BY <1>1, <1>2 DEF MaintWord

-----------------------------------------------------------------------------
(* Each component keeps its types.                                         *)

Flags == [pr_rd : BOOLEAN, zq : BOOLEAN, autoref : BOOLEAN]

\* What a clock does to the three process flags, one by one.
LEMMA FlagsNext ==
  ASSUME TypeInv, NEW rst \in BOOLEAN, MaintClk(rst)
  PROVE  /\ process' \in Flags
         /\ ~maint_process =>
              /\ ~(process'.pr_rd /\ process'.zq)
              /\ ~(process'.pr_rd /\ process'.autoref)
              /\ ~(process'.zq /\ process'.autoref)
         /\ maint_process /\ ~Finishing =>
              /\ process'.pr_rd <=> process.pr_rd /\ ~pr_rd_ack_r
              /\ process'.zq <=> process.zq
              /\ process'.autoref <=> process.autoref
         /\ Finishing =>
              /\ ~process'.pr_rd
              /\ process'.zq <=> process.zq /\ process.pr_rd
              /\ process'.autoref <=> process.autoref /\ (process.pr_rd \/ process.zq)
<1> DEFINE enter == Enter(periodic_rd_request_r, zq_request(dfi_init_complete),
                          autoref_request_r)
           next == IF ~maint_process THEN enter.next
                   ELSE IF Finishing THEN AfterFin ELSE process
<1>1. process' = [next EXCEPT !.pr_rd = @ /\ ~pr_rd_ack_r]
  BY DEF MaintClk, HandlerClk
<1>2. process \in Flags
  BY DEF TypeInv, SoftMCTypeOK, Flags
<1>3. /\ enter.next \in Flags
      /\ ~(enter.next.pr_rd /\ enter.next.zq)
      /\ ~(enter.next.pr_rd /\ enter.next.autoref)
      /\ ~(enter.next.zq /\ enter.next.autoref)
  BY DEF Enter, Flags
<1>4. /\ AfterFin \in Flags
      /\ ~AfterFin.pr_rd
      /\ AfterFin.zq <=> process.zq /\ process.pr_rd
      /\ AfterFin.autoref <=> process.autoref /\ (process.pr_rd \/ process.zq)
  BY <1>2 DEF AfterFin, Flags
<1> HIDE DEF enter
<1>5. next \in Flags
  BY <1>2, <1>3, <1>4
<1> HIDE DEF next
<1>6. /\ process' \in Flags
      /\ process'.pr_rd <=> next.pr_rd /\ ~pr_rd_ack_r
      /\ process'.zq <=> next.zq
      /\ process'.autoref <=> next.autoref
  BY <1>1, <1>5 DEF Flags
<1>7. QED BY <1>3, <1>4, <1>6 DEF next, Finishing

LEMMA HandlerType ==
  ASSUME TypeInv, NEW rst \in BOOLEAN, MaintClk(rst)
  PROVE  /\ maint_state' \in 0 .. MAINT_FIN
         /\ lock_pr_rd_r' \in BOOLEAN
         /\ cur_bus_dir_r' \in {BUS_DIR_READ, BUS_DIR_WRITE}
<1> DEFINE enter == Enter(periodic_rd_request_r, zq_request(dfi_init_complete),
                          autoref_request_r)
<1>1. /\ maint_state' = IF rst THEN 0
                        ELSE IF maint_process THEN StateNext(MaintAcked, aref_trfc)
                        ELSE enter.state
      /\ lock_pr_rd_r' = (~rst /\ LockNext(pr_rd_ack_r))
      /\ cur_bus_dir_r' = IF rst THEN BUS_DIR_READ
                          ELSE IF process.pr_rd /\ maint_state = PR_RD_IO
                          THEN cur_bus_dir ELSE cur_bus_dir_r
  BY DEF MaintClk, HandlerClk
<1>2. maint_state \in 0 .. MAINT_FIN /\ aref_trfc \in Nat
      /\ cur_bus_dir_r \in {BUS_DIR_READ, BUS_DIR_WRITE}
  BY DEF TypeInv, SoftMCTypeOK
<1>3. enter.state \in 0 .. MAINT_FIN
  BY <1>2 DEF Enter, MAINT_FIN
<1>4. StateNext(MaintAcked, aref_trfc) \in 0 .. MAINT_FIN
  <2>1. Len(Sequence(aref_trfc)) \in {4, 10}
    BY <1>2, SequenceType
  <2>2. maint_state < Len(Sequence(aref_trfc)) => maint_state + 1 \in 0 .. MAINT_FIN
    <3>1. \A n \in {4, 10}, m \in 0 .. 10 : m < n => m + 1 \in 0 .. 10
      OBVIOUS
    <3>2. QED BY <1>2, <2>1, <3>1, Zenon DEF MAINT_FIN
  <2>3. maint_state \in 0 .. MAINT_FIN /\ MAINT_FIN \in 0 .. MAINT_FIN
    BY <1>2 DEF MAINT_FIN
  <2>4. maint_state >= Len(Sequence(aref_trfc)) \/ maint_state < Len(Sequence(aref_trfc))
    BY <1>2, <2>1
  <2>5. QED BY <2>2, <2>3, <2>4, Zenon DEF StateNext
<1> HIDE DEF enter
<1>5. maint_state' \in 0 .. MAINT_FIN
  BY <1>1, <1>3, <1>4 DEF MAINT_FIN
<1>6. lock_pr_rd_r' \in BOOLEAN
  BY <1>1, Zenon
<1>7. cur_bus_dir_r' \in {BUS_DIR_READ, BUS_DIR_WRITE}
  BY <1>1, <1>2, Zenon DEF cur_bus_dir
<1>8. QED BY <1>5, <1>6, <1>7

LEMMA CtrlType ==
  ASSUME TypeInv, NEW rst \in BOOLEAN, MaintClk(rst)
  PROVE  /\ maint_prescaler_r' \in 0 .. MAINT_PRESCALER_DIV
         /\ periodic_rd_timer_r' \in 0 .. PERIODIC_RD_TIMER_DIV
         /\ zq_timer_r' \in 0 .. ZQ_TIMER_DIV
         /\ aref_trfc' \in Nat
<1>1. CtrlClk(dfi_init_complete, pr_rd_ack_r, zq_ack, autoref_ack, aref_r, rst)
  BY DEF MaintClk
<1>2. maint_prescaler_r' \in 0 .. MAINT_PRESCALER_DIV
  BY <1>1, CtrlAssumption DEF CtrlClk, PrescalerClk, CountDown, TypeInv, SoftMCTypeOK
<1>3. periodic_rd_timer_r' \in 0 .. PERIODIC_RD_TIMER_DIV
  BY <1>1, CtrlAssumption DEF CtrlClk, PeriodicRdClk, CountDown, TypeInv, SoftMCTypeOK
<1>4. zq_timer_r' \in 0 .. ZQ_TIMER_DIV
  BY <1>1, CtrlAssumption DEF CtrlClk, ZqClk, CountDown, TypeInv, SoftMCTypeOK
<1>5. aref_trfc' \in Nat
  <2>1. aref_r.trfc \in InstrOrNone /\ aref_trfc \in Nat
    BY DEF TypeInv
  <2>2. aref_r.trfc.arg \in Nat
    BY <2>1 DEF Instruction, NoInstr
  <2>3. QED BY <1>1, <2>1, <2>2 DEF CtrlClk, ArefConfigClk
<1>6. QED BY <1>2, <1>3, <1>4, <1>5

-----------------------------------------------------------------------------
(* The type invariant is inductive.                                        *)

LEMMA TypeInit == Init => TypeInv
<1> SUFFICES ASSUME Init PROVE TypeInv
  OBVIOUS
<1>1. PathTypeOK
  BY PathTypeInit DEF Init
<1>2. SoftMCTypeOK
  <2>1. process \in [pr_rd : BOOLEAN, zq : BOOLEAN, autoref : BOOLEAN]
    BY DEF Init, HandlerInit
  <2>2. /\ maint_state \in 0 .. MAINT_FIN
        /\ lock_pr_rd_r \in BOOLEAN
        /\ cur_bus_dir_r \in {BUS_DIR_READ, BUS_DIR_WRITE}
    <3>1. 0 \in 0 .. MAINT_FIN
      BY DEF MAINT_FIN
    <3>2. QED BY <3>1, Zenon DEF Init, HandlerInit
  <2>3. /\ maint_prescaler_r \in 0 .. MAINT_PRESCALER_DIV
        /\ periodic_rd_timer_r \in 0 .. PERIODIC_RD_TIMER_DIV
        /\ zq_timer_r \in 0 .. ZQ_TIMER_DIV
    BY CtrlAssumption DEF Init, CtrlInit
  <2>4. QED BY <1>1, <2>1, <2>2, <2>3 DEF SoftMCTypeOK
<1>3. aref_r \in [interval : InstrOrNone, trfc : InstrOrNone]
  BY DEF Init, PathInit, DispatcherInit, NoArefSet
<1>4. aref_trfc \in Nat /\ sent \in Seq(Instruction)
  BY DEF Init, CtrlInit
<1>5. QED BY <1>2, <1>3, <1>4 DEF TypeInv

LEMMA TypeStep ==
  ASSUME TypeInv, Next
  PROVE  TypeInv'
<1>1. lock_pr_rd_r \in BOOLEAN /\ aref_trfc \in Nat /\ maint_state \in 0 .. MAINT_FIN
      /\ sent \in Seq(Instruction)
  BY DEF TypeInv, SoftMCTypeOK
<1>2. ASSUME PathTypeOK', NEW rst \in BOOLEAN, MaintClk(rst)
      PROVE  SoftMCTypeOK' /\ aref_trfc' \in Nat
  BY <1>2, FlagsNext, HandlerType, CtrlType DEF SoftMCTypeOK, Flags
<1>3. CASE Clk
  <2>1. PICK rx \in {NoInstr} \cup WordsAfter(sent) :
          /\ PathClk(rx, MaintWord(aref_trfc), TRUE, lock_pr_rd_r)
          /\ MaintClk(FALSE)
          /\ Deliver(rx)
    BY <1>3 DEF Clk
  <2>2. rx \in InstrOrNone /\ MaintWord(aref_trfc) \in InstrOrNone
    BY <1>1, RxType, MaintWordType
  <2>3. PathTypeOK
    BY DEF TypeInv, SoftMCTypeOK
  <2>4. PathTypeOK' /\ aref_r' \in [interval : InstrOrNone, trfc : InstrOrNone]
    BY <1>1, <2>1, <2>2, <2>3, PathTypeStep
  <2>5. sent' \in Seq(Instruction)
    BY <1>1, <2>1, <2>2 DEF Deliver
  <2>6. QED BY <1>2, <2>1, <2>4, <2>5 DEF TypeInv
<1>4. CASE Rst
  <2>1. /\ PathRst(NoInstr, TRUE, lock_pr_rd_r)
        /\ MaintClk(TRUE)
        /\ UNCHANGED sent
    BY <1>4 DEF Rst
  <2>2. NoInstr \in InstrOrNone
    OBVIOUS
  <2>3. PathTypeOK
    BY DEF TypeInv, SoftMCTypeOK
  <2>4. PathTypeOK' /\ aref_r' \in [interval : InstrOrNone, trfc : InstrOrNone]
    BY <1>1, <2>1, <2>2, <2>3, PathTypeStep
  <2>5. QED BY <1>1, <1>2, <2>1, <2>4 DEF TypeInv
<1>5. QED BY <1>3, <1>4 DEF Next

LEMMA TypeStutter ==
  ASSUME TypeInv, UNCHANGED vars
  PROVE  TypeInv'
  BY DEF vars, pathVars, receiverVars, dispatcherVars, handlerVars, ctrlVars,
         TypeInv, SoftMCTypeOK, PathTypeOK

\* Every register keeps the values its width and its use allow: in particular
\* the wait counter stays below 2^10 through the decrement of a WAIT's operand,
\* and the handler's state never leaves the words of its sequences.
THEOREM TypeInvariant == Spec => []SoftMCTypeOK
<1>1. TypeInv /\ [Next]_vars => TypeInv'
  BY TypeStep, TypeStutter
<1>2. TypeInv => SoftMCTypeOK
  BY DEF TypeInv
<1>3. QED BY TypeInit, <1>1, <1>2, PTL DEF Spec

-----------------------------------------------------------------------------
(* The handover.  A clock's step, without the parts the argument does not  *)
(* look at: rst is its reset line.                                         *)

PathStep(rst) ==
  IF rst THEN PathRst(NoInstr, TRUE, lock_pr_rd_r)
  ELSE \E rx : PathClk(rx, MaintWord(aref_trfc), TRUE, lock_pr_rd_r)

LEMMA NextIsStep ==
  ASSUME Next
  PROVE  \E rst \in BOOLEAN : PathStep(rst) /\ MaintClk(rst)
<1>1. CASE Clk
  <2>1. PathStep(FALSE) /\ MaintClk(FALSE)
    BY <1>1, Zenon DEF Clk, PathStep
  <2>2. QED BY <2>1
<1>2. CASE Rst
  <2>1. PathStep(TRUE) /\ MaintClk(TRUE)
    BY <1>2, Zenon DEF Rst, PathStep
  <2>2. QED BY <2>1
<1>3. QED BY <1>1, <1>2 DEF Next

LEMMA PathHandover ==
  ASSUME TypeInv, Handover, NEW rst \in BOOLEAN, PathStep(rst)
  PROVE  /\ StagesOrdered'
         /\ state_r' # "IDLE" => ~dispatcher_busy_r' /\ ~process_iseq_r'
         /\ Loaded' => dispatcher_busy_r'
         /\ pr_rd_ack_r' => dispatcher_busy_r'
<1>1. /\ PipeClk(en_ack(Head0, TRUE)) \/ PipeRst(en_ack(Head0, TRUE))
      /\ dispatcher_busy_r' = BusyNext(rst)
      /\ pr_rd_ack_r' = Issues(Issue(Head0, TRUE), "RD")
      /\ \/ rst /\ ReceiverRst
         \/ ~rst /\ ReceiverClk(app, MaintWord(aref_trfc), ~dispatcher_busy_r)
  BY DEF PathStep, PathClk, PathRst, DispatcherClk, DispatcherRst
<1>2. dispatcher_busy_r /\ Remains => dispatcher_busy_r'
  BY <1>1 DEF BusyNext
<1>3. StagesOrdered' /\ (Loaded' => dispatcher_busy_r')
  <2>1. PathTypeOK /\ StagesOrdered /\ (Loaded => dispatcher_busy_r)
    BY DEF TypeInv, SoftMCTypeOK, Handover
  <2>2. QED BY <1>1, <1>2, <2>1, StagesStep
<1>4. pr_rd_ack_r' => dispatcher_busy_r'
  <2>1. SUFFICES ASSUME Issues(Issue(Head0, TRUE), "RD") PROVE dispatcher_busy_r'
    BY <1>1
  <2>2. Issue(Head0, TRUE)[1].op = "RD" \/ Issue(Head0, TRUE)[2].op = "RD"
    <3>1. PICK k \in 1..2 : Issue(Head0, TRUE)[k].op = "RD"
      BY <2>1 DEF Issues
    <3>2. k = 1 \/ k = 2
      OBVIOUS
    <3>3. QED BY <3>1, <3>2
  <2>3. NoInstr.op # "RD"
    BY DEF NoInstr
  <2>4. Loaded
    BY <2>2, <2>3, IssueType DEF TypeInv, SoftMCTypeOK
  <2>5. QED BY <1>2, <2>4 DEF Handover, Loaded, Remains
<1>5. state_r' # "IDLE" => ~dispatcher_busy_r' /\ ~process_iseq_r'
  <2>1. CASE ReceiverRst
    BY <2>1 DEF ReceiverRst
  <2>2. CASE ~rst /\ ReceiverClk(app, MaintWord(aref_trfc), ~dispatcher_busy_r)
    <3>1. SUFFICES ASSUME state_r' # "IDLE"
                   PROVE  ~dispatcher_busy_r' /\ ~process_iseq_r'
      OBVIOUS
    <3>2. ~dispatcher_busy_r /\ ~process_iseq_r
      BY <2>2, <3>1 DEF ReceiverClk, Stay, StartApp, StartMaint, TakeApp, TakeMaint, Load,
                        MayStart, Handover
    <3>3. process_iseq_r' = FALSE
      BY <2>2, <3>1 DEF ReceiverClk, Stay, StartApp, StartMaint, TakeApp, TakeMaint, Load
    <3>4. QED BY <1>1, <3>2, <3>3 DEF BusyNext
  <2>3. QED BY <1>1, <2>1, <2>2
<1>6. QED BY <1>3, <1>4, <1>5

\* The words of a sequence before its END.
LEMMA MaintWordOp ==
  ASSUME TypeInv, maint_process
  PROVE  /\ maint_state < Len(Sequence(aref_trfc)) => MaintWord(aref_trfc).op # "END"
         /\ MaintWord(aref_trfc) # NoInstr
         /\ maint_state = MAINT_FIN => MaintWord(aref_trfc).op = "END"
<1>1. aref_trfc \in Nat /\ maint_state \in 0 .. MAINT_FIN
  BY DEF TypeInv, SoftMCTypeOK
<1>2. Len(Sequence(aref_trfc)) \in {4, 10} /\ Sequence(aref_trfc) \in Seq(Instruction)
  BY <1>1, SequenceType
<1>3. ASSUME maint_state < Len(Sequence(aref_trfc))
      PROVE  MaintWord(aref_trfc).op # "END" /\ MaintWord(aref_trfc) # NoInstr
  <2>1. MaintWord(aref_trfc) = Sequence(aref_trfc)[maint_state + 1]
    BY <1>3 DEF MaintWord
  <2>2. \A k \in 1 .. Len(Sequence(aref_trfc)) : Sequence(aref_trfc)[k].op \in Opcodes \ {"END"}
    BY DEF Sequence, PeriodicRead, ZQCalibration, AutoRefresh, Maint, Opcodes, DDR_INSTR
  <2>3. maint_state + 1 \in 1 .. Len(Sequence(aref_trfc))
    BY <1>1, <1>2, <1>3
  <2>4. QED BY <2>1, <2>2, <2>3 DEF NoInstr, Opcodes, DDR_INSTR
<1>4. ASSUME ~(maint_state < Len(Sequence(aref_trfc)))
      PROVE  MaintWord(aref_trfc).op = "END" /\ MaintWord(aref_trfc) # NoInstr
  BY <1>4 DEF MaintWord, Maint, NoInstr
<1>5. maint_state = MAINT_FIN => ~(maint_state < Len(Sequence(aref_trfc)))
  <2>1. \A n \in {4, 10} : ~(10 < n)
    OBVIOUS
  <2>2. QED BY <1>2, <2>1, Zenon DEF MAINT_FIN
<1>6. QED BY <1>3, <1>4, <1>5

\* The clock in which the receiver takes a word of the handler's moves the
\* handler to its next word; no other clock moves it.
LEMMA HandlerStep ==
  ASSUME TypeInv, Handover, NEW rst \in BOOLEAN, PathStep(rst), MaintClk(rst)
  PROVE  AtMostOneSequence' /\ HandlerInStep'
<1>1. /\ aref_trfc \in Nat /\ aref_trfc' \in Nat
      /\ maint_state \in 0 .. MAINT_FIN
      /\ process \in Flags /\ process' \in Flags
  BY FlagsNext, CtrlType DEF TypeInv, SoftMCTypeOK, Flags
<1>2. AtMostOneSequence'
  BY FlagsNext DEF AtMostOneSequence, Handover, Finishing
<1>3. /\ \/ rst /\ ReceiverRst
         \/ ~rst /\ ReceiverClk(app, MaintWord(aref_trfc), ~dispatcher_busy_r)
      /\ maint_state' = IF rst THEN 0
                        ELSE IF maint_process THEN StateNext(MaintAcked, aref_trfc)
                        ELSE Enter(periodic_rd_request_r, zq_request(dfi_init_complete),
                                   autoref_request_r).state
  BY DEF PathStep, PathClk, PathRst, MaintClk, HandlerClk
<1>4. CASE rst
  BY <1>2, <1>3, <1>4 DEF ReceiverRst, HandlerInStep
<1>5. CASE ~rst /\ ~maint_process
  <2>1. state_r # "MAINT" /\ MaintWord(aref_trfc) = NoInstr
    BY <1>5 DEF Handover, HandlerInStep, MaintWord
  <2>2. state_r' # "MAINT"
    BY <1>3, <1>5, <2>1
       DEF ReceiverClk, Stay, StartApp, StartMaint, TakeApp, TakeMaint, Load
  <2>3. maint_process' => maint_state' = 0
    BY <1>3, <1>5 DEF MaintClk, HandlerClk, Enter, maint_process
  <2>4. QED BY <1>2, <2>2, <2>3 DEF HandlerInStep
<1>6. CASE ~rst /\ maint_process /\ Finishing
  <2>1. state_r = "MAINT"
    BY <1>6 DEF Handover, HandlerInStep, Finishing, MAINT_FIN
  <2>2. state_r' = "IDLE"
    BY <1>3, <1>6, <2>1, MaintWordOp
       DEF ReceiverClk, Stay, StartApp, StartMaint, TakeApp, TakeMaint, Load, MayStart,
           Finishing
  <2>3. ~maint_process'
    BY <1>6, FlagsNext DEF maint_process, Handover, AtMostOneSequence
  <2>4. QED BY <1>2, <2>2, <2>3 DEF HandlerInStep
<1>7. CASE ~rst /\ maint_process /\ ~Finishing /\ MaintAcked
  <2>1. ~pr_rd_ack_r
    BY <1>7 DEF MaintAcked, maint_ack, MayStart, Handover
  <2>2. maint_process' /\ (process'.pr_rd <=> process.pr_rd)
    BY <1>7, <2>1, FlagsNext DEF maint_process
  <2>3. /\ Len(Sequence(aref_trfc)) = IF process.pr_rd THEN 10 ELSE 4
        /\ Len(Sequence(aref_trfc)') = IF process.pr_rd THEN 10 ELSE 4
    <3>1. Len(Sequence(aref_trfc)) = IF process.pr_rd THEN 10 ELSE 4
      BY <1>1, SequenceType
    <3>2. Len(Sequence(aref_trfc)') = IF process'.pr_rd THEN 10 ELSE 4
      BY <1>1 DEF Sequence, PeriodicRead, ZQCalibration, AutoRefresh
    <3>3. QED BY <2>2, <3>1, <3>2
  <2>4. maint_state < Len(Sequence(aref_trfc))
    BY <1>1, <1>7, <2>3 DEF Handover, HandlerInStep, Finishing, MAINT_FIN
  <2>5. state_r' = "MAINT"
    BY <1>3, <1>7, <2>4, MaintWordOp
       DEF ReceiverClk, Stay, StartApp, StartMaint, TakeApp, TakeMaint, Load, MayStart,
           MaintAcked, maint_ack
  <2>6. /\ maint_state' # 0
        /\ maint_state' < Len(Sequence(aref_trfc)) \/ maint_state' = MAINT_FIN
    BY <1>1, <1>3, <1>7, <2>3, <2>4 DEF StateNext, MAINT_FIN
  <2>7. QED BY <1>2, <2>2, <2>3, <2>5, <2>6 DEF HandlerInStep
<1>8. CASE ~rst /\ maint_process /\ ~Finishing /\ ~MaintAcked
  <2>1. state_r # "MAINT" /\ maint_state = 0
    BY <1>8 DEF MaintAcked, maint_ack, Handover, HandlerInStep
  <2>2. state_r' # "MAINT"
    BY <1>3, <1>8, <2>1
       DEF ReceiverClk, Stay, StartApp, StartMaint, TakeApp, TakeMaint, Load,
           MaintAcked, maint_ack
  <2>3. maint_state' = 0
    BY <1>3, <1>8, <2>1 DEF StateNext
  <2>4. QED BY <1>2, <2>2, <2>3 DEF HandlerInStep
<1>9. QED BY <1>2, <1>4, <1>5, <1>6, <1>7, <1>8

-----------------------------------------------------------------------------
LEMMA HandoverInit == Init => Handover
<1> SUFFICES ASSUME Init PROVE Handover
  OBVIOUS
<1>1. \A l \in Lanes : pipe[l] = [ready |-> TRUE, first |-> NoInstr, second |-> NoInstr]
  BY DEF Init, PathInit, PipeRegInit
<1>2. \A l \in Lanes : pipe[l].first = NoInstr /\ pipe[l].second = NoInstr
  BY <1>1
<1>3. StagesOrdered /\ ~Loaded
  BY <1>2, Zenon DEF StagesOrdered, Loaded, PipeRegInv
<1>4. state_r = "IDLE" /\ pr_rd_ack_r = FALSE
  BY DEF Init, PathInit, ReceiverInit, DispatcherInit
<1>5. ~process.pr_rd /\ ~process.zq /\ ~process.autoref
  BY DEF Init, HandlerInit
<1>6. AtMostOneSequence /\ HandlerInStep
  BY <1>4, <1>5 DEF AtMostOneSequence, HandlerInStep, maint_process
<1>7. QED BY <1>3, <1>4, <1>6 DEF Handover

LEMMA HandoverStep ==
  ASSUME TypeInv, Handover, [Next]_vars
  PROVE  Handover'
<1>1. CASE Next
  <2>1. PICK rst \in BOOLEAN : PathStep(rst) /\ MaintClk(rst)
    BY <1>1, NextIsStep
  <2>2. QED BY <2>1, PathHandover, HandlerStep DEF Handover
<1>2. CASE UNCHANGED vars
  BY <1>2 DEF vars, pathVars, receiverVars, dispatcherVars, handlerVars, ctrlVars,
     Handover, StagesOrdered, Loaded, AtMostOneSequence, HandlerInStep, maint_process,
     Sequence
<1>3. QED BY <1>1, <1>2

\* Handler, receiver and dispatcher hand over to each other as Handover says,
\* whatever sequences the host sends, whatever the timers' settings, and through
\* every reset.
THEOREM HandoverInvariant == Spec => []Handover
<1>1. Init => TypeInv /\ Handover
  BY TypeInit, HandoverInit
<1>2. TypeInv /\ Handover /\ [Next]_vars => TypeInv' /\ Handover'
  BY TypeStep, TypeStutter, HandoverStep
<1>3. QED BY <1>1, <1>2, PTL DEF Spec

\* No acknowledge of an earlier read cuts a maintenance sequence off while the
\* receiver is taking it: pr_rd_ack_r implies a busy dispatcher, and the
\* receiver takes a sequence only from an idle one.
THEOREM MaintUninterrupted == Spec => []MaintSequenceUninterrupted
<1>1. Handover => MaintSequenceUninterrupted
  BY DEF Handover, HandlerInStep, AtMostOneSequence, maint_process,
         MaintSequenceUninterrupted
<1>2. QED BY HandoverInvariant, <1>1, PTL

-----------------------------------------------------------------------------
LEMMA PathInvNext ==
  ASSUME TypeInv, PathInv, [Next]_vars
  PROVE  PathInv'
<1>1. PathTypeOK
  BY DEF TypeInv, SoftMCTypeOK
<1>2. CASE Next
  <2>1. PICK rst \in BOOLEAN : PathStep(rst)
    BY <1>2, NextIsStep
  <2>2. QED BY <1>1, <2>1, PathInvClk, PathInvRst DEF PathStep
<1>3. CASE UNCHANGED vars
  BY <1>1, <1>3, PathStutter DEF vars
<1>4. QED BY <1>2, <1>3

\* Host and maintenance sequences never mix: none is started while a word of
\* another is left anywhere between the receiver and the dispatcher.
THEOREM SoftMCOneSequenceAtATime == Spec => []OneSequenceAtATime
<1>1. Init => TypeInv /\ PathInv
  BY TypeInit, PathInvInit DEF Init
<1>2. TypeInv /\ PathInv /\ [Next]_vars => TypeInv' /\ PathInv'
  BY TypeStep, TypeStutter, PathInvNext
<1>3. TypeInv /\ PathInv => OneSequenceAtATime
  BY PathInvOneSequence DEF TypeInv, SoftMCTypeOK
<1>4. QED BY <1>1, <1>2, <1>3, PTL DEF Spec

-----------------------------------------------------------------------------
(* Words of one kind, an operation of one source, on their way from the    *)
(* receiver to the memory, and how a clock moves them.                     *)

Is(i, op, from) == i.op = op /\ i.from = from
Has(s, op, from) == \E k \in 1 .. Len(s) : Is(s[k], op, from)
Once(s, op) ==
  \A j, k \in 1 .. Len(s) : Is(s[j], op, "maint") /\ Is(s[k], op, "maint") => j = k

InStage(l, op, from) == Is(pipe[l].first, op, from) \/ Is(pipe[l].second, op, from)
InFifo(l, op, from) == Has(fifo[l], op, from)
NoneIn(l, op, from) == ~InStage(l, op, from) /\ ~InFifo(l, op, from)

\* A lane holds at most one of the handler's.
LaneOnce(l, op) ==
  /\ InStage(l, op, "maint") => ~InFifo(l, op, "maint")
  /\ ~(Is(pipe[l].first, op, "maint") /\ Is(pipe[l].second, op, "maint"))
  /\ Once(fifo[l], op)

InPath(op, from) == Is(instr_r, op, from) \/ (\E l \in Lanes : ~NoneIn(l, op, from))

CoreInv == TypeInv /\ Handover /\ PathInv

LEMMA TailWords ==
  ASSUME NEW op, NEW s \in Seq(Instruction), Len(s) > 0
  PROVE  /\ \A f : Has(Tail(s), op, f) => Has(s, op, f)
         /\ \A f : Has(s, op, f) => Is(Head(s), op, f) \/ Has(Tail(s), op, f)
         /\ \A f : Is(Head(s), op, f) => Has(s, op, f)
         /\ Once(s, op) => Once(Tail(s), op)
         /\ Once(s, op) /\ Is(Head(s), op, "maint") => ~Has(Tail(s), op, "maint")
<1> DEFINE t == Tail(s)
<1>1. /\ Len(s) \in Nat /\ Len(t) = Len(s) - 1
      /\ Head(s) = s[1]
      /\ \A k \in 1 .. Len(s) - 1 : t[k] = s[k + 1]
  OBVIOUS
<1> HIDE DEF t
<1>2. \A k \in 1 .. Len(t) : k + 1 \in 1 .. Len(s) /\ k + 1 # 1 /\ t[k] = s[k + 1]
  BY <1>1
<1>3. \A k \in 1 .. Len(s) : k = 1 \/ (k - 1 \in 1 .. Len(t) /\ t[k - 1] = s[k])
  BY <1>1
<1>4. 1 \in 1 .. Len(s)
  BY <1>1
<1>5. \A f : Has(t, op, f) => Has(s, op, f)
  BY <1>2 DEF Has
<1>6. \A f : Has(s, op, f) => Is(Head(s), op, f) \/ Has(t, op, f)
  <2>1. SUFFICES ASSUME NEW f, Has(s, op, f), ~Is(Head(s), op, f) PROVE Has(t, op, f)
    OBVIOUS
  <2>2. PICK k \in 1 .. Len(s) : Is(s[k], op, f)
    BY <2>1 DEF Has
  <2>3. k # 1
    BY <1>1, <2>1, <2>2
  <2>4. k - 1 \in 1 .. Len(t) /\ t[k - 1] = s[k]
    BY <1>3, <2>3
  <2>5. QED BY <2>2, <2>4 DEF Has
<1>7. \A f : Is(Head(s), op, f) => Has(s, op, f)
  BY <1>1, <1>4 DEF Has
<1>8. ASSUME Once(s, op) PROVE Once(t, op)
  <2>1. SUFFICES ASSUME NEW j \in 1 .. Len(t), NEW k \in 1 .. Len(t),
                        Is(t[j], op, "maint"), Is(t[k], op, "maint")
                 PROVE  j = k
    BY DEF Once
  <2>2. /\ j + 1 \in 1 .. Len(s) /\ k + 1 \in 1 .. Len(s)
        /\ t[j] = s[j + 1] /\ t[k] = s[k + 1]
    BY <1>2
  <2>3. j + 1 = k + 1
    BY <1>8, <2>1, <2>2 DEF Once
  <2>4. QED BY <2>3
<1>9. ASSUME Once(s, op), Is(Head(s), op, "maint"), Has(t, op, "maint") PROVE FALSE
  <2>1. PICK k \in 1 .. Len(t) : Is(t[k], op, "maint")
    BY <1>9 DEF Has
  <2>2. k + 1 \in 1 .. Len(s) /\ k + 1 # 1 /\ Is(s[k + 1], op, "maint")
    BY <1>2, <2>1
  <2>3. Is(s[1], op, "maint")
    BY <1>1, <1>9
  <2>4. QED BY <1>4, <1>9, <2>2, <2>3 DEF Once
<1>10. QED BY <1>5, <1>6, <1>7, <1>8, <1>9 DEF t

LEMMA AppendWords ==
  ASSUME NEW op, NEW s \in Seq(Instruction), NEW i \in Instruction
  PROVE  /\ \A f : Has(s \o <<i>>, op, f) <=> Has(s, op, f) \/ Is(i, op, f)
         /\ Once(s, op) /\ (Is(i, op, "maint") => ~Has(s, op, "maint")) => Once(s \o <<i>>, op)
<1> DEFINE t == s \o <<i>>
<1>1. /\ Len(s) \in Nat /\ Len(t) = Len(s) + 1
      /\ t[Len(s) + 1] = i
      /\ \A k \in 1 .. Len(s) : t[k] = s[k]
  OBVIOUS
<1> HIDE DEF t
<1>2. \A k \in 1 .. Len(t) : (k \in 1 .. Len(s) /\ t[k] = s[k]) \/ (k = Len(s) + 1 /\ t[k] = i)
  BY <1>1
<1>3. Len(s) + 1 \in 1 .. Len(t) /\ 1 .. Len(s) \subseteq 1 .. Len(t)
  BY <1>1
<1>4. \A f : Has(t, op, f) <=> Has(s, op, f) \/ Is(i, op, f)
  BY <1>1, <1>2, <1>3 DEF Has
<1>5. ASSUME Once(s, op), Is(i, op, "maint") => ~Has(s, op, "maint")
      PROVE  Once(t, op)
  <2>1. SUFFICES ASSUME NEW j \in 1 .. Len(t), NEW k \in 1 .. Len(t),
                        Is(t[j], op, "maint"), Is(t[k], op, "maint")
                 PROVE  j = k
    BY DEF Once
  <2>2. CASE j \in 1 .. Len(s) /\ k \in 1 .. Len(s)
    BY <1>1, <1>5, <2>1, <2>2 DEF Once
  <2>3. CASE j = Len(s) + 1 /\ k = Len(s) + 1
    BY <2>3
  <2>4. CASE ~Is(i, op, "maint")
    BY <1>2, <2>1, <2>2, <2>4
  <2>5. CASE Has(s, op, "maint")
    BY <1>5, <2>4, <2>5
  <2>6. CASE ~Has(s, op, "maint")
    BY <1>2, <2>1, <2>3, <2>6 DEF Has
  <2>7. QED BY <2>5, <2>6
<1>6. QED BY <1>4, <1>5 DEF t

-----------------------------------------------------------------------------
(* ... and on their way through the path.                                  *)

LEMMA NoInstrIsNone == \A op, f : op # "NONE" => ~Is(NoInstr, op, f)
  BY DEF Is, NoInstr

\* Under an idle dispatcher the stages are empty, and a FIFO gains its word.
LEMMA IdleFlow ==
  ASSUME CoreInv, NEW op, op # "NONE", NEW ack, FifoClk, PipeClk(ack), ~dispatcher_busy_r, NEW l \in Lanes
  PROVE  /\ \A f : ~InStage(l, op, f) /\ ~InStage(l, op, f)'
         /\ FifoWr(l) /\ Len(fifo[l]) < FifoDepth => fifo'[l] = fifo[l] \o <<instr_r>>
         /\ ~(FifoWr(l) /\ Len(fifo[l]) < FifoDepth) => fifo'[l] = fifo[l]
<1>1. /\ PathTypeOK /\ fifo[l] \in Seq(Instruction)
      /\ pipe[l] \in PipeRegs
      /\ pipe[l].first = NoInstr /\ pipe[l].second = NoInstr
      /\ PipeIn(l) = NoInstr
  BY DEF CoreInv, TypeInv, SoftMCTypeOK, PathTypeOK, PathInv, StagesOrdered, Loaded,
         PipeRegInv, PipeIn, PipeRegs
<1>2. pipe'[l].first = NoInstr /\ pipe'[l].second = NoInstr
  BY <1>1, PipeStep
<1>3. ~FifoRd(l)
  BY DEF FifoRd
<1>4. fifo[l] \o << >> = fifo[l]
  BY <1>1
<1>5. fifo'[l] = FifoNext(l)
  BY DEF FifoClk
<1>6. QED BY <1>1, <1>2, <1>3, <1>4, <1>5, NoInstrIsNone DEF InStage, FifoNext

\* Under a busy dispatcher nothing is written; a lane's words move on, and only
\* an acknowledged one leaves it.
LEMMA BusyFlow ==
  ASSUME CoreInv, NEW op, op # "NONE", NEW ack, FifoClk, PipeClk(ack), dispatcher_busy_r, NEW l \in Lanes
  PROVE  /\ \A f : NoneIn(l, op, f) => NoneIn(l, op, f)'
         /\ \A f : ~NoneIn(l, op, f) =>
                     ~NoneIn(l, op, f)' \/ (ack[l] /\ Is(pipe[l].first, op, f))
         /\ LaneOnce(l, op) => LaneOnce(l, op)'
         /\ LaneOnce(l, op) /\ ack[l] /\ Is(pipe[l].first, op, "maint") => NoneIn(l, op, "maint")'
<1> DEFINE p == pipe[l]
           free == ack[l] \/ p.first = NoInstr
           pops == p.ready /\ Shows(l)
<1>0. \A f : ~Is(NoInstr, op, f)
  BY NoInstrIsNone
<1>1. /\ PathTypeOK /\ fifo[l] \in Seq(Instruction) /\ fresh[l] \in {0, 1}
      /\ p \in PipeRegs
      /\ PipeRegInv(p)
      /\ p.ready => p.second = NoInstr
      /\ instr_r = NoInstr
  BY DEF CoreInv, TypeInv, SoftMCTypeOK, PathTypeOK, PathInv, StagesOrdered, Handover
<1>2. fifo'[l] = IF pops THEN Tail(fifo[l]) ELSE fifo[l]
  <2>1. ~FifoWr(l) /\ (FifoRd(l) <=> p.ready)
    BY <1>1 DEF FifoWr, FifoRd, PipeRegs
  <2>2. fifo'[l] = (IF pops THEN Tail(fifo[l]) ELSE fifo[l]) \o << >>
    BY <2>1 DEF FifoClk, FifoNext
  <2>3. (IF pops THEN Tail(fifo[l]) ELSE fifo[l]) \in Seq(Instruction)
    BY <1>1 DEF Shows
  <2>4. QED BY <2>2, <2>3
<1>3. pops => Len(fifo[l]) > 0
  BY <1>1 DEF Shows
<1>4. PipeIn(l) = IF Shows(l) THEN Head(fifo[l]) ELSE NoInstr
  BY DEF PipeIn
<1>5. /\ p'.first = IF p.ready /\ free THEN PipeIn(l)
                    ELSE IF ~p.ready /\ ack[l] THEN p.second ELSE p.first
      /\ p'.second = IF free THEN NoInstr ELSE IF p.ready THEN PipeIn(l) ELSE p.second
  BY <1>1, PipeStep
<1>5a. pops =>
         /\ \A f : Has(Tail(fifo[l]), op, f) => Has(fifo[l], op, f)
         /\ \A f : Has(fifo[l], op, f) => Is(Head(fifo[l]), op, f) \/ Has(Tail(fifo[l]), op, f)
         /\ \A f : Is(Head(fifo[l]), op, f) => Has(fifo[l], op, f)
         /\ Once(fifo[l], op) => Once(Tail(fifo[l]), op)
         /\ Once(fifo[l], op) /\ Is(Head(fifo[l]), op, "maint") => ~Has(Tail(fifo[l]), op, "maint")
  BY <1>1, <1>3, TailWords
\* The four ways a stage can move.
<1>6. CASE p.ready /\ pops /\ free
  <2>1. /\ p'.first = Head(fifo[l]) /\ p'.second = NoInstr /\ p.second = NoInstr
        /\ fifo'[l] = Tail(fifo[l])
        /\ ~ack[l] => p.first = NoInstr
    BY <1>1, <1>2, <1>4, <1>5, <1>6
  <2>2. QED BY <1>6, <2>1, <1>0, <1>5a
            DEF NoneIn, LaneOnce, InStage, InFifo
<1>7. CASE p.ready /\ pops /\ ~free
  <2>1. /\ p'.first = p.first /\ p'.second = Head(fifo[l]) /\ p.second = NoInstr
        /\ fifo'[l] = Tail(fifo[l])
        /\ ~ack[l]
    BY <1>1, <1>2, <1>4, <1>5, <1>7
  <2>2. QED BY <1>7, <2>1, <1>0, <1>5a
            DEF NoneIn, LaneOnce, InStage, InFifo
<1>8. CASE p.ready /\ ~pops
  <2>1. /\ p'.second = NoInstr /\ p.second = NoInstr
        /\ fifo'[l] = fifo[l]
        /\ p'.first = p.first \/ (p'.first = NoInstr /\ (ack[l] \/ p.first = NoInstr))
        /\ ack[l] => p'.first = NoInstr
    BY <1>1, <1>2, <1>4, <1>5, <1>8
  <2>2. QED BY <1>0, <2>1 DEF NoneIn, LaneOnce, InStage, InFifo
<1>9. CASE ~p.ready
  <2>1. /\ fifo'[l] = fifo[l]
        /\ \/ ack[l] /\ p'.first = p.second /\ p'.second = NoInstr
           \/ ~ack[l] /\ p'.first = p.first /\ p'.second = p.second
    BY <1>1, <1>2, <1>5, <1>9 DEF PipeRegInv
  <2>2. QED BY <1>0, <2>1 DEF NoneIn, LaneOnce, InStage, InFifo
<1>10. QED BY <1>6, <1>7, <1>8, <1>9

LEMMA IssuedWord ==
  ASSUME CoreInv, NEW op, op # "NONE"
  PROVE  Issues(Issue(Head0, TRUE), op) <=>
           \E l \in Lanes : en_ack(Head0, TRUE)[l] /\ pipe[l].first.op = op
<1>1. /\ LaneOf(0) \in Lanes /\ LaneOf(1) \in Lanes /\ LaneOf(0) # LaneOf(1)
      /\ \A l \in Lanes : l = LaneOf(0) \/ l = LaneOf(1)
  BY DEF CoreInv, TypeInv, SoftMCTypeOK, PathTypeOK, LaneOf, Lanes
<1>2. \A l \in Lanes : Head0[l] = pipe[l].first
  BY DEF Head0
<1>3. /\ en_ack(Head0, TRUE)[LaneOf(0)] <=> Slot0Ready(TRUE)
      /\ en_ack(Head0, TRUE)[LaneOf(1)] <=> Slot1Ready(Head0, TRUE)
  BY <1>1 DEF en_ack
<1>4. NoInstr.op # op
  BY DEF NoInstr
<1> DEFINE out == Issue(Head0, TRUE)
<1>5. /\ out[1] = IF Slot0Ready(TRUE) THEN pipe[LaneOf(0)].first ELSE NoInstr
      /\ out[2] = IF Slot1Ready(Head0, TRUE) THEN pipe[LaneOf(1)].first ELSE NoInstr
  BY <1>1, <1>2 DEF Issue
<1> HIDE DEF out
<1>6. Issues(out, op) <=> out[1].op = op \/ out[2].op = op
  <2>1. \A k : k \in 1..2 <=> k = 1 \/ k = 2
    OBVIOUS
  <2>2. QED BY <2>1, Zenon DEF Issues
<1>7. QED BY <1>1, <1>3, <1>4, <1>5, <1>6 DEF out

\* Where a clock's registers come from, for the argument below.
LEMMA ClkStep ==
  ASSUME TypeInv, NEW rx, PathClk(rx, MaintWord(aref_trfc), TRUE, lock_pr_rd_r), MaintClk(FALSE)
  PROVE  /\ FifoClk
         /\ PipeClk(en_ack(Head0, TRUE))
         /\ ReceiverClk(app, MaintWord(aref_trfc), ~dispatcher_busy_r)
         /\ app' \in {app, rx}
         /\ pr_rd_ack_r' <=> Issues(Issue(Head0, TRUE), "RD")
         /\ lock_pr_rd_r' <=> ~pr_rd_ack_r /\ (lock_pr_rd_r \/ (Finishing /\ process.pr_rd))
  BY DEF PathClk, AppNext, DispatcherClk, MaintClk, HandlerClk, LockNext

\* Between two sequences nothing is on its way.
LEMMA NothingLeft ==
  ASSUME CoreInv, MayStart(~dispatcher_busy_r)
  PROVE  /\ instr_r = NoInstr
         /\ \A op, f : op # "NONE" => ~InPath(op, f)
         /\ \A l \in Lanes : fifo[l] = << >>
<1>1. /\ instr_r = NoInstr
      /\ \A l \in Lanes : /\ fifo[l] = << >>
                          /\ pipe[l].first = NoInstr /\ pipe[l].second = NoInstr
  BY DEF CoreInv, TypeInv, SoftMCTypeOK, PathTypeOK, PathInv, StagesOrdered, Loaded,
         PipeRegInv, PipeRegs, MayStart
<1>2. \A l \in Lanes : \A op, f : ~InFifo(l, op, f)
  <2>1. \A l \in Lanes : 1 .. Len(fifo[l]) = {}
    BY <1>1
  <2>2. QED BY <2>1 DEF InFifo, Has
<1>3. QED BY <1>1, <1>2, NoInstrIsNone DEF InPath, NoneIn, InStage

\* The host's words are not the handler's.
LEMMA RxFrom ==
  ASSUME NEW rx \in {NoInstr} \cup WordsAfter(sent), sent \in Seq(Instruction)
  PROVE  rx.from # "maint"
<1>1. CASE rx = NoInstr
  BY <1>1 DEF NoInstr
<1>2. CASE rx \in WordsAfter(sent)
  <2> DEFINE R == [op : Opcodes, arg : Nat, from : {"app"}]
  <2>1. PICK p \in Programs : Len(p) > Len(sent) /\ rx = p[Len(sent) + 1]
    BY <1>2 DEF WordsAfter
  <2>2. p \in Seq(R)
    BY ProgramsAssumption
  <2>3. Len(sent) \in Nat
    OBVIOUS
  <2> HIDE DEF R
  <2>4. rx \in R
    BY <2>1, <2>2, <2>3
  <2>5. QED BY <2>4 DEF R
<1>3. QED BY <1>1, <1>2

-----------------------------------------------------------------------------
(* Periodic reads.  The controller's own reads and the host's are told      *)
(* apart by a lock that is set when the receiver has taken the sequence of  *)
(* the periodic read, and cleared clocks after the read has been issued.    *)
(* Which reads are on their way to the memory decides whether that is       *)
(* right.                                                                   *)

\* The controller's read is the sixth word of its sequence and so in lane 1, and
\* there is one of it.
ReadOnce ==
  /\ NoneIn(0, "RD", "maint")
  /\ Is(instr_r, "RD", "maint") => NoneIn(1, "RD", "maint")
  /\ LaneOnce(1, "RD")

\* The words of its sequence are dealt to the FIFOs in turn: where the word
\* before the one to send is, and how full that makes FIFO 1.
DealtToRead ==
  /\ maint_state \in {1, 3, 5} => sel_fifo = 0
  /\ maint_state \in {2, 4, 6} => sel_fifo = 1
  /\ maint_state \in {1, 2} => Len(fifo[1]) = 0
  /\ maint_state \in {3, 4} => Len(fifo[1]) = 1
  /\ maint_state \in {5, 6} => Len(fifo[1]) = 2
  /\ InPath("RD", "maint") <=> maint_state > 5

\* The lock is on exactly from the end of the sequence to the issue of its read,
\* and no read of the host's is on its way meanwhile.
TagInv ==
  /\ app.from # "maint"
  /\ ReadOnce
  /\ state_r = "MAINT" => instr_r # NoInstr
  /\ state_r = "IDLE" /\ ~process_iseq_r => sel_fifo = 0
  /\ state_r = "MAINT" /\ process.pr_rd => DealtToRead
  /\ Is(instr_r, "RD", "maint") => state_r = "MAINT" /\ process.pr_rd /\ maint_state = 6
  /\ state_r # "IDLE" => ~lock_pr_rd_r
  /\ InPath("RD", "app") => ~lock_pr_rd_r /\ state_r # "MAINT"
  /\ InPath("RD", "maint") => lock_pr_rd_r \/ (state_r = "MAINT" /\ process.pr_rd)
  /\ InPath("RD", "maint") => ~pr_rd_ack_r
  /\ lock_pr_rd_r => pr_rd_ack_r \/ InPath("RD", "maint")

-----------------------------------------------------------------------------
\* While the dispatcher works nothing is written: a read on its way stays on its
\* way until it is issued, and is acknowledged then.
LEMMA TagBusy ==
  ASSUME CoreInv, TagInv, dispatcher_busy_r, NEW rx, rx.from # "maint",
         PathClk(rx, MaintWord(aref_trfc), TRUE, lock_pr_rd_r), MaintClk(FALSE)
  PROVE  TagInv'
<1> DEFINE ack == en_ack(Head0, TRUE)
<1>1. /\ FifoClk
      /\ PipeClk(ack)
      /\ ReceiverClk(app, MaintWord(aref_trfc), ~dispatcher_busy_r)
      /\ app' \in {app, rx}
      /\ pr_rd_ack_r' <=> \E l \in Lanes : ack[l] /\ pipe[l].first.op = "RD"
      /\ lock_pr_rd_r' <=> ~pr_rd_ack_r /\ (lock_pr_rd_r \/ (Finishing /\ process.pr_rd))
  BY ClkStep, IssuedWord DEF CoreInv
<1>2. /\ state_r = "IDLE" /\ instr_r = NoInstr /\ state_r' = "IDLE" /\ instr_r' = NoInstr
  BY <1>1 DEF CoreInv, PathInv, ReceiverClk, Stay, StartApp, StartMaint, TakeApp, TakeMaint,
              Load, MayStart
<1>3. lock_pr_rd_r' <=> ~pr_rd_ack_r /\ lock_pr_rd_r
  BY <1>1, <1>2 DEF CoreInv, Handover, HandlerInStep, Finishing, MAINT_FIN
<1> HIDE DEF ack
<1>4. \A l \in Lanes :
        /\ \A f : NoneIn(l, "RD", f) => NoneIn(l, "RD", f)'
        /\ \A f : ~NoneIn(l, "RD", f) =>
                    ~NoneIn(l, "RD", f)' \/ (ack[l] /\ Is(pipe[l].first, "RD", f))
        /\ LaneOnce(l, "RD") => LaneOnce(l, "RD")'
        /\ LaneOnce(l, "RD") /\ ack[l] /\ Is(pipe[l].first, "RD", "maint") => NoneIn(l, "RD", "maint")'
  BY <1>1, BusyFlow
<1>5. \A f : ~Is(instr_r, "RD", f) /\ ~Is(instr_r, "RD", f)'
  BY <1>2, NoInstrIsNone
<1>6. ReadOnce'
  BY <1>4, <1>5 DEF ReadOnce, TagInv, Lanes
<1>7. \A f : InPath("RD", f)' => InPath("RD", f)
  BY <1>4, <1>5 DEF InPath
<1>8. InPath("RD", "maint") => lock_pr_rd_r /\ ~pr_rd_ack_r
  BY <1>2 DEF TagInv
<1>9. ASSUME pr_rd_ack_r' PROVE ~InPath("RD", "maint")'
  <2>1. PICK l \in Lanes : ack[l] /\ pipe[l].first.op = "RD"
    BY <1>1, <1>9
  <2>2. CASE Is(pipe[l].first, "RD", "maint")
    <3>1. l = 1
      BY <2>2 DEF TagInv, ReadOnce, NoneIn, InStage, Lanes
    <3>2. NoneIn(1, "RD", "maint")'
      BY <1>4, <2>1, <2>2, <3>1 DEF TagInv, ReadOnce
    <3>3. QED BY <1>5, <1>6, <3>2 DEF InPath, ReadOnce, Lanes
  <2>3. CASE Is(pipe[l].first, "RD", "app")
    <3>1. InPath("RD", "app")
      BY <2>3 DEF InPath, NoneIn, InStage
    <3>2. QED BY <1>7, <1>8, <3>1 DEF TagInv
  <2>4. pipe[l].first.from \in {"app", "maint"}
    <3>1. pipe[l].first \in InstrOrNone /\ pipe[l].first # NoInstr
      BY <2>1 DEF CoreInv, TypeInv, SoftMCTypeOK, PathTypeOK, PipeRegs, Slot, NoInstr
    <3>2. QED BY <3>1 DEF Instruction
  <2>5. QED BY <2>1, <2>2, <2>3, <2>4 DEF Is
<1>10. lock_pr_rd_r' => pr_rd_ack_r' \/ InPath("RD", "maint")'
  BY <1>1, <1>3, <1>4, <1>5 DEF TagInv, InPath, Is
<1>11. app'.from # "maint"
  BY <1>1 DEF TagInv
<1>12. InPath("RD", "app")' => ~lock_pr_rd_r'
  BY <1>3, <1>7 DEF TagInv
<1>13. InPath("RD", "maint")' => lock_pr_rd_r'
  BY <1>3, <1>7, <1>8
<1>14. state_r' # "MAINT" /\ state_r' = "IDLE" /\ ~Is(instr_r, "RD", "maint")'
  BY <1>2, <1>5
<1>15. state_r' = "IDLE" /\ ~process_iseq_r' => sel_fifo' = 0
  <2>1. ~process_iseq_r
    BY DEF CoreInv, PathInv
  <2>2. sel_fifo' = sel_fifo
    BY <1>1, <1>2, <2>1, ReceiverStep DEF CoreInv, TypeInv, SoftMCTypeOK, SelNext
  <2>3. QED BY <1>2, <2>1, <2>2 DEF TagInv
<1>16. QED BY <1>6, <1>9, <1>10, <1>11, <1>12, <1>13, <1>14, <1>15, Zenon DEF TagInv

-----------------------------------------------------------------------------
(* The dispatcher is idle: nothing is issued, and the receiver may work.   *)

\* The word the handler presents is a read exactly when it is the sixth of a
\* periodic read's.
LEMMA WordRead ==
  ASSUME TypeInv, maint_process
  PROVE  /\ MaintWord(aref_trfc).from = "maint"
         /\ MaintWord(aref_trfc).op = "RD" <=> process.pr_rd /\ maint_state = 5
<1>1. aref_trfc \in Nat /\ maint_state \in 0 .. 10
  BY DEF TypeInv, SoftMCTypeOK, MAINT_FIN
<1>2. /\ Len(Sequence(aref_trfc)) = IF process.pr_rd THEN 10 ELSE 4
  BY <1>1, SequenceType
<1>3. CASE ~(maint_state < Len(Sequence(aref_trfc)))
  <2>1. MaintWord(aref_trfc) = Maint("END", 0)
    BY <1>3 DEF MaintWord
  <2>2. process.pr_rd => maint_state # 5
    BY <1>1, <1>2, <1>3
  <2>3. QED BY <2>1, <2>2 DEF Maint
<1>4. CASE maint_state < Len(Sequence(aref_trfc)) /\ process.pr_rd
  <2>1. MaintWord(aref_trfc) = PeriodicRead[maint_state + 1]
    BY <1>4 DEF MaintWord, Sequence
  <2>2. maint_state \in 0 .. 9
    BY <1>1, <1>2, <1>4
  <2>3. \A k \in 1 .. 10 : /\ PeriodicRead[k].from = "maint"
                           /\ PeriodicRead[k].op = "RD" <=> k = 6
    BY DEF PeriodicRead, Maint
  <2>4. QED BY <1>4, <2>1, <2>2, <2>3
<1>5. CASE maint_state < Len(Sequence(aref_trfc)) /\ ~process.pr_rd
  <2>1. MaintWord(aref_trfc) = Sequence(aref_trfc)[maint_state + 1]
    BY <1>5 DEF MaintWord
  <2>2. maint_state \in 0 .. 3
    BY <1>1, <1>2, <1>5
  <2>3. \A k \in 1 .. 4 : /\ Sequence(aref_trfc)[k].from = "maint"
                          /\ Sequence(aref_trfc)[k].op # "RD"
    BY <1>5 DEF Sequence, ZQCalibration, AutoRefresh, Maint
  <2>4. QED BY <1>5, <2>1, <2>2, <2>3
<1>6. QED BY <1>3, <1>4, <1>5

\* What a clock of an idle dispatcher does to the reads on their way.
LEMMA IdlePath ==
  ASSUME FifoDepth >= 3, CoreInv, TagInv, ~dispatcher_busy_r, NEW rx,
         PathClk(rx, MaintWord(aref_trfc), TRUE, lock_pr_rd_r), MaintClk(FALSE)
  PROVE  /\ ~pr_rd_ack_r /\ ~pr_rd_ack_r'
         /\ lock_pr_rd_r' <=> lock_pr_rd_r \/ (Finishing /\ process.pr_rd)
         /\ InPath("RD", "maint") => InPath("RD", "maint")'
         /\ \A f : InPath("RD", f)' => InPath("RD", f) \/ Is(instr_r, "RD", f)'
         /\ (Is(instr_r, "RD", "maint")' => ~InPath("RD", "maint")) => ReadOnce'
<1> DEFINE ack == en_ack(Head0, TRUE)
<1>1. /\ FifoClk
      /\ PipeClk(ack)
      /\ pr_rd_ack_r' <=> \E l \in Lanes : ack[l] /\ pipe[l].first.op = "RD"
      /\ lock_pr_rd_r' <=> ~pr_rd_ack_r /\ (lock_pr_rd_r \/ (Finishing /\ process.pr_rd))
  BY ClkStep, IssuedWord DEF CoreInv
<1> HIDE DEF ack
<1>2. ~pr_rd_ack_r
  BY DEF CoreInv, Handover
<1>3. ~pr_rd_ack_r'
  <2>1. \A l \in Lanes : pipe[l].first = NoInstr
    BY DEF CoreInv, Handover, Loaded
  <2>2. QED BY <1>1, <2>1 DEF NoInstr
<1>4. ASSUME NEW l \in Lanes
      PROVE  /\ \A f : ~InStage(l, "RD", f) /\ ~InStage(l, "RD", f)'
             /\ FifoWr(l) /\ Len(fifo[l]) < FifoDepth => fifo'[l] = fifo[l] \o <<instr_r>>
             /\ ~(FifoWr(l) /\ Len(fifo[l]) < FifoDepth) => fifo'[l] = fifo[l]
             /\ fifo[l] \in Seq(Instruction)
             /\ FifoWr(l) => instr_r \in Instruction
  BY <1>1, <1>4, IdleFlow DEF CoreInv, TypeInv, SoftMCTypeOK, PathTypeOK, FifoWr
<1>5. ASSUME NEW l \in Lanes
      PROVE  /\ \A f : InFifo(l, "RD", f) => InFifo(l, "RD", f)'
             /\ \A f : InFifo(l, "RD", f)' => InFifo(l, "RD", f) \/ (FifoWr(l) /\ Is(instr_r, "RD", f))
             /\ \A f : FifoWr(l) /\ Len(fifo[l]) < FifoDepth /\ Is(instr_r, "RD", f)
                         => InFifo(l, "RD", f)'
             /\ /\ Once(fifo[l], "RD")
                /\ FifoWr(l) /\ Is(instr_r, "RD", "maint") => ~InFifo(l, "RD", "maint")
                => Once(fifo'[l], "RD")
  <2>1. CASE FifoWr(l) /\ Len(fifo[l]) < FifoDepth
    <3>1. /\ fifo'[l] = fifo[l] \o <<instr_r>>
          /\ fifo[l] \in Seq(Instruction) /\ instr_r \in Instruction
      BY <1>4, <1>5, <2>1
    <3>2. QED BY <2>1, <3>1, AppendWords DEF InFifo
  <2>2. CASE ~(FifoWr(l) /\ Len(fifo[l]) < FifoDepth)
    <3>1. fifo'[l] = fifo[l]
      BY <1>4, <1>5, <2>2
    <3>2. QED BY <2>2, <3>1 DEF InFifo
  <2>3. QED BY <2>1, <2>2
<1>6. \A l \in Lanes : \A f : NoneIn(l, "RD", f) <=> ~InFifo(l, "RD", f)
  BY <1>4 DEF NoneIn
<1>7. \A l \in Lanes : \A f : NoneIn(l, "RD", f)' <=> ~InFifo(l, "RD", f)'
  BY <1>4 DEF NoneIn
<1>8. Is(instr_r, "RD", "maint") => FifoWr(1) /\ ~FifoWr(0) /\ Len(fifo[1]) < FifoDepth
  <2>1. SUFFICES ASSUME Is(instr_r, "RD", "maint")
                 PROVE  FifoWr(1) /\ ~FifoWr(0) /\ Len(fifo[1]) < FifoDepth
    OBVIOUS
  <2>2. sel_fifo = 1 /\ Len(fifo[1]) = 2
    BY <2>1 DEF TagInv, DealtToRead
  <2>3. FifoDepth \in Nat
    BY PathAssumption
  <2>4. QED BY <2>1, <2>2, <2>3, NoInstrIsNone DEF FifoWr
<1>9. InPath("RD", "maint") => InPath("RD", "maint")'
  BY <1>5, <1>6, <1>7, <1>8 DEF InPath, Lanes
<1>10. \A f : InPath("RD", f)' => InPath("RD", f) \/ Is(instr_r, "RD", f)'
  BY <1>5, <1>6, <1>7 DEF InPath
<1>11. ASSUME Is(instr_r, "RD", "maint")' => ~InPath("RD", "maint")
       PROVE  ReadOnce'
  <2>1. NoneIn(0, "RD", "maint")'
    BY <1>5, <1>6, <1>7, <1>8 DEF TagInv, ReadOnce, Lanes
  <2>2. Is(instr_r, "RD", "maint")' => NoneIn(1, "RD", "maint")'
    BY <1>5, <1>6, <1>7, <1>11 DEF InPath, Lanes
  <2>3. Once(fifo'[1], "RD")
    BY <1>5, <1>6 DEF TagInv, ReadOnce, LaneOnce, Lanes
  <2>4. LaneOnce(1, "RD")'
    BY <1>4, <2>3 DEF LaneOnce, InStage, Lanes
  <2>5. QED BY <2>1, <2>2, <2>4 DEF ReadOnce
<1>12. QED BY <1>1, <1>2, <1>3, <1>9, <1>10, <1>11

\* The receiver takes one more word of the periodic read's sequence.
LEMMA DealtStep ==
  ASSUME FifoDepth >= 3, CoreInv, TagInv, ~dispatcher_busy_r, NEW rx,
         PathClk(rx, MaintWord(aref_trfc), TRUE, lock_pr_rd_r), MaintClk(FALSE),
         state_r = "MAINT", process.pr_rd, ~Finishing,
         instr_r' = MaintWord(aref_trfc), sel_fifo' = 1 - sel_fifo
  PROVE  /\ DealtToRead'
         /\ Is(instr_r, "RD", "maint")' => maint_state' = 6 /\ ~InPath("RD", "maint")
<1> DEFINE m == maint_state
           s == sel_fifo
           n == Len(fifo[1])
           nn == Len(fifo'[1])
<1>1. /\ m \in 1 .. 9
      /\ Len(Sequence(aref_trfc)) = 10
      /\ maint_process
      /\ aref_trfc \in Nat
  <2>1. aref_trfc \in Nat /\ m \in 0 .. 10 /\ m # 10
    BY DEF CoreInv, TypeInv, SoftMCTypeOK, MAINT_FIN, Finishing, maint_process
  <2>2. m # 0
    BY DEF CoreInv, Handover, HandlerInStep
  <2>3. QED BY <2>1, <2>2, SequenceType DEF maint_process
<1>2. /\ maint_state' = StateNext(MaintAcked, aref_trfc)
      /\ MaintAcked
      /\ FifoClk
  BY <1>1 DEF MaintClk, HandlerClk, MaintAcked, maint_ack, PathClk
<1>3. /\ m \in 1 .. 7 => maint_state' = m + 1
      /\ m \in 8 .. 9 => maint_state' \in 9 .. 10
  BY <1>1, <1>2 DEF StateNext, PR_RD_WAIT_PRE2, MAINT_FIN
<1>4. /\ InPath("RD", "maint") => InPath("RD", "maint")'
      /\ InPath("RD", "maint")' => InPath("RD", "maint") \/ Is(instr_r, "RD", "maint")'
  BY IdlePath
<1>5. /\ Is(instr_r, "RD", "maint")' <=> m = 5
      /\ InPath("RD", "maint") <=> m > 5
  BY <1>1, WordRead DEF TagInv, DealtToRead, Is, CoreInv
<1>6. InPath("RD", "maint")' <=> m >= 5
  <2>1. m = 5 => InPath("RD", "maint")'
    BY <1>5 DEF InPath
  <2>2. QED BY <1>1, <1>4, <1>5, <2>1
<1>7. /\ instr_r # NoInstr
      /\ m \in {1, 3, 5} => s = 0
      /\ m \in {2, 4, 6} => s = 1
      /\ m \in {1, 2} => n = 0
      /\ m \in {3, 4} => n = 1
      /\ m \in {5, 6} => n = 2
  BY DEF TagInv, DealtToRead
<1>8. /\ n \in Nat
      /\ s = 1 /\ n < FifoDepth => nn = n + 1
      /\ s = 0 => nn = n
  BY <1>2, <1>7, FifoFills DEF n, nn, FifoWr, Lanes, CoreInv, TypeInv, SoftMCTypeOK
<1>9. FifoDepth \in Nat
  BY PathAssumption
<1> HIDE DEF n, nn
<1>10. /\ m \in {1, 2, 3, 4} => n < FifoDepth
       /\ m = 1 => nn = 0
       /\ m \in {2, 3} => nn = 1
       /\ m \in {4, 5} => nn = 2
  <2>1. CASE m \in {1, 3, 5}
    BY <1>7, <1>8, <1>9, <2>1
  <2>2. CASE m = 2
    BY <1>7, <1>8, <1>9, <2>2
  <2>3. CASE m = 4
    BY <1>7, <1>8, <1>9, <2>3
  <2>4. CASE m \notin 1 .. 5
    BY <2>4
  <2>5. QED BY <1>1, <2>1, <2>2, <2>3, <2>4
<1>11. /\ maint_state' \in {1, 3, 5} => sel_fifo' = 0
       /\ maint_state' \in {2, 4, 6} => sel_fifo' = 1
  BY <1>1, <1>3, <1>7
<1>12. /\ maint_state' \in {1, 2} => nn = 0
       /\ maint_state' \in {3, 4} => nn = 1
       /\ maint_state' \in {5, 6} => nn = 2
  BY <1>1, <1>3, <1>10
<1>13. InPath("RD", "maint")' <=> maint_state' > 5
  BY <1>1, <1>3, <1>6
<1>14. Is(instr_r, "RD", "maint")' => maint_state' = 6 /\ ~InPath("RD", "maint")
  BY <1>1, <1>3, <1>5
<1>15. QED BY <1>11, <1>12, <1>13, <1>14, Zenon DEF DealtToRead, nn

LEMMA TagIdle ==
  ASSUME FifoDepth >= 3, CoreInv, TagInv, ~dispatcher_busy_r, NEW rx, rx.from # "maint",
         PathClk(rx, MaintWord(aref_trfc), TRUE, lock_pr_rd_r), MaintClk(FALSE)
  PROVE  TagInv'
<1> DEFINE word == MaintWord(aref_trfc)
<1>1. /\ ReceiverClk(app, word, ~dispatcher_busy_r)
      /\ FifoClk
      /\ app' \in {app, rx}
      /\ maint_state' = IF maint_process THEN StateNext(MaintAcked, aref_trfc)
                        ELSE Enter(periodic_rd_request_r, zq_request(dfi_init_complete),
                                   autoref_request_r).state
  BY ClkStep DEF CoreInv, MaintClk, HandlerClk
<1>2. app'.from # "maint"
  BY <1>1 DEF TagInv
<1>3. /\ ~pr_rd_ack_r /\ ~pr_rd_ack_r'
      /\ lock_pr_rd_r' <=> lock_pr_rd_r \/ (Finishing /\ process.pr_rd)
      /\ InPath("RD", "maint") => InPath("RD", "maint")'
      /\ \A f : InPath("RD", f)' => InPath("RD", f) \/ Is(instr_r, "RD", f)'
      /\ (Is(instr_r, "RD", "maint")' => ~InPath("RD", "maint")) => ReadOnce'
  BY IdlePath
<1>4. state_r # "MAINT" => ~Finishing
  BY DEF CoreInv, Handover, HandlerInStep, Finishing, MAINT_FIN
<1>5. /\ state_r # "IDLE" => ~lock_pr_rd_r
      /\ InPath("RD", "app") => ~lock_pr_rd_r /\ state_r # "MAINT"
      /\ InPath("RD", "maint") => lock_pr_rd_r \/ (state_r = "MAINT" /\ process.pr_rd)
      /\ lock_pr_rd_r => InPath("RD", "maint")
  BY <1>3 DEF TagInv
<1> HIDE DEF word
<1>6. CASE Stay(app, word, ~dispatcher_busy_r)
  <2>1. /\ state_r = "IDLE" /\ state_r' = "IDLE" /\ instr_r' = NoInstr
        /\ sel_fifo' = SelNext
    BY <1>6 DEF Stay, Load
  <2>2. \A f : ~Is(instr_r, "RD", f)'
    BY <2>1, NoInstrIsNone
  <2>3. lock_pr_rd_r' <=> lock_pr_rd_r
    BY <1>3, <1>4, <2>1
  <2>4. sel_fifo' = 0
    BY <2>1 DEF SelNext, TagInv, CoreInv, PathInv
  <2>5. QED BY <1>2, <1>3, <1>5, <2>1, <2>2, <2>3, <2>4, Zenon DEF TagInv
<1>7. CASE StartApp(app, ~dispatcher_busy_r)
  <2>1. /\ state_r = "IDLE" /\ state_r' = "APP" /\ instr_r' = app
        /\ \A f : ~InPath("RD", f)
    BY <1>7, NothingLeft DEF StartApp, Load, MayStart
  <2>2. ~Is(instr_r, "RD", "maint")'
    BY <2>1 DEF Is, TagInv
  <2>3. ~lock_pr_rd_r'
    BY <1>3, <1>4, <1>5, <2>1
  <2>4. ~InPath("RD", "maint")' /\ ReadOnce'
    BY <1>3, <2>1, <2>2
  <2>5. state_r' # "IDLE" /\ state_r' # "MAINT"
    BY <2>1
  <2>6. QED BY <1>2, <1>3, <2>2, <2>3, <2>4, <2>5, Zenon DEF TagInv
<1>8. CASE StartMaint(app, word, ~dispatcher_busy_r)
  <2>1. /\ state_r = "IDLE" /\ state_r' = "MAINT" /\ instr_r' = word
        /\ word # NoInstr /\ app = NoInstr
        /\ sel_fifo' = SelNext
        /\ instr_r = NoInstr /\ ~process_iseq_r
        /\ \A f : ~InPath("RD", f)
        /\ \A l \in Lanes : fifo[l] = << >>
        /\ MaintAcked
    BY <1>8, NothingLeft DEF StartMaint, Load, MayStart, MaintAcked, maint_ack, word
  <2>2. maint_process /\ maint_state = 0
    BY <2>1 DEF word, MaintWord, CoreInv, Handover, HandlerInStep
  <2>3. \A f : ~Is(instr_r, "RD", f)'
    BY <2>1, <2>2, WordRead DEF Is, word, CoreInv
  <2>4. ~lock_pr_rd_r'
    BY <1>3, <1>4, <1>5, <2>1
  <2>5. (\A f : ~InPath("RD", f)') /\ ReadOnce'
    BY <1>3, <2>1, <2>3
  <2>6. DealtToRead'
    <3>1. Len(Sequence(aref_trfc)) \in {4, 10}
      BY SequenceType DEF CoreInv, TypeInv
    <3>2. maint_state' = 1
      <4> DEFINE n == Len(Sequence(aref_trfc))
      <4>1. maint_state' =
              IF ~MaintAcked \/ 0 >= n THEN 0
              ELSE IF process.pr_rd /\ 0 = 8 /\ cur_bus_dir_r = BUS_DIR_READ THEN MAINT_FIN
              ELSE IF 0 + 1 = n THEN MAINT_FIN ELSE 0 + 1
        BY <1>1, <2>2, Zenon DEF StateNext, PR_RD_WAIT_PRE2
      <4>2. n = 4 \/ n = 10
        BY <3>1
      <4> HIDE DEF n
      <4>3. QED BY <2>1, <4>1, <4>2
    <3>3. sel_fifo' = 0
      BY <2>1 DEF SelNext, TagInv
    <3>4. Len(fifo'[1]) = 0
      <4>1. 1 \in Lanes /\ ~FifoWr(1)
        BY <2>1 DEF Lanes, FifoWr
      <4>2. Len(fifo'[1]) = Len(fifo[1])
        BY <1>1, <4>1, FifoFills DEF CoreInv, TypeInv, SoftMCTypeOK
      <4>3. QED BY <2>1, <4>1, <4>2
    <3>5. QED BY <2>5, <3>2, <3>3, <3>4 DEF DealtToRead
  <2>7. state_r' # "IDLE" /\ instr_r' # NoInstr
    BY <2>1
  <2>8. QED BY <1>2, <1>3, <2>3, <2>4, <2>5, <2>6, <2>7, Zenon DEF TagInv
<1>9. CASE TakeApp(app)
  <2>1. /\ state_r = "APP" /\ instr_r' = app
        /\ state_r' \in {"APP", "IDLE"}
        /\ state_r' = "IDLE" => process_iseq_r'
    BY <1>9 DEF TakeApp, Load
  <2>2. ~Is(instr_r, "RD", "maint")'
    BY <2>1 DEF Is, TagInv
  <2>3. ~lock_pr_rd_r'
    BY <1>3, <1>4, <1>5, <2>1
  <2>4. ~InPath("RD", "maint")' /\ ReadOnce'
    BY <1>3, <1>5, <2>1, <2>2
  <2>5. state_r' # "MAINT"
    BY <2>1
  <2>6. QED BY <1>2, <1>3, <2>1, <2>2, <2>3, <2>4, <2>5, Zenon DEF TagInv
<1>10. CASE TakeMaint(word) /\ word.op = "END"
  <2>1. /\ state_r = "MAINT" /\ instr_r' = NoInstr
        /\ state_r' = "IDLE" /\ process_iseq_r'
    BY <1>10 DEF TakeMaint, Load
  <2>2. maint_process /\ Finishing
    BY <1>10, <2>1, MaintWordOp DEF CoreInv, Handover, HandlerInStep, Finishing, word
  <2>3. \A f : ~Is(instr_r, "RD", f)'
    BY <2>1, NoInstrIsNone
  <2>4. ReadOnce'
    BY <1>3, <2>3
  <2>5. ~InPath("RD", "app")'
    BY <1>3, <1>5, <2>1, <2>3
  <2>6. lock_pr_rd_r' <=> process.pr_rd
    BY <1>3, <1>5, <2>1, <2>2
  <2>7. process.pr_rd <=> InPath("RD", "maint")
    <3>1. process.pr_rd => maint_state > 5 /\ DealtToRead
      BY <2>1, <2>2 DEF TagInv, Finishing, MAINT_FIN
    <3>2. process.pr_rd => InPath("RD", "maint")
      BY <3>1 DEF DealtToRead
    <3>3. QED BY <1>5, <2>1, <3>2
  <2>8. lock_pr_rd_r' <=> InPath("RD", "maint")'
    BY <1>3, <2>3, <2>6, <2>7
  <2>9. state_r' # "MAINT"
    BY <2>1
  <2>10. QED BY <1>2, <1>3, <2>1, <2>3, <2>4, <2>5, <2>8, <2>9, Zenon DEF TagInv
<1>11. CASE TakeMaint(word) /\ word.op # "END"
  <2>1. /\ state_r = "MAINT" /\ state_r' = "MAINT" /\ instr_r' = word
        /\ sel_fifo' = SelNext
    BY <1>11 DEF TakeMaint, Load
  <2>2. maint_process /\ ~Finishing /\ word # NoInstr /\ word.from = "maint"
    BY <1>11, <2>1, MaintWordOp, WordRead
       DEF CoreInv, Handover, HandlerInStep, Finishing, word
  <2>3. sel_fifo' = 1 - sel_fifo
    BY <2>1 DEF SelNext, CoreInv, Handover, TagInv
  <2>4. process'.pr_rd <=> process.pr_rd
    BY <1>3, <2>2, FlagsNext DEF CoreInv
  <2>5. ~lock_pr_rd_r'
    BY <1>3, <1>5, <2>1, <2>2
  <2>6. ~InPath("RD", "app")'
    BY <1>3, <1>5, <2>1, <2>2 DEF Is
  <2>7. state_r' # "IDLE" /\ instr_r' # NoInstr /\ state_r' = "MAINT"
    BY <2>1, <2>2
  <2>8. CASE process.pr_rd
    <3>1. /\ DealtToRead'
          /\ Is(instr_r, "RD", "maint")' => maint_state' = 6 /\ ~InPath("RD", "maint")
      BY <2>1, <2>2, <2>3, <2>8, DealtStep DEF word
    <3>2. ReadOnce'
      BY <1>3, <3>1
    <3>3. process'.pr_rd
      BY <2>4, <2>8
    <3>4. QED BY <1>2, <1>3, <2>5, <2>6, <2>7, <3>1, <3>2, <3>3, Zenon DEF TagInv
  <2>9. CASE ~process.pr_rd
    <3>1. ~Is(instr_r, "RD", "maint")'
      BY <2>1, <2>2, <2>9, WordRead DEF Is, word, CoreInv
    <3>2. ~InPath("RD", "maint")' /\ ReadOnce'
      BY <1>3, <1>5, <2>1, <2>9, <3>1
    <3>3. ~process'.pr_rd
      BY <2>4, <2>9
    <3>4. QED BY <1>2, <1>3, <2>5, <2>6, <2>7, <3>1, <3>2, <3>3, Zenon DEF TagInv
  <2>10. QED BY <2>8, <2>9
<1>12. QED BY <1>1, <1>6, <1>7, <1>8, <1>9, <1>10, <1>11 DEF ReceiverClk, TakeMaint

-----------------------------------------------------------------------------
(* The rest: reset, the first state, and the property itself.              *)

\* Nothing in the path, the lock off.
NothingThere ==
  /\ app.from # "maint" /\ state_r = "IDLE" /\ instr_r = NoInstr
  /\ ~lock_pr_rd_r /\ sel_fifo = 0
  /\ \A l \in Lanes : /\ fifo[l] = << >>
                      /\ pipe[l].first = NoInstr /\ pipe[l].second = NoInstr

LEMMA TagEmpty == NothingThere => TagInv
<1> SUFFICES ASSUME NothingThere PROVE TagInv
  OBVIOUS
<1> USE DEF NothingThere
<1>1. \A l \in Lanes : 1 .. Len(fifo[l]) = {}
  OBVIOUS
<1>2. \A l \in Lanes : Once(fifo[l], "RD") /\ \A f : NoneIn(l, "RD", f) /\ ~InStage(l, "RD", f)
  BY <1>1, NoInstrIsNone DEF NoneIn, InStage, InFifo, Has, Once
<1>3. \A f : ~InPath("RD", f) /\ ~Is(instr_r, "RD", f)
  BY <1>2, NoInstrIsNone DEF InPath
<1>4. ReadOnce
  BY <1>2, <1>3, NoInstrIsNone DEF ReadOnce, LaneOnce, Lanes
<1>5. QED BY <1>3, <1>4 DEF TagInv

LEMMA TagInit == Init => TagInv
<1> SUFFICES ASSUME Init PROVE TagInv
  OBVIOUS
<1>1. \A l \in Lanes : pipe[l] = [ready |-> TRUE, first |-> NoInstr, second |-> NoInstr]
  BY DEF Init, PathInit, PipeRegInit
<1>2. \A l \in Lanes : /\ pipe[l].first = NoInstr /\ pipe[l].second = NoInstr
                       /\ fifo[l] = << >>
  BY <1>1 DEF Init, PathInit
<1>3. /\ app.from # "maint" /\ state_r = "IDLE" /\ instr_r = NoInstr
      /\ ~lock_pr_rd_r /\ sel_fifo = 0
  BY DEF Init, PathInit, ReceiverInit, HandlerInit, NoInstr
<1>4. QED BY <1>2, <1>3, TagEmpty DEF NothingThere

LEMMA TagRst ==
  ASSUME TagInv, Rst
  PROVE  TagInv'
<1>1. /\ app' \in {app, NoInstr}
      /\ ReceiverRst /\ FifoRst /\ PipeRst(en_ack(Head0, TRUE))
      /\ ~lock_pr_rd_r'
  BY DEF Rst, PathRst, AppNext, MaintClk, HandlerClk
<1>2. \A l \in Lanes : pipe'[l] = PipeRegRst(pipe[l], en_ack(Head0, TRUE)[l])
  BY <1>1 DEF PipeRst
<1>3. \A p, a : PipeRegRst(p, a).first = NoInstr /\ PipeRegRst(p, a).second = NoInstr
  BY DEF PipeRegRst
<1>4. app'.from # "maint" /\ state_r' = "IDLE" /\ instr_r' = NoInstr /\ sel_fifo' = 0
  BY <1>1 DEF TagInv, ReceiverRst, NoInstr
<1>5. \A l \in Lanes : /\ fifo'[l] = << >>
                       /\ pipe'[l].first = NoInstr /\ pipe'[l].second = NoInstr
  <2>1. ASSUME NEW l \in Lanes
        PROVE  pipe'[l].first = NoInstr /\ pipe'[l].second = NoInstr
    <3> DEFINE p == pipe[l]
               a == en_ack(Head0, TRUE)[l]
    <3>1. pipe'[l] = PipeRegRst(p, a)
      BY <1>2
    <3> HIDE DEF p, a
    <3>2. PipeRegRst(p, a).first = NoInstr /\ PipeRegRst(p, a).second = NoInstr
      BY <1>3
    <3>3. QED BY <3>1, <3>2
  <2>2. QED BY <1>1, <2>1 DEF FifoRst
<1>6. NothingThere'
  BY <1>1, <1>4, <1>5 DEF NothingThere
<1>7. QED BY <1>6, TagEmpty, PTL

\* A read issued is the handler's exactly when the lock is on: the stages of an
\* idle dispatcher are empty, and the receiver is idle while it works.
LEMMA TagIssue ==
  ASSUME CoreInv, TagInv, NEW k \in 1 .. 2, Issue(Head0, TRUE)[k].op = "RD"
  PROVE  lock_pr_rd_r <=> Issue(Head0, TRUE)[k].from = "maint"
<1>1. LaneOf(0) \in Lanes /\ LaneOf(1) \in Lanes
  BY DEF CoreInv, TypeInv, SoftMCTypeOK, PathTypeOK, LaneOf, Lanes
<1>2. NoInstr.op # "RD"
  BY DEF NoInstr
<1>3. PICK l \in Lanes : Issue(Head0, TRUE)[k] = pipe[l].first
  <2>1. \A l \in Lanes : Head0[l] = pipe[l].first
    BY DEF Head0
  <2>2. \A n \in 1 .. 2 : Issue(Head0, TRUE)[n] \in {Head0[LaneOf(0)], Head0[LaneOf(1)], NoInstr}
    <3>1. /\ Issue(Head0, TRUE)[1] \in {Head0[LaneOf(0)], NoInstr}
          /\ Issue(Head0, TRUE)[2] \in {Head0[LaneOf(1)], NoInstr}
      BY DEF Issue
    <3>2. SUFFICES ASSUME NEW n \in 1 .. 2
                   PROVE  Issue(Head0, TRUE)[n] \in {Head0[LaneOf(0)], Head0[LaneOf(1)], NoInstr}
      OBVIOUS
    <3>3. n = 1 \/ n = 2
      OBVIOUS
    <3>4. QED BY <3>1, <3>3
  <2>3. QED BY <1>1, <1>2, <2>1, <2>2
<1>4. pipe[l].first \in Instruction
  BY <1>2, <1>3 DEF CoreInv, TypeInv, SoftMCTypeOK, PathTypeOK, PipeRegs, Slot
<1>5. state_r = "IDLE"
  BY <1>2, <1>3 DEF CoreInv, Handover, Loaded
<1>6. InPath("RD", pipe[l].first.from)
  BY <1>3 DEF InPath, NoneIn, InStage, Is
<1>7. pipe[l].first.from \in {"app", "maint"}
  BY <1>4 DEF Instruction
<1>8. QED BY <1>3, <1>5, <1>6, <1>7 DEF TagInv

LEMMA TaggedStep ==
  ASSUME CoreInv, TagInv, Next
  PROVE  PeriodicReadTagged'
<1>1. dfi' = DfiOut(Issue(Head0, TRUE), lock_pr_rd_r)
  BY DEF Next, Clk, Rst, PathClk, PathRst, DispatcherClk, DispatcherRst
<1>2. /\ dfi'.cmd = Issue(Head0, TRUE)
      /\ dfi'.rddata_en_odd = IF Issues(Issue(Head0, TRUE), "RD") THEN lock_pr_rd_r
                              ELSE burst_r.odd
  BY <1>1 DEF DfiOut
<1>3. ASSUME NEW k \in 1 .. 2, dfi'.cmd[k].op = "RD"
      PROVE  dfi'.rddata_en_odd <=> dfi'.cmd[k].from = "maint"
  <2>1. Issue(Head0, TRUE)[k].op = "RD"
    BY <1>2, <1>3
  <2>2. Issues(Issue(Head0, TRUE), "RD")
    BY <2>1, Zenon DEF Issues
  <2>3. lock_pr_rd_r <=> Issue(Head0, TRUE)[k].from = "maint"
    BY <2>1, TagIssue
  <2>4. QED BY <1>2, <2>2, <2>3
<1>4. QED BY <1>3 DEF PeriodicReadTagged

LEMMA TagStep ==
  ASSUME FifoDepth >= 3, CoreInv, TagInv, PeriodicReadTagged, [Next]_vars
  PROVE  TagInv' /\ PeriodicReadTagged'
<1>1. CASE Clk
  <2>1. PICK rx \in {NoInstr} \cup WordsAfter(sent) :
          /\ PathClk(rx, MaintWord(aref_trfc), TRUE, lock_pr_rd_r)
          /\ MaintClk(FALSE)
    BY <1>1 DEF Clk
  <2>2. rx.from # "maint"
    BY RxFrom DEF CoreInv, TypeInv
  <2>3. TagInv'
    BY <2>1, <2>2, TagBusy, TagIdle
  <2>4. QED BY <1>1, <2>3, TaggedStep DEF Next
<1>2. CASE Rst
  BY <1>2, TagRst, TaggedStep DEF Next
<1>3. CASE UNCHANGED vars
  <2>1. UNCHANGED <<app, fifo, pipe, instr_r, sel_fifo, state_r, process_iseq_r,
                    process, maint_state, lock_pr_rd_r, pr_rd_ack_r, dfi>>
    BY <1>3 DEF vars, pathVars, receiverVars, dispatcherVars, handlerVars
  <2>2. \A l \in Lanes : \A f : /\ InStage(l, "RD", f)' <=> InStage(l, "RD", f)
                                /\ InFifo(l, "RD", f)' <=> InFifo(l, "RD", f)
                                /\ NoneIn(l, "RD", f)' <=> NoneIn(l, "RD", f)
    BY <2>1 DEF InStage, InFifo, NoneIn
  <2>3. \A f : InPath("RD", f)' <=> InPath("RD", f)
    BY <2>1, <2>2 DEF InPath
  <2>4. ReadOnce' <=> ReadOnce
    BY <2>1, <2>2 DEF ReadOnce, LaneOnce, Lanes
  <2>5. DealtToRead' <=> DealtToRead
    BY <2>1, <2>3 DEF DealtToRead
  <2>6. TagInv'
    BY <2>1, <2>3, <2>4, <2>5 DEF TagInv
  <2>7. PeriodicReadTagged'
    BY <2>1 DEF PeriodicReadTagged
  <2>8. QED BY <2>6, <2>7
<1>4. Clk \/ Rst \/ UNCHANGED vars
  BY DEF Next
<1>5. QED BY <1>1, <1>2, <1>3, <1>4

\* A read's data is kept from the host exactly when the read was the controller's
\* own, whatever sequences the host sends between, before and behind the
\* maintenance sequences: the lock that decides it is set while the controller's
\* read is on its way and cleared before the next read can be.
THEOREM ReadsTagged == ASSUME FifoDepth >= 3 PROVE Spec => []PeriodicReadTagged
<1>1. Init => CoreInv /\ TagInv /\ PeriodicReadTagged
  <2>1. Init => CoreInv
    BY TypeInit, HandoverInit, PathInvInit DEF CoreInv, Init
  <2>2. Init => PeriodicReadTagged
    <3>1. Init => dfi.cmd = <<NoInstr, NoInstr>> /\ NoInstr.op # "RD"
      BY DEF Init, PathInit, DispatcherInit, DfiIdle, NoInstr
    <3>2. \A k \in 1 .. 2 : <<NoInstr, NoInstr>>[k] = NoInstr
      OBVIOUS
    <3>3. QED BY <3>1, <3>2 DEF PeriodicReadTagged
  <2>3. QED BY <2>1, <2>2, TagInit
<1>2. CoreInv /\ TagInv /\ PeriodicReadTagged /\ [Next]_vars
        => CoreInv' /\ TagInv' /\ PeriodicReadTagged'
  <2>1. CoreInv /\ [Next]_vars => CoreInv'
    BY TypeStep, TypeStutter, HandoverStep, PathInvNext DEF CoreInv
  <2>2. QED BY <2>1, TagStep
<1>3. QED BY <1>1, <1>2, PTL DEF Spec

-----------------------------------------------------------------------------
(* Refreshes.  How many auto-refreshes the memory still sees once the host  *)
(* has disabled them: a refresh can be on its way in the handler, which has *)
(* not handed its REF to the receiver yet, or in the path, and a request    *)
(* outlives the host's SET_TREFI by two clocks.                             *)

\* The handler has a REF to hand over; the path holds one.
Coming == process.autoref /\ maint_state <= 2
Inside == InPath("REF", "maint")

\* The path holds at most one word op of the handler's.
OnceInPath(op) ==
  /\ \A l \in Lanes : LaneOnce(l, op)
  /\ NoneIn(0, op, "maint") \/ NoneIn(1, op, "maint")
  /\ Is(instr_r, op, "maint") => \A l \in Lanes : NoneIn(l, op, "maint")

\* A refresh and a host's SET_TREFI are never in the path together, nor is a
\* refresh in it when the next one is handed over.
RefreshApart ==
  /\ app.from # "maint"
  /\ ~InPath("SET_TREFI", "maint")
  /\ OnceInPath("REF")
  /\ InPath("SET_TREFI", "app") => ~Inside /\ state_r # "MAINT"
  /\ state_r = "MAINT" /\ Coming => ~Inside
  /\ state_r = "APP" => ~Inside

\* The refreshes left once the host has disabled them: what is Coming or Inside,
\* one in all, and what the timer's request can still start in the two clocks
\* until it has seen the switch; the dispatcher is busy in the first.
Leftover ==
  /\ late \in {RefreshOn, 0, 1}
  /\ late = 1 => ~Coming /\ ~Inside
  /\ late = 0 => ~(Coming /\ Inside)
  /\ aref_r.interval # NoInstr => dispatcher_busy_r
  /\ late # RefreshOn /\ aref_r.interval # NoInstr => aref_r.interval.arg = 0
  /\ late # RefreshOn /\ aref_en => aref_r.interval # NoInstr
  /\ late # RefreshOn /\ (aref_en \/ autoref_request_r \/ aref_r.interval # NoInstr)
       => late = 0 /\ ~Inside /\ state_r = "IDLE"

RefInv == RefreshApart /\ Leftover

-----------------------------------------------------------------------------
(* How a clock moves the words of one kind.                                *)

\* Under an idle dispatcher none leaves the path, and only the receiver's next
\* word comes in.
LEMMA IdleWords ==
  ASSUME CoreInv, NEW op, op # "NONE", NEW ack, FifoClk, PipeClk(ack), ~dispatcher_busy_r
  PROVE  /\ \A f : InPath(op, f)' => InPath(op, f) \/ Is(instr_r, op, f)'
         /\ OnceInPath(op) /\ (Is(instr_r, op, "maint")' => ~InPath(op, "maint"))
              => OnceInPath(op)'
<1>0. \A f : ~Is(NoInstr, op, f)
  BY NoInstrIsNone
<1>1. ASSUME NEW l \in Lanes
      PROVE  /\ \A f : ~InStage(l, op, f) /\ ~InStage(l, op, f)'
             /\ \A f : InFifo(l, op, f)' => InFifo(l, op, f) \/ (FifoWr(l) /\ Is(instr_r, op, f))
             /\ /\ Once(fifo[l], op)
                /\ FifoWr(l) /\ Is(instr_r, op, "maint") => ~InFifo(l, op, "maint")
                => Once(fifo'[l], op)
  <2>1. /\ \A f : ~InStage(l, op, f) /\ ~InStage(l, op, f)'
        /\ FifoWr(l) /\ Len(fifo[l]) < FifoDepth => fifo'[l] = fifo[l] \o <<instr_r>>
        /\ ~(FifoWr(l) /\ Len(fifo[l]) < FifoDepth) => fifo'[l] = fifo[l]
        /\ fifo[l] \in Seq(Instruction)
        /\ FifoWr(l) => instr_r \in Instruction
    BY <1>1, IdleFlow DEF CoreInv, TypeInv, SoftMCTypeOK, PathTypeOK, FifoWr
  <2>2. CASE FifoWr(l) /\ Len(fifo[l]) < FifoDepth
    BY <2>1, <2>2, AppendWords DEF InFifo
  <2>3. CASE ~(FifoWr(l) /\ Len(fifo[l]) < FifoDepth)
    BY <2>1, <2>3 DEF InFifo
  <2>4. QED BY <2>1, <2>2, <2>3
<1>2. \A l \in Lanes : \A f : /\ NoneIn(l, op, f) <=> ~InFifo(l, op, f)
                              /\ NoneIn(l, op, f)' <=> ~InFifo(l, op, f)'
  BY <1>1 DEF NoneIn
<1>3. \A f : InPath(op, f)' => InPath(op, f) \/ Is(instr_r, op, f)'
  BY <1>1, <1>2 DEF InPath
<1>4. ASSUME OnceInPath(op), Is(instr_r, op, "maint")' => ~InPath(op, "maint")
      PROVE  OnceInPath(op)'
  <2>1. \A l \in Lanes : LaneOnce(l, op)'
    BY <1>0, <1>1, <1>2, <1>4 DEF OnceInPath, LaneOnce, InStage
  <2>2. NoneIn(0, op, "maint")' \/ NoneIn(1, op, "maint")'
    BY <1>1, <1>2, <1>4 DEF OnceInPath, FifoWr, Lanes
  <2>3. Is(instr_r, op, "maint")' => \A l \in Lanes : NoneIn(l, op, "maint")'
    BY <1>1, <1>2, <1>4 DEF InPath
  <2>4. QED BY <2>1, <2>2, <2>3 DEF OnceInPath
<1>5. QED BY <1>3, <1>4

\* Under a busy dispatcher none comes in, and the handler's one is gone when it
\* is acknowledged.
LEMMA BusyWords ==
  ASSUME CoreInv, NEW op, op # "NONE", NEW ack, FifoClk, PipeClk(ack), dispatcher_busy_r,
         instr_r' = NoInstr
  PROVE  /\ \A f : InPath(op, f)' => InPath(op, f)
         /\ OnceInPath(op) => OnceInPath(op)'
         /\ OnceInPath(op) /\ (\E l \in Lanes : ack[l] /\ Is(pipe[l].first, op, "maint"))
              => ~InPath(op, "maint")'
<1>0. \A f : ~Is(NoInstr, op, f)
  BY NoInstrIsNone
<1>1. \A l \in Lanes :
        /\ \A f : NoneIn(l, op, f) => NoneIn(l, op, f)'
        /\ LaneOnce(l, op) => LaneOnce(l, op)'
        /\ LaneOnce(l, op) /\ ack[l] /\ Is(pipe[l].first, op, "maint")
             => NoneIn(l, op, "maint")'
  BY BusyFlow
<1>2. \A f : ~Is(instr_r, op, f)'
  BY <1>0
<1>3. \A f : InPath(op, f)' => InPath(op, f)
  BY <1>1, <1>2 DEF InPath
<1>4. OnceInPath(op) => OnceInPath(op)'
  BY <1>1, <1>2 DEF OnceInPath, Lanes
<1>5. ASSUME OnceInPath(op), NEW l \in Lanes, ack[l], Is(pipe[l].first, op, "maint")
      PROVE  ~InPath(op, "maint")'
  <2>1. ~NoneIn(l, op, "maint")
    BY <1>5 DEF NoneIn, InStage
  <2>2. NoneIn(l, op, "maint")'
    BY <1>1, <1>5 DEF OnceInPath
  <2>3. \A k \in Lanes : k # l => NoneIn(k, op, "maint")
    BY <1>5, <2>1 DEF OnceInPath, Lanes
  <2>4. QED BY <1>1, <1>2, <2>2, <2>3 DEF InPath
<1>6. QED BY <1>3, <1>4, <1>5

\* The commands of a clock are the words acknowledged in it.
LEMMA CommandsIssued ==
  ASSUME CoreInv, NEW op, op # "NONE", NEW from, dfi'.cmd = Issue(Head0, TRUE)
  PROVE  Commands(op, from) <=>
           \E l \in Lanes : en_ack(Head0, TRUE)[l] /\ Is(pipe[l].first, op, from)
<1>1. /\ LaneOf(0) \in Lanes /\ LaneOf(1) \in Lanes /\ LaneOf(0) # LaneOf(1)
      /\ \A l \in Lanes : l = LaneOf(0) \/ l = LaneOf(1)
  BY DEF CoreInv, TypeInv, SoftMCTypeOK, PathTypeOK, LaneOf, Lanes
<1>2. \A l \in Lanes : Head0[l] = pipe[l].first
  BY DEF Head0
<1>3. /\ en_ack(Head0, TRUE)[LaneOf(0)] <=> Slot0Ready(TRUE)
      /\ en_ack(Head0, TRUE)[LaneOf(1)] <=> Slot1Ready(Head0, TRUE)
  BY <1>1 DEF en_ack
<1> DEFINE out == Issue(Head0, TRUE)
<1>4. /\ out[1] = IF Slot0Ready(TRUE) THEN pipe[LaneOf(0)].first ELSE NoInstr
      /\ out[2] = IF Slot1Ready(Head0, TRUE) THEN pipe[LaneOf(1)].first ELSE NoInstr
  BY <1>1, <1>2 DEF Issue
<1> HIDE DEF out
<1>5. ~Is(NoInstr, op, from)
  BY NoInstrIsNone
<1>6. Commands(op, from) <=> Is(out[1], op, from) \/ Is(out[2], op, from)
  <2>1. \A k : k \in 1..2 <=> k = 1 \/ k = 2
    OBVIOUS
  <2>2. dfi'.cmd = out
    BY DEF out
  <2>3. Commands(op, from) <=> \E k \in 1..2 : Is(out[k], op, from)
    BY <2>2, Zenon DEF Commands, Is
  <2>4. QED BY <2>1, <2>3
<1>7. QED BY <1>1, <1>3, <1>4, <1>5, <1>6

\* The word the handler presents is a REF exactly when it is the third of an
\* auto-refresh's, and never a SET_TREFI.
LEMMA WordRefresh ==
  ASSUME TypeInv, AtMostOneSequence, maint_process
  PROVE  /\ MaintWord(aref_trfc).op # "SET_TREFI"
         /\ MaintWord(aref_trfc).op = "REF" <=> process.autoref /\ maint_state = 2
<1>1. aref_trfc \in Nat /\ maint_state \in 0 .. 10
  BY DEF TypeInv, SoftMCTypeOK, MAINT_FIN
<1>2. /\ Len(Sequence(aref_trfc)) = IF process.pr_rd THEN 10 ELSE 4
  BY <1>1, SequenceType
<1>3. CASE ~(maint_state < Len(Sequence(aref_trfc)))
  <2>1. MaintWord(aref_trfc) = Maint("END", 0)
    BY <1>3 DEF MaintWord
  <2>2. maint_state # 2
    BY <1>1, <1>2, <1>3
  <2>3. QED BY <2>1, <2>2 DEF Maint
<1>4. CASE maint_state < Len(Sequence(aref_trfc))
  <2>1. MaintWord(aref_trfc) = Sequence(aref_trfc)[maint_state + 1]
    BY <1>4 DEF MaintWord
  <2>2. CASE process.pr_rd
    <3>1. ~process.autoref /\ maint_state \in 0 .. 9
      BY <1>1, <1>2, <1>4, <2>2 DEF AtMostOneSequence
    <3>2. \A k \in 1 .. 10 : PeriodicRead[k].op \notin {"REF", "SET_TREFI"}
      BY DEF PeriodicRead, Maint
    <3>3. QED BY <2>1, <2>2, <3>1, <3>2 DEF Sequence
  <2>3. CASE ~process.pr_rd /\ process.zq
    <3>1. ~process.autoref /\ maint_state \in 0 .. 3
      BY <1>1, <1>2, <1>4, <2>3 DEF AtMostOneSequence
    <3>2. \A k \in 1 .. 4 : ZQCalibration[k].op \notin {"REF", "SET_TREFI"}
      BY DEF ZQCalibration, Maint
    <3>3. QED BY <2>1, <2>3, <3>1, <3>2 DEF Sequence
  <2>4. CASE ~process.pr_rd /\ ~process.zq
    <3>1. process.autoref /\ maint_state \in 0 .. 3
      BY <1>1, <1>2, <1>4, <2>4 DEF maint_process
    <3>2. \A k \in 1 .. 4 : /\ AutoRefresh(aref_trfc)[k].op # "SET_TREFI"
                            /\ AutoRefresh(aref_trfc)[k].op = "REF" <=> k = 3
      BY DEF AutoRefresh, Maint
    <3>3. QED BY <2>1, <2>4, <3>1, <3>2 DEF Sequence
  <2>5. QED BY <2>2, <2>3, <2>4
<1>5. QED BY <1>3, <1>4

-----------------------------------------------------------------------------
(* What a clock does to the handler's refresh, to the settings and to the  *)
(* count.                                                                  *)

\* Only a request the handler is free to enter brings a refresh, and handing the
\* REF over ends it.
LEMMA ComingStep ==
  ASSUME CoreInv, MaintClk(FALSE)
  PROVE  /\ Coming' => Coming \/ (autoref_request_r /\ ~maint_process)
         /\ maint_process /\ maint_state = 2 /\ process.autoref /\ MaintAcked => ~Coming'
<1>1. /\ maint_state' = IF maint_process THEN StateNext(MaintAcked, aref_trfc)
                        ELSE Enter(periodic_rd_request_r, zq_request(dfi_init_complete),
                                   autoref_request_r).state
      /\ maint_state \in 0 .. 10 /\ aref_trfc \in Nat
  BY DEF MaintClk, HandlerClk, CoreInv, TypeInv, SoftMCTypeOK, MAINT_FIN
<1>2. Len(Sequence(aref_trfc)) = IF process.pr_rd THEN 10 ELSE 4
  BY <1>1, SequenceType
<1>3. CASE ~maint_process
  <2>1. process'.autoref => autoref_request_r
    BY <1>3 DEF MaintClk, HandlerClk, Enter
  <2>2. QED BY <1>3, <2>1 DEF Coming
<1>4. CASE maint_process
  <2>1. process'.autoref => process.autoref
    BY <1>4, FlagsNext DEF CoreInv
  <2>2. maint_state' = StateNext(MaintAcked, aref_trfc)
    BY <1>1, <1>4
  <2>3. maint_state' <= 2 => maint_state <= 2
    BY <1>1, <1>2, <2>2 DEF StateNext, MAINT_FIN
  <2>4. maint_state = 2 /\ MaintAcked => ~(maint_state' <= 2)
    BY <1>1, <1>2, <2>2 DEF StateNext, MAINT_FIN
  <2>5. QED BY <2>1, <2>3, <2>4 DEF Coming
<1>5. QED BY <1>3, <1>4

\* A switch takes effect a clock after it was registered, and the request sees
\* it a clock later.
LEMMA SettingsStep ==
  ASSUME MaintClk(FALSE)
  PROVE  /\ aref_en' <=> IF aref_r.interval # NoInstr THEN aref_r.interval.arg # 0 ELSE aref_en
         /\ autoref_request_r' => aref_en
  BY DEF MaintClk, CtrlClk, ArefConfigClk, AutorefClk, AutorefRequest

\* The dispatcher registers a SET_TREFI exactly when it issues one, which is the
\* host's.
LEMMA SettingIssued ==
  ASSUME CoreInv, RefreshApart, Observe, NEW rx,
         PathClk(rx, MaintWord(aref_trfc), TRUE, lock_pr_rd_r)
  PROVE  LET sets == Commands("SET_TREFI", "app")
         IN  /\ aref_r'.interval # NoInstr <=> sets
             /\ sets => late' = IF aref_r'.interval.arg = 0 THEN 0 ELSE RefreshOn
             /\ ~sets => late' = IF late \in 0..1 /\ Commands("REF", "maint")
                                 THEN late + 1 ELSE late
<1> DEFINE out == Issue(Head0, TRUE)
<1>1. /\ dfi'.cmd = out
      /\ aref_r'.interval = Latest(out, "SET_TREFI")
  BY DEF PathClk, DispatcherClk, DfiOut
<1>2. Latest(out, "SET_TREFI") # NoInstr <=> Issues(out, "SET_TREFI")
  <2>1. Issues(out, "SET_TREFI") <=> out[1].op = "SET_TREFI" \/ out[2].op = "SET_TREFI"
    <3>1. \A k : k \in 1..2 <=> k = 1 \/ k = 2
      OBVIOUS
    <3>2. QED BY <3>1, Zenon DEF Issues
  <2>2. NoInstr.op # "SET_TREFI"
    BY DEF NoInstr
  <2> HIDE DEF out
  <2>3. QED BY <2>1, <2>2 DEF Latest
<1>3. Issues(out, "SET_TREFI") <=>
        \E l \in Lanes : en_ack(Head0, TRUE)[l] /\ pipe[l].first.op = "SET_TREFI"
  BY IssuedWord
<1>4. Commands("SET_TREFI", "app") <=>
        \E l \in Lanes : en_ack(Head0, TRUE)[l] /\ Is(pipe[l].first, "SET_TREFI", "app")
  BY <1>1, CommandsIssued
<1>5. ASSUME NEW l \in Lanes, pipe[l].first.op = "SET_TREFI"
      PROVE  Is(pipe[l].first, "SET_TREFI", "app")
  <2>1. pipe[l].first \in Instruction
    BY <1>5 DEF CoreInv, TypeInv, SoftMCTypeOK, PathTypeOK, PipeRegs, Slot, NoInstr
  <2>2. pipe[l].first.from # "maint"
    BY <1>5 DEF RefreshApart, InPath, NoneIn, InStage, Is
  <2>3. QED BY <1>5, <2>1, <2>2 DEF Instruction, Is
<1> HIDE DEF out
<1>6. aref_r'.interval # NoInstr <=> Commands("SET_TREFI", "app")
  BY <1>1, <1>2, <1>3, <1>4, <1>5 DEF Is
<1>7. QED BY <1>1, <1>6, Zenon DEF Observe

-----------------------------------------------------------------------------
(* The clocks.                                                             *)

LEMMA RefBusy ==
  ASSUME CoreInv, RefInv, dispatcher_busy_r, NEW rx, rx.from # "maint",
         PathClk(rx, MaintWord(aref_trfc), TRUE, lock_pr_rd_r), MaintClk(FALSE), Observe
  PROVE  RefInv'
<1> DEFINE ack == en_ack(Head0, TRUE)
           sets == Commands("SET_TREFI", "app")
           refs == Commands("REF", "maint")
<1>1. /\ FifoClk
      /\ PipeClk(ack)
      /\ ReceiverClk(app, MaintWord(aref_trfc), ~dispatcher_busy_r)
      /\ app' \in {app, rx}
      /\ dfi'.cmd = Issue(Head0, TRUE)
      /\ dispatcher_busy_r' = BusyNext(FALSE)
  BY ClkStep DEF CoreInv, PathClk, DispatcherClk, DfiOut
<1>2. state_r' = "IDLE" /\ instr_r' = NoInstr
  BY <1>1 DEF CoreInv, PathInv, ReceiverClk, Stay, StartApp, StartMaint, TakeApp, TakeMaint,
              Load, MayStart
<1>3. /\ sets <=> \E l \in Lanes : ack[l] /\ Is(pipe[l].first, "SET_TREFI", "app")
      /\ refs <=> \E l \in Lanes : ack[l] /\ Is(pipe[l].first, "REF", "maint")
  BY <1>1, CommandsIssued
<1> HIDE DEF ack
<1>4. /\ \A f : InPath("SET_TREFI", f)' => InPath("SET_TREFI", f)
      /\ Inside' => Inside
      /\ OnceInPath("REF")'
      /\ refs => Inside /\ ~Inside'
  <2>1. \A f : InPath("SET_TREFI", f)' => InPath("SET_TREFI", f)
    BY <1>1, <1>2, BusyWords
  <2>2. /\ Inside' => Inside
        /\ OnceInPath("REF")'
        /\ refs => ~Inside'
    BY <1>1, <1>2, <1>3, BusyWords DEF RefInv, RefreshApart, Inside
  <2>3. refs => Inside
    BY <1>3 DEF Inside, InPath, NoneIn, InStage
  <2>4. QED BY <2>1, <2>2, <2>3
<1>5. RefreshApart'
  <2>1. app'.from # "maint"
    BY <1>1 DEF RefInv, RefreshApart
  <2>2. QED BY <1>2, <1>4, <2>1 DEF RefInv, RefreshApart
<1>6. sets => ~Inside /\ dispatcher_busy_r'
  <2>1. ASSUME sets PROVE \E l \in Lanes : Is(pipe[l].first, "SET_TREFI", "app")
    BY <1>3, <2>1
  <2>2. sets => InPath("SET_TREFI", "app")
    BY <2>1 DEF InPath, NoneIn, InStage
  <2>3. sets => dispatcher_busy_r'
    BY <1>1, <2>1, NoInstrIsNone DEF BusyNext, Remains
  <2>4. QED BY <2>2, <2>3 DEF RefInv, RefreshApart
<1>7. /\ aref_r'.interval # NoInstr <=> sets
      /\ sets => late' = IF aref_r'.interval.arg = 0 THEN 0 ELSE RefreshOn
      /\ ~sets => late' = IF late \in 0..1 /\ refs THEN late + 1 ELSE late
  BY SettingIssued DEF RefInv
<1>8. /\ aref_en' <=> IF aref_r.interval # NoInstr THEN aref_r.interval.arg # 0 ELSE aref_en
      /\ autoref_request_r' => aref_en
      /\ Coming' => Coming \/ autoref_request_r
  BY SettingsStep, ComingStep
<1> HIDE DEF sets, refs
<1>9. CASE sets
  <2>1. late' \in {RefreshOn, 0} /\ ~Inside'
        /\ (late' # RefreshOn => aref_r'.interval.arg = 0)
    BY <1>4, <1>6, <1>7, <1>9
  <2>2. Leftover'
    BY <1>2, <1>6, <1>7, <1>9, <2>1 DEF Leftover, RefreshOn
  <2>3. QED BY <1>5, <2>2 DEF RefInv
<1>10. CASE ~sets
  <2>1. aref_r'.interval = NoInstr
    BY <1>7, <1>10
  <2>2. late' # RefreshOn => late # RefreshOn /\ ~aref_en'
    BY <1>7, <1>8, <1>10 DEF RefInv, Leftover, RefreshOn
  <2>3. late' # RefreshOn /\ autoref_request_r' => late' = 0 /\ ~Inside'
    BY <1>4, <1>7, <1>8, <1>10, <2>2 DEF RefInv, Leftover
  <2>4. /\ late' \in {RefreshOn, 0, 1}
        /\ late' = 1 => ~Coming' /\ ~Inside'
        /\ late' = 0 => ~(Coming' /\ Inside')
    <3>1. CASE refs /\ late # RefreshOn
      <4>1. late' = 1 /\ ~Inside' /\ ~Coming'
        BY <1>4, <1>7, <1>8, <1>10, <3>1 DEF RefInv, Leftover
      <4>2. QED BY <4>1
    <3>2. CASE ~refs \/ late = RefreshOn
      <4>1. late' = late
        BY <1>7, <1>10, <3>2 DEF RefreshOn
      <4>2. QED BY <1>4, <1>8, <4>1 DEF RefInv, Leftover, RefreshOn
    <3>3. QED BY <3>1, <3>2
  <2>5. Leftover'
    BY <1>2, <2>1, <2>2, <2>3, <2>4 DEF Leftover
  <2>6. QED BY <1>5, <2>5 DEF RefInv
<1>11. QED BY <1>9, <1>10

\* The word the receiver takes: a REF only while it takes a refresh's sequence
\* with none in the path, a SET_TREFI only of the host's, with no refresh there.
LEMMA WordTaken ==
  ASSUME CoreInv, RefreshApart, MaintClk(FALSE),
         ReceiverClk(app, MaintWord(aref_trfc), ~dispatcher_busy_r)
  PROVE  /\ Is(instr_r, "REF", "maint")' =>
              state_r' = "MAINT" /\ Coming /\ ~Coming' /\ ~Inside
         /\ ~Is(instr_r, "SET_TREFI", "maint")'
         /\ Is(instr_r, "SET_TREFI", "app")' => ~Inside /\ state_r' # "MAINT"
         /\ state_r' = "APP" => ~Inside /\ ~Is(instr_r, "REF", "maint")'
         /\ state_r' = "MAINT" /\ state_r # "MAINT" => \A op, f : op # "NONE" => ~InPath(op, f)
         /\ state_r' = "MAINT" => maint_process /\ ~Is(instr_r, "SET_TREFI", "app")'
<1> DEFINE word == MaintWord(aref_trfc)
<1>1. /\ word # NoInstr => maint_process
      /\ state_r = "MAINT" => maint_process
  BY DEF word, MaintWord, CoreInv, Handover, HandlerInStep
<1>2. maint_process => /\ word.op # "SET_TREFI"
                       /\ word.op = "REF" <=> process.autoref /\ maint_state = 2
  BY WordRefresh DEF CoreInv, Handover
<1>3. maint_process /\ maint_state = 2 /\ process.autoref /\ MaintAcked => ~Coming'
  BY ComingStep
<1>4. ~Is(NoInstr, "REF", "maint") /\ \A f : ~Is(NoInstr, "SET_TREFI", f)
  BY NoInstrIsNone
<1>5. app.from # "maint"
  BY DEF RefreshApart
<1> HIDE DEF word
<1>6. CASE Stay(app, word, ~dispatcher_busy_r)
  <2>1. state_r' = "IDLE" /\ instr_r' = NoInstr
    BY <1>6 DEF Stay, Load
  <2>2. QED BY <1>4, <2>1
<1>7. CASE StartApp(app, ~dispatcher_busy_r)
  <2>1. state_r' = "APP" /\ instr_r' = app /\ ~Inside
    BY <1>7, NothingLeft DEF StartApp, Load, Inside
  <2>2. QED BY <1>5, <2>1 DEF Is
<1>8. CASE StartMaint(app, word, ~dispatcher_busy_r)
  <2>1. /\ state_r = "IDLE" /\ state_r' = "MAINT" /\ instr_r' = word
        /\ maint_process
        /\ \A op, f : op # "NONE" => ~InPath(op, f)
    BY <1>1, <1>8, NothingLeft DEF StartMaint, Load, MayStart
  <2>2. maint_state = 0
    BY <2>1 DEF CoreInv, Handover, HandlerInStep
  <2>3. word.op # "REF" /\ word.op # "SET_TREFI"
    BY <1>2, <2>1, <2>2
  <2>4. QED BY <2>1, <2>3 DEF Is
<1>9. CASE TakeApp(app)
  <2>1. state_r' \in {"APP", "IDLE"} /\ instr_r' = app /\ ~Inside
    BY <1>9 DEF TakeApp, Load, RefreshApart
  <2>2. QED BY <1>5, <2>1 DEF Is
<1>10. CASE TakeMaint(word)
  <2>1. /\ state_r = "MAINT" /\ maint_process /\ MaintAcked
        /\ \/ state_r' = "MAINT" /\ instr_r' = word
           \/ state_r' = "IDLE" /\ instr_r' = NoInstr
    BY <1>1, <1>10 DEF TakeMaint, Load, MaintAcked, maint_ack
  <2>2. word.op = "REF" => Coming /\ ~Coming' /\ ~Inside
    BY <1>2, <1>3, <2>1 DEF Coming, RefreshApart
  <2>3. QED BY <1>2, <1>4, <2>1, <2>2 DEF Is
<1>11. QED BY <1>6, <1>7, <1>8, <1>9, <1>10 DEF ReceiverClk, word

LEMMA RefIdle ==
  ASSUME CoreInv, RefInv, ~dispatcher_busy_r, NEW rx, rx.from # "maint",
         PathClk(rx, MaintWord(aref_trfc), TRUE, lock_pr_rd_r), MaintClk(FALSE), Observe
  PROVE  RefInv'
<1> DEFINE ack == en_ack(Head0, TRUE)
           sets == Commands("SET_TREFI", "app")
           refs == Commands("REF", "maint")
<1>1. /\ FifoClk
      /\ PipeClk(ack)
      /\ ReceiverClk(app, MaintWord(aref_trfc), ~dispatcher_busy_r)
      /\ app' \in {app, rx}
      /\ dfi'.cmd = Issue(Head0, TRUE)
  BY ClkStep DEF CoreInv, PathClk, DispatcherClk, DfiOut
<1>2. ~sets /\ ~refs
  <2>1. \A l \in Lanes : pipe[l].first = NoInstr
    BY DEF CoreInv, Handover, Loaded
  <2>2. /\ sets <=> \E l \in Lanes : ack[l] /\ Is(pipe[l].first, "SET_TREFI", "app")
        /\ refs <=> \E l \in Lanes : ack[l] /\ Is(pipe[l].first, "REF", "maint")
    BY <1>1, CommandsIssued
  <2> HIDE DEF ack, sets, refs
  <2>3. QED BY <2>1, <2>2, NoInstrIsNone
<1>3. late' = late /\ aref_r'.interval = NoInstr /\ aref_r.interval = NoInstr
  <2>1. /\ aref_r'.interval # NoInstr <=> sets
        /\ ~sets => late' = IF late \in 0..1 /\ refs THEN late + 1 ELSE late
    BY SettingIssued DEF RefInv
  <2> HIDE DEF sets, refs
  <2>2. QED BY <1>2, <2>1 DEF RefInv, Leftover
<1> HIDE DEF ack, sets, refs
<1>4. /\ Is(instr_r, "REF", "maint")' =>
              state_r' = "MAINT" /\ Coming /\ ~Coming' /\ ~Inside
      /\ ~Is(instr_r, "SET_TREFI", "maint")'
      /\ Is(instr_r, "SET_TREFI", "app")' => ~Inside /\ state_r' # "MAINT"
      /\ state_r' = "APP" => ~Inside /\ ~Is(instr_r, "REF", "maint")'
      /\ state_r' = "MAINT" /\ state_r # "MAINT" => \A op, f : op # "NONE" => ~InPath(op, f)
      /\ state_r' = "MAINT" => maint_process /\ ~Is(instr_r, "SET_TREFI", "app")'
  BY <1>1, WordTaken DEF RefInv
<1>5. /\ \A f : InPath("SET_TREFI", f)' => InPath("SET_TREFI", f) \/ Is(instr_r, "SET_TREFI", f)'
      /\ Inside' => Inside \/ Is(instr_r, "REF", "maint")'
      /\ OnceInPath("REF")'
  <2>1. \A f : InPath("SET_TREFI", f)' => InPath("SET_TREFI", f) \/ Is(instr_r, "SET_TREFI", f)'
    BY <1>1, IdleWords
  <2>2. /\ Inside' => Inside \/ Is(instr_r, "REF", "maint")'
        /\ OnceInPath("REF")'
    BY <1>1, <1>4, IdleWords DEF Inside, RefInv, RefreshApart
  <2>3. QED BY <2>1, <2>2
<1>6. /\ Coming' => Coming \/ (autoref_request_r /\ ~maint_process)
  BY ComingStep
<1>7. RefreshApart'
  <2>1. app'.from # "maint"
    BY <1>1 DEF RefInv, RefreshApart
  <2>2. ~InPath("SET_TREFI", "maint")'
    BY <1>4, <1>5 DEF RefInv, RefreshApart
  <2>3. InPath("SET_TREFI", "app")' => ~Inside'
    <3>1. Is(instr_r, "REF", "maint")' => ~InPath("SET_TREFI", "app")'
      <4>1. SUFFICES ASSUME Is(instr_r, "REF", "maint")'
                     PROVE  ~InPath("SET_TREFI", "app")'
        OBVIOUS
      <4>2. ~Is(instr_r, "SET_TREFI", "app")' /\ state_r' = "MAINT"
        BY <1>4, <4>1
      <4>3. ~InPath("SET_TREFI", "app")
        BY <1>4, <4>2 DEF RefInv, RefreshApart
      <4>4. QED BY <1>5, <4>2, <4>3
    <3>2. QED BY <1>4, <1>5, <3>1 DEF RefInv, RefreshApart
  <2>4. InPath("SET_TREFI", "app")' => state_r' # "MAINT"
    BY <1>4, <1>5 DEF RefInv, RefreshApart
  <2>5. state_r' = "MAINT" /\ Coming' => ~Inside'
    <3>1. SUFFICES ASSUME state_r' = "MAINT", Coming' PROVE ~Inside'
      OBVIOUS
    <3>2. Coming /\ ~Is(instr_r, "REF", "maint")'
      BY <1>4, <1>6, <3>1
    <3>3. ~Inside
      BY <1>4, <3>1, <3>2 DEF RefInv, RefreshApart, Inside
    <3>4. QED BY <1>5, <3>2, <3>3
  <2>6. state_r' = "APP" => ~Inside'
    BY <1>4, <1>5
  <2>7. QED BY <1>5, <2>1, <2>2, <2>3, <2>4, <2>5, <2>6 DEF RefreshApart
<1>8. Leftover'
  <2>1. late # RefreshOn => ~aref_en
    BY <1>3 DEF RefInv, Leftover
  <2>2. late' # RefreshOn => ~aref_en' /\ ~autoref_request_r'
    BY <1>3, <2>1, SettingsStep
  <2>3. late' = 1 => ~Coming' /\ ~Inside'
    BY <1>3, <1>4, <1>5, <1>6 DEF RefInv, Leftover, RefreshOn
  <2>4. late' = 0 => ~(Coming' /\ Inside')
    BY <1>3, <1>4, <1>5, <1>6 DEF RefInv, Leftover, RefreshOn
  <2>5. QED BY <1>3, <2>2, <2>3, <2>4 DEF RefInv, Leftover
<1>9. QED BY <1>7, <1>8 DEF RefInv

-----------------------------------------------------------------------------
(* Reset and the first state: no word in the path, auto-refresh off.       *)

RefreshOff ==
  /\ app.from # "maint" /\ state_r = "IDLE" /\ instr_r = NoInstr
  /\ \A l \in Lanes : /\ fifo[l] = << >>
                      /\ pipe[l].first = NoInstr /\ pipe[l].second = NoInstr
  /\ late = 0 /\ ~aref_en /\ ~autoref_request_r /\ aref_r.interval = NoInstr

LEMMA RefEmpty == RefreshOff => RefInv
<1> SUFFICES ASSUME RefreshOff PROVE RefInv
  OBVIOUS
<1> USE DEF RefreshOff
<1>1. \A l \in Lanes : 1 .. Len(fifo[l]) = {}
  OBVIOUS
<1>2. ASSUME NEW op, op # "NONE"
      PROVE  /\ \A l \in Lanes : Once(fifo[l], op)
             /\ \A l \in Lanes : \A f : NoneIn(l, op, f) /\ ~InStage(l, op, f)
             /\ \A f : ~InPath(op, f)
  <2>0. \A f : ~Is(NoInstr, op, f)
    BY <1>2, NoInstrIsNone
  <2>1. \A l \in Lanes : Once(fifo[l], op) /\ \A f : NoneIn(l, op, f) /\ ~InStage(l, op, f)
    BY <1>1, <2>0 DEF NoneIn, InStage, InFifo, Has, Once
  <2>2. QED BY <2>0, <2>1 DEF InPath
<1>3. OnceInPath("REF")
  <2>1. ~Is(NoInstr, "REF", "maint")
    BY NoInstrIsNone
  <2>2. QED BY <1>2, <2>1 DEF OnceInPath, LaneOnce, Lanes
<1>4. RefreshApart
  <2>1. (\A f : ~InPath("SET_TREFI", f)) /\ ~Inside
    BY <1>2 DEF Inside
  <2>2. QED BY <1>3, <2>1 DEF RefreshApart
<1>5. ~Inside
  BY <1>2 DEF Inside
<1>6. Leftover
  BY <1>5 DEF Leftover, RefreshOn
<1>7. QED BY <1>4, <1>6 DEF RefInv

LEMMA RefInit == Init => RefInv
<1> SUFFICES ASSUME Init PROVE RefInv
  OBVIOUS
<1>1. \A l \in Lanes : pipe[l] = [ready |-> TRUE, first |-> NoInstr, second |-> NoInstr]
  BY DEF Init, PathInit, PipeRegInit
<1>2. \A l \in Lanes : /\ pipe[l].first = NoInstr /\ pipe[l].second = NoInstr
                       /\ fifo[l] = << >>
  BY <1>1 DEF Init, PathInit
<1>3. /\ app.from # "maint" /\ state_r = "IDLE" /\ instr_r = NoInstr
      /\ aref_r.interval = NoInstr
  BY DEF Init, PathInit, ReceiverInit, DispatcherInit, NoArefSet, NoInstr
<1>4. late = 0 /\ ~aref_en /\ ~autoref_request_r
  BY DEF Init, CtrlInit
<1>5. QED BY <1>2, <1>3, <1>4, RefEmpty DEF RefreshOff

LEMMA RefRst ==
  ASSUME RefInv, Rst
  PROVE  RefInv'
<1>1. /\ app' \in {app, NoInstr}
      /\ ReceiverRst /\ FifoRst /\ PipeRst(en_ack(Head0, TRUE))
      /\ aref_r' = NoArefSet
      /\ late' = 0
  BY DEF Rst, PathRst, AppNext, DispatcherRst
<1>2. ~aref_en' /\ ~autoref_request_r'
  BY DEF Rst, MaintClk, CtrlClk, ArefConfigClk, AutorefClk
<1>3. \A l \in Lanes : pipe'[l] = PipeRegRst(pipe[l], en_ack(Head0, TRUE)[l])
  BY <1>1 DEF PipeRst
<1>4. \A p, a : PipeRegRst(p, a).first = NoInstr /\ PipeRegRst(p, a).second = NoInstr
  BY DEF PipeRegRst
<1>5. app'.from # "maint" /\ state_r' = "IDLE" /\ instr_r' = NoInstr
      /\ aref_r'.interval = NoInstr
  BY <1>1 DEF RefInv, RefreshApart, ReceiverRst, NoArefSet, NoInstr
<1>6. \A l \in Lanes : /\ fifo'[l] = << >>
                       /\ pipe'[l].first = NoInstr /\ pipe'[l].second = NoInstr
  <2>1. ASSUME NEW l \in Lanes
        PROVE  pipe'[l].first = NoInstr /\ pipe'[l].second = NoInstr
    <3> DEFINE p == pipe[l]
               a == en_ack(Head0, TRUE)[l]
    <3>1. pipe'[l] = PipeRegRst(p, a)
      BY <1>3
    <3> HIDE DEF p, a
    <3>2. PipeRegRst(p, a).first = NoInstr /\ PipeRegRst(p, a).second = NoInstr
      BY <1>4
    <3>3. QED BY <3>1, <3>2
  <2>2. QED BY <1>1, <2>1 DEF FifoRst
<1>7. RefreshOff'
  BY <1>1, <1>2, <1>5, <1>6 DEF RefreshOff
<1>8. QED BY <1>7, RefEmpty, PTL

LEMMA RefStutter ==
  ASSUME RefInv, UNCHANGED vars
  PROVE  RefInv'
<1>1. UNCHANGED <<app, fifo, pipe, instr_r, state_r, process, maint_state, late, aref_r,
                  aref_en, autoref_request_r, dispatcher_busy_r>>
  BY DEF vars, pathVars, receiverVars, dispatcherVars, handlerVars, ctrlVars
<1>2. \A l \in Lanes : \A op, f : /\ InStage(l, op, f)' <=> InStage(l, op, f)
                                  /\ NoneIn(l, op, f)' <=> NoneIn(l, op, f)
                                  /\ InFifo(l, op, f)' <=> InFifo(l, op, f)
  BY <1>1 DEF InStage, InFifo, NoneIn
<1>3. \A op, f : InPath(op, f)' <=> InPath(op, f)
  BY <1>1, <1>2 DEF InPath
<1>4. OnceInPath("REF")' <=> OnceInPath("REF")
  BY <1>1, <1>2 DEF OnceInPath, LaneOnce, Lanes
<1>5. RefreshApart'
  BY <1>1, <1>3, <1>4 DEF RefInv, RefreshApart, Inside, Coming
<1>6. Leftover'
  BY <1>1, <1>3 DEF RefInv, Leftover, Inside, Coming
<1>7. QED BY <1>5, <1>6 DEF RefInv

LEMMA RefStep ==
  ASSUME CoreInv, RefInv, [Next]_vars
  PROVE  RefInv'
<1>1. CASE Clk
  <2>1. PICK rx \in {NoInstr} \cup WordsAfter(sent) :
          /\ PathClk(rx, MaintWord(aref_trfc), TRUE, lock_pr_rd_r)
          /\ MaintClk(FALSE)
          /\ Observe
    BY <1>1 DEF Clk
  <2>2. rx.from # "maint"
    BY RxFrom DEF CoreInv, TypeInv
  <2>3. QED BY <2>1, <2>2, RefBusy, RefIdle
<1>2. CASE Rst
  BY <1>2, RefRst
<1>3. CASE UNCHANGED vars
  BY <1>3, RefStutter
<1>4. QED BY <1>1, <1>2, <1>3 DEF Next

\* Once the host has written 0 to tREFI, or after a reset, the memory sees at most
\* one more auto-refresh, whatever sequences the host sends before and behind it
\* and whenever the timer fires: not one from the handler, one from the path and
\* one from a request the switch has not reached yet.
THEOREM RefreshesStop == Spec => []RefreshStops
<1>1. Init => CoreInv /\ RefInv
  BY TypeInit, HandoverInit, PathInvInit, RefInit DEF CoreInv, Init
<1>2. CoreInv /\ RefInv /\ [Next]_vars => CoreInv' /\ RefInv'
  <2>1. CoreInv /\ [Next]_vars => CoreInv'
    BY TypeStep, TypeStutter, HandoverStep, PathInvNext DEF CoreInv
  <2>2. QED BY <2>1, RefStep
<1>3. RefInv => RefreshStops
  BY DEF RefInv, Leftover, RefreshStops, RefreshOn
<1>4. QED BY <1>1, <1>2, <1>3, PTL DEF Spec
=============================================================================
