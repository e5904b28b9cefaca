-------------------------- MODULE IseqPathProofs --------------------------
(***************************************************************************)
(* The instruction path, whatever feeds it: the host's words, the          *)
(* maintenance handler's and dfi_ready are arbitrary in every lemma, so    *)
(* that the modules that compose the path can cite them.                   *)
(***************************************************************************)
EXTENDS IseqPath, TLAPS

InstrOrNone == Instruction \cup {NoInstr}

USE DEF InstrOrNone

-----------------------------------------------------------------------------
(* Each part keeps its types.                                              *)

LEMMA PipeInType ==
  ASSUME PathTypeOK, NEW l \in Lanes
  PROVE  PipeIn(l) \in InstrOrNone
<1>1. ASSUME Shows(l) PROVE Head(fifo[l]) \in Instruction
  <2>1. fifo[l] \in Seq(Instruction) /\ fresh[l] \in {0, 1}
    BY DEF PathTypeOK
  <2>2. fifo[l] # << >>
    BY <1>1, <2>1 DEF Shows
  <2>3. QED BY <2>1, <2>2
<1>2. QED BY <1>1 DEF PipeIn

LEMMA CyclesType ==
  ASSUME NEW i \in InstrOrNone
  PROVE  Cycles(i) \in 0 .. WAIT_MOD - 1
<1>1. i.arg \in Nat
  BY DEF Instruction, NoInstr
<1>2. QED BY <1>1, WaitModAssumption DEF Cycles

\* What the dispatcher issues comes from a loaded stage.
LEMMA IssueType ==
  ASSUME PathTypeOK, NEW dfi_ready
  PROVE  /\ Issue(Head0, dfi_ready)[1] \in InstrOrNone
         /\ Issue(Head0, dfi_ready)[2] \in InstrOrNone
         /\ Issue(Head0, dfi_ready)[1] # NoInstr => Loaded
         /\ Issue(Head0, dfi_ready)[2] # NoInstr => Loaded
<1>1. LaneOf(0) \in Lanes /\ LaneOf(1) \in Lanes
  BY DEF PathTypeOK, LaneOf, Lanes
<1>2. \A l \in Lanes : Head0[l] = pipe[l].first /\ Head0[l] \in InstrOrNone
  BY DEF PathTypeOK, PipeRegs, Slot, Head0
<1>3. \A l \in Lanes : Head0[l] # NoInstr => Loaded
  BY <1>2 DEF Loaded
<1>4. Issue(Head0, dfi_ready)[1] = IF Slot0Ready(dfi_ready) THEN Head0[LaneOf(0)] ELSE NoInstr
  BY DEF Issue
<1>5. Issue(Head0, dfi_ready)[2] = IF Slot1Ready(Head0, dfi_ready) THEN Head0[LaneOf(1)] ELSE NoInstr
  BY DEF Issue
<1>6. QED BY <1>1, <1>2, <1>3, <1>4, <1>5

LEMMA WaitNextType ==
  ASSUME NEW out, out[1] \in InstrOrNone, out[2] \in InstrOrNone,
         wait_cycles_r \in 0 .. WAIT_MOD - 1
  PROVE  WaitNext(out) \in 0 .. WAIT_MOD - 1
<1>1. Cycles(out[2]) \in 0 .. WAIT_MOD - 1 /\ Cycles(out[1]) \in 0 .. WAIT_MOD - 1
  BY CyclesType
<1>2. (Cycles(out[1]) - 1) % WAIT_MOD \in 0 .. WAIT_MOD - 1
  BY <1>1, WaitModAssumption
<1>3. (IF wait_cycles_r >= 2 THEN wait_cycles_r - 2 ELSE 0) \in 0 .. WAIT_MOD - 1
  BY WaitModAssumption
<1>4. QED BY <1>1, <1>2, <1>3 DEF WaitNext

LEMMA DispatcherType ==
  ASSUME PathTypeOK, NEW lock \in BOOLEAN, NEW dfi_ready,
         DispatcherClk(Head0, dfi_ready, lock) \/ DispatcherRst(Head0, dfi_ready, lock)
  PROVE  /\ wait_cycles_r' \in 0 .. WAIT_MOD - 1
         /\ instr_src_r' \in Lanes
         /\ bus_write_r' \in BOOLEAN
         /\ pr_rd_ack_r' \in BOOLEAN
         /\ burst_r' \in [rd : BOOLEAN, odd : BOOLEAN, wr : BOOLEAN]
         /\ aref_r' \in [interval : InstrOrNone, trfc : InstrOrNone]
<1> DEFINE out == Issue(Head0, dfi_ready)
<1>1. out[1] \in InstrOrNone /\ out[2] \in InstrOrNone
  BY IssueType
<1>2. /\ wait_cycles_r \in 0 .. WAIT_MOD - 1
      /\ instr_src_r \in Lanes
      /\ bus_write_r \in BOOLEAN
  BY DEF PathTypeOK
<1> HIDE DEF out
<1>3. WaitNext(out) \in 0 .. WAIT_MOD - 1
  BY <1>1, <1>2, WaitNextType
<1>4. SrcNext(Head0, out) \in Lanes
  BY <1>2 DEF SrcNext, Lanes
<1>5. \A op : Latest(out, op) \in InstrOrNone
  BY <1>1 DEF Latest
<1>6. BusWriteNext(out) \in BOOLEAN
  BY <1>2, Zenon DEF BusWriteNext
<1>7. Issues(out, "RD") \in BOOLEAN /\ Issues(out, "WR") \in BOOLEAN
  BY Zenon DEF Issues
<1>8. BurstNext(out, lock) \in [rd : BOOLEAN, odd : BOOLEAN, wr : BOOLEAN]
  BY <1>7 DEF BurstNext
<1>9. CASE DispatcherClk(Head0, dfi_ready, lock)
  BY <1>9, <1>3, <1>4, <1>5, <1>6, <1>7, <1>8 DEF DispatcherClk, out
<1>10. CASE DispatcherRst(Head0, dfi_ready, lock)
  <2>1. /\ wait_cycles_r' = 0 /\ instr_src_r' = 0 /\ bus_write_r' = FALSE
        /\ pr_rd_ack_r' = Issues(out, "RD")
        /\ burst_r' = NoBurst /\ aref_r' = NoArefSet
    BY <1>10 DEF DispatcherRst, out
  <2>2. 0 \in 0 .. WAIT_MOD - 1 /\ 0 \in Lanes
    BY WaitModAssumption DEF Lanes
  <2>3. NoBurst \in [rd : BOOLEAN, odd : BOOLEAN, wr : BOOLEAN]
    BY DEF NoBurst
  <2>4. NoArefSet \in [interval : InstrOrNone, trfc : InstrOrNone]
    BY DEF NoArefSet
  <2>5. QED BY <1>7, <2>1, <2>2, <2>3, <2>4
<1>11. QED BY <1>9, <1>10

LEMMA ReceiverType ==
  ASSUME PathTypeOK, NEW maint \in InstrOrNone,
         ReceiverClk(app, maint, ~dispatcher_busy_r) \/ ReceiverRst
  PROVE  /\ state_r' \in {"IDLE", "APP", "MAINT"}
         /\ process_iseq_r' \in BOOLEAN
         /\ sel_fifo' \in Lanes
         /\ instr_r' \in InstrOrNone
<1>1. app \in InstrOrNone /\ sel_fifo \in Lanes
  BY DEF PathTypeOK
<1>2. SelNext \in Lanes
  BY <1>1 DEF SelNext, Lanes
<1>3. CASE ReceiverRst
  BY <1>3 DEF ReceiverRst, Lanes
<1>4. CASE ReceiverClk(app, maint, ~dispatcher_busy_r)
  BY <1>1, <1>2, <1>4
     DEF ReceiverClk, Stay, StartApp, StartMaint, TakeApp, TakeMaint, Load
<1>5. QED BY <1>3, <1>4

LEMMA FifoType ==
  ASSUME PathTypeOK, FifoClk \/ FifoRst
  PROVE  fifo' \in [Lanes -> Seq(Instruction)] /\ fresh' \in [Lanes -> {0, 1}]
<1>1. /\ instr_r \in InstrOrNone
      /\ \A l \in Lanes : fifo[l] \in Seq(Instruction) /\ fresh[l] \in {0, 1}
  BY DEF PathTypeOK
<1>2. ASSUME NEW l \in Lanes PROVE FifoNext(l) \in Seq(Instruction)
  <2>1. fifo[l] \in Seq(Instruction) /\ fresh[l] \in {0, 1}
    BY <1>1
  <2>2. (IF FifoRd(l) /\ Shows(l) THEN Tail(fifo[l]) ELSE fifo[l]) \in Seq(Instruction)
    BY <2>1 DEF Shows
  <2>3. (IF FifoWr(l) /\ Len(fifo[l]) < FifoDepth THEN <<instr_r>> ELSE << >>)
          \in Seq(Instruction)
    BY <1>1 DEF FifoWr
  <2>4. QED BY <2>2, <2>3 DEF FifoNext
<1>3. CASE FifoClk
  BY <1>2, <1>3, PathAssumption DEF FifoClk
<1>4. CASE FifoRst
  BY <1>4 DEF FifoRst
<1>5. QED BY <1>3, <1>4

LEMMA PipeType ==
  ASSUME PathTypeOK, NEW ack, PipeClk(ack) \/ PipeRst(ack)
  PROVE  pipe' \in [Lanes -> PipeRegs]
<1>1. \A l \in Lanes : pipe[l] \in PipeRegs /\ PipeIn(l) \in InstrOrNone
  BY PipeInType DEF PathTypeOK
<1>2. ASSUME NEW l \in Lanes
      PROVE  PipeRegRst(pipe[l], ack[l]) \in PipeRegs
  BY <1>1 DEF PipeRegs, Slot, PipeRegRst, first_buf_ready
<1>3. ASSUME NEW l \in Lanes
      PROVE  Settle(PipeRegClk(pipe[l], ack[l], PipeIn(l))) \in PipeRegs
  BY <1>1 DEF PipeRegs, Slot, PipeRegClk, Settle, first_buf_ready
<1>4. QED BY <1>2, <1>3 DEF PipeClk, PipeRst

LEMMA AppNextType ==
  ASSUME PathTypeOK, NEW rx \in InstrOrNone
  PROVE  AppNext(rx) \in InstrOrNone
  BY DEF AppNext, PathTypeOK

LEMMA BusyType == \A rst : BusyNext(rst) \in BOOLEAN
  BY Zenon DEF BusyNext
LEMMA PathTypeInit == PathInit => PathTypeOK
<1> SUFFICES ASSUME PathInit PROVE PathTypeOK
  OBVIOUS
<1>1. NoBurst \in [rd : BOOLEAN, odd : BOOLEAN, wr : BOOLEAN]
  BY DEF NoBurst
<1>2. PipeRegInit \in PipeRegs
  BY DEF PipeRegInit, PipeRegs, Slot
<1>3. 0 \in 0 .. WAIT_MOD - 1 /\ 0 \in Lanes
  BY WaitModAssumption DEF Lanes
<1>4. /\ state_r \in {"IDLE", "APP", "MAINT"}
      /\ process_iseq_r \in BOOLEAN
      /\ sel_fifo \in Lanes
      /\ instr_r \in Instruction \cup {NoInstr}
  BY <1>3, Zenon DEF PathInit, ReceiverInit
<1>5. /\ wait_cycles_r \in 0 .. WAIT_MOD - 1
      /\ instr_src_r \in Lanes
      /\ bus_write_r \in BOOLEAN
      /\ pr_rd_ack_r \in BOOLEAN
      /\ burst_r \in [rd : BOOLEAN, odd : BOOLEAN, wr : BOOLEAN]
  BY <1>1, <1>3, Zenon DEF PathInit, DispatcherInit
<1>6. /\ app \in Instruction \cup {NoInstr}
      /\ dispatcher_busy_r \in BOOLEAN
  BY Zenon DEF PathInit
<1>7. /\ fifo \in [Lanes -> Seq(Instruction)]
      /\ fresh \in [Lanes -> {0, 1}]
      /\ pipe \in [Lanes -> PipeRegs]
  BY <1>2 DEF PathInit
<1>8. QED BY <1>4, <1>5, <1>6, <1>7 DEF PathTypeOK

LEMMA PathTypeStep ==
  ASSUME PathTypeOK, NEW rx \in InstrOrNone, NEW maint \in InstrOrNone,
         NEW dfi_ready, NEW lock \in BOOLEAN,
         PathClk(rx, maint, dfi_ready, lock) \/ PathRst(rx, dfi_ready, lock)
  PROVE  /\ PathTypeOK'
         /\ aref_r' \in [interval : InstrOrNone, trfc : InstrOrNone]
<1>1. CASE PathClk(rx, maint, dfi_ready, lock)
  BY <1>1, DispatcherType, ReceiverType, FifoType, PipeType, AppNextType, BusyType
     DEF PathClk, PathTypeOK
<1>2. CASE PathRst(rx, dfi_ready, lock)
  BY <1>2, DispatcherType, ReceiverType, FifoType, PipeType, AppNextType, BusyType
     DEF PathRst, PathTypeOK
<1>3. QED BY <1>1, <1>2

-----------------------------------------------------------------------------
(* One sequence at a time.                                                 *)

\* The path between two sequences.  A FIFO's output shows a word late, so the
\* dispatcher's busy falls on what it sees: that nothing is left then rests on
\* no word being written while it is busy, but the END in its first clock, and
\* on the other FIFO's showing a word in that clock.
PathInv ==
  /\ StagesOrdered
  /\ Loaded => dispatcher_busy_r
  /\ state_r # "IDLE" => ~dispatcher_busy_r /\ ~process_iseq_r
  /\ state_r # "IDLE" => instr_r # NoInstr \/ fifo[1 - sel_fifo] # << >>
  /\ process_iseq_r => ~dispatcher_busy_r /\ fifo[1 - sel_fifo] # << >>
  /\ state_r = "IDLE" /\ ~process_iseq_r => instr_r = NoInstr
  /\ state_r = "IDLE" /\ ~process_iseq_r /\ ~dispatcher_busy_r =>
       \A l \in Lanes : fifo[l] = << >>
  /\ dispatcher_busy_r /\ (\E l \in Lanes : fresh[l] # 0) => \E l \in Lanes : Shows(l)

\* What a clock does to a register stage.
LEMMA PipeStep ==
  ASSUME PathTypeOK, NEW ack, PipeClk(ack), NEW l \in Lanes
  PROVE  LET free == ack[l] \/ pipe[l].first = NoInstr
         IN  /\ pipe'[l].ready <=> free
             /\ pipe'[l].first = IF pipe[l].ready /\ free THEN PipeIn(l)
                                 ELSE IF ~pipe[l].ready /\ ack[l] THEN pipe[l].second
                                 ELSE pipe[l].first
             /\ pipe'[l].second = IF free THEN NoInstr
                                  ELSE IF pipe[l].ready THEN PipeIn(l) ELSE pipe[l].second
<1> DEFINE p == pipe[l]
           free == ack[l] \/ p.first = NoInstr
           q == PipeRegClk(p, ack[l], PipeIn(l))
<1>1. p \in PipeRegs /\ PipeIn(l) \in InstrOrNone
  BY PipeInType DEF PathTypeOK
<1>2. pipe'[l] = IF q.ready THEN [q EXCEPT !.second = NoInstr] ELSE q
  BY DEF PipeClk, Settle
<1>3. /\ q \in [ready : BOOLEAN, first : InstrOrNone, second : InstrOrNone]
      /\ q.ready <=> free
      /\ q.first = IF p.ready /\ free THEN PipeIn(l)
                   ELSE IF ~p.ready /\ ack[l] THEN p.second ELSE p.first
      /\ q.second = IF p.ready /\ ~free THEN PipeIn(l) ELSE p.second
  BY <1>1 DEF PipeRegClk, first_buf_ready, PipeRegs, Slot
<1> HIDE DEF q
<1>4. /\ pipe'[l].first = q.first
      /\ pipe'[l].ready <=> free
      /\ pipe'[l].second = IF free THEN NoInstr ELSE q.second
  BY <1>2, <1>3
<1>5. QED BY <1>3, <1>4

\* A loaded stage is loaded by a busy dispatcher or was loaded before.
LEMMA StagesStep ==
  ASSUME PathTypeOK, StagesOrdered, Loaded => dispatcher_busy_r, NEW ack, PipeClk(ack) \/ PipeRst(ack)
  PROVE  /\ StagesOrdered'
         /\ Loaded' => dispatcher_busy_r /\ Remains
<1>1. ASSUME NEW l \in Lanes
      PROVE  /\ pipe[l] \in PipeRegs
             /\ PipeRegInv(pipe[l])
             /\ pipe[l].first # NoInstr => dispatcher_busy_r /\ Remains
             /\ PipeIn(l) # NoInstr => dispatcher_busy_r /\ Remains
  BY DEF PathTypeOK, StagesOrdered, Loaded, Remains, PipeIn
<1>2. CASE PipeRst(ack)
  <2>1. \A l \in Lanes : pipe'[l] = PipeRegRst(pipe[l], ack[l])
    BY <1>2 DEF PipeRst
  <2>2. ASSUME NEW l \in Lanes
        PROVE  pipe'[l].first = NoInstr /\ pipe'[l].second = NoInstr
    <3>1. \A p, a : PipeRegRst(p, a).first = NoInstr /\ PipeRegRst(p, a).second = NoInstr
      BY DEF PipeRegRst
    <3>2. QED BY <2>1, <3>1
  <2>3. QED BY <2>2, Zenon DEF StagesOrdered, Loaded, PipeRegInv
<1>3. CASE PipeClk(ack)
  <2>1. ASSUME NEW l \in Lanes
        PROVE  /\ PipeRegInv(pipe'[l])
               /\ pipe'[l].ready => pipe'[l].second = NoInstr
               /\ pipe'[l].first # NoInstr => dispatcher_busy_r /\ Remains
    BY <1>1, <1>3, PipeStep DEF PipeRegInv, PipeRegs
  <2>2. QED BY <2>1 DEF StagesOrdered, Loaded
<1>4. QED BY <1>2, <1>3


\* What a clock of the receiver does, seen from the FIFOs.
LEMMA ReceiverStep ==
  ASSUME PathTypeOK, PathInv, NEW maint,
         ReceiverClk(app, maint, ~dispatcher_busy_r)
  PROVE  /\ sel_fifo' = SelNext
         /\ process_iseq_r' => state_r' = "IDLE" /\ state_r # "IDLE"
         /\ state_r' = "IDLE" /\ ~process_iseq_r' => state_r = "IDLE" /\ instr_r' = NoInstr
         /\ state_r' # "IDLE" /\ state_r = "IDLE" =>
              /\ ~process_iseq_r /\ ~dispatcher_busy_r
              /\ instr_r' # NoInstr
  BY DEF ReceiverClk, Stay, StartApp, StartMaint, TakeApp, TakeMaint, Load, MayStart

\* The FIFOs of an idle dispatcher only fill.
LEMMA FifoFills ==
  ASSUME PathTypeOK, FifoClk, ~dispatcher_busy_r, NEW l \in Lanes
  PROVE  /\ Len(fifo[l]) \in Nat
         /\ FifoWr(l) /\ Len(fifo[l]) < FifoDepth => Len(fifo'[l]) = Len(fifo[l]) + 1
         /\ ~(FifoWr(l) /\ Len(fifo[l]) < FifoDepth) => Len(fifo'[l]) = Len(fifo[l])
<1>1. fifo[l] \in Seq(Instruction)
  BY DEF PathTypeOK
<1>2. CASE FifoWr(l) /\ Len(fifo[l]) < FifoDepth
  <2>1. fifo'[l] = fifo[l] \o <<instr_r>>
    BY <1>2 DEF FifoClk, FifoNext, FifoRd
  <2>2. instr_r \in Instruction
    BY <1>2 DEF FifoWr, PathTypeOK
  <2>3. <<instr_r>> \in Seq(Instruction) /\ Len(<<instr_r>>) = 1
    BY <2>2
  <2>4. Len(fifo[l] \o <<instr_r>>) = Len(fifo[l]) + 1 /\ Len(fifo[l]) \in Nat
    BY <1>1, <2>2, <2>3
  <2>5. QED BY <1>2, <2>1, <2>4, Zenon
<1>3. CASE ~(FifoWr(l) /\ Len(fifo[l]) < FifoDepth)
  <2>1. fifo'[l] = fifo[l] \o << >>
    BY <1>3 DEF FifoClk, FifoNext, FifoRd
  <2>2. fifo[l] \o << >> = fifo[l] /\ Len(fifo[l]) \in Nat
    BY <1>1
  <2>3. QED BY <1>3, <2>1, <2>2, Zenon
<1>4. QED BY <1>2, <1>3

\* What a clock does to the FIFOs: only the selected one is written, and none is
\* read while the dispatcher is idle.
LEMMA FifoStep ==
  ASSUME PathTypeOK, FifoClk, NEW l \in Lanes
  PROVE  /\ fresh'[l] # 0 => FifoWr(l)
         /\ ~FifoWr(l) /\ fifo[l] = << >> => fifo'[l] = << >>
         /\ ~dispatcher_busy_r /\ fifo[l] # << >> => fifo'[l] # << >>
         /\ ~dispatcher_busy_r /\ FifoWr(l) => fifo'[l] # << >>
<1>1. /\ fifo[l] \in Seq(Instruction) /\ fresh[l] \in {0, 1}
      /\ instr_r \in InstrOrNone
  BY DEF PathTypeOK
<1>2. /\ fifo'[l] = FifoNext(l)
      /\ fresh'[l] = IF FifoWr(l) /\ Len(fifo[l]) < FifoDepth THEN FifoLatency ELSE 0
  BY DEF FifoClk
<1>3. fresh'[l] # 0 => FifoWr(l)
  BY <1>2
<1>4. ~FifoWr(l) /\ fifo[l] = << >> => fifo'[l] = << >>
  <2>1. SUFFICES ASSUME ~FifoWr(l), fifo[l] = << >> PROVE fifo'[l] = << >>
    OBVIOUS
  <2>2. ~Shows(l)
    BY <1>1, <2>1 DEF Shows
  <2>3. QED BY <1>2, <2>1, <2>2 DEF FifoNext
<1>5. ASSUME ~dispatcher_busy_r
      PROVE  /\ fifo[l] # << >> => fifo'[l] # << >>
             /\ FifoWr(l) => fifo'[l] # << >>
  <2>1. fifo[l] # << >> => Len(fifo[l]) > 0
    BY <1>1
  <2>2. FifoDepth \in Nat /\ FifoDepth > 0 /\ Len(fifo[l]) \in Nat
    BY <1>1, PathAssumption
  <2>3. fifo[l] # << >> \/ FifoWr(l) => Len(fifo'[l]) > 0
    BY <1>5, <2>1, <2>2, FifoFills
  <2>4. Len(fifo'[l]) > 0 => fifo'[l] # << >>
    OBVIOUS
  <2>5. QED BY <2>3, <2>4
<1>6. QED BY <1>3, <1>4, <1>5

LEMMA PathInvInit == PathInit => PathInv
<1> SUFFICES ASSUME PathInit PROVE PathInv
  OBVIOUS
<1>1. \A l \in Lanes : pipe[l] = [ready |-> TRUE, first |-> NoInstr, second |-> NoInstr]
  BY DEF PathInit, PipeRegInit
<1>2. \A l \in Lanes : pipe[l].first = NoInstr /\ pipe[l].second = NoInstr
  BY <1>1
<1>3. StagesOrdered /\ ~Loaded
  BY <1>2, Zenon DEF StagesOrdered, Loaded, PipeRegInv
<1>4. /\ state_r = "IDLE" /\ process_iseq_r = FALSE /\ instr_r = NoInstr
      /\ dispatcher_busy_r = FALSE
      /\ \A l \in Lanes : fifo[l] = << >>
  BY DEF PathInit, ReceiverInit
<1>5. QED BY <1>3, <1>4 DEF PathInv

LEMMA PathInvRst ==
  ASSUME PathTypeOK, PathInv, NEW rx, NEW dfi_ready, NEW lock,
         PathRst(rx, dfi_ready, lock)
  PROVE  PathInv'
<1>1. /\ state_r' = "IDLE" /\ process_iseq_r' = FALSE /\ instr_r' = NoInstr
      /\ \A l \in Lanes : fifo'[l] = << >> /\ fresh'[l] = 0
  BY DEF PathRst, ReceiverRst, FifoRst
<1>2. \A l \in Lanes : pipe'[l] = PipeRegRst(pipe[l], en_ack(Head0, dfi_ready)[l])
  BY DEF PathRst, PipeRst
<1>3. \A p, a : PipeRegRst(p, a).first = NoInstr /\ PipeRegRst(p, a).second = NoInstr
  BY DEF PipeRegRst
<1>4. StagesOrdered' /\ ~Loaded'
  <2>1. \A l \in Lanes : pipe'[l].first = NoInstr /\ pipe'[l].second = NoInstr
    BY <1>2, <1>3
  <2>2. QED BY <2>1, Zenon DEF StagesOrdered, Loaded, PipeRegInv
<1>5. QED BY <1>1, <1>4 DEF PathInv

LEMMA PathInvClk ==
  ASSUME PathTypeOK, PathInv, NEW rx, NEW maint, NEW dfi_ready, NEW lock,
         PathClk(rx, maint, dfi_ready, lock)
  PROVE  PathInv'
<1>1. /\ FifoClk
      /\ PipeClk(en_ack(Head0, dfi_ready))
      /\ ReceiverClk(app, maint, ~dispatcher_busy_r)
      /\ dispatcher_busy_r' <=> process_iseq_r \/ (dispatcher_busy_r /\ Remains)
  BY DEF PathClk, BusyNext
<1>2. /\ sel_fifo \in Lanes /\ 1 - sel_fifo \in Lanes /\ 1 - (1 - sel_fifo) = sel_fifo
      /\ sel_fifo # 1 - sel_fifo
      /\ \A l \in Lanes : l = sel_fifo \/ l = 1 - sel_fifo
  BY DEF PathTypeOK, Lanes
<1>3. StagesOrdered' /\ (Loaded' => dispatcher_busy_r')
  BY <1>1, StagesStep DEF PathInv
<1>4. state_r' # "IDLE" => ~dispatcher_busy_r' /\ ~process_iseq_r'
  BY <1>1, ReceiverStep DEF PathInv
\* A sequence being filled keeps its first word in a FIFO or the word register.
<1>5. ASSUME state_r # "IDLE"
      PROVE  fifo'[1 - sel_fifo'] # << >>
  <2>1. ~dispatcher_busy_r /\ ~process_iseq_r
    BY <1>5 DEF PathInv
  <2>2. CASE instr_r = NoInstr
    <3>1. sel_fifo' = sel_fifo
      BY <1>1, <2>1, <2>2, ReceiverStep DEF SelNext
    <3>2. fifo[1 - sel_fifo] # << >>
      BY <1>5, <2>2 DEF PathInv
    <3>3. QED BY <1>1, <1>2, <2>1, <3>1, <3>2, FifoStep
  <2>3. CASE instr_r # NoInstr
    <3>1. 1 - sel_fifo' = sel_fifo
      BY <1>1, <1>2, <2>1, <2>3, ReceiverStep DEF SelNext
    <3>2. FifoWr(sel_fifo)
      BY <2>3 DEF FifoWr
    <3>3. QED BY <1>1, <1>2, <2>1, <3>1, <3>2, FifoStep
  <2>4. QED BY <2>2, <2>3
<1>6. state_r' # "IDLE" => instr_r' # NoInstr \/ fifo'[1 - sel_fifo'] # << >>
  BY <1>1, <1>5, ReceiverStep
<1>7. process_iseq_r' => ~dispatcher_busy_r' /\ fifo'[1 - sel_fifo'] # << >>
  BY <1>1, <1>5, ReceiverStep DEF PathInv
<1>8. state_r' = "IDLE" /\ ~process_iseq_r' => instr_r' = NoInstr
  BY <1>1, ReceiverStep
\* Busy falls only when no word is left, not even one its FIFO does not show.
<1>9. ASSUME state_r' = "IDLE", ~process_iseq_r', ~dispatcher_busy_r', NEW l \in Lanes
      PROVE  fifo'[l] = << >>
  <2>1. state_r = "IDLE" /\ ~process_iseq_r /\ instr_r = NoInstr
    BY <1>1, <1>9, ReceiverStep DEF PathInv
  <2>2. ~FifoWr(l)
    BY <2>1 DEF FifoWr
  <2>3. CASE ~dispatcher_busy_r
    BY <1>1, <2>1, <2>2, <2>3, FifoStep DEF PathInv
  <2>4. CASE dispatcher_busy_r
    <3>1. \A k \in Lanes : ~Shows(k)
      BY <1>1, <1>9, <2>4 DEF Remains
    <3>2. fresh[l] = 0
      BY <2>4, <3>1 DEF PathInv
    <3>3. fifo[l] \in Seq(Instruction)
      BY DEF PathTypeOK
    <3>4. ~(Len(fifo[l]) > 0)
      BY <3>1, <3>2 DEF Shows
    <3>5. fifo[l] = << >>
      BY <3>3, <3>4
    <3>6. QED BY <1>1, <2>2, <3>5, FifoStep
  <2>5. QED BY <2>3, <2>4
\* The word written in the first busy clock is hidden, the one before it is not.
<1>10. ASSUME dispatcher_busy_r', NEW k \in Lanes, fresh'[k] # 0
       PROVE  \E l \in Lanes : Shows(l)'
  <2>1. FifoWr(k)
    BY <1>1, <1>10, FifoStep
  <2>2. process_iseq_r /\ ~dispatcher_busy_r
    BY <1>1, <1>10, <2>1 DEF FifoWr, PathInv
  <2> DEFINE l == 1 - sel_fifo
  <2>3. l \in Lanes /\ fifo[l] # << >> /\ ~FifoWr(l)
    BY <1>2, <2>2 DEF PathInv, FifoWr
  <2> HIDE DEF l
  <2>4. fifo'[l] # << >> /\ fresh'[l] = 0
    BY <1>1, <2>2, <2>3, FifoStep
  <2>5. fifo'[l] \in Seq(Instruction)
    BY <1>1, <2>3, FifoType
  <2>6. Len(fifo'[l]) > 0
    BY <2>4, <2>5
  <2>7. QED BY <2>3, <2>4, <2>6 DEF Shows
<1>11. QED BY <1>3, <1>4, <1>6, <1>7, <1>8, <1>9, <1>10 DEF PathInv

\* Nothing of a sequence is left where the receiver may start the next one.
LEMMA PathInvOneSequence ==
  ASSUME PathTypeOK, PathInv
  PROVE  OneSequenceAtATime
<1>1. ASSUME MayStart(~dispatcher_busy_r)
      PROVE  Program = << >>
  <2>1. /\ instr_r = NoInstr
        /\ \A l \in Lanes : fifo[l] = << >> /\ pipe[l].first = NoInstr
    BY <1>1 DEF MayStart, PathInv, Loaded
  <2>2. \A l \in Lanes : Lane(l) = << >>
    BY <2>1 DEF Lane, Content, AsSeq
  <2>3. NextLane \in Lanes /\ 1 - NextLane \in Lanes
    BY DEF NextLane, Turn, Lanes, PathTypeOK
  <2>4. Merge(<< >>, << >>) = << >>
    BY DEF Merge
  <2>5. Dealt = << >>
    BY <2>2, <2>3, <2>4 DEF Dealt
  <2>6. QED BY <2>1, <2>5 DEF Program, AsSeq
<1>2. QED BY <1>1 DEF OneSequenceAtATime, PathInv

LEMMA PathStutter ==
  ASSUME PathTypeOK, PathInv, UNCHANGED pathVars
  PROVE  PathTypeOK' /\ PathInv'
  BY DEF pathVars, receiverVars, dispatcherVars, PathTypeOK, PathInv, StagesOrdered,
         Loaded, Shows

=============================================================================
