--------------------------- MODULE RetentionTest ---------------------------
(***************************************************************************)
(* RetentionTest.cpp and the InstructionSequence of softmc.cpp it builds   *)
(* its rows with: the whole program, an action per call, and per insert.   *)
(* The FPGA executes a sequence while the program builds the next, and     *)
(* takes a sequence when it is done with the last (IseqPath).  Time is     *)
(* counted in milliseconds: the program takes row_ms to write a row, and   *)
(* to read it back, and no time for anything else.                         *)
(***************************************************************************)
EXTENDS Integers, Sequences

CONSTANTS
  NUM_ROWS, NUM_BANKS, NUM_BURSTS,  \* bursts of a row: NUM_COLS / 8
  init_cap,                         \* the first capacity of a sequence
  GroupMs,                          \* what the program takes a row to take: 5
  Retentions, RowTimes              \* bounds: the argument, the true time of a row

ASSUME TestAssumption ==
  /\ NUM_ROWS \in Nat \ {0} /\ NUM_BANKS \in Nat \ {0} /\ NUM_BURSTS \in Nat \ {0}
  /\ init_cap \in Nat \ {0} /\ GroupMs \in Nat \ {0}
  /\ Retentions \subseteq Int /\ RowTimes \subseteq Nat \ {0}

VARIABLES
  pc, retention,       \* the program's place and its argument
  iseq, todo, building,  \* the sequence, what is still to insert, whose it is
  wr, rd, i, dimm_done,  \* testRetention's local variables: <<row, bank>>
  t0, clock, row_ms,
  fpga,                \* the FPGA and the DRAM
  seen                 \* the bursts compared so far

sequence == <<iseq, todo, building>>
cursors == <<wr, rd, i, dimm_done>>
time == <<t0, clock, row_ms>>
testVars == <<pc, retention, sequence, cursors, time, fpga, seen>>

-----------------------------------------------------------------------------
(* InstructionSequence: the first size places of instrs are the sequence,  *)
(* the others hold whatever they held.                                     *)
NewInstruction(op, bank, arg) == [op |-> op, bank |-> bank, arg |-> arg]
Garbage == NewInstruction("garbage", 0, 0)
Null == [capacity |-> 0, size |-> 0, instrs |-> << >>]

Allocate(instrs, n) == instrs \o [k \in 1 .. n |-> Garbage]

NewSequence(cap) == [capacity |-> cap, size |-> 0, instrs |-> Allocate(<< >>, cap)]

insertNoCopy(q, c) ==
  LET room == IF q.size < q.capacity THEN q
              ELSE [NewSequence(2 * q.capacity) EXCEPT !.size = q.size]
  IN  [room EXCEPT !.size = @ + 1, !.instrs[q.size + 1] = c]
insert(q, c) ==
  LET room == IF q.size < q.capacity THEN q
              ELSE [q EXCEPT !.capacity = 2 * @, !.instrs = Allocate(@, q.capacity)]
  IN  [room EXCEPT !.size = @ + 1, !.instrs[q.size + 1] = c]

\* The size of the last sequence is kept.
ReusedKeepsSize(q) == IF q = Null THEN NewSequence(init_cap) ELSE q
\* How writeRow, readAndCompareRow and turnBus begin.
Reused(q) == IF q = Null THEN NewSequence(init_cap) ELSE [q EXCEPT !.size = 0]

-----------------------------------------------------------------------------
(* The instructions of the three helpers.                                  *)
Wait == NewInstruction("WAIT", 0, 0)
End == NewInstruction("END", 0, 0)
Pre(bank) == NewInstruction("PRE", bank, 0)

RowSequence(op, cur) ==
  <<Pre(cur[2]), Wait, NewInstruction("ACT", cur[2], cur[1]), Wait>>
    \o [k \in 1 .. 2 * NUM_BURSTS |->
          IF k % 2 = 1 THEN NewInstruction(op, cur[2], (k + 1) \div 2) ELSE Wait]
    \o <<Wait, Pre(cur[2]), Wait, End>>

BusSequenceOneWay(dir) == <<NewInstruction("BUSDIR", 0, "WRITE"), Wait, End>>
BusSequence(dir) == <<NewInstruction("BUSDIR", 0, dir), Wait, End>>

(* The FPGA and the DRAM behind it: a burst is known by its address and    *)
(* the time it was written; out holds the bursts read.                     *)
Burst(bank, row, col) == <<bank, row, col>>
Bursts == (0 .. NUM_BANKS - 1) \X (0 .. NUM_ROWS - 1) \X (1 .. NUM_BURSTS)
Never == -1

Reset ==
  [held |-> FALSE, iseq |-> << >>, bus |-> "READ",
   open |-> [b \in 0 .. NUM_BANKS - 1 |-> Never], out |-> << >>,
   dram |-> [b \in Bursts |-> Never]]

\* A bank with no open row gives a word nobody wrote.
Executed(f, c) ==
  LET banks == DOMAIN f.open
      burst == Burst(c.bank, IF c.bank \in banks THEN f.open[c.bank] ELSE Never, c.arg)
      word  == [burst |-> burst, written |-> IF burst \in Bursts THEN f.dram[burst] ELSE Never]
  IN  CASE c.op = "BUSDIR" -> [f EXCEPT !.bus = c.arg]
        [] c.op = "ACT" /\ c.bank \in banks -> [f EXCEPT !.open[c.bank] = c.arg]
        [] c.op = "PRE" /\ c.bank \in banks -> [f EXCEPT !.open[c.bank] = Never]
        [] c.op = "WR" /\ f.bus = "WRITE" /\ burst \in Bursts -> [f EXCEPT !.dram[burst] = clock]
        [] c.op = "RD" /\ f.bus = "READ" -> [f EXCEPT !.out = Append(@, word)]
        [] OTHER -> f

FpgaStep ==
  /\ fpga.iseq # << >>
  /\ fpga' = [Executed(fpga, Head(fpga.iseq)) EXCEPT !.iseq = Tail(@)]
  /\ UNCHANGED <<pc, retention, sequence, cursors, time, seen>>

-----------------------------------------------------------------------------
(* main.                                                                   *)
TestInit ==
  /\ pc = "args" /\ retention \in Retentions
  /\ iseq = Null /\ todo = << >> /\ building = "no"
  /\ wr = <<0, 0>> /\ rd = <<0, 0>> /\ i = 0 /\ dimm_done = FALSE
  /\ t0 = 0 /\ clock = 0 /\ row_ms \in RowTimes
  /\ fpga = Reset /\ seen = << >>

Goto(from, to) == pc = from /\ pc' = to

\* An argument <= 0 prints the help; fpga_list and fpga_open may fail.
Args ==
  /\ Goto("args", IF retention <= 0 THEN "exit4" ELSE "list")
  /\ UNCHANGED <<retention, sequence, cursors, time, fpga, seen>>
List ==
  /\ Goto("list", "open") \/ Goto("list", "exit1")
  /\ UNCHANGED <<retention, sequence, cursors, time, fpga, seen>>
Open ==   \* and fpga_reset
  /\ \/ Goto("open", "turn_write") /\ fpga' = [Reset EXCEPT !.held = TRUE]
     \/ Goto("open", "exit1") /\ fpga' = fpga
  /\ UNCHANGED <<retention, sequence, cursors, time, seen>>

-----------------------------------------------------------------------------
(* A call of a helper: it takes the sequence, inserts, and executes.  turn-*)
(* Bus has a copy of the pointer: a sequence it allocates itself is lost.  *)
Build(from, whose, instrs) ==
  /\ pc = from /\ building = "no"
  /\ building' = whose
  /\ iseq' = Reused(iseq)
  /\ todo' = instrs
  /\ UNCHANGED <<pc, retention, cursors, time, fpga, seen>>

BuildTurn(from, dir) ==
  Build(from, IF iseq = Null THEN "turnBus" ELSE "testRetention", BusSequence(dir))

Calling == \/ BuildTurn("turn_write", "WRITE")
           \/ Build("write", "testRetention", RowSequence("WR", wr))
           \/ BuildTurn("turn_read", "READ")
           \/ Build("read", "testRetention", RowSequence("RD", rd))

Insert ==
  /\ todo # << >>
  /\ iseq' = insert(iseq, Head(todo))
  /\ todo' = Tail(todo)
  /\ UNCHANGED <<pc, retention, building, cursors, time, fpga, seen>>

execute(from) ==
  /\ pc = from /\ building # "no" /\ todo = << >> /\ fpga.iseq = << >>
  /\ fpga' = [fpga EXCEPT !.iseq = SubSeq(iseq.instrs, 1, iseq.size)]
  /\ iseq' = IF building = "turnBus" THEN Null ELSE iseq
  /\ building' = "no" /\ todo' = todo

-----------------------------------------------------------------------------
(* testRetention.                                                          *)
group_size == (retention + GroupMs - 1) \div GroupMs

NextRowNoWrap(cur) ==
  IF cur[1] + 1 = NUM_ROWS THEN <<cur[1] + 1, cur[2] + 1>> ELSE <<cur[1] + 1, cur[2]>>
NextRow(cur) ==
  IF cur[1] + 1 = NUM_ROWS THEN <<0, cur[2] + 1>> ELSE <<cur[1] + 1, cur[2]>>

\* The timer of the last group goes on running.
TurnWriteKeepsTimer ==
  /\ execute("turn_write") /\ pc' = "write"
  /\ t0' = t0 /\ i' = 0
  /\ UNCHANGED <<retention, wr, rd, dimm_done, clock, row_ms, seen>>
TurnWrite ==
  /\ execute("turn_write") /\ pc' = "write"
  /\ t0' = clock /\ i' = 0
  /\ UNCHANGED <<retention, wr, rd, dimm_done, clock, row_ms, seen>>

WriteRow ==
  /\ execute("write")
  /\ wr' = NextRow(wr)
  /\ dimm_done' = (NextRow(wr)[2] = NUM_BANKS)
  /\ i' = i + 1
  /\ pc' = IF dimm_done' \/ i' = group_size THEN "turn_read" ELSE "write"
  /\ clock' = clock + row_ms
  /\ UNCHANGED <<retention, rd, t0, row_ms, seen>>

TurnRead ==
  /\ execute("turn_read") /\ pc' = "wait"
  /\ i' = 0
  /\ UNCHANGED <<retention, wr, rd, dimm_done, time, seen>>

\* A round of the do loop; the FPGA keeps up with the clock.
WaitRetention ==
  /\ pc = "wait" /\ fpga.iseq = << >>
  /\ IF clock - t0 < retention
     THEN pc' = pc /\ clock' = clock + 1
     ELSE pc' = "read" /\ clock' = clock
  /\ UNCHANGED <<retention, sequence, cursors, t0, row_ms, fpga, seen>>

ReadRow ==
  /\ execute("read") /\ pc' = "recv"
  /\ UNCHANGED <<retention, cursors, time, seen>>

\* After a row, the next one of the group.
AfterRowUnbounded ==
  IF i + 1 < group_size THEN "read" ELSE IF dimm_done THEN "close" ELSE "turn_write"
AfterRow ==
  IF i + 1 < group_size /\ NextRow(rd)[2] # NUM_BANKS THEN "read"
  ELSE IF dimm_done THEN "close" ELSE "turn_write"

LastColumnEarly(col) == col + 1 >= NUM_BURSTS
LastColumn(col) == col = NUM_BURSTS

\* The column the loop over the row has come to.
NextColumn == IF seen = << >> \/ seen[Len(seen)].row # rd THEN 1
              ELSE seen[Len(seen)].col + 1

\* fpga_recv and the comparison.
Recv ==
  LET col == NextColumn
      got == Head(fpga.out)
  IN  /\ pc = "recv" /\ fpga.out # << >>
      /\ fpga' = [fpga EXCEPT !.out = Tail(@)]
      /\ seen' = Append(seen, [row |-> rd, col |-> col, burst |-> got.burst,
                               written |-> got.written, held |-> clock - got.written])
      /\ IF ~LastColumn(col)
         THEN UNCHANGED <<pc, rd, i, clock>>
         ELSE pc' = AfterRow /\ rd' = NextRow(rd) /\ i' = i + 1 /\ clock' = clock + row_ms
      /\ UNCHANGED <<retention, sequence, wr, dimm_done, t0, row_ms>>

Close ==
  /\ Goto("close", "exit0")
  /\ fpga' = [fpga EXCEPT !.held = FALSE]
  /\ UNCHANGED <<retention, sequence, cursors, time, seen>>

\* The exit codes 0, -1 and -4.
Exits == {"exit0", "exit1", "exit4"}
Exited == pc \in Exits /\ UNCHANGED testVars

TestProgram ==
  \/ Args \/ List \/ Open \/ Calling \/ Insert \/ TurnWrite \/ WriteRow
  \/ TurnRead \/ WaitRetention \/ ReadRow \/ Recv \/ Close

TestNext == TestProgram \/ FpgaStep \/ Exited

TestSpec ==
  TestInit /\ [][TestNext]_testVars /\ WF_testVars(TestProgram) /\ WF_testVars(FpgaStep)

-----------------------------------------------------------------------------
\* The message of an error names the place the data came from: the two cursors,
\* the bus direction, the open row and the messages of the read-back channel
\* stay in step through a bank's end and a last group that is cut short.
ReportedWhereRead ==
  \A k \in 1 .. Len(seen) :
    seen[k].burst = Burst(seen[k].row[2], seen[k].row[1], seen[k].col)

\* "The test has been completed!" is printed after every burst of the DIMM was
\* written and then compared once; the device is closed by then.
CompletedMeansCovered ==
  pc = "exit0" =>
    /\ { seen[k].burst : k \in 1 .. Len(seen) } = Bursts
    /\ Len(seen) = NUM_BANKS * NUM_ROWS * NUM_BURSTS
    /\ fpga.out = << >> /\ ~fpga.held

\* Although one timer serves a group of rows and starts before the first of them
\* is written, no row is read sooner than the retention time after its writing,
\* but for the time of one row: the last group, cut short, included.
HeldLongEnough ==
  \A k \in 1 .. Len(seen) :
    seen[k].written # Never /\ seen[k].held >= retention - row_ms

\* What the FPGA has still to execute ends with the only END in it and holds
\* nothing that was not inserted, although the object is reused and its array
\* is copied when it is full: else the receiver waits for more, or begins on
\* what is left of an older sequence.
OneEnd ==
  \A k \in 1 .. Len(fpga.iseq) :
    /\ fpga.iseq[k] # Garbage
    /\ fpga.iseq[k] = End <=> k = Len(fpga.iseq)

\* The program ends: no fpga_recv waits for a message that does not come, and a
\* group that is cut short ends the outer loop.
TestEnds == pc = "list" ~> pc \in Exits
=============================================================================
