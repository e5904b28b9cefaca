--------------------------- MODULE RetentionProofs ---------------------------
(***************************************************************************)
(* The retention test, for every size of the DIMM, every retention time    *)
(* and every time a row takes.  D numbers the rows in the order of the     *)
(* test; a group begins at row Group, and row number n of the DIMM is      *)
(* written by t0 + (n - Group + 1) * row_ms.                               *)
(***************************************************************************)
EXTENDS RetentionTest, SequenceTheorems, TLAPS

-----------------------------------------------------------------------------
(* The inductive invariant.                                                *)

Ops == {"garbage", "WAIT", "END", "PRE", "ACT", "WR", "RD", "BUSDIR"}
Directions == {"READ", "WRITE"}
Word == [op : Ops, bank : Nat, arg : Nat \cup Directions]

\* Where a cursor may be: at a row, or behind the last one.
Cursor == { c \in (0 .. NUM_ROWS - 1) \X (0 .. NUM_BANKS) : c[2] = NUM_BANKS => c[1] = 0 }
Row == (0 .. NUM_ROWS - 1) \X (0 .. NUM_BANKS - 1)
D(c) == c[2] * NUM_ROWS + c[1]

Pcs == {"args", "list", "open", "turn_write", "write", "turn_read", "wait", "read", "recv",
        "close"} \cup Exits
Before == {"args", "list", "open", "exit1", "exit4"}
Reading == pc \in {"read", "recv"}
InGroup == pc \in {"write", "turn_read", "wait"} \/ Reading
Group == D(rd) - (IF Reading THEN i ELSE 0)

ProgramTypes ==
  /\ pc \in Pcs /\ retention \in Int /\ row_ms \in Nat \ {0}
  /\ wr \in Cursor /\ rd \in Cursor /\ i \in Nat /\ dimm_done \in BOOLEAN
  /\ t0 \in Nat /\ clock \in Nat
  /\ pc \notin {"args", "exit4"} => retention > 0

\* The sequence a program's place calls for.
Target == CASE pc = "turn_write" -> BusSequence("WRITE")
            [] pc = "write" -> RowSequence("WR", wr)
            [] pc = "turn_read" -> BusSequence("READ")
            [] OTHER -> RowSequence("RD", rd)

\* What is left of a sequence of which p instructions are done.
From(s, p) == [k \in 1 .. Len(s) - p |-> s[p + k]]

Sequence(q) ==
  /\ q.capacity \in Nat /\ q.size \in 0 .. q.capacity
  /\ q.instrs \in Seq(Word) /\ Len(q.instrs) = q.capacity
  /\ q = Null \/ q.capacity > 0
  /\ q = [capacity |-> q.capacity, size |-> q.size, instrs |-> q.instrs]

\* While a helper inserts, the sequence and what is left make up the target.
SequenceInv ==
  /\ Sequence(iseq)
  /\ building \in {"no", "turnBus", "testRetention"}
  /\ building = "no" => todo = << >>
  /\ building # "no" =>
       /\ pc \in {"turn_write", "write", "turn_read", "read"}
       /\ iseq # Null
       /\ iseq.size <= Len(Target)
       /\ todo = From(Target, iseq.size)
       /\ \A k \in 1 .. iseq.size : iseq.instrs[k] = Target[k]

CursorInv ==
  /\ dimm_done <=> wr[2] = NUM_BANKS
  /\ pc \in Before => wr = <<0, 0>> /\ rd = <<0, 0>>
  /\ pc = "turn_write" => wr = rd
  /\ pc \in Before \cup {"turn_write", "write"} => ~dimm_done
  /\ pc = "write" => i < group_size
  /\ pc \in {"write", "turn_read"} => D(wr) = D(rd) + i
  /\ pc = "wait" => i = 0
  /\ pc \in {"turn_read", "wait"} \/ Reading =>
       /\ Group >= 0 /\ D(rd) < D(wr) /\ D(wr) <= Group + group_size
       /\ dimm_done \/ D(wr) = Group + group_size
  /\ pc \in {"close", "exit0"} => dimm_done /\ rd = wr

TimeInv ==
  /\ pc \in {"write", "turn_read"} => clock = t0 + i * row_ms
  /\ Reading => clock >= t0 + retention + i * row_ms

-----------------------------------------------------------------------------
(* The FPGA and the DRAM.                                                  *)
Harmless(s) == \A k \in 1 .. Len(s) : s[k].op \in {"WAIT", "PRE", "END"}

\* The first p instructions of a row's sequence are done: its row is open from the
\* ACT to the last PRE.
RowAt(op, c, p) ==
  /\ p \in 0 .. Len(RowSequence(op, c))
  /\ fpga.iseq = From(RowSequence(op, c), p)
  /\ 3 <= p /\ p <= 2 * NUM_BURSTS + 5 => fpga.open[c[2]] = c[1]
BusAt(dir, p) ==
  /\ p \in 0 .. 3
  /\ fpga.iseq = From(BusSequence(dir), p)
  /\ 1 <= p => fpga.bus = dir

\* The bursts of row c up to column n were written in this group, and in time.
Stored(c, n) ==
  \A k \in 1 .. n : /\ fpga.dram[Burst(c[2], c[1], k)] # Never
                    /\ fpga.dram[Burst(c[2], c[1], k)] <= t0 + (D(c) - Group + 1) * row_ms
Upto(p, n) == n \in 0 .. NUM_BURSTS /\ \A k \in 1 .. NUM_BURSTS : 2 * k + 3 <= p <=> k <= n

WriteRunning ==
  \E c \in Row, p \in 0 .. 2 * NUM_BURSTS + 8, n \in 0 .. NUM_BURSTS :
    /\ NextRow(c) = wr /\ RowAt("WR", c, p) /\ Upto(p, n) /\ fpga.bus = "WRITE"
    /\ Stored(c, n)
    /\ \A d \in Row : Group <= D(d) /\ D(d) < D(c) => Stored(d, NUM_BURSTS)
Complete == \A d \in Row : Group <= D(d) /\ D(d) < D(wr) => Stored(d, NUM_BURSTS)

\* The bursts the FPGA has read and the program has not received yet.
ReadRunning ==
  \E p \in 0 .. 2 * NUM_BURSTS + 8, n \in 0 .. NUM_BURSTS :
    /\ RowAt("RD", rd, p) /\ Upto(p, n)
    /\ n = NextColumn - 1 + Len(fpga.out)
    /\ \A k \in 1 .. Len(fpga.out) :
         LET burst == Burst(rd[2], rd[1], NextColumn - 1 + k)
         IN  fpga.out[k] = [burst |-> burst, written |-> fpga.dram[burst]]

FpgaTypes ==
  /\ fpga = [held |-> fpga.held, iseq |-> fpga.iseq, bus |-> fpga.bus, open |-> fpga.open,
             out |-> fpga.out, dram |-> fpga.dram]
  /\ fpga.held \in BOOLEAN
  /\ fpga.iseq \in Seq(Word) /\ fpga.bus \in Directions
  /\ fpga.open \in [0 .. NUM_BANKS - 1 -> Int]
  /\ fpga.out \in Seq([burst : Bursts, written : Int])
  /\ fpga.dram \in [Bursts -> Int]

FpgaInv ==
  /\ pc \in Before => fpga.iseq = << >>
  /\ pc = "write" /\ i = 0 => \E p \in 0 .. 3 : BusAt("WRITE", p)
  /\ (pc = "write" /\ i > 0) \/ pc = "turn_read" => WriteRunning
  /\ pc = "wait" => Complete /\ \E p \in 0 .. 3 : BusAt("READ", p)
  /\ pc = "read" => Complete /\ Harmless(fpga.iseq) /\ fpga.bus = "READ"
  /\ pc = "recv" => Complete /\ ReadRunning /\ fpga.bus = "READ"
  /\ pc \in {"turn_write", "close", "exit0"} => Harmless(fpga.iseq)
  /\ pc # "recv" => fpga.out = << >>
  /\ pc = "exit0" => ~fpga.held

-----------------------------------------------------------------------------
(* What has been compared.                                                 *)
SeenRow(e) ==
  /\ e.row \in Row /\ e.col \in 1 .. NUM_BURSTS
  /\ D(e.row) < D(rd) \/ (pc = "recv" /\ e.row = rd /\ e.col < NUM_BURSTS)
SeenInv ==
  /\ seen \in Seq([row : Row, col : 1 .. NUM_BURSTS, burst : Bursts, written : Int, held : Int])
  /\ \A k \in 1 .. Len(seen) : SeenRow(seen[k])
  /\ Len(seen) = D(rd) * NUM_BURSTS + NextColumn - 1
  /\ \A c \in Row, n \in 1 .. NUM_BURSTS :
       D(c) < D(rd) \/ (c = rd /\ n < NextColumn) =>
         \E k \in 1 .. Len(seen) : seen[k].row = c /\ seen[k].col = n

TestInv ==
  /\ ProgramTypes /\ SequenceInv /\ CursorInv /\ TimeInv
  /\ FpgaTypes /\ FpgaInv /\ SeenInv
  /\ OneEnd /\ ReportedWhereRead /\ HeldLongEnough

-----------------------------------------------------------------------------
(* Rows and their numbers.                                                 *)

LEMMA Product ==
  ASSUME NEW a \in Int, NEW b \in Int
  PROVE  a * b \in Int /\ (a + 1) * b = a * b + b /\ (a - 1) * b = a * b - b
  OBVIOUS

LEMMA ProductMonotone ==
  ASSUME NEW a \in Nat, NEW b \in Nat, NEW m \in Nat, a < b
  PROVE  a * m + m <= b * m
<1>1. PICK k \in Nat : b = a + 1 + k
  <2>1. b - a - 1 \in Nat /\ b = a + 1 + (b - a - 1)
    OBVIOUS
  <2>2. QED BY <2>1
<1>2. b * m = a * m + m + k * m
  BY <1>1
<1>3. k * m \in Nat
  OBVIOUS
<1>4. QED BY <1>2, <1>3

LEMMA CursorType ==
  ASSUME NEW c \in Cursor
  PROVE  /\ c[1] \in 0 .. NUM_ROWS - 1 /\ c[2] \in 0 .. NUM_BANKS
         /\ c = <<c[1], c[2]>>
         /\ c[2] = NUM_BANKS => c[1] = 0
         /\ c[2] # NUM_BANKS => c \in Row
         /\ D(c) \in Nat
<1>1. /\ c[1] \in 0 .. NUM_ROWS - 1 /\ c[2] \in 0 .. NUM_BANKS /\ c = <<c[1], c[2]>>
      /\ c[2] = NUM_BANKS => c[1] = 0
  BY DEF Cursor
<1>2. c[2] # NUM_BANKS => c \in Row
  BY <1>1, TestAssumption DEF Row
<1>3. c[2] * NUM_ROWS \in Nat
  BY <1>1, TestAssumption
<1>4. QED BY <1>1, <1>2, <1>3 DEF D

LEMMA RowType ==
  ASSUME NEW c \in Row
  PROVE  /\ c \in Cursor /\ c[1] \in 0 .. NUM_ROWS - 1 /\ c[2] \in 0 .. NUM_BANKS - 1
         /\ c = <<c[1], c[2]>> /\ c[2] \in Nat /\ c[1] \in Nat
         /\ c[2] # NUM_BANKS
  BY TestAssumption DEF Row, Cursor

\* The number of a row determines it.
LEMMA RowNumber ==
  ASSUME NEW c \in Cursor, NEW d \in Cursor
  PROVE  /\ D(c) = D(d) => c = d
         /\ c[2] < d[2] => D(c) < D(d)
<1>1. ASSUME NEW a \in Cursor, NEW b \in Cursor, a[2] < b[2] PROVE D(a) < D(b)
  <2>1. /\ a[2] \in Nat /\ b[2] \in Nat /\ a[1] \in 0 .. NUM_ROWS - 1 /\ b[1] \in Nat
        /\ NUM_ROWS \in Nat
    BY CursorType, TestAssumption
  <2>2. a[2] * NUM_ROWS + NUM_ROWS <= b[2] * NUM_ROWS
    BY <1>1, <2>1, ProductMonotone
  <2>3. a[2] * NUM_ROWS \in Int /\ b[2] * NUM_ROWS \in Int
    BY <2>1
  <2>4. QED BY <2>1, <2>2, <2>3 DEF D
<1>2. ASSUME D(c) = D(d) PROVE c = d
  <2>1. c[2] \in Int /\ d[2] \in Int /\ D(c) \in Int /\ D(d) \in Int
    BY CursorType
  <2>2. c[2] = d[2]
    BY <1>1, <1>2, <2>1
  <2>3. c[1] = d[1]
    <3> DEFINE x == c[2] * NUM_ROWS
    <3>1. x \in Int /\ c[1] \in Int /\ d[1] \in Int
      BY <2>1, CursorType, TestAssumption
    <3>2. D(c) = x + c[1] /\ D(d) = x + d[1]
      BY <2>2 DEF D
    <3> HIDE DEF x
    <3>3. x + c[1] = x + d[1]
      BY <1>2, <3>2
    <3> DEFINE y == c[1]
               z == d[1]
    <3>4. y \in Int /\ z \in Int /\ x + y = x + z
      BY <3>1, <3>3
    <3> HIDE DEF y, z
    <3>5. y = z
      BY <3>1, <3>4
    <3>6. QED BY <3>5 DEF y, z
  <2>4. QED BY <2>2, <2>3, CursorType
<1>3. QED BY <1>1, <1>2

\* The cursor moves to the row with the next number.
LEMMA NextRowNumber ==
  ASSUME NEW c \in Row
  PROVE  NextRow(c) \in Cursor /\ D(NextRow(c)) = D(c) + 1
<1>1. c[1] \in 0 .. NUM_ROWS - 1 /\ c[2] \in 0 .. NUM_BANKS - 1
      /\ NUM_ROWS \in Nat \ {0} /\ NUM_BANKS \in Nat \ {0}
  BY RowType, TestAssumption
<1>2. (c[2] + 1) * NUM_ROWS = c[2] * NUM_ROWS + NUM_ROWS /\ c[2] * NUM_ROWS \in Int
  BY <1>1
<1>3. CASE c[1] + 1 = NUM_ROWS
  <2>1. NextRow(c) = <<0, c[2] + 1>>
    BY <1>3 DEF NextRow
  <2>2. NextRow(c) \in Cursor
    BY <1>1, <2>1 DEF Cursor
  <2>3. D(NextRow(c)) = (c[2] + 1) * NUM_ROWS + 0
    BY <2>1 DEF D
  <2>4. QED BY <1>1, <1>2, <1>3, <2>2, <2>3 DEF D
<1>4. CASE c[1] + 1 # NUM_ROWS
  <2>1. NextRow(c) = <<c[1] + 1, c[2]>>
    BY <1>4 DEF NextRow
  <2>2. NextRow(c) \in Cursor
    BY <1>1, <1>4, <2>1 DEF Cursor
  <2>3. D(NextRow(c)) = c[2] * NUM_ROWS + (c[1] + 1)
    BY <2>1 DEF D
  <2>4. QED BY <1>1, <1>2, <2>2, <2>3 DEF D
<1>5. QED BY <1>3, <1>4

\* The last number is the place behind the last row.
LEMMA LastNumber ==
  ASSUME NEW c \in Cursor, c[2] = NUM_BANKS
  PROVE  D(c) = NUM_BANKS * NUM_ROWS
<1>1. c[1] = 0 /\ NUM_BANKS * NUM_ROWS \in Int
  BY CursorType, TestAssumption
<1>2. QED BY <1>1 DEF D

\* Every row has a smaller number than the place behind the last one.
LEMMA BehindLast ==
  ASSUME NEW c \in Cursor, NEW d \in Cursor, d[2] = NUM_BANKS
  PROVE  c \in Row <=> D(c) < D(d)
<1>1. c[2] \in 0 .. NUM_BANKS /\ D(c) \in Nat /\ D(d) \in Nat /\ NUM_BANKS \in Nat
  BY CursorType, TestAssumption
<1>2. CASE c[2] = NUM_BANKS
  <2>1. c = d
    BY <1>2, CursorType
  <2>2. QED BY <1>1, <1>2, <2>1, RowType
<1>3. CASE c[2] # NUM_BANKS
  <2>1. c[2] < d[2]
    BY <1>1, <1>3
  <2>2. QED BY <1>3, <2>1, RowNumber, CursorType
<1>4. QED BY <1>2, <1>3

-----------------------------------------------------------------------------
(* The sequences.                                                          *)
BurstAt(op, bank, k) == IF k % 2 = 1 THEN NewInstruction(op, bank, (k + 1) \div 2) ELSE Wait

LEMMA Words ==
  /\ Wait \in Word /\ End \in Word /\ Garbage \in Word
  /\ \A b \in Nat : Pre(b) \in Word
  /\ \A op \in Ops, b \in Nat, a \in Nat \cup Directions : NewInstruction(op, b, a) \in Word
  /\ \A op, b, a : /\ NewInstruction(op, b, a).op = op /\ NewInstruction(op, b, a).bank = b
                   /\ NewInstruction(op, b, a).arg = a
  /\ Wait.op = "WAIT" /\ End.op = "END" /\ Garbage.op = "garbage"
  /\ \A b : Pre(b).op = "PRE" /\ Pre(b).bank = b
  BY DEF Wait, End, Garbage, Pre, NewInstruction, Word, Ops

LEMMA BusWords ==
  ASSUME NEW dir \in Directions
  PROVE  /\ BusSequence(dir) \in Seq(Word) /\ Len(BusSequence(dir)) = 3
         /\ BusSequence(dir)[1] = NewInstruction("BUSDIR", 0, dir)
         /\ BusSequence(dir)[2] = Wait /\ BusSequence(dir)[3] = End
<1> DEFINE a == NewInstruction("BUSDIR", 0, dir)
<1>1. a \in Word /\ Wait \in Word /\ End \in Word
  BY Words DEF Ops
<1>2. BusSequence(dir) = <<a, Wait, End>>
  BY DEF BusSequence
<1> HIDE DEF a
<1>3. QED BY <1>1, <1>2 DEF a

LEMMA HalfType ==
  ASSUME NEW k \in Nat, k > 0
  PROVE  /\ k % 2 \in {0, 1} /\ (k + 1) \div 2 \in Nat
         /\ k % 2 = 1 => k = 2 * ((k + 1) \div 2) - 1
         /\ \A n \in Nat : k = 2 * n - 1 => k % 2 = 1 /\ (k + 1) \div 2 = n
         /\ \A n \in Nat : k = 2 * n => k % 2 = 0
  OBVIOUS

\* The instructions of a row's sequence by their places.
LEMMA RowWords ==
  ASSUME NEW op \in {"RD", "WR"}, NEW c \in Row
  PROVE  /\ RowSequence(op, c) \in Seq(Word)
         /\ Len(RowSequence(op, c)) = 2 * NUM_BURSTS + 8
         /\ RowSequence(op, c)[1] = Pre(c[2]) /\ RowSequence(op, c)[2] = Wait
         /\ RowSequence(op, c)[3] = NewInstruction("ACT", c[2], c[1])
         /\ RowSequence(op, c)[4] = Wait
         /\ \A k \in 1 .. NUM_BURSTS :
              /\ RowSequence(op, c)[2 * k + 3] = NewInstruction(op, c[2], k)
              /\ RowSequence(op, c)[2 * k + 4] = Wait
         /\ RowSequence(op, c)[2 * NUM_BURSTS + 5] = Wait
         /\ RowSequence(op, c)[2 * NUM_BURSTS + 6] = Pre(c[2])
         /\ RowSequence(op, c)[2 * NUM_BURSTS + 7] = Wait
         /\ RowSequence(op, c)[2 * NUM_BURSTS + 8] = End
<1> DEFINE m == 2 * NUM_BURSTS
           act == NewInstruction("ACT", c[2], c[1])
           front == <<Pre(c[2]), Wait, act, Wait>>
           mid == [k \in 1 .. m |-> BurstAt(op, c[2], k)]
           back == <<Wait, Pre(c[2]), Wait, End>>
<1>1. c[2] \in Nat /\ c[1] \in Nat /\ NUM_BURSTS \in Nat \ {0} /\ m \in Nat
  BY RowType, TestAssumption
<1>2. /\ Pre(c[2]) \in Word /\ Wait \in Word /\ End \in Word /\ act \in Word
  BY <1>1, Words DEF Ops
<1>3. RowSequence(op, c) = (front \o mid) \o back
  BY DEF RowSequence, BurstAt
<1>4. /\ front \in Seq(Word) /\ Len(front) = 4
      /\ front[1] = Pre(c[2]) /\ front[2] = Wait /\ front[3] = act /\ front[4] = Wait
  <2> HIDE DEF act
  <2>1. QED BY <1>2
<1>5. /\ back \in Seq(Word) /\ Len(back) = 4
      /\ back[1] = Wait /\ back[2] = Pre(c[2]) /\ back[3] = Wait /\ back[4] = End
  BY <1>2
<1>6. ASSUME NEW k \in 1 .. m PROVE BurstAt(op, c[2], k) \in Word
  <2>1. k \in Nat /\ k > 0
    BY <1>1
  <2>2. (k + 1) \div 2 \in Nat
    BY <2>1, HalfType
  <2>3. QED BY <1>1, <1>2, <2>2, Words DEF BurstAt, Ops
<1>7. mid \in Seq(Word) /\ Len(mid) = m /\ \A k \in 1 .. m : mid[k] = BurstAt(op, c[2], k)
  <2> HIDE DEF m
  <2>1. QED BY <1>1, <1>6
<1> HIDE DEF front, mid, back
<1>8. /\ front \o mid \in Seq(Word) /\ Len(front \o mid) = 4 + m
      /\ \A k \in 1 .. 4 : (front \o mid)[k] = front[k]
      /\ \A k \in 1 .. m : (front \o mid)[4 + k] = mid[k]
  <2> HIDE DEF m
  <2>1. /\ front \o mid \in Seq(Word) /\ Len(front \o mid) = Len(front) + Len(mid)
        /\ \A k \in 1 .. Len(front) + Len(mid) :
             (front \o mid)[k] = IF k <= Len(front) THEN front[k] ELSE mid[k - Len(front)]
    <3>1. front \in Seq(Word) /\ mid \in Seq(Word)
      BY <1>4, <1>7
    <3>2. QED BY <3>1, ConcatProperties, Zenon
  <2>2. ASSUME NEW k \in 1 .. 4 PROVE (front \o mid)[k] = front[k]
    BY <1>1, <1>4, <1>7, <2>1
  <2>3. ASSUME NEW k \in 1 .. m PROVE (front \o mid)[4 + k] = mid[k]
    <3>1. 4 + k \in 1 .. Len(front) + Len(mid) /\ ~(4 + k <= Len(front))
          /\ (4 + k) - Len(front) = k
      BY <1>1, <1>4, <1>7
    <3>2. QED BY <2>1, <3>1
  <2>4. Len(front \o mid) = 4 + m
    BY <1>4, <1>7, <2>1
  <2>5. QED BY <2>1, <2>2, <2>3, <2>4
<1> DEFINE s == front \o mid
<1> HIDE DEF s
<1>9. /\ s \o back \in Seq(Word) /\ Len(s \o back) = m + 8
      /\ \A k \in 1 .. 4 + m : (s \o back)[k] = s[k]
      /\ \A k \in 1 .. 4 : (s \o back)[m + 4 + k] = back[k]
  <2> HIDE DEF m
  <2>0. s \in Seq(Word) /\ Len(s) = 4 + m
    BY <1>8 DEF s
  <2>1. /\ s \o back \in Seq(Word) /\ Len(s \o back) = Len(s) + Len(back)
        /\ \A k \in 1 .. Len(s) + Len(back) :
             (s \o back)[k] = IF k <= Len(s) THEN s[k] ELSE back[k - Len(s)]
    <3>1. s \in Seq(Word) /\ back \in Seq(Word)
      BY <1>5, <2>0
    <3>2. QED BY <3>1, ConcatProperties, Zenon
  <2>2. ASSUME NEW k \in 1 .. 4 + m PROVE (s \o back)[k] = s[k]
    BY <1>1, <1>5, <2>0, <2>1
  <2>3. ASSUME NEW k \in 1 .. 4 PROVE (s \o back)[m + 4 + k] = back[k]
    <3>1. m + 4 + k \in 1 .. Len(s) + Len(back) /\ ~(m + 4 + k <= Len(s))
          /\ (m + 4 + k) - Len(s) = k
      BY <1>1, <1>5, <2>0
    <3>2. QED BY <2>1, <3>1
  <2>4. Len(s \o back) = m + 8
    BY <1>1, <1>5, <2>0, <2>1
  <2>5. QED BY <2>1, <2>2, <2>3, <2>4
<1>10. RowSequence(op, c) = s \o back
  BY <1>3 DEF s
<1> DEFINE r == RowSequence(op, c)
<1> HIDE DEF r
<1>11. /\ r \in Seq(Word) /\ Len(r) = m + 8
       /\ \A k \in 1 .. 4 : r[k] = front[k]
       /\ \A k \in 1 .. m : r[4 + k] = mid[k]
       /\ \A k \in 1 .. 4 : r[m + 4 + k] = back[k]
  <2>1. r = s \o back
    BY <1>10 DEF r
  <2>2. \A k \in 1 .. 4 : r[k] = front[k]
    BY <1>1, <1>8, <1>9, <2>1 DEF s
  <2>3. ASSUME NEW k \in 1 .. m PROVE r[4 + k] = mid[k]
    <3>1. 4 + k \in 1 .. 4 + m
      BY <1>1
    <3>2. QED BY <1>8, <1>9, <2>1, <3>1 DEF s
  <2>4. QED BY <1>9, <2>1, <2>2, <2>3
<1>12. ASSUME NEW k \in 1 .. NUM_BURSTS
       PROVE  r[2 * k + 3] = NewInstruction(op, c[2], k) /\ r[2 * k + 4] = Wait
  <2>1. /\ 2 * k - 1 \in 1 .. m /\ 2 * k \in 1 .. m /\ 4 + (2 * k - 1) = 2 * k + 3
        /\ 4 + 2 * k = 2 * k + 4
    BY <1>1
  <2>2. mid[2 * k - 1] = NewInstruction(op, c[2], k) /\ mid[2 * k] = Wait
    <3>1. /\ (2 * k - 1) % 2 = 1 /\ ((2 * k - 1) + 1) \div 2 = k
          /\ (2 * k) % 2 = 0
      BY HalfType
    <3>2. QED BY <1>7, <2>1, <3>1 DEF BurstAt
  <2>3. QED BY <1>11, <2>1, <2>2
<1>13. /\ r[m + 5] = Wait /\ r[m + 6] = Pre(c[2]) /\ r[m + 7] = Wait /\ r[m + 8] = End
  <2>1. m + 4 + 1 = m + 5 /\ m + 4 + 2 = m + 6 /\ m + 4 + 3 = m + 7 /\ m + 4 + 4 = m + 8
    BY <1>1
  <2>2. r[m + 4 + 1] = back[1] /\ r[m + 4 + 2] = back[2] /\ r[m + 4 + 3] = back[3]
        /\ r[m + 4 + 4] = back[4]
    BY <1>11
  <2>3. QED BY <1>5, <2>1, <2>2
<1>14. r[1] = Pre(c[2]) /\ r[2] = Wait /\ r[3] = act /\ r[4] = Wait
  BY <1>4, <1>11
<1>15. QED BY <1>11, <1>12, <1>13, <1>14 DEF r

\* Which instruction is at which place.
LEMMA RowPlaces ==
  ASSUME NEW k \in 1 .. 2 * NUM_BURSTS + 8
  PROVE  \/ k \in {1, 2, 3, 4}
         \/ \E j \in 1 .. NUM_BURSTS : k = 2 * j + 3 \/ k = 2 * j + 4
         \/ k \in {2 * NUM_BURSTS + 5, 2 * NUM_BURSTS + 6, 2 * NUM_BURSTS + 7,
                   2 * NUM_BURSTS + 8}
<1> SUFFICES ASSUME 4 < k, k <= 2 * NUM_BURSTS + 4
             PROVE  \E j \in 1 .. NUM_BURSTS : k = 2 * j + 3 \/ k = 2 * j + 4
  BY TestAssumption
<1> DEFINE n == NUM_BURSTS
           j == (k - 3) \div 2
<1>1. n \in Nat /\ k \in Nat
  BY TestAssumption
<1> HIDE DEF n
<1>2. j \in Int /\ (k - 3 = 2 * j \/ k - 3 = 2 * j + 1)
  BY <1>1
<1> HIDE DEF j
<1>3. 1 <= j /\ j <= n /\ (k = 2 * j + 3 \/ k = 2 * j + 4)
  BY <1>1, <1>2 DEF n
<1>4. j \in 1 .. NUM_BURSTS
  BY <1>1, <1>2, <1>3 DEF n
<1>5. QED BY <1>3, <1>4

OneEndIn(s) == \A k \in 1 .. Len(s) : s[k] # Garbage /\ (s[k] = End <=> k = Len(s))

LEMMA RowEnds ==
  ASSUME NEW op \in {"RD", "WR"}, NEW c \in Row
  PROVE  /\ OneEndIn(RowSequence(op, c))
         /\ \A k \in 2 * NUM_BURSTS + 4 .. 2 * NUM_BURSTS + 8 :
              RowSequence(op, c)[k].op \in {"WAIT", "PRE", "END"}
<1> DEFINE r == RowSequence(op, c)
           n == NUM_BURSTS
           mine == {"WAIT", "PRE", "ACT", op}
<1>1. n \in Nat \ {0}
  BY TestAssumption
<1>2. /\ Len(r) = 2 * n + 8 /\ r[1].op = "PRE" /\ r[2].op = "WAIT" /\ r[3].op = "ACT"
      /\ r[4].op = "WAIT"
      /\ \A k \in 1 .. n : r[2 * k + 3].op = op /\ r[2 * k + 4].op = "WAIT"
      /\ r[2 * n + 5].op = "WAIT" /\ r[2 * n + 6].op = "PRE"
      /\ r[2 * n + 7].op = "WAIT" /\ r[2 * n + 8] = End
  <2>1. /\ Len(r) = 2 * n + 8 /\ r[1] = Pre(c[2]) /\ r[2] = Wait
        /\ r[3] = NewInstruction("ACT", c[2], c[1]) /\ r[4] = Wait
        /\ \A k \in 1 .. n : /\ r[2 * k + 3] = NewInstruction(op, c[2], k)
                            /\ r[2 * k + 4] = Wait
        /\ r[2 * n + 5] = Wait /\ r[2 * n + 6] = Pre(c[2])
        /\ r[2 * n + 7] = Wait /\ r[2 * n + 8] = End
    BY RowWords
  <2> HIDE DEF r, n
  <2>2. QED BY <2>1, Words
<1> HIDE DEF r
<1>3. ASSUME NEW k \in 1 .. 2 * n + 7 PROVE r[k].op \in mine
  <2>1. k \in 1 .. 2 * n + 8 /\ k # 2 * n + 8
    BY <1>1
  <2> HIDE DEF mine
  <2>2. "WAIT" \in mine /\ "PRE" \in mine /\ "ACT" \in mine /\ op \in mine
    BY DEF mine
  <2>3. CASE k \in {1, 2, 3, 4}
    BY <1>2, <2>2, <2>3
  <2>4. CASE \E j \in 1 .. n : k = 2 * j + 3 \/ k = 2 * j + 4
    BY <1>2, <2>2, <2>4
  <2>5. CASE k \in {2 * n + 5, 2 * n + 6, 2 * n + 7, 2 * n + 8}
    BY <1>2, <2>1, <2>2, <2>5
  <2>6. QED BY <2>1, <2>3, <2>4, <2>5, RowPlaces DEF n
<1>4. "END" \notin mine /\ "garbage" \notin mine
  OBVIOUS
<1>5. OneEndIn(r)
  <2> SUFFICES ASSUME NEW k \in 1 .. 2 * n + 8
               PROVE  r[k] # Garbage /\ (r[k] = End <=> k = 2 * n + 8)
    BY <1>2 DEF OneEndIn
  <2>1. CASE k = 2 * n + 8
    <3>1. End # Garbage
      BY Words
    <3>2. QED BY <1>2, <2>1, <3>1
  <2>2. CASE k # 2 * n + 8
    <3>1. k \in 1 .. 2 * n + 7
      BY <1>1, <2>2
    <3>2. r[k].op # "END" /\ r[k].op # "garbage"
      BY <1>3, <1>4, <3>1
    <3>3. QED BY <2>2, <3>2, Words
  <2>3. QED BY <2>1, <2>2
<1>6. ASSUME NEW k \in 2 * n + 4 .. 2 * n + 8 PROVE r[k].op \in {"WAIT", "PRE", "END"}
  <2>1. n \in 1 .. n
    BY <1>1
  <2>2. r[2 * n + 4].op = "WAIT"
    BY <1>2, <2>1
  <2>3. r[2 * n + 8].op = "END"
    BY <1>2, Words
  <2>4. k \in {2 * n + 4, 2 * n + 5, 2 * n + 6, 2 * n + 7, 2 * n + 8}
    BY <1>1
  <2>5. QED BY <1>2, <2>2, <2>3, <2>4
<1>7. QED BY <1>5, <1>6 DEF r

LEMMA BusEnds ==
  ASSUME NEW dir \in Directions
  PROVE  OneEndIn(BusSequence(dir))
<1>1. /\ Len(BusSequence(dir)) = 3 /\ BusSequence(dir)[1].op = "BUSDIR"
      /\ BusSequence(dir)[2].op = "WAIT" /\ BusSequence(dir)[3] = End
  BY BusWords, Words
<1>2. End.op = "END" /\ Garbage.op = "garbage"
  BY Words
<1>3. QED BY <1>1, <1>2 DEF OneEndIn

LEMMA FromType ==
  ASSUME NEW s \in Seq(Word), NEW p \in 0 .. Len(s)
  PROVE  /\ From(s, p) \in Seq(Word) /\ Len(From(s, p)) = Len(s) - p
         /\ \A k \in 1 .. Len(s) - p : From(s, p)[k] = s[p + k]
<1> DEFINE n == Len(s)
           f == From(s, p)
<1>1. n \in Nat /\ \A k \in 1 .. n : s[k] \in Word
  BY LenProperties
<1>2. f = [k \in 1 .. n - p |-> s[p + k]]
  BY DEF From
<1> HIDE DEF n
<1>3. n - p \in Nat /\ \A k \in 1 .. n - p : p + k \in 1 .. n
  BY <1>1 DEF n
<1> HIDE DEF f
<1>4. f \in Seq(Word) /\ Len(f) = n - p /\ \A k \in 1 .. n - p : f[k] = s[p + k]
  BY <1>1, <1>2, <1>3
<1>5. QED BY <1>4 DEF f, n

LEMMA FromProperties ==
  ASSUME NEW s \in Seq(Word), NEW p \in 0 .. Len(s)
  PROVE  /\ From(s, p) \in Seq(Word) /\ Len(From(s, p)) = Len(s) - p
         /\ From(s, p) = << >> <=> p = Len(s)
         /\ p < Len(s) => /\ Head(From(s, p)) = s[p + 1]
                          /\ Tail(From(s, p)) = From(s, p + 1)
         /\ \A k \in 1 .. Len(s) - p : From(s, p)[k] = s[p + k]
         /\ From(s, 0) = s
<1> DEFINE n == Len(s)
           f == From(s, p)
<1>1. n \in Nat /\ p \in 0 .. n
  BY LenProperties
<1>2. f \in Seq(Word) /\ Len(f) = n - p /\ \A k \in 1 .. n - p : f[k] = s[p + k]
  BY FromType
<1>3. f = << >> <=> p = n
  BY <1>1, <1>2, EmptySeq
<1>4. ASSUME p < n PROVE Head(f) = s[p + 1] /\ Tail(f) = From(s, p + 1)
  <2> DEFINE g == From(s, p + 1)
  <2>1. f # << >> /\ 1 \in 1 .. n - p /\ p + 1 \in 0 .. n
    BY <1>1, <1>3, <1>4
  <2>2. Head(f) = s[p + 1]
    BY <1>2, <2>1, HeadTailProperties
  <2>3. g \in Seq(Word) /\ Len(g) = n - (p + 1)
        /\ \A k \in 1 .. n - (p + 1) : g[k] = s[(p + 1) + k]
    BY <2>1, FromType
  <2> HIDE DEF n, f, g
  <2>4. Tail(f) \in Seq(Word) /\ Len(Tail(f)) = Len(f) - 1
        /\ \A k \in 1 .. Len(Tail(f)) : Tail(f)[k] = f[k + 1]
    BY <1>2, <2>1, HeadTailProperties, Zenon
  <2>5. Len(Tail(f)) = n - (p + 1)
    BY <1>1, <1>2, <2>4
  <2>6. ASSUME NEW k \in 1 .. n - (p + 1) PROVE Tail(f)[k] = g[k]
    <3>1. k + 1 \in 1 .. n - p /\ p + (k + 1) = (p + 1) + k
      BY <1>1
    <3>2. Tail(f)[k] = f[k + 1]
      BY <2>4, <2>5
    <3>3. QED BY <1>2, <2>3, <3>1, <3>2
  <2>7. Tail(f) = g
    BY <2>3, <2>4, <2>5, <2>6, SeqEqual
  <2>8. QED BY <2>2, <2>7 DEF f, g
<1>5. From(s, 0) = s
  <2>1. From(s, 0) \in Seq(Word) /\ Len(From(s, 0)) = n - 0
        /\ \A k \in 1 .. n - 0 : From(s, 0)[k] = s[0 + k]
    BY <1>1, FromType
  <2>2. n - 0 = n /\ \A k \in 1 .. n : 0 + k = k
    BY <1>1
  <2>3. QED BY <2>1, <2>2, SeqEqual
<1>6. QED BY <1>2, <1>3, <1>4, <1>5

-----------------------------------------------------------------------------
(* What the program's place says about the cursors.                        *)

LEMMA BelowIsRow ==
  ASSUME NEW c \in Cursor, NEW d \in Cursor, D(c) < D(d)
  PROVE  c \in Row
<1>1. D(c) \in Nat /\ D(d) \in Nat
  BY CursorType
<1>2. CASE c[2] = NUM_BANKS
  <2>1. d \in Row <=> D(d) < D(c)
    BY <1>2, BehindLast
  <2>2. d[2] = NUM_BANKS
    BY <1>1, <2>1, CursorType
  <2>3. c = d
    BY <1>2, <2>2, CursorType
  <2>4. QED BY <1>1, <2>3
<1>3. QED BY <1>2, CursorType

LEMMA GroupSize ==
  ASSUME retention \in Int, retention > 0
  PROVE  group_size \in Nat \ {0}
<1> DEFINE a == retention + GroupMs - 1
           q == a \div GroupMs
<1>1. GroupMs \in Nat /\ GroupMs > 0 /\ a \in Int /\ a >= GroupMs
  BY TestAssumption
<1> HIDE DEF a
<1>2. q \in Int
  BY <1>1
<1>3. a < GroupMs * (q + 1)
  BY <1>1
<1> HIDE DEF q
<1>4. q > 0
  <2>1. SUFFICES ASSUME q <= 0 PROVE FALSE
    BY <1>2
  <2>2. GroupMs * (q + 1) <= GroupMs
    <3>1. GroupMs * (q + 1) = GroupMs * q + GroupMs /\ GroupMs * q \in Int
      BY <1>1, <1>2
    <3>2. GroupMs * q <= 0
      BY <1>1, <1>2, <2>1
    <3>3. QED BY <1>1, <3>1, <3>2
  <2>3. GroupMs * (q + 1) \in Int
    BY <1>1, <1>2
  <2>4. QED BY <1>1, <1>3, <2>2, <2>3
<1>5. QED BY <1>2, <1>4 DEF q, a, group_size

\* A row is written and read only where there is one.
LEMMA CursorsAreRows ==
  ASSUME ProgramTypes, CursorInv
  PROVE  /\ pc = "write" => wr \in Row
         /\ pc \in {"read", "recv", "wait", "turn_read"} => rd \in Row
<1>1. wr \in Cursor /\ rd \in Cursor /\ dimm_done \in BOOLEAN
  BY DEF ProgramTypes
<1>2. pc = "write" => wr[2] # NUM_BANKS
  BY DEF CursorInv
<1>3. pc \in {"read", "recv", "wait", "turn_read"} => D(rd) < D(wr)
  BY DEF CursorInv, Reading
<1>4. QED BY <1>1, <1>2, <1>3, BelowIsRow, CursorType

LEMMA TargetProperties ==
  ASSUME ProgramTypes, CursorInv, pc \in {"turn_write", "write", "turn_read", "read"}
  PROVE  Target \in Seq(Word) /\ OneEndIn(Target)
<1>1. CASE pc = "turn_write"
  <2>1. Target = BusSequence("WRITE") /\ "WRITE" \in Directions
    BY <1>1 DEF Target, Directions
  <2>2. BusSequence("WRITE") \in Seq(Word) /\ OneEndIn(BusSequence("WRITE"))
    BY <2>1, BusWords, BusEnds
  <2>3. QED BY <2>1, <2>2
<1>2. CASE pc = "write"
  <2>1. Target = RowSequence("WR", wr) /\ wr \in Row
    BY <1>2, CursorsAreRows DEF Target
  <2>2. "WR" \in {"RD", "WR"}
    OBVIOUS
  <2>3. RowSequence("WR", wr) \in Seq(Word) /\ OneEndIn(RowSequence("WR", wr))
    BY <2>1, <2>2, RowWords, RowEnds
  <2>4. QED BY <2>1, <2>3
<1>3. CASE pc = "turn_read"
  <2>1. Target = BusSequence("READ") /\ "READ" \in Directions
    BY <1>3 DEF Target, Directions
  <2>2. BusSequence("READ") \in Seq(Word) /\ OneEndIn(BusSequence("READ"))
    BY <2>1, BusWords, BusEnds
  <2>3. QED BY <2>1, <2>2
<1>4. CASE pc = "read"
  <2>1. Target = RowSequence("RD", rd) /\ rd \in Row
    BY <1>4, CursorsAreRows DEF Target
  <2>2. "RD" \in {"RD", "WR"}
    OBVIOUS
  <2>3. RowSequence("RD", rd) \in Seq(Word) /\ OneEndIn(RowSequence("RD", rd))
    BY <2>1, <2>2, RowWords, RowEnds
  <2>4. QED BY <2>1, <2>3
<1>5. QED BY <1>1, <1>2, <1>3, <1>4

-----------------------------------------------------------------------------
(* InstructionSequence.                                                    *)
LEMMA AllocateProperties ==
  ASSUME NEW s \in Seq(Word), NEW n \in Nat
  PROVE  /\ Allocate(s, n) \in Seq(Word) /\ Len(Allocate(s, n)) = Len(s) + n
         /\ \A k \in 1 .. Len(s) : Allocate(s, n)[k] = s[k]
<1> DEFINE g == [k \in 1 .. n |-> Garbage]
<1>1. g \in Seq(Word) /\ Len(g) = n
  BY Words
<1>2. Allocate(s, n) = s \o g
  BY DEF Allocate
<1> HIDE DEF g
<1>3. /\ s \o g \in Seq(Word) /\ Len(s \o g) = Len(s) + Len(g)
      /\ \A k \in 1 .. Len(s) + Len(g) :
           (s \o g)[k] = IF k <= Len(s) THEN s[k] ELSE g[k - Len(s)]
  BY <1>1, ConcatProperties, Zenon
<1>4. Len(s) \in Nat
  BY LenProperties
<1>5. QED BY <1>1, <1>2, <1>3, <1>4

LEMMA NewSequenceProperties ==
  /\ Sequence(NewSequence(init_cap)) /\ NewSequence(init_cap).size = 0
  /\ NewSequence(init_cap) # Null
<1> DEFINE a == Allocate(<< >>, init_cap)
<1>1. init_cap \in Nat /\ init_cap > 0 /\ << >> \in Seq(Word) /\ Len(<< >>) = 0
  BY TestAssumption
<1>2. a \in Seq(Word) /\ Len(a) = init_cap
  <2>1. a \in Seq(Word) /\ Len(a) = Len(<< >>) + init_cap
    BY <1>1, AllocateProperties, Zenon
  <2> HIDE DEF a
  <2>2. QED BY <1>1, <2>1
<1>3. NewSequence(init_cap) = [capacity |-> init_cap, size |-> 0, instrs |-> a]
  BY DEF NewSequence
<1> HIDE DEF a
<1>4. QED BY <1>1, <1>2, <1>3 DEF Sequence, Null

LEMMA ReusedProperties ==
  ASSUME NEW q, Sequence(q)
  PROVE  Sequence(Reused(q)) /\ Reused(q).size = 0 /\ Reused(q) # Null
<1>1. CASE q = Null
  BY <1>1, NewSequenceProperties DEF Reused
<1>2. CASE q # Null
  <2>1. q = [capacity |-> q.capacity, size |-> q.size, instrs |-> q.instrs]
        /\ q.capacity \in Nat /\ q.capacity > 0
    BY <1>2 DEF Sequence
  <2>2. Reused(q) = [q EXCEPT !.size = 0]
    BY <1>2 DEF Reused
  <2>3. Reused(q) = [capacity |-> q.capacity, size |-> 0, instrs |-> q.instrs]
    BY <2>1, <2>2
  <2>4. QED BY <2>1, <2>3 DEF Sequence, Null
<1>3. QED BY <1>1, <1>2

\* insert appends the instruction and keeps those before it, whether the array is
\* copied or not.
LEMMA InsertProperties ==
  ASSUME NEW q, Sequence(q), q # Null, NEW c \in Word
  PROVE  /\ Sequence(insert(q, c)) /\ insert(q, c) # Null
         /\ insert(q, c).size = q.size + 1
         /\ insert(q, c).instrs[q.size + 1] = c
         /\ \A k \in 1 .. q.size : insert(q, c).instrs[k] = q.instrs[k]
<1> DEFINE full == [q EXCEPT !.capacity = 2 * @, !.instrs = Allocate(@, q.capacity)]
           room == IF q.size < q.capacity THEN q ELSE full
<1>1. /\ q = [capacity |-> q.capacity, size |-> q.size, instrs |-> q.instrs]
      /\ q.capacity \in Nat /\ q.capacity > 0 /\ q.size \in 0 .. q.capacity
      /\ q.instrs \in Seq(Word) /\ Len(q.instrs) = q.capacity
  BY DEF Sequence
<1>2. PICK cap \in Nat, a \in Seq(Word) :
        /\ room = [capacity |-> cap, size |-> q.size, instrs |-> a]
        /\ Len(a) = cap /\ q.size < cap
        /\ \A k \in 1 .. q.size : a[k] = q.instrs[k]
  <2>1. CASE q.size < q.capacity
    BY <1>1, <2>1
  <2>2. CASE ~(q.size < q.capacity)
    <3>1. q.size = q.capacity
      BY <1>1, <2>2
    <3>2. full = [capacity |-> 2 * q.capacity, size |-> q.size,
                  instrs |-> Allocate(q.instrs, q.capacity)]
      <4> DEFINE t == 2 * q.capacity
                 l == Allocate(q.instrs, q.capacity)
                 m == [q EXCEPT !.capacity = t]
      <4>1. full = [m EXCEPT !.instrs = l]
        OBVIOUS
      <4> HIDE DEF t, l
      <4>2. m = [capacity |-> t, size |-> q.size, instrs |-> q.instrs]
        BY <1>1
      <4> HIDE DEF m
      <4>3. [m EXCEPT !.instrs = l] = [capacity |-> t, size |-> q.size, instrs |-> l]
        BY <4>2
      <4>4. QED BY <4>1, <4>3 DEF t, l
    <3>3. /\ Allocate(q.instrs, q.capacity) \in Seq(Word)
          /\ Len(Allocate(q.instrs, q.capacity)) = q.capacity + q.capacity
          /\ \A k \in 1 .. q.capacity : Allocate(q.instrs, q.capacity)[k] = q.instrs[k]
      BY <1>1, AllocateProperties
    <3>4. q.capacity + q.capacity = 2 * q.capacity /\ 2 * q.capacity \in Nat
          /\ q.size < 2 * q.capacity
      BY <1>1, <3>1
    <3>5. QED BY <2>2, <3>1, <3>2, <3>3, <3>4
  <2>3. QED BY <2>1, <2>2
<1>3. insert(q, c) = [room EXCEPT !.size = @ + 1, !.instrs[q.size + 1] = c]
  BY DEF insert
<1> HIDE DEF room
<1> DEFINE b == [a EXCEPT ![q.size + 1] = c]
<1>4. insert(q, c) = [capacity |-> cap, size |-> q.size + 1, instrs |-> b]
  BY <1>2, <1>3
<1>5. q.size + 1 \in 1 .. Len(a) /\ q.size \in Nat
  BY <1>1, <1>2
<1>6. b \in Seq(Word) /\ Len(b) = Len(a)
      /\ \A k \in 1 .. Len(a) : b[k] = IF k = q.size + 1 THEN c ELSE a[k]
  BY <1>5, ExceptSeq
<1> HIDE DEF b
<1>7. \A k \in 1 .. q.size : b[k] = q.instrs[k]
  BY <1>2, <1>5, <1>6
<1>8. QED BY <1>2, <1>4, <1>5, <1>6, <1>7 DEF Sequence, Null

-----------------------------------------------------------------------------
(* The FPGA.                                                               *)
Banks == 0 .. NUM_BANKS - 1
Fpga(f) == [held |-> f.held, iseq |-> f.iseq, bus |-> f.bus, open |-> f.open, out |-> f.out,
            dram |-> f.dram]
\* f is fpga but for the parts named.
OnlyOpen(f) == f = [held |-> fpga.held, iseq |-> fpga.iseq, bus |-> fpga.bus, open |-> f.open,
                    out |-> fpga.out, dram |-> fpga.dram]
OnlyBus(f) == f = [held |-> fpga.held, iseq |-> fpga.iseq, bus |-> f.bus, open |-> fpga.open,
                   out |-> fpga.out, dram |-> fpga.dram]
OnlyOut(f) == f = [held |-> fpga.held, iseq |-> fpga.iseq, bus |-> fpga.bus,
                   open |-> fpga.open, out |-> f.out, dram |-> fpga.dram]
OnlyDram(f) == f = [held |-> fpga.held, iseq |-> fpga.iseq, bus |-> fpga.bus,
                    open |-> fpga.open, out |-> fpga.out, dram |-> f.dram]

LEMMA BurstType ==
  ASSUME NEW c \in Row, NEW k \in 1 .. NUM_BURSTS
  PROVE  /\ Burst(c[2], c[1], k) \in Bursts
         /\ \A d \in Row, j \in 1 .. NUM_BURSTS :
              Burst(c[2], c[1], k) = Burst(d[2], d[1], j) => c = d /\ k = j
<1>1. c[1] \in 0 .. NUM_ROWS - 1 /\ c[2] \in 0 .. NUM_BANKS - 1 /\ c = <<c[1], c[2]>>
  BY RowType
<1>2. Burst(c[2], c[1], k) \in Bursts
  BY <1>1 DEF Burst, Bursts
<1>3. ASSUME NEW d \in Row, NEW j \in 1 .. NUM_BURSTS,
             Burst(c[2], c[1], k) = Burst(d[2], d[1], j)
      PROVE  c = d /\ k = j
  <2>1. d = <<d[1], d[2]>>
    BY RowType
  <2>2. c[2] = d[2] /\ c[1] = d[1] /\ k = j
    BY <1>3 DEF Burst
  <2>3. QED BY <1>1, <2>1, <2>2
<1>4. QED BY <1>2, <1>3

LEMMA ExecutedWait ==
  ASSUME FpgaTypes, NEW c \in Word, c.op \in {"WAIT", "END"}
  PROVE  Executed(fpga, c) = fpga
  BY DEF Executed

LEMMA ExecutedPre ==
  ASSUME FpgaTypes, NEW c \in Word, c.op = "PRE"
  PROVE  /\ OnlyOpen(Executed(fpga, c))
         /\ Executed(fpga, c).open \in [Banks -> Int]
<1> DEFINE f == Executed(fpga, c)
<1>1. fpga = Fpga(fpga) /\ fpga.open \in [Banks -> Int] /\ DOMAIN fpga.open = Banks
  BY DEF FpgaTypes, Fpga, Banks
<1>2. CASE c.bank \in DOMAIN fpga.open
  <2>1. f = [fpga EXCEPT !.open[c.bank] = Never]
    BY <1>2 DEF Executed
  <2> DEFINE o == [fpga.open EXCEPT ![c.bank] = Never]
  <2>2. f = [fpga EXCEPT !.open = o]
    BY <2>1
  <2>3. o \in [Banks -> Int]
    <3>1. Never \in Int
      BY DEF Never
    <3>2. QED BY <1>1, <3>1
  <2> HIDE DEF o, f
  <2>4. OnlyOpen(f) /\ f.open = o
    BY <1>1, <2>2 DEF OnlyOpen, Fpga
  <2>5. QED BY <2>3, <2>4 DEF f
<1>3. CASE c.bank \notin DOMAIN fpga.open
  <2>1. f = fpga
    BY <1>3 DEF Executed
  <2> HIDE DEF f
  <2>2. OnlyOpen(f)
    BY <1>1, <2>1 DEF OnlyOpen, Fpga
  <2>3. QED BY <1>1, <2>1, <2>2 DEF f
<1>4. QED BY <1>2, <1>3

LEMMA ExecutedAct ==
  ASSUME FpgaTypes, NEW c \in Word, c.op = "ACT", c.bank \in Banks, c.arg \in Int
  PROVE  /\ OnlyOpen(Executed(fpga, c))
         /\ Executed(fpga, c).open \in [Banks -> Int]
         /\ Executed(fpga, c).open[c.bank] = c.arg
<1> DEFINE f == Executed(fpga, c)
           o == [fpga.open EXCEPT ![c.bank] = c.arg]
<1>1. fpga = Fpga(fpga) /\ fpga.open \in [Banks -> Int] /\ DOMAIN fpga.open = Banks
  BY DEF FpgaTypes, Fpga, Banks
<1>2. f = [fpga EXCEPT !.open[c.bank] = c.arg]
  BY <1>1 DEF Executed
<1>3. f = [fpga EXCEPT !.open = o]
  BY <1>2
<1>4. o \in [Banks -> Int] /\ o[c.bank] = c.arg
  BY <1>1
<1> HIDE DEF o, f
<1>5. OnlyOpen(f) /\ f.open = o
  BY <1>1, <1>3 DEF OnlyOpen, Fpga
<1>6. QED BY <1>4, <1>5 DEF f

LEMMA ExecutedBusdir ==
  ASSUME FpgaTypes, NEW c \in Word, c.op = "BUSDIR", c.arg \in Directions
  PROVE  OnlyBus(Executed(fpga, c)) /\ Executed(fpga, c).bus = c.arg
<1> DEFINE f == Executed(fpga, c)
<1>1. fpga = Fpga(fpga)
  BY DEF FpgaTypes, Fpga
<1>2. f = [fpga EXCEPT !.bus = c.arg]
  BY DEF Executed
<1> HIDE DEF f
<1>3. OnlyBus(f) /\ f.bus = c.arg
  BY <1>1, <1>2 DEF OnlyBus, Fpga
<1>4. QED BY <1>3 DEF f

LEMMA ExecutedWr ==
  ASSUME FpgaTypes, clock \in Nat, NEW c \in Word, c.op = "WR", fpga.bus = "WRITE",
         c.bank \in Banks, Burst(c.bank, fpga.open[c.bank], c.arg) \in Bursts
  PROVE  /\ OnlyDram(Executed(fpga, c))
         /\ Executed(fpga, c).dram \in [Bursts -> Int]
         /\ Executed(fpga, c).dram
              = [fpga.dram EXCEPT ![Burst(c.bank, fpga.open[c.bank], c.arg)] = clock]
<1> DEFINE f == Executed(fpga, c)
           b == Burst(c.bank, fpga.open[c.bank], c.arg)
           d == [fpga.dram EXCEPT ![b] = clock]
<1>1. fpga = Fpga(fpga) /\ fpga.dram \in [Bursts -> Int] /\ DOMAIN fpga.open = Banks
  BY DEF FpgaTypes, Fpga, Banks
<1>2. f = [fpga EXCEPT !.dram[b] = clock]
  BY <1>1 DEF Executed
<1>3. f = [fpga EXCEPT !.dram = d]
  BY <1>2
<1>4. d \in [Bursts -> Int]
  BY <1>1
<1> HIDE DEF d, f
<1>5. OnlyDram(f) /\ f.dram = d
  BY <1>1, <1>3 DEF OnlyDram, Fpga
<1>6. QED BY <1>4, <1>5 DEF f, d

LEMMA ExecutedRd ==
  ASSUME FpgaTypes, NEW c \in Word, c.op = "RD", fpga.bus = "READ",
         c.bank \in Banks, Burst(c.bank, fpga.open[c.bank], c.arg) \in Bursts
  PROVE  /\ OnlyOut(Executed(fpga, c))
         /\ Executed(fpga, c).out
              = Append(fpga.out,
                       [burst |-> Burst(c.bank, fpga.open[c.bank], c.arg),
                        written |-> fpga.dram[Burst(c.bank, fpga.open[c.bank], c.arg)]])
<1> DEFINE f == Executed(fpga, c)
           b == Burst(c.bank, fpga.open[c.bank], c.arg)
           o == Append(fpga.out, [burst |-> b, written |-> fpga.dram[b]])
<1>1. fpga = Fpga(fpga) /\ DOMAIN fpga.open = Banks
  BY DEF FpgaTypes, Fpga, Banks
<1>2. f = [fpga EXCEPT !.out = o]
  BY <1>1 DEF Executed
<1> HIDE DEF o, f
<1>3. OnlyOut(f) /\ f.out = o
  BY <1>1, <1>2 DEF OnlyOut, Fpga
<1>4. QED BY <1>3 DEF f, o

-----------------------------------------------------------------------------
(* The steps of InstructionSequence.                                       *)

\* A step of the rest leaves a sequence that nobody builds alone.
LEMMA SequenceIdle ==
  ASSUME SequenceInv, building = "no", UNCHANGED sequence
  PROVE  SequenceInv'
  BY DEF SequenceInv, sequence

LEMMA SequenceKept ==
  ASSUME SequenceInv, UNCHANGED <<pc, wr, rd, sequence>>
  PROVE  SequenceInv'
  BY DEF SequenceInv, sequence, Target

LEMMA CallingKeeps ==
  ASSUME ProgramTypes, CursorInv, SequenceInv, Calling
  PROVE  SequenceInv'
<1>1. /\ pc \in {"turn_write", "write", "turn_read", "read"}
      /\ iseq' = Reused(iseq) /\ todo' = Target /\ building' \in {"turnBus", "testRetention"}
      /\ UNCHANGED <<pc, wr, rd>>
  <2>1. CASE BuildTurn("turn_write", "WRITE")
    BY <2>1 DEF BuildTurn, Build, Target, cursors
  <2>2. CASE Build("write", "testRetention", RowSequence("WR", wr))
    BY <2>2 DEF Build, Target, cursors
  <2>3. CASE BuildTurn("turn_read", "READ")
    BY <2>3 DEF BuildTurn, Build, Target, cursors
  <2>4. CASE Build("read", "testRetention", RowSequence("RD", rd))
    BY <2>4 DEF Build, Target, cursors
  <2>5. QED BY <2>1, <2>2, <2>3, <2>4 DEF Calling
<1>2. Sequence(iseq') /\ iseq'.size = 0 /\ iseq' # Null
  BY <1>1, ReusedProperties DEF SequenceInv
<1>3. Target \in Seq(Word) /\ From(Target, 0) = Target /\ Len(Target) \in Nat
  <2>1. Target \in Seq(Word)
    BY <1>1, TargetProperties
  <2>2. Len(Target) \in Nat
    BY <2>1, LenProperties
  <2>3. 0 \in 0 .. Len(Target)
    BY <2>2
  <2>4. QED BY <2>1, <2>2, <2>3, FromProperties
<1>4. Target' = Target
  BY <1>1 DEF Target
<1>5. building' # "no" /\ building' \in {"no", "turnBus", "testRetention"}
  BY <1>1
<1>6. /\ iseq'.size <= Len(Target') /\ todo' = From(Target', iseq'.size)
      /\ \A k \in 1 .. iseq'.size : iseq'.instrs[k] = Target'[k]
  <2>1. iseq'.size = 0 /\ 0 <= Len(Target)
    BY <1>2, <1>3
  <2>2. todo' = From(Target, 0)
    BY <1>1, <1>3
  <2>3. \A k \in 1 .. 0 : iseq'.instrs[k] = Target[k]
    OBVIOUS
  <2>4. QED BY <1>4, <2>1, <2>2, <2>3
<1>7. Sequence(iseq)'
  BY <1>2 DEF Sequence, Null
<1>8. QED BY <1>1, <1>2, <1>5, <1>6, <1>7 DEF SequenceInv

LEMMA InsertKeeps ==
  ASSUME ProgramTypes, CursorInv, SequenceInv, Insert
  PROVE  SequenceInv'
<1> DEFINE n == iseq.size
<1>1. /\ todo # << >> /\ iseq' = insert(iseq, Head(todo)) /\ todo' = Tail(todo)
      /\ UNCHANGED <<pc, wr, rd, building>>
  BY DEF Insert, cursors
<1>2. building # "no"
  BY <1>1 DEF SequenceInv
<1>3. /\ pc \in {"turn_write", "write", "turn_read", "read"}
      /\ iseq # Null /\ Sequence(iseq) /\ n <= Len(Target) /\ todo = From(Target, n)
      /\ \A k \in 1 .. n : iseq.instrs[k] = Target[k]
  BY <1>2 DEF SequenceInv
<1>4. Target \in Seq(Word) /\ Target' = Target
  BY <1>1, <1>3, TargetProperties DEF Target
<1>5. Len(Target) \in Nat /\ n \in Nat /\ n <= Len(Target)
  <2>1. Len(Target) \in Nat
    BY <1>4, LenProperties
  <2>2. Sequence(iseq) /\ n <= Len(Target)
    BY <1>3
  <2>3. n \in Nat
    BY <2>2 DEF Sequence
  <2>4. QED BY <2>1, <2>2, <2>3
<1> HIDE DEF n
<1>6. /\ n < Len(Target) /\ Head(todo) = Target[n + 1] /\ Tail(todo) = From(Target, n + 1)
  <2>1. n \in 0 .. Len(Target)
    BY <1>5
  <2>2. n # Len(Target)
    BY <1>1, <1>3, <1>4, <2>1, FromProperties
  <2>3. n < Len(Target)
    BY <2>1, <2>2, <1>5
  <2>4. QED BY <1>3, <1>4, <2>1, <2>3, FromProperties
<1>7. Target[n + 1] \in Word
  <2>1. n + 1 \in 1 .. Len(Target)
    BY <1>5, <1>6
  <2>2. QED BY <1>4, <2>1, ElementOfSeq
<1>8. /\ Sequence(iseq') /\ iseq' # Null /\ iseq'.size = n + 1
      /\ iseq'.instrs[n + 1] = Target[n + 1]
      /\ \A k \in 1 .. n : iseq'.instrs[k] = iseq.instrs[k]
  <2> DEFINE c == Target[n + 1]
  <2>1. c \in Word /\ iseq' = insert(iseq, c) /\ Sequence(iseq) /\ iseq # Null
    BY <1>1, <1>3, <1>6, <1>7
  <2> HIDE DEF c
  <2>2. /\ Sequence(insert(iseq, c)) /\ insert(iseq, c) # Null
        /\ insert(iseq, c).size = n + 1
        /\ insert(iseq, c).instrs[n + 1] = c
        /\ \A k \in 1 .. n : insert(iseq, c).instrs[k] = iseq.instrs[k]
    BY <2>1, InsertProperties, Zenon DEF n
  <2>3. QED BY <2>1, <2>2 DEF c
<1>9. ASSUME NEW k \in 1 .. n + 1 PROVE iseq'.instrs[k] = Target[k]
  <2>1. CASE k = n + 1
    BY <1>8, <2>1
  <2>2. CASE k # n + 1
    <3>1. k \in 1 .. n
      BY <1>5, <2>2
    <3>2. iseq'.instrs[k] = iseq.instrs[k]
      BY <1>8, <3>1
    <3>3. iseq.instrs[k] = Target[k]
      BY <1>3, <3>1
    <3>4. QED BY <3>2, <3>3
  <2>3. QED BY <2>1, <2>2
<1>10. Sequence(iseq)'
  BY <1>8 DEF Sequence, Null
<1>11. /\ iseq'.size <= Len(Target') /\ todo' = From(Target', iseq'.size)
       /\ \A k \in 1 .. iseq'.size : iseq'.instrs[k] = Target'[k]
  BY <1>1, <1>4, <1>5, <1>6, <1>8, <1>9
<1>12. building' # "no" /\ building' \in {"no", "turnBus", "testRetention"}
  BY <1>1, <1>2 DEF SequenceInv
<1>13. QED BY <1>1, <1>3, <1>8, <1>10, <1>11, <1>12 DEF SequenceInv

\* What is executed is the whole target and nothing else.
LEMMA Executing ==
  ASSUME ProgramTypes, CursorInv, SequenceInv, FpgaTypes, NEW from, execute(from)
  PROVE  /\ pc = from /\ fpga.iseq = << >>
         /\ fpga' = [fpga EXCEPT !.iseq = Target]
         /\ Target \in Seq(Word) /\ OneEndIn(Target)
         /\ fpga'.iseq = Target /\ fpga'.bus = fpga.bus /\ fpga'.open = fpga.open
         /\ fpga'.out = fpga.out /\ fpga'.dram = fpga.dram
         /\ SequenceInv' /\ FpgaTypes' /\ OneEnd'
<1> DEFINE n == iseq.size
           s == SubSeq(iseq.instrs, 1, iseq.size)
<1>1. /\ pc = from /\ building # "no" /\ todo = << >> /\ fpga.iseq = << >>
      /\ fpga' = [fpga EXCEPT !.iseq = s]
      /\ iseq' \in {Null, iseq} /\ building' = "no" /\ todo' = << >>
  BY DEF execute
<1>2. /\ pc \in {"turn_write", "write", "turn_read", "read"}
      /\ Sequence(iseq) /\ n <= Len(Target) /\ << >> = From(Target, n)
      /\ \A k \in 1 .. n : iseq.instrs[k] = Target[k]
  BY <1>1 DEF SequenceInv
<1>3. Target \in Seq(Word) /\ OneEndIn(Target)
  BY <1>2, TargetProperties
<1>4. Len(Target) \in Nat /\ n \in Nat /\ n <= Len(iseq.instrs) /\ iseq.instrs \in Seq(Word)
  <2>1. Len(Target) \in Nat
    BY <1>3, LenProperties
  <2>2. Sequence(iseq)
    BY <1>2
  <2>3. n \in Nat /\ n <= Len(iseq.instrs) /\ iseq.instrs \in Seq(Word)
    BY <2>2 DEF Sequence
  <2>4. QED BY <2>1, <2>3
<1> HIDE DEF n
<1>5. n = Len(Target)
  <2>0. n <= Len(Target)
    BY <1>2
  <2>1. n \in 0 .. Len(Target)
    BY <1>4, <2>0
  <2>2. QED BY <1>2, <1>3, <2>1, FromProperties
<1>6. s = Target
  <2>1. \A k \in 1 .. n : iseq.instrs[k] \in Word
    BY <1>2, <1>3, <1>5, ElementOfSeq
  <2>2. /\ s \in Seq(Word) /\ Len(s) = IF 1 <= n THEN n - 1 + 1 ELSE 0
        /\ \A k \in 1 .. n - 1 + 1 : s[k] = iseq.instrs[1 + k - 1]
    BY <1>4, <2>1, SubSeqProperties DEF n
  <2> HIDE DEF s
  <2>3. Len(s) = n /\ \A k \in 1 .. n : s[k] = iseq.instrs[k]
    BY <1>4, <2>2
  <2>4. QED BY <1>2, <1>3, <1>5, <2>2, <2>3, SeqEqual
<1> HIDE DEF s
<1>7. fpga' = [held |-> fpga.held, iseq |-> Target, bus |-> fpga.bus, open |-> fpga.open,
               out |-> fpga.out, dram |-> fpga.dram]
  <2>1. fpga = Fpga(fpga) /\ fpga' = [fpga EXCEPT !.iseq = Target]
    BY <1>1, <1>6 DEF FpgaTypes, Fpga
  <2>2. QED BY <2>1 DEF Fpga
<1>8. FpgaTypes'
  BY <1>3, <1>7 DEF FpgaTypes
<1>9. OneEnd'
  BY <1>3, <1>7 DEF OneEnd, OneEndIn
<1>10. SequenceInv'
  <2>1. Sequence(Null)
    BY DEF Sequence, Null
  <2>2. Sequence(iseq')
    BY <1>1, <1>2, <2>1
  <2>3. Sequence(iseq)'
    BY <2>2 DEF Sequence, Null
  <2>4. QED BY <1>1, <2>3 DEF SequenceInv
<1>11. QED BY <1>1, <1>3, <1>6, <1>7, <1>8, <1>9, <1>10

-----------------------------------------------------------------------------
(* A step of the FPGA.                                                     *)

LEMMA ExecutedShape ==
  ASSUME FpgaTypes, NEW c \in Word
  PROVE  LET f == Executed(fpga, c)
         IN  f = Fpga(f) /\ f.iseq = fpga.iseq /\ f.held = fpga.held
<1> DEFINE f == Executed(fpga, c)
           burst == Burst(c.bank, IF c.bank \in DOMAIN fpga.open THEN fpga.open[c.bank]
                                  ELSE Never, c.arg)
           word == [burst |-> burst,
                    written |-> IF burst \in Bursts THEN fpga.dram[burst] ELSE Never]
<1>1. fpga = Fpga(fpga)
  BY DEF FpgaTypes, Fpga
<1>2. \/ f = [fpga EXCEPT !.bus = c.arg]
      \/ f = [fpga EXCEPT !.open[c.bank] = c.arg]
      \/ f = [fpga EXCEPT !.open[c.bank] = Never]
      \/ f = [fpga EXCEPT !.dram[burst] = clock]
      \/ f = [fpga EXCEPT !.out = Append(@, word)]
      \/ f = fpga
  BY DEF Executed
<1> HIDE DEF f, burst, word
<1>3. CASE f = [fpga EXCEPT !.bus = c.arg]
  <2>1. f = Fpga(f) /\ f.iseq = fpga.iseq /\ f.held = fpga.held
    BY <1>1, <1>3 DEF Fpga
  <2>2. QED BY <2>1 DEF f
<1>4. CASE f = [fpga EXCEPT !.open[c.bank] = c.arg]
  <2>1. f = Fpga(f) /\ f.iseq = fpga.iseq /\ f.held = fpga.held
    BY <1>1, <1>4 DEF Fpga
  <2>2. QED BY <2>1 DEF f
<1>5. CASE f = [fpga EXCEPT !.open[c.bank] = Never]
  <2>1. f = Fpga(f) /\ f.iseq = fpga.iseq /\ f.held = fpga.held
    BY <1>1, <1>5 DEF Fpga
  <2>2. QED BY <2>1 DEF f
<1>6. CASE f = [fpga EXCEPT !.dram[burst] = clock]
  <2>1. f = Fpga(f) /\ f.iseq = fpga.iseq /\ f.held = fpga.held
    BY <1>1, <1>6 DEF Fpga
  <2>2. QED BY <2>1 DEF f
<1>7. CASE f = [fpga EXCEPT !.out = Append(@, word)]
  <2>1. f = Fpga(f) /\ f.iseq = fpga.iseq /\ f.held = fpga.held
    BY <1>1, <1>7 DEF Fpga
  <2>2. QED BY <2>1 DEF f
<1>8. CASE f = fpga
  <2>1. f = Fpga(f) /\ f.iseq = fpga.iseq /\ f.held = fpga.held
    BY <1>1, <1>8 DEF Fpga
  <2>2. QED BY <2>1 DEF f
<1>9. QED BY <1>2, <1>3, <1>4, <1>5, <1>6, <1>7, <1>8

\* The first word of the sequence is executed and leaves it.
LEMMA FpgaStepFields ==
  ASSUME FpgaTypes, FpgaStep
  PROVE  LET f == Executed(fpga, Head(fpga.iseq))
         IN  /\ fpga.iseq # << >> /\ Head(fpga.iseq) \in Word
             /\ fpga' = [held |-> fpga.held, iseq |-> Tail(fpga.iseq), bus |-> f.bus,
                         open |-> f.open, out |-> f.out, dram |-> f.dram]
             /\ fpga'.iseq = Tail(fpga.iseq) /\ fpga'.bus = f.bus /\ fpga'.open = f.open
             /\ fpga'.out = f.out /\ fpga'.dram = f.dram
             /\ UNCHANGED <<pc, retention, sequence, cursors, time, seen>>
<1> DEFINE f == Executed(fpga, Head(fpga.iseq))
<1>1. fpga.iseq # << >> /\ fpga' = [f EXCEPT !.iseq = Tail(@)]
      /\ UNCHANGED <<pc, retention, sequence, cursors, time, seen>>
  BY DEF FpgaStep
<1>2. Head(fpga.iseq) \in Word
  BY <1>1, HeadTailProperties DEF FpgaTypes
<1>3. f = Fpga(f) /\ f.iseq = fpga.iseq /\ f.held = fpga.held
  BY <1>2, ExecutedShape
<1> HIDE DEF f
<1>4. fpga' = [f EXCEPT !.iseq = Tail(fpga.iseq)]
  BY <1>1, <1>3
<1>5. fpga' = [held |-> fpga.held, iseq |-> Tail(fpga.iseq), bus |-> f.bus,
               open |-> f.open, out |-> f.out, dram |-> f.dram]
  BY <1>3, <1>4 DEF Fpga
<1>6. /\ fpga'.iseq = Tail(fpga.iseq) /\ fpga'.bus = f.bus /\ fpga'.open = f.open
      /\ fpga'.out = f.out /\ fpga'.dram = f.dram
  BY <1>5
<1>7. QED BY <1>1, <1>2, <1>5, <1>6 DEF f

LEMMA FpgaStepTypes ==
  ASSUME FpgaTypes, FpgaStep,
         fpga'.bus \in Directions, fpga'.open \in [Banks -> Int],
         fpga'.out \in Seq([burst : Bursts, written : Int]), fpga'.dram \in [Bursts -> Int]
  PROVE  FpgaTypes'
<1>1. /\ fpga' = [held |-> fpga.held, iseq |-> Tail(fpga.iseq), bus |-> fpga'.bus,
                  open |-> fpga'.open, out |-> fpga'.out, dram |-> fpga'.dram]
      /\ fpga.iseq # << >>
  BY FpgaStepFields
<1>2. Tail(fpga.iseq) \in Seq(Word) /\ fpga.held \in BOOLEAN
  BY <1>1, HeadTailProperties DEF FpgaTypes
<1> DEFINE a == Tail(fpga.iseq)
           b == fpga'.bus
           c == fpga'.open
           d == fpga'.out
           e == fpga'.dram
<1>3. fpga' = [held |-> fpga.held, iseq |-> a, bus |-> b, open |-> c, out |-> d, dram |-> e]
  BY <1>1
<1>4. a \in Seq(Word) /\ b \in Directions /\ c \in [0 .. NUM_BANKS - 1 -> Int]
      /\ d \in Seq([burst : Bursts, written : Int]) /\ e \in [Bursts -> Int]
  BY <1>2 DEF Banks
<1> HIDE DEF a, b, c, d, e
<1>5. QED BY <1>2, <1>3, <1>4 DEF FpgaTypes

LEMMA FpgaStepOneEnd ==
  ASSUME FpgaTypes, FpgaStep, OneEnd
  PROVE  OneEnd'
<1> DEFINE s == fpga.iseq
<1>1. s # << >> /\ fpga'.iseq = Tail(s) /\ s \in Seq(Word)
  BY FpgaStepFields DEF FpgaTypes
<1>2. \A k \in 1 .. Len(s) : s[k] # Garbage /\ (s[k] = End <=> k = Len(s))
  BY DEF OneEnd
<1> HIDE DEF s
<1>3. Len(s) \in Nat /\ Len(Tail(s)) = Len(s) - 1
      /\ \A k \in 1 .. Len(Tail(s)) : Tail(s)[k] = s[k + 1]
  BY <1>1, HeadTailProperties, LenProperties
<1>4. ASSUME NEW k \in 1 .. Len(Tail(s))
      PROVE  Tail(s)[k] # Garbage /\ (Tail(s)[k] = End <=> k = Len(Tail(s)))
  <2>1. k + 1 \in 1 .. Len(s) /\ (k + 1 = Len(s) <=> k = Len(Tail(s))) /\ Tail(s)[k] = s[k + 1]
    BY <1>3
  <2>2. QED BY <1>2, <2>1
<1>5. QED BY <1>1, <1>4 DEF OneEnd

\* A word that only closes a bank or passes time.
LEMMA HarmlessWord ==
  ASSUME FpgaTypes, FpgaStep, Head(fpga.iseq).op \in {"WAIT", "PRE", "END"}
  PROVE  /\ fpga'.bus = fpga.bus /\ fpga'.out = fpga.out /\ fpga'.dram = fpga.dram
         /\ Head(fpga.iseq).op # "PRE" => fpga'.open = fpga.open
         /\ FpgaTypes'
<1> DEFINE c == Head(fpga.iseq)
           f == Executed(fpga, c)
<1>1. c \in Word /\ fpga'.bus = f.bus /\ fpga'.open = f.open /\ fpga'.out = f.out
      /\ fpga'.dram = f.dram
  BY FpgaStepFields
<1>2. /\ f.bus = fpga.bus /\ f.out = fpga.out /\ f.dram = fpga.dram
      /\ f.open \in [Banks -> Int]
      /\ c.op # "PRE" => f.open = fpga.open
  <2>1. CASE c.op = "PRE"
    <3>1. OnlyOpen(f) /\ f.open \in [Banks -> Int]
      BY <1>1, <2>1, ExecutedPre
    <3> HIDE DEF f
    <3>2. QED BY <2>1, <3>1 DEF OnlyOpen
  <2>2. CASE c.op # "PRE"
    <3>1. f = fpga
      BY <1>1, <2>2, ExecutedWait
    <3>2. QED BY <3>1 DEF FpgaTypes, Banks
  <2>3. QED BY <2>1, <2>2
<1>3. FpgaTypes'
  <2> HIDE DEF f
  <2>1. /\ fpga.bus \in Directions /\ fpga.out \in Seq([burst : Bursts, written : Int])
        /\ fpga.dram \in [Bursts -> Int]
    BY DEF FpgaTypes
  <2>2. QED BY <1>1, <1>2, <2>1, FpgaStepTypes
<1>4. QED BY <1>1, <1>2, <1>3

LEMMA PlaceStep ==
  ASSUME FpgaTypes, FpgaStep, NEW s \in Seq(Word), NEW p \in 0 .. Len(s),
         fpga.iseq = From(s, p)
  PROVE  /\ p < Len(s) /\ Head(fpga.iseq) = s[p + 1] /\ fpga'.iseq = From(s, p + 1)
         /\ p + 1 \in 0 .. Len(s)
<1>1. fpga.iseq # << >> /\ fpga'.iseq = Tail(fpga.iseq)
  BY FpgaStepFields
<1>2. p # Len(s)
  BY <1>1, FromProperties
<1>3. Len(s) \in Nat
  BY LenProperties
<1>4. p < Len(s) /\ p + 1 \in 0 .. Len(s)
  BY <1>2, <1>3
<1>5. QED BY <1>1, <1>4, FromProperties

LEMMA HarmlessStep ==
  ASSUME FpgaTypes, FpgaStep, Harmless(fpga.iseq)
  PROVE  /\ Harmless(fpga'.iseq) /\ fpga'.bus = fpga.bus /\ fpga'.out = fpga.out
         /\ fpga'.dram = fpga.dram /\ FpgaTypes'
<1> DEFINE s == fpga.iseq
<1>1. s # << >> /\ s \in Seq(Word) /\ fpga'.iseq = Tail(s)
  BY FpgaStepFields DEF FpgaTypes
<1>2. Len(s) \in Nat /\ 1 \in 1 .. Len(s) /\ Head(s) = s[1]
  BY <1>1, LenProperties, EmptySeq
<1>3. Head(s).op \in {"WAIT", "PRE", "END"}
  BY <1>2 DEF Harmless
<1>4. Harmless(Tail(s))
  <2>1. Len(Tail(s)) = Len(s) - 1 /\ \A k \in 1 .. Len(Tail(s)) : Tail(s)[k] = s[k + 1]
    BY <1>1, HeadTailProperties
  <2> SUFFICES ASSUME NEW k \in 1 .. Len(Tail(s))
               PROVE  Tail(s)[k].op \in {"WAIT", "PRE", "END"}
    BY DEF Harmless
  <2>2. k + 1 \in 1 .. Len(s)
    BY <1>2, <2>1
  <2>3. s[k + 1].op \in {"WAIT", "PRE", "END"}
    BY <2>2 DEF Harmless
  <2>4. QED BY <2>1, <2>3
<1>5. QED BY <1>1, <1>3, <1>4, HarmlessWord

LEMMA BusStep ==
  ASSUME FpgaTypes, FpgaStep, NEW dir \in Directions, NEW p \in 0 .. 3, BusAt(dir, p)
  PROVE  /\ p + 1 \in 0 .. 3 /\ BusAt(dir, p + 1)'
         /\ fpga'.out = fpga.out /\ fpga'.dram = fpga.dram /\ FpgaTypes'
<1> DEFINE s == BusSequence(dir)
           c == Head(fpga.iseq)
           f == Executed(fpga, c)
<1>1. s \in Seq(Word) /\ Len(s) = 3 /\ s[1] = NewInstruction("BUSDIR", 0, dir)
      /\ s[2] = Wait /\ s[3] = End
  BY BusWords
<1>2. fpga.iseq = From(s, p) /\ p \in 0 .. Len(s)
  BY <1>1 DEF BusAt
<1>3. p < Len(s) /\ c = s[p + 1] /\ fpga'.iseq = From(s, p + 1)
  BY <1>1, <1>2, PlaceStep
<1>4. p + 1 \in 0 .. 3
  BY <1>1, <1>3
<1>5. /\ fpga'.bus = dir /\ fpga'.out = fpga.out /\ fpga'.dram = fpga.dram /\ FpgaTypes'
  <2>1. CASE p = 0
    <3>1. c.op = "BUSDIR" /\ c.arg = dir
      BY <1>1, <1>3, <2>1, Words
    <3>2. c \in Word /\ fpga'.bus = f.bus /\ fpga'.open = f.open /\ fpga'.out = f.out
          /\ fpga'.dram = f.dram
      BY FpgaStepFields
    <3>3. OnlyBus(f) /\ f.bus = dir
      BY <3>1, <3>2, ExecutedBusdir
    <3> HIDE DEF f, c
    <3>4. fpga'.bus = dir /\ fpga'.open = fpga.open /\ fpga'.out = fpga.out
          /\ fpga'.dram = fpga.dram
      BY <3>2, <3>3 DEF OnlyBus
    <3>5. /\ fpga.open \in [Banks -> Int] /\ fpga.dram \in [Bursts -> Int]
          /\ fpga.out \in Seq([burst : Bursts, written : Int])
      BY DEF FpgaTypes, Banks
    <3>6. QED BY <3>4, <3>5, FpgaStepTypes
  <2>2. CASE p # 0
    <3>1. c.op = "WAIT" \/ c.op = "END"
      <4>1. p + 1 = 2 \/ p + 1 = 3
        BY <1>1, <1>3, <2>2
      <4>2. QED BY <1>1, <1>3, <4>1, Words
    <3>2. fpga.bus = dir
      BY <2>2 DEF BusAt
    <3>3. QED BY <3>1, <3>2, HarmlessWord
  <2>3. QED BY <2>1, <2>2
<1>6. BusAt(dir, p + 1)'
  BY <1>3, <1>4, <1>5 DEF BusAt
<1>7. QED BY <1>4, <1>5, <1>6

\* The next place is that of the next burst, or of none.
LEMMA UptoNext ==
  ASSUME NEW p \in 0 .. 2 * NUM_BURSTS + 7, NEW n \in 0 .. NUM_BURSTS, Upto(p, n)
  PROVE  \/ /\ n + 1 \in 1 .. NUM_BURSTS /\ p + 1 = 2 * (n + 1) + 3 /\ Upto(p + 1, n + 1)
            /\ 3 <= p /\ p <= 2 * NUM_BURSTS + 5
         \/ /\ \A k \in 1 .. NUM_BURSTS : p + 1 # 2 * k + 3
            /\ Upto(p + 1, n)
<1> DEFINE m == NUM_BURSTS
<1>1. m \in Nat /\ p \in Nat /\ n \in Nat /\ n <= m
  BY TestAssumption
<1>2. \A k \in 1 .. m : 2 * k + 3 <= p <=> k <= n
  BY DEF Upto
<1>3. ASSUME NEW k \in 1 .. m, p + 1 = 2 * k + 3
      PROVE  k = n + 1 /\ 3 <= p /\ p <= 2 * m + 5 /\ Upto(p + 1, n + 1)
  <2> HIDE DEF m
  <2>1. ~(k <= n)
    BY <1>1, <1>2, <1>3
  <2>2. k > 1 => k - 1 <= n
    <3>1. k > 1 => k - 1 \in 1 .. m /\ 2 * (k - 1) + 3 <= p
      BY <1>1, <1>3
    <3>2. QED BY <1>2, <3>1
  <2>3. k = n + 1
    BY <1>1, <2>1, <2>2
  <2>4. \A j \in 1 .. m : 2 * j + 3 <= p + 1 <=> j <= n + 1
    BY <1>1, <1>3, <2>3
  <2>5. n + 1 \in 0 .. m
    BY <1>1, <2>3
  <2>6. 3 <= p /\ p <= 2 * m + 5
    BY <1>1, <1>3
  <2>7. QED BY <2>3, <2>4, <2>5, <2>6 DEF Upto, m
<1>4. ASSUME \A k \in 1 .. m : p + 1 # 2 * k + 3 PROVE Upto(p + 1, n)
  <2> HIDE DEF m
  <2>1. ASSUME NEW j \in 1 .. m PROVE 2 * j + 3 <= p + 1 <=> j <= n
    <3>1. 2 * j + 3 <= p + 1 <=> 2 * j + 3 <= p
      BY <1>1, <1>4
    <3>2. QED BY <1>2, <3>1
  <2>2. QED BY <1>1, <2>1 DEF Upto, m
<1>5. CASE \E k \in 1 .. m : p + 1 = 2 * k + 3
  <2>1. PICK k \in 1 .. m : p + 1 = 2 * k + 3
    BY <1>5
  <2>2. QED BY <1>3, <2>1
<1>6. QED BY <1>4, <1>5

\* A step in a row's sequence is that of its next burst, or reads and writes nothing.
LEMMA RowStep ==
  ASSUME FpgaTypes, FpgaStep, NEW op \in {"RD", "WR"}, NEW c \in Row,
         NEW p \in 0 .. 2 * NUM_BURSTS + 8, NEW n \in 0 .. NUM_BURSTS,
         RowAt(op, c, p), Upto(p, n)
  PROVE  /\ p + 1 \in 0 .. 2 * NUM_BURSTS + 8
         /\ \/ /\ n + 1 \in 1 .. NUM_BURSTS /\ Upto(p + 1, n + 1)
               /\ Head(fpga.iseq) = NewInstruction(op, c[2], n + 1)
               /\ fpga.open[c[2]] = c[1]
               /\ fpga'.open = fpga.open => RowAt(op, c, p + 1)'
            \/ /\ Upto(p + 1, n) /\ RowAt(op, c, p + 1)'
               /\ fpga'.bus = fpga.bus /\ fpga'.out = fpga.out /\ fpga'.dram = fpga.dram
               /\ FpgaTypes'
<1> DEFINE r == RowSequence(op, c)
           m == NUM_BURSTS
           h == Head(fpga.iseq)
<1>1. r \in Seq(Word) /\ Len(r) = 2 * m + 8 /\ fpga.iseq = From(r, p) /\ m \in Nat /\ m > 0
      /\ p \in Nat
  <2>1. r \in Seq(Word) /\ Len(r) = 2 * m + 8
    BY RowWords
  <2>2. fpga.iseq = From(r, p)
    BY DEF RowAt
  <2>3. m \in Nat /\ m > 0 /\ p \in Nat
    BY TestAssumption
  <2>4. QED BY <2>1, <2>2, <2>3
<1>2. /\ p < Len(r) /\ h = r[p + 1] /\ fpga'.iseq = From(r, p + 1) /\ p + 1 \in 0 .. Len(r)
  <2>1. p \in 0 .. Len(r)
    BY <1>1
  <2> HIDE DEF r, h
  <2>2. QED BY <1>1, <2>1, PlaceStep DEF h
<1>3. p + 1 \in 0 .. 2 * m + 8 /\ p \in 0 .. 2 * m + 7
  BY <1>1, <1>2
<1>4. 3 <= p /\ p <= 2 * m + 5 => fpga.open[c[2]] = c[1]
  BY DEF RowAt
<1>5. c[1] \in Int /\ c[2] \in Banks
  BY RowType DEF Banks
<1> HIDE DEF h
<1>6. CASE /\ n + 1 \in 1 .. m /\ p + 1 = 2 * (n + 1) + 3 /\ Upto(p + 1, n + 1)
           /\ 3 <= p /\ p <= 2 * m + 5
  <2>1. h = NewInstruction(op, c[2], n + 1)
    <3>1. r[2 * (n + 1) + 3] = NewInstruction(op, c[2], n + 1)
      BY <1>6, RowWords
    <3> HIDE DEF r
    <3>2. QED BY <1>2, <1>6, <3>1
  <2>2. fpga'.open = fpga.open => RowAt(op, c, p + 1)'
    <3>1. ASSUME fpga'.open = fpga.open PROVE fpga'.open[c[2]] = c[1]
      BY <1>4, <1>6, <3>1
    <3> HIDE DEF m
    <3>2. p + 1 \in 0 .. Len(RowSequence(op, c)) /\ fpga'.iseq = From(RowSequence(op, c), p + 1)
      BY <1>2 DEF r
    <3> HIDE DEF r
    <3>3. QED BY <3>1, <3>2 DEF RowAt
  <2>3. QED BY <1>3, <1>4, <1>6, <2>1, <2>2 DEF h
<1>7. CASE (\A k \in 1 .. m : p + 1 # 2 * k + 3) /\ Upto(p + 1, n)
  <2>1. \/ h.op \in {"WAIT", "PRE", "END"} /\ (h.op = "PRE" => p + 1 < 3 \/ p + 1 > 2 * m + 5)
           /\ p + 1 # 3
        \/ p + 1 = 3 /\ h.op = "ACT" /\ h.bank = c[2] /\ h.arg = c[1]
    <3> HIDE DEF m
    <3>1. p + 1 \in 1 .. 2 * m + 8
      BY <1>1, <1>3
    <3>2. \/ p + 1 \in {1, 2, 3, 4}
          \/ \E j \in 1 .. m : p + 1 = 2 * j + 4
          \/ p + 1 \in {2 * m + 5, 2 * m + 6, 2 * m + 7, 2 * m + 8}
      BY <1>7, <3>1, RowPlaces DEF m
    <3>3. CASE p + 1 = 1
      <4>1. h = Pre(c[2])
        BY <1>2, <3>3, RowWords
      <4>2. h.op = "PRE"
        BY <4>1, Words
      <4>3. QED BY <3>3, <4>2
    <3>4. CASE p + 1 = 3
      <4>1. h = NewInstruction("ACT", c[2], c[1])
        BY <1>2, <3>4, RowWords
      <4>2. QED BY <3>4, <4>1, Words
    <3>5. CASE \/ p + 1 \in {2, 4} \/ \E j \in 1 .. m : p + 1 = 2 * j + 4
               \/ p + 1 \in {2 * m + 5, 2 * m + 7}
      <4>1. h = Wait
        <5>1. CASE p + 1 \in {2, 4}
          BY <1>2, <5>1, RowWords
        <5>2. CASE \E j \in 1 .. m : p + 1 = 2 * j + 4
          <6>1. PICK j \in 1 .. m : p + 1 = 2 * j + 4
            BY <5>2
          <6>2. r[2 * j + 4] = Wait
            BY RowWords DEF m
          <6> HIDE DEF r
          <6>3. QED BY <1>2, <6>1, <6>2
        <5>3. CASE p + 1 \in {2 * m + 5, 2 * m + 7}
          BY <1>2, <5>3, RowWords DEF m
        <5>4. QED BY <3>5, <5>1, <5>2, <5>3
      <4>2. h.op = "WAIT"
        BY <4>1, Words
      <4>3. p + 1 # 3
        BY <1>1, <3>5
      <4>4. QED BY <4>2, <4>3
    <3>6. CASE p + 1 = 2 * m + 6
      <4>1. h = Pre(c[2])
        BY <1>2, <3>6, RowWords DEF m
      <4>2. h.op = "PRE"
        BY <4>1, Words
      <4>3. p + 1 # 3 /\ p + 1 > 2 * m + 5
        BY <1>1, <3>6
      <4>4. QED BY <4>2, <4>3
    <3>7. CASE p + 1 = 2 * m + 8
      <4>1. h = End
        BY <1>2, <3>7, RowWords DEF m
      <4>2. h.op = "END"
        BY <4>1, Words
      <4>3. p + 1 # 3
        BY <1>1, <3>7
      <4>4. QED BY <4>2, <4>3
    <3>8. QED BY <3>2, <3>3, <3>4, <3>5, <3>6, <3>7
  <2> HIDE DEF r, m
  <2>2. ASSUME 3 <= p + 1 /\ p + 1 <= 2 * m + 5 => fpga'.open[c[2]] = c[1]
        PROVE  RowAt(op, c, p + 1)'
    <3>1. p + 1 \in 0 .. Len(RowSequence(op, c)) /\ fpga'.iseq = From(RowSequence(op, c), p + 1)
      BY <1>2 DEF r
    <3>2. QED BY <2>2, <3>1 DEF RowAt, m
  <2>3. CASE /\ h.op \in {"WAIT", "PRE", "END"} /\ p + 1 # 3
             /\ h.op = "PRE" => p + 1 < 3 \/ p + 1 > 2 * m + 5
    <3>1. /\ fpga'.bus = fpga.bus /\ fpga'.out = fpga.out /\ fpga'.dram = fpga.dram
          /\ h.op # "PRE" => fpga'.open = fpga.open
          /\ FpgaTypes'
      BY <2>3, HarmlessWord DEF h
    <3>2. 3 <= p + 1 /\ p + 1 <= 2 * m + 5 => fpga'.open[c[2]] = c[1]
      <4>1. SUFFICES ASSUME 3 <= p + 1, p + 1 <= 2 * m + 5 PROVE fpga'.open[c[2]] = c[1]
        OBVIOUS
      <4>2. 3 <= p /\ p <= 2 * m + 5 /\ ~(p + 1 < 3) /\ ~(p + 1 > 2 * m + 5)
        BY <1>1, <2>3, <4>1
      <4>3. fpga'.open = fpga.open
        BY <2>3, <3>1, <4>2
      <4>4. QED BY <1>4, <4>2, <4>3
    <3>3. RowAt(op, c, p + 1)'
      BY <2>2, <3>2
    <3>4. QED BY <1>3, <1>7, <3>1, <3>3 DEF m
  <2>4. CASE p + 1 = 3 /\ h.op = "ACT" /\ h.bank = c[2] /\ h.arg = c[1]
    <3> DEFINE f == Executed(fpga, h)
    <3>1. h \in Word /\ fpga'.bus = f.bus /\ fpga'.open = f.open /\ fpga'.out = f.out
          /\ fpga'.dram = f.dram
      BY FpgaStepFields DEF h
    <3>2. OnlyOpen(f) /\ f.open \in [Banks -> Int] /\ f.open[c[2]] = c[1]
      <4>1. h.bank \in Banks /\ h.arg \in Int
        BY <1>5, <2>4
      <4>2. OnlyOpen(f) /\ f.open \in [Banks -> Int] /\ f.open[h.bank] = h.arg
        BY <2>4, <3>1, <4>1, ExecutedAct
      <4>3. QED BY <2>4, <4>2
    <3> HIDE DEF f
    <3>3. fpga'.bus = fpga.bus /\ fpga'.out = fpga.out /\ fpga'.dram = fpga.dram
      BY <3>1, <3>2 DEF OnlyOpen
    <3>4. /\ fpga.bus \in Directions /\ fpga.out \in Seq([burst : Bursts, written : Int])
          /\ fpga.dram \in [Bursts -> Int]
      BY DEF FpgaTypes
    <3>5. FpgaTypes'
      BY <3>1, <3>2, <3>3, <3>4, FpgaStepTypes
    <3>6. RowAt(op, c, p + 1)'
      BY <2>2, <3>1, <3>2
    <3>7. QED BY <1>3, <1>7, <3>3, <3>5, <3>6 DEF m
  <2>5. QED BY <2>1, <2>3, <2>4
<1>8. QED
  <2>1. \/ /\ n + 1 \in 1 .. m /\ p + 1 = 2 * (n + 1) + 3 /\ Upto(p + 1, n + 1)
           /\ 3 <= p /\ p <= 2 * m + 5
        \/ (\A k \in 1 .. m : p + 1 # 2 * k + 3) /\ Upto(p + 1, n)
    BY <1>3, UptoNext
  <2>2. QED BY <1>6, <1>7, <2>1

LEMMA WriteStep ==
  ASSUME ProgramTypes, FpgaTypes, FpgaStep, fpga.bus = "WRITE", NEW c \in Row,
         NEW p \in 0 .. 2 * NUM_BURSTS + 8, NEW n \in 0 .. NUM_BURSTS,
         RowAt("WR", c, p), Upto(p, n)
  PROVE  /\ p + 1 \in 0 .. 2 * NUM_BURSTS + 8 /\ RowAt("WR", c, p + 1)'
         /\ fpga'.bus = "WRITE" /\ fpga'.out = fpga.out /\ FpgaTypes'
         /\ \/ Upto(p + 1, n) /\ fpga'.dram = fpga.dram
            \/ /\ n + 1 \in 1 .. NUM_BURSTS /\ Upto(p + 1, n + 1)
               /\ fpga'.dram = [fpga.dram EXCEPT ![Burst(c[2], c[1], n + 1)] = clock]
<1> DEFINE h == Head(fpga.iseq)
           f == Executed(fpga, h)
<1>1. "WR" \in {"RD", "WR"}
  OBVIOUS
<1>2. CASE /\ n + 1 \in 1 .. NUM_BURSTS /\ Upto(p + 1, n + 1)
           /\ h = NewInstruction("WR", c[2], n + 1) /\ fpga.open[c[2]] = c[1]
           /\ fpga'.open = fpga.open => RowAt("WR", c, p + 1)'
           /\ p + 1 \in 0 .. 2 * NUM_BURSTS + 8
  <2> DEFINE b == Burst(c[2], c[1], n + 1)
  <2>1. h \in Word /\ fpga'.bus = f.bus /\ fpga'.open = f.open /\ fpga'.out = f.out
        /\ fpga'.dram = f.dram
    BY FpgaStepFields
  <2>2. h.op = "WR" /\ h.bank = c[2] /\ h.arg = n + 1
    BY <1>2, Words
  <2>3. c[2] \in Banks /\ b \in Bursts /\ b = Burst(h.bank, fpga.open[h.bank], h.arg)
    BY <1>2, <2>2, RowType, BurstType DEF Banks
  <2>4. clock \in Nat
    BY DEF ProgramTypes
  <2> HIDE DEF b, h
  <2>5. OnlyDram(f) /\ f.dram \in [Bursts -> Int] /\ f.dram = [fpga.dram EXCEPT ![b] = clock]
    BY <2>1, <2>2, <2>3, <2>4, ExecutedWr
  <2> HIDE DEF f
  <2>6. fpga'.bus = fpga.bus /\ fpga'.out = fpga.out /\ fpga'.open = fpga.open
        /\ fpga'.dram = [fpga.dram EXCEPT ![b] = clock] /\ fpga'.dram \in [Bursts -> Int]
    BY <2>1, <2>5 DEF OnlyDram
  <2>7. /\ fpga.bus \in Directions /\ fpga.open \in [Banks -> Int]
        /\ fpga.out \in Seq([burst : Bursts, written : Int])
    BY DEF FpgaTypes, Banks
  <2>8. FpgaTypes'
    BY <2>6, <2>7, FpgaStepTypes
  <2>9. RowAt("WR", c, p + 1)'
    BY <1>2, <2>6
  <2>10. QED BY <1>2, <2>6, <2>8, <2>9 DEF b
<1>3. CASE /\ Upto(p + 1, n) /\ RowAt("WR", c, p + 1)'
           /\ fpga'.bus = fpga.bus /\ fpga'.out = fpga.out /\ fpga'.dram = fpga.dram
           /\ FpgaTypes' /\ p + 1 \in 0 .. 2 * NUM_BURSTS + 8
  BY <1>3
<1>4. QED BY <1>1, <1>2, <1>3, RowStep

LEMMA ReadStep ==
  ASSUME FpgaTypes, FpgaStep, fpga.bus = "READ", NEW c \in Row,
         NEW p \in 0 .. 2 * NUM_BURSTS + 8, NEW n \in 0 .. NUM_BURSTS,
         RowAt("RD", c, p), Upto(p, n)
  PROVE  /\ p + 1 \in 0 .. 2 * NUM_BURSTS + 8 /\ RowAt("RD", c, p + 1)'
         /\ fpga'.bus = "READ" /\ fpga'.dram = fpga.dram /\ FpgaTypes'
         /\ \/ Upto(p + 1, n) /\ fpga'.out = fpga.out
            \/ /\ n + 1 \in 1 .. NUM_BURSTS /\ Upto(p + 1, n + 1)
               /\ fpga'.out = Append(fpga.out,
                    [burst |-> Burst(c[2], c[1], n + 1),
                     written |-> fpga.dram[Burst(c[2], c[1], n + 1)]])
<1> DEFINE h == Head(fpga.iseq)
           f == Executed(fpga, h)
<1>1. "RD" \in {"RD", "WR"}
  OBVIOUS
<1>2. CASE /\ n + 1 \in 1 .. NUM_BURSTS /\ Upto(p + 1, n + 1)
           /\ h = NewInstruction("RD", c[2], n + 1) /\ fpga.open[c[2]] = c[1]
           /\ fpga'.open = fpga.open => RowAt("RD", c, p + 1)'
           /\ p + 1 \in 0 .. 2 * NUM_BURSTS + 8
  <2> DEFINE b == Burst(c[2], c[1], n + 1)
             w == [burst |-> b, written |-> fpga.dram[b]]
  <2>1. h \in Word /\ fpga'.bus = f.bus /\ fpga'.open = f.open /\ fpga'.out = f.out
        /\ fpga'.dram = f.dram
    BY FpgaStepFields
  <2>2. h.op = "RD" /\ h.bank = c[2] /\ h.arg = n + 1
    BY <1>2, Words
  <2>3. c[2] \in Banks /\ b \in Bursts /\ b = Burst(h.bank, fpga.open[h.bank], h.arg)
    BY <1>2, <2>2, RowType, BurstType DEF Banks
  <2> HIDE DEF b, h
  <2>4. OnlyOut(f) /\ f.out = Append(fpga.out, w)
    BY <2>1, <2>2, <2>3, ExecutedRd
  <2> HIDE DEF f
  <2>5. /\ fpga.bus \in Directions /\ fpga.open \in [Banks -> Int]
        /\ fpga.out \in Seq([burst : Bursts, written : Int]) /\ fpga.dram \in [Bursts -> Int]
    BY DEF FpgaTypes, Banks
  <2>6. w \in [burst : Bursts, written : Int]
    BY <2>3, <2>5
  <2> HIDE DEF w
  <2>7. fpga'.bus = fpga.bus /\ fpga'.dram = fpga.dram /\ fpga'.open = fpga.open
        /\ fpga'.out = Append(fpga.out, w)
    BY <2>1, <2>4 DEF OnlyOut
  <2>8. Append(fpga.out, w) \in Seq([burst : Bursts, written : Int])
    BY <2>5, <2>6, AppendProperties
  <2>9. FpgaTypes'
    BY <2>5, <2>7, <2>8, FpgaStepTypes
  <2>10. RowAt("RD", c, p + 1)'
    BY <1>2, <2>7
  <2>11. QED BY <1>2, <2>7, <2>9, <2>10 DEF b, w
<1>3. CASE /\ Upto(p + 1, n) /\ RowAt("RD", c, p + 1)'
           /\ fpga'.bus = fpga.bus /\ fpga'.out = fpga.out /\ fpga'.dram = fpga.dram
           /\ FpgaTypes' /\ p + 1 \in 0 .. 2 * NUM_BURSTS + 8
  BY <1>3
<1>4. QED BY <1>1, <1>2, <1>3, RowStep

-----------------------------------------------------------------------------
(* What the DRAM holds.                                                    *)

LEMMA GroupKept ==
  ASSUME UNCHANGED <<pc, rd, i>>
  PROVE  Group' = Group /\ (Reading' <=> Reading)
  BY DEF Group, Reading, D

LEMMA StoredKept ==
  ASSUME UNCHANGED <<t0, row_ms>>, fpga'.dram = fpga.dram, Group' = Group,
         NEW c, NEW n, Stored(c, n)
  PROVE  Stored(c, n)'
  BY DEF Stored, D

LEMMA CompleteKept ==
  ASSUME UNCHANGED <<wr, t0, row_ms>>, fpga'.dram = fpga.dram, Group' = Group, Complete
  PROVE  Complete'
<1> SUFFICES ASSUME NEW d \in Row, (Group <= D(d))', (D(d) < D(wr))'
             PROVE  Stored(d, NUM_BURSTS)'
  BY DEF Complete
<1>1. Group <= D(d) /\ D(d) < D(wr)
  BY DEF D
<1>2. Stored(d, NUM_BURSTS)
  BY <1>1 DEF Complete
<1>3. QED BY <1>2, StoredKept

\* A burst written in time, and no other burst touched.
LEMMA StoredWritten ==
  ASSUME UNCHANGED <<t0, row_ms>>, Group' = Group, FpgaTypes, clock \in Nat,
         NEW c \in Row, NEW n \in Nat, n + 1 \in 1 .. NUM_BURSTS,
         fpga'.dram = [fpga.dram EXCEPT ![Burst(c[2], c[1], n + 1)] = clock]
  PROVE  /\ \A d \in Row : d # c /\ Stored(d, NUM_BURSTS) => Stored(d, NUM_BURSTS)'
         /\ Stored(c, n) /\ clock <= t0 + (D(c) - Group + 1) * row_ms
              => Stored(c, n + 1)'
<1> DEFINE b == Burst(c[2], c[1], n + 1)
           m == NUM_BURSTS
           due(d) == t0 + (D(d) - Group + 1) * row_ms
<1>1. fpga.dram \in [Bursts -> Int] /\ b \in Bursts
  BY BurstType DEF FpgaTypes
<1>2. /\ fpga'.dram[b] = clock
      /\ \A e \in Bursts : e # b => fpga'.dram[e] = fpga.dram[e]
  BY <1>1
<1>3. \A d : due(d)' = due(d)
  BY DEF D
<1>4. clock # Never
  BY DEF Never
<1>5. ASSUME NEW d \in Row, d # c, Stored(d, m) PROVE Stored(d, m)'
  <2>1. ASSUME NEW k \in 1 .. m PROVE fpga'.dram[Burst(d[2], d[1], k)] = fpga.dram[Burst(d[2], d[1], k)]
    <3>1. Burst(d[2], d[1], k) \in Bursts /\ Burst(d[2], d[1], k) # b
      BY <1>5, BurstType
    <3>2. QED BY <1>2, <3>1
  <2> HIDE DEF m
  <2>2. QED BY <1>3, <1>5, <2>1 DEF Stored
<1>6. ASSUME Stored(c, n), clock <= due(c) PROVE Stored(c, n + 1)'
  <2>1. ASSUME NEW k \in 1 .. n + 1
        PROVE  /\ fpga'.dram[Burst(c[2], c[1], k)] # Never
               /\ fpga'.dram[Burst(c[2], c[1], k)] <= due(c)
    <3>1. CASE k = n + 1
      <4> HIDE DEF due
      <4>1. QED BY <1>2, <1>4, <1>6, <3>1
    <3>2. CASE k # n + 1
      <4>1. k \in 1 .. n /\ k \in 1 .. m
        <5>1. NUM_BURSTS \in Nat
          BY TestAssumption
        <5>2. QED BY <3>2, <5>1
      <4>2. Burst(c[2], c[1], k) \in Bursts /\ Burst(c[2], c[1], k) # b
        BY <3>2, <4>1, BurstType
      <4>3. fpga'.dram[Burst(c[2], c[1], k)] = fpga.dram[Burst(c[2], c[1], k)]
        BY <1>2, <4>2
      <4>4. fpga.dram[Burst(c[2], c[1], k)] # Never /\ fpga.dram[Burst(c[2], c[1], k)] <= due(c)
        BY <1>6, <4>1 DEF Stored
      <4> HIDE DEF due
      <4>5. QED BY <4>3, <4>4
    <3>3. QED BY <3>1, <3>2
  <2>2. QED BY <1>3, <2>1 DEF Stored
<1>7. QED BY <1>5, <1>6

LEMMA NextColumnType ==
  ASSUME SeenInv
  PROVE  NextColumn \in Nat \ {0}
<1>1. seen \in Seq([row : Row, col : 1 .. NUM_BURSTS, burst : Bursts, written : Int, held : Int])
  BY DEF SeenInv
<1>2. CASE seen = << >> \/ seen[Len(seen)].row # rd
  BY <1>2 DEF NextColumn
<1>3. CASE ~(seen = << >> \/ seen[Len(seen)].row # rd)
  <2>1. Len(seen) \in 1 .. Len(seen)
    BY <1>1, <1>3, EmptySeq, LenProperties
  <2>2. seen[Len(seen)].col \in 1 .. NUM_BURSTS
    <3>1. seen[Len(seen)] \in [row : Row, col : 1 .. NUM_BURSTS, burst : Bursts,
                               written : Int, held : Int]
      BY <1>1, <2>1, ElementOfSeq
    <3>2. QED BY <3>1
  <2>3. NextColumn = seen[Len(seen)].col + 1
    BY <1>3 DEF NextColumn
  <2>4. QED BY <2>2, <2>3
<1>4. QED BY <1>2, <1>3

LEMMA NextColumnKept ==
  ASSUME UNCHANGED <<seen, rd>>
  PROVE  NextColumn' = NextColumn
  BY DEF NextColumn

\* Between two rows nothing of the next one has been compared.
LEMMA NextColumnFirst ==
  ASSUME SeenInv, ProgramTypes, pc # "recv"
  PROVE  NextColumn = 1
<1>1. seen \in Seq([row : Row, col : 1 .. NUM_BURSTS, burst : Bursts, written : Int, held : Int])
  BY DEF SeenInv
<1>2. CASE seen = << >>
  BY <1>2 DEF NextColumn
<1>3. CASE seen # << >>
  <2>1. Len(seen) \in 1 .. Len(seen)
    BY <1>1, <1>3, EmptySeq, LenProperties
  <2>2. SeenRow(seen[Len(seen)])
    BY <2>1 DEF SeenInv
  <2>3. D(seen[Len(seen)].row) < D(rd) /\ D(rd) \in Nat
    BY <2>2, CursorType DEF SeenRow, ProgramTypes
  <2>4. seen[Len(seen)].row # rd
    BY <2>3
  <2>5. QED BY <2>4 DEF NextColumn
<1>4. QED BY <1>2, <1>3

LEMMA WriteRunningKept ==
  ASSUME TestInv, FpgaStep, (pc = "write" /\ i > 0) \/ pc = "turn_read"
  PROVE  WriteRunning' /\ FpgaTypes' /\ fpga'.out = fpga.out
<1>1. /\ ProgramTypes /\ CursorInv /\ TimeInv /\ FpgaTypes /\ FpgaInv
      /\ pc \in {"write", "turn_read"}
  BY DEF TestInv
<1>2. PICK c \in Row, p \in 0 .. 2 * NUM_BURSTS + 8, n \in 0 .. NUM_BURSTS :
        /\ NextRow(c) = wr /\ RowAt("WR", c, p) /\ Upto(p, n) /\ fpga.bus = "WRITE"
        /\ Stored(c, n)
        /\ \A d \in Row : Group <= D(d) /\ D(d) < D(c) => Stored(d, NUM_BURSTS)
  BY <1>1 DEF FpgaInv, WriteRunning
<1>0. NUM_BURSTS \in Nat /\ n \in Nat /\ c \in Row
  BY <1>2, TestAssumption
<1>3. UNCHANGED <<pc, rd, i, wr, t0, row_ms, clock>>
  BY <1>1, FpgaStepFields DEF cursors, time
<1>4. Group' = Group
  BY <1>3, GroupKept
<1>5. /\ p + 1 \in 0 .. 2 * NUM_BURSTS + 8 /\ RowAt("WR", c, p + 1)'
      /\ fpga'.bus = "WRITE" /\ fpga'.out = fpga.out /\ FpgaTypes'
      /\ \/ Upto(p + 1, n) /\ fpga'.dram = fpga.dram
         \/ /\ n + 1 \in 1 .. NUM_BURSTS /\ Upto(p + 1, n + 1)
            /\ fpga'.dram = [fpga.dram EXCEPT ![Burst(c[2], c[1], n + 1)] = clock]
  BY <1>1, <1>2, WriteStep
<1>6. NextRow(c)' = NextRow(c) /\ (NextRow(c) = wr)'
  BY <1>2, <1>3 DEF NextRow
<1>9. clock = t0 + (D(c) - Group + 1) * row_ms
  <2> DEFINE x == D(c)
             y == D(rd)
             z == D(wr)
             g == Group
  <2>1. NextRow(c) \in Cursor /\ z = x + 1
    BY <1>0, <1>2, NextRowNumber
  <2>2. z = y + i /\ clock = t0 + i * row_ms
    BY <1>1 DEF CursorInv, TimeInv
  <2>3. x \in Nat
    BY <1>0, RowType, CursorType
  <2>4. y \in Nat /\ i \in Nat
    BY <1>1, CursorType DEF ProgramTypes
  <2>5. g = y
    <3>1. ~Reading
      BY <1>1 DEF Reading
    <3>2. g = D(rd) - 0
      BY <3>1 DEF Group
    <3>3. QED BY <1>0, <2>4, <3>2
  <2> HIDE DEF x, y, z, g
  <2>6. x - g + 1 = i
    BY <1>0, <2>1, <2>2, <2>3, <2>4, <2>5
  <2>7. QED BY <2>2, <2>6 DEF x, g
<1>7. PICK j \in 0 .. NUM_BURSTS :
        /\ Upto(p + 1, j) /\ Stored(c, j)'
        /\ \A d \in Row : Group <= D(d) /\ D(d) < D(c) => Stored(d, NUM_BURSTS)'
  <2>1. CASE Upto(p + 1, n) /\ fpga'.dram = fpga.dram
    <3>1. Stored(c, n)'
      BY <1>2, <1>3, <1>4, <2>1, StoredKept
    <3>2. ASSUME NEW d \in Row, Group <= D(d) /\ D(d) < D(c) PROVE Stored(d, NUM_BURSTS)'
      BY <1>2, <1>3, <1>4, <2>1, <3>2, StoredKept
    <3>3. QED BY <2>1, <3>1, <3>2
  <2>2. CASE /\ n + 1 \in 1 .. NUM_BURSTS /\ Upto(p + 1, n + 1)
             /\ fpga'.dram = [fpga.dram EXCEPT ![Burst(c[2], c[1], n + 1)] = clock]
    <3>1. clock \in Nat /\ n \in Nat
      <4>1. clock \in Nat
        BY <1>1 DEF ProgramTypes
      <4>2. QED BY <1>0, <4>1
    <3>2. /\ \A d \in Row : d # c /\ Stored(d, NUM_BURSTS) => Stored(d, NUM_BURSTS)'
          /\ Stored(c, n) /\ clock <= t0 + (D(c) - Group + 1) * row_ms => Stored(c, n + 1)'
      BY <1>1, <1>3, <1>4, <2>2, <3>1, StoredWritten
    <3>3. clock <= t0 + (D(c) - Group + 1) * row_ms
      BY <1>0, <1>9, <3>1
    <3>4. ASSUME NEW d \in Row, Group <= D(d) /\ D(d) < D(c) PROVE Stored(d, NUM_BURSTS)'
      <4>1. d # c
        <5>1. D(c) \in Nat
          BY <1>0, RowType, CursorType
        <5>2. D(d) # D(c)
          BY <1>0, <3>4, <5>1
        <5>3. QED BY <5>2
      <4>2. Stored(d, NUM_BURSTS)
        BY <1>2, <3>4
      <4>3. QED BY <3>2, <4>1, <4>2
    <3>5. Stored(c, n + 1)'
      BY <1>2, <3>2, <3>3
    <3>6. n + 1 \in 0 .. NUM_BURSTS
      BY <1>0, <2>2
    <3>7. QED BY <2>2, <3>4, <3>5, <3>6
  <2>3. QED BY <1>5, <2>1, <2>2
<1>8. WriteRunning'
  <2>1. Upto(p + 1, j)'
    BY <1>7 DEF Upto
  <2>2. \A d \in Row : (Group <= D(d) /\ D(d) < D(c) => Stored(d, NUM_BURSTS))'
    BY <1>4, <1>7 DEF D
  <2>3. /\ (NextRow(c) = wr)' /\ RowAt("WR", c, p + 1)' /\ Upto(p + 1, j)'
        /\ (fpga.bus = "WRITE")' /\ Stored(c, j)'
        /\ \A d \in Row : (Group <= D(d) /\ D(d) < D(c) => Stored(d, NUM_BURSTS))'
    BY <1>5, <1>6, <1>7, <2>1, <2>2
  <2>4. c \in Row /\ p + 1 \in 0 .. 2 * NUM_BURSTS + 8 /\ j \in 0 .. NUM_BURSTS
    BY <1>5
  <2>5. QED BY <2>3, <2>4 DEF WriteRunning
<1>10. QED BY <1>5, <1>8

LEMMA ReadRunningKept ==
  ASSUME TestInv, FpgaStep, pc = "recv"
  PROVE  ReadRunning' /\ FpgaTypes' /\ fpga'.dram = fpga.dram /\ fpga'.bus = "READ"
<1> DEFINE q == NextColumn - 1
           w(k) == [burst |-> Burst(rd[2], rd[1], k),
                    written |-> fpga.dram[Burst(rd[2], rd[1], k)]]
<1>1. /\ ProgramTypes /\ CursorInv /\ FpgaTypes /\ SeenInv
      /\ ReadRunning /\ fpga.bus = "READ"
  BY DEF TestInv, FpgaInv
<1>2. PICK p \in 0 .. 2 * NUM_BURSTS + 8, n \in 0 .. NUM_BURSTS :
        /\ RowAt("RD", rd, p) /\ Upto(p, n) /\ n = q + Len(fpga.out)
        /\ \A k \in 1 .. Len(fpga.out) : fpga.out[k] = w(q + k)
  BY <1>1 DEF ReadRunning
<1>3. UNCHANGED <<rd, seen>>
  BY <1>1, FpgaStepFields DEF cursors
<1>4. rd \in Row /\ NextColumn' = NextColumn /\ q \in Nat
  <2>1. NextColumn \in Nat \ {0}
    BY <1>1, NextColumnType
  <2>2. q \in Nat
    BY <2>1
  <2>3. QED BY <1>1, <1>3, <2>2, CursorsAreRows, NextColumnKept
<1>5. /\ p + 1 \in 0 .. 2 * NUM_BURSTS + 8 /\ RowAt("RD", rd, p + 1)'
      /\ fpga'.bus = "READ" /\ fpga'.dram = fpga.dram /\ FpgaTypes'
      /\ \/ Upto(p + 1, n) /\ fpga'.out = fpga.out
         \/ /\ n + 1 \in 1 .. NUM_BURSTS /\ Upto(p + 1, n + 1)
            /\ fpga'.out = Append(fpga.out, w(n + 1))
  <2>1. PICK c \in Row : c = rd
    BY <1>4
  <2>2. RowAt("RD", c, p)
    BY <1>2, <2>1
  <2>3. /\ p + 1 \in 0 .. 2 * NUM_BURSTS + 8 /\ RowAt("RD", c, p + 1)'
        /\ fpga'.bus = "READ" /\ fpga'.dram = fpga.dram /\ FpgaTypes'
        /\ \/ Upto(p + 1, n) /\ fpga'.out = fpga.out
           \/ /\ n + 1 \in 1 .. NUM_BURSTS /\ Upto(p + 1, n + 1)
              /\ fpga'.out = Append(fpga.out,
                   [burst |-> Burst(c[2], c[1], n + 1),
                    written |-> fpga.dram[Burst(c[2], c[1], n + 1)]])
    BY <1>1, <1>2, <2>2, ReadStep
  <2>4. RowAt("RD", rd, p + 1)'
    BY <1>3, <2>1, <2>3 DEF RowAt
  <2>5. QED BY <2>1, <2>3, <2>4
<1> HIDE DEF w, q
<1>6. PICK j \in 0 .. NUM_BURSTS :
        /\ Upto(p + 1, j) /\ j = q + Len(fpga'.out)
        /\ \A k \in 1 .. Len(fpga'.out) : fpga'.out[k] = w(q + k)
  <2>1. CASE Upto(p + 1, n) /\ fpga'.out = fpga.out
    BY <1>2, <2>1
  <2>2. CASE /\ n + 1 \in 1 .. NUM_BURSTS /\ Upto(p + 1, n + 1)
             /\ fpga'.out = Append(fpga.out, w(n + 1))
    <3> DEFINE e == w(n + 1)
               o == fpga.out
               S == [burst : Bursts, written : Int]
    <3>1. o \in Seq(S) /\ e \in S
      <4>1. Burst(rd[2], rd[1], n + 1) \in Bursts
        BY <1>4, <2>2, BurstType
      <4>2. fpga.dram \in [Bursts -> Int] /\ o \in Seq(S)
        BY <1>1 DEF FpgaTypes
      <4>3. e \in S
        BY <4>1, <4>2 DEF w
      <4>4. QED BY <4>2, <4>3
    <3>2. fpga'.out = Append(o, e)
      BY <2>2
    <3>3. n = q + Len(o) /\ \A k \in 1 .. Len(o) : o[k] = w(q + k)
      BY <1>2
    <3>4. n \in Nat /\ n + 1 \in 0 .. NUM_BURSTS
      BY <1>2, <2>2
    <3>5. e = w(n + 1)
      OBVIOUS
    <3> HIDE DEF e, o, S
    <3>6. Len(o) \in Nat
      BY <3>1, LenProperties
    <3>7. /\ Len(Append(o, e)) = Len(o) + 1
          /\ \A k \in 1 .. Len(o) : Append(o, e)[k] = o[k]
          /\ Append(o, e)[Len(o) + 1] = e
      BY <3>1, AppendProperties
    <3>8. ASSUME NEW k \in 1 .. Len(o) + 1 PROVE Append(o, e)[k] = w(q + k)
      <4>1. CASE k = Len(o) + 1
        <5>1. q + k = n + 1
          BY <1>4, <3>3, <3>4, <3>6, <4>1
        <5>2. QED BY <3>5, <3>7, <4>1, <5>1
      <4>2. CASE k # Len(o) + 1
        <5>1. k \in 1 .. Len(o)
          BY <3>6, <4>2
        <5>2. QED BY <3>3, <3>7, <5>1
      <4>3. QED BY <4>1, <4>2
    <3>9. n + 1 = q + (Len(o) + 1)
      BY <1>4, <3>3, <3>6
    <3>10. QED BY <2>2, <3>2, <3>4, <3>7, <3>8, <3>9
  <2>3. QED BY <1>5, <2>1, <2>2
<1>7. ReadRunning'
  <2>1. Upto(p + 1, j)' /\ j \in 0 .. NUM_BURSTS /\ p + 1 \in 0 .. 2 * NUM_BURSTS + 8
    BY <1>5, <1>6 DEF Upto
  <2>2. q' = q
    BY <1>4 DEF q
  <2>3. ASSUME NEW k \in 1 .. Len(fpga'.out)
        PROVE  LET burst == Burst(rd'[2], rd'[1], NextColumn' - 1 + k)
               IN  fpga'.out[k] = [burst |-> burst, written |-> fpga'.dram[burst]]
    BY <1>3, <1>4, <1>5, <1>6 DEF w, q
  <2>4. j = NextColumn' - 1 + Len(fpga'.out)
    BY <1>4, <1>6 DEF q
  <2>5. RowAt("RD", rd, p + 1)'
    BY <1>5
  <2>6. QED BY <2>1, <2>3, <2>4, <2>5 DEF ReadRunning, Burst
<1>8. QED BY <1>5, <1>7

LEMMA FpgaStepKeeps ==
  ASSUME TestInv, FpgaStep
  PROVE  TestInv'
<1>1. /\ ProgramTypes /\ SequenceInv /\ CursorInv /\ TimeInv /\ FpgaTypes /\ FpgaInv /\ SeenInv
      /\ OneEnd /\ ReportedWhereRead /\ HeldLongEnough
  BY DEF TestInv
<1>2. /\ UNCHANGED <<pc, retention, iseq, todo, building, wr, rd, i, dimm_done, t0, clock, row_ms,
                     seen>>
      /\ fpga.iseq # << >>
  BY <1>1, FpgaStepFields DEF sequence, cursors, time
<1>3. Group' = Group
  BY <1>2, GroupKept
<1>4. /\ ProgramTypes' /\ CursorInv' /\ TimeInv' /\ SeenInv' /\ ReportedWhereRead'
      /\ HeldLongEnough' /\ SequenceInv' /\ OneEnd'
  <2>1. ProgramTypes'
    BY <1>1, <1>2 DEF ProgramTypes
  <2>2. CursorInv'
    BY <1>1, <1>2, <1>3 DEF CursorInv, Reading, D, group_size
  <2>3. TimeInv'
    BY <1>1, <1>2 DEF TimeInv, Reading
  <2>4. SeenInv'
    BY <1>1, <1>2, NextColumnKept DEF SeenInv, SeenRow, D
  <2>5. ReportedWhereRead' /\ HeldLongEnough'
    BY <1>1, <1>2 DEF ReportedWhereRead, HeldLongEnough
  <2>6. SequenceInv'
    BY <1>1, <1>2, SequenceKept DEF sequence
  <2>7. OneEnd'
    BY <1>1, FpgaStepOneEnd
  <2>8. QED BY <2>1, <2>2, <2>3, <2>4, <2>5, <2>6, <2>7
<1>5. FpgaTypes' /\ FpgaInv'
  <2>1. CASE pc \in Before
    BY <1>1, <1>2, <2>1 DEF FpgaInv
  <2>2. CASE pc = "write" /\ i = 0
    <3>1. PICK p \in 0 .. 3 : BusAt("WRITE", p)
      BY <1>1, <2>2 DEF FpgaInv
    <3>2. "WRITE" \in Directions
      BY DEF Directions
    <3>3. /\ p + 1 \in 0 .. 3 /\ BusAt("WRITE", p + 1)'
          /\ fpga'.out = fpga.out /\ FpgaTypes'
      BY <1>1, <3>1, <3>2, BusStep
    <3>4. fpga.out = << >>
      BY <1>1, <2>2 DEF FpgaInv
    <3>5. (\E k \in 0 .. 3 : BusAt("WRITE", k))'
      BY <3>3
    <3>6. QED BY <1>2, <2>2, <3>3, <3>4, <3>5 DEF FpgaInv, Before
  <2>3. CASE (pc = "write" /\ i > 0) \/ pc = "turn_read"
    <3>1. WriteRunning' /\ FpgaTypes' /\ fpga'.out = fpga.out
      BY <2>3, WriteRunningKept
    <3>2. fpga.out = << >> /\ i \in Nat
      BY <1>1, <2>3 DEF FpgaInv, ProgramTypes
    <3>3. ~(pc = "write" /\ i = 0)
      BY <2>3, <3>2
    <3>4. QED BY <1>2, <2>3, <3>1, <3>2, <3>3 DEF FpgaInv, Before
  <2>4. CASE pc = "wait"
    <3>1. Complete /\ \E p \in 0 .. 3 : BusAt("READ", p)
      BY <1>1, <2>4 DEF FpgaInv
    <3>2. PICK p \in 0 .. 3 : BusAt("READ", p)
      BY <3>1
    <3>3. "READ" \in Directions
      BY DEF Directions
    <3>4. /\ p + 1 \in 0 .. 3 /\ BusAt("READ", p + 1)'
          /\ fpga'.out = fpga.out /\ fpga'.dram = fpga.dram /\ FpgaTypes'
      BY <1>1, <3>2, <3>3, BusStep
    <3>5. fpga.out = << >>
      BY <1>1, <2>4 DEF FpgaInv
    <3>6. (\E k \in 0 .. 3 : BusAt("READ", k))'
      BY <3>4
    <3>7. Complete'
      BY <1>2, <1>3, <3>1, <3>4, CompleteKept
    <3>8. QED BY <1>2, <2>4, <3>4, <3>5, <3>6, <3>7 DEF FpgaInv, Before
  <2>5. CASE pc = "read"
    <3>1. Complete /\ Harmless(fpga.iseq) /\ fpga.bus = "READ" /\ fpga.out = << >>
      BY <1>1, <2>5 DEF FpgaInv
    <3>2. /\ Harmless(fpga'.iseq) /\ fpga'.bus = fpga.bus /\ fpga'.out = fpga.out
          /\ fpga'.dram = fpga.dram /\ FpgaTypes'
      BY <1>1, <3>1, HarmlessStep
    <3>3. Complete' /\ Harmless(fpga.iseq)'
      BY <1>2, <1>3, <3>1, <3>2, CompleteKept DEF Harmless
    <3>4. QED BY <1>2, <2>5, <3>1, <3>2, <3>3 DEF FpgaInv, Before
  <2>6. CASE pc = "recv"
    <3>1. ReadRunning' /\ FpgaTypes' /\ fpga'.dram = fpga.dram /\ fpga'.bus = "READ"
      BY <2>6, ReadRunningKept
    <3>2. Complete'
      BY <1>1, <1>2, <1>3, <2>6, <3>1, CompleteKept DEF FpgaInv
    <3>3. QED BY <1>2, <2>6, <3>1, <3>2 DEF FpgaInv, Before
  <2>7. CASE pc \in {"turn_write", "close", "exit0"}
    <3>1. /\ Harmless(fpga.iseq) /\ fpga.out = << >> /\ (pc = "exit0" => ~fpga.held)
      BY <1>1, <2>7 DEF FpgaInv
    <3>2. /\ Harmless(fpga'.iseq) /\ fpga'.bus = fpga.bus /\ fpga'.out = fpga.out
          /\ fpga'.dram = fpga.dram /\ FpgaTypes'
      BY <1>1, <3>1, HarmlessStep
    <3>3. Harmless(fpga.iseq)' /\ fpga'.held = fpga.held
      BY <1>1, <3>2, FpgaStepFields DEF Harmless
    <3>4. QED BY <1>2, <2>7, <3>1, <3>2, <3>3 DEF FpgaInv, Before
  <2>8. QED
    <3>1. pc \in Pcs /\ i \in Nat
      BY <1>1 DEF ProgramTypes
    <3>2. i = 0 \/ i > 0
      BY <3>1
    <3>3. QED BY <2>1, <2>2, <2>3, <2>4, <2>5, <2>6, <2>7, <3>1, <3>2 DEF Pcs, Exits, Before
<1>6. QED BY <1>4, <1>5 DEF TestInv

-----------------------------------------------------------------------------
(* The program's steps.                                                    *)

LEMMA FirstRow == <<0, 0>> \in Cursor /\ D(<<0, 0>>) = 0 /\ <<0, 0>>[2] # NUM_BANKS
<1>1. NUM_ROWS \in Nat /\ NUM_ROWS > 0 /\ NUM_BANKS \in Nat /\ NUM_BANKS > 0
  BY TestAssumption
<1>2. <<0, 0>> \in Cursor
  BY <1>1 DEF Cursor
<1>3. D(<<0, 0>>) = 0 * NUM_ROWS + 0
  BY DEF D
<1>4. 0 * NUM_ROWS = 0
  BY <1>1
<1>5. QED BY <1>1, <1>2, <1>3, <1>4

LEMMA ResetTypes ==
  ASSUME NEW b \in BOOLEAN, fpga' = [Reset EXCEPT !.held = b]
  PROVE  /\ FpgaTypes' /\ OneEnd' /\ fpga'.iseq = << >> /\ fpga'.out = << >>
         /\ Harmless(fpga.iseq)' /\ fpga'.held = b
<1> DEFINE o == [k \in 0 .. NUM_BANKS - 1 |-> Never]
           d == [k \in Bursts |-> Never]
<1>1. Never \in Int
  BY DEF Never
<1>2. o \in [0 .. NUM_BANKS - 1 -> Int] /\ d \in [Bursts -> Int]
  BY <1>1
<1>3. Reset = [held |-> FALSE, iseq |-> << >>, bus |-> "READ", open |-> o, out |-> << >>,
               dram |-> d]
  BY DEF Reset
<1> HIDE DEF o, d
<1>4. fpga' = [held |-> b, iseq |-> << >>, bus |-> "READ", open |-> o, out |-> << >>,
               dram |-> d]
  BY <1>3
<1>5. << >> \in Seq(Word) /\ << >> \in Seq([burst : Bursts, written : Int])
      /\ "READ" \in Directions /\ Len(<< >>) = 0
  BY DEF Directions
<1>6. FpgaTypes'
  <2>1. /\ fpga'.held = b /\ fpga'.iseq = << >> /\ fpga'.bus = "READ" /\ fpga'.open = o
        /\ fpga'.out = << >> /\ fpga'.dram = d
    BY <1>4
  <2>2. fpga' = [held |-> fpga'.held, iseq |-> fpga'.iseq, bus |-> fpga'.bus,
                 open |-> fpga'.open, out |-> fpga'.out, dram |-> fpga'.dram]
    BY <1>4, <2>1
  <2>3. QED BY <1>2, <1>5, <2>1, <2>2 DEF FpgaTypes
<1>7. fpga'.iseq = << >> /\ fpga'.out = << >> /\ fpga'.held = b
  BY <1>4
<1>8. OneEnd' /\ Harmless(fpga.iseq)'
  BY <1>5, <1>7 DEF OneEnd, Harmless
<1>9. QED BY <1>6, <1>7, <1>8

LEMMA InitInv ==
  ASSUME TestInit
  PROVE  TestInv
<1>1. ProgramTypes
  <2>1. retention \in Int /\ row_ms \in Nat \ {0}
    BY TestAssumption DEF TestInit
  <2>2. wr = <<0, 0>> /\ rd = <<0, 0>> /\ i = 0 /\ dimm_done = FALSE /\ t0 = 0 /\ clock = 0
        /\ pc = "args"
    BY DEF TestInit
  <2>3. QED BY <2>1, <2>2, FirstRow DEF ProgramTypes, Pcs
<1>2. SequenceInv
  <2>1. Sequence(Null)
    BY DEF Sequence, Null
  <2>2. QED BY <2>1 DEF TestInit, SequenceInv
<1>3. CursorInv
  <2>1. pc = "args" /\ wr = <<0, 0>> /\ rd = <<0, 0>> /\ dimm_done = FALSE
    BY DEF TestInit
  <2>2. wr[2] # NUM_BANKS
    BY <2>1, FirstRow
  <2>3. QED BY <2>1, <2>2 DEF CursorInv, Reading
<1>4. TimeInv
  BY DEF TestInit, TimeInv, Reading
<1>5. FpgaTypes /\ FpgaInv /\ OneEnd
  <2> DEFINE o == [k \in 0 .. NUM_BANKS - 1 |-> Never]
             d == [k \in Bursts |-> Never]
  <2>1. Never \in Int
    BY DEF Never
  <2>2. o \in [0 .. NUM_BANKS - 1 -> Int] /\ d \in [Bursts -> Int]
    BY <2>1
  <2>3. fpga = [held |-> FALSE, iseq |-> << >>, bus |-> "READ", open |-> o, out |-> << >>,
                dram |-> d]
    BY DEF Reset, TestInit
  <2> HIDE DEF o, d
  <2>4. << >> \in Seq(Word) /\ << >> \in Seq([burst : Bursts, written : Int])
        /\ "READ" \in Directions /\ Len(<< >>) = 0
    BY DEF Directions
  <2>5. FpgaTypes
    BY <2>2, <2>3, <2>4 DEF FpgaTypes
  <2>6. OneEnd
    BY <2>3, <2>4 DEF OneEnd
  <2>7. pc = "args"
    BY DEF TestInit
  <2>8. FpgaInv
    BY <2>3, <2>7 DEF FpgaInv
  <2>9. QED BY <2>5, <2>6, <2>8
<1>6. SeenInv /\ ReportedWhereRead /\ HeldLongEnough
  <2>1. seen = << >> /\ Len(seen) = 0 /\ rd = <<0, 0>> /\ pc = "args"
    BY DEF TestInit
  <2>2. D(rd) = 0 /\ NextColumn = 1
    BY <2>1, FirstRow DEF NextColumn
  <2>3. seen \in Seq([row : Row, col : 1 .. NUM_BURSTS, burst : Bursts, written : Int,
                      held : Int])
    BY <2>1
  <2>4. Len(seen) = D(rd) * NUM_BURSTS + NextColumn - 1
    <3>1. NUM_BURSTS \in Nat
      BY TestAssumption
    <3>2. 0 * NUM_BURSTS + 1 - 1 = 0
      BY <3>1
    <3>3. QED BY <2>1, <2>2, <3>2
  <2>5. ASSUME NEW c \in Row, NEW n \in 1 .. NUM_BURSTS
        PROVE  ~(D(c) < D(rd) \/ (c = rd /\ n < NextColumn))
    <3>1. D(c) \in Nat
      BY RowType, CursorType
    <3>2. QED BY <2>2, <3>1
  <2>6. SeenInv
    BY <2>1, <2>3, <2>4, <2>5 DEF SeenInv
  <2>7. QED BY <2>1, <2>6 DEF ReportedWhereRead, HeldLongEnough
<1>7. QED BY <1>1, <1>2, <1>3, <1>4, <1>5, <1>6 DEF TestInv

\* What has been compared stays so while the program does not compare.
LEMMA SeenKept ==
  ASSUME SeenInv, UNCHANGED <<seen, rd>>, pc # "recv"
  PROVE  SeenInv'
<1>1. ASSUME NEW k \in 1 .. Len(seen) PROVE SeenRow(seen[k])'
  <2>1. SeenRow(seen[k])
    BY DEF SeenInv
  <2>2. QED BY <2>1 DEF SeenRow, D
<1>2. NextColumn' = NextColumn
  BY NextColumnKept
<1>3. /\ seen \in Seq([row : Row, col : 1 .. NUM_BURSTS, burst : Bursts, written : Int,
                       held : Int])
      /\ Len(seen) = D(rd) * NUM_BURSTS + NextColumn - 1
      /\ \A c \in Row, n \in 1 .. NUM_BURSTS :
           D(c) < D(rd) \/ (c = rd /\ n < NextColumn) =>
             \E k \in 1 .. Len(seen) : seen[k].row = c /\ seen[k].col = n
  BY DEF SeenInv
<1>4. D(rd)' = D(rd)
  BY DEF D
<1>5. QED BY <1>1, <1>2, <1>3, <1>4 DEF SeenInv, D

LEMMA SeenFacts ==
  ASSUME ReportedWhereRead, HeldLongEnough, UNCHANGED <<seen, retention, row_ms>>
  PROVE  ReportedWhereRead' /\ HeldLongEnough'
  BY DEF ReportedWhereRead, HeldLongEnough

LEMMA Idle ==
  ASSUME SequenceInv, pc \notin {"turn_write", "write", "turn_read", "read"},
         UNCHANGED sequence
  PROVE  SequenceInv'
<1>1. building = "no"
  BY DEF SequenceInv
<1>2. QED BY <1>1, SequenceIdle

\* From the arguments to the first group.
LEMMA BeginKeeps ==
  ASSUME TestInv, Args \/ List \/ Open
  PROVE  TestInv'
<1>1. /\ ProgramTypes /\ SequenceInv /\ CursorInv /\ TimeInv /\ FpgaTypes /\ FpgaInv /\ SeenInv
      /\ OneEnd /\ ReportedWhereRead /\ HeldLongEnough
  BY DEF TestInv
<1>2. /\ UNCHANGED <<retention, wr, rd, i, dimm_done, t0, clock, row_ms, seen>>
      /\ UNCHANGED sequence /\ pc \in {"args", "list", "open"}
      /\ pc' \in {"list", "exit4", "open", "exit1", "turn_write"}
      /\ pc' # "exit4" => retention > 0
      /\ \/ fpga' = fpga /\ pc' # "turn_write"
         \/ fpga' = [Reset EXCEPT !.held = TRUE] /\ pc' = "turn_write"
  <2>1. CASE Args
    <3>1. pc = "args" /\ pc' = IF retention <= 0 THEN "exit4" ELSE "list"
      BY <2>1 DEF Args, Goto
    <3>2. retention \in Int
      BY <1>1 DEF ProgramTypes
    <3>3. retention <= 0 \/ retention > 0
      BY <3>2
    <3>4. QED BY <2>1, <3>1, <3>3 DEF Args, cursors, time
  <2>2. CASE List
    <3>1. pc = "list" /\ pc' \in {"open", "exit1"}
      BY <2>2 DEF List, Goto
    <3>2. retention > 0
      BY <1>1, <3>1 DEF ProgramTypes
    <3>3. QED BY <2>2, <3>1, <3>2 DEF List, cursors, time
  <2>3. CASE Open
    <3>1. pc = "open" /\ \/ pc' = "turn_write" /\ fpga' = [Reset EXCEPT !.held = TRUE]
                         \/ pc' = "exit1" /\ fpga' = fpga
      BY <2>3 DEF Open, Goto
    <3>2. retention > 0
      BY <1>1, <3>1 DEF ProgramTypes
    <3>3. QED BY <2>3, <3>1, <3>2 DEF Open, cursors, time
  <2>4. QED BY <2>1, <2>2, <2>3
<1>3. ProgramTypes'
  BY <1>1, <1>2 DEF ProgramTypes, Pcs, Exits
<1>4. SequenceInv'
  BY <1>1, <1>2, Idle
<1>5. CursorInv'
  <2>1. wr = <<0, 0>> /\ rd = <<0, 0>> /\ ~dimm_done /\ (dimm_done <=> wr[2] = NUM_BANKS)
    BY <1>1, <1>2 DEF CursorInv, Before
  <2>2. QED BY <1>2, <2>1 DEF CursorInv, Reading, Before
<1>6. TimeInv'
  BY <1>2 DEF TimeInv, Reading
<1>7. FpgaTypes' /\ FpgaInv' /\ OneEnd'
  <2>1. CASE fpga' = fpga /\ pc' # "turn_write"
    <3>1. fpga.iseq = << >> /\ fpga.out = << >>
      BY <1>1, <1>2 DEF FpgaInv, Before
    <3>2. FpgaInv'
      BY <1>2, <2>1, <3>1 DEF FpgaInv, Before
    <3>3. FpgaTypes' /\ OneEnd'
      BY <1>1, <2>1 DEF FpgaTypes, OneEnd
    <3>4. QED BY <3>2, <3>3
  <2>2. CASE fpga' = [Reset EXCEPT !.held = TRUE] /\ pc' = "turn_write"
    <3>1. FpgaTypes' /\ OneEnd' /\ fpga'.out = << >> /\ Harmless(fpga.iseq)'
      BY <2>2, ResetTypes
    <3>2. FpgaInv'
      BY <2>2, <3>1 DEF FpgaInv, Before
    <3>3. QED BY <3>1, <3>2
  <2>3. QED BY <1>2, <2>1, <2>2
<1>8. SeenInv' /\ ReportedWhereRead' /\ HeldLongEnough'
  BY <1>1, <1>2, SeenKept, SeenFacts
<1>9. QED BY <1>3, <1>4, <1>5, <1>6, <1>7, <1>8 DEF TestInv

LEMMA CloseKeeps ==
  ASSUME TestInv, Close
  PROVE  TestInv'
<1>1. /\ ProgramTypes /\ SequenceInv /\ CursorInv /\ TimeInv /\ FpgaTypes /\ FpgaInv /\ SeenInv
      /\ OneEnd /\ ReportedWhereRead /\ HeldLongEnough
  BY DEF TestInv
<1>2. /\ UNCHANGED <<retention, wr, rd, i, dimm_done, t0, clock, row_ms, seen>>
      /\ UNCHANGED sequence /\ pc = "close" /\ pc' = "exit0"
      /\ fpga' = [fpga EXCEPT !.held = FALSE]
  BY DEF Close, Goto, cursors, time
<1>3. ProgramTypes'
  BY <1>1, <1>2 DEF ProgramTypes, Pcs, Exits
<1>4. SequenceInv'
  BY <1>1, <1>2, Idle
<1>5. CursorInv'
  BY <1>1, <1>2 DEF CursorInv, Reading, Before
<1>6. TimeInv'
  BY <1>2 DEF TimeInv, Reading
<1>7. fpga' = [held |-> FALSE, iseq |-> fpga.iseq, bus |-> fpga.bus, open |-> fpga.open,
               out |-> fpga.out, dram |-> fpga.dram]
  <2>1. fpga = Fpga(fpga)
    BY <1>1 DEF FpgaTypes, Fpga
  <2>2. QED BY <1>2, <2>1 DEF Fpga
<1>8. FpgaTypes' /\ OneEnd'
  BY <1>1, <1>7 DEF FpgaTypes, OneEnd
<1>9. FpgaInv'
  <2>1. Harmless(fpga.iseq) /\ fpga.out = << >>
    BY <1>1, <1>2 DEF FpgaInv
  <2>2. Harmless(fpga.iseq)' /\ fpga'.out = << >> /\ ~fpga'.held
    BY <1>7, <2>1 DEF Harmless
  <2>3. QED BY <1>2, <2>2 DEF FpgaInv, Before
<1>10. SeenInv' /\ ReportedWhereRead' /\ HeldLongEnough'
  BY <1>1, <1>2, SeenKept, SeenFacts
<1>11. QED BY <1>3, <1>4, <1>5, <1>6, <1>8, <1>9, <1>10 DEF TestInv

\* A helper takes the sequence and inserts.
LEMMA BuildingKeeps ==
  ASSUME TestInv, Calling \/ Insert
  PROVE  TestInv'
<1>1. /\ ProgramTypes /\ SequenceInv /\ CursorInv /\ TimeInv /\ FpgaTypes /\ FpgaInv /\ SeenInv
      /\ OneEnd /\ ReportedWhereRead /\ HeldLongEnough
  BY DEF TestInv
<1>2. UNCHANGED <<pc, retention, wr, rd, i, dimm_done, t0, clock, row_ms, fpga, seen>>
  BY DEF Calling, BuildTurn, Build, Insert, cursors, time
<1>3. SequenceInv'
  BY <1>1, CallingKeeps, InsertKeeps
<1>4. ProgramTypes' /\ CursorInv' /\ TimeInv'
  BY <1>1, <1>2 DEF ProgramTypes, CursorInv, TimeInv, Reading, Group, D, group_size
<1>5. FpgaTypes' /\ OneEnd' /\ ReportedWhereRead' /\ HeldLongEnough'
  BY <1>1, <1>2 DEF FpgaTypes, OneEnd, ReportedWhereRead, HeldLongEnough
<1>6. SeenInv'
  BY <1>1, <1>2 DEF SeenInv, SeenRow, NextColumn, D
<1>7. FpgaInv'
  <2>1. Group' = Group
    BY <1>2, GroupKept
  <2>2. ReadRunning => ReadRunning'
    BY <1>2 DEF ReadRunning, RowAt, NextColumn
  <2>3. WriteRunning => WriteRunning'
    BY <1>2, <2>1 DEF WriteRunning, RowAt, NextRow, Stored, D
  <2>4. Complete => Complete'
    BY <1>2, <2>1 DEF Complete, Stored, D
  <2>5. \A dir \in Directions : (\E p \in 0 .. 3 : BusAt(dir, p)) => (\E p \in 0 .. 3 : BusAt(dir, p))'
    BY <1>2 DEF BusAt
  <2>6. (\E p \in 0 .. 3 : BusAt("WRITE", p)) => (\E p \in 0 .. 3 : BusAt("WRITE", p))'
    BY <2>5 DEF Directions
  <2>7. (\E p \in 0 .. 3 : BusAt("READ", p)) => (\E p \in 0 .. 3 : BusAt("READ", p))'
    BY <2>5 DEF Directions
  <2>8. Harmless(fpga.iseq) => Harmless(fpga.iseq)'
    BY <1>2
  <2>9. QED BY <1>1, <1>2, <2>2, <2>3, <2>4, <2>6, <2>7, <2>8 DEF FpgaInv
<1>8. QED BY <1>3, <1>4, <1>5, <1>6, <1>7 DEF TestInv

\* A row's sequence that is over has written every burst.
LEMMA WholeRow ==
  ASSUME fpga.iseq = << >>, NEW op \in {"RD", "WR"}, NEW c \in Row,
         NEW p \in 0 .. 2 * NUM_BURSTS + 8, NEW n \in 0 .. NUM_BURSTS,
         RowAt(op, c, p), Upto(p, n)
  PROVE  n = NUM_BURSTS
<1> DEFINE r == RowSequence(op, c)
           m == NUM_BURSTS
<1>1. r \in Seq(Word) /\ Len(r) = 2 * m + 8
  BY RowWords
<1>2. From(r, p) = << >> /\ p \in 0 .. Len(r)
  BY DEF RowAt
<1> HIDE DEF r
<1>3. p = Len(r)
  BY <1>1, <1>2, FromProperties
<1>4. m \in Nat /\ m > 0
  BY TestAssumption
<1>5. 2 * m + 3 <= p <=> m <= n
  <2>1. m \in 1 .. m
    BY <1>4
  <2>2. QED BY <2>1 DEF Upto
<1> HIDE DEF m
<1>6. 2 * m + 3 <= p
  BY <1>1, <1>3, <1>4
<1>7. n \in 0 .. m
  BY DEF m
<1>8. n = m
  BY <1>4, <1>5, <1>6, <1>7
<1>9. QED BY <1>8 DEF m

LEMMA AllStored ==
  ASSUME NEW c \in Row, NextRow(c) = wr, Stored(c, NUM_BURSTS),
         \A d \in Row : Group <= D(d) /\ D(d) < D(c) => Stored(d, NUM_BURSTS)
  PROVE  Complete
<1> SUFFICES ASSUME NEW d \in Row, Group <= D(d), D(d) < D(wr)
             PROVE  Stored(d, NUM_BURSTS)
  BY DEF Complete
<1>1. D(wr) = D(c) + 1
  BY NextRowNumber
<1>2. D(c) \in Nat /\ D(d) \in Nat
  BY RowType, CursorType
<1>3. D(d) < D(c) \/ D(d) = D(c)
  BY <1>1, <1>2
<1>4. CASE D(d) < D(c)
  BY <1>4
<1>5. CASE D(d) = D(c)
  <2>1. d = c
    BY <1>5, RowType, RowNumber
  <2>2. QED BY <2>1
<1>6. QED BY <1>3, <1>4, <1>5

\* The first instruction of a sequence is the next one.
LEMMA StartAt ==
  ASSUME NEW s \in Seq(Word)
  PROVE  From(s, 0) = s /\ 0 \in 0 .. Len(s)
<1>1. Len(s) \in Nat
  BY LenProperties
<1>2. 0 \in 0 .. Len(s)
  BY <1>1
<1>3. QED BY <1>2, FromProperties

LEMMA TurnWriteKeeps ==
  ASSUME TestInv, TurnWrite
  PROVE  TestInv'
<1>1. /\ ProgramTypes /\ SequenceInv /\ CursorInv /\ TimeInv /\ FpgaTypes /\ FpgaInv /\ SeenInv
      /\ OneEnd /\ ReportedWhereRead /\ HeldLongEnough
  BY DEF TestInv
<1>2. /\ execute("turn_write") /\ pc' = "write" /\ t0' = clock /\ i' = 0
      /\ UNCHANGED <<retention, wr, rd, dimm_done, clock, row_ms, seen>>
  BY DEF TurnWrite
<1>3. /\ pc = "turn_write" /\ Target \in Seq(Word) /\ fpga'.iseq = Target
      /\ fpga'.out = fpga.out /\ SequenceInv' /\ FpgaTypes' /\ OneEnd'
  BY <1>1, <1>2, Executing
<1>4. ProgramTypes'
  BY <1>1, <1>2, <1>3 DEF ProgramTypes, Pcs
<1>5. wr = rd /\ ~dimm_done /\ (dimm_done <=> wr[2] = NUM_BANKS) /\ D(rd) \in Nat
  BY <1>1, <1>3, CursorType DEF CursorInv, ProgramTypes
<1>6. CursorInv'
  <2>1. group_size \in Nat \ {0}
    BY <1>1, <1>3, GroupSize DEF ProgramTypes
  <2>2. group_size' = group_size
    BY <1>2 DEF group_size
  <2>3. i' < group_size'
    BY <1>2, <2>1, <2>2
  <2>4. D(wr') = D(rd') + i'
    <3>1. D(wr') = D(rd) /\ D(rd') = D(rd)
      BY <1>2, <1>5
    <3>2. QED BY <1>2, <1>5, <3>1
  <2>5. QED BY <1>2, <1>5, <2>3, <2>4 DEF CursorInv, Reading, Before, D
<1>7. TimeInv'
  <2>1. clock \in Nat /\ row_ms \in Nat
    BY <1>1 DEF ProgramTypes
  <2>2. clock = clock + 0 * row_ms
    BY <2>1
  <2>3. QED BY <1>2, <2>2 DEF TimeInv, Reading
<1>8. FpgaInv'
  <2>1. Target = BusSequence("WRITE")
    BY <1>3 DEF Target
  <2>2. From(Target, 0) = Target
    BY <1>3, StartAt
  <2>3. BusAt("WRITE", 0)'
    BY <1>3, <2>1, <2>2 DEF BusAt
  <2>4. (\E p \in 0 .. 3 : BusAt("WRITE", p))'
    <3>1. 0 \in 0 .. 3
      OBVIOUS
    <3>2. QED BY <2>3, <3>1
  <2>5. fpga'.out = << >>
    BY <1>1, <1>3 DEF FpgaInv
  <2>6. ~(i' > 0)
    BY <1>2
  <2>7. QED BY <1>2, <2>4, <2>5, <2>6 DEF FpgaInv, Before
<1>9. SeenInv' /\ ReportedWhereRead' /\ HeldLongEnough'
  BY <1>1, <1>2, <1>3, SeenKept, SeenFacts
<1>10. QED BY <1>3, <1>4, <1>6, <1>7, <1>8, <1>9 DEF TestInv

LEMMA TurnReadKeeps ==
  ASSUME TestInv, TurnRead
  PROVE  TestInv'
<1>1. /\ ProgramTypes /\ SequenceInv /\ CursorInv /\ TimeInv /\ FpgaTypes /\ FpgaInv /\ SeenInv
      /\ OneEnd /\ ReportedWhereRead /\ HeldLongEnough
  BY DEF TestInv
<1>2. /\ execute("turn_read") /\ pc' = "wait" /\ i' = 0
      /\ UNCHANGED <<retention, wr, rd, dimm_done, t0, clock, row_ms, seen>>
  BY DEF TurnRead, time
<1>3. /\ pc = "turn_read" /\ fpga.iseq = << >> /\ Target \in Seq(Word) /\ fpga'.iseq = Target
      /\ fpga'.out = fpga.out /\ fpga'.dram = fpga.dram
      /\ SequenceInv' /\ FpgaTypes' /\ OneEnd'
  BY <1>1, <1>2, Executing
<1>4. ProgramTypes'
  BY <1>1, <1>2, <1>3 DEF ProgramTypes, Pcs
<1>5. Group = D(rd) /\ Group' = Group
  <2>1. D(rd) \in Nat
    BY <1>1, CursorType DEF ProgramTypes
  <2>2. Group = D(rd) - 0
    BY <1>3 DEF Group, Reading
  <2>3. Group' = D(rd) - 0
    BY <1>2 DEF Group, Reading, D
  <2>4. QED BY <2>1, <2>2, <2>3
<1>6. CursorInv'
  <2>1. /\ Group >= 0 /\ D(rd) < D(wr) /\ D(wr) <= Group + group_size
        /\ dimm_done \/ D(wr) = Group + group_size
        /\ dimm_done <=> wr[2] = NUM_BANKS
    BY <1>1, <1>3 DEF CursorInv
  <2>2. group_size' = group_size /\ D(rd)' = D(rd) /\ D(wr)' = D(wr)
    BY <1>2 DEF group_size, D
  <2>3. QED BY <1>2, <1>5, <2>1, <2>2 DEF CursorInv, Before
<1>7. TimeInv'
  BY <1>2 DEF TimeInv, Reading
<1>8. Complete'
  <2>1. PICK c \in Row, p \in 0 .. 2 * NUM_BURSTS + 8, n \in 0 .. NUM_BURSTS :
          /\ NextRow(c) = wr /\ RowAt("WR", c, p) /\ Upto(p, n) /\ fpga.bus = "WRITE"
          /\ Stored(c, n)
          /\ \A d \in Row : Group <= D(d) /\ D(d) < D(c) => Stored(d, NUM_BURSTS)
    BY <1>1, <1>3 DEF FpgaInv, WriteRunning
  <2>2. n = NUM_BURSTS
    BY <1>3, <2>1, WholeRow
  <2>3. Complete
    BY <2>1, <2>2, AllStored
  <2>4. QED BY <1>2, <1>3, <1>5, <2>3, CompleteKept
<1>9. FpgaInv'
  <2>1. Target = BusSequence("READ")
    BY <1>3 DEF Target
  <2>2. From(Target, 0) = Target
    BY <1>3, StartAt
  <2>3. BusAt("READ", 0)'
    BY <1>3, <2>1, <2>2 DEF BusAt
  <2>4. (\E p \in 0 .. 3 : BusAt("READ", p))'
    <3>1. 0 \in 0 .. 3
      OBVIOUS
    <3>2. QED BY <2>3, <3>1
  <2>5. fpga'.out = << >>
    BY <1>1, <1>3 DEF FpgaInv
  <2>6. QED BY <1>2, <1>8, <2>4, <2>5 DEF FpgaInv, Before
<1>10. SeenInv' /\ ReportedWhereRead' /\ HeldLongEnough'
  BY <1>1, <1>2, <1>3, SeenKept, SeenFacts
<1>11. QED BY <1>3, <1>4, <1>6, <1>7, <1>9, <1>10 DEF TestInv

LEMMA WriteRowKeeps ==
  ASSUME TestInv, WriteRow
  PROVE  TestInv'
<1>1. /\ ProgramTypes /\ SequenceInv /\ CursorInv /\ TimeInv /\ FpgaTypes /\ FpgaInv /\ SeenInv
      /\ OneEnd /\ ReportedWhereRead /\ HeldLongEnough
  BY DEF TestInv
<1>2. /\ execute("write") /\ wr' = NextRow(wr) /\ (dimm_done' <=> NextRow(wr)[2] = NUM_BANKS)
      /\ dimm_done' \in BOOLEAN
      /\ i' = i + 1
      /\ pc' = IF dimm_done' \/ i' = group_size THEN "turn_read" ELSE "write"
      /\ clock' = clock + row_ms
      /\ UNCHANGED <<retention, rd, t0, row_ms, seen>>
  BY DEF WriteRow
<1>3. /\ pc = "write" /\ fpga.iseq = << >> /\ Target \in Seq(Word) /\ fpga'.iseq = Target
      /\ fpga'.bus = fpga.bus /\ fpga'.out = fpga.out /\ fpga'.dram = fpga.dram
      /\ SequenceInv' /\ FpgaTypes' /\ OneEnd'
  BY <1>1, <1>2, Executing
<1>4. wr \in Row /\ rd \in Cursor /\ i \in Nat /\ clock \in Nat /\ row_ms \in Nat /\ t0 \in Nat
  BY <1>1, <1>3, CursorsAreRows DEF ProgramTypes
<1>5. NextRow(wr) \in Cursor /\ D(wr') = D(wr) + 1 /\ D(rd) \in Nat /\ D(wr) \in Nat
  BY <1>2, <1>4, NextRowNumber, RowType, CursorType
<1>6. i < group_size /\ D(wr) = D(rd) + i /\ clock = t0 + i * row_ms /\ ~dimm_done
      /\ retention > 0
  BY <1>1, <1>3 DEF CursorInv, TimeInv, ProgramTypes
<1>7. group_size \in Nat /\ group_size' = group_size
  BY <1>1, <1>2, <1>6, GroupSize DEF ProgramTypes, group_size
<1>8. ProgramTypes'
  <2>1. i' \in Nat /\ clock' \in Nat /\ pc' \in {"turn_read", "write"}
    BY <1>2, <1>4
  <2>2. QED BY <1>1, <1>2, <1>4, <1>5, <1>6, <2>1 DEF ProgramTypes, Pcs
<1>9. D(wr') = D(rd') + i' /\ D(rd') = D(rd)
  BY <1>2, <1>4, <1>5, <1>6
<1>10. Group = D(rd) /\ Group' = D(rd)
  <2>1. Group = D(rd) - 0
    BY <1>3 DEF Group, Reading
  <2>2. pc' # "read" /\ pc' # "recv"
    BY <1>2
  <2>3. Group' = D(rd) - 0
    BY <1>2, <2>2 DEF Group, Reading, D
  <2>4. QED BY <1>5, <2>1, <2>3
<1>11. CursorInv'
  <2>1. dimm_done' <=> wr'[2] = NUM_BANKS
    BY <1>2
  <2>2. CASE dimm_done' \/ i' = group_size
    <3>1. pc' = "turn_read"
      BY <1>2, <2>2
    <3>2. D(rd') < D(wr') /\ D(wr') <= D(rd) + group_size
          /\ (i' = group_size => D(wr') = D(rd) + group_size) /\ D(rd) >= 0
      BY <1>2, <1>4, <1>5, <1>6, <1>7, <1>9
    <3>3. dimm_done' \/ D(wr') = D(rd) + group_size
      BY <2>2, <3>2
    <3>4. /\ Group' >= 0 /\ D(rd') < D(wr') /\ D(wr') <= Group' + group_size'
          /\ dimm_done' \/ D(wr') = Group' + group_size'
      BY <1>7, <1>10, <3>2, <3>3
    <3>5. QED BY <1>9, <2>1, <3>1, <3>4 DEF CursorInv, Before, D
  <2>3. CASE ~(dimm_done' \/ i' = group_size)
    <3>1. pc' = "write" /\ ~dimm_done'
      BY <1>2, <2>3
    <3>2. i' < group_size'
      BY <1>2, <1>4, <1>6, <1>7, <2>3
    <3>3. QED BY <1>9, <2>1, <3>1, <3>2 DEF CursorInv, Before, Reading, D
  <2>4. QED BY <2>2, <2>3
<1>12. TimeInv'
  <2>1. clock' = t0 + (i + 1) * row_ms
    <3>1. (i + 1) * row_ms = i * row_ms + row_ms /\ i * row_ms \in Int
      BY <1>4
    <3>2. QED BY <1>2, <1>4, <1>6, <3>1
  <2>2. ~Reading'
    BY <1>2 DEF Reading
  <2>3. QED BY <1>2, <2>1, <2>2 DEF TimeInv
<1>13. \A d \in Row : Group <= D(d) /\ D(d) < D(wr) => Stored(d, NUM_BURSTS)
  <2>1. CASE i = 0
    <3>1. ASSUME NEW d \in Row PROVE ~(Group <= D(d) /\ D(d) < D(wr))
      <4>1. D(d) \in Nat
        BY RowType, CursorType
      <4>2. QED BY <1>5, <1>6, <1>10, <2>1, <4>1
    <3>2. QED BY <3>1
  <2>2. CASE i > 0
    <3>1. PICK c \in Row, p \in 0 .. 2 * NUM_BURSTS + 8, n \in 0 .. NUM_BURSTS :
            /\ NextRow(c) = wr /\ RowAt("WR", c, p) /\ Upto(p, n) /\ fpga.bus = "WRITE"
            /\ Stored(c, n)
            /\ \A d \in Row : Group <= D(d) /\ D(d) < D(c) => Stored(d, NUM_BURSTS)
      BY <1>1, <1>3, <2>2 DEF FpgaInv, WriteRunning
    <3>2. n = NUM_BURSTS
      BY <1>3, <3>1, WholeRow
    <3>3. Complete
      BY <3>1, <3>2, AllStored
    <3>4. QED BY <3>3 DEF Complete
  <2>3. QED BY <1>4, <2>1, <2>2
<1>14. fpga.bus = "WRITE"
  <2>1. CASE i = 0
    <3>1. PICK p \in 0 .. 3 : BusAt("WRITE", p)
      BY <1>1, <1>3, <2>1 DEF FpgaInv
    <3>2. BusSequence("WRITE") \in Seq(Word) /\ Len(BusSequence("WRITE")) = 3
      BY BusWords DEF Directions
    <3>3. From(BusSequence("WRITE"), p) = << >>
      BY <1>3, <3>1 DEF BusAt
    <3>4. p = 3
      BY <3>1, <3>2, <3>3, FromProperties
    <3>5. QED BY <3>1, <3>4 DEF BusAt
  <2>2. CASE i > 0
    BY <1>1, <1>3, <2>2 DEF FpgaInv, WriteRunning
  <2>3. QED BY <1>4, <2>1, <2>2
<1>15. WriteRunning'
  <2>1. Target = RowSequence("WR", wr)
    BY <1>3 DEF Target
  <2>2. From(Target, 0) = Target /\ 0 \in 0 .. Len(Target)
    BY <1>3, StartAt
  <2>3. PICK c \in Row : c = wr
    BY <1>4
  <2>4. RowAt("WR", c, 0)'
    BY <1>3, <2>1, <2>2, <2>3 DEF RowAt
  <2>5. Upto(0, 0)' /\ Upto(0, 0)
    BY TestAssumption DEF Upto
  <2>6. Stored(c, 0)'
    BY DEF Stored
  <2>7. ASSUME NEW d \in Row, (Group <= D(d))', (D(d) < D(c))' PROVE Stored(d, NUM_BURSTS)'
    <3>1. Group <= D(d) /\ D(d) < D(wr)
      BY <1>10, <2>3, <2>7 DEF D
    <3>2. Stored(d, NUM_BURSTS)
      BY <1>13, <3>1
    <3>3. QED BY <1>2, <1>3, <1>10, <3>2, StoredKept
  <2>8. (NextRow(c) = wr)'
    BY <1>2, <2>3 DEF NextRow
  <2>9. (fpga.bus = "WRITE")'
    BY <1>3, <1>14
  <2>10. 0 \in 0 .. 2 * NUM_BURSTS + 8 /\ 0 \in 0 .. NUM_BURSTS
    BY TestAssumption
  <2>11. \A d \in Row : (Group <= D(d) /\ D(d) < D(c) => Stored(d, NUM_BURSTS))'
    BY <2>7
  <2>12. QED BY <2>4, <2>5, <2>6, <2>8, <2>9, <2>10, <2>11 DEF WriteRunning
<1>16. FpgaInv'
  <2>1. fpga'.out = << >>
    BY <1>1, <1>3 DEF FpgaInv
  <2>2. i' # 0
    BY <1>2, <1>4
  <2>3. pc' \in {"turn_read", "write"}
    BY <1>2
  <2>4. QED BY <1>15, <2>1, <2>2, <2>3 DEF FpgaInv, Before
<1>17. SeenInv' /\ ReportedWhereRead' /\ HeldLongEnough'
  BY <1>1, <1>2, <1>3, SeenKept, SeenFacts
<1>18. QED BY <1>3, <1>8, <1>11, <1>12, <1>16, <1>17 DEF TestInv

LEMMA WaitKeeps ==
  ASSUME TestInv, WaitRetention
  PROVE  TestInv'
<1>1. /\ ProgramTypes /\ SequenceInv /\ CursorInv /\ TimeInv /\ FpgaTypes /\ FpgaInv /\ SeenInv
      /\ OneEnd /\ ReportedWhereRead /\ HeldLongEnough
  BY DEF TestInv
<1>2. /\ pc = "wait" /\ fpga.iseq = << >>
      /\ UNCHANGED <<retention, wr, rd, i, dimm_done, t0, row_ms, fpga, seen>>
      /\ UNCHANGED sequence
      /\ \/ pc' = "wait" /\ clock' = clock + 1
         \/ pc' = "read" /\ clock' = clock /\ ~(clock - t0 < retention)
  BY DEF WaitRetention, cursors
<1>3. /\ i = 0 /\ clock \in Nat /\ t0 \in Nat /\ retention \in Int /\ row_ms \in Nat
      /\ D(rd) \in Nat
  BY <1>1, <1>2, CursorType DEF CursorInv, ProgramTypes
<1>4. ProgramTypes'
  <2>1. clock' \in Nat
    BY <1>2, <1>3
  <2>2. QED BY <1>1, <1>2, <2>1 DEF ProgramTypes, Pcs
<1>5. SequenceInv'
  BY <1>1, <1>2, Idle
<1>6. Group = D(rd) /\ Group' = Group
  <2>1. Group = D(rd) - 0
    BY <1>2 DEF Group, Reading
  <2>2. Group' = D(rd) - 0
    <3>1. CASE pc' = "wait"
      BY <1>2, <3>1 DEF Group, Reading, D
    <3>2. CASE pc' = "read"
      BY <1>2, <1>3, <3>2 DEF Group, Reading, D
    <3>3. QED BY <1>2, <3>1, <3>2
  <2>3. QED BY <1>3, <2>1, <2>2
<1>7. CursorInv'
  <2>1. /\ Group >= 0 /\ D(rd) < D(wr) /\ D(wr) <= Group + group_size
        /\ dimm_done \/ D(wr) = Group + group_size
        /\ dimm_done <=> wr[2] = NUM_BANKS
    BY <1>1, <1>2 DEF CursorInv
  <2>2. group_size' = group_size /\ D(rd)' = D(rd) /\ D(wr)' = D(wr)
    BY <1>2 DEF group_size, D
  <2>3. QED BY <1>2, <1>3, <1>6, <2>1, <2>2 DEF CursorInv, Before
<1>8. TimeInv'
  <2>1. CASE pc' = "wait"
    BY <2>1 DEF TimeInv, Reading
  <2>2. CASE pc' = "read" /\ clock' = clock /\ ~(clock - t0 < retention)
    <3>1. 0 * row_ms = 0
      BY <1>3
    <3>2. clock >= t0 + retention + 0 * row_ms
      BY <1>3, <2>2, <3>1
    <3>3. QED BY <1>2, <1>3, <2>2, <3>2 DEF TimeInv
  <2>3. QED BY <1>2, <2>1, <2>2
<1>9. FpgaTypes' /\ OneEnd'
  BY <1>1, <1>2 DEF FpgaTypes, OneEnd
<1>10. FpgaInv'
  <2>1. PICK p \in 0 .. 3 : BusAt("READ", p)
    BY <1>1, <1>2 DEF FpgaInv
  <2>2. (\E k \in 0 .. 3 : BusAt("READ", k))'
    BY <1>2, <2>1 DEF BusAt
  <2>3. fpga.bus = "READ"
    <3>1. BusSequence("READ") \in Seq(Word) /\ Len(BusSequence("READ")) = 3
      BY BusWords DEF Directions
    <3>2. From(BusSequence("READ"), p) = << >>
      BY <1>2, <2>1 DEF BusAt
    <3>3. p = 3
      BY <2>1, <3>1, <3>2, FromProperties
    <3>4. QED BY <2>1, <3>3 DEF BusAt
  <2>4. Complete'
    BY <1>1, <1>2, <1>6, CompleteKept DEF FpgaInv
  <2>5. Harmless(fpga.iseq)'
    BY <1>2 DEF Harmless
  <2>6. fpga'.bus = "READ" /\ fpga'.out = << >>
    BY <1>1, <1>2, <2>3 DEF FpgaInv
  <2>7. QED BY <1>2, <2>2, <2>4, <2>5, <2>6 DEF FpgaInv, Before
<1>11. SeenInv' /\ ReportedWhereRead' /\ HeldLongEnough'
  BY <1>1, <1>2, SeenKept, SeenFacts
<1>12. QED BY <1>4, <1>5, <1>7, <1>8, <1>9, <1>10, <1>11 DEF TestInv

LEMMA ReadRowKeeps ==
  ASSUME TestInv, ReadRow
  PROVE  TestInv'
<1>1. /\ ProgramTypes /\ SequenceInv /\ CursorInv /\ TimeInv /\ FpgaTypes /\ FpgaInv /\ SeenInv
      /\ OneEnd /\ ReportedWhereRead /\ HeldLongEnough
  BY DEF TestInv
<1>2. /\ execute("read") /\ pc' = "recv"
      /\ UNCHANGED <<retention, wr, rd, i, dimm_done, t0, clock, row_ms, seen>>
  BY DEF ReadRow, cursors, time
<1>3. /\ pc = "read" /\ fpga.iseq = << >> /\ Target \in Seq(Word) /\ fpga'.iseq = Target
      /\ fpga'.bus = fpga.bus /\ fpga'.out = fpga.out /\ fpga'.dram = fpga.dram
      /\ SequenceInv' /\ FpgaTypes' /\ OneEnd'
  BY <1>1, <1>2, Executing
<1>4. ProgramTypes'
  BY <1>1, <1>2, <1>3 DEF ProgramTypes, Pcs
<1>5. Group' = Group /\ Reading /\ Reading'
  BY <1>2, <1>3 DEF Group, Reading, D
<1>6. CursorInv'
  <2>1. /\ Group >= 0 /\ D(rd) < D(wr) /\ D(wr) <= Group + group_size
        /\ dimm_done \/ D(wr) = Group + group_size
        /\ dimm_done <=> wr[2] = NUM_BANKS
    BY <1>1, <1>5 DEF CursorInv
  <2>2. group_size' = group_size /\ D(rd)' = D(rd) /\ D(wr)' = D(wr)
    BY <1>2 DEF group_size, D
  <2>3. QED BY <1>2, <1>5, <2>1, <2>2 DEF CursorInv, Before
<1>7. TimeInv'
  BY <1>1, <1>2, <1>5 DEF TimeInv
<1>8. Complete /\ fpga.bus = "READ" /\ fpga.out = << >>
  BY <1>1, <1>3 DEF FpgaInv
<1>9. NextColumn = 1 /\ NextColumn' = 1
  BY <1>1, <1>2, <1>3, NextColumnFirst, NextColumnKept
<1>10. ReadRunning'
  <2>1. Target = RowSequence("RD", rd)
    BY <1>3 DEF Target
  <2>2. From(Target, 0) = Target /\ 0 \in 0 .. Len(Target)
    BY <1>3, StartAt
  <2>3. RowAt("RD", rd, 0)'
    <3>1. PICK c \in Row : c = rd
      BY <1>1, <1>3, CursorsAreRows
    <3>2. RowAt("RD", c, 0)'
      BY <1>3, <2>1, <2>2, <3>1 DEF RowAt
    <3>3. QED BY <1>2, <3>1, <3>2 DEF RowAt
  <2>4. Upto(0, 0)' /\ Upto(0, 0)
    BY TestAssumption DEF Upto
  <2>5. Len(fpga'.out) = 0
    BY <1>3, <1>8
  <2>6. 0 = NextColumn' - 1 + Len(fpga'.out)
    BY <1>9, <2>5
  <2>7. 0 \in 0 .. 2 * NUM_BURSTS + 8 /\ 0 \in 0 .. NUM_BURSTS
    BY TestAssumption
  <2>8. \A k \in 1 .. Len(fpga'.out) :
          LET burst == Burst(rd'[2], rd'[1], NextColumn' - 1 + k)
          IN  fpga'.out[k] = [burst |-> burst, written |-> fpga'.dram[burst]]
    BY <2>5
  <2>9. QED BY <2>3, <2>4, <2>6, <2>7, <2>8 DEF ReadRunning, Burst
<1>11. FpgaInv'
  <2>1. Complete'
    BY <1>2, <1>3, <1>5, <1>8, CompleteKept
  <2>2. fpga'.bus = "READ"
    BY <1>3, <1>8
  <2>3. QED BY <1>2, <1>10, <2>1, <2>2 DEF FpgaInv, Before
<1>12. SeenInv' /\ ReportedWhereRead' /\ HeldLongEnough'
  BY <1>1, <1>2, <1>3, SeenKept, SeenFacts
<1>13. QED BY <1>3, <1>4, <1>6, <1>7, <1>11, <1>12 DEF TestInv

SeenType == [row : Row, col : 1 .. NUM_BURSTS, burst : Bursts, written : Int, held : Int]

\* The burst received is that of the next column of the row, and was held long enough.
LEMMA RecvBurst ==
  ASSUME TestInv, Recv
  PROVE  LET b == Burst(rd[2], rd[1], NextColumn)
             e == [row |-> rd, col |-> NextColumn, burst |-> b, written |-> fpga.dram[b],
                   held |-> clock - fpga.dram[b]]
         IN  /\ pc = "recv" /\ rd \in Row /\ NextColumn \in 1 .. NUM_BURSTS
             /\ e \in SeenType /\ seen' = Append(seen, e)
             /\ e.row = rd /\ e.col = NextColumn
             /\ e.burst = b /\ e.written # Never /\ e.held >= retention - row_ms
             /\ fpga.out # << >>
             /\ fpga' = [held |-> fpga.held, iseq |-> fpga.iseq, bus |-> fpga.bus,
                         open |-> fpga.open, out |-> Tail(fpga.out), dram |-> fpga.dram]
<1> DEFINE b == Burst(rd[2], rd[1], NextColumn)
           e == [row |-> rd, col |-> NextColumn, burst |-> b, written |-> fpga.dram[b],
                 held |-> clock - fpga.dram[b]]
           got == Head(fpga.out)
           S == [burst : Bursts, written : Int]
<1>1. /\ ProgramTypes /\ CursorInv /\ TimeInv /\ FpgaTypes /\ SeenInv
  BY DEF TestInv
<1>2. /\ pc = "recv" /\ fpga.out # << >> /\ fpga' = [fpga EXCEPT !.out = Tail(@)]
      /\ seen' = Append(seen, [row |-> rd, col |-> NextColumn, burst |-> got.burst,
                               written |-> got.written, held |-> clock - got.written])
  BY DEF Recv
<1>3. Complete /\ ReadRunning
  BY <1>2 DEF TestInv, FpgaInv
<1>4. PICK p \in 0 .. 2 * NUM_BURSTS + 8, n \in 0 .. NUM_BURSTS :
        /\ n = NextColumn - 1 + Len(fpga.out)
        /\ \A k \in 1 .. Len(fpga.out) :
             fpga.out[k] = [burst |-> Burst(rd[2], rd[1], NextColumn - 1 + k),
                            written |-> fpga.dram[Burst(rd[2], rd[1], NextColumn - 1 + k)]]
  BY <1>3 DEF ReadRunning
<1>5. rd \in Row /\ NextColumn \in Nat \ {0} /\ NUM_BURSTS \in Nat /\ fpga.out \in Seq(S)
  BY <1>1, <1>2, CursorsAreRows, NextColumnType, TestAssumption DEF FpgaTypes
<1>6. Len(fpga.out) \in Nat /\ Len(fpga.out) > 0 /\ Head(fpga.out) = fpga.out[1]
  BY <1>2, <1>5, EmptySeq, LenProperties
<1>7. NextColumn \in 1 .. NUM_BURSTS
  <2> DEFINE l == Len(fpga.out)
             c == NextColumn
  <2>1. n \in 0 .. NUM_BURSTS /\ n = c - 1 + l
    BY <1>4
  <2>2. c \in Nat /\ c > 0 /\ l \in Nat /\ l > 0
    BY <1>5, <1>6
  <2> HIDE DEF l, c
  <2>3. c \in 1 .. NUM_BURSTS
    BY <1>5, <2>1, <2>2
  <2>4. QED BY <2>3 DEF c
<1>8. got = [burst |-> b, written |-> fpga.dram[b]]
  <2>1. 1 \in 1 .. Len(fpga.out) /\ NextColumn - 1 + 1 = NextColumn
    BY <1>5, <1>6
  <2>2. QED BY <1>4, <1>6, <2>1
<1>9. b \in Bursts /\ fpga.dram[b] \in Int /\ clock \in Nat /\ retention \in Int
      /\ row_ms \in Nat /\ t0 \in Nat /\ i \in Nat
  BY <1>1, <1>5, <1>7, BurstType DEF FpgaTypes, ProgramTypes
<1>10. seen' = Append(seen, e)
  BY <1>2, <1>8
<1>11. fpga.dram[b] # Never /\ fpga.dram[b] <= t0 + (i + 1) * row_ms
  <2>1. Group = D(rd) - i /\ D(rd) < D(wr) /\ D(rd) \in Nat
    BY <1>1, <1>2, <1>5, RowType, CursorType DEF CursorInv, Group, Reading
  <2>2. Group <= D(rd) /\ D(rd) - Group + 1 = i + 1
    BY <1>9, <2>1
  <2>3. Stored(rd, NUM_BURSTS)
    BY <1>3, <1>5, <2>1, <2>2 DEF Complete
  <2>4. fpga.dram[b] # Never /\ fpga.dram[b] <= t0 + (D(rd) - Group + 1) * row_ms
    BY <1>7, <2>3 DEF Stored
  <2>5. QED BY <2>2, <2>4
<1>12. clock - fpga.dram[b] >= retention - row_ms
  <2> DEFINE x == i * row_ms
             y == fpga.dram[b]
  <2>1. clock >= t0 + retention + x
    BY <1>1, <1>2 DEF TimeInv, Reading
  <2>2. (i + 1) * row_ms = x + row_ms /\ x \in Int
    BY <1>9
  <2>3. y <= t0 + (x + row_ms) /\ y \in Int
    BY <1>9, <1>11, <2>2
  <2> HIDE DEF x, y
  <2>4. clock - y >= retention - row_ms
    BY <1>9, <2>1, <2>2, <2>3
  <2>5. QED BY <2>4 DEF y
<1>13. e \in SeenType
  BY <1>5, <1>7, <1>9 DEF SeenType
<1>14. fpga' = [held |-> fpga.held, iseq |-> fpga.iseq, bus |-> fpga.bus, open |-> fpga.open,
                out |-> Tail(fpga.out), dram |-> fpga.dram]
  <2>1. fpga = Fpga(fpga)
    BY <1>1 DEF FpgaTypes, Fpga
  <2>2. QED BY <1>2, <2>1 DEF Fpga
<1>15. e.row = rd /\ e.col = NextColumn /\ e.burst = b /\ e.written = fpga.dram[b]
       /\ e.held = clock - fpga.dram[b]
  OBVIOUS
<1> HIDE DEF e, b
<1>16. /\ pc = "recv" /\ rd \in Row /\ NextColumn \in 1 .. NUM_BURSTS
       /\ e \in SeenType /\ seen' = Append(seen, e)
       /\ e.row = rd /\ e.col = NextColumn
       /\ e.burst = b /\ e.written # Never /\ e.held >= retention - row_ms
       /\ fpga.out # << >>
  BY <1>2, <1>5, <1>7, <1>10, <1>11, <1>12, <1>13, <1>15
<1>17. QED BY <1>14, <1>16 DEF e, b

\* What does not depend on the column.
LEMMA RecvCommon ==
  ASSUME TestInv, Recv
  PROVE  /\ SequenceInv' /\ FpgaTypes' /\ OneEnd' /\ ReportedWhereRead' /\ HeldLongEnough'
         /\ seen' \in Seq(SeenType) /\ Len(seen') = Len(seen) + 1 /\ Len(seen) \in Nat
         /\ \A k \in 1 .. Len(seen) : seen'[k] = seen[k]
         /\ seen'[Len(seen) + 1].row = rd /\ seen'[Len(seen) + 1].col = NextColumn
<1>1. PICK e \in SeenType :
        /\ seen' = Append(seen, e) /\ e.row = rd /\ e.col = NextColumn
        /\ e.burst = Burst(rd[2], rd[1], NextColumn) /\ e.written # Never
        /\ e.held >= retention - row_ms
  BY RecvBurst
<1>2. seen \in Seq(SeenType)
  BY DEF TestInv, SeenInv, SeenType
<1>3. /\ Len(seen) \in Nat /\ seen' \in Seq(SeenType) /\ Len(seen') = Len(seen) + 1
      /\ \A k \in 1 .. Len(seen) : seen'[k] = seen[k]
      /\ seen'[Len(seen) + 1] = e
  BY <1>1, <1>2, AppendProperties, LenProperties
<1>4. UNCHANGED <<retention, row_ms, sequence>> /\ pc = "recv" /\ fpga.out # << >>
  BY RecvBurst DEF Recv
<1>5. SequenceInv'
  BY <1>4, Idle DEF TestInv
<1>6. ReportedWhereRead'
  <2>1. \A k \in 1 .. Len(seen) :
          seen[k].burst = Burst(seen[k].row[2], seen[k].row[1], seen[k].col)
    BY DEF TestInv, ReportedWhereRead
  <2>2. ASSUME NEW k \in 1 .. Len(seen) + 1
        PROVE  seen'[k].burst = Burst(seen'[k].row[2], seen'[k].row[1], seen'[k].col)
    <3>1. CASE k = Len(seen) + 1
      BY <1>1, <1>3, <3>1
    <3>2. CASE k # Len(seen) + 1
      <4>1. k \in 1 .. Len(seen)
        BY <1>3, <3>2
      <4>2. QED BY <1>3, <2>1, <4>1
    <3>3. QED BY <3>1, <3>2
  <2>3. QED BY <1>3, <2>2 DEF ReportedWhereRead, Burst
<1>7. HeldLongEnough'
  <2>1. \A k \in 1 .. Len(seen) : seen[k].written # Never /\ seen[k].held >= retention - row_ms
    BY DEF TestInv, HeldLongEnough
  <2>2. ASSUME NEW k \in 1 .. Len(seen) + 1
        PROVE  seen'[k].written # Never /\ seen'[k].held >= retention - row_ms
    <3>1. CASE k = Len(seen) + 1
      BY <1>1, <1>3, <3>1
    <3>2. CASE k # Len(seen) + 1
      <4>1. k \in 1 .. Len(seen)
        BY <1>3, <3>2
      <4>2. QED BY <1>3, <2>1, <4>1
    <3>3. QED BY <3>1, <3>2
  <2>3. QED BY <1>3, <1>4, <2>2 DEF HeldLongEnough
<1>8. FpgaTypes' /\ OneEnd'
  <2> DEFINE t == Tail(fpga.out)
  <2>1. fpga' = [held |-> fpga.held, iseq |-> fpga.iseq, bus |-> fpga.bus, open |-> fpga.open,
                 out |-> t, dram |-> fpga.dram]
    BY RecvBurst
  <2>2. FpgaTypes /\ OneEnd
    BY DEF TestInv
  <2>3. t \in Seq([burst : Bursts, written : Int])
    BY <1>4, <2>2, HeadTailProperties DEF FpgaTypes
  <2> HIDE DEF t
  <2>4. FpgaTypes'
    BY <2>1, <2>2, <2>3 DEF FpgaTypes
  <2>5. OneEnd'
    BY <2>1, <2>2 DEF OneEnd
  <2>6. QED BY <2>4, <2>5
<1>9. QED BY <1>1, <1>3, <1>5, <1>6, <1>7, <1>8

\* After any burst but the last of a row.
LEMMA RecvMoreKeeps ==
  ASSUME TestInv, Recv, NextColumn # NUM_BURSTS
  PROVE  TestInv'
<1> DEFINE col == NextColumn
           n == Len(seen)
<1>1. /\ ProgramTypes /\ SequenceInv /\ CursorInv /\ TimeInv /\ FpgaTypes /\ FpgaInv /\ SeenInv
      /\ OneEnd /\ ReportedWhereRead /\ HeldLongEnough
  BY DEF TestInv
<1>2. /\ UNCHANGED <<pc, retention, wr, rd, i, dimm_done, t0, clock, row_ms>>
  BY DEF Recv, LastColumn
<1>3. /\ SequenceInv' /\ FpgaTypes' /\ OneEnd' /\ ReportedWhereRead' /\ HeldLongEnough'
      /\ seen' \in Seq(SeenType) /\ Len(seen') = n + 1 /\ n \in Nat
      /\ \A k \in 1 .. n : seen'[k] = seen[k]
      /\ seen'[n + 1].row = rd /\ seen'[n + 1].col = col
  BY RecvCommon
<1>4. /\ pc = "recv" /\ rd \in Row /\ col \in 1 .. NUM_BURSTS /\ fpga.out # << >>
      /\ fpga' = [held |-> fpga.held, iseq |-> fpga.iseq, bus |-> fpga.bus,
                  open |-> fpga.open, out |-> Tail(fpga.out), dram |-> fpga.dram]
  BY RecvBurst
<1>5. col \in Nat /\ col > 0 /\ col < NUM_BURSTS /\ NUM_BURSTS \in Nat
  BY <1>4, TestAssumption
<1>6. NextColumn' = col + 1
  <2>1. seen' # << >> /\ Len(seen') = n + 1
    BY <1>3
  <2>2. seen'[Len(seen')].row = rd' /\ seen'[Len(seen')].col = col
    BY <1>2, <1>3
  <2>3. QED BY <2>1, <2>2 DEF NextColumn
<1>7. Group' = Group /\ D(rd)' = D(rd)
  BY <1>2, GroupKept DEF D
<1>8. ProgramTypes' /\ CursorInv' /\ TimeInv'
  BY <1>1, <1>2, <1>7 DEF ProgramTypes, CursorInv, TimeInv, Reading, D, group_size
<1>9. FpgaInv'
  <2>1. Complete /\ ReadRunning /\ fpga.bus = "READ"
    BY <1>1, <1>4 DEF FpgaInv
  <2>2. PICK p \in 0 .. 2 * NUM_BURSTS + 8, m \in 0 .. NUM_BURSTS :
          /\ RowAt("RD", rd, p) /\ Upto(p, m)
          /\ m = col - 1 + Len(fpga.out)
          /\ \A k \in 1 .. Len(fpga.out) :
               fpga.out[k] = [burst |-> Burst(rd[2], rd[1], col - 1 + k),
                              written |-> fpga.dram[Burst(rd[2], rd[1], col - 1 + k)]]
    BY <2>1 DEF ReadRunning
  <2>3. /\ fpga'.iseq = fpga.iseq /\ fpga'.open = fpga.open /\ fpga'.bus = fpga.bus
        /\ fpga'.dram = fpga.dram /\ fpga'.out = Tail(fpga.out)
    BY <1>4
  <2>4. fpga.out \in Seq([burst : Bursts, written : Int])
    BY <1>1 DEF FpgaTypes
  <2>5. /\ Len(fpga.out) \in Nat /\ Len(fpga'.out) = Len(fpga.out) - 1
        /\ \A k \in 1 .. Len(fpga'.out) : fpga'.out[k] = fpga.out[k + 1]
    BY <1>4, <2>3, <2>4, HeadTailProperties, LenProperties
  <2>6. m = NextColumn' - 1 + Len(fpga'.out)
    BY <1>5, <1>6, <2>2, <2>5
  <2>7. ASSUME NEW k \in 1 .. Len(fpga'.out)
        PROVE  LET burst == Burst(rd'[2], rd'[1], NextColumn' - 1 + k)
               IN  fpga'.out[k] = [burst |-> burst, written |-> fpga'.dram[burst]]
    <3> DEFINE b == Burst(rd[2], rd[1], col - 1 + (k + 1))
    <3>1. k + 1 \in 1 .. Len(fpga.out) /\ NextColumn' - 1 + k = col - 1 + (k + 1)
      BY <1>5, <1>6, <2>5
    <3>2. fpga.out[k + 1] = [burst |-> b, written |-> fpga.dram[b]]
      BY <2>2, <3>1
    <3>3. Burst(rd'[2], rd'[1], NextColumn' - 1 + k) = b
      BY <1>2, <3>1
    <3> HIDE DEF b
    <3>4. fpga'.out[k] = [burst |-> b, written |-> fpga'.dram[b]]
      BY <2>3, <2>5, <3>2
    <3>5. QED BY <3>3, <3>4
  <2>8. RowAt("RD", rd, p)' /\ Upto(p, m)'
    <3>1. PICK c \in Row : c = rd
      BY <1>4
    <3>2. RowAt("RD", c, p)'
      BY <2>2, <2>3, <3>1 DEF RowAt
    <3>3. RowAt("RD", rd, p)'
      BY <1>2, <3>1, <3>2 DEF RowAt
    <3>4. QED BY <2>2, <3>3 DEF Upto
  <2>9. p \in 0 .. 2 * NUM_BURSTS + 8 /\ m \in 0 .. NUM_BURSTS
    BY <2>2
  <2>10. ReadRunning'
    BY <2>6, <2>7, <2>8, <2>9 DEF ReadRunning, Burst
  <2>11. Complete'
    BY <1>2, <1>7, <2>1, <2>3, CompleteKept
  <2>12. QED BY <1>2, <1>4, <2>1, <2>3, <2>10, <2>11 DEF FpgaInv, Before
<1>10. SeenInv'
  <2>1. ASSUME NEW k \in 1 .. n + 1 PROVE SeenRow(seen[k])'
    <3>1. seen'[k].row \in Row /\ seen'[k].col \in 1 .. NUM_BURSTS
      <4>1. k \in 1 .. Len(seen')
        BY <1>3
      <4>2. seen'[k] \in SeenType
        BY <1>3, <4>1, ElementOfSeq
      <4>3. QED BY <4>2 DEF SeenType
    <3>2. D(seen'[k].row) < D(rd) \/ (seen'[k].row = rd /\ seen'[k].col < NUM_BURSTS)
      <4>1. CASE k = n + 1
        BY <1>3, <1>5, <4>1
      <4>2. CASE k # n + 1
        <5>1. k \in 1 .. n
          BY <1>3, <4>2
        <5>2. SeenRow(seen[k])
          BY <1>1, <5>1 DEF SeenInv
        <5>3. seen'[k] = seen[k]
          BY <1>3, <5>1
        <5>4. QED BY <5>2, <5>3 DEF SeenRow
      <4>3. QED BY <4>1, <4>2
    <3>3. QED BY <1>2, <1>4, <3>1, <3>2 DEF SeenRow, D
  <2>2. Len(seen') = D(rd) * NUM_BURSTS + NextColumn' - 1
    <3> DEFINE x == D(rd) * NUM_BURSTS
    <3>1. n = x + col - 1
      BY <1>1 DEF SeenInv
    <3>2. x \in Int
      BY <1>4, <1>5, RowType, CursorType
    <3> HIDE DEF x
    <3>3. Len(seen') = x + (col + 1) - 1
      BY <1>3, <1>5, <3>1, <3>2
    <3>4. QED BY <1>6, <3>3 DEF x
  <2>3. ASSUME NEW c \in Row, NEW j \in 1 .. NUM_BURSTS,
               D(c) < D(rd) \/ (c = rd /\ j < col + 1)
        PROVE  \E k \in 1 .. n + 1 : seen'[k].row = c /\ seen'[k].col = j
    <3>1. CASE D(c) < D(rd) \/ (c = rd /\ j < col)
      <4>1. PICK k \in 1 .. n : seen[k].row = c /\ seen[k].col = j
        BY <1>1, <3>1 DEF SeenInv
      <4>2. k \in 1 .. n + 1 /\ seen'[k] = seen[k]
        BY <1>3, <4>1
      <4>3. QED BY <4>1, <4>2
    <3>2. CASE c = rd /\ ~(j < col)
      <4>1. j = col
        BY <1>5, <2>3, <3>2, RowType, CursorType
      <4>2. n + 1 \in 1 .. n + 1
        BY <1>3
      <4>3. QED BY <1>3, <3>2, <4>1, <4>2
    <3>3. QED BY <2>3, <3>1, <3>2
  <2>4. seen' \in Seq([row : Row, col : 1 .. NUM_BURSTS, burst : Bursts, written : Int,
                       held : Int])
    BY <1>3 DEF SeenType
  <2>5. rd' = rd /\ D(rd)' = D(rd)
    BY <1>2, <1>7
  <2>6. \A k \in 1 .. Len(seen') : SeenRow(seen[k])'
    BY <1>3, <2>1
  <2>7. \A c \in Row, j \in 1 .. NUM_BURSTS :
          D(c) < D(rd) \/ (c = rd' /\ j < NextColumn') =>
            \E k \in 1 .. Len(seen') : seen'[k].row = c /\ seen'[k].col = j
    BY <1>3, <1>6, <2>3, <2>5
  <2>8. QED BY <2>2, <2>4, <2>5, <2>6, <2>7 DEF SeenInv, D
<1>11. QED BY <1>3, <1>8, <1>9, <1>10 DEF TestInv

\* After a row's last burst the cursors of the group meet, or there is another row.
LEMMA RowDone ==
  ASSUME ProgramTypes, CursorInv, pc = "recv"
  PROVE  /\ NextRow(rd) \in Cursor /\ D(NextRow(rd)) = D(rd) + 1
         /\ AfterRow = "read" => D(NextRow(rd)) < D(wr)
         /\ AfterRow # "read" => wr = NextRow(rd)
<1> DEFINE nx == NextRow(rd)
           a == D(rd)
           b == D(wr)
           z == D(nx)
           g == group_size
<1>1. rd \in Row /\ wr \in Cursor /\ i \in Nat /\ a \in Nat /\ b \in Nat
  BY CursorsAreRows, CursorType DEF ProgramTypes
<1>2. nx \in Cursor /\ z = a + 1
  BY <1>1, NextRowNumber
<1>3. Group = a - i
  BY DEF Group, Reading
<1>4. /\ Group >= 0 /\ a < b /\ b <= Group + g
      /\ dimm_done \/ b = Group + g
      /\ dimm_done <=> wr[2] = NUM_BANKS
  BY DEF CursorInv, Reading
<1>5. g \in Nat
  BY GroupSize DEF ProgramTypes
<1>6. wr[2] = NUM_BANKS /\ nx[2] = NUM_BANKS => wr = nx
  BY <1>1, <1>2, CursorType
<1>7. wr[2] = NUM_BANKS => (nx \in Row <=> z < b)
  BY <1>1, <1>2, BehindLast
<1>8. nx[2] = NUM_BANKS => (wr \in Row <=> b < z)
  BY <1>1, <1>2, BehindLast
<1>9. (nx[2] # NUM_BANKS => nx \in Row) /\ (wr[2] # NUM_BANKS => wr \in Row)
  BY <1>1, <1>2, CursorType
<1>10. z = b => nx = wr
  BY <1>1, <1>2, RowNumber
<1>11. AfterRow = "read" <=> (i + 1 < g /\ nx[2] # NUM_BANKS)
  BY DEF AfterRow
<1> HIDE DEF a, b, z, g, nx
<1>12. ASSUME i + 1 < g, nx[2] # NUM_BANKS PROVE z < b
  <2>1. CASE wr[2] = NUM_BANKS
    BY <1>7, <1>9, <1>12, <2>1
  <2>2. CASE wr[2] # NUM_BANKS
    <3>1. b = a - i + g
      BY <1>3, <1>4, <2>2
    <3>2. QED BY <1>1, <1>2, <1>5, <1>12, <3>1
  <2>3. QED BY <2>1, <2>2
<1>13. ASSUME ~(i + 1 < g) PROVE wr = nx
  <2>1. b <= a - i + g /\ a < b
    BY <1>3, <1>4
  <2>2. z = b
    BY <1>1, <1>2, <1>5, <1>13, <2>1
  <2>3. QED BY <1>10, <2>2
<1>14. ASSUME nx[2] = NUM_BANKS PROVE wr = nx
  <2>1. ~(b < z)
    BY <1>1, <1>2, <1>4
  <2>2. wr[2] = NUM_BANKS
    BY <1>8, <1>9, <1>14, <2>1
  <2>3. QED BY <1>6, <1>14, <2>2
<1>15. QED BY <1>2, <1>11, <1>12, <1>13, <1>14 DEF nx, a, b, z

\* When the last burst of a row has come, what is left of its sequence is harmless.
LEMMA RowOver ==
  ASSUME TestInv, Recv, NextColumn = NUM_BURSTS
  PROVE  Harmless(fpga.iseq) /\ Tail(fpga.out) = << >>
<1> DEFINE r == RowSequence("RD", rd)
           N == NUM_BURSTS
<1>1. rd \in Row /\ fpga.out # << >> /\ pc = "recv"
  BY RecvBurst
<1>2. PICK p \in 0 .. 2 * NUM_BURSTS + 8, n \in 0 .. NUM_BURSTS :
        RowAt("RD", rd, p) /\ Upto(p, n) /\ n = NUM_BURSTS - 1 + Len(fpga.out)
  BY <1>1 DEF TestInv, FpgaInv, ReadRunning
<1>3. N \in Nat /\ N > 0 /\ n \in 0 .. N /\ p \in Nat /\ n = N - 1 + Len(fpga.out)
  BY <1>2, TestAssumption
<1>4. fpga.out \in Seq([burst : Bursts, written : Int])
  BY DEF TestInv, FpgaTypes
<1>5. Len(fpga.out) \in Nat /\ Len(fpga.out) > 0
  BY <1>1, <1>4, EmptySeq, LenProperties
<1>6. 2 * N + 3 <= p <=> N <= n
  <2>1. N \in 1 .. N
    BY <1>3
  <2>2. QED BY <1>2, <2>1 DEF Upto
<1> HIDE DEF N
<1>7. n = N /\ Len(fpga.out) = 1 /\ 2 * N + 3 <= p
  <2> DEFINE l == Len(fpga.out)
  <2>1. n \in Int /\ n <= N /\ n = N - 1 + l /\ l \in Nat /\ l > 0
    BY <1>3, <1>5
  <2> HIDE DEF l
  <2>2. n = N /\ l = 1
    BY <1>3, <2>1
  <2>3. 2 * N + 3 <= p
    BY <1>3, <1>6, <2>2
  <2>4. QED BY <2>2, <2>3 DEF l
<1>8. Tail(fpga.out) = << >>
  <2>1. Tail(fpga.out) \in Seq([burst : Bursts, written : Int]) /\ Len(Tail(fpga.out)) = 0
    BY <1>1, <1>4, <1>7, HeadTailProperties
  <2>2. QED BY <2>1, EmptySeq
<1>9. Harmless(fpga.iseq)
  <2>0. "RD" \in {"RD", "WR"}
    OBVIOUS
  <2>1. r \in Seq(Word) /\ Len(r) = 2 * N + 8
        /\ \A k \in 2 * N + 4 .. 2 * N + 8 : r[k].op \in {"WAIT", "PRE", "END"}
    BY <1>1, <2>0, RowWords, RowEnds DEF N
  <2>2. fpga.iseq = From(r, p) /\ p \in 0 .. Len(r)
    BY <1>2 DEF RowAt
  <2> HIDE DEF r
  <2>3. Len(From(r, p)) = Len(r) - p /\ \A k \in 1 .. Len(r) - p : From(r, p)[k] = r[p + k]
    BY <2>1, <2>2, FromProperties
  <2> SUFFICES ASSUME NEW k \in 1 .. Len(fpga.iseq)
               PROVE  fpga.iseq[k].op \in {"WAIT", "PRE", "END"}
    BY DEF Harmless
  <2>4. k \in 1 .. Len(r) - p /\ fpga.iseq[k] = r[p + k]
    BY <2>2, <2>3
  <2>5. p + k \in 2 * N + 4 .. 2 * N + 8
    BY <1>3, <1>7, <2>1, <2>2, <2>4
  <2>6. QED BY <2>1, <2>4, <2>5
<1>10. QED BY <1>8, <1>9

LEMMA RecvLastKeeps ==
  ASSUME TestInv, Recv, NextColumn = NUM_BURSTS
  PROVE  TestInv'
<1> DEFINE col == NextColumn
           n == Len(seen)
<1>1. /\ ProgramTypes /\ SequenceInv /\ CursorInv /\ TimeInv /\ FpgaTypes /\ FpgaInv /\ SeenInv
      /\ OneEnd /\ ReportedWhereRead /\ HeldLongEnough
  BY DEF TestInv
<1>2. /\ pc' = AfterRow /\ rd' = NextRow(rd) /\ i' = i + 1 /\ clock' = clock + row_ms
      /\ UNCHANGED <<retention, wr, dimm_done, t0, row_ms>>
  BY DEF Recv, LastColumn
<1>3. /\ SequenceInv' /\ FpgaTypes' /\ OneEnd' /\ ReportedWhereRead' /\ HeldLongEnough'
      /\ seen' \in Seq(SeenType) /\ Len(seen') = n + 1 /\ n \in Nat
      /\ \A k \in 1 .. n : seen'[k] = seen[k]
      /\ seen'[n + 1].row = rd /\ seen'[n + 1].col = col
  BY RecvCommon
<1>4. /\ pc = "recv" /\ rd \in Row /\ col = NUM_BURSTS
      /\ fpga' = [held |-> fpga.held, iseq |-> fpga.iseq, bus |-> fpga.bus,
                  open |-> fpga.open, out |-> Tail(fpga.out), dram |-> fpga.dram]
  BY RecvBurst
<1>5. /\ NextRow(rd) \in Cursor /\ D(rd') = D(rd) + 1 /\ D(rd) \in Nat /\ D(wr) \in Nat
      /\ AfterRow = "read" => D(rd') < D(wr)
      /\ AfterRow # "read" => wr = rd'
  BY <1>1, <1>2, <1>4, RowDone, RowType, CursorType DEF ProgramTypes
<1>6. NUM_BURSTS \in Nat /\ NUM_BURSTS > 0 /\ i \in Nat /\ clock \in Nat /\ row_ms \in Nat
      /\ t0 \in Nat /\ retention \in Int
  BY <1>1, TestAssumption DEF ProgramTypes
<1>7. AfterRow \in {"read", "close", "turn_write"} /\ (AfterRow = "close" => dimm_done)
      /\ (AfterRow = "turn_write" => ~dimm_done)
  BY DEF AfterRow
<1>8. NextColumn' = 1
  <2>1. seen' # << >> /\ Len(seen') = n + 1
    BY <1>3
  <2>2. seen'[Len(seen')].row # rd'
    <3>1. rd # rd'
      BY <1>5
    <3>2. QED BY <1>3, <3>1
  <2>3. QED BY <2>1, <2>2 DEF NextColumn
<1>9. ProgramTypes'
  <2>1. i' \in Nat /\ clock' \in Nat /\ rd' \in Cursor /\ pc' \in {"read", "close", "turn_write"}
    BY <1>2, <1>5, <1>6, <1>7
  <2>2. retention > 0
    BY <1>1, <1>4 DEF ProgramTypes
  <2>3. QED BY <1>1, <1>2, <2>1, <2>2 DEF ProgramTypes, Pcs, Exits
<1>10. pc' = "read" => Group' = Group
  <2>1. Group = D(rd) - i
    BY <1>4 DEF Group, Reading
  <2>2. pc' = "read" => Group' = D(rd') - i'
    BY DEF Group, Reading, D
  <2>3. D(rd') - i' = D(rd) - i
    BY <1>2, <1>5, <1>6
  <2>4. QED BY <2>1, <2>2, <2>3
<1>11. CursorInv'
  <2>1. /\ Group >= 0 /\ D(wr) <= Group + group_size
        /\ dimm_done \/ D(wr) = Group + group_size
        /\ dimm_done <=> wr[2] = NUM_BANKS
    BY <1>1, <1>4 DEF CursorInv, Reading
  <2>2. group_size' = group_size /\ D(wr)' = D(wr)
    BY <1>2 DEF group_size, D
  <2>3. CASE pc' = "read"
    <3>1. /\ Group' >= 0 /\ (D(rd) < D(wr))' /\ D(wr)' <= Group' + group_size'
          /\ dimm_done' \/ D(wr)' = Group' + group_size'
      BY <1>2, <1>5, <1>10, <2>1, <2>2, <2>3 DEF D
    <3>2. QED BY <1>2, <2>1, <2>3, <3>1 DEF CursorInv, Before
  <2>4. CASE pc' \in {"close", "turn_write"}
    <3>1. wr' = rd' /\ (pc' = "close" => dimm_done') /\ (pc' = "turn_write" => ~dimm_done')
      BY <1>2, <1>5, <1>7, <2>4
    <3>2. QED BY <1>2, <2>1, <2>4, <3>1 DEF CursorInv, Before, Reading
  <2>5. QED BY <1>2, <1>7, <2>3, <2>4
<1>12. TimeInv'
  <2> DEFINE x == i * row_ms
  <2>1. clock >= t0 + retention + x
    BY <1>1, <1>4 DEF TimeInv, Reading
  <2>2. (i + 1) * row_ms = x + row_ms /\ x \in Int
    BY <1>6
  <2> HIDE DEF x
  <2>3. clock' >= t0 + retention + (i + 1) * row_ms
    <3>1. clock + row_ms >= t0 + retention + (x + row_ms)
      BY <1>6, <2>1, <2>2
    <3>2. QED BY <1>2, <2>2, <3>1
  <2>4. pc' # "write" /\ pc' # "turn_read"
    BY <1>2, <1>7
  <2>5. QED BY <1>2, <2>3, <2>4 DEF TimeInv
<1>13. FpgaInv'
  <2>1. Complete /\ fpga.bus = "READ"
    BY <1>1, <1>4 DEF FpgaInv
  <2>2. Harmless(fpga.iseq) /\ Tail(fpga.out) = << >>
    BY RowOver
  <2>3. /\ fpga'.iseq = fpga.iseq /\ fpga'.bus = fpga.bus /\ fpga'.dram = fpga.dram
        /\ fpga'.out = << >>
    BY <1>4, <2>2
  <2>4. Harmless(fpga.iseq)'
    BY <2>2, <2>3 DEF Harmless
  <2>5. pc' = "read" => Complete'
    BY <1>2, <1>10, <2>1, <2>3, CompleteKept
  <2>6. QED BY <1>2, <1>7, <2>1, <2>3, <2>4, <2>5 DEF FpgaInv, Before
<1>14. SeenInv'
  <2>1. ASSUME NEW k \in 1 .. n + 1 PROVE SeenRow(seen[k])'
    <3>1. seen'[k].row \in Row /\ seen'[k].col \in 1 .. NUM_BURSTS
      <4>1. k \in 1 .. Len(seen')
        BY <1>3
      <4>2. seen'[k] \in SeenType
        BY <1>3, <4>1, ElementOfSeq
      <4>3. QED BY <4>2 DEF SeenType
    <3>2. D(seen'[k].row) < D(rd')
      <4>1. CASE k = n + 1
        BY <1>3, <1>5, <4>1
      <4>2. CASE k # n + 1
        <5>1. k \in 1 .. n
          BY <1>3, <4>2
        <5>2. SeenRow(seen[k]) /\ seen'[k] = seen[k]
          BY <1>1, <1>3, <5>1 DEF SeenInv
        <5>3. D(seen'[k].row) < D(rd) \/ D(seen'[k].row) = D(rd)
          BY <5>2 DEF SeenRow
        <5>4. D(seen'[k].row) \in Nat
          BY <3>1, RowType, CursorType
        <5>5. QED BY <1>5, <5>3, <5>4
      <4>3. QED BY <4>1, <4>2
    <3>3. QED BY <3>1, <3>2 DEF SeenRow, D
  <2>2. Len(seen') = D(rd') * NUM_BURSTS + NextColumn' - 1
    <3> DEFINE x == D(rd) * NUM_BURSTS
               a == D(rd)
    <3>1. n = x + NUM_BURSTS - 1
      BY <1>1, <1>4 DEF SeenInv
    <3>2. x \in Int /\ (a + 1) * NUM_BURSTS = x + NUM_BURSTS
      BY <1>5, <1>6
    <3>3. D(rd') = a + 1
      BY <1>5
    <3> HIDE DEF x, a
    <3>4. Len(seen') = (a + 1) * NUM_BURSTS + 1 - 1
      BY <1>3, <1>6, <3>1, <3>2
    <3>5. QED BY <1>8, <3>3, <3>4
  <2>3. ASSUME NEW c \in Row, NEW j \in 1 .. NUM_BURSTS, D(c) < D(rd')
        PROVE  \E k \in 1 .. n + 1 : seen'[k].row = c /\ seen'[k].col = j
    <3>0. D(c) \in Nat /\ (D(c) = D(rd) => c = rd)
      BY <1>4, RowType, CursorType, RowNumber
    <3>1. CASE D(c) < D(rd) \/ (c = rd /\ j < col)
      <4>1. PICK k \in 1 .. n : seen[k].row = c /\ seen[k].col = j
        BY <1>1, <3>1 DEF SeenInv
      <4>2. k \in 1 .. n + 1 /\ seen'[k] = seen[k]
        BY <1>3, <4>1
      <4>3. QED BY <4>1, <4>2
    <3>2. CASE ~(D(c) < D(rd) \/ (c = rd /\ j < col))
      <4>1. D(c) = D(rd)
        BY <1>5, <2>3, <3>0, <3>2
      <4>2. c = rd
        BY <3>0, <4>1
      <4>3. j = col
        BY <1>4, <1>6, <3>2, <4>2
      <4>4. n + 1 \in 1 .. n + 1
        BY <1>3
      <4>5. QED BY <1>3, <4>2, <4>3, <4>4
    <3>3. QED BY <3>1, <3>2
  <2>4. seen' \in Seq([row : Row, col : 1 .. NUM_BURSTS, burst : Bursts, written : Int,
                       held : Int])
    BY <1>3 DEF SeenType
  <2>5. \A k \in 1 .. Len(seen') : SeenRow(seen[k])'
    BY <1>3, <2>1
  <2>6. \A c \in Row, j \in 1 .. NUM_BURSTS :
          D(c) < D(rd') \/ (c = rd' /\ j < NextColumn') =>
            \E k \in 1 .. Len(seen') : seen'[k].row = c /\ seen'[k].col = j
    BY <1>3, <1>8, <2>3
  <2>7. QED BY <2>2, <2>4, <2>5, <2>6 DEF SeenInv, D
<1>15. QED BY <1>3, <1>9, <1>11, <1>12, <1>13, <1>14 DEF TestInv

\* A burst received.
LEMMA RecvKeeps ==
  ASSUME TestInv, Recv
  PROVE  TestInv'
<1>1. NextColumn \in 1 .. NUM_BURSTS
  BY RecvBurst
<1>2. CASE NextColumn = NUM_BURSTS
  BY <1>2, RecvLastKeeps
<1>3. CASE NextColumn # NUM_BURSTS
  BY <1>1, <1>3, RecvMoreKeeps
<1>4. QED BY <1>2, <1>3

\* A step that changes nothing.
LEMMA StutterKeeps ==
  ASSUME TestInv, UNCHANGED testVars
  PROVE  TestInv'
<1>1. /\ ProgramTypes /\ SequenceInv /\ CursorInv /\ TimeInv /\ FpgaTypes /\ FpgaInv /\ SeenInv
      /\ OneEnd /\ ReportedWhereRead /\ HeldLongEnough
  BY DEF TestInv
<1>2. /\ UNCHANGED <<pc, retention, wr, rd, i, dimm_done, t0, clock, row_ms, fpga, seen>>
      /\ UNCHANGED sequence /\ UNCHANGED <<iseq, todo, building>>
  BY DEF testVars, cursors, time, sequence
<1>3. SequenceInv'
  <2>1. Target' = Target
    BY <1>2 DEF Target
  <2>2. QED BY <1>1, <1>2, <2>1 DEF SequenceInv, Sequence
<1>4. ProgramTypes' /\ CursorInv' /\ TimeInv'
  BY <1>1, <1>2 DEF ProgramTypes, CursorInv, TimeInv, Reading, Group, D, group_size
<1>5. FpgaTypes' /\ OneEnd' /\ ReportedWhereRead' /\ HeldLongEnough'
  BY <1>1, <1>2 DEF FpgaTypes, OneEnd, ReportedWhereRead, HeldLongEnough
<1>6. SeenInv'
  BY <1>1, <1>2 DEF SeenInv, SeenRow, NextColumn, D
<1>7. FpgaInv'
  <2>1. Group' = Group
    BY <1>2, GroupKept
  <2>2. ReadRunning => ReadRunning'
    BY <1>2 DEF ReadRunning, RowAt, NextColumn
  <2>3. WriteRunning => WriteRunning'
    BY <1>2, <2>1 DEF WriteRunning, RowAt, NextRow, Stored, D
  <2>4. Complete => Complete'
    BY <1>2, <2>1 DEF Complete, Stored, D
  <2>5. (\E p \in 0 .. 3 : BusAt("WRITE", p)) => (\E p \in 0 .. 3 : BusAt("WRITE", p))'
    BY <1>2 DEF BusAt
  <2>6. (\E p \in 0 .. 3 : BusAt("READ", p)) => (\E p \in 0 .. 3 : BusAt("READ", p))'
    BY <1>2 DEF BusAt
  <2>7. Harmless(fpga.iseq) => Harmless(fpga.iseq)'
    BY <1>2
  <2>8. QED BY <1>1, <1>2, <2>2, <2>3, <2>4, <2>5, <2>6, <2>7 DEF FpgaInv
<1>8. QED BY <1>3, <1>4, <1>5, <1>6, <1>7 DEF TestInv

LEMMA StepKeeps ==
  ASSUME TestInv, [TestNext]_testVars
  PROVE  TestInv'
<1>1. CASE Args \/ List \/ Open
  BY <1>1, BeginKeeps
<1>2. CASE Calling \/ Insert
  BY <1>2, BuildingKeeps
<1>3. CASE TurnWrite
  BY <1>3, TurnWriteKeeps
<1>4. CASE WriteRow
  BY <1>4, WriteRowKeeps
<1>5. CASE TurnRead
  BY <1>5, TurnReadKeeps
<1>6. CASE WaitRetention
  BY <1>6, WaitKeeps
<1>7. CASE ReadRow
  BY <1>7, ReadRowKeeps
<1>8. CASE Recv
  BY <1>8, RecvKeeps
<1>9. CASE Close
  BY <1>9, CloseKeeps
<1>10. CASE FpgaStep
  BY <1>10, FpgaStepKeeps
<1>11. CASE Exited \/ UNCHANGED testVars
  BY <1>11, StutterKeeps DEF Exited
<1>12. QED BY <1>1, <1>2, <1>3, <1>4, <1>5, <1>6, <1>7, <1>8, <1>9, <1>10, <1>11
           DEF TestNext, TestProgram

-----------------------------------------------------------------------------
(* The theorems.                                                           *)

\* The program's place, its cursors and its timer, the sequence it builds, what the
\* FPGA has still to execute, the DRAM and the bursts compared are related as
\* TestInv says, whatever the sizes of the DIMM, the argument of the program and
\* the speed of the machine.
THEOREM TestInvariant == TestSpec => []TestInv
<1>1. TestInit => TestInv
  BY InitInv
<1>2. TestInv /\ [TestNext]_testVars => TestInv'
  BY StepKeeps
<1>3. QED BY <1>1, <1>2, PTL DEF TestSpec

\* insertInstruction, the growing of the array and the reuse of the object by
\* writeRow, readAndCompareRow and turnBus never send the FPGA a sequence without
\* an END, with one before its end, or with a word that was not inserted.
THEOREM SequencesEnd == TestSpec => []OneEnd
<1>1. TestInv => OneEnd
  BY DEF TestInv
<1>2. QED BY <1>1, TestInvariant, PTL

\* The burst that readAndCompareRow receives is the one of the row and column its
\* message names, across the end of a bank and in a group that is cut short.
THEOREM MessagesNameTheBurst == TestSpec => []ReportedWhereRead
<1>1. TestInv => ReportedWhereRead
  BY DEF TestInv
<1>2. QED BY <1>1, TestInvariant, PTL

\* testRetention compares no burst sooner than the retention time after its writing,
\* but for the time of one row, although it starts one timer for a group.
THEOREM RowsAreHeld == TestSpec => []HeldLongEnough
<1>1. TestInv => HeldLongEnough
  BY DEF TestInv
<1>2. QED BY <1>1, TestInvariant, PTL

LEMMA CoveredAtEnd ==
  ASSUME TestInv, pc = "exit0"
  PROVE  /\ { seen[k].burst : k \in 1 .. Len(seen) } = Bursts
         /\ Len(seen) = NUM_BANKS * NUM_ROWS * NUM_BURSTS
         /\ fpga.out = << >> /\ ~fpga.held
<1>1. ProgramTypes /\ CursorInv /\ FpgaInv /\ SeenInv /\ ReportedWhereRead
  BY DEF TestInv
<1>2. fpga.out = << >> /\ ~fpga.held
  BY <1>1 DEF FpgaInv
<1>3. rd \in Cursor /\ rd[2] = NUM_BANKS
  BY <1>1 DEF ProgramTypes, CursorInv
<1>4. D(rd) = NUM_BANKS * NUM_ROWS
  BY <1>3, LastNumber
<1>5. Len(seen) = NUM_BANKS * NUM_ROWS * NUM_BURSTS
  <2> DEFINE x == NUM_BANKS * NUM_ROWS * NUM_BURSTS
  <2>1. NextColumn = 1
    BY <1>1, NextColumnFirst
  <2>2. Len(seen) = x + 1 - 1
    BY <1>1, <1>4, <2>1 DEF SeenInv
  <2>3. x \in Int
    BY TestAssumption
  <2> HIDE DEF x
  <2>4. Len(seen) = x
    BY <2>2, <2>3
  <2>5. QED BY <2>4 DEF x
<1>6. ASSUME NEW k \in 1 .. Len(seen) PROVE seen[k].burst \in Bursts
  <2>1. seen \in Seq([row : Row, col : 1 .. NUM_BURSTS, burst : Bursts, written : Int,
                      held : Int])
    BY <1>1 DEF SeenInv
  <2>2. seen[k] \in [row : Row, col : 1 .. NUM_BURSTS, burst : Bursts, written : Int,
                     held : Int]
    BY <1>6, <2>1, ElementOfSeq
  <2>3. QED BY <2>2
<1>7. ASSUME NEW b \in Bursts PROVE \E k \in 1 .. Len(seen) : seen[k].burst = b
  <2>1. /\ b = <<b[1], b[2], b[3]>> /\ b[1] \in 0 .. NUM_BANKS - 1
        /\ b[2] \in 0 .. NUM_ROWS - 1 /\ b[3] \in 1 .. NUM_BURSTS
    BY DEF Bursts
  <2> DEFINE c == <<b[2], b[1]>>
  <2>2. c \in Row /\ c[1] = b[2] /\ c[2] = b[1]
    BY <2>1 DEF Row
  <2> HIDE DEF c
  <2>3. c \in Cursor
    BY <2>2, RowType
  <2>4. D(c) < D(rd)
    BY <1>3, <2>2, <2>3, BehindLast
  <2>5. PICK k \in 1 .. Len(seen) : seen[k].row = c /\ seen[k].col = b[3]
    BY <1>1, <2>1, <2>2, <2>4 DEF SeenInv
  <2>6. seen[k].burst = <<c[2], c[1], b[3]>>
    BY <1>1, <2>5 DEF ReportedWhereRead, Burst
  <2>7. seen[k].burst = b
    BY <2>1, <2>2, <2>6
  <2>8. QED BY <2>5, <2>7
<1>8. { seen[k].burst : k \in 1 .. Len(seen) } = Bursts
  BY <1>6, <1>7
<1>9. QED BY <1>2, <1>5, <1>8

\* "The test has been completed!": the do loop over the groups, with its two cursors
\* and its two conditions on the end of the DIMM, has written every burst and then
\* compared it once, and the device is closed with nothing left to receive.
THEOREM CompletedTestCovers == TestSpec => []CompletedMeansCovered
<1>1. TestInv => CompletedMeansCovered
  BY CoveredAtEnd DEF CompletedMeansCovered
<1>2. QED BY <1>1, TestInvariant, PTL
=============================================================================
